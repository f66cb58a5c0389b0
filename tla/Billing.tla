------------------------------ MODULE Billing -------------------------------
(***************************************************************************)
(* Electronic invoicing of sales: enqueueSaleAfipInvoice                   *)
(* (modules/sales/services/salesService.ts), the BullMQ queue and worker   *)
(* (config/queues.ts) and the fiscal authority, AFIP, which numbers and    *)
(* authorises vouchers.                                                    *)
(*                                                                         *)
(* Each call of enqueueSaleAfipInvoice adds at most one job, so a job is   *)
(* named by the call that adds it.  There is one worker, with the default  *)
(* concurrency of one run.  The queue lives in Redis and survives a crash  *)
(* of the process; everything else that is in progress does not.           *)
(***************************************************************************)
EXTENDS Integers, Sequences, FiniteSets

CONSTANTS
  Sales,        \* sales just created, billingStatus NOT_INVOICED
  Fiscal,       \* those of invoice type A, B or C
  Deletions,    \* those that somebody deletes (deleteSale) at some moment
  Calls,        \* calls of enqueueSaleAfipInvoice, each made once
  MaxAttempts,  \* defaultJobOptions.attempts (4 in the code)
  MaxStalls,    \* maxStalledCount of BullMQ (1 by default)
  Scheduler,    \* some process promotes delayed and recovers stalled jobs
  Faults,       \* what may go wrong, out of Fault
  MaxMishaps,   \* bound: how many different faults hit calls and jobs
  NoRun         \* the worker is idle

\* refuse:  AFIP answers with an error, or cannot be reached
\* lost:    AFIP authorises the voucher but its answer does not arrive
\* timeout: afipQueue.add takes longer than the timeout of the race
\* store:   a write to MongoDB fails
\* stall:   the worker loses the lock of the job it is running
\* crash:   the process dies
Fault == {"refuse", "lost", "timeout", "store", "stall", "crash"}

ASSUME BillingAssumption ==
  /\ Fiscal \subseteq Sales
  /\ Deletions \subseteq Sales
  /\ MaxAttempts \in Nat \ {0}
  /\ MaxStalls \in Nat
  /\ Scheduler \in BOOLEAN
  /\ Faults \subseteq Fault
  /\ MaxMishaps \in Nat
  /\ NoRun \notin Calls

VARIABLES
  billing,   \* billing[s]: Sale.billingStatus, or DELETED
  voucher,   \* voucher[s]: Sale.voucherNumber, 0 if none (cae goes with it)
  target,    \* target[c]: the sale that call c invoices
  pc,        \* pc[c]: what call c does next, or how it ended
  late,      \* late[c]: the add of c lost the race and is still outstanding
  job,       \* job[c]: the state in the queue of the job of c
  attempts,  \* attempts[c]: attemptsMade
  stalls,    \* stalls[c]: times the job was taken back from a run
  run,       \* the job the worker is running
  step,      \* what that run does next
  got,       \* the voucher number that run received
  afip,      \* afip[n]: the job that AFIP authorised voucher n for
  mishaps    \* mishaps[c]: the faults that hit call c or its job (history)

callVars == <<target, pc, late>>
jobVars  == <<job, attempts, stalls>>
runVars  == <<run, step, got>>
vars     == <<billing, voucher, callVars, jobVars, runVars, afip, mishaps>>

Busy      == {"mark", "add", "undo"}
CallState == {"new", "done", "rejected", "failed", "crashed"} \cup Busy
JobState  == {"absent", "wait", "active", "delayed", "done", "dead"}
Status    == {"NOT_INVOICED", "NONE", "PENDING", "FAILED", "COMPLETED",
              "DELETED"}

\* Sale.findByIdAndUpdate: nothing happens when the sale is gone.
Update(s, status) ==
  billing' = [billing EXCEPT ![s] = IF @ = "DELETED" THEN @ ELSE status]
\* A fault hits call c or its job; the bound is on the model, not in the code.
Room == Cardinality({x \in Calls \X Fault : x[2] \in mishaps[x[1]]}) < MaxMishaps
Hit(c, fault) == Room /\ mishaps' = [mishaps EXCEPT ![c] = @ \cup {fault}]
-----------------------------------------------------------------------------
Init ==
  /\ billing = [s \in Sales |-> IF s \in Fiscal THEN "NOT_INVOICED"
                                ELSE "NONE"]
  /\ voucher = [s \in Sales |-> 0]
  /\ target \in [Calls -> Sales]
  /\ pc = [c \in Calls |-> "new"]
  /\ late = [c \in Calls |-> FALSE]
  /\ job = [c \in Calls |-> "absent"]
  /\ attempts = [c \in Calls |-> 0]
  /\ stalls = [c \in Calls |-> 0]
  /\ run = NoRun
  /\ step = "idle"
  /\ got = 0
  /\ afip = << >>
  /\ mishaps = [c \in Calls |-> {}]

(* One call of enqueueSaleAfipInvoice *)

\* Sale.findById and the guards on its type and status.
Eligible(s) == s \in Fiscal /\ billing[s] \in {"NOT_INVOICED", "FAILED"}
Check(c) ==
  /\ pc[c] = "new"
  /\ pc' = [pc EXCEPT ![c] = IF Eligible(target[c]) THEN "mark"
                             ELSE "rejected"]
  /\ UNCHANGED <<billing, voucher, target, late, jobVars, runVars, afip, mishaps>>

\* Sale.findByIdAndUpdate with billingStatus PENDING, whatever it is by now.
Mark(c) ==
  /\ pc[c] = "mark"
  /\ \/ /\ Update(target[c], "PENDING")
        /\ pc' = [pc EXCEPT ![c] = "add"]
        /\ UNCHANGED mishaps
     \/ /\ "store" \in Faults
        /\ Hit(c, "store")
        /\ pc' = [pc EXCEPT ![c] = "failed"]
        /\ UNCHANGED billing
  /\ UNCHANGED <<voucher, target, late, jobVars, runVars, afip>>

\* afipQueue.add answers in time.
Add(c) ==
  /\ pc[c] = "add"
  /\ pc' = [pc EXCEPT ![c] = "done"]
  /\ job' = [job EXCEPT ![c] = "wait"]
  /\ UNCHANGED <<billing, voucher, target, late, attempts, stalls, runVars,
                 afip, mishaps>>

\* Promise.race rejects: the timeout came first and the command stays in the
\* client's offline queue, or the add failed, or the queue is disabled.
AddFails(c) ==
  /\ pc[c] = "add"
  /\ pc' = [pc EXCEPT ![c] = "undo"]
  /\ \/ UNCHANGED <<late, mishaps>>
     \/ /\ "timeout" \in Faults
        /\ Hit(c, "timeout")
        /\ late' = [late EXCEPT ![c] = TRUE]
  /\ UNCHANGED <<billing, voucher, target, jobVars, runVars, afip>>

\* The add that lost the race takes effect all the same.
LateAdd(c) ==
  /\ late[c]
  /\ late' = [late EXCEPT ![c] = FALSE]
  /\ job' = [job EXCEPT ![c] = "wait"]
  /\ UNCHANGED <<billing, voucher, target, pc, attempts, stalls, runVars,
                 afip, mishaps>>

\* The catch: billingStatus FAILED, and the error goes to the user.
Undo(c) ==
  /\ pc[c] = "undo"
  /\ \/ Update(target[c], "FAILED") /\ UNCHANGED mishaps
     \/ "store" \in Faults /\ Hit(c, "store") /\ UNCHANGED billing
  /\ pc' = [pc EXCEPT ![c] = "failed"]
  /\ UNCHANGED <<voucher, target, late, jobVars, runVars, afip>>

(* The queue and its worker *)

\* The worker is free and takes a job.
Take(c) ==
  /\ run = NoRun
  /\ job[c] = "wait"
  /\ job' = [job EXCEPT ![c] = "active"]
  /\ run' = c
  /\ step' = "ask"
  /\ UNCHANGED <<billing, voucher, callVars, attempts, stalls, got, afip, mishaps>>

\* afipService.createInvoice: the next number after AFIP's last one.  It asks
\* AFIP unconditionally; the worker does not look at the sale first.
MutCreateInvoice ==
  /\ step = "ask"
  /\ \/ /\ afip' = Append(afip, run)
        /\ got' = Len(afip)
        /\ step' = "store"
     \/ /\ "refuse" \in Faults
        /\ step' = "catch"
        /\ UNCHANGED <<got, afip, mishaps>>
  /\ UNCHANGED <<billing, voucher, callVars, jobVars, run, mishaps>>
CreateInvoice ==
  /\ step = "ask"
  /\ \/ /\ afip' = Append(afip, run)
        /\ got' = Len(afip) + 1
        /\ step' = "store"
        /\ UNCHANGED mishaps
     \/ /\ "lost" \in Faults
        /\ Hit(run, "lost")
        /\ afip' = Append(afip, run)
        /\ step' = "catch"
        /\ UNCHANGED got
     \/ /\ "refuse" \in Faults
        /\ step' = "catch"
        /\ UNCHANGED <<got, afip, mishaps>>
  /\ UNCHANGED <<billing, voucher, callVars, jobVars, run>>

\* Sale.findByIdAndUpdate with the voucher and billingStatus COMPLETED.
MutStore ==
  /\ step = "store"
  /\ Update(target[run], "COMPLETED")
  /\ voucher' = [voucher EXCEPT ![target[run]] = got]
  /\ step' = "error"
  /\ UNCHANGED <<callVars, jobVars, run, got, afip, mishaps>>
Store ==
  /\ step = "store"
  /\ \/ /\ Update(target[run], "COMPLETED")
        /\ voucher' = [voucher EXCEPT ![target[run]] =
                         IF billing[target[run]] = "DELETED" THEN @ ELSE got]
        /\ step' = "ok"
        /\ UNCHANGED mishaps
     \/ /\ "store" \in Faults
        /\ Hit(run, "store")
        /\ step' = "catch"
        /\ UNCHANGED <<billing, voucher>>
  /\ UNCHANGED <<callVars, jobVars, run, got, afip>>

\* The catch of the worker: billingStatus FAILED, then rethrow.
MutCatch ==
  /\ step = "catch"
  /\ step' = "error"
  /\ UNCHANGED <<billing, voucher, callVars, jobVars, run, got, afip, mishaps>>
Catch ==
  /\ step = "catch"
  /\ \/ Update(target[run], "FAILED") /\ UNCHANGED mishaps
     \/ "store" \in Faults /\ Hit(run, "store") /\ UNCHANGED billing
  /\ step' = "error"
  /\ UNCHANGED <<voucher, callVars, jobVars, run, got, afip>>

\* BullMQ records how the run ended, if the run still owns the job.
MutFinishRun ==
  /\ step \in {"ok", "error"}
  /\ IF job[run] # "active" THEN UNCHANGED <<job, attempts>>
     ELSE IF step = "ok"
          THEN job' = [job EXCEPT ![run] = "done"] /\ UNCHANGED attempts
          ELSE /\ attempts' = [attempts EXCEPT ![run] = @ + 1]
               /\ job' = [job EXCEPT ![run] =
                            IF attempts[run] < MaxAttempts THEN "delayed"
                            ELSE "dead"]
  /\ run' = NoRun
  /\ step' = "idle"
  /\ got' = 0
  /\ UNCHANGED <<billing, voucher, callVars, stalls, afip, mishaps>>
FinishRun ==
  /\ step \in {"ok", "error"}
  /\ IF job[run] # "active" THEN UNCHANGED <<job, attempts>>
     ELSE IF step = "ok"
          THEN job' = [job EXCEPT ![run] = "done"] /\ UNCHANGED attempts
          ELSE /\ attempts' = [attempts EXCEPT ![run] = @ + 1]
               /\ job' = [job EXCEPT ![run] =
                            IF attempts[run] + 1 < MaxAttempts THEN "delayed"
                            ELSE "dead"]
  /\ run' = NoRun
  /\ step' = "idle"
  /\ got' = 0
  /\ UNCHANGED <<billing, voucher, callVars, stalls, afip, mishaps>>

\* The backoff of a job is over.
Promote(c) ==
  /\ Scheduler
  /\ job[c] = "delayed"
  /\ job' = [job EXCEPT ![c] = "wait"]
  /\ UNCHANGED <<billing, voucher, callVars, attempts, stalls, runVars, afip, mishaps>>

\* A job whose lock was not renewed goes back to the queue.
Recover(c) ==
  /\ Scheduler
  /\ job[c] = "active"
  /\ \/ run # c /\ UNCHANGED mishaps
     \/ run = c /\ "stall" \in Faults /\ Hit(c, "stall")
  /\ stalls' = [stalls EXCEPT ![c] = @ + 1]
  /\ job' = [job EXCEPT ![c] = IF stalls[c] < MaxStalls THEN "wait"
                               ELSE "dead"]
  /\ UNCHANGED <<billing, voucher, callVars, attempts, runVars, afip>>

(* The environment *)

\* deleteSale removes the sale; it does not look at billingStatus.
DeleteSale(s) ==
  /\ s \in Deletions
  /\ billing[s] # "DELETED"
  /\ billing' = [billing EXCEPT ![s] = "DELETED"]
  /\ voucher' = [voucher EXCEPT ![s] = 0]
  /\ UNCHANGED <<callVars, jobVars, runVars, afip, mishaps>>

\* The process dies: calls, outstanding adds and the run go with it.
Crash ==
  /\ "crash" \in Faults /\ Room
  /\ run # NoRun \/ \E c \in Calls : pc[c] \in Busy \/ late[c]
  /\ pc' = [c \in Calls |-> IF pc[c] \in Busy THEN "crashed" ELSE pc[c]]
  /\ mishaps' = [c \in Calls |-> IF pc[c] \in Busy \/ late[c] \/ run = c
                                 THEN mishaps[c] \cup {"crash"}
                                 ELSE mishaps[c]]
  /\ late' = [c \in Calls |-> FALSE]
  /\ run' = NoRun
  /\ step' = "idle"
  /\ got' = 0
  /\ UNCHANGED <<billing, voucher, target, jobVars, afip>>

Enqueue(c) == Check(c) \/ Mark(c) \/ Add(c) \/ AddFails(c) \/ Undo(c)
Work == CreateInvoice \/ Store \/ Catch \/ FinishRun

\* Nothing is left to do.
Idle ==
  /\ run = NoRun
  /\ \A c \in Calls :
       /\ pc[c] \notin Busy \cup {"new"}
       /\ ~ late[c]
       /\ job[c] \in IF Scheduler THEN {"absent", "done", "dead"}
                     ELSE JobState \ {"wait"}
  /\ UNCHANGED vars

Next ==
  \/ \E c \in Calls : \/ Enqueue(c) \/ LateAdd(c)
                      \/ Take(c) \/ Promote(c) \/ Recover(c)
  \/ Work
  \/ \E s \in Sales : DeleteSale(s)
  \/ Crash
  \/ Idle

Spec == Init /\ [][Next]_vars

\* A call goes on to its end, a free worker takes a waiting job and runs it to
\* its end, and the scheduler, when there is one, does its rounds.
FairSpec ==
  /\ Spec
  /\ \A c \in Calls : /\ WF_vars(Enqueue(c))
                      /\ WF_vars(Promote(c))
                      /\ WF_vars(run # c /\ Recover(c))
  /\ WF_vars(\E c \in Calls : Take(c))
  /\ WF_vars(Work)
-----------------------------------------------------------------------------
(* Properties *)

\* Type correctness; a job, a run or a voucher exists only where the call
\* behind it got that far.
TypeOK ==
  /\ billing \in [Sales -> Status]
  /\ voucher \in [Sales -> Nat]
  /\ target \in [Calls -> Sales]
  /\ pc \in [Calls -> CallState]
  /\ late \in [Calls -> BOOLEAN]
  /\ job \in [Calls -> JobState]
  /\ attempts \in [Calls -> 0..MaxAttempts]
  /\ stalls \in [Calls -> 0..(MaxStalls + 1)]
  /\ run \in Calls \cup {NoRun}
  /\ step \in {"idle", "ask", "store", "catch", "ok", "error"}
  /\ got \in Nat
  /\ afip \in Seq(Calls)
  /\ mishaps \in [Calls -> SUBSET Faults]

\* The vouchers AFIP authorised for a job, and for a sale.
IssuedTo(c) == {n \in DOMAIN afip : afip[n] = c}
Issued(s) == {n \in DOMAIN afip : target[afip[n]] = s}

\* The number printed on the invoice of a sale is a voucher that AFIP
\* authorised for that very sale, whatever retries, crashes, lost answers and
\* concurrent calls came between; no sale is COMPLETED without one, and AFIP is
\* never asked for one of a sale that needs no fiscal invoice.
VoucherIsOurs ==
  \A s \in Sales :
    /\ voucher[s] # 0 => voucher[s] \in Issued(s)
    /\ billing[s] = "COMPLETED" => voucher[s] # 0
    /\ s \notin Fiscal => Issued(s) = {}

\* Somebody is still working on the invoice of s: a call that has marked it
\* and not ended, or a job that the queue has not given up.
InProgress(s) ==
  \E c \in Calls : /\ target[c] = s
                   /\ \/ pc[c] \in {"add", "undo"}
                      \/ job[c] \in {"wait", "active"}
                      \/ run = c

\* Calls and jobs for s that one of these faults has hit.
Hurt(s, faults) == {c \in Calls : target[c] = s /\ mishaps[c] \cap faults # {}}

\* PENDING means what enqueueSaleAfipInvoice tells the user: "La venta ya
\* tiene una facturacion en proceso".  Otherwise the sale is stuck: every later
\* call is rejected and nobody will ever change its status.  Only the death of
\* the process or a failed write, while at work for that very sale, can do it.
PendingInProgress ==
  \A s \in Sales : billing[s] = "PENDING" =>
    InProgress(s) \/ Hurt(s, {"crash", "store"}) # {}

\* Such a sale leaves PENDING.
PendingEnds ==
  \A s \in Sales :
    (billing[s] = "PENDING") ~>
      (billing[s] # "PENDING" \/ Hurt(s, {"crash", "store"}) # {})

\* Retries alone do not invoice twice: a job has two vouchers only if one of
\* its own answers, writes, locks or processes was lost, whatever happened to
\* the others.
Doubling == {"lost", "store", "stall", "crash"}
JobInvoicesOnce ==
  \A c \in Calls :
    mishaps[c] \cap Doubling = {} => Cardinality(IssuedTo(c)) <= 1

\* When only one call for a sale got past the check, and no fault but a refusal
\* hit it, status and voucher say exactly what AFIP did, except while the job
\* is being run.
Accepted(s) == {c \in Calls : target[c] = s /\ pc[c] \notin {"new", "rejected"}}
Settled(s) == run = NoRun \/ target[run] # s
OneCallIsExact ==
  \A s \in Sales :
    (/\ Cardinality(Accepted(s)) <= 1
     /\ Hurt(s, Fault) = {}
     /\ Settled(s)
     /\ billing[s] # "DELETED")
      => /\ Issued(s) = IF voucher[s] = 0 THEN {} ELSE {voucher[s]}
         /\ Issued(s) # {} <=> billing[s] = "COMPLETED"

\* "La venta ya fue facturada": a sale is authorised at most once.
InvoicedOnce == \A s \in Sales : Cardinality(Issued(s)) <= 1
-----------------------------------------------------------------------------
(* Why the properties hold: invariants that are inductive together *)

\* A call has no job before its add, and an add that is outstanding none yet.
AddedOnce ==
  \A c \in Calls :
    /\ late[c] => job[c] = "absent"
    /\ pc[c] \in {"new", "rejected", "mark", "add"} => job[c] = "absent" /\ ~ late[c]

\* A job that is not over has an attempt and a stall left.
JobsBounded ==
  \A c \in Calls : job[c] \notin {"done", "dead"} =>
    attempts[c] < MaxAttempts /\ stalls[c] <= MaxStalls

\* The worker runs an active job and no other is active, unless a crash left it
\* so or the queue took the job back.
RunOwnsJob ==
  /\ run = NoRun <=> step = "idle"
  /\ \A c \in Calls :
       /\ run = c => job[c] # "absent"
       /\ run = c /\ job[c] # "active" => "stall" \in mishaps[c]
       /\ run # c /\ job[c] = "active" => "crash" \in mishaps[c]

\* Whoever got past the check speaks of a fiscal sale, and so does AFIP.
CheckedFirst ==
  /\ \A c \in Calls : pc[c] \notin {"new", "rejected"} => target[c] \in Fiscal
  /\ \A n \in DOMAIN afip : target[afip[n]] \in Fiscal

\* The number that a run is about to store was authorised for its job.
GotOurs == step = "store" => got \in DOMAIN afip /\ afip[got] = run

\* A job that lost nothing has at most one voucher, and once it has it, is done
\* or about to be.
AuthorisedOnce ==
  \A c \in Calls : mishaps[c] \cap Doubling = {} =>
    /\ \A m, n \in IssuedTo(c) : m = n
    /\ IssuedTo(c) # {} => job[c] = "done" \/ (run = c /\ step \in {"store", "ok"})

\* Whoever will change a status that is PENDING: a call that has marked the sale,
\* a job that waits, or a run that has still to write how it ended.
WillChange(c) ==
  \/ pc[c] \in {"add", "undo"}
  \/ job[c] = "wait"
  \/ run = c /\ step \in {"ask", "store", "catch"}
PendingChanges ==
  \A s \in Sales : billing[s] = "PENDING" =>
    \/ \E c \in Calls : target[c] = s /\ WillChange(c)
    \/ Hurt(s, {"crash", "store"}) # {}

\* A call that gives up has no job, unless its add lost the race.
UndoneInTime ==
  \A c \in Calls : pc[c] = "undo" /\ (late[c] \/ job[c] # "absent")
                     => "timeout" \in mishaps[c]

\* Where the number of a sale is when one call at most works on it, unhurt: with
\* the run that is about to store it, then on the sale; before that, nowhere.
Lone(s) ==
  /\ \A c, d \in Accepted(s) : c = d
  /\ Hurt(s, Fault) = {}
  /\ billing[s] # "DELETED"
Storing(s) == step = "store" /\ target[run] = s
Invoiced(s) ==
  \/ step = "ok" /\ target[run] = s
  \/ \E c \in Calls : target[c] = s /\ job[c] = "done"
Exact(s) ==
  /\ Issued(s) = IF Storing(s) THEN {got}
                 ELSE IF Invoiced(s) THEN {voucher[s]} ELSE {}
  /\ Storing(s) => ~ Invoiced(s)
  /\ Invoiced(s) <=> voucher[s] # 0
  /\ Invoiced(s) <=> billing[s] = "COMPLETED"
LoneIsExact ==
  \A s \in Sales : IsFiniteSet(Accepted(s)) /\ (Lone(s) => Exact(s))

BillingInv ==
  /\ TypeOK /\ AddedOnce /\ JobsBounded /\ RunOwnsJob /\ CheckedFirst
  /\ GotOurs /\ VoucherIsOurs /\ AuthorisedOnce /\ PendingChanges
  /\ UndoneInTime /\ LoneIsExact
=============================================================================
