---------------------------- MODULE CreditNotes -----------------------------
(***************************************************************************)
(* Credit notes of sales: createCreditNote                                 *)
(* (modules/sales/services/salesService.ts) and the credit-note branch of  *)
(* the BullMQ worker (config/queues.ts).                                   *)
(*                                                                         *)
(* A note for a sale that AFIP has authorised is created PENDING and       *)
(* completed by the worker, which then gives the stock back line by line;  *)
(* a note for any other sale is internal, complete when created, and gives *)
(* the stock back itself.  The notes already created limit what the next   *)
(* one may credit, but nothing holds the sale between reading and writing. *)
(*                                                                         *)
(* A note is named by the call that creates it, and so is its job.  Lines  *)
(* are numbered; how giving one back changes rows and totals is Stock's    *)
(* subject.  Amounts are cents.                                            *)
(***************************************************************************)
EXTENDS Sums, FiniteSets

CONSTANTS
  Sales,        \* sales that exist at the beginning, status COMPLETED
  Invoiced,     \* those with billingStatus COMPLETED, CAE and voucher
  Neto, Iva,    \* Sale.totalNeto and Sale.totalIva
  Shipping,     \* what checkoutDirect added to Sale.total for the shipping
  Lines,        \* Lines[s]: how many lines sale s has
  Calls,        \* calls of createCreditNote, each of which may create a note
  Requests,     \* what they are asked for
  Deletions,    \* sales that somebody deletes at some moment
  MaxAttempts,  \* defaultJobOptions.attempts (4 in the code)
  MaxStalls,    \* maxStalledCount of BullMQ (1 by default)
  Faults,       \* what may go wrong, out of Fault
  MaxMishaps,   \* bound: how many calls or jobs are hit by a fault
  MaxRefusals,  \* bound: how often AFIP refuses, which is no mishap
  NoRun         \* the worker is idle

\* total counts only for PARTIAL notes.
Request == [sale : Sales, mode : {"TOTAL", "PARTIAL"}, stock : BOOLEAN,
            total : Nat \ {0}]

\* refuse:  AFIP answers with an error, or cannot be reached
\* lost:    AFIP authorises the note but its answer does not arrive
\* timeout: afipQueue.add takes longer than the timeout of the race
\* store:   a call of MongoDB fails
\* crash:   the process dies
Fault == {"refuse", "lost", "timeout", "store", "crash"}

ASSUME CreditNotesAssumption ==
  /\ Invoiced \subseteq Sales
  /\ Neto \in [Sales -> Nat] /\ Iva \in [Sales -> Nat]
  /\ Shipping \in [Sales -> Nat]
  /\ \A s \in Sales : Neto[s] + Iva[s] > 0
  /\ Lines \in [Sales -> Nat]
  /\ IsFiniteSet(Calls)
  /\ Requests \subseteq Request
  /\ Deletions \subseteq Sales
  /\ MaxAttempts \in Nat \ {0}
  /\ MaxStalls \in Nat
  /\ Faults \subseteq Fault
  /\ MaxMishaps \in Nat /\ MaxRefusals \in Nat
  /\ NoRun \notin Calls

VARIABLES
  status,    \* status[s]: Sale.status, or DELETED
  note,      \* note[c]: CreditNote.billingStatus, or NONE before it is created
  credit,    \* credit[c]: CreditNote.total, once the amount is checked
  stamped,   \* stamped[c]: CreditNote.stockRevertedAt is set
  back,      \* back[c][i]: how often the note of c gave back line i
  ask,       \* ask[c]: the sale and what call c was asked for
  refunded,  \* refunded[c]: the sale was REFUNDED when call c read it
  pc,        \* pc[c]: what call c does next, or how it ended
  late,      \* late[c]: the add of c lost the race and is still outstanding
  job,       \* job[c]: the state in the queue of the job of c
  attempts,  \* attempts[c]: attemptsMade
  stalls,    \* stalls[c]: times the job was taken back from a dead process
  run,       \* the job the worker is running
  step,      \* what that run does next
  line,      \* lines the run, or the internal call c, has given back
  full,      \* the run found the sale fully credited
  issued,    \* issued[c]: how often AFIP authorised the note of c (history)
  refusals,  \* how often AFIP has refused (bounded)
  saw,       \* saw[c]: the notes that limited call c (history)
  hurt       \* calls hit by a fault, or whose job was (history)

notes    == <<note, credit, stamped, back>>
callVars == <<ask, refunded, pc, late>>
jobVars  == <<job, attempts, stalls>>
runVars  == <<run, step, full>>
history  == <<issued, refusals, saw, hurt>>
vars     == <<status, notes, callVars, jobVars, runVars, line, history>>

Ended     == {"done", "rejected", "failed", "crashed"}
CallState == {"new", "read", "create", "refund", "queue", "undo"} \cup Ended
JobState  == {"absent", "wait", "active", "delayed", "done", "dead"}
RunStep   == {"idle", "ask", "complete", "return", "sum", "status", "catch",
              "ok", "error"}
Total(s) == Neto[s] + Iva[s] + Shipping[s]
SaleOf(c) == ask[c].sale
NotesOf(s) == {c \in Calls : note[c] # "NONE" /\ SaleOf(c) = s}
Internal(c) == SaleOf(c) \notin Invoiced

\* The integers nearest to x / y: at a half the doubles behind round2 decide.
Rounded(x, y) ==
  {q \in {x \div y, x \div y + 1} : 2 * (q * y - x) \in (-y)..y}

\* CreditNote.total for an allowed amount: the parts of totalNeto and totalIva,
\* each rounded, added again.
Credits(s, amount) ==
  {neto + iva : neto \in Rounded(Neto[s] * amount, Total(s)),
                iva \in Rounded(Iva[s] * amount, Total(s))}

\* The notes of a sale that the aggregate of createCreditNote adds up.
Counted(s) == {c \in NotesOf(s) : note[c] \in {"PENDING", "COMPLETED"}}
Completed(s) == {c \in NotesOf(s) : note[c] = "COMPLETED"}

\* A fault hits call c or its job; the bound is on the model, not in the code.
Hit(c, fault) ==
  /\ fault \in Faults
  /\ c \in hurt \/ Cardinality(hurt) < MaxMishaps
  /\ hurt' = hurt \cup {c}
-----------------------------------------------------------------------------
Init ==
  /\ status = [s \in Sales |-> "COMPLETED"]
  /\ note = [c \in Calls |-> "NONE"]
  /\ credit = [c \in Calls |-> 0]
  /\ stamped = [c \in Calls |-> FALSE]
  /\ ask \in [Calls -> Requests]
  /\ back = [c \in Calls |-> [i \in 1..Lines[ask[c].sale] |-> 0]]
  /\ refunded = [c \in Calls |-> FALSE]
  /\ pc = [c \in Calls |-> "new"]
  /\ late = [c \in Calls |-> FALSE]
  /\ job = [c \in Calls |-> "absent"]
  /\ attempts = [c \in Calls |-> 0]
  /\ stalls = [c \in Calls |-> 0]
  /\ run = NoRun
  /\ step = "idle"
  /\ line = [c \in Calls |-> 0]
  /\ full = FALSE
  /\ issued = [c \in Calls |-> 0]
  /\ refusals = 0
  /\ saw = [c \in Calls |-> {}]
  /\ hurt = {}

Goto(c, label) == pc' = [pc EXCEPT ![c] = label]

(* One call of createCreditNote *)

\* Sale.findById, and the guard on partial notes with stock.
ReadSale(c) ==
  /\ pc[c] = "new"
  /\ refunded' = [refunded EXCEPT ![c] = status[SaleOf(c)] = "REFUNDED"]
  /\ Goto(c, IF \/ status[SaleOf(c)] = "DELETED"
                \/ ask[c].stock /\ ask[c].mode = "PARTIAL"
             THEN "rejected" ELSE "read")
  /\ UNCHANGED <<status, notes, ask, late, jobVars, runVars, line, history>>

MutAllowed(wanted, available) == available > 0
Allowed(wanted, available) == available > 0 /\ wanted <= available

\* CreditNote.aggregate, the guards on the amount, and what the note will say.
CheckAmount(c) ==
  LET s == SaleOf(c)
      available == Total(s) - SumOn(credit, Counted(s))
      wanted == IF ask[c].mode = "TOTAL" THEN available ELSE ask[c].total
  IN  /\ pc[c] = "read"
      /\ IF Allowed(wanted, available)
         THEN /\ \E amount \in Credits(s, wanted) :
                   credit' = [credit EXCEPT ![c] = amount]
              /\ saw' = [saw EXCEPT ![c] = Counted(s)]
              /\ Goto(c, "create")
         ELSE Goto(c, "rejected") /\ UNCHANGED <<credit, saw>>
      /\ UNCHANGED <<status, note, stamped, back, ask, refunded, late, jobVars,
                     runVars, line, issued, refusals, hurt>>

\* CreditNote.create; an internal note of a sale that was refunded already is
\* refused only now.
Create(c) ==
  /\ pc[c] = "create"
  /\ note' = [note EXCEPT ![c] = IF Internal(c) THEN "COMPLETED" ELSE "PENDING"]
  /\ Goto(c, IF ~ Internal(c) THEN "queue"
             ELSE IF refunded[c] THEN "failed" ELSE "refund")
  /\ UNCHANGED <<status, credit, stamped, back, ask, refunded, late, jobVars,
                 runVars, line, history>>

\* An internal note gives the next line back to Product.stock, with $inc.
GiveBack(c) ==
  /\ pc[c] = "refund"
  /\ ask[c].stock /\ line[c] < Lines[SaleOf(c)]
  /\ \/ /\ line' = [line EXCEPT ![c] = @ + 1]
        /\ back' = [back EXCEPT ![c][line[c] + 1] = @ + 1]
        /\ UNCHANGED <<pc, hurt>>
     \/ /\ Hit(c, "store")
        /\ Goto(c, "failed")
        /\ UNCHANGED <<line, back>>
  /\ UNCHANGED <<status, note, credit, stamped, ask, refunded, late,
                 jobVars, runVars, issued, refusals, saw>>

\* sale.status = REFUNDED, also for a PARTIAL note; the save of a sale that is
\* gone throws.
MarkRefunded(c) ==
  LET s == SaleOf(c)
  IN  /\ pc[c] = "refund"
      /\ ~ ask[c].stock \/ line[c] = Lines[s]
      /\ \/ /\ status[s] # "DELETED"
            /\ status' = [status EXCEPT ![s] = "REFUNDED"]
            /\ Goto(c, "done")
            /\ UNCHANGED hurt
         \/ /\ status[s] = "DELETED"
            /\ Goto(c, "failed")
            /\ UNCHANGED <<status, hurt>>
         \/ /\ Hit(c, "store")
            /\ Goto(c, "failed")
            /\ UNCHANGED status
  /\ UNCHANGED <<notes, ask, refunded, late, jobVars, runVars, line,
                 issued, refusals, saw>>

\* afipQueue.add answers in time.
Queue(c) ==
  /\ pc[c] = "queue"
  /\ job' = [job EXCEPT ![c] = "wait"]
  /\ Goto(c, "done")
  /\ UNCHANGED <<status, notes, ask, refunded, late, attempts, stalls, runVars,
                 line, history>>

\* The add fails, the queue is disabled, or the timeout comes first.
QueueFails(c) ==
  /\ pc[c] = "queue"
  /\ Goto(c, "undo")
  /\ \/ UNCHANGED <<late, hurt>>
     \/ Hit(c, "timeout") /\ late' = [late EXCEPT ![c] = TRUE]
  /\ UNCHANGED <<status, notes, ask, refunded, jobVars, runVars, line,
                 issued, refusals, saw>>

\* The add that lost the race takes effect all the same.
LateAdd(c) ==
  /\ late[c]
  /\ late' = [late EXCEPT ![c] = FALSE]
  /\ job' = [job EXCEPT ![c] = "wait"]
  /\ UNCHANGED <<status, notes, ask, refunded, pc, attempts, stalls, runVars,
                 line, history>>

\* CreditNote.findByIdAndUpdate with FAILED, which frees its amount.
MutUndo(c) ==
  /\ pc[c] = "undo"
  /\ Goto(c, "done")
  /\ UNCHANGED <<status, notes, ask, refunded, late, jobVars, runVars,
                 line, history>>
Undo(c) ==
  /\ pc[c] = "undo"
  /\ \/ /\ note' = [note EXCEPT ![c] = "FAILED"]
        /\ Goto(c, "done")
        /\ UNCHANGED hurt
     \/ /\ Hit(c, "store")
        /\ Goto(c, "failed")
        /\ UNCHANGED note
  /\ UNCHANGED <<status, credit, stamped, back, ask, refunded, late,
                 jobVars, runVars, line, issued, refusals, saw>>

(* The queue and the credit-note branch of its worker *)

\* The worker is free and takes a job.
Take(c) ==
  /\ run = NoRun
  /\ job[c] = "wait"
  /\ job' = [job EXCEPT ![c] = "active"]
  /\ run' = c
  /\ step' = "ask"
  /\ UNCHANGED <<status, notes, callVars, attempts, stalls, line, full, history>>

\* What every action of the run leaves alone.
RunFrame == UNCHANGED <<callVars, run, refusals, saw>>

\* afipService.createInvoice, without a look at the note.
Authorise ==
  /\ step = "ask"
  /\ \/ /\ issued' = [issued EXCEPT ![run] = @ + 1]
        /\ step' = "complete"
        /\ UNCHANGED <<refusals, hurt>>
     \/ /\ Hit(run, "lost")
        /\ issued' = [issued EXCEPT ![run] = @ + 1]
        /\ step' = "catch"
        /\ UNCHANGED refusals
     \/ /\ "refuse" \in Faults /\ refusals < MaxRefusals
        /\ refusals' = refusals + 1
        /\ step' = "catch"
        /\ UNCHANGED <<issued, hurt>>
  /\ UNCHANGED <<status, notes, callVars, jobVars, run, line, full, saw>>

\* A call of MongoDB made by the run fails.
StoreFails == Hit(run, "store") /\ step' = "catch"

\* CreditNote.findByIdAndUpdate with COMPLETED; the note it answers says
\* whether the stock is to be given back.
Complete ==
  /\ step = "complete"
  /\ \/ /\ note' = [note EXCEPT ![run] = "COMPLETED"]
        /\ line' = [line EXCEPT ![run] = 0]
        /\ step' = IF ask[run].stock /\ ~ stamped[run] THEN "return" ELSE "sum"
        /\ UNCHANGED hurt
     \/ StoreFails /\ UNCHANGED <<note, line>>
  /\ RunFrame
  /\ UNCHANGED <<status, credit, stamped, back, jobVars, full, issued>>

\* The next line: adjustStock with type RETURN.
MutReturnLine ==
  /\ step = "return"
  /\ line[run] < Lines[SaleOf(run)]
  /\ line' = [line EXCEPT ![run] = @ + 1]
  /\ back' = [back EXCEPT ![run][1] = @ + 1]
  /\ RunFrame
  /\ UNCHANGED <<status, note, credit, stamped, jobVars, step, full, issued, hurt>>
ReturnLine ==
  /\ step = "return"
  /\ line[run] < Lines[SaleOf(run)]
  /\ \/ /\ line' = [line EXCEPT ![run] = @ + 1]
        /\ back' = [back EXCEPT ![run][line[run] + 1] = @ + 1]
        /\ UNCHANGED <<step, hurt>>
     \/ StoreFails /\ UNCHANGED <<line, back>>
  /\ RunFrame
  /\ UNCHANGED <<status, note, credit, stamped, jobVars, full, issued>>

\* stockRevertedAt is set and the note saved, after all the lines.
MutStamp ==
  /\ step = "return"
  /\ line[run] = Lines[SaleOf(run)] - 1
  /\ stamped' = [stamped EXCEPT ![run] = TRUE]
  /\ step' = "sum"
  /\ RunFrame
  /\ UNCHANGED <<status, note, credit, back, jobVars, line, full, issued, hurt>>
Stamp ==
  /\ step = "return"
  /\ line[run] = Lines[SaleOf(run)]
  /\ \/ /\ stamped' = [stamped EXCEPT ![run] = TRUE]
        /\ step' = "sum"
        /\ UNCHANGED hurt
     \/ StoreFails /\ UNCHANGED stamped
  /\ RunFrame
  /\ UNCHANGED <<status, note, credit, back, jobVars, line, full, issued>>

\* The completed notes are added up and the sale is read.
MutAddUp ==
  /\ step = "sum"
  /\ full' = (SumOn(credit, Counted(SaleOf(run))) >= Total(SaleOf(run)) - 1)
  /\ step' = IF status[SaleOf(run)] = "DELETED" THEN "ok" ELSE "status"
  /\ RunFrame /\ UNCHANGED <<status, notes, jobVars, line, issued, hurt>>
AddUp ==
  /\ step = "sum"
  /\ \/ /\ full' = (SumOn(credit, Completed(SaleOf(run)))
                      >= Total(SaleOf(run)) - 1)
        /\ step' = IF status[SaleOf(run)] = "DELETED" THEN "ok" ELSE "status"
        /\ UNCHANGED hurt
     \/ StoreFails /\ UNCHANGED full
  /\ RunFrame /\ UNCHANGED <<status, notes, jobVars, line, issued>>

\* Sale.findByIdAndUpdate with what the sum said.
SetStatus ==
  /\ step = "status"
  /\ \/ /\ status' = [status EXCEPT ![SaleOf(run)] =
                        IF @ = "DELETED" THEN @
                        ELSE IF full THEN "REFUNDED" ELSE "COMPLETED"]
        /\ step' = "ok"
        /\ UNCHANGED hurt
     \/ StoreFails /\ UNCHANGED status
  /\ RunFrame /\ UNCHANGED <<notes, jobVars, line, full, issued>>

\* The catch: the note is FAILED, whatever it was, and the error thrown again.
Catch ==
  /\ step = "catch"
  /\ \/ note' = [note EXCEPT ![run] = "FAILED"] /\ UNCHANGED hurt
     \/ Hit(run, "store") /\ UNCHANGED note
  /\ step' = "error"
  /\ RunFrame
  /\ UNCHANGED <<status, credit, stamped, back, jobVars, line, full, issued>>

\* BullMQ records how the run ended.
MutFinishRun ==
  /\ step \in {"ok", "error"}
  /\ \/ /\ step = "ok"
        /\ job' = [job EXCEPT ![run] = "done"]
        /\ UNCHANGED attempts
     \/ /\ step = "error"
        /\ attempts' = [attempts EXCEPT ![run] = @ + 1]
        /\ job' = [job EXCEPT ![run] =
                     IF attempts[run] < MaxAttempts THEN "delayed" ELSE "dead"]
  /\ run' = NoRun
  /\ step' = "idle"
  /\ full' = FALSE
  /\ line' = [line EXCEPT ![run] = 0]
  /\ UNCHANGED <<status, notes, callVars, stalls, history>>
FinishRun ==
  /\ step \in {"ok", "error"}
  /\ \/ /\ step = "ok"
        /\ job' = [job EXCEPT ![run] = "done"]
        /\ UNCHANGED attempts
     \/ /\ step = "error"
        /\ attempts' = [attempts EXCEPT ![run] = @ + 1]
        /\ job' = [job EXCEPT ![run] =
                     IF attempts'[run] < MaxAttempts THEN "delayed" ELSE "dead"]
  /\ run' = NoRun
  /\ step' = "idle"
  /\ full' = FALSE
  /\ line' = [line EXCEPT ![run] = 0]
  /\ UNCHANGED <<status, notes, callVars, stalls, history>>

\* Some process promotes a job whose backoff is over, or takes back a job whose
\* process died.  Nothing in this code does; another process may.
Promote(c) ==
  /\ job[c] = "delayed"
  /\ job' = [job EXCEPT ![c] = "wait"]
  /\ UNCHANGED <<status, notes, callVars, attempts, stalls, runVars, line, history>>
Recover(c) ==
  /\ job[c] = "active" /\ run # c
  /\ stalls' = [stalls EXCEPT ![c] = @ + 1]
  /\ job' = [job EXCEPT ![c] = IF stalls[c] < MaxStalls THEN "wait" ELSE "dead"]
  /\ UNCHANGED <<status, notes, callVars, attempts, runVars, line, history>>

(* The environment *)

\* deleteSale, which does not look at the status; Sales has its steps.  The
\* deletion of a sale that no call asks about changes nothing here.
DeleteSale(s) ==
  /\ s \in Deletions
  /\ status[s] # "DELETED"
  /\ status' = [status EXCEPT ![s] = "DELETED"]
  /\ UNCHANGED <<notes, callVars, jobVars, runVars, line, history>>

\* The process dies: calls, outstanding adds and the run go with it.
Crash ==
  LET lost == {c \in Calls : pc[c] \notin Ended \cup {"new"} \/ late[c] \/ run = c}
  IN  /\ "crash" \in Faults
      /\ lost # {}
      /\ Cardinality(hurt \cup lost) <= MaxMishaps
      /\ hurt' = hurt \cup lost
      /\ pc' = [c \in Calls |-> IF pc[c] \in Ended \cup {"new"} THEN pc[c]
                                ELSE "crashed"]
      /\ late' = [c \in Calls |-> FALSE]
      /\ run' = NoRun
      /\ step' = "idle"
      /\ full' = FALSE
      /\ UNCHANGED <<status, notes, ask, refunded, jobVars, line,
                     issued, refusals, saw>>

CreateCreditNote(c) ==
  \/ ReadSale(c) \/ CheckAmount(c) \/ Create(c) \/ GiveBack(c)
  \/ MarkRefunded(c) \/ Queue(c) \/ QueueFails(c) \/ Undo(c)
Work ==
  \/ Authorise \/ Complete \/ ReturnLine \/ Stamp \/ AddUp \/ SetStatus
  \/ Catch \/ FinishRun

\* Nothing is left to do.
Idle ==
  /\ run = NoRun
  /\ \A c \in Calls : pc[c] \in Ended /\ ~ late[c] /\ job[c] # "wait"
  /\ UNCHANGED vars

Next ==
  \/ \E c \in Calls : \/ CreateCreditNote(c) \/ LateAdd(c)
                      \/ Take(c) \/ Promote(c) \/ Recover(c)
  \/ Work
  \/ \E s \in {SaleOf(c) : c \in Calls} : DeleteSale(s)
  \/ Crash
  \/ Idle

Spec == Init /\ [][Next]_vars
-----------------------------------------------------------------------------
(* Properties *)

\* Type correctness.
TypeOK ==
  /\ status \in [Sales -> {"COMPLETED", "REFUNDED", "DELETED"}]
  /\ note \in [Calls -> {"NONE", "PENDING", "COMPLETED", "FAILED"}]
  /\ credit \in [Calls -> Nat]
  /\ stamped \in [Calls -> BOOLEAN]
  /\ ask \in [Calls -> Requests]
  /\ DOMAIN back = Calls
  /\ \A c \in Calls : back[c] \in [1..Lines[SaleOf(c)] -> Nat]
  /\ refunded \in [Calls -> BOOLEAN]
  /\ pc \in [Calls -> CallState]
  /\ late \in [Calls -> BOOLEAN]
  /\ job \in [Calls -> JobState]
  /\ attempts \in [Calls -> 0..MaxAttempts]
  /\ stalls \in [Calls -> 0..(MaxStalls + 1)]
  /\ run \in Calls \cup {NoRun}
  /\ step \in RunStep
  /\ DOMAIN line = Calls
  /\ \A c \in Calls : line[c] \in 0..Lines[SaleOf(c)]
  /\ full \in BOOLEAN
  /\ issued \in [Calls -> Nat]
  /\ refusals \in 0..MaxRefusals
  /\ saw \in [Calls -> SUBSET Calls]
  /\ hurt \subseteq Calls

\* Two notes of a sale, neither of which limited the other: their calls
\* overlapped, or one was FAILED when the other was checked and came back.
Contested(s) ==
  \E c, d \in Counted(s) : c # d /\ c \notin saw[d] /\ d \notin saw[c]

\* A sale is never credited for more than its total, but for one cent of
\* rounding, whatever was retried, lost or deleted, unless two notes of it
\* passed the check unseen by each other.
CreditBounded ==
  \A s \in Sales : ~ Contested(s) =>
    SumOn(credit, Counted(s)) <= Total(s) + 1

\* The goods of a sale come back at most once: for every line, over all its
\* notes.  What can break it: overlapping notes, a fault in the middle of a
\* run, and a TOTAL note that credits less than the sale: the shipping is in
\* the total and not in its parts, rounding took a cent, or another note held
\* the rest and failed later.  Then there is room for another TOTAL note, which
\* gives all the goods back again.
Back(s, i) == SumOn([c \in Calls |-> IF SaleOf(c) = s THEN back[c][i] ELSE 0],
                    Calls)
LeftOver(s) == \E c \in NotesOf(s) : ask[c].stock /\ credit[c] < Total(s)
ReturnedOnce ==
  \A s \in Sales :
    (/\ ~ Contested(s)
     /\ ~ LeftOver(s)
     /\ NotesOf(s) \cap hurt = {})
      => \A i \in 1..Lines[s] : Back(s, i) <= 1

\* A note that no fault has hit and that is not being run: AFIP authorised it
\* once if it is complete and never otherwise, however often it was refused,
\* and then all its goods came back, each once, or none.
NoteIsExact ==
  \A c \in Calls :
    (note[c] # "NONE" /\ ~ Internal(c) /\ c \notin hurt /\ run # c) =>
      /\ issued[c] = IF note[c] = "COMPLETED" THEN 1 ELSE 0
      /\ \A i \in DOMAIN back[c] :
           back[c][i] = IF note[c] = "COMPLETED" /\ ask[c].stock THEN 1 ELSE 0

\* A sale that has only notes of AFIP, none of them hit or being run, says
\* REFUNDED exactly when what AFIP authorised reaches its total, whatever the
\* order in which its notes were completed, refused and retried.
StatusIsExact ==
  \A s \in Sales \cap Invoiced :
    (/\ status[s] # "DELETED"
     /\ NotesOf(s) \cap (hurt \cup {run}) = {})
      => (status[s] = "REFUNDED" <=>
            /\ Completed(s) # {}
            /\ SumOn(credit, Completed(s)) >= Total(s) - 1)

\* A note that is PENDING holds its amount back from every other note, so
\* somebody must be at work on it: only a crash or a failed write, while at
\* work for that very note, leaves it so for ever.
PendingInProgress ==
  \A c \in Calls \ hurt : note[c] = "PENDING" =>
    pc[c] \in {"queue", "undo"} \/ job[c] \in {"wait", "active"}
-----------------------------------------------------------------------------
(* Why the properties hold: invariants that are inductive together *)

\* A call has a note once it has created it, a job once it has queued it, and
\* only a note of AFIP is queued; an add that is late was hit by the timeout,
\* and only such an add queues what its call takes back.
CallsInOrder ==
  \A c \in Calls :
    /\ pc[c] \in {"new", "read", "create", "rejected"} => note[c] = "NONE"
    /\ pc[c] \in {"new", "read", "create", "rejected", "refund", "queue"} =>
         job[c] = "absent" /\ ~ late[c]
    /\ pc[c] = "refund" => Internal(c) /\ note[c] # "NONE"
    /\ pc[c] \in {"queue", "undo"} => ~ Internal(c) /\ note[c] # "NONE"
    /\ pc[c] = "crashed" => c \in hurt
    /\ pc[c] = "undo" => job[c] = "absent" \/ c \in hurt
    /\ late[c] => job[c] = "absent" /\ c \in hurt
    /\ late[c] \/ job[c] # "absent" => ~ Internal(c) /\ note[c] # "NONE"
    /\ Internal(c) => note[c] \in {"NONE", "COMPLETED"}

\* A job that is not over has an attempt and a stall left.
JobsBounded ==
  \A c \in Calls : job[c] \notin {"done", "dead"} =>
    attempts[c] < MaxAttempts /\ stalls[c] <= MaxStalls

\* The worker runs the active job, and no other is active unless its run died.
RunOwnsJob ==
  /\ run = NoRun <=> step = "idle"
  /\ \A c \in Calls :
       /\ run = c => job[c] = "active"
       /\ run # c /\ job[c] = "active" => c \in hurt

\* The lines that the note of c has given back are its first n, each once.
GaveBack(c, n) == \A i \in DOMAIN back[c] : back[c][i] = IF i <= n THEN 1 ELSE 0

\* An internal note has given back the lines it has counted; and nothing comes
\* back but for a note, and a note that was asked to give it back.
BacksCounted ==
  \A c \in Calls :
    /\ Internal(c) => GaveBack(c, line[c])
    /\ Internal(c) /\ line[c] > 0 => ask[c].stock
    /\ run = c /\ step = "return" => ask[c].stock
    /\ note[c] = "NONE" => GaveBack(c, 0)

\* How far a note of AFIP has come that no fault has hit, by where its job is:
\* not yet authorised, authorised, giving back, or through.
Before(c) ==
  \/ run # c /\ job[c] # "done"
  \/ run = c /\ step \in {"ask", "catch", "error"}
Through(c) ==
  \/ job[c] = "done"
  \/ run = c /\ step \in {"sum", "status", "ok"}
StepByStep ==
  \A c \in Calls \ hurt : ~ Internal(c) =>
    /\ Before(c) => /\ issued[c] = 0 /\ note[c] # "COMPLETED"
                    /\ ~ stamped[c] /\ GaveBack(c, 0)
    /\ ~ Before(c) => issued[c] = 1
    /\ run = c /\ step = "complete" => ~ stamped[c] /\ GaveBack(c, 0)
    /\ run = c /\ step = "return" => note[c] = "COMPLETED" /\ GaveBack(c, line[c])
    /\ run = c /\ step = "error" => note[c] = "FAILED"
    /\ Through(c) => /\ note[c] = "COMPLETED"
                     /\ GaveBack(c, IF ask[c].stock THEN Lines[SaleOf(c)] ELSE 0)

\* Whoever will change a note that is PENDING.
WillChange(c) ==
  \/ pc[c] \in {"queue", "undo"}
  \/ job[c] = "wait"
  \/ run = c /\ step \in {"ask", "complete", "catch"}
PendingChanges == \A c \in Calls \ hurt : note[c] = "PENDING" => WillChange(c)

\* The status says what the completed notes come to, but for the time a run
\* takes to write it; and then it knows what to write.
Refundable(s) == Completed(s) # {} /\ SumOn(credit, Completed(s)) >= Total(s) - 1
StatusFollows ==
  \A s \in Sales \cap Invoiced :
    (status[s] # "DELETED" /\ NotesOf(s) \cap hurt = {}) =>
      /\ \/ run \in NotesOf(s) /\ step \in {"return", "sum", "status"}
         \/ status[s] = "REFUNDED" <=> Refundable(s)
      /\ (run \in NotesOf(s) /\ step = "status") => (full <=> Refundable(s))

\* A note fits into what the notes that its call saw had left, which was not
\* nothing; what it saw were notes of the same sale.
AmountsFit ==
  \A c \in Calls :
    /\ saw[c] \subseteq NotesOf(SaleOf(c))
    /\ SumOn(credit, saw[c]) < Total(SaleOf(c))
    /\ credit[c] + SumOn(credit, saw[c]) <= Total(SaleOf(c)) + 1

\* Calls see what came before them: of any calls, there is one that no other
\* of them has seen.
SeenInOrder ==
  \A T \in SUBSET Calls : T # {} => \E c \in T : \A d \in T : c \notin saw[d]

CreditInv ==
  /\ TypeOK /\ CallsInOrder /\ JobsBounded /\ RunOwnsJob /\ BacksCounted
  /\ StepByStep /\ PendingChanges /\ StatusFollows /\ AmountsFit /\ SeenInOrder
=============================================================================
