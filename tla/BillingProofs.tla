--------------------------- MODULE BillingProofs ---------------------------
(***************************************************************************)
(* That the inductive invariant of Billing is one, for any number of sales *)
(* and calls, with or without a scheduler, whatever faults occur, and that *)
(* the properties follow from it.                                          *)
(***************************************************************************)
EXTENDS Billing, FiniteSetTheorems, SequenceTheorems, TLAPS

\* What a fault does to the history of faults.
LEMMA Hits ==
  ASSUME TypeOK, NEW c \in Calls, NEW fault \in Faults, Hit(c, fault)
  PROVE  /\ mishaps' \in [Calls -> SUBSET Faults]
         /\ fault \in mishaps'[c]
         /\ \A d \in Calls : mishaps[d] \subseteq mishaps'[d]
BY DEF Hit, TypeOK

\* What an update does to the status of a sale, if it is there.
LEMMA Updates ==
  ASSUME TypeOK, NEW s \in Sales, NEW status \in Status, Update(s, status)
  PROVE  /\ billing' \in [Sales -> Status]
         /\ billing'[s] \in {status, "DELETED"}
         /\ billing'[s] = "DELETED" => billing[s] = "DELETED" \/ status = "DELETED"
         /\ \A t \in Sales \ {s} : billing'[t] = billing[t]
BY DEF Update, TypeOK

\* The worker runs the job of a call unless it is idle.
LEMMA RunIsCall ==
  ASSUME BillingInv, step # "idle"
  PROVE  run \in Calls
BY DEF BillingInv, TypeOK, RunOwnsJob

\* A fault, once it has hit, is not forgotten.
LEMMA FaultsStay ==
  ASSUME BillingInv, [Next]_vars, NEW d \in Calls
  PROVE  mishaps[d] \subseteq mishaps'[d]
<1>1. CASE UNCHANGED vars
  BY <1>1 DEF vars
<1>2. ASSUME NEW c \in Calls,
             Enqueue(c) \/ LateAdd(c) \/ Take(c) \/ Promote(c) \/ Recover(c)
      PROVE  mishaps[d] \subseteq mishaps'[d]
  <2>1. \A fault : Hit(c, fault) => mishaps[d] \subseteq mishaps'[d]
    BY DEF Hit
  <2>2. UNCHANGED mishaps \/ \E fault : Hit(c, fault)
    BY <1>2 DEF Enqueue, Check, Mark, Add, AddFails, Undo, LateAdd, Take,
       Promote, Recover
  <2>3. QED
    BY <2>1, <2>2
<1>3. CASE Work
  <2>1. run \in Calls
    BY <1>3, RunIsCall DEF Work, CreateInvoice, Store, Catch, FinishRun
  <2>2. QED
    BY <1>3, <2>1 DEF Work, CreateInvoice, Store, Catch, FinishRun, Hit,
       BillingInv, TypeOK
<1>4. ASSUME NEW s \in Sales, DeleteSale(s) PROVE mishaps[d] \subseteq mishaps'[d]
  BY <1>4 DEF DeleteSale
<1>5. CASE Crash
  BY <1>5 DEF Crash
<1>6. CASE Idle
  BY <1>6 DEF Idle, vars
<1>7. QED
  BY <1>1, <1>2, <1>3, <1>4, <1>5, <1>6 DEF Next

\* What AFIP has authorised, and what it has after one more.
LEMMA Vouchers ==
  ASSUME TypeOK
  PROVE  /\ DOMAIN afip = 1..Len(afip) /\ Len(afip) \in Nat
         /\ \A n \in DOMAIN afip : afip[n] \in Calls
BY ElementOfSeq, LenProperties DEF TypeOK
LEMMA Authorises ==
  ASSUME TypeOK, NEW c \in Calls, afip' = Append(afip, c)
  PROVE  /\ afip' \in Seq(Calls)
         /\ DOMAIN afip' = 1..(Len(afip) + 1) /\ Len(afip') = Len(afip) + 1
         /\ afip'[Len(afip) + 1] = c
         /\ \A n \in DOMAIN afip : afip'[n] = afip[n]
BY Vouchers, AppendProperties DEF TypeOK

\* Every step keeps the variables within their types.
LEMMA TypeStep == BillingInv /\ [Next]_vars => TypeOK'
<1> SUFFICES ASSUME BillingInv, [Next]_vars PROVE TypeOK'
  OBVIOUS
<1>1. CASE UNCHANGED vars
  BY <1>1 DEF BillingInv, TypeOK, callVars, jobVars, runVars, vars
<1>2. ASSUME NEW c \in Calls, Check(c) PROVE TypeOK'
  BY <1>2 DEF Check, BillingInv, TypeOK, CallState, Busy, jobVars, runVars
<1>3. ASSUME NEW c \in Calls, Mark(c) PROVE TypeOK'
  <2>1. mishaps' \in [Calls -> SUBSET Faults]
    BY <1>3, Hits DEF Mark, BillingInv, TypeOK
  <2>2. billing' \in [Sales -> Status]
    <3>1. target[c] \in Sales
      BY DEF BillingInv, TypeOK
    <3>2. QED
      BY <1>3, <3>1, Updates DEF Mark, BillingInv, TypeOK, Status
  <2>3. QED
    BY <1>3, <2>1, <2>2 DEF Mark, BillingInv, TypeOK, CallState, Busy,
       jobVars, runVars
<1>4. ASSUME NEW c \in Calls, Add(c) PROVE TypeOK'
  BY <1>4 DEF Add, BillingInv, TypeOK, CallState, JobState, runVars
<1>5. ASSUME NEW c \in Calls, AddFails(c) PROVE TypeOK'
  <2>1. mishaps' \in [Calls -> SUBSET Faults]
    BY <1>5, Hits DEF AddFails, BillingInv, TypeOK
  <2>2. QED
    BY <1>5, <2>1 DEF AddFails, BillingInv, TypeOK, CallState, Busy, jobVars,
       runVars
<1>6. ASSUME NEW c \in Calls, Undo(c) PROVE TypeOK'
  <2>1. mishaps' \in [Calls -> SUBSET Faults]
    BY <1>6, Hits DEF Undo, BillingInv, TypeOK
  <2>2. billing' \in [Sales -> Status]
    <3>1. target[c] \in Sales
      BY DEF BillingInv, TypeOK
    <3>2. QED
      BY <1>6, <3>1, Updates DEF Undo, BillingInv, TypeOK, Status
  <2>3. QED
    BY <1>6, <2>1, <2>2 DEF Undo, BillingInv, TypeOK, CallState, jobVars,
       runVars
<1>7. ASSUME NEW c \in Calls, LateAdd(c) PROVE TypeOK'
  BY <1>7 DEF LateAdd, BillingInv, TypeOK, JobState, runVars
<1>8. ASSUME NEW c \in Calls, Take(c) PROVE TypeOK'
  BY <1>8 DEF Take, BillingInv, TypeOK, JobState, callVars
<1>9. ASSUME NEW c \in Calls, Promote(c) PROVE TypeOK'
  BY <1>9 DEF Promote, BillingInv, TypeOK, JobState, callVars, runVars
<1>10. ASSUME NEW c \in Calls, Recover(c) PROVE TypeOK'
  <2>1. mishaps' \in [Calls -> SUBSET Faults]
    BY <1>10, Hits DEF Recover, BillingInv, TypeOK
  <2>2. stalls' \in [Calls -> 0..(MaxStalls + 1)]
    <3>1. stalls[c] \in 0..(MaxStalls + 1) /\ job[c] = "active"
      BY <1>10 DEF Recover, BillingInv, TypeOK
    <3>2. stalls[c] <= MaxStalls
      BY <3>1 DEF BillingInv, JobsBounded
    <3>3. stalls[c] + 1 \in 0..(MaxStalls + 1)
      BY <3>1, <3>2, BillingAssumption
    <3>4. QED
      BY <1>10, <3>3 DEF Recover, BillingInv, TypeOK
  <2>3. job' \in [Calls -> JobState]
    BY <1>10 DEF Recover, BillingInv, TypeOK, JobState
  <2>4. QED
    BY <1>10, <2>1, <2>2, <2>3 DEF Recover, BillingInv, TypeOK, callVars,
       runVars
<1>11. CASE CreateInvoice
  <2>1. run \in Calls
    BY <1>11, RunIsCall DEF CreateInvoice
  <2>2. afip' \in Seq(Calls) /\ got' \in Nat
    BY <1>11, <2>1, Authorises, Vouchers DEF CreateInvoice, BillingInv, TypeOK
  <2>3. mishaps' \in [Calls -> SUBSET Faults]
    BY <1>11, <2>1, Hits DEF CreateInvoice, BillingInv, TypeOK
  <2>4. QED
    BY <1>11, <2>2, <2>3 DEF CreateInvoice, BillingInv, TypeOK, callVars,
       jobVars
<1>12. CASE Store
  <2>1. mishaps' \in [Calls -> SUBSET Faults]
    BY <1>12, Hits, RunIsCall DEF Store, BillingInv, TypeOK
  <2>2. billing' \in [Sales -> Status]
    <3>1. run \in Calls /\ target[run] \in Sales
      BY <1>12, RunIsCall DEF BillingInv, TypeOK, Store
    <3>2. QED
      BY <1>12, <3>1, Updates DEF Store, BillingInv, TypeOK, Status
  <2>3. voucher' \in [Sales -> Nat]
    BY <1>12 DEF Store, BillingInv, TypeOK
  <2>4. step' \in {"ok", "catch"}
    BY <1>12 DEF Store
  <2>5. QED
    BY <1>12, <2>1, <2>2, <2>3, <2>4 DEF Store, BillingInv, TypeOK, callVars,
       jobVars
<1>13. CASE Catch
  <2>1. mishaps' \in [Calls -> SUBSET Faults]
    BY <1>13, Hits, RunIsCall DEF Catch, BillingInv, TypeOK
  <2>2. billing' \in [Sales -> Status]
    <3>1. run \in Calls /\ target[run] \in Sales
      BY <1>13, RunIsCall DEF BillingInv, TypeOK, Catch
    <3>2. QED
      BY <1>13, <3>1, Updates DEF Catch, BillingInv, TypeOK, Status
  <2>3. QED
    BY <1>13, <2>1, <2>2 DEF Catch, BillingInv, TypeOK, callVars, jobVars
<1>14. CASE FinishRun
  <2>1. run \in Calls
    BY <1>14, RunIsCall DEF FinishRun
  <2>2. job' \in [Calls -> JobState]
    BY <1>14, <2>1 DEF FinishRun, BillingInv, TypeOK, JobState
  <2>3. attempts' \in [Calls -> 0..MaxAttempts]
    BY <1>14, <2>1, BillingAssumption DEF FinishRun, BillingInv, TypeOK,
       JobsBounded
  <2>4. QED
    BY <1>14, <2>2, <2>3 DEF FinishRun, BillingInv, TypeOK, callVars
<1>15. ASSUME NEW s \in Sales, DeleteSale(s) PROVE TypeOK'
  BY <1>15 DEF DeleteSale, BillingInv, TypeOK, Status, callVars, jobVars,
     runVars
<1>16. CASE Crash
  BY <1>16 DEF Crash, BillingInv, TypeOK, CallState, jobVars
<1>17. CASE Idle
  BY <1>17 DEF Idle, BillingInv, TypeOK, callVars, jobVars, runVars, vars
<1>18. QED
  BY <1>1, <1>2, <1>3, <1>4, <1>5, <1>6, <1>7, <1>8, <1>9, <1>10, <1>11, <1>12,
     <1>13, <1>14, <1>15, <1>16, <1>17 DEF Next, Enqueue, Work

\* A job is added once, after its call has marked the sale.
LEMMA AddedStep == BillingInv /\ [Next]_vars => AddedOnce'
<1> SUFFICES ASSUME BillingInv, [Next]_vars PROVE AddedOnce'
  OBVIOUS
<1>1. CASE UNCHANGED <<pc, late, job>>
  BY <1>1 DEF BillingInv, AddedOnce
<1>2. ASSUME NEW c \in Calls, Check(c) PROVE AddedOnce'
  BY <1>2 DEF Check, BillingInv, jobVars, AddedOnce
<1>3. ASSUME NEW c \in Calls, Mark(c) PROVE AddedOnce'
  BY <1>3 DEF Mark, BillingInv, TypeOK, jobVars, AddedOnce
<1>4. ASSUME NEW c \in Calls, Add(c) PROVE AddedOnce'
  BY <1>4 DEF Add, BillingInv, TypeOK, AddedOnce
<1>5. ASSUME NEW c \in Calls, AddFails(c) PROVE AddedOnce'
  BY <1>5 DEF AddFails, BillingInv, TypeOK, jobVars, AddedOnce
<1>6. ASSUME NEW c \in Calls, Undo(c) PROVE AddedOnce'
  BY <1>6 DEF Undo, BillingInv, jobVars, AddedOnce
<1>7. ASSUME NEW c \in Calls, LateAdd(c) PROVE AddedOnce'
  BY <1>7 DEF LateAdd, BillingInv, TypeOK, AddedOnce
<1>8. ASSUME NEW c \in Calls, Take(c) PROVE AddedOnce'
  BY <1>8 DEF Take, BillingInv, callVars, AddedOnce
<1>9. ASSUME NEW c \in Calls, Promote(c) PROVE AddedOnce'
  BY <1>9 DEF Promote, BillingInv, callVars, AddedOnce
<1>10. ASSUME NEW c \in Calls, Recover(c) PROVE AddedOnce'
  BY <1>10 DEF Recover, BillingInv, callVars, AddedOnce
<1>11. CASE FinishRun
  BY <1>11 DEF FinishRun, BillingInv, TypeOK, callVars, AddedOnce
<1>12. CASE Crash
  BY <1>12 DEF Crash, BillingInv, jobVars, AddedOnce
<1>13. QED
  BY <1>1, <1>2, <1>3, <1>4, <1>5, <1>6, <1>7, <1>8, <1>9, <1>10, <1>11, <1>12
     DEF Next, Enqueue, Work, CreateInvoice, Store, Catch, DeleteSale, Idle,
     vars, callVars, jobVars

\* Attempts and stalls are counted before a job is given another.
LEMMA BoundedStep == BillingInv /\ [Next]_vars => JobsBounded'
<1> SUFFICES ASSUME BillingInv, [Next]_vars PROVE JobsBounded'
  OBVIOUS
<1>1. CASE UNCHANGED <<job, attempts, stalls>>
  BY <1>1 DEF BillingInv, JobsBounded
<1>2. ASSUME NEW c \in Calls, Add(c) PROVE JobsBounded'
  BY <1>2 DEF Add, BillingInv, AddedOnce, JobsBounded
<1>3. ASSUME NEW c \in Calls, LateAdd(c) PROVE JobsBounded'
  BY <1>3 DEF LateAdd, BillingInv, AddedOnce, JobsBounded
<1>4. ASSUME NEW c \in Calls, Take(c) PROVE JobsBounded'
  BY <1>4 DEF Take, BillingInv, JobsBounded
<1>5. ASSUME NEW c \in Calls, Promote(c) PROVE JobsBounded'
  BY <1>5 DEF Promote, BillingInv, JobsBounded
<1>6. ASSUME NEW c \in Calls, Recover(c) PROVE JobsBounded'
  BY <1>6, BillingAssumption DEF Recover, BillingInv, TypeOK, JobsBounded
<1>7. CASE FinishRun
  BY <1>7 DEF FinishRun, BillingInv, TypeOK, JobsBounded
<1>8. QED
  BY <1>1, <1>2, <1>3, <1>4, <1>5, <1>6, <1>7 DEF Next, Enqueue, Work, Check,
     Mark, AddFails, Undo, CreateInvoice, Store, Catch, DeleteSale, Crash, Idle,
     vars, jobVars

\* The worker and the queue know of the same run, unless a fault came between.
LEMMA OwnsStep == BillingInv /\ [Next]_vars => RunOwnsJob'
<1> SUFFICES ASSUME BillingInv, [Next]_vars PROVE RunOwnsJob'
  OBVIOUS
<1>1. CASE UNCHANGED <<run, step, job>>
  BY <1>1, FaultsStay DEF BillingInv, RunOwnsJob
<1>2. ASSUME NEW c \in Calls, Add(c) PROVE RunOwnsJob'
  BY <1>2 DEF Add, BillingInv, runVars, AddedOnce, RunOwnsJob
<1>3. ASSUME NEW c \in Calls, LateAdd(c) PROVE RunOwnsJob'
  BY <1>3 DEF LateAdd, BillingInv, runVars, AddedOnce, RunOwnsJob
<1>4. ASSUME NEW c \in Calls, Take(c) PROVE RunOwnsJob'
  BY <1>4, BillingAssumption DEF Take, BillingInv, TypeOK, RunOwnsJob
<1>5. ASSUME NEW c \in Calls, Promote(c) PROVE RunOwnsJob'
  BY <1>5 DEF Promote, BillingInv, runVars, RunOwnsJob
<1>6. ASSUME NEW c \in Calls, Recover(c) PROVE RunOwnsJob'
  BY <1>6 DEF Recover, BillingInv, TypeOK, Hit, Status, runVars, RunOwnsJob
<1>7. CASE CreateInvoice
  BY <1>7, FaultsStay DEF CreateInvoice, BillingInv, jobVars, RunOwnsJob
<1>8. CASE Store
  BY <1>8, FaultsStay DEF Store, BillingInv, jobVars, RunOwnsJob
<1>9. CASE Catch
  BY <1>9, FaultsStay DEF Catch, BillingInv, jobVars, RunOwnsJob
<1>10. CASE FinishRun
  BY <1>10, BillingAssumption DEF FinishRun, BillingInv, TypeOK, RunOwnsJob
<1>11. CASE Crash
  BY <1>11, BillingAssumption DEF Crash, BillingInv, jobVars, RunOwnsJob
<1>12. QED
  BY <1>1, <1>2, <1>3, <1>4, <1>5, <1>6, <1>7, <1>8, <1>9, <1>10, <1>11 DEF
     Next, Enqueue, Work, Check, Mark, AddFails, Undo, DeleteSale, Idle, vars,
     jobVars, runVars

\* AFIP hears only of sales that passed the check.
LEMMA CheckedStep == BillingInv /\ [Next]_vars => CheckedFirst'
<1> SUFFICES ASSUME BillingInv, [Next]_vars PROVE CheckedFirst'
  OBVIOUS
<1>1. CASE UNCHANGED <<pc, target, afip>>
  BY <1>1 DEF BillingInv, CheckedFirst
<1>2. ASSUME NEW c \in Calls, Check(c) PROVE CheckedFirst'
  BY <1>2 DEF Check, BillingInv, Eligible, CheckedFirst
<1>3. ASSUME NEW c \in Calls, Mark(c) PROVE CheckedFirst'
  BY <1>3 DEF Mark, BillingInv, TypeOK, CheckedFirst
<1>4. ASSUME NEW c \in Calls, Add(c) PROVE CheckedFirst'
  BY <1>4 DEF Add, BillingInv, CheckedFirst
<1>5. ASSUME NEW c \in Calls, AddFails(c) PROVE CheckedFirst'
  BY <1>5 DEF AddFails, BillingInv, CheckedFirst
<1>6. ASSUME NEW c \in Calls, Undo(c) PROVE CheckedFirst'
  BY <1>6 DEF Undo, BillingInv, CheckedFirst
<1>7. CASE CreateInvoice
  <2>1. run \in Calls /\ target[run] \in Fiscal
    BY <1>7, RunIsCall DEF CreateInvoice, BillingInv, RunOwnsJob, AddedOnce,
       CheckedFirst
  <2>2. afip' = afip \/ afip' = Append(afip, run)
    BY <1>7 DEF CreateInvoice
  <2>3. UNCHANGED <<pc, target>>
    BY <1>7 DEF CreateInvoice, callVars
  <2>4. \A n \in DOMAIN afip' : target[afip'[n]] \in Fiscal
    BY <2>1, <2>2, Authorises DEF BillingInv, CheckedFirst
  <2>5. QED
    BY <2>3, <2>4 DEF BillingInv, CheckedFirst
<1>8. CASE Crash
  BY <1>8 DEF Crash, BillingInv, Busy, CheckedFirst
<1>9. QED
  BY <1>1, <1>2, <1>3, <1>4, <1>5, <1>6, <1>7, <1>8 DEF Next, Enqueue, Work,
     LateAdd, Take, Promote, Recover, Store, Catch, FinishRun, DeleteSale, Idle,
     vars, callVars

\* A run stores the number it was given.
LEMMA GotStep == BillingInv /\ [Next]_vars => GotOurs'
<1> SUFFICES ASSUME BillingInv, [Next]_vars PROVE GotOurs'
  OBVIOUS
<1>1. CASE UNCHANGED <<run, step, got, afip>>
  BY <1>1 DEF BillingInv, GotOurs
<1>2. ASSUME NEW c \in Calls, Take(c) PROVE GotOurs'
  BY <1>2 DEF Take, GotOurs
<1>3. CASE CreateInvoice
  <2>1. run \in Calls
    BY <1>3, RunIsCall DEF CreateInvoice
  <2>2. QED
    BY <1>3, <2>1, Authorises DEF CreateInvoice, GotOurs
<1>4. CASE Store
  BY <1>4 DEF Store, GotOurs
<1>5. CASE Catch
  BY <1>5 DEF Catch, GotOurs
<1>6. CASE FinishRun
  BY <1>6 DEF FinishRun, GotOurs
<1>7. CASE Crash
  BY <1>7 DEF Crash, GotOurs
<1>8. QED
  BY <1>1, <1>2, <1>3, <1>4, <1>5, <1>6, <1>7 DEF Next, Enqueue, Work, Check,
     Mark, Add, AddFails, Undo, LateAdd, Promote, Recover, DeleteSale, Idle,
     vars, runVars

\* A stored voucher is kept as long as no status or voucher changes.
LEMMA VoucherKept ==
  ASSUME BillingInv, UNCHANGED <<voucher, target>>,
         \A s \in Sales : billing'[s] = "COMPLETED" => billing[s] = "COMPLETED",
         UNCHANGED afip
  PROVE  VoucherIsOurs'
BY DEF BillingInv, VoucherIsOurs, Issued

\* The voucher of a sale stays, or becomes, one that was authorised for it.
LEMMA VoucherStep == BillingInv /\ [Next]_vars => VoucherIsOurs'
<1> SUFFICES ASSUME BillingInv, [Next]_vars PROVE VoucherIsOurs'
  OBVIOUS
<1>1. CASE UNCHANGED vars
  BY <1>1, VoucherKept DEF vars, callVars
<1>2. ASSUME NEW c \in Calls, Check(c) PROVE VoucherIsOurs'
  BY <1>2, VoucherKept DEF Check
<1>3. ASSUME NEW c \in Calls, Mark(c) PROVE VoucherIsOurs'
  <2>1. target[c] \in Sales
    BY DEF BillingInv, TypeOK
  <2>2. \A s \in Sales : billing'[s] = "COMPLETED" => billing[s] = "COMPLETED"
    BY <1>3, <2>1, Updates DEF Mark, BillingInv, Status
  <2>3. QED
    BY <1>3, <2>2, VoucherKept DEF Mark
<1>4. ASSUME NEW c \in Calls, Add(c) PROVE VoucherIsOurs'
  BY <1>4, VoucherKept DEF Add
<1>5. ASSUME NEW c \in Calls, AddFails(c) PROVE VoucherIsOurs'
  BY <1>5, VoucherKept DEF AddFails
<1>6. ASSUME NEW c \in Calls, Undo(c) PROVE VoucherIsOurs'
  <2>1. target[c] \in Sales
    BY DEF BillingInv, TypeOK
  <2>2. \A s \in Sales : billing'[s] = "COMPLETED" => billing[s] = "COMPLETED"
    BY <1>6, <2>1, Updates DEF Undo, BillingInv, Status
  <2>3. QED
    BY <1>6, <2>2, VoucherKept DEF Undo
<1>7. ASSUME NEW c \in Calls, LateAdd(c) PROVE VoucherIsOurs'
  BY <1>7, VoucherKept DEF LateAdd
<1>8. ASSUME NEW c \in Calls, Take(c) PROVE VoucherIsOurs'
  BY <1>8, VoucherKept DEF Take, callVars
<1>9. ASSUME NEW c \in Calls, Promote(c) PROVE VoucherIsOurs'
  BY <1>9, VoucherKept DEF Promote, callVars
<1>10. ASSUME NEW c \in Calls, Recover(c) PROVE VoucherIsOurs'
  BY <1>10, VoucherKept DEF Recover, callVars
<1>11. CASE CreateInvoice
  <2>1. run \in Calls
    BY <1>11, RunIsCall DEF CreateInvoice
  <2>2. afip' = afip \/ afip' = Append(afip, run)
    BY <1>11 DEF CreateInvoice
  <2>3. \A n \in DOMAIN afip : n \in DOMAIN afip' /\ afip'[n] = afip[n]
    BY <2>1, <2>2, Authorises DEF BillingInv
  <2>4. UNCHANGED <<billing, voucher, target>>
    BY <1>11 DEF CreateInvoice, callVars
  <2>5. \A s \in Sales \ Fiscal : Issued(s)' = {}
    BY <2>4, CheckedStep DEF CheckedFirst, Issued
  <2>6. QED
    BY <2>3, <2>4, <2>5 DEF BillingInv, VoucherIsOurs, Issued
<1>12. CASE Store
  <2>1. run \in Calls /\ target[run] \in Sales
    BY <1>12, RunIsCall DEF Store, BillingInv, TypeOK
  <2>2. UNCHANGED <<target, afip>>
    BY <1>12 DEF Store, callVars
  <2>3. CASE UNCHANGED <<billing, voucher>>
    BY <2>2, <2>3, VoucherKept
  <2>4. CASE /\ Update(target[run], "COMPLETED")
             /\ voucher' = [voucher EXCEPT ![target[run]] =
                              IF billing[target[run]] = "DELETED" THEN @ ELSE got]
    <3>1. got # 0 /\ got \in Issued(target[run])
      BY <1>12, Vouchers DEF Store, BillingInv, GotOurs, Issued
    <3>2. \A s \in Sales \ {target[run]} : billing'[s] = billing[s] /\ voucher'[s] = voucher[s]
      BY <2>1, <2>4, Updates DEF BillingInv, Status
    <3>3. CASE billing[target[run]] = "DELETED"
      BY <2>1, <2>2, <2>4, <3>2, <3>3 DEF Update, BillingInv, VoucherIsOurs,
         Issued
    <3>4. CASE billing[target[run]] # "DELETED"
      <4>1. voucher'[target[run]] = got
        BY <2>1, <2>4, <3>4 DEF BillingInv, TypeOK
      <4>2. QED
        BY <2>2, <3>1, <3>2, <4>1 DEF BillingInv, VoucherIsOurs, Issued
    <3>5. QED
      BY <3>3, <3>4
  <2>5. QED
    BY <1>12, <2>3, <2>4 DEF Store
<1>13. CASE Catch
  <2>1. run \in Calls /\ target[run] \in Sales
    BY <1>13, RunIsCall DEF BillingInv, TypeOK, Catch
  <2>2. \A s \in Sales : billing'[s] = "COMPLETED" => billing[s] = "COMPLETED"
    BY <1>13, <2>1, Updates DEF Catch, BillingInv, Status
  <2>3. QED
    BY <1>13, <2>2, VoucherKept DEF Catch, callVars
<1>14. CASE FinishRun
  BY <1>14, VoucherKept DEF FinishRun, callVars
<1>15. ASSUME NEW s \in Sales, DeleteSale(s) PROVE VoucherIsOurs'
  BY <1>15 DEF DeleteSale, BillingInv, TypeOK, VoucherIsOurs, Issued, callVars
<1>16. CASE Crash
  BY <1>16, VoucherKept DEF Crash
<1>17. CASE Idle
  BY <1>17, VoucherKept DEF Idle, vars, callVars
<1>18. QED
  BY <1>1, <1>2, <1>3, <1>4, <1>5, <1>6, <1>7, <1>8, <1>9, <1>10, <1>11, <1>12,
     <1>13, <1>14, <1>15, <1>16, <1>17 DEF Next, Enqueue, Work

\* A job that is done stays done, and a run that has its voucher keeps it to its
\* end, when nothing is authorised.
LEMMA AuthorisedKept ==
  ASSUME BillingInv, [Next]_vars, UNCHANGED afip,
         \A c \in Calls : mishaps'[c] \cap Doubling = {} =>
           /\ job[c] = "done" => job'[c] = "done"
           /\ run = c /\ step \in {"store", "ok"} =>
                job'[c] = "done" \/ (run' = c /\ step' \in {"store", "ok"})
  PROVE  AuthorisedOnce'
<1>1. \A c \in Calls : mishaps'[c] \cap Doubling = {} => mishaps[c] \cap Doubling = {}
  BY FaultsStay
<1>2. \A c \in Calls : IssuedTo(c)' = IssuedTo(c)
  BY DEF IssuedTo
<1>3. QED
  BY <1>1, <1>2 DEF BillingInv, AuthorisedOnce

\* No job that lost nothing is authorised a second time.
LEMMA AuthorisedStep == BillingInv /\ [Next]_vars => AuthorisedOnce'
<1> SUFFICES ASSUME BillingInv, [Next]_vars PROVE AuthorisedOnce'
  OBVIOUS
<1>1. CASE UNCHANGED vars
  BY <1>1, AuthorisedKept DEF vars, jobVars, runVars
<1>2. ASSUME NEW c \in Calls, Check(c) PROVE AuthorisedOnce'
  BY <1>2, AuthorisedKept DEF Check, jobVars, runVars
<1>3. ASSUME NEW c \in Calls, Mark(c) PROVE AuthorisedOnce'
  BY <1>3, AuthorisedKept DEF Mark, jobVars, runVars
<1>4. ASSUME NEW c \in Calls, Add(c) PROVE AuthorisedOnce'
  BY <1>4, AuthorisedKept DEF Add, BillingInv, AddedOnce, runVars
<1>5. ASSUME NEW c \in Calls, AddFails(c) PROVE AuthorisedOnce'
  BY <1>5, AuthorisedKept DEF AddFails, jobVars, runVars
<1>6. ASSUME NEW c \in Calls, Undo(c) PROVE AuthorisedOnce'
  BY <1>6, AuthorisedKept DEF Undo, jobVars, runVars
<1>7. ASSUME NEW c \in Calls, LateAdd(c) PROVE AuthorisedOnce'
  BY <1>7, AuthorisedKept DEF LateAdd, BillingInv, AddedOnce, runVars
<1>8. ASSUME NEW c \in Calls, Take(c) PROVE AuthorisedOnce'
  BY <1>8, AuthorisedKept DEF Take, BillingInv, RunOwnsJob
<1>9. ASSUME NEW c \in Calls, Promote(c) PROVE AuthorisedOnce'
  BY <1>9, AuthorisedKept DEF Promote, runVars
<1>10. ASSUME NEW c \in Calls, Recover(c) PROVE AuthorisedOnce'
  BY <1>10, AuthorisedKept DEF Recover, runVars
<1>11. CASE CreateInvoice
  <2>1. run \in Calls /\ step = "ask"
    BY <1>11, RunIsCall DEF CreateInvoice
  <2>2. UNCHANGED <<job, run>>
    BY <1>11 DEF CreateInvoice, jobVars
  <2>3. CASE UNCHANGED afip
    BY <1>11, <2>1, <2>2, <2>3, AuthorisedKept
  <2>4. CASE afip' = Append(afip, run) /\ step' = "store"
    <3>1. ASSUME NEW c \in Calls, mishaps'[c] \cap Doubling = {}
          PROVE  /\ \A m, n \in IssuedTo(c)' : m = n
                 /\ IssuedTo(c)' # {} =>
                      job'[c] = "done" \/ (run' = c /\ step' \in {"store", "ok"})
      <4>1. mishaps[c] \cap Doubling = {}
        BY <3>1, FaultsStay
      <4>2. CASE c = run
        <5>1. job[c] = "active"
          BY <4>1, <4>2 DEF BillingInv, RunOwnsJob, Doubling
        <5>2. IssuedTo(c) = {}
          BY <2>1, <4>1, <5>1 DEF BillingInv, AuthorisedOnce
        <5>3. IssuedTo(c)' \subseteq {Len(afip) + 1}
          BY <2>1, <2>4, <5>2, Authorises DEF IssuedTo
        <5>4. QED
          BY <2>2, <2>4, <4>2, <5>3
      <4>3. CASE c # run
        <5>1. IssuedTo(c)' = IssuedTo(c)
          BY <2>1, <2>4, <4>3, Authorises DEF IssuedTo
        <5>2. QED
          BY <2>2, <4>1, <4>3, <5>1 DEF BillingInv, AuthorisedOnce
      <4>4. QED
        BY <4>2, <4>3
    <3>2. QED
      BY <3>1 DEF AuthorisedOnce
  <2>5. CASE afip' = Append(afip, run) /\ Hit(run, "lost") /\ "lost" \in Faults
    <3>1. ASSUME NEW c \in Calls, mishaps'[c] \cap Doubling = {}
          PROVE  /\ \A m, n \in IssuedTo(c)' : m = n
                 /\ IssuedTo(c)' # {} =>
                      job'[c] = "done" \/ (run' = c /\ step' \in {"store", "ok"})
      <4>1. mishaps[c] \cap Doubling = {} /\ c # run
        BY <2>1, <2>5, <3>1, Hits DEF BillingInv, Doubling
      <4>2. IssuedTo(c)' = IssuedTo(c)
        BY <2>1, <2>5, <4>1, Authorises DEF IssuedTo
      <4>3. QED
        BY <2>2, <4>1, <4>2 DEF BillingInv, AuthorisedOnce
    <3>2. QED
      BY <3>1 DEF AuthorisedOnce
  <2>6. QED
    BY <1>11, <2>3, <2>4, <2>5 DEF CreateInvoice
<1>12. CASE Store
  BY <1>12, AuthorisedKept DEF Store, BillingInv, TypeOK, Doubling, Hit, jobVars
<1>13. CASE Catch
  BY <1>13, AuthorisedKept DEF Catch, jobVars
<1>14. CASE FinishRun
  BY <1>14, AuthorisedKept DEF FinishRun, BillingInv, TypeOK, RunOwnsJob,
     Doubling
<1>15. ASSUME NEW s \in Sales, DeleteSale(s) PROVE AuthorisedOnce'
  BY <1>15, AuthorisedKept DEF DeleteSale, jobVars, runVars
<1>16. CASE Crash
  <2>1. \A c \in Calls : run = c => mishaps'[c] \cap Doubling # {}
    BY <1>16 DEF Crash, Doubling
  <2>2. QED
    BY <1>16, <2>1, AuthorisedKept DEF Crash, jobVars
<1>17. CASE Idle
  BY <1>17, AuthorisedKept DEF Idle, vars, jobVars, runVars
<1>18. QED
  BY <1>1, <1>2, <1>3, <1>4, <1>5, <1>6, <1>7, <1>8, <1>9, <1>10, <1>11, <1>12,
     <1>13, <1>14, <1>15, <1>16, <1>17 DEF Next, Enqueue, Work

\* PENDING is somebody's to change, if nobody leaves it behind.
LEMMA PendingKept ==
  ASSUME BillingInv, [Next]_vars, UNCHANGED target,
         \A s \in Sales : billing'[s] = "PENDING" => billing[s] = "PENDING",
         \A c \in Calls : WillChange(c) =>
           \/ WillChange(c)'
           \/ billing'[target[c]] # "PENDING"
           \/ mishaps'[c] \cap {"crash", "store"} # {}
  PROVE  PendingChanges'
<1> SUFFICES ASSUME NEW s \in Sales, billing'[s] = "PENDING"
             PROVE  \/ \E c \in Calls : target'[c] = s /\ WillChange(c)'
                    \/ Hurt(s, {"crash", "store"})' # {}
  BY DEF PendingChanges
<1>1. CASE Hurt(s, {"crash", "store"}) # {}
  BY <1>1, FaultsStay DEF Hurt
<1>2. CASE \E c \in Calls : target[c] = s /\ WillChange(c)
  BY <1>2 DEF Hurt
<1>3. QED
  BY <1>1, <1>2 DEF BillingInv, PendingChanges

\* Whoever leaves a PENDING sale has changed its status, or was hit by a fault.
LEMMA PendingStep == BillingInv /\ [Next]_vars => PendingChanges'
<1> SUFFICES ASSUME BillingInv, [Next]_vars PROVE PendingChanges'
  OBVIOUS
<1>1. CASE UNCHANGED vars
  BY <1>1, PendingKept DEF vars, callVars, jobVars, runVars, WillChange
<1>2. ASSUME NEW c \in Calls, Check(c) PROVE PendingChanges'
  BY <1>2, PendingKept DEF Check, WillChange, jobVars, runVars
<1>3. ASSUME NEW c \in Calls, Mark(c) PROVE PendingChanges'
  <2>1. target[c] \in Sales
    BY DEF BillingInv, TypeOK
  <2>2. UNCHANGED <<target, job, run, step>>
    BY <1>3 DEF Mark, jobVars, runVars
  <2>3. CASE UNCHANGED billing
    <3>1. \A d \in Calls : WillChange(d) => WillChange(d)'
      BY <1>3, <2>2 DEF Mark, WillChange, BillingInv, TypeOK
    <3>2. QED
      BY <1>3, <2>2, <2>3, <3>1, PendingKept
  <2>4. CASE Update(target[c], "PENDING") /\ pc' = [pc EXCEPT ![c] = "add"]
    <3>1. WillChange(c)'
      BY <2>4 DEF WillChange, BillingInv, TypeOK
    <3>2. \A d \in Calls : WillChange(d) => WillChange(d)'
      BY <2>2, <2>4 DEF WillChange
    <3>3. \A s \in Sales \ {target[c]} : billing'[s] = billing[s]
      BY <2>1, <2>4, Updates DEF BillingInv, Status
    <3>4. \A s \in Sales : Hurt(s, {"crash", "store"}) # {} =>
                            Hurt(s, {"crash", "store"})' # {}
      BY <2>2, FaultsStay DEF Hurt
    <3>5. QED
      BY <2>2, <3>1, <3>2, <3>3, <3>4 DEF BillingInv, PendingChanges
  <2>5. QED
    BY <1>3, <2>3, <2>4 DEF Mark
<1>4. ASSUME NEW c \in Calls, Add(c) PROVE PendingChanges'
  BY <1>4, PendingKept DEF Add, BillingInv, TypeOK, WillChange, runVars
<1>5. ASSUME NEW c \in Calls, AddFails(c) PROVE PendingChanges'
  BY <1>5, PendingKept DEF AddFails, WillChange, jobVars, runVars
<1>6. ASSUME NEW c \in Calls, Undo(c) PROVE PendingChanges'
  <2>1. target[c] \in Sales
    BY DEF BillingInv, TypeOK
  <2>2. UNCHANGED <<target, job, run>>
    BY <1>6 DEF Undo, jobVars, runVars
  <2>3. \A s \in Sales : billing'[s] = "PENDING" => billing[s] = "PENDING"
    BY <1>6, <2>1, Updates DEF Undo, BillingInv, Status
  <2>4. billing'[target[c]] # "PENDING" \/ mishaps'[c] \cap {"crash", "store"} # {}
    BY <1>6, <2>1, Updates, Hits DEF Undo, BillingInv, Status
  <2>5. \A d \in Calls \ {c} : WillChange(d) => WillChange(d)'
    BY <1>6, <2>1, <2>2 DEF Undo, WillChange, runVars
  <2>6. QED
    BY <1>6, <2>2, <2>3, <2>4, <2>5, PendingKept
<1>7. ASSUME NEW c \in Calls, LateAdd(c) PROVE PendingChanges'
  BY <1>7, PendingKept DEF LateAdd, WillChange, runVars
<1>8. ASSUME NEW c \in Calls, Take(c) PROVE PendingChanges'
  BY <1>8, PendingKept DEF Take, BillingInv, RunOwnsJob, WillChange, callVars
<1>9. ASSUME NEW c \in Calls, Promote(c) PROVE PendingChanges'
  BY <1>9, PendingKept DEF Promote, WillChange, callVars, runVars
<1>10. ASSUME NEW c \in Calls, Recover(c) PROVE PendingChanges'
  BY <1>10, PendingKept DEF Recover, WillChange, callVars, runVars
<1>11. CASE CreateInvoice
  BY <1>11, PendingKept DEF CreateInvoice, WillChange, callVars, jobVars
<1>12. CASE Store
  <2>1. run \in Calls /\ target[run] \in Sales
    BY <1>12, RunIsCall DEF BillingInv, TypeOK, Store
  <2>2. UNCHANGED <<target, job, run>>
    BY <1>12 DEF Store, callVars, jobVars
  <2>3. \A s \in Sales : billing'[s] = "PENDING" => billing[s] = "PENDING"
    BY <1>12, <2>1, Updates DEF Store, BillingInv, Status
  <2>4. \/ billing'[target[run]] # "PENDING"
        \/ mishaps'[run] \cap {"crash", "store"} # {}
        \/ step' = "catch"
    BY <1>12, <2>1, Updates, Hits DEF Store, BillingInv, Status
  <2>5. \A d \in Calls \ {run} : WillChange(d) => WillChange(d)'
    BY <1>12, <2>1, <2>2 DEF Store, WillChange, callVars
  <2>6. QED
    BY <1>12, <2>2, <2>3, <2>4, <2>5, PendingKept DEF WillChange
<1>13. CASE Catch
  <2>1. run \in Calls /\ target[run] \in Sales
    BY <1>13, RunIsCall DEF BillingInv, TypeOK, Catch
  <2>2. UNCHANGED <<target, job, run>>
    BY <1>13 DEF Catch, callVars, jobVars
  <2>3. \A s \in Sales : billing'[s] = "PENDING" => billing[s] = "PENDING"
    BY <1>13, <2>1, Updates DEF Catch, BillingInv, Status
  <2>4. billing'[target[run]] # "PENDING" \/ mishaps'[run] \cap {"crash", "store"} # {}
    BY <1>13, <2>1, Updates, Hits DEF Catch, BillingInv, Status
  <2>5. \A d \in Calls \ {run} : WillChange(d) => WillChange(d)'
    BY <1>13, <2>1, <2>2 DEF Catch, WillChange, callVars
  <2>6. QED
    BY <1>13, <2>2, <2>3, <2>4, <2>5, PendingKept
<1>14. CASE FinishRun
  BY <1>14, PendingKept DEF FinishRun, BillingInv, TypeOK, WillChange, callVars
<1>15. ASSUME NEW s \in Sales, DeleteSale(s) PROVE PendingChanges'
  BY <1>15, PendingKept DEF DeleteSale, WillChange, callVars, jobVars, runVars
<1>16. CASE Crash
  BY <1>16, PendingKept DEF Crash, WillChange, jobVars
<1>17. CASE Idle
  BY <1>17, PendingKept DEF Idle, vars, callVars, runVars, WillChange
<1>18. QED
  BY <1>1, <1>2, <1>3, <1>4, <1>5, <1>6, <1>7, <1>8, <1>9, <1>10, <1>11, <1>12,
     <1>13, <1>14, <1>15, <1>16, <1>17 DEF Next, Enqueue, Work

\* A call that passed the check stays one that did, and they are finitely many.
LEMMA AcceptedStays ==
  ASSUME BillingInv, [Next]_vars, NEW s \in Sales
  PROVE  /\ target' = target
         /\ Accepted(s) \subseteq Accepted(s)'
         /\ IsFiniteSet(Accepted(s)')
<1>1. target' = target
  BY DEF Next, Enqueue, Check, Mark, Add, AddFails, Undo, LateAdd, Take,
     Promote,
     Recover, Work, CreateInvoice, Store, Catch, FinishRun, DeleteSale, Crash,
     Idle, vars, callVars
<1>2. IsFiniteSet(Accepted(s))
  BY DEF BillingInv, LoneIsExact
<1>3. ASSUME NEW c \in Calls, Check(c)
      PROVE  /\ Accepted(s) \subseteq Accepted(s)'
             /\ IsFiniteSet(Accepted(s)')
  <2>1. /\ Accepted(s) \subseteq Accepted(s)'
        /\ Accepted(s)' \subseteq Accepted(s) \cup {c}
    BY <1>1, <1>3 DEF Check, Accepted, BillingInv, TypeOK
  <2> QED BY <1>2, <2>1, FS_AddElement, FS_Subset
<1>4. ASSUME \A d \in Calls :
               pc[d] \in {"new", "rejected"} <=> pc'[d] \in {"new", "rejected"}
      PROVE  /\ Accepted(s) \subseteq Accepted(s)'
             /\ IsFiniteSet(Accepted(s)')
  <2>1. Accepted(s)' = Accepted(s)
    BY <1>1, <1>4 DEF Accepted
  <2> QED BY <1>2, <2>1
<1>5. ASSUME NEW c \in Calls, Mark(c) \/ Add(c) \/ AddFails(c) \/ Undo(c)
      PROVE  \A d \in Calls :
               pc[d] \in {"new", "rejected"} <=> pc'[d] \in {"new", "rejected"}
  BY <1>5 DEF Mark, Add, AddFails, Undo, BillingInv, TypeOK
<1>6. CASE Crash
  BY <1>1, <1>4, <1>6 DEF Crash, Busy
<1>7. CASE UNCHANGED pc
  BY <1>1, <1>4, <1>7
<1> QED
  BY <1>1, <1>3, <1>4, <1>5, <1>6, <1>7 DEF Next, Enqueue, LateAdd, Take,
     Promote, Recover, Work, CreateInvoice, Store, Catch, FinishRun, DeleteSale,
     Idle, vars, callVars

\* A deleted sale stays deleted.
LEMMA DeletedStays ==
  ASSUME BillingInv, [Next]_vars, NEW s \in Sales, billing[s] = "DELETED"
  PROVE  billing'[s] = "DELETED"
BY DEF BillingInv, TypeOK, Next, Enqueue, Check, Mark, Add, AddFails, Undo,
   LateAdd, Take, Promote, Recover, Work, CreateInvoice, Store, Catch, FinishRun,
   DeleteSale, Crash, Idle, vars, Update

\* A sale at which one unhurt call works was one before.
LEMMA LoneBefore ==
  ASSUME BillingInv, [Next]_vars, NEW s \in Sales, Lone(s)'
  PROVE  Lone(s) /\ Exact(s)
<1>1. \A c, d \in Accepted(s) : c = d
  BY AcceptedStays DEF Lone
<1>2. Hurt(s, Fault) = {}
  BY AcceptedStays, FaultsStay DEF Lone, Hurt
<1>3. billing[s] # "DELETED"
  BY DeletedStays DEF Lone
<1> QED BY <1>1, <1>2, <1>3 DEF Lone, BillingInv, LoneIsExact

\* What is exact stays so while nothing of it changes.
LEMMA ExactKept ==
  ASSUME NEW s \in Sales, Exact(s), UNCHANGED target, UNCHANGED afip,
         voucher'[s] = voucher[s],
         billing'[s] = "COMPLETED" <=> billing[s] = "COMPLETED",
         Storing(s)' <=> Storing(s), Storing(s) => got' = got,
         Invoiced(s)' <=> Invoiced(s)
  PROVE  Exact(s)'
<1>1. Issued(s)' = Issued(s)
  BY DEF Issued
<1> QED BY <1>1 DEF Exact

\* The one call of such a sale: whatever has a job for it is that call, and the
\* worker, if it is at it, owns its job.
LEMMA LoneCall ==
  ASSUME BillingInv, NEW s \in Sales, Lone(s), NEW c \in Calls, target[c] = s,
         pc[c] \notin {"new", "rejected"}
  PROVE  /\ \A d \in Calls : target[d] = s /\ job[d] # "absent" => d = c
         /\ mishaps[c] = {}
         /\ run = c => job[c] = "active"
         /\ step # "idle" /\ target[run] = s => run = c
<1>1. \A d \in Calls : target[d] = s /\ job[d] # "absent" => d = c
  BY DEF BillingInv, AddedOnce, Lone, Accepted
<1>2. mishaps[c] = {}
  BY BillingAssumption DEF BillingInv, TypeOK, Lone, Hurt
<1>3. run = c => job[c] = "active"
  BY <1>2 DEF BillingInv, RunOwnsJob
<1>4. step # "idle" /\ target[run] = s => run = c
  BY <1>1, RunIsCall DEF BillingInv, RunOwnsJob
<1> QED BY <1>1, <1>2, <1>3, <1>4

\* While its job is not done, or not yet there, nothing of it is invoiced.
LEMMA LoneOpen ==
  ASSUME BillingInv, NEW s \in Sales, Lone(s), NEW c \in Calls, target[c] = s,
         pc[c] \notin {"new", "rejected"},
         \/ job[c] = "absent"
         \/ run = c /\ step \in {"ask", "store", "catch", "error"}
  PROVE  ~ Invoiced(s)
<1>1. job[c] # "done" /\ \A d \in Calls : target[d] = s => job[d] # "done"
  BY LoneCall DEF BillingInv, RunOwnsJob
<1>2. ~ (step = "ok" /\ target[run] = s)
  BY LoneCall DEF BillingInv, RunOwnsJob
<1> QED BY <1>1, <1>2 DEF Invoiced

\* The run of a call: the call has passed the check.
LEMMA RunPassed ==
  ASSUME BillingInv, step # "idle"
  PROVE  /\ run \in Calls /\ target[run] \in Sales
         /\ pc[run] \notin {"new", "rejected"}
BY RunIsCall DEF BillingInv, TypeOK, RunOwnsJob, AddedOnce

\* A call changes the status of a sale: nothing of it is invoiced yet.
LEMMA MarkExact ==
  ASSUME BillingInv, [Next]_vars, NEW c \in Calls, Mark(c) \/ Undo(c),
         NEW s \in Sales, Lone(s)'
  PROVE  Exact(s)'
<1>1. Lone(s) /\ Exact(s)
  BY LoneBefore
<1>2. UNCHANGED <<target, voucher, job, run, step, got, afip>>
  BY DEF Mark, Undo, jobVars, runVars
<1>3. billing'[s] = "COMPLETED" <=> billing[s] = "COMPLETED"
  <2>1. target[c] \in Sales /\ billing \in [Sales -> Status]
    BY DEF BillingInv, TypeOK
  <2>2. CASE s # target[c]
    BY <2>1, <2>2 DEF Mark, Undo, Update
  <2>3. CASE s = target[c]
    <3>1. pc[c] \notin {"new", "rejected"}
      BY DEF Mark, Undo
    <3>2. mishaps[c] = {}
      BY <1>1, <2>3, <3>1, LoneCall
    <3>3. job[c] = "absent"
      BY <3>2 DEF Mark, Undo, BillingInv, AddedOnce, UndoneInTime
    <3>4. billing[s] # "COMPLETED"
      BY <1>1, <2>3, <3>1, <3>3, LoneOpen DEF Exact
    <3>5. billing'[s] # "COMPLETED"
      BY <2>1, <2>3, <3>4 DEF Mark, Undo, Update
    <3> QED BY <3>4, <3>5
  <2> QED BY <2>2, <2>3
<1> QED BY <1>1, <1>2, <1>3, ExactKept DEF Storing, Invoiced

\* AFIP authorises the first number of the sale, and the run has it.
LEMMA CreateExact ==
  ASSUME BillingInv, [Next]_vars, CreateInvoice, NEW s \in Sales, Lone(s)'
  PROVE  Exact(s)'
<1>1. Lone(s) /\ Exact(s)
  BY LoneBefore
<1>2. /\ run \in Calls /\ step = "ask" /\ pc[run] \notin {"new", "rejected"}
      /\ UNCHANGED <<billing, voucher, target, job, run>>
  BY RunPassed DEF CreateInvoice, callVars, jobVars
<1>3. CASE UNCHANGED <<afip, got>> /\ step' = "catch"
  BY <1>1, <1>2, <1>3, ExactKept DEF Storing, Invoiced
<1>4. CASE afip' = Append(afip, run) /\ target[run] # s
  <2>1. Issued(s)' = Issued(s)
    BY <1>2, <1>4, Authorises DEF Issued, BillingInv
  <2>2. step' \in {"store", "catch"}
    BY DEF CreateInvoice
  <2> QED BY <1>1, <1>2, <1>4, <2>1, <2>2 DEF Exact, Storing, Invoiced
<1>5. CASE /\ afip' = Append(afip, run) /\ got' = Len(afip) + 1 /\ step' = "store"
           /\ target[run] = s
  <2>1. ~ Invoiced(s) /\ ~ Storing(s)
    BY <1>1, <1>2, <1>5, LoneOpen DEF Storing
  <2>2. Issued(s) = {}
    BY <1>1, <2>1 DEF Exact
  <2>3. Issued(s)' = {got'}
    BY <1>2, <1>5, <2>2, Authorises DEF Issued, BillingInv
  <2>4. Storing(s)' /\ ~ Invoiced(s)'
    BY <1>2, <1>5, <2>1 DEF Storing, Invoiced
  <2> QED BY <1>1, <1>2, <2>1, <2>3, <2>4 DEF Exact
<1>6. CASE Hit(run, "lost") /\ "lost" \in Faults /\ target[run] = s
  <2>1. "lost" \in mishaps'[run]
    BY <1>2, <1>6, Hits DEF BillingInv
  <2> QED BY <1>2, <1>6, <2>1 DEF Lone, Hurt, Fault
<1> QED BY <1>3, <1>4, <1>5, <1>6 DEF CreateInvoice

\* The run stores the number it was given, unless the write fails.
LEMMA StoreExact ==
  ASSUME BillingInv, [Next]_vars, Store, NEW s \in Sales, Lone(s)'
  PROVE  Exact(s)'
<1>1. Lone(s) /\ Exact(s)
  BY LoneBefore
<1>2. /\ run \in Calls /\ step = "store" /\ pc[run] \notin {"new", "rejected"}
      /\ target[run] \in Sales
      /\ UNCHANGED <<target, job, run, got, afip>> /\ step' \in {"ok", "catch"}
      /\ billing \in [Sales -> Status] /\ voucher \in [Sales -> Nat]
  BY RunPassed DEF Store, callVars, jobVars, BillingInv, TypeOK
<1>3. CASE target[run] # s
  <2>1. billing'[s] = billing[s] /\ voucher'[s] = voucher[s]
    BY <1>2, <1>3 DEF Store, Update
  <2> QED BY <1>1, <1>2, <1>3, <2>1, ExactKept DEF Storing, Invoiced
<1>4. CASE target[run] = s /\ Hit(run, "store") /\ "store" \in Faults
  <2>1. "store" \in mishaps'[run]
    BY <1>2, <1>4, Hits DEF BillingInv
  <2> QED BY <1>2, <1>4, <2>1 DEF Lone, Hurt, Fault
<1>5. CASE /\ target[run] = s /\ Update(s, "COMPLETED") /\ step' = "ok"
           /\ voucher' = [voucher EXCEPT ![target[run]] =
                            IF billing[target[run]] = "DELETED" THEN @ ELSE got]
  <2>1. billing'[s] = "COMPLETED" /\ voucher'[s] = got
    BY <1>1, <1>2, <1>5 DEF Update, Lone
  <2>2. Issued(s) = {got} /\ Issued(s)' = Issued(s)
    BY <1>1, <1>2, <1>5 DEF Exact, Storing, Issued
  <2>3. got # 0
    BY <1>2, Vouchers DEF BillingInv, GotOurs
  <2>4. Invoiced(s)' /\ ~ Storing(s)'
    BY <1>2, <1>5 DEF Invoiced, Storing
  <2> QED BY <1>2, <2>1, <2>2, <2>3, <2>4 DEF Exact
<1> QED BY <1>3, <1>4, <1>5 DEF Store

\* A run that failed without a fault had no number.
LEMMA CatchExact ==
  ASSUME BillingInv, [Next]_vars, Catch, NEW s \in Sales, Lone(s)'
  PROVE  Exact(s)'
<1>1. Lone(s) /\ Exact(s)
  BY LoneBefore
<1>2. /\ run \in Calls /\ step = "catch" /\ pc[run] \notin {"new", "rejected"}
      /\ target[run] \in Sales
      /\ UNCHANGED <<voucher, target, job, run, got, afip>> /\ step' = "error"
      /\ billing \in [Sales -> Status]
  BY RunPassed DEF Catch, callVars, jobVars, BillingInv, TypeOK
<1>3. billing'[s] = "COMPLETED" <=> billing[s] = "COMPLETED"
  <2>1. CASE target[run] # s
    BY <1>2, <2>1 DEF Catch, Update
  <2>2. CASE target[run] = s
    <3>1. billing[s] # "COMPLETED"
      BY <1>1, <1>2, <2>2, LoneOpen DEF Exact
    <3> QED BY <1>2, <2>2, <3>1 DEF Catch, Update
  <2> QED BY <2>1, <2>2
<1> QED BY <1>1, <1>2, <1>3, ExactKept DEF Storing, Invoiced

\* The queue records that the job is done when, and only when, it is.
LEMMA FinishExact ==
  ASSUME BillingInv, [Next]_vars, FinishRun, NEW s \in Sales, Lone(s)'
  PROVE  Exact(s)'
<1>1. Lone(s) /\ Exact(s)
  BY LoneBefore
<1>2. /\ run \in Calls /\ step \in {"ok", "error"}
      /\ pc[run] \notin {"new", "rejected"} /\ target[run] \in Sales
      /\ UNCHANGED <<billing, voucher, target, afip>> /\ step' = "idle"
      /\ job \in [Calls -> JobState]
  BY RunPassed DEF FinishRun, callVars, BillingInv, TypeOK
<1>3. ~ Storing(s) /\ ~ Storing(s)'
  BY <1>2 DEF Storing
<1>4. \A d \in Calls \ {run} : job'[d] = job[d]
  BY <1>2 DEF FinishRun
<1>5. Invoiced(s)' <=> Invoiced(s)
  <2>1. CASE target[run] # s
    BY <1>2, <1>4, <2>1 DEF Invoiced
  <2>2. CASE target[run] = s
    <3>1. job[run] = "active"
      BY <1>1, <1>2, <2>2, LoneCall
    <3>2. job'[run] = "done" <=> step = "ok"
      BY <1>2, <3>1 DEF FinishRun
    <3>3. \A d \in Calls : target[d] = s /\ job[d] = "done" => d = run
      BY <1>1, <1>2, <2>2, LoneCall
    <3> QED BY <1>2, <1>4, <2>2, <3>1, <3>2, <3>3 DEF Invoiced
  <2> QED BY <2>1, <2>2
<1> QED BY <1>1, <1>2, <1>3, <1>5, ExactKept

\* Jobs come and go without being done.
LEMMA QueueExact ==
  ASSUME BillingInv, [Next]_vars, NEW c \in Calls,
         Add(c) \/ LateAdd(c) \/ Take(c) \/ Promote(c) \/ Recover(c),
         NEW s \in Sales, Lone(s)'
  PROVE  Exact(s)'
<1>1. Lone(s) /\ Exact(s)
  BY LoneBefore
<1>2. UNCHANGED <<billing, voucher, target, afip, got>>
  BY DEF Add, LateAdd, Take, Promote, Recover, callVars, runVars
<1>3. \A d \in Calls : job'[d] = "done" <=> job[d] = "done"
  BY DEF Add, LateAdd, Take, Promote, Recover, BillingInv, TypeOK, AddedOnce
<1>4. \/ UNCHANGED <<run, step>>
      \/ step \notin {"ok", "store"} /\ step' \notin {"ok", "store"}
  BY DEF Add, LateAdd, Take, Promote, Recover, runVars, BillingInv, RunOwnsJob
<1> QED BY <1>1, <1>2, <1>3, <1>4, ExactKept DEF Storing, Invoiced

\* A crash leaves a sale alone, or hurts it.
LEMMA CrashExact ==
  ASSUME BillingInv, [Next]_vars, Crash, NEW s \in Sales, Lone(s)'
  PROVE  Exact(s)'
<1>1. Lone(s) /\ Exact(s)
  BY LoneBefore
<1>2. UNCHANGED <<billing, voucher, target, job, afip>> /\ step' = "idle"
  BY DEF Crash, jobVars
<1>3. ~ (step # "idle" /\ target[run] = s)
  <2> SUFFICES ASSUME step # "idle", target[run] = s PROVE FALSE
    OBVIOUS
  <2>1. run \in Calls
    BY RunIsCall
  <2>2. "crash" \in mishaps'[run]
    BY <2>1 DEF Crash
  <2> QED BY <1>2, <2>1, <2>2 DEF Lone, Hurt, Fault
<1> QED BY <1>1, <1>2, <1>3, ExactKept DEF Storing, Invoiced

\* Every step keeps the numbers exact.
LEMMA ExactStep == BillingInv /\ [Next]_vars => LoneIsExact'
<1> SUFFICES ASSUME BillingInv, [Next]_vars, NEW s \in Sales, Lone(s)'
             PROVE  Exact(s)'
  BY AcceptedStays DEF LoneIsExact
<1>1. Lone(s) /\ Exact(s)
  BY LoneBefore
<1>2. CASE UNCHANGED vars \/ Idle
  BY <1>1, <1>2, ExactKept DEF Idle, vars, callVars, jobVars, runVars, Storing,
     Invoiced
<1>3. ASSUME NEW c \in Calls, Check(c) \/ AddFails(c) PROVE Exact(s)'
  BY <1>1, <1>3, ExactKept DEF Check, AddFails, jobVars, runVars, Storing,
     Invoiced
<1>4. ASSUME NEW t \in Sales, DeleteSale(t) PROVE Exact(s)'
  <2>1. t # s
    BY <1>4 DEF DeleteSale, Lone, BillingInv, TypeOK
  <2>2. billing'[s] = billing[s] /\ voucher'[s] = voucher[s]
    BY <1>4, <2>1 DEF DeleteSale, BillingInv, TypeOK
  <2> QED BY <1>1, <1>4, <2>2, ExactKept DEF DeleteSale, callVars, jobVars,
          runVars, Storing, Invoiced
<1>5. ASSUME NEW c \in Calls, Enqueue(c) PROVE Exact(s)'
  BY <1>3, <1>5, MarkExact, QueueExact DEF Enqueue
<1> QED
  BY <1>2, <1>4, <1>5, QueueExact, CreateExact, StoreExact, CatchExact,
     FinishExact, CrashExact DEF Next, Work

\* Only an add that lost the race outlives the call that gave up.
LEMMA UndoneStep == BillingInv /\ [Next]_vars => UndoneInTime'
<1> SUFFICES ASSUME BillingInv, [Next]_vars, NEW d \in Calls,
                    pc'[d] = "undo", late'[d] \/ job'[d] # "absent"
             PROVE  "timeout" \in mishaps'[d]
  BY DEF UndoneInTime
<1>1. mishaps[d] \subseteq mishaps'[d]
  BY FaultsStay
<1>2. CASE pc[d] = "undo" /\ (late[d] \/ job[d] # "absent")
  BY <1>1, <1>2 DEF BillingInv, UndoneInTime
<1>3. CASE pc[d] # "undo"
  <2>1. AddFails(d)
    BY <1>3 DEF Next, Enqueue, Check, Mark, Add, AddFails, Undo, LateAdd, Take,
       Promote, Recover, Work, CreateInvoice, Store, Catch, FinishRun,
       DeleteSale, Crash, Idle, vars, callVars, BillingInv, TypeOK
  <2>2. job'[d] = "absent" /\ ~ late[d]
    BY <2>1 DEF AddFails, jobVars, BillingInv, AddedOnce
  <2>3. "timeout" \in Faults /\ Hit(d, "timeout")
    BY <2>1, <2>2 DEF AddFails
  <2> QED BY <2>3, Hits DEF BillingInv
<1>4. CASE pc[d] = "undo" /\ ~ late[d] /\ job[d] = "absent"
  <2>1. late'[d] => late[d]
    BY <1>4 DEF Next, Enqueue, Check, Mark, Add, AddFails, Undo, LateAdd, Take,
       Promote, Recover, Work, CreateInvoice, Store, Catch, FinishRun,
       DeleteSale, Crash, Idle, vars, callVars, BillingInv, TypeOK
  <2>2. job'[d] = job[d]
    BY <1>4 DEF Next, Enqueue, Check, Mark, Add, AddFails, Undo, LateAdd, Take,
       Promote, Recover, Work, CreateInvoice, Store, Catch, FinishRun,
       DeleteSale, Crash, Idle, vars, jobVars, BillingInv, TypeOK, RunOwnsJob
  <2> QED BY <1>4, <2>1, <2>2
<1> QED BY <1>2, <1>3, <1>4

\* In the beginning nothing is queued, run or authorised.
LEMMA InitHolds == Init => BillingInv
<1> SUFFICES ASSUME Init PROVE BillingInv
  OBVIOUS
<1>1. TypeOK
  BY BillingAssumption DEF Init, TypeOK, Status, CallState, JobState
<1>2. AddedOnce /\ JobsBounded /\ RunOwnsJob
  BY BillingAssumption DEF Init, AddedOnce, JobsBounded, RunOwnsJob
<1>3. CheckedFirst /\ GotOurs /\ AuthorisedOnce /\ VoucherIsOurs
  BY DEF Init, CheckedFirst, GotOurs, AuthorisedOnce, VoucherIsOurs, IssuedTo,
     Issued
<1>4. PendingChanges
  BY DEF Init, PendingChanges
<1>5. UndoneInTime /\ LoneIsExact
  <2>1. UndoneInTime
    BY DEF Init, UndoneInTime
  <2>2. ASSUME NEW s \in Sales
        PROVE  IsFiniteSet(Accepted(s)) /\ Exact(s)
    <3>1. Accepted(s) = {} /\ Issued(s) = {}
      BY DEF Init, Accepted, Issued
    <3>2. ~ Storing(s) /\ ~ Invoiced(s)
      BY DEF Init, Storing, Invoiced
    <3> QED BY <3>1, <3>2, FS_EmptySet DEF Init, Exact
  <2> QED BY <2>1, <2>2 DEF LoneIsExact
<1>6. QED
  BY <1>1, <1>2, <1>3, <1>4, <1>5 DEF BillingInv

\* BillingInv is an invariant: sales, queue, worker and AFIP stay in step.
THEOREM BillingInvariant == Spec => []BillingInv
<1>1. BillingInv /\ [Next]_vars => BillingInv'
  BY TypeStep, AddedStep, BoundedStep, OwnsStep, CheckedStep, GotStep,
     VoucherStep, AuthorisedStep, PendingStep, UndoneStep, ExactStep
     DEF BillingInv
<1>2. QED
  BY InitHolds, <1>1, PTL DEF Spec

\* The variables keep to their types.
THEOREM BillingTypeCorrect == Spec => []TypeOK
<1>1. BillingInv => TypeOK
  BY DEF BillingInv
<1>2. QED
  BY BillingInvariant, <1>1, PTL

\* The number on the invoice of a sale was authorised for that very sale, and
\* only sales that need one have it, whatever is lost, retried or deleted.
THEOREM VoucherIsOursHolds == Spec => []VoucherIsOurs
<1>1. BillingInv => VoucherIsOurs
  BY DEF BillingInv
<1>2. QED
  BY BillingInvariant, <1>1, PTL

\* Retries alone never make AFIP authorise a job twice.
THEOREM JobInvoicesOnceHolds == Spec => []JobInvoicesOnce
<1>1. ASSUME BillingInv PROVE JobInvoicesOnce
  <2> SUFFICES ASSUME NEW c \in Calls, mishaps[c] \cap Doubling = {}
               PROVE  Cardinality(IssuedTo(c)) <= 1
    BY DEF JobInvoicesOnce
  <2>1. \A m, n \in IssuedTo(c) : m = n
    BY <1>1 DEF BillingInv, AuthorisedOnce
  <2>2. CASE IssuedTo(c) = {}
    BY <2>2, FS_EmptySet
  <2>3. CASE IssuedTo(c) # {}
    <3>1. PICK n \in IssuedTo(c) : IssuedTo(c) = {n}
      BY <2>1, <2>3
    <3>2. QED
      BY <3>1, FS_Singleton
  <2>4. QED
    BY <2>2, <2>3
<1>2. QED
  BY BillingInvariant, <1>1, PTL

\* A PENDING sale has somebody at work on it, unless a crash or a failed write
\* hit somebody who was.
THEOREM PendingInProgressHolds == Spec => []PendingInProgress
<1>1. BillingInv => PendingInProgress
  BY DEF BillingInv, PendingChanges, PendingInProgress, InProgress, WillChange
<1>2. QED
  BY BillingInvariant, <1>1, PTL
\* When a single call for a sale got past the check and nothing but a refusal of
\* AFIP hit it, status and voucher say exactly what AFIP did as soon as the run
\* is over, however often BullMQ retried.
THEOREM OneCallIsExactHolds == Spec => []OneCallIsExact
<1>1. ASSUME BillingInv PROVE OneCallIsExact
  <2> SUFFICES ASSUME NEW s \in Sales, Cardinality(Accepted(s)) <= 1,
                      Hurt(s, Fault) = {}, Settled(s), billing[s] # "DELETED"
               PROVE  /\ Issued(s) = IF voucher[s] = 0 THEN {} ELSE {voucher[s]}
                      /\ Issued(s) # {} <=> billing[s] = "COMPLETED"
    BY DEF OneCallIsExact
  <2>1. IsFiniteSet(Accepted(s))
    BY <1>1 DEF BillingInv, LoneIsExact
  <2>2. \A c, d \in Accepted(s) : c = d
    <3> SUFFICES ASSUME NEW c \in Accepted(s), NEW d \in Accepted(s), c # d
                 PROVE  FALSE
      OBVIOUS
    <3>1. Cardinality({c, d}) <= Cardinality(Accepted(s))
      BY <2>1, FS_Subset
    <3>2. Cardinality({c, d}) = 2
      <4>1. IsFiniteSet({c}) /\ Cardinality({c}) = 1
        BY FS_Singleton
      <4>2. {c, d} = {c} \cup {d}
        OBVIOUS
      <4>3. Cardinality({c} \cup {d}) = Cardinality({c}) + 1
        BY <4>1, FS_AddElement
      <4> QED BY <4>1, <4>2, <4>3
    <3>3. Cardinality(Accepted(s)) \in Nat
      BY <2>1, FS_CardinalityType
    <3> QED BY <3>1, <3>2, <3>3
  <2>3. Exact(s)
    BY <1>1, <2>2 DEF BillingInv, LoneIsExact, Lone
  <2>4. ~ Storing(s)
    BY <1>1 DEF Settled, Storing, BillingInv, RunOwnsJob
  <2> QED BY <2>3, <2>4 DEF Exact
<1>2. QED
  BY BillingInvariant, <1>1, PTL
============================================================================
