------------------------- MODULE CreditNotesProofs -------------------------
(***************************************************************************)
(* That CreditInv is an invariant of CreditNotes, for any sales, amounts,  *)
(* calls and faults, and that every property of the module follows: what   *)
(* is credited, what comes back, what the sale says, who is at work.       *)
(***************************************************************************)
EXTENDS CreditNotes, SumTheorems, FiniteSetTheorems, TLAPS

\* What a fault does to the history of faults.
LEMMA Hits ==
  ASSUME TypeOK, NEW c \in Calls, NEW fault, Hit(c, fault)
  PROVE  hurt' \subseteq Calls /\ c \in hurt' /\ hurt \subseteq hurt'
BY DEF Hit, TypeOK

\* What a call is asked for.
LEMMA Asked ==
  ASSUME TypeOK, NEW c \in Calls
  PROVE  /\ SaleOf(c) \in Sales /\ Lines[SaleOf(c)] \in Nat
         /\ ask[c].stock \in BOOLEAN /\ ask[c].total \in Nat
         /\ ask[c].mode \in {"TOTAL", "PARTIAL"}
<1>1. ask[c] \in Request
  BY CreditNotesAssumption DEF TypeOK
<1>2. QED
  BY <1>1, CreditNotesAssumption DEF Request, SaleOf

\* The worker runs the job of a call unless it is idle, and that job is of a
\* note of AFIP.
LEMMA RunIsCall ==
  ASSUME CreditInv, step # "idle"
  PROVE  /\ run \in Calls /\ run # NoRun /\ job[run] = "active"
         /\ ~ Internal(run) /\ note[run] # "NONE" /\ ~ late[run]
BY DEF CreditInv, TypeOK, RunOwnsJob, CallsInOrder

\* What is asked never changes, and a fault, once it has hit, is not forgotten.
LEMMA HurtGrows ==
  ASSUME CreditInv, [Next]_vars
  PROVE  hurt \subseteq hurt' /\ ask' = ask
<1>1. CASE UNCHANGED vars
  BY <1>1 DEF vars, history, callVars
<1>2. ASSUME NEW c \in Calls, CreateCreditNote(c) \/ LateAdd(c) \/ Take(c)
                              \/ Promote(c) \/ Recover(c)
      PROVE  hurt \subseteq hurt' /\ ask' = ask
  BY <1>2 DEF CreateCreditNote, ReadSale, CheckAmount, Create, GiveBack,
     MarkRefunded, Queue, QueueFails, Undo, LateAdd, Take, Promote, Recover,
     Hit, history, callVars
<1>3. CASE Work
  BY <1>3 DEF Work, Authorise, Complete, ReturnLine, Stamp, AddUp, SetStatus,
     Catch, FinishRun, RunFrame, StoreFails, Hit, history, callVars
<1>4. ASSUME NEW s, DeleteSale(s) PROVE hurt \subseteq hurt' /\ ask' = ask
  BY <1>4 DEF DeleteSale, history, callVars
<1>5. CASE Crash
  BY <1>5 DEF Crash
<1>6. QED
  BY <1>1, <1>2, <1>3, <1>4, <1>5 DEF Next, Idle

\* What giving back the next line does.
LEMMA GivesBack ==
  ASSUME TypeOK, NEW c \in Calls, line[c] < Lines[SaleOf(c)],
         line' = [line EXCEPT ![c] = @ + 1],
         back' = [back EXCEPT ![c][line[c] + 1] = @ + 1]
  PROVE  /\ DOMAIN line' = Calls /\ DOMAIN back' = Calls
         /\ line'[c] = line[c] + 1 /\ line'[c] \in 0..Lines[SaleOf(c)]
         /\ back'[c] \in [1..Lines[SaleOf(c)] -> Nat]
         /\ GaveBack(c, line[c]) => GaveBack(c, line[c])'
         /\ \A d \in Calls \ {c} : line'[d] = line[d] /\ back'[d] = back[d]
<1>1. /\ line[c] \in Nat /\ line[c] <= Lines[SaleOf(c)]
      /\ back[c] \in [1..Lines[SaleOf(c)] -> Nat] /\ Lines[SaleOf(c)] \in Nat
  <2>1. Lines[SaleOf(c)] \in Nat
    BY Asked
  <2>2. line[c] \in 0..Lines[SaleOf(c)] /\ back[c] \in [1..Lines[SaleOf(c)] -> Nat]
    BY DEF TypeOK
  <2> QED BY <2>1, <2>2
<1>2. line[c] + 1 \in 1..Lines[SaleOf(c)]
  BY <1>1
<1>3. back'[c] = [back[c] EXCEPT ![line[c] + 1] = back[c][line[c] + 1] + 1]
  BY DEF TypeOK
<1>4. back'[c] \in [1..Lines[SaleOf(c)] -> Nat]
  BY <1>1, <1>2, <1>3
<1>5. /\ line'[c] = line[c] + 1 /\ line'[c] \in 0..Lines[SaleOf(c)]
      /\ DOMAIN line' = Calls /\ DOMAIN back' = Calls
      /\ \A d \in Calls \ {c} : line'[d] = line[d] /\ back'[d] = back[d]
  BY <1>1, <1>2 DEF TypeOK
<1>6. ASSUME GaveBack(c, line[c]) PROVE GaveBack(c, line[c])'
  <2>1. \A i \in 1..Lines[SaleOf(c)] : back[c][i] = IF i <= line[c] THEN 1 ELSE 0
    BY <1>1, <1>6 DEF GaveBack
  <2>2. \A i \in 1..Lines[SaleOf(c)] :
           back'[c][i] = IF i <= line[c] + 1 THEN 1 ELSE 0
    BY <1>1, <1>2, <1>3, <2>1
  <2>3. QED
    BY <1>4, <1>5, <2>2 DEF GaveBack
<1>7. QED
  BY <1>4, <1>5, <1>6

\* The amounts that a note may be given do not exceed what was allowed for it
\* by more than the two halves of a cent that its parts are rounded up.
LEMMA Product == ASSUME NEW x \in Nat, NEW y \in Nat, NEW a \in Nat, x <= y
                 PROVE  x * a <= y * a /\ x * a \in Nat /\ y * a \in Nat
<1>1. PICK d \in Nat : y = x + d
  <2>1. y - x \in Nat /\ y = x + (y - x)
    OBVIOUS
  <2>2. QED
    BY <2>1
<1>2. x * a \in Nat /\ d * a \in Nat /\ y * a = x * a + d * a
  BY <1>1
<1>3. QED
  BY <1>2
LEMMA RoundedBounds ==
  ASSUME NEW x \in Nat, NEW y \in Nat, y > 0, NEW q \in Rounded(x, y)
  PROVE  q \in Nat /\ q * y \in Nat /\ 2 * (q * y) <= 2 * x + y
<1>1. x \div y \in Nat
  OBVIOUS
<1>2. q \in Nat
  BY <1>1 DEF Rounded
<1>3. q * y \in Nat
  BY <1>2
<1>4. 2 * (q * y - x) \in (-y)..y
  BY DEF Rounded
<1>5. QED
  BY <1>2, <1>3, <1>4
LEMMA CreditsFit ==
  ASSUME NEW s \in Sales, NEW allowed \in Nat, NEW amount \in Credits(s, allowed)
  PROVE  Total(s) \in Nat /\ Total(s) > 0 /\ amount \in Nat /\ amount <= allowed + 1
<1>1. /\ Neto[s] \in Nat /\ Iva[s] \in Nat /\ Shipping[s] \in Nat
      /\ Neto[s] + Iva[s] > 0
  BY CreditNotesAssumption
<1> DEFINE parts == Neto[s] + Iva[s]
           T == Total(s)
<1>2. T \in Nat /\ T > 0 /\ parts \in Nat /\ parts <= T
  BY <1>1 DEF Total
<1> DEFINE x == Neto[s] * allowed
           y == Iva[s] * allowed
<1>3. x \in Nat /\ y \in Nat /\ x + y = parts * allowed
  BY <1>1
<1>4. PICK neto \in Rounded(x, T), iva \in Rounded(y, T) : amount = neto + iva
  BY DEF Credits
<1>5. parts * allowed <= T * allowed
  BY <1>2, Product
<1> HIDE DEF x, y, T, parts
<1>6. /\ neto \in Nat /\ neto * T \in Nat /\ 2 * (neto * T) <= 2 * x + T
      /\ iva \in Nat /\ iva * T \in Nat /\ 2 * (iva * T) <= 2 * y + T
  BY <1>2, <1>3, <1>4, RoundedBounds
<1>7. amount \in Nat /\ amount * T = neto * T + iva * T
  BY <1>2, <1>4, <1>6
<1>8. (allowed + 1) * T = T * allowed + T /\ T * allowed \in Nat
  BY <1>2
<1>9. amount * T <= (allowed + 1) * T
  BY <1>2, <1>3, <1>5, <1>6, <1>7, <1>8
<1>10. ~ (allowed + 2 <= amount)
  <2> SUFFICES ASSUME allowed + 2 <= amount PROVE FALSE
    OBVIOUS
  <2>1. (allowed + 2) * T <= amount * T
    BY <1>2, <1>7, Product
  <2>2. (allowed + 2) * T = (allowed + 1) * T + T
    BY <1>2
  <2>3. (allowed + 1) * T \in Nat /\ amount * T \in Nat
    BY <1>2, <1>7
  <2>4. QED
    BY <1>2, <1>9, <2>1, <2>2, <2>3
<1>11. QED
  BY <1>2, <1>7, <1>10 DEF T

\* What a sum of credits is, and that it does not depend on other credits.
LEMMA CreditSums ==
  ASSUME TypeOK, NEW T \in SUBSET Calls
  PROVE  IsFiniteSet(T) /\ SumOn(credit, T) \in Int /\ \A x \in T : credit[x] \in Nat
<1>1. IsFiniteSet(T)
  BY FS_Subset, CreditNotesAssumption
<1>2. \A x \in T : credit[x] \in Nat
  BY DEF TypeOK
<1>3. QED
  BY <1>1, <1>2, SumIsInt

\* What a check that succeeds leaves: a credit that fits.
LEMMA Checks ==
  ASSUME CreditInv, NEW c \in Calls, CheckAmount(c)
  PROVE  /\ note[c] = "NONE"
         /\ \/ UNCHANGED <<credit, saw>>
            \/ /\ credit' \in [Calls -> Nat]
               /\ \A d \in Calls \ {c} : credit'[d] = credit[d]
               /\ saw' = [saw EXCEPT ![c] = Counted(SaleOf(c))]
               /\ SumOn(credit, Counted(SaleOf(c))) < Total(SaleOf(c))
               /\ credit'[c] + SumOn(credit, Counted(SaleOf(c)))
                    <= Total(SaleOf(c)) + 1
<1> DEFINE s == SaleOf(c)
           sum == SumOn(credit, Counted(s))
           available == Total(s) - sum
           wanted == IF ask[c].mode = "TOTAL" THEN available ELSE ask[c].total
<1>1. TypeOK /\ note[c] = "NONE"
  BY DEF CreditInv, CallsInOrder, CheckAmount
<1>2. s \in Sales /\ Total(s) \in Nat
  <2>1. s \in Sales
    BY <1>1, Asked
  <2>2. QED
    BY <2>1, CreditNotesAssumption DEF Total
<1>3. sum \in Int
  BY <1>1, CreditSums DEF Counted, NotesOf
<1>4. CASE ~ Allowed(wanted, available)
  BY <1>1, <1>4 DEF CheckAmount
<1>5. CASE Allowed(wanted, available)
  <2>1. PICK amount \in Credits(s, wanted) : credit' = [credit EXCEPT ![c] = amount]
    BY <1>5 DEF CheckAmount
  <2>2. wanted \in Nat /\ available > 0 /\ wanted <= available
    BY <1>1, <1>2, <1>3, <1>5, Asked DEF Allowed
  <2>3. saw' = [saw EXCEPT ![c] = Counted(s)]
    BY <1>5 DEF CheckAmount
  <2> HIDE DEF s, wanted, sum
  <2>4. amount \in Nat /\ amount <= wanted + 1
    BY <1>2, <2>1, <2>2, CreditsFit
  <2>5. /\ credit' \in [Calls -> Nat] /\ credit'[c] = amount
        /\ \A d \in Calls \ {c} : credit'[d] = credit[d]
    BY <1>1, <2>1, <2>4 DEF TypeOK
  <2>6. sum < Total(s) /\ amount + sum <= Total(s) + 1
    BY <1>2, <1>3, <2>2, <2>4
  <2>7. QED
    BY <1>1, <2>3, <2>5, <2>6 DEF s, sum
<1>6. QED
  BY <1>4, <1>5

\* A run counts its lines from none.
LEMMA LineReset ==
  ASSUME TypeOK, line' \in {line, [line EXCEPT ![run] = 0]}
  PROVE  /\ DOMAIN line' = Calls
         /\ \A d \in Calls : line'[d] \in 0..Lines[SaleOf(d)]
<1>1. DOMAIN line' = Calls /\ \A d \in Calls : line'[d] \in {line[d], 0}
  BY DEF TypeOK
<1>2. \A d \in Calls : line[d] \in 0..Lines[SaleOf(d)] /\ Lines[SaleOf(d)] \in Nat
  BY Asked DEF TypeOK
<1>3. QED
  BY <1>1, <1>2

\* Every step keeps the variables within their types.
LEMMA TypeStep == CreditInv /\ [Next]_vars => TypeOK'
<1> SUFFICES ASSUME CreditInv, TypeOK, JobsBounded, [Next]_vars PROVE TypeOK'
  BY DEF CreditInv
<1>1. CASE UNCHANGED vars
  BY <1>1 DEF vars, TypeOK, notes, callVars, jobVars, runVars, history, SaleOf
<1>2. ASSUME NEW c \in Calls, ReadSale(c) PROVE TypeOK'
  BY <1>2 DEF ReadSale, Goto, TypeOK, CallState, Ended, notes, jobVars, runVars,
     history, SaleOf
<1>3. ASSUME NEW c \in Calls, CheckAmount(c) PROVE TypeOK'
  <2>1. credit' \in [Calls -> Nat] /\ saw' \in [Calls -> SUBSET Calls]
    <3>1. Counted(SaleOf(c)) \in SUBSET Calls
      BY DEF Counted, NotesOf
    <3>2. QED
      BY <1>3, <3>1, Checks DEF TypeOK
  <2>2. pc' \in [Calls -> CallState]
    <3>1. pc' \in {[pc EXCEPT ![c] = "create"], [pc EXCEPT ![c] = "rejected"]}
      BY <1>3 DEF CheckAmount, Goto
    <3>2. QED
      BY <3>1 DEF TypeOK, CallState, Ended
  <2>3. QED
    BY <1>3, <2>1, <2>2 DEF CheckAmount, TypeOK, jobVars, runVars, SaleOf
<1>4. ASSUME NEW c \in Calls, Create(c) PROVE TypeOK'
  BY <1>4 DEF Create, Goto, TypeOK, CallState, Ended, jobVars, runVars, history,
     SaleOf
<1>5. ASSUME NEW c \in Calls, GiveBack(c) PROVE TypeOK'
  <2>1. /\ DOMAIN line' = Calls /\ DOMAIN back' = Calls
        /\ \A d \in Calls : /\ line'[d] \in 0..Lines[SaleOf(d)]
                            /\ back'[d] \in [1..Lines[SaleOf(d)] -> Nat]
    BY <1>5, GivesBack DEF GiveBack, TypeOK
  <2>2. pc' \in [Calls -> CallState] /\ hurt' \subseteq Calls
    <3>1. pc' \in {pc, [pc EXCEPT ![c] = "failed"]} /\ hurt' \subseteq Calls
      BY <1>5, Hits DEF GiveBack, Goto, TypeOK
    <3>2. QED
      BY <3>1 DEF TypeOK, CallState, Ended
  <2>3. QED
    BY <1>5, <2>1, <2>2 DEF GiveBack, TypeOK, jobVars, runVars, SaleOf
<1>6. ASSUME NEW c \in Calls, MarkRefunded(c) PROVE TypeOK'
  <2>1. status' \in [Sales -> {"COMPLETED", "REFUNDED", "DELETED"}]
    BY <1>6 DEF MarkRefunded, TypeOK
  <2>2. pc' \in [Calls -> CallState] /\ hurt' \subseteq Calls
    <3>1. /\ pc' \in {[pc EXCEPT ![c] = "done"], [pc EXCEPT ![c] = "failed"]}
          /\ hurt' \subseteq Calls
      BY <1>6, Hits DEF MarkRefunded, Goto, TypeOK
    <3>2. QED
      BY <3>1 DEF TypeOK, CallState, Ended
  <2>3. QED
    BY <1>6, <2>1, <2>2 DEF MarkRefunded, TypeOK, notes, jobVars, runVars,
       SaleOf
<1>7. ASSUME NEW c \in Calls, Queue(c) PROVE TypeOK'
  BY <1>7 DEF Queue, Goto, TypeOK, CallState, Ended, JobState, notes, runVars,
     history, SaleOf
<1>8. ASSUME NEW c \in Calls, QueueFails(c) PROVE TypeOK'
  <2>1. hurt' \subseteq Calls /\ late' \in [Calls -> BOOLEAN]
    BY <1>8, Hits DEF QueueFails, TypeOK
  <2>2. QED
    BY <1>8, <2>1 DEF QueueFails, Goto, TypeOK, CallState, notes, jobVars,
       runVars, SaleOf
<1>9. ASSUME NEW c \in Calls, Undo(c) PROVE TypeOK'
  <2>1. /\ hurt' \subseteq Calls /\ pc' \in [Calls -> CallState]
        /\ note' \in [Calls -> {"NONE", "PENDING", "COMPLETED", "FAILED"}]
    BY <1>9, Hits DEF Undo, Goto, TypeOK, CallState, Ended
  <2>2. QED
    BY <1>9, <2>1 DEF Undo, TypeOK, jobVars, runVars, SaleOf
<1>10. ASSUME NEW c \in Calls, LateAdd(c) PROVE TypeOK'
  BY <1>10 DEF LateAdd, TypeOK, JobState, notes, runVars, history, SaleOf
<1>11. ASSUME NEW c \in Calls, Take(c) PROVE TypeOK'
  BY <1>11 DEF Take, TypeOK, JobState, RunStep, notes, callVars, history, SaleOf
<1>12. ASSUME NEW c \in Calls, Promote(c) PROVE TypeOK'
  BY <1>12 DEF Promote, TypeOK, JobState, notes, callVars, runVars, history,
     SaleOf
<1>13. ASSUME NEW c \in Calls, Recover(c) PROVE TypeOK'
  <2>1. stalls' \in [Calls -> 0..(MaxStalls + 1)]
    <3>1. stalls[c] \in 0..(MaxStalls + 1) /\ stalls[c] <= MaxStalls
      BY <1>13 DEF Recover, TypeOK, JobsBounded
    <3>2. stalls[c] + 1 \in 0..(MaxStalls + 1)
      BY <3>1, CreditNotesAssumption
    <3>3. QED
      BY <1>13, <3>2 DEF Recover, TypeOK
  <2>2. job' \in [Calls -> JobState]
    BY <1>13 DEF Recover, TypeOK, JobState
  <2>3. QED
    BY <1>13, <2>1, <2>2 DEF Recover, TypeOK, notes, callVars, runVars, history,
       SaleOf
<1>14. CASE Authorise
  <2>1. /\ hurt' \subseteq Calls /\ issued' \in [Calls -> Nat]
        /\ refusals' \in 0..MaxRefusals /\ step' \in RunStep
    <3>1. run \in Calls /\ hurt' \subseteq Calls
      BY <1>14, Hits, RunIsCall DEF Authorise, TypeOK
    <3>2. issued' \in [Calls -> Nat] /\ step' \in {"complete", "catch"}
      BY <1>14, <3>1 DEF Authorise, TypeOK
    <3>3. refusals' \in 0..MaxRefusals
      BY <1>14, CreditNotesAssumption DEF Authorise, TypeOK
    <3>4. QED
      BY <3>1, <3>2, <3>3 DEF RunStep
  <2>2. QED
    BY <1>14, <2>1 DEF Authorise, TypeOK, notes, callVars, jobVars, SaleOf
<1>15. CASE Complete
  <2>1. hurt' \subseteq Calls /\ step' \in RunStep
    BY <1>15, Hits, RunIsCall DEF Complete, StoreFails, TypeOK, RunStep
  <2>2. note' \in [Calls -> {"NONE", "PENDING", "COMPLETED", "FAILED"}]
    BY <1>15 DEF Complete, TypeOK
  <2>3. DOMAIN line' = Calls /\ \A d \in Calls : line'[d] \in 0..Lines[SaleOf(d)]
    <3>1. line' \in {line, [line EXCEPT ![run] = 0]}
      BY <1>15 DEF Complete
    <3>2. QED
      BY <3>1, LineReset
  <2>4. QED
    BY <1>15, <2>1, <2>2, <2>3 DEF Complete, TypeOK, RunFrame, callVars,
       jobVars, SaleOf
<1>16. CASE ReturnLine
  <2>1. hurt' \subseteq Calls /\ step' \in RunStep
    BY <1>16, Hits, RunIsCall DEF ReturnLine, StoreFails, TypeOK, RunStep
  <2>2. /\ DOMAIN line' = Calls /\ DOMAIN back' = Calls
        /\ \A d \in Calls : /\ line'[d] \in 0..Lines[SaleOf(d)]
                            /\ back'[d] \in [1..Lines[SaleOf(d)] -> Nat]
    BY <1>16, GivesBack, RunIsCall DEF ReturnLine, TypeOK
  <2>3. QED
    BY <1>16, <2>1, <2>2 DEF ReturnLine, TypeOK, RunFrame, callVars, jobVars,
       SaleOf
<1>17. CASE Stamp
  <2>1. hurt' \subseteq Calls /\ step' \in RunStep /\ stamped' \in [Calls -> BOOLEAN]
    BY <1>17, Hits, RunIsCall DEF Stamp, StoreFails, TypeOK, RunStep
  <2>2. QED
    BY <1>17, <2>1 DEF Stamp, TypeOK, RunFrame, callVars, jobVars, SaleOf
<1>18. CASE AddUp
  <2>1. hurt' \subseteq Calls /\ step' \in RunStep /\ full' \in BOOLEAN
    <3>1. hurt' \subseteq Calls
      BY <1>18, Hits, RunIsCall DEF AddUp, StoreFails, TypeOK
    <3>2. step' \in {"ok", "status", "catch"}
      BY <1>18 DEF AddUp, StoreFails
    <3>3. full' \in BOOLEAN
      <4> DEFINE reached == SumOn(credit, Completed(SaleOf(run)))
                              >= Total(SaleOf(run)) - 1
      <4>1. full \in BOOLEAN
        BY DEF TypeOK
      <4>2. full' = reached \/ full' = full
        BY <1>18, Zenon DEF AddUp
      <4>3. reached \in BOOLEAN
        OBVIOUS
      <4> HIDE DEF reached
      <4>4. QED
        BY <4>1, <4>2, <4>3
    <3>4. QED
      BY <3>1, <3>2, <3>3 DEF RunStep
  <2>2. QED
    BY <1>18, <2>1 DEF AddUp, TypeOK, RunFrame, notes, callVars, jobVars, SaleOf
<1>19. CASE SetStatus
  <2>1. hurt' \subseteq Calls /\ step' \in RunStep
    BY <1>19, Hits, RunIsCall DEF SetStatus, StoreFails, TypeOK, RunStep
  <2>2. status' \in [Sales -> {"COMPLETED", "REFUNDED", "DELETED"}]
    BY <1>19 DEF SetStatus, TypeOK
  <2>3. QED
    BY <1>19, <2>1, <2>2 DEF SetStatus, TypeOK, RunFrame, notes, callVars,
       jobVars, SaleOf
<1>20. CASE Catch
  <2>1. hurt' \subseteq Calls /\ step' \in RunStep
    BY <1>20, Hits, RunIsCall DEF Catch, TypeOK, RunStep
  <2>2. note' \in [Calls -> {"NONE", "PENDING", "COMPLETED", "FAILED"}]
    BY <1>20 DEF Catch, TypeOK
  <2>3. QED
    BY <1>20, <2>1, <2>2 DEF Catch, TypeOK, RunFrame, callVars, jobVars, SaleOf
<1>21. CASE FinishRun
  <2>1. run \in Calls
    BY <1>21, RunIsCall DEF FinishRun
  <2>2. job' \in [Calls -> JobState]
    BY <1>21, <2>1 DEF FinishRun, TypeOK, JobState
  <2>3. attempts' \in [Calls -> 0..MaxAttempts]
    <3>1. attempts[run] \in 0..MaxAttempts /\ attempts[run] < MaxAttempts
      BY <1>21, <2>1, RunIsCall DEF FinishRun, TypeOK, JobsBounded
    <3>2. attempts[run] + 1 \in 0..MaxAttempts
      BY <3>1, CreditNotesAssumption
    <3>3. QED
      BY <1>21, <2>1, <3>2 DEF FinishRun, TypeOK
  <2>4. DOMAIN line' = Calls /\ \A d \in Calls : line'[d] \in 0..Lines[SaleOf(d)]
    <3>1. line' = [line EXCEPT ![run] = 0]
      BY <1>21 DEF FinishRun
    <3>2. QED
      BY <3>1, LineReset
  <2>5. step' \in RunStep
    BY <1>21 DEF FinishRun, RunStep
  <2>6. QED
    BY <1>21, <2>2, <2>3, <2>4, <2>5 DEF FinishRun, TypeOK, notes, callVars,
       history, SaleOf
<1>22. ASSUME NEW s, DeleteSale(s) PROVE TypeOK'
  BY <1>22 DEF DeleteSale, TypeOK, notes, callVars, jobVars, runVars, history,
     SaleOf
<1>23. CASE Crash
  BY <1>23 DEF Crash, TypeOK, CallState, Ended, RunStep, notes, jobVars, SaleOf
<1>24. QED
  BY <1>1, <1>2, <1>3, <1>4, <1>5, <1>6, <1>7, <1>8, <1>9, <1>10, <1>11, <1>12,
     <1>13, <1>14, <1>15, <1>16, <1>17, <1>18, <1>19, <1>20, <1>21, <1>22, <1>23
     DEF Next, CreateCreditNote, Work, Idle

\* A call has a note once it has created it, a job once it has queued it.
LEMMA OrderStep == CreditInv /\ [Next]_vars => CallsInOrder'
<1> SUFFICES ASSUME CreditInv, TypeOK, CallsInOrder, [Next]_vars
             PROVE  CallsInOrder'
  BY DEF CreditInv
<1> USE HurtGrows DEF Internal, SaleOf
<1>1. CASE UNCHANGED <<pc, note, job, late>>
  BY <1>1 DEF CallsInOrder
<1>2. ASSUME NEW c \in Calls, ReadSale(c) PROVE CallsInOrder'
  BY <1>2 DEF ReadSale, Goto, CallsInOrder, notes, jobVars
<1>3. ASSUME NEW c \in Calls, CheckAmount(c) PROVE CallsInOrder'
  <2>1. pc' \in {[pc EXCEPT ![c] = "create"], [pc EXCEPT ![c] = "rejected"]}
    BY <1>3 DEF CheckAmount, Goto
  <2>2. pc[c] = "read" /\ UNCHANGED <<note, job, late>>
    BY <1>3 DEF CheckAmount, jobVars
  <2>3. QED
    BY <2>1, <2>2 DEF TypeOK, CallsInOrder
<1>4. ASSUME NEW c \in Calls, Create(c) PROVE CallsInOrder'
  BY <1>4 DEF Create, Goto, TypeOK, CallsInOrder, jobVars
<1>5. ASSUME NEW c \in Calls, GiveBack(c) PROVE CallsInOrder'
  BY <1>5 DEF GiveBack, Goto, TypeOK, CallsInOrder, jobVars
<1>6. ASSUME NEW c \in Calls, MarkRefunded(c) PROVE CallsInOrder'
  BY <1>6 DEF MarkRefunded, Goto, TypeOK, CallsInOrder, notes, jobVars
<1>7. ASSUME NEW c \in Calls, Queue(c) PROVE CallsInOrder'
  BY <1>7 DEF Queue, Goto, TypeOK, CallsInOrder, notes
<1>8. ASSUME NEW c \in Calls, QueueFails(c) PROVE CallsInOrder'
  <2>1. pc[c] = "queue" /\ pc' = [pc EXCEPT ![c] = "undo"] /\ UNCHANGED <<note, job>>
    BY <1>8 DEF QueueFails, Goto, notes, jobVars
  <2>2. \/ late' = late
        \/ late' = [late EXCEPT ![c] = TRUE] /\ c \in hurt'
    BY <1>8, Hits DEF QueueFails
  <2>3. QED
    BY <2>1, <2>2 DEF TypeOK, CallsInOrder
<1>9. ASSUME NEW c \in Calls, Undo(c) PROVE CallsInOrder'
  <2>1. pc[c] = "undo" /\ UNCHANGED <<late, job>>
    BY <1>9 DEF Undo, jobVars
  <2>2. ~ Internal(c) /\ note[c] # "NONE"
    BY <2>1 DEF CallsInOrder
  <2>3. /\ pc'[c] \in {"done", "failed"} /\ note'[c] # "NONE"
        /\ \A d \in Calls \ {c} : pc'[d] = pc[d] /\ note'[d] = note[d]
    BY <1>9, <2>2 DEF Undo, Goto, TypeOK
  <2>4. QED
    BY <2>1, <2>2, <2>3 DEF CallsInOrder
<1>10. ASSUME NEW c \in Calls, LateAdd(c) PROVE CallsInOrder'
  BY <1>10 DEF LateAdd, TypeOK, CallsInOrder, notes
<1>11. ASSUME NEW c \in Calls, Take(c) PROVE CallsInOrder'
  BY <1>11 DEF Take, CallsInOrder, notes, callVars
<1>12. ASSUME NEW c \in Calls, Promote(c) PROVE CallsInOrder'
  BY <1>12 DEF Promote, CallsInOrder, notes, callVars
<1>13. ASSUME NEW c \in Calls, Recover(c) PROVE CallsInOrder'
  BY <1>13 DEF Recover, CallsInOrder, notes, callVars
<1>14. CASE Complete
  BY <1>14, RunIsCall DEF Complete, RunFrame, TypeOK, CallsInOrder, callVars,
     jobVars
<1>15. CASE Catch
  BY <1>15, RunIsCall DEF Catch, RunFrame, TypeOK, CallsInOrder, callVars,
     jobVars
<1>16. CASE FinishRun
  BY <1>16, RunIsCall DEF FinishRun, TypeOK, CallsInOrder, notes, callVars
<1>17. CASE Crash
  BY <1>17 DEF Crash, CallsInOrder, notes, jobVars
<1>18. QED
  BY <1>1, <1>2, <1>3, <1>4, <1>5, <1>6, <1>7, <1>8, <1>9, <1>10, <1>11, <1>12,
     <1>13, <1>14, <1>15, <1>16, <1>17 DEF Next, CreateCreditNote, Work,
     Authorise, ReturnLine, Stamp, AddUp, SetStatus, DeleteSale, Idle, RunFrame,
     vars, notes, callVars, jobVars

\* Attempts and stalls are counted before a job is given another.
LEMMA BoundedStep == CreditInv /\ [Next]_vars => JobsBounded'
<1> SUFFICES ASSUME CreditInv, TypeOK, JobsBounded, CallsInOrder, [Next]_vars
             PROVE  JobsBounded'
  BY DEF CreditInv
<1>1. CASE UNCHANGED <<job, attempts, stalls>>
  BY <1>1 DEF JobsBounded
<1>2. ASSUME NEW c \in Calls, Queue(c) PROVE JobsBounded'
  BY <1>2 DEF Queue, CallsInOrder, JobsBounded
<1>3. ASSUME NEW c \in Calls, LateAdd(c) PROVE JobsBounded'
  BY <1>3 DEF LateAdd, CallsInOrder, JobsBounded
<1>4. ASSUME NEW c \in Calls, Take(c) PROVE JobsBounded'
  BY <1>4 DEF Take, JobsBounded
<1>5. ASSUME NEW c \in Calls, Promote(c) PROVE JobsBounded'
  BY <1>5 DEF Promote, JobsBounded
<1>6. ASSUME NEW c \in Calls, Recover(c) PROVE JobsBounded'
  BY <1>6, CreditNotesAssumption DEF Recover, TypeOK, JobsBounded
<1>7. CASE FinishRun
  BY <1>7, RunIsCall DEF FinishRun, TypeOK, JobsBounded
<1>8. QED
  BY <1>1, <1>2, <1>3, <1>4, <1>5, <1>6, <1>7 DEF Next, CreateCreditNote, Work,
     ReadSale, CheckAmount, Create, GiveBack, MarkRefunded, QueueFails, Undo,
     Authorise, Complete, ReturnLine, Stamp, AddUp, SetStatus, Catch,
     DeleteSale, Crash, Idle, vars, jobVars

\* The worker and the queue know of the same run, unless a fault came between.
LEMMA OwnsStep == CreditInv /\ [Next]_vars => RunOwnsJob'
<1> SUFFICES ASSUME CreditInv, TypeOK, RunOwnsJob, CallsInOrder, [Next]_vars
             PROVE  RunOwnsJob'
  BY DEF CreditInv
<1> USE HurtGrows
<1>1. CASE UNCHANGED <<run, job>> /\ (step' = "idle" <=> step = "idle")
  BY <1>1 DEF RunOwnsJob
<1>2. ASSUME NEW c \in Calls, Queue(c) PROVE RunOwnsJob'
  BY <1>2 DEF Queue, RunOwnsJob, CallsInOrder, runVars
<1>3. ASSUME NEW c \in Calls, LateAdd(c) PROVE RunOwnsJob'
  BY <1>3 DEF LateAdd, RunOwnsJob, CallsInOrder, runVars
<1>4. ASSUME NEW c \in Calls, Take(c) PROVE RunOwnsJob'
  BY <1>4, CreditNotesAssumption DEF Take, TypeOK, RunOwnsJob
<1>5. ASSUME NEW c \in Calls, Promote(c) PROVE RunOwnsJob'
  BY <1>5 DEF Promote, RunOwnsJob, runVars
<1>6. ASSUME NEW c \in Calls, Recover(c) PROVE RunOwnsJob'
  BY <1>6 DEF Recover, RunOwnsJob, runVars
<1>7. CASE Work /\ ~ FinishRun
  BY <1>7 DEF Work, Authorise, Complete, ReturnLine, Stamp, AddUp, SetStatus,
     Catch, RunFrame, StoreFails, RunOwnsJob, jobVars
<1>8. CASE FinishRun
  BY <1>8, RunIsCall, CreditNotesAssumption DEF FinishRun, TypeOK, RunOwnsJob
<1>9. CASE Crash
  BY <1>9, CreditNotesAssumption DEF Crash, RunOwnsJob, jobVars
<1>10. QED
  BY <1>1, <1>2, <1>3, <1>4, <1>5, <1>6, <1>7, <1>8, <1>9 DEF Next,
     CreateCreditNote, ReadSale, CheckAmount, Create, GiveBack, MarkRefunded,
     QueueFails, Undo, DeleteSale, Idle, vars, jobVars, runVars

\* Lines come back one by one, and only for notes that were asked to.
LEMMA BacksStep == CreditInv /\ [Next]_vars => BacksCounted'
<1> SUFFICES ASSUME CreditInv, TypeOK, BacksCounted, CallsInOrder, [Next]_vars
             PROVE  BacksCounted'
  BY DEF CreditInv
<1>0. ask' = ask /\ \A c \in Calls : Internal(c)' = Internal(c)
  BY HurtGrows DEF Internal, SaleOf
<1>1. CASE UNCHANGED <<back, line, note>> /\ (step' = "return" => UNCHANGED <<run, step>>)
  BY <1>0, <1>1 DEF BacksCounted, GaveBack
<1>2. ASSUME NEW c \in Calls, Create(c) PROVE BacksCounted'
  BY <1>0, <1>2 DEF Create, BacksCounted, GaveBack, runVars
<1>3. ASSUME NEW c \in Calls, GiveBack(c) PROVE BacksCounted'
  <2>1. CASE UNCHANGED <<line, back>>
    BY <1>0, <1>3, <2>1 DEF GiveBack, BacksCounted, GaveBack, runVars
  <2>2. CASE line' # line \/ back' # back
    <3>1. /\ line[c] < Lines[SaleOf(c)] /\ ask[c].stock /\ pc[c] = "refund"
          /\ line' = [line EXCEPT ![c] = @ + 1]
          /\ back' = [back EXCEPT ![c][line[c] + 1] = @ + 1]
          /\ UNCHANGED <<note, run, step>>
      BY <1>3, <2>2 DEF GiveBack, runVars
    <3>2. Internal(c) /\ note[c] # "NONE"
      BY <3>1 DEF CallsInOrder
    <3>3. GaveBack(c, line[c])'
      BY <3>1, <3>2, GivesBack DEF BacksCounted
    <3>4. \A d \in Calls \ {c} : line'[d] = line[d] /\ back'[d] = back[d]
      BY <3>1, GivesBack
    <3>5. ASSUME NEW d \in Calls, d # c
          PROVE  /\ (Internal(d) => GaveBack(d, line[d]))'
                 /\ (note[d] = "NONE" => GaveBack(d, 0))'
                 /\ (Internal(d) /\ line[d] > 0 => ask[d].stock)'
      BY <1>0, <3>1, <3>4, <3>5 DEF BacksCounted, GaveBack
    <3>6. QED
      BY <1>0, <3>1, <3>2, <3>3, <3>5 DEF BacksCounted
  <2>3. QED
    BY <2>1, <2>2
<1>4. ASSUME NEW c \in Calls, Undo(c) PROVE BacksCounted'
  BY <1>0, <1>4 DEF Undo, TypeOK, BacksCounted, GaveBack, runVars
<1>5. CASE Complete
  <2>1. run \in Calls /\ ~ Internal(run) /\ note[run] # "NONE"
    BY <1>5, RunIsCall DEF Complete
  <2>2. /\ run' = run /\ back' = back
        /\ step' = "return" => ask[run].stock
        /\ \A d \in Calls \ {run} : note'[d] = note[d] /\ line'[d] = line[d]
        /\ note'[run] # "NONE"
    BY <1>5, <2>1 DEF Complete, RunFrame, StoreFails, TypeOK
  <2>3. QED
    BY <1>0, <2>1, <2>2 DEF BacksCounted, GaveBack
<1>6. CASE ReturnLine
  <2>1. run \in Calls /\ ~ Internal(run) /\ note[run] # "NONE" /\ step = "return"
    BY <1>6, RunIsCall DEF ReturnLine
  <2>2. run' = run /\ note' = note /\ step' \in {"return", "catch"}
    BY <1>6 DEF ReturnLine, RunFrame, StoreFails
  <2>3. \A d \in Calls \ {run} : line'[d] = line[d] /\ back'[d] = back[d]
    BY <1>6, <2>1, GivesBack DEF ReturnLine
  <2>4. QED
    BY <1>0, <2>1, <2>2, <2>3 DEF BacksCounted, GaveBack
<1>7. CASE Catch
  BY <1>0, <1>7, RunIsCall DEF Catch, TypeOK, BacksCounted, GaveBack
<1>8. CASE FinishRun
  <2>1. run \in Calls /\ ~ Internal(run)
    BY <1>8, RunIsCall DEF FinishRun
  <2>2. step' # "return" /\ UNCHANGED <<note, back>>
        /\ \A d \in Calls \ {run} : line'[d] = line[d]
    BY <1>8 DEF FinishRun, notes, TypeOK
  <2>3. QED
    BY <1>0, <2>1, <2>2 DEF BacksCounted, GaveBack
<1>9. QED
  BY <1>1, <1>2, <1>3, <1>4, <1>5, <1>6, <1>7, <1>8 DEF Next, CreateCreditNote,
     Work, ReadSale, CheckAmount, MarkRefunded, Queue, QueueFails, LateAdd,
     Take, Promote, Recover, Authorise, Stamp, AddUp, SetStatus, StoreFails,
     DeleteSale, Crash, Idle, vars, notes, runVars

\* A note of AFIP that no fault has hit is authorised once and returned once.
LEMMA StepByStepStep == CreditInv /\ [Next]_vars => StepByStep'
<1> SUFFICES ASSUME CreditInv, TypeOK, StepByStep, CallsInOrder, RunOwnsJob,
                    BacksCounted, [Next]_vars
             PROVE  StepByStep'
  BY DEF CreditInv
<1> DEFINE Stays(d) == /\ UNCHANGED <<note[d], stamped[d], back[d], line[d], issued[d]>>
                       /\ job'[d] = "done" <=> job[d] = "done"
                       /\ run' = d <=> run = d
                       /\ run = d => step' = step
           Sound(d) ==
             /\ Before(d) => /\ issued[d] = 0 /\ note[d] # "COMPLETED"
                             /\ ~ stamped[d] /\ GaveBack(d, 0)
             /\ ~ Before(d) => issued[d] = 1
             /\ run = d /\ step = "complete" => ~ stamped[d] /\ GaveBack(d, 0)
             /\ run = d /\ step = "return" => note[d] = "COMPLETED" /\ GaveBack(d, line[d])
             /\ run = d /\ step = "error" => note[d] = "FAILED"
             /\ Through(d) => /\ note[d] = "COMPLETED"
                              /\ GaveBack(d, IF ask[d].stock THEN Lines[SaleOf(d)] ELSE 0)
<1>0. /\ ask' = ask /\ hurt \subseteq hurt'
      /\ \A c \in Calls : Internal(c)' = Internal(c) /\ SaleOf(c)' = SaleOf(c)
  BY HurtGrows DEF Internal, SaleOf
<1>1. ASSUME NEW d \in Calls \ hurt', ~ Internal(d) PROVE Sound(d)
  BY <1>0, <1>1 DEF StepByStep
<1>2. ASSUME NEW d \in Calls \ hurt', ~ Internal(d), Stays(d) PROVE Sound(d)'
  BY <1>0, <1>1, <1>2 DEF Before, Through, GaveBack
<1>3. ASSUME \A d \in Calls \ hurt' : ~ Internal(d) => Sound(d)' PROVE StepByStep'
  BY <1>0, <1>3 DEF StepByStep
<1>4. ASSUME \A d \in Calls : Stays(d) PROVE StepByStep'
  BY <1>2, <1>3, <1>4
<1>5. ASSUME NEW c \in Calls, \A d \in Calls \ {c} : Stays(d),
             c \in hurt' \/ Internal(c) \/ Sound(c)'
      PROVE  StepByStep'
  BY <1>0, <1>2, <1>3, <1>5
<1>6. \A c \in Calls : run = c => job[c] = "active" /\ step # "idle"
  BY CreditNotesAssumption DEF RunOwnsJob
<1>7. CASE UNCHANGED <<note, stamped, back, line, issued, job, run, step>>
  BY <1>4, <1>7
<1>8. ASSUME NEW c \in Calls, Create(c) PROVE StepByStep'
  <2>1. job[c] = "absent" /\ run # c
    BY <1>6, <1>8 DEF Create, CallsInOrder
  <2>2. /\ UNCHANGED <<stamped, back, line, issued, job, run, step>>
        /\ \A d \in Calls \ {c} : note'[d] = note[d]
        /\ Internal(c) \/ note'[c] = "PENDING"
    BY <1>8 DEF Create, jobVars, runVars, history, TypeOK
  <2>3. \A d \in Calls \ {c} : Stays(d)
    BY <2>2
  <2>4. CASE c \notin hurt' /\ ~ Internal(c)
    <3>1. Sound(c)
      BY <1>1, <2>4
    <3>2. Sound(c)'
      BY <2>1, <2>2, <2>4, <3>1 DEF Before, Through, GaveBack
    <3>3. QED
      BY <1>5, <2>3, <3>2
  <2>5. QED
    BY <1>5, <2>3, <2>4
<1>9. ASSUME NEW c \in Calls, GiveBack(c) PROVE StepByStep'
  <2>1. Internal(c)
    BY <1>9 DEF GiveBack, CallsInOrder
  <2>2. /\ UNCHANGED <<note, stamped, issued, job, run, step>>
        /\ \A d \in Calls \ {c} : line'[d] = line[d] /\ back'[d] = back[d]
    BY <1>9, GivesBack DEF GiveBack, jobVars, runVars
  <2>3. QED
    BY <1>5, <2>1, <2>2
<1>10. ASSUME NEW c \in Calls, Queue(c) \/ LateAdd(c) \/ Promote(c) \/ Recover(c)
       PROVE  StepByStep'
  <2>1. /\ UNCHANGED <<note, stamped, back, line, issued, run, step>>
        /\ \A d \in Calls : job'[d] = "done" <=> job[d] = "done"
    BY <1>10 DEF Queue, LateAdd, Promote, Recover, CallsInOrder, notes, runVars,
       history, TypeOK
  <2>2. QED
    BY <1>4, <2>1
<1>11. ASSUME NEW c \in Calls, Take(c) PROVE StepByStep'
  <2>1. /\ UNCHANGED <<note, stamped, back, line, issued>>
        /\ run = NoRun /\ run' = c /\ step' = "ask"
        /\ job[c] = "wait" /\ job'[c] = "active"
        /\ \A d \in Calls \ {c} : job'[d] = job[d]
    BY <1>11 DEF Take, notes, history, TypeOK
  <2>2. \A d \in Calls \ {c} : Stays(d)
    BY <2>1, CreditNotesAssumption
  <2>3. CASE c \notin hurt' /\ ~ Internal(c)
    <3>1. Sound(c)
      BY <1>1, <2>3
    <3>2. Sound(c)'
      BY <2>1, <3>1, CreditNotesAssumption DEF Before, Through, GaveBack
    <3>3. QED
      BY <1>5, <2>2, <3>2
  <2>4. QED
    BY <1>5, <2>2, <2>3
<1>12. ASSUME NEW c \in Calls, Undo(c) PROVE StepByStep'
  <2>1. /\ UNCHANGED <<stamped, back, line, issued, job, run, step>>
        /\ \A d \in Calls \ {c} : note'[d] = note[d]
        /\ c \in hurt' \/ note'[c] = "FAILED"
    BY <1>12, Hits DEF Undo, jobVars, runVars, TypeOK
  <2>2. \A d \in Calls \ {c} : Stays(d)
    BY <2>1
  <2>3. CASE c \notin hurt' /\ ~ Internal(c)
    <3>1. job[c] = "absent" /\ run # c
      BY <1>0, <1>6, <1>12, <2>3 DEF Undo, CallsInOrder
    <3>2. Sound(c)
      BY <1>1, <2>3
    <3>3. Sound(c)'
      BY <2>1, <2>3, <3>1, <3>2 DEF Before, Through, GaveBack
    <3>4. QED
      BY <1>5, <2>2, <3>3
  <2>4. QED
    BY <1>5, <2>2, <2>3
<1>13. ASSUME step # "idle" PROVE run \in Calls /\ job[run] = "active" /\ ~ Internal(run)
  BY <1>13, RunIsCall
<1>14. CASE Authorise
  <2>1. PICK c \in Calls : c = run /\ job[c] = "active" /\ ~ Internal(c)
    BY <1>13, <1>14 DEF Authorise
  <2>2. /\ UNCHANGED <<note, stamped, back, line, job, run>> /\ step = "ask"
        /\ \A d \in Calls \ {c} : issued'[d] = issued[d]
    BY <1>14, <2>1 DEF Authorise, notes, jobVars, TypeOK
  <2>3. \A d \in Calls \ {c} : Stays(d)
    BY <2>1, <2>2
  <2>4. \/ step' = "complete" /\ issued'[c] = issued[c] + 1
        \/ step' = "catch" /\ issued'[c] = issued[c]
        \/ c \in hurt'
    BY <1>14, <2>1, Hits DEF Authorise, TypeOK
  <2>5. CASE c \notin hurt'
    <3>1. Sound(c)
      BY <1>1, <2>1, <2>5
    <3>2. Sound(c)'
      BY <2>1, <2>2, <2>4, <2>5, <3>1 DEF Before, Through, GaveBack
    <3>3. QED
      BY <1>5, <2>1, <2>3, <3>2
  <2>6. QED
    BY <1>5, <2>1, <2>3, <2>5
<1>15. CASE Complete
  <2>1. PICK c \in Calls : c = run /\ job[c] = "active" /\ ~ Internal(c)
    BY <1>13, <1>15 DEF Complete
  <2>2. /\ UNCHANGED <<stamped, back, job, run, issued>> /\ step = "complete"
        /\ \A d \in Calls \ {c} : note'[d] = note[d] /\ line'[d] = line[d]
    BY <1>15, <2>1 DEF Complete, RunFrame, jobVars, TypeOK
  <2>3. \A d \in Calls \ {c} : Stays(d)
    BY <2>1, <2>2
  <2>4. \/ /\ note'[c] = "COMPLETED" /\ line'[c] = 0
           /\ step' = IF ask[c].stock /\ ~ stamped[c] THEN "return" ELSE "sum"
        \/ c \in hurt'
    BY <1>15, <2>1, Hits DEF Complete, StoreFails, TypeOK
  <2>5. CASE c \notin hurt'
    <3>1. Sound(c)
      BY <1>1, <2>1, <2>5
    <3>2. Sound(c)'
      BY <1>0, <2>1, <2>2, <2>4, <2>5, <3>1 DEF Before, Through, GaveBack
    <3>3. QED
      BY <1>5, <2>1, <2>3, <3>2
  <2>6. QED
    BY <1>5, <2>1, <2>3, <2>5
<1>16. CASE ReturnLine
  <2>1. PICK c \in Calls : c = run /\ job[c] = "active" /\ ~ Internal(c)
    BY <1>13, <1>16 DEF ReturnLine
  <2>2. /\ UNCHANGED <<note, stamped, job, run, issued>> /\ step = "return"
        /\ \A d \in Calls \ {c} : back'[d] = back[d] /\ line'[d] = line[d]
        /\ (step' = "return" /\ (GaveBack(c, line[c]) => GaveBack(c, line[c])'))
           \/ c \in hurt'
    BY <1>16, <2>1, Hits, GivesBack DEF ReturnLine, RunFrame, StoreFails,
       jobVars
  <2>3. \A d \in Calls \ {c} : Stays(d)
    BY <2>1, <2>2
  <2>4. CASE c \notin hurt'
    <3>1. Sound(c)
      BY <1>1, <2>1, <2>4
    <3>2. Sound(c)'
      BY <2>1, <2>2, <2>4, <3>1 DEF Before, Through
    <3>3. QED
      BY <1>5, <2>1, <2>3, <3>2
  <2>5. QED
    BY <1>5, <2>1, <2>3, <2>4
<1>17. CASE Stamp
  <2>1. PICK c \in Calls : c = run /\ job[c] = "active" /\ ~ Internal(c)
    BY <1>13, <1>17 DEF Stamp
  <2>2. /\ UNCHANGED <<note, back, line, job, run, issued>> /\ step = "return"
        /\ \A d \in Calls \ {c} : stamped'[d] = stamped[d]
        /\ line[c] = Lines[SaleOf(c)]
        /\ step' = "sum" \/ c \in hurt'
    BY <1>17, <2>1, Hits DEF Stamp, RunFrame, StoreFails, jobVars, TypeOK
  <2>3. \A d \in Calls \ {c} : Stays(d)
    BY <2>1, <2>2
  <2>4. CASE c \notin hurt'
    <3>1. Sound(c) /\ ask[c].stock
      BY <1>1, <2>1, <2>2, <2>4 DEF BacksCounted
    <3>2. Sound(c)'
      BY <1>0, <2>1, <2>2, <2>4, <3>1 DEF Before, Through, GaveBack
    <3>3. QED
      BY <1>5, <2>1, <2>3, <3>2
  <2>5. QED
    BY <1>5, <2>1, <2>3, <2>4
<1>18. CASE AddUp \/ SetStatus
  <2>1. PICK c \in Calls : c = run /\ job[c] = "active" /\ ~ Internal(c)
    BY <1>13, <1>18 DEF AddUp, SetStatus
  <2>2. /\ UNCHANGED <<note, stamped, back, line, job, run, issued>>
        /\ step \in {"sum", "status"}
        /\ step' \in {"status", "ok"} \/ c \in hurt'
    BY <1>18, <2>1, Hits DEF AddUp, SetStatus, RunFrame, StoreFails, notes,
       jobVars
  <2>3. \A d \in Calls \ {c} : Stays(d)
    BY <2>1, <2>2
  <2>4. CASE c \notin hurt'
    <3>1. Sound(c)
      BY <1>1, <2>1, <2>4
    <3>2. Sound(c)'
      BY <1>0, <2>1, <2>2, <2>4, <3>1 DEF Before, Through, GaveBack
    <3>3. QED
      BY <1>5, <2>1, <2>3, <3>2
  <2>5. QED
    BY <1>5, <2>1, <2>3, <2>4
<1>19. CASE Catch
  <2>1. PICK c \in Calls : c = run /\ job[c] = "active" /\ ~ Internal(c)
    BY <1>13, <1>19 DEF Catch
  <2>2. /\ UNCHANGED <<stamped, back, line, job, run, issued>> /\ step = "catch"
        /\ \A d \in Calls \ {c} : note'[d] = note[d]
        /\ step' = "error" /\ (note'[c] = "FAILED" \/ c \in hurt')
    BY <1>19, <2>1, Hits DEF Catch, RunFrame, jobVars, TypeOK
  <2>3. \A d \in Calls \ {c} : Stays(d)
    BY <2>1, <2>2
  <2>4. CASE c \notin hurt'
    <3>1. Sound(c)
      BY <1>1, <2>1, <2>4
    <3>2. Sound(c)'
      BY <2>1, <2>2, <2>4, <3>1 DEF Before, Through, GaveBack
    <3>3. QED
      BY <1>5, <2>1, <2>3, <3>2
  <2>5. QED
    BY <1>5, <2>1, <2>3, <2>4
<1>20. CASE FinishRun
  <2>1. PICK c \in Calls : c = run /\ job[c] = "active" /\ ~ Internal(c)
    BY <1>13, <1>20 DEF FinishRun
  <2>2. /\ UNCHANGED <<note, stamped, back, issued>> /\ run' = NoRun
        /\ \A d \in Calls \ {c} : job'[d] = job[d] /\ line'[d] = line[d]
        /\ \/ step = "ok" /\ job'[c] = "done"
           \/ step = "error" /\ job'[c] # "done"
    BY <1>20, <2>1 DEF FinishRun, notes, history, TypeOK
  <2>3. \A d \in Calls \ {c} : Stays(d)
    BY <2>1, <2>2, CreditNotesAssumption
  <2>4. CASE c \notin hurt'
    <3>1. Sound(c)
      BY <1>1, <2>1, <2>4
    <3>2. Sound(c)'
      BY <1>0, <2>1, <2>2, <2>4, <3>1, CreditNotesAssumption DEF Before,
         Through, GaveBack
    <3>3. QED
      BY <1>5, <2>1, <2>3, <3>2
  <2>5. QED
    BY <1>5, <2>1, <2>3, <2>4
<1>21. CASE Crash
  <2>1. /\ UNCHANGED <<note, stamped, back, line, issued, job>> /\ run' = NoRun
        /\ \A c \in Calls : run = c => c \in hurt'
    BY <1>21 DEF Crash, notes, jobVars
  <2>2. CASE run \in Calls
    <3>1. \A d \in Calls \ {run} : Stays(d)
      BY <2>1, CreditNotesAssumption
    <3>2. QED
      BY <1>5, <2>1, <2>2, <3>1
  <2>3. CASE run \notin Calls
    <3>1. \A d \in Calls : Stays(d)
      BY <2>1, <2>3, CreditNotesAssumption
    <3>2. QED
      BY <1>4, <3>1
  <2>4. QED
    BY <2>2, <2>3
<1>22. QED
  <2>1. ASSUME NEW c \in Calls, ReadSale(c) \/ CheckAmount(c) \/ MarkRefunded(c)
                                \/ QueueFails(c)
        PROVE  StepByStep'
    BY <1>7, <2>1 DEF ReadSale, CheckAmount, MarkRefunded, QueueFails, notes,
       jobVars, runVars, history
  <2>2. ASSUME NEW s, DeleteSale(s) PROVE StepByStep'
    BY <1>7, <2>2 DEF DeleteSale, notes, jobVars, runVars, history
  <2>3. CASE UNCHANGED vars
    BY <1>7, <2>3 DEF vars, notes, jobVars, runVars, history
  <2>4. QED
    BY <1>8, <1>9, <1>10, <1>11, <1>12, <1>14, <1>15, <1>16, <1>17, <1>18,
       <1>19, <1>20, <1>21, <2>1, <2>2, <2>3 DEF Next, CreateCreditNote, Work,
       Idle

\* A note, once created, stays.
LEMMA NotesStay ==
  ASSUME CreditInv, [Next]_vars, NEW d \in Calls, note[d] # "NONE"
  PROVE  note'[d] # "NONE"
<1>1. TypeOK
  BY DEF CreditInv
<1>2. CASE note' = note
  BY <1>2
<1>3. ASSUME NEW c \in Calls, Create(c) \/ Undo(c) PROVE note'[d] # "NONE"
  BY <1>1, <1>3 DEF Create, Undo, TypeOK
<1>4. CASE Complete \/ Catch
  BY <1>1, <1>4 DEF Complete, Catch, TypeOK
<1>5. QED
  BY <1>2, <1>3, <1>4 DEF Next, CreateCreditNote, ReadSale, CheckAmount,
     GiveBack, MarkRefunded, Queue, QueueFails, LateAdd, Take, Promote, Recover,
     Work, Authorise, ReturnLine, Stamp, AddUp, SetStatus, FinishRun,
     DeleteSale, Crash, Idle, vars, notes

\* A note that is PENDING has somebody who will change it.
LEMMA PendingStep == CreditInv /\ [Next]_vars => PendingChanges'
<1> SUFFICES ASSUME CreditInv, TypeOK, PendingChanges, StepByStep, CallsInOrder,
                    RunOwnsJob, [Next]_vars
             PROVE  PendingChanges'
  BY DEF CreditInv
<1> USE HurtGrows DEF PendingChanges, WillChange
<1>1. CASE UNCHANGED <<pc, note, job, run, step>>
  BY <1>1
<1>2. ASSUME NEW c \in Calls, ReadSale(c) \/ CheckAmount(c) PROVE PendingChanges'
  <2>1. note[c] = "NONE" /\ UNCHANGED <<note, job, run, step>>
    BY <1>2 DEF ReadSale, CheckAmount, CallsInOrder, notes, jobVars, runVars
  <2>2. \A d \in Calls \ {c} : pc'[d] = pc[d]
    BY <1>2 DEF ReadSale, CheckAmount, Goto, TypeOK
  <2>3. QED
    BY <2>1, <2>2
<1>3. ASSUME NEW c \in Calls, Create(c) PROVE PendingChanges'
  <2>1. Internal(c) => note'[c] = "COMPLETED"
    BY <1>3 DEF Create, TypeOK
  <2>2. ~ Internal(c) => pc'[c] = "queue"
    BY <1>3 DEF Create, Goto, TypeOK
  <2>3. /\ UNCHANGED <<job, run, step>>
        /\ \A d \in Calls \ {c} : pc'[d] = pc[d] /\ note'[d] = note[d]
    BY <1>3 DEF Create, Goto, jobVars, runVars
  <2>4. QED
    BY <2>1, <2>2, <2>3
<1>4. ASSUME NEW c \in Calls, GiveBack(c) \/ MarkRefunded(c) PROVE PendingChanges'
  <2>1. note[c] # "PENDING" /\ UNCHANGED <<note, job, run, step>>
    BY <1>4 DEF GiveBack, MarkRefunded, CallsInOrder, notes, jobVars, runVars
  <2>2. \A d \in Calls \ {c} : pc'[d] = pc[d]
    BY <1>4 DEF GiveBack, MarkRefunded, Goto, TypeOK
  <2>3. QED
    BY <2>1, <2>2
<1>5. ASSUME NEW c \in Calls, Queue(c) PROVE PendingChanges'
  BY <1>5 DEF Queue, Goto, TypeOK, notes, runVars
<1>6. ASSUME NEW c \in Calls, QueueFails(c) PROVE PendingChanges'
  BY <1>6 DEF QueueFails, Goto, notes, jobVars, runVars
<1>7. ASSUME NEW c \in Calls, Undo(c) PROVE PendingChanges'
  <2>1. c \in hurt' \/ note'[c] = "FAILED"
    BY <1>7, Hits DEF Undo, TypeOK
  <2>2. /\ UNCHANGED <<job, run, step>>
        /\ \A d \in Calls \ {c} : pc'[d] = pc[d] /\ note'[d] = note[d]
    BY <1>7 DEF Undo, Goto, TypeOK, jobVars, runVars
  <2>3. QED
    BY <2>1, <2>2
<1>8. ASSUME NEW c \in Calls, LateAdd(c) \/ Promote(c) PROVE PendingChanges'
  BY <1>8 DEF LateAdd, Promote, TypeOK, notes, callVars, runVars
<1>9. ASSUME NEW c \in Calls, Take(c) PROVE PendingChanges'
  BY <1>9, CreditNotesAssumption DEF Take, notes, callVars
<1>10. ASSUME NEW c \in Calls, Recover(c) PROVE PendingChanges'
  BY <1>10 DEF Recover, notes, callVars, runVars
<1>11. CASE Work
  <2>1. PICK c \in Calls : c = run /\ ~ Internal(c) /\ job[c] = "active"
    BY <1>11, RunIsCall DEF Work, Authorise, Complete, ReturnLine, Stamp, AddUp,
       SetStatus, Catch, FinishRun
  <2>2. /\ pc' = pc
        /\ \A d \in Calls \ {c} : note'[d] = note[d] /\ job'[d] = job[d]
    BY <1>11, <2>1 DEF Work, Authorise, Complete, ReturnLine, Stamp, AddUp,
       SetStatus, Catch, FinishRun, RunFrame, TypeOK, notes, callVars, jobVars
  <2>3. CASE c \notin hurt'
    <3>1. ASSUME note'[c] = "PENDING" PROVE (run = c /\ step \in {"ask", "complete", "catch"})'
      <4>1. CASE Authorise
        BY <2>1, <4>1 DEF Authorise
      <4>2. CASE Complete
        BY <2>1, <2>3, <3>1, <4>2, Hits DEF Complete, StoreFails, TypeOK
      <4>3. CASE ReturnLine \/ Stamp \/ AddUp \/ SetStatus
        <5>1. step \in {"return", "sum", "status"} /\ note' = note
          BY <4>3 DEF ReturnLine, Stamp, AddUp, SetStatus, notes
        <5>2. note[c] = "COMPLETED"
          BY <2>1, <2>3, <5>1 DEF StepByStep, Through
        <5>3. QED
          BY <3>1, <5>1, <5>2
      <4>4. CASE Catch
        BY <2>1, <2>3, <3>1, <4>4, Hits DEF Catch, TypeOK
      <4>5. CASE FinishRun
        <5>1. step \in {"ok", "error"} /\ note' = note
          BY <4>5 DEF FinishRun, notes
        <5>2. note[c] \in {"COMPLETED", "FAILED"}
          BY <2>1, <2>3, <5>1 DEF StepByStep, Through
        <5>3. QED
          BY <3>1, <5>1, <5>2
      <4>6. QED
        BY <1>11, <4>1, <4>2, <4>3, <4>4, <4>5 DEF Work
    <3>2. QED
      BY <2>1, <2>2, <3>1
  <2>4. QED
    BY <2>1, <2>2, <2>3
<1>12. CASE Crash
  BY <1>12 DEF Crash, notes, jobVars
<1>13. QED
  BY <1>1, <1>2, <1>3, <1>4, <1>5, <1>6, <1>7, <1>8, <1>9, <1>10, <1>11, <1>12
     DEF Next, CreateCreditNote, DeleteSale, Idle, vars, notes, callVars,
     jobVars, runVars

\* Only the check of a note that is not there yet changes what is credited.
LEMMA AmountsStep == CreditInv /\ [Next]_vars => AmountsFit' /\ SeenInOrder'
<1> SUFFICES ASSUME CreditInv, TypeOK, AmountsFit, SeenInOrder, [Next]_vars
             PROVE  AmountsFit' /\ SeenInOrder'
  BY DEF CreditInv
<1>1. \A s : NotesOf(s) \subseteq NotesOf(s)'
  BY HurtGrows, NotesStay DEF NotesOf, SaleOf
<1>2. CASE UNCHANGED <<credit, saw>>
  BY <1>1, <1>2, HurtGrows DEF AmountsFit, SeenInOrder, SaleOf
<1>3. ASSUME NEW c \in Calls, CheckAmount(c), ~ UNCHANGED <<credit, saw>>
      PROVE  AmountsFit' /\ SeenInOrder'
  <2> DEFINE s == SaleOf(c)
  <2>1. /\ note[c] = "NONE"
        /\ credit' \in [Calls -> Nat]
        /\ \A d \in Calls \ {c} : credit'[d] = credit[d]
        /\ saw' = [saw EXCEPT ![c] = Counted(s)]
        /\ SumOn(credit, Counted(s)) < Total(s)
        /\ credit'[c] + SumOn(credit, Counted(s)) <= Total(s) + 1
    BY <1>3, Checks
  <2>2. Counted(s) \subseteq NotesOf(s) /\ Counted(s) \in SUBSET Calls /\ c \notin Counted(s)
    BY <2>1 DEF Counted, NotesOf
  <2>3. \A d \in Calls : saw[d] \in SUBSET Calls /\ c \notin saw[d]
    BY <2>1 DEF AmountsFit, NotesOf
  <2>4. saw'[c] = Counted(s) /\ \A d \in Calls \ {c} : saw'[d] = saw[d]
    BY <2>1 DEF TypeOK
  <2>5. \A d \in Calls : SumOn(credit', saw'[d]) = SumOn(credit, saw'[d])
    <3>1. ASSUME NEW d \in Calls PROVE SumOn(credit', saw'[d]) = SumOn(credit, saw'[d])
      <4>1. saw'[d] \in SUBSET Calls /\ c \notin saw'[d]
        BY <2>2, <2>3, <2>4
      <4>2. /\ IsFiniteSet(saw'[d])
            /\ \A x \in saw'[d] : credit[x] \in Int /\ credit[x] = credit'[x]
        BY <2>1, <4>1, CreditSums
      <4>3. QED
        BY <4>2, SumAgree
    <3>2. QED
      BY <3>1
  <2>6. AmountsFit'
    <3>1. ask' = ask /\ \A d : Total(d)' = Total(d)
      BY HurtGrows DEF Total
    <3>2. QED
      BY <1>1, <2>1, <2>2, <2>4, <2>5, <3>1 DEF AmountsFit, SaleOf
  <2>7. SeenInOrder'
    <3>1. ASSUME NEW T \in SUBSET Calls, T # {}
          PROVE  \E x \in T : \A d \in T : x \notin saw'[d]
      <4>1. CASE c \in T
        BY <2>2, <2>3, <2>4, <4>1
      <4>2. CASE c \notin T
        BY <2>4, <3>1, <4>2 DEF SeenInOrder
      <4>3. QED
        BY <4>1, <4>2
    <3>2. QED
      BY <3>1 DEF SeenInOrder
  <2>8. QED
    BY <2>6, <2>7
<1>4. QED
  BY <1>2, <1>3 DEF Next, CreateCreditNote, ReadSale, Create, GiveBack,
     MarkRefunded, Queue, QueueFails, Undo, LateAdd, Take, Promote, Recover,
     Work, Authorise, Complete, ReturnLine, Stamp, AddUp, SetStatus, Catch,
     FinishRun, DeleteSale, Crash, Idle, RunFrame, vars, notes, history

\* The status of a sale follows what its completed notes come to.
LEMMA StatusStep == CreditInv /\ [Next]_vars => StatusFollows'
<1> SUFFICES ASSUME CreditInv, TypeOK, StatusFollows, StepByStep, CallsInOrder,
                    RunOwnsJob, [Next]_vars,
                    NEW s \in Sales \cap Invoiced,
                    status'[s] # "DELETED", NotesOf(s)' \cap hurt' = {}
             PROVE  /\ \/ run' \in NotesOf(s)' /\ step' \in {"return", "sum", "status"}
                       \/ status'[s] = "REFUNDED" <=> Refundable(s)'
                    /\ (run' \in NotesOf(s)' /\ step' = "status")
                         => (full' <=> Refundable(s)')
  BY DEF CreditInv, StatusFollows
<1> DEFINE Follows ==
             /\ \/ run \in NotesOf(s) /\ step \in {"return", "sum", "status"}
                \/ status[s] = "REFUNDED" <=> Refundable(s)
             /\ (run \in NotesOf(s) /\ step = "status") => (full <=> Refundable(s))
<1>1. /\ hurt \subseteq hurt' /\ ask' = ask /\ NotesOf(s) \subseteq NotesOf(s)'
      /\ \A c : SaleOf(c)' = SaleOf(c)
  BY HurtGrows, NotesStay DEF NotesOf, SaleOf
<1>2. NotesOf(s) \cap hurt = {}
  BY <1>1
<1>3. status[s] # "DELETED"
  BY DEF Next, CreateCreditNote, ReadSale, CheckAmount, Create, GiveBack,
     MarkRefunded, Queue, QueueFails, Undo, LateAdd, Take, Promote, Recover,
     Work, Authorise, Complete, ReturnLine, Stamp, AddUp, SetStatus, Catch,
     FinishRun, DeleteSale, Crash, Idle, vars, TypeOK
<1>4. Follows
  BY <1>2, <1>3 DEF StatusFollows
<1>5. \A c \in NotesOf(s)' : ~ Internal(c)
  BY <1>1 DEF Internal, NotesOf
<1>6. \A c \in Calls : run = c => job[c] = "active" /\ note[c] # "NONE" /\ ~ Internal(c)
  BY DEF RunOwnsJob, CallsInOrder
<1> HIDE DEF Follows
\* Whatever leaves the completed notes and their credits alone.
<1>7. ASSUME Completed(s)' = Completed(s),
             \A c \in Completed(s) : credit'[c] = credit[c]
      PROVE  Refundable(s)' <=> Refundable(s)
  <2>1. IsFiniteSet(Completed(s)) /\ \A c \in Completed(s) : credit[c] \in Int
    BY CreditSums DEF Completed, NotesOf
  <2>2. SumOn(credit', Completed(s)) = SumOn(credit, Completed(s))
    BY <1>7, <2>1, SumAgree
  <2>3. Total(s)' = Total(s)
    BY DEF Total
  <2>4. QED
    BY <1>7, <2>2, <2>3 DEF Refundable
<1>8. ASSUME UNCHANGED note PROVE Completed(s)' = Completed(s) /\ NotesOf(s)' = NotesOf(s)
  BY <1>1, <1>8 DEF Completed, NotesOf
<1>9. ASSUME NEW c \in Calls, \A d \in Calls \ {c} : note'[d] = note[d],
             c \in NotesOf(s)' => note[c] # "COMPLETED" /\ note'[c] # "COMPLETED"
      PROVE  Completed(s)' = Completed(s)
  BY <1>1, <1>9, NotesStay DEF Completed, NotesOf
\* Whatever a step leaves to be said: the same, if these do not change.
<1>10. ASSUME UNCHANGED <<run, step, full>>, status'[s] = status[s],
              Completed(s)' = Completed(s), \A c \in Completed(s) : credit'[c] = credit[c],
              run \in NotesOf(s)' => run \in NotesOf(s)
       PROVE  Follows'
  BY <1>1, <1>4, <1>7, <1>10 DEF Follows
<1>11. ASSUME NEW c \in Calls, CheckAmount(c) PROVE Follows'
  <2>1. \A d \in Completed(s) : credit'[d] = credit[d]
    BY <1>11, Checks DEF Completed, NotesOf
  <2>2. UNCHANGED <<note, status, run, step, full>>
    BY <1>11 DEF CheckAmount, runVars
  <2>3. QED
    BY <1>8, <1>10, <2>1, <2>2
<1>12. ASSUME NEW c \in Calls, Create(c) PROVE Follows'
  <2>1. note[c] = "NONE" /\ UNCHANGED <<status, run, step, full, credit>>
    BY <1>12 DEF Create, CallsInOrder, runVars
  <2>2. \A d \in Calls \ {c} : note'[d] = note[d]
    BY <1>12 DEF Create, TypeOK
  <2>3. Internal(c) \/ note'[c] = "PENDING"
    BY <1>12 DEF Create, TypeOK
  <2>4. Completed(s)' = Completed(s)
    BY <1>5, <1>9, <2>1, <2>2, <2>3
  <2>5. run \in NotesOf(s)' => run \in NotesOf(s)
    BY <1>1, <1>6, <2>1, <2>2 DEF NotesOf
  <2>6. QED
    BY <1>10, <2>1, <2>4, <2>5
<1>13. ASSUME NEW c \in Calls, MarkRefunded(c) PROVE Follows'
  <2>1. Internal(c) /\ UNCHANGED <<note, credit, run, step, full>>
    BY <1>13 DEF MarkRefunded, CallsInOrder, notes, runVars
  <2>2. status'[s] = status[s]
    BY <1>13, <2>1 DEF MarkRefunded, Internal, TypeOK
  <2>3. QED
    BY <1>8, <1>10, <2>1, <2>2
<1>14. ASSUME NEW c \in Calls, Undo(c) PROVE Follows'
  <2>1. /\ UNCHANGED <<status, credit, run, step, full>>
        /\ pc[c] = "undo" /\ note'[c] \in {note[c], "FAILED"}
        /\ \A d \in Calls \ {c} : note'[d] = note[d]
    BY <1>14 DEF Undo, runVars, TypeOK
  <2>2. c \in NotesOf(s)' => note[c] # "COMPLETED"
    <3>1. SUFFICES ASSUME c \in NotesOf(s)' PROVE note[c] # "COMPLETED"
      OBVIOUS
    <3>2. c \notin hurt /\ ~ Internal(c)
      BY <1>1, <1>5, <3>1
    <3>3. job[c] = "absent" /\ run # c
      BY <1>6, <2>1, <3>2 DEF CallsInOrder
    <3>4. QED
      BY <3>2, <3>3 DEF StepByStep, Before
  <2>3. Completed(s)' = Completed(s)
    BY <1>9, <2>1, <2>2
  <2>4. run \in NotesOf(s)' => run \in NotesOf(s)
    BY <1>1, <1>6, <2>1 DEF NotesOf
  <2>5. QED
    BY <1>10, <2>1, <2>3, <2>4
<1>15. ASSUME NEW c \in Calls, Take(c) PROVE Follows'
  <2>1. run = NoRun /\ run \notin NotesOf(s)
    BY <1>15, CreditNotesAssumption DEF Take, NotesOf
  <2>2. step' = "ask" /\ UNCHANGED <<note, credit, status>>
    BY <1>15 DEF Take, notes
  <2>3. QED
    BY <1>4, <1>7, <1>8, <2>1, <2>2 DEF Follows
<1>16. CASE Authorise
  <2>1. step = "ask" /\ step' \in {"complete", "catch"} /\ UNCHANGED <<note, credit, status>>
    BY <1>16 DEF Authorise, notes
  <2>2. QED
    BY <1>4, <1>7, <1>8, <2>1 DEF Follows
\* A step of a run for another sale changes nothing for this one.
<1>17. ASSUME Work, run \notin NotesOf(s) PROVE Follows'
  <2>1. PICK c \in Calls : c = run
    BY <1>17, RunIsCall DEF Work, Authorise, Complete, ReturnLine, Stamp, AddUp,
       SetStatus, Catch, FinishRun
  <2>2. /\ credit' = credit /\ \A d \in Calls \ {c} : note'[d] = note[d]
        /\ run' \in {run, NoRun} /\ SaleOf(c) # s
    BY <1>6, <1>17, <2>1 DEF Work, Authorise, Complete, ReturnLine, Stamp,
       AddUp, SetStatus, Catch, FinishRun, RunFrame, notes, TypeOK, NotesOf
  <2>3. status'[s] = status[s]
    BY <1>17, <2>1, <2>2 DEF Work, Authorise, Complete, ReturnLine, Stamp,
       AddUp, SetStatus, Catch, FinishRun, TypeOK
  <2>4. c \notin NotesOf(s)' /\ run' \notin NotesOf(s)'
    BY <1>1, <2>1, <2>2, CreditNotesAssumption DEF NotesOf
  <2>5. Completed(s)' = Completed(s)
    BY <1>9, <2>2, <2>4
  <2>6. QED
    BY <1>4, <1>7, <1>17, <2>2, <2>3, <2>4, <2>5 DEF Follows
\* The run for a note of this sale: no fault may hit it.
<1>18. ASSUME Work, run \in NotesOf(s) PROVE Follows'
  <2>1. PICK c \in Calls : /\ c = run /\ SaleOf(c) = s /\ ~ Internal(c)
                           /\ c \notin hurt' /\ c \notin hurt
    BY <1>1, <1>5, <1>18 DEF NotesOf
  <2>2. CASE Authorise
    BY <1>16, <2>2 DEF Follows
  <2>3. CASE Complete
    <3>1. run' = run /\ step' \in {"return", "sum"}
      BY <2>1, <2>3, Hits DEF Complete, StoreFails, RunFrame
    <3>2. QED
      BY <1>1, <1>18, <3>1 DEF Follows
  <2>4. CASE ReturnLine \/ Stamp
    <3>1. run' = run /\ step' \in {"return", "sum"}
      BY <2>1, <2>4, Hits DEF ReturnLine, Stamp, StoreFails, RunFrame
    <3>2. QED
      BY <1>1, <1>18, <3>1 DEF Follows
  <2>5. CASE AddUp
    <3>1. /\ run' = run /\ step' = "status" /\ UNCHANGED <<note, credit>>
          /\ full' = (SumOn(credit, Completed(s)) >= Total(s) - 1)
      BY <1>3, <2>1, <2>5, Hits DEF AddUp, StoreFails, RunFrame, notes
    <3>2. note[c] = "COMPLETED"
      BY <2>1, <2>5 DEF AddUp, StepByStep, Through
    <3>3. c \in Completed(s)
      BY <1>18, <2>1, <3>2 DEF Completed
    <3>4. full' <=> Refundable(s)
      BY <3>1, <3>3 DEF Refundable
    <3>5. QED
      BY <1>1, <1>7, <1>8, <1>18, <3>1, <3>4 DEF Follows
  <2>6. CASE SetStatus
    <3>1. /\ step = "status" /\ step' = "ok" /\ UNCHANGED <<note, credit>>
          /\ status'[s] = IF full THEN "REFUNDED" ELSE "COMPLETED"
      BY <1>3, <2>1, <2>6, Hits DEF SetStatus, StoreFails, notes, TypeOK
    <3>2. full <=> Refundable(s)
      BY <1>4, <1>18, <3>1 DEF Follows
    <3>3. QED
      BY <1>7, <1>8, <3>1, <3>2 DEF Follows
  <2>7. CASE Catch
    <3>1. /\ step = "catch" /\ step' = "error" /\ UNCHANGED <<status, credit>>
          /\ note'[c] = "FAILED" /\ \A d \in Calls \ {c} : note'[d] = note[d]
      BY <2>1, <2>7, Hits DEF Catch, TypeOK
    <3>2. note[c] # "COMPLETED"
      BY <2>1, <3>1 DEF StepByStep, Before
    <3>3. Completed(s)' = Completed(s)
      BY <1>9, <3>1, <3>2
    <3>4. QED
      BY <1>4, <1>7, <3>1, <3>3 DEF Follows
  <2>8. CASE FinishRun
    <3>1. /\ step \in {"ok", "error"} /\ step' = "idle"
          /\ UNCHANGED <<note, credit, status>>
      BY <2>8 DEF FinishRun, notes
    <3>2. QED
      BY <1>4, <1>7, <1>8, <3>1 DEF Follows
  <2>9. QED
    BY <1>18, <2>2, <2>3, <2>4, <2>5, <2>6, <2>7, <2>8 DEF Work
<1>19. CASE Crash
  <2>1. step' = "idle" /\ UNCHANGED <<note, credit, status>>
    BY <1>19 DEF Crash, notes
  <2>2. run \notin NotesOf(s)
    BY <1>1, <1>19 DEF Crash, NotesOf
  <2>3. QED
    BY <1>4, <1>7, <1>8, <2>1, <2>2 DEF Follows
<1>20. ASSUME UNCHANGED <<note, credit, run, step, full>>, status'[s] = status[s]
       PROVE  Follows'
  BY <1>8, <1>10, <1>20
<1>21. Follows'
  <2>1. ASSUME NEW c \in Calls, ReadSale(c) \/ GiveBack(c) \/ Queue(c) \/ QueueFails(c)
                     \/ LateAdd(c) \/ Promote(c) \/ Recover(c)
        PROVE  Follows'
    BY <1>20, <2>1 DEF ReadSale, GiveBack, Queue, QueueFails, LateAdd, Promote,
       Recover, notes, runVars
  <2>2. ASSUME NEW d \in Sales, DeleteSale(d) PROVE Follows'
    BY <1>20, <2>2 DEF DeleteSale, notes, runVars
  <2>3. CASE UNCHANGED vars
    BY <1>20, <2>3 DEF vars, notes, runVars
  <2>4. \A c \in Calls : SaleOf(c) \in Sales
    BY Asked
  <2>5. QED
    BY <1>11, <1>12, <1>13, <1>14, <1>15, <1>17, <1>18, <1>19, <2>1, <2>2, <2>3,
       <2>4 DEF Follows, Next, CreateCreditNote, Idle
<1>22. QED
  BY <1>21 DEF Follows

\* The invariant holds at the beginning.
LEMMA InitHolds == Init => CreditInv
<1> SUFFICES ASSUME Init PROVE CreditInv
  OBVIOUS
<1>1. \A c \in Calls : ask[c] \in Request
  BY CreditNotesAssumption DEF Init
<1>2. \A c \in Calls : SaleOf(c) \in Sales /\ Lines[SaleOf(c)] \in Nat
  BY <1>1, CreditNotesAssumption DEF Request, SaleOf
<1>3. DOMAIN back = Calls /\ \A c \in Calls : back[c] \in [1..Lines[SaleOf(c)] -> Nat]
  BY DEF Init, SaleOf
<1>4. TypeOK
  <2>1. attempts \in [Calls -> 0..MaxAttempts] /\ stalls \in [Calls -> 0..(MaxStalls + 1)]
        /\ refusals \in 0..MaxRefusals
    BY CreditNotesAssumption DEF Init
  <2>2. DOMAIN line = Calls /\ \A c \in Calls : line[c] \in 0..Lines[SaleOf(c)]
    BY <1>2 DEF Init
  <2>3. QED
    BY <1>3, <2>1, <2>2 DEF Init, TypeOK, CallState, JobState, RunStep
<1>5. CallsInOrder /\ JobsBounded /\ RunOwnsJob
  BY CreditNotesAssumption DEF Init, CallsInOrder, JobsBounded, RunOwnsJob
<1>6. \A c \in Calls : GaveBack(c, 0)
  <2>1. \A c \in Calls : /\ DOMAIN back[c] = 1..Lines[SaleOf(c)]
                         /\ \A i \in 1..Lines[SaleOf(c)] : back[c][i] = 0
    BY DEF Init, SaleOf
  <2>2. \A c \in Calls : \A i \in DOMAIN back[c] : back[c][i] = 0 /\ i \in Int /\ i > 0
    BY <1>2, <2>1
  <2>3. QED
    BY <2>2 DEF GaveBack
<1>7. BacksCounted /\ StepByStep /\ PendingChanges
  BY <1>6, CreditNotesAssumption DEF Init, BacksCounted, StepByStep,
     PendingChanges, Before, Through
<1>8. StatusFollows
  BY DEF Init, StatusFollows, Refundable, Completed, NotesOf
<1>9. AmountsFit
  <2>1. \A c \in Calls : Total(SaleOf(c)) \in Nat /\ Total(SaleOf(c)) > 0
    BY <1>2, CreditNotesAssumption DEF Total
  <2>2. QED
    BY <2>1, SumEmpty DEF Init, AmountsFit
<1>10. SeenInOrder
  BY DEF Init, SeenInOrder
<1>11. QED
  BY <1>4, <1>5, <1>7, <1>8, <1>9, <1>10 DEF CreditInv

\* CreditInv is an invariant: calls, notes, queue and worker stay in step.
THEOREM CreditInvariant == Spec => []CreditInv
<1>1. CreditInv /\ [Next]_vars => CreditInv'
  BY TypeStep, OrderStep, BoundedStep, OwnsStep, BacksStep, StepByStepStep,
     PendingStep, StatusStep, AmountsStep DEF CreditInv
<1>2. QED
  BY InitHolds, <1>1, PTL DEF Spec

\* The variables keep to their types.
THEOREM CreditTypeCorrect == Spec => []TypeOK
<1>1. CreditInv => TypeOK
  BY DEF CreditInv
<1>2. QED
  BY CreditInvariant, <1>1, PTL

\* Of the notes that count, one has seen all others when none is contested.
LEMMA LastSaw ==
  ASSUME CreditInv, NEW s \in Sales, ~ Contested(s), Counted(s) # {}
  PROVE  \E c \in Counted(s) : Counted(s) \ {c} \subseteq saw[c]
<1>1. Counted(s) \in SUBSET Calls
  BY DEF Counted, NotesOf
<1>2. PICK c \in Counted(s) : \A d \in Counted(s) : c \notin saw[d]
  BY <1>1 DEF CreditInv, SeenInOrder
<1>3. \A d \in Counted(s) \ {c} : d \in saw[c]
  BY <1>2 DEF Contested
<1>4. QED
  BY <1>2, <1>3

\* A sale is credited its total and one cent of rounding at most, unless two
\* notes of it passed the check unseen by each other.
THEOREM CreditBoundedHolds == Spec => []CreditBounded
<1>1. ASSUME CreditInv PROVE CreditBounded
  <2> SUFFICES ASSUME NEW s \in Sales, ~ Contested(s)
               PROVE  SumOn(credit, Counted(s)) <= Total(s) + 1
    BY DEF CreditBounded
  <2>1. TypeOK /\ AmountsFit
    BY <1>1 DEF CreditInv
  <2>2. Total(s) \in Nat
    BY CreditNotesAssumption DEF Total
  <2>3. CASE Counted(s) = {}
    BY <2>2, <2>3, SumEmpty
  <2>4. CASE Counted(s) # {}
    <3>1. PICK c \in Counted(s) : Counted(s) \ {c} \subseteq saw[c]
      BY <1>1, <2>4, LastSaw
    <3> DEFINE C == Counted(s)
               R == C \ {c}
    <3>2. c \in Calls /\ SaleOf(c) = s /\ C \in SUBSET Calls /\ R \in SUBSET Calls
      BY DEF Counted, NotesOf
    <3>3. saw[c] \in SUBSET Calls
      BY <2>1, <3>2 DEF TypeOK
    <3>4. SumOn(credit, C) = credit[c] + SumOn(credit, R)
      <4>1. IsFiniteSet(C) /\ \A x \in C : credit[x] \in Int
        BY <2>1, <3>2, CreditSums
      <4> HIDE DEF C
      <4>2. QED
        BY <3>1, <4>1, SumRemove DEF C
    <3>5. SumOn(credit, R) <= SumOn(credit, saw[c])
      <4>1. IsFiniteSet(saw[c]) /\ \A x \in saw[c] : credit[x] \in Nat
        BY <2>1, <3>3, CreditSums
      <4> HIDE DEF R
      <4>2. R \in SUBSET saw[c]
        BY <3>1 DEF R
      <4>3. QED
        BY <4>1, <4>2, SumWithin
    <3>6. credit[c] + SumOn(credit, saw[c]) <= Total(s) + 1
      BY <2>1, <3>2 DEF AmountsFit
    <3>7. credit[c] \in Nat /\ SumOn(credit, R) \in Int /\ SumOn(credit, saw[c]) \in Int
      BY <2>1, <3>2, <3>3, CreditSums DEF TypeOK
    <3>8. QED
      BY <2>2, <3>4, <3>5, <3>6, <3>7
  <2>5. QED
    BY <2>3, <2>4
<1>2. QED
  BY CreditInvariant, <1>1, PTL

\* The goods of a sale come back at most once, over all its notes.
THEOREM ReturnedOnceHolds == Spec => []ReturnedOnce
<1>1. ASSUME CreditInv PROVE ReturnedOnce
  <2> SUFFICES ASSUME NEW s \in Sales, ~ Contested(s), ~ LeftOver(s),
                      NotesOf(s) \cap hurt = {}, NEW i \in 1..Lines[s]
               PROVE  Back(s, i) <= 1
    BY DEF ReturnedOnce
  <2> DEFINE f == [c \in Calls |-> IF SaleOf(c) = s THEN back[c][i] ELSE 0]
  <2>1. TypeOK /\ AmountsFit /\ BacksCounted /\ StepByStep /\ RunOwnsJob /\ CallsInOrder
    BY <1>1 DEF CreditInv
  <2>2. Lines[s] \in Nat /\ Total(s) \in Nat
    BY CreditNotesAssumption DEF Total
  <2>3. ASSUME NEW c \in Calls, SaleOf(c) = s
        PROVE  /\ back[c][i] \in {0, 1}
               /\ back[c][i] = 1 => c \in Counted(s) /\ ask[c].stock
    <3>1. i \in DOMAIN back[c] /\ i > 0
      BY <2>1, <2>2, <2>3 DEF TypeOK
    <3>2. CASE note[c] = "NONE"
      BY <2>1, <3>1, <3>2 DEF BacksCounted, GaveBack
    <3>3. CASE note[c] # "NONE" /\ Internal(c)
      <4>1. line[c] \in Nat /\ GaveBack(c, line[c]) /\ (line[c] > 0 => ask[c].stock)
        BY <2>1, <2>2, <2>3, <3>3 DEF BacksCounted, TypeOK
      <4>2. c \in Counted(s)
        BY <2>1, <2>3, <3>3 DEF CallsInOrder, Counted, NotesOf
      <4>3. QED
        BY <2>2, <3>1, <4>1, <4>2 DEF GaveBack
    <3>4. CASE note[c] # "NONE" /\ ~ Internal(c)
      <4>1. c \notin hurt /\ c \in NotesOf(s)
        BY <2>3, <3>4 DEF NotesOf
      <4>2. CASE GaveBack(c, 0)
        BY <3>1, <4>2 DEF GaveBack
      <4>3. CASE run = c /\ step = "return"
        <5>1. note[c] = "COMPLETED" /\ GaveBack(c, line[c]) /\ ask[c].stock
          BY <2>1, <3>4, <4>1, <4>3 DEF StepByStep, BacksCounted
        <5>2. QED
          BY <3>1, <4>1, <5>1 DEF GaveBack, Counted
      <4>4. CASE Through(c)
        <5>1. /\ note[c] = "COMPLETED"
              /\ GaveBack(c, IF ask[c].stock THEN Lines[SaleOf(c)] ELSE 0)
          BY <2>1, <3>4, <4>1, <4>4 DEF StepByStep
        <5>2. QED
          BY <2>3, <3>1, <4>1, <5>1 DEF GaveBack, Counted
      <4>5. GaveBack(c, 0) \/ (run = c /\ step = "return") \/ Through(c)
        <5>1. Before(c) \/ (run = c /\ step = "complete") => GaveBack(c, 0)
          BY <2>1, <3>4, <4>1 DEF StepByStep
        <5>2. run = c => step # "idle"
          BY <2>1, CreditNotesAssumption DEF RunOwnsJob
        <5>3. QED
          BY <2>1, <5>1, <5>2 DEF Before, Through, TypeOK, RunStep
      <4>6. QED
        BY <4>2, <4>3, <4>4, <4>5
    <3>5. QED
      BY <3>2, <3>3, <3>4
  <2>4. ASSUME NEW c \in Counted(s), NEW d \in Counted(s), ask[c].stock, c \in saw[d]
        PROVE  FALSE
    <3>1. c \in Calls /\ d \in Calls /\ SaleOf(d) = s /\ c \in NotesOf(s)
      BY DEF Counted, NotesOf
    <3>2. credit[c] \in Nat /\ credit[c] >= Total(s)
      BY <2>1, <2>2, <2>4, <3>1 DEF LeftOver, TypeOK
    <3>3. saw[d] \in SUBSET Calls /\ SumOn(credit, saw[d]) < Total(s)
      BY <2>1, <3>1 DEF AmountsFit, TypeOK
    <3>4. /\ IsFiniteSet(saw[d]) /\ \A x \in saw[d] : credit[x] \in Nat
          /\ SumOn(credit, saw[d]) \in Int
      BY <2>1, <3>3, CreditSums
    <3>5. SumOn(credit, {c}) <= SumOn(credit, saw[d])
      <4>1. {c} \in SUBSET saw[d]
        BY <2>4
      <4>2. QED
        BY <3>4, <4>1, SumWithin
    <3>6. SumOn(credit, {c}) = credit[c]
      <4>1. IsFiniteSet({c}) /\ c \in {c} /\ \A x \in {c} : credit[x] \in Int
        BY <2>4, <3>2, <3>4, CreditSums, <2>1, <3>1
      <4>2. SumOn(credit, {c}) = credit[c] + SumOn(credit, {c} \ {c})
        BY <4>1, SumRemove
      <4>3. {c} \ {c} = {}
        OBVIOUS
      <4>4. QED
        BY <3>2, <4>2, <4>3, SumEmpty
    <3>7. QED
      BY <2>2, <3>2, <3>3, <3>4, <3>5, <3>6
  <2>5. \A c \in Calls : f[c] \in {0, 1}
    BY <2>3
  <2>6. \A c, d \in Calls : f[c] = 1 /\ f[d] = 1 => c = d
    <3> SUFFICES ASSUME NEW c \in Calls, NEW d \in Calls, f[c] = 1, f[d] = 1, c # d
                 PROVE  FALSE
      OBVIOUS
    <3>1. SaleOf(c) = s /\ SaleOf(d) = s /\ back[c][i] = 1 /\ back[d][i] = 1
      OBVIOUS
    <3>2. c \in Counted(s) /\ ask[c].stock /\ d \in Counted(s) /\ ask[d].stock
      BY <2>3, <3>1
    <3>3. c \in saw[d] \/ d \in saw[c]
      BY <3>2 DEF Contested
    <3>4. QED
      BY <2>4, <3>2, <3>3
  <2>7. SumOn(f, Calls) <= 1
    <3> HIDE DEF f
    <3>1. QED
      BY <2>5, <2>6, SumAtMostOne, CreditNotesAssumption
  <2>8. QED
    BY <2>7 DEF Back
<1>2. QED
  BY CreditInvariant, <1>1, PTL

\* A note of AFIP that no fault has hit was authorised once if it is complete
\* and never otherwise, and its goods came back, each line once, or none.
THEOREM NoteIsExactHolds == Spec => []NoteIsExact
<1>1. ASSUME CreditInv PROVE NoteIsExact
  <2> SUFFICES ASSUME NEW c \in Calls, note[c] # "NONE", ~ Internal(c),
                      c \notin hurt, run # c
               PROVE  /\ issued[c] = IF note[c] = "COMPLETED" THEN 1 ELSE 0
                      /\ \A i \in DOMAIN back[c] :
                           back[c][i] = IF note[c] = "COMPLETED" /\ ask[c].stock
                                        THEN 1 ELSE 0
    BY DEF NoteIsExact
  <2>1. StepByStep /\ TypeOK
    BY <1>1 DEF CreditInv
  <2>2. Lines[SaleOf(c)] \in Nat /\ DOMAIN back[c] = 1..Lines[SaleOf(c)]
    BY <2>1, Asked DEF TypeOK
  <2>3. CASE job[c] = "done"
    <3>1. /\ issued[c] = 1 /\ note[c] = "COMPLETED"
          /\ GaveBack(c, IF ask[c].stock THEN Lines[SaleOf(c)] ELSE 0)
      BY <2>1, <2>3 DEF StepByStep, Before, Through
    <3>2. QED
      BY <2>2, <3>1 DEF GaveBack
  <2>4. CASE job[c] # "done"
    <3>1. issued[c] = 0 /\ note[c] # "COMPLETED" /\ GaveBack(c, 0)
      BY <2>1, <2>4 DEF StepByStep, Before
    <3>2. QED
      BY <2>2, <3>1 DEF GaveBack
  <2>5. QED
    BY <2>3, <2>4
<1>2. QED
  BY CreditInvariant, <1>1, PTL

\* A sale that has only notes of AFIP, none of them hit or being run, says
\* REFUNDED exactly when what AFIP authorised reaches its total.
THEOREM StatusIsExactHolds == Spec => []StatusIsExact
<1>1. CreditInv => StatusIsExact
  BY DEF CreditInv, StatusFollows, StatusIsExact, Refundable
<1>2. QED
  BY CreditInvariant, <1>1, PTL

\* A note that is PENDING has somebody at work on it, unless a crash or a failed
\* write hit somebody who was.
THEOREM PendingInProgressHolds == Spec => []PendingInProgress
<1>1. CreditInv => PendingInProgress
  BY DEF CreditInv, PendingChanges, PendingInProgress, WillChange, RunOwnsJob
<1>2. QED
  BY CreditInvariant, <1>1, PTL
============================================================================
