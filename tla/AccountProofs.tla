---------------------------- MODULE AccountProofs ----------------------------
(***************************************************************************)
(* The accounts of modules/auth: that the inductive invariant of           *)
(* MemberCodes is one, for any number of starts, calls and old accounts,   *)
(* that the inductive invariant of EmailTokens is one, for any number of   *)
(* addresses, calls and links, and that of Sessions, for any number of     *)
(* browsers, tabs and requests; and that their properties follow.          *)
(*                                                                         *)
(* The sessions: the version guards every save that replaces the list of   *)
(* tokens, so what a handler has read is what is stored when it writes.    *)
(* InTurn, inductive beside it, says where each token is while requests    *)
(* are handled one at a time.                                              *)
(***************************************************************************)
EXTENDS MemberCodes, EmailTokens, Sessions, SequenceTheorems, FiniteSetTheorems, TLAPS

(* Who comes first, and member codes *)

\* What giving an account a code changes, and what it leaves alone.
LEMMA CodeGiven ==
  ASSUME NEW old \in Seq(Account), NEW u \in DOMAIN old, NEW n \in Nat
  PROVE  /\ [old EXCEPT ![u].code = n] \in Seq(Account)
         /\ DOMAIN [old EXCEPT ![u].code = n] = DOMAIN old
         /\ \A v \in DOMAIN old :
              /\ [old EXCEPT ![u].code = n][v].code = IF v = u THEN n ELSE old[v].code
              /\ [old EXCEPT ![u].code = n][v].role = old[v].role
              /\ [old EXCEPT ![u].code = n][v].gone = old[v].gone
<1> DEFINE new == [old EXCEPT ![u].code = n]
<1>1. old[u] \in Account /\ u \in 1..Len(old)
  BY ElementOfSeq
<1>2. new = [old EXCEPT ![u] = [old[u] EXCEPT !.code = n]]
  OBVIOUS
<1>3. [old[u] EXCEPT !.code = n] \in Account
  BY <1>1 DEF Account
<1>4. new \in Seq(Account) /\ DOMAIN new = DOMAIN old
  BY <1>1, <1>2, <1>3, ExceptSeq
<1>5. \A v \in DOMAIN old : old[v] \in Account
  BY ElementOfSeq
<1>6. QED
  BY <1>4, <1>5 DEF Account

\* What deleting an account changes, and what it leaves alone.
LEMMA AccountDeleted ==
  ASSUME NEW old \in Seq(Account), NEW u \in DOMAIN old
  PROVE  /\ [old EXCEPT ![u].gone = TRUE] \in Seq(Account)
         /\ DOMAIN [old EXCEPT ![u].gone = TRUE] = DOMAIN old
         /\ \A v \in DOMAIN old :
              /\ [old EXCEPT ![u].gone = TRUE][v].code = old[v].code
              /\ [old EXCEPT ![u].gone = TRUE][v].role = old[v].role
              /\ v # u => [old EXCEPT ![u].gone = TRUE][v].gone = old[v].gone
              /\ v = u => [old EXCEPT ![u].gone = TRUE][v].gone = TRUE
<1> DEFINE new == [old EXCEPT ![u].gone = TRUE]
<1>1. old[u] \in Account /\ u \in 1..Len(old)
  BY ElementOfSeq
<1>2. new = [old EXCEPT ![u] = [old[u] EXCEPT !.gone = TRUE]]
  OBVIOUS
<1>3. [old[u] EXCEPT !.gone = TRUE] \in Account
  BY <1>1 DEF Account
<1>4. new \in Seq(Account) /\ DOMAIN new = DOMAIN old
  BY <1>1, <1>2, <1>3, ExceptSeq
<1>5. \A v \in DOMAIN old : old[v] \in Account
  BY ElementOfSeq
<1>6. QED
  BY <1>4, <1>5 DEF Account

\* What a new account adds.
LEMMA AccountAdded ==
  ASSUME NEW old \in Seq(Account), NEW account \in Account
  PROVE  /\ Append(old, account) \in Seq(Account)
         /\ DOMAIN Append(old, account) = DOMAIN old \cup {Len(old) + 1}
         /\ \A v \in DOMAIN old : Append(old, account)[v] = old[v]
         /\ Append(old, account)[Len(old) + 1] = account
         /\ Len(old) + 1 \notin DOMAIN old
         /\ Append(old, account) # << >>
  BY AppendProperties, LenProperties

\* What is known of every account.
LEMMA Accounts ==
  ASSUME TypeOK
  PROVE  \A u \in DOMAIN accounts :
           /\ accounts[u] \in Account
           /\ accounts[u].code \in Nat
           /\ accounts[u].gone \in BOOLEAN
<1>1. \A u \in DOMAIN accounts : accounts[u] \in Account
  BY ElementOfSeq DEF TypeOK
<1>2. QED
  BY <1>1 DEF Account

\* Every step keeps the variables within their types.
LEMMA TypeStep == CodesInv /\ [Next]_vars => TypeOK'
<1> SUFFICES ASSUME CodesInv, [Next]_vars PROVE TypeOK'
  OBVIOUS
<1>1. CASE UNCHANGED vars
  BY <1>1 DEF CodesInv, Labels, TypeOK, Procs, Resting, vars, data, local, past
<1>2. ASSUME NEW s \in Starts, FindHighest(s) PROVE TypeOK'
  <2>1. Taken \cup {0} \subseteq Nat
    BY Accounts DEF CodesInv, Taken, Live
  <2>2. PICK code \in Nat : top' = [top EXCEPT ![s] = code]
    BY <1>2, <2>1 DEF FindHighest
  <2>3. QED
    BY <1>2, <2>2 DEF FindHighest, CodesInv, TypeOK, Goto, data, Procs, Resting
<1>3. ASSUME NEW s \in Starts, Sync(s) PROVE TypeOK'
  BY <1>3 DEF CodesInv, Labels, TypeOK, Procs, Resting, Sync, data, local, past,
     Goto , Higher
<1>4. ASSUME NEW s \in Starts, FindMissing(s) PROVE TypeOK'
  BY <1>4 DEF CodesInv, Labels, TypeOK, Procs, Resting, FindMissing, data,
     local, past, Goto, WithoutCode, Live
<1>5. ASSUME NEW s \in Starts, NEW u \in missing[s], Assign(s, u) PROVE TypeOK'
  <2>1. given[s] \in Nat /\ u \in DOMAIN accounts
    BY <1>5 DEF CodesInv, TypeOK, Procs
  <2>2. accounts' \in Seq(Account) /\ DOMAIN accounts' = DOMAIN accounts
    <3>1. accounts \in Seq(Account)
      BY DEF CodesInv, TypeOK
    <3>2. accounts' = accounts \/ accounts' = [accounts EXCEPT ![u].code = given[s]]
      BY <1>5 DEF Assign
    <3>3. QED
      BY <2>1, <3>1, <3>2, CodeGiven
  <2>3. missing' \in [Starts -> SUBSET DOMAIN accounts']
    BY <1>5, <2>2 DEF CodesInv, TypeOK, Assign
  <2>4. pc' \in [Procs -> Resting \cup {"sync", "find", "floor", "next", "assign",
                                      "count", "create"}] /\ skipped' \in BOOLEAN
    BY <1>5 DEF CodesInv, TypeOK, Assign, Skip, Goto, Procs, Resting
  <2>5. QED
    BY <1>5, <2>2, <2>3, <2>4 DEF CodesInv, TypeOK, Assign
<1>6. ASSUME NEW s \in Starts, BackfillFails(s) PROVE TypeOK'
  BY <1>6 DEF CodesInv, Labels, TypeOK, Procs, Resting, BackfillFails, data,
     local, past, Goto, Skip
<1>7. ASSUME NEW s \in Starts, Stop(s) PROVE TypeOK'
  BY <1>7 DEF CodesInv, Labels, TypeOK, Procs, Resting, Stop, data, local, past,
     Goto
<1>8. ASSUME NEW c \in StaffCalls, Guard(c) PROVE TypeOK'
  BY <1>8 DEF CodesInv, Labels, TypeOK, Procs, Resting, Guard, data, local,
     past, Goto
<1>9. ASSUME NEW c \in Calls, Count(c) PROVE TypeOK'
  BY <1>9 DEF CodesInv, Labels, TypeOK, Procs, Resting, Count, data, local,
     past, Goto
<1>10. ASSUME NEW c \in Calls, Create(c) PROVE TypeOK'
  <2>1. \A role \in Roles(c) : [code |-> given[c], role |-> role, gone |-> FALSE] \in Account
    BY <1>10 DEF CodesInv, TypeOK, Procs, Account, Roles
  <2>2. accounts' \in Seq(Account) /\ DOMAIN accounts \subseteq DOMAIN accounts'
    <3>1. CASE given[c] \in Taken
      BY <1>10, <3>1 DEF CodesInv, TypeOK, Create
    <3>2. CASE given[c] \notin Taken
      <4>1. PICK role \in Roles(c) :
              accounts' = Append(accounts, [code |-> given[c], role |-> role, gone |-> FALSE])
        BY <1>10, <3>2 DEF Create
      <4>2. QED
        BY <2>1, <4>1, AccountAdded DEF CodesInv, TypeOK
    <3>3. QED
      BY <3>1, <3>2
  <2>3. pc' \in [Procs -> Resting \cup {"sync", "find", "floor", "next", "assign",
                                      "count", "create"}]
    BY <1>10 DEF CodesInv, TypeOK, Create, Goto, Procs, Resting
  <2>4. opener' \in {"none", "old", "staff", "shop"}
    BY <1>10 DEF CodesInv, TypeOK, Create
  <2>5. QED
    BY <1>10, <2>2, <2>3, <2>4 DEF CodesInv, TypeOK, Create, local
<1>11. ASSUME NEW p \in Procs, Floor(p) PROVE TypeOK'
  BY <1>11, MemberCodesAssumption DEF CodesInv, Labels, TypeOK, Procs, Resting,
     Floor, data, local, past, Goto, Higher
<1>12. ASSUME NEW p \in Procs, NextCode(p) PROVE TypeOK'
  <2>1. handed' \in Seq(Nat)
    BY <1>12, AppendProperties DEF NextCode, CodesInv, TypeOK
  <2>2. QED
    BY <1>12, <2>1 DEF CodesInv, Labels, TypeOK, Procs, Resting, NextCode, Goto
<1>13. ASSUME NEW u \in DOMAIN accounts, Delete(u) PROVE TypeOK'
  <2>1. accounts' \in Seq(Account) /\ DOMAIN accounts' = DOMAIN accounts
    BY <1>13, AccountDeleted DEF CodesInv, TypeOK, Delete
  <2>2. QED
    BY <1>13, <2>1 DEF CodesInv, TypeOK, Delete, local, past
<1>14. QED
  BY <1>1, <1>2, <1>3, <1>4, <1>5, <1>6, <1>7, <1>8, <1>9, <1>10, <1>11, <1>12,
     <1>13 DEF Next, Start, Register

\* Starts and calls keep to their own labels.
LEMMA LabelsStep == CodesInv /\ [Next]_vars => Labels'
<1> SUFFICES ASSUME CodesInv, [Next]_vars PROVE Labels'
  OBVIOUS
<1>1. CASE UNCHANGED vars
  BY <1>1, MemberCodesAssumption DEF CodesInv, Labels, TypeOK, Procs, Calls,
     vars, data, local, past
<1>2. ASSUME NEW s \in Starts, FindHighest(s) PROVE Labels'
  BY <1>2, MemberCodesAssumption DEF CodesInv, Labels, TypeOK, Procs, Calls,
     FindHighest, data, local, past, Goto
<1>3. ASSUME NEW s \in Starts, Sync(s) PROVE Labels'
  BY <1>3, MemberCodesAssumption DEF CodesInv, Labels, TypeOK, Procs, Calls,
     Sync, data, local, past, Goto
<1>4. ASSUME NEW s \in Starts, FindMissing(s) PROVE Labels'
  BY <1>4, MemberCodesAssumption DEF CodesInv, Labels, TypeOK, Procs, Calls,
     FindMissing, data, local, past, Goto
<1>5. ASSUME NEW s \in Starts, NEW u \in missing[s], Assign(s, u) PROVE Labels'
  BY <1>5, MemberCodesAssumption DEF CodesInv, Labels, TypeOK, Procs, Calls,
     Assign, data, local, past, Goto, Skip
<1>6. ASSUME NEW s \in Starts, BackfillFails(s) PROVE Labels'
  BY <1>6, MemberCodesAssumption DEF CodesInv, Labels, TypeOK, Procs, Calls,
     BackfillFails, data, local, past, Goto, Skip
<1>7. ASSUME NEW s \in Starts, Stop(s) PROVE Labels'
  BY <1>7, MemberCodesAssumption DEF CodesInv, Labels, TypeOK, Procs, Calls,
     Stop, data, local, past, Goto
<1>8. ASSUME NEW c \in StaffCalls, Guard(c) PROVE Labels'
  BY <1>8, MemberCodesAssumption DEF CodesInv, Labels, TypeOK, Procs, Calls,
     Guard, data, local, past, Goto
<1>9. ASSUME NEW c \in Calls, Count(c) PROVE Labels'
  BY <1>9, MemberCodesAssumption DEF CodesInv, Labels, TypeOK, Procs, Calls,
     Count, data, local, past, Goto
<1>10. ASSUME NEW c \in Calls, Create(c) PROVE Labels'
  BY <1>10, MemberCodesAssumption DEF CodesInv, Labels, TypeOK, Procs, Calls,
     Create, data, local, past, Goto
<1>11. ASSUME NEW p \in Procs, Floor(p) PROVE Labels'
  BY <1>11, MemberCodesAssumption DEF CodesInv, Labels, TypeOK, Procs, Calls,
     Floor, data, local, past, Goto
<1>12. ASSUME NEW p \in Procs, NextCode(p) PROVE Labels'
  BY <1>12, MemberCodesAssumption DEF CodesInv, Labels, TypeOK, Procs, Calls,
     NextCode, data, local, past, Goto
<1>13. ASSUME NEW u \in DOMAIN accounts, Delete(u) PROVE Labels'
  BY <1>13, MemberCodesAssumption DEF CodesInv, Labels, TypeOK, Procs, Calls,
     Delete, data, local, past
<1>14. QED
  BY <1>1, <1>2, <1>3, <1>4, <1>5, <1>6, <1>7, <1>8, <1>9, <1>10, <1>11, <1>12,
     <1>13 DEF Next, Start, Register

\* The counter stays ahead of the codes it gave, and gives none twice.
LEMMA CounterStep == CodesInv /\ [Next]_vars => CounterHolds' /\ NoneShared'
<1> SUFFICES ASSUME CodesInv, [Next]_vars PROVE CounterHolds' /\ NoneShared'
  OBVIOUS
<1>1. CASE UNCHANGED vars
  BY <1>1 DEF CodesInv, Labels, TypeOK, Procs, CounterHolds, NoneShared,
     vars, data, local, past
<1>2. ASSUME NEW s \in Starts, FindHighest(s) PROVE CounterHolds' /\ NoneShared'
  BY <1>2 DEF CodesInv, Labels, TypeOK, Procs, CounterHolds, NoneShared,
     FindHighest, data, local, past, Goto
<1>3. ASSUME NEW s \in Starts, Sync(s) PROVE CounterHolds' /\ NoneShared'
  BY <1>3, MemberCodesAssumption DEF CodesInv, Labels, TypeOK, Procs,
     CounterHolds, NoneShared, Sync, data, local, past, Goto, Higher
<1>4. ASSUME NEW s \in Starts, FindMissing(s) PROVE CounterHolds' /\ NoneShared'
  BY <1>4 DEF CodesInv, Labels, TypeOK, Procs, CounterHolds, NoneShared,
     FindMissing, data, local, past, Goto
<1>5. ASSUME NEW s \in Starts, NEW u \in missing[s], Assign(s, u)
     PROVE  CounterHolds' /\ NoneShared'
  BY <1>5 DEF CodesInv, Labels, TypeOK, Procs, CounterHolds, NoneShared,
     Assign, data, local, past, Goto, Skip
<1>6. ASSUME NEW s \in Starts, BackfillFails(s)
     PROVE  CounterHolds' /\ NoneShared'
  BY <1>6 DEF CodesInv, Labels, TypeOK, Procs, CounterHolds, NoneShared,
     BackfillFails, data, local, past, Goto, Skip
<1>7. ASSUME NEW s \in Starts, Stop(s) PROVE CounterHolds' /\ NoneShared'
  BY <1>7 DEF CodesInv, Labels, TypeOK, Procs, CounterHolds, NoneShared,
     Stop, data, local, past, Goto
<1>8. ASSUME NEW c \in StaffCalls, Guard(c) PROVE CounterHolds' /\ NoneShared'
  BY <1>8 DEF CodesInv, Labels, TypeOK, Procs, CounterHolds, NoneShared,
     Guard, data, local, past, Goto
<1>9. ASSUME NEW c \in Calls, Count(c) PROVE CounterHolds' /\ NoneShared'
  BY <1>9 DEF CodesInv, Labels, TypeOK, Procs, CounterHolds, NoneShared,
     Count, data, local, past, Goto
<1>10. ASSUME NEW c \in Calls, Create(c) PROVE CounterHolds' /\ NoneShared'
  BY <1>10 DEF CodesInv, Labels, TypeOK, Procs, CounterHolds, NoneShared,
     Create, data, local, past, Goto
<1>11. ASSUME NEW p \in Procs, Floor(p) PROVE CounterHolds' /\ NoneShared'
  BY <1>11, MemberCodesAssumption DEF CodesInv, Labels, TypeOK, Procs,
     CounterHolds, NoneShared, Floor, data, local, past, Goto, Higher
<1>12. ASSUME NEW p \in Procs, NextCode(p) PROVE CounterHolds' /\ NoneShared'
  BY <1>12 DEF CodesInv, Labels, TypeOK, Procs, CounterHolds, NoneShared,
     NextCode, data, local, past, Goto
<1>13. ASSUME NEW u \in DOMAIN accounts, Delete(u)
     PROVE  CounterHolds' /\ NoneShared'
  BY <1>13 DEF CodesInv, Labels, TypeOK, Procs, CounterHolds, NoneShared,
     Delete, data, local, past
<1>14. QED
  BY <1>1, <1>2, <1>3, <1>4, <1>5, <1>6, <1>7, <1>8, <1>9, <1>10, <1>11, <1>12,
     <1>13 DEF Next, Start, Register

\* Whoever is given a code is given one that is higher than all before.
LEMMA CodeHanded ==
  ASSUME NEW old \in Seq(Nat), NEW code \in Nat
  PROVE  /\ DOMAIN Append(old, code) = DOMAIN old \cup {Len(old) + 1}
         /\ \A i \in DOMAIN old : Append(old, code)[i] = old[i] /\ old[i] \in Nat
         /\ Append(old, code)[Len(old) + 1] = code
  BY AppendProperties, LenProperties, ElementOfSeq

\* No code is handed out again.
LEMMA HandedStep == CodesInv /\ [Next]_vars => HandedBelow' /\ NoneGivenTwice'
<1> SUFFICES ASSUME CodesInv, [Next]_vars PROVE HandedBelow' /\ NoneGivenTwice'
  OBVIOUS
<1>1. seq \in Nat /\ handed \in Seq(Nat) /\ HandedBelow /\ NoneGivenTwice
  BY DEF CodesInv, TypeOK
<1>2. \A i \in DOMAIN handed : handed[i] \in Nat
  BY <1>1, ElementOfSeq
<1>3. ASSUME NEW p \in Procs, NextCode(p) PROVE HandedBelow' /\ NoneGivenTwice'
  <2>1. handed' = Append(handed, seq + 1) /\ seq' = seq + 1
    BY <1>3 DEF NextCode
  <2>2. /\ DOMAIN handed' = DOMAIN handed \cup {Len(handed) + 1}
        /\ \A i \in DOMAIN handed : handed'[i] = handed[i]
        /\ handed'[Len(handed) + 1] = seq + 1
    BY <1>1, <2>1, CodeHanded
  <2>3. HandedBelow'
    BY <1>1, <1>2, <2>1, <2>2 DEF HandedBelow
  <2>4. \A i \in DOMAIN handed : handed'[i] # seq + 1
    BY <1>1, <1>2, <2>2 DEF HandedBelow
  <2>5. NoneGivenTwice'
    BY <1>1, <2>2, <2>4 DEF NoneGivenTwice
  <2>6. QED
    BY <2>3, <2>5
<1>4. ASSUME handed' = handed, seq' \in Nat, seq <= seq'
      PROVE  HandedBelow' /\ NoneGivenTwice'
  BY <1>1, <1>2, <1>4 DEF HandedBelow, NoneGivenTwice
<1>5. ASSUME NEW s \in Starts, Sync(s) PROVE HandedBelow' /\ NoneGivenTwice'
  <2>1. top[s] \in Nat
    BY DEF CodesInv, TypeOK
  <2>2. QED
    BY <1>1, <1>4, <1>5, <2>1, MemberCodesAssumption DEF Sync, past, Higher
<1>6. ASSUME NEW p \in Procs, Floor(p) PROVE HandedBelow' /\ NoneGivenTwice'
  BY <1>1, <1>4, <1>6, MemberCodesAssumption DEF Floor, past, Higher
<1>7. ASSUME NEW s \in Starts, FindHighest(s) \/ FindMissing(s) \/ BackfillFails(s) \/ Stop(s)
      PROVE  HandedBelow' /\ NoneGivenTwice'
  BY <1>1, <1>4, <1>7 DEF FindHighest, FindMissing, BackfillFails, Stop, data, past
<1>8. ASSUME NEW s \in Starts, NEW u \in missing[s], Assign(s, u)
      PROVE  HandedBelow' /\ NoneGivenTwice'
  BY <1>1, <1>4, <1>8 DEF Assign
<1>9. ASSUME NEW c \in Calls, Guard(c) \/ Count(c) \/ Create(c)
      PROVE  HandedBelow' /\ NoneGivenTwice'
  BY <1>1, <1>4, <1>9 DEF Guard, Count, Create, data, past
<1>10. ASSUME NEW u \in DOMAIN accounts, Delete(u) PROVE HandedBelow' /\ NoneGivenTwice'
  BY <1>1, <1>4, <1>10 DEF Delete, past
<1>11. CASE UNCHANGED vars
  BY <1>1, <1>4, <1>11 DEF vars, data, past
<1>12. QED
  BY <1>3, <1>5, <1>6, <1>7, <1>8, <1>9, <1>10, <1>11 DEF Next, Start, Register, Calls

\* A server that serves goes on.
LEMMA ServedStep == CodesInv /\ [Next]_vars => Served'
<1> SUFFICES ASSUME CodesInv, [Next]_vars PROVE Served'
  OBVIOUS
<1>1. CASE UNCHANGED vars
  BY <1>1, MemberCodesAssumption DEF CodesInv, Labels, TypeOK, Procs, Calls,
     Served, Serving, Resting, vars, data, local, past
<1>2. ASSUME NEW s \in Starts, FindHighest(s) PROVE Served'
  BY <1>2, MemberCodesAssumption DEF CodesInv, Labels, TypeOK, Procs, Calls,
     Served, Serving, Resting, FindHighest, data, local, past, Goto
<1>3. ASSUME NEW s \in Starts, Sync(s) PROVE Served'
  BY <1>3, MemberCodesAssumption DEF CodesInv, Labels, TypeOK, Procs, Calls,
     Served, Serving, Resting, Sync, data, local, past, Goto
<1>4. ASSUME NEW s \in Starts, FindMissing(s) PROVE Served'
  BY <1>4, MemberCodesAssumption DEF CodesInv, Labels, TypeOK, Procs, Calls,
     Served, Serving, Resting, FindMissing, data, local, past, Goto
<1>5. ASSUME NEW s \in Starts, NEW u \in missing[s], Assign(s, u) PROVE Served'
  BY <1>5, MemberCodesAssumption DEF CodesInv, Labels, TypeOK, Procs, Calls,
     Served, Serving, Resting, Assign, data, local, past, Goto, Skip
<1>6. ASSUME NEW s \in Starts, BackfillFails(s) PROVE Served'
  BY <1>6, MemberCodesAssumption DEF CodesInv, Labels, TypeOK, Procs, Calls,
     Served, Serving, Resting, BackfillFails, data, local, past, Goto, Skip
<1>7. ASSUME NEW s \in Starts, Stop(s) PROVE Served'
  BY <1>7, MemberCodesAssumption DEF CodesInv, Labels, TypeOK, Procs, Calls,
     Served, Serving, Resting, Stop, data, local, past, Goto
<1>8. ASSUME NEW c \in StaffCalls, Guard(c) PROVE Served'
  BY <1>8, MemberCodesAssumption DEF CodesInv, Labels, TypeOK, Procs, Calls,
     Served, Serving, Resting, Guard, data, local, past, Goto
<1>9. ASSUME NEW c \in Calls, Count(c) PROVE Served'
  BY <1>9, MemberCodesAssumption DEF CodesInv, Labels, TypeOK, Procs, Calls,
     Served, Serving, Resting, Count, data, local, past, Goto
<1>10. ASSUME NEW c \in Calls, Create(c) PROVE Served'
  BY <1>10, MemberCodesAssumption DEF CodesInv, Labels, TypeOK, Procs, Calls,
     Served, Serving, Resting, Create, data, local, past, Goto
<1>11. ASSUME NEW p \in Procs, Floor(p) PROVE Served'
  BY <1>11, MemberCodesAssumption DEF CodesInv, Labels, TypeOK, Procs, Calls,
     Served, Serving, Resting, Floor, data, local, past, Goto
<1>12. ASSUME NEW p \in Procs, NextCode(p) PROVE Served'
  BY <1>12, MemberCodesAssumption DEF CodesInv, Labels, TypeOK, Procs, Calls,
     Served, Serving, Resting, NextCode, data, local, past, Goto
<1>13. ASSUME NEW u \in DOMAIN accounts, Delete(u) PROVE Served'
  BY <1>13, MemberCodesAssumption DEF CodesInv, Labels, TypeOK, Procs, Calls,
     Served, Serving, Resting, Delete, data, local, past
<1>14. QED
  BY <1>1, <1>2, <1>3, <1>4, <1>5, <1>6, <1>7, <1>8, <1>9, <1>10, <1>11, <1>12,
     <1>13 DEF Next, Start, Register

\* What an assignment does to the accounts.
LEMMA AssignEffect ==
  ASSUME TypeOK, NEW s \in Starts, NEW u \in missing[s], Assign(s, u)
  PROVE  /\ DOMAIN accounts' = DOMAIN accounts
         /\ Live' = Live /\ Admins' = Admins
         /\ \A v \in DOMAIN accounts : v # u => accounts'[v].code = accounts[v].code
         /\ \/ accounts'[u].code = accounts[u].code
            \/ /\ u \in Live /\ accounts'[u].code = given[s]
               /\ given[s] \notin {accounts[v].code : v \in Live \ {u}}
         /\ u \in DOMAIN accounts
<1>1. u \in DOMAIN accounts /\ given[s] \in Nat /\ accounts \in Seq(Account)
  BY DEF TypeOK, Procs
<1>2. CASE accounts' = accounts
  BY <1>1, <1>2 DEF Live, Admins
<1>3. CASE accounts' # accounts
  <2>1. /\ accounts' = [accounts EXCEPT ![u].code = given[s]] /\ u \in Live
        /\ ~ \E v \in Live \ {u} : accounts[v].code = given[s]
    BY <1>3 DEF Assign
  <2> DEFINE new == [accounts EXCEPT ![u].code = given[s]]
  <2>2. /\ DOMAIN new = DOMAIN accounts
        /\ \A v \in DOMAIN accounts :
             /\ new[v].code = IF v = u THEN given[s] ELSE accounts[v].code
             /\ new[v].role = accounts[v].role
             /\ new[v].gone = accounts[v].gone
    BY <1>1, CodeGiven
  <2>3. QED
    BY <1>1, <2>1, <2>2 DEF Live, Admins
<1>4. QED
  BY <1>2, <1>3

\* What a registration does to the accounts.
LEMMA CreateEffect ==
  ASSUME TypeOK, NEW c \in Calls, Create(c)
  PROVE  \/ accounts' = accounts /\ given[c] \in Taken
         \/ \E n \in Nat :
              /\ n \notin DOMAIN accounts
              /\ DOMAIN accounts' = DOMAIN accounts \cup {n}
              /\ Live' = Live \cup {n}
              /\ Admins' = Admins \/ Admins' = Admins \cup {n}
              /\ Roles(c) = {"admin"} => n \in Admins'
              /\ \A v \in DOMAIN accounts : accounts'[v] = accounts[v]
              /\ accounts'[n].code = given[c] /\ given[c] \notin Taken
              /\ accounts' # << >>
<1>1. CASE given[c] \in Taken
  BY <1>1 DEF Create
<1>2. CASE given[c] \notin Taken
  <2>0. PICK role \in Roles(c) :
          accounts' = Append(accounts, [code |-> given[c], role |-> role, gone |-> FALSE])
    BY <1>2 DEF Create
  <2> DEFINE account == [code |-> given[c], role |-> role, gone |-> FALSE]
  <2> DEFINE n == Len(accounts) + 1
  <2>1. accounts' = Append(accounts, account)
    BY <2>0
  <2>2. account \in Account
    BY DEF TypeOK, Procs, Account, Roles
  <2>3. accounts \in Seq(Account) /\ n \in Nat
    BY LenProperties DEF TypeOK
  <2>4. /\ DOMAIN accounts' = DOMAIN accounts \cup {n} /\ n \notin DOMAIN accounts
        /\ \A v \in DOMAIN accounts : accounts'[v] = accounts[v]
        /\ accounts'[n] = account /\ accounts' # << >>
    BY <2>1, <2>2, <2>3, AccountAdded
  <2>5. accounts'[n].code = given[c] /\ accounts'[n].role = role /\ ~ accounts'[n].gone
    BY <2>4
  <2> HIDE DEF n, account
  <2>6. Live' = Live \cup {n}
    BY <2>4, <2>5 DEF Live
  <2>7. Admins' = IF role = "admin" THEN Admins \cup {n} ELSE Admins
    BY <2>4, <2>5, <2>6 DEF Admins, Live
  <2>8. QED
    BY <1>2, <2>3, <2>4, <2>5, <2>6, <2>7
<1>3. QED
  BY <1>1, <1>2

\* What a deletion does to the accounts.
LEMMA DeleteEffect ==
  ASSUME TypeOK, NEW u \in DOMAIN accounts, Delete(u)
  PROVE  /\ DOMAIN accounts' = DOMAIN accounts
         /\ Live' = Live \ {u} /\ Admins' = Admins
         /\ \A v \in DOMAIN accounts : accounts'[v].code = accounts[v].code
         /\ accounts # << >>
<1>1. accounts \in Seq(Account) /\ accounts' = [accounts EXCEPT ![u].gone = TRUE]
  BY DEF TypeOK, Delete
<1> DEFINE new == [accounts EXCEPT ![u].gone = TRUE]
<1>2. /\ DOMAIN new = DOMAIN accounts
      /\ \A v \in DOMAIN accounts :
           /\ new[v].code = accounts[v].code /\ new[v].role = accounts[v].role
           /\ v # u => new[v].gone = accounts[v].gone
           /\ v = u => new[v].gone = TRUE
  BY <1>1, AccountDeleted
<1>3. QED
  BY <1>1, <1>2 DEF Delete, Live, Admins

\* No code gets ahead of the counter of a server that has synchronised it.
LEMMA AheadStep == CodesInv /\ [Next]_vars => CounterAhead'
<1> SUFFICES ASSUME CodesInv, [Next]_vars PROVE CounterAhead'
  OBVIOUS
<1>1. CASE UNCHANGED vars
  BY <1>1, MemberCodesAssumption DEF CodesInv, Labels, TypeOK, Procs, Calls,
     CounterAhead, Synced, Live, Resting, vars, data, local, past
<1>2. ASSUME NEW s \in Starts, FindHighest(s) PROVE CounterAhead'
  <2>1. \A u \in Live : accounts[u].code <= top'[s]
    <3>1. PICK code \in Taken \cup {0} :
             (\A other \in Taken : other <= code) /\ top' = [top EXCEPT ![s] = code]
      BY <1>2 DEF FindHighest
    <3>2. top'[s] = code /\ code \in Nat
      BY <3>1, Accounts DEF CodesInv, TypeOK, Taken, Live
    <3>3. SUFFICES ASSUME NEW u \in Live PROVE accounts[u].code <= code
      BY <3>2
    <3>4. accounts[u].code \in Nat
      BY Accounts DEF CodesInv, Live
    <3>5. CASE accounts[u].code = 0
      BY <3>2, <3>5
    <3>6. CASE accounts[u].code # 0
      BY <3>1, <3>6 DEF Taken
    <3>7. QED
      BY <3>5, <3>6
  <2>2. \A u \in Live : accounts[u].code \in Nat
    BY Accounts DEF CodesInv, Live
  <2>3. Live' = Live /\ accounts' = accounts /\ seq' = seq /\ skipped' = skipped
    BY <1>2 DEF FindHighest, data, Live
  <2>4. \A r \in Starts \ {s} : pc'[r] = pc[r] /\ top'[r] = top[r]
    BY <1>2 DEF FindHighest, Goto, CodesInv, TypeOK, Procs
  <2>5. pc'[s] = "sync" /\ top'[s] \in Nat /\ seq \in Nat
    BY <1>2, TypeStep DEF FindHighest, Goto, CodesInv, TypeOK, Procs, Next,
       Start
  <2>6. QED
    BY <2>1, <2>2, <2>3, <2>4, <2>5 DEF CodesInv, CounterAhead, Synced, Higher
<1>3. ASSUME NEW s \in Starts, Sync(s) PROVE CounterAhead'
  BY <1>3, MemberCodesAssumption, MemberCodesAssumption, Accounts DEF CodesInv,
     Labels, TypeOK, Procs, Calls, CounterAhead, Synced, Live, Resting, Sync,
     data, local, past, Goto, Higher
<1>4. ASSUME NEW s \in Starts, FindMissing(s) PROVE CounterAhead'
  BY <1>4, MemberCodesAssumption DEF CodesInv, Labels, TypeOK, Procs, Calls,
     CounterAhead, Synced, Live, Resting, FindMissing, data, local, past, Goto
<1>5. ASSUME NEW s \in Starts, NEW u \in missing[s], Assign(s, u)
     PROVE  CounterAhead'
  <2>1. given[s] <= seq /\ given[s] \in Nat /\ seq \in Nat
    BY DEF CodesInv, CounterHolds, TypeOK, Procs
  <2>2. \A v \in Live : accounts[v].code \in Nat /\ accounts[v].code <= seq =>
                       accounts'[v].code <= seq
    BY <1>5, <2>1, AssignEffect DEF CodesInv, Live
  <2>3. Live' = Live /\ seq' = seq /\ top' = top /\ (~ skipped' => ~ skipped)
    BY <1>5, AssignEffect DEF CodesInv, Assign, Skip
  <2>4. Synced(s) /\ \A r \in Starts : r # s => pc'[r] = pc[r]
    BY <1>5 DEF Assign, Skip, Goto, Synced, CodesInv, TypeOK, Procs
  <2>5. pc'[s] # "sync"
    BY <1>5 DEF Assign, Skip, Goto, CodesInv, TypeOK, Procs
  <2>6. \A v \in Live : accounts[v].code \in Nat
    BY Accounts DEF CodesInv, Live
  <2>7. ASSUME ~ skipped' PROVE \A v \in Live : accounts'[v].code <= seq
    BY <2>2, <2>3, <2>4, <2>6, <2>7 DEF CodesInv, CounterAhead
  <2>8. ASSUME ~ skipped', NEW r \in Starts, pc'[r] = "sync"
        PROVE  \A v \in Live' : accounts'[v].code <= Higher(seq', top'[r])
    <3>1. top[r] \in Nat
      BY DEF CodesInv, TypeOK
    <3>2. seq <= Higher(seq, top[r])
      BY <2>1, <3>1 DEF Higher
    <3>3. \A v \in Live : accounts'[v].code <= seq
      BY <2>7, <2>8
    <3>4. \A v \in Live : accounts'[v].code \in Nat
      BY <1>5, <2>1, <2>6, AssignEffect DEF CodesInv, Live
    <3>5. QED
      BY <2>1, <2>3, <3>1, <3>2, <3>3, <3>4 DEF Higher
  <2>9. QED
    BY <2>3, <2>7, <2>8 DEF CounterAhead
<1>6. ASSUME NEW s \in Starts, BackfillFails(s) PROVE CounterAhead'
  BY <1>6, MemberCodesAssumption DEF CodesInv, Labels, TypeOK, Procs, Calls,
     CounterAhead, Synced, Live, Resting, BackfillFails, data, local, past,
     Goto, Skip
<1>7. ASSUME NEW s \in Starts, Stop(s) PROVE CounterAhead'
  BY <1>7, MemberCodesAssumption DEF CodesInv, Labels, TypeOK, Procs, Calls,
     CounterAhead, Synced, Live, Resting, Stop, data, local, past, Goto
<1>8. ASSUME NEW c \in StaffCalls, Guard(c) PROVE CounterAhead'
  BY <1>8, MemberCodesAssumption DEF CodesInv, Labels, TypeOK, Procs, Calls,
     CounterAhead, Synced, Live, Resting, Guard, data, local, past, Goto
<1>9. ASSUME NEW c \in Calls, Count(c) PROVE CounterAhead'
  BY <1>9, MemberCodesAssumption DEF CodesInv, Labels, TypeOK, Procs, Calls,
     CounterAhead, Synced, Live, Resting, Count, data, local, past, Goto
<1>10. ASSUME NEW c \in Calls, Create(c) PROVE CounterAhead'
  <2>1. given[c] <= seq /\ given[c] \in Nat /\ seq \in Nat
    BY DEF CodesInv, CounterHolds, TypeOK, Procs
  <2>2. \A v \in Live' : \/ v \in Live /\ accounts'[v].code = accounts[v].code
                        \/ accounts'[v].code = given[c]
    BY <1>10, CreateEffect DEF CodesInv, Live
  <2>3. seq' = seq /\ top' = top /\ skipped' = skipped
    BY <1>10 DEF Create, local
  <2>4. \A r \in Starts : pc'[r] = pc[r]
    BY <1>10, MemberCodesAssumption DEF Create, Goto, CodesInv, TypeOK, Procs
  <2>5. \A v \in Live : accounts[v].code \in Nat
    BY Accounts DEF CodesInv, Live
  <2>6. \A s \in Starts : top[s] \in Nat
    BY DEF CodesInv, TypeOK
  <2>7. QED
    BY <2>1, <2>2, <2>3, <2>4, <2>5, <2>6 DEF CodesInv, CounterAhead, Higher,
       Synced
<1>11. ASSUME NEW p \in Procs, Floor(p) PROVE CounterAhead'
  BY <1>11, MemberCodesAssumption, MemberCodesAssumption, Accounts DEF CodesInv,
     Labels, TypeOK, Procs, Calls, CounterAhead, Synced, Live, Resting, Floor,
     data, local, past, Goto, Higher, CounterHolds, Served, Serving
<1>12. ASSUME NEW p \in Procs, NextCode(p) PROVE CounterAhead'
  <2>1. seq' = seq + 1 /\ seq \in Nat /\ UNCHANGED <<accounts, top, skipped>>
    BY <1>12 DEF NextCode, past, CodesInv, TypeOK
  <2>2. \A r \in Starts : pc'[r] = pc[r] \/ (pc[r] = "next" /\ pc'[r] = "assign")
    BY <1>12, MemberCodesAssumption DEF NextCode, Goto, CodesInv, TypeOK, Procs
  <2>3. \A u \in Live : accounts[u].code \in Nat
    BY Accounts DEF CodesInv, Live
  <2>4. Live' = Live /\ \A r \in Starts : top[r] \in Nat
    BY <2>1 DEF Live, CodesInv, TypeOK
  <2>5. QED
    BY <2>1, <2>2, <2>3, <2>4 DEF CodesInv, CounterAhead, Higher, Synced
<1>13. ASSUME NEW u \in DOMAIN accounts, Delete(u) PROVE CounterAhead'
  <2>1. \A v \in Live' : v \in Live /\ accounts'[v].code = accounts[v].code
    BY <1>13, DeleteEffect DEF CodesInv, Live
  <2>2. UNCHANGED <<seq, pc, top, skipped>>
    BY <1>13 DEF Delete, local, past
  <2>3. QED
    BY <2>1, <2>2 DEF CodesInv, CounterAhead, Higher, Synced
<1>14. QED
  BY <1>1, <1>2, <1>3, <1>4, <1>5, <1>6, <1>7, <1>8, <1>9, <1>10, <1>11, <1>12,
     <1>13 DEF Next, Start, Register

\* What is about to be written is free as the counter is ahead of every code.
LEMMA FreeStep == CodesInv /\ [Next]_vars => CodeIsFree'
<1> SUFFICES ASSUME CodesInv, [Next]_vars PROVE CodeIsFree'
  OBVIOUS
<1>1. CASE UNCHANGED vars
  BY <1>1 DEF CodesInv, Labels, TypeOK, Procs, CodeIsFree, Taken, Live, vars,
     data, local, past
<1>2. ASSUME NEW s \in Starts, FindHighest(s) PROVE CodeIsFree'
  BY <1>2 DEF CodesInv, Labels, TypeOK, Procs, CodeIsFree, Taken, Live,
     FindHighest, data, local, past, Goto
<1>3. ASSUME NEW s \in Starts, Sync(s) PROVE CodeIsFree'
  BY <1>3 DEF CodesInv, Labels, TypeOK, Procs, CodeIsFree, Taken, Live, Sync,
     data, local, past, Goto
<1>4. ASSUME NEW s \in Starts, FindMissing(s) PROVE CodeIsFree'
  BY <1>4 DEF CodesInv, Labels, TypeOK, Procs, CodeIsFree, Taken, Live,
     FindMissing, data, local, past, Goto
<1>5. ASSUME NEW s \in Starts, NEW u \in missing[s], Assign(s, u) PROVE CodeIsFree'
  <2>1. Taken' \subseteq Taken \cup {given[s]}
    BY <1>5, AssignEffect DEF CodesInv, Taken, Live
  <2>2. given' = given /\ (~ skipped' => ~ skipped)
    BY <1>5 DEF Assign, Skip
  <2>3. pc'[s] \notin {"assign", "create"} /\ \A q \in Procs \ {s} : pc'[q] = pc[q]
    BY <1>5 DEF Assign, Skip, Goto, CodesInv, TypeOK, Procs
  <2>4. \A q \in Procs \ {s} : pc[q] \in {"assign", "create"} => given[q] # given[s]
    BY <1>5 DEF CodesInv, NoneShared, CounterHolds, TypeOK, Procs
  <2>5. QED
    BY <2>1, <2>2, <2>3, <2>4 DEF CodesInv, CodeIsFree
<1>6. ASSUME NEW s \in Starts, BackfillFails(s) PROVE CodeIsFree'
  BY <1>6 DEF CodesInv, Labels, TypeOK, Procs, CodeIsFree, Taken, Live,
     BackfillFails, data, local, past, Goto, Skip
<1>7. ASSUME NEW s \in Starts, Stop(s) PROVE CodeIsFree'
  BY <1>7 DEF CodesInv, Labels, TypeOK, Procs, CodeIsFree, Taken, Live, Stop,
     data, local, past, Goto
<1>8. ASSUME NEW c \in StaffCalls, Guard(c) PROVE CodeIsFree'
  <2>1. Taken' = Taken /\ given' = given /\ skipped' = skipped
    BY <1>8 DEF Guard, data, local, past, Taken, Live
  <2>2. \A q \in Procs : pc'[q] \in {"assign", "create"} => pc[q] \in {"assign", "create"}
    BY <1>8 DEF Guard, Goto, CodesInv, TypeOK, Procs, Calls
  <2>3. QED
    BY <2>1, <2>2 DEF CodesInv, CodeIsFree
<1>9. ASSUME NEW c \in Calls, Count(c) PROVE CodeIsFree'
  BY <1>9 DEF CodesInv, Labels, TypeOK, Procs, CodeIsFree, Taken, Live, Count,
     data, local, past, Goto
<1>10. ASSUME NEW c \in Calls, Create(c) PROVE CodeIsFree'
  <2>1. Taken' \subseteq Taken \cup {given[c]}
    <3>1. \A v \in Live' : \/ v \in Live /\ accounts'[v].code = accounts[v].code
                          \/ accounts'[v].code = given[c]
      BY <1>10, CreateEffect DEF CodesInv, Live
    <3>2. QED
      BY <3>1 DEF Taken
  <2>2. given' = given /\ skipped' = skipped
    BY <1>10 DEF Create, local
  <2>3. pc'[c] \notin {"assign", "create"} /\ \A q \in Procs \ {c} : pc'[q] = pc[q]
    BY <1>10 DEF Create, Goto, CodesInv, TypeOK, Procs
  <2>4. \A q \in Procs \ {c} : pc[q] \in {"assign", "create"} => given[q] # given[c]
    BY <1>10 DEF CodesInv, NoneShared, CounterHolds, TypeOK, Procs
  <2>5. QED
    BY <2>1, <2>2, <2>3, <2>4 DEF CodesInv, CodeIsFree
<1>11. ASSUME NEW p \in Procs, Floor(p) PROVE CodeIsFree'
  BY <1>11 DEF CodesInv, Labels, TypeOK, Procs, CodeIsFree, Taken, Live, Floor,
     data, local, past, Goto
<1>12. ASSUME NEW p \in Procs, NextCode(p) PROVE CodeIsFree'
  <2>1. ASSUME ~ skipped PROVE \A u \in Live : accounts[u].code <= seq
    <3>1. \E s \in Starts : Synced(s)
      BY <1>12 DEF NextCode, CodesInv, Served, Serving, Synced, Procs
    <3>2. QED
      BY <2>1, <3>1 DEF CodesInv, CounterAhead
  <2>2. given'[p] = seq + 1 /\ seq \in Nat
    BY <1>12 DEF NextCode, CodesInv, TypeOK, Procs
  <2>3. \A u \in Live : accounts[u].code \in Nat
    BY Accounts DEF CodesInv, Live
  <2>4. ~ skipped => given'[p] \notin Taken
    BY <2>1, <2>2, <2>3 DEF Taken
  <2>5. Taken' = Taken /\ skipped' = skipped
    BY <1>12 DEF NextCode, Taken, Live, past
  <2>6. \A q \in Procs \ {p} : pc'[q] = pc[q] /\ given'[q] = given[q]
    BY <1>12 DEF NextCode, Goto, CodesInv, TypeOK
  <2>7. QED
    BY <2>4, <2>5, <2>6 DEF CodesInv, CodeIsFree
<1>13. ASSUME NEW u \in DOMAIN accounts, Delete(u) PROVE CodeIsFree'
  <2>1. Taken' \subseteq Taken
    BY <1>13, DeleteEffect DEF CodesInv, Taken, Live
  <2>2. UNCHANGED <<pc, given, skipped>>
    BY <1>13 DEF Delete, local, past
  <2>3. QED
    BY <2>1, <2>2 DEF CodesInv, CodeIsFree
<1>14. QED
  BY <1>1, <1>2, <1>3, <1>4, <1>5, <1>6, <1>7, <1>8, <1>9, <1>10, <1>11, <1>12,
     <1>13 DEF Next, Start, Register

\* Who creates the first account has seen that there is none.
LEMMA FirstStep == CodesInv /\ [Next]_vars => FirstIsAdmin'
<1> SUFFICES ASSUME CodesInv, [Next]_vars PROVE FirstIsAdmin'
  OBVIOUS
<1>1. CASE UNCHANGED vars
  BY <1>1, MemberCodesAssumption DEF CodesInv, Labels, TypeOK, Procs, Calls,
     FirstIsAdmin, Live, Admins, vars, data, local, past
<1>2. ASSUME NEW s \in Starts, FindHighest(s) PROVE FirstIsAdmin'
  BY <1>2, MemberCodesAssumption DEF CodesInv, Labels, TypeOK, Procs, Calls,
     FirstIsAdmin, Live, Admins, FindHighest, data, local, past, Goto
<1>3. ASSUME NEW s \in Starts, Sync(s) PROVE FirstIsAdmin'
  BY <1>3, MemberCodesAssumption DEF CodesInv, Labels, TypeOK, Procs, Calls,
     FirstIsAdmin, Live, Admins, Sync, data, local, past, Goto
<1>4. ASSUME NEW s \in Starts, FindMissing(s) PROVE FirstIsAdmin'
  BY <1>4, MemberCodesAssumption DEF CodesInv, Labels, TypeOK, Procs, Calls,
     FirstIsAdmin, Live, Admins, FindMissing, data, local, past, Goto
<1>5. ASSUME NEW s \in Starts, NEW u \in missing[s], Assign(s, u)
     PROVE  FirstIsAdmin'
  <2>1. DOMAIN accounts' = DOMAIN accounts /\ Admins' = Admins
    BY <1>5, AssignEffect DEF CodesInv
  <2>2. accounts # << >> /\ accounts' # << >>
    BY <1>5, <2>1, AssignEffect, EmptySeq DEF CodesInv
  <2>3. QED
    BY <1>5, <2>1, <2>2 DEF CodesInv, FirstIsAdmin, Assign
<1>6. ASSUME NEW s \in Starts, BackfillFails(s) PROVE FirstIsAdmin'
  BY <1>6, MemberCodesAssumption DEF CodesInv, Labels, TypeOK, Procs, Calls,
     FirstIsAdmin, Live, Admins, BackfillFails, data, local, past, Goto, Skip
<1>7. ASSUME NEW s \in Starts, Stop(s) PROVE FirstIsAdmin'
  BY <1>7, MemberCodesAssumption DEF CodesInv, Labels, TypeOK, Procs, Calls,
     FirstIsAdmin, Live, Admins, Stop, data, local, past, Goto
<1>8. ASSUME NEW c \in StaffCalls, Guard(c) PROVE FirstIsAdmin'
  BY <1>8, MemberCodesAssumption DEF CodesInv, Labels, TypeOK, Procs, Calls,
     FirstIsAdmin, Live, Admins, Guard, data, local, past, Goto
<1>9. ASSUME NEW c \in Calls, Count(c) PROVE FirstIsAdmin'
  <2>1. accounts = << >> => Live = {}
    BY DEF Live
  <2>2. UNCHANGED <<accounts, opener, Admins>>
    BY <1>9 DEF Count, data, past, Admins, Live
  <2>3. \A d \in Calls : (pc'[d] = pc[d] /\ empty'[d] = empty[d])
                          \/ (d = c /\ (Live = {} => empty'[d]))
    <3>1. empty' = [empty EXCEPT ![c] = (Live = {})] /\ empty \in [Calls -> BOOLEAN]
      BY <1>9 DEF Count, CodesInv, TypeOK
    <3>2. \A d \in Calls : d # c => pc'[d] = pc[d]
      BY <1>9 DEF Count, Goto, CodesInv, TypeOK, Procs
    <3>3. Live = {} => empty'[c]
      BY <3>1
    <3>4. \A d \in Calls : d # c => empty'[d] = empty[d]
      BY <3>1, Zenon
    <3>5. TAKE d \in Calls
    <3>6. CASE d = c
      BY <3>3, <3>6, Zenon
    <3>7. CASE d # c
      BY <3>2, <3>4, <3>7, Zenon
    <3>8. QED
      BY <3>6, <3>7, Zenon
  <2>4. QED
    BY <2>1, <2>2, <2>3 DEF CodesInv, FirstIsAdmin
<1>10. ASSUME NEW c \in Calls, Create(c) PROVE FirstIsAdmin'
  <2>1. CASE accounts' = accounts /\ given[c] \in Taken
    BY <1>10, <2>1 DEF CodesInv, FirstIsAdmin, Create, Goto, local, past,
       TypeOK, Procs, Calls, Admins, Live
  <2>2. CASE ~ (accounts' = accounts /\ given[c] \in Taken)
    <3>1. /\ accounts' # << >> /\ given[c] \notin Taken
          /\ Admins \subseteq Admins'
          /\ Roles(c) = {"admin"} => Admins' # {}
      BY <1>10, <2>2, CreateEffect DEF CodesInv
    <3>2. opener' = IF opener # "none" THEN opener
                    ELSE IF c \in ShopCalls THEN "shop" ELSE "staff"
      BY <1>10, <3>1 DEF Create
    <3>3. ASSUME opener = "none", c \notin ShopCalls PROVE Roles(c) = {"admin"}
      BY <1>10, <3>3 DEF Create, CodesInv, FirstIsAdmin, Roles
    <3>4. QED
      BY <3>1, <3>2, <3>3 DEF CodesInv, FirstIsAdmin, TypeOK
  <2>3. QED
    BY <2>1, <2>2
<1>11. ASSUME NEW p \in Procs, Floor(p) PROVE FirstIsAdmin'
  BY <1>11, MemberCodesAssumption DEF CodesInv, Labels, TypeOK, Procs, Calls,
     FirstIsAdmin, Live, Admins, Floor, data, local, past, Goto
<1>12. ASSUME NEW p \in Procs, NextCode(p) PROVE FirstIsAdmin'
  BY <1>12, MemberCodesAssumption DEF CodesInv, Labels, TypeOK, Procs, Calls,
     FirstIsAdmin, Live, Admins, NextCode, data, local, past, Goto
<1>13. ASSUME NEW u \in DOMAIN accounts, Delete(u) PROVE FirstIsAdmin'
  <2>1. Admins' = Admins /\ accounts # << >> /\ DOMAIN accounts' = DOMAIN accounts
    BY <1>13, DeleteEffect DEF CodesInv
  <2>2. accounts' # << >>
    BY <1>13, <2>1, EmptySeq
  <2>3. QED
    BY <1>13, <2>1, <2>2 DEF CodesInv, FirstIsAdmin, Delete, past, local
<1>14. QED
  BY <1>1, <1>2, <1>3, <1>4, <1>5, <1>6, <1>7, <1>8, <1>9, <1>10, <1>11, <1>12,
     <1>13 DEF Next, Start, Register

\* While one backfill is under way nobody else gives an old account a code.
LEMMA OneStep == CodesInv /\ [Next]_vars => OneBackfill'
<1> SUFFICES ASSUME CodesInv, [Next]_vars PROVE OneBackfill'
  OBVIOUS
<1>1. CASE UNCHANGED vars
  BY <1>1, MemberCodesAssumption DEF CodesInv, Labels, TypeOK, Procs, Calls,
     OneBackfill, Live, Resting, vars, data, local, past
<1>2. ASSUME NEW s \in Starts, FindHighest(s) PROVE OneBackfill'
  BY <1>2, MemberCodesAssumption DEF CodesInv, Labels, TypeOK, Procs, Calls,
     OneBackfill, Live, Resting, FindHighest, data, local, past, Goto
<1>3. ASSUME NEW s \in Starts, Sync(s) PROVE OneBackfill'
  BY <1>3, MemberCodesAssumption DEF CodesInv, Labels, TypeOK, Procs, Calls,
     OneBackfill, Live, Resting, Sync, data, local, past, Goto
<1>4. ASSUME NEW s \in Starts, FindMissing(s) PROVE OneBackfill'
  BY <1>4, MemberCodesAssumption DEF CodesInv, Labels, TypeOK, Procs, Calls,
     OneBackfill, Live, Resting, FindMissing, data, local, past, Goto,
     WithoutCode
<1>5. ASSUME NEW s \in Starts, NEW u \in missing[s], Assign(s, u) PROVE OneBackfill'
  <2>1. UNCHANGED <<late, overlapped>>
    BY <1>5 DEF Assign
  <2>2. /\ \A r \in Starts : r # s => pc'[r] = pc[r] /\ missing'[r] = missing[r]
        /\ missing'[s] = missing[s] \/ missing'[s] = missing[s] \ {u}
        /\ missing'[s] = missing[s] => pc'[s] = "listening"
    BY <1>5 DEF Assign, Skip, Goto, CodesInv, TypeOK, Procs
  <2>3. ASSUME ~ overlapped, NEW r \in Starts, pc'[r] \notin Resting PROVE r = s
    BY <1>5, <2>2, <2>3 DEF Assign, CodesInv, OneBackfill, Resting
  <2>4. ASSUME ~ overlapped, pc'[s] \in {"floor", "next", "assign"}
        PROVE  /\ \A v \in missing'[s] : accounts'[v].code = 0
               /\ \A v \in late \cap Live' : accounts'[v].code = 0 => v \in missing'[s]
    <3>1. accounts' = IF u \in Live THEN [accounts EXCEPT ![u].code = given[s]]
                      ELSE accounts
      BY <1>5, <2>4 DEF Assign, Skip, Goto, CodesInv, TypeOK, Procs
    <3>2. /\ \A v \in missing[s] : accounts[v].code = 0
          /\ \A v \in late \cap Live : accounts[v].code = 0 => v \in missing[s]
      BY <1>5, <2>4 DEF Assign, CodesInv, OneBackfill
    <3>3. missing'[s] = missing[s] \ {u}
      BY <2>2, <2>4
    <3>4. u \in Live => accounts'[u].code = given[s] /\ given[s] # 0
      <4>1. given[s] \in Nat /\ given[s] # 0 /\ accounts \in Seq(Account)
        BY <1>5 DEF Assign, CodesInv, TypeOK, Procs, CounterHolds
      <4>2. SUFFICES ASSUME u \in Live PROVE accounts'[u].code = given[s]
        BY <4>1
      <4>3. u \in DOMAIN accounts
        BY <4>2 DEF Live
      <4>4. [accounts EXCEPT ![u].code = given[s]][u].code = given[s]
        BY <4>1, <4>3, Accounts DEF CodesInv, Account
      <4>5. QED
        BY <3>1, <4>2, <4>4
    <3>5. missing[s] \subseteq DOMAIN accounts
      BY DEF CodesInv, TypeOK
    <3>6. QED
      BY <1>5, <3>2, <3>3, <3>4, <3>5, AssignEffect DEF CodesInv, Live
  <2>5. QED
    BY <2>1, <2>3, <2>4 DEF OneBackfill, Resting
<1>6. ASSUME NEW s \in Starts, BackfillFails(s) PROVE OneBackfill'
  BY <1>6, MemberCodesAssumption DEF CodesInv, Labels, TypeOK, Procs, Calls,
     OneBackfill, Live, Resting, BackfillFails, data, local, past, Goto, Skip
<1>7. ASSUME NEW s \in Starts, Stop(s) PROVE OneBackfill'
  BY <1>7, MemberCodesAssumption DEF CodesInv, Labels, TypeOK, Procs, Calls,
     OneBackfill, Live, Resting, Stop, data, local, past, Goto
<1>8. ASSUME NEW c \in StaffCalls, Guard(c) PROVE OneBackfill'
  <2>1. UNCHANGED <<data, local, past>>
    BY <1>8 DEF Guard
  <2>2. \A s \in Starts : pc'[s] = pc[s]
    BY <1>8, MemberCodesAssumption DEF Guard, Goto, CodesInv, TypeOK, Procs, Calls
  <2>3. QED
    BY <2>1, <2>2 DEF CodesInv, OneBackfill, Live, data, local, past
<1>9. ASSUME NEW c \in Calls, Count(c) PROVE OneBackfill'
  BY <1>9, MemberCodesAssumption DEF CodesInv, Labels, TypeOK, Procs, Calls,
     OneBackfill, Live, Resting, Count, data, local, past, Goto
<1>10. ASSUME NEW c \in Calls, Create(c) PROVE OneBackfill'
  <2>1. UNCHANGED <<late, overlapped, missing>>
    BY <1>10 DEF Create, local
  <2>2. \A r \in Starts : pc'[r] = pc[r]
    BY <1>10, MemberCodesAssumption DEF Create, Goto, CodesInv, TypeOK, Procs
  <2>3. /\ \A v \in DOMAIN accounts : accounts'[v] = accounts[v]
        /\ Live' \cap DOMAIN accounts = Live
    BY <1>10, CreateEffect DEF CodesInv, Live
  <2>4. /\ late \subseteq DOMAIN accounts
        /\ \A r \in Starts : missing[r] \subseteq DOMAIN accounts
    BY DEF CodesInv, TypeOK
  <2>5. QED
    BY <2>1, <2>2, <2>3, <2>4 DEF CodesInv, OneBackfill
<1>11. ASSUME NEW p \in Procs, Floor(p) PROVE OneBackfill'
  BY <1>11, MemberCodesAssumption DEF CodesInv, Labels, TypeOK, Procs, Calls,
     OneBackfill, Live, Resting, Floor, data, local, past, Goto
<1>12. ASSUME NEW p \in Procs, NextCode(p) PROVE OneBackfill'
  BY <1>12, MemberCodesAssumption DEF CodesInv, Labels, TypeOK, Procs, Calls,
     OneBackfill, Live, Resting, NextCode, data, local, past, Goto
<1>13. ASSUME NEW u \in DOMAIN accounts, Delete(u) PROVE OneBackfill'
  <2>1. UNCHANGED <<late, overlapped, missing, pc>>
    BY <1>13 DEF Delete, local, past
  <2>2. Live' \subseteq Live /\ \A v \in DOMAIN accounts : accounts'[v].code = accounts[v].code
    BY <1>13, DeleteEffect DEF CodesInv
  <2>3. /\ late \subseteq DOMAIN accounts
        /\ \A r \in Starts : missing[r] \subseteq DOMAIN accounts
    BY DEF CodesInv, TypeOK
  <2>4. QED
    BY <2>1, <2>2, <2>3 DEF CodesInv, OneBackfill
<1>14. QED
  BY <1>1, <1>2, <1>3, <1>4, <1>5, <1>6, <1>7, <1>8, <1>9, <1>10, <1>11, <1>12,
     <1>13 DEF Next, Start, Register

\* The code to be written next is the highest one among the old accounts.
LEMMA AscendStep == CodesInv /\ [Next]_vars => CodesAscend'
<1> SUFFICES ASSUME CodesInv, [Next]_vars PROVE CodesAscend'
  OBVIOUS
<1>1. CASE UNCHANGED vars
  BY <1>1, MemberCodesAssumption DEF CodesInv, Labels, TypeOK, Procs, Calls,
     CodesAscend, vars, data, local, past
<1>2. ASSUME NEW s \in Starts, FindHighest(s) PROVE CodesAscend'
  BY <1>2, MemberCodesAssumption DEF CodesInv, Labels, TypeOK, Procs, Calls,
     CodesAscend, FindHighest, data, local, past, Goto
<1>3. ASSUME NEW s \in Starts, Sync(s) PROVE CodesAscend'
  BY <1>3, MemberCodesAssumption, MemberCodesAssumption, Accounts DEF CodesInv,
     Labels, TypeOK, Procs, Calls, CodesAscend, Sync, data, local, past, Goto,
     Higher
<1>4. ASSUME NEW s \in Starts, FindMissing(s) PROVE CodesAscend'
  BY <1>4, MemberCodesAssumption DEF CodesInv, Labels, TypeOK, Procs, Calls,
     CodesAscend, FindMissing, data, local, past, Goto
<1>5. ASSUME NEW s \in Starts, NEW u \in missing[s], Assign(s, u) PROVE CodesAscend'
  <2>1. UNCHANGED <<seq, given, late, overlapped>>
    BY <1>5 DEF Assign
  <2>2. pc'[s] # "assign" /\ \A r \in Starts : r # s => pc'[r] = pc[r]
    BY <1>5 DEF Assign, Skip, Goto, CodesInv, TypeOK, Procs
  <2>3. \A v \in late : accounts'[v].code = accounts[v].code \/ accounts'[v].code = given[s]
    BY <1>5, AssignEffect DEF CodesInv, TypeOK
  <2>4. given[s] <= seq
    BY DEF CodesInv, CounterHolds, Procs
  <2>5. ASSUME ~ overlapped, NEW r \in Starts, pc'[r] = "assign" PROVE FALSE
    BY <1>5, <2>2, <2>5 DEF Assign, CodesInv, OneBackfill, Resting
  <2>6. QED
    BY <2>1, <2>3, <2>4, <2>5 DEF CodesInv, CodesAscend
<1>6. ASSUME NEW s \in Starts, BackfillFails(s) PROVE CodesAscend'
  BY <1>6, MemberCodesAssumption DEF CodesInv, Labels, TypeOK, Procs, Calls,
     CodesAscend, BackfillFails, data, local, past, Goto, Skip
<1>7. ASSUME NEW s \in Starts, Stop(s) PROVE CodesAscend'
  BY <1>7, MemberCodesAssumption DEF CodesInv, Labels, TypeOK, Procs, Calls,
     CodesAscend, Stop, data, local, past, Goto
<1>8. ASSUME NEW c \in StaffCalls, Guard(c) PROVE CodesAscend'
  BY <1>8, MemberCodesAssumption DEF CodesInv, Labels, TypeOK, Procs, Calls,
     CodesAscend, Guard, data, local, past, Goto
<1>9. ASSUME NEW c \in Calls, Count(c) PROVE CodesAscend'
  BY <1>9, MemberCodesAssumption DEF CodesInv, Labels, TypeOK, Procs, Calls,
     CodesAscend, Count, data, local, past, Goto
<1>10. ASSUME NEW c \in Calls, Create(c) PROVE CodesAscend'
  <2>1. UNCHANGED <<late, overlapped, given, seq>>
    BY <1>10 DEF Create, local
  <2>2. \A r \in Starts : pc'[r] = pc[r]
    BY <1>10, MemberCodesAssumption DEF Create, Goto, CodesInv, TypeOK, Procs
  <2>3. \A v \in DOMAIN accounts : accounts'[v] = accounts[v]
    BY <1>10, CreateEffect DEF CodesInv
  <2>4. QED
    BY <2>1, <2>2, <2>3 DEF CodesInv, CodesAscend, TypeOK
<1>11. ASSUME NEW p \in Procs, Floor(p) PROVE CodesAscend'
  BY <1>11, MemberCodesAssumption, MemberCodesAssumption, Accounts DEF CodesInv,
     Labels, TypeOK, Procs, Calls, CodesAscend, Floor, data, local, past, Goto,
     Higher
<1>12. ASSUME NEW p \in Procs, NextCode(p) PROVE CodesAscend'
  <2>1. seq' = seq + 1 /\ seq \in Nat /\ UNCHANGED <<accounts, late, overlapped>>
    BY <1>12 DEF NextCode, past, CodesInv, TypeOK
  <2>2. \A r \in Starts : \/ pc'[r] = pc[r] /\ given'[r] = given[r]
                         \/ given'[r] = seq + 1
    BY <1>12, MemberCodesAssumption DEF NextCode, Goto, CodesInv, TypeOK, Procs
  <2>3. \A u \in late : accounts[u].code \in Nat
    BY Accounts DEF CodesInv, TypeOK
  <2>4. QED
    BY <2>1, <2>2, <2>3 DEF CodesInv, CodesAscend
<1>13. ASSUME NEW u \in DOMAIN accounts, Delete(u) PROVE CodesAscend'
  <2>1. UNCHANGED <<late, overlapped, given, seq, pc>>
    BY <1>13 DEF Delete, local, past
  <2>2. \A v \in DOMAIN accounts : accounts'[v].code = accounts[v].code
    BY <1>13, DeleteEffect DEF CodesInv
  <2>3. QED
    BY <2>1, <2>2 DEF CodesInv, CodesAscend, TypeOK
<1>14. QED
  BY <1>1, <1>2, <1>3, <1>4, <1>5, <1>6, <1>7, <1>8, <1>9, <1>10, <1>11, <1>12,
     <1>13 DEF Next, Start, Register

\* Old accounts are given codes in the order of their creation.
LEMMA OldestStep == CodesInv /\ [Next]_vars => OldestFirst'
<1> SUFFICES ASSUME CodesInv, [Next]_vars PROVE OldestFirst'
  OBVIOUS
<1>1. CASE UNCHANGED vars
  BY <1>1 DEF CodesInv, OldestFirst, vars, data, local, past
<1>2. ASSUME NEW s \in Starts, FindHighest(s) PROVE OldestFirst'
  BY <1>2 DEF CodesInv, OldestFirst, FindHighest, data, local, past, Goto
<1>3. ASSUME NEW s \in Starts, Sync(s) PROVE OldestFirst'
  BY <1>3 DEF CodesInv, OldestFirst, Sync, data, local, past, Goto
<1>4. ASSUME NEW s \in Starts, FindMissing(s) PROVE OldestFirst'
  BY <1>4 DEF CodesInv, OldestFirst, FindMissing, data, local, past, Goto
<1>5. ASSUME NEW s \in Starts, NEW u \in missing[s], Assign(s, u) PROVE OldestFirst'
  <2>1. UNCHANGED <<late, overlapped>> /\ late \subseteq DOMAIN accounts
    BY <1>5 DEF Assign, CodesInv, TypeOK
  <2>2. SUFFICES ASSUME ~ overlapped, NEW v \in late, NEW w \in late, v < w,
                        v \in Live, accounts'[w].code # 0
                 PROVE  accounts'[v].code \in 1..(accounts'[w].code - 1)
    BY <1>5, <2>1, AssignEffect DEF CodesInv, OldestFirst, Live
  <2>3. accounts[v].code \in Nat /\ accounts[w].code \in Nat /\ given[s] \in Nat
    BY <2>1, Accounts DEF CodesInv, TypeOK, Procs
  <2>4. accounts[w].code # 0 => accounts[v].code \in 1..(accounts[w].code - 1)
    BY <2>1, <2>2 DEF CodesInv, OldestFirst, Live
  <2>5. CASE w = u /\ accounts'[u].code = given[s]
    <3>1. v # u /\ accounts'[v].code = accounts[v].code
      <4>1. accounts \in Seq(Account)
        BY DEF CodesInv, TypeOK
      <4>2. v \in Nat /\ w \in Nat
        BY <2>1, <4>1, LenProperties
      <4>3. v # u
        BY <2>2, <2>5, <4>2
      <4>4. TypeOK
        BY DEF CodesInv
      <4>5. QED
        BY <1>5, <2>1, <4>3, <4>4, AssignEffect
    <3>2. v \notin missing[s]
      BY <1>5, <2>1, <2>2, <2>5 DEF Assign, Oldest, CodesInv, TypeOK
    <3>3. accounts[v].code # 0
      BY <1>5, <2>2, <3>2 DEF Assign, CodesInv, OneBackfill
    <3>4. accounts[v].code < given[s]
      BY <1>5, <2>2 DEF Assign, CodesInv, CodesAscend
    <3>5. QED
      BY <2>3, <2>5, <3>1, <3>3, <3>4
  <2>6. CASE w # u \/ accounts'[u].code = accounts[u].code
    <3>1. accounts'[w].code = accounts[w].code
      BY <1>5, <2>1, <2>6, AssignEffect DEF CodesInv
    <3>2. accounts[v].code # 0
      BY <2>2, <2>3, <2>4, <3>1
    <3>3. v # u
      BY <1>5, <2>2, <3>2 DEF Assign, CodesInv, OneBackfill
    <3>4. accounts'[v].code = accounts[v].code
      BY <1>5, <2>1, <3>3, AssignEffect DEF CodesInv
    <3>5. QED
      BY <2>2, <2>4, <3>1, <3>4
  <2>7. QED
    BY <1>5, <2>5, <2>6, AssignEffect DEF CodesInv
<1>6. ASSUME NEW s \in Starts, BackfillFails(s) PROVE OldestFirst'
  BY <1>6 DEF CodesInv, OldestFirst, BackfillFails, data, local, past, Goto,
     Skip
<1>7. ASSUME NEW s \in Starts, Stop(s) PROVE OldestFirst'
  BY <1>7 DEF CodesInv, OldestFirst, Stop, data, local, past, Goto
<1>8. ASSUME NEW c \in StaffCalls, Guard(c) PROVE OldestFirst'
  BY <1>8 DEF CodesInv, OldestFirst, Guard, data, local, past, Goto
<1>9. ASSUME NEW c \in Calls, Count(c) PROVE OldestFirst'
  BY <1>9 DEF CodesInv, OldestFirst, Count, data, local, past, Goto
<1>10. ASSUME NEW c \in Calls, Create(c) PROVE OldestFirst'
  <2>1. UNCHANGED <<late, overlapped>> /\ late \subseteq DOMAIN accounts
    BY <1>10 DEF Create, local, CodesInv, TypeOK
  <2>2. \A v \in DOMAIN accounts : accounts'[v] = accounts[v]
    BY <1>10, CreateEffect DEF CodesInv
  <2>3. QED
    BY <2>1, <2>2 DEF CodesInv, OldestFirst
<1>11. ASSUME NEW p \in Procs, Floor(p) PROVE OldestFirst'
  BY <1>11 DEF CodesInv, OldestFirst, Floor, data, local, past, Goto
<1>12. ASSUME NEW p \in Procs, NextCode(p) PROVE OldestFirst'
  BY <1>12 DEF CodesInv, OldestFirst, NextCode, data, local, past, Goto
<1>13. ASSUME NEW u \in DOMAIN accounts, Delete(u) PROVE OldestFirst'
  <2>1. UNCHANGED <<late, overlapped>> /\ late \subseteq DOMAIN accounts
    BY <1>13 DEF Delete, local, past, CodesInv, TypeOK
  <2>2. \A v \in DOMAIN accounts : accounts'[v].code = accounts[v].code
    BY <1>13, DeleteEffect DEF CodesInv
  <2>3. \A v \in DOMAIN accounts : ~ accounts'[v].gone => ~ accounts[v].gone
    BY <1>13, DeleteEffect DEF CodesInv, Live
  <2>4. QED
    BY <2>1, <2>2, <2>3 DEF CodesInv, OldestFirst
<1>14. QED
  BY <1>1, <1>2, <1>3, <1>4, <1>5, <1>6, <1>7, <1>8, <1>9, <1>10, <1>11, <1>12,
     <1>13 DEF Next, Start, Register

\* The invariant holds at the start.
LEMMA InitHolds == Init => CodesInv
<1> SUFFICES ASSUME Init PROVE CodesInv
  OBVIOUS
<1>1. TypeOK
  <2>1. accounts \in Seq(Account) /\ handed \in Seq(Nat)
    BY EmptySeq, MemberCodesAssumption DEF Init
  <2>2. QED
    BY <2>1 DEF Init, TypeOK, Procs, Resting
<1>2. /\ Labels /\ CounterHolds /\ NoneShared /\ HandedBelow /\ NoneGivenTwice
      /\ Served /\ CodeIsFree
  BY DEF Init, Labels, CounterHolds, NoneShared, HandedBelow, NoneGivenTwice, Served,
     CodeIsFree, Procs, Calls
<1>3. CounterAhead /\ OneBackfill
  BY DEF Init, CounterAhead, Synced, OneBackfill, Resting, Procs
<1>4. CodesAscend
  BY DEF Init, CodesAscend, Procs
<1>5. OldestFirst
  BY DEF Init, OldestFirst
<1>6. FirstIsAdmin
  BY DEF Init, FirstIsAdmin, Procs, Calls
<1>7. QED
  BY <1>1, <1>2, <1>3, <1>4, <1>5, <1>6 DEF CodesInv

\* CodesInv is an invariant: codes, counter and roles stay in step whoever
\* registers and however many servers start, stop or skip their backfill.
THEOREM CodesInvariant == Spec => []CodesInv
<1>1. CodesInv /\ [Next]_vars => CodesInv'
  BY TypeStep, LabelsStep, CounterStep, HandedStep, ServedStep, AheadStep, FreeStep,
     FirstStep,
     OneStep, AscendStep, OldestStep DEF CodesInv
<1>2. QED
  BY InitHolds, <1>1, PTL DEF Spec

\* The variables keep to their types.
THEOREM CodesTypeCorrect == Spec => []TypeOK
<1>1. CodesInv => TypeOK
  BY DEF CodesInv
<1>2. QED
  BY CodesInvariant, <1>1, PTL

\* getNextMemberCode gives no code twice, to nobody and at no time.
THEOREM NoneGivenTwiceHolds == Spec => []NoneGivenTwice
<1>1. CodesInv => NoneGivenTwice
  BY DEF CodesInv
<1>2. QED
  BY CodesInvariant, <1>1, PTL

\* A code about to be written is nobody's, unless a backfill was skipped.
THEOREM CodeIsFreeHolds == Spec => []CodeIsFree
<1>1. CodesInv => CodeIsFree
  BY DEF CodesInv
<1>2. QED
  BY CodesInvariant, <1>1, PTL

\* Backfills that do not overlap number the old accounts in their order.
THEOREM OldestFirstHolds == Spec => []OldestFirst
<1>1. CodesInv => OldestFirst
  BY DEF CodesInv
<1>2. QED
  BY CodesInvariant, <1>1, PTL

\* An account of the back office, or an old one with an admin, came first or
\* the shop did.
THEOREM AdminExistsHolds == Spec => []AdminExists
<1>1. CodesInv => AdminExists
  <2>1. Live # {} => accounts # << >>
    BY DEF Live
  <2>2. QED
    BY <2>1 DEF CodesInv, TypeOK, FirstIsAdmin, AdminExists
<1>2. QED
  BY CodesInvariant, <1>1, PTL

\* Only an overlapping backfill replaces the code of a member.
THEOREM CodeIsKeptHolds == Spec => CodeIsKept
<1> DEFINE Kept == \A u \in Live : accounts[u].code # 0 =>
                     accounts'[u].code = accounts[u].code \/ overlapped
<1>1. CodesInv /\ [Next]_vars => [Kept]_vars
  <2> SUFFICES ASSUME CodesInv, [Next]_vars PROVE Kept
    OBVIOUS
  <2>1. CASE UNCHANGED vars
    BY <2>1 DEF CodesInv, Live, vars, data, local, past
  <2>2. ASSUME NEW s \in Starts, FindHighest(s) PROVE Kept
    BY <2>2 DEF CodesInv, Live, FindHighest, data, local, past, Goto
  <2>3. ASSUME NEW s \in Starts, Sync(s) PROVE Kept
    BY <2>3 DEF CodesInv, Live, Sync, data, local, past, Goto
  <2>4. ASSUME NEW s \in Starts, FindMissing(s) PROVE Kept
    BY <2>4 DEF CodesInv, Live, FindMissing, data, local, past, Goto
  <2>5. ASSUME NEW s \in Starts, NEW u \in missing[s], Assign(s, u) PROVE Kept
    <3>1. SUFFICES ASSUME NEW v \in Live, accounts[v].code # 0, ~ overlapped
                   PROVE  accounts'[v].code = accounts[v].code
      OBVIOUS
    <3>2. v # u
      BY <2>5, <3>1 DEF Assign, CodesInv, OneBackfill
    <3>3. QED
      BY <2>5, <3>1, <3>2, AssignEffect DEF CodesInv, Live
  <2>6. ASSUME NEW s \in Starts, BackfillFails(s) PROVE Kept
    BY <2>6 DEF CodesInv, Live, BackfillFails, data, local, past, Goto, Skip
  <2>7. ASSUME NEW s \in Starts, Stop(s) PROVE Kept
    BY <2>7 DEF CodesInv, Live, Stop, data, local, past, Goto
  <2>8. ASSUME NEW c \in StaffCalls, Guard(c) PROVE Kept
    BY <2>8 DEF CodesInv, Live, Guard, data, local, past, Goto
  <2>9. ASSUME NEW c \in Calls, Count(c) PROVE Kept
    BY <2>9 DEF CodesInv, Live, Count, data, local, past, Goto
  <2>10. ASSUME NEW c \in Calls, Create(c) PROVE Kept
    BY <2>10, CreateEffect DEF CodesInv, Live
  <2>11. ASSUME NEW p \in Procs, Floor(p) PROVE Kept
    BY <2>11 DEF CodesInv, Live, Floor, data, local, past, Goto
  <2>12. ASSUME NEW p \in Procs, NextCode(p) PROVE Kept
    BY <2>12 DEF CodesInv, Live, NextCode, data, local, past, Goto
  <2>13. ASSUME NEW u \in DOMAIN accounts, Delete(u) PROVE Kept
    BY <2>13, DeleteEffect DEF CodesInv, Live
  <2>14. QED
    BY <2>1, <2>2, <2>3, <2>4, <2>5, <2>6, <2>7, <2>8, <2>9, <2>10, <2>11,
       <2>12,
       <2>13 DEF Next, Start, Register
<1>2. QED
  BY <1>1, CodesInvariant, PTL DEF Spec, CodeIsKept
------------------------------------------------------------------------------
(* The address of an account and its links *)

Mail(n) == [to : Addresses, token : 1..n]
Copies(n) == [email : Addresses, verified : BOOLEAN, stored : BOOLEAN, token : 0..n]

\* Mails stay mails as more tokens are made.
LEMMA MailsGrow ==
  ASSUME NEW n \in Nat, NEW k \in Nat, n <= k, NEW s \in Seq(Mail(n))
  PROVE  s \in Seq(Mail(k))
<1>1. Mail(n) \subseteq Mail(k)
  BY DEF Mail
<1>2. QED
  BY <1>1

\* What is known of every mail.
LEMMA Mails ==
  ASSUME EmailTypeOK
  PROVE  /\ mails \in Seq(Mail(minted))
         /\ \A i \in DOMAIN mails : mails[i].to \in Addresses /\ mails[i].token \in 1..minted
<1>1. mails \in Seq(Mail(minted))
  BY DEF EmailTypeOK, Mail
<1>2. \A i \in DOMAIN mails : mails[i] \in Mail(minted)
  BY <1>1, ElementOfSeq
<1>3. QED
  BY <1>1, <1>2 DEF Mail

\* What sending a mail adds to the mails.
LEMMA MailSent ==
  ASSUME EmailTypeOK, NEW mail \in Mail(minted)
  PROVE  /\ Append(mails, mail) \in Seq(Mail(minted))
         /\ Len(Append(mails, mail)) = Len(mails) + 1
         /\ Len(mails) + 1 \in DOMAIN Append(mails, mail)
         /\ Append(mails, mail)[Len(mails) + 1] = mail
         /\ \A i \in DOMAIN Append(mails, mail) :
              (i \in DOMAIN mails /\ Append(mails, mail)[i] = mails[i])
              \/ Append(mails, mail)[i] = mail
  BY Mails, AppendProperties, LenProperties

\* What every call has read has the type of the account.
LEMMA Reading ==
  ASSUME EmailTypeOK, NEW address \in Addresses, NEW link \in 0..minted
  PROVE  /\ Seen(address, link) \in Copies(minted)
         /\ \A value \in BOOLEAN : Saved(address, value, link) \in Copies(minted)
  BY DEF EmailTypeOK, Seen, Saved, Copies

LEMMA TheCopies == EmailTypeOK => copy \in [EmailCalls -> Copies(minted)]
  BY DEF EmailTypeOK, Copies

\* What a save does to the calls.
LEMMA IssuerGoes ==
  ASSUME TokensInv, NEW c \in Issuers, SaveEmail(c) \/ SaveToken(c)
  PROVE  /\ c \in EmailCalls /\ at[c] \in {"email", "issue"}
         /\ UNCHANGED mails /\ crossed \subseteq crossed'
         /\ \A d \in EmailCalls \ {c} : at'[d] = at[d] /\ copy'[d] = copy[d]
         /\ \/ at'[c] = "rejected" /\ UNCHANGED <<verified, stored, copy>>
            \/ /\ stored' = TRUE /\ copy'[c].stored = TRUE
               /\ copy'[c].verified = copy[c].verified \/ copy'[c].verified = FALSE
<1>1. /\ c \in EmailCalls /\ at \in [EmailCalls -> Ended \cup {"new", "email", "issue",
                                                            "mail", "verify", "save"}]
      /\ copy \in [EmailCalls -> Copies(minted)]
  BY TheCopies DEF TokensInv, EmailTypeOK, EmailCalls
<1>2. CASE SaveToken(c)
  BY <1>1, <1>2 DEF SaveToken, Go, Write, Saved
<1>3. CASE SaveEmail(c)
  <2>1. CASE Go(c, "rejected") /\ UNCHANGED <<email, verified, stored, copy, crossed>>
    BY <1>1, <1>3, <2>1 DEF SaveEmail, Go
  <2>2. CASE ~ (Go(c, "rejected") /\ UNCHANGED <<email, verified, stored, copy, crossed>>)
    BY <1>1, <1>3, <2>2 DEF SaveEmail, Go, Write, Cross, Saved
  <2>3. QED
    BY <2>1, <2>2
<1>4. QED
  BY <1>2, <1>3

\* A resend or a change never verifies anybody, and leaves the account unverified
\* that was verified only if it read it before it had the field: which it cannot
\* have done when links are issued one at a time.
LEMMA IssuerWrites ==
  ASSUME TokensInv, NEW c \in Issuers, SaveEmail(c) \/ SaveToken(c)
  PROVE  /\ verified' \in BOOLEAN /\ stored' \in BOOLEAN
         /\ verified' => verified
         /\ ~ copy[c].stored \/ (verified <=> verified')
         /\ "issues" \notin crossed => (verified <=> verified')
         /\ stored => stored'
<1>1. /\ copy[c].stored \in BOOLEAN /\ copy[c].verified = FALSE
      /\ verified \in BOOLEAN /\ stored \in BOOLEAN /\ c \in UnderWay(Issuers)
  BY DEF TokensInv, EmailTypeOK, EmailCalls, ReadUnverified, SaveEmail, SaveToken,
     UnderWay, Ended
<1>2. ("issues" \notin crossed /\ ~ copy[c].stored) => ~ verified
  BY <1>1 DEF TokensInv, NotSavedYet, NoLinkYet
<1>3. CASE verified' = verified /\ stored' = stored
  BY <1>1, <1>3, Zenon
<1>4. CASE copy[c].stored /\ verified' = verified /\ stored' = TRUE
  BY <1>1, <1>4, Zenon
<1>5. CASE ~ copy[c].stored /\ verified' = FALSE /\ stored' = TRUE
  BY <1>1, <1>2, <1>5, Zenon
<1>6. QED
  BY <1>1, <1>3, <1>4, <1>5 DEF SaveEmail, SaveToken, Write

\* What a call that is about something else does: nothing that an issuer or a link
\* would see, unless it undoes a verification.
LEMMA OthersGo ==
  ASSUME TokensInv, NEW c \in Others, Load(c) \/ SaveOther(c)
  PROVE  /\ c \in EmailCalls /\ c \notin Issuers /\ c \notin Opens
         /\ at[c] \in {"new", "save"} /\ at'[c] \in {"save", "done"} /\ at'[c] # at[c]
         /\ UNCHANGED <<email, token, expired, minted, mails, proven>>
         /\ \A d \in EmailCalls \ {c} : at'[d] = at[d] /\ copy'[d] = copy[d]
         /\ UnderWay(Issuers)' = UnderWay(Issuers) /\ UnderWay(Changes)' = UnderWay(Changes)
         /\ crossed' \in {crossed, crossed \cup {"save"}}
         /\ verified' \in BOOLEAN /\ stored' \in BOOLEAN
         /\ (verified' => verified) /\ (stored => stored')
         /\ "save" \notin crossed' => (verified' <=> verified)
         /\ (verified /\ ~ verified') => at[c] = "save" /\ ~ copy[c].stored
<1>1. /\ c \in EmailCalls /\ c \notin Issuers /\ c \notin Opens
      /\ at \in [EmailCalls -> Ended \cup {"new", "email", "issue", "mail", "verify", "save"}]
      /\ copy \in [EmailCalls -> Copies(minted)]
      /\ verified \in BOOLEAN /\ stored \in BOOLEAN
  BY TheCopies, EmailTokensAssumption DEF TokensInv, EmailTypeOK, EmailCalls
<1>2. /\ at[c] \in {"new", "save"} /\ at'[c] \in {"save", "done"} /\ at'[c] # at[c]
      /\ UNCHANGED <<email, token, expired, minted, mails, proven>>
      /\ \A d \in EmailCalls \ {c} : at'[d] = at[d] /\ copy'[d] = copy[d]
      /\ crossed' \in {crossed, crossed \cup {"save"}}
  BY <1>1 DEF Load, SaveOther, Go, Cross
<1>3. UnderWay(Issuers)' = UnderWay(Issuers) /\ UnderWay(Changes)' = UnderWay(Changes)
  BY <1>1, <1>2 DEF UnderWay, EmailCalls, Issuers
<1>4. /\ verified' \in BOOLEAN /\ stored' \in BOOLEAN
      /\ (verified' => verified) /\ (stored => stored')
      /\ "save" \notin crossed' => (verified' <=> verified)
      /\ (verified /\ ~ verified') => at[c] = "save" /\ ~ copy[c].stored
  <2>1. CASE Load(c)
    BY <1>1, <2>1 DEF Load
  <2>2. CASE SaveOther(c)
    <3>1. ~ copy[c].stored => ~ copy[c].verified
      BY DEF TokensInv, ReadUnverified
    <3>2. /\ at[c] = "save" /\ stored' = TRUE
          /\ verified /\ ~ copy[c].stored => "save" \in crossed'
      BY <2>2 DEF SaveOther, Write, Cross
    <3>3. CASE verified' = verified
      BY <1>1, <3>2, <3>3, Zenon
    <3>4. CASE ~ copy[c].stored /\ verified' = copy[c].verified
      <4>1. copy[c].verified = FALSE
        BY <1>1, <3>1, <3>4 DEF Copies
      <4>2. QED
        BY <1>1, <3>2, <3>4, <4>1, Zenon
    <3>5. QED
      BY <2>2, <3>3, <3>4 DEF SaveOther, Write
  <2>3. QED
    BY <2>1, <2>2
<1>5. QED
  BY <1>1, <1>2, <1>3, <1>4

\* Every step keeps the variables within their types.
LEMMA EmailTypeStep == TokensInv /\ [EmailNext]_emailVars => EmailTypeOK'
<1> SUFFICES ASSUME TokensInv, [EmailNext]_emailVars PROVE EmailTypeOK'
  OBVIOUS
<1>1. CASE UNCHANGED emailVars
  BY <1>1 DEF TokensInv, EmailTypeOK, emailVars
<1>2. ASSUME NEW c \in Issuers, Read(c) PROVE EmailTypeOK'
  <2>1. copy' \in [EmailCalls -> Copies(minted)]
    <3>1. EmailTypeOK /\ email \in Addresses /\ 0 \in 0..minted
      BY DEF TokensInv, EmailTypeOK
    <3>2. Seen(email, 0) \in Copies(minted)
      BY <3>1, Reading
    <3>3. QED
      BY <1>2, <3>1, <3>2, TheCopies DEF Read
  <2>2. at' \in [EmailCalls -> Ended \cup {"new", "email", "issue", "mail", "verify", "save"}]
    BY <1>2 DEF Read, Go, TokensInv, EmailTypeOK, Ended
  <2>3. crossed' \subseteq {"issues", "change", "link", "mail", "save"}
    BY <1>2 DEF Read, TokensInv, EmailTypeOK
  <2>4. QED
    BY <1>2, <2>1, <2>2, <2>3 DEF Read, TokensInv, EmailTypeOK, Copies
<1>3. ASSUME NEW c \in Changes, SaveEmail(c) PROVE EmailTypeOK'
  <2>1. copy' \in [EmailCalls -> Copies(minted)]
    <3>1. copy \in [EmailCalls -> Copies(minted)]
      BY TheCopies DEF TokensInv
    <3>2. \A address \in Addresses : Saved(address, copy[c].verified, 0) \in Copies(minted)
      <4>1. EmailTypeOK /\ copy[c].verified \in BOOLEAN /\ 0 \in 0..minted
        BY <3>1 DEF TokensInv, EmailTypeOK, EmailCalls, Issuers
      <4>2. QED
        BY <4>1, Reading
    <3>3. QED
      BY <1>3, <3>1, <3>2 DEF SaveEmail
  <2>2. at' \in [EmailCalls -> Ended \cup {"new", "email", "issue", "mail", "verify", "save"}]
    BY <1>3 DEF SaveEmail, Go, TokensInv, EmailTypeOK, Ended
  <2>3. email' \in Addresses /\ crossed' \subseteq {"issues", "change", "link", "mail", "save"}
    BY <1>3 DEF SaveEmail, Cross, TokensInv, EmailTypeOK
  <2>4. QED
    BY <1>3, <2>1, <2>2, <2>3, IssuerWrites DEF SaveEmail, TokensInv, EmailTypeOK, Copies,
       Issuers
<1>4. ASSUME NEW c \in Issuers, SaveToken(c) PROVE EmailTypeOK'
  <2>1. minted' = minted + 1 /\ minted \in Nat /\ mails' = mails
    BY <1>4 DEF SaveToken, TokensInv, EmailTypeOK
  <2>2. mails' \in Seq(Mail(minted'))
    BY <2>1, Mails, MailsGrow DEF TokensInv
  <2>3. copy' \in [EmailCalls -> Copies(minted')]
    <3>1. copy \in [EmailCalls -> Copies(minted)]
      BY TheCopies DEF TokensInv
    <3>2. Saved(copy[c].email, FALSE, minted') \in Copies(minted')
      BY <2>1, <3>1 DEF Copies, Saved, EmailCalls
    <3>3. \A d \in EmailCalls : copy[d] \in Copies(minted')
      BY <2>1, <3>1 DEF Copies
    <3>4. QED
      BY <1>4, <3>1, <3>2, <3>3 DEF SaveToken
  <2>4. at' \in [EmailCalls -> Ended \cup {"new", "email", "issue", "mail", "verify", "save"}]
    BY <1>4 DEF SaveToken, Go, TokensInv, EmailTypeOK
  <2>5. mails' \in Seq([to : Addresses, token : 1..minted'])
    BY <2>2 DEF Mail
  <2>6. /\ email' \in Addresses /\ verified' \in BOOLEAN /\ stored' \in BOOLEAN
        /\ expired' \in BOOLEAN
        /\ minted' \in Nat /\ token' \in 0..minted' /\ proven' \subseteq Addresses
        /\ crossed' \subseteq {"issues", "change", "link", "mail", "save"}
    <3>1. verified' \in BOOLEAN /\ stored' \in BOOLEAN /\ expired' \in BOOLEAN
      BY <1>4, IssuerWrites, Zenon DEF SaveToken
    <3>2. token' = minted' /\ email' = email /\ proven' = proven /\ crossed' = crossed
      BY <1>4 DEF SaveToken
    <3>3. minted' \in Nat /\ token' \in 0..minted'
      BY <2>1, <3>2
    <3>4. /\ email' \in Addresses /\ proven' \subseteq Addresses
          /\ crossed' \subseteq {"issues", "change", "link", "mail", "save"}
      BY <3>2 DEF TokensInv, EmailTypeOK
    <3>5. QED
      BY <3>1, <3>3, <3>4, Zenon
  <2>7. QED
    BY <2>3, <2>4, <2>5, <2>6, Zenon DEF EmailTypeOK, Copies
<1>5. ASSUME NEW c \in Issuers, SendMail(c) PROVE EmailTypeOK'
  <2> DEFINE mail == [to |-> copy[c].email, token |-> copy[c].token]
  <2>1. mail \in Mail(minted)
    BY <1>5 DEF SendMail, TokensInv, EmailTypeOK, EmailLabels, EmailCalls, Mail
  <2>2. mails' \in Seq(Mail(minted))
    BY <1>5, <2>1, Mails, MailSent DEF SendMail, TokensInv
  <2>3. at' \in [EmailCalls -> Ended \cup {"new", "email", "issue", "mail", "verify", "save"}]
    BY <1>5 DEF SendMail, Go, TokensInv, EmailTypeOK, Ended
  <2>4. QED
    BY <1>5, <2>2, <2>3 DEF SendMail, Cross, TokensInv, EmailTypeOK, Mail
<1>6. ASSUME NEW c \in Opens, FindToken(c) PROVE EmailTypeOK'
  <2>1. PICK i \in DOMAIN mails :
          /\ copy' = [copy EXCEPT ![c] = Seen(mails[i].to, mails[i].token)]
          /\ Go(c, IF mails[i].token = token /\ ~ expired THEN "verify" ELSE "rejected")
    BY <1>6 DEF FindToken
  <2>2. mails[i].to \in Addresses /\ mails[i].token \in 0..minted
    BY Mails DEF TokensInv, EmailTypeOK
  <2>3. copy' \in [EmailCalls -> Copies(minted)]
    BY <2>1, <2>2, Reading, TheCopies DEF TokensInv
  <2>4. at' \in [EmailCalls -> Ended \cup {"new", "email", "issue", "mail", "verify", "save"}]
    BY <2>1 DEF Go, TokensInv, EmailTypeOK, Ended
  <2>5. QED
    BY <1>6, <2>3, <2>4 DEF FindToken, Cross, TokensInv, EmailTypeOK, Copies
<1>7. ASSUME NEW c \in Opens, SaveVerified(c) PROVE EmailTypeOK'
  <2>1. at' \in [EmailCalls -> Ended \cup {"new", "email", "issue", "mail", "verify", "save"}]
    BY <1>7 DEF SaveVerified, Go, TokensInv, EmailTypeOK, Ended
  <2>2. crossed' \subseteq {"issues", "change", "link", "mail", "save"}
    BY <1>7 DEF SaveVerified, Cross, TokensInv, EmailTypeOK
  <2>3. copy[c].email \in Addresses /\ minted \in Nat
    BY DEF TokensInv, EmailTypeOK, EmailCalls
  <2>4. /\ email' \in Addresses /\ verified' \in BOOLEAN /\ stored' \in BOOLEAN
        /\ expired' \in BOOLEAN
        /\ minted' \in Nat /\ token' \in 0..minted' /\ proven' \subseteq Addresses
    <3>1. verified' \in BOOLEAN /\ stored' \in BOOLEAN /\ expired' \in BOOLEAN
      BY <1>7, Zenon DEF SaveVerified, Write, TokensInv, EmailTypeOK
    <3>2. /\ token' = 0 /\ minted' = minted /\ email' = email
          /\ proven' = proven \cup {copy[c].email}
      BY <1>7 DEF SaveVerified
    <3>3. minted' \in Nat /\ token' \in 0..minted'
      BY <2>3, <3>2
    <3>4. email' \in Addresses /\ proven' \subseteq Addresses
      BY <2>3, <3>2 DEF TokensInv, EmailTypeOK
    <3>5. QED
      BY <3>1, <3>3, <3>4, Zenon
  <2>5. /\ mails' \in Seq([to : Addresses, token : 1..minted'])
        /\ copy' \in [EmailCalls -> Copies(minted')]
    BY <1>7, TheCopies DEF SaveVerified, TokensInv, EmailTypeOK
  <2>6. QED
    BY <2>1, <2>2, <2>4, <2>5, Zenon DEF EmailTypeOK, Copies
<1>8. CASE Expire
  BY <1>8 DEF TokensInv, EmailTypeOK, Expire
<1>9. ASSUME NEW c \in Others, Load(c) \/ SaveOther(c) PROVE EmailTypeOK'
  <2>1. copy' \in [EmailCalls -> Copies(minted)]
    <3>1. EmailTypeOK /\ email \in Addresses /\ 0 \in 0..minted
      BY DEF TokensInv, EmailTypeOK
    <3>2. Seen(email, 0) \in Copies(minted)
      BY <3>1, Reading
    <3>3. QED
      BY <1>9, <3>1, <3>2, TheCopies DEF Load, SaveOther
  <2>2. at' \in [EmailCalls -> Ended \cup {"new", "email", "issue", "mail", "verify", "save"}]
    BY <1>9 DEF Load, SaveOther, Go, TokensInv, EmailTypeOK, Ended
  <2>3. crossed' \subseteq {"issues", "change", "link", "mail", "save"}
    BY <1>9, OthersGo DEF TokensInv, EmailTypeOK
  <2>4. verified' \in BOOLEAN /\ stored' \in BOOLEAN
    BY <1>9, OthersGo
  <2>5. UNCHANGED <<email, token, expired, minted, mails, proven>>
    BY <1>9, OthersGo
  <2>6. QED
    BY <2>1, <2>2, <2>3, <2>4, <2>5 DEF TokensInv, EmailTypeOK, Copies
<1>10. QED
  BY <1>1, <1>2, <1>3, <1>4, <1>5, <1>6, <1>7, <1>8, <1>9 DEF EmailNext, Issue, Open

\* Calls keep to their own labels, and mail a token they have made.
LEMMA EmailLabelsStep == TokensInv /\ [EmailNext]_emailVars => EmailLabels'
<1> SUFFICES ASSUME TokensInv, [EmailNext]_emailVars PROVE EmailLabels'
  OBVIOUS
<1>1. CASE UNCHANGED emailVars
  BY <1>1, EmailTokensAssumption DEF TokensInv, EmailLabels, emailVars
<1>2. ASSUME NEW c \in Issuers, Read(c) PROVE EmailLabels'
  <2>1. at'[c] \in {"rejected", "issue"} \cup (IF c \in Changes THEN {"email"} ELSE {})
    BY <1>2 DEF Read, Go, TokensInv, EmailTypeOK, EmailCalls
  <2>2. \A d \in EmailCalls : d # c => at'[d] = at[d] /\ copy'[d] = copy[d]
    BY <1>2 DEF Read, Go
  <2>3. QED
    BY <2>1, <2>2, EmailTokensAssumption DEF TokensInv, EmailLabels, EmailCalls,
       Ended
<1>3. ASSUME NEW c \in Changes, SaveEmail(c) PROVE EmailLabels'
  BY <1>3, EmailTokensAssumption DEF TokensInv, EmailLabels, EmailTypeOK,
     EmailCalls, Ended,
     SaveEmail, Go
<1>4. ASSUME NEW c \in Issuers, SaveToken(c) PROVE EmailLabels'
  <2>1. at'[c] = "mail" /\ copy'[c].token # 0
    BY <1>4 DEF SaveToken, Go, Saved, TokensInv, EmailTypeOK, EmailCalls
  <2>2. \A d \in EmailCalls : d # c => at'[d] = at[d] /\ copy'[d] = copy[d]
    BY <1>4 DEF SaveToken, Go
  <2>3. QED
    BY <2>1, <2>2, EmailTokensAssumption DEF TokensInv, EmailLabels, EmailCalls,
       Ended
<1>5. ASSUME NEW c \in Issuers, SendMail(c) PROVE EmailLabels'
  BY <1>5, EmailTokensAssumption DEF TokensInv, EmailLabels, Ended, SendMail, Go
<1>6. ASSUME NEW c \in Opens, FindToken(c) PROVE EmailLabels'
  <2>1. at'[c] \in {"verify", "rejected"} /\ \A d \in EmailCalls : d # c => at'[d] = at[d]
    BY <1>6 DEF FindToken, Go, TokensInv, EmailTypeOK, EmailCalls
  <2>2. \A d \in EmailCalls : d # c => copy'[d] = copy[d]
    BY <1>6 DEF FindToken, TokensInv, EmailTypeOK, EmailCalls
  <2>3. \A d \in Issuers \cup Others : at'[d] = at[d] /\ copy'[d] = copy[d]
    BY <2>1, <2>2, EmailTokensAssumption DEF EmailCalls
  <2>4. \A o \in Opens \ {c} : at'[o] = at[o]
    BY <2>1 DEF EmailCalls
  <2>5. \A o \in Opens : at'[o] \in Ended \cup {"new", "verify"}
    BY <2>1, <2>4 DEF TokensInv, EmailLabels, Ended
  <2>6. QED
    BY <2>3, <2>5 DEF TokensInv, EmailLabels
<1>7. ASSUME NEW c \in Opens, SaveVerified(c) PROVE EmailLabels'
  BY <1>7, EmailTokensAssumption DEF TokensInv, EmailLabels, Ended,
     SaveVerified,
     Go
<1>8. CASE Expire
  BY <1>8, EmailTokensAssumption DEF TokensInv, EmailLabels, Expire
<1>9. ASSUME NEW c \in Others, Load(c) \/ SaveOther(c) PROVE EmailLabels'
  BY <1>9, OthersGo DEF TokensInv, EmailLabels, EmailCalls, Ended
<1>10. QED
  BY <1>1, <1>2, <1>3, <1>4, <1>5, <1>6, <1>7, <1>8, <1>9 DEF EmailNext, Issue, Open

\* A change that crosses with another issuer is noticed.
LEMMA AloneStep == TokensInv /\ [EmailNext]_emailVars => ChangesAlone'
<1> SUFFICES ASSUME TokensInv, [EmailNext]_emailVars PROVE ChangesAlone'
  OBVIOUS
<1>1. CASE UNCHANGED emailVars
  BY <1>1, EmailTokensAssumption DEF TokensInv, ChangesAlone, emailVars,
     UnderWay
<1>2. ASSUME NEW c \in Issuers, Read(c) PROVE ChangesAlone'
  BY <1>2, EmailTokensAssumption DEF TokensInv, EmailTypeOK, ChangesAlone, Read,
     Go, Seen, UnderWay
<1>3. ASSUME NEW c \in Changes, SaveEmail(c) PROVE ChangesAlone'
  <2> SUFFICES ASSUME "change" \notin crossed'
               PROVE  /\ \A g \in UnderWay(Changes)' : UnderWay(Issuers)' = {g}
                      /\ \A d \in UnderWay(Issuers)' : copy'[d].email = email'
    BY DEF ChangesAlone
  <2>1. /\ c \in EmailCalls /\ c \in Issuers /\ at[c] = "email"
        /\ at \in [EmailCalls -> Ended \cup {"new", "email", "issue", "mail", "verify", "save"}]
        /\ copy \in [EmailCalls -> Copies(minted)]
    BY <1>3 DEF SaveEmail, TokensInv, EmailTypeOK, EmailCalls, Issuers, Copies
  <2>2. "change" \notin crossed
    BY <1>3 DEF SaveEmail, Cross
  <2>3. c \in UnderWay(Changes)
    BY <2>1 DEF UnderWay, Ended
  <2>4. UnderWay(Issuers) = {c} /\ UnderWay(Changes) = {c} /\ copy[c].email = email
    <3>1. UnderWay(Issuers) = {c} /\ copy[c].email = email
      BY <2>2, <2>3 DEF TokensInv, ChangesAlone
    <3>2. UnderWay(Changes) \subseteq UnderWay(Issuers)
      BY DEF UnderWay, Issuers
    <3>3. QED
      BY <2>3, <3>1, <3>2
  <2>5. CASE at' = [at EXCEPT ![c] = "rejected"] /\ email' = email /\ copy' = copy
    <3>1. UnderWay(Issuers)' = {} /\ UnderWay(Changes)' = {}
      BY <2>1, <2>4, <2>5 DEF UnderWay, Ended, EmailCalls, Issuers
    <3>2. QED
      BY <3>1
  <2>6. CASE /\ at' = [at EXCEPT ![c] = "issue"]
             /\ \E address \in Addresses :
                  /\ copy' = [copy EXCEPT ![c] = Saved(address, copy[c].verified, 0)]
                  /\ email' = IF address = copy[c].email THEN email ELSE address
    <3>1. UnderWay(Issuers)' = {c} /\ UnderWay(Changes)' = {c}
      BY <2>1, <2>4, <2>6 DEF UnderWay, Ended, EmailCalls, Issuers
    <3>2. PICK address \in Addresses :
            /\ copy' = [copy EXCEPT ![c] = Saved(address, copy[c].verified, 0)]
            /\ email' = IF address = copy[c].email THEN email ELSE address
      BY <2>6
    <3>3. copy'[c].email = address
      BY <2>1, <3>2 DEF Saved
    <3>4. email' = address
      BY <2>4, <3>2
    <3>5. QED
      BY <3>1, <3>3, <3>4
  <2>7. QED
    BY <1>3, <2>5, <2>6 DEF SaveEmail, Go
<1>4. ASSUME NEW c \in Issuers, SaveToken(c) PROVE ChangesAlone'
  <2>1. /\ at[c] = "issue" /\ at'[c] = "mail" /\ copy'[c].email = copy[c].email
        /\ UNCHANGED <<email, crossed>>
    BY <1>4, TheCopies DEF SaveToken, Go, Saved, TokensInv, EmailTypeOK, EmailCalls
  <2>2. \A d \in EmailCalls \ {c} : at'[d] = at[d] /\ copy'[d] = copy[d]
    BY <1>4, IssuerGoes
  <2>3. /\ UnderWay(Issuers)' = UnderWay(Issuers) /\ UnderWay(Changes)' = UnderWay(Changes)
        /\ \A d \in UnderWay(Issuers) : copy'[d].email = copy[d].email
    BY <2>1, <2>2 DEF UnderWay, Ended, EmailCalls, Issuers
  <2>4. QED
    BY <2>1, <2>3 DEF TokensInv, ChangesAlone
<1>5. ASSUME NEW c \in Issuers, SendMail(c) PROVE ChangesAlone'
  BY <1>5, EmailTokensAssumption DEF TokensInv, Ended, ChangesAlone, SendMail,
     Go, Cross, UnderWay
<1>6. ASSUME NEW c \in Opens, FindToken(c) PROVE ChangesAlone'
  <2>1. \A d \in Issuers : at'[d] = at[d] /\ copy'[d] = copy[d]
    <3>1. \A d \in EmailCalls : d # c => at'[d] = at[d]
      BY <1>6 DEF FindToken, Go, TokensInv, EmailTypeOK
    <3>2. \A d \in EmailCalls : d # c => copy'[d] = copy[d]
      BY <1>6 DEF FindToken, TokensInv, EmailTypeOK
    <3>3. QED
      BY <3>1, <3>2, EmailTokensAssumption DEF EmailCalls
  <2>2. "change" \notin crossed' => "change" \notin crossed
    BY <1>6 DEF FindToken, Cross
  <2>3. email' = email
    BY <1>6 DEF FindToken
  <2>4. QED
    BY <2>1, <2>2, <2>3 DEF TokensInv, ChangesAlone, UnderWay, Issuers
<1>7. ASSUME NEW c \in Opens, SaveVerified(c) PROVE ChangesAlone'
  BY <1>7, EmailTokensAssumption DEF TokensInv, Issuers, ChangesAlone,
     SaveVerified, Go, Cross, UnderWay
<1>8. CASE Expire
  BY <1>8, EmailTokensAssumption DEF TokensInv, ChangesAlone, Expire, UnderWay
<1>9. ASSUME NEW c \in Others, Load(c) \/ SaveOther(c) PROVE ChangesAlone'
  <2>1. /\ UNCHANGED email
        /\ UnderWay(Issuers)' = UnderWay(Issuers) /\ UnderWay(Changes)' = UnderWay(Changes)
        /\ "change" \notin crossed' => "change" \notin crossed
    BY <1>9, OthersGo
  <2>2. \A d \in UnderWay(Issuers) : copy'[d] = copy[d]
    BY <1>9, OthersGo DEF UnderWay, EmailCalls
  <2>3. QED
    BY <2>1, <2>2 DEF TokensInv, ChangesAlone
<1>10. QED
  BY <1>1, <1>2, <1>3, <1>4, <1>5, <1>6, <1>7, <1>8, <1>9 DEF EmailNext, Issue, Open

\* The valid link stays with the address of the account.
LEMMA OursStep == TokensInv /\ [EmailNext]_emailVars => LinkIsOurs'
<1> SUFFICES ASSUME TokensInv, [EmailNext]_emailVars PROVE LinkIsOurs'
  OBVIOUS
<1>1. CASE UNCHANGED emailVars
  BY <1>1, EmailTokensAssumption, Mails DEF TokensInv, LinkIsOurs, emailVars
<1>2. ASSUME NEW c \in Issuers, Read(c) PROVE LinkIsOurs'
  BY <1>2, EmailTokensAssumption, Mails DEF TokensInv, LinkIsOurs, Read, Go
<1>3. ASSUME NEW c \in Changes, SaveEmail(c) PROVE LinkIsOurs'
  <2>1. verified' => verified
    BY <1>3, IssuerWrites DEF Issuers
  <2>2. QED
    BY <1>3, <2>1, EmailTokensAssumption, Mails DEF TokensInv, EmailTypeOK, EmailCalls,
       Issuers, Ended, LinkIsOurs, SaveEmail, Go, Cross, UnderWay
<1>4. ASSUME NEW c \in Issuers, SaveToken(c) PROVE LinkIsOurs'
  <2>1. token' = minted + 1 /\ UNCHANGED <<email, mails, crossed>>
    BY <1>4 DEF SaveToken
  <2>0. verified' => verified
    BY <1>4, IssuerWrites
  <2>2. \A i \in DOMAIN mails : mails[i].token # token'
    BY <2>1, Mails DEF TokensInv, EmailTypeOK
  <2>3. \A d \in EmailCalls : d # c => at'[d] = at[d] /\ copy'[d] = copy[d]
    BY <1>4 DEF SaveToken, Go
  <2>4. at'[c] = "mail"
    BY <1>4 DEF SaveToken, Go, TokensInv, EmailTypeOK, EmailCalls
  <2>5. QED
    BY <2>0, <2>1, <2>2, <2>3, <2>4, EmailTokensAssumption DEF TokensInv,
       LinkIsOurs, EmailCalls, Issuers
<1>5. ASSUME NEW c \in Issuers, SendMail(c) PROVE LinkIsOurs'
  <2> DEFINE mail == [to |-> copy[c].email, token |-> copy[c].token]
  <2>1. UNCHANGED <<email, verified, token>> /\ crossed \subseteq crossed'
    BY <1>5 DEF SendMail, Cross
  <2>2. mail \in Mail(minted)
    BY <1>5 DEF SendMail, TokensInv, EmailTypeOK, EmailLabels, EmailCalls, Mail
  <2>3. \A i \in DOMAIN mails' : (i \in DOMAIN mails /\ mails'[i] = mails[i])
                               \/ mails'[i] = mail
    <3>1. CASE mails' = Append(mails, mail)
      BY <2>2, <3>1, MailSent DEF TokensInv
    <3>2. CASE mails' = mails
      BY <3>2
    <3>3. QED
      BY <1>5, <3>1, <3>2 DEF SendMail
  <2>4. \A d \in EmailCalls : d # c => at'[d] = at[d] /\ copy'[d] = copy[d]
    BY <1>5 DEF SendMail, Go
  <2>5. at[c] = "mail" /\ at'[c] = "done"
    BY <1>5 DEF SendMail, Go, TokensInv, EmailTypeOK, EmailCalls
  <2>6. ASSUME "change" \notin crossed PROVE mail.to = email
    BY <2>5, <2>6 DEF TokensInv, ChangesAlone, UnderWay, Ended
  <2>7. QED
    BY <2>1, <2>3, <2>4, <2>5, <2>6, EmailTokensAssumption DEF TokensInv,
       LinkIsOurs, EmailCalls, Issuers
<1>6. ASSUME NEW c \in Opens, FindToken(c) PROVE LinkIsOurs'
  BY <1>6, EmailTokensAssumption, Mails DEF TokensInv, EmailTypeOK, LinkIsOurs,
     FindToken, Go, Seen, Cross
<1>7. ASSUME NEW c \in Opens, SaveVerified(c) PROVE LinkIsOurs'
  BY <1>7, EmailTokensAssumption, Mails DEF TokensInv, EmailTypeOK, LinkIsOurs,
     SaveVerified, Go, Cross
<1>8. CASE Expire
  BY <1>8, EmailTokensAssumption, Mails DEF TokensInv, LinkIsOurs, Expire
<1>9. ASSUME NEW c \in Others, Load(c) \/ SaveOther(c) PROVE LinkIsOurs'
  <2>1. /\ UNCHANGED <<email, token, mails>> /\ crossed \subseteq crossed'
        /\ verified' => verified
    BY <1>9, OthersGo
  <2>2. \A d \in Changes \cup Opens : at'[d] = at[d] /\ copy'[d] = copy[d]
    BY <1>9, OthersGo DEF EmailCalls, Issuers
  <2>3. QED
    BY <2>1, <2>2 DEF TokensInv, LinkIsOurs
<1>10. QED
  BY <1>1, <1>2, <1>3, <1>4, <1>5, <1>6, <1>7, <1>8, <1>9 DEF EmailNext, Issue, Open

\* Who is verified has proven the address.
LEMMA ProvenStep == TokensInv /\ [EmailNext]_emailVars => VerifiedIsProven'
<1> SUFFICES ASSUME TokensInv, [EmailNext]_emailVars PROVE VerifiedIsProven'
  OBVIOUS
<1>1. CASE UNCHANGED emailVars
  BY <1>1, EmailTokensAssumption DEF TokensInv, VerifiedIsProven, emailVars
<1>2. ASSUME NEW c \in Issuers, Read(c) PROVE VerifiedIsProven'
  BY <1>2, EmailTokensAssumption DEF TokensInv, VerifiedIsProven, Read
<1>3. ASSUME NEW c \in Changes, SaveEmail(c) PROVE VerifiedIsProven'
  BY <1>3, IssuerWrites DEF TokensInv, LinkIsOurs, VerifiedIsProven, SaveEmail, Cross,
     Issuers
<1>4. ASSUME NEW c \in Issuers, SaveToken(c) PROVE VerifiedIsProven'
  BY <1>4, IssuerWrites DEF TokensInv, VerifiedIsProven, SaveToken
<1>5. ASSUME NEW c \in Issuers, SendMail(c) PROVE VerifiedIsProven'
  BY <1>5, EmailTokensAssumption DEF TokensInv, VerifiedIsProven, SendMail,
     Cross
<1>6. ASSUME NEW c \in Opens, FindToken(c) PROVE VerifiedIsProven'
  BY <1>6, EmailTokensAssumption DEF TokensInv, VerifiedIsProven, FindToken,
     Cross
<1>7. ASSUME NEW c \in Opens, SaveVerified(c) PROVE VerifiedIsProven'
  BY <1>7, EmailTokensAssumption DEF TokensInv, LinkIsOurs, VerifiedIsProven,
     SaveVerified, Cross
<1>8. CASE Expire
  BY <1>8, EmailTokensAssumption DEF TokensInv, VerifiedIsProven, Expire
<1>9. ASSUME NEW c \in Others, Load(c) \/ SaveOther(c) PROVE VerifiedIsProven'
  BY <1>9, OthersGo DEF TokensInv, VerifiedIsProven
<1>10. QED
  BY <1>1, <1>2, <1>3, <1>4, <1>5, <1>6, <1>7, <1>8, <1>9 DEF EmailNext, Issue, Open

\* The last token made is the last one mailed.
LEMMA LastStep == TokensInv /\ [EmailNext]_emailVars => LastTokenMailed'
<1> SUFFICES ASSUME TokensInv, [EmailNext]_emailVars PROVE LastTokenMailed'
  OBVIOUS
<1>1. CASE UNCHANGED emailVars
  BY <1>1, EmailTokensAssumption, Mails DEF TokensInv, LastTokenMailed,
     emailVars,
     UnderWay
<1>2. ASSUME NEW c \in Issuers, Read(c) PROVE LastTokenMailed'
  BY <1>2, EmailTokensAssumption, Mails DEF TokensInv, EmailTypeOK, EmailCalls,
     LastTokenMailed, Read, Go, UnderWay
<1>3. ASSUME NEW c \in Changes, SaveEmail(c) PROVE LastTokenMailed'
  <2>1. "issues" \notin crossed => (verified <=> verified')
    BY <1>3, IssuerWrites DEF Issuers
  <2>2. /\ at[c] = "email" /\ at'[c] \in {"issue", "rejected"}
        /\ \A d \in Issuers \ {c} : at'[d] = at[d] /\ copy'[d] = copy[d]
        /\ UNCHANGED <<token, mails>> /\ crossed \subseteq crossed'
    BY <1>3 DEF SaveEmail, Go, Cross, TokensInv, EmailTypeOK, EmailCalls, Issuers
  <2>4. \A d \in Issuers : at'[d] = "mail" => d # c /\ at[d] = "mail"
    BY <2>2
  <2>5. \A d \in Issuers : at[d] = "mail" => d # c /\ at'[d] = "mail"
    BY <2>2
  <2>6. QED
    BY <2>1, <2>2, <2>4, <2>5 DEF TokensInv, LastTokenMailed
<1>4. ASSUME NEW c \in Issuers, SaveToken(c) PROVE LastTokenMailed'
  <2>1. token' = minted + 1 /\ UNCHANGED <<email, mails, crossed>>
    BY <1>4 DEF SaveToken
  <2>0. verified' => verified
    BY <1>4, IssuerWrites
  <2>2. \A d \in EmailCalls : d # c => at'[d] = at[d] /\ copy'[d] = copy[d]
    BY <1>4 DEF SaveToken, Go
  <2>3. at[c] = "issue" /\ at'[c] = "mail" /\ copy'[c].token = token'
    BY <1>4 DEF SaveToken, Go, Saved, TokensInv, EmailTypeOK, EmailCalls
  <2>4. UnderWay(Issuers)' = UnderWay(Issuers) /\ c \in UnderWay(Issuers)
    BY <2>2, <2>3 DEF UnderWay, Issuers, EmailCalls, Ended
  <2>5. ASSUME crossed \cap {"issues", "mail"} = {}, NEW d \in Issuers, at'[d] = "mail"
        PROVE  d = c
    BY <2>2, <2>3, <2>4, <2>5 DEF TokensInv, OneIssuer, UnderWay
  <2>6. QED
    BY <2>0, <2>1, <2>3, <2>4, <2>5 DEF TokensInv, LastTokenMailed
<1>5. ASSUME NEW c \in Issuers, SendMail(c) PROVE LastTokenMailed'
  <2>1. /\ at[c] = "mail" /\ at'[c] = "done"
        /\ \A d \in Issuers \ {c} : at'[d] = at[d]
        /\ copy' = copy /\ token' = token /\ verified' = verified
    BY <1>5 DEF SendMail, Go, TokensInv, EmailTypeOK, EmailCalls
  <2>2. SUFFICES ASSUME crossed' \cap {"issues", "mail", "save"} = {}
        PROVE  LastTokenMailed'
    BY DEF LastTokenMailed
  <2>3. /\ mails' = Append(mails, [to |-> copy[c].email, token |-> copy[c].token])
        /\ crossed' = crossed
    BY <1>5, <2>2 DEF SendMail, Cross
  <2>4. mails'[Len(mails')] = [to |-> copy[c].email, token |-> copy[c].token]
    BY <2>3, Mails, AppendProperties DEF TokensInv
  <2>5. c \in UnderWay(Issuers) /\ UnderWay(Issuers)' \subseteq UnderWay(Issuers)
    BY <2>1 DEF UnderWay, Ended
  <2>6. \A d, e \in UnderWay(Issuers) : d = e
    BY <2>2, <2>3 DEF TokensInv, OneIssuer
  <2>7. ~ verified => copy[c].token = token
    BY <2>1, <2>2, <2>3 DEF TokensInv, LastTokenMailed
  <2>8. \A d \in Issuers : at'[d] # "mail"
    BY <2>1, <2>5, <2>6 DEF UnderWay, Ended
  <2>9. QED
    BY <2>1, <2>4, <2>5, <2>6, <2>7, <2>8 DEF LastTokenMailed
<1>6. ASSUME NEW c \in Opens, FindToken(c) PROVE LastTokenMailed'
  <2>1. UNCHANGED <<token, verified, mails>> /\ crossed \subseteq crossed'
    BY <1>6 DEF FindToken, Cross
  <2>2. \A d \in Issuers : at'[d] = at[d] /\ copy'[d] = copy[d]
    <3>1. \A d \in EmailCalls : d # c => at'[d] = at[d]
      BY <1>6 DEF FindToken, Go, TokensInv, EmailTypeOK
    <3>2. \A d \in EmailCalls : d # c => copy'[d] = copy[d]
      BY <1>6 DEF FindToken, TokensInv, EmailTypeOK
    <3>3. QED
      BY <3>1, <3>2, EmailTokensAssumption DEF EmailCalls
  <2>3. QED
    BY <2>1, <2>2 DEF TokensInv, LastTokenMailed, UnderWay
<1>7. ASSUME NEW c \in Opens, SaveVerified(c) PROVE LastTokenMailed'
  <2>1. UNCHANGED <<mails, copy>> /\ crossed \subseteq crossed'
    BY <1>7 DEF SaveVerified, Cross
  <2>2. \A d \in Issuers : at'[d] = at[d]
    BY <1>7, EmailTokensAssumption DEF SaveVerified, Go
  <2>3. crossed \cap {"issues", "save"} = {} => verified'
    BY <1>7, Zenon DEF SaveVerified, Write, TokensInv, NotSavedYet
  <2>4. UnderWay(Issuers)' = UnderWay(Issuers)
    BY <2>2 DEF UnderWay
  <2>5. QED
    BY <2>1, <2>3, <2>4 DEF TokensInv, LastTokenMailed
<1>8. CASE Expire
  BY <1>8, EmailTokensAssumption, Mails DEF TokensInv, LastTokenMailed, Expire,
     UnderWay
<1>9. ASSUME NEW c \in Others, Load(c) \/ SaveOther(c) PROVE LastTokenMailed'
  <2>1. /\ UNCHANGED <<token, mails>> /\ crossed \subseteq crossed'
        /\ "save" \notin crossed' => (verified' <=> verified)
        /\ UnderWay(Issuers)' = UnderWay(Issuers)
    BY <1>9, OthersGo
  <2>2. \A d \in Issuers : at'[d] = at[d] /\ copy'[d] = copy[d]
    BY <1>9, OthersGo DEF EmailCalls
  <2>3. QED
    BY <2>1, <2>2 DEF TokensInv, LastTokenMailed
<1>10. QED
  BY <1>1, <1>2, <1>3, <1>4, <1>5, <1>6, <1>7, <1>8, <1>9 DEF EmailNext, Issue, Open

\* Issuers read an unverified account.
LEMMA ReadStep == TokensInv /\ [EmailNext]_emailVars => ReadUnverified'
<1> SUFFICES ASSUME TokensInv, [EmailNext]_emailVars PROVE ReadUnverified'
  OBVIOUS
<1>1. CASE UNCHANGED emailVars
  BY <1>1 DEF TokensInv, ReadUnverified, emailVars
<1>2. ASSUME NEW c \in Issuers, Read(c) PROVE ReadUnverified'
  <2>1. /\ c \notin Others
        /\ \A d \in EmailCalls \ {c} : at'[d] = at[d] /\ copy'[d] = copy[d]
    BY <1>2, EmailTokensAssumption DEF Read, Go, TokensInv, EmailTypeOK
  <2>2. copy'[c].verified = verified /\ (verified => at'[c] = "rejected")
    BY <1>2 DEF Read, Go, Seen, TokensInv, EmailTypeOK, EmailCalls
  <2>3. QED
    BY <2>1, <2>2 DEF TokensInv, ReadUnverified, EmailCalls
<1>3. ASSUME NEW c \in Issuers, SaveEmail(c) \/ SaveToken(c) PROVE ReadUnverified'
  <2>2. /\ c \notin Others
        /\ \A d \in EmailCalls \ {c} : at'[d] = at[d] /\ copy'[d] = copy[d]
    BY <1>3, IssuerGoes, EmailTokensAssumption
  <2>3. copy'[c].verified = copy[c].verified \/ copy'[c].verified = FALSE
    BY <1>3, IssuerGoes
  <2>4. ~ copy[c].verified
    BY <1>3 DEF SaveEmail, SaveToken, TokensInv, ReadUnverified
  <2>5. QED
    BY <2>2, <2>3, <2>4 DEF TokensInv, ReadUnverified, EmailCalls
<1>4. ASSUME NEW c \in Issuers, SendMail(c) PROVE ReadUnverified'
  BY <1>4 DEF TokensInv, ReadUnverified, SendMail, Go, EmailTypeOK, EmailCalls
<1>5. ASSUME NEW c \in Opens, FindToken(c) \/ SaveVerified(c) PROVE ReadUnverified'
  <2>1. \A d \in Issuers \cup Others : d # c /\ at'[d] = at[d] /\ copy'[d] = copy[d]
    BY <1>5, EmailTokensAssumption
       DEF FindToken, SaveVerified, Go, TokensInv, EmailTypeOK, EmailCalls
  <2>2. QED
    BY <2>1 DEF TokensInv, ReadUnverified
<1>6. CASE Expire
  BY <1>6 DEF TokensInv, ReadUnverified, Expire
<1>7. ASSUME NEW c \in Others, Load(c) \/ SaveOther(c) PROVE ReadUnverified'
  <2>1. \A d \in EmailCalls \ {c} : at'[d] = at[d] /\ copy'[d] = copy[d]
    BY <1>7, OthersGo
  <2>2. c \in EmailCalls /\ c \notin Issuers
    BY <1>7, OthersGo
  <2>3. ~ copy'[c].stored => ~ copy'[c].verified
    <3>1. CASE Load(c)
      <4>1. copy'[c] = Seen(email, 0)
        BY <2>2, <3>1 DEF Load, TokensInv, EmailTypeOK
      <4>2. QED
        BY <4>1 DEF Seen, TokensInv, NotSavedYet, NoLinkYet
    <3>2. CASE SaveOther(c)
      BY <3>2 DEF SaveOther, TokensInv, ReadUnverified
    <3>3. QED
      BY <1>7, <3>1, <3>2
  <2>4. QED
    BY <2>1, <2>2, <2>3 DEF TokensInv, ReadUnverified, EmailCalls
<1>8. QED
  BY <1>1, <1>2, <1>3, <1>4, <1>5, <1>6, <1>7 DEF EmailNext, Issue, Open, Issuers

\* Issuers that were at work at once are noticed.
LEMMA AtOnceStep == TokensInv /\ [EmailNext]_emailVars => OneIssuer'
<1> SUFFICES ASSUME TokensInv, [EmailNext]_emailVars PROVE OneIssuer'
  OBVIOUS
<1>1. ASSUME "issues" \notin crossed' => "issues" \notin crossed,
             \A d \in Issuers : at[d] \in Ended \cup {"new"} => at'[d] \in Ended \cup {"new"}
      PROVE  OneIssuer'
  BY <1>1 DEF TokensInv, OneIssuer, UnderWay
<1>2. ASSUME NEW c \in Issuers, Read(c) PROVE OneIssuer'
  <2>1. \A d \in Issuers \ {c} : at'[d] = at[d]
    BY <1>2 DEF Read, Go, TokensInv, EmailTypeOK, EmailCalls
  <2>2. "issues" \notin crossed' => UnderWay(Issuers) = {}
    BY <1>2 DEF Read
  <2>3. QED
    BY <2>1, <2>2 DEF OneIssuer, UnderWay
<1>3. ASSUME NEW c \in Issuers, SaveEmail(c) \/ SaveToken(c) \/ SendMail(c)
      PROVE  OneIssuer'
  <2>1. /\ at[c] \in {"email", "issue", "mail"}
        /\ \A d \in Issuers \ {c} : at'[d] = at[d]
        /\ "issues" \notin crossed' => "issues" \notin crossed
    BY <1>3 DEF SaveEmail, SaveToken, SendMail, Go, Cross, TokensInv, EmailTypeOK, EmailCalls
  <2>2. QED
    BY <1>1, <2>1 DEF Ended
<1>4. ASSUME NEW c \in Opens, FindToken(c) \/ SaveVerified(c) PROVE OneIssuer'
  <2>1. /\ \A d \in Issuers : at'[d] = at[d]
        /\ "issues" \notin crossed' => "issues" \notin crossed
    BY <1>4, EmailTokensAssumption
       DEF FindToken, SaveVerified, Go, Cross, TokensInv, EmailTypeOK, EmailCalls
  <2>2. QED
    BY <1>1, <2>1
<1>5. CASE Expire \/ UNCHANGED emailVars
  BY <1>1, <1>5 DEF Expire, emailVars
<1>6. ASSUME NEW c \in Others, Load(c) \/ SaveOther(c) PROVE OneIssuer'
  <2>1. /\ \A d \in Issuers : at'[d] = at[d]
        /\ "issues" \notin crossed' => "issues" \notin crossed
    BY <1>6, OthersGo DEF EmailCalls
  <2>2. QED
    BY <1>1, <2>1
<1>7. QED
  BY <1>2, <1>3, <1>4, <1>5, <1>6 DEF EmailNext, Issue, Open, Issuers

\* Nobody saves an account behind the back of a lone issuer.
LEMMA SavedStep == TokensInv /\ [EmailNext]_emailVars => NotSavedYet'
<1> SUFFICES ASSUME TokensInv, [EmailNext]_emailVars PROVE NotSavedYet'
  OBVIOUS
<1>0. /\ copy \in [EmailCalls -> Copies(minted)] /\ at \in [EmailCalls ->
           Ended \cup {"new", "email", "issue", "mail", "verify", "save"}]
      /\ verified \in BOOLEAN /\ stored \in BOOLEAN
  BY TheCopies DEF TokensInv, EmailTypeOK
<1>1. CASE UNCHANGED emailVars
  BY <1>1 DEF TokensInv, NotSavedYet, NoLinkYet, emailVars, UnderWay
<1>2. ASSUME NEW c \in Issuers, Read(c) PROVE NotSavedYet'
  <2>1. /\ UNCHANGED <<verified, stored, mails>> /\ c \in EmailCalls /\ crossed \subseteq crossed'
        /\ \A d \in EmailCalls \ {c} : at'[d] = at[d] /\ copy'[d] = copy[d]
    BY <1>2 DEF Read, Go, EmailCalls
  <2>2. copy'[c].stored = stored /\ at'[c] \in {"rejected", "email", "issue"}
    BY <1>0, <1>2, <2>1 DEF Read, Go, Seen
  <2>3. c \notin Opens
    BY EmailTokensAssumption
  <2>4. NoLinkYet => NoLinkYet'
    BY <2>1, <2>2, <2>3 DEF NoLinkYet, EmailCalls
  <2>5. \A d \in UnderWay(Issuers)' : d # c => d \in UnderWay(Issuers)
    BY <2>1 DEF UnderWay, EmailCalls
  <2>6. \A d \in UnderWay(Issuers)' : d # c => copy'[d] = copy[d]
    BY <2>1 DEF UnderWay, EmailCalls
  <2>7. \A o \in Opens : at'[o] = at[o] /\ copy'[o] = copy[o]
    BY <2>1, <2>3 DEF EmailCalls
  <2>8. QED
    BY <2>1, <2>2, <2>4, <2>5, <2>6, <2>7 DEF TokensInv, NotSavedYet
<1>3. ASSUME NEW c \in Issuers, SaveEmail(c) \/ SaveToken(c) PROVE NotSavedYet'
  <2>1. /\ c \in EmailCalls /\ at[c] \in {"email", "issue"} /\ UNCHANGED mails
        /\ \A d \in EmailCalls \ {c} : at'[d] = at[d] /\ copy'[d] = copy[d]
        /\ crossed \subseteq crossed'
    BY <1>3, IssuerGoes
  <2>2. c \notin Opens
    BY EmailTokensAssumption
  <2>3. \/ at'[c] = "rejected" /\ UNCHANGED <<verified, stored, copy>>
        \/ stored' /\ copy'[c].stored
    BY <1>3, IssuerGoes
  <2>4. "issues" \notin crossed => \A d \in UnderWay(Issuers) : d = c
    BY <2>1 DEF TokensInv, OneIssuer, UnderWay, Ended
  <2>5. "issues" \notin crossed => (verified <=> verified')
    BY <1>3, IssuerWrites
  <2>6. CASE at'[c] = "rejected" /\ UNCHANGED <<verified, stored, copy>>
    <3>1. UnderWay(Issuers)' \subseteq UnderWay(Issuers)
      BY <2>1, <2>6 DEF UnderWay, Ended, EmailCalls
    <3>2. \A o \in Opens : at'[o] = at[o]
      BY <2>1, <2>2 DEF EmailCalls
    <3>3. \A d \in Issuers : at'[d] = "mail" => at[d] = "mail"
      BY <2>1, <2>6 DEF EmailCalls
    <3>4. NoLinkYet => NoLinkYet'
      BY <2>1, <2>6, <3>2, <3>3 DEF NoLinkYet
    <3>5. QED
      BY <2>1, <2>6, <3>1, <3>2, <3>4 DEF TokensInv, NotSavedYet
  <2>7. CASE stored' /\ copy'[c].stored
    <3>1. "issues" \notin crossed' => \A d \in UnderWay(Issuers)' : d = c
      BY <2>1, <2>4 DEF UnderWay, EmailCalls
    <3>2. \A o \in Opens : at'[o] = at[o] /\ copy'[o] = copy[o]
      BY <2>1, <2>2 DEF EmailCalls
    <3>3. QED
      BY <2>1, <2>5, <2>7, <3>1, <3>2 DEF TokensInv, NotSavedYet
  <2>8. QED
    BY <2>3, <2>6, <2>7
<1>4. ASSUME NEW c \in Issuers, SendMail(c) PROVE NotSavedYet'
  <2>1. /\ c \in EmailCalls /\ at[c] = "mail" /\ at'[c] = "done"
        /\ UNCHANGED <<verified, stored, copy>> /\ crossed \subseteq crossed'
        /\ \A d \in EmailCalls \ {c} : at'[d] = at[d]
    BY <1>0, <1>4 DEF SendMail, Go, Cross, EmailCalls
  <2>2. stored
    BY <2>1 DEF TokensInv, NotSavedYet, NoLinkYet
  <2>3. \A o \in Opens : at'[o] = at[o]
    BY <2>1, EmailTokensAssumption DEF EmailCalls
  <2>4. "issues" \notin crossed' => UnderWay(Issuers)' = {}
    BY <2>1 DEF TokensInv, OneIssuer, UnderWay, Ended, EmailCalls
  <2>5. QED
    BY <2>1, <2>2, <2>3, <2>4 DEF TokensInv, NotSavedYet
<1>5. ASSUME NEW c \in Opens, FindToken(c) PROVE NotSavedYet'
  <2>1. PICK i \in DOMAIN mails :
          /\ copy' = [copy EXCEPT ![c] = Seen(mails[i].to, mails[i].token)]
          /\ Go(c, IF mails[i].token = token /\ ~ expired THEN "verify" ELSE "rejected")
    BY <1>5 DEF FindToken
  <2>2. ~ NoLinkYet
    BY <2>1 DEF NoLinkYet
  <2>3. /\ UNCHANGED <<verified, stored, mails>> /\ c \in EmailCalls
        /\ crossed \subseteq crossed'
    BY <1>5 DEF FindToken, Cross, EmailCalls
  <2>4. /\ \A d \in EmailCalls \ {c} : at'[d] = at[d] /\ copy'[d] = copy[d]
        /\ copy'[c].verified = verified
    BY <1>0, <2>1, <2>3 DEF Go, Seen
  <2>5. \A d \in Issuers : d # c
    BY EmailTokensAssumption
  <2>6. /\ UnderWay(Issuers)' = UnderWay(Issuers)
        /\ \A d \in UnderWay(Issuers) : copy'[d] = copy[d]
    BY <2>4, <2>5 DEF UnderWay, EmailCalls
  <2>7. \A o \in Opens \ {c} : at'[o] = at[o] /\ copy'[o] = copy[o]
    BY <2>4 DEF EmailCalls
  <2>8. QED
    BY <2>2, <2>3, <2>4, <2>6, <2>7 DEF TokensInv, NotSavedYet
<1>6. ASSUME NEW c \in Opens, SaveVerified(c) PROVE NotSavedYet'
  <2>1. /\ at[c] = "verify" /\ stored' /\ UNCHANGED <<mails, copy>>
        /\ crossed \subseteq crossed'
        /\ \A d \in EmailCalls \ {c} : at'[d] = at[d]
    BY <1>6 DEF SaveVerified, Write, Cross, Go
  <2>2. ~ NoLinkYet
    BY <2>1 DEF NoLinkYet
  <2>3. \A d \in Issuers : d # c
    BY EmailTokensAssumption
  <2>4. UnderWay(Issuers)' = UnderWay(Issuers)
    BY <2>1, <2>3 DEF UnderWay, EmailCalls
  <2>5. crossed \cap {"issues", "save"} = {} => verified'
    BY <1>6, <2>1, Zenon DEF SaveVerified, Write, TokensInv, NotSavedYet
  <2>6. QED
    BY <2>1, <2>2, <2>4, <2>5 DEF TokensInv, NotSavedYet
<1>7. CASE Expire
  BY <1>7 DEF TokensInv, NotSavedYet, NoLinkYet, Expire, UnderWay
<1>8. ASSUME NEW c \in Others, Load(c) \/ SaveOther(c) PROVE NotSavedYet'
  <2>1. /\ UNCHANGED mails /\ crossed \subseteq crossed'
        /\ (verified' => verified) /\ (stored => stored')
        /\ "save" \notin crossed' => (verified' <=> verified)
        /\ UnderWay(Issuers)' = UnderWay(Issuers)
    BY <1>8, OthersGo
  <2>2. \A d \in Issuers \cup Opens : at'[d] = at[d] /\ copy'[d] = copy[d]
    BY <1>8, OthersGo DEF EmailCalls
  <2>3. NoLinkYet => NoLinkYet'
    BY <2>1, <2>2 DEF NoLinkYet
  <2>4. QED
    BY <2>1, <2>2, <2>3 DEF TokensInv, NotSavedYet, UnderWay
<1>9. QED
  BY <1>1, <1>2, <1>3, <1>4, <1>5, <1>6, <1>7, <1>8 DEF EmailNext, Issue, Open, Issuers

\* The invariant holds at the start.
LEMMA EmailInitHolds == EmailInit => TokensInv
<1> SUFFICES ASSUME EmailInit PROVE TokensInv
  OBVIOUS
<1>1. EmailTypeOK
  <2>1. mails \in Seq([to : Addresses, token : 1..minted])
    <3>1. CASE token = 0
      BY <3>1 DEF EmailInit
    <3>2. CASE token = 1
      <4>1. mails = <<[to |-> email, token |-> 1]>> /\ email \in Addresses /\ minted = 1
        BY <3>2 DEF EmailInit
      <4>2. [to |-> email, token |-> 1] \in [to : Addresses, token : 1..minted]
        BY <4>1
      <4>3. QED
        BY <4>1, <4>2
    <3>3. QED
      BY <3>1, <3>2 DEF EmailInit
  <2>2. copy \in [EmailCalls -> Copies(minted)]
    <3>1. /\ email \in Addresses /\ verified = FALSE /\ stored \in BOOLEAN
          /\ 0 \in 0..minted
      BY DEF EmailInit
    <3>2. Seen(email, 0) \in Copies(minted)
      BY <3>1 DEF Seen, Copies
    <3>3. QED
      BY <3>2 DEF EmailInit
  <2>3. /\ email \in Addresses /\ verified = FALSE /\ expired = FALSE /\ stored \in BOOLEAN
        /\ minted \in Nat /\ token \in 0..minted /\ proven = {} /\ crossed = {}
    BY DEF EmailInit
  <2>4. at \in [EmailCalls -> Ended \cup {"new", "email", "issue", "mail", "verify", "save"}]
    BY DEF EmailInit
  <2>5. QED
    BY <2>1, <2>2, <2>3, <2>4 DEF EmailTypeOK, Copies
<1>5. ReadUnverified /\ NotSavedYet /\ OneIssuer
  BY DEF EmailInit, ReadUnverified, OneIssuer, NotSavedYet, NoLinkYet,
     UnderWay, EmailCalls, Issuers, Seen
<1>2. EmailLabels /\ ChangesAlone /\ VerifiedIsProven
  BY DEF EmailInit, EmailLabels, ChangesAlone, UnderWay, EmailCalls, Issuers,
     VerifiedIsProven
<1>3. LinkIsOurs /\ LastTokenMailed
  BY DEF EmailInit, LinkIsOurs, LastTokenMailed, UnderWay, EmailCalls
<1>4. QED
  BY <1>1, <1>2, <1>3, <1>5 DEF TokensInv

\* TokensInv is an invariant: account, links and calls under way stay in step.
THEOREM TokensInvariant == EmailSpec => []TokensInv
<1>1. TokensInv /\ [EmailNext]_emailVars => TokensInv'
  BY EmailTypeStep, EmailLabelsStep, ReadStep, SavedStep, AtOnceStep, AloneStep,
     OursStep, ProvenStep, LastStep DEF TokensInv
<1>2. QED
  BY EmailInitHolds, <1>1, PTL DEF EmailSpec

\* The variables keep to their types.
THEOREM TokensTypeCorrect == EmailSpec => []EmailTypeOK
<1>1. TokensInv => EmailTypeOK
  BY DEF TokensInv
<1>2. QED
  BY TokensInvariant, <1>1, PTL

\* Nobody is verified for an address whose link he never opened, but for calls
\* that crossed with a change of the address.
THEOREM VerifiedIsProvenHolds == EmailSpec => []VerifiedIsProven
<1>1. TokensInv => VerifiedIsProven
  BY DEF TokensInv
<1>2. QED
  BY TokensInvariant, <1>1, PTL

\* The last link mailed works, but for links issued at once and lost mails.
THEOREM LastLinkWorksHolds == EmailSpec => []LastLinkWorks
<1>1. TokensInv => LastLinkWorks
  BY DEF TokensInv, LastTokenMailed, LastLinkWorks, UnderWay, EmailCalls, Ended
<1>2. QED
  BY TokensInvariant, <1>1, PTL

\* No step undoes a verification, but the save of a copy that was read before the
\* document had the field.
THEOREM StaysVerifiedHolds == EmailSpec => StaysVerified
<1> DEFINE Older(c) == ~ copy[c].stored /\ at'[c] # at[c]
           Stays == verified => verified' \/ \E c \in UnderWay(Issuers \cup Others) : Older(c)
<1>1. TokensInv /\ [EmailNext]_emailVars => [Stays]_emailVars
  <2> SUFFICES ASSUME TokensInv, [EmailNext]_emailVars, verified, ~ verified'
               PROVE  \E c \in UnderWay(Issuers \cup Others) : Older(c)
    OBVIOUS
  <2>1. \/ \E c \in Issuers : SaveEmail(c) \/ SaveToken(c)
        \/ \E c \in Others : Load(c) \/ SaveOther(c)
    BY DEF EmailNext, Issue, Open, Read, SendMail, FindToken, SaveVerified, Write, Expire,
       emailVars, Issuers
  <2>2. ASSUME NEW c \in Issuers, SaveEmail(c) \/ SaveToken(c)
        PROVE  c \in UnderWay(Issuers \cup Others) /\ Older(c)
    <3>1. ~ copy[c].stored
      BY <2>2, IssuerWrites
    <3>2. at[c] \in {"email", "issue"} /\ c \in EmailCalls
      BY <2>2, IssuerGoes
    <3>3. at'[c] \in {"rejected", "issue", "mail"} /\ at'[c] # at[c]
      BY <2>2, <3>2 DEF SaveEmail, SaveToken, Go, TokensInv, EmailTypeOK
    <3>4. QED
      BY <3>1, <3>2, <3>3 DEF UnderWay, Ended
  <2>3. ASSUME NEW c \in Others, Load(c) \/ SaveOther(c)
        PROVE  c \in UnderWay(Issuers \cup Others) /\ Older(c)
    BY <2>3, OthersGo DEF UnderWay, Ended
  <2>4. QED
    BY <2>1, <2>2, <2>3
<1>2. QED
  BY TokensInvariant, <1>1, PTL DEF EmailSpec, StaysVerified
------------------------------------------------------------------------------
(* The sessions of a user *)

\* The first state: one token for every browser that holds a session.
LEMMA InitSession == SessionsInit => SessionInv
<1> SUFFICES ASSUME SessionsInit PROVE SessionInv
  OBVIOUS
<1>1. issued \in Nat
  BY FS_Subset, FS_CardinalityType, SessionsAssumption DEF SessionsInit
<1>2. jar \in [Browsers -> 0..issued]
  <2>1. PICK first \in [LoggedIn -> 1..issued] :
          jar = [b \in Browsers |-> IF b \in LoggedIn THEN first[b]
                                    ELSE NoToken]
    BY DEF SessionsInit
  <2> QED BY <1>1, <2>1 DEF NoToken
<1>3. tab \in [Requests -> Tabs]
  BY DEF SessionsInit
<1>4. seen \in [Requests -> [tokens : SUBSET (1..issued), version : Nat]]
  BY DEF SessionsInit
<1>5. SessionsTypeOK
  <2>1. tokens \subseteq 1..issued /\ version \in Nat /\ disturbed \in BOOLEAN
    BY DEF SessionsInit
  <2>2. kind \in [Requests -> Kind] /\ answer \in [Requests -> Answer]
    BY DEF SessionsInit, Kind, Answer
  <2>3. stage \in [Requests -> {"new", "ended"} \cup Handling]
    BY DEF SessionsInit
  <2>4. sent \in [Requests -> 0..issued] /\ made \in [Requests -> 0..issued]
    BY <1>1 DEF SessionsInit, NoToken
  <2> QED BY <1>1, <1>2, <1>3, <1>4, <2>1, <2>2, <2>3, <2>4 DEF SessionsTypeOK
<1>6. VersionGuards /\ AnswersCome
  BY DEF SessionsInit, VersionGuards, AnswersCome
<1>7. SpentIsDead /\ ExchangedOnce
  BY DEF SessionsInit, SpentIsDead, ExchangedOnce, Exchanged
<1> QED BY <1>5, <1>6, <1>7 DEF SessionInv

\* Tokens are only ever added to the issued ones.
LEMMA SeenGrows ==
  ASSUME NEW m \in Nat, NEW n \in Nat, m <= n,
         NEW f \in [Requests -> [tokens : SUBSET (1..m), version : Nat]]
  PROVE  f \in [Requests -> [tokens : SUBSET (1..n), version : Nat]]
<1>1. 1..m \subseteq 1..n
  OBVIOUS
<1>2. [tokens : SUBSET (1..m), version : Nat]
        \subseteq [tokens : SUBSET (1..n), version : Nat]
  BY <1>1
<1> QED BY <1>2

\* What a save that is let through finds: the list it has read, unchanged.
LEMMA ReadIsCurrent ==
  ASSUME SessionInv, NEW r \in Requests, stage[r] \in {"write", "rewrite"},
         Current(r)
  PROVE  seen[r].tokens = tokens
BY DEF SessionInv, VersionGuards

\* A write of the document leaves behind every handler that had read it.
LEMMA WriteOutdates ==
  ASSUME SessionInv, version' = version + 1, seen' = seen,
         NEW s \in Requests, stage[s] \in {"write", "rewrite"}
  PROVE  /\ seen'[s].version <= version'
         /\ seen'[s].version # version'
<1>1. seen[s].version <= version /\ seen[s].version \in Nat /\ version \in Nat
  BY DEF SessionInv, VersionGuards, SessionsTypeOK
<1> QED BY <1>1
-----------------------------------------------------------------------------
(* Each step preserves the invariant *)

\* A request takes the cookie of its browser with it.
LEMMA SendKeeps ==
  ASSUME SessionInv, NEW r \in Requests, NEW t \in Tabs, NEW k \in Kind,
         Send(r, t, k)
  PROVE  SessionInv'
<1> USE DEF SessionInv
<1>1. BrowserOf[t] \in Browsers /\ jar[BrowserOf[t]] \in 0..issued
  BY SessionsAssumption DEF SessionsTypeOK
<1>2. /\ UNCHANGED <<document, jar, seen, made>>
      /\ stage[r] = "new"
      /\ kind' = [kind EXCEPT ![r] = k]
      /\ tab' = [tab EXCEPT ![r] = t]
      /\ sent' = [sent EXCEPT ![r] = jar[BrowserOf[t]]]
      /\ disturbed' \in BOOLEAN
      /\ \/ /\ stage' = [stage EXCEPT ![r] = "reply"]
            /\ answer' \in {[answer EXCEPT ![r] = a] : a \in {"out", "missing"}}
         \/ stage' = [stage EXCEPT ![r] = "read"] /\ answer' = answer
  BY DEF Send, SessionsTypeOK
<1>3. SessionsTypeOK'
  BY <1>1, <1>2 DEF SessionsTypeOK, document, Kind, Handling, Answer
<1>4. VersionGuards'
  BY <1>2 DEF VersionGuards, Current, document, SessionsTypeOK
<1>5. AnswersCome'
  BY <1>2 DEF AnswersCome, SessionsTypeOK
<1>6. answer'[r] # "ok" /\ \A s \in Requests \ {r} :
        kind'[s] = kind[s] /\ answer'[s] = answer[s] /\ sent'[s] = sent[s]
  BY <1>2 DEF SessionsTypeOK, AnswersCome
<1>7. SpentIsDead' /\ ExchangedOnce'
  BY <1>2, <1>6 DEF SpentIsDead, ExchangedOnce, Exchanged, document
<1> QED BY <1>3, <1>4, <1>5, <1>7

\* A request reads the tokens of the current version.
LEMMA ReadKeeps ==
  ASSUME SessionInv, NEW r \in Requests, ReadUser(r)
  PROVE  SessionInv'
<1> USE DEF SessionInv
<1>1. UNCHANGED <<document, jar, request, answer, made, disturbed>>
  BY DEF ReadUser
<1>2. SessionsTypeOK'
  BY <1>1 DEF ReadUser, SessionsTypeOK, document, request, Handling
<1>3. VersionGuards'
  BY <1>1 DEF ReadUser, VersionGuards, Current, document, SessionsTypeOK
<1>4. AnswersCome'
  BY <1>1 DEF ReadUser, AnswersCome, SessionsTypeOK
<1>5. SpentIsDead' /\ ExchangedOnce'
  BY <1>1 DEF SpentIsDead, ExchangedOnce, Exchanged, document, request
<1> QED BY <1>2, <1>3, <1>4, <1>5

\* A login adds a token nobody had.
LEMMA LoginKeeps ==
  ASSUME SessionInv, NEW r \in Requests, Login(r)
  PROVE  SessionInv'
<1> USE DEF SessionInv
<1>1. /\ UNCHANGED <<jar, request, seen, disturbed>>
      /\ issued \in Nat /\ issued' = issued + 1
      /\ made' = [made EXCEPT ![r] = issued']
      /\ tokens' = tokens \cup {issued'}
      /\ version' = version + 1
      /\ stage' = [stage EXCEPT ![r] = "reply"]
      /\ answer' = [answer EXCEPT ![r] = "ok"]
      /\ kind[r] = "login"
  BY DEF Login, SaveTokens, Reply, SessionsTypeOK
<1>2. seen' \in [Requests -> [tokens : SUBSET (1..issued'), version : Nat]]
  BY <1>1, SeenGrows DEF SessionsTypeOK
<1>3. SessionsTypeOK'
  BY <1>1, <1>2 DEF SessionsTypeOK, request, Handling, Answer
<1>4. VersionGuards'
  BY <1>1, WriteOutdates DEF VersionGuards, Current, SessionsTypeOK
<1>5. AnswersCome'
  BY <1>1 DEF AnswersCome, SessionsTypeOK
<1>6. \A s \in Requests : Exchanged(s)' <=> Exchanged(s)
  BY <1>1 DEF Exchanged, request, SessionsTypeOK
<1>7. \A s \in Requests : sent[s] # issued'
  BY <1>1 DEF SessionsTypeOK
<1>8. SpentIsDead'
  BY <1>1, <1>6, <1>7 DEF SpentIsDead, request
<1>9. ExchangedOnce'
  BY <1>1, <1>6 DEF ExchangedOnce, request
<1> QED BY <1>3, <1>4, <1>5, <1>8, <1>9

\* The step that matters: the token exchanged was stored until this moment,
\* so nobody had exchanged it, and it is not stored any more.
LEMMA RotateKeeps ==
  ASSUME SessionInv, NEW r \in Requests, Rotate(r)
  PROVE  SessionInv'
<1> USE DEF SessionInv
<1>1. /\ UNCHANGED <<jar, request, seen, disturbed>>
      /\ issued \in Nat /\ issued' = issued + 1
      /\ made' = [made EXCEPT ![r] = issued']
      /\ version' = version + 1
      /\ stage[r] = "write"
      /\ stage' = [stage EXCEPT ![r] = "reply"]
      /\ answer' = [answer EXCEPT ![r] = "ok"]
      /\ Current(r)
      /\ sent[r] \in seen[r].tokens
      /\ tokens' = (seen[r].tokens \ {sent[r]}) \cup {issued'}
  BY DEF Rotate, Rotated, SaveTokens, Reply, SessionsTypeOK
<1>2. seen[r].tokens = tokens
  BY <1>1, ReadIsCurrent
<1>3. sent[r] \in tokens /\ tokens' = (tokens \ {sent[r]}) \cup {issued'}
  BY <1>1, <1>2
<1>4. seen' \in [Requests -> [tokens : SUBSET (1..issued'), version : Nat]]
  BY <1>1, SeenGrows DEF SessionsTypeOK
<1>5. SessionsTypeOK'
  BY <1>1, <1>3, <1>4 DEF SessionsTypeOK, request, Handling, Answer
<1>6. VersionGuards'
  BY <1>1, WriteOutdates DEF VersionGuards, Current, SessionsTypeOK
<1>7. AnswersCome'
  BY <1>1 DEF AnswersCome, SessionsTypeOK
<1>8. \A s \in Requests : sent[s] # issued'
  BY <1>1 DEF SessionsTypeOK
<1>9. \A s \in Requests \ {r} : /\ Exchanged(s)' <=> Exchanged(s)
                                /\ sent'[s] = sent[s]
  BY <1>1 DEF Exchanged, request, SessionsTypeOK
<1>10. SpentIsDead'
  BY <1>1, <1>3, <1>8, <1>9 DEF SpentIsDead, request
<1>11. ExchangedOnce'
  BY <1>1, <1>3, <1>9 DEF ExchangedOnce, SpentIsDead, request
<1> QED BY <1>5, <1>6, <1>7, <1>10, <1>11

\* The steps that only remove tokens, and issue none.
LEMMA ShrinkKeeps ==
  ASSUME SessionInv, NEW r \in Requests,
         NEW state \in Handling, NEW a \in Answer \ {"ok"},
         stage[r] \in {"write", "rewrite"},
         UNCHANGED <<issued, jar, request, seen, made, disturbed>>,
         \/ UNCHANGED <<tokens, version>>
         \/ tokens' \subseteq tokens /\ version' = version + 1,
         stage' = [stage EXCEPT ![r] = state],
         \/ state = "reread" /\ answer' = answer
         \/ state = "reply" /\ answer' = [answer EXCEPT ![r] = a]
  PROVE  SessionInv'
<1> USE DEF SessionInv
<1>1. SessionsTypeOK'
  <2>1. version' \in Nat
    BY DEF SessionsTypeOK
  <2>2. tokens' \subseteq 1..issued'
    <3>1. tokens \subseteq 1..issued /\ issued' = issued /\ tokens' \subseteq tokens
      BY DEF SessionsTypeOK
    <3> QED BY <3>1
  <2>3. stage' \in [Requests -> {"new", "ended"} \cup Handling]
    BY DEF SessionsTypeOK
  <2>4. answer' \in [Requests -> Answer]
    BY DEF SessionsTypeOK
  <2> QED BY <2>1, <2>2, <2>3, <2>4 DEF SessionsTypeOK, request
<1>2. VersionGuards'
  <2>1. \A s \in Requests : stage'[s] \in {"write", "rewrite"} =>
                              stage[s] \in {"write", "rewrite"} /\ s # r
    BY DEF SessionsTypeOK
  <2>2. CASE UNCHANGED <<tokens, version>>
    BY <2>1, <2>2 DEF VersionGuards, Current
  <2>3. CASE version' = version + 1
    BY <2>1, <2>3, WriteOutdates DEF VersionGuards, Current
  <2> QED BY <2>2, <2>3
<1>3. AnswersCome'
  BY DEF AnswersCome, SessionsTypeOK
<1>4. \A s \in Requests : Exchanged(s)' => Exchanged(s)
  BY DEF Exchanged, request, SessionsTypeOK
<1>5. SpentIsDead' /\ ExchangedOnce'
  BY <1>4 DEF SpentIsDead, ExchangedOnce, request
<1> QED BY <1>1, <1>2, <1>3, <1>5

\* A rotation that finds no token, or another version, writes nothing.
LEMMA RotateFailsKeeps ==
  ASSUME SessionInv, NEW r \in Requests, RotateFails(r)
  PROVE  SessionInv'
<1>1. /\ UNCHANGED <<issued, jar, request, seen, made, disturbed, answer>>
      /\ \/ UNCHANGED <<tokens, version>>
         \/ tokens' \subseteq tokens /\ version' = version + 1
      /\ stage[r] = "write" /\ stage' = [stage EXCEPT ![r] = "reread"]
  BY DEF RotateFails, SaveTokens, document
<1>2. "reread" \in Handling /\ "none" \in Answer \ {"ok"}
  BY DEF Handling, Answer
<1> QED BY <1>1, <1>2, ShrinkKeeps

\* The alarm removes every token.
LEMMA RevokeAllKeeps ==
  ASSUME SessionInv, NEW r \in Requests, RevokeAll(r)
  PROVE  SessionInv'
<1>1. /\ UNCHANGED <<issued, jar, request, seen, made, disturbed>>
      /\ \/ UNCHANGED <<tokens, version>>
         \/ tokens' \subseteq tokens /\ version' = version + 1
      /\ stage[r] = "rewrite" /\ stage' = [stage EXCEPT ![r] = "reply"]
      /\ \E a \in {"reuse", "invalid"} : answer' = [answer EXCEPT ![r] = a]
  BY DEF RevokeAll, SaveTokens, Reply, document
<1>2. "reply" \in Handling /\ {"reuse", "invalid"} \subseteq Answer \ {"ok"}
  BY DEF Handling, Answer
<1> QED BY <1>1, <1>2, ShrinkKeeps

\* A logout removes its token, or writes nothing.
LEMMA LogoutKeeps ==
  ASSUME SessionInv, NEW r \in Requests, Logout(r)
  PROVE  SessionInv'
<1>1. stage[r] = "write"
  BY DEF Logout
<1>2. Current(r) => seen[r].tokens = tokens
  BY <1>1, ReadIsCurrent
<1>3. /\ UNCHANGED <<issued, jar, request, seen, made, disturbed>>
      /\ \/ UNCHANGED <<tokens, version>>
         \/ tokens' \subseteq tokens /\ version' = version + 1
      /\ stage' = [stage EXCEPT ![r] = "reply"]
      /\ answer' = [answer EXCEPT ![r] = "out"]
  BY <1>2 DEF Logout, SaveTokens, Reply, document
<1>4. "reply" \in Handling /\ "out" \in Answer \ {"ok"}
  BY DEF Handling, Answer
<1> QED BY <1>1, <1>3, <1>4, ShrinkKeeps

\* An answer reaches the browser or is lost.
LEMMA EndKeeps ==
  ASSUME SessionInv, NEW r \in Requests, Deliver(r) \/ Lose(r)
  PROVE  SessionInv'
<1> USE DEF SessionInv
<1>1. /\ UNCHANGED <<document, request, seen, answer, made>>
      /\ disturbed' \in BOOLEAN
      /\ stage' = [stage EXCEPT ![r] = "ended"]
      /\ jar' \in [Browsers -> 0..issued]
  <2>1. CASE Deliver(r)
    <3>1. jar' \in [Browsers -> 0..issued]
      <4>1. made[r] \in 0..issued /\ 0 \in 0..issued /\ jar \in [Browsers -> 0..issued]
        BY DEF SessionsTypeOK
      <4> HIDE DEF SessionInv
      <4> QED BY <2>1, <4>1 DEF Deliver, NoToken
    <3>2. disturbed' \in BOOLEAN
      BY <2>1 DEF Deliver, SessionsTypeOK
    <3> QED BY <2>1, <3>1, <3>2 DEF Deliver
  <2>2. CASE Lose(r)
    BY <2>2 DEF Lose, SessionsTypeOK
  <2> QED BY <2>1, <2>2
<1>2. SessionsTypeOK'
  BY <1>1 DEF SessionsTypeOK, document, request
<1>3. VersionGuards' /\ AnswersCome'
  BY <1>1 DEF VersionGuards, AnswersCome, Current, document, SessionsTypeOK
<1>4. SpentIsDead' /\ ExchangedOnce'
  BY <1>1 DEF SpentIsDead, ExchangedOnce, Exchanged, document, request
<1> QED BY <1>2, <1>3, <1>4

\* Nothing happens.
LEMMA StutterKeeps == ASSUME SessionInv, UNCHANGED sessionVars PROVE SessionInv'
BY DEF SessionInv, SessionsTypeOK, VersionGuards, AnswersCome, SpentIsDead,
       ExchangedOnce, Exchanged, Current, sessionVars, document, request

\* Every step keeps the invariant.
LEMMA NextKeeps == ASSUME SessionInv, [SessionsNext]_sessionVars PROVE SessionInv'
<1>1. ASSUME NEW r \in Requests, NEW t \in Tabs, NEW k \in Kind, Send(r, t, k)
      PROVE  SessionInv'
  BY <1>1, SendKeeps
<1>2. ASSUME NEW r \in Requests, Handle(r)
      PROVE  SessionInv'
  BY <1>2, ReadKeeps, LoginKeeps, RotateKeeps, RotateFailsKeeps,
     RevokeAllKeeps, LogoutKeeps, EndKeeps DEF Handle
<1>3. CASE UNCHANGED sessionVars
  BY <1>3, StutterKeeps
<1> QED BY <1>1, <1>2, <1>3 DEF SessionsNext, Idle
-----------------------------------------------------------------------------
(* Requests that take turns *)

\* At the beginning every browser with a session holds a token of its own.
LEMMA InitInTurn == SessionsInit => InTurn
<1> SUFFICES ASSUME SessionsInit PROVE InTurn
  OBVIOUS
<1>1. \A r \in Requests : stage[r] = "new" /\ answer[r] = "none"
  BY DEF SessionsInit
<1>2. OneAtATime /\ \A r \in Requests : TakesItsTurn(r)
  BY <1>1 DEF OneAtATime, TakesItsTurn, Handling
<1>3. JarsGood
  <2>1. PICK first \in [LoggedIn -> 1..issued] :
          /\ \A a, b \in LoggedIn : first[a] = first[b] => a = b
          /\ jar = [b \in Browsers |-> IF b \in LoggedIn THEN first[b]
                                       ELSE NoToken]
    BY DEF SessionsInit
  <2>2. \A b \in Browsers :
          jar[b] # NoToken => /\ b \in LoggedIn /\ jar[b] = first[b]
                              /\ jar[b] \in tokens
    BY <2>1 DEF SessionsInit
  <2> QED BY <2>1, <2>2 DEF JarsGood
<1> QED BY <1>2, <1>3 DEF InTurn

\* The turn of a request: nobody else is being handled, and before the answer
\* every browser holds a good token or none.
LEMMA MyTurn ==
  ASSUME InTurn, ~ disturbed, NEW r \in Requests, stage[r] \in Handling
  PROVE  /\ \A s \in Requests \ {r} : stage[s] \notin Handling
         /\ JarsGood
         /\ \A s \in Requests : TakesItsTurn(s)
         /\ stage[r] # "reply" =>
              \A b \in Browsers : jar[b] # NoToken => jar[b] \in tokens
<1>1. OneAtATime /\ JarsGood /\ \A s \in Requests : TakesItsTurn(s)
  BY DEF InTurn
<1>2. \A s \in Requests \ {r} : stage[s] \notin Handling
  BY <1>1 DEF OneAtATime
<1>3. "reply" \in Handling
  BY DEF Handling
<1>4. stage[r] # "reply" => \A s \in Requests : stage[s] # "reply"
  BY <1>2, <1>3
<1> QED BY <1>1, <1>2, <1>4 DEF JarsGood

\* Nothing changes for a request that has not started or has ended, as long as
\* no old token comes back.
LEMMA OthersWait ==
  ASSUME SessionInv, NEW s \in Requests, TakesItsTurn(s), stage[s] \notin Handling,
         stage'[s] = stage[s], answer'[s] = answer[s], sent'[s] = sent[s],
         \A t \in tokens' : t \in tokens \/ t > issued
  PROVE  TakesItsTurn(s)'
<1>1. sent[s] \in 0..issued /\ issued \in Nat
  BY DEF SessionInv, SessionsTypeOK
<1>2. answer'[s] = "out" => sent'[s] \notin tokens'
  BY <1>1 DEF TakesItsTurn
<1>3. stage'[s] \notin {"reread", "rewrite", "read", "write", "reply"}
  BY DEF Handling
<1> QED BY <1>2, <1>3 DEF TakesItsTurn

\* A request starts when nobody is being handled.
LEMMA SendInTurn ==
  ASSUME SessionInv, InTurn, NEW r \in Requests, NEW t \in Tabs,
         NEW k \in Kind, Send(r, t, k)
  PROVE  InTurn'
<1> SUFFICES ASSUME ~ disturbed'
             PROVE  OneAtATime' /\ JarsGood'
                    /\ \A s \in Requests : TakesItsTurn(s)'
  BY DEF InTurn
<1>1. /\ UNCHANGED <<tokens, version, issued, jar, seen, made>>
      /\ stage[r] = "new" /\ ~ disturbed
      /\ \A s \in Requests : stage[s] \notin Handling
      /\ kind' = [kind EXCEPT ![r] = k]
      /\ tab' = [tab EXCEPT ![r] = t]
      /\ sent' = [sent EXCEPT ![r] = jar[BrowserOf[t]]]
      /\ IF k # "login" /\ jar[BrowserOf[t]] = NoToken
         THEN /\ stage' = [stage EXCEPT ![r] = "reply"]
              /\ answer' \in {[answer EXCEPT ![r] = a] : a \in {"out", "missing"}}
         ELSE stage' = [stage EXCEPT ![r] = "read"] /\ answer' = answer
  BY DEF Send, document
<1>2. OneAtATime /\ JarsGood /\ \A s \in Requests : TakesItsTurn(s)
  BY <1>1 DEF InTurn
<1>3. \A b \in Browsers : jar[b] # NoToken => jar[b] \in tokens
  BY <1>1, <1>2 DEF JarsGood, Handling
<1>4. /\ stage \in [Requests -> {"new", "ended"} \cup Handling]
      /\ answer[r] = "none" /\ NoToken \notin tokens
      /\ BrowserOf[t] \in Browsers
      /\ kind \in [Requests -> Kind] /\ tab \in [Requests -> Tabs]
      /\ sent \in [Requests -> 0..issued] /\ answer \in [Requests -> Answer]
  BY <1>1, SessionsAssumption DEF SessionInv, SessionsTypeOK, AnswersCome, NoToken
<1>5. \A s \in Requests \ {r} :
        stage'[s] = stage[s] /\ answer'[s] = answer[s] /\ sent'[s] = sent[s]
  BY <1>1, <1>4
<1>6. OneAtATime'
  BY <1>1, <1>5 DEF OneAtATime
<1>7. JarsGood'
  BY <1>1, <1>2, <1>3 DEF JarsGood
<1>8. TakesItsTurn(r)'
  <2>1. sent'[r] = Holds(r)' /\ kind'[r] = k /\ Holds(r)' = jar[BrowserOf[t]]
    BY <1>1, <1>4 DEF Holds
  <2>2. CASE k # "login" /\ jar[BrowserOf[t]] = NoToken
    <3>1. stage'[r] = "reply" /\ answer'[r] \in {"out", "missing"}
      BY <1>1, <1>4, <2>2
    <3> QED BY <1>1, <1>4, <2>1, <2>2, <3>1 DEF TakesItsTurn
  <2>3. CASE ~ (k # "login" /\ jar[BrowserOf[t]] = NoToken)
    <3>1. stage'[r] = "read" /\ answer'[r] = "none"
      BY <1>1, <1>4, <2>3
    <3>2. k # "login" => sent'[r] \in tokens'
      BY <1>1, <1>3, <1>4, <2>1, <2>3
    <3> QED BY <2>1, <3>1, <3>2 DEF TakesItsTurn
  <2> QED BY <2>2, <2>3
<1>9. \A s \in Requests \ {r} : TakesItsTurn(s)'
  BY <1>1, <1>2, <1>5, OthersWait
<1> QED BY <1>6, <1>7, <1>8, <1>9

\* A request reads the document: what it has read is current.
LEMMA ReadInTurn ==
  ASSUME SessionInv, InTurn, NEW r \in Requests, ReadUser(r)
  PROVE  InTurn'
<1> SUFFICES ASSUME ~ disturbed'
             PROVE  OneAtATime' /\ JarsGood'
                    /\ \A s \in Requests : TakesItsTurn(s)'
  BY DEF InTurn
<1>1. /\ UNCHANGED <<tokens, version, issued, jar, kind, tab, sent>>
      /\ UNCHANGED <<answer, made>> /\ ~ disturbed
      /\ stage[r] \in {"read", "reread"}
      /\ seen' = [seen EXCEPT ![r] = [tokens |-> tokens, version |-> version]]
      /\ stage' = [stage EXCEPT ![r] = IF @ = "read" THEN "write" ELSE "rewrite"]
  BY DEF ReadUser, document, request
<1>2. /\ \A s \in Requests \ {r} : stage[s] \notin Handling
      /\ JarsGood /\ \A s \in Requests : TakesItsTurn(s)
      /\ \A b \in Browsers : jar[b] # NoToken => jar[b] \in tokens
  BY <1>1, MyTurn DEF Handling
<1>3. stage[r] = "read" /\ stage' = [stage EXCEPT ![r] = "write"]
  BY <1>1, <1>2 DEF TakesItsTurn
<1>4. /\ stage \in [Requests -> {"new", "ended"} \cup Handling]
      /\ seen'[r].version = version
  BY <1>1 DEF SessionInv, SessionsTypeOK
<1>5. \A s \in Requests \ {r} : stage'[s] = stage[s]
  BY <1>3, <1>4
<1>6. OneAtATime'
  BY <1>2, <1>5 DEF OneAtATime
<1>7. JarsGood'
  BY <1>1, <1>2 DEF JarsGood
<1>8. TakesItsTurn(r)'
  BY <1>1, <1>2, <1>3, <1>4 DEF TakesItsTurn, Holds, Current
<1>9. \A s \in Requests \ {r} : TakesItsTurn(s)'
  BY <1>1, <1>2, <1>5, OthersWait
<1> QED BY <1>6, <1>7, <1>8, <1>9

\* A handler answers "ok" with a new token: only its own browser may lose the
\* one it holds, and that one will be replaced.
LEMMA GrantInTurn ==
  ASSUME SessionInv, InTurn, NEW r \in Requests, ~ disturbed,
         stage[r] = "write",
         UNCHANGED <<jar, request>>,
         issued' = issued + 1,
         made' = [made EXCEPT ![r] = issued'],
         stage' = [stage EXCEPT ![r] = "reply"],
         answer' = [answer EXCEPT ![r] = "ok"],
         issued' \in tokens',
         tokens' \subseteq tokens \cup {issued'},
         tokens \ {sent[r]} \subseteq tokens'
  PROVE  InTurn'
<1> SUFFICES OneAtATime' /\ JarsGood' /\ \A s \in Requests : TakesItsTurn(s)'
  BY DEF InTurn
<1>1. UNCHANGED <<kind, tab, sent>>
  BY DEF request
<1>2. /\ \A s \in Requests \ {r} : stage[s] \notin Handling
      /\ JarsGood /\ \A s \in Requests : TakesItsTurn(s)
      /\ \A b \in Browsers : jar[b] # NoToken => jar[b] \in tokens
  BY MyTurn DEF Handling
<1>3. /\ stage \in [Requests -> {"new", "ended"} \cup Handling]
      /\ answer \in [Requests -> Answer] /\ made \in [Requests -> 0..issued]
      /\ jar \in [Browsers -> 0..issued] /\ issued \in Nat
      /\ tab[r] \in Tabs /\ BrowserOf[tab[r]] \in Browsers
      /\ tokens \subseteq 1..issued
  BY SessionsAssumption DEF SessionInv, SessionsTypeOK
<1>4. stage'[r] = "reply" /\ answer'[r] = "ok" /\ made'[r] = issued'
  BY <1>3
<1>5. \A s \in Requests \ {r} :
        stage'[s] = stage[s] /\ answer'[s] = answer[s] /\ sent'[s] = sent[s]
  BY <1>1, <1>3
<1>6. OneAtATime'
  BY <1>2, <1>5 DEF OneAtATime
<1>7. JarsGood'
  <2>1. sent[r] = jar[BrowserOf[tab[r]]]
    BY <1>2 DEF TakesItsTurn, Holds
  <2>2. ASSUME NEW b \in Browsers, jar[b] # NoToken, b # BrowserOf[tab[r]]
        PROVE  jar[b] \in tokens'
    BY <1>2, <1>3, <2>1, <2>2 DEF JarsGood
  <2>3. \A b \in Browsers : jar'[b] # NoToken =>
          jar'[b] \in tokens' \/ (BrowserOf[tab'[r]] = b)
    BY <1>1, <2>2
  <2> QED BY <1>2, <1>4, <2>3 DEF JarsGood
<1>8. TakesItsTurn(r)'
  <2>1. \A b \in Browsers : jar'[b] # made'[r]
    BY <1>3, <1>4
  <2> QED BY <1>4, <2>1 DEF TakesItsTurn
<1>9. \A s \in Requests \ {r} : TakesItsTurn(s)'
  <2>1. issued' > issued
    BY <1>3
  <2>2. \A t \in tokens' : t \in tokens \/ t > issued
    BY <2>1
  <2> QED BY <1>2, <1>5, <2>2, OthersWait
<1> QED BY <1>6, <1>7, <1>8, <1>9

\* A login grants a token and takes none away.
LEMMA LoginInTurn ==
  ASSUME SessionInv, InTurn, NEW r \in Requests, Login(r)
  PROVE  InTurn'
<1>1. CASE disturbed
  BY <1>1 DEF Login, InTurn
<1>2. CASE ~ disturbed
  BY <1>2, GrantInTurn DEF Login, SaveTokens, Reply
<1> QED BY <1>1, <1>2

\* A rotation grants a token for the one it takes away.
LEMMA RotateInTurn ==
  ASSUME SessionInv, InTurn, NEW r \in Requests, Rotate(r)
  PROVE  InTurn'
<1>1. CASE disturbed
  BY <1>1 DEF Rotate, InTurn
<1>2. CASE ~ disturbed
  <2>1. seen[r].tokens = tokens
    BY ReadIsCurrent DEF Rotate
  <2>2. tokens' = (tokens \ {sent[r]}) \cup {issued'}
    BY <2>1 DEF Rotate, Rotated, SaveTokens
  <2> QED BY <1>2, <2>2, GrantInTurn DEF Rotate, Reply
<1> QED BY <1>1, <1>2

\* A refresh in turn finds its token, and nobody has saved in between.
LEMMA NoAlarmInTurn ==
  ASSUME SessionInv, InTurn, NEW r \in Requests, RotateFails(r) \/ RevokeAll(r)
  PROVE  InTurn'
<1>1. disturbed' = disturbed
  BY DEF RotateFails, RevokeAll
<1>2. CASE disturbed
  BY <1>1, <1>2 DEF InTurn
<1>3. CASE ~ disturbed
  <2>1. TakesItsTurn(r)
    BY <1>3 DEF InTurn
  <2>2. RotateFails(r)
    BY <2>1 DEF TakesItsTurn, RevokeAll
  <2>3. Current(r) /\ sent[r] \in tokens
    BY <2>1, <2>2 DEF TakesItsTurn, RotateFails
  <2>4. seen[r].tokens = tokens
    BY <2>2, <2>3, ReadIsCurrent DEF RotateFails
  <2> QED BY <2>2, <2>3, <2>4 DEF RotateFails
<1> QED BY <1>2, <1>3

\* A logout removes the token of its browser.
LEMMA LogoutInTurn ==
  ASSUME SessionInv, InTurn, NEW r \in Requests, Logout(r)
  PROVE  InTurn'
<1> SUFFICES ASSUME ~ disturbed'
             PROVE  OneAtATime' /\ JarsGood'
                    /\ \A s \in Requests : TakesItsTurn(s)'
  BY DEF InTurn
<1>1. /\ UNCHANGED <<jar, kind, tab, sent, made>> /\ ~ disturbed
      /\ stage[r] = "write" /\ kind[r] = "logout"
      /\ stage' = [stage EXCEPT ![r] = "reply"]
      /\ answer' = [answer EXCEPT ![r] = "out"]
  BY DEF Logout, Reply, request
<1>2. /\ \A s \in Requests \ {r} : stage[s] \notin Handling
      /\ JarsGood /\ \A s \in Requests : TakesItsTurn(s)
      /\ \A b \in Browsers : jar[b] # NoToken => jar[b] \in tokens
  BY <1>1, MyTurn DEF Handling
<1>3. tokens' = tokens \ {sent[r]}
  <2>1. Current(r)
    BY <1>1, <1>2 DEF TakesItsTurn
  <2>2. seen[r].tokens = tokens
    BY <1>1, <2>1, ReadIsCurrent
  <2> QED BY <2>1, <2>2 DEF Logout, SaveTokens
<1>4. /\ stage \in [Requests -> {"new", "ended"} \cup Handling]
      /\ answer \in [Requests -> Answer]
  BY DEF SessionInv, SessionsTypeOK
<1>5. stage'[r] = "reply" /\ answer'[r] = "out"
  BY <1>1, <1>4
<1>6. \A s \in Requests \ {r} :
        stage'[s] = stage[s] /\ answer'[s] = answer[s] /\ sent'[s] = sent[s]
  BY <1>1, <1>4
<1>7. OneAtATime'
  BY <1>2, <1>6 DEF OneAtATime
<1>8. JarsGood'
  <2>1. sent[r] = jar[BrowserOf[tab[r]]] /\ BrowserOf[tab[r]] \in Browsers
    BY <1>1, <1>2, SessionsAssumption
    DEF TakesItsTurn, Holds, SessionInv, SessionsTypeOK
  <2>2. \A b \in Browsers : jar'[b] # NoToken =>
          jar'[b] \in tokens' \/ BrowserOf[tab'[r]] = b
    BY <1>1, <1>2, <1>3, <2>1 DEF JarsGood
  <2> QED BY <1>1, <1>2, <1>5, <2>2 DEF JarsGood
<1>9. TakesItsTurn(r)'
  BY <1>1, <1>3, <1>5 DEF TakesItsTurn
<1>10. \A s \in Requests \ {r} : TakesItsTurn(s)'
  BY <1>2, <1>3, <1>6, OthersWait
<1> QED BY <1>7, <1>8, <1>9, <1>10

\* The browser takes the answer: a token that nobody else holds, or none.
LEMMA DeliverInTurn ==
  ASSUME SessionInv, InTurn, NEW r \in Requests, Deliver(r)
  PROVE  InTurn'
<1> SUFFICES ASSUME ~ disturbed'
             PROVE  OneAtATime' /\ JarsGood'
                    /\ \A s \in Requests : TakesItsTurn(s)'
  BY DEF InTurn
<1> DEFINE mine == BrowserOf[tab[r]]
<1>1. /\ UNCHANGED <<tokens, version, issued, kind, tab, sent, seen>>
      /\ UNCHANGED <<answer, made>> /\ ~ disturbed
      /\ stage[r] = "reply" /\ stage' = [stage EXCEPT ![r] = "ended"]
      /\ jar' = [jar EXCEPT ![mine] =
                   IF answer[r] = "ok" THEN made[r]
                   ELSE IF answer[r] \in {"reuse", "out"} THEN NoToken ELSE @]
  BY DEF Deliver, document, request
<1>2. /\ \A s \in Requests \ {r} : stage[s] \notin Handling
      /\ JarsGood /\ \A s \in Requests : TakesItsTurn(s)
  BY <1>1, MyTurn DEF Handling
<1>3. /\ stage \in [Requests -> {"new", "ended"} \cup Handling]
      /\ jar \in [Browsers -> 0..issued] /\ issued \in Nat
      /\ mine \in Browsers
  BY SessionsAssumption DEF SessionInv, SessionsTypeOK
<1>4. stage'[r] = "ended" /\ \A s \in Requests \ {r} : stage'[s] = stage[s]
  BY <1>1, <1>3
<1>5. \A s \in Requests : stage'[s] \notin Handling
  BY <1>2, <1>4 DEF Handling
<1>6. OneAtATime'
  BY <1>5 DEF OneAtATime
<1>7. \A b \in Browsers \ {mine} :
        jar'[b] = jar[b] /\ (jar[b] # NoToken => jar[b] \in tokens)
  BY <1>1, <1>2, <1>3 DEF JarsGood, Handling
<1>8. jar'[mine] # NoToken => /\ jar'[mine] \in tokens
                              /\ \A b \in Browsers : jar[b] # jar'[mine]
  <2>1. CASE answer[r] = "ok"
    BY <1>1, <1>2, <1>3, <2>1 DEF TakesItsTurn
  <2>2. CASE answer[r] = "out"
    BY <1>1, <1>3, <2>2
  <2>3. CASE answer[r] \notin {"ok", "out"}
    <3>1. answer[r] # "reuse" /\ jar[mine] = NoToken
      BY <1>1, <1>2, <2>3 DEF TakesItsTurn, Holds
    <3> QED BY <1>1, <1>3, <2>3, <3>1
  <2> QED BY <2>1, <2>2, <2>3
<1>9. JarsGood'
  <2>1. \A b \in Browsers : jar'[b] # NoToken => jar'[b] \in tokens'
    BY <1>1, <1>7, <1>8
  <2>2. ASSUME NEW a \in Browsers, NEW b \in Browsers,
               jar'[a] = jar'[b], jar'[a] # NoToken
        PROVE  a = b
    BY <1>2, <1>3, <1>7, <1>8, <2>2 DEF JarsGood
  <2> QED BY <2>1, <2>2 DEF JarsGood
<1>10. \A s \in Requests : TakesItsTurn(s)'
  <2>1. \A s \in Requests \ {r} : TakesItsTurn(s)'
    BY <1>1, <1>2, <1>4, OthersWait
  <2>2. TakesItsTurn(r)'
    BY <1>1, <1>2, <1>4 DEF TakesItsTurn
  <2> QED BY <2>1, <2>2
<1> QED BY <1>6, <1>9, <1>10

\* Every step keeps the turns: one that ends them is marked as a disturbance.
LEMMA NextInTurn ==
  ASSUME SessionInv, InTurn, [SessionsNext]_sessionVars
  PROVE  InTurn'
<1>1. ASSUME NEW r \in Requests, NEW t \in Tabs, NEW k \in Kind, Send(r, t, k)
      PROVE  InTurn'
  BY <1>1, SendInTurn
<1>2. ASSUME NEW r \in Requests, Handle(r)
      PROVE  InTurn'
  <2>1. CASE Lose(r)
    BY <2>1 DEF Lose, InTurn
  <2> QED BY <1>2, <2>1, ReadInTurn, LoginInTurn, RotateInTurn, NoAlarmInTurn,
          LogoutInTurn, DeliverInTurn DEF Handle
<1>3. CASE UNCHANGED sessionVars
  BY <1>3 DEF sessionVars, document, request, InTurn, OneAtATime, JarsGood,
              TakesItsTurn, Holds, Current
<1> QED BY <1>1, <1>2, <1>3 DEF SessionsNext, Idle
-----------------------------------------------------------------------------
(* The theorems *)

\* The inductive invariant of the session handlers holds in every state:
\* types, version guards, and the two properties of exchanged tokens.
THEOREM SessionInvariant == SessionsSpec => []SessionInv
<1>1. SessionInv /\ [SessionsNext]_sessionVars => SessionInv'
  BY NextKeeps
<1> QED BY InitSession, <1>1, PTL DEF SessionsSpec

\* No refresh token is ever exchanged twice, whatever number of tabs and
\* browsers present it at the same time (rotateRefreshToken).
THEOREM TokensExchangedOnce == SessionsSpec => []ExchangedOnce
<1>1. SessionInv => ExchangedOnce
  BY DEF SessionInv
<1> QED BY SessionInvariant, <1>1, PTL

\* A token that was exchanged is not stored any more, for ever.
THEOREM SpentTokensDead == SessionsSpec => []SpentIsDead
<1>1. SessionInv => SpentIsDead
  BY DEF SessionInv
<1> QED BY SessionInvariant, <1>1, PTL

\* No step brings a removed token back: every token stored after a step was
\* stored before it, or was issued by it.
THEOREM RemovedTokensStayRemoved == SessionsSpec => DeadStaysDead
<1> DEFINE Fresh == \A t \in tokens' : t \in tokens \/ t > issued
<1>1. ASSUME SessionInv, [SessionsNext]_sessionVars PROVE [Fresh]_sessionVars
  <2>1. issued \in Nat /\ tokens \subseteq 1..issued
    BY <1>1 DEF SessionInv, SessionsTypeOK
  <2>2. ASSUME NEW r \in Requests, NEW t \in Tabs, NEW k \in Kind, Send(r, t, k)
        PROVE  Fresh
    BY <2>2 DEF Send, document
  <2>3. ASSUME NEW r \in Requests, Handle(r) PROVE Fresh
    <3>1. CASE ReadUser(r) \/ Deliver(r) \/ Lose(r)
      BY <3>1 DEF ReadUser, Deliver, Lose, document
    <3>2. CASE Login(r)
      BY <2>1, <3>2 DEF Login, SaveTokens
    <3>3. CASE Rotate(r)
      <4>1. seen[r].tokens = tokens
        BY <1>1, <3>3, ReadIsCurrent DEF Rotate
      <4> QED BY <2>1, <3>3, <4>1 DEF Rotate, Rotated, SaveTokens
    <3>4. CASE RotateFails(r) \/ RevokeAll(r)
      BY <3>4 DEF RotateFails, RevokeAll, SaveTokens, document
    <3>5. CASE Logout(r)
      <4>1. Current(r) => seen[r].tokens = tokens
        BY <1>1, <3>5, ReadIsCurrent DEF Logout
      <4> QED BY <3>5, <4>1 DEF Logout, SaveTokens, document
    <3> QED BY <2>3, <3>1, <3>2, <3>3, <3>4, <3>5 DEF Handle
  <2>4. CASE UNCHANGED sessionVars
    BY <2>4
  <2> QED BY <1>1, <2>2, <2>3, <2>4 DEF SessionsNext, Idle
<1> QED BY SessionInvariant, <1>1, PTL DEF SessionsSpec, DeadStaysDead
\* As long as requests do not overlap and no answer is lost, no alarm is raised,
\* no browser is left with a dead token, and a logout is final: what can go
\* wrong in refreshController needs two requests at a time or a lost answer.
THEOREM TakingTurnsIsSafe == SessionsSpec => []OrderlyUseIsSafe
<1>1. SessionsInit => SessionInv /\ InTurn
  BY InitSession, InitInTurn
<1>2. SessionInv /\ InTurn /\ [SessionsNext]_sessionVars => (SessionInv /\ InTurn)'
  BY NextKeeps, NextInTurn
<1>3. InTurn => OrderlyUseIsSafe
  BY DEF InTurn, OrderlyUseIsSafe, JarsGood, TakesItsTurn, Handling
<1> QED BY <1>1, <1>2, <1>3, PTL DEF SessionsSpec
==============================================================================
