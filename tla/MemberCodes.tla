----------------------------- MODULE MemberCodes -----------------------------
(***************************************************************************)
(* The accounts of the shop and its back office, as far as who comes first *)
(* and which member code each is given: register and its guard canRegister *)
(* (modules/auth/services/authService.ts, routes/authRoutes.ts),           *)
(* getNextMemberCode and backfillMemberCodes (services/memberCodeService.  *)
(* ts), the start of the server (src/app.ts) and deleteUserController.     *)
(*                                                                         *)
(* Accounts are numbered in the order of their creation; code 0 is none.   *)
(* A unique index on memberCode refuses a write that would repeat a code.  *)
(* Two servers may run at once, as when a new version replaces another.    *)
(***************************************************************************)
EXTENDS Integers, Sequences

CONSTANTS
  Starts,     \* starts of a server process
  StaffCalls, \* calls of POST /auth/register
  ShopCalls,  \* calls of POST /auth/register/public
  Legacy,     \* what the database may hold before: sequences of accounts
  Base        \* MEMBER_CODE_START - 1

Calls == StaffCalls \cup ShopCalls
Procs == Starts \cup Calls
Account == [code : Nat, role : {"admin", "staff", "customer"}, gone : BOOLEAN]

ASSUME MemberCodesAssumption ==
  /\ Starts \cap Calls = {}
  /\ StaffCalls \cap ShopCalls = {}
  /\ Base \in Nat
  /\ Legacy \subseteq Seq(Account)

VARIABLES
  accounts, \* the accounts, with those deleted
  seq,      \* Counter.seq of memberCode; 0 when there is no such document
  pc,       \* pc[p]: what start or call p does next, or how it ended
  given,    \* given[p]: the last code p was given, 0 when none
  top,      \* top[s]: the highest code that start s saw
  missing,  \* missing[s]: the accounts start s has still to give a code
  empty,    \* empty[c]: call c saw no account
  \* history
  handed,   \* every code that the counter has given, in order
  late,     \* the accounts that had no code in the beginning
  skipped,  \* a server went on without its backfill
  overlapped, \* two backfills went on at once
  opener    \* who created the first account: "none", "old", "staff", "shop"

data  == <<accounts, seq>>
local == <<given, top, missing, empty>>
past  == <<handed, late, skipped, overlapped, opener>>
vars  == <<data, pc, local, past>>

Live == {u \in DOMAIN accounts : ~ accounts[u].gone}
Taken == {accounts[u].code : u \in Live} \ {0}
Admins == {u \in Live : accounts[u].role = "admin"}

Higher(m, n) == IF m > n THEN m ELSE n
Goto(p, label) == pc' = [pc EXCEPT ![p] = label]
Resting == {"off", "listening", "down", "done", "rejected", "failed"}
-----------------------------------------------------------------------------
Init ==
  /\ accounts \in Legacy
  /\ seq = 0
  /\ pc = [p \in Procs |-> "off"]
  /\ given = [p \in Procs |-> 0]
  /\ top = [s \in Starts |-> 0]
  /\ missing = [s \in Starts |-> {}]
  /\ empty = [c \in Calls |-> FALSE]
  /\ handed = << >>
  /\ late = {u \in DOMAIN accounts : accounts[u].code = 0}
  /\ skipped = FALSE
  /\ overlapped = FALSE
  /\ opener = IF accounts = << >> THEN "none" ELSE IF Admins = {} THEN "shop" ELSE "old"

(* getNextMemberCode, in two writes *)

Floor(p) ==
  /\ pc[p] = "floor"
  /\ seq' = Higher(seq, Base)
  /\ Goto(p, "next")
  /\ UNCHANGED <<accounts, local, past>>

MutNextCode(p) ==
  /\ pc[p] = "next"
  /\ seq' = seq + 1
  /\ given' = [given EXCEPT ![p] = seq]
  /\ handed' = Append(handed, seq)
  /\ Goto(p, IF p \in Starts THEN "assign" ELSE "create")
  /\ UNCHANGED <<accounts, top, missing, empty, late, skipped, overlapped, opener>>
NextCode(p) ==
  /\ pc[p] = "next"
  /\ seq' = seq + 1
  /\ given' = [given EXCEPT ![p] = seq + 1]
  /\ handed' = Append(handed, seq + 1)
  /\ Goto(p, IF p \in Starts THEN "assign" ELSE "create")
  /\ UNCHANGED <<accounts, top, missing, empty, late, skipped, overlapped, opener>>

(* start and backfillMemberCodes *)

\* User.findOne, highest code first.
FindHighest(s) ==
  /\ pc[s] = "off"
  /\ \E code \in Taken \cup {0} :
       /\ \A other \in Taken : other <= code
       /\ top' = [top EXCEPT ![s] = code]
  /\ overlapped' = (overlapped \/ \E r \in Starts \ {s} : pc[r] \notin Resting)
  /\ Goto(s, "sync")
  /\ UNCHANGED <<data, given, missing, empty, handed, late, skipped, opener>>

\* Counter.updateOne with $max.
Sync(s) ==
  /\ pc[s] = "sync"
  /\ seq' = Higher(seq, Higher(Base, top[s]))
  /\ Goto(s, "find")
  /\ UNCHANGED <<accounts, local, past>>

\* User.find without code.
MutWithoutCode == Live
WithoutCode == {u \in Live : accounts[u].code = 0}
FindMissing(s) ==
  /\ pc[s] = "find"
  /\ missing' = [missing EXCEPT ![s] = WithoutCode]
  /\ Goto(s, IF WithoutCode = {} THEN "listening" ELSE "floor")
  /\ UNCHANGED <<data, given, top, empty, past>>

\* The server goes on when its backfill fails.
Skip(s) == Goto(s, "listening") /\ skipped' = TRUE

\* The accounts found are taken in the order of their creation.
MutOldest(u, S) == u \in S /\ \A v \in S : v <= u
Oldest(u, S) == u \in S /\ \A v \in S : u <= v

\* User.updateOne: whatever code account u has by now.
Assign(s, u) ==
  /\ pc[s] = "assign"
  /\ Oldest(u, missing[s])
  /\ IF u \in Live /\ \E v \in Live \ {u} : accounts[v].code = given[s]
     THEN Skip(s) /\ UNCHANGED <<accounts, missing>>
     ELSE /\ accounts' = IF u \in Live THEN [accounts EXCEPT ![u].code = given[s]]
                         ELSE accounts
          /\ missing' = [missing EXCEPT ![s] = @ \ {u}]
          /\ Goto(s, IF missing[s] = {u} THEN "listening" ELSE "floor")
          /\ UNCHANGED skipped
  /\ UNCHANGED <<seq, given, top, empty, handed, late, overlapped, opener>>

BackfillFails(s) ==
  /\ pc[s] \notin Resting
  /\ Skip(s)
  /\ UNCHANGED <<data, local, handed, late, overlapped, opener>>

\* The process ends in the midst of the backfill.
Stop(s) ==
  /\ pc[s] \notin Resting
  /\ Goto(s, "down")
  /\ UNCHANGED <<data, local, past>>

(* register; a call may end anywhere, as when it takes no further step *)

Serving == \E s \in Starts : pc[s] = "listening"

\* canRegister: an admin, or anybody as long as there is no account.
Guard(c) ==
  /\ pc[c] = "off"
  /\ Serving
  /\ \/ (Live = {} \/ Admins # {}) /\ Goto(c, "count")
     \/ Live # {} /\ Goto(c, "rejected")
  /\ UNCHANGED <<data, local, past>>

\* User.countDocuments; the shop comes here at once.
Count(c) ==
  /\ pc[c] = "count" \/ (c \in ShopCalls /\ pc[c] = "off" /\ Serving)
  /\ empty' = [empty EXCEPT ![c] = (Live = {})]
  /\ Goto(c, "floor")
  /\ UNCHANGED <<data, given, top, missing, past>>

\* User.create.  The first account is an admin's, but not one of the shop
\* (enforceRoles); another of the back office has the role that the call names.
MutRoles(c) ==
  IF c \in ShopCalls THEN {"customer"}
  ELSE IF empty[c] THEN {"staff"} ELSE {"admin", "staff", "customer"}
Roles(c) ==
  IF c \in ShopCalls THEN {"customer"}
  ELSE IF empty[c] THEN {"admin"} ELSE {"admin", "staff", "customer"}
Create(c) ==
  /\ pc[c] = "create"
  /\ IF given[c] \in Taken THEN Goto(c, "failed") /\ UNCHANGED <<accounts, opener>>
     ELSE /\ \E role \in Roles(c) :
               accounts' = Append(accounts, [code |-> given[c], role |-> role,
                                             gone |-> FALSE])
          /\ opener' = IF opener # "none" THEN opener
                       ELSE IF c \in ShopCalls THEN "shop" ELSE "staff"
          /\ Goto(c, "done")
  /\ UNCHANGED <<seq, local, handed, late, skipped, overlapped>>

\* deleteUserController: an admin deletes somebody who is none.
Delete(u) ==
  /\ Serving
  /\ Admins # {}
  /\ u \in Live \ Admins
  /\ accounts' = [accounts EXCEPT ![u].gone = TRUE]
  /\ UNCHANGED <<seq, pc, local, past>>

Start(s) ==
  \/ FindHighest(s) \/ Sync(s) \/ FindMissing(s)
  \/ \E u \in missing[s] : Assign(s, u)
  \/ BackfillFails(s) \/ Stop(s)
Register(c) == Count(c) \/ Create(c)

Next ==
  \/ \E s \in Starts : Start(s)
  \/ \E c \in StaffCalls : Guard(c)
  \/ \E c \in Calls : Register(c)
  \/ \E p \in Procs : Floor(p) \/ NextCode(p)
  \/ \E u \in DOMAIN accounts : Delete(u)

Spec == Init /\ [][Next]_vars
-----------------------------------------------------------------------------
(* Properties *)

\* Type correctness.
TypeOK ==
  /\ accounts \in Seq(Account)
  /\ seq \in Nat
  /\ pc \in [Procs -> Resting \cup {"sync", "find", "floor", "next", "assign",
                                    "count", "create"}]
  /\ given \in [Procs -> Nat]
  /\ top \in [Starts -> Nat]
  /\ missing \in [Starts -> SUBSET DOMAIN accounts]
  /\ empty \in [Calls -> BOOLEAN]
  /\ handed \in Seq(Nat)
  /\ late \subseteq DOMAIN accounts
  /\ skipped \in BOOLEAN /\ overlapped \in BOOLEAN
  /\ opener \in {"none", "old", "staff", "shop"}

\* getNextMemberCode never gives a code twice: not to two who ask, nor to a
\* backfill that asks again and again, however starts of servers, which put the
\* counter forward, fall in between.
NoneGivenTwice == \A i, j \in DOMAIN handed : i # j => handed[i] # handed[j]

\* A code that is about to be written is nobody's, so that no registration is
\* refused by the index, as long as every server has synchronised the counter
\* before it served.
CodeIsFree ==
  ~ skipped => \A p \in Procs : pc[p] \in {"assign", "create"} => given[p] \notin Taken

\* A member keeps the code he was given, unless two servers backfill at once.
CodeIsKept ==
  [][\A u \in Live : accounts[u].code # 0 =>
       accounts'[u].code = accounts[u].code \/ overlapped]_vars

\* Members from before there were codes are numbered in the order in which they
\* joined, even when the backfill breaks off and is taken up by another start.
OldestFirst ==
  overlapped \/
    \A u, v \in late :
      u < v /\ ~ accounts[u].gone /\ accounts[v].code # 0 =>
        accounts[u].code \in 1..(accounts[v].code - 1)

\* There is an admin among the accounts, unless the first one was created by
\* the shop: then nobody can create an admin any more.
AdminExists == Live # {} /\ Admins = {} => opener = "shop"
-----------------------------------------------------------------------------
(* Why the properties hold: the parts of an inductive invariant *)

Labels ==
  /\ \A s \in Starts : pc[s] \in {"off", "sync", "find", "floor", "next", "assign",
                                "listening", "down"}
  /\ \A c \in Calls : pc[c] \in {"off", "count", "floor", "next", "create", "done",
                               "rejected", "failed"}

\* The counter is never behind a code that it gave.
CounterHolds ==
  /\ \A p \in Procs : given[p] <= seq
  /\ \A p \in Procs : pc[p] \in {"assign", "create"} => given[p] > 0

\* Nor are the codes given before, and no two processes hold the same one.
HandedBelow == \A i \in DOMAIN handed : handed[i] <= seq
NoneShared ==
  \A p, q \in Procs : p # q /\ given[p] # 0 => given[p] # given[q]

\* Calls are answered by a server that serves.
Served == \A c \in Calls : pc[c] \in {"count", "floor", "next", "create"} => Serving

\* A server that has synchronised the counter has put it past every code, and
\* one that is about to do so knows the codes the counter has not given.
Synced(s) == pc[s] \in {"find", "floor", "next", "assign", "listening"}
CounterAhead ==
  ~ skipped =>
    /\ (\E s \in Starts : Synced(s)) => \A u \in Live : accounts[u].code <= seq
    /\ \A s \in Starts : pc[s] = "sync" =>
         \A u \in Live : accounts[u].code <= Higher(seq, top[s])

\* As long as there is no account, every call under way has seen none; and who
\* created the first one was made an admin by the back office.
FirstIsAdmin ==
  /\ opener = "none" <=> accounts = << >>
  /\ accounts = << >> =>
       \A c \in Calls : pc[c] \in {"floor", "next", "create"} => empty[c]
  /\ opener \in {"old", "staff"} => Admins # {}

\* Unless two overlapped, one backfill is under way, has found every account
\* of the beginning that still has no code, and none that has one.
OneBackfill ==
  ~ overlapped =>
    /\ \A r, s \in Starts : pc[r] \notin Resting /\ pc[s] \notin Resting => r = s
    /\ \A s \in Starts : pc[s] \in {"floor", "next", "assign"} =>
         /\ \A u \in missing[s] : accounts[u].code = 0
         /\ \A u \in late \cap Live : accounts[u].code = 0 => u \in missing[s]

\* And the code it is about to write is higher than those it has written.
CodesAscend ==
  ~ overlapped =>
    /\ \A u \in late : accounts[u].code <= seq
    /\ \A s \in Starts : pc[s] = "assign" =>
         \A u \in late : accounts[u].code < given[s]

CodesInv ==
  /\ TypeOK /\ Labels /\ CounterHolds /\ NoneShared /\ HandedBelow /\ NoneGivenTwice
  /\ Served /\ CounterAhead
  /\ CodeIsFree /\ FirstIsAdmin /\ OneBackfill /\ CodesAscend /\ OldestFirst
=============================================================================
