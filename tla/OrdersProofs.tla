---------------------------- MODULE OrdersProofs ----------------------------
(***************************************************************************)
(* Proofs about Orders, for any number of calls of any kind.  OrderInv is  *)
(* inductive: Typed, Kept and Vouched say what the fields and the copies   *)
(* of the calls may be, the other parts why each property holds.  There is *)
(* one lemma per action, and under it one step per part; what an action    *)
(* does to its own call is stated first (Moves).  Onward, about the parcel *)
(* and its status, is inductive beside it.                                 *)
(***************************************************************************)
EXTENDS Orders, SequenceTheorems, TLAPS

\* Type correctness in four parts, beside that of pc, npc and seen.
StatusTyped ==
  /\ byCarrier \in BOOLEAN /\ notified \in BOOLEAN
  /\ paid \in PaymentStatus \cup {"other"} /\ shipping \in ShippingStatus
PaymentTyped ==
  /\ payway \in Seq(PaywayStatus)
  /\ txn \in 0..Len(payway) /\ payId \in 0..Len(payway)
  /\ cleared \subseteq DOMAIN payway
DispatchTyped ==
  /\ pedidos \in Nat /\ pedido \in 0..pedidos
  /\ parcels \in Seq(ShippingStatus) /\ envio \in 0..Len(parcels)
HistoryTyped ==
  /\ source \in cleared \cup {0} /\ stale \subseteq Calls /\ mails \in Nat
  /\ doubtful \subseteq
       {"payment", "pedido", "unserved", "mail", "untold", "shipping", "pickup"}

\* What a call keeps before it has read anything.
LEMMA NothingIsEmpty ==
  /\ Nothing \in Copy
  /\ Nothing.payment = 0 /\ Nothing.status = "pending" /\ Nothing.number = 0
BY DEF Nothing, Copy, PaymentStatus, ShippingStatus

\* A call that ends forgets what it kept.
LEMMA Ends ==
  ASSUME Typed, NEW c \in Calls, End(c)
  PROVE  /\ pc' \in [Calls -> Labels] /\ pc'[c] = "ended"
         /\ seen' \in [Calls -> Copy] /\ seen'[c] = Nothing
         /\ \A d \in Calls \ {c} : pc'[d] = pc[d] /\ seen'[d] = seen[d]
BY NothingIsEmpty DEF End, Goto, Typed, Labels

\* A call goes on, and keeps what it keeps.
LEMMA Goes ==
  ASSUME Typed, NEW c \in Calls, NEW label \in Labels, Goto(c, label)
  PROVE  /\ pc' \in [Calls -> Labels] /\ pc'[c] = label
         /\ \A d \in Calls \ {c} : pc'[d] = pc[d]
BY DEF Goto, Typed

\* A call keeps something, each in its field.
LEMMA KeepsNumber ==
  ASSUME Typed, NEW c \in Calls, NEW n \in Nat, Keep(c, "number", n)
  PROVE  /\ seen' \in [Calls -> Copy]
         /\ \A d \in Calls \ {c} : seen'[d] = seen[d]
         /\ seen'[c].number = n
         /\ seen'[c].payment = seen[c].payment
         /\ seen'[c].status = seen[c].status
         /\ seen'[c].first = seen[c].first
<1>1. seen' = [seen EXCEPT ![c] = [seen[c] EXCEPT !.number = n]]
  BY DEF Keep, Typed
<1>2. seen[c] \in Copy
  BY DEF Typed
<1>3. [seen[c] EXCEPT !.number = n] \in Copy
  BY <1>2 DEF Copy
<1> QED BY <1>1, <1>2, <1>3 DEF Typed, Copy

\* What a call keeps, with another mark of being the first.
LEMMA KeepsFirst ==
  ASSUME Typed, NEW c \in Calls, NEW b \in BOOLEAN, Keep(c, "first", b)
  PROVE  /\ seen' \in [Calls -> Copy]
         /\ \A d \in Calls \ {c} : seen'[d] = seen[d]
         /\ seen'[c].first = b
         /\ seen'[c].number = seen[c].number
         /\ seen'[c].payment = seen[c].payment
         /\ seen'[c].status = seen[c].status
<1>1. seen' = [seen EXCEPT ![c] = [seen[c] EXCEPT !.first = b]]
  BY DEF Keep, Typed
<1>2. seen[c] \in Copy
  BY DEF Typed
<1>3. [seen[c] EXCEPT !.first = b] \in Copy
  BY <1>2 DEF Copy
<1> QED BY <1>1, <1>2, <1>3 DEF Typed, Copy

\* What a call keeps, with another shipping status read.
LEMMA KeepsShipping ==
  ASSUME Typed, NEW c \in Calls, NEW s \in ShippingStatus, Keep(c, "shipping", s)
  PROVE  /\ seen' \in [Calls -> Copy]
         /\ \A d \in Calls \ {c} : seen'[d] = seen[d]
         /\ seen'[c].number = seen[c].number
         /\ seen'[c].payment = seen[c].payment
         /\ seen'[c].status = seen[c].status
<1>1. seen' = [seen EXCEPT ![c] = [seen[c] EXCEPT !.shipping = s]]
  BY DEF Keep, Typed
<1>2. seen[c] \in Copy
  BY DEF Typed
<1>3. [seen[c] EXCEPT !.shipping = s] \in Copy
  BY <1>2 DEF Copy
<1> QED BY <1>1, <1>2, <1>3 DEF Typed, Copy

\* What a call keeps, with another status answered.
LEMMA KeepsStatus ==
  ASSUME Typed, NEW c \in Calls, NEW s \in ShippingStatus, Keep(c, "status", s)
  PROVE  /\ seen' \in [Calls -> Copy]
         /\ \A d \in Calls \ {c} : seen'[d] = seen[d]
         /\ seen'[c].payment = seen[c].payment
         /\ seen'[c].status = s
<1>1. seen' = [seen EXCEPT ![c] = [seen[c] EXCEPT !.status = s]]
  BY DEF Keep, Typed
<1>2. seen[c] \in Copy
  BY DEF Typed
<1>3. [seen[c] EXCEPT !.status = s] \in Copy
  BY <1>2 DEF Copy
<1> QED BY <1>1, <1>2, <1>3 DEF Typed, Copy

\* The same of two fields at once.
LEMMA KeepsSession ==
  ASSUME Typed, NEW c \in Calls, NEW p \in Nat, NEW n \in Nat,
         seen' = [seen EXCEPT ![c].payment = p, ![c].number = n]
  PROVE  /\ seen' \in [Calls -> Copy]
         /\ \A d \in Calls \ {c} : seen'[d] = seen[d]
         /\ seen'[c].payment = p /\ seen'[c].number = n
         /\ seen'[c].status = seen[c].status
<1>1. seen' = [seen EXCEPT ![c] = [seen[c] EXCEPT !.payment = p, !.number = n]]
  BY DEF Typed
<1>2. seen[c] \in Copy
  BY DEF Typed
<1>3. [seen[c] EXCEPT !.payment = p, !.number = n] \in Copy
  BY <1>2 DEF Copy
<1> QED BY <1>1, <1>2, <1>3 DEF Typed, Copy

\* What a call keeps, with another parcel and its status.
LEMMA KeepsEnvio ==
  ASSUME Typed, NEW c \in Calls, NEW n \in Nat, NEW s \in ShippingStatus,
         seen' = [seen EXCEPT ![c].number = n, ![c].shipping = s]
  PROVE  /\ seen' \in [Calls -> Copy]
         /\ \A d \in Calls \ {c} : seen'[d] = seen[d]
         /\ seen'[c].number = n /\ seen'[c].payment = seen[c].payment
         /\ seen'[c].status = seen[c].status
<1>1. seen' = [seen EXCEPT ![c] = [seen[c] EXCEPT !.number = n, !.shipping = s]]
  BY DEF Typed
<1>2. seen[c] \in Copy
  BY DEF Typed
<1>3. [seen[c] EXCEPT !.number = n, !.shipping = s] \in Copy
  BY <1>2 DEF Copy
<1> QED BY <1>1, <1>2, <1>3 DEF Typed, Copy

\* What a call keeps, with the shipping status read and whether there is a parcel.
LEMMA KeepsReading ==
  ASSUME Typed, NEW c \in Calls, NEW s \in ShippingStatus, NEW b \in BOOLEAN,
         seen' = [seen EXCEPT ![c].shipping = s, ![c].first = b]
  PROVE  /\ seen' \in [Calls -> Copy]
         /\ \A d \in Calls \ {c} : seen'[d] = seen[d]
         /\ seen'[c].number = seen[c].number /\ seen'[c].payment = seen[c].payment
         /\ seen'[c].status = seen[c].status
<1>1. seen' = [seen EXCEPT ![c] = [seen[c] EXCEPT !.shipping = s, !.first = b]]
  BY DEF Typed
<1>2. seen[c] \in Copy
  BY DEF Typed
<1>3. [seen[c] EXCEPT !.shipping = s, !.first = b] \in Copy
  BY <1>2 DEF Copy
<1> QED BY <1>1, <1>2, <1>3 DEF Typed, Copy

\* The status that the answer comes down to.
LEMMA Mapping ==
  ASSUME NEW n, payway[n] \in PaywayStatus
  PROVE  Mapped(n) \in PaymentStatus /\ (Mapped(n) = "approved" <=> payway[n] = "approved")
BY DEF Mapped, PaywayStatus, PaymentStatus

\* Payway's answer about payment n.
LEMMA Answers ==
  ASSUME Typed, NEW c \in Calls, NEW n \in DOMAIN payway, Answer(c, n)
  PROVE  /\ seen' \in [Calls -> Copy]
         /\ \A d \in Calls \ {c} : seen'[d] = seen[d]
         /\ seen'[c].payment = n
         /\ seen'[c].status \in PaymentStatus
         /\ seen'[c].status = "approved" <=> payway[n] = "approved"
<1>1. seen[c] \in Copy /\ n \in Nat /\ payway[n] \in PaywayStatus
  BY DEF Typed, TypeOK
<1>2. seen' = [seen EXCEPT ![c] = [seen[c] EXCEPT !.payment = n, !.status = Mapped(n)]]
  BY <1>1 DEF Answer, Copy, Typed
<1>3. Mapped(n) \in PaymentStatus /\ (Mapped(n) = "approved" <=> payway[n] = "approved")
  BY <1>1, Mapping
<1>4. [seen[c] EXCEPT !.payment = n, !.status = Mapped(n)] \in Copy
  BY <1>1, <1>3 DEF Copy
<1> QED BY <1>1, <1>2, <1>3, <1>4 DEF Typed, Copy

\* Call c moves and the others stay.
NoticeLabels == {"none", "read", "mail", "stamp"}
Moves(c) ==
  /\ pc' \in [Calls -> Labels]
  /\ npc' \in [Calls -> NoticeLabels]
  /\ seen' \in [Calls -> Copy]
  /\ \A d \in Calls \ {c} : pc'[d] = pc[d] /\ npc'[d] = npc[d] /\ seen'[d] = seen[d]

\* Typed of the next state, from its parts.
LEMMA TypedParts ==
  ASSUME Typed, NEW c \in Calls, Moves(c), kind' = kind, placed' = placed,
         StatusTyped', PaymentTyped', DispatchTyped', HistoryTyped',
         Len(payway) <= Len(payway'), seen'[c].payment \in 0..Len(payway')
  PROVE  Typed'
<1>1. \A d \in Calls : seen'[d].payment \in 0..Len(payway')
  <2> SUFFICES ASSUME NEW d \in Calls \ {c} PROVE seen'[d].payment \in 0..Len(payway')
    OBVIOUS
  <2>1. seen'[d] = seen[d] /\ seen[d].payment \in 0..Len(payway)
    BY DEF Moves, Typed, TypeOK
  <2> QED BY <2>1 DEF PaymentTyped
<1> QED BY <1>1 DEF Typed, TypeOK, Moves, NoticeLabels, StatusTyped,
           PaymentTyped,
                    DispatchTyped, HistoryTyped

\* What a call keeps stays right as sessions, pedidos and parcels are added.
Grows ==
  /\ Len(payway) <= Len(payway')
  /\ \A n \in DOMAIN payway : payway[n] # "none" => payway'[n] # "none"
  /\ pedidos <= pedidos' /\ pedidos' \in Nat
  /\ Len(parcels) <= Len(parcels')
  /\ payway' \in Seq(PaywayStatus) /\ parcels' \in Seq(ShippingStatus)
\* Calls other than the one that moves keep what is right.
LEMMA OthersKeep ==
  ASSUME Typed, Kept, NEW c \in Calls, Moves(c), Grows
  PROVE  \A d \in Calls \ {c} : KeepsRight(d)'
<1> SUFFICES ASSUME NEW d \in Calls \ {c} PROVE KeepsRight(d)'
  OBVIOUS
<1>1. pc'[d] = pc[d] /\ npc'[d] = npc[d] /\ seen'[d] = seen[d] /\ KeepsRight(d)
  BY DEF Moves, Kept, KeepsRight
<1>2. seen[d] \in Copy /\ seen[d].payment \in 0..Len(payway)
  BY DEF Typed, TypeOK
<1> QED BY <1>1, <1>2 DEF KeepsRight, Grows, Copy, Typed, TypeOK

\* Steps that have no part in the pedido, in the mail, or in who will send it.
LEMMA PedidoUntouched ==
  ASSUME OrderInv, NEW c \in Calls, Moves(c), {pc[c], pc'[c]} \cap {"post", "keep"} = {},
         pedido' = pedido, pedidos' = pedidos, doubtful \subseteq doubtful'
  PROVE  OnePedido'
<1>1. Making' = Making
  BY DEF Moves, Making
<1>2. \A d \in Making : pc'[d] = pc[d] /\ seen'[d] = seen[d]
  BY DEF Moves, Making
<1> QED BY <1>1, <1>2 DEF OrderInv, OnePedido

\* A step that touches no notification leaves OneMail as it is.
LEMMA MailUntouched ==
  ASSUME OrderInv, NEW c \in Calls, Moves(c), npc'[c] \in {npc[c], "read"},
         npc[c] \notin {"mail", "stamp"}, kind' = kind, placed' = placed,
         notified' = notified, mails' = mails, doubtful \subseteq doubtful'
  PROVE  OneMail'
<1>1. Writing' = Writing
  BY DEF Moves, Writing, Syncs
<1>2. \A d \in Writing : npc'[d] = npc[d]
  BY DEF Moves, Writing, Syncs
<1> QED BY <1>1, <1>2 DEF OrderInv, OneMail

\* A step that ends no notification leaves those who will tell.
LEMMA TellersStay ==
  ASSUME OrderInv, NEW c \in Calls, Moves(c), npc' = npc, kind' = kind, placed' = placed,
         pc[c] \notin {"pedido", "post", "keep"}, pc'[c] # "mark",
         paid' = paid, mails' = mails, doubtful \subseteq doubtful'
  PROVE  Told'
<1>1. \A d \in Calls : WillTell(d) => WillTell(d)'
  BY DEF Moves, WillTell, Syncs
<1>2. \A d \in Calls : pc'[d] = "mark" => pc[d] = "mark" /\ seen'[d] = seen[d]
  BY DEF Moves
<1> QED BY <1>1, <1>2 DEF OrderInv, Told

\* The end of a sync, which may start the notification.
FinishesAs(s) ==
  /\ pc'[s] = "ended" /\ seen'[s] = Nothing
  /\ npc' = IF seen[s].status = "approved" /\ seen[s].first
             THEN [npc EXCEPT ![s] = "read"] ELSE npc
\* What a sync that ends does to its own fields.
LEMMA Finishes ==
  ASSUME Typed, NEW s \in Calls, Finish(s)
  PROVE  Moves(s) /\ FinishesAs(s)
<1>1. End(s)
  BY DEF Finish
<1>2. npc' = IF seen[s].status = "approved" /\ seen[s].first
             THEN [npc EXCEPT ![s] = "read"] ELSE npc
  BY DEF Finish, Typed, TypeOK
<1>3. npc \in [Calls -> NoticeLabels]
  BY DEF Typed, TypeOK, NoticeLabels
<1> QED BY <1>1, <1>2, <1>3, Ends DEF Moves, FinishesAs, NoticeLabels

\* What follows a pedido.
GoesOnAs(c) ==
  IF c \in Syncs THEN FinishesAs(c)
  ELSE /\ npc' = npc
       /\ \/ pc'[c] = "parcel" /\ seen'[c] = seen[c]
          \/ pc'[c] = "ended" /\ seen'[c] = Nothing
\* What a call does to its own fields when its part in the pedido is over.
LEMMA GoesOn ==
  ASSUME Typed, NEW c \in Calls, NEW ok \in BOOLEAN, AfterPedido(c, ok)
  PROVE  Moves(c) /\ GoesOnAs(c)
<1>1. npc \in [Calls -> NoticeLabels]
  BY DEF Typed, TypeOK, NoticeLabels
<1>2. CASE c \in Syncs /\ Finish(c)
  BY <1>2, Finishes DEF GoesOnAs
<1>3. CASE c \notin Syncs /\ Goto(c, "parcel") /\ seen' = seen /\ npc' = npc
  BY <1>1, <1>3, Goes DEF Moves, GoesOnAs, Labels, Typed
<1>4. CASE c \notin Syncs /\ End(c) /\ npc' = npc
  BY <1>1, <1>4, Ends DEF Moves, GoesOnAs
<1> QED BY <1>2, <1>3, <1>4 DEF AfterPedido

\* A call at the pedido goes on, and with it the news for the customer.
Pedidoing(c) == pc[c] \in {"pedido", "post", "keep"}
StaysOn(c) ==
  /\ npc' = npc /\ pc'[c] \in {"post", "keep"}
  /\ seen'[c].payment = seen[c].payment
  /\ seen'[c].status = seen[c].status /\ seen'[c].first = seen[c].first
\* Whoever will tell the customer does so after the step too.
LEMMA TellersGoOn ==
  ASSUME OrderInv, NEW c \in Calls, Moves(c), kind' = kind, placed' = placed,
         Pedidoing(c), StaysOn(c) \/ GoesOnAs(c),
         paid' = paid, mails' = mails, doubtful \subseteq doubtful'
  PROVE  Told'
<1>1. WillTell(c) => WillTell(c)'
  BY DEF Pedidoing, StaysOn, GoesOnAs, FinishesAs, WillTell, Syncs, OrderInv,
     Typed, TypeOK
<1>2. \A d \in Calls \ {c} : WillTell(d) => WillTell(d)'
  BY DEF Moves, WillTell, Syncs
<1>3. \A d \in Calls : pc'[d] = "mark" => pc[d] = "mark" /\ seen'[d] = seen[d]
  BY DEF Moves, Pedidoing, StaysOn, GoesOnAs, FinishesAs
<1> QED BY <1>1, <1>2, <1>3 DEF OrderInv, Told

\* Whoever makes the pedido goes on, or has made it.
LEMMA ServersGoOn ==
  ASSUME OrderInv, NEW c \in Calls, Moves(c), Pedidoing(c),
         \/ pc'[c] = "post" \/ (pc'[c] = "keep" /\ seen'[c].number # 0)
         \/ pedido' # 0 \/ "unserved" \in doubtful',
         pedido # 0 => pedido' # 0,
         paid' = paid, source' = source, byCarrier' = byCarrier,
         doubtful \subseteq doubtful'
  PROVE  Served'
BY DEF OrderInv, Served, Moves

\* The call that makes the pedido starts a notification at most: OneMail stays.
LEMMA NewsGoOn ==
  ASSUME OrderInv, NEW c \in Calls, Moves(c), Pedidoing(c), kind' = kind, placed' = placed,
         StaysOn(c) \/ GoesOnAs(c),
         notified' = notified, mails' = mails, doubtful \subseteq doubtful'
  PROVE  OneMail'
<1>1. npc[c] = "none"
  BY DEF OrderInv, Kept, KeepsRight, Pedidoing
<1>2. npc'[c] \in {npc[c], "read"}
  BY DEF StaysOn, GoesOnAs, FinishesAs, OrderInv, Typed, TypeOK
<1> QED BY <1>1, <1>2, MailUntouched

\* What a call keeps after the pedido, or as it goes on with it.
LEMMA KeepsGoingOn ==
  ASSUME OrderInv, NEW c \in Calls, Pedidoing(c), Moves(c),
         \/ GoesOnAs(c)
         \/ StaysOn(c) /\ (pc'[c] = "keep" => seen'[c].number \in 0..pedidos')
  PROVE  KeepsRight(c)'
<1>1. npc[c] = "none" /\ seen[c].status \in PaymentStatus
  BY DEF OrderInv, Kept, KeepsRight, Pedidoing
<1>2. CASE FinishesAs(c)
  BY <1>2 DEF FinishesAs, KeepsRight
<1>3. CASE npc' = npc /\ pc'[c] \in {"parcel", "ended"}
  BY <1>1, <1>3 DEF KeepsRight
<1>4. CASE StaysOn(c) /\ (pc'[c] = "keep" => seen'[c].number \in 0..pedidos')
  BY <1>1, <1>4 DEF StaysOn, KeepsRight
<1> QED BY <1>2, <1>3, <1>4 DEF GoesOnAs

\* A checkout reads an order that is not approved.
LEMMA OpenCheckoutKeeps ==
  ASSUME OrderInv, NEW c \in Checkouts, OpenCheckout(c), kind' = kind, placed' = placed
  PROVE  OrderInv'
<1> USE DEF OrderInv
<1>0. c \in Calls /\ npc \in [Calls -> NoticeLabels] /\ npc' = npc
  BY DEF OpenCheckout, Checkouts, Syncs, Ships, Refreshes, Pickups, Typed,
     TypeOK,
     NoticeLabels
<1>1. /\ Moves(c)
      /\ pc'[c] # "new"
      /\ \/ pc'[c] = "ended" /\ seen'[c] = seen[c]
         \/ pc'[c] = "session" /\ seen'[c] = seen[c] /\ paid # "approved"
  <2>1. \/ Goto(c, "ended") /\ seen' = seen
        \/ paid # "approved" /\ Goto(c, "session") /\ seen' = seen
    BY <1>0 DEF OpenCheckout, Typed
  <2>2. CASE Goto(c, "ended") /\ seen' = seen
    BY <1>0, <2>2, Goes DEF Moves, Labels, Typed
  <2>3. CASE paid # "approved" /\ Goto(c, "session") /\ seen' = seen
    BY <1>0, <2>3, Goes DEF Moves, Labels, Typed
  <2> QED BY <2>1, <2>2, <2>3
<1>2. Typed'
  <2>1. StatusTyped'
    BY <1>0 DEF StatusTyped, OpenCheckout, order, partners, history, Typed,
       TypeOK, Kept,
       KeepsRight, ShippingStatus, PaymentStatus
  <2>2. PaymentTyped' /\ Len(payway) <= Len(payway')
    BY <1>0, <1>1 DEF PaymentTyped, OpenCheckout, order, partners, history,
       Typed, TypeOK,
       Copy, Kept, KeepsRight
  <2>3. DispatchTyped'
    BY <1>0, <1>1 DEF DispatchTyped, OpenCheckout, order, partners, history,
       Typed,
       TypeOK, Copy, Kept, KeepsRight, ShippingStatus
  <2>4. HistoryTyped'
    BY <1>0 DEF HistoryTyped, OpenCheckout, order, partners, history, Typed,
       TypeOK, Vouched
  <2>5. seen'[c].payment \in 0..Len(payway')
    BY <1>0, <1>1, <2>2 DEF PaymentTyped, Typed, TypeOK
  <2> QED BY <1>0, <1>1, <2>1, <2>2, <2>3, <2>4, <2>5, TypedParts
<1>3. Kept'
  <2>1. Grows
    BY <1>0 DEF OpenCheckout, order, partners, history, Grows, Typed, TypeOK
  <2>2. payId' # 0 => payway'[payId'] # "none"
    BY <1>0, <1>1 DEF OpenCheckout, order, partners, history, Typed, TypeOK,
       Kept,
       KeepsRight
  <2>3. KeepsRight(c)'
    BY <1>0, <1>1 DEF OpenCheckout, order, partners, history, Moves, Typed,
       TypeOK, Kept,
       KeepsRight, PaymentStatus, Copy
  <2> QED BY <1>0, <1>1, <2>1, <2>2, <2>3, OthersKeep DEF Kept
<1>4. Vouched'
  BY <1>0, <1>1 DEF OpenCheckout, order, partners, history, Moves, Typed,
     TypeOK,
     ShippingStatus, PaymentStatus, Vouched, Kept, KeepsRight
<1>5. Earned'
  BY <1>0, <1>1 DEF OpenCheckout, order, partners, history, Moves, Typed,
     TypeOK, Earned,
     NothingForNothing, Vouched
<1>6. Timely'
  BY <1>0, <1>1 DEF OpenCheckout, order, partners, history, Moves, Typed,
     TypeOK,
     PaymentStatus, Timely, Checkouts, Syncs, Refunded, Vouched, Kept, KeepsRight
<1>61. Untouched'
  BY <1>0, <1>1 DEF OpenCheckout, order, partners, history, Moves, Typed,
     TypeOK,
     PaymentStatus, Untouched, Timely, Checkouts, Syncs, Refunded, Vouched, Kept, KeepsRight
<1>7. OnePedido'
  BY <1>0, <1>1, PedidoUntouched DEF OpenCheckout, order, partners, history
<1>8. OneMail'
  BY <1>0, <1>1 DEF OpenCheckout, order, partners, history, OneMail, Writing,
     Syncs
<1>9. Served'
  BY <1>0, <1>1 DEF OpenCheckout, order, partners, history, Moves, Typed,
     TypeOK, Kept,
     KeepsRight, Served
<1>10. Told'
  BY <1>0, <1>1, TellersStay DEF OpenCheckout, order, partners, history
<1> QED BY <1>2, <1>3, <1>4, <1>5, <1>6, <1>61, <1>7, <1>8, <1>9, <1>10

\* A new session has no payment yet.
LEMMA CreateSessionKeeps ==
  ASSUME OrderInv, NEW c \in Checkouts, CreateSession(c), kind' = kind, placed' = placed
  PROVE  OrderInv'
<1> USE DEF OrderInv
<1>0. c \in Calls /\ npc \in [Calls -> NoticeLabels] /\ npc' = npc
  BY DEF CreateSession, Checkouts, Syncs, Ships, Refreshes, Pickups, Typed,
     TypeOK,
     NoticeLabels
<1>1. /\ Moves(c)
      /\ pc'[c] # "new"
      /\ pc'[c] = "store"
      /\ seen'[c].payment = seen[c].payment
      /\ seen'[c].status = seen[c].status
      /\ seen'[c].number = Len(payway')
  <2>1. Keep(c, "number", Len(payway')) /\ Goto(c, "store")
    BY <1>0 DEF CreateSession, Typed
  <2> QED BY <1>0, <2>1, Goes, KeepsNumber DEF Moves, Labels, Typed
<1>11. /\ \A n \in DOMAIN payway : n \in DOMAIN payway' /\ payway'[n] = payway[n]
      /\ \A n \in DOMAIN payway' : n \in DOMAIN payway \/ payway'[n] = "none"
  BY DEF CreateSession, Typed, TypeOK
<1>2. Typed'
  <2>1. StatusTyped'
    BY <1>0 DEF StatusTyped, CreateSession, order, history, Typed, TypeOK, Kept,
       KeepsRight, ShippingStatus, PaymentStatus
  <2>2. PaymentTyped' /\ Len(payway) <= Len(payway')
    BY <1>0, <1>1 DEF PaymentTyped, PaywayStatus, CreateSession, order, history,
       Typed, TypeOK, Copy,
       Kept, KeepsRight
  <2>3. DispatchTyped'
    BY <1>0, <1>1 DEF DispatchTyped, CreateSession, order, history, Typed,
       TypeOK, Copy,
       Kept, KeepsRight, ShippingStatus
  <2>4. HistoryTyped'
    BY <1>0 DEF HistoryTyped, CreateSession, order, history, Typed, TypeOK,
       Vouched
  <2>5. seen'[c].payment \in 0..Len(payway')
    BY <1>0, <1>1, <2>2 DEF PaymentTyped, Typed, TypeOK
  <2> QED BY <1>0, <1>1, <2>1, <2>2, <2>3, <2>4, <2>5, TypedParts
<1>3. Kept'
  <2>1. Grows
    BY <1>0 DEF CreateSession, order, history, Grows, PaywayStatus, Typed,
       TypeOK
  <2>2. payId' # 0 => payway'[payId'] # "none"
    BY <1>0, <1>1 DEF CreateSession, order, history, Typed, TypeOK, Kept,
       KeepsRight
  <2>3. KeepsRight(c)'
    BY <1>0, <1>1 DEF CreateSession, order, history, Moves, Typed, TypeOK, Kept,
       KeepsRight, PaymentStatus, Copy
  <2> QED BY <1>0, <1>1, <2>1, <2>2, <2>3, OthersKeep DEF Kept
<1>4. Vouched'
  <2>1. \A n \in cleared' : payway'[n] \in {"approved", "refunded"}
    BY <1>11 DEF CreateSession, history, Typed, TypeOK, Vouched
  <2>2. \A n \in DOMAIN payway' : payway'[n] = "approved" => n \in cleared'
    BY <1>11 DEF CreateSession, history, Vouched
  <2>3. \A d \in Calls : seen'[d].status = "approved" => seen'[d].payment \in cleared'
    BY <1>0, <1>1 DEF CreateSession, history, Moves, Vouched
  <2>4. paid' = "approved" =>
         source' \in cleared' \/ (source' = 0 /\ placed'.status = "approved")
    BY DEF CreateSession, order, history, Vouched
  <2> QED BY <2>1, <2>2, <2>3, <2>4 DEF Vouched
<1>5. Earned'
  BY <1>0, <1>1 DEF CreateSession, order, history, Moves, Typed, TypeOK, Earned,
     NothingForNothing, Vouched
<1>6. Timely'
  BY <1>0, <1>1 DEF CreateSession, order, history, Moves, Typed, TypeOK,
     PaymentStatus,
     Timely, Checkouts, Syncs, Refunded, Vouched, Kept, KeepsRight
<1>61. Untouched'
  BY <1>0, <1>1 DEF CreateSession, order, history, Moves, Typed, TypeOK,
     PaymentStatus,
     Untouched, Timely, Checkouts, Syncs, Refunded, Vouched, Kept, KeepsRight
<1>7. OnePedido'
  BY <1>0, <1>1, PedidoUntouched DEF CreateSession, order, history
<1>8. OneMail'
  BY <1>0, <1>1 DEF CreateSession, order, history, OneMail, Writing, Syncs
<1>9. Served'
  BY <1>0, <1>1 DEF CreateSession, order, history, Moves, Typed, TypeOK, Kept,
     KeepsRight,
     Served
<1>10. Told'
  BY <1>0, <1>1, TellersStay DEF CreateSession, order, history
<1> QED BY <1>2, <1>3, <1>4, <1>5, <1>6, <1>61, <1>7, <1>8, <1>9, <1>10

\* A checkout writes pending, over an approval too; then it was stale.
LEMMA StoreSessionKeeps ==
  ASSUME OrderInv, NEW c \in Checkouts, StoreSession(c), kind' = kind, placed' = placed
  PROVE  OrderInv'
<1> USE DEF OrderInv
<1>0. c \in Calls /\ npc \in [Calls -> NoticeLabels] /\ npc' = npc
  BY DEF StoreSession, Checkouts, Syncs, Ships, Refreshes, Pickups, Typed,
     TypeOK,
     NoticeLabels
<1>1. /\ Moves(c)
      /\ pc'[c] # "new"
      /\ pc'[c] = "ended" /\ seen'[c] = Nothing
  <2>1. End(c)
    BY <1>0 DEF StoreSession, Typed
  <2> QED BY <1>0, <2>1, Ends DEF Moves, Labels, Typed
<1>2. Typed'
  <2>1. StatusTyped'
    BY <1>0 DEF StatusTyped, StoreSession, partners, Typed, TypeOK, Kept,
       KeepsRight,
       ShippingStatus, PaymentStatus
  <2>2. PaymentTyped' /\ Len(payway) <= Len(payway')
    BY <1>0, <1>1 DEF PaymentTyped, StoreSession, partners, Typed, TypeOK, Copy,
       Kept,
       KeepsRight
  <2>3. DispatchTyped'
    BY <1>0, <1>1 DEF DispatchTyped, StoreSession, partners, Typed, TypeOK,
       Copy, Kept,
       KeepsRight, ShippingStatus
  <2>4. HistoryTyped'
    BY <1>0 DEF HistoryTyped, StoreSession, partners, Typed, TypeOK, Vouched
  <2>5. seen'[c].payment \in 0..Len(payway')
    BY <1>0, <1>1, <2>2, NothingIsEmpty DEF PaymentTyped, Typed, TypeOK
  <2> QED BY <1>0, <1>1, <2>1, <2>2, <2>3, <2>4, <2>5, TypedParts
<1>3. Kept'
  <2>1. Grows
    BY <1>0 DEF StoreSession, partners, Grows, Typed, TypeOK
  <2>2. payId' # 0 => payway'[payId'] # "none"
    BY <1>0, <1>1 DEF StoreSession, partners, Typed, TypeOK, Kept, KeepsRight
  <2>3. KeepsRight(c)'
    BY <1>0, <1>1, NothingIsEmpty DEF StoreSession, partners, Moves, Typed,
       TypeOK, Kept,
       KeepsRight, PaymentStatus, Copy
  <2> QED BY <1>0, <1>1, <2>1, <2>2, <2>3, OthersKeep DEF Kept
<1>4. Vouched'
  BY <1>0, <1>1, NothingIsEmpty DEF StoreSession, partners, Moves, Typed,
     TypeOK,
     ShippingStatus, PaymentStatus, Vouched, Kept, KeepsRight
<1>5. Earned'
  BY <1>0, <1>1, NothingIsEmpty DEF StoreSession, partners, Moves, Typed,
     TypeOK, Earned,
     NothingForNothing, Vouched
<1>6. Timely'
  BY <1>0, <1>1, NothingIsEmpty DEF StoreSession, partners, Moves, Typed,
     TypeOK,
     PaymentStatus, Timely, Checkouts, Syncs, Refunded, Vouched, Kept, KeepsRight
<1>61. Untouched'
  BY <1>0, <1>1, NothingIsEmpty DEF StoreSession, partners, Moves, Typed,
     TypeOK,
     PaymentStatus, Untouched, Timely, Checkouts, Syncs, Refunded, Vouched, Kept, KeepsRight
<1>7. OnePedido'
  BY <1>0, <1>1, PedidoUntouched DEF StoreSession, partners
<1>8. OneMail'
  BY <1>0, <1>1 DEF StoreSession, partners, OneMail, Writing, Syncs
<1>9. Served'
  BY <1>0, <1>1, NothingIsEmpty DEF StoreSession, partners, Moves, Typed,
     TypeOK, Kept,
     KeepsRight, Served
<1>10. Told'
  BY <1>0, <1>1, NothingIsEmpty DEF StoreSession, partners, Moves, Typed,
     TypeOK, Kept,
     KeepsRight, Told, WillTell, Syncs, PaymentStatus
<1> QED BY <1>2, <1>3, <1>4, <1>5, <1>6, <1>61, <1>7, <1>8, <1>9, <1>10

\* A notification reads the status of a payment at Payway.
LEMMA WebhookKeeps ==
  ASSUME OrderInv, NEW s \in Syncs, Webhook(s), kind' = kind, placed' = placed
  PROVE  OrderInv'
<1> USE DEF OrderInv
<1>0. s \in Calls /\ npc \in [Calls -> NoticeLabels] /\ npc' = npc
  BY DEF Webhook, Checkouts, Syncs, Ships, Refreshes, Pickups, Typed, TypeOK,
     NoticeLabels
<1>1. /\ Moves(s)
      /\ pc'[s] # "new"
      /\ \E n \in DOMAIN payway :
              /\ pc'[s] = "find"
              /\ seen'[s].payment = n
              /\ seen'[s].status \in PaymentStatus
              /\ seen'[s].status = "approved" <=> payway[n] = "approved"
              /\ payway[n] # "none"
  <2>1. \E n \in DOMAIN payway : payway[n] # "none" /\ Answer(s, n) /\ Goto(s, "find")
    BY <1>0 DEF Webhook, Typed
  <2> QED BY <1>0, <2>1, Goes, Answers DEF Moves, Labels, Typed
<1>2. Typed'
  <2>1. StatusTyped'
    BY <1>0 DEF StatusTyped, Webhook, order, partners, history, Typed, TypeOK,
       Kept,
       KeepsRight, ShippingStatus, PaymentStatus
  <2>2. PaymentTyped' /\ Len(payway) <= Len(payway')
    BY <1>0, <1>1 DEF PaymentTyped, Webhook, order, partners, history, Typed,
       TypeOK,
       Copy, Kept, KeepsRight
  <2>3. DispatchTyped'
    BY <1>0, <1>1 DEF DispatchTyped, Webhook, order, partners, history, Typed,
       TypeOK,
       Copy, Kept, KeepsRight, ShippingStatus
  <2>4. HistoryTyped'
    BY <1>0 DEF HistoryTyped, Webhook, order, partners, history, Typed, TypeOK,
       Vouched
  <2>5. seen'[s].payment \in 0..Len(payway')
    BY <1>0, <1>1, <2>2 DEF PaymentTyped, Typed, TypeOK
  <2> QED BY <1>0, <1>1, <2>1, <2>2, <2>3, <2>4, <2>5, TypedParts
<1>3. Kept'
  <2>1. Grows
    BY <1>0 DEF Webhook, order, partners, history, Grows, Typed, TypeOK
  <2>2. payId' # 0 => payway'[payId'] # "none"
    BY <1>0, <1>1 DEF Webhook, order, partners, history, Typed, TypeOK, Kept,
       KeepsRight
  <2>3. KeepsRight(s)'
    BY <1>0, <1>1 DEF Webhook, order, partners, history, Moves, Typed, TypeOK,
       Kept,
       KeepsRight, PaymentStatus, Copy
  <2> QED BY <1>0, <1>1, <2>1, <2>2, <2>3, OthersKeep DEF Kept
<1>4. Vouched'
  <2>1. \A d \in Calls : seen'[d].status = "approved" => seen'[d].payment \in cleared
    BY <1>0, <1>1 DEF Moves, Vouched
  <2> QED BY <2>1 DEF Webhook, order, partners, history, Vouched
<1>5. Earned'
  BY <1>0, <1>1 DEF Webhook, order, partners, history, Moves, Typed, TypeOK,
     Earned,
     NothingForNothing, Vouched
<1>6. Timely'
  BY <1>0, <1>1 DEF Webhook, order, partners, history, Moves, Typed, TypeOK,
     PaymentStatus, Timely, Checkouts, Syncs, Refunded, Vouched, Kept, KeepsRight
<1>61. Untouched'
  BY <1>0, <1>1 DEF Webhook, order, partners, history, Moves, Typed, TypeOK,
     PaymentStatus, Untouched, Timely, Checkouts, Syncs, Refunded, Vouched, Kept, KeepsRight
<1>7. OnePedido'
  BY <1>0, <1>1, PedidoUntouched DEF Webhook, order, partners, history
<1>8. OneMail'
  BY <1>0, <1>1 DEF Webhook, order, partners, history, OneMail, Writing, Syncs
<1>9. Served'
  BY <1>0, <1>1 DEF Webhook, order, partners, history, Moves, Typed, TypeOK,
     Kept,
     KeepsRight, Served
<1>10. Told'
  BY <1>0, <1>1, TellersStay DEF Webhook, order, partners, history
<1> QED BY <1>2, <1>3, <1>4, <1>5, <1>6, <1>61, <1>7, <1>8, <1>9, <1>10

\* A notification finds its order, or none.
LEMMA FindOrderKeeps ==
  ASSUME OrderInv, NEW s \in Syncs, FindOrder(s), kind' = kind, placed' = placed
  PROVE  OrderInv'
<1> USE DEF OrderInv
<1>0. s \in Calls /\ npc \in [Calls -> NoticeLabels] /\ npc' = npc
  BY DEF FindOrder, Checkouts, Syncs, Ships, Refreshes, Pickups, Typed, TypeOK,
     NoticeLabels
<1>1. /\ Moves(s)
      /\ pc'[s] # "new"
      /\ \/ pc'[s] = "ended" /\ seen'[s] = Nothing
         \/ pc'[s] \in {"check", "link"} /\ seen'[s] = seen[s]
  <2>1. \/ End(s)
        \/ \E label \in {"check", "link"} : Goto(s, label) /\ seen' = seen
    BY <1>0 DEF FindOrder, Typed
  <2>2. CASE End(s)
    BY <1>0, <2>2, Ends, Goes DEF Moves, Labels, Typed
  <2>3. CASE \E label \in {"check", "link"} : Goto(s, label) /\ seen' = seen
    BY <1>0, <2>3, Ends, Goes DEF Moves, Labels, Typed
  <2> QED BY <2>1, <2>2, <2>3
<1>2. Typed'
  <2>1. StatusTyped'
    BY <1>0 DEF StatusTyped, FindOrder, order, partners, history, Typed, TypeOK,
       Kept,
       KeepsRight, ShippingStatus, PaymentStatus
  <2>2. PaymentTyped' /\ Len(payway) <= Len(payway')
    BY <1>0, <1>1 DEF PaymentTyped, FindOrder, order, partners, history, Typed,
       TypeOK,
       Copy, Kept, KeepsRight
  <2>3. DispatchTyped'
    BY <1>0, <1>1 DEF DispatchTyped, FindOrder, order, partners, history, Typed,
       TypeOK,
       Copy, Kept, KeepsRight, ShippingStatus
  <2>4. HistoryTyped'
    BY <1>0 DEF HistoryTyped, FindOrder, order, partners, history, Typed,
       TypeOK, Vouched
  <2>5. seen'[s].payment \in 0..Len(payway')
    BY <1>0, <1>1, <2>2, NothingIsEmpty DEF PaymentTyped, Typed, TypeOK
  <2> QED BY <1>0, <1>1, <2>1, <2>2, <2>3, <2>4, <2>5, TypedParts
<1>3. Kept'
  <2>1. Grows
    BY <1>0 DEF FindOrder, order, partners, history, Grows, Typed, TypeOK
  <2>2. payId' # 0 => payway'[payId'] # "none"
    BY <1>0, <1>1 DEF FindOrder, order, partners, history, Typed, TypeOK, Kept,
       KeepsRight
  <2>3. KeepsRight(s)'
    BY <1>0, <1>1, NothingIsEmpty DEF FindOrder, order, partners, history,
       Moves, Typed,
       TypeOK, Kept, KeepsRight, PaymentStatus, Copy
  <2> QED BY <1>0, <1>1, <2>1, <2>2, <2>3, OthersKeep DEF Kept
<1>4. Vouched'
  BY <1>0, <1>1, NothingIsEmpty DEF FindOrder, order, partners, history, Moves,
     Typed,
     TypeOK, ShippingStatus, PaymentStatus, Vouched, Kept, KeepsRight
<1>5. Earned'
  BY <1>0, <1>1, NothingIsEmpty DEF FindOrder, order, partners, history, Moves,
     Typed,
     TypeOK, Earned, NothingForNothing, Vouched
<1>6. Timely'
  BY <1>0, <1>1, NothingIsEmpty DEF FindOrder, order, partners, history, Moves,
     Typed,
     TypeOK, PaymentStatus, Timely, Checkouts, Syncs, Refunded, Vouched, Kept, KeepsRight
<1>61. Untouched'
  BY <1>0, <1>1, NothingIsEmpty DEF FindOrder, order, partners, history, Moves,
     Typed,
     TypeOK, PaymentStatus, Untouched, Timely, Checkouts, Syncs, Refunded, Vouched, Kept, KeepsRight
<1>7. OnePedido'
  BY <1>0, <1>1, PedidoUntouched DEF FindOrder, order, partners, history
<1>8. OneMail'
  BY <1>0, <1>1 DEF FindOrder, order, partners, history, OneMail, Writing, Syncs
<1>9. Served'
  BY <1>0, <1>1, NothingIsEmpty DEF FindOrder, order, partners, history, Moves,
     Typed,
     TypeOK, Kept, KeepsRight, Served
<1>10. Told'
  BY <1>0, <1>1, TellersStay DEF FindOrder, order, partners, history
<1> QED BY <1>2, <1>3, <1>4, <1>5, <1>6, <1>61, <1>7, <1>8, <1>9, <1>10

\* A notification without payment goes on as pending, of payment 0.
LEMMA BareWebhookKeeps ==
  ASSUME OrderInv, NEW s \in Syncs, BareWebhook(s), kind' = kind, placed' = placed
  PROVE  OrderInv'
<1> USE DEF OrderInv
<1>0. s \in Calls /\ npc \in [Calls -> NoticeLabels] /\ npc' = npc
  BY DEF BareWebhook, Checkouts, Syncs, Ships, Refreshes, Pickups, Typed,
     TypeOK,
     NoticeLabels
<1>1. /\ Moves(s)
      /\ pc'[s] # "new"
      /\ pc'[s] = "check" /\ seen'[s] = seen[s]
  <2>1. Goto(s, "check") /\ seen' = seen
    BY <1>0 DEF BareWebhook, Typed
  <2> QED BY <1>0, <2>1, Goes DEF Moves, Labels, Typed
<1>11. seen[s] = Nothing /\ seen'[s].payment \notin cleared
  BY <1>0, <1>1, NothingIsEmpty DEF BareWebhook, Typed, TypeOK, Kept, KeepsRight
<1>2. Typed'
  <2>1. StatusTyped'
    BY <1>0 DEF StatusTyped, BareWebhook, order, partners, history, Typed,
       TypeOK, Kept,
       KeepsRight, ShippingStatus, PaymentStatus
  <2>2. PaymentTyped' /\ Len(payway) <= Len(payway')
    BY <1>0, <1>1 DEF PaymentTyped, BareWebhook, order, partners, history,
       Typed, TypeOK,
       Copy, Kept, KeepsRight
  <2>3. DispatchTyped'
    BY <1>0, <1>1 DEF DispatchTyped, BareWebhook, order, partners, history,
       Typed, TypeOK,
       Copy, Kept, KeepsRight, ShippingStatus
  <2>4. HistoryTyped'
    BY <1>0 DEF HistoryTyped, BareWebhook, order, partners, history, Typed,
       TypeOK, Vouched
  <2>5. seen'[s].payment \in 0..Len(payway')
    BY <1>0, <1>1, <2>2 DEF PaymentTyped, Typed, TypeOK
  <2> QED BY <1>0, <1>1, <2>1, <2>2, <2>3, <2>4, <2>5, TypedParts
<1>3. Kept'
  <2>1. Grows
    BY <1>0 DEF BareWebhook, order, partners, history, Grows, Typed, TypeOK
  <2>2. payId' # 0 => payway'[payId'] # "none"
    BY <1>0, <1>1 DEF BareWebhook, order, partners, history, Typed, TypeOK,
       Kept, KeepsRight
  <2>3. KeepsRight(s)'
    BY <1>0, <1>1, <1>11, NothingIsEmpty DEF BareWebhook, order, partners,
       history, Moves,
       Typed, TypeOK, Kept, KeepsRight, PaymentStatus, Copy
  <2> QED BY <1>0, <1>1, <2>1, <2>2, <2>3, OthersKeep DEF Kept
<1>4. Vouched'
  BY <1>0, <1>1 DEF BareWebhook, order, partners, history, Moves, Typed, TypeOK,
     ShippingStatus, PaymentStatus, Vouched, Kept, KeepsRight
<1>5. Earned'
  BY <1>0, <1>1 DEF BareWebhook, order, partners, history, Moves, Typed, TypeOK,
     Earned,
     NothingForNothing, Vouched
<1>6. Timely'
  <2>1. SUFFICES ASSUME paid = "approved" PROVE Timely'
    BY DEF BareWebhook, order, Timely
  <2>2. source # 0
    BY <2>1 DEF BareWebhook, Untouched
  <2> QED BY <1>0, <1>1, <1>11, <2>2, NothingIsEmpty DEF BareWebhook, order, partners, history,
             Moves, Timely, Checkouts, Syncs, Refunded
<1>61. Untouched'
  BY <1>0, <1>1 DEF BareWebhook, order, partners, history, Moves, Untouched, Syncs
<1>7. OnePedido'
  BY <1>0, <1>1, PedidoUntouched DEF BareWebhook, order, partners, history
<1>8. OneMail'
  BY <1>0, <1>1 DEF BareWebhook, order, partners, history, OneMail, Writing,
     Syncs
<1>9. Served'
  BY <1>0, <1>1 DEF BareWebhook, order, partners, history, Moves, Typed, TypeOK,
     Kept,
     KeepsRight, Served
<1>10. Told'
  BY <1>0, <1>1, TellersStay DEF BareWebhook, order, partners, history
<1> QED BY <1>2, <1>3, <1>4, <1>5, <1>6, <1>61, <1>7, <1>8, <1>9, <1>10

\* A status sync reads the payment and the session of the order.
LEMMA PollKeeps ==
  ASSUME OrderInv, NEW s \in Syncs, Poll(s), kind' = kind, placed' = placed
  PROVE  OrderInv'
<1> USE DEF OrderInv
<1>0. s \in Calls /\ npc \in [Calls -> NoticeLabels] /\ npc' = npc
  BY DEF Poll, Checkouts, Syncs, Ships, Refreshes, Pickups, Typed, TypeOK,
     NoticeLabels
<1>1. /\ Moves(s)
      /\ pc'[s] # "new"
      /\ \/ pc'[s] = "ended" /\ seen'[s] = Nothing
         \/ /\ pc'[s] = "resolve"
            /\ seen'[s].payment = payId
            /\ seen'[s].number = txn
            /\ seen'[s].status = seen[s].status
  <2>1. /\ payId \in Nat
        /\ txn \in Nat
        /\ seen[s].status \in PaymentStatus \cup ShippingStatus \cup {"none"}
    BY <1>0 DEF Typed, TypeOK, Copy
  <2>2. CASE End(s)
    BY <1>0, <2>2, Ends DEF Poll, Moves
  <2>3. CASE /\ seen' = [seen EXCEPT ![s].payment = payId, ![s].number = txn]
             /\ Goto(s, "resolve")
    <3>1. /\ seen' \in [Calls -> Copy]
          /\ \A d \in Calls \ {s} : seen'[d] = seen[d]
          /\ seen'[s].payment = payId /\ seen'[s].number = txn
          /\ seen'[s].status = seen[s].status
      BY <1>0, <2>1, <2>3, KeepsSession
    <3> QED BY <1>0, <2>3, <3>1, Goes DEF Labels, Moves
  <2> QED BY <2>2, <2>3 DEF Poll
<1>2. Typed'
  <2>1. StatusTyped'
    BY <1>0 DEF StatusTyped, Poll, order, partners, history, Typed, TypeOK,
       Kept,
       KeepsRight, ShippingStatus, PaymentStatus
  <2>2. PaymentTyped' /\ Len(payway) <= Len(payway')
    BY <1>0, <1>1 DEF PaymentTyped, Poll, order, partners, history, Typed,
       TypeOK, Copy,
       Kept, KeepsRight
  <2>3. DispatchTyped'
    BY <1>0, <1>1 DEF DispatchTyped, Poll, order, partners, history, Typed,
       TypeOK, Copy,
       Kept, KeepsRight, ShippingStatus
  <2>4. HistoryTyped'
    BY <1>0 DEF HistoryTyped, Poll, order, partners, history, Typed, TypeOK,
       Vouched
  <2>5. seen'[s].payment \in 0..Len(payway')
    BY <1>0, <1>1, <2>2, NothingIsEmpty DEF PaymentTyped, Typed, TypeOK, Poll
  <2> QED BY <1>0, <1>1, <2>1, <2>2, <2>3, <2>4, <2>5, TypedParts
<1>3. Kept'
  <2>1. Grows
    BY <1>0 DEF Poll, order, partners, history, Grows, Typed, TypeOK
  <2>2. payId' # 0 => payway'[payId'] # "none"
    BY <1>0, <1>1 DEF Poll, order, partners, history, Typed, TypeOK, Kept,
       KeepsRight
  <2>3. KeepsRight(s)'
    BY <1>0, <1>1, NothingIsEmpty DEF Poll, order, partners, history, Moves,
       Typed,
       TypeOK, Kept, KeepsRight, PaymentStatus, Copy
  <2> QED BY <1>0, <1>1, <2>1, <2>2, <2>3, OthersKeep DEF Kept
<1>4. Vouched'
  BY <1>0, <1>1, NothingIsEmpty DEF Poll, order, partners, history, Moves,
     Typed, TypeOK,
     ShippingStatus, PaymentStatus, Vouched, Kept, KeepsRight
<1>5. Earned'
  BY <1>0, <1>1, NothingIsEmpty DEF Poll, order, partners, history, Moves,
     Typed, TypeOK,
     Earned, NothingForNothing, Vouched
<1>6. Timely'
  BY <1>0, <1>1, NothingIsEmpty DEF Poll, order, partners, history, Moves,
     Typed, TypeOK,
     PaymentStatus, Timely, Checkouts, Syncs, Refunded, Vouched, Kept, KeepsRight
<1>61. Untouched'
  BY <1>0, <1>1, NothingIsEmpty DEF Poll, order, partners, history, Moves,
     Typed, TypeOK,
     PaymentStatus, Untouched, Timely, Checkouts, Syncs, Refunded, Vouched, Kept, KeepsRight
<1>7. OnePedido'
  BY <1>0, <1>1, PedidoUntouched DEF Poll, order, partners, history
<1>8. OneMail'
  BY <1>0, <1>1 DEF Poll, order, partners, history, OneMail, Writing, Syncs
<1>9. Served'
  BY <1>0, <1>1, NothingIsEmpty DEF Poll, order, partners, history, Moves,
     Typed, TypeOK,
     Kept, KeepsRight, Served
<1>10. Told'
  BY <1>0, <1>1, TellersStay DEF Poll, order, partners, history
<1> QED BY <1>2, <1>3, <1>4, <1>5, <1>6, <1>61, <1>7, <1>8, <1>9, <1>10

\* A status sync is answered by Payway.
LEMMA ResolveKeeps ==
  ASSUME OrderInv, NEW s \in Syncs, Resolve(s), kind' = kind, placed' = placed
  PROVE  OrderInv'
<1> USE DEF OrderInv
<1>0. s \in Calls /\ npc \in [Calls -> NoticeLabels] /\ npc' = npc
  BY DEF Resolve, Checkouts, Syncs, Ships, Refreshes, Pickups, Typed, TypeOK,
     NoticeLabels
<1>1. /\ Moves(s)
      /\ pc'[s] # "new"
      /\ \/ pc'[s] = "ended" /\ seen'[s] = Nothing
         \/ \E n \in DOMAIN payway :
                 /\ pc'[s] \in {"check", "link"}
                 /\ seen'[s].payment = n
                 /\ seen'[s].status \in PaymentStatus
                 /\ seen'[s].status = "approved" <=> payway[n] = "approved"
                 /\ payway[n] # "none"
  <2>1. \/ End(s)
        \/ \E n \in DOMAIN payway, label \in {"check", "link"} :
             payway[n] # "none" /\ Answer(s, n) /\ Goto(s, label)
    <3>1. pc[s] = "resolve" /\ seen[s].payment \in 0..Len(payway)
          /\ seen[s].number \in 0..Len(payway)
          /\ (seen[s].payment # 0 => payway[seen[s].payment] # "none")
      BY <1>0 DEF Resolve, Typed, TypeOK, Copy, Kept, KeepsRight
    <3>2. DOMAIN payway = 1..Len(payway)
      BY DEF Typed, TypeOK
    <3>3. CASE seen[s].payment # 0 /\ Answer(s, seen[s].payment) /\ Goto(s, "check")
      BY <3>1, <3>2, <3>3
    <3>4. CASE /\ seen[s].number # 0 /\ payway[seen[s].number] # "none"
               /\ Answer(s, seen[s].number)
               /\ Goto(s, IF seen[s].number = seen[s].payment THEN "check" ELSE "link")
      BY <3>1, <3>2, <3>4
    <3> QED BY <3>3, <3>4 DEF Resolve
  <2>2. CASE End(s)
    BY <1>0, <2>2, Ends, Goes, Answers DEF Moves, Labels, Typed
  <2>3. CASE \E n \in DOMAIN payway, label \in {"check", "link"} :
                  /\ payway[n] # "none"
                  /\ Answer(s, n)
                  /\ Goto(s, label)
    BY <1>0, <2>3, Ends, Goes, Answers DEF Moves, Labels, Typed
  <2> QED BY <2>1, <2>2, <2>3
<1>2. Typed'
  <2>1. StatusTyped'
    BY <1>0 DEF StatusTyped, Resolve, order, partners, history, Typed, TypeOK,
       Kept,
       KeepsRight, ShippingStatus, PaymentStatus
  <2>2. PaymentTyped' /\ Len(payway) <= Len(payway')
    BY <1>0, <1>1 DEF PaymentTyped, Resolve, order, partners, history, Typed,
       TypeOK,
       Copy, Kept, KeepsRight
  <2>3. DispatchTyped'
    BY <1>0, <1>1 DEF DispatchTyped, Resolve, order, partners, history, Typed,
       TypeOK,
       Copy, Kept, KeepsRight, ShippingStatus
  <2>4. HistoryTyped'
    BY <1>0 DEF HistoryTyped, Resolve, order, partners, history, Typed, TypeOK,
       Vouched
  <2>5. seen'[s].payment \in 0..Len(payway')
    BY <1>0, <1>1, <2>2, NothingIsEmpty DEF PaymentTyped, Typed, TypeOK
  <2> QED BY <1>0, <1>1, <2>1, <2>2, <2>3, <2>4, <2>5, TypedParts
<1>3. Kept'
  <2>1. Grows
    BY <1>0 DEF Resolve, order, partners, history, Grows, Typed, TypeOK
  <2>2. payId' # 0 => payway'[payId'] # "none"
    BY <1>0, <1>1 DEF Resolve, order, partners, history, Typed, TypeOK, Kept,
       KeepsRight
  <2>3. KeepsRight(s)'
    BY <1>0, <1>1, NothingIsEmpty DEF Resolve, order, partners, history, Moves,
       Typed,
       TypeOK, Kept, KeepsRight, PaymentStatus, Copy
  <2> QED BY <1>0, <1>1, <2>1, <2>2, <2>3, OthersKeep DEF Kept
<1>4. Vouched'
  BY <1>0, <1>1, NothingIsEmpty DEF Resolve, order, partners, history, Moves,
     Typed,
     TypeOK, ShippingStatus, PaymentStatus, Vouched, Kept, KeepsRight
<1>5. Earned'
  BY <1>0, <1>1, NothingIsEmpty DEF Resolve, order, partners, history, Moves,
     Typed,
     TypeOK, Earned, NothingForNothing, Vouched
<1>6. Timely'
  BY <1>0, <1>1, NothingIsEmpty DEF Resolve, order, partners, history, Moves,
     Typed,
     TypeOK, PaymentStatus, Timely, Checkouts, Syncs, Refunded, Vouched, Kept, KeepsRight
<1>61. Untouched'
  BY <1>0, <1>1, NothingIsEmpty DEF Resolve, order, partners, history, Moves,
     Typed,
     TypeOK, PaymentStatus, Untouched, Timely, Checkouts, Syncs, Refunded, Vouched, Kept, KeepsRight
<1>7. OnePedido'
  BY <1>0, <1>1, PedidoUntouched DEF Resolve, order, partners, history
<1>8. OneMail'
  BY <1>0, <1>1 DEF Resolve, order, partners, history, OneMail, Writing, Syncs
<1>9. Served'
  BY <1>0, <1>1, NothingIsEmpty DEF Resolve, order, partners, history, Moves,
     Typed,
     TypeOK, Kept, KeepsRight, Served
<1>10. Told'
  BY <1>0, <1>1, TellersStay DEF Resolve, order, partners, history
<1> QED BY <1>2, <1>3, <1>4, <1>5, <1>6, <1>61, <1>7, <1>8, <1>9, <1>10

\* A payment that exists is linked to the order.
LEMMA LinkKeeps ==
  ASSUME OrderInv, NEW s \in Syncs, Link(s), kind' = kind, placed' = placed
  PROVE  OrderInv'
<1> USE DEF OrderInv
<1>0. s \in Calls /\ npc \in [Calls -> NoticeLabels] /\ npc' = npc
  BY DEF Link, Checkouts, Syncs, Ships, Refreshes, Pickups, Typed, TypeOK,
     NoticeLabels
<1>1. /\ Moves(s)
      /\ pc'[s] # "new"
      /\ \/ pc'[s] = "ended" /\ seen'[s] = Nothing /\ payId' = payId
         \/ pc'[s] = "check" /\ seen'[s] = seen[s]
  <2>1. \/ End(s) /\ payId' = payId
        \/ Goto(s, "check") /\ seen' = seen
    BY <1>0 DEF Link, Typed
  <2>2. CASE End(s) /\ payId' = payId
    BY <1>0, <2>2, Ends, Goes DEF Moves, Labels, Typed
  <2>3. CASE Goto(s, "check") /\ seen' = seen
    BY <1>0, <2>3, Ends, Goes DEF Moves, Labels, Typed
  <2> QED BY <2>1, <2>2, <2>3
<1>2. Typed'
  <2>1. StatusTyped'
    BY <1>0 DEF StatusTyped, Link, partners, history, Typed, TypeOK, Kept,
       KeepsRight,
       ShippingStatus, PaymentStatus
  <2>2. PaymentTyped' /\ Len(payway) <= Len(payway')
    BY <1>0, <1>1 DEF PaymentTyped, Link, partners, history, Typed, TypeOK,
       Copy, Kept,
       KeepsRight
  <2>3. DispatchTyped'
    BY <1>0, <1>1 DEF DispatchTyped, Link, partners, history, Typed, TypeOK,
       Copy, Kept,
       KeepsRight, ShippingStatus
  <2>4. HistoryTyped'
    BY <1>0 DEF HistoryTyped, Link, partners, history, Typed, TypeOK, Vouched
  <2>5. seen'[s].payment \in 0..Len(payway')
    BY <1>0, <1>1, <2>2, NothingIsEmpty DEF PaymentTyped, Typed, TypeOK
  <2> QED BY <1>0, <1>1, <2>1, <2>2, <2>3, <2>4, <2>5, TypedParts
<1>3. Kept'
  <2>1. Grows
    BY <1>0 DEF Link, partners, history, Grows, Typed, TypeOK
  <2>2. payId' # 0 => payway'[payId'] # "none"
    BY <1>0, <1>1 DEF Link, partners, history, Typed, TypeOK, Kept, KeepsRight
  <2>3. KeepsRight(s)'
    BY <1>0, <1>1, NothingIsEmpty DEF Link, partners, history, Moves, Typed,
       TypeOK, Kept,
       KeepsRight, PaymentStatus, Copy
  <2> QED BY <1>0, <1>1, <2>1, <2>2, <2>3, OthersKeep DEF Kept
<1>4. Vouched'
  BY <1>0, <1>1, NothingIsEmpty DEF Link, partners, history, Moves, Typed,
     TypeOK,
     ShippingStatus, PaymentStatus, Vouched, Kept, KeepsRight
<1>5. Earned'
  BY <1>0, <1>1, NothingIsEmpty DEF Link, partners, history, Moves, Typed,
     TypeOK, Earned,
     NothingForNothing, Vouched
<1>6. Timely'
  BY <1>0, <1>1, NothingIsEmpty DEF Link, partners, history, Moves, Typed,
     TypeOK,
     PaymentStatus, Timely, Checkouts, Syncs, Refunded, Vouched, Kept, KeepsRight
<1>61. Untouched'
  BY <1>0, <1>1, NothingIsEmpty DEF Link, partners, history, Moves, Typed,
     TypeOK,
     PaymentStatus, Untouched, Timely, Checkouts, Syncs, Refunded, Vouched, Kept, KeepsRight
<1>7. OnePedido'
  BY <1>0, <1>1, PedidoUntouched DEF Link, partners, history
<1>8. OneMail'
  BY <1>0, <1>1 DEF Link, partners, history, OneMail, Writing, Syncs
<1>9. Served'
  BY <1>0, <1>1, NothingIsEmpty DEF Link, partners, history, Moves, Typed,
     TypeOK, Kept,
     KeepsRight, Served
<1>10. Told'
  BY <1>0, <1>1, TellersStay DEF Link, partners, history
<1> QED BY <1>2, <1>3, <1>4, <1>5, <1>6, <1>61, <1>7, <1>8, <1>9, <1>10

\* A sync notes whether the order was approved before it.
LEMMA CheckKeeps ==
  ASSUME OrderInv, NEW s \in Syncs, Check(s), kind' = kind, placed' = placed
  PROVE  OrderInv'
<1> USE DEF OrderInv
<1>0. s \in Calls /\ npc \in [Calls -> NoticeLabels] /\ npc' = npc
  BY DEF Check, Checkouts, Syncs, Ships, Refreshes, Pickups, Typed, TypeOK,
     NoticeLabels
<1>1. /\ Moves(s)
      /\ pc'[s] # "new"
      /\ pc'[s] = "mark"
      /\ seen'[s].payment = seen[s].payment
      /\ seen'[s].status = seen[s].status
  <2>1. \E b \in BOOLEAN : Keep(s, "first", b) /\ Goto(s, "mark")
    BY <1>0 DEF Check, Typed
  <2> QED BY <1>0, <2>1, Goes, KeepsFirst DEF Moves, Labels, Typed
<1>2. Typed'
  <2>1. StatusTyped'
    BY <1>0 DEF StatusTyped, Check, order, partners, history, Typed, TypeOK,
       Kept,
       KeepsRight, ShippingStatus, PaymentStatus
  <2>2. PaymentTyped' /\ Len(payway) <= Len(payway')
    BY <1>0, <1>1 DEF PaymentTyped, Check, order, partners, history, Typed,
       TypeOK, Copy,
       Kept, KeepsRight
  <2>3. DispatchTyped'
    BY <1>0, <1>1 DEF DispatchTyped, Check, order, partners, history, Typed,
       TypeOK, Copy,
       Kept, KeepsRight, ShippingStatus
  <2>4. HistoryTyped'
    BY <1>0 DEF HistoryTyped, Check, order, partners, history, Typed, TypeOK,
       Vouched
  <2>5. seen'[s].payment \in 0..Len(payway')
    BY <1>0, <1>1, <2>2 DEF PaymentTyped, Typed, TypeOK
  <2> QED BY <1>0, <1>1, <2>1, <2>2, <2>3, <2>4, <2>5, TypedParts
<1>3. Kept'
  <2>1. Grows
    BY <1>0 DEF Check, order, partners, history, Grows, Typed, TypeOK
  <2>2. payId' # 0 => payway'[payId'] # "none"
    BY <1>0, <1>1 DEF Check, order, partners, history, Typed, TypeOK, Kept,
       KeepsRight
  <2>3. KeepsRight(s)'
    BY <1>0, <1>1 DEF Check, order, partners, history, Moves, Typed, TypeOK,
       Kept,
       KeepsRight, PaymentStatus, Copy
  <2> QED BY <1>0, <1>1, <2>1, <2>2, <2>3, OthersKeep DEF Kept
<1>4. Vouched'
  BY <1>0, <1>1 DEF Check, order, partners, history, Moves, Typed, TypeOK,
     ShippingStatus,
     PaymentStatus, Vouched, Kept, KeepsRight
<1>5. Earned'
  BY <1>0, <1>1 DEF Check, order, partners, history, Moves, Typed, TypeOK,
     Earned,
     NothingForNothing, Vouched
<1>6. Timely'
  BY <1>0, <1>1 DEF Check, order, partners, history, Moves, Typed, TypeOK,
     PaymentStatus,
     Timely, Checkouts, Syncs, Refunded, Vouched, Kept, KeepsRight
<1>61. Untouched'
  BY <1>0, <1>1 DEF Check, order, partners, history, Moves, Untouched, Syncs
<1>7. OnePedido'
  BY <1>0, <1>1, PedidoUntouched DEF Check, order, partners, history
<1>8. OneMail'
  BY <1>0, <1>1 DEF Check, order, partners, history, OneMail, Writing, Syncs
<1>9. Served'
  BY <1>0, <1>1 DEF Check, order, partners, history, Moves, Typed, TypeOK, Kept,
     KeepsRight, Served
<1>10. Told'
  <2>1. \A d \in Calls : WillTell(d) => WillTell(d)'
    BY <1>0, <1>1 DEF Check, Moves, WillTell, Syncs, Kept, KeepsRight
  <2>2. paid # "approved" => seen'[s].first
    BY <1>0, KeepsFirst DEF Check
  <2>3. \A d \in Calls \ {s} : pc'[d] = pc[d] /\ seen'[d] = seen[d]
    BY <1>1 DEF Moves
  <2> QED BY <1>0, <2>1, <2>2, <2>3 DEF Check, order, partners, history, Told
<1> QED BY <1>2, <1>3, <1>4, <1>5, <1>6, <1>61, <1>7, <1>8, <1>9, <1>10

\* The step on which most depends: it approves, or withdraws an approval.
LEMMA MarkKeeps ==
  ASSUME OrderInv, NEW s \in Syncs, Mark(s), kind' = kind, placed' = placed
  PROVE  OrderInv'
<1> USE DEF OrderInv
<1>0. s \in Calls /\ npc \in [Calls -> NoticeLabels]
  BY DEF Mark, Checkouts, Syncs, Ships, Refreshes, Pickups, Typed, TypeOK,
     NoticeLabels
<1>1. /\ Moves(s)
      /\ pc'[s] # "new"
      /\ \/ /\ npc' = npc /\ pc'[s] = "pedido"
            /\ seen[s].status = "approved" /\ seen'[s] = seen[s]
         \/ FinishesAs(s)
  <2>1. \/ seen[s].status = "approved" /\ Goto(s, "pedido") /\ seen' = seen /\ npc' = npc
        \/ Finish(s)
    BY <1>0 DEF Mark, Typed
  <2>2. CASE seen[s].status = "approved" /\ Goto(s, "pedido") /\ seen' = seen /\ npc' = npc
    BY <1>0, <2>2, Goes, Finishes DEF Moves, Labels, Typed, FinishesAs
  <2>3. CASE Finish(s)
    BY <1>0, <2>3, Goes, Finishes DEF Moves, Labels, Typed, FinishesAs
  <2> QED BY <2>1, <2>2, <2>3
<1>11. npc[s] = "none" /\ seen[s].status \in PaymentStatus
  BY <1>0 DEF Mark, Kept, KeepsRight
<1>12. seen'[s].status = "approved" => seen'[s].payment \in cleared
  BY <1>0, <1>1, NothingIsEmpty DEF FinishesAs, Vouched
<1>2. Typed'
  <2>1. StatusTyped'
    BY <1>0 DEF StatusTyped, Mark, partners, Typed, TypeOK, Kept, KeepsRight,
       ShippingStatus, PaymentStatus
  <2>2. PaymentTyped' /\ Len(payway) <= Len(payway')
    BY <1>0, <1>1 DEF PaymentTyped, Mark, partners, Typed, TypeOK, Copy, Kept,
       KeepsRight
  <2>3. DispatchTyped'
    BY <1>0, <1>1 DEF DispatchTyped, Mark, partners, Typed, TypeOK, Copy, Kept,
       KeepsRight, ShippingStatus
  <2>4. HistoryTyped'
    BY <1>0 DEF HistoryTyped, Mark, partners, Typed, TypeOK, Vouched, UnderWay
  <2>5. seen'[s].payment \in 0..Len(payway')
    <3>1. seen'[s].payment \in {0, seen[s].payment}
      BY <1>1, NothingIsEmpty DEF FinishesAs
    <3>2. seen[s].payment \in 0..Len(payway)
      BY <1>0 DEF Typed, TypeOK
    <3> QED BY <2>2, <3>1, <3>2 DEF PaymentTyped
  <2> QED BY <1>0, <1>1, <2>1, <2>2, <2>3, <2>4, <2>5, TypedParts
<1>3. Kept'
  <2>1. Grows
    BY <1>0 DEF Mark, partners, Grows, Typed, TypeOK
  <2>2. payId' # 0 => payway'[payId'] # "none"
    BY <1>0, <1>1 DEF Mark, partners, Typed, TypeOK, Kept, KeepsRight
  <2>3. KeepsRight(s)'
    <3>1. CASE FinishesAs(s)
      BY <3>1 DEF FinishesAs, KeepsRight
    <3>2. CASE npc' = npc /\ pc'[s] = "pedido" /\ seen'[s] = seen[s]
      BY <1>11, <3>2 DEF KeepsRight
    <3> QED BY <1>1, <3>1, <3>2
  <2> QED BY <1>0, <1>1, <2>1, <2>2, <2>3, OthersKeep DEF Kept
<1>4. Vouched'
  <2>1. \A d \in Calls : seen'[d].status = "approved" => seen'[d].payment \in cleared
    BY <1>1, <1>12 DEF Moves, Vouched
  <2>2. paid' = "approved" => source' \in cleared
    BY <1>0 DEF Mark, Vouched
  <2> QED BY <2>1, <2>2 DEF Mark, partners, Vouched
<1>5. Earned'
  BY <1>0, <1>1, NothingIsEmpty DEF Mark, partners, Moves, Typed, TypeOK,
     Earned,
     NothingForNothing, Vouched, FinishesAs
<1>6. Timely'
  BY <1>0, <1>1, NothingIsEmpty DEF Mark, partners, Moves, Typed, TypeOK,
     PaymentStatus,
     Timely, Checkouts, Syncs, Refunded, Vouched, Kept, KeepsRight, UnderWay,
     FinishesAs
<1>61. Untouched'
  BY <1>0, <1>1, NothingIsEmpty DEF Mark, partners, Moves, Typed, TypeOK,
     PaymentStatus,
     Untouched, Timely, Checkouts, Syncs, Refunded, Vouched, Kept, KeepsRight, UnderWay,
     FinishesAs
<1>7. OnePedido'
  BY <1>0, <1>1, PedidoUntouched DEF Mark, partners
<1>8. OneMail'
  <2>1. npc'[s] \in {npc[s], "read"}
    BY <1>0, <1>1 DEF FinishesAs
  <2> QED BY <1>0, <1>1, <1>11, <2>1, MailUntouched DEF Mark, partners
<1>9. Served'
  BY <1>0, <1>1, NothingIsEmpty DEF Mark, partners, Moves, Typed, TypeOK, Kept,
     KeepsRight, Served, FinishesAs
<1>10. Told'
  <2>1. SUFFICES ASSUME doubtful' \cap {"untold", "payment"} = {},
                        placed.status # "approved"
                 PROVE  Told'
    BY DEF Told
  <2>2. doubtful \cap {"untold", "payment"} = {}
    BY <2>1 DEF Mark
  <2>3. \A d \in Calls : WillTell(d) => WillTell(d)'
    <3>1. ~ WillTell(s)
      BY <1>11 DEF Mark, WillTell
    <3> QED BY <1>0, <1>1, <3>1 DEF Moves, WillTell, Syncs
  <2>4. CASE paid = "approved"
    BY <1>0, <2>1, <2>2, <2>3, <2>4 DEF Mark, partners, Told
  <2>5. CASE paid # "approved" /\ seen[s].status = "approved"
    <3>1. seen[s].first
      BY <1>0, <2>1, <2>2, <2>5 DEF Mark, Told
    <3>2. WillTell(s)'
      BY <1>0, <1>1, <2>5, <3>1 DEF FinishesAs, WillTell, Syncs, Typed, TypeOK
    <3> QED BY <1>0, <2>5, <3>2 DEF Mark, partners, Told
  <2>6. CASE paid # "approved" /\ seen[s].status # "approved"
    <3>1. \A d \in Calls : pc'[d] = "mark" => pc[d] = "mark" /\ seen'[d] = seen[d]
      BY <1>0, <1>1 DEF Moves, FinishesAs
    <3> QED BY <2>2, <2>6, <3>1 DEF Mark, partners, Told
  <2> QED BY <2>4, <2>5, <2>6
<1> QED BY <1>2, <1>3, <1>4, <1>5, <1>6, <1>61, <1>7, <1>8, <1>9, <1>10

\* A pedido is there, or its maker is alone or leaves a doubt.
LEMMA FindPedidoKeeps ==
  ASSUME OrderInv, NEW c \in Syncs \cup Ships, FindPedido(c), kind' = kind, placed' = placed
  PROVE  OrderInv'
<1> USE DEF OrderInv
<1>0. c \in Calls /\ npc \in [Calls -> NoticeLabels]
  BY DEF FindPedido, Checkouts, Syncs, Ships, Refreshes, Pickups, Typed, TypeOK,
     NoticeLabels
<1>1. /\ Moves(c)
      /\ pc'[c] # "new"
      /\ \/ pedido = 0 /\ npc' = npc /\ pc'[c] = "post" /\ seen'[c] = seen[c]
         \/ GoesOnAs(c) /\ (pedido # 0 \/ "unserved" \in doubtful')
  <2>1. \/ pedido = 0 /\ Goto(c, "post") /\ seen' = seen /\ npc' = npc
        \/ /\ pedido # 0 \/ "unserved" \in doubtful'
           /\ \E ok \in BOOLEAN : AfterPedido(c, ok)
    BY <1>0 DEF FindPedido, Doubt, Typed
  <2>2. CASE pedido = 0 /\ Goto(c, "post") /\ seen' = seen /\ npc' = npc
    BY <1>0, <2>2, Goes, GoesOn DEF Moves, Labels, Typed, FinishesAs,
       GoesOnAs
  <2>3. CASE /\ pedido # 0 \/ "unserved" \in doubtful'
             /\ \E ok \in BOOLEAN : AfterPedido(c, ok)
    BY <1>0, <2>3, Goes, GoesOn DEF Moves, Labels, Typed, FinishesAs,
       GoesOnAs
  <2> QED BY <2>1, <2>2, <2>3
<1>11. Pedidoing(c) /\ (StaysOn(c) \/ GoesOnAs(c))
  BY <1>1 DEF FindPedido, Pedidoing, StaysOn
<1>12. pc'[c] = "keep" => seen'[c].number \in 0..pedidos'
  BY <1>1, NothingIsEmpty DEF GoesOnAs, FinishesAs
<1>2. Typed'
  <2>1. StatusTyped'
    BY <1>0 DEF StatusTyped, FindPedido, order, partners, Typed, TypeOK, Kept,
       KeepsRight,
       ShippingStatus, PaymentStatus
  <2>2. PaymentTyped' /\ Len(payway) <= Len(payway')
    BY <1>0, <1>1 DEF PaymentTyped, FindPedido, order, partners, Typed, TypeOK,
       Copy,
       Kept, KeepsRight
  <2>3. DispatchTyped'
    BY <1>0, <1>1 DEF DispatchTyped, FindPedido, order, partners, Typed, TypeOK,
       Copy,
       Kept, KeepsRight, ShippingStatus
  <2>4. HistoryTyped'
    BY <1>0 DEF HistoryTyped, FindPedido, Doubt, order, partners, Typed, TypeOK,
       Vouched
  <2>5. seen'[c].payment \in 0..Len(payway')
    <3>1. seen'[c].payment \in {0, seen[c].payment}
      BY <1>1, NothingIsEmpty DEF FinishesAs, GoesOnAs
    <3>2. seen[c].payment \in 0..Len(payway)
      BY <1>0 DEF Typed, TypeOK
    <3> QED BY <2>2, <3>1, <3>2 DEF PaymentTyped
  <2> QED BY <1>0, <1>1, <2>1, <2>2, <2>3, <2>4, <2>5, TypedParts
<1>3. Kept'
  <2>1. Grows
    BY <1>0 DEF FindPedido, order, partners, Grows, Typed, TypeOK
  <2>2. payId' # 0 => payway'[payId'] # "none"
    BY <1>0, <1>1 DEF FindPedido, order, partners, Typed, TypeOK, Kept,
       KeepsRight
  <2>3. KeepsRight(c)'
    BY <1>0, <1>1, <1>11, <1>12, KeepsGoingOn
  <2> QED BY <1>0, <1>1, <2>1, <2>2, <2>3, OthersKeep DEF Kept
<1>4. Vouched'
  BY <1>0, <1>1, NothingIsEmpty DEF FindPedido, order, partners, Moves, Typed,
     TypeOK,
     ShippingStatus, PaymentStatus, Vouched, Kept, KeepsRight, FinishesAs, GoesOnAs
<1>5. Earned'
  BY <1>0, <1>1, NothingIsEmpty DEF FindPedido, order, partners, Moves, Typed,
     TypeOK,
     Earned, NothingForNothing, Vouched, FinishesAs, GoesOnAs
<1>6. Timely'
  BY <1>0, <1>1, NothingIsEmpty DEF FindPedido, order, partners, Moves, Typed,
     TypeOK,
     PaymentStatus, Timely, Checkouts, Syncs, Refunded, Vouched, Kept, KeepsRight,
     FinishesAs, GoesOnAs
<1>61. Untouched'
  BY <1>0, <1>1 DEF FindPedido, order, partners, Moves, Untouched, Syncs,
     FinishesAs, GoesOnAs
<1>7. OnePedido'
  <2>1. CASE GoesOnAs(c)
    <3>1. pc[c] = "pedido" /\ pc'[c] \notin {"post", "keep"}
      BY <1>0, <2>1 DEF FindPedido, GoesOnAs, FinishesAs
    <3> QED BY <1>0, <1>1, <3>1, PedidoUntouched DEF FindPedido, Doubt, order, partners
  <2>2. CASE pc'[c] = "post" /\ Making # {} /\ pedido = 0
    <3>1. ~ GoesOnAs(c)
      BY <2>2 DEF GoesOnAs, FinishesAs
    <3>2. "pedido" \in doubtful'
      BY <1>1, <2>2, <3>1 DEF FindPedido, AfterPedido, Finish, End, Goto, Doubt, Typed
    <3> QED BY <3>2 DEF OnePedido
  <2>3. CASE pc'[c] = "post" /\ Making = {} /\ pedido = 0
    <3>1. Making' = {c}
      BY <1>0, <1>1, <2>3 DEF Making, Moves
    <3>2. pedidos' = pedidos /\ pedido' = pedido /\ doubtful \subseteq doubtful'
      BY DEF FindPedido, Doubt, order, partners
    <3> QED BY <2>3, <3>1, <3>2 DEF OnePedido
  <2> QED BY <1>1, <2>1, <2>2, <2>3
<1>8. OneMail'
  BY <1>0, <1>1, <1>11, NewsGoOn DEF FindPedido, Doubt, order, partners
<1>9. Served'
  BY <1>0, <1>1, <1>11, ServersGoOn DEF FindPedido, Doubt, order
<1>10. Told'
  BY <1>0, <1>1, <1>11, TellersGoOn DEF FindPedido, Doubt, order, partners
<1> QED BY <1>2, <1>3, <1>4, <1>5, <1>6, <1>61, <1>7, <1>8, <1>9, <1>10

\* A pedido is made at the carrier, or the order is in doubt.
LEMMA PostPedidoKeeps ==
  ASSUME OrderInv, NEW c \in Syncs \cup Ships, PostPedido(c), kind' = kind, placed' = placed
  PROVE  OrderInv'
<1> USE DEF OrderInv
<1>0. c \in Calls /\ npc \in [Calls -> NoticeLabels]
  BY DEF PostPedido, Checkouts, Syncs, Ships, Refreshes, Pickups, Typed, TypeOK,
     NoticeLabels
<1>1. /\ Moves(c)
      /\ pc'[c] # "new"
      /\ pedidos' \in {pedidos, pedidos + 1}
      /\ doubtful \subseteq doubtful' /\ doubtful' \subseteq doubtful \cup {"pedido", "unserved"}
      /\ \/ /\ StaysOn(c) /\ pc'[c] = "keep"
            /\ \/ seen'[c].number = pedidos + 1 /\ pedidos' = pedidos + 1
               \/ seen'[c].number = 0 /\ "unserved" \in doubtful'
         \/ GoesOnAs(c) /\ "unserved" \in doubtful'
      /\ \/ pedidos' = pedidos
         \/ pc'[c] = "keep" /\ seen'[c].number = pedidos'
         \/ "pedido" \in doubtful'
  <2>2. /\ pedidos' \in {pedidos, pedidos + 1} /\ pedidos \in Nat
        /\ doubtful \subseteq doubtful' /\ doubtful' \subseteq doubtful \cup {"pedido", "unserved"}
    BY DEF PostPedido, Typed
  <2>3. CASE /\ AfterPedido(c, FALSE) /\ "unserved" \in doubtful'
             /\ pedidos' = pedidos \/ "pedido" \in doubtful'
    BY <1>0, <2>2, <2>3, GoesOn DEF GoesOnAs, FinishesAs
  <2>4. ASSUME NEW n \in Nat, Keep(c, "number", n), Goto(c, "keep"), npc' = npc
        PROVE  /\ Moves(c) /\ StaysOn(c) /\ pc'[c] = "keep" /\ seen'[c].number = n
    <3>1. "keep" \in Labels
      BY DEF Labels
    <3>2. /\ pc' \in [Calls -> Labels] /\ pc'[c] = "keep"
          /\ \A d \in Calls \ {c} : pc'[d] = pc[d]
      BY <1>0, <2>4, <3>1, Goes
    <3> QED BY <1>0, <2>4, <3>1, <3>2, KeepsNumber DEF Moves, StaysOn
  <2>5. CASE /\ pedidos' = pedidos + 1 /\ Keep(c, "number", pedidos')
             /\ Goto(c, "keep") /\ npc' = npc
    <3>1. pedidos' \in Nat
      BY <2>2
    <3>2. /\ Moves(c) /\ StaysOn(c) /\ pc'[c] = "keep" /\ seen'[c].number = pedidos'
      BY <2>4, <2>5, <3>1
    <3> QED BY <2>2, <2>5, <3>2
  <2>6. CASE /\ Keep(c, "number", 0) /\ Goto(c, "keep") /\ npc' = npc
             /\ "unserved" \in doubtful'
             /\ pedidos' = pedidos \/ "pedido" \in doubtful'
    <3>1. /\ Moves(c) /\ StaysOn(c) /\ pc'[c] = "keep" /\ seen'[c].number = 0
      BY <2>4, <2>6
    <3> QED BY <2>2, <2>6, <3>1
  <2> QED BY <2>3, <2>5, <2>6 DEF PostPedido
<1>11. Pedidoing(c) /\ (StaysOn(c) \/ GoesOnAs(c))
  BY <1>1 DEF PostPedido, Pedidoing
<1>12. pc'[c] = "keep" => seen'[c].number \in 0..pedidos'
  BY <1>1 DEF GoesOnAs, FinishesAs, Typed
<1>2. Typed'
  <2>1. StatusTyped'
    BY <1>0 DEF StatusTyped, PostPedido, Doubt, order, Typed, TypeOK, Kept,
       KeepsRight,
       ShippingStatus, PaymentStatus
  <2>2. PaymentTyped' /\ Len(payway) <= Len(payway')
    BY <1>0, <1>1 DEF PaymentTyped, PostPedido, Doubt, order, Typed, TypeOK,
       Copy, Kept,
       KeepsRight
  <2>3. DispatchTyped'
    BY <1>0, <1>1 DEF DispatchTyped, PostPedido, Doubt, order, Typed, TypeOK,
       Copy, Kept,
       KeepsRight, ShippingStatus
  <2>4. HistoryTyped'
    BY <1>0 DEF HistoryTyped, PostPedido, Doubt, order, Typed, TypeOK, Vouched
  <2>5. seen'[c].payment \in 0..Len(payway')
    <3>1. seen'[c].payment \in {0, seen[c].payment}
      BY <1>1, NothingIsEmpty DEF FinishesAs, GoesOnAs, StaysOn
    <3>2. seen[c].payment \in 0..Len(payway)
      BY <1>0 DEF Typed, TypeOK
    <3> QED BY <2>2, <3>1, <3>2 DEF PaymentTyped
  <2> QED BY <1>0, <1>1, <2>1, <2>2, <2>3, <2>4, <2>5, TypedParts
<1>3. Kept'
  <2>1. Grows
    BY <1>0, <1>1 DEF PostPedido, Doubt, order, Grows, Typed, TypeOK
  <2>2. payId' # 0 => payway'[payId'] # "none"
    BY <1>0, <1>1 DEF PostPedido, Doubt, order, Typed, TypeOK, Kept, KeepsRight
  <2>3. KeepsRight(c)'
    BY <1>0, <1>1, <1>11, <1>12, KeepsGoingOn
  <2> QED BY <1>0, <1>1, <2>1, <2>2, <2>3, OthersKeep DEF Kept
<1>4. Vouched'
  BY <1>0, <1>1, NothingIsEmpty DEF PostPedido, Doubt, order, Moves, Typed,
     TypeOK,
     ShippingStatus, PaymentStatus, Vouched, Kept, KeepsRight, FinishesAs, GoesOnAs, StaysOn
<1>5. Earned'
  BY <1>0, <1>1, NothingIsEmpty DEF PostPedido, Doubt, order, Moves, Typed,
     TypeOK,
     Earned, NothingForNothing, Vouched, FinishesAs, GoesOnAs, StaysOn
<1>6. Timely'
  BY <1>0, <1>1, NothingIsEmpty DEF PostPedido, Doubt, order, Moves, Typed,
     TypeOK,
     PaymentStatus, Timely, Checkouts, Syncs, Refunded, Vouched, Kept, KeepsRight,
     FinishesAs, GoesOnAs, StaysOn
<1>61. Untouched'
  BY <1>0, <1>1 DEF PostPedido, order, Moves, Untouched, Syncs, FinishesAs,
     GoesOnAs
<1>7. OnePedido'
  <2>1. SUFFICES ASSUME "pedido" \notin doubtful' PROVE OnePedido'
    BY DEF OnePedido
  <2>2. c \in Making /\ pedidos = 0 /\ pedido = 0 /\ Making = {c}
    <3>1. c \in Making /\ pc[c] = "post" /\ "pedido" \notin doubtful
      BY <1>0, <1>1, <2>1 DEF PostPedido, Making
    <3> QED BY <3>1 DEF OnePedido, Typed, TypeOK
  <2>3. CASE StaysOn(c) /\ pc'[c] = "keep"
    <3>1. Making' = {c}
      BY <1>0, <1>1, <2>2, <2>3 DEF Making, Moves
    <3>2. seen'[c].number = pedidos' /\ pedidos' \in {0, 1} /\ ~ GoesOnAs(c)
      BY <1>1, <2>1, <2>2, <2>3 DEF GoesOnAs, FinishesAs
    <3> QED BY <2>3, <3>1, <3>2 DEF OnePedido
  <2>4. CASE GoesOnAs(c)
    <3>1. Making' = {} /\ pc'[c] # "keep"
      BY <1>0, <1>1, <2>2, <2>4 DEF Making, Moves, GoesOnAs, FinishesAs
    <3>2. pedidos' = 0 /\ pedido' = 0
      BY <1>1, <2>1, <2>2, <3>1 DEF PostPedido, order
    <3> QED BY <3>1, <3>2 DEF OnePedido
  <2> QED BY <1>1, <2>3, <2>4
<1>8. OneMail'
  BY <1>0, <1>1, <1>11, NewsGoOn DEF PostPedido, Doubt, order
<1>9. Served'
  BY <1>0, <1>1, <1>11, ServersGoOn DEF PostPedido, order, Typed
<1>10. Told'
  BY <1>0, <1>1, <1>11, TellersGoOn DEF PostPedido, Doubt, order
<1> QED BY <1>2, <1>3, <1>4, <1>5, <1>6, <1>61, <1>7, <1>8, <1>9, <1>10

\* The pedido is written to the order, or the order is in doubt.
LEMMA KeepPedidoKeeps ==
  ASSUME OrderInv, NEW c \in Syncs \cup Ships, KeepPedido(c), kind' = kind, placed' = placed
  PROVE  OrderInv'
<1> USE DEF OrderInv
<1>0. c \in Calls /\ npc \in [Calls -> NoticeLabels]
  BY DEF KeepPedido, Checkouts, Syncs, Ships, Refreshes, Pickups, Typed, TypeOK,
     NoticeLabels
<1>1. /\ Moves(c)
      /\ pc'[c] # "new"
      /\ GoesOnAs(c)
  <2>1. \E ok \in BOOLEAN : AfterPedido(c, ok)
    BY <1>0 DEF KeepPedido, Typed
  <2> QED BY <1>0, <2>1, GoesOn DEF Moves, Labels, Typed, FinishesAs,
             GoesOnAs
<1>11. Pedidoing(c) /\ (StaysOn(c) \/ GoesOnAs(c))
  BY <1>1 DEF KeepPedido, Pedidoing
<1>12. pc'[c] = "keep" => seen'[c].number \in 0..pedidos'
  BY <1>1 DEF GoesOnAs, FinishesAs
<1>2. Typed'
  <2>1. StatusTyped'
    BY <1>0 DEF StatusTyped, KeepPedido, partners, Typed, TypeOK, Kept,
       KeepsRight,
       ShippingStatus, PaymentStatus
  <2>2. PaymentTyped' /\ Len(payway) <= Len(payway')
    BY <1>0, <1>1 DEF PaymentTyped, KeepPedido, partners, Typed, TypeOK, Copy,
       Kept,
       KeepsRight
  <2>3. DispatchTyped'
    <3>1. seen[c].number \in 0..pedidos
      BY <1>0 DEF KeepPedido, Typed, Copy, Kept, KeepsRight
    <3> QED BY <3>1 DEF KeepPedido, partners, Typed, TypeOK, DispatchTyped
  <2>4. HistoryTyped'
    BY <1>0 DEF HistoryTyped, KeepPedido, partners, Typed, TypeOK, Vouched
  <2>5. seen'[c].payment \in 0..Len(payway')
    BY <1>0, <1>1, <2>2, NothingIsEmpty DEF PaymentTyped, Typed, TypeOK,
       FinishesAs, GoesOnAs
  <2> QED BY <1>0, <1>1, <2>1, <2>2, <2>3, <2>4, <2>5, TypedParts
<1>3. Kept'
  <2>1. Grows
    BY <1>0 DEF KeepPedido, partners, Grows, Typed, TypeOK
  <2>2. payId' # 0 => payway'[payId'] # "none"
    BY <1>0, <1>1 DEF KeepPedido, partners, Typed, TypeOK, Kept, KeepsRight
  <2>3. KeepsRight(c)'
    BY <1>0, <1>1, <1>11, <1>12, KeepsGoingOn
  <2> QED BY <1>0, <1>1, <2>1, <2>2, <2>3, OthersKeep DEF Kept
<1>4. Vouched'
  BY <1>0, <1>1, NothingIsEmpty DEF KeepPedido, partners, Moves, Typed, TypeOK,
     ShippingStatus, PaymentStatus, Vouched, Kept, KeepsRight, FinishesAs, GoesOnAs
<1>5. Earned'
  BY <1>0, <1>1, NothingIsEmpty DEF KeepPedido, partners, Moves, Typed, TypeOK,
     Earned,
     NothingForNothing, Vouched, FinishesAs, GoesOnAs
<1>6. Timely'
  BY <1>0, <1>1, NothingIsEmpty DEF KeepPedido, partners, Moves, Typed, TypeOK,
     PaymentStatus, Timely, Checkouts, Syncs, Refunded, Vouched, Kept, KeepsRight,
     FinishesAs, GoesOnAs
<1>61. Untouched'
  BY <1>0, <1>1, NothingIsEmpty DEF KeepPedido, partners, Moves, Typed, TypeOK,
     PaymentStatus, Untouched, Timely, Checkouts, Syncs, Refunded, Vouched, Kept, KeepsRight,
     FinishesAs, GoesOnAs
<1>7. OnePedido'
  <2>1. SUFFICES ASSUME "pedido" \notin doubtful' PROVE OnePedido'
    BY DEF OnePedido
  <2>2. /\ pedido' = IF seen[c].number = 0 THEN pedido ELSE seen[c].number
        /\ pedidos' = pedidos /\ "pedido" \notin doubtful
    BY <2>1 DEF KeepPedido, partners
  <2>3. Making = {c} /\ seen[c].number = pedidos /\ pedidos <= 1
    <3>1. c \in Making /\ pc[c] = "keep"
      BY <1>0 DEF KeepPedido, Making
    <3> QED BY <2>2, <3>1 DEF OnePedido
  <2>4. Making' = {}
    BY <1>0, <1>1, <2>3 DEF Making, Moves, GoesOnAs, FinishesAs
  <2>5. pedido' = pedidos'
    BY <2>2, <2>3 DEF Typed, TypeOK
  <2> QED BY <2>2, <2>3, <2>4, <2>5 DEF OnePedido
<1>8. OneMail'
  BY <1>0, <1>1, <1>11, NewsGoOn DEF KeepPedido, partners
<1>9. Served'
  <2>1. CASE seen[c].number = 0
    <3>1. paid' = paid /\ source' = source /\ byCarrier' = byCarrier /\ doubtful \subseteq doubtful'
          /\ (pedido # 0 => pedido' # 0) /\ pc[c] = "keep"
      BY <2>1 DEF KeepPedido
    <3>2. \A d \in Calls \ {c} : pc'[d] = pc[d] /\ seen'[d] = seen[d]
      BY <1>1 DEF Moves
    <3> QED BY <1>0, <2>1, <3>1, <3>2 DEF Served
  <2>2. CASE seen[c].number # 0
    BY <1>0, <1>1, <1>11, <2>2, ServersGoOn DEF KeepPedido
  <2> QED BY <2>1, <2>2
<1>10. Told'
  BY <1>0, <1>1, <1>11, TellersGoOn DEF KeepPedido, partners
<1> QED BY <1>2, <1>3, <1>4, <1>5, <1>6, <1>61, <1>7, <1>8, <1>9, <1>10

\* A dispatch goes on only if it reads approved.
LEMMA ReadForDispatchKeeps ==
  ASSUME OrderInv, NEW c \in Ships, ReadForDispatch(c), kind' = kind, placed' = placed
  PROVE  OrderInv'
<1> USE DEF OrderInv
<1>0. /\ c \in Calls
      /\ npc \in [Calls -> NoticeLabels]
      /\ npc' = npc
      /\ shipping \in ShippingStatus
  BY DEF ReadForDispatch, Checkouts, Syncs, Ships, Refreshes, Pickups, Typed,
     TypeOK,
     NoticeLabels
<1>1. /\ Moves(c)
      /\ pc'[c] # "new"
      /\ \/ pc'[c] = "ended" /\ seen'[c] = Nothing
         \/ /\ paid = "approved"
            /\ pc'[c] \in {"parcel", "pedido"}
            /\ seen'[c].payment = seen[c].payment
            /\ seen'[c].status = seen[c].status
  <2>1. \/ End(c)
        \/ \E label \in {"parcel", "pedido"} :
                /\ paid = "approved"
                /\ seen' = [seen EXCEPT ![c].shipping = shipping,
                                      ![c].first = (envio = 0)]
                /\ Goto(c, label)
    BY <1>0 DEF ReadForDispatch, TypeOK, Typed
  <2>2. CASE End(c)
    BY <1>0, <2>2, Ends, Goes, KeepsReading DEF Moves, Labels, Typed
  <2>3. CASE \E label \in {"parcel", "pedido"} :
                  /\ paid = "approved"
                  /\ seen' = [seen EXCEPT ![c].shipping = shipping,
                                      ![c].first = (envio = 0)]
                  /\ Goto(c, label)
    <3>1. PICK label \in {"parcel", "pedido"}, b \in BOOLEAN :
            /\ paid = "approved"
            /\ seen' = [seen EXCEPT ![c].shipping = shipping, ![c].first = b]
            /\ Goto(c, label)
      <4>1. (envio = 0) \in BOOLEAN
        OBVIOUS
      <4> QED BY <2>3, <4>1
    <3>2. label \in Labels
      BY DEF Labels
    <3>3. Typed
      OBVIOUS
    <3>4. /\ seen' \in [Calls -> Copy]
          /\ \A d \in Calls \ {c} : seen'[d] = seen[d]
          /\ seen'[c].payment = seen[c].payment
          /\ seen'[c].status = seen[c].status
      BY <1>0, <3>1, <3>3, KeepsReading
    <3> QED BY <1>0, <3>1, <3>2, <3>3, <3>4, Goes DEF Moves
  <2> QED BY <2>1, <2>2, <2>3
<1>2. Typed'
  <2>1. StatusTyped'
    BY <1>0 DEF StatusTyped, ReadForDispatch, order, partners, Typed, TypeOK,
       Kept,
       KeepsRight, ShippingStatus, PaymentStatus
  <2>2. PaymentTyped' /\ Len(payway) <= Len(payway')
    BY <1>0, <1>1 DEF PaymentTyped, ReadForDispatch, order, partners, Typed,
       TypeOK, Copy,
       Kept, KeepsRight
  <2>3. DispatchTyped'
    BY <1>0, <1>1 DEF DispatchTyped, ReadForDispatch, order, partners, Typed,
       TypeOK,
       Copy, Kept, KeepsRight, ShippingStatus
  <2>4. HistoryTyped'
    BY <1>0 DEF HistoryTyped, ReadForDispatch, order, partners, Typed, TypeOK,
       Vouched
  <2>5. seen'[c].payment \in 0..Len(payway')
    BY <1>0, <1>1, <2>2, NothingIsEmpty DEF PaymentTyped, Typed, TypeOK
  <2> QED BY <1>0, <1>1, <2>1, <2>2, <2>3, <2>4, <2>5, TypedParts
<1>3. Kept'
  <2>1. Grows
    BY <1>0 DEF ReadForDispatch, order, partners, Grows, Typed, TypeOK
  <2>2. payId' # 0 => payway'[payId'] # "none"
    BY <1>0, <1>1 DEF ReadForDispatch, order, partners, Typed, TypeOK, Kept,
       KeepsRight
  <2>3. KeepsRight(c)'
    BY <1>0, <1>1, NothingIsEmpty DEF ReadForDispatch, order, partners, Moves,
       Typed,
       TypeOK, Kept, KeepsRight, PaymentStatus, Copy
  <2> QED BY <1>0, <1>1, <2>1, <2>2, <2>3, OthersKeep DEF Kept
<1>4. Vouched'
  BY <1>0, <1>1, NothingIsEmpty DEF ReadForDispatch, order, partners, Moves,
     Typed,
     TypeOK, ShippingStatus, PaymentStatus, Vouched, Kept, KeepsRight
<1>5. Earned'
  BY <1>0, <1>1, NothingIsEmpty DEF ReadForDispatch, order, partners, Moves,
     Typed,
     TypeOK, Earned, NothingForNothing, Vouched
<1>6. Timely'
  BY <1>0, <1>1 DEF ReadForDispatch, order, partners, Moves,
     Timely, Checkouts, Syncs, Ships, Refreshes, Pickups, Refunded
<1>61. Untouched'
  BY <1>0, <1>1 DEF ReadForDispatch, order, partners, Moves,
     Untouched, Syncs, Ships, Refreshes, Pickups
<1>7. OnePedido'
  BY <1>0, <1>1, PedidoUntouched DEF ReadForDispatch, order, partners
<1>8. OneMail'
  BY <1>0, <1>1 DEF ReadForDispatch, order, partners, OneMail, Writing, Syncs
<1>9. Served'
  BY <1>0, <1>1 DEF ReadForDispatch, order, partners, Moves, Served
<1>10. Told'
  BY <1>0, <1>1, TellersStay DEF ReadForDispatch, order, partners
<1> QED BY <1>2, <1>3, <1>4, <1>5, <1>6, <1>61, <1>7, <1>8, <1>9, <1>10

\* A parcel is made, for an order that was approved.
LEMMA PostParcelKeeps ==
  ASSUME OrderInv, NEW c \in Ships, PostParcel(c), kind' = kind, placed' = placed
  PROVE  OrderInv'
<1> USE DEF OrderInv
<1>0. c \in Calls /\ npc \in [Calls -> NoticeLabels] /\ npc' = npc
  BY DEF PostParcel, Checkouts, Syncs, Ships, Refreshes, Pickups, Typed, TypeOK,
     NoticeLabels
<1>11. \E state \in ShippingStatus : parcels' = parcels \/ parcels' = Append(parcels, state)
  BY DEF PostParcel, ShippingStatus
<1>12. parcels' \in Seq(ShippingStatus) /\ Len(parcels) <= Len(parcels')
  BY <1>11 DEF Typed
<1>1. /\ Moves(c)
      /\ pc'[c] # "new"
      /\ \/ pc'[c] = "ended" /\ seen'[c] = Nothing
         \/ /\ pc'[c] = "ship"
            /\ seen'[c].payment = seen[c].payment
            /\ seen'[c].status \in ShippingStatus
            /\ seen'[c].number \in 0..Len(parcels')
  <2>1. CASE End(c)
    BY <1>0, <2>1, Ends DEF Moves
  <2>2. ASSUME NEW n \in 0..Len(parcels'), NEW status \in ShippingStatus,
               seen' = [seen EXCEPT ![c].number = n, ![c].status = status],
               Goto(c, "ship")
        PROVE  /\ Moves(c) /\ pc'[c] = "ship" /\ seen'[c].payment = seen[c].payment
               /\ seen'[c].status = status /\ seen'[c].number = n
    <3>1. n \in Nat /\ "ship" \in Labels
      BY <1>12 DEF Labels
    <3>2. /\ seen' \in [Calls -> Copy]
          /\ \A d \in Calls \ {c} : seen'[d] = seen[d]
          /\ seen'[c].number = n /\ seen'[c].payment = seen[c].payment
          /\ seen'[c].status = status
      <4>1. Typed /\ seen' = [seen EXCEPT ![c].number = n, ![c].status = status]
        BY <2>2
      <4>2. /\ seen' = [seen EXCEPT ![c] = [seen[c] EXCEPT !.number = n, !.status = status]]
            /\ seen[c] \in Copy
        BY <1>0, <4>1 DEF Typed
      <4>3. [seen[c] EXCEPT !.number = n, !.status = status] \in Copy
        BY <2>2, <3>1, <4>2 DEF Copy
      <4> QED BY <1>0, <4>1, <4>2, <4>3 DEF Typed, Copy
    <3> QED BY <1>0, <2>2, <3>1, <3>2, Goes DEF Moves
  <2>3. \/ End(c)
        \/ \E n \in 0..Len(parcels'), status \in ShippingStatus :
             /\ seen' = [seen EXCEPT ![c].number = n, ![c].status = status]
             /\ Goto(c, "ship")
    <3>1. Len(parcels') \in 0..Len(parcels') /\ 0 \in 0..Len(parcels')
      BY <1>12
    <3>2. {"awaiting_dispatch", "label_ready"} \subseteq ShippingStatus
      BY DEF ShippingStatus
    <3> QED BY <3>1, <3>2 DEF PostParcel
  <2>4. CASE \E n \in 0..Len(parcels'), status \in ShippingStatus :
               /\ seen' = [seen EXCEPT ![c].number = n, ![c].status = status]
               /\ Goto(c, "ship")
    BY <2>2, <2>4
  <2> QED BY <2>1, <2>3, <2>4
<1>13. doubtful \subseteq doubtful' /\ doubtful' \subseteq doubtful \cup {"shipping"}
  BY DEF PostParcel
<1>2. Typed'
  <2>1. StatusTyped'
    BY <1>0 DEF StatusTyped, PostParcel, order, Typed, TypeOK, Kept,
       KeepsRight,
       ShippingStatus, PaymentStatus
  <2>2. PaymentTyped' /\ Len(payway) <= Len(payway')
    BY <1>0, <1>1 DEF PaymentTyped, PostParcel, order, Typed, TypeOK,
       Copy, Kept,
       KeepsRight
  <2>3. DispatchTyped'
    BY <1>12 DEF DispatchTyped, PostParcel, order, Typed, TypeOK
  <2>4. HistoryTyped'
    BY <1>0, <1>13 DEF HistoryTyped, PostParcel, order, Typed, TypeOK, Vouched
  <2>5. seen'[c].payment \in 0..Len(payway')
    BY <1>0, <1>1, <2>2, NothingIsEmpty DEF PaymentTyped, Typed, TypeOK
  <2> QED BY <1>0, <1>1, <2>1, <2>2, <2>3, <2>4, <2>5, TypedParts
<1>3. Kept'
  <2>1. Grows
    BY <1>12 DEF PostParcel, order, Grows, Typed, TypeOK
  <2>2. payId' # 0 => payway'[payId'] # "none"
    BY <1>0, <1>1 DEF PostParcel, order, Typed, TypeOK, Kept,
       KeepsRight
  <2>3. KeepsRight(c)'
    <3>1. npc'[c] = "none"
      BY <1>0 DEF PostParcel, Kept, KeepsRight
    <3> QED BY <1>1, <1>12, <3>1, NothingIsEmpty DEF PostParcel, order,
               KeepsRight
  <2> QED BY <1>0, <1>1, <2>1, <2>2, <2>3, OthersKeep DEF Kept
<1>4. Vouched'
  <2>1. seen'[c].status # "approved"
    BY <1>1, NothingIsEmpty DEF ShippingStatus
  <2>2. \A d \in Calls : seen'[d].status = "approved" => seen'[d].payment \in cleared
    BY <1>0, <1>1, <2>1 DEF Moves, Vouched
  <2> QED BY <1>0, <2>2 DEF PostParcel, order, Vouched
<1>5. Earned'
  BY <1>0, <1>1, <1>13, NothingIsEmpty DEF PostParcel, order, Moves, Typed,
     TypeOK,
     Earned, NothingForNothing, Vouched
<1>6. Timely'
  BY <1>0, <1>1 DEF PostParcel, order, Moves,
     Timely, Checkouts, Syncs, Ships, Refreshes, Pickups, Refunded
<1>61. Untouched'
  BY <1>0, <1>1 DEF PostParcel, order, Moves,
     Untouched, Syncs, Ships, Refreshes, Pickups
<1>7. OnePedido'
  BY <1>0, <1>1, <1>13, PedidoUntouched DEF PostParcel, order
<1>8. OneMail'
  BY <1>0, <1>1, <1>13 DEF PostParcel, order, OneMail, Writing, Syncs
<1>9. Served'
  BY <1>0, <1>1, <1>13 DEF PostParcel, order, Moves, Served
<1>10. Told'
  BY <1>0, <1>1, <1>13, TellersStay DEF PostParcel, order
<1> QED BY <1>2, <1>3, <1>4, <1>5, <1>6, <1>61, <1>7, <1>8, <1>9, <1>10

\* The parcel is written to the order.
LEMMA KeepParcelKeeps ==
  ASSUME OrderInv, NEW c \in Ships, KeepParcel(c), kind' = kind, placed' = placed
  PROVE  OrderInv'
<1> USE DEF OrderInv
<1>0. c \in Calls /\ npc \in [Calls -> NoticeLabels] /\ npc' = npc
  BY DEF KeepParcel, Checkouts, Syncs, Ships, Refreshes, Pickups, Typed, TypeOK,
     NoticeLabels
<1>1. /\ Moves(c)
      /\ pc'[c] # "new"
      /\ pc'[c] = "ended" /\ seen'[c] = Nothing
  <2>1. End(c)
    BY <1>0 DEF KeepParcel, Typed
  <2> QED BY <1>0, <2>1, Ends DEF Moves, Labels, Typed
<1>2. Typed'
  <2>1. StatusTyped'
    BY <1>0 DEF StatusTyped, KeepParcel, SaveShipping, partners, history, Typed,
       TypeOK,
       Kept, KeepsRight, ShippingStatus, PaymentStatus
  <2>2. PaymentTyped' /\ Len(payway) <= Len(payway')
    BY <1>0, <1>1 DEF PaymentTyped, KeepParcel, SaveShipping, partners, history,
       Typed,
       TypeOK, Copy, Kept, KeepsRight
  <2>3. DispatchTyped'
    BY <1>0, <1>1 DEF DispatchTyped, KeepParcel, SaveShipping, partners,
       history, Typed,
       TypeOK, Copy, Kept, KeepsRight, ShippingStatus
  <2>4. HistoryTyped'
    BY <1>0 DEF HistoryTyped, KeepParcel, SaveShipping, partners, history,
       Typed, TypeOK,
       Vouched
  <2>5. seen'[c].payment \in 0..Len(payway')
    BY <1>0, <1>1, <2>2, NothingIsEmpty DEF PaymentTyped, Typed, TypeOK
  <2> QED BY <1>0, <1>1, <2>1, <2>2, <2>3, <2>4, <2>5, TypedParts
<1>3. Kept'
  <2>1. Grows
    BY <1>0 DEF KeepParcel, SaveShipping, partners, history, Grows, Typed,
       TypeOK
  <2>2. payId' # 0 => payway'[payId'] # "none"
    BY <1>0, <1>1 DEF KeepParcel, SaveShipping, partners, history, Typed,
       TypeOK, Kept,
       KeepsRight
  <2>3. KeepsRight(c)'
    BY <1>0, <1>1, NothingIsEmpty DEF KeepParcel, SaveShipping, partners,
       history, Moves,
       Typed, TypeOK, Kept, KeepsRight, PaymentStatus, Copy
  <2> QED BY <1>0, <1>1, <2>1, <2>2, <2>3, OthersKeep DEF Kept
<1>4. Vouched'
  BY <1>0, <1>1, NothingIsEmpty DEF KeepParcel, SaveShipping, partners, history,
     Moves,
     Typed, TypeOK, ShippingStatus, PaymentStatus, Vouched, Kept, KeepsRight
<1>5. Earned'
  BY <1>0, <1>1, NothingIsEmpty DEF KeepParcel, SaveShipping, partners, history,
     Moves,
     Typed, TypeOK, Earned, NothingForNothing, Vouched
<1>6. Timely'
  BY <1>0, <1>1 DEF KeepParcel, partners, history, Moves,
     Timely, Checkouts, Syncs, Ships, Refreshes, Pickups, Refunded
<1>61. Untouched'
  BY <1>0, <1>1 DEF KeepParcel, partners, history, Moves,
     Untouched, Syncs, Ships, Refreshes, Pickups
<1>7. OnePedido'
  BY <1>0, <1>1, PedidoUntouched DEF KeepParcel, SaveShipping, partners, history
<1>8. OneMail'
  BY <1>0, <1>1 DEF KeepParcel, SaveShipping, partners, history, OneMail,
     Writing, Syncs
<1>9. Served'
  BY <1>0, <1>1 DEF KeepParcel, partners, history, Moves, Served
<1>10. Told'
  BY <1>0, <1>1, TellersStay DEF KeepParcel, SaveShipping, partners, history
<1> QED BY <1>2, <1>3, <1>4, <1>5, <1>6, <1>61, <1>7, <1>8, <1>9, <1>10

\* A refresh reads which parcel the order has.
LEMMA ReadForRefreshKeeps ==
  ASSUME OrderInv, NEW c \in Refreshes, ReadForRefresh(c), kind' = kind, placed' = placed
  PROVE  OrderInv'
<1> USE DEF OrderInv
<1>0. c \in Calls /\ npc \in [Calls -> NoticeLabels] /\ npc' = npc
  BY DEF ReadForRefresh, Checkouts, Syncs, Ships, Refreshes, Pickups, Typed,
     TypeOK,
     NoticeLabels
<1>1. /\ Moves(c)
      /\ pc'[c] # "new"
      /\ \/ pc'[c] = "ended" /\ seen'[c] = Nothing
         \/ /\ pc'[c] = "get"
            /\ seen'[c].payment = seen[c].payment
            /\ seen'[c].status = seen[c].status
            /\ seen'[c].number = envio
            /\ envio # 0
  <2>1. envio \in Nat /\ shipping \in ShippingStatus /\ seen[c].payment \in Nat
        /\ seen[c].status \in PaymentStatus \cup ShippingStatus \cup {"none"}
    BY <1>0 DEF Typed, TypeOK, Copy
  <2>2. CASE End(c)
    BY <1>0, <2>2, Ends DEF ReadForRefresh, Moves
  <2>3. CASE /\ envio # 0
             /\ seen' = [seen EXCEPT ![c].number = envio, ![c].shipping = shipping]
             /\ Goto(c, "get")
    <3>1. /\ seen' \in [Calls -> Copy]
          /\ \A d \in Calls \ {c} : seen'[d] = seen[d]
          /\ seen'[c].number = envio /\ seen'[c].payment = seen[c].payment
          /\ seen'[c].status = seen[c].status
      BY <1>0, <2>1, <2>3, KeepsEnvio
    <3> QED BY <1>0, <2>3, <3>1, Goes DEF Labels, Moves
  <2> QED BY <2>2, <2>3 DEF ReadForRefresh
<1>2. Typed'
  <2>1. StatusTyped'
    BY <1>0 DEF StatusTyped, ReadForRefresh, order, partners, Typed, TypeOK,
       Kept,
       KeepsRight, ShippingStatus, PaymentStatus
  <2>2. PaymentTyped' /\ Len(payway) <= Len(payway')
    BY <1>0, <1>1 DEF PaymentTyped, ReadForRefresh, order, partners, Typed,
       TypeOK, Copy,
       Kept, KeepsRight
  <2>3. DispatchTyped'
    BY <1>0, <1>1 DEF DispatchTyped, ReadForRefresh, order, partners, Typed,
       TypeOK, Copy,
       Kept, KeepsRight, ShippingStatus
  <2>4. HistoryTyped'
    BY <1>0 DEF HistoryTyped, ReadForRefresh, order, partners, Typed, TypeOK,
       Vouched
  <2>5. seen'[c].payment \in 0..Len(payway')
    BY <1>0, <1>1, <2>2, NothingIsEmpty DEF PaymentTyped, Typed, TypeOK
  <2> QED BY <1>0, <1>1, <2>1, <2>2, <2>3, <2>4, <2>5, TypedParts
<1>3. Kept'
  <2>1. Grows
    BY <1>0 DEF ReadForRefresh, order, partners, Grows, Typed, TypeOK
  <2>2. payId' # 0 => payway'[payId'] # "none"
    BY <1>0, <1>1 DEF ReadForRefresh, order, partners, Typed, TypeOK, Kept,
       KeepsRight
  <2>3. KeepsRight(c)'
    BY <1>0, <1>1, NothingIsEmpty DEF ReadForRefresh, order, partners, Moves,
       Typed,
       TypeOK, Kept, KeepsRight, PaymentStatus, Copy
  <2> QED BY <1>0, <1>1, <2>1, <2>2, <2>3, OthersKeep DEF Kept
<1>4. Vouched'
  BY <1>0, <1>1, NothingIsEmpty DEF ReadForRefresh, order, partners, Moves,
     Typed, TypeOK,
     ShippingStatus, PaymentStatus, Vouched, Kept, KeepsRight
<1>5. Earned'
  BY <1>0, <1>1, NothingIsEmpty DEF ReadForRefresh, order, partners, Moves,
     Typed, TypeOK,
     Earned, NothingForNothing, Vouched
<1>6. Timely'
  BY <1>0, <1>1 DEF ReadForRefresh, order, partners, Moves,
     Timely, Checkouts, Syncs, Ships, Refreshes, Pickups, Refunded
<1>61. Untouched'
  BY <1>0, <1>1 DEF ReadForRefresh, order, partners, Moves,
     Untouched, Syncs, Ships, Refreshes, Pickups
<1>7. OnePedido'
  BY <1>0, <1>1, PedidoUntouched DEF ReadForRefresh, order, partners
<1>8. OneMail'
  BY <1>0, <1>1 DEF ReadForRefresh, order, partners, OneMail, Writing, Syncs
<1>9. Served'
  BY <1>0, <1>1 DEF ReadForRefresh, order, partners, Moves, Served
<1>10. Told'
  BY <1>0, <1>1, TellersStay DEF ReadForRefresh, order, partners
<1> QED BY <1>2, <1>3, <1>4, <1>5, <1>6, <1>61, <1>7, <1>8, <1>9, <1>10

\* A refresh reads the state of a parcel that exists.
LEMMA GetParcelKeeps ==
  ASSUME OrderInv, NEW c \in Refreshes, GetParcel(c), kind' = kind, placed' = placed
  PROVE  OrderInv'
<1> USE DEF OrderInv
<1>0. c \in Calls /\ npc \in [Calls -> NoticeLabels] /\ npc' = npc
  BY DEF GetParcel, Checkouts, Syncs, Ships, Refreshes, Pickups, Typed, TypeOK,
     NoticeLabels
<1>1. /\ Moves(c)
      /\ pc'[c] = "refresh"
      /\ seen'[c].payment = seen[c].payment
      /\ seen'[c].status \in ShippingStatus
  <2>1. /\ parcels[seen[c].number] \in ShippingStatus
        /\ seen[c].shipping \in ShippingStatus
    BY <1>0 DEF GetParcel, Typed, Kept, KeepsRight, Copy
  <2>2. \E s \in ShippingStatus : Keep(c, "status", s)
    BY <2>1 DEF GetParcel
  <2> QED BY <1>0, <2>2, KeepsStatus, Goes DEF GetParcel, Labels, Moves
<1>2. Typed'
  <2>1. StatusTyped'
    BY <1>0 DEF StatusTyped, GetParcel, order, partners, history, Typed, TypeOK,
       Kept,
       KeepsRight, ShippingStatus, PaymentStatus
  <2>2. PaymentTyped' /\ Len(payway) <= Len(payway')
    BY <1>0, <1>1 DEF PaymentTyped, GetParcel, order, partners, history, Typed,
       TypeOK,
       Copy, Kept, KeepsRight
  <2>3. DispatchTyped'
    BY <1>0, <1>1 DEF DispatchTyped, GetParcel, order, partners, history, Typed,
       TypeOK,
       Copy, Kept, KeepsRight, ShippingStatus
  <2>4. HistoryTyped'
    BY <1>0 DEF HistoryTyped, GetParcel, order, partners, history, Typed,
       TypeOK, Vouched
  <2>5. seen'[c].payment \in 0..Len(payway')
    BY <1>0, <1>1, <2>2, NothingIsEmpty DEF PaymentTyped, Typed, TypeOK
  <2> QED BY <1>0, <1>1, <2>1, <2>2, <2>3, <2>4, <2>5, TypedParts
<1>3. Kept'
  <2>1. Grows
    BY <1>0 DEF GetParcel, order, partners, history, Grows, Typed, TypeOK
  <2>2. payId' # 0 => payway'[payId'] # "none"
    BY <1>0, <1>1 DEF GetParcel, order, partners, history, Typed, TypeOK, Kept,
       KeepsRight
  <2>3. KeepsRight(c)'
    BY <1>0, <1>1, NothingIsEmpty DEF GetParcel, order, partners, history,
       Moves, Typed,
       TypeOK, Kept, KeepsRight, PaymentStatus, Copy
  <2> QED BY <1>0, <1>1, <2>1, <2>2, <2>3, OthersKeep DEF Kept
<1>4. Vouched'
  BY <1>0, <1>1, NothingIsEmpty DEF GetParcel, order, partners, history, Moves,
     Typed,
     TypeOK, ShippingStatus, PaymentStatus, Vouched, Kept, KeepsRight
<1>5. Earned'
  BY <1>0, <1>1, NothingIsEmpty DEF GetParcel, order, partners, history, Moves,
     Typed,
     TypeOK, Earned, NothingForNothing, Vouched
<1>6. Timely'
  BY <1>0, <1>1 DEF GetParcel, order, partners, history, Moves,
     Timely, Checkouts, Syncs, Ships, Refreshes, Pickups, Refunded
<1>61. Untouched'
  BY <1>0, <1>1 DEF GetParcel, order, partners, history, Moves,
     Untouched, Syncs, Ships, Refreshes, Pickups
<1>7. OnePedido'
  BY <1>0, <1>1, PedidoUntouched DEF GetParcel, order, partners, history
<1>8. OneMail'
  BY <1>0, <1>1 DEF GetParcel, order, partners, history, OneMail, Writing, Syncs
<1>9. Served'
  BY <1>0, <1>1 DEF GetParcel, order, partners, history, Moves, Served
<1>10. Told'
  BY <1>0, <1>1, TellersStay DEF GetParcel, order, partners, history
<1> QED BY <1>2, <1>3, <1>4, <1>5, <1>6, <1>61, <1>7, <1>8, <1>9, <1>10

\* The state of the parcel is written to the order.
LEMMA KeepRefreshKeeps ==
  ASSUME OrderInv, NEW c \in Refreshes, KeepRefresh(c), kind' = kind, placed' = placed
  PROVE  OrderInv'
<1> USE DEF OrderInv
<1>0. c \in Calls /\ npc \in [Calls -> NoticeLabels] /\ npc' = npc
  BY DEF KeepRefresh, Checkouts, Syncs, Ships, Refreshes, Pickups, Typed,
     TypeOK,
     NoticeLabels
<1>1. /\ Moves(c)
      /\ pc'[c] # "new"
      /\ pc'[c] = "ended" /\ seen'[c] = Nothing
  <2>1. End(c)
    BY <1>0 DEF KeepRefresh, Typed
  <2> QED BY <1>0, <2>1, Ends DEF Moves, Labels, Typed
<1>2. Typed'
  <2>1. StatusTyped'
    BY <1>0 DEF StatusTyped, KeepRefresh, SaveShipping, partners, history,
       Typed, TypeOK,
       Kept, KeepsRight, ShippingStatus, PaymentStatus
  <2>2. PaymentTyped' /\ Len(payway) <= Len(payway')
    BY <1>0, <1>1 DEF PaymentTyped, KeepRefresh, SaveShipping, partners,
       history, Typed,
       TypeOK, Copy, Kept, KeepsRight
  <2>3. DispatchTyped'
    BY <1>0, <1>1 DEF DispatchTyped, KeepRefresh, SaveShipping, partners,
       history, Typed,
       TypeOK, Copy, Kept, KeepsRight, ShippingStatus
  <2>4. HistoryTyped'
    BY <1>0 DEF HistoryTyped, KeepRefresh, SaveShipping, partners, history,
       Typed, TypeOK,
       Vouched
  <2>5. seen'[c].payment \in 0..Len(payway')
    BY <1>0, <1>1, <2>2, NothingIsEmpty DEF PaymentTyped, Typed, TypeOK
  <2> QED BY <1>0, <1>1, <2>1, <2>2, <2>3, <2>4, <2>5, TypedParts
<1>3. Kept'
  <2>1. Grows
    BY <1>0 DEF KeepRefresh, SaveShipping, partners, history, Grows, Typed,
       TypeOK
  <2>2. payId' # 0 => payway'[payId'] # "none"
    BY <1>0, <1>1 DEF KeepRefresh, SaveShipping, partners, history, Typed,
       TypeOK, Kept,
       KeepsRight
  <2>3. KeepsRight(c)'
    BY <1>0, <1>1, NothingIsEmpty DEF KeepRefresh, SaveShipping, partners,
       history, Moves,
       Typed, TypeOK, Kept, KeepsRight, PaymentStatus, Copy
  <2> QED BY <1>0, <1>1, <2>1, <2>2, <2>3, OthersKeep DEF Kept
<1>4. Vouched'
  BY <1>0, <1>1, NothingIsEmpty DEF KeepRefresh, SaveShipping, partners,
     history, Moves,
     Typed, TypeOK, ShippingStatus, PaymentStatus, Vouched, Kept, KeepsRight
<1>5. Earned'
  BY <1>0, <1>1, NothingIsEmpty DEF KeepRefresh, SaveShipping, partners,
     history, Moves,
     Typed, TypeOK, Earned, NothingForNothing, Vouched
<1>6. Timely'
  BY <1>0, <1>1 DEF KeepRefresh, partners, history, Moves,
     Timely, Checkouts, Syncs, Ships, Refreshes, Pickups, Refunded
<1>61. Untouched'
  BY <1>0, <1>1 DEF KeepRefresh, partners, history, Moves,
     Untouched, Syncs, Ships, Refreshes, Pickups
<1>7. OnePedido'
  BY <1>0, <1>1, PedidoUntouched DEF KeepRefresh, SaveShipping, partners,
     history
<1>8. OneMail'
  BY <1>0, <1>1 DEF KeepRefresh, SaveShipping, partners, history, OneMail,
     Writing, Syncs
<1>9. Served'
  BY <1>0, <1>1 DEF KeepRefresh, partners, history, Moves, Served
<1>10. Told'
  BY <1>0, <1>1, TellersStay DEF KeepRefresh, SaveShipping, partners, history
<1> QED BY <1>2, <1>3, <1>4, <1>5, <1>6, <1>61, <1>7, <1>8, <1>9, <1>10

\* A pickup reads the order.
LEMMA ReadForPickupKeeps ==
  ASSUME OrderInv, NEW c \in Pickups, ReadForPickup(c), kind' = kind, placed' = placed
  PROVE  OrderInv'
<1> USE DEF OrderInv
<1>0. /\ c \in Calls
      /\ npc \in [Calls -> NoticeLabels]
      /\ npc' = npc
      /\ shipping \in ShippingStatus
  BY DEF ReadForPickup, Checkouts, Syncs, Ships, Refreshes, Pickups, Typed,
     TypeOK,
     NoticeLabels
<1>1. /\ Moves(c)
      /\ pc'[c] # "new"
      /\ \/ pc'[c] = "ended" /\ seen'[c] = Nothing
         \/ /\ pc'[c] = "ready"
            /\ seen'[c].payment = seen[c].payment
            /\ seen'[c].status = seen[c].status
  <2>1. \/ End(c)
        \/ Keep(c, "shipping", shipping) /\ Goto(c, "ready")
    BY <1>0 DEF ReadForPickup, TypeOK, Typed
  <2>2. CASE End(c)
    BY <1>0, <2>2, Ends, Goes, KeepsShipping DEF Moves, Labels, Typed
  <2>3. CASE Keep(c, "shipping", shipping) /\ Goto(c, "ready")
    BY <1>0, <2>3, Ends, Goes, KeepsShipping DEF Moves, Labels, Typed
  <2> QED BY <2>1, <2>2, <2>3
<1>2. Typed'
  <2>1. StatusTyped'
    BY <1>0 DEF StatusTyped, ReadForPickup, order, partners, Typed, TypeOK,
       Kept,
       KeepsRight, ShippingStatus, PaymentStatus
  <2>2. PaymentTyped' /\ Len(payway) <= Len(payway')
    BY <1>0, <1>1 DEF PaymentTyped, ReadForPickup, order, partners, Typed,
       TypeOK, Copy,
       Kept, KeepsRight
  <2>3. DispatchTyped'
    BY <1>0, <1>1 DEF DispatchTyped, ReadForPickup, order, partners, Typed,
       TypeOK, Copy,
       Kept, KeepsRight, ShippingStatus
  <2>4. HistoryTyped'
    BY <1>0 DEF HistoryTyped, ReadForPickup, order, partners, Typed, TypeOK,
       Vouched
  <2>5. seen'[c].payment \in 0..Len(payway')
    BY <1>0, <1>1, <2>2, NothingIsEmpty DEF PaymentTyped, Typed, TypeOK
  <2> QED BY <1>0, <1>1, <2>1, <2>2, <2>3, <2>4, <2>5, TypedParts
<1>3. Kept'
  <2>1. Grows
    BY <1>0 DEF ReadForPickup, order, partners, Grows, Typed, TypeOK
  <2>2. payId' # 0 => payway'[payId'] # "none"
    BY <1>0, <1>1 DEF ReadForPickup, order, partners, Typed, TypeOK, Kept,
       KeepsRight
  <2>3. KeepsRight(c)'
    BY <1>0, <1>1, NothingIsEmpty DEF ReadForPickup, order, partners, Moves,
       Typed,
       TypeOK, Kept, KeepsRight, PaymentStatus, Copy
  <2> QED BY <1>0, <1>1, <2>1, <2>2, <2>3, OthersKeep DEF Kept
<1>4. Vouched'
  BY <1>0, <1>1, NothingIsEmpty DEF ReadForPickup, order, partners, Moves,
     Typed, TypeOK,
     ShippingStatus, PaymentStatus, Vouched, Kept, KeepsRight
<1>5. Earned'
  BY <1>0, <1>1, NothingIsEmpty DEF ReadForPickup, order, partners, Moves,
     Typed, TypeOK,
     Earned, NothingForNothing, Vouched
<1>6. Timely'
  BY <1>0, <1>1 DEF ReadForPickup, order, partners, Moves,
     Timely, Checkouts, Syncs, Ships, Refreshes, Pickups, Refunded
<1>61. Untouched'
  BY <1>0, <1>1 DEF ReadForPickup, order, partners, Moves,
     Untouched, Syncs, Ships, Refreshes, Pickups
<1>7. OnePedido'
  BY <1>0, <1>1, PedidoUntouched DEF ReadForPickup, order, partners
<1>8. OneMail'
  BY <1>0, <1>1 DEF ReadForPickup, order, partners, OneMail, Writing, Syncs
<1>9. Served'
  BY <1>0, <1>1 DEF ReadForPickup, order, partners, Moves, Served
<1>10. Told'
  BY <1>0, <1>1, TellersStay DEF ReadForPickup, order, partners
<1> QED BY <1>2, <1>3, <1>4, <1>5, <1>6, <1>61, <1>7, <1>8, <1>9, <1>10

\* The order is ready for pickup.
LEMMA KeepReadyKeeps ==
  ASSUME OrderInv, NEW c \in Pickups, KeepReady(c), kind' = kind, placed' = placed
  PROVE  OrderInv'
<1> USE DEF OrderInv
<1>0. c \in Calls /\ npc \in [Calls -> NoticeLabels] /\ npc' = npc
  BY DEF KeepReady, Checkouts, Syncs, Ships, Refreshes, Pickups, Typed, TypeOK,
     NoticeLabels
<1>1. /\ Moves(c)
      /\ pc'[c] # "new"
      /\ pc'[c] = "ended" /\ seen'[c] = Nothing
  <2>1. End(c)
    BY <1>0 DEF KeepReady, Typed
  <2> QED BY <1>0, <2>1, Ends DEF Moves, Labels, Typed
<1>2. Typed'
  <2>1. StatusTyped'
    BY <1>0 DEF StatusTyped, KeepReady, SaveShipping, partners, history, Typed,
       TypeOK,
       Kept, KeepsRight, ShippingStatus, PaymentStatus
  <2>2. PaymentTyped' /\ Len(payway) <= Len(payway')
    BY <1>0, <1>1 DEF PaymentTyped, KeepReady, SaveShipping, partners, history,
       Typed,
       TypeOK, Copy, Kept, KeepsRight
  <2>3. DispatchTyped'
    BY <1>0, <1>1 DEF DispatchTyped, KeepReady, SaveShipping, partners, history,
       Typed,
       TypeOK, Copy, Kept, KeepsRight, ShippingStatus
  <2>4. HistoryTyped'
    BY <1>0 DEF HistoryTyped, KeepReady, SaveShipping, partners, history, Typed,
       TypeOK,
       Vouched
  <2>5. seen'[c].payment \in 0..Len(payway')
    BY <1>0, <1>1, <2>2, NothingIsEmpty DEF PaymentTyped, Typed, TypeOK
  <2> QED BY <1>0, <1>1, <2>1, <2>2, <2>3, <2>4, <2>5, TypedParts
<1>3. Kept'
  <2>1. Grows
    BY <1>0 DEF KeepReady, SaveShipping, partners, history, Grows, Typed, TypeOK
  <2>2. payId' # 0 => payway'[payId'] # "none"
    BY <1>0, <1>1 DEF KeepReady, SaveShipping, partners, history, Typed, TypeOK,
       Kept,
       KeepsRight
  <2>3. KeepsRight(c)'
    BY <1>0, <1>1, NothingIsEmpty DEF KeepReady, SaveShipping, partners,
       history, Moves,
       Typed, TypeOK, Kept, KeepsRight, PaymentStatus, Copy
  <2> QED BY <1>0, <1>1, <2>1, <2>2, <2>3, OthersKeep DEF Kept
<1>4. Vouched'
  BY <1>0, <1>1, NothingIsEmpty DEF KeepReady, SaveShipping, partners, history,
     Moves,
     Typed, TypeOK, ShippingStatus, PaymentStatus, Vouched, Kept, KeepsRight
<1>5. Earned'
  BY <1>0, <1>1, NothingIsEmpty DEF KeepReady, SaveShipping, partners, history,
     Moves,
     Typed, TypeOK, Earned, NothingForNothing, Vouched
<1>6. Timely'
  BY <1>0, <1>1 DEF KeepReady, partners, history, Moves,
     Timely, Checkouts, Syncs, Ships, Refreshes, Pickups, Refunded
<1>61. Untouched'
  BY <1>0, <1>1 DEF KeepReady, partners, history, Moves,
     Untouched, Syncs, Ships, Refreshes, Pickups
<1>7. OnePedido'
  BY <1>0, <1>1, PedidoUntouched DEF KeepReady, SaveShipping, partners, history
<1>8. OneMail'
  BY <1>0, <1>1 DEF KeepReady, SaveShipping, partners, history, OneMail,
     Writing, Syncs
<1>9. Served'
  BY <1>0, <1>1 DEF KeepReady, partners, history, Moves, Served
<1>10. Told'
  BY <1>0, <1>1, TellersStay DEF KeepReady, SaveShipping, partners, history
<1> QED BY <1>2, <1>3, <1>4, <1>5, <1>6, <1>61, <1>7, <1>8, <1>9, <1>10

\* A notifier goes on if nobody has notified, alone or in doubt.
LEMMA ReadNoticeKeeps ==
  ASSUME OrderInv, NEW s \in Syncs, ReadNotice(s), kind' = kind, placed' = placed
  PROVE  OrderInv'
<1> USE DEF OrderInv
<1>0. s \in Calls
  BY DEF Checkouts, Syncs, Ships, Refreshes, Pickups
<1>1. /\ npc' \in [Calls -> NoticeLabels]
      /\ \A d \in Calls \ {s} : npc'[d] = npc[d]
      /\ npc'[s] \in {"none", "mail", "stamp"} /\ npc[s] = "read"
      /\ npc'[s] # "none" =>
           /\ paid = "approved" /\ ~ notified
           /\ Writing # {} => "mail" \in doubtful'
      /\ npc'[s] = "stamp" => "untold" \in doubtful'
      /\ npc'[s] = "none" => paid # "approved" \/ notified \/ "untold" \in doubtful'
      /\ doubtful' \subseteq doubtful \cup {"mail", "untold"}
      /\ doubtful \subseteq doubtful'
  <2>1. npc \in [Calls -> NoticeLabels]
    BY DEF Typed, TypeOK, NoticeLabels
  <2> QED BY <1>0, <2>1 DEF ReadNotice, Doubt, NoticeLabels
<1>11. Writing \subseteq Calls /\ Writing' = (Writing \ {s}) \cup (IF npc'[s] = "none" THEN {} ELSE {s})
  BY <1>0, <1>1 DEF Writing, Syncs, NoticeLabels
<1>2. Typed'
  BY <1>0, <1>1 DEF ReadNotice, order, partners, Typed, TypeOK, NoticeLabels
<1>3. Kept'
  BY <1>0, <1>1 DEF ReadNotice, order, partners, Typed, TypeOK, Kept, KeepsRight
<1>4. Vouched'
  BY <1>0, <1>1 DEF ReadNotice, order, partners, Typed, TypeOK, PaymentStatus, Vouched
<1>5. Earned'
  BY <1>0, <1>1 DEF ReadNotice, order, partners, Typed, TypeOK, Earned,
     NothingForNothing, Vouched
<1>6. Timely'
  BY <1>0, <1>1 DEF ReadNotice, order, partners, Typed, TypeOK, Timely, Checkouts,
     Syncs,
     Refunded, Vouched
<1>61. Untouched'
  BY <1>0, <1>1 DEF ReadNotice, order, partners, Typed, TypeOK, Untouched, Timely, Checkouts,
     Syncs,
     Refunded, Vouched
<1>7. OnePedido'
  BY <1>1 DEF ReadNotice, order, partners, OnePedido, Making
<1>8. OneMail'
  <2>1. mails' = mails /\ notified' = notified /\ mails \in Nat
    BY DEF ReadNotice, order, partners, Typed, TypeOK
  <2>2. notified \/ (\E r \in Writing' : npc'[r] = "stamp") =>
          mails > 0 \/ "untold" \in doubtful'
    <3>1. CASE notified \/ \E r \in Writing : npc[r] = "stamp"
      BY <1>1, <3>1 DEF OneMail
    <3>2. CASE npc'[s] = "stamp"
      BY <1>1, <3>2
    <3>3. \A r \in Writing' : r = s \/ (r \in Writing /\ npc'[r] = npc[r])
      BY <1>1, <1>11
    <3> QED BY <3>1, <3>2, <3>3
  <2>3. ASSUME "mail" \notin doubtful'
        PROVE  /\ \A q, r \in Writing' : q = r
               /\ \A r \in Writing' : npc'[r] = "mail" => mails = 0
               /\ Writing' = {} => notified \/ mails = 0
               /\ mails <= 1
    <3>1. CASE npc'[s] = "none"
      <4>1. Writing' = Writing /\ s \notin Writing
        BY <1>1, <1>11, <3>1 DEF Writing
      <4>2. \A r \in Writing : npc'[r] = npc[r]
        BY <1>1, <1>11, <4>1
      <4>3. "mail" \notin doubtful
        BY <1>1, <2>3
      <4> QED BY <4>1, <4>2, <4>3 DEF OneMail
    <3>2. CASE npc'[s] # "none"
      <4>1. Writing' = {s} /\ Writing = {} /\ ~ notified
        BY <1>1, <1>11, <2>3, <3>2
      <4>2. "mail" \notin doubtful
        BY <1>1, <2>3
      <4>3. mails = 0
        BY <4>1, <4>2 DEF OneMail
      <4> QED BY <4>1, <4>3
    <3> QED BY <3>1, <3>2
  <2> QED BY <2>1, <2>2, <2>3 DEF OneMail
<1>9. Served'
  BY <1>1 DEF ReadNotice, order, partners, Served
<1>10. Told'
  <2>1. SUFFICES ASSUME placed.status # "approved",
                        doubtful' \cap {"untold", "payment"} = {}
                 PROVE  Told'
    BY DEF Told
  <2>2. doubtful \cap {"untold", "payment"} = {} /\ "untold" \notin doubtful'
    BY <1>1, <2>1
  <2>3. CASE paid = "approved"
    <3>1. mails > 0 \/ \E d \in Calls : WillTell(d)
      BY <2>1, <2>2, <2>3 DEF Told
    <3>2. CASE mails > 0
      BY <2>3, <3>2 DEF ReadNotice, order, partners, Told
    <3>3. CASE \E d \in Calls \ {s} : WillTell(d)
      <4>1. \A d \in Calls \ {s} : WillTell(d) => WillTell(d)'
        BY <1>1 DEF ReadNotice, WillTell, Syncs
      <4> QED BY <2>3, <3>3, <4>1 DEF ReadNotice, order, partners, Told
    <3>4. CASE npc'[s] = "mail"
      BY <1>0, <2>3, <3>4 DEF ReadNotice, order, partners, Told, WillTell
    <3>5. CASE npc'[s] = "none"
      <4>1. mails > 0
        BY <1>1, <2>2, <2>3, <3>5 DEF OneMail
      <4> QED BY <2>3, <4>1 DEF ReadNotice, order, partners, Told
    <3> QED BY <1>1, <2>2, <3>1, <3>2, <3>3, <3>4, <3>5
  <2>4. CASE paid # "approved"
    BY <2>1, <2>2, <2>4 DEF ReadNotice, order, partners, Told
  <2> QED BY <2>3, <2>4
<1> QED BY <1>2, <1>3, <1>4, <1>5, <1>6, <1>61, <1>7, <1>8, <1>9, <1>10

\* The customer gets the mail.
LEMMA SendMailKeeps ==
  ASSUME OrderInv, NEW s \in Syncs, SendMail(s), kind' = kind, placed' = placed
  PROVE  OrderInv'
<1> USE DEF OrderInv
<1>0. s \in Calls
  BY DEF Checkouts, Syncs, Ships, Refreshes, Pickups
<1>1. /\ npc' \in [Calls -> NoticeLabels]
      /\ \A d \in Calls \ {s} : npc'[d] = npc[d]
      /\ npc[s] = "mail" /\ npc'[s] = "stamp"
      /\ mails' = mails + 1 \/ (mails' = mails /\ "untold" \in doubtful')
      /\ doubtful' \subseteq doubtful \cup {"untold"}
      /\ doubtful \subseteq doubtful'
  <2>1. npc \in [Calls -> NoticeLabels]
    BY DEF Typed, TypeOK, NoticeLabels
  <2> QED BY <1>0, <2>1 DEF SendMail, Doubt, NoticeLabels
<1>11. Writing' = (Writing \ {s}) \cup (IF npc'[s] = "none" THEN {} ELSE {s})
  BY <1>0, <1>1 DEF Writing, Syncs, NoticeLabels
<1>2. Typed'
  BY <1>0, <1>1 DEF SendMail, order, Typed, TypeOK, NoticeLabels
<1>3. Kept'
  BY <1>0, <1>1 DEF SendMail, order, Typed, TypeOK, Kept, KeepsRight
<1>4. Vouched'
  BY <1>0, <1>1 DEF SendMail, order, Typed, TypeOK, PaymentStatus, Vouched
<1>5. Earned'
  BY <1>0, <1>1 DEF SendMail, order, Typed, TypeOK, Earned,
     NothingForNothing, Vouched
<1>6. Timely'
  BY <1>0, <1>1 DEF SendMail, order, Typed, TypeOK, Timely, Checkouts, Syncs,
     Refunded,
     Vouched
<1>61. Untouched'
  BY <1>0, <1>1 DEF SendMail, order, Typed, TypeOK, Untouched, Timely, Checkouts, Syncs,
     Refunded,
     Vouched
<1>7. OnePedido'
  BY <1>1 DEF SendMail, order, OnePedido, Making
<1>8. OneMail'
  <2>1. Writing' = Writing /\ s \in Writing /\ mails \in Nat /\ notified' = notified
    BY <1>0, <1>1, <1>11 DEF SendMail, order, Writing, Typed, TypeOK
  <2>2. notified' \/ (\E r \in Writing' : npc'[r] = "stamp") =>
          mails' > 0 \/ "untold" \in doubtful'
    BY <1>1, <2>1 DEF OneMail
  <2>3. ASSUME "mail" \notin doubtful'
        PROVE  /\ \A q, r \in Writing' : q = r
               /\ \A r \in Writing' : npc'[r] = "mail" => mails' = 0
               /\ Writing' = {} => notified' \/ mails' = 0
               /\ mails' <= 1
    <3>1. Writing = {s} /\ mails = 0
      BY <1>1, <2>1, <2>3 DEF OneMail
    <3> QED BY <1>1, <2>1, <3>1
  <2> QED BY <2>2, <2>3 DEF OneMail
<1>9. Served'
  BY <1>1 DEF SendMail, order, Served
<1>10. Told'
  <2>1. SUFFICES ASSUME placed.status # "approved",
                        doubtful' \cap {"untold", "payment"} = {}
                 PROVE  Told'
    BY DEF Told
  <2>2. doubtful \cap {"untold", "payment"} = {} /\ mails' > 0
    BY <1>1, <2>1 DEF Typed, TypeOK
  <2> QED BY <2>1, <2>2 DEF SendMail, order, Told
<1> QED BY <1>2, <1>3, <1>4, <1>5, <1>6, <1>61, <1>7, <1>8, <1>9, <1>10

\* The notification is written to the order, or the order is in doubt.
LEMMA StampNoticeKeeps ==
  ASSUME OrderInv, NEW s \in Syncs, StampNotice(s), kind' = kind, placed' = placed
  PROVE  OrderInv'
<1> USE DEF OrderInv
<1>0. s \in Calls
  BY DEF Checkouts, Syncs, Ships, Refreshes, Pickups
<1>1. /\ npc' \in [Calls -> NoticeLabels]
      /\ \A d \in Calls \ {s} : npc'[d] = npc[d]
      /\ npc[s] = "stamp" /\ npc'[s] = "none"
      /\ notified' = TRUE \/ (notified' = notified /\ "mail" \in doubtful')
      /\ doubtful' \subseteq doubtful \cup {"mail"}
      /\ doubtful \subseteq doubtful'
  <2>1. npc \in [Calls -> NoticeLabels]
    BY DEF Typed, TypeOK, NoticeLabels
  <2> QED BY <1>0, <2>1 DEF StampNotice, Doubt, NoticeLabels
<1>11. Writing' = (Writing \ {s}) \cup (IF npc'[s] = "none" THEN {} ELSE {s})
  BY <1>0, <1>1 DEF Writing, Syncs, NoticeLabels
<1>2. Typed'
  BY <1>0, <1>1 DEF StampNotice, partners, Typed, TypeOK, NoticeLabels
<1>3. Kept'
  BY <1>0, <1>1 DEF StampNotice, partners, Typed, TypeOK, Kept, KeepsRight
<1>4. Vouched'
  BY <1>0, <1>1 DEF StampNotice, partners, Typed, TypeOK, PaymentStatus, Vouched
<1>5. Earned'
  BY <1>0, <1>1 DEF StampNotice, partners, Typed, TypeOK, Earned, NothingForNothing,
     Vouched
<1>6. Timely'
  BY <1>0, <1>1 DEF StampNotice, partners, Typed, TypeOK, Timely, Checkouts, Syncs,
     Refunded,
     Vouched
<1>61. Untouched'
  BY <1>0, <1>1 DEF StampNotice, partners, Typed, TypeOK, Untouched, Timely, Checkouts, Syncs,
     Refunded,
     Vouched
<1>7. OnePedido'
  BY <1>1 DEF StampNotice, partners, OnePedido, Making
<1>8. OneMail'
  <2>1. s \in Writing /\ mails' = mails /\ mails \in Nat
    BY <1>0, <1>1 DEF StampNotice, partners, Writing, Typed, TypeOK
  <2>2. mails > 0 \/ "untold" \in doubtful'
    BY <1>1, <2>1 DEF OneMail
  <2>3. ASSUME "mail" \notin doubtful'
        PROVE  Writing' = {} /\ notified' /\ mails <= 1
    <3>1. "mail" \notin doubtful /\ notified'
      BY <1>1, <2>3
    <3>2. Writing = {s} /\ mails <= 1
      BY <2>1, <3>1 DEF OneMail
    <3> QED BY <1>1, <1>11, <3>1, <3>2
  <2> QED BY <2>1, <2>2, <2>3 DEF OneMail
<1>9. Served'
  BY <1>1 DEF StampNotice, partners, Served
<1>10. Told'
  <2>1. \A d \in Calls : WillTell(d) => WillTell(d)'
    BY <1>0, <1>1 DEF StampNotice, WillTell, Syncs, Kept, KeepsRight
  <2> QED BY <1>1, <2>1 DEF StampNotice, partners, Told
<1> QED BY <1>2, <1>3, <1>4, <1>5, <1>6, <1>61, <1>7, <1>8, <1>9, <1>10

\* Payway approves, denies or gives back: no approval is forgotten.
LEMMA PayKeeps ==
  ASSUME OrderInv, NEW n \in DOMAIN payway, Pay(n), kind' = kind, placed' = placed
  PROVE  OrderInv'
<1> USE DEF OrderInv
<1>0. n \in DOMAIN payway
  BY DEF Checkouts, Syncs, Ships, Refreshes, Pickups
<1>2. Typed'
  <2>1. \E status \in PaywayStatus : payway' = [payway EXCEPT ![n] = status]
    BY DEF Pay, PaywayStatus
  <2>2. payway' \in Seq(PaywayStatus) /\ Len(payway') = Len(payway)
        /\ DOMAIN payway' = DOMAIN payway
    BY <1>0, <2>1, ExceptSeq DEF Typed, TypeOK
  <2> QED
  BY <1>0, <2>2 DEF Pay, order, Typed, TypeOK
<1>3. Kept'
  BY <1>0 DEF Pay, order, Typed, TypeOK, Kept, KeepsRight
<1>4. Vouched'
  BY <1>0 DEF Pay, order, Typed, TypeOK, PaymentStatus, Vouched
<1>5. Earned'
  BY <1>0 DEF Pay, order, Typed, TypeOK, Earned, NothingForNothing, Vouched
<1>6. Timely'
  BY <1>0 DEF Pay, order, Typed, TypeOK, Timely, Checkouts, Syncs, Refunded,
     Vouched
<1>61. Untouched'
  BY <1>0 DEF Pay, order, Typed, TypeOK, Untouched, Timely, Checkouts, Syncs, Refunded,
     Vouched
<1>7. OnePedido'
  BY <1>0 DEF Pay, order, Typed, TypeOK, OnePedido, Making
<1>8. OneMail'
  BY <1>0 DEF Pay, order, Typed, TypeOK, Kept, KeepsRight, OneMail, Writing,
     Syncs
<1>9. Served'
  BY <1>0 DEF Pay, order, Typed, TypeOK, Served
<1>10. Told'
  BY <1>0 DEF Pay, order, Typed, TypeOK, Told, WillTell, Syncs
<1> QED BY <1>2, <1>3, <1>4, <1>5, <1>6, <1>61, <1>7, <1>8, <1>9, <1>10

\* A parcel travels on.
LEMMA TravelKeeps ==
  ASSUME OrderInv, NEW n \in DOMAIN parcels, Travel(n), kind' = kind, placed' = placed
  PROVE  OrderInv'
<1> USE DEF OrderInv
<1>0. n \in DOMAIN parcels
  BY DEF Checkouts, Syncs, Ships, Refreshes, Pickups
<1>2. Typed'
  <2>1. \E status \in ShippingStatus : parcels' = [parcels EXCEPT ![n] = status]
    BY DEF Travel, ShippingStatus
  <2>2. parcels' \in Seq(ShippingStatus) /\ Len(parcels') = Len(parcels)
    BY <1>0, <2>1, ExceptSeq DEF Typed
  <2> QED
  BY <1>0, <2>2 DEF Travel, order, history, Typed, TypeOK
<1>3. Kept'
  BY <1>0 DEF Travel, order, history, Typed, TypeOK, Kept, KeepsRight
<1>4. Vouched'
  BY <1>0 DEF Travel, order, history, Typed, TypeOK, PaymentStatus, Vouched
<1>5. Earned'
  BY <1>0 DEF Travel, order, history, Typed, TypeOK, Earned, NothingForNothing,
     Vouched
<1>6. Timely'
  BY <1>0 DEF Travel, order, history, Typed, TypeOK, Timely, Checkouts, Syncs,
     Refunded,
     Vouched
<1>61. Untouched'
  BY <1>0 DEF Travel, order, history, Typed, TypeOK, Untouched, Timely, Checkouts, Syncs,
     Refunded,
     Vouched
<1>7. OnePedido'
  BY <1>0 DEF Travel, order, history, Typed, TypeOK, OnePedido, Making
<1>8. OneMail'
  BY <1>0 DEF Travel, order, history, Typed, TypeOK, Kept, KeepsRight, OneMail,
     Writing,
     Syncs
<1>9. Served'
  BY <1>0 DEF Travel, order, history, Typed, TypeOK, Served
<1>10. Told'
  BY <1>0 DEF Travel, order, history, Typed, TypeOK, Told, WillTell, Syncs
<1> QED BY <1>2, <1>3, <1>4, <1>5, <1>6, <1>61, <1>7, <1>8, <1>9, <1>10

\* A call that ends with an error leaves everything else as it was.
LEMMA BreakKeeps ==
  ASSUME OrderInv, NEW c \in Calls, Break(c), kind' = kind, placed' = placed
  PROVE  OrderInv'
<1> USE DEF OrderInv
<1>0. npc \in [Calls -> NoticeLabels] /\ npc' = npc
  BY DEF Break, Typed, TypeOK, NoticeLabels
<1>1. /\ Moves(c)
      /\ pc'[c] = "ended" /\ seen'[c] = Nothing
      /\ pc[c] \notin {"new", "ended", "pedido", "post", "keep"}
  <2>1. End(c)
    BY DEF Break
  <2> QED BY <1>0, <2>1, Ends DEF Break, Moves, Labels, Typed
<1>2. Typed'
  <2>1. StatusTyped' /\ PaymentTyped' /\ DispatchTyped' /\ HistoryTyped'
    BY DEF StatusTyped, PaymentTyped, DispatchTyped, HistoryTyped, Break, order,
       partners, history, Typed, TypeOK
  <2>2. Len(payway) <= Len(payway') /\ seen'[c].payment \in 0..Len(payway')
    BY <1>1, NothingIsEmpty DEF Break, partners, Typed, TypeOK
  <2> QED BY <1>1, <2>1, <2>2, TypedParts
<1>3. Kept'
  <2>1. Grows
    BY DEF Break, order, partners, history, Grows, Typed, TypeOK
  <2>2. payId' # 0 => payway'[payId'] # "none"
    BY DEF Break, order, partners, Kept
  <2>3. KeepsRight(c)'
    BY <1>1 DEF KeepsRight
  <2> QED BY <1>1, <2>1, <2>2, <2>3, OthersKeep DEF Kept
<1>4. Vouched'
  BY <1>1, NothingIsEmpty DEF Break, order, partners, history, Moves, Vouched
<1>5. Earned'
  BY <1>0, <1>1 DEF Break, order, partners, history, Moves, Earned, NothingForNothing
<1>6. Timely'
  BY <1>1 DEF Break, order, partners, history, Moves, Timely, Checkouts, Syncs, Refunded
<1>61. Untouched'
  BY <1>1 DEF Break, order, partners, history, Moves, Untouched, Syncs
<1>7. OnePedido'
  BY <1>1, PedidoUntouched DEF Break, order, partners, history
<1>8. OneMail'
  BY <1>0 DEF Break, order, partners, history, OneMail, Writing, Syncs
<1>9. Served'
  BY <1>1 DEF Break, order, partners, history, Moves, Served
<1>10. Told'
  BY <1>0, <1>1, TellersStay DEF Break, order, partners, history
<1> QED BY <1>2, <1>3, <1>4, <1>5, <1>6, <1>61, <1>7, <1>8, <1>9, <1>10
-----------------------------------------------------------------------------
(* The order as a whole *)

\* An order just placed.
LEMMA InitOrders == Init => OrderInv
<1> SUFFICES ASSUME Init PROVE OrderInv
  OBVIOUS
<1>1. Typed
  <2>1. \A c \in Calls : seen[c].payment = 0
    BY NothingIsEmpty DEF Init
  <2>2. /\ payway \in Seq(PaywayStatus) /\ payId \in 0..Len(payway)
        /\ Len(payway) \in Nat /\ placed \in Placement
        /\ parcels \in Seq(ShippingStatus) /\ Len(parcels) = 0
    <3>1. placed \in Placement /\ placed.payment \in PaywayStatus
      BY OrdersAssumption DEF Init, Placement
    <3>2. CASE payId = 0 /\ payway = << >>
      BY <3>1, <3>2 DEF Init
    <3>3. CASE payId = 1 /\ payway = <<placed.payment>>
      BY <3>1, <3>3 DEF Init
    <3> QED BY <3>2, <3>3 DEF Init
  <2>4. npc \in [Calls -> NoticeLabels]
    BY DEF Init, NoticeLabels
  <2>5. /\ paid \in PaymentStatus \cup {"other"} /\ shipping \in ShippingStatus
        /\ byCarrier \in BOOLEAN /\ notified \in BOOLEAN
    BY <2>2 DEF Init, Placement, ShippingStatus
  <2>6. /\ txn = 0 /\ pedido = 0 /\ pedidos = 0 /\ envio = 0 /\ mails = 0
        /\ cleared \subseteq DOMAIN payway /\ source = 0 /\ stale = {} /\ doubtful = {}
    BY DEF Init
  <2>7. TypeOK
    BY <2>1, <2>2, <2>4, <2>5, <2>6 DEF TypeOK, NoticeLabels
  <2>3. seen \in [Calls -> Copy]
    BY NothingIsEmpty DEF Init
  <2> QED BY <2>2, <2>3, <2>6, <2>7 DEF Init, Typed, Labels
<1>2. Kept
  BY DEF Init, Kept, KeepsRight
<1>3. Vouched /\ Earned /\ Timely /\ Untouched
  <2>1. /\ \A c \in Calls : pc[c] = "new" /\ npc[c] = "none" /\ seen[c] = Nothing
        /\ paid = placed.status /\ source = 0 /\ stale = {} /\ txn = 0
        /\ pedidos = 0 /\ parcels = << >> /\ mails = 0 /\ notified = FALSE
        /\ cleared = {n \in DOMAIN payway : payway[n] \in {"approved", "refunded"}}
    BY DEF Init
  <2>2. Vouched
    BY <2>1, NothingIsEmpty DEF Vouched
  <2>3. Earned
    BY <2>1 DEF Earned, NothingForNothing
  <2>4. Timely /\ Untouched
    BY <2>1 DEF Timely, Untouched, Checkouts, Syncs
  <2> QED BY <2>2, <2>3, <2>4
<1>4. OnePedido /\ OneMail
  <2>1. Making = {} /\ Writing = {}
    BY DEF Init, Making, Writing, Syncs
  <2>2. pedido = 0 /\ pedidos = 0 /\ mails = 0 /\ notified = FALSE
    BY DEF Init
  <2> QED BY <2>1, <2>2 DEF OnePedido, OneMail
<1>5. Served /\ Told
  BY DEF Init, Served, Told
<1> QED BY <1>1, <1>2, <1>3, <1>4, <1>5 DEF OrderInv

\* Every step keeps the invariant.
LEMMA NextKeeps == OrderInv /\ [Next]_vars => OrderInv'
<1> SUFFICES ASSUME OrderInv, [Next]_vars PROVE OrderInv'
  OBVIOUS
<1>1. CASE UNCHANGED vars
  <2>1. UNCHANGED <<Making, Writing, Checkouts, Syncs>>
    BY <1>1 DEF vars, fixed, Making, Writing, Checkouts, Syncs
  <2>2. Typed'
    BY <1>1 DEF OrderInv, Typed, TypeOK, vars, order, partners, fixed, history
  <2>3. Kept'
    BY <1>1 DEF OrderInv, Kept, KeepsRight, vars, order, partners
  <2>4. Vouched' /\ Earned' /\ Timely' /\ Untouched'
    BY <1>1, <2>1 DEF OrderInv, Vouched, Earned, NothingForNothing, Timely,
                     Untouched, Refunded, vars, order, partners, fixed, history
  <2>5. OnePedido' /\ OneMail' /\ Served' /\ Told'
    BY <1>1, <2>1 DEF OrderInv, OnePedido, OneMail, Served, Told, WillTell,
                     vars, order, partners, fixed, history
  <2> QED BY <2>2, <2>3, <2>4, <2>5 DEF OrderInv
<1>11. CASE fixed' = fixed /\ \E c \in Calls : Break(c)
  BY <1>11, BreakKeeps DEF fixed
<1>2. CASE fixed' = fixed /\ \E c \in Checkouts : Checkout(c)
  BY <1>2, OpenCheckoutKeeps, CreateSessionKeeps, StoreSessionKeeps DEF fixed, Checkout
<1>3. CASE fixed' = fixed /\ \E s \in Syncs : Sync(s)
  BY <1>3, WebhookKeeps, FindOrderKeeps, BareWebhookKeeps, PollKeeps,
     ResolveKeeps, LinkKeeps, CheckKeeps, MarkKeeps DEF fixed, Sync
<1>4. CASE fixed' = fixed /\ \E s \in Syncs : Notify(s)
  BY <1>4, ReadNoticeKeeps, SendMailKeeps, StampNoticeKeeps DEF fixed, Notify
<1>5. CASE fixed' = fixed /\ \E c \in Syncs \cup Ships : Pedido(c)
  BY <1>5, FindPedidoKeeps, PostPedidoKeeps, KeepPedidoKeeps DEF fixed, Pedido
<1>6. CASE fixed' = fixed /\ \E c \in Ships : Ship(c)
  BY <1>6, ReadForDispatchKeeps, PostParcelKeeps, KeepParcelKeeps DEF fixed, Ship
<1>7. CASE fixed' = fixed /\ \E c \in Refreshes : Refresh(c)
  BY <1>7, ReadForRefreshKeeps, GetParcelKeeps, KeepRefreshKeeps DEF fixed, Refresh
<1>8. CASE fixed' = fixed /\ \E c \in Pickups : Pickup(c)
  BY <1>8, ReadForPickupKeeps, KeepReadyKeeps DEF fixed, Pickup
<1>9. CASE fixed' = fixed /\ \E n \in DOMAIN payway : Pay(n)
  BY <1>9, PayKeeps DEF fixed
<1>10. CASE fixed' = fixed /\ \E n \in DOMAIN parcels : Travel(n)
  BY <1>10, TravelKeeps DEF fixed
<1> QED
  BY <1>1, <1>2, <1>3, <1>4, <1>5, <1>6, <1>7, <1>8, <1>9, <1>10, <1>11
     DEF Next, Step

\* The invariant holds of every order, for any number of calls of any kind.
THEOREM OrderInvariant == Spec => []OrderInv
<1>1. Init => OrderInv
  BY InitOrders
<1>2. OrderInv /\ [Next]_vars => OrderInv'
  BY NextKeeps
<1> QED BY <1>1, <1>2, PTL DEF Spec

\* Type correctness.
THEOREM OrdersTypeCorrect == Spec => []TypeOK
<1>1. OrderInv => TypeOK
  BY DEF OrderInv, Typed
<1> QED BY <1>1, OrderInvariant, PTL

\* Nothing is confirmed without a payment that Payway approved; and nothing is
\* approved, prepared or dispatched without one, unless it was placed as approved.
THEOREM PaymentComesFirst == Spec => []NothingForNothing
<1>1. OrderInv => NothingForNothing
  BY DEF OrderInv, Earned
<1> QED BY <1>1, OrderInvariant, PTL

\* One pedido and one mail, unless calls crossed, a write failed or an answer of
\* EnvioPack was lost or could not be read.
THEOREM OncePerOrderHolds == Spec => []OncePerOrder
<1>1. OrderInv => OncePerOrder
  BY DEF OrderInv, OnePedido, OneMail, OncePerOrder
<1> QED BY <1>1, OrderInvariant, PTL

\* An order that a payment made approved is known to its carrier, and its customer
\* was sent the mail about it.
THEOREM ApprovedIsServedHolds == Spec => []ApprovedIsServed
<1>1. OrderInv => ApprovedIsServed
  <2> SUFFICES ASSUME OrderInv, Quiet, paid = "approved", source # 0
               PROVE  /\ byCarrier /\ "unserved" \notin doubtful => pedido # 0
                      /\ placed.status # "approved"
                           /\ doubtful \cap {"untold", "payment"} = {} => mails > 0
    BY DEF ApprovedIsServed
  <2>1. \A c \in Calls : pc[c] \notin {"pedido", "post", "keep"} /\ npc[c] = "none"
    BY DEF Quiet
  <2>2. \A c \in Calls : ~ WillTell(c)
    BY <2>1 DEF WillTell
  <2> QED BY <2>1, <2>2 DEF OrderInv, Served, Told
<1> QED BY <1>1, OrderInvariant, PTL

\* An approved order stops being approved only for a reason.  Only StoreSession
\* and Mark write paymentStatus, and Timely says of both that they were stale or
\* that the payment was given back.
THEOREM ApprovalIsKept == Spec => PaidUntilToldOtherwise
<1> DEFINE Reason(c) ==
      /\ pc[c] \in {"mark", "store"} /\ pc'[c] # pc[c]
      /\ \/ c \in stale
         \/ c \in Syncs /\ seen[c].payment # source
         \/ c \in Syncs /\ Refunded(seen[c].payment)
    Justified == paid = "approved" /\ paid' # "approved" => \E c \in Calls : Reason(c)
<1>1. OrderInv /\ [Next]_vars => [Justified]_vars
  <2> SUFFICES ASSUME OrderInv, Next, paid = "approved", paid' # "approved"
               PROVE  \E c \in Calls : Reason(c)
    OBVIOUS
  <2>1. \/ \E c \in Checkouts : StoreSession(c)
        \/ \E s \in Syncs : Mark(s)
    <3>9. CASE \E c \in Calls : Break(c)
      BY <3>9 DEF Break, order
    <3>1. CASE \E c \in Checkouts : Checkout(c)
      BY <3>1 DEF Checkout, OpenCheckout, CreateSession, order
    <3>2. CASE \E s \in Syncs : Sync(s)
      BY <3>2 DEF Sync, Webhook, FindOrder, BareWebhook, Poll, Resolve, Link,
         Check, order
    <3>3. CASE \E s \in Syncs : Notify(s)
      BY <3>3 DEF Notify, ReadNotice, SendMail, StampNotice, order
    <3>4. CASE \E c \in Syncs \cup Ships : Pedido(c)
      BY <3>4 DEF Pedido, FindPedido, PostPedido, KeepPedido, order
    <3>5. CASE \E c \in Ships : Ship(c)
      BY <3>5 DEF Ship, ReadForDispatch, PostParcel, KeepParcel, order
    <3>6. CASE \E c \in Refreshes : Refresh(c)
      BY <3>6 DEF Refresh, ReadForRefresh, GetParcel, KeepRefresh, order
    <3>7. CASE \E c \in Pickups : Pickup(c)
      BY <3>7 DEF Pickup, ReadForPickup, KeepReady, order
    <3>8. CASE \/ \E n \in DOMAIN payway : Pay(n)
               \/ \E n \in DOMAIN parcels : Travel(n)
      BY <3>8 DEF Pay, Travel, order
    <3> QED BY <3>1, <3>2, <3>3, <3>4, <3>5, <3>6, <3>7, <3>8, <3>9
         DEF Next, Step
  <2>2. CASE \E c \in Checkouts : StoreSession(c)
    <3>1. PICK c \in Checkouts : StoreSession(c)
      BY <2>2
    <3>2. c \in Calls /\ pc[c] = "store" /\ pc'[c] = "ended"
      BY <3>1 DEF StoreSession, Checkouts, End, Goto, OrderInv, Typed
    <3>3. c \in stale
      BY <3>1, <3>2 DEF OrderInv, Timely
    <3> QED BY <3>2, <3>3
  <2>3. CASE \E s \in Syncs : Mark(s)
    <3>1. PICK s \in Syncs : Mark(s)
      BY <2>3
    <3>2. s \in Calls /\ pc[s] = "mark" /\ seen[s].status # "approved"
      BY <3>1 DEF Mark, Syncs
    <3>3. pc'[s] = "ended"
      BY <3>1, <3>2 DEF Mark, Finish, End, Goto, OrderInv, Typed
    <3>4. \/ s \in stale \/ seen[s].payment # source
          \/ Refunded(seen[s].payment)
      BY <3>1, <3>2 DEF OrderInv, Timely
    <3> QED BY <3>1, <3>2, <3>3, <3>4
  <2> QED BY <2>1, <2>2, <2>3
<1> QED BY <1>1, OrderInvariant, PTL DEF Spec, PaidUntilToldOtherwise
-----------------------------------------------------------------------------
(* The parcel *)

\* How far along a shipping status is.
LEMMA ProgressIs ==
  ASSUME NEW status \in ShippingStatus
  PROVE  /\ Progress(status) \in 0..4
         /\ status \in {"awaiting_dispatch", "awaiting_pickup"} => Progress(status) = 1
         /\ status \in {"label_ready", "ready_for_pickup"} => Progress(status) = 2
         /\ status = "shipped" => Progress(status) = 3
         /\ status = "delivered" => Progress(status) = 4
         /\ status = "pending_payment" => Progress(status) = 0
BY DEF ShippingStatus, Progress

\* The calls that dispatch, refresh or prepare a parcel, and what they are at
\* when they are about to write.
Dispatchers == Ships \cup Refreshes \cup Pickups
AboutToWrite == {"ship", "refresh", "ready"}

\* A call that is not about to write a status moves, and the order and its
\* parcels stay as they are: if it starts a dispatch, nobody else is at one, or
\* it is noted that they overlap.
LEMMA OnwardAside ==
  ASSUME Onward, NEW c \in Calls, kind' = kind, placed' = placed,
         \A d \in Calls \ {c} : pc'[d] = pc[d] /\ seen'[d] = seen[d],
         shipping' = shipping, byCarrier' = byCarrier, parcels' = parcels,
         doubtful \subseteq doubtful',
         c \in Dispatchers => pc'[c] \notin AboutToWrite,
         \/ c \in Dispatchers => pc'[c] = "ended"
         \/ c \in Dispatching
         \/ Dispatching = {}
         \/ "shipping" \in doubtful'
  PROVE  Onward'
<1> SUFFICES ASSUME OneDispatch' PROVE (Abreast /\ WritesInStep /\ Alone)'
  BY DEF Onward
<1>1. OneDispatch /\ Abreast /\ WritesInStep /\ Alone
  BY DEF Onward, OneDispatch
<1>2. UNCHANGED <<Ships, Refreshes, Pickups>>
  BY DEF Ships, Refreshes, Pickups
<1>3. \A status : InStep(status)' <=> InStep(status)
  BY DEF InStep
<1>4. Abreast'
  BY <1>1 DEF Abreast, InStep
<1>5. WritesInStep'
  <2>1. \A d \in Dispatchers : pc'[d] \in AboutToWrite =>
           d \in Calls /\ pc'[d] = pc[d] /\ seen'[d] = seen[d]
    BY DEF Dispatchers, Ships, Refreshes, Pickups
  <2>2. \A d \in Ships : pc'[d] = "ship" => InStep(seen'[d].status)
    BY <1>1, <2>1 DEF WritesInStep, Dispatchers, AboutToWrite
  <2>3. \A d \in Refreshes :
          pc'[d] = "refresh" => seen'[d].status = seen'[d].shipping \/ InStep(seen'[d].status)
    BY <1>1, <2>1 DEF WritesInStep, Dispatchers, AboutToWrite
  <2>4. \A d \in Pickups : pc'[d] = "ready" => ~ byCarrier
    BY <1>1, <2>1 DEF WritesInStep, Dispatchers, AboutToWrite
  <2> QED BY <1>2, <2>2, <2>3, <2>4 DEF WritesInStep, InStep
<1>6. Alone'
  <2>1. Dispatching' \ {c} = Dispatching \ {c}
    BY <1>2 DEF Dispatching, Ships, Refreshes, Pickups
  <2>2. c \in Dispatching' => c \in Dispatching \/ Dispatching = {}
    BY <1>2 DEF Dispatching, Dispatchers, OneDispatch
  <2> QED BY <1>1, <2>1, <2>2 DEF Alone
<1> QED BY <1>4, <1>5, <1>6

\* When nobody dispatches but the call that writes now, and it ends with that,
\* nobody is about to write.
LEMMA OnwardAlone ==
  ASSUME Onward, OneDispatch, NEW c \in Dispatching, kind' = kind, placed' = placed,
         \A d \in Calls \ {c} : pc'[d] = pc[d] /\ seen'[d] = seen[d],
         pc'[c] = "ended"
  PROVE  WritesInStep' /\ Alone'
<1>1. UNCHANGED <<Ships, Refreshes, Pickups>>
  BY DEF Ships, Refreshes, Pickups
<1>2. \A d \in Dispatching : d = c
  BY DEF Onward, Alone
<1>3. \A d \in Dispatchers : pc'[d] \notin AboutToWrite
  <2> SUFFICES ASSUME NEW d \in Dispatchers, pc'[d] \in AboutToWrite PROVE FALSE
    OBVIOUS
  <2>1. d # c /\ d \in Calls
    BY DEF AboutToWrite, Dispatchers, Ships, Refreshes, Pickups
  <2>2. d \in Dispatching
    BY <2>1 DEF AboutToWrite, Dispatching, Dispatchers
  <2> QED BY <1>2, <2>1, <2>2
<1>4. Dispatching' = {}
  <2>1. \A d \in Dispatchers : pc'[d] \in {"new", "ended"}
    BY <1>2 DEF Dispatching, Dispatchers, Ships, Refreshes, Pickups
  <2> QED BY <1>1, <2>1 DEF Dispatching, Dispatchers
<1> QED BY <1>1, <1>3, <1>4 DEF WritesInStep, Alone, Dispatchers, AboutToWrite

\* The order is marked approved once more: its status starts again, and is
\* behind whatever there is.
LEMMA OnwardMark ==
  ASSUME Typed, Onward, NEW s \in Syncs, kind' = kind, placed' = placed, Mark(s)
  PROVE  Onward'
<1>1. s \in Calls /\ s \notin Dispatchers
  BY DEF Syncs, Dispatchers, Ships, Refreshes, Pickups
<1>2. /\ doubtful \subseteq doubtful' /\ byCarrier' = byCarrier /\ parcels' = parcels
      /\ \A d \in Calls \ {s} : pc'[d] = pc[d] /\ seen'[d] = seen[d]
  BY <1>1 DEF Mark, Goto, Finish, End, Typed, partners
<1>3. CASE shipping' = shipping
  BY <1>1, <1>2, <1>3, OnwardAside
<1>4. CASE shipping' # shipping
  <2>1. shipping' \in {"awaiting_dispatch", "awaiting_pickup"}
    BY <1>4 DEF Mark
  <2>2. Progress(shipping') = 1
    BY <2>1, ProgressIs DEF ShippingStatus
  <2> SUFFICES ASSUME OneDispatch' PROVE (Abreast /\ WritesInStep /\ Alone)'
    BY DEF Onward
  <2>3. OneDispatch /\ Abreast /\ WritesInStep /\ Alone
    BY <1>2 DEF Onward, OneDispatch
  <2>4. UNCHANGED <<Ships, Refreshes, Pickups>>
    BY DEF Ships, Refreshes, Pickups
  <2>5. \A status : InStep(status) => InStep(status)'
    BY <1>2, <2>2 DEF InStep
  <2>6. Abreast'
    BY <1>2, <2>2, <2>3, <2>5 DEF Abreast
  <2>7. \A d \in Dispatchers : pc'[d] = pc[d] /\ seen'[d] = seen[d]
    BY <1>1, <1>2 DEF Dispatchers, Ships, Refreshes, Pickups
  <2>8. WritesInStep'
    BY <1>2, <2>3, <2>4, <2>5, <2>7 DEF WritesInStep, Dispatchers
  <2>9. Alone'
    <3>1. Dispatching' = Dispatching
      BY <2>4, <2>7 DEF Dispatching, Dispatchers
    <3> QED BY <2>3, <3>1 DEF Alone
  <2> QED BY <2>6, <2>8, <2>9
<1> QED BY <1>3, <1>4

\* A parcel is posted: it is the only one or one too many, and who posted it
\* holds its status.
LEMMA OnwardPost ==
  ASSUME OrderInv, Onward, NEW c \in Ships, kind' = kind, placed' = placed, PostParcel(c)
  PROVE  Onward'
<1>1. c \in Calls /\ c \in Dispatching /\ c \in Dispatchers /\ Typed
  BY DEF PostParcel, Ships, Dispatching, Dispatchers, OrderInv
<1>2. PICK state \in {"awaiting_dispatch", "label_ready"} :
        /\ \/ parcels' = Append(parcels, state) /\ doubtful' = doubtful
           \/ "shipping" \in doubtful'
        /\ \/ End(c)
           \/ /\ Goto(c, "ship")
              /\ \E n, status :
                   /\ status \in {state, "awaiting_dispatch"}
                   /\ seen' = [seen EXCEPT ![c].number = n, ![c].status = status]
  BY DEF PostParcel
<1>3. /\ \A d \in Calls \ {c} : pc'[d] = pc[d] /\ seen'[d] = seen[d]
      /\ pc'[c] \in {"ship", "ended"}
      /\ pc'[c] = "ship" => seen'[c].status \in {state, "awaiting_dispatch"}
  <2>1. CASE End(c)
    BY <1>1, <2>1, Ends
  <2>2. ASSUME Goto(c, "ship"), NEW n, NEW status \in {state, "awaiting_dispatch"},
               seen' = [seen EXCEPT ![c].number = n, ![c].status = status]
        PROVE  /\ \A d \in Calls \ {c} : pc'[d] = pc[d] /\ seen'[d] = seen[d]
               /\ pc'[c] = "ship" /\ seen'[c].status = status
    BY <1>1, <2>2 DEF Goto, Typed, Copy
  <2> QED BY <1>2, <2>1, <2>2
<1>4. shipping' = shipping /\ byCarrier' = byCarrier
  BY DEF PostParcel, order
<1> SUFFICES ASSUME OneDispatch' PROVE (Abreast /\ WritesInStep /\ Alone)'
  BY DEF Onward
<1>5. parcels' = Append(parcels, state) /\ doubtful' = doubtful
  BY <1>2 DEF OneDispatch
<1>6. /\ Len(parcels) \in Nat /\ Len(parcels') = Len(parcels) + 1
      /\ parcels'[Len(parcels')] = state
  BY <1>1, <1>5, LenProperties DEF Typed
<1>7. byCarrier /\ parcels = << >> /\ Len(parcels') = 1
  BY <1>1, <1>4, <1>6, EmptySeq DEF OneDispatch, Typed, TypeOK
<1>8. Abreast /\ WritesInStep /\ Alone
  BY <1>5, <1>6, <1>7 DEF Onward, OneDispatch
<1>9. Progress(state) \in 1..2 /\ Progress(shipping) <= 1 /\ Progress(shipping) \in 0..4
      /\ Progress("awaiting_dispatch") = 1
  BY <1>1, <1>7, <1>8, ProgressIs DEF Abreast, ShippingStatus, Typed, TypeOK
<1>10. InStep(state)' /\ InStep("awaiting_dispatch")' /\ Abreast'
  BY <1>4, <1>6, <1>7, <1>9 DEF InStep, Abreast
<1>11. UNCHANGED <<Ships, Refreshes, Pickups>>
  BY DEF Ships, Refreshes, Pickups
<1>12. \A d \in Dispatching : d = c
  BY <1>1, <1>8 DEF Alone
<1>13. \A d \in Dispatchers \ {c} : pc'[d] \in {"new", "ended"}
  BY <1>3, <1>12 DEF Dispatching, Dispatchers, Ships, Refreshes, Pickups
<1>14. Alone'
  BY <1>11, <1>13 DEF Alone, Dispatching, Dispatchers
<1>15. c \notin Refreshes /\ c \notin Pickups
  BY DEF Ships, Refreshes, Pickups
<1>16. WritesInStep'
  BY <1>3, <1>10, <1>11, <1>13, <1>15 DEF WritesInStep, Dispatchers
<1> QED BY <1>10, <1>14, <1>16

\* What a call writes about a parcel in step with it is not behind the order,
\* and the order is in step after it.
LEMMA SavesInStep ==
  ASSUME Typed, Onward, OneDispatch, NEW c \in Calls,
         parcels' = parcels, byCarrier' = byCarrier,
         NEW status \in ShippingStatus,
         InStep(status) \/ seen[c].shipping = status, SaveShipping(c, status)
  PROVE  Abreast' /\ Progress(shipping) <= Progress(shipping')
<1>1. shipping \in ShippingStatus /\ Abreast
  BY DEF Typed, TypeOK, Onward
<1>2. Progress(shipping) \in 0..4 /\ Progress(status) \in 0..4
  BY <1>1, ProgressIs
<1>3. CASE shipping' = shipping
  BY <1>1, <1>2, <1>3 DEF Abreast, InStep
<1>4. CASE shipping' = status /\ InStep(status)
  BY <1>1, <1>2, <1>4 DEF Abreast, InStep
<1> QED BY <1>3, <1>4 DEF SaveShipping

\* The parcel is saved, the refreshed status, or that the order is ready at the
\* store; or the write fails.
LEMMA OnwardKeepParcel ==
  ASSUME OrderInv, Onward, NEW c \in Ships, kind' = kind, placed' = placed, KeepParcel(c)
  PROVE  Onward' /\ (OneDispatch => Progress(shipping) <= Progress(shipping'))
<1>1. c \in Calls /\ c \in Dispatching /\ Typed
  BY DEF KeepParcel, Ships, Dispatching, OrderInv
<1>2. /\ \A d \in Calls \ {c} : pc'[d] = pc[d] /\ seen'[d] = seen[d]
      /\ pc'[c] = "ended"
      /\ parcels' = parcels /\ byCarrier' = byCarrier /\ doubtful' = doubtful
  BY <1>1, Ends DEF KeepParcel, partners, history
<1>3. ASSUME OneDispatch
      PROVE  Abreast' /\ Progress(shipping) <= Progress(shipping')
  <2>1. pc[c] = "ship" /\ seen[c].status \in ShippingStatus
    BY <1>1 DEF KeepParcel, OrderInv, Kept, KeepsRight
  <2>2. InStep(seen[c].status)
    BY <1>3, <2>1 DEF Onward, WritesInStep
  <2>3. CASE SaveShipping(c, seen[c].status)
    BY <1>1, <1>2, <1>3, <2>1, <2>2, <2>3, SavesInStep
  <2>4. CASE shipping' = shipping
    <3>1. Progress(shipping) \in 0..4
      BY <1>1, ProgressIs DEF Typed, TypeOK
    <3> QED BY <1>2, <1>3, <2>4, <3>1 DEF Onward, Abreast, InStep
  <2> QED BY <2>3, <2>4 DEF KeepParcel
<1>4. OneDispatch' => OneDispatch /\ WritesInStep' /\ Alone'
  BY <1>1, <1>2, OnwardAlone DEF OneDispatch
<1> QED BY <1>3, <1>4 DEF Onward

\* The status of the parcel is read: it is in step, or it is what the order had.
LEMMA OnwardGet ==
  ASSUME OrderInv, Onward, NEW c \in Refreshes, kind' = kind, placed' = placed, GetParcel(c)
  PROVE  Onward'
<1>1. c \in Calls /\ c \in Dispatching /\ c \in Dispatchers /\ Typed
  BY DEF GetParcel, Refreshes, Dispatching, Dispatchers, OrderInv
<1>2. /\ shipping' = shipping /\ byCarrier' = byCarrier /\ parcels' = parcels
      /\ doubtful' = doubtful
  BY DEF GetParcel, order, partners, history
<1> DEFINE state == parcels[seen[c].number]
<1>3. PICK status \in {state, seen[c].shipping} :
        Keep(c, "status", status) /\ Goto(c, "refresh")
  BY DEF GetParcel
<1>4. pc[c] = "get" /\ seen[c].number \in DOMAIN parcels /\ seen[c] \in Copy
  BY <1>1 DEF GetParcel, OrderInv, Kept, KeepsRight, Typed
<1>5. seen' = [seen EXCEPT ![c] = [seen[c] EXCEPT !.status = status]]
  BY <1>1, <1>3 DEF Keep, Typed
<1>6. /\ \A d \in Calls \ {c} : pc'[d] = pc[d] /\ seen'[d] = seen[d]
      /\ pc'[c] = "refresh"
      /\ seen'[c].shipping = seen[c].shipping /\ seen'[c].status = status
  BY <1>1, <1>3, <1>4, <1>5 DEF Goto, Typed, Copy
<1> SUFFICES ASSUME OneDispatch' PROVE (Abreast /\ WritesInStep /\ Alone)'
  BY DEF Onward
<1>7. OneDispatch /\ Abreast /\ WritesInStep /\ Alone
  BY <1>2 DEF Onward, OneDispatch
<1>8. parcels # << >> /\ seen[c].number = 1
  BY <1>1, <1>4, <1>7 DEF OneDispatch, Typed, TypeOK
<1>9. InStep(state)
  BY <1>7, <1>8 DEF Abreast
<1>10. \A x : InStep(x)' <=> InStep(x)
  BY <1>2 DEF InStep
<1>11. Abreast'
  BY <1>2, <1>7 DEF Abreast, InStep
<1>12. UNCHANGED <<Ships, Refreshes, Pickups, Dispatching>>
  <2>1. UNCHANGED <<Ships, Refreshes, Pickups>>
    BY DEF Ships, Refreshes, Pickups
  <2> QED BY <1>1, <1>4, <1>6, <2>1 DEF Dispatching, Ships, Refreshes, Pickups
<1>13. \A d \in Dispatchers : pc'[d] \in AboutToWrite => d = c
  BY <1>1, <1>6, <1>7 DEF Alone, AboutToWrite, Dispatching, Dispatchers,
                          Ships, Refreshes, Pickups
<1>14. c \notin Ships /\ c \notin Pickups
  BY DEF Ships, Refreshes, Pickups
<1>15. WritesInStep'
  BY <1>3, <1>6, <1>9, <1>10, <1>12, <1>13, <1>14 DEF WritesInStep, Dispatchers,
     AboutToWrite
<1> QED BY <1>7, <1>11, <1>12, <1>15 DEF Alone

\* What was read of the parcel is saved, or the write fails.
LEMMA OnwardKeepRefresh ==
  ASSUME OrderInv, Onward, NEW c \in Refreshes, kind' = kind, placed' = placed, KeepRefresh(c)
  PROVE  Onward' /\ (OneDispatch => Progress(shipping) <= Progress(shipping'))
<1>1. c \in Calls /\ c \in Dispatching /\ Typed
  BY DEF KeepRefresh, Refreshes, Dispatching, OrderInv
<1>2. /\ \A d \in Calls \ {c} : pc'[d] = pc[d] /\ seen'[d] = seen[d]
      /\ pc'[c] = "ended"
      /\ parcels' = parcels /\ byCarrier' = byCarrier /\ doubtful' = doubtful
  BY <1>1, Ends DEF KeepRefresh, partners, history
<1>3. ASSUME OneDispatch
      PROVE  Abreast' /\ Progress(shipping) <= Progress(shipping')
  <2>1. pc[c] = "refresh" /\ seen[c].status \in ShippingStatus
    BY <1>1 DEF KeepRefresh, OrderInv, Kept, KeepsRight
  <2>2. seen[c].status = seen[c].shipping \/ InStep(seen[c].status)
    BY <1>3, <2>1 DEF Onward, WritesInStep
  <2>3. CASE SaveShipping(c, seen[c].status)
    BY <1>1, <1>2, <1>3, <2>1, <2>2, <2>3, SavesInStep
  <2>4. CASE shipping' = shipping
    <3>1. Progress(shipping) \in 0..4
      BY <1>1, ProgressIs DEF Typed, TypeOK
    <3> QED BY <1>2, <1>3, <2>4, <3>1 DEF Onward, Abreast, InStep
  <2> QED BY <2>3, <2>4 DEF KeepRefresh
<1>4. OneDispatch' => OneDispatch /\ WritesInStep' /\ Alone'
  BY <1>1, <1>2, OnwardAlone DEF OneDispatch
<1> QED BY <1>3, <1>4 DEF Onward

\* An order that waits in the store is read, to say that it is ready.
LEMMA OnwardReadForPickup ==
  ASSUME OrderInv, Onward, NEW c \in Pickups, kind' = kind, placed' = placed, ReadForPickup(c)
  PROVE  Onward'
<1>1. c \in Calls /\ c \in Dispatchers /\ c \notin Dispatching /\ Typed
  BY DEF ReadForPickup, Pickups, Dispatching, Dispatchers, OrderInv
<1>2. /\ shipping' = shipping /\ byCarrier' = byCarrier /\ parcels' = parcels
      /\ doubtful \subseteq doubtful'
  BY DEF ReadForPickup, order, partners
<1>3. CASE End(c)
  <2>1. /\ \A d \in Calls \ {c} : pc'[d] = pc[d] /\ seen'[d] = seen[d]
        /\ pc'[c] = "ended"
    BY <1>1, <1>3, Ends
  <2> QED BY <1>1, <1>2, <2>1, OnwardAside DEF AboutToWrite
<1>4. CASE /\ Keep(c, "shipping", shipping) /\ Goto(c, "ready")
           /\ Dispatching # {} => "shipping" \in doubtful'
           /\ byCarrier => "pickup" \in doubtful'
  <2>1. /\ \A d \in Calls \ {c} : pc'[d] = pc[d] /\ seen'[d] = seen[d]
        /\ pc'[c] = "ready"
    BY <1>1, <1>4 DEF Keep, Goto, Typed
  <2> SUFFICES ASSUME OneDispatch' PROVE (Abreast /\ WritesInStep /\ Alone)'
    BY DEF Onward
  <2>2. Dispatching = {} /\ ~ byCarrier
    BY <1>4 DEF OneDispatch
  <2>3. OneDispatch /\ Abreast
    BY <1>2 DEF Onward, OneDispatch
  <2>4. UNCHANGED <<Ships, Refreshes, Pickups>>
    BY DEF Ships, Refreshes, Pickups
  <2>5. \A d \in Dispatchers \ {c} : pc'[d] \in {"new", "ended"}
    BY <2>1, <2>2 DEF Dispatching, Dispatchers, Ships, Refreshes, Pickups
  <2>6. Dispatching' \subseteq {c}
    BY <2>4, <2>5 DEF Dispatching, Dispatchers
  <2>7. c \notin Ships /\ c \notin Refreshes
    BY DEF Ships, Refreshes, Pickups
  <2>8. WritesInStep'
    BY <1>2, <2>2, <2>4, <2>5, <2>7 DEF WritesInStep, Dispatchers
  <2>9. Abreast'
    BY <1>2, <2>3 DEF Abreast, InStep
  <2> QED BY <2>6, <2>8, <2>9 DEF Alone
<1> QED BY <1>3, <1>4 DEF ReadForPickup

\* The order is ready at the store, and has no parcel.
LEMMA OnwardKeepReady ==
  ASSUME OrderInv, Onward, NEW c \in Pickups, kind' = kind, placed' = placed, KeepReady(c)
  PROVE  Onward' /\ (OneDispatch => Progress(shipping) <= Progress(shipping'))
<1>1. c \in Calls /\ c \in Dispatching /\ Typed
  BY DEF KeepReady, Pickups, Dispatching, OrderInv
<1>2. /\ \A d \in Calls \ {c} : pc'[d] = pc[d] /\ seen'[d] = seen[d]
      /\ pc'[c] = "ended"
      /\ parcels' = parcels /\ byCarrier' = byCarrier /\ doubtful' = doubtful
  BY <1>1, Ends DEF KeepReady, partners, history
<1>3. ASSUME OneDispatch
      PROVE  Abreast' /\ Progress(shipping) <= Progress(shipping')
  <2>1. ~ byCarrier /\ Abreast
    BY <1>3 DEF KeepReady, Onward, WritesInStep
  <2>2. parcels = << >>
    BY <1>1, <1>3, <2>1, EmptySeq DEF OneDispatch, Typed
  <2>3. Progress(shipping) <= 2
    BY <2>1, <2>2 DEF Abreast
  <2>4. shipping' \in {shipping, "ready_for_pickup"}
    BY DEF KeepReady, SaveShipping
  <2>5. Progress(shipping') <= 2 /\ Progress(shipping) <= Progress(shipping')
    <3>1. Progress(shipping) \in 0..4 /\ Progress("ready_for_pickup") = 2
      BY <1>1, ProgressIs DEF Typed, TypeOK, ShippingStatus
    <3> QED BY <2>3, <2>4, <3>1
  <2> QED BY <1>2, <2>1, <2>2, <2>5 DEF Abreast
<1>4. OneDispatch' => OneDispatch /\ WritesInStep' /\ Alone'
  BY <1>1, <1>2, OnwardAlone DEF OneDispatch
<1> QED BY <1>3, <1>4 DEF Onward

\* A parcel moves on.
LEMMA OnwardTravel ==
  ASSUME OrderInv, Onward, kind' = kind, placed' = placed, NEW n \in DOMAIN parcels, Travel(n)
  PROVE  Onward'
<1>1. /\ shipping' = shipping /\ byCarrier' = byCarrier /\ doubtful' = doubtful
      /\ pc' = pc /\ seen' = seen /\ Typed
  BY DEF Travel, order, history, OrderInv
<1>2. PICK status \in ShippingStatus :
        /\ parcels' = [parcels EXCEPT ![n] = status]
        /\ Progress(parcels[n]) <= Progress(status)
  BY ProgressIs DEF Travel, ShippingStatus
<1> SUFFICES ASSUME OneDispatch' PROVE (Abreast /\ WritesInStep /\ Alone)'
  BY DEF Onward
<1>3. /\ Len(parcels') = Len(parcels) /\ DOMAIN parcels = 1..Len(parcels)
      /\ Len(parcels) \in Nat
  BY <1>1, <1>2, LenProperties, ExceptSeq DEF Typed
<1>4. OneDispatch /\ Abreast /\ WritesInStep /\ Alone
  BY <1>1, <1>3 DEF Onward, OneDispatch
<1>5. n = 1 /\ parcels # << >> /\ parcels' # << >> /\ parcels'[1] = status
  BY <1>1, <1>2, <1>3, <1>4 DEF OneDispatch, Typed, TypeOK
<1>6. parcels[1] \in ShippingStatus
  BY <1>1, <1>5, ElementOfSeq, <1>3 DEF Typed
<1>7. Progress(parcels[1]) \in 0..4 /\ Progress(status) \in 0..4 /\ Progress(shipping) \in 0..4
  BY <1>1, <1>6, ProgressIs DEF Typed, TypeOK
<1>8. InStep(status)'
  BY <1>1, <1>2, <1>4, <1>5, <1>7 DEF Abreast, InStep
<1>9. \A c \in Calls, s \in ShippingStatus : InStep(s) => InStep(s)'
  <2> SUFFICES ASSUME NEW s \in ShippingStatus, InStep(s) PROVE InStep(s)'
    OBVIOUS
  <2>1. Progress(s) \in 0..4
    BY ProgressIs
  <2> QED BY <1>1, <1>2, <1>5, <1>7, <2>1 DEF InStep
<1>10. UNCHANGED <<Ships, Refreshes, Pickups, Dispatching>>
  BY <1>1 DEF Ships, Refreshes, Pickups, Dispatching
<1>11. \A c \in Dispatchers : c \in Calls /\ (pc[c] \in {"ship", "refresh"} =>
                                     seen[c].status \in ShippingStatus)
  BY DEF Dispatchers, Ships, Refreshes, Pickups, OrderInv, Kept, KeepsRight
<1>12. WritesInStep'
  BY <1>1, <1>4, <1>9, <1>10, <1>11 DEF WritesInStep, Dispatchers
<1> QED BY <1>4, <1>5, <1>8, <1>10, <1>12 DEF Abreast, Alone

\* Nothing is dispatched before the order is placed.
LEMMA InitOnward == Init => Onward
<1> SUFFICES ASSUME Init PROVE Onward
  OBVIOUS
<1>1. Dispatching = {} /\ \A c \in Calls : pc[c] = "new"
  BY DEF Init, Dispatching, Ships, Refreshes, Pickups
<1>2. parcels = << >> /\ Progress(shipping) = 0
  BY ProgressIs DEF Init, ShippingStatus
<1> QED BY <1>1, <1>2 DEF Onward, Abreast, WritesInStep, Alone, Ships,
           Refreshes,
                          Pickups, Init

\* The steps of a checkout, of a sync, of a notification and of a pedido are not
\* about the parcel: only Mark writes its status.
LEMMA OnwardBefore ==
  ASSUME OrderInv, Onward, kind' = kind, placed' = placed, NEW c \in Calls,
         \/ c \in Checkouts /\ Checkout(c)
         \/ c \in Syncs /\ (Sync(c) \/ Notify(c))
         \/ c \in Syncs \cup Ships /\ Pedido(c)
  PROVE  /\ Onward'
         /\ shipping' # shipping => c \in Syncs /\ Mark(c)
<1>1. Typed
  BY DEF OrderInv
<1>2. CASE c \in Syncs /\ Mark(c)
  BY <1>1, <1>2, OnwardMark
<1>3. CASE c \in Checkouts \cup Syncs /\ shipping' = shipping /\ byCarrier' = byCarrier
           /\ parcels' = parcels /\ doubtful \subseteq doubtful'
           /\ \A d \in Calls \ {c} : pc'[d] = pc[d] /\ seen'[d] = seen[d]
  <2>1. c \notin Dispatchers
    BY <1>3 DEF Checkouts, Syncs, Dispatchers, Ships, Refreshes, Pickups
  <2> QED BY <1>3, <2>1, OnwardAside
<1>4. CASE c \in Checkouts /\ Checkout(c)
  <2>1. /\ shipping' = shipping /\ byCarrier' = byCarrier
        /\ parcels' = parcels /\ doubtful \subseteq doubtful'
        /\ \A d \in Calls \ {c} : pc'[d] = pc[d] /\ seen'[d] = seen[d]
    BY <1>1, <1>4 DEF Checkout, OpenCheckout, CreateSession, StoreSession, Goto,
       End,
                      Keep, Typed, order, partners, history
  <2> QED BY <1>3, <1>4, <2>1
<1>5. CASE c \in Syncs /\ Sync(c) /\ ~ Mark(c)
  <2>1. /\ shipping' = shipping /\ byCarrier' = byCarrier
        /\ parcels' = parcels /\ doubtful \subseteq doubtful'
    BY <1>5 DEF Sync, Webhook, FindOrder, BareWebhook, Poll, Resolve, Link,
       Check,
                order, partners, history
  <2>2. \A d \in Calls \ {c} : pc'[d] = pc[d] /\ seen'[d] = seen[d]
    BY <1>1, <1>5 DEF Sync, Webhook, FindOrder, BareWebhook, Poll, Resolve,
       Link, Check,
                      Goto, End, Keep, Answer, Typed
  <2> QED BY <1>3, <1>5, <2>1, <2>2
<1>6. CASE c \in Syncs /\ Notify(c)
  <2>1. /\ shipping' = shipping /\ byCarrier' = byCarrier
        /\ parcels' = parcels /\ doubtful \subseteq doubtful'
        /\ pc' = pc /\ seen' = seen
    BY <1>6 DEF Notify, ReadNotice, SendMail, StampNotice, Doubt, order, partners
  <2> QED BY <1>3, <1>6, <2>1
<1>7. CASE c \in Syncs \cup Ships /\ Pedido(c)
  <2>1. /\ shipping' = shipping /\ byCarrier' = byCarrier
        /\ parcels' = parcels /\ doubtful \subseteq doubtful'
    BY <1>7 DEF Pedido, FindPedido, PostPedido, KeepPedido, Doubt, order,
       partners
  <2>2. \A d \in Calls \ {c} : pc'[d] = pc[d] /\ seen'[d] = seen[d]
    BY <1>1, <1>7 DEF Pedido, FindPedido, PostPedido, KeepPedido, AfterPedido,
       Finish,
                      Goto, End, Keep, Typed
  <2>3. c \in Dispatchers => c \in Dispatching
    BY <1>7 DEF Pedido, FindPedido, PostPedido, KeepPedido, Dispatching,
       Dispatchers
  <2>4. pc'[c] \in Labels \ AboutToWrite
    BY <1>1, <1>7 DEF Pedido, FindPedido, PostPedido, KeepPedido, AfterPedido,
       Finish,
                      Goto, End, Keep, Typed, Labels, AboutToWrite
  <2> QED BY <2>1, <2>2, <2>3, <2>4, OnwardAside
<1>8. \/ c \in Syncs /\ Mark(c)
      \/ c \in Checkouts /\ Checkout(c)
      \/ c \in Syncs /\ Sync(c) /\ ~ Mark(c)
      \/ c \in Syncs /\ Notify(c)
      \/ c \in Syncs \cup Ships /\ Pedido(c)
  BY DEF Sync
<1>9. \/ c \in Syncs /\ Mark(c)
      \/ shipping' = shipping
  BY <1>8 DEF Checkout, OpenCheckout, CreateSession, StoreSession, Sync,
     Webhook,
              FindOrder, BareWebhook, Poll, Resolve, Link, Check, Notify, ReadNotice,
              SendMail, StampNotice, Pedido, FindPedido, PostPedido, KeepPedido, order
<1> QED BY <1>2, <1>4, <1>5, <1>6, <1>7, <1>8, <1>9

\* A dispatch or a refresh reads the order.
LEMMA OnwardRead ==
  ASSUME OrderInv, Onward, kind' = kind, placed' = placed, NEW c \in Calls,
         \/ c \in Ships /\ ReadForDispatch(c)
         \/ c \in Refreshes /\ ReadForRefresh(c)
  PROVE  Onward' /\ shipping' = shipping
<1>1. Typed
  BY DEF OrderInv
<1>2. /\ shipping' = shipping /\ byCarrier' = byCarrier /\ parcels' = parcels
      /\ doubtful \subseteq doubtful'
      /\ \A d \in Calls \ {c} : pc'[d] = pc[d] /\ seen'[d] = seen[d]
      /\ pc'[c] \in {"ended", "parcel", "pedido", "get"}
  BY <1>1 DEF ReadForDispatch, ReadForRefresh, Goto, End, Keep, Typed, order,
     partners
<1>3. pc'[c] = "ended" \/ Dispatching = {} \/ "shipping" \in doubtful'
  BY <1>1 DEF ReadForDispatch, ReadForRefresh, End, Goto, Typed
<1> QED BY <1>2, <1>3, OnwardAside DEF AboutToWrite

\* Every step keeps what moves on in step, and moves the order's status on too,
\* unless calls overlapped, there is a parcel too many, or it is a Mark.
LEMMA NextOnward ==
  ASSUME OrderInv, Onward, Next
  PROVE  /\ Onward'
         /\ \/ \E s \in Syncs : Mark(s)
            \/ shipping' = shipping
            \/ OneDispatch => Progress(shipping) <= Progress(shipping')
<1>0. kind' = kind /\ placed' = placed /\ Step
  BY DEF Next, fixed
<1>7. CASE \E c \in Calls : Break(c)
  <2>1. PICK c \in Calls : Break(c)
    BY <1>7
  <2>2. /\ \A d \in Calls \ {c} : pc'[d] = pc[d] /\ seen'[d] = seen[d]
        /\ pc'[c] = "ended"
    BY <2>1, Ends DEF Break, OrderInv
  <2>3. /\ shipping' = shipping /\ byCarrier' = byCarrier /\ parcels' = parcels
        /\ doubtful' = doubtful
    BY <2>1 DEF Break, order, partners, history
  <2> QED BY <1>0, <2>2, <2>3, OnwardAside DEF AboutToWrite
<1>1. CASE \/ \E c \in Checkouts : Checkout(c)
           \/ \E s \in Syncs : Sync(s) \/ Notify(s)
           \/ \E c \in Syncs \cup Ships : Pedido(c)
  BY <1>0, <1>1, OnwardBefore DEF Checkouts, Syncs, Ships
<1>2. CASE \E c \in Ships : Ship(c)
  <2>1. PICK c \in Ships : ReadForDispatch(c) \/ PostParcel(c) \/ KeepParcel(c)
    BY <1>2 DEF Ship
  <2>2. PostParcel(c) => shipping' = shipping
    BY DEF PostParcel, order
  <2> QED BY <1>0, <2>1, <2>2, OnwardRead, OnwardPost, OnwardKeepParcel DEF Ships
<1>3. CASE \E c \in Refreshes : Refresh(c)
  <2>1. PICK c \in Refreshes : ReadForRefresh(c) \/ GetParcel(c) \/ KeepRefresh(c)
    BY <1>3 DEF Refresh
  <2>2. GetParcel(c) => shipping' = shipping
    BY DEF GetParcel, order
  <2> QED BY <1>0, <2>1, <2>2, OnwardRead, OnwardGet, OnwardKeepRefresh DEF Refreshes
<1>4. CASE \E c \in Pickups : Pickup(c)
  <2>1. PICK c \in Pickups : ReadForPickup(c) \/ KeepReady(c)
    BY <1>4 DEF Pickup
  <2>2. ReadForPickup(c) => shipping' = shipping
    BY DEF ReadForPickup, order
  <2> QED BY <1>0, <2>1, <2>2, OnwardReadForPickup, OnwardKeepReady
<1>5. CASE \E n \in DOMAIN payway : Pay(n)
  <2>1. UNCHANGED <<shipping, byCarrier, parcels, pc, seen, doubtful>>
    BY <1>5 DEF Pay, order
  <2> QED BY <1>0, <2>1 DEF Onward, OneDispatch, Abreast, InStep, WritesInStep, Alone,
                      Dispatching, Ships, Refreshes, Pickups
<1>6. CASE \E n \in DOMAIN parcels : Travel(n)
  <2>1. shipping' = shipping
    BY <1>6 DEF Travel, order
  <2> QED BY <1>0, <1>6, <2>1, OnwardTravel
<1> QED BY <1>0, <1>1, <1>2, <1>3, <1>4, <1>5, <1>6, <1>7 DEF Step

\* What is written about a parcel is never behind what is known of it, as long
\* as dispatch calls do not overlap and there is no parcel too many.
THEOREM OnwardInvariant == Spec => []Onward
<1>1. Init => Onward
  BY InitOnward
<1>2. OrderInv /\ Onward /\ [Next]_vars => Onward'
  <2>1. ASSUME OrderInv, Onward, UNCHANGED vars PROVE Onward'
    BY <2>1 DEF vars, order, partners, fixed, history, Onward, OneDispatch, Abreast,
       InStep,
                WritesInStep, Alone, Dispatching, Ships, Refreshes, Pickups
  <2> QED BY <2>1, NextOnward
<1> QED BY <1>1, <1>2, OrderInvariant, PTL DEF Spec

\* What a customer and the dispatch list see of a parcel never goes back, unless
\* calls overlapped, there is a parcel too many, or the order was approved again.
THEOREM ShippingOnlyAdvances == Spec => ShippingGoesForward
<1> DEFINE Reason ==
      \/ \E s \in Syncs : pc[s] = "mark" /\ pc'[s] # "mark"
      \/ doubtful \cap {"shipping", "pickup"} # {}
      \/ Len(parcels) > (IF byCarrier THEN 1 ELSE 0)
    Forward == Progress(shipping') < Progress(shipping) => Reason
<1>1. OrderInv /\ Onward /\ Onward' /\ OrderInv' /\ [Next]_vars => [Forward]_vars
  <2> SUFFICES ASSUME OrderInv, Onward, OrderInv', Next,
                      Progress(shipping') < Progress(shipping)
               PROVE  Reason
    OBVIOUS
  <2>1. Progress(shipping) \in 0..4 /\ Progress(shipping') \in 0..4
    BY ProgressIs DEF OrderInv, Typed, TypeOK
  <2>2. CASE \E s \in Syncs : Mark(s)
    <3>1. PICK s \in Syncs : Mark(s)
      BY <2>2
    <3>2. pc[s] = "mark" /\ pc'[s] # "mark"
      BY <3>1 DEF Mark, Goto, Finish, End, OrderInv, Typed, Syncs
    <3> QED BY <3>2
  <2>3. CASE shipping' = shipping
    BY <2>1, <2>3
  <2>4. CASE OneDispatch => Progress(shipping) <= Progress(shipping')
    <3>1. ~ OneDispatch
      BY <2>1, <2>4
    <3>2. Len(parcels) \in Nat
      BY DEF OrderInv, Typed
    <3> QED BY <3>1, <3>2 DEF OneDispatch
  <2> QED BY <2>2, <2>3, <2>4, NextOnward
<1> QED BY <1>1, OrderInvariant, OnwardInvariant, PTL DEF Spec,
           ShippingGoesForward
=============================================================================
