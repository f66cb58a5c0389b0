------------------------------- MODULE Orders -------------------------------
(***************************************************************************)
(* One ecommerce order from its payment to its dispatch: the Payway        *)
(* checkout, webhook and status sync (modules/payments/controllers/        *)
(* paymentsController.ts), markSalePaid (services/paymentSaleSync.ts), the *)
(* mail about the payment (services/orderNotificationService.ts) and the   *)
(* dispatch through EnvioPack (modules/shipping/services/                  *)
(* dispatchService.ts).                                                    *)
(*                                                                         *)
(* Every call reads the Sale document, talks to somebody else and writes   *)
(* some fields of it; nothing is versioned (versionKey false).  A payment  *)
(* is named by the checkout session it belongs to, and sessions, pedidos   *)
(* and parcels by the order in which they were created; 0 is none.  A      *)
(* payment of another order, named by the request that placed this one, is *)
(* payment 1.                                                              *)
(***************************************************************************)
EXTENDS Integers, Sequences, FiniteSets

CONSTANTS
  Calls,       \* the calls of the API; each is made once
  Placements,  \* what the request that places the order says of its payment
  Faults       \* what may go wrong, out of Fault

\* partner: Payway, EnvioPack or the mail server answers with an error, does not
\*          answer what it did, or confirms it in an answer that cannot be read
\* store:   a read or a write of MongoDB fails
Fault == {"partner", "store"}

\* paymentStatus is any text, pending if there is none; paymentId is none, or a
\* payment that Payway has already, with the status of it.
PaymentStatus == {"pending", "approved", "rejected"}
PaywayStatus  == {"none", "pending", "approved", "denied", "refunded"}
Placement == [status : PaymentStatus \cup {"other"}, payment : PaywayStatus]

\* checkout: POST /payway/checkout
\* sync:     a webhook from Payway, or a status sync by the shop's pages
\* ship:     POST /dispatch/:saleId
\* refresh:  a refresh of the dispatch, by hand or by EnvioPack's webhook
\* pickup:   POST /pickup/:saleId/notify-ready
Kind == {"checkout", "sync", "ship", "refresh", "pickup"}

ASSUME OrdersAssumption == Faults \subseteq Fault /\ Placements \subseteq Placement

VARIABLES
  \* fields of the Sale document
  byCarrier,  \* shippingQuote.carrierId is a carrier, not the store
  paid,       \* paymentStatus
  shipping,   \* shippingStatus
  txn,        \* paywayTransactionId: the last session stored
  payId,      \* paymentId: the last payment linked
  pedido,     \* envioPackPedidoId
  envio,      \* envioPackEnvioId
  notified,   \* paymentNotifiedAt is set
  \* Payway and EnvioPack
  payway,     \* payway[n]: the status of the payment of session n
  pedidos,    \* how many pedidos were created
  parcels,    \* parcels[n]: the state of parcel n
  mails,      \* how many mails confirm the payment to the customer
  \* the calls
  kind,       \* kind[c]: which call c is
  pc,         \* pc[c]: what call c does next, new at first and ended at last
  npc,        \* npc[s]: what the notification that sync s started does next
  seen,       \* seen[c]: what call c read, or was answered
  \* history
  placed,     \* what the order was placed with
  cleared,    \* payments that Payway approved at some time
  source,     \* the payment that last made the order approved, 0 before
  stale,      \* calls that were under way when it did
  doubtful    \* what calls crossed or a fault left half done

order    == <<byCarrier, paid, shipping, txn, payId, pedido, envio, notified>>
partners == <<payway, pedidos, parcels, mails>>
history  == <<cleared, source, stale, doubtful>>
\* What nothing changes.
fixed    == <<kind, placed>>
vars     == <<order, partners, fixed, pc, npc, seen, history>>

Checkouts == {c \in Calls : kind[c] = "checkout"}
Syncs     == {c \in Calls : kind[c] = "sync"}
Ships     == {c \in Calls : kind[c] = "ship"}
Refreshes == {c \in Calls : kind[c] = "refresh"}
Pickups   == {c \in Calls : kind[c] = "pickup"}

\* Of what Payway says of a payment: accredited is approved, rejected is denied,
\* annulled and cancelled are refunded here.
ShippingStatus == {"pending_payment", "awaiting_pickup", "ready_for_pickup",
                   "awaiting_dispatch", "label_ready", "shipped", "delivered"}

\* What a call keeps between its steps.  first: the sync is the first to find the
\* payment approved, or the dispatch found no parcel.
Nothing == [payment |-> 0, status |-> "pending", shipping |-> "pending_payment",
            number |-> 0, first |-> FALSE]

Goto(c, label) == pc' = [pc EXCEPT ![c] = label]
\* However it ends: the answer of the call goes to its caller.
End(c) == Goto(c, "ended") /\ seen' = [seen EXCEPT ![c] = Nothing]
Keep(c, field, value) == seen' = [seen EXCEPT ![c][field] = value]
Doubt(what) == doubtful' = doubtful \cup {what}

\* save writes shippingStatus only if it differs from what was read.
SaveShipping(c, status) ==
  shipping' = IF seen[c].shipping = status THEN shipping ELSE status
-----------------------------------------------------------------------------
\* An order just placed by checkoutDirect, which stores what the request says.
Init ==
  /\ placed \in Placements
  /\ byCarrier \in BOOLEAN
  /\ paid = placed.status
  /\ shipping = "pending_payment"
  /\ txn = 0 /\ pedido = 0 /\ envio = 0
  /\ notified = FALSE
  /\ IF placed.payment = "none" THEN payId = 0 /\ payway = << >>
     ELSE payId = 1 /\ payway = <<placed.payment>>
  /\ pedidos = 0 /\ parcels = << >> /\ mails = 0
  /\ kind \in [Calls -> Kind]
  /\ pc = [c \in Calls |-> "new"]
  /\ npc = [c \in Calls |-> "none"]
  /\ seen = [c \in Calls |-> Nothing]
  /\ cleared = {n \in DOMAIN payway : payway[n] \in {"approved", "refunded"}}
  /\ source = 0 /\ stale = {} /\ doubtful = {}

\* A call ends with an error: what it reads, writes or asks of Payway or EnvioPack
\* fails and leaves nothing behind.
Break(c) ==
  /\ \/ /\ "partner" \in Faults
        /\ pc[c] \in {"session", "resolve", "parcel", "get"}
     \/ /\ "store" \in Faults
        /\ pc[c] \in {"store", "find", "link", "check", "mark", "parcel", "ship",
                      "refresh", "ready"}
  /\ End(c)
  /\ UNCHANGED <<order, partners, npc, history>>

(* createPaywayCheckoutController *)

\* Sale.findById and its guards.  An order older than a day, cancelled or without
\* an address to write to is refused too.
MutOpenCheckout(c) ==
  /\ pc[c] = "new"
  /\ Goto(c, "session")
  /\ UNCHANGED <<order, partners, npc, seen, history>>
OpenCheckout(c) ==
  /\ pc[c] = "new"
  /\ Goto(c, IF paid \in {"pending", "rejected"} THEN "session" ELSE "ended")
  /\ UNCHANGED <<order, partners, npc, seen, history>>

\* createCheckoutSession.
CreateSession(c) ==
  /\ pc[c] = "session"
  /\ payway' = Append(payway, "none")
  /\ Keep(c, "number", Len(payway'))
  /\ Goto(c, "store")
  /\ UNCHANGED <<order, pedidos, parcels, mails, npc, history>>

\* Sale.findByIdAndUpdate with the session and paymentStatus pending.
MutStoreSession(c) ==
  /\ pc[c] = "store"
  /\ txn' = seen[c].number
  /\ paid' = "pending" /\ shipping' = "pending_payment"
  /\ doubtful' = IF paid = "approved" THEN doubtful \cup {"payment"} ELSE doubtful
  /\ End(c)
  /\ UNCHANGED <<byCarrier, payId, pedido, envio, notified, partners,
                 npc, cleared, source, stale>>
StoreSession(c) ==
  /\ pc[c] = "store"
  /\ txn' = seen[c].number
  /\ paid' = "pending"
  /\ doubtful' = IF paid = "approved" THEN doubtful \cup {"payment"} ELSE doubtful
  /\ End(c)
  /\ UNCHANGED <<byCarrier, shipping, payId, pedido, envio, notified, partners,
                 npc, cleared, source, stale>>

(* paywayWebhookController and syncPaywaySaleStatusController *)

\* mapPaywayStatus of a payment that exists.
MutMapped(n) == IF payway[n] \in {"denied", "refunded"} THEN "rejected" ELSE "approved"
Mapped(n) ==
  CASE payway[n] = "approved" -> "approved"
    [] payway[n] \in {"denied", "refunded"} -> "rejected"
    [] OTHER -> "pending"
Answer(c, n) ==
  seen' = [seen EXCEPT ![c].payment = n, ![c].status = Mapped(n)]

\* A notification about a payment: getPaymentById, and not the notification,
\* says its status.
Webhook(s) ==
  /\ pc[s] = "new"
  /\ \E n \in DOMAIN payway : payway[n] # "none" /\ Answer(s, n)
  /\ Goto(s, "find")
  /\ UNCHANGED <<order, partners, npc, history>>

\* findSaleForPaywayResult, and the save of paymentId if it is another.  The
\* payment of another order finds that order first, if it still has its session.
Foreign(n) == n = 1 /\ placed.payment # "none"
FindOrder(s) ==
  LET n == seen[s].payment
  IN  /\ pc[s] = "find"
      /\ \/ /\ n \in {txn, payId}
            /\ Goto(s, IF n = payId THEN "check" ELSE "link")
            /\ UNCHANGED seen
         \/ /\ n \notin {txn, payId} \/ Foreign(n)
            /\ End(s)
  /\ UNCHANGED <<order, partners, npc, history>>

\* A notification without a payment: the order of its session is pending.
BareWebhook(s) ==
  /\ pc[s] = "new"
  /\ txn # 0
  /\ Goto(s, "check")
  /\ UNCHANGED <<order, partners, npc, seen, history>>

\* A status sync finds the order: Sale.findById.
Poll(s) ==
  /\ pc[s] = "new"
  /\ IF txn = 0 /\ payId = 0 THEN End(s)
     ELSE /\ seen' = [seen EXCEPT ![s].payment = payId, ![s].number = txn]
          /\ Goto(s, "resolve")
  /\ UNCHANGED <<order, partners, npc, history>>

\* resolvePaymentForSale: by the payment linked, or else by the session; then
\* paymentId is saved if it is another.
Resolve(s) ==
  LET linked == seen[s].payment
      session == seen[s].number
  IN  /\ pc[s] = "resolve"
      /\ \/ /\ linked # 0
            /\ Answer(s, linked)
            /\ Goto(s, "check")
         \/ /\ linked = 0 \/ "partner" \in Faults
            /\ session # 0
            /\ payway[session] # "none"
            /\ Answer(s, session)
            /\ Goto(s, IF session = linked THEN "check" ELSE "link")
         \/ /\ linked = 0
            /\ payway[session] = "none"
            /\ End(s)
  /\ UNCHANGED <<order, partners, npc, history>>

\* sale.paymentId = ...; sale.save().
Link(s) ==
  /\ pc[s] = "link"
  /\ payId' = seen[s].payment
  /\ Goto(s, "check")
  /\ UNCHANGED <<byCarrier, paid, shipping, txn, pedido, envio, notified,
                 partners, npc, seen, history>>

(* markSalePaid *)

\* Sale.findById: wasApproved.
MutCheck(s) ==
  /\ pc[s] = "check"
  /\ Keep(s, "first", paid = "pending")
  /\ Goto(s, "mark")
  /\ UNCHANGED <<order, partners, npc, history>>
Check(s) ==
  /\ pc[s] = "check"
  /\ Keep(s, "first", paid # "approved")
  /\ Goto(s, "mark")
  /\ UNCHANGED <<order, partners, npc, history>>

\* The sync is over; if it was the first to find the payment approved, the
\* notification starts, and nobody waits for it.
Finish(s) ==
  /\ npc' = [npc EXCEPT ![s] = IF seen[s].status = "approved" /\ seen[s].first
                               THEN "read" ELSE @]
  /\ End(s)

\* Calls that have read the order or a payment, and not ended.
UnderWay == {c \in Calls : pc[c] \notin {"new", "ended"}}

\* Sale.findByIdAndUpdate with the status; an approved order waits for pickup
\* or dispatch, whatever it did before.
Mark(s) ==
  LET approved == seen[s].status = "approved"
  IN  /\ pc[s] = "mark"
      /\ paid' = seen[s].status
      /\ shipping' = IF ~ approved THEN shipping
                     ELSE IF byCarrier THEN "awaiting_dispatch"
                     ELSE "awaiting_pickup"
      /\ IF approved THEN source' = seen[s].payment /\ stale' = UnderWay \ {s}
         ELSE UNCHANGED <<source, stale>>
      /\ IF approved /\ byCarrier
         THEN Goto(s, "pedido") /\ UNCHANGED <<seen, npc>>
         ELSE Finish(s)
      /\ doubtful' = IF paid = "approved" /\ ~ approved
                     THEN doubtful \cup {"payment"} ELSE doubtful
      /\ UNCHANGED <<byCarrier, txn, payId, pedido, envio, notified, partners,
                     cleared>>

(* createEnvioPackPedidoForSale, called by markSalePaid and by a dispatch *)

\* What follows: a sync swallows errors, a dispatch ends with them.
AfterPedido(c, ok) ==
  IF c \in Syncs THEN Finish(c)
  ELSE /\ IF ok THEN Goto(c, "parcel") /\ UNCHANGED seen ELSE End(c)
       /\ UNCHANGED npc

\* Sale.findById: is there a pedido already?
Making == {c \in Calls : pc[c] \in {"post", "keep"}}
FindPedido(c) ==
  /\ pc[c] = "pedido"
  /\ \/ pedido # 0 /\ AfterPedido(c, TRUE) /\ UNCHANGED doubtful
     \/ /\ pedido = 0
        /\ Goto(c, "post")
        /\ doubtful' = IF Making # {} THEN doubtful \cup {"pedido"} ELSE doubtful
        /\ UNCHANGED <<npc, seen>>
     \/ "store" \in Faults /\ AfterPedido(c, FALSE) /\ Doubt("unserved")
  /\ UNCHANGED <<order, partners, cleared, source, stale>>

\* POST /pedidos.  When it ends with an error, the pedido may exist all the same;
\* when the answer cannot be read, the call goes on without its number.
PostPedido(c) ==
  /\ pc[c] = "post"
  /\ \/ /\ pedidos' = pedidos + 1
        /\ Keep(c, "number", pedidos')
        /\ Goto(c, "keep")
        /\ UNCHANGED <<npc, doubtful>>
     \/ /\ "partner" \in Faults
        /\ pedidos' \in {pedidos, pedidos + 1}
        /\ \/ AfterPedido(c, FALSE)
           \/ Keep(c, "number", 0) /\ Goto(c, "keep") /\ UNCHANGED npc
        /\ doubtful' = doubtful \cup {"unserved"}
             \cup (IF pedidos' = pedidos THEN {} ELSE {"pedido"})
  /\ UNCHANGED <<order, payway, parcels, mails, cleared, source, stale>>

\* sale.envioPackPedidoId = ...; sale.save().
KeepPedido(c) ==
  /\ pc[c] = "keep"
  /\ \/ /\ pedido' = IF seen[c].number = 0 THEN pedido ELSE seen[c].number
        /\ AfterPedido(c, TRUE)
        /\ UNCHANGED doubtful
     \/ /\ "store" \in Faults
        /\ AfterPedido(c, FALSE)
        /\ doubtful' = doubtful \cup {"pedido", "unserved"}
        /\ UNCHANGED pedido
  /\ UNCHANGED <<byCarrier, paid, shipping, txn, payId, envio, notified,
                 partners, cleared, source, stale>>

(* notifyOrderPaymentApproved, in the background of sync s *)

\* Sale.findById and its guards, and the settings.  Only an order that went through
\* a checkout has an address of the customer for sure.
Writing == {s \in Syncs : npc[s] \in {"mail", "stamp"}}
MutReadNotice(s) ==
  /\ npc[s] = "read"
  /\ npc' = [npc EXCEPT ![s] = IF paid # "approved" THEN "none" ELSE "mail"]
  /\ doubtful' = IF Writing # {} THEN doubtful \cup {"mail"} ELSE doubtful
  /\ UNCHANGED <<order, partners, pc, seen, cleared, source, stale>>
ReadNotice(s) ==
  /\ npc[s] = "read"
  /\ \/ /\ paid # "approved" \/ notified
        /\ npc' = [npc EXCEPT ![s] = "none"]
        /\ UNCHANGED doubtful
     \/ /\ paid = "approved" /\ ~ notified
        /\ \E addressed \in {TRUE} \cup {txn # 0} :
             /\ npc' = [npc EXCEPT ![s] = IF addressed THEN "mail" ELSE "stamp"]
             /\ doubtful' = doubtful \cup (IF Writing # {} THEN {"mail"} ELSE {})
                                     \cup (IF addressed THEN {} ELSE {"untold"})
     \/ /\ "store" \in Faults
        /\ npc' = [npc EXCEPT ![s] = "none"]
        /\ Doubt("untold")
  /\ UNCHANGED <<order, partners, pc, seen, cleared, source, stale>>

\* sendMail; its errors are swallowed.
SendMail(s) ==
  /\ npc[s] = "mail"
  /\ \/ mails' = mails + 1 /\ UNCHANGED doubtful
     \/ "partner" \in Faults /\ mails' = mails /\ Doubt("untold")
  /\ npc' = [npc EXCEPT ![s] = "stamp"]
  /\ UNCHANGED <<order, payway, pedidos, parcels, pc, seen, cleared, source, stale>>

\* sale.paymentNotifiedAt = ...; sale.save(), whatever became of the mails.
StampNotice(s) ==
  /\ npc[s] = "stamp"
  /\ \/ notified' = TRUE /\ UNCHANGED doubtful
     \/ "store" \in Faults /\ Doubt("mail") /\ UNCHANGED notified
  /\ npc' = [npc EXCEPT ![s] = "none"]
  /\ UNCHANGED <<byCarrier, paid, shipping, txn, payId, pedido, envio, partners,
                 pc, seen, cleared, source, stale>>

(* createEnvioPackShipmentForSale *)

\* Sale.findById and its guards; there is a pedido, or one is created first.
\* Nothing looks at envioPackEnvioId.
Dispatching ==
  {c \in Ships \cup Refreshes \cup Pickups : pc[c] \notin {"new", "ended"}}
ReadForDispatch(c) ==
  /\ pc[c] = "new"
  /\ IF paid # "approved" THEN End(c) /\ UNCHANGED doubtful
     ELSE /\ seen' = [seen EXCEPT ![c].shipping = shipping, ![c].first = (envio = 0)]
          /\ Goto(c, IF pedido # 0 THEN "parcel" ELSE "pedido")
          /\ doubtful' = IF Dispatching # {} THEN doubtful \cup {"shipping"}
                         ELSE doubtful
  /\ UNCHANGED <<order, partners, npc, cleared, source, stale>>

\* POST /envios, with the same ways to fail as POST /pedidos.  An answer that cannot
\* be read is taken for a parcel without a label.
PostParcel(c) ==
  /\ pc[c] = "parcel"
  /\ \E state \in {"awaiting_dispatch", "label_ready"} :
       \/ /\ parcels' = Append(parcels, state)
          /\ seen' = [seen EXCEPT ![c].number = Len(parcels'), ![c].status = state]
          /\ Goto(c, "ship")
          /\ UNCHANGED doubtful
       \/ /\ "partner" \in Faults
          /\ parcels' = Append(parcels, state)
          /\ End(c)
          /\ UNCHANGED doubtful
       \/ /\ "partner" \in Faults
          /\ parcels' \in {parcels, Append(parcels, state)}
          /\ seen' = [seen EXCEPT ![c].number = 0, ![c].status = "awaiting_dispatch"]
          /\ Goto(c, "ship")
          /\ doubtful' = IF parcels' = parcels THEN doubtful \cup {"shipping"}
                         ELSE doubtful
  /\ UNCHANGED <<order, payway, pedidos, mails, npc, cleared, source, stale>>

\* The parcel and its state are saved; what was read before is not read again.  A
\* number that is missing takes the place of one that was there.
KeepParcel(c) ==
  /\ pc[c] = "ship"
  /\ envio' = IF seen[c].number = 0 /\ seen[c].first THEN envio ELSE seen[c].number
  /\ SaveShipping(c, seen[c].status)
  /\ End(c)
  /\ UNCHANGED <<byCarrier, paid, txn, payId, pedido, notified, partners, npc,
                 history>>

(* refreshEnvioPackShipment *)

ReadForRefresh(c) ==
  /\ pc[c] = "new"
  /\ IF envio = 0 THEN End(c) /\ UNCHANGED doubtful
     ELSE /\ seen' = [seen EXCEPT ![c].number = envio, ![c].shipping = shipping]
          /\ Goto(c, "get")
          /\ doubtful' = IF Dispatching # {} THEN doubtful \cup {"shipping"}
                         ELSE doubtful
  /\ UNCHANGED <<order, partners, npc, cleared, source, stale>>

\* GET /envios/:id.  A parcel without a label says nothing about the status, and
\* neither does an answer that cannot be read.
GetParcel(c) ==
  /\ pc[c] = "get"
  /\ \/ /\ parcels[seen[c].number] # "awaiting_dispatch"
        /\ Keep(c, "status", parcels[seen[c].number])
     \/ /\ parcels[seen[c].number] = "awaiting_dispatch" \/ "partner" \in Faults
        /\ Keep(c, "status", seen[c].shipping)
  /\ Goto(c, "refresh")
  /\ UNCHANGED <<order, partners, npc, history>>

KeepRefresh(c) ==
  /\ pc[c] = "refresh"
  /\ SaveShipping(c, seen[c].status)
  /\ End(c)
  /\ UNCHANGED <<byCarrier, paid, txn, payId, pedido, envio, notified, partners,
                 npc, history>>

(* notifyPickupReady *)

\* Sale.findById, its guards and the mail.  An order without an address is refused
\* too.  The guard on shippingQuote.pickupBranch, a nested path of the schema that
\* every document has, lets the orders of a carrier through.
ReadForPickup(c) ==
  /\ pc[c] = "new"
  /\ IF paid # "approved" THEN End(c) /\ UNCHANGED doubtful
     ELSE /\ Keep(c, "shipping", shipping)
          /\ Goto(c, "ready")
          /\ doubtful' = doubtful \cup (IF Dispatching # {} THEN {"shipping"} ELSE {})
                                  \cup (IF byCarrier THEN {"pickup"} ELSE {})
  /\ UNCHANGED <<order, partners, npc, cleared, source, stale>>

KeepReady(c) ==
  /\ pc[c] = "ready"
  /\ SaveShipping(c, "ready_for_pickup")
  /\ End(c)
  /\ UNCHANGED <<byCarrier, paid, txn, payId, pedido, envio, notified, partners,
                 npc, history>>

(* Payway, EnvioPack and the carrier *)

\* A payment is made, decided, or, once approved, refunded or annulled.
Pay(n) ==
  /\ \/ payway[n] = "none" /\ payway' \in
          {[payway EXCEPT ![n] = status] : status \in {"pending", "approved", "denied"}}
     \/ payway[n] = "pending" /\ payway' \in
          {[payway EXCEPT ![n] = status] : status \in {"approved", "denied"}}
     \/ payway[n] = "approved" /\ payway' = [payway EXCEPT ![n] = "refunded"]
  /\ cleared' = IF payway'[n] = "approved" THEN cleared \cup {n} ELSE cleared
  /\ UNCHANGED <<order, pedidos, parcels, mails, pc, npc, seen, source, stale,
                 doubtful>>

\* A parcel gets its label, is handed over, and arrives.
Travel(n) ==
  /\ \/ parcels[n] = "awaiting_dispatch" /\ parcels' = [parcels EXCEPT ![n] = "label_ready"]
     \/ parcels[n] = "label_ready" /\ parcels' = [parcels EXCEPT ![n] = "shipped"]
     \/ parcels[n] = "shipped" /\ parcels' = [parcels EXCEPT ![n] = "delivered"]
  /\ UNCHANGED <<order, payway, pedidos, mails, pc, npc, seen, history>>

Checkout(c) == OpenCheckout(c) \/ CreateSession(c) \/ StoreSession(c)
Sync(s) ==
  \/ Webhook(s) \/ FindOrder(s) \/ BareWebhook(s) \/ Poll(s) \/ Resolve(s)
  \/ Link(s) \/ Check(s) \/ Mark(s)
Pedido(c) == FindPedido(c) \/ PostPedido(c) \/ KeepPedido(c)
Notify(s) == ReadNotice(s) \/ SendMail(s) \/ StampNotice(s)
Ship(c) == ReadForDispatch(c) \/ PostParcel(c) \/ KeepParcel(c)
Refresh(c) == ReadForRefresh(c) \/ GetParcel(c) \/ KeepRefresh(c)
Pickup(c) == ReadForPickup(c) \/ KeepReady(c)

Quiet == \A c \in Calls : pc[c] \in {"new", "ended"} /\ npc[c] = "none"

Step ==
  \/ \E c \in Calls : Break(c)
  \/ \E c \in Checkouts : Checkout(c)
  \/ \E s \in Syncs : Sync(s) \/ Notify(s)
  \/ \E c \in Syncs \cup Ships : Pedido(c)
  \/ \E c \in Ships : Ship(c)
  \/ \E c \in Refreshes : Refresh(c)
  \/ \E c \in Pickups : Pickup(c)
  \/ \E n \in DOMAIN payway : Pay(n)
  \/ \E n \in DOMAIN parcels : Travel(n)

Next == Step /\ UNCHANGED fixed

Spec == Init /\ [][Next]_vars
-----------------------------------------------------------------------------
(* Properties *)

\* Type correctness.
TypeOK ==
  /\ byCarrier \in BOOLEAN
  /\ paid \in PaymentStatus \cup {"other"}
  /\ shipping \in ShippingStatus
  /\ {txn, payId} \subseteq 0..Len(payway)
  /\ pedido \in 0..pedidos
  /\ envio \in 0..Len(parcels)
  /\ notified \in BOOLEAN
  /\ payway \in Seq(PaywayStatus)
  /\ mails \in Nat
  /\ npc \in [Calls -> {"none", "read", "mail", "stamp"}]
  /\ \A c \in Calls : seen[c].payment \in 0..Len(payway)
  /\ cleared \subseteq DOMAIN payway
  /\ source \in cleared \cup {0}
  /\ stale \subseteq Calls
  /\ doubtful \subseteq
       {"payment", "pedido", "unserved", "mail", "untold", "shipping", "pickup"}

\* Nothing is given for nothing, whatever notifications arrive and in whatever
\* order: the payment is confirmed to the customer only if Payway has approved one
\* of a checkout of the order, or the one it was placed with; and only then, unless
\* it was placed as approved already, the order is approved, prepared at the
\* carrier or dispatched.
NothingForNothing ==
  /\ mails > 0 \/ notified => cleared # {}
  /\ paid = "approved" \/ pedidos > 0 \/ parcels # << >> =>
       cleared # {} \/ placed.status = "approved"

\* An approved order stops being approved only for a reason: the call that
\* does it was under way already when the order was approved, or speaks of
\* another payment, of none, or of one that was given back meanwhile.
Refunded(n) == n \in cleared /\ payway[n] = "refunded"
PaidUntilToldOtherwise ==
  [][paid = "approved" /\ paid' # "approved" =>
       \E c \in Calls :
         /\ pc[c] \in {"mark", "store"} /\ pc'[c] # pc[c]
         /\ \/ c \in stale
            \/ c \in Syncs /\ seen[c].payment # source
            \/ c \in Syncs /\ Refunded(seen[c].payment)]_vars

\* The carrier gets one pedido, and the customer one mail, unless two calls were at
\* it at once, the write that remembers it failed, or EnvioPack's answer to the
\* pedido was lost or could not be read.
OncePerOrder ==
  /\ "pedido" \in doubtful \/ pedidos <= 1
  /\ "mail" \in doubtful \/ mails <= 1

\* When nothing is under way, an order that a payment made approved is known to its
\* carrier, and its customer was sent the mail about it.  The first is lost when a
\* call breaks off before the pedido is remembered; the second when the mail cannot
\* be sent, although paymentNotifiedAt says that it was, when the order has no
\* address or the notification breaks off before, and in orders that were placed as
\* approved or approved twice, because only the call that sees the status change
\* notifies.
ApprovedIsServed ==
  (Quiet /\ paid = "approved" /\ source # 0) =>
    /\ byCarrier /\ "unserved" \notin doubtful => pedido # 0
    /\ placed.status # "approved" /\ doubtful \cap {"untold", "payment"} = {} =>
         mails > 0

\* What a customer and the dispatch list see of a parcel never goes back, unless
\* two dispatch calls overlapped, there is a parcel too many (a second one, or one
\* for an order that waits in the store), EnvioPack confirmed a parcel it does not
\* have, the order of a carrier was announced as ready for pickup, or markSalePaid
\* approved the order once more.
Progress(status) ==
  CASE status = "pending_payment" -> 0
    [] status \in {"awaiting_dispatch", "awaiting_pickup"} -> 1
    [] status \in {"label_ready", "ready_for_pickup"} -> 2
    [] status = "shipped" -> 3
    [] status = "delivered" -> 4
ShippingGoesForward ==
  [][Progress(shipping') < Progress(shipping) =>
       \/ \E s \in Syncs : pc[s] = "mark" /\ pc'[s] # "mark"
       \/ doubtful \cap {"shipping", "pickup"} # {}
       \/ Len(parcels) > (IF byCarrier THEN 1 ELSE 0)]_vars
-----------------------------------------------------------------------------
(* Why the properties hold: invariants that are inductive together *)

\* What a call is at, and what it may keep.
Labels ==
  {"new", "ended", "session", "store", "find", "resolve", "link", "check", "mark",
   "pedido", "post", "keep", "parcel", "ship", "get", "refresh", "ready"}
Copy == [payment : Nat, status : PaymentStatus \cup ShippingStatus \cup {"none"},
         shipping : ShippingStatus, number : Nat, first : BOOLEAN]
Typed ==
  /\ TypeOK
  /\ pedidos \in Nat
  /\ parcels \in Seq(ShippingStatus)
  /\ kind \in [Calls -> Kind] /\ placed \in Placement
  /\ pc \in [Calls -> Labels]
  /\ seen \in [Calls -> Copy]

\* What a call keeps is what its next step takes it for: a number that was
\* given to it, a status of the payment or one of the parcel.
KeepsRight(c) ==
  /\ pc[c] = "new" => seen[c] = Nothing
  /\ pc[c] # "ended" => npc[c] = "none"
  /\ pc[c] \in {"store", "resolve"} => seen[c].number <= Len(payway)
  /\ pc[c] = "resolve" /\ seen[c].payment # 0 => payway[seen[c].payment] # "none"
  /\ pc[c] \in {"find", "link", "check", "mark", "pedido", "post", "keep"} =>
       seen[c].status \in PaymentStatus
  /\ pc[c] \in {"find", "link"} =>
       seen[c].payment # 0 /\ payway[seen[c].payment] # "none"
  /\ pc[c] = "keep" => seen[c].number \in 0..pedidos
  /\ pc[c] = "ship" => seen[c].number <= Len(parcels)
  /\ pc[c] \in {"ship", "refresh"} => seen[c].status \in ShippingStatus
  /\ pc[c] = "get" => seen[c].number \in DOMAIN parcels
Kept ==
  /\ payId # 0 => payway[payId] # "none"
  /\ \A c \in Calls : KeepsRight(c)

\* What is approved, was approved by Payway, or placed so and left alone since; and
\* a payment once approved is approved still, or was given back.
Vouched ==
  /\ \A n \in cleared : payway[n] \in {"approved", "refunded"}
  /\ \A n \in DOMAIN payway : payway[n] = "approved" => n \in cleared
  /\ \A c \in Calls : seen[c].status = "approved" => seen[c].payment \in cleared
  /\ paid = "approved" => source \in cleared \/ (source = 0 /\ placed.status = "approved")

\* Whoever prepares, dispatches or confirms the order has seen it approved.
Earned ==
  /\ NothingForNothing
  /\ \A c \in Calls :
       pc[c] \in {"pedido", "post", "keep", "parcel", "ship"}
         => cleared # {} \/ placed.status = "approved"
  /\ \A s \in Calls : npc[s] \in {"read", "mail", "stamp"} => cleared # {}

\* As long as the order is approved: a checkout that goes on was stale then,
\* and a sync that speaks of the payment that approved it has read approved,
\* unless it was stale or the payment was given back.
Timely ==
  paid = "approved" =>
    \A c \in Calls \ stale :
      /\ c \in Checkouts => pc[c] \notin {"session", "store"}
      /\ c \in Syncs /\ pc[c] \in {"find", "link", "check", "mark"}
           /\ seen[c].payment = source =>
           seen[c].status = "approved" \/ Refunded(source)

\* An order that is approved since it was placed has no checkout, and whoever asks
\* Payway asks about the payment it was placed with.
Untouched ==
  source = 0 =>
    /\ stale = {}
    /\ paid = "approved" =>
         /\ txn = 0
         /\ \A s \in Syncs :
              /\ pc[s] = "resolve" => seen[s].number = 0
              /\ pc[s] \in {"check", "mark"} => seen[s].payment # 0

\* One pedido: who makes it is alone, there is none when he begins, and he keeps
\* the number of the one he makes.
OnePedido ==
  "pedido" \notin doubtful =>
    /\ \A c, d \in Making : c = d
    /\ \A c \in Making :
         pedidos = IF pc[c] = "post" THEN 0 ELSE seen[c].number
    /\ Making = {} => pedido = pedidos
    /\ pedidos <= 1

\* One mail: who writes it is alone, and the customer has none when he begins; who
\* has been noted as told was told, or there is a doubt.
OneMail ==
  /\ notified \/ (\E s \in Writing : npc[s] = "stamp") =>
       mails > 0 \/ "untold" \in doubtful
  /\ "mail" \notin doubtful =>
       /\ \A s, r \in Writing : s = r
       /\ \A s \in Writing : npc[s] = "mail" => mails = 0
       /\ Writing = {} => notified \/ mails = 0
       /\ mails <= 1

\* An order that its carrier has not, is on its way there.
Served ==
  paid = "approved" /\ source # 0 /\ byCarrier /\ "unserved" \notin doubtful =>
    pedido # 0 \/ \E c \in Calls :
      pc[c] \in {"pedido", "post"} \/ (pc[c] = "keep" /\ seen[c].number # 0)

\* A customer who has not been told, will be, by the sync that was the first to
\* find the payment approved; before there is one, every sync may be the first.
WillTell(s) ==
  \/ npc[s] \in {"read", "mail"}
  \/ /\ pc[s] \in {"pedido", "post", "keep"}
     /\ s \in Syncs /\ seen[s].first /\ seen[s].status = "approved"
Told ==
  placed.status # "approved" /\ doubtful \cap {"untold", "payment"} = {} =>
    IF paid = "approved" THEN mails > 0 \/ \E s \in Calls : WillTell(s)
    ELSE \A s \in Calls : pc[s] = "mark" => seen[s].first

OrderInv ==
  /\ Typed /\ Kept /\ Vouched /\ Earned /\ Timely /\ Untouched
  /\ OnePedido /\ OneMail /\ Served /\ Told

\* What is written about a parcel is not behind what is known of it: as long as
\* dispatch calls do not overlap and there is no parcel too many, who is about
\* to write holds a status that is not behind the order's, and the order's is
\* not ahead of the parcel's, which only moves on.
OneDispatch ==
  /\ doubtful \cap {"shipping", "pickup"} = {}
  /\ Len(parcels) <= (IF byCarrier THEN 1 ELSE 0)
InStep(status) ==
  /\ parcels # << >>
  /\ 1 <= Progress(status)
  /\ Progress(shipping) <= Progress(status)
  /\ Progress(status) <= Progress(parcels[1])
Abreast ==
  IF parcels = << >> THEN Progress(shipping) <= (IF byCarrier THEN 1 ELSE 2)
  ELSE InStep(parcels[1])
WritesInStep ==
  /\ \A c \in Ships : pc[c] = "ship" => InStep(seen[c].status)
  /\ \A c \in Refreshes :
       pc[c] = "refresh" => seen[c].status = seen[c].shipping \/ InStep(seen[c].status)
  /\ \A c \in Pickups : pc[c] = "ready" => ~ byCarrier
Alone == \A c, d \in Dispatching : c = d
Onward == OneDispatch => Abreast /\ WritesInStep /\ Alone
=============================================================================
