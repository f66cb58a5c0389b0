# Verification of the billing platform

TLA+ models, model checks and machine-checked proofs for *Plataforma de Facturación*: a
multi-branch point of sale and shop (Node.js, Express, Mongoose on MongoDB, BullMQ on Redis,
React). File names without a directory are under `backend/src/`.

- [The system](#the-system)
- [Modules](#modules)
- [Runs](#runs)
- [Fairness](#fairness)
- [Proofs](#proofs)
- [What the models say of the code](#what-the-models-say-of-the-code)
- [Assumptions and limits](#assumptions-and-limits)
- [Not modelled](#not-modelled)
- [Plan](#plan)

## The system

One backend process (more can be started; nothing in the code forbids it) serves requests. A
request is a chain of awaited database calls, so the calls of concurrent requests
interleave. State lives in MongoDB documents, in the BullMQ queue in Redis, in the cookie
jars of browsers, and with third parties: the fiscal authority AFIP, the payment provider
Payway, the carrier EnvioPack.

| component | state | operations | what makes it correct | modules |
|---|---|---|---|---|
| Stock (`modules/stock`) | `BranchStock` rows, `Product.stock` (a cached total), the `StockMovement` log | `adjustStock` | never negative; total = sum of rows; log explains rows; concurrent calls do not lose updates | `Stock`, `StockLedger` |
| Inventory (`modules/inventory`) | `Product` | create, update, `updateStock`, bulk cost, soft delete | changes of stock are logged | `Stock` (every write of `Product.stock`) |
| Sales (`modules/sales`) | `Sale` | `createSale`, `deleteSale`, `updateSale`, reports | nothing is sold twice; shelf and sales add up; a failed sale leaves no trace | `Sales` |
| Invoicing (`config/queues.ts`, `modules/afip`, `enqueueSaleAfipInvoice`) | `Sale.billingStatus`, voucher number and CAE, the queue, AFIP's sequence of vouchers | enqueue, worker run, retry, stall | at most one voucher per sale; the stored number is ours; PENDING ends | `Billing` |
| Credit notes (`createCreditNote`, `config/queues.ts`) | `CreditNote`, `Sale.status` | create, worker branch, retry | never credit more than the sale; goods come back once; the sale's status follows its notes | `CreditNotes` |
| Sessions (`modules/auth`) | `User.refreshTokens`, `__v`, cookies | login, refresh, logout | a token is exchanged once; removed tokens stay removed; no false alarm | `Sessions` |
| Accounts (`modules/auth`, `app.ts`) | `User`, `Counter` | register, member codes, backfill at start, delete | codes unique, kept and in order; somebody administers | `MemberCodes` |
| E-mail verification (`modules/auth`) | `User.email`, `emailVerified`, token hash | resend, change of address, open a link | a verified address was proven; the last link works | `EmailTokens` |
| Carts (`modules/ecommerce`) | `Cart` | add, update, remove, clear, sync, checkout | a cart holds what its calls made of it; nothing is ordered twice | `Carts` |
| Checkout (`modules/ecommerce`) | `Sale` | `checkoutCart`, `checkoutDirect` | as for carts and sales | `Carts`, `Sales` |
| Payments, notifications, dispatch (`modules/payments`, `modules/shipping`) | `Sale.paymentStatus`, `shippingStatus`, pedido, envío, `paymentNotifiedAt` | checkout session, webhook, poll, dispatch, refresh, pickup, mail | approved stays approved; one pedido, one mail; the shipment goes forward | `Orders` |
| Supplier ledger, expenses, branches, categories, settings | one collection each | CRUD | sums of signed amounts | – |
| Analytics, PDFs, mail, catalogue | none | queries, I/O | – | – |

How they interact: `createSale`, `deleteSale`, the credit notes, product creation and manual
adjustments call `adjustStock`; checkout calls `createSale`; a POS sale of type A, B or C
calls `enqueueSaleAfipInvoice`, which shares only the `Sale` document and the queue with the
worker; a credit note of an invoiced sale shares that queue; payment webhooks and polls
write the same `Sale` document, and start dispatch and mails.

Where it is hard: read-then-write on documents (stock rows, `billingStatus`,
`refreshTokens`, carts, orders); three documents that must agree about stock; two
deployments of MongoDB, with and without transactions; calls that fail in the middle of a
sale; a queue that delivers again; answers of AFIP that are lost after the voucher was
authorised; a timeout that does not cancel; several tabs with one cookie; notifications that
come early, late, twice or without a payment; arrays that are saved by position; two servers
that start at once; two writes where one is meant. `PROJECT.json` lists each of these
hazards at its line, with the properties that cover it.

## Modules

| module | what it is |
|---|---|
| `Sums`, `SumTheorems` | the sum of a function over a finite set (the `reduce` of the code) as a recursive function, and its laws with proofs |
| `StockLedger` | abstract specification: what `adjustStock` promises, one atomic step per request |
| `Stock` | `adjustStock` call by call, and the three writers of the total alone; implements `StockLedger` when transactions exist |
| `StockProofs` | type correctness in both deployments; the inductive invariant, totals, movements and the refinement with transactions; how calls end and what calls that run alone leave behind |
| `Sales`, `SalesProofs` | `createSale` and `deleteSale` on top of the ledger; the proofs |
| `Billing`, `BillingProofs` | `enqueueSaleAfipInvoice`, queue, worker, AFIP; the proofs |
| `CreditNotes`, `CreditNotesProofs` | `createCreditNote` and the credit-note branch of the worker; the proofs |
| `Sessions` | refresh tokens of one user across browsers and tabs |
| `Orders`, `OrdersProofs` | one shop order between Payway, EnvioPack and its customer; the proofs |
| `Carts`, `CartsProofs` | the carts of one customer and the orders made from them; the proofs |
| `MemberCodes` | registration, the first administrator, member codes and their backfill |
| `EmailTokens` | one account, its address and the links that verify it |
| `AccountProofs` | the proofs about `MemberCodes`, `EmailTokens` and `Sessions`, whose names (`EmailInit`, `SessionsNext`, `SessionsSpec` and so on) differ so that one module can extend all three |
| `MC*` | values of the constants for TLC, and symmetry |

`PROJECT.json` maps every definition to its lines. Definitions whose names begin with `Mut`
are deliberate mistakes: each is a variant of the definition that follows it, and replacing
that definition by it must break a property.

**Stock.** A request `r` goes through `FindRow`, `SaveRow`, `SumRows`, `UpdateProduct`,
`LogMovement`, one action per awaited call of `stockService.ts:16-117`. `Transactional`
chooses the deployment. With it TRUE (replica set) writes stay in `view[r]` until the commit
in `LogMovement`, and a write to a document that another open transaction has written, or
that was written since the snapshot (`stale[r]`), is refused, as MongoDB's snapshot
isolation does. With it FALSE (the fallback at line 112; `docker-compose.yml` starts a
standalone `mongo:6`) every call takes effect at once. `Break` is a failing call or a dying
process; `LogMovement` may commit and still answer with an error. `Correct` is a write of
`Product.stock` with no row and no movement (`WriteAlone`), which three places of the code
make: `UpdateStock` (`inventoryService.ts:396`), `CreditStock` (a credit note without AFIP,
`salesService.ts:255`) and `EditProduct` (whatever stock the body of an edited product
names, `inventoryService.ts:391`).

**Sales.** A line of a sale is one call of `adjustStock`, that is one atomic step of
`StockLedger`: the step is justified by the theorem `StockImplementsLedger`, hence for the
replica set deployment. The transaction `createSale` opens is not visible in the model
because it covers only the `Sale` document: `adjustStock` opens its own. `Faults` says which
failures a run allows: a call that fails, one that takes effect but is answered with an
error, a sale that cannot be saved or removed.

**Billing.** A job has the name of the call that adds it. The worker's run is `Take`,
`CreateInvoice`, `Store` or `Catch`, `FinishRun`; the queue moves jobs between `wait`,
`active`, `delayed`, `done`, `dead`. `Scheduler` says whether anybody promotes delayed and
recovers stalled jobs: in BullMQ 1.91.1, the version in `package-lock.json`, that is the
work of a `QueueScheduler`, which the program does not create, so FALSE is the system as
deployed and TRUE the one its options (`attempts: 4`, backoff) describe. The safety runs use
TRUE, which has every behaviour of FALSE and more. `afip[n]` is the job for which AFIP
authorised voucher `n`; `mishaps[c]` remembers the faults that hit call `c` or its job, so
that properties can speak of the calls that were spared.

**Sessions.** `tokens` and `version` are `User.refreshTokens` and `User.__v`. Mongoose sends
a replaced array as `$set` guarded by `__v` and fails with VersionError when it changed
(`Current`); a login's `push` is sent as `$push`, without guard, and increments `__v`.
Tokens are numbered in the order of issue. A tab shares the refresh it has under way
(`Refreshing`, `baseQueryWithReauth.ts`), other tabs of the browser share only the cookie.
`Deliver` is the answer that reaches the browser, `Lose` one that does not. `disturbed`
remembers whether requests ever overlapped or an answer was lost.

**CreditNotes.** A note has the name of the call that creates it. The call is `ReadSale`,
`CheckAmount`, `Create` and then either `Queue`/`QueueFails`/`Undo` (the sale has a CAE) or
`GiveBack` line by line and `MarkRefunded` (it has none). The worker's run is `Authorise`,
`Complete`, `ReturnLine`, `Stamp`, `AddUp`, `SetStatus`, `FinishRun`, with `Catch` on the
way of every failure; the queue is that of `Billing`, with a retry (`Promote`) and a
take-back of stalled jobs (`Recover`). Amounts are cents: `Credits` gives the totals
`round2` can produce, both neighbours at a half, because the doubles behind it decide.
`saw[c]` remembers which notes limited call `c`, `hurt` the calls a fault hit.

**Orders.** One `Sale` document of the shop and every call about it: `checkout`
(`OpenCheckout`, `CreateSession`, `StoreSession`), `sync` (a webhook with or without a
payment, or a poll; then `FindOrder`/`Resolve`, `Link`, and `markSalePaid` as `Check`,
`Mark`), the pedido that `markSalePaid` and `ship` share (`FindPedido`, `PostPedido`,
`KeepPedido`), `ship`, `refresh`, `pickup`, and the mail that a sync starts and nobody waits
for (`npc`). `Init` is the order as `checkoutDirect` leaves it: it stores the payment status
and the payment that the request names (`checkoutService.ts:197-198`), so an order may be
placed as approved, with a status nobody knows, or with a payment that belongs to another
order (`placed`; that payment is payment 1). Payway and the carrier move on their own: a
payment is approved, denied or given back, a parcel travels. `Mapped` is `mapPaywayStatus`.

`Break` is a call that fails and leaves nothing behind. `PostPedido` and `PostParcel` may
also take effect and lose their answer, or get one that cannot be read: `envioPackClient.ts:98`
makes `{}` of it, so the call goes on without a number. `SendMail` may fail, which the
notification swallows before it sets `paymentNotifiedAt` (`StampNotice`): `notified` is that
flag, `mails` counts what was really sent. `ReadForPickup` has no guard on the kind of
shipping, because the code's asks whether `shippingQuote.pickupBranch` is truthy, and that
is a nested path of the schema, which every document has. `source`, `stale` and `cleared`
remember which payment approved the order, which calls were under way then, and what Payway
ever approved; `doubtful` which calls crossed and what a fault left half done: an approval
taken back (`payment`), a pedido that may be there twice (`pedido`) or is not known
(`unserved`), a mail twice (`mail`) or never (`untold`), dispatch calls that crossed
(`shipping`), a pickup notice for the order of a carrier (`pickup`). A refused or delayed
notification is one that is not sent yet or never.

**Carts.** Every call finds its cart (`FindByUser`, `FindBySession`, `Attach`, `Create`,
`FindById`), holds a copy and saves it. What Mongoose sends is modelled by what it does: a
quantity as `$set` by the position the row had in the copy (`SetQuantity`), a new row as
`$push`, `items` as a whole after a removal, the subtotal only if it differs from the one
read (`Saved`). A row that is written beyond the end has no product (`Gone`). A sync is
`Empty` followed by one `Add` for each item. A cart with a broken row fails validation when a
user is attached to it, so that call ends there. `basket` holds what the calls come to if they
are counted one by one, `crossed` which kinds of calls held one cart at once.

**MemberCodes.** A server starts (`FindHighest`, `Sync`, `FindMissing`, `Assign` for each
old account, or `BackfillFails`) and then listens; a registration is the `Guard` of the
staff route, `Count`, `getNextMemberCode` in its two writes (`Floor`, `NextCode`) and
`Create`, where the unique index may refuse. Whoever the back office registers after the
first account has the role that the request names (`Roles`). `handed` is every code the
counter has given, in order. `Delete` is the back office's. `skipped` and `overlapped`
remember that a backfill was skipped, or that two ran at once; `opener` who created the
first account.

**EmailTokens.** Every call holds the copy of the `User` document it was authenticated with.
A save writes what the call changed in its copy (`Write`): setting `emailVerified` to false
writes it if the copy has it as true, or was read from a document that does not have the
field at all (`stored`), because Mongoose then holds a default which it has still to write.
A change of the address is two saves (`SaveEmail`, then the issue of a link), a resend one;
opening a link is a lookup (`FindToken`) and a save (`SaveVerified`). Calls that save the
account for another reason (the profile, a login) are `Load` and `SaveOther`: all they can
write of what is modelled is that default. `proven` are the addresses at which a link was
opened that was sent there, `crossed` what went on at once.

## Runs

Passing runs, and what they show:

| run | instance | shows |
|---|---|---|
| StockTx | 3 requests over 5 kinds of adjustment, 2 products, 2 branches, 1 write of the total alone by any of its three writers, transactions | totals and movements agree, conflicts have a winner, `LedgerSpec` is implemented, no request waits for ever |
| StockFallback | 2 requests, 1 such write, no transactions | calls that do not overlap are exact, an undisturbed call repairs a drifted total |
| SalesFaults | 3 sales, 2 deletions, 3 carts of up to two lines, 2 products, 2 branches, all faults | nothing oversold; shelf, sales and what failed sales keep add up to the unit |
| BillingFaults | 3 calls, 2 sales (1 fiscal, which may be deleted), 2 attempts, all faults | a stored voucher is a voucher of that sale, non-fiscal sales never reach AFIP, PENDING has somebody at work, retries alone never invoice twice, one call is exact |
| BillingLive | 2 calls, 1 sale, 2 attempts, refusals, lost answers, timeouts, stalls | PENDING ends |
| CreditNotes | 2 calls of 3 kinds, an invoiced sale of 3 + 1 cents with two lines, another with shipping and one line, deletions, 2 attempts, 1 stall, 1 refusal, all five faults | notes that saw each other never credit more than the sale plus a cent, its goods come back once, a note no fault hit is authorised once and exactly, REFUNDED says what AFIP authorised, PENDING has somebody at work |
| SessionsRaces | 3 requests, 3 tabs, 2 browsers, answers lost or overtaken | a token is exchanged once, removed tokens stay removed, orderly use turns nobody away |
| Orders | any 3 calls of the 5 kinds, for carrier or store, placed as pending, as approved, or with another order's payment; errors, lost and unreadable answers of partners, failed reads and writes (2.7 million states) | nothing is confirmed unpaid, approval is lost only to a late or foreign message or a refund, one pedido and one mail, an order approved by a payment is served and its customer mailed, a shipment goes forward, but for what is named |
| Carts | any 3 of the calls of a customer, or 4 that add to, clear or check out one cart; 2 products, carts of 0 to 2 rows, failed writes | a cart without crossing calls is exact, rows break only where quantities meet emptying, nothing is ordered twice but for named crossings |
| MemberCodes | 2 starts, a staff and a shop registration, 3 old databases, deletions | codes are free when written, kept, and in the order of joining; an administrator exists |
| EmailTokens | 2 addresses, 1 resend, 2 changes, 2 opened links, 1 other save of the account, expiry, lost mails | verified addresses are proven, verified stays whatever old copy is saved, the last link mailed works |

Type correctness is checked by the runs of Sales, Billing, CreditNotes and Carts, and proved
of every module, as are the inductive invariants of all nine (the part of Stock's about open
transactions with transactions, the rest in both deployments).

One run, BillingTwice, ends in a counterexample; it is described
[below](#what-the-models-say-of-the-code).

Why the bounds are enough to be interesting: every conflict here is between two actors about
one document, and a third one distinguishes "somebody wins" from "the other one wins"; carts
of sales order the same two products both ways and the opening stock serves any one of them
but not two; an attempt limit of 2 instead of the code's 4 already has a first and a last
attempt; two browsers and a shared cookie give every combination of login, refresh and
logout over one `__v`. A credit of 2 of the 3 + 1 cents has two parts at a half, so both
rounding up and both rounding down happen, and one sale has a shipping cost that is in its
total and in no part. Three calls about an order are a checkout and two messages about its
payment, an approval and two dispatches, or a dispatch, a refresh and a pickup notice that
meet; every pair of calls crosses while a third one prepares or disturbs it, and an order
that was placed with a payment needs no checkout to get one. A cart of two rows has a
position that moves up. Three old databases are an empty one, one without an administrator,
and one in which codes are missing around one that exists. Sums over branches, carts and
rows, and any number of requests, calls, starts, sessions and links are covered by the
proofs.

Properties of the form "… unless …" name the crossings with which the code does not keep
them; each exception was added for a behaviour TLC found, is as narrow as the history
variables tell, and is read from `Billing!mishaps`, `CreditNotes!hurt` and `saw`,
`Sessions!disturbed`, `Orders!doubtful`, `stale` and `source`, `Carts!crossed`,
`MemberCodes!skipped`, `overlapped` and `opener`, `EmailTokens!crossed`. They let one run
with every fault enabled say what holds for the calls and documents that were spared,
instead of one run per combination of faults. `Billing!MaxMishaps` bounds the number of
different (call, fault) pairs in one behaviour: 2 in the safety runs, that is every pair of
faults, and 8 in `BillingLive`, that is all of them. `CreditNotes!MaxMishaps` bounds the
calls that are hit (1 of the 2; the same call may be hit again and again), `MaxRefusals` how
often AFIP refuses. Orders, Carts, MemberCodes and EmailTokens have no such bound: each call
is made once, and any of them may fail.

Deadlock is not checked for these last four (`CHECK_DEADLOCK FALSE`): their calls are
finitely many, none waits for another, and the system stops when they have ended.

## Fairness

Only `Billing!FairSpec` assumes fairness. The steps of a call of `enqueueSaleAfipInvoice`
and of the worker's run are weakly fair: the driver's timeouts turn a call that never
returns into one that fails, so both go on. A free worker takes some waiting job (BullMQ
blocks on the list; which job is not prescribed); promotion and recovery are fair where a
scheduler exists. Nothing obliges AFIP to accept, a sale to be deleted, an outstanding add
to take effect, or a process to die. `PendingEnds` excuses a sale only when a crash or a
failed write hit a call or job of that very sale: then PENDING may stay for ever.

The other modules make no liveness claim that needs fairness: nothing in the code obliges a
customer, a carrier or a caller to go on. The runs of Stock, Sales, Billing, CreditNotes and
Sessions check deadlock: where `Idle` is the only step of a state in which nothing can
happen, it asks that every call has ended, so a state where requests wait for one another
would be reported. In Orders what must come about is stated of quiet states instead:
`ApprovedIsServed` looks at an order that nobody is at work on any more.

## Proofs

Checked by TLAPS, for any constants that satisfy the named assumptions (`StockAssumption`,
`SalesAssumption`, `SessionsAssumption`, `BillingAssumption`, `CreditNotesAssumption`,
`OrdersAssumption`, `CartsAssumption`, `MemberCodesAssumption`, `EmailTokensAssumption`):
any number of products, branches, requests, browsers, tabs, sales, lines, notes, carts,
rows, calls, attempts and faults, starts of servers, registrations and links. `StockTotals`,
`StockMovements` and `StockImplementsLedger` also assume `Transactional`, the replica set
deployment; the other theorems about Stock do not. Every inductive invariant was checked by
TLC on its run before it was proved.

- `SumTheorems`: a sum over a finite set exists, is an integer, is the only solution of its
  recursion (`SumUnique`), takes its terms in any order (`SumRemove`), and moves by the
  difference when one entry changes (`SumUpdate`); sums are additive (`SumPlus`), grow with
  the set (`SumWithin`), grow with their terms (`SumAtMost`), ignore what is zero
  (`SumOutside`), count (`SumCounts`) and may be taken over other names (`SumRenamed`), as
when rows move up. The library's induction theorems take an
  operator as parameter, so each induction is made on a minimal counterexample (`WFMin`)
  instead.
- `StockProofs!StockTypeOK`: type correctness in both deployments. The part that matters is
  `units ∈ Nat`: the check of `FindRow` is made before the write, so the proof needs
  `CanPay` (whoever passed the check holds a `prev` that can pay) as strengthening, which
  holds because the write is of the absolute value computed from `prev`.
- `StockProofs!StockInvariant`: with transactions, `TotalsAgree` and
  `MovementsExplainStock` are not inductive alone. `SnapshotOK` says what an open
  transaction knows of the committed documents: before its write the row is unchanged or
  marked stale, after it nobody else can change it, and once it holds the product document
  its whole view is current. `Exclusive` says no two transactions hold a document. The
  commit then installs a view whose sum is the new total, and a movement that starts where
  the last one ended. `StockTotals` and `StockMovements` follow.
- `StockProofs!StockImplementsLedger`: every step of `Stock` is a step of `StockLedger` or
  stutters: `LogMovement` is `Apply`, the refusal in `FindRow` is `Reject`, conflicts and
  failures are `Abandon`.
- `StockProofs!StockOutcomes`: `OutcomeInv` is what the remaining properties of Stock need.
  `ConflictHasWinner` needs that whoever is refused was overtaken by a request that cannot
  be refused any more, or that may be, but by another such one (`WinnerInv`).
  `SequentialIsExact` needs to know, while requests keep apart, which rows and which total
  are ahead of the rest, and by whose doing (`ApartOK`, `RowsApart`, `TotalApart`);
  `FoundOrTold` says that a request which found no row has been told when there is one.
  `UndisturbedRepairs` is an action property: with transactions it follows from
  `SnapshotOK`, without from `UndisturbedInv`.
- `SalesProofs!SalesInvariant`: `NeverOversold` and `BalancedUnlessContested` speak of
  sales, and neither is inductive. `Books` speaks of lines: `Away(s)` are those that sale
  `s` has taken and no deletion given back, and shelf and lines away add up to the opening
  stock at any moment, whatever has failed. A step moves one line and its units together
  (`BooksMove`). `BuyerOK` and `RemovalOK` tie lines to the program counters: a sale that
  is saved has taken its whole cart, and only a sale that was made is deleted, after all of
  it came back. `NeverOversold` follows because what stands is part of what is away,
  `BalancedUnlessContested` because, when nothing is under way, a line that is away is a
  sale's or a failed sale's (`AwayIsSoldOrKept`).
- `AccountProofs!SessionInvariant`, `TokensExchangedOnce`, `SpentTokensDead`,
  `RemovedTokensStayRemoved`: `VersionGuards` (whoever has read the current version has read
  the current tokens) makes the version check a compare-and-swap; `AnswersCome` ties answers
  to the program counter. `TakingTurnsIsSafe` needs `InTurn`: as long as nothing was
  disturbed one request is under way, every browser holds tokens that are good
  (`JarsGood`), and the request knows what the server has.
- `BillingProofs!BillingInvariant`: none of the properties is inductive alone.
  `VoucherIsOurs` needs that the number a run is about to store was authorised for its job
  (`GotOurs`) and that whoever got past the check speaks of a fiscal sale (`CheckedFirst`).
  `JobInvoicesOnce` needs `AuthorisedOnce`: a job that lost nothing and has its voucher is
  done or about to be, so that no run can ask again; and that needs `RunOwnsJob`, a job and
  its run lose sight of each other only by a stall or a crash. `PendingInProgress` needs
  that whoever is at work on a PENDING sale will change its status (`PendingChanges`): a job
  that is merely active may have written already. `AddedOnce` (no job before its add, none
  twice) keeps a run from meeting a second add of its own job, and `JobsBounded` (a job that
  is not over has an attempt and a stall left) keeps the counters of `TypeOK` within bounds.
  `OneCallIsExact` needs `LoneIsExact`: when one call at most works on a sale, unhurt, its
  number is with the run that is about to store it and then on the sale, and nowhere before
  that; and `UndoneInTime`: a call that gives up has no job, unless its add timed out.
- `CreditNotesProofs!CreditInvariant`: `CreditBounded` needs `AmountsFit` (a note fits into
  what the notes its call saw had left) and `SeenInOrder`: calls see what came before them,
  so of any notes that saw one another there is a last one, and it saw all the others.
  `ReturnedOnce` and `NoteIsExact` need to know how far a note has come by where its job is
  (`StepByStep`, `BacksCounted`, over `CallsInOrder` and `RunOwnsJob`); for `ReturnedOnce` of
  a whole sale, two notes that both give goods back would both be notes of the whole, and
  the one that saw the other would not have fitted. `StatusIsExact` needs that the status
  may lag behind the notes only while a run is on its way to write it and knows what to
  write (`StatusFollows`). `PendingInProgress` needs `PendingChanges`, as in Billing.
- `OrdersProofs!OrderInvariant`: `OrderInv` is inductive. `OncePerOrder` and
  `ApprovedIsServed` speak of what is written; their proof needs who is about to write.
  `OnePedido` says that whoever makes the pedido is alone and began when there was none,
  `OneMail` the same of the mail, and that an order noted as told was told, or somebody
  failed to; `Served` and `Told` that as long as a pedido or mail is owed, a call is on its
  way to it, and one that goes on without the number of its pedido is not; `Told` also needs
  that before an approval every sync that has looked believes to be the first. `Vouched`
  says that what is approved anywhere, in the order or in the hands of a call, was approved
  by Payway (`cleared`), unless the order was placed so and left alone since; `Earned` that
  whoever prepares the order has seen one of the two, and whoever confirms it the first:
  with them `PaymentComesFirst`. `Timely` says which calls could still take the approval
  back: the stale ones, those about another payment and those about one that was given
  back. An order that was placed as approved has no call that approved it; `Untouched` says
  that none can take its approval back unnoticed, since it has no session and whoever asks
  Payway asks about the payment it was placed with. `ApprovalIsKept` follows for every step.
  `Typed` and `Kept` carry what calls hold between their steps.
- `OrdersProofs!OnwardInvariant`, `ShippingOnlyAdvances`: `ShippingGoesForward` is an action
  property that says nothing of who will write next. `Onward` does: as long as there was one
  dispatch, one parcel, and no pickup notice for the order of a carrier, calls that dispatch
  or refresh are alone (`Alone`), the order is never ahead of the parcel (`Abreast`), and the
  status such a call is about to write lies between the two (`WritesInStep`).
- `CartsProofs!CartsInvariant`: `PairsNoted` (calls that hold one cart have been noted)
  makes `crossed` say what it is meant to. `RowsInPlace` says that, unless a quantity was
  misplaced, the rows somebody is about to write by position are where they were;
  `BrokenByEmptying` follows. `AloneIsExact` says that, as long as nobody crossed, a cart is
  exact and whoever holds it has an exact copy; `SequentialIsExact` follows.
  `OrdersCovered` is what `OrderedOnce` needs: `Reach(n, p)` is the most cart `n` may come
  to hold of product `p` once everybody who holds it has written, and what was ordered and
  what the carts may reach was asked for. It takes a peak row by row while quantities are
  written by position, the largest copy while copies are put back or sold, and nothing of a
  cart that is being emptied after it was sold. No step makes it grow by more than it asks
  for (`ReachAdds`, `ReachUpdates`), rows that are put back or emptied do not make it grow
  (`ReachTaken`), and an order takes out of it what it buys (`CoveredStep`).
- `AccountProofs!CodesInvariant`: `NoneGivenTwice` speaks of every code ever given, and
  needs that the counter is never behind any of them (`CounterHolds`, `HandedBelow`);
  `CodeIsFree` that a server which has synchronised put the counter past every code
  (`CounterAhead`) and that calls are served by such a server (`Served`). `OldestFirst`
  needs that one backfill is under way, knows exactly the accounts without a code
  (`OneBackfill`) and writes codes above all others (`CodesAscend`); `AdminExists` that
  before the first account every call under way has seen none (`FirstIsAdmin`). `CodeIsKept`
  is an action property from the same invariant.
- `AccountProofs!TokensInvariant`: `VerifiedIsProven` needs that the valid link was
  mailed to the address of the account but between the two saves of a change (`LinkIsOurs`),
  which needs that a change is alone and that whoever mails a link knows the address
  (`ChangesAlone`); `LastLinkWorks` needs that an issuer alone leaves behind the token it
  mails (`LastTokenMailed`). `StaysVerified` is about the copies:
  whoever is about to save emailVerified = false has read an account that was not verified
  (`ReadUnverified`, which the guards of both controllers are for), so that the assignment
  changes nothing in a copy that has the field; a copy that was read without it is the named
  exception, and `NotSavedYet` says how long there can be one: as long as no
  link has been issued (`NoLinkYet`), when links are issued one at a time.

Only model-checked: `PendingEnds`, which is liveness and out of this prover's reach, and
that no run deadlocks. Every other property of the passing runs is a theorem; `InvoicedOnce`
is false (see below).

## What the models say of the code

| run | statement of the repository | what the code does |
|---|---|---|
| BillingTwice | `salesService.ts:978` "La venta ya fue facturada" | two overlapping calls are both queued and both authorised |

Others show up as conditions without which a property of a passing run would fail.

Stock and sales:

- `TotalsAgree` and `MovementsExplainStock` hold with transactions only. On a standalone
  server two overlapping adjustments lose one update, an older sum may overwrite a newer one
  (`stockService.ts:60`), and a failure in the middle leaves a row without its movement,
  although `README.md:7` promises "movimientos atómicos".
- `TotalsAgree` speaks of histories in which nobody writes the total alone. Three places do,
  and none of them writes a movement, although "Every stock change is logged"
  (`docs/ARCHITECTURE.md:32`): `updateStock` (`inventoryService.ts:396`), a credit note
  without AFIP, which gives its goods back to the total and to no branch
  (`salesService.ts:255`), and an edited product whose body names a stock
  (`inventoryService.ts:391`). `UndisturbedRepairs` says that the next `adjustStock` of the
  product makes the total the sum of the rows again, which also takes back what such a
  credit note gave.
- `BalancedUnlessContested`: a sale that is refused at its second line keeps what its first
  line took (`Kept`); two overlapping deletions of a sale both return its stock, and a
  deletion that failed half way returns its first lines again when it is repeated.

Invoices and credit notes:

- `Scheduler` is TRUE in the runs. The program creates no `QueueScheduler`, so in the
  deployed version a delayed job is never run again, although `queues.ts:123` sets the
  attempts "para activar retries".
- `PendingInProgress`, `PendingEnds`: a crash between PENDING and the add, or a failed write
  of FAILED, leaves a sale PENDING with nobody at work, and every later call is refused. A
  PENDING note left so holds its amount back from every other note of the sale.
- `JobInvoicesOnce`: an answer of AFIP that is lost after the authorisation makes the next
  attempt ask for another voucher.
- `CreditBounded`: two notes that overlap, or one that comes back after it had FAILED,
  credit more than the sale; and at half a cent one note may credit a cent more than was
  allowed.
- `ReturnedOnce`: a TOTAL note that credits less than the sale (the shipping is in the total
  and in no part, or rounding took a cent) leaves room for a second TOTAL note, which
  returns all the goods again.
- An internal note is created complete before the check that refuses it, and stays.

Sessions and accounts:

- `OrderlyUseIsSafe`: a login elsewhere during a refresh raises the alarm of
  `tokenService.ts:28` ("token reuse detected or token was already removed") and revokes
  every session; a logout that lost a race clears only the cookie, although
  `docs/ARCHITECTURE.md:18` says "Invalidates tokens in the database".
- `CodeIsKept`, `OldestFirst`: two servers that start at once find the same accounts, and
  the second gives them another code.
- `CodeIsFree`: a server whose backfill failed serves all the same, and the index may refuse
  its registrations.
- `AdminExists`: if the first account is a customer of the shop, nobody can create an
  administrator any more.
- `VerifiedIsProven`: between the two saves of a change of the address the old link verifies
  the new address.
- `LastLinkWorks`: of two links issued at once, the one that is mailed last may be the one
  that was overwritten.
- `StaysVerified`: an account from before there was `emailVerified` may be verified and then
  lose that to a resend, or to any other save of the account, that had read it without the
  field.

The shop:

- `PaidUntilToldOtherwise`: a checkout that was opened before the approval, a notification
  without a payment, an older answer or another payment of the same order takes the approval
  back.
- `NothingForNothing`: the status an order is placed with is the request's, so an order may
  be approved, prepared and dispatched that no payment has approved; the mail that confirms
  the payment is sent only after Payway's word, though possibly about a payment of another
  order that the request named.
- `OncePerOrder`: webhook and poll that approve at once make two pedidos or two mails; and a
  pedido whose answer is lost or cannot be read is made again by the next dispatch.
- `ApprovedIsServed`: errors of EnvioPack are swallowed and the pedido is lost;
  `paymentNotifiedAt` is set although no mail could be sent, or the notification breaks off
  before it writes, and nothing tries again; an order that was placed as approved, or is
  approved twice, may be told nothing, because only the call that sees the change notifies.
- `ShippingGoesForward`: a repeated approval puts a shipped order back to the start, a
  repeated dispatch makes a second parcel, and a pickup notice puts the order of a carrier,
  delivered or not, back to `ready_for_pickup`.
- `BrokenByEmptying`, `SequentialIsExact`: a quantity written by position to a cart that
  shrank leaves a row without product, or changes another row.
- `OrderedOnce`: two checkouts of one cart, or one whose emptying failed, make two orders; a
  removal writes sold rows back; and a quantity that was computed before the cart was emptied
  may land on the row of another product, which is then ordered in that quantity. The last
  of these takes four calls.
- Two first requests of a customer make two carts, and later ones use either; nothing more
  is claimed than that each cart by itself is right.

## Assumptions and limits

- MongoDB: snapshot isolation with first-updater-wins conflicts inside transactions;
  single-document writes are atomic; a unique index on (product, branch).
- A manual adjustment by 0 saves nothing in Mongoose and is excluded (`StockAssumption`).
- `getProductStockByBranch` repairs negative rows; `StockTypeOK` shows there are none, so it
  is not an action.
- AFIP numbers vouchers without gaps and one at a time (one worker, concurrency 1), and
  authorises exactly the number asked for. The rejection of a number that another process
  used first is a refusal.
- `ENABLE_AFIP_QUEUE` unset behaves like an add that fails at once (`AddFails`).
- Prices, discounts, VAT, voucher payloads, JWT contents and expiry, mail texts, PDFs and
  queries are not modelled: no property here depends on them. Prices in `Carts` are 1, so
  that a subtotal counts units.
- The database of `CreditNotes`, `Orders`, `Carts`, `MemberCodes` and `EmailTokens` is
  either deployment: none of that code opens a transaction of its own around what is
  modelled, and each call is atomic. The return of one line by a credit note is one step
  there; its own calls are those of `Stock`.
- `Cart` and `Sale` documents have no version (`versionKey: false`); `User` documents have
  one, which guards only arrays. `Counter` documents change by `$max` and `$inc`, each
  atomic.
- Mongoose saves the paths a call changed in its copy, and defaults the document did not
  have yet; assigning the value that was read is no change. So a save of a `User` by a
  call that has nothing to do with its address writes `emailVerified` only when it read a
  document without it.
- The status of a payment comes from Payway and not from the notification: the webhook asks
  for it by the payment's number. A webhook about the payment of another order, which an
  order was placed with, finds that order first if it still has its session, and this one
  else. Payway may approve a payment, deny it, or give back one it approved.
- E-mail addresses of `EmailTokens` all belong to its one customer; an address taken by
  another account is a refusal.
- Bounds beside the sizes of the sets: `MaxAttempts` (4 in the code, 2 in the passing runs),
  `MaxStalls` (1, BullMQ's default), `MaxMishaps` and `MaxRefusals` (see [Runs](#runs)),
  `Base` (`MEMBER_CODE_START` - 1, small in the run, any number in the proofs).

## Not modelled

- *OpenSSL sources* (`backend/openssl_src`), *Android wrapper*, *nginx*: an unpacked release
  of OpenSSL that the program neither builds nor calls, packaging, and proxy configuration.
  By number of lines the OpenSSL release is by far most of the repository and all of its C
  code; nothing of this system happens in it, so nothing here maps to it.
- *Supplier ledger, categories, branches, suppliers, expenses, settings*: each operation
  reads or writes one document, and what is derived from them is an aggregate computed on
  reading. There is no protocol to check. Two races are known: two updates of one ledger
  entry each recompute `signedAmount` from the type and amount they read, and two first
  readers of the settings may both create the document.
- *Products* beside their stock: `createProduct` starts from zero and adds the initial stock
  through `adjustStock`; the other fields of an edited product, bulk costs and the soft
  delete are told apart by no property.
- *Checkout prices*, *shipping quotes*, *packages*, *the VAT and discount split*, *voucher
  payloads*: computations over numbers without state; candidates for checks over bounded
  inputs.
- *Unpaid orders*: `paymentExpiresAt` is written and nothing acts on it, so the return of
  their stock is not a behaviour of the program.
- *Catalogue, sitemap, analytics, reports*: queries only. *Mail*, *PDFs*: I/O and layout.
  *Middleware*, *frontend*: wiring and user interface; the one protocol of the frontend, the
  shared refresh of a tab, is in `Sessions`.

## Plan

Done, in this order: Stock, Sales, Billing, Sessions, CreditNotes, Orders, Carts,
MemberCodes, EmailTokens; the proofs of every one of them. What is left:

1. Pure algorithms over bounded inputs: discount and VAT split (totals add up to the cent),
   bulk cost updates, packages.
2. The composition of Orders and Sales: the deletion of a sale that is being paid or
   dispatched.
