# DealFlow360 in TLA+

TLA+ models of the business core of DealFlow360, a quote-to-cash application
(Next.js, Prisma, PostgreSQL, BullMQ), TLC configurations that check them on
small instances, and TLAPS proofs of the facts that matter most for every
instance. All paths below are relative to the repository root.

## 1. The system

Every business operation is an HTTP request handled by a service
(`src/modules/*/application`) that checks the actor and calls a repository
(`src/modules/*/infrastructure`), which runs one PostgreSQL transaction. Many
requests, from several users and several server processes, run at the same
time; the only things that order them are the database's row locks and
constraints, and one idiom, `withOptimisticVersion` (`src/lib/optimistic-version.ts`):
*update the row and add one to its version, provided the version is still the
one expected; otherwise roll back with 409*. Transactions run at READ COMMITTED,
PostgreSQL's default: each statement sees what was committed when it started.

| Component | State | Operations | Talks to |
|---|---|---|---|
| Quotation builder (`modules/quotation`) | `Quotation` (status, version, discount), `QuotationLine` | create, addLine, patch (remove, quantity), updateDiscounts | pricing |
| Submission (`submit-quotation-use-case.ts`) | `QuotationVersion`, `RiskEvaluation`, `ApprovalRecord` | submit | discount rules, risk score, approval rules |
| Approval (`modules/approval`) | `ApprovalRecord.status`, `Quotation.status`; `ApprovalRule` | decide, listQueue; rule create, update, delete | quotation |
| Negotiation (`modules/negotiation`) | `Negotiation`, `ChangeRequest`, comments | negotiate, confirm (customer), resolve (sales) | quotation, risk score, approval rules |
| Discount and risk (`modules/discount-risk`) | `DiscountRule` | ceilings, margin, score and band; rule create, update, delete | - |
| Fulfilment (`modules/fulfillment`) | `Fulfillment`, `FulfillmentItem`, `StockReservation`, `Backorder` | suggestion, accept, override, mark shipped | stock, quotation status |
| Stock (`modules/stock`) | `WarehouseStock` (on hand, reserved, version) | create, update, delete, import | fulfilment |
| Subscriptions (`modules/subscription`) | `Subscription`, `BillingSchedule`, `CreditNote`, plans | create, createFromQuotation, modify, cancel | invoices |
| Invoices (`modules/invoice`) | `Invoice`, `InvoiceLine`, `Payment` | create, recordPayment | - |
| Deal health (`modules/deal-health`) | `DealHealthAlert` | evaluate (scheduled, on request), dismiss | jobs, quotation |
| Recommendations (`modules/recommendation`) | `Recommendation` | generate, add to quote, dismiss | quotation builder |
| Jobs (`src/jobs`) | `NotificationOutbox`, BullMQ queues in Redis | enqueue with the transaction, dispatch, process | realtime, deal health |
| Realtime (`src/realtime`) | Socket.IO rooms | join, leave, emit | - |
| Authentication (`src/lib/auth`, `middleware.ts`) | `Session` | login, logout, resolve actor | all services |
| Master data (`catalog`, `customers`, `pricing`, `users`, `warehouse`) | their tables | list, get, create, update, delete | builder |

A quotation is the centre of it:

    DRAFT -> PENDING_APPROVAL -> SENT_TO_CUSTOMER <-> UNDER_NEGOTIATION
      |  ^        | (return)          |                    |
      |  +--------+                   v                    v
      +-> APPROVED            CONFIRMED | RE_APPROVAL_REQUIRED -> CONFIRMED
    PENDING_APPROVAL -> REJECTED;  CONFIRMED -> FULFILLMENT -> BILLING

### What is hard here

* A check and the write it protects are different statements, often of
  different transactions: `assertOwnedDraft` reads the status before the edit's
  transaction; `submit` freezes a payload read, priced and scored earlier;
  `negotiate` looks for an open request and then inserts one. Only the version
  stands between them and a lost update.
* Approval records have their own version and are decided by another team while
  the quotation moves on; nothing deletes the records of a version that was
  rejected or returned.
* Configuration (ceilings, approval chains) changes while requests use it, and
  no version protects it.
* Fulfilment takes row locks on several stock rows, splits lines over
  warehouses, and may fail halfway; stock is also overwritten by absolute
  updates and imports.
* Payments, subscription changes and alerts are read-modify-write without a
  version; jobs are delivered at least once and retried.

`PROJECT.json` lists each hazard at its line.

### What makes each component correct

* Builder and submission: terms change only in Draft; what is frozen, scored and
  sent to approval is what the quotation holds.
* Approval: steps are decided once, in order; a quotation under review can always
  be decided; a rejection is final; only complete approvals release terms.
* Negotiation: one open request, always answerable, always answered; confirmed
  terms are authorized.
* Fulfilment and stock: never reserve more than is there, ship what was reserved,
  account for every ordered unit.
* Invoices: the status follows from the payments. Subscriptions: one per line,
  periods tile the time. Deal health: one open alert of a kind. Jobs: every
  event committed is delivered.

## 2. Plan

Done, in the order of what a mistake would cost:

1. **Quotation, QuotationSerial, QuotationService**: the aggregate, the atomic
   specification, the services with requests in flight; type, invariants, action
   properties and the refinement are proved, and for chains of one step what the
   statuses promise of approvals.
2. **Allocation, StockLedger, Fulfillment**: the split as pure operators against a
   reference, the abstract ledger of units, the transactions that implement it; types,
   that allocations are kept and shipments final, that the ledger is implemented,
   every held unit accounted for and every ordered one covered are proved.
3. **Payments** (the idempotency key and that PAID means paid proved), **Proration,
   Subscription** (its types, the turns of its changes and the bounds of refunds proved),
   **BillingPlan** (that plans are whole proved).
4. **Outbox** (what its rows say of the queue proved) and **DealHealth** (who may undo a
   dismissal proved), with liveness.
5. **Recommendation**, **Rules**, **Catalog**, **Access**: what staff and customers save
   beside the quotations; every safety property of them is proved.
6. **Risk** and **Scoring**, the arithmetic of risk, deal health, priorities and
   recommendations; **TopK** and **ItemLoop**, the two algorithms with loops: the choice
   of the best by a heap and how lines take their items of a split. **Calculations** asks
   all of them; every property of it is proved.
7. **Pages** and **Screens**: every form of the web client, its route, and what its
   handler does with the answer, run with handlers that overlap; every property proved.

Left, in this order:

8. Month lengths in `Proration`; the choice of a subscription plan; a page composed
   with the services of `QuotationService` instead of the routes of `Pages`.
9. At-least-once delivery as an abstract specification that `Outbox` implements.

Abstract specifications: `QuotationSerial` for the quotation services,
`StockLedger` for stock. A third worth having is at-least-once delivery for the
outbox; today `EventsAreSettled` says it as a property.

## 3. Modules and code

`modules/` abbreviates `src/modules/`; `PROJECT.json` maps every definition to its
lines.

| Module | Models | State | Actions, with the function each translates |
|---|---|---|---|
| `Quotation` | rows of one quotation, what a committed transaction writes | `status`, `version`, `lines`, `disc` (Quotation, QuotationLine); `snapshots` (QuotationVersion with its ApprovalRecords); `negotiations`; `rules` | operators `WriteTerms`, `Freeze`, `OpenNegotiation`, `ConfirmWrite`, `CloseNegotiation`, `DecideWrite` |
| `QuotationSerial` | what the services promise: one step per operation | the same | `Edit`, `Submit`, `Negotiate`, `Confirm`, `Resolve`, `Decide`, `ChangeRules` |
| `QuotationService` | the services as they run, any number of requests in flight | and `req[r]`: what a request has read | `XStart` (reads the row, checks the status), `XLoad` (reads the rest), `XCommit` (conditional writes), `Abort`, for X = edit, submit, negotiate, confirm, resolve, decide |
| `Allocation` | `allocate-stock.ts`, what the item loop of `persistAllocation` comes to | none | `Splits`, `Shortfall`, `CoveredBy`, `Items`, `AllItems`, `Backorders` |
| `ItemLoop` | the item loop of `persistAllocation`, a line and a split at a time | `line`, `split`, `left`, `remaining`, `items` | `StartLoop`, `NextLine`, `NextSplit` |
| `StockLedger` | abstract: allocation and shipment as one step each | `units`, `holding` | `Hold`, `Ship`, `Adjust` |
| `Fulfillment` | `prisma-fulfillment-repository.ts`, the stock screens | `stock`, `order`, `fulfillment`, `tx[t]` | `AcceptSuggestedSplit`, `OverrideSplit`, `MarkShipped`; `CreateFulfillment`, `Peek`, `WriteStock`, `CommitAllocation`, `CommitShipment`, `Abort`; `CreateStock`, `UpdateStock`, `ImportStock`, `DeleteStock`; `LateDecision`, `ConfirmAgain` |
| `Payments` | `prisma-invoice-repository.ts` | `invoice`, `payments`, `answered`, `req[t]` | `Create`; `Read`, `AlreadyRecorded`, `Check`, `Insert`, `DuplicateKey`, `Commit` of `recordPayment`; `Abort` |
| `Proration` | `proration.ts`, `cancellation.ts` | none | `UsedAmount`, `UnusedCredit`, `NetAdjustment`, `Credit` |
| `Subscription` | create, modify, cancel | `sub`, `invoiced`, `credits`, `req[t]` | `Create`, `Read`, `Compute`, `Modify`, `Cancel`, `Abort` |
| `BillingPlan` | `createFromQuotation`, invoices typed in beside it | `subscriptions`, `invoices`, `req[t]`, `planned` | `CreateFromQuotation`, `ReturnExisting`, `FindNothing`, `Commit`, `Abort`, `TypeInvoice` |
| `OrderFlow` | what follows a confirmation: two instances of `Fulfillment`, `Subscription`, `BillingPlan` | theirs and `part` | theirs |
| `Outbox` | `outbox.ts`, `dispatcher.ts`, `worker.ts`, both processors; BullMQ and Redis external | `row`, `batch[d]`, `job`, `run`, `notice`, `redis` | `EnqueueOutboxEvent`; `Claim`, `Dispatch`, `FailUnroutable`, `RetryLater`, `CommitBatch`; `Start`, `Work`, `WriteSent`, `Complete`; `MarkOutboxFailed`; faults `LoseReply`, `RollBackBatch`, `RedisGoes`, `Throw`, `SentUnheard`, `Stall`, `LoseNotice` |
| `DealHealth` | scheduler, `deal-health-service.ts`, its repository | `severity`, `byUpdate`, `closed`, `scheduled`, `eval[k]`, `alert` | `ScheduleBatch`, `RefreshQuotation`, `GetSnapshot`, `ReadAlert`, `UpsertOpenAlert`, `ResolveAlert`, `DismissAlert`; `Activity`, `Aging`, `Interrupt` |
| `Risk` | `resolve-ceiling.ts`, `calculate-discount-margin.ts`, `scoreRisk.ts` | none | `ResolveDiscountCeiling`, `CombineDiscounts`, `ScoreRisk`, `Band` |
| `Scoring` | the four rules and the priority of `deal-health/domain`; `recommendation/domain` | none | `StalledQuotation`, `DeliverySlippage`, `HighRiskDeal`, `DiscountAnomaly`, `ComputePriorityScore`; `FindExclusionReason`, `ScoreCandidate` |
| `TopK` | the loop of `generate` over the candidates, `select-top-k.ts` | `considered`, `scored`, `pushed`, `heap`, `at`, `doing`, `chosen` | `Consider`, `SelectBySort`, `SelectByHeap`, `Push`, `BubbleUp`, `BubbleDown`, `ToSortedDescending` |
| `Calculations` | asks the calculations one question after the other | `question`, `input`, `free`, `schedule`, `day` and those of `ItemLoop` and `TopK` | `Ask`, `AskOn`, `HandOut`, `Offer` |
| `Recommendation` | `recommendation-service.ts`, its repository | `lines`, `version`, `rec[p]`, `req[r]` | `GetScoringContext`, `Score`, `DeleteStale`, `Upsert`, `SaveGenerated`; `GetForActor`, `AddToQuote`, `MarkAdded`; `MarkDismissed`; `EditLines`, `Refuse`, `Abort` |
| `Rules` | `prisma-discount-rule-repository.ts`, `prisma-approval-rule-repository.ts` | `rule[i]`, `policy`, `steps`, `txn[r]` | `Create`, `Insert`, `Update`, `WriteUpdate`, `Delete`, `WriteDelete`, `Commit`; `CreatePolicy`, `UpdatePolicy`, `DeleteSteps`, `WritePolicy`, `CommitPolicy`; `Rollback` |
| `Catalog` | `save` and `resolvePrice` of pricing, `update` and `delete` of products | `active`, `variants`, `listed`, `rules`, `request[r]` | `SavePriceList`, `CheckVariants`, `CheckOverlap`, `WriteRules`; `UpdateProduct`, `WriteProduct`, `DeleteProduct`; `Abort` |
| `Access` | `lib/auth`, the login and logout routes, the middleware, `modules/users` | `user`, `customers`, `tiers`, `session`, `cookie`, `tab[t]` | `SubmitLogin`, `FindUser`, `FindTier`, `CreateTier`, `Provision`, `CreateSession`, `LoginAnswer`, `LoginRefused`; `Visit`, `CurrentUser`, `Expire`; `SignOut`, `DestroySession`, `LogoutAnswer`; `CreateUser`, `UpdateUser`, `DeleteUser` |
| `Pages` | the pages under `src/app`, their forms, the routes under `src/app/api` | none | data: a `Page`, and per form a `Form`, a `Route` and a `Handler` |
| `Screens` | a page in a browser tab, run from the data of `Pages`; `api-client.ts`, `route-handler.ts` | `row` (database), `list`, `detail`, `busy`, `loading`, `draft`, `task[t]` | `Press`, `Respond`, `Refuse`, `TakeAnswer`, `ShowError`, `ReadCopy`, `Show`, `Miss`, `Fire`, `Refresh`, `Open`, `CloseWindow`, `Elsewhere` |

`MC...` modules hold the constants of the instances. `OrderFlow`, `MCJobs` and
`MCOffice` put several modules side by side: the variable `part`, chosen at the
start, says which of them runs, so that one run answers for all of them; the parts
share no row. `Calculations` takes its inputs from constants: small sets for the run,
any sets for the proofs. Where a loop is modelled statement by statement and another
module needs only what it comes to, the operator (`Items` for `ItemLoop`) is proved equal
to it. `..._proofs` modules hold theorems, and `Sums` the facts about sums, shares and
splits they share.
Operators introduced by a comment that begins
with "Fault", or that stand before the definition whose name they extend, are
erroneous variants of that definition. No specification uses them: they take its
place in the mutation tests of `PROJECT.json`, which show that each property
notices a plausible mistake.

How the modules meet: `QuotationService` refines `QuotationSerial` with the same
variables and hides `req`. `Fulfillment` refines `StockLedger` through a mapping
that forgets versions, items and transactions in flight. `Fulfillment` sees the
quotation from its confirmation on, `QuotationSerial` up to it; the one thing that
crosses is a left-over approval step that moves a confirmed order (`LateDecision`).
`Recommendation` adds lines as `QuotationService` commits an edit: under the
version. `Risk` computes the chain that the quotation modules take as the constant
`Chain`, and `Rules` is where the rule sets come from that `ChangeRules` switches.
`Screens` takes the answers of the services from the routes of `Pages`: which
states an operation is done in, whether the version is compared, what is left.

### Modelling conventions

* A request refused by a role or ownership check changes nothing and has no
  action. Any other refusal, conflict, violated constraint, deadlock victim or lost
  connection is `Abort`, which rolls back and is possible at any moment (`Refuse` in
  `Recommendation` and `Screens`, where it matters when it happens).
* Clients echo a version they were shown: any from 1 to the current one.
* Consecutive reads of one request that no other step can tell apart are one step
  (`Load`). A commit carries every write of its transaction; PostgreSQL makes them
  visible together. Where row locks or unique keys are taken before the commit
  (`Fulfillment`, `Rules`, `Recommendation`), the writes are steps of their own that
  hold them, and the rows change at the commit. In `Catalog`, whose transactions lock
  everything with their last read, what follows that read is one step.
* Terms, products, prices and rules are model values and maps between them: `Chain`
  gives the approval steps that a rule set demands for given terms, and the proofs
  hold for every such map.

Per module:

* *Quotation*: `DecideStart` reads record and quotation together. A record is
  PENDING exactly while it has its first version, which is how the conditional
  update of the record is modelled. `CONFIRMED` is where this module stops. Change
  requests, comments, audit entries and the payload hash are left out, since no
  operation reads them. In the serial specification `Submit` and `Confirm` may use
  any rule set, because the services read rules that may be replaced before they
  commit. A rule set is the ceilings and the approval rules as one evaluation may read
  them. The code reads ceilings and chain in two statements, so a mixture of two
  configurations is a rule set too; the proofs hold for any rule sets.
* *Fulfillment*: the order and the stock are read at one instant; an import gives
  its rows equal figures; an update that relabels a row's product or warehouse is
  left out, and so are splits with quantity 0, which the code drops (440). A row deleted and created
  again has a new id, for which a higher version stands.
* *Payments*: amounts are whole cents. VOID and CREDITED are reached by no code.
* *Subscription*: a cycle is a fixed number of days and cents are rounded half up;
  the plan's refund rule is a constant.
* *BillingPlan*: each step reads at one instant; amounts and dates are left out. The
  code checks no quotation status here, and neither does the model.
* *Outbox*: backoff is the flag `due`; the row's attempt counter, which nothing
  but the backoff reads, is left out. `Routable` events have a queue and a
  processor. Removal of old jobs from Redis is left out.
* *DealHealth*: the four indicators of an evaluation have a row each and never meet,
  so one is modelled, with a severity for its finding; what severities they find is
  in `Scoring`. `closed` holds the deals that are REJECTED or COMPLETED, which batches
  pass over; a refresh by hand evaluates any deal. Events to screens are left out: they carry no state, and evaluations run
  in the worker process, which has no socket server.
* *Risk*: discounts in steps of 5 percent, amounts and scores as exact fractions in
  scaled integers. What doubles do to a discount equal to its ceiling is the set
  `RoundedUp`, for combinations up to 30 percent. It counts on the customer's confirmation
  only: the submission scores the quotation's DTO, where discounts and the margin are
  rounded to 4 decimals and amounts to 2 (`prisma-quotation-repository.ts:46-51,94,105`).
  What that does to amounts and to the margin is left out.
* *TopK*: positions count from 1, so the parent of i is i div 2. Entries with equal
  scores keep the order in which the sort finds them; the comment of `selectTopK` that
  ties break by the order of the input is true of the sort and not of the heap.
* *ItemLoop*: one product, since the loop over products starts afresh for each; lines of
  others want nothing of it. The stock rows that the same loop writes, and what makes it
  fail there, are `WriteStock` and `Abort` of `Fulfillment`.
* *Scoring*: percentages, days and the square of the deviation in integers; scores
  keep the weights of the configuration.
* *Recommendation*: a product is offered or not, with any score. One quotation.
* *Rules*: one tier or category per target, one risk band. The `tag` of a step names
  the save that wrote it, which the code does not keep.
* *Catalog*: one product, one price list; prices are left out, since the question is
  which rule applies. Foreign keys set a deleted variant's rule to the product.
* *Access*: a browser with one cookie. An expired session goes with its cookie.
  Password hashes are left out.
* *Pages*, *Screens*: a record is its state and a version; what a form types is a
  draft with a number. Two handlers run at once; each is atomic up to its next
  await. Pages load when they are opened and when a handler says so. Only the page of
  alerts also loads when an event tells it of a change
  (`app/deal-health/page.tsx:121`), which is left out: an event that does not arrive
  must do no harm, and those of evaluations never do. The negotiation panel is a page of
  its own, since it loads its negotiation by itself, after the window, and answers it by
  its id alone. The window sees that some open negotiation was resolved
  (`NegotiationInWindow`). Two things are left out: a panel or a pane that stays mounted while the
  window goes to another quotation and shows, until its own load ends, what belongs to
  the former one (`negotiation-panel.tsx:38-52`, whose mixed ids the route refuses;
  `recommendation-pane.tsx:44-59`, section 8).

## 4. Runs

`tlc -config MC_<run>.cfg <module>`. Distinct states as TLC counts them.

| Run (module) | Instance | Shows |
|---|---|---|
| `service` (`MCQuotationService`, 332 k) | one line, one deal, two discounts, two roles, two rule sets, chains of two steps, two requests in flight, versions to 7 | `QuotationService` implements `QuotationSerial` (`SerialSpec`); the invariants and action properties hold with submissions, negotiations, resolutions and decisions interleaved at every statement and rules changing between them |
| `oneStep` (`MCQuotationSerial`, 7 k) | three discounts, chains of one step, versions to 10 | with one approver old approvals authorize nothing, confirmed terms are authorized, open requests can be answered and are, reviews end |
| `calculations` (`MCCalculations`, 338 k) | three warehouses with -1..4 free units, two lines of two products, of up to 4 each, and up to three typed splits that may repeat a warehouse; amounts to 7, cycles to 5 days, dates within 2 days of the cycle; two lines of every kind of price, cost, discount and ceilings around each other; days and percentages around every threshold; up to 6 candidates, heaps of up to 4 | the suggested split covers what it can with the fewest warehouses, and any split is handed out by the loop as `Items` says; refunds shrink from the full amount to nothing; stricter ceilings never lower a risk; worse deals never rank lower; the best candidates are offered, by sort and by heap |
| `orders` (`MCOrders`, 198 k) | *crossed*: two orders that name the same two products in opposite orders, two warehouses that cannot serve both, two requests. *forms*: one order, typed splits, one set of figures administrators save, left-over decisions. *subscriptions*: two requests, six kinds of change. *billing*: two orders (of mixed lines, and of one recurring line), two requests, a typed invoice | no unit is lost or counted twice, every ordered unit is in an item or a backorder, allocations are never changed and shipments are final, the transactions implement the ledger; changes of a subscription take effect as if computed in their transaction; whoever was given a billing plan finds every line billed |
| `payments` (`MCPayments`, 13 k) | two invoices, three forms (two for the same invoice, which together pay it), two requests, two lost connections | a form is recorded once however often it is sent; PAID means paid; a payment that was sent is recorded |
| `jobs` (`MCJobs`, 61 k) | *outbox*: two events, one without a queue; two dispatchers, two runs per job, two attempts, four faults of any kinds. *alerts*: one deal, which is closed and opened again, two evaluations at once, three severities, two dismissals | a dispatched row has its job, a failed one is not tried again, SENT stays, every committed event is settled; alerts follow the deal in the long run while it is active, and only an evaluation that read the alert before undoes a dismissal |
| `office` (`MCOffice`, 345 k) | *advice*: two products, one offered, two requests, one failure. *rules*: three discount rules for one target, an approval rule, two administrators, three saves. *catalog*: two variants, two administrators, three saves. *access*: two tabs, a member of staff and a newcomer, two sessions, a fault | recommendations are marked with their own line, decisions about them stay and a half-done addition is cleared up by the next generation; one active ceiling per target, a chain that one administrator entered, no save of others' fields; one price per product; first sign-ins make a customer and a user or nothing, and the sign-in form is in reach |
| `screens` (`Screens`, 255 k) | all 19 pages with all their handlers, two records, two handlers under way, two requests or changes elsewhere, one lost answer | users act on what they were shown where that is promised and a version is sent; are refused only what changed meanwhile; forms that clear themselves, but payments, take effect once; all forms come back |
| `rejectIsTerminal` (`MCQuotationSerial`) | chains of two steps | *violation*: section 8 |
| `billedTwice` (`MCBillingPlan`) | one order, two requests | *violation*: section 8 |
| `atTheCeiling` (`MCCalculations`) | as `calculations` | *violation*: section 8 |
| `dismissals` (`DealHealth`) | one deal, two evaluations | *violation*: section 8 |

### Why these bounds

* *Two requests*: the interference that matters is between one request and what
  changes under it. Two are enough for every pair of operations to overlap at
  every statement. The proofs lift the bound, on requests as on rows, for everything
  but the parts that section 7 names.
* *Versions to 7*: enough to submit three times with two returns between (stale steps of
  two earlier versions), or to submit, approve, negotiate, answer and confirm. `MaxVersion` stops only what
  users start (`Room`): decisions and answers are never cut off, so liveness is
  not lost to the bound.
* *Two discounts and one line*: terms differ or not, need approval or not; the
  proofs hold for any set.
* *Three saves* (`MaxWrites`, `MaxSaves`) and three discount rules: two that overlap
  and one before or after them, for one target, since rules of different targets
  never meet.
* *Two sessions and two tabs*: one signs in or out beside the other, and a cookie
  is replaced under a tab.
* *Two requests of a page* (`MaxRequests` counts them and the changes made elsewhere):
  a handler and a second one of any kind, or a handler and a change under it. Loads,
  windows opened and closed and timers are not counted.
* *Faults* (`MaxFaults`, `MaxFailures`, `MaxLost`) are drawn from one budget, so that four of a
  kind or four kinds may strike the outbox. Two attempts suffice to tell the last from the
  others.
* Deadlock checking is off where a system may have nothing left to do: everything
  confirmed, shipped, paid, sent or cancelled, or the bound reached.

### What the properties are about

Core. `SerialSpec` says that the check of the version makes each operation atomic:
whatever it read is still so when it commits. `HistoryIsKept` (snapshots and
decisions) and `TermsFrozenOutsideDraft` say it for terms, `ReviewsAreSound` for what
approvers judge and for the order of a chain, whose decisions do *not* move the
quotation's version, `NegotiationInv` for the customer's requests.
`OldApprovalsAuthorizeNothing`, `ConfirmedIsAuthorised`, `RejectIsTerminal` and
`RequestsStayResolvable` are what the documents promise; they hold for chains of
one step and fail for two.

Orders. `AllocationsAddUp` compares stock with the orders over the whole
history, items and backorders with the lines, and the two rows a commit writes;
`AllocationIsKept` compares every later state with the allocation. `LedgerSpec` shows
that nothing else happens. `ChangesTakeTurns` re-evaluates the proration at the
moment of the commit. `InvoicesInv` holds although a status may be derived from too
few payments: it then errs towards unpaid.

Jobs. `JobsInv` relates rows to Redis across roll-backs. `SentStays` and
`OutboxSettles` name, as exceptions, the two ways in which the code falls short of
what the documents ask (section 8).

Office. `RulesAreConsistent` and `CatalogIsConsistent` hold by unique indexes and
locks, not by the checks that the code makes first: the mutants drop one or the
other. `VariantsAreOneSave` and `TheFormIsInReach` name the exceptions the code has.
`HalfAddedIsCleared` is the repair of an addition that stopped halfway: a generation
that reads the quotation after it finds the product there and takes it off the offer,
unless it fails. That a generation comes at all is up to who opens the pane.

Screens. `ActsOnWhatWasShown` is where the version of the services meets the copies
of the pages; it speaks of the operations that send one. The answer to a negotiation and
the customer's confirmation do not, though the same is promised of them (section 8). `RefusedOnlyWhenStale` compares the states in which a page offers an
operation with those in which its route does it, for every form. `OneEffectPerDraft`
and `FormsComeBack` are about busy states that handlers share. The first excepts
payments, whose busy state does not keep a draft from being sent twice (section 8).

Calculations. Each compares a calculation with a reference (`SplitsAreRight`,
`BestAreOffered`) or with itself at a neighbouring input (the other three); none restates
the code.

## 5. Fairness

Nothing obliges users to start anything. Fairness is assumed only of:

* `WF(Decide)`, `WF(Resolve)` (`oneStep`): an approver acts on a queue that keeps
  showing a step, sales answers an open request. Negotiation, confirmation and edits
  are not fair.
* `WF(Serve)` of each request (`payments`): the server executes what it has begun, and a
  failure ends it. Nobody need send anything, or send it again: `SentIsRecorded` speaks
  of requests that were sent. Failures are not fair and are finite in number.
* `WF` of dispatchers, workers, `BecomeDue`, `RedisReturns`, `MarkOutboxFailed`
  (`jobs`, part `outbox`): the dispatcher's loop is a timer (`dispatcher.ts:140`), the worker
  process runs, clocks advance, Redis comes back.
* `WF(ScheduleBatch)` and `SF` of the steps of a deal's evaluations (`jobs`, part `alerts`):
  evaluations may be interrupted, but not every time. That a scheduled deal is
  served at all needs a batch that holds every deal: section 8.
* `WF(Serve)` of each request (`office`, part `advice`): the server executes what it has
  begun. Nobody need open the pane that asks for a generation.

In the composed runs fairness is asked only of the part that runs. `screens` has no
liveness: nothing there happens by itself but answers.

## 6. Proofs

All theorems hold for every value of the constants that satisfies the named
assumptions, which TLC evaluates on every run of their modules:

* `QuotationAssumption` (default discount among the discounts, the markers NoDeal and
  NoPct outside, chains are sequences of roles), `MaxVersionAssumption`; the theorems
  about chains of one step have that as their hypothesis.
* `SubmissionAssumption` (there is a form; each names an invoice and an amount),
  `LinesAssumption` (an invoice has finitely many lines with amounts).
* `FulfillmentConstants` (finitely many orders and warehouses; lines, stock and splits
  have their types; nothing is reserved at the start and versions start at 1), a
  hypothesis of the theorems, since the module is instantiated twice. The one about lines adds
  `OverridesNameOnce` (a split typed in names a warehouse once), those about
  sums add the closed stock screens they need: `StockForms = {}`, because absolute
  figures that administrators save overwrite what was reserved, and
  `MaxVersion <= 1`, because no row is then deleted and created anew.
* `SubscriptionAssumption` (changes and amounts have their types, a cycle has a length);
  the theorem about types needs that there are a subscription and a change at all.
* `PartsAreInstances` (both instances of `Fulfillment` supply what it asks for, and orders
  have finitely many lines).
* `OutboxAssumption` (events are numbered in the order they were created in; a job has
  an attempt), `AlertsAssumption` (finitely many deals, in one order).
* `RecommendationAssumption` (there are products and requests; the bounds are natural
  numbers), `OfficeAssumption` (there is a rule to save; the bounds are natural
  numbers; tabs are finitely many and "nobody" is no address).
* `CalculationsAssumption` (finitely many warehouses; stock, lines, splits, schedules,
  discounts, findings and candidates have their types, of any size and in any number; a
  quotation has a line).
* `ScreensConstants` (finitely many handlers at once; the bounds are natural numbers; no
  record is called "form"). The theorems about `Screens` have `TheTables` as their
  hypothesis: the handlers and pages are those of `Pages`, the constants that the run
  uses too.

**`Quotation_proofs`, the serial specification.** *Effects* lemmas (`FreezeEffect`,
`DecideEffect`, `OpenEffect`, `CloseEffect`) say once what each write does to the
sequences; everything else cites them. `TypeCorrect` is inductive by itself.
`NegotiationInv` and `ReviewInv` are inductive once types are known, because each
relates status, requests and the latest version in both parts: a quotation under
negotiation has exactly one open request, so closing it cannot leave another; a review
has a pending step in the latest version, so a decision either leaves one pending or
settles the quotation. `InOrder` needs `FirstPending` of every step, and that
`Freeze` starts with pending records. The action properties follow from
`StepCases`, which lists what a step may do. `VersionNoticesChanges` is the key to
the services: every step but the decision of a step that settles nothing moves
the version by one.

With chains of one step (`OneStepInv`) a decision always settles the version it belongs
to, so a step of an older version cannot still be pending (`PendingIsAwaited`):
pending steps belong to the latest version of a quotation that awaits them. From there
`RequestsResolvable`, `ConfirmedAuthorised`, `NewTermsNewApproval` and `RejectedForGood`
follow. With two steps each of them is false: the run `rejectIsTerminal` shows it.

**`Quotation_proofs`, the services.** `ServiceImplementsSerial` is optimistic locking's
argument made precise. The inductive invariant `RequestInv` says of each request:
the version it saw is at most the present one; the status it saw passed its
check; and *if the version is still the one it saw*, then so are status, terms and
what `Load` found (`LoadedHolds`). Neither the properties nor types alone are
inductive: what a commit needs is knowledge about the request's own past reads.
`StepKeeps` (an unmoved version keeps all of that) discharges the other requests'
steps. Decisions are the exception: they do not move the version, and instead
`StepKnown` uses that decided steps stay decided. Then every commit is a serial
step, every other step a stutter, and the serial theorems carry over
(`ServiceSafe`, `ServiceSteps`, `ServiceOneStep`).

**`Sums`.** What the other proofs need of `SumFunctionOnSet`: a sum is a number, one
more summand adds it, equal summands give equal sums, disjoint sets add up. Each is an
induction on finite sets, which the library's theorem cannot give here (it takes an
operator); it is replaced by first-order well-founded reasoning: of the finite sets on
which a claim fails a smallest one is picked. The same goes for sequences joined end to
end, by which items are listed.

It also holds what several components need of `Proration` and `Allocation`. Shares of an
amount: one grows with the amount and the days (`ShareGrows`), a refund lies within the
amount and shrinks from day to day (`RefundIsWithin`, `RefundShrinks`), and the two parts
of a cycle make up its cost or a cent more (`SharesMakeUp`), which is why the difference
that decides what is an upgrade is off by a cent at most (`DearerIsNoDowngrade`).

Splits: `SuggestedIsBest` is the claim of `allocate-stock.ts`'s header for any stock: the
split takes no more than is free, covers what all stock together allows, and no smaller
set of warehouses would. Any k warehouses have no more than the k largest
(`LargestLead`, by induction on k: of k + 1 warehouses one is not among the k largest,
and so no larger than the next of them), and the split stops at the first that covers
the order.

**`Client_proofs`, the payments.** `RecordedOnce`: `PaymentsInv` adds `InsertedIsNew` to the two
properties: between insertion and commit a request is the only one that has
inserted its key, and no committed row has it. Without it a commit could not
know that its row is new, since `Check` looked before other requests committed.
`PaidIsPaid`: `MoneyInv` says what a request may know of the sum already paid. One that
read before others committed knows of too little (`ReadTooLittle`): what it commits is never PAID
unless the sum is covered.

**`Client_proofs`, the pages.** Whether a page is right depends on its tables: which busy
state stops which button, what is loaded after what, which states a form is shown in and
its route takes. `TablesAgree` says what the proofs need of them, and `TheTablesAgree` proves
it of the 19 pages, a handler at a time (`EntriesHold`) and then of what handlers of one
page must not have in common (`FlagsDiffer`). With it `PagesInv` is inductive for any
number of handlers under way, of requests and of lost answers; the records are the two
for which the tables say in which states they start:

* `CopiesInv`: a copy tells the truth about its version. If the record still has the
  version of the copy, it still is as the copy shows it (`Fits`), for the list, the
  window, what a request carries, and what a load has read and not yet shown. Hence a
  route that compares versions acts on what was shown (`DoneToWhatWasShown`), and one
  that refuses what the page offered does so because the record changed
  (`RefusalsAreStale`), as no page offers a state that its route refuses.
* `BusyInv`, `LoadingInv`: all that a busy state marks, and every notice, stands for a
  handler under way that takes it back. It cannot be proved from the handlers' own
  steps alone, since one handler's end may clear what another set: what is needed is that
  whatever stands still has an owner, not that every owner's mark still stands. When no
  handler is left, nothing stands (`ScreensComeBack`).
* `DraftInv`: a form whose draft is to take effect once has a busy state of its own that
  disables it as a whole until its handler has done its loads. So its handler is alone, and
  a draft that took effect is older than the one in the form, or about to be cleared
  (`DraftsTakeEffectOnce`).
* `CountInv`: every draft has been sent, and every request sent is counted, which keeps
  the numbers within their bounds.

**`Fulfillment_proofs`.** `AllocationKept`: `FulfillmentInv` says what a transaction may
rely on. One that has created the order's row is the only one that has, and no row is
committed; one that ships saw a row at most as new as the present one, and if the
version is the same, the row is. So the commit of an allocation meets no row, and
that of a shipment the row it read. The status of the order and the stock are not
needed: the result holds whatever the stock screens save.

`StockIsTyped` needs more than types: `StockInv` says that the rows a request has written
are held by it alone, that each is written once, and that what it means to add or
take away still fits the row as it is. `LedgerKept` goes through the steps of the
specification: an allocation's commit is the ledger's `Hold`, a shipment's its `Ship`, a
stock screen's save its `Adjust`, all else a stutter. For `UnitsAccounted` the sum over
orders moves by one order's units from nothing to promised (`SumAdd`) and from
promised to delivered (`SumRemove`), exactly as `Reserve` and `Deliver` move the
row's figures. `OrdersFollowFulfillment` uses that neither late decisions nor new
confirmations happen below version 2.

`EveryLineCovered` is about what an allocation commits. A split serves a line with
what their two intervals share, where the lines of a product and the splits stand end
to end (`Overlap`); so what one line gets from all splits telescopes to the part of it
that lies within what the splits give together, and its backorder is the part beyond.
`CoverInv` carries that from the reading of the order to the commit. A suggestion
names a warehouse once by construction; for a split typed in it is the hypothesis
`OverridesNameOnce`, without which the code does lose units (section 8).

**`Orders_proofs`.** `OrderFlow` implies the specification of the part that runs, of
either instance of `Fulfillment`, and so its theorems (`OrdersAddUp`,
`OrdersKeepAllocations`, `OrdersKeepLedger`). `PlansAreWhole` is not inductive: a
request that finds anything billed returns it as the plan. `PlansInv` adds that what is
billed for an order at all is either its whole plan or typed in by Finance, which
holds because a commit writes invoice and subscriptions together, and of several at
once each writes the whole plan. That nothing is billed twice is false for two requests
at once, as the run `billedTwice` shows.

`TurnsTaken` is the argument of the quotation services once more, for subscriptions: as
long as the version is the one the client sent, the subscription is ACTIVE and what the
request computed is what its commit would compute (`RequestOK`); every change moves the
version. `SubscriptionsTyped` needs that a refund lies within its amount, and that every
subscription but one not yet made has a schedule: a change always finds one to compute
from.

**`Jobs_proofs`.** `RowsTellTheTruth` and `SentIsFinal` share `OutboxInv`. Claims are its
core: a claimed row is PENDING and has one claimant (`ClaimsHold`), so nothing else
moves it until the dispatcher commits, and what will be committed is true already
(`WritesAreTrue`), since a job that was added is never taken back (`JobsLast`). A
step is first shown to be one of a few kinds of moves of rows and of jobs
(`RowSteps`, `JobSteps`); the invariant is proved of the kinds. `DismissalsLast`: an
evaluation goes on to write only if the alert it read was not dismissed, so one that
undoes a dismissal has read before it.

**`Office_proofs`.** The composed specification implies that of each part, whose
theorems then carry over.

* Advice: `DecisionsKept` and `MarksAreRight` share one invariant. `LockInv` says what a
  generation may rely on while it saves: the rows it deleted were PENDING when it took
  their locks and are still, and no row is locked by two requests. Without it the
  deletion might hit a decision committed since the decisions were read.
  `MarksTheirOwnLine` is inductive with types, because a mark is written only while its
  line stands and removing a line clears the mark.
* Rules: `OneCeiling` is not inductive, because several transactions may have written
  and not committed. `WritesFit` adds that every written row fits what is committed *and*
  what the others have written, `InsertsAreNew` that two never insert the same rule.
  `FieldsKept` needs `WritesKeep`: a written rule still agrees with the committed one on
  what the request does not name, as the row lock keeps other saves of it out. That a
  chain is one administrator's (`RulesConsistent`) rests on three facts: a deletion takes
  all steps it sees or none, tags are fresh, and two saves of a chain both hold a step of
  order 1, which a unique key forbids.
* Catalog: what is written has been checked against the rules of the same instant
  (`ScopesClash`). Variants of two saves stand together only if the saves ran beside one
  another, which `OverlapsAreSeen` remembers of every save under way
  (`CatalogConsistent`).
* Access: a token that is granted is new, the cookie is one a tab was given, and a
  customer and user are provisioned together (`FirstSignInIsWhole`); the form stays open to whoever is not signed in
  (`FormStaysInReach`).

**`Calculations_proofs`.** `InputsFit` says that what is asked is one of the inputs
there are; the first three theorems follow from it and from arithmetic.

* `RefundsFollowTime` cites the lemmas on shares of `Sums`.
* `WorseRanksHigher`: a further distance from the mean of past discounts is no less
  remarkable (`FurtherIsNoLess`, where the square of the distance is compared with the
  variance); a severity more outweighs all that value and age can add
  (`SeverityOutweighs`).
* `StricterIsNoLaxer`: a stricter ceiling adds to the excess of its line and to no net
  amount (`StricterLine`), so each part of the weighted sum over the same whole grows
  (`ScoreGrows`), and with it the band (`BandGrows`). The sums are over any number of
  lines.
* `BestAreChosen`: `ChoiceInv` is an invariant of every loop of `TopK`. What the heap holds
  is, at each moment, the best k of the entries given to it (`BestOf`), though it
  is out of order while an entry is on its way: then it is a heap but for that entry
  (`HeapBut`), and what stands below the entry scores no less than what stands above it
  (`Bridged`), without which an exchange would break the order elsewhere. The root is the least
  of a heap (`RootIsLeast`), so an entry that scores no more may be passed over and one
  that scores more may replace it (`PassesOver`, `TakesOver`). The sort is one of places:
  each of 1 to n is taken by one entry (`PlacesAre`), so the sorted sequence holds the
  same entries. That a candidate as good in every respect scores no less
  (`GoodScoresMore`) is arithmetic of the weights.
* `LinesTakeTheirShare`: `LoopInv` says what the loop has done when it comes to a line and
  a split. Lines of the product want consecutive pieces of the order, splits give
  consecutive pieces of the stock, and what has been handed out is always a
  beginning of both: `GivenTo` computes how far it has come, `LeftOf` what a split has left.
  A split is taken up, skipped because nothing is left of it, or left in part because the
  line has enough (`OneTake`); a later line skips what earlier ones emptied
  (`OneLineOn`). A warehouse that the split names again counts as its first mention with
  the last quantity, as the code's `Map` does (`NamedFirst`). At the end the items are
  those of `Items` (`ItemsAreRows`), and a suggested split is the best by
  `SuggestedIsBest`.

## 7. Only model-checked

* Liveness (`ReviewEnds`, `RequestsAreAnswered`, `SentIsRecorded`,
  `OutboxSettles`, `AlertsFollowDeals`, `HalfAddedIsCleared`): TLAPS has no support for
  fairness and ENABLED here.

Every safety invariant and action property of the passing runs is stated by a theorem,
under the assumptions that section 6 lists.

## 8. Findings

Four runs end in a counterexample:

1. **`rejectIsTerminal`.** Finance can approve a quotation the manager rejected. A
   rejection or return leaves the later steps of its version PENDING
   (`prisma-approval-record-repository.ts:155`), `decide` never looks at the
   quotation's status, and the approval of the last step writes SENT_TO_CUSTOMER
   (163-168). The architecture document, line 257: "Reject is terminal for that version".
2. **`billedTwice`.** Two requests for the billing plan of an order at once both bill it:
   the check at `prisma-subscription-repository.ts:329` is a plain read at READ
   COMMITTED and no unique key stands behind the writes.
3. **`atTheCeiling`.** A discount of 5 percent under a ceiling of 5 percent sends a quotation
   to approval again when the customer confirms it: `calculate-discount-margin.ts:22`
   computes 5.000000000000004, the confirmation scores it as it is
   (`prisma-negotiation-repository.ts:533`), and `scoreRisk.ts:168` takes any excess for a
   violation. So for 1 to 7, 14 to 17, 28 to 34, 55 and 56 percent. The submission finds the
   same terms within their ceilings, because the DTO it scores has discounts rounded to 4
   decimals (`prisma-quotation-repository.ts:49,94`, `submit-quotation-use-case.ts:82`).
   `docs/ORDERS_FLOW.md:68`: "if the customer's final negotiated terms still fit inside the
   approved thresholds, **Confirm Quotation** moves the deal straight to `Confirmed`".
4. **`dismissals`.** An evaluation that read an alert before it was dismissed opens it
   again, since `upsertOpenAlert` (`prisma-deal-health-repository.ts:196`) writes without
   a condition on what it read. `deal-health-service.ts:214`: "dismissal is sticky".
   `DismissalsYieldToOlder` shows that nothing else undoes a dismissal.

Further disagreements met while modelling. The models contain this behaviour, and
properties that would exclude it were weakened or bounded to chains of one step, so
no run ends in it. TAD is `docs/DealFlow360_Technical_Architecture_Document.md`.

| Code | Disagrees with |
|---|---|
| `prisma-approval-record-repository.ts:163`: a step left over from an older version settles the quotation, whose terms it never saw | TAD:203 |
| `prisma-negotiation-repository.ts:678`: such a decision while a customer request is open leaves a request that resolve refuses | `negotiation-resolution-service.ts:7-12` |
| `prisma-negotiation-repository.ts:543`: terms just approved are routed to approval again when the customer confirms them | `docs/ORDERS_FLOW.md:33` |
| `submit-quotation-use-case.ts:127`: nothing moves APPROVED to SENT_TO_CUSTOMER | TAD:214 |
| `prisma-fulfillment-repository.ts:515`: stock rows are locked in order of lines and splits; two orders may deadlock, and one is rolled back | TAD:301 |
| `prisma-fulfillment-repository.ts:544`: a reservation that no longer fits fails instead of taking what is left | TAD:721 |
| `prisma-fulfillment-repository.ts:517`: of two splits naming one warehouse the last stays; the rest of the order is in no item and no backorder (the overrides of `orders` name a warehouse once) | `docs/API_DOCS.md:189` |
| `prisma-fulfillment-repository.ts:551`: two lines of one product that take from one warehouse violate the reservation's unique key (the orders of the runs have one line per product) | comment at 513 |
| `prisma-fulfillment-repository.ts:641`: shipping never looks at the quotation's status | TAD:221 |
| `prisma-stock-repository.ts:96`: stock forms overwrite figures without a version | `optimistic-version.ts:24` |
| `prisma-invoice-repository.ts:189`: of two payments at once the last to commit leaves a status that ignores the other | TAD:189 |
| `jobs/worker.ts:27`: a SENT row becomes FAILED when only its confirmation was lost (named in `SentStays`) | TAD:448 |
| `jobs/worker.ts:32`: a lost failure record leaves the row DISPATCHED (named in `OutboxSettles`) | TAD:450 |
| `prisma-deal-health-repository.ts:189`: two evaluations at once both set `detectedAt` | `prisma/schema.prisma:899` |
| `prisma-deal-health-repository.ts:228`: a dismissed alert stays dismissed through later episodes | `prisma/schema.prisma:900` |
| `prisma-deal-health-repository.ts:81`: batches go by `updatedAt`, which evaluations do not touch: with more deals than a batch holds some are never evaluated (`AlertsFollowDeals` would fail) | `deal-health/application/ports.ts:25` |
| `prisma-deal-health-repository.ts:80`: a deal that is rejected or completed is in no batch any more: its alert stays OPEN when its trouble is over, unless somebody refreshes or dismisses it (`AlertsFollowDeals` speaks of active deals) | - |
| `subscription-service.ts:163`: proration and refund take the first schedule, also after a change of plan | comment at 111 |
| `prisma-subscription-repository.ts:338`: any invoice typed in for the quotation passes for its billing plan (named in `PlanIsComplete`) | TAD:454 |
| `portal-quotation-detail-client.tsx:178`: the customer's confirmation carries no version and may confirm terms that were never shown (`ActsOnWhatWasShown` leaves it out) | TAD:547, TAD:680 |
| `negotiation-panel.tsx:59`: the answer to a negotiation names it by an id the panel loaded after the window, and carries no version: when an earlier request was answered and the customer negotiated again in between, Apply is taken on a quotation that is not the one in the window (`ActsOnWhatWasShown` leaves it out) | TAD:225 |
| `recommendation-pane.tsx:44`: the load of the cards is not cancelled when the window goes to another quotation; late cards add to the quotation they were made for, if the versions happen to agree (not modelled) | - |
| `invoices/page.tsx:135`: the idempotency key is made anew with every press, so that a payment whose answer was lost is paid twice when it is sent again | TAD:724 |
| `invoices/page.tsx:143`: one `payingId` serves all payments (52, 128): after paying a and then b, the end of either frees a's button while its payment may be under way, with its amount still in the field and a new key for the next press; it is paid twice though no answer was lost (excepted from `OneEffectPerDraft`) | TAD:724 |
| `catalog/infrastructure/prisma-repositories.ts:163`: the product form always sends variants, so every save deletes and makes them again; quotation lines lose their variant, a rule for one variant becomes a rule for the product, and two such rules make the save fail | comment at 191 |
| `catalog/infrastructure/prisma-repositories.ts:163`: two saves that overlap leave the variants of both (named in `VariantsAreOneSave`) | - |
| `middleware.ts:34`: a cookie without a session (an unheard sign-out, a barred account) leads away from the sign-in form until it expires (named in `TheFormIsInReach`) | comment at 25 |
| `lib/auth/login.ts:51`: of two first sign-ins that both find no tier one fails | - |
| `select-top-k.ts:41`: among equal scores the heap does not keep the order of arrival | comment at 70 |
| `recommendation-service.ts:172`: between the line and the mark a refreshed page can add the product again | - |
| `prisma-recommendation-repository.ts:350`: of an addition and a dismissal at once the last to write stands | - |
| `prisma-recommendation-repository.ts:272`: two generations at once leave the offers of both, more than the configured number | `recommendation/domain/config.ts` |
| `quotations/page.tsx:819`: the form to add a line stays open when the window shows a quotation that is no draft; `users/page.tsx:187`: one's own account can be deactivated on the page and not by the route (both excepted from `RefusedOnlyWhenStale`) | - |
| `subscriptions/page.tsx:203`: the timer of a cancellation closes whichever cancellation window is open by then | - |

No code resolves backorders (TAD:185) or moves BILLING to COMPLETED.

## 9. Not modelled

* *Realtime*: events are hints to load again and carry no state. Only the page of
  alerts listens to one, which dismissals send; those of evaluations are dropped,
  because the worker has no socket server. Every page loads by itself, which
  `Screens` models.
* *Subscription plans, customers, tiers, categories, warehouses*: single-row writes
  behind unique keys, with no protocol between actors; their forms are in `Pages`.
* *Change requests and comments* of a negotiation: read by no other operation.
* *Audit log*: written with each transaction, read by no operation; in `Rules` the
  commit stands for it.
* *Month lengths, currencies, taxes, shipping cost and dates*: arithmetic that no
  property here tells apart.
* *Password hashing and socket authentication*: no state beyond a single request.
* *Wording, layout, filters, the read-only widgets of the dashboard, the style
  components under `src/components/ui`*: presentation.
