# A verification of cheatsgame-api

`src/` is the backend of a game shop: a Django monolith over PostgreSQL that
sells physical goods ("standard commerce") and digital game accounts ("digital
products"), takes the money through an external payment provider and hands the
paid orders to fulfillment. This directory holds TLA+ models of its parts, TLC
configurations that check them on small instances, and proofs that TLAPS checks
for every size.

Nothing in the program waits for anything else: there is no message queue, no
worker, no scheduler in the code. Every change of state is a database
transaction, started by an HTTP request, a provider callback or a command that
an external supervisor (or a person) keeps starting. So the concurrency is that
of transactions: which rows they lock, what they read before they lock, what
they commit between two calls of the provider, and what is left behind when a
process dies between two of them. That is what the modules model.

## 1. Inventory

### 1.1 Money: `src/cheatgame/financial_core`

| Component | State it keeps | Operations |
| --- | --- | --- |
| Placement (`services/placement.py`) | `Order`, `Payment`, `PaymentObligationSource`, an `IdempotencyRecord` per command | `place_order_and_create_payment_obligation`, `adopt_legacy_order_payment_obligation` |
| Payment graph (`models.py`, `services/state_machines.py`, `services/payments.py`) | `Payment.collection_status` and `version`; its `PaymentAttempt`s and their `PaymentTransaction`s, each with a status machine | transitions, each checked against the edge list of `state_machines.py` |
| Provider requests (`services/provider_requests.py`) | `ProviderRequestClaim` and `ProviderRequestResult` of a transaction | create or replay an attempt and a transaction, claim, call the provider outside any transaction, apply its result |
| Request reconciliation (`services/provider_request_reconciliation.py`) | the same rows | what to do with a request whose outcome was never learned |
| Callback ingestion (`services/callbacks.py`, `callback_apis.py`) | `CallbackReceipt`s per delivery, `ProviderEvent`s deduplicated by provider id or by bytes | authenticate, compare with what is known, persist a receipt, an event and verification work |
| Verification (`services/verification.py`, `verification_worker.py`) | `VerificationWorkItem`, immutable `VerificationClaim` and `Verification` rows, `ProviderReferenceAllocation` | enqueue, claim, query the provider, judge and apply the normalised outcome, read what the evidence says now |
| Adapters (`services/adapters.py`, `zarinpal.py`, `financial_certification.py`) | none | ask the provider, normalise what it answers |
| Funds recognition (`services/funds_application.py`) | `FinancialAllocation`, the receipt `JournalEntry`, `ReviewCase`s | `recognize_verified_funds`: one allocation per payment, or a review |
| Commercial finalization (`services/commercial_finalization.py`) | `CommercialFinalizationWorkItem`, `CommercialFinalization`, fulfillment obligations | claim, `finalize_paid_commerce`, failure record |
| Durable runtime (`services/runtime.py`, the commands `financial_runtime` and `commerce_runtime_tick`) | the three kinds of work rows: status, `attempt_count`, claim token and expiry, `next_attempt_at` | select due work, execute one item, record its failure, cancel it when its budget is spent, make it due again |
| Late payment adjudication (`services/late_payment_adjudication.py`) | proposal, approvals, `ExceptionalRecognitionAuthorization` | maker, checker, recovery of released inventory |
| Revenue recognition and journal (`services/satisfaction_evidence.py`, `revenue_recognition.py`, `journal.py`) | `SatisfactionEvidence`, `RevenueRecognitionWorkItem`, `RevenueRecognition`, balanced `JournalEntry` rows | complete a physical delivery, normalise a Digital one, claim, recognise, post |
| Triggers and constraints (`migrations/*_postgresql_*`) | what the tables hold | refuse a row, or a commit, that breaks the graph they guard |
| Reviews (`services/reviews.py`) | `ReviewCase` | open, investigate, propose, approve, resolve |
| Lock order (`services/locks.py`) | a per-context history of ranked locks | `ordered_lock_scope`, `lock_one`, `lock_many`, `register_lock` |

### 1.2 Digital goods: `src/cheatgame/digital_products`

| Component | State it keeps | Operations |
| --- | --- | --- |
| Catalogue (`services/offers.py`, `catalog_admin.py`, `upcoming_games.py`) | commerce authority and release of a product, `DeliveredVersion`, `DigitalOffer` | create, price, activate, pause, archive, move to another pool, announce, release, hand over to Digital and back |
| Inventory pools (`services/inventory.py`) | `InventoryPool.sellable_quantity`, status; `PoolStockAdjustment` | adjust stock (idempotent, never below what is held), enable, pause |
| Cart (`services/cart.py`) | `CartItem` with a `DigitalCartSelection` | add, replace, remove while the cart is open |
| Checkout preparation (`services/checkout_preparation.py`) | `Checkout`, its snapshots, one `DigitalInventoryReservation` per line, the cart lock | prepare or reuse, expire when due |
| Payment adapter (`services/payment_adapter.py`) | an `IdempotencyRecord` per root key | place, attempt, transaction, claim, call, apply: one customer request |
| Payment holds (`services/payment_holds.py`, `payment_failures.py`) | the reservations' state and expiry, the cart's lock reason | renew, hand to review, escalate, expire abandoned, terminate definitively unpaid |
| Fulfillment (`services/fulfillment.py`) | `DigitalFulfillmentItem`, `Entitlement`, `InstalledGameRecord`, `FulfillmentActivity` | activate, assign, contact, receive, install, correct, retry, complete |
| Preorders (`services/preorders.py`) | the obligations of preordered lines | release what was paid before the release |

### 1.3 Shop and the rest

`src/cheatgame/shop` has the older standard-commerce path: a cart and a checkout
with `StockReservation`s, orders submitted straight from a cart, delivery
schedules with a capacity, discounts with a number of uses, and a payment
transaction with tokens, callbacks and manual reviews of its own.
`src/cheatgame/issue` takes console repair requests, which reserve slots of the
same schedules. `product`, `users`, `authentication`, `general`, `common`,
`core`, `api`, `config` are request-scoped CRUD, uploads, text and settings: they
are listed in `PROJECT.json` and not modelled (but for the type, status and stock
of a product), because no protocol runs between two of their requests.

### 1.4 How the parts meet

```
prepare checkout ──> place order ──> request payment ──> provider
      (holds stock)      (Payment)      (attempt, transaction)   │
                                                                 │ callback / query
  CommercialFinalization <── FinancialAllocation <── Verification ┘
   (consumes the hold)         (recognition work)     (verification work)
      │
      └─> fulfillment obligation ──> digital fulfillment ──> revenue recognition
```

Each arrow is a row that one transaction inserts and a later one finds. The
three work items in the middle are the durable runtime: the row is the only
thing that survives a process, and a lease (`claim_token`, `claim_expires_at`)
is the only thing that keeps two processes apart while one of them talks to the
provider.

### 1.5 What is hard

* A process reads a row without a lock, and derives from it the idempotency key,
  the expected version or the decision it uses several transactions later.
* Claim, work, failure record, cancellation and review are separate
  transactions. Another process, or a death, fits between any two.
* Leases run out while their holder still works, and the holder does not know.
* Some writes lock only the work row, others the payment graph, so "locked" does
  not always mean "unchanged".
* Database triggers, not Python, keep terminal rows terminal and evidence
  immutable; the code relies on them in places it does not mention.
* Retry budgets: the last attempt is the one nobody tests.

### 1.6 What makes each component correct

* Verification work: attempts and immutable claims agree; nothing is observed
  after the end; conclusive evidence and completion are one fact; work is given
  up only with its budget spent or its payment closed, and then a review says so.
* Recognition work: money is recognised once, at the version that was
  validated; a lost lease ends nothing; given-up work has a review.
* Finalization work: the order is delivered exactly when its work completes,
  from a hold that lives, under a lease that runs; the end is the end.
* Payment graph: a payment is paid by at most one transaction; late and
  contradictory answers open a review instead of moving the graph back.
* Inventory: what is held never exceeds what is sellable; a cart is locked
  exactly by the checkout that holds its stock; a released hold is not sold.
* Payment request: the customer can never pay twice for one checkout, whatever
  is sent again, at once or after a death; stock is freed when nothing can be paid
  (which the code does not establish of a reconciliation: section 7).
* Callbacks: no delivery is lost between receipt, event and work; a repetition is
  told from a contradiction.
* Evidence: one provider reference settles one transaction; money is recognised
  on exact evidence that nothing recorded disputes, but for an amount of the same
  operation that could not be read before it.
* Catalogue: what is active can be sold; offers that share stock sell the same.
* Fulfillment: a line is delivered once, on the evidence of one method.
* Revenue: consideration is a liability until its line is delivered, and becomes
  revenue once, as a whole.
* Shop: a cart is locked exactly by its draft; an order is paid once and takes its
  stock, slot and discount once; slots are never overfilled.
* Lock order: no two transactions wait for each other.

`PROJECT.json` lists the hazards line by line, with the properties that cover
each.


## 2. The modules

| Module | What it is |
| --- | --- |
| `ObservedWork` | Abstract: observations are added while durable work is open, it ends once, the settling observation ends it. |
| `VerificationWork` | One verification work item and the processes on it. Implements `ObservedWork`. |
| `RecognitionWork` | One funds-recognition work item, the payment it reads and the reviews it opens. |
| `FinalizationWork` | One commercial finalization work item, the hold it renews and sells from, its reviews. |
| `PaymentRequest` | The stages of one Digital payment request under its idempotency keys, the provider's pages, reconciliation. |
| `CallbackIngestion` | Deliveries of evidence about one transaction: receipts, events, verification work. |
| `VerificationEvidence` | Normalized answers, the rows recorded from them, what they do to the payment graph and what is read from them. |
| `EvidenceGuards` | What PostgreSQL accepts of those rows. Implemented by `VerificationEvidence`. |
| `DigitalPurchase` | Digital purchases from the locked cart to the sale: pools, carts, checkouts, reservations, payment, evidence, reviews, late payments. |
| `PaymentGuards` | What PostgreSQL accepts of that graph. Implemented by `DigitalPurchase`. |
| `DigitalCatalog` | Product authority and release, versions, offers, pools, stock adjustments, a cart, and what the views show. |
| `DeliveryContract` | Abstract: lines of paid orders are delivered once, each by someone. |
| `DigitalFulfillment` | Obligations, release of preorders, every command on an execution, completion. Implements `DeliveryContract`. |
| `FulfillmentGuards` | What PostgreSQL accepts of executions. Implemented by `DigitalFulfillment`. |
| `RevenueContract` | Abstract: on top of `DeliveryContract`, a delivered line is earned once. |
| `RevenueRecognition` | Satisfaction evidence, recognition work with its claims, recognition, its journal entry. Uses `DeliveryContract` for fulfillment and implements `RevenueContract`. |
| `RevenueGuards` | What PostgreSQL accepts of them. Implemented by `RevenueRecognition`. |
| `ShopCheckout` | Standard commerce: cart rows, the draft that locks a cart, its reservations, prolongation and expiry. |
| `ShopOrder` | Orders submitted from a cart: choices, payment transactions, callbacks, verification, settlement. |
| `RepairRequest` | Console repair requests on the same schedules; `ShopOrder` extends it. |
| `Verification_proofs` | Theorems of `VerificationWork` and `VerificationEvidence`. |
| `Gateway_proofs` | Theorems of `PaymentRequest` and `CallbackIngestion`. |
| `DigitalGoods_proofs` | Theorems of `DigitalCatalog` and `DigitalFulfillment`. |
| `Shop_proofs` | Theorems of `ShopCheckout` and of `ShopOrder` with `RepairRequest`. |
| `RecognitionWork_proofs`, `FinalizationWork_proofs`, `DigitalPurchase_proofs`, `RevenueRecognition_proofs` | Theorems of the modules they are named after. |
| `MC*` | Model-checking instances. |

Two components whose proofs stand in one module have no name in common:
`PaymentRequest`, `VerificationEvidence`, `DigitalCatalog` and `ShopCheckout` name
their specification, its parts and its types after themselves (`RequestSpec`,
`EvidenceSpec`, `CatalogSpec`, `CheckoutSpec`, and so on), and a verification work
item is an `inquiry` where it is seen from the evidence.

The modules meet at the rows they share. A work module has one work row, several
processes, and sees the payment as a version or a flag; `DigitalPurchase` has
several payments, and sees what a work row schedules as a command that may run
whenever its conditions hold; `VerificationEvidence` has the rows that a
verification writes and reads, and sees the work as a lease. `PaymentRequest` is
what `DigitalPurchase` takes as four commands, with the stops between them. The
compositions are explicit where a property needs both sides: `ShopOrder` and
`RepairRequest` share the slots; `RevenueRecognition` runs on `DeliveryContract`,
which `DigitalFulfillment` implements, so what it earns rests on what that module
delivers.

A transaction is one action, unless it reads a row that it does not lock and
another transaction may write that row before it commits. Then it is two, with
what was read kept in between: `ClaimRead` and `ClaimSave`, `ApplyRead` and
`ApplySave` (`VerificationWork`), `Read` and the `Persist...` actions
(`CallbackIngestion`), `BeginCompletion` and `CommitCompletion`
(`DigitalFulfillment`), `Scan` and `Expire` (`ShopCheckout`), `CheckSlot` and
`ChooseSlot`, `FindUnused` and `DeleteIssue` (`ShopOrder`, `RepairRequest`),
`CheckOffer` and `CreateOffer` (`DigitalCatalog`). A command that raises rolls
back: its condition is a guard, and the action is not taken.

The `...Guards` modules are the triggers and constraints of the migrations,
written as the steps a commit may make. That the services implement them says that
no command the services let pass is refused by the database, and that a service
that forgot a condition would not go unnoticed. Five conditions are in no service:
`Reopenable` and `OwnsReference` (`VerificationEvidence`), `LaunchAuthority`
(`RevenueRecognition`), `Processing` (`DigitalFulfillment`) and `Distinct`
(`CallbackIngestion`) are the triggers themselves, whose refusal rolls the command
back; the guard modules confirm rather than check those.

Abstractions, and why they lose nothing that a property speaks of:

* Time. A row is due or not, a lease or a hold has run out or not, and any of them
  may change at any moment, so every order of deadlines is covered. Only
  `ShopCheckout` counts ticks, since a prolongation is bounded by a maximum life;
  its `Less` moves the model's clock and stands for no code. In `PaymentRequest`
  thirty minutes lie behind the creation of the transaction or not, and behind the
  last request or not (`window`).
* The provider of `PaymentRequest` opens a page for a request within thirty minutes
  or never. That is what the safety window of the reconciliation is for; the code
  counts it from another moment (section 7).
* Transactions of an HTTP request. The views of the shop's payments run under
  `ATOMIC_REQUESTS` (`config/django/base.py:238`), so a call of `ShopOrder` that asks
  its provider keeps its order locked until it ends, and leaves nothing if it dies.
  A claim token that is written and compared within it always agrees and is left out.
* Tokens and keys. The code derives a claim's idempotency key from the attempt
  number it read; the models use the number. In `FinalizationWork` the caller's
  namespace is part of it, since two callers that read the same row get different
  keys and two processes of one caller the same.
* Provider answers. `VerificationWork` tells the ones that leave the work waiting
  from the ones that complete it. `VerificationEvidence` has every class of
  normalized result of the two adapters, and what the adapter contract would let
  another one return; amounts are exact, other or missing.
* In `DigitalPurchase` the one attempt's status follows its transaction's.
  `Reconcile` needs the results of the request and a provider history, which are in
  `PaymentRequest`; here it acts on any transaction whose outcome is unknown and
  which no callback or verification speaks of, whatever the customer has paid.
* Quantities that are added up (the rows of a cart, what checkouts hold, booked
  adjustments, the stock of paid orders) are numbers of units: a row of three is
  three pairs of the row and a number, and a sum is the cardinality of the union. It
  says what the code's `Sum` says, and can be reasoned about for any number of rows.
* Prices, snapshots of texts and addresses, attachments, and idempotent replays
  that write nothing are left out. A review case has an idempotency key per
  reason, so a reason is a field that is opened once.
* Events, outbox messages and, but for revenue, journal lines are written in the
  same transaction as the row that is modelled, and nothing reads them back.

### 2.1 VerificationWork and the code

| Code | Model |
| --- | --- |
| `due_runtime_work_ids`, `financial_runtime run-one`, `retry` | `SelectDue`, `RunOne`, `Retry` |
| `_execute_verification`: unlocked read, root key | `Start` |
| `claim_verification_work` | `ClaimRead`, `ClaimSave` |
| the refresh after `VerificationClaimConflict` | `Refresh` |
| `execute_verification_work_item` | `QueryReplay`, `Query` |
| `apply_verification_result` | `ApplyRead`, `ApplySave` |
| `_record_verification_runtime_failure` | `RecordFailure` |
| `_open_runtime_review` | `OpenReview` |
| the trigger of migration 0009 | `RowAccepts` |
| a database error in a saving transaction | `Raise` |
| process death, lease expiry, retry delay, other payment commands | `Crash`, `LeaseExpires`, `BecomesDue`, `PaymentCloses` |

### 2.2 RecognitionWork and the code

| Code | Model |
| --- | --- |
| `_claim_recognition_work` | `Claim` |
| `_apply_verified_funds_atomic` | `RecognizeReplay`, `RecognizeBlocked`, `Recognize` |
| an error of the database in it | `RecognizeDatabaseError` |
| `_record_application_failure`, `_ensure_review_locked` | `RecordApplicationFailure`, `ApplicationFailureLost` |
| `_record_recognition_runtime_failure`, `_open_runtime_review` | `RecordFailure`, `OpenReview` |
| process death, lease expiry, delays, other commands, a person's decision | `Crash`, `LeaseExpires`, `BecomesDue`, `PaymentChanges`, `ReviewResolved` |

### 2.3 FinalizationWork and the code

| Code | Model |
| --- | --- |
| `due_runtime_work_ids`, `_execute_finalization` | `SelectDue`, `Start` |
| `manage_payment_holds retry-finalization`, `make_runtime_work_due` | `OperatorRetry`, `MakeDue` |
| `finalize_commercial_work_item`: unlocked read, hold renewal | `Refer`, `Renew` |
| `_work_application_identity` | `SameEvidence`, `Unidentified` (the process is `"unfit"`) |
| `_claim_commercial_work_item` | `Claim`, `ClaimReplay`, `ClaimRefused`, `Await` |
| `finalize_paid_commerce` | `Finalize`, `FinalizeReplay`, `FinalizeBlocked`, `FinalizeFails` |
| `_record_finalization_failure` | `RecordFailure` |
| the exception handlers | `Keep`, `Escalate`, `Caught`, `CancelExhausted` |
| the rest of the world | `Crash`, `LeaseExpires`, `BecomesDue`, `HoldLapses`, `ReviewChanges` |

### 2.4 DigitalPurchase and the code

| Code | Model |
| --- | --- |
| `inventory.py`: adjustment, what remains | `Adjust`, `Covers`, `Remaining` |
| `checkout_preparation.py`: prepare, expire, cancel | `Prepare`, `Expire`, `CancelCheckout` |
| `placement.py`, `payment_holds.py`: placement takes the hold | `Place` |
| `retain_locked_digital_payment_hold` | `Retain` |
| `terminate_locked_definitive_unpaid_digital_graph` | `Terminate` |
| `provider_requests.py`: attempt, transaction, claim, result | `CreateAttempt`, `CreateTransaction`, `ClaimRequest`, `ResultAccepted`, `ResultUnpaid`, `ResultUnclear` |
| `apply_verification_result`, branch by branch | `VerifySuccess`, `VerifyLateSuccess`, `VerifyUnpaid`, `VerifyPending`, `VerifyUnknown`, `VerifyMalformed`, `VerifyConflict` |
| `blocking_review_observations` | `Clean` |
| `manage_payment_holds` and the hold commands | `EscalateOverdue`, `RenewPaid`, `EscalateFinalization` |
| `provider_request_reconciliation.py`, `reviews.py` | `Reconcile`, `ResolveReview` |
| `recognize_verified_funds` on the payment | `Recognize`, `RecognizeLate` |
| `finalize_paid_commerce` | `Finalize` |
| `late_payment_adjudication.py` | `Propose`, `Check`, `BarLate`, `RecoverLate`, `ResolveInventory` |
| the provider, the clock | `Decide`, `CaptureLate`, `Lapse` |

`RecoverLate` and `ResolveInventory` are two actions because the code commits
between them, and so are `BarLate` and `RecognizeLate`. `Expirable` has no case for
a placed checkout, because the code's "abandonment" expiry asks for a payment that
was never requested and a reservation still `ACTIVE`, and placement turns the
reservations into a `PAYMENT_HOLD` in the transaction that creates the payment:
`Abandonable` is shown to be empty (in `PaymentSettles`), and
`expire_abandoned_payment_hold` is no action.

### 2.5 PaymentRequest, CallbackIngestion and VerificationEvidence

| Code | Model |
| --- | --- |
| `request_digital_checkout_payment`: the root record, placement, the plan | `Receive`, `Place`, `Plan` |
| `provider_requests.py` in it | `CreateAttempt`, `CreateTransaction`, `Claim` |
| `ZarinpalAdapter.execute_operation`, outside any transaction | `Ask` |
| `apply_provider_request_result` | `Accept`, `Refuse`, `Doubt` |
| a process that dies, or an error, at any stage | `Stop` |
| `escalate_overdue_uncertain_payment`, `transition_review_case` | `EscalateOverdue`, `ResolveReview` |
| `reconcile_no_authority_created` | `Inspect` (when staff may look), `ReconcileNoAuthority` |
| the clock; the provider, after the transport gave up | `Pass`; `Surface` |
| `ingest_callback_delivery` up to its transaction | `Read` |
| `_persist_receipt_only`, `_persist_normalized` case by case | `PersistReceiptOnly`, `PersistNew`, `PersistDuplicate`, `PersistContradiction`, `PersistRefused` |
| `claim_verification_work` and the query | `Ask` (with `Replies`), `Drop` |
| `_response_parts`, `_verification_result`, `_callback_final_receipt` | `Zarinpal`, `Certification`, `SignedReplies` |
| `_comparison_failure` and the judgement of a result | `Exact`, `Compared`, `Judged`, `StateOf` |
| `apply_verification_result`: the row and its projection | `Apply`, `Projects` |
| `derive_current_verification_interpretation`, `blocking_review_observations` | `Reading`, `Blockers` |
| `_validate_exact_success`, recognition | `ExactSuccess`, `Recognizable`, `Recognize` |

What staff found is `history`: late if it was taken thirty minutes after the last
request, early if before; a claim makes a history that staff already hold an early
one (`Reset`). The code tells the two apart nowhere.

### 2.6 DigitalCatalog, DigitalFulfillment and RevenueRecognition

| Code | Model |
| --- | --- |
| `update_product`, `activate_digital_product`, `deactivate_digital_product` | `UpdateProduct`, `ActivateProduct`, `DeactivateProduct` |
| `update_upcoming_game_metadata` | `UpdateMetadata`; `Release`, `Reopen` (fulfillment) |
| versions and offers | `CreateVersion`, `ArchiveVersion`, `CheckOffer`, `CreateOffer`, `UpdatePrice`, `Transition`, `LinkOffer`, `MoveOffer` |
| pools and stock | `EnablePool`, `PausePool`, `AdjustStock` |
| cart, checkout, sale | `AddToCart`, `RemoveItem`, `Prepare`, `ReleaseCheckout`, `FinalizeCheckout`; the triggers on a snapshot are `SnapshotCoherent`, `SnapshotKept` |
| the public and administrative views | `ShownAvailable`, `ShownReady`, `FilteredReady`, `ShownPurchasable` |
| `provision_digital_fulfillment_obligation` | `Activate` |
| each command of `fulfillment.py` | the action of its name: `Assign`, `Contact`, `ChangeMethod`, `ReceiveConsole`, `StartWork`, `Install`, `Correct`, `Remove`, `HandleRemotely`, `OpenException`, `Retry` |
| `_complete_locked`: what it reads of other lines, its commit | `BeginCompletion`, `CommitCompletion`, `RollBack` |
| `complete_standard_fulfillment`, `normalize_digital_fulfillment_completion` | `CompleteStandard`, `NormalizeDigital` |
| `revenue_recognition.py` | `CreateWork`, `Claim`, `Recognize` |

`RevenueRecognition` is the v2 contract (`commercial_finalization.py:665-672`,
`:746-808`), in which the finalizer credits a liability and delivery earns it. The
setting `REVENUE_RECOGNITION_V2_ENABLED` is off by default (`:110-115`); then the
finalizer credits revenue itself (`:673-688`) in the transaction of
`FinalizationWork`'s `Finalize`, no work of revenue is created, and `EarnedAsDelivered`
and `ImplementsRevenueContract` speak of nothing that runs.

### 2.7 ShopCheckout, ShopOrder and RepairRequest

| Code | Model |
| --- | --- |
| `services/cart.py`, `apis/cart.py` | `AddToCart`, `UpdateItem`, `DeleteItem`, `SubmitOrder` |
| `services/checkout.py` | `CreateCheckout`, `Touch` (address, shipping, schedule), `Cancel` |
| `expire_checkouts` | `Scan`, `Expire`, `Interrupt` |
| `services/order.py`, the order endpoints | `Submit`, `CheckSlot`, `ChooseSlot`, `ChooseDiscount`, `ChooseShipping` |
| `payments/services.py`: the checks and the locks, what the provider answers, the commit | `RequestPayment`, `AnswerRequest`, `RecordRequest`; `Verify`, `AnswerVerify`, `RecordVerify` |
| `record_payment_callback`, for whoever calls it; the customer at the page | `Callback`; `Pay` |
| `ZarinpalProvider.verify`: the stored callback status, the code of the answer | `denied`, `AnswerVerify` |
| the rows a call holds while the provider is asked | `Locked`, `ProductLocked`, `LockedSchedules`, `Unblocked` |
| a process that dies, or a call that raises: rollback | `Die` |
| `create_issue_report`, with `generate_repair_tracking_code` before it | `Fill`, `Number`, `Create` |
| `update_issue_report` after its endpoint | `AskSlot`, `ReserveSlot` |
| staff: status, deletion of an issue | `MoveOn`, `FindUnused`, `DeleteIssue` |

## 3. What is checked

Every run passes. Deadlock checking is off, because work that ended, or an order
that was delivered, leaves nothing to do.

| Run | Instance | What it shows |
| --- | --- | --- |
| `VerificationWork` | 2 processes, 2 attempts, 1 death, 1 operator run | attempts are claims, ends are justified, `ObservedWork` is implemented, and the work ends |
| `RecognitionWork` | 2 processes, 2 attempts, payment versions up to 4, 1 death | recognition exactly once and as validated, fenced leases, reviews |
| `FinalizationWork` | 2 processes, 2 attempts, 1 death, 1 operator intervention | sale from a live hold only, ends that are final and escalated, and that the work ends |
| `PaymentRequest` | 3 keys, 2 calls at once, deaths at every stage | at most one page the customer can pay, no request behind an unanswered one, stock freed under a payable page only by an early history |
| `CallbackIngestion` | 4 deliveries of 7 evidences of one event: paid, failed, unmatched, foreign, forged, two hints | work, events and receipts agree; a repetition is told from a contradiction |
| `VerificationEvidence` | 3 works of 2 transactions, 2 references, 2 rows each; a signed event, undisputed or contradicted; every state a request leaves | money only on exact and undisputed evidence, one owner per reference, readings that move only as rows are added, `EvidenceGuards` |
| `DigitalPurchase` | 2 customers, 3 checkouts, 2 pools of at most 2 copies, 1 payer | no overselling, cart and stock agree, what is unpaid is released, what is sold was paid on clean evidence, `PaymentGuards` |
| `DigitalCatalog` | 1 version, 2 offers of 3 configurations, 2 pools of at most 1 copy, 2 adjustments, 1 cart | what is active can be sold, offers of one pool agree, stock is accounted for, views tell the truth, snapshots stay |
| `DigitalFulfillment` | one order: a line sold remote and in stock, a preordered one of an in-store capacity; a manager and an admin | completion on the evidence of one method, delivery once, `DeliveryContract`, `FulfillmentGuards` |
| `RevenueRecognition` | a Digital order with an ordinary and a preordered line, a physical order of a staff member; 3 staff, 2 processes, 2 attempts | revenue once, whole, on the evidence of its delivery and under the last claim; `RevenueContract`, `RevenueGuards` |
| `ShopCheckout` | 2 carts, 3 rows of 1 product, 3 checkouts, quantities up to 2, prolongation of 1 tick within 2 | lock, draft and reservations agree, new holds fit the stock, and drafts end |
| `ShopOrder` | 2 orders with 3 transactions and 2 calls, 2 slots of a schedule with capacity 1, 3 repair requests, 2 issues, a coupon and a direct discount | an order has one live or PAID transaction, and takes stock, slot and discount once; slots are not overfilled; repair records stay whole |

Why the bounds are enough. Every hazard here is one process overtaking another, so
two processes reach it; two attempts give a lease that is taken over and a budget
that is spent while the loser still runs; one death or one intervention shows what
any one of them leaves behind. Four payment versions allow a write before the
claim, one between claim and recognition, and the recognition's own. A third key
in `PaymentRequest`, and a fourth delivery in `CallbackIngestion`, come after two
that already contradict each other. Two rows of evidence are one that disputes
another. Stock of one or two copies is the boundary at which the last one is
wanted twice.

`DigitalPurchase` has one order of two lines on one pool that runs through
payment, review, late recovery and sale; the same customer's next checkout on the
other pool, which competes with it for the cart; and another customer's, which
competes for the last copies of the first. One payer is enough because two payments
share nothing but pools and carts, and the unpaid checkouts contend for both.

In `ShopOrder` a paid page may be settled FAILED; the second transaction of the
first order is the one that it may then be paid on again.

`ShopOrder` checks three casts of actors rather than all at once: the two orders;
an order and an existing repair request, whose requests for every slot are already
on their way; two new repair requests and the staff. Slots are what the first two
share, the catalogue of issues what the third does. Every slot belongs to a
schedule. `DigitalCatalog` has the release of a game as announced, open, canceled
or absent.

Two gaps are known, and no property catches them, because properties that did
would be false. A death between the cancellation of a work item and the transaction
that opens its review leaves canceled work unreviewed, in all three stages:
`CanceledIsReviewed` therefore says "reviewed, or a process owes the review, or one
died". And a death in the last attempt of recognition or finalization strands the
row: `EventuallyTerminal` of `FinalizationWork` excepts behaviours in which a process
died. `PROJECT.json` lists both hazards with no property.

### 3.1 Fairness

The code has no scheduler, so fairness is what its runbook asks of the supervisor
and the database provides, and liveness is claimed only where something in the
repository keeps trying.

* `VerificationWork`, `FinalizationWork`: batches keep being started (`SelectDue`,
  `Claim`), a process that was not killed finishes what it started (`Step`), time
  passes (`LeaseExpires`, `BecomesDue`). In `VerificationWork` two strong
  conditions say that lock waits are first come first served and that the database
  does not refuse one claim for ever. Failing, dying, operators, other commands and
  people's decisions are under no obligation.
* `ShopCheckout`: the clock ticks, `expire_checkouts` keeps being run (`Scan`), and
  a candidate it finds again and again is expired at last (strong fairness of
  `Expire`, since a customer may prolong the draft between the read and the lock).

`EventuallyTerminal` has an honest exception in each module. Verification work: two
processes may postpone each other for ever, since the failure record of one moves
`next_attempt_at` of the row the other is about to claim. Finalization: a death may
strand the last attempt, and a missing or ambiguous accounting configuration is
refused before the claim, for ever. Recognition promises no end: an error of the
database may bar it for good. Nothing in the repository calls the revenue commands,
and fulfillment waits for people.

### 3.2 Mutants

Each property of a run is paired in `PROJECT.json` with a changed definition (a
dropped guard, an off-by-one, a swapped condition; they stand in the modules right
before the definition they change) under which TLC finds it violated.

## 4. What is proved

Every theorem is for all values of the constants: any number of processes, calls,
deliveries, customers, orders and lines, any attempt budget, any number of deaths
and operator runs. The argument is always the same: an inductive invariant (TLC
checked it on the run's instance first) that holds initially and is kept by every
action, with one lemma per action or per conjunct it can disturb. Every type
invariant, every other safety invariant and every action property or refinement
that a run checks is a theorem; only the liveness properties are not.

The durable runtime and the provider:

* Verification work, in `Verification_proofs`: `Invariant` is the induction. The strengthening adds
  two facts that no single transaction checks: `LockInv`, a process is in a
  saving step exactly while it holds the graph; and `KeyInv`, the attempt number
  a process remembers from its unlocked read is at most one ahead of the row, is
  exactly one ahead when it saves a claim, and names a claim once it has one.
  From these, `attempt_count` is the number of claims although no claim locks the
  row it counts in (`AttemptsAreClaims`), completion is conclusive evidence
  (`CompletionIsConclusive`), and every step refines `ObservedWork`
  (`Implementation`). A second induction (`GivenUpInvariant`) carries that a
  failure is classified as blocked only while the payment is closed, and yields
  `GivenUpIsExhausted` and `GivenUpIsReviewed`; `EndsJustified` joins the three.
* Evidence, in `Verification_proofs`: `EvidenceIInv`. `AskedInv` says that a claim
  that asked has an answer, and that only a signed event makes it one of settlement;
  `RowsInv`, that each successful row is complete, owns its reference and shares it
  with its transaction; `OwnerInv`, that whatever is owned or referred to was proved
  by such a row; `GraphInv`, that a payment is open only over an ended transaction and
  recognised only with a successful row. At most one row of a transaction is
  successful (`OneSuccess`), so the eligible row that `Reading` finds is that one
  (`EligibleIs`), whichever of several concurrent answers was applied first: that is
  `EligibleEvidenceIsExact`. `ReadingsMove` compares the reading before and after each
  action (`ReadingOfApply` for the one that adds a row) and each commit with
  `EvidenceGuards` (`StepSettles`).
* `RecognitionWork_proofs`: type correctness, `CompletionIsAllocation`,
  `GivenUpIsReviewed` and, from them, `EndsJustified`; and the two action
  properties `RecognitionIsExact` and `RunningLeaseIsFenced`.
* `FinalizationWork_proofs`: `EndsJustified`, inductive with the types alone,
  since every transaction rechecks the row it locked and trusts nothing it read
  before; and the action property `SalesAreFromLiveHolds`, since only `Finalize`
  sells (`OnlyFinalizeSells`).
* Payment requests, in `Gateway_proofs`: `PageIsUnique`. Each of its three parts needs the
  others and four facts more: of the calls (`CallInv`), that at most one is
  between its claim and the answer, that the transaction waits for that one, and
  that the provider has no authority until it was asked; of the claims
  (`ClaimInv`), that a request is made anew only after results that left nothing
  at the provider, and that one claim at most left anything there; that an order is
  canceled only with its request (`CancelInv`); and that a late history is true and
  stays true, since no call asks and nothing surfaces once the window has passed
  (`HistoryInv`). What is proved of released stock is what the code establishes: a
  payable page is left behind by a reconciliation on an early history alone
  (`ReleasedByEarlyHistory`). `ReleasedWithoutAuthority` is false.
* Callbacks, in `Gateway_proofs`: `NoEvidenceLost`. The strengthening (`StageInv`,
  `KindInv`) says that a delivery still under way has left nothing, that it
  carries evidence once it is accepted, and that what is stored beside an original
  is marked contradictory; so one commit is all that can make or break lineage.

The Digital purchase, in `DigitalPurchase_proofs`, in four layers that rest on
each other:

* The pools (`IInv`): `NeverOversold` is inductive with the types alone, which is
  the point of it: every transaction that adds holds counts what remains under the
  pools' locks, and needs to know nothing about the others. The argument is by
  counting. New holds are one for each line (`OnePerLine`, `AvailableKeeps`), a
  move among states adds none (`MoveFrame`, `NothingNewKeeps`), and a sale drops
  at least one hold for each copy it takes, by an injection from lines to the
  holds that disappear (`SaleKeeps`).
* The cart (`CartInv`): `CartAgrees`. The strengthening says of each checkout
  (`Agrees`) that the lock's reason fits its status, that a pending one has a
  payment (so expiry never meets a placed one, whose stock it would not find),
  that it has no replacements while it owns the cart (so "every line has a hold"
  speaks of the originals), and that nothing has happened to it before its
  preparation. `OthersAgree` shows that a step on one checkout cannot spoil
  another's agreement, even when both want one cart.
* The payment (`SettleInv`): `SettlesAsPromised`. It adds that a recorded success is
  what the provider says, that an unpaid one ended the operation, and that what is
  recognised has a success and no doubt, unreadable amounts before it excepted
  (`EvidenceAgrees`);
  that such an operation canceled its checkout for good and only such a one is
  adjudicated (`EndAgrees`); that the checkout waits for what was recognised in
  time (`ClaimAgrees`); and that replacements exist for applied adjudications only
  and are never sold (`StockAgrees`).
* The database (`GuardInv`): `Implementation`, that every transaction is one
  `PaymentGuards` accepts. It adds that payment and transaction go through their
  phases together (`PhaseAgrees`), that an adjudication has its review, and that
  what is placed was prepared with lines (`RowsAgree`); each action is then compared with the row guards, the guards at
  commit and the transition tables. So no command relies on a refusal.

Before and after the sale:

* The catalogue, in `DigitalGoods_proofs`: `CatalogAgreement`. Its three state
  conditions (`ActiveIsSellable`, `SharedAlike`, `StockIsAccounted`) become inductive
  with `OfferInv`, that an offer keeps a configuration that was once valid and a pool
  that exists, though nobody checks either again; with `AuthorityInv`, that only a game
  is under Digital authority; and with `PoolInv`, that a pool has no stock before it
  exists. Stock is counted: an adjustment is one more unit under its key, or none when
  the key is used (`AdjustmentCounts`), a sale is one cart more (`EndOfCheckoutStep`).
  `ViewsAgree` shows that each view says what the services would do,
  `SnapshotStep` that a checkout's terms stay.
* Fulfillment, in `DigitalGoods_proofs`: `EvidencedDelivery` and `Implementation`.
  A completion reads the other lines' rows without their locks, so it is two steps;
  `EndingInv` says that what it saw still holds at its commit: its own row is as it
  was, and what it saw completed elsewhere stays so. `RowInv` is
  what an execution says of itself (work before other evidence, evidence of the
  current method), `ObligedInv` that every ordinary line of a paid order has its
  obligation. Every command of staff but the verification changes one locked row
  (`CommandsChangeOneRow`), so that all of those are one case. `Implementation` is both `DeliveryContract` and
  `FulfillmentGuards`.
* `RevenueRecognition_proofs`: `RevenueIsEarned` and `Implementation`.
  `DeliveryInv` ties a physical line's delivery to its evidence and every delivery
  to a paid order; `WorkInv` says that work rests on evidence, is leased only while
  it is claimed and completed only with its recognition. The refinement is of
  `RevenueContract`, which itself contains `DeliveryContract`, and of
  `RevenueGuards`.

The shop, in `Shop_proofs`:

* The checkout: `CartLockedByItsDraft` is inductive with the types alone, because the
  expiry command rechecks the status under the lock, whatever it scanned.
  `HoldsFitStock` is the action property: the only step that raises what is held is a
  new checkout, whose lines it had added to what all the others hold; the proof splits
  the units held into those of that checkout and the rest.
* Orders: `OrderIInv`. `TransactionInv` says that an order has one live transaction at
  most, and none once it is paid; `CallInv`, that no two calls are at one order, that
  what a call found under its locks still holds when it commits, and that an answer
  "paid" is true; `ResourceInv`, that stock, uses and slots taken are those of paid
  orders and of requests that reserved them. So whatever a browser says and whoever
  dies, an order is settled once (`OrderPaidOnce`), and what is decided when payment is requested is decided again,
  under the locks, when it is verified (`OrderSlotsHold`, with the records of repair
  requests in `DeskInv`).

Assumptions: the attempt budgets are positive numbers, the bounds on deaths,
runs, versions and stock are numbers; the values that stand for no key, nobody, no
checkout or no evidence are none of these; owners, orders and pools are functions
on the sets they name; what is forged, a hint or unmatched is evidence, and no hint is
an event id of the provider; preorders are Digital lines and what is in-store only
is sold so; amounts are positive; and the set of lines of `DigitalPurchase`, whose
holds are counted, is finite. Finite too are the other sets whose members are
counted: keys and carts of `DigitalCatalog`, rows and keys of `ShopCheckout`, orders,
slots and repair requests of `ShopOrder`; at any time a table has finitely many rows.
The lifetime of a draft is at least one prolongation. TLC evaluates all of them in
the runs.

What the proofs taught. The type of the ledger had allowed adjustments of one copy
only, although the opening stock of an offer is booked as one adjustment of any size:
at the checked stock of one copy no run could tell, and the proof for any stock failed
there. The sums were folds, of which nothing could be proved; as cardinalities of
units they are the same numbers. And the values for "no lock" and "no transaction"
must not be keys or states: TLC's model values never are, the proofs had to be told.

Model-checked only: liveness (`EventuallyTerminal`, `DraftsEnd`), since TLAPS proves
neither fairness arguments nor `ENABLED`.

## 5. What is not modelled

* `locks.py`: transactions are atomic under the locks they take; which pairs could
  wait for each other is left to a module of its own (section 6).
* Accounts, content, notifications, operations: one request, no protocol. Two
  observations on accounts stand in section 7.
* Runtime: the branch of `_execute_recognition` for a work item whose
  `Verification` row is missing (the transaction that inserts the work inserts the
  row it names); the replay of `recognize_verified_funds` for a second verification
  of one transaction, which writes nothing; `truth_only` and
  `apply_verification_hold_policy`, which record evidence and project it apart.
* The standard-commerce branch of `finalize_paid_commerce`, which runs under the
  same claim and differs in the rows it consumes, and the placement of standard and
  legacy orders.
* In `DigitalPurchase`: enabling and pausing a pool (`DigitalCatalog` has it); a
  second attempt after an unpaid one, which the code refuses for Digital orders
  because the graph is terminated; the review by which recognition reports a broken
  invariant (`RecognitionWork` has it); the verification of a transaction that was
  never requested; the system's marker review of a payment that waits for
  finalization. An order recovered late never reaches `Finalize`, since its checkout
  was canceled (section 7).
* In `VerificationEvidence`: transport classification, and the versions of a
  provider's capabilities.
* Fulfillment notes and bonus games, which append rows that nothing reads.
* Prices and amounts but for the comparison of what was paid; attachments; the
  administration of schedules, delivery types, discounts, issues and tags.

## 6. Plan

Done: the durable runtime, the payment request and its callbacks, the evidence,
the Digital purchase, catalogue and fulfillment, revenue, and the shop's older
path with the repair requests that share its slots; and proofs of every safety
property the runs check. Next:

1. `LockOrder`: transactions as sequences of ranked locks; no cycle when all follow
   the ranks, for any number of rows, and the selects that do not follow them.
2. The standard-commerce branch of the finalizer and its stock commitments.

## 7. Observed while modelling

Where the code does not do what is written about it, or does something a reader
would not expect. The models do what the code does, and the properties leave room
for it.

Runtime and recognition:

* The failure record of verification carries no claim token (`runtime.py:331`), so a
  process that lost its lease clears the one of its successor, although
  `docs/commerce/durable-financial-runtime.md:47` says an active lease cannot be
  stolen. No evidence and no completion is lost by it, which the proofs show.
* One transient database error becomes a `FINANCIAL_INVARIANT_VIOLATION` review
  (`funds_application.py:756`) that blocks every later recognition of the payment.
* A process that dies in the last attempt leaves recognition and finalization rows
  claimed with their budget spent (`runtime.py:693`). No claim accepts them and
  nothing cancels them.
* A missing or ambiguous accounting policy is raised in `_work_application_identity`
  before the claim: no attempt is consumed, no review opened, and the work is
  retried for ever.
* A second process may renew a hold the first one has handed to review, because it
  decided to from an unlocked read (`commercial_finalization.py:1374`).
* `commerce_runtime_tick` activates no fulfillment in a tick that left any financial
  work retrying or under review (`commerce_runtime_tick.py:42-50`).

Requests, callbacks and evidence:

* After the overdue command has handed a hold to review, the termination of an
  unpaid graph expects a `PAYMENT_HOLD`, raises, and rolls the evidence back
  (`payment_failures.py:163`), against `docs/digital-payment-retry-policy.md:5`.
  From `REQUESTING` there is no edge for a confirmed expiry
  (`provider_requests.py:722`), nor from `PENDING_CUSTOMER` for a pending answer.
* Reconciliation counts the age of the provider's history from the creation of the
  transaction (`provider_request_reconciliation.py:176`), and compares it neither with
  the claim nor with the request. A transaction may be claimed long after it was
  created, when an abandoned call is sent again; a history of before the request, or of
  while the provider still works on it, then frees the stock under a page that can be
  paid, against `docs/commerce/zarinpal-initiation-reliability.md:28`. Given
  `ReleasedWithoutAuthority` as an invariant of `PaymentRequest.cfg`, TLC shows it in
  twelve states; the run checks what is left of it, `ReleasedByEarlyHistory`.
* Reconciliation accepts two reason codes of five (`provider_request_reconciliation.py:194`);
  an earlier retryable "no effect" bars it too. It looks for the first case that
  says the state is unclear, and raises if that one was resolved.
* A death between the creation of an attempt and the result of its request leaves
  the cart locked and the stock held until a person acts.
* A late accepted result, or a pending verification, moves a hold that was handed to
  review back to `PAYMENT_HOLD` while its case is open.
* A signed event of a foreign authority that is delivered again counts as
  contradicting itself (`callbacks.py:662`), which the trigger of migration 0018
  refuses: every such delivery fails. A signed event whose first evidence was
  quarantined never gets verification work; a lost callback is never polled for,
  since `POLL_PENDING_OPERATION` work is enqueued by no production path.
* A late success after an applied unpaid row cannot be recorded: `verification.py:582`
  makes it a contradiction, whose projection to a review is refused from `DECLINED`
  or `EXPIRED`, and everything is rolled back, against
  `docs/commerce/financial-core-phase-c2b1.md:29`; the test of it runs in the mode
  without projection. A second confirmed success on one transaction (Zarinpal's 101)
  is refused by the ownership trigger and retried until given up.
* After one `REVIEW_REQUIRED` row a later definitive unpaid answer cannot be applied
  on PostgreSQL (the guard of migration 0009), and a later success is not recognized,
  even when the review was resolved. There is one exception: an amount that could not
  be read (`malformed_observed_provider_money`) is superseded by a later success of the
  same operation (`verification_worker.py:89-106`), which is recognized and sold.
* A late recovery makes new reservations and resolves the inventory review, but the
  checkout stays canceled (`late_payment_adjudication.py:649`), so the finalizer
  refuses the graph.

Catalogue, fulfillment and revenue:

* A draft offer may be created on a version archived meanwhile; a price may be set
  to 0 while the pool is enabled; a game with an active offer may be canceled
  (`upcoming_games.py:161`) or hidden. A cart shows items as available whose terms
  changed although preparation refuses them (`customer_cart.py:72`).
* Two completions of the last two lines of an order, at once, do not see each other:
  the order is never marked delivered. An order may also be delivered while a
  released line's obligation is open (`fulfillment.py:830`), or before the release
  of another of its lines, which then aborts the whole release (migration 0033).
* A preordered line whose order is finalized after the release gets no obligation
  (`preorders.py:82`, against its docstring at `:68`).
* A preordered line has two components, which makes the normalization of its
  completion impossible (`satisfaction_evidence.py:79`); the review of an exhausted
  recognition claim is rolled back by the exception that follows it
  (`revenue_recognition.py:303-311`).

Shop, repairs, accounts:

* A schedule may be chosen after payment (`services/order.py:359-366`): two paid
  orders may share one slot. A slot an order chose may be reserved by a repair
  request and then serves both. Legacy sales ignore `StockReservation`s. A discount
  may be changed after the amount was frozen.
* A paid page may be settled FAILED: after a callback that is not OK the provider is
  not asked (`payments/providers.py:225-237`), every code but 100 and 101 is an unpaid
  answer (`:267-273`), and the callback endpoint, which authenticates nobody, replaces
  the stored status at any time (`payments/services.py:269-274`). The order may then be
  requested and paid again on another page, and a customer may pay on an old page after
  its transaction failed; nothing looks for that money. Since the view's transaction is
  around the call of the provider, a slow provider keeps the order (and, for a request,
  the product) locked, and the claim token keeps nobody out that the lock does not.
* `expire_checkouts` rechecks status and payments under the lock but not
  `expires_at` (`:38`, `:62-76`): it may end a draft that was just prolonged. A key
  reused after the end returns the ended checkout as "reused". Two rows of one
  product may appear in a cart, and add and update accept a quantity of 0.
* A repeated repair schedule request sets the status back to submitted without a
  history row. A tracking code is the maximum plus one, so of two creations at once
  one fails. An issue found unused may be deleted, with all that refers to it, while
  a request that names it is created.
* Profile updates save the whole user row, so one that started before a password
  recovery may overwrite it; the limit on favorites is checked with `> 5`.
