# Formal verification of python-getpaid-stripe

TLA+ models of the plugin in `src/src/getpaid_stripe/`, TLC configurations that
check them on small instances, and TLAPS proofs about every part that keeps or
converts money: refunds, payments, callback routing, currencies and the simulator.
Paths below without a prefix are relative to `src/src/getpaid_stripe/`.

## 1. The system

The plugin is a *stateless mapper* between Stripe and a `getpaid_core` payment.
It keeps nothing itself. Three parties hold state:

| Party | State | Changed by |
|---|---|---|
| Stripe (or the bundled simulator) | Checkout Sessions, PaymentIntents, refunds, reviews, the Event objects about them | the buyer, the Dashboard, banks, time, and the plugin's API calls |
| the payment | FSM status, `external_id`, `provider_data`, ids of applied events | core, applying the `PaymentUpdate`s and results the plugin returns; `cancel_refund()` directly |
| a call in progress | what `charge()`, `release_lock()` or `fetch_payment_status()` read before its next `await` | the event loop |

They interact through API calls (application → plugin → Stripe), through
webhooks (Stripe → adapter → plugin), which may be duplicated, delayed and
reordered, and by polling.

### Components

| Component | Operations | What makes it correct | Status |
|---|---|---|---|
| Refund lifecycle (`processor.py` 496-568, 726-791) | refund webhooks, `start_refund`, `cancel_refund` | a dead refund never acts on the payment again, a live or successful one is never shut out, no attempt stays open for good | modelled, proved |
| Checkout and money webhooks (305-494, 570-596) | session, intent and review events | the payment is told what happened to the money, in the amount it happened; the sole intent gets bound and stays bound | modelled, proved |
| Pre-authorization and polling (598-724) | `charge`, `release_lock`, `fetch_payment_status` | racing calls move the money once, in the amount asked for; a stale answer does no harm | modelled, proved |
| `prepare_transaction` (126-204) | open a checkout, or refuse the amount; save its id when Stripe has answered | a second checkout does not lose the first's outcomes, whatever arrives while it is being created | modelled, proved |
| Webhook routing (262-303) | `extract_callback_correlation` | an event reaches its own payment only, and does reach it | modelled, proved |
| Currency conversion (`currencies.py`) | `to_minor`, `from_minor` | round trip, rounding, forbidden fractions | modelled, proved |
| Simulator tables and payloads (`simulator/transitions.py`, `webhooks.py`) | status changes, payloads | stands for Stripe in the models | modelled |
| Simulator routes (`simulator/routes.py`) | the API, the hosted page, the ops endpoint | the money moves once, refunds keep their bound and their order | modelled, proved |
| Signatures (`verify_callback`, `simulator/signing.py`) | verify, sign | the Stripe SDK's cryptography | not modelled |
| Configuration, descriptor, registration (`__init__.py`, `types.py`, `simulator/plugin.py`) | static | no state | not modelled |
| `getpaid_core` (external) | dedup, merge, FSM | not in the repository | the part relied on |

### What is hard here

Stripe promises at-least-once, unordered delivery; two Event objects may report
one occurrence; a refund that succeeded may still fail; an API cancellation is
known to the plugin before its webhook; responses get lost; every `await` lets
other work in; a pull update has no event id; reviews and Dashboard refunds carry
no payment id; amounts cross between decimals and minor units. `PROJECT.json`
lists each such hazard at its line, with the properties that cover it.

## 2. The modules

| Module | Models |
|---|---|
| `GetpaidCore` | external: shallow merge of `provider_data`, event dedup, the refund states |
| `RefundMapping` | `_map_refund_event()`, and what `start_refund()` and `cancel_refund()` store, as operators |
| `RefundLifecycle` | one captured payment, its refunds at Stripe, their webhooks and the three operations |
| `RefundAttempt` | the abstract specification of what a payment promises about refunds |
| `RefundStaleMapping` | `RefundLifecycle` with mapping and applying as separate steps of many workers |
| `Currencies` | `currencies.py`: tables, rounding, conversion both ways |
| `CheckoutMapping` | correlation and the mappers of session, intent and review payloads, for webhooks and polls |
| `StripeCheckout` | the simulator's transition table, order record and payloads |
| `PaymentLifecycle` | one payment from `prepare_transaction()` to the money |
| `PaymentMoney` | the abstract specification of what a payment promises about money |
| `CallbackRouting` | several payments and foreign sales behind one webhook URL |
| `Simulator` | the simulator's routes on one order and its refunds, split at their awaits |
| `RefundLifecycleProofs`, `RefundStaleProofs`, `CurrenciesProofs`, `PaymentProofs`, `PaymentMoneyProofs`, `CallbackRoutingProofs`, `SimulatorProofs` | the theorems about the module of that name |
| `SumTheorems` | lemmas about the community modules' sum over a finite set, which the refund balance needs |

A definition suffixed after an underscore (`PatchKeys_KeepsFlag`) is a mutated
form of the definition below it: a plausible bug, which the run named in
`PROJECT.json` detects. No specification uses it.

### Refunds

`provider_data` is a function whose domain is the set of keys present:
`SlotKey` is `"refund_id"`, `LegacyKey` the original nested dictionary
(`refund_terminal_statuses`), `TerminalKey(r)` and `ConfirmationKey(r)` the
per-refund keys. `payment.status` is `REFUND_STARTED` while an attempt is open
and `PAID` in every other settled state.

| Action | Code |
|---|---|
| `StartRefund` | core's flow around `start_refund()` (726-760) |
| `CancelRefund`, `FlowCancelRefund` | `cancel_refund()` (762-791), used directly or through core's flow, which also applies `REFUND_CANCELLED` |
| `Callback` | `handle_callback()` → `_map_refund_event()` → apply → save |
| `StripeMoves`, `Create` | `REFUND_TRANSITIONS`, `create_refund` and `fail_refund` of the simulator |
| `ForeignRefund` | a refund from the Dashboard, or a `start_refund()` whose result was never saved |
| `StripeRepeats` | further Event objects for a status |

A refused cancellation (`return False`) and a `RefundFailure` change nothing and
are no step. A cancellation whose response is lost is `StripeMoves`. `Init` also
has payments upgraded from the nested dictionary.

Callbacks and operations are atomic because `README.md:134-139` of the
repository requires adapters to serialize load/map/apply/save and the
cancellation/retry lifecycle per payment. `RefundStaleMapping` drops exactly
that for callbacks and for `start_refund()`: `MapCallback` and
`BeginStartRefund` leave an update behind, `ApplyMapped` applies it later, and up
to `MaxMapped` updates wait at once; webhooks about a refund may thus arrive
before the response of the call that created it is applied. The cancellation
operations stay atomic.

`RefundAttempt` has three variables: the dead refunds, the current one, and
whether an attempt is open. `RefundLifecycle` implements it with dead =
recorded, current = the slot, open = `REFUND_STARTED`. A step of the abstract
specification can only be taken for a refund that is not dead, save for
confirming the current one's cancellation: so late events cannot reopen or
resolve anything.

### Currencies

A `Decimal` is its number of ten-thousandths of a major unit, one place more than
any currency has, so that every rounding tie occurs. `ToMinor` and `FromMinor`
follow the code's branches; `ForbidsFraction` is the `ValueError` of a currency
without usable minor units. `PLN`, `JPY`, `KWD` and `ISK` stand for the four rows
of the tables.

### Payments

`prepare_transaction()` is two steps, because it awaits Stripe in between
(processor.py:191): `Prepare` checks that the payment is unpaid and creates the
session, `SavePrepared` saves the session's id in `external_id`, over whatever was
applied meanwhile. `preparing` holds the checkouts between the two. A lost answer
or a crash is a `SavePrepared` that never happens; no fairness makes it happen. The
buyer acts on a checkout only after its `SavePrepared`, since the page's URL is
part of the result; sessions may expire before.

An order of the simulator carries a Session and its PaymentIntent. The buyer's
four outcomes, session expiry, delayed settlement and failure, capture,
cancellation and reviews follow the routes; an event carries the payload
rendered at that moment. `charge()` and `release_lock()` are a retrieve
(`StartCharge`, `StartRelease`) followed by `FinishCharge`/`FinishRelease` (with
the response received or lost) or `FailCall`; between the two anything may
happen. A poll is up to three steps: the session, the intent, and the
application applying the answer. `payment.applied` is the set of updates
applied: core's FSM is not in the repository, so the properties speak of what
the payment is told, not of the state core makes of it. `charged` holds, per
successful `charge()`, the amount asked for (`None` for all) and the one told;
`released` what `release_lock()` told.

`FinishCharge` requires the intent to be capturable *then*, as Stripe does:
that the plugin's own check came earlier is the race under study.

`PaymentMoney` knows neither statuses nor events nor calls: per checkout, a set of
facts (locked, captured, released, with amounts) that happened, one that the
payment knows, and one that callers were told. `PaymentLifecycle` implements it
with `Happened` read off the order and the authorization's event, `Known` off
the updates applied, `Told` off what calls reported. A fact can be known only
after it happened, a caller can be told only by the step that makes it happen,
and capture and release exclude each other: a stale poll or a late webhook may
repeat the truth but never invent any.

### Routing

`Resolve` is the adapter: it finds the payments that the handles of
`extract_callback_correlation()` name. `Callback` gives an event to *any* payment,
named or not, because an adapter may also have one URL per payment, and the
processor judges for itself (`_is_correlated()`); one that rejects the event
raises, and Stripe tries again. `ForeignCheckout` sells without evidence on the
same account, `DashboardRefund` and `Review` name only an intent. `HandleEvent`
extends `handle_callback()` of `CheckoutMapping` by the refund branch. `Prepare` and
`SavePrepared` are split as above.

### The simulator

`BeginCapture`/`BeginCancel` check the order and stop at `await _form()`;
`FinishCapture`/`FinishCancel` go on with the order as it was read, write the
amounts, and only then ask the state machine (`UpdateThenTransition`): refused,
the amounts stay. The hosted page, the ops endpoint and the refund routes read
and write without an await in between (the payload is parsed first, webhooks are
rendered before they are sent). `outcomes` and `told` are the events emitted, in
order. `storage` belongs to `getpaid_simulator`, which is not in the repository;
`get_order()` is taken to return a copy, as the handlers suppose that re-read the
order after every update.

## 3. What the runs check

| Run | Instance | Distinct states | Question and answer |
|---|---|---|---|
| `RefundLifecycle` | 2 refunds, refund 1 possibly a legacy record, 1 repeated event | 125 k | `TypeOK`, `TerminalRecordIsTrue`, `OpenAttemptNotStuck`, `CancelledOnce`, `NoOutcomeLost`, `IInv`, refinement of `RefundAttempt`, `DeadAttemptCloses`, `OutcomesReachPayment`: hold |
| `RefundStaleMapping` | 2 refunds, 1 repeated event, 2 updates in flight | 1.23 M | records stay true and are never forgotten: hold |
| `RefundReopened` | 2 refunds | - | after a partial refund, which leaves the payment refundable, a late `pending` event reopens a settled attempt for good |
| `RefundSlot` | 2 refunds | - | the slot goes back from a newer refund to an older one |
| `PaymentCalls` | 1 checkout, 2 callers, KWD 0.0250 and a part of 0.0160, 2 attempts to pay, a review | 705 k | `AppliedMoneyIsTrue`, `OneCallMovesTheMoney`, `ChargedAsAsked`, `NoOutcomeLost` although responses are, `SoleIntentStaysBound`, refinement of `PaymentMoney`: hold |
| `PaymentRetry` | 2 checkouts, no callers | 146 k | `NoOutcomeLost`, `OutcomesReachPayment`, `PaidPaymentGetsBound`: hold |
| `PaymentChargeOnce` | 1 checkout, 1 caller | - | a poll and the webhook each report the capture of one charge |
| `PaymentReview` | 1 checkout, a review | - | a review delivered before the promotion is lost |
| `PaymentRepointed` | 2 checkouts | - | a late `payment_failed` or `completed` of the abandoned checkout takes `external_id` from the paid intent |
| `CallbackRouting` | 2 payments, 2 checkouts of either, both or neither | 95 k | `OnlyOwnEvents`, `RoutingAgrees`, `NoSaleLost`, `DeliveryReachesPayment`, `EventsReachTheirPayment`: hold |
| `Simulator` | amount 3, 3 requests, 2 refunds, all ops actions | 133 k | `OneMoneyOutcome`, `RefundsWithinAuthorization`, `RefundEventsLegal`: hold |
| `SimulatorCapture` | amount 2, 2 captures, 2 refunds, no ops actions | - | a refused capture overwrites the received amount, and refunds exceed what was captured |

The last column of the six violation runs is a disagreement between a document
and the code, listed under `findings` with the quotation.

**Why the bounds are enough.** Every refund property relates at most two refunds
(an older and a newer one: slot, retry, stale mapping), and one repeated
event allows two distinct Event objects in one status, the least that dedup by id
misses. Two
updates in flight are the smallest overlap; a third waits behind one of them.
The race of money calls needs two callers and an amount that can be captured in
part: 0.0250 KWD is a tie that rounds up to 30 minor units, 0.0160 rounds up to
20, so both conversions lose and gain something. Two attempts to pay give a
failure followed by a success within one checkout; two checkouts give an
abandoned one. Routing needs two payments to confuse, and two checkouts so that
each payment has one, one payment has both, or one is foreign. Three requests
make two captures and a cancel overlap; amount 3 lets two refunds share a part.
The theorems remove these bounds for the safety properties. `CHECK_DEADLOCK
FALSE` is set in every run: a payment whose checkouts and refunds are finished,
with nothing left to deliver, may really stop.

**Fairness.** `FairSpec` assumes one thing: Stripe retries a delivery until the
endpoint answers, so an event never delivered eventually is. In `CallbackRouting`
that means an event is handed to a payment its handles name, or ignored when they
name none. Redeliveries, the buyer, banks, polls and all calls may never happen.
Delivered-but-ignored counts as delivered, which is why the mapper's ignoring
guard matters for liveness.

**Payments prepared twice.** `NoOutcomeLost` and `OutcomesReachPayment` hold for any
number of checkouts, because a payment's own events carry its id as metadata. The
binding does not. `PaymentRepointed` shows one way to lose it: a late event of the
abandoned checkout takes it. The other is the await in `prepare_transaction()`: a
first checkout's `succeeded` applied while the second session is being created binds
the intent, and the save of the second session's id then overwrites it, although the
payment is paid. Every run with two checkouts has both. Therefore
`SoleIntentStaysBound`, `PaidPaymentGetsBound` and the third part of
`EventsReachTheirPayment`, which depend on the binding, speak only of payments with
one checkout; money operations on others may act on an abandoned intent or be
refused, and a review or a Dashboard refund may find nobody. Also, a late
`checkout.session.expired` of the abandoned checkout reports FAILED after the
capture; what that does is decided by core's FSM, so no property claims it.

## 4. What is proved

The theorems hold for every value of the constants that satisfies the named
`ASSUME`s: bounds are naturals, ids (refunds, checkouts) are numbers, the currency
is one of the tables', and what stands for Python's `None` is no id, no event, no
update and no refund record.

| Theorem | Statement |
|---|---|
| `RefundLifecycleProofs` `TypeCorrect`, `RecordsAreTrue`, `NeverStuck`, `AtMostOneCancellation`, `OutcomesNeverLost`, `InductiveInvariant` | `Spec => []` of `TypeOK`, `TerminalRecordIsTrue`, `OpenAttemptNotStuck`, `CancelledOnce`, `NoOutcomeLost`, `IInv` |
| … `Implements` | `Spec => ImplementsRefundAttempt` |
| `RefundStaleProofs` `StaleTypeCorrect`, `StaleRecordsAreTrue`, `StaleRecordsKept` | the records are true and kept without serialization, whatever `MaxMapped` |
| `PaymentProofs` `PaymentTypeCorrect`, `AppliedMoneyIsAlwaysTrue`, `OneCallAlwaysMovesTheMoney`, `AlwaysChargedAsAsked`, `PaymentOutcomesNeverLost` | `Spec => []` of `TypeOK`, `AppliedMoneyIsTrue`, `OneCallMovesTheMoney`, `ChargedAsAsked`, `NoOutcomeLost` |
| … `SoleIntentAlwaysStaysBound` | `Spec => []SoleIntentStaysBound` |
| `PaymentMoneyProofs` `ImplementsMoney` | `Spec => ImplementsPaymentMoney` |
| `CallbackRoutingProofs` `RoutingTypeCorrect`, `OnlyEverOwnEvents`, `RoutingAlwaysAgrees`, `SalesNeverLost` | `Spec => []` of `TypeOK`, `OnlyOwnEvents`, `RoutingAgrees`, `NoSaleLost` |
| … `DeliveryAlwaysReachesPayment` | `Spec => DeliveryReachesPayment` |
| `SimulatorProofs` `SimulatorTypeCorrect`, `MoneyMovesOnce`, `RefundsStayWithinAuthorization`, `RefundsLiveLegally` | `Spec => []` of `TypeOK`, `OneMoneyOutcome`, `RefundsWithinAuthorization`, `RefundEventsLegal` |
| `CurrenciesProofs` `RoundTrip`, `NearestChargeable`, `Monotone`, `PartsAddUp` | about `ToMinor` and `FromMinor` of any amount |

**Refunds.** None of the safety invariants is inductive alone. `IInv` adds
three facts: an event about a dead refund tells the status the refund has
(`EventsAreTrue`, as dead refunds stay dead), only a recorded refund is flagged
(`FlaggedIsRecorded`), and a refund whose failure was applied is recorded and no
longer flagged (`AppliedIsRecorded`). The last one gives `CancelledOnce`: a
second Event object of the same failure is neither new to the record nor a
pending confirmation. `OpenAttemptNotStuck` needs it too, for a cancellation
after which the first webhook has closed the attempt. Each action has its own
lemma; the shape of a `provider_data` after a merge is stated once. `Implements`
uses `IInv` to map every step to a step of `RefundAttempt` or a stutter.

**Stale mapping.** `StaleInv` keeps what survives without serialization: events
and records are true, and so is every update in flight (`MappedIsTrue`: what it
would write about a refund is what that refund's status is, now and later). That
an update never carries the legacy dictionary is what makes a stale merge
harmless.

**Payments.** `PInv` has three parts. `StripeInv`: every event tells the truth
about its order (`EventTells`), which lasts because a settled order never changes
again. `PluginInv`: so does every applied update, the answer of a poll under way
and what each call remembers. `ReportInv`: what calls reported is the order's
outcome. A retrieved authorization is capturable for `Total` or not at all, so a
capture that Stripe accepts is of the amount asked; `NearestChargeable` and
`RoundTrip` carry it through the two conversions. `PaymentMoneyProofs` adds
`MInv`: Stripe announced a lock for exactly the orders that had one, no update
tells of a lock that was not announced, and a release under way is of a manual
order. Each action is then a step of `PaymentMoney` or a stutter.

**Binding.** `SoleIntentAlwaysStaysBound` rests on `BoundInv`, which is about payments
with one checkout. Until `prepare_transaction()` has returned, the buyer has not seen
the page, so no event or poll mentions the intent and the save overwrites nothing
(`FreshOrder`, `FreshLocal`). Afterwards (`SoleBound`) the payment is bound to the
session until an event that names the intent is delivered and to the intent from
then on: every update that has an external id names this intent, as there is no other.

**Routing.** `RInv` says what each order's events look like (`EventsOK`: which
ids and evidence each kind carries) and that a payment is bound only to its own
checkout. Acceptance by metadata is then right by the owner, acceptance by
binding by the binding; equality of `Resolve` and `_is_correlated()` follows
payload by payload. `PreparingOK` adds that only orders that exist, and have an owner,
are being prepared, so a save binds a payment to a checkout of its own.

**Simulator.** `MoneyInv`: an order whose status says that money moved announced
just that, once; the amounts an action writes before its transition never touch
the status. `RefundInv`: every refund's history starts in flight, each entry a
legal successor of the one before, and ends with the stored status.

`BalanceInv`: no amount of an order, of a request under way or of a refund exceeds
what was authorized; finitely many refunds are live; and their total is at most
what was authorized. A new refund is measured against the amount received, which
never exceeds the authorized one.

**Sums.** The lemmas of `SumTheorems` are arithmetic, about the community modules and
not about the plugin; `RefundsStayWithinAuthorization` is what they serve. The total of the live refunds is a fold, and folds are defined by
recursion over sets. `SumTheorems` proves what the balance needs of it for every
finite set: it is a natural number, depends only on the values on the set, and
changes by a term when an element comes or goes. The prover cannot instantiate an
induction theorem with a predicate, so the induction is done by hand: of the
subsets for which a fact fails there is a minimal one under strict inclusion
(`WFMin`), and taking an element out of it contradicts its minimality.

**Nothing is lost.** `NoOutcomeLost` and `NoSaleLost` are the safety half of the
liveness properties: an outcome is either known to the payment or its event is
still to be delivered, so with fair delivery it is known in the end. They say more
than liveness, for they hold in every state, without fairness. Each needs three
facts together. What Stripe did was announced (`Announced`: an order or a refund
has a status that matters only with the event that says so). The event is heeded
(`Carries`, `Heeded`: it names its payment whatever that is bound to, and so is
correlated; or, of a refund, it is ignored only if the outcome is recorded).
And what was delivered was applied (`Heeds`), which core's dedup keeps,
because only a delivered event's id is known to it. Nothing in the
argument depends on `external_id`: metadata correlates the events, however often the
payment was prepared and whatever `SavePrepared` overwrites. `DeliveryReachesPayment` is about the one step that ends
Stripe's retries: as routing and acceptance agree, and evidence and bindings both
lead to the owner, the payment that the adapter picked is the one concerned.

**Only model-checked:** liveness (outside the prover's reach) and the violation
runs. Every safety property of a passing run is a theorem.

## 5. Abstractions

- Amounts are minor units, or ten-thousandths where a `Decimal` is converted;
  `RefundLifecycle` has no amounts, `Simulator` has the refunds'. URLs, product
  names, wording and logging are left out.
- `session_id`, `payment_status`, `locked_at` and `cancellation_reason` are
  written and never read by the plugin, so updates omit them.
- `PaymentLifecycle` and `RefundLifecycle` use the simulator's routes as atomic
  steps of Stripe, with the simulator's transitions; `Simulator` has the awaits.
- In `CallbackRouting` a checkout has at most one refund or review, captured
  automatically, and a refund is confirmed at once: its life is `RefundLifecycle`'s.
- The application asks for another checkout only while the payment knows of no
  authorization and no capture. It may do so while events of earlier checkouts
  arrive, and while earlier `prepare_transaction()` calls still wait for Stripe. That
  the result is saved before the buyer is redirected is how the adapters and
  `tests/test_simulator_scenarios.py:97-102` use it.
- Refunds move as in the simulator's `REFUND_TRANSITIONS`. `docs/research/stripe-refunds.md`
  lists a few more edges out of `requires_action` and `pending`; the refund
  properties need only that failed and canceled refunds stay so.

### Not modelled

- **Signatures** (`verify_callback`, `simulator/signing.py`): a stateless check by
  the Stripe SDK that accepts or raises. Whether it accepts depends on a hash
  and the clock; nothing else in the plugin does. The models start at a verified
  event.
- **Configuration, descriptor, types, registration** (`__init__.py`, `types.py`,
  `simulator/plugin.py`, `simulator/__init__.py`): static declarations and wiring,
  no state and no behaviour.
- **`getpaid_core`'s FSM**, the framework adapters and `getpaid_simulator`'s
  storage and transport are outside the repository. Hazards that depend on them
  (a second `REFUND_CONFIRMED`, FAILED after a capture, an adapter's lock held
  across a call whose webhook the simulator delivers inside it) are listed in
  `PROJECT.json` with that reason.

## 6. Plan

Done: refunds, their abstract specification and proofs; the unserialized variant
and its proofs; checkouts, calls and polls, `PaymentMoney`, the split of `prepare_transaction()`, and their proofs;
currencies; routing; the simulator's routes.

Left, should it be wanted: an adapter's lock together with the simulator's in-call
delivery, once the adapter's timeout is known; core's FSM, once it is part of the
checked code, to decide what a late FAILED or a second confirmation does.
