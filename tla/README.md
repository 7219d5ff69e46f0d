# Verification of the gateway orchestrator

TLA+ models of the payment orchestrator in this repository, the TLC runs that
check them, and TLAPS proofs about its core. The models follow the code; paths
below are relative to the repository, and unless another file is named, line
numbers are those of `src/services/payment.service.ts`. `PROJECT.json` maps every definition
to the lines it stands for.

## 1. The system

The service takes HTTP requests, calls one of several payment providers
(PayU, Peach, PayFlex, PayFast, Stitch), stores payments, operations, logs and
webhook events in MySQL (or in memory), and receives the providers' callbacks.
It is one Node process: there is no thread parallelism, but every `await` is a
point where other requests run, the database may answer with an error, and the
process may die. There are no transactions across statements. What
protects one request from another are the unique keys of three tables, and
nothing else.

| Component | State | Operations | Interacts with | What is hard | What makes it correct |
|---|---|---|---|---|---|
| Stored operations (`executeStoredOperation`, 565-706) | `payment_operations`, `payment_logs`, the payment row | capture, refund, void | provider adapter, payments table, all flows writing the same row | two requests under one key; a crash or an error between statements; an acknowledgement that is lost; a timeout while the provider works; a copy of the payment carried across the provider call | one provider call per key; SUCCEEDED only what the provider did; replays of the same request only; settled rows are in the log; a failed operation stays failed; each request is answered |
| Initial flow (`executeInitialFlow`, 81-228) | the payment row, `payment_logs` | payment, authorize | routing, adapters in order, webhooks on the same row | creation race, failover after an ambiguous failure, log failures after a success, webhooks overtaking the answer | one request per key reaches providers; failover only after a recorded retryable failure; success told is success stored; status changes follow the table |
| Webhook reconciliation (`handleWebhook`, 349-514) | `webhook_events`, the payment row, `payment_logs` | one delivery | the payments table, redeliveries of the same event | duplicates at the same time, reprocessing of FAILED records, out-of-order notifications, a failing last statement | one first processing per dedupe key; SUCCEEDED records are backed by the log; what was answered stays recorded |
| Provider lookup (`lookupProviderStatus`, 305-347) | the payment row, `payment_logs` | lookup | the provider, the other flows | a copy carried across the lookup; the provider's status moving meanwhile | row and provider agree after a lookup nothing interfered with |
| Payment status machine (`src/domain/payment.entity.ts`) | - | `ensureTransition` | every flow | judged on copies | a payment leaves the table only where the code does not consult it, or on an outdated copy |
| HTTP client (`src/infrastructure/http.client.ts`) | attempt counter, requests on the wire | `requestWithRetry` | adapters | a timeout does not cancel; late answers | bounded attempts, retries after transient errors only, no answer of a request given up, the promise settles |
| Repositories (`src/infrastructure/repositories`) | tables, collections or maps | create, find, update | all flows | whole-row updates, unique keys (MySQL and Mongo), objects handed out instead of copies (in memory) | uniqueness, no reference lost |
| Routing and onboarding (`routing.service.ts`, `onboarding.service.ts`) | merchants, credentials, rules | resolve candidates; register merchants and providers, upsert rules | initial flow | configuration changed between the queries of one resolution; two registrations at once | no rule that stood is missed, candidates ordered and of the merchant; one document per identifier |
| Request schema (`src/utils/validators.ts`) | - | `createPaymentSchema` | adapters, which check again | two lists of demands that drift apart | what the schema lets through no adapter refuses |
| Adapters (`src/providers/*`) | PayFlex token cache, Peach map of transaction ids | payment, capture, ..., handleWebhook | HTTP client, webhook flow | a token near its expiry, answers overtaking each other; two status maps for one provider | a cached token outlives its call; a final status is the outcome |
| Clients, migrations, bootstrap (`src/infrastructure/db`, `bootstrap`, `server.ts`) | indexes, merchant, credentials, database, tables, `schema_migrations` | start of a server | other servers starting at once | a death after any statement, no lock | a mark means the tables are there; one default merchant; a listening server has what it relies on; every server gets there |
| Polling helper (`src/utils/payment-polling.ts`) | attempts, elapsed time | delay, decision | lookups | the limits, callbacks beside polls | it stops for the right reason and learns the outcome |
| HTTP surface (routes, controllers, middleware) | - | translate requests and errors | the services | - | - |

The `hazards` list of `PROJECT.json` places what is hard to test at its line and names
the property that covers it, or says why there is none.

## 2. Plan

In order of importance; all of it is done but the last entry.

1. `Payments`: table, status machine, outcomes of a statement. Shared by all flows.
2. `StoredOperations`, with the abstract `OperationLedger` it implements, and
   `StoredOperationsProofs`. Money moves here, so it comes first.
3. `InitialFlow`: creation, failover, failure handling, with the abstract `KeyedPayment` it
   implements, and `InitialFlowProofs`.
4. `Webhooks`: deduplication and reconciliation, and `WebhooksProofs`.
5. `HttpRetry`: the loop under every adapter call.
6. `PaymentLifecycle`: the four flows together on one row, over a database or over
   the in-memory store, with the provider's own status of the payment; and
   `PaymentLifecycleProofs`.
7. `PaymentRequests` and `Routing`: schema, adapters' demands, onboarding and
   `resolveCandidates` in one module, and `RoutingProofs`.
8. `Startup`: bootstrap and migrations of several servers, with the abstract `Migrator` the
   migrations implement, and `StartupProofs`.
9. `PayFlexTokens`: the token cache over time, and `HttpProofs`, about it and `HttpRetry`.
10. `StatusMaps` and `Polling`: what providers' words come to, and the page that polls; and
    `PollingProofs`.
11. Left: the in-memory operations and webhook events, which have no unique keys, and
    the Peach map of transaction ids across restarts as state of its own (`Polling`
    has its effect: a notification whose reference finds no payment).

## 3. How the modules correspond to the code

**One action is the code between two awaits.** `pc[r]` names the await at which
request `r` is suspended; an action's guard starts with it and ends at the next one.
Local variables that live across an await are state (`copy`, `local`, `record`,
`existing`, `index`, `lastError`), so a stale copy is stale in the model too.

**A statement has three outcomes** (`DbOutcomes`): executed and acknowledged, rejected,
or executed with the acknowledgement lost. The last two raise an error in the caller.
`INSERT` is executed only if its unique key is free. `UPDATE` writes every column and
does nothing if the row is not there, as in `mysql.repositories.ts`.

**The provider is part of the environment.** A call that was sent may be served at
any time, awaited or not: `ProviderCallRejects` stands for the timeout, the transport
error and the adapter's own exception, after which the provider can still act.

**A crash** ends every request in flight; tables, providers and the requests still
to come stay. A client that repeats its request is another request with the same
input. `ForeignWrite` stands for other flows that write the same payment row.

| Module | Models | State | Actions |
|---|---|---|---|
| `Payments` | `enums.ts`, `payment.entity.ts`, the payments table | `payments` | `UpdateRow`, used by the flows |
| `StoredOperations` | capture, refund, void | tables `payments`, `operations`, `logs`; per request `pc`, `input`, `copy` (the payment read at 574), `local` (`operation.state`), `call` and `answer` (at the provider), `outcome` | `FindPayment` (574), `FindOperation` (584), `CreateOperation` (642), `InvokeProvider` (644-651), `ApplyOperationResult` (652, 524-563), `UpdatePayment` (655), `CreateLog` (657), `UpdateOperation` (668-680), `CatchLog` (684), `CatchUpdate` (701), `ProviderCallRejects`, `ProviderServes`, `Crash`, `ForeignWrite` |
| `OperationLedger` | what a key promises, without requests, copies and logs | `ledger`, `invoked` | `Begin`, `Invoke`, `Succeed`, `Fail` |
| `InitialFlow` | payment, authorize | as above, with `route`, `index` and per candidate `call`, `answer` | `FindExisting` (86), `ResolveCandidates` (105), `CreatePayment` (125), `Attempt` (139-148), `ReceiveAnswer` (150-154), `UpdatePayment` (155), `CreateLog` (157), `CatchLog` (187-216), `MarkPaymentFailed` (74-79), and the environment |
| `KeyedPayment` | what a key promises of payment and authorize, without statements, copies and answers | `owner`, `asked`, `phase` | `Open`, `Ask`, `Succeed`, `End` |
| `Webhooks` | `handleWebhook` and its records | `webhookEvents` by dedupe key, `logs`; per delivery `pc`, `input`, `existing`, `record`, `copy`, `outcome` | `Receive`, `FindRecord` (379), `ReopenRecord` (390-403), `CreateRecord` (359, 405), `FailInvalid`, `SettleUnprocessed` (415-445), `FindPayment` (432), `UpdatePayment` (464), `CreateLog` (466), `Succeed` (493-497), `CatchUpdate` (504-511), and the environment |
| `HttpRetry` | `requestWithRetry`, `withTimeout` | `limit`, `attempt`, `pc`, `wire`, `errors`, `result` | `Send`, `NeverTried`, `Answered`, `TimesOut`, `NetworkFails`, `ServerAnswers` |

Data is cut down to what decides: a payment row is its status, provider and
provider reference; a request body is a value its hash tells apart; an answer is a
status and a reference; a callback payload is what the adapter makes of it and whether
its signature holds. Hashes are injective. Amounts, headers, wording and metrics are left out.

Some variables only observe, for the properties, and guard nothing: `foreign` in
`InitialFlow` (the rows another flow has written), `fresh` and `steady` in
`PaymentLifecycle`, `disturbed` in `Routing`, `misled` and `seen` in `Polling`,
`result` in `PayFlexTokens`.

The modules beside the flows:

| Module | Models | State | Actions |
|---|---|---|---|
| `PaymentLifecycle` | `lookupProviderStatus` (305-347), and the other flows from where they meet the row | `payments`, `store`, `truth` and `asked` (the status at the provider, and which provider that is), per flow `pc` and `local` (the object read, the answer) | `Begin`, `CallRejects`, `ReceiveAnswer` (150-155), `ReceiveLookup` (323-333), `ReceiveResult` (524-563), `HandleEvent` (448-463), `UpdatePayment`, `CreateLog`, `CatchLog`, `FailOver` (145, 204-214), `MarkPaymentFailed`; provider: `ServeInitial`, `ServeLookup`, `ServeLookupElsewhere`, `ServeOperation`, `ProviderMoves`, `Notify`; `Crash` |
| `PaymentRequests` | `createPaymentSchema` in `validators.ts`, and the checks in the PayU and PayFlex adapters | - (a body is a record of what is looked at) | operators `Valid`, `SetTransactionAccepts`, `DoTransactionAccepts`, `PayuAccepts`, `Accepts` |
| `Routing` | `onboarding.service.ts`, `routing.service.ts`, the collections behind them | `merchants`, `credentials`, `rules`; per request `input`, `pc`, `left`, `candidates`, `answer` | `Receive`, `FindMerchant`, `CreateMerchant`, `UpsertCredential`, `FindRuleMerchant`, `UpsertRule`, `FindRouted`, `ListRules`, `GetCredential`, `Explicit` |
| `Startup` | `server.ts` `start()`, `mongo-config.bootstrap.ts`, `mysql.client.ts` | `indexed`, `merchants`, `credentials`, `database`, `tables`, `marks`; per server `uses`, `pc`, `next` | one per statement: `EnsureIndexes`, `FindMerchant`, `CreateMerchant`, `RegisterProvider`, `CreateDatabase`, `SelectMigration`, `ApplyMigration`, `MarkMigration`; `Start`, `Crash`, `Restart` |
| `Migrator` | what `runMigrations` promises, without servers and deaths | `version`, `tables` | `Create`, `Advance` |
| `PayFlexTokens` | `payflex.auth.ts` and the calls that carry the token | `now`, `cache`; per call `phase`, `attempt`, `since`, `answered`, `token` | `Begin` (cache hit or request), `Issue`, `ReceiveToken`, `AttemptFails`, `Resend`, `Serve`, `Tick` |
| `StatusMaps` | `payu.get-transaction.ts`, `payu.webhook.ts`, `payu.do-transaction.ts`, `peach.status.ts`, `payflex.mapper.ts` and their use | - | operators, one per map |
| `Polling` | `payment-polling.ts`, with a lookup in two steps and a delivery in one | `payments`, the transaction's `kind`, `state`, `notices`; the page's `attempt`, `clock`, `client`, `told` | `Ask`, `ReceiveAnswer`, `ReceiveFault`, `CallRejects`; `ProviderMoves`, `Deliver`, `Lose` |

* *The object or a copy.* In MySQL a flow works on a copy of the row, which its
  `update` writes back whole. The in-memory store hands out the stored object:
  assigning to it is storing. `PaymentLifecycle` has both (`store`, `Object`, `Assign`);
  the same code behaves differently in the two, e.g. a rejected lookup leaves the new
  reference in memory and nothing in MySQL. Crashes are those of the database variant.
* *Chains of conditions.* The status maps of the adapters test one condition after the
  other. A TLA+ `CASE` does not: where two of its arms hold, either may be meant. Chains
  whose conditions overlap are therefore written as `IF ... ELSE IF`, the others as `CASE` with disjoint arms.
* *Failover on the shared row.* In `PaymentLifecycle` the initial flow fails over as long as
  no candidate has served the payment, so that one provider at most has it; that two may
  is the subject of `MCInitialFlowFailover.cfg`. The stored row names the first candidate until
  an answer is stored, and a lookup asks whom the row names (`ServeLookupElsewhere`).
* *Orders of the store.* Rules of equal priority may be listed in any order
  (`ByPriority`), as nothing else orders them.
* *Time.* `PayFlexTokens` and `Polling` count in units; no timer is passed by
  (`Tick`), and answers may come at any moment before it.
* *A server that dies.* In `Startup`, MySQL executes a migration file statement by
  statement, so a death leaves any prefix of its tables; `CREATE TABLE IF NOT
  EXISTS` makes the repetition harmless.

## 4. The runs

| Run | Configuration | Question and result |
|---|---|---|
| `operation_keys` | 2 requests, capture or refund, 2 refund bodies, 1 header key or none, 1 payment | All safety properties of the operations hold: one call per key, replays of the same request, SUCCEEDED only after the provider acted, log before settlement, reported outcome kept, FAILED final, a call only for an own STARTED row. |
| `operation_ledger` | 3 requests for one capture, fair | The operations implement `OperationLedger`, and each request ends. |
| `http_retry` | limits 0 to 4, fair | Attempts stay within the limit, retries follow transient errors, results belong to the last attempt, the promise settles. |
| `initial_flow` | 2 requests, 1 key, 2 bodies, routes of 1 or 2 providers, fair | One request per key reaches a provider; replays, failover, stored success and status changes are right; the flow implements `KeyedPayment`; each request ends. |
| `webhooks` | 2 deliveries of 5 shapes, verified or not, fair | Deduplication, audit trail and recorded outcome hold; each delivery ends. |
| `lifecycle` | initial flow with two providers, lookup, callback and capture on one payment, both stores | The table is left only by a callback or on an outdated copy; an undisturbed lookup reconciles; only an outdated copy takes the reference away; a payment left behind moves on by a callback or a late copy only. |
| `startup` | 2 servers, each using MySQL, Mongo, both or neither, 3 migrations, 2 faults, fair | Marks follow tables, the migrations implement `Migrator`, one default merchant, a listening server is ready, and every server comes to listen. |
| `configuration` | 1 payment beside 2 writers over a few dozen stores, and every mix of a body's parts | Candidates are ordered, miss no rule that stood and name none twice; registrations agree; no adapter refuses what the schema let through. |
| `payflex_tokens` | 2 calls, 2 lifetimes, 3 attempts, the least margin allowed | A cached token outlives its call; overtaken answers cost the cache one timeout. |
| `status_polling` | 3 providers, every start they leave, defaults of the helper, 2 notifications at once | The duration, not the attempts, ends a polling; a final status is the provider's outcome; a page that polls after the settlement learns it. |
| `operation_lost_update` | capture and void at once | **Violated.** A refused void writes AUTHORIZED back over CAPTURED although the code says the current status is preserved. |
| `webhooks_skipped` | 2 deliveries | **Violated.** Without a response hash the key is the provider reference: the second notification of an order is dropped as a duplicate of the first, which may be STARTED still. |

`operation_keys` and `initial_flow` list no type invariant: there types are left to the theorems
`TypeCorrect`.

The violated runs each check one statement quoted in `findings`; a reader may take
them as questions to the authors. The other properties hold.

Six more configurations are kept for reading a behaviour step by step. TLC reports each
violated. The statements of five are those of `.github/copilot-instructions.md`, by line,
so that each is a divergence of the code from its rules, like the two violated runs; the
sixth asks for more than the documentation promises.

| Configuration, module | Property, and what it is taken from | What TLC shows |
|---|---|---|
| `MCPaymentLifecycleOvertaken.cfg`, `MCPaymentLifecycle` | `StoredStatusFollowsTable`; "Invalid transitions MUST be rejected" (43) | The initial flow, timed out, marks its copy of CREATED failed over the CAPTURED a callback stored meanwhile; a lookup can do the like with the status it was answered. |
| `MCInitialFlowFailover.cfg`, `MCInitialFlow` | `AtMostOneProviderAccepts`; "Prevent duplicate processing at all costs" (57) | After a timeout the next provider is asked, and both accept the payment. |
| `MCInitialFlowCaptured.cfg`, `MCInitialFlow` | `CapturedPaymentIsStored`; "INITIATED → PAYMENT → CAPTURED" (48) | CREATED to CAPTURED is not in the table, so the answer of PayFast and Stitch to a payment request is an error and the payment FAILED. |
| `MCWebhooksOverride.cfg`, `MCWebhooks` | `WebhookMovesForward`; "Invalid transitions MUST be rejected" (43) | The callback's status is stored although `ensureTransition` threw. |
| `MCWebhooksReprocessed.cfg`, `MCWebhooks` | `ProcessedOnce`; "Idempotent processing" (141) | Two redeliveries find the same FAILED record; the later one reopens it after the earlier was answered. |
| `MCOperationsStuck.cfg`, `MCStoredOperations` | `EveryOperationSettles`; no statement of the documentation | A row whose creator died, or threw outside the `try`, is STARTED for ever: there is no outcome to replay. |

### Bounds, and why they are enough

* *Requests and deliveries.* The hazards are races of two actors for one row or key:
  two are the smallest number that has them. A third stands for the client that comes
  back after a crash while two others race (`operation_ledger`), or the second
  redelivery after a failure (`MCWebhooksReprocessed.cfg`). The proofs remove the bound.
* *Keys, bodies, payments.* Requests under different keys share only the payment row,
  and `ForeignWrite` already writes that row at any time. One key and two bodies
  give both reuse of a key and repetition of a request.
* *Candidates.* Two: the loop has a first, a next and a last candidate. Longer lists
  repeat the middle case; the proofs cover any length.
* *References and statuses.* One reference; all statuses adapters answer. Foreign
  writers are given statuses that move the row ahead of, or away from, the copy.
* *Flows on one row.* One of each kind in `lifecycle`: any two that meet there are
  of two kinds, or repeat what one does; the proofs cover any number. Two providers, the
  one that has the payment and another.
* *Configuration.* One payment and two writers: a rule and the credential it needs
  can change under one resolution. Stores differ in merchant, credentials and two rules
  with and without a filter, ties in priority included; `MaxFaults` is 1.
* *Servers.* Two, which can race for every statement; two faults let one server die
  twice or both once; the migrations have two tables, none and one.
* *Time.* In `payflex_tokens` a timeout and a backoff are 1, so that the least margin is 6,
  and the clock stops at 11, past the life of the longer token; the defaults of the code
  are larger multiples. In `status_polling` seconds are seconds, a poll takes 0 or 10,
  and the polling itself ends at its 180 s.
* *HTTP limits.* 0 (the loop never runs), 1 (no retry) and up to 4 (several late answers).
* *Symmetry* is used on requests, deliveries or providers in runs without liveness only.
* *View.* `lifecycle` visits states once that differ only in how a flow ended or in an
  answer it has taken over (`RelevantState`): no action reads them again, and the properties
  look at them in the step that sets them.
* *Deadlock.* The checks are off: every request ends, every server listens, and the
  service waits for what comes next, which the bounded sets do not provide.

### Fairness

`WF_vars(Resume(r))` for each request: an await of a live process ends. For the
database this is the driver, which resolves or rejects; for providers it is the HTTP
client's timeout, and the simulated adapters answer at once. It is checked in
`http_retry` from a weaker assumption: the loop's own timers
fire, the server may never answer (`WF_vars(Loop)`, without `ServerAnswers`).
`startup` assumes `WF_vars(Resume(s))`, by which statements of a live
server end, and `WF_vars(Restart(s))`: `start()` exits the process when it
fails, which leaves it to a supervisor to start it again (the compose file names no restart policy
for `app`, so that one has to be added). With `MaxFaults` statements failing or
servers dying, `EventuallyAllListen` then says that no leftover of an earlier start keeps a later one out.
No fairness is assumed of providers, of the arrival of requests, of crashes or of other
writers, and none of a particular outcome of a statement.

## 5. The proofs

`StoredOperationsProofs` proves, for any sets of requests, payments, bodies and keys:
type correctness, at most one invocation, SUCCEEDED and settled rows backed by provider and log,
replays of the same request only, reported outcomes stored, FAILED final, invocation only for an own STARTED row, and
that `StoredOperations` implements `OperationLedger`.

The only assumptions are those named in the modules: requested types and foreign
statuses exist, and the markers for "no row" and "no answer" are not rows or answers.

**The argument.** None of the properties is inductive alone: that only one request
calls the provider does not say why a second cannot. `IInv` adds

* `OwnsRow`: a request past its `INSERT` owns the row of its slot, and the row stays
  STARTED, in the table and in the object, until the request settles it itself. This is the
  unique key at work: a row is never deleted and its creator never changes.
* `CallProgress`: before `invoke` there is no call; an answer is there exactly
  if the provider acted or refused; the log rows a settlement needs are written before it.
* `RowOrigin`: every row was made by a request for that slot with that hash.

Two requests that invoked the provider under one slot both own its row, so they are one
request. Each action has a lemma of its own (`FindPaymentStep`, ...); `StoreStep` is
shared by the two that write the operation row. What clients were told needs
`OutcomeStored` in addition: an answered request changes nothing any more, and its
row is settled by nobody else. The refinement maps a row to its state, and the calls to
the set of invoked slots; every step is one ledger step on one slot, or none.

`InitialFlowProofs` proves, for any sets of requests, keys, bodies and candidate lists:
type correctness, `OneRequestReachesProviders`, `ReplayIsOfSameRequest`,
`FailoverIsAudited`, `SuccessIsStored` and the action property `FlowMovesForward`. Its
assumptions are that candidate lists are non-empty lists of providers of bounded length, that
foreign statuses exist, and that the markers are not rows or answers. Its `IInv` has

* `UniqueKey`, which only `CreatePayment` can disturb, and `OwnsRow`: whoever calls a
  provider has a row. Two callers under one key have two rows under it, so they are one.
* `InTurn`: no candidate after the current one was called, and those before it have their
  retryable failure in the log. That the current one has not been called yet
  while the request is at `attempt` is what makes it inductive.
* `CopyProgress` and `RowFollows`: what the copy says at each await, and that the row,
  as long as no other flow wrote it, is as created or as the copy says. A
  retryable failure therefore always finds the copy CREATED, which is why failover
  never judges an answer by a status another provider gave.

The part of `IInv` about one request is `Local`. `StepOfOne` reduces a step to the
request that takes it: `OthersStay` carries `Local` over to all the others, `KeysStay`
and `ReplaysStay` carry the two statements about several requests.

`Refinement` proves that `InitialFlow` implements `KeyedPayment`. The owner of a key is the
request whose row is stored under it (`OwnerOfKey`), what was asked are the calls of
requests with that key, and the phase follows from what became of the owner. Every step
is one step of `KeyedPayment` on one key or a stutter (`QuietStep`), except a crash, which
ends all open payments at once (`CrashEnds`). Two facts carry it: whoever is past its
`INSERT` owns its key (`AskerIsOwner`), and whoever is not has no row, which is the part
of `OwnsRow` the refinement added to the invariant: without it a request
could fail before its `INSERT` and seem to end a payment.

`HttpProofs` proves of `HttpRetry`, for any retry limit, that attempts stay within it, retries
follow transient errors only, and the promise settles by the last attempt. The invariant
relates the attempt counter to the attempts on the wire (`Progress`) and to the
errors seen (`FailuresKept`).

`WebhooksProofs` proves `OneFirstProcessing`, `SucceededIsAudited` and
`ProcessedIsStored` for any deliveries, notifications and payments.

* `Local` is what a delivery relies on at each await: that its row exists
  and is about its notification, that its log is written before `succeed`. It
  survives the steps of others because rows of `webhook_events` are never deleted and
  a delivery's variables are its own.
* `OneFirst`: of the deliveries under one key, one at most has created the row. Only
  `CreateRecord` could disturb it, and the unique key stops it there.
* Assumed: the notifications' events are well-formed, and the markers for "no record",
  "no event", "no hash" are not values (`NotificationsAssumption`, `MarkersAssumption`).

`PaymentLifecycleProofs` proves the four action properties of `lifecycle` for any number
of lookups, callbacks and operations, in either store.

* `Knows` relates the object a flow holds to the row, as long as no other flow has
  changed the row: the object's status is a move of the table ahead at most, and it
  lacks a reference only if the row does. `LookupKnows` adds, for lookups, the
  provider's status.
* `Sound` is what a step must see to, stated of the row it leaves. One lemma
  shows that sound steps keep the invariant (whoever changes the row outdates
  the copies of the others), one per action that it is sound; the theorems then follow
  from soundness alone.
* Assumed: the kinds of requests are disjoint (`FlowsAssumption`), the markers are
  not values (`MarkersAssumption`).

`RoutingProofs` proves `OneMerchant`, `RoutedByStandingRules` and `SchemaGuardsAdapters`
for any requests, merchants, providers, rules and credentials.

* `Covers` is the heart: of the rules that stand throughout, each is a candidate already or
  still in the list before the loop. `StandingShrinks` shows that no rule begins to
  stand during a resolution: whatever is written counts as disturbed. A step
  of the loop moves the head of the list or drops it, and drops it only if its credential is not
  there, so it did not stand (`ListingAdvances`).
* That every order of the store names every filtered rule (`ByPriorityIsComplete`) is an
  argument on cardinalities: an injection of 1..n into a set of n elements is onto.
* `Sorted` keeps the candidates in the order of their priorities and distinct (`Before`): the
  loop never meets a rule twice, because the list before it names each rule once.
* `RoutedListsAreRoutes` is what `InitialFlow` takes for granted of a routing answer
  (`RoutesAssumption`): a list of providers, not empty, and no longer than there are
  rules, since a list without repetition is an injection into them. The two modules
  meet there.
* `ValidIsAccepted` compares the schema with the adapters, for any body.
* Assumed (`CasesAssumption`): earlier requests left one document per identifier and
  complete rules, and a body that names a provider names one of the enumeration (`validators.ts:70`).

`StartupProofs` proves `MarkedIsApplied`, `OneDefaultMerchant` and `ListeningIsReady` for
any number of servers, environments, migrations and faults. `Grows` says that nothing is
ever undone, so what a server saw done before an await (`Progress`) is still done after
it; the unique index is there before the first merchant, because every server creates the
indexes before it inserts. Assumed (`StartupAssumption`): seeds and migrations are sequences.
`Refinement` proves that the migrations of all servers together are those of one `Migrator`
that is never stopped. Marks have no gaps (`MarksArePrefix`), so their number is the version.
A server that applies a file without a mark applies the next one (`UnmarkedIsNext`), and one that
is late, because another server has marked the file meanwhile, finds every table there
(`ApplyCreates`); only the first mark of a migration is a step (`MarkAdvances`).

`HttpProofs` proves of `PayFlexTokens` `TokenOutlivesItsCall` and `OvertakenByTimeoutAtMost` for any
number of calls and any numbers that satisfy `MarginAssumption`: a timeout and a whole call
with its retries fit into the 60 s of `payflex.auth.ts`. The defaults do (`config/env.ts:45-46`:
10 s and 3 attempts); with a longer `REQUEST_TIMEOUT_MS` or more `MAX_RETRY_ATTEMPTS` the
assumption, and with it the property, is gone, and nothing in the code checks that.
`Budget` is the invariant: what is left of a call fits into what is left of its token.

`PollingProofs` proves `AttemptLimitIsSlack`, `FinalIsOutcome` and `SettlementIsSeen` for any
durations of requests, any number of notifications under way and any polling settings for
which `PaceAssumption` holds; the defaults of `payment-polling.ts` do, and TLC evaluates it
of them. Its `IInv` has

* `Paced`: the clock is never behind `Earliest(attempt)`, the time at which the page can
  have polled that often when every request is answered at once. The assumption says that this time
  passes the duration before the attempts are used up.
* `NoticesPast`: a notification of a final word is about the word the transaction ended
  with, however late it is delivered.
* `Sound`: a status that ends the polling, stored, read into a copy or told to the page, is the
  provider's verdict, unless a notification without an outcome misled the flow (`misled`).
  The three must be told apart, as each passes through the one before.
* `Learned`: an answer that came after the settlement ended the polling with the verdict.

Below it are lemmas on `StatusMaps`, by provider: `LookupTells` and `NoticeTells` say that a
word is mapped to a final status only when it is final itself, and then to its verdict, for every
kind of transaction. The one exception is a notification of 3DS_PENDING without an outcome,
which is why `misled` is there.

TLC checks the properties on the instances above; each invariant was checked in the same way
before it was proved.

Only model-checked: liveness (`EveryRequestEnds`, `EveryDeliveryEnds`, `CallSettles`,
`EventuallyAllListen`), which rests on fairness and `ENABLED`, both out of this prover's
reach. Every invariant and every other action property or refinement of the passing runs is a theorem.

## 6. Not modelled

* Operations and webhook events of the in-memory store, which have no unique keys: two
  requests under one key both create there. The store is for development; the modules
  of those flows take the unique keys of MySQL.
* The reads (`getPayment`, `listTransactions`, `listTransactionLogs`, `listWebhookEvents`),
  which change nothing, and the conversion of columns. Two tests (`payment.service.test.ts:516`
  and `569`) expect the first two to ask the provider; at this commit they do not.
* SOAP, XML, JSON and form assembly in the adapters, and signatures: conversions of data.
  What counts of an answer is the status it maps to, and those maps are modelled.
* A PayFlex token that is revoked before its time stays in the cache until it expires, and
  each call in between is refused; the model's server keeps to the lifetimes it names.
* The Mongo connection promise, which stays rejected once it is: in `Startup` a
  server whose connection fails exits, as `start()` does.
* The remaining HTTP surface (routes, other controllers), most of `env.ts` and the
  registry of providers: static wiring. Logging and metrics: no influence on payments.
* Two processes on one database run as two requests of one process would, except that a crash
  ends only one of them; the models of the flows let a crash end all requests in flight.
