-------------------------- MODULE PaymentLifecycle --------------------------
(***************************************************************************)
(* One payment under all the flows that write its row: the initial flow    *)
(* from the moment the row exists, provider lookups, webhook deliveries    *)
(* and stored operations.  What each flow does beside the row is the       *)
(* subject of its own module; here they meet, and a provider keeps the     *)
(* status the payment really has.  One provider at most has the payment:   *)
(* the initial flow fails over here as long as no candidate has served it  *)
(* (that two may is the subject of InitialFlow).                           *)
(*                                                                         *)
(* A flow works on an object it read.  With a database that object is the  *)
(* flow's own copy; the in-memory store hands out the stored object        *)
(* itself, so what a flow assigns is stored at once and seen by all.       *)
(***************************************************************************)
EXTENDS Payments

CONSTANTS
  thePayment,
  Lookups, Deliveries, Operations,  \* HTTP requests, by what they ask for
  OperationOf,     \* the type of each stored operation
  Stores,          \* of "database" and "memory", the stores considered
  NoAnswer, NoCopy, NoLocals

VARIABLES
  store,    \* the store the process was started with
  truth,    \* the payment's status at the provider
  asked,    \* the provider the initial flow asked last; no other has the payment
  pc,       \* await at which the flow is suspended, or how it ended
  local     \* local variables of the flow and two observations, see Locals

vars == <<payments, store, truth, asked, pc, local>>
atProvider == <<truth, asked>>

Initial == "initial"
Flows == {Initial} \cup Lookups \cup Deliveries \cup Operations

ASSUME FlowsAssumption ==
  /\ thePayment \in PaymentIds
  /\ Stores \subseteq {"database", "memory"}
  /\ OperationOf \in [Operations -> {"CAPTURE", "REFUND", "VOID"}]
  /\ Lookups \cap (Deliveries \cup Operations \cup {Initial}) = {}
  /\ Initial \notin Deliveries \cup Operations
  /\ Deliveries \cap Operations = {}

Row == payments[thePayment]

\* fresh: no other flow changed the row since this one read it.
\* steady, of a lookup: it is not answered by another provider than the one that
\* has the payment, whose status has not changed either.
Locals ==
  [copy   : PaymentRow \cup {NoCopy},          \* local variable `payment`
   answer : PaymentStatuses \cup {NoAnswer},   \* the provider's status, answered or notified
   fresh  : BOOLEAN,
   steady : BOOLEAN]

ASSUME MarkersAssumption ==
  /\ NoLocals \notin Locals
  /\ NoPayment \notin PaymentRow
  /\ NoReference \notin References
  /\ NoAnswer \notin PaymentStatuses

-----------------------------------------------------------------------------
(* Objects and rows                                                        *)

Ended == {"ok", "error", "rejected", "noReference", "crashed"}
InFlight(f) == pc[f] \notin Ended \cup {"new"}

\* The object flow f holds in its local variable.
Object(f) == IF store = "memory" THEN Row ELSE local[f].copy

\* A step of f: it goes on at l with locals `mine`, and the row is now `row`;
\* what the other flows read before is then outdated.
Step(f, l, mine, row) ==
  /\ pc' = [pc EXCEPT ![f] = l]
  /\ UpdateRow(thePayment, row)
  /\ local' = [g \in Flows |->
       IF g = f THEN (IF l \in Ended THEN NoLocals ELSE mine)
       ELSE IF local[g] = NoLocals \/ row = Row THEN local[g]
       ELSE [local[g] EXCEPT !.fresh = FALSE]]
  /\ UNCHANGED store

Goto(f, l) == Step(f, l, local[f], Row)

\* f assigns to its object and goes on at l.
Assign(f, l, row) ==
  IF store = "memory" THEN Step(f, l, local[f], row)
  ELSE Step(f, l, [local[f] EXCEPT !.copy = row], Row)

\* The in-memory store never fails a call.
StoreOutcomes == IF store = "memory" THEN {"acknowledged"} ELSE DbOutcomes

\* What f holds once findById has answered, and it has assigned `row` to it.
Holding(row, a) ==
  [copy |-> IF store = "memory" THEN NoCopy ELSE row, answer |-> a,
   fresh |-> TRUE, steady |-> TRUE]

WithStatus(row, status) ==
  [status |-> status, provider |-> row.provider, providerReference |-> row.providerReference]
WithReference(row, ref) ==
  [status |-> row.status, provider |-> row.provider, providerReference |-> ref]
WithProvider(row, p) ==
  [status |-> row.status, provider |-> p, providerReference |-> row.providerReference]

-----------------------------------------------------------------------------
(* The flows, await by await                                               *)

\* Mutant: the reference is not looked at.
BeginWithoutReference(f) ==
  /\ f \in Lookups \cup Operations /\ pc[f] = "new"
  /\ Step(f, "await", Holding(Row, NoAnswer), Row)
  /\ UNCHANGED atProvider

\* lookupProviderStatus and executeStoredOperation read the row and need its
\* provider reference; the operation's own row is StoredOperations' subject.
Begin(f) ==
  /\ f \in Lookups \cup Operations /\ pc[f] = "new"
  /\ Step(f, IF Row.providerReference = NoReference THEN "noReference" ELSE "await",
          Holding(Row, NoAnswer), Row)
  /\ UNCHANGED atProvider

\* No credential, no such adapter method, a transport error, a timeout; to the
\* initial flow it matters whether the error is a retryable one.
CallRejects(f) ==
  /\ pc[f] = "await"
  /\ \E l \in IF f \in Lookups THEN {"error"}
             ELSE IF f = Initial THEN {"catchLog", "catchTransient"} ELSE {"catchLog"} :
       Goto(f, l)
  /\ UNCHANGED atProvider

\* executeInitialFlow: the answer's status must be a transition, even from
\* the same status.
ReceiveAnswer(f) ==
  /\ f = Initial /\ pc[f] = "await" /\ local[f].answer # NoAnswer
  /\ LET a == local[f].answer IN
     IF TransitionAllowed(Object(f).status, a)
     THEN \E ref \in References :
            Assign(f, "update", WithReference(WithStatus(Object(f), a), ref))
     ELSE Goto(f, "catchLog")
  /\ UNCHANGED atProvider

\* Mutant: a lookup's status is taken over without asking the table.
ReceiveLookupUnchecked(l) ==
  /\ l \in Lookups /\ pc[l] = "await" /\ local[l].answer # NoAnswer
  /\ Assign(l, "update", WithStatus(Object(l), local[l].answer))
  /\ UNCHANGED atProvider

\* Mutant: a reference the answer does not carry is taken over as well.
ReceiveLookupWithoutReference(l) ==
  /\ l \in Lookups /\ pc[l] = "await" /\ local[l].answer # NoAnswer
  /\ Assign(l, "update", WithReference(Object(l), NoReference))
  /\ UNCHANGED atProvider

\* Mutant: the status of the answer is forgotten.
ReceiveLookupKeepingStatus(l) ==
  /\ l \in Lookups /\ pc[l] = "await" /\ local[l].answer # NoAnswer
  /\ Goto(l, "update") /\ UNCHANGED atProvider

\* lookupProviderStatus takes over the reference, then the status if it differs
\* and the table allows it; otherwise it throws, and nothing is saved.
ReceiveLookup(l) ==
  /\ l \in Lookups /\ pc[l] = "await" /\ local[l].answer # NoAnswer
  /\ \E ref \in References :
       LET referenced == WithReference(Object(l), ref)
           current    == Object(l).status
           a          == local[l].answer
       IN
       IF a = current \/ TransitionAllowed(current, a)
       THEN Assign(l, "update", WithStatus(referenced, a))
       ELSE Assign(l, "rejected", referenced)
  /\ UNCHANGED atProvider

\* applyOperationResult: a refusal keeps the status.
ReceiveResult(x) ==
  /\ x \in Operations /\ pc[x] = "await" /\ local[x].answer # NoAnswer
  /\ \E ref \in References :
       LET referenced == WithReference(Object(x), ref)
           a          == local[x].answer
       IN
       IF a = "FAILED" THEN Assign(x, "update", referenced)
       ELSE IF TransitionAllowed(Object(x).status, a)
       THEN Assign(x, "update", WithStatus(referenced, a))
       ELSE Assign(x, "catchLog", referenced)
  /\ UNCHANGED atProvider

\* handleWebhook has found the payment: status and reference are taken over,
\* whatever the table says.
HandleEvent(d) ==
  /\ pc[d] = "received"
  /\ \E ref \in References \cup {Row.providerReference} :
       LET row == WithReference(WithStatus(Row, local[d].answer), ref) IN
       Step(d, "update", Holding(row, local[d].answer), IF store = "memory" THEN row ELSE Row)
  /\ UNCHANGED atProvider

\* Where an error thrown by the update or by the log row leads.
Catch(f) == IF f \in {Initial} \cup Operations THEN "catchLog" ELSE "error"

\* paymentRepository.update(payment); in memory it stores what is stored.
UpdatePayment(f) ==
  /\ pc[f] = "update"
  /\ \E o \in StoreOutcomes :
       Step(f, IF Raised(o) THEN Catch(f) ELSE "log", local[f],
            IF Executed(o) THEN Object(f) ELSE Row)
  /\ UNCHANGED atProvider

CreateLog(f) ==
  /\ pc[f] = "log"
  /\ \E o \in StoreOutcomes : Goto(f, IF Raised(o) THEN Catch(f) ELSE "ok")
  /\ UNCHANGED atProvider

\* The catch blocks log the error; only the initial flow then touches the row,
\* if there is no next candidate or the error is final.
CatchLog(f) ==
  /\ pc[f] \in {"catchLog", "catchTransient"}
  /\ \E o \in StoreOutcomes :
       Goto(f, IF Raised(o) \/ f # Initial THEN "error" ELSE "markFailed")
  /\ UNCHANGED atProvider

\* The error is logged and the next candidate asked at once: its credential came
\* with the route.  The object is of its provider from here on, the stored row
\* only when the answer is stored.  Once a candidate has served the payment it is
\* the last one here.
FailOver(f) ==
  /\ f = Initial /\ pc[f] = "catchTransient" /\ truth = "none"
  /\ \E p \in Providers :
       Assign(f, "await", WithProvider(Object(f), p)) /\ asked' = p
  /\ UNCHANGED truth

MarkPaymentFailed(f) ==
  /\ pc[f] = "markFailed"
  /\ \E o \in StoreOutcomes :
       Step(f, "error", NoLocals,
            IF TransitionAllowed(Object(f).status, "FAILED") /\ Executed(o)
            THEN WithStatus(Object(f), "FAILED") ELSE Row)
  /\ UNCHANGED atProvider

Resume(f) ==
  \/ CallRejects(f) \/ ReceiveAnswer(f) \/ ReceiveLookup(f) \/ ReceiveResult(f)
  \/ HandleEvent(f) \/ UpdatePayment(f) \/ CreateLog(f) \/ CatchLog(f)
  \/ FailOver(f) \/ MarkPaymentFailed(f)

-----------------------------------------------------------------------------
(* The provider, and the end of the process                                *)

\* How a payment goes on at the provider without us, and by an operation.
OwnMoves == [none |-> {}, PENDING |-> {"AUTHORIZED", "CAPTURED", "FAILED"},
             PENDING_3DS |-> {"AUTHORIZED", "CAPTURED", "FAILED"},
             AUTHORIZED |-> {"CAPTURED", "VOIDED"}, CAPTURED |-> {}, FAILED |-> {},
             REFUNDED |-> {}, VOIDED |-> {}]
OperationMoves == [CAPTURE |-> <<"AUTHORIZED", "CAPTURED">>, REFUND |-> <<"CAPTURED", "REFUNDED">>,
                   VOID |-> <<"AUTHORIZED", "VOIDED">>]

\* The provider's status becomes s; those of F that still wait are answered a.
Serve(F, s, a) ==
  /\ truth' = s
  /\ local' = [g \in Flows |->
       IF local[g] = NoLocals THEN NoLocals
       ELSE [local[g] EXCEPT !.answer = IF g \in F /\ pc[g] = "await" THEN a ELSE @,
                             !.steady = @ /\ (s = truth \/ g \notin Lookups)]]
  /\ UNCHANGED <<payments, store, asked, pc>>

\* The payment or authorize request is served, in time or after the timeout.  The
\* adapters map what they do not know to UNKNOWN; a card payment that goes to a
\* challenge is PENDING_3DS in Peach's answer although it is pending there.
ServeInitial ==
  /\ truth = "none"
  /\ \E s \in {"PENDING", "PENDING_3DS", "AUTHORIZED", "CAPTURED", "FAILED"} :
       \E a \in {s, "UNKNOWN"} \cup (IF s = "PENDING" THEN {"PENDING_3DS"} ELSE {}) :
         Serve({Initial}, s, a)

\* The provider named in the row, or in the lookup's copy of it, is asked.
ServeLookup(l) ==
  /\ truth # "none"
  /\ l \in Lookups /\ pc[l] = "await" /\ local[l].answer = NoAnswer
  /\ Object(l).provider = asked
  /\ \E a \in {truth, "UNKNOWN"} : Serve({l}, truth, a)

\* Another provider than the one that has the payment: it knows of none, which is
\* mapped to a failure (PayU: no transactionState) or to UNKNOWN.
ServeLookupElsewhere(l) ==
  /\ l \in Lookups /\ pc[l] = "await" /\ local[l].answer = NoAnswer
  /\ Object(l).provider # asked
  /\ \E a \in {"FAILED", "UNKNOWN"} :
       local' = [local EXCEPT ![l].answer = a, ![l].steady = FALSE]
  /\ UNCHANGED <<payments, store, truth, asked, pc>>

\* An operation is executed and answered, perhaps as pending or in words the
\* adapter does not know, or it is refused.
ServeOperation(x) ==
  LET move == OperationMoves[OperationOf[x]] IN
  /\ x \in Operations /\ pc[x] = "await" /\ local[x].answer = NoAnswer
  /\ \/ /\ truth = move[1] /\ Object(x).provider = asked
        /\ \E a \in {move[2], "PENDING", "UNKNOWN"} : Serve({x}, move[2], a)
     \/ Serve({x}, truth, "FAILED")

ProviderMoves == \E s \in OwnMoves[truth] : Serve({}, s, NoAnswer)

\* A callback reports the status of now; it is handled at any time after.
Notify(d) ==
  /\ d \in Deliveries /\ pc[d] = "new" /\ truth # "none"
  /\ Step(d, "received", [Holding(Row, truth) EXCEPT !.copy = NoCopy], Row)
  /\ UNCHANGED atProvider

\* The process dies; the in-memory store would die with it.
Crash ==
  /\ store = "database"
  /\ \E f \in Flows : InFlight(f)
  /\ pc' = [f \in Flows |-> IF InFlight(f) THEN "crashed" ELSE pc[f]]
  /\ local' = [f \in Flows |-> NoLocals]
  /\ UNCHANGED <<payments, store, truth, asked>>

-----------------------------------------------------------------------------

\* The initial flow has created the row and sent the provider request.
CreatedRows == [status : {"CREATED"}, provider : Providers, providerReference : {NoReference}]

Init ==
  /\ store \in Stores
  /\ payments \in [PaymentIds -> CreatedRows]
  /\ truth = "none"
  /\ asked = Row.provider
  /\ pc = [f \in Flows |-> IF f = Initial THEN "await" ELSE "new"]
  /\ local = [f \in Flows |-> IF f = Initial THEN Holding(Row, NoAnswer) ELSE NoLocals]

Next ==
  \/ \E f \in Flows : \/ Begin(f) \/ Resume(f)
                      \/ ServeLookup(f) \/ ServeLookupElsewhere(f) \/ ServeOperation(f)
                      \/ Notify(f)
  \/ ServeInitial \/ ProviderMoves \/ Crash

Spec == Init /\ [][Next]_vars

-----------------------------------------------------------------------------
(* Properties                                                              *)

\* Every variable has its type; a flow has locals while it is in flight, and in
\* the in-memory store there are no copies.
TypeOK ==
  /\ PaymentsTypeOK
  /\ store \in {"database", "memory"}
  /\ truth \in DOMAIN OwnMoves /\ asked \in Providers
  /\ pc \in [Flows -> Ended \cup {"new", "await", "received", "update", "log",
                                  "catchLog", "catchTransient", "markFailed"}]
  /\ local \in [Flows -> Locals \cup {NoLocals}]
  /\ \A f \in Flows : local[f] # NoLocals <=> InFlight(f)
  /\ store = "memory" => \A f \in Flows : InFlight(f) => local[f].copy = NoCopy

Acts(f) == pc'[f] # pc[f] /\ pc'[f] # "crashed"

\* f holds what is stored: its copy is not outdated, or it is the stored object.
UpToDate(f) == store = "memory" \/ (InFlight(f) => local[f].fresh)

\* The transition table is enforced on objects in memory, not by the database:
\* a payment leaves it only where handleWebhook assigns the status regardless,
\* or where a flow saves a copy that another flow has outdated meanwhile.
TableLeftByCallbackOrStaleCopy ==
  [][\A f \in Flows \ Deliveries : Acts(f) /\ UpToDate(f) =>
       LET p == thePayment IN
       \/ payments'[p].status = payments[p].status
       \/ TransitionAllowed(payments[p].status, payments'[p].status)]_vars

\* A lookup during which nothing else happened, neither to the row nor at the
\* provider, and which asked the provider that has the payment, leaves the two in
\* agreement, unless the answer was not understood or the table does not lead
\* from one status to the other.
UndisturbedLookupReconciles ==
  [][\A l \in Lookups : InFlight(l) /\ local[l].fresh /\ local[l].steady =>
       /\ pc'[l] = "ok" =>
            payments'[thePayment].status \in {truth, "UNKNOWN"}
       /\ pc'[l] = "rejected" =>
            \/ local[l].answer = "UNKNOWN"
            \/ ~TransitionAllowed(payments[thePayment].status, truth)]_vars

\* A payment that has a provider reference, without which it can neither be
\* looked up nor captured, loses it only in a database and to an outdated copy
\* made before there was one: of the initial flow, failing, or of a callback.
ReferenceLostToStaleCopyOnly ==
  [][payments[thePayment].providerReference # NoReference
     /\ payments'[thePayment].providerReference = NoReference
     => /\ store = "database"
        /\ \E f \in {Initial} \cup Deliveries : Acts(f) /\ ~UpToDate(f)]_vars

\* A payment left without a reference when its initial flow is over (crashed,
\* timed out) is out of reach for lookups and operations that begin then: it
\* moves on by a callback, or by a copy saved late.
LeftBehindRevivedByCallback ==
  [][pc[Initial] \in Ended /\ Row.providerReference = NoReference
     => \/ payments' = payments
        \/ \E f \in Flows : Acts(f) /\ (f \in Deliveries \/ ~UpToDate(f))]_vars

\* "Invalid transitions MUST be rejected" (.github/copilot-instructions.md:43): what
\* the initial flow and lookups store, they store along the table.
StoredStatusFollowsTable ==
  [][\A f \in {Initial} \cup Lookups : Acts(f) =>
       LET p == thePayment IN
       \/ payments'[p].status = payments[p].status
       \/ TransitionAllowed(payments[p].status, payments'[p].status)]_vars

=============================================================================
