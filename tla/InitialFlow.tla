----------------------------- MODULE InitialFlow -----------------------------
(***************************************************************************)
(* PaymentService.executeInitialFlow: payment and authorize.               *)
(*                                                                         *)
(* A request creates the payment row under its idempotency key and tries   *)
(* the routed providers in order.  One action is the code between two      *)
(* awaits.  Every request draws its own payment id (randomUUID), so        *)
(* requests are named by the id of the payment they would create.          *)
(***************************************************************************)
EXTENDS Payments, Sequences, Naturals

CONSTANTS
  Keys,             \* idempotency keys, within their merchant
  Bodies,           \* what hashInitialRequest hashes
  Routes,           \* candidate lists RoutingService may resolve to
  MaxCandidates,    \* bound on the length of a candidate list
  NoInput, NoCopy, NoAnswer,
  ForeignStatuses   \* statuses other flows may write into a payment row

Requests == PaymentIds

ASSUME RoutesAssumption ==
  /\ MaxCandidates \in Nat
  /\ \A candidates \in Routes : candidates \in Seq(Providers) /\ Len(candidates) \in 1..MaxCandidates
  /\ ForeignStatuses \subseteq PaymentStatuses

\* The markers for "nothing there" are none of the values they stand in for.
ASSUME MarkersAssumption ==
  /\ NoPayment \notin PaymentRow
  /\ NoAnswer \notin [status : PaymentStatuses, providerReference : References]

VARIABLES
  logs,     \* payment_logs: <<request, candidate index, how the attempt ended>>
  pc,       \* await at which the request is suspended
  input,    \* the request's key and body
  route,    \* local variable `candidates`
  index,    \* local variable `index`, from 1
  copy,     \* local variable `payment`
  call,     \* per candidate, what became of the call at the provider
  answer,   \* per candidate, the provider's answer
  error,    \* is `lastError` retryable
  outcome,  \* how the HTTP request was answered
  foreign   \* history: payment rows other flows have written

vars == <<payments, logs, pc, input, route, index, copy, call, answer, error,
          outcome, foreign>>

-----------------------------------------------------------------------------

Inputs == [key : Keys, body : Bodies]
Candidates == 1..MaxCandidates

\* The row stored under a key: (merchant_identifier, idempotency_key) is unique.
StoredUnder(key) == {q \in Requests : payments[q] # NoPayment /\ input[q].key = key}

\* Statuses the adapters' payment and authorize answer with.
AnswerStatuses == {"AUTHORIZED", "CAPTURED", "PENDING", "PENDING_3DS", "UNKNOWN", "FAILED"}
Answers == [status : AnswerStatuses, providerReference : References]

Finish(r, o) == /\ pc' = [pc EXCEPT ![r] = "done"]
                /\ outcome' = [outcome EXCEPT ![r] = o]
Goto(r, l)   == /\ pc' = [pc EXCEPT ![r] = l]
                /\ UNCHANGED outcome

CreatedRow(provider) ==
  [status |-> "CREATED", provider |-> provider, providerReference |-> NoReference]
WithProvider(row, provider) ==
  [status |-> row.status, provider |-> provider, providerReference |-> row.providerReference]
WithStatus(row, status) ==
  [status |-> status, provider |-> row.provider, providerReference |-> row.providerReference]

\* An error thrown inside the try block that is no HttpRequestError.
ThrowFinal(r) == Goto(r, "catchLog") /\ error' = [error EXCEPT ![r] = "final"]

-----------------------------------------------------------------------------
(* The method, await by await                                              *)

\* Mutant: a known key is answered without comparing the requests.
FindExistingAnyBody(r, i) ==
  /\ pc[r] = "new"
  /\ input' = [input EXCEPT ![r] = i]
  /\ \/ StoredUnder(i.key) = {} /\ Goto(r, "resolve")
     \/ StoredUnder(i.key) # {} /\ Finish(r, "replayed")
     \/ Finish(r, "error")
  /\ UNCHANGED <<payments, logs, route, index, copy, call, answer, error, foreign>>

\* The request arrives; its key may be known, of the same request or another.
FindExisting(r, i) ==
  LET existing == StoredUnder(i.key) IN
  /\ pc[r] = "new"
  /\ input' = [input EXCEPT ![r] = i]
  /\ \/ existing = {} /\ Goto(r, "resolve")
     \/ \E q \in existing : input[q].body # i.body /\ Finish(r, "conflict")
     \/ \E q \in existing : input[q].body = i.body /\ Finish(r, "replayed")
     \/ Finish(r, "error")                                 \* database error
  /\ UNCHANGED <<payments, logs, route, index, copy, call, answer, error, foreign>>

\* RoutingService.resolveCandidates: a non-empty list, or it throws.
ResolveCandidates(r) ==
  /\ pc[r] = "resolve"
  /\ \/ \E candidates \in Routes :
          /\ route' = [route EXCEPT ![r] = candidates]
          /\ copy' = [copy EXCEPT ![r] = CreatedRow(candidates[1])]
          /\ Goto(r, "create")
     \/ Finish(r, "error") /\ UNCHANGED <<route, copy>>
  /\ UNCHANGED <<payments, logs, input, index, call, answer, error, foreign>>

\* Mutant: INSERT IGNORE, the request goes on without a row of its own.
CreateIgnoringDuplicate(r) ==
  /\ pc[r] = "create"
  /\ payments' = IF StoredUnder(input[r].key) = {}
                 THEN [payments EXCEPT ![r] = copy[r]] ELSE payments
  /\ Goto(r, "attempt") /\ index' = [index EXCEPT ![r] = 1]
  /\ UNCHANGED <<logs, input, route, copy, call, answer, error, foreign>>

CreatePayment(r) ==
  /\ pc[r] = "create"
  /\ \E o \in DbOutcomes :
       /\ Executed(o) => StoredUnder(input[r].key) = {}
       /\ payments' = IF Executed(o) THEN [payments EXCEPT ![r] = copy[r]] ELSE payments
       /\ IF Raised(o) THEN Finish(r, "error") /\ UNCHANGED index
          ELSE Goto(r, "attempt") /\ index' = [index EXCEPT ![r] = 1]
  /\ UNCHANGED <<logs, input, route, copy, call, answer, error, foreign>>

\* Credential lookup and provider resolution may throw, outside the try block.
\* Then the adapter sends its request, or throws before that: a configuration
\* error, or an HttpRequestError of a preliminary call (an access token).
Attempt(r) ==
  /\ pc[r] = "attempt"
  /\ \/ Finish(r, "error") /\ UNCHANGED <<copy, call, error>>
     \/ /\ copy' = [copy EXCEPT ![r] = WithProvider(@, route[r][index[r]])]
        /\ \/ /\ call' = [call EXCEPT ![r] = [@ EXCEPT ![index[r]] = "sent"]]
              /\ Goto(r, "await") /\ UNCHANGED error
           \/ /\ \E e \in {"retryable", "final"} : error' = [error EXCEPT ![r] = e]
              /\ Goto(r, "catchLog") /\ UNCHANGED call
  /\ UNCHANGED <<payments, logs, input, route, index, answer, foreign>>

\* The adapter's promise rejects, as HttpRequestError or otherwise; in both
\* cases the provider may have got the request, and may still act on it.
ProviderCallRejects(r) ==
  /\ pc[r] = "await"
  /\ \E e \in {"retryable", "final"} : error' = [error EXCEPT ![r] = e]
  /\ Goto(r, "catchLog")
  /\ UNCHANGED <<payments, logs, input, route, index, copy, call, answer, foreign>>

\* Mutant: the answer's status is taken without the reference.
WithAnswerStatusOnly(row, a) == WithStatus(row, a.status)

WithAnswer(row, a) ==
  [status |-> a.status, provider |-> row.provider, providerReference |-> a.providerReference]

\* Mutant: the answer is taken without ensureTransition.
ReceiveAnswerUnchecked(r) ==
  LET a == answer[r][index[r]] IN
  /\ pc[r] = "await"
  /\ a # NoAnswer
  /\ copy' = [copy EXCEPT ![r] = WithAnswer(@, a)]
  /\ Goto(r, "updatePayment")
  /\ UNCHANGED <<payments, logs, input, route, index, call, answer, error, foreign>>

\* ensureTransition judges the answer; what it throws is no HttpRequestError.
ReceiveAnswer(r) ==
  LET a == answer[r][index[r]] IN
  /\ pc[r] = "await"
  /\ a # NoAnswer
  /\ \/ /\ TransitionAllowed(copy[r].status, a.status)
        /\ copy' = [copy EXCEPT ![r] = WithAnswer(@, a)]
        /\ Goto(r, "updatePayment") /\ UNCHANGED error
     \/ /\ ~TransitionAllowed(copy[r].status, a.status)
        /\ ThrowFinal(r) /\ UNCHANGED copy
  /\ UNCHANGED <<payments, logs, input, route, index, call, answer, foreign>>

UpdatePayment(r) ==
  /\ pc[r] = "updatePayment"
  /\ \E o \in DbOutcomes :
       /\ IF Executed(o) THEN UpdateRow(r, copy[r]) ELSE UNCHANGED payments
       /\ IF Raised(o) THEN ThrowFinal(r) ELSE Goto(r, "createLog") /\ UNCHANGED error
  /\ UNCHANGED <<logs, input, route, index, copy, call, answer, foreign>>

CreateLog(r) ==
  /\ pc[r] = "createLog"
  /\ \E o \in DbOutcomes :
       /\ logs' = IF Executed(o) THEN logs \cup {<<r, index[r], "response">>} ELSE logs
       /\ IF Raised(o) THEN ThrowFinal(r) ELSE Finish(r, "ok") /\ UNCHANGED error
  /\ UNCHANGED <<payments, input, route, index, copy, call, answer, foreign>>

\* Mutant: any error moves on to the next candidate.
AlwaysTryNext(r) == index[r] < Len(route[r])

\* isRetryableProviderError, and a candidate left.
ShouldTryNext(r) == index[r] < Len(route[r]) /\ error[r] = "retryable"

\* Mutant: the same candidate is tried until it fails for good.
CatchLogSameCandidate(r) ==
  /\ pc[r] = "catchLog"
  /\ \E o \in DbOutcomes :
       /\ logs' = IF Executed(o) THEN logs \cup {<<r, index[r], error[r]>>} ELSE logs
       /\ IF Raised(o) THEN Finish(r, "error")
          ELSE Goto(r, IF ShouldTryNext(r) THEN "attempt" ELSE "markFailed")
  /\ UNCHANGED <<payments, input, route, index, copy, call, answer, error, foreign>>

\* Mutant: the client is answered at the first failure, the failover goes on.
CatchLogAnsweringAtOnce(r) ==
  /\ pc[r] = "catchLog"
  /\ \E o \in DbOutcomes :
       /\ logs' = IF Executed(o) THEN logs \cup {<<r, index[r], error[r]>>} ELSE logs
       /\ \/ Raised(o) /\ Finish(r, "error") /\ UNCHANGED index
          \/ /\ ~Raised(o) /\ ShouldTryNext(r)
             /\ index' = [index EXCEPT ![r] = @ + 1]
             /\ pc' = [pc EXCEPT ![r] = "attempt"]
             /\ outcome' = [outcome EXCEPT ![r] = "error"]
          \/ /\ ~Raised(o) /\ ~ShouldTryNext(r)
             /\ Goto(r, "markFailed") /\ UNCHANGED index
  /\ UNCHANGED <<payments, input, route, copy, call, answer, error, foreign>>

\* The catch block.  When its log write throws, nothing more is tried and the
\* payment is not marked failed.
CatchLog(r) ==
  /\ pc[r] = "catchLog"
  /\ \E o \in DbOutcomes :
       /\ logs' = IF Executed(o) THEN logs \cup {<<r, index[r], error[r]>>} ELSE logs
       /\ \/ Raised(o) /\ Finish(r, "error") /\ UNCHANGED index
          \/ /\ ~Raised(o) /\ ShouldTryNext(r)
             /\ index' = [index EXCEPT ![r] = @ + 1] /\ Goto(r, "attempt")
          \/ /\ ~Raised(o) /\ ~ShouldTryNext(r)
             /\ Goto(r, "markFailed") /\ UNCHANGED index
  /\ UNCHANGED <<payments, input, route, copy, call, answer, error, foreign>>

\* markPaymentFailed: throws when the copy's status is terminal already.
MarkPaymentFailed(r) ==
  LET failed == WithStatus(copy[r], "FAILED") IN
  /\ pc[r] = "markFailed"
  /\ \/ ~TransitionAllowed(copy[r].status, "FAILED") /\ UNCHANGED <<payments, copy>>
     \/ /\ TransitionAllowed(copy[r].status, "FAILED")
        /\ copy' = [copy EXCEPT ![r] = failed]
        /\ \E o \in DbOutcomes :
             IF Executed(o) THEN UpdateRow(r, failed) ELSE UNCHANGED payments
  /\ Finish(r, "error")
  /\ UNCHANGED <<logs, input, route, index, call, answer, error, foreign>>

-----------------------------------------------------------------------------
(* The surroundings                                                        *)

\* A provider serves a request it received, awaited or not.
ProviderServes(r, i) ==
  /\ call[r][i] = "sent"
  /\ \E a \in Answers :
       /\ answer' = [answer EXCEPT ![r] = [@ EXCEPT ![i] = a]]
       /\ call' = [call EXCEPT ![r] =
            [@ EXCEPT ![i] = IF a.status = "FAILED" THEN "refused" ELSE "executed"]]
  /\ UNCHANGED <<payments, logs, pc, input, route, index, copy, error, outcome, foreign>>

InFlight(r) == pc[r] \notin {"new", "done", "crashed"}

\* The Node process dies with every request it was serving.
Crash ==
  /\ \E r \in Requests : InFlight(r)
  /\ pc' = [r \in Requests |-> IF InFlight(r) THEN "crashed" ELSE pc[r]]
  /\ UNCHANGED <<payments, logs, input, route, index, copy, call, answer, error, outcome, foreign>>

\* A webhook or a lookup writes its copy of the row.
ForeignWrite(r) ==
  /\ payments[r] # NoPayment
  /\ \E s \in ForeignStatuses, ref \in References :
       UpdateRow(r, [status |-> s, provider |-> payments[r].provider,
                     providerReference |-> ref])
  /\ foreign' = foreign \cup {r}
  /\ UNCHANGED <<logs, pc, input, route, index, copy, call, answer, error, outcome>>

-----------------------------------------------------------------------------

Init ==
  /\ payments = [r \in Requests |-> NoPayment]
  /\ logs = {}
  /\ pc = [r \in Requests |-> "new"]
  /\ input = [r \in Requests |-> NoInput]
  /\ route = [r \in Requests |-> <<>>]
  /\ index = [r \in Requests |-> 0]
  /\ copy = [r \in Requests |-> NoCopy]
  /\ call = [r \in Requests |-> [i \in Candidates |-> "none"]]
  /\ answer = [r \in Requests |-> [i \in Candidates |-> NoAnswer]]
  /\ error = [r \in Requests |-> "none"]
  /\ outcome = [r \in Requests |-> "none"]
  /\ foreign = {}

Resume(r) ==
  \/ ResolveCandidates(r) \/ CreatePayment(r) \/ Attempt(r)
  \/ ReceiveAnswer(r) \/ ProviderCallRejects(r) \/ UpdatePayment(r)
  \/ CreateLog(r) \/ CatchLog(r) \/ MarkPaymentFailed(r)

Next ==
  \/ \E r \in Requests : \/ \E i \in Inputs : FindExisting(r, i)
                         \/ Resume(r)
                         \/ \E i \in Candidates : ProviderServes(r, i)
                         \/ ForeignWrite(r)
  \/ Crash

Spec == Init /\ [][Next]_vars

\* Every await of a live process ends: a database call resolves or rejects, and
\* the timeouts of the HTTP client reject a call no provider answers.
FairSpec == Spec /\ \A r \in Requests : WF_vars(Resume(r))

-----------------------------------------------------------------------------
(* Properties                                                              *)

Labels == {"new", "resolve", "create", "attempt", "await", "updatePayment",
           "createLog", "catchLog", "markFailed", "done", "crashed"}

\* Every table and every request's local state has its type.
TypeOK ==
  /\ PaymentsTypeOK
  /\ logs \subseteq Requests \X Candidates \X {"response", "retryable", "final"}
  /\ pc \in [Requests -> Labels]
  /\ input \in [Requests -> Inputs \cup {NoInput}]
  /\ route \in [Requests -> Routes \cup {<<>>}]
  /\ index \in [Requests -> 0..MaxCandidates]
  /\ \A r \in Requests : index[r] <= Len(route[r])
  /\ copy \in [Requests -> PaymentRow \cup {NoCopy}]
  /\ call \in [Requests -> [Candidates -> {"none", "sent", "executed", "refused"}]]
  /\ answer \in [Requests -> [Candidates -> Answers \cup {NoAnswer}]]
  /\ error \in [Requests -> {"none", "retryable", "final"}]
  /\ outcome \in [Requests -> {"none", "conflict", "replayed", "ok", "error"}]
  /\ foreign \subseteq Requests
  /\ \A r \in Requests : pc[r] # "new" => input[r] \in Inputs

Invoked(r) == \E i \in Candidates : call[r][i] # "none"

\* Of all requests under one idempotency key, however they interleave or are
\* repeated after a crash, only one ever reaches a provider.
OneRequestReachesProviders ==
  \A r1, r2 \in Requests :
    Invoked(r1) /\ Invoked(r2) /\ input[r1].key = input[r2].key => r1 = r2

\* A replay is the payment of the same request under the same key: reusing the
\* key for another request is never answered with it.
ReplayIsOfSameRequest ==
  \A r \in Requests : outcome[r] = "replayed" =>
    \E q \in StoredUnder(input[r].key) : input[q].body = input[r].body

\* The next provider is asked only after the failure of every earlier one was
\* retryable and is in the audit trail; and only one by one, in routed order.
FailoverIsAudited ==
  \A r \in Requests, i \in Candidates :
    call[r][i] # "none" => \A j \in 1..(i - 1) : <<r, j, "retryable">> \in logs

\* The row has what the current candidate answered, under its name.
StoresAnswer(r, row) ==
  LET a == answer[r][index[r]] IN
  /\ a # NoAnswer
  /\ row = [status |-> a.status, provider |-> route[r][index[r]],
            providerReference |-> a.providerReference]

\* When the client was told of success, the row has the status and reference the
\* answering provider gave, under that provider's name, and the log has the
\* answer; as long as no other flow wrote the row.
SuccessIsStored ==
  \A r \in Requests \ foreign : outcome[r] = "ok" =>
    StoresAnswer(r, payments[r]) /\ <<r, index[r], "response">> \in logs

\* The flow's writes, of a failure after a success included, move the row along
\* stateTransitions; as long as no other flow wrote the row.
FlowMovesForward ==
  [][\A r \in Requests \ foreign :
       UpdatePayment(r) \/ MarkPaymentFailed(r) =>
         \/ payments'[r].status = payments[r].status
         \/ TransitionAllowed(payments[r].status, payments'[r].status)]_vars

\* Refinement: what the rows, the calls and the answers say of one key.
AskedUnder(key) ==
  {a \in Requests \X Candidates : call[a[1]][a[2]] # "none" /\ input[a[1]].key = key}

PhaseOf(key) ==
  LET owners == StoredUnder(key) IN
  IF owners = {} THEN "free"
  ELSE IF \E q \in owners : outcome[q] = "ok" THEN "succeeded"
  ELSE IF \E q \in owners : outcome[q] # "none" \/ pc[q] = "crashed" THEN "ended"
  ELSE "open"

Keyed == INSTANCE KeyedPayment WITH
  owner <- [k \in Keys |-> StoredUnder(k)],
  asked <- [k \in Keys |-> AskedUnder(k)],
  phase <- [k \in Keys |-> PhaseOf(k)]

\* However requests under one key race, are repeated or die, the service does no
\* more than one payment that asks its candidates in order and then ends.
ImplementsKeyedPayment == Keyed!PaymentSpec

\* A request the service took up is answered, or dies with the process.
EveryRequestEnds == \A r \in Requests : InFlight(r) ~> ~InFlight(r)

\* "Prevent duplicate processing at all costs": one payment is accepted by one
\* provider at most.
AtMostOneProviderAccepts ==
  \A r \in Requests, i, j \in Candidates :
    call[r][i] = "executed" /\ call[r][j] = "executed" => i = j

\* "INITIATED -> PAYMENT -> CAPTURED": the answer CAPTURED to a payment request
\* is stored, not taken for a failure.
CapturedPaymentIsStored ==
  [][\A r \in Requests :
       ReceiveAnswer(r) /\ answer[r][index[r]].status = "CAPTURED"
       => pc'[r] = "updatePayment"]_vars

-----------------------------------------------------------------------------
(* The inductive invariant                                                 *)

BeforeCreate == {"new", "resolve", "create"}
Working == {"attempt", "await", "updatePayment", "createLog", "catchLog", "markFailed"}

\* A request past its INSERT owns the row with its id, one before it does not,
\* and only one that does ever calls a provider.
OwnsRow(r) ==
  /\ payments[r] # NoPayment => pc[r] \notin BeforeCreate
  /\ pc[r] \in Working \/ Invoked(r) => payments[r] # NoPayment
  /\ pc[r] \in Working \cup {"create"} => copy[r] \in PaymentRow /\ route[r] \in Routes
  /\ pc[r] \in Working => index[r] > 0
  /\ pc[r] \in BeforeCreate => index[r] = 0

\* The unique key of the payments table.
UniqueKey ==
  \A q1, q2 \in Requests :
    /\ payments[q1] # NoPayment /\ payments[q2] # NoPayment
    /\ input[q1].key = input[q2].key
    => q1 = q2

\* Candidates are tried one by one; those before the current one failed in a
\* retryable way and are logged.
InTurn(r) ==
  \A i \in Candidates :
    /\ call[r][i] # "none" => i < index[r] \/ (i = index[r] /\ pc[r] # "attempt")
    /\ i < index[r] => <<r, i, "retryable">> \in logs
    /\ answer[r][i] # NoAnswer <=> call[r][i] \in {"executed", "refused"}

\* What the local copy of the payment says at each await.
CopyProgress(r) ==
  /\ pc[r] = "await" => copy[r].provider = route[r][index[r]]
  /\ pc[r] \in {"updatePayment", "createLog"} => StoresAnswer(r, copy[r])
  /\ pc[r] = "updatePayment" => TransitionAllowed("CREATED", copy[r].status)
  /\ pc[r] \in {"create", "attempt", "await"} => copy[r].status = "CREATED"
  /\ pc[r] = "catchLog" /\ error[r] = "retryable" => copy[r].status = "CREATED"
  /\ pc[r] = "catchLog" => error[r] # "none"

\* As long as nobody else wrote the row, it is as created or as the copy says.
RowFollows(r) ==
  r \notin foreign =>
    /\ pc[r] \in Working => payments[r].status \in {"CREATED", copy[r].status}
    /\ pc[r] = "updatePayment" => payments[r].status = "CREATED"
    /\ pc[r] = "createLog" => payments[r] = copy[r]
    /\ outcome[r] = "ok" =>
         StoresAnswer(r, payments[r]) /\ <<r, index[r], "response">> \in logs

\* A request that was answered has ended.
Answered(r) ==
  /\ outcome[r] # "none" => pc[r] = "done"
  /\ outcome[r] = "ok" => index[r] > 0 /\ route[r] \in Routes

Local(r) == OwnsRow(r) /\ InTurn(r) /\ CopyProgress(r) /\ RowFollows(r) /\ Answered(r)

IInv ==
  /\ TypeOK
  /\ UniqueKey
  /\ \A r \in Requests : Local(r)
  /\ ReplayIsOfSameRequest

=============================================================================
