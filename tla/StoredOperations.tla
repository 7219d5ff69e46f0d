-------------------------- MODULE StoredOperations --------------------------
(***************************************************************************)
(* PaymentService.executeStoredOperation: capture, refund and void.        *)
(*                                                                         *)
(* Each HTTP request runs the method from its first repository call to its *)
(* return or throw; one action is the code between two awaits.  A request  *)
(* carries a copy of the payment row it read first and writes that copy    *)
(* back after the provider answered.  The uniqueness that makes an         *)
(* operation idempotent is the unique key of payment_operations.           *)
(***************************************************************************)
EXTENDS Payments

CONSTANTS
  Requests,        \* HTTP requests
  RequestedTypes,  \* operations clients ask for
  Bodies,          \* refund bodies (amount, currency), told apart by their hash
  HeaderKeys,      \* values of the idempotency-key header
  NoHeader,        \* no (or a blank) idempotency-key header
  NoBody,          \* the empty payload of capture and void
  NoOperation,     \* no payment_operations row
  NoInput, NoCopy, NoAnswer,
  ForeignStatuses  \* statuses other flows may leave in a payment row


VARIABLES
  operations,  \* payment_operations, by its unique key
  logs,        \* payment_logs: <<request, "response" or "error">>
  pc,          \* await at which the request is suspended
  input,       \* the request's parameters
  copy,        \* local variable `payment`
  local,       \* local variable `operation.state`
  call,        \* what became of the provider invocation, at the provider
  answer,      \* the provider's answer to it
  outcome      \* how the HTTP request was answered

opVars == <<operations, logs, pc, input, copy, local, call, answer, outcome>>
vars == <<payments, opVars>>

-----------------------------------------------------------------------------

OperationTypes  == {"CAPTURE", "REFUND", "VOID"}
OperationStates == {"STARTED", "SUCCEEDED", "FAILED"}

ASSUME OperationsAssumption ==
  /\ RequestedTypes \subseteq OperationTypes
  /\ ForeignStatuses \subseteq PaymentStatuses

\* The markers for "nothing there" are none of the values they stand in for.
ASSUME MarkersAssumption ==
  /\ NoOperation \notin [id : Requests, requestHash : Bodies \cup {NoBody},
                          state : OperationStates]
  /\ NoAnswer \notin [status : PaymentStatuses, providerReference : References]

\* Capture and void take no payload, a refund takes an amount and a currency.
Inputs ==
  {i \in [payment : PaymentIds, type : RequestedTypes,
          body : Bodies \cup {NoBody}, header : HeaderKeys \cup {NoHeader}] :
     (i.type = "REFUND") <=> (i.body # NoBody)}

\* Mutant: the payload is left out of the hash.
requestHashWithoutPayload(i) == NoBody

\* SHA-256 over payment, type and payload.  Rows are only compared within one
\* payment and type, where the hash is as good as the payload.
requestHash(i) == i.body
Keys == HeaderKeys \cup Bodies \cup {NoBody}
effectiveIdempotencyKey(i) == IF i.header # NoHeader THEN i.header ELSE requestHash(i)

Slots == PaymentIds \X OperationTypes \X Keys
Slot(i) == <<i.payment, i.type, effectiveIdempotencyKey(i)>>

OperationRow ==
  [id : Requests, requestHash : Bodies \cup {NoBody}, state : OperationStates]

\* Statuses the adapters map a provider's answer to.
AnswerStatuses ==
  [CAPTURE |-> {"CAPTURED", "PENDING", "UNKNOWN", "FAILED"},
   REFUND  |-> {"REFUNDED", "PENDING", "UNKNOWN", "FAILED"},
   VOID    |-> {"VOIDED", "PENDING", "UNKNOWN", "FAILED"}]
\* The adapters fall back to the reference they sent: it is never missing.
AnswersTo(type) == [status : AnswerStatuses[type], providerReference : References]
Answers == [status : PaymentStatuses, providerReference : References]

\* Ends the method: r's HTTP request is answered with o.
Finish(r, o) == /\ pc' = [pc EXCEPT ![r] = "done"]
                /\ outcome' = [outcome EXCEPT ![r] = o]
Goto(r, l)   == /\ pc' = [pc EXCEPT ![r] = l]
                /\ UNCHANGED outcome

\* UPDATE payment_operations ... WHERE the unique key of r's operation.
StoreOperation(r, state) ==
  operations' =
    [operations EXCEPT ![Slot(input[r])] =
       IF @ = NoOperation THEN @
       ELSE [id |-> @.id, requestHash |-> requestHash(input[r]), state |-> state]]

-----------------------------------------------------------------------------
(* The method, await by await                                              *)

\* The request arrives and its payment row is read.
FindPayment(r, i) ==
  /\ pc[r] = "new"
  /\ input' = [input EXCEPT ![r] = i]
  /\ \/ /\ payments[i.payment] # NoPayment
        /\ payments[i.payment].providerReference # NoReference
        /\ copy' = [copy EXCEPT ![r] = payments[i.payment]]
        /\ Goto(r, "findOperation")
     \/ /\ payments[i.payment] # NoPayment
        /\ payments[i.payment].providerReference = NoReference
        /\ Finish(r, "noReference") /\ UNCHANGED copy
     \/ /\ payments[i.payment] = NoPayment
        /\ Finish(r, "notFound") /\ UNCHANGED copy
     \/ Finish(r, "error") /\ UNCHANGED copy                \* database error
  /\ UNCHANGED <<payments, operations, logs, local, call, answer>>

FindOperation(r) ==
  LET existing == operations[Slot(input[r])] IN
  /\ pc[r] = "findOperation"
  /\ \/ existing = NoOperation /\ Goto(r, "createOperation")
     \/ /\ existing # NoOperation
        /\ existing.requestHash # requestHash(input[r])
        /\ Finish(r, "conflict")
     \/ /\ existing # NoOperation
        /\ existing.requestHash = requestHash(input[r])
        /\ \/ existing.state = "FAILED"    /\ Finish(r, "previouslyFailed")
           \/ existing.state = "STARTED"   /\ Finish(r, "inProgress")
           \/ existing.state = "SUCCEEDED" /\ Finish(r, "replayed")
     \/ Finish(r, "error")
  /\ UNCHANGED <<payments, operations, logs, input, copy, local, call, answer>>

\* INSERT with state STARTED; the unique key rejects a second row.
StartedRow(r) == [id |-> r, requestHash |-> requestHash(input[r]), state |-> "STARTED"]

\* Mutant: INSERT IGNORE, a duplicate key is not an error.
CreateIgnoringDuplicate(r) ==
  LET s == Slot(input[r]) IN
  /\ pc[r] = "createOperation"
  /\ operations' = IF operations[s] = NoOperation THEN [operations EXCEPT ![s] = StartedRow(r)]
                   ELSE operations
  /\ Goto(r, "invoke") /\ local' = [local EXCEPT ![r] = "STARTED"]
  /\ UNCHANGED <<payments, logs, input, copy, call, answer>>

\* Mutant: an upsert, the second request takes the row over.
CreateByUpsert(r) ==
  /\ pc[r] = "createOperation"
  /\ operations' = [operations EXCEPT ![Slot(input[r])] = StartedRow(r)]
  /\ Goto(r, "invoke") /\ local' = [local EXCEPT ![r] = "STARTED"]
  /\ UNCHANGED <<payments, logs, input, copy, call, answer>>

CreateOperation(r) ==
  LET s == Slot(input[r]) IN
  /\ pc[r] = "createOperation"
  /\ \E o \in DbOutcomes :
       /\ Executed(o) => operations[s] = NoOperation
       /\ operations' = IF Executed(o) THEN [operations EXCEPT ![s] = StartedRow(r)] ELSE operations
       /\ IF Raised(o)
            THEN Finish(r, "error") /\ UNCHANGED local
            ELSE Goto(r, "invoke") /\ local' = [local EXCEPT ![r] = "STARTED"]
  /\ UNCHANGED <<payments, logs, input, copy, call, answer>>

\* Credential lookup and provider resolution, outside the try block: a throw
\* leaves the operation STARTED.  Then the adapter sends the provider request,
\* or throws before sending (operation not supported, misconfigured).
InvokeProvider(r) ==
  /\ pc[r] = "invoke"
  /\ \/ Finish(r, "error") /\ UNCHANGED call
     \/ Goto(r, "catchLog") /\ UNCHANGED call
     \/ Goto(r, "await") /\ call' = [call EXCEPT ![r] = "sent"]
  /\ UNCHANGED <<payments, operations, logs, input, copy, local, answer>>

\* Mutant: the adapter awaits its answer without a timer.
WaitsWithoutTimeout(r) == FALSE /\ UNCHANGED vars

\* The adapter's promise rejects: transport error, or the timeout fires; the
\* provider may execute the request all the same.
ProviderCallRejects(r) ==
  /\ pc[r] = "await"
  /\ Goto(r, "catchLog")
  /\ UNCHANGED <<payments, operations, logs, input, copy, local, call, answer>>

\* applyOperationResult on a local copy: the answer's reference and a status.
Applied(row, a, status) ==
  [status |-> status, provider |-> row.provider, providerReference |-> a.providerReference]

\* The answer arrives and is judged by the status of the copy FindPayment read.
\* A refusal keeps that status; a status the table does not allow is thrown.
ApplyOperationResult(r) ==
  LET a == answer[r]
      current == copy[r].status
      applied(status) == copy' = [copy EXCEPT ![r] = Applied(copy[r], a, status)]
  IN
  /\ pc[r] = "await"
  /\ a # NoAnswer
  /\ \/ /\ a.status = "FAILED"
        /\ applied(current) /\ Goto(r, "updatePayment")
     \/ /\ a.status # "FAILED" /\ TransitionAllowed(current, a.status)
        /\ applied(a.status) /\ Goto(r, "updatePayment")
     \/ /\ a.status # "FAILED" /\ ~TransitionAllowed(current, a.status)
        /\ applied(current) /\ Goto(r, "catchLog")
  /\ UNCHANGED <<payments, operations, logs, input, local, call, answer>>

UpdatePayment(r) ==
  /\ pc[r] = "updatePayment"
  /\ \E o \in DbOutcomes :
       /\ IF Executed(o) THEN UpdateRow(input[r].payment, copy[r]) ELSE UNCHANGED payments
       /\ Goto(r, IF Raised(o) THEN "catchLog" ELSE "createLog")
  /\ UNCHANGED <<operations, logs, input, copy, local, call, answer>>

CreateLog(r) ==
  /\ pc[r] = "createLog"
  /\ \E o \in DbOutcomes :
       /\ logs' = IF Executed(o) THEN logs \cup {<<r, "response">>} ELSE logs
       /\ Goto(r, IF Raised(o) THEN "catchLog" ELSE "updateOperation")
  /\ UNCHANGED <<payments, operations, input, copy, local, call, answer>>

\* Mutant: a refusal is settled like a success.
FinalStateIgnoringFailure(r) == "SUCCEEDED"

\* Only a FAILED answer makes the operation fail here.
FinalState(r) == IF answer[r].status = "FAILED" THEN "FAILED" ELSE "SUCCEEDED"

\* Mutant: the client is answered without waiting for the statement.
UpdateUnawaited(r) ==
  /\ pc[r] = "updateOperation"
  /\ local' = [local EXCEPT ![r] = FinalState(r)]
  /\ StoreOperation(r, FinalState(r)) \/ UNCHANGED operations
  /\ Finish(r, IF FinalState(r) = "FAILED" THEN "providerFailure" ELSE "ok")
  /\ UNCHANGED <<payments, logs, input, copy, call, answer>>

\* The object in memory takes its final state before the statement is sent.
UpdateOperation(r) ==
  LET final == FinalState(r) IN
  /\ pc[r] = "updateOperation"
  /\ local' = [local EXCEPT ![r] = final]
  /\ \E o \in DbOutcomes :
       /\ IF Executed(o) THEN StoreOperation(r, final) ELSE UNCHANGED operations
       /\ IF Raised(o) THEN Goto(r, "catchLog")
          ELSE Finish(r, IF final = "FAILED" THEN "providerFailure" ELSE "ok")
  /\ UNCHANGED <<payments, logs, input, copy, call, answer>>

\* Mutant: an error of the log write is swallowed.
CatchLogSwallowing(r) ==
  /\ pc[r] = "catchLog"
  /\ \E o \in DbOutcomes : logs' = IF Executed(o) THEN logs \cup {<<r, "error">>} ELSE logs
  /\ IF local[r] = "FAILED" THEN Finish(r, "error") ELSE Goto(r, "catchUpdate")
  /\ UNCHANGED <<payments, operations, input, copy, local, call, answer>>

\* The catch block.  Its log write can throw as well, and then the operation
\* row is not touched any more; nor is it when the object is already FAILED.
CatchLog(r) ==
  /\ pc[r] = "catchLog"
  /\ \E o \in DbOutcomes :
       /\ logs' = IF Executed(o) THEN logs \cup {<<r, "error">>} ELSE logs
       /\ IF Raised(o) \/ local[r] = "FAILED" THEN Finish(r, "error")
          ELSE Goto(r, "catchUpdate")
  /\ UNCHANGED <<payments, operations, input, copy, local, call, answer>>

CatchUpdate(r) ==
  /\ pc[r] = "catchUpdate"
  /\ local' = [local EXCEPT ![r] = "FAILED"]
  /\ \E o \in DbOutcomes :
       IF Executed(o) THEN StoreOperation(r, "FAILED") ELSE UNCHANGED operations
  /\ Finish(r, "error")
  /\ UNCHANGED <<payments, logs, input, copy, call, answer>>

-----------------------------------------------------------------------------
(* The surroundings                                                        *)

\* The provider serves a request it received, whether or not anyone still
\* waits for the answer.
ProviderServes(r) ==
  /\ call[r] = "sent"
  /\ \E a \in AnswersTo(input[r].type) :
       /\ answer' = [answer EXCEPT ![r] = a]
       /\ call' = [call EXCEPT ![r] = IF a.status = "FAILED" THEN "refused" ELSE "executed"]
  /\ UNCHANGED <<payments, operations, logs, pc, input, copy, local, outcome>>

InFlight(r) == pc[r] \notin {"new", "done", "crashed"}

\* The Node process dies: every request it was serving is gone, the database
\* and the provider are not.
Crash ==
  /\ \E r \in Requests : InFlight(r)
  /\ pc' = [r \in Requests |-> IF InFlight(r) THEN "crashed" ELSE pc[r]]
  /\ UNCHANGED <<payments, operations, logs, input, copy, local, call, answer, outcome>>

\* Another flow (webhook, lookup, initial flow) writes its copy of the row.
ForeignWrite(p) ==
  /\ payments[p] # NoPayment
  /\ \E s \in ForeignStatuses, pr \in Providers, ref \in References \cup {NoReference} :
       UpdateRow(p, [status |-> s, provider |-> pr, providerReference |-> ref])
  /\ UNCHANGED opVars

-----------------------------------------------------------------------------

Init ==
  /\ payments \in [PaymentIds -> {NoPayment} \cup
       [status : ForeignStatuses, provider : Providers,
        providerReference : References \cup {NoReference}]]
  /\ operations = [s \in Slots |-> NoOperation]
  /\ logs = {}
  /\ pc = [r \in Requests |-> "new"]
  /\ input = [r \in Requests |-> NoInput]
  /\ copy = [r \in Requests |-> NoCopy]
  /\ local = [r \in Requests |-> "NONE"]
  /\ call = [r \in Requests |-> "none"]
  /\ answer = [r \in Requests |-> NoAnswer]
  /\ outcome = [r \in Requests |-> "none"]

Resume(r) ==
  \/ FindOperation(r) \/ CreateOperation(r) \/ InvokeProvider(r)
  \/ ProviderCallRejects(r) \/ ApplyOperationResult(r)
  \/ UpdatePayment(r) \/ CreateLog(r) \/ UpdateOperation(r)
  \/ CatchLog(r) \/ CatchUpdate(r)

Next ==
  \/ \E r \in Requests : \/ \E i \in Inputs : FindPayment(r, i)
                         \/ Resume(r)
                         \/ ProviderServes(r)
  \/ Crash
  \/ \E p \in PaymentIds : ForeignWrite(p)

Spec == Init /\ [][Next]_vars

\* Every await of a live process ends: a database call resolves or rejects, and
\* withTimeout rejects a provider call the provider never answers.
FairSpec == Spec /\ \A r \in Requests : WF_vars(Resume(r))


-----------------------------------------------------------------------------
(* Properties                                                              *)

Labels == {"new", "findOperation", "createOperation", "invoke", "await",
           "updatePayment", "createLog", "updateOperation", "catchLog",
           "catchUpdate", "done", "crashed"}
Outcomes == {"none", "notFound", "noReference", "conflict", "previouslyFailed",
             "inProgress", "replayed", "ok", "providerFailure", "error"}

\* Every table and every request's local state has its type; a request past its
\* first await knows its parameters, and one in flight holds a payment row.
TypeOK ==
  /\ PaymentsTypeOK
  /\ operations \in [Slots -> OperationRow \cup {NoOperation}]
  /\ logs \subseteq Requests \X {"response", "error"}
  /\ pc \in [Requests -> Labels]
  /\ input \in [Requests -> Inputs \cup {NoInput}]
  /\ copy \in [Requests -> PaymentRow \cup {NoCopy}]
  /\ local \in [Requests -> OperationStates \cup {"NONE"}]
  /\ call \in [Requests -> {"none", "sent", "executed", "refused"}]
  /\ answer \in [Requests -> Answers \cup {NoAnswer}]
  /\ outcome \in [Requests -> Outcomes]
  /\ \A r \in Requests : pc[r] # "new" => input[r] \in Inputs
  /\ \A r \in Requests : InFlight(r) => copy[r] \in PaymentRow

Invoked(r) == call[r] # "none"

\* However requests with the same payment, type and idempotency key interleave,
\* fail or are repeated after a crash, the provider is invoked for at most one.
AtMostOneInvocation ==
  \A r1, r2 \in Requests :
    /\ Invoked(r1) /\ Invoked(r2)
    /\ Slot(input[r1]) = Slot(input[r2])
    => r1 = r2

\* An operation row says SUCCEEDED only if the provider executed the request of
\* the very HTTP request that created the row, and its answer is in the log.
SucceededWasExecuted ==
  \A s \in Slots :
    operations[s] # NoOperation /\ operations[s].state = "SUCCEEDED"
    => LET owner == operations[s].id IN
       /\ Slot(input[owner]) = s
       /\ call[owner] = "executed"
       /\ <<owner, "response">> \in logs

\* An operation is settled, either way, only after its creator left a log row:
\* the audit trail explains every settled operation.
SettledIsAudited ==
  \A s \in Slots :
    operations[s] # NoOperation /\ operations[s].state # "STARTED"
    => \E k \in {"response", "error"} : <<operations[s].id, k>> \in logs

\* What a client was told by a first-hand answer is what the table keeps: an
\* `ok` stays SUCCEEDED, a provider failure or a repeated failure stays FAILED.
ReportedOutcomeIsStored ==
  \A r \in Requests :
    LET stored == operations[Slot(input[r])] IN
    /\ outcome[r] = "ok" => stored # NoOperation /\ stored.state = "SUCCEEDED"
    /\ outcome[r] \in {"providerFailure", "previouslyFailed"}
         => stored # NoOperation /\ stored.state = "FAILED"

\* A replayed success stands for an execution of the same payload: reusing a key
\* for another refund is never answered with the first one's result.
ReplayIsOfSameRequest ==
  \A r \in Requests : outcome[r] = "replayed" =>
    \E r1 \in Requests :
      /\ call[r1] = "executed"
      /\ Slot(input[r1]) = Slot(input[r])
      /\ input[r1].body = input[r].body

\* A FAILED operation is never reopened, by its creator or by a later request.
FailedIsFinal ==
  [][\A s \in Slots :
       operations[s] # NoOperation /\ operations[s].state = "FAILED"
       => operations'[s] = operations[s]]_vars

\* The provider is only ever invoked on behalf of an operation row that exists,
\* is STARTED and belongs to the invoking request.
InvokedWhileStarted ==
  [][\A r \in Requests : ~Invoked(r) /\ Invoked(r)' =>
       /\ operations[Slot(input[r])] # NoOperation
       /\ operations[Slot(input[r])].state = "STARTED"
       /\ operations[Slot(input[r])].id = r]_vars

\* applyOperationResult logs "Provider operation failed; preserving current
\* payment status": a refused operation leaves the status in the row as it is.
FailurePreservesCurrentStatus ==
  [][\A r \in Requests :
       UpdatePayment(r) /\ answer[r].status = "FAILED" =>
         LET p == input[r].payment IN payments'[p].status = payments[p].status]_vars

\* More than the README promises ("replays the stored outcome"): a begun operation
\* comes to an outcome that can be replayed.
EveryOperationSettles ==
  \A s \in Slots :
    (operations[s] # NoOperation /\ operations[s].state = "STARTED")
    ~> (operations[s] # NoOperation /\ operations[s].state # "STARTED")

\* A request the service took up is answered, unless the process dies: every
\* await ends, the provider's because of the timeout around it.
EveryRequestEnds == \A r \in Requests : InFlight(r) ~> ~InFlight(r)

-----------------------------------------------------------------------------
(* Refinement: the operation rows and the invocations made on their behalf *)
(* behave like OperationLedger.                                            *)

StateOf(row) == IF row = NoOperation THEN "absent" ELSE row.state
ledgerBar  == [s \in Slots |-> StateOf(operations[s])]
invokedBar == {Slot(input[r]) : r \in {q \in Requests : Invoked(q)}}

Ledger == INSTANCE OperationLedger WITH ledger <- ledgerBar, invoked <- invokedBar

\* The concrete tables and calls implement the ledger of one-shot operations.
ImplementsLedger == Ledger!Spec

-----------------------------------------------------------------------------
(* The inductive invariant                                                 *)

BeforeInvoke == {"new", "findOperation", "createOperation", "invoke"}
Trying   == {"invoke", "await", "updatePayment", "createLog", "updateOperation"}
Catching == {"catchLog", "catchUpdate"}
Answered == {"updatePayment", "createLog", "updateOperation"}

\* A request past its INSERT owns the row of its slot, which stays STARTED
\* until the request itself settles it.
OwnsRow(r) ==
  LET row == operations[Slot(input[r])] IN
  /\ pc[r] \in Trying \cup Catching \/ Invoked(r) =>
       row # NoOperation /\ row.id = r
  /\ pc[r] \in Trying => row.state = "STARTED" /\ local[r] = "STARTED"
  /\ pc[r] \in Catching => local[r] \in OperationStates
  /\ pc[r] = "catchLog" /\ local[r] # "FAILED" => row.state # "FAILED"
  /\ pc[r] = "catchUpdate" => row.state # "FAILED"

\* Calls, answers and logs agree with how far the request has come.
CallProgress(r) ==
  /\ pc[r] \in BeforeInvoke => ~Invoked(r)
  /\ answer[r] # NoAnswer <=> call[r] \in {"executed", "refused"}
  /\ answer[r] # NoAnswer => (answer[r].status = "FAILED" <=> call[r] = "refused")
  /\ pc[r] \in Answered => answer[r] # NoAnswer
  /\ pc[r] = "updateOperation" => <<r, "response">> \in logs
  /\ pc[r] = "catchUpdate" => <<r, "error">> \in logs
  /\ pc[r] = "catchLog" /\ local[r] # "STARTED" => <<r, "response">> \in logs

\* Every row was made by a request for its slot.
RowOrigin(s) ==
  operations[s] # NoOperation =>
    LET owner == operations[s].id IN
    /\ pc[owner] # "new"
    /\ Slot(input[owner]) = s
    /\ operations[s].requestHash = requestHash(input[owner])

IInv ==
  /\ TypeOK
  /\ \A r \in Requests : OwnsRow(r) /\ CallProgress(r)
  /\ \A s \in Slots : RowOrigin(s)
  /\ SucceededWasExecuted
  /\ SettledIsAudited

\* What an HTTP answer said about the operation is what its row says; together
\* with IInv, this is inductive.
OutcomeStored(r) ==
  LET row == operations[Slot(input[r])] IN
  /\ outcome[r] \in {"ok", "providerFailure", "previouslyFailed"} =>
       pc[r] = "done" /\ row # NoOperation
  /\ outcome[r] = "ok" => row.id = r /\ row.state = "SUCCEEDED"
  /\ outcome[r] \in {"providerFailure", "previouslyFailed"} => row.state = "FAILED"

\* An answered replay has an execution behind it, and stays answered.
ReplayStandsFor(r) == outcome[r] = "replayed" =>
  \E r1 \in Requests :
    /\ call[r1] = "executed"
    /\ Slot(input[r1]) = Slot(input[r])
    /\ input[r1].body = input[r].body
RequestsDone(r) == outcome[r] = "replayed" => pc[r] = "done"

=============================================================================
