----------------------- MODULE StoredOperationsProofs -----------------------
(***************************************************************************)
(* Proofs about StoredOperations, for any sets of requests, payments,      *)
(* bodies and keys.                                                        *)
(***************************************************************************)
EXTENDS StoredOperations, TLAPS

-----------------------------------------------------------------------------
(* Lemmas about the definitions the steps are made of                      *)

\* A well-formed input names a slot of the operations table.
LEMMA SlotType ==
  ASSUME NEW i \in Inputs
  PROVE  /\ Slot(i) \in Slots
         /\ requestHash(i) \in Bodies \cup {NoBody}
         /\ i.payment \in PaymentIds
         /\ i.type \in OperationTypes
BY OperationsAssumption, SMT
   DEF Inputs, Slot, Slots, requestHash, effectiveIdempotencyKey, Keys

\* What the provider answers is an answer.
LEMMA AnswerType ==
  ASSUME NEW type \in OperationTypes, NEW a \in AnswersTo(type)
  PROVE  a \in Answers /\ a # NoAnswer
<1>1. AnswerStatuses[type] \subseteq PaymentStatuses
  BY DEF AnswerStatuses, OperationTypes, PaymentStatuses
<1>2. a \in Answers
  BY <1>1 DEF AnswersTo, Answers
<1>. QED  BY <1>2, MarkersAssumption DEF Answers

\* A state the table allows to move to is a status.
LEMMA TransitionType ==
  ASSUME NEW from \in PaymentStatuses, NEW to, TransitionAllowed(from, to)
  PROVE  to \in PaymentStatuses
BY DEF TransitionAllowed, stateTransitions, PaymentStatuses

\* Writing a row back keeps the payments table well-formed.
LEMMA UpdateRowType ==
  ASSUME PaymentsTypeOK, NEW p \in PaymentIds, NEW row \in PaymentRow, UpdateRow(p, row)
  PROVE  PaymentsTypeOK'
BY DEF PaymentsTypeOK, UpdateRow

\* Storing a state changes that column of one row and nothing else.
LEMMA StoreOperationEffect ==
  ASSUME NEW r \in Requests, NEW state \in OperationStates,
         input[r] \in Inputs,
         operations \in [Slots -> OperationRow \cup {NoOperation}],
         operations[Slot(input[r])] # NoOperation,
         operations[Slot(input[r])].requestHash = requestHash(input[r]),
         StoreOperation(r, state)
  PROVE  /\ operations' \in [Slots -> OperationRow \cup {NoOperation}]
         /\ \A s \in Slots : s # Slot(input[r]) => operations'[s] = operations[s]
         /\ operations'[Slot(input[r])] # NoOperation
         /\ operations'[Slot(input[r])].id = operations[Slot(input[r])].id
         /\ operations'[Slot(input[r])].requestHash = requestHash(input[r])
         /\ operations'[Slot(input[r])].state = state
<1> DEFINE s0 == Slot(input[r])
           row == [id |-> operations[s0].id, requestHash |-> requestHash(input[r]), state |-> state]
<1>1. s0 \in Slots /\ requestHash(input[r]) \in Bodies \cup {NoBody}
  BY SlotType
<1>2. operations[s0] \in OperationRow
  BY <1>1
<1>3. /\ row \in OperationRow
      /\ row.id = operations[s0].id
      /\ row.requestHash = requestHash(input[r])
      /\ row.state = state
  BY <1>1, <1>2 DEF OperationRow
<1>4. row # NoOperation
  BY <1>3, MarkersAssumption DEF OperationRow
<1>5. operations' = [operations EXCEPT ![s0] = row]
  BY DEF StoreOperation
<1> HIDE DEF row
<1>. QED  BY <1>1, <1>3, <1>4, <1>5

-----------------------------------------------------------------------------
(* Every step keeps IInv                                                   *)

\* The invariant of one request and the rows, split for the step lemmas.
LEMMA FindPaymentStep ==
  ASSUME IInv, NEW r \in Requests, NEW i \in Inputs, FindPayment(r, i)
  PROVE  IInv'
<1>. USE DEF IInv, FindPayment, Finish, Goto
<1>1. TypeOK'
  BY SlotType DEF TypeOK, Labels, Outcomes, InFlight, PaymentsTypeOK
<1>2. ASSUME NEW q \in Requests PROVE OwnsRow(q)' /\ CallProgress(q)'
  BY <1>2 DEF TypeOK, OwnsRow, CallProgress, Invoked, Trying, Catching, BeforeInvoke, Answered
<1>3. ASSUME NEW s \in Slots PROVE RowOrigin(s)'
  BY <1>3 DEF TypeOK, RowOrigin, OperationRow
<1>4. SucceededWasExecuted'
  BY DEF TypeOK, RowOrigin, SucceededWasExecuted, OperationRow
<1>5. SettledIsAudited'
  BY DEF SettledIsAudited
<1>. QED  BY <1>1, <1>2, <1>3, <1>4, <1>5

LEMMA FindOperationStep ==
  ASSUME IInv, NEW r \in Requests, FindOperation(r)
  PROVE  IInv'
<1>. USE DEF IInv, FindOperation, Finish, Goto
<1>1. TypeOK'
  BY DEF TypeOK, Labels, Outcomes, InFlight, PaymentsTypeOK, OperationRow, OperationStates
<1>2. ASSUME NEW q \in Requests PROVE OwnsRow(q)' /\ CallProgress(q)'
  BY <1>2 DEF TypeOK, OwnsRow, CallProgress, Invoked, Trying, Catching, BeforeInvoke, Answered
<1>3. ASSUME NEW s \in Slots PROVE RowOrigin(s)'
  BY <1>3 DEF TypeOK, RowOrigin, OperationRow
<1>4. SucceededWasExecuted'
  BY DEF TypeOK, RowOrigin, SucceededWasExecuted, OperationRow
<1>5. SettledIsAudited'
  BY DEF SettledIsAudited
<1>. QED  BY <1>1, <1>2, <1>3, <1>4, <1>5

LEMMA InvokeProviderStep ==
  ASSUME IInv, NEW r \in Requests, InvokeProvider(r)
  PROVE  IInv'
<1>. USE DEF IInv
<1>1. TypeOK'
  BY DEF TypeOK, Labels, Outcomes, InFlight, PaymentsTypeOK, InvokeProvider, Finish, Goto
<1>2. ASSUME NEW q \in Requests PROVE OwnsRow(q)' /\ CallProgress(q)'
  BY <1>2 DEF TypeOK, OwnsRow, CallProgress, Invoked, Trying, Catching, BeforeInvoke, Answered, InvokeProvider, Finish, Goto
<1>3. ASSUME NEW s \in Slots PROVE RowOrigin(s)'
  BY <1>3 DEF TypeOK, RowOrigin, OperationRow, InvokeProvider, Finish, Goto
<1>4. SucceededWasExecuted'
  <2>. SUFFICES ASSUME NEW s \in Slots, operations[s] # NoOperation,
                       operations[s].state = "SUCCEEDED"
                PROVE  /\ Slot(input[operations[s].id]) = s
                       /\ call'[operations[s].id] = "executed"
                       /\ <<operations[s].id, "response">> \in logs
    BY DEF SucceededWasExecuted, InvokeProvider
  <2>1. operations[s].id \in Requests /\ call[operations[s].id] = "executed"
    BY DEF TypeOK, OperationRow, SucceededWasExecuted
  <2>2. pc[operations[s].id] # "invoke"
    BY <2>1 DEF CallProgress, BeforeInvoke, Invoked
  <2>. QED  BY <2>1, <2>2 DEF TypeOK, SucceededWasExecuted, InvokeProvider
<1>5. SettledIsAudited'
  BY DEF SettledIsAudited, InvokeProvider, Finish, Goto
<1>. QED  BY <1>1, <1>2, <1>3, <1>4, <1>5

LEMMA ProviderCallRejectsStep ==
  ASSUME IInv, NEW r \in Requests, ProviderCallRejects(r)
  PROVE  IInv'
<1>. USE DEF IInv
<1>1. TypeOK'
  BY DEF TypeOK, Labels, Outcomes, InFlight, PaymentsTypeOK, ProviderCallRejects, Finish, Goto
<1>2. ASSUME NEW q \in Requests PROVE OwnsRow(q)' /\ CallProgress(q)'
  BY <1>2 DEF TypeOK, OwnsRow, CallProgress, Invoked, Trying, Catching, BeforeInvoke, Answered, ProviderCallRejects, Finish, Goto
<1>3. ASSUME NEW s \in Slots PROVE RowOrigin(s)'
  BY <1>3 DEF TypeOK, RowOrigin, OperationRow, ProviderCallRejects, Finish, Goto
<1>4. SucceededWasExecuted'
  BY DEF TypeOK, RowOrigin, SucceededWasExecuted, OperationRow, ProviderCallRejects, Finish, Goto
<1>5. SettledIsAudited'
  BY DEF SettledIsAudited, ProviderCallRejects, Finish, Goto
<1>. QED  BY <1>1, <1>2, <1>3, <1>4, <1>5

LEMMA ApplyOperationResultStep ==
  ASSUME IInv, NEW r \in Requests, ApplyOperationResult(r)
  PROVE  IInv'
<1>. USE DEF IInv
<1>1. TypeOK'
  BY TransitionType DEF Applied, TypeOK, Labels, Outcomes, InFlight, PaymentsTypeOK, ApplyOperationResult, Finish, Goto, PaymentRow, Answers
<1>2. ASSUME NEW q \in Requests PROVE OwnsRow(q)' /\ CallProgress(q)'
  BY <1>2 DEF TypeOK, OwnsRow, CallProgress, Invoked, Trying, Catching, BeforeInvoke, Answered, ApplyOperationResult, Finish, Goto
<1>3. ASSUME NEW s \in Slots PROVE RowOrigin(s)'
  BY <1>3 DEF TypeOK, RowOrigin, OperationRow, ApplyOperationResult, Finish, Goto
<1>4. SucceededWasExecuted'
  BY DEF TypeOK, RowOrigin, SucceededWasExecuted, OperationRow, ApplyOperationResult, Finish, Goto
<1>5. SettledIsAudited'
  BY DEF SettledIsAudited, ApplyOperationResult, Finish, Goto
<1>. QED  BY <1>1, <1>2, <1>3, <1>4, <1>5

LEMMA UpdatePaymentStep ==
  ASSUME IInv, NEW r \in Requests, UpdatePayment(r)
  PROVE  IInv'
<1>. USE DEF IInv
<1>1. TypeOK'
  BY UpdateRowType, SlotType DEF TypeOK, Labels, Outcomes, InFlight, PaymentsTypeOK, UpdatePayment, Finish, Goto
<1>2. ASSUME NEW q \in Requests PROVE OwnsRow(q)' /\ CallProgress(q)'
  BY <1>2 DEF TypeOK, OwnsRow, CallProgress, Invoked, Trying, Catching, BeforeInvoke, Answered, UpdatePayment, Finish, Goto
<1>3. ASSUME NEW s \in Slots PROVE RowOrigin(s)'
  BY <1>3 DEF TypeOK, RowOrigin, OperationRow, UpdatePayment, Finish, Goto
<1>4. SucceededWasExecuted'
  BY DEF TypeOK, RowOrigin, SucceededWasExecuted, OperationRow, UpdatePayment, Finish, Goto
<1>5. SettledIsAudited'
  BY DEF SettledIsAudited, UpdatePayment, Finish, Goto
<1>. QED  BY <1>1, <1>2, <1>3, <1>4, <1>5

LEMMA CreateLogStep ==
  ASSUME IInv, NEW r \in Requests, CreateLog(r)
  PROVE  IInv'
<1>. USE DEF IInv
<1>1. TypeOK'
  BY DEF TypeOK, Labels, Outcomes, InFlight, PaymentsTypeOK, CreateLog, Finish, Goto
<1>2. ASSUME NEW q \in Requests PROVE OwnsRow(q)' /\ CallProgress(q)'
  <2>1. CASE q = r
    <3>1. pc[r] = "createLog" /\ local[r] = "STARTED" /\ answer[r] # NoAnswer
      BY DEF CreateLog, OwnsRow, CallProgress, Trying, Answered
    <3>2. PICK o \in DbOutcomes :
            /\ logs' = IF Executed(o) THEN logs \cup {<<r, "response">>} ELSE logs
            /\ pc' = [pc EXCEPT ![r] = IF Raised(o) THEN "catchLog" ELSE "updateOperation"]
      BY DEF CreateLog, Goto
    <3>3. pc'[r] = "updateOperation" => <<r, "response">> \in logs'
      BY <3>2 DEF DbOutcomes, Executed, Raised, TypeOK
    <3>4. pc'[r] \in {"catchLog", "updateOperation"}
      BY <3>2 DEF TypeOK
    <3>5. OwnsRow(r)'
      BY <3>1, <3>4 DEF CreateLog, OwnsRow, Invoked, Trying, Catching, OperationStates
    <3>6. CallProgress(r)'
      BY <3>1, <3>3, <3>4 DEF CreateLog, CallProgress, Invoked, BeforeInvoke, Answered
    <3>. QED  BY <2>1, <3>5, <3>6
  <2>2. CASE q # r
    BY <1>2, <2>2 DEF TypeOK, OwnsRow, CallProgress, Invoked, Trying, Catching, BeforeInvoke, Answered, CreateLog, Finish, Goto
  <2>. QED  BY <2>1, <2>2
<1>3. ASSUME NEW s \in Slots PROVE RowOrigin(s)'
  BY <1>3 DEF TypeOK, RowOrigin, OperationRow, CreateLog, Finish, Goto
<1>4. SucceededWasExecuted'
  BY DEF TypeOK, RowOrigin, SucceededWasExecuted, OperationRow, CreateLog, Finish, Goto
<1>5. SettledIsAudited'
  BY DEF SettledIsAudited, CreateLog, Finish, Goto
<1>. QED  BY <1>1, <1>2, <1>3, <1>4, <1>5

LEMMA CatchLogStep ==
  ASSUME IInv, NEW r \in Requests, CatchLog(r)
  PROVE  IInv'
<1>. USE DEF IInv
<1>1. TypeOK'
  BY DEF TypeOK, Labels, Outcomes, InFlight, PaymentsTypeOK, CatchLog, Finish, Goto
<1>2. ASSUME NEW q \in Requests PROVE OwnsRow(q)' /\ CallProgress(q)'
  <2>1. CASE q = r
    BY <1>2, <2>1 DEF DbOutcomes, Executed, Raised, TypeOK, OwnsRow, CallProgress, Invoked, Trying, Catching, BeforeInvoke, Answered, CatchLog, Finish, Goto
  <2>2. CASE q # r
    BY <1>2, <2>2 DEF TypeOK, OwnsRow, CallProgress, Invoked, Trying, Catching, BeforeInvoke, Answered, CatchLog, Finish, Goto
  <2>. QED  BY <2>1, <2>2
<1>3. ASSUME NEW s \in Slots PROVE RowOrigin(s)'
  BY <1>3 DEF TypeOK, RowOrigin, OperationRow, CatchLog, Finish, Goto
<1>4. SucceededWasExecuted'
  BY DEF TypeOK, RowOrigin, SucceededWasExecuted, OperationRow, CatchLog, Finish, Goto
<1>5. SettledIsAudited'
  BY DEF SettledIsAudited, CatchLog, Finish, Goto
<1>. QED  BY <1>1, <1>2, <1>3, <1>4, <1>5

LEMMA ProviderServesStep ==
  ASSUME IInv, NEW r \in Requests, ProviderServes(r)
  PROVE  IInv'
<1>. USE DEF IInv
<1>1. TypeOK'
  <2>1. pc[r] # "new" /\ input[r] \in Inputs
    BY DEF ProviderServes, CallProgress, Invoked, BeforeInvoke, TypeOK
  <2>2. PICK a \in AnswersTo(input[r].type) :
          /\ answer' = [answer EXCEPT ![r] = a]
          /\ call' = [call EXCEPT ![r] = IF a.status = "FAILED" THEN "refused" ELSE "executed"]
    BY DEF ProviderServes
  <2>3. a \in Answers
    BY <2>1, AnswerType, SlotType
  <2>. QED  BY <2>2, <2>3 DEF TypeOK, PaymentsTypeOK, InFlight, ProviderServes
<1>2. ASSUME NEW q \in Requests PROVE OwnsRow(q)' /\ CallProgress(q)'
  BY <1>2, AnswerType, SlotType DEF TypeOK, OwnsRow, CallProgress, Invoked, Trying, Catching, BeforeInvoke, Answered, ProviderServes, Finish, Goto
<1>3. ASSUME NEW s \in Slots PROVE RowOrigin(s)'
  BY <1>3 DEF TypeOK, RowOrigin, OperationRow, ProviderServes, Finish, Goto
<1>4. SucceededWasExecuted'
  BY DEF TypeOK, RowOrigin, SucceededWasExecuted, OperationRow, ProviderServes, Finish, Goto
<1>5. SettledIsAudited'
  BY DEF SettledIsAudited, ProviderServes, Finish, Goto
<1>. QED  BY <1>1, <1>2, <1>3, <1>4, <1>5

LEMMA CreateOperationStep ==
  ASSUME IInv, NEW r \in Requests, CreateOperation(r)
  PROVE  IInv'
<1>. USE DEF IInv
<1> DEFINE s0 == Slot(input[r])
           started == StartedRow(r)
<1>1. /\ input[r] \in Inputs /\ s0 \in Slots
      /\ started \in OperationRow /\ started # NoOperation
      /\ pc[r] = "createOperation"
  BY SlotType, MarkersAssumption
     DEF TypeOK, CreateOperation, StartedRow, OperationRow, OperationStates
<1>2. PICK o \in DbOutcomes :
        /\ Executed(o) => operations[s0] = NoOperation
        /\ operations' = IF Executed(o) THEN [operations EXCEPT ![s0] = started] ELSE operations
        /\ IF Raised(o)
             THEN Finish(r, "error") /\ UNCHANGED local
             ELSE Goto(r, "invoke") /\ local' = [local EXCEPT ![r] = "STARTED"]
  BY DEF CreateOperation
<1>3. UNCHANGED <<payments, logs, input, copy, call, answer>>
  BY DEF CreateOperation
<1>4. /\ started.id = r /\ started.state = "STARTED"
      /\ started.requestHash = requestHash(input[r])
  BY DEF StartedRow
<1> HIDE DEF started
<1>5. TypeOK'
  BY <1>1, <1>2, <1>3
     DEF TypeOK, Labels, Outcomes, InFlight, PaymentsTypeOK, OperationStates, Finish, Goto
<1>6. ASSUME NEW q \in Requests PROVE OwnsRow(q)' /\ CallProgress(q)'
  <2>1. CASE q = r
    BY <1>1, <1>2, <1>3, <1>4, <2>1
       DEF TypeOK, OwnsRow, CallProgress, Invoked, Trying, Catching, BeforeInvoke,
           Answered, Finish, Goto, DbOutcomes, Executed, Raised
  <2>2. CASE q # r
    <3>1. pc'[q] = pc[q] /\ local'[q] = local[q]
      BY <1>2, <1>6, <2>2 DEF TypeOK, Finish, Goto
    <3>2. pc[q] \in Trying \cup Catching \/ Invoked(q) =>
            operations'[Slot(input[q])] = operations[Slot(input[q])]
      BY <1>1, <1>2, <1>6 DEF OwnsRow, TypeOK
    <3>. QED  BY <1>3, <1>6, <3>1, <3>2 DEF OwnsRow, CallProgress, Invoked, Trying, Catching
  <2>. QED  BY <2>1, <2>2
<1>7. ASSUME NEW s \in Slots PROVE RowOrigin(s)'
  BY <1>1, <1>2, <1>3, <1>4, <1>7 DEF RowOrigin, TypeOK, OperationRow, Finish, Goto
<1>8. SucceededWasExecuted'
  BY <1>1, <1>2, <1>3, <1>4 DEF SucceededWasExecuted, TypeOK
<1>9. SettledIsAudited'
  BY <1>1, <1>2, <1>3, <1>4 DEF SettledIsAudited, TypeOK
<1>. QED  BY <1>5, <1>6, <1>7, <1>8, <1>9

\* Storing the final state of an operation, which its owner alone does.
LEMMA StoreStep ==
  ASSUME IInv, NEW r \in Requests, NEW state \in {"SUCCEEDED", "FAILED"},
         pc[r] \in Trying \cup Catching,
         \/ StoreOperation(r, state) \/ UNCHANGED operations,
         UNCHANGED <<input, call, logs>>,
         state = "SUCCEEDED" => call[r] = "executed" /\ <<r, "response">> \in logs,
         \E k \in {"response", "error"} : <<r, k>> \in logs
  PROVE  /\ operations' \in [Slots -> OperationRow \cup {NoOperation}]
         /\ \A s \in Slots : s # Slot(input[r]) => operations'[s] = operations[s]
         /\ operations'[Slot(input[r])] # NoOperation
         /\ operations'[Slot(input[r])].id = r
         /\ operations'[Slot(input[r])].requestHash = requestHash(input[r])
         /\ SucceededWasExecuted'
         /\ SettledIsAudited'
<1>. USE DEF IInv
<1>1. input[r] \in Inputs
  BY DEF TypeOK, Trying, Catching
<1>2. Slot(input[r]) \in Slots
  BY <1>1, SlotType
<1>3. /\ operations[Slot(input[r])] # NoOperation
      /\ operations[Slot(input[r])].id = r
      /\ operations[Slot(input[r])].requestHash = requestHash(input[r])
  BY <1>2 DEF OwnsRow, RowOrigin
<1>4. CASE UNCHANGED operations
  BY <1>2, <1>3, <1>4 DEF TypeOK, SucceededWasExecuted, SettledIsAudited
<1>5. CASE StoreOperation(r, state)
  <2>1. /\ operations' \in [Slots -> OperationRow \cup {NoOperation}]
        /\ \A s \in Slots : s # Slot(input[r]) => operations'[s] = operations[s]
        /\ operations'[Slot(input[r])] # NoOperation
        /\ operations'[Slot(input[r])].id = r
        /\ operations'[Slot(input[r])].requestHash = requestHash(input[r])
        /\ operations'[Slot(input[r])].state = state
    BY <1>1, <1>3, <1>5, StoreOperationEffect DEF TypeOK, OperationStates
  <2>2. SucceededWasExecuted'
    BY <1>2, <2>1 DEF SucceededWasExecuted
  <2>3. SettledIsAudited'
    BY <1>2, <2>1 DEF SettledIsAudited
  <2>. QED  BY <2>1, <2>2, <2>3
<1>. QED  BY <1>4, <1>5

LEMMA UpdateOperationStep ==
  ASSUME IInv, NEW r \in Requests, UpdateOperation(r)
  PROVE  IInv'
<1>. USE DEF IInv
<1> DEFINE final == FinalState(r)
<1>1. /\ pc[r] = "updateOperation" /\ input[r] \in Inputs
      /\ answer[r] # NoAnswer /\ <<r, "response">> \in logs
      /\ final = "SUCCEEDED" => call[r] = "executed"
  BY DEF UpdateOperation, FinalState, TypeOK, CallProgress, Answered
<1>2. /\ local' = [local EXCEPT ![r] = final]
      /\ UNCHANGED <<payments, logs, input, copy, call, answer>>
  BY DEF UpdateOperation
<1>3. PICK o \in DbOutcomes :
        /\ IF Executed(o) THEN StoreOperation(r, final) ELSE UNCHANGED operations
        /\ IF Raised(o) THEN Goto(r, "catchLog")
           ELSE Finish(r, IF final = "FAILED" THEN "providerFailure" ELSE "ok")
  BY DEF UpdateOperation
<1>4. final \in {"SUCCEEDED", "FAILED"}
  BY DEF FinalState
<1> HIDE DEF final
<1>5. /\ operations' \in [Slots -> OperationRow \cup {NoOperation}]
      /\ \A s \in Slots : s # Slot(input[r]) => operations'[s] = operations[s]
      /\ operations'[Slot(input[r])] # NoOperation
      /\ operations'[Slot(input[r])].id = r
      /\ operations'[Slot(input[r])].requestHash = requestHash(input[r])
      /\ SucceededWasExecuted'
      /\ SettledIsAudited'
  BY <1>1, <1>2, <1>3, <1>4, StoreStep DEF Trying
<1>6. TypeOK'
  BY <1>1, <1>2, <1>3, <1>4, <1>5
     DEF TypeOK, Labels, Outcomes, InFlight, PaymentsTypeOK, OperationStates, Goto, Finish
<1>7. ASSUME NEW q \in Requests PROVE OwnsRow(q)' /\ CallProgress(q)'
  <2>1. CASE q = r
    <3>1. /\ pc'[r] \in {"catchLog", "done"}
          /\ local'[r] = final
      BY <1>2, <1>3 DEF TypeOK, Goto, Finish
    <3>2. operations'[Slot(input[r])].state = "FAILED" => final = "FAILED"
      <4>1. operations[Slot(input[r])].state = "STARTED"
        BY <1>1 DEF OwnsRow, Trying
      <4>2. CASE UNCHANGED operations
        BY <4>1, <4>2
      <4>3. CASE StoreOperation(r, final)
        <5>1. operations[Slot(input[r])] # NoOperation
          BY <1>1 DEF OwnsRow, Trying
        <5>2. operations[Slot(input[r])].requestHash = requestHash(input[r])
          BY <1>1, <5>1, SlotType DEF RowOrigin, OwnsRow, Trying
        <5>3. operations'[Slot(input[r])].state = final
          BY <1>1, <1>4, <4>3, <5>1, <5>2, StoreOperationEffect DEF TypeOK, OperationStates
        <5>. QED  BY <5>3
      <4>. QED  BY <1>3, <4>2, <4>3
    <3>3. OwnsRow(r)'
      BY <1>2, <1>4, <1>5, <3>1, <3>2 DEF OwnsRow, Trying, Catching, OperationStates
    <3>4. CallProgress(r)'
      BY <1>1, <1>2, <3>1 DEF CallProgress, Invoked, BeforeInvoke, Answered
    <3>. QED  BY <2>1, <3>3, <3>4
  <2>2. CASE q # r
    <3>1. pc'[q] = pc[q] /\ local'[q] = local[q]
      BY <1>1, <1>2, <1>7, <2>2 DEF TypeOK, UpdateOperation, Goto, Finish
    <3>2. pc[q] \in Trying \cup Catching \/ Invoked(q) =>
            operations'[Slot(input[q])] = operations[Slot(input[q])]
      <4>. SUFFICES ASSUME pc[q] \in Trying \cup Catching \/ Invoked(q)
                    PROVE  operations'[Slot(input[q])] = operations[Slot(input[q])]
        OBVIOUS
      <4>1. input[q] \in Inputs /\ Slot(input[q]) \in Slots
        BY <1>7, SlotType DEF TypeOK, CallProgress, BeforeInvoke, Trying, Catching
      <4>2. Slot(input[q]) # Slot(input[r])
        BY <1>1, <1>7, <2>2 DEF OwnsRow, Trying, Catching
      <4>. QED  BY <1>5, <4>1, <4>2
    <3>. QED  BY <1>2, <1>7, <3>1, <3>2 DEF OwnsRow, CallProgress, Invoked, Trying, Catching
  <2>. QED  BY <2>1, <2>2
<1>8. ASSUME NEW s \in Slots PROVE RowOrigin(s)'
  BY <1>1, <1>2, <1>5, <1>6, <1>8 DEF RowOrigin, TypeOK, OperationRow, UpdateOperation, Goto, Finish
<1>. QED  BY <1>5, <1>6, <1>7, <1>8

LEMMA CatchUpdateStep ==
  ASSUME IInv, NEW r \in Requests, CatchUpdate(r)
  PROVE  IInv'
<1>. USE DEF IInv
<1>1. pc[r] = "catchUpdate" /\ input[r] \in Inputs /\ <<r, "error">> \in logs
  BY DEF CatchUpdate, TypeOK, CallProgress
<1>2. /\ local' = [local EXCEPT ![r] = "FAILED"]
      /\ Finish(r, "error")
      /\ UNCHANGED <<payments, logs, input, copy, call, answer>>
  BY DEF CatchUpdate
<1>3. StoreOperation(r, "FAILED") \/ UNCHANGED operations
  BY DEF CatchUpdate
<1>5. /\ operations' \in [Slots -> OperationRow \cup {NoOperation}]
      /\ \A s \in Slots : s # Slot(input[r]) => operations'[s] = operations[s]
      /\ operations'[Slot(input[r])] # NoOperation
      /\ operations'[Slot(input[r])].id = r
      /\ operations'[Slot(input[r])].requestHash = requestHash(input[r])
      /\ SucceededWasExecuted'
      /\ SettledIsAudited'
  BY <1>1, <1>2, <1>3, StoreStep DEF Catching
<1>6. TypeOK'
  BY <1>1, <1>2, <1>5
     DEF TypeOK, Labels, Outcomes, InFlight, PaymentsTypeOK, OperationStates, Finish
<1>7. ASSUME NEW q \in Requests PROVE OwnsRow(q)' /\ CallProgress(q)'
  <2>1. CASE q = r
    <3>1. pc'[r] = "done"
      BY <1>2 DEF TypeOK, Finish
    <3>. QED
      BY <1>1, <1>2, <1>5, <2>1, <3>1
         DEF OwnsRow, CallProgress, Invoked, Trying, Catching, BeforeInvoke, Answered
  <2>2. CASE q # r
    <3>1. pc'[q] = pc[q] /\ local'[q] = local[q]
      BY <1>1, <1>2, <1>7, <2>2 DEF TypeOK, CatchUpdate, Goto, Finish
    <3>2. pc[q] \in Trying \cup Catching \/ Invoked(q) =>
            operations'[Slot(input[q])] = operations[Slot(input[q])]
      <4>. SUFFICES ASSUME pc[q] \in Trying \cup Catching \/ Invoked(q)
                    PROVE  operations'[Slot(input[q])] = operations[Slot(input[q])]
        OBVIOUS
      <4>1. input[q] \in Inputs /\ Slot(input[q]) \in Slots
        BY <1>7, SlotType DEF TypeOK, CallProgress, BeforeInvoke, Trying, Catching
      <4>2. Slot(input[q]) # Slot(input[r])
        BY <1>1, <1>7, <2>2 DEF OwnsRow, Trying, Catching
      <4>. QED  BY <1>5, <4>1, <4>2
    <3>. QED  BY <1>2, <1>7, <3>1, <3>2 DEF OwnsRow, CallProgress, Invoked, Trying, Catching
  <2>. QED  BY <2>1, <2>2
<1>8. ASSUME NEW s \in Slots PROVE RowOrigin(s)'
  BY <1>1, <1>2, <1>5, <1>6, <1>8 DEF RowOrigin, TypeOK, OperationRow, CatchUpdate, Goto, Finish
<1>. QED  BY <1>5, <1>6, <1>7, <1>8

LEMMA CrashStep ==
  ASSUME IInv, Crash
  PROVE  IInv'
<1>. USE DEF IInv, Crash
<1>1. \A q \in Requests : pc'[q] = pc[q] \/ (pc[q] # "new" /\ pc'[q] = "crashed")
  BY DEF InFlight
<1>2. TypeOK'
  BY DEF TypeOK, Labels, InFlight, PaymentsTypeOK
<1>3. ASSUME NEW q \in Requests PROVE OwnsRow(q)' /\ CallProgress(q)'
  BY <1>1, <1>3 DEF OwnsRow, CallProgress, Invoked, Trying, Catching, BeforeInvoke, Answered
<1>4. ASSUME NEW s \in Slots PROVE RowOrigin(s)'
  BY <1>1, <1>4 DEF TypeOK, RowOrigin, OperationRow
<1>5. SucceededWasExecuted' /\ SettledIsAudited'
  BY DEF SucceededWasExecuted, SettledIsAudited
<1>. QED  BY <1>2, <1>3, <1>4, <1>5

LEMMA ForeignWriteStep ==
  ASSUME IInv, NEW p \in PaymentIds, ForeignWrite(p)
  PROVE  IInv'
<1>. USE DEF IInv, ForeignWrite, opVars
<1>1. TypeOK'
  BY OperationsAssumption, UpdateRowType DEF TypeOK, InFlight, PaymentRow
<1>2. ASSUME NEW q \in Requests PROVE OwnsRow(q)' /\ CallProgress(q)'
  BY <1>2 DEF OwnsRow, CallProgress, Invoked
<1>3. ASSUME NEW s \in Slots PROVE RowOrigin(s)'
  BY <1>3 DEF RowOrigin
<1>4. SucceededWasExecuted' /\ SettledIsAudited'
  BY DEF SucceededWasExecuted, SettledIsAudited
<1>. QED  BY <1>1, <1>2, <1>3, <1>4

LEMMA StutterStep ==
  ASSUME IInv, UNCHANGED vars
  PROVE  IInv'
BY DEF IInv, vars, opVars, TypeOK, PaymentsTypeOK, InFlight, OwnsRow, CallProgress, Invoked,
       RowOrigin, SucceededWasExecuted, SettledIsAudited

-----------------------------------------------------------------------------
(* The theorems                                                            *)

LEMMA InitIInv == Init => IInv
<1>. SUFFICES ASSUME Init PROVE IInv
  OBVIOUS
<1>1. TypeOK
  BY OperationsAssumption
     DEF Init, TypeOK, PaymentsTypeOK, PaymentRow, Labels, Outcomes, InFlight
<1>2. (\A r \in Requests : OwnsRow(r) /\ CallProgress(r)) /\ (\A s \in Slots : RowOrigin(s))
  BY DEF Init, OwnsRow, CallProgress, RowOrigin, Invoked, Trying, Catching, Answered
<1>3. SucceededWasExecuted /\ SettledIsAudited
  BY DEF Init, SucceededWasExecuted, SettledIsAudited
<1>. QED  BY <1>1, <1>2, <1>3 DEF IInv

LEMMA NextIInv == IInv /\ [Next]_vars => IInv'
<1>. SUFFICES ASSUME IInv, [Next]_vars PROVE IInv'
  OBVIOUS
<1>1. ASSUME NEW r \in Requests, NEW i \in Inputs, FindPayment(r, i) PROVE IInv'
  BY <1>1, FindPaymentStep
<1>2. ASSUME NEW r \in Requests, Resume(r) PROVE IInv'
  BY <1>2, FindOperationStep, CreateOperationStep, InvokeProviderStep,
     ProviderCallRejectsStep, ApplyOperationResultStep, UpdatePaymentStep,
     CreateLogStep, UpdateOperationStep, CatchLogStep, CatchUpdateStep
     DEF Resume
<1>3. ASSUME NEW r \in Requests, ProviderServes(r) PROVE IInv'
  BY <1>3, ProviderServesStep
<1>4. CASE Crash
  BY <1>4, CrashStep
<1>5. ASSUME NEW p \in PaymentIds, ForeignWrite(p) PROVE IInv'
  BY <1>5, ForeignWriteStep
<1>6. CASE UNCHANGED vars
  BY <1>6, StutterStep
<1>. QED  BY <1>1, <1>2, <1>3, <1>4, <1>5, <1>6 DEF Next

\* Whatever the interleaving, the crashes and the lost statements, the
\* inductive invariant holds in every state of the specification.
THEOREM Invariance == Spec => []IInv
BY InitIInv, NextIInv, PTL DEF Spec

\* The tables and the local state of every request stay well-typed.
THEOREM TypeCorrect == Spec => []TypeOK
<1>1. IInv => TypeOK
  BY DEF IInv
<1>. QED  BY <1>1, Invariance, PTL

\* One provider invocation per (payment, type, idempotency key), for any number
\* of requests: the row with the unique key has one creator, and only the
\* creator goes on to invoke.
THEOREM OneInvocation == Spec => []AtMostOneInvocation
<1>1. IInv => AtMostOneInvocation
  BY DEF IInv, AtMostOneInvocation, OwnsRow
<1>. QED  BY <1>1, Invariance, PTL

\* A SUCCEEDED operation was executed by the provider for its creator, and its
\* answer logged.
THEOREM SucceededOperationsWereExecuted == Spec => []SucceededWasExecuted
<1>1. IInv => SucceededWasExecuted
  BY DEF IInv
<1>. QED  BY <1>1, Invariance, PTL

\* A settled operation left a log row, whichever way it was settled.
THEOREM SettledOperationsAreAudited == Spec => []SettledIsAudited
<1>1. IInv => SettledIsAudited
  BY DEF IInv
<1>. QED  BY <1>1, Invariance, PTL

-----------------------------------------------------------------------------
(* A row moves only under its owner's final write, and not once it is FAILED *)

LEMMA RowMoves ==
  ASSUME IInv, [Next]_vars, NEW s \in Slots,
         operations[s] # NoOperation, operations'[s] # operations[s]
  PROVE  /\ operations[s].state # "FAILED"
         /\ pc[operations[s].id] \in {"updateOperation", "catchUpdate"}
<1>1. CASE UNCHANGED operations
  BY <1>1
<1>2. ASSUME NEW r \in Requests, CreateOperation(r) PROVE FALSE
  BY <1>2 DEF CreateOperation, IInv, TypeOK, DbOutcomes, Executed, Raised
<1>3. ASSUME NEW r \in Requests, UpdateOperation(r)
      PROVE  s = Slot(input[r]) /\ pc[r] = "updateOperation"
  BY <1>3 DEF UpdateOperation, StoreOperation, IInv, TypeOK
<1>4. ASSUME NEW r \in Requests, CatchUpdate(r)
      PROVE  s = Slot(input[r]) /\ pc[r] = "catchUpdate"
  BY <1>4 DEF CatchUpdate, StoreOperation, IInv, TypeOK
<1>5. ASSUME NEW r \in Requests, s = Slot(input[r]),
             pc[r] \in {"updateOperation", "catchUpdate"}
      PROVE  operations[s].id = r /\ operations[s].state # "FAILED"
  BY <1>5 DEF IInv, OwnsRow, Trying, Catching
<1>6. \/ UNCHANGED operations
      \/ \E r \in Requests : CreateOperation(r) \/ UpdateOperation(r) \/ CatchUpdate(r)
  BY DEF Next, Resume, vars, opVars, FindPayment, FindOperation, InvokeProvider,
         ProviderCallRejects, ApplyOperationResult, UpdatePayment, CreateLog, CatchLog,
         ProviderServes, Crash, ForeignWrite
<1>. QED  BY <1>1, <1>2, <1>3, <1>4, <1>5, <1>6

\* A FAILED operation is never reopened.
THEOREM FailedStaysFailed == Spec => FailedIsFinal
<1>1. IInv /\ [Next]_vars =>
        \A s \in Slots : operations[s] # NoOperation /\ operations[s].state = "FAILED"
                         => operations'[s] = operations[s]
  BY RowMoves
<1>. QED  BY <1>1, Invariance, PTL DEF Spec, FailedIsFinal

\* The provider is only invoked for an existing STARTED row of the invoker's own.
THEOREM InvocationsAreRecorded == Spec => InvokedWhileStarted
<1> DEFINE A == \A r \in Requests : ~Invoked(r) /\ Invoked(r)' =>
                  /\ operations[Slot(input[r])] # NoOperation
                  /\ operations[Slot(input[r])].state = "STARTED"
                  /\ operations[Slot(input[r])].id = r
<1>1. IInv /\ [Next]_vars => A
  <2>. SUFFICES ASSUME IInv, [Next]_vars, NEW r \in Requests, ~Invoked(r), Invoked(r)'
                PROVE  /\ operations[Slot(input[r])] # NoOperation
                       /\ operations[Slot(input[r])].state = "STARTED"
                       /\ operations[Slot(input[r])].id = r
    OBVIOUS
  <2>1. InvokeProvider(r)
    <3>1. ASSUME NEW q \in Requests, InvokeProvider(q) PROVE q = r
      BY <3>1 DEF InvokeProvider, Invoked, IInv, TypeOK
    <3>2. ASSUME NEW q \in Requests, ProviderServes(q) PROVE FALSE
      BY <3>2 DEF ProviderServes, Invoked, IInv, TypeOK
    <3>3. ~UNCHANGED call
      BY DEF Invoked
    <3>. QED
      BY <3>1, <3>2, <3>3
         DEF Next, Resume, vars, opVars, FindPayment, FindOperation, CreateOperation,
             ProviderCallRejects, ApplyOperationResult, UpdatePayment, CreateLog,
             UpdateOperation, CatchLog, CatchUpdate, Crash, ForeignWrite
  <2>. QED  BY <2>1 DEF InvokeProvider, IInv, OwnsRow, Trying
<1>. QED  BY <1>1, Invariance, PTL DEF Spec, InvokedWhileStarted

\* An answered request does not move any more.
LEMMA DoneStays ==
  ASSUME IInv, [Next]_vars, NEW r \in Requests, pc[r] = "done"
  PROVE  pc'[r] = "done" /\ input'[r] = input[r] /\ outcome'[r] = outcome[r]
<1>1. ASSUME NEW q \in Requests, Resume(q)
      PROVE  /\ pc[q] # "done" /\ input' = input
             /\ \E l : pc' = [pc EXCEPT ![q] = l]
             /\ UNCHANGED outcome \/ \E o : outcome' = [outcome EXCEPT ![q] = o]
  <2>1. pc[q] # "done" /\ input' = input
    BY <1>1
       DEF Resume, FindOperation, CreateOperation, InvokeProvider, ProviderCallRejects,
           ApplyOperationResult, UpdatePayment, CreateLog, UpdateOperation, CatchLog,
           CatchUpdate
  <2>2. \/ \E l : Goto(q, l)
        \/ \E o : Finish(q, o)
    BY <1>1
       DEF Resume, FindOperation, CreateOperation, InvokeProvider, ProviderCallRejects,
           ApplyOperationResult, UpdatePayment, CreateLog, UpdateOperation, CatchLog,
           CatchUpdate
  <2>. QED  BY <2>1, <2>2 DEF Goto, Finish
<1>2. ASSUME NEW q \in Requests, Resume(q)
      PROVE  pc'[r] = pc[r] /\ input'[r] = input[r] /\ outcome'[r] = outcome[r]
  BY <1>1, <1>2 DEF IInv, TypeOK
<1>3. ASSUME NEW q \in Requests, NEW i \in Inputs, FindPayment(q, i)
      PROVE  pc'[r] = pc[r] /\ input'[r] = input[r] /\ outcome'[r] = outcome[r]
  BY <1>3 DEF FindPayment, Goto, Finish, IInv, TypeOK
<1>4. CASE Crash
  BY <1>4 DEF Crash, InFlight
<1>. QED
  BY <1>2, <1>3, <1>4 DEF Next, ProviderServes, ForeignWrite, vars, opVars

LEMMA OutcomeStep ==
  ASSUME IInv, [Next]_vars, NEW r \in Requests, OutcomeStored(r)
  PROVE  OutcomeStored(r)'
<1> DEFINE Told == {"ok", "providerFailure", "previouslyFailed"}
           s0 == Slot(input[r])
<1>1. CASE outcome[r] \in Told
  <2>1. pc'[r] = "done" /\ input'[r] = input[r] /\ outcome'[r] = outcome[r]
    <3>1. pc[r] = "done"
      BY <1>1 DEF OutcomeStored
    <3>. QED  BY <3>1, DoneStays
  <2>2. s0 \in Slots /\ operations[s0] # NoOperation
    BY <1>1, SlotType DEF OutcomeStored, IInv, TypeOK
  <2>3. operations'[s0] = operations[s0]
    BY <1>1, <2>2, RowMoves DEF OutcomeStored
  <2>. QED  BY <1>1, <2>1, <2>3 DEF OutcomeStored
<1>2. CASE outcome[r] \notin Told /\ outcome'[r] \in Told
  <2>1. FindOperation(r) \/ UpdateOperation(r)
    <3>1. \/ \E q \in Requests : FindOperation(q) \/ UpdateOperation(q)
          \/ \E q \in Requests, o \in Outcomes \ Told : outcome' = [outcome EXCEPT ![q] = o]
          \/ UNCHANGED outcome
      <4>1. ASSUME NEW q \in Requests, Resume(q)
            PROVE  \/ FindOperation(q) \/ UpdateOperation(q)
                   \/ \E o \in Outcomes \ Told : outcome' = [outcome EXCEPT ![q] = o]
                   \/ UNCHANGED outcome
        BY <4>1
           DEF Resume, CreateOperation, InvokeProvider, ProviderCallRejects,
               ApplyOperationResult, UpdatePayment, CreateLog, CatchLog, CatchUpdate,
               Goto, Finish, Outcomes
      <4>2. ASSUME NEW q \in Requests, NEW i \in Inputs, FindPayment(q, i)
            PROVE  \/ \E o \in Outcomes \ Told : outcome' = [outcome EXCEPT ![q] = o]
                   \/ UNCHANGED outcome
        BY <4>2 DEF FindPayment, Goto, Finish, Outcomes
      <4>. QED
        BY <4>1, <4>2 DEF Next, ProviderServes, Crash, ForeignWrite, vars, opVars
    <3>2. ASSUME NEW q \in Requests, FindOperation(q) \/ UpdateOperation(q), q # r
          PROVE  outcome'[r] = outcome[r]
      BY <3>2 DEF FindOperation, UpdateOperation, Goto, Finish, IInv, TypeOK
    <3>. QED  BY <1>2, <3>1, <3>2 DEF IInv, TypeOK
  <2>2. CASE FindOperation(r)
    BY <1>2, <2>2 DEF FindOperation, OutcomeStored, Goto, Finish, IInv, TypeOK
  <2>3. CASE UpdateOperation(r)
    <3> DEFINE final == FinalState(r)
    <3>1. /\ StoreOperation(r, final)
          /\ Finish(r, IF final = "FAILED" THEN "providerFailure" ELSE "ok")
          /\ UNCHANGED input
          /\ pc[r] = "updateOperation"
      BY <1>2, <2>3
         DEF UpdateOperation, DbOutcomes, Executed, Raised, Goto
    <3>2. /\ input[r] \in Inputs /\ operations[s0] # NoOperation /\ operations[s0].id = r
          /\ operations[s0].requestHash = requestHash(input[r])
      BY <3>1, SlotType DEF IInv, TypeOK, OwnsRow, RowOrigin, Trying
    <3>3. final \in OperationStates
      BY DEF FinalState, OperationStates
    <3>4. /\ operations'[s0] # NoOperation /\ operations'[s0].id = r
          /\ operations'[s0].state = final
      BY <3>1, <3>2, <3>3, StoreOperationEffect DEF IInv, TypeOK
    <3>. QED  BY <3>1, <3>3, <3>4 DEF OutcomeStored, FinalState, Finish, IInv, TypeOK
  <2>. QED  BY <2>1, <2>2, <2>3
<1>3. CASE outcome'[r] \notin Told
  BY <1>3 DEF OutcomeStored
<1>. QED  BY <1>1, <1>2, <1>3

\* Clients are told what the operations table keeps: `ok` stays SUCCEEDED, a
\* failure reported first-hand or repeated stays FAILED.
THEOREM ReportedOutcomesAreStored == Spec => []ReportedOutcomeIsStored
<1> DEFINE Inv == \A r \in Requests : OutcomeStored(r)
<1>1. Init => Inv
  BY DEF Init, OutcomeStored
<1>2. IInv /\ Inv /\ [Next]_vars => Inv'
  BY OutcomeStep
<1>3. Inv => ReportedOutcomeIsStored
  BY DEF OutcomeStored, ReportedOutcomeIsStored
<1>. QED  BY <1>1, <1>2, <1>3, Invariance, PTL DEF Spec

-----------------------------------------------------------------------------
(* Replays                                                                 *)

\* The provider does not take an execution back, and no request changes what it
\* asked for.
LEMMA ExecutionStays ==
  ASSUME IInv, [Next]_vars, NEW r \in Requests, call[r] = "executed"
  PROVE  call'[r] = "executed" /\ input'[r] = input[r]
<1>1. pc[r] # "new" /\ pc[r] \notin BeforeInvoke
  BY DEF IInv, CallProgress, Invoked, BeforeInvoke
<1>2. ASSUME NEW q \in Requests, NEW i \in Inputs, FindPayment(q, i)
      PROVE  call'[r] = "executed" /\ input'[r] = input[r]
  BY <1>1, <1>2 DEF FindPayment, IInv, TypeOK
<1>3. ASSUME NEW q \in Requests, Resume(q)
      PROVE  call'[r] = "executed" /\ input'[r] = input[r]
  <2>1. CASE InvokeProvider(q)
    BY <1>1, <2>1 DEF InvokeProvider, BeforeInvoke, IInv, TypeOK
  <2>2. CASE ~InvokeProvider(q)
    BY <1>3, <2>2
       DEF Resume, FindOperation, CreateOperation, ProviderCallRejects,
           ApplyOperationResult, UpdatePayment, CreateLog, UpdateOperation, CatchLog,
           CatchUpdate
  <2>. QED  BY <2>1, <2>2
<1>4. ASSUME NEW q \in Requests, ProviderServes(q)
      PROVE  call'[r] = "executed" /\ input'[r] = input[r]
  BY <1>4 DEF ProviderServes, IInv, TypeOK
<1>. QED
  BY <1>2, <1>3, <1>4 DEF Next, Crash, ForeignWrite, vars, opVars

LEMMA ReplayStep ==
  ASSUME IInv, [Next]_vars, NEW r \in Requests, ReplayStandsFor(r), RequestsDone(r)
  PROVE  ReplayStandsFor(r)' /\ RequestsDone(r)'
<1>1. CASE outcome[r] = "replayed"
  <2>1. pc'[r] = "done" /\ input'[r] = input[r] /\ outcome'[r] = outcome[r]
    BY <1>1, DoneStays DEF RequestsDone
  <2>2. PICK r1 \in Requests : /\ call[r1] = "executed"
                               /\ Slot(input[r1]) = Slot(input[r])
                               /\ input[r1].body = input[r].body
    BY <1>1 DEF ReplayStandsFor
  <2>3. call'[r1] = "executed" /\ input'[r1] = input[r1]
    BY <2>2, ExecutionStays
  <2>. QED  BY <1>1, <2>1, <2>2, <2>3 DEF ReplayStandsFor, RequestsDone
<1>2. CASE outcome[r] # "replayed" /\ outcome'[r] = "replayed"
  <2>1. ASSUME NEW q \in Requests, Resume(q)
        PROVE  \/ FindOperation(q)
               \/ \E o : o # "replayed" /\ outcome' = [outcome EXCEPT ![q] = o]
               \/ UNCHANGED outcome
    BY <2>1
       DEF Resume, CreateOperation, InvokeProvider, ProviderCallRejects,
           ApplyOperationResult, UpdatePayment, CreateLog, UpdateOperation, CatchLog,
           CatchUpdate, Goto, Finish
  <2>2. ASSUME NEW q \in Requests, NEW i \in Inputs, FindPayment(q, i)
        PROVE  \/ \E o : o # "replayed" /\ outcome' = [outcome EXCEPT ![q] = o]
               \/ UNCHANGED outcome
    BY <2>2 DEF FindPayment, Goto, Finish
  <2>3. \E q \in Requests : FindOperation(q) /\ q = r
    <3>1. \A q \in Requests : \A o : o # "replayed" => outcome' # [outcome EXCEPT ![q] = o]
      BY <1>2 DEF IInv, TypeOK
    <3>2. outcome' # outcome
      BY <1>2
    <3>3. \E q \in Requests : FindOperation(q)
      BY <2>1, <2>2, <3>1, <3>2
         DEF Next, ProviderServes, Crash, ForeignWrite, vars, opVars
    <3>. QED  BY <1>2, <3>3 DEF FindOperation, Goto, Finish, IInv, TypeOK
  <2> DEFINE row == operations[Slot(input[r])]
  <2>4. /\ row # NoOperation /\ row.requestHash = requestHash(input[r])
        /\ row.state = "SUCCEEDED" /\ pc[r] = "findOperation" /\ pc'[r] = "done"
        /\ UNCHANGED <<input, call>>
    BY <1>2, <2>3 DEF FindOperation, Goto, Finish, IInv, TypeOK
  <2>5. Slot(input[r]) \in Slots
    BY <2>4, SlotType DEF IInv, TypeOK
  <2>6. /\ row.id \in Requests
        /\ Slot(input[row.id]) = Slot(input[r]) /\ call[row.id] = "executed"
        /\ row.requestHash = requestHash(input[row.id])
    BY <2>4, <2>5 DEF IInv, TypeOK, OperationRow, SucceededWasExecuted, RowOrigin
  <2>. QED  BY <2>4, <2>6 DEF ReplayStandsFor, RequestsDone, requestHash
<1>3. CASE outcome'[r] # "replayed"
  BY <1>3 DEF ReplayStandsFor, RequestsDone
<1>. QED  BY <1>1, <1>2, <1>3

\* A replayed success stands for an execution of the same payload: whichever
\* requests share a key, none is answered with the result of a different one.
THEOREM ReplaysAreOfTheSameRequest == Spec => []ReplayIsOfSameRequest
<1> DEFINE Inv == \A r \in Requests : ReplayStandsFor(r) /\ RequestsDone(r)
<1>1. Init => Inv
  BY DEF Init, ReplayStandsFor, RequestsDone
<1>2. IInv /\ Inv /\ [Next]_vars => Inv'
  BY ReplayStep
<1>3. Inv => ReplayIsOfSameRequest
  BY DEF ReplayStandsFor, ReplayIsOfSameRequest
<1>. QED  BY <1>1, <1>2, <1>3, Invariance, PTL DEF Spec

-----------------------------------------------------------------------------
(* Refinement of OperationLedger                                           *)

\* The ledger does not move when no row and no call of a request changes.
LEMMA LedgerStutter ==
  ASSUME UNCHANGED operations,
         \A q \in Requests : call'[q] = "none" <=> call[q] = "none",
         \A q \in Requests : call[q] # "none" => input'[q] = input[q]
  PROVE  UNCHANGED <<ledgerBar, invokedBar>>
<1>1. ledgerBar' = ledgerBar
  BY DEF ledgerBar, StateOf
<1>2. invokedBar' = invokedBar
  BY DEF invokedBar, Invoked
<1>. QED  BY <1>1, <1>2

\* Changing one row moves the ledger of its slot only.
LEMMA LedgerOfOneSlot ==
  ASSUME NEW s0 \in Slots, \A s \in Slots : s # s0 => operations'[s] = operations[s]
  PROVE  ledgerBar' = [ledgerBar EXCEPT ![s0] = StateOf(operations'[s0])]
BY DEF ledgerBar, StateOf

LEMMA CreateBegins ==
  ASSUME IInv, NEW r \in Requests, CreateOperation(r)
  PROVE  [Ledger!Next]_<<ledgerBar, invokedBar>>
<1> DEFINE s0 == Slot(input[r])
           started == StartedRow(r)
<1>1. s0 \in Slots /\ started # NoOperation /\ started.state = "STARTED"
  BY SlotType, MarkersAssumption
     DEF IInv, TypeOK, CreateOperation, StartedRow, OperationRow, OperationStates
<1>2. UNCHANGED <<input, call>>
  BY DEF CreateOperation
<1>3. invokedBar' = invokedBar
  BY <1>2 DEF invokedBar, Invoked
<1>4. CASE UNCHANGED operations
  BY <1>2, <1>4, LedgerStutter
<1>5. CASE operations[s0] = NoOperation /\ operations' = [operations EXCEPT ![s0] = started]
  <2> HIDE DEF started
  <2>1. operations'[s0] = started /\ \A s \in Slots : s # s0 => operations'[s] = operations[s]
    BY <1>1, <1>5 DEF IInv, TypeOK
  <2>2. ledgerBar' = [ledgerBar EXCEPT ![s0] = "STARTED"]
    BY <1>1, <2>1, LedgerOfOneSlot DEF StateOf
  <2>3. ledgerBar[s0] = "absent"
    BY <1>1, <1>5 DEF ledgerBar, StateOf
  <2>. QED  BY <1>1, <1>3, <2>2, <2>3 DEF Ledger!Next, Ledger!Begin
<1>. QED  BY <1>4, <1>5 DEF CreateOperation

LEMMA InvokeInvokes ==
  ASSUME IInv, NEW r \in Requests, InvokeProvider(r)
  PROVE  [Ledger!Next]_<<ledgerBar, invokedBar>>
<1> DEFINE s0 == Slot(input[r])
<1>1. /\ s0 \in Slots /\ ~Invoked(r)
      /\ operations[s0] # NoOperation /\ operations[s0].id = r
      /\ operations[s0].state = "STARTED"
  BY SlotType
     DEF IInv, TypeOK, InvokeProvider, OwnsRow, CallProgress, BeforeInvoke, Trying
<1>2. UNCHANGED <<input, operations>>
  BY DEF InvokeProvider
<1>3. CASE UNCHANGED call
  BY <1>2, <1>3, LedgerStutter
<1>4. CASE call' = [call EXCEPT ![r] = "sent"]
  <2>1. s0 \notin invokedBar
    BY <1>1 DEF invokedBar, IInv, OwnsRow
  <2>2. \A q \in Requests : Invoked(q)' <=> Invoked(q) \/ q = r
    BY <1>4 DEF IInv, TypeOK, Invoked
  <2>3. invokedBar' = invokedBar \cup {s0}
    BY <1>2, <2>2 DEF invokedBar
  <2>4. ledgerBar' = ledgerBar /\ ledgerBar[s0] = "STARTED"
    BY <1>1, <1>2 DEF ledgerBar, StateOf
  <2>. QED  BY <1>1, <2>1, <2>3, <2>4 DEF Ledger!Next, Ledger!Invoke
<1>. QED  BY <1>3, <1>4 DEF InvokeProvider

\* What storing a final state means for the ledger.
LEMMA StoreSettles ==
  ASSUME IInv, NEW r \in Requests, NEW state \in {"SUCCEEDED", "FAILED"},
         pc[r] \in Trying \cup Catching,
         StoreOperation(r, state), UNCHANGED <<input, call>>,
         operations[Slot(input[r])].state \in {"STARTED", "SUCCEEDED"},
         state = "SUCCEEDED" =>
           operations[Slot(input[r])].state = "STARTED" /\ Invoked(r)
  PROVE  Ledger!Next
<1> DEFINE s0 == Slot(input[r])
<1>1. input[r] \in Inputs /\ s0 \in Slots
  BY SlotType DEF IInv, TypeOK, Trying, Catching
<1>2. operations[s0] # NoOperation /\ operations[s0].requestHash = requestHash(input[r])
  BY <1>1 DEF IInv, OwnsRow, RowOrigin
<1>3. /\ \A s \in Slots : s # s0 => operations'[s] = operations[s]
      /\ operations'[s0] # NoOperation
      /\ operations'[s0].state = state
  BY <1>1, <1>2, StoreOperationEffect DEF IInv, TypeOK, OperationStates
<1>4. ledgerBar' = [ledgerBar EXCEPT ![s0] = state]
  BY <1>1, <1>3, LedgerOfOneSlot DEF StateOf
<1>5. ledgerBar[s0] = operations[s0].state
  BY <1>1, <1>2 DEF ledgerBar, StateOf
<1>6. invokedBar' = invokedBar
  BY DEF invokedBar, Invoked
<1>7. CASE state = "SUCCEEDED"
  <2>1. s0 \in invokedBar
    BY <1>7 DEF invokedBar
  <2>. QED  BY <1>1, <1>4, <1>5, <1>6, <1>7, <2>1 DEF Ledger!Next, Ledger!Succeed
<1>8. CASE state = "FAILED"
  BY <1>1, <1>4, <1>5, <1>6, <1>8 DEF Ledger!Next, Ledger!Fail
<1>. QED  BY <1>7, <1>8

LEMMA UpdateSettles ==
  ASSUME IInv, NEW r \in Requests, UpdateOperation(r)
  PROVE  [Ledger!Next]_<<ledgerBar, invokedBar>>
<1>1. /\ operations[Slot(input[r])].state = "STARTED" /\ pc[r] \in Trying
      /\ answer[r].status # "FAILED" => Invoked(r)
  BY DEF IInv, UpdateOperation, OwnsRow, CallProgress, Answered, Trying, Invoked
<1>2. UNCHANGED <<input, call>>
  BY DEF UpdateOperation
<1>3. CASE UNCHANGED operations
  BY <1>2, <1>3, LedgerStutter
<1>4. CASE StoreOperation(r, "FAILED")
  BY <1>1, <1>2, <1>4, StoreSettles
<1>5. CASE StoreOperation(r, "SUCCEEDED") /\ answer[r].status # "FAILED"
  BY <1>1, <1>2, <1>5, StoreSettles
<1>. QED  BY <1>3, <1>4, <1>5 DEF UpdateOperation, FinalState

LEMMA CatchUpdateSettles ==
  ASSUME IInv, NEW r \in Requests, CatchUpdate(r)
  PROVE  [Ledger!Next]_<<ledgerBar, invokedBar>>
<1>1. operations[Slot(input[r])].state \in {"STARTED", "SUCCEEDED"} /\ pc[r] \in Catching
  <2>1. /\ pc[r] = "catchUpdate" /\ input[r] \in Inputs
    BY DEF CatchUpdate, IInv, TypeOK
  <2>2. operations[Slot(input[r])] \in OperationRow /\ operations[Slot(input[r])].state # "FAILED"
    BY <2>1, SlotType DEF IInv, TypeOK, OwnsRow, Catching
  <2>. QED  BY <2>1, <2>2 DEF OperationRow, OperationStates, Catching
<1>2. UNCHANGED <<input, call>>
  BY DEF CatchUpdate
<1>3. CASE UNCHANGED operations
  BY <1>2, <1>3, LedgerStutter
<1>4. CASE StoreOperation(r, "FAILED")
  BY <1>1, <1>2, <1>4, StoreSettles
<1>. QED  BY <1>3, <1>4 DEF CatchUpdate

LEMMA NextImplementsLedger ==
  ASSUME IInv, [Next]_vars
  PROVE  [Ledger!Next]_<<ledgerBar, invokedBar>>
<1>1. ASSUME NEW r \in Requests, NEW i \in Inputs, FindPayment(r, i)
      PROVE  UNCHANGED <<ledgerBar, invokedBar>>
  BY <1>1, LedgerStutter
     DEF FindPayment, IInv, TypeOK, CallProgress, Invoked, BeforeInvoke
<1>2. ASSUME NEW r \in Requests, Resume(r)
      PROVE  [Ledger!Next]_<<ledgerBar, invokedBar>>
  <2>1. CASE \/ FindOperation(r) \/ ProviderCallRejects(r) \/ ApplyOperationResult(r)
             \/ UpdatePayment(r) \/ CreateLog(r) \/ CatchLog(r)
    <3>1. UNCHANGED <<operations, input, call>>
      BY <2>1 DEF FindOperation, ProviderCallRejects, ApplyOperationResult,
                  UpdatePayment, CreateLog, CatchLog
    <3>. QED  BY <3>1, LedgerStutter
  <2>. QED
    BY <1>2, <2>1, CreateBegins, InvokeInvokes, UpdateSettles, CatchUpdateSettles DEF Resume
<1>3. ASSUME NEW r \in Requests, ProviderServes(r)
      PROVE  UNCHANGED <<ledgerBar, invokedBar>>
  BY <1>3, LedgerStutter DEF ProviderServes, IInv, TypeOK
<1>4. ASSUME NEW p \in PaymentIds, ForeignWrite(p)
      PROVE  UNCHANGED <<ledgerBar, invokedBar>>
  BY <1>4, LedgerStutter DEF ForeignWrite, opVars
<1>5. CASE Crash
  BY <1>5, LedgerStutter DEF Crash
<1>6. CASE UNCHANGED vars
  BY <1>6, LedgerStutter DEF vars, opVars
<1>. QED  BY <1>1, <1>2, <1>3, <1>4, <1>5, <1>6 DEF Next

\* For any number of requests, the rows and calls of the service behave like
\* the abstract ledger: begun once, invoked at most once while begun,
\* succeeded only after an invocation, final once failed.
THEOREM Refinement == Spec => ImplementsLedger
<1>1. Init => Ledger!Init
  BY DEF Init, Ledger!Init, ledgerBar, invokedBar, StateOf, Invoked
<1>2. IInv /\ [Next]_vars => [Ledger!Next]_<<ledgerBar, invokedBar>>
  BY NextImplementsLedger
<1>. QED  BY <1>1, <1>2, Invariance, PTL DEF Spec, ImplementsLedger, Ledger!Spec

=============================================================================
