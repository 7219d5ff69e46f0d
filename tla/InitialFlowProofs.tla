-------------------------- MODULE InitialFlowProofs --------------------------
(***************************************************************************)
(* Proofs about InitialFlow, for any sets of requests, keys, bodies and    *)
(* candidate lists.                                                        *)
(***************************************************************************)
EXTENDS InitialFlow, TLAPS

-----------------------------------------------------------------------------
(* Lemmas about the definitions the steps are made of                      *)

LEMMA BoundType == MaxCandidates \in Nat
BY RoutesAssumption

\* A candidate list the routing service returns names providers, at least one.
LEMMA RouteType ==
  ASSUME NEW candidates \in Routes
  PROVE  /\ Len(candidates) \in Candidates
         /\ \A i \in 1..Len(candidates) : i \in Candidates /\ candidates[i] \in Providers
BY RoutesAssumption DEF Candidates

\* What a provider answers is an answer, and a status.
LEMMA AnswerType ==
  ASSUME NEW a \in Answers
  PROVE  /\ a # NoAnswer
         /\ a.status \in PaymentStatuses
         /\ a.providerReference \in References
<1>1. AnswerStatuses \subseteq PaymentStatuses
  BY DEF AnswerStatuses, PaymentStatuses
<1>. QED  BY <1>1, MarkersAssumption DEF Answers

\* The copies the flow makes are rows, and no row is the marker for none.
LEMMA RowType ==
  ASSUME NEW row \in PaymentRow
  PROVE  /\ row # NoPayment
         /\ \A provider \in Providers :
              /\ CreatedRow(provider) \in PaymentRow
              /\ WithProvider(row, provider) \in PaymentRow
         /\ \A status \in PaymentStatuses : WithStatus(row, status) \in PaymentRow
         /\ \A a \in Answers : WithAnswer(row, a) \in PaymentRow
<1>1. row # NoPayment
  BY MarkersAssumption
<1>2. "CREATED" \in PaymentStatuses
  BY DEF PaymentStatuses
<1>3. ASSUME NEW provider \in Providers
      PROVE  CreatedRow(provider) \in PaymentRow /\ WithProvider(row, provider) \in PaymentRow
  BY <1>2, <1>3 DEF PaymentRow, CreatedRow, WithProvider
<1>4. ASSUME NEW status \in PaymentStatuses PROVE WithStatus(row, status) \in PaymentRow
  BY <1>4 DEF PaymentRow, WithStatus
<1>5. ASSUME NEW a \in Answers PROVE WithAnswer(row, a) \in PaymentRow
  BY <1>5, AnswerType DEF PaymentRow, WithAnswer
<1>. QED  BY <1>1, <1>3, <1>4, <1>5

\* A request at work has a candidate, and a copy with that candidate's provider.
LEMMA CurrentCandidate ==
  ASSUME IInv, NEW r \in Requests, pc[r] \in Working
  PROVE  /\ index[r] \in Candidates
         /\ index[r] \in 1..Len(route[r])
         /\ Len(route[r]) \in Candidates
         /\ route[r][index[r]] \in Providers
         /\ copy[r] \in PaymentRow /\ copy[r] # NoPayment
         /\ payments[r] \in PaymentRow
<1>1. /\ route[r] \in Routes /\ copy[r] \in PaymentRow
      /\ index[r] \in Nat /\ index[r] <= Len(route[r]) /\ index[r] > 0
      /\ payments[r] \in PaymentRow
  BY RoutesAssumption DEF IInv, TypeOK, Local, OwnsRow, BeforeCreate, PaymentsTypeOK, Requests
<1>2. /\ Len(route[r]) \in Candidates
      /\ \A i \in 1..Len(route[r]) : i \in Candidates /\ route[r][i] \in Providers
  BY <1>1, RouteType
<1>. QED  BY <1>1, <1>2, RowType DEF Candidates

-----------------------------------------------------------------------------
(* Every step keeps IInv                                                   *)

\* What a step leaves alone of another request's state.
Kept(q) ==
  /\ payments'[q] = payments[q] /\ pc'[q] = pc[q] /\ input'[q] = input[q]
  /\ route'[q] = route[q] /\ index'[q] = index[q] /\ copy'[q] = copy[q]
  /\ call'[q] = call[q] /\ answer'[q] = answer[q] /\ error'[q] = error[q]
  /\ outcome'[q] = outcome[q]

Monotone == logs \subseteq logs' /\ foreign \subseteq foreign'

\* What is true of one request stays true while others move.
LEMMA OthersStay ==
  ASSUME NEW q \in Requests, Local(q), Kept(q), Monotone
  PROVE  Local(q)'
<1>. USE DEF Kept, Monotone
<1>1. OwnsRow(q)'
  BY DEF Local, OwnsRow, BeforeCreate, Invoked
<1>2. InTurn(q)'
  BY DEF Local, InTurn
<1>3. CopyProgress(q)'
  BY DEF Local, CopyProgress, StoresAnswer
<1>4. RowFollows(q)'
  BY DEF Local, RowFollows, StoresAnswer
<1>5. Answered(q)'
  BY DEF Local, Answered
<1>. QED  BY <1>1, <1>2, <1>3, <1>4, <1>5 DEF Local

\* Only an INSERT can disturb the unique key.
LEMMA KeysStay ==
  ASSUME IInv,
         \A q \in Requests : payments'[q] # NoPayment =>
                             payments[q] # NoPayment /\ input'[q] = input[q]
  PROVE  UniqueKey'
BY DEF IInv, UniqueKey

\* A replay stays right: rows are never deleted, and inputs do not change.
LEMMA ReplaysStay ==
  ASSUME IInv,
         \A q \in Requests : pc[q] # "new" => input'[q] = input[q],
         \A q \in Requests : payments[q] # NoPayment => payments'[q] # NoPayment,
         \A q \in Requests : outcome'[q] = "replayed" => outcome[q] = "replayed"
  PROVE  ReplayIsOfSameRequest'
<1>. SUFFICES ASSUME NEW q \in Requests, outcome'[q] = "replayed"
              PROVE  \E q1 \in StoredUnder(input[q].key)' : input'[q1].body = input'[q].body
  BY DEF ReplayIsOfSameRequest
<1>1. outcome[q] = "replayed" /\ pc[q] = "done" /\ input'[q] = input[q]
  BY DEF IInv, Local, Answered
<1>2. PICK q1 \in StoredUnder(input[q].key) : input[q1].body = input[q].body
  BY <1>1 DEF IInv, ReplayIsOfSameRequest
<1>3. q1 \in Requests /\ payments[q1] # NoPayment /\ input[q1].key = input[q].key
  BY <1>2 DEF StoredUnder
<1>4. input'[q1] = input[q1]
  BY <1>3 DEF IInv, Local, OwnsRow, BeforeCreate
<1>5. q1 \in StoredUnder(input[q].key)'
  BY <1>1, <1>3, <1>4 DEF StoredUnder
<1>. QED  BY <1>1, <1>2, <1>4, <1>5

\* A step of request r keeps IInv if it keeps the types, r's own part and the
\* two statements about all requests.
LEMMA StepOfOne ==
  ASSUME IInv, NEW r \in Requests, Monotone, \A q \in Requests \ {r} : Kept(q),
         TypeOK', Local(r)', UniqueKey', ReplayIsOfSameRequest'
  PROVE  IInv'
<1>1. ASSUME NEW q \in Requests PROVE Local(q)'
  BY <1>1, OthersStay DEF IInv
<1>. QED  BY <1>1 DEF IInv

LEMMA FindExistingStep ==
  ASSUME IInv, NEW r \in Requests, NEW i \in Inputs, FindExisting(r, i)
  PROVE  IInv'
<1>. USE DEF FindExisting, Finish, Goto, Requests
<1>1. TypeOK'
  BY DEF IInv, TypeOK, Labels, PaymentsTypeOK
<1>2. \A q \in Requests \ {r} : Kept(q)
  BY DEF IInv, TypeOK, PaymentsTypeOK, Kept
<1>3. Monotone
  BY DEF Monotone
<1>4. UniqueKey'
  BY KeysStay DEF IInv, TypeOK, PaymentsTypeOK, Local, OwnsRow, BeforeCreate
<1>5. ReplayIsOfSameRequest'
  <2>1. \A q \in Requests : pc[q] # "new" => input'[q] = input[q]
    BY DEF IInv, TypeOK
  <2>2. \A q \in Requests : payments[q] # NoPayment => input'[q] = input[q]
    BY <2>1 DEF IInv, Local, OwnsRow, BeforeCreate
  <2>3. ASSUME NEW q \in Requests, outcome'[q] = "replayed"
        PROVE  \E q1 \in Requests : /\ payments[q1] # NoPayment
                                    /\ input[q1].key = input'[q].key
                                    /\ input[q1].body = input'[q].body
    <3>1. CASE q = r /\ pc[r] = "new"
      BY <2>3, <3>1 DEF IInv, TypeOK, Local, Answered, StoredUnder
    <3>2. CASE q # r
      <4>1. outcome[q] = "replayed" /\ pc[q] = "done" /\ input'[q] = input[q]
        BY <2>1, <2>3, <3>2 DEF IInv, TypeOK, Local, Answered
      <4>. QED  BY <4>1 DEF IInv, ReplayIsOfSameRequest, StoredUnder
    <3>. QED  BY <3>1, <3>2
  <2>4. ASSUME NEW q \in Requests, outcome'[q] = "replayed"
        PROVE  \E q1 \in StoredUnder(input[q].key)' : input'[q1].body = input'[q].body
    <3>1. PICK q1 \in Requests : /\ payments[q1] # NoPayment
                                /\ input[q1].key = input'[q].key
                                /\ input[q1].body = input'[q].body
      BY <2>3, <2>4
    <3>2. input'[q1] = input[q1] /\ payments'[q1] # NoPayment
      BY <2>2, <3>1
    <3>3. q1 \in StoredUnder(input[q].key)'
      BY <3>1, <3>2 DEF StoredUnder
    <3>. QED  BY <3>1, <3>2, <3>3
  <2>. QED  BY <2>4 DEF ReplayIsOfSameRequest
<1>6. OwnsRow(r)'
  BY DEF IInv, TypeOK, PaymentsTypeOK, Local, OwnsRow, Invoked, BeforeCreate, Working
<1>7. InTurn(r)'
  <2>1. /\ call' = call /\ answer' = answer /\ index' = index /\ logs' = logs
        /\ pc'[r] = "attempt" => pc[r] = "attempt"
    BY DEF IInv, TypeOK
  <2>2. InTurn(r)
    BY DEF IInv, Local
  <2>. QED  BY <2>1, <2>2 DEF InTurn
<1>8. CopyProgress(r)'
  BY DEF IInv, TypeOK, Local, OwnsRow, BeforeCreate, CopyProgress, StoresAnswer
<1>9. RowFollows(r)' /\ Answered(r)'
  <2>1. outcome'[r] # "ok"
    BY DEF IInv, TypeOK, Local, Answered
  <2>. QED  BY <2>1 DEF IInv, TypeOK, PaymentsTypeOK, Local, OwnsRow, BeforeCreate, CopyProgress, RowFollows, Answered, Working
<1>. QED  BY <1>1, <1>2, <1>3, <1>4, <1>5, <1>6, <1>7, <1>8, <1>9, StepOfOne DEF Local

LEMMA ResolveCandidatesStep ==
  ASSUME IInv, NEW r \in Requests, ResolveCandidates(r)
  PROVE  IInv'
<1>. USE DEF ResolveCandidates, Finish, Goto, Requests
<1>f. /\ index[r] = 0
      /\ \A c \in Routes : /\ Len(c) \in Candidates
                          /\ CreatedRow(c[1]) \in PaymentRow
                          /\ CreatedRow(c[1]).status = "CREATED"
  BY RouteType DEF IInv, Local, OwnsRow, BeforeCreate, CreatedRow, PaymentRow, PaymentStatuses, Candidates
<1>1. TypeOK'
  <2>1. CASE UNCHANGED <<route, copy>>
    BY <2>1 DEF IInv, TypeOK, Labels, PaymentsTypeOK
  <2>2. CASE \E c \in Routes : /\ route' = [route EXCEPT ![r] = c]
                              /\ copy' = [copy EXCEPT ![r] = CreatedRow(c[1])]
                              /\ Goto(r, "create")
    <3>1. PICK c \in Routes : /\ route' = [route EXCEPT ![r] = c]
                             /\ copy' = [copy EXCEPT ![r] = CreatedRow(c[1])]
                             /\ Goto(r, "create")
      BY <2>2
    <3>2. /\ route' \in [Requests -> Routes \cup {<<>>}]
          /\ copy' \in [Requests -> PaymentRow \cup {NoCopy}]
      BY <1>f, <3>1 DEF IInv, TypeOK
    <3>3. \A q \in Requests : index'[q] <= Len(route'[q])
      BY <1>f, <3>1 DEF IInv, TypeOK, Candidates
    <3>. QED  BY <3>1, <3>2, <3>3 DEF IInv, TypeOK, Labels, PaymentsTypeOK
  <2>. QED  BY <2>1, <2>2
<1>2. \A q \in Requests \ {r} : Kept(q)
  BY DEF IInv, TypeOK, PaymentsTypeOK, Kept
<1>3. Monotone
  BY DEF Monotone
<1>4. UniqueKey'
  BY <1>f, KeysStay DEF IInv, TypeOK, PaymentsTypeOK, Local, OwnsRow, BeforeCreate
<1>5. ReplayIsOfSameRequest'
  BY <1>f, ReplaysStay DEF IInv, TypeOK, PaymentsTypeOK, Local, OwnsRow, BeforeCreate
<1>6. OwnsRow(r)'
  BY <1>f DEF IInv, TypeOK, PaymentsTypeOK, Local, OwnsRow, Invoked, BeforeCreate, Working
<1>7. InTurn(r)'
  <2>1. /\ call' = call /\ answer' = answer /\ index' = index /\ logs' = logs
        /\ pc'[r] = "attempt" => pc[r] = "attempt"
    BY DEF IInv, TypeOK
  <2>2. InTurn(r)
    BY DEF IInv, Local
  <2>. QED  BY <2>1, <2>2 DEF InTurn
<1>8. CopyProgress(r)'
  BY <1>f DEF IInv, TypeOK, Local, OwnsRow, BeforeCreate, CopyProgress, StoresAnswer
<1>9. RowFollows(r)' /\ Answered(r)'
  <2>1. outcome'[r] # "ok"
    BY DEF IInv, TypeOK, Local, Answered
  <2>. QED  BY <1>f, <2>1 DEF IInv, TypeOK, PaymentsTypeOK, Local, OwnsRow, BeforeCreate, CopyProgress, RowFollows, Answered, Working
<1>. QED  BY <1>1, <1>2, <1>3, <1>4, <1>5, <1>6, <1>7, <1>8, <1>9, StepOfOne DEF Local

LEMMA CreatePaymentStep ==
  ASSUME IInv, NEW r \in Requests, CreatePayment(r)
  PROVE  IInv'
<1>. USE DEF CreatePayment, DbOutcomes, Executed, Raised, Finish, Goto, Requests
<1>f. /\ copy[r] \in PaymentRow /\ copy[r] # NoPayment /\ copy[r].status = "CREATED"
      /\ route[r] \in Routes /\ Len(route[r]) \in Nat /\ Len(route[r]) > 0
      /\ MaxCandidates \in Nat /\ MaxCandidates > 0 /\ index[r] = 0
  <2>1. copy[r] \in PaymentRow /\ copy[r].status = "CREATED" /\ route[r] \in Routes /\ index[r] = 0
    BY DEF IInv, TypeOK, Local, OwnsRow, CopyProgress, BeforeCreate
  <2>2. Len(route[r]) \in Candidates
    BY <2>1, RouteType
  <2>. QED  BY <2>1, <2>2, RoutesAssumption, MarkersAssumption DEF Candidates
<1>1. TypeOK'
  <2>1. /\ payments' = payments \/ payments' = [payments EXCEPT ![r] = copy[r]]
        /\ index' = index \/ index' = [index EXCEPT ![r] = 1]
        /\ pc' = [pc EXCEPT ![r] = "done"] \/ pc' = [pc EXCEPT ![r] = "attempt"]
        /\ outcome' = outcome \/ outcome' = [outcome EXCEPT ![r] = "error"]
    OBVIOUS
  <2>2. PaymentsTypeOK'
    BY <1>f, <2>1 DEF IInv, TypeOK, PaymentsTypeOK
  <2>3. index' \in [Requests -> 0..MaxCandidates] /\ \A q \in Requests : index'[q] <= Len(route[q])
    <3>1. CASE index' = index
      BY <3>1 DEF IInv, TypeOK
    <3>2. CASE index' = [index EXCEPT ![r] = 1]
      <4>1. 1 \in 0..MaxCandidates /\ 1 <= Len(route[r])
        BY <1>f
      <4>. QED  BY <3>2, <4>1 DEF IInv, TypeOK
    <3>. QED  BY <2>1, <3>1, <3>2
  <2>. QED  BY <2>1, <2>2, <2>3 DEF IInv, TypeOK, Labels
<1>2. \A q \in Requests \ {r} : Kept(q)
  BY DEF IInv, TypeOK, PaymentsTypeOK, Kept
<1>3. Monotone
  BY DEF Monotone
<1>4. UniqueKey'
  <2>1. CASE payments' = payments
    BY <2>1, KeysStay DEF IInv, TypeOK
  <2>2. CASE StoredUnder(input[r].key) = {} /\ payments' = [payments EXCEPT ![r] = copy[r]]
    BY <2>2 DEF IInv, UniqueKey, StoredUnder, TypeOK, PaymentsTypeOK
  <2>. QED  BY <2>1, <2>2
<1>5. ReplayIsOfSameRequest'
  BY <1>f, ReplaysStay DEF IInv, TypeOK, PaymentsTypeOK, Local, OwnsRow, BeforeCreate
<1>6. OwnsRow(r)'
  BY <1>f DEF IInv, TypeOK, PaymentsTypeOK, Local, OwnsRow, Invoked, BeforeCreate, Working
<1>7. InTurn(r)'
  <2>1. /\ call' = call /\ answer' = answer /\ logs' = logs
        /\ index'[r] \in {0, 1}
    BY <1>f DEF IInv, TypeOK
  <2>2. ASSUME NEW i \in Candidates
        PROVE  i > 0 /\ i \in Nat /\ call[r][i] = "none" /\ answer[r][i] = NoAnswer
    <3>1. InTurn(r)
      BY DEF IInv, Local
    <3>2. i > 0 /\ i \in Nat
      BY BoundType DEF Candidates
    <3>3. index[r] = 0
      BY <1>f
    <3>4. ~(i < index[r]) /\ i # index[r]
      BY <3>2, <3>3
    <3>. HIDE DEF CreatePayment
    <3>5. call[r][i] = "none"
      BY <3>1, <3>4 DEF InTurn
    <3>. QED  BY <3>1, <3>2, <3>5 DEF InTurn
  <2>. QED  BY <2>1, <2>2 DEF InTurn
<1>8. CopyProgress(r)'
  BY <1>f DEF IInv, TypeOK, Local, OwnsRow, BeforeCreate, CopyProgress, StoresAnswer
<1>9. RowFollows(r)' /\ Answered(r)'
  <2>1. outcome'[r] # "ok" /\ pc'[r] \in {"attempt", "done"}
    BY DEF IInv, TypeOK, Local, Answered
  <2>2. pc'[r] = "attempt" => payments'[r] = copy[r]
    BY DEF IInv, TypeOK, PaymentsTypeOK
  <2>3. Answered(r)'
    BY <2>1 DEF IInv, TypeOK, Local, Answered
  <2>. QED  BY <1>f, <2>1, <2>2, <2>3 DEF RowFollows, Working
<1>. QED  BY <1>1, <1>2, <1>3, <1>4, <1>5, <1>6, <1>7, <1>8, <1>9, StepOfOne DEF Local

LEMMA AttemptStep ==
  ASSUME IInv, NEW r \in Requests, Attempt(r)
  PROVE  IInv'
<1>. USE DEF Attempt, Finish, Goto, Requests
<1>0. /\ index[r] \in Candidates /\ index[r] \in 1..Len(route[r])
      /\ Len(route[r]) \in Candidates /\ route[r][index[r]] \in Providers
      /\ copy[r] \in PaymentRow /\ copy[r] # NoPayment
      /\ payments[r] \in PaymentRow /\ pc[r] # "new"
  BY CurrentCandidate DEF Working
<1>f. \E row \in PaymentRow :
        /\ row = WithProvider(copy[r], route[r][index[r]])
        /\ row.provider = route[r][index[r]] /\ row.status = copy[r].status
  BY <1>0, RowType DEF WithProvider
<1>1. TypeOK'
  <2>1. /\ copy' = copy \/ copy' = [copy EXCEPT ![r] = WithProvider(@, route[r][index[r]])]
        /\ call' = call \/ call' = [call EXCEPT ![r] = [@ EXCEPT ![index[r]] = "sent"]]
        /\ error' = error \/ \E e \in {"retryable", "final"} : error' = [error EXCEPT ![r] = e]
    OBVIOUS
  <2>2. copy' \in [Requests -> PaymentRow \cup {NoCopy}]
    BY <1>f, <2>1 DEF IInv, TypeOK
  <2>3. call' \in [Requests -> [Candidates -> {"none", "sent", "executed", "refused"}]]
    <3>1. CASE call' = [call EXCEPT ![r] = [@ EXCEPT ![index[r]] = "sent"]]
      <4>1. PICK i \in Candidates : i = index[r] /\ call' = [call EXCEPT ![r] = [@ EXCEPT ![i] = "sent"]]
        BY <1>0, <3>1
      <4>. QED  BY <4>1 DEF IInv, TypeOK
    <3>. QED  BY <2>1, <3>1 DEF IInv, TypeOK
  <2>4. error' \in [Requests -> {"none", "retryable", "final"}]
    BY <2>1 DEF IInv, TypeOK
  <2>. QED  BY <2>2, <2>3, <2>4 DEF IInv, TypeOK, Labels, PaymentsTypeOK
<1>2. \A q \in Requests \ {r} : Kept(q)
  BY DEF IInv, TypeOK, PaymentsTypeOK, Kept
<1>3. Monotone
  BY DEF Monotone
<1>4. UniqueKey'
  BY <1>0, <1>f, KeysStay DEF IInv, TypeOK, PaymentsTypeOK, Local, OwnsRow, BeforeCreate
<1>5. ReplayIsOfSameRequest'
  BY <1>0, <1>f, ReplaysStay DEF IInv, TypeOK, PaymentsTypeOK, Local, OwnsRow, BeforeCreate
<1>6. OwnsRow(r)'
  BY <1>0, <1>f DEF IInv, TypeOK, PaymentsTypeOK, Local, OwnsRow, Invoked, BeforeCreate, Working
<1>7. InTurn(r)'
  <2>1. CASE call' = call
    BY <2>1 DEF IInv, TypeOK, Local, InTurn
  <2>2. CASE call' = [call EXCEPT ![r] = [@ EXCEPT ![index[r]] = "sent"]]
    <3>1. PICK i \in Candidates : i = index[r] /\ call' = [call EXCEPT ![r] = [@ EXCEPT ![i] = "sent"]]
      BY <1>0, <2>2
    <3>2. /\ answer' = answer /\ index' = index /\ logs' = logs
          /\ pc[r] = "attempt" /\ pc'[r] # "attempt"
      BY <2>2 DEF IInv, TypeOK
    <3>3. call[r][i] = "none" /\ answer[r][i] = NoAnswer
      <4>1. InTurn(r)
        BY DEF IInv, Local
      <4>2. i \in Nat /\ ~(i < index[r])
        BY BoundType, <3>1 DEF Candidates
      <4>3. call[r][i] = "none"
        BY <3>1, <3>2, <4>1, <4>2 DEF InTurn
      <4>. QED  BY <4>1, <4>3 DEF InTurn
    <3>. QED  BY <1>0, <3>1, <3>2, <3>3 DEF IInv, TypeOK, Local, InTurn
  <2>. QED  BY <2>1, <2>2
<1>8. CopyProgress(r)'
  BY <1>0, <1>f DEF IInv, TypeOK, Local, OwnsRow, BeforeCreate, CopyProgress, StoresAnswer
<1>9. RowFollows(r)' /\ Answered(r)'
  <2>1. outcome'[r] # "ok"
    BY DEF IInv, TypeOK, Local, Answered
  <2>. QED  BY <1>0, <1>f, <2>1 DEF IInv, TypeOK, PaymentsTypeOK, Local, OwnsRow, BeforeCreate, CopyProgress, RowFollows, Answered, Working
<1>. QED  BY <1>1, <1>2, <1>3, <1>4, <1>5, <1>6, <1>7, <1>8, <1>9, StepOfOne DEF Local

LEMMA ProviderCallRejectsStep ==
  ASSUME IInv, NEW r \in Requests, ProviderCallRejects(r)
  PROVE  IInv'
<1>. USE DEF ProviderCallRejects, Finish, Goto, Requests
<1>0. /\ index[r] \in Candidates /\ index[r] \in 1..Len(route[r])
      /\ Len(route[r]) \in Candidates /\ route[r][index[r]] \in Providers
      /\ copy[r] \in PaymentRow /\ copy[r] # NoPayment
      /\ payments[r] \in PaymentRow /\ pc[r] # "new"
  BY CurrentCandidate DEF Working
<1>1. TypeOK'
  BY <1>0 DEF IInv, TypeOK, Labels, PaymentsTypeOK
<1>2. \A q \in Requests \ {r} : Kept(q)
  BY DEF IInv, TypeOK, PaymentsTypeOK, Kept
<1>3. Monotone
  BY DEF Monotone
<1>4. UniqueKey'
  BY <1>0, KeysStay DEF IInv, TypeOK, PaymentsTypeOK, Local, OwnsRow, BeforeCreate
<1>5. ReplayIsOfSameRequest'
  BY <1>0, ReplaysStay DEF IInv, TypeOK, PaymentsTypeOK, Local, OwnsRow, BeforeCreate
<1>6. OwnsRow(r)'
  BY <1>0 DEF IInv, TypeOK, PaymentsTypeOK, Local, OwnsRow, Invoked, BeforeCreate, Working
<1>7. InTurn(r)'
  <2>1. /\ call' = call /\ answer' = answer /\ index' = index /\ logs' = logs
        /\ pc'[r] = "attempt" => pc[r] = "attempt"
    BY DEF IInv, TypeOK
  <2>2. InTurn(r)
    BY DEF IInv, Local
  <2>. QED  BY <2>1, <2>2 DEF InTurn
<1>8. CopyProgress(r)'
  BY <1>0 DEF IInv, TypeOK, Local, OwnsRow, BeforeCreate, CopyProgress, StoresAnswer
<1>9. RowFollows(r)' /\ Answered(r)'
  <2>1. outcome'[r] # "ok"
    BY DEF IInv, TypeOK, Local, Answered
  <2>. QED  BY <1>0, <2>1 DEF IInv, TypeOK, PaymentsTypeOK, Local, OwnsRow, BeforeCreate, CopyProgress, RowFollows, Answered, Working
<1>. QED  BY <1>1, <1>2, <1>3, <1>4, <1>5, <1>6, <1>7, <1>8, <1>9, StepOfOne DEF Local

LEMMA ReceiveAnswerStep ==
  ASSUME IInv, NEW r \in Requests, ReceiveAnswer(r)
  PROVE  IInv'
<1>. USE DEF ReceiveAnswer, ThrowFinal, Finish, Goto, Requests
<1>0. /\ index[r] \in Candidates /\ index[r] \in 1..Len(route[r])
      /\ Len(route[r]) \in Candidates /\ route[r][index[r]] \in Providers
      /\ copy[r] \in PaymentRow /\ copy[r] # NoPayment
      /\ payments[r] \in PaymentRow /\ pc[r] # "new"
  BY CurrentCandidate DEF Working
<1>f. LET a == answer[r][index[r]] IN
      /\ a \in Answers /\ copy[r].status = "CREATED"
      /\ WithAnswer(copy[r], a) \in PaymentRow
      /\ WithAnswer(copy[r], a).status = a.status
      /\ WithAnswer(copy[r], a) =
           [status |-> a.status, provider |-> route[r][index[r]],
            providerReference |-> a.providerReference]
  BY <1>0, RowType DEF IInv, TypeOK, Local, CopyProgress, WithAnswer
<1>1. TypeOK'
  <2>1. copy' = copy \/ copy' = [copy EXCEPT ![r] = WithAnswer(@, answer[r][index[r]])]
    OBVIOUS
  <2>2. copy' \in [Requests -> PaymentRow \cup {NoCopy}]
    BY <1>f, <2>1 DEF IInv, TypeOK
  <2>. QED  BY <2>2 DEF IInv, TypeOK, Labels, PaymentsTypeOK
<1>2. \A q \in Requests \ {r} : Kept(q)
  BY DEF IInv, TypeOK, PaymentsTypeOK, Kept
<1>3. Monotone
  BY DEF Monotone
<1>4. UniqueKey'
  BY <1>0, <1>f, KeysStay DEF IInv, TypeOK, PaymentsTypeOK, Local, OwnsRow, BeforeCreate
<1>5. ReplayIsOfSameRequest'
  BY <1>0, <1>f, ReplaysStay DEF IInv, TypeOK, PaymentsTypeOK, Local, OwnsRow, BeforeCreate
<1>6. OwnsRow(r)'
  BY <1>0, <1>f DEF IInv, TypeOK, PaymentsTypeOK, Local, OwnsRow, Invoked, BeforeCreate, Working
<1>7. InTurn(r)'
  <2>1. /\ call' = call /\ answer' = answer /\ index' = index /\ logs' = logs
        /\ pc'[r] = "attempt" => pc[r] = "attempt"
    BY DEF IInv, TypeOK
  <2>2. InTurn(r)
    BY DEF IInv, Local
  <2>. QED  BY <2>1, <2>2 DEF InTurn
<1>8. CopyProgress(r)'
  BY <1>0, <1>f DEF IInv, TypeOK, Local, OwnsRow, BeforeCreate, CopyProgress, StoresAnswer
<1>9. RowFollows(r)' /\ Answered(r)'
  <2>1. outcome'[r] # "ok"
    BY DEF IInv, TypeOK, Local, Answered
  <2>. QED  BY <1>0, <1>f, <2>1 DEF IInv, TypeOK, PaymentsTypeOK, Local, OwnsRow, BeforeCreate, CopyProgress, RowFollows, Answered, Working
<1>. QED  BY <1>1, <1>2, <1>3, <1>4, <1>5, <1>6, <1>7, <1>8, <1>9, StepOfOne DEF Local

LEMMA UpdatePaymentStep ==
  ASSUME IInv, NEW r \in Requests, UpdatePayment(r)
  PROVE  IInv'
<1>. USE DEF UpdatePayment, ThrowFinal, UpdateRow, DbOutcomes, Executed, Raised, Finish, Goto, Requests
<1>0. /\ index[r] \in Candidates /\ index[r] \in 1..Len(route[r])
      /\ Len(route[r]) \in Candidates /\ route[r][index[r]] \in Providers
      /\ copy[r] \in PaymentRow /\ copy[r] # NoPayment
      /\ payments[r] \in PaymentRow /\ pc[r] # "new"
  BY CurrentCandidate DEF Working
<1>1. TypeOK'
  BY <1>0 DEF IInv, TypeOK, Labels, PaymentsTypeOK
<1>2. \A q \in Requests \ {r} : Kept(q)
  BY DEF IInv, TypeOK, PaymentsTypeOK, Kept
<1>3. Monotone
  BY DEF Monotone
<1>4. UniqueKey'
  BY <1>0, KeysStay DEF IInv, TypeOK, PaymentsTypeOK, Local, OwnsRow, BeforeCreate
<1>5. ReplayIsOfSameRequest'
  BY <1>0, ReplaysStay DEF IInv, TypeOK, PaymentsTypeOK, Local, OwnsRow, BeforeCreate
<1>6. OwnsRow(r)'
  BY <1>0 DEF IInv, TypeOK, PaymentsTypeOK, Local, OwnsRow, Invoked, BeforeCreate, Working
<1>7. InTurn(r)'
  <2>1. /\ call' = call /\ answer' = answer /\ index' = index /\ logs' = logs
        /\ pc'[r] = "attempt" => pc[r] = "attempt"
    BY DEF IInv, TypeOK
  <2>2. InTurn(r)
    BY DEF IInv, Local
  <2>. QED  BY <2>1, <2>2 DEF InTurn
<1>8. CopyProgress(r)'
  BY <1>0 DEF IInv, TypeOK, Local, OwnsRow, BeforeCreate, CopyProgress, StoresAnswer
<1>9. RowFollows(r)' /\ Answered(r)'
  <2>1. outcome'[r] # "ok"
    BY DEF IInv, TypeOK, Local, Answered
  <2>. QED  BY <1>0, <2>1 DEF IInv, TypeOK, PaymentsTypeOK, Local, OwnsRow, BeforeCreate, CopyProgress, RowFollows, Answered, Working
<1>. QED  BY <1>1, <1>2, <1>3, <1>4, <1>5, <1>6, <1>7, <1>8, <1>9, StepOfOne DEF Local

LEMMA CreateLogStep ==
  ASSUME IInv, NEW r \in Requests, CreateLog(r)
  PROVE  IInv'
<1>. USE DEF CreateLog, ThrowFinal, DbOutcomes, Executed, Raised, Finish, Goto, Requests
<1>0. /\ index[r] \in Candidates /\ index[r] \in 1..Len(route[r])
      /\ Len(route[r]) \in Candidates /\ route[r][index[r]] \in Providers
      /\ copy[r] \in PaymentRow /\ copy[r] # NoPayment
      /\ payments[r] \in PaymentRow /\ pc[r] # "new"
  BY CurrentCandidate DEF Working
<1>f. /\ <<r, index[r], "response">> \in Requests \X Candidates \X {"response", "retryable", "final"}
      /\ pc[r] = "catchLog" =>
           <<r, index[r], error[r]>> \in Requests \X Candidates \X {"response", "retryable", "final"}
  BY <1>0 DEF IInv, TypeOK, Local, CopyProgress
<1>1. TypeOK'
  BY <1>0, <1>f DEF IInv, TypeOK, Labels, PaymentsTypeOK
<1>2. \A q \in Requests \ {r} : Kept(q)
  BY DEF IInv, TypeOK, PaymentsTypeOK, Kept
<1>3. Monotone
  BY DEF Monotone
<1>4. UniqueKey'
  BY <1>0, <1>f, KeysStay DEF IInv, TypeOK, PaymentsTypeOK, Local, OwnsRow, BeforeCreate
<1>5. ReplayIsOfSameRequest'
  BY <1>0, <1>f, ReplaysStay DEF IInv, TypeOK, PaymentsTypeOK, Local, OwnsRow, BeforeCreate
<1>6. OwnsRow(r)'
  BY <1>0, <1>f DEF IInv, TypeOK, PaymentsTypeOK, Local, OwnsRow, Invoked, BeforeCreate, Working
<1>7. InTurn(r)'
  <2>. SUFFICES ASSUME NEW i \in Candidates
                PROVE  /\ call[r][i] # "none" => i < index'[r] \/ (i = index'[r] /\ pc'[r] # "attempt")
                       /\ i < index'[r] => <<r, i, "retryable">> \in logs'
                       /\ answer[r][i] # NoAnswer <=> call[r][i] \in {"executed", "refused"}
    BY DEF InTurn
  <2>1. /\ call[r][i] # "none" => i < index[r] \/ (i = index[r] /\ pc[r] # "attempt")
        /\ i < index[r] => <<r, i, "retryable">> \in logs
        /\ answer[r][i] # NoAnswer <=> call[r][i] \in {"executed", "refused"}
        /\ i \in Nat /\ index[r] \in Nat
    BY BoundType, <1>0 DEF IInv, Local, InTurn, Candidates
  <2>. QED  BY <2>1 DEF IInv, TypeOK
<1>8. CopyProgress(r)'
  BY <1>0, <1>f DEF IInv, TypeOK, Local, OwnsRow, BeforeCreate, CopyProgress, StoresAnswer
<1>9. RowFollows(r)' /\ Answered(r)'
  BY <1>0, <1>f DEF IInv, TypeOK, PaymentsTypeOK, Local, OwnsRow, BeforeCreate, CopyProgress, RowFollows, Answered, StoresAnswer, Working
<1>. QED  BY <1>1, <1>2, <1>3, <1>4, <1>5, <1>6, <1>7, <1>8, <1>9, StepOfOne DEF Local

LEMMA CatchLogStep ==
  ASSUME IInv, NEW r \in Requests, CatchLog(r)
  PROVE  IInv'
<1>. USE DEF CatchLog, ShouldTryNext, DbOutcomes, Executed, Raised, Finish, Goto, Requests
<1>0. /\ index[r] \in Candidates /\ index[r] \in 1..Len(route[r])
      /\ Len(route[r]) \in Candidates /\ route[r][index[r]] \in Providers
      /\ copy[r] \in PaymentRow /\ copy[r] # NoPayment
      /\ payments[r] \in PaymentRow /\ pc[r] # "new"
  BY CurrentCandidate DEF Working
<1>f. /\ <<r, index[r], "response">> \in Requests \X Candidates \X {"response", "retryable", "final"}
      /\ pc[r] = "catchLog" =>
           <<r, index[r], error[r]>> \in Requests \X Candidates \X {"response", "retryable", "final"}
  BY <1>0 DEF IInv, TypeOK, Local, CopyProgress
<1>1. TypeOK'
  <2>1. /\ logs' = logs \/ logs' = logs \cup {<<r, index[r], error[r]>>}
        /\ \/ index' = index
           \/ index[r] < Len(route[r]) /\ index' = [index EXCEPT ![r] = @ + 1]
    OBVIOUS
  <2>2. logs' \subseteq Requests \X Candidates \X {"response", "retryable", "final"}
    BY <1>f, <2>1 DEF IInv, TypeOK
  <2>3. /\ index' \in [Requests -> 0..MaxCandidates]
        /\ \A q \in Requests : index'[q] <= Len(route[q])
    <3>1. CASE index' = index
      BY <3>1 DEF IInv, TypeOK
    <3>2. CASE index[r] < Len(route[r]) /\ index' = [index EXCEPT ![r] = @ + 1]
      <4>1. index[r] + 1 \in 0..MaxCandidates /\ index[r] + 1 <= Len(route[r])
        BY BoundType, <1>0, <3>2 DEF Candidates
      <4>. QED  BY <3>2, <4>1 DEF IInv, TypeOK
    <3>. QED  BY <2>1, <3>1, <3>2
  <2>. QED  BY <2>2, <2>3 DEF IInv, TypeOK, Labels, PaymentsTypeOK
<1>2. \A q \in Requests \ {r} : Kept(q)
  BY DEF IInv, TypeOK, PaymentsTypeOK, Kept
<1>3. Monotone
  BY DEF Monotone
<1>4. UniqueKey'
  BY <1>0, <1>f, KeysStay DEF IInv, TypeOK, PaymentsTypeOK, Local, OwnsRow, BeforeCreate
<1>5. ReplayIsOfSameRequest'
  BY <1>0, <1>f, ReplaysStay DEF IInv, TypeOK, PaymentsTypeOK, Local, OwnsRow, BeforeCreate
<1>6. OwnsRow(r)'
  BY <1>0, <1>f DEF IInv, TypeOK, PaymentsTypeOK, Local, OwnsRow, Invoked, BeforeCreate, Working
<1>7. InTurn(r)'
  <2>. SUFFICES ASSUME NEW i \in Candidates
                PROVE  /\ call[r][i] # "none" => i < index'[r] \/ (i = index'[r] /\ pc'[r] # "attempt")
                       /\ i < index'[r] => <<r, i, "retryable">> \in logs'
                       /\ answer[r][i] # NoAnswer <=> call[r][i] \in {"executed", "refused"}
    BY DEF InTurn
  <2>1. /\ call[r][i] # "none" => i < index[r] \/ (i = index[r] /\ pc[r] # "attempt")
        /\ i < index[r] => <<r, i, "retryable">> \in logs
        /\ answer[r][i] # NoAnswer <=> call[r][i] \in {"executed", "refused"}
        /\ i \in Nat /\ index[r] \in Nat
    BY BoundType, <1>0 DEF IInv, Local, InTurn, Candidates
  <2>. QED  BY <2>1 DEF IInv, TypeOK
<1>8. CopyProgress(r)'
  BY <1>0, <1>f DEF IInv, TypeOK, Local, OwnsRow, BeforeCreate, CopyProgress, StoresAnswer
<1>9. RowFollows(r)' /\ Answered(r)'
  <2>1. outcome'[r] # "ok"
    BY DEF IInv, TypeOK, Local, Answered
  <2>. QED  BY <1>0, <1>f, <2>1 DEF IInv, TypeOK, PaymentsTypeOK, Local, OwnsRow, BeforeCreate, CopyProgress, RowFollows, Answered, Working
<1>. QED  BY <1>1, <1>2, <1>3, <1>4, <1>5, <1>6, <1>7, <1>8, <1>9, StepOfOne DEF Local

LEMMA MarkPaymentFailedStep ==
  ASSUME IInv, NEW r \in Requests, MarkPaymentFailed(r)
  PROVE  IInv'
<1>. USE DEF MarkPaymentFailed, UpdateRow, DbOutcomes, Executed, Finish, Goto, Requests
<1>0. /\ index[r] \in Candidates /\ index[r] \in 1..Len(route[r])
      /\ Len(route[r]) \in Candidates /\ route[r][index[r]] \in Providers
      /\ copy[r] \in PaymentRow /\ copy[r] # NoPayment
      /\ payments[r] \in PaymentRow /\ pc[r] # "new"
  BY CurrentCandidate DEF Working
<1>f. WithStatus(copy[r], "FAILED") \in PaymentRow /\ WithStatus(copy[r], "FAILED") # NoPayment
  BY <1>0, RowType DEF PaymentStatuses
<1>1. TypeOK'
  <2>1. /\ copy' = copy \/ copy' = [copy EXCEPT ![r] = WithStatus(copy[r], "FAILED")]
        /\ \/ payments' = payments
           \/ payments' = [payments EXCEPT ![r] = IF @ = NoPayment THEN @ ELSE WithStatus(copy[r], "FAILED")]
    OBVIOUS
  <2>2. PaymentsTypeOK'
    BY <1>f, <2>1 DEF IInv, TypeOK, PaymentsTypeOK
  <2>3. copy' \in [Requests -> PaymentRow \cup {NoCopy}]
    BY <1>f, <2>1 DEF IInv, TypeOK
  <2>. QED  BY <2>2, <2>3 DEF IInv, TypeOK, Labels
<1>2. \A q \in Requests \ {r} : Kept(q)
  BY DEF IInv, TypeOK, PaymentsTypeOK, Kept
<1>3. Monotone
  BY DEF Monotone
<1>4. UniqueKey'
  BY <1>0, <1>f, KeysStay DEF IInv, TypeOK, PaymentsTypeOK, Local, OwnsRow, BeforeCreate
<1>5. ReplayIsOfSameRequest'
  BY <1>0, <1>f, ReplaysStay DEF IInv, TypeOK, PaymentsTypeOK, Local, OwnsRow, BeforeCreate
<1>6. OwnsRow(r)'
  BY <1>0, <1>f DEF IInv, TypeOK, PaymentsTypeOK, Local, OwnsRow, Invoked, BeforeCreate, Working
<1>7. InTurn(r)'
  <2>1. /\ call' = call /\ answer' = answer /\ index' = index /\ logs' = logs
        /\ pc'[r] = "attempt" => pc[r] = "attempt"
    BY DEF IInv, TypeOK
  <2>2. InTurn(r)
    BY DEF IInv, Local
  <2>. QED  BY <2>1, <2>2 DEF InTurn
<1>8. CopyProgress(r)'
  BY <1>0, <1>f DEF IInv, TypeOK, Local, OwnsRow, BeforeCreate, CopyProgress, StoresAnswer
<1>9. RowFollows(r)' /\ Answered(r)'
  <2>1. outcome'[r] # "ok"
    BY DEF IInv, TypeOK, Local, Answered
  <2>. QED  BY <1>0, <1>f, <2>1 DEF IInv, TypeOK, PaymentsTypeOK, Local, OwnsRow, BeforeCreate, CopyProgress, RowFollows, Answered, Working
<1>. QED  BY <1>1, <1>2, <1>3, <1>4, <1>5, <1>6, <1>7, <1>8, <1>9, StepOfOne DEF Local

LEMMA ProviderServesStep ==
  ASSUME IInv, NEW r \in Requests, NEW i \in Candidates, ProviderServes(r, i)
  PROVE  IInv'
<1>. USE DEF ProviderServes, Finish, Goto, Requests
<1>f. \A a \in Answers : a # NoAnswer
  BY AnswerType
<1>1. TypeOK'
  BY <1>f DEF IInv, TypeOK, Labels, PaymentsTypeOK
<1>2. \A q \in Requests \ {r} : Kept(q)
  BY DEF IInv, TypeOK, PaymentsTypeOK, Kept
<1>3. Monotone
  BY DEF Monotone
<1>4. UniqueKey'
  BY <1>f, KeysStay DEF IInv, TypeOK, PaymentsTypeOK, Local, OwnsRow, BeforeCreate
<1>5. ReplayIsOfSameRequest'
  BY <1>f, ReplaysStay DEF IInv, TypeOK, PaymentsTypeOK, Local, OwnsRow, BeforeCreate
<1>6. OwnsRow(r)'
  BY <1>f DEF IInv, TypeOK, PaymentsTypeOK, Local, OwnsRow, Invoked, BeforeCreate, Working
<1>7. InTurn(r)'
  <2>1. PICK a \in Answers :
          /\ answer' = [answer EXCEPT ![r] = [@ EXCEPT ![i] = a]]
          /\ call' = [call EXCEPT ![r] =
               [@ EXCEPT ![i] = IF a.status = "FAILED" THEN "refused" ELSE "executed"]]
    OBVIOUS
  <2>2. a # NoAnswer /\ call[r][i] = "sent"
    BY <1>f
  <2>. QED  BY <2>1, <2>2 DEF IInv, TypeOK, Local, InTurn
<1>8. CopyProgress(r)'
  <2>1. answer[r][i] = NoAnswer
    BY DEF IInv, Local, InTurn
  <2>2. index[r] # i => answer'[r][index[r]] = answer[r][index[r]]
    BY DEF IInv, TypeOK
  <2>. QED  BY <2>1, <2>2 DEF IInv, TypeOK, Local, CopyProgress, StoresAnswer
<1>9. RowFollows(r)' /\ Answered(r)'
  <2>1. answer[r][i] = NoAnswer
    BY DEF IInv, Local, InTurn
  <2>2. index[r] # i => answer'[r][index[r]] = answer[r][index[r]]
    BY DEF IInv, TypeOK
  <2>3. UNCHANGED <<pc, outcome, payments, copy, route, index, logs, foreign>>
    OBVIOUS
  <2>4. RowFollows(r) /\ Answered(r) /\ (outcome[r] = "ok" /\ r \notin foreign => index[r] # i)
    BY <2>1 DEF IInv, Local, RowFollows, StoresAnswer
  <2>5. outcome[r] = "ok" /\ r \notin foreign => StoresAnswer(r, payments[r])'
    BY <2>2, <2>3, <2>4 DEF RowFollows, StoresAnswer
  <2>6. Answered(r)'
    BY <2>3, <2>4 DEF Answered
  <2>. QED  BY <2>3, <2>4, <2>5, <2>6 DEF RowFollows
<1>. QED  BY <1>1, <1>2, <1>3, <1>4, <1>5, <1>6, <1>7, <1>8, <1>9, StepOfOne DEF Local

LEMMA ForeignWriteStep ==
  ASSUME IInv, NEW r \in Requests, ForeignWrite(r)
  PROVE  IInv'
<1>. USE DEF ForeignWrite, UpdateRow, Finish, Goto, Requests
<1>f. \E row \in PaymentRow : /\ row # NoPayment
                             /\ payments' = [payments EXCEPT ![r] = row]
  <2>1. payments[r] \in PaymentRow /\ payments[r] # NoPayment
    BY DEF IInv, TypeOK, PaymentsTypeOK
  <2>2. PICK s \in ForeignStatuses, ref \in References :
          UpdateRow(r, [status |-> s, provider |-> payments[r].provider, providerReference |-> ref])
    OBVIOUS
  <2>3. [status |-> s, provider |-> payments[r].provider, providerReference |-> ref] \in PaymentRow
    BY <2>1, RoutesAssumption DEF PaymentRow
  <2>. QED  BY <2>1, <2>2, <2>3, RowType
<1>1. TypeOK'
  BY <1>f DEF IInv, TypeOK, Labels, PaymentsTypeOK
<1>2. \A q \in Requests \ {r} : Kept(q)
  BY DEF IInv, TypeOK, PaymentsTypeOK, Kept
<1>3. Monotone
  BY DEF Monotone
<1>4. UniqueKey'
  BY <1>f, KeysStay DEF IInv, TypeOK, PaymentsTypeOK, Local, OwnsRow, BeforeCreate
<1>5. ReplayIsOfSameRequest'
  BY <1>f, ReplaysStay DEF IInv, TypeOK, PaymentsTypeOK, Local, OwnsRow, BeforeCreate
<1>6. OwnsRow(r)'
  BY <1>f DEF IInv, TypeOK, PaymentsTypeOK, Local, OwnsRow, Invoked, BeforeCreate, Working
<1>7. InTurn(r)'
  <2>1. /\ call' = call /\ answer' = answer /\ index' = index /\ logs' = logs
        /\ pc'[r] = "attempt" => pc[r] = "attempt"
    BY DEF IInv, TypeOK
  <2>2. InTurn(r)
    BY DEF IInv, Local
  <2>. QED  BY <2>1, <2>2 DEF InTurn
<1>8. CopyProgress(r)'
  BY <1>f DEF IInv, TypeOK, Local, OwnsRow, BeforeCreate, CopyProgress, StoresAnswer
<1>9. RowFollows(r)' /\ Answered(r)'
  BY <1>f DEF IInv, TypeOK, PaymentsTypeOK, Local, OwnsRow, BeforeCreate, CopyProgress, RowFollows, Answered, StoresAnswer, Working
<1>. QED  BY <1>1, <1>2, <1>3, <1>4, <1>5, <1>6, <1>7, <1>8, <1>9, StepOfOne DEF Local

LEMMA CrashStep ==
  ASSUME IInv, Crash
  PROVE  IInv'
<1>. USE DEF Crash, InFlight, Requests
<1>1. TypeOK'
  BY DEF IInv, TypeOK, Labels, PaymentsTypeOK
<1>2. UniqueKey'
  BY DEF IInv, UniqueKey
<1>3. ReplayIsOfSameRequest'
  BY ReplaysStay
<1>4. ASSUME NEW q \in Requests PROVE Local(q)'
  <2>1. CASE pc'[q] = pc[q]
    BY <1>4, <2>1, OthersStay DEF Kept, Monotone, IInv
  <2>2. CASE pc'[q] = "crashed" /\ pc[q] # "new"
    <3>. USE <1>4, <2>2 DEF IInv, Local
    <3>1. OwnsRow(q)' /\ InTurn(q)' /\ CopyProgress(q)'
      BY DEF OwnsRow, InTurn, CopyProgress, Invoked, Working, BeforeCreate
    <3>2. outcome[q] = "none" \/ pc[q] = "done"
      BY DEF Answered
    <3>3. RowFollows(q)' /\ Answered(q)'
      BY <3>2 DEF RowFollows, Answered, Working, TypeOK
    <3>. QED  BY <3>1, <3>3
  <2>. QED  BY <1>4, <2>1, <2>2 DEF IInv, TypeOK
<1>. QED  BY <1>1, <1>2, <1>3, <1>4 DEF IInv

LEMMA StutterStep ==
  ASSUME IInv, UNCHANGED vars
  PROVE  IInv'
<1>1. TypeOK'
  BY DEF vars, IInv, TypeOK, PaymentsTypeOK
<1>2. UniqueKey' /\ ReplayIsOfSameRequest'
  BY DEF vars, IInv, UniqueKey, ReplayIsOfSameRequest, StoredUnder
<1>3. ASSUME NEW q \in Requests PROVE Local(q)'
  BY <1>3, OthersStay DEF vars, Kept, Monotone, IInv
<1>. QED  BY <1>1, <1>2, <1>3 DEF IInv

LEMMA InitIInv == Init => IInv
<1>. SUFFICES ASSUME Init PROVE IInv
  OBVIOUS
<1>. USE DEF Init, Requests
<1>1. TypeOK
  BY BoundType DEF TypeOK, PaymentsTypeOK, Labels, Candidates
<1>2. UniqueKey /\ ReplayIsOfSameRequest
  BY DEF UniqueKey, ReplayIsOfSameRequest
<1>3. ASSUME NEW r \in Requests PROVE Local(r)
  BY <1>3, BoundType
     DEF Local, OwnsRow, BeforeCreate, InTurn, CopyProgress, RowFollows, Answered, Invoked, Working,
         BeforeCreate, Candidates
<1>. QED  BY <1>1, <1>2, <1>3 DEF IInv

LEMMA NextIInv == IInv /\ [Next]_vars => IInv'
<1>. SUFFICES ASSUME IInv, [Next]_vars PROVE IInv'
  OBVIOUS
<1>1. ASSUME NEW r \in Requests, NEW i \in Inputs, FindExisting(r, i) PROVE IInv'
  BY <1>1, FindExistingStep
<1>2. ASSUME NEW r \in Requests, Resume(r) PROVE IInv'
  BY <1>2, ResolveCandidatesStep, CreatePaymentStep, AttemptStep, ProviderCallRejectsStep,
     ReceiveAnswerStep, UpdatePaymentStep, CreateLogStep, CatchLogStep, MarkPaymentFailedStep
     DEF Resume
<1>3. ASSUME NEW r \in Requests, NEW i \in Candidates, ProviderServes(r, i) PROVE IInv'
  BY <1>3, ProviderServesStep
<1>4. ASSUME NEW r \in Requests, ForeignWrite(r) PROVE IInv'
  BY <1>4, ForeignWriteStep
<1>5. CASE Crash  BY <1>5, CrashStep
<1>6. CASE UNCHANGED vars  BY <1>6, StutterStep
<1>. QED  BY <1>1, <1>2, <1>3, <1>4, <1>5, <1>6 DEF Next

\* The inductive invariant behind the theorems below: rows and keys, the order in
\* which candidates are tried, and what the copies and rows say at each await.
THEOREM Invariance == Spec => []IInv
BY InitIInv, NextIInv, PTL DEF Spec

-----------------------------------------------------------------------------
(* The properties                                                          *)

\* The tables and every request's local state have their types.
THEOREM TypeCorrect == Spec => []TypeOK
<1>1. IInv => TypeOK
  BY DEF IInv
<1>. QED  BY <1>1, Invariance, PTL

\* Of all requests under one idempotency key, one at most reaches a provider.
THEOREM OneRequest == Spec => []OneRequestReachesProviders
<1>1. IInv => OneRequestReachesProviders
  BY DEF IInv, UniqueKey, Local, OwnsRow, BeforeCreate, OneRequestReachesProviders
<1>. QED  BY <1>1, Invariance, PTL

\* A key is never answered with the payment of another request.
THEOREM ReplaysAreOfTheSameRequest == Spec => []ReplayIsOfSameRequest
<1>1. IInv => ReplayIsOfSameRequest
  BY DEF IInv
<1>. QED  BY <1>1, Invariance, PTL

\* The next provider is asked only after each earlier one failed in a retryable
\* way and the failure was logged, however many candidates there are.
THEOREM FailoversAreAudited == Spec => []FailoverIsAudited
<1>1. ASSUME IInv PROVE FailoverIsAudited
  <2>. SUFFICES ASSUME NEW r \in Requests, NEW i \in Candidates, call[r][i] # "none",
                       NEW j \in 1..(i - 1)
                PROVE  <<r, j, "retryable">> \in logs
    BY DEF FailoverIsAudited
  <2>1. InTurn(r)
    BY <1>1 DEF IInv, Local
  <2>2. i <= index[r] /\ index[r] \in Nat
    <3>1. index[r] \in Nat
      BY <1>1, BoundType DEF IInv, TypeOK
    <3>2. i < index[r] \/ i = index[r]
      BY <2>1 DEF InTurn
    <3>. QED  BY <3>1, <3>2, BoundType DEF Candidates
  <2>3. j \in Candidates /\ j < index[r]
    BY <2>2, BoundType DEF Candidates
  <2>. QED  BY <2>1, <2>3 DEF InTurn
<1>. QED  BY <1>1, Invariance, PTL

\* A success the client was told of is in the row and in the log.
THEOREM SuccessesAreStored == Spec => []SuccessIsStored
<1>1. IInv => SuccessIsStored
  BY DEF IInv, Local, RowFollows, SuccessIsStored
<1>. QED  BY <1>1, Invariance, PTL

\* No write of the flow, of a failure after a success included, moves a row
\* against stateTransitions, unless another flow wrote it before.
THEOREM WritesMoveForward == Spec => FlowMovesForward
<1>1. ASSUME IInv, [Next]_vars
      PROVE  [\A r \in Requests \ foreign :
                UpdatePayment(r) \/ MarkPaymentFailed(r) =>
                  \/ payments'[r].status = payments[r].status
                  \/ TransitionAllowed(payments[r].status, payments'[r].status)]_vars
  <2>. SUFFICES ASSUME NEW r \in Requests \ foreign, UpdatePayment(r) \/ MarkPaymentFailed(r)
                PROVE  \/ payments'[r].status = payments[r].status
                       \/ TransitionAllowed(payments[r].status, payments'[r].status)
    OBVIOUS
  <2>1. payments[r] # NoPayment /\ pc[r] \in Working /\ RowFollows(r) /\ CopyProgress(r)
    BY <1>1 DEF IInv, Local, OwnsRow, BeforeCreate, Working, UpdatePayment, MarkPaymentFailed
  <2>2. CASE payments' = payments
    BY <2>2
  <2>3. CASE UpdatePayment(r) /\ payments'[r] = copy[r]
    BY <2>1, <2>3 DEF RowFollows, CopyProgress, UpdatePayment
  <2>4. CASE /\ payments'[r] = WithStatus(copy[r], "FAILED")
             /\ TransitionAllowed(copy[r].status, "FAILED")
    <3>1. payments'[r].status = "FAILED"
      BY <2>4 DEF WithStatus
    <3>2. TransitionAllowed("CREATED", "FAILED")
      BY DEF TransitionAllowed, stateTransitions
    <3>. QED  BY <2>1, <2>4, <3>1, <3>2 DEF RowFollows
  <2>5. payments \in [Requests -> PaymentRow \cup {NoPayment}]
    BY <1>1 DEF IInv, TypeOK, PaymentsTypeOK, Requests
  <2>. QED
    BY <2>1, <2>2, <2>3, <2>4, <2>5
       DEF UpdatePayment, MarkPaymentFailed, UpdateRow
<1>. QED  BY <1>1, Invariance, PTL DEF Spec, FlowMovesForward

-----------------------------------------------------------------------------
(* InitialFlow implements KeyedPayment                                     *)

\* The row under a key is the only one; its request alone decides the phase.
LEMMA OwnerOfKey ==
  ASSUME IInv, NEW r \in Requests, payments[r] # NoPayment
  PROVE  /\ input[r].key \in Keys
         /\ StoredUnder(input[r].key) = {r}
         /\ PhaseOf(input[r].key) =
              IF outcome[r] = "ok" THEN "succeeded"
              ELSE IF outcome[r] # "none" \/ pc[r] = "crashed" THEN "ended" ELSE "open"
<1>1. input[r].key \in Keys
  BY DEF IInv, TypeOK, Local, OwnsRow, BeforeCreate, Inputs
<1>2. StoredUnder(input[r].key) = {r}
  BY DEF IInv, UniqueKey, StoredUnder
<1>. QED  BY <1>1, <1>2 DEF PhaseOf

\* Whoever asked a candidate under a key has the row under it.
LEMMA AskerIsOwner ==
  ASSUME IInv, NEW k \in Keys, NEW a \in AskedUnder(k)
  PROVE  a[1] \in StoredUnder(k) /\ a[2] \in Candidates
BY DEF IInv, Local, OwnsRow, Invoked, AskedUnder, StoredUnder

\* A step says nothing of a key.
SameKey(k) ==
  /\ StoredUnder(k)' = StoredUnder(k)
  /\ AskedUnder(k)' = AskedUnder(k)
  /\ PhaseOf(k)' = PhaseOf(k)

Seen(r, k) == payments[r] # NoPayment /\ input[r].key = k

\* A step of r says nothing of a key r has no row under.
LEMMA KeyUntouched ==
  ASSUME IInv, IInv', NEW r \in Requests, \A q \in Requests \ {r} : Kept(q),
         NEW k \in Keys, ~Seen(r, k), ~Seen(r, k)'
  PROVE  SameKey(k)
<1>1. StoredUnder(k)' = StoredUnder(k) /\ r \notin StoredUnder(k)
  BY DEF StoredUnder, Seen, Kept
<1>2. AskedUnder(k)' = AskedUnder(k)
  <2>1. ASSUME NEW q \in Requests, NEW i \in Candidates
        PROVE  /\ call[q][i] # "none" /\ input[q].key = k => q # r
               /\ call'[q][i] # "none" /\ input'[q].key = k => q # r
    BY <2>1 DEF IInv, Local, OwnsRow, Invoked, Seen
  <2>2. ASSUME NEW q \in Requests, NEW i \in Candidates
        PROVE  call'[q][i] # "none" /\ input'[q].key = k <=> call[q][i] # "none" /\ input[q].key = k
    BY <2>1, <2>2 DEF Kept
  <2>. QED  BY <2>2 DEF AskedUnder
<1>3. \A q \in StoredUnder(k) : outcome'[q] = outcome[q] /\ pc'[q] = pc[q]
  BY <1>1 DEF StoredUnder, Kept
<1>. QED  BY <1>1, <1>2, <1>3 DEF SameKey, PhaseOf

\* The steps of KeyedPayment, said of InitialFlow's state.
LEMMA OpenIsAllowed ==
  ASSUME NEW r \in Requests, NEW k \in Keys, \A j \in Keys \ {k} : SameKey(j),
         PhaseOf(k) = "free", StoredUnder(k)' = {r}, AskedUnder(k)' = AskedUnder(k),
         PhaseOf(k)' \in {"open", "ended"}
  PROVE  Keyed!PaymentNext
<1>1. Keyed!Open(k, r)
  BY DEF Keyed!Open, SameKey
<1>. QED  BY <1>1 DEF Keyed!PaymentNext

LEMMA AskIsAllowed ==
  ASSUME NEW r \in Requests, NEW k \in Keys, NEW i \in Candidates,
         \A j \in Keys \ {k} : SameKey(j),
         PhaseOf(k) = "open", StoredUnder(k) = {r}, \A a \in AskedUnder(k) : a[2] < i,
         StoredUnder(k)' = StoredUnder(k), PhaseOf(k)' = PhaseOf(k),
         AskedUnder(k)' = AskedUnder(k) \cup {<<r, i>>}
  PROVE  Keyed!PaymentNext
<1>1. Keyed!Ask(k, r, i)
  BY DEF Keyed!Ask, SameKey
<1>. QED  BY <1>1 DEF Keyed!PaymentNext

LEMMA SucceedIsAllowed ==
  ASSUME NEW k \in Keys, \A j \in Keys \ {k} : SameKey(j),
         PhaseOf(k) = "open", AskedUnder(k) # {}, PhaseOf(k)' = "succeeded",
         StoredUnder(k)' = StoredUnder(k), AskedUnder(k)' = AskedUnder(k)
  PROVE  Keyed!PaymentNext
<1>1. Keyed!Succeed(k)
  BY DEF Keyed!Succeed, SameKey
<1>. QED  BY <1>1 DEF Keyed!PaymentNext

LEMMA EndIsAllowed ==
  ASSUME NEW ks \in SUBSET Keys, \A k \in ks : PhaseOf(k) = "open" /\ PhaseOf(k)' = "ended",
         \A k \in Keys \ ks : PhaseOf(k)' = PhaseOf(k),
         \A k \in Keys : StoredUnder(k)' = StoredUnder(k) /\ AskedUnder(k)' = AskedUnder(k)
  PROVE  Keyed!PaymentNext
<1>1. Keyed!End(ks)
  BY DEF Keyed!End
<1>. QED  BY <1>1 DEF Keyed!PaymentNext

\* What InitialFlow's steps do to the key of their request.
KeyedStep ==
  [Keyed!PaymentNext]_<<[k \in Keys |-> StoredUnder(k)], [k \in Keys |-> AskedUnder(k)],
                        [k \in Keys |-> PhaseOf(k)]>>

\* r's row, the calls made for it and its end stay what they are.
Quiet(r) ==
  /\ payments'[r] # NoPayment <=> payments[r] # NoPayment
  /\ payments[r] # NoPayment =>
       /\ input'[r] = input[r] /\ outcome'[r] = outcome[r]
       /\ pc'[r] = "crashed" <=> pc[r] = "crashed"
       /\ \A i \in Candidates : call'[r][i] # "none" <=> call[r][i] # "none"

LEMMA QuietStep ==
  ASSUME IInv, IInv', NEW r \in Requests, \A q \in Requests \ {r} : Kept(q), Quiet(r)
  PROVE  KeyedStep
<1>1. ASSUME NEW k \in Keys PROVE SameKey(k)
  <2>1. CASE ~Seen(r, k) /\ ~Seen(r, k)'
    BY <2>1, KeyUntouched
  <2>2. CASE Seen(r, k) \/ Seen(r, k)'
    <3>1. /\ payments[r] # NoPayment /\ payments'[r] # NoPayment
          /\ input'[r] = input[r] /\ input[r].key = k
      BY <2>2 DEF Seen, Quiet
    <3>2. StoredUnder(k) = {r} /\ StoredUnder(k)' = {r}
      BY <3>1, OwnerOfKey DEF IInv, UniqueKey, StoredUnder
    <3>3. PhaseOf(k)' = PhaseOf(k)
      BY <3>1, <3>2 DEF PhaseOf, Quiet
    <3>4. AskedUnder(k)' = AskedUnder(k)
      <4>1. ASSUME NEW q \in Requests, NEW i \in Candidates
            PROVE  call'[q][i] # "none" /\ input'[q].key = k <=> call[q][i] # "none" /\ input[q].key = k
        BY <3>1, <4>1 DEF Quiet, Kept
      <4>. QED  BY <4>1 DEF AskedUnder
    <3>. QED  BY <3>2, <3>3, <3>4 DEF SameKey
  <2>. QED  BY <2>1, <2>2
<1>. QED  BY <1>1 DEF KeyedStep, SameKey

\* A request at work is open: it owns its key and has not been answered.
LEMMA WorkIsOpen ==
  ASSUME IInv, NEW r \in Requests, pc[r] \in Working
  PROVE  /\ payments[r] # NoPayment /\ outcome[r] = "none"
         /\ input[r].key \in Keys
         /\ StoredUnder(input[r].key) = {r}
         /\ PhaseOf(input[r].key) = "open"
<1>1. payments[r] # NoPayment /\ outcome[r] = "none" /\ pc[r] # "crashed"
  BY DEF IInv, Local, OwnsRow, Answered, Working
<1>. QED  BY <1>1, OwnerOfKey

\* It is answered with a failure, or with a success after it asked a candidate.
LEMMA FinishStep ==
  ASSUME IInv, IInv', NEW r \in Requests, \A q \in Requests \ {r} : Kept(q),
         pc[r] \in Working, payments'[r] # NoPayment, input'[r] = input[r], call' = call,
         outcome'[r] = "ok" => Invoked(r), outcome'[r] # "none"
  PROVE  KeyedStep
<1>0. PICK k \in Keys : k = input[r].key
  BY WorkIsOpen
<1>1. StoredUnder(k) = {r} /\ PhaseOf(k) = "open"
  BY <1>0, WorkIsOpen
<1>2. StoredUnder(k)' = {r}
  BY <1>0 DEF IInv, UniqueKey, StoredUnder
<1>3. PhaseOf(k)' = IF outcome'[r] = "ok" THEN "succeeded" ELSE "ended"
  BY <1>2 DEF PhaseOf
<1>4. AskedUnder(k)' = AskedUnder(k)
  <2>1. \A q \in Requests : input'[q] = input[q]
    BY DEF Kept
  <2>. QED  BY <2>1 DEF AskedUnder
<1>5. \A j \in Keys \ {k} : SameKey(j)
  BY <1>0, KeyUntouched DEF Seen
<1>6. CASE outcome'[r] = "ok"
  <2>1. PICK i \in Candidates : call[r][i] # "none"
    BY <1>6 DEF Invoked
  <2>2. <<r, i>> \in AskedUnder(k)
    BY <1>0, <2>1 DEF AskedUnder
  <2>3. Keyed!PaymentNext
    BY <1>1, <1>2, <1>3, <1>4, <1>5, <1>6, <2>2, SucceedIsAllowed
  <2>. QED  BY <2>3 DEF KeyedStep
<1>7. CASE outcome'[r] # "ok"
  <2>1. {k} \in SUBSET Keys
    OBVIOUS
  <2>2. \A j \in Keys : StoredUnder(j)' = StoredUnder(j) /\ AskedUnder(j)' = AskedUnder(j)
    BY <1>1, <1>2, <1>4, <1>5 DEF SameKey
  <2>3. \A j \in Keys \ {k} : PhaseOf(j)' = PhaseOf(j)
    BY <1>5 DEF SameKey
  <2>4. \A j \in {k} : PhaseOf(j) = "open" /\ PhaseOf(j)' = "ended"
    BY <1>1, <1>3, <1>7
  <2>5. Keyed!PaymentNext
    BY <2>1, <2>2, <2>3, <2>4, EndIsAllowed
  <2>. QED  BY <2>5 DEF KeyedStep
<1>. QED  BY <1>6, <1>7

LEMMA CreatePaymentOpens ==
  ASSUME IInv, IInv', NEW r \in Requests, \A q \in Requests \ {r} : Kept(q), CreatePayment(r)
  PROVE  KeyedStep
<1>0. PICK k \in Keys : k = input[r].key
  BY DEF CreatePayment, IInv, TypeOK, Inputs
<1>1. payments[r] = NoPayment /\ outcome[r] = "none"
  BY DEF CreatePayment, IInv, Local, OwnsRow, BeforeCreate, Answered
<1>2. CASE payments' = payments
  BY <1>1, <1>2, QuietStep DEF Quiet
<1>3. CASE StoredUnder(k) = {} /\ payments' = [payments EXCEPT ![r] = copy[r]]
  <2>1. payments'[r] # NoPayment
    BY <1>3, MarkersAssumption
       DEF CreatePayment, IInv, TypeOK, PaymentsTypeOK, Local, OwnsRow, Requests
  <2>2. input' = input /\ call' = call /\ pc'[r] # "crashed" /\ outcome'[r] # "ok"
    BY <1>1 DEF CreatePayment, Finish, Goto, IInv, TypeOK
  <2>3. StoredUnder(k)' = {r} /\ PhaseOf(k)' \in {"open", "ended"}
    <3>1. StoredUnder(k)' = {r}
      BY <1>0, <2>1, <2>2 DEF IInv, UniqueKey, StoredUnder
    <3>. QED  BY <2>2, <3>1 DEF PhaseOf
  <2>4. PhaseOf(k) = "free"
    BY <1>3 DEF PhaseOf
  <2>5. AskedUnder(k)' = AskedUnder(k)
    BY <2>2 DEF AskedUnder
  <2>6. \A j \in Keys \ {k} : SameKey(j)
    BY <1>0, <2>2, KeyUntouched DEF Seen
  <2>7. Keyed!PaymentNext
    BY <2>3, <2>4, <2>5, <2>6, OpenIsAllowed
  <2>. QED  BY <2>7 DEF KeyedStep
<1>. QED  BY <1>0, <1>2, <1>3 DEF CreatePayment

LEMMA AttemptAsks ==
  ASSUME IInv, IInv', NEW r \in Requests, \A q \in Requests \ {r} : Kept(q), Attempt(r)
  PROVE  KeyedStep
<1>0. pc[r] \in Working /\ payments' = payments /\ input' = input
  BY DEF Attempt, Working
<1>1. PICK k \in Keys : k = input[r].key
  BY <1>0, WorkIsOpen
<1>2. PICK i \in Candidates : i = index[r]
  BY <1>0, CurrentCandidate
<1>3. StoredUnder(k) = {r} /\ PhaseOf(k) = "open" /\ payments[r] # NoPayment
  BY <1>0, <1>1, WorkIsOpen
<1>4. CASE Finish(r, "error") /\ call' = call
  <2>1. outcome'[r] = "error"
    BY <1>4 DEF Finish, IInv, TypeOK
  <2>. QED  BY <1>0, <1>4, <1>3, <2>1, FinishStep
<1>5. CASE Goto(r, "catchLog") /\ call' = call
  <2>1. outcome'[r] = outcome[r] /\ pc'[r] # "crashed" /\ pc[r] # "crashed"
    BY <1>0, <1>5 DEF Goto, IInv, TypeOK, Working
  <2>. QED  BY <1>0, <1>5, <2>1, QuietStep DEF Quiet
<1>6. CASE Goto(r, "await") /\ call' = [call EXCEPT ![r] = [@ EXCEPT ![index[r]] = "sent"]]
  <2>1. /\ outcome'[r] = outcome[r] /\ pc'[r] # "crashed" /\ pc[r] # "crashed"
    BY <1>0, <1>6 DEF Goto, IInv, TypeOK, Working
  <2>2. StoredUnder(k)' = StoredUnder(k)
    BY <1>0 DEF StoredUnder
  <2>3. PhaseOf(k)' = PhaseOf(k)
    BY <1>3, <2>1, <2>2 DEF PhaseOf
  <2>4. ASSUME NEW a \in AskedUnder(k) PROVE a[2] < i
    <3>1. a[1] = r /\ a[2] \in Candidates /\ call[r][a[2]] # "none"
      BY <1>3, <2>4, AskerIsOwner DEF AskedUnder
    <3>2. a[2] < index[r]
      BY <3>1 DEF IInv, Local, InTurn, Attempt
    <3>. QED  BY <1>2, <3>2
  <2>5. AskedUnder(k)' = AskedUnder(k) \cup {<<r, i>>}
    <3>1. ASSUME NEW q \in Requests, NEW j \in Candidates
          PROVE  call'[q][j] = IF q = r /\ j = i THEN "sent" ELSE call[q][j]
      <4>1. call[q] \in [Candidates -> {"none", "sent", "executed", "refused"}]
        BY <3>1 DEF IInv, TypeOK
      <4>. QED  BY <1>6, <1>2, <3>1, <4>1 DEF IInv, TypeOK
    <3>2. ASSUME NEW q \in Requests, NEW j \in Candidates
          PROVE  <<q, j>> \in AskedUnder(k)' <=> <<q, j>> \in AskedUnder(k) \cup {<<r, i>>}
      BY <1>0, <1>1, <3>1, <3>2 DEF AskedUnder
    <3>3. /\ AskedUnder(k)' \subseteq Requests \X Candidates
          /\ AskedUnder(k) \cup {<<r, i>>} \subseteq Requests \X Candidates
      BY DEF AskedUnder
    <3>. QED  BY <3>2, <3>3
  <2>6. \A j \in Keys \ {k} : SameKey(j)
    BY <1>0, <1>1, KeyUntouched DEF Seen
  <2>7. Keyed!PaymentNext
    BY <1>3, <2>2, <2>3, <2>4, <2>5, <2>6, AskIsAllowed
  <2>. QED  BY <2>7 DEF KeyedStep
<1>. QED  BY <1>4, <1>5, <1>6 DEF Attempt

\* A success is told after the candidate asked last gave its answer.
LEMMA CreateLogSucceeds ==
  ASSUME IInv, IInv', NEW r \in Requests, \A q \in Requests \ {r} : Kept(q), CreateLog(r)
  PROVE  KeyedStep
<1>0. pc[r] \in Working /\ payments' = payments /\ input' = input /\ call' = call
  BY DEF CreateLog, Working
<1>1. payments[r] # NoPayment
  BY <1>0, WorkIsOpen
<1>2. CASE Finish(r, "ok")
  <2>1. Invoked(r)
    <3>1. index[r] \in Candidates
      BY <1>0, CurrentCandidate
    <3>2. answer[r][index[r]] # NoAnswer
      BY DEF CreateLog, IInv, Local, CopyProgress, StoresAnswer
    <3>3. call[r][index[r]] \in {"executed", "refused"}
      BY <3>1, <3>2 DEF IInv, Local, InTurn
    <3>. QED  BY <3>1, <3>3 DEF Invoked
  <2>2. outcome'[r] = "ok"
    BY <1>2 DEF Finish, IInv, TypeOK
  <2>. QED  BY <1>0, <1>1, <2>1, <2>2, FinishStep
<1>3. CASE ThrowFinal(r)
  <2>1. outcome'[r] = outcome[r] /\ pc'[r] # "crashed" /\ pc[r] # "crashed"
    BY <1>0, <1>3 DEF ThrowFinal, Goto, IInv, TypeOK, Working
  <2>. QED  BY <1>0, <2>1, QuietStep DEF Quiet
<1>. QED  BY <1>2, <1>3 DEF CreateLog

LEMMA CatchLogMovesOnOrEnds ==
  ASSUME IInv, IInv', NEW r \in Requests, \A q \in Requests \ {r} : Kept(q), CatchLog(r)
  PROVE  KeyedStep
<1>0. pc[r] \in Working /\ payments' = payments /\ input' = input /\ call' = call
  BY DEF CatchLog, Working
<1>1. payments[r] # NoPayment
  BY <1>0, WorkIsOpen
<1>2. CASE Finish(r, "error")
  <2>1. outcome'[r] = "error"
    BY <1>2 DEF Finish, IInv, TypeOK
  <2>. QED  BY <1>0, <1>1, <2>1, FinishStep
<1>3. CASE \E l \in {"attempt", "markFailed"} : Goto(r, l)
  <2>1. outcome'[r] = outcome[r] /\ pc'[r] # "crashed" /\ pc[r] # "crashed"
    BY <1>0, <1>3 DEF Goto, IInv, TypeOK, Working
  <2>. QED  BY <1>0, <2>1, QuietStep DEF Quiet
<1>. QED  BY <1>2, <1>3 DEF CatchLog

LEMMA MarkPaymentFailedEnds ==
  ASSUME IInv, IInv', NEW r \in Requests, \A q \in Requests \ {r} : Kept(q),
         MarkPaymentFailed(r)
  PROVE  KeyedStep
<1>1. /\ pc[r] \in Working /\ input' = input /\ call' = call /\ outcome'[r] = "error"
  BY DEF MarkPaymentFailed, Working, Finish, IInv, TypeOK
<1>2. copy[r] \in PaymentRow /\ payments[r] # NoPayment
  BY <1>1, CurrentCandidate, WorkIsOpen
<1>3. WithStatus(copy[r], "FAILED") # NoPayment
  BY <1>2, RowType DEF PaymentStatuses
<1>4. payments'[r] # NoPayment
  BY <1>2, <1>3 DEF MarkPaymentFailed, UpdateRow, IInv, TypeOK, PaymentsTypeOK, Requests
<1>. QED  BY <1>1, <1>4, FinishStep

\* The steps that say nothing of any key.
LEMMA QuietActions ==
  ASSUME IInv, NEW r \in Requests,
         \/ \E i \in Inputs : FindExisting(r, i)
         \/ ResolveCandidates(r) \/ ProviderCallRejects(r) \/ ReceiveAnswer(r)
         \/ UpdatePayment(r) \/ \E i \in Candidates : ProviderServes(r, i)
         \/ ForeignWrite(r)
  PROVE  Quiet(r)
<1>. USE DEF Finish, Goto, ThrowFinal
<1>1. CASE \/ \E i \in Inputs : FindExisting(r, i)
           \/ ResolveCandidates(r)
  BY <1>1 DEF FindExisting, ResolveCandidates, Quiet, IInv, Local, OwnsRow, BeforeCreate
<1>2. CASE ProviderCallRejects(r) \/ ReceiveAnswer(r)
  BY <1>2 DEF ProviderCallRejects, ReceiveAnswer, Quiet, IInv, TypeOK
<1>3. CASE UpdatePayment(r)
  <2>1. copy[r] # NoPayment /\ payments[r] # NoPayment
    BY <1>3, CurrentCandidate, WorkIsOpen DEF UpdatePayment, Working
  <2>2. payments'[r] # NoPayment
    BY <1>3, <2>1 DEF UpdatePayment, UpdateRow, IInv, TypeOK, PaymentsTypeOK, Requests
  <2>. QED  BY <1>3, <2>1, <2>2 DEF UpdatePayment, Quiet, IInv, TypeOK
<1>4. CASE \E i \in Candidates : ProviderServes(r, i)
  <2>1. PICK i \in Candidates : ProviderServes(r, i)
    BY <1>4
  <2>2. ASSUME NEW j \in Candidates PROVE call'[r][j] # "none" <=> call[r][j] # "none"
    BY <2>1, <2>2 DEF ProviderServes, IInv, TypeOK
  <2>. QED  BY <2>1, <2>2 DEF ProviderServes, Quiet
<1>5. CASE ForeignWrite(r)
  <2>1. payments[r] # NoPayment /\ payments[r] \in PaymentRow
    BY <1>5 DEF ForeignWrite, IInv, TypeOK, PaymentsTypeOK, Requests
  <2>2. \A s \in ForeignStatuses, ref \in References :
          [status |-> s, provider |-> payments[r].provider, providerReference |-> ref] # NoPayment
    BY <2>1, RoutesAssumption, MarkersAssumption DEF PaymentRow
  <2>3. payments'[r] # NoPayment
    BY <1>5, <2>1, <2>2 DEF ForeignWrite, UpdateRow, IInv, TypeOK, PaymentsTypeOK, Requests
  <2>. QED  BY <1>5, <2>1, <2>3 DEF ForeignWrite, Quiet
<1>. QED  BY <1>1, <1>2, <1>3, <1>4, <1>5

\* A crash ends the payments of the requests it kills.
LEMMA CrashEnds ==
  ASSUME IInv, Crash
  PROVE  KeyedStep
<1>0. PICK ks \in SUBSET Keys :
        \A k \in Keys : k \in ks <=> \E q \in StoredUnder(k) : InFlight(q)
  <2>1. {k \in Keys : \E q \in StoredUnder(k) : InFlight(q)} \in SUBSET Keys
    OBVIOUS
  <2>. QED  BY <2>1
<1>1. \A k \in Keys : StoredUnder(k)' = StoredUnder(k) /\ AskedUnder(k)' = AskedUnder(k)
  BY DEF Crash, StoredUnder, AskedUnder
<1>2. ASSUME NEW k \in Keys, NEW q \in StoredUnder(k)
      PROVE  /\ StoredUnder(k) = {q}
             /\ InFlight(q) => PhaseOf(k) = "open" /\ PhaseOf(k)' = "ended"
             /\ ~InFlight(q) => PhaseOf(k)' = PhaseOf(k)
  <2>1. q \in Requests /\ payments[q] # NoPayment /\ input[q].key = k
    BY <1>2 DEF StoredUnder
  <2>2. StoredUnder(k) = {q} /\ StoredUnder(k)' = {q}
    BY <1>1, <2>1, OwnerOfKey
  <2>3. InFlight(q) => outcome[q] = "none" /\ pc[q] # "crashed"
    BY <2>1 DEF IInv, Local, Answered, InFlight
  <2>4. pc'[q] = (IF InFlight(q) THEN "crashed" ELSE pc[q]) /\ outcome' = outcome
    BY <2>1 DEF Crash
  <2>. QED  BY <2>2, <2>3, <2>4 DEF PhaseOf
<1>3. ASSUME NEW k \in Keys, StoredUnder(k) = {} PROVE PhaseOf(k)' = PhaseOf(k)
  BY <1>1, <1>3 DEF PhaseOf
<1>4. \A k \in ks : PhaseOf(k) = "open" /\ PhaseOf(k)' = "ended"
  BY <1>0, <1>2
<1>5. ASSUME NEW k \in Keys \ ks PROVE PhaseOf(k)' = PhaseOf(k)
  <2>1. CASE StoredUnder(k) = {}
    BY <1>3, <2>1
  <2>2. CASE StoredUnder(k) # {}
    BY <1>0, <1>2, <1>5, <2>2
  <2>. QED  BY <2>1, <2>2
<1>6. Keyed!PaymentNext
  BY <1>1, <1>4, <1>5, EndIsAllowed
<1>. QED  BY <1>6 DEF KeyedStep

\* A step of a request leaves the others' state alone.
LEMMA StepKeepsOthers ==
  ASSUME IInv, NEW r \in Requests,
         \/ \E i \in Inputs : FindExisting(r, i)
         \/ Resume(r) \/ ForeignWrite(r)
         \/ \E i \in Candidates : ProviderServes(r, i)
  PROVE  \A q \in Requests \ {r} : Kept(q)
<1>. USE DEF Finish, Goto, ThrowFinal, UpdateRow, Kept, Requests
<1>1. CASE \/ \E i \in Inputs : FindExisting(r, i)
           \/ ForeignWrite(r)
           \/ \E i \in Candidates : ProviderServes(r, i)
  BY <1>1 DEF FindExisting, ForeignWrite, ProviderServes, IInv, TypeOK, PaymentsTypeOK
<1>2. CASE ResolveCandidates(r) \/ CreatePayment(r) \/ Attempt(r)
  BY <1>2 DEF ResolveCandidates, CreatePayment, Attempt, IInv, TypeOK, PaymentsTypeOK
<1>3. CASE ProviderCallRejects(r) \/ ReceiveAnswer(r) \/ UpdatePayment(r)
  BY <1>3 DEF ProviderCallRejects, ReceiveAnswer, UpdatePayment, IInv, TypeOK, PaymentsTypeOK
<1>4. CASE CreateLog(r) \/ CatchLog(r) \/ MarkPaymentFailed(r)
  BY <1>4 DEF CreateLog, CatchLog, MarkPaymentFailed, IInv, TypeOK, PaymentsTypeOK
<1>. QED  BY <1>1, <1>2, <1>3, <1>4 DEF Resume

LEMMA NextKeepsThePromise ==
  ASSUME IInv, IInv', [Next]_vars
  PROVE  KeyedStep
<1>1. ASSUME NEW r \in Requests,
             \/ \E i \in Inputs : FindExisting(r, i)
             \/ Resume(r) \/ ForeignWrite(r)
             \/ \E i \in Candidates : ProviderServes(r, i)
      PROVE  KeyedStep
  <2>1. \A q \in Requests \ {r} : Kept(q)
    BY <1>1, StepKeepsOthers
  <2>. QED  BY <1>1, <2>1, QuietActions, QuietStep, CreatePaymentOpens, AttemptAsks,
               CreateLogSucceeds, CatchLogMovesOnOrEnds, MarkPaymentFailedEnds DEF Resume
<1>2. CASE Crash  BY <1>2, CrashEnds
<1>3. CASE UNCHANGED vars
  <2>1. \A k \in Keys : SameKey(k)
    BY <1>3 DEF vars, SameKey, StoredUnder, AskedUnder, PhaseOf
  <2>. QED  BY <2>1 DEF KeyedStep, SameKey
<1>. QED  BY <1>1, <1>2, <1>3 DEF Next

\* However requests under one key race, are repeated or die, one payment is made,
\* its candidates asked in order, and its end is final.
THEOREM Refinement == Spec => ImplementsKeyedPayment
<1>1. Init => Keyed!PaymentInit
  <2>. SUFFICES ASSUME Init PROVE Keyed!PaymentInit
    OBVIOUS
  <2>1. \A k \in Keys : StoredUnder(k) = {} /\ AskedUnder(k) = {}
    BY DEF Init, StoredUnder, AskedUnder
  <2>2. \A k \in Keys : PhaseOf(k) = "free"
    BY <2>1 DEF PhaseOf
  <2>. QED  BY <2>1, <2>2 DEF Keyed!PaymentInit
<1>2. IInv /\ IInv' /\ [Next]_vars =>
        [Keyed!PaymentNext]_<<[k \in Keys |-> StoredUnder(k)], [k \in Keys |-> AskedUnder(k)],
                              [k \in Keys |-> PhaseOf(k)]>>
  BY NextKeepsThePromise DEF KeyedStep
<1>. QED  BY <1>1, <1>2, Invariance, PTL DEF Spec, ImplementsKeyedPayment, Keyed!PaymentSpec

=============================================================================
