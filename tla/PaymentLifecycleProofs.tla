----------------------- MODULE PaymentLifecycleProofs -----------------------
(***************************************************************************)
(* Proofs about PaymentLifecycle, for any number of lookups, callbacks and *)
(* operations on a payment, in either store.                               *)
(*                                                                         *)
(* Knows says how the object a flow holds is related to the row while no   *)
(* other flow has changed it.  It is stated of a row, so that the same     *)
(* formula says what a step must leave (Sound) and what holds (IInv).      *)
(***************************************************************************)
EXTENDS PaymentLifecycle, TLAPS

-----------------------------------------------------------------------------
(* The invariant                                                           *)

Pcs == Ended \cup {"new", "await", "received", "update", "log", "catchLog", "catchTransient",
                    "markFailed"}

\* A status is kept or changed along the table.
Moves(from, to) == from = to \/ TransitionAllowed(from, to)

\* The object a flow with locals x holds when the row is `row`.
ObjectIn(x, row) == IF store = "memory" THEN row ELSE x.copy

\* What flow f with locals x, suspended at l, relies on when the row is `row`.
Knows(f, l, x, row) ==
  LET object == ObjectIn(x, row) IN
  /\ x \in Locals
  /\ store = "memory" => x.copy = NoCopy
  /\ l = "received" => f \in Deliveries /\ x.answer \in PaymentStatuses
  /\ l # "received" => object \in PaymentRow
  /\ f \notin Deliveries /\ x.fresh => /\ Moves(row.status, object.status)
                                       /\ l \in {"await", "catchTransient"} =>
                                            object.status = row.status
  /\ l # "received" /\ x.fresh /\ object.providerReference = NoReference
     => row.providerReference = NoReference
  /\ f \notin Deliveries \cup {Initial} =>
       /\ object.providerReference # NoReference
       /\ x.fresh => row.providerReference # NoReference

\* What a lookup knows besides, when the provider's status is `status`.
LookupKnows(status, l, x, row) ==
  /\ x.steady => x.answer \in {NoAnswer, status, "UNKNOWN"}
  /\ l \in {"await", "update", "log"}
  /\ l \in {"update", "log"} => x.answer # NoAnswer
  /\ x.fresh /\ l \in {"update", "log"} => ObjectIn(x, row).status = x.answer
  /\ x.fresh /\ l = "log" => row.status = x.answer

IInv ==
  /\ TypeOK
  /\ Row \in PaymentRow
  /\ pc[Initial] # "new"
  /\ \A f \in Flows : InFlight(f) => Knows(f, pc[f], local[f], Row)
  /\ \A l \in Lookups : InFlight(l) => LookupKnows(truth, pc[l], local[l], Row)

-----------------------------------------------------------------------------
(* Lemmas about the definitions the steps are made of                      *)

\* The table leads from a status to statuses.
LEMMA TransitionType ==
  ASSUME NEW from \in PaymentStatuses, NEW to, TransitionAllowed(from, to)
  PROVE  to \in PaymentStatuses
BY DEF TransitionAllowed, stateTransitions, PaymentStatuses

\* What may fail after one move might have failed before it.
LEMMA FailingEarlier ==
  ASSUME NEW from \in PaymentStatuses, NEW to \in PaymentStatuses,
         Moves(from, to), TransitionAllowed(to, "FAILED")
  PROVE  TransitionAllowed(from, "FAILED")
BY DEF Moves, TransitionAllowed, stateTransitions, PaymentStatuses

LEMMA WithStatusType ==
  ASSUME NEW row \in PaymentRow, NEW status \in PaymentStatuses
  PROVE  /\ WithStatus(row, status) \in PaymentRow
         /\ WithStatus(row, status).status = status
         /\ WithStatus(row, status).providerReference = row.providerReference
BY DEF WithStatus, PaymentRow

LEMMA WithReferenceType ==
  ASSUME NEW row \in PaymentRow, NEW ref \in References \cup {NoReference}
  PROVE  /\ WithReference(row, ref) \in PaymentRow
         /\ WithReference(row, ref).status = row.status
         /\ WithReference(row, ref).providerReference = ref
BY DEF WithReference, PaymentRow

LEMMA WithProviderType ==
  ASSUME NEW row \in PaymentRow, NEW p \in Providers
  PROVE  /\ WithProvider(row, p) \in PaymentRow
         /\ WithProvider(row, p).status = row.status
         /\ WithProvider(row, p).providerReference = row.providerReference
BY DEF WithProvider, PaymentRow

\* What the provider's status can be, as payments see it.
LEMMA TruthType ==
  /\ DOMAIN OwnMoves = {"none", "PENDING", "PENDING_3DS", "AUTHORIZED", "CAPTURED", "FAILED",
                        "REFUNDED", "VOIDED"}
  /\ DOMAIN OwnMoves \ {"none"} \subseteq PaymentStatuses
  /\ \A s \in DOMAIN OwnMoves : OwnMoves[s] \subseteq DOMAIN OwnMoves \ {"none"}
  /\ \A x \in Operations : /\ OperationMoves[OperationOf[x]][1] \in DOMAIN OwnMoves \ {"none"}
                           /\ OperationMoves[OperationOf[x]][2] \in DOMAIN OwnMoves \ {"none"}
<1>1. DOMAIN OwnMoves = {"none", "PENDING", "PENDING_3DS", "AUTHORIZED", "CAPTURED", "FAILED",
                         "REFUNDED", "VOIDED"}
  BY DEF OwnMoves
<1>2. \A s \in DOMAIN OwnMoves : OwnMoves[s] \subseteq DOMAIN OwnMoves \ {"none"}
  BY DEF OwnMoves
<1>3. ASSUME NEW x \in Operations
      PROVE  /\ OperationMoves[OperationOf[x]][1] \in DOMAIN OwnMoves \ {"none"}
             /\ OperationMoves[OperationOf[x]][2] \in DOMAIN OwnMoves \ {"none"}
  <2>1. OperationOf[x] \in {"CAPTURE", "REFUND", "VOID"}
    BY FlowsAssumption
  <2>. QED  BY <1>1, <2>1 DEF OperationMoves
<1>. QED  BY <1>1, <1>2, <1>3 DEF PaymentStatuses

-----------------------------------------------------------------------------
(* A step of one flow                                                      *)

\* What a step of f to l, with locals x and a row `row`, must see to.
Sound(f, l, x, row) ==
  /\ l \in Pcs \ {"new", "crashed"} /\ l # pc[f] /\ pc[f] \notin Ended
  /\ row \in PaymentRow
  /\ pc[f] = "new" => f # Initial /\ row = Row
  /\ f \notin Deliveries /\ UpToDate(f) => Moves(Row.status, row.status)
  /\ Row.providerReference # NoReference /\ row.providerReference = NoReference
     => store = "database" /\ f \in {Initial} \cup Deliveries /\ ~UpToDate(f)
  /\ l \notin Ended => Knows(f, l, x, row) /\ (f \in Lookups => LookupKnows(truth, l, x, row))
  /\ f \in Lookups /\ l = "ok" => pc[f] = "log" /\ row = Row
  /\ f \in Lookups /\ l = "rejected" =>
       /\ pc[f] = "await" /\ local[f].answer # NoAnswer
       /\ ~Moves(Object(f).status, local[f].answer)

\* A step of f that is sound.
SoundStep(f) ==
  /\ \E l \in Pcs, x \in Locals \cup {NoLocals}, row \in PaymentRow :
       Sound(f, l, x, row) /\ Step(f, l, x, row)
  /\ UNCHANGED truth
  /\ asked' \in Providers

\* What a step does to the row, to f and to the others.
LEMMA StepEffect ==
  ASSUME IInv, NEW f \in Flows, NEW l \in Pcs, NEW x \in Locals \cup {NoLocals},
         NEW row \in PaymentRow, Step(f, l, x, row)
  PROVE  /\ Row' = row /\ PaymentsTypeOK' /\ (row = Row => payments' = payments)
         /\ store' = store
         /\ pc' \in [Flows -> Pcs] /\ pc'[f] = l
         /\ local'[f] = IF l \in Ended THEN NoLocals ELSE x
         /\ \A g \in Flows \ {f} :
              /\ pc'[g] = pc[g]
              /\ \/ local'[g] = local[g] /\ (row = Row \/ local[g] = NoLocals)
                 \/ /\ row # Row /\ local[g] # NoLocals
                    /\ local'[g] = [local[g] EXCEPT !.fresh = FALSE]
<1>1. payments \in [PaymentIds -> PaymentRow \cup {NoPayment}] /\ thePayment \in PaymentIds
  BY FlowsAssumption DEF IInv, TypeOK, PaymentsTypeOK
<1>2. Row # NoPayment
  BY MarkersAssumption DEF IInv
<1>3. payments' = [payments EXCEPT ![thePayment] = row]
  BY <1>1, <1>2 DEF Step, UpdateRow, Row
<1>4. Row' = row /\ PaymentsTypeOK' /\ (row = Row => payments' = payments)
  BY <1>1, <1>3 DEF Row, PaymentsTypeOK
<1>5. pc \in [Flows -> Pcs]
  BY DEF IInv, TypeOK, Pcs
<1>. QED  BY <1>4, <1>5 DEF Step

\* What another flow knows, it knows still, of the new row.
LEMMA OthersKnow ==
  ASSUME IInv, NEW row \in PaymentRow, NEW g \in Flows, InFlight(g),
         store = "memory" /\ Row.providerReference # NoReference
           => row.providerReference # NoReference,
         NEW x, \/ x = local[g] /\ row = Row
                \/ x = [local[g] EXCEPT !.fresh = FALSE]
  PROVE  /\ Knows(g, pc[g], x, row)
         /\ g \in Lookups => LookupKnows(truth, pc[g], x, row)
<1>1. /\ Knows(g, pc[g], local[g], Row)
      /\ g \in Lookups => LookupKnows(truth, pc[g], local[g], Row)
      /\ Row \in PaymentRow
  BY DEF IInv
<1>2. CASE x = local[g] /\ row = Row
  BY <1>1, <1>2
<1>3. CASE x = [local[g] EXCEPT !.fresh = FALSE]
  <2>1. /\ x \in Locals /\ x.fresh = FALSE /\ x.copy = local[g].copy
        /\ x.answer = local[g].answer /\ x.steady = local[g].steady
    BY <1>1, <1>3 DEF Knows, Locals
  <2>2. CASE store = "memory"
    BY <1>1, <2>1, <2>2 DEF Knows, LookupKnows, ObjectIn
  <2>3. CASE store # "memory"
    BY <1>1, <2>1, <2>3 DEF Knows, LookupKnows, ObjectIn
  <2>. QED  BY <2>2, <2>3
<1>. QED  BY <1>2, <1>3

\* What is known in terms of the values after a step is known after it.
LEMMA KnownAfter ==
  ASSUME NEW g \in Flows, NEW l, NEW x, NEW row,
         store' = store, pc'[g] = l, local'[g] = x, Row' = row
  PROVE  /\ Knows(g, l, x, row) => Knows(g, pc[g], local[g], Row)'
         /\ LookupKnows(truth', l, x, row) => LookupKnows(truth, pc[g], local[g], Row)'
BY DEF Knows, LookupKnows, ObjectIn

LEMMA SoundStepKeeps ==
  ASSUME IInv, NEW f \in Flows, SoundStep(f)
  PROVE  IInv'
<1>1. PICK l \in Pcs, x \in Locals \cup {NoLocals}, row \in PaymentRow :
        Sound(f, l, x, row) /\ Step(f, l, x, row)
  BY DEF SoundStep
<1>2. /\ Row' = row /\ PaymentsTypeOK' /\ store' = store /\ truth' = truth
      /\ asked' \in Providers
      /\ pc' \in [Flows -> Pcs] /\ pc'[f] = l
      /\ local'[f] = IF l \in Ended THEN NoLocals ELSE x
      /\ \A g \in Flows \ {f} :
           /\ pc'[g] = pc[g]
           /\ \/ local'[g] = local[g] /\ (row = Row \/ local[g] = NoLocals)
              \/ /\ row # Row /\ local[g] # NoLocals
                    /\ local'[g] = [local[g] EXCEPT !.fresh = FALSE]
  BY <1>1, StepEffect DEF SoundStep
<1>3. ASSUME NEW g \in Flows, InFlight(g)'
      PROVE  /\ Knows(g, pc'[g], local'[g], row)
             /\ g \in Lookups => LookupKnows(truth, pc'[g], local'[g], row)
  <2>1. CASE g = f
    BY <1>1, <1>2, <1>3, <2>1 DEF Sound, InFlight
  <2>2. CASE g # f
    <3>1. InFlight(g) /\ pc'[g] = pc[g]
      BY <1>2, <1>3, <2>2 DEF InFlight
    <3>2. local[g] # NoLocals
      BY <3>1 DEF IInv, TypeOK
    <3>3. \/ local'[g] = local[g] /\ row = Row
          \/ local'[g] = [local[g] EXCEPT !.fresh = FALSE]
      BY <1>2, <2>2, <3>2
    <3>4. store = "memory" /\ Row.providerReference # NoReference
          => row.providerReference # NoReference
      BY <1>1 DEF Sound, IInv, TypeOK
    <3>. QED  BY <3>1, <3>3, <3>4, OthersKnow
  <2>. QED  BY <2>1, <2>2
<1>4. ASSUME NEW g \in Flows
      PROVE  /\ InFlight(g)' => local'[g] \in Locals /\ local'[g] # NoLocals
             /\ ~InFlight(g)' => local'[g] = NoLocals
             /\ InFlight(g)' /\ store = "memory" => local'[g].copy = NoCopy
  <2>1. InFlight(g)' => /\ local'[g] \in Locals
                        /\ store = "memory" => local'[g].copy = NoCopy
    BY <1>3 DEF Knows
  <2>2. ~InFlight(g)' => local'[g] = NoLocals
    <3>1. CASE g = f
      BY <1>1, <1>2, <3>1 DEF Sound, InFlight
    <3>2. CASE g # f
      <4>1. pc'[g] = pc[g] /\ (~InFlight(g)' => ~InFlight(g))
        BY <1>2, <3>2 DEF InFlight
      <4>2. ~InFlight(g)' => local[g] = NoLocals
        BY <4>1 DEF IInv, TypeOK
      <4>. QED  BY <1>2, <3>2, <4>2
    <3>. QED  BY <3>1, <3>2
  <2>. QED  BY <2>1, <2>2, MarkersAssumption
<1>5. local' \in [Flows -> Locals \cup {NoLocals}]
  BY <1>1, <1>4 DEF Step
<1>6. TypeOK'
  BY <1>2, <1>4, <1>5 DEF TypeOK, IInv, Pcs
<1>7. pc'[Initial] # "new"
  <2>1. Initial \in Flows
    BY DEF Flows
  <2>. QED  BY <1>1, <1>2, <2>1 DEF Sound, IInv
<1>8. ASSUME NEW g \in Flows
      PROVE  /\ InFlight(g)' => Knows(g, pc[g], local[g], Row)'
             /\ InFlight(g)' /\ g \in Lookups => LookupKnows(truth, pc[g], local[g], Row)'
  BY <1>2, <1>3, KnownAfter
<1>. QED  BY <1>2, <1>6, <1>7, <1>8 DEF IInv, Flows

-----------------------------------------------------------------------------
(* Every handler is a sound step                                           *)

\* Labels at which a flow holds an object.
Holds == {"await", "update", "log", "catchLog", "catchTransient", "markFailed"}

\* What a flow in flight can say of its object and of the row.
LEMMA InHand ==
  ASSUME IInv, NEW f \in Flows, pc[f] \in Holds
  PROVE  /\ InFlight(f) /\ Knows(f, pc[f], local[f], Row) /\ Row \in PaymentRow
         /\ f \in Lookups => LookupKnows(truth, pc[f], local[f], Row)
         /\ local[f] \in Locals /\ Object(f) = ObjectIn(local[f], Row)
         /\ Object(f) \in PaymentRow
         /\ UpToDate(f) <=> store = "memory" \/ local[f].fresh
         /\ store \in {"database", "memory"}
<1>1. InFlight(f) /\ pc[f] # "received"
  BY DEF Holds, InFlight, Ended
<1>2. Knows(f, pc[f], local[f], Row)
  BY <1>1 DEF IInv
<1>. QED  BY <1>1, <1>2 DEF IInv, TypeOK, Knows, Object, ObjectIn, UpToDate

\* Most steps leave what the provider has, and which one was asked, as they are.
LEMMA AtProviderKept ==
  ASSUME IInv, UNCHANGED atProvider
  PROVE  truth' = truth /\ asked' \in Providers
BY DEF IInv, TypeOK, atProvider

\* Going on without touching the object or the row.
LEMMA GotoIsSound ==
  ASSUME IInv, NEW f \in Flows, pc[f] \in Holds,
         NEW l \in Pcs \ {"new", "crashed", "received", "await"}, l # pc[f],
         l = "catchTransient" => pc[f] = "await",
         f \in Lookups => l = "error" \/ (l = "ok" /\ pc[f] = "log"),
         Goto(f, l), UNCHANGED atProvider
  PROVE  SoundStep(f)
<1>1. /\ InFlight(f) /\ Knows(f, pc[f], local[f], Row) /\ Row \in PaymentRow
      /\ local[f] \in Locals /\ Object(f) = ObjectIn(local[f], Row)
      /\ Object(f) \in PaymentRow
  BY InHand
<1>2. Knows(f, l, local[f], Row)
  BY <1>1 DEF Knows, Holds
<1>3. Sound(f, l, local[f], Row)
  BY <1>1, <1>2 DEF Sound, Moves, Holds, InFlight, Ended
<1>. QED  BY <1>1, <1>3, AtProviderKept DEF Goto, SoundStep

\* Taking over an answer into the object.
LEMMA AssignIsSound ==
  ASSUME IInv, NEW f \in Flows \ Deliveries, pc[f] = "await",
         NEW l \in {"update", "catchLog", "rejected"},
         NEW row \in PaymentRow, row.providerReference # NoReference,
         Moves(Object(f).status, row.status),
         f \in Lookups => /\ l # "catchLog"
                          /\ l = "update" => /\ local[f].answer # NoAnswer
                                             /\ row.status = local[f].answer
                          /\ l = "rejected" => /\ local[f].answer # NoAnswer
                                               /\ ~Moves(Object(f).status, local[f].answer),
         Assign(f, l, row), UNCHANGED atProvider
  PROVE  SoundStep(f)
<1>0. truth' = truth /\ asked' \in Providers
  BY AtProviderKept
<1>1. /\ InFlight(f) /\ Knows(f, pc[f], local[f], Row) /\ Row \in PaymentRow
      /\ f \in Lookups => LookupKnows(truth, pc[f], local[f], Row)
      /\ local[f] \in Locals /\ Object(f) = ObjectIn(local[f], Row)
      /\ UpToDate(f) <=> store = "memory" \/ local[f].fresh
  BY InHand DEF Holds
<1>2. l \in Pcs \ {"new", "crashed"} /\ l # pc[f] /\ pc[f] \notin Ended
  BY DEF Pcs, Ended
<1>3. CASE store = "memory"
  <2>1. Knows(f, l, local[f], row)
    BY <1>1, <1>3 DEF Knows, ObjectIn, Moves
  <2>2. f \in Lookups /\ l = "update" => LookupKnows(truth, l, local[f], row)
    BY <1>1, <1>3 DEF LookupKnows, ObjectIn
  <2>3. Moves(Row.status, row.status)
    BY <1>1, <1>3 DEF ObjectIn
  <2>4. Sound(f, l, local[f], row)
    BY <1>1, <1>2, <2>1, <2>2, <2>3 DEF Sound, Ended
  <2>. QED  BY <1>0, <1>1, <1>2, <1>3, <2>4 DEF Assign, SoundStep
<1>4. CASE store # "memory"
  <2> DEFINE x == [local[f] EXCEPT !.copy = row]
  <2>1. /\ x \in Locals /\ x.copy = row /\ x.fresh = local[f].fresh
        /\ x.answer = local[f].answer /\ x.steady = local[f].steady
    BY <1>1 DEF Locals
  <2>. HIDE DEF x
  <2>2. Knows(f, l, x, Row)
    BY <1>1, <1>4, <2>1 DEF Knows, ObjectIn
  <2>3. f \in Lookups /\ l = "update" => LookupKnows(truth, l, x, Row)
    BY <1>1, <1>4, <2>1 DEF LookupKnows, ObjectIn
  <2>4. Sound(f, l, x, Row)
    BY <1>1, <1>2, <2>2, <2>3 DEF Sound, Ended, Moves
  <2>5. Step(f, l, x, Row)
    BY <1>4 DEF Assign, x
  <2>. QED  BY <1>0, <1>1, <1>2, <2>1, <2>4, <2>5 DEF SoundStep
<1>. QED  BY <1>3, <1>4

\* Asking the next candidate: the object gets its provider.
LEMMA FailOverIsSound ==
  ASSUME IInv, NEW f \in Flows, FailOver(f)
  PROVE  SoundStep(f)
<1>1. PICK p \in Providers :
        /\ f = Initial /\ pc[f] = "catchTransient" /\ truth' = truth /\ asked' \in Providers
        /\ Assign(f, "await", WithProvider(Object(f), p))
  BY DEF FailOver
<1>2. /\ InFlight(f) /\ Knows(f, pc[f], local[f], Row) /\ Row \in PaymentRow
      /\ local[f] \in Locals /\ Object(f) = ObjectIn(local[f], Row)
      /\ Object(f) \in PaymentRow
      /\ f \notin Deliveries /\ f \notin Lookups /\ f \notin Operations
  BY <1>1, InHand, FlowsAssumption DEF Holds
<1> DEFINE row == WithProvider(Object(f), p)
<1>3. /\ row \in PaymentRow /\ row.status = Object(f).status
      /\ row.providerReference = Object(f).providerReference
  BY <1>2, WithProviderType
<1>4. Assign(f, "await", row)
  BY <1>1
<1>. HIDE DEF row
<1>5. "await" \in Pcs \ {"new", "crashed"} /\ "await" # pc[f] /\ pc[f] \notin Ended
  BY <1>1 DEF Pcs, Ended
<1>6. CASE store = "memory"
  <2>1. Knows(f, "await", local[f], row)
    BY <1>1, <1>2, <1>3, <1>6 DEF Knows, ObjectIn, Moves
  <2>2. Sound(f, "await", local[f], row)
    BY <1>1, <1>2, <1>3, <1>5, <1>6, <2>1 DEF Sound, Ended, ObjectIn, Moves
  <2>. QED  BY <1>1, <1>2, <1>3, <1>4, <1>5, <1>6, <2>2 DEF Assign, SoundStep
<1>7. CASE store # "memory"
  <2> DEFINE x == [local[f] EXCEPT !.copy = row]
  <2>1. /\ x \in Locals /\ x.copy = row /\ x.fresh = local[f].fresh
        /\ x.answer = local[f].answer /\ x.steady = local[f].steady
    BY <1>2, <1>3 DEF Locals
  <2>. HIDE DEF x
  <2>2. Knows(f, "await", x, Row)
    BY <1>1, <1>2, <1>3, <1>7, <2>1 DEF Knows, ObjectIn
  <2>3. Sound(f, "await", x, Row)
    BY <1>1, <1>2, <1>5, <2>2 DEF Sound, Ended, Moves
  <2>4. Step(f, "await", x, Row)
    BY <1>4, <1>7 DEF Assign, x
  <2>. QED  BY <1>1, <1>2, <1>5, <2>1, <2>3, <2>4 DEF SoundStep
<1>. QED  BY <1>6, <1>7

LEMMA BeginIsSound ==
  ASSUME IInv, NEW f \in Flows, Begin(f)
  PROVE  SoundStep(f)
<1> DEFINE x == Holding(Row, NoAnswer)
           l == IF Row.providerReference = NoReference THEN "noReference" ELSE "await"
<1>1. /\ pc[f] = "new" /\ Step(f, l, x, Row)
      /\ truth' = truth /\ asked' \in Providers
      /\ f \in Lookups \cup Operations /\ Row \in PaymentRow
      /\ f \notin Deliveries /\ f # Initial
  BY FlowsAssumption, AtProviderKept DEF Begin, IInv
<1>2. /\ x \in Locals /\ x.answer = NoAnswer
      /\ x.copy = IF store = "memory" THEN NoCopy ELSE Row
  BY <1>1 DEF Holding, Locals
<1>. HIDE DEF x
<1>3. l = "await" => Knows(f, l, x, Row) /\ (f \in Lookups => LookupKnows(truth, l, x, Row))
  BY <1>1, <1>2 DEF Knows, LookupKnows, ObjectIn, Moves
<1>4. Sound(f, l, x, Row)
  BY <1>1, <1>2, <1>3 DEF Sound, Ended, Pcs, Moves
<1>5. l \in Pcs
  BY DEF Pcs, Ended
<1>. QED  BY <1>1, <1>2, <1>4, <1>5 DEF SoundStep

LEMMA NotifyIsSound ==
  ASSUME IInv, NEW d \in Flows, Notify(d)
  PROVE  SoundStep(d)
<1> DEFINE x == [Holding(Row, truth) EXCEPT !.copy = NoCopy]
<1>1. /\ pc[d] = "new" /\ Step(d, "received", x, Row)
      /\ truth' = truth /\ asked' \in Providers
      /\ d \in Deliveries /\ d # Initial /\ d \notin Lookups /\ Row \in PaymentRow
      /\ truth \in PaymentStatuses
  BY FlowsAssumption, TruthType, AtProviderKept DEF Notify, IInv, TypeOK
<1>2. x \in Locals /\ x.copy = NoCopy /\ x.answer = truth
  BY <1>1 DEF Holding, Locals
<1>. HIDE DEF x
<1>3. Knows(d, "received", x, Row)
  BY <1>1, <1>2 DEF Knows
<1>4. Sound(d, "received", x, Row)
  BY <1>1, <1>3 DEF Sound, Ended, Pcs, Moves
<1>. QED  BY <1>1, <1>2, <1>4 DEF SoundStep, Pcs

LEMMA HandleEventIsSound ==
  ASSUME IInv, NEW d \in Flows, HandleEvent(d)
  PROVE  SoundStep(d)
<1>1. /\ pc[d] = "received" /\ truth' = truth /\ asked' \in Providers /\ InFlight(d)
      /\ Knows(d, pc[d], local[d], Row) /\ Row \in PaymentRow
  BY AtProviderKept DEF HandleEvent, IInv, InFlight, Ended
<1>2. d \in Deliveries /\ d \notin Lookups /\ local[d].answer \in PaymentStatuses
  BY <1>1, FlowsAssumption DEF Knows
<1>3. PICK ref \in References \cup {Row.providerReference} :
        LET row == WithReference(WithStatus(Row, local[d].answer), ref) IN
        Step(d, "update", Holding(row, local[d].answer), IF store = "memory" THEN row ELSE Row)
  BY DEF HandleEvent
<1> DEFINE row == WithReference(WithStatus(Row, local[d].answer), ref)
           x == Holding(row, local[d].answer)
           stored == IF store = "memory" THEN row ELSE Row
<1>4. Row.providerReference \in References \cup {NoReference}
  BY <1>1 DEF PaymentRow
<1>5. row \in PaymentRow /\ row.providerReference = ref
  BY <1>1, <1>2, <1>3, <1>4, WithStatusType, WithReferenceType
<1>6. ref = NoReference => Row.providerReference = NoReference
  BY <1>3, MarkersAssumption
<1>. HIDE DEF row
<1>7. /\ x \in Locals /\ stored \in PaymentRow
      /\ x.copy = IF store = "memory" THEN NoCopy ELSE row
  BY <1>1, <1>2, <1>5 DEF Holding, Locals
<1>8. ObjectIn(x, stored) = row /\ (stored.providerReference = NoReference
                                    => Row.providerReference = NoReference)
      /\ (ref = NoReference => stored.providerReference = NoReference)
  BY <1>5, <1>6, <1>7 DEF ObjectIn
<1>9. Step(d, "update", x, stored)
  BY <1>3 DEF row
<1>. HIDE DEF x, stored
<1>10. store = "memory" => x.copy = NoCopy
  BY <1>7
<1>11. Knows(d, "update", x, stored)
  BY <1>2, <1>5, <1>7, <1>8, <1>10 DEF Knows
<1>12. Sound(d, "update", x, stored)
  BY <1>1, <1>2, <1>7, <1>8, <1>11 DEF Sound, Ended, Pcs
<1>. QED  BY <1>1, <1>7, <1>9, <1>12 DEF SoundStep, Pcs

LEMMA CallRejectsIsSound ==
  ASSUME IInv, NEW f \in Flows, CallRejects(f)
  PROVE  SoundStep(f)
<1>1. PICK l \in {"error", "catchLog", "catchTransient"} :
        Goto(f, l) /\ (f \in Lookups => l = "error")
  BY DEF CallRejects
<1>2. /\ pc[f] \in Holds /\ pc[f] = "await" /\ l # pc[f] /\ UNCHANGED atProvider
      /\ l \in Pcs \ {"new", "crashed", "received", "await"}
  BY DEF CallRejects, Holds, Pcs, Ended
<1>3. /\ Goto(f, l)
      /\ f \in Lookups => l = "error" \/ (l = "ok" /\ pc[f] = "log")
  BY <1>1
<1>. QED  BY <1>2, <1>3, GotoIsSound

LEMMA LogsAreSound ==
  ASSUME IInv, NEW f \in Flows, CreateLog(f) \/ CatchLog(f)
  PROVE  SoundStep(f)
<1>1. CASE CreateLog(f)
  <2>1. PICK l \in {"ok", "error", "catchLog"} :
          Goto(f, l) /\ (f \in Lookups => l \in {"ok", "error"})
    BY <1>1, FlowsAssumption DEF CreateLog, Catch
  <2>. QED  BY <1>1, <2>1, GotoIsSound DEF CreateLog, Holds, Pcs, Ended
<1>2. CASE CatchLog(f)
  <2>1. f \notin Lookups
    BY <1>2, InHand DEF CatchLog, Holds, LookupKnows
  <2>2. PICK l \in {"error", "markFailed"} : Goto(f, l)
    BY <1>2 DEF CatchLog
  <2>. QED  BY <1>2, <2>1, <2>2, GotoIsSound DEF CatchLog, Holds, Pcs, Ended
<1>. QED  BY <1>1, <1>2

LEMMA ReceiveAnswerIsSound ==
  ASSUME IInv, NEW f \in Flows, ReceiveAnswer(f)
  PROVE  SoundStep(f)
<1> DEFINE a == local[f].answer
<1>1. /\ f = Initial /\ pc[f] = "await" /\ UNCHANGED atProvider /\ a # NoAnswer
      /\ f \notin Deliveries /\ f \notin Lookups
  BY FlowsAssumption DEF ReceiveAnswer
<1>2. Object(f) \in PaymentRow /\ Object(f).status \in PaymentStatuses
  BY <1>1, InHand DEF Holds, PaymentRow
<1>3. CASE TransitionAllowed(Object(f).status, a)
  <2>1. PICK ref \in References :
          Assign(f, "update", WithReference(WithStatus(Object(f), a), ref))
    BY <1>3 DEF ReceiveAnswer
  <2> DEFINE row == WithReference(WithStatus(Object(f), a), ref)
  <2>2. a \in PaymentStatuses
    BY <1>2, <1>3, TransitionType
  <2>3. /\ row \in PaymentRow /\ row.status = a /\ row.providerReference # NoReference
    <3>1. /\ WithStatus(Object(f), a) \in PaymentRow
          /\ WithStatus(Object(f), a).status = a
      BY <1>2, <2>2, WithStatusType
    <3>2. ref \in References \cup {NoReference} /\ ref # NoReference
      BY MarkersAssumption
    <3>. QED  BY <3>1, <3>2, WithReferenceType
  <2>4. Moves(Object(f).status, row.status)
    BY <1>3, <2>3 DEF Moves
  <2>. HIDE DEF row
  <2>5. Assign(f, "update", row)
    BY <2>1 DEF row
  <2>. QED  BY <1>1, <2>3, <2>4, <2>5, AssignIsSound
<1>4. CASE ~TransitionAllowed(Object(f).status, a)
  <2>1. Goto(f, "catchLog")
    BY <1>4 DEF ReceiveAnswer
  <2>. QED  BY <1>1, <2>1, GotoIsSound DEF Holds, Pcs, Ended
<1>. QED  BY <1>3, <1>4

LEMMA ReceiveLookupIsSound ==
  ASSUME IInv, NEW f \in Flows, ReceiveLookup(f)
  PROVE  SoundStep(f)
<1> DEFINE a == local[f].answer
           current == Object(f).status
<1>1. /\ f \in Lookups /\ pc[f] = "await" /\ UNCHANGED atProvider /\ a # NoAnswer
      /\ f \notin Deliveries
  BY FlowsAssumption DEF ReceiveLookup
<1>2. Object(f) \in PaymentRow /\ current \in PaymentStatuses
  BY <1>1, InHand DEF Holds, PaymentRow
<1>3. PICK ref \in References :
        IF a = current \/ TransitionAllowed(current, a)
        THEN Assign(f, "update", WithStatus(WithReference(Object(f), ref), a))
        ELSE Assign(f, "rejected", WithReference(Object(f), ref))
  BY DEF ReceiveLookup
<1> DEFINE referenced == WithReference(Object(f), ref)
<1>4. /\ referenced \in PaymentRow /\ referenced.status = current
      /\ referenced.providerReference = ref /\ ref # NoReference
  BY <1>2, WithReferenceType, MarkersAssumption
<1>. HIDE DEF referenced
<1>5. CASE a = current \/ TransitionAllowed(current, a)
  <2>1. Assign(f, "update", WithStatus(referenced, a))
    BY <1>3, <1>5 DEF referenced
  <2> DEFINE row == WithStatus(referenced, a)
  <2>2. a \in PaymentStatuses
    BY <1>2, <1>5, TransitionType
  <2>3. /\ row \in PaymentRow /\ row.status = a /\ row.providerReference # NoReference
    BY <1>4, <2>2, WithStatusType
  <2>4. Moves(Object(f).status, row.status)
    BY <1>5, <2>3 DEF Moves
  <2>. HIDE DEF row
  <2>5. Assign(f, "update", row)
    BY <2>1 DEF row
  <2>. QED  BY <1>1, <2>3, <2>4, <2>5, AssignIsSound
<1>6. CASE ~(a = current \/ TransitionAllowed(current, a))
  <2>1. Assign(f, "rejected", referenced)
    BY <1>3, <1>6 DEF referenced
  <2>2. ~Moves(Object(f).status, local[f].answer) /\ Moves(Object(f).status, referenced.status)
    BY <1>4, <1>6 DEF Moves
  <2>. QED  BY <1>1, <1>4, <2>1, <2>2, AssignIsSound
<1>. QED  BY <1>5, <1>6

LEMMA ReceiveResultIsSound ==
  ASSUME IInv, NEW f \in Flows, ReceiveResult(f)
  PROVE  SoundStep(f)
<1> DEFINE a == local[f].answer
           current == Object(f).status
<1>1. /\ f \in Operations /\ pc[f] = "await" /\ UNCHANGED atProvider
      /\ f \notin Deliveries /\ f \notin Lookups
  BY FlowsAssumption DEF ReceiveResult
<1>2. Object(f) \in PaymentRow /\ current \in PaymentStatuses
  BY <1>1, InHand DEF Holds, PaymentRow
<1>3. PICK ref \in References :
        IF a = "FAILED" THEN Assign(f, "update", WithReference(Object(f), ref))
        ELSE IF TransitionAllowed(current, a)
        THEN Assign(f, "update", WithStatus(WithReference(Object(f), ref), a))
        ELSE Assign(f, "catchLog", WithReference(Object(f), ref))
  BY DEF ReceiveResult
<1> DEFINE referenced == WithReference(Object(f), ref)
<1>4. /\ referenced \in PaymentRow /\ referenced.status = current
      /\ referenced.providerReference = ref /\ ref # NoReference
  BY <1>2, WithReferenceType, MarkersAssumption
<1>. HIDE DEF referenced
<1>5. CASE a # "FAILED" /\ TransitionAllowed(current, a)
  <2>1. Assign(f, "update", WithStatus(referenced, a))
    BY <1>3, <1>5 DEF referenced
  <2> DEFINE row == WithStatus(referenced, a)
  <2>2. a \in PaymentStatuses
    BY <1>2, <1>5, TransitionType
  <2>3. /\ row \in PaymentRow /\ row.status = a /\ row.providerReference # NoReference
    BY <1>4, <2>2, WithStatusType
  <2>4. Moves(Object(f).status, row.status)
    BY <1>5, <2>3 DEF Moves
  <2>. HIDE DEF row
  <2>5. Assign(f, "update", row)
    BY <2>1 DEF row
  <2>. QED  BY <1>1, <2>3, <2>4, <2>5, AssignIsSound
<1>6. CASE a = "FAILED" \/ ~TransitionAllowed(current, a)
  <2>1. \E l \in {"update", "catchLog"} : Assign(f, l, referenced)
    BY <1>3, <1>6 DEF referenced
  <2>2. PICK l \in {"update", "catchLog"} : Assign(f, l, referenced)
    BY <2>1
  <2>. QED  BY <1>1, <1>4, <2>2, AssignIsSound DEF Moves
<1>. QED  BY <1>5, <1>6

\* Saving the object: what the flow knows of it is what keeps this sound.
LEMMA UpdatePaymentIsSound ==
  ASSUME IInv, NEW f \in Flows, UpdatePayment(f)
  PROVE  SoundStep(f)
<1>1. /\ pc[f] = "update" /\ truth' = truth /\ asked' \in Providers
      /\ InFlight(f) /\ Knows(f, pc[f], local[f], Row) /\ Row \in PaymentRow
      /\ f \in Lookups => LookupKnows(truth, pc[f], local[f], Row)
      /\ local[f] \in Locals /\ Object(f) = ObjectIn(local[f], Row)
      /\ Object(f) \in PaymentRow
      /\ UpToDate(f) <=> store = "memory" \/ local[f].fresh
      /\ store \in {"database", "memory"}
  BY InHand, AtProviderKept DEF UpdatePayment, Holds
<1>2. PICK o \in StoreOutcomes :
        Step(f, IF Raised(o) THEN Catch(f) ELSE "log", local[f],
             IF Executed(o) THEN Object(f) ELSE Row)
  BY DEF UpdatePayment
<1> DEFINE l == IF Raised(o) THEN Catch(f) ELSE "log"
           row == IF Executed(o) THEN Object(f) ELSE Row
<1>3. /\ l \in {"log", "error", "catchLog"} /\ (f \in Lookups => l \in {"log", "error"})
      /\ l = "log" => row = Object(f)
      /\ row \in {Object(f), Row}
  BY FlowsAssumption DEF Catch, Raised, Executed
<1>4. Step(f, l, local[f], row)
  BY <1>2
<1>. HIDE DEF l, row
<1>5. Knows(f, l, local[f], row)
  BY <1>1, <1>3 DEF Knows, ObjectIn, Moves
<1>6. f \in Lookups /\ l = "log" => LookupKnows(truth, l, local[f], row)
  BY <1>1, <1>3 DEF LookupKnows, ObjectIn
<1>7. f \notin Deliveries /\ UpToDate(f) => Moves(Row.status, row.status)
  BY <1>1, <1>3 DEF Knows, ObjectIn, Moves
<1>8. Row.providerReference # NoReference /\ row.providerReference = NoReference
      => store = "database" /\ f \in {Initial} \cup Deliveries /\ ~UpToDate(f)
  BY <1>1, <1>3 DEF Knows, ObjectIn
<1>9. Sound(f, l, local[f], row)
  BY <1>1, <1>3, <1>5, <1>6, <1>7, <1>8 DEF Sound, Pcs, Ended
<1>. QED  BY <1>1, <1>3, <1>4, <1>9 DEF SoundStep, Pcs, Ended

LEMMA MarkPaymentFailedIsSound ==
  ASSUME IInv, NEW f \in Flows, MarkPaymentFailed(f)
  PROVE  SoundStep(f)
<1>1. /\ pc[f] = "markFailed" /\ truth' = truth /\ asked' \in Providers
      /\ InFlight(f) /\ Knows(f, pc[f], local[f], Row) /\ Row \in PaymentRow
      /\ local[f] \in Locals /\ Object(f) = ObjectIn(local[f], Row)
      /\ Object(f) \in PaymentRow
      /\ UpToDate(f) <=> store = "memory" \/ local[f].fresh
      /\ store \in {"database", "memory"}
  BY InHand, AtProviderKept DEF MarkPaymentFailed, Holds
<1> DEFINE failed == WithStatus(Object(f), "FAILED")
<1>2. PICK row \in {failed, Row} :
        /\ Step(f, "error", NoLocals, row)
        /\ row = failed => TransitionAllowed(Object(f).status, "FAILED") \/ row = Row
  BY DEF MarkPaymentFailed
<1>3. /\ failed \in PaymentRow /\ failed.status = "FAILED"
      /\ failed.providerReference = Object(f).providerReference
  BY <1>1, WithStatusType DEF PaymentStatuses
<1>. HIDE DEF failed
<1>4. f \notin Deliveries /\ UpToDate(f) => Moves(Row.status, row.status)
  <2>1. Row.status \in PaymentStatuses /\ Object(f).status \in PaymentStatuses
    BY <1>1 DEF PaymentRow
  <2>2. f \notin Deliveries /\ UpToDate(f) => Moves(Row.status, Object(f).status)
    BY <1>1 DEF Knows, ObjectIn, Moves
  <2>. QED  BY <1>2, <1>3, <2>1, <2>2, FailingEarlier DEF Moves
<1>5. Row.providerReference # NoReference /\ row.providerReference = NoReference
      => store = "database" /\ f \in {Initial} \cup Deliveries /\ ~UpToDate(f)
  BY <1>1, <1>2, <1>3 DEF Knows, ObjectIn
<1>6. row \in PaymentRow
  BY <1>1, <1>2, <1>3
<1>7. Sound(f, "error", NoLocals, row)
  BY <1>1, <1>4, <1>5, <1>6 DEF Sound, Pcs, Ended
<1>. QED  BY <1>1, <1>2, <1>6, <1>7 DEF SoundStep, Pcs, Ended

\* Every step of a flow is sound.
LEMMA FlowStepsAreSound ==
  ASSUME IInv, NEW f \in Flows, Begin(f) \/ Notify(f) \/ Resume(f)
  PROVE  SoundStep(f)
BY BeginIsSound, NotifyIsSound, CallRejectsIsSound, ReceiveAnswerIsSound,
   ReceiveLookupIsSound, ReceiveResultIsSound, HandleEventIsSound, UpdatePaymentIsSound,
   LogsAreSound, FailOverIsSound, MarkPaymentFailedIsSound DEF Resume

-----------------------------------------------------------------------------
(* The provider, and the end of the process                                *)

\* Whatever the provider does, the row and the copies stay.
LEMMA ServeKeeps ==
  ASSUME IInv, NEW F, NEW s \in DOMAIN OwnMoves, NEW a \in PaymentStatuses \cup {NoAnswer},
         \A l \in Lookups : l \in F => a \in {s, "UNKNOWN"},
         Serve(F, s, a)
  PROVE  IInv'
<1>1. /\ payments' = payments /\ store' = store /\ asked' = asked /\ pc' = pc /\ truth' = s
      /\ Row' = Row
  BY DEF Serve, Row
<1>2. ASSUME NEW g \in Flows
      PROVE  /\ local[g] = NoLocals => local'[g] = NoLocals
             /\ local[g] # NoLocals =>
                  /\ local[g] \in Locals /\ local'[g] \in Locals
                  /\ local'[g].copy = local[g].copy /\ local'[g].fresh = local[g].fresh
                  /\ local'[g].answer = IF g \in F /\ pc[g] = "await" THEN a
                                        ELSE local[g].answer
                  /\ g \in Lookups => /\ local'[g].steady <=> local[g].steady /\ s = truth
  <2>1. local'[g] = IF local[g] = NoLocals THEN NoLocals
                    ELSE [local[g] EXCEPT
                            !.answer = IF g \in F /\ pc[g] = "await" THEN a
                                       ELSE local[g].answer,
                            !.steady = local[g].steady /\ (s = truth \/ g \notin Lookups)]
    BY DEF Serve
  <2>2. local[g] # NoLocals => local[g] \in Locals
    BY DEF IInv, TypeOK
  <2> DEFINE b == local[g].steady /\ (s = truth \/ g \notin Lookups)
             c == IF g \in F /\ pc[g] = "await" THEN a ELSE local[g].answer
  <2>3. local[g] # NoLocals => b \in BOOLEAN /\ c \in PaymentStatuses \cup {NoAnswer}
    BY <2>2 DEF Locals
  <2>4. g \in Lookups /\ local[g] # NoLocals => (b <=> local[g].steady /\ s = truth)
    OBVIOUS
  <2>5. local[g] # NoLocals => local'[g] = [local[g] EXCEPT !.answer = c, !.steady = b]
    BY <2>1
  <2>. HIDE DEF b, c
  <2>6. local[g] # NoLocals =>
          /\ local'[g] \in Locals /\ local'[g].copy = local[g].copy
          /\ local'[g].fresh = local[g].fresh /\ local'[g].answer = c
          /\ local'[g].steady = b
    BY <2>2, <2>3, <2>5 DEF Locals
  <2>. QED  BY <2>1, <2>2, <2>4, <2>6 DEF c
<1>3. TypeOK'
  <2>1. local' \in [Flows -> Locals \cup {NoLocals}]
    <3>1. \A g \in Flows : local'[g] \in Locals \cup {NoLocals}
      BY <1>2
    <3>. QED  BY <3>1 DEF Serve
  <2>2. ASSUME NEW g \in Flows
        PROVE  /\ (local'[g] # NoLocals) <=> InFlight(g)'
               /\ store' = "memory" /\ InFlight(g)' => local'[g].copy = NoCopy
    BY <1>1, <1>2, MarkersAssumption DEF IInv, TypeOK, InFlight
  <2>. QED  BY <1>1, <2>1, <2>2 DEF IInv, TypeOK, PaymentsTypeOK
<1>4. ASSUME NEW g \in Flows, InFlight(g)'
      PROVE  /\ Knows(g, pc'[g], local'[g], Row)
             /\ g \in Lookups => LookupKnows(s, pc'[g], local'[g], Row)
  <2>1. InFlight(g) /\ local[g] # NoLocals
    BY <1>1, <1>4 DEF IInv, TypeOK, InFlight
  <2>2. /\ Knows(g, pc[g], local[g], Row)
        /\ g \in Lookups => LookupKnows(truth, pc[g], local[g], Row)
    BY <2>1 DEF IInv
  <2>3. pc[g] # "await" => local'[g].answer = local[g].answer
    BY <1>2, <2>1
  <2>4. Knows(g, pc[g], local'[g], Row)
    BY <1>2, <2>1, <2>2, <2>3 DEF Knows, ObjectIn
  <2>5. g \in Lookups => LookupKnows(s, pc[g], local'[g], Row)
    BY <1>2, <2>1, <2>2, <2>3 DEF LookupKnows, ObjectIn
  <2>. QED  BY <1>1, <2>4, <2>5
<1>5. ASSUME NEW g \in Flows
      PROVE  /\ InFlight(g)' => Knows(g, pc[g], local[g], Row)'
             /\ InFlight(g)' /\ g \in Lookups => LookupKnows(truth, pc[g], local[g], Row)'
  BY <1>1, <1>4, KnownAfter
<1>. QED  BY <1>1, <1>3, <1>5 DEF IInv, Flows

\* Every step that is no flow's leaves the row and ends no flow but by a crash.
LEMMA ProviderStepsKeep ==
  ASSUME IInv,
         \/ \E f \in Flows : ServeLookup(f) \/ ServeLookupElsewhere(f) \/ ServeOperation(f)
         \/ ServeInitial \/ ProviderMoves \/ Crash
  PROVE  /\ IInv' /\ payments' = payments
         /\ \A f \in Flows : pc'[f] \in {pc[f], "crashed"}
<1>1. truth \in DOMAIN OwnMoves
  BY DEF IInv, TypeOK
<1>2. ASSUME NEW f \in Flows, ServeLookup(f)
      PROVE  IInv' /\ payments' = payments /\ pc' = pc
  <2>1. PICK a \in {truth, "UNKNOWN"} : Serve({f}, truth, a)
    BY <1>2 DEF ServeLookup
  <2>2. a \in PaymentStatuses
    BY <1>1, <1>2, TruthType DEF ServeLookup, PaymentStatuses
  <2>3. IInv'
    BY <1>1, <2>1, <2>2, ServeKeeps
  <2>. QED  BY <2>1, <2>3 DEF Serve
<1>3. ASSUME NEW f \in Flows, ServeOperation(f)
      PROVE  IInv' /\ payments' = payments /\ pc' = pc
  <2>1. f \in Operations /\ f \notin Lookups
    BY <1>3, FlowsAssumption DEF ServeOperation
  <2>2. PICK s \in DOMAIN OwnMoves, a \in PaymentStatuses : Serve({f}, s, a)
    <3>1. /\ OperationMoves[OperationOf[f]][2] \in DOMAIN OwnMoves
          /\ OperationMoves[OperationOf[f]][2] \in PaymentStatuses
      BY <2>1, TruthType
    <3>. QED  BY <1>1, <1>3, <3>1 DEF ServeOperation, PaymentStatuses
  <2>3. IInv'
    BY <2>1, <2>2, ServeKeeps
  <2>. QED  BY <2>2, <2>3 DEF Serve
<1>4. CASE ServeInitial
  <2>1. PICK s \in {"PENDING", "PENDING_3DS", "AUTHORIZED", "CAPTURED", "FAILED"},
             a \in PaymentStatuses : Serve({Initial}, s, a)
    BY <1>4 DEF ServeInitial, PaymentStatuses
  <2>2. s \in DOMAIN OwnMoves
    BY TruthType
  <2>3. Initial \notin Lookups
    BY FlowsAssumption
  <2>4. IInv'
    BY <2>1, <2>2, <2>3, ServeKeeps
  <2>. QED  BY <2>1, <2>4 DEF Serve
<1>5. CASE ProviderMoves
  <2>1. PICK s \in OwnMoves[truth] : Serve({}, s, NoAnswer)
    BY <1>5 DEF ProviderMoves
  <2>2. s \in DOMAIN OwnMoves
    BY <1>1, TruthType
  <2>3. IInv'
    BY <2>1, <2>2, ServeKeeps
  <2>. QED  BY <2>1, <2>3 DEF Serve
<1>6. CASE Crash
  <2>1. /\ payments' = payments /\ store' = store /\ truth' = truth /\ asked' = asked
        /\ Row' = Row
        /\ local' = [f \in Flows |-> NoLocals]
        /\ pc' = [f \in Flows |-> IF InFlight(f) THEN "crashed" ELSE pc[f]]
    BY <1>6 DEF Crash, Row
  <2>2. \A f \in Flows : ~InFlight(f)' /\ pc'[f] \in {pc[f], "crashed"} /\ local'[f] = NoLocals
    BY <2>1 DEF InFlight, Ended
  <2>3. TypeOK'
    BY <2>1, <2>2 DEF IInv, TypeOK, PaymentsTypeOK, Ended
  <2>4. pc'[Initial] # "new"
    BY <2>2 DEF IInv, Flows
  <2>. QED  BY <2>1, <2>2, <2>3, <2>4 DEF IInv, Flows
<1>7. ASSUME NEW f \in Flows, ServeLookupElsewhere(f)
      PROVE  IInv' /\ payments' = payments /\ pc' = pc
  <2>1. PICK a \in {"FAILED", "UNKNOWN"} :
          local' = [local EXCEPT ![f].answer = a, ![f].steady = FALSE]
    BY <1>7 DEF ServeLookupElsewhere
  <2>2. /\ payments' = payments /\ store' = store /\ truth' = truth /\ asked' = asked
        /\ pc' = pc /\ Row' = Row /\ f \in Lookups /\ pc[f] = "await"
    BY <1>7 DEF ServeLookupElsewhere, Row
  <2>3. /\ InFlight(f) /\ Knows(f, pc[f], local[f], Row)
        /\ LookupKnows(truth, pc[f], local[f], Row) /\ local[f] \in Locals
        /\ local \in [Flows -> Locals \cup {NoLocals}]
    BY <2>2, InHand DEF Holds, IInv, TypeOK
  <2>4. /\ local'[f] \in Locals /\ local'[f].copy = local[f].copy
        /\ local'[f].fresh = local[f].fresh /\ local'[f].steady = FALSE
        /\ \A g \in Flows \ {f} : local'[g] = local[g]
        /\ local' \in [Flows -> Locals \cup {NoLocals}]
    BY <2>1, <2>3 DEF Locals, PaymentStatuses
  <2>5. TypeOK'
    <3>1. \A g \in Flows : /\ (local'[g] # NoLocals) <=> InFlight(g)'
                           /\ store' = "memory" /\ InFlight(g)' => local'[g].copy = NoCopy
      BY <2>2, <2>3, <2>4, MarkersAssumption DEF IInv, TypeOK, InFlight
    <3>. QED  BY <2>2, <2>4, <3>1 DEF IInv, TypeOK, PaymentsTypeOK
  <2>6. ASSUME NEW g \in Flows, InFlight(g)'
        PROVE  /\ Knows(g, pc'[g], local'[g], Row)
               /\ g \in Lookups => LookupKnows(truth, pc'[g], local'[g], Row)
    <3>1. CASE g = f
      BY <2>2, <2>3, <2>4, <3>1, FlowsAssumption DEF Knows, LookupKnows, ObjectIn
    <3>2. CASE g # f
      <4>1. InFlight(g) /\ pc'[g] = pc[g] /\ local'[g] = local[g]
        BY <2>2, <2>4, <2>6, <3>2 DEF InFlight
      <4>. QED  BY <4>1 DEF IInv
    <3>. QED  BY <3>1, <3>2
  <2>7. ASSUME NEW g \in Flows
        PROVE  /\ InFlight(g)' => Knows(g, pc[g], local[g], Row)'
               /\ InFlight(g)' /\ g \in Lookups => LookupKnows(truth, pc[g], local[g], Row)'
    BY <2>2, <2>6, KnownAfter
  <2>8. IInv'
    BY <2>2, <2>5, <2>7 DEF IInv, Flows
  <2>. QED  BY <2>2, <2>8
<1>. QED  BY <1>2, <1>3, <1>4, <1>5, <1>6, <1>7

\* A step is a flow's and sound, or it leaves the row alone and every flow
\* where it is, unless it crashes.
LEMMA StepKinds ==
  ASSUME IInv, [Next]_vars
  PROVE  /\ IInv'
         /\ \/ \E f \in Flows : SoundStep(f)
            \/ /\ payments' = payments
               /\ \A f \in Flows : pc'[f] \in {pc[f], "crashed"}
<1>1. CASE \E f \in Flows : Begin(f) \/ Notify(f) \/ Resume(f)
  BY <1>1, FlowStepsAreSound, SoundStepKeeps
<1>2. CASE \/ \E f \in Flows : ServeLookup(f) \/ ServeLookupElsewhere(f) \/ ServeOperation(f)
           \/ ServeInitial \/ ProviderMoves \/ Crash
  BY <1>2, ProviderStepsKeep
<1>3. CASE UNCHANGED vars
  <2>1. /\ payments' = payments /\ store' = store /\ truth' = truth /\ asked' = asked
        /\ pc' = pc /\ local' = local /\ Row' = Row
    BY <1>3 DEF vars, Row
  <2>2. IInv'
    BY <2>1 DEF IInv, TypeOK, PaymentsTypeOK, InFlight, Knows, LookupKnows, ObjectIn
  <2>. QED  BY <2>1, <2>2
<1>. QED  BY <1>1, <1>2, <1>3 DEF Next

LEMMA InitIInv == Init => IInv
<1>. SUFFICES ASSUME Init
              PROVE  IInv
  OBVIOUS
<1>1. /\ Row \in CreatedRows /\ thePayment \in PaymentIds
      /\ CreatedRows \subseteq PaymentRow
  BY FlowsAssumption DEF Init, Row, CreatedRows, PaymentRow, PaymentStatuses
<1>2. Row \in PaymentRow /\ Row.providerReference = NoReference /\ PaymentsTypeOK
  BY <1>1 DEF Init, CreatedRows, PaymentsTypeOK
<1> DEFINE x == Holding(Row, NoAnswer)
<1>3. /\ x \in Locals /\ x.answer = NoAnswer
      /\ x.copy = IF store = "memory" THEN NoCopy ELSE Row
  BY <1>2 DEF Holding, Locals
<1>. HIDE DEF x
<1>4. \A f \in Flows : /\ f = Initial => pc[f] = "await" /\ local[f] = x
                       /\ f # Initial => pc[f] = "new" /\ local[f] = NoLocals
  BY DEF Init, x
<1>5. store \in {"database", "memory"} /\ truth = "none" /\ asked \in Providers
  BY <1>1, FlowsAssumption DEF Init, CreatedRows
<1>6. Knows(Initial, "await", x, Row)
  BY <1>2, <1>3, <1>5, FlowsAssumption DEF Knows, ObjectIn, Moves
<1>7. \A f \in Flows : InFlight(f) <=> f = Initial
  BY <1>4 DEF InFlight, Ended
<1>8. TypeOK
  <2>1. pc \in [Flows -> Pcs]
    BY DEF Init, Pcs
  <2>2. local \in [Flows -> Locals \cup {NoLocals}]
    BY <1>3 DEF Init, x
  <2>3. \A f \in Flows : (local[f] # NoLocals) <=> InFlight(f)
    BY <1>3, <1>4, <1>7, MarkersAssumption
  <2>4. \A f \in Flows : store = "memory" /\ InFlight(f) => local[f].copy = NoCopy
    BY <1>3, <1>4, <1>7
  <2>5. truth \in DOMAIN OwnMoves
    BY <1>5, TruthType
  <2>. QED  BY <1>2, <1>5, <2>1, <2>2, <2>3, <2>4, <2>5 DEF TypeOK, Pcs
<1>9. Initial \in Flows /\ Initial \notin Lookups
  BY FlowsAssumption DEF Flows
<1>. QED  BY <1>2, <1>4, <1>6, <1>7, <1>8, <1>9 DEF IInv, Flows

-----------------------------------------------------------------------------
(* Theorems                                                                *)

\* What each flow knows of its object and of the row holds at every await, for
\* any number of flows in either store.
THEOREM Invariance == Spec => []IInv
<1>1. IInv /\ [Next]_vars => IInv'
  BY StepKinds
<1>. QED  BY <1>1, InitIInv, PTL DEF Spec

\* The payments table and every flow's locals always have their type.
THEOREM TypeCorrect == Spec => []TypeOK
<1>1. IInv => TypeOK
  BY DEF IInv
<1>. QED  BY <1>1, Invariance, PTL

\* What a sound step of f does, as the properties put it.
LEMMA SoundStepActs ==
  ASSUME IInv, NEW f \in Flows, SoundStep(f)
  PROVE  /\ \E l \in Pcs, x \in Locals \cup {NoLocals} : Sound(f, l, x, Row') /\ pc'[f] = l
         /\ payments'[thePayment] = Row'
         /\ Row' = Row => payments' = payments
         /\ Acts(f)
         /\ \A g \in Flows \ {f} : pc'[g] = pc[g]
<1>1. PICK l \in Pcs, x \in Locals \cup {NoLocals}, row \in PaymentRow :
        Sound(f, l, x, row) /\ Step(f, l, x, row)
  BY DEF SoundStep
<1>2. /\ Row' = row /\ (row = Row => payments' = payments) /\ pc'[f] = l
      /\ \A g \in Flows \ {f} : pc'[g] = pc[g]
  BY <1>1, StepEffect
<1>. QED  BY <1>1, <1>2 DEF Acts, Sound, Row

\* However flows interleave, none but a callback leaves the transition table
\* unless its copy of the payment is outdated.
THEOREM TableIsLeftByCallbackOrStaleCopy == Spec => TableLeftByCallbackOrStaleCopy
<1>1. ASSUME IInv, [Next]_vars, NEW f \in Flows \ Deliveries, Acts(f), UpToDate(f)
      PROVE  \/ payments'[thePayment].status = payments[thePayment].status
             \/ TransitionAllowed(payments[thePayment].status, payments'[thePayment].status)
  <2>1. CASE \E g \in Flows : SoundStep(g)
    <3>1. PICK g \in Flows : SoundStep(g)
      BY <2>1
    <3>2. g = f
      BY <1>1, <3>1, SoundStepActs DEF Acts
    <3>3. Moves(Row.status, Row'.status) /\ payments'[thePayment] = Row'
      BY <1>1, <3>1, <3>2, SoundStepActs DEF Sound
    <3>. QED  BY <3>3 DEF Moves, Row
  <2>2. CASE payments' = payments
    BY <2>2
  <2>. QED  BY <1>1, <2>1, <2>2, StepKinds
<1>2. IInv /\ [Next]_vars =>
        \A f \in Flows \ Deliveries : Acts(f) /\ UpToDate(f) =>
          LET p == thePayment IN
          \/ payments'[p].status = payments[p].status
          \/ TransitionAllowed(payments[p].status, payments'[p].status)
  BY <1>1
<1>. QED  BY <1>2, Invariance, PTL DEF Spec, TableLeftByCallbackOrStaleCopy

\* A lookup nothing interfered with leaves row and provider in agreement.
THEOREM UndisturbedLookupsReconcile == Spec => UndisturbedLookupReconciles
<1>1. ASSUME IInv, [Next]_vars, NEW l \in Lookups,
             InFlight(l), local[l].fresh, local[l].steady
      PROVE  /\ pc'[l] = "ok" => payments'[thePayment].status \in {truth, "UNKNOWN"}
             /\ pc'[l] = "rejected" =>
                  \/ local[l].answer = "UNKNOWN"
                  \/ ~TransitionAllowed(payments[thePayment].status, truth)
  <2>1. l \in Flows /\ l \notin Deliveries /\ pc[l] \notin {"ok", "rejected"}
    BY <1>1, FlowsAssumption DEF Flows, InFlight, Ended
  <2>2. /\ Knows(l, pc[l], local[l], Row) /\ LookupKnows(truth, pc[l], local[l], Row)
        /\ Object(l) = ObjectIn(local[l], Row)
    BY <1>1, <2>1 DEF IInv, Object, ObjectIn
  <2>3. SUFFICES ASSUME pc'[l] \in {"ok", "rejected"}
                 PROVE  /\ pc'[l] = "ok" => Row'.status \in {truth, "UNKNOWN"}
                        /\ pc'[l] = "rejected" =>
                             \/ local[l].answer = "UNKNOWN"
                             \/ ~TransitionAllowed(Row.status, truth)
    BY DEF Row
  <2>4. PICK g \in Flows : SoundStep(g)
    BY <1>1, <2>1, <2>3, StepKinds
  <2>5. g = l
    BY <1>1, <2>1, <2>3, <2>4, SoundStepActs
  <2>6. /\ pc'[l] = "ok" => pc[l] = "log" /\ Row' = Row
        /\ pc'[l] = "rejected" => /\ pc[l] = "await" /\ local[l].answer # NoAnswer
                                  /\ ~Moves(Object(l).status, local[l].answer)
    BY <1>1, <2>4, <2>5, SoundStepActs DEF Sound
  <2>7. CASE pc'[l] = "ok"
    BY <1>1, <2>2, <2>6, <2>7 DEF LookupKnows
  <2>8. CASE pc'[l] = "rejected"
    BY <1>1, <2>1, <2>2, <2>6, <2>8 DEF LookupKnows, Knows, Moves
  <2>. QED  BY <2>3, <2>7, <2>8
<1>2. IInv /\ [Next]_vars =>
        \A l \in Lookups : InFlight(l) /\ local[l].fresh /\ local[l].steady =>
          /\ pc'[l] = "ok" =>
               payments'[thePayment].status \in {truth, "UNKNOWN"}
          /\ pc'[l] = "rejected" =>
               \/ local[l].answer = "UNKNOWN"
               \/ ~TransitionAllowed(payments[thePayment].status, truth)
  BY <1>1
<1>. QED  BY <1>2, Invariance, PTL DEF Spec, UndisturbedLookupReconciles

\* Only an outdated copy saved in a database takes a payment's reference away.
THEOREM ReferencesAreLostToStaleCopiesOnly == Spec => ReferenceLostToStaleCopyOnly
<1>1. ASSUME IInv, [Next]_vars,
             payments[thePayment].providerReference # NoReference,
             payments'[thePayment].providerReference = NoReference
      PROVE  /\ store = "database"
             /\ \E f \in {Initial} \cup Deliveries : Acts(f) /\ ~UpToDate(f)
  <2>1. PICK f \in Flows : SoundStep(f)
    BY <1>1, StepKinds
  <2>2. /\ payments'[thePayment] = Row' /\ Acts(f)
        /\ Row.providerReference # NoReference /\ Row'.providerReference = NoReference
           => store = "database" /\ f \in {Initial} \cup Deliveries /\ ~UpToDate(f)
    BY <1>1, <2>1, SoundStepActs DEF Sound
  <2>. QED  BY <1>1, <2>2 DEF Row
<1>2. IInv /\ [Next]_vars =>
        (payments[thePayment].providerReference # NoReference
         /\ payments'[thePayment].providerReference = NoReference
         => /\ store = "database"
            /\ \E f \in {Initial} \cup Deliveries : Acts(f) /\ ~UpToDate(f))
  BY <1>1
<1>. QED  BY <1>2, Invariance, PTL DEF Spec, ReferenceLostToStaleCopyOnly

\* A payment left without a reference moves on by a callback or a late copy only.
THEOREM LeftBehindIsRevivedByCallback == Spec => LeftBehindRevivedByCallback
<1>1. ASSUME IInv, [Next]_vars, pc[Initial] \in Ended, Row.providerReference = NoReference,
             payments' # payments
      PROVE  \E f \in Flows : Acts(f) /\ (f \in Deliveries \/ ~UpToDate(f))
  <2>1. PICK f \in Flows : SoundStep(f)
    BY <1>1, StepKinds
  <2>2. PICK l \in Pcs, x \in Locals \cup {NoLocals} : Sound(f, l, x, Row')
    BY <1>1, <2>1, SoundStepActs
  <2>3. Acts(f) /\ Row' # Row
    BY <1>1, <2>1, SoundStepActs
  <2>4. InFlight(f) /\ f # Initial
    BY <1>1, <2>2, <2>3 DEF Sound, InFlight
  <2>5. Knows(f, pc[f], local[f], Row)
    BY <1>1, <2>4 DEF IInv
  <2>6. f \in Deliveries \/ ~UpToDate(f)
    BY <1>1, <2>4, <2>5 DEF Knows, ObjectIn, UpToDate
  <2>. QED  BY <2>3, <2>6
<1>2. IInv /\ [Next]_vars =>
        (pc[Initial] \in Ended /\ Row.providerReference = NoReference
         => \/ payments' = payments
            \/ \E f \in Flows : Acts(f) /\ (f \in Deliveries \/ ~UpToDate(f)))
  BY <1>1
<1>. QED  BY <1>2, Invariance, PTL DEF Spec, LeftBehindRevivedByCallback

=============================================================================
