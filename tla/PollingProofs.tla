--------------------------- MODULE PollingProofs ---------------------------
(***************************************************************************)
(* Proofs about Polling: for every configuration that PaceAssumption       *)
(* admits, all latencies and any number of notifications under way.        *)
(*                                                                         *)
(* Two arguments that share no state: the clock of the polling client, and *)
(* what the adapters' maps make of the provider's words.                   *)
(***************************************************************************)
EXTENDS Polling, Integers, TLAPS

-----------------------------------------------------------------------------
(* The maps, word by word                                                  *)

Rails == {"PAYU", "PEACH", "PAYFLEX"}

Words(p) ==
  CASE p = "PAYU" -> {"NEW", "PROCESSING", "AWAITING_PAYMENT", "PARTIAL_PAYMENT", "3DS_PENDING",
                      "SUCCESSFUL", "FAILED", "TIMEOUT", "EXPIRED", "CANCELLED"}
    [] p = "PEACH" -> {Absent, "000.2", "000.1", Rejected}
    [] OTHER -> {"CREATED", "INITIATED", "APPROVED", "DECLINED", "ABANDONED"}

FinalWords ==
  {"SUCCESSFUL", "FAILED", "TIMEOUT", "EXPIRED", "CANCELLED", "000.1", Rejected,
   "APPROVED", "DECLINED", "ABANDONED"}

Kinds(p) ==
  CASE p = "PAYU" -> {"PAYMENT", "RESERVE", Absent}
    [] p = "PEACH" -> {"DB", "PA"}
    [] OTHER -> {"ORDER"}

\* Outcome, of any kind and word.
Verdict(t, w) ==
  IF w \notin Successes THEN "FAILED"
  ELSE IF t \in {"RESERVE", "PA"} THEN "AUTHORIZED" ELSE "CAPTURED"

LEMMA OutcomeIsVerdict == Outcome = Verdict(kind, state)
BY DEF Outcome, Verdict

\* Moves[p], one rail at a time.
LEMMA PayuMoves ==
  Moves["PAYU"] =
    {<<"NEW", "PROCESSING">>, <<"NEW", "EXPIRED">>, <<"NEW", "CANCELLED">>,
     <<"PROCESSING", "AWAITING_PAYMENT">>, <<"PROCESSING", "3DS_PENDING">>,
     <<"PROCESSING", "SUCCESSFUL">>, <<"PROCESSING", "FAILED">>,
     <<"PROCESSING", "TIMEOUT">>, <<"3DS_PENDING", "PROCESSING">>,
     <<"3DS_PENDING", "SUCCESSFUL">>, <<"3DS_PENDING", "FAILED">>,
     <<"AWAITING_PAYMENT", "PARTIAL_PAYMENT">>, <<"AWAITING_PAYMENT", "SUCCESSFUL">>,
     <<"AWAITING_PAYMENT", "EXPIRED">>, <<"PARTIAL_PAYMENT", "SUCCESSFUL">>}
BY DEF Moves

LEMMA PeachMoves ==
  Moves["PEACH"] =
    {<<Absent, "000.2">>, <<Absent, "000.1">>, <<Absent, Rejected>>,
     <<"000.2", "000.1">>, <<"000.2", Rejected>>}
BY DEF Moves

LEMMA PayFlexMoves ==
  Moves["PAYFLEX"] =
    {<<"CREATED", "INITIATED">>, <<"CREATED", "ABANDONED">>, <<"INITIATED", "APPROVED">>,
     <<"INITIATED", "DECLINED">>, <<"INITIATED", "ABANDONED">>}
BY DEF Moves

\* No transaction leaves a final word, and every other word has a way on.
LEMMA SettledIsFinal ==
  ASSUME NEW p \in Rails, NEW w \in Words(p)
  PROVE  Settled(p, w) <=> w \in FinalWords
<1>1. CASE p = "PAYU"
  BY <1>1, PayuMoves DEF Settled, Words, FinalWords, Rejected
<1>2. CASE p = "PEACH"
  BY <1>2, PeachMoves DEF Settled, Words, FinalWords, Absent, Rejected
<1>3. CASE p = "PAYFLEX"
  BY <1>3, PayFlexMoves DEF Settled, Words, FinalWords, Rejected
<1>. QED BY <1>1, <1>2, <1>3 DEF Rails

LEMMA MovesStayInWords ==
  ASSUME NEW p \in Rails, NEW m \in Moves[p]
  PROVE  m[2] \in Words(p) /\ ~Settled(p, m[1])
<1>1. m[2] \in Words(p)
  BY PayuMoves, PeachMoves, PayFlexMoves DEF Rails, Words, Absent, Rejected
<1>. QED BY <1>1 DEF Settled

\* A lookup names a status that ends the polling only for a final word, and then
\* the verdict; the one final word it does not understand is CANCELLED.
LEMMA LookupTells ==
  ASSUME NEW p \in Rails, NEW t \in Kinds(p), NEW w \in Words(p)
  PROVE  /\ LookupStatus(p, t, w) \in PaymentStatuses \ {"CREATED"}
         /\ LookupStatus(p, t, w) \notin ActivePollingStatuses =>
              w \in FinalWords /\ LookupStatus(p, t, w) = Verdict(t, w)
         /\ w \in FinalWords \ {"CANCELLED"} => LookupStatus(p, t, w) = Verdict(t, w)
<1>. USE DEF LookupStatus, ActivePollingStatuses, PaymentStatuses, FinalWords, Verdict, Successes
<1>1. CASE p = "PAYU"
  BY <1>1 DEF Words, Kinds, PayuLookupStatus, mapTransactionState, Absent, Rejected
<1>2. CASE p = "PEACH"
  BY <1>2 DEF Words, Kinds, PeachLookupStatus, mapPeachStatusWithType, Absent, Rejected
<1>3. CASE p = "PAYFLEX"
  BY <1>3 DEF Words, Kinds, PayFlexLookupStatus, mapPayFlexOrderStatus, Rejected
<1>. QED BY <1>1, <1>2, <1>3 DEF Rails

\* So does a notification, but for a 3DS_PENDING one that tells no outcome.
LEMMA NoticeTells ==
  ASSUME NEW p \in Rails, NEW t \in Kinds(p), NEW w \in Words(p), NEW o \in OutcomeOf(w)
  PROVE  /\ NoticeStatus(p, t, w, o) \in PaymentStatuses \ {"CREATED"}
         /\ NoticeStatus(p, t, w, o) \notin ActivePollingStatuses /\ ~(w = "3DS_PENDING" /\ o = Absent)
              => w \in FinalWords /\ NoticeStatus(p, t, w, o) = Verdict(t, w)
<1>. USE DEF NoticeStatus, ActivePollingStatuses, PaymentStatuses, FinalWords, Verdict, Successes
<1>1. CASE p = "PAYU"
  BY <1>1 DEF Words, Kinds, OutcomeOf, PayuNoticeStatus, mapIpnStatus, IpnIsSuccess, Absent, Rejected
<1>2. CASE p = "PEACH"
  BY <1>2 DEF Words, Kinds, PeachNoticeStatus, mapPeachStatusWithType, Absent, Rejected
<1>3. CASE p = "PAYFLEX"
  BY <1>3 DEF Words, Kinds, PayFlexNoticeStatus, mapPayFlexOrderStatus, Rejected
<1>. QED BY <1>1, <1>2, <1>3 DEF Rails

\* stateTransitions lets every verdict replace what an unfinished payment stores.
LEMMA VerdictAllowed ==
  ASSUME NEW from \in {"PENDING", "PENDING_3DS", "UNKNOWN"}, NEW t, NEW w
  PROVE  TransitionAllowed(from, Verdict(t, w))
BY DEF TransitionAllowed, stateTransitions, Verdict, PaymentStatuses

-----------------------------------------------------------------------------
(* The clock of the client                                                 *)

Fast == Config.fastAttempts * Config.fastInterval

Enough(n) ==
  /\ Fast + n * Config.steadyInterval >= Config.slowAfter
  /\ Config.fastAttempts + n < Config.maxAttempts
  /\ Config.slowAfter
       + (Config.maxAttempts - 1 - Config.fastAttempts - n) * Config.slowInterval
         >= Config.maxDuration

\* Polls at the steady interval after which the slow one is reached.
SteadyPolls == CHOOSE n \in 0..Config.maxAttempts : Enough(n)

\* The least the clock can show when n polls are made.
Earliest(n) ==
  IF n <= Config.fastAttempts THEN n * Config.fastInterval
  ELSE IF n <= Config.fastAttempts + SteadyPolls
       THEN Fast + (n - Config.fastAttempts) * Config.steadyInterval
       ELSE Config.slowAfter
              + (n - Config.fastAttempts - SteadyPolls) * Config.slowInterval

LEMMA ConfigType ==
  /\ Config.fastInterval \in Nat /\ Config.steadyInterval \in Nat
  /\ Config.slowInterval \in Nat /\ Config.fastAttempts \in Nat /\ Config.slowAfter \in Nat
  /\ Config.maxDuration \in Nat /\ Config.maxAttempts \in Nat
BY PollingAssumption

LEMMA SteadyPollsSuffice == SteadyPolls \in Nat /\ Enough(SteadyPolls)
<1>1. \E n \in 0..Config.maxAttempts : Enough(n)
  BY PaceAssumption DEF Enough, Fast
<1>2. SteadyPolls \in 0..Config.maxAttempts /\ Enough(SteadyPolls)
  BY <1>1 DEF SteadyPolls
<1>. QED BY <1>2, ConfigType

\* One more interval, in a product.
LEMMA OneMore ==
  ASSUME NEW n \in Nat, NEW d \in Nat
  PROVE  n * d \in Nat /\ (n + 1) * d = n * d + d
OBVIOUS

\* Whatever the clock shows, it is not behind after the next delay.
LEMMA EarliestNext ==
  ASSUME NEW n \in Nat, NEW c \in Nat, c >= Earliest(n)
  PROVE  c + getNextPaymentPollingDelay(n, c) >= Earliest(n + 1)
<1>. DEFINE fa == Config.fastAttempts
            fi == Config.fastInterval
            st == Config.steadyInterval
            sl == Config.slowInterval
            S == SteadyPolls
<1>. USE ConfigType, SteadyPollsSuffice
<1>1. CASE n < fa
  <2>1. Earliest(n) = n * fi /\ Earliest(n + 1) = (n + 1) * fi
    BY <1>1 DEF Earliest
  <2>2. getNextPaymentPollingDelay(n, c) = fi
    BY <1>1 DEF getNextPaymentPollingDelay
  <2>. QED BY <2>1, <2>2, OneMore
<1>2. CASE fa <= n /\ n < fa + S
  <2>. DEFINE k == n - fa
  <2>1. k \in Nat /\ 0 * st = 0
    BY <1>2
  <2>2. Earliest(n) = Fast + k * st
    <3>1. CASE n = fa
      <4>1. k = 0 /\ Earliest(n) = Fast
        BY <3>1 DEF Earliest, Fast
      <4>2. k * st = 0
        BY <2>1, <4>1
      <4>3. Fast \in Nat
        BY DEF Fast
      <4>. QED BY <4>1, <4>2, <4>3
    <3>2. CASE n # fa
      BY <1>2, <3>2 DEF Earliest
    <3>. QED BY <3>1, <3>2
  <2>3. Earliest(n + 1) = Fast + (k + 1) * st
    <3>1. n + 1 - fa = k + 1
      BY <1>2
    <3>. QED BY <1>2, <3>1 DEF Earliest
  <2>4. getNextPaymentPollingDelay(n, c) \in Nat /\ getNextPaymentPollingDelay(n, c) >= st
    BY <1>2, PaceAssumption DEF getNextPaymentPollingDelay
  <2>5. k * st \in Nat /\ (k + 1) * st = k * st + st
    BY <2>1, OneMore
  <2>6. Fast \in Nat
    BY DEF Fast
  <2>. HIDE DEF k
  <2>. QED BY <2>2, <2>3, <2>4, <2>5, <2>6
<1>3. CASE n >= fa + S
  <2>. DEFINE k == n - fa - S
  <2>1. k \in Nat
    BY <1>3
  <2>2. c >= Config.slowAfter + k * sl
    <3>1. CASE n = fa + S
      <4>1. k * sl = 0
        BY <3>1
      <4>2. Earliest(n) >= Config.slowAfter
        <5>1. CASE S = 0
          <6>1. Earliest(n) = Fast /\ S * st = 0 /\ Fast \in Nat
            BY <3>1, <5>1 DEF Earliest, Fast
          <6>. QED BY <6>1 DEF Enough
        <5>2. CASE S # 0
          <6>1. n - fa = S
            BY <3>1
          <6>2. Earliest(n) = Fast + S * st
            BY <3>1, <5>2, <6>1 DEF Earliest
          <6>. QED BY <6>2 DEF Enough
        <5>. QED BY <5>1, <5>2
      <4>3. Earliest(n) \in Int
        BY <3>1, OneMore DEF Earliest, Fast
      <4>. QED BY <4>1, <4>2, <4>3
    <3>2. CASE n > fa + S
      BY <3>2 DEF Earliest
    <3>. QED BY <1>3, <3>1, <3>2
  <2>3. k * sl \in Nat /\ (k + 1) * sl = k * sl + sl
    BY <2>1, OneMore
  <2>4. Earliest(n + 1) = Config.slowAfter + (k + 1) * sl
    <3>1. n + 1 - fa - S = k + 1
      BY <1>3
    <3>. QED BY <1>3, <3>1 DEF Earliest
  <2>. HIDE DEF k
  <2>5. getNextPaymentPollingDelay(n, c) = sl
    BY <1>3, <2>2, <2>3 DEF getNextPaymentPollingDelay
  <2>. QED BY <2>2, <2>3, <2>4, <2>5
<1>. QED BY <1>1, <1>2, <1>3

\* One poll before the limit the duration is over.
LEMMA EarliestLast == Earliest(Config.maxAttempts - 1) >= Config.maxDuration
<1>. DEFINE m == Config.maxAttempts - 1
            S == SteadyPolls
            k == m - Config.fastAttempts - S
<1>. USE ConfigType, SteadyPollsSuffice
<1>1. m \in Nat /\ k \in Nat /\ m = Config.fastAttempts + S + k
  BY DEF Enough
<1>2. Config.slowAfter + k * Config.slowInterval >= Config.maxDuration
  <2>1. k = Config.maxAttempts - 1 - Config.fastAttempts - S
    OBVIOUS
  <2>. QED BY <2>1 DEF Enough
<1>3. CASE k > 0
  <2>1. Earliest(m) = Config.slowAfter + k * Config.slowInterval
    BY <1>1, <1>3 DEF Earliest
  <2>. QED BY <1>2, <2>1
<1>4. CASE k = 0
  <2>1. k * Config.slowInterval = 0
    BY <1>4
  <2>2. Config.slowAfter >= Config.maxDuration
    BY <1>2, <2>1
  <2>3. Earliest(m) = Fast + S * Config.steadyInterval
    <3>1. CASE S = 0
      <4>1. m = Config.fastAttempts
        BY <1>1, <1>4, <3>1
      <4>2. Earliest(m) = Fast
        BY <4>1 DEF Earliest, Fast
      <4>3. S * Config.steadyInterval = 0 /\ Fast \in Nat
        BY <3>1 DEF Fast
      <4>. QED BY <4>2, <4>3
    <3>2. CASE S # 0
      <4>1. m - Config.fastAttempts = S /\ m <= Config.fastAttempts + S
        BY <1>1, <1>4
      <4>2. ~(m <= Config.fastAttempts)
        BY <1>1, <1>4, <3>2
      <4>. HIDE DEF m, S
      <4>3. Earliest(m) = Fast + (m - Config.fastAttempts) * Config.steadyInterval
        BY <4>1, <4>2 DEF Earliest, S
      <4>. QED BY <4>1, <4>3
    <3>. QED BY <3>1, <3>2
  <2>4. Fast \in Nat /\ S * Config.steadyInterval \in Nat
    BY OneMore DEF Fast
  <2>. QED BY <2>2, <2>3, <2>4 DEF Enough
<1>. QED BY <1>1, <1>3, <1>4

-----------------------------------------------------------------------------
(* The inductive invariant                                                 *)

Unfinished == {"waiting", "asking"}

Typed ==
  /\ payments \in [PaymentIds -> PaymentRow \cup {NoPayment}]
  /\ payments[thePayment] \in PaymentRow
  /\ kind \in Kinds(rail) /\ state \in Words(rail) /\ notices \subseteq Words(rail)
  /\ addressed \in BOOLEAN /\ misled \in BOOLEAN /\ seen \in BOOLEAN
  /\ attempt \in Nat /\ clock \in Nat
  /\ client \in Unfinished \cup {"terminal-status", "attempt-limit", "timeout"}
  /\ {stored, copy, told} \subseteq PaymentStatuses \ {"CREATED"}

\* The duration ends the polling first: a client that goes on has another poll
\* left, however little time each of its requests took.
Paced ==
  /\ client \in Unfinished => attempt + 1 < Config.maxAttempts
  /\ client = "waiting" => clock >= Earliest(attempt)
  /\ client = "asking" => clock >= Earliest(attempt + 1)
  /\ client # "attempt-limit"

\* A notification of a final word is about the word the transaction ended with.
NoticesPast == \A w \in notices : w \in FinalWords => w = state

\* What is stored, read or told ends the polling only if it is the verdict.
Sound ==
  ~misled => \A s \in {stored, copy, told} :
    s \notin ActivePollingStatuses => state \in FinalWords /\ s = Verdict(kind, state)

\* An answer after the end of the transaction told the client the verdict.
Learned ==
  seen => /\ state \in FinalWords
          /\ ~misled /\ state # "CANCELLED" =>
               told \notin ActivePollingStatuses /\ client = "terminal-status"

IInv == Typed /\ Paced /\ NoticesPast /\ Sound /\ Learned

-----------------------------------------------------------------------------
(* Every step keeps IInv                                                   *)

LEMMA RailType == Typed => rail \in Rails
BY PollingAssumption DEF Typed, PaymentRow, rail, Rails

\* A whole row is written, of which only the status differs.
LEMMA StoreStatusKeeps ==
  ASSUME Typed, NEW s \in PaymentStatuses, StoreStatus(s)
  PROVE  /\ payments' \in [PaymentIds -> PaymentRow \cup {NoPayment}]
         /\ payments'[thePayment] \in PaymentRow
         /\ rail' = rail /\ stored' \in {s, stored}
<1>. DEFINE row == payments[thePayment]
            new == [row EXCEPT !.status = s]
<1>1. row \in PaymentRow /\ thePayment \in PaymentIds
  BY PollingAssumption DEF Typed
<1>2. new \in PaymentRow /\ new.provider = row.provider /\ new.status = s
  BY <1>1 DEF PaymentRow
<1>3. payments' = [payments EXCEPT ![thePayment] = IF @ = NoPayment THEN @ ELSE new]
  BY DEF StoreStatus, UpdateRow
<1>. HIDE DEF row, new
<1>4. payments'[thePayment] = payments[thePayment] \/ payments'[thePayment] = new
  BY <1>1, <1>3 DEF Typed
<1>5. payments' \in [PaymentIds -> PaymentRow \cup {NoPayment}]
  BY <1>1, <1>2, <1>3 DEF Typed
<1>6. rail' = rail /\ stored' \in {s, stored}
  BY <1>2, <1>4 DEF rail, stored, row
<1>. QED BY <1>1, <1>2, <1>4, <1>5, <1>6 DEF row

\* Whatever status a request left the client with, the client stops at the
\* duration and never at the limit of attempts.
LEMMA DecideKeeps ==
  ASSUME Typed, Paced, client = "asking", NEW s \in PaymentStatuses \ {"CREATED"}, Decide(s)
  PROVE  /\ attempt' \in Nat /\ clock' \in Nat /\ told' = s
         /\ client' \in {"waiting", "terminal-status", "attempt-limit", "timeout"}
         /\ s \notin ActivePollingStatuses => client' = "terminal-status"
         /\ Paced'
<1>1. PICK l \in Latencies :
        /\ clock' = clock + l
        /\ client' = getPaymentPollingDecision(s, attempt + 1, clock + l)
  BY DEF Decide
<1>2. /\ l \in Nat /\ attempt \in Nat /\ clock \in Nat /\ attempt' = attempt + 1
      /\ attempt' \in Nat /\ clock' \in Nat /\ clock' >= clock /\ told' = s
  BY <1>1, PollingAssumption DEF Typed, Decide
<1>3. /\ attempt' < Config.maxAttempts
      /\ clock >= Earliest(attempt')
  BY <1>2 DEF Paced, Unfinished
<1>4. Earliest(attempt') \in Int
  BY <1>2, ConfigType, SteadyPollsSuffice, OneMore DEF Earliest, Fast
<1>5. client' = getPaymentPollingDecision(s, attempt', clock')
  BY <1>1, <1>2
<1>6. /\ client' \in {"waiting", "terminal-status", "timeout"}
      /\ s \notin ActivePollingStatuses => client' = "terminal-status"
      /\ client' = "waiting" => clock' < Config.maxDuration
  BY <1>2, <1>3, <1>5, ConfigType DEF getPaymentPollingDecision
<1>7. client' = "waiting" => attempt' # Config.maxAttempts - 1
  BY <1>2, <1>3, <1>4, <1>6, EarliestLast, ConfigType
<1>8. Paced'
  BY <1>2, <1>3, <1>4, <1>6, <1>7, ConfigType DEF Paced, Unfinished
<1>. QED BY <1>2, <1>6, <1>8

\* lookupProviderStatus with a status that is the verdict, if it is final.
LEMMA TakeOverKeeps ==
  ASSUME IInv, client = "asking", NEW s \in PaymentStatuses \ {"CREATED"}, TakeOver(s),
         UNCHANGED <<kind, addressed, state, notices, copy>>,
         misled' \in BOOLEAN, misled => misled', seen' \in BOOLEAN,
         ~misled' => (s \notin ActivePollingStatuses =>
                        state \in FinalWords /\ s = Verdict(kind, state)),
         ~seen => (seen' =>
           /\ state \in FinalWords
           /\ ~misled' /\ state # "CANCELLED" => s = Verdict(kind, state)),
         seen => seen'
  PROVE  IInv'
<1>. USE DEF IInv
<1>1. PICK u \in {s, told} :
        /\ Decide(u)
        /\ payments' \in [PaymentIds -> PaymentRow \cup {NoPayment}]
        /\ payments'[thePayment] \in PaymentRow
        /\ rail' = rail /\ stored' \in {s, stored}
        /\ s = copy \/ TransitionAllowed(copy, s) => u = s
  <2>1. CASE s = copy \/ TransitionAllowed(copy, s)
    <3>1. StoreStatus(s) /\ Decide(s)
      BY <2>1 DEF TakeOver
    <3>. QED BY <3>1, StoreStatusKeeps
  <2>2. CASE ~(s = copy \/ TransitionAllowed(copy, s))
    <3>1. payments' = payments /\ Decide(told)
      BY <2>2 DEF TakeOver
    <3>2. rail' = rail /\ stored' = stored
      BY <3>1 DEF rail, stored
    <3>. QED BY <2>2, <3>1, <3>2 DEF Typed
  <2>. QED BY <2>1, <2>2
<1>2. u \in PaymentStatuses \ {"CREATED"}
  BY DEF Typed
<1>3. /\ attempt' \in Nat /\ clock' \in Nat /\ told' = u
      /\ client' \in {"waiting", "terminal-status", "attempt-limit", "timeout"}
      /\ u \notin ActivePollingStatuses => client' = "terminal-status"
      /\ Paced'
  BY <1>1, <1>2, DecideKeeps
<1>4. Typed'
  BY <1>1, <1>2, <1>3 DEF Typed, Unfinished
<1>5. NoticesPast'
  BY DEF NoticesPast
<1>6. Sound'
  BY <1>1, <1>3 DEF Sound
<1>7. Learned'
  <2>1. seen => misled' \/ state = "CANCELLED"
    BY DEF Learned
  <2>2. ASSUME ~seen, seen', ~misled', state # "CANCELLED"
        PROVE  told' \notin ActivePollingStatuses
    <3>1. s = Verdict(kind, state) /\ state \in FinalWords /\ ~misled
      BY <2>2
    <3>2. CASE copy \in ActivePollingStatuses
      <4>1. copy \in {"PENDING", "PENDING_3DS", "UNKNOWN"}
        BY <3>2 DEF Typed, ActivePollingStatuses
      <4>. QED BY <1>1, <1>3, <3>1, <4>1, VerdictAllowed DEF Verdict, ActivePollingStatuses
    <3>3. CASE copy \notin ActivePollingStatuses
      <4>1. copy = s
        BY <3>1, <3>3 DEF Sound
      <4>. QED BY <1>1, <1>3, <3>3, <4>1
    <3>. QED BY <3>2, <3>3
  <2>3. seen' => state' \in FinalWords
    BY DEF Learned
  <2>. QED BY <1>3, <2>1, <2>2, <2>3 DEF Learned
<1>. QED BY <1>3, <1>4, <1>5, <1>6, <1>7

LEMMA AnswerStep ==
  ASSUME IInv, ReceiveAnswer
  PROVE  IInv'
<1>. DEFINE a == LookupStatus(rail, kind, state)
<1>1. rail \in Rails /\ kind \in Kinds(rail) /\ state \in Words(rail)
  BY RailType DEF IInv, Typed
<1>2. /\ a \in PaymentStatuses \ {"CREATED"}
      /\ a \notin ActivePollingStatuses => state \in FinalWords /\ a = Verdict(kind, state)
      /\ state \in FinalWords \ {"CANCELLED"} => a = Verdict(kind, state)
  BY <1>1, LookupTells
<1>3. Settled(rail, state) <=> state \in FinalWords
  BY <1>1, SettledIsFinal
<1>. HIDE DEF a
<1>4. /\ client = "asking" /\ TakeOver(a)
      /\ UNCHANGED <<kind, addressed, state, notices, misled, copy>>
      /\ seen' = (seen \/ Settled(rail, state))
  BY DEF ReceiveAnswer, a
<1>5. misled \in BOOLEAN /\ seen \in BOOLEAN
  BY DEF IInv, Typed
<1>6. seen' \in BOOLEAN /\ (seen => seen')
  BY <1>4, <1>5
<1>7. ~seen => (seen' => state \in FinalWords)
  BY <1>3, <1>4
<1>. QED BY <1>2, <1>4, <1>5, <1>6, <1>7, TakeOverKeeps

\* A fault names no state: the client may be told FAILED, and is misled.
LEMMA FaultStep ==
  ASSUME IInv, ReceiveFault
  PROVE  IInv'
<1>. DEFINE a == LookupStatus(rail, kind, Absent)
<1>1. a \in PaymentStatuses \ {"CREATED"}
  BY DEF ReceiveFault, LookupStatus, PayuLookupStatus, mapTransactionState, PaymentStatuses
<1>2. /\ client = "asking" /\ TakeOver(a) /\ misled' = TRUE
      /\ UNCHANGED <<kind, addressed, state, notices, copy, seen>>
  BY DEF ReceiveFault
<1>3. seen \in BOOLEAN
  BY DEF IInv, Typed
<1>. HIDE DEF a
<1>. QED BY <1>1, <1>2, <1>3, TakeOverKeeps

LEMMA RejectStep ==
  ASSUME IInv, CallRejects
  PROVE  IInv'
<1>. USE DEF IInv
<1>1. /\ client = "asking" /\ Decide(told)
      /\ UNCHANGED <<payments, kind, addressed, state, notices, misled, copy, seen>>
  BY DEF CallRejects
<1>2. rail' = rail /\ stored' = stored
  BY <1>1 DEF rail, stored
<1>3. told \in PaymentStatuses \ {"CREATED"}
  BY DEF Typed
<1>4. /\ attempt' \in Nat /\ clock' \in Nat /\ told' = told
      /\ client' \in {"waiting", "terminal-status", "attempt-limit", "timeout"}
      /\ Paced'
  BY <1>1, <1>3, DecideKeeps
<1>5. Typed'
  BY <1>1, <1>2, <1>4 DEF Typed, Unfinished
<1>6. NoticesPast' /\ Sound' /\ Learned'
  BY <1>1, <1>2, <1>4 DEF NoticesPast, Sound, Learned
<1>. QED BY <1>4, <1>5, <1>6

LEMMA AskStep ==
  ASSUME IInv, Ask
  PROVE  IInv'
<1>. USE DEF IInv
<1>. DEFINE d == getNextPaymentPollingDelay(attempt, clock)
<1>1. /\ client = "waiting" /\ client' = "asking" /\ copy' = stored /\ clock' = clock + d
      /\ UNCHANGED <<payments, kind, addressed, state, notices, misled, attempt, told, seen>>
  BY DEF Ask
<1>2. rail' = rail /\ stored' = stored
  BY <1>1 DEF rail, stored
<1>3. d \in Nat
  BY ConfigType DEF getNextPaymentPollingDelay
<1>4. clock + d >= Earliest(attempt + 1) /\ attempt + 1 < Config.maxAttempts
  BY <1>1, EarliestNext DEF Typed, Paced, Unfinished
<1>. HIDE DEF d
<1>5. Typed'
  BY <1>1, <1>2, <1>3 DEF Typed, Unfinished
<1>6. Paced'
  BY <1>1, <1>4 DEF Paced
<1>7. NoticesPast' /\ Sound' /\ Learned'
  BY <1>1, <1>2 DEF NoticesPast, Sound, Learned
<1>. QED BY <1>5, <1>6, <1>7

\* A transaction moves on only before its end, so nothing final is stored yet
\* and no lookup was answered after the end.
LEMMA ProviderStep ==
  ASSUME IInv, ProviderMoves
  PROVE  IInv'
<1>. USE DEF IInv
<1>1. PICK m \in Moves[rail] :
        /\ m[1] = state /\ state' = m[2]
        /\ notices' = notices \/ notices' = notices \cup {m[2]}
  BY DEF ProviderMoves
<1>2. UNCHANGED <<payments, kind, addressed, misled, attempt, clock, client, copy, told, seen>>
  BY DEF ProviderMoves
<1>3. rail' = rail /\ stored' = stored
  BY <1>2 DEF rail, stored
<1>4. rail \in Rails /\ state \in Words(rail)
  BY RailType DEF Typed
<1>5. state' \in Words(rail) /\ ~(state \in FinalWords)
  BY <1>1, <1>4, MovesStayInWords, SettledIsFinal
<1>6. Typed'
  BY <1>1, <1>2, <1>3, <1>5 DEF Typed
<1>7. Paced'
  BY <1>2 DEF Paced
<1>8. NoticesPast'
  BY <1>1, <1>5 DEF NoticesPast
<1>9. Sound' /\ Learned'
  BY <1>2, <1>3, <1>5 DEF Sound, Learned
<1>. QED BY <1>6, <1>7, <1>8, <1>9

\* A notification that comes late, or twice, names the verdict or no final status.
LEMMA DeliverStep ==
  ASSUME IInv, Deliver
  PROVE  IInv'
<1>. USE DEF IInv
<1>. DEFINE Handled(w, o) ==
        /\ notices' = notices \ {w}
        /\ IF addressed
           THEN /\ StoreStatus(NoticeStatus(rail, kind, w, o))
                /\ misled' = (misled \/ (w = "3DS_PENDING" /\ o = Absent))
           ELSE UNCHANGED <<payments, misled>>
<1>0. PICK w \in notices : \E o \in OutcomeOf(w) : Handled(w, o)
  BY DEF Deliver
<1>1. PICK o \in OutcomeOf(w) : Handled(w, o)
  BY <1>0
<1>2. UNCHANGED <<kind, addressed, state, attempt, clock, client, copy, told, seen>>
  BY DEF Deliver
<1>. DEFINE n == NoticeStatus(rail, kind, w, o)
<1>3. rail \in Rails /\ kind \in Kinds(rail) /\ w \in Words(rail)
  BY RailType DEF Typed
<1>4. /\ n \in PaymentStatuses \ {"CREATED"}
      /\ n \notin ActivePollingStatuses /\ ~(w = "3DS_PENDING" /\ o = Absent)
           => w \in FinalWords /\ n = Verdict(kind, w)
  BY <1>3, NoticeTells
<1>. HIDE DEF n
<1>5. /\ payments' \in [PaymentIds -> PaymentRow \cup {NoPayment}]
      /\ payments'[thePayment] \in PaymentRow
      /\ rail' = rail /\ stored' \in {n, stored}
      /\ misled' \in BOOLEAN /\ (misled => misled')
      /\ ~misled' => stored' = stored \/ ~(w = "3DS_PENDING" /\ o = Absent)
  <2>1. CASE addressed
    <3>1. StoreStatus(n) /\ misled' = (misled \/ (w = "3DS_PENDING" /\ o = Absent))
      BY <1>1, <2>1 DEF n
    <3>2. /\ payments' \in [PaymentIds -> PaymentRow \cup {NoPayment}]
          /\ payments'[thePayment] \in PaymentRow
          /\ rail' = rail /\ stored' \in {n, stored}
      BY <1>4, <3>1, StoreStatusKeeps
    <3>. QED BY <3>1, <3>2
  <2>2. CASE ~addressed
    <3>1. payments' = payments /\ misled' = misled
      BY <1>1, <2>2
    <3>. QED BY <3>1 DEF Typed, rail, stored
  <2>. QED BY <2>1, <2>2
<1>6. Typed'
  BY <1>1, <1>2, <1>4, <1>5 DEF Typed
<1>7. Paced' /\ NoticesPast'
  BY <1>1, <1>2 DEF Paced, NoticesPast
<1>8. Sound'
  <2>1. w \in FinalWords => w = state
    BY DEF NoticesPast
  <2>. QED BY <1>2, <1>4, <1>5, <2>1 DEF Sound
<1>9. Learned'
  BY <1>2, <1>5 DEF Learned
<1>. QED BY <1>6, <1>7, <1>8, <1>9

LEMMA LoseStep ==
  ASSUME IInv, Lose
  PROVE  IInv'
<1>1. notices' \subseteq notices
  BY DEF Lose
<1>2. UNCHANGED <<payments, kind, addressed, state, misled, attempt, clock, client, copy,
                  told, seen>>
  BY DEF Lose
<1>3. rail' = rail /\ stored' = stored
  BY <1>2 DEF rail, stored
<1>. QED BY <1>1, <1>2, <1>3 DEF IInv, Typed, Paced, NoticesPast, Sound, Learned

LEMMA NextIInv == IInv /\ [Next]_vars => IInv'
<1>. SUFFICES ASSUME IInv, [Next]_vars PROVE IInv'
  OBVIOUS
<1>1. CASE UNCHANGED vars
  <2>1. rail' = rail /\ stored' = stored
    BY <1>1 DEF rail, stored, vars
  <2>. QED BY <1>1, <2>1 DEF vars, IInv, Typed, Paced, NoticesPast, Sound, Learned
<1>. QED
  BY <1>1, ProviderStep, DeliverStep, LoseStep, AskStep, AnswerStep, FaultStep, RejectStep
     DEF Next

-----------------------------------------------------------------------------
(* What the initial flow leaves                                            *)

\* Every payment the adapters start is typed, and one that starts with a final
\* status, which stateTransitions lets CREATED become, starts with the verdict.
LEMMA StartedTells ==
  ASSUME NEW s \in Started, TransitionAllowed("CREATED", s[4])
  PROVE  /\ s[1] \in Rails /\ s[2] \in Kinds(s[1]) /\ s[3] \in Words(s[1])
         /\ s[4] \in PaymentStatuses \ {"CREATED"} /\ s[5] \in BOOLEAN
         /\ s[4] \notin ActivePollingStatuses =>
              s[3] \in FinalWords /\ s[4] = Verdict(s[2], s[3])
<1>0. s[4] \in {"AUTHORIZED", "PENDING", "PENDING_3DS", "FAILED", "DECLINED"}
  BY DEF TransitionAllowed, stateTransitions
<1>. USE DEF Rails, Kinds, Words, PaymentStatuses, FinalWords, ActivePollingStatuses
<1>1. CASE s \in StartedPayuPage
  <2>1. PICK t \in {"PAYMENT", "RESERVE", Absent} : s = <<"PAYU", t, "NEW", "PENDING", TRUE>>
    BY <1>1, Zenon DEF StartedPayuPage
  <2>2. s[1] = "PAYU" /\ s[2] = t /\ s[3] = "NEW" /\ s[4] = "PENDING" /\ s[5] = TRUE
    BY <2>1
  <2>. QED BY <2>2
<1>2. CASE s \in StartedPayuCard
  <2>. DEFINE A == {<<"PROCESSING", "PROCESSING", TRUE, "00">>,
                    <<"3DS_PENDING", Absent, TRUE, "P3DS">>,
                    <<"SUCCESSFUL", Absent, TRUE, "00">>,
                    <<"SUCCESSFUL", "SUCCESSFUL", TRUE, "00">>,
                    <<"FAILED", Absent, FALSE, "999">>}
              answer(a) == resolveDoTransactionStatus(a[2], "RESERVE", a[3], a[4], "AUTHORIZED")
  <2>0. StartedPayuCard = {<<"PAYU", "RESERVE", a[1], answer(a), b>> : a \in A, b \in BOOLEAN}
    BY DEF StartedPayuCard
  <2>. HIDE DEF A, answer
  <2>1. PICK a \in A, b \in BOOLEAN : s = <<"PAYU", "RESERVE", a[1], answer(a), b>>
    BY <1>2, <2>0
  <2>2. /\ s[1] = "PAYU" /\ s[2] = "RESERVE" /\ s[3] = a[1] /\ s[5] \in BOOLEAN
        /\ s[4] = answer(a)
    BY <2>1
  <2>3. \/ s[3] \in {"PROCESSING", "3DS_PENDING"} /\ s[4] \in {"PENDING", "PENDING_3DS"}
        \/ s[3] = "SUCCESSFUL" /\ s[4] = "AUTHORIZED"
        \/ s[3] = "FAILED" /\ s[4] = "FAILED"
    <3>. USE <2>2 DEF answer, resolveDoTransactionStatus, mapTransactionState, Absent
    <3>1. CASE a = <<"PROCESSING", "PROCESSING", TRUE, "00">>  BY <3>1
    <3>2. CASE a = <<"3DS_PENDING", Absent, TRUE, "P3DS">>  BY <3>2
    <3>3. CASE a = <<"SUCCESSFUL", Absent, TRUE, "00">>  BY <3>3
    <3>4. CASE a = <<"SUCCESSFUL", "SUCCESSFUL", TRUE, "00">>  BY <3>4
    <3>5. CASE a = <<"FAILED", Absent, FALSE, "999">>  BY <3>5
    <3>. QED BY <3>1, <3>2, <3>3, <3>4, <3>5 DEF A
  <2>. QED BY <2>2, <2>3 DEF Verdict, Successes
<1>3. CASE s \in StartedPeachCheckout
  <2>1. PICK t \in {"DB", "PA"} : s = <<"PEACH", t, Absent, "PENDING", FALSE>>
    BY <1>3, Zenon DEF StartedPeachCheckout
  <2>2. s[1] = "PEACH" /\ s[2] = t /\ s[3] = Absent /\ s[4] = "PENDING" /\ s[5] = FALSE
    BY <2>1
  <2>. QED BY <2>2
<1>4. CASE s \in StartedPeachCard
  <2>. DEFINE A == {<<"000.2", TRUE>>, <<"000.2", FALSE>>, <<"000.1", FALSE>>, <<Rejected, FALSE>>}
              T == {"DB", "PA"}
              start(t, a) == <<"PEACH", t, a[1], PeachCardStatus(a[1], t, a[2]), FALSE>>
  <2>0. StartedPeachCard = {start(t, a) : t \in T, a \in A}
    BY DEF StartedPeachCard
  <2>. HIDE DEF A, T, start
  <2>1. PICK t \in T, a \in A : s = start(t, a)
    BY <1>4, <2>0
  <2>2. /\ s[1] = "PEACH" /\ s[2] = t /\ s[3] = a[1] /\ s[5] = FALSE
        /\ s[4] = PeachCardStatus(a[1], t, a[2])
    BY <2>1 DEF start
  <2>3. \/ s[3] = "000.2" /\ s[4] \in {"PENDING", "PENDING_3DS"}
        \/ s[3] = "000.1" /\ t = "PA" /\ s[4] = "AUTHORIZED"
        \/ s[3] = "000.1" /\ t = "DB" /\ s[4] = "CAPTURED"
        \/ s[3] = Rejected /\ s[4] = "FAILED"
    <3>. USE <2>2 DEF T, PeachCardStatus, mapPeachStatusWithType, Absent, Rejected
    <3>1. CASE a = <<"000.2", TRUE>>  BY <3>1
    <3>2. CASE a = <<"000.2", FALSE>>  BY <3>2
    <3>3. CASE a = <<"000.1", FALSE>>  BY <3>3
    <3>4. CASE a = <<Rejected, FALSE>>  BY <3>4
    <3>. QED BY <3>1, <3>2, <3>3, <3>4 DEF A
  <2>. QED BY <1>0, <2>2, <2>3 DEF T, Verdict, Successes, Absent, Rejected
<1>5. CASE s \in StartedPayFlex
  <2>1. s = <<"PAYFLEX", "ORDER", "CREATED", "PENDING", TRUE>>
    BY <1>5 DEF StartedPayFlex
  <2>2. /\ s[1] = "PAYFLEX" /\ s[2] = "ORDER" /\ s[3] = "CREATED" /\ s[4] = "PENDING"
        /\ s[5] = TRUE
    BY <2>1
  <2>. QED BY <2>2
<1>. QED BY <1>1, <1>2, <1>3, <1>4, <1>5 DEF Started

LEMMA InitIInv == Init => IInv
<1>. SUFFICES ASSUME Init PROVE IInv
  OBVIOUS
<1>1. PICK s \in Started, r \in References :
        /\ s[1] \in Providers /\ TransitionAllowed("CREATED", s[4])
        /\ payments = [p \in PaymentIds |-> IF p = thePayment
             THEN [status |-> s[4], provider |-> s[1], providerReference |-> r] ELSE NoPayment]
        /\ kind = s[2] /\ state = s[3] /\ told = s[4] /\ addressed = s[5] /\ copy = s[4]
        /\ client = getPaymentPollingDecision(s[4], 0, 0)
  BY DEF Init
<1>2. notices = {} /\ misled = FALSE /\ attempt = 0 /\ clock = 0 /\ seen = FALSE
  BY DEF Init
<1>3. /\ s[1] \in Rails /\ s[2] \in Kinds(s[1]) /\ s[3] \in Words(s[1])
      /\ s[4] \in PaymentStatuses \ {"CREATED"} /\ s[5] \in BOOLEAN
      /\ s[4] \notin ActivePollingStatuses => s[3] \in FinalWords /\ s[4] = Verdict(s[2], s[3])
  BY <1>1, StartedTells
<1>4. payments[thePayment] = [status |-> s[4], provider |-> s[1], providerReference |-> r]
  BY <1>1, PollingAssumption
<1>5. rail = s[1] /\ stored = s[4]
  BY <1>4 DEF rail, stored
<1>6. payments[thePayment] \in PaymentRow
  BY <1>1, <1>3, <1>4 DEF PaymentRow
<1>7. payments \in [PaymentIds -> PaymentRow \cup {NoPayment}]
  BY <1>1, <1>4, <1>6
<1>8. client \in {"waiting", "terminal-status", "attempt-limit", "timeout"}
  BY <1>1 DEF getPaymentPollingDecision
<1>9. Typed
  BY <1>1, <1>2, <1>3, <1>5, <1>6, <1>7, <1>8 DEF Typed, Unfinished
<1>10. Paced
  <2>1. Config.maxAttempts > 0
    BY ConfigType, SteadyPollsSuffice DEF Enough
  <2>2. Earliest(0) = 0
    BY ConfigType DEF Earliest
  <2>3. client # "attempt-limit" /\ (client = "waiting" => Config.maxDuration > 0)
    BY <1>1, <2>1, ConfigType DEF getPaymentPollingDecision
  <2>4. client = "waiting" => Config.maxAttempts - 1 # 0
    BY <2>2, <2>3, EarliestLast, ConfigType
  <2>. QED BY <1>2, <1>8, <2>1, <2>2, <2>3, <2>4, ConfigType DEF Paced, Unfinished
<1>11. NoticesPast /\ Sound /\ Learned
  BY <1>1, <1>2, <1>3, <1>5 DEF NoticesPast, Sound, Learned
<1>. QED BY <1>9, <1>10, <1>11 DEF IInv

-----------------------------------------------------------------------------
(* The theorems                                                            *)

\* What the polling client, the notifications and the lookups keep true of the
\* row, the transaction and the clock (payment-polling.ts, lookupProviderStatus,
\* handleWebhook).
THEOREM Invariance == Spec => []IInv
BY InitIInv, NextIInv, PTL DEF Spec

\* getPaymentPollingDecision never answers attempt-limit, for every configuration
\* whose intervals outlast its duration and whatever each request takes.
THEOREM DurationEndsPolling == Spec => []AttemptLimitIsSlack
<1>1. IInv => AttemptLimitIsSlack
  BY DEF IInv, Paced, AttemptLimitIsSlack
<1>. QED BY <1>1, Invariance, PTL

\* For every order of answers and notifications, and any number of them: a final
\* status stored or told is what the provider settled on.
THEOREM FinalStatusIsOutcome == Spec => []FinalIsOutcome
<1>1. IInv => FinalIsOutcome
  <2>. SUFFICES ASSUME IInv, NEW s \in {stored, told}, s \notin ActivePollingStatuses, ~misled
                PROVE  Settled(rail, state) /\ s = Outcome
    BY DEF FinalIsOutcome
  <2>1. state \in FinalWords /\ s = Verdict(kind, state)
    BY DEF IInv, Sound
  <2>2. rail \in Rails /\ state \in Words(rail)
    BY RailType DEF IInv, Typed
  <2>. QED BY <2>1, <2>2, SettledIsFinal, OutcomeIsVerdict
<1>. QED BY <1>1, Invariance, PTL

\* For every duration of polling: a client that asked after the end was told of
\* it, unless a fault or a notice misled the gateway or the word was CANCELLED.
THEOREM PollingLearnsSettlement == Spec => []SettlementIsSeen
<1>1. IInv => SettlementIsSeen
  BY DEF IInv, Learned, SettlementIsSeen
<1>. QED BY <1>1, Invariance, PTL

=============================================================================
