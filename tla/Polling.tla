------------------------------ MODULE Polling ------------------------------
(***************************************************************************)
(* What becomes of a payment that a customer completes at the provider:    *)
(* its page polls provider-status at the pace of payment-polling.ts, the   *)
(* provider notifies, and both roads lead through the adapters' maps to    *)
(* the one row.  How a lookup and a delivery interleave await by await is  *)
(* PaymentLifecycle's subject; here a delivery is one step and a lookup    *)
(* two, and time passes in seconds.                                        *)
(***************************************************************************)
EXTENDS Payments, StatusMaps, Naturals, FiniteSets

CONSTANTS
  thePayment,
  Config,       \* DEFAULT_PAYMENT_POLLING_CONFIG, in seconds
  Latencies,    \* what a provider-status request may take, in seconds
  MaxNotices    \* bound on notifications under way at once

VARIABLES
  kind,        \* transaction type, as the provider words it
  addressed,   \* the reference the notifications carry is the payment's id
  state,       \* state of the transaction at the provider, in its own words
  notices,     \* states notified and not delivered
  misled,      \* some answer or notice named a state the provider was not in
  attempt, clock,   \* polls made, seconds since the first decision
  client,      \* "waiting", "asking", or why getPaymentPollingDecision stopped
  copy,        \* status the lookup under way has read
  told,        \* status the client was told last
  seen         \* a lookup was answered after the transaction was settled

vars == <<payments, kind, addressed, state, notices, misled, attempt, clock, client,
          copy, told, seen>>

ASSUME PollingAssumption ==
  /\ thePayment \in PaymentIds
  /\ Providers \subseteq {"PAYU", "PEACH", "PAYFLEX"}
  /\ Config \in [{"fastInterval", "steadyInterval", "slowInterval", "fastAttempts",
                  "slowAfter", "maxDuration", "maxAttempts"} -> Nat]
  /\ Latencies \subseteq Nat /\ MaxNotices \in Nat

\* The pace outlasts the duration: with n polls at the steady interval the slow
\* one is reached, and the slow polls that remain take the time that remains.
ASSUME PaceAssumption ==
  /\ Config.steadyInterval <= Config.slowInterval
  /\ \E n \in 0..Config.maxAttempts :
       /\ Config.fastAttempts * Config.fastInterval + n * Config.steadyInterval
            >= Config.slowAfter
       /\ Config.fastAttempts + n < Config.maxAttempts
       /\ Config.slowAfter
            + (Config.maxAttempts - 1 - Config.fastAttempts - n) * Config.slowInterval
              >= Config.maxDuration

rail == payments[thePayment].provider
stored == payments[thePayment].status
StoreStatus(s) == UpdateRow(thePayment, [payments[thePayment] EXCEPT !.status = s])

-----------------------------------------------------------------------------
(* The transaction at the provider                                         *)

Moves ==
  [PAYU |-> {<<"NEW", "PROCESSING">>, <<"NEW", "EXPIRED">>, <<"NEW", "CANCELLED">>,
             <<"PROCESSING", "AWAITING_PAYMENT">>, <<"PROCESSING", "3DS_PENDING">>,
             <<"PROCESSING", "SUCCESSFUL">>, <<"PROCESSING", "FAILED">>,
             <<"PROCESSING", "TIMEOUT">>, <<"3DS_PENDING", "PROCESSING">>,
             <<"3DS_PENDING", "SUCCESSFUL">>, <<"3DS_PENDING", "FAILED">>,
             <<"AWAITING_PAYMENT", "PARTIAL_PAYMENT">>, <<"AWAITING_PAYMENT", "SUCCESSFUL">>,
             <<"AWAITING_PAYMENT", "EXPIRED">>, <<"PARTIAL_PAYMENT", "SUCCESSFUL">>},
   PEACH |-> {<<Absent, "000.2">>, <<Absent, "000.1">>, <<Absent, Rejected>>,
              <<"000.2", "000.1">>, <<"000.2", Rejected>>},
   PAYFLEX |-> {<<"CREATED", "INITIATED">>, <<"CREATED", "ABANDONED">>,
                <<"INITIATED", "APPROVED">>, <<"INITIATED", "DECLINED">>,
                <<"INITIATED", "ABANDONED">>}]

Successes == {"SUCCESSFUL", "000.1", "APPROVED"}
Settled(p, s) == \A m \in Moves[p] : m[1] # s

\* The transaction moves on, and may be notified of.
ProviderMoves ==
  /\ \E s \in {m[2] : m \in {n \in Moves[rail] : n[1] = state}} :
       /\ state' = s
       /\ notices' \in {notices} \cup
            (IF Cardinality(notices) < MaxNotices THEN {notices \cup {s}} ELSE {})
  /\ UNCHANGED <<payments, kind, addressed, misled, attempt, clock, client, copy, told, seen>>

\* Whether a notification names an outcome, and which.
OutcomeOf(s) ==
  {Absent, IF s \in {"FAILED", "TIMEOUT", "EXPIRED", "CANCELLED"} THEN "failure" ELSE "success"}

-----------------------------------------------------------------------------
(* The adapters                                                            *)

LookupStatus(p, type, s) ==
  CASE p = "PAYU" -> PayuLookupStatus(s, type)
    [] p = "PEACH" -> PeachLookupStatus(s, type)
    [] OTHER -> PayFlexLookupStatus(s)

NoticeStatus(p, type, s, outcome) ==
  CASE p = "PAYU" -> PayuNoticeStatus(s, type, outcome)
    [] p = "PEACH" -> PeachNoticeStatus(s, type)
    [] OTHER -> PayFlexNoticeStatus(s)

\* What the initial flow may leave: [rail, type, state, status answered,
\* addressed].  PayU's redirect page is NEW until the customer comes.
StartedPayuPage ==
  {<<"PAYU", t, "NEW", "PENDING", TRUE>> : t \in {"PAYMENT", "RESERVE", Absent}}

\* doTransaction RESERVE, which gives PayU the customer reference, when there is
\* one, in place of the payment's id.
StartedPayuCard ==
  {<<"PAYU", "RESERVE", a[1],
     resolveDoTransactionStatus(a[2], "RESERVE", a[3], a[4], "AUTHORIZED"), b>> :
       a \in {<<"PROCESSING", "PROCESSING", TRUE, "00">>,
              <<"3DS_PENDING", Absent, TRUE, "P3DS">>, <<"SUCCESSFUL", Absent, TRUE, "00">>,
              <<"SUCCESSFUL", "SUCCESSFUL", TRUE, "00">>, <<"FAILED", Absent, FALSE, "999">>},
       b \in BOOLEAN}

\* Peach is given an abridged id, and no provider object lives long enough to
\* know it again.
StartedPeachCheckout == {<<"PEACH", t, Absent, "PENDING", FALSE>> : t \in {"DB", "PA"}}

StartedPeachCard ==
  {<<"PEACH", t, a[1], PeachCardStatus(a[1], t, a[2]), FALSE>> :
     t \in {"DB", "PA"},
     a \in {<<"000.2", TRUE>>, <<"000.2", FALSE>>, <<"000.1", FALSE>>, <<Rejected, FALSE>>}}

StartedPayFlex == {<<"PAYFLEX", "ORDER", "CREATED", "PENDING", TRUE>>}

Started ==
  StartedPayuPage \cup StartedPayuCard \cup StartedPeachCheckout \cup StartedPeachCard
    \cup StartedPayFlex

\* handleWebhook: the status of a notification is stored whatever it replaces,
\* if its reference finds the payment.  A state the map does not list and that
\* comes with no outcome passes for a failure.
Deliver ==
  /\ \E s \in notices : \E o \in OutcomeOf(s) :
       /\ notices' = notices \ {s}
       /\ IF addressed
          THEN /\ StoreStatus(NoticeStatus(rail, kind, s, o))
               /\ misled' = (misled \/ (s = "3DS_PENDING" /\ o = Absent))
          ELSE UNCHANGED <<payments, misled>>
  /\ UNCHANGED <<kind, addressed, state, attempt, clock, client, copy, told, seen>>

Lose ==
  /\ \E s \in notices : notices' = notices \ {s}
  /\ UNCHANGED <<payments, kind, addressed, state, misled, attempt, clock, client, copy,
                 told, seen>>

-----------------------------------------------------------------------------
(* payment-polling.ts                                                      *)

ActivePollingStatuses == {"CREATED", "PENDING", "PENDING_3DS", "UNKNOWN"}

\* Mutant: the slow interval is never reached.
getNextPaymentPollingDelaySteady(n, elapsed) ==
  IF n < Config.fastAttempts THEN Config.fastInterval ELSE Config.steadyInterval

getNextPaymentPollingDelay(n, elapsed) ==
  IF n < Config.fastAttempts THEN Config.fastInterval
  ELSE IF elapsed < Config.slowAfter THEN Config.steadyInterval
  ELSE Config.slowInterval

getPaymentPollingDecision(status, n, elapsed) ==
  IF status \notin ActivePollingStatuses THEN "terminal-status"
  ELSE IF n >= Config.maxAttempts THEN "attempt-limit"
  ELSE IF elapsed >= Config.maxDuration THEN "timeout"
  ELSE "waiting"

\* The delay is over: GET provider-status; lookupProviderStatus reads the row.
Ask ==
  /\ client = "waiting"
  /\ clock' = clock + getNextPaymentPollingDelay(attempt, clock)
  /\ client' = "asking" /\ copy' = stored
  /\ UNCHANGED <<payments, kind, addressed, state, notices, misled, attempt, told, seen>>

\* The request is over, and the client decides anew with the status it has.
Decide(status) ==
  /\ told' = status
  /\ attempt' = attempt + 1
  /\ \E l \in Latencies :
       /\ clock' = clock + l
       /\ client' = getPaymentPollingDecision(status, attempt + 1, clock + l)

\* Mutant: a status must be a transition, even from the same status.
TakeOverStrictly(status) ==
  IF TransitionAllowed(copy, status)
  THEN StoreStatus(status) /\ Decide(status)
  ELSE UNCHANGED payments /\ Decide(told)

\* lookupProviderStatus with the provider's answer: a status outside the table
\* is refused, and the client, told of an error, keeps what it knew.
TakeOver(status) ==
  IF status = copy \/ TransitionAllowed(copy, status)
  THEN StoreStatus(status) /\ Decide(status)
  ELSE UNCHANGED payments /\ Decide(told)

ReceiveAnswer ==
  /\ client = "asking"
  /\ TakeOver(LookupStatus(rail, kind, state))
  /\ seen' = (seen \/ Settled(rail, state))
  /\ UNCHANGED <<kind, addressed, state, notices, misled, copy>>

\* PayU answers with a SOAP fault.
ReceiveFault ==
  /\ client = "asking" /\ rail = "PAYU"
  /\ TakeOver(LookupStatus(rail, kind, Absent))
  /\ misled' = TRUE
  /\ UNCHANGED <<kind, addressed, state, notices, copy, seen>>

\* No answer within the retries, or one that is not 2xx.
CallRejects ==
  /\ client = "asking"
  /\ Decide(told)
  /\ UNCHANGED <<payments, kind, addressed, state, notices, misled, copy, seen>>

-----------------------------------------------------------------------------

\* The initial flow has stored the provider's answer.
Init ==
  /\ \E s \in Started :
       /\ s[1] \in Providers /\ TransitionAllowed("CREATED", s[4])
       /\ \E r \in References :
            payments = [p \in PaymentIds |-> IF p = thePayment
              THEN [status |-> s[4], provider |-> s[1], providerReference |-> r] ELSE NoPayment]
       /\ kind = s[2] /\ state = s[3] /\ told = s[4] /\ addressed = s[5] /\ copy = s[4]
       /\ client = getPaymentPollingDecision(s[4], 0, 0)
  /\ notices = {} /\ misled = FALSE /\ attempt = 0 /\ clock = 0 /\ seen = FALSE

Next ==
  \/ ProviderMoves \/ Deliver \/ Lose
  \/ Ask \/ ReceiveAnswer \/ ReceiveFault \/ CallRejects

Spec == Init /\ [][Next]_vars

-----------------------------------------------------------------------------
(* Properties                                                              *)

\* With the default intervals, or others that PaceAssumption admits, it is always
\* the duration that ends an unfinished polling (payment-polling.ts:77-92), however
\* fast the requests are answered: the limit on attempts never cuts it short.
AttemptLimitIsSlack == client # "attempt-limit"

\* What the provider made of the payment, for one that is settled.
Outcome ==
  IF state \notin Successes THEN "FAILED"
  ELSE IF kind \in {"RESERVE", "PA"} THEN "AUTHORIZED" ELSE "CAPTURED"

\* Two maps for PayU, one shared map for Peach, answers and notifications in any
\* order: a status that ends the polling is stored, or told to the client, only
\* once the provider has settled the payment, and is the outcome it settled on.
\* Only a SOAP fault (getTransaction's default) and a 3DS_PENDING notice mislead.
FinalIsOutcome ==
  \A s \in {stored, told} :
    s \notin ActivePollingStatuses /\ ~misled => Settled(rail, state) /\ s = Outcome

\* A page that polled after the payment was settled and got an answer learns the
\* outcome, with or without notifications, and whichever came first: it gives up
\* only if the gateway was misled, or on CANCELLED, which getTransaction's map
\* does not know and the table then refuses.
SettlementIsSeen ==
  client = "timeout" /\ seen /\ ~misled => state = "CANCELLED"

=============================================================================
