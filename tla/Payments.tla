------------------------------ MODULE Payments ------------------------------
(***************************************************************************)
(* The payments table and the payment status machine.                      *)
(*                                                                         *)
(* Every flow of the service (initial flow, stored operations, webhooks,   *)
(* provider lookups) reads a row into memory, works on that copy across    *)
(* awaits, and writes the WHOLE copy back.  A row is abstracted to the     *)
(* three columns the flows decide on; amount, currency, checkout URL and   *)
(* timestamps never influence control.                                     *)
(***************************************************************************)

CONSTANTS
  PaymentIds,    \* ids (randomUUID) of the payments considered
  Providers,     \* PaymentProviderName values considered
  References,    \* references handed out by providers
  NoReference,   \* provider_reference IS NULL
  NoPayment      \* no row with this id

VARIABLE payments

PaymentStatuses ==
  {"CREATED", "PENDING", "PENDING_3DS", "AUTHORIZED", "CAPTURED", "REFUNDED",
   "VOIDED", "PAID", "FAILED", "DECLINED", "UNKNOWN"}

stateTransitions ==
  [CREATED     |-> {"AUTHORIZED", "PENDING", "PENDING_3DS", "FAILED", "DECLINED"},
   PENDING     |-> {"AUTHORIZED", "CAPTURED", "PENDING_3DS", "FAILED", "DECLINED",
                    "VOIDED", "PAID"},
   PENDING_3DS |-> {"AUTHORIZED", "CAPTURED", "FAILED", "DECLINED", "VOIDED", "PAID"},
   AUTHORIZED  |-> {"CAPTURED", "REFUNDED", "FAILED", "VOIDED", "PAID"},
   CAPTURED    |-> {"REFUNDED", "PAID"},
   UNKNOWN     |-> PaymentStatuses \ {"CREATED", "UNKNOWN"},
   REFUNDED    |-> {},
   FAILED      |-> {},
   DECLINED    |-> {},
   VOIDED      |-> {},
   PAID        |-> {}]

\* ensureTransition returns normally; otherwise it throws.
TransitionAllowed(from, to) == to \in stateTransitions[from]

PaymentRow ==
  [status            : PaymentStatuses,
   provider          : Providers,
   providerReference : References \cup {NoReference}]

\* UPDATE payments SET <every column> WHERE id = p: no row, no effect.
UpdateRow(p, row) ==
  payments' = [payments EXCEPT ![p] = IF @ = NoPayment THEN @ ELSE row]

\* What one statement sent to the database can come to, as its caller sees it:
\* executed and acknowledged, not executed and an error raised, or executed
\* with the acknowledgement lost, which also raises an error.
DbOutcomes == {"acknowledged", "rejected", "unacknowledged"}
Executed(o) == o # "rejected"
Raised(o)   == o # "acknowledged"

PaymentsTypeOK == payments \in [PaymentIds -> PaymentRow \cup {NoPayment}]

=============================================================================
