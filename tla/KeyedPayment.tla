---------------------------- MODULE KeyedPayment ----------------------------
(***************************************************************************)
(* What payment and authorize promise about one idempotency key: a single  *)
(* request owns it for ever; on behalf of that request alone the routed    *)
(* candidates are asked one after the other, never one again and none once *)
(* the request has been answered; it succeeds only after a candidate was   *)
(* asked, and an end, good or bad, is the end.                             *)
(***************************************************************************)
EXTENDS Naturals

CONSTANTS Keys, Requests,
  Candidates   \* numbers, in routed order

VARIABLES
  owner,   \* per key, the request it belongs to, as a set of at most one
  asked,   \* per key, <<request, candidate>> of every candidate asked
  phase

PaymentInit ==
  /\ owner = [k \in Keys |-> {}]
  /\ asked = [k \in Keys |-> {}]
  /\ phase = [k \in Keys |-> "free"]

\* A request takes the key; the service may lose track of it at once.
Open(k, q) ==
  /\ phase[k] = "free"
  /\ owner' = [owner EXCEPT ![k] = {q}]
  /\ \E p \in {"open", "ended"} : phase' = [phase EXCEPT ![k] = p]
  /\ UNCHANGED asked

Ask(k, q, i) ==
  /\ phase[k] = "open" /\ owner[k] = {q}
  /\ \A a \in asked[k] : a[2] < i
  /\ asked' = [asked EXCEPT ![k] = @ \cup {<<q, i>>}]
  /\ UNCHANGED <<owner, phase>>

Succeed(k) ==
  /\ phase[k] = "open" /\ asked[k] # {}
  /\ phase' = [phase EXCEPT ![k] = "succeeded"]
  /\ UNCHANGED <<owner, asked>>

\* A failure ends one payment, a crash all that are open.
End(ks) ==
  /\ \A k \in ks : phase[k] = "open"
  /\ phase' = [k \in Keys |-> IF k \in ks THEN "ended" ELSE phase[k]]
  /\ UNCHANGED <<owner, asked>>

PaymentNext ==
  \/ \E k \in Keys, q \in Requests : Open(k, q) \/ \E i \in Candidates : Ask(k, q, i)
  \/ \E k \in Keys : Succeed(k)
  \/ \E ks \in SUBSET Keys : End(ks)

PaymentSpec == PaymentInit /\ [][PaymentNext]_<<owner, asked, phase>>

=============================================================================
