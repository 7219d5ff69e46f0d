----------------------------- MODULE MCWebhooks -----------------------------
(***************************************************************************)
(* Webhooks with one notification of each shape the adapters produce.      *)
(***************************************************************************)
EXTENDS Webhooks, TLC

CONSTANTS p1, ref1, h1

EventOf(payment, ref, hash, status) ==
  [merchantReference |-> payment, providerReference |-> ref,
   responseHash |-> hash, status |-> status]

PayloadOf(event) == [payload |-> "payload", event |-> event]

\* PayU: the event carries a responseHash.
Hashed(status) == PayloadOf(EventOf(p1, ref1, h1, status))
\* Peach and PayFlex: the event is known by the provider's reference only.
Referenced(status) == PayloadOf(EventOf(p1, ref1, NoHash, status))
\* Peach without an id: neither hash nor reference.
Anonymous == PayloadOf(EventOf(p1, NoReference, NoHash, "AUTHORIZED"))
\* No event: an unknown payload, PayFlex sending JSON with a JSON content type,
\* an adapter without webhooks (PayFast, Stitch).
Unknown == PayloadOf(NoEvent)

AllShapes == {Hashed("CAPTURED"), Referenced("PENDING"), Referenced("CAPTURED"),
              Anonymous, Unknown}
\* Two notifications about one order, and one sent again and again.
Identified == {Hashed("CAPTURED"), Referenced("PENDING"), Referenced("CAPTURED")}
Single     == {Hashed("CAPTURED")}
Repeated   == {Hashed("CAPTURED"), Anonymous}

DeliverySymmetry == Permutations(Deliveries)
=============================================================================
