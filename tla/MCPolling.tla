----------------------------- MODULE MCPolling -----------------------------
(* Polling with the defaults of payment-polling.ts, in seconds. *)
EXTENDS Polling

MCConfig ==
  [fastInterval |-> 2, steadyInterval |-> 5, slowInterval |-> 10, fastAttempts |-> 5,
   slowAfter |-> 60, maxDuration |-> 180, maxAttempts |-> 30]

=============================================================================
