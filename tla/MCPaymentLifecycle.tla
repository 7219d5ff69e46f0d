------------------------- MODULE MCPaymentLifecycle -------------------------
(* One payment under its initial flow, a lookup, a callback and an          *)
(* operation, in either store.                                             *)
EXTENDS PaymentLifecycle, TLC

CONSTANTS p1, x1
OneOperation == x1 :> "CAPTURE"

\* The two providers differ in nothing here; the properties are of single steps.
Interchangeable == Permutations(Providers)

\* How a flow ended, and an answer it has taken over, decide nothing later on:
\* states that differ in them alone are visited once.  The properties look at such
\* values in the step that sets them, or, of lookups, while they are kept here.
StillRead(f) ==
  IF pc[f] \in {"await", "received"} \/ f \in Lookups THEN local[f]
  ELSE [local[f] EXCEPT !.answer = NoAnswer, !.steady = TRUE]

RelevantState ==
  <<payments, store, truth, asked,
    [f \in Flows |-> CASE InFlight(f)     -> <<pc[f], StillRead(f)>>
                       [] pc[f] = "new"   -> <<"new", NoLocals>>
                       [] pc[f] \in Ended -> <<"ended", NoLocals>>]>>

=============================================================================
