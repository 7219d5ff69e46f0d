---------------------------- MODULE MCInitialFlow ----------------------------
(* InitialFlow with payments routed to PayU, or to PayU and then Peach.     *)
EXTENDS InitialFlow, TLC

CONSTANTS payu, peach

MCProviders == {payu, peach}
MCRoutes == {<<payu>>, <<payu, peach>>}

=============================================================================
