-------------------------- MODULE MCPayFlexTokens --------------------------
(* The defaults in units of ten seconds, two calls, tokens of two lifetimes:*)
(* one too short to outlive a call, one that is cached and runs out.        *)
EXTENDS PayFlexTokens, TLC

CallSymmetry == Permutations(Calls)

=============================================================================
