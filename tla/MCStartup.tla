----------------------------- MODULE MCStartup -----------------------------
(* Two servers, one with an additional credential; a migration of two      *)
(* tables, an empty one, and one of a single table.                        *)
EXTENDS Startup, TLC

CONSTANTS s1, s2
MCSeeds == s1 :> buildSeedProviderInputs({}) @@ s2 :> buildSeedProviderInputs({"PEACH"})
MCMigrations == <<<<"payments", "payment_logs">>, <<>>, <<"webhook_events">>>>

=============================================================================
