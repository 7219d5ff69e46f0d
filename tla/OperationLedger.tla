--------------------------- MODULE OperationLedger --------------------------
(***************************************************************************)
(* What capture, refund and void promise about one idempotency scope       *)
(* (payment, type, key): the operation is begun once, the provider is      *)
(* invoked at most once and only while it is begun, it can only succeed    *)
(* after that, and once failed it stays failed.  A success may still be    *)
(* withdrawn: the service does so when it cannot tell whether its last     *)
(* statement was executed.                                                 *)
(***************************************************************************)
CONSTANT Slots

VARIABLES ledger, invoked

LedgerStates == {"absent", "STARTED", "SUCCEEDED", "FAILED"}

Init == /\ ledger = [s \in Slots |-> "absent"]
        /\ invoked = {}

Begin(s) == /\ ledger[s] = "absent"
            /\ ledger' = [ledger EXCEPT ![s] = "STARTED"]
            /\ UNCHANGED invoked

Invoke(s) == /\ ledger[s] = "STARTED"
             /\ s \notin invoked
             /\ invoked' = invoked \cup {s}
             /\ UNCHANGED ledger

Succeed(s) == /\ ledger[s] = "STARTED"
              /\ s \in invoked
              /\ ledger' = [ledger EXCEPT ![s] = "SUCCEEDED"]
              /\ UNCHANGED invoked

Fail(s) == /\ ledger[s] \in {"STARTED", "SUCCEEDED"}
           /\ ledger' = [ledger EXCEPT ![s] = "FAILED"]
           /\ UNCHANGED invoked

Next == \E s \in Slots : Begin(s) \/ Invoke(s) \/ Succeed(s) \/ Fail(s)

Spec == Init /\ [][Next]_<<ledger, invoked>>

=============================================================================
