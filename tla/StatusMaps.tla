----------------------------- MODULE StatusMaps -----------------------------
(***************************************************************************)
(* What the adapters make of a provider's words: the status an answer or   *)
(* a notification comes to.                                                *)
(*                                                                         *)
(* A word is taken trimmed and in upper case, as the code does; Absent is  *)
(* a tag or a field that is missing.  Of a Peach result code only the      *)
(* group it starts with matters: "000.1" stands for 000.0 as well.         *)
(***************************************************************************)

Absent == "absent"
Rejected == "rejected"  \* any Peach code outside the groups 000.0 to 000.2

-----------------------------------------------------------------------------
(* PayU                                                                    *)

mapTransactionState(state, type) ==
  CASE state = "SUCCESSFUL" ->
         (CASE type = "RESERVE" -> "AUTHORIZED"
            [] type = "CREDIT" -> "REFUNDED"
            [] type = "RESERVE_CANCEL" -> "VOIDED"
            [] OTHER -> "CAPTURED")
    [] state \in {"NEW", "PROCESSING", "AWAITING_PAYMENT"} -> "PENDING"
    [] state = "3DS_PENDING" -> "PENDING_3DS"
    [] state \in {"FAILED", "TIMEOUT", "EXPIRED"} -> "FAILED"
    [] OTHER -> "UNKNOWN"

\* getTransaction: an answer without a transactionState tag, a SOAP fault for
\* one, counts as a failed transaction.
PayuLookupStatus(state, type) ==
  mapTransactionState(IF state = Absent THEN "FAILED" ELSE state, type)

\* outcome: "success" or "failure" when a result code or the successful tag
\* is there, otherwise Absent.
IpnIsSuccess(state, outcome) ==
  IF outcome = Absent THEN state = "SUCCESSFUL" ELSE outcome = "success"

mapIpnStatus(state, type, outcome) ==
  LET isSuccess == IpnIsSuccess(state, outcome) IN
  CASE state = "SUCCESSFUL" /\ ~isSuccess -> "FAILED"
    [] state = "SUCCESSFUL" /\ isSuccess ->
         (CASE type = "CREDIT" -> "REFUNDED"
            [] type \in {"FINALIZE", "PAYMENT"} -> "CAPTURED"
            [] type = "RESERVE_CANCEL" -> "VOIDED"
            [] OTHER -> "AUTHORIZED")
    [] state \in {"AWAITING_PAYMENT", "PROCESSING", "NEW", "PENDING", "PENDING_REVIEW",
                  "PARTIAL_PAYMENT", "OVER_PAYMENT"} -> "PENDING"
    [] state \in {"CREDIT", "REFUNDED"} -> "REFUNDED"
    [] state \in {"EXPIRED", "CANCELLED", "FAILED", "TIMEOUT"} -> "FAILED"
    [] OTHER -> IF isSuccess THEN "PENDING" ELSE "FAILED"

\* Mutant: no default for a notification that does not tell the type.
PayuNoticeStatusWithoutDefault(state, type, outcome) == mapIpnStatus(state, type, outcome)

PayuNoticeStatus(state, type, outcome) ==
  mapIpnStatus(state, IF type = Absent THEN "PAYMENT" ELSE type, outcome)

\* Result code P3DS of a successful answer is the challenge; code "00" the success.
resolveDoTransactionStatus(state, type, successful, code, fallback) ==
  IF successful /\ code = "P3DS" THEN "PENDING_3DS"
  ELSE IF state # Absent
       THEN IF ~successful /\ code # "00" THEN "FAILED" ELSE mapTransactionState(state, type)
       ELSE IF successful /\ code = "00" THEN fallback ELSE "FAILED"

-----------------------------------------------------------------------------
(* Peach, PayFlex                                                          *)

mapPeachStatusWithType(code, type) ==
  CASE code = Absent -> "UNKNOWN"
    [] code = "000.2" -> "PENDING"
    [] code = "000.1" ->
         (CASE type = "PA" -> "AUTHORIZED"
            [] type = "RF" -> "REFUNDED"
            [] type = "RV" -> "VOIDED"
            [] OTHER -> "CAPTURED")
    [] OTHER -> "FAILED"

\* The query reports the last attempt to pay; a type that is missing is a debit.
PeachLookupStatus(code, type) ==
  mapPeachStatusWithType(code, IF type = Absent THEN "DB" ELSE type)

PeachNoticeStatus(code, type) ==
  mapPeachStatusWithType(code, IF type = Absent THEN "DB" ELSE type)

\* A card payment answered with a redirect URL waits for the challenge.
PeachCardStatus(code, type, redirect) ==
  IF redirect THEN "PENDING_3DS" ELSE mapPeachStatusWithType(code, type)

mapPayFlexOrderStatus(status) ==
  CASE status \in {"CREATED", "INITIATED"} -> "PENDING"
    [] status = "APPROVED" -> "CAPTURED"
    [] status \in {"DECLINED", "ABANDONED"} -> "FAILED"
    [] OTHER -> "UNKNOWN"

PayFlexLookupStatus(status) == mapPayFlexOrderStatus(status)
PayFlexNoticeStatus(status) == mapPayFlexOrderStatus(status)

=============================================================================
