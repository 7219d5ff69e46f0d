-------------------------- MODULE PaymentRequests --------------------------
(***************************************************************************)
(* The body of a create request: what createPaymentSchema (validators.ts)  *)
(* accepts, and what each adapter demands of it before its first call.     *)
(*                                                                         *)
(* A body is a record [provider, merchant, method, type, urls, metadata]:  *)
(* an optional name is None when absent, metadata is the set of no or one  *)
(* object, and an object is the set of its keys that hold a usable value   *)
(* (payuAuthorizeFlow: DO_TRANSACTION, secure3d: true).                    *)
(***************************************************************************)
EXTENDS Naturals

CONSTANT PublicBaseUrl  \* env.publicBaseUrl: "none", "public" or "local"

ASSUME PublicBaseUrlAssumption == PublicBaseUrl \in {"none", "public", "local"}

None == "none"
Redirects == {"returnUrl", "cancelUrl"}

\* The keys under which each field of the payer may be given.
PayflexAliases ==
  [firstName |-> {"firstName", "givenNames"}, lastName |-> {"lastName", "surname"},
   mobile |-> {"mobile", "phoneNumber"}, email |-> {"email"}]
CardFields == {"cardNumber", "cardExpiry", "cvv", "nameOnCard"}
S2SCardFields == CardFields \cup DOMAIN PayflexAliases
PeachFields ==
  [PAYSHAP |-> {"virtualAccount.bank", "virtualAccount.accountId"},
   MOBICRED |-> {"virtualAccount.accountId", "virtualAccount.password"},
   RCSSTORECARDS |-> {"card.number"}]

Keys(b) == UNION b.metadata
HasPayflexFields(b) ==
  \A f \in DOMAIN PayflexAliases : PayflexAliases[f] \cap Keys(b) # {}
HasRedirectUrls(b) == \A u \in Redirects : b.urls[u] # None
AsksDoTransaction(b) == "payuAuthorizeFlow" \in Keys(b)
Secure3d(b) == "secure3d" \in Keys(b)

-----------------------------------------------------------------------------
(* The schema                                                              *)

isPayuS2SDoTransactionFlow(b) ==
  b.method = "CREDITCARD" /\ b.type = "RESERVE" /\ AsksDoTransaction(b)

requiresMerchantRedirectUrls(b) ==
  IF isPayuS2SDoTransactionFlow(b) THEN Secure3d(b)
  ELSE b.provider = "PAYU" \/ b.method # None

\* Mutant: the routed form of a request is let through without the look at its URLs.
ValidButUrls(b) ==
  /\ b.provider # None \/ b.merchant # None
  /\ b.method = "PAYFLEX" => HasPayflexFields(b)
  /\ isPayuS2SDoTransactionFlow(b) => S2SCardFields \subseteq Keys(b)
  /\ b.provider = "PAYU" /\ requiresMerchantRedirectUrls(b) => HasRedirectUrls(b)

Valid(b) ==
  /\ b.provider # None \/ b.merchant # None
  /\ b.method = "PAYFLEX" => HasPayflexFields(b)
  /\ (b.provider = "PEACH" /\ b.metadata # {} /\ b.method \in DOMAIN PeachFields)
       => PeachFields[b.method] \subseteq Keys(b)
  /\ isPayuS2SDoTransactionFlow(b) => S2SCardFields \subseteq Keys(b)
  /\ requiresMerchantRedirectUrls(b) => HasRedirectUrls(b)

-----------------------------------------------------------------------------
(* The adapters                                                            *)

\* A local URL is rewritten to the public base, whatever that is.
resolveExternalCallbackUrl(u) ==
  IF u = "local" /\ PublicBaseUrl # None THEN PublicBaseUrl ELSE u

\* Absent URLs, and the default notification URL, are not local.
PublicCallbackUrls(b) ==
  \A u \in DOMAIN b.urls : resolveExternalCallbackUrl(b.urls[u]) # "local"

\* Only authorize can take the server-to-server flow; there an omitted method
\* or type counts as CREDITCARD, RESERVE.
shouldUseReserveDoTransaction(flow, b) ==
  /\ flow = "authorize"
  /\ b.method \in {None, "CREDITCARD"} /\ b.type \in {None, "RESERVE"}
  /\ AsksDoTransaction(b)

\* The page of the redirect flow needs its URLs; a card needs them for a challenge.
SetTransactionAccepts(b) == HasRedirectUrls(b) /\ PublicCallbackUrls(b)
DoTransactionAccepts(b) ==
  /\ Secure3d(b) => HasRedirectUrls(b)
  /\ PublicCallbackUrls(b)
  /\ CardFields \subseteq Keys(b)

PayuAccepts(flow, b) ==
  IF shouldUseReserveDoTransaction(flow, b) THEN DoTransactionAccepts(b)
  ELSE SetTransactionAccepts(b)

\* Peach, PayFast and Stitch check nothing of their own.
Accepts(p, flow, b) ==
  /\ p = "PAYU" => PayuAccepts(flow, b)
  /\ p = "PAYFLEX" => HasPayflexFields(b)

-----------------------------------------------------------------------------

\* The schema judges a body by what it spells out: the provider or a method,
\* PAYFLEX as the method when PayFlex is to be asked, the method and type of a
\* DO_TRANSACTION, and it does not know which callback URLs are public.
SpelledOut(p, flow, b) ==
  /\ p = "PAYU" =>
       /\ b.provider = "PAYU" \/ b.method # None
       /\ shouldUseReserveDoTransaction(flow, b) <=> isPayuS2SDoTransactionFlow(b)
       /\ PublicCallbackUrls(b)
  /\ p = "PAYFLEX" => b.method = "PAYFLEX"

=============================================================================
