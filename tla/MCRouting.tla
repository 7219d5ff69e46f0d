----------------------------- MODULE MCRouting -----------------------------
(* One payment while two other requests change the configuration, from     *)
(* stores with and without the merchant, its credentials and its rules.    *)
EXTENDS Routing, TLC

CONSTANTS pay, q1, q2, k1, k2

Rule(m, p, n, method, on) ==
  [merchant |-> m, provider |-> p, priority |-> n, enabled |-> on,
   method |-> method, currency |-> None]

Store(a, c, f, g) ==
  [merchants |-> "acme" :> a @@ "beta" :> {"old"}, credentials |-> c,
   rules |-> k1 :> f @@ k2 :> g @@ pay :> NoRule @@ q1 :> NoRule @@ q2 :> NoRule]
PayuRule == Rule("acme", "PAYU", 1, None, TRUE)
PayflexRule == Rule("acme", "PAYFLEX", 0, "PAYFLEX", TRUE)
BetaRule == Rule("beta", "PAYU", 0, None, TRUE)

\* Credentials may precede their merchant, rules may not.
Stores ==
  LET Creds == SUBSET ({"acme"} \X {"PAYU", "PAYFLEX"}) IN
  {Store({}, c, NoRule, g) : c \in Creds, g \in {NoRule, BetaRule}}
  \cup {Store({"old"}, c, f, g) : c \in Creds, f \in {NoRule, PayuRule},
                                 g \in {NoRule, PayflexRule, BetaRule}}
FullStore ==
  Store({"old"}, {"acme"} \X {"PAYU", "PAYFLEX"}, PayuRule, Rule("acme", "PAYFLEX", 1, None, TRUE))

Names == {"firstName", "lastName", "mobile", "email"}
Aliased == {"givenNames", "surname", "phoneNumber", "email"}
S2S == {"payuAuthorizeFlow"} \cup Names \cup CardFields
Both(x, y) == [returnUrl |-> x, cancelUrl |-> y]

\* Every mix of the parts that the schema and the adapters look at ...
Bodies ==
  [provider : {None, "PAYU", "PAYFLEX"}, merchant : {None, "acme"}, currency : {"ZAR"},
   method : {None, "CREDITCARD", "PAYFLEX"}, type : {None, "RESERVE"},
   urls : {Both(None, None), Both("public", None), Both("public", "public"), Both("local", "public")},
   metadata : {{}} \cup {{k} : k \in {Names, Aliased, {"payuAuthorizeFlow"}, S2S,
                                      S2S \cup {"secure3d"}}}]
\* ... and the ones that differ in how they are routed.
Routed ==
  {b \in Bodies : /\ b.merchant = "acme" /\ b.urls = Both("public", "public")
                  /\ b.type = None /\ b.metadata = {Names} /\ b.provider # "PAYU"
                  /\ b.method \in {"CREDITCARD", "PAYFLEX"}}

Payments(flows, bodies) == [kind : {"payment"}, flow : flows, body : bodies]
Creates(ms) == [kind : {"createMerchant"}, merchant : ms]
Writes ==
  Creates({"acme"})
  \cup [kind : {"registerProvider"}, merchant : {"acme"}, provider : {"PAYFLEX"},
        credentialsGiven : BOOLEAN]
  \cup [kind : {"upsertRule"}, id : {None, k1},
        rule : {Rule("acme", "PAYFLEX", 0, None, TRUE), Rule("acme", "PAYU", 2, None, FALSE)}]
  \cup [kind : {"upsertRule"}, id : {k2}, rule : {Rule("acme", "PAYU", 2, "CREDITCARD", TRUE)}]
Requested(p, x, y) == pay :> p @@ q1 :> x @@ q2 :> y

MCCases ==
  [store : Stores,
   input : {Requested(p, x, y) : p \in Payments({"payment"}, Routed), x \in Writes, y \in Writes}]
  \cup [store : {FullStore},
        input : {Requested(p, x, x) : p \in Payments({"payment", "authorize"}, Bodies),
                                      x \in Creates({"beta"})}]

=============================================================================
