---------------------------- MODULE RoutingProofs ----------------------------
(***************************************************************************)
(* Proofs about Routing, for any number of requests, merchants, rules and  *)
(* credentials, and any configuration they start from.                     *)
(*                                                                         *)
(* The heart is Covers: of the rules that stand throughout, every one is   *)
(* either a candidate already or still in the list to be looked at.        *)
(***************************************************************************)
EXTENDS Routing, FiniteSetTheorems, TLAPS

-----------------------------------------------------------------------------
(* The invariant                                                           *)

LabelsOf(kind) ==
  {"idle", "done"} \cup
  {l \in {"findMerchant", "createMerchant"} : kind = "createMerchant"} \cup
  {l \in {"upsertCredential"} : kind = "registerProvider"} \cup
  {l \in {"findRuleMerchant", "upsertRule"} : kind = "upsertRule"} \cup
  {l \in {"findRouted", "listRules", "getCredential", "explicit"} : kind = "payment"}

\* The variables are functions of the requests; rules and inputs have their type.
Shape ==
  /\ DOMAIN pc = Requests /\ DOMAIN left = Requests /\ DOMAIN candidates = Requests
  /\ DOMAIN answer = Requests /\ DOMAIN disturbed = Requests
  /\ DOMAIN merchants = Merchants
  /\ rules \in [RuleIds -> Rules \cup {NoRule}]
  /\ \A r \in Requests :
       /\ input[r].kind \in {"createMerchant", "registerProvider", "upsertRule", "payment"}
       /\ input[r].kind = "createMerchant" => input[r].merchant \in Merchants
       /\ input[r].kind = "upsertRule" =>
            input[r].rule \in Rules /\ input[r].id \in RuleIds \cup {None}
       /\ input[r].kind = "payment" => input[r].body.provider \in Providers \cup {None}
       /\ pc[r] \in LabelsOf(input[r].kind)
       /\ pc[r] # "done" => answer[r] = None

\* At most one document per identifier, and it is what registrations are told.
Registered ==
  /\ \A m \in Merchants : \A d, e \in merchants[m] : d = e
  /\ \A r \in Requests :
       input[r].kind = "createMerchant" /\ answer[r] \notin {None, "error"}
         => answer[r] \in merchants[input[r].merchant]

\* Entries of the lists: a rule of the payment's merchant, as it was when listed.
Entries(b) ==
  {e \in [id : RuleIds, rule : Rules] : e.rule.merchant = b.merchant /\ Matches(e.rule, b)}

Sorted(c) == \A i, j \in DOMAIN c : i < j => Before(c[i], c[j])

\* A candidate list as executeInitialFlow reads it: the providers to ask.
ProvidersOf(c) == [i \in DOMAIN c |-> c[i].rule.provider]

Covers(r, c, rest) ==
  \A id \in Standing(r) :
    \/ \E i \in DOMAIN c : c[i].id = id
    \/ \E i \in DOMAIN rest : rest[i] = [id |-> id, rule |-> rules[id]]

\* The lists of r while it resolves its candidates.
Listing(r, c, rest) ==
  LET b == input[r].body IN
  /\ c \in Seq(Entries(b)) /\ rest \in Seq(Entries(b))
  /\ Sorted(c) /\ Sorted(rest)
  /\ \A i \in DOMAIN c, j \in DOMAIN rest : Before(c[i], rest[j])
  /\ \A i \in DOMAIN c : <<b.merchant, c[i].rule.provider>> \in credentials
  /\ Covers(r, c, rest)

\* What RoutedByStandingRules says of r.
RightlyRouted(r) ==
  LET b == input[r].body
      c == candidates[r]
      byRule == {c[i].id : i \in DOMAIN c} \ {None}
  IN
  /\ Standing(r) \subseteq byRule
  /\ Sorted(c)
  /\ c # <<>> /\ ProvidersOf(c) \in Seq(Providers)
  /\ DOMAIN c = {1} \/ \A i \in DOMAIN c : c[i].id \in RuleIds
  /\ \A i \in DOMAIN c :
       /\ b.merchant # None => <<b.merchant, c[i].rule.provider>> \in credentials
       /\ c[i].id # None => c[i].rule.merchant = b.merchant /\ Matches(c[i].rule, b)
       /\ c[i].id = None => Applicable(r) = {} /\ c[i].rule.provider = b.provider

Local(r) ==
  input[r].kind = "payment" =>
    /\ pc[r] # "idle" /\ answer[r] # "invalid" => Valid(input[r].body)
    /\ pc[r] \in {"idle", "findRouted", "listRules", "explicit"} => candidates[r] = <<>>
    /\ pc[r] = "explicit" => Applicable(r) = {}
    /\ pc[r] = "getCredential" => /\ left[r] # <<>>
                                  /\ Listing(r, candidates[r], left[r])
    /\ answer[r] = "routed" => RightlyRouted(r)

IInv == Shape /\ Registered /\ \A r \in Requests : Local(r)

-----------------------------------------------------------------------------
(* The schema and the adapters                                             *)

\* A valid body that spells out what it wants is accepted by every adapter.
LEMMA ValidIsAccepted ==
  ASSUME NEW p, NEW flow, NEW b, Valid(b), SpelledOut(p, flow, b)
  PROVE  Accepts(p, flow, b)
<1>1. ASSUME p = "PAYU"
      PROVE  PayuAccepts(flow, b)
  <2>1. PublicCallbackUrls(b)
    BY <1>1 DEF SpelledOut
  <2>2. CASE shouldUseReserveDoTransaction(flow, b)
    <3>1. isPayuS2SDoTransactionFlow(b)
      BY <1>1, <2>2 DEF SpelledOut
    <3>2. S2SCardFields \subseteq Keys(b) /\ (Secure3d(b) => HasRedirectUrls(b))
      BY <3>1 DEF Valid, requiresMerchantRedirectUrls
    <3>. QED  BY <2>1, <2>2, <3>2 DEF PayuAccepts, DoTransactionAccepts, S2SCardFields
  <2>3. CASE ~shouldUseReserveDoTransaction(flow, b)
    <3>1. requiresMerchantRedirectUrls(b)
      BY <1>1, <2>3 DEF SpelledOut, requiresMerchantRedirectUrls
    <3>. QED  BY <2>1, <2>3, <3>1 DEF PayuAccepts, SetTransactionAccepts, Valid
  <2>. QED  BY <2>2, <2>3
<1>2. p = "PAYFLEX" => HasPayflexFields(b)
  BY DEF Valid, SpelledOut
<1>. QED  BY <1>1, <1>2 DEF Accepts

-----------------------------------------------------------------------------
(* Lists                                                                   *)

\* A rule of a payment's merchant that applies to it, with its id, is an entry.
FilteredRules(r) ==
  LET b == input[r].body IN
  {id \in Stored : rules[id].merchant = b.merchant /\ rules[id].enabled /\ Matches(rules[id], b)}

\* An order of the filtered rules names each of them.
LEMMA ByPriorityIsComplete ==
  ASSUME NEW ids \in SUBSET RuleIds, NEW s \in ByPriority(ids)
  PROVE  /\ Cardinality(ids) \in Nat /\ DOMAIN s = 1..Cardinality(ids)
         /\ \A i \in DOMAIN s : s[i] \in ids
         /\ \A id \in ids : \E i \in DOMAIN s : s[i] = id
         /\ \A i, j \in DOMAIN s : i < j =>
              s[i] # s[j] /\ rules[s[i]].priority <= rules[s[j]].priority
<1> DEFINE n == Cardinality(ids)
<1>1. IsFiniteSet(ids) /\ n \in Nat
  BY RoutingAssumption, FS_Subset, FS_CardinalityType
<1>2. s \in [1..n -> ids] /\ \A i, j \in 1..n : i < j => s[i] # s[j]
  BY DEF ByPriority
<1>3. IsFiniteSet(1..n) /\ Cardinality(1..n) = n
  BY <1>1, FS_Interval
<1>. HIDE DEF n
<1>4. s \in Injection(1..n, ids)
  <2>1. \A i, j \in 1..n : s[i] = s[j] => i = j
    <3>. SUFFICES ASSUME NEW i \in 1..n, NEW j \in 1..n, s[i] = s[j], i # j
                  PROVE  FALSE
      OBVIOUS
    <3>1. i < j \/ j < i
      BY <1>1
    <3>. QED  BY <1>2, <3>1
  <2>. QED  BY <1>2, <2>1 DEF Injection, IsInjective
<1>5. s \in Surjection(1..n, ids)
  BY <1>1, <1>3, <1>4, FS_Injection DEF n
<1>6. \A id \in ids : \E i \in 1..n : s[i] = id
  BY <1>5 DEF Surjection
<1>. QED  BY <1>1, <1>2, <1>6 DEF ByPriority, n

LEMMA StandingApplies ==
  ASSUME NEW r \in Requests
  PROVE  Standing(r) \subseteq Applicable(r) /\ Applicable(r) \subseteq FilteredRules(r)
         /\ FilteredRules(r) \in SUBSET RuleIds
BY DEF Standing, Applicable, FilteredRules, Stored

-----------------------------------------------------------------------------
(* What a write leaves to the payments that are being routed               *)

\* Rules and credentials change only where that is noted for whoever is underway.
WritesDisturb ==
  /\ credentials \subseteq credentials'
  /\ \A q \in Requests : pc[q] # "idle" =>
       /\ disturbed[q] \subseteq disturbed'[q]
       /\ \A id \in RuleIds : <<id>> \notin disturbed'[q] => rules'[id] = rules[id]
       /\ \A c \in credentials' \ credentials : c \in disturbed'[q]

OnlyOwn(r) ==
  /\ input' = input
  /\ \A q \in Requests \ {r} : /\ pc'[q] = pc[q] /\ left'[q] = left[q]
                               /\ candidates'[q] = candidates[q] /\ answer'[q] = answer[q]

\* No rule begins to stand while a payment is routed.
LEMMA StandingShrinks ==
  ASSUME WritesDisturb, input' = input, NEW q \in Requests, pc[q] # "idle"
  PROVE  /\ Applicable(q)' \subseteq Applicable(q)
         /\ Standing(q)' \subseteq Standing(q)
         /\ \A id \in Standing(q)' : rules'[id] = rules[id]
<1>1. ASSUME NEW id \in Applicable(q)'
      PROVE  id \in Applicable(q) /\ rules'[id] = rules[id]
  BY <1>1 DEF Applicable, Stored, WritesDisturb
<1>2. ASSUME NEW id \in Standing(q)'
      PROVE  id \in Standing(q) /\ rules'[id] = rules[id]
  <2>1. id \in Applicable(q)' /\ id \in Applicable(q) /\ rules'[id] = rules[id]
    BY <1>1, <1>2 DEF Standing
  <2>2. <<input[q].body.merchant, rules[id].provider>> \in credentials' \ disturbed'[q]
    BY <1>2, <2>1 DEF Standing
  <2>3. <<input[q].body.merchant, rules[id].provider>> \in credentials \ disturbed[q]
    BY <2>2 DEF WritesDisturb
  <2>. QED  BY <2>1, <2>3 DEF Standing
<1>. QED  BY <1>1, <1>2

\* Hence lists that covered the standing rules do, and what was routed rightly is.
LEMMA OthersKeep ==
  ASSUME IInv, WritesDisturb, NEW r \in Requests, OnlyOwn(r), NEW q \in Requests \ {r}
  PROVE  Local(q)'
<1>. SUFFICES ASSUME input[q].kind = "payment"
              PROVE  Local(q)'
  BY DEF Local, OnlyOwn
<1>1. /\ pc'[q] = pc[q] /\ left'[q] = left[q] /\ input' = input
      /\ candidates'[q] = candidates[q] /\ answer'[q] = answer[q]
  BY DEF OnlyOwn
<1>2. Local(q) /\ (pc[q] # "done" => answer[q] = None)
  BY DEF IInv, Shape
<1>3. CASE pc[q] = "idle"
  BY <1>1, <1>2, <1>3 DEF Local, None
<1>4. CASE pc[q] # "idle"
  <2>1. /\ Applicable(q)' \subseteq Applicable(q) /\ Standing(q)' \subseteq Standing(q)
        /\ credentials \subseteq credentials'
    BY <1>1, <1>4, StandingShrinks DEF WritesDisturb
  <2>2. RightlyRouted(q) => RightlyRouted(q)'
    BY <1>1, <2>1 DEF RightlyRouted, Sorted
  <2>3. Listing(q, candidates[q], left[q]) => Listing(q, candidates[q], left[q])'
    <3> DEFINE c == candidates[q]
               rest == left[q]
    <3>1. ASSUME Listing(q, c, rest)
          PROVE  /\ Covers(q, candidates[q], left[q])'
                 /\ \A i \in DOMAIN c : <<input[q].body.merchant, c[i].rule.provider>>
                                          \in credentials'
      <4>1. Standing(q)' \subseteq Standing(q) /\ \A id \in Standing(q)' : rules'[id] = rules[id]
        BY <1>1, <1>4, StandingShrinks
      <4>2. ASSUME NEW id \in Standing(q)'
            PROVE  \/ \E i \in DOMAIN c : c[i].id = id
                   \/ \E i \in DOMAIN rest : rest[i] = [id |-> id, rule |-> rules'[id]]
        BY <3>1, <4>1 DEF Listing, Covers
      <4>. QED  BY <1>1, <2>1, <3>1, <4>2 DEF Listing, Covers
    <3>. QED  BY <1>1, <3>1 DEF Listing, Sorted, Entries
  <2>. QED  BY <1>1, <1>2, <2>1, <2>2, <2>3 DEF Local
<1>. QED  BY <1>3, <1>4

LEMMA FrameKeeps ==
  ASSUME IInv, NEW r \in Requests, OnlyOwn(r), WritesDisturb, Shape', Registered', Local(r)'
  PROVE  IInv'
BY OthersKeep DEF IInv

-----------------------------------------------------------------------------
(* The actions                                                             *)

\* A step that writes no store leaves what applies and what stands alone.
LEMMA QuietKeeps ==
  ASSUME Quiet, NEW r \in Requests
  PROVE  /\ WritesDisturb /\ Applicable(r)' = Applicable(r) /\ Standing(r)' = Standing(r)
         /\ FilteredRules(r)' = FilteredRules(r)
BY DEF Quiet, stores, WritesDisturb, Applicable, Standing, FilteredRules, Stored

\* What a step of r leaves of the shape, and of the registrations, when it writes
\* no store and gives a registration no answer it should not have.
LEMMA QuietShape ==
  ASSUME IInv, Quiet, NEW r \in Requests, OnlyOwn(r),
         DOMAIN pc' = Requests, DOMAIN left' = Requests,
         DOMAIN candidates' = Requests, DOMAIN answer' = Requests,
         pc'[r] \in LabelsOf(input[r].kind), pc'[r] # "done" => answer'[r] = None,
         input[r].kind = "createMerchant" /\ answer'[r] \notin {None, "error"}
           => answer'[r] \in merchants[input[r].merchant]
  PROVE  Shape' /\ Registered'
<1>1. /\ merchants' = merchants /\ rules' = rules /\ input' = input /\ disturbed' = disturbed
      /\ \A q \in Requests \ {r} : pc'[q] = pc[q] /\ answer'[q] = answer[q]
  BY DEF Quiet, stores, OnlyOwn
<1>2. Shape'
  BY <1>1 DEF IInv, Shape
<1>3. Registered'
  BY <1>1 DEF IInv, Registered
<1>. QED  BY <1>2, <1>3

\* A failing query ends its request and leaves every list as it was.
LEMMA FaultKeeps ==
  ASSUME IInv, NEW r \in Requests, Fault(r), Quiet, pc[r] \notin {"idle", "done"}
  PROVE  IInv'
<1>1. /\ pc' = [pc EXCEPT ![r] = "done"] /\ answer' = [answer EXCEPT ![r] = "error"]
      /\ left' = left /\ candidates' = candidates /\ input' = input
  BY DEF Fault, Answer, Goto, Quiet
<1>2. DOMAIN pc = Requests /\ DOMAIN left = Requests /\ DOMAIN candidates = Requests
      /\ DOMAIN answer = Requests
  BY DEF IInv, Shape
<1>3. OnlyOwn(r) /\ pc'[r] = "done" /\ answer'[r] = "error"
  BY <1>1, <1>2 DEF OnlyOwn
<1>4. Shape' /\ Registered'
  <2>1. "done" \in LabelsOf(input[r].kind)
    BY DEF LabelsOf
  <2>. QED  BY <1>1, <1>2, <1>3, <2>1, QuietShape
<1>5. Local(r)'
  <2>1. answer[r] = None /\ Local(r)
    BY DEF IInv, Shape
  <2>2. input[r].kind = "payment" => Valid(input[r].body)
    BY <2>1 DEF Local, None
  <2>. QED  BY <1>1, <1>3, <2>2 DEF Local
<1>. QED  BY <1>3, <1>4, <1>5, QuietKeeps, FrameKeeps

LEMMA ReceiveKeeps ==
  ASSUME IInv, NEW r \in Requests, Receive(r)
  PROVE  IInv'
<1>1. /\ Quiet /\ left' = left /\ candidates' = candidates /\ input' = input /\ pc[r] = "idle"
      /\ Shape /\ Local(r)
  BY DEF Receive, Quiet, IInv
<1>2. \/ /\ pc' = [pc EXCEPT ![r] = "done"] /\ answer' = [answer EXCEPT ![r] = "invalid"]
         /\ input[r].kind \in {"registerProvider", "payment"}
      \/ /\ answer' = answer
         /\ \/ input[r].kind = "createMerchant" /\ pc' = [pc EXCEPT ![r] = "findMerchant"]
            \/ input[r].kind = "registerProvider" /\ pc' = [pc EXCEPT ![r] = "upsertCredential"]
            \/ input[r].kind = "upsertRule" /\ pc' = [pc EXCEPT ![r] = "findRuleMerchant"]
            \/ /\ input[r].kind = "payment" /\ Valid(input[r].body)
               /\ \/ input[r].body.merchant = None /\ pc' = [pc EXCEPT ![r] = "explicit"]
                  \/ pc' = [pc EXCEPT ![r] = "findRouted"]
  BY <1>1 DEF Receive, Answer, Goto, Shape
<1>3. OnlyOwn(r)
  BY <1>1, <1>2 DEF OnlyOwn, Shape
<1>4. Shape' /\ Registered'
  BY <1>1, <1>2, <1>3, QuietShape DEF Shape, LabelsOf, None
<1>5. Local(r)'
  <2>1. input[r].body.merchant = None => Applicable(r) = {}
    <3>1. \A id \in Stored : rules[id].merchant \in Merchants
      BY <1>1 DEF Shape, Stored, Rules
    <3>. QED  BY <3>1, RoutingAssumption DEF Applicable
  <2>2. input[r].kind = "payment" => candidates[r] = <<>> /\ answer[r] = None
    BY <1>1 DEF Local, Shape
  <2>. QED  BY <1>1, <1>2, <2>1, <2>2, QuietKeeps DEF Local, Shape, None
<1>. QED  BY <1>1, <1>3, <1>4, <1>5, QuietKeeps, FrameKeeps

LEMMA FindMerchantKeeps ==
  ASSUME IInv, NEW r \in Requests, FindMerchant(r)
  PROVE  IInv'
<1>1. Quiet /\ pc[r] = "findMerchant" /\ input' = input /\ Shape
  BY DEF FindMerchant, Quiet, IInv
<1>2. CASE Fault(r)
  BY <1>1, <1>2, FaultKeeps
<1>3. CASE UNCHANGED <<left, candidates, faults>>
           /\ \/ Goto(r, "createMerchant") /\ UNCHANGED answer
              \/ \E d \in merchants[input[r].merchant] : Answer(r, d)
  <2>1. /\ left' = left /\ candidates' = candidates
        /\ \/ pc' = [pc EXCEPT ![r] = "createMerchant"] /\ answer' = answer
           \/ \E d \in merchants[input[r].merchant] :
                pc' = [pc EXCEPT ![r] = "done"] /\ answer' = [answer EXCEPT ![r] = d]
    BY <1>3 DEF Answer, Goto
  <2>2. OnlyOwn(r) /\ input[r].kind = "createMerchant"
    BY <1>1, <2>1 DEF OnlyOwn, Shape, LabelsOf
  <2>3. Shape' /\ Registered'
    BY <1>1, <2>1, <2>2, QuietShape DEF Shape, LabelsOf
  <2>4. Local(r)'
    BY <1>1, <2>2 DEF Local
  <2>. QED  BY <1>1, <2>2, <2>3, <2>4, QuietKeeps, FrameKeeps
<1>. QED  BY <1>2, <1>3 DEF FindMerchant

LEMMA FindRuleMerchantKeeps ==
  ASSUME IInv, NEW r \in Requests, FindRuleMerchant(r)
  PROVE  IInv'
<1>1. Quiet /\ pc[r] = "findRuleMerchant" /\ input' = input /\ Shape
  BY DEF FindRuleMerchant, Quiet, IInv
<1>2. CASE Fault(r)
  BY <1>1, <1>2, FaultKeeps
<1>3. CASE UNCHANGED <<left, candidates, faults>>
           /\ \/ Goto(r, "upsertRule") /\ UNCHANGED answer
              \/ Answer(r, "error")
  <2>1. /\ left' = left /\ candidates' = candidates
        /\ \/ pc' = [pc EXCEPT ![r] = "upsertRule"] /\ answer' = answer
           \/ pc' = [pc EXCEPT ![r] = "done"] /\ answer' = [answer EXCEPT ![r] = "error"]
    BY <1>3 DEF Answer, Goto
  <2>2. OnlyOwn(r) /\ input[r].kind = "upsertRule"
    BY <1>1, <2>1 DEF OnlyOwn, Shape, LabelsOf
  <2>3. Shape' /\ Registered'
    BY <1>1, <2>1, <2>2, QuietShape DEF Shape, LabelsOf
  <2>4. Local(r)'
    BY <1>1, <2>2 DEF Local
  <2>. QED  BY <1>1, <2>2, <2>3, <2>4, QuietKeeps, FrameKeeps
<1>. QED  BY <1>2, <1>3 DEF FindRuleMerchant

LEMMA FindRoutedKeeps ==
  ASSUME IInv, NEW r \in Requests, FindRouted(r)
  PROVE  IInv'
<1>1. Quiet /\ pc[r] = "findRouted" /\ input' = input /\ Shape /\ Local(r)
  BY DEF FindRouted, Quiet, IInv
<1>2. CASE Fault(r)
  BY <1>1, <1>2, FaultKeeps
<1>3. CASE UNCHANGED <<left, candidates, faults>>
           /\ \/ Goto(r, "listRules") /\ UNCHANGED answer
              \/ Answer(r, "error")
  <2>1. /\ left' = left /\ candidates' = candidates
        /\ \/ pc' = [pc EXCEPT ![r] = "listRules"] /\ answer' = answer
           \/ pc' = [pc EXCEPT ![r] = "done"] /\ answer' = [answer EXCEPT ![r] = "error"]
    BY <1>3 DEF Answer, Goto
  <2>2. OnlyOwn(r) /\ input[r].kind = "payment"
    BY <1>1, <2>1 DEF OnlyOwn, Shape, LabelsOf
  <2>3. Shape' /\ Registered'
    BY <1>1, <2>1, <2>2, QuietShape DEF Shape, LabelsOf
  <2>4. Local(r)'
    BY <1>1, <2>1, <2>2 DEF Local, Shape, None
  <2>. QED  BY <1>1, <2>2, <2>3, <2>4, QuietKeeps, FrameKeeps
<1>. QED  BY <1>2, <1>3 DEF FindRouted

LEMMA CreateMerchantKeeps ==
  ASSUME IInv, NEW r \in Requests, CreateMerchant(r)
  PROVE  IInv'
<1> DEFINE m == input[r].merchant
<1>1. /\ pc[r] = "createMerchant" /\ Shape /\ Registered /\ input' = input
      /\ credentials' = credentials /\ rules' = rules /\ disturbed' = disturbed
  BY DEF CreateMerchant, IInv
<1>2. /\ pc' = [pc EXCEPT ![r] = "done"] /\ left' = left /\ candidates' = candidates
      /\ \/ /\ merchants' = merchants /\ answer' = [answer EXCEPT ![r] = "error"]
         \/ /\ merchants[m] = {} /\ merchants' = [merchants EXCEPT ![m] = {r}]
            /\ answer' \in {[answer EXCEPT ![r] = r], [answer EXCEPT ![r] = "error"]}
  BY DEF CreateMerchant, Existing, Fault, Answer, Goto
<1>3. OnlyOwn(r) /\ input[r].kind = "createMerchant" /\ m \in Merchants
  BY <1>1, <1>2 DEF OnlyOwn, Shape, LabelsOf
<1>4. Shape'
  BY <1>1, <1>2 DEF Shape, LabelsOf
<1>5. Registered'
  <2>1. \A x \in Merchants : \A d, e \in merchants'[x] : d = e
    BY <1>1, <1>2, <1>3 DEF Registered, Shape
  <2>2. ASSUME NEW q \in Requests, input[q].kind = "createMerchant",
               answer'[q] \notin {None, "error"}
        PROVE  answer'[q] \in merchants'[input[q].merchant]
    <3>1. CASE q = r
      BY <1>1, <1>2, <1>3, <2>2, <3>1 DEF Shape
    <3>2. CASE q # r
      <4>1. answer'[q] = answer[q]
        BY <1>3, <3>2 DEF OnlyOwn
      <4>2. answer[q] \in merchants[input[q].merchant] /\ input[q].merchant \in Merchants
        BY <1>1, <2>2, <4>1 DEF Registered, Shape
      <4>. QED  BY <1>1, <1>2, <4>1, <4>2 DEF Shape
    <3>. QED  BY <3>1, <3>2
  <2>. QED  BY <1>1, <2>1, <2>2 DEF Registered
<1>6. Local(r)' /\ WritesDisturb
  BY <1>1, <1>3 DEF Local, WritesDisturb
<1>. QED  BY <1>3, <1>4, <1>5, <1>6, FrameKeeps

LEMMA UpsertCredentialKeeps ==
  ASSUME IInv, NEW r \in Requests, UpsertCredential(r)
  PROVE  IInv'
<1> DEFINE c == <<input[r].merchant, input[r].provider>>
<1>1. /\ pc[r] = "upsertCredential" /\ Shape /\ Registered /\ input' = input
      /\ merchants' = merchants /\ rules' = rules
  BY DEF UpsertCredential, IInv
<1>2. /\ pc' = [pc EXCEPT ![r] = "done"] /\ left' = left /\ candidates' = candidates
      /\ answer' \in {[answer EXCEPT ![r] = "registered"], [answer EXCEPT ![r] = "error"]}
      /\ \/ credentials' = credentials /\ disturbed' = disturbed
         \/ credentials' = credentials \cup {c} /\ Disturb(c)
  BY DEF UpsertCredential, Fault, Answer, Goto
<1>3. OnlyOwn(r) /\ input[r].kind = "registerProvider"
  BY <1>1, <1>2 DEF OnlyOwn, Shape, LabelsOf
<1>4. Shape'
  <2>1. DOMAIN disturbed' = Requests
    BY <1>1, <1>2 DEF Disturb, Shape
  <2>. QED  BY <1>1, <1>2, <2>1 DEF Shape, LabelsOf
<1>5. Registered'
  BY <1>1, <1>3 DEF Registered, OnlyOwn
<1>6. WritesDisturb
  <2>1. CASE credentials' = credentials /\ disturbed' = disturbed
    BY <1>1, <2>1 DEF WritesDisturb
  <2>2. CASE credentials' = credentials \cup {c} /\ Disturb(c)
    <3>1. \A q \in Requests : pc[q] # "idle" => disturbed'[q] = disturbed[q] \cup {c}
      BY <2>2 DEF Disturb
    <3>. HIDE DEF c
    <3>. QED  BY <1>1, <2>2, <3>1 DEF WritesDisturb
  <2>. QED  BY <1>2, <2>1, <2>2
<1>7. Local(r)'
  BY <1>1, <1>3 DEF Local
<1>. QED  BY <1>3, <1>4, <1>5, <1>6, <1>7, FrameKeeps

LEMMA UpsertRuleKeeps ==
  ASSUME IInv, NEW r \in Requests, UpsertRule(r)
  PROVE  IInv'
<1> DEFINE id == IF input[r].id = None THEN r ELSE input[r].id
<1>1. /\ pc[r] = "upsertRule" /\ Shape /\ Registered /\ input' = input
      /\ merchants' = merchants /\ credentials' = credentials
  BY DEF UpsertRule, IInv
<1>2. /\ pc' = [pc EXCEPT ![r] = "done"] /\ left' = left /\ candidates' = candidates
      /\ answer' \in {[answer EXCEPT ![r] = id], [answer EXCEPT ![r] = "error"]}
      /\ \/ rules' = rules /\ disturbed' = disturbed
         \/ rules' = [rules EXCEPT ![id] = input[r].rule] /\ Disturb(<<id>>)
  BY DEF UpsertRule, Fault, Answer, Goto
<1>3. OnlyOwn(r) /\ input[r].kind = "upsertRule" /\ input[r].rule \in Rules /\ id \in RuleIds
  BY <1>1, <1>2, RoutingAssumption DEF OnlyOwn, Shape, LabelsOf
<1>. HIDE DEF id
<1>4. Shape'
  <2>1. DOMAIN disturbed' = Requests
    BY <1>1, <1>2 DEF Disturb, Shape
  <2>2. rules' \in [RuleIds -> Rules \cup {NoRule}]
    BY <1>1, <1>2, <1>3 DEF Shape
  <2>. QED  BY <1>1, <1>2, <2>1, <2>2 DEF Shape, LabelsOf
<1>5. Registered'
  BY <1>1, <1>3 DEF Registered, OnlyOwn
<1>6. WritesDisturb
  <2>1. CASE rules' = rules /\ disturbed' = disturbed
    BY <1>1, <2>1 DEF WritesDisturb
  <2>2. CASE rules' = [rules EXCEPT ![id] = input[r].rule] /\ Disturb(<<id>>)
    <3>1. \A q \in Requests : pc[q] # "idle" => disturbed'[q] = disturbed[q] \cup {<<id>>}
      BY <2>2 DEF Disturb
    <3>2. \A x \in RuleIds : x # id => rules'[x] = rules[x]
      BY <1>1, <2>2 DEF Shape
    <3>. QED  BY <1>1, <3>1, <3>2 DEF WritesDisturb
  <2>. QED  BY <1>2, <2>1, <2>2
<1>7. Local(r)'
  BY <1>1, <1>3 DEF Local
<1>. QED  BY <1>3, <1>4, <1>5, <1>6, <1>7, FrameKeeps

LEMMA ExplicitKeeps ==
  ASSUME IInv, NEW r \in Requests, Explicit(r)
  PROVE  IInv'
<1> DEFINE b == input[r].body
           accepted == /\ b.provider # None
                       /\ b.merchant # None => <<b.merchant, b.provider>> \in credentials
           asked == [id |-> None, rule |-> [provider |-> b.provider]]
<1>1. Quiet /\ pc[r] = "explicit" /\ input' = input /\ Shape /\ Local(r)
  BY DEF Explicit, Quiet, IInv
<1>2. CASE Fault(r)
  BY <1>1, <1>2, FaultKeeps
<1>3. CASE /\ UNCHANGED <<left, faults>>
           /\ \/ /\ accepted /\ candidates' = [candidates EXCEPT ![r] = <<asked>>]
                 /\ Answer(r, "routed")
              \/ Answer(r, "error") /\ UNCHANGED candidates
  <2>1. /\ left' = left /\ pc' = [pc EXCEPT ![r] = "done"]
        /\ \/ /\ accepted /\ candidates' = [candidates EXCEPT ![r] = <<asked>>]
              /\ answer' = [answer EXCEPT ![r] = "routed"]
           \/ answer' = [answer EXCEPT ![r] = "error"] /\ candidates' = candidates
    BY <1>3 DEF Answer, Goto
  <2>2. OnlyOwn(r) /\ input[r].kind = "payment"
    BY <1>1, <2>1 DEF OnlyOwn, Shape, LabelsOf
  <2>3. Shape' /\ Registered'
    BY <1>1, <2>1, <2>2, QuietShape DEF Shape, LabelsOf
  <2>4. answer'[r] = "routed" => RightlyRouted(r)'
    <3>1. SUFFICES ASSUME answer'[r] = "routed"
                   PROVE  RightlyRouted(r)'
      OBVIOUS
    <3>2. accepted /\ candidates'[r] = <<asked>>
      BY <1>1, <2>1, <3>1 DEF Shape
    <3>3. Applicable(r)' = {} /\ Standing(r)' = {} /\ credentials' = credentials
      BY <1>1, <2>2, QuietKeeps, StandingApplies DEF Local, Quiet, stores
    <3>4. DOMAIN <<asked>> = {1} /\ <<asked>>[1] = asked
      OBVIOUS
    <3>5. asked.id = None /\ asked.rule.provider = b.provider
      OBVIOUS
    <3>6. <<asked>> # <<>> /\ ProvidersOf(<<asked>>) \in Seq(Providers)
      <4>1. b.provider \in Providers
        BY <1>1, <2>2, <3>2 DEF Shape
      <4>2. ProvidersOf(<<asked>>) = <<b.provider>>
        BY <3>4, <3>5 DEF ProvidersOf
      <4>. QED  BY <4>1, <4>2
    <3>. HIDE DEF asked
    <3>. QED  BY <1>1, <3>2, <3>3, <3>4, <3>5, <3>6 DEF RightlyRouted, Sorted
  <2>5. Local(r)'
    BY <1>1, <2>1, <2>2, <2>4 DEF Local, Shape, None
  <2>. QED  BY <1>1, <2>2, <2>3, <2>5, QuietKeeps, FrameKeeps
<1>. QED  BY <1>2, <1>3 DEF Explicit

\* Lists that are right in a store that is not written are right after the step.
LEMMA QuietListing ==
  ASSUME Quiet, NEW r \in Requests, Listing(r, candidates'[r], left'[r])
  PROVE  Listing(r, candidates[r], left[r])'
<1>1. Standing(r)' = Standing(r) /\ rules' = rules /\ credentials' = credentials /\ input' = input
  BY QuietKeeps DEF Quiet, stores
<1>2. Covers(r, candidates[r], left[r])'
  BY <1>1 DEF Listing, Covers
<1>. QED  BY <1>1, <1>2 DEF Listing, Sorted, Entries

LEMMA ListRulesKeeps ==
  ASSUME IInv, NEW r \in Requests, ListRules(r)
  PROVE  IInv'
<1> DEFINE b == input[r].body
           filtered == FilteredRules(r)
           entry(id) == [id |-> id, rule |-> rules[id]]
<1>1. Quiet /\ pc[r] = "listRules" /\ input' = input /\ Shape /\ Local(r)
  BY DEF ListRules, Quiet, IInv
<1>2. CASE Fault(r)
  BY <1>1, <1>2, FaultKeeps
<1>3. CASE ~Fault(r)
  <2>1. PICK s \in ByPriority(filtered) :
          left' = [left EXCEPT ![r] = [i \in DOMAIN s |-> entry(s[i])]]
    BY <1>3 DEF ListRules, FilteredRules
  <2>2. /\ pc' = [pc EXCEPT ![r] = IF filtered # {} THEN "getCredential" ELSE "explicit"]
        /\ candidates' = candidates /\ answer' = answer
    BY <1>3 DEF ListRules, FilteredRules, Goto
  <2>3. OnlyOwn(r) /\ input[r].kind = "payment"
    BY <1>1, <2>1, <2>2 DEF OnlyOwn, Shape, LabelsOf
  <2>4. Shape' /\ Registered'
    <3>1. /\ DOMAIN pc' = Requests /\ DOMAIN left' = Requests /\ DOMAIN candidates' = Requests
          /\ DOMAIN answer' = Requests /\ answer'[r] = None
          /\ pc'[r] \in LabelsOf(input[r].kind)
      BY <1>1, <2>1, <2>2, <2>3 DEF Shape, LabelsOf
    <3>. QED  BY <1>1, <2>3, <3>1, QuietShape
  <2> DEFINE rest == [i \in DOMAIN s |-> entry(s[i])]
  <2>5. /\ filtered \in SUBSET RuleIds /\ Applicable(r) \subseteq filtered
        /\ Standing(r) \subseteq filtered
    BY StandingApplies
  <2>6. /\ Cardinality(filtered) \in Nat /\ DOMAIN s = 1..Cardinality(filtered)
        /\ \A i \in DOMAIN s : s[i] \in filtered
        /\ \A id \in filtered : \E i \in DOMAIN s : s[i] = id
        /\ \A i, j \in DOMAIN s : i < j =>
             s[i] # s[j] /\ rules[s[i]].priority <= rules[s[j]].priority
    BY <2>1, <2>5, ByPriorityIsComplete
  <2>7. \A id \in filtered : entry(id) \in Entries(b)
    BY <1>1, <2>5 DEF FilteredRules, Entries, Shape, Stored
  <2>8. rest \in Seq(Entries(b)) /\ DOMAIN rest = DOMAIN s
    BY <2>6, <2>7
  <2>9. Listing(r, <<>>, rest)
    <3>1. Sorted(rest)
      BY <2>6, <2>8 DEF Sorted, Before
    <3>2. Covers(r, <<>>, rest)
      BY <2>5, <2>6, <2>8 DEF Covers
    <3>3. Sorted(<<>>) /\ <<>> \in Seq(Entries(b)) /\ DOMAIN <<>> = {}
      BY DEF Sorted
    <3>. HIDE DEF rest
    <3>. QED  BY <2>8, <3>1, <3>2, <3>3 DEF Listing
  <2>10. filtered # {} => rest # <<>>
    BY <2>6, <2>8
  <2>11. Local(r)'
    <3>. HIDE DEF rest
    <3>1. left'[r] = rest /\ candidates'[r] = <<>> /\ answer'[r] = None /\ pc[r] # "idle"
      BY <1>1, <2>1, <2>2, <2>3 DEF Shape, Local, rest
    <3>2. pc'[r] = IF filtered # {} THEN "getCredential" ELSE "explicit"
      BY <1>1, <2>2 DEF Shape
    <3>3. Valid(input[r].body)
      BY <1>1, <2>2, <2>3, <3>1 DEF Local, None
    <3>5. Listing(r, candidates[r], left[r])'
      BY <1>1, <2>9, <3>1, QuietListing
    <3>6. filtered = {} => Applicable(r)' = {}
      BY <1>1, <2>5, QuietKeeps
    <3>. HIDE DEF filtered
    <3>. QED  BY <1>1, <2>10, <3>1, <3>2, <3>3, <3>5, <3>6 DEF Local, None
  <2>. QED  BY <1>1, <2>3, <2>4, <2>11, QuietKeeps, FrameKeeps
<1>. QED  BY <1>2, <1>3

\* Looking at the next rule keeps the lists right, whether or not it is a candidate.
LEMMA ListingAdvances ==
  ASSUME NEW r \in Requests, NEW c, NEW rest, Listing(r, c, rest), rest # <<>>,
         NEW found,
         found = IF <<input[r].body.merchant, Head(rest).rule.provider>> \in credentials
                 THEN Append(c, Head(rest)) ELSE c
  PROVE  Listing(r, found, Tail(rest))
<1> DEFINE b == input[r].body
           next == Head(rest)
           registered == <<b.merchant, next.rule.provider>> \in credentials
<1>1. /\ c \in Seq(Entries(b)) /\ rest \in Seq(Entries(b)) /\ next \in Entries(b)
      /\ next = rest[1] /\ 1 \in DOMAIN rest
  BY DEF Listing
<1>2. /\ Tail(rest) \in Seq(Entries(b))
      /\ \A i \in DOMAIN Tail(rest) : Tail(rest)[i] = rest[i + 1] /\ i + 1 \in DOMAIN rest
                                      /\ 1 < i + 1
      /\ \A i \in DOMAIN rest : i = 1 \/ (i - 1 \in DOMAIN Tail(rest) /\ rest[i] = Tail(rest)[i - 1])
  BY <1>1
<1>3. Sorted(Tail(rest)) /\ \A i \in DOMAIN Tail(rest) :
                               Before(next, Tail(rest)[i])
  <2>1. \A i, j \in DOMAIN Tail(rest) : i < j => i + 1 < j + 1
    BY <1>1
  <2>2. Sorted(rest)
    BY DEF Listing
  <2>. QED  BY <1>1, <1>2, <2>1, <2>2 DEF Sorted
<1>4. CASE ~registered
  <2>1. Covers(r, c, Tail(rest))
    <3>1. ASSUME NEW id \in Standing(r), rest[1] = [id |-> id, rule |-> rules[id]]
          PROVE  FALSE
      <4>1. <<b.merchant, rules[id].provider>> \in credentials
        BY DEF Standing
      <4>. QED  BY <1>1, <1>4, <3>1, <4>1
    <3>2. ASSUME NEW id \in Standing(r), ~\E i \in DOMAIN c : c[i].id = id
          PROVE  \E i \in DOMAIN Tail(rest) : Tail(rest)[i] = [id |-> id, rule |-> rules[id]]
      <4>1. PICK i \in DOMAIN rest : rest[i] = [id |-> id, rule |-> rules[id]]
        BY <3>2 DEF Listing, Covers
      <4>2. i # 1
        BY <3>1, <4>1
      <4>. QED  BY <1>2, <4>1, <4>2
    <3>. QED  BY <3>2 DEF Covers
  <2>. QED  BY <1>2, <1>3, <1>4, <2>1 DEF Listing
<1>5. CASE registered
  <2>1. /\ found \in Seq(Entries(b)) /\ DOMAIN found = 1..(Len(c) + 1) /\ Len(c) \in Nat
        /\ DOMAIN c = 1..Len(c)
        /\ \A i \in DOMAIN c : found[i] = c[i]
        /\ found[Len(c) + 1] = next
    BY <1>1, <1>5
  <2>2. \A i \in DOMAIN found : i \in DOMAIN c \/ i = Len(c) + 1
    BY <2>1
  <2>3. \A i \in DOMAIN c : Before(c[i], next)
    BY <1>1 DEF Listing
  <2>4. Sorted(found)
    <3>1. ASSUME NEW i \in DOMAIN found, NEW j \in DOMAIN found, i < j
          PROVE  Before(found[i], found[j])
      <4>1. i \in DOMAIN c
        BY <2>1, <3>1
      <4>2. CASE j \in DOMAIN c
        BY <2>1, <3>1, <4>1, <4>2 DEF Listing, Sorted
      <4>3. CASE j = Len(c) + 1
        BY <2>1, <2>3, <4>1, <4>3
      <4>. QED  BY <2>2, <4>2, <4>3
    <3>. QED  BY <3>1 DEF Sorted
  <2>5. \A i \in DOMAIN found, j \in DOMAIN Tail(rest) :
          Before(found[i], Tail(rest)[j])
    BY <1>2, <1>3, <2>1, <2>2 DEF Listing
  <2>6. \A i \in DOMAIN found : <<b.merchant, found[i].rule.provider>> \in credentials
    BY <1>5, <2>1, <2>2 DEF Listing
  <2>7. Covers(r, found, Tail(rest))
    <3>1. \A i \in DOMAIN c : i \in DOMAIN found
      BY <2>1
    <3>2. Len(c) + 1 \in DOMAIN found
      BY <2>1
    <3>3. ASSUME NEW id \in Standing(r), ~\E i \in DOMAIN found : found[i].id = id
          PROVE  \E i \in DOMAIN Tail(rest) : Tail(rest)[i] = [id |-> id, rule |-> rules[id]]
      <4>1. ~\E i \in DOMAIN c : c[i].id = id
        BY <2>1, <3>1, <3>3
      <4>2. PICK i \in DOMAIN rest : rest[i] = [id |-> id, rule |-> rules[id]]
        BY <4>1 DEF Listing, Covers
      <4>3. i # 1
        <5>1. next.id # id
          BY <2>1, <3>2, <3>3
        <5>. QED  BY <1>1, <4>2, <5>1
      <4>. QED  BY <1>2, <4>2, <4>3
    <3>. QED  BY <3>3 DEF Covers
  <2>. QED  BY <1>2, <1>3, <2>1, <2>4, <2>5, <2>6, <2>7 DEF Listing
<1>. QED  BY <1>4, <1>5

\* With nothing left to look at, the candidates are as they should be.
LEMMA ListingRoutes ==
  ASSUME Quiet, NEW r \in Requests, Listing(r, candidates'[r], <<>>), candidates'[r] # <<>>
  PROVE  RightlyRouted(r)'
<1>1. /\ Standing(r)' = Standing(r) /\ Applicable(r)' = Applicable(r)
      /\ credentials' = credentials /\ input' = input
  BY QuietKeeps DEF Quiet, stores
<1>2. \A i \in DOMAIN candidates'[r] :
        candidates'[r][i] \in Entries(input[r].body) /\ candidates'[r][i].id \in RuleIds
  BY DEF Listing, Entries
<1>3. \A i \in DOMAIN candidates'[r] : candidates'[r][i].id # None
  BY <1>2, CasesAssumption
<1>4. \A id \in Standing(r) : id # None /\ \E i \in DOMAIN candidates'[r] :
                                              candidates'[r][i].id = id
  <2>1. DOMAIN <<>> = {}
    OBVIOUS
  <2>. QED  BY <1>3, <2>1 DEF Listing, Covers
<1>5. ProvidersOf(candidates'[r]) \in Seq(Providers)
  <2>1. candidates'[r] \in Seq(Entries(input[r].body))
    BY DEF Listing
  <2>2. \A e \in Entries(input[r].body) : e.rule.provider \in Providers
    BY DEF Entries, Rules
  <2>. HIDE DEF Entries
  <2>. QED  BY <2>1, <2>2 DEF ProvidersOf
<1>. QED  BY <1>1, <1>2, <1>3, <1>4, <1>5 DEF RightlyRouted, Listing, Entries, Sorted, ProvidersOf

LEMMA GetCredentialKeeps ==
  ASSUME IInv, NEW r \in Requests, GetCredential(r)
  PROVE  IInv'
<1> DEFINE next == Head(left[r])
           found == IF <<input[r].body.merchant, next.rule.provider>> \in credentials
                    THEN Append(candidates[r], next) ELSE candidates[r]
<1>1. Quiet /\ pc[r] = "getCredential" /\ input' = input /\ Shape /\ Local(r)
  BY DEF GetCredential, Quiet, IInv
<1>2. CASE Fault(r)
  BY <1>1, <1>2, FaultKeeps
<1>3. CASE ~Fault(r)
  <2>1. /\ candidates' = [candidates EXCEPT ![r] = found]
        /\ left' = [left EXCEPT ![r] = Tail(@)]
        /\ \/ Tail(left[r]) # <<>> /\ pc' = pc /\ answer' = answer
           \/ /\ Tail(left[r]) = <<>> /\ pc' = [pc EXCEPT ![r] = "done"]
              /\ \/ answer' = [answer EXCEPT ![r] = "routed"] /\ found # <<>>
                 \/ answer' = [answer EXCEPT ![r] = "error"]
    BY <1>3 DEF GetCredential, Answer, Goto
  <2>2. OnlyOwn(r) /\ input[r].kind = "payment"
    BY <1>1, <2>1 DEF OnlyOwn, Shape, LabelsOf
  <2>3. Shape' /\ Registered'
    <3>1. /\ DOMAIN pc' = Requests /\ DOMAIN left' = Requests /\ DOMAIN candidates' = Requests
          /\ DOMAIN answer' = Requests /\ (pc'[r] # "done" => answer'[r] = None)
          /\ pc'[r] \in LabelsOf(input[r].kind)
      BY <1>1, <2>1, <2>2 DEF Shape, LabelsOf
    <3>. QED  BY <1>1, <2>2, <3>1, QuietShape
  <2>4. candidates'[r] = found /\ left'[r] = Tail(left[r])
    BY <1>1, <2>1 DEF Shape
  <2>5. Listing(r, found, Tail(left[r]))
    <3>1. Listing(r, candidates[r], left[r]) /\ left[r] # <<>>
      BY <1>1, <2>2 DEF Local
    <3>. QED  BY <3>1, ListingAdvances
  <2>6. Valid(input[r].body) /\ answer[r] = None
    BY <1>1, <2>2 DEF Local, Shape, None
  <2>. HIDE DEF found
  <2>7. CASE Tail(left[r]) # <<>>
    <3>1. Listing(r, candidates[r], left[r])'
      BY <1>1, <2>4, <2>5, QuietListing
    <3>. QED  BY <1>1, <2>1, <2>2, <2>3, <2>4, <2>6, <2>7, <3>1, QuietKeeps, FrameKeeps
              DEF Local, None
  <2>8. CASE Tail(left[r]) = <<>>
    <3>1. found # <<>> => RightlyRouted(r)'
      BY <1>1, <2>4, <2>5, <2>8, ListingRoutes
    <3>2. Local(r)'
      BY <1>1, <2>1, <2>2, <2>6, <2>8, <3>1 DEF Local, Shape
    <3>. QED  BY <1>1, <2>2, <2>3, <3>2, QuietKeeps, FrameKeeps
  <2>. QED  BY <2>7, <2>8
<1>. QED  BY <1>2, <1>3

-----------------------------------------------------------------------------
(* The theorems                                                            *)

LEMMA InitIInv == Init => IInv
<1>. SUFFICES ASSUME Init
              PROVE  IInv
  OBVIOUS
<1>1. PICK c \in Cases : /\ merchants = c.store.merchants /\ credentials = c.store.credentials
                         /\ rules = c.store.rules /\ input = c.input
  BY DEF Init
<1>2. /\ pc = [r \in Requests |-> "idle"] /\ answer = [r \in Requests |-> None]
      /\ left = [r \in Requests |-> <<>>] /\ candidates = [r \in Requests |-> <<>>]
      /\ disturbed = [r \in Requests |-> {}]
  BY DEF Init
<1>3. Shape
  BY <1>1, <1>2, CasesAssumption DEF Shape, LabelsOf
<1>4. Registered
  BY <1>1, <1>2, CasesAssumption DEF Registered
<1>5. \A r \in Requests : Local(r)
  BY <1>2 DEF Local, None
<1>. QED  BY <1>3, <1>4, <1>5 DEF IInv

LEMMA NextIInv == IInv /\ [Next]_vars => IInv'
<1>. SUFFICES ASSUME IInv, [Next]_vars
              PROVE  IInv'
  OBVIOUS
<1>1. CASE UNCHANGED vars
  <2>1. /\ Shape' = Shape /\ Registered' = Registered
    BY <1>1 DEF vars, stores, locals, Shape, Registered
  <2>2. \A r \in Requests : Local(r)' = Local(r)
    BY <1>1 DEF vars, stores, locals, Local, Listing, RightlyRouted, Covers, Standing,
                Applicable, Stored
  <2>. QED  BY <2>1, <2>2 DEF IInv
<1>2. CASE Next
  BY <1>2, ReceiveKeeps, FindMerchantKeeps, CreateMerchantKeeps, UpsertCredentialKeeps,
     FindRuleMerchantKeeps, UpsertRuleKeeps, FindRoutedKeeps, ListRulesKeeps,
     GetCredentialKeeps, ExplicitKeeps DEF Next
<1>. QED  BY <1>1, <1>2

\* The rows have their shape, an identifier has one document, and whoever routes a
\* payment has every standing rule among its candidates or still before it
\* (onboarding.service.ts, routing.service.ts).
THEOREM Invariance == Spec => []IInv
BY InitIInv, NextIInv, PTL DEF Spec

\* Of registrations of one identifier, however they interleave, all that answer
\* with a document answer with the same one (OnboardingService.createMerchant).
THEOREM RegistrationsAgree == Spec => []OneMerchant
<1>1. IInv => OneMerchant
  <2>. SUFFICES ASSUME IInv, NEW m \in Merchants
                PROVE  /\ Cardinality(merchants[m]) <= 1
                       /\ \A r \in Requests :
                            (input[r].kind = "createMerchant" /\ input[r].merchant = m
                               /\ answer[r] \notin {None, "error"}) => merchants[m] = {answer[r]}
    BY DEF OneMerchant
  <2>1. \A d, e \in merchants[m] : d = e
    BY DEF IInv, Registered
  <2>2. merchants[m] = {} \/ \E d : merchants[m] = {d}
    BY <2>1
  <2>3. Cardinality(merchants[m]) <= 1
    <3>1. CASE merchants[m] = {}
      <4>1. Cardinality({}) = 0
        BY FS_EmptySet
      <4>. QED  BY <3>1, <4>1
    <3>2. CASE \E d : merchants[m] = {d}
      <4>1. PICK d : merchants[m] = {d}
        BY <3>2
      <4>2. Cardinality({d}) = 1
        BY FS_Singleton
      <4>. QED  BY <4>1, <4>2
    <3>. QED  BY <2>2, <3>1, <3>2
  <2>4. ASSUME NEW r \in Requests, input[r].kind = "createMerchant", input[r].merchant = m,
               answer[r] \notin {None, "error"}
        PROVE  merchants[m] = {answer[r]}
    BY <2>1, <2>4 DEF IInv, Registered
  <2>. QED  BY <2>3, <2>4
<1>. QED  BY <1>1, Invariance, PTL

\* Whatever is written while a payment is routed, every rule that stood throughout
\* is among its candidates, which keep their order and are of its merchant
\* (RoutingService.resolveCandidates).
THEOREM StandingRulesRoute == Spec => []RoutedByStandingRules
<1>1. IInv => RoutedByStandingRules
  BY DEF IInv, Local, RightlyRouted, Sorted, RoutedByStandingRules
<1>. QED  BY <1>1, Invariance, PTL

\* No adapter refuses a routed request that passed validation and spells out what
\* it wants (requestValidationSchema and the adapters' own checks).
THEOREM ValidatedRequestsAreAccepted == Spec => []SchemaGuardsAdapters
<1>1. IInv => SchemaGuardsAdapters
  <2>. SUFFICES ASSUME IInv, NEW r \in Requests, input[r].kind = "payment", answer[r] = "routed"
                PROVE  Valid(input[r].body)
    BY ValidIsAccepted DEF SchemaGuardsAdapters
  <2>. QED  BY DEF IInv, Shape, Local, None
<1>. QED  BY <1>1, Invariance, PTL

\* What is routed is what executeInitialFlow takes a routing answer to be
\* (RoutesAssumption of InitialFlow): a list of providers that is not empty and
\* no longer than there are rules.
THEOREM RoutedListsAreRoutes ==
  Spec => [](\A r \in Requests : input[r].kind = "payment" /\ answer[r] = "routed" =>
               /\ ProvidersOf(candidates[r]) \in Seq(Providers)
               /\ Len(ProvidersOf(candidates[r])) \in 1..Cardinality(RuleIds))
<1>1. ASSUME IInv, NEW r \in Requests, input[r].kind = "payment", answer[r] = "routed"
      PROVE  /\ ProvidersOf(candidates[r]) \in Seq(Providers)
             /\ Len(ProvidersOf(candidates[r])) \in 1..Cardinality(RuleIds)
  <2> DEFINE c == candidates[r]
             n == Len(ProvidersOf(c))
  <2>1. RightlyRouted(r)
    BY <1>1 DEF IInv, Local
  <2>2. ProvidersOf(c) \in Seq(Providers) /\ c # <<>> /\ Sorted(c)
    BY <2>1 DEF RightlyRouted
  <2>3. n \in Nat /\ DOMAIN c = 1..n /\ n # 0
    <3>1. n \in Nat /\ DOMAIN ProvidersOf(c) = 1..n
      BY <2>2
    <3>2. DOMAIN ProvidersOf(c) = DOMAIN c
      BY DEF ProvidersOf
    <3>. QED  BY <2>2, <3>1, <3>2
  <2>. HIDE DEF n
  <2>4. IsFiniteSet(RuleIds) /\ Cardinality(RuleIds) \in Nat /\ Cardinality(RuleIds) # 0
    <3>1. r \in RuleIds /\ IsFiniteSet(RuleIds)
      BY RoutingAssumption
    <3>. QED  BY <3>1, FS_CardinalityType, FS_EmptySet
  <2>5. CASE DOMAIN c = {1}
    <3>1. n = 1
      <4>1. n \in {1} /\ n \in Nat
        <5>1. n \in 1..n
          BY <2>3
        <5>. QED  BY <2>3, <2>5, <5>1
      <4>. QED  BY <4>1
    <3>. QED  BY <2>2, <2>4, <3>1 DEF n
  <2>6. CASE \A i \in DOMAIN c : c[i].id \in RuleIds
    <3> DEFINE f == [i \in 1..n |-> c[i].id]
    <3>1. f \in [1..n -> RuleIds]
      BY <2>3, <2>6
    <3>2. ASSUME NEW i \in 1..n, NEW j \in 1..n, i # j PROVE f[i] # f[j]
      <4>1. i < j \/ j < i
        BY <2>3, <3>2
      <4>2. c[i].id # c[j].id
        BY <2>2, <2>3, <4>1 DEF Sorted, Before
      <4>. QED  BY <4>2
    <3>. HIDE DEF f
    <3>3. f \in Injection(1..n, RuleIds)
      BY <3>1, <3>2 DEF Injection, IsInjective
    <3>4. Cardinality(1..n) <= Cardinality(RuleIds)
      BY <2>4, <3>3, FS_Injection
    <3>5. Cardinality(1..n) = n
      BY <2>3, FS_Interval
    <3>. QED  BY <2>2, <2>3, <2>4, <3>4, <3>5 DEF n
  <2>. QED  BY <2>1, <2>5, <2>6 DEF RightlyRouted
<1>2. IInv => \A r \in Requests : input[r].kind = "payment" /\ answer[r] = "routed" =>
                /\ ProvidersOf(candidates[r]) \in Seq(Providers)
                /\ Len(ProvidersOf(candidates[r])) \in 1..Cardinality(RuleIds)
  BY <1>1
<1>. QED  BY <1>2, Invariance, PTL

=============================================================================
