------------------------------ MODULE Routing ------------------------------
(***************************************************************************)
(* OnboardingService and RoutingService over the configuration store:      *)
(* merchants, provider credentials and routing rules are written by some   *)
(* requests while others resolve the providers of a payment, one query at  *)
(* a time and without a transaction around them.                           *)
(***************************************************************************)
EXTENDS PaymentRequests, Sequences, FiniteSets

CONSTANTS
  Requests, Merchants, Providers, RuleIds,
  Cases,     \* [store, input]: what earlier requests left, what each request asks
  MaxFaults  \* bound on failing queries

VARIABLES
  merchants,    \* merchants[m]: requests whose document with identifier m is stored
  credentials,  \* pairs <<merchant, provider>> with a stored credential
  rules,        \* rules by id
  input, pc,    \* what a request asks; the await at which it is suspended
  left,         \* filtered rules whose credential is still to be read
  candidates,   \* ProviderCandidate list built so far
  answer,       \* what the caller has been told
  disturbed,    \* rules <<id>> and credentials written since r was received
  faults

stores == <<merchants, credentials, rules>>
locals == <<left, candidates, answer>>
vars == <<stores, input, pc, locals, disturbed, faults>>

NoRule == [merchant |-> None]
Rules == [merchant : Merchants, provider : Providers, priority : Nat, enabled : BOOLEAN,
          method : STRING, currency : STRING]

ASSUME RoutingAssumption ==
  /\ MaxFaults \in Nat
  /\ IsFiniteSet(RuleIds) /\ Requests \subseteq RuleIds
  /\ None \notin Merchants \cup Providers

\* Earlier requests left one document per identifier, and complete rules.
ASSUME CasesAssumption ==
  /\ None \notin RuleIds
  /\ \A c \in Cases :
       /\ DOMAIN c.store.merchants = Merchants
       /\ \A m \in Merchants : \A d, e \in c.store.merchants[m] : d = e
       /\ c.store.rules \in [RuleIds -> Rules \cup {NoRule}]
       /\ \A r \in Requests :
            LET in == c.input[r] IN
            /\ in.kind \in {"createMerchant", "registerProvider", "upsertRule", "payment"}
            /\ in.kind = "createMerchant" => in.merchant \in Merchants
            /\ in.kind = "upsertRule" => in.rule \in Rules /\ in.id \in RuleIds \cup {None}
            /\ in.kind = "payment" => in.body.provider \in Providers \cup {None}

Existing(m) == merchants[m] # {}
Stored == {id \in RuleIds : rules[id] # NoRule}

Goto(r, l) == pc' = [pc EXCEPT ![r] = l]
Answer(r, a) == Goto(r, "done") /\ answer' = [answer EXCEPT ![r] = a]
Fault(r) ==
  /\ faults < MaxFaults /\ faults' = faults + 1
  /\ Answer(r, "error") /\ UNCHANGED <<left, candidates>>
Disturb(what) ==
  disturbed' = [q \in Requests |->
                  IF pc[q] = "idle" THEN disturbed[q]
                  ELSE disturbed[q] \cup {what}]
Quiet == UNCHANGED <<stores, input, disturbed>>

\* A rule applies to a payment when neither of its filters excludes it.
Matches(rule, b) ==
  /\ rule.currency \in {None, b.currency}
  /\ rule.method \in {None, b.method}

\* Orders in which the store may list rules: by priority, ties in any order.
ByPriority(ids) ==
  {s \in [1..Cardinality(ids) -> ids] :
     \A i, j \in DOMAIN s :
       i < j => s[i] # s[j] /\ rules[s[i]].priority <= rules[s[j]].priority}

-----------------------------------------------------------------------------
(* Onboarding                                                              *)

\* Validation answers a wrong request at once.
Receive(r) ==
  /\ pc[r] = "idle"
  /\ LET in == input[r] IN
     CASE in.kind = "createMerchant" -> Goto(r, "findMerchant") /\ UNCHANGED answer
       [] in.kind = "registerProvider" ->
            IF in.credentialsGiven THEN Goto(r, "upsertCredential") /\ UNCHANGED answer
            ELSE Answer(r, "invalid")
       [] in.kind = "upsertRule" -> Goto(r, "findRuleMerchant") /\ UNCHANGED answer
       [] in.kind = "payment" ->
            IF Valid(in.body)
            THEN Goto(r, IF in.body.merchant = None THEN "explicit" ELSE "findRouted")
                 /\ UNCHANGED answer
            ELSE Answer(r, "invalid")
  /\ Quiet /\ UNCHANGED <<left, candidates, faults>>

FindMerchant(r) ==
  LET m == input[r].merchant IN
  /\ pc[r] = "findMerchant"
  /\ \/ /\ \/ ~Existing(m) /\ Goto(r, "createMerchant") /\ UNCHANGED answer
           \/ \E d \in merchants[m] : Answer(r, d)
        /\ UNCHANGED <<left, candidates, faults>>
     \/ Fault(r)
  /\ Quiet

\* Mutant: the document is stored by its identifier, without a unique index.
CreateMerchantUnindexed(r) ==
  LET m == input[r].merchant IN
  /\ pc[r] = "createMerchant"
  /\ merchants' = [merchants EXCEPT ![m] = @ \cup {r}]
  /\ Answer(r, r)
  /\ UNCHANGED <<credentials, rules, input, disturbed, left, candidates, faults>>

\* The unique index on merchantIdentifier rejects a second document.
CreateMerchant(r) ==
  LET m == input[r].merchant IN
  /\ pc[r] = "createMerchant"
  /\ \/ /\ ~Existing(m)
        /\ merchants' = [merchants EXCEPT ![m] = {r}]
        /\ \/ Answer(r, r) /\ UNCHANGED <<left, candidates, faults>>
           \/ Fault(r)
     \/ Existing(m) /\ Answer(r, "error") /\ UNCHANGED <<merchants, left, candidates, faults>>
     \/ Fault(r) /\ UNCHANGED merchants
  /\ UNCHANGED <<credentials, rules, input, disturbed>>

\* upsertCredential; nothing asks whether the merchant exists.
UpsertCredential(r) ==
  LET c == <<input[r].merchant, input[r].provider>> IN
  /\ pc[r] = "upsertCredential"
  /\ \/ /\ credentials' = credentials \cup {c} /\ Disturb(c)
        /\ \/ Answer(r, "registered") /\ UNCHANGED <<left, candidates, faults>>
           \/ Fault(r)
     \/ Fault(r) /\ UNCHANGED <<credentials, disturbed>>
  /\ UNCHANGED <<merchants, rules, input>>

FindRuleMerchant(r) ==
  /\ pc[r] = "findRuleMerchant"
  /\ \/ /\ IF Existing(input[r].rule.merchant) THEN Goto(r, "upsertRule") /\ UNCHANGED answer
           ELSE Answer(r, "error")
        /\ UNCHANGED <<left, candidates, faults>>
     \/ Fault(r)
  /\ Quiet

\* The upsert selects by id alone: a rule of whatever merchant is replaced.
\* Without an id in the request the rule is a new one, named r here.
UpsertRule(r) ==
  LET id == IF input[r].id = None THEN r ELSE input[r].id IN
  /\ pc[r] = "upsertRule"
  /\ \/ /\ rules' = [rules EXCEPT ![id] = input[r].rule] /\ Disturb(<<id>>)
        /\ \/ Answer(r, id) /\ UNCHANGED <<left, candidates, faults>>
           \/ Fault(r)
     \/ Fault(r) /\ UNCHANGED <<rules, disturbed>>
  /\ UNCHANGED <<merchants, credentials, input>>

-----------------------------------------------------------------------------
(* resolveCandidates                                                       *)

FindRouted(r) ==
  /\ pc[r] = "findRouted"
  /\ \/ /\ IF Existing(input[r].body.merchant) THEN Goto(r, "listRules") /\ UNCHANGED answer
           ELSE Answer(r, "error")
        /\ UNCHANGED <<left, candidates, faults>>
     \/ Fault(r)
  /\ Quiet

\* Mutant: the rules are taken in the order of the store.
ListRulesUnsorted(r) ==
  LET b == input[r].body
      filtered == {id \in Stored : /\ rules[id].merchant = b.merchant /\ rules[id].enabled
                                   /\ Matches(rules[id], b)}
  IN
  /\ pc[r] = "listRules"
  /\ \E s \in [1..Cardinality(filtered) -> filtered] :
       /\ \A i, j \in DOMAIN s : i # j => s[i] # s[j]
       /\ left' = [left EXCEPT ![r] = [i \in DOMAIN s |-> [id |-> s[i], rule |-> rules[s[i]]]]]
  /\ Goto(r, IF filtered # {} THEN "getCredential" ELSE "explicit")
  /\ Quiet /\ UNCHANGED <<candidates, answer, faults>>

\* Every enabled rule of the merchant, by priority, filtered by the request.
ListRules(r) ==
  LET b == input[r].body
      filtered == {id \in Stored : /\ rules[id].merchant = b.merchant /\ rules[id].enabled
                                   /\ Matches(rules[id], b)}
  IN
  /\ pc[r] = "listRules"
  /\ \/ /\ \E s \in ByPriority(filtered) :
             left' = [left EXCEPT ![r] = [i \in DOMAIN s |-> [id |-> s[i], rule |-> rules[s[i]]]]]
        /\ Goto(r, IF filtered # {} THEN "getCredential" ELSE "explicit")
        /\ UNCHANGED <<candidates, answer, faults>>
     \/ Fault(r)
  /\ Quiet

\* One credential per filtered rule; a rule without one is skipped.
GetCredential(r) ==
  LET next == Head(left[r])
      registered == <<input[r].body.merchant, next.rule.provider>> \in credentials
      found == IF registered THEN Append(candidates[r], next) ELSE candidates[r]
  IN
  /\ pc[r] = "getCredential"
  /\ \/ /\ candidates' = [candidates EXCEPT ![r] = found]
        /\ left' = [left EXCEPT ![r] = Tail(@)]
        /\ \/ Tail(left[r]) # <<>> /\ UNCHANGED <<pc, answer>>
           \/ Tail(left[r]) = <<>> /\ Answer(r, IF found # <<>> THEN "routed" ELSE "error")
        /\ UNCHANGED faults
     \/ Fault(r)
  /\ Quiet

\* No rule applies, or no merchant is named: the provider of the request, which
\* a named merchant must have registered.
Explicit(r) ==
  LET b == input[r].body
      accepted == /\ b.provider # None
                  /\ b.merchant # None => <<b.merchant, b.provider>> \in credentials
  IN
  /\ pc[r] = "explicit"
  /\ \/ /\ IF accepted
           THEN /\ candidates' = [candidates EXCEPT ![r] =
                     <<[id |-> None, rule |-> [provider |-> b.provider]]>>]
                /\ Answer(r, "routed")
           ELSE Answer(r, "error") /\ UNCHANGED candidates
        /\ UNCHANGED <<left, faults>>
     \/ Fault(r)
  /\ Quiet

-----------------------------------------------------------------------------

Init ==
  /\ \E c \in Cases :
       /\ merchants = c.store.merchants /\ credentials = c.store.credentials
       /\ rules = c.store.rules /\ input = c.input
  /\ pc = [r \in Requests |-> "idle"]
  /\ left = [r \in Requests |-> <<>>]
  /\ candidates = [r \in Requests |-> <<>>]
  /\ answer = [r \in Requests |-> None]
  /\ disturbed = [r \in Requests |-> {}]
  /\ faults = 0

Next == \E r \in Requests :
  \/ Receive(r) \/ FindMerchant(r) \/ CreateMerchant(r) \/ UpsertCredential(r)
  \/ FindRuleMerchant(r) \/ UpsertRule(r)
  \/ FindRouted(r) \/ ListRules(r) \/ GetCredential(r) \/ Explicit(r)

Spec == Init /\ [][Next]_vars

-----------------------------------------------------------------------------
(* Properties                                                              *)

\* The answers of createMerchant are documents, and an identifier has one: of two
\* registrations that both find none, the one that loses is told of an error.
OneMerchant ==
  \A m \in Merchants :
    /\ Cardinality(merchants[m]) <= 1
    /\ \A r \in Requests :
         (input[r].kind = "createMerchant" /\ input[r].merchant = m
            /\ answer[r] \notin {None, "error"}) => merchants[m] = {answer[r]}

\* The rules that now apply to a payment, of those nobody wrote while it was
\* routed; all of them when nobody wrote anything that matters.
Applicable(r) ==
  LET b == input[r].body IN
  {id \in Stored :
     /\ <<id>> \notin disturbed[r]
     /\ rules[id].merchant = b.merchant /\ rules[id].enabled /\ Matches(rules[id], b)}
Standing(r) ==
  {id \in Applicable(r) :
     LET c == <<input[r].body.merchant, rules[id].provider>> IN
       c \in credentials /\ c \notin disturbed[r]}

\* Candidate x comes before y: another rule, of no lower a priority.
Before(x, y) == x.id # y.id /\ x.rule.priority <= y.rule.priority

\* However the configuration changes while a payment is routed: every rule that
\* stood throughout is a candidate, no rule is one twice, candidates keep the order
\* of their rules' priorities and are registered with the merchant through rules of
\* its own, and the provider the request names is used only when no rule stood.
RoutedByStandingRules ==
  \A r \in Requests :
    LET b == input[r].body
        c == candidates[r]
        byRule == {c[i].id : i \in DOMAIN c} \ {None}
    IN
    (input[r].kind = "payment" /\ answer[r] = "routed") =>
      /\ Standing(r) \subseteq byRule
      /\ \A i, j \in DOMAIN c : i < j => Before(c[i], c[j])
      /\ \A i \in DOMAIN c :
           /\ b.merchant # None => <<b.merchant, c[i].rule.provider>> \in credentials
           /\ c[i].id # None => c[i].rule.merchant = b.merchant /\ Matches(c[i].rule, b)
           /\ c[i].id = None => Applicable(r) = {} /\ c[i].rule.provider = b.provider

\* No adapter refuses of its own accord a request that was validated and spells
\* out what it wants: such a refusal is final, no other candidate is tried.
SchemaGuardsAdapters ==
  \A r \in Requests : (input[r].kind = "payment" /\ answer[r] = "routed") =>
    \A i \in DOMAIN candidates[r] :
      LET p == candidates[r][i].rule.provider IN
        SpelledOut(p, input[r].flow, input[r].body) => Accepts(p, input[r].flow, input[r].body)

=============================================================================
