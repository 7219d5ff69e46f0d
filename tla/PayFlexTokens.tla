--------------------------- MODULE PayFlexTokens ---------------------------
(***************************************************************************)
(* getPayFlexAccessToken and the PayFlex calls (order, lookup, refund)     *)
(* that carry its token.  A process keeps one token in tokenCache; several *)
(* calls read it, refresh it at once and overwrite each other's entry.     *)
(*                                                                         *)
(* A token's expiry is decided by PayFlex from the moment of issue, the    *)
(* cache reckons it from the arrival of the answer, and a call that took   *)
(* the token from the cache goes on retrying with it: Margin is what       *)
(* stands between the three.  Every HTTP attempt is given up after Timeout *)
(* (http.client.ts), and the next follows within Backoff.                  *)
(***************************************************************************)
EXTENDS Integers

CONSTANTS
  Calls,
  Lifetimes,  \* values of expires_in
  Margin,     \* a token is served from the cache only this long before its expiry
  Timeout, Backoff, MaxAttempts,
  MaxTime     \* bound on the clock

VARIABLES
  now,
  cache,     \* tokenCache: NoToken or a token with expiresAt as the cache reckons it
  phase,     \* what each call is doing
  tries,   \* attempts of the HTTP request it is at
  since,     \* when it sent that attempt, or began to wait for the next
  answered,  \* the authorization server's answer to the attempt, under way
  token,     \* the token the call carries
  ending     \* how its last call ended

tokenVars == <<now, cache, phase, tries, since, answered, token, ending>>

\* From the first attempt of a request to the end of its last.
Length(n) == n * Timeout + (n - 1) * Backoff

ASSUME TokenAssumption ==
  /\ Timeout \in Nat /\ Backoff \in Nat /\ Margin \in Nat /\ MaxTime \in Nat
  /\ MaxAttempts \in Nat \ {0}
  /\ Lifetimes \subseteq Nat

\* The defaults: 60 s against 10 s and 3 * 10 s with backoffs under 1 s.
ASSUME MarginAssumption == Timeout + Length(MaxAttempts) <= Margin

NoToken == [until |-> -1, expiresAt |-> -1, lifetime |-> -1]
Tokens ==  \* until: when PayFlex stops accepting it
  [until : Nat, expiresAt : Nat, lifetime : Nat]

\* Attempts under way, and the waits between them.
Sent == {"asking", "calling"}
Waiting == {"askingAgain", "callingAgain"}

Nowhere == [from |-> "nowhere", t |-> NoToken]

\* Enter phase p with the n-th attempt; an answer to an earlier one is void.
Enter(c, p, n) ==
  /\ phase' = [phase EXCEPT ![c] = p]
  /\ tries' = [tries EXCEPT ![c] = n]
  /\ since' = [since EXCEPT ![c] = IF p = "idle" THEN 0 ELSE now]
  /\ answered' = [answered EXCEPT ![c] = NoToken]

\* The call is over; its token is kept only for the sake of the property below.
End(c, how) ==
  /\ Enter(c, "idle", 1)
  /\ ending' = [ending EXCEPT ![c] = how]
  /\ token' = IF how = "unauthorized" THEN token ELSE [token EXCEPT ![c] = Nowhere]

-----------------------------------------------------------------------------
(* getPayFlexAccessToken                                                   *)

\* Mutant: the entry is used up to its expiry.
BeginWithoutMargin(c) ==
  /\ phase[c] = "idle"
  /\ ending' = [ending EXCEPT ![c] = "none"]
  /\ LET hit == cache.expiresAt > now IN
     /\ Enter(c, IF hit THEN "calling" ELSE "asking", 1)
     /\ token' = [token EXCEPT ![c] = 
                             IF hit THEN [from |-> "cache", t |-> cache] ELSE Nowhere]
  /\ UNCHANGED <<now, cache>>

\* The cached token, if it has more than Margin left, or a request for one.
Begin(c) ==
  /\ phase[c] = "idle"
  /\ ending' = [ending EXCEPT ![c] = "none"]
  /\ LET hit == cache.expiresAt > now + Margin IN
     /\ Enter(c, IF hit THEN "calling" ELSE "asking", 1)
     /\ token' = [token EXCEPT ![c] = 
                             IF hit THEN [from |-> "cache", t |-> cache] ELSE Nowhere]
  /\ UNCHANGED <<now, cache>>

\* The authorization server issues a token in answer to the attempt.
Issue(c) ==
  /\ phase[c] = "asking" /\ answered[c] = NoToken
  /\ \E l \in Lifetimes :
       answered' = [answered EXCEPT ![c] = [until |-> now + l, expiresAt |-> 0, lifetime |-> l]]
  /\ UNCHANGED <<now, cache, phase, tries, since, token, ending>>

\* The answer arrives in time: the entry is overwritten, whoever wrote it.
ReceiveToken(c) ==
  LET t == [answered[c] EXCEPT !.expiresAt = now + answered[c].lifetime] IN
  /\ phase[c] = "asking" /\ answered[c] # NoToken
  /\ cache' = t
  /\ Enter(c, "calling", 1)
  /\ token' = [token EXCEPT ![c] = [from |-> "server", t |-> t]]
  /\ UNCHANGED <<now, ending>>

-----------------------------------------------------------------------------
(* requestWithRetry, around either request                                 *)

\* After a timeout, a network error or a retryable status the request is sent
\* again while the limit allows; a final error ends the call at once.
AttemptFails(c) ==
  /\ phase[c] \in Sent
  /\ \/ /\ tries[c] < MaxAttempts
        /\ Enter(c, IF phase[c] = "asking" THEN "askingAgain" ELSE "callingAgain", tries[c])
        /\ UNCHANGED <<token, ending>>
     \/ End(c, "failed")
  /\ UNCHANGED <<now, cache>>

Resend(c) ==
  /\ phase[c] \in Waiting
  /\ Enter(c, IF phase[c] = "askingAgain" THEN "asking" ELSE "calling", tries[c] + 1)
  /\ UNCHANGED <<now, cache, token, ending>>

\* PayFlex answers the call: with 401, which is final, once the token has expired.
Serve(c) ==
  /\ phase[c] = "calling"
  /\ End(c, IF now < token[c].t.until THEN "served" ELSE "unauthorized")
  /\ UNCHANGED <<now, cache>>

\* Mutant: a request for a token is waited for however long it takes.
TickUntimed ==
  /\ now < MaxTime
  /\ \A c \in Calls : /\ phase[c] = "calling" => now < since[c] + Timeout
                      /\ phase[c] \in Waiting => now < since[c] + Backoff
  /\ now' = now + 1
  /\ UNCHANGED <<cache, phase, tries, since, answered, token, ending>>

\* Time passes, but not beyond the timer of any call.
Tick ==
  /\ now < MaxTime
  /\ \A c \in Calls : /\ phase[c] \in Sent => now < since[c] + Timeout
                      /\ phase[c] \in Waiting => now < since[c] + Backoff
  /\ now' = now + 1
  /\ UNCHANGED <<cache, phase, tries, since, answered, token, ending>>

-----------------------------------------------------------------------------

TokenInit ==
  /\ now = 0
  /\ cache = NoToken
  /\ phase = [c \in Calls |-> "idle"]
  /\ tries = [c \in Calls |-> 1]
  /\ since = [c \in Calls |-> 0]
  /\ answered = [c \in Calls |-> NoToken]
  /\ token = [c \in Calls |-> Nowhere]
  /\ ending = [c \in Calls |-> "none"]

TokenNext ==
  \/ \E c \in Calls : \/ Begin(c) \/ Issue(c) \/ ReceiveToken(c)
                      \/ AttemptFails(c) \/ Resend(c) \/ Serve(c)
  \/ Tick

TokenSpec == TokenInit /\ [][TokenNext]_tokenVars

-----------------------------------------------------------------------------
(* Properties                                                              *)

\* A call that took its token from the cache is never refused for its expiry,
\* not in its last attempt either; one that fetched it only when the token was
\* issued for less time than an answer and a call may take.
TokenOutlivesItsCall ==
  \A c \in Calls : ending[c] = "unauthorized" =>
    /\ token[c].from = "server"
    /\ token[c].t.lifetime <= Timeout + Length(MaxAttempts)

\* An answer that was overtaken replaces a token that lives longer, but by no
\* more than the longest an answer takes (for tokens of one lifetime).
OvertakenByTimeoutAtMost ==
  [][(cache' # cache /\ cache # NoToken /\ cache'.lifetime = cache.lifetime)
       => cache'.until + Timeout >= cache.until]_tokenVars

\* Every variable has its type; no call passes the limit of attempts.
TokensTypeOK ==
  /\ now \in Nat
  /\ cache \in Tokens \cup {NoToken}
  /\ phase \in [Calls -> Sent \cup Waiting \cup {"idle"}]
  /\ tries \in [Calls -> 1..MaxAttempts]
  /\ since \in [Calls -> Nat]
  /\ answered \in [Calls -> Tokens \cup {NoToken}]
  /\ token \in [Calls -> [from : {"nowhere", "cache", "server"}, t : Tokens \cup {NoToken}]]
  /\ ending \in [Calls -> {"none", "served", "failed", "unauthorized"}]

=============================================================================
