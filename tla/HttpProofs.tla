----------------------------- MODULE HttpProofs -----------------------------
(***************************************************************************)
(* Proofs about the HTTP client and about what its retries leave of an     *)
(* access token's life: HttpRetry for any bound on the configured limit,   *)
(* PayFlexTokens for any number of calls, any clock and any constants that *)
(* satisfy MarginAssumption.                                               *)
(***************************************************************************)
EXTENDS HttpRetry, PayFlexTokens, FiniteSetTheorems, TLAPS

-----------------------------------------------------------------------------
(* HttpRetry: every step keeps IInv                                        *)

LEMMA InitIInv == Init => IInv
BY LimitAssumption
   DEF Init, IInv, TypeOK, Progress, FailuresKept, ResultOrigin, Attempts, Current,
       Begun, Statuses, Errors, Settled

\* An attempt that fails while it is awaited is counted and gets its error; the
\* call goes on below the limit only, and never after a final error.
LEMMA FailsStep ==
  ASSUME IInv, pc = "waiting", NEW e \in Errors, Fails(e)
  PROVE  IInv'
<1>. USE LimitAssumption DEF IInv, TypeOK, Attempts, Current, Fails
<1>1. /\ attempt \in Nat /\ limit \in Nat /\ attempt < limit /\ limit <= MaxLimit
      /\ attempt' = attempt + 1 /\ attempt + 1 \in Attempts
  BY DEF Progress
<1>2. TypeOK'
  BY <1>1 DEF Settled
<1>3. Progress'
  BY <1>1 DEF Progress, Begun
<1>4. FailuresKept'
  <2>1. errors'[attempt + 1] = e /\ e # "none"
    BY <1>1 DEF Errors
  <2>2. \A j \in Attempts : j # attempt + 1 => errors'[j] = errors[j]
    BY <1>1
  <2>3. e = "fatalStatus" => pc' = "rejected"
    BY DEF Retryable
  <2>. QED  BY <1>1, <2>1, <2>2, <2>3 DEF FailuresKept
<1>5. ResultOrigin'
  BY <1>1 DEF ResultOrigin, Errors
<1>. QED  BY <1>2, <1>3, <1>4, <1>5

LEMMA SendStep ==
  ASSUME IInv, Send
  PROVE  IInv'
<1>. USE LimitAssumption DEF IInv, TypeOK, Attempts, Current, Send
<1>1. attempt \in Nat /\ limit \in Nat /\ attempt < limit /\ limit <= MaxLimit
  BY DEF Progress
<1>2. TypeOK' /\ Progress'
  BY <1>1 DEF Progress, Begun, Settled
<1>3. FailuresKept' /\ ResultOrigin'
  BY <1>1 DEF FailuresKept, ResultOrigin
<1>. QED  BY <1>2, <1>3

LEMMA NeverTriedStep ==
  ASSUME IInv, NeverTried
  PROVE  IInv'
BY DEF IInv, TypeOK, Progress, FailuresKept, ResultOrigin, Attempts, Current, Begun,
       Settled, NeverTried

LEMMA AnsweredStep ==
  ASSUME IInv, Answered
  PROVE  IInv'
<1>1. CASE wire[Current] = "ok" /\ pc' = "resolved" /\ result' = "data"
           /\ UNCHANGED <<limit, attempt, wire, errors>>
  BY <1>1 DEF IInv, TypeOK, Progress, FailuresKept, ResultOrigin, Attempts, Current, Begun,
              Settled, Answered
<1>2. CASE wire[Current] \in {"transientStatus", "fatalStatus"} /\ Fails(wire[Current])
  BY <1>2, FailsStep DEF Answered, Errors
<1>. QED  BY <1>1, <1>2 DEF Answered

\* An answer arrives at the client's side of the wire for a request that was
\* sent and not answered yet: never for the one a result was taken from.
LEMMA ServerAnswersStep ==
  ASSUME IInv, NEW i \in Attempts, ServerAnswers(i)
  PROVE  IInv'
<1>. USE DEF IInv, ServerAnswers
<1>1. PICK s \in Statuses : wire[i] = "sent" /\ wire' = [wire EXCEPT ![i] = s]
  OBVIOUS
<1>2. TypeOK'
  BY <1>1 DEF TypeOK, Attempts
<1>3. Progress'
  BY <1>1 DEF TypeOK, Progress, Begun, Current
<1>4. FailuresKept'
  BY DEF FailuresKept
<1>5. ResultOrigin'
  BY <1>1 DEF TypeOK, ResultOrigin, Current
<1>. QED  BY <1>2, <1>3, <1>4, <1>5

LEMMA NextIInv == IInv /\ [Next]_vars => IInv'
<1>. SUFFICES ASSUME IInv, [Next]_vars PROVE IInv'
  OBVIOUS
<1>1. CASE Send  BY <1>1, SendStep
<1>2. CASE NeverTried  BY <1>2, NeverTriedStep
<1>3. CASE Answered  BY <1>3, AnsweredStep
<1>4. CASE TimesOut  BY <1>4, FailsStep DEF TimesOut, Errors
<1>5. CASE NetworkFails  BY <1>5, FailsStep DEF NetworkFails, Errors
<1>6. CASE \E i \in Attempts : ServerAnswers(i)  BY <1>6, ServerAnswersStep
<1>7. CASE UNCHANGED vars
  BY <1>7 DEF vars, IInv, TypeOK, Progress, FailuresKept, ResultOrigin, Begun, Current
<1>. QED  BY <1>1, <1>2, <1>3, <1>4, <1>5, <1>6, <1>7 DEF Next, Loop

\* The loop's counters, the wire and the result have their types, the attempt
\* counter never passes the limit, and every result has its origin.
THEOREM Invariance == Spec => []IInv
BY InitIInv, NextIInv, PTL DEF Spec

-----------------------------------------------------------------------------
(* HttpRetry: the properties                                               *)

\* The attempt counter stays within the configured limit.
THEOREM TypeCorrect == Spec => []TypeOK
<1>1. IInv => TypeOK
  BY DEF IInv
<1>. QED  BY <1>1, Invariance, PTL

\* For every configured limit, a call costs at most that many requests.
THEOREM AttemptsAreBounded == Spec => []WithinLimit
<1>1. ASSUME IInv PROVE WithinLimit
  <2>. DEFINE tried == {i \in Attempts : wire[i] # "none"}
  <2>1. limit \in Nat
    BY <1>1 DEF IInv, TypeOK
  <2>2. tried \subseteq 1..limit
    BY <1>1, LimitAssumption DEF IInv, TypeOK, Progress, Begun, Current, Attempts
  <2>3. IsFiniteSet(1..limit) /\ Cardinality(1..limit) = limit
    BY <2>1, FS_Interval
  <2>4. Cardinality(tried) <= limit
    BY <2>2, <2>3, FS_Subset
  <2>. QED  BY <2>4 DEF WithinLimit
<1>. QED  BY <1>1, Invariance, PTL

\* No request is sent after a final error, nor while an earlier one is awaited.
THEOREM RetriesFollowTransientErrors == Spec => []RetriedAfterTransientOnly
<1>1. ASSUME IInv PROVE RetriedAfterTransientOnly
  <2>. SUFFICES ASSUME NEW i \in Attempts, wire[i] # "none", NEW j \in 1..(i - 1)
                PROVE  errors[j] \notin {"none", "fatalStatus"}
    BY DEF RetriedAfterTransientOnly
  <2>1. j \in Attempts /\ j <= attempt /\ (j < attempt \/ pc # "rejected")
    BY <1>1, LimitAssumption DEF IInv, TypeOK, Progress, Begun, Current, Attempts
  <2>. QED  BY <1>1, <2>1 DEF IInv, TypeOK, FailuresKept, Attempts
<1>. QED  BY <1>1, Invariance, PTL

\* However late answers arrive, the promise settles by the last request sent.
THEOREM LastAttemptSettles == Spec => []SettledByLastAttempt
<1>1. ASSUME IInv PROVE SettledByLastAttempt
  <2>1. pc = "resolved" =>
          wire[Current] = "ok" /\ \A i \in Attempts : i > Current => wire[i] = "none"
    BY <1>1, LimitAssumption DEF IInv, TypeOK, Progress, ResultOrigin, Begun, Current, Attempts
  <2>2. pc = "rejected" /\ result # "untried" => result = errors[attempt]
    BY <1>1 DEF IInv, ResultOrigin
  <2>3. result = "untried" => \A i \in Attempts : wire[i] = "none"
    BY <1>1, LimitAssumption DEF IInv, TypeOK, Progress, ResultOrigin, Begun, Attempts
  <2>. QED  BY <2>1, <2>2, <2>3 DEF SettledByLastAttempt
<1>. QED  BY <1>1, Invariance, PTL

-----------------------------------------------------------------------------
(* PayFlexTokens: how long a request takes                                 *)

\* The length of a request, one attempt at a time.
LEMMA LengthOne == Length(1) = Timeout
BY TokenAssumption DEF Length

LEMMA LengthNext ==
  ASSUME NEW n \in Nat \ {0}
  PROVE  /\ Length(n) \in Int
         /\ Length(n + 1) = Length(n) + Timeout + Backoff
<1>1. n * Timeout \in Int /\ (n - 1) * Backoff \in Int
  BY TokenAssumption
<1>2. (n + 1) * Timeout = n * Timeout + Timeout
  BY TokenAssumption, SMT
<1>3. ((n + 1) - 1) * Backoff = (n - 1) * Backoff + Backoff
  BY TokenAssumption, SMT
<1>. QED BY <1>1, <1>2, <1>3, TokenAssumption DEF Length

LEMMA LengthAtLeast ==
  ASSUME NEW n \in Nat \ {0}
  PROVE  Length(n) >= Timeout
<1>1. (n - 1) * Timeout >= 0 /\ (n - 1) * Timeout \in Int
  BY TokenAssumption, SMT
<1>2. (n - 1) * Backoff >= 0 /\ (n - 1) * Backoff \in Int
  BY TokenAssumption, SMT
<1>3. n * Timeout = (n - 1) * Timeout + Timeout
  BY TokenAssumption, SMT
<1>. QED BY <1>1, <1>2, <1>3, TokenAssumption DEF Length

-----------------------------------------------------------------------------
(* PayFlexTokens: the inductive invariant                                  *)

\* No timer has run past its end, and only a request with attempts left waits.
Timers ==
  \A c \in Calls :
    /\ since[c] <= now
    /\ phase[c] \in Sent => now <= since[c] + Timeout
    /\ phase[c] \in Waiting => now <= since[c] + Backoff /\ tries[c] < MaxAttempts

\* The cache overstates a token's life by the delay of its answer at most.
Reckoned ==
  cache # NoToken => /\ cache.expiresAt <= cache.until + Timeout
                     /\ cache.until <= now + cache.lifetime

\* An answer under way was issued after its attempt was sent.
Answers ==
  \A c \in Calls : answered[c] # NoToken =>
    /\ phase[c] = "asking"
    /\ since[c] + answered[c].lifetime <= answered[c].until
    /\ answered[c].until <= now + answered[c].lifetime

\* Tokens that Margin, or their own lifetime, promises to outlive a call.
Lasting(c) == token[c].from = "cache" \/ token[c].t.lifetime > Timeout + Length(MaxAttempts)

\* The attempts that a call has left fit into what is left of its token.
Budget ==
  \A c \in Calls :
    /\ phase[c] \in {"calling", "callingAgain"} =>
         token[c].t \in Tokens /\ token[c].from \in {"cache", "server"}
    /\ phase[c] = "calling" /\ Lasting(c) =>
         since[c] + Length(MaxAttempts - tries[c] + 1) < token[c].t.until
    /\ phase[c] = "callingAgain" /\ Lasting(c) =>
         since[c] + Backoff + Length(MaxAttempts - tries[c]) < token[c].t.until
    /\ ending[c] = "unauthorized" =>
         /\ phase[c] = "idle"
         /\ token[c].from = "server" /\ token[c].t.lifetime <= Timeout + Length(MaxAttempts)

TokensIInv == TokensTypeOK /\ Timers /\ Reckoned /\ Answers /\ Budget

LEMMA TokenInitIInv == TokenInit => TokensIInv
BY TokenAssumption
   DEF TokenInit, TokensIInv, TokensTypeOK, Timers, Reckoned, Answers, Budget, Lasting, Nowhere, NoToken,
       Tokens, Sent, Waiting

LEMMA TokensTypeStep == TokensTypeOK /\ Timers /\ Answers /\ [TokenNext]_tokenVars => TokensTypeOK'
<1>. SUFFICES ASSUME TokensTypeOK, Timers, Answers, [TokenNext]_tokenVars PROVE TokensTypeOK'
  OBVIOUS
<1>. USE TokenAssumption DEF TokensTypeOK
<1>1. ASSUME NEW c \in Calls, Begin(c) PROVE TokensTypeOK'
  BY <1>1 DEF Begin, Enter, Nowhere, NoToken, Tokens, Sent, Waiting
<1>2. ASSUME NEW c \in Calls, Issue(c) PROVE TokensTypeOK'
  BY <1>2 DEF Issue, Tokens
<1>3. ASSUME NEW c \in Calls, ReceiveToken(c) PROVE TokensTypeOK'
  <2>1. [answered[c] EXCEPT !.expiresAt = now + answered[c].lifetime] \in Tokens
    BY <1>3 DEF ReceiveToken, Tokens
  <2>. QED BY <2>1, <1>3 DEF ReceiveToken, Enter, Sent
<1>4. ASSUME NEW c \in Calls, AttemptFails(c) PROVE TokensTypeOK'
  <2>1. CASE UNCHANGED <<token, ending>> /\ \E p \in Waiting : Enter(c, p, tries[c])
    <3>1. PICK p \in Waiting : Enter(c, p, tries[c])
      BY <2>1
    <3>2. now' = now /\ cache' = cache /\ token' = token /\ ending' = ending
      BY <1>4, <2>1 DEF AttemptFails
    <3>. QED BY <3>1, <3>2 DEF Enter
  <2>2. CASE End(c, "failed")
    <3>1. Enter(c, "idle", 1) /\ now' = now /\ cache' = cache
      BY <1>4, <2>2 DEF AttemptFails, End
    <3>2. token' = [token EXCEPT ![c] = Nowhere] /\ ending' = [ending EXCEPT ![c] = "failed"]
      BY <1>4, <2>2 DEF AttemptFails, End
    <3>3. Nowhere \in [from : {"nowhere", "cache", "server"}, t : Tokens \cup {NoToken}]
      BY DEF Nowhere
    <3>. QED BY <3>1, <3>2, <3>3 DEF Enter
  <2>. QED BY <1>4, <2>1, <2>2 DEF AttemptFails, Waiting
<1>5. ASSUME NEW c \in Calls, Resend(c) PROVE TokensTypeOK'
  BY <1>5 DEF Resend, Enter, Sent, Waiting, Timers
<1>6. ASSUME NEW c \in Calls, Serve(c) PROVE TokensTypeOK'
  BY <1>6 DEF Serve, End, Enter, Nowhere
<1>7. CASE Tick
  BY <1>7 DEF Tick
<1>8. CASE UNCHANGED tokenVars
  BY <1>8 DEF tokenVars
<1>. QED BY <1>1, <1>2, <1>3, <1>4, <1>5, <1>6, <1>7, <1>8 DEF TokenNext

LEMMA TimersStep == TokensTypeOK /\ Timers /\ [TokenNext]_tokenVars => Timers'
<1>. SUFFICES ASSUME TokensTypeOK, Timers, [TokenNext]_tokenVars, NEW d \in Calls
              PROVE  /\ since'[d] <= now'
                     /\ phase'[d] \in Sent => now' <= since'[d] + Timeout
                     /\ phase'[d] \in Waiting => now' <= since'[d] + Backoff /\ tries'[d] < MaxAttempts
  BY DEF Timers
<1>. USE TokenAssumption DEF TokensTypeOK, Timers, Sent, Waiting
<1>1. ASSUME NEW c \in Calls, Begin(c) PROVE Timers'
  BY <1>1 DEF Begin, Enter
<1>2. ASSUME NEW c \in Calls, Issue(c) PROVE Timers'
  BY <1>2 DEF Issue
<1>3. ASSUME NEW c \in Calls, ReceiveToken(c) PROVE Timers'
  BY <1>3 DEF ReceiveToken, Enter
<1>4. ASSUME NEW c \in Calls, AttemptFails(c) PROVE Timers'
  BY <1>4 DEF AttemptFails, End, Enter
<1>5. ASSUME NEW c \in Calls, Resend(c) PROVE Timers'
  BY <1>5 DEF Resend, Enter
<1>6. ASSUME NEW c \in Calls, Serve(c) PROVE Timers'
  BY <1>6 DEF Serve, End, Enter
<1>7. CASE Tick
  BY <1>7 DEF Tick
<1>8. CASE UNCHANGED tokenVars
  BY <1>8 DEF tokenVars
<1>. QED BY <1>1, <1>2, <1>3, <1>4, <1>5, <1>6, <1>7, <1>8 DEF TokenNext

LEMMA ReckonedStep == TokensTypeOK /\ Timers /\ Answers /\ Reckoned /\ [TokenNext]_tokenVars => Reckoned'
<1>. SUFFICES ASSUME TokensTypeOK, Timers, Answers, Reckoned, [TokenNext]_tokenVars PROVE Reckoned'
  OBVIOUS
<1>. USE TokenAssumption DEF TokensTypeOK, Reckoned
<1>1. ASSUME NEW c \in Calls, ReceiveToken(c) PROVE Reckoned'
  <2>1. answered[c] \in Tokens /\ cache' = [answered[c] EXCEPT !.expiresAt = now + answered[c].lifetime]
    BY <1>1 DEF ReceiveToken
  <2>2. /\ cache'.until = answered[c].until /\ cache'.lifetime = answered[c].lifetime
        /\ cache'.expiresAt = now + answered[c].lifetime
    BY <2>1 DEF Tokens
  <2>3. now' = now /\ now <= since[c] + Timeout
    BY <1>1 DEF ReceiveToken, Timers, Sent
  <2>. QED BY <1>1, <2>1, <2>2, <2>3 DEF ReceiveToken, Answers, Tokens
<1>2. CASE Tick
  BY <1>2 DEF Tick, Tokens
<1>3. CASE UNCHANGED <<now, cache>>
  BY <1>3
<1>. QED
  BY <1>1, <1>2, <1>3 DEF TokenNext, tokenVars, Begin, Issue, AttemptFails, Resend, Serve

LEMMA AnswersStep == TokensTypeOK /\ Timers /\ Answers /\ [TokenNext]_tokenVars => Answers'
<1>. SUFFICES ASSUME TokensTypeOK, Timers, Answers, [TokenNext]_tokenVars PROVE Answers'
  OBVIOUS
<1>. USE TokenAssumption DEF TokensTypeOK, Answers
<1>1. ASSUME NEW c \in Calls, Begin(c) PROVE Answers'
  BY <1>1 DEF Begin, Enter
<1>2. ASSUME NEW c \in Calls, Issue(c) PROVE Answers'
  <2>. PICK l \in Lifetimes :
         answered' = [answered EXCEPT ![c] = [until |-> now + l, expiresAt |-> 0, lifetime |-> l]]
    BY <1>2 DEF Issue
  <2>1. now' = now /\ since' = since /\ phase' = phase /\ phase[c] = "asking"
    BY <1>2 DEF Issue
  <2>2. /\ answered'[c].lifetime = l /\ answered'[c].until = now + l
        /\ \A d \in Calls \ {c} : answered'[d] = answered[d]
    OBVIOUS
  <2>3. since[c] <= now
    BY DEF Timers
  <2>. QED BY <2>1, <2>2, <2>3
<1>3. ASSUME NEW c \in Calls, ReceiveToken(c) PROVE Answers'
  BY <1>3 DEF ReceiveToken, Enter
<1>4. ASSUME NEW c \in Calls, AttemptFails(c) PROVE Answers'
  BY <1>4 DEF AttemptFails, End, Enter
<1>5. ASSUME NEW c \in Calls, Resend(c) PROVE Answers'
  BY <1>5 DEF Resend, Enter
<1>6. ASSUME NEW c \in Calls, Serve(c) PROVE Answers'
  BY <1>6 DEF Serve, End, Enter
<1>7. CASE Tick
  BY <1>7 DEF Tick, Tokens
<1>8. CASE UNCHANGED tokenVars
  BY <1>8 DEF tokenVars
<1>. QED BY <1>1, <1>2, <1>3, <1>4, <1>5, <1>6, <1>7, <1>8 DEF TokenNext

LEMMA BudgetStep == TokensIInv /\ [TokenNext]_tokenVars => Budget'
<1>. SUFFICES ASSUME TokensIInv, [TokenNext]_tokenVars, NEW d \in Calls
              PROVE  /\ phase'[d] \in {"calling", "callingAgain"} =>
                          token'[d].t \in Tokens /\ token'[d].from \in {"cache", "server"}
                     /\ phase'[d] = "calling" /\ Lasting(d)' =>
                          since'[d] + Length(MaxAttempts - tries'[d] + 1) < token'[d].t.until
                     /\ phase'[d] = "callingAgain" /\ Lasting(d)' =>
                          since'[d] + Backoff + Length(MaxAttempts - tries'[d]) < token'[d].t.until
                     /\ ending'[d] = "unauthorized" =>
                          /\ phase'[d] = "idle"
                          /\ token'[d].from = "server"
                          /\ token'[d].t.lifetime <= Timeout + Length(MaxAttempts)
  BY DEF Budget
<1>0. TokensTypeOK /\ Timers /\ Reckoned /\ Answers /\ Budget
  BY DEF TokensIInv
<1>a. Length(MaxAttempts) \in Int /\ Length(MaxAttempts) = Length(MaxAttempts - 1 + 1)
  BY LengthNext, TokenAssumption
<1>1. CASE phase'[d] = phase[d] /\ token'[d] = token[d] /\ since'[d] = since[d]
           /\ tries'[d] = tries[d] /\ ending'[d] = ending[d]
  BY <1>0, <1>1 DEF Budget, Lasting
<1>2. CASE Begin(d)
  <2>1. /\ phase'[d] = IF cache.expiresAt > now + Margin THEN "calling" ELSE "asking"
        /\ tries'[d] = 1 /\ since'[d] = now /\ ending'[d] = "none"
    BY <1>0, <1>2 DEF Begin, Enter, TokensTypeOK
  <2>2. CASE cache.expiresAt > now + Margin
    <3>1. token'[d] = [from |-> "cache", t |-> cache]
      BY <1>0, <1>2, <2>2 DEF Begin, TokensTypeOK
    <3>2. cache \in Tokens
      BY <1>0, <2>2, TokenAssumption DEF TokensTypeOK, NoToken
    <3>3. cache # NoToken
      BY <3>2 DEF Tokens, NoToken
    <3>4. now + Length(MaxAttempts) < cache.until
      BY <1>0, <1>a, <2>2, <3>2, <3>3, TokenAssumption, MarginAssumption
         DEF TokensTypeOK, Reckoned, Tokens
    <3>5. MaxAttempts - 1 + 1 = MaxAttempts
      BY TokenAssumption
    <3>. QED BY <2>1, <2>2, <3>1, <3>2, <3>4, <3>5
  <2>3. CASE ~(cache.expiresAt > now + Margin)
    BY <2>1, <2>3
  <2>. QED BY <2>2, <2>3
<1>3. CASE ReceiveToken(d)
  <2>. DEFINE t == [answered[d] EXCEPT !.expiresAt = now + answered[d].lifetime]
  <2>1. /\ phase'[d] = "calling" /\ tries'[d] = 1 /\ since'[d] = now
        /\ token'[d] = [from |-> "server", t |-> t] /\ ending'[d] = ending[d]
    BY <1>0, <1>3 DEF ReceiveToken, Enter, TokensTypeOK
  <2>2. answered[d] \in Tokens /\ answered[d] # NoToken
    BY <1>0, <1>3 DEF ReceiveToken, TokensTypeOK
  <2>3. t \in Tokens /\ t.until = answered[d].until /\ t.lifetime = answered[d].lifetime
    BY <1>0, <2>2 DEF TokensTypeOK, Tokens
  <2>4. now <= since[d] + Timeout
    BY <1>0, <1>3 DEF ReceiveToken, Timers, Sent
  <2>5. since[d] + answered[d].lifetime <= answered[d].until
    BY <1>0, <2>2 DEF Answers
  <2>6. t.lifetime > Timeout + Length(MaxAttempts) => now + Length(MaxAttempts) < t.until
    BY <1>0, <1>a, <2>2, <2>3, <2>4, <2>5, TokenAssumption DEF TokensTypeOK, Tokens
  <2>7. ending[d] # "unauthorized"
    BY <1>0, <1>3 DEF ReceiveToken, Budget
  <2>8. MaxAttempts - 1 + 1 = MaxAttempts
    BY TokenAssumption
  <2>. HIDE DEF t
  <2>9. token'[d].t = t /\ token'[d].from = "server"
    BY <2>1
  <2>10. Lasting(d)' => t.lifetime > Timeout + Length(MaxAttempts)
    BY <2>9 DEF Lasting
  <2>. QED BY <2>1, <2>3, <2>6, <2>7, <2>8, <2>9, <2>10
<1>4. CASE AttemptFails(d)
  <2>. DEFINE k == MaxAttempts - tries[d]
  <2>1. CASE /\ tries[d] < MaxAttempts
             /\ Enter(d, IF phase[d] = "asking" THEN "askingAgain" ELSE "callingAgain", tries[d])
             /\ UNCHANGED <<token, ending>>
    <3>1. /\ phase'[d] = IF phase[d] = "asking" THEN "askingAgain" ELSE "callingAgain"
          /\ tries'[d] = tries[d] /\ since'[d] = now
          /\ token'[d] = token[d] /\ ending'[d] = ending[d]
      BY <1>0, <1>4, <2>1 DEF AttemptFails, Enter, TokensTypeOK
    <3>2. phase[d] \in Sent /\ now <= since[d] + Timeout
      <4>1. phase[d] \in Sent
        BY <1>4 DEF AttemptFails
      <4>. QED BY <1>0, <4>1 DEF Timers
    <3>3. k \in Nat \ {0} /\ Length(k) \in Int /\ Length(k + 1) = Length(k) + Timeout + Backoff
      BY <1>0, <2>1, LengthNext, TokenAssumption DEF TokensTypeOK
    <3>4. phase[d] = "calling" /\ Lasting(d) => now + Backoff + Length(k) < token[d].t.until
      <4>1. SUFFICES ASSUME phase[d] = "calling", Lasting(d)
                     PROVE  now + Backoff + Length(k) < token[d].t.until
        OBVIOUS
      <4>2. since[d] + Length(k + 1) < token[d].t.until /\ token[d].t \in Tokens
        BY <1>0, <4>1 DEF Budget
      <4>. HIDE DEF k
      <4>. QED BY <1>0, <3>2, <3>3, <4>2, TokenAssumption DEF TokensTypeOK, Tokens
    <3>5. ending[d] # "unauthorized"
      BY <1>0, <3>2 DEF Budget, Sent
    <3>. QED BY <1>0, <3>1, <3>2, <3>4, <3>5 DEF Budget, Lasting, Sent
  <2>2. CASE End(d, "failed")
    BY <1>0, <1>4, <2>2 DEF AttemptFails, End, Enter, TokensTypeOK
  <2>. QED BY <1>4, <2>1, <2>2 DEF AttemptFails
<1>5. CASE Resend(d)
  <2>1. /\ phase'[d] = IF phase[d] = "askingAgain" THEN "asking" ELSE "calling"
        /\ tries'[d] = tries[d] + 1 /\ since'[d] = now
        /\ token'[d] = token[d] /\ ending'[d] = ending[d]
    BY <1>0, <1>5 DEF Resend, Enter, TokensTypeOK
  <2>2. phase[d] \in Waiting /\ now <= since[d] + Backoff /\ tries[d] < MaxAttempts
    BY <1>0, <1>5 DEF Resend, Timers
  <2>3. /\ MaxAttempts - tries'[d] + 1 = MaxAttempts - tries[d]
        /\ Length(MaxAttempts - tries[d]) \in Int
    BY <1>0, <2>1, <2>2, LengthNext, TokenAssumption DEF TokensTypeOK
  <2>4. phase[d] = "callingAgain" /\ Lasting(d) =>
          now + Length(MaxAttempts - tries[d]) < token[d].t.until
    BY <1>0, <2>2, <2>3, TokenAssumption DEF Budget, TokensTypeOK, Tokens
  <2>5. ending[d] # "unauthorized"
    BY <1>0, <2>2 DEF Budget, Waiting
  <2>. QED BY <1>0, <2>1, <2>2, <2>3, <2>4, <2>5 DEF Budget, Lasting, Waiting
<1>6. CASE Serve(d)
  <2>. DEFINE k == MaxAttempts - tries[d] + 1
  <2>1. /\ phase[d] = "calling" /\ phase'[d] = "idle"
        /\ ending'[d] = IF now < token[d].t.until THEN "served" ELSE "unauthorized"
        /\ ending'[d] = "unauthorized" => token'[d] = token[d]
    BY <1>0, <1>6 DEF Serve, End, Enter, TokensTypeOK
  <2>2. token[d].t \in Tokens /\ token[d].from \in {"cache", "server"}
    BY <1>0, <2>1 DEF Budget
  <2>3. k \in Nat \ {0} /\ Length(k) \in Int /\ Length(k) >= Timeout
    BY <1>0, LengthNext, LengthAtLeast, TokenAssumption DEF TokensTypeOK
  <2>4. now <= since[d] + Timeout
    BY <1>0, <2>1 DEF Timers, Sent
  <2>5. Lasting(d) => now < token[d].t.until
    <3>1. Lasting(d) => since[d] + Length(k) < token[d].t.until
      BY <1>0, <2>1 DEF Budget
    <3>. HIDE DEF k
    <3>. QED BY <1>0, <2>2, <2>3, <2>4, <3>1, TokenAssumption DEF TokensTypeOK, Tokens
  <2>6. ~Lasting(d) => token[d].from = "server" /\ token[d].t.lifetime <= Timeout + Length(MaxAttempts)
    BY <1>a, <2>2, TokenAssumption DEF Lasting, Tokens
  <2>. QED BY <2>1, <2>5, <2>6
<1>. QED
  <2>1. ASSUME NEW c \in Calls, c # d,
               \/ Begin(c) \/ ReceiveToken(c) \/ AttemptFails(c) \/ Resend(c) \/ Serve(c)
        PROVE  /\ phase'[d] = phase[d] /\ token'[d] = token[d] /\ since'[d] = since[d]
               /\ tries'[d] = tries[d] /\ ending'[d] = ending[d]
    BY <1>0, <2>1 DEF Begin, ReceiveToken, AttemptFails, Resend, Serve, Enter, End, TokensTypeOK
  <2>2. ASSUME NEW c \in Calls, Issue(c)
        PROVE  /\ phase'[d] = phase[d] /\ token'[d] = token[d] /\ since'[d] = since[d]
               /\ tries'[d] = tries[d] /\ ending'[d] = ending[d]
    BY <2>2 DEF Issue
  <2>3. Tick \/ UNCHANGED tokenVars =>
          /\ phase'[d] = phase[d] /\ token'[d] = token[d] /\ since'[d] = since[d]
          /\ tries'[d] = tries[d] /\ ending'[d] = ending[d]
    BY DEF Tick, tokenVars
  <2>. QED BY <1>1, <1>2, <1>3, <1>4, <1>5, <1>6, <2>1, <2>2, <2>3 DEF TokenNext

-----------------------------------------------------------------------------

LEMMA TokensInvariance == TokenSpec => []TokensIInv
<1>1. TokensIInv /\ [TokenNext]_tokenVars => TokensIInv'
  BY TokensTypeStep, TimersStep, ReckonedStep, AnswersStep, BudgetStep DEF TokensIInv
<1>. QED BY TokenInitIInv, <1>1, PTL DEF TokenSpec

\* Type correctness of the cache and the calls (getPayFlexAccessToken); no
\* request of requestWithRetry passes its limit of attempts.
THEOREM TokensTypeCorrect == TokenSpec => []TokensTypeOK
BY TokensInvariance, PTL DEF TokensIInv

\* A token from the cache outlives every retry of the call that took it, for
\* any margin that covers one delayed answer and one call with all its retries.
THEOREM TokensOutliveTheirCalls == TokenSpec => []TokenOutlivesItsCall
<1>1. TokensIInv => TokenOutlivesItsCall
  BY DEF TokensIInv, Budget, TokenOutlivesItsCall
<1>. QED BY TokensInvariance, <1>1, PTL

\* However many calls refresh the token at once, an answer that was overtaken
\* takes no more than one timeout from the life of the cached token.
THEOREM OvertakingIsBounded == TokenSpec => OvertakenByTimeoutAtMost
<1>. DEFINE A == (cache' # cache /\ cache # NoToken /\ cache'.lifetime = cache.lifetime)
                   => cache'.until + Timeout >= cache.until
<1>1. TokensIInv /\ [TokenNext]_tokenVars => [A]_tokenVars
  <2>. SUFFICES ASSUME TokensIInv, TokenNext, cache' # cache, cache # NoToken,
                       cache'.lifetime = cache.lifetime
                PROVE  cache'.until + Timeout >= cache.until
    OBVIOUS
  <2>. USE DEF TokensIInv
  <2>1. PICK c \in Calls : ReceiveToken(c)
    BY DEF TokenNext, Begin, Issue, AttemptFails, Resend, Serve, Tick
  <2>2. /\ answered[c] \in Tokens /\ answered[c] # NoToken /\ cache \in Tokens
        /\ cache' = [answered[c] EXCEPT !.expiresAt = now + answered[c].lifetime]
    BY <2>1 DEF ReceiveToken, TokensTypeOK
  <2>3. cache'.until = answered[c].until /\ cache'.lifetime = answered[c].lifetime
    BY <2>2 DEF Tokens
  <2>4. now <= since[c] + Timeout /\ since[c] + answered[c].lifetime <= answered[c].until
    BY <2>1, <2>2 DEF ReceiveToken, Timers, Answers, Sent
  <2>5. cache.until <= now + cache.lifetime
    BY DEF Reckoned
  <2>. QED BY <2>2, <2>3, <2>4, <2>5, TokenAssumption DEF TokensTypeOK, Tokens
<1>. QED BY TokensInvariance, <1>1, PTL DEF TokenSpec, OvertakenByTimeoutAtMost

=============================================================================
