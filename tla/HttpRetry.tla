------------------------------ MODULE HttpRetry ------------------------------
(***************************************************************************)
(* requestWithRetry: one call of an adapter, attempt by attempt.           *)
(*                                                                         *)
(* Each attempt is a request of its own on the wire.  The timeout rejects  *)
(* the promise and cancels nothing: the request, and the answer to it, may *)
(* still be under way when the next attempt is sent.                       *)
(***************************************************************************)
EXTENDS Naturals, FiniteSets

CONSTANT MaxLimit    \* bound on the configured MAX_RETRY_ATTEMPTS

ASSUME LimitAssumption == MaxLimit \in Nat

VARIABLES
  limit,    \* env.maxRetryAttempts
  attempt,  \* attempts that failed
  pc,
  wire,     \* each attempt's request, at the server
  errors,   \* why an attempt failed, as the loop saw it
  result    \* what the promise settled with

vars == <<limit, attempt, pc, wire, errors, result>>

-----------------------------------------------------------------------------

Attempts == 1..MaxLimit
Current  == attempt + 1

Statuses == {"ok", "transientStatus", "fatalStatus"}    \* 2xx; 408, 429, 5xx; other
Errors   == {"timeout", "network", "transientStatus", "fatalStatus"}

\* Mutant: every error is worth another attempt.
RetryableAlways(e) == TRUE

\* isRetryableAxiosError
Retryable(e) == e # "fatalStatus"

\* Mutant: the bound is checked before the failed attempt is counted.
FailsCountingLate(e) ==
  /\ errors' = [errors EXCEPT ![Current] = e]
  /\ attempt' = attempt + 1
  /\ \/ /\ Retryable(e) /\ attempt < limit /\ Current < MaxLimit
        /\ pc' = "backoff" /\ UNCHANGED result
     \/ /\ ~Retryable(e) \/ attempt >= limit \/ Current = MaxLimit
        /\ pc' = "rejected" /\ result' = e
  /\ UNCHANGED <<limit, wire>>

\* The attempts are used up or the error is final: the last error is rethrown.
Fails(e) ==
  /\ errors' = [errors EXCEPT ![Current] = e]
  /\ attempt' = attempt + 1
  /\ \/ /\ Retryable(e) /\ attempt + 1 < limit
        /\ pc' = "backoff" /\ UNCHANGED result
     \/ /\ ~Retryable(e) \/ attempt + 1 >= limit
        /\ pc' = "rejected" /\ result' = e
  /\ UNCHANGED <<limit, wire>>

-----------------------------------------------------------------------------
(* The loop                                                                *)

\* The first attempt, or the next one after sleep(backoffMs).
Send ==
  /\ pc = "backoff" \/ (pc = "start" /\ attempt < limit)
  /\ wire' = [wire EXCEPT ![Current] = "sent"]
  /\ pc' = "waiting"
  /\ UNCHANGED <<limit, attempt, errors, result>>

\* MAX_RETRY_ATTEMPTS = 0: the loop body never runs.
NeverTried ==
  /\ pc = "start" /\ attempt >= limit
  /\ pc' = "rejected" /\ result' = "untried"
  /\ UNCHANGED <<limit, attempt, wire, errors>>

\* Mutant: an answer to any attempt settles the promise.
AnsweredByAny ==
  \/ /\ pc \in {"waiting", "backoff"}
     /\ \E i \in Attempts : wire[i] = "ok"
     /\ pc' = "resolved" /\ result' = "data"
     /\ UNCHANGED <<limit, attempt, wire, errors>>
  \/ /\ pc = "waiting"
     /\ wire[Current] \in {"transientStatus", "fatalStatus"}
     /\ Fails(wire[Current])

\* The answer of the attempt that is awaited arrives; those of earlier
\* attempts find their promise already rejected and are dropped.
Answered ==
  /\ pc = "waiting"
  /\ \/ /\ wire[Current] = "ok"
        /\ pc' = "resolved" /\ result' = "data"
        /\ UNCHANGED <<limit, attempt, wire, errors>>
     \/ /\ wire[Current] \in {"transientStatus", "fatalStatus"}
        /\ Fails(wire[Current])

\* Mutant: the request has no timer.
TimesOutNever == FALSE /\ UNCHANGED vars

\* withTimeout rejects, or the connection fails before an answer.
TimesOut    == pc = "waiting" /\ Fails("timeout")
NetworkFails == pc = "waiting" /\ Fails("network")

-----------------------------------------------------------------------------

\* The server answers a request it received, at any time, awaited or not.
ServerAnswers(i) ==
  /\ wire[i] = "sent"
  /\ \E s \in Statuses : wire' = [wire EXCEPT ![i] = s]
  /\ UNCHANGED <<limit, attempt, pc, errors, result>>

Init ==
  /\ limit \in 0..MaxLimit
  /\ attempt = 0
  /\ pc = "start"
  /\ wire = [i \in Attempts |-> "none"]
  /\ errors = [i \in Attempts |-> "none"]
  /\ result = "none"

Loop == Send \/ NeverTried \/ Answered \/ TimesOut
Next == Loop \/ NetworkFails \/ \E i \in Attempts : ServerAnswers(i)

Spec == Init /\ [][Next]_vars

\* Timers fire: the loop never waits for ever, whatever the server does.
FairSpec == Spec /\ WF_vars(Loop)

-----------------------------------------------------------------------------

Settled == {"resolved", "rejected"}

\* The loop's counters and the wire have their types.
TypeOK ==
  /\ limit \in 0..MaxLimit
  /\ attempt \in 0..limit
  /\ pc \in {"start", "waiting", "backoff"} \cup Settled
  /\ wire \in [Attempts -> Statuses \cup {"none", "sent"}]
  /\ errors \in [Attempts -> Errors \cup {"none"}]
  /\ result \in Errors \cup {"none", "data", "untried"}

\* A call never costs more requests than the configured limit, whichever mix
\* of timeouts, late answers and error statuses it meets.
WithinLimit == Cardinality({i \in Attempts : wire[i] # "none"}) <= limit

\* "Validation error -> do NOT retry": an attempt follows only an attempt that
\* the loop saw fail in a retryable way, and never one it has an answer of.
RetriedAfterTransientOnly ==
  \A i \in Attempts : wire[i] # "none" => \A j \in 1..(i - 1) :
    errors[j] \notin {"none", "fatalStatus"}

\* The data returned is the answer to the last request sent, not a late answer
\* to an attempt already given up; a rejection reports the last attempt's error.
SettledByLastAttempt ==
  /\ pc = "resolved" =>
       wire[Current] = "ok" /\ \A i \in Attempts : i > Current => wire[i] = "none"
  /\ pc = "rejected" /\ result # "untried" => result = errors[attempt]
  /\ result = "untried" => \A i \in Attempts : wire[i] = "none"

\* The adapter's promise settles even if the server never answers.
CallSettles == <>(pc \in Settled)

-----------------------------------------------------------------------------
(* The inductive invariant                                                 *)

\* Attempts on the wire, up to the one that is awaited or was answered.
Begun == IF pc \in {"waiting", "resolved"} THEN Current ELSE attempt

\* The loop goes on only below its limit, and sends in order.
Progress ==
  /\ pc = "start" => attempt = 0
  /\ pc \in {"waiting", "backoff", "resolved"} => attempt < limit
  /\ \A i \in Attempts : wire[i] # "none" => i <= Begun

\* Every failed attempt has its error; only the last one's may be final.
FailuresKept ==
  \A j \in Attempts : j <= attempt =>
    /\ errors[j] # "none"
    /\ errors[j] = "fatalStatus" => j = attempt /\ pc = "rejected"

\* What the promise settled with, and where it comes from.
ResultOrigin ==
  /\ pc = "resolved" => wire[Current] = "ok"
  /\ result = "untried" => pc = "rejected" /\ attempt = 0
  /\ pc = "rejected" /\ result # "untried" => attempt > 0 /\ result = errors[attempt]

IInv == TypeOK /\ Progress /\ FailuresKept /\ ResultOrigin

=============================================================================
