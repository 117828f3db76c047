------------------------------- MODULE Recovery -------------------------------
(***************************************************************************)
(* ChainRecoveryPolicy.execute and the CircuitBreaker it shares between    *)
(* threads (src/src/pi_micro_agents/orchestrator/recovery.py).             *)
(*                                                                         *)
(* execute consults the breaker once, then calls step_fn up to             *)
(* max_retries + 1 times without looking at the breaker again, and records *)
(* one success or one failure at the end.  Each breaker method is one      *)
(* section under its lock, so one step; a call of step_fn ends in the step *)
(* that acts on its outcome.                                               *)
(*                                                                         *)
(* Two counters are kept as far as the code can tell their values apart:   *)
(* consecutive_failures up to the threshold it is compared with, and the   *)
(* age of opened_at as the ticks left until the cool-off has passed.       *)
(***************************************************************************)
EXTENDS Naturals, FiniteSets

CONSTANTS Steps,             \* step names, one breaker state each
          Executors,         \* threads that call execute
          FailureThreshold,  \* failure_threshold, at least 1
          CoolOff,           \* cool_off_seconds, in ticks
          MaxRetries         \* policy.max_retries

ASSUME RecoveryAssumption ==
    /\ FailureThreshold \in Nat \ {0}
    /\ CoolOff \in Nat /\ MaxRetries \in Nat
    /\ IsFiniteSet(Executors) /\ Executors # {}

VARIABLES breaker,  \* step -> its _BreakerState
          call      \* executor -> the execute call it is in

vars == <<breaker, call>>

Idle == [pc |-> "idle"]

Closed == [state |-> "closed", failures |-> 0, left |-> 0]

Init ==
    /\ breaker = [s \in Steps |-> Closed]
    /\ call = [e \in Executors |-> Idle]

\* time.time() moves on.
Tick ==
    /\ \E s \in Steps : breaker[s].left > 0
    /\ breaker' = [s \in Steps |->
          [breaker[s] EXCEPT !.left = IF @ > 0 THEN @ - 1 ELSE 0]]
    /\ UNCHANGED call

-----------------------------------------------------------------------------
(* CircuitBreaker *)

\* Mutant: the age is compared in the wrong unit.
CoolOffPassedEarly(s) == breaker[s].left < CoolOff

CoolOffPassed(s) == breaker[s].left = 0

Allows(s) == breaker[s].state # "open" \/ CoolOffPassed(s)

\* allow: an open breaker whose cool-off has passed becomes half open.
AfterAllow(s) ==
    IF breaker[s].state = "open" THEN [breaker[s] EXCEPT !.state = "half_open"]
    ELSE breaker[s]

Opened == [state |-> "open", failures |-> FailureThreshold, left |-> CoolOff]

\* Mutant: a failed probe closes the breaker again.
AfterFailureForgiven(s) ==
    IF breaker[s].state = "half_open" THEN [breaker[s] EXCEPT !.state = "closed"]
    ELSE IF breaker[s].failures + 1 >= FailureThreshold THEN Opened
    ELSE [breaker[s] EXCEPT !.failures = @ + 1]

\* record_failure: a failed probe, or the failure that reaches the threshold,
\* (re)opens the breaker and restarts its cool-off.
AfterFailure(s) ==
    IF breaker[s].state = "half_open" \/ breaker[s].failures + 1 >= FailureThreshold
      THEN Opened
      ELSE [breaker[s] EXCEPT !.failures = @ + 1]

-----------------------------------------------------------------------------
(* execute *)

MaxAttempts == MaxRetries + 1

ExecuteAllowed(e, s) ==
    /\ call[e].pc = "idle"
    /\ Allows(s)
    /\ breaker' = [breaker EXCEPT ![s] = AfterAllow(s)]
    /\ call' = [call EXCEPT ![e] = [pc |-> "attempt", step |-> s, attempts |-> 1]]

\* Mutant: a short-circuited call is recorded as a failure of the step.
ExecuteShortCircuitCounts(e, s) ==
    /\ call[e].pc = "idle"
    /\ ~Allows(s)
    /\ breaker' = [breaker EXCEPT ![s] = AfterFailure(s)]
    /\ UNCHANGED call

\* breaker_tripped, with no attempt made and nothing recorded.
ExecuteShortCircuit(e, s) ==
    /\ call[e].pc = "idle"
    /\ ~Allows(s)
    /\ UNCHANGED vars

\* step_fn reports success: record_success, and execute returns.
AttemptSucceeds(e) ==
    /\ call[e].pc = "attempt"
    /\ breaker' = [breaker EXCEPT ![call[e].step] = Closed]
    /\ call' = [call EXCEPT ![e] = Idle]

\* Mutant: the loop has no bound.
AttemptRetriesForever(e) ==
    /\ call[e].pc = "attempt"
    /\ call' = [call EXCEPT ![e].attempts = IF @ < MaxAttempts THEN @ + 1 ELSE 1]
    /\ UNCHANGED breaker

\* A failure below the risk threshold, or an exception to retry on: sleep for
\* the backoff delay and call step_fn again, without asking the breaker.
AttemptRetries(e) ==
    /\ call[e].pc = "attempt"
    /\ call[e].attempts < MaxAttempts
    /\ call' = [call EXCEPT ![e].attempts = @ + 1]
    /\ UNCHANGED breaker

\* The last attempt failed, or one failed in a way that is not retried:
\* record_failure, and execute returns.
AttemptFails(e) ==
    /\ call[e].pc = "attempt"
    /\ breaker' = [breaker EXCEPT ![call[e].step] = AfterFailure(call[e].step)]
    /\ call' = [call EXCEPT ![e] = Idle]

-----------------------------------------------------------------------------
Next ==
    \/ Tick
    \/ \E e \in Executors :
          \/ \E s \in Steps : ExecuteAllowed(e, s) \/ ExecuteShortCircuit(e, s)
          \/ AttemptSucceeds(e)
          \/ AttemptRetries(e)
          \/ AttemptFails(e)

Spec == Init /\ [][Next]_vars

\* The clock moves on and step_fn ends; nobody has to call execute.
Fairness ==
    /\ WF_vars(Tick)
    /\ \A e \in Executors :
          WF_vars(AttemptSucceeds(e) \/ AttemptRetries(e) \/ AttemptFails(e))

FairSpec == Spec /\ Fairness

-----------------------------------------------------------------------------
(* Properties *)

\* Breaker states and calls in progress.
TypeOK ==
    /\ breaker \in [Steps -> [state : {"closed", "open", "half_open"},
                              failures : 0..FailureThreshold, left : 0..CoolOff]]
    /\ call \in [Executors -> [pc : {"idle"}]
                   \cup [pc : {"attempt"}, step : Steps, attempts : 1..MaxAttempts]]

\* The state and the counter never contradict each other, whichever calls are
\* late: the breaker is closed exactly when fewer than FailureThreshold
\* failures were recorded since the last success.
TripsAtThreshold ==
    \A s \in Steps : breaker[s].state = "closed" <=> breaker[s].failures < FailureThreshold

Inside(s) == {e \in Executors : call[e].pc = "attempt" /\ call[e].step = s}

\* "open -> calls short-circuit immediately for cool_off_seconds": once the calls
\* that were inside when it opened have ended, a breaker stays open for its whole
\* cool-off.  (While one is inside, its late success closes the breaker.)
OpenLastsCoolOff ==
    [][\A s \in Steps :
          breaker[s].state = "open" /\ breaker[s].left > 0 /\ Inside(s) = {}
            => breaker'[s].state = "open"]_vars

\* execute returns.
ExecuteReturns ==
    \A e \in Executors : (call[e].pc = "attempt") ~> (call[e].pc = "idle")

\* An open breaker does not stay open for ever if somebody keeps calling: the
\* late failures of calls that were inside when it opened restart the cool-off,
\* but only so often.
OpenIsProbed ==
    \A s \in Steps :
        (\E e \in Executors : SF_vars(ExecuteAllowed(e, s)))
          => ((breaker[s].state = "open") ~> (breaker[s].state # "open"))
=============================================================================
