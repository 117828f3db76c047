------------------------------ MODULE Consensus ------------------------------
(***************************************************************************)
(* run_with_consensus as a process: three runs of one agent on perturbed   *)
(* copies of the input, in a pool of three threads when the local engine's *)
(* weights are present and one after the other otherwise, then the         *)
(* decision.  The caller waits for the futures in order, each with a       *)
(* timeout; an exception or a timeout leaves the with-block, which waits   *)
(* for every run that is still going before it lets the exception out.     *)
(***************************************************************************)
EXTENDS ConsensusGate

CONSTANTS Subjects    \* the registered agents examined

ASSUME SubjectsAssumption == Subjects \subseteq AgentNames

VARIABLES
    agent,      \* name of the agent consulted, NoAgent before the call
    strict,     \* its own strict flag, resolved by each run
    envTrue,    \* PI_ORCHESTRATOR_STRICT_MODE reads exactly "true"
    mode,       \* "pool", "sequential" or "mock"
    outs,       \* what each run produced: Pending, Raised or an output
    next,       \* the run whose result is collected next, 4 after the last
    failed,     \* an exception is on its way out of the call
    result      \* NoResult, Raised, or the decision

vars == <<agent, strict, envTrue, mode, outs, next, failed, result>>

NoAgent == "no agent"
Pending == [NoVerdict EXCEPT !.verdict = "pending"]
Raised == [NoVerdict EXCEPT !.verdict = "raised"]
NoResult == [success |-> FALSE, risk |-> 0, status |-> "none"]
Failed == [NoResult EXCEPT !.status = "raised"]

Produced(k) == outs[k] \notin {Pending, Raised}

Init ==
    /\ agent = NoAgent
    /\ strict \in BOOLEAN
    /\ envTrue \in BOOLEAN
    /\ mode \in {"pool", "sequential", "mock"}
    /\ outs = [k \in Runs |-> Pending]
    /\ next = 1
    /\ failed = FALSE
    /\ result = NoResult

\* The call: injected runs replace the executions.  One that does not fit the
\* agent's envelope, or a list of fewer than three, raises.
Begin(a) ==
    /\ agent = NoAgent
    /\ agent' = a
    /\ IF mode = "mock"
       THEN \/ outs' \in [Runs -> MockOutputs] /\ next' = 4 /\ UNCHANGED failed
            \/ failed' = TRUE /\ UNCHANGED <<outs, next>>
       ELSE UNCHANGED <<outs, next, failed>>
    /\ UNCHANGED <<strict, envTrue, mode, result>>

\* run_single_perturbed of run k returns, or raises.
RunEnds(k) ==
    /\ agent # NoAgent /\ mode # "mock"
    /\ outs[k] = Pending
    /\ mode = "sequential" => k = next /\ ~failed
    /\ \E o \in Outputs(agent, strict) \cup {Raised} : outs' = [outs EXCEPT ![k] = o]
    /\ UNCHANGED <<agent, strict, envTrue, mode, next, failed, result>>

\* The caller obtains the result of the run it waits for.
Collect ==
    /\ agent # NoAgent /\ next \in Runs /\ ~failed
    /\ outs[next] # Pending
    /\ IF Produced(next)
       THEN next' = next + 1 /\ UNCHANGED failed
       ELSE failed' = TRUE /\ UNCHANGED next
    /\ UNCHANGED <<agent, strict, envTrue, mode, outs, result>>

\* f.result(timeout) gives up on a run that is still going.
ResultTimeout ==
    /\ agent # NoAgent /\ mode = "pool" /\ next \in Runs /\ ~failed
    /\ outs[next] = Pending
    /\ failed' = TRUE
    /\ UNCHANGED <<agent, strict, envTrue, mode, outs, next, result>>

\* Mutant of PoolExit: a run that raised is taken for one still going.
PoolExitWhenAllProduced ==
    /\ failed /\ result = NoResult
    /\ mode = "pool" => \A k \in Runs : Produced(k)
    /\ result' = Failed
    /\ UNCHANGED <<agent, strict, envTrue, mode, outs, next, failed>>

\* Mutant of PoolExit: the exception does not wait for the threads.
PoolExitAtOnce ==
    /\ failed /\ result = NoResult
    /\ result' = Failed
    /\ UNCHANGED <<agent, strict, envTrue, mode, outs, next, failed>>

\* The exception leaves the call; the executor's with-block joins its threads first.
PoolExit ==
    /\ failed /\ result = NoResult
    /\ mode = "pool" => \A k \in Runs : outs[k] # Pending
    /\ result' = Failed
    /\ UNCHANGED <<agent, strict, envTrue, mode, outs, next, failed>>

Conclude ==
    /\ agent # NoAgent /\ next = 4 /\ result = NoResult
    /\ \E d \in Divergences(mode # "mock") : result' = Decide(agent, outs, d, envTrue)
    /\ UNCHANGED <<agent, strict, envTrue, mode, outs, next, failed>>

Next ==
    \/ \E a \in Subjects : Begin(a)
    \/ \E k \in Runs : RunEnds(k)
    \/ Collect \/ ResultTimeout \/ PoolExit \/ Conclude

\* Every run of an agent ends and the caller keeps going.
Fairness == WF_vars(\E k \in Runs : RunEnds(k)) /\ WF_vars(Collect) /\ WF_vars(PoolExit) /\ WF_vars(Conclude)

Spec == Init /\ [][Next]_vars /\ Fairness

-----------------------------------------------------------------------------
Concluded == result \notin {NoResult, Failed}

\* consensus.py: however the three threads interleave, the answer is one the
\* orchestrator's model of the gate allows for this agent and these flags.  For
\* real runs none of those is a divergence alarm: verdicts are Boolean, so two
\* agree, and outputs of one class score at most 50 of the 60 the breaker needs.
AnswerAllowed ==
    Concluded => result \in IF mode = "mock" THEN InjectedDecisions(agent, envTrue)
                            ELSE Decisions(agent, strict, envTrue)

\* consensus.py: a success is carried by two runs that passed, whatever the
\* order in which the threads end and whoever supplied the outputs.
MajorityCarries ==
    (Concluded /\ result.success) =>
        Cardinality({k \in Runs : outs[k].verdict = "pass"}) >= 2

\* strict_mode.py: with an agent's flag strict, the gate never reports success
\* when two of its runs found a vulnerability they score 80 or more.
HighRiskFailsClosed ==
    (Concluded /\ mode # "mock" /\ strict /\ result.success) =>
        Cardinality({k \in Runs : outs[k].found /\ outs[k].risk >= HighRisk}) < 2

\* consensus.py: no agent thread is still running when run_with_consensus has
\* returned or raised, a timed-out one included.
NoRunOutlivesCall ==
    (result # NoResult /\ mode = "pool") => \A k \in Runs : outs[k] # Pending

\* consensus.py: a call that began returns or raises.
CallEnds == (agent # NoAgent) ~> (result # NoResult)

-----------------------------------------------------------------------------
(* The inductive invariant behind the safety properties *)

\* What a run that ends without an exception can have produced.
Answers == IF mode = "mock" THEN MockOutputs ELSE Outputs(agent, strict)

TypeOK ==
    /\ agent \in Subjects \cup {NoAgent}
    /\ strict \in BOOLEAN /\ envTrue \in BOOLEAN /\ failed \in BOOLEAN
    /\ mode \in {"pool", "sequential", "mock"}
    /\ next \in 1..4
    /\ DOMAIN outs = Runs
    /\ \A k \in Runs : outs[k] \in {Pending, Raised} \/ (agent # NoAgent /\ outs[k] \in Answers)

\* Before the call nothing has happened.
IdleInv ==
    agent = NoAgent => next = 1 /\ ~failed /\ result = NoResult /\ outs = [k \in Runs |-> Pending]

\* The caller has gone past the runs that produced an output, and past no other.
CollectInv ==
    /\ \A k \in Runs : k < next => Produced(k)
    /\ failed => next \in Runs
    /\ mode = "mock" /\ agent # NoAgent => next = 4 \/ failed

\* The call is over with an exception, or with a decision on the outputs that stand.
ResultInv ==
    \/ result = NoResult
    \/ result = Failed /\ failed /\ (mode = "pool" => \A k \in Runs : outs[k] # Pending)
    \/ /\ agent # NoAgent /\ next = 4
       /\ \E d \in Divergences(mode # "mock") : result = Decide(agent, outs, d, envTrue)

ConsensusInv == TypeOK /\ IdleInv /\ CollectInv /\ ResultInv
=============================================================================
