---------------------------- MODULE ConsensusGate ----------------------------
(***************************************************************************)
(* The decision run_with_consensus takes from three outputs of one agent:  *)
(* the verdicts are compared, the first agreeing output is the majority    *)
(* output, its risk is reported, and a high risk overrules the verdict     *)
(* when the orchestrator's environment flag reads exactly "true".          *)
(***************************************************************************)
EXTENDS Agents

Threshold == 60        \* divergence_threshold of PiConsensusBreaker
HighRisk == 80

Runs == 1..3

\* None verdicts never count as agreement.
Same(votes, i, j) == votes[i].verdict # "none" /\ votes[i].verdict = votes[j].verdict

Achieved(votes) == Same(votes, 1, 2) \/ Same(votes, 1, 3) \/ Same(votes, 2, 3)

\* Mutant of MajorityIdx: the first run always speaks for the majority.
MajorityIdxFirst(votes) == 1

MajorityIdx(votes) == IF Same(votes, 1, 2) \/ Same(votes, 1, 3) THEN 1 ELSE 2

\* Divergence scores: half the semantic distance plus half the share of output
\* keys that differ.  Outputs of one envelope class have the same keys.
Divergences(sameKeys) == IF sameKeys THEN {0, 50} ELSE {0, 50, 60, 100}

\* Mutant of IsBroken: half the scale is enough.
IsBrokenAtHalf(divergence) == divergence >= 50

IsBroken(divergence) == divergence >= Threshold

\* The envelope of PiStructuredLoggingEnforcer holds the complement of its risk.
Compliance(o) == 100 - o.risk

\* The risk reported for the majority output; these agents' envelopes hold none.
ReportedRisk(name, o) ==
    CASE name = "PiArbitrageGuard" -> IF o.found THEN 90 ELSE 0
      [] name = "PiPublisherDispatch" -> IF o.found THEN 95 ELSE 0
      [] name = "PiOracleSentry" -> IF o.verdict = "fail" THEN 90 ELSE 0
      [] name = "PiSelfHealingPatchAgent" -> IF o.verdict = "fail" THEN 60 ELSE 0
      [] name \in {"PiAutomatedRotationEngine", "PiAutomatedAnonymizer"} ->
            IF o.verdict = "fail" THEN 80 ELSE 0
      [] name = "PiStructuredLoggingEnforcer" -> 100 - Compliance(o)
      [] OTHER -> o.risk

Decide(name, votes, divergence, envTrue) ==
    IF IsBroken(divergence) \/ ~Achieved(votes)
    THEN [success |-> FALSE, risk |-> divergence, status |-> "REJECTED_DIVERGENCE_ALARM"]
    ELSE LET o == votes[MajorityIdx(votes)]
             r == ReportedRisk(name, o)
         IN  [success |-> /\ o.verdict = "pass"
                          /\ ~(name = "PiArbitrageGuard" /\ o.found)
                          /\ ~(r >= HighRisk /\ envTrue),
              risk |-> r,
              status |-> "CONSENSUS_PASSED"]

\* Outputs a caller can inject through context["mock_consensus_runs"].
NoVerdict == [verdict |-> "none", risk |-> 0, found |-> FALSE]
MockOutputs == {NoVerdict} \cup {Out(b, r, r > 0) : b \in BOOLEAN, r \in {0, 95}}

\* Every answer of the gate about an agent.  The answer is that of the output the
\* majority settles on, or a rejection, so equal votes give all of them.
Unanimous(o) == [k \in Runs |-> o]
Decisions(name, s, envTrue) ==
    {Decide(name, Unanimous(o), 0, envTrue) : o \in Outputs(name, s)}
InjectedDecisions(name, envTrue) ==
    {Decide(name, Unanimous(o), d, envTrue) : o \in MockOutputs, d \in Divergences(FALSE)}

-----------------------------------------------------------------------------
(* What the gate relies on about the agents *)

OutputType == [verdict : {"pass", "fail"}, risk : Int, found : BOOLEAN]

\* An output of an agent whose flag is s is a Boolean verdict, and under a strict
\* flag a vulnerability scored HighRisk or more is never waved through.
FailsClosed(o, s) ==
    o \in OutputType /\ (s /\ o.found /\ o.risk >= HighRisk => o.verdict = "fail")

AllFailClosed(O, s) == \A o \in O : FailsClosed(o, s)

\* The outputs g gives for the names of a group f of registrations.
GroupFailsClosed(f, g, s) == \A a \in DOMAIN f : AllFailClosed(g[a], s)
=============================================================================
