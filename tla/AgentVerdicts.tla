--------------------------- MODULE AgentVerdicts ----------------------------
(***************************************************************************)
(* What an agent can return.  An agent is a function of its input text and *)
(* of its own strict flag (strict_mode.py, one environment key per agent); *)
(* which pattern its input matches is left open, so an agent PiX is an     *)
(* operator PiX(s): the SET of outputs it can return under flag s.  An     *)
(* output keeps what the consensus gate and the orchestrator look at: the  *)
(* verdict field get_verdict reads, the risk score, and whether a          *)
(* vulnerability was detected.  Here are the scoring rules agents share.   *)
(***************************************************************************)
EXTENDS Integers, FiniteSets

Out(verdict, risk, found) ==
    [verdict |-> IF verdict THEN "pass" ELSE "fail", risk |-> risk, found |-> found]

Clean == Out(TRUE, 0, FALSE)

\* An agent whose output envelope has no risk_score: the consumers read 0.
Unscored == 0

Cap(n) == IF n > 100 THEN 100 ELSE n

\* Mutant of Strictly: the flag is read the wrong way round.
StrictlyInverted(R, s) == {Clean} \cup {Out(s, r, TRUE) : r \in R}

\* The common verdict: any detection scores (the largest of the weights R that
\* matched) and makes the output insecure, unless the agent's flag is advisory.
Strictly(R, s) == {Clean} \cup {Out(~s, r, TRUE) : r \in R}

\* Detections are insecure only from a threshold on.
AtLeast(t, R, s) == {Clean} \cup {Out(~(s /\ r >= t), r, TRUE) : r \in R}
OverThirty(R, s) == {Clean} \cup {Out(~(s /\ r > 30), r, TRUE) : r \in R}

\* Detections are insecure whatever the flag.
Always(R) == {Clean} \cup {Out(FALSE, r, TRUE) : r \in R}

\* Weights add up to at most 100, once or once per matching line (five lines
\* reach the cap); the output is insecure from 40 on, whatever the flag.
Once == 0..1
Often == 0..5
Summed(sums) == {Out(r < 40, r, r > 0) : r \in {Cap(a) : a \in sums}}

\* The output envelope carries no risk_score although the agent computes one.
Unpriced(O) == {[o EXCEPT !.risk = Unscored] : o \in O}

\* The placeholder class behind the playbook registrations.
GenericStubAgent(s) == {Clean}
=============================================================================
