------------------------- MODULE Orchestrator_proofs -------------------------
(***************************************************************************)
(* The four properties of Orchestrator, for any agents, any chains and any *)
(* answer the consensus gate may give.  Nothing is used about the agents:  *)
(* the proofs rest on the order of the gates and on how the three readings *)
(* of the strict flag relate.                                              *)
(***************************************************************************)
EXTENDS Orchestrator, TLAPS

Entry == {"defensive", "injection", "spend", "route"}
Single == {"ast", "single"}
Open == Entry \cup {"command", "chain"} \cup Single

\* How far the counters and the chain are when execute_goal is at a stage.
Progress ==
    /\ pc \in Open \cup Ended /\ env \in {"unset", "true", "TRUE", "false"}
    /\ ran \in Nat /\ rows \in Nat /\ step \in Nat
    /\ pc \in Entry \cup {"command"} \cup Single => step = 1 /\ ran = 0 /\ rows = 0
    /\ pc \in Entry \cup Single => chain = <<>>
    /\ pc = "chain" => step = ran + 1 /\ rows = ran /\ chain # <<>>
    /\ pc # "returned" => outcome = NoOutcome

\* No receipt of a goal that is still open carries a high risk.
Calm == pc \in Open /\ CoreStrict => ~(worst >= HighRisk)

\* What the gates passed so far tell about the payload.
Passed ==
    /\ defensive = "true" /\ payload => pc \in {"defensive", "returned"}
    /\ pc \in Single \cup {"chain"} /\ CoreStrict => "command" \notin unsafe
    /\ pc = "single" /\ CoreStrict /\ "code" \in unsafe => target \in CoreExempt

OInv ==
    /\ Progress /\ Calm /\ Passed
    /\ StrictNeverPassesRisk /\ ChainSuccessComplete /\ PayloadsScreened

\* A goal starts with nothing consulted and nothing answered.
LEMMA InitOInv == Init => OInv
  BY DEF Init, OInv, Progress, Calm, Passed, StrictNeverPassesRisk, ChainSuccessComplete,
     PayloadsScreened, Open, Entry, Single, Ended, NoOutcome, HighRisk

\* The gates before the route, and the two behind it.
LEMMA GatesOInv ==
  ASSUME OInv, DefensiveGate \/ InjectionGate \/ SpendGate \/ Route \/ CommandGate \/ AstGate
  PROVE  OInv'
<1> USE DEF OInv, Progress, Calm, Passed, StrictNeverPassesRisk, ChainSuccessComplete,
        PayloadsScreened, Open, Entry, Single, Ended, NoOutcome, HighRisk, CoreStrict,
        Goto, Return, input, work
<1>1. CASE DefensiveGate
  BY <1>1 DEF DefensiveGate
<1>2. CASE InjectionGate
  BY <1>2 DEF InjectionGate
<1>3. CASE SpendGate
  BY <1>3 DEF SpendGate
<1>4. CASE Route
  BY <1>4 DEF Route
<1>5. CASE CommandGate
  BY <1>5 DEF CommandGate
<1>6. CASE AstGate
  BY <1>6 DEF AstGate
<1> QED
  BY <1>1, <1>2, <1>3, <1>4, <1>5, <1>6

\* The single route, which leaves through the strict gate.
LEMMA SingleOInv ==
  ASSUME OInv, Fallback \/ Consult \/ ConsultRaises
  PROVE  OInv'
<1> USE DEF OInv, Progress, Calm, Passed, StrictNeverPassesRisk, ChainSuccessComplete,
        PayloadsScreened, Open, Entry, Single, Ended, NoOutcome, HighRisk, CoreStrict,
        Return, Raise, input, work, Egress
<1>1. CASE Fallback
  BY <1>1 DEF Fallback
<1>2. CASE Consult
  <2>1. PICK ok, risk : Egress(ok, risk)
    BY <1>2 DEF Consult
  <2>2. /\ pc = "single" /\ ran' = ran + 1
        /\ UNCHANGED <<input, spend, chain, target, step, rows, worst>>
    BY <1>2 DEF Consult
  <2>3. pc' = "returned" /\ outcome'.risk = risk
    BY <2>1
  <2>4. outcome'.success => ~(CoreStrict /\ risk >= HighRisk)
    BY <2>1
  <2>5. CoreStrict' = CoreStrict
    BY <2>2
  <2>6. StrictNeverPassesRisk'
    BY <2>3, <2>4, <2>5
  <2>7. chain' = <<>>
    BY <2>2
  <2> QED
    BY <2>2, <2>3, <2>6, <2>7
<1>3. CASE ConsultRaises
  BY <1>3 DEF ConsultRaises
<1> QED
  BY <1>1, <1>2, <1>3

\* The chain engine, whose exit has no gate of its own.
LEMMA ChainOInv ==
  ASSUME OInv, ChainDeadline \/ StepGate \/ ChainStep \/ StepRaises
  PROVE  OInv'
<1> USE DEF OInv, Progress, Calm, Passed, StrictNeverPassesRisk, ChainSuccessComplete,
        PayloadsScreened, Open, Entry, Single, Ended, NoOutcome, HighRisk,
        Return, Goto, input, work
<1>1. CASE ChainDeadline
  BY <1>1 DEF ChainDeadline, CoreStrict
<1>2. CASE StepGate
  BY <1>2 DEF StepGate, CoreStrict
<1>3. CASE ChainStep
  BY <1>3 DEF ChainStep, StepBlocked, StepStops, CoreStrict, ChainStrict
<1>4. CASE StepRaises
  BY <1>4 DEF StepRaises, StepBlocked, CoreStrict, ChainStrict
<1> QED
  BY <1>1, <1>2, <1>3, <1>4

\* Every step of execute_goal keeps the invariant.
LEMMA NextOInv == OInv /\ [Next]_vars => OInv'
<1> SUFFICES ASSUME OInv, [Next]_vars
             PROVE  OInv'
  OBVIOUS
<1>1. CASE Next
  BY <1>1, GatesOInv, SingleOInv, ChainOInv DEF Next
<1>2. CASE UNCHANGED vars
  BY <1>2 DEF vars, OInv, Progress, Calm, Passed, StrictNeverPassesRisk, ChainSuccessComplete,
     PayloadsScreened, CoreStrict
<1> QED
  BY <1>1, <1>2 DEF Next

\* The invariant holds at every stage of every goal.
THEOREM GoalInvariant == Spec => []OInv
  BY InitOInv, NextOInv, PTL DEF Spec

\* A strict orchestrator reports no success for a goal whose risk is 80 or more:
\* on the chain exit because the engine stops at the first such receipt, and is
\* strict whenever execute_goal is.
THEOREM RiskCorrect == Spec => []StrictNeverPassesRisk
<1>1. OInv => StrictNeverPassesRisk
  BY DEF OInv
<1> QED
  BY <1>1, GoalInvariant, PTL

\* A chain is a success only when every agent ran and every trace was written.
THEOREM ChainsComplete == Spec => []ChainSuccessComplete
<1>1. OInv => ChainSuccessComplete
  BY DEF OInv
<1> QED
  BY <1>1, GoalInvariant, PTL

\* No agent sees a payload the shields of the two parts object to.
THEOREM ScreeningCorrect == Spec => []PayloadsScreened
<1>1. OInv => PayloadsScreened
  BY DEF OInv
<1> QED
  BY <1>1, GoalInvariant, PTL

\* After a receipt of high risk a strict orchestrator consults no agent.
THEOREM AlarmCorrect == Spec => NoAgentAfterAlarm
<1>1. ASSUME OInv, Next, CoreStrict, worst >= HighRisk
      PROVE  ran' = ran
  <2>1. pc \in Ended
    BY <1>1 DEF OInv, Progress, Calm
  <2> QED
    BY <1>1, <2>1 DEF Ended, Next, DefensiveGate, InjectionGate, SpendGate, Route, CommandGate,
       AstGate, Fallback, Consult, ConsultRaises, ChainDeadline, StepGate, ChainStep, StepRaises
<1>2. OInv /\ [Next]_vars => [CoreStrict /\ worst >= HighRisk => ran' = ran]_vars
  BY <1>1
<1> QED
  BY <1>2, GoalInvariant, PTL DEF Spec, NoAgentAfterAlarm
=============================================================================
