------------------------------- MODULE Agents -------------------------------
(***************************************************************************)
(* The micro-agents of the orchestrator: the router's registry, from the   *)
(* name of an agent to what it can return.                                 *)
(***************************************************************************)
EXTENDS ContractAgents, PlatformAgents

\* AgentRouter.routes: every registration, with the outputs the agent can return.
Routes(s) ==
    <<Routes01(s), Routes02(s), Routes03(s), Routes04(s), Routes05(s), Routes06(s), Routes07(s),
      Routes08(s), Routes09(s), Routes10(s), Routes11(s), Routes12(s), Routes13(s), Routes14(s),
      Routes15(s), Routes16(s), Routes17(s), Routes18(s), Routes19(s), Routes20(s), Routes21(s),
      Routes22(s), Routes23(s), Routes24(s), Routes25(s)>>

Strict == Routes(TRUE)
Advisory == Routes(FALSE)

\* The registry as a set of <<name, strict outputs, advisory outputs>>.
Registered ==
    UNION {{<<a, Strict[k][a], Advisory[k][a]>> : a \in DOMAIN Strict[k]} : k \in DOMAIN Strict}

AgentNames == {r[1] : r \in Registered}

\* What the agent registered under a name can return when its flag is s.
Outputs(a, s) ==
    LET r == CHOOSE r \in Registered : r[1] = a IN IF s THEN r[2] ELSE r[3]
=============================================================================
