-------------------------- MODULE MCAgentPipeline ---------------------------
(* Small instances of AgentPipeline for TLC. *)
EXTENDS AgentPipeline

CONSTANTS t1, t2, vague

\* No traffic, one pair of each kind, two pairs.
SomeInputs == {<< >>, <<t1>>, <<t2>>, <<vague>>, <<t1, t2>>}

\* Two contents of one endpoint.
SomeEndpoints == [t \in Traffic |-> IF t = vague THEN "e1" ELSE "e2"]

SomeFields == [t \in Traffic |-> IF t = t1 THEN 2 ELSE 1]
=============================================================================
