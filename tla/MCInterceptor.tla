---------------------------- MODULE MCInterceptor ----------------------------
(* Small instances of Interceptor for TLC. *)
EXTENDS Interceptor, TLC

CONSTANT s1

\* All requests reach one server.
OneServer == [r \in Requests |-> s1]

Prompt(drift, injection, bloat, key) ==
    [drift |-> drift, entropy |-> drift, injection |-> injection, bloat |-> bloat, key |-> key]

\* A clean chat that has drifted as far as can be (4000, just under the reviewer's
\* 4100: only commands reach the reviewer), the same bloated and with a surplus key
\* of the accepted shape, and an injection.
SomePrompts ==
    {Prompt(100, 0, FALSE, "issued"), Prompt(100, 0, TRUE, "long"), Prompt(0, 90, FALSE, "none")}

\* One score under the gate, one between the thresholds, one above them.
SomeDangers == {40, 60, 95}

RequestSymmetry == Permutations(Requests)
=============================================================================
