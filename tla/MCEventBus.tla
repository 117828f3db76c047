----------------------------- MODULE MCEventBus -----------------------------
(* Small instances of EventBus for TLC. *)
EXTENDS EventBus, TLC

CONSTANTS s1, s2, w1, w2, c1,
          v1,    \* a payload that JSON reproduces, {"10": x, "2": y} for one
          v2     \* {2: y, 10: x}: stored with 2 first, loaded as v1

\* Tenant "a" in partition "b_c" and tenant "a_b" in partition "c" have the same
\* event ids; no other two pairs do.
JoinedTenants == {<<"a">>, <<"a", "b">>}
JoinedPartitions == {<<"b", "c">>, <<"c">>}

OneWordTenants == {<<"a">>, <<"b">>}
OnePartition == {<<"p">>}

AllReloadAsV1 == [v \in Payloads |-> v1]

NoFunction == [w \in {} |-> w]

\* Both workers run for c1.
WorkersShareConsumer == (w1 :> c1) @@ (w2 :> c1)
OneStorage == (w1 :> s1) @@ (w2 :> s1)
FilterA == c1 :> <<"a">>
=============================================================================
