--------------------------- MODULE Recovery_proofs ---------------------------
(***************************************************************************)
(* Theorems about the circuit breaker, for any number of threads, steps,   *)
(* retries and any threshold and cool-off.                                 *)
(***************************************************************************)
EXTENDS Recovery, TLAPS

Breaker == [state : {"closed", "open", "half_open"},
            failures : 0..FailureThreshold, left : 0..CoolOff]

\* One record per breaker: its type, and its state agrees with its counter.
Consistent(b) == b.state = "closed" <=> b.failures < FailureThreshold

\* What a breaker becomes, by any of its methods, is a consistent breaker.
LEMMA AfterConsistent ==
  ASSUME TypeOK, TripsAtThreshold, NEW s \in Steps
  PROVE  /\ Closed \in Breaker /\ Consistent(Closed)
         /\ AfterAllow(s) \in Breaker /\ Consistent(AfterAllow(s))
         /\ AfterFailure(s) \in Breaker /\ Consistent(AfterFailure(s))
<1>1. breaker[s] \in Breaker /\ Consistent(breaker[s])
  BY DEF TypeOK, Breaker, TripsAtThreshold, Consistent
<1>2. Closed \in Breaker /\ Consistent(Closed)
  BY RecoveryAssumption DEF Closed, Breaker, Consistent
<1>3. AfterAllow(s) \in Breaker /\ Consistent(AfterAllow(s))
  BY <1>1 DEF AfterAllow, Breaker, Consistent
<1>4. AfterFailure(s) \in Breaker /\ Consistent(AfterFailure(s))
  BY <1>1, RecoveryAssumption DEF AfterFailure, Opened, Breaker, Consistent
<1> QED
  BY <1>2, <1>3, <1>4

\* The breakers stay typed and consistent when one of them is replaced.
LEMMA ReplaceBreaker ==
  ASSUME TypeOK, TripsAtThreshold, NEW s \in Steps, NEW b \in Breaker, Consistent(b),
         breaker' = [breaker EXCEPT ![s] = b]
  PROVE  /\ breaker' \in [Steps -> Breaker]
         /\ TripsAtThreshold'
<1>1. breaker \in [Steps -> Breaker]
  BY DEF TypeOK, Breaker
<1>2. breaker' \in [Steps -> Breaker]
  BY <1>1
<1>3. \A r \in Steps : Consistent(breaker'[r])
  BY <1>1 DEF TripsAtThreshold, Consistent
<1> QED
  BY <1>2, <1>3 DEF TripsAtThreshold, Consistent

Call == [pc : {"idle"}] \cup [pc : {"attempt"}, step : Steps, attempts : 1..MaxAttempts]

\* Every step keeps the type and the agreement of state and counter.
LEMMA StepTripsAtThreshold ==
  TypeOK /\ TripsAtThreshold /\ [Next]_vars => TypeOK' /\ TripsAtThreshold'
<1> SUFFICES ASSUME TypeOK, TripsAtThreshold, [Next]_vars
             PROVE  TypeOK' /\ TripsAtThreshold'
  OBVIOUS
<1>a. breaker \in [Steps -> Breaker] /\ call \in [Executors -> Call]
  BY DEF TypeOK, Breaker, Call
<1>b. ASSUME breaker' \in [Steps -> Breaker], call' \in [Executors -> Call]
      PROVE  TypeOK'
  BY <1>b DEF TypeOK, Breaker, Call
<1>c. MaxAttempts \in Nat /\ 1 <= MaxAttempts
  BY RecoveryAssumption DEF MaxAttempts
<1>1. CASE Tick
  <2>1. breaker' \in [Steps -> Breaker]
    BY <1>1, <1>a, RecoveryAssumption DEF Tick, Breaker
  <2>2. \A s \in Steps : breaker'[s].state = breaker[s].state
                           /\ breaker'[s].failures = breaker[s].failures
    BY <1>1, <1>a DEF Tick, Breaker
  <2> QED
    BY <1>1, <1>a, <1>b, <2>1, <2>2 DEF Tick, TripsAtThreshold
<1>2. ASSUME NEW e \in Executors, NEW s \in Steps, ExecuteAllowed(e, s)
      PROVE  TypeOK' /\ TripsAtThreshold'
  <2>1. breaker' \in [Steps -> Breaker] /\ TripsAtThreshold'
    BY <1>2, AfterConsistent, ReplaceBreaker DEF ExecuteAllowed
  <2>2. call' \in [Executors -> Call]
    BY <1>2, <1>a, <1>c DEF ExecuteAllowed, Call
  <2> QED
    BY <2>1, <2>2, <1>b
<1>3. ASSUME NEW e \in Executors, call[e].pc = "attempt"
      PROVE  call[e].step \in Steps /\ call[e].attempts \in 1..MaxAttempts
  BY <1>3, <1>a DEF Call
<1>4. ASSUME NEW e \in Executors, AttemptSucceeds(e)
      PROVE  TypeOK' /\ TripsAtThreshold'
  <2>1. call[e].step \in Steps
    BY <1>3, <1>4 DEF AttemptSucceeds
  <2>2. breaker' \in [Steps -> Breaker] /\ TripsAtThreshold'
    BY <1>4, <2>1, AfterConsistent, ReplaceBreaker DEF AttemptSucceeds
  <2>3. call' \in [Executors -> Call]
    BY <1>4, <1>a DEF AttemptSucceeds, Call, Idle
  <2> QED
    BY <2>2, <2>3, <1>b
<1>5. ASSUME NEW e \in Executors, AttemptRetries(e)
      PROVE  TypeOK' /\ TripsAtThreshold'
  <2>1. call[e].attempts + 1 \in 1..MaxAttempts
    BY <1>3, <1>5, <1>c DEF AttemptRetries
  <2>2. call' \in [Executors -> Call]
    BY <1>5, <1>a, <2>1 DEF AttemptRetries, Call
  <2> QED
    BY <1>5, <1>a, <1>b, <2>2 DEF AttemptRetries, TripsAtThreshold
<1>6. ASSUME NEW e \in Executors, AttemptFails(e)
      PROVE  TypeOK' /\ TripsAtThreshold'
  <2>1. call[e].step \in Steps
    BY <1>3, <1>6 DEF AttemptFails
  <2>2. breaker' \in [Steps -> Breaker] /\ TripsAtThreshold'
    BY <1>6, <2>1, AfterConsistent, ReplaceBreaker DEF AttemptFails
  <2>3. call' \in [Executors -> Call]
    BY <1>6, <1>a DEF AttemptFails, Call, Idle
  <2> QED
    BY <2>2, <2>3, <1>b
<1>7. CASE UNCHANGED vars
  BY <1>7 DEF vars, TypeOK, TripsAtThreshold
<1> QED
  BY <1>1, <1>2, <1>4, <1>5, <1>6, <1>7 DEF Next, ExecuteShortCircuit

LEMMA InitTripsAtThreshold == Init => TypeOK /\ TripsAtThreshold
  BY RecoveryAssumption DEF Init, TypeOK, TripsAtThreshold, Closed, Idle

\* The breakers and the calls are always well typed.
THEOREM BreakerTypeCorrect == Spec => []TypeOK
  BY InitTripsAtThreshold, StepTripsAtThreshold, PTL DEF Spec

\* Whichever calls end late, a breaker is closed exactly when fewer than
\* FailureThreshold failures were recorded since the last success.
THEOREM TripsCorrect == Spec => []TripsAtThreshold
  BY InitTripsAtThreshold, StepTripsAtThreshold, PTL DEF Spec

\* Once nobody is inside, an open breaker stays open for its cool-off.
THEOREM CoolOffCorrect == Spec => OpenLastsCoolOff
<1>1. ASSUME TypeOK, [Next]_vars, NEW s \in Steps, breaker[s].state = "open",
             breaker[s].left > 0, Inside(s) = {}
      PROVE  breaker'[s].state = "open"
  <2>a. breaker \in [Steps -> Breaker] /\ call \in [Executors -> Call]
    BY <1>1 DEF TypeOK, Breaker, Call
  <2>b. breaker[s].left \in Nat
    BY <2>a, RecoveryAssumption DEF Breaker
  <2>1. CASE Tick
    BY <1>1, <2>1, <2>a DEF Tick, Breaker
  <2>2. ASSUME NEW e \in Executors, NEW r \in Steps, ExecuteAllowed(e, r)
        PROVE  breaker'[s].state = "open"
    <3>1. r # s
      BY <1>1, <2>2, <2>b DEF ExecuteAllowed, Allows, CoolOffPassed
    <3> QED
      BY <1>1, <2>2, <2>a, <3>1 DEF ExecuteAllowed
  <2>3. ASSUME NEW e \in Executors, call[e].pc = "attempt"
        PROVE  call[e].step # s
    BY <1>1, <2>3 DEF Inside
  <2>4. ASSUME NEW e \in Executors, AttemptSucceeds(e) \/ AttemptRetries(e) \/ AttemptFails(e)
        PROVE  breaker'[s].state = "open"
    <3>1. call[e].pc = "attempt"
      BY <2>4 DEF AttemptSucceeds, AttemptRetries, AttemptFails
    <3>2. call[e].step # s
      BY <2>3, <3>1
    <3> QED
      BY <1>1, <2>4, <2>a, <3>2 DEF AttemptSucceeds, AttemptRetries, AttemptFails
  <2>5. CASE UNCHANGED vars
    BY <1>1, <2>5 DEF vars
  <2> QED
    BY <1>1, <2>1, <2>2, <2>4, <2>5 DEF Next, ExecuteShortCircuit
<1>2. TypeOK /\ [Next]_vars =>
        [\A s \in Steps :
            breaker[s].state = "open" /\ breaker[s].left > 0 /\ Inside(s) = {}
              => breaker'[s].state = "open"]_vars
  BY <1>1
<1> QED
  BY <1>2, BreakerTypeCorrect, PTL DEF Spec, OpenLastsCoolOff
=============================================================================
