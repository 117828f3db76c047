--------------------------- MODULE Scheduler_proofs ---------------------------
(***************************************************************************)
(* Theorems about the scheduler, for any number of callers, tasks,         *)
(* branches, cancellers and workers and any threshold.                     *)
(***************************************************************************)
EXTENDS Scheduler, FiniteSetTheorems, SequenceTheorems, TLAPS

-----------------------------------------------------------------------------
(* Types *)

LEMMA InitType == Init => TypeOK
<1> SUFFICES ASSUME Init PROVE TypeOK
  OBVIOUS
<1>1. /\ caller \in [Callers -> [pc : {"idle"}]
                      \cup [pc : {"admitted", "submitted"}, task : Tasks]]
      /\ signaller \in [Signallers -> Signal]
  BY DEF Init, Idle, Signal
<1>2. pending \in Seq(All)
  BY DEF Init
<1> QED
  BY <1>1, <1>2 DEF Init, TypeOK

LEMMA ScheduleType ==
  ASSUME TypeOK, ScheduleNext
  PROVE  TypeOK'
<1>1. PICK c \in Callers :
        \/ \E t \in Tasks : ScheduleAdmit(c, t)
        \/ \E t \in Tasks : ScheduleDegrade(c, t)
        \/ ScheduleSubmit(c)
        \/ ScheduleRaises(c)
        \/ ScheduleRegister(c)
  BY DEF ScheduleNext
<1>2. ASSUME NEW t \in Tasks, ScheduleAdmit(c, t)
      PROVE  TypeOK'
  BY <1>2 DEF TypeOK, ScheduleAdmit, poolVars, cancelVars, specVars, Signal
<1>3. ASSUME NEW t \in Tasks, ScheduleDegrade(c, t)
      PROVE  TypeOK'
  BY <1>3 DEF TypeOK, ScheduleDegrade, cancelVars, specVars, Signal, All
<1>4. ASSUME caller[c].pc \in {"admitted", "submitted"}
      PROVE  caller[c].task \in Tasks /\ caller[c].task \in All
  BY <1>4 DEF TypeOK, All
<1>5. CASE ScheduleSubmit(c)
  <2>1. caller[c].task \in Tasks /\ caller[c].task \in All
    BY <1>4, <1>5 DEF ScheduleSubmit
  <2>2. pending' \in Seq(All)
    BY <1>5, <2>1, AppendProperties DEF ScheduleSubmit, Submit, TypeOK
  <2>3. caller' \in [Callers -> [pc : {"idle"}]
                        \cup [pc : {"admitted", "submitted"}, task : Tasks]]
    BY <1>5, <2>1 DEF ScheduleSubmit, TypeOK
  <2> QED
    BY <1>5, <2>1, <2>2, <2>3 DEF TypeOK, ScheduleSubmit, Submit, cancelVars, specVars, Signal
<1>6. CASE ScheduleRaises(c)
  BY <1>4, <1>6 DEF TypeOK, ScheduleRaises, Idle, poolVars, cancelVars, specVars, Signal
<1>7. CASE ScheduleRegister(c)
  BY <1>4, <1>7 DEF TypeOK, ScheduleRegister, Idle, poolVars, cancelVars, specVars, Signal
<1> QED
  BY <1>1, <1>2, <1>3, <1>5, <1>6, <1>7

LEMMA TakeType ==
  ASSUME TypeOK, WorkerTake
  PROVE  TypeOK'
<1>1. Head(pending) \in All /\ Tail(pending) \in Seq(All)
  BY HeadTailProperties DEF TypeOK, WorkerTake
<1>2. /\ future' \in [All -> {"none", "pending", "running", "cancelled", "finished"}]
      /\ wrapper' \in [All -> {"idle", "entered", "registered", "executing", "returning"}]
  BY <1>1 DEF TypeOK, WorkerTake
<1> QED
  BY <1>1, <1>2 DEF TypeOK, WorkerTake, cancelVars, specVars, Signal

LEMMA WrapperType ==
  ASSUME TypeOK, WrapperNext
  PROVE  TypeOK'
<1>1. PICK t \in All :
        \/ WrapperRegister(t)
        \/ WrapperCancelled(t)
        \/ WrapperExecute(t)
        \/ \E outcome \in {"OK", "FAILED"} : WrapperReturn(t, outcome)
        \/ WrapperDone(t)
  BY DEF WrapperNext
<1>2. CASE WrapperRegister(t)
  BY <1>2 DEF TypeOK, WrapperRegister, poolVars, cancelVars, specVars, Signal
<1>3. CASE WrapperCancelled(t)
  BY <1>3 DEF TypeOK, WrapperCancelled, cancelVars, specVars, Signal
<1>4. CASE WrapperExecute(t)
  BY <1>4 DEF TypeOK, WrapperExecute, poolVars, cancelVars, specVars, Signal
<1>5. ASSUME NEW outcome \in {"OK", "FAILED"}, WrapperReturn(t, outcome)
      PROVE  TypeOK'
  BY <1>5 DEF TypeOK, WrapperReturn, poolVars, cancelVars, specVars, Signal
<1>6. CASE WrapperDone(t)
  BY <1>6 DEF TypeOK, WrapperDone, cancelVars, specVars, Signal
<1> QED
  BY <1>1, <1>2, <1>3, <1>4, <1>5, <1>6

LEMMA CancelType ==
  ASSUME TypeOK, CancelNext
  PROVE  TypeOK'
<1>1. PICK k \in Signallers :
        \/ \E t \in All : CancelRead(k, t)
        \/ SignalSet(k)
        \/ SignalCancel(k)
  BY DEF CancelNext
<1>2. ASSUME NEW t \in All, CancelRead(k, t)
      PROVE  TypeOK'
  BY <1>2 DEF TypeOK, CancelRead, poolVars, specVars, Signal
<1>3. ASSUME signaller[k].pc \in {"set", "cancel"}
      PROVE  signaller[k].task \in All
  BY <1>3 DEF TypeOK, Signal
<1>4. CASE SignalSet(k)
  <2>1. signaller' \in [Signallers -> Signal]
    BY <1>4 DEF TypeOK, SignalSet, Signal
  <2> QED
    BY <1>3, <1>4, <2>1 DEF TypeOK, SignalSet, poolVars, specVars
<1>5. CASE SignalCancel(k)
  <2>1. future' \in [All -> {"none", "pending", "running", "cancelled", "finished"}]
    BY <1>3, <1>5 DEF TypeOK, SignalCancel, Cancelled
  <2>2. signaller' \in [Signallers -> Signal]
    BY <1>5 DEF TypeOK, SignalCancel, Signal, Idle
  <2> QED
    BY <1>5, <2>1, <2>2 DEF TypeOK, SignalCancel, specVars
<1> QED
  BY <1>1, <1>2, <1>4, <1>5

LEMMA SpecType ==
  ASSUME TypeOK, SpecNext
  PROVE  TypeOK'
<1> DEFINE Record == [pc : {"idle", "submit", "register", "wait", "cancel", "done", "raised"},
                   todo : SUBSET Branches, completed : SUBSET Branches, timedOut : BOOLEAN]
<1>1. CASE SpecStart
  BY <1>1 DEF TypeOK, SpecStart, poolVars, cancelVars
<1>2. ASSUME NEW b \in Branches, SpecSubmit(b)
      PROVE  TypeOK'
  <2>1. b \in All
    BY DEF All
  <2>2. pending' \in Seq(All)
    BY <1>2, <2>1, AppendProperties DEF SpecSubmit, Submit, TypeOK
  <2>3. parent' \in Record
    BY <1>2 DEF SpecSubmit, TypeOK
  <2> QED
    BY <1>2, <2>1, <2>2, <2>3 DEF TypeOK, SpecSubmit, Submit, cancelVars
<1>3. ASSUME NEW b \in Branches, SpecRaises(b)
      PROVE  TypeOK'
  BY <1>3 DEF TypeOK, SpecRaises, poolVars, cancelVars, All
<1>4. ASSUME NEW b \in Branches, SpecRegister(b)
      PROVE  TypeOK'
  <2>1. parent' \in Record
    BY <1>4 DEF SpecRegister, TypeOK
  <2> QED
    BY <1>4, <2>1 DEF TypeOK, SpecRegister, poolVars, cancelVars, All
<1>5. ASSUME NEW b \in Branches, SpecCollect(b)
      PROVE  TypeOK'
  BY <1>5 DEF TypeOK, SpecCollect, poolVars, cancelVars
<1>6. ASSUME NEW b \in Branches, SpecCancel(b)
      PROVE  TypeOK'
  <2>1. parent' \in Record
    BY <1>6 DEF SpecCancel, TypeOK
  <2>2. [pc |-> "set", task |-> b, event |-> b \in registered, future |-> TRUE] \in Signal
    BY DEF Signal, All
  <2>3. signaller' \in [Signallers -> Signal]
    BY <1>6, <2>2 DEF SpecCancel, TypeOK
  <2> QED
    BY <1>6, <2>1, <2>3 DEF TypeOK, SpecCancel, poolVars
<1>7. CASE SpecAllCollected
  BY <1>7 DEF TypeOK, SpecAllCollected, poolVars, cancelVars
<1>8. CASE SpecTimeout
  BY <1>8 DEF TypeOK, SpecTimeout, poolVars, cancelVars
<1>9. CASE SpecMerge
  BY <1>9 DEF TypeOK, SpecMerge, poolVars, cancelVars
<1> QED
  BY <1>1, <1>2, <1>3, <1>4, <1>5, <1>6, <1>7, <1>8, <1>9 DEF SpecNext

LEMMA ShutdownType ==
  ASSUME TypeOK, NEW cancel_futures \in BOOLEAN, Shutdown(cancel_futures)
  PROVE  TypeOK'
<1>1. \A i \in DOMAIN pending : pending[i] \in All
  BY ElementOfSeq DEF TypeOK
<1>2. pending' \in Seq(All) /\ recalled' \subseteq All
  BY <1>1 DEF TypeOK, Shutdown
<1>3. future' \in [All -> {"none", "pending", "running", "cancelled", "finished"}]
  BY DEF TypeOK, Shutdown, Cancelled
<1> QED
  BY <1>2, <1>3 DEF TypeOK, Shutdown, specVars

LEMMA NextType == TypeOK /\ [Next]_vars => TypeOK'
<1> SUFFICES ASSUME TypeOK, [Next]_vars PROVE TypeOK'
  OBVIOUS
<1>1. CASE UNCHANGED vars
  BY <1>1 DEF vars, TypeOK
<1> QED
  BY <1>1, ScheduleType, TakeType, WrapperType, CancelType, SpecType, ShutdownType DEF Next

\* The scheduler's state is always well typed.
THEOREM SchedulerTypeCorrect == Spec => []TypeOK
  BY InitType, NextType, PTL DEF Spec

-----------------------------------------------------------------------------
(* Backpressure *)

\* The sets that are counted are finite.
LEMMA Counted ==
  ASSUME TypeOK
  PROVE  /\ IsFiniteSet(queue) /\ Cardinality(queue) \in Nat
         /\ IsFiniteSet(Admitted) /\ Cardinality(Admitted) \in Nat
         /\ Cardinality(Admitted) <= Cardinality(Callers)
         /\ Cardinality(Callers) \in Nat \ {0}
<1>1. IsFiniteSet(queue)
  BY SchedulerAssumption, FS_Subset DEF TypeOK
<1>2. Admitted \in SUBSET Callers
  BY DEF Admitted
<1>3. IsFiniteSet(Admitted) /\ Cardinality(Admitted) <= Cardinality(Callers)
  BY <1>2, SchedulerAssumption, FS_Subset
<1>4. Cardinality(Callers) \in Nat \ {0}
  BY SchedulerAssumption, FS_CardinalityType, FS_EmptySet
<1> QED
  BY <1>1, <1>3, <1>4, FS_CardinalityType

LEMMA InitOvershoot == Init => OvershootInv
<1> SUFFICES ASSUME Init PROVE OvershootInv
  OBVIOUS
<1>1. queue = {} /\ Admitted = {}
  BY DEF Init, Admitted, Idle
<1>2. Cardinality(queue) = 0 /\ Cardinality(Admitted) = 0
  BY <1>1, FS_EmptySet
<1>3. Cardinality(Callers) \in Nat \ {0}
  BY SchedulerAssumption, FS_CardinalityType, FS_EmptySet
<1> QED
  BY <1>2, <1>3, SchedulerAssumption DEF OvershootInv

\* A caller that puts its task leaves the set of admitted callers as it does.
LEMMA PutKeepsOvershoot ==
  ASSUME TypeOK, OvershootInv, NEW c \in Callers, caller[c].pc = "admitted",
         queue' = queue \cup {caller[c].task}, Admitted' = Admitted \ {c}
  PROVE  OvershootInv'
<1>1. c \in Admitted
  BY DEF Admitted
<1>2. Cardinality(Admitted') = Cardinality(Admitted) - 1
  BY <1>1, Counted, FS_RemoveElement
<1>3. Cardinality(queue') \in Nat /\ Cardinality(queue') <= Cardinality(queue) + 1
  <2> DEFINE task == caller[c].task
  <2>1. Cardinality(queue \cup {task}) =
           IF task \in queue THEN Cardinality(queue) ELSE Cardinality(queue) + 1
    BY Counted, FS_AddElement
  <2> QED
    BY <2>1, Counted
<1> QED
  BY <1>2, <1>3, Counted, SchedulerAssumption DEF OvershootInv

LEMMA NextOvershoot == TypeOK /\ OvershootInv /\ [Next]_vars => OvershootInv'
<1> SUFFICES ASSUME TypeOK, OvershootInv, [Next]_vars PROVE OvershootInv'
  OBVIOUS
<1>0. TypeOK'
  BY NextType
<1>1. ASSUME NEW c \in Callers, NEW t \in Tasks, ScheduleAdmit(c, t)
      PROVE  OvershootInv'
  <2>1. Cardinality(queue') < BackpressureThreshold /\ Cardinality(queue') \in Nat
    BY <1>1, Counted DEF ScheduleAdmit, Admits
  <2>2. Admitted' \in SUBSET Callers
    BY DEF Admitted
  <2>3. /\ IsFiniteSet(Admitted')
        /\ Cardinality(Admitted') <= Cardinality(Callers)
    BY <2>2, SchedulerAssumption, FS_Subset
  <2>4. Cardinality(Admitted') \in Nat
    BY <2>3, FS_CardinalityType
  <2> QED
    BY <2>1, <2>3, <2>4, Counted, SchedulerAssumption DEF OvershootInv
<1>2. ASSUME NEW c \in Callers, ScheduleSubmit(c) \/ ScheduleRaises(c)
      PROVE  OvershootInv'
  <2>1. Admitted' = Admitted \ {c}
    BY <1>2 DEF Admitted, ScheduleSubmit, ScheduleRaises, Idle, TypeOK
  <2> QED
    BY <1>2, <2>1, PutKeepsOvershoot DEF ScheduleSubmit, ScheduleRaises
<1>3. ASSUME NEW c \in Callers, ScheduleRegister(c)
      PROVE  OvershootInv'
  <2>1. Admitted' = Admitted /\ queue' = queue
    BY <1>3 DEF Admitted, ScheduleRegister, Idle, TypeOK
  <2> QED
    BY <2>1 DEF OvershootInv
<1>4. ASSUME NEW c \in Callers, NEW t \in Tasks, ScheduleDegrade(c, t)
      PROVE  UNCHANGED <<caller, queue>>
  BY <1>4 DEF ScheduleDegrade
<1>5. ASSUME WorkerTake \/ WrapperNext \/ CancelNext
      PROVE  UNCHANGED <<caller, queue>>
  BY <1>5 DEF WorkerTake, WrapperNext, WrapperRegister, WrapperCancelled, WrapperExecute,
              WrapperReturn, WrapperDone, CancelNext, CancelRead, SignalSet, SignalCancel
<1>6. ASSUME SpecNext
      PROVE  UNCHANGED <<caller, queue>>
  BY <1>6 DEF SpecNext, SpecStart, SpecSubmit, SpecRaises, SpecRegister, SpecCollect,
              SpecCancel, SpecAllCollected, SpecTimeout, SpecMerge
<1>7. ASSUME NEW cancel_futures \in BOOLEAN, Shutdown(cancel_futures)
      PROVE  UNCHANGED <<caller, queue>>
  BY <1>7 DEF Shutdown
<1>8. ASSUME UNCHANGED <<caller, queue>>
      PROVE  OvershootInv'
  <2>1. Admitted' = Admitted
    BY <1>8 DEF Admitted
  <2> QED
    BY <1>8, <2>1 DEF OvershootInv
<1> QED
  BY <1>1, <1>2, <1>3, <1>4, <1>5, <1>6, <1>7, <1>8 DEF Next, ScheduleNext, vars

\* The queue never exceeds its threshold by as much as the number of callers.
THEOREM BackpressureCorrect == Spec => []BackpressureBound
<1>1. TypeOK /\ OvershootInv => BackpressureBound
  <2> SUFFICES ASSUME TypeOK, OvershootInv PROVE BackpressureBound
    OBVIOUS
  <2> QED
    BY Counted, SchedulerAssumption DEF OvershootInv, BackpressureBound
<1> QED
  BY <1>1, InitOvershoot, NextOvershoot, SchedulerTypeCorrect, PTL DEF Spec

-----------------------------------------------------------------------------
(* Cancellation *)

SubmitInv == CallersInv /\ ParentInv

LEMMA InitSubmitInv == Init => SubmitInv /\ TasksInv
  BY DEF Init, SubmitInv, CallersInv, ParentInv, TasksInv, TaskInv, Idle, All

\* A step that neither moves a caller nor the parent, and gives no task its
\* future, keeps what they rely on.
LEMMA FuturesKept ==
  ASSUME TypeOK, SubmitInv, UNCHANGED <<caller, parent>>,
         \A t \in All : future'[t] = "none" <=> future[t] = "none"
  PROVE  SubmitInv'
<1>1. CallersInv'
  <2>1. \A c \in Callers : caller[c].pc = "admitted" => caller[c].task \in All
    BY DEF TypeOK, All
  <2> QED
    BY <2>1 DEF SubmitInv, CallersInv
<1>2. ParentInv'
  <2>1. parent.todo \subseteq All /\ Branches \subseteq All
    BY DEF TypeOK, All
  <2> QED
    BY <2>1 DEF SubmitInv, ParentInv
<1> QED
  BY <1>1, <1>2 DEF SubmitInv

LEMMA ScheduleCancelled ==
  ASSUME TypeOK, SubmitInv, TasksInv, NEW c \in Callers,
         \/ \E t \in Tasks : ScheduleAdmit(c, t)
         \/ \E t \in Tasks : ScheduleDegrade(c, t)
         \/ ScheduleSubmit(c)
         \/ ScheduleRaises(c)
         \/ ScheduleRegister(c)
  PROVE  SubmitInv' /\ TasksInv'
<1>0. /\ Tasks \subseteq All /\ Branches \subseteq All /\ Tasks \cap Branches = {}
      /\ parent.todo \subseteq Branches
      /\ \A d \in Callers : caller[d].pc # "idle" => caller[d].task \in Tasks
  BY SchedulerAssumption DEF TypeOK, All
<1>1. ASSUME NEW t \in Tasks, ScheduleAdmit(c, t)
      PROVE  SubmitInv' /\ TasksInv'
  <2>1. /\ caller' = [caller EXCEPT ![c] = [pc |-> "admitted", task |-> t]]
        /\ UNCHANGED <<parent, future, wrapper, result, executed>>
        /\ future[t] = "none"
        /\ \A d \in Callers : caller[d].pc # "idle" => caller[d].task # t
    BY <1>1 DEF ScheduleAdmit, poolVars, specVars, Unscheduled
  <2>2. CallersInv'
    BY <2>1 DEF SubmitInv, CallersInv, TypeOK
  <2> QED
    BY <2>1, <2>2 DEF SubmitInv, ParentInv, TasksInv, TaskInv
<1>2. ASSUME NEW t \in Tasks, ScheduleDegrade(c, t)
      PROVE  SubmitInv' /\ TasksInv'
  <2>1. /\ future' = [future EXCEPT ![t] = "finished"]
        /\ result' = [result EXCEPT ![t] = "DEGRADED_FALLBACK"]
        /\ UNCHANGED <<caller, parent, wrapper, executed>>
        /\ future[t] = "none"
        /\ \A d \in Callers : caller[d].pc # "idle" => caller[d].task # t
    BY <1>2 DEF ScheduleDegrade, specVars, Unscheduled
  <2>2. CallersInv'
    BY <1>0, <2>1 DEF SubmitInv, CallersInv, TypeOK
  <2>3. ParentInv'
    BY <1>0, <2>1 DEF SubmitInv, ParentInv, TypeOK
  <2>4. TasksInv'
    BY <1>0, <2>1 DEF TasksInv, TaskInv, TypeOK
  <2> QED
    BY <2>2, <2>3, <2>4 DEF SubmitInv
<1>3. CASE ScheduleSubmit(c)
  <2> DEFINE t == caller[c].task
  <2>1. /\ caller[c].pc = "admitted"
        /\ future' = [future EXCEPT ![t] = "pending"]
        /\ caller' = [caller EXCEPT ![c].pc = "submitted"]
        /\ UNCHANGED <<parent, wrapper, result, executed>>
        /\ t \in Tasks
        /\ future[t] = "none"
    BY <1>0, <1>3 DEF ScheduleSubmit, Submit, specVars, SubmitInv, CallersInv
  <2>2. \A d \in Callers : /\ caller'[d].pc = "idle" <=> caller[d].pc = "idle"
                           /\ caller[d].pc # "idle" => caller'[d].task = caller[d].task
                           /\ caller'[d].pc = "admitted" => d # c /\ caller[d].pc = "admitted"
    BY <2>1 DEF TypeOK
  <2>3. CallersInv'
    BY <1>0, <2>1, <2>2 DEF SubmitInv, CallersInv, TypeOK
  <2>4. ParentInv'
    BY <1>0, <2>1 DEF SubmitInv, ParentInv, TypeOK
  <2>5. TasksInv'
    BY <1>0, <2>1 DEF TasksInv, TaskInv, TypeOK
  <2> QED
    BY <2>3, <2>4, <2>5 DEF SubmitInv
<1>4. CASE ScheduleRaises(c) \/ ScheduleRegister(c)
  <2>1. /\ caller' = [caller EXCEPT ![c] = Idle]
        /\ UNCHANGED <<parent, future, wrapper, result, executed>>
    BY <1>4 DEF ScheduleRaises, ScheduleRegister, poolVars, specVars
  <2>2. CallersInv'
    BY <2>1 DEF SubmitInv, CallersInv, TypeOK, Idle
  <2> QED
    BY <2>1, <2>2 DEF SubmitInv, ParentInv, TasksInv, TaskInv
<1> QED
  BY <1>1, <1>2, <1>3, <1>4

LEMMA WorkerCancelled ==
  ASSUME TypeOK, SubmitInv, TasksInv, WorkerTake \/ WrapperNext
  PROVE  SubmitInv' /\ TasksInv'
<1>1. CASE WorkerTake
  <2>1. Head(pending) \in All
    BY <1>1, HeadTailProperties DEF TypeOK, WorkerTake
  <2>2. TasksInv'
    BY <1>1, <2>1 DEF WorkerTake, TasksInv, TaskInv, TypeOK
  <2>3. \A t \in All : future'[t] = "none" <=> future[t] = "none"
    BY <1>1, <2>1 DEF WorkerTake, TypeOK
  <2>4. UNCHANGED <<caller, parent>>
    BY <1>1 DEF WorkerTake, specVars
  <2> QED
    BY <2>2, <2>3, <2>4, FuturesKept
<1>2. CASE WrapperNext
  <2>1. PICK t \in All :
          \/ WrapperRegister(t)
          \/ WrapperCancelled(t)
          \/ WrapperExecute(t)
          \/ \E outcome \in {"OK", "FAILED"} : WrapperReturn(t, outcome)
          \/ WrapperDone(t)
    BY <1>2 DEF WrapperNext
  <2>2. UNCHANGED <<caller, parent>>
    BY <2>1 DEF WrapperRegister, WrapperCancelled, WrapperExecute, WrapperReturn,
                WrapperDone, specVars
  <2>3. wrapper[t] # "idle" /\ future[t] = "running"
    BY <2>1 DEF WrapperRegister, WrapperCancelled, WrapperExecute, WrapperReturn,
                WrapperDone, TasksInv, TaskInv
  <2>4. \A x \in All : future'[x] = "none" <=> future[x] = "none"
    BY <2>1, <2>3 DEF WrapperRegister, WrapperCancelled, WrapperExecute, WrapperReturn,
                WrapperDone, poolVars, TypeOK
  <2>5. TasksInv'
    <3>1. CASE WrapperRegister(t)
      BY <3>1 DEF WrapperRegister, poolVars, TasksInv, TaskInv, TypeOK
    <3>2. CASE WrapperCancelled(t)
      BY <3>2 DEF WrapperCancelled, TasksInv, TaskInv, TypeOK
    <3>3. CASE WrapperExecute(t)
      BY <3>3 DEF WrapperExecute, poolVars, TasksInv, TaskInv, TypeOK
    <3>4. ASSUME NEW outcome \in {"OK", "FAILED"}, WrapperReturn(t, outcome)
          PROVE  TasksInv'
      BY <3>4 DEF WrapperReturn, poolVars, TasksInv, TaskInv, TypeOK
    <3>5. CASE WrapperDone(t)
      BY <3>5 DEF WrapperDone, TasksInv, TaskInv, TypeOK
    <3> QED
      BY <2>1, <3>1, <3>2, <3>3, <3>4, <3>5
  <2> QED
    BY <2>2, <2>4, <2>5, FuturesKept
<1> QED
  BY <1>1, <1>2

\* Cancelling futures keeps the invariants: only pending ones change.
LEMMA CancellingKeeps ==
  ASSUME TypeOK, SubmitInv, TasksInv, UNCHANGED <<caller, parent, wrapper, result, executed>>,
         NEW S \in SUBSET All,
         future' = [t \in All |-> IF t \in S THEN Cancelled(t) ELSE future[t]]
  PROVE  SubmitInv' /\ TasksInv'
<1>1. TasksInv'
  BY DEF Cancelled, TasksInv, TaskInv, TypeOK
<1>2. \A t \in All : future'[t] = "none" <=> future[t] = "none"
  BY DEF Cancelled, TypeOK
<1> QED
  BY <1>1, <1>2, FuturesKept

LEMMA CancelCancelled ==
  ASSUME TypeOK, SubmitInv, TasksInv,
         CancelNext \/ \E cancel_futures \in BOOLEAN : Shutdown(cancel_futures)
  PROVE  SubmitInv' /\ TasksInv'
<1>1. ASSUME NEW k \in Signallers, SignalSet(k) \/ \E t \in All : CancelRead(k, t)
      PROVE  SubmitInv' /\ TasksInv'
  <2>1. UNCHANGED <<caller, parent, future, wrapper, result, executed>>
    BY <1>1 DEF SignalSet, CancelRead, poolVars, specVars
  <2> QED
    BY <2>1 DEF SubmitInv, CallersInv, ParentInv, TasksInv, TaskInv
<1>2. ASSUME NEW k \in Signallers, SignalCancel(k)
      PROVE  SubmitInv' /\ TasksInv'
  <2> DEFINE S == IF signaller[k].future THEN {signaller[k].task} ELSE {}
  <2>1. signaller[k].task \in All
    BY <1>2 DEF SignalCancel, TypeOK, Signal
  <2>2. future' = [t \in All |-> IF t \in S THEN Cancelled(t) ELSE future[t]]
    BY <1>2, <2>1 DEF SignalCancel, TypeOK
  <2>3. UNCHANGED <<caller, parent, wrapper, result, executed>>
    BY <1>2 DEF SignalCancel, specVars
  <2>4. S \in SUBSET All
    BY <2>1
  <2> HIDE DEF S
  <2> QED
    BY <2>2, <2>3, <2>4, CancellingKeeps
<1>3. ASSUME NEW cancel_futures \in BOOLEAN, Shutdown(cancel_futures)
      PROVE  SubmitInv' /\ TasksInv'
  <2> DEFINE S == IF cancel_futures THEN {pending[i] : i \in DOMAIN pending} ELSE {}
  <2>1. S \in SUBSET All
    BY ElementOfSeq DEF TypeOK
  <2>2. future' = [t \in All |-> IF t \in S THEN Cancelled(t) ELSE future[t]]
    BY <1>3 DEF Shutdown
  <2>3. UNCHANGED <<caller, parent, wrapper, result, executed>>
    BY <1>3 DEF Shutdown, specVars
  <2> HIDE DEF S
  <2> QED
    BY <2>1, <2>2, <2>3, CancellingKeeps
<1> QED
  BY <1>1, <1>2, <1>3 DEF CancelNext

LEMMA SpecCancelled ==
  ASSUME TypeOK, SubmitInv, TasksInv, SpecNext
  PROVE  SubmitInv' /\ TasksInv'
<1>0. /\ Tasks \cap Branches = {} /\ Branches \subseteq All
      /\ parent.todo \subseteq Branches
      /\ \A c \in Callers : caller[c].pc # "idle" => caller[c].task \in Tasks
  BY SchedulerAssumption DEF TypeOK, All
<1>1. ASSUME NEW b \in Branches, SpecSubmit(b)
      PROVE  SubmitInv' /\ TasksInv'
  <2>1. /\ future[b] = "none"
        /\ future' = [future EXCEPT ![b] = "pending"]
        /\ parent.pc = "submit" /\ parent'.pc = "register" /\ parent'.todo = parent.todo
        /\ \A x \in parent.todo : future[x] = "none"
        /\ UNCHANGED <<caller, wrapper, result, executed>>
    BY <1>1 DEF SpecSubmit, Submit, SubmitInv, ParentInv, TypeOK
  <2>2. CallersInv'
    BY <1>0, <2>1 DEF SubmitInv, CallersInv, TypeOK
  <2>3. ParentInv'
    BY <1>0, <2>1 DEF ParentInv, TypeOK
  <2>4. TasksInv'
    BY <1>0, <2>1 DEF TasksInv, TaskInv, TypeOK
  <2> QED
    BY <2>2, <2>3, <2>4 DEF SubmitInv
<1>2. ASSUME UNCHANGED <<caller, future, wrapper, result, executed>>
      PROVE  CallersInv' /\ TasksInv'
  BY <1>2 DEF SubmitInv, CallersInv, TasksInv, TaskInv
<1>3. CASE SpecStart
  <2>1. ParentInv'
    BY <1>3 DEF SpecStart, poolVars, SubmitInv, ParentInv, TypeOK
  <2> QED
    BY <1>2, <1>3, <2>1 DEF SpecStart, poolVars, SubmitInv
<1>4. ASSUME NEW b \in Branches, SpecRegister(b)
      PROVE  SubmitInv' /\ TasksInv'
  <2>1. /\ b \in parent.todo /\ future[b] # "none" /\ parent.pc = "register"
        /\ parent'.todo = parent.todo \ {b}
        /\ parent'.pc \in {"wait", "submit"}
        /\ UNCHANGED future
    BY <1>4 DEF SpecRegister, poolVars, TypeOK
  <2>2. ParentInv'
    BY <2>1 DEF SubmitInv, ParentInv
  <2> QED
    BY <1>2, <1>4, <2>2 DEF SpecRegister, poolVars, SubmitInv
<1>5. ASSUME \/ \E b \in Branches : SpecRaises(b) \/ SpecCollect(b) \/ SpecCancel(b)
             \/ SpecAllCollected \/ SpecTimeout \/ SpecMerge
      PROVE  SubmitInv' /\ TasksInv'
  <2>1. parent'.pc \in {"raised", "wait", "cancel", "done"}
    BY <1>5 DEF SpecRaises, SpecCollect, SpecCancel, SpecAllCollected, SpecTimeout,
                SpecMerge, TypeOK
  <2>2. ParentInv'
    BY <2>1 DEF ParentInv
  <2>3. UNCHANGED <<caller, future, wrapper, result, executed>>
    BY <1>5 DEF SpecRaises, SpecCollect, SpecCancel, SpecAllCollected, SpecTimeout,
                SpecMerge, poolVars
  <2> QED
    BY <1>2, <2>2, <2>3 DEF SubmitInv
<1> QED
  BY <1>1, <1>3, <1>4, <1>5 DEF SpecNext

LEMMA NextCancelled ==
  TypeOK /\ SubmitInv /\ TasksInv /\ [Next]_vars => SubmitInv' /\ TasksInv'
<1> SUFFICES ASSUME TypeOK, SubmitInv, TasksInv, [Next]_vars
             PROVE  SubmitInv' /\ TasksInv'
  OBVIOUS
<1>1. CASE UNCHANGED vars
  BY <1>1 DEF vars, SubmitInv, CallersInv, ParentInv, TasksInv, TaskInv
<1>2. CASE ScheduleNext
  BY <1>2, ScheduleCancelled DEF ScheduleNext
<1> QED
  BY <1>1, <1>2, WorkerCancelled, CancelCancelled, SpecCancelled DEF Next

\* A future that says its task was cancelled belongs to a task that never ran.
THEOREM CancellationCorrect == Spec => []CancelledNeverExecuted
<1>1. TasksInv => CancelledNeverExecuted
  BY DEF TasksInv, TaskInv, CancelledNeverExecuted
<1> QED
  BY <1>1, InitSubmitInv, NextCancelled, SchedulerTypeCorrect, PTL DEF Spec

-----------------------------------------------------------------------------
(* Cancellation events *)

\* An event is registered for a task that has not been entered, and the finally
\* block removes it before the wrapper is done.
LEMMA NextLeak ==
  TypeOK /\ SubmitInv /\ TasksInv /\ LeakInv /\ [Next]_vars => LeakInv'
<1> SUFFICES ASSUME TypeOK, SubmitInv, TasksInv, LeakInv, [Next]_vars
             PROVE  LeakInv'
  OBVIOUS
<1>0. /\ Tasks \subseteq All /\ Branches \subseteq All
      /\ executed \subseteq All /\ parent.todo \subseteq Branches
  BY DEF TypeOK, All
<1>1. ASSUME UNCHANGED <<executed, wrapper, registered>>
      PROVE  LeakInv'
  BY <1>1 DEF LeakInv
<1>2. ASSUME NEW c \in Callers,
             \/ \E t \in Tasks : ScheduleAdmit(c, t) \/ ScheduleDegrade(c, t)
             \/ ScheduleSubmit(c) \/ ScheduleRaises(c) \/ ScheduleRegister(c)
      PROVE  LeakInv'
  BY <1>1, <1>2 DEF ScheduleAdmit, ScheduleDegrade, ScheduleSubmit, ScheduleRaises,
     ScheduleRegister
<1>3. CASE WorkerTake
  <2>1. /\ UNCHANGED <<executed, registered>>
        /\ \/ UNCHANGED wrapper
           \/ \E t \in All : future[t] = "pending"
                            /\ wrapper' = [wrapper EXCEPT ![t] = "entered"]
    BY <1>3 DEF WorkerTake, TypeOK
  <2>2. ASSUME NEW t \in All, future[t] = "pending" PROVE t \notin executed
    BY <2>2 DEF TasksInv, TaskInv
  <2> QED
    BY <1>0, <2>1, <2>2 DEF LeakInv, TypeOK
<1>4. ASSUME NEW t \in All,
             \/ WrapperRegister(t) \/ WrapperCancelled(t) \/ WrapperExecute(t)
             \/ \E outcome \in {"OK", "FAILED"} : WrapperReturn(t, outcome)
             \/ WrapperDone(t)
      PROVE  LeakInv'
  <2>1. CASE WrapperRegister(t)
    <3>1. t \notin executed
      BY <2>1 DEF WrapperRegister, TasksInv, TaskInv
    <3> QED
      BY <1>0, <2>1, <3>1 DEF WrapperRegister, LeakInv, TypeOK
  <2>2. CASE WrapperCancelled(t)
    BY <1>0, <2>2 DEF WrapperCancelled, LeakInv, TypeOK, TasksInv, TaskInv
  <2>3. CASE WrapperExecute(t)
    BY <1>0, <2>3 DEF WrapperExecute, LeakInv, TypeOK
  <2>4. CASE \E outcome \in {"OK", "FAILED"} : WrapperReturn(t, outcome)
    BY <1>0, <2>4 DEF WrapperReturn, LeakInv, TypeOK
  <2>5. CASE WrapperDone(t)
    BY <1>0, <2>5 DEF WrapperDone, LeakInv, TypeOK
  <2> QED
    BY <1>4, <2>1, <2>2, <2>3, <2>4, <2>5
<1>5. CASE SpecNext
  <2>1. ASSUME NEW b \in Branches, SpecSubmit(b) \/ SpecRaises(b)
        PROVE  LeakInv'
    <3>1. b \notin executed
      BY <1>0, <2>1 DEF SpecSubmit, SpecRaises, SubmitInv, ParentInv, TasksInv, TaskInv
    <3> QED
      BY <2>1, <3>1 DEF SpecSubmit, SpecRaises, LeakInv
  <2> QED
    BY <1>1, <1>5, <2>1 DEF SpecNext, SpecStart, SpecRegister, SpecCollect, SpecAllCollected,
       SpecTimeout, SpecCancel, SpecMerge
<1>6. CASE CancelNext
  BY <1>1, <1>6 DEF CancelNext, SignalSet, SignalCancel, CancelRead
<1>7. CASE \E cancel_futures \in BOOLEAN : Shutdown(cancel_futures)
  BY <1>1, <1>7 DEF Shutdown
<1>8. CASE UNCHANGED vars
  BY <1>1, <1>8 DEF vars
<1> QED
  BY <1>2, <1>3, <1>4, <1>5, <1>6, <1>7, <1>8 DEF Next, ScheduleNext, WrapperNext

\* A task whose function was entered leaves no cancellation event behind.
THEOREM LeakCorrect == Spec => []OnlyCancelledLeak
<1>1. Init => LeakInv
  BY DEF Init, LeakInv
<1>2. TypeOK /\ TasksInv /\ LeakInv => OnlyCancelledLeak
  BY DEF TypeOK, TasksInv, TaskInv, LeakInv, OnlyCancelledLeak, Done
<1> QED
  BY <1>1, <1>2, InitSubmitInv, NextCancelled, NextLeak, SchedulerTypeCorrect, PTL DEF Spec

-----------------------------------------------------------------------------
(* run_speculative *)

LEMMA BranchFacts ==
  ASSUME TypeOK
  PROVE  /\ Branches \subseteq All /\ Tasks \subseteq All /\ Tasks \cap Branches = {}
         /\ \A c \in Callers : caller[c].pc # "idle" => caller[c].task \in Tasks
         /\ \A k \in Signallers : signaller[k].pc # "idle" => signaller[k].task \in All
  BY SchedulerAssumption DEF TypeOK, All, Signal

\* Only a future that has none gets one, only a pending one is cancelled or
\* taken, only a running one finishes, and results change while it runs.
LEMMA SettledStays ==
  ASSUME TypeOK, SubmitInv, TasksInv, [Next]_vars, NEW t \in All, Done(t)
  PROVE  future'[t] = future[t] /\ result'[t] = result[t] /\ Done(t)'
<1> SUFFICES future'[t] = future[t] /\ result'[t] = result[t]
  BY DEF Done
<1>0. future[t] \in {"finished", "cancelled"}
  BY DEF Done
<1>1. CASE UNCHANGED vars
  BY <1>1 DEF vars
<1>2. ASSUME NEW c \in Callers, NEW x \in Tasks, ScheduleAdmit(c, x) \/ ScheduleDegrade(c, x)
      PROVE  future'[t] = future[t] /\ result'[t] = result[t]
  BY <1>0, <1>2, BranchFacts DEF ScheduleAdmit, ScheduleDegrade, Unscheduled, poolVars, TypeOK
<1>3. ASSUME NEW c \in Callers, ScheduleSubmit(c)
      PROVE  future'[t] = future[t] /\ result'[t] = result[t]
  <2>1. caller[c].pc = "admitted" /\ future[caller[c].task] = "none"
    BY <1>3 DEF ScheduleSubmit, SubmitInv, CallersInv
  <2>2. future' = [future EXCEPT ![caller[c].task] = "pending"] /\ UNCHANGED result
    BY <1>3 DEF ScheduleSubmit, Submit
  <2> QED  BY <1>0, <2>1, <2>2 DEF TypeOK
<1>4. ASSUME NEW c \in Callers, ScheduleRaises(c) \/ ScheduleRegister(c)
      PROVE  future'[t] = future[t] /\ result'[t] = result[t]
  BY <1>4 DEF ScheduleRaises, ScheduleRegister, poolVars
<1>5. CASE WorkerTake
  BY <1>0, <1>5 DEF WorkerTake, TypeOK
<1>6. ASSUME NEW x \in All,
             \/ WrapperRegister(x) \/ WrapperCancelled(x) \/ WrapperExecute(x)
             \/ WrapperDone(x) \/ \E outcome \in {"OK", "FAILED"} : WrapperReturn(x, outcome)
      PROVE  future'[t] = future[t] /\ result'[t] = result[t]
  <2>1. wrapper[x] # "idle" /\ future[x] = "running"
    BY <1>6 DEF WrapperRegister, WrapperCancelled, WrapperExecute, WrapperReturn,
                WrapperDone, TasksInv, TaskInv
  <2>2. x # t
    BY <1>0, <2>1
  <2> QED
    BY <1>6, <2>2 DEF WrapperRegister, WrapperCancelled, WrapperExecute, WrapperReturn,
                WrapperDone, poolVars, TypeOK
<1>7. ASSUME NEW k \in Signallers, SignalSet(k) \/ SignalCancel(k) \/ \E x \in All : CancelRead(k, x)
      PROVE  future'[t] = future[t] /\ result'[t] = result[t]
  BY <1>0, <1>7 DEF SignalSet, SignalCancel, CancelRead, Cancelled, poolVars, TypeOK
<1>8. ASSUME NEW b \in Branches, SpecSubmit(b)
      PROVE  future'[t] = future[t] /\ result'[t] = result[t]
  <2>1. future[b] = "none"
    BY <1>8 DEF SpecSubmit, SubmitInv, ParentInv
  <2>2. future' = [future EXCEPT ![b] = "pending"] /\ UNCHANGED result
    BY <1>8 DEF SpecSubmit, Submit
  <2> QED  BY <1>0, <2>1, <2>2 DEF TypeOK
<1>9. ASSUME \/ SpecStart \/ SpecAllCollected \/ SpecTimeout \/ SpecMerge
             \/ \E b \in Branches : SpecRaises(b) \/ SpecRegister(b) \/ SpecCollect(b) \/ SpecCancel(b)
      PROVE  future'[t] = future[t] /\ result'[t] = result[t]
  BY <1>9 DEF SpecStart, SpecAllCollected, SpecTimeout, SpecMerge, SpecRaises, SpecRegister,
              SpecCollect, SpecCancel, poolVars
<1>10. ASSUME NEW cancel_futures \in BOOLEAN, Shutdown(cancel_futures)
       PROVE  future'[t] = future[t] /\ result'[t] = result[t]
  BY <1>0, <1>10 DEF Shutdown, Cancelled
<1> QED
  BY <1>1, <1>2, <1>3, <1>4, <1>5, <1>6, <1>7, <1>8, <1>9, <1>10
  DEF Next, ScheduleNext, WrapperNext, CancelNext, SpecNext

\* A step that runs no wrapper and finishes no branch keeps its outcome.
LEMMA OutcomeKept ==
  ASSUME NEW b, OutcomeInv(b), UNCHANGED <<wrapper, executed>>, result'[b] = result[b],
         future'[b] = "finished" => future[b] = "finished"
  PROVE  OutcomeInv(b)'
  BY DEF OutcomeInv

LEMMA OutcomeStep ==
  ASSUME TypeOK, TasksInv, NEW b \in Branches, OutcomeInv(b), [Next]_vars
  PROVE  OutcomeInv(b)'
<1>0. b \in All /\ b \notin Tasks
  BY BranchFacts
<1>1. CASE UNCHANGED vars
  BY <1>1, OutcomeKept DEF vars
<1>2. ASSUME NEW c \in Callers, NEW x \in Tasks, ScheduleAdmit(c, x) \/ ScheduleDegrade(c, x)
      PROVE  OutcomeInv(b)'
  <2>1. x # b
    BY <1>0
  <2>2. UNCHANGED <<wrapper, executed>> /\ future'[b] = future[b] /\ result'[b] = result[b]
    BY <1>0, <1>2, <2>1 DEF ScheduleAdmit, ScheduleDegrade, poolVars, TypeOK
  <2> QED  BY <2>2, OutcomeKept
<1>3. ASSUME NEW c \in Callers, ScheduleSubmit(c) \/ ScheduleRaises(c) \/ ScheduleRegister(c)
      PROVE  OutcomeInv(b)'
  <2>1. UNCHANGED <<wrapper, executed, result>>
    BY <1>3 DEF ScheduleSubmit, ScheduleRaises, ScheduleRegister
  <2>2. future'[b] = "finished" => future[b] = "finished"
    BY <1>0, <1>3 DEF ScheduleSubmit, ScheduleRaises, ScheduleRegister, Submit, poolVars, TypeOK
  <2> QED  BY <2>1, <2>2, OutcomeKept
<1>4. CASE WorkerTake
  BY <1>0, <1>4 DEF WorkerTake, OutcomeInv, TypeOK
<1>5. ASSUME NEW x \in All,
             \/ WrapperRegister(x) \/ WrapperCancelled(x) \/ WrapperExecute(x)
             \/ WrapperDone(x) \/ \E outcome \in {"OK", "FAILED"} : WrapperReturn(x, outcome)
      PROVE  OutcomeInv(b)'
  <2>1. CASE x = b
    <3>1. CASE WrapperRegister(b)
      BY <1>0, <3>1 DEF WrapperRegister, poolVars, OutcomeInv, TypeOK
    <3>2. CASE WrapperCancelled(b)
      BY <1>0, <3>2 DEF WrapperCancelled, OutcomeInv, TypeOK
    <3>3. CASE WrapperExecute(b)
      BY <1>0, <3>3 DEF WrapperExecute, poolVars, OutcomeInv, TypeOK
    <3>4. ASSUME NEW outcome \in {"OK", "FAILED"}, WrapperReturn(b, outcome)
          PROVE  OutcomeInv(b)'
      BY <1>0, <3>4 DEF WrapperReturn, poolVars, OutcomeInv, TypeOK
    <3>5. CASE WrapperDone(b)
      BY <1>0, <3>5 DEF WrapperDone, OutcomeInv, TypeOK
    <3> QED
      BY <1>5, <2>1, <3>1, <3>2, <3>3, <3>4, <3>5
  <2>2. CASE x # b
    <3>1. /\ wrapper'[b] = wrapper[b] /\ result'[b] = result[b] /\ future'[b] = future[b]
          /\ b \in executed' <=> b \in executed
      BY <1>0, <1>5, <2>2 DEF WrapperRegister, WrapperCancelled, WrapperExecute, WrapperReturn,
                WrapperDone, poolVars, TypeOK
    <3> QED  BY <3>1 DEF OutcomeInv
  <2> QED  BY <2>1, <2>2
<1>6. ASSUME NEW k \in Signallers, SignalSet(k) \/ SignalCancel(k) \/ \E x \in All : CancelRead(k, x)
      PROVE  OutcomeInv(b)'
  <2>1. UNCHANGED <<wrapper, executed, result>>
    BY <1>6 DEF SignalSet, SignalCancel, CancelRead
  <2>2. future'[b] = "finished" => future[b] = "finished"
    BY <1>0, <1>6 DEF SignalSet, SignalCancel, CancelRead, Cancelled, poolVars, TypeOK
  <2> QED  BY <2>1, <2>2, OutcomeKept
<1>7. CASE SpecNext
  <2>1. UNCHANGED <<wrapper, executed, result>>
    BY <1>7 DEF SpecNext, SpecStart, SpecAllCollected, SpecTimeout, SpecMerge, SpecRaises,
                SpecRegister, SpecCollect, SpecCancel, SpecSubmit
  <2>2. future'[b] = "finished" => future[b] = "finished"
    <3>1. ASSUME NEW x \in Branches, SpecSubmit(x)
          PROVE  future'[b] = "finished" => future[b] = "finished"
      BY <1>0, <3>1 DEF SpecSubmit, Submit, TypeOK
    <3>2. ASSUME \/ SpecStart \/ SpecAllCollected \/ SpecTimeout \/ SpecMerge
                 \/ \E x \in Branches : SpecRaises(x) \/ SpecRegister(x) \/ SpecCollect(x) \/ SpecCancel(x)
          PROVE  UNCHANGED future
      BY <3>2 DEF SpecStart, SpecAllCollected, SpecTimeout, SpecMerge, SpecRaises, SpecRegister,
                  SpecCollect, SpecCancel, poolVars
    <3> QED  BY <1>7, <3>1, <3>2 DEF SpecNext
  <2> QED  BY <2>1, <2>2, OutcomeKept
<1>8. ASSUME NEW cancel_futures \in BOOLEAN, Shutdown(cancel_futures)
      PROVE  OutcomeInv(b)'
  BY <1>0, <1>8, OutcomeKept DEF Shutdown, Cancelled
<1> QED
  BY <1>1, <1>2, <1>3, <1>4, <1>5, <1>6, <1>7, <1>8
  DEF Next, ScheduleNext, WrapperNext, CancelNext
\* A step of neither a canceller nor the parent, which sets no event, cancels no
\* future of a branch and gives no branch the result "CANCELLED".
LEMMA DisturbKept ==
  ASSUME DisturbInv, UNCHANGED <<signaller, recalled, signalled, parent>>,
         \A b \in Branches : Done(b) => Done(b)',
         \A b \in Branches \ recalled : ~parent.timedOut =>
            /\ future'[b] = "cancelled" => future[b] = "cancelled"
            /\ result'[b] = "CANCELLED" => result[b] = "CANCELLED"
  PROVE  DisturbInv'
  BY DEF DisturbInv

LEMMA DisturbStep ==
  ASSUME TypeOK, SubmitInv, TasksInv, DisturbInv, CollectInv, [Next]_vars
  PROVE  DisturbInv'
<1>0. /\ Branches \subseteq All /\ Tasks \cap Branches = {}
      /\ Cancellers \subseteq Signallers /\ Parent \in Signallers /\ Parent \notin Cancellers
  BY BranchFacts, SchedulerAssumption DEF Signallers
<1>d. \A b \in Branches : Done(b) => Done(b)'
  BY <1>0, SettledStays
<1>1. CASE UNCHANGED vars
  BY <1>1, <1>d, DisturbKept DEF vars
<1>2. ASSUME NEW c \in Callers, NEW x \in Tasks, ScheduleAdmit(c, x) \/ ScheduleDegrade(c, x)
      PROVE  DisturbInv'
  <2>1. \A b \in Branches : future'[b] = future[b] /\ result'[b] = result[b]
    BY <1>0, <1>2 DEF ScheduleAdmit, ScheduleDegrade, poolVars, TypeOK
  <2>2. UNCHANGED <<signaller, recalled, signalled, parent>>
    BY <1>2 DEF ScheduleAdmit, ScheduleDegrade, cancelVars, specVars
  <2> QED  BY <1>d, <2>1, <2>2, DisturbKept
<1>3. ASSUME NEW c \in Callers, ScheduleSubmit(c) \/ ScheduleRaises(c) \/ ScheduleRegister(c)
      PROVE  DisturbInv'
  <2>1. \A b \in Branches : /\ future'[b] = "cancelled" => future[b] = "cancelled"
                            /\ result'[b] = result[b]
    BY <1>0, <1>3 DEF ScheduleSubmit, ScheduleRaises, ScheduleRegister, Submit, poolVars, TypeOK
  <2>2. UNCHANGED <<signaller, recalled, signalled, parent>>
    BY <1>3 DEF ScheduleSubmit, ScheduleRaises, ScheduleRegister, cancelVars, specVars
  <2> QED  BY <1>d, <2>1, <2>2, DisturbKept
<1>4. CASE WorkerTake
  <2>1. \A b \in Branches : /\ future'[b] = "cancelled" => future[b] = "cancelled"
                            /\ result'[b] = result[b]
    BY <1>0, <1>4 DEF WorkerTake, TypeOK
  <2>2. UNCHANGED <<signaller, recalled, signalled, parent>>
    BY <1>4 DEF WorkerTake, cancelVars, specVars
  <2> QED  BY <1>d, <2>1, <2>2, DisturbKept
<1>5. ASSUME NEW x \in All,
             \/ WrapperRegister(x) \/ WrapperCancelled(x) \/ WrapperExecute(x)
             \/ WrapperDone(x) \/ \E outcome \in {"OK", "FAILED"} : WrapperReturn(x, outcome)
      PROVE  DisturbInv'
  <2>1. UNCHANGED <<signaller, recalled, signalled, parent>>
    BY <1>5 DEF WrapperRegister, WrapperCancelled, WrapperExecute, WrapperReturn, WrapperDone,
                cancelVars, specVars
  <2>2. \A b \in Branches : future'[b] = "cancelled" => future[b] = "cancelled"
    BY <1>0, <1>5 DEF WrapperRegister, WrapperCancelled, WrapperExecute, WrapperReturn,
                WrapperDone, poolVars, TypeOK
  <2>3. ASSUME NEW b \in Branches \ recalled, ~parent.timedOut, result'[b] = "CANCELLED"
        PROVE  result[b] = "CANCELLED"
    <3>1. CASE WrapperCancelled(x)
      <4>1. x \in signalled /\ ~Done(x)
        BY <3>1 DEF WrapperCancelled, TasksInv, TaskInv, Done
      <4>2. x # b
        BY <2>3, <4>1 DEF DisturbInv
      <4> QED  BY <1>0, <2>3, <3>1, <4>2 DEF WrapperCancelled, TypeOK
    <3>2. CASE ~WrapperCancelled(x)
      BY <1>0, <1>5, <2>3, <3>2 DEF WrapperRegister, WrapperExecute, WrapperReturn,
                WrapperDone, TypeOK
    <3> QED  BY <3>1, <3>2
  <2> QED  BY <1>d, <2>1, <2>2, <2>3, DisturbKept
<1>6. ASSUME NEW k \in Signallers, NEW x \in All, CancelRead(k, x)
      PROVE  DisturbInv'
  <2>1. /\ k \in Cancellers /\ recalled' = recalled \cup {x}
        /\ UNCHANGED <<signalled, parent, future, result>>
    BY <1>6 DEF CancelRead, poolVars, specVars
  <2>2. /\ signaller'[k].task = x
        /\ \A j \in Signallers : j # k => signaller'[j] = signaller[j]
    BY <1>6 DEF CancelRead, TypeOK
  <2>3. \A j \in Cancellers : signaller'[j].pc # "idle" => signaller'[j].task \in recalled'
    BY <1>0, <2>1, <2>2 DEF DisturbInv
  <2>4. signaller'[Parent] = signaller[Parent]
    BY <1>0, <2>1, <2>2
  <2> QED
    BY <2>1, <2>3, <2>4 DEF DisturbInv, Done
<1>7. ASSUME NEW k \in Signallers, SignalSet(k)
      PROVE  DisturbInv'
  <2>1. /\ signaller[k].pc = "set"
        /\ UNCHANGED <<recalled, parent, future, result>>
        /\ \A b \in signalled' : b \in signalled \/ b = signaller[k].task
    BY <1>7 DEF SignalSet, poolVars, specVars
  <2>2. /\ signaller'[k].task = signaller[k].task
        /\ \A j \in Signallers : j # k => signaller'[j] = signaller[j]
    BY <1>7 DEF SignalSet, TypeOK, Signal
  <2>3. \A j \in Cancellers : signaller'[j].pc # "idle" => signaller'[j].task \in recalled
    BY <1>0, <2>1, <2>2 DEF DisturbInv
  <2>4. signaller'[Parent].pc # "idle" => parent.pc = "cancel" /\ signaller'[Parent].task \in Branches
    BY <1>0, <2>1, <2>2 DEF DisturbInv
  <2>5. ASSUME NEW b \in Branches \ recalled, ~parent.timedOut, b \in signalled'
        PROVE  Done(b)
    <3>1. CASE b \in signalled
      BY <2>5, <3>1 DEF DisturbInv
    <3>2. CASE b = signaller[k].task
      <4>1. k = Parent
        BY <2>1, <2>5, <3>2 DEF DisturbInv, Signallers
      <4>2. parent.pc = "cancel"
        BY <2>1, <4>1 DEF DisturbInv
      <4> QED  BY <2>5, <4>2 DEF CollectInv
    <3> QED  BY <2>1, <2>5, <3>1, <3>2
  <2> QED
    BY <2>1, <2>3, <2>4, <2>5 DEF DisturbInv, Done
<1>8. ASSUME NEW k \in Signallers, SignalCancel(k)
      PROVE  DisturbInv'
  <2>1. /\ signaller[k].pc = "cancel"
        /\ UNCHANGED <<recalled, signalled, parent, result>>
    BY <1>8 DEF SignalCancel, specVars
  <2>2. /\ signaller'[k].pc = "idle"
        /\ \A j \in Signallers : j # k => signaller'[j] = signaller[j]
    BY <1>8 DEF SignalCancel, TypeOK, Idle
  <2>3. ASSUME NEW b \in Branches \ recalled, ~parent.timedOut
        PROVE  future'[b] # "cancelled"
    <3>1. CASE b = signaller[k].task
      <4>1. k = Parent
        BY <2>1, <2>3, <3>1 DEF DisturbInv, Signallers
      <4>2. parent.pc = "cancel"
        BY <2>1, <4>1 DEF DisturbInv
      <4>3. Done(b)
        BY <2>3, <4>2 DEF CollectInv
      <4> QED  BY <1>0, <2>3, <4>3, SettledStays DEF DisturbInv
    <3>2. CASE b # signaller[k].task
      <4>1. future'[b] = future[b]
        BY <1>0, <1>8, <2>3, <3>2 DEF SignalCancel, TypeOK
      <4> QED  BY <2>3, <4>1 DEF DisturbInv
    <3> QED  BY <3>1, <3>2
  <2> QED
    BY <1>0, <1>d, <2>1, <2>2, <2>3 DEF DisturbInv
<1>9. ASSUME NEW b \in Branches, SpecSubmit(b)
      PROVE  DisturbInv'
  <2>1. /\ UNCHANGED <<signaller, recalled, signalled, result>>
        /\ future' = [future EXCEPT ![b] = "pending"]
        /\ parent.pc = "submit" /\ parent'.timedOut = parent.timedOut
    BY <1>9 DEF SpecSubmit, Submit, cancelVars, TypeOK
  <2>2. \A x \in Branches : future'[x] = "cancelled" => future[x] = "cancelled"
    BY <1>0, <2>1 DEF TypeOK
  <2> QED
    BY <1>d, <2>1, <2>2 DEF DisturbInv
<1>10. ASSUME NEW b \in Branches, SpecCancel(b)
       PROVE  DisturbInv'
  <2>1. /\ UNCHANGED <<recalled, signalled, result, future>>
        /\ parent.pc = "cancel" /\ parent'.pc = "cancel" /\ parent'.timedOut = parent.timedOut
        /\ signaller'[Parent].task = b
        /\ \A j \in Signallers : j # Parent => signaller'[j] = signaller[j]
    BY <1>0, <1>10 DEF SpecCancel, poolVars, TypeOK
  <2> QED
    BY <1>0, <2>1 DEF DisturbInv, Done
<1>11. ASSUME \/ SpecStart \/ SpecAllCollected \/ SpecTimeout \/ SpecMerge
              \/ \E b \in Branches : SpecRaises(b) \/ SpecRegister(b) \/ SpecCollect(b)
       PROVE  DisturbInv'
  <2>1. /\ UNCHANGED <<recalled, signalled, signaller, result, future>>
        /\ parent'.timedOut = parent.timedOut \/ parent'.timedOut
    BY <1>11 DEF SpecStart, SpecAllCollected, SpecTimeout, SpecMerge, SpecRaises, SpecRegister,
                 SpecCollect, poolVars, cancelVars, TypeOK
  <2>2. signaller[Parent].pc = "idle" \/ parent'.pc = "cancel"
    BY <1>11 DEF SpecStart, SpecAllCollected, SpecTimeout, SpecMerge, SpecRaises, SpecRegister,
                 SpecCollect, TypeOK, DisturbInv
  <2> QED
    BY <2>1, <2>2 DEF DisturbInv, Done
<1>12. ASSUME NEW cancel_futures \in BOOLEAN, Shutdown(cancel_futures)
       PROVE  DisturbInv'
  <2> DEFINE dropped == IF cancel_futures THEN {pending[i] : i \in DOMAIN pending} ELSE {}
  <2>1. /\ UNCHANGED <<signaller, signalled, parent, result>>
        /\ recalled' = recalled \cup dropped
        /\ \A t \in All : t \notin dropped => future'[t] = future[t]
    BY <1>12 DEF Shutdown, specVars
  <2> HIDE DEF dropped
  <2> QED
    BY <1>0, <1>d, <2>1 DEF DisturbInv
<1> QED
  BY <1>1, <1>2, <1>3, <1>4, <1>5, <1>6, <1>7, <1>8, <1>9, <1>10, <1>11, <1>12
  DEF Next, ScheduleNext, WrapperNext, CancelNext, SpecNext

\* Every step but the parent's own leaves what it knows and concluded alone.
LEMMA CollectStep ==
  ASSUME TypeOK, SubmitInv, TasksInv, CollectInv, VerdictFaithful, [Next]_vars
  PROVE  CollectInv' /\ VerdictFaithful'
<1>0. Branches \subseteq All /\ parent.completed \subseteq Branches
  BY BranchFacts DEF TypeOK
<1>1. \A b \in Branches : Done(b) => Done(b)' /\ result'[b] = result[b]
  BY <1>0, SettledStays
<1>2. ASSUME UNCHANGED specVars
      PROVE  CollectInv' /\ VerdictFaithful'
  <2>1. CollectInv'
    BY <1>0, <1>1, <1>2 DEF specVars, CollectInv
  <2>2. ASSUME verdict # "none", ~parent.timedOut
        PROVE  \A b \in Branches : result'[b] = result[b]
    BY <1>1, <2>2 DEF CollectInv
  <2>3. VerdictFaithful'
    BY <1>2, <2>2 DEF specVars, VerdictFaithful
  <2> QED  BY <2>1, <2>3
<1>3. CASE SpecMerge
  <2>1. /\ parent.pc = "cancel" /\ parent'.pc = "done"
        /\ parent'.completed = parent.completed /\ parent'.timedOut = parent.timedOut
        /\ verdict' = IF \A b \in parent.completed : result[b] = "OK"
                        THEN "success" ELSE "failure"
        /\ UNCHANGED <<result, future>>
    BY <1>3 DEF SpecMerge, poolVars, TypeOK
  <2>2. CollectInv'
    BY <2>1 DEF CollectInv, Done
  <2>3. VerdictFaithful'
    BY <2>1 DEF CollectInv, VerdictFaithful
  <2> QED  BY <2>2, <2>3
<1>4. ASSUME \/ SpecStart \/ SpecAllCollected \/ SpecTimeout
             \/ \E b \in Branches : SpecSubmit(b) \/ SpecRaises(b) \/ SpecRegister(b)
                                     \/ SpecCollect(b) \/ SpecCancel(b)
      PROVE  CollectInv' /\ VerdictFaithful'
  <2>1. verdict = "none" /\ verdict' = "none"
    BY <1>4 DEF CollectInv, SpecStart, SpecAllCollected, SpecTimeout, SpecSubmit, SpecRaises,
                SpecRegister, SpecCollect, SpecCancel
  <2>2. VerdictFaithful'
    BY <2>1 DEF VerdictFaithful
  <2>3. CASE SpecAllCollected
    <3>1. /\ parent'.completed = parent.completed /\ parent.completed = Branches
          /\ UNCHANGED future
      BY <2>3 DEF SpecAllCollected, poolVars, TypeOK
    <3> QED  BY <2>1, <2>2, <3>1 DEF CollectInv, Done
  <2>4. CASE SpecTimeout
    <3>1. parent'.completed = parent.completed /\ parent'.timedOut /\ UNCHANGED future
      BY <2>4 DEF SpecTimeout, poolVars, TypeOK
    <3> QED  BY <2>1, <2>2, <3>1 DEF CollectInv, Done
  <2>5. ASSUME NEW b \in Branches, SpecCancel(b)
        PROVE  CollectInv'
    <3>1. /\ parent'.completed = parent.completed /\ parent'.timedOut = parent.timedOut
          /\ parent.pc = "cancel" /\ UNCHANGED future
      BY <2>5 DEF SpecCancel, poolVars, TypeOK
    <3> QED  BY <2>1, <3>1 DEF CollectInv, Done
  <2>6. ASSUME \/ SpecStart
               \/ \E b \in Branches : SpecSubmit(b) \/ SpecRaises(b) \/ SpecRegister(b)
                                       \/ SpecCollect(b)
        PROVE  CollectInv'
    <3>1. parent'.pc \in {"submit", "register", "raised", "wait"}
      BY <2>6 DEF SpecStart, SpecSubmit, SpecRaises, SpecRegister, SpecCollect, TypeOK
    <3>2. \A b \in parent'.completed : b \in parent.completed \/ (Done(b) /\ b \in Branches)
      <4>1. ASSUME NEW x \in Branches, SpecCollect(x)
            PROVE  Done(x) /\ parent'.completed = parent.completed \cup {x}
        BY <4>1 DEF SpecCollect, TypeOK
      <4>2. ASSUME \/ SpecStart
                   \/ \E x \in Branches : SpecSubmit(x) \/ SpecRaises(x) \/ SpecRegister(x)
            PROVE  parent'.completed = parent.completed
        BY <4>2 DEF SpecStart, SpecSubmit, SpecRaises, SpecRegister, TypeOK
      <4> QED  BY <2>6, <4>1, <4>2
    <3>3. \A b \in parent'.completed : Done(b)'
      BY <1>0, <1>1, <3>2 DEF CollectInv
    <3> QED  BY <2>1, <3>1, <3>3 DEF CollectInv
  <2> QED  BY <1>4, <2>2, <2>3, <2>4, <2>5, <2>6
<1>5. SpecNext \/ UNCHANGED specVars
  BY DEF Next, vars, specVars, ScheduleNext, ScheduleAdmit, ScheduleDegrade, ScheduleSubmit,
     ScheduleRaises, ScheduleRegister, WorkerTake, WrapperNext, WrapperRegister,
     WrapperCancelled, WrapperExecute, WrapperReturn, WrapperDone, CancelNext, CancelRead,
     SignalSet, SignalCancel, Shutdown
<1> QED
  BY <1>2, <1>3, <1>4, <1>5 DEF SpecNext

LEMMA NextSpeculation ==
  TypeOK /\ SubmitInv /\ TasksInv /\ SpeculationInv /\ [Next]_vars => SpeculationInv'
  BY OutcomeStep, DisturbStep, CollectStep DEF SpeculationInv

LEMMA InitSpeculation == Init => SpeculationInv
<1> SUFFICES ASSUME Init PROVE SpeculationInv
  OBVIOUS
<1>1. /\ \A b \in Branches : future[b] = "none" /\ result[b] = "none" /\ wrapper[b] = "idle"
      /\ \A k \in Signallers : signaller[k].pc = "idle"
  BY DEF Init, All, Idle
<1>2. Parent \in Signallers /\ Cancellers \subseteq Signallers
  BY DEF Signallers
<1>3. DisturbInv
  BY <1>1, <1>2 DEF Init, DisturbInv
<1>4. CollectInv /\ VerdictFaithful /\ \A b \in Branches : OutcomeInv(b)
  BY <1>1 DEF Init, CollectInv, VerdictFaithful, OutcomeInv
<1> QED
  BY <1>3, <1>4 DEF SpeculationInv

\* Unless it timed out, run_speculative reports success exactly when every
\* branch succeeded, whoever cancels branches or shuts the pool down meanwhile.
THEOREM VerdictCorrect == Spec => []VerdictFaithful
<1>1. SpeculationInv => VerdictFaithful
  BY DEF SpeculationInv
<1> QED
  BY <1>1, InitSubmitInv, NextCancelled, InitSpeculation, NextSpeculation,
     SchedulerTypeCorrect, PTL DEF Spec

\* "a slow branch is not cancelled by a peer branch completing first": when
\* run_speculative returns without a timeout, every branch that neither
\* cancel_task nor shutdown recalled was executed to its end.
THEOREM PeersCorrect == Spec => []PeersUndisturbed
<1>1. SpeculationInv => PeersUndisturbed
  <2> SUFFICES ASSUME SpeculationInv, verdict # "none", ~parent.timedOut,
                      NEW b \in Branches \ recalled
               PROVE  b \in executed /\ result[b] \in {"OK", "FAILED"}
    BY DEF PeersUndisturbed
  <2>1. Done(b)
    BY DEF SpeculationInv, CollectInv
  <2>2. future[b] # "cancelled" /\ result[b] # "CANCELLED"
    BY DEF SpeculationInv, DisturbInv
  <2> QED
    BY <2>1, <2>2 DEF SpeculationInv, OutcomeInv, Done
<1> QED
  BY <1>1, InitSubmitInv, NextCancelled, InitSpeculation, NextSpeculation,
     SchedulerTypeCorrect, PTL DEF Spec
=============================================================================
