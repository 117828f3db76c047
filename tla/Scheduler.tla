------------------------------ MODULE Scheduler ------------------------------
(***************************************************************************)
(* PiCognitiveExecutionScheduler                                           *)
(* (src/src/pi_micro_agents/orchestrator/scheduler.py) on a                *)
(* ThreadPoolExecutor, which is modelled from how the scheduler uses it:   *)
(* a FIFO of work items, MaxWorkers threads, futures that can be cancelled *)
(* until a worker takes them.                                              *)
(*                                                                         *)
(* Caller threads schedule Tasks; one parent thread runs the Branches with *)
(* run_speculative; canceller threads call cancel_task for any of them.    *)
(* A section under _state_lock is one step; so is a call of the pool.      *)
(***************************************************************************)
EXTENDS Naturals, FiniteSets, Sequences

CONSTANTS Callers,                \* threads that call schedule
          Tasks,                  \* the tasks they schedule
          Branches,               \* the tasks of a run_speculative call
          Parent,                 \* the thread in run_speculative
          Cancellers,             \* threads that call cancel_task
          MaxWorkers,             \* max_workers
          BackpressureThreshold,  \* backpressure_threshold
          MaxCancels              \* bound: tasks that cancel_task is called for

All == Tasks \cup Branches
Signallers == Cancellers \cup {Parent}

ASSUME SchedulerAssumption ==
    /\ IsFiniteSet(Callers) /\ Callers # {} /\ IsFiniteSet(Tasks)
    /\ Tasks \cap Branches = {}
    /\ Parent \notin Cancellers
    /\ MaxWorkers \in Nat \ {0} /\ BackpressureThreshold \in Nat
    /\ MaxCancels \in Nat

VARIABLES
    caller,      \* caller -> where it is in schedule
    queue,       \* the PriorityQueue, as the set of tasks in it
    pending,     \* the work items of the pool, oldest first
    future,      \* task -> the state of its future
    result,      \* task -> the outcome its future holds, or "none"
    wrapper,     \* task -> where _run_task_wrapper is
    active,      \* the keys of active_tasks
    registered,  \* the keys of cancellation_events
    signalled,   \* the tasks whose cancellation event is set
    signaller,   \* thread -> the cancellation it is carrying out
    parent,      \* run_speculative: pc, branches left to do, branches completed
    verdict,     \* run_speculative: "none", or the success it returned
    shut,        \* _shutdown
    executed,    \* history: tasks whose execute_fn was entered
    recalled     \* history: tasks that cancel_task or shutdown tried to cancel

poolVars == <<pending, future>>
cancelVars == <<signalled, signaller, recalled>>
specVars == <<parent, verdict>>
vars == <<caller, queue, pending, future, result, wrapper, active, registered,
          signalled, signaller, parent, verdict, shut, executed, recalled>>

Idle == [pc |-> "idle"]

Init ==
    /\ caller = [c \in Callers |-> Idle]
    /\ queue = {}
    /\ pending = << >>
    /\ future = [t \in All |-> "none"]
    /\ result = [t \in All |-> "none"]
    /\ wrapper = [t \in All |-> "idle"]
    /\ active = {}
    /\ registered = {}
    /\ signalled = {}
    /\ signaller = [k \in Signallers |-> Idle]
    /\ parent = [pc |-> "idle", todo |-> {}, completed |-> {}, timedOut |-> FALSE]
    /\ verdict = "none"
    /\ shut = FALSE
    /\ executed = {}
    /\ recalled = {}

-----------------------------------------------------------------------------
(* The thread pool *)

Done(t) == future[t] \in {"finished", "cancelled"}

\* executor.submit: a new future at the end of the work queue.
Submit(t) ==
    /\ ~shut
    /\ future' = [future EXCEPT ![t] = "pending"]
    /\ pending' = Append(pending, t)

Working == {t \in All : wrapper[t] # "idle"}

\* A free worker takes the oldest item; a cancelled one is dropped.
WorkerTake ==
    /\ pending # << >>
    /\ Cardinality(Working) < MaxWorkers
    /\ LET t == Head(pending)
       IN  IF future[t] = "pending"
             THEN /\ future' = [future EXCEPT ![t] = "running"]
                  /\ wrapper' = [wrapper EXCEPT ![t] = "entered"]
             ELSE UNCHANGED <<future, wrapper>>
    /\ pending' = Tail(pending)
    /\ UNCHANGED <<caller, queue, result, active, registered, cancelVars, specVars,
                   shut, executed>>

\* future.cancel() has an effect until a worker has taken the item.
Cancelled(t) == IF future[t] = "pending" THEN "cancelled" ELSE future[t]

-----------------------------------------------------------------------------
(* schedule *)

Unscheduled(t) ==
    /\ future[t] = "none"
    /\ t \notin queue
    /\ \A c \in Callers : caller[c].pc # "idle" => caller[c].task # t

\* Mutant: the threshold is compared with > instead of >=.
AdmitsOneMore == Cardinality(queue) <= BackpressureThreshold

\* self.queue.qsize() < self.backpressure_threshold
Admits == Cardinality(queue) < BackpressureThreshold

ScheduleAdmit(c, t) ==
    /\ caller[c].pc = "idle"
    /\ Unscheduled(t)
    /\ Admits
    /\ caller' = [caller EXCEPT ![c] = [pc |-> "admitted", task |-> t]]
    /\ UNCHANGED <<queue, poolVars, result, wrapper, active, registered, cancelVars,
                   specVars, shut, executed>>

\* The fallback is a finished future of its own; nothing was queued.
ScheduleDegrade(c, t) ==
    /\ caller[c].pc = "idle"
    /\ Unscheduled(t)
    /\ ~Admits
    /\ future' = [future EXCEPT ![t] = "finished"]
    /\ result' = [result EXCEPT ![t] = "DEGRADED_FALLBACK"]
    /\ UNCHANGED <<caller, queue, pending, wrapper, active, registered, cancelVars,
                   specVars, shut, executed>>

\* Mutant: the task waits in the priority queue for someone to submit it.
ScheduleQueueOnly(c) ==
    /\ caller[c].pc = "admitted"
    /\ queue' = queue \cup {caller[c].task}
    /\ ~shut
    /\ future' = [future EXCEPT ![caller[c].task] = "pending"]
    /\ caller' = [caller EXCEPT ![c].pc = "submitted"]
    /\ UNCHANGED <<pending, result, wrapper, active, registered, cancelVars, specVars, shut,
                   executed>>

\* queue.put, then executor.submit.
ScheduleSubmit(c) ==
    /\ caller[c].pc = "admitted"
    /\ queue' = queue \cup {caller[c].task}
    /\ Submit(caller[c].task)
    /\ caller' = [caller EXCEPT ![c].pc = "submitted"]
    /\ UNCHANGED <<result, wrapper, active, registered, cancelVars, specVars, shut,
                   executed>>

\* After shutdown submit raises: the task stays in the queue, without a future.
ScheduleRaises(c) ==
    /\ caller[c].pc = "admitted"
    /\ shut
    /\ queue' = queue \cup {caller[c].task}
    /\ caller' = [caller EXCEPT ![c] = Idle]
    /\ UNCHANGED <<poolVars, result, wrapper, active, registered, cancelVars, specVars,
                   shut, executed>>

\* active_tasks[task_id] = future, under the lock; the future is returned.
ScheduleRegister(c) ==
    /\ caller[c].pc = "submitted"
    /\ active' = active \cup {caller[c].task}
    /\ caller' = [caller EXCEPT ![c] = Idle]
    /\ UNCHANGED <<queue, poolVars, result, wrapper, registered, cancelVars, specVars,
                   shut, executed>>

-----------------------------------------------------------------------------
(* _run_task_wrapper *)

\* Get the task's cancellation event, or create it, under the lock.
WrapperRegister(t) ==
    /\ wrapper[t] = "entered"
    /\ registered' = registered \cup {t}
    /\ wrapper' = [wrapper EXCEPT ![t] = "registered"]
    /\ UNCHANGED <<caller, queue, poolVars, result, active, cancelVars, specVars, shut,
                   executed>>

\* Cancelled before execution: this return is outside the try block.
WrapperCancelled(t) ==
    /\ wrapper[t] = "registered"
    /\ t \in signalled
    /\ result' = [result EXCEPT ![t] = "CANCELLED"]
    /\ future' = [future EXCEPT ![t] = "finished"]
    /\ wrapper' = [wrapper EXCEPT ![t] = "idle"]
    /\ UNCHANGED <<caller, queue, pending, active, registered, cancelVars, specVars, shut,
                   executed>>

WrapperExecute(t) ==
    /\ wrapper[t] = "registered"
    /\ t \notin signalled
    /\ executed' = executed \cup {t}
    /\ wrapper' = [wrapper EXCEPT ![t] = "executing"]
    /\ UNCHANGED <<caller, queue, poolVars, result, active, registered, cancelVars,
                   specVars, shut>>

\* Mutant: the event is looked at again after execute_fn returned.
WrapperReturnChecked(t, outcome) ==
    /\ wrapper[t] = "executing"
    /\ result' = [result EXCEPT ![t] = IF t \in signalled THEN "CANCELLED" ELSE outcome]
    /\ active' = active \ {t}
    /\ registered' = registered \ {t}
    /\ wrapper' = [wrapper EXCEPT ![t] = "returning"]
    /\ UNCHANGED <<caller, queue, poolVars, cancelVars, specVars, shut, executed>>

\* Mutant: the finally block pops active_tasks only.
WrapperReturnLeaky(t, outcome) ==
    /\ wrapper[t] = "executing"
    /\ result' = [result EXCEPT ![t] = outcome]
    /\ active' = active \ {t}
    /\ wrapper' = [wrapper EXCEPT ![t] = "returning"]
    /\ UNCHANGED <<caller, queue, poolVars, registered, cancelVars, specVars, shut, executed>>

\* execute_fn returns ("OK", or "FAILED" when it reports success False) or
\* raises ("FAILED"); the finally block pops both entries under the lock.
WrapperReturn(t, outcome) ==
    /\ wrapper[t] = "executing"
    /\ result' = [result EXCEPT ![t] = outcome]
    /\ active' = active \ {t}
    /\ registered' = registered \ {t}
    /\ wrapper' = [wrapper EXCEPT ![t] = "returning"]
    /\ UNCHANGED <<caller, queue, poolVars, cancelVars, specVars, shut, executed>>

\* The pool sets the result of the future and the worker is free.
WrapperDone(t) ==
    /\ wrapper[t] = "returning"
    /\ future' = [future EXCEPT ![t] = "finished"]
    /\ wrapper' = [wrapper EXCEPT ![t] = "idle"]
    /\ UNCHANGED <<caller, queue, pending, result, active, registered, cancelVars,
                   specVars, shut, executed>>

-----------------------------------------------------------------------------
(* cancel_task, and the cancellations run_speculative makes itself *)

\* Look the event and the future up under the lock.
CancelRead(k, t) ==
    /\ k \in Cancellers
    /\ signaller[k].pc = "idle"
    /\ t \in registered \cup active
    /\ t \notin recalled /\ Cardinality(recalled) < MaxCancels
    /\ signaller' = [signaller EXCEPT ![k] =
          [pc |-> "set", task |-> t, event |-> t \in registered, future |-> t \in active]]
    /\ recalled' = recalled \cup {t}
    /\ UNCHANGED <<caller, queue, poolVars, result, wrapper, active, registered,
                   signalled, specVars, shut, executed>>

\* event.set(), outside the lock.
SignalSet(k) ==
    /\ signaller[k].pc = "set"
    /\ signalled' = IF signaller[k].event THEN signalled \cup {signaller[k].task}
                    ELSE signalled
    /\ signaller' = [signaller EXCEPT ![k].pc = "cancel"]
    /\ UNCHANGED <<caller, queue, poolVars, result, wrapper, active, registered, recalled,
                   specVars, shut, executed>>

\* future.cancel()
SignalCancel(k) ==
    /\ signaller[k].pc = "cancel"
    /\ future' = IF signaller[k].future
                   THEN [future EXCEPT ![signaller[k].task] = Cancelled(signaller[k].task)]
                   ELSE future
    /\ signaller' = [signaller EXCEPT ![k] = Idle]
    /\ UNCHANGED <<caller, queue, pending, result, wrapper, active, registered, signalled,
                   recalled, specVars, shut, executed>>

-----------------------------------------------------------------------------
(* run_speculative *)

SpecStart ==
    /\ parent.pc = "idle"
    /\ Branches # {}
    /\ parent' = [parent EXCEPT !.pc = "submit", !.todo = Branches]
    /\ UNCHANGED <<caller, queue, poolVars, result, wrapper, active, registered,
                   cancelVars, verdict, shut, executed>>

\* A new event for the branch, then executor.submit.
SpecSubmit(b) ==
    /\ parent.pc = "submit"
    /\ b \in parent.todo
    /\ registered' = registered \cup {b}
    /\ Submit(b)
    /\ parent' = [parent EXCEPT !.pc = "register"]
    /\ UNCHANGED <<caller, queue, result, wrapper, active, cancelVars, verdict, shut,
                   executed>>

\* After shutdown submit raises, through run_speculative.
SpecRaises(b) ==
    /\ parent.pc = "submit"
    /\ b \in parent.todo
    /\ shut
    /\ registered' = registered \cup {b}
    /\ parent' = [parent EXCEPT !.pc = "raised"]
    /\ UNCHANGED <<caller, queue, poolVars, result, wrapper, active, cancelVars, verdict,
                   shut, executed>>

\* active_tasks[task_id] = fut for the branch just submitted.
SpecRegister(b) ==
    /\ parent.pc = "register"
    /\ b \in parent.todo
    /\ future[b] # "none"
    /\ active' = active \cup {b}
    /\ parent' = [parent EXCEPT !.todo = @ \ {b},
                                !.pc = IF parent.todo = {b} THEN "wait" ELSE "submit"]
    /\ UNCHANGED <<caller, queue, poolVars, result, wrapper, registered, cancelVars,
                   verdict, shut, executed>>

\* The polling loop finds a branch done; a cancelled future counts as failed.
SpecCollect(b) ==
    /\ parent.pc = "wait"
    /\ b \in Branches \ parent.completed
    /\ Done(b)
    /\ parent' = [parent EXCEPT !.completed = @ \cup {b}]
    /\ UNCHANGED <<caller, queue, poolVars, result, wrapper, active, registered,
                   cancelVars, verdict, shut, executed>>

\* Mutant: the first branch to complete ends the wait.
SpecFirstCollected ==
    /\ parent.pc = "wait"
    /\ parent.completed # {}
    /\ parent' = [parent EXCEPT !.pc = "cancel", !.todo = Branches]
    /\ UNCHANGED <<caller, queue, poolVars, result, wrapper, active, registered,
                   cancelVars, verdict, shut, executed>>

SpecAllCollected ==
    /\ parent.pc = "wait"
    /\ parent.completed = Branches
    /\ parent' = [parent EXCEPT !.pc = "cancel", !.todo = Branches]
    /\ UNCHANGED <<caller, queue, poolVars, result, wrapper, active, registered,
                   cancelVars, verdict, shut, executed>>

\* Mutant: wait without a timeout.
SpecNoTimeout == FALSE /\ UNCHANGED vars

SpecTimeout ==
    /\ parent.pc = "wait"
    /\ parent.completed # Branches
    /\ parent' = [parent EXCEPT !.pc = "cancel", !.todo = Branches, !.timedOut = TRUE]
    /\ UNCHANGED <<caller, queue, poolVars, result, wrapper, active, registered,
                   cancelVars, verdict, shut, executed>>

\* The cancellation loop: look the event up under the lock, then set it and
\* cancel the future (SignalSet, SignalCancel).
SpecCancel(b) ==
    /\ parent.pc = "cancel"
    /\ b \in parent.todo
    /\ signaller[Parent].pc = "idle"
    /\ signaller' = [signaller EXCEPT ![Parent] =
          [pc |-> "set", task |-> b, event |-> b \in registered, future |-> TRUE]]
    /\ parent' = [parent EXCEPT !.todo = @ \ {b}]
    /\ UNCHANGED <<caller, queue, poolVars, result, wrapper, active, registered,
                   signalled, recalled, verdict, shut, executed>>

\* Mutant: one good branch is enough.
SpecMergeAny ==
    /\ parent.pc = "cancel"
    /\ parent.todo = {}
    /\ signaller[Parent].pc = "idle"
    /\ verdict' = IF \E b \in parent.completed : result[b] = "OK"
                    THEN "success" ELSE "failure"
    /\ parent' = [parent EXCEPT !.pc = "done"]
    /\ UNCHANGED <<caller, queue, poolVars, result, wrapper, active, registered,
                   cancelVars, shut, executed>>

\* The merge: success of the branches that completed.
SpecMerge ==
    /\ parent.pc = "cancel"
    /\ parent.todo = {}
    /\ signaller[Parent].pc = "idle"
    /\ verdict' = IF \A b \in parent.completed : result[b] = "OK"
                    THEN "success" ELSE "failure"
    /\ parent' = [parent EXCEPT !.pc = "done"]
    /\ UNCHANGED <<caller, queue, poolVars, result, wrapper, active, registered,
                   cancelVars, shut, executed>>

-----------------------------------------------------------------------------
\* shutdown, once: with cancel_futures the pool cancels what no worker has
\* taken, otherwise the workers still drain it.
Shutdown(cancel_futures) ==
    LET dropped == IF cancel_futures THEN {pending[i] : i \in DOMAIN pending} ELSE {}
    IN  /\ ~shut
        /\ shut' = TRUE
        /\ future' = [t \in All |-> IF t \in dropped THEN Cancelled(t) ELSE future[t]]
        /\ pending' = IF cancel_futures THEN << >> ELSE pending
        /\ recalled' = recalled \cup dropped
        /\ UNCHANGED <<caller, queue, result, wrapper, active, registered, signalled,
                       signaller, specVars, executed>>

-----------------------------------------------------------------------------
ScheduleNext ==
    \E c \in Callers :
        \/ \E t \in Tasks : ScheduleAdmit(c, t)
        \/ \E t \in Tasks : ScheduleDegrade(c, t)
        \/ ScheduleSubmit(c)
        \/ ScheduleRaises(c)
        \/ ScheduleRegister(c)

WrapperNext ==
    \E t \in All :
        \/ WrapperRegister(t)
        \/ WrapperCancelled(t)
        \/ WrapperExecute(t)
        \/ \E outcome \in {"OK", "FAILED"} : WrapperReturn(t, outcome)
        \/ WrapperDone(t)

CancelNext ==
    \E k \in Signallers :
        \/ \E t \in All : CancelRead(k, t)
        \/ SignalSet(k)
        \/ SignalCancel(k)

SpecNext ==
    \/ SpecStart
    \/ \E b \in Branches :
          SpecSubmit(b) \/ SpecRaises(b) \/ SpecRegister(b) \/ SpecCollect(b) \/ SpecCancel(b)
    \/ SpecAllCollected
    \/ SpecTimeout
    \/ SpecMerge

Next ==
    \/ ScheduleNext
    \/ WorkerTake
    \/ WrapperNext
    \/ CancelNext
    \/ SpecNext
    \/ \E cancel_futures \in BOOLEAN : Shutdown(cancel_futures)

Spec == Init /\ [][Next]_vars

\* A thread inside a call goes on; the clock reaches the timeout.  Nobody has
\* to call anything, and execute_fn need not return.
Fairness ==
    /\ WF_vars(WorkerTake)
    /\ \A c \in Callers :
          WF_vars(ScheduleSubmit(c) \/ ScheduleRaises(c) \/ ScheduleRegister(c))
    /\ \A t \in All :
          WF_vars(WrapperRegister(t) \/ WrapperCancelled(t) \/ WrapperExecute(t)
                    \/ WrapperDone(t))
    /\ \A k \in Signallers : WF_vars(SignalSet(k) \/ SignalCancel(k))
    /\ WF_vars(parent.pc # "idle" /\ SpecNext)

FairSpec == Spec /\ Fairness

-----------------------------------------------------------------------------
(* Properties *)

Signal ==
    [pc : {"idle"}]
      \cup [pc : {"set", "cancel"}, task : All, event : BOOLEAN, future : BOOLEAN]

\* Every variable has the shape the scheduler or the pool gives it.
TypeOK ==
    /\ caller \in [Callers -> [pc : {"idle"}]
                                \cup [pc : {"admitted", "submitted"}, task : Tasks]]
    /\ queue \subseteq Tasks
    /\ pending \in Seq(All)
    /\ future \in [All -> {"none", "pending", "running", "cancelled", "finished"}]
    /\ result \in [All -> {"none", "OK", "FAILED", "CANCELLED", "DEGRADED_FALLBACK"}]
    /\ wrapper \in [All -> {"idle", "entered", "registered", "executing", "returning"}]
    /\ active \subseteq All /\ registered \subseteq All
    /\ signalled \subseteq All /\ recalled \subseteq All /\ executed \subseteq All
    /\ signaller \in [Signallers -> Signal]
    /\ parent \in [pc : {"idle", "submit", "register", "wait", "cancel", "done", "raised"},
                   todo : SUBSET Branches, completed : SUBSET Branches, timedOut : BOOLEAN]
    /\ verdict \in {"none", "success", "failure"}
    /\ shut \in BOOLEAN

\* The check of qsize and the put are not one step: concurrent callers may
\* overshoot the threshold, but by less than their number.
BackpressureBound ==
    Cardinality(queue) < BackpressureThreshold + Cardinality(Callers)

\* A future that says its task was cancelled tells the truth, however
\* cancel_task, the parent's cancellation loop, shutdown and the worker race:
\* execute_fn was never entered.
CancelledNeverExecuted ==
    \A t \in All :
        future[t] = "cancelled" \/ result[t] = "CANCELLED" => t \notin executed

\* "a slow branch is not cancelled by a peer branch completing first": unless
\* the call timed out, every branch nobody else cancelled has run to its end.
PeersUndisturbed ==
    verdict # "none" /\ ~parent.timedOut =>
        \A b \in Branches \ recalled : b \in executed /\ result[b] \in {"OK", "FAILED"}

\* Unless it timed out, run_speculative reports success exactly when every
\* branch succeeded; a cancelled branch, or one that raised, is not missed.
VerdictFaithful ==
    verdict # "none" /\ ~parent.timedOut =>
        (verdict = "success" <=> \A b \in Branches : result[b] = "OK")

\* Every future handed out is resolved, provided execute_fn returns: also
\* through cancellation, shutdown and a full pool.
EveryFutureResolves ==
    (\A t \in All : WF_vars(\E outcome \in {"OK", "FAILED"} : WrapperReturn(t, outcome)))
      => \A t \in All : (future[t] = "pending") ~> Done(t)

\* run_speculative returns or raises even if execute_fn never does.
SpeculationReturns ==
    (parent.pc = "submit") ~> (parent.pc \in {"done", "raised"})

\* "leak a cancellation event for a task that already finished": a task whose
\* execute_fn was entered leaves no event behind, however cancellations race its
\* cleanup.  Only the tasks cancelled before that do.
OnlyCancelledLeak == \A t \in executed : Done(t) => t \notin registered

-----------------------------------------------------------------------------
(* The inductive strengthening of the invariants, used by the proofs. *)

\* Callers that passed the check of qsize and have not put their task yet: at
\* the moment the last of them passed, the queue was below the threshold.
Admitted == {c \in Callers : caller[c].pc = "admitted"}

OvershootInv ==
    Cardinality(queue) + Cardinality(Admitted)
      < BackpressureThreshold + Cardinality(Callers)

\* A task is submitted once: while it is on its way it has no future yet, and
\* no two callers carry the same one.
CallersInv ==
    \A c \in Callers :
        /\ caller[c].pc = "admitted" => future[caller[c].task] = "none"
        /\ \A d \in Callers :
              c # d /\ caller[c].pc # "idle" /\ caller[d].pc # "idle"
                => caller[c].task # caller[d].task

\* So with branches: only the one just submitted has a future.
ParentInv ==
    /\ parent.pc = "idle" => \A b \in Branches : future[b] = "none"
    /\ parent.pc = "submit" => \A b \in parent.todo : future[b] = "none"
    /\ parent.pc = "register" =>
          \A a, b \in parent.todo : future[a] # "none" /\ future[b] # "none" => a = b

\* What the future, the wrapper and the result of a task say about each other.
TaskInv(t) ==
    /\ future[t] \in {"none", "pending", "cancelled"} =>
          t \notin executed /\ wrapper[t] = "idle" /\ result[t] = "none"
    /\ wrapper[t] # "idle" => future[t] = "running"
    /\ wrapper[t] \in {"entered", "registered"} => t \notin executed
    /\ result[t] = "CANCELLED" => t \notin executed /\ wrapper[t] = "idle"

TasksInv == \A t \in All : TaskInv(t)

\* Once its function was entered, a task's event is registered until the finally
\* block pops it and not again.
LeakInv == \A t \in executed : wrapper[t] # "executing" => t \notin registered

\* Where the result of a branch comes from: it is written while the branch runs.
OutcomeInv(b) ==
    /\ wrapper[b] \in {"executing", "returning"} => b \in executed
    /\ wrapper[b] = "returning" => result[b] \in {"OK", "FAILED"}
    /\ future[b] = "finished" =>
          \/ result[b] \in {"OK", "FAILED"} /\ b \in executed
          \/ result[b] = "CANCELLED"

\* Who cancels: cancel_task only what it recalled, the parent only when its wait
\* is over.  So before a timeout a branch nobody recalled is not disturbed.
DisturbInv ==
    /\ \A k \in Cancellers : signaller[k].pc # "idle" => signaller[k].task \in recalled
    /\ signaller[Parent].pc # "idle" => parent.pc = "cancel" /\ signaller[Parent].task \in Branches
    /\ \A b \in Branches \ recalled : ~parent.timedOut =>
          /\ b \in signalled => Done(b)
          /\ future[b] # "cancelled" /\ result[b] # "CANCELLED"

\* What the parent has collected is final, and so is what it concluded.
CollectInv ==
    /\ \A b \in parent.completed : Done(b)
    /\ parent.pc \in {"cancel", "done"} /\ ~parent.timedOut => parent.completed = Branches
    /\ verdict # "none" => parent.pc = "done"

SpeculationInv ==
    /\ \A b \in Branches : OutcomeInv(b)
    /\ DisturbInv
    /\ CollectInv
    /\ VerdictFaithful
=============================================================================
