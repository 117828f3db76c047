--------------------------- MODULE ShardCoordinator ---------------------------
(***************************************************************************)
(* ShardCoordinator (src/src/pi_event_fabric/ordering/shard.py): the       *)
(* per-shard sequence, epochs that freeze shards, checkpoints of progress  *)
(* and recovery from the event bus.                                        *)
(*                                                                         *)
(* A caller is a thread (of any process) that appends an event to the      *)
(* shard's partition of the event bus and then advances the sequence for   *)
(* it.  Every method takes the coordinator's lock, but several of them     *)
(* take it more than once: what one acquisition does is one step here.     *)
(* The partition is an append-only log (EventLog), reduced to its length.  *)
(***************************************************************************)
EXTENDS Naturals, Sequences, FiniteSets

CONSTANTS Shards,
          Callers,       \* threads that produce, advance and checkpoint
          Recoverers,    \* those among them that also call recover_shard
          EpochNumbers,  \* epoch numbers passed to establish_epoch
          MaxEvents      \* bound: events per shard

ASSUME ShardAssumption ==
    /\ IsFiniteSet(Callers)
    /\ Recoverers \subseteq Callers
    /\ MaxEvents \in Nat

VARIABLES
    tail,         \* shard -> number of events in its partition of the bus
    shard,        \* table shard_sequences: shard -> its row
    epochs,       \* table epoch_coordinations: epoch -> participating shards
    checkpoints,  \* table shard_checkpoints: shard -> sequences, in rowid order
    caller,       \* caller -> the call it is in
    advances,     \* history: shard -> number of advances committed
    numbered,     \* history: shard -> the answers of advance_sequence, each with
                  \* the numbers that had been answered when its call began
    recovered     \* history: the shards recover_shard has written

histories == <<advances, numbered, recovered>>
vars == <<tail, shard, epochs, checkpoints, caller, advances, numbered, recovered>>

\* get_sequence of a shard without a row.
NoRow == [known |-> FALSE, current_sequence |-> 0, last_event |-> 0,
          epoch_number |-> 0, frozen |-> FALSE]

Idle == [pc |-> "idle"]

Init ==
    /\ tail = [sh \in Shards |-> 0]
    /\ shard = [sh \in Shards |-> NoRow]
    /\ epochs = [n \in {} |-> {}]
    /\ checkpoints = [sh \in Shards |-> << >>]
    /\ caller = [c \in Callers |-> Idle]
    /\ advances = [sh \in Shards |-> 0]
    /\ numbered = [sh \in Shards |-> {}]
    /\ recovered = {}

Goto(c, call) == caller' = [caller EXCEPT ![c] = call]

-----------------------------------------------------------------------------
(* advance_sequence, for an event the caller has just appended *)

\* EventBusStorage.append: the event gets the next offset of the partition.
Produce(c, sh) ==
    /\ caller[c].pc = "idle"
    /\ tail[sh] < MaxEvents
    /\ tail' = [tail EXCEPT ![sh] = @ + 1]
    /\ Goto(c, [pc |-> "produced", shard |-> sh, event |-> tail[sh] + 1, before |-> {}])
    /\ UNCHANGED <<shard, epochs, checkpoints, histories>>

\* The numbers advance_sequence has answered for a shard.
Numbers(sh) == {x.sequence : x \in numbered[sh]}

\* First acquisition: get_sequence and the frozen test.
AdvanceCheck(c) ==
    /\ caller[c].pc = "produced"
    /\ ~shard[caller[c].shard].frozen
    /\ Goto(c, [caller[c] EXCEPT !.pc = "checked", !.before = Numbers(caller[c].shard)])
    /\ UNCHANGED <<tail, shard, epochs, checkpoints, histories>>

\* SequenceFrozenError.
AdvanceFrozen(c) ==
    /\ caller[c].pc = "produced"
    /\ shard[caller[c].shard].frozen
    /\ Goto(c, Idle)
    /\ UNCHANGED <<tail, shard, epochs, checkpoints, histories>>

\* The upsert: a new row has epoch 0 and is not frozen, an old one keeps both.
Upsert(row, sequence, event) ==
    [row EXCEPT !.known = TRUE, !.current_sequence = sequence, !.last_event = event]

\* Mutant: the number of the event, as the caller knows it, instead of the
\* sequence re-read inside the transaction.
AdvanceCommitByEvent(c) ==
    LET sh == caller[c].shard
    IN  /\ caller[c].pc = "checked"
        /\ shard' = [shard EXCEPT ![sh] = Upsert(@, caller[c].event, caller[c].event)]
        /\ advances' = [advances EXCEPT ![sh] = @ + 1]
        /\ Goto(c, [caller[c] EXCEPT !.pc = "committed"])
        /\ UNCHANGED <<tail, epochs, checkpoints, numbered, recovered>>

\* Second acquisition: BEGIN IMMEDIATE, re-read the sequence, upsert, COMMIT.
AdvanceCommit(c) ==
    LET sh == caller[c].shard
    IN  /\ caller[c].pc = "checked"
        /\ shard' = [shard EXCEPT ![sh] =
              Upsert(@, @.current_sequence + 1, caller[c].event)]
        /\ advances' = [advances EXCEPT ![sh] = @ + 1]
        /\ Goto(c, [caller[c] EXCEPT !.pc = "committed"])
        /\ UNCHANGED <<tail, epochs, checkpoints, numbered, recovered>>

\* Mutant: the answer is the offset of the event instead of the sequence.
AdvanceReturnOffset(c) ==
    LET sh == caller[c].shard
    IN  /\ caller[c].pc = "committed"
        /\ numbered' = [numbered EXCEPT ![sh] =
              @ \cup {[event |-> caller[c].event,
                       sequence |-> caller[c].event,
                       before |-> caller[c].before]}]
        /\ Goto(c, Idle)
        /\ UNCHANGED <<tail, shard, epochs, checkpoints, advances, recovered>>

\* Third acquisition: the sequence returned to the caller is read again.
AdvanceReturn(c) ==
    LET sh == caller[c].shard
    IN  /\ caller[c].pc = "committed"
        /\ numbered' = [numbered EXCEPT ![sh] =
              @ \cup {[event |-> caller[c].event,
                       sequence |-> shard[sh].current_sequence,
                       before |-> caller[c].before]}]
        /\ Goto(c, Idle)
        /\ UNCHANGED <<tail, shard, epochs, checkpoints, advances, recovered>>

-----------------------------------------------------------------------------
(* establish_epoch: one transaction *)

\* UPDATE ... WHERE shard_id touches only the rows that exist; INSERT OR
\* IGNORE keeps the first record of an epoch number.
EstablishEpoch(c, n, participating) ==
    /\ caller[c].pc = "idle"
    /\ shard' = [sh \in Shards |->
          IF sh \in participating /\ shard[sh].known
            THEN [shard[sh] EXCEPT !.frozen = TRUE, !.epoch_number = n]
            ELSE shard[sh]]
    /\ epochs' = [m \in DOMAIN epochs \cup {n} |->
          IF m \in DOMAIN epochs THEN epochs[m] ELSE participating]
    /\ UNCHANGED <<tail, checkpoints, caller, histories>>

-----------------------------------------------------------------------------
(* write_checkpoint, for the sequence the caller has read *)

CheckpointRead(c, sh) ==
    /\ caller[c].pc = "idle"
    /\ shard[sh].known
    /\ Goto(c, [pc |-> "checkpoint", shard |-> sh, sequence |-> shard[sh].current_sequence])
    /\ UNCHANGED <<tail, shard, epochs, checkpoints, histories>>

Recorded(sh, n) == \E i \in DOMAIN checkpoints[sh] : checkpoints[sh][i] = n

\* Mutant: the checkpoint names the next sequence.
CheckpointWriteNext(c) ==
    LET sh == caller[c].shard
    IN  /\ caller[c].pc = "checkpoint"
        /\ checkpoints' = [checkpoints EXCEPT ![sh] =
              IF Recorded(sh, caller[c].sequence + 1) THEN @
              ELSE Append(@, caller[c].sequence + 1)]
        /\ Goto(c, Idle)
        /\ UNCHANGED <<tail, shard, epochs, histories>>

\* INSERT OR IGNORE under UNIQUE(shard_id, sequence).
CheckpointWrite(c) ==
    LET sh == caller[c].shard
    IN  /\ caller[c].pc = "checkpoint"
        /\ checkpoints' = [checkpoints EXCEPT ![sh] =
              IF Recorded(sh, caller[c].sequence) THEN @
              ELSE Append(@, caller[c].sequence)]
        /\ Goto(c, Idle)
        /\ UNCHANGED <<tail, shard, epochs, histories>>

\* verify_monotonicity: sequences increase in rowid order.
VerifyMonotonicity(sh) ==
    \A i \in 1..Len(checkpoints[sh]) - 1 : checkpoints[sh][i] < checkpoints[sh][i + 1]

-----------------------------------------------------------------------------
(* recover_shard *)

\* get_partition_tail, under the lock of the event storage.
RecoverRead(c, sh) ==
    /\ c \in Recoverers
    /\ caller[c].pc = "idle"
    /\ tail[sh] > 0
    /\ Goto(c, [pc |-> "recover", shard |-> sh, event |-> tail[sh]])
    /\ UNCHANGED <<tail, shard, epochs, checkpoints, histories>>

\* Mutant: recovery repeats the last event as if it were new.
RecoverWriteAdds(c) ==
    /\ caller[c].pc = "recover"
    /\ shard' = [shard EXCEPT ![caller[c].shard] =
          Upsert(@, caller[c].event + 1, caller[c].event)]
    /\ recovered' = recovered \cup {caller[c].shard}
    /\ Goto(c, Idle)
    /\ UNCHANGED <<tail, epochs, checkpoints, advances, numbered>>

\* The upsert, later and under the coordinator's lock.
RecoverWrite(c) ==
    /\ caller[c].pc = "recover"
    /\ shard' = [shard EXCEPT ![caller[c].shard] =
          Upsert(@, caller[c].event, caller[c].event)]
    /\ recovered' = recovered \cup {caller[c].shard}
    /\ Goto(c, Idle)
    /\ UNCHANGED <<tail, epochs, checkpoints, advances, numbered>>

\* The caller's process ends, or a statement raises: the call is lost.
Crash(c) ==
    /\ caller[c].pc # "idle"
    /\ Goto(c, Idle)
    /\ UNCHANGED <<tail, shard, epochs, checkpoints, histories>>

-----------------------------------------------------------------------------
Next ==
    \E c \in Callers :
        \/ \E sh \in Shards : Produce(c, sh)
        \/ AdvanceCheck(c)
        \/ AdvanceFrozen(c)
        \/ AdvanceCommit(c)
        \/ AdvanceReturn(c)
        \/ \E n \in EpochNumbers, S \in SUBSET Shards : EstablishEpoch(c, n, S)
        \/ \E sh \in Shards : CheckpointRead(c, sh)
        \/ CheckpointWrite(c)
        \/ \E sh \in Shards : RecoverRead(c, sh)
        \/ RecoverWrite(c)
        \/ Crash(c)

Spec == Init /\ [][Next]_vars

-----------------------------------------------------------------------------
(* Properties *)

AdvanceCall ==
    [pc : {"produced", "checked", "committed"}, shard : Shards, event : Nat \ {0},
     before : SUBSET Nat]

Call ==
    [pc : {"idle"}]
      \cup AdvanceCall
      \cup [pc : {"recover"}, shard : Shards, event : Nat \ {0}]
      \cup [pc : {"checkpoint"}, shard : Shards, sequence : Nat]

Answer == [event : Nat \ {0}, sequence : Nat, before : SUBSET Nat]

\* Every variable has the shape its table or call gives it.
TypeOK ==
    /\ tail \in [Shards -> Nat]
    /\ shard \in [Shards -> [known : BOOLEAN, current_sequence : Nat, last_event : Nat,
                             epoch_number : EpochNumbers \cup {0}, frozen : BOOLEAN]]
    /\ DOMAIN epochs \subseteq EpochNumbers
    /\ \A n \in DOMAIN epochs : epochs[n] \subseteq Shards
    /\ checkpoints \in [Shards -> Seq(Nat)]
    /\ caller \in [Callers -> Call]
    /\ advances \in [Shards -> Nat]
    /\ numbered \in [Shards -> SUBSET Answer]
    /\ recovered \subseteq Shards

\* The shards recover_shard has not written so far.
Unrecovered == Shards \ recovered

\* "Atomic update": until a recovery, the sequence is exactly the number of
\* advances that committed, however callers interleave or die.
NoAdvanceLost == \A sh \in Unrecovered : shard[sh].current_sequence = advances[sh]

\* No checkpoint claims progress the shard has not made, although the sequence
\* it records was read in an earlier step; until a recovery moves the sequence.
CheckpointsReached ==
    \A sh \in Unrecovered : \A i \in DOMAIN checkpoints[sh] :
        checkpoints[sh][i] <= shard[sh].current_sequence

\* The sequence advance_sequence answers is read after its commit, so calls that
\* overlap may be answered the same number.  Calls that do not are in order:
\* until a recovery, the answer is larger than every number answered, to any
\* caller, before the call began.
NumbersFollowCalls ==
    \A sh \in Unrecovered : \A x \in numbered[sh] : \A n \in x.before : n < x.sequence

\* How far recover_shard can take the sequence past the events: it does not know
\* of the advances other callers have under way, which then come on top of it.
Slack == IF Recoverers = {} THEN 0 ELSE Cardinality(Callers) - 1

\* The sequence does not drift from the events it counts.  Without recovery, or
\* with a single caller that recovers after its own crashes, it is never ahead
\* of them; any number of recoveries racing other callers put it ahead by less
\* than the number of callers, and repeated ones do not add up.
SequenceWithinEvents ==
    \A sh \in Shards : shard[sh].current_sequence <= tail[sh] + Slack

\* MonotonicCheckpoint, "Cannot roll back. Only forward.": the checkpoints of a
\* shard are in the order verify_monotonicity asks for.
CheckpointsMonotonic == \A sh \in Shards : VerifyMonotonicity(sh)

-----------------------------------------------------------------------------
(* Inductive invariants of the proofs *)

\* A sequence read for a checkpoint has been reached, and so have the numbers a
\* call had seen answered when it began; its own commit goes past them.
CallInv(call) ==
    /\ call.pc = "checkpoint" => call.sequence <= shard[call.shard].current_sequence
    /\ call.pc = "checked" =>
          \A n \in call.before : n <= shard[call.shard].current_sequence
    /\ call.pc = "committed" =>
          \A n \in call.before : n < shard[call.shard].current_sequence

\* What every interleaving of callers keeps of a shard nobody has recovered.
ShardInv(sh) ==
    /\ shard[sh].current_sequence = advances[sh]
    /\ \A i \in DOMAIN checkpoints[sh] : checkpoints[sh][i] <= shard[sh].current_sequence
    /\ \A n \in Numbers(sh) : n <= shard[sh].current_sequence
    /\ \A x \in numbered[sh] : \A n \in x.before : n < x.sequence

AdvanceInv ==
    /\ \A sh \in Unrecovered : ShardInv(sh)
    /\ \A c \in Callers :
          caller[c].pc # "idle" /\ caller[c].shard \in Unrecovered => CallInv(caller[c])

\* The callers whose event is in the partition and whose advance is still to come.
Unfinished(sh) ==
    {c \in Callers : caller[c].pc \in {"produced", "checked"} /\ caller[c].shard = sh}

\* Every advance still to come has its own event, up to the slack; a recovery in
\* progress has read a tail the partition has reached.
PendingInv ==
    /\ \A sh \in Shards :
          shard[sh].current_sequence + Cardinality(Unfinished(sh)) <= tail[sh] + Slack
    /\ \A c \in Callers : caller[c].pc = "recover" =>
          caller[c].event <= tail[caller[c].shard] /\ Recoverers # {}
=============================================================================
