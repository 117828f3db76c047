----------------------- MODULE ShardCoordinator_proofs -----------------------
(***************************************************************************)
(* Theorems about ShardCoordinator, for any shards, epochs, number of      *)
(* events and number of callers, with crashes and with recoveries that     *)
(* race them.                                                              *)
(***************************************************************************)
EXTENDS ShardCoordinator, FiniteSetTheorems, TLAPS

-----------------------------------------------------------------------------
(* Type correctness *)

Row == [known : BOOLEAN, current_sequence : Nat, last_event : Nat,
        epoch_number : EpochNumbers \cup {0}, frozen : BOOLEAN]

\* What the record of a call holds at each step of its method.
LEMMA CallType ==
  ASSUME TypeOK, NEW c \in Callers
  PROVE  /\ caller[c].pc \in {"produced", "checked", "committed"} => caller[c] \in AdvanceCall
         /\ caller[c].pc \in {"produced", "checked", "committed", "recover"} =>
               caller[c].shard \in Shards /\ caller[c].event \in Nat \ {0}
         /\ caller[c].pc = "checkpoint" =>
               caller[c].shard \in Shards /\ caller[c].sequence \in Nat
<1>1. caller[c] \in Call
  BY DEF TypeOK
<1> QED
  BY <1>1 DEF Call, AdvanceCall

\* An advance that goes on to its next step is a call for the same event.
LEMMA CallStep ==
  ASSUME NEW call \in AdvanceCall, NEW pc \in {"checked", "committed"}, NEW S \in SUBSET Nat
  PROVE  LET next == [call EXCEPT !.pc = pc, !.before = S]
             on == [call EXCEPT !.pc = pc]
         IN  /\ next \in AdvanceCall
             /\ next.pc = pc /\ next.before = S
             /\ next.shard = call.shard
             /\ on \in AdvanceCall
             /\ on.pc = pc /\ on.before = call.before
             /\ on.shard = call.shard
  BY DEF AdvanceCall

LEMMA Calls == Idle \in Call /\ Idle.pc = "idle" /\ AdvanceCall \subseteq Call
  BY DEF Idle, Call

LEMMA NumbersType ==
  ASSUME TypeOK, NEW sh \in Shards
  PROVE  Numbers(sh) \in SUBSET Nat
<1>1. numbered[sh] \in SUBSET Answer
  BY DEF TypeOK
<1> QED
  BY <1>1 DEF Numbers, Answer

\* The upsert of advance_sequence and recover_shard writes one row.
LEMMA UpsertRow ==
  ASSUME TypeOK, NEW sh \in Shards, NEW n \in Nat, NEW e \in Nat,
         shard' = [shard EXCEPT ![sh] = Upsert(@, n, e)]
  PROVE  /\ shard' \in [Shards -> Row]
         /\ shard'[sh].current_sequence = n
         /\ \A x \in Shards : x # sh => shard'[x] = shard[x]
<1>1. shard \in [Shards -> Row]
  BY DEF TypeOK, Row
<1>2. Upsert(shard[sh], n, e) \in Row /\ Upsert(shard[sh], n, e).current_sequence = n
  BY <1>1 DEF Upsert, Row
<1> QED
  BY <1>1, <1>2

\* establish_epoch changes no sequence.
LEMMA EpochRows ==
  ASSUME TypeOK, NEW c \in Callers, NEW n \in EpochNumbers, NEW S \in SUBSET Shards,
         EstablishEpoch(c, n, S)
  PROVE  /\ shard' \in [Shards -> Row]
         /\ \A sh \in Shards : shard'[sh].current_sequence = shard[sh].current_sequence
<1>1. shard \in [Shards -> Row]
  BY DEF TypeOK, Row
<1>2. \A sh \in Shards :
        LET r == [shard[sh] EXCEPT !.frozen = TRUE, !.epoch_number = n]
        IN  r \in Row /\ r.current_sequence = shard[sh].current_sequence
  BY <1>1 DEF Row
<1> QED
  BY <1>1, <1>2 DEF EstablishEpoch

LEMMA InitType == Init => TypeOK
  BY DEF Init, TypeOK, NoRow, Idle, Call

LEMMA NextType ==
  ASSUME TypeOK, [Next]_vars
  PROVE  TypeOK'
<1> USE DEF Goto
<1>1. CASE UNCHANGED vars
  BY <1>1 DEF vars, TypeOK
<1>2. ASSUME NEW c \in Callers, NEW sh \in Shards, Produce(c, sh)
      PROVE  TypeOK'
  <2>1. tail[sh] + 1 \in Nat \ {0}
    BY DEF TypeOK
  <2>2. [pc |-> "produced", shard |-> sh, event |-> tail[sh] + 1, before |-> {}] \in Call
    BY <2>1 DEF Call, AdvanceCall
  <2> QED
    BY <1>2, <2>1, <2>2 DEF TypeOK, Produce, histories
<1>3. ASSUME NEW c \in Callers, AdvanceCheck(c)
      PROVE  TypeOK'
  <2>1. caller[c] \in AdvanceCall /\ Numbers(caller[c].shard) \in SUBSET Nat
    BY <1>3, CallType, NumbersType DEF AdvanceCheck
  <2>2. [caller[c] EXCEPT !.pc = "checked", !.before = Numbers(caller[c].shard)] \in Call
    BY <2>1, CallStep, Calls
  <2> QED
    BY <1>3, <2>2 DEF TypeOK, AdvanceCheck, histories
<1>4. ASSUME NEW c \in Callers, AdvanceFrozen(c) \/ Crash(c)
      PROVE  TypeOK'
  BY <1>4, Calls DEF TypeOK, AdvanceFrozen, Crash, histories
<1>5. ASSUME NEW c \in Callers, AdvanceCommit(c)
      PROVE  TypeOK'
  <2> DEFINE sh == caller[c].shard
  <2>1. sh \in Shards /\ caller[c].event \in Nat
    BY <1>5, CallType DEF AdvanceCommit
  <2>2. shard[sh].current_sequence + 1 \in Nat
    BY <2>1 DEF TypeOK
  <2>3. shard' = [shard EXCEPT ![sh] = Upsert(@, shard[sh].current_sequence + 1, caller[c].event)]
    BY <1>5, <2>1 DEF AdvanceCommit, TypeOK
  <2>4. shard' \in [Shards -> Row]
    BY <2>1, <2>2, <2>3, UpsertRow
  <2>5. caller[c] \in AdvanceCall
    BY <1>5, CallType DEF AdvanceCommit
  <2>6. [caller[c] EXCEPT !.pc = "committed"] \in Call
    BY <2>5, CallStep, Calls
  <2>7. advances' \in [Shards -> Nat]
    BY <1>5, <2>1 DEF AdvanceCommit, TypeOK
  <2> QED
    BY <1>5, <2>4, <2>6, <2>7 DEF AdvanceCommit, TypeOK, Row
<1>6. ASSUME NEW c \in Callers, AdvanceReturn(c)
      PROVE  TypeOK'
  <2> DEFINE sh == caller[c].shard
             answer == [event |-> caller[c].event, sequence |-> shard[sh].current_sequence,
                        before |-> caller[c].before]
  <2>1. caller[c] \in AdvanceCall
    BY <1>6, CallType DEF AdvanceReturn
  <2>2. sh \in Shards
    BY <2>1 DEF AdvanceCall
  <2>3. answer \in Answer
    BY <2>1, <2>2 DEF AdvanceCall, Answer, TypeOK
  <2>4. numbered' = [numbered EXCEPT ![sh] = @ \cup {answer}]
    BY <1>6 DEF AdvanceReturn
  <2>5. numbered' \in [Shards -> SUBSET Answer]
    <3> HIDE DEF answer
    <3> QED  BY <2>2, <2>3, <2>4 DEF TypeOK
  <2> QED
    BY <1>6, <2>5, Calls DEF AdvanceReturn, TypeOK
<1>7. ASSUME NEW c \in Callers, NEW n \in EpochNumbers, NEW S \in SUBSET Shards,
             EstablishEpoch(c, n, S)
      PROVE  TypeOK'
  <2>1. shard' \in [Shards -> Row]
    BY <1>7, EpochRows
  <2>2. DOMAIN epochs' \subseteq EpochNumbers /\ \A m \in DOMAIN epochs' : epochs'[m] \subseteq Shards
    BY <1>7 DEF EstablishEpoch, TypeOK
  <2> QED
    BY <1>7, <2>1, <2>2 DEF EstablishEpoch, TypeOK, Row, histories
<1>8. ASSUME NEW c \in Callers, NEW sh \in Shards, CheckpointRead(c, sh)
      PROVE  TypeOK'
  <2>1. [pc |-> "checkpoint", shard |-> sh, sequence |-> shard[sh].current_sequence] \in Call
    BY DEF TypeOK, Call
  <2> QED
    BY <1>8, <2>1 DEF TypeOK, CheckpointRead, histories
<1>9. ASSUME NEW c \in Callers, CheckpointWrite(c)
      PROVE  TypeOK'
  <2>1. caller[c].shard \in Shards /\ caller[c].sequence \in Nat
    BY <1>9, CallType DEF CheckpointWrite
  <2>2. checkpoints' \in [Shards -> Seq(Nat)]
    BY <1>9, <2>1 DEF CheckpointWrite, TypeOK
  <2> QED
    BY <1>9, <2>2, Calls DEF CheckpointWrite, TypeOK, histories
<1>10. ASSUME NEW c \in Callers, NEW sh \in Shards, RecoverRead(c, sh)
       PROVE  TypeOK'
  <2>1. [pc |-> "recover", shard |-> sh, event |-> tail[sh]] \in Call
    BY <1>10 DEF TypeOK, RecoverRead, Call
  <2> QED
    BY <1>10, <2>1 DEF TypeOK, RecoverRead, histories
<1>11. ASSUME NEW c \in Callers, RecoverWrite(c)
       PROVE  TypeOK'
  <2>1. caller[c].shard \in Shards /\ caller[c].event \in Nat
    BY <1>11, CallType DEF RecoverWrite
  <2>2. shard' \in [Shards -> Row]
    BY <1>11, <2>1, UpsertRow DEF RecoverWrite
  <2> QED
    BY <1>11, <2>1, <2>2, Calls DEF RecoverWrite, TypeOK, Row
<1> QED
  BY <1>1, <1>2, <1>3, <1>4, <1>5, <1>6, <1>7, <1>8, <1>9, <1>10, <1>11 DEF Next

\* Every table and every call in progress keeps its shape.
THEOREM TypeCorrect == Spec => []TypeOK
  BY InitType, NextType, PTL DEF Spec
-----------------------------------------------------------------------------
(* The rows the methods write *)

\* A checkpoint table after write_checkpoint: the old rows and maybe one more.
LEMMA WriteRows ==
  ASSUME TypeOK, NEW c \in Callers, CheckpointWrite(c)
  PROVE  /\ caller[c].shard \in Shards
         /\ caller[c].sequence \in Nat
         /\ \A sh \in Shards : sh # caller[c].shard => checkpoints'[sh] = checkpoints[sh]
         /\ \/ checkpoints'[caller[c].shard] = checkpoints[caller[c].shard]
            \/ checkpoints'[caller[c].shard] =
                 Append(checkpoints[caller[c].shard], caller[c].sequence)
<1>1. caller[c].shard \in Shards /\ caller[c].sequence \in Nat
  BY CallType DEF CheckpointWrite
<1> QED
  BY <1>1 DEF CheckpointWrite, TypeOK

\* advance_sequence adds one to the sequence of the call's shard.
LEMMA CommitRow ==
  ASSUME TypeOK, NEW c \in Callers, AdvanceCommit(c)
  PROVE  /\ caller[c].shard \in Shards
         /\ shard[caller[c].shard].current_sequence \in Nat
         /\ shard'[caller[c].shard].current_sequence =
               shard[caller[c].shard].current_sequence + 1
         /\ \A sh \in Shards : sh # caller[c].shard => shard'[sh] = shard[sh]
<1> DEFINE sh == caller[c].shard
<1>1. sh \in Shards /\ caller[c].event \in Nat
  BY CallType DEF AdvanceCommit
<1>2. shard[sh].current_sequence \in Nat /\ shard[sh].current_sequence + 1 \in Nat
  BY <1>1 DEF TypeOK
<1>3. shard' = [shard EXCEPT ![sh] =
                  Upsert(@, shard[sh].current_sequence + 1, caller[c].event)]
  BY <1>1 DEF AdvanceCommit, TypeOK
<1> QED
  BY <1>1, <1>2, <1>3, UpsertRow

-----------------------------------------------------------------------------
(* Advances, answers and checkpoints of a shard nobody has recovered *)

LEMMA InitAdvance == Init => AdvanceInv
  BY DEF Init, AdvanceInv, ShardInv, Unrecovered, Numbers, NoRow, Idle

\* The tables of a shard are left alone and its sequence does not go back.
LEMMA ShardKept ==
  ASSUME TypeOK, NEW sh \in Shards, ShardInv(sh),
         shard'[sh].current_sequence = shard[sh].current_sequence,
         checkpoints'[sh] = checkpoints[sh], numbered'[sh] = numbered[sh],
         advances'[sh] = advances[sh]
  PROVE  ShardInv(sh)'
  BY DEF ShardInv, Numbers

\* A step of caller c to the given call: the calls of the others stay right,
\* because no sequence goes back.
LEMMA CallsKept ==
  ASSUME TypeOK, TypeOK', AdvanceInv, recovered \subseteq recovered',
         \A sh \in Unrecovered' : shard[sh].current_sequence <= shard'[sh].current_sequence,
         NEW c \in Callers, NEW call \in Call, caller' = [caller EXCEPT ![c] = call],
         call.pc # "idle" /\ call.shard \in Unrecovered' => CallInv(caller[c])',
         NEW d \in Callers, caller'[d].pc # "idle", caller'[d].shard \in Unrecovered'
  PROVE  CallInv(caller[d])'
<1>1. CASE d = c
  <2>1. caller'[c] = call
    BY DEF TypeOK
  <2> QED  BY <1>1, <2>1
<1>2. CASE d # c
  <2>1. caller'[d] = caller[d]
    BY <1>2 DEF TypeOK
  <2> DEFINE sh == caller[d].shard
  <2>2. sh \in Shards /\ sh \in Unrecovered /\ sh \in Unrecovered'
    BY <2>1 DEF Unrecovered
  <2>3. CallInv(caller[d])
    BY <2>1, <2>2 DEF AdvanceInv
  <2>4. /\ shard[sh].current_sequence \in Nat
        /\ shard'[sh].current_sequence \in Nat
        /\ shard[sh].current_sequence <= shard'[sh].current_sequence
    BY <2>2 DEF TypeOK
  <2>5. caller[d].pc = "checkpoint" => caller[d].sequence <= shard'[sh].current_sequence
    <3>1. caller[d].pc = "checkpoint" => caller[d].sequence \in Nat
      BY CallType
    <3> QED  BY <2>3, <2>4, <3>1 DEF CallInv
  <2>6. caller[d].pc \in {"checked", "committed"} => caller[d].before \in SUBSET Nat
    BY CallType DEF AdvanceCall
  <2>7. ASSUME caller[d].pc = "checked", NEW n \in caller[d].before
        PROVE  n <= shard'[sh].current_sequence
    <3>1. n \in Nat
      BY <2>6, <2>7
    <3>2. n <= shard[sh].current_sequence
      BY <2>3, <2>7 DEF CallInv
    <3> QED  BY <2>4, <3>1, <3>2
  <2>8. ASSUME caller[d].pc = "committed", NEW n \in caller[d].before
        PROVE  n < shard'[sh].current_sequence
    <3>1. n \in Nat
      BY <2>6, <2>8
    <3>2. n < shard[sh].current_sequence
      BY <2>3, <2>8 DEF CallInv
    <3> QED  BY <2>4, <3>1, <3>2
  <2> QED
    BY <2>1, <2>5, <2>7, <2>8 DEF CallInv
<1> QED
  BY <1>1, <1>2

\* A step that leaves the sequences and the tables alone and takes one caller
\* to another call.
LEMMA QuietAdvance ==
  ASSUME TypeOK, TypeOK', AdvanceInv, UNCHANGED <<advances, checkpoints, numbered, recovered>>,
         \A sh \in Shards : shard'[sh].current_sequence = shard[sh].current_sequence,
         NEW c \in Callers, NEW call \in Call, Goto(c, call),
         call.pc # "idle" /\ call.shard \in Unrecovered => CallInv(caller[c])'
  PROVE  AdvanceInv'
<1>1. \A sh \in Shards : shard[sh].current_sequence \in Nat
  BY DEF TypeOK
<1>2. Unrecovered' = Unrecovered /\ Unrecovered \subseteq Shards
  BY DEF Unrecovered
<1>3. \A sh \in Unrecovered' : ShardInv(sh)'
  BY <1>2, ShardKept DEF AdvanceInv
<1>4. \A sh \in Unrecovered' : shard[sh].current_sequence <= shard'[sh].current_sequence
  BY <1>1, <1>2
<1>5. \A d \in Callers : caller'[d].pc # "idle" /\ caller'[d].shard \in Unrecovered'
         => CallInv(caller[d])'
  BY <1>2, <1>4, CallsKept DEF Goto
<1> QED
  BY <1>3, <1>5 DEF AdvanceInv

LEMMA CommitAdvance ==
  ASSUME TypeOK, TypeOK', AdvanceInv, NEW c \in Callers, AdvanceCommit(c)
  PROVE  AdvanceInv'
<1> DEFINE x == caller[c].shard
           call == [caller[c] EXCEPT !.pc = "committed"]
<1>1. /\ caller[c].pc = "checked"
      /\ caller' = [caller EXCEPT ![c] = call]
      /\ UNCHANGED <<checkpoints, numbered, recovered>>
      /\ advances' = [advances EXCEPT ![x] = @ + 1]
  BY DEF AdvanceCommit, Goto
<1>2. caller[c] \in AdvanceCall /\ x \in Shards /\ caller[c].before \in SUBSET Nat
  BY <1>1, CallType DEF AdvanceCall
<1>3. /\ call \in Call
      /\ call.pc = "committed" /\ call.shard = x /\ call.before = caller[c].before
  BY <1>2, CallStep, Calls
<1> HIDE DEF call
<1>4. caller'[c] = call
  BY <1>1 DEF TypeOK
<1>5. /\ \A sh \in Shards : /\ shard[sh].current_sequence \in Nat
                            /\ advances[sh] \in Nat
      /\ Unrecovered' = Unrecovered /\ Unrecovered \subseteq Shards
  BY <1>1 DEF TypeOK, Unrecovered
<1>6. shard'[x].current_sequence = shard[x].current_sequence + 1
  BY CommitRow
<1>7. ASSUME NEW sh \in Unrecovered
      PROVE  ShardInv(sh)' /\ shard[sh].current_sequence <= shard'[sh].current_sequence
  <2>0. ShardInv(sh) /\ sh \in Shards
    BY <1>5, <1>7 DEF AdvanceInv
  <2>1. CASE sh # x
    <3>1. shard'[sh] = shard[sh] /\ advances'[sh] = advances[sh]
      BY <1>1, <2>0, <2>1, CommitRow DEF TypeOK
    <3> QED  BY <1>1, <1>5, <2>0, <3>1, ShardKept
  <2>2. CASE sh = x
    <3>1. advances'[x] = advances[x] + 1
      BY <1>1, <1>2 DEF TypeOK
    <3>2. shard'[x].current_sequence = advances'[x]
      BY <1>6, <2>0, <2>2, <3>1 DEF ShardInv
    <3>3. shard[x].current_sequence \in Nat /\ shard[x].current_sequence <= shard'[x].current_sequence
      BY <1>2, <1>5, <1>6
    <3>4. \A i \in DOMAIN checkpoints[x] : checkpoints[x][i] <= shard'[x].current_sequence
      <4> SUFFICES ASSUME NEW i \in DOMAIN checkpoints[x]
                   PROVE  checkpoints[x][i] <= shard'[x].current_sequence
        OBVIOUS
      <4>1. checkpoints[x][i] \in Nat
        BY <1>2 DEF TypeOK
      <4>2. checkpoints[x][i] <= shard[x].current_sequence
        BY <2>0, <2>2 DEF ShardInv
      <4> QED  BY <1>6, <3>3, <4>1, <4>2
    <3>5. \A n \in Numbers(x) : n <= shard'[x].current_sequence
      <4> SUFFICES ASSUME NEW n \in Numbers(x) PROVE n <= shard'[x].current_sequence
        OBVIOUS
      <4>1. n \in Nat
        BY <1>2, NumbersType
      <4>2. n <= shard[x].current_sequence
        BY <2>0, <2>2 DEF ShardInv
      <4> QED  BY <1>6, <3>3, <4>1, <4>2
    <3> QED
      BY <1>1, <2>0, <2>2, <3>2, <3>3, <3>4, <3>5 DEF ShardInv, Numbers
  <2> QED  BY <2>1, <2>2
<1>8. ASSUME x \in Unrecovered
      PROVE  CallInv(caller[c])'
  <2>1. CallInv(caller[c])
    BY <1>1, <1>8 DEF AdvanceInv
  <2>2. ASSUME NEW n \in caller[c].before
        PROVE  n < shard'[x].current_sequence
    <3>1. n \in Nat
      BY <1>2, <2>2
    <3>2. n <= shard[x].current_sequence
      BY <1>1, <2>1, <2>2 DEF CallInv
    <3> QED  BY <1>2, <1>5, <1>6, <3>1, <3>2
  <2> QED
    BY <1>3, <1>4, <2>2 DEF CallInv
<1>9. \A d \in Callers : caller'[d].pc # "idle" /\ caller'[d].shard \in Unrecovered'
         => CallInv(caller[d])'
  BY <1>1, <1>3, <1>5, <1>7, <1>8, CallsKept
<1> QED
  BY <1>5, <1>7, <1>9 DEF AdvanceInv

\* A call that ends leaves the other calls as they are.
LEMMA EndedCall ==
  ASSUME TypeOK, AdvanceInv, UNCHANGED <<shard, recovered>>,
         NEW c \in Callers, caller' = [caller EXCEPT ![c] = Idle]
  PROVE  \A d \in Callers : caller'[d].pc # "idle" /\ caller'[d].shard \in Unrecovered'
            => CallInv(caller[d])'
<1> SUFFICES ASSUME NEW d \in Callers, caller'[d].pc # "idle", caller'[d].shard \in Unrecovered'
             PROVE  CallInv(caller[d])'
  OBVIOUS
<1>1. caller'[d] = caller[d]
  BY Calls DEF TypeOK
<1>2. CallInv(caller[d])
  BY <1>1 DEF AdvanceInv, Unrecovered
<1> QED
  BY <1>1, <1>2 DEF CallInv

LEMMA ReturnAdvance ==
  ASSUME TypeOK, AdvanceInv, NEW c \in Callers, AdvanceReturn(c)
  PROVE  AdvanceInv'
<1> DEFINE x == caller[c].shard
           answer == [event |-> caller[c].event, sequence |-> shard[x].current_sequence,
                      before |-> caller[c].before]
<1>1. /\ caller[c].pc = "committed"
      /\ caller' = [caller EXCEPT ![c] = Idle]
      /\ UNCHANGED <<shard, checkpoints, advances, recovered>>
      /\ numbered' = [numbered EXCEPT ![x] = @ \cup {answer}]
  BY DEF AdvanceReturn, Goto
<1>2. x \in Shards
  BY <1>1, CallType
<1>3. answer.sequence = shard[x].current_sequence /\ answer.before = caller[c].before
  OBVIOUS
<1> HIDE DEF answer
<1>4. /\ numbered'[x] = numbered[x] \cup {answer}
      /\ \A sh \in Shards : sh # x => numbered'[sh] = numbered[sh]
  BY <1>1, <1>2 DEF TypeOK
<1>5. ASSUME NEW sh \in Unrecovered
      PROVE  ShardInv(sh)'
  <2>0. ShardInv(sh) /\ sh \in Shards
    BY <1>5 DEF AdvanceInv, Unrecovered
  <2>1. CASE sh # x
    BY <1>1, <1>4, <2>0, <2>1, ShardKept
  <2>2. CASE sh = x
    <3>1. shard[x].current_sequence \in Nat
      BY <1>2 DEF TypeOK
    <3>2. CallInv(caller[c])
      BY <1>1, <1>5, <2>2 DEF AdvanceInv
    <3>3. \A n \in answer.before : n < answer.sequence
      BY <1>1, <1>3, <3>2 DEF CallInv
    <3>4. \A y \in numbered'[x] : \A n \in y.before : n < y.sequence
      BY <1>4, <2>0, <2>2, <3>3 DEF ShardInv
    <3>5. \A y \in numbered'[x] : y.sequence <= shard[x].current_sequence
      BY <1>3, <1>4, <2>0, <2>2, <3>1 DEF ShardInv, Numbers
    <3>6. \A n \in Numbers(sh)' : n <= shard[sh].current_sequence
      BY <2>2, <3>5 DEF Numbers
    <3> QED
      BY <1>1, <2>0, <2>2, <3>4, <3>6 DEF ShardInv
  <2> QED  BY <2>1, <2>2
<1> QED
  BY <1>1, <1>5, EndedCall DEF AdvanceInv, Unrecovered

LEMMA WriteAdvance ==
  ASSUME TypeOK, AdvanceInv, NEW c \in Callers, CheckpointWrite(c)
  PROVE  AdvanceInv'
<1> DEFINE x == caller[c].shard
<1>1. /\ caller[c].pc = "checkpoint"
      /\ caller' = [caller EXCEPT ![c] = Idle]
      /\ UNCHANGED <<shard, advances, numbered, recovered>>
  BY DEF CheckpointWrite, Goto, histories
<1>2. ASSUME NEW sh \in Unrecovered
      PROVE  ShardInv(sh)'
  <2>0. ShardInv(sh) /\ sh \in Shards
    BY <1>2 DEF AdvanceInv, Unrecovered
  <2>1. CASE checkpoints'[sh] = checkpoints[sh]
    BY <1>1, <2>0, <2>1, ShardKept
  <2>2. CASE sh = x /\ checkpoints'[x] = Append(checkpoints[x], caller[c].sequence)
    <3>1. CallInv(caller[c])
      BY <1>1, <1>2, <2>2 DEF AdvanceInv
    <3>2. caller[c].sequence <= shard[x].current_sequence /\ caller[c].sequence \in Nat
      BY <1>1, <3>1, CallType DEF CallInv
    <3>3. checkpoints[x] \in Seq(Nat)
      BY <2>0, <2>2 DEF TypeOK
    <3>4. \A i \in DOMAIN checkpoints[x] : checkpoints[x][i] <= shard[x].current_sequence
      BY <2>0, <2>2 DEF ShardInv
    <3>5. ASSUME NEW i \in DOMAIN Append(checkpoints[x], caller[c].sequence)
          PROVE  Append(checkpoints[x], caller[c].sequence)[i] <= shard[x].current_sequence
      <4>1. CASE i \in 1 .. Len(checkpoints[x])
        BY <3>2, <3>3, <3>4, <4>1
      <4>2. CASE i = Len(checkpoints[x]) + 1
        BY <3>2, <3>3, <4>2
      <4> QED  BY <3>2, <3>3, <3>5, <4>1, <4>2
    <3> QED
      BY <1>1, <2>0, <2>2, <3>5 DEF ShardInv, Numbers
  <2> QED  BY <2>0, <2>1, <2>2, WriteRows
<1> QED
  BY <1>1, <1>2, EndedCall DEF AdvanceInv, Unrecovered

\* recover_shard says nothing of the shards it has not written.
LEMMA RecoverAdvance ==
  ASSUME TypeOK, TypeOK', AdvanceInv, NEW c \in Callers, RecoverWrite(c)
  PROVE  AdvanceInv'
<1> DEFINE x == caller[c].shard
<1>1. /\ caller' = [caller EXCEPT ![c] = Idle]
      /\ UNCHANGED <<advances, checkpoints, numbered>>
      /\ recovered' = recovered \cup {x}
  BY DEF RecoverWrite, Goto
<1>2. x \in Shards /\ caller[c].event \in Nat
  BY CallType DEF RecoverWrite
<1>3. \A sh \in Shards : sh # x => shard'[sh] = shard[sh]
  BY <1>2, UpsertRow DEF RecoverWrite
<1>4. \A sh \in Unrecovered' : sh \in Unrecovered /\ sh \in Shards /\ sh # x
  BY <1>1 DEF Unrecovered
<1>5. \A sh \in Unrecovered' : ShardInv(sh)'
  BY <1>1, <1>3, <1>4, ShardKept DEF AdvanceInv
<1>6. \A sh \in Unrecovered' : shard[sh].current_sequence <= shard'[sh].current_sequence
  <2>1. \A sh \in Shards : shard[sh].current_sequence \in Nat
    BY DEF TypeOK
  <2> QED  BY <1>3, <1>4, <2>1
<1>7. \A d \in Callers : caller'[d].pc # "idle" /\ caller'[d].shard \in Unrecovered'
         => CallInv(caller[d])'
  BY <1>1, <1>6, CallsKept, Calls
<1> QED
  BY <1>5, <1>7 DEF AdvanceInv

LEMMA NextAdvance ==
  ASSUME TypeOK, TypeOK', AdvanceInv, [Next]_vars
  PROVE  AdvanceInv'
<1>1. CASE UNCHANGED vars
  BY <1>1 DEF vars, AdvanceInv, ShardInv, CallInv, Unrecovered, Numbers
<1>2. ASSUME NEW c \in Callers, NEW sh \in Shards, Produce(c, sh)
      PROVE  AdvanceInv'
  <2> DEFINE call == [pc |-> "produced", shard |-> sh, event |-> tail[sh] + 1, before |-> {}]
  <2>1. call \in Call /\ call.pc = "produced"
    BY DEF Call, AdvanceCall, TypeOK
  <2>2. Goto(c, call) /\ UNCHANGED <<shard, advances, checkpoints, numbered, recovered>>
    BY <1>2 DEF Produce, histories
  <2> HIDE DEF call
  <2>3. CallInv(caller[c])'
    BY <2>1, <2>2 DEF Goto, TypeOK, CallInv
  <2> QED
    BY <2>1, <2>2, <2>3, QuietAdvance
<1>3. ASSUME NEW c \in Callers, AdvanceCheck(c)
      PROVE  AdvanceInv'
  <2> DEFINE x == caller[c].shard
             call == [caller[c] EXCEPT !.pc = "checked", !.before = Numbers(x)]
  <2>1. caller[c] \in AdvanceCall /\ x \in Shards /\ Numbers(x) \in SUBSET Nat
    BY <1>3, CallType, NumbersType DEF AdvanceCheck
  <2>2. call \in Call /\ call.pc = "checked" /\ call.shard = x /\ call.before = Numbers(x)
    <3>1. /\ call \in AdvanceCall
          /\ call.pc = "checked" /\ call.shard = x /\ call.before = Numbers(x)
      BY <2>1 DEF AdvanceCall
    <3> QED  BY <3>1, Calls
  <2>3. Goto(c, call) /\ UNCHANGED <<shard, advances, checkpoints, numbered, recovered>>
    BY <1>3 DEF AdvanceCheck, histories
  <2> HIDE DEF call
  <2>4. caller'[c] = call
    BY <2>3 DEF Goto, TypeOK
  <2>5. ASSUME x \in Unrecovered PROVE CallInv(caller[c])'
    <3>1. \A n \in Numbers(x) : n <= shard[x].current_sequence
      BY <2>5 DEF AdvanceInv, ShardInv
    <3> QED  BY <2>2, <2>3, <2>4, <3>1 DEF CallInv
  <2> QED
    BY <2>2, <2>3, <2>5, QuietAdvance
<1>4. ASSUME NEW c \in Callers, AdvanceFrozen(c) \/ Crash(c)
      PROVE  AdvanceInv'
  <2>1. Goto(c, Idle) /\ UNCHANGED <<shard, advances, checkpoints, numbered, recovered>>
    BY <1>4 DEF AdvanceFrozen, Crash, histories
  <2> QED
    BY <2>1, Calls, QuietAdvance
<1>5. ASSUME NEW c \in Callers, NEW n \in EpochNumbers, NEW S \in SUBSET Shards,
             EstablishEpoch(c, n, S)
      PROVE  AdvanceInv'
  <2>1. \A sh \in Shards : shard'[sh].current_sequence = shard[sh].current_sequence
    BY <1>5, EpochRows
  <2>2. UNCHANGED <<caller, advances, checkpoints, numbered, recovered>>
    BY <1>5 DEF EstablishEpoch, histories
  <2>3. \A sh \in Unrecovered' : ShardInv(sh)'
    BY <2>1, <2>2, ShardKept DEF AdvanceInv, Unrecovered
  <2>4. ASSUME NEW d \in Callers, caller'[d].pc # "idle", caller'[d].shard \in Unrecovered'
        PROVE  CallInv(caller[d])'
    <3>1. CallInv(caller[d]) /\ caller[d].shard \in Shards
      BY <2>2, <2>4 DEF AdvanceInv, Unrecovered
    <3> QED  BY <2>1, <2>2, <3>1 DEF CallInv
  <2> QED
    BY <2>3, <2>4 DEF AdvanceInv
<1>6. ASSUME NEW c \in Callers, NEW sh \in Shards, CheckpointRead(c, sh)
      PROVE  AdvanceInv'
  <2> DEFINE call == [pc |-> "checkpoint", shard |-> sh, sequence |-> shard[sh].current_sequence]
  <2>1. /\ call \in Call /\ call.pc = "checkpoint" /\ call.shard = sh
        /\ call.sequence = shard[sh].current_sequence
        /\ shard[sh].current_sequence \in Nat
    BY DEF TypeOK, Call
  <2>2. Goto(c, call) /\ UNCHANGED <<shard, advances, checkpoints, numbered, recovered>>
    BY <1>6 DEF CheckpointRead, histories
  <2> HIDE DEF call
  <2>3. CallInv(caller[c])'
    BY <2>1, <2>2 DEF Goto, TypeOK, CallInv
  <2> QED
    BY <2>1, <2>2, <2>3, QuietAdvance
<1>7. ASSUME NEW c \in Callers, NEW sh \in Shards, RecoverRead(c, sh)
      PROVE  AdvanceInv'
  <2> DEFINE call == [pc |-> "recover", shard |-> sh, event |-> tail[sh]]
  <2>1. call \in Call /\ call.pc = "recover"
    BY <1>7 DEF TypeOK, RecoverRead, Call
  <2>2. Goto(c, call) /\ UNCHANGED <<shard, advances, checkpoints, numbered, recovered>>
    BY <1>7 DEF RecoverRead, histories
  <2> HIDE DEF call
  <2>3. CallInv(caller[c])'
    BY <2>1, <2>2 DEF Goto, TypeOK, CallInv
  <2> QED
    BY <2>1, <2>2, <2>3, QuietAdvance
<1> QED
  BY <1>1, <1>2, <1>3, <1>4, <1>5, <1>6, <1>7, CommitAdvance, ReturnAdvance, WriteAdvance,
     RecoverAdvance DEF Next

\* The inductive invariant of a shard nobody has recovered.
LEMMA AdvanceInvariant == Spec => []AdvanceInv
  BY TypeCorrect, InitAdvance, NextAdvance, PTL DEF Spec

\* "Atomic update", for any number of threads that interleave and die: until a
\* recovery, no committed advance of advance_sequence is lost or counted twice.
THEOREM AdvancesAtomic == Spec => []NoAdvanceLost
<1>1. AdvanceInv => NoAdvanceLost
  BY DEF AdvanceInv, ShardInv, NoAdvanceLost
<1> QED
  BY <1>1, AdvanceInvariant, PTL

\* write_checkpoint, which writes a sequence read in an earlier step, records
\* only progress the shard has made, however callers interleave.
THEOREM CheckpointsBounded == Spec => []CheckpointsReached
<1>1. AdvanceInv => CheckpointsReached
  BY DEF AdvanceInv, ShardInv, CheckpointsReached
<1> QED
  BY <1>1, AdvanceInvariant, PTL

\* The numbers advance_sequence answers respect the order of calls that do not
\* overlap, for any number of callers, although each is read after the commit.
THEOREM NumbersOrdered == Spec => []NumbersFollowCalls
<1>1. AdvanceInv => NumbersFollowCalls
  BY DEF AdvanceInv, ShardInv, NumbersFollowCalls
<1> QED
  BY <1>1, AdvanceInvariant, PTL

-----------------------------------------------------------------------------
(* Events, advances and recoveries of concurrent callers *)

\* The advances of a shard that are still to come are counted, and so is the
\* slack.
LEMMA Counted ==
  ASSUME NEW c \in Callers
  PROVE  /\ Slack \in Nat
         /\ \A S \in SUBSET Callers : IsFiniteSet(S) /\ Cardinality(S) \in Nat
         /\ \A S \in SUBSET (Callers \ {c}) : Cardinality(S) <= Cardinality(Callers) - 1
<1>1. IsFiniteSet(Callers) /\ Cardinality(Callers) \in Nat
  BY ShardAssumption, FS_CardinalityType
<1>2. /\ IsFiniteSet(Callers \ {c})
      /\ Cardinality(Callers \ {c}) = Cardinality(Callers) - 1
      /\ Cardinality(Callers \ {c}) \in Nat
  BY <1>1, FS_RemoveElement, FS_CardinalityType
<1>3. \A S \in SUBSET Callers : IsFiniteSet(S) /\ Cardinality(S) \in Nat
  BY <1>1, FS_Subset, FS_CardinalityType
<1>4. \A S \in SUBSET (Callers \ {c}) : Cardinality(S) <= Cardinality(Callers \ {c})
  BY <1>2, FS_Subset
<1>5. Slack \in Nat
  BY <1>2 DEF Slack
<1> QED
  BY <1>2, <1>3, <1>4, <1>5

LEMMA UnfinishedCount ==
  ASSUME NEW c \in Callers, NEW sh
  PROVE  /\ Unfinished(sh) \in SUBSET Callers
         /\ IsFiniteSet(Unfinished(sh))
         /\ Cardinality(Unfinished(sh)) \in Nat
<1>1. Unfinished(sh) \in SUBSET Callers
  BY DEF Unfinished
<1> QED
  BY <1>1, Counted

LEMMA InitPending == Init => PendingInv
<1> SUFFICES ASSUME Init PROVE PendingInv
  OBVIOUS
<1>1. ASSUME NEW sh \in Shards
      PROVE  shard[sh].current_sequence + Cardinality(Unfinished(sh)) <= tail[sh] + Slack
  <2>1. Unfinished(sh) = {}
    BY DEF Init, Unfinished, Idle
  <2>2. shard[sh].current_sequence = 0 /\ tail[sh] = 0
    BY DEF Init, NoRow
  <2>3. Slack \in Nat
    <3>1. CASE Recoverers = {}
      BY <3>1 DEF Slack
    <3>2. CASE Recoverers # {}
      BY <3>2, ShardAssumption, Counted
    <3> QED  BY <3>1, <3>2
  <2> QED  BY <2>1, <2>2, <2>3, FS_EmptySet
<1> QED
  BY <1>1 DEF PendingInv, Init, Idle

\* A step that adds no event and no advance, and leaves no new advance to come.
LEMMA QuietPending ==
  ASSUME TypeOK, PendingInv, UNCHANGED tail,
         \A sh \in Shards : shard'[sh].current_sequence = shard[sh].current_sequence,
         NEW c \in Callers, NEW call, Goto(c, call),
         call.pc \in {"produced", "checked"} =>
            caller[c].pc \in {"produced", "checked"} /\ call.shard = caller[c].shard,
         call.pc = "recover" => call.event <= tail[call.shard] /\ Recoverers # {}
  PROVE  PendingInv'
<1>1. ASSUME NEW sh \in Shards
      PROVE  shard'[sh].current_sequence + Cardinality(Unfinished(sh)') <= tail'[sh] + Slack
  <2>1. Unfinished(sh)' \in SUBSET Unfinished(sh)
    BY DEF Unfinished, Goto, TypeOK
  <2>2. /\ shard[sh].current_sequence + Cardinality(Unfinished(sh)) <= tail[sh] + Slack
        /\ IsFiniteSet(Unfinished(sh)) /\ Cardinality(Unfinished(sh)) \in Nat
    BY UnfinishedCount DEF PendingInv
  <2>3. /\ Cardinality(Unfinished(sh)') <= Cardinality(Unfinished(sh))
        /\ Cardinality(Unfinished(sh)') \in Nat
    BY <2>1, <2>2, FS_Subset, FS_CardinalityType
  <2>4. shard[sh].current_sequence \in Nat /\ tail[sh] \in Nat /\ Slack \in Nat
    BY Counted DEF TypeOK
  <2> QED  BY <2>2, <2>3, <2>4
<1>2. ASSUME NEW d \in Callers, caller'[d].pc = "recover"
      PROVE  caller'[d].event <= tail'[caller'[d].shard] /\ Recoverers # {}
  BY <1>2 DEF PendingInv, Goto, TypeOK
<1> QED
  BY <1>1, <1>2 DEF PendingInv

\* An append adds an event and an advance to come.
LEMMA ProducePending ==
  ASSUME TypeOK, PendingInv, NEW c \in Callers, NEW x \in Shards, Produce(c, x)
  PROVE  PendingInv'
<1>1. /\ \A d \in Callers \ {c} : caller'[d] = caller[d]
      /\ caller'[c].pc = "produced" /\ caller'[c].shard = x /\ caller[c].pc = "idle"
  BY DEF Produce, Goto, TypeOK
<1>2. shard' = shard /\ tail'[x] = tail[x] + 1 /\ \A y \in Shards : y # x => tail'[y] = tail[y]
  BY DEF Produce, TypeOK
<1>3. ASSUME NEW sh \in Shards
      PROVE  shard'[sh].current_sequence + Cardinality(Unfinished(sh)') <= tail'[sh] + Slack
  <2>1. /\ shard[sh].current_sequence + Cardinality(Unfinished(sh)) <= tail[sh] + Slack
        /\ IsFiniteSet(Unfinished(sh)) /\ Cardinality(Unfinished(sh)) \in Nat
    BY UnfinishedCount DEF PendingInv
  <2>2. shard[sh].current_sequence \in Nat /\ tail[sh] \in Nat /\ Slack \in Nat
    BY Counted DEF TypeOK
  <2>3. CASE sh = x
    <3>1. Unfinished(sh)' = Unfinished(sh) \cup {c} /\ c \notin Unfinished(sh)
      BY <1>1, <2>3 DEF Unfinished
    <3>2. Cardinality(Unfinished(sh)') = Cardinality(Unfinished(sh)) + 1
      BY <2>1, <3>1, FS_AddElement
    <3> QED  BY <1>2, <2>1, <2>2, <2>3, <3>2
  <2>4. CASE sh # x
    <3>1. Unfinished(sh)' = Unfinished(sh)
      BY <1>1, <2>4 DEF Unfinished
    <3> QED  BY <1>2, <2>1, <2>4, <3>1
  <2> QED  BY <2>3, <2>4
<1>4. ASSUME NEW d \in Callers, caller'[d].pc = "recover"
      PROVE  caller'[d].event <= tail'[caller'[d].shard] /\ Recoverers # {}
  <2>1. d # c /\ caller'[d] = caller[d]
    BY <1>1, <1>4
  <2>2. caller[d].event <= tail[caller[d].shard] /\ Recoverers # {}
    BY <1>4, <2>1 DEF PendingInv
  <2>3. caller[d].shard \in Shards /\ caller[d].event \in Nat
    BY <1>4, <2>1, CallType
  <2>4. \A y \in Shards : tail[y] \in Nat /\ tail'[y] \in Nat /\ tail[y] <= tail'[y]
    <3>1. \A y \in Shards : tail[y] \in Nat
      BY DEF TypeOK
    <3> QED  BY <1>2, <3>1
  <2> QED  BY <2>1, <2>2, <2>3, <2>4
<1> QED
  BY <1>3, <1>4 DEF PendingInv

\* A commit turns an advance to come into one of the sequence.
LEMMA CommitPending ==
  ASSUME TypeOK, PendingInv, NEW c \in Callers, AdvanceCommit(c)
  PROVE  PendingInv'
<1>1. caller[c].pc = "checked" /\ tail' = tail /\ \A d \in Callers \ {c} : caller'[d] = caller[d]
  BY DEF AdvanceCommit, Goto, TypeOK
<1>2. caller'[c].pc = "committed"
  <2>1. caller[c] \in AdvanceCall
    BY <1>1, CallType
  <2>2. [caller[c] EXCEPT !.pc = "committed"].pc = "committed"
    BY <2>1 DEF AdvanceCall
  <2>3. caller'[c] = [caller[c] EXCEPT !.pc = "committed"]
    BY DEF AdvanceCommit, Goto, TypeOK
  <2> QED  BY <2>2, <2>3
<1>3. ASSUME NEW sh \in Shards
      PROVE  shard'[sh].current_sequence + Cardinality(Unfinished(sh)') <= tail'[sh] + Slack
  <2>1. /\ shard[sh].current_sequence + Cardinality(Unfinished(sh)) <= tail[sh] + Slack
        /\ IsFiniteSet(Unfinished(sh)) /\ Cardinality(Unfinished(sh)) \in Nat
    BY UnfinishedCount DEF PendingInv
  <2>2. shard[sh].current_sequence \in Nat /\ tail[sh] \in Nat /\ Slack \in Nat
    BY Counted DEF TypeOK
  <2>3. CASE sh = caller[c].shard
    <3>1. Unfinished(sh)' = Unfinished(sh) \ {c} /\ c \in Unfinished(sh)
      BY <1>1, <1>2, <2>3 DEF Unfinished
    <3>2. Cardinality(Unfinished(sh)') = Cardinality(Unfinished(sh)) - 1
      BY <2>1, <3>1, FS_RemoveElement
    <3>3. shard'[sh].current_sequence = shard[sh].current_sequence + 1
      BY <2>3, CommitRow
    <3> QED  BY <1>1, <2>1, <2>2, <3>2, <3>3
  <2>4. CASE sh # caller[c].shard
    <3>1. Unfinished(sh)' = Unfinished(sh)
      BY <1>1, <1>2, <2>4 DEF Unfinished
    <3>2. shard'[sh] = shard[sh]
      BY <2>4, CommitRow
    <3> QED  BY <1>1, <2>1, <3>1, <3>2
  <2> QED  BY <2>3, <2>4
<1>4. ASSUME NEW d \in Callers, caller'[d].pc = "recover"
      PROVE  caller'[d].event <= tail'[caller'[d].shard] /\ Recoverers # {}
  BY <1>1, <1>2, <1>4 DEF PendingInv
<1> QED
  BY <1>3, <1>4 DEF PendingInv

\* A recovery sets the sequence to a tail the partition has reached; the
\* advances that will come on top are those of the other callers.
LEMMA RecoverPending ==
  ASSUME TypeOK, PendingInv, NEW c \in Callers, RecoverWrite(c)
  PROVE  PendingInv'
<1> DEFINE x == caller[c].shard
<1>1. /\ caller[c].pc = "recover" /\ tail' = tail
      /\ \A d \in Callers \ {c} : caller'[d] = caller[d]
      /\ caller'[c].pc = "idle"
  BY DEF RecoverWrite, Goto, TypeOK, Idle
<1>2. x \in Shards /\ caller[c].event \in Nat /\ caller[c].event <= tail[x] /\ Recoverers # {}
  BY <1>1, CallType DEF PendingInv
<1>3. /\ shard'[x].current_sequence = caller[c].event
      /\ \A sh \in Shards : sh # x => shard'[sh] = shard[sh]
  BY <1>2, UpsertRow DEF RecoverWrite
<1>4. ASSUME NEW sh \in Shards
      PROVE  shard'[sh].current_sequence + Cardinality(Unfinished(sh)') <= tail'[sh] + Slack
  <2>1. Unfinished(sh)' = Unfinished(sh) /\ Unfinished(sh) \in SUBSET (Callers \ {c})
    BY <1>1 DEF Unfinished
  <2>2. CASE sh # x
    BY <1>1, <1>3, <2>1, <2>2 DEF PendingInv
  <2>3. CASE sh = x
    <3>1. /\ Cardinality(Unfinished(sh)) <= Cardinality(Callers) - 1
          /\ Cardinality(Unfinished(sh)) \in Nat
          /\ Slack \in Nat
      BY <2>1, Counted, UnfinishedCount
    <3>2. Slack = Cardinality(Callers) - 1
      BY <1>2 DEF Slack
    <3>3. tail[x] \in Nat
      BY <1>2 DEF TypeOK
    <3> QED  BY <1>1, <1>2, <1>3, <2>1, <2>3, <3>1, <3>2, <3>3
  <2> QED  BY <2>2, <2>3
<1>5. ASSUME NEW d \in Callers, caller'[d].pc = "recover"
      PROVE  caller'[d].event <= tail'[caller'[d].shard] /\ Recoverers # {}
  BY <1>1, <1>5 DEF PendingInv
<1> QED
  BY <1>4, <1>5 DEF PendingInv

LEMMA NextPending ==
  ASSUME TypeOK, PendingInv, [Next]_vars
  PROVE  PendingInv'
<1>1. CASE UNCHANGED vars
  BY <1>1 DEF vars, PendingInv, Unfinished
<1>2. ASSUME NEW c \in Callers, AdvanceCheck(c) PROVE PendingInv'
  <2> DEFINE call == [caller[c] EXCEPT !.pc = "checked", !.before = Numbers(caller[c].shard)]
  <2>1. caller[c].pc = "produced" /\ Goto(c, call) /\ UNCHANGED <<tail, shard>>
    BY <1>2 DEF AdvanceCheck
  <2>2. caller[c] \in AdvanceCall /\ Numbers(caller[c].shard) \in SUBSET Nat
    BY <2>1, CallType, NumbersType
  <2>3. call.shard = caller[c].shard /\ call.pc = "checked"
    BY <2>2 DEF AdvanceCall
  <2> HIDE DEF call
  <2> QED  BY <2>1, <2>3, QuietPending
<1>3. ASSUME NEW c \in Callers,
             AdvanceFrozen(c) \/ Crash(c) \/ AdvanceReturn(c) \/ CheckpointWrite(c)
      PROVE PendingInv'
  <2>1. Goto(c, Idle) /\ UNCHANGED <<tail, shard>>
    BY <1>3 DEF AdvanceFrozen, Crash, AdvanceReturn, CheckpointWrite
  <2> QED  BY <2>1, Calls, QuietPending
<1>4. ASSUME NEW c \in Callers, NEW n \in EpochNumbers, NEW S \in SUBSET Shards,
             EstablishEpoch(c, n, S)
      PROVE  PendingInv'
  <2>1. \A sh \in Shards : shard'[sh].current_sequence = shard[sh].current_sequence
    BY <1>4, EpochRows
  <2>2. UNCHANGED <<tail, caller>>
    BY <1>4 DEF EstablishEpoch
  <2> QED  BY <2>1, <2>2 DEF PendingInv, Unfinished
<1>5. ASSUME NEW c \in Callers, NEW sh \in Shards, CheckpointRead(c, sh) PROVE PendingInv'
  <2> DEFINE call == [pc |-> "checkpoint", shard |-> sh, sequence |-> shard[sh].current_sequence]
  <2>1. Goto(c, call) /\ UNCHANGED <<tail, shard>>
    BY <1>5 DEF CheckpointRead
  <2>2. call.pc = "checkpoint"
    OBVIOUS
  <2> HIDE DEF call
  <2> QED  BY <2>1, <2>2, QuietPending
<1>6. ASSUME NEW c \in Callers, NEW sh \in Shards, RecoverRead(c, sh) PROVE PendingInv'
  <2> DEFINE call == [pc |-> "recover", shard |-> sh, event |-> tail[sh]]
  <2>1. Goto(c, call) /\ UNCHANGED <<tail, shard>> /\ c \in Recoverers
    BY <1>6 DEF RecoverRead
  <2>2. call.pc = "recover" /\ call.event = tail[sh] /\ call.shard = sh /\ tail[sh] <= tail[sh]
    BY DEF TypeOK
  <2> HIDE DEF call
  <2> QED  BY <2>1, <2>2, QuietPending
<1> QED
  BY <1>1, <1>2, <1>3, <1>4, <1>5, <1>6, ProducePending, CommitPending, RecoverPending
  DEF Next

\* Sequence and advances to come stay within the events and the slack.
LEMMA PendingInvariant == Spec => []PendingInv
  BY TypeCorrect, InitPending, NextPending, PTL DEF Spec

\* The sequence does not drift from the events, whatever crashes and recoveries
\* race the advances of other callers: with one caller, or without recovery, it
\* is never ahead of them.
THEOREM SequenceBounded == Spec => []SequenceWithinEvents
<1>1. TypeOK /\ PendingInv => SequenceWithinEvents
  <2> SUFFICES ASSUME TypeOK, PendingInv, NEW sh \in Shards
               PROVE  shard[sh].current_sequence <= tail[sh] + Slack
    BY DEF SequenceWithinEvents
  <2>1. shard[sh].current_sequence + Cardinality(Unfinished(sh)) <= tail[sh] + Slack
    BY DEF PendingInv
  <2>2. shard[sh].current_sequence \in Nat /\ tail[sh] \in Nat
    BY DEF TypeOK
  <2>3. Cardinality(Unfinished(sh)) \in Nat /\ Slack \in Int
    <3>1. IsFiniteSet(Callers) /\ Unfinished(sh) \in SUBSET Callers /\ Cardinality(Callers) \in Nat
      BY ShardAssumption, FS_CardinalityType DEF Unfinished
    <3> QED  BY <3>1, FS_Subset, FS_CardinalityType DEF Slack
  <2> QED  BY <2>1, <2>2, <2>3
<1> QED
  BY <1>1, TypeCorrect, PendingInvariant, PTL
=============================================================================
