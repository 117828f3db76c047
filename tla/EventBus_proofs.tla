--------------------------- MODULE EventBus_proofs ---------------------------
(***************************************************************************)
(* Theorems about EventBus, for any number of storages, partitions,        *)
(* tenants, consumers and workers.                                         *)
(***************************************************************************)
EXTENDS EventBus, FiniteSetTheorems, SequenceTheorems, TLAPS

-----------------------------------------------------------------------------
(* Type correctness *)

LEMMA InitType == Init => TypeOK
<1> SUFFICES ASSUME Init PROVE TypeOK
  OBVIOUS
<1>1. EventsTypeOK
  BY FS_EmptySet DEF Init, EventsTypeOK
<1>2. PartitionsTypeOK
  BY DEF Init, PartitionsTypeOK, NoPartition
<1>3. AppendingTypeOK
  BY DEF Init, AppendingTypeOK, IdleAppend
<1>4. worker \in [Workers -> ConsumeCall]
  BY DEF Init, ConsumeCall, IdleWorker
<1> QED
  BY <1>1, <1>2, <1>3, <1>4 DEF Init, TypeOK

LEMMA AppendCommitType ==
  ASSUME TypeOK, NEW s \in Storages, AppendCommit(s)
  PROVE  TypeOK'
<1> DEFINE a == appending[s]
           row == NewRow(a)
<1>1. /\ a.partition_key \in Partitions
      /\ a.author_tenant_id \in Tenants
      /\ a.payload \in Payloads
      /\ a.current_offset \in Nat
  BY DEF TypeOK, AppendingTypeOK, AppendCommit
<1>2. Cardinality(events) \in Nat
  BY FS_CardinalityType DEF TypeOK, EventsTypeOK
<1>3. /\ row.global_offset \in Nat \ {0}
      /\ row.partition_key \in Partitions
      /\ row.partition_offset \in Nat \ {0}
      /\ row.author_tenant_id \in Tenants
      /\ row.payload \in Payloads
  BY <1>1, <1>2 DEF NewRow
<1>4. events' = events \cup {row}
  BY DEF AppendCommit
<1>5. EventsTypeOK'
  BY <1>3, <1>4, FS_AddElement DEF TypeOK, EventsTypeOK
<1>6. PartitionsTypeOK'
  BY <1>1, <1>3 DEF TypeOK, PartitionsTypeOK, AppendCommit
<1>7. AppendingTypeOK'
  BY DEF TypeOK, AppendingTypeOK, AppendCommit, IdleAppend
<1> QED
  BY <1>5, <1>6, <1>7 DEF TypeOK, AppendCommit, consumerVars

LEMMA AppendOtherType ==
  ASSUME TypeOK, NEW s \in Storages,
         \/ \E p \in Partitions, t \in Tenants, v \in Payloads : AppendRead(s, p, t, v)
         \/ AppendRollback(s)
         \/ \E n \in EpochNumbers : EstablishEpoch(s, n)
  PROVE  TypeOK'
<1>1. CASE \E p \in Partitions, t \in Tenants, v \in Payloads : AppendRead(s, p, t, v)
  <2>0. PICK p \in Partitions, t \in Tenants, v \in Payloads : AppendRead(s, p, t, v)
    BY <1>1
  <2> DEFINE call == [busy |-> TRUE, partition_key |-> p, author_tenant_id |-> t,
                      payload |-> v, known |-> partitions[p].known,
                      current_offset |-> partitions[p].current_offset,
                      last_event_hash |-> partitions[p].last_event_hash]
  <2>1. /\ DOMAIN appending' = Storages
        /\ \A x \in Storages : appending'[x] = IF x = s THEN call ELSE appending[x]
    BY <2>0 DEF TypeOK, AppendingTypeOK, AppendRead
  <2>2. /\ call.busy = TRUE
        /\ call.partition_key \in Partitions
        /\ call.author_tenant_id \in Tenants
        /\ call.payload \in Payloads
        /\ call.known \in BOOLEAN
        /\ call.current_offset \in Nat
    BY DEF TypeOK, PartitionsTypeOK
  <2>3. AppendingTypeOK'
    <3> HIDE DEF call
    <3> QED  BY <2>1, <2>2 DEF TypeOK, AppendingTypeOK
  <2>4. UNCHANGED <<events, partitions, epochs, consumerVars>>
    BY <2>0 DEF AppendRead
  <2> QED
    BY <2>3, <2>4 DEF TypeOK, EventsTypeOK, PartitionsTypeOK, consumerVars
<1>2. CASE AppendRollback(s)
  <2>1. AppendingTypeOK'
    BY <1>2 DEF TypeOK, AppendingTypeOK, AppendRollback, IdleAppend
  <2> QED
    BY <1>2, <2>1 DEF TypeOK, EventsTypeOK, PartitionsTypeOK, AppendRollback, consumerVars
<1>3. CASE \E n \in EpochNumbers : EstablishEpoch(s, n)
  BY <1>3 DEF TypeOK, EventsTypeOK, PartitionsTypeOK, AppendingTypeOK, EstablishEpoch, consumerVars
<1> QED
  BY <1>1, <1>2, <1>3

LEMMA BatchType ==
  ASSUME TypeOK, NEW c, NEW p, NEW start
  PROVE  /\ ReadPartition(c, p, start) \subseteq Selected(c, p, start)
         /\ Selected(c, p, start) \subseteq Nat \ {0}
  BY DEF TypeOK, EventsTypeOK, ReadPartition, Selected, Rows

\* What the worker's record holds in each phase of consume.
LEMMA WorkerType ==
  ASSUME TypeOK, NEW w \in Workers
  PROVE  /\ ConsumerOf[w] \in Consumers
         /\ worker[w].pc \in {"idle", "read", "handle"}
         /\ worker[w].pc = "read" =>
               worker[w].partition_key \in Partitions /\ worker[w].start_offset \in Nat \ {0}
         /\ worker[w].pc = "handle" =>
               /\ worker[w].partition_key \in Partitions
               /\ worker[w].todo \subseteq Nat \ {0}
               /\ worker[w].last \in Nat \ {0}
<1>1. worker[w] \in ConsumeCall
  BY DEF TypeOK
<1> QED
  BY <1>1, ConsumerAssumption DEF ConsumeCall

\* A step of one worker keeps the types when what it writes has them.
LEMMA WorkerStepType ==
  ASSUME TypeOK, NEW w \in Workers, NEW call \in ConsumeCall,
         worker' = [worker EXCEPT ![w] = call],
         UNCHANGED busVars,
         checkpoints' \in [Consumers -> [Partitions -> Nat]],
         handled' \in [Consumers -> [Partitions -> SUBSET Nat]]
  PROVE  TypeOK'
<1>1. worker' \in [Workers -> ConsumeCall]
  BY DEF TypeOK
<1> QED
  BY <1>1 DEF TypeOK, EventsTypeOK, PartitionsTypeOK, AppendingTypeOK, busVars

LEMMA ConsumerType ==
  ASSUME TypeOK, NEW w \in Workers,
         \/ \E p \in Partitions : ConsumeReadCheckpoint(w, p)
         \/ ConsumeReadBatch(w)
         \/ ConsumeNothing(w)
         \/ ConsumeHandle(w)
         \/ ConsumeCheckpoint(w)
         \/ ConsumeAbort(w)
  PROVE  TypeOK'
<1> DEFINE c == ConsumerOf[w]
           p == worker[w].partition_key
<1>0. c \in Consumers
  BY WorkerType
<1>1. CASE \E q \in Partitions : ConsumeReadCheckpoint(w, q)
  <2> PICK q \in Partitions : ConsumeReadCheckpoint(w, q)
    BY <1>1
  <2> DEFINE call == [pc |-> "read", partition_key |-> q,
                      start_offset |-> checkpoints[c][q] + 1]
  <2>1. call \in ConsumeCall
    BY <1>0 DEF TypeOK, ConsumeCall
  <2> QED
    BY <2>1, WorkerStepType DEF ConsumeReadCheckpoint, TypeOK
<1>2. CASE ConsumeReadBatch(w)
  <2>1. BatchOf(w) \subseteq Nat \ {0}
    BY BatchType DEF BatchOf
  <2>2. PICK last \in BatchOf(w) :
           worker' = [worker EXCEPT ![w] =
              [pc |-> "handle", partition_key |-> p, todo |-> BatchOf(w), last |-> last]]
    BY <1>2 DEF ConsumeReadBatch
  <2> DEFINE call == [pc |-> "handle", partition_key |-> p, todo |-> BatchOf(w), last |-> last]
  <2>3. call \in ConsumeCall
    BY <1>2, <2>1, WorkerType DEF ConsumeReadBatch, ConsumeCall
  <2> QED
    BY <1>2, <2>2, <2>3, WorkerStepType DEF ConsumeReadBatch, TypeOK
<1>3. CASE ConsumeNothing(w) \/ ConsumeAbort(w)
  <2>1. IdleWorker \in ConsumeCall
    BY DEF IdleWorker, ConsumeCall
  <2> QED
    BY <1>3, <2>1, WorkerStepType DEF ConsumeNothing, ConsumeAbort, TypeOK
<1>4. CASE ConsumeHandle(w)
  <2>1. PICK o \in worker[w].todo :
           /\ worker' = [worker EXCEPT ![w] =
                 [pc |-> "handle", partition_key |-> p,
                  todo |-> worker[w].todo \ {o}, last |-> worker[w].last]]
           /\ handled' = [handled EXCEPT ![c][p] = @ \cup {o}]
    BY <1>4 DEF ConsumeHandle
  <2> DEFINE call == [pc |-> "handle", partition_key |-> p,
                      todo |-> worker[w].todo \ {o}, last |-> worker[w].last]
  <2>2. /\ p \in Partitions
        /\ o \in Nat
        /\ call \in ConsumeCall
    BY <1>4, WorkerType DEF ConsumeHandle, ConsumeCall
  <2>3. handled' \in [Consumers -> [Partitions -> SUBSET Nat]]
    BY <1>0, <2>1, <2>2 DEF TypeOK
  <2> QED
    BY <1>4, <2>1, <2>2, <2>3, WorkerStepType DEF ConsumeHandle, TypeOK
<1>5. CASE ConsumeCheckpoint(w)
  <2>1. IdleWorker \in ConsumeCall
    BY DEF IdleWorker, ConsumeCall
  <2>2. checkpoints' \in [Consumers -> [Partitions -> Nat]]
    BY <1>0, <1>5, WorkerType DEF ConsumeCheckpoint, TypeOK
  <2> QED
    BY <1>5, <2>1, <2>2, WorkerStepType DEF ConsumeCheckpoint, TypeOK
<1> QED
  BY <1>1, <1>2, <1>3, <1>4, <1>5

LEMMA NextType == TypeOK /\ [Next]_vars => TypeOK'
<1>1. ASSUME TypeOK, UNCHANGED vars PROVE TypeOK'
  BY <1>1 DEF TypeOK, EventsTypeOK, PartitionsTypeOK, AppendingTypeOK, vars
<1> QED
  BY <1>1, AppendCommitType, AppendOtherType, ConsumerType
  DEF Next, StorageNext, ConsumerNext

\* Every reachable state is well typed.
THEOREM TypeCorrect == Spec => []TypeOK
  BY InitType, NextType, PTL DEF Spec

-----------------------------------------------------------------------------
(* The event chains *)

\* An append that passes the constraints read the current head: that is what
\* UNIQUE(partition_key, partition_offset) buys.  p and row are its partition
\* and the row it inserts.
LEMMA CommitAtHead ==
  ASSUME TypeOK, StorageInv, NEW s \in Storages, AppendCommit(s)
  PROVE  \E p, row :
             /\ p \in Partitions
             /\ p = appending[s].partition_key
             /\ row.author_tenant_id = appending[s].author_tenant_id
             /\ row.payload = appending[s].payload
             /\ row.partition_key = p
             /\ row.partition_offset = partitions[p].current_offset + 1
             /\ row.previous_event_hash = partitions[p].last_event_hash
             /\ row.event_hash = ComputeHash(p, row.partition_offset,
                   row.author_tenant_id, row.payload, row.previous_event_hash)
             /\ row.global_offset = Cardinality(events) + 1
             /\ row \notin events
             /\ events' = events \cup {row}
             /\ partitions' = [partitions EXCEPT ![p] =
                   [known |-> TRUE, current_offset |-> row.partition_offset,
                    last_event_hash |-> row.event_hash]]
<1>1. /\ appending[s].busy
      /\ appending[s].partition_key \in Partitions
      /\ appending[s].current_offset \in Nat
  BY DEF TypeOK, AppendingTypeOK, AppendCommit
<1>2. PICK p \in Partitions : p = appending[s].partition_key
  BY <1>1
<1>3. PICK row : row = NewRow(appending[s])
  OBVIOUS
<1>4. partitions[p].current_offset \in Nat
  BY DEF TypeOK, PartitionsTypeOK
<1>5. appending[s].current_offset + 1 \notin Offsets(p)
  BY <1>2 DEF AppendCommit, ConstraintsHold, OffsetFree
<1>6. /\ appending[s].current_offset <= partitions[p].current_offset
      /\ appending[s].current_offset = partitions[p].current_offset
           => appending[s].last_event_hash = partitions[p].last_event_hash
  BY <1>1, <1>2 DEF StorageInv, PendingBehind
<1>7. Offsets(p) = 1..partitions[p].current_offset
  BY DEF StorageInv, HeadMatchesEvents
<1>8. appending[s].current_offset = partitions[p].current_offset
  BY <1>1, <1>4, <1>5, <1>6, <1>7
<1>9. /\ row.author_tenant_id = appending[s].author_tenant_id
      /\ row.payload = appending[s].payload
      /\ row.partition_key = p
      /\ row.partition_offset = appending[s].current_offset + 1
      /\ row.previous_event_hash = appending[s].last_event_hash
      /\ row.event_hash = ComputeHash(p, row.partition_offset,
                   row.author_tenant_id, row.payload, row.previous_event_hash)
      /\ row.global_offset = Cardinality(events) + 1
  BY <1>2, <1>3 DEF NewRow
<1>10. row \notin events
  BY <1>5, <1>9 DEF Offsets, Rows
<1>11. /\ events' = events \cup {row}
       /\ partitions' = [partitions EXCEPT ![p] =
                   [known |-> TRUE, current_offset |-> row.partition_offset,
                    last_event_hash |-> row.event_hash]]
  BY <1>2, <1>3 DEF AppendCommit
<1> QED
  BY <1>2, <1>6, <1>8, <1>9, <1>10, <1>11

LEMMA CommitKeepsStorageInv ==
  ASSUME TypeOK, StorageInv, NEW s \in Storages, AppendCommit(s)
  PROVE  StorageInv'
<1>0. PICK p, row :
             /\ p \in Partitions
             /\ row.partition_key = p
             /\ row.partition_offset = partitions[p].current_offset + 1
             /\ row.previous_event_hash = partitions[p].last_event_hash
             /\ row.event_hash = ComputeHash(p, row.partition_offset,
                   row.author_tenant_id, row.payload, row.previous_event_hash)
             /\ row.global_offset = Cardinality(events) + 1
             /\ row \notin events
             /\ events' = events \cup {row}
             /\ partitions' = [partitions EXCEPT ![p] =
                   [known |-> TRUE, current_offset |-> row.partition_offset,
                    last_event_hash |-> row.event_hash]]
  BY CommitAtHead
<1>p. p \in Partitions
  BY <1>0
<1> USE <1>p
<1>n. PICK n : n = partitions[p].current_offset
  OBVIOUS
<1>1. /\ row.partition_offset = n + 1
      /\ Rows(p)' = Rows(p) \cup {row}
      /\ \A q \in Partitions : q # p => Rows(q)' = Rows(q)
  BY <1>0, <1>n DEF Rows
<1>2. n \in Nat
  BY <1>n DEF TypeOK, PartitionsTypeOK
<1>3. /\ partitions'[p].current_offset = n + 1
      /\ partitions'[p].last_event_hash = row.event_hash
      /\ \A q \in Partitions : q # p => partitions'[q] = partitions[q]
  BY <1>0, <1>1 DEF TypeOK, PartitionsTypeOK
<1>4. /\ events' = events \cup {row}
      /\ Cardinality(events) \in Nat
      /\ Cardinality(events') = Cardinality(events) + 1
  BY <1>0, FS_AddElement, FS_CardinalityType DEF TypeOK, EventsTypeOK
<1>5. \A r \in Rows(p) : r \in events /\ r.partition_offset \in 1..n
  BY <1>n DEF StorageInv, HeadMatchesEvents, Offsets, Rows
<1>6. HeadMatchesEvents'
  <2> SUFFICES ASSUME NEW q \in Partitions
               PROVE  /\ Offsets(q)' = 1..partitions'[q].current_offset
                      /\ \A x, y \in Rows(q)' : x.partition_offset = y.partition_offset => x = y
                      /\ \A x \in Rows(q)' :
                            x.partition_offset = partitions'[q].current_offset
                              => x.event_hash = partitions'[q].last_event_hash
    BY DEF HeadMatchesEvents
  <2>1. CASE q # p
    BY <1>0, <1>n, <1>1, <1>3, <2>1 DEF StorageInv, HeadMatchesEvents, Offsets
  <2>2. CASE q = p
    <3>1. Offsets(p)' = Offsets(p) \cup {n + 1}
      BY <1>0, <1>n, <1>1 DEF Offsets
    <3>2. Offsets(p)' = 1..(n + 1)
      BY <1>0, <1>n, <1>1, <1>2, <3>1 DEF StorageInv, HeadMatchesEvents
    <3>3. \A x, y \in Rows(p)' : x.partition_offset = y.partition_offset => x = y
      BY <1>0, <1>n, <1>1, <1>2, <1>5 DEF StorageInv, HeadMatchesEvents
    <3>4. \A x \in Rows(p)' : x.partition_offset = n + 1 => x.event_hash = row.event_hash
      BY <1>0, <1>n, <1>1, <1>2, <1>5
    <3> QED
      BY <1>3, <2>2, <3>2, <3>3, <3>4
  <2> QED
    BY <2>1, <2>2
<1>7. RowsLinked'
  <2> SUFFICES ASSUME NEW q \in Partitions, NEW r \in Rows(q)'
               PROVE  /\ r.event_hash = ComputeHash(r.partition_key, r.partition_offset,
                              r.author_tenant_id, r.payload, r.previous_event_hash)
                      /\ r.partition_offset = 1 => r.previous_event_hash = GenesisHash
                      /\ \A x \in Rows(q)' :
                            x.partition_offset + 1 = r.partition_offset
                              => r.previous_event_hash = x.event_hash
    BY DEF RowsLinked
  <2>1. CASE q # p
    BY <1>0, <1>n, <1>1, <2>1 DEF StorageInv, RowsLinked
  <2>2. CASE q = p /\ r # row
    BY <1>0, <1>n, <1>1, <1>2, <1>5, <2>2 DEF StorageInv, RowsLinked
  <2>3. CASE q = p /\ r = row
    <3>1. n = 0 => partitions[p].last_event_hash = GenesisHash
      BY <1>0, <1>n, <1>1 DEF StorageInv, EmptyHeads
    <3>2. \A x \in Rows(p) : x.partition_offset = n
                => x.event_hash = partitions[p].last_event_hash
      BY <1>0, <1>n, <1>1 DEF StorageInv, HeadMatchesEvents
    <3> QED
      BY <1>0, <1>n, <1>1, <1>2, <1>5, <2>3, <3>1, <3>2
  <2> QED
    BY <2>1, <2>2, <2>3
<1>8. EmptyHeads'
  BY <1>2, <1>3 DEF StorageInv, EmptyHeads
<1>9. PendingBehind'
  <2> SUFFICES ASSUME NEW x \in Storages, appending'[x].busy
               PROVE  LET head == partitions'[appending'[x].partition_key]
                      IN  /\ appending'[x].current_offset <= head.current_offset
                          /\ appending'[x].current_offset = head.current_offset
                               => appending'[x].last_event_hash = head.last_event_hash
    BY DEF PendingBehind
  <2>1. x # s /\ appending'[x] = appending[x]
    BY DEF AppendCommit, TypeOK, AppendingTypeOK, IdleAppend
  <2>2. /\ appending[x].partition_key \in Partitions
        /\ appending[x].current_offset \in Nat
    BY <2>1 DEF TypeOK, AppendingTypeOK
  <2>3. LET head == partitions[appending[x].partition_key]
        IN  /\ appending[x].current_offset <= head.current_offset
            /\ appending[x].current_offset = head.current_offset
                 => appending[x].last_event_hash = head.last_event_hash
    BY <2>1 DEF StorageInv, PendingBehind
  <2>4. CASE appending[x].partition_key = p
    BY <1>n, <1>2, <1>3, <2>1, <2>2, <2>3, <2>4
  <2>5. CASE appending[x].partition_key # p
    BY <1>3, <2>1, <2>2, <2>3, <2>5
  <2> QED
    BY <2>4, <2>5
<1>10. GlobalBound'
  BY <1>0, <1>n, <1>1, <1>4 DEF StorageInv, GlobalBound, TypeOK, EventsTypeOK
<1>11. GlobalOrderAgrees'
  <2> SUFFICES ASSUME NEW q \in Partitions, NEW x \in Rows(q)', NEW y \in Rows(q)'
               PROVE  x.partition_offset < y.partition_offset
                        <=> x.global_offset < y.global_offset
    BY DEF GlobalOrderAgrees
  <2>1. CASE q # p
    BY <1>0, <1>n, <1>1, <2>1 DEF StorageInv, GlobalOrderAgrees
  <2>2. CASE q = p
    <3>1. \A z \in Rows(p) : z.global_offset \in Nat /\ z.global_offset <= Cardinality(events)
      BY <1>5 DEF StorageInv, GlobalBound, TypeOK, EventsTypeOK
    <3>2. CASE x = row \/ y = row
      BY <1>0, <1>n, <1>1, <1>2, <1>4, <1>5, <2>2, <3>1, <3>2
    <3>3. CASE x # row /\ y # row
      BY <1>0, <1>n, <1>1, <2>2, <3>3 DEF StorageInv, GlobalOrderAgrees
    <3> QED
      BY <3>2, <3>3
  <2> QED
    BY <2>1, <2>2
<1> QED
  BY <1>6, <1>7, <1>8, <1>9, <1>10, <1>11 DEF StorageInv

LEMMA InitStorageInv == Init => StorageInv
  BY FS_EmptySet
  DEF Init, StorageInv, HeadMatchesEvents, RowsLinked, EmptyHeads, PendingBehind,
      GlobalBound, GlobalOrderAgrees, Rows, Offsets, NoPartition, IdleAppend

\* Steps that leave both tables alone; appending changes in one storage at most.
LEMMA OtherKeepsStorageInv ==
  ASSUME TypeOK, StorageInv, UNCHANGED <<events, partitions>>, PendingBehind'
  PROVE  StorageInv'
  BY DEF StorageInv, HeadMatchesEvents, RowsLinked, EmptyHeads, GlobalBound,
         GlobalOrderAgrees, Rows, Offsets

LEMMA NextStorageInv == TypeOK /\ StorageInv /\ [Next]_vars => StorageInv'
<1> SUFFICES ASSUME TypeOK, StorageInv, [Next]_vars PROVE StorageInv'
  OBVIOUS
<1>1. ASSUME NEW s \in Storages, NEW p \in Partitions, NEW t \in Tenants,
             NEW v \in Payloads, AppendRead(s, p, t, v)
      PROVE  StorageInv'
  <2>1. UNCHANGED <<events, partitions>>
    BY <1>1 DEF AppendRead
  <2>2. PendingBehind'
    <3> SUFFICES ASSUME NEW x \in Storages, appending'[x].busy
                 PROVE  LET head == partitions[appending'[x].partition_key]
                        IN  /\ appending'[x].current_offset <= head.current_offset
                            /\ appending'[x].current_offset = head.current_offset
                                 => appending'[x].last_event_hash = head.last_event_hash
      BY <2>1 DEF PendingBehind
    <3>1. CASE x = s
      <4>1. /\ appending'[x].partition_key = p
            /\ appending'[x].current_offset = partitions[p].current_offset
            /\ appending'[x].last_event_hash = partitions[p].last_event_hash
        BY <1>1, <3>1 DEF AppendRead, TypeOK, AppendingTypeOK
      <4> QED
        BY <4>1 DEF TypeOK, PartitionsTypeOK
    <3>2. CASE x # s
      BY <1>1, <3>2 DEF AppendRead, TypeOK, AppendingTypeOK, StorageInv, PendingBehind
    <3> QED
      BY <3>1, <3>2
  <2> QED
    BY <2>1, <2>2, OtherKeepsStorageInv
<1>2. ASSUME NEW s \in Storages, AppendRollback(s)
      PROVE  StorageInv'
  <2>1. PendingBehind'
    BY <1>2 DEF AppendRollback, IdleAppend, TypeOK, AppendingTypeOK, StorageInv, PendingBehind
  <2> QED
    BY <1>2, <2>1, OtherKeepsStorageInv DEF AppendRollback
<1>3. ASSUME UNCHANGED <<events, partitions, appending>>
      PROVE  StorageInv'
  BY <1>3, OtherKeepsStorageInv DEF StorageInv, PendingBehind
<1>4. ASSUME NEW s \in Storages, NEW m \in EpochNumbers, EstablishEpoch(s, m)
      PROVE  StorageInv'
  BY <1>3, <1>4 DEF EstablishEpoch
<1>5. ASSUME ConsumerNext
      PROVE  StorageInv'
  BY <1>3, <1>5 DEF ConsumerNext, ConsumeReadCheckpoint, ConsumeReadBatch, ConsumeNothing,
                    ConsumeHandle, ConsumeCheckpoint, ConsumeAbort, busVars
<1>6. ASSUME UNCHANGED vars
      PROVE  StorageInv'
  BY <1>3, <1>6 DEF vars
<1> QED
  BY <1>1, <1>2, <1>4, <1>5, <1>6, CommitKeepsStorageInv DEF Next, StorageNext

\* The tables agree with each other and with the appends in progress.
THEOREM StorageInvariant == Spec => []StorageInv
<1>1. Init => TypeOK /\ StorageInv
  BY InitType, InitStorageInv
<1>2. TypeOK /\ StorageInv /\ [Next]_vars => (TypeOK /\ StorageInv)'
  BY NextType, NextStorageInv
<1> QED
  BY <1>1, <1>2, PTL DEF Spec

\* Links by offset are the links verify_partition_chain checks, because the
\* offsets have no gap.
LEMMA ChainFromLinks == TypeOK /\ StorageInv => ChainIntact
<1> SUFFICES ASSUME TypeOK, StorageInv, NEW p \in Partitions, NEW r \in Rows(p)
             PROVE  /\ LinkMatches(p, r)
                    /\ r.partition_offset = 1 => r.previous_event_hash = GenesisHash
                    /\ HashRecomputes(r) <=> Reloaded[r.payload] = r.payload
  BY DEF ChainIntact
<1>1. ASSUME NEW q \in Rows(p), Precedes(q, r),
             \A x \in Rows(p) : ~(Precedes(q, x) /\ Precedes(x, r))
      PROVE  r.previous_event_hash = q.event_hash
  <2>0. /\ Offsets(p) = 1..partitions[p].current_offset
        /\ partitions[p].current_offset \in Nat
        /\ q.partition_offset = r.partition_offset => q = r
    BY DEF StorageInv, HeadMatchesEvents, TypeOK, PartitionsTypeOK
  <2>1. /\ q.partition_offset \in 1..partitions[p].current_offset
        /\ r.partition_offset \in 1..partitions[p].current_offset
    BY <2>0 DEF Offsets
  <2>2. r.global_offset \in Nat
    BY DEF TypeOK, EventsTypeOK, Rows
  <2>3. q.partition_offset < r.partition_offset
    BY <1>1, <2>0, <2>1, <2>2 DEF Precedes
  <2>4. q.partition_offset + 1 \in Offsets(p)
    BY <2>0, <2>1, <2>3
  <2>5. PICK x \in Rows(p) : x.partition_offset = q.partition_offset + 1
    BY <2>4 DEF Offsets
  <2>6. Precedes(q, x)
    BY <2>1, <2>5 DEF Precedes
  <2>7. q.partition_offset + 1 = r.partition_offset
    BY <1>1, <2>1, <2>3, <2>5, <2>6 DEF Precedes
  <2> QED
    BY <2>7 DEF StorageInv, RowsLinked
<1>2. r.event_hash = ComputeHash(r.partition_key, r.partition_offset,
                         r.author_tenant_id, r.payload, r.previous_event_hash)
  BY DEF StorageInv, RowsLinked
<1>3. \A a, b, c, d, v, w :
          ComputeHash(a, b, c, v, d) = ComputeHash(a, b, c, w, d) <=> v = w
  BY DEF ComputeHash
<1>4. HashRecomputes(r) <=> Reloaded[r.payload] = r.payload
  <2>1. HashRecomputes(r) <=>
          ComputeHash(r.partition_key, r.partition_offset, r.author_tenant_id,
                      Reloaded[r.payload], r.previous_event_hash)
            = ComputeHash(r.partition_key, r.partition_offset, r.author_tenant_id,
                          r.payload, r.previous_event_hash)
    BY <1>2 DEF HashRecomputes
  <2> QED
    BY <1>3, <2>1
<1> QED
  BY <1>1, <1>4 DEF StorageInv, RowsLinked, LinkMatches

\* In every reachable state verify_partition_chain finds every link intact and
\* reports only payloads that JSON does not reproduce, however many storages
\* append to the database at once.
THEOREM ChainCorrect == Spec => []ChainIntact
  BY TypeCorrect, StorageInvariant, ChainFromLinks, PTL

\* The partition heads always agree with the events.
THEOREM HeadsCorrect == Spec => []HeadMatchesEvents
<1>1. StorageInv => HeadMatchesEvents
  BY DEF StorageInv
<1> QED
  BY <1>1, StorageInvariant, PTL

\* Global and partition order always agree.
THEOREM GlobalOrderCorrect == Spec => []GlobalOrderAgrees
<1>1. StorageInv => GlobalOrderAgrees
  BY DEF StorageInv
<1> QED
  BY <1>1, StorageInvariant, PTL

\* Whatever the names of tenants and partitions, an append is refused only if
\* another storage has committed to the partition since it read the head, or if
\* its id is that of an event of another partition whose names join to the same
\* words.
THEOREM RefusalsCorrect == Spec => []OnlyStaleAppendsRefused
<1>1. TypeOK /\ StorageInv => OnlyStaleAppendsRefused
  <2> SUFFICES ASSUME TypeOK, StorageInv,
                      NEW s \in Storages, appending[s].busy, HeadUnchanged(appending[s])
               PROVE  ConstraintsHold(appending[s]) <=> ~IdTaken(appending[s])
    BY DEF OnlyStaleAppendsRefused
  <2>1. PICK p \in Partitions, n \in Nat :
           /\ p = appending[s].partition_key
           /\ n = appending[s].current_offset
           /\ n = partitions[p].current_offset
    BY DEF TypeOK, AppendingTypeOK, HeadUnchanged
  <2>2. n + 1 \notin Offsets(p)
    BY <2>1 DEF StorageInv, HeadMatchesEvents
  <2>3. PartitionKeyFree(appending[s]) /\ OffsetFree(appending[s])
    BY <2>1, <2>2 DEF PartitionKeyFree, OffsetFree, HeadUnchanged, TypeOK, PartitionsTypeOK
  <2>4. \A r \in events : r.partition_offset = n + 1 => r.partition_key # p
    BY <2>2 DEF Offsets, Rows
  <2>5. \A a, b, c, d : <<a, b>> = <<c, d>> <=> a = c /\ b = d
    OBVIOUS
  <2>6. \A r \in events :
          EventId(r.author_tenant_id, r.partition_key, r.partition_offset)
            = EventId(appending[s].author_tenant_id, p, n + 1)
          <=> /\ r.author_tenant_id \o r.partition_key = appending[s].author_tenant_id \o p
              /\ r.partition_offset = n + 1
    BY <2>5, Zenon DEF EventId
  <2>7. EventIdFree(appending[s]) <=> ~IdTaken(appending[s])
    BY <2>1, <2>4, <2>6, Zenon DEF EventIdFree, IdTaken
  <2> QED
    BY <2>3, <2>7 DEF ConstraintsHold
<1> QED
  BY <1>1, TypeCorrect, StorageInvariant, PTL

-----------------------------------------------------------------------------
(* Consumers *)

\* A batch is closed downwards in what the consumer may still read.
LEMMA SelectedType ==
  ASSUME TypeOK, StorageInv, NEW c, NEW p \in Partitions, NEW start
  PROVE  /\ Selected(c, p, start) \subseteq 1..partitions[p].current_offset
         /\ IsFiniteSet(Selected(c, p, start))
         /\ partitions[p].current_offset \in Nat
<1>1. Selected(c, p, start) \subseteq Offsets(p)
  BY DEF Selected, Offsets
<1>2. /\ Offsets(p) = 1..partitions[p].current_offset
      /\ partitions[p].current_offset \in Nat
  BY DEF StorageInv, HeadMatchesEvents, TypeOK, PartitionsTypeOK
<1>3. IsFiniteSet(1..partitions[p].current_offset)
  BY <1>2, FS_Interval
<1> QED
  BY <1>1, <1>2, <1>3, FS_Subset

LEMMA BatchIsPrefix ==
  ASSUME TypeOK, StorageInv, NEW c, NEW p \in Partitions, NEW start,
         NEW o \in ReadPartition(c, p, start),
         NEW x \in Selected(c, p, start), x < o
  PROVE  x \in ReadPartition(c, p, start)
<1> DEFINE all == Selected(c, p, start)
<1>1. IsFiniteSet(all) /\ all \subseteq Nat
  BY SelectedType
<1>2. o \in all /\ Cardinality({z \in all : z < o}) < BatchSize
  BY DEF ReadPartition
<1> HIDE DEF all
<1>3. PICK lower, upper : lower = {z \in all : z < x} /\ upper = {z \in all : z < o}
  OBVIOUS
<1>4. lower \subseteq upper /\ upper \subseteq all
  BY <1>1, <1>2, <1>3 DEF all
<1>5. IsFiniteSet(upper) /\ Cardinality(upper) \in Nat
  BY <1>1, <1>4, FS_Subset, FS_CardinalityType
<1>6. IsFiniteSet(lower) /\ Cardinality(lower) <= Cardinality(upper)
  BY <1>4, <1>5, FS_Subset
<1>7. Cardinality(lower) \in Nat
  BY <1>6, FS_CardinalityType
<1>8. Cardinality(lower) < BatchSize
  BY <1>2, <1>3, <1>5, <1>6, <1>7, BoundAssumption
<1> QED
  BY <1>3, <1>8 DEF ReadPartition, all

\* Reading from a later offset selects a part of what is selected from 1.
LEMMA SelectedFrom ==
  ASSUME TypeOK, NEW c, NEW p, NEW start \in Nat \ {0}, NEW o
  PROVE  o \in Selected(c, p, start) <=> o \in Selected(c, p, 1) /\ o >= start
  BY DEF Selected, Rows, TypeOK, EventsTypeOK

LEMMA InitConsumerInv == Init => ConsumerInv
<1> SUFFICES ASSUME Init PROVE ConsumerInv
  OBVIOUS
<1>1. \A c \in Consumers, p \in Partitions :
          /\ checkpoints[c][p] = 0
          /\ handled[c][p] = {}
          /\ partitions[p].current_offset = 0
  BY DEF Init, NoPartition
<1>2. \A c \in Consumers, p \in Partitions : Selected(c, p, 1) = {}
  BY DEF Init, Selected, Rows
<1>3. \A w \in Workers : worker[w].pc = "idle"
  BY DEF Init, IdleWorker
<1> QED
  BY <1>1, <1>2, <1>3
  DEF ConsumerInv, ConsumersBehind, WorkersCover, NothingSkipped, DeliveredInOrder

\* A commit adds one offset beyond everything the consumers have done.
LEMMA CommitKeepsConsumerInv ==
  ASSUME TypeOK, StorageInv, ConsumerInv, NEW s \in Storages, AppendCommit(s)
  PROVE  ConsumerInv'
<1>1. PICK p, row :
          /\ p \in Partitions
          /\ row.partition_key = p
          /\ row.partition_offset = partitions[p].current_offset + 1
          /\ events' = events \cup {row}
          /\ partitions' = [partitions EXCEPT ![p] =
                [known |-> TRUE, current_offset |-> row.partition_offset,
                 last_event_hash |-> row.event_hash]]
  BY CommitAtHead
<1>p. p \in Partitions
  BY <1>1
<1> USE <1>p
<1>2. UNCHANGED <<checkpoints, worker, handled>>
  BY DEF AppendCommit, consumerVars
<1>3. \A q \in Partitions :
          /\ partitions[q].current_offset \in Nat
          /\ partitions'[q].current_offset \in Nat
          /\ partitions[q].current_offset <= partitions'[q].current_offset
  BY <1>1 DEF TypeOK, PartitionsTypeOK
<1>4. \A c \in Consumers, q \in Partitions : \A o \in Selected(c, q, 1)' :
          o \in Selected(c, q, 1) \/ o = partitions[q].current_offset + 1
  BY <1>1 DEF Selected, Rows
<1>5. ConsumersBehind'
  BY <1>2, <1>3 DEF ConsumerInv, ConsumersBehind, TypeOK
<1>6. NothingSkipped'
  BY <1>2, <1>3, <1>4 DEF ConsumerInv, ConsumersBehind, NothingSkipped, TypeOK
<1>7. DeliveredInOrder'
  <2> SUFFICES ASSUME NEW c \in Consumers, NEW q \in Partitions,
                      NEW o \in handled[c][q], NEW x \in Selected(c, q, 1)', x < o
               PROVE  x \in handled[c][q]
    BY <1>2 DEF DeliveredInOrder
  <2>1. o \in 1..partitions[q].current_offset
    BY DEF ConsumerInv, ConsumersBehind
  <2>2. x \in Selected(c, q, 1)
    BY <1>3, <1>4, <2>1
  <2> QED
    BY <2>2 DEF ConsumerInv, DeliveredInOrder
<1>8. WorkersCover'
  <2> SUFFICES ASSUME NEW w \in Workers, NEW q \in Partitions, NEW c \in Consumers,
                      c = ConsumerOf[w],
                      worker[w].pc # "idle", worker[w].partition_key = q
               PROVE  WorkerCovers(w, c, q)'
    BY <1>2, ConsumerAssumption DEF WorkersCover
  <2>1. WorkerCovers(w, c, q)
    BY DEF ConsumerInv, WorkersCover
  <2>2. CASE worker[w].pc = "read"
    <3>1. worker[w].start_offset \in Nat
      BY <2>2, WorkerType
    <3> QED
      BY <1>2, <1>3, <1>4, <2>1, <2>2, <3>1 DEF WorkerCovers
  <2>3. CASE worker[w].pc = "handle"
    <3>1. worker[w].last \in Nat
      BY <2>3, WorkerType
    <3> QED
      BY <1>2, <1>3, <1>4, <2>1, <2>3, <3>1 DEF WorkerCovers
  <2> QED
    BY <1>2, <2>2, <2>3 DEF WorkerCovers
<1> QED
  BY <1>5, <1>6, <1>7, <1>8 DEF ConsumerInv

\* The other steps of a storage change nothing a consumer can see.
LEMMA StorageKeepsConsumerInv ==
  ASSUME ConsumerInv, UNCHANGED <<events, partitions, consumerVars>>
  PROVE  ConsumerInv'
  BY DEF ConsumerInv, ConsumersBehind, WorkersCover, WorkerCovers, NothingSkipped,
         DeliveredInOrder, Selected, Rows, consumerVars

\* A step of one worker that handles nothing and writes no checkpoint.
LEMMA QuietStepKeepsConsumerInv ==
  ASSUME TypeOK, ConsumerInv, NEW w \in Workers, NEW call,
         worker' = [worker EXCEPT ![w] = call],
         UNCHANGED <<busVars, checkpoints, handled>>,
         \A p \in Partitions :
            worker'[w].pc # "idle" /\ worker'[w].partition_key = p
              => WorkerCovers(w, ConsumerOf[w], p)'
  PROVE  ConsumerInv'
<1>1. UNCHANGED <<events, partitions, checkpoints, handled>>
  BY DEF busVars
<1>2. WorkersCover'
  <2> SUFFICES ASSUME NEW x \in Workers, NEW p \in Partitions,
                      worker'[x].pc # "idle", worker'[x].partition_key = p
               PROVE  WorkerCovers(x, ConsumerOf[x], p)'
    BY DEF WorkersCover
  <2>1. CASE x = w
    BY <2>1
  <2>2. CASE x # w
    <3>1. worker'[x] = worker[x]
      BY <2>2 DEF TypeOK
    <3>2. WorkerCovers(x, ConsumerOf[x], p)
      BY <3>1 DEF ConsumerInv, WorkersCover
    <3> QED
      BY <1>1, <3>1, <3>2 DEF WorkerCovers, Selected, Rows
  <2> QED
    BY <2>1, <2>2
<1> QED
  BY <1>1, <1>2
  DEF ConsumerInv, ConsumersBehind, NothingSkipped, DeliveredInOrder, Selected, Rows

LEMMA ReadCheckpointKeepsConsumerInv ==
  ASSUME TypeOK, StorageInv, ConsumerInv, NEW w \in Workers, NEW p \in Partitions,
         ConsumeReadCheckpoint(w, p)
  PROVE  ConsumerInv'
<1>1. PICK c \in Consumers : c = ConsumerOf[w]
  BY ConsumerAssumption
<1> DEFINE call == [pc |-> "read", partition_key |-> p, start_offset |-> checkpoints[c][p] + 1]
<1>2. /\ worker' = [worker EXCEPT ![w] = call]
      /\ UNCHANGED <<busVars, checkpoints, handled>>
  BY <1>1 DEF ConsumeReadCheckpoint
<1>3. worker'[w] = call
  BY <1>2 DEF TypeOK
<1>4. /\ checkpoints[c][p] \in Nat
      /\ checkpoints[c][p] <= partitions[p].current_offset
      /\ partitions[p].current_offset \in Nat
      /\ \A o \in Selected(c, p, 1) : o <= checkpoints[c][p] => o \in handled[c][p]
      /\ \A o \in Selected(c, p, 1) : o \in Nat
  BY SelectedType
  DEF TypeOK, PartitionsTypeOK, ConsumerInv, ConsumersBehind, NothingSkipped
<1>5. WorkerCovers(w, c, p)'
  <2>1. UNCHANGED <<events, partitions, handled>>
    BY <1>2 DEF busVars
  <2>2. Selected(c, p, 1)' = Selected(c, p, 1)
    BY <2>1 DEF Selected, Rows
  <2> QED
    BY <1>3, <1>4, <2>1, <2>2 DEF WorkerCovers
<1>6. \A q \in Partitions : worker'[w].partition_key = q => q = p
  BY <1>3
<1> QED
  BY <1>1, <1>2, <1>5, <1>6, QuietStepKeepsConsumerInv

LEMMA ReadBatchKeepsConsumerInv ==
  ASSUME TypeOK, StorageInv, ConsumerInv, NEW w \in Workers, ConsumeReadBatch(w)
  PROVE  ConsumerInv'
<1>1. PICK c \in Consumers, p \in Partitions, start \in Nat \ {0} :
          /\ c = ConsumerOf[w]
          /\ p = worker[w].partition_key
          /\ start = worker[w].start_offset
  BY WorkerType DEF ConsumeReadBatch
<1>2. PICK batch : batch = ReadPartition(c, p, start)
  OBVIOUS
<1>3. PICK last \in batch :
          /\ \A o \in batch : o <= last
          /\ worker' = [worker EXCEPT ![w] =
                [pc |-> "handle", partition_key |-> p, todo |-> batch, last |-> last]]
  BY <1>1, <1>2 DEF ConsumeReadBatch, BatchOf
<1>4. UNCHANGED <<busVars, checkpoints, handled>>
  BY DEF ConsumeReadBatch
<1>5. worker'[w] = [pc |-> "handle", partition_key |-> p, todo |-> batch, last |-> last]
  BY <1>3 DEF TypeOK
<1>6. \A o \in Selected(c, p, 1) : o < start => o \in handled[c][p]
  BY <1>1 DEF ConsumerInv, WorkersCover, WorkerCovers, ConsumeReadBatch
<1>7. /\ batch \subseteq Selected(c, p, start)
      /\ Selected(c, p, start) \subseteq 1..partitions[p].current_offset
      /\ partitions[p].current_offset \in Nat
      /\ Selected(c, p, 1) \subseteq Nat
  BY <1>2, SelectedType, BatchType
<1>8. ASSUME NEW o \in Selected(c, p, 1), o <= last
      PROVE  o \in handled[c][p] \cup batch
  <2>1. CASE o < start
    BY <1>6, <2>1
  <2>2. CASE o >= start /\ o # last
    <3>1. o \in Selected(c, p, start) /\ o < last
      BY <1>7, <1>8, <2>2, SelectedFrom
    <3> QED
      BY <1>2, <3>1, BatchIsPrefix
  <2>3. CASE o = last
    BY <2>3
  <2> QED
    BY <1>7, <2>1, <2>2, <2>3
<1>9. WorkerCovers(w, c, p)'
  <2>1. UNCHANGED <<events, partitions, handled>>
    BY <1>4 DEF busVars
  <2>2. Selected(c, p, 1)' = Selected(c, p, 1)
    BY <2>1 DEF Selected, Rows
  <2> QED
    BY <1>3, <1>5, <1>7, <1>8, <2>1, <2>2 DEF WorkerCovers
<1>10. \A q \in Partitions : worker'[w].partition_key = q => q = p
  BY <1>5
<1> QED
  BY <1>1, <1>3, <1>4, <1>9, <1>10, QuietStepKeepsConsumerInv

LEMMA EndKeepsConsumerInv ==
  ASSUME TypeOK, ConsumerInv, NEW w \in Workers, ConsumeNothing(w) \/ ConsumeAbort(w)
  PROVE  ConsumerInv'
<1>1. /\ worker' = [worker EXCEPT ![w] = IdleWorker]
      /\ UNCHANGED <<busVars, checkpoints, handled>>
  BY DEF ConsumeNothing, ConsumeAbort
<1>2. worker'[w].pc = "idle"
  BY <1>1 DEF TypeOK, IdleWorker
<1> QED
  BY <1>1, <1>2, QuietStepKeepsConsumerInv

LEMMA HandleKeepsConsumerInv ==
  ASSUME TypeOK, ConsumerInv, NEW w \in Workers, ConsumeHandle(w)
  PROVE  ConsumerInv'
<1>1. PICK c \in Consumers, p \in Partitions :
          c = ConsumerOf[w] /\ p = worker[w].partition_key
  BY WorkerType DEF ConsumeHandle
<1>2. PICK o \in worker[w].todo :
          /\ \A x \in worker[w].todo : o <= x
          /\ worker' = [worker EXCEPT ![w] =
                [pc |-> "handle", partition_key |-> p,
                 todo |-> worker[w].todo \ {o}, last |-> worker[w].last]]
          /\ handled' = [handled EXCEPT ![c][p] = @ \cup {o}]
  BY <1>1 DEF ConsumeHandle
<1>3. /\ UNCHANGED <<events, partitions, checkpoints>>
      /\ worker[w].pc = "handle"
  BY DEF ConsumeHandle, busVars
<1>4. \A d \in Consumers, q \in Partitions :
          handled'[d][q] = IF d = c /\ q = p THEN handled[c][p] \cup {o} ELSE handled[d][q]
  BY <1>2 DEF TypeOK
<1>5. /\ worker'[w] = [pc |-> "handle", partition_key |-> p,
                       todo |-> worker[w].todo \ {o}, last |-> worker[w].last]
      /\ \A x \in Workers : x # w => worker'[x] = worker[x]
  BY <1>2 DEF TypeOK
<1>6. \A d \in Consumers, q \in Partitions : Selected(d, q, 1)' = Selected(d, q, 1)
  BY <1>3 DEF Selected, Rows
<1>7. WorkerCovers(w, c, p)
  BY <1>1, <1>3 DEF ConsumerInv, WorkersCover
<1>8. /\ o \in Nat \ {0}
      /\ worker[w].todo \subseteq Nat
      /\ worker[w].last \in Nat
      /\ o <= worker[w].last
      /\ worker[w].last <= partitions[p].current_offset
      /\ partitions[p].current_offset \in Nat
  BY <1>2, <1>3, <1>7, WorkerType DEF WorkerCovers, TypeOK, PartitionsTypeOK
<1>9. ConsumersBehind'
  BY <1>3, <1>4, <1>8 DEF ConsumerInv, ConsumersBehind
<1>10. NothingSkipped'
  BY <1>3, <1>4, <1>6 DEF ConsumerInv, NothingSkipped
<1>11. \A x \in Selected(c, p, 1) : x < o => x \in handled[c][p]
  <2> SUFFICES ASSUME NEW x \in Selected(c, p, 1), x < o PROVE x \in handled[c][p]
    OBVIOUS
  <2>1. x \in Nat
    BY BatchType
  <2>2. x \in handled[c][p] \cup worker[w].todo
    BY <1>3, <1>7, <1>8, <2>1 DEF WorkerCovers
  <2> QED
    BY <1>2, <1>8, <2>1, <2>2
<1>12. DeliveredInOrder'
  BY <1>4, <1>6, <1>11 DEF ConsumerInv, DeliveredInOrder
<1>13. WorkersCover'
  <2> SUFFICES ASSUME NEW x \in Workers, NEW q \in Partitions, NEW d \in Consumers,
                      d = ConsumerOf[x],
                      worker'[x].pc # "idle", worker'[x].partition_key = q
               PROVE  WorkerCovers(x, d, q)'
    BY ConsumerAssumption DEF WorkersCover
  <2>1. handled[d][q] \subseteq handled'[d][q]
    BY <1>4
  <2>2. CASE x = w
    BY <1>1, <1>3, <1>4, <1>5, <1>6, <1>7, <2>2 DEF WorkerCovers
  <2>3. CASE x # w
    <3>1. WorkerCovers(x, d, q)
      BY <1>5, <2>3 DEF ConsumerInv, WorkersCover
    <3> QED
      BY <1>3, <1>5, <1>6, <2>1, <2>3, <3>1 DEF WorkerCovers
  <2> QED
    BY <2>2, <2>3
<1> QED
  BY <1>9, <1>10, <1>12, <1>13 DEF ConsumerInv

LEMMA CheckpointKeepsConsumerInv ==
  ASSUME TypeOK, ConsumerInv, NEW w \in Workers, ConsumeCheckpoint(w)
  PROVE  ConsumerInv'
<1>1. PICK c \in Consumers, p \in Partitions :
          c = ConsumerOf[w] /\ p = worker[w].partition_key
  BY WorkerType DEF ConsumeCheckpoint
<1>2. /\ worker' = [worker EXCEPT ![w] = IdleWorker]
      /\ checkpoints' = [checkpoints EXCEPT ![c][p] = worker[w].last]
      /\ UNCHANGED <<events, partitions, handled>>
      /\ worker[w].pc = "handle"
      /\ worker[w].todo = {}
  BY <1>1 DEF ConsumeCheckpoint, busVars
<1>3. WorkerCovers(w, c, p)
  BY <1>1, <1>2 DEF ConsumerInv, WorkersCover
<1>4. /\ worker[w].last <= partitions[p].current_offset
      /\ \A o \in Selected(c, p, 1) : o <= worker[w].last => o \in handled[c][p]
  BY <1>2, <1>3 DEF WorkerCovers
<1>5. \A d \in Consumers, q \in Partitions :
          checkpoints'[d][q] = IF d = c /\ q = p THEN worker[w].last ELSE checkpoints[d][q]
  BY <1>2 DEF TypeOK
<1>6. \A d \in Consumers, q \in Partitions : Selected(d, q, 1)' = Selected(d, q, 1)
  BY <1>2 DEF Selected, Rows
<1>7. ConsumersBehind'
  BY <1>2, <1>4, <1>5 DEF ConsumerInv, ConsumersBehind
<1>8. NothingSkipped'
  BY <1>2, <1>4, <1>5, <1>6 DEF ConsumerInv, NothingSkipped
<1>9. DeliveredInOrder'
  BY <1>2, <1>6 DEF ConsumerInv, DeliveredInOrder
<1>10. WorkersCover'
  <2> SUFFICES ASSUME NEW x \in Workers, NEW q \in Partitions, NEW d \in Consumers,
                      d = ConsumerOf[x],
                      worker'[x].pc # "idle", worker'[x].partition_key = q
               PROVE  WorkerCovers(x, d, q)'
    BY ConsumerAssumption DEF WorkersCover
  <2>1. x # w /\ worker'[x] = worker[x]
    BY <1>2 DEF TypeOK, IdleWorker
  <2>2. WorkerCovers(x, d, q)
    BY <2>1 DEF ConsumerInv, WorkersCover
  <2> QED
    BY <1>2, <1>6, <2>1, <2>2 DEF WorkerCovers
<1> QED
  BY <1>7, <1>8, <1>9, <1>10 DEF ConsumerInv

LEMMA NextConsumerInv ==
  TypeOK /\ StorageInv /\ ConsumerInv /\ [Next]_vars => ConsumerInv'
<1> SUFFICES ASSUME TypeOK, StorageInv, ConsumerInv, [Next]_vars PROVE ConsumerInv'
  OBVIOUS
<1>1. ASSUME NEW s \in Storages,
             \/ \E p \in Partitions, t \in Tenants, v \in Payloads : AppendRead(s, p, t, v)
             \/ AppendRollback(s)
             \/ \E n \in EpochNumbers : EstablishEpoch(s, n)
      PROVE  ConsumerInv'
  BY <1>1, StorageKeepsConsumerInv DEF AppendRead, AppendRollback, EstablishEpoch
<1>2. ASSUME UNCHANGED vars PROVE ConsumerInv'
  BY <1>2, StorageKeepsConsumerInv DEF vars, consumerVars
<1> QED
  BY <1>1, <1>2, CommitKeepsConsumerInv, ReadCheckpointKeepsConsumerInv,
     ReadBatchKeepsConsumerInv, EndKeepsConsumerInv, HandleKeepsConsumerInv,
     CheckpointKeepsConsumerInv
  DEF Next, StorageNext, ConsumerNext

LEMMA ConsumerInvariant == Spec => []ConsumerInv
<1>1. Init => TypeOK /\ StorageInv /\ ConsumerInv
  BY InitType, InitStorageInv, InitConsumerInv
<1>2. TypeOK /\ StorageInv /\ ConsumerInv /\ [Next]_vars
        => (TypeOK /\ StorageInv /\ ConsumerInv)'
  BY NextType, NextStorageInv, NextConsumerInv
<1> QED
  BY <1>1, <1>2, PTL DEF Spec

\* No consumer, whatever fails and however many workers share its id, has a
\* checkpoint past an event of its tenant that its handler has not seen.
THEOREM ConsumersCorrect == Spec => []NothingSkipped
<1>1. ConsumerInv => NothingSkipped
  BY DEF ConsumerInv
<1> QED
  BY <1>1, ConsumerInvariant, PTL

\* Events reach a consumer's handler for the first time in offset order,
\* although its workers read, retry and checkpoint independently.
THEOREM DeliveriesOrdered == Spec => []DeliveredInOrder
<1>1. ConsumerInv => DeliveredInOrder
  BY DEF ConsumerInv
<1> QED
  BY <1>1, ConsumerInvariant, PTL

-----------------------------------------------------------------------------
(* The bus implements one append-only log per partition *)

LEMMA RowAtIsRow ==
  ASSUME TypeOK, StorageInv, NEW p \in Partitions,
         NEW o \in 1..partitions[p].current_offset
  PROVE  RowAt(p, o) \in Rows(p) /\ RowAt(p, o).partition_offset = o
<1>1. o \in Offsets(p)
  BY DEF StorageInv, HeadMatchesEvents
<1>2. \E r \in Rows(p) : r.partition_offset = o
  BY <1>1 DEF Offsets
<1> QED
  BY <1>2 DEF RowAt

LogsTyped ==
  \A p \in Partitions : /\ LogOf(p) \in Seq(Log!Entry)
                        /\ Len(LogOf(p)) = partitions[p].current_offset

LEMMA LogOfType == TypeOK /\ StorageInv => LogsTyped
<1> SUFFICES ASSUME TypeOK, StorageInv, NEW p \in Partitions
             PROVE  /\ LogOf(p) \in Seq(Log!Entry)
                    /\ Len(LogOf(p)) = partitions[p].current_offset
  BY DEF LogsTyped
<1>1. partitions[p].current_offset \in Nat
  BY DEF TypeOK, PartitionsTypeOK
<1>2. ASSUME NEW o \in 1..partitions[p].current_offset
      PROVE  [author_tenant_id |-> RowAt(p, o).author_tenant_id,
              payload |-> RowAt(p, o).payload] \in Log!Entry
  <2>1. RowAt(p, o) \in events
    BY RowAtIsRow DEF Rows
  <2> QED
    BY <2>1 DEF Log!Entry, TypeOK, EventsTypeOK
<1> QED
  BY <1>1, <1>2 DEF LogOf

LEMMA CommitIsLogAppend ==
  ASSUME TypeOK, StorageInv, TypeOK', StorageInv', NEW s \in Storages, AppendCommit(s)
  PROVE  Log!LogNext
<1>1. PICK p, row :
             /\ p \in Partitions
             /\ row.author_tenant_id = appending[s].author_tenant_id
             /\ row.payload = appending[s].payload
             /\ row.partition_key = p
             /\ row.partition_offset = partitions[p].current_offset + 1
             /\ events' = events \cup {row}
             /\ partitions' = [partitions EXCEPT ![p] =
                   [known |-> TRUE, current_offset |-> row.partition_offset,
                    last_event_hash |-> row.event_hash]]
  BY CommitAtHead
<1>p. p \in Partitions
  BY <1>1
<1> USE <1>p
<1>2. PICK n \in Nat : n = partitions[p].current_offset
  BY DEF TypeOK, PartitionsTypeOK
<1>3. PICK e \in Log!Entry : e = [author_tenant_id |-> row.author_tenant_id,
                                  payload |-> row.payload]
  BY <1>1 DEF Log!Entry, TypeOK, AppendingTypeOK, AppendCommit
<1>4. /\ Rows(p)' = Rows(p) \cup {row}
      /\ \A q \in Partitions : q # p => Rows(q)' = Rows(q)
  BY <1>1 DEF Rows
<1>5. /\ partitions'[p].current_offset = n + 1
      /\ \A q \in Partitions : q # p => partitions'[q] = partitions[q]
  BY <1>1, <1>2 DEF TypeOK, PartitionsTypeOK
<1>6. \A q \in Partitions : q # p => LogOf(q)' = LogOf(q)
  BY <1>4, <1>5 DEF LogOf, RowAt
<1>7. LogOf(p)' = Append(LogOf(p), e)
  <2>1. ASSUME NEW o \in 1..n
        PROVE  RowAt(p, o)' = RowAt(p, o)
    <3>1. RowAt(p, o) \in Rows(p) /\ RowAt(p, o).partition_offset = o
      BY <1>2, RowAtIsRow
    <3>2. RowAt(p, o)' \in Rows(p)' /\ RowAt(p, o)'.partition_offset = o
      <4>1. \E r \in Rows(p)' : r.partition_offset = o
        BY <1>4, <3>1
      <4> QED
        BY <4>1 DEF RowAt
    <3>3. RowAt(p, o) \in Rows(p)'
      BY <1>4, <3>1
    <3>4. \A x, y \in Rows(p)' : x.partition_offset = y.partition_offset => x = y
      BY DEF StorageInv, HeadMatchesEvents
    <3> QED
      BY <3>1, <3>2, <3>3, <3>4
  <2>2. RowAt(p, n + 1)' = row
    <3>1. row \in Rows(p)' /\ row.partition_offset = n + 1
      BY <1>1, <1>2, <1>4
    <3>2. RowAt(p, n + 1)' \in Rows(p)' /\ RowAt(p, n + 1)'.partition_offset = n + 1
      BY <3>1 DEF RowAt
    <3>3. \A x, y \in Rows(p)' : x.partition_offset = y.partition_offset => x = y
      BY DEF StorageInv, HeadMatchesEvents
    <3> QED
      BY <3>1, <3>2, <3>3
  <2>3. LogOf(p)' = [o \in 1..(n + 1) |->
           [author_tenant_id |-> RowAt(p, o)'.author_tenant_id,
            payload |-> RowAt(p, o)'.payload]]
    BY <1>5 DEF LogOf
  <2>4. LogOf(p) = [o \in 1..n |->
           [author_tenant_id |-> RowAt(p, o).author_tenant_id,
            payload |-> RowAt(p, o).payload]]
    BY <1>2 DEF LogOf
  <2>5. LogOf(p) \in Seq(Log!Entry) /\ Len(LogOf(p)) = n
    BY <1>2, LogOfType DEF LogsTyped
  <2>6. /\ DOMAIN LogOf(p)' = 1..(n + 1)
        /\ \A o \in 1..n : LogOf(p)'[o] = LogOf(p)[o]
        /\ LogOf(p)'[n + 1] = e
    BY <1>2, <1>3, <2>1, <2>2, <2>3, <2>4
  <2>7. LogOf(p)' \in Seq(Log!Entry) /\ Len(LogOf(p)') = n + 1
    <3>1. LogsTyped'
      BY LogOfType, PTL
    <3> QED
      BY <1>5, <3>1 DEF LogsTyped
  <2>8. PICK x \in Seq(Log!Entry), y \in Seq(Log!Entry) : x = LogOf(p) /\ y = LogOf(p)'
    BY <2>5, <2>7
  <2>9. /\ Append(x, e) \in Seq(Log!Entry)
        /\ Len(Append(x, e)) = Len(y)
        /\ \A o \in 1..Len(y) : Append(x, e)[o] = y[o]
    BY <2>5, <2>6, <2>7, <2>8, AppendProperties
  <2> QED
    BY <2>8, <2>9, SeqEqual
<1>8. [q \in Partitions |-> LogOf(q)]'
        = [[q \in Partitions |-> LogOf(q)] EXCEPT ![p] = Append(@, e)]
  BY <1>6, <1>7
<1> QED
  BY <1>3, <1>8 DEF Log!LogNext, Log!LogAppend

LEMMA StepIsLogStep ==
  ASSUME TypeOK, StorageInv, TypeOK', StorageInv', [Next]_vars
  PROVE  [Log!LogNext]_([p \in Partitions |-> LogOf(p)])
<1>1. ASSUME UNCHANGED <<events, partitions>>
      PROVE  UNCHANGED [p \in Partitions |-> LogOf(p)]
  BY <1>1 DEF LogOf, RowAt, Rows
<1>2. CASE \E s \in Storages : AppendCommit(s)
  BY <1>2, CommitIsLogAppend
<1>3. CASE ~ \E s \in Storages : AppendCommit(s)
  <2>1. UNCHANGED <<events, partitions>>
    BY <1>3 DEF Next, StorageNext, ConsumerNext, AppendRead, AppendRollback, EstablishEpoch,
           ConsumeReadCheckpoint, ConsumeReadBatch, ConsumeNothing, ConsumeHandle,
           ConsumeCheckpoint, ConsumeAbort, busVars, vars
  <2> QED
    BY <1>1, <2>1
<1> QED
  BY <1>2, <1>3

\* An append is atomic to every observer: the bus with its interleaved reads,
\* constraints and rollbacks implements one append-only log per partition.
THEOREM BusImplementsLog == Spec => ImplementsLog
<1>1. Init => Log!LogInit
  BY DEF Init, Log!LogInit, LogOf, NoPartition
<1>2. TypeOK /\ StorageInv /\ TypeOK' /\ StorageInv' /\ [Next]_vars
        => [Log!LogNext]_([p \in Partitions |-> LogOf(p)])
  BY StepIsLogStep
<1> QED
  BY <1>1, <1>2, TypeCorrect, StorageInvariant, PTL DEF Spec, ImplementsLog, Log!LogSpec
=============================================================================
