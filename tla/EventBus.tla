------------------------------- MODULE EventBus -------------------------------
(***************************************************************************)
(* EventBusStorage and DeterministicConsumer                               *)
(* (src/src/pi_event_fabric/bus/core.py).                                  *)
(*                                                                         *)
(* A storage is one EventBusStorage object: its RLock serialises the       *)
(* threads that share it, and nothing else does.  Several storages (one    *)
(* per process, or several in one process) open the same SQLite file.      *)
(* append() reads the partition head with a SELECT that is not part of a   *)
(* transaction (Python's sqlite3 opens one at the first INSERT), so the    *)
(* read and the write of two storages interleave; the INSERT, the UPDATE   *)
(* and the COMMIT are one transaction, so one step.                        *)
(*                                                                         *)
(* A worker is a thread inside DeterministicConsumer.consume.  Two workers *)
(* may run for the same consumer_id: the object's own lock is never taken. *)
(***************************************************************************)
EXTENDS Naturals, FiniteSets, Sequences

CONSTANTS Storages,      \* the EventBusStorage objects on one database file
          Partitions,    \* partition keys, as sequences of "_"-separated words
          Tenants,       \* tenant ids, as sequences of "_"-separated words
          Payloads,      \* payloads of the events, as their canonical JSON texts
          Reloaded,      \* payload -> the text of what json.loads makes of its text
          EpochNumbers,  \* epoch numbers callers establish
          Consumers,     \* consumer ids
          Workers,       \* threads that call consume
          ConsumerOf,    \* worker -> the consumer id it works for
          StorageOf,     \* worker -> the storage it goes through
          TenantFilter,  \* consumer -> tenant it is restricted to, or NoTenant
          NoTenant,      \* tenant_id=None: no filter
          BatchSize,     \* batch_size of consume
          MaxEvents      \* bound: room in the database, in events

ASSUME ConsumerAssumption ==
    /\ ConsumerOf \in [Workers -> Consumers]
    /\ StorageOf \in [Workers -> Storages]
    /\ TenantFilter \in [Consumers -> Tenants \cup {NoTenant}]

\* Not the identity: integer keys are sorted as integers when they are stored
\* and as strings once they have been loaded.
ASSUME PayloadAssumption == Reloaded \in [Payloads -> Payloads]

ASSUME BoundAssumption == BatchSize \in Nat \ {0} /\ MaxEvents \in Nat

VARIABLES
    events,      \* table events: the set of its rows
    partitions,  \* table event_partitions: partition -> its row
    epochs,      \* table epoch_markers: the epoch numbers recorded
    checkpoints, \* table checkpoints: consumer -> partition -> offset (0: no row)
    appending,   \* storage -> the append that holds its lock
    worker,      \* worker -> the consume call it is in
    handled      \* history: consumer -> partition -> offsets the handler has seen

busVars == <<events, partitions, epochs, appending>>
consumerVars == <<checkpoints, worker, handled>>
vars == <<events, partitions, epochs, checkpoints, appending, worker, handled>>

-----------------------------------------------------------------------------
(* Hashes and ids.  A hash is the content it covers, so that two hashes    *)
(* are equal exactly when what they cover is.                              *)

GenesisHash == << >>

\* DomainEvent._compute_hash: identity fields and payload, no wall clock.
ComputeHash(p, o, t, v, prev) == <<p, o, t, v, prev>>

\* Mutant: the offset is left out of the id.
EventIdWithoutOffset(t, p, o) == <<t \o p, 0>>

\* f"evt_{tenant_id}_{partition_key}_{offset}": the words are joined by "_",
\* and so is the boundary between the tenant and the partition.
EventId(t, p, o) == <<t \o p, o>>

-----------------------------------------------------------------------------
(* The tables *)

NoPartition ==
    [known |-> FALSE, current_offset |-> 0, last_event_hash |-> GenesisHash]

IdleAppend == [busy |-> FALSE]
IdleWorker == [pc |-> "idle"]

Rows(p) == {r \in events : r.partition_key = p}

Offsets(p) == {r.partition_offset : r \in Rows(p)}

\* read_partition(start_offset, tenant_filter): the offsets it selects ...
Selected(c, p, start) ==
    {r.partition_offset : r \in {q \in Rows(p) :
        /\ q.partition_offset >= start
        /\ TenantFilter[c] \in {NoTenant, q.author_tenant_id}}}

\* Mutant: the newest events first (ORDER BY ... DESC).
ReadPartitionNewest(c, p, start) ==
    LET all == Selected(c, p, start)
    IN  {o \in all : Cardinality({x \in all : x > o}) < BatchSize}

\* Mutant: the tenant filter is applied to the page instead of the query.
ReadPartitionThenFilter(c, p, start) ==
    LET page == {o \in Offsets(p) :
                    /\ o >= start
                    /\ Cardinality({x \in Offsets(p) : x >= start /\ x < o}) < BatchSize}
    IN  page \cap Selected(c, p, start)

\* ... and the first BatchSize of them, in offset order.
ReadPartition(c, p, start) ==
    LET all == Selected(c, p, start)
    IN  {o \in all : Cardinality({x \in all : x < o}) < BatchSize}

\* verify_partition_chain, for one row: the hash of the event _row_to_event
\* makes of it ...
HashRecomputes(r) ==
    r.event_hash = ComputeHash(r.partition_key, r.partition_offset,
                       r.author_tenant_id, Reloaded[r.payload], r.previous_event_hash)

\* ... and its link to the row before it in the order of the query, by offset and,
\* were two rows to have the same, by rowid.
Precedes(q, r) ==
    \/ q.partition_offset < r.partition_offset
    \/ q.partition_offset = r.partition_offset /\ q.global_offset < r.global_offset

LinkMatches(p, r) ==
    \A q \in Rows(p) :
        Precedes(q, r) /\ (\A x \in Rows(p) : ~(Precedes(q, x) /\ Precedes(x, r)))
          => r.previous_event_hash = q.event_hash

-----------------------------------------------------------------------------
Init ==
    /\ events = {}
    /\ partitions = [p \in Partitions |-> NoPartition]
    /\ epochs = {}
    /\ checkpoints = [c \in Consumers |-> [p \in Partitions |-> 0]]
    /\ appending = [s \in Storages |-> IdleAppend]
    /\ worker = [w \in Workers |-> IdleWorker]
    /\ handled = [c \in Consumers |-> [p \in Partitions |-> {}]]

Unlocked(s) == ~appending[s].busy

-----------------------------------------------------------------------------
(* append *)

\* Take the lock and SELECT the head of the partition.
AppendRead(s, p, t, v) ==
    /\ Unlocked(s)
    /\ appending' = [appending EXCEPT ![s] =
          [busy |-> TRUE, partition_key |-> p, author_tenant_id |-> t, payload |-> v,
           known |-> partitions[p].known,
           current_offset |-> partitions[p].current_offset,
           last_event_hash |-> partitions[p].last_event_hash]]
    /\ UNCHANGED <<events, partitions, epochs, consumerVars>>

\* The row append inserts: offset and link come from the head it read.
NewRow(a) ==
    LET o == a.current_offset + 1
    IN  [global_offset |-> Cardinality(events) + 1,
         partition_key |-> a.partition_key,
         partition_offset |-> o,
         author_tenant_id |-> a.author_tenant_id,
         payload |-> a.payload,
         previous_event_hash |-> a.last_event_hash,
         event_hash |-> ComputeHash(a.partition_key, o, a.author_tenant_id,
                                    a.payload, a.last_event_hash)]

\* The constraints of the two tables: the primary key of event_partitions (a
\* row is inserted when none was read), UNIQUE(event_id) and
\* UNIQUE(partition_key, partition_offset).
PartitionKeyFree(a) == a.known \/ ~partitions[a.partition_key].known

EventIdFree(a) ==
    \A r \in events :
        EventId(r.author_tenant_id, r.partition_key, r.partition_offset)
          # EventId(a.author_tenant_id, a.partition_key, a.current_offset + 1)

\* Mutant: the schema without UNIQUE(partition_key, partition_offset).
OffsetFreeUnchecked(a) == TRUE

OffsetFree(a) == a.current_offset + 1 \notin Offsets(a.partition_key)

ConstraintsHold(a) == PartitionKeyFree(a) /\ EventIdFree(a) /\ OffsetFree(a)

\* Mutant: the head row is not updated in the transaction of the event.
AppendCommitHeadLater(s) ==
    LET a == appending[s]
    IN  /\ a.busy
        /\ ConstraintsHold(a)
        /\ Cardinality(events) < MaxEvents
        /\ events' = events \cup {NewRow(a)}
        /\ partitions' = [partitions EXCEPT ![a.partition_key].known = TRUE]
        /\ appending' = [appending EXCEPT ![s] = IdleAppend]
        /\ UNCHANGED <<epochs, consumerVars>>

\* Mutant: ON CONFLICT(partition_key, partition_offset) DO UPDATE.
AppendCommitUpsert(s) ==
    LET a == appending[s]
        row == NewRow(a)
    IN  /\ a.busy
        /\ PartitionKeyFree(a) /\ EventIdFree(a)
        /\ Cardinality(events) < MaxEvents
        /\ events' = {r \in events : r.partition_key # a.partition_key
                                     \/ r.partition_offset # row.partition_offset} \cup {row}
        /\ partitions' = [partitions EXCEPT ![a.partition_key] =
              [known |-> TRUE, current_offset |-> row.partition_offset,
               last_event_hash |-> row.event_hash]]
        /\ appending' = [appending EXCEPT ![s] = IdleAppend]
        /\ UNCHANGED <<epochs, consumerVars>>

\* INSERT the event, UPDATE the head, COMMIT, release the lock.
AppendCommit(s) ==
    LET a == appending[s]
        row == NewRow(a)
    IN  /\ a.busy
        /\ ConstraintsHold(a)
        /\ Cardinality(events) < MaxEvents
        /\ events' = events \cup {row}
        /\ partitions' = [partitions EXCEPT ![a.partition_key] =
              [known |-> TRUE, current_offset |-> row.partition_offset,
               last_event_hash |-> row.event_hash]]
        /\ appending' = [appending EXCEPT ![s] = IdleAppend]
        /\ UNCHANGED <<epochs, consumerVars>>

\* Any exception (a constraint, the busy timeout, the disk) or the end of the
\* process: the transaction is rolled back and the caller has no event.
AppendRollback(s) ==
    /\ appending[s].busy
    /\ appending' = [appending EXCEPT ![s] = IdleAppend]
    /\ UNCHANGED <<events, partitions, epochs, consumerVars>>

-----------------------------------------------------------------------------
\* establish_epoch: epoch_number is UNIQUE, a second INSERT of it raises.
EstablishEpoch(s, n) ==
    /\ Unlocked(s)
    /\ n \notin epochs
    /\ epochs' = epochs \cup {n}
    /\ UNCHANGED <<events, partitions, appending, consumerVars>>

-----------------------------------------------------------------------------
(* DeterministicConsumer.consume *)

ConsumeReadCheckpoint(w, p) ==
    /\ worker[w].pc = "idle"
    /\ Unlocked(StorageOf[w])
    /\ worker' = [worker EXCEPT ![w] =
          [pc |-> "read", partition_key |-> p,
           start_offset |-> checkpoints[ConsumerOf[w]][p] + 1]]
    /\ UNCHANGED <<busVars, checkpoints, handled>>

BatchOf(w) ==
    ReadPartition(ConsumerOf[w], worker[w].partition_key, worker[w].start_offset)

\* The batch is read; last is the offset of events[-1].
ConsumeReadBatch(w) ==
    /\ worker[w].pc = "read"
    /\ Unlocked(StorageOf[w])
    /\ \E last \in BatchOf(w) :
          /\ \A o \in BatchOf(w) : o <= last
          /\ worker' = [worker EXCEPT ![w] =
                [pc |-> "handle", partition_key |-> worker[w].partition_key,
                 todo |-> BatchOf(w), last |-> last]]
    /\ UNCHANGED <<busVars, checkpoints, handled>>

\* No events: processed is 0 and no checkpoint is written.
ConsumeNothing(w) ==
    /\ worker[w].pc = "read"
    /\ Unlocked(StorageOf[w])
    /\ BatchOf(w) = {}
    /\ worker' = [worker EXCEPT ![w] = IdleWorker]
    /\ UNCHANGED <<busVars, checkpoints, handled>>

\* handler(event), for the next event of the batch.
ConsumeHandle(w) ==
    LET c == ConsumerOf[w]
        p == worker[w].partition_key
    IN  /\ worker[w].pc = "handle"
        /\ \E o \in worker[w].todo :
              /\ \A x \in worker[w].todo : o <= x
              /\ worker' = [worker EXCEPT ![w] =
                    [pc |-> "handle", partition_key |-> p,
                     todo |-> worker[w].todo \ {o}, last |-> worker[w].last]]
              /\ handled' = [handled EXCEPT ![c][p] = @ \cup {o}]
        /\ UNCHANGED <<busVars, checkpoints>>

\* write_checkpoint: an upsert of the offset of the last event of the batch.
ConsumeCheckpoint(w) ==
    /\ worker[w].pc = "handle"
    /\ worker[w].todo = {}
    /\ Unlocked(StorageOf[w])
    /\ checkpoints' = [checkpoints EXCEPT
          ![ConsumerOf[w]][worker[w].partition_key] = worker[w].last]
    /\ worker' = [worker EXCEPT ![w] = IdleWorker]
    /\ UNCHANGED <<busVars, handled>>

\* Mutant: the checkpoint is written in a finally block.
ConsumeAbortCheckpoints(w) ==
    /\ worker[w].pc = "handle"
    /\ checkpoints' = [checkpoints EXCEPT
          ![ConsumerOf[w]][worker[w].partition_key] = worker[w].last]
    /\ worker' = [worker EXCEPT ![w] = IdleWorker]
    /\ UNCHANGED <<busVars, handled>>

\* The handler or the database raises, or the process dies, inside consume.
ConsumeAbort(w) ==
    /\ worker[w].pc # "idle"
    /\ worker' = [worker EXCEPT ![w] = IdleWorker]
    /\ UNCHANGED <<busVars, checkpoints, handled>>

-----------------------------------------------------------------------------
StorageNext ==
    \E s \in Storages :
        \/ \E p \in Partitions, t \in Tenants, v \in Payloads : AppendRead(s, p, t, v)
        \/ AppendCommit(s)
        \/ AppendRollback(s)
        \/ \E n \in EpochNumbers : EstablishEpoch(s, n)

ConsumerNext ==
    \E w \in Workers :
        \/ \E p \in Partitions : ConsumeReadCheckpoint(w, p)
        \/ ConsumeReadBatch(w)
        \/ ConsumeNothing(w)
        \/ ConsumeHandle(w)
        \/ ConsumeCheckpoint(w)
        \/ ConsumeAbort(w)

Next == StorageNext \/ ConsumerNext

Spec == Init /\ [][Next]_vars

\* An append ends (commit or exception), a consume call goes on, and callers
\* keep polling every partition.  Strong fairness where the step needs the
\* storage's lock: appends release it between calls, a waiter gets it in time.
Fairness ==
    /\ \A s \in Storages : WF_vars(AppendCommit(s) \/ AppendRollback(s))
    /\ \A w \in Workers :
          /\ \A p \in Partitions : SF_vars(ConsumeReadCheckpoint(w, p))
          /\ SF_vars(ConsumeReadBatch(w) \/ ConsumeNothing(w))
          /\ WF_vars(ConsumeHandle(w))
          /\ SF_vars(ConsumeCheckpoint(w))

FairSpec == Spec /\ Fairness

-----------------------------------------------------------------------------
(* Properties *)

\* The columns append and consume write, and the calls in progress.
EventsTypeOK ==
    /\ IsFiniteSet(events)
    /\ \A r \in events :
          /\ r.global_offset \in Nat \ {0}
          /\ r.partition_key \in Partitions
          /\ r.partition_offset \in Nat \ {0}
          /\ r.author_tenant_id \in Tenants
          /\ r.payload \in Payloads

PartitionsTypeOK ==
    /\ DOMAIN partitions = Partitions
    /\ \A p \in Partitions :
          partitions[p].known \in BOOLEAN /\ partitions[p].current_offset \in Nat

AppendingTypeOK ==
    /\ DOMAIN appending = Storages
    /\ \A s \in Storages :
          /\ appending[s].busy \in BOOLEAN
          /\ appending[s].busy =>
                /\ appending[s].partition_key \in Partitions
                /\ appending[s].author_tenant_id \in Tenants
                /\ appending[s].payload \in Payloads
                /\ appending[s].known \in BOOLEAN
                /\ appending[s].current_offset \in Nat

ConsumeCall ==
    [pc : {"idle"}]
      \cup [pc : {"read"}, partition_key : Partitions, start_offset : Nat \ {0}]
      \cup [pc : {"handle"}, partition_key : Partitions,
            todo : SUBSET (Nat \ {0}), last : Nat \ {0}]

\* Every variable holds rows, heads, offsets and calls of the right shape.
TypeOK ==
    /\ EventsTypeOK
    /\ PartitionsTypeOK
    /\ AppendingTypeOK
    /\ epochs \subseteq EpochNumbers
    /\ checkpoints \in [Consumers -> [Partitions -> Nat]]
    /\ worker \in [Workers -> ConsumeCall]
    /\ handled \in [Consumers -> [Partitions -> SUBSET Nat]]

\* However the appends of several storages interleave, verify_partition_chain
\* finds every link of every partition intact, down to the genesis hash, and the
\* only rows whose hash it reports are those whose payload JSON does not
\* reproduce.
ChainIntact ==
    \A p \in Partitions : \A r \in Rows(p) :
        /\ LinkMatches(p, r)
        /\ r.partition_offset = 1 => r.previous_event_hash = GenesisHash
        /\ HashRecomputes(r) <=> Reloaded[r.payload] = r.payload

\* The head row of a partition, which the next append reads, agrees with the
\* event rows: offsets run 1..current_offset with no gap and no repetition, and
\* the head carries the hash of the last of them.
HeadMatchesEvents ==
    \A p \in Partitions :
        /\ Offsets(p) = 1..partitions[p].current_offset
        /\ \A q, r \in Rows(p) : q.partition_offset = r.partition_offset => q = r
        /\ \A r \in Rows(p) :
              r.partition_offset = partitions[p].current_offset
                => r.event_hash = partitions[p].last_event_hash

\* "Global offset monotonically increasing": the order of global_offset and
\* the order of partition_offset agree inside a partition, so a reader by
\* correlation id (ORDER BY global_offset) sees a partition in order.
GlobalOrderAgrees ==
    \A p \in Partitions : \A q, r \in Rows(p) :
        q.partition_offset < r.partition_offset <=> q.global_offset < r.global_offset

HeadUnchanged(a) ==
    /\ a.known = partitions[a.partition_key].known
    /\ a.current_offset = partitions[a.partition_key].current_offset

\* Another partition has an event whose tenant and partition, joined by "_", are
\* those of the append, at the offset it is to get.
IdTaken(a) ==
    \E r \in events :
        /\ r.partition_key # a.partition_key
        /\ r.author_tenant_id \o r.partition_key = a.author_tenant_id \o a.partition_key
        /\ r.partition_offset = a.current_offset + 1

\* The constraints refuse an append for two reasons only: another storage has
\* overtaken it, or another tenant's event of another partition has its id
\* because the joined names are ambiguous.  In the second case it is refused.
OnlyStaleAppendsRefused ==
    \A s \in Storages :
        appending[s].busy /\ HeadUnchanged(appending[s])
          => (ConstraintsHold(appending[s]) <=> ~IdTaken(appending[s]))

\* consume loses nothing: every event of the consumer's tenant up to its
\* checkpoint has been through the handler, whatever crashes, handler
\* exceptions or second workers of the same consumer id came in between.
NothingSkipped ==
    \A c \in Consumers, p \in Partitions :
        \A o \in Selected(c, p, 1) :
            o <= checkpoints[c][p] => o \in handled[c][p]

\* consume delivers in order: no event reaches the handler for the first time
\* before every earlier event of the partition that the consumer may see.
DeliveredInOrder ==
    \A c \in Consumers, p \in Partitions :
        \A o \in handled[c][p] : \A x \in Selected(c, p, 1) :
            x < o => x \in handled[c][p]

\* A step that can only be a failure inside consume.
ConsumeFails ==
    \E w \in Workers : ConsumeAbort(w) /\ ~ConsumeNothing(w) /\ ~ConsumeCheckpoint(w)

\* Every event a consumer may see is eventually under its checkpoint, provided
\* handlers and database stop failing at some point.
EveryEventConsumed ==
    <>[][~ConsumeFails]_vars =>
        \A c \in {ConsumerOf[w] : w \in Workers}, p \in Partitions :
            \A o \in 1..MaxEvents :
                (o \in Selected(c, p, 1)) ~> (checkpoints[c][p] >= o)

\* The detailed specification implements one append-only log per partition.
RowAt(p, o) == CHOOSE r \in Rows(p) : r.partition_offset = o

LogOf(p) ==
    [o \in 1..partitions[p].current_offset |->
        [author_tenant_id |-> RowAt(p, o).author_tenant_id,
         payload |-> RowAt(p, o).payload]]

Log == INSTANCE EventLog WITH log <- [p \in Partitions |-> LogOf(p)]

ImplementsLog == Log!LogSpec

-----------------------------------------------------------------------------
(* The inductive strengthening of the invariants, used by the proofs. *)

\* Hash and link of every row, stated by offset.
RowsLinked ==
    \A p \in Partitions : \A r \in Rows(p) :
        /\ r.event_hash = ComputeHash(r.partition_key, r.partition_offset,
                              r.author_tenant_id, r.payload, r.previous_event_hash)
        /\ r.partition_offset = 1 => r.previous_event_hash = GenesisHash
        /\ \A q \in Rows(p) :
              q.partition_offset + 1 = r.partition_offset
                => r.previous_event_hash = q.event_hash

EmptyHeads ==
    \A p \in Partitions :
        partitions[p].current_offset = 0 => partitions[p].last_event_hash = GenesisHash

\* An append in progress has read a head that is not ahead of the current one,
\* and that is the current one unless another storage has committed since.
PendingBehind ==
    \A s \in Storages : appending[s].busy =>
        LET head == partitions[appending[s].partition_key]
        IN  /\ appending[s].current_offset <= head.current_offset
            /\ appending[s].current_offset = head.current_offset
                 => appending[s].last_event_hash = head.last_event_hash

GlobalBound == \A r \in events : r.global_offset <= Cardinality(events)

StorageInv ==
    /\ HeadMatchesEvents
    /\ RowsLinked
    /\ EmptyHeads
    /\ PendingBehind
    /\ GlobalBound
    /\ GlobalOrderAgrees

\* Nothing a consumer has done is ahead of the partition.
ConsumersBehind ==
    \A c \in Consumers, p \in Partitions :
        /\ checkpoints[c][p] <= partitions[p].current_offset
        /\ handled[c][p] \subseteq 1..partitions[p].current_offset

\* What a worker in the middle of consume relies on: everything before the
\* start of its read was handled; everything up to the end of its batch was
\* handled or is still in the batch.
WorkerCovers(w, c, p) ==
    /\ worker[w].pc = "read" =>
          /\ worker[w].start_offset <= partitions[p].current_offset + 1
          /\ \A o \in Selected(c, p, 1) :
                o < worker[w].start_offset => o \in handled[c][p]
    /\ worker[w].pc = "handle" =>
          /\ worker[w].last <= partitions[p].current_offset
          /\ \A o \in worker[w].todo : o <= worker[w].last
          /\ \A o \in Selected(c, p, 1) :
                o <= worker[w].last => o \in handled[c][p] \cup worker[w].todo

WorkersCover ==
    \A w \in Workers : \A p \in Partitions :
        worker[w].pc # "idle" /\ worker[w].partition_key = p
          => WorkerCovers(w, ConsumerOf[w], p)

ConsumerInv ==
    /\ ConsumersBehind
    /\ WorkersCover
    /\ NothingSkipped
    /\ DeliveredInOrder
=============================================================================
