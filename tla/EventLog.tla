------------------------------- MODULE EventLog -------------------------------
(***************************************************************************)
(* What the event bus promises to its users: each partition is one         *)
(* append-only log.  An append that returns an event has put one entry at  *)
(* the end of one partition, an append that raises has changed nothing.    *)
(* EventBus.tla is shown to implement this module.                         *)
(***************************************************************************)
EXTENDS Naturals, Sequences

CONSTANTS Partitions, Tenants, Payloads

VARIABLE log    \* partition -> the entries of the partition, oldest first

Entry == [author_tenant_id : Tenants, payload : Payloads]

LogInit == log = [p \in Partitions |-> << >>]

LogAppend(p, e) == log' = [log EXCEPT ![p] = Append(@, e)]

LogNext == \E p \in Partitions, e \in Entry : LogAppend(p, e)

LogSpec == LogInit /\ [][LogNext]_log
=============================================================================
