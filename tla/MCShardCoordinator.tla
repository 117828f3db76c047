-------------------------- MODULE MCShardCoordinator --------------------------
(* Small instances of ShardCoordinator for TLC. *)
EXTENDS ShardCoordinator, TLC

\* Callers that do the same calls are interchangeable.
CallerSymmetry == Permutations(Callers \ Recoverers)
=============================================================================
