--------------------------- MODULE MCMemoryStore ----------------------------
(* Instances of MemoryStore for TLC. *)
EXTENDS MemoryStore, TLC

\* Goroutines, identifiers and contents are interchangeable; used by runs
\* without liveness properties only.
Symmetry ==
  Permutations(Procs) \cup Permutations(Ids) \cup Permutations(Contents)

\* One reader, two writers that compete, and nothing refused.
ContendingCalls ==
  {r \in Request : ArgumentError(r) = "nil" /\ r.op \in {"list", "create", "delete"}}
=============================================================================
