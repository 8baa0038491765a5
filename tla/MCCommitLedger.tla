--------------------------- MODULE MCCommitLedger ---------------------------
(* Instances of CommitLedger: the constants are all given by the .cfg files. *)
EXTENDS CommitLedger, TLC

\* Processes, streams and contents are interchangeable
Symmetry == Permutations(Procs) \cup Permutations(Streams) \cup Permutations(Tags)
=============================================================================
