------------------------------ MODULE MCJournal ------------------------------
(* Small instances of Journal for TLC.                                       *)
EXTENDS Journal, TLC

\* Records are interchangeable, and so are batches.
Symmetry == Permutations(Records) \cup Permutations(Batches)
=============================================================================
