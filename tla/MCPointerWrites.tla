-------------------------- MODULE MCPointerWrites --------------------------
(* PointerWrites on a small daemon, for TLC.                               *)
EXTENDS PointerWrites, TLC

\* Which task or upload id is which does not matter.  For safety only.
Symmetry == Permutations(Tasks) \cup Permutations(Uploads)

=============================================================================
