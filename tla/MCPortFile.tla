----------------------------- MODULE MCPortFile -----------------------------
(* PortFile with the symmetry of its daemons, and the settings of its runs. *)
EXTENDS PortFile, TLC

Symmetry == Permutations(Daemons)

\* Daemons that run at once, on a file system that works.
Together == {[overlap |-> TRUE, ioErrors |-> FALSE]}

\* Also daemons that follow one another, on one whose calls may fail.
AloneOrTogether == Together \cup {[overlap |-> FALSE, ioErrors |-> TRUE]}

=============================================================================
