-------------------------------- MODULE MCRei --------------------------------
(* The adapter beside interchangeable daemons: symmetry is sound, since no   *)
(* run checks liveness.                                                      *)
EXTENDS Rei, TLC

Symmetry == Permutations(Daemon)

=============================================================================
