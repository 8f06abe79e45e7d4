------------------------------- MODULE MCDazai -------------------------------
(* Two daemons on one path, which are interchangeable: symmetry is sound,    *)
(* since the run checks no liveness.                                         *)
EXTENDS Dazai, TLC

Symmetry == Permutations(Daemon)

=============================================================================
