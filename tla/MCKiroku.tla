------------------------------ MODULE MCKiroku ------------------------------
(* The sink with few calls and a small contract.                           *)
EXTENDS Kiroku

\* Before 1970, in Korg's domain (MaxSafe = 2) and beyond it.
Clock == {-1, 1, 3}

=============================================================================
