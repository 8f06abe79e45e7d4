----------------------------- MODULE MCWatchdog -----------------------------
(* The watchdog on small sets.  Connections are interchangeable, and so are  *)
(* pids: symmetry is used by the runs without liveness properties.           *)
EXTENDS Watchdog, TLC

Symmetry ==
    Permutations(Client) \cup Permutations(Control) \cup Permutations(Pid)

=============================================================================
