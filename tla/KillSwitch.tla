----------------------------- MODULE KillSwitch -----------------------------
(***************************************************************************)
(* What a dead man's switch promises, without threads, sockets or timers:  *)
(* it guards a secret and a set of protected processes, and it ends in one *)
(* of two ways.  Armed, it kills the protected processes that it may       *)
(* signal, destroys the secret and dies, in that order.  Otherwise it      *)
(* destroys the secret and leaves, and kills nobody.  Watchdog is shown to *)
(* implement it.                                                           *)
(***************************************************************************)
EXTENDS Naturals

CONSTANT Pid

VARIABLES
    armed,      \* may the switch kill
    protected,  \* the processes to kill with it
    proc,       \* what runs under each pid: "agent", "stranger", "gone", or
                \* "foreign", a process of another user
    wiped,      \* the secret is destroyed
    phase       \* where the switch is on one of its two ways out

vars == <<armed, protected, proc, wiped, phase>>

Present == phase \notin {"dead", "departed"}

Init ==
    /\ armed \in BOOLEAN
    /\ protected = {}
    /\ proc \in [Pid -> {"agent", "foreign"}]
    /\ wiped = FALSE
    /\ phase = "guarding"

-----------------------------------------------------------------------------
(* What others do as long as the switch is present.                        *)

\* Arming is one-way.
Arm ==
    /\ Present
    /\ ~armed
    /\ armed' = TRUE
    /\ UNCHANGED <<protected, proc, wiped, phase>>

Protect(p) ==
    /\ Present
    /\ protected' = protected \cup {p}
    /\ UNCHANGED <<armed, proc, wiped, phase>>

Unprotect(p) ==
    /\ Present
    /\ protected' = protected \ {p}
    /\ UNCHANGED <<armed, proc, wiped, phase>>

ProcessChanges(p) ==
    /\ Present
    /\ \/ /\ proc[p] \in {"agent", "foreign"}
          /\ proc' = [proc EXCEPT ![p] = "gone"]
       \/ /\ proc[p] = "gone"
          /\ \E other \in {"stranger", "foreign"} :
                 proc' = [proc EXCEPT ![p] = other]
    /\ UNCHANGED <<armed, protected, wiped, phase>>

-----------------------------------------------------------------------------
(* The two ways out.                                                        *)

Condemn ==
    /\ phase = "guarding"
    /\ armed
    /\ phase' = "condemned"
    /\ UNCHANGED <<armed, protected, proc, wiped>>

\* Whoever it may not signal lives, and the switch goes on.
KillProtected ==
    /\ phase = "condemned"
    /\ proc' = [p \in Pid |-> IF p \in protected /\ proc[p] # "foreign"
                             THEN "gone" ELSE proc[p]]
    /\ phase' = "avenged"
    /\ UNCHANGED <<armed, protected, wiped>>

StandDown ==
    /\ phase = "guarding"
    /\ phase' = "leaving"
    /\ UNCHANGED <<armed, protected, proc, wiped>>

Wipe ==
    /\ phase \in {"avenged", "leaving"}
    /\ ~wiped
    /\ wiped' = TRUE
    /\ UNCHANGED <<armed, protected, proc, phase>>

Die ==
    /\ phase = "avenged"
    /\ wiped
    /\ phase' = "dead"
    /\ UNCHANGED <<armed, protected, proc, wiped>>

Depart ==
    /\ phase = "leaving"
    /\ wiped
    /\ phase' = "departed"
    /\ UNCHANGED <<armed, protected, proc, wiped>>

WayOut == Condemn \/ KillProtected \/ StandDown \/ Wipe \/ Die \/ Depart

Next ==
    \/ Arm
    \/ \E p \in Pid : Protect(p) \/ Unprotect(p) \/ ProcessChanges(p)
    \/ WayOut

\* A switch that has set out goes all the way.
Spec ==
    /\ Init
    /\ [][Next]_vars
    /\ WF_vars(KillProtected \/ Wipe \/ Die \/ Depart)

\* The steps alone, without the promise to finish.
Safety == Init /\ [][Next]_vars

=============================================================================
