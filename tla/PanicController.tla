--------------------------- MODULE PanicController ---------------------------
(***************************************************************************)
(* The panic policy of kikka (rs/crates/kikka/src/panic.rs): what a        *)
(* trigger does, given arming, dry-run and the grace window.               *)
(*                                                                         *)
(* The controller belongs to the watchdog's main thread and calls its      *)
(* collaborators (kill_registered, wipe, kill, dry_done) one after the     *)
(* other on that thread.  Other threads run between two of those calls, so *)
(* a call is a position of the main thread's program counter pc: a trigger *)
(* moves pc to the first call of the path it chooses, and the module that  *)
(* owns the collaborators (Watchdog) moves it along.                       *)
(***************************************************************************)

VARIABLES
    armed,      \* the flag shared with the ARM handler (AtomicBool)
    fired,      \* the one-shot guard
    deadline,   \* "none", "pending" (the grace window is open), "expired"
    pc          \* the main thread: "loop", or the collaborator it calls next

Deadline == {"none", "pending", "expired"}

\* The calls an armed trigger makes, in this order; lethal is the host's part.
KillPath == {"kill_registered", "wipe", "kill", "lethal"}

\* The calls a dry-run trigger makes.
DryPath == {"dry_wipe", "dry_done"}

\* Bug: the registered pids are not killed first.
ExecuteWipesFirst ==
    /\ fired' = TRUE
    /\ deadline' = "none"
    /\ pc' = "wipe"

Execute ==
    /\ fired' = TRUE
    /\ deadline' = "none"
    /\ pc' = "kill_registered"

DryWipe ==
    /\ pc' = "dry_wipe"
    /\ UNCHANGED <<fired, deadline>>

\* Bug: the deadline is computed and not stored.
OpenNoWindow ==
    /\ deadline' = "none"
    /\ UNCHANGED <<fired, pc>>

\* A later graceful trigger opens a new window: the deadline starts over.
OpenWindow ==
    /\ deadline' = "pending"
    /\ UNCHANGED <<fired, pc>>

\* Heartbeat loss, missed ping, SIGUSR1.  grace is whether the configured
\* window is longer than zero.
RequestGraceful(grace) ==
    IF fired THEN UNCHANGED <<fired, deadline, pc>>
    ELSE \/ ~armed /\ DryWipe
         \/ armed /\ grace /\ OpenWindow
         \/ armed /\ ~grace /\ Execute

\* Bug: a hard trigger does not ask whether the daemon is armed.
RequestHardUnarmed ==
    IF fired THEN UNCHANGED <<fired, deadline, pc>>
    ELSE Execute

\* SIGUSR2 bypasses the window.
RequestHard ==
    IF fired THEN UNCHANGED <<fired, deadline, pc>>
    ELSE \/ ~armed /\ DryWipe
         \/ armed /\ Execute

CancelPanic ==
    /\ deadline' = "none"
    /\ UNCHANGED <<fired, pc>>

Tick ==
    /\ deadline = "expired"
    /\ ~fired
    /\ Execute

\* The monotonic clock reaches the deadline.
GraceExpires ==
    /\ deadline = "pending"
    /\ deadline' = "expired"

=============================================================================
