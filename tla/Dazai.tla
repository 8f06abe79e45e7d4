------------------------------- MODULE Dazai -------------------------------
(***************************************************************************)
(* The host of the watchdog, run_daemon in rs/crates/dazai/src/main.rs:    *)
(* its start-up in a fixed order, the lethal action, the clean return and  *)
(* the error paths, with its child (sienna), its buffers (goodnight), its  *)
(* filter (kekkai) and the two files it leaves for others, the socket and  *)
(* the pidfile.  Several daemons may be started on one path, one after     *)
(* another or at once, and each may be killed from outside at any step.    *)
(*                                                                         *)
(* Of the watchdog only its two ways out are here, those of KillSwitch,    *)
(* which Watchdog is shown to implement.                                   *)
(***************************************************************************)
EXTENDS Integers, FiniteSets, Sequences, Goodnight, Kekkai

CONSTANTS
    Daemon,         \* runs of dazai daemon on one socket path
    Nobody,         \* not a daemon
    KeyLen,         \* bytes of the key buffer
    KeyData,        \* bytes written to it
    WorkData,       \* bytes written to the working buffer
    Sizes,          \* values of --size tried
    Execs,          \* "wanted" with --exec, "none" without: those tried
    MaxRegistered,  \* pids a watchdog accepts
    Signals,        \* signals that anybody may send at any time: those tried
    Seccomp         \* the build has the seccomp feature

ASSUME DazaiAssumption ==
    /\ IsFiniteSet(Daemon)
    /\ Nobody \notin Daemon
    /\ Daemon \cap {"agent", "foreign", "nothing"} = {}
    /\ {KeyData, WorkData, MaxRegistered} \subseteq Nat
    /\ Sizes \cup {KeyLen} \subseteq 0 .. UsizeMod - 1
    /\ Execs \subseteq {"none", "wanted"}
    /\ Signals \subseteq {"USR1", "USR2", "TERM"}
    /\ Seccomp \in BOOLEAN

VARIABLES
    pc,         \* the step each daemon is at
    how,        \* the way it is ending or has ended
    armed,      \* its armed flag
    size,       \* its --size
    mem,        \* its buffers
    child,      \* its --exec child
    confined,   \* the daemons with a loaded filter
    handlers,   \* the daemons that catch signals
    pending,    \* signals caught and not yet taken by the main loop
    registered, \* the pids registered with each daemon
    sock,       \* the daemon that bound the socket file, if it exists
    pidfile,    \* content of the pidfile: a pid, Empty or NoFile
    linked,     \* the daemons whose open pidfile is the one on the path
    pid,        \* the pid of each daemon, 0 before it has one
    owner,      \* what runs under each pid: a daemon, an agent, a process of
                \* another user or nothing
    overlap     \* the daemons that have lived beside another one

stepVars == <<pc, how>>
memVars == <<size, mem, child>>
shieldVars == <<confined, handlers>>
loopVars == <<armed, pending, registered>>
fileVars == <<sock, pidfile, linked>>
pidVars == <<pid, owner, overlap>>
vars == <<stepVars, memVars, shieldVars, loopVars, fileVars, pidVars>>

NoFile == -1
Empty == 0

StartUp ==
    {"args", "key", "work", "child", "stale", "bind", "chmod", "create",
     "write", "chmod_pid", "filter", "handlers"}
Lethal == {"kill_registered", "wipe", "kill_child", "unlink_pid", "raise"}
Leaving == {"cleanup", "unlink_sock", "unlink_pidfile"}
Dropping == {"drop_child", "drop_buffers", "exit"}
Steps == StartUp \cup {"watch"} \cup Lethal \cup Leaving \cup Dropping

Alive(d) == pc[d] \in Steps

\* Its reader threads answer until the process is gone.
Serving(d) == Alive(d) /\ d \in handlers

Running == {p \in Pid : owner[p] # "nothing"}

\* The processes of the user that all daemons and tools run as.
Mine == {p \in Running : owner[p] # "foreign"}

Init ==
    /\ pc = [d \in Daemon |-> "off"]
    /\ how = [d \in Daemon |-> "none"]
    /\ armed = [d \in Daemon |-> FALSE]
    /\ size = [d \in Daemon |-> 0]
    /\ mem = [d \in Daemon |-> <<>>]
    /\ child = [d \in Daemon |-> "none"]
    /\ confined = {}
    /\ handlers = {}
    /\ pending = [d \in Daemon |-> {}]
    /\ registered = [d \in Daemon |-> {}]
    /\ sock = Nobody
    /\ pidfile = NoFile
    /\ linked = {}
    /\ pid = [d \in Daemon |-> 0]
    /\ owner = [p \in Pid |-> "nothing"]
    /\ overlap = {}

-----------------------------------------------------------------------------
(* System calls.  Those named decide about a step (x86_64).                *)

Needs == [step \in Steps |->
    CASE step \in {"args", "create"} -> {"openat"}
      [] step \in {"key", "work"} -> {"prctl", "mmap", "mlock", "madvise"}
      [] step = "child" -> {"clone3", "execve"}
      [] step = "stale" -> {"statx", "unlink"}
      [] step = "bind" -> {"socket", "bind", "listen"}
      [] step \in {"chmod", "chmod_pid"} -> {"chmod"}
      [] step = "write" -> {"write"}
      [] step = "filter" -> {"seccomp"}
      [] step = "handlers" -> {"rt_sigaction", "socketpair", "clone3"}
      [] step = "watch" -> {"futex", "accept4", "clone3", "setsockopt",
                            "fcntl", "recvfrom", "sendto", "write"}
      [] step = "kill_registered" -> {"kill", "write"}
      [] step \in {"wipe", "cleanup"} -> {"write"}
      [] step \in {"kill_child", "drop_child"} -> {"kill", "wait4"}
      [] step \in {"unlink_pid", "unlink_pidfile"} -> {"unlink"}
      [] step = "unlink_sock" -> {"statx", "unlink"}
      [] step = "raise" -> {"getpid", "gettid", "tgkill"}
      [] step = "drop_buffers" -> {"munlock", "munmap"}
      [] step = "exit" -> {"exit_group"}]

Permitted(d) == d \in confined => Needs[pc[d]] \subseteq Allowed

At(d, step) == pc[d] = step /\ Permitted(d)

GoOn(d, step) == pc' = [pc EXCEPT ![d] = step] /\ UNCHANGED how

LeaveBy(d, step, way) ==
    /\ pc' = [pc EXCEPT ![d] = step]
    /\ how' = [how EXCEPT ![d] = way]

\* What the processes D held for themselves ends with them.
Release(D) ==
    /\ armed' = [d \in Daemon |-> d \notin D /\ armed[d]]
    /\ size' = [d \in Daemon |-> IF d \in D THEN 0 ELSE size[d]]
    /\ mem' = [d \in Daemon |-> IF d \in D THEN <<>> ELSE mem[d]]
    /\ child' = [d \in Daemon |-> IF d \in D THEN "none" ELSE child[d]]
    /\ pending' = [d \in Daemon |-> IF d \in D THEN {} ELSE pending[d]]
    /\ registered' = [d \in Daemon |-> IF d \in D THEN {} ELSE registered[d]]
    /\ pid' = [d \in Daemon |-> IF d \in D THEN 0 ELSE pid[d]]
    /\ confined' = confined \ D
    /\ handlers' = handlers \ D
    /\ linked' = linked \ D

\* The process ends at once and its pid is free; the files stay.
Die(d, way) ==
    /\ LeaveBy(d, "gone", way)
    /\ Release({d})
    /\ owner' = [owner EXCEPT ![pid[d]] = "nothing"]
    /\ UNCHANGED <<sock, pidfile, overlap>>

\* An error that `?` passes to main: locals are dropped on the way.
Fail(d) == LeaveBy(d, "drop_child", "error")

-----------------------------------------------------------------------------
(* Start-up.                                                                *)

Start(d) ==
    LET others == {e \in Daemon : Alive(e)} IN
    /\ pc[d] = "off"
    /\ GoOn(d, "args")
    /\ \E p \in Pid \ Running :
        /\ pid' = [pid EXCEPT ![d] = p]
        /\ owner' = [owner EXCEPT ![p] = d]
    /\ \E arm \in BOOLEAN : armed' = [armed EXCEPT ![d] = arm]
    /\ \E exec \in Execs : child' = [child EXCEPT ![d] = exec]
    /\ \E s \in Sizes : size' = [size EXCEPT ![d] = s]
    /\ overlap' = IF others = {} THEN overlap ELSE overlap \cup others \cup {d}
    /\ UNCHANGED <<mem, shieldVars, pending, registered, fileVars>>

\* Arguments are validated and the sink is opened.
CheckArgs(d) ==
    /\ At(d, "args")
    /\ IF size[d] = 0 THEN Fail(d) ELSE GoOn(d, "key")
    /\ UNCHANGED <<memVars, shieldVars, loopVars, fileVars, pidVars>>

\* Maps a buffer of len bytes and writes n bytes of a secret to it, or fails.
MakeBuffer(d, len, n, step) ==
    /\ IF Mappable(len) /\ Fits(NewBuffer(len), n)
       THEN /\ mem' = [mem EXCEPT ![d] =
                          Append(@, Write(NewBuffer(len), n))]
            /\ GoOn(d, step)
       ELSE Fail(d) /\ UNCHANGED mem
    /\ UNCHANGED <<size, child, shieldVars, loopVars, fileVars, pidVars>>

MakeKey(d) == At(d, "key") /\ MakeBuffer(d, KeyLen, KeyData, "work")
MakeWork(d) == At(d, "work") /\ MakeBuffer(d, size[d], WorkData, "child")

SpawnChild(d) ==
    /\ At(d, "child")
    /\ GoOn(d, "stale")
    /\ child' = [child EXCEPT ![d] = IF @ = "wanted" THEN "running" ELSE @]
    /\ UNCHANGED <<size, mem, shieldVars, loopVars, fileVars, pidVars>>

\* Bug: a socket of an earlier run is left alone.
KeepStale(d) ==
    /\ At(d, "stale")
    /\ GoOn(d, "bind")
    /\ UNCHANGED <<memVars, shieldVars, loopVars, fileVars, pidVars>>

RemoveStale(d) ==
    /\ At(d, "stale")
    /\ GoOn(d, "bind")
    /\ sock' = Nobody
    /\ UNCHANGED <<memVars, shieldVars, loopVars, pidfile, linked, pidVars>>

BindSocket(d) ==
    /\ At(d, "bind")
    /\ IF sock = Nobody
       THEN GoOn(d, "chmod") /\ sock' = d
       ELSE Fail(d) /\ UNCHANGED sock
    /\ UNCHANGED <<memVars, shieldVars, loopVars, pidfile, linked, pidVars>>

ChmodSocket(d) ==
    /\ At(d, "chmod")
    /\ IF sock = Nobody THEN Fail(d) ELSE GoOn(d, "create")
    /\ UNCHANGED <<memVars, shieldVars, loopVars, fileVars, pidVars>>

\* Bug: a pidfile that is there is taken for one's own.
KeepPidfile(d) ==
    /\ At(d, "create")
    /\ GoOn(d, "write")
    /\ pidfile' = IF pidfile = NoFile THEN Empty ELSE pidfile
    /\ linked' = IF pidfile = NoFile THEN linked \cup {d} ELSE linked
    /\ UNCHANGED <<memVars, shieldVars, loopVars, sock, pidVars>>

\* Truncates the file that is there, whosever it is.
CreatePidfile(d) ==
    /\ At(d, "create")
    /\ GoOn(d, "write")
    /\ pidfile' = Empty
    /\ linked' = linked \cup {d}
    /\ UNCHANGED <<memVars, shieldVars, loopVars, sock, pidVars>>

\* Nobody sees what is written to a file that has been removed.
WritePid(d) ==
    /\ At(d, "write")
    /\ GoOn(d, "chmod_pid")
    /\ pidfile' = IF d \in linked THEN pid[d] ELSE pidfile
    /\ UNCHANGED <<memVars, shieldVars, loopVars, sock, linked, pidVars>>

ChmodPidfile(d) ==
    /\ At(d, "chmod_pid")
    /\ IF pidfile = NoFile THEN Fail(d) ELSE GoOn(d, "filter")
    /\ linked' = linked \ {d}
    /\ UNCHANGED <<memVars, shieldVars, loopVars, sock, pidfile, pidVars>>

ApplyFilter(d) ==
    /\ At(d, "filter")
    /\ GoOn(d, "handlers")
    /\ confined' = IF Seccomp THEN confined \cup {d} ELSE confined
    /\ UNCHANGED <<memVars, handlers, loopVars, fileVars, pidVars>>

InstallHandlers(d) ==
    /\ At(d, "handlers")
    /\ GoOn(d, "watch")
    /\ handlers' = handlers \cup {d}
    /\ UNCHANGED <<memVars, confined, loopVars, fileVars, pidVars>>

\* Any step of the start-up may be refused by the system.
SetupFails(d) ==
    /\ pc[d] \in StartUp
    /\ Fail(d)
    /\ linked' = linked \ {d}
    /\ UNCHANGED <<memVars, shieldVars, loopVars, sock, pidfile, pidVars>>

-----------------------------------------------------------------------------
(* The watchdog.                                                            *)

\* What the armed flag makes of a trigger.
Trigger(d) ==
    IF armed[d] THEN LeaveBy(d, "kill_registered", "lethal")
                ELSE LeaveBy(d, "cleanup", "clean")

\* The client is lost, or a window expires.
ClientLost(d) ==
    /\ At(d, "watch")
    /\ Trigger(d)
    /\ UNCHANGED <<memVars, shieldVars, loopVars, fileVars, pidVars>>

ClientQuits(d) ==
    /\ At(d, "watch")
    /\ LeaveBy(d, "cleanup", "clean")
    /\ UNCHANGED <<memVars, shieldVars, loopVars, fileVars, pidVars>>

\* SIGUSR1 opens a window, unless it is of no length.
TakeSignal(d) ==
    /\ At(d, "watch")
    /\ \E s \in pending[d] :
        /\ pending' = [pending EXCEPT ![d] = @ \ {s}]
        /\ \/ s = "USR2" /\ Trigger(d)
           \/ s = "USR1" /\ Trigger(d)
           \/ s = "USR1" /\ armed[d] /\ UNCHANGED stepVars
           \/ s = "TERM" /\ LeaveBy(d, "cleanup", "clean")
    /\ UNCHANGED <<memVars, shieldVars, armed, registered, fileVars, pidVars>>

\* Handlers of control connections.
Arm(d) ==
    /\ Serving(d)
    /\ armed' = [armed EXCEPT ![d] = TRUE]
    /\ UNCHANGED <<pending, registered>>

Accepts(d, p) ==
    /\ PidExists(p, Running)
    /\ p \in registered[d] \/ Cardinality(registered[d]) < MaxRegistered

Register(d, p) ==
    /\ Serving(d)
    /\ registered' = IF Accepts(d, p)
                     THEN [registered EXCEPT ![d] = @ \cup {p}]
                     ELSE registered
    /\ UNCHANGED <<armed, pending>>

Unregister(d, p) ==
    /\ Serving(d)
    /\ registered' = [registered EXCEPT ![d] = @ \ {p}]
    /\ UNCHANGED <<armed, pending>>

\* Agents register themselves, or a number that is no pid.
Registrable == {p \in U32 : p \in Pid => owner[p] \notin Daemon}

ControlRequest(d) ==
    /\ \/ Arm(d)
       \/ \E p \in Registrable : Register(d, p)
       \/ \E p \in registered[d] : Unregister(d, p)
    /\ UNCHANGED <<stepVars, memVars, shieldVars, fileVars, pidVars>>

-----------------------------------------------------------------------------
(* The ways out.                                                            *)

KillRegistered(d) ==
    LET hit == UNION {SendSignal(p, Mine) : p \in registered[d]}
        dead == {owner[p] : p \in hit} \cap Daemon
    IN
    /\ At(d, "kill_registered")
    /\ pc' = [e \in Daemon |-> CASE e \in dead -> "gone"
                                 [] e \notin dead /\ e = d -> "wipe"
                                 [] OTHER -> pc[e]]
    /\ how' = [e \in Daemon |-> IF e \in dead THEN "killed" ELSE how[e]]
    /\ owner' = [p \in Pid |-> IF p \in hit THEN "nothing" ELSE owner[p]]
    /\ Release(dead)
    /\ UNCHANGED <<sock, pidfile, overlap>>

WipedBuffers(d) == [i \in DOMAIN mem[d] |-> Wipe(mem[d][i])]

WipeStep(d, step) ==
    /\ GoOn(d, step)
    /\ mem' = [mem EXCEPT ![d] = WipedBuffers(d)]
    /\ UNCHANGED <<size, child, shieldVars, loopVars, fileVars, pidVars>>

WipeBuffers(d) == At(d, "wipe") /\ WipeStep(d, "kill_child")

\* Kill and reap, if there is one.
Killed(d) == [child EXCEPT ![d] = IF @ = "running" THEN "dead" ELSE @]

KillChild(d) ==
    /\ At(d, "kill_child")
    /\ GoOn(d, "unlink_pid")
    /\ child' = Killed(d)
    /\ UNCHANGED <<size, mem, shieldVars, loopVars, fileVars, pidVars>>

RemovePidfile(d, step) ==
    /\ GoOn(d, step)
    /\ pidfile' = NoFile
    /\ linked' = {}
    /\ UNCHANGED <<memVars, shieldVars, loopVars, sock, pidVars>>

\* Bug: the lethal action leaves the pidfile to the clean return.
SkipUnlink(d) ==
    /\ At(d, "unlink_pid")
    /\ GoOn(d, "raise")
    /\ UNCHANGED <<memVars, shieldVars, loopVars, fileVars, pidVars>>

UnlinkPid(d) == At(d, "unlink_pid") /\ RemovePidfile(d, "raise")

RaiseKill(d) ==
    /\ At(d, "raise")
    /\ Die(d, "lethal")

CleanupWipe(d) == At(d, "cleanup") /\ WipeStep(d, "unlink_sock")

UnlinkSocket(d) ==
    /\ At(d, "unlink_sock")
    /\ GoOn(d, "unlink_pidfile")
    /\ sock' = Nobody
    /\ UNCHANGED <<memVars, shieldVars, loopVars, pidfile, linked, pidVars>>

UnlinkPidfile(d) ==
    At(d, "unlink_pidfile") /\ RemovePidfile(d, "drop_child")

\* Bug: only the handle is dropped, the process is let go.
DetachChild(d) ==
    /\ At(d, "drop_child")
    /\ GoOn(d, "drop_buffers")
    /\ UNCHANGED <<memVars, shieldVars, loopVars, fileVars, pidVars>>

DropChild(d) ==
    /\ At(d, "drop_child")
    /\ GoOn(d, "drop_buffers")
    /\ child' = Killed(d)
    /\ UNCHANGED <<size, mem, shieldVars, loopVars, fileVars, pidVars>>

\* Wipes, unlocks and unmaps.
DropBuffers(d) == At(d, "drop_buffers") /\ WipeStep(d, "exit")

Exit(d) == At(d, "exit") /\ Die(d, how[d])

-----------------------------------------------------------------------------
(* Outside.                                                                 *)

\* Without a handler each of the signals ends the process.
Deliver(d, s) ==
    /\ IF d \in handlers
       THEN /\ pending' = [pending EXCEPT ![d] = @ \cup {s}]
            /\ UNCHANGED <<stepVars, memVars, shieldVars, armed, registered,
                           fileVars, pidVars>>
       ELSE Die(d, "unhandled")

\* Anybody may signal a daemon (bound: one signal is taken before the next).
Signalled(d) ==
    /\ Alive(d)
    /\ pending[d] = {}
    /\ \E s \in Signals : Deliver(d, s)

\* SIGKILL, the OOM killer, a crash; or the filter, at a call it denies.
KilledOutside(d) ==
    /\ Alive(d)
    /\ Die(d, IF Permitted(d) THEN "killed" ELSE "denied")

ChildExits(d) ==
    /\ child[d] = "running"
    /\ child' = [child EXCEPT ![d] = "dead"]
    /\ UNCHANGED <<stepVars, size, mem, shieldVars, loopVars, fileVars,
                   pidVars>>

\* Agents of this user and of others come and go, and take pids that are free.
AgentChanges(p) ==
    /\ \E who \in {"agent", "foreign"} :
        \/ owner[p] = "nothing" /\ owner' = [owner EXCEPT ![p] = who]
        \/ owner[p] = who /\ owner' = [owner EXCEPT ![p] = "nothing"]
    /\ UNCHANGED <<stepVars, memVars, shieldVars, loopVars, fileVars, pid,
                   overlap>>

-----------------------------------------------------------------------------
StartUpStep(d) ==
    \/ CheckArgs(d) \/ MakeKey(d) \/ MakeWork(d) \/ SpawnChild(d)
    \/ RemoveStale(d) \/ BindSocket(d) \/ ChmodSocket(d)
    \/ CreatePidfile(d) \/ WritePid(d) \/ ChmodPidfile(d)
    \/ ApplyFilter(d) \/ InstallHandlers(d)

WayOut(d) ==
    \/ KillRegistered(d) \/ WipeBuffers(d) \/ KillChild(d) \/ UnlinkPid(d)
    \/ RaiseKill(d)
    \/ CleanupWipe(d) \/ UnlinkSocket(d) \/ UnlinkPidfile(d)
    \/ DropChild(d) \/ DropBuffers(d) \/ Exit(d)

\* What the main thread does without waiting for anybody.
Work(d) == StartUpStep(d) \/ TakeSignal(d) \/ WayOut(d)

Outside(d) ==
    \/ Start(d) \/ SetupFails(d) \/ ClientLost(d) \/ ClientQuits(d)
    \/ ControlRequest(d) \/ Signalled(d) \/ KilledOutside(d) \/ ChildExits(d)

Next ==
    \/ \E d \in Daemon : Work(d) \/ Outside(d)
    \/ \E p \in Pid : AgentChanges(p)

Spec == Init /\ [][Next]_vars /\ \A d \in Daemon : WF_vars(Work(d))

-----------------------------------------------------------------------------
Buffer ==
    [len : 0 .. UsizeMod - 1, cap : 0 .. UsizeMod - 1,
     secret : SUBSET (0 .. UsizeMod - 1)]

TypeOK ==
    /\ pc \in [Daemon -> Steps \cup {"off", "gone"}]
    /\ how \in [Daemon -> {"none", "clean", "error", "lethal", "killed",
                           "unhandled", "denied"}]
    /\ armed \in [Daemon -> BOOLEAN]
    /\ size \in [Daemon -> 0 .. UsizeMod - 1]
    /\ mem \in [Daemon -> Seq(Buffer)]
    /\ child \in [Daemon -> {"none", "wanted", "running", "dead"}]
    /\ confined \subseteq Daemon
    /\ handlers \subseteq Daemon
    /\ pending \in [Daemon -> SUBSET {"USR1", "USR2", "TERM"}]
    /\ registered \in [Daemon -> SUBSET Pid]
    /\ sock \in Daemon \cup {Nobody}
    /\ pidfile \in Pid \cup {Empty, NoFile}
    /\ linked \subseteq Daemon
    /\ pid \in [Daemon -> Pid \cup {0}]
    /\ owner \in [Pid -> Daemon \cup {"agent", "foreign", "nothing"}]
    /\ overlap \subseteq Daemon

\* A daemon ends on a way of its own: by the lethal action, a clean return or
\* an error, not by the hand of somebody else.
Ends(d) ==
    /\ Alive(d)
    /\ pc'[d] = "gone"
    /\ how'[d] \in {"lethal", "clean", "error"}

\* Whichever of its own ways out a daemon takes, also an error halfway
\* through the start-up, the child it spawned does not outlive it.
ChildDies == [][\A d \in Daemon : Ends(d) => child[d] # "running"]_vars

\* On each of these ways no byte of the secret is in the memory that the
\* kernel gets back.
NoSecretReturned ==
    [][\A d \in Daemon : Ends(d) =>
        \A i \in DOMAIN mem[d] : mem[d][i].secret = {}]_vars

\* The allowlist covers whatever a daemon does after the filter is loaded,
\* on every way out.
NeverDenied == \A d \in Daemon : how[d] # "denied"

\* A daemon that shares its life with no other on the same path can be found
\* through its files as long as it watches, whatever an earlier daemon that
\* was killed, refused or unhandled has left there.
Findable ==
    \A d \in Daemon \ overlap : pc[d] = "watch" =>
        sock = d /\ pidfile = pid[d]

\* Nor does such a daemon ever fail because of what was left.
StaleFilesYield ==
    \A d \in Daemon \ overlap :
        /\ pc[d] = "bind" => sock = Nobody
        /\ pc[d] = "chmod" => sock = d
        /\ pc[d] = "chmod_pid" => pidfile = pid[d]

\* The lethal action and the clean return of such a daemon leave no pidfile
\* that names it, so its pid may go to somebody else.
NoStalePid ==
    [][\A d \in Daemon \ overlap :
        Ends(d) /\ how'[d] # "error" => pidfile' # pid[d]]_vars

\* Only what is registered with a daemon dies of its kill: no other process,
\* and no group of processes, for any number that was ever registered.
OnlyRegisteredDie ==
    [][\A d \in Daemon : KillRegistered(d) =>
        \A p \in Pid \ registered[d] : owner'[p] = owner[p]]_vars

=============================================================================
