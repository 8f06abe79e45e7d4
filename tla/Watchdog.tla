------------------------------ MODULE Watchdog ------------------------------
(***************************************************************************)
(* The watchdog of kikka (rs/crates/kikka/src/lib.rs), from the entry of   *)
(* run_with_listener to its return or to the self-SIGKILL.                 *)
(*                                                                         *)
(* The threads are the main loop, the signal and accept threads, one       *)
(* reader thread for each heartbeat connection and one for each control    *)
(* connection.  They share the event channel, the active and armed flags,  *)
(* the generation source, the list of registered pids and the lifecycle    *)
(* sink.  Each action is one step of one thread between two accesses to    *)
(* shared state (all atomics are SeqCst, the pid list is behind a mutex).  *)
(***************************************************************************)
EXTENDS Integers, Sequences, FiniteSets, PanicController

CONSTANTS
    Client,         \* heartbeat connections; a reconnect is another member
    Control,        \* control connections
    Pid,            \* process ids that may be registered
    NoPid,
    MaxRegistered,  \* MAX_REGISTERED
    MaxControl,     \* MAX_CONTROL
    Graces,         \* is --grace longer than zero: the answers tried
    MaxChan         \* bound: no signal or CANCEL is sent while the channel
                    \* holds this many events (the real channel is unbounded)

ASSUME ConstantsAssumption ==
    /\ IsFiniteSet(Client)
    /\ IsFiniteSet(Control)
    /\ IsFiniteSet(Pid)
    /\ NoPid \notin Pid
    /\ MaxRegistered \in Nat
    /\ MaxControl \in Nat
    /\ Graces \subseteq BOOLEAN
    /\ MaxChan \in Nat

VARIABLES
    grace,          \* the configured grace window is longer than zero
    stop,           \* the dry-run stop flag
    trigger,        \* reason stamped on the records of the running trigger
    end,            \* local of the main loop: why it ended
    currentGen,     \* local of the main loop: the generation believed live
    present,        \* local of the main loop: is a client connected
    armedAtStart,   \* local of run_with_listener
    wiped,          \* the secret buffers are zeroed
    bound,          \* the socket file is on disk
    chan,           \* the mpsc channel of events
    active,         \* the single-client flag
    genSource,      \* the last generation handed out
    conn,           \* phase of each heartbeat connection's reader thread
    gen,            \* generation of each heartbeat connection, 0 before
    ctl,            \* phase of each control connection's reader thread
    asked,          \* the pid a REGISTER handler has validated
    controlCount,   \* in-flight control connections
    registered,     \* the registered pids
    proc,           \* what runs under each pid: an agent, a stranger that got
                    \* the pid later, a process of another user, or nothing
    sink            \* the lifecycle records, oldest first

policyVars == <<armed, fired, deadline, pc>>
mainVars == <<stop, trigger, end, currentGen, present, armedAtStart, wiped>>
heartVars == <<active, genSource, conn, gen>>
ctlVars == <<ctl, asked, controlCount>>
pidVars == <<registered, proc>>
vars == <<policyVars, mainVars, bound, heartVars, ctlVars, pidVars,
          grace, chan, sink>>

-----------------------------------------------------------------------------
(* Events, reasons, records and thread phases.                             *)

Signal == {"SIGUSR1", "SIGUSR2", "SIGTERM"}   \* SIGINT is handled as SIGTERM
Liveness == {"Connected", "HeartbeatLost", "PingTimeout"}
Event == [type : Liveness, gen : Nat]
         \cup [type : {"Cancel", "Quit"} \cup Signal, gen : {0}]
Plain(t) == [type |-> t, gen |-> 0]

Reason == {"shutdown", "client_quit", "heartbeat_lost", "ping_timeout",
           "panic_signal", "hard_panic_signal"}

\* The contents of kill records: the pids stand for their count and for the
\* line logged for each of them.
Record ==
    [event : {"session_start"}, armed : BOOLEAN]
    \cup [event : {"arm"}, via : {"startup", "control"}]
    \cup [event : {"kill"}, target : {"registered", "self"}, reason : Reason,
          executed : BOOLEAN, pids : SUBSET Pid]
    \cup [event : {"wipe", "session_end"}, reason : Reason]

KillRecord(target, executed, pids) ==
    [event |-> "kill", target |-> target, reason |-> trigger,
     executed |-> executed, pids |-> pids]
ReasonRecord(event, reason) == [event |-> event, reason |-> reason]
Emit(r) == sink' = Append(sink, r)

\* Phases of handle_conn and handle_heartbeat.  A phase of Closing has cleared
\* the active flag and has still to send its terminal event.
Holding == {"claimed", "numbered", "live"}
Closing == {"lost", "ping_missed", "quit"}
ConnPhase == {"new", "done"} \cup Holding \cup Closing

\* Phases of handle_control; "refused" was answered BUSY.
Serving == {"serving", "checked", "armed_now"}
CtlPhase == {"new", "refused", "done"} \cup Serving

MainPhase == {"start", "load", "session_start", "arm_startup", "loop",
              "cleanup", "returned", "exited", "dead"}
             \cup KillPath \cup DryPath

\* Threads run until the process is gone; connections are accepted once the
\* accept thread has been spawned.
Alive == pc \notin {"exited", "dead"}
Up == Alive /\ pc # "start"

Room == Len(chan) < MaxChan
Send(e) == chan' = Append(chan, e)

-----------------------------------------------------------------------------

Init ==
    /\ grace \in Graces
    /\ armed \in BOOLEAN
    /\ fired = FALSE
    /\ deadline = "none"
    /\ pc = "start"
    /\ stop = FALSE
    /\ trigger = "shutdown"
    /\ end = "shutdown"
    /\ currentGen = 0
    /\ present = FALSE
    /\ armedAtStart = FALSE
    /\ wiped = FALSE
    /\ bound = TRUE
    /\ chan = <<>>
    /\ active = FALSE
    /\ genSource = 0
    /\ conn = [c \in Client |-> "new"]
    /\ gen = [c \in Client |-> 0]
    /\ ctl = [k \in Control |-> "new"]
    /\ asked = [k \in Control |-> NoPid]
    /\ controlCount = 0
    /\ registered = {}
    /\ proc \in [Pid -> {"agent", "foreign"}]
    /\ sink = <<>>

-----------------------------------------------------------------------------
(* run_with_listener up to its loop.                                       *)

\* Install the signal handlers, spawn the signal and accept threads.
SpawnThreads ==
    /\ pc = "start"
    /\ pc' = "load"
    /\ UNCHANGED <<armed, fired, deadline, mainVars, bound, heartVars,
                   ctlVars, pidVars, grace, chan, sink>>

\* Control connections are already served: ARM may come before this load.
LoadArmed ==
    /\ pc = "load"
    /\ armedAtStart' = armed
    /\ pc' = "session_start"
    /\ UNCHANGED <<armed, fired, deadline, stop, trigger, end, currentGen,
                   present, wiped, bound, heartVars, ctlVars, pidVars,
                   grace, chan, sink>>

RecordSessionStart ==
    /\ pc = "session_start"
    /\ Emit([event |-> "session_start", armed |-> armedAtStart])
    /\ pc' = IF armedAtStart THEN "arm_startup" ELSE "loop"
    /\ UNCHANGED <<armed, fired, deadline, mainVars, bound, heartVars,
                   ctlVars, pidVars, grace, chan>>

RecordArmStartup ==
    /\ pc = "arm_startup"
    /\ Emit([event |-> "arm", via |-> "startup"])
    /\ pc' = "loop"
    /\ UNCHANGED <<armed, fired, deadline, mainVars, bound, heartVars,
                   ctlVars, pidVars, grace, chan>>

-----------------------------------------------------------------------------
(* The main loop.  One iteration checks stop, then takes the next event or, *)
(* when the channel stays empty until the deadline, ticks the controller.   *)

StopSeen ==
    /\ pc = "loop"
    /\ stop
    /\ end' = trigger
    /\ pc' = "cleanup"
    /\ UNCHANGED <<armed, fired, deadline, stop, trigger, currentGen, present,
                   armedAtStart, wiped, bound, heartVars, ctlVars,
                   pidVars, grace, chan, sink>>

Receive(t) ==
    /\ pc = "loop"
    /\ ~stop
    /\ chan # <<>>
    /\ Head(chan).type = t
    /\ chan' = Tail(chan)
    /\ UNCHANGED <<armed, stop, armedAtStart, wiped, bound, heartVars,
                   ctlVars, pidVars, grace, sink>>

OnConnected ==
    /\ Receive("Connected")
    /\ currentGen' = Head(chan).gen
    /\ present' = TRUE
    /\ CancelPanic
    /\ UNCHANGED <<trigger, end>>

\* Bug: the generation is not compared.
CurrentLossAnyGen == present

\* A loss counts only for the generation believed live.
CurrentLoss == present /\ Head(chan).gen = currentGen

OnLoss(t, reason) ==
    /\ Receive(t)
    /\ \/ /\ CurrentLoss
          /\ present' = FALSE
          /\ trigger' = reason
          /\ RequestGraceful(grace)
       \/ /\ ~CurrentLoss
          /\ UNCHANGED <<present, trigger, fired, deadline, pc>>
    /\ UNCHANGED <<currentGen, end>>

OnCancel ==
    /\ Receive("Cancel")
    /\ CancelPanic
    /\ UNCHANGED <<currentGen, present, trigger, end>>

\* Client QUIT, SIGTERM and SIGINT end the loop, a pending panic included.
OnStandDown(t, reason) ==
    /\ Receive(t)
    /\ end' = reason
    /\ pc' = "cleanup"
    /\ UNCHANGED <<fired, deadline, currentGen, present, trigger>>

OnUsr1 ==
    /\ Receive("SIGUSR1")
    /\ trigger' = "panic_signal"
    /\ RequestGraceful(grace)
    /\ UNCHANGED <<currentGen, present, end>>

OnUsr2 ==
    /\ Receive("SIGUSR2")
    /\ trigger' = "hard_panic_signal"
    /\ RequestHard
    /\ UNCHANGED <<currentGen, present, end>>

\* recv_timeout prefers a queued event, so the deadline is looked at only
\* while the channel is empty.
OnTimeout ==
    /\ pc = "loop"
    /\ ~stop
    /\ chan = <<>>
    /\ Tick
    /\ UNCHANGED <<armed, mainVars, bound, heartVars, ctlVars, pidVars,
                   grace, chan, sink>>

Clock ==
    /\ Alive
    /\ GraceExpires
    /\ UNCHANGED <<armed, fired, pc, mainVars, bound, heartVars, ctlVars,
                   pidVars, grace, chan, sink>>

-----------------------------------------------------------------------------
(* The collaborators, each called by the main thread.                       *)

\* SIGKILL to each of P: kill(2) refuses a process of another user (EPERM), and
\* the failure changes nothing but the line logged for the pid.
AfterKill(P) ==
    [p \in Pid |-> IF p \in P /\ proc[p] # "foreign" THEN "gone" ELSE proc[p]]

\* Bug: the closure asks the armed flag as it was at start-up.
KillIfArmedAtStart ==
    /\ pc = "kill_registered"
    /\ proc' = AfterKill(IF armedAtStart THEN registered ELSE {})
    /\ Emit(KillRecord("registered", TRUE, registered))
    /\ pc' = "wipe"
    /\ UNCHANGED <<armed, fired, deadline, mainVars, bound, heartVars,
                   ctlVars, registered, grace, chan>>

\* The closure holds the pid list's lock while it kills and records.  The record
\* counts every registered pid, those the signal did not reach included.
KillRegistered ==
    /\ pc = "kill_registered"
    /\ proc' = AfterKill(registered)
    /\ Emit(KillRecord("registered", TRUE, registered))
    /\ pc' = "wipe"
    /\ UNCHANGED <<armed, fired, deadline, mainVars, bound, heartVars,
                   ctlVars, registered, grace, chan>>

WipeArmed ==
    /\ pc = "wipe"
    /\ wiped' = TRUE
    /\ Emit(ReasonRecord("wipe", trigger))
    /\ pc' = "kill"
    /\ UNCHANGED <<armed, fired, deadline, stop, trigger, end, currentGen,
                   present, armedAtStart, bound, heartVars, ctlVars,
                   pidVars, grace, chan>>

\* The kill closure records, then hands over to the host's lethal action.
RecordSelfKill ==
    /\ pc = "kill"
    /\ Emit(KillRecord("self", TRUE, {}))
    /\ pc' = "lethal"
    /\ UNCHANGED <<armed, fired, deadline, mainVars, bound, heartVars,
                   ctlVars, pidVars, grace, chan>>

WipeDry ==
    /\ pc = "dry_wipe"
    /\ wiped' = TRUE
    /\ Emit(ReasonRecord("wipe", trigger))
    /\ fired' = TRUE
    /\ pc' = "dry_done"
    /\ UNCHANGED <<armed, deadline, stop, trigger, end, currentGen, present,
                   armedAtStart, bound, heartVars, ctlVars, pidVars,
                   grace, chan>>

\* The two would-kill records are one step: nothing reads the sink.
DryDone ==
    /\ pc = "dry_done"
    /\ sink' = sink \o <<KillRecord("registered", FALSE, registered),
                         KillRecord("self", FALSE, {})>>
    /\ stop' = TRUE
    /\ pc' = "loop"
    /\ UNCHANGED <<armed, fired, deadline, trigger, end, currentGen, present,
                   armedAtStart, wiped, bound, heartVars, ctlVars,
                   pidVars, grace, chan>>

\* Bug: the wipe is recorded whether or not a trigger recorded it.
CleanupRecordsTwice ==
    /\ pc = "cleanup"
    /\ wiped' = TRUE
    /\ sink' = sink \o <<ReasonRecord("wipe", end),
                         ReasonRecord("session_end", end)>>
    /\ bound' = FALSE
    /\ pc' = "returned"
    /\ UNCHANGED <<armed, fired, deadline, stop, trigger, end, currentGen,
                   present, armedAtStart, heartVars, ctlVars, pidVars, grace,
                   chan>>

\* Always wipes; the wipe is recorded unless a dry-run trigger recorded it.
Cleanup ==
    /\ pc = "cleanup"
    /\ wiped' = TRUE
    /\ sink' = sink \o (IF fired THEN <<>>
                                 ELSE <<ReasonRecord("wipe", end)>>)
                    \o <<ReasonRecord("session_end", end)>>
    /\ bound' = FALSE
    /\ pc' = "returned"
    /\ UNCHANGED <<armed, fired, deadline, stop, trigger, end, currentGen,
                   present, armedAtStart, heartVars, ctlVars,
                   pidVars, grace, chan>>

\* What the host does with them: SIGKILL itself, or return from main.
Lethal ==
    /\ pc = "lethal"
    /\ pc' = "dead"
    /\ UNCHANGED <<armed, fired, deadline, mainVars, bound, heartVars,
                   ctlVars, pidVars, grace, chan, sink>>

Exit ==
    /\ pc = "returned"
    /\ pc' = "exited"
    /\ UNCHANGED <<armed, fired, deadline, mainVars, bound, heartVars,
                   ctlVars, pidVars, grace, chan, sink>>

-----------------------------------------------------------------------------
(* The heartbeat connection's reader thread.  A connection is "new" until    *)
(* its thread has read HELLO: accepting it and reading the line touch no     *)
(* shared state, and a connection that is never accepted (the accept thread  *)
(* ends at its first error) or closes before a verb stays "new".             *)

\* Bug: the flag was read before it is set, so two threads may both pass.
ClaimUnguarded(c) ==
    /\ Up
    /\ conn[c] = "new"
    /\ conn' = [conn EXCEPT ![c] = "claimed"]
    /\ active' = TRUE
    /\ UNCHANGED <<policyVars, mainVars, bound, genSource, gen, ctlVars,
                   pidVars, grace, chan, sink>>

\* One atomic swap of the active flag: the second client is refused BUSY.
Claim(c) ==
    /\ Up
    /\ conn[c] = "new"
    /\ conn' = [conn EXCEPT ![c] = IF active THEN "done" ELSE "claimed"]
    /\ active' = TRUE
    /\ UNCHANGED <<policyVars, mainVars, bound, genSource, gen, ctlVars,
                   pidVars, grace, chan, sink>>

\* Bug: the value fetch_add returns is used as it is.
NumberOffByOne(c) ==
    /\ Up
    /\ conn[c] = "claimed"
    /\ genSource' = genSource + 1
    /\ gen' = [gen EXCEPT ![c] = genSource]
    /\ conn' = [conn EXCEPT ![c] = "numbered"]
    /\ UNCHANGED <<policyVars, mainVars, bound, active, ctlVars, pidVars,
                   grace, chan, sink>>

Number(c) ==
    /\ Up
    /\ conn[c] = "claimed"
    /\ genSource' = genSource + 1
    /\ gen' = [gen EXCEPT ![c] = genSource + 1]
    /\ conn' = [conn EXCEPT ![c] = "numbered"]
    /\ UNCHANGED <<policyVars, mainVars, bound, active, ctlVars, pidVars,
                   grace, chan, sink>>

Announce(c) ==
    /\ Up
    /\ conn[c] = "numbered"
    /\ Send([type |-> "Connected", gen |-> gen[c]])
    /\ conn' = [conn EXCEPT ![c] = "live"]
    /\ UNCHANGED <<policyVars, mainVars, bound, active, genSource, gen,
                   ctlVars, pidVars, grace, sink>>

\* Bug: a CANCEL is tagged like a liveness event.
ClientCancelTagged(c) ==
    /\ Up
    /\ conn[c] = "live"
    /\ Room
    /\ Send([type |-> "Cancel", gen |-> gen[c]])
    /\ UNCHANGED <<policyVars, mainVars, bound, heartVars, ctlVars,
                   pidVars, grace, sink>>

ClientCancel(c) ==
    /\ Up
    /\ conn[c] = "live"
    /\ Room
    /\ Send(Plain("Cancel"))
    /\ UNCHANGED <<policyVars, mainVars, bound, heartVars, ctlVars,
                   pidVars, grace, sink>>

\* EOF, a read error, an over-long line; a missed ping (never, when no ping
\* timeout is configured); QUIT.  The active flag
\* is cleared here, the event is sent by the next step.
Release(c, phase) ==
    /\ Up
    /\ conn[c] = "live"
    /\ conn' = [conn EXCEPT ![c] = phase]
    /\ active' = FALSE
    /\ UNCHANGED <<policyVars, mainVars, bound, genSource, gen, ctlVars,
                   pidVars, grace, chan, sink>>

Drop(c) == Release(c, "lost")
MissPing(c) == Release(c, "ping_missed")
ClientQuit(c) == Release(c, "quit")

TerminalEvent(c) ==
    CASE conn[c] = "lost" -> [type |-> "HeartbeatLost", gen |-> gen[c]]
      [] conn[c] = "ping_missed" -> [type |-> "PingTimeout", gen |-> gen[c]]
      [] conn[c] = "quit" -> Plain("Quit")

\* Bug: the thread returns without telling the main loop.
SendNothing(c) ==
    /\ Up
    /\ conn[c] \in Closing
    /\ conn' = [conn EXCEPT ![c] = "done"]
    /\ UNCHANGED <<policyVars, mainVars, bound, active, genSource, gen,
                   ctlVars, pidVars, grace, chan, sink>>

SendTerminal(c) ==
    /\ Up
    /\ conn[c] \in Closing
    /\ Send(TerminalEvent(c))
    /\ conn' = [conn EXCEPT ![c] = "done"]
    /\ UNCHANGED <<policyVars, mainVars, bound, active, genSource, gen,
                   ctlVars, pidVars, grace, sink>>

-----------------------------------------------------------------------------
(* A control connection's thread.  STATUS and PING change no state, and     *)
(* neither does a refused or repeated request.  As above, a connection is   *)
(* "new" until its first verb has been read.                                *)

EnterControl(k) ==
    /\ Up
    /\ ctl[k] = "new"
    /\ controlCount' = controlCount + 1
    /\ ctl' = [ctl EXCEPT ![k] = IF controlCount >= MaxControl THEN "refused"
                                                               ELSE "serving"]
    /\ UNCHANGED <<policyVars, mainVars, bound, heartVars, asked, pidVars,
                   grace, chan, sink>>

\* ControlGuard: the count is given back when the handler returns.
LeaveControl(k) ==
    /\ Up
    /\ ctl[k] \in {"refused", "serving"}
    /\ controlCount' = controlCount - 1
    /\ ctl' = [ctl EXCEPT ![k] = "done"]
    /\ UNCHANGED <<policyVars, mainVars, bound, heartVars, asked, pidVars,
                   grace, chan, sink>>

\* REGISTER validates the pid before it takes the lock; a process of another
\* user exists as well (EPERM).
CheckPid(k, p) ==
    /\ Up
    /\ ctl[k] = "serving"
    /\ proc[p] # "gone"
    /\ asked' = [asked EXCEPT ![k] = p]
    /\ ctl' = [ctl EXCEPT ![k] = "checked"]
    /\ UNCHANGED <<policyVars, mainVars, bound, heartVars, controlCount,
                   pidVars, grace, chan, sink>>

\* Bug: the cap was checked with the pid, before the lock was taken.
RegisterUncapped(k) ==
    /\ Up
    /\ ctl[k] = "checked"
    /\ registered' = registered \cup {asked[k]}
    /\ asked' = [asked EXCEPT ![k] = NoPid]
    /\ ctl' = [ctl EXCEPT ![k] = "serving"]
    /\ UNCHANGED <<policyVars, mainVars, bound, heartVars, controlCount,
                   proc, grace, chan, sink>>

\* Under the lock: idempotent, and BUSY at the cap.
Register(k) ==
    /\ Up
    /\ ctl[k] = "checked"
    /\ registered' = IF Cardinality(registered) < MaxRegistered
                     THEN registered \cup {asked[k]} ELSE registered
    /\ asked' = [asked EXCEPT ![k] = NoPid]
    /\ ctl' = [ctl EXCEPT ![k] = "serving"]
    /\ UNCHANGED <<policyVars, mainVars, bound, heartVars, controlCount,
                   proc, grace, chan, sink>>

Unregister(k, p) ==
    /\ Up
    /\ ctl[k] = "serving"
    /\ p \in registered
    /\ registered' = registered \ {p}
    /\ UNCHANGED <<policyVars, mainVars, bound, heartVars, ctlVars, proc,
                   grace, chan, sink>>

Arm(k) ==
    /\ Up
    /\ ctl[k] = "serving"
    /\ ~armed
    /\ armed' = TRUE
    /\ ctl' = [ctl EXCEPT ![k] = "armed_now"]
    /\ UNCHANGED <<fired, deadline, pc, mainVars, bound, heartVars, asked,
                   controlCount, pidVars, grace, chan, sink>>

RecordArm(k) ==
    /\ Up
    /\ ctl[k] = "armed_now"
    /\ Emit([event |-> "arm", via |-> "control"])
    /\ ctl' = [ctl EXCEPT ![k] = "serving"]
    /\ UNCHANGED <<policyVars, mainVars, bound, heartVars, asked,
                   controlCount, pidVars, grace, chan>>

-----------------------------------------------------------------------------
(* The world outside: signals, and the processes behind the pids.           *)

SignalArrives(s) ==
    /\ Up
    /\ Room
    /\ Send(Plain(s))
    /\ UNCHANGED <<policyVars, mainVars, bound, heartVars, ctlVars,
                   pidVars, grace, sink>>

\* A process ends by itself; its pid may be given to a stranger of this user,
\* who stays (a bound), or to another process of somebody else.
ProcessEnds(p) ==
    /\ Alive
    /\ proc[p] \in {"agent", "foreign"}
    /\ proc' = [proc EXCEPT ![p] = "gone"]
    /\ UNCHANGED <<policyVars, mainVars, bound, heartVars, ctlVars,
                   registered, grace, chan, sink>>

PidReused(p) ==
    /\ Alive
    /\ proc[p] = "gone"
    /\ \E other \in {"stranger", "foreign"} : proc' = [proc EXCEPT ![p] = other]
    /\ UNCHANGED <<policyVars, mainVars, bound, heartVars, ctlVars,
                   registered, grace, chan, sink>>

\* Nothing runs any more.
Halted == ~Alive /\ UNCHANGED vars

-----------------------------------------------------------------------------

\* Steps of the main thread in the loop, and in the calls it makes.
LoopStep ==
    \/ StopSeen
    \/ OnConnected
    \/ OnLoss("HeartbeatLost", "heartbeat_lost")
    \/ OnLoss("PingTimeout", "ping_timeout")
    \/ OnCancel
    \/ OnStandDown("Quit", "client_quit")
    \/ OnStandDown("SIGTERM", "shutdown")
    \/ OnUsr1
    \/ OnUsr2
    \/ OnTimeout

CallStep ==
    \/ KillRegistered \/ WipeArmed \/ RecordSelfKill
    \/ WipeDry \/ DryDone \/ Cleanup

BootStep ==
    SpawnThreads \/ LoadArmed \/ RecordSessionStart \/ RecordArmStartup

MainStep == BootStep \/ LoopStep \/ CallStep

\* Steps a reader thread takes by itself, whatever its client does.
ReaderStep(c) == Number(c) \/ Announce(c) \/ SendTerminal(c)

ClientStep(c) ==
    \/ Claim(c)
    \/ ClientCancel(c)
    \/ Drop(c) \/ MissPing(c) \/ ClientQuit(c)

ControlStep(k) ==
    \/ EnterControl(k) \/ LeaveControl(k)
    \/ \E p \in Pid : CheckPid(k, p) \/ Unregister(k, p)
    \/ Register(k)
    \/ Arm(k) \/ RecordArm(k)

WorldStep ==
    \/ \E s \in Signal : SignalArrives(s)
    \/ \E p \in Pid : ProcessEnds(p) \/ PidReused(p)

\* Everything but the host's part, so that a host can be composed with it.
KikkaStep ==
    \/ MainStep
    \/ Clock
    \/ \E c \in Client : ReaderStep(c) \/ ClientStep(c)
    \/ \E k \in Control : ControlStep(k)
    \/ WorldStep

Next == KikkaStep \/ Lethal \/ Exit \/ Halted

\* The main thread is never blocked for good while it has an event or a
\* deadline; reader threads are scheduled; time passes.  Nothing is assumed of
\* clients, signals and processes.
Fairness ==
    /\ WF_vars(MainStep \/ Lethal \/ Exit)
    /\ WF_vars(Clock)
    /\ \A c \in Client : WF_vars(ReaderStep(c))

Spec == Init /\ [][Next]_vars
FairSpec == Spec /\ Fairness

-----------------------------------------------------------------------------
(* Properties.                                                             *)

\* Every variable holds a value of its type.
TypeOK ==
    /\ grace \in BOOLEAN
    /\ armed \in BOOLEAN
    /\ fired \in BOOLEAN
    /\ deadline \in Deadline
    /\ pc \in MainPhase
    /\ stop \in BOOLEAN
    /\ trigger \in Reason
    /\ end \in Reason
    /\ currentGen \in Nat
    /\ present \in BOOLEAN
    /\ armedAtStart \in BOOLEAN
    /\ wiped \in BOOLEAN
    /\ bound \in BOOLEAN
    /\ chan \in Seq(Event)
    /\ active \in BOOLEAN
    /\ genSource \in Nat
    /\ conn \in [Client -> ConnPhase]
    /\ gen \in [Client -> Nat]
    /\ ctl \in [Control -> CtlPhase]
    /\ asked \in [Control -> Pid \cup {NoPid}]
    /\ \A k \in Control : ctl[k] = "checked" => asked[k] \in Pid
    /\ controlCount \in Int
    /\ registered \subseteq Pid
    /\ proc \in [Pid -> {"agent", "foreign", "gone", "stranger"}]
    /\ sink \in Seq(Record)

Holder(c) == conn[c] \in Holding

\* The single-client policy: the active flag is up exactly while one reader
\* thread holds the heartbeat, that thread has the newest generation, and no
\* two connections ever share one.
SingleHolder ==
    /\ active <=> \E c \in Client : Holder(c)
    /\ \A c, d \in Client : Holder(c) /\ Holder(d) => c = d
    /\ \A c \in Client : conn[c] \in {"numbered", "live"} => gen[c] = genSource
    /\ \A c, d \in Client : gen[c] = gen[d] /\ gen[c] # 0 => c = d

\* Threads may reorder a loss and the next connection, but the channel delivers
\* connections oldest first, each newer than the one the main loop believes in,
\* and never a loss ahead of its own connection.
GenerationsInOrder ==
    \A i \in 1..Len(chan) :
        chan[i].type = "Connected" =>
            /\ chan[i].gen > currentGen
            /\ chan[i].gen <= genSource
            /\ \A j \in 1..(i - 1) :
                   /\ chan[j].type = "Connected" => chan[j].gen < chan[i].gen
                   /\ chan[j].type \in Liveness => chan[j].gen # chan[i].gen

Announced(c) ==
    \E i \in 1..Len(chan) : chan[i] = [type |-> "Connected", gen |-> gen[c]]

Loss == {"HeartbeatLost", "PingTimeout"}

LiveIsBelieved ==
    \A c \in Client :
        conn[c] = "live" /\ ~Announced(c) => present /\ currentGen = gen[c]
AlarmIsNotLoss ==
    present /\ (deadline # "none" \/ pc \in KillPath) =>
        trigger \in {"panic_signal", "hard_panic_signal"}

\* A live client is never taken for lost, whatever losses of earlier
\* connections are still on their way: once the main loop has taken its
\* connection, the client is the one it believes in, and an open grace window
\* or a running kill is not about its heartbeat.
NoFalseAlarm == LiveIsBelieved /\ AlarmIsNotLoss

LossQueued(c) ==
    \E i \in 1..Len(chan) :
        \/ chan[i].type \in Loss /\ chan[i].gen = gen[c]
        \/ chan[i].type = "Quit"

\* The main loop never believes in a client that is gone without the news of
\* it being on its way.
NoMissedLoss ==
    pc = "loop" /\ present =>
        \E c \in Client :
            /\ gen[c] = currentGen
            /\ conn[c] = "live" \/ conn[c] \in Closing \/ LossQueued(c)

\* The records of the end, the rank of each among them, and what one says
\* happened.
EndEvent == {"kill", "wipe", "session_end"}
Ending(s) == {i \in DOMAIN s : s[i].event \in EndEvent}
Rank(s, i) == Cardinality({j \in Ending(s) : j <= i})
Story(r) == IF r.event = "kill" THEN <<r.event, r.target, r.executed>>
                                ELSE <<r.event>>

KillStory == << <<"kill", "registered", TRUE>>, <<"wipe">>,
                <<"kill", "self", TRUE>> >>
DryStory == << <<"wipe">>, <<"kill", "registered", FALSE>>,
               <<"kill", "self", FALSE>>, <<"session_end">> >>
CleanStory == << <<"wipe">>, <<"session_end">> >>

\* The records tell the beginning of a story, or all of it, and nothing else.
Tells(s, story) ==
    \A i \in Ending(s) :
        Rank(s, i) <= Len(story) /\ Story(s[i]) = story[Rank(s, i)]
TellsAll(s, story) == Tells(s, story) /\ Cardinality(Ending(s)) = Len(story)

\* However many triggers race, the sink tells of one run of one sequence, for
\* one reason, and tells all of it when the process is gone.
OneStory ==
    /\ \E story \in {KillStory, DryStory, CleanStory} : Tells(sink, story)
    /\ \A i, j \in Ending(sink) : sink[i].reason = sink[j].reason
    /\ pc = "dead" => TellsAll(sink, KillStory)
    /\ pc \in {"returned", "exited"} =>
           TellsAll(sink, DryStory) \/ TellsAll(sink, CleanStory)

\* What the sink says has happened has: no agent recorded as killed lives on,
\* buffers recorded as wiped are zero, and nothing is executed unarmed.  It says
\* nothing of the processes of other users, which the record counts as well and
\* which live on.
SinkIsTrue ==
    \A i \in 1..Len(sink) :
        LET r == sink[i] IN
        /\ r.event = "kill" /\ r.executed =>
               armed /\ \A p \in r.pids : proc[p] # "agent"
        /\ r.event = "wipe" => wiped
        /\ r.event = "arm" => armed

\* The caps hold whatever handlers interleave: the pid list after its check
\* outside the lock, and the served control connections, whose count is given
\* back exactly once by each.
CapsHold ==
    /\ Cardinality(registered) <= MaxRegistered
    /\ Cardinality({k \in Control : ctl[k] \in Serving}) <= MaxControl
    /\ controlCount = Cardinality({k \in Control :
                                       ctl[k] \in Serving \cup {"refused"}})

\* From the moment a heartbeat is lost, either the secret goes or a newer
\* client takes over, provided that signals stop arriving.
SignalsCease == <>[][~\E s \in Signal : SignalArrives(s)]_vars
LossAnswered ==
    SignalsCease =>
        \A c \in Client : conn[c] \in {"lost", "ping_missed"}
                          ~> (wiped \/ genSource > gen[c])

\* The abstract promise, with the program counter mapped to its phases.
Phase ==
    CASE pc = "kill_registered" -> "condemned"
      [] pc \in {"wipe", "kill", "lethal"} -> "avenged"
      [] pc = "dead" -> "dead"
      [] pc \in DryPath \cup {"cleanup", "returned"} -> "leaving"
      [] pc = "loop" /\ stop -> "leaving"
      [] pc = "exited" -> "departed"
      [] OTHER -> "guarding"

Switch == INSTANCE KillSwitch WITH phase <- Phase, protected <- registered

\* The watchdog implements the dead man's switch: only an armed switch kills,
\* the protected die before the secret and the secret before the process, and
\* a switch that has set out goes all the way.
KeepsPromise == Switch!Spec

\* Its safety part: no step of the watchdog is one the switch may not take.
SafePromise == Switch!Safety

-----------------------------------------------------------------------------
(* Statements of the documentation.                                        *)

\* docs/src/reference/protocol.md:16: only a reconnect after a real loss
\* cancels an armed grace window.
ReconnectCancels ==
    [][ deadline # "none" /\ deadline' = "none" /\ ~fired' =>
            trigger \in {"heartbeat_lost", "ping_timeout"}
            /\ present' /\ currentGen' > currentGen ]_vars

\* docs/src/reference/mcp-tools.md:15: a registered pid is SIGKILLed by the
\* daemon on any armed trigger.
RegisteredDie ==
    pc = "dead" => \A p \in registered : proc[p] # "agent"

=============================================================================
