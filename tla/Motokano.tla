------------------------------ MODULE Motokano ------------------------------
(***************************************************************************)
(* motokano (rs/crates/motokano): an MCP server that serves N tool calls,  *)
(* wipes its secrets and ends its own process.                             *)
(*                                                                         *)
(* The threads are the main thread (serving, then the disconnect path),    *)
(* the call handlers on the tokio runtime, the monitor of the link to a    *)
(* dazai daemon, and the thread a call spawns when it fires the counter.   *)
(* Main, monitor and counter thread all end in wipe_and_exit.  They share  *)
(* the counter, the closed flag, the tool registry (behind a mutex), the   *)
(* EXITING flag and the lifecycle sink.  An action is one step of one      *)
(* thread between two accesses to shared state (all atomics are SeqCst).   *)
(***************************************************************************)
EXTENDS Integers, Sequences, FiniteSets

CONSTANTS
    Call,       \* tool calls the client may make
    Static,     \* tools that serve a value held in a SecretBuffer
    Exec,       \* tools that run a command
    N,          \* --calls
    Dispatch    \* how many calls the MCP library may run at the same time;
                \* {1} if its dispatch is sequential, as server.rs says it is

ASSUME MotokanoAssumption ==
    /\ IsFiniteSet(Call)
    /\ Static \cap Exec = {}
    /\ N \in Nat
    /\ Dispatch \subseteq Nat \ {0}

VARIABLES
    mode,       \* CounterMode
    linked,     \* registered with a dazai daemon
    arm,        \* --arm
    inFlight,   \* the calls that may run at the same time
    remaining,  \* counter: calls left
    fired,      \* counter: has it answered true
    closed,     \* serve nothing more
    exiting,    \* the EXITING flag of wipe_and_exit
    wiped,      \* the SecretBuffers are zeroed
    main,       \* what the main thread does before wipe_and_exit
    exit,       \* each thread's way through wipe_and_exit
    call,       \* phase of each call's handler
    tool,       \* the tool a call has resolved
    seen,       \* local of decrement: the value a call has loaded
    life,       \* how the process ended, or "running"
    sink        \* the lifecycle records, oldest first

counterVars == <<remaining, fired, seen>>
exitVars == <<exiting, wiped, exit>>
config == <<mode, linked, arm, inFlight>>
vars == <<config, counterVars, closed, exitVars, main, call, tool, life, sink>>

Tool == Static \cup Exec
Thread == {"main", "monitor", "counter"}
CountsCalls == mode \in {"calls", "either"}
Alive == life = "running"

\* Between admission and the answer.
Working == {"admitted", "running", "ready", "recorded", "loaded", "zeroed",
            "won"}
CallPhase == {"new", "refused", "failed", "served", "last"} \cup Working
ExitPhase == {"idle", "called", "parked", "entered", "unregistering",
              "flushing", "wiped", "told", "leaving"}

ReasonOf(t) == CASE t = "main" -> "client_disconnect"
                 [] t = "monitor" -> "daemon_lost"
                 [] t = "counter" -> "calls_exhausted"

ReadRecord(t, served) == [event |-> "read", tool |-> t, served |-> served]
EndRecord(event, t) == [event |-> event, reason |-> ReasonOf(t)]
Emit(r) == sink' = Append(sink, r)

-----------------------------------------------------------------------------

\* run, up to the point where the monitor runs and the runtime is built.
Init ==
    /\ mode \in {"calls", "session", "either"}
    /\ linked \in BOOLEAN
    /\ arm \in BOOLEAN
    /\ inFlight \in Dispatch
    /\ remaining = IF mode = "session" THEN 0 ELSE N
    /\ fired = FALSE
    /\ closed = FALSE
    /\ exiting = FALSE
    /\ wiped = FALSE
    /\ main = "starting"
    /\ exit = [t \in Thread |-> "idle"]
    /\ call = [c \in Call |-> "new"]
    /\ tool \in [Call -> Tool]
    /\ seen = [c \in Call |-> 0]
    /\ life = "running"
    /\ sink = <<[event |-> "session_start", armed |-> arm]>>
              \o (IF arm THEN <<[event |-> "arm", via |-> "startup"]>>
                         ELSE <<>>)

Goto(c, phase) == call' = [call EXCEPT ![c] = phase]
Step(t, from, to) == exit[t] = from /\ exit' = [exit EXCEPT ![t] = to]

-----------------------------------------------------------------------------
(* A tool call.                                                            *)

Busy == {c \in Call : call[c] \in Working}

\* The handler starts and reads the closed flag.  A call for an unknown tool
\* or a listing of the tools changes nothing.
Admit(c) ==
    /\ Alive
    /\ main = "serving"
    /\ call[c] = "new"
    /\ Cardinality(Busy) < inFlight
    /\ ~closed
    /\ Goto(c, "admitted")
    /\ UNCHANGED <<config, counterVars, closed, exitVars, main, tool, life,
                   sink>>

\* closed stays TRUE, so reading it and recording are one step.
Refuse(c) ==
    /\ Alive
    /\ main = "serving"
    /\ call[c] = "new"
    /\ Cardinality(Busy) < inFlight
    /\ closed
    /\ Goto(c, "refused")
    /\ Emit(ReadRecord(tool[c], FALSE))
    /\ UNCHANGED <<config, counterVars, closed, exitVars, main, tool, life>>

\* Under the registry's lock: a static value is copied out, an exec command is
\* started, to be awaited without the lock.
Resolve(c) ==
    /\ Alive
    /\ call[c] = "admitted"
    /\ Goto(c, IF tool[c] \in Static THEN "ready" ELSE "running")
    /\ UNCHANGED <<config, counterVars, closed, exitVars, main, tool, life,
                   sink>>

CommandEnds(c) ==
    /\ Alive
    /\ call[c] = "running"
    /\ Goto(c, "ready")
    /\ UNCHANGED <<config, counterVars, closed, exitVars, main, tool, life,
                   sink>>

\* The command cannot be started.
CommandFails(c) ==
    /\ Alive
    /\ call[c] = "running"
    /\ Goto(c, "failed")
    /\ Emit(ReadRecord(tool[c], FALSE))
    /\ UNCHANGED <<config, counterVars, closed, exitVars, main, tool, life>>

\* decrement returns at once when calls are not counted.
RecordRead(c) ==
    /\ Alive
    /\ call[c] = "ready"
    /\ Emit(ReadRecord(tool[c], TRUE))
    /\ Goto(c, IF CountsCalls THEN "recorded" ELSE "served")
    /\ UNCHANGED <<config, counterVars, closed, exitVars, main, tool, life>>

\* Bug: the value zero is not treated apart.
LoadAnything(c) ==
    /\ Alive
    /\ call[c] = "recorded"
    /\ seen' = [seen EXCEPT ![c] = remaining]
    /\ Goto(c, "loaded")
    /\ UNCHANGED <<config, remaining, fired, closed, exitVars, main, tool,
                   life, sink>>

Load(c) ==
    /\ Alive
    /\ call[c] = "recorded"
    /\ seen' = [seen EXCEPT ![c] = remaining]
    /\ Goto(c, IF remaining = 0 THEN "served" ELSE "loaded")
    /\ UNCHANGED <<config, remaining, fired, closed, exitVars, main, tool,
                   life, sink>>

\* Bug: the value is stored without comparing it again.
StoreBlindly(c) ==
    /\ Alive
    /\ call[c] = "loaded"
    /\ remaining' = seen[c] - 1
    /\ Goto(c, IF seen[c] = 1 THEN "zeroed" ELSE "served")
    /\ UNCHANGED <<config, fired, seen, closed, exitVars, main, tool, life,
                   sink>>

\* compare_exchange; on contention the loop starts over.
Exchange(c) ==
    /\ Alive
    /\ call[c] = "loaded"
    /\ \/ /\ remaining = seen[c]
          /\ remaining' = seen[c] - 1
          /\ Goto(c, IF seen[c] = 1 THEN "zeroed" ELSE "served")
       \/ /\ remaining # seen[c]
          /\ Goto(c, "recorded")
          /\ UNCHANGED remaining
    /\ UNCHANGED <<config, fired, seen, closed, exitVars, main, tool, life,
                   sink>>

\* The call that brought the counter to zero swaps the fired flag.
FireByCalls(c) ==
    /\ Alive
    /\ call[c] = "zeroed"
    /\ fired' = TRUE
    /\ Goto(c, IF fired THEN "served" ELSE "won")
    /\ UNCHANGED <<config, remaining, seen, closed, exitVars, main, tool,
                   life, sink>>

\* Bug: only the spawned thread closes the server.
SpawnOnly(c) ==
    /\ Alive
    /\ call[c] = "won"
    /\ Step("counter", "idle", "called")
    /\ Goto(c, "last")
    /\ UNCHANGED <<config, counterVars, closed, exiting, wiped, main, tool,
                   life, sink>>

\* Close, spawn the exit thread, answer.
CloseAndSpawn(c) ==
    /\ Alive
    /\ call[c] = "won"
    /\ closed' = TRUE
    /\ Step("counter", "idle", "called")
    /\ Goto(c, "last")
    /\ UNCHANGED <<config, counterVars, exiting, wiped, main, tool, life,
                   sink>>

-----------------------------------------------------------------------------
(* The main thread, the monitor and the daemon behind it.                  *)

Serve ==
    /\ Alive
    /\ main = "starting"
    /\ main' = "serving"
    /\ UNCHANGED <<config, counterVars, closed, exitVars, call, tool, life,
                   sink>>

\* The MCP handshake fails: run returns the error past wipe_and_exit.
ServeFails ==
    /\ Alive
    /\ main = "starting"
    /\ main' = "failed"
    /\ UNCHANGED <<config, counterVars, closed, exitVars, call, tool, life,
                   sink>>

\* run's locals are dropped, and with them the registry, unless the monitor
\* thread still holds it.
DropLocals ==
    /\ Alive
    /\ main = "failed"
    /\ main' = "dropped"
    /\ wiped' = (wiped \/ ~linked)
    /\ UNCHANGED <<config, counterVars, closed, exiting, exit, call, tool,
                   life, sink>>

\* main reports the error and returns.
ReturnError ==
    /\ Alive
    /\ main = "dropped"
    /\ life' = "failed"
    /\ UNCHANGED <<config, counterVars, closed, exitVars, main, call, tool,
                   sink>>

\* Standard input ends.
Disconnect ==
    /\ Alive
    /\ main = "serving"
    /\ main' = "disconnected"
    /\ UNCHANGED <<config, counterVars, closed, exitVars, call, tool, life,
                   sink>>

\* Bug: the answer of on_disconnect decides whether to exit.
ExitIfFired ==
    /\ Alive
    /\ main = "disconnected"
    /\ main' = "done"
    /\ fired' = (fired \/ mode \in {"session", "either"})
    /\ exit' = [exit EXCEPT !["main"] = IF fired' /\ ~fired THEN "called"
                                                            ELSE "idle"]
    /\ UNCHANGED <<config, remaining, seen, closed, exiting, wiped, call,
                   tool, life, sink>>

\* on_disconnect, whose answer is ignored, and the call of wipe_and_exit.
OnDisconnect ==
    /\ Alive
    /\ main = "disconnected"
    /\ main' = "done"
    /\ fired' = (fired \/ mode \in {"session", "either"})
    /\ Step("main", "idle", "called")
    /\ UNCHANGED <<config, remaining, seen, closed, exiting, wiped, call,
                   tool, life, sink>>

\* The monitor reads EOF, or no PONG in time.
DaemonLost ==
    /\ Alive
    /\ linked
    /\ Step("monitor", "idle", "called")
    /\ UNCHANGED <<config, counterVars, closed, exiting, wiped, main, call,
                   tool, life, sink>>

\* An armed daemon kills the pids registered with it.
DaemonKills ==
    /\ Alive
    /\ linked
    /\ life' = "killed"
    /\ UNCHANGED <<config, counterVars, closed, exitVars, main, call, tool,
                   sink>>

-----------------------------------------------------------------------------
(* wipe_and_exit.                                                          *)

\* Bug: the flag is set and its old value not looked at.
EnterAlways(t) ==
    /\ Alive
    /\ Step(t, "called", "entered")
    /\ exiting' = TRUE
    /\ UNCHANGED <<config, counterVars, closed, wiped, main, call, tool, life,
                   sink>>

\* The first thread to swap the flag goes on, the others park for good.
Enter(t) ==
    /\ Alive
    /\ Step(t, "called", IF exiting THEN "parked" ELSE "entered")
    /\ exiting' = TRUE
    /\ UNCHANGED <<config, counterVars, closed, wiped, main, call, tool, life,
                   sink>>

StopServing(t) ==
    /\ Alive
    /\ Step(t, "entered", IF linked THEN "unregistering" ELSE "flushing")
    /\ closed' = TRUE
    /\ UNCHANGED <<config, counterVars, exiting, wiped, main, call, tool,
                   life, sink>>

\* A connection of its own, on a blocking socket: connect(2) may wait for room in
\* the backlog of a daemon that hangs.  That it is refused or fails is ignored.
Unregister(t) ==
    /\ Alive
    /\ Step(t, "unregistering", "flushing")
    /\ UNCHANGED <<config, counterVars, closed, exiting, wiped, main, call,
                   tool, life, sink>>

\* Bug: the wipe is left to Drop, which neither SIGKILL nor exit runs.
WipeByDrop(t) ==
    /\ Alive
    /\ Step(t, "flushing", "wiped")
    /\ UNCHANGED <<config, counterVars, closed, exiting, wiped, main, call,
                   tool, life, sink>>

\* After the flush window and the grace window, under the lock.
Wipe(t) ==
    /\ Alive
    /\ Step(t, "flushing", "wiped")
    /\ wiped' = TRUE
    /\ UNCHANGED <<config, counterVars, closed, exiting, main, call, tool,
                   life, sink>>

RecordWipe(t) ==
    /\ Alive
    /\ Step(t, "wiped", "told")
    /\ Emit(EndRecord("wipe", t))
    /\ UNCHANGED <<config, counterVars, closed, exiting, wiped, main, call,
                   tool, life>>

RecordEnd(t) ==
    /\ Alive
    /\ Step(t, "told", "leaving")
    /\ Emit(EndRecord(IF arm THEN "kill" ELSE "session_end", t))
    /\ UNCHANGED <<config, counterVars, closed, exiting, wiped, main, call,
                   tool, life>>

\* raise(SIGKILL) or exit(0).
Leave(t) ==
    /\ Alive
    /\ exit[t] = "leaving"
    /\ life' = IF arm THEN "dead" ELSE "exited"
    /\ UNCHANGED <<config, counterVars, closed, exitVars, main, call, tool,
                   sink>>

-----------------------------------------------------------------------------

\* Steps a handler takes by itself.
HandlerStep(c) ==
    \/ Resolve(c) \/ RecordRead(c) \/ Load(c) \/ Exchange(c)
    \/ FireByCalls(c) \/ CloseAndSpawn(c)

CallStep(c) ==
    Admit(c) \/ Refuse(c) \/ CommandEnds(c) \/ CommandFails(c) \/ HandlerStep(c)

\* Steps of wipe_and_exit that wait for nobody.
OwnExitStep(t) ==
    \/ Enter(t) \/ StopServing(t) \/ Wipe(t)
    \/ RecordWipe(t) \/ RecordEnd(t) \/ Leave(t)

ExitStep(t) == OwnExitStep(t) \/ Unregister(t)

MainStep ==
    \/ Serve \/ ServeFails \/ DropLocals \/ ReturnError
    \/ Disconnect \/ OnDisconnect

\* Nothing runs any more.
Halted == ~Alive /\ UNCHANGED vars

Next ==
    \/ \E c \in Call : CallStep(c)
    \/ MainStep
    \/ DaemonLost \/ DaemonKills
    \/ \E t \in Thread : ExitStep(t)
    \/ Halted

\* The process's own threads are scheduled and its sleeps end.  Nothing is
\* assumed of the client, of commands and of the daemon.
Fairness ==
    /\ \A c \in Call : WF_vars(HandlerStep(c))
    /\ WF_vars(OnDisconnect)
    /\ \A t \in Thread : WF_vars(OwnExitStep(t))

Spec == Init /\ [][Next]_vars
FairSpec == Spec /\ Fairness

-----------------------------------------------------------------------------
(* Properties.                                                             *)

Record ==
    [event : {"session_start"}, armed : BOOLEAN]
    \cup [event : {"arm"}, via : {"startup"}]
    \cup [event : {"read"}, tool : Tool, served : BOOLEAN]
    \cup [event : {"wipe", "kill", "session_end"},
          reason : {ReasonOf(t) : t \in Thread}]

\* Every variable holds a value of its type.
TypeOK ==
    /\ mode \in {"calls", "session", "either"}
    /\ linked \in BOOLEAN
    /\ arm \in BOOLEAN
    /\ inFlight \in Dispatch
    /\ remaining \in Nat
    /\ fired \in BOOLEAN
    /\ closed \in BOOLEAN
    /\ exiting \in BOOLEAN
    /\ wiped \in BOOLEAN
    /\ main \in {"starting", "serving", "failed", "dropped", "disconnected",
                 "done"}
    /\ exit \in [Thread -> ExitPhase]
    /\ call \in [Call -> CallPhase]
    /\ tool \in [Call -> Tool]
    /\ seen \in [Call -> Nat]
    /\ life \in {"running", "dead", "exited", "failed", "killed"}
    /\ sink \in Seq(Record)

Served == {c \in Call : call[c] \in {"recorded", "loaded", "zeroed", "won",
                                     "served", "last"}}
Counted == {c \in Call : call[c] \in {"zeroed", "won", "served", "last"}}
Winners == {c \in Call : call[c] \in {"won", "last"}}

\* The one-shot guarantee: when handlers run one at a time, a server that counts
\* to N never gives out more than N reads, also when a disconnect has fired the
\* counter first.  It rests on the dispatch: with two handlers at a time, a call
\* may pass the check of closed while another one has counted the N-th and has
\* not closed the server yet.
ServesAtMost ==
    CountsCalls /\ N > 0 /\ inFlight = 1 => Cardinality(Served) <= N

\* The counter loses no call and never goes below zero, and at most one call
\* fires it, the one that brought it to zero.
CounterIsExact ==
    /\ CountsCalls /\ remaining > 0 =>
           remaining = N - Cardinality(Counted)
    /\ CountsCalls /\ remaining = 0 => Cardinality(Counted) >= N
    /\ Cardinality(Winners) <= 1
    /\ Winners # {} => fired /\ remaining = 0

\* Where the sink tells of the end.
Ends == {i \in DOMAIN sink : sink[i].event \in {"wipe", "kill", "session_end"}}

\* Three threads may ask for the end at once: the sink tells of one wipe and
\* then one end, for the same reason, and the process ends itself only when
\* it has wiped and told both.
OneExit ==
    /\ \A i, j \in Ends :
           /\ sink[i].reason = sink[j].reason
           /\ i < j => /\ sink[i].event = "wipe"
                       /\ sink[j].event = IF arm THEN "kill" ELSE "session_end"
    /\ Ends # {} => wiped /\ \E i \in Ends : sink[i].event = "wipe"
    /\ life \in {"dead", "exited"} => \E i, j \in Ends : i < j

\* Reads given out, and wipes.
Reads == {i \in DOMAIN sink : sink[i].event = "read" /\ sink[i].served}
Wipes == {i \in DOMAIN sink : sink[i].event = "wipe"}

\* When handlers run one at a time, the wipe that the counter has scheduled
\* comes after every read in the sink: each read is on record before its call
\* is counted, and nothing more is read while the last answer is flushed.
CountedReadsFirst ==
    inFlight = 1 =>
        \A i \in Reads, j \in Wipes :
            sink[j].reason = "calls_exhausted" => i < j

\* Whichever condition comes first ends the process: the last counted call,
\* the end of standard input, the loss of the daemon.  It may wait for a daemon
\* that it unregisters with, and before its wipe (lib.rs:70 calls that
\* non-blocking); for nothing else, and once that is over it ends.
Exhausted == CountsCalls /\ N > 0 /\ remaining = 0
Unregistering == \E t \in Thread : exit[t] = "unregistering"
Triggered ==
    \/ Exhausted
    \/ main = "disconnected"
    \/ \E t \in Thread : exit[t] \in {"called", "flushing"}
EndsItself == Triggered ~> ~Alive \/ Unregistering

\* The abstract promise.  Nothing is registered with motokano; a process that
\* is killed, or that fails to start while the monitor runs, stops where it is.
Dropping == main \in {"failed", "dropped"} /\ ~linked
Phase ==
    IF life = "dead" THEN "dead"
    ELSE IF life = "exited" \/ (life = "failed" /\ ~linked) THEN "departed"
    ELSE IF Dropping THEN "leaving"
    ELSE IF ~exiting THEN "guarding"
    ELSE IF ~arm THEN "leaving"
    ELSE IF \E t \in Thread : exit[t] = "entered" THEN "condemned"
    ELSE "avenged"

\* motokano keeps the same promise as the daemon, with nobody to kill: armed
\* it wipes and dies, unarmed it wipes and leaves, and it does either once.
Switch == INSTANCE KillSwitch WITH
    Pid <- {}, phase <- Phase, armed <- arm, protected <- {},
    proc <- [p \in {} |-> "agent"]
KeepsSafePromise == Switch!Safety

-----------------------------------------------------------------------------
(* Statements of the documentation.                                        *)

\* docs/src/components/motokano.md:31: all paths end in the buffer wipe and
\* process exit.
AllPathsWipe == life \in {"dead", "exited", "failed"} => wiped

=============================================================================
