------------------------------ MODULE ReiProofs ------------------------------
(* Theorems about the MCP adapter beside the daemons, for any number of      *)
(* daemons, of tool calls at a time and of pids: whom a panic tool signals,  *)
(* though the world may change between its three steps.                      *)
EXTENDS Rei, PathProofs

-----------------------------------------------------------------------------
(* Processes.                                                                *)

\* A pid belongs to the live daemon that has it, and only what has come past
\* its start-up catches signals.
ProcessInv ==
    /\ \A d \in Daemon : Alive(d) => pid[d] \in Pid /\ owner[pid[d]] = d
    /\ \A p \in Pid : owner[p] \in Daemon =>
           Alive(owner[p]) /\ pid[owner[p]] = p
    /\ \A d \in handlers : Alive(d) /\ pc[d] \notin StartUp

\* The pidfile of a daemon that catches signals names it or is gone.
NamedInv == \A d \in handlers \ overlap : pidfile \in {pid[d], NoFile}

\* A step of the live daemon d within its own life.
Proceeds(d) == \E s \in Steps :
    /\ Alive(d)
    /\ pc' = [pc EXCEPT ![d] = s]
    /\ pc[d] \notin StartUp => s \notin StartUp
    /\ \/ handlers' = handlers
       \/ /\ pc[d] = "handlers" /\ s = "watch"
          /\ handlers' = handlers \cup {d}
          /\ pidfile' = pidfile
    /\ pc[d] \notin StartUp => pidfile' \in {pidfile, NoFile}
    /\ UNCHANGED <<pid, owner, overlap>>

Ended(d) == Alive(d) /\ \E way \in Ways : Die(d, way)

LEMMA LifeKinds ==
    ASSUME TypeOK, HostInv, PathInv, NEW d \in Daemon, Work(d) \/ Outside(d)
    PROVE  Start(d) \/ Proceeds(d) \/ Ended(d) \/ KillRegistered(d)
<1> USE DEF At, GoOn, Fail, LeaveBy, Alive, Steps, StartUp, Lethal, Leaving,
            Dropping, stepVars, memVars, shieldVars, fileVars, pidVars
<1>1. Start(d) \/ Alive(d)
  BY Neighbours
<1>2. CASE StartUpStep(d)
  <2>1. CASE MakeKey(d) \/ MakeWork(d)
    BY <2>1, MakesFill DEF Proceeds, Fills
  <2>2. CASE CheckArgs(d) \/ BindSocket(d) \/ ChmodSocket(d)
    BY <2>2 DEF CheckArgs, BindSocket, ChmodSocket, Proceeds
  <2>3. CASE SpawnChild(d) \/ RemoveStale(d) \/ CreatePidfile(d)
    BY <2>3 DEF SpawnChild, RemoveStale, CreatePidfile, Proceeds
  <2>4. CASE WritePid(d) \/ ApplyFilter(d) \/ ChmodPidfile(d)
    BY <2>4 DEF WritePid, ApplyFilter, ChmodPidfile, Proceeds
  <2>5. CASE InstallHandlers(d)
    BY <2>5 DEF InstallHandlers, Proceeds
  <2> QED
    BY <1>2, <2>1, <2>2, <2>3, <2>4, <2>5 DEF StartUpStep
<1>3. CASE SetupFails(d)
  BY <1>3 DEF SetupFails, Proceeds
<1>4. CASE WayOut(d)
  <2>1. CASE WipeBuffers(d) \/ CleanupWipe(d) \/ DropBuffers(d)
    BY <2>1 DEF WipeBuffers, CleanupWipe, DropBuffers, WipeStep, Proceeds
  <2>2. CASE KillChild(d) \/ DropChild(d) \/ UnlinkSocket(d)
    BY <2>2 DEF KillChild, DropChild, UnlinkSocket, Proceeds
  <2>3. CASE UnlinkPid(d) \/ UnlinkPidfile(d)
    BY <2>3 DEF UnlinkPid, UnlinkPidfile, RemovePidfile, Proceeds
  <2>4. CASE RaiseKill(d)
    BY <2>4 DEF RaiseKill, Ended, Ways
  <2>5. CASE Exit(d)
    <3>1. how[d] \in Ways
      BY DEF TypeOK, Ways
    <3> QED
      BY <2>5, <3>1 DEF Exit, Ended
  <2> QED
    BY <1>4, <2>1, <2>2, <2>3, <2>4, <2>5 DEF WayOut
<1>5. CASE TakeSignal(d) \/ ClientLost(d) \/ ClientQuits(d)
  <2>1. /\ Alive(d) /\ pc[d] = "watch"
        /\ \/ UNCHANGED pc
           \/ pc' = [pc EXCEPT ![d] = "kill_registered"]
           \/ pc' = [pc EXCEPT ![d] = "cleanup"]
        /\ UNCHANGED <<handlers, pidfile, pid, owner, overlap>>
    BY <1>5 DEF TakeSignal, ClientLost, ClientQuits, Trigger
  <2>2. UNCHANGED pc => pc' = [pc EXCEPT ![d] = "watch"]
    BY <2>1 DEF TypeOK
  <2> QED
    BY <2>1, <2>2 DEF Proceeds
<1>6. ASSUME Alive(d),
             UNCHANGED <<pc, handlers, pidfile, pid, owner, overlap>>
      PROVE  Proceeds(d)
  <2>1. pc' = [pc EXCEPT ![d] = pc[d]]
    BY <1>6 DEF TypeOK
  <2> QED
    BY <1>6, <2>1 DEF Proceeds
<1>7. CASE ControlRequest(d) \/ ChildExits(d)
  BY <1>1, <1>6, <1>7 DEF ControlRequest, ChildExits
<1>8. CASE Signalled(d)
  <2>1. PICK s \in Signals : Deliver(d, s)
    BY <1>8 DEF Signalled
  <2> QED
    BY <1>6, <1>8, <2>1 DEF Signalled, Deliver, Ended, Ways
<1>9. CASE KilledOutside(d)
  BY <1>9 DEF KilledOutside, Ended, Ways
<1> QED
  BY <1>2, <1>3, <1>4, <1>5, <1>7, <1>8, <1>9 DEF Work, Outside

\* What no step takes back: a daemon starts once, and as long as it lives it
\* keeps its pid and its handlers.
Keeps ==
    /\ \A d \in Daemon : pc[d] # "off" =>
           /\ pc'[d] # "off"
           /\ Alive(d)' => /\ Alive(d)
                           /\ pid'[d] = pid[d]
                           /\ d \in handlers => d \in handlers'
    /\ overlap \subseteq overlap'

LEMMA StartProcess ==
    ASSUME TypeOK, ProcessInv, NEW d \in Daemon, Start(d)
    PROVE  ProcessInv' /\ Keeps
<1> USE DEF Alive, Steps, StartUp, Lethal, Leaving, Dropping, ProcessInv
<1>1. PICK p \in Pid \ Running : /\ pid' = [pid EXCEPT ![d] = p]
                                /\ owner' = [owner EXCEPT ![p] = d]
  BY DEF Start
<1>2. /\ pc[d] = "off" /\ pc' = [pc EXCEPT ![d] = "args"]
      /\ UNCHANGED handlers /\ overlap \subseteq overlap'
  BY DEF Start, GoOn, shieldVars
<1>3. owner[p] \notin Daemon
  BY <1>1, DazaiAssumption DEF Running
<1> QED
  BY <1>1, <1>2, <1>3 DEF TypeOK, Keeps

LEMMA ProceedProcess ==
    ASSUME TypeOK, ProcessInv, NEW d \in Daemon, Proceeds(d)
    PROVE  ProcessInv' /\ Keeps
<1>1. PICK s \in Steps :
          /\ pc' = [pc EXCEPT ![d] = s]
          /\ pc[d] \notin StartUp => s \notin StartUp
          /\ \/ handlers' = handlers
             \/ s = "watch" /\ handlers' = handlers \cup {d}
  BY DEF Proceeds
<1>2. Alive(d) /\ UNCHANGED <<pid, owner, overlap>>
  BY DEF Proceeds
<1>3. "watch" \notin StartUp /\ "off" \notin Steps
  BY DEF Steps, StartUp, Lethal, Leaving, Dropping
<1> QED
  BY <1>1, <1>2, <1>3 DEF TypeOK, ProcessInv, Keeps, Alive

LEMMA EndProcess ==
    ASSUME TypeOK, ProcessInv, NEW d \in Daemon, Ended(d)
    PROVE  ProcessInv' /\ Keeps
<1>1. /\ Alive(d) /\ pc' = [pc EXCEPT ![d] = "gone"]
      /\ owner' = [owner EXCEPT ![pid[d]] = "nothing"]
      /\ pid' = [e \in Daemon |-> IF e \in {d} THEN 0 ELSE pid[e]]
      /\ handlers' = handlers \ {d}
      /\ UNCHANGED overlap
  BY DEF Ended, Die, LeaveBy, Release
<1>2. "gone" \notin Steps /\ "nothing" \notin Daemon
  BY DazaiAssumption DEF Steps, StartUp, Lethal, Leaving, Dropping
<1> QED
  BY <1>1, <1>2 DEF TypeOK, ProcessInv, Keeps, Alive

LEMMA KillProcess ==
    ASSUME TypeOK, ProcessInv, NEW d \in Daemon, KillRegistered(d)
    PROVE  ProcessInv' /\ Keeps
<1> DEFINE hit == UNION {SendSignal(p, Mine) : p \in registered[d]}
           dead == {owner[p] : p \in hit} \cap Daemon
<1>1. /\ pc' = [e \in Daemon |-> CASE e \in dead -> "gone"
                                  [] e \notin dead /\ e = d -> "wipe"
                                  [] OTHER -> pc[e]]
      /\ owner' = [p \in Pid |-> IF p \in hit THEN "nothing" ELSE owner[p]]
      /\ pid' = [e \in Daemon |-> IF e \in dead THEN 0 ELSE pid[e]]
      /\ handlers' = handlers \ dead
      /\ UNCHANGED overlap
      /\ pc[d] = "kill_registered"
  BY DEF KillRegistered, Release, At
<1>2. hit \subseteq Pid
  BY DEF SendSignal, Mine, Running
<1>3. \A p \in hit : owner[p] \in Daemon => owner[p] \in dead
  OBVIOUS
<1>4. \A e \in dead : e \in Daemon /\ \E p \in hit : owner[p] = e
  OBVIOUS
<1> HIDE DEF hit, dead
<1>5. /\ "gone" \notin Steps /\ "nothing" \notin Daemon
      /\ "wipe" \in Steps /\ "wipe" \notin StartUp
      /\ "kill_registered" \in Steps /\ "off" \notin Steps
  BY DazaiAssumption DEF Steps, StartUp, Lethal, Leaving, Dropping
<1>6. \A e \in Daemon : Alive(e)' => Alive(e) /\ e \notin dead
  BY <1>1, <1>5 DEF Alive
<1>7. \A e \in Daemon : Alive(e) /\ e \notin dead => Alive(e)'
  BY <1>1, <1>5 DEF Alive
<1>8. \A e \in Daemon : Alive(e)' => pid'[e] \in Pid /\ owner'[pid'[e]] = e
  BY <1>1, <1>3, <1>6 DEF ProcessInv
<1>9. ASSUME NEW p \in Pid, owner'[p] \in Daemon
      PROVE  pc'[owner'[p]] \in Steps /\ pid'[owner'[p]] = p
  <2>1. p \notin hit /\ owner'[p] = owner[p]
    BY <1>1, <1>5, <1>9
  <2>2. Alive(owner[p]) /\ pid[owner[p]] = p
    BY <1>9, <2>1 DEF ProcessInv
  <2>3. owner[p] \notin dead
    BY <1>2, <1>4, <2>1, <2>2 DEF ProcessInv
  <2>4. owner[p] \in Daemon
    BY <1>9, <2>1
  <2>5. pid'[owner[p]] = p
    BY <1>1, <2>2, <2>3, <2>4
  <2>6. pc'[owner[p]] \in Steps
    BY <1>1, <1>5, <2>2, <2>3, <2>4 DEF Alive
  <2> QED
    BY <2>1, <2>5, <2>6
<1>10. \A e \in handlers' : Alive(e)' /\ pc'[e] \notin StartUp
  BY <1>1, <1>5, <1>7 DEF ProcessInv, TypeOK
<1>11. Keeps
  BY <1>1, <1>5, <1>6 DEF Keeps
<1> QED
  BY <1>8, <1>9, <1>10, <1>11 DEF ProcessInv, Alive

LEMMA AgentProcess ==
    ASSUME TypeOK, ProcessInv, NEW p \in Pid, owner[p] \notin Daemon,
           NEW x \in {"agent", "foreign", "nothing"},
           owner' = owner \/ owner' = [owner EXCEPT ![p] = x],
           UNCHANGED <<pc, pid, handlers, overlap>>
    PROVE  ProcessInv' /\ Keeps
<1>1. Keeps
  BY DEF Keeps, Alive
<1>2. \A q \in Pid : owner'[q] \in Daemon => owner'[q] = owner[q]
  BY DazaiAssumption DEF TypeOK
<1>3. \A d \in Daemon : Alive(d) => owner'[pid[d]] = d
  BY DEF TypeOK, ProcessInv
<1> QED
  BY <1>1, <1>2, <1>3 DEF ProcessInv, Alive

-----------------------------------------------------------------------------
(* What a signal does that is sent by a tool.                                *)

Struck(d) == Alive(d) /\ Die(d, "unhandled")

Caught == \E d \in Daemon, s \in {"USR1", "USR2"} :
    /\ pending' = [pending EXCEPT ![d] = @ \cup {s}]
    /\ UNCHANGED <<stepVars, memVars, shieldVars, armed, registered, fileVars,
                   pidVars>>

Remote ==
    \/ \E d \in Daemon : Struck(d)
    \/ \E p \in Pid : owner[p] \notin Daemon /\ AgentHit(p)
    \/ Caught

HostStep == [Next]_vars \/ Remote

LEMMA RemoteSafe ==
    ASSUME TypeOK, HostInv, PathInv, Remote
    PROVE  TypeOK' /\ HostInv' /\ PathInv'
<1> USE DEF stepVars, memVars, shieldVars, loopVars, fileVars, pidVars
<1>1. ASSUME NEW d \in Daemon, Struck(d)
      PROVE  TypeOK' /\ HostInv' /\ PathInv'
  <2>1. Die(d, "unhandled") /\ "unhandled" \in Ways \ {"denied"}
    BY <1>1 DEF Struck, Ways
  <2>2. TypeOK' /\ HostInv' /\ Files(d)'
    BY <2>1, DieTyped, DieHost, DieFiles
  <2>3. /\ pc' = [pc EXCEPT ![d] = "gone"]
        /\ how' = [how EXCEPT ![d] = "unhandled"]
        /\ UNCHANGED <<sock, pidfile, overlap>>
        /\ linked' = linked \ {d}
        /\ \A e \in Daemon \ {d} : pid'[e] = pid[e]
    BY <2>1 DEF Die, LeaveBy, Release
  <2>4. \A e \in Daemon \ {d} : Files(e) => Files(e)'
    BY <2>3 DEF TypeOK, Files
  <2>5. \A e \in Daemon : Alive(e)' => Alive(e)
    BY <2>3 DEF TypeOK, Alive, Steps, StartUp, Lethal, Leaving, Dropping
  <2> QED
    BY <2>2, <2>3, <2>4, <2>5 DEF PathInv, Alive, Files
<1>2. ASSUME NEW p \in Pid, AgentHit(p)
      PROVE  TypeOK' /\ HostInv' /\ PathInv'
  BY <1>2 DEF AgentHit, TypeOK, HostInv, PathInv, Files, Alive
<1>3. CASE Caught
  BY <1>3 DEF Caught, TypeOK, HostInv, PathInv, Files, Alive
<1> QED
  BY <1>1, <1>2, <1>3 DEF Remote

LEMMA HostSafe ==
    ASSUME TypeOK, HostInv, PathInv, HostStep
    PROVE  TypeOK' /\ HostInv' /\ PathInv'
BY NextTyped, NextHost, NextPath, RemoteSafe DEF HostStep

LEMMA HostProcess ==
    ASSUME TypeOK, HostInv, PathInv, ProcessInv, HostStep
    PROVE  ProcessInv' /\ Keeps
<1>1. ASSUME NEW d \in Daemon, Work(d) \/ Outside(d) PROVE ProcessInv' /\ Keeps
  BY <1>1, LifeKinds, StartProcess, ProceedProcess, EndProcess, KillProcess
<1>2. ASSUME NEW p \in Pid, AgentChanges(p) PROVE ProcessInv' /\ Keeps
  <2>1. /\ owner[p] \notin Daemon
        /\ UNCHANGED <<pc, pid, handlers, overlap>>
        /\ \E x \in {"agent", "foreign", "nothing"} :
               owner' = [owner EXCEPT ![p] = x]
    BY <1>2, DazaiAssumption DEF AgentChanges, stepVars, shieldVars
  <2> QED
    BY <2>1, AgentProcess
<1>3. ASSUME NEW p \in Pid, owner[p] \notin Daemon, AgentHit(p)
      PROVE  ProcessInv' /\ Keeps
  <2>1. /\ UNCHANGED <<pc, pid, handlers, overlap>>
        /\ owner' = owner \/ owner' = [owner EXCEPT ![p] = "nothing"]
    BY <1>3 DEF AgentHit, stepVars, shieldVars
  <2> QED
    BY <1>3, <2>1, AgentProcess
<1>4. CASE UNCHANGED <<stepVars, shieldVars, pidVars>>
  BY <1>4 DEF stepVars, shieldVars, pidVars, ProcessInv, Keeps, Alive
<1>5. CASE Caught \/ UNCHANGED vars
  BY <1>4, <1>5 DEF Caught, vars
<1>6. ASSUME NEW d \in Daemon, Struck(d) PROVE ProcessInv' /\ Keeps
  BY <1>6, EndProcess DEF Struck, Ended, Ways
<1> QED
  BY <1>1, <1>2, <1>3, <1>5, <1>6 DEF HostStep, Remote, Next

\* Nobody else's step touches the files of a daemon that is alone.
LEMMA HostNamed ==
    ASSUME TypeOK, HostInv, PathInv, ProcessInv, NamedInv, HostStep
    PROVE  NamedInv'
<1>1. ProcessInv' /\ Keeps
  BY HostProcess
<1>2. ASSUME NEW e \in handlers' \ overlap', e \in handlers,
             pidfile' \in {pidfile, NoFile}
      PROVE  pidfile' \in {pid'[e], NoFile}
  <2>1. /\ e \in Daemon /\ Alive(e) /\ Alive(e)' /\ pc[e] # "off"
        /\ e \notin overlap
    BY <1>1, <1>2 DEF ProcessInv, TypeOK, Keeps, Alive, Steps, StartUp, Lethal,
                      Leaving, Dropping
  <2>2. pid'[e] = pid[e]
    BY <1>1, <2>1 DEF Keeps
  <2> QED
    BY <1>2, <2>1, <2>2 DEF NamedInv
<1>3. ASSUME UNCHANGED pidfile, handlers' \subseteq handlers PROVE NamedInv'
  BY <1>2, <1>3 DEF NamedInv
<1>4. ASSUME NEW d \in Daemon, Work(d) \/ Outside(d) PROVE NamedInv'
  <2>1. CASE Start(d)
    BY <1>3, <2>1 DEF Start, shieldVars, fileVars
  <2>2. CASE Ended(d) \/ KillRegistered(d)
    BY <1>3, <2>2 DEF Ended, Die, KillRegistered, Release
  <2>3. CASE Proceeds(d)
    <3> SUFFICES ASSUME NEW e \in handlers' \ overlap'
                 PROVE  pidfile' \in {pid'[e], NoFile}
      BY DEF NamedInv
    <3>1. e \in Daemon /\ e \notin overlap /\ UNCHANGED pid
      BY <2>3 DEF Proceeds, TypeOK
    <3>2. CASE e # d
      <4>1. e \in handlers /\ Alive(e)
        BY <2>3, <3>2 DEF Proceeds, ProcessInv
      <4> QED
        BY <2>3, <3>1, <3>2, <4>1 DEF Proceeds, PathInv
    <3>3. CASE e = d /\ e \in handlers
      BY <1>2, <2>3, <3>3 DEF Proceeds, ProcessInv
    <3>4. CASE e = d /\ e \notin handlers
      <4>1. pc[d] = "handlers" /\ pidfile' = pidfile
        BY <2>3, <3>4 DEF Proceeds
      <4> QED
        BY <3>1, <3>4, <4>1 DEF PathInv, Files, Named
    <3> QED
      BY <3>2, <3>3, <3>4
  <2> QED
    BY <1>4, <2>1, <2>2, <2>3, LifeKinds
<1>5. ASSUME NEW p \in Pid, AgentChanges(p) \/ AgentHit(p) PROVE NamedInv'
  BY <1>3, <1>5 DEF AgentChanges, AgentHit, shieldVars, fileVars
<1>6. ASSUME NEW d \in Daemon, Struck(d) PROVE NamedInv'
  BY <1>3, <1>6 DEF Struck, Die, Release
<1>7. CASE Caught \/ UNCHANGED vars
  BY <1>3, <1>7 DEF Caught, vars, shieldVars, fileVars
<1> QED
  BY <1>4, <1>5, <1>6, <1>7 DEF HostStep, Remote, Next

-----------------------------------------------------------------------------
(* What a tool knows at each of its steps.                                   *)

\* A tool asks a daemon that has started, is answered by one that catches
\* signals, and aims at its pid, unless it has gone or is not alone.
Aware(c) ==
    /\ step[c] # "idle" => peer[c] \in Daemon /\ pc[peer[c]] # "off"
    /\ step[c] \in {"gated", "aimed"} /\ Alive(peer[c]) =>
           peer[c] \in handlers
    /\ step[c] = "aimed" =>
           /\ target[c] \in Pid
           /\ Alive(peer[c]) /\ peer[c] \notin overlap =>
                  target[c] = pid[peer[c]]

CallInv == \A c \in Call : Aware(c)

HostAll == TypeOK /\ HostInv /\ PathInv /\ ProcessInv /\ NamedInv

ReiInv == HostAll /\ ReiTypeOK /\ CallInv

LEMMA PidIsPositive == \A p \in Pid : p \in Nat \ {0} /\ p # NoFile
BY GoodnightAssumption DEF Pid, NoFile

LEMMA SignalReaches ==
    ASSUME NEW p \in Pid
    PROVE  SendSignal(p, Mine) = {p} \cap Mine
BY GoodnightAssumption DEF Pid, SendSignal, InRange, Reached, PidT, Mine, Running

\* A signal of a tool is a step of the host as any other.
LEMMA SignalIsRemote ==
    ASSUME HostAll, CallInv, NEW c \in Call, Signal(c)
    PROVE  HostStep
<1>1. target[c] \in Pid
  BY DEF CallInv, Aware, Signal
<1>2. CASE Hit(c) = {}
  BY <1>2 DEF Signal, HostStep
<1>3. CASE Hit(c) # {} /\ owner[target[c]] \in Daemon
  <2>1. Alive(owner[target[c]])
    BY <1>1, <1>3 DEF HostAll, ProcessInv
  <2>2. PICK s \in {"USR1", "USR2"} : Deliver(owner[target[c]], s)
    BY <1>3 DEF Signal
  <2> QED
    BY <1>3, <2>1, <2>2 DEF Deliver, HostStep, Remote, Struck, Caught
<1>4. CASE Hit(c) # {} /\ owner[target[c]] \notin Daemon
  BY <1>1, <1>4 DEF Signal, HostStep, Remote
<1> QED
  BY <1>2, <1>3, <1>4

LEMMA ReiHostStep ==
    ASSUME HostAll, CallInv, [ReiNext]_allVars
    PROVE  HostStep
<1>1. ASSUME NEW c \in Call, CallStep(c) PROVE HostStep
  BY <1>1, SignalIsRemote DEF CallStep, CallTool, StatusAnswered, Unanswered,
                              ReadPidfile, Aim, HostStep
<1> QED
  BY <1>1 DEF ReiNext, allVars, HostStep

LEMMA HostAllSafe ==
    ASSUME HostAll, CallInv, [ReiNext]_allVars
    PROVE  HostAll' /\ Keeps
BY ReiHostStep, HostSafe, HostProcess, HostNamed DEF HostAll

\* What a tool knows outlasts every step of the others.
LEMMA StaysAware ==
    ASSUME ProcessInv, Keeps, NEW c \in Call, Aware(c),
           step'[c] = step[c], peer'[c] = peer[c], target'[c] = target[c]
    PROVE  Aware(c)'
BY DEF Aware, Keeps

LEMMA ReiTyped ==
    ASSUME TypeOK', CallInv, TypeOK, ReiTypeOK, [ReiNext]_allVars
    PROVE  ReiTypeOK'
<1>1. CASE UNCHANGED callVars
  BY <1>1 DEF callVars, ReiTypeOK
<1>2. ASSUME NEW c \in Call, CallStep(c) PROVE ReiTypeOK'
  <2> USE DEF ReiTypeOK
  <2>1. ASSUME NEW t \in Panics, CallTool(c, t) PROVE ReiTypeOK'
    BY <2>1 DEF CallTool, Listening, TypeOK
  <2>2. CASE StatusAnswered(c)
    BY <2>2 DEF StatusAnswered
  <2>3. CASE Return(c)
    BY <2>3 DEF Return
  <2>4. CASE ReadPidfile(c)
    BY <2>3, <2>4 DEF ReadPidfile, Aim
  <2> QED
    BY <1>2, <2>1, <2>2, <2>3, <2>4 DEF CallStep, Unanswered, Signal
<1> QED
  BY <1>1, <1>2 DEF ReiNext, allVars

LEMMA CallsAware ==
    ASSUME ReiInv, [ReiNext]_allVars
    PROVE  CallInv'
<1>1. ProcessInv /\ Keeps
  BY HostAllSafe DEF ReiInv, HostAll
<1>2. CASE UNCHANGED callVars
  BY <1>1, <1>2, StaysAware DEF callVars, CallInv, ReiInv
<1>3. ASSUME NEW c \in Call, CallStep(c) PROVE CallInv'
  <2>1. ASSUME NEW b \in Call \ {c} PROVE Aware(b)'
    <3>1. step'[b] = step[b] /\ peer'[b] = peer[b] /\ target'[b] = target[b]
      BY <1>3 DEF CallStep, CallTool, StatusAnswered, Unanswered, ReadPidfile,
                  Aim, Signal, Return, ReiInv, ReiTypeOK
    <3> QED
      BY <1>1, <3>1, StaysAware DEF CallInv, ReiInv
  <2>2. /\ DOMAIN step = Call /\ DOMAIN peer = Call /\ DOMAIN target = Call
        /\ Aware(c)
    BY DEF ReiInv, ReiTypeOK, CallInv
  <2>3. ASSUME step'[c] = "idle" PROVE Aware(c)'
    BY <2>3 DEF Aware
  <2>4. ASSUME NEW t \in Panics, CallTool(c, t) PROVE Aware(c)'
    <3>1. /\ sock \in Daemon /\ Alive(sock) /\ UNCHANGED pc
          /\ step'[c] = "sent" /\ peer'[c] = sock
      BY <2>4 DEF CallTool, Listening, ReiInv, HostAll, TypeOK, ReiTypeOK,
                  vars, stepVars
    <3>2. pc[sock] # "off"
      BY <3>1 DEF Alive, Steps, StartUp, Lethal, Leaving, Dropping
    <3> QED
      BY <3>1, <3>2 DEF Aware
  <2>5. ASSUME StatusAnswered(c) PROVE Aware(c)'
    <3>1. /\ step[c] = "sent" /\ peer[c] \in handlers /\ step'[c] = "gated"
          /\ UNCHANGED <<pc, handlers, peer>>
      BY <2>2, <2>5 DEF StatusAnswered, Awaits, Serving, vars, stepVars,
                        shieldVars
    <3> QED
      BY <2>2, <3>1 DEF Aware, Alive
  <2>6. ASSUME ReadPidfile(c), step'[c] # "idle" PROVE Aware(c)'
    <3>1. /\ step[c] = "gated" /\ pidfile \in Pid
          /\ step'[c] = "aimed" /\ target'[c] = pidfile
          /\ UNCHANGED <<pc, handlers, pid, overlap, peer>>
      BY <2>2, <2>6 DEF ReadPidfile, Aim, Return, vars, stepVars, shieldVars,
                        pidVars
    <3>2. ASSUME Alive(peer[c]), peer[c] \notin overlap
          PROVE  pidfile = pid[peer[c]]
      BY <2>2, <3>1, <3>2, PidIsPositive DEF Aware, ReiInv, HostAll, NamedInv
    <3> QED
      BY <2>2, <3>1, <3>2 DEF Aware, Alive
  <2>7. ASSUME Return(c) PROVE Aware(c)'
    BY <2>2, <2>3, <2>7 DEF Return
  <2> QED
    BY <1>3, <2>1, <2>3, <2>4, <2>5, <2>6, <2>7
       DEF CallStep, Unanswered, Signal, CallInv
<1> QED
  BY <1>2, <1>3 DEF ReiNext, allVars

LEMMA ReiInit0 == ReiInit => ReiInv
<1> SUFFICES ASSUME ReiInit PROVE ReiInv
  OBVIOUS
<1>1. TypeOK /\ HostInv
  BY InitTyped DEF ReiInit, Init, HostInv
<1>2. PathInv /\ ProcessInv /\ NamedInv
  BY DazaiAssumption DEF ReiInit, Init, PathInv, ProcessInv, NamedInv, Files,
         Alive, Steps, StartUp, Lethal, Leaving, Dropping, Bound, Named
<1>3. ReiTypeOK
  BY <1>1 DEF ReiInit, ReiTypeOK
<1>4. CallInv
  BY DEF ReiInit, CallInv, Aware
<1> QED
  BY <1>1, <1>2, <1>3, <1>4 DEF ReiInv, HostAll

LEMMA ReiAlways == ReiSpec => []ReiInv
<1>1. ReiInv /\ [ReiNext]_allVars => ReiInv'
  BY HostAllSafe, ReiTyped, CallsAware DEF ReiInv, HostAll
<1> QED
  BY <1>1, ReiInit0, PTL DEF ReiSpec

-----------------------------------------------------------------------------
(* Theorems.                                                                 *)

\* Types, with any number of tool calls at a time beside the daemons.
THEOREM AdapterTypeCorrect == ReiSpec => []ReiTypeOK
<1>1. ReiInv => ReiTypeOK
  BY DEF ReiInv
<1> QED
  BY <1>1, ReiAlways, PTL

\* The signal of a panic tool reaches the daemon that answered STATUS, with
\* its handlers installed, unless that one has gone since or is not alone on
\* its path.
THEOREM AnswererIsHit == ReiSpec => SignalsTheAnswerer
<1>1. ASSUME ReiInv, NEW c \in Call, Strikes(c), Alive(peer[c]),
             peer[c] \notin overlap
      PROVE  owner[target[c]] = peer[c] /\ peer[c] \in handlers
  <2>1. Aware(c) /\ step[c] = "aimed" /\ ProcessInv
    BY <1>1 DEF ReiInv, CallInv, Strikes, HostAll
  <2> QED
    BY <1>1, <2>1 DEF Aware, ProcessInv
<1>2. ReiInv => [\A c \in Call : Strikes(c) =>
          \/ owner[target[c]] = peer[c] /\ peer[c] \in handlers
          \/ ~Alive(peer[c])
          \/ peer[c] \in overlap]_allVars
  BY <1>1
<1> QED
  BY <1>2, ReiAlways, PTL DEF SignalsTheAnswerer

\* Once a daemon that has its path for itself has answered STATUS, a panic
\* tool fails only if that daemon is on its way out.
THEOREM PanicArrives == ReiSpec => PanicNotLost
<1>1. ASSUME ReiInv, [ReiNext]_allVars, NEW c \in Call, Misses(c),
             pc[peer[c]] = "watch", peer[c] \notin overlap
      PROVE  FALSE
  <2>1. /\ Aware(c) /\ ProcessInv /\ PathInv /\ TypeOK
        /\ step[c] \in {"gated", "aimed"}
    BY <1>1 DEF ReiInv, CallInv, HostAll, Misses
  <2>2. peer[c] \in Daemon /\ Alive(peer[c])
    BY <1>1, <2>1 DEF Aware, Alive, Steps
  <2>3. pid[peer[c]] \in Pid /\ owner[pid[peer[c]]] = peer[c]
    BY <2>1, <2>2 DEF ProcessInv
  <2>4. CASE step[c] = "aimed"
    <3>1. target[c] = pid[peer[c]] /\ Hit(c) = {}
      BY <1>1, <2>1, <2>2, <2>4 DEF Aware, Misses, Strikes
    <3>2. target[c] \in Mine
      BY <2>2, <2>3, <3>1, DazaiAssumption DEF Mine, Running
    <3> QED
      BY <2>3, <3>1, <3>2, SignalReaches DEF Hit
  <2>5. CASE step[c] = "gated"
    <3>1. pidfile = pid[peer[c]]
      BY <1>1, <2>1, <2>2 DEF PathInv, Files, Named
    <3>2. step'[c] = "aimed" \/ step'[c] = "gated"
      <4>1. ASSUME NEW b \in Call, CallStep(b)
            PROVE  step'[c] = "aimed" \/ step'[c] = "gated"
        <5>1. step \in [Call -> {"idle", "sent", "gated", "aimed"}]
          BY <1>1 DEF ReiInv, ReiTypeOK
        <5> QED
          BY <2>3, <2>5, <3>1, <4>1, <5>1
             DEF CallStep, CallTool, StatusAnswered, Unanswered, ReadPidfile,
                 Aim, Signal, Return, Awaits
      <4> QED
        BY <1>1, <2>5, <4>1 DEF ReiNext, allVars, callVars
    <3> QED
      BY <1>1, <3>2 DEF Misses
  <2> QED
    BY <2>1, <2>4, <2>5
<1>2. ReiInv /\ [ReiNext]_allVars =>
        [\A c \in Call : Misses(c) =>
            pc[peer[c]] # "watch" \/ peer[c] \in overlap]_allVars
  BY <1>1
<1> QED
  BY <1>2, ReiAlways, PTL DEF ReiSpec, PanicNotLost

=============================================================================
