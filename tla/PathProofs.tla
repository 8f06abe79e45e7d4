----------------------------- MODULE PathProofs -----------------------------
(* Theorems about the socket and the pidfile of a daemon that shares its life *)
(* with no other daemon on the path: whatever earlier ones have left there.   *)
EXTENDS DazaiProofs

-----------------------------------------------------------------------------
Bound == {"chmod", "create", "write", "chmod_pid", "filter", "handlers",
          "watch"}
Named == {"chmod_pid", "filter", "handlers", "watch"}

\* What the files are at each step of the daemon d.
Files(d) ==
    /\ pc[d] = "bind" => sock = Nobody
    /\ pc[d] \in Bound => sock = d
    /\ pc[d] = "write" => d \in linked
    /\ pc[d] \in Named => pidfile = pid[d]
    /\ pc[d] = "raise" => pidfile = NoFile
    /\ pc[d] \in Dropping => how[d] = "error" \/ pidfile = NoFile

\* Two that live at once are both in overlap; the files are those of a daemon
\* that is alone.
PathInv ==
    /\ \A d, e \in Daemon : Alive(d) /\ Alive(e) /\ d # e => d \in overlap
    /\ \A d \in Daemon \ overlap : Files(d)

-----------------------------------------------------------------------------
(* The daemon's own steps.                                                  *)

LEMMA StartUpFiles ==
    ASSUME TypeOK, NEW d \in Daemon, d \notin overlap => Files(d),
           StartUpStep(d) \/ Start(d) \/ SetupFails(d)
    PROVE  d \notin overlap' => Files(d)'
<1> USE DEF TypeOK, Files, At, GoOn, Fail, LeaveBy, Steps, StartUp, Bound,
            Named, Dropping, memVars, shieldVars, loopVars, fileVars, pidVars
<1>1. CASE Start(d)
  BY <1>1 DEF Start
<1>2. CASE CheckArgs(d)
  BY <1>2 DEF CheckArgs
<1>3. CASE MakeKey(d) \/ MakeWork(d)
  <2>1. \/ pc' = [pc EXCEPT ![d] = "work"] /\ UNCHANGED how
        \/ pc' = [pc EXCEPT ![d] = "child"] /\ UNCHANGED how
        \/ /\ pc' = [pc EXCEPT ![d] = "drop_child"]
           /\ how' = [how EXCEPT ![d] = "error"]
    BY <1>3, MakesFill DEF Fills
  <2>2. UNCHANGED <<sock, pidfile, linked, pid, overlap>>
    BY <1>3, MakesFill
  <2> QED
    BY <2>1, <2>2
<1>4. CASE SpawnChild(d)
  BY <1>4 DEF SpawnChild
<1>5. CASE RemoveStale(d)
  BY <1>5 DEF RemoveStale
<1>6. CASE BindSocket(d)
  BY <1>6 DEF BindSocket
<1>7. CASE ChmodSocket(d)
  BY <1>7 DEF ChmodSocket
<1>8. CASE CreatePidfile(d)
  BY <1>8 DEF CreatePidfile
<1>9. CASE WritePid(d)
  BY <1>9 DEF WritePid
<1>10. CASE ChmodPidfile(d)
  BY <1>10 DEF ChmodPidfile
<1>11. CASE ApplyFilter(d)
  BY <1>11 DEF ApplyFilter
<1>12. CASE InstallHandlers(d)
  BY <1>12 DEF InstallHandlers
<1>13. CASE SetupFails(d)
  BY <1>13 DEF SetupFails
<1> QED
  BY <1>1, <1>2, <1>3, <1>4, <1>5, <1>6, <1>7, <1>8, <1>9, <1>10, <1>11,
     <1>12, <1>13 DEF StartUpStep

LEMMA DieFiles ==
    ASSUME TypeOK, NEW d \in Daemon, NEW way \in Ways, Die(d, way)
    PROVE  Files(d)'
BY DEF TypeOK, Files, Die, LeaveBy, Steps, Bound, Named, Dropping

LEMMA WayOutFiles ==
    ASSUME TypeOK, NEW d \in Daemon, d \notin overlap => Files(d),
           WayOut(d)
    PROVE  d \notin overlap' => Files(d)'
<1> USE DEF TypeOK, Files, At, GoOn, LeaveBy, Bound, Named, Dropping,
            memVars, shieldVars, loopVars, fileVars, pidVars
<1>1. CASE KillRegistered(d)
  <2>1. pc'[d] \in {"gone", "wipe"}
    BY <1>1 DEF KillRegistered
  <2> QED
    BY <2>1
<1>2. CASE WipeBuffers(d)
  BY <1>2 DEF WipeBuffers, WipeStep
<1>3. CASE KillChild(d)
  BY <1>3 DEF KillChild
<1>4. CASE UnlinkPid(d)
  BY <1>4 DEF UnlinkPid, RemovePidfile
<1>5. CASE RaiseKill(d)
  BY <1>5, DieFiles DEF RaiseKill, Ways
<1>6. CASE CleanupWipe(d)
  BY <1>6 DEF CleanupWipe, WipeStep
<1>7. CASE UnlinkSocket(d)
  BY <1>7 DEF UnlinkSocket
<1>8. CASE UnlinkPidfile(d)
  BY <1>8 DEF UnlinkPidfile, RemovePidfile
<1>9. CASE DropChild(d)
  BY <1>9 DEF DropChild
<1>10. CASE DropBuffers(d)
  BY <1>10 DEF DropBuffers, WipeStep
<1>11. CASE Exit(d)
  BY <1>11, DieFiles DEF Exit, Ways
<1> QED
  BY <1>1, <1>2, <1>3, <1>4, <1>5, <1>6, <1>7, <1>8, <1>9, <1>10, <1>11
  DEF WayOut

LEMMA OtherFiles ==
    ASSUME TypeOK, HostInv, NEW d \in Daemon, d \notin overlap => Files(d),
           TakeSignal(d) \/ ClientLost(d) \/ ClientQuits(d)
           \/ ControlRequest(d) \/ Signalled(d)
           \/ KilledOutside(d) \/ ChildExits(d)
    PROVE  d \notin overlap' => Files(d)'
<1> USE DEF stepVars, memVars, fileVars, pidVars
<1>1. CASE TakeSignal(d) \/ ClientLost(d) \/ ClientQuits(d)
  <2>1. /\ UNCHANGED <<fileVars, pidVars>>
        /\ \/ UNCHANGED stepVars
           \/ pc'[d] \in {"kill_registered", "cleanup"}
    BY <1>1 DEF TakeSignal, ClientLost, ClientQuits, Trigger, LeaveBy, TypeOK
  <2> QED
    BY <2>1 DEF Files, Bound, Named, Dropping
<1>2. CASE ControlRequest(d)
  BY <1>2 DEF ControlRequest, Files
<1>3. CASE ChildExits(d)
  BY <1>3 DEF ChildExits, Files
<1>4. CASE Signalled(d)
  <2>1. PICK s \in Signals : Deliver(d, s)
    BY <1>4 DEF Signalled
  <2>2. CASE d \in handlers
    BY <2>1, <2>2 DEF Deliver, Files
  <2>3. CASE d \notin handlers
    BY <2>1, <2>3, DieFiles DEF Deliver, Ways
  <2> QED
    BY <2>2, <2>3
<1>5. CASE KilledOutside(d)
  BY <1>5, DieFiles DEF KilledOutside, Ways
<1> QED
  BY <1>1, <1>2, <1>3, <1>4, <1>5

-----------------------------------------------------------------------------
(* The others' steps.                                                       *)

\* A step of one daemon starts or ends others at most, and a daemon that
\* starts beside another one marks both.
LEMMA Neighbours ==
    ASSUME TypeOK, HostInv, PathInv, NEW d \in Daemon,
           Work(d) \/ Outside(d)
    PROVE  /\ Start(d) \/ Alive(d)
           /\ \A e \in Daemon \ {d} :
                pc'[e] = pc[e] \/ pc'[e] = "gone"
           /\ overlap \subseteq overlap'
           /\ Start(d) => \A e \in Daemon \ {d} :
                Alive(e) => {d, e} \subseteq overlap'
           /\ ~Start(d) => UNCHANGED overlap
<1> USE DEF Steps, StartUp, Lethal, Leaving, Dropping
<1>1. Start(d) \/ Alive(d)
  BY DEF Work, Outside, StartUpStep, WayOut, HostInv, Childless, Alive, At,
         CheckArgs, MakeKey, MakeWork, SpawnChild, RemoveStale, BindSocket,
         ChmodSocket, CreatePidfile, WritePid, ChmodPidfile, ApplyFilter,
         InstallHandlers, SetupFails, TakeSignal, ClientLost, ClientQuits,
         ControlRequest, Arm, Register, Unregister, Serving, KillRegistered,
         WipeBuffers, KillChild, UnlinkPid, RaiseKill, CleanupWipe,
         UnlinkSocket, UnlinkPidfile, DropChild, DropBuffers, Exit,
         Signalled, KilledOutside, ChildExits
<1>2. ASSUME NEW e \in Daemon \ {d}
      PROVE  pc'[e] = pc[e] \/ pc'[e] = "gone"
  <2> USE DEF TypeOK
  <2>1. CASE UNCHANGED <<pc, mem>>
    BY <2>1
  <2>2. CASE Moves(d) \/ Wipes(d) \/ Fills(d)
    BY <2>2 DEF Moves, Wipes, WipeStep, Fills, GoOn
  <2>3. CASE Dies(d)
    BY <2>3 DEF Dies, Die, LeaveBy
  <2>4. CASE KillRegistered(d)
    BY <2>4 DEF KillRegistered
  <2> QED
    BY <2>1, <2>2, <2>3, <2>4, StepKinds
<1>3. ASSUME Start(d)
      PROVE  /\ overlap \subseteq overlap'
             /\ \A e \in Daemon \ {d} : Alive(e) => {d, e} \subseteq overlap'
  BY <1>3 DEF Start
<1>4. ASSUME ~Start(d) PROVE UNCHANGED overlap
  <2> USE DEF memVars, pidVars
  <2>1. CASE StartUpStep(d)
    BY <2>1 DEF StartUpStep, CheckArgs, MakeKey, MakeWork, MakeBuffer,
                SpawnChild, RemoveStale,
                BindSocket, ChmodSocket, CreatePidfile, WritePid,
                ChmodPidfile, ApplyFilter, InstallHandlers
  <2>2. CASE WayOut(d)
    BY <2>2 DEF WayOut, KillRegistered, WipeBuffers, WipeStep, KillChild,
                UnlinkPid, RemovePidfile, RaiseKill, Die, CleanupWipe,
                UnlinkSocket, UnlinkPidfile, DropChild, DropBuffers, Exit
  <2>3. CASE SetupFails(d) \/ TakeSignal(d) \/ ClientLost(d) \/ ClientQuits(d)
    BY <2>3 DEF SetupFails, TakeSignal, ClientLost, ClientQuits
  <2>4. CASE ControlRequest(d) \/ KilledOutside(d) \/ ChildExits(d)
    BY <2>4 DEF ControlRequest, KilledOutside, ChildExits, Die
  <2>5. CASE Signalled(d)
    BY <2>5 DEF Signalled, Deliver, Die
  <2> QED
    BY <1>4, <2>1, <2>2, <2>3, <2>4, <2>5 DEF Work, Outside
<1> QED
  BY <1>1, <1>2, <1>3, <1>4

LEMMA DaemonPath ==
    ASSUME TypeOK, HostInv, PathInv, NEW d \in Daemon,
           Work(d) \/ Outside(d)
    PROVE  PathInv'
<1>1. "gone" \notin Steps
  BY DEF Steps, StartUp, Lethal, Leaving, Dropping
<1>2. ASSUME NEW a \in Daemon, NEW b \in Daemon, Alive(a)', Alive(b)', a # b
      PROVE  a \in overlap'
  <2>1. \A e \in Daemon \ {d} : Alive(e)' => Alive(e)
    BY <1>1, Neighbours DEF Alive
  <2>2. CASE Start(d)
    <3>1. CASE a # d /\ b # d
      BY <1>2, <2>1, <3>1, Neighbours DEF PathInv
    <3>2. CASE a = d \/ b = d
      BY <1>2, <2>1, <2>2, <3>2, Neighbours
    <3> QED
      BY <3>1, <3>2
  <2>3. CASE ~Start(d)
    BY <1>2, <2>1, <2>3, Neighbours DEF PathInv
  <2> QED
    BY <2>2, <2>3
<1>3. ASSUME NEW a \in Daemon \ overlap' PROVE Files(a)'
  <2>1. a \notin overlap
    BY <1>3, Neighbours
  <2>2. CASE a = d
    BY <1>3, <2>1, <2>2, StartUpFiles, WayOutFiles, OtherFiles
    DEF PathInv, Work, Outside
  <2>3. CASE a # d
    <3>1. ~Alive(a)
      BY <1>3, <2>1, <2>3, Neighbours DEF PathInv
    <3>2. pc'[a] \notin Steps
      BY <1>1, <2>3, <3>1, Neighbours DEF Alive
    <3> QED
      BY <3>2 DEF Files, Bound, Named, Steps, StartUp, Lethal, Dropping
  <2> QED
    BY <2>2, <2>3
<1> QED
  BY <1>2, <1>3 DEF PathInv, Alive, Files

LEMMA NextPath == TypeOK /\ HostInv /\ PathInv /\ [Next]_vars => PathInv'
<1> SUFFICES ASSUME TypeOK, HostInv, PathInv, [Next]_vars PROVE PathInv'
  OBVIOUS
<1>1. ASSUME NEW d \in Daemon, Work(d) \/ Outside(d) PROVE PathInv'
  BY <1>1, DaemonPath
<1>2. ASSUME NEW p \in Pid, AgentChanges(p) PROVE PathInv'
  BY <1>2 DEF AgentChanges, PathInv, Files, Alive, stepVars, fileVars
<1>3. CASE UNCHANGED vars
  BY <1>3 DEF vars, PathInv, Files, Alive, stepVars, fileVars, pidVars
<1> QED
  BY <1>1, <1>2, <1>3 DEF Next

LEMMA PathAlways == Spec => [](TypeOK /\ HostInv /\ PathInv)
<1>1. Init => PathInv
  BY DEF Init, PathInv, Files, Alive, Steps, StartUp, Lethal, Leaving,
         Dropping, Bound, Named
<1> QED
  BY <1>1, NextPath, HostAlways, PTL DEF Spec

-----------------------------------------------------------------------------
\* A daemon that is alone on its path can be found as long as it watches,
\* whatever any number of earlier daemons has left there.
THEOREM AloneIsFound == Spec => []Findable
<1>1. PathInv => Findable
  BY DEF PathInv, Files, Findable, Bound, Named
<1> QED
  BY <1>1, PathAlways, PTL

\* Nor does what was left ever stop its start-up.
THEOREM AloneStarts == Spec => []StaleFilesYield
<1>1. PathInv => StaleFilesYield
  BY DEF PathInv, Files, StaleFilesYield, Bound, Named
<1> QED
  BY <1>1, PathAlways, PTL

LEMMA LastStep ==
    ASSUME TypeOK, HostInv, NEW d \in Daemon, Work(d) \/ Outside(d),
           pc[d] \in Last, Ends(d)
    PROVE  pidfile' = pidfile /\ (pc[d] = "exit" => how'[d] = how[d])
<1> USE DEF Last, Ends, TypeOK
<1>1. CASE StartUpStep(d) \/ Start(d) \/ SetupFails(d)
  BY <1>1
  DEF StartUpStep, At, StartUp, Start, SetupFails, CheckArgs, MakeKey, MakeWork,
      SpawnChild, RemoveStale, BindSocket, ChmodSocket, CreatePidfile,
      WritePid, ChmodPidfile, ApplyFilter, InstallHandlers
<1>2. CASE WayOut(d)
  <2>1. RaiseKill(d) \/ Exit(d)
    BY <1>2
    DEF WayOut, At, KillRegistered, WipeBuffers, KillChild, UnlinkPid,
        CleanupWipe, UnlinkSocket, UnlinkPidfile, DropChild, DropBuffers
  <2> QED
    BY <2>1 DEF RaiseKill, Exit, At, Die, LeaveBy
<1>3. CASE TakeSignal(d) \/ ClientLost(d) \/ ClientQuits(d)
  BY <1>3 DEF TakeSignal, ClientLost, ClientQuits, At
<1>4. CASE ControlRequest(d) \/ ChildExits(d)
  BY <1>4 DEF ControlRequest, ChildExits, stepVars
<1>5. Permitted(d)
  BY AllPermitted
<1>6. CASE Signalled(d)
  BY <1>6 DEF Signalled, Deliver, Die, LeaveBy, stepVars
<1>7. CASE KilledOutside(d)
  BY <1>5, <1>7 DEF KilledOutside, Die, LeaveBy
<1> QED
  BY <1>1, <1>2, <1>3, <1>4, <1>6, <1>7 DEF Work, Outside

\* Its lethal action and its clean return leave no pidfile that names it.
THEOREM AloneLeavesNoPid == Spec => NoStalePid
<1>1. ASSUME TypeOK, HostInv, PathInv, Next,
             NEW d \in Daemon \ overlap, Ends(d), how'[d] # "error"
      PROVE  pidfile' # pid[d]
  <2>1. pc[d] \in Last
    BY <1>1, EndsLast
  <2>2. pidfile = NoFile \/ (pc[d] = "exit" /\ how[d] = "error")
    <3>1. Files(d)
      BY <1>1 DEF PathInv
    <3> QED
      BY <2>1, <3>1 DEF Files, Last, Dropping
  <2>3. pid[d] # NoFile
    <3>1. pid[d] \in Pid \cup {0}
      BY <1>1 DEF TypeOK
    <3> QED
      BY <3>1, GoodnightAssumption DEF NoFile, Pid
  <2>4. ASSUME NEW e \in Daemon, Work(e) \/ Outside(e)
        PROVE  pidfile' # pid[d]
    <3>1. CASE e = d
      BY <1>1, <2>1, <2>2, <2>3, <2>4, <3>1, LastStep
    <3>2. CASE e # d
      <4>1. ~Alive(e)
        BY <1>1, <3>2 DEF PathInv, Ends
      <4>2. Start(e)
        BY <1>1, <2>4, <4>1, Neighbours
      <4>3. pc'[d] = pc[d]
        BY <1>1, <3>2, <4>2 DEF Start, GoOn, TypeOK
      <4> QED
        BY <1>1, <4>3
        DEF Ends, Alive, Steps, StartUp, Lethal, Leaving, Dropping
    <3> QED
      BY <3>1, <3>2
  <2>5. ASSUME NEW p \in Pid, AgentChanges(p) PROVE pidfile' # pid[d]
    BY <1>1, <2>5
    DEF AgentChanges, stepVars, Ends, Alive, Steps, StartUp, Lethal, Leaving,
        Dropping
  <2> QED
    BY <1>1, <2>4, <2>5 DEF Next
<1>2. TypeOK /\ HostInv /\ PathInv /\ [Next]_vars =>
        [\A d \in Daemon \ overlap :
            Ends(d) /\ how'[d] # "error" => pidfile' # pid[d]]_vars
  BY <1>1
<1> QED
  BY <1>2, PathAlways, PTL DEF Spec, NoStalePid

=============================================================================
