---------------------------- MODULE PromiseProofs ----------------------------
(***************************************************************************)
(* The watchdog implements the dead man's switch: every step of Watchdog   *)
(* is a step of KillSwitch or leaves its variables alone.                  *)
(***************************************************************************)
EXTENDS WatchdogProofs

\* What the mapping needs to know: a window is open only when armed, and the
\* last phases come after the wipe.
PromiseInv ==
    /\ deadline # "none" => armed
    /\ pc \in {"kill", "lethal", "dead", "returned", "exited"} => wiped

BootPhase == {"start", "load", "session_start", "arm_startup"}

\* The mapping of the program counter, one case at a time.
PhaseFacts ==
    /\ pc \in BootPhase => Phase = "guarding"
    /\ pc = "loop" /\ ~stop => Phase = "guarding"
    /\ pc = "loop" /\ stop => Phase = "leaving"
    /\ pc = "kill_registered" => Phase = "condemned"
    /\ pc \in {"wipe", "kill", "lethal"} => Phase = "avenged"
    /\ pc \in {"dry_wipe", "dry_done", "cleanup", "returned"} =>
           Phase = "leaving"
    /\ pc = "dead" => Phase = "dead"
    /\ pc = "exited" => Phase = "departed"

LEMMA PhaseNow == PhaseFacts
  BY DEF PhaseFacts, Phase, DryPath, BootPhase

LEMMA PhaseNext == PhaseFacts'
  BY DEF PhaseFacts, Phase, DryPath, BootPhase

\* A thread other than the main one leaves Phase alone.
LEMMA PhaseKept ==
    ASSUME UNCHANGED <<pc, stop>>
    PROVE  UNCHANGED Phase
  BY DEF Phase

LEMMA PresentWhileAlive ==
    ASSUME TypeOK, Alive
    PROVE  Phase \notin {"dead", "departed"}
  BY DEF TypeOK, MainPhase, KillPath, DryPath, Alive, Phase

-----------------------------------------------------------------------------

LEMMA PromiseInvInductive ==
    ASSUME TypeOK, PromiseInv, [Next]_vars
    PROVE  PromiseInv'
<1> USE DEF PromiseInv, policyVars, mainVars
<1>1. CASE BootStep
  BY <1>1 DEF BootStep, SpawnThreads, LoadArmed, RecordSessionStart,
     RecordArmStartup
<1>2. CASE CallStep
  BY <1>2 DEF CallStep, KillRegistered, WipeArmed, RecordSelfKill, WipeDry,
     DryDone, Cleanup
<1>3. CASE StopSeen \/ OnConnected \/ OnCancel \/ OnTimeout
  BY <1>3 DEF StopSeen, OnConnected, OnCancel, OnTimeout, Receive, CancelPanic,
     Tick, Execute
<1>4. ASSUME NEW t, NEW r, OnLoss(t, r) \/ OnStandDown(t, r)
      PROVE  PromiseInv'
  BY <1>4 DEF OnLoss, OnStandDown, Receive, RequestGraceful, DryWipe,
     OpenWindow, Execute
<1>5. CASE OnUsr1 \/ OnUsr2
  BY <1>5 DEF OnUsr1, OnUsr2, Receive, RequestGraceful, RequestHard, DryWipe,
     OpenWindow, Execute
<1>6. ASSUME NEW c \in Client, ReaderStep(c) \/ ClientStep(c)
      PROVE  PromiseInv'
  BY <1>6 DEF ReaderStep, ClientStep, ClientCancel, Drop, MissPing, ClientQuit,
     Claim, Number, Announce, SendTerminal, Release
<1>7. ASSUME NEW k \in Control, ControlStep(k) PROVE PromiseInv'
  BY <1>7 DEF ControlStep, EnterControl, LeaveControl, CheckPid, Register,
     Unregister, Arm, RecordArm
<1>8. CASE WorldStep
  BY <1>8 DEF WorldStep, SignalArrives, ProcessEnds, PidReused
<1>9. CASE Clock \/ Lethal \/ Exit \/ UNCHANGED vars
  BY <1>9 DEF Clock, GraceExpires, Lethal, Exit, vars
<1> QED
  BY <1>1, <1>2, <1>3, <1>4, <1>5, <1>6, <1>7, <1>8, <1>9
     DEF Next, KikkaStep, MainStep, LoopStep, Halted

-----------------------------------------------------------------------------
(* The steps of the main thread.                                            *)

LEMMA BootMaps ==
    ASSUME BootStep
    PROVE  UNCHANGED Switch!vars \/ Switch!StandDown
  BY PhaseNow, PhaseNext
     DEF BootStep, SpawnThreads, LoadArmed, RecordSessionStart,
         RecordArmStartup, PhaseFacts, BootPhase, mainVars, pidVars,
         Switch!vars, Switch!StandDown

\* A trigger is refused, opens a window, condemns or stands down.
LEMMA TriggerMaps ==
    ASSUME TypeOK, PromiseInv, pc = "loop", ~stop,
           UNCHANGED <<armed, stop, registered, proc, wiped>>,
           \/ RequestGraceful(grace) \/ RequestHard \/ CancelPanic \/ Tick
    PROVE  UNCHANGED Switch!vars \/ Switch!Condemn \/ Switch!StandDown
<1>1. Phase = "guarding"
  BY PhaseNow DEF PhaseFacts
<1>2. \/ pc' = "loop"
      \/ pc' = "kill_registered" /\ armed
      \/ pc' = "dry_wipe"
  BY DEF PromiseInv, RequestGraceful, RequestHard, CancelPanic, Tick, Execute,
         DryWipe, OpenWindow
<1>3. CASE pc' = "loop"
  BY <1>1, <1>3, PhaseNext DEF PhaseFacts, Switch!vars
<1>4. CASE pc' = "kill_registered" /\ armed
  BY <1>1, <1>4, PhaseNext DEF PhaseFacts, Switch!Condemn
<1>5. CASE pc' = "dry_wipe"
  BY <1>1, <1>5, PhaseNext DEF PhaseFacts, Switch!StandDown
<1> QED
  BY <1>2, <1>3, <1>4, <1>5

LEMMA LoopMaps ==
    ASSUME TypeOK, PromiseInv, LoopStep
    PROVE  UNCHANGED Switch!vars \/ Switch!Condemn \/ Switch!StandDown
<1>1. CASE StopSeen
  BY <1>1, PhaseNow, PhaseNext
     DEF StopSeen, PhaseFacts, pidVars, Switch!vars
<1>2. CASE OnConnected \/ OnCancel
  BY <1>2, TriggerMaps DEF OnConnected, OnCancel, Receive, pidVars
<1>3. ASSUME NEW t, NEW r, OnLoss(t, r)
      PROVE  UNCHANGED Switch!vars \/ Switch!Condemn \/ Switch!StandDown
  <2>1. CASE RequestGraceful(grace)
    BY <1>3, <2>1, TriggerMaps DEF OnLoss, Receive, pidVars
  <2>2. CASE UNCHANGED pc
    BY <1>3, <2>2, PhaseKept DEF OnLoss, Receive, pidVars, Switch!vars
  <2> QED
    BY <1>3, <2>1, <2>2 DEF OnLoss
<1>4. ASSUME NEW t, NEW r, OnStandDown(t, r) PROVE Switch!StandDown
  BY <1>4, PhaseNow, PhaseNext
     DEF OnStandDown, Receive, PhaseFacts, pidVars, Switch!StandDown
<1>5. CASE OnUsr1 \/ OnUsr2
  BY <1>5, TriggerMaps DEF OnUsr1, OnUsr2, Receive, pidVars
<1>6. CASE OnTimeout
  BY <1>6, TriggerMaps DEF OnTimeout, Tick, Execute, mainVars, pidVars
<1> QED
  BY <1>1, <1>2, <1>3, <1>4, <1>5, <1>6 DEF LoopStep

\* A step that wipes is Wipe, or nothing when the secret is already gone.
LEMMA WipeMaps ==
    ASSUME TypeOK, wiped' = TRUE, Phase \in {"avenged", "leaving"},
           UNCHANGED <<armed, registered, proc, Phase>>
    PROVE  UNCHANGED Switch!vars \/ Switch!Wipe
<1>1. CASE wiped = TRUE
  BY Zenon, <1>1 DEF Switch!vars
<1>2. CASE wiped = FALSE
  BY Zenon, <1>2 DEF Switch!Wipe
<1> QED
  BY Zenon, <1>1, <1>2 DEF TypeOK

LEMMA CallMaps ==
    ASSUME TypeOK, CallStep
    PROVE  UNCHANGED Switch!vars \/ Switch!KillProtected \/ Switch!Wipe
<1> USE PhaseNow, PhaseNext DEF PhaseFacts, mainVars, pidVars
<1>1. CASE KillRegistered
  BY <1>1 DEF KillRegistered, AfterKill, Switch!KillProtected
<1>2. CASE WipeArmed \/ WipeDry \/ Cleanup
  <2>1. Phase \in {"avenged", "leaving"} /\ UNCHANGED Phase
    BY <1>2 DEF WipeArmed, WipeDry, Cleanup
  <2>2. wiped' = TRUE /\ UNCHANGED <<armed, registered, proc>>
    BY Zenon, <1>2 DEF WipeArmed, WipeDry, Cleanup
  <2> QED
    BY Zenon, <2>1, <2>2, WipeMaps
<1>3. CASE RecordSelfKill
  BY <1>3 DEF RecordSelfKill, Switch!vars
<1>4. CASE DryDone
  BY <1>4 DEF DryDone, Switch!vars
<1> QED
  BY <1>1, <1>2, <1>3, <1>4 DEF CallStep

LEMMA LeaveMaps ==
    ASSUME PromiseInv, Lethal \/ Exit
    PROVE  Switch!Die \/ Switch!Depart
  BY PhaseNow, PhaseNext
     DEF PromiseInv, Lethal, Exit, PhaseFacts, mainVars, pidVars,
         Switch!Die, Switch!Depart

-----------------------------------------------------------------------------
(* The steps of the other threads and of the world outside.                 *)

LEMMA ClientMaps ==
    ASSUME NEW c \in Client, ReaderStep(c) \/ ClientStep(c)
    PROVE  UNCHANGED Switch!vars
  BY PhaseKept
     DEF ReaderStep, ClientStep, ClientCancel, Drop, MissPing, ClientQuit,
         Claim, Number, Announce, SendTerminal, Release, policyVars, mainVars,
         pidVars, Switch!vars

LEMMA ControlMaps ==
    ASSUME TypeOK, NEW k \in Control, ControlStep(k)
    PROVE  \/ UNCHANGED Switch!vars
           \/ Switch!Arm
           \/ \E p \in Pid : Switch!Protect(p) \/ Switch!Unprotect(p)
<1> USE DEF policyVars, mainVars, pidVars
<1>1. UNCHANGED <<pc, stop>> /\ Alive
  BY DEF ControlStep, EnterControl, LeaveControl, CheckPid, Register,
         Unregister, Arm, RecordArm, Up
<1>2. UNCHANGED Phase /\ Phase \notin {"dead", "departed"}
  BY <1>1, PhaseKept, PresentWhileAlive
<1>3. CASE EnterControl(k) \/ LeaveControl(k) \/ RecordArm(k)
           \/ \E p \in Pid : CheckPid(k, p)
  BY <1>2, <1>3 DEF EnterControl, LeaveControl, RecordArm, CheckPid,
     Switch!vars
<1>4. CASE Register(k)
  BY <1>2, <1>4 DEF TypeOK, Register, Switch!Protect, Switch!Present,
     Switch!vars
<1>5. ASSUME NEW p \in Pid, Unregister(k, p) PROVE Switch!Unprotect(p)
  BY <1>2, <1>5 DEF Unregister, Switch!Unprotect, Switch!Present
<1>6. CASE Arm(k)
  BY <1>2, <1>6 DEF Arm, Switch!Arm, Switch!Present
<1> QED
  BY <1>3, <1>4, <1>5, <1>6 DEF ControlStep

LEMMA WorldMaps ==
    ASSUME TypeOK, WorldStep
    PROVE  \/ UNCHANGED Switch!vars
           \/ \E p \in Pid : Switch!ProcessChanges(p)
<1> USE DEF policyVars, mainVars, pidVars
<1>1. UNCHANGED <<pc, stop>> /\ Alive
  BY DEF WorldStep, SignalArrives, ProcessEnds, PidReused, Up
<1>2. UNCHANGED Phase /\ Phase \notin {"dead", "departed"}
  BY <1>1, PhaseKept, PresentWhileAlive
<1>3. ASSUME NEW s \in Signal, SignalArrives(s) PROVE UNCHANGED Switch!vars
  BY <1>2, <1>3 DEF SignalArrives, Switch!vars
<1>4. ASSUME NEW p \in Pid, ProcessEnds(p) \/ PidReused(p)
      PROVE  Switch!ProcessChanges(p)
  BY <1>2, <1>4 DEF ProcessEnds, PidReused, Switch!ProcessChanges,
     Switch!Present
<1> QED
  BY <1>3, <1>4 DEF WorldStep

LEMMA StepMaps ==
    ASSUME TypeOK, PromiseInv, [Next]_vars
    PROVE  [Switch!Next]_(Switch!vars)
<1>1. CASE MainStep
  BY <1>1, BootMaps, LoopMaps, CallMaps DEF MainStep, Switch!Next,
     Switch!WayOut
<1>2. CASE Lethal \/ Exit
  BY <1>2, LeaveMaps DEF Switch!Next, Switch!WayOut
<1>3. CASE Clock
  BY <1>3, PhaseKept DEF Clock, mainVars, pidVars, Switch!vars
<1>4. ASSUME NEW c \in Client, ReaderStep(c) \/ ClientStep(c)
      PROVE  UNCHANGED Switch!vars
  BY <1>4, ClientMaps
<1>5. ASSUME NEW k \in Control, ControlStep(k) PROVE [Switch!Next]_(Switch!vars)
  BY <1>5, ControlMaps DEF Switch!Next
<1>6. CASE WorldStep
  BY <1>6, WorldMaps DEF Switch!Next
<1>7. CASE UNCHANGED vars
  BY <1>7, PhaseKept DEF vars, policyVars, mainVars, pidVars, Switch!vars
<1> QED
  BY <1>1, <1>2, <1>3, <1>4, <1>5, <1>6, <1>7 DEF Next, KikkaStep, Halted

(* The watchdog takes only steps the dead man's switch may take: only an    *)
(* armed one kills, it kills the registered processes it may signal before  *)
(* it destroys the secret, and destroys the secret before it dies or        *)
(* leaves.  A process of another user survives, and keeps it from neither.  *)
THEOREM ImplementsSwitch == Spec => SafePromise
<1>1. Init => PromiseInv /\ Switch!Init
  BY PhaseNow DEF Init, PromiseInv, PhaseFacts, BootPhase, Switch!Init
<1>2. TypeOK /\ PromiseInv /\ [Next]_vars =>
          PromiseInv' /\ [Switch!Next]_(Switch!vars)
  BY PromiseInvInductive, StepMaps
<1> QED
  BY <1>1, <1>2, TypeCorrect, PTL DEF Spec, SafePromise, Switch!Safety

-----------------------------------------------------------------------------
(* What the sink says.                                                      *)

\* What has to be so for a record to be true, of the armed and wiped flags and
\* of the processes.
Truth(r, a, w, q) ==
    /\ r.event = "kill" /\ r.executed =>
           a /\ \A p \in r.pids : q[p] # "agent"
    /\ r.event = "wipe" => w
    /\ r.event = "arm" => a

\* Who is about to act on the armed flag has seen it up.
ArmInv ==
    /\ deadline # "none" \/ pc \in KillPath => armed
    /\ armedAtStart => armed
    /\ pc = "arm_startup" => armedAtStart
    /\ \A k \in Control : ctl[k] = "armed_now" => armed

\* The steps that record something.
Recording ==
    \/ RecordSessionStart \/ RecordArmStartup
    \/ KillRegistered \/ WipeArmed \/ RecordSelfKill
    \/ WipeDry \/ DryDone \/ Cleanup
    \/ \E k \in Control : RecordArm(k)

(* Every other step leaves the sink alone.  Nothing disarms, unwipes or     *)
(* revives: what a record needs to be true stays so.                        *)
LEMMA SinkSteps ==
    ASSUME TypeOK, [Next]_vars
    PROVE  /\ Recording \/ UNCHANGED sink
           /\ armed => armed'
           /\ wiped => wiped'
           /\ \A p \in Pid : proc[p] # "agent" => proc'[p] # "agent"
<1> DEFINE Kept == /\ armed => armed'
                   /\ wiped => wiped'
                   /\ \A p \in Pid : proc[p] # "agent" => proc'[p] # "agent"
<1> USE DEF policyVars, mainVars, pidVars, Recording
<1>1. CASE BootStep
  BY <1>1 DEF BootStep, SpawnThreads, LoadArmed, RecordSessionStart,
     RecordArmStartup
<1>2. CASE CallStep
  BY <1>2 DEF TypeOK, CallStep, KillRegistered, AfterKill, WipeArmed,
     RecordSelfKill, WipeDry, DryDone, Cleanup
<1>3. CASE LoopStep
  BY <1>3 DEF LoopStep, StopSeen, OnConnected, OnLoss, OnCancel, OnStandDown,
     OnUsr1, OnUsr2, OnTimeout, Receive
<1>4. ASSUME NEW c \in Client, ReaderStep(c) \/ ClientStep(c)
      PROVE  Kept /\ UNCHANGED sink
  BY <1>4 DEF ReaderStep, ClientStep, ClientCancel, Drop, MissPing, ClientQuit,
     Claim, Number, Announce, SendTerminal, Release
<1>5. ASSUME NEW k \in Control, ControlStep(k)
      PROVE  Kept /\ (RecordArm(k) \/ UNCHANGED sink)
  BY <1>5 DEF ControlStep, EnterControl, LeaveControl, CheckPid, Register,
     Unregister, Arm, RecordArm
<1>6. CASE WorldStep
  BY <1>6 DEF TypeOK, WorldStep, SignalArrives, ProcessEnds, PidReused
<1>7. CASE Clock \/ Lethal \/ Exit \/ UNCHANGED vars
  BY <1>7 DEF Clock, Lethal, Exit, vars
<1> QED
  BY <1>1, <1>2, <1>3, <1>4, <1>5, <1>6, <1>7
     DEF Next, KikkaStep, MainStep, Halted

LEMMA ArmInvInductive ==
    ASSUME TypeOK, ArmInv, [Next]_vars
    PROVE  ArmInv'
<1> USE DEF ArmInv, policyVars, mainVars, KillPath
<1>0. armed => armed'
  BY SinkSteps
<1>1. CASE SpawnThreads \/ RecordSessionStart \/ RecordArmStartup
  BY <1>1 DEF SpawnThreads, RecordSessionStart, RecordArmStartup, ctlVars
<1>2. CASE LoadArmed
  <2>1. armedAtStart' => armed'
    BY Zenon, <1>2 DEF LoadArmed
  <2> QED
    BY <1>2, <2>1 DEF LoadArmed, ctlVars
<1>3. CASE CallStep
  <2>1. UNCHANGED <<armed, armedAtStart, ctl, deadline>> /\ pc' # "arm_startup"
    BY <1>3 DEF CallStep, KillRegistered, WipeArmed, RecordSelfKill, WipeDry,
       DryDone, Cleanup, ctlVars
  <2>2. pc' \in KillPath => pc \in KillPath
    BY <1>3 DEF CallStep, KillRegistered, WipeArmed, RecordSelfKill, WipeDry,
       DryDone, Cleanup
  <2> QED
    BY <2>1, <2>2
<1>4. CASE StopSeen \/ OnConnected \/ OnCancel \/ OnTimeout
  BY <1>4 DEF StopSeen, OnConnected, OnCancel, OnTimeout, Receive, CancelPanic,
     Tick, Execute, ctlVars
<1>5. ASSUME NEW t, NEW r, OnLoss(t, r) \/ OnStandDown(t, r)
      PROVE  ArmInv'
  BY <1>5 DEF OnLoss, OnStandDown, Receive, RequestGraceful, DryWipe,
     OpenWindow, Execute, ctlVars
<1>6. CASE OnUsr1 \/ OnUsr2
  BY <1>6 DEF OnUsr1, OnUsr2, Receive, RequestGraceful, RequestHard, DryWipe,
     OpenWindow, Execute, ctlVars
<1>7. ASSUME NEW c \in Client, ReaderStep(c) \/ ClientStep(c)
      PROVE  ArmInv'
  BY <1>7 DEF ReaderStep, ClientStep, ClientCancel, Drop, MissPing, ClientQuit,
     Claim, Number, Announce, SendTerminal, Release, ctlVars
<1>8. ASSUME NEW k \in Control, ControlStep(k) PROVE ArmInv'
  <2>1. UNCHANGED <<deadline, pc, armedAtStart>>
    BY <1>8 DEF ControlStep, EnterControl, LeaveControl, CheckPid, Register,
       Unregister, Arm, RecordArm
  <2>2. \A j \in Control : ctl'[j] = "armed_now" => ctl[j] = "armed_now" \/ armed'
    <3>1. CASE EnterControl(k) \/ LeaveControl(k) \/ Register(k) \/ RecordArm(k)
      BY <3>1 DEF TypeOK, EnterControl, LeaveControl, Register, RecordArm
    <3>2. CASE Arm(k)
      BY <3>2 DEF Arm
    <3>3. ASSUME NEW p \in Pid, CheckPid(k, p) \/ Unregister(k, p)
          PROVE  \A j \in Control : ctl'[j] = "armed_now" => ctl[j] = "armed_now"
      BY <3>3 DEF TypeOK, CheckPid, Unregister, ctlVars
    <3> QED
      BY <1>8, <3>1, <3>2, <3>3 DEF ControlStep
  <2>3. UNCHANGED armedAtStart
    BY <2>1
  <2>4. armedAtStart' => armed'
    BY Zenon, <1>0, <2>3
  <2>5. pc' = "arm_startup" => armedAtStart'
    BY <2>1
  <2> QED
    BY <1>0, <2>1, <2>2, <2>4, <2>5
<1>9. CASE WorldStep
  BY <1>9 DEF WorldStep, SignalArrives, ProcessEnds, PidReused, ctlVars
<1>10. CASE Clock \/ Lethal \/ Exit \/ UNCHANGED vars
  BY <1>10 DEF Clock, GraceExpires, Lethal, Exit, vars, ctlVars
<1> QED
  BY <1>1, <1>2, <1>3, <1>4, <1>5, <1>6, <1>7, <1>8, <1>9, <1>10
     DEF Next, KikkaStep, MainStep, BootStep, LoopStep, Halted

(* A sink that grows by true records is as true as it was.                  *)
LEMMA GrowsTruly ==
    ASSUME TypeOK, SinkIsTrue, [Next]_vars, NEW s \in Seq(Record),
           sink' = sink \o s, \A i \in 1..Len(s) : Truth(s[i], armed', wiped', proc')
    PROVE  SinkIsTrue'
<1> SUFFICES ASSUME NEW i \in 1..Len(sink') PROVE Truth(sink'[i], armed', wiped', proc')
  BY DEF SinkIsTrue, Truth
<1>1. sink \in Seq(Record)
  BY DEF TypeOK
<1>2. CASE i \in 1..Len(sink)
  <2>1. sink'[i] = sink[i] /\ sink[i] \in Record
    BY <1>1, <1>2
  <2>2. Truth(sink[i], armed, wiped, proc)
    BY <1>2 DEF SinkIsTrue, Truth
  <2>3. \A p : sink[i].event = "kill" /\ p \in sink[i].pids => p \in Pid
    BY <2>1 DEF Record
  <2> QED
    BY <2>1, <2>2, <2>3, SinkSteps DEF Truth
<1>3. CASE i \notin 1..Len(sink)
  <2>1. i - Len(sink) \in 1..Len(s) /\ sink'[i] = s[i - Len(sink)]
    BY <1>1, <1>3
  <2> QED
    BY <2>1 DEF Truth
<1> QED
  BY <1>2, <1>3

LEMMA AppendIsConcat ==
    ASSUME TypeOK, NEW r \in Record
    PROVE  <<r>> \in Seq(Record) /\ Append(sink, r) = sink \o <<r>>
  BY DEF TypeOK

LEMMA SinkInductive ==
    ASSUME TypeOK, ArmInv, SinkIsTrue, [Next]_vars
    PROVE  SinkIsTrue'
<1>1. ASSUME NEW r \in Record, sink' = Append(sink, r), Truth(r, armed', wiped', proc')
      PROVE  SinkIsTrue'
  <2>1. \A i \in 1..Len(<<r>>) : <<r>>[i] = r
    OBVIOUS
  <2>2. \A i \in 1..Len(<<r>>) : Truth(<<r>>[i], armed', wiped', proc')
    BY Zenon, <1>1, <2>1
  <2> QED
    BY Zenon, <1>1, <2>2, AppendIsConcat, GrowsTruly
<1>2. CASE RecordSessionStart
  <2>1. armedAtStart \in BOOLEAN
    BY DEF TypeOK
  <2> PICK r \in Record : r = [event |-> "session_start", armed |-> armedAtStart]
    BY <2>1, RecordTypes
  <2>2. Truth(r, armed', wiped', proc')
    BY DEF Truth
  <2> QED
    BY <1>1, <1>2, <2>2 DEF RecordSessionStart, Emit
<1>3. CASE RecordArmStartup
  <2> PICK r \in Record : r = [event |-> "arm", via |-> "startup"]
    BY RecordTypes
  <2>1. armed'
    BY <1>3, SinkSteps DEF ArmInv, RecordArmStartup
  <2>2. Truth(r, armed', wiped', proc')
    BY <2>1 DEF Truth
  <2> QED
    BY <1>1, <1>3, <2>2 DEF RecordArmStartup, Emit
<1>4. ASSUME NEW k \in Control, RecordArm(k) PROVE SinkIsTrue'
  <2> PICK r \in Record : r = [event |-> "arm", via |-> "control"]
    BY RecordTypes
  <2>1. armed'
    BY <1>4, SinkSteps DEF ArmInv, RecordArm
  <2>2. Truth(r, armed', wiped', proc')
    BY <2>1 DEF Truth
  <2> QED
    BY <1>1, <1>4, <2>2 DEF RecordArm, Emit
<1>5. CASE KillRegistered
  <2> PICK r \in Record : r = KillRecord("registered", TRUE, registered)
    BY RecordTypes DEF TypeOK
  <2>1. armed'
    BY <1>5, SinkSteps DEF ArmInv, KillRegistered, KillPath
  <2>2. \A p \in registered : p \in Pid /\ proc'[p] # "agent"
    BY <1>5 DEF TypeOK, KillRegistered, AfterKill
  <2>3. r.event = "kill" /\ r.pids = registered
    BY DEF KillRecord
  <2>4. Truth(r, armed', wiped', proc')
    BY <2>1, <2>2, <2>3 DEF Truth
  <2> QED
    BY <1>1, <1>5, <2>4 DEF KillRegistered, Emit
<1>6. CASE RecordSelfKill
  <2> PICK r \in Record : r = KillRecord("self", TRUE, {})
    BY RecordTypes
  <2>1. armed'
    BY <1>6, SinkSteps DEF ArmInv, RecordSelfKill, KillPath
  <2>2. r.event = "kill" /\ r.pids = {}
    BY DEF KillRecord
  <2>3. Truth(r, armed', wiped', proc')
    BY <2>1, <2>2 DEF Truth
  <2> QED
    BY <1>1, <1>6, <2>3 DEF RecordSelfKill, Emit
<1>7. CASE WipeArmed \/ WipeDry
  <2> PICK r \in Record : r = ReasonRecord("wipe", trigger)
    BY RecordTypes DEF TypeOK
  <2>1. wiped' /\ sink' = Append(sink, r)
    BY <1>7 DEF WipeArmed, WipeDry, Emit
  <2>2. Truth(r, armed', wiped', proc')
    BY <2>1 DEF Truth, ReasonRecord
  <2> QED
    BY <1>1, <2>1, <2>2
<1>8. CASE DryDone
  <2> PICK a \in Record : a = KillRecord("registered", FALSE, registered)
    BY RecordTypes DEF TypeOK
  <2> PICK b \in Record : b = KillRecord("self", FALSE, {})
    BY RecordTypes
  <2>1. Truth(a, armed', wiped', proc') /\ Truth(b, armed', wiped', proc')
    BY DEF Truth, KillRecord
  <2>5. \A x, y \in Record : /\ <<x, y>> \in Seq(Record)
                           /\ \A i \in 1..Len(<<x, y>>) : <<x, y>>[i] \in {x, y}
    OBVIOUS
  <2>2. <<a, b>> \in Seq(Record) /\ \A i \in 1..Len(<<a, b>>) : <<a, b>>[i] \in {a, b}
    BY Zenon, <2>5
  <2>4. \A i \in 1..Len(<<a, b>>) : Truth(<<a, b>>[i], armed', wiped', proc')
    BY Zenon, <2>1, <2>2
  <2>3. sink' = sink \o <<a, b>>
    BY <1>8 DEF DryDone
  <2> QED
    BY Zenon, <2>2, <2>3, <2>4, GrowsTruly
<1>9. CASE Cleanup
  <2> PICK a \in Record : a = ReasonRecord("wipe", end)
    BY RecordTypes DEF TypeOK
  <2> PICK b \in Record : b = ReasonRecord("session_end", end)
    BY RecordTypes DEF TypeOK
  <2>1. Truth(a, armed', wiped', proc') /\ Truth(b, armed', wiped', proc')
    BY <1>9 DEF Truth, ReasonRecord, Cleanup
  <2>2. CASE fired
    <3>1. sink' = Append(sink, b)
      BY <1>9, <2>2 DEF TypeOK, Cleanup
    <3> QED
      BY <1>1, <2>1, <3>1
  <2>3. CASE ~fired
    <3>1. <<a, b>> \in Seq(Record) /\ \A i \in 1..Len(<<a, b>>) : <<a, b>>[i] \in {a, b}
      OBVIOUS
    <3>3. \A i \in 1..Len(<<a, b>>) : Truth(<<a, b>>[i], armed', wiped', proc')
      BY Zenon, <2>1, <3>1
    <3>2. sink' = sink \o <<a, b>>
      BY <1>9, <2>3 DEF TypeOK, Cleanup
    <3> QED
      BY Zenon, <3>1, <3>2, <3>3, GrowsTruly
  <2> QED
    BY <2>2, <2>3
<1>10. CASE UNCHANGED sink
  <2>1. <<>> \in Seq(Record) /\ sink' = sink \o <<>> /\ 1..Len(<<>>) = {}
    BY <1>10 DEF TypeOK
  <2> QED
    BY Zenon, <2>1, GrowsTruly
<1> QED
  BY <1>2, <1>3, <1>4, <1>5, <1>6, <1>7, <1>8, <1>9, <1>10, SinkSteps
     DEF Recording

(* What the sink tells, whatever races: no agent recorded as killed is      *)
(* alive unless it is another user's, whose kill was refused; buffers       *)
(* recorded as wiped are zero; only an armed daemon records an execution.   *)
THEOREM SinkAlwaysTrue == Spec => []SinkIsTrue
<1>1. Init => ArmInv /\ SinkIsTrue
  BY DEF Init, ArmInv, SinkIsTrue, KillPath
<1>2. TypeOK /\ ArmInv /\ SinkIsTrue /\ [Next]_vars => ArmInv' /\ SinkIsTrue'
  BY ArmInvInductive, SinkInductive
<1> QED
  BY <1>1, <1>2, TypeCorrect, PTL DEF Spec

-----------------------------------------------------------------------------
(* One story.                                                               *)

\* The records of the end are the first m of a story, all for one reason.
Told(s, story, m, why) ==
    /\ Tells(s, story)
    /\ Cardinality(Ending(s)) = m
    /\ \A i \in Ending(s) : s[i].reason = why

LEMMA EndingFinite ==
    ASSUME NEW s \in Seq(Record)
    PROVE  /\ Ending(s) \subseteq 1..Len(s)
           /\ IsFiniteSet(Ending(s)) /\ Cardinality(Ending(s)) \in Nat
           /\ Cardinality(Ending(s)) = 0 <=> Ending(s) = {}
<1>1. Ending(s) \subseteq 1..Len(s) /\ IsFiniteSet(1..Len(s))
  BY FS_Interval DEF Ending
<1> QED
  BY <1>1, FS_Subset, FS_CardinalityType, FS_EmptySet

(* A record of the end takes the next rank; any other changes no rank.      *)
LEMMA EndingAppend ==
    ASSUME NEW s \in Seq(Record), NEW r \in Record
    PROVE  LET t == Append(s, r) IN
           /\ \A i \in Ending(s) : t[i] = s[i] /\ Rank(t, i) = Rank(s, i)
           /\ r.event \notin EndEvent => Ending(t) = Ending(s)
           /\ r.event \in EndEvent =>
                  /\ Ending(t) = Ending(s) \cup {Len(s) + 1}
                  /\ t[Len(s) + 1] = r
                  /\ Cardinality(Ending(t)) = Cardinality(Ending(s)) + 1
                  /\ Rank(t, Len(s) + 1) = Cardinality(Ending(s)) + 1
<1> DEFINE t == Append(s, r)
<1>1. /\ t \in Seq(Record) /\ Len(t) = Len(s) + 1 /\ Len(s) \in Nat
      /\ t[Len(s) + 1] = r /\ \A i \in 1..Len(s) : t[i] = s[i]
      /\ DOMAIN t = 1..(Len(s) + 1) /\ DOMAIN s = 1..Len(s)
  OBVIOUS
<1> HIDE DEF t
<1>2. Ending(t) = Ending(s) \/ Ending(t) = Ending(s) \cup {Len(s) + 1}
  BY <1>1 DEF Ending
<1>3. /\ r.event \notin EndEvent => Ending(t) = Ending(s)
      /\ r.event \in EndEvent => Ending(t) = Ending(s) \cup {Len(s) + 1}
  BY <1>1 DEF Ending
<1>4. Ending(s) \subseteq 1..Len(s)
  BY EndingFinite
<1>5. ASSUME NEW i \in Ending(s) PROVE t[i] = s[i] /\ Rank(t, i) = Rank(s, i)
  <2>1. {j \in Ending(t) : j <= i} = {j \in Ending(s) : j <= i}
    BY <1>1, <1>2, <1>4
  <2> QED
    BY <1>1, <1>4, <2>1 DEF Rank
<1>6. ASSUME r.event \in EndEvent
      PROVE  /\ Cardinality(Ending(t)) = Cardinality(Ending(s)) + 1
             /\ Rank(t, Len(s) + 1) = Cardinality(Ending(s)) + 1
  <2>1. Len(s) + 1 \notin Ending(s)
    BY <1>1, <1>4
  <2>2. Cardinality(Ending(t)) = Cardinality(Ending(s)) + 1
    BY <1>3, <1>6, <2>1, EndingFinite, FS_AddElement
  <2>3. {j \in Ending(t) : j <= Len(s) + 1} = Ending(t)
    BY <1>1, <1>2, <1>4
  <2> QED
    BY <2>2, <2>3 DEF Rank
<1> QED
  BY <1>1, <1>3, <1>5, <1>6 DEF t

LEMMA TellMore ==
    ASSUME NEW s \in Seq(Record), NEW r \in Record, r.event \in EndEvent,
           NEW story, NEW m \in Nat, NEW n \in Nat, NEW why,
           Told(s, story, m, why), n = m + 1, Len(story) \in Nat, n <= Len(story),
           Story(r) = story[n], r.reason = why
    PROVE  Told(Append(s, r), story, n, why)
<1> DEFINE t == Append(s, r)
<1>1. /\ Ending(t) = Ending(s) \cup {Len(s) + 1}
      /\ t[Len(s) + 1] = r
      /\ Cardinality(Ending(t)) = n
      /\ Rank(t, Len(s) + 1) = n
      /\ \A i \in Ending(s) : t[i] = s[i] /\ Rank(t, i) = Rank(s, i)
  BY EndingAppend DEF Told
<1> HIDE DEF t
<1>2. Tells(t, story)
  BY <1>1 DEF Told, Tells
<1>3. \A i \in Ending(t) : t[i].reason = why
  BY <1>1 DEF Told
<1> QED
  BY <1>1, <1>2, <1>3 DEF Told, t

LEMMA TellSame ==
    ASSUME NEW s \in Seq(Record), NEW r \in Record, r.event \notin EndEvent,
           NEW story, NEW m, NEW why, Told(s, story, m, why)
    PROVE  Told(Append(s, r), story, m, why)
<1> DEFINE t == Append(s, r)
<1>1. /\ Ending(t) = Ending(s)
      /\ \A i \in Ending(s) : t[i] = s[i] /\ Rank(t, i) = Rank(s, i)
  BY EndingAppend
<1> HIDE DEF t
<1> QED
  BY <1>1 DEF Told, Tells, t

(* A sink that says nothing of the end may begin any story.                 *)
LEMMA TellNothing ==
    ASSUME NEW s \in Seq(Record), NEW story, NEW why
    PROVE  Ending(s) = {} <=> Told(s, story, 0, why)
  BY EndingFinite DEF Told, Tells

LEMMA Stories ==
    /\ Len(KillStory) = 3 /\ Len(DryStory) = 4 /\ Len(CleanStory) = 2
    /\ KillStory[1] = <<"kill", "registered", TRUE>>
    /\ KillStory[2] = <<"wipe">>
    /\ KillStory[3] = <<"kill", "self", TRUE>>
    /\ DryStory[1] = <<"wipe">>
    /\ DryStory[2] = <<"kill", "registered", FALSE>>
    /\ DryStory[3] = <<"kill", "self", FALSE>>
    /\ DryStory[4] = <<"session_end">>
    /\ CleanStory[1] = <<"wipe">>
    /\ CleanStory[2] = <<"session_end">>
  BY DEF KillStory, DryStory, CleanStory

LEMMA Counting ==
    /\ 0 \in Nat /\ 1 \in Nat /\ 2 \in Nat /\ 3 \in Nat /\ 4 \in Nat
    /\ 1 = 0 + 1 /\ 2 = 1 + 1 /\ 3 = 2 + 1 /\ 4 = 3 + 1
    /\ 1 <= Len(KillStory) /\ 2 <= Len(KillStory) /\ 3 <= Len(KillStory)
    /\ 1 <= Len(DryStory) /\ 2 <= Len(DryStory) /\ 3 <= Len(DryStory)
    /\ 4 <= Len(DryStory)
    /\ 1 <= Len(CleanStory) /\ 2 <= Len(CleanStory)
  BY Stories

LEMMA RecordStories ==
    /\ \A t, x, ps :
           LET r == KillRecord(t, x, ps) IN
           /\ r.event \in EndEvent /\ r.reason = trigger
           /\ Story(r) = <<"kill", t, x>>
    /\ \A why : \A e \in {"wipe", "session_end"} :
           LET r == ReasonRecord(e, why) IN
           /\ r.event \in EndEvent /\ r.reason = why
           /\ Story(r) = <<e>>
  BY DEF KillRecord, ReasonRecord, EndEvent, Story

LEMMA TellKill ==
    ASSUME NEW s \in Seq(Record), NEW t, NEW x, NEW ps,
           KillRecord(t, x, ps) \in Record,
           NEW story \in {KillStory, DryStory, CleanStory},
           NEW m \in Nat, NEW n \in Nat,
           Told(s, story, m, trigger), n = m + 1, n <= Len(story),
           story[n] = <<"kill", t, x>>
    PROVE  Told(Append(s, KillRecord(t, x, ps)), story, n, trigger)
<1> DEFINE r == KillRecord(t, x, ps)
<1>1. /\ r.event \in EndEvent /\ r.reason = trigger
      /\ Story(r) = <<"kill", t, x>>
  BY DEF KillRecord, EndEvent, Story
<1>2. Len(story) \in Nat
  BY Stories
<1> HIDE DEF r
<1> QED
  BY <1>1, <1>2, TellMore DEF r

LEMMA TellReason ==
    ASSUME NEW s \in Seq(Record), NEW e \in {"wipe", "session_end"}, NEW why,
           ReasonRecord(e, why) \in Record,
           NEW story \in {KillStory, DryStory, CleanStory},
           NEW m \in Nat, NEW n \in Nat,
           Told(s, story, m, why), n = m + 1, n <= Len(story),
           story[n] = <<e>>
    PROVE  Told(Append(s, ReasonRecord(e, why)), story, n, why)
<1> DEFINE r == ReasonRecord(e, why)
<1>1. /\ r.event \in EndEvent /\ r.reason = why
      /\ Story(r) = <<e>>
  BY Zenon, RecordStories
<1>2. Len(story) \in Nat
  BY Stories
<1> HIDE DEF r
<1> QED
  BY <1>1, <1>2, TellMore DEF r

\* The main thread has not recorded anything of the end.
Untold ==
    \/ pc \in BootPhase \cup {"kill_registered", "dry_wipe"}
    \/ pc = "loop" /\ ~stop
    \/ pc = "cleanup" /\ ~fired

\* How much of which story has been told where the main thread is.
StoryInv ==
    /\ Untold => Ending(sink) = {}
    /\ pc = "wipe" => Told(sink, KillStory, 1, trigger)
    /\ pc = "kill" => Told(sink, KillStory, 2, trigger)
    /\ pc \in {"lethal", "dead"} => Told(sink, KillStory, 3, trigger)
    /\ pc = "dry_done" => Told(sink, DryStory, 1, trigger)
    /\ pc = "loop" /\ stop => Told(sink, DryStory, 3, trigger)
    /\ pc = "cleanup" /\ fired => Told(sink, DryStory, 3, end)
    /\ pc \in {"returned", "exited"} =>
           Told(sink, DryStory, 4, end) \/ Told(sink, CleanStory, 2, end)

\* The one-shot guard is up exactly on the way from a trigger to the end.
GuardInv ==
    /\ pc \in BootPhase => ~stop /\ ~fired
    /\ pc = "loop" => (stop <=> fired)
    /\ pc = "dry_done" => fired

(* What the other threads do touches neither the main thread's locals nor   *)
(* what has been told.                                                      *)
LEMMA OtherSteps ==
    ASSUME [Next]_vars
    PROVE  \/ MainStep \/ Lethal \/ Exit
           \/ /\ UNCHANGED <<pc, stop, fired, trigger, end>>
              /\ UNCHANGED sink \/ \E k \in Control : RecordArm(k)
<1> USE DEF policyVars, mainVars
<1>1. ASSUME NEW c \in Client, ReaderStep(c) \/ ClientStep(c)
      PROVE  UNCHANGED <<pc, stop, fired, trigger, end, sink>>
  BY <1>1 DEF ReaderStep, ClientStep, ClientCancel, Drop, MissPing, ClientQuit,
     Claim, Number, Announce, SendTerminal, Release
<1>2. ASSUME NEW k \in Control, ControlStep(k)
      PROVE  /\ UNCHANGED <<pc, stop, fired, trigger, end>>
             /\ UNCHANGED sink \/ RecordArm(k)
  BY <1>2 DEF ControlStep, EnterControl, LeaveControl, CheckPid, Register,
     Unregister, Arm, RecordArm
<1>3. CASE Clock \/ WorldStep \/ UNCHANGED vars
  BY <1>3 DEF Clock, WorldStep, SignalArrives, ProcessEnds, PidReused, vars
<1> QED
  BY <1>1, <1>2, <1>3 DEF Next, KikkaStep, Halted

LEMMA GuardInvInductive ==
    ASSUME TypeOK, GuardInv, [Next]_vars
    PROVE  GuardInv'
<1> USE DEF GuardInv, mainVars, BootPhase
<1>1. CASE BootStep
  BY <1>1 DEF BootStep, SpawnThreads, LoadArmed, RecordSessionStart,
     RecordArmStartup
<1>2. CASE KillRegistered \/ WipeArmed \/ RecordSelfKill \/ WipeDry \/ Cleanup
  BY <1>2 DEF KillRegistered, WipeArmed, RecordSelfKill, WipeDry, Cleanup
<1>3. CASE DryDone
  BY <1>3 DEF DryDone
<1>4. CASE StopSeen \/ OnConnected \/ OnCancel \/ OnTimeout
  BY <1>4 DEF StopSeen, OnConnected, OnCancel, OnTimeout, Receive, CancelPanic,
     Tick, Execute
<1>5. ASSUME NEW t, NEW r, OnLoss(t, r) \/ OnStandDown(t, r)
      PROVE  GuardInv'
  BY <1>5 DEF OnLoss, OnStandDown, Receive, RequestGraceful, DryWipe,
     OpenWindow, Execute
<1>6. CASE OnUsr1 \/ OnUsr2
  BY <1>6 DEF OnUsr1, OnUsr2, Receive, RequestGraceful, RequestHard, DryWipe,
     OpenWindow, Execute
<1>7. CASE Lethal \/ Exit
  BY <1>7 DEF Lethal, Exit
<1>8. CASE UNCHANGED <<pc, stop, fired, trigger, end>>
  BY <1>8
<1> QED
  BY <1>1, <1>2, <1>3, <1>4, <1>5, <1>6, <1>7, <1>8, OtherSteps
     DEF MainStep, LoopStep, CallStep

LEMMA TwoAppends ==
    ASSUME NEW s \in Seq(Record), NEW a \in Record, NEW b \in Record
    PROVE  s \o <<a, b>> = Append(Append(s, a), b)
  OBVIOUS

(* A step of the loop starts a story, or goes on with none begun.           *)
LEMMA LoopTellsNothing ==
    ASSUME TypeOK, GuardInv, StoryInv, LoopStep
    PROVE  StoryInv'
<1> USE DEF mainVars, BootPhase
<1>1. CASE StopSeen
  <2>1. Told(sink, DryStory, 3, trigger) /\ fired
    BY <1>1 DEF StoryInv, GuardInv, StopSeen
  <2>2. pc' = "cleanup" /\ UNCHANGED <<sink, fired>> /\ end' = trigger
    BY <1>1 DEF StopSeen
  <2> QED
    BY <2>1, <2>2 DEF StoryInv, Untold
<1>2. CASE ~StopSeen
  <2>1. UNCHANGED <<sink, stop>> /\ pc = "loop" /\ ~stop
    BY <1>2 DEF LoopStep, OnConnected, OnLoss, OnCancel, OnStandDown, OnUsr1,
       OnUsr2, OnTimeout, Receive
  <2>2. Ending(sink) = {} /\ ~fired
    BY <2>1 DEF StoryInv, GuardInv, Untold
  <2>3. Untold'
    <3>1. CASE OnConnected \/ OnCancel \/ OnTimeout
      BY <2>1, <3>1 DEF Untold, OnConnected, OnCancel, OnTimeout, Receive,
         CancelPanic, Tick, Execute
    <3>2. ASSUME NEW t, NEW r, OnLoss(t, r) PROVE Untold'
      BY <2>1, <2>2, <3>2 DEF Untold, OnLoss, Receive, RequestGraceful, DryWipe,
         OpenWindow, Execute
    <3>3. ASSUME NEW t, NEW r, OnStandDown(t, r) PROVE Untold'
      BY <2>2, <3>3 DEF Untold, OnStandDown, Receive
    <3>4. CASE OnUsr1 \/ OnUsr2
      BY <2>1, <2>2, <3>4 DEF Untold, OnUsr1, OnUsr2, Receive, RequestGraceful,
         RequestHard, DryWipe, OpenWindow, Execute
    <3> QED
      BY <1>2, <3>1, <3>2, <3>3, <3>4 DEF LoopStep
  <2> QED
    BY <2>1, <2>2, <2>3 DEF StoryInv, Untold
<1> QED
  BY <1>1, <1>2

(* Each call tells the next part of its story.                              *)
LEMMA CallTellsNext ==
    ASSUME TypeOK, GuardInv, StoryInv, CallStep
    PROVE  StoryInv'
<1> USE DEF mainVars, BootPhase
<1>0. sink \in Seq(Record)
  BY DEF TypeOK
<1>1. CASE KillRegistered
  <2> DEFINE r == KillRecord("registered", TRUE, registered)
  <2>a. r \in Record
    BY RecordTypes DEF TypeOK
  <2>1. Told(sink, KillStory, 0, trigger)
    BY <1>0, <1>1, TellNothing DEF StoryInv, Untold, KillRegistered
  <2>2. Told(Append(sink, r), KillStory, 1, trigger)
    BY Zenon, <1>0, <2>1, <2>a, Stories, Counting, TellKill
  <2>3. Told(sink', KillStory, 1, trigger') /\ pc' = "wipe"
    BY <1>1, <2>2 DEF KillRegistered, Emit
  <2> QED
    BY <2>3 DEF StoryInv, Untold
<1>2. CASE WipeArmed
  <2> DEFINE r == ReasonRecord("wipe", trigger)
  <2>a. r \in Record
    BY RecordTypes DEF TypeOK
  <2>1. Told(sink, KillStory, 1, trigger)
    BY <1>2 DEF StoryInv, WipeArmed
  <2>2. Told(Append(sink, r), KillStory, 2, trigger)
    BY Zenon, <1>0, <2>1, <2>a, Stories, Counting, TellReason
  <2>3. Told(sink', KillStory, 2, trigger') /\ pc' = "kill"
    BY <1>2, <2>2 DEF WipeArmed, Emit
  <2> QED
    BY <2>3 DEF StoryInv, Untold
<1>3. CASE RecordSelfKill
  <2> DEFINE r == KillRecord("self", TRUE, {})
  <2>a. r \in Record
    BY RecordTypes
  <2>1. Told(sink, KillStory, 2, trigger)
    BY <1>3 DEF StoryInv, RecordSelfKill
  <2>2. Told(Append(sink, r), KillStory, 3, trigger)
    BY Zenon, <1>0, <2>1, <2>a, Stories, Counting, TellKill
  <2>3. Told(sink', KillStory, 3, trigger') /\ pc' = "lethal"
    BY <1>3, <2>2 DEF RecordSelfKill, Emit
  <2> QED
    BY <2>3 DEF StoryInv, Untold
<1>4. CASE WipeDry
  <2> DEFINE r == ReasonRecord("wipe", trigger)
  <2>a. r \in Record
    BY RecordTypes DEF TypeOK
  <2>1. Told(sink, DryStory, 0, trigger)
    BY <1>0, <1>4, TellNothing DEF StoryInv, Untold, WipeDry
  <2>2. Told(Append(sink, r), DryStory, 1, trigger)
    BY Zenon, <1>0, <2>1, <2>a, Stories, Counting, TellReason
  <2>3. Told(sink', DryStory, 1, trigger') /\ pc' = "dry_done"
    BY <1>4, <2>2 DEF WipeDry, Emit
  <2> QED
    BY <2>3 DEF StoryInv, Untold
<1>5. CASE DryDone
  <2> DEFINE a == KillRecord("registered", FALSE, registered)
  <2>a. a \in Record
    BY RecordTypes DEF TypeOK
  <2> DEFINE b == KillRecord("self", FALSE, {})
  <2>b. b \in Record
    BY RecordTypes
  <2>1. Told(sink, DryStory, 1, trigger)
    BY <1>5 DEF StoryInv, DryDone
  <2>2. Told(Append(sink, a), DryStory, 2, trigger)
    BY Zenon, <1>0, <2>1, <2>a, Stories, Counting, TellKill
  <2>3. Append(sink, a) \in Seq(Record)
    BY Zenon, <2>a, SinkTypes
  <2>4. Told(Append(Append(sink, a), b), DryStory, 3, trigger)
    BY Zenon, <2>2, <2>3, <2>b, Stories, Counting, TellKill
  <2>5. sink \o <<a, b>> = Append(Append(sink, a), b)
    BY <1>0, <2>a, <2>b, TwoAppends
  <2>6. Told(sink', DryStory, 3, trigger') /\ pc' = "loop" /\ stop' = TRUE
    BY <1>5, <2>4, <2>5 DEF DryDone
  <2> QED
    BY <2>6 DEF StoryInv, Untold
<1>6. CASE Cleanup
  <2> DEFINE a == ReasonRecord("wipe", end)
  <2>a. a \in Record
    BY RecordTypes DEF TypeOK
  <2> DEFINE b == ReasonRecord("session_end", end)
  <2>b. b \in Record
    BY RecordTypes DEF TypeOK
  <2>1. CASE fired
    <3>1. Told(sink, DryStory, 3, end)
      BY <1>6, <2>1 DEF StoryInv, Cleanup
    <3>2. Told(Append(sink, b), DryStory, 4, end)
      BY Zenon, <1>0, <3>1, <2>a, <2>b, Stories, Counting, TellReason
    <3>3. sink' = Append(sink, b)
      BY <1>0, <1>6, <2>1 DEF Cleanup
    <3>4. Told(sink', DryStory, 4, end') /\ pc' = "returned"
      BY <1>6, <3>2, <3>3 DEF Cleanup
    <3> QED
      BY <3>4 DEF StoryInv, Untold
  <2>2. CASE ~fired
    <3>1. Told(sink, CleanStory, 0, end)
      BY <1>0, <1>6, <2>2, TellNothing DEF StoryInv, Untold, Cleanup
    <3>2. Told(Append(sink, a), CleanStory, 1, end)
      BY Zenon, <1>0, <3>1, <2>a, <2>b, Stories, Counting, TellReason
    <3>3. Append(sink, a) \in Seq(Record)
      BY <1>0, <2>a
    <3>4. Told(Append(Append(sink, a), b), CleanStory, 2, end)
      BY Zenon, <3>2, <3>3, <2>b, Stories, Counting, TellReason
    <3>5. sink' = Append(Append(sink, a), b)
      BY <1>0, <1>6, <2>2 DEF Cleanup
    <3>6. Told(sink', CleanStory, 2, end') /\ pc' = "returned"
      BY <1>6, <3>4, <3>5 DEF Cleanup
    <3> QED
      BY <3>6 DEF StoryInv, Untold
  <2> QED
    BY <2>1, <2>2
<1> QED
  BY <1>1, <1>2, <1>3, <1>4, <1>5, <1>6 DEF CallStep

LEMMA StoryInvInductive ==
    ASSUME TypeOK, GuardInv, StoryInv, [Next]_vars
    PROVE  StoryInv'
<1> USE DEF mainVars, BootPhase
<1>0. sink \in Seq(Record)
  BY DEF TypeOK
<1>1. CASE BootStep
  <2>1. Ending(sink) = {}
    BY <1>1 DEF StoryInv, Untold, BootStep, SpawnThreads, LoadArmed,
       RecordSessionStart, RecordArmStartup
  <2>2. \/ UNCHANGED sink
        \/ \E r \in Record : r.event \notin EndEvent /\ sink' = Append(sink, r)
    <3>1. CASE RecordSessionStart
      <4>1. armedAtStart \in BOOLEAN
        BY DEF TypeOK
      <4> PICK r \in Record : r = [event |-> "session_start", armed |-> armedAtStart]
        BY <4>1, RecordTypes
      <4> QED
        BY <3>1 DEF RecordSessionStart, Emit, EndEvent
    <3>2. CASE RecordArmStartup
      <4> PICK r \in Record : r = [event |-> "arm", via |-> "startup"]
        BY RecordTypes
      <4> QED
        BY <3>2 DEF RecordArmStartup, Emit, EndEvent
    <3> QED
      BY <1>1, <3>1, <3>2 DEF BootStep, SpawnThreads, LoadArmed
  <2>3. Ending(sink') = {}
    BY <1>0, <2>1, <2>2, EndingAppend
  <2>4. Untold'
    BY <1>1 DEF Untold, GuardInv, BootStep, SpawnThreads, LoadArmed,
       RecordSessionStart, RecordArmStartup
  <2> QED
    BY <2>3, <2>4 DEF StoryInv, Untold
<1>2. CASE Lethal \/ Exit
  BY <1>2 DEF StoryInv, Untold, Lethal, Exit
<1>3. ASSUME NEW k \in Control, RecordArm(k),
             UNCHANGED <<pc, stop, fired, trigger, end>>
      PROVE  StoryInv'
  <2> PICK r \in Record : r = [event |-> "arm", via |-> "control"]
    BY RecordTypes
  <2>1. sink' = Append(sink, r) /\ r.event \notin EndEvent
    BY <1>3 DEF RecordArm, Emit, EndEvent
  <2>2. \A story, m, why : Told(sink, story, m, why) => Told(sink', story, m, why)
    BY <1>0, <2>1, TellSame
  <2>3. Ending(sink') = Ending(sink)
    BY <1>0, <2>1, EndingAppend
  <2> QED
    BY <1>3, <2>2, <2>3 DEF StoryInv, Untold
<1>4. CASE UNCHANGED <<pc, stop, fired, trigger, end, sink>>
  BY <1>4 DEF StoryInv, Untold
<1> QED
  BY <1>1, <1>2, <1>3, <1>4, OtherSteps, LoopTellsNothing, CallTellsNext
     DEF MainStep

(* However many triggers race, the sink tells of one run of one sequence,   *)
(* for one reason, and tells all of it when the process is gone.            *)
THEOREM OneStoryOnly == Spec => []OneStory
<1>1. Init => GuardInv /\ StoryInv
  BY DEF Init, GuardInv, StoryInv, Untold, BootPhase, Ending
<1>2. TypeOK /\ GuardInv /\ StoryInv /\ [Next]_vars => GuardInv' /\ StoryInv'
  BY GuardInvInductive, StoryInvInductive
<1>3. TypeOK /\ StoryInv => OneStory
  <2> SUFFICES ASSUME TypeOK, StoryInv PROVE OneStory
    OBVIOUS
  <2>1. \/ Untold
        \/ pc \in {"wipe", "kill", "lethal", "dead", "dry_done", "returned", "exited"}
        \/ pc = "loop" /\ stop
        \/ pc = "cleanup" /\ fired
    BY DEF TypeOK, Untold, MainPhase, BootPhase, KillPath, DryPath
  <2>2. \E why : \E story \in {KillStory, DryStory, CleanStory}, m \in Nat :
            Told(sink, story, m, why)
    BY <2>1, TellNothing DEF TypeOK, StoryInv
  <2> QED
    BY <2>2, Stories DEF StoryInv, OneStory, Told, TellsAll
<1> QED
  BY <1>1, <1>2, <1>3, TypeCorrect, PTL DEF Spec

=============================================================================
