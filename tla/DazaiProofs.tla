----------------------------- MODULE DazaiProofs -----------------------------
(* Theorems about the host of the watchdog, for any number of daemons on a   *)
(* path, any page size and any width of a pid.                               *)
EXTENDS Dazai, SequenceTheorems, TLAPS

-----------------------------------------------------------------------------
(* Buffers and signals.                                                      *)

\* The product of pages and page size wraps to zero or does not wrap at all: a
\* mapping that was made covers every byte of its buffer.
LEMMA CapCovers ==
    ASSUME NEW len \in 0 .. UsizeMod - 1, Mappable(len)
    PROVE  Cap(len) \in len .. UsizeMod - 1
<1> DEFINE n == (len + PageSize - 1) \div PageSize
           k == UsizeMod \div PageSize
<1>1. PageSize \in Nat \ {0} /\ UsizeMod \in Nat \ {0}
  BY GoodnightAssumption
<1>2. len \in Nat /\ len > 0 /\ len < UsizeMod /\ len + PageSize - 1 \in Nat
  BY <1>1 DEF Mappable
<1>3. n \in Nat /\ n * PageSize >= len
  <2>1. /\ n \in Nat
        /\ (len + PageSize - 1) % PageSize \in 0 .. PageSize - 1
        /\ len + PageSize - 1 =
               PageSize * n + ((len + PageSize - 1) % PageSize)
    BY <1>1, <1>2
  <2>2. PageSize * n = n * PageSize
    BY <1>1, <2>1
  <2> QED
    BY <1>1, <1>2, <2>1, <2>2
<1>4. k \in Nat /\ UsizeMod = k * PageSize
  <2>1. k \in Nat /\ UsizeMod = PageSize * k + (UsizeMod % PageSize)
    BY <1>1
  <2> QED
    BY <1>1, <2>1, GoodnightAssumption
<1>5. n <= k
  <2>1. ASSUME n >= k + 1 PROVE FALSE
    <3>1. n * PageSize >= k * PageSize + PageSize
      BY <1>1, <1>3, <1>4, <2>1
    <3>2. n * PageSize <= len + PageSize - 1
      BY <1>1, <1>2
    <3> QED
      BY <1>1, <1>2, <1>4, <3>1, <3>2
  <2> QED
    BY <1>3, <1>4, <2>1
<1>6. Cap(len) = (n * PageSize) % UsizeMod
  BY DEF Cap
<1> HIDE DEF n, k
<1>7. n * PageSize # UsizeMod
  <2>1. UsizeMod % UsizeMod = 0
    BY <1>1
  <2> QED
    BY <1>6, <2>1 DEF Mappable
<1>8. n * PageSize \in Nat /\ n * PageSize < UsizeMod
  <2>1. n # k
    BY <1>4, <1>7
  <2>2. n + 1 <= k
    BY <1>3, <1>4, <1>5, <2>1
  <2>3. n * PageSize + PageSize <= k * PageSize
    BY <1>1, <1>3, <1>4, <2>2
  <2>4. n * PageSize \in Nat
    BY <1>1, <1>3
  <2> QED
    BY <1>1, <1>4, <2>3, <2>4
<1>9. (n * PageSize) % UsizeMod = n * PageSize
  BY <1>1, <1>8
<1> QED
  BY <1>1, <1>2, <1>3, <1>6, <1>8, <1>9

\* A buffer that was filled holds its secret within its mapping, and the wipe
\* leaves none of it.
Covered(buf) == buf \in Buffer /\ buf.secret \subseteq 0 .. buf.cap - 1

LEMMA WriteCovered ==
    ASSUME NEW len \in 0 .. UsizeMod - 1, Mappable(len),
           NEW n \in Nat, Fits(NewBuffer(len), n)
    PROVE  Covered(Write(NewBuffer(len), n))
<1> DEFINE buf == Write(NewBuffer(len), n)
<1>1. Cap(len) \in len .. UsizeMod - 1
  BY CapCovers
<1>2. buf = [len |-> len, cap |-> Cap(len), secret |-> 0 .. n - 1]
  BY DEF Write, NewBuffer
<1>3. n <= len
  BY DEF Fits, NewBuffer
<1> HIDE DEF buf
<1>4. UsizeMod \in Nat
  BY GoodnightAssumption
<1> QED
  BY <1>1, <1>2, <1>3, <1>4 DEF Covered, Buffer, buf

LEMMA WipeClears ==
    ASSUME NEW buf, Covered(buf)
    PROVE  Wipe(buf) \in Buffer /\ Wipe(buf).secret = {}
BY DEF Covered, Buffer, Wipe

LEMMA WipeTyped == \A buf \in Buffer : Wipe(buf) \in Buffer
BY DEF Buffer, Wipe

\* Whatever number is registered, at most the process of that number is hit.
LEMMA SignalHitsOne ==
    ASSUME NEW p \in U32, NEW running \in SUBSET Pid
    PROVE  SendSignal(p, running) \subseteq {p}
BY GoodnightAssumption DEF U32, Pid, SendSignal, InRange, Reached, PidT

-----------------------------------------------------------------------------
(* Types.                                                                    *)

LEMMA InitTyped == Init => TypeOK
BY GoodnightAssumption, DazaiAssumption DEF Init, TypeOK, Pid

\* What is left of a process that has ended.
LEMMA ReleaseTyped ==
    ASSUME TypeOK, NEW D \in SUBSET Daemon, Release(D)
    PROVE  /\ armed' \in [Daemon -> BOOLEAN]
           /\ size' \in [Daemon -> 0 .. UsizeMod - 1]
           /\ mem' \in [Daemon -> Seq(Buffer)]
           /\ child' \in [Daemon -> {"none", "wanted", "running", "dead"}]
           /\ pending' \in [Daemon -> SUBSET {"USR1", "USR2", "TERM"}]
           /\ registered' \in [Daemon -> SUBSET Pid]
           /\ pid' \in [Daemon -> Pid \cup {0}]
           /\ confined' \subseteq Daemon
           /\ handlers' \subseteq Daemon
           /\ linked' \subseteq Daemon
<1>1. armed' \in [Daemon -> BOOLEAN]
  BY DEF Release, TypeOK
<1>2. size' \in [Daemon -> 0 .. UsizeMod - 1]
  BY GoodnightAssumption DEF Release, TypeOK
<1>3. mem' \in [Daemon -> Seq(Buffer)]
  <2>1. <<>> \in Seq(Buffer)
    OBVIOUS
  <2>2. mem \in [Daemon -> Seq(Buffer)]
    BY DEF TypeOK
  <2>3. mem' = [d \in Daemon |-> IF d \in D THEN <<>> ELSE mem[d]]
    BY DEF Release
  <2>4. \A d \in Daemon : (IF d \in D THEN <<>> ELSE mem[d]) \in Seq(Buffer)
    BY <2>1, <2>2
  <2> QED
    BY <2>3, <2>4, Zenon
<1>4. child' \in [Daemon -> {"none", "wanted", "running", "dead"}]
  BY DEF Release, TypeOK
<1>5. pending' \in [Daemon -> SUBSET {"USR1", "USR2", "TERM"}]
  BY DEF Release, TypeOK
<1>6. registered' \in [Daemon -> SUBSET Pid]
  BY DEF Release, TypeOK
<1>7. pid' \in [Daemon -> Pid \cup {0}]
  BY DEF Release, TypeOK
<1>8. confined' \subseteq Daemon /\ handlers' \subseteq Daemon
      /\ linked' \subseteq Daemon
  BY DEF Release, TypeOK
<1> QED
  BY <1>1, <1>2, <1>3, <1>4, <1>5, <1>6, <1>7, <1>8

Ways == {"none", "clean", "error", "lethal", "killed", "unhandled", "denied"}

LEMMA DieTyped ==
    ASSUME TypeOK, NEW d \in Daemon, NEW way \in Ways, Die(d, way)
    PROVE  TypeOK'
<1>1. Release({d})
  BY DEF Die
<1>2. /\ pc' \in [Daemon -> Steps \cup {"off", "gone"}]
      /\ how' \in [Daemon -> Ways]
  BY DEF TypeOK, Die, LeaveBy, Ways
<1>3. owner' \in [Pid -> Daemon \cup {"agent", "foreign", "nothing"}]
  BY DEF TypeOK, Die
<1>4. /\ sock' \in Daemon \cup {Nobody}
      /\ pidfile' \in Pid \cup {Empty, NoFile}
      /\ overlap' \subseteq Daemon
  BY DEF TypeOK, Die
<1> QED
  BY <1>1, <1>2, <1>3, <1>4, ReleaseTyped DEF TypeOK, Ways

\* A buffer that is made holds its secret within its mapping.
Fills(d) ==
    \E len \in 0 .. UsizeMod - 1, n \in Nat, step \in {"work", "child"} :
        /\ Mappable(len) /\ Fits(NewBuffer(len), n)
        /\ mem' = [mem EXCEPT ![d] = Append(@, Write(NewBuffer(len), n))]
        /\ GoOn(d, step)

LEMMA MakesFill ==
    ASSUME TypeOK, NEW d \in Daemon, MakeKey(d) \/ MakeWork(d)
    PROVE  /\ pc[d] \in {"key", "work"}
           /\ Fills(d) \/ (Fail(d) /\ UNCHANGED mem)
           /\ UNCHANGED <<size, child, shieldVars, loopVars, fileVars,
                          pidVars>>
<1>1. /\ KeyLen \in 0 .. UsizeMod - 1 /\ size[d] \in 0 .. UsizeMod - 1
      /\ KeyData \in Nat /\ WorkData \in Nat
  BY DazaiAssumption DEF TypeOK
<1>2. CASE MakeKey(d)
  BY <1>1, <1>2 DEF MakeKey, MakeBuffer, Fills, At
<1>3. CASE MakeWork(d)
  BY <1>1, <1>3 DEF MakeWork, MakeBuffer, Fills, At
<1> QED
  BY <1>2, <1>3

LEMMA StartUpTyped ==
    ASSUME TypeOK, NEW d \in Daemon, StartUpStep(d) \/ Start(d)
                                      \/ SetupFails(d)
    PROVE  TypeOK'
<1> USE DEF TypeOK, At, GoOn, Fail, LeaveBy, Steps, StartUp, Dropping,
            memVars, shieldVars, loopVars, fileVars, pidVars
<1>1. CASE Start(d)
  BY <1>1, DazaiAssumption DEF Start, Running
<1>2. CASE CheckArgs(d)
  BY <1>2 DEF CheckArgs
<1>3. CASE MakeKey(d) \/ MakeWork(d)
  <2>1. mem' \in [Daemon -> Seq(Buffer)]
    <3>1. CASE Fills(d)
      <4>1. PICK len \in 0 .. UsizeMod - 1, n \in Nat :
              /\ Mappable(len) /\ Fits(NewBuffer(len), n)
              /\ mem' = [mem EXCEPT ![d] =
                            Append(@, Write(NewBuffer(len), n))]
        BY <3>1 DEF Fills
      <4>2. Write(NewBuffer(len), n) \in Buffer
        BY <4>1, WriteCovered DEF Covered
      <4> HIDE DEF Write, NewBuffer, Buffer
      <4>3. Append(mem[d], Write(NewBuffer(len), n)) \in Seq(Buffer)
        BY <4>2, AppendProperties
      <4> QED
        BY <4>1, <4>3
    <3>2. CASE Fail(d) /\ UNCHANGED mem
      BY <3>2
    <3> QED
      BY <1>3, <3>1, <3>2, MakesFill
  <2>2. /\ pc' \in [Daemon -> Steps \cup {"off", "gone"}]
        /\ how' \in [Daemon -> Ways]
    <3>1. CASE Fills(d)
      BY <3>1 DEF Fills, Ways
    <3>2. CASE Fail(d)
      BY <3>2 DEF Ways
    <3> QED
      BY <1>3, <3>1, <3>2, MakesFill
  <2> QED
    BY <1>3, <2>1, <2>2, MakesFill DEF Ways
<1>4. CASE SpawnChild(d)
  BY <1>4 DEF SpawnChild
<1>5. CASE RemoveStale(d)
  BY <1>5 DEF RemoveStale
<1>6. CASE BindSocket(d)
  BY <1>6 DEF BindSocket
<1>7. CASE ChmodSocket(d)
  BY <1>7 DEF ChmodSocket
<1>8. CASE CreatePidfile(d)
  BY <1>8 DEF CreatePidfile
<1>9. CASE WritePid(d)
  BY <1>9 DEF WritePid, Empty
<1>10. CASE ChmodPidfile(d)
  BY <1>10 DEF ChmodPidfile
<1>11. CASE ApplyFilter(d)
  BY <1>11 DEF ApplyFilter
<1>12. CASE InstallHandlers(d)
  BY <1>12 DEF InstallHandlers
<1>13. CASE SetupFails(d)
  BY <1>13 DEF SetupFails
<1> QED
  BY <1>1, <1>2, <1>3, <1>4, <1>5, <1>6, <1>7, <1>8, <1>9, <1>10, <1>11,
     <1>12, <1>13 DEF StartUpStep

LEMMA WipeStepTyped ==
    ASSUME TypeOK, NEW d \in Daemon, NEW step \in Steps, WipeStep(d, step)
    PROVE  TypeOK'
<1>1. WipedBuffers(d) \in Seq(Buffer)
  <2>1. mem[d] \in Seq(Buffer)
    BY DEF TypeOK
  <2>2. /\ Len(mem[d]) \in Nat
        /\ DOMAIN mem[d] = 1 .. Len(mem[d])
        /\ \A i \in 1 .. Len(mem[d]) : mem[d][i] \in Buffer
    BY <2>1
  <2>3. WipedBuffers(d) \in [1 .. Len(mem[d]) -> Buffer]
    BY <2>2, WipeTyped DEF WipedBuffers
  <2> QED
    BY <2>2, <2>3, SeqDef
<1> QED
  BY <1>1 DEF TypeOK, WipeStep, GoOn, shieldVars, loopVars, fileVars, pidVars

LEMMA WayOutTyped ==
    ASSUME TypeOK, NEW d \in Daemon, WayOut(d)
    PROVE  TypeOK'
<1> USE DEF TypeOK, At, GoOn, LeaveBy, Steps, Lethal, Leaving, Dropping,
            memVars, shieldVars, loopVars, fileVars, pidVars
<1>1. CASE KillRegistered(d)
  <2> DEFINE hit == UNION {SendSignal(p, Mine) : p \in registered[d]}
             dead == {owner[p] : p \in hit} \cap Daemon
  <2>1. dead \in SUBSET Daemon /\ Release(dead)
    BY <1>1 DEF KillRegistered
  <2>2. /\ pc' = [e \in Daemon |-> CASE e \in dead -> "gone"
                                     [] e \notin dead /\ e = d -> "wipe"
                                     [] OTHER -> pc[e]]
        /\ how' = [e \in Daemon |-> IF e \in dead THEN "killed" ELSE how[e]]
        /\ owner' = [p \in Pid |-> IF p \in hit THEN "nothing" ELSE owner[p]]
        /\ UNCHANGED <<sock, pidfile, overlap>>
    BY <1>1 DEF KillRegistered
  <2> HIDE DEF hit, dead
  <2>3. pc' \in [Daemon -> Steps \cup {"off", "gone"}]
    BY <2>2
  <2>4. how' \in [Daemon -> Ways]
    BY <2>2 DEF Ways
  <2>5. owner' \in [Pid -> Daemon \cup {"agent", "foreign", "nothing"}]
    BY <2>2
  <2> QED
    BY <2>1, <2>2, <2>3, <2>4, <2>5, ReleaseTyped DEF Ways
<1>2. CASE WipeBuffers(d)
  BY <1>2, WipeStepTyped DEF WipeBuffers
<1>3. CASE KillChild(d)
  BY <1>3 DEF KillChild, Killed
<1>4. CASE UnlinkPid(d)
  BY <1>4 DEF UnlinkPid, RemovePidfile
<1>5. CASE RaiseKill(d)
  BY <1>5, DieTyped DEF RaiseKill, Ways
<1>6. CASE CleanupWipe(d)
  BY <1>6, WipeStepTyped DEF CleanupWipe
<1>7. CASE UnlinkSocket(d)
  BY <1>7 DEF UnlinkSocket
<1>8. CASE UnlinkPidfile(d)
  BY <1>8 DEF UnlinkPidfile, RemovePidfile
<1>9. CASE DropChild(d)
  BY <1>9 DEF DropChild, Killed
<1>10. CASE DropBuffers(d)
  BY <1>10, WipeStepTyped DEF DropBuffers
<1>11. CASE Exit(d)
  BY <1>11, DieTyped DEF Exit, Ways
<1> QED
  BY <1>1, <1>2, <1>3, <1>4, <1>5, <1>6, <1>7, <1>8, <1>9, <1>10, <1>11
  DEF WayOut

LEMMA WatchTyped ==
    ASSUME TypeOK, NEW d \in Daemon,
           TakeSignal(d) \/ ClientLost(d) \/ ClientQuits(d)
           \/ ControlRequest(d)
    PROVE  TypeOK'
<1> USE DEF TypeOK, At, LeaveBy, Trigger, Steps, Lethal, Leaving, stepVars,
            memVars, shieldVars, loopVars, fileVars, pidVars
<1>1. CASE TakeSignal(d)
  <2>1. PICK s \in pending[d] :
            /\ pending' = [pending EXCEPT ![d] = @ \ {s}]
            /\ \/ Trigger(d)
               \/ UNCHANGED stepVars
               \/ LeaveBy(d, "cleanup", "clean")
    BY <1>1, Zenon DEF TakeSignal
  <2>2. pending' \in [Daemon -> SUBSET {"USR1", "USR2", "TERM"}]
    BY <2>1
  <2>3. /\ pc' \in [Daemon -> Steps \cup {"off", "gone"}]
        /\ how' \in [Daemon -> Ways]
    BY <2>1 DEF Ways
  <2> QED
    BY <1>1, <2>2, <2>3 DEF TakeSignal, Ways
<1>2. CASE ClientLost(d)
  BY <1>2 DEF ClientLost
<1>3. CASE ClientQuits(d)
  BY <1>3 DEF ClientQuits
<1>4. CASE ControlRequest(d)
  <2>1. \A p \in U32 : Accepts(d, p) => p \in Pid
    BY GoodnightAssumption DEF Accepts, PidExists, InRange, Pid, U32
  <2>2. CASE Arm(d)
    BY <1>4, <2>2 DEF ControlRequest, Arm
  <2>3. ASSUME NEW p \in Registrable, Register(d, p) PROVE TypeOK'
    BY <1>4, <2>1, <2>3 DEF ControlRequest, Register, Registrable
  <2>4. ASSUME NEW p \in registered[d], Unregister(d, p) PROVE TypeOK'
    BY <1>4, <2>4 DEF ControlRequest, Unregister
  <2> QED
    BY <1>4, <2>2, <2>3, <2>4 DEF ControlRequest
<1> QED
  BY <1>1, <1>2, <1>3, <1>4

LEMMA OutsideTyped ==
    ASSUME TypeOK, NEW d \in Daemon,
           Signalled(d) \/ KilledOutside(d) \/ ChildExits(d)
    PROVE  TypeOK'
<1>1. CASE Signalled(d)
  <2>1. PICK s \in Signals : Deliver(d, s)
    BY <1>1 DEF Signalled
  <2>2. CASE d \in handlers
    <3>1. /\ pending' = [pending EXCEPT ![d] = @ \cup {s}]
          /\ UNCHANGED <<stepVars, memVars, shieldVars, armed, registered,
                         fileVars, pidVars>>
      BY <2>1, <2>2 DEF Deliver
    <3>2. s \in {"USR1", "USR2", "TERM"}
      BY DazaiAssumption
    <3>3. pending' \in [Daemon -> SUBSET {"USR1", "USR2", "TERM"}]
      BY <3>1, <3>2 DEF TypeOK
    <3> QED
      BY <3>1, <3>3
      DEF TypeOK, stepVars, memVars, shieldVars, fileVars, pidVars
  <2>3. CASE d \notin handlers
    BY <2>1, <2>3, DieTyped DEF Deliver, Ways
  <2> QED
    BY <2>2, <2>3
<1>2. CASE KilledOutside(d)
  BY <1>2, DieTyped DEF KilledOutside, Ways
<1>3. CASE ChildExits(d)
  BY <1>3 DEF ChildExits, TypeOK, stepVars, shieldVars, loopVars, fileVars,
              pidVars
<1> QED
  BY <1>1, <1>2, <1>3

LEMMA NextTyped == TypeOK /\ [Next]_vars => TypeOK'
<1> SUFFICES ASSUME TypeOK, [Next]_vars PROVE TypeOK'
  OBVIOUS
<1>1. ASSUME NEW d \in Daemon, Work(d) \/ Outside(d) PROVE TypeOK'
  BY <1>1, StartUpTyped, WayOutTyped, WatchTyped, OutsideTyped
  DEF Work, Outside
<1>2. ASSUME NEW p \in Pid, AgentChanges(p) PROVE TypeOK'
  BY <1>2 DEF AgentChanges, TypeOK, stepVars, memVars, shieldVars, loopVars,
              fileVars
<1>3. CASE UNCHANGED vars
  BY <1>3 DEF vars, TypeOK, stepVars, memVars, shieldVars, loopVars,
              fileVars, pidVars
<1> QED
  BY <1>1, <1>2, <1>3 DEF Next

\* Every variable of the host keeps its type.
THEOREM TypeCorrect == Spec => []TypeOK
BY InitTyped, NextTyped, PTL DEF Spec


-----------------------------------------------------------------------------
(* A signal of the lethal action reaches what was registered.               *)

\* Whatever was registered with it, the kill of a daemon ends no process that
\* was not.
THEOREM KillsOnlyRegistered == Spec => OnlyRegisteredDie
<1>1. ASSUME TypeOK, NEW d \in Daemon, KillRegistered(d),
             NEW p \in Pid \ registered[d]
      PROVE  owner'[p] = owner[p]
  <2> DEFINE hit == UNION {SendSignal(q, Mine) : q \in registered[d]}
  <2>1. registered[d] \subseteq Pid /\ Pid \subseteq U32
    BY <1>1, GoodnightAssumption DEF TypeOK, Pid, U32
  <2>2. \A q \in registered[d] : SendSignal(q, Mine) \subseteq {q}
    BY <2>1, SignalHitsOne DEF Mine, Running
  <2>3. p \notin hit
    BY <2>2
  <2>4. owner' = [q \in Pid |-> IF q \in hit THEN "nothing" ELSE owner[q]]
    BY <1>1 DEF KillRegistered
  <2> QED
    BY <2>3, <2>4
<1>2. TypeOK /\ [Next]_vars =>
        [\A d \in Daemon : KillRegistered(d) =>
            \A p \in Pid \ registered[d] : owner'[p] = owner[p]]_vars
  BY <1>1
<1> QED
  BY <1>2, TypeCorrect, PTL DEF Spec, OnlyRegisteredDie

-----------------------------------------------------------------------------
(* The filter and the child.                                                *)

After == {"handlers", "watch"} \cup Lethal \cup Leaving \cup Dropping
Childless == {"unlink_pid", "raise", "drop_buffers", "exit"}

\* A daemon with a filter is past the calls that the filter denies, and its
\* child has been killed when the last steps are reached.
HostInv ==
    \A d \in Daemon :
        /\ d \in confined => pc[d] \in After
        /\ child[d] = "running" => pc[d] \in Steps \ Childless
        /\ how[d] # "denied"

LEMMA AfterAllowed ==
    ASSUME NEW step \in After
    PROVE  Needs[step] \subseteq Allowed
BY DEF After, Needs, Allowed, ConceptualAllowlist, RuntimeRequired, Steps,
       StartUp, Lethal, Leaving, Dropping

LEMMA AllPermitted == HostInv => \A d \in Daemon : Permitted(d)
BY AfterAllowed DEF HostInv, Permitted

LEMMA StartUpHost ==
    ASSUME TypeOK, HostInv, NEW d \in Daemon,
           StartUpStep(d) \/ Start(d) \/ SetupFails(d)
    PROVE  HostInv'
<1> USE DEF TypeOK, HostInv, At, GoOn, Fail, LeaveBy, Steps, StartUp, Lethal,
            Leaving, Dropping, After, Childless, memVars, shieldVars
<1>1. CASE Start(d)
  BY <1>1, DazaiAssumption DEF Start
<1>2. CASE CheckArgs(d)
  BY <1>2 DEF CheckArgs
<1>3. CASE MakeKey(d) \/ MakeWork(d)
  <2>1. /\ pc[d] \in {"key", "work"}
        /\ UNCHANGED <<child, confined>>
        /\ \/ GoOn(d, "work") \/ GoOn(d, "child")
           \/ Fail(d)
    BY <1>3, MakesFill DEF Fills
  <2>2. CASE GoOn(d, "work")
    BY <2>1, <2>2
  <2>3. CASE GoOn(d, "child")
    BY <2>1, <2>3
  <2>4. CASE Fail(d)
    BY <2>1, <2>4
  <2> QED
    BY <2>1, <2>2, <2>3, <2>4
<1>4. CASE SpawnChild(d)
  BY <1>4 DEF SpawnChild
<1>5. CASE RemoveStale(d)
  BY <1>5 DEF RemoveStale
<1>6. CASE BindSocket(d)
  <2>1. /\ pc[d] = "bind"
        /\ UNCHANGED <<child, confined>>
        /\ GoOn(d, "chmod") \/ Fail(d)
    BY <1>6 DEF BindSocket
  <2>2. CASE GoOn(d, "chmod")
    BY <2>1, <2>2
  <2>3. CASE Fail(d)
    BY <2>1, <2>3
  <2> QED
    BY <2>1, <2>2, <2>3
<1>7. CASE ChmodSocket(d)
  BY <1>7 DEF ChmodSocket
<1>8. CASE CreatePidfile(d)
  BY <1>8 DEF CreatePidfile
<1>9. CASE WritePid(d)
  BY <1>9 DEF WritePid
<1>10. CASE ChmodPidfile(d)
  BY <1>10 DEF ChmodPidfile
<1>11. CASE ApplyFilter(d)
  BY <1>11 DEF ApplyFilter
<1>12. CASE InstallHandlers(d)
  BY <1>12 DEF InstallHandlers
<1>13. CASE SetupFails(d)
  BY <1>13 DEF SetupFails
<1> QED
  BY <1>1, <1>2, <1>3, <1>4, <1>5, <1>6, <1>7, <1>8, <1>9, <1>10, <1>11,
     <1>12, <1>13 DEF StartUpStep

LEMMA DieHost ==
    ASSUME TypeOK, HostInv, NEW d \in Daemon,
           NEW way \in Ways \ {"denied"}, Die(d, way)
    PROVE  HostInv'
BY DEF TypeOK, HostInv, Die, LeaveBy, Release, Ways

LEMMA WayOutHost ==
    ASSUME TypeOK, HostInv, NEW d \in Daemon, WayOut(d)
    PROVE  HostInv'
<1> USE DEF TypeOK, HostInv, At, GoOn, LeaveBy, Steps, StartUp, Lethal,
            Leaving, Dropping, After, Childless, memVars, shieldVars
<1>1. CASE KillRegistered(d)
  <2> DEFINE hit == UNION {SendSignal(p, Mine) : p \in registered[d]}
             dead == {owner[p] : p \in hit} \cap Daemon
  <2>1. /\ pc[d] = "kill_registered"
        /\ pc' = [e \in Daemon |-> CASE e \in dead -> "gone"
                                     [] e \notin dead /\ e = d -> "wipe"
                                     [] OTHER -> pc[e]]
        /\ how' = [e \in Daemon |-> IF e \in dead THEN "killed" ELSE how[e]]
        /\ child' = [e \in Daemon |-> IF e \in dead THEN "none" ELSE child[e]]
        /\ confined' = confined \ dead
    BY <1>1 DEF KillRegistered, Release
  <2> HIDE DEF dead
  <2> QED
    BY <2>1
<1>2. CASE WipeBuffers(d)
  BY <1>2 DEF WipeBuffers, WipeStep
<1>3. CASE KillChild(d)
  BY <1>3 DEF KillChild, Killed
<1>4. CASE UnlinkPid(d)
  BY <1>4 DEF UnlinkPid, RemovePidfile
<1>5. CASE RaiseKill(d)
  BY <1>5, DieHost DEF RaiseKill, Ways
<1>6. CASE CleanupWipe(d)
  BY <1>6 DEF CleanupWipe, WipeStep
<1>7. CASE UnlinkSocket(d)
  BY <1>7 DEF UnlinkSocket
<1>8. CASE UnlinkPidfile(d)
  BY <1>8 DEF UnlinkPidfile, RemovePidfile
<1>9. CASE DropChild(d)
  BY <1>9 DEF DropChild, Killed
<1>10. CASE DropBuffers(d)
  BY <1>10 DEF DropBuffers, WipeStep
<1>11. CASE Exit(d)
  BY <1>11, DieHost DEF Exit, Ways
<1> QED
  BY <1>1, <1>2, <1>3, <1>4, <1>5, <1>6, <1>7, <1>8, <1>9, <1>10, <1>11
  DEF WayOut

LEMMA WatchHost ==
    ASSUME TypeOK, HostInv, NEW d \in Daemon,
           TakeSignal(d) \/ ClientLost(d) \/ ClientQuits(d)
           \/ ControlRequest(d)
    PROVE  HostInv'
<1>1. CASE ControlRequest(d)
  BY <1>1 DEF ControlRequest, HostInv, stepVars, memVars, shieldVars
<1>2. CASE ~ControlRequest(d)
  <2>1. /\ pc[d] = "watch"
        /\ UNCHANGED <<child, confined>>
        /\ \/ UNCHANGED <<pc, how>>
           \/ LeaveBy(d, "kill_registered", "lethal")
           \/ LeaveBy(d, "cleanup", "clean")
    BY <1>2 DEF TakeSignal, ClientLost, ClientQuits, Trigger, At, stepVars,
                memVars, shieldVars
  <2> QED
    BY <2>1 DEF TypeOK, HostInv, LeaveBy, Steps, StartUp, Lethal, Leaving,
                Dropping, After, Childless
<1> QED
  BY <1>1, <1>2

LEMMA OutsideHost ==
    ASSUME TypeOK, HostInv, NEW d \in Daemon,
           Signalled(d) \/ KilledOutside(d) \/ ChildExits(d)
    PROVE  HostInv'
<1>1. Permitted(d)
  BY AllPermitted
<1>2. CASE Signalled(d)
  <2>1. PICK s \in Signals : Deliver(d, s)
    BY <1>2 DEF Signalled
  <2>2. CASE d \in handlers
    BY <2>1, <2>2 DEF Deliver, HostInv, stepVars, memVars, shieldVars
  <2>3. CASE d \notin handlers
    BY <2>1, <2>3, DieHost DEF Deliver, Ways
  <2> QED
    BY <2>2, <2>3
<1>3. CASE KilledOutside(d)
  BY <1>1, <1>3, DieHost DEF KilledOutside, Ways
<1>4. CASE ChildExits(d)
  BY <1>4 DEF ChildExits, TypeOK, HostInv, stepVars, shieldVars
<1> QED
  BY <1>2, <1>3, <1>4

LEMMA NextHost == TypeOK /\ HostInv /\ [Next]_vars => HostInv'
<1> SUFFICES ASSUME TypeOK, HostInv, [Next]_vars PROVE HostInv'
  OBVIOUS
<1>1. ASSUME NEW d \in Daemon, Work(d) \/ Outside(d) PROVE HostInv'
  BY <1>1, StartUpHost, WayOutHost, WatchHost, OutsideHost DEF Work, Outside
<1>2. ASSUME NEW p \in Pid, AgentChanges(p) PROVE HostInv'
  BY <1>2 DEF AgentChanges, HostInv, stepVars, memVars, shieldVars
<1>3. CASE UNCHANGED vars
  BY <1>3 DEF vars, HostInv, stepVars, memVars, shieldVars
<1> QED
  BY <1>1, <1>2, <1>3 DEF Next

LEMMA HostAlways == Spec => [](TypeOK /\ HostInv)
<1>1. Init => HostInv
  BY DEF Init, HostInv
<1> QED
  BY <1>1, NextHost, TypeCorrect, PTL DEF Spec

\* No call of a daemon, on any way out, is denied by its own filter.
THEOREM FilterNeverKills == Spec => []NeverDenied
<1>1. HostInv => NeverDenied
  BY DEF HostInv, NeverDenied
<1> QED
  BY <1>1, HostAlways, PTL

-----------------------------------------------------------------------------
(* The ends of a daemon.                                                    *)

Wiped == {"kill_child", "unlink_pid", "raise", "exit"}
Last == {"raise", "exit"}

\* What a step of the daemon d does to its place and to its buffers.
Moves(d) == \E step \in Steps :
    /\ step \in Wiped => pc[d] \in Wiped
    /\ pc' = [pc EXCEPT ![d] = step]
    /\ UNCHANGED mem

Wipes(d) == \E step \in Steps : WipeStep(d, step)

Dies(d) == \E way \in Ways :
    /\ way \in {"lethal", "clean", "error"} => pc[d] \in Last
    /\ Die(d, way)

LEMMA StepKinds ==
    ASSUME TypeOK, HostInv, NEW d \in Daemon, Work(d) \/ Outside(d)
    PROVE  \/ UNCHANGED <<pc, mem>> \/ Moves(d) \/ Wipes(d) \/ Fills(d)
           \/ Dies(d) \/ KillRegistered(d)
<1> USE DEF At, GoOn, Fail, LeaveBy, Steps, StartUp, Lethal, Leaving,
            Dropping, Wiped, Last, stepVars, memVars
<1>1. CASE Start(d) \/ SetupFails(d)
  BY <1>1 DEF Start, SetupFails, Moves
<1>2. CASE StartUpStep(d)
  <2>1. CASE MakeKey(d) \/ MakeWork(d)
    BY <2>1, MakesFill DEF Moves
  <2>2. CASE CheckArgs(d) \/ BindSocket(d) \/ ChmodSocket(d)
    BY <2>2 DEF CheckArgs, BindSocket, ChmodSocket, Moves
  <2>3. CASE SpawnChild(d) \/ RemoveStale(d) \/ CreatePidfile(d)
    BY <2>3 DEF SpawnChild, RemoveStale, CreatePidfile, Moves
  <2>4. CASE WritePid(d) \/ ApplyFilter(d) \/ InstallHandlers(d)
    BY <2>4 DEF WritePid, ApplyFilter, InstallHandlers, Moves
  <2>5. CASE ChmodPidfile(d)
    BY <2>5 DEF ChmodPidfile, Moves
  <2> QED
    BY <1>2, <2>1, <2>2, <2>3, <2>4, <2>5 DEF StartUpStep
<1>3. CASE WayOut(d)
  <2>1. CASE WipeBuffers(d) \/ CleanupWipe(d) \/ DropBuffers(d)
    BY <2>1 DEF WipeBuffers, CleanupWipe, DropBuffers, Wipes
  <2>2. CASE KillChild(d) \/ DropChild(d) \/ UnlinkSocket(d)
    BY <2>2 DEF KillChild, DropChild, UnlinkSocket, Moves
  <2>3. CASE UnlinkPid(d) \/ UnlinkPidfile(d)
    BY <2>3 DEF UnlinkPid, UnlinkPidfile, RemovePidfile, Moves
  <2>4. CASE RaiseKill(d)
    BY <2>4 DEF RaiseKill, Dies, Ways
  <2>5. CASE Exit(d)
    <3>1. how[d] \in Ways
      BY DEF TypeOK, Ways
    <3> QED
      BY <2>5, <3>1 DEF Exit, Dies
  <2> QED
    BY <1>3, <2>1, <2>2, <2>3, <2>4, <2>5 DEF WayOut
<1>4. CASE TakeSignal(d) \/ ClientLost(d) \/ ClientQuits(d)
  BY <1>4 DEF TakeSignal, ClientLost, ClientQuits, Trigger, Moves
<1>5. CASE ControlRequest(d) \/ ChildExits(d)
  BY <1>5 DEF ControlRequest, ChildExits
<1>6. Permitted(d)
  BY AllPermitted
<1>7. CASE Signalled(d)
  BY <1>7 DEF Signalled, Deliver, Dies, Ways
<1>8. CASE KilledOutside(d)
  BY <1>6, <1>8 DEF KilledOutside, Dies, Ways
<1> QED
  BY <1>1, <1>2, <1>3, <1>4, <1>5, <1>7, <1>8 DEF Work, Outside

\* A daemon that ends by itself does so at the last step of a way out.
LEMMA EndsLast ==
    ASSUME TypeOK, HostInv, [Next]_vars, NEW e \in Daemon, Ends(e)
    PROVE  pc[e] \in Last
<1> USE DEF Ends, Alive, TypeOK
<1>1. ASSUME NEW d \in Daemon, Work(d) \/ Outside(d) PROVE pc[e] \in Last
  <2> "gone" \notin Steps
    BY DEF Steps, StartUp, Lethal, Leaving, Dropping
  <2>1. CASE UNCHANGED <<pc, mem>>
    BY <2>1
  <2>2. CASE Moves(d)
    BY <2>2 DEF Moves
  <2>3. CASE Wipes(d)
    BY <2>3 DEF Wipes, WipeStep, GoOn
  <2>4. CASE Fills(d)
    BY <2>4 DEF Fills, GoOn
  <2>5. CASE Dies(d)
    BY <2>5 DEF Dies, Die, LeaveBy
  <2>6. CASE KillRegistered(d)
    <3> DEFINE hit == UNION {SendSignal(p, Mine) : p \in registered[d]}
               dead == {owner[p] : p \in hit} \cap Daemon
    <3>1. /\ pc' = [c \in Daemon |-> CASE c \in dead -> "gone"
                                       [] c \notin dead /\ c = d -> "wipe"
                                       [] OTHER -> pc[c]]
          /\ how' = [c \in Daemon |->
                        IF c \in dead THEN "killed" ELSE how[c]]
      BY <2>6 DEF KillRegistered
    <3> HIDE DEF dead
    <3> QED
      BY <3>1
  <2> QED
    BY <1>1, <2>1, <2>2, <2>3, <2>4, <2>5, <2>6, StepKinds
<1>2. ASSUME NEW p \in Pid, AgentChanges(p) PROVE FALSE
  BY <1>2 DEF AgentChanges, stepVars, Steps, StartUp, Lethal, Leaving,
              Dropping
<1>3. CASE UNCHANGED vars
  BY <1>3 DEF vars, stepVars, Steps, StartUp, Lethal, Leaving, Dropping
<1> QED
  BY <1>1, <1>2, <1>3 DEF Next

\* Whichever of its own ways out a daemon takes, it has killed its child.
THEOREM ChildNeverLeft == Spec => ChildDies
<1>1. TypeOK /\ HostInv /\ [Next]_vars =>
        [\A d \in Daemon : Ends(d) => child[d] # "running"]_vars
  BY EndsLast DEF HostInv, Last, Childless
<1> QED
  BY <1>1, HostAlways, PTL DEF Spec, ChildDies

\* Every byte of a secret is within its mapping, where the wipe finds it, and
\* none is left at the last steps.
MemInv ==
    \A d \in Daemon : \A i \in DOMAIN mem[d] :
        /\ Covered(mem[d][i])
        /\ pc[d] \in Wiped => mem[d][i].secret = {}

LEMMA FillsMem ==
    ASSUME TypeOK, MemInv, NEW d \in Daemon, Fills(d)
    PROVE  MemInv'
<1>1. PICK len \in 0 .. UsizeMod - 1, n \in Nat, step \in {"work", "child"} :
        /\ Mappable(len) /\ Fits(NewBuffer(len), n)
        /\ mem' = [mem EXCEPT ![d] = Append(@, Write(NewBuffer(len), n))]
        /\ pc' = [pc EXCEPT ![d] = step]
  BY DEF Fills, GoOn
<1> DEFINE buf == Write(NewBuffer(len), n)
<1>2. Covered(buf)
  BY <1>1, WriteCovered
<1> HIDE DEF buf
<1>3. mem' = [mem EXCEPT ![d] = Append(@, buf)]
  BY <1>1 DEF buf
<1>4. ASSUME NEW e \in Daemon, NEW i \in DOMAIN mem'[e]
      PROVE  Covered(mem'[e][i])
             /\ (pc'[e] \in Wiped => mem'[e][i].secret = {})
  <2>1. CASE e = d
    <3>1. mem'[e] = Append(mem[d], buf) /\ pc'[e] \notin Wiped
      BY <1>1, <1>3, <2>1 DEF TypeOK, Wiped
    <3>2. mem[d] \in Seq(Buffer) /\ buf \in Buffer
      BY <1>2 DEF TypeOK, Covered
    <3>3. /\ Len(mem[d]) \in Nat
          /\ DOMAIN mem[d] = 1 .. Len(mem[d])
          /\ DOMAIN Append(mem[d], buf) = 1 .. Len(mem[d]) + 1
          /\ \A j \in 1 .. Len(mem[d]) : Append(mem[d], buf)[j] = mem[d][j]
          /\ Append(mem[d], buf)[Len(mem[d]) + 1] = buf
      BY <3>2, AppendProperties
    <3>4. CASE i = Len(mem[d]) + 1
      BY <1>2, <3>1, <3>3, <3>4
    <3>5. CASE i # Len(mem[d]) + 1
      <4>1. i \in 1 .. Len(mem[d])
        BY <1>4, <3>1, <3>3, <3>5
      <4> QED
        BY <3>1, <3>3, <4>1 DEF MemInv
    <3> QED
      BY <3>4, <3>5
  <2>2. CASE e # d
    BY <1>1, <1>3, <1>4, <2>2 DEF MemInv, TypeOK
  <2> QED
    BY <2>1, <2>2
<1> QED
  BY <1>4 DEF MemInv, Covered

LEMMA WipesMem ==
    ASSUME TypeOK, MemInv, NEW d \in Daemon, Wipes(d)
    PROVE  MemInv'
<1>1. PICK step \in Steps :
        /\ pc' = [pc EXCEPT ![d] = step]
        /\ mem' = [mem EXCEPT ![d] = WipedBuffers(d)]
  BY DEF Wipes, WipeStep, GoOn
<1>2. ASSUME NEW e \in Daemon, NEW i \in DOMAIN mem'[e]
      PROVE  Covered(mem'[e][i])
             /\ (pc'[e] \in Wiped => mem'[e][i].secret = {})
  <2>1. CASE e = d
    <3>1. mem'[e] = WipedBuffers(d)
      BY <1>1, <2>1 DEF TypeOK
    <3>2. i \in DOMAIN mem[d] /\ mem'[e][i] = Wipe(mem[d][i])
      BY <1>2, <3>1 DEF WipedBuffers
    <3>3. Covered(mem[d][i])
      BY <3>2 DEF MemInv
    <3> QED
      BY <3>2, <3>3, WipeClears DEF Covered
  <2>2. CASE e # d
    BY <1>1, <1>2, <2>2 DEF MemInv, TypeOK
  <2> QED
    BY <2>1, <2>2
<1> QED
  BY <1>2 DEF MemInv, Covered

\* A process that has ended has no buffers.
LEMMA ReleaseMem ==
    ASSUME TypeOK, MemInv, NEW D \in SUBSET Daemon, Release(D),
           \A e \in Daemon \ D : pc'[e] = pc[e] \/ pc'[e] \notin Wiped
    PROVE  MemInv'
<1>1. mem' = [e \in Daemon |-> IF e \in D THEN <<>> ELSE mem[e]]
  BY DEF Release
<1>2. ASSUME NEW e \in Daemon, NEW i \in DOMAIN mem'[e]
      PROVE  Covered(mem'[e][i])
             /\ (pc'[e] \in Wiped => mem'[e][i].secret = {})
  <2>1. CASE e \in D
    <3>1. mem'[e] = <<>>
      BY <1>1, <2>1
    <3> QED
      BY <1>2, <3>1
  <2>2. CASE e \notin D
    BY <1>1, <1>2, <2>2 DEF MemInv
  <2> QED
    BY <2>1, <2>2
<1> QED
  BY <1>2 DEF MemInv, Covered

LEMMA NextMem == TypeOK /\ HostInv /\ MemInv /\ [Next]_vars => MemInv'
<1> SUFFICES ASSUME TypeOK, HostInv, MemInv, [Next]_vars PROVE MemInv'
  OBVIOUS
<1>1. ASSUME NEW d \in Daemon, Work(d) \/ Outside(d) PROVE MemInv'
  <2>1. CASE UNCHANGED <<pc, mem>>
    BY <2>1 DEF MemInv, Covered
  <2>2. CASE Moves(d)
    <3>1. PICK step \in Steps :
            /\ step \in Wiped => pc[d] \in Wiped
            /\ pc' = [pc EXCEPT ![d] = step]
            /\ UNCHANGED mem
      BY <2>2 DEF Moves
    <3> QED
      BY <3>1 DEF MemInv, Covered, TypeOK
  <2>3. CASE Dies(d)
    <3>1. Release({d}) /\ pc' = [pc EXCEPT ![d] = "gone"]
      BY <2>3 DEF Dies, Die, LeaveBy
    <3> QED
      BY <3>1, ReleaseMem DEF TypeOK
  <2>4. CASE KillRegistered(d)
    <3> DEFINE hit == UNION {SendSignal(p, Mine) : p \in registered[d]}
               dead == {owner[p] : p \in hit} \cap Daemon
    <3>1. /\ Release(dead)
          /\ pc' = [c \in Daemon |-> CASE c \in dead -> "gone"
                                       [] c \notin dead /\ c = d -> "wipe"
                                       [] OTHER -> pc[c]]
      BY <2>4 DEF KillRegistered
    <3>2. dead \in SUBSET Daemon
      OBVIOUS
    <3> HIDE DEF dead
    <3>3. \A e \in Daemon \ dead : pc'[e] = pc[e] \/ pc'[e] \notin Wiped
      BY <3>1 DEF Wiped
    <3> QED
      BY <3>1, <3>2, <3>3, ReleaseMem
  <2> QED
    BY <1>1, <2>1, <2>2, <2>3, <2>4, StepKinds, FillsMem, WipesMem
<1>2. ASSUME NEW p \in Pid, AgentChanges(p) PROVE MemInv'
  BY <1>2 DEF AgentChanges, MemInv, Covered, stepVars, memVars
<1>3. CASE UNCHANGED vars
  BY <1>3 DEF vars, MemInv, Covered, stepVars, memVars
<1> QED
  BY <1>1, <1>2, <1>3 DEF Next

\* Whichever of its own ways out a daemon takes, for any --size that a mapping
\* could be made for, no byte of a secret is in what the kernel gets back.
THEOREM SecretsErased == Spec => NoSecretReturned
<1>1. Init => MemInv
  BY DEF Init, MemInv
<1>2. TypeOK /\ HostInv /\ MemInv /\ [Next]_vars =>
        [\A d \in Daemon : Ends(d) =>
            \A i \in DOMAIN mem[d] : mem[d][i].secret = {}]_vars
  BY EndsLast DEF MemInv, Last, Wiped
<1> QED
  BY <1>1, <1>2, NextMem, HostAlways, PTL DEF Spec, NoSecretReturned

=============================================================================
