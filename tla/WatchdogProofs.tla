--------------------------- MODULE WatchdogProofs ---------------------------
(***************************************************************************)
(* Theorems about the watchdog, for any numbers of connections and pids    *)
(* and for a channel of any length.                                        *)
(***************************************************************************)
EXTENDS Watchdog, FiniteSetTheorems, TLAPS

(* The shapes of events and records.                                       *)

LEMMA EventTypes ==
    /\ \A t \in {"Cancel", "Quit"} \cup Signal : Plain(t) \in Event
    /\ \A t \in Liveness, g \in Nat : [type |-> t, gen |-> g] \in Event
  BY DEF Plain, Event

LEMMA RecordTypes ==
    ASSUME TypeOK
    PROVE  /\ \A t \in {"registered", "self"}, x \in BOOLEAN, ps \in SUBSET Pid :
                  KillRecord(t, x, ps) \in Record
           /\ \A e \in {"wipe", "session_end"}, r \in Reason :
                  ReasonRecord(e, r) \in Record
           /\ \A v \in {"startup", "control"} :
                  [event |-> "arm", via |-> v] \in Record
           /\ \A a \in BOOLEAN :
                  [event |-> "session_start", armed |-> a] \in Record
  BY DEF TypeOK, KillRecord, ReasonRecord, Record

LEMMA ChanTypes ==
    ASSUME TypeOK
    PROVE  /\ \A e \in Event : Append(chan, e) \in Seq(Event)
           /\ chan # <<>> => Head(chan) \in Event /\ Tail(chan) \in Seq(Event)
  BY DEF TypeOK

LEMMA SinkTypes ==
    ASSUME TypeOK
    PROVE  /\ \A e \in Record : Append(sink, e) \in Seq(Record)
           /\ \A s \in Seq(Record) : sink \o s \in Seq(Record)
  BY DEF TypeOK

(* The policy keeps its own types, whatever asks it.                       *)
LEMMA PolicyTypes ==
    ASSUME fired \in BOOLEAN, deadline \in Deadline, pc \in MainPhase,
           grace \in BOOLEAN,
           \/ RequestGraceful(grace) \/ RequestHard \/ CancelPanic \/ Tick
    PROVE  fired' \in BOOLEAN /\ deadline' \in Deadline /\ pc' \in MainPhase
  BY DEF RequestGraceful, RequestHard, CancelPanic, Tick, Execute, DryWipe,
         OpenWindow, Deadline, MainPhase, KillPath, DryPath

-----------------------------------------------------------------------------

(* Type correctness: every variable of the watchdog keeps its type.        *)
THEOREM TypeCorrect == Spec => []TypeOK
<1>1. Init => TypeOK
  <2> SUFFICES ASSUME Init PROVE TypeOK
    OBVIOUS
  <2>1. /\ conn \in [Client -> ConnPhase]
        /\ gen \in [Client -> Nat]
        /\ ctl \in [Control -> CtlPhase]
        /\ asked \in [Control -> Pid \cup {NoPid}]
        /\ \A k \in Control : ctl[k] # "checked"
        /\ proc \in [Pid -> {"agent", "foreign", "gone", "stranger"}]
    BY DEF Init, ConnPhase, CtlPhase
  <2>2. chan \in Seq(Event) /\ sink \in Seq(Record)
    BY DEF Init
  <2>3. /\ deadline \in Deadline /\ pc \in MainPhase
        /\ trigger \in Reason /\ end \in Reason
    BY DEF Init, Deadline, MainPhase, Reason
  <2>4. /\ armed \in BOOLEAN /\ fired \in BOOLEAN
        /\ stop \in BOOLEAN /\ present \in BOOLEAN
        /\ armedAtStart \in BOOLEAN /\ wiped \in BOOLEAN
        /\ bound \in BOOLEAN /\ active \in BOOLEAN
    BY Zenon DEF Init
  <2>5. /\ currentGen \in Nat /\ genSource \in Nat
        /\ controlCount \in Int /\ registered \subseteq Pid
    BY DEF Init
  <2>6. grace \in BOOLEAN
    BY ConstantsAssumption DEF Init
  <2> QED
    BY <2>1, <2>2, <2>3, <2>4, <2>5, <2>6 DEF TypeOK
<1>2. TypeOK /\ [Next]_vars => TypeOK'
  <2> SUFFICES ASSUME TypeOK, [Next]_vars PROVE TypeOK'
    OBVIOUS
  <2> USE DEF policyVars, mainVars, heartVars, ctlVars, pidVars
  <2>1. CASE SpawnThreads
    BY <2>1 DEF TypeOK, SpawnThreads, MainPhase
  <2>2. CASE LoadArmed
    BY <2>2 DEF TypeOK, LoadArmed, MainPhase
  <2>3. CASE RecordSessionStart
    BY <2>3, RecordTypes, SinkTypes DEF TypeOK, RecordSessionStart, Emit, MainPhase
  <2>4. CASE RecordArmStartup
    BY <2>4, RecordTypes, SinkTypes DEF TypeOK, RecordArmStartup, Emit, MainPhase
  <2>5. CASE StopSeen
    BY <2>5 DEF TypeOK, StopSeen, MainPhase
  <2>6. CASE OnConnected
    <3>1. Head(chan).gen \in Nat /\ chan' \in Seq(Event)
      BY <2>6, ChanTypes DEF OnConnected, Receive, Event, Signal
    <3> QED
      BY <2>6, <3>1, PolicyTypes DEF TypeOK, OnConnected, Receive
  <2>7. ASSUME NEW t, NEW r \in Reason, OnLoss(t, r) PROVE TypeOK'
    <3>1. chan' \in Seq(Event)
      BY <2>7, ChanTypes DEF OnLoss, Receive
    <3> QED
      BY <2>7, <3>1, PolicyTypes DEF TypeOK, OnLoss, Receive
  <2>8. CASE OnCancel
    BY <2>8, ChanTypes, PolicyTypes DEF TypeOK, OnCancel, Receive
  <2>9. ASSUME NEW t, NEW r \in Reason, OnStandDown(t, r) PROVE TypeOK'
    BY <2>9, ChanTypes DEF TypeOK, OnStandDown, Receive, MainPhase
  <2>10. CASE OnUsr1
    BY <2>10, ChanTypes, PolicyTypes DEF TypeOK, OnUsr1, Receive, Reason
  <2>11. CASE OnUsr2
    BY <2>11, ChanTypes, PolicyTypes DEF TypeOK, OnUsr2, Receive, Reason
  <2>12. CASE OnTimeout
    BY <2>12, PolicyTypes DEF TypeOK, OnTimeout
  <2>13. CASE Clock
    BY <2>13 DEF TypeOK, Clock, GraceExpires, Deadline
  <2>14. CASE KillRegistered
    <3>1. sink' \in Seq(Record)
      BY <2>14, RecordTypes, SinkTypes DEF TypeOK, KillRegistered, Emit
    <3> QED
      BY <2>14, <3>1 DEF TypeOK, KillRegistered, AfterKill, MainPhase, KillPath
  <2>15. CASE WipeArmed
    <3>1. sink' \in Seq(Record)
      BY <2>15, RecordTypes, SinkTypes DEF TypeOK, WipeArmed, Emit
    <3> QED
      BY <2>15, <3>1 DEF TypeOK, WipeArmed, MainPhase, KillPath
  <2>16. CASE RecordSelfKill
    <3>1. sink' \in Seq(Record)
      BY <2>16, RecordTypes, SinkTypes DEF TypeOK, RecordSelfKill, Emit
    <3> QED
      BY <2>16, <3>1 DEF TypeOK, RecordSelfKill, MainPhase, KillPath
  <2>17. CASE WipeDry
    <3>1. sink' \in Seq(Record)
      BY <2>17, RecordTypes, SinkTypes DEF TypeOK, WipeDry, Emit
    <3> QED
      BY <2>17, <3>1 DEF TypeOK, WipeDry, MainPhase, DryPath
  <2>18. CASE DryDone
    <3> DEFINE r1 == KillRecord("registered", FALSE, registered)
               r2 == KillRecord("self", FALSE, {})
    <3>0. r1 \in Record /\ r2 \in Record
      BY RecordTypes DEF TypeOK
    <3> HIDE DEF r1, r2
    <3>1. <<r1, r2>> \in Seq(Record)
      BY <3>0
    <3>2. sink' \in Seq(Record)
      BY <2>18, <3>1, SinkTypes DEF DryDone, r1, r2
    <3> QED
      BY <2>18, <3>2 DEF TypeOK, DryDone, MainPhase
  <2>19. CASE Cleanup
    <3>1. /\ <<ReasonRecord("wipe", end)>> \in Seq(Record)
          /\ <<ReasonRecord("session_end", end)>> \in Seq(Record)
          /\ <<>> \in Seq(Record)
      BY RecordTypes DEF TypeOK
    <3>2. sink' \in Seq(Record)
      BY <2>19, <3>1 DEF TypeOK, Cleanup
    <3> QED
      BY <2>19, <3>2 DEF TypeOK, Cleanup, MainPhase
  <2>20. ASSUME NEW c \in Client, Claim(c) PROVE TypeOK'
    BY <2>20 DEF TypeOK, Claim, ConnPhase, Holding
  <2>21. ASSUME NEW c \in Client, Number(c) PROVE TypeOK'
    BY <2>21 DEF TypeOK, Number, ConnPhase, Holding
  <2>22. ASSUME NEW c \in Client, Announce(c) PROVE TypeOK'
    <3>1. chan' \in Seq(Event)
      BY <2>22, EventTypes, ChanTypes DEF TypeOK, Announce, Send, Liveness
    <3> QED
      BY <2>22, <3>1 DEF TypeOK, Announce, ConnPhase, Holding
  <2>23. ASSUME NEW c \in Client, ClientCancel(c) PROVE TypeOK'
    BY <2>23, EventTypes, ChanTypes DEF TypeOK, ClientCancel, Send
  <2>24. ASSUME NEW c \in Client, NEW f \in Closing, Release(c, f) PROVE TypeOK'
    BY <2>24 DEF TypeOK, Release, ConnPhase
  <2>25. ASSUME NEW c \in Client, SendTerminal(c) PROVE TypeOK'
    <3>1. TerminalEvent(c) \in Event
      BY <2>25, EventTypes DEF TypeOK, SendTerminal, TerminalEvent, Closing,
                               Liveness
    <3>2. chan' \in Seq(Event)
      BY <2>25, <3>1, ChanTypes DEF SendTerminal, Send
    <3> QED
      BY <2>25, <3>2 DEF TypeOK, SendTerminal, ConnPhase
  <2>26. ASSUME NEW k \in Control, EnterControl(k) PROVE TypeOK'
    BY <2>26 DEF TypeOK, EnterControl, CtlPhase, Serving
  <2>27. ASSUME NEW k \in Control, LeaveControl(k) PROVE TypeOK'
    BY <2>27 DEF TypeOK, LeaveControl, CtlPhase
  <2>28. ASSUME NEW k \in Control, NEW p \in Pid, CheckPid(k, p) PROVE TypeOK'
    BY <2>28 DEF TypeOK, CheckPid, CtlPhase, Serving
  <2>29. ASSUME NEW k \in Control, Register(k) PROVE TypeOK'
    <3>1. registered' \subseteq Pid
      BY <2>29 DEF TypeOK, Register
    <3> QED
      BY <2>29, <3>1 DEF TypeOK, Register, CtlPhase, Serving
  <2>30. ASSUME NEW k \in Control, NEW p \in Pid, Unregister(k, p) PROVE TypeOK'
    BY <2>30 DEF TypeOK, Unregister
  <2>31. ASSUME NEW k \in Control, Arm(k) PROVE TypeOK'
    BY <2>31 DEF TypeOK, Arm, CtlPhase, Serving
  <2>32. ASSUME NEW k \in Control, RecordArm(k) PROVE TypeOK'
    BY <2>32, RecordTypes, SinkTypes DEF TypeOK, RecordArm, Emit, CtlPhase, Serving
  <2>33. ASSUME NEW s \in Signal, SignalArrives(s) PROVE TypeOK'
    BY <2>33, EventTypes, ChanTypes DEF TypeOK, SignalArrives, Send
  <2>34. ASSUME NEW p \in Pid, ProcessEnds(p) \/ PidReused(p) PROVE TypeOK'
    <3>1. PICK x \in {"gone", "stranger", "foreign"} :
              proc' = [proc EXCEPT ![p] = x]
      BY <2>34 DEF ProcessEnds, PidReused
    <3>2. proc' \in [Pid -> {"agent", "foreign", "gone", "stranger"}]
      BY <3>1 DEF TypeOK
    <3> QED
      BY <2>34, <3>2 DEF TypeOK, ProcessEnds, PidReused
  <2>35. CASE Lethal \/ Exit
    BY <2>35 DEF TypeOK, Lethal, Exit, MainPhase
  <2>36. CASE UNCHANGED vars
    BY <2>36 DEF TypeOK, vars
  <2>37. CASE MainStep
    <3>1. {"heartbeat_lost", "ping_timeout", "client_quit", "shutdown"}
              \subseteq Reason
      BY DEF Reason
    <3> QED
      BY <2>1, <2>2, <2>3, <2>4, <2>5, <2>6, <2>7, <2>8, <2>9, <2>10, <2>11,
         <2>12, <2>14, <2>15, <2>16, <2>17, <2>18, <2>19, <2>37, <3>1
         DEF MainStep, BootStep, LoopStep, CallStep
  <2>38. ASSUME NEW c \in Client, ReaderStep(c) \/ ClientStep(c) PROVE TypeOK'
    <3>1. {"lost", "ping_missed", "quit"} \subseteq Closing
      BY DEF Closing
    <3> QED
      BY <2>20, <2>21, <2>22, <2>23, <2>24, <2>25, <2>38, <3>1
         DEF ReaderStep, ClientStep, Drop, MissPing, ClientQuit
  <2>39. ASSUME NEW k \in Control, ControlStep(k) PROVE TypeOK'
    BY <2>26, <2>27, <2>28, <2>29, <2>30, <2>31, <2>32, <2>39 DEF ControlStep
  <2>40. CASE WorldStep
    BY <2>33, <2>34, <2>40 DEF WorldStep
  <2> QED
    BY <2>13, <2>35, <2>36, <2>37, <2>38, <2>39, <2>40
       DEF Next, KikkaStep, Halted
<1> QED
  BY <1>1, <1>2, PTL DEF Spec

-----------------------------------------------------------------------------

\* SingleHolder with what makes it inductive: no generation is ahead of its
\* source, and a thread that has not taken one has none.
HolderInv ==
    /\ SingleHolder
    /\ \A c \in Client : gen[c] <= genSource
    /\ \A c \in Client : conn[c] \in {"new", "claimed"} => gen[c] = 0

(* The steps that touch the heartbeat threads' shared state.               *)
LEMMA HeartSteps ==
    ASSUME [Next]_vars
    PROVE  \/ UNCHANGED heartVars
           \/ \E c \in Client : \/ Claim(c) \/ Number(c) \/ Announce(c)
                                \/ SendTerminal(c)
                                \/ \E f \in Closing : Release(c, f)
<1>1. CASE MainStep
  BY <1>1 DEF MainStep, BootStep, LoopStep, CallStep, SpawnThreads, LoadArmed,
     RecordSessionStart, RecordArmStartup, StopSeen, OnConnected, OnLoss,
     OnCancel, OnStandDown, OnUsr1, OnUsr2, OnTimeout, Receive, KillRegistered,
     WipeArmed, RecordSelfKill, WipeDry, DryDone, Cleanup
<1>2. ASSUME NEW c \in Client, ReaderStep(c) \/ ClientStep(c)
      PROVE  \/ UNCHANGED heartVars
             \/ Claim(c) \/ Number(c) \/ Announce(c) \/ SendTerminal(c)
             \/ \E f \in Closing : Release(c, f)
  BY <1>2 DEF ReaderStep, ClientStep, ClientCancel, Drop, MissPing, ClientQuit,
     Closing
<1>3. ASSUME NEW k \in Control, ControlStep(k) PROVE UNCHANGED heartVars
  BY <1>3 DEF ControlStep, EnterControl, LeaveControl, CheckPid, Register,
     Unregister, Arm, RecordArm
<1>4. CASE Clock \/ WorldStep \/ Lethal \/ Exit \/ UNCHANGED vars
  BY <1>4 DEF Clock, WorldStep, SignalArrives, ProcessEnds, PidReused, Lethal,
     Exit, vars
<1> QED
  BY <1>1, <1>2, <1>3, <1>4 DEF Next, KikkaStep, Halted

LEMMA HolderInvInductive ==
    ASSUME TypeOK, HolderInv, [Next]_vars
    PROVE  HolderInv'
<1> USE DEF HolderInv, SingleHolder, Holder, heartVars
<1>1. ASSUME NEW c \in Client, Claim(c) PROVE HolderInv'
  <2>1. CASE active
    BY <1>1, <2>1 DEF TypeOK, Claim, Holding
  <2>2. CASE ~active
    BY <1>1, <2>2 DEF TypeOK, Claim, Holding
  <2> QED
    BY <2>1, <2>2
<1>2. ASSUME NEW c \in Client, Number(c) PROVE HolderInv'
  BY <1>2 DEF TypeOK, Number, Holding
<1>3. ASSUME NEW c \in Client, Announce(c) PROVE HolderInv'
  BY <1>3 DEF TypeOK, Announce, Holding
<1>4. ASSUME NEW c \in Client, NEW f \in Closing, Release(c, f) PROVE HolderInv'
  BY <1>4 DEF TypeOK, Release, Holding, Closing
<1>5. ASSUME NEW c \in Client, SendTerminal(c) PROVE HolderInv'
  BY <1>5 DEF TypeOK, SendTerminal, Holding, Closing
<1>6. CASE UNCHANGED heartVars
  BY <1>6
<1> QED
  BY <1>1, <1>2, <1>3, <1>4, <1>5, <1>6, HeartSteps

(* The single-client policy: one reader thread at a time holds the         *)
(* heartbeat, with the newest generation, and the active flag says so.     *)
THEOREM SingleHolderAlways == Spec => []SingleHolder
<1>1. Init => HolderInv
  BY DEF Init, HolderInv, SingleHolder, Holder, Holding
<1>2. TypeOK /\ HolderInv /\ [Next]_vars => HolderInv'
  BY HolderInvInductive
<1>3. HolderInv => SingleHolder
  BY DEF HolderInv
<1> QED
  BY <1>1, <1>2, <1>3, TypeCorrect, PTL DEF Spec

-----------------------------------------------------------------------------

\* GenerationsInOrder with what makes it inductive: a generation not announced
\* yet is ahead of the whole channel, and a loss in the channel is of a
\* connection whose thread has returned.
ChanInv ==
    /\ GenerationsInOrder
    /\ currentGen <= genSource
    /\ \A c \in Client :
           conn[c] \in {"numbered", "live"} \cup Closing => gen[c] >= 1
    /\ \A c \in Client : conn[c] = "numbered" =>
           /\ currentGen < gen[c]
           /\ \A i \in 1..Len(chan) :
                  chan[i].type \in Liveness => chan[i].gen < gen[c]
    /\ \A i \in 1..Len(chan) :
           chan[i].type \in Liveness => chan[i].gen \in 1..genSource
    /\ \A i \in 1..Len(chan), c \in Client :
           chan[i].type \in Loss /\ chan[i].gen = gen[c] => conn[c] = "done"


(* The steps that touch the channel, by what they do to it and to the main  *)
(* loop's belief.                                                           *)
LEMMA ChanSteps ==
    ASSUME [Next]_vars
    PROVE  \/ UNCHANGED <<heartVars, chan, currentGen, present>>
           \/ /\ UNCHANGED <<currentGen, present>>
              /\ \E c \in Client : \/ Claim(c) \/ Number(c) \/ Announce(c)
                                   \/ SendTerminal(c)
                                   \/ \E f \in Closing : Release(c, f)
           \/ /\ UNCHANGED <<heartVars, currentGen, present>>
              /\ \E t \in {"Cancel"} \cup Signal : Send(Plain(t))
           \/ OnConnected
           \/ /\ UNCHANGED <<heartVars, currentGen>>
              /\ chan # <<>> /\ chan' = Tail(chan)
              /\ Head(chan).type # "Connected"
              /\ Head(chan).type = "Quit" => pc' = "cleanup"
              /\ \/ /\ UNCHANGED present
                    /\ ~(/\ present /\ Head(chan).type \in Loss
                         /\ Head(chan).gen = currentGen)
                 \/ /\ Head(chan).type \in Loss
                    /\ Head(chan).gen = currentGen
                    /\ present' = FALSE
<1> USE DEF mainVars, heartVars
<1>1. CASE BootStep
  BY <1>1 DEF BootStep, SpawnThreads, LoadArmed, RecordSessionStart,
     RecordArmStartup
<1>2. CASE CallStep
  BY <1>2 DEF CallStep, KillRegistered, WipeArmed, RecordSelfKill, WipeDry,
     DryDone, Cleanup
<1>3. CASE LoopStep
  BY <1>3 DEF LoopStep, StopSeen, OnLoss, OnCancel, OnStandDown, OnUsr1, OnUsr2,
     OnTimeout, Receive, CurrentLoss, Loss
<1>4. ASSUME NEW c \in Client, ReaderStep(c) \/ ClientStep(c)
      PROVE  /\ UNCHANGED <<currentGen, present>>
             /\ \/ Claim(c) \/ Number(c) \/ Announce(c) \/ SendTerminal(c)
                \/ \E f \in Closing : Release(c, f)
                \/ UNCHANGED heartVars /\ Send(Plain("Cancel"))
  BY <1>4 DEF ReaderStep, ClientStep, ClientCancel, Drop, MissPing, ClientQuit,
     Closing, Claim, Number, Announce, SendTerminal, Release
<1>5. ASSUME NEW k \in Control, ControlStep(k)
      PROVE  UNCHANGED <<heartVars, chan, currentGen, present>>
  BY <1>5 DEF ControlStep, EnterControl, LeaveControl, CheckPid, Register,
     Unregister, Arm, RecordArm
<1>6. CASE WorldStep
  BY <1>6 DEF WorldStep, SignalArrives, ProcessEnds, PidReused
<1>7. CASE Clock \/ Lethal \/ Exit \/ UNCHANGED vars
  BY <1>7 DEF Clock, Lethal, Exit, vars
<1> QED
  BY <1>1, <1>2, <1>3, <1>4, <1>5, <1>6, <1>7 DEF Next, KikkaStep, MainStep, Halted

LEMMA AppendFacts ==
    ASSUME TypeOK, NEW e \in Event, chan' = Append(chan, e)
    PROVE  /\ Len(chan) \in Nat /\ Len(chan') = Len(chan) + 1
           /\ \A i \in 1..Len(chan) : chan'[i] = chan[i] /\ chan[i] \in Event
           /\ chan'[Len(chan) + 1] = e
  BY DEF TypeOK

LEMMA TailFacts ==
    ASSUME TypeOK, chan # <<>>, chan' = Tail(chan)
    PROVE  /\ Len(chan) \in Nat /\ Len(chan) >= 1 /\ Len(chan') = Len(chan) - 1
           /\ Head(chan) = chan[1]
           /\ \A i \in 1..Len(chan) : chan[i] \in Event
           /\ \A i \in 1..Len(chan') : chan'[i] = chan[i + 1]
  BY DEF TypeOK

(* The channel after an event that is no announcement of a new connection.  *)
LEMMA ChanInvPlain ==
    ASSUME TypeOK, ChanInv, NEW t \in {"Cancel", "Quit"} \cup Signal,
           Send(Plain(t)), UNCHANGED <<heartVars, currentGen>>
    PROVE  ChanInv'
<1>1. Plain(t) \in Event /\ chan' = Append(chan, Plain(t))
  BY EventTypes DEF Send
<1>2. Plain(t).type \notin Liveness /\ Plain(t).type \notin Loss
  BY DEF Plain, Liveness, Loss, Signal
<1>3. "Connected" \in Liveness
  BY DEF Liveness
<1> QED
  BY <1>1, <1>2, <1>3, AppendFacts
     DEF TypeOK, ChanInv, GenerationsInOrder, heartVars

LEMMA ChanInvTake ==
    ASSUME TypeOK, ChanInv, chan # <<>>, chan' = Tail(chan), UNCHANGED heartVars,
           \/ Head(chan).type # "Connected" /\ UNCHANGED currentGen
           \/ Head(chan).type = "Connected" /\ currentGen' = Head(chan).gen
    PROVE  ChanInv'
<1>1. "Connected" \in Liveness
  BY DEF Liveness
<1>2. /\ Len(chan) \in Nat /\ Len(chan) >= 1 /\ Len(chan') = Len(chan) - 1
      /\ Head(chan) = chan[1]
      /\ \A i \in 1..Len(chan') : chan'[i] = chan[i + 1] /\ i + 1 \in 1..Len(chan)
  BY TailFacts
<1>3. GenerationsInOrder'
  BY <1>1, <1>2 DEF TypeOK, ChanInv, GenerationsInOrder, heartVars
<1>4. currentGen' <= genSource'
  BY <1>1, <1>2 DEF TypeOK, ChanInv, GenerationsInOrder, heartVars
<1>5. ASSUME NEW c \in Client, conn'[c] = "numbered"
      PROVE  /\ currentGen' < gen'[c]
             /\ \A i \in 1..Len(chan') :
                    chan'[i].type \in Liveness => chan'[i].gen < gen'[c]
  BY <1>1, <1>2, <1>5 DEF TypeOK, ChanInv, heartVars
<1>6. \A c \in Client :
          conn'[c] \in {"numbered", "live"} \cup Closing => gen'[c] >= 1
  BY DEF ChanInv, heartVars
<1>7. /\ \A i \in 1..Len(chan') :
             chan'[i].type \in Liveness => chan'[i].gen \in 1..genSource'
      /\ \A i \in 1..Len(chan'), c \in Client :
             chan'[i].type \in Loss /\ chan'[i].gen = gen'[c] =>
                 conn'[c] = "done"
  BY <1>2 DEF ChanInv, heartVars
<1> QED
  BY <1>3, <1>4, <1>5, <1>6, <1>7 DEF ChanInv

LEMMA ChanInvInductive ==
    ASSUME TypeOK, HolderInv, ChanInv, [Next]_vars
    PROVE  ChanInv'
<1>1. ASSUME NEW c \in Client, Claim(c) PROVE ChanInv'
  BY <1>1 DEF TypeOK, HolderInv, ChanInv, GenerationsInOrder, Claim, mainVars,
              Closing
<1>2. ASSUME NEW c \in Client, Number(c) PROVE ChanInv'
  <2>1. Loss \subseteq Liveness
    BY DEF Loss, Liveness
  <2>2. /\ gen' = [gen EXCEPT ![c] = genSource + 1] /\ genSource' = genSource + 1
        /\ conn' = [conn EXCEPT ![c] = "numbered"] /\ conn[c] = "claimed"
        /\ chan' = chan /\ currentGen' = currentGen
    BY <1>2 DEF Number, mainVars
  <2>3. GenerationsInOrder'
    <3>1. genSource \in Nat /\ \A i \in 1..Len(chan) : chan[i].gen \in Int
      BY DEF TypeOK, Event, Liveness, Signal
    <3> QED
      BY <2>2, <3>1 DEF ChanInv, GenerationsInOrder
  <2>4. \A d \in Client : conn'[d] = "numbered" => d = c
    BY <2>2 DEF TypeOK, HolderInv, SingleHolder, Holder, Holding
  <2> QED
    BY <2>1, <2>2, <2>3, <2>4 DEF TypeOK, ChanInv, Closing
<1>3. ASSUME NEW c \in Client, Announce(c) PROVE ChanInv'
  <2> DEFINE e == [type |-> "Connected", gen |-> gen[c]]
  <2>1. e \in Event /\ chan' = Append(chan, e)
    BY <1>3, EventTypes DEF TypeOK, Announce, Send, Liveness
  <2>2. /\ e.type = "Connected" /\ e.gen = gen[c]
        /\ "Connected" \in Liveness /\ "Connected" \notin Loss
    BY DEF Liveness, Loss
  <2> HIDE DEF e
  <2>3. /\ UNCHANGED <<currentGen, genSource>>
        /\ currentGen < gen[c] /\ gen[c] = genSource
        /\ \A i \in 1..Len(chan) :
               chan[i].type \in Liveness => chan[i].gen < gen[c]
    BY <1>3 DEF HolderInv, SingleHolder, ChanInv, Announce, mainVars
  <2>4. /\ Len(chan) \in Nat /\ Len(chan') = Len(chan) + 1
        /\ \A i \in 1..Len(chan) : chan'[i] = chan[i]
        /\ chan'[Len(chan) + 1] = e
    BY <2>1, AppendFacts
  <2>5. currentGen \in Nat /\ genSource \in Nat
    BY DEF TypeOK
  <2>6. GenerationsInOrder'
    BY <2>2, <2>3, <2>4, <2>5 DEF ChanInv, GenerationsInOrder
  <2>7. \A d \in Client : conn'[d] # "numbered"
    BY <1>3 DEF TypeOK, HolderInv, SingleHolder, Holder, Holding, Announce
  <2> QED
    BY <1>3, <2>1, <2>2, <2>6, <2>7, AppendFacts
       DEF TypeOK, HolderInv, ChanInv, Announce, mainVars, Closing
<1>4. ASSUME NEW c \in Client, SendTerminal(c) PROVE ChanInv'
  <2>1. CASE conn[c] = "quit"
    <3>1. chan' = Append(chan, Plain("Quit"))
      BY <1>4, <2>1 DEF SendTerminal, Send, TerminalEvent
    <3>2. Plain("Quit") \in Event
      BY EventTypes
    <3>3. /\ Plain("Quit").type \notin Liveness
          /\ Plain("Quit").type \notin Loss
          /\ Plain("Quit").type # "Connected"
      BY DEF Plain, Liveness, Loss
    <3> QED
      BY <1>4, <2>1, <3>1, <3>2, <3>3, AppendFacts
         DEF TypeOK, ChanInv, GenerationsInOrder, SendTerminal, mainVars, Closing
  <2>2. CASE conn[c] # "quit"
    <3> DEFINE e == TerminalEvent(c)
    <3>1. e.type \in Loss /\ e.gen = gen[c] /\ e \in Event
      BY <1>4, <2>2, EventTypes
         DEF TypeOK, SendTerminal, TerminalEvent, Closing, Loss, Liveness
    <3>2. chan' = Append(chan, e)
      BY <1>4 DEF SendTerminal, Send
    <3>3. /\ Loss \subseteq Liveness /\ "Connected" \in Liveness
          /\ "Connected" \notin Loss
      BY DEF Loss, Liveness
    <3> HIDE DEF e
    <3>4. GenerationsInOrder'
      BY <1>4, <3>1, <3>2, <3>3, AppendFacts
         DEF TypeOK, ChanInv, GenerationsInOrder, SendTerminal, mainVars
    <3>5. \A d \in Client : conn'[d] = "numbered" => gen[c] < gen[d]
      BY <1>4 DEF TypeOK, HolderInv, SingleHolder, ChanInv, SendTerminal, Closing
    <3>6. \A d \in Client : gen[d] = gen[c] => conn'[d] = "done"
      BY <1>4 DEF TypeOK, HolderInv, SingleHolder, ChanInv, SendTerminal
    <3> QED
      BY <1>4, <3>1, <3>2, <3>3, <3>4, <3>5, <3>6, AppendFacts
         DEF TypeOK, HolderInv, ChanInv, SendTerminal, mainVars, Closing
  <2> QED
    BY <2>1, <2>2
<1>5. ASSUME NEW c \in Client, NEW f \in Closing, Release(c, f) PROVE ChanInv'
  BY <1>5 DEF TypeOK, ChanInv, GenerationsInOrder, Release, mainVars, Closing
<1>6. CASE UNCHANGED <<heartVars, chan, currentGen, present>>
  BY <1>6 DEF ChanInv, GenerationsInOrder, heartVars
<1>7. CASE OnConnected
  BY <1>7, ChanInvTake DEF OnConnected, Receive
<1>8. CASE /\ UNCHANGED <<heartVars, currentGen>>
           /\ chan # <<>> /\ chan' = Tail(chan) /\ Head(chan).type # "Connected"
  BY <1>8, ChanInvTake
<1>9. CASE /\ UNCHANGED <<heartVars, currentGen>>
           /\ \E t \in {"Cancel"} \cup Signal : Send(Plain(t))
  BY <1>9, ChanInvPlain
<1> QED
  BY <1>1, <1>2, <1>3, <1>4, <1>5, <1>6, <1>7, <1>8, <1>9, ChanSteps

(* The channel delivers connections oldest first, and no loss ahead of its  *)
(* own connection.                                                          *)
THEOREM GenerationsAlwaysInOrder == Spec => []GenerationsInOrder
<1>1. Init => HolderInv /\ ChanInv
  BY DEF Init, HolderInv, SingleHolder, Holder, Holding, ChanInv,
         GenerationsInOrder, Closing
<1>2. TypeOK /\ HolderInv /\ ChanInv /\ [Next]_vars => HolderInv' /\ ChanInv'
  BY HolderInvInductive, ChanInvInductive
<1>3. ChanInv => GenerationsInOrder
  BY DEF ChanInv
<1> QED
  BY <1>1, <1>2, <1>3, TypeCorrect, PTL DEF Spec

-----------------------------------------------------------------------------

(* An announcement in the channel stays there when something is sent.       *)
LEMMA StillAnnounced ==
    ASSUME TypeOK, NEW e \in Event, chan' = Append(chan, e),
           NEW c \in Client, gen'[c] = gen[c], Announced(c)
    PROVE  Announced(c)'
  BY AppendFacts DEF Announced

LEMMA BelievedInductive ==
    ASSUME TypeOK, HolderInv, ChanInv, LiveIsBelieved, [Next]_vars
    PROVE  LiveIsBelieved'
<1> SUFFICES ASSUME NEW c \in Client, conn'[c] = "live", ~Announced(c)'
             PROVE  present' /\ currentGen' = gen'[c]
  BY DEF LiveIsBelieved
<1>1. ASSUME NEW d \in Client, Claim(d) \/ Number(d), UNCHANGED <<currentGen, present>>
      PROVE  present' /\ currentGen' = gen'[c]
  <2>1. conn[c] = "live" /\ gen'[c] = gen[c] /\ chan' = chan
    BY <1>1 DEF TypeOK, Claim, Number
  <2> QED
    BY <1>1, <2>1 DEF LiveIsBelieved, Announced
<1>2. ASSUME NEW d \in Client, Announce(d), UNCHANGED <<currentGen, present>>
      PROVE  present' /\ currentGen' = gen'[c]
  <2> DEFINE e == [type |-> "Connected", gen |-> gen[d]]
  <2>1. e \in Event /\ chan' = Append(chan, e) /\ gen' = gen
    BY <1>2, EventTypes DEF TypeOK, Announce, Send, Liveness
  <2>2. c # d
    <3> SUFFICES ASSUME c = d PROVE Announced(c)'
      OBVIOUS
    <3>1. Len(chan') = Len(chan) + 1 /\ chan'[Len(chan) + 1] = e /\ Len(chan) \in Nat
      BY <2>1, AppendFacts
    <3> QED
      BY <2>1, <3>1 DEF Announced
  <2>3. conn[c] = "live"
    BY <1>2, <2>2 DEF TypeOK, Announce
  <2> HIDE DEF e
  <2>4. ~Announced(c)
    BY <2>1, StillAnnounced
  <2> QED
    BY <1>2, <2>1, <2>3, <2>4 DEF LiveIsBelieved
<1>3. ASSUME NEW d \in Client, SendTerminal(d), UNCHANGED <<currentGen, present>>
      PROVE  present' /\ currentGen' = gen'[c]
  <2>1. TerminalEvent(d) \in Event /\ chan' = Append(chan, TerminalEvent(d))
    BY <1>3, EventTypes DEF TypeOK, SendTerminal, TerminalEvent, Send, Closing,
                            Liveness
  <2>2. conn[c] = "live" /\ gen' = gen
    BY <1>3 DEF TypeOK, SendTerminal
  <2>3. ~Announced(c)
    BY <2>1, <2>2, StillAnnounced
  <2> QED
    BY <1>3, <2>2, <2>3 DEF LiveIsBelieved
<1>4. ASSUME NEW d \in Client, NEW f \in Closing, Release(d, f),
             UNCHANGED <<currentGen, present>>
      PROVE  present' /\ currentGen' = gen'[c]
  BY <1>4 DEF TypeOK, Release, Closing, LiveIsBelieved, Announced
<1>5. ASSUME UNCHANGED <<heartVars, currentGen, present>>,
             NEW t \in {"Cancel"} \cup Signal, Send(Plain(t))
      PROVE  present' /\ currentGen' = gen'[c]
  <2>1. ~Announced(c)
    BY <1>5, EventTypes, StillAnnounced DEF Send, heartVars
  <2> QED
    BY <1>5, <2>1 DEF LiveIsBelieved, heartVars
<1>6. CASE OnConnected
  <2>1. /\ chan # <<>> /\ chan' = Tail(chan) /\ Head(chan).type = "Connected"
        /\ UNCHANGED heartVars /\ currentGen' = Head(chan).gen /\ present' = TRUE
    BY <1>6 DEF OnConnected, Receive
  <2>2. /\ Len(chan) \in Nat /\ Len(chan) >= 1 /\ Len(chan') = Len(chan) - 1
        /\ Head(chan) = chan[1] /\ chan[1] \in Event
        /\ \A i \in 1..Len(chan') : chan'[i] = chan[i + 1]
    BY <2>1, TailFacts
  <2>3. CASE Announced(c)
    <3>1. PICK i \in 1..Len(chan) :
              chan[i] = [type |-> "Connected", gen |-> gen[c]]
      BY <2>3 DEF Announced
    <3>2. i = 1
      <4> SUFFICES ASSUME i # 1 PROVE Announced(c)'
        OBVIOUS
      <4>1. i - 1 \in 1..Len(chan') /\ chan'[i - 1] = chan[i]
        BY <2>2, <3>1
      <4> QED
        BY <2>1, <3>1, <4>1 DEF Announced, heartVars
    <3> QED
      BY <2>1, <2>2, <3>1, <3>2 DEF heartVars
  <2>4. CASE ~Announced(c)
    <3>1. currentGen = gen[c] /\ gen[c] = genSource
      BY <2>1, <2>4 DEF LiveIsBelieved, HolderInv, SingleHolder, heartVars
    <3>2. chan[1].gen > currentGen /\ chan[1].gen <= genSource
      BY <2>1, <2>2 DEF ChanInv, GenerationsInOrder
    <3>3. genSource \in Nat /\ chan[1].gen \in Int
      BY <2>2 DEF TypeOK, Event
    <3> QED
      BY <3>1, <3>2, <3>3
  <2> QED
    BY <2>3, <2>4
<1>7. ASSUME UNCHANGED <<heartVars, currentGen>>,
             chan # <<>>, chan' = Tail(chan), Head(chan).type # "Connected",
             \/ UNCHANGED present
             \/ Head(chan).type \in Loss /\ Head(chan).gen = currentGen
      PROVE  present' /\ currentGen' = gen'[c]
  <2>1. /\ Len(chan) \in Nat /\ Len(chan) >= 1 /\ Len(chan') = Len(chan) - 1
        /\ Head(chan) = chan[1]
        /\ \A i \in 1..Len(chan') : chan'[i] = chan[i + 1]
    BY <1>7, TailFacts
  <2>2. ~Announced(c)
    <3> SUFFICES ASSUME NEW i \in 1..Len(chan),
                        chan[i] = [type |-> "Connected", gen |-> gen[c]]
                 PROVE  FALSE
      BY DEF Announced
    <3>1. i # 1
      BY <1>7, <2>1
    <3>2. i - 1 \in 1..Len(chan') /\ chan'[i - 1] = chan[i]
      BY <2>1, <3>1
    <3>3. Announced(c)'
      BY <1>7, <3>2 DEF Announced, heartVars
    <3> QED
      BY <3>3
  <2>3. conn[c] = "live" /\ gen'[c] = gen[c]
    BY <1>7 DEF heartVars
  <2>4. present /\ currentGen = gen[c]
    BY <2>2, <2>3 DEF LiveIsBelieved
  <2>5. ~(Head(chan).type \in Loss /\ Head(chan).gen = currentGen)
    BY <2>1, <2>3, <2>4 DEF ChanInv
  <2> QED
    BY <1>7, <2>3, <2>4, <2>5
<1>8. CASE UNCHANGED <<heartVars, chan, currentGen, present>>
  BY <1>8 DEF LiveIsBelieved, Announced, heartVars
<1> QED
  BY <1>1, <1>2, <1>3, <1>4, <1>5, <1>6, <1>7, <1>8, ChanSteps

LEMMA AlarmInductive ==
    ASSUME TypeOK, AlarmIsNotLoss, [Next]_vars
    PROVE  AlarmIsNotLoss'
<1> USE DEF AlarmIsNotLoss, policyVars, mainVars, KillPath
<1>1. CASE BootStep
  BY <1>1 DEF BootStep, SpawnThreads, LoadArmed, RecordSessionStart,
     RecordArmStartup
<1>2. CASE CallStep
  BY <1>2 DEF CallStep, KillRegistered, WipeArmed, RecordSelfKill, WipeDry,
     DryDone, Cleanup
<1>3. CASE StopSeen \/ OnConnected \/ OnCancel \/ OnTimeout
  BY <1>3 DEF StopSeen, OnConnected, OnCancel, OnTimeout, Receive, CancelPanic,
     Tick, Execute
<1>4. ASSUME NEW t, NEW r, OnLoss(t, r) \/ OnStandDown(t, r)
      PROVE  AlarmIsNotLoss'
  BY <1>4 DEF OnLoss, OnStandDown, Receive
<1>5. CASE OnUsr1 \/ OnUsr2
  BY <1>5 DEF OnUsr1, OnUsr2
<1>6. ASSUME NEW c \in Client, ReaderStep(c) \/ ClientStep(c)
      PROVE  AlarmIsNotLoss'
  BY <1>6 DEF ReaderStep, ClientStep, ClientCancel, Drop, MissPing, ClientQuit,
     Claim, Number, Announce, SendTerminal, Release
<1>7. ASSUME NEW k \in Control, ControlStep(k) PROVE AlarmIsNotLoss'
  BY <1>7 DEF ControlStep, EnterControl, LeaveControl, CheckPid, Register,
     Unregister, Arm, RecordArm
<1>8. CASE WorldStep
  BY <1>8 DEF WorldStep, SignalArrives, ProcessEnds, PidReused
<1>9. CASE Clock \/ Lethal \/ Exit \/ UNCHANGED vars
  BY <1>9 DEF Clock, GraceExpires, Lethal, Exit, vars
<1> QED
  BY <1>1, <1>2, <1>3, <1>4, <1>5, <1>6, <1>7, <1>8, <1>9
     DEF Next, KikkaStep, MainStep, LoopStep, Halted

(* No false alarm: however the threads' events are reordered, a live client *)
(* the main loop has taken is the one it believes in, and neither an open   *)
(* grace window nor a running kill is about its heartbeat.                  *)
THEOREM NoFalseAlarmEver == Spec => []NoFalseAlarm
<1> DEFINE IInv == HolderInv /\ ChanInv /\ LiveIsBelieved /\ AlarmIsNotLoss
<1>1. Init => IInv
  BY DEF Init, HolderInv, SingleHolder, Holder, Holding, ChanInv,
         GenerationsInOrder, Closing, LiveIsBelieved, AlarmIsNotLoss
<1>2. TypeOK /\ IInv /\ [Next]_vars => IInv'
  BY HolderInvInductive, ChanInvInductive, BelievedInductive, AlarmInductive
<1>3. IInv => NoFalseAlarm
  BY DEF NoFalseAlarm
<1> QED
  BY <1>1, <1>2, <1>3, TypeCorrect, PTL DEF Spec

-----------------------------------------------------------------------------

\* Where the main loop no longer takes events.
Leaving == {"cleanup", "returned", "exited", "dead"}

\* A connection that holds generation g is open, or the news of its end is to
\* come.
OnTheWay(g) ==
    \E c \in Client :
        /\ gen[c] = g
        /\ conn[c] = "live" \/ conn[c] \in Closing \/ LossQueued(c)

\* NoMissedLoss with what makes it inductive: it holds wherever the loop can
\* be gone on with, and for every connection still to be taken.
LossInv ==
    pc \notin Leaving =>
        /\ present => currentGen >= 1 /\ OnTheWay(currentGen)
        /\ \A i \in 1..Len(chan) :
               chan[i].type = "Connected" => OnTheWay(chan[i].gen)

LEMMA StaysLeaving ==
    ASSUME [Next]_vars, pc \in Leaving
    PROVE  pc' \in Leaving
<1> USE DEF policyVars, Leaving
<1>1. CASE MainStep
  BY <1>1 DEF MainStep, BootStep, LoopStep, CallStep, SpawnThreads, LoadArmed,
     RecordSessionStart, RecordArmStartup, StopSeen, OnConnected, OnLoss,
     OnCancel, OnStandDown, OnUsr1, OnUsr2, OnTimeout, Receive, KillRegistered,
     WipeArmed, RecordSelfKill, WipeDry, DryDone, Cleanup
<1>2. ASSUME NEW c \in Client, ReaderStep(c) \/ ClientStep(c)
      PROVE  UNCHANGED pc
  BY <1>2 DEF ReaderStep, ClientStep, ClientCancel, Drop, MissPing, ClientQuit,
     Claim, Number, Announce, SendTerminal, Release
<1>3. ASSUME NEW k \in Control, ControlStep(k) PROVE UNCHANGED pc
  BY <1>3 DEF ControlStep, EnterControl, LeaveControl, CheckPid, Register,
     Unregister, Arm, RecordArm
<1>4. CASE Clock \/ WorldStep \/ Lethal \/ Exit \/ UNCHANGED vars
  BY <1>4 DEF Clock, WorldStep, SignalArrives, ProcessEnds, PidReused, Lethal,
     Exit, vars
<1> QED
  BY <1>1, <1>2, <1>3, <1>4 DEF Next, KikkaStep, Halted

(* Sending takes no news away, and neither does a step of another thread.   *)
LEMMA NewsStays ==
    ASSUME TypeOK, NEW g,
           \A i \in 1..Len(chan) : i \in 1..Len(chan') /\ chan'[i] = chan[i],
           \A c \in Client : gen[c] = g => gen'[c] = g,
           \A c \in Client : gen[c] = g /\ conn[c] \in {"live"} \cup Closing =>
               \/ conn'[c] \in {"live"} \cup Closing
               \/ LossQueued(c)',
           OnTheWay(g)
    PROVE  OnTheWay(g)'
<1>1. PICK c \in Client :
          /\ gen[c] = g
          /\ conn[c] = "live" \/ conn[c] \in Closing \/ LossQueued(c)
  BY DEF OnTheWay
<1>2. CASE LossQueued(c)
  BY <1>1, <1>2 DEF OnTheWay, LossQueued
<1>3. CASE conn[c] = "live" \/ conn[c] \in Closing
  BY <1>1, <1>3 DEF OnTheWay
<1> QED
  BY <1>1, <1>2, <1>3

(* Taking an event loses no news of g unless the event is that news.        *)
LEMMA NewsPasses ==
    ASSUME TypeOK, chan # <<>>, chan' = Tail(chan), UNCHANGED heartVars,
           Head(chan).type # "Quit", NEW g,
           ~(Head(chan).type \in Loss /\ Head(chan).gen = g),
           OnTheWay(g)
    PROVE  OnTheWay(g)'
<1>1. PICK c \in Client :
          /\ gen[c] = g
          /\ conn[c] = "live" \/ conn[c] \in Closing \/ LossQueued(c)
  BY DEF OnTheWay
<1>2. gen' = gen /\ conn' = conn
  BY DEF heartVars
<1>3. CASE LossQueued(c)
  <2>1. PICK i \in 1..Len(chan) :
            \/ chan[i].type \in Loss /\ chan[i].gen = gen[c]
            \/ chan[i].type = "Quit"
    BY <1>3 DEF LossQueued
  <2>2. /\ Len(chan) \in Nat /\ Len(chan') = Len(chan) - 1
        /\ Head(chan) = chan[1]
        /\ \A j \in 1..Len(chan') : chan'[j] = chan[j + 1]
    BY TailFacts
  <2>3. i # 1
    BY <1>1, <2>1, <2>2
  <2>4. i - 1 \in 1..Len(chan') /\ chan'[i - 1] = chan[i]
    BY <2>2, <2>3
  <2>5. LossQueued(c)'
    BY <1>2, <2>1, <2>4 DEF LossQueued
  <2> QED
    BY <1>1, <1>2, <2>5 DEF OnTheWay
<1>4. CASE conn[c] = "live" \/ conn[c] \in Closing
  BY <1>1, <1>2, <1>4 DEF OnTheWay
<1> QED
  BY <1>1, <1>3, <1>4

(* After a step that sends one event, or none.                              *)
LEMMA LossInvGrows ==
    ASSUME TypeOK, pc \notin Leaving, LossInv, UNCHANGED <<currentGen, present>>,
           \A g \in Nat : g >= 1 /\ OnTheWay(g) => OnTheWay(g)',
           \A i \in 1..Len(chan) : chan[i].type = "Connected" => chan[i].gen >= 1,
           \/ chan' = chan
           \/ \E e \in Event :
                  /\ chan' = Append(chan, e)
                  /\ e.type = "Connected" => OnTheWay(e.gen)'
    PROVE  LossInv'
<1>0. \A i \in 1..Len(chan) : chan[i].gen \in Nat
  BY DEF TypeOK, Event
<1>1. present' => currentGen' >= 1 /\ OnTheWay(currentGen)'
  BY DEF TypeOK, LossInv, OnTheWay
<1>2. CASE chan' = chan
  BY <1>0, <1>1, <1>2 DEF LossInv, OnTheWay
<1>3. ASSUME NEW e \in Event, chan' = Append(chan, e),
             e.type = "Connected" => OnTheWay(e.gen)'
      PROVE  LossInv'
  <2>1. ASSUME NEW i \in 1..Len(chan'), chan'[i].type = "Connected"
        PROVE  OnTheWay(chan[i].gen)'
    <3>1. CASE i = Len(chan) + 1
      BY <1>3, <2>1, <3>1, AppendFacts DEF OnTheWay
    <3>2. CASE i \in 1..Len(chan)
      <4>1. chan'[i] = chan[i]
        BY <1>3, <3>2, AppendFacts
      <4>2. OnTheWay(chan[i].gen) /\ chan[i].gen \in Nat /\ chan[i].gen >= 1
        BY <1>0, <2>1, <3>2, <4>1 DEF LossInv
      <4>3. \A g : g = chan[i].gen => OnTheWay(g)'
        BY <4>2
      <4> QED
        BY <4>1, <4>3 DEF OnTheWay
    <3> QED
      BY <1>3, <3>1, <3>2, AppendFacts
  <2> QED
    BY <1>1, <2>1 DEF LossInv
<1> QED
  BY <1>2, <1>3

LEMMA LossInvInductive ==
    ASSUME TypeOK, HolderInv, ChanInv, LossInv, [Next]_vars
    PROVE  LossInv'
<1>0. CASE pc' \in Leaving
  BY <1>0 DEF LossInv
<1> SUFFICES ASSUME pc' \notin Leaving PROVE LossInv'
  BY <1>0
<1>1. pc \notin Leaving
  BY StaysLeaving
<1>2. /\ \A i \in 1..Len(chan) : chan[i].type = "Connected" => chan[i].gen >= 1
      /\ \A i \in 1..Len(chan) : i \in 1..Len(chan) /\ chan[i] = chan[i]
  BY DEF TypeOK, ChanInv, Liveness
<1>3. \A c \in Client : conn[c] = "claimed" => gen[c] = 0
  BY DEF HolderInv
<1>4. ASSUME NEW d \in Client, Claim(d) \/ Number(d), UNCHANGED <<currentGen, present>>
      PROVE  LossInv'
  <2>1. chan' = chan
    BY <1>4 DEF Claim, Number
  <2>2. ASSUME NEW g \in Nat, g >= 1, OnTheWay(g) PROVE OnTheWay(g)'
    <3>1. \A c \in Client : gen[c] = g => gen'[c] = g
      BY <1>3, <1>4, <2>2 DEF TypeOK, Claim, Number
    <3>2. \A c \in Client : conn[c] = "live" \/ conn[c] \in Closing
                               => conn'[c] = conn[c]
      BY <1>4 DEF TypeOK, Claim, Number, Closing
    <3> QED
      BY <1>2, <2>1, <2>2, <3>1, <3>2, NewsStays
  <2> QED
    BY <1>1, <1>2, <1>4, <2>1, <2>2, LossInvGrows
<1>5. ASSUME NEW d \in Client, NEW f \in Closing, Release(d, f),
             UNCHANGED <<currentGen, present>>
      PROVE  LossInv'
  <2>1. chan' = chan /\ gen' = gen
    BY <1>5 DEF Release
  <2>2. \A c \in Client : conn[c] = "live" \/ conn[c] \in Closing
                             => conn'[c] = "live" \/ conn'[c] \in Closing
    BY <1>5 DEF TypeOK, Release
  <2>3. \A g \in Nat : OnTheWay(g) => OnTheWay(g)'
    BY <1>2, <2>1, <2>2, NewsStays
  <2> QED
    BY <1>1, <1>2, <1>5, <2>1, <2>3, LossInvGrows
<1>6. ASSUME NEW d \in Client, Announce(d), UNCHANGED <<currentGen, present>>
      PROVE  LossInv'
  <2>0. [type |-> "Connected", gen |-> gen[d]] \in Event
    BY EventTypes DEF TypeOK, Liveness
  <2> PICK e \in Event : e = [type |-> "Connected", gen |-> gen[d]]
    BY <2>0
  <2>1. chan' = Append(chan, e) /\ gen' = gen /\ e.gen = gen[d]
    BY <1>6 DEF Announce, Send
  <2>2. conn'[d] = "live" /\ \A c \in Client \ {d} : conn'[c] = conn[c]
    BY <1>6 DEF TypeOK, Announce
  <2>3. OnTheWay(e.gen)'
    BY <2>1, <2>2 DEF OnTheWay
  <2>4. \A i \in 1..Len(chan) : i \in 1..Len(chan') /\ chan'[i] = chan[i]
    BY <2>1, AppendFacts
  <2>5. \A g \in Nat : OnTheWay(g) => OnTheWay(g)'
    BY <2>1, <2>2, <2>4, NewsStays
  <2> QED
    BY <1>1, <1>2, <1>6, <2>1, <2>3, <2>5, LossInvGrows
<1>7. ASSUME NEW d \in Client, SendTerminal(d), UNCHANGED <<currentGen, present>>
      PROVE  LossInv'
  <2> DEFINE e == TerminalEvent(d)
  <2>1. e \in Event /\ chan' = Append(chan, e) /\ gen' = gen
    BY <1>7, EventTypes DEF TypeOK, SendTerminal, TerminalEvent, Send, Closing,
                            Liveness
  <2>2. \A c \in Client \ {d} : conn'[c] = conn[c]
    BY <1>7 DEF TypeOK, SendTerminal
  <2>3. e.type = "Quit" \/ (e.type \in Loss /\ e.gen = gen[d])
    BY <1>7 DEF SendTerminal, TerminalEvent, Closing, Loss, Plain
  <2>4. \A i \in 1..Len(chan) : i \in 1..Len(chan') /\ chan'[i] = chan[i]
    BY <2>1, AppendFacts
  <2>5. e.type # "Connected"
    BY <2>3 DEF Loss
  <2> HIDE DEF e
  <2>6. LossQueued(d)'
    <3>1. Len(chan) + 1 \in 1..Len(chan') /\ chan'[Len(chan) + 1] = e
      BY <2>1, AppendFacts
    <3> QED
      BY <2>1, <2>3, <3>1 DEF LossQueued
  <2>7. \A g \in Nat : OnTheWay(g) => OnTheWay(g)'
    BY <2>1, <2>2, <2>4, <2>6, NewsStays
  <2> QED
    BY <1>1, <1>2, <1>7, <2>1, <2>5, <2>7, LossInvGrows
<1>8. ASSUME UNCHANGED <<heartVars, currentGen, present>>,
             NEW t \in {"Cancel"} \cup Signal, Send(Plain(t))
      PROVE  LossInv'
  <2> DEFINE e == Plain(t)
  <2>0. t \in {"Cancel", "Quit"} \cup Signal /\ t # "Connected"
    BY DEF Signal
  <2>1. e \in Event
    BY <2>0, EventTypes
  <2>2. e.type # "Connected"
    BY <2>0 DEF Plain
  <2>5. chan' = Append(chan, e)
    BY <1>8 DEF Send
  <2> HIDE DEF e
  <2>3. \A i \in 1..Len(chan) : i \in 1..Len(chan') /\ chan'[i] = chan[i]
    BY <2>1, <2>5, AppendFacts
  <2>4. \A g \in Nat : OnTheWay(g) => OnTheWay(g)'
    BY <1>8, <2>3, NewsStays DEF heartVars
  <2> QED
    BY <1>1, <1>2, <1>8, <2>1, <2>2, <2>4, <2>5, LossInvGrows
<1>9. CASE UNCHANGED <<heartVars, chan, currentGen, present>>
  BY <1>1, <1>9 DEF LossInv, OnTheWay, LossQueued, heartVars
<1>10. ASSUME chan # <<>>, chan' = Tail(chan), UNCHANGED heartVars,
              Head(chan).type # "Quit",
              \/ /\ Head(chan).type = "Connected"
                 /\ currentGen' = Head(chan).gen /\ present' = TRUE
              \/ /\ Head(chan).type # "Connected" /\ UNCHANGED currentGen
                 /\ \/ UNCHANGED present
                    \/ present' = FALSE
                 /\ present' => ~(/\ Head(chan).type \in Loss
                                 /\ Head(chan).gen = currentGen)
       PROVE  LossInv'
  <2>1. /\ Len(chan) \in Nat /\ Len(chan) >= 1 /\ Len(chan') = Len(chan) - 1
        /\ Head(chan) = chan[1] /\ 1 \in 1..Len(chan)
        /\ \A i \in 1..Len(chan') : /\ chan'[i] = chan[i + 1]
                                    /\ i + 1 \in 1..Len(chan)
    BY <1>10, TailFacts
  <2>2. "Connected" \in Liveness /\ Loss \subseteq Liveness
        /\ "Connected" \notin Loss
    BY DEF Liveness, Loss
  <2>3. ASSUME NEW i \in 1..Len(chan'), chan'[i].type = "Connected"
        PROVE  OnTheWay(chan[i].gen)'
    <3>1. OnTheWay(chan[i + 1].gen)
      BY <1>1, <2>1, <2>3 DEF LossInv
    <3>2. ~(Head(chan).type \in Loss /\ Head(chan).gen = chan[i + 1].gen)
      BY <2>1, <2>2, <2>3 DEF ChanInv, GenerationsInOrder
    <3>3. \A g : g = chan[i + 1].gen => OnTheWay(g)'
      BY <1>10, <3>1, <3>2, NewsPasses
    <3> QED
      BY <2>1, <3>3 DEF OnTheWay
  <2>4. ASSUME present' PROVE currentGen' >= 1 /\ OnTheWay(currentGen)'
    <3>1. CASE Head(chan).type = "Connected"
      <4>1. OnTheWay(Head(chan).gen) /\ Head(chan).gen >= 1
        BY <1>1, <1>2, <2>1, <3>1 DEF LossInv
      <4>2. \A g : g = Head(chan).gen => OnTheWay(g)'
        BY <1>10, <2>2, <3>1, <4>1, NewsPasses
      <4> QED
        BY <1>10, <3>1, <4>1, <4>2 DEF OnTheWay
    <3>2. CASE Head(chan).type # "Connected"
      <4>1. currentGen' = currentGen /\ present
        BY <1>10, <2>4, <3>2
      <4>2. OnTheWay(currentGen) /\ currentGen >= 1
        BY <1>1, <4>1 DEF LossInv
      <4>3. \A g : g = currentGen => OnTheWay(g)'
        BY <1>10, <2>4, <3>2, <4>2, NewsPasses
      <4> QED
        BY <4>1, <4>2, <4>3 DEF OnTheWay
    <3> QED
      BY <3>1, <3>2
  <2> QED
    BY <2>3, <2>4 DEF LossInv
<1>11. CASE OnConnected
  BY <1>10, <1>11 DEF OnConnected, Receive
<1>12. ASSUME UNCHANGED <<heartVars, currentGen>>,
              chan # <<>>, chan' = Tail(chan), Head(chan).type # "Connected",
              Head(chan).type = "Quit" => pc' = "cleanup",
              \/ /\ UNCHANGED present
                 /\ ~(/\ present /\ Head(chan).type \in Loss
                      /\ Head(chan).gen = currentGen)
              \/ /\ Head(chan).type \in Loss
                 /\ Head(chan).gen = currentGen
                 /\ present' = FALSE
       PROVE  LossInv'
  <2>1. Head(chan).type # "Quit"
    BY <1>12 DEF Leaving
  <2>2. present' => ~(/\ Head(chan).type \in Loss
                      /\ Head(chan).gen = currentGen)
    BY Zenon, <1>12
  <2>3. UNCHANGED present \/ present' = FALSE
    BY Zenon, <1>12
  <2> QED
    BY <1>10, <1>12, <2>1, <2>2, <2>3
<1> QED
  BY <1>4, <1>5, <1>6, <1>7, <1>8, <1>9, <1>11, <1>12, ChanSteps

(* No missed loss: whatever the main loop believes, the client it believes  *)
(* in is there, or its loss or its QUIT has still to be taken.              *)
THEOREM NoLossMissed == Spec => []NoMissedLoss
<1> DEFINE IInv == HolderInv /\ ChanInv /\ LossInv
<1>1. Init => IInv
  BY DEF Init, HolderInv, SingleHolder, Holder, Holding, ChanInv,
         GenerationsInOrder, Closing, LossInv
<1>2. TypeOK /\ IInv /\ [Next]_vars => IInv'
  BY HolderInvInductive, ChanInvInductive, LossInvInductive
<1>3. IInv => NoMissedLoss
  BY DEF LossInv, Leaving, OnTheWay, NoMissedLoss
<1> QED
  BY <1>1, <1>2, <1>3, TypeCorrect, PTL DEF Spec

-----------------------------------------------------------------------------

\* The control connections that are served, and those that are counted.
Served == {k \in Control : ctl[k] \in Serving}
Counted == {k \in Control : ctl[k] \in Serving \cup {"refused"}}

(* The steps that touch the control connections or the list of pids.       *)
LEMMA ControlSteps ==
    ASSUME [Next]_vars
    PROVE  /\ \/ UNCHANGED <<ctl, controlCount>>
              \/ \E k \in Control :
                     \/ EnterControl(k) \/ LeaveControl(k)
                     \/ /\ ctl[k] \in Serving
                        /\ \E f \in Serving : ctl' = [ctl EXCEPT ![k] = f]
                        /\ UNCHANGED controlCount
           /\ \/ UNCHANGED registered
              \/ \E k \in Control : Register(k)
              \/ \E p \in Pid : registered' = registered \ {p}
<1> DEFINE Same == UNCHANGED <<ctl, controlCount, registered>>
<1> USE DEF ctlVars, pidVars
<1>1. MainStep => Same
  BY DEF MainStep, BootStep, LoopStep, CallStep, SpawnThreads, LoadArmed,
     RecordSessionStart, RecordArmStartup, StopSeen, OnConnected, OnLoss,
     OnCancel, OnStandDown, OnUsr1, OnUsr2, OnTimeout, Receive, KillRegistered,
     WipeArmed, RecordSelfKill, WipeDry, DryDone, Cleanup
<1>2. ASSUME NEW c \in Client, ReaderStep(c) \/ ClientStep(c)
      PROVE  Same
  BY <1>2 DEF ReaderStep, ClientStep, ClientCancel, Drop, MissPing, ClientQuit,
     Claim, Number, Announce, SendTerminal, Release
<1>3. ASSUME NEW k \in Control, ControlStep(k)
      PROVE  /\ \/ UNCHANGED <<ctl, controlCount>>
                \/ EnterControl(k) \/ LeaveControl(k)
                \/ /\ ctl[k] \in Serving
                   /\ \E f \in Serving : ctl' = [ctl EXCEPT ![k] = f]
                   /\ UNCHANGED controlCount
             /\ \/ UNCHANGED registered
                \/ Register(k)
                \/ \E p \in Pid : registered' = registered \ {p}
  <2>1. CASE EnterControl(k) \/ LeaveControl(k)
    BY <2>1 DEF EnterControl, LeaveControl
  <2>2. CASE Register(k) \/ Arm(k) \/ RecordArm(k)
    BY <2>2 DEF Register, Arm, RecordArm, Serving
  <2>3. ASSUME NEW p \in Pid, CheckPid(k, p) \/ Unregister(k, p)
        PROVE  \/ /\ UNCHANGED registered /\ UNCHANGED controlCount
                  /\ ctl[k] \in Serving
                  /\ ctl' = [ctl EXCEPT ![k] = "checked"]
               \/ /\ UNCHANGED <<ctl, controlCount>>
                  /\ registered' = registered \ {p}
    BY <2>3 DEF CheckPid, Unregister, Serving
  <2>4. "checked" \in Serving
    BY DEF Serving
  <2> QED
    BY <1>3, <2>1, <2>2, <2>3, <2>4 DEF ControlStep
<1>4. CASE Clock \/ WorldStep \/ Lethal \/ Exit \/ UNCHANGED vars
  BY <1>4 DEF Clock, WorldStep, SignalArrives, ProcessEnds, PidReused, Lethal,
     Exit, vars
<1> QED
  BY <1>1, <1>2, <1>3, <1>4 DEF Next, KikkaStep, Halted

LEMMA ControlFinite ==
    /\ IsFiniteSet(Served) /\ IsFiniteSet(Counted)
    /\ Cardinality(Served) \in Nat /\ Cardinality(Counted) \in Nat
    /\ Cardinality(Served) <= Cardinality(Counted)
  BY ConstantsAssumption, FS_Subset, FS_CardinalityType DEF Served, Counted

LEMMA CapsInductive ==
    ASSUME TypeOK, CapsHold, [Next]_vars
    PROVE  CapsHold'
<1>1. Cardinality(registered') <= MaxRegistered
  <2>1. IsFiniteSet(registered) /\ Cardinality(registered) \in Nat
    BY ConstantsAssumption, FS_Subset, FS_CardinalityType DEF TypeOK
  <2>2. ASSUME NEW k \in Control, Register(k)
        PROVE  Cardinality(registered') <= MaxRegistered
    <3>1. CASE Cardinality(registered) < MaxRegistered
      <4>1. registered' = registered \cup {asked[k]}
        BY <2>2, <3>1 DEF Register
      <4>2. \/ Cardinality(registered') = Cardinality(registered)
            \/ Cardinality(registered') = Cardinality(registered) + 1
        BY <2>1, <4>1, FS_AddElement
      <4> QED
        BY <2>1, <3>1, <4>2, ConstantsAssumption
    <3>2. CASE ~(Cardinality(registered) < MaxRegistered)
      BY <2>2, <3>2 DEF CapsHold, Register
    <3> QED
      BY <3>1, <3>2
  <2>3. ASSUME NEW p \in Pid, registered' = registered \ {p}
        PROVE  Cardinality(registered') <= MaxRegistered
    <3>1. /\ Cardinality(registered \ {p}) <= Cardinality(registered)
          /\ Cardinality(registered \ {p}) \in Nat
      BY <2>1, FS_RemoveElement, FS_Subset, FS_CardinalityType
    <3> QED
      BY <2>1, <2>3, <3>1, ConstantsAssumption DEF CapsHold
  <2> QED
    BY <2>2, <2>3, ControlSteps DEF CapsHold
<1>2. /\ Cardinality(Served) <= MaxControl
      /\ controlCount = Cardinality(Counted)
  BY DEF CapsHold, Served, Counted
<1>3. Cardinality(Served') <= MaxControl /\ controlCount' = Cardinality(Counted')
  <2>1. ASSUME NEW k \in Control, EnterControl(k)
        PROVE  /\ Cardinality(Served') <= MaxControl
               /\ controlCount' = Cardinality(Counted')
    <3>1. k \notin Counted /\ k \notin Served
      BY <2>1 DEF EnterControl, Counted, Served, Serving
    <3>2. Counted' = Counted \cup {k} /\ controlCount' = controlCount + 1
      BY <2>1 DEF TypeOK, EnterControl, Counted, Serving
    <3>3. Cardinality(Counted') = Cardinality(Counted) + 1
      BY <3>1, <3>2, ControlFinite, FS_AddElement
    <3>4. CASE controlCount >= MaxControl
      <4>1. Served' = Served
        BY <2>1, <3>4 DEF TypeOK, EnterControl, Served, Serving
      <4> QED
        BY <1>2, <3>2, <3>3, <4>1
    <3>5. CASE ~(controlCount >= MaxControl)
      <4>1. Served' = Served \cup {k}
        BY <2>1, <3>5 DEF TypeOK, EnterControl, Served, Serving
      <4>2. Cardinality(Served') = Cardinality(Served) + 1
        BY <3>1, <4>1, ControlFinite, FS_AddElement
      <4> QED
        BY <1>2, <3>2, <3>3, <3>5, <4>2, ControlFinite, ConstantsAssumption
    <3> QED
      BY <3>4, <3>5
  <2>2. ASSUME NEW k \in Control, LeaveControl(k)
        PROVE  /\ Cardinality(Served') <= MaxControl
               /\ controlCount' = Cardinality(Counted')
    <3>1. k \in Counted
      BY <2>2 DEF LeaveControl, Counted, Serving
    <3>2. /\ Counted' = Counted \ {k} /\ Served' = Served \ {k}
          /\ controlCount' = controlCount - 1
      BY <2>2 DEF TypeOK, LeaveControl, Counted, Served, Serving
    <3>3. Cardinality(Counted') = Cardinality(Counted) - 1
      BY <3>1, <3>2, ControlFinite, FS_RemoveElement
    <3>4. /\ Cardinality(Served') <= Cardinality(Served)
          /\ Cardinality(Served') \in Nat
      BY <3>2, ControlFinite, FS_Subset, FS_CardinalityType
    <3> QED
      BY <1>2, <3>2, <3>3, <3>4, ControlFinite, ConstantsAssumption
  <2>3. ASSUME NEW k \in Control, NEW f \in Serving, ctl[k] \in Serving,
               ctl' = [ctl EXCEPT ![k] = f], UNCHANGED controlCount
        PROVE  /\ Cardinality(Served') <= MaxControl
               /\ controlCount' = Cardinality(Counted')
    <3>1. Counted' = Counted /\ Served' = Served
      BY <2>3 DEF TypeOK, Counted, Served
    <3> QED
      BY <1>2, <2>3, <3>1
  <2>4. CASE UNCHANGED <<ctl, controlCount>>
    BY <1>2, <2>4 DEF Served, Counted
  <2> QED
    BY <2>1, <2>2, <2>3, <2>4, ControlSteps
<1> QED
  BY <1>1, <1>3 DEF CapsHold, Served, Counted

(* The caps hold for any numbers of connections and pids: no interleaving   *)
(* of the handlers takes the list of pids or the served connections past    *)
(* its cap, and the count is given back exactly once by each connection.    *)
THEOREM CapsAlwaysHold == Spec => []CapsHold
<1>1. Init => CapsHold
  <2> SUFFICES ASSUME Init PROVE CapsHold
    OBVIOUS
  <2>1. /\ {k \in Control : ctl[k] \in Serving} = {}
        /\ {k \in Control : ctl[k] \in Serving \cup {"refused"}} = {}
        /\ registered = {} /\ controlCount = 0
    BY DEF Init, Serving
  <2> QED
    BY <2>1, FS_EmptySet, ConstantsAssumption DEF CapsHold
<1>2. TypeOK /\ CapsHold /\ [Next]_vars => CapsHold'
  BY CapsInductive
<1> QED
  BY <1>1, <1>2, TypeCorrect, PTL DEF Spec

=============================================================================
