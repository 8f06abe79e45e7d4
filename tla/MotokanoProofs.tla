---------------------------- MODULE MotokanoProofs ----------------------------
(***************************************************************************)
(* Theorems about motokano, for any calls, tools and number of calls to    *)
(* serve, and for any dispatch of the calls.                               *)
(***************************************************************************)
EXTENDS Motokano, FiniteSetTheorems, TLAPS

Inside == {"entered", "unregistering", "flushing", "wiped", "told", "leaving"}
Zeroed == {"zeroed", "won", "last"}
Unfinished == {"admitted", "running", "ready", "recorded", "loaded"}

-----------------------------------------------------------------------------
(* The inductive invariant, in parts.                                      *)

\* A call that has loaded the counter has seen a positive one.
LoadInv == \A c \in Call : call[c] = "loaded" => seen[c] > 0

\* Only counted calls reach the counter, one call in all brings it to zero,
\* and it has fired for a winner.
CounterInv ==
    /\ CounterIsExact
    /\ \A c \in Call :
           call[c] \in {"recorded", "loaded"} \cup Zeroed => CountsCalls
    /\ \A c \in Call : call[c] \in Zeroed => remaining = 0
    /\ \A c, d \in Call : call[c] \in Zeroed /\ call[d] \in Zeroed => c = d

\* A counter that has fired has closed the server, or has been fired by the end
\* of the input, or the winner is about to close it.
FiredInv ==
    /\ fired => main = "done" \/ Winners # {}
    /\ \A c \in Call : call[c] = "last" => closed

\* One call at a time: at zero no call is under way that has not been counted,
\* and none can be admitted.
OneAtATime ==
    inFlight = 1 /\ CountsCalls /\ N > 0 =>
        /\ \A c, d \in Busy : c = d
        /\ remaining = 0 =>
               /\ \A c \in Call : call[c] \notin Unfinished
               /\ Cardinality(Counted) <= N
               /\ \/ closed
                  \/ main # "serving"
                  \/ \E c \in Call : call[c] \in {"zeroed", "won"}

\* Who has come how far in wipe_and_exit.
ExitInv ==
    /\ exit["monitor"] # "idle" => linked
    /\ main \in {"starting", "failed", "dropped"} =>
           /\ exit["main"] = "idle" /\ exit["counter"] = "idle"
           /\ \A c \in Call : call[c] = "new"
    /\ main # "done" => exit["main"] = "idle"
    /\ ~exiting => \A t \in Thread : exit[t] \in {"idle", "called"}
    /\ exiting => \E t \in Thread : exit[t] \in Inside
    /\ \A t, u \in Thread : exit[t] \in Inside /\ exit[u] \in Inside => t = u
    /\ \A t \in Thread : exit[t] \in {"wiped", "told", "leaving"} => wiped
    /\ main = "dropped" /\ ~linked => wiped

\* What the sink tells of the end is what the thread inside has done.
EndInv ==
    /\ OneExit
    /\ \A i \in Ends : \E t \in Thread :
           /\ exit[t] \in {"told", "leaving"}
           /\ sink[i].reason = ReasonOf(t)
           /\ exit[t] = "told" => sink[i].event = "wipe"
    /\ \A t \in Thread :
           exit[t] = "leaving" => \E i, j \in Ends : i < j
    /\ \A t \in Thread : exit[t] = "told" => Ends # {}

-----------------------------------------------------------------------------
(* Types.                                                                  *)

LEMMA RecordTypes ==
    /\ \A t \in Tool, b \in BOOLEAN : ReadRecord(t, b) \in Record
    /\ \A e \in {"wipe", "kill", "session_end"}, t \in Thread :
           EndRecord(e, t) \in Record
  BY DEF ReadRecord, EndRecord, Record

LEMMA SinkTypes ==
    ASSUME TypeOK, NEW r \in Record, Emit(r)
    PROVE  sink' \in Seq(Record)
  BY DEF TypeOK, Emit

TypeInv == TypeOK /\ LoadInv

LEMMA InitTypes == Init => TypeInv
<1> SUFFICES ASSUME Init PROVE TypeInv
  OBVIOUS
<1>1. sink \in Seq(Record)
  <2>1. /\ [event |-> "session_start", armed |-> arm] \in Record
        /\ [event |-> "arm", via |-> "startup"] \in Record
    BY DEF Init, Record
  <2> QED
    BY <2>1 DEF Init
<1>2. /\ exit \in [Thread -> ExitPhase]
      /\ call \in [Call -> CallPhase]
      /\ tool \in [Call -> Tool]
      /\ seen \in [Call -> Nat]
      /\ \A c \in Call : call[c] # "loaded"
  BY DEF Init, ExitPhase, CallPhase
<1>3. remaining \in Nat
  BY MotokanoAssumption DEF Init
<1>4. /\ linked \in BOOLEAN /\ arm \in BOOLEAN
      /\ fired \in BOOLEAN /\ closed \in BOOLEAN
      /\ exiting \in BOOLEAN /\ wiped \in BOOLEAN
  BY Zenon DEF Init
<1> QED
  BY <1>1, <1>2, <1>3, <1>4 DEF Init, TypeInv, TypeOK, LoadInv

LEMMA NextTypes ==
    ASSUME TypeInv, [Next]_vars
    PROVE  TypeInv'
<1> USE DEF TypeInv, TypeOK, LoadInv, config, counterVars, exitVars, Goto, Step
<1>1. ASSUME NEW c \in Call, CallStep(c) PROVE TypeInv'
  <2> USE DEF CallPhase, Working
  <2>1. CASE Admit(c)
    BY <2>1 DEF Admit
  <2>2. CASE Refuse(c)
    <3>1. sink' \in Seq(Record)
      BY <2>2, RecordTypes, SinkTypes DEF Refuse
    <3> QED
      BY <2>2, <3>1 DEF Refuse
  <2>3. CASE Resolve(c)
    BY <2>3 DEF Resolve
  <2>4. CASE CommandEnds(c)
    BY <2>4 DEF CommandEnds
  <2>5. CASE CommandFails(c)
    <3>1. sink' \in Seq(Record)
      BY <2>5, RecordTypes, SinkTypes DEF CommandFails
    <3> QED
      BY <2>5, <3>1 DEF CommandFails
  <2>6. CASE RecordRead(c)
    <3>1. sink' \in Seq(Record)
      BY <2>6, RecordTypes, SinkTypes DEF RecordRead
    <3> QED
      BY <2>6, <3>1 DEF RecordRead
  <2>7. CASE Load(c)
    BY <2>7 DEF Load
  <2>8. CASE Exchange(c)
    BY <2>8 DEF Exchange
  <2>9. CASE FireByCalls(c)
    BY <2>9 DEF FireByCalls
  <2>10. CASE CloseAndSpawn(c)
    BY <2>10 DEF CloseAndSpawn, ExitPhase, Thread
  <2> QED
    BY <1>1, <2>1, <2>2, <2>3, <2>4, <2>5, <2>6, <2>7, <2>8, <2>9, <2>10
       DEF CallStep, HandlerStep
<1>2. CASE MainStep
  <2>1. CASE Serve
    BY <2>1 DEF Serve
  <2>2. CASE ServeFails
    BY <2>2 DEF ServeFails
  <2>3. CASE DropLocals
    <3>1. wiped' \in BOOLEAN
      BY Zenon, <2>3 DEF DropLocals
    <3> QED
      BY <2>3, <3>1 DEF DropLocals
  <2>4. CASE ReturnError
    BY <2>4 DEF ReturnError
  <2>5. CASE Disconnect
    BY <2>5 DEF Disconnect
  <2>6. CASE OnDisconnect
    <3>1. fired' \in BOOLEAN
      BY Zenon, <2>6 DEF OnDisconnect
    <3> QED
      BY <2>6, <3>1 DEF OnDisconnect, ExitPhase
  <2> QED
    BY <1>2, <2>1, <2>2, <2>3, <2>4, <2>5, <2>6 DEF MainStep
<1>3. CASE DaemonLost
  BY <1>3 DEF DaemonLost, ExitPhase, Thread
<1>4. CASE DaemonKills
  BY <1>4 DEF DaemonKills
<1>5. ASSUME NEW t \in Thread, ExitStep(t) PROVE TypeInv'
  <2> USE DEF ExitPhase
  <2>1. CASE Enter(t)
    BY <2>1 DEF Enter
  <2>2. CASE StopServing(t)
    BY <2>2 DEF StopServing
  <2>3. CASE Wipe(t)
    BY <2>3 DEF Wipe
  <2>4. CASE RecordWipe(t)
    <3>1. sink' \in Seq(Record)
      BY <2>4, RecordTypes, SinkTypes DEF RecordWipe
    <3> QED
      BY <2>4, <3>1 DEF RecordWipe
  <2>5. CASE RecordEnd(t)
    <3>1. sink' \in Seq(Record)
      BY <2>5, RecordTypes, SinkTypes DEF RecordEnd
    <3> QED
      BY <2>5, <3>1 DEF RecordEnd
  <2>6. CASE Leave(t)
    BY <2>6 DEF Leave
  <2>7. CASE Unregister(t)
    BY <2>7 DEF Unregister
  <2> QED
    BY <1>5, <2>1, <2>2, <2>3, <2>4, <2>5, <2>6, <2>7 DEF ExitStep, OwnExitStep
<1>6. CASE UNCHANGED vars
  BY <1>6 DEF vars
<1> QED
  BY <1>1, <1>2, <1>3, <1>4, <1>5, <1>6 DEF Next, Halted

(* Type correctness: every variable of motokano keeps its type; above all,  *)
(* the compare-exchange loop never takes the counter below zero.            *)
THEOREM TypeCorrect == Spec => []TypeOK
<1>1. TypeInv => TypeOK
  BY DEF TypeInv
<1> QED
  BY <1>1, InitTypes, NextTypes, PTL DEF Spec

LEMMA TypesAlways == Spec => []TypeInv
  BY InitTypes, NextTypes, PTL DEF Spec

-----------------------------------------------------------------------------
(* The counter.                                                            *)

\* No thread but a handler touches the counter; OnDisconnect may fire it.
LEMMA OtherSteps ==
    ASSUME TypeOK, [Next]_vars, ~\E c \in Call : CallStep(c)
    PROVE  UNCHANGED <<config, remaining, seen, call, tool>> /\ (fired => fired')
<1> USE DEF config, counterVars, exitVars
<1>1. CASE MainStep
  <2>1. CASE OnDisconnect
    <3>1. fired => fired'
      BY Zenon, <2>1 DEF OnDisconnect
    <3> QED
      BY <2>1, <3>1 DEF OnDisconnect
  <2> QED
    BY <1>1, <2>1 DEF MainStep, Serve, ServeFails, DropLocals, ReturnError,
       Disconnect
<1>2. CASE DaemonLost \/ DaemonKills
  BY <1>2 DEF DaemonLost, DaemonKills
<1>3. ASSUME NEW t \in Thread, ExitStep(t)
      PROVE  UNCHANGED <<config, remaining, seen, call, tool, fired>>
  BY <1>3 DEF ExitStep, OwnExitStep, Enter, StopServing, Unregister, Wipe,
     RecordWipe, RecordEnd, Leave
<1>4. CASE UNCHANGED vars
  BY <1>4 DEF vars
<1> QED
  BY <1>1, <1>2, <1>3, <1>4 DEF Next, Halted

LEMMA CountedFinite ==
    /\ IsFiniteSet(Counted) /\ Cardinality(Counted) \in Nat
    /\ IsFiniteSet(Served) /\ Cardinality(Served) \in Nat
<1>1. Counted \in SUBSET Call /\ Served \in SUBSET Call
  BY DEF Counted, Served
<1> QED
  BY <1>1, FS_Subset, FS_CardinalityType, MotokanoAssumption

LEMMA CountedMore ==
    ASSUME NEW c \in Call, c \notin Counted, Counted' = Counted \cup {c}
    PROVE  Cardinality(Counted') = Cardinality(Counted) + 1
  BY CountedFinite, FS_AddElement

LEMMA AtMostOne ==
    ASSUME NEW S, \A x, y \in S : x = y
    PROVE  Cardinality(S) <= 1
<1>1. CASE S = {}
  BY <1>1, FS_EmptySet
<1>2. ASSUME NEW x \in S PROVE Cardinality(S) <= 1
  <2>1. S = {x}
    OBVIOUS
  <2>2. Cardinality({x}) = 1
    BY FS_Singleton
  <2> QED
    BY <2>1, <2>2
<1> QED
  BY <1>1, <1>2

\* A step of a call that stays uncounted.
LEMMA QuietCall ==
    ASSUME TypeInv, CounterInv, NEW c \in Call, NEW phase \in CallPhase,
           call[c] \in {"new", "admitted", "running", "ready", "recorded",
                        "loaded"},
           phase \in {"admitted", "refused", "running", "ready", "failed",
                      "recorded", "loaded"},
           phase \in {"recorded", "loaded"} => CountsCalls,
           Goto(c, phase), UNCHANGED <<mode, remaining, fired>>
    PROVE  CounterInv'
<1> USE DEF TypeInv, TypeOK, Goto
<1>1. Counted' = Counted /\ Winners' = Winners /\ CountsCalls' = CountsCalls
  BY DEF Counted, Winners, CountsCalls
<1>2. \A d \in Call : call'[d] \in Zeroed <=> call[d] \in Zeroed
  BY DEF Zeroed
<1>3. CounterIsExact'
  BY <1>1 DEF CounterInv, CounterIsExact
<1> QED
  BY <1>1, <1>2, <1>3 DEF CounterInv, Zeroed

\* Only one exchange brings the counter from one to zero.
LEMMA ExchangeCounts ==
    ASSUME TypeInv, CounterInv, NEW c \in Call, Exchange(c)
    PROVE  CounterInv'
<1> USE DEF TypeInv, TypeOK, Goto
<1>1. CASE remaining # seen[c]
  <2>1. UNCHANGED <<mode, remaining, fired>> /\ Goto(c, "recorded")
    BY <1>1 DEF Exchange, config
  <2>2. call[c] = "loaded" /\ "recorded" \in CallPhase
    BY DEF Exchange, CallPhase, Working
  <2>3. CountsCalls
    BY <2>2 DEF CounterInv
  <2> QED
    BY <2>1, <2>2, <2>3, QuietCall
<1>2. CASE remaining = seen[c]
  <2> DEFINE next == IF seen[c] = 1 THEN "zeroed" ELSE "served"
  <2>1. /\ call[c] = "loaded" /\ seen[c] > 0
        /\ call' = [call EXCEPT ![c] = next]
        /\ remaining' = remaining - 1
        /\ UNCHANGED <<mode, fired>>
    BY <1>2 DEF Exchange, LoadInv, config
  <2>2. remaining \in Nat /\ remaining > 0 /\ N \in Nat
    BY <1>2, <2>1, MotokanoAssumption
  <2>3. CountsCalls /\ CountsCalls'
    BY <2>1 DEF CounterInv, CountsCalls
  <2>4. \A d \in Call : call[d] \notin Zeroed
    BY <2>2 DEF CounterInv
  <2>5. /\ c \notin Counted
        /\ Counted' = Counted \cup {c}
        /\ Winners' = {}
    BY <2>1, <2>4 DEF Counted, Winners, Zeroed
  <2>6. Cardinality(Counted') = Cardinality(Counted) + 1
    BY <2>5, CountedMore
  <2>7. remaining = N - Cardinality(Counted)
    BY <2>2, <2>3 DEF CounterInv, CounterIsExact
  <2>8. CounterIsExact'
    <3>1. remaining' = N - Cardinality(Counted') /\ Cardinality(Counted') \in Nat
      BY <2>1, <2>2, <2>6, <2>7, CountedFinite
    <3>2. remaining' = 0 => Cardinality(Counted') >= N
      BY <2>2, <3>1
    <3>3. Cardinality(Winners') <= 1 /\ Winners' = {}
      BY <2>5, FS_EmptySet
    <3> QED
      BY <3>1, <3>2, <3>3 DEF CounterIsExact
  <2>9. \A d \in Call : call'[d] \in Zeroed => d = c /\ remaining' = 0
    BY <1>2, <2>1, <2>2, <2>4 DEF Zeroed
  <2> QED
    BY <2>1, <2>3, <2>8, <2>9 DEF CounterInv
<1> QED
  BY <1>1, <1>2

LEMMA CallCounts ==
    ASSUME TypeInv, CounterInv, NEW c \in Call, CallStep(c)
    PROVE  CounterInv'
<1> USE DEF TypeInv, TypeOK, Goto
<1>1. CASE Admit(c)
  BY <1>1, QuietCall DEF Admit, config, counterVars, CallPhase, Working
<1>2. CASE Refuse(c)
  BY <1>2, QuietCall DEF Refuse, config, counterVars, CallPhase, Working
<1>3. CASE Resolve(c)
  BY <1>3, QuietCall DEF Resolve, config, counterVars, CallPhase, Working
<1>4. CASE CommandEnds(c)
  BY <1>4, QuietCall DEF CommandEnds, config, counterVars, CallPhase, Working
<1>5. CASE CommandFails(c)
  BY <1>5, QuietCall DEF CommandFails, config, counterVars, CallPhase, Working
<1>6. CASE RecordRead(c)
  <2>1. CASE CountsCalls
    BY <1>6, <2>1, QuietCall
       DEF RecordRead, config, counterVars, CallPhase, Working
  <2>2. CASE ~CountsCalls
    <3>1. /\ call[c] = "ready" /\ call' = [call EXCEPT ![c] = "served"]
          /\ UNCHANGED <<mode, remaining, fired>>
      BY <1>6, <2>2 DEF RecordRead, config, counterVars
    <3>2. ~CountsCalls' /\ Winners' = Winners
      BY <2>2, <3>1 DEF CountsCalls, Winners
    <3>3. \A d \in Call : call'[d] = call[d] \/ call'[d] = "served"
      BY <3>1
    <3> QED
      BY <2>2, <3>1, <3>2, <3>3 DEF CounterInv, CounterIsExact, Zeroed
  <2> QED
    BY <2>1, <2>2
<1>7. CASE Load(c)
  <2>1. /\ call[c] = "recorded" /\ CountsCalls
        /\ UNCHANGED <<mode, remaining, fired>>
    BY <1>7 DEF Load, config, CounterInv
  <2>2. CASE remaining # 0
    BY <1>7, <2>1, <2>2, QuietCall DEF Load, CallPhase, Working
  <2>3. CASE remaining = 0
    <3>1. call' = [call EXCEPT ![c] = "served"]
      BY <1>7, <2>3 DEF Load
    <3>2. /\ CountsCalls' /\ Winners' = Winners
          /\ c \notin Counted /\ Counted' = Counted \cup {c}
      BY <2>1, <3>1 DEF CountsCalls, Winners, Counted
    <3>3. Cardinality(Counted') = Cardinality(Counted) + 1
      BY <3>2, CountedMore
    <3>4. CounterIsExact'
      BY <2>1, <2>3, <3>2, <3>3, CountedFinite, MotokanoAssumption
         DEF CounterInv, CounterIsExact
    <3>5. \A d \in Call : call'[d] = call[d] \/ call'[d] = "served"
      BY <3>1
    <3> QED
      BY <2>1, <3>2, <3>4, <3>5 DEF CounterInv, Zeroed
  <2> QED
    BY <2>2, <2>3
<1>8. CASE Exchange(c)
  BY <1>8, ExchangeCounts
<1>9. CASE FireByCalls(c)
  <2>1. /\ call[c] = "zeroed" /\ remaining = 0 /\ fired'
        /\ call' = [call EXCEPT ![c] = IF fired THEN "served" ELSE "won"]
        /\ UNCHANGED <<mode, remaining>>
    BY <1>9 DEF FireByCalls, config, CounterInv, Zeroed
  <2>2. Counted' = Counted /\ CountsCalls' = CountsCalls
    BY <2>1 DEF Counted, CountsCalls
  <2>3. \A d, e \in Call : call'[d] \in Zeroed /\ call'[e] \in Zeroed => d = e
    BY <2>1 DEF CounterInv, Zeroed
  <2>4. Cardinality(Winners') <= 1
    BY <2>3, AtMostOne DEF Winners, Zeroed
  <2> QED
    BY <2>1, <2>2, <2>3, <2>4 DEF CounterInv, CounterIsExact, Zeroed
<1>10. CASE CloseAndSpawn(c)
  <2>1. /\ call[c] = "won" /\ call' = [call EXCEPT ![c] = "last"]
        /\ UNCHANGED <<mode, remaining, fired>>
    BY <1>10 DEF CloseAndSpawn, config, counterVars
  <2>2. Counted' = Counted /\ Winners' = Winners /\ CountsCalls' = CountsCalls
    BY <2>1 DEF Counted, Winners, CountsCalls
  <2> QED
    BY <2>1, <2>2 DEF CounterInv, CounterIsExact, Zeroed
<1> QED
  BY <1>1, <1>2, <1>3, <1>4, <1>5, <1>6, <1>7, <1>8, <1>9, <1>10
     DEF CallStep, HandlerStep

LEMMA CounterInvInductive ==
    ASSUME TypeInv, CounterInv, [Next]_vars
    PROVE  CounterInv'
<1>1. CASE \E c \in Call : CallStep(c)
  BY <1>1, CallCounts
<1>2. CASE ~\E c \in Call : CallStep(c)
  <2>1. UNCHANGED <<mode, remaining, call>> /\ (fired => fired')
    BY <1>2, OtherSteps DEF config, TypeInv
  <2>2. Counted' = Counted /\ Winners' = Winners /\ CountsCalls' = CountsCalls
    BY <2>1 DEF Counted, Winners, CountsCalls
  <2> QED
    BY <2>1, <2>2 DEF CounterInv, CounterIsExact
<1> QED
  BY <1>1, <1>2

LEMMA InitCounter == Init => CounterInv
<1> SUFFICES ASSUME Init PROVE CounterInv
  OBVIOUS
<1>1. Counted = {} /\ Winners = {} /\ \A c \in Call : call[c] = "new"
  BY DEF Init, Counted, Winners
<1> QED
  BY <1>1, FS_EmptySet, MotokanoAssumption
     DEF Init, CountsCalls, CounterInv, CounterIsExact, Zeroed

(* The compare-exchange loop of decrement loses no call however handlers    *)
(* race, and one call at most fires the counter, the one that emptied it.   *)
THEOREM CounterStaysExact == Spec => []CounterIsExact
<1>1. CounterInv => CounterIsExact
  BY DEF CounterInv
<1> QED
  BY <1>1, InitCounter, CounterInvInductive, TypesAlways, PTL DEF Spec

-----------------------------------------------------------------------------
(* The way through wipe_and_exit.                                          *)

\* A handler starts only while the server serves, and of the exits it starts
\* one at most, the counter's.
LEMMA CallKeepsExit ==
    ASSUME TypeOK, ExitInv, NEW c \in Call, CallStep(c)
    PROVE  ExitInv'
<1> USE DEF config, exitVars, Goto
<1>1. UNCHANGED <<linked, main, exiting, wiped>>
  BY DEF CallStep, HandlerStep, Admit, Refuse, Resolve, CommandEnds,
     CommandFails, RecordRead, Load, Exchange, FireByCalls, CloseAndSpawn
<1>2. main \notin {"starting", "failed", "dropped"}
  BY DEF ExitInv, CallStep, HandlerStep, Admit, Refuse, Resolve, CommandEnds,
     CommandFails, RecordRead, Load, Exchange, FireByCalls, CloseAndSpawn
<1>3. \/ UNCHANGED exit
      \/ exit["counter"] = "idle" /\ exit' = [exit EXCEPT !["counter"] = "called"]
  BY DEF CallStep, HandlerStep, Admit, Refuse, Resolve, CommandEnds,
     CommandFails, RecordRead, Load, Exchange, FireByCalls, CloseAndSpawn, Step
<1> QED
  BY <1>1, <1>2, <1>3 DEF TypeOK, ExitInv, Inside, Thread

LEMMA MainKeepsExit ==
    ASSUME TypeOK, ExitInv, MainStep
    PROVE  ExitInv'
<1> USE DEF config, exitVars
<1>1. CASE Serve
  BY <1>1 DEF Serve, ExitInv
<1>2. CASE ServeFails
  BY <1>2 DEF ServeFails, ExitInv
<1>3. CASE DropLocals
  <2>1. (wiped => wiped') /\ (~linked => wiped')
    BY Zenon, <1>3 DEF DropLocals
  <2> QED
    BY <1>3, <2>1 DEF DropLocals, ExitInv
<1>4. CASE ReturnError
  BY <1>4 DEF ReturnError, ExitInv
<1>5. CASE Disconnect
  BY <1>5 DEF Disconnect, ExitInv
<1>6. CASE OnDisconnect
  BY <1>6 DEF OnDisconnect, Step, TypeOK, ExitInv, Inside, Thread
<1> QED
  BY <1>1, <1>2, <1>3, <1>4, <1>5, <1>6 DEF MainStep

\* The swap of EXITING lets one thread in.
LEMMA ExitKeepsExit ==
    ASSUME TypeOK, ExitInv, NEW t \in Thread, ExitStep(t)
    PROVE  ExitInv'
<1> USE DEF config, exitVars, Step, TypeOK, Inside
<1>0. main \in {"starting", "failed", "dropped"} => t = "monitor"
  BY DEF ExitInv, Thread, ExitStep, OwnExitStep, Enter, StopServing, Unregister,
     Wipe, RecordWipe, RecordEnd, Leave
<1>1. CASE Enter(t)
  <2>1. CASE exiting
    BY <1>0, <1>1, <2>1 DEF Enter, ExitInv, Thread
  <2>2. CASE ~exiting
    BY <1>0, <1>1, <2>2 DEF Enter, ExitInv, Thread
  <2> QED
    BY <2>1, <2>2
<1>2. CASE StopServing(t)
  BY <1>0, <1>2 DEF StopServing, ExitInv, Thread
<1>3. CASE Wipe(t)
  BY <1>0, <1>3 DEF Wipe, ExitInv, Thread
<1>4. CASE RecordWipe(t)
  BY <1>0, <1>4 DEF RecordWipe, ExitInv, Thread
<1>5. CASE RecordEnd(t)
  BY <1>0, <1>5 DEF RecordEnd, ExitInv, Thread
<1>6. CASE Leave(t)
  BY <1>6 DEF Leave, ExitInv
<1>7. CASE Unregister(t)
  BY <1>0, <1>7 DEF Unregister, ExitInv, Thread
<1> QED
  BY <1>1, <1>2, <1>3, <1>4, <1>5, <1>6, <1>7 DEF ExitStep, OwnExitStep

LEMMA ExitInvInductive ==
    ASSUME TypeOK, ExitInv, [Next]_vars
    PROVE  ExitInv'
<1>1. CASE DaemonLost
  BY <1>1 DEF DaemonLost, Step, config, TypeOK, ExitInv, Inside, Thread
<1>2. CASE DaemonKills
  BY <1>2 DEF DaemonKills, config, exitVars, ExitInv
<1>3. CASE UNCHANGED vars
  BY <1>3 DEF vars, config, exitVars, ExitInv
<1> QED
  BY <1>1, <1>2, <1>3, CallKeepsExit, MainKeepsExit, ExitKeepsExit
     DEF Next, Halted

LEMMA InitExit == Init => ExitInv
  BY DEF Init, ExitInv, Inside, Thread

-----------------------------------------------------------------------------
(* The abstract switch.                                                     *)

\* Phase reads five variables, and of exit only who has entered.
LEMMA PhaseKept ==
    ASSUME UNCHANGED <<life, linked, main, exiting, arm>>,
           \A t \in Thread : exit'[t] = "entered" <=> exit[t] = "entered"
    PROVE  UNCHANGED Phase
  BY DEF Phase, Dropping

LEMMA SwitchKept ==
    ASSUME UNCHANGED <<arm, wiped>>, UNCHANGED Phase
    PROVE  UNCHANGED Switch!vars
  BY DEF Switch!vars

\* A step that wipes is Wipe, or nothing when the secret is already gone.
LEMMA WipeMaps ==
    ASSUME TypeOK, wiped' = TRUE, Phase \in {"avenged", "leaving"},
           UNCHANGED arm, UNCHANGED Phase
    PROVE  UNCHANGED Switch!vars \/ Switch!Wipe
<1>1. CASE wiped = TRUE
  BY Zenon, <1>1, SwitchKept
<1>2. CASE wiped = FALSE
  BY Zenon, <1>2 DEF Switch!Wipe
<1> QED
  BY Zenon, <1>1, <1>2 DEF TypeOK

LEMMA CallMaps ==
    ASSUME TypeOK, NEW c \in Call, CallStep(c)
    PROVE  UNCHANGED Switch!vars
<1>1. UNCHANGED <<life, linked, main, exiting, arm, wiped>>
  BY DEF CallStep, HandlerStep, Admit, Refuse, Resolve, CommandEnds,
     CommandFails, RecordRead, Load, Exchange, FireByCalls, CloseAndSpawn,
     config, exitVars
<1>2. \/ UNCHANGED exit
      \/ exit["counter"] = "idle" /\ exit' = [exit EXCEPT !["counter"] = "called"]
  BY DEF CallStep, HandlerStep, Admit, Refuse, Resolve, CommandEnds,
     CommandFails, RecordRead, Load, Exchange, FireByCalls, CloseAndSpawn, Step,
     exitVars
<1>3. \A t \in Thread : exit'[t] = "entered" <=> exit[t] = "entered"
  BY <1>2 DEF TypeOK, Thread
<1> QED
  BY <1>1, <1>3, PhaseKept, SwitchKept

\* A failed start lets go of the secret before main returns, unless the monitor
\* holds on to it: then the abstract switch never moves again.
LEMMA MainMaps ==
    ASSUME TypeOK, ExitInv, MainStep
    PROVE  UNCHANGED Switch!vars \/ Switch!StandDown \/ Switch!Wipe
           \/ Switch!Depart
<1> USE DEF config, exitVars
<1>1. CASE Serve \/ Disconnect
  <2>1. UNCHANGED Phase
    BY <1>1 DEF Serve, Disconnect, Phase, Dropping
  <2> QED
    BY <1>1, <2>1, SwitchKept DEF Serve, Disconnect
<1>2. CASE ServeFails
  <2>1. CASE linked
    <3>1. UNCHANGED Phase
      BY <1>2, <2>1 DEF ServeFails, Phase, Dropping
    <3> QED
      BY <1>2, <3>1, SwitchKept DEF ServeFails
  <2>2. CASE ~linked
    <3>1. ~exiting
      BY <1>2, <2>2 DEF ServeFails, ExitInv, Inside, Thread
    <3> QED
      BY <1>2, <2>2, <3>1
         DEF ServeFails, Phase, Dropping, Switch!StandDown, Alive
  <2> QED
    BY <2>1, <2>2
<1>3. CASE DropLocals
  <2>1. UNCHANGED Phase /\ UNCHANGED arm
    BY <1>3 DEF DropLocals, Phase, Dropping
  <2>2. CASE linked
    <3>1. UNCHANGED wiped
      BY Zenon, <1>3, <2>2 DEF DropLocals, TypeOK
    <3> QED
      BY <2>1, <3>1, SwitchKept
  <2>3. CASE ~linked
    <3>1. wiped' = TRUE
      BY Zenon, <1>3, <2>3 DEF DropLocals
    <3>2. Phase = "leaving"
      BY <1>3, <2>3 DEF DropLocals, Alive, Phase, Dropping
    <3> QED
      BY <2>1, <3>1, <3>2, WipeMaps
  <2> QED
    BY <2>2, <2>3
<1>4. CASE ReturnError
  <2>1. CASE linked
    <3>1. UNCHANGED Phase
      BY <1>4, <2>1 DEF ReturnError, Phase, Dropping, Alive
    <3> QED
      BY <1>4, <3>1, SwitchKept DEF ReturnError
  <2>2. CASE ~linked
    BY <1>4, <2>2
       DEF ReturnError, Phase, Dropping, Alive, ExitInv, Switch!Depart
  <2> QED
    BY <2>1, <2>2
<1>5. CASE OnDisconnect
  <2>1. \A t \in Thread : exit'[t] = "entered" <=> exit[t] = "entered"
    BY <1>5 DEF OnDisconnect, Step, TypeOK, Thread
  <2>2. UNCHANGED Phase
    BY <1>5, <2>1 DEF OnDisconnect, Phase, Dropping
  <2> QED
    BY <1>5, <2>2, SwitchKept DEF OnDisconnect
<1> QED
  BY <1>1, <1>2, <1>3, <1>4, <1>5 DEF MainStep

\* The thread that gets in condemns or stands down, and it goes on alone: as it
\* stops the server, nobody else has just entered.
LEMMA ExitMaps ==
    ASSUME TypeOK, ExitInv, NEW t \in Thread, ExitStep(t)
    PROVE  UNCHANGED Switch!vars \/ Switch!Condemn \/ Switch!StandDown
           \/ Switch!KillProtected \/ Switch!Wipe \/ Switch!Die
           \/ Switch!Depart
<1> USE DEF config, exitVars, Step, TypeOK
<1>1. ~Dropping /\ Alive /\ exit[t] # "idle"
  BY DEF ExitInv, Thread, Dropping, ExitStep, OwnExitStep, Enter, StopServing,
     Unregister, Wipe, RecordWipe, RecordEnd, Leave
<1>2. CASE Enter(t)
  <2>1. CASE exiting
    <3>1. \A u \in Thread : exit'[u] = "entered" <=> exit[u] = "entered"
      BY <1>2, <2>1 DEF Enter
    <3>2. UNCHANGED exiting
      BY Zenon, <1>2, <2>1 DEF Enter
    <3>3. UNCHANGED Phase
      BY <1>2, <3>1, <3>2, PhaseKept DEF Enter
    <3> QED
      BY <1>2, <3>3, SwitchKept DEF Enter
  <2>2. CASE ~exiting
    <3>1. Phase = "guarding"
      BY <1>1, <2>2 DEF Phase, Alive
    <3>2. exit'[t] = "entered" /\ exiting' = TRUE
      BY <1>2, <2>2 DEF Enter
    <3>3. Phase' = IF arm THEN "condemned" ELSE "leaving"
      BY <1>1, <1>2, <3>2 DEF Enter, Phase, Alive, Dropping
    <3> QED
      BY <1>2, <3>1, <3>3 DEF Enter, Switch!Condemn, Switch!StandDown
  <2> QED
    BY <2>1, <2>2
<1>3. CASE StopServing(t)
  <2>1. exit[t] = "entered" /\ exiting
    BY <1>3 DEF StopServing, ExitInv
  <2>2. \A u \in Thread : exit'[u] # "entered"
    BY <1>3, <2>1 DEF StopServing, ExitInv, Inside
  <2>3. CASE arm
    <3>1. Phase = "condemned" /\ Phase' = "avenged"
      BY <1>1, <1>3, <2>1, <2>2, <2>3
         DEF StopServing, Phase, Alive, Dropping
    <3> QED
      BY <1>3, <3>1 DEF StopServing, Switch!KillProtected
  <2>4. CASE ~arm
    <3>1. UNCHANGED Phase
      BY <1>1, <1>3, <2>1, <2>4 DEF StopServing, Phase, Alive, Dropping
    <3> QED
      BY <1>3, <3>1, SwitchKept DEF StopServing
  <2> QED
    BY <2>3, <2>4
<1>4. ASSUME exit[t] \in {"flushing", "wiped", "told", "leaving"}
      PROVE  /\ exiting /\ \A u \in Thread : exit[u] # "entered"
             /\ Phase = IF arm THEN "avenged" ELSE "leaving"
  <2>1. exiting /\ \A u \in Thread : exit[u] # "entered"
    BY <1>4 DEF ExitInv, Inside
  <2> QED
    BY <1>1, <2>1 DEF Phase, Alive
<1>5. CASE Wipe(t)
  <2>1. Phase \in {"avenged", "leaving"} /\ wiped' = TRUE /\ UNCHANGED arm
    BY <1>4, <1>5 DEF Wipe
  <2>2. UNCHANGED Phase
    BY <1>5, PhaseKept DEF Wipe
  <2> QED
    BY <2>1, <2>2, WipeMaps
<1>6. CASE Unregister(t) \/ RecordWipe(t) \/ RecordEnd(t)
  <2>1. \A u \in Thread : exit'[u] = "entered" <=> exit[u] = "entered"
    BY <1>6 DEF Unregister, RecordWipe, RecordEnd
  <2>2. UNCHANGED <<life, linked, main, exiting, arm, wiped>>
    BY <1>6 DEF Unregister, RecordWipe, RecordEnd
  <2> QED
    BY <2>1, <2>2, PhaseKept, SwitchKept
<1>7. CASE Leave(t)
  <2>1. wiped /\ Phase = IF arm THEN "avenged" ELSE "leaving"
    BY <1>4, <1>7 DEF Leave, ExitInv
  <2>2. Phase' = IF arm THEN "dead" ELSE "departed"
    BY <1>7 DEF Leave, Phase
  <2> QED
    BY <1>7, <2>1, <2>2 DEF Leave, Switch!Die, Switch!Depart
<1> QED
  BY <1>2, <1>3, <1>5, <1>6, <1>7 DEF ExitStep, OwnExitStep

LEMMA StepMaps ==
    ASSUME TypeOK, ExitInv, [Next]_vars
    PROVE  [Switch!Next]_(Switch!vars)
<1>1. ASSUME NEW c \in Call, CallStep(c) PROVE UNCHANGED Switch!vars
  BY <1>1, CallMaps
<1>2. CASE MainStep
  BY <1>2, MainMaps DEF Switch!Next, Switch!WayOut
<1>3. CASE DaemonLost
  <2>1. \A t \in Thread : exit'[t] = "entered" <=> exit[t] = "entered"
    BY <1>3 DEF DaemonLost, Step, TypeOK, Thread
  <2>2. UNCHANGED <<life, linked, main, exiting, arm, wiped>>
    BY <1>3 DEF DaemonLost, config
  <2> QED
    BY <2>1, <2>2, PhaseKept, SwitchKept
<1>4. CASE DaemonKills
  <2>1. UNCHANGED Phase
    BY <1>4 DEF DaemonKills, Phase, Dropping, Alive, config, exitVars
  <2> QED
    BY <1>4, <2>1, SwitchKept DEF DaemonKills, config, exitVars
<1>5. ASSUME NEW t \in Thread, ExitStep(t) PROVE [Switch!Next]_(Switch!vars)
  BY <1>5, ExitMaps DEF Switch!Next, Switch!WayOut
<1>6. CASE UNCHANGED vars
  <2>1. UNCHANGED <<life, linked, main, exiting, arm, wiped, exit>>
    BY <1>6 DEF vars, config, exitVars
  <2> QED
    BY <2>1, PhaseKept, SwitchKept
<1> QED
  BY <1>1, <1>2, <1>3, <1>4, <1>5, <1>6 DEF Next, Halted

(* Of the three threads that may want to end the process one does: it goes  *)
(* the way of the dead man's switch, wiping before it dies or leaves, and   *)
(* once it has set out nothing brings it back.                              *)
THEOREM ImplementsSwitch == Spec => KeepsSafePromise
<1>1. Init => ExitInv /\ Switch!Init
  <2> SUFFICES ASSUME Init PROVE Switch!Init
    BY InitExit
  <2>1. arm \in BOOLEAN /\ wiped = FALSE
    BY Zenon DEF Init
  <2>2. Phase = "guarding"
    BY DEF Init, Phase, Dropping
  <2> QED
    BY <2>1, <2>2 DEF Switch!Init
<1>2. TypeInv /\ ExitInv /\ [Next]_vars =>
          ExitInv' /\ [Switch!Next]_(Switch!vars)
  BY ExitInvInductive, StepMaps DEF TypeInv
<1> QED
  BY <1>1, <1>2, TypesAlways, PTL DEF Spec, KeepsSafePromise, Switch!Safety

-----------------------------------------------------------------------------
(* The end in the sink.                                                     *)

LEMMA SinkGrows ==
    ASSUME TypeOK, NEW r, Emit(r)
    PROVE  /\ \A i \in Ends : i \in Nat /\ i < Len(sink) + 1 /\ sink'[i] = sink[i]
           /\ sink'[Len(sink) + 1] = r
           /\ Len(sink) + 1 \in Nat
           /\ Ends' = IF r.event \in {"wipe", "kill", "session_end"}
                      THEN Ends \cup {Len(sink) + 1} ELSE Ends
<1>1. /\ Len(sink) \in Nat /\ Len(sink') = Len(sink) + 1
      /\ DOMAIN sink = 1 .. Len(sink) /\ DOMAIN sink' = 1 .. Len(sink')
      /\ \A i \in 1 .. Len(sink) : sink'[i] = sink[i]
      /\ sink'[Len(sink) + 1] = r
  BY DEF TypeOK, Emit
<1> QED
  BY <1>1 DEF Ends

Tellers(t) == exit[t] \in {"told", "leaving"}

\* A step of a thread that tells nothing of the end.
LEMMA EndKept ==
    ASSUME EndInv, UNCHANGED <<arm, Ends>>, wiped => wiped',
           \A i \in Ends : sink'[i] = sink[i],
           \A t \in Thread : Tellers(t) \/ Tellers(t)' => exit'[t] = exit[t],
           life' \in {"dead", "exited"} =>
               life' = life \/ \E i, j \in Ends : i < j
    PROVE  EndInv'
<1>1. OneExit'
  BY DEF EndInv, OneExit
<1>2. \A i \in Ends' : \E t \in Thread :
           /\ exit'[t] \in {"told", "leaving"}
           /\ sink'[i].reason = ReasonOf(t)
           /\ exit'[t] = "told" => sink'[i].event = "wipe"
  BY DEF EndInv, Tellers
<1> QED
  BY <1>1, <1>2 DEF EndInv, Tellers

LEMMA CallKeepsEnd ==
    ASSUME TypeOK, EndInv, NEW c \in Call, CallStep(c)
    PROVE  EndInv'
<1>1. UNCHANGED <<arm, wiped, life>>
  BY DEF CallStep, HandlerStep, Admit, Refuse, Resolve, CommandEnds,
     CommandFails, RecordRead, Load, Exchange, FireByCalls, CloseAndSpawn,
     config, exitVars
<1>2. \/ UNCHANGED exit
      \/ exit["counter"] = "idle" /\ exit' = [exit EXCEPT !["counter"] = "called"]
  BY DEF CallStep, HandlerStep, Admit, Refuse, Resolve, CommandEnds,
     CommandFails, RecordRead, Load, Exchange, FireByCalls, CloseAndSpawn, Step,
     exitVars
<1>3. \A t \in Thread : Tellers(t) \/ Tellers(t)' => exit'[t] = exit[t]
  BY <1>2 DEF TypeOK, Tellers, Thread
<1>4. UNCHANGED Ends /\ \A i \in Ends : sink'[i] = sink[i]
  <2>1. UNCHANGED sink \/ \E b \in BOOLEAN : Emit(ReadRecord(tool[c], b))
    BY DEF CallStep, HandlerStep, Admit, Refuse, Resolve, CommandEnds,
       CommandFails, RecordRead, Load, Exchange, FireByCalls, CloseAndSpawn
  <2>2. CASE UNCHANGED sink
    BY <2>2 DEF Ends
  <2>3. ASSUME NEW b \in BOOLEAN, Emit(ReadRecord(tool[c], b))
        PROVE  UNCHANGED Ends /\ \A i \in Ends : sink'[i] = sink[i]
    <3>1. ReadRecord(tool[c], b).event = "read"
      BY DEF ReadRecord
    <3> QED
      BY <2>3, <3>1, SinkGrows
  <2> QED
    BY <2>1, <2>2, <2>3
<1> QED
  BY <1>1, <1>3, <1>4, EndKept

\* The thread that is inside tells of the wipe, then of the end.
LEMMA ExitKeepsEnd ==
    ASSUME TypeOK, ExitInv, EndInv, NEW t \in Thread, ExitStep(t)
    PROVE  EndInv'
<1> USE DEF config, exitVars, Step
<1> DEFINE n == Len(sink) + 1
<1>1. CASE Enter(t) \/ StopServing(t) \/ Unregister(t) \/ Wipe(t)
  <2>1. /\ UNCHANGED <<arm, life, sink>> /\ (wiped => wiped')
        /\ \A u \in Thread : Tellers(u) \/ Tellers(u)' => exit'[u] = exit[u]
    BY <1>1 DEF Enter, StopServing, Unregister, Wipe, TypeOK, Tellers
  <2> QED
    BY <2>1, EndKept DEF Ends
<1>2. CASE RecordWipe(t)
  <2> DEFINE r == EndRecord("wipe", t)
  <2>1. /\ exit[t] = "wiped" /\ exit' = [exit EXCEPT ![t] = "told"]
        /\ Emit(r) /\ UNCHANGED <<arm, wiped, life>> /\ Alive
    BY <1>2 DEF RecordWipe
  <2>2. wiped /\ \A u \in Thread : exit[u] \notin {"told", "leaving"}
    BY <2>1 DEF ExitInv, Inside
  <2>3. Ends = {}
    BY <2>2 DEF EndInv
  <2>4. r.event = "wipe" /\ r.reason = ReasonOf(t)
    BY DEF EndRecord
  <2> HIDE DEF r
  <2>5. Ends' = {n} /\ sink'[n] = r /\ n \in Nat
    BY <2>1, <2>3, <2>4, SinkGrows
  <2>6. exit'[t] = "told" /\ \A u \in Thread : u # t => exit'[u] = exit[u]
    BY <2>1 DEF TypeOK
  <2> HIDE DEF n
  <2>7. OneExit'
    BY <2>1, <2>2, <2>4, <2>5 DEF OneExit, Alive
  <2> QED
    BY <2>2, <2>4, <2>5, <2>6, <2>7 DEF EndInv
<1>3. CASE RecordEnd(t)
  <2> DEFINE event == IF arm THEN "kill" ELSE "session_end"
             r == EndRecord(event, t)
  <2>1. /\ exit[t] = "told" /\ exit' = [exit EXCEPT ![t] = "leaving"]
        /\ Emit(r) /\ UNCHANGED <<arm, wiped, life>> /\ Alive
    BY <1>3 DEF RecordEnd
  <2>2. \A u \in Thread : exit[u] \in {"told", "leaving"} => u = t
    BY <2>1 DEF ExitInv, Inside
  <2>3. /\ Ends # {} /\ wiped
        /\ \A i \in Ends : sink[i].reason = ReasonOf(t) /\ sink[i].event = "wipe"
    BY <2>1, <2>2 DEF EndInv, OneExit
  <2>4. /\ r.event = event /\ r.reason = ReasonOf(t)
        /\ event \in {"kill", "session_end"}
    BY DEF EndRecord
  <2>5. \A i, j \in Ends : ~(i < j)
    BY <2>3, <2>4 DEF EndInv, OneExit
  <2> HIDE DEF r
  <2>6. /\ Ends' = Ends \cup {n} /\ sink'[n] = r /\ n \in Nat
        /\ \A i \in Ends : i \in Nat /\ i < n /\ sink'[i] = sink[i]
    BY <2>1, <2>4, SinkGrows
  <2> HIDE DEF n
  <2>7. exit'[t] = "leaving" /\ \A u \in Thread : u # t => exit'[u] = exit[u]
    BY <2>1 DEF TypeOK
  <2>8. \A i \in Ends' : i = n \/ (i \in Ends /\ i < n /\ sink'[i] = sink[i])
    BY <2>6
  <2>9. \A i, j \in Ends' : i < j => i \in Ends /\ j = n
    BY <2>5, <2>6, <2>8
  <2>10. OneExit'
    <3>1. \A i \in Ends' : sink'[i].reason = ReasonOf(t)
      BY <2>3, <2>4, <2>6, <2>8
    <3>2. \E i \in Ends' : sink'[i].event = "wipe"
      BY <2>3, <2>6
    <3>3. wiped' /\ (arm' <=> arm) /\ life' \notin {"dead", "exited"}
      BY Zenon, <2>1, <2>3 DEF Alive
    <3>4. sink'[n].event = IF arm' THEN "kill" ELSE "session_end"
      BY <2>4, <2>6, <3>3
    <3>5. ASSUME NEW i \in Ends', NEW j \in Ends', i < j
          PROVE  /\ sink'[i].event = "wipe"
                 /\ sink'[j].event = IF arm' THEN "kill" ELSE "session_end"
      <4>1. i \in Ends /\ j = n
        BY <2>9, <3>5
      <4>2. sink'[i].event = "wipe"
        BY <2>3, <2>6, <4>1
      <4> QED
        BY <3>4, <4>1, <4>2
    <3> QED
      BY <3>1, <3>2, <3>3, <3>5 DEF OneExit
  <2>11. \E i, j \in Ends' : i < j
    BY <2>3, <2>6
  <2>12. \A i \in Ends' : \E u \in Thread :
             /\ exit'[u] \in {"told", "leaving"}
             /\ sink'[i].reason = ReasonOf(u)
             /\ exit'[u] = "told" => sink'[i].event = "wipe"
    BY <2>3, <2>4, <2>6, <2>7, <2>8
  <2> QED
    BY <2>2, <2>7, <2>10, <2>11, <2>12 DEF EndInv
<1>4. CASE Leave(t)
  <2>1. \E i, j \in Ends : i < j
    BY <1>4 DEF Leave, EndInv
  <2>2. UNCHANGED <<arm, wiped, exit, sink>>
    BY <1>4 DEF Leave
  <2> QED
    BY <2>1, <2>2, EndKept DEF Ends
<1> QED
  BY <1>1, <1>2, <1>3, <1>4 DEF ExitStep, OwnExitStep

LEMMA EndInvInductive ==
    ASSUME TypeOK, ExitInv, EndInv, [Next]_vars
    PROVE  EndInv'
<1> USE DEF config, exitVars
<1>1. ASSUME NEW c \in Call, CallStep(c) PROVE EndInv'
  BY <1>1, CallKeepsEnd
<1>2. CASE MainStep
  <2>1. wiped => wiped'
    <3>1. CASE DropLocals
      BY Zenon, <3>1 DEF DropLocals
    <3> QED
      BY <1>2, <3>1 DEF MainStep, Serve, ServeFails, ReturnError, Disconnect,
         OnDisconnect
  <2>2. /\ UNCHANGED <<arm, sink>> /\ life' \notin {"dead", "exited"}
        /\ \A t \in Thread : Tellers(t) \/ Tellers(t)' => exit'[t] = exit[t]
    BY <1>2 DEF MainStep, Serve, ServeFails, DropLocals, ReturnError,
       Disconnect, OnDisconnect, Step, Alive, TypeOK, Tellers, Thread
  <2> QED
    BY <2>1, <2>2, EndKept DEF Ends
<1>3. CASE DaemonLost
  <2>1. /\ UNCHANGED <<arm, sink, wiped, life>>
        /\ \A t \in Thread : Tellers(t) \/ Tellers(t)' => exit'[t] = exit[t]
    BY <1>3 DEF DaemonLost, Step, TypeOK, Tellers, Thread
  <2> QED
    BY <2>1, EndKept DEF Ends
<1>4. CASE DaemonKills
  BY <1>4, EndKept DEF DaemonKills, Ends
<1>5. ASSUME NEW t \in Thread, ExitStep(t) PROVE EndInv'
  BY <1>5, ExitKeepsEnd
<1>6. CASE UNCHANGED vars
  BY <1>6, EndKept DEF vars, Ends
<1> QED
  BY <1>1, <1>2, <1>3, <1>4, <1>5, <1>6 DEF Next, Halted

LEMMA InitEnd == Init => EndInv
<1> SUFFICES ASSUME Init PROVE EndInv
  OBVIOUS
<1>1. \A i \in DOMAIN sink : sink[i].event \in {"session_start", "arm"}
  BY DEF Init
<1>2. Ends = {} /\ life = "running" /\ \A t \in Thread : exit[t] = "idle"
  BY <1>1 DEF Init, Ends
<1> QED
  BY <1>2 DEF EndInv, OneExit

(* However many of the three threads reach wipe_and_exit, the sink tells of *)
(* one wipe and one end after it, for one reason, and a process that has    *)
(* ended itself has wiped and told both.                                    *)
THEOREM OneExitAlways == Spec => []OneExit
<1>1. EndInv => OneExit
  BY DEF EndInv
<1>2. TypeInv => TypeOK
  BY DEF TypeInv
<1> QED
  BY <1>1, <1>2, InitExit, InitEnd, ExitInvInductive, EndInvInductive,
     TypesAlways, PTL DEF Spec

-----------------------------------------------------------------------------
(* No more reads than calls to serve.                                       *)

LEMMA FiredInvInductive ==
    ASSUME TypeInv, FiredInv, [Next]_vars
    PROVE  FiredInv'
<1> USE DEF TypeInv, TypeOK, config, counterVars, exitVars
<1>1. ASSUME NEW c \in Call, CallStep(c) PROVE FiredInv'
  <2>1. CASE FireByCalls(c)
    <3>1. /\ call[c] = "zeroed" /\ UNCHANGED <<main, closed>>
          /\ call' = [call EXCEPT ![c] = IF fired THEN "served" ELSE "won"]
      BY <2>1 DEF FireByCalls, Goto
    <3>2. CASE fired
      BY <3>1, <3>2 DEF FiredInv, Winners
    <3>3. CASE ~fired
      BY <3>1, <3>3 DEF FiredInv, Winners
    <3> QED
      BY <3>2, <3>3
  <2>2. CASE CloseAndSpawn(c)
    BY <2>2 DEF CloseAndSpawn, Goto, FiredInv, Winners
  <2>3. CASE ~(FireByCalls(c) \/ CloseAndSpawn(c))
    <3>1. /\ UNCHANGED <<fired, main, closed>>
          /\ call[c] \notin {"won", "last"}
          /\ \E phase \in CallPhase \ {"won", "last"} : Goto(c, phase)
      BY <1>1, <2>3 DEF CallStep, HandlerStep, Admit, Refuse, Resolve,
         CommandEnds, CommandFails, RecordRead, Load, Exchange, CallPhase,
         Working
    <3>2. Winners' = Winners /\ \A d \in Call : call'[d] = "last" => call[d] = "last"
      BY <3>1 DEF Goto, Winners
    <3> QED
      BY <3>1, <3>2 DEF FiredInv
  <2> QED
    BY <2>1, <2>2, <2>3
<1>2. CASE MainStep
  <2>1. UNCHANGED <<call, closed>> /\ (main = "done" => main' = "done")
    BY <1>2 DEF MainStep, Serve, ServeFails, DropLocals, ReturnError, Disconnect,
       OnDisconnect
  <2>2. UNCHANGED fired \/ main' = "done"
    BY <1>2 DEF MainStep, Serve, ServeFails, DropLocals, ReturnError, Disconnect,
       OnDisconnect
  <2> QED
    BY <2>1, <2>2 DEF FiredInv, Winners
<1>3. CASE DaemonLost \/ DaemonKills \/ UNCHANGED vars
  <2>1. UNCHANGED <<fired, main, call, closed>>
    BY <1>3 DEF DaemonLost, DaemonKills, vars
  <2> QED
    BY <2>1 DEF FiredInv, Winners
<1>4. ASSUME NEW t \in Thread, ExitStep(t) PROVE FiredInv'
  <2>1. UNCHANGED <<fired, main, call>> /\ (closed => closed')
    BY <1>4 DEF ExitStep, OwnExitStep, Enter, StopServing, Unregister, Wipe,
       RecordWipe, RecordEnd, Leave
  <2> QED
    BY <2>1 DEF FiredInv, Winners
<1> QED
  BY <1>1, <1>2, <1>3, <1>4 DEF Next, Halted

\* Nothing but a handler's step reopens the server or starts the exit that the
\* counter asks for.
LEMMA OthersKeepShut ==
    ASSUME TypeOK, [Next]_vars, ~\E c \in Call : CallStep(c)
    PROVE  /\ closed => closed'
           /\ exit["counter"] = "idle" => exit'["counter"] = "idle"
<1> USE DEF exitVars, Step
<1>1. CASE MainStep
  <2>1. UNCHANGED closed /\ exit'["counter"] = exit["counter"]
    BY <1>1 DEF MainStep, Serve, ServeFails, DropLocals, ReturnError,
       Disconnect, OnDisconnect, TypeOK, Thread
  <2> QED
    BY <2>1
<1>2. CASE DaemonLost \/ DaemonKills
  <2>1. UNCHANGED closed /\ exit'["counter"] = exit["counter"]
    BY <1>2 DEF DaemonLost, DaemonKills, TypeOK, Thread
  <2> QED
    BY <2>1
<1>3. ASSUME NEW t \in Thread, ExitStep(t)
      PROVE  /\ closed => closed'
             /\ exit["counter"] = "idle" => exit'["counter"] = "idle"
  <2>1. closed => closed'
    BY <1>3 DEF ExitStep, OwnExitStep, Enter, StopServing, Unregister, Wipe,
       RecordWipe, RecordEnd, Leave
  <2>2. /\ exit[t] # "idle"
        /\ UNCHANGED exit \/ \E p \in ExitPhase : exit' = [exit EXCEPT ![t] = p]
    BY <1>3 DEF ExitStep, OwnExitStep, Enter, StopServing, Unregister, Wipe,
       RecordWipe, RecordEnd, Leave, ExitPhase
  <2>3. exit["counter"] = "idle" => exit'["counter"] = "idle"
    BY <2>2 DEF TypeOK, Thread
  <2> QED
    BY <2>1, <2>3
<1>4. CASE UNCHANGED vars
  BY <1>4 DEF vars
<1> QED
  BY <1>1, <1>2, <1>3, <1>4 DEF Next, Halted

\* A server that counts and runs one handler at a time.
Sequential == inFlight = 1 /\ CountsCalls /\ N > 0

\* No call can be admitted, nor will be.
Shut ==
    \/ closed
    \/ main # "serving"
    \/ \E c \in Call : call[c] \in {"zeroed", "won"}

\* What ends a handler's turn or leaves it to itself.
LEMMA StaysOneAtATime ==
    ASSUME TypeInv, inFlight = 1, \A a, b \in Busy : a = b, NEW c \in Call,
           CallStep(c)
    PROVE  \A a, b \in Busy' : a = b
<1> USE DEF TypeInv, TypeOK
<1>1. \A a, b \in Busy : a = b
  OBVIOUS
<1>2. CASE Admit(c)
  <2>1. Cardinality(Busy) < 1
    BY <1>2 DEF Admit
  <2>2. IsFiniteSet(Busy) /\ Cardinality(Busy) \in Nat
    <3>1. Busy \in SUBSET Call
      BY DEF Busy
    <3> QED
      BY <3>1, FS_Subset, FS_CardinalityType, MotokanoAssumption
  <2>3. Busy = {}
    BY <2>1, <2>2, FS_EmptySet
  <2>4. Busy' = {c}
    BY <1>2, <2>3 DEF Admit, Goto, Busy, Working
  <2> QED
    BY <2>4
<1>3. CASE ~Admit(c)
  <2>1. Busy' \subseteq Busy
    BY <1>3 DEF CallStep, HandlerStep, Refuse, Resolve, CommandEnds,
       CommandFails, RecordRead, Load, Exchange, FireByCalls, CloseAndSpawn,
       Goto, Busy, Working
  <2> QED
    BY <1>1, <2>1
<1> QED
  BY <1>2, <1>3

\* The call that brings the counter to zero is the only one under way.
LEMMA ReachesZero ==
    ASSUME TypeInv, CounterInv, OneAtATime, Sequential, NEW c \in Call,
           CallStep(c), remaining # 0, remaining' = 0
    PROVE  /\ \A d \in Call : call'[d] \notin Unfinished
           /\ Cardinality(Counted') <= N
           /\ Shut'
<1> USE DEF TypeInv, TypeOK
<1>1. Exchange(c) /\ remaining = seen[c] /\ remaining' = seen[c] - 1
  BY DEF CallStep, HandlerStep, Admit, Refuse, Resolve, CommandEnds,
     CommandFails, RecordRead, Load, Exchange, FireByCalls, CloseAndSpawn,
     counterVars
<1>2. /\ call[c] = "loaded" /\ seen[c] = 1
      /\ call' = [call EXCEPT ![c] = "zeroed"]
  <2>1. call[c] = "loaded" /\ seen[c] = 1
    BY <1>1 DEF Exchange
  <2> QED
    BY <1>1, <2>1 DEF Exchange, Goto
<1>3. \A d \in Call : d # c => call[d] \notin Working
  BY <1>2 DEF OneAtATime, Sequential, Busy, Working
<1>4. \A d \in Call : call'[d] \notin Unfinished
  BY <1>2, <1>3 DEF Unfinished, Working
<1>5. remaining = N - Cardinality(Counted) /\ N \in Nat
  BY MotokanoAssumption DEF CounterInv, CounterIsExact, Sequential
<1>6. c \notin Counted /\ Counted' = Counted \cup {c}
  BY <1>2 DEF Counted
<1>7. Cardinality(Counted') = Cardinality(Counted) + 1
  BY <1>6, CountedMore
<1>8. Cardinality(Counted') <= N
  BY <1>1, <1>2, <1>5, <1>7, CountedFinite
<1>9. Shut'
  BY <1>2 DEF Shut
<1> QED
  BY <1>4, <1>8, <1>9

\* At zero handlers only finish.
LEMMA StaysAtZero ==
    ASSUME TypeInv, CounterInv, FiredInv, OneAtATime, Sequential, NEW c \in Call,
           CallStep(c), remaining = 0
    PROVE  /\ \A d \in Call : call'[d] \notin Unfinished
           /\ Cardinality(Counted') <= N
           /\ Shut'
<1> USE DEF TypeInv, TypeOK, Goto
<1>1. /\ \A d \in Call : call[d] \notin Unfinished
      /\ Cardinality(Counted) <= N
      /\ Shut
  BY DEF OneAtATime, Sequential, Shut
<1>2. ~Admit(c)
  <2> SUFFICES ASSUME Admit(c) PROVE FALSE
    OBVIOUS
  <2>1. PICK d \in Call : call[d] \in {"zeroed", "won"}
    BY <1>1 DEF Admit, Shut
  <2>2. d \in Busy /\ IsFiniteSet(Busy)
    <3>1. Busy \in SUBSET Call
      BY DEF Busy
    <3> QED
      BY <2>1, <3>1, FS_Subset, MotokanoAssumption DEF Busy, Working
  <2>3. Cardinality(Busy) \in Nat /\ Cardinality(Busy) # 0
    BY <2>2, FS_EmptySet, FS_CardinalityType
  <2>4. Cardinality(Busy) < 1
    BY DEF Admit, Sequential
  <2> QED
    BY <2>3, <2>4
<1>3. CASE Refuse(c)
  <2>1. call[c] = "new" /\ call' = [call EXCEPT ![c] = "refused"]
    BY <1>3 DEF Refuse
  <2>2. Counted' = Counted /\ UNCHANGED <<closed, main>>
    BY <1>3, <2>1 DEF Refuse, Counted
  <2>3. \A d \in Call : call'[d] \notin Unfinished
    BY <1>1, <2>1 DEF Unfinished
  <2>4. Shut'
    BY <1>1, <2>1, <2>2 DEF Shut
  <2> QED
    BY <1>1, <2>2, <2>3, <2>4
<1>4. CASE FireByCalls(c)
  <2>1. /\ call[c] = "zeroed" /\ UNCHANGED <<closed, main>>
        /\ call' = [call EXCEPT ![c] = IF fired THEN "served" ELSE "won"]
    BY <1>4 DEF FireByCalls
  <2>2. Counted' = Counted
    BY <2>1 DEF Counted
  <2>3. \A d \in Call : call'[d] \notin Unfinished
    BY <1>1, <2>1 DEF Unfinished
  <2>4. Shut'
    <3>1. CASE fired
      <4>1. Winners = {}
        BY <2>1 DEF CounterInv, Winners, Zeroed
      <4> QED
        BY <2>1, <3>1, <4>1 DEF FiredInv, Shut
    <3>2. CASE ~fired
      BY <2>1, <3>2 DEF Shut
    <3> QED
      BY <3>1, <3>2
  <2> QED
    BY <1>1, <2>2, <2>3, <2>4
<1>5. CASE CloseAndSpawn(c)
  <2>1. /\ call[c] = "won" /\ call' = [call EXCEPT ![c] = "last"] /\ closed'
    BY <1>5 DEF CloseAndSpawn
  <2>2. Counted' = Counted
    BY <2>1 DEF Counted
  <2>3. \A d \in Call : call'[d] \notin Unfinished
    BY <1>1, <2>1 DEF Unfinished
  <2> QED
    BY <1>1, <2>1, <2>2, <2>3 DEF Shut
<1> QED
  BY <1>1, <1>2, <1>3, <1>4, <1>5
     DEF CallStep, HandlerStep, Resolve, CommandEnds, CommandFails, RecordRead,
         Load, Exchange, Unfinished

LEMMA OneAtATimeInductive ==
    ASSUME TypeInv, CounterInv, FiredInv, ExitInv, OneAtATime, [Next]_vars
    PROVE  OneAtATime'
<1>1. ASSUME NEW c \in Call, CallStep(c) PROVE OneAtATime'
  <2>1. UNCHANGED <<mode, inFlight>>
    BY <1>1 DEF CallStep, HandlerStep, Admit, Refuse, Resolve, CommandEnds,
       CommandFails, RecordRead, Load, Exchange, FireByCalls, CloseAndSpawn,
       config
  <2> SUFFICES ASSUME Sequential PROVE OneAtATime'
    BY <2>1 DEF OneAtATime, Sequential, CountsCalls
  <2>2. \A a, b \in Busy' : a = b
    <3>1. inFlight = 1 /\ \A a, b \in Busy : a = b
      BY DEF OneAtATime, Sequential
    <3> QED
      BY <1>1, <3>1, StaysOneAtATime
  <2>3. ASSUME remaining' = 0
        PROVE  /\ \A d \in Call : call'[d] \notin Unfinished
               /\ Cardinality(Counted') <= N
               /\ Shut'
    BY <1>1, <2>3, ReachesZero, StaysAtZero
  <2> QED
    BY <2>2, <2>3 DEF OneAtATime, Shut
<1>2. CASE ~\E c \in Call : CallStep(c)
  <2>1. UNCHANGED <<mode, inFlight, remaining, call>>
    BY <1>2, OtherSteps DEF config, TypeInv
  <2>2. Busy' = Busy /\ Counted' = Counted /\ CountsCalls' = CountsCalls
    BY <2>1 DEF Busy, Counted, CountsCalls
  <2>3. closed => closed'
    BY <1>2, OthersKeepShut DEF TypeInv
  <2>4. main' = "serving" => main = "serving" \/ main = "starting"
    BY <1>2 DEF Next, MainStep, Serve, ServeFails, DropLocals, ReturnError,
       Disconnect, OnDisconnect, DaemonLost, DaemonKills, ExitStep, OwnExitStep,
       Enter, StopServing, Unregister, Wipe, RecordWipe, RecordEnd, Leave,
       Halted, vars
  <2>5. ~(main = "starting" /\ CountsCalls /\ N > 0 /\ remaining = 0)
    <3> SUFFICES ASSUME main = "starting", CountsCalls, N > 0, remaining = 0
                 PROVE  FALSE
      OBVIOUS
    <3>1. Counted = {}
      BY DEF ExitInv, Counted
    <3> QED
      BY <3>1, FS_EmptySet, MotokanoAssumption DEF CounterInv, CounterIsExact
  <2> QED
    BY <2>1, <2>2, <2>3, <2>4, <2>5 DEF OneAtATime
<1> QED
  BY <1>1, <1>2

LEMMA InitServes == Init => FiredInv /\ OneAtATime
<1> SUFFICES ASSUME Init PROVE FiredInv /\ OneAtATime
  OBVIOUS
<1>1. \A c \in Call : call[c] = "new"
  BY DEF Init
<1>2. FiredInv
  BY <1>1 DEF Init, FiredInv
<1>3. Sequential => remaining # 0
  BY MotokanoAssumption DEF Init, Sequential, CountsCalls
<1>4. Busy = {}
  BY <1>1 DEF Busy, Working
<1> QED
  BY <1>2, <1>3, <1>4 DEF OneAtATime, Sequential

\* At zero all that was given out is counted; before, all but one call.
LEMMA ServesByCount ==
    ASSUME TypeInv, CounterInv, OneAtATime
    PROVE  ServesAtMost
<1> SUFFICES ASSUME Sequential PROVE Cardinality(Served) <= N
  BY DEF ServesAtMost, Sequential
<1>1. Counted \subseteq Served /\ Served \subseteq Counted \cup Busy
  BY DEF Counted, Served, Busy, Working
<1>2. CASE remaining = 0
  <2>1. Served = Counted
    BY <1>2 DEF OneAtATime, Sequential, Served, Counted, Unfinished
  <2> QED
    BY <1>2, <2>1 DEF OneAtATime, Sequential
<1>3. CASE remaining # 0
  <2>1. remaining \in Nat /\ remaining > 0 /\ N \in Nat
    BY <1>3, MotokanoAssumption DEF TypeInv, TypeOK
  <2>2. Cardinality(Counted) + 1 <= N
    BY <2>1, CountedFinite DEF CounterInv, CounterIsExact, Sequential
  <2>3. CASE Served = Counted
    BY <2>2, <2>3, <2>1, CountedFinite
  <2>4. ASSUME NEW b \in Served, b \notin Counted
        PROVE  Cardinality(Served) <= N
    <3>1. \A d \in Busy : d = b
      BY <1>1, <2>4 DEF OneAtATime, Sequential
    <3>2. Served = Counted \cup {b}
      BY <1>1, <2>4, <3>1
    <3>3. Cardinality(Served) = Cardinality(Counted) + 1
      BY <2>4, <3>2, CountedFinite, FS_AddElement
    <3> QED
      BY <2>2, <3>3
  <2> QED
    BY <1>1, <2>3, <2>4
<1> QED
  BY <1>2, <1>3

(* The one-shot guarantee: a server that runs its handlers one at a time    *)
(* never gives out more reads than it was started for.                      *)
THEOREM OneShot == Spec => []ServesAtMost
<1>1. TypeInv => TypeOK
  BY DEF TypeInv
<1>2. TypeInv /\ CounterInv /\ OneAtATime => ServesAtMost
  BY ServesByCount
<1> QED
  BY <1>1, <1>2, InitCounter, InitExit, InitServes, CounterInvInductive,
     ExitInvInductive, FiredInvInductive, OneAtATimeInductive, TypesAlways,
     PTL DEF Spec

-----------------------------------------------------------------------------
(* The counted reads and the wipe.                                          *)

\* One call at a time: once the counter asks for the end, no call is under way
\* and none is let in.
ScheduledInv ==
    inFlight = 1 =>
        /\ \A a, b \in Busy : a = b
        /\ exit["counter"] # "idle" => closed /\ Busy = {}

LEMMA ScheduledInvInductive ==
    ASSUME TypeInv, ScheduledInv, [Next]_vars
    PROVE  ScheduledInv'
<1>1. ASSUME NEW c \in Call, CallStep(c) PROVE ScheduledInv'
  <2>1. UNCHANGED inFlight
    BY <1>1 DEF CallStep, HandlerStep, Admit, Refuse, Resolve, CommandEnds,
       CommandFails, RecordRead, Load, Exchange, FireByCalls, CloseAndSpawn,
       config
  <2> SUFFICES ASSUME inFlight = 1 PROVE ScheduledInv'
    BY <2>1 DEF ScheduledInv
  <2>2. \A a, b \in Busy : a = b
    BY DEF ScheduledInv
  <2>3. \A a, b \in Busy' : a = b
    BY <1>1, <2>2, StaysOneAtATime
  <2>4. CASE CloseAndSpawn(c)
    <3>1. call[c] = "won" /\ call' = [call EXCEPT ![c] = "last"] /\ closed'
      BY <2>4 DEF CloseAndSpawn, Goto
    <3>2. Busy' = {}
      BY <2>2, <3>1 DEF Busy, Working, TypeInv, TypeOK
    <3> QED
      BY <2>3, <3>1, <3>2 DEF ScheduledInv
  <2>5. CASE ~CloseAndSpawn(c)
    <3>1. UNCHANGED <<exit, closed>>
      BY <1>1, <2>5 DEF CallStep, HandlerStep, Admit, Refuse, Resolve,
         CommandEnds, CommandFails, RecordRead, Load, Exchange, FireByCalls,
         exitVars
    <3>2. ASSUME exit["counter"] # "idle" PROVE closed /\ Busy' = {}
      <4>1. closed /\ call[c] \notin Working /\ Busy = {}
        BY <3>2 DEF ScheduledInv, Busy
      <4>2. call' = [call EXCEPT ![c] = "refused"]
        BY <1>1, <2>5, <4>1 DEF CallStep, HandlerStep, Admit, Refuse, Resolve,
           CommandEnds, CommandFails, RecordRead, Load, Exchange, FireByCalls,
           Working, Goto
      <4> QED
        BY <4>1, <4>2 DEF Busy, Working, TypeInv, TypeOK
    <3> QED
      BY <2>3, <3>1, <3>2 DEF ScheduledInv
  <2> QED
    BY <2>4, <2>5
<1>2. CASE ~\E c \in Call : CallStep(c)
  <2>1. UNCHANGED <<inFlight, call>>
    BY <1>2, OtherSteps DEF config, TypeInv
  <2>2. UNCHANGED Busy
    BY <2>1 DEF Busy
  <2> QED
    BY <1>2, <2>1, <2>2, OthersKeepShut DEF ScheduledInv, TypeInv
<1> QED
  BY <1>1, <1>2

LEMMA InitScheduled == Init => ScheduledInv /\ CountedReadsFirst
<1> SUFFICES ASSUME Init PROVE ScheduledInv /\ CountedReadsFirst
  OBVIOUS
<1>1. \A c \in Call : call[c] = "new"
  BY DEF Init
<1>2. Busy = {} /\ exit["counter"] = "idle"
  BY <1>1 DEF Init, Busy, Working, Thread
<1>3. \A i \in DOMAIN sink : sink[i].event \in {"session_start", "arm"}
  BY DEF Init
<1>4. Reads = {}
  BY <1>3 DEF Reads
<1> QED
  BY <1>2, <1>4 DEF ScheduledInv, CountedReadsFirst

\* A record goes to the end of the sink.
LEMMA ReadsGrow ==
    ASSUME TypeOK, NEW r, Emit(r)
    PROVE  /\ \A i \in Reads \cup Wipes :
                  i \in Nat /\ i < Len(sink) + 1 /\ sink'[i] = sink[i]
           /\ Len(sink) + 1 \in Nat
           /\ Reads' = IF r.event = "read" /\ r.served
                       THEN Reads \cup {Len(sink) + 1} ELSE Reads
           /\ Wipes' = IF r.event = "wipe" THEN Wipes \cup {Len(sink) + 1}
                                            ELSE Wipes
<1>1. /\ Len(sink) \in Nat /\ Len(sink') = Len(sink) + 1
      /\ DOMAIN sink = 1 .. Len(sink) /\ DOMAIN sink' = 1 .. Len(sink')
      /\ \A i \in 1 .. Len(sink) : sink'[i] = sink[i]
      /\ sink'[Len(sink) + 1] = r
  BY DEF TypeOK, Emit
<1>2. DOMAIN sink' = DOMAIN sink \cup {Len(sink) + 1}
  BY <1>1
<1>3. Reads' = IF r.event = "read" /\ r.served
               THEN Reads \cup {Len(sink) + 1} ELSE Reads
  BY <1>1, <1>2 DEF Reads
<1>4. Wipes' = IF r.event = "wipe" THEN Wipes \cup {Len(sink) + 1} ELSE Wipes
  BY <1>1, <1>2 DEF Wipes
<1> QED
  BY <1>1, <1>3, <1>4 DEF Reads, Wipes

LEMMA CountedReadsFirstInductive ==
    ASSUME TypeInv, ScheduledInv, EndInv, CountedReadsFirst, [Next]_vars
    PROVE  CountedReadsFirst'
<1> DEFINE n == Len(sink) + 1
<1>0. UNCHANGED inFlight
  <2>1. CASE \E c \in Call : CallStep(c)
    BY <2>1 DEF CallStep, HandlerStep, Admit, Refuse, Resolve, CommandEnds,
       CommandFails, RecordRead, Load, Exchange, FireByCalls, CloseAndSpawn,
       config
  <2>2. CASE ~\E c \in Call : CallStep(c)
    BY <2>2, OtherSteps DEF config, TypeInv
  <2> QED
    BY <2>1, <2>2
<1> SUFFICES ASSUME inFlight = 1 PROVE CountedReadsFirst'
  BY <1>0 DEF CountedReadsFirst
<1>1. TypeOK
  BY DEF TypeInv
<1>2. CASE UNCHANGED sink
  BY <1>2 DEF CountedReadsFirst, Reads, Wipes
<1>3. ASSUME NEW r, Emit(r), r.event # "wipe", ~(r.event = "read" /\ r.served)
      PROVE  CountedReadsFirst'
  <2>1. Reads' = Reads /\ Wipes' = Wipes /\ \A j \in Wipes : sink'[j] = sink[j]
    BY <1>1, <1>3, ReadsGrow
  <2> QED
    BY <2>1 DEF CountedReadsFirst
<1>4. ASSUME NEW c \in Call, CallStep(c) PROVE CountedReadsFirst'
  <2>1. CASE RecordRead(c)
    <3>1. Busy # {} /\ Emit(ReadRecord(tool[c], TRUE))
      BY <2>1 DEF RecordRead, Busy, Working
    <3>2. exit["counter"] = "idle"
      BY <3>1 DEF ScheduledInv
    <3>3. ASSUME NEW j \in Wipes PROVE sink[j].reason # "calls_exhausted"
      <4>1. j \in Ends
        BY DEF Wipes, Ends
      <4>2. PICK t \in Thread : /\ exit[t] \in {"told", "leaving"}
                                /\ sink[j].reason = ReasonOf(t)
        BY <4>1 DEF EndInv
      <4>3. t \in {"main", "monitor"}
        BY <3>2, <4>2 DEF Thread
      <4> QED
        BY <4>2, <4>3 DEF ReasonOf
    <3>4. ReadRecord(tool[c], TRUE).event = "read"
      BY DEF ReadRecord
    <3>5. Wipes' = Wipes /\ \A j \in Wipes : sink'[j] = sink[j]
      BY <1>1, <3>1, <3>4, ReadsGrow
    <3> QED
      BY <3>3, <3>5 DEF CountedReadsFirst
  <2>2. CASE ~RecordRead(c)
    <3>1. UNCHANGED sink \/ Emit(ReadRecord(tool[c], FALSE))
      BY <1>4, <2>2 DEF CallStep, HandlerStep, Admit, Refuse, Resolve,
         CommandEnds, CommandFails, Load, Exchange, FireByCalls, CloseAndSpawn
    <3>2. /\ ReadRecord(tool[c], FALSE).event = "read"
          /\ ReadRecord(tool[c], FALSE).served = FALSE
      BY DEF ReadRecord
    <3> HIDE DEF ReadRecord
    <3> QED
      BY <1>2, <1>3, <3>1, <3>2
  <2> QED
    BY <2>1, <2>2
<1>5. CASE MainStep \/ DaemonLost \/ DaemonKills \/ UNCHANGED vars
  <2>1. UNCHANGED sink
    BY <1>5 DEF MainStep, Serve, ServeFails, DropLocals, ReturnError,
       Disconnect, OnDisconnect, DaemonLost, DaemonKills, vars
  <2> QED
    BY <1>2, <2>1
<1>6. ASSUME NEW t \in Thread, ExitStep(t) PROVE CountedReadsFirst'
  <2>1. CASE RecordWipe(t)
    <3>1. Emit(EndRecord("wipe", t)) /\ EndRecord("wipe", t).event = "wipe"
      BY <2>1 DEF RecordWipe, EndRecord
    <3>2. /\ Reads' = Reads /\ Wipes' = Wipes \cup {n}
          /\ \A i \in Reads : i < n
          /\ \A j \in Wipes : sink'[j] = sink[j]
      BY <1>1, <3>1, ReadsGrow
    <3> HIDE DEF n
    <3> QED
      BY <3>2 DEF CountedReadsFirst
  <2>2. CASE RecordEnd(t)
    <3> DEFINE r == EndRecord(IF arm THEN "kill" ELSE "session_end", t)
    <3>1. Emit(r) /\ r.event \in {"kill", "session_end"}
      BY <2>2 DEF RecordEnd, EndRecord
    <3> HIDE DEF r
    <3> QED
      BY <1>3, <3>1
  <2>3. CASE ~(RecordWipe(t) \/ RecordEnd(t))
    <3>1. UNCHANGED sink
      BY <1>6, <2>3 DEF ExitStep, OwnExitStep, Enter, StopServing, Unregister,
         Wipe, Leave
    <3> QED
      BY <1>2, <3>1
  <2> QED
    BY <2>1, <2>2, <2>3
<1> QED
  BY <1>4, <1>5, <1>6 DEF Next, Halted

(* When handlers run one at a time, the wipe that the counter schedules     *)
(* comes after all reads in the sink: server.rs records a read before it    *)
(* counts it, and closes the server before it spawns the wipe.              *)
THEOREM CountedReadsComeFirst == Spec => []CountedReadsFirst
<1>1. TypeInv => TypeOK
  BY DEF TypeInv
<1> QED
  BY <1>1, InitExit, InitEnd, InitScheduled, ExitInvInductive, EndInvInductive,
     ScheduledInvInductive, CountedReadsFirstInductive, TypesAlways,
     PTL DEF Spec

=============================================================================
