---------------------------- MODULE DeadmanProofs ----------------------------
(* The Python daemon with any number of peers and any bounds of its pipe and *)
(* of what it reads: its memory, whatever a signal interrupts, and the order *)
(* in which it looks at its sockets.                                         *)
EXTENDS Deadman, TLAPS

LoopLabel == {"select", "pipe", "client", "server", "tick", "pings"}
CleanupLabel == {"free", "close", "remove", "unmap"}

-----------------------------------------------------------------------------
(* Memory.                                                                   *)

BufferType == [live : BOOLEAN, closed : BOOLEAN, mapped : BOOLEAN,
               content : {"zero", "secret"}]

\* A secret is where zeroize_all finds it, and what zeroize_all writes to is
\* mapped.
Sound(b) ==
    /\ b.closed => b.content = "zero"
    /\ b.content = "secret" => b.live
    /\ b.live /\ ~b.closed => b.mapped

\* What the main thread knows of the buffer at hand.
AtHand(label, b) ==
    /\ label = "fill" => b.live /\ ~b.closed
    /\ label \in {"close", "remove", "unmap"} => b.content = "zero"
    /\ label = "unmap" => ~b.live

AllZero(m) == \A b \in Buffer : m[b].content = "zero"

Busy == {"allocate", "fill", "close", "remove", "unmap"}

\* The buffers that the clean-up has passed.
Passed(m, i) == \A j \in 1 .. Len(Buffers) :
                    j < i => m[Buffers[j]].content = "zero"

MemInv ==
    /\ pc \in Label
    /\ cur \in 1 .. (Len(Buffers) + 1)
    /\ life \in {"running", "dead", "exited"}
    /\ buf \in [Buffer -> BufferType]
    /\ \A b \in Buffer : Sound(buf[b])
    /\ fault \in BOOLEAN /\ ~fault
    /\ Running /\ pc \in Busy =>
           cur <= Len(Buffers) /\ AtHand(pc, buf[Buffers[cur]])
    /\ Running /\ pc = "kill" => AllZero(buf)
    /\ Running /\ pc \in CleanupLabel => Passed(buf, cur)
    /\ ~Running => AllZero(buf)

LEMMA TwoBuffers ==
    /\ Len(Buffers) = 2
    /\ \A i \in 1 .. Len(Buffers) : Buffers[i] \in Buffer
    /\ \A i, j \in 1 .. Len(Buffers) : Buffers[i] = Buffers[j] => i = j
    /\ \A b \in Buffer : \E i \in 1 .. Len(Buffers) : b = Buffers[i]
  BY DEF Buffers, Buffer

LEMMA ZeroizeSound ==
    ASSUME NEW b \in BufferType, Sound(b)
    PROVE  /\ Zeroize(b) \in BufferType
           /\ Sound(Zeroize(b))
           /\ Zeroize(b).content = "zero"
           /\ Zeroize(b).mapped = b.mapped
  BY DEF BufferType, Sound, Zeroize

\* zeroize_all leaves every buffer sound and zero, and never faults.
LEMMA ZeroizeAllSound ==
    ASSUME MemInv, ZeroizeAll
    PROVE  /\ buf' \in [Buffer -> BufferType]
           /\ \A b \in Buffer : Sound(buf'[b])
           /\ AllZero(buf')
           /\ fault' \in BOOLEAN /\ ~fault'
<1>1. /\ buf \in [Buffer -> BufferType]
      /\ \A b \in Buffer : Sound(buf[b])
      /\ ~fault
  BY DEF MemInv
<1>2. fault' \in BOOLEAN /\ ~fault'
  BY <1>1, Zenon DEF ZeroizeAll, Sound
<1>3. ASSUME NEW b \in Buffer
      PROVE  /\ buf'[b] \in BufferType
             /\ Sound(buf'[b])
             /\ buf'[b].content = "zero"
  <2>1. buf[b] \in BufferType /\ Sound(buf[b])
    BY <1>1
  <2>2. CASE buf[b].live
    <3>1. buf'[b] = Zeroize(buf[b])
      BY <2>2 DEF ZeroizeAll
    <3> QED
      BY <2>1, <3>1, ZeroizeSound
  <2>3. CASE ~buf[b].live
    <3>1. buf'[b] = buf[b]
      BY <2>3 DEF ZeroizeAll
    <3> QED
      BY <2>1, <2>3, <3>1 DEF Sound, BufferType
  <2> QED
    BY <2>2, <2>3
<1>4. DOMAIN buf' = Buffer /\ buf' = [b \in Buffer |-> buf'[b]]
  BY DEF ZeroizeAll
<1> QED
  BY <1>2, <1>3, <1>4 DEF AllZero

\* A step of the loop that does not touch the buffers.
LEMMA LoopStep ==
    ASSUME MemInv, pc' \in LoopLabel, UNCHANGED <<cur, memory, life>>
    PROVE  MemInv'
<1>1. UNCHANGED <<cur, buf, life>> /\ fault' \in BOOLEAN /\ ~fault'
  BY Zenon DEF memory, MemInv
<1>2. /\ pc' \in Label
      /\ pc' \notin Busy /\ pc' # "kill" /\ pc' \notin CleanupLabel
  BY DEF LoopLabel, Label, Busy, CleanupLabel
<1> QED
  BY <1>1, <1>2 DEF MemInv, Running, AllZero

\* A step of somebody else.
LEMMA OtherStep ==
    ASSUME MemInv, UNCHANGED <<pc, cur, memory, life>>
    PROVE  MemInv'
<1>1. UNCHANGED <<pc, cur, buf, life>> /\ fault' \in BOOLEAN /\ ~fault'
  BY Zenon DEF memory, MemInv
<1> QED
  BY <1>1 DEF MemInv, Running, AllZero, Passed

\* A step that wipes.
LEMMA WipeStep ==
    ASSUME MemInv, ZeroizeAll, pc' \in LoopLabel \cup {"kill"},
           UNCHANGED <<cur, life>>
    PROVE  MemInv'
<1>1. pc' \in Label /\ pc' \notin Busy /\ pc' \notin CleanupLabel
  BY DEF LoopLabel, Label, Busy, CleanupLabel
<1> QED
  BY <1>1, ZeroizeAllSound DEF MemInv, Running

LEMMA RequestStep ==
    ASSUME MemInv, NEW next \in LoopLabel, Request(next),
           UNCHANGED <<cur, life>>
    PROVE  MemInv'
<1>1. CASE Goto(next) /\ UNCHANGED memory
  BY <1>1, LoopStep DEF Goto
<1>2. CASE DryRun(next)
  BY <1>2, WipeStep DEF DryRun, Goto
<1>3. CASE Execute
  BY <1>3, WipeStep DEF Execute, Goto
<1>4. CASE OpenWindow(next)
  BY <1>1, <1>4 DEF OpenWindow
<1> QED
  BY <1>1, <1>2, <1>3, <1>4, Zenon DEF Request

\* A step of start-up or clean-up that writes the buffer at hand only.
LEMMA BufferStep ==
    ASSUME MemInv, Running, pc \in Busy \cup {"free"}, cur <= Len(Buffers),
           NEW b \in BufferType, Sound(b),
           buf' = [buf EXCEPT ![Buffers[cur]] = b],
           UNCHANGED <<fault, life>>, pc' \in Label, pc' # "kill",
           \/ /\ cur' = cur
              /\ pc' \in Busy => AtHand(pc', b)
           \/ /\ cur' = cur + 1
              /\ b.content = "zero"
              /\ pc' = "free"
           \/ /\ pc = "fill" /\ pc' \in {"allocate", "listen"}
              /\ cur' = IF cur < Len(Buffers) THEN cur + 1 ELSE 1
              /\ pc' = "allocate" => cur < Len(Buffers),
           pc' \in CleanupLabel => pc \in CleanupLabel
    PROVE  MemInv'
<1>1. /\ buf \in [Buffer -> BufferType] /\ cur \in 1 .. Len(Buffers)
      /\ \A d \in Buffer : Sound(buf[d])
      /\ Len(Buffers) = 2
  BY TwoBuffers DEF MemInv
<1>2. Buffers[cur] \in Buffer
  BY <1>1, TwoBuffers
<1>3. /\ buf' \in [Buffer -> BufferType]
      /\ buf'[Buffers[cur]] = b
      /\ \A d \in Buffer : d # Buffers[cur] => buf'[d] = buf[d]
  BY <1>1, <1>2
<1>4. \A d \in Buffer : Sound(buf'[d])
  BY <1>1, <1>3
<1>5. fault' \in BOOLEAN /\ ~fault'
  BY Zenon DEF MemInv
<1>6. cur' \in 1 .. (Len(Buffers) + 1)
  BY <1>1
<1>7. pc' \in Busy => cur' <= Len(Buffers) /\ AtHand(pc', buf'[Buffers[cur']])
  BY <1>1, <1>3 DEF Busy, AtHand
<1>8. pc' \in CleanupLabel => Passed(buf', cur')
  <2> SUFFICES ASSUME pc' \in CleanupLabel, NEW j \in 1 .. Len(Buffers),
                      j < cur'
               PROVE  buf'[Buffers[j]].content = "zero"
    BY DEF Passed
  <2>1. Passed(buf, cur) /\ cur' \in {cur, cur + 1}
    BY DEF MemInv, CleanupLabel
  <2>2. CASE j = cur
    BY <1>1, <1>3, <2>2 DEF CleanupLabel
  <2>3. CASE j < cur
    <3>1. Buffers[j] \in Buffer /\ Buffers[j] # Buffers[cur]
      BY <1>1, <2>3, TwoBuffers
    <3> QED
      BY <1>3, <2>1, <2>3, <3>1 DEF Passed
  <2> QED
    BY <1>1, <2>1, <2>2, <2>3
<1>9. Running' /\ life' \in {"running", "dead", "exited"}
  BY DEF Running, MemInv
<1> QED
  BY <1>3, <1>4, <1>5, <1>6, <1>7, <1>8, <1>9 DEF MemInv

LEMMA CleanupStarts ==
    ASSUME MemInv, cur' = 1, pc' = "free", UNCHANGED <<memory, life>>
    PROVE  MemInv'
<1>1. UNCHANGED <<buf, life>> /\ fault' \in BOOLEAN /\ ~fault'
  BY Zenon DEF memory, MemInv
<1>2. /\ cur' \in 1 .. (Len(Buffers) + 1)
      /\ pc' \in Label /\ pc' \notin Busy
      /\ \A j \in 1 .. Len(Buffers) : ~(j < cur')
  BY TwoBuffers DEF Label, Busy
<1> QED
  BY <1>1, <1>2 DEF MemInv, Running, AllZero, Passed

LEMMA ProcessEnds ==
    ASSUME MemInv, AllZero(buf), life' \in {"dead", "exited"},
           UNCHANGED <<pc, cur, memory>>
    PROVE  MemInv'
<1>1. UNCHANGED <<pc, cur, buf>> /\ fault' \in BOOLEAN /\ ~fault'
  BY Zenon DEF memory, MemInv
<1> QED
  BY <1>1 DEF MemInv, Running, AllZero

LEMMA SetupSteps ==
    ASSUME MemInv, Setup
    PROVE  MemInv'
<1>1. CASE Allocate
  <2>1. Fresh \in BufferType /\ Sound(Fresh) /\ AtHand("fill", Fresh)
    BY DEF Fresh, NoBuffer, BufferType, Sound, AtHand
  <2>2. /\ Running /\ pc \in Busy /\ cur <= Len(Buffers)
        /\ pc' = "fill" /\ pc' \in Label /\ pc' \notin CleanupLabel
    BY <1>1 DEF Allocate, Goto, Busy, Label, CleanupLabel, MemInv
  <2> QED
    BY <1>1, <2>1, <2>2, BufferStep DEF Allocate
<1>2. CASE Fill
  <2> DEFINE b == [buf[Buffers[cur]] EXCEPT !.content = "secret"]
  <2>1. /\ Running /\ pc = "fill" /\ pc \in Busy /\ cur \in 1 .. Len(Buffers)
        /\ AtHand("fill", buf[Buffers[cur]])
        /\ pc' = IF cur < Len(Buffers) THEN "allocate" ELSE "listen"
    BY <1>2 DEF Fill, Goto, Busy, MemInv
  <2>2. pc' \in Label /\ pc' \notin CleanupLabel /\ pc' # "kill"
    BY <2>1 DEF Label, CleanupLabel
  <2>3. buf[Buffers[cur]] \in BufferType /\ Sound(buf[Buffers[cur]])
    BY <2>1, TwoBuffers DEF MemInv
  <2>4. b \in BufferType /\ Sound(b)
    BY <2>1, <2>3 DEF BufferType, Sound, AtHand
  <2>5. buf' = [buf EXCEPT ![Buffers[cur]] = b]
    BY <1>2 DEF Fill
  <2>6. /\ cur <= Len(Buffers)
        /\ cur' = IF cur < Len(Buffers) THEN cur + 1 ELSE 1
        /\ pc' \in {"allocate", "listen"}
        /\ pc' = "allocate" => cur < Len(Buffers)
        /\ pc \in Busy \cup {"free"}
        /\ UNCHANGED <<fault, life>>
    BY <1>2, <2>1 DEF Fill
  <2> HIDE DEF b
  <2> QED
    BY <2>1, <2>2, <2>4, <2>5, <2>6, BufferStep, Zenon
<1>3. CASE Listen
  BY <1>3, LoopStep DEF Listen, Goto, LoopLabel
<1>4. CASE SetupFails
  BY <1>4, CleanupStarts DEF SetupFails, Goto
<1> QED
  BY <1>1, <1>2, <1>3, <1>4 DEF Setup

LEMMA LoopSteps ==
    ASSUME MemInv, Iterate
    PROVE  MemInv'
<1> USE DEF LoopLabel
<1>1. CASE LeaveLoop
  BY <1>1, CleanupStarts DEF LeaveLoop, Goto
<1>2. CASE Select
  BY <1>2, LoopStep DEF Select, Goto
<1>3. CASE DrainPipe
  <2>1. CASE Request("pipe")
    BY <1>3, <2>1, RequestStep DEF DrainPipe
  <2>2. CASE UNCHANGED <<pc, memory>>
    BY <1>3, <2>2, OtherStep DEF DrainPipe
  <2> QED
    BY <1>3, <2>1, <2>2, Zenon DEF DrainPipe
<1>4. CASE PipeDone
  BY <1>4, LoopStep DEF PipeDone, Goto
<1>5. CASE ReadLines
  BY <1>5, LoopStep DEF ReadLines, Goto
<1>6. CASE HeartbeatDropped
  BY <1>6, RequestStep DEF HeartbeatDropped
<1>7. CASE NoClientInput
  BY <1>7, LoopStep DEF NoClientInput, Goto
<1>8. CASE Accept
  BY <1>8, LoopStep DEF Accept, Goto
<1>9. CASE NoAccept
  BY <1>9, LoopStep DEF NoAccept, Goto
<1>10. CASE Tick
  <2>1. CASE Execute
    BY <1>10, <2>1, WipeStep DEF Tick, Execute, Goto
  <2>2. CASE Goto("pings") /\ UNCHANGED memory
    BY <1>10, <2>2, LoopStep DEF Tick, Goto
  <2> QED
    BY <1>10, <2>1, <2>2, Zenon DEF Tick
<1>11. CASE CheckPingTimeout
  <2>1. CASE Request("select")
    BY <1>11, <2>1, RequestStep DEF CheckPingTimeout
  <2>2. CASE Goto("select") /\ UNCHANGED memory
    BY <1>11, <2>2, LoopStep DEF CheckPingTimeout, Goto
  <2> QED
    BY <1>11, <2>1, <2>2, Zenon DEF CheckPingTimeout
<1>12. CASE Kill
  BY <1>12, ProcessEnds DEF Kill, MemInv
<1> QED
  BY <1>1, <1>2, <1>3, <1>4, <1>5, <1>6, <1>7, <1>8, <1>9, <1>10, <1>11,
     <1>12, Zenon DEF Iterate

LEMMA FreeSteps ==
    ASSUME MemInv, Cleanup
    PROVE  MemInv'
<1> DEFINE b == buf[Buffers[cur]]
<1>1. ASSUME NEW from \in CleanupLabel, NEW next \in CleanupLabel,
             FreeStep(from, next)
      PROVE  /\ Running /\ pc = from /\ cur \in 1 .. Len(Buffers)
             /\ pc \in Busy \cup {"free"}
             /\ b \in BufferType /\ Sound(b)
             /\ pc' = next /\ pc' \in Label /\ pc' # "kill"
             /\ pc \in CleanupLabel
             /\ UNCHANGED <<fault, life>>
             /\ pc \in Busy => AtHand(pc, b)
  <2>1. /\ Running /\ pc = from /\ cur \in 1 .. Len(Buffers) /\ pc' = next
        /\ UNCHANGED <<fault, life>>
    BY <1>1 DEF FreeStep, Goto, MemInv
  <2>2. b \in BufferType /\ Sound(b)
    BY <2>1, TwoBuffers DEF MemInv
  <2>3. pc \in Busy => AtHand(pc, b)
    BY <2>1 DEF MemInv
  <2> HIDE DEF b
  <2> QED
    BY <1>1, <2>1, <2>2, <2>3 DEF CleanupLabel, Busy, Label
<1>2. CASE FreeZeroize
  <2> DEFINE d == Zeroize(b)
             next == IF b.mapped THEN "close" ELSE "free"
  <2>1. FreeStep("free", next) /\ next \in CleanupLabel
    BY <1>2 DEF FreeZeroize, CleanupLabel
  <2>2. /\ Running /\ pc = "free" /\ pc' = next /\ cur \in 1 .. Len(Buffers)
        /\ b \in BufferType /\ Sound(b) /\ UNCHANGED <<fault, life>>
    BY <2>1, <1>1 DEF CleanupLabel
  <2>3. d \in BufferType /\ Sound(d) /\ d.content = "zero"
    BY <2>2, ZeroizeSound
  <2>4. /\ buf' = [buf EXCEPT ![Buffers[cur]] = d]
        /\ cur' = IF b.mapped THEN cur ELSE cur + 1
    BY <1>2 DEF FreeZeroize
  <2> HIDE DEF b, d
  <2>5. AtHand(pc', d) \/ pc' = "free"
    BY <2>2, <2>3 DEF AtHand
  <2>6. /\ pc \in Busy \cup {"free"} /\ cur <= Len(Buffers)
        /\ pc' \in Label /\ pc' # "kill" /\ pc \in CleanupLabel
        /\ \/ cur' = cur /\ (pc' \in Busy => AtHand(pc', d))
           \/ cur' = cur + 1 /\ d.content = "zero" /\ pc' = "free"
    BY <2>2, <2>3, <2>4, <2>5, TwoBuffers DEF CleanupLabel, Label, Busy, AtHand
  <2> QED
    BY <2>2, <2>3, <2>4, <2>5, <2>6, BufferStep, Zenon
<1>3. CASE FreeClose
  <2> DEFINE d == [b EXCEPT !.closed = TRUE]
  <2>1. FreeStep("close", "remove")
    BY <1>3 DEF FreeClose
  <2>2. /\ Running /\ pc = "close" /\ pc' = "remove" /\ cur \in 1 .. Len(Buffers)
        /\ b \in BufferType /\ Sound(b) /\ AtHand(pc, b)
    BY <2>1, <1>1 DEF CleanupLabel, Busy
  <2>3. d \in BufferType /\ Sound(d) /\ AtHand("remove", d)
    BY <2>2 DEF BufferType, Sound, AtHand
  <2>4. buf' = [buf EXCEPT ![Buffers[cur]] = d]
    BY <1>3 DEF FreeClose
  <2>5. UNCHANGED <<fault, life>> /\ cur' = cur
    BY <1>3 DEF FreeClose, FreeStep
  <2> HIDE DEF b, d
  <2>6. /\ pc \in Busy \cup {"free"} /\ cur <= Len(Buffers)
        /\ pc' \in Label /\ pc' # "kill" /\ pc \in CleanupLabel
        /\ cur' = cur /\ (pc' \in Busy => AtHand(pc', d))
    BY <2>2, <2>3, <2>4, <2>5, TwoBuffers DEF CleanupLabel, Label, Busy, AtHand
  <2> QED
    BY <2>2, <2>3, <2>4, <2>5, <2>6, BufferStep, Zenon
<1>4. CASE FreeRemove
  <2> DEFINE d == [b EXCEPT !.live = FALSE]
  <2>1. FreeStep("remove", "unmap")
    BY <1>4 DEF FreeRemove
  <2>2. /\ Running /\ pc = "remove" /\ pc' = "unmap" /\ cur \in 1 .. Len(Buffers)
        /\ b \in BufferType /\ Sound(b) /\ AtHand(pc, b)
    BY <2>1, <1>1 DEF CleanupLabel, Busy
  <2>3. d \in BufferType /\ Sound(d) /\ AtHand("unmap", d)
    BY <2>2 DEF BufferType, Sound, AtHand
  <2>4. buf' = [buf EXCEPT ![Buffers[cur]] = d]
    BY <1>4 DEF FreeRemove
  <2>5. UNCHANGED <<fault, life>> /\ cur' = cur
    BY <1>4 DEF FreeRemove, FreeStep
  <2> HIDE DEF b, d
  <2>6. /\ pc \in Busy \cup {"free"} /\ cur <= Len(Buffers)
        /\ pc' \in Label /\ pc' # "kill" /\ pc \in CleanupLabel
        /\ cur' = cur /\ (pc' \in Busy => AtHand(pc', d))
    BY <2>2, <2>3, <2>4, <2>5, TwoBuffers DEF CleanupLabel, Label, Busy, AtHand
  <2> QED
    BY <2>2, <2>3, <2>4, <2>5, <2>6, BufferStep, Zenon
<1>5. CASE FreeUnmap
  <2> DEFINE d == [b EXCEPT !.mapped = FALSE]
  <2>1. FreeStep("unmap", "free")
    BY <1>5 DEF FreeUnmap
  <2>2. /\ Running /\ pc = "unmap" /\ pc' = "free" /\ cur \in 1 .. Len(Buffers)
        /\ b \in BufferType /\ Sound(b) /\ AtHand(pc, b)
    BY <2>1, <1>1 DEF CleanupLabel, Busy
  <2>3. d \in BufferType /\ Sound(d) /\ d.content = "zero"
    BY <2>2 DEF BufferType, Sound, AtHand
  <2>4. buf' = [buf EXCEPT ![Buffers[cur]] = d]
    BY <1>5 DEF FreeUnmap
  <2>5. UNCHANGED <<fault, life>> /\ cur' = cur + 1
    BY <1>5 DEF FreeUnmap, FreeStep
  <2> HIDE DEF b, d
  <2>6. /\ pc \in Busy \cup {"free"} /\ cur <= Len(Buffers)
        /\ pc' \in Label /\ pc' # "kill" /\ pc \in CleanupLabel
        /\ cur' = cur + 1 /\ d.content = "zero" /\ pc' = "free"
    BY <2>2, <2>3, <2>4, <2>5, TwoBuffers DEF CleanupLabel, Label, Busy, AtHand
  <2> QED
    BY <2>2, <2>3, <2>4, <2>5, <2>6, BufferStep, Zenon
<1>6. CASE Exit
  <2>1. /\ Running /\ pc = "free" /\ cur > Len(Buffers) /\ life' = "exited"
        /\ UNCHANGED <<pc, cur, memory>>
    BY <1>6 DEF Exit
  <2>2. Passed(buf, cur)
    BY <2>1 DEF MemInv, CleanupLabel
  <2>3. AllZero(buf)
    BY <2>1, <2>2, TwoBuffers DEF Passed, AllZero, MemInv
  <2> QED
    BY <2>1, <2>3, ProcessEnds
<1> QED
  BY <1>2, <1>3, <1>4, <1>5, <1>6 DEF Cleanup

LEMMA HardPanicStep ==
    ASSUME MemInv, HardPanic
    PROVE  MemInv'
<1>1. /\ ZeroizeAll /\ UNCHANGED <<pc, cur>>
      /\ life' \in {"dead", "exited"}
  BY DEF HardPanic
<1> QED
  BY <1>1, ZeroizeAllSound DEF MemInv, Running

LEMMA MemSteps == MemInv /\ [Next]_vars => MemInv'
<1> SUFFICES ASSUME MemInv, [Next]_vars PROVE MemInv'
  OBVIOUS
<1>1. CASE Setup
  BY <1>1, SetupSteps
<1>2. CASE Iterate
  BY <1>2, LoopSteps
<1>3. CASE Cleanup
  BY <1>3, FreeSteps
<1>4. CASE HardPanic
  BY <1>4, HardPanicStep
<1>5. CASE GracefulSignal
  BY <1>5, OtherStep DEF GracefulSignal, Signal
<1>6. CASE GraceExpires
  BY <1>6, OtherStep DEF GraceExpires
<1>7. CASE PingLate
  BY <1>7, OtherStep DEF PingLate
<1>8. ASSUME NEW c \in Client, Peer(c) PROVE MemInv'
  BY <1>8, OtherStep DEF Peer, Connect, Hangup, SendLine
<1>9. CASE UNCHANGED vars
  <2>1. UNCHANGED <<pc, cur, memory, life>>
    BY <1>9 DEF vars
  <2> QED
    BY <2>1, OtherStep
<1> QED
  BY <1>1, <1>2, <1>3, <1>4, <1>5, <1>6, <1>7, <1>8, <1>9, Zenon
     DEF Next, Main, Halted

LEMMA MemAlways == Spec => []MemInv
<1>0. Init => fault \in BOOLEAN /\ ~fault
  BY Zenon DEF Init
<1>1. Init => MemInv
  BY <1>0 DEF Init, MemInv, Label, Buffers, NoBuffer, BufferType, Sound, Running,
         Busy, AtHand, CleanupLabel
<1> QED
  BY <1>1, MemSteps, PTL DEF Spec

\* However the daemon ends, no buffer holds its secret: atexit, _cleanup and
\* the wipe of the SIGUSR2 handler leave none, wherever a signal interrupts
\* the start-up or SecureBuffer.free.
THEOREM AlwaysEndsWiped == Spec => []EndsWiped
<1>1. MemInv => EndsWiped
  BY DEF MemInv, EndsWiped, AllZero
<1> QED
  BY <1>1, MemAlways, PTL

\* zeroize_all never writes to a mapping that free has released.
THEOREM NeverFaults == Spec => []NoFault
<1>1. MemInv => NoFault
  BY Zenon DEF MemInv, NoFault
<1> QED
  BY <1>1, MemAlways, PTL

-----------------------------------------------------------------------------
(* Connections.                                                              *)

ConnState == {"new", "backlog", "held", "refused", "closed"}
Arrival == {"none", "alone", "unread", "contested"}

\* A peer that has closed its end and of which nothing is left to read.
Quiet(ends, box, c) == c \notin ends /\ box[c] = {}

\* Who connects alone has nobody but quiet peers before it.
OnlyQuietBefore ==
    \A i \in DOMAIN backlog : arrival[backlog[i]] = "alone" =>
        /\ client # None => Quiet(open, inbox, client)
        /\ \A j \in 1 .. i - 1 : Quiet(open, inbox, backlog[j])

\* What select has found still holds, and it has found the client if it has
\* found somebody who came alone.
Found ==
    /\ pc \in {"pipe", "client"} /\ "client" \in ready => client # None
    /\ pc \in {"pipe", "client", "server"} /\ "server" \in ready =>
           /\ backlog # <<>>
           /\ client # None /\ arrival[Head(backlog)] = "alone" =>
                  pc # "server" /\ "client" \in ready

PeerTypes ==
    /\ conn \in [Client -> ConnState]
    /\ open \subseteq Client
    /\ inbox \in [Client -> SUBSET Verb]
    /\ arrival \in [Client -> Arrival]
    /\ client \in Client \cup {None}
    /\ client # None => conn[client] = "held"

Backlogged ==
    /\ backlog \in Seq(Client)
    /\ \A i \in DOMAIN backlog : conn[backlog[i]] = "backlog"
    /\ \A i, j \in DOMAIN backlog : backlog[i] = backlog[j] => i = j

QueueInv ==
    /\ PeerTypes
    /\ Backlogged
    /\ OnlyQuietBefore
    /\ Found
    /\ ReconnectAccepted

\* A step that leaves the peers alone and does not look at its sockets.
LEMMA AwayStep ==
    ASSUME QueueInv, UNCHANGED <<client, peers>>,
           \/ pc' \notin {"pipe", "client", "server"}
           \/ UNCHANGED <<pc, ready>>
    PROVE  QueueInv'
<1>1. UNCHANGED <<client, conn, open, inbox, backlog, arrival>>
  BY DEF peers
<1>2. PeerTypes' /\ Backlogged' /\ OnlyQuietBefore' /\ ReconnectAccepted'
  BY <1>1 DEF QueueInv, PeerTypes, Backlogged, OnlyQuietBefore, Quiet,
              ReconnectAccepted
<1>3. Found'
  BY <1>1 DEF QueueInv, Found
<1> QED
  BY <1>2, <1>3 DEF QueueInv

LEMMA RequestMoves ==
    ASSUME NEW next, Request(next)
    PROVE  pc' \in {next, "kill"}
  BY DEF Request, Goto, DryRun, OpenWindow, Execute

LEMMA SelectStep ==
    ASSUME QueueInv, Select
    PROVE  QueueInv'
<1>1. /\ UNCHANGED <<client, conn, open, inbox, backlog, arrival>>
      /\ pc' = "pipe" /\ ready' = Readable
  BY DEF Select, Goto, peers
<1>2. PeerTypes' /\ Backlogged' /\ OnlyQuietBefore' /\ ReconnectAccepted'
  BY <1>1 DEF QueueInv, PeerTypes, Backlogged, OnlyQuietBefore, Quiet,
              ReconnectAccepted
<1>3. ASSUME "client" \in Readable PROVE client # None
  BY <1>3 DEF Readable, ClientReadable
<1>4. ASSUME "server" \in Readable PROVE backlog # <<>>
  BY <1>4 DEF Readable
<1>5. ASSUME client # None, backlog # <<>>, arrival[Head(backlog)] = "alone"
      PROVE  "client" \in Readable
  <2>1. 1 \in DOMAIN backlog /\ Head(backlog) = backlog[1]
    BY <1>5 DEF QueueInv, Backlogged
  <2>2. Quiet(open, inbox, client)
    BY <1>5, <2>1 DEF QueueInv, OnlyQuietBefore
  <2> QED
    BY <1>5, <2>2 DEF Readable, ClientReadable, Quiet, Socket
<1>6. Found'
  BY <1>1, <1>3, <1>4, <1>5 DEF Found
<1> QED
  BY <1>2, <1>6 DEF QueueInv

\* The daemon closes the heartbeat connection.
LEMMA CloseStep ==
    ASSUME QueueInv, client # None, CloseClient,
           UNCHANGED <<ready, open, backlog, arrival>>,
           pc' \notin {"pipe", "client"},
           pc' = "server" => pc \in {"pipe", "client", "server"}
    PROVE  QueueInv'
<1>1. /\ conn' = [conn EXCEPT ![client] = "closed"]
      /\ client' = None
      /\ inbox' = [inbox EXCEPT ![client] = {}]
  BY DEF CloseClient
<1>2. PeerTypes'
  BY <1>1 DEF QueueInv, PeerTypes, ConnState
<1>3. Backlogged'
  BY <1>1 DEF QueueInv, PeerTypes, Backlogged
<1>4. ASSUME NEW c \in Client, Quiet(open, inbox, c)
      PROVE  Quiet(open', inbox', c)
  BY <1>1, <1>4 DEF QueueInv, PeerTypes, Quiet
<1>5. OnlyQuietBefore'
  <2> SUFFICES ASSUME NEW i \in DOMAIN backlog,
                      arrival[backlog[i]] = "alone",
                      NEW j \in 1 .. i - 1
               PROVE  Quiet(open', inbox', backlog[j])
    BY <1>1 DEF OnlyQuietBefore
  <2>1. backlog[j] \in Client
    BY DEF QueueInv, Backlogged
  <2>2. Quiet(open, inbox, backlog[j])
    BY DEF QueueInv, OnlyQuietBefore
  <2> QED
    BY <1>4, <2>1, <2>2
<1>6. ReconnectAccepted'
  BY <1>1 DEF QueueInv, PeerTypes, ReconnectAccepted
<1>7. Found'
  BY <1>1 DEF QueueInv, Found
<1> QED
  BY <1>2, <1>3, <1>5, <1>6, <1>7 DEF QueueInv

\* When the server's turn comes, whoever came alone finds no client.
LEMMA ToServer ==
    ASSUME QueueInv, pc = "client", pc' = "server",
           UNCHANGED <<ready, client, backlog, arrival>>,
           client # None /\ backlog # <<>> /\ arrival[Head(backlog)] = "alone"
               => "client" \notin ready
    PROVE  Found'
  BY DEF QueueInv, Found

LEMMA ReadLinesStep ==
    ASSUME QueueInv, ReadLines
    PROVE  QueueInv'
<1>1. /\ pc = "client" /\ pc' = "server" /\ "client" \in ready
      /\ inbox[client] # {}
      /\ inbox' = [inbox EXCEPT ![client] = {}]
      /\ UNCHANGED <<ready, client, conn, open, backlog, arrival>>
  BY DEF ReadLines, Goto
<1>2. client # None /\ client \in Client
  BY <1>1 DEF QueueInv, Found, PeerTypes
<1>3. PeerTypes' /\ Backlogged' /\ ReconnectAccepted'
  BY <1>1 DEF QueueInv, PeerTypes, Backlogged, ReconnectAccepted
<1>4. \A i \in DOMAIN backlog : arrival[backlog[i]] # "alone"
  BY <1>1, <1>2 DEF QueueInv, OnlyQuietBefore, Quiet
<1>5. OnlyQuietBefore'
  BY <1>1, <1>4 DEF OnlyQuietBefore
<1>6. backlog # <<>> => arrival[Head(backlog)] # "alone"
  BY <1>4 DEF QueueInv, Backlogged
<1>7. Found'
  BY <1>1, <1>6, ToServer
<1> QED
  BY <1>3, <1>5, <1>7 DEF QueueInv

LEMMA NoInputStep ==
    ASSUME QueueInv, NoClientInput
    PROVE  QueueInv'
<1>1. /\ pc = "client" /\ pc' = "server" /\ "client" \notin ready
      /\ UNCHANGED <<ready, client, conn, open, inbox, backlog, arrival>>
  BY DEF NoClientInput, Goto, peers
<1>2. PeerTypes' /\ Backlogged' /\ OnlyQuietBefore' /\ ReconnectAccepted'
  BY <1>1 DEF QueueInv, PeerTypes, Backlogged, OnlyQuietBefore, Quiet,
              ReconnectAccepted
<1>3. Found'
  BY <1>1, ToServer
<1> QED
  BY <1>2, <1>3 DEF QueueInv

LEMMA AcceptStep ==
    ASSUME QueueInv, Accept
    PROVE  QueueInv'
<1> DEFINE c == Head(backlog)
<1>1. /\ pc = "server" /\ "server" \in ready /\ backlog # <<>>
      /\ pc' = "tick" /\ backlog' = Tail(backlog) /\ UNCHANGED open
  BY DEF Accept, Admit, Goto
<1>2. \/ /\ client # None
         /\ conn' = [conn EXCEPT ![c] = "refused"]
         /\ inbox' = [inbox EXCEPT ![c] = {}]
         /\ UNCHANGED <<client, arrival>>
      \/ /\ client = None
         /\ conn' = [conn EXCEPT ![c] = "held"]
         /\ client' = c
         /\ arrival' = [arrival EXCEPT ![c] = "none"]
         /\ UNCHANGED inbox
  BY DEF Accept, Admit
<1>3. /\ c \in Client /\ c = backlog[1] /\ conn[c] = "backlog"
      /\ 1 \in DOMAIN backlog
      /\ Len(backlog) \in Nat /\ Len(backlog') = Len(backlog) - 1
      /\ \A i \in DOMAIN backlog' :
             backlog'[i] = backlog[i + 1] /\ i + 1 \in DOMAIN backlog
      /\ backlog' \in Seq(Client)
  BY <1>1 DEF QueueInv, Backlogged
<1>4. \A i \in DOMAIN backlog' : backlog'[i] \in Client /\ backlog'[i] # c
  <2> SUFFICES ASSUME NEW i \in DOMAIN backlog'
               PROVE  backlog'[i] \in Client /\ backlog'[i] # c
    OBVIOUS
  <2>1. i \in 1 .. Len(backlog') /\ i + 1 # 1
    BY <1>3
  <2> QED
    BY <1>3, <2>1 DEF QueueInv, Backlogged
<1>5. \A i, j \in DOMAIN backlog' : backlog'[i] = backlog'[j] => i = j
  <2> SUFFICES ASSUME NEW i \in DOMAIN backlog', NEW j \in DOMAIN backlog',
                      backlog'[i] = backlog'[j]
               PROVE  i = j
    OBVIOUS
  <2>1. i \in Nat /\ j \in Nat /\ i + 1 = j + 1
    BY <1>3 DEF QueueInv, Backlogged
  <2> QED
    BY <2>1
<1> HIDE DEF c
<1>6. PeerTypes'
  BY <1>1, <1>2, <1>3, NoneAssumption DEF QueueInv, PeerTypes, ConnState,
                                          Arrival
<1>7. \A i \in DOMAIN backlog' : conn'[backlog'[i]] = "backlog"
  BY <1>2, <1>3, <1>4 DEF QueueInv, Backlogged, PeerTypes
<1>8. Backlogged'
  BY <1>3, <1>5, <1>7 DEF Backlogged
<1>9. ASSUME NEW d \in Client, Quiet(open, inbox, d)
      PROVE  Quiet(open', inbox', d)
  BY <1>1, <1>2, <1>3, <1>9 DEF QueueInv, PeerTypes, Quiet
<1>10. OnlyQuietBefore'
  <2> SUFFICES ASSUME NEW i \in DOMAIN backlog',
                      arrival'[backlog'[i]] = "alone"
               PROVE  /\ client' # None => Quiet(open', inbox', client')
                      /\ \A j \in 1 .. i - 1 : Quiet(open', inbox', backlog'[j])
    BY DEF OnlyQuietBefore
  <2>1. /\ i + 1 \in DOMAIN backlog /\ backlog'[i] = backlog[i + 1]
        /\ i \in Nat /\ 1 <= i
        /\ arrival[backlog[i + 1]] = "alone"
    BY <1>2, <1>3, <1>4 DEF QueueInv, PeerTypes
  <2>2. /\ client # None => Quiet(open, inbox, client)
        /\ \A j \in 1 .. i : Quiet(open, inbox, backlog[j])
    BY <2>1 DEF QueueInv, OnlyQuietBefore
  <2>3. client' # None => Quiet(open', inbox', client')
    BY <1>2, <1>3, <1>9, <2>1, <2>2 DEF QueueInv, PeerTypes
  <2>4. ASSUME NEW j \in 1 .. i - 1 PROVE Quiet(open', inbox', backlog'[j])
    <3>1. /\ j \in DOMAIN backlog' /\ backlog'[j] = backlog[j + 1]
          /\ j + 1 \in 1 .. i
      BY <1>3, <2>1
    <3> QED
      BY <1>4, <1>9, <2>2, <3>1
  <2> QED
    BY <2>3, <2>4
<1>11. Found'
  BY <1>1 DEF Found
<1>12. ReconnectAccepted'
  <2>1. client # None => arrival[c] # "alone"
    BY <1>1 DEF QueueInv, Found, c
  <2> QED
    BY <1>2, <1>3, <2>1 DEF QueueInv, ReconnectAccepted, PeerTypes
<1> QED
  BY <1>6, <1>8, <1>10, <1>11, <1>12 DEF QueueInv

LEMMA NoAcceptStep ==
    ASSUME QueueInv, NoAccept
    PROVE  QueueInv'
<1>1. UNCHANGED <<client, peers>> /\ pc' = "tick"
  BY DEF NoAccept, Goto
<1> QED
  BY <1>1, AwayStep

LEMMA ConnectStep ==
    ASSUME QueueInv, NEW c \in Client, Connect(c)
    PROVE  QueueInv'
<1>1. /\ conn[c] = "new" /\ conn' = [conn EXCEPT ![c] = "backlog"]
      /\ backlog' = Append(backlog, c) /\ open' = open \cup {c}
      /\ \E a \in Arrival : arrival' = [arrival EXCEPT ![c] = a]
      /\ UNCHANGED <<client, inbox, pc, ready>>
  BY DEF Connect, Arrival
<1>2. /\ DOMAIN backlog = 1 .. Len(backlog) /\ Len(backlog) \in Nat
      /\ DOMAIN backlog' = 1 .. Len(backlog) + 1
      /\ backlog'[Len(backlog) + 1] = c
      /\ \A i \in DOMAIN backlog : /\ backlog'[i] = backlog[i]
                                   /\ backlog[i] \in Client
                                   /\ backlog[i] # c
      /\ backlog' \in Seq(Client)
  BY <1>1 DEF QueueInv, Backlogged
<1>3. client # c
  BY <1>1, NoneAssumption DEF QueueInv, PeerTypes
<1>4. PeerTypes'
  BY <1>1, <1>3 DEF QueueInv, PeerTypes, ConnState
<1>5. Backlogged'
  <2>1. \A i \in DOMAIN backlog' : conn'[backlog'[i]] = "backlog"
    BY <1>1, <1>2 DEF QueueInv, PeerTypes, Backlogged
  <2>2. \A i, j \in DOMAIN backlog' : backlog'[i] = backlog'[j] => i = j
    BY <1>2 DEF QueueInv, Backlogged
  <2> QED
    BY <1>2, <2>1, <2>2 DEF Backlogged
<1>6. ASSUME NEW d \in Client, d # c, Quiet(open, inbox, d)
      PROVE  Quiet(open', inbox', d)
  BY <1>1, <1>6 DEF Quiet
<1>7. ASSUME arrival'[c] = "alone"
      PROVE  /\ client # None => Quiet(open, inbox, client)
             /\ \A i \in DOMAIN backlog : Quiet(open, inbox, backlog[i])
  <2>1. open = {} /\ \A d \in Pending : inbox[d] = {}
    BY <1>7 DEF Connect, QueueInv, PeerTypes
  <2> QED
    BY <2>1, <1>2 DEF Quiet, Pending, QueueInv, PeerTypes, Backlogged
<1>8. OnlyQuietBefore'
  <2> SUFFICES ASSUME NEW i \in DOMAIN backlog',
                      arrival'[backlog'[i]] = "alone"
               PROVE  /\ client' # None => Quiet(open', inbox', client')
                      /\ \A j \in 1 .. i - 1 : Quiet(open', inbox', backlog'[j])
    BY DEF OnlyQuietBefore
  <2>1. /\ client # None => Quiet(open, inbox, client)
        /\ \A j \in 1 .. i - 1 : Quiet(open, inbox, backlog[j])
    <3>1. CASE i = Len(backlog) + 1
      BY <1>2, <1>7, <3>1
    <3>2. CASE i # Len(backlog) + 1
      <4>1. i \in DOMAIN backlog /\ arrival[backlog[i]] = "alone"
        BY <1>1, <1>2, <3>2 DEF QueueInv, PeerTypes
      <4> QED
        BY <4>1 DEF QueueInv, OnlyQuietBefore
    <3> QED
      BY <3>1, <3>2
  <2>2. client' # None => Quiet(open', inbox', client')
    BY <1>1, <1>3, <1>6, <2>1 DEF QueueInv, PeerTypes
  <2>3. ASSUME NEW j \in 1 .. i - 1 PROVE Quiet(open', inbox', backlog'[j])
    <3>1. j \in DOMAIN backlog
      BY <1>2
    <3> QED
      BY <1>2, <1>6, <2>1, <3>1
  <2> QED
    BY <2>2, <2>3
<1>9. Found'
  <2>1. backlog # <<>> => /\ Head(backlog') = Head(backlog)
                          /\ arrival'[Head(backlog)] = arrival[Head(backlog)]
    BY <1>1, <1>2 DEF QueueInv, PeerTypes, Backlogged
  <2>2. backlog' # <<>>
    BY <1>2
  <2> QED
    BY <1>1, <2>1, <2>2 DEF QueueInv, Found
<1>10. ReconnectAccepted'
  BY <1>1 DEF QueueInv, PeerTypes, ReconnectAccepted
<1> QED
  BY <1>4, <1>5, <1>8, <1>9, <1>10 DEF QueueInv

LEMMA PeerStep ==
    ASSUME QueueInv, NEW c \in Client, Peer(c)
    PROVE  QueueInv'
<1>1. ASSUME \/ Hangup(c) \/ \E verb \in Verb : SendLine(c, verb)
      PROVE  QueueInv'
  <2>1. /\ UNCHANGED <<client, conn, backlog, arrival, pc, ready>>
        /\ open' \subseteq open
        /\ inbox' \in [Client -> SUBSET Verb]
        /\ \A d \in Client : d \notin open => inbox'[d] = inbox[d]
    BY <1>1 DEF Hangup, SendLine, QueueInv, PeerTypes
  <2>2. ASSUME NEW d \in Client, Quiet(open, inbox, d)
        PROVE  Quiet(open', inbox', d)
    BY <2>1, <2>2 DEF Quiet
  <2>3. PeerTypes' /\ Backlogged' /\ Found' /\ ReconnectAccepted'
    BY <2>1 DEF QueueInv, PeerTypes, Backlogged, Found, ReconnectAccepted
  <2>4. OnlyQuietBefore'
    BY <2>1, <2>2 DEF QueueInv, OnlyQuietBefore, PeerTypes, Backlogged
  <2> QED
    BY <2>3, <2>4 DEF QueueInv
<1> QED
  BY <1>1, ConnectStep DEF Peer

LEMMA QueueSteps == QueueInv /\ [Next]_vars => QueueInv'
<1> SUFFICES ASSUME QueueInv, [Next]_vars PROVE QueueInv'
  OBVIOUS
<1>1. CASE Setup
  BY <1>1, AwayStep
     DEF Setup, Allocate, Fill, Listen, SetupFails, Goto
<1>2. CASE Cleanup
  <2>1. ASSUME NEW from, NEW next \in CleanupLabel, FreeStep(from, next)
        PROVE  QueueInv'
    BY <2>1, AwayStep DEF FreeStep, Goto, CleanupLabel
  <2>2. CASE Exit
    BY <2>2, AwayStep DEF Exit
  <2> QED
    BY <1>2, <2>1, <2>2
       DEF Cleanup, FreeZeroize, FreeClose, FreeRemove, FreeUnmap, CleanupLabel
<1>3. CASE Iterate
  <2>1. CASE LeaveLoop \/ Kill \/ Tick
    BY <2>1, AwayStep DEF LeaveLoop, Kill, Tick, Execute, Goto
  <2>2. CASE DrainPipe
    <3>1. UNCHANGED <<client, peers, ready>> /\ pc = "pipe"
      BY <2>2 DEF DrainPipe
    <3>2. pc' \in {"pipe", "kill"}
      BY <2>2, RequestMoves DEF DrainPipe
    <3> QED
      BY <3>1, <3>2, AwayStep
  <2>3. CASE PipeDone
    <3>1. /\ UNCHANGED <<client, conn, open, inbox, backlog, arrival, ready>>
          /\ pc = "pipe" /\ pc' = "client"
      BY <2>3 DEF PipeDone, Goto, peers
    <3> QED
      BY <3>1 DEF QueueInv, PeerTypes, Backlogged, OnlyQuietBefore, Quiet,
                  Found, ReconnectAccepted
  <2>4. CASE HeartbeatDropped
    <3>1. /\ CloseClient /\ UNCHANGED <<ready, open, backlog, arrival>>
          /\ pc = "client" /\ "client" \in ready
      BY <2>4 DEF HeartbeatDropped
    <3>2. pc' \in {"server", "kill"}
      BY <2>4, RequestMoves DEF HeartbeatDropped
    <3>3. client # None
      BY <3>1 DEF QueueInv, Found
    <3> QED
      BY <3>1, <3>2, <3>3, CloseStep
  <2>5. CASE CheckPingTimeout
    <3>1. CASE client # None /\ CloseClient /\ Request("select")
      <4>1. UNCHANGED <<ready, open, backlog, arrival>>
        BY <2>5 DEF CheckPingTimeout
      <4>2. pc' \in {"select", "kill"}
        BY <3>1, RequestMoves
      <4> QED
        BY <3>1, <4>1, <4>2, CloseStep
    <3>2. CASE Goto("select") /\ UNCHANGED <<conn, inbox, client>>
      BY <2>5, <3>2, AwayStep DEF CheckPingTimeout, Goto, peers
    <3> QED
      BY <2>5, <3>1, <3>2, Zenon DEF CheckPingTimeout
  <2> QED
    BY <1>3, <2>1, <2>2, <2>3, <2>4, <2>5, SelectStep, ReadLinesStep,
       NoInputStep, AcceptStep, NoAcceptStep, Zenon DEF Iterate
<1>4. CASE GracefulSignal \/ HardPanic \/ GraceExpires \/ PingLate
  <2>1. UNCHANGED <<client, peers, pc, ready>>
    BY <1>4 DEF GracefulSignal, Signal, HardPanic, GraceExpires, PingLate
  <2> QED
    BY <2>1, AwayStep
<1>5. CASE UNCHANGED vars
  BY <1>5, AwayStep DEF vars
<1> QED
  BY <1>1, <1>2, <1>3, <1>4, <1>5, PeerStep, Zenon DEF Next, Main, Halted

LEMMA QueueAlways == Spec => []QueueInv
<1>1. Init => QueueInv
  BY NoneAssumption
     DEF Init, QueueInv, PeerTypes, ConnState, Arrival, Backlogged,
         OnlyQuietBefore, Found, ReconnectAccepted
<1> QED
  BY <1>1, QueueSteps, PTL DEF Spec

\* A client that reconnects when no other peer is left is never turned away,
\* however many clients come and go: _loop looks at the client before the
\* server, and select has found both.
THEOREM AlwaysReconnects == Spec => []ReconnectAccepted
<1>1. QueueInv => ReconnectAccepted
  BY DEF QueueInv
<1> QED
  BY <1>1, QueueAlways, PTL

-----------------------------------------------------------------------------
(* Types.                                                                    *)

LocalTypes ==
    /\ mode \in {"dry", "grace", "now"}
    /\ ready \subseteq Socket
    /\ batch \in Seq({"G", "T"})
    /\ pipe \in Seq({"G", "T"})

PolicyTypes ==
    /\ stop \in BOOLEAN /\ fired \in BOOLEAN
    /\ deadline \in {"none", "pending", "expired"}
    /\ late \in BOOLEAN

LEMMA LocalSteps == LocalTypes /\ [Next]_vars => LocalTypes'
<1> SUFFICES ASSUME LocalTypes, [Next]_vars PROVE LocalTypes'
  OBVIOUS
<1>1. CASE UNCHANGED <<mode, ready, batch, pipe>>
  BY <1>1 DEF LocalTypes
<1>2. CASE Select
  BY <1>2 DEF Select, LocalTypes, Readable
<1>3. CASE DrainPipe
  BY <1>3 DEF DrainPipe, LocalTypes
<1>4. CASE Accept \/ NoAccept
  BY <1>4 DEF Accept, NoAccept, LocalTypes
<1>5. CASE GracefulSignal
  BY <1>5 DEF GracefulSignal, Signal, LocalTypes
<1>6. CASE Setup \/ LeaveLoop \/ PipeDone \/ ReadLines \/ HeartbeatDropped
           \/ NoClientInput \/ Tick \/ CheckPingTimeout \/ Kill \/ Cleanup
  BY <1>1, <1>6
     DEF Setup, Allocate, Fill, Listen, SetupFails, LeaveLoop, PipeDone,
         ReadLines, HeartbeatDropped, NoClientInput, Tick, CheckPingTimeout,
         Kill, Cleanup, FreeZeroize, FreeClose, FreeRemove, FreeUnmap,
         FreeStep, Exit
<1>7. CASE HardPanic \/ GraceExpires \/ PingLate \/ \E c \in Client : Peer(c)
  BY <1>1, <1>7 DEF HardPanic, GraceExpires, PingLate, Peer, Connect, Hangup,
                    SendLine
<1>8. CASE UNCHANGED vars
  BY <1>1, <1>8 DEF vars
<1> QED
  BY <1>2, <1>3, <1>4, <1>5, <1>6, <1>7, <1>8, Zenon
     DEF Next, Main, Iterate, Halted

LEMMA PolicyRequest ==
    ASSUME PolicyTypes, NEW next, Request(next)
    PROVE  stop' \in BOOLEAN /\ fired' \in BOOLEAN
           /\ deadline' \in {"none", "pending", "expired"}
<1>1. CASE UNCHANGED policy
  BY <1>1, Zenon DEF policy, PolicyTypes
<1>2. CASE DryRun(next)
  BY <1>2, Zenon DEF DryRun, PolicyTypes
<1>3. CASE OpenWindow(next)
  BY <1>3, Zenon DEF OpenWindow, PolicyTypes
<1>4. CASE Execute
  BY <1>4, Zenon DEF Execute, PolicyTypes
<1> QED
  BY <1>1, <1>2, <1>3, <1>4, Zenon DEF Request

LEMMA PolicySteps == PolicyTypes /\ [Next]_vars => PolicyTypes'
<1> SUFFICES ASSUME PolicyTypes, [Next]_vars PROVE PolicyTypes'
  OBVIOUS
<1>1. ASSUME UNCHANGED policy, late' \in BOOLEAN PROVE PolicyTypes'
  BY <1>1, Zenon DEF policy, PolicyTypes
<1>2. ASSUME UNCHANGED policy, UNCHANGED late PROVE PolicyTypes'
  BY <1>1, <1>2, Zenon DEF PolicyTypes
<1>3. CASE DrainPipe
  <2>1. late' \in BOOLEAN
    BY <1>3, Zenon DEF DrainPipe, PolicyTypes
  <2>2. CASE Request("pipe")
    BY <2>1, <2>2, PolicyRequest, Zenon DEF PolicyTypes
  <2>3. CASE stop' = TRUE /\ UNCHANGED <<fired, deadline>>
    BY <2>1, <2>3, Zenon DEF PolicyTypes
  <2> QED
    BY <1>3, <2>2, <2>3, Zenon DEF DrainPipe
<1>4. CASE ReadLines
  <2>1. stop' \in BOOLEAN /\ late' \in BOOLEAN /\ fired' \in BOOLEAN
    BY <1>4, Zenon DEF ReadLines, PolicyTypes
  <2>2. deadline' \in {"none", "pending", "expired"}
    BY <1>4 DEF ReadLines, PolicyTypes
  <2> QED
    BY <2>1, <2>2, Zenon DEF PolicyTypes
<1>5. CASE HeartbeatDropped
  BY <1>5, PolicyRequest, Zenon DEF HeartbeatDropped, CloseClient, PolicyTypes
<1>6. CASE Accept
  BY <1>6, Zenon DEF Accept, Admit, PolicyTypes
<1>7. CASE Tick
  BY <1>2, <1>7, Zenon DEF Tick, Execute, PolicyTypes
<1>8. CASE CheckPingTimeout
  <2>1. CASE CloseClient /\ Request("select")
    BY <2>1, PolicyRequest, Zenon DEF CloseClient, PolicyTypes
  <2>2. CASE UNCHANGED late /\ UNCHANGED policy
    BY <1>2, <2>2
  <2> QED
    BY <1>8, <2>1, <2>2, Zenon DEF CheckPingTimeout
<1>9. CASE GraceExpires
  BY <1>9, Zenon DEF GraceExpires, PolicyTypes
<1>10. CASE PingLate
  BY <1>1, <1>10, Zenon DEF PingLate
<1>11. CASE Setup \/ Cleanup
  BY <1>2, <1>11, Zenon
     DEF Setup, Allocate, Fill, Listen, SetupFails, Cleanup, FreeZeroize,
         FreeClose, FreeRemove, FreeUnmap, FreeStep, Exit
<1>12. CASE LeaveLoop \/ Select \/ PipeDone \/ NoClientInput \/ NoAccept \/ Kill
  BY <1>2, <1>12, Zenon
     DEF LeaveLoop, Select, PipeDone, NoClientInput, NoAccept, Kill
<1>13. CASE GracefulSignal \/ HardPanic \/ \E c \in Client : Peer(c)
  BY <1>2, <1>13, Zenon
     DEF GracefulSignal, Signal, HardPanic, Peer, Connect, Hangup, SendLine
<1>14. CASE UNCHANGED vars
  BY <1>2, <1>14, Zenon DEF vars
<1> QED
  BY <1>3, <1>4, <1>5, <1>6, <1>7, <1>8, <1>9, <1>10, <1>11, <1>12, <1>13,
     <1>14, Zenon DEF Next, Main, Iterate, Halted

\* Every variable of the daemon and of its peers holds a value of its type.
THEOREM TypeCorrect == Spec => []TypeOK
<1>1. Init => LocalTypes
  BY DEF Init, LocalTypes
<1>2. Init => PolicyTypes
  BY Zenon DEF Init, PolicyTypes
<1>3. LocalTypes /\ PolicyTypes /\ MemInv /\ QueueInv => TypeOK
  <2> SUFFICES ASSUME LocalTypes, PolicyTypes, MemInv, QueueInv PROVE TypeOK
    OBVIOUS
  <2>1. client \in {c \in Client : conn[c] = "held"} \cup {None}
    BY DEF QueueInv, PeerTypes
  <2>2. backlog \in Seq({c \in Client : conn[c] = "backlog"})
    BY DEF QueueInv, Backlogged
  <2>3. stop \in BOOLEAN /\ fired \in BOOLEAN /\ late \in BOOLEAN
    BY Zenon DEF PolicyTypes
  <2>4. fault \in BOOLEAN
    BY Zenon DEF MemInv
  <2>5. buf \in [Buffer -> [live : BOOLEAN, closed : BOOLEAN, mapped : BOOLEAN,
                          content : {"zero", "secret"}]]
    BY DEF MemInv, BufferType
  <2>6. /\ conn \in [Client -> {"new", "backlog", "held", "refused", "closed"}]
        /\ open \subseteq Client
        /\ inbox \in [Client -> SUBSET Verb]
        /\ arrival \in [Client -> {"none", "alone", "unread", "contested"}]
    BY DEF QueueInv, PeerTypes, ConnState, Arrival
  <2>7. /\ pc \in Label /\ cur \in 1 .. (Len(Buffers) + 1)
        /\ life \in {"running", "dead", "exited"}
    BY DEF MemInv
  <2> QED
    BY <2>1, <2>2, <2>3, <2>4, <2>5, <2>6, <2>7, Zenon
       DEF TypeOK, LocalTypes, PolicyTypes
<1> QED
  BY <1>1, <1>2, <1>3, LocalSteps, PolicySteps, MemAlways, QueueAlways, PTL
     DEF Spec

-----------------------------------------------------------------------------
(* The two ways out.                                                         *)

\* A window or a kill means an armed daemon, and the guard is up exactly from
\* the start of a sequence.
ArmedInv ==
    /\ EndsAsArmed
    /\ deadline # "none" \/ pc = "kill" => mode # "dry"
    /\ pc = "kill" => fired

\* The steps that neither touch the policy nor come from or lead to the kill.
LEMMA StaysArmed ==
    ASSUME ArmedInv, UNCHANGED <<mode, life, stop, fired, deadline>>,
           pc' = pc \/ (pc # "kill" /\ pc' # "kill")
    PROVE  ArmedInv'
BY Zenon DEF ArmedInv, EndsAsArmed

LEMMA RequestArmed ==
    ASSUME ArmedInv, mode \in {"dry", "grace", "now"}, UNCHANGED <<mode, life>>,
           pc # "kill", NEW next, next # "kill", Request(next)
    PROVE  ArmedInv'
<1> USE DEF ArmedInv, EndsAsArmed, Goto
<1>1. CASE fired /\ Goto(next) /\ UNCHANGED <<policy, memory>>
  BY <1>1, Zenon DEF policy
<1>2. CASE mode = "dry" /\ DryRun(next)
  BY <1>2 DEF DryRun
<1>3. CASE ~fired /\ mode = "grace" /\ OpenWindow(next)
  BY <1>3 DEF OpenWindow
<1>4. CASE mode = "now" /\ Execute
  BY <1>4 DEF Execute
<1> QED
  BY <1>1, <1>2, <1>3, <1>4, Zenon DEF Request

LEMMA ArmedSteps == LocalTypes /\ ArmedInv /\ [Next]_vars => ArmedInv'
<1> SUFFICES ASSUME LocalTypes, ArmedInv, [Next]_vars PROVE ArmedInv'
  OBVIOUS
<1>1. mode \in {"dry", "grace", "now"}
  BY DEF LocalTypes
<1>2. CASE DrainPipe
  <2>1. pc = "pipe" /\ UNCHANGED <<mode, life>>
    BY <1>2, Zenon DEF DrainPipe
  <2>2. CASE Request("pipe")
    BY <1>1, <2>1, <2>2, RequestArmed
  <2>3. CASE stop' = TRUE /\ UNCHANGED <<pc, fired, deadline>>
    BY <2>1, <2>3, Zenon DEF ArmedInv, EndsAsArmed
  <2> QED
    BY <1>2, <2>2, <2>3, Zenon DEF DrainPipe
<1>3. CASE HeartbeatDropped
  <2>1. pc = "client" /\ UNCHANGED <<mode, life>> /\ Request("server")
    BY <1>3, Zenon DEF HeartbeatDropped
  <2> QED
    BY <1>1, <2>1, RequestArmed
<1>4. CASE CheckPingTimeout
  <2>1. pc = "pings" /\ UNCHANGED <<mode, life>>
    BY <1>4, Zenon DEF CheckPingTimeout
  <2>2. CASE Request("select")
    BY <1>1, <2>1, <2>2, RequestArmed
  <2>3. CASE Goto("select") /\ UNCHANGED policy
    BY <2>1, <2>3, StaysArmed DEF policy, Goto
  <2> QED
    BY <1>4, <2>2, <2>3, Zenon DEF CheckPingTimeout
<1>5. CASE Tick
  <2>1. pc = "tick" /\ UNCHANGED <<mode, life>>
    BY <1>5, Zenon DEF Tick
  <2>2. CASE deadline = "expired" /\ Execute
    BY <2>1, <2>2 DEF Execute, Goto, ArmedInv, EndsAsArmed
  <2>3. CASE Goto("pings") /\ UNCHANGED policy
    BY <2>1, <2>3, StaysArmed DEF policy, Goto
  <2> QED
    BY <1>5, <2>2, <2>3, Zenon DEF Tick
<1>6. CASE ReadLines
  <2>1. /\ pc = "client" /\ pc' = "server" /\ UNCHANGED <<mode, life, fired>>
        /\ stop => stop'
        /\ deadline' = "none" \/ deadline' = deadline
    BY <1>6, Zenon DEF ReadLines, Goto
  <2> QED
    BY <2>1 DEF ArmedInv, EndsAsArmed
<1>7. CASE Accept
  <2>1. /\ pc = "server" /\ pc' = "tick" /\ UNCHANGED <<mode, life, stop, fired>>
        /\ deadline' = "none" \/ deadline' = deadline
    BY <1>7, Zenon DEF Accept, Admit, Goto
  <2> QED
    BY <2>1 DEF ArmedInv, EndsAsArmed
<1>8. CASE GraceExpires
  BY <1>8, Zenon DEF GraceExpires, ArmedInv, EndsAsArmed
<1>9. CASE Kill
  <2>1. pc = "kill" /\ life' = "dead" /\ UNCHANGED <<mode, pc, policy>>
    BY <1>9, Zenon DEF Kill
  <2> QED
    BY <2>1 DEF policy, ArmedInv, EndsAsArmed
<1>10. CASE HardPanic
  <2>1. /\ life' = IF mode = "dry" THEN "exited" ELSE "dead"
        /\ UNCHANGED <<mode, pc, policy>>
    BY <1>10, Zenon DEF HardPanic
  <2> QED
    BY <2>1 DEF policy, ArmedInv, EndsAsArmed
<1>11. CASE Exit
  <2>1. life' = "exited" /\ UNCHANGED <<mode, pc, policy>>
    BY <1>11, Zenon DEF Exit
  <2> QED
    BY <2>1 DEF policy, ArmedInv, EndsAsArmed
<1>12. ASSUME UNCHANGED <<mode, life, policy>>,
              pc' = pc \/ (pc # "kill" /\ pc' # "kill")
       PROVE  ArmedInv'
  BY <1>12, StaysArmed DEF policy
<1>13. CASE Setup
  BY <1>12, <1>13 DEF Setup, Allocate, Fill, Listen, SetupFails, Goto
<1>14. CASE LeaveLoop \/ Select \/ PipeDone \/ NoClientInput \/ NoAccept
  BY <1>12, <1>14
     DEF LeaveLoop, Select, PipeDone, NoClientInput, NoAccept, Goto
<1>15. CASE FreeZeroize \/ FreeClose \/ FreeRemove \/ FreeUnmap
  BY <1>12, <1>15 DEF FreeZeroize, FreeClose, FreeRemove, FreeUnmap, FreeStep,
                      Goto
<1>16. CASE GracefulSignal \/ PingLate \/ \E c \in Client : Peer(c)
  <2>1. UNCHANGED <<mode, life, policy, pc>>
    BY <1>16, Zenon DEF GracefulSignal, Signal, PingLate, Peer, Connect,
                        Hangup, SendLine, policy
  <2> QED
    BY <1>12, <2>1
<1>17. CASE UNCHANGED vars
  BY <1>12, <1>17 DEF vars
<1> QED
  BY <1>2, <1>3, <1>4, <1>5, <1>6, <1>7, <1>8, <1>9, <1>10, <1>11, <1>13,
     <1>14, <1>15, <1>16, <1>17, Zenon DEF Next, Main, Iterate, Cleanup, Halted

\* Only an armed daemon kills, and an armed sequence that has begun is not
\* left: no verb, reconnect, signal or expiry takes PanicController to execute
\* in a dry run or out of it when armed.
THEOREM AlwaysEndsAsArmed == Spec => []EndsAsArmed
<1>1. Init => LocalTypes /\ ArmedInv
  BY DEF Init, LocalTypes, ArmedInv, EndsAsArmed
<1>2. ArmedInv => EndsAsArmed
  BY DEF ArmedInv
<1> QED
  BY <1>1, <1>2, LocalSteps, ArmedSteps, PTL DEF Spec

=============================================================================
