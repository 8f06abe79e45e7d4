---------------------------- MODULE KirokuProofs ----------------------------
(* What the sink holds and what it counts, for any number of threads, any    *)
(* size of pipe and any reader.                                              *)
EXTENDS Kiroku, FiniteSetTheorems, TLAPS

Byte == Call \X (1 .. Parts)

\* What makes NeverTorn inductive: a thread that writes to a pipe has its whole
\* record before it.
WholeInv ==
    /\ free \in Nat
    /\ read \in Nat
    /\ stream \in Seq(Byte)
    /\ phase \in [Call -> {"idle", "writing", "done"}]
    /\ rest \in [Call -> 0 .. Parts]
    /\ kind = "fifo" =>
           \A c \in Call : phase[c] = "writing" => rest[c] = Parts
    /\ NeverTorn

\* One whole record behind whole records leaves whole records.
LEMMA AppendWhole ==
    ASSUME NEW s \in Seq(Byte), WholeRecords(s), NEW c \in Call
    PROVE  WholeRecords(s \o [i \in 1 .. Parts |-> <<c, i>>])
<1> DEFINE b == [i \in 1 .. Parts |-> <<c, i>>]
           t == s \o b
<1>1. Parts \in Nat /\ Parts >= 2
  BY KirokuAssumption
<1>2. b \in Seq(Byte) /\ Len(b) = Parts
  BY <1>1 DEF Byte
<1> HIDE DEF b
<1>3. /\ t \in Seq(Byte)
      /\ Len(t) = Len(s) + Parts
      /\ \A i \in 1 .. Len(s) : t[i] = s[i]
      /\ \A i \in 1 .. Parts : t[Len(s) + i] = b[i]
  BY <1>1, <1>2
<1>4. \A i \in 1 .. Parts : b[i] = <<c, i>>
  BY DEF b
<1> HIDE DEF t
<1>5. ASSUME NEW i \in DOMAIN t
      PROVE  /\ t[i][2] > 1 => i > 1 /\ t[i - 1] = <<t[i][1], t[i][2] - 1>>
             /\ t[i][2] < Parts =>
                    i < Len(t) /\ t[i + 1] = <<t[i][1], t[i][2] + 1>>
  <2>1. i \in 1 .. Len(s) + Parts
    BY <1>3
  <2>2. CASE i <= Len(s)
    <3>1. i \in DOMAIN s /\ t[i] = s[i]
      BY <2>1, <2>2, <1>3
    <3>2. s[i][2] > 1 => i > 1 /\ s[i - 1] = <<s[i][1], s[i][2] - 1>>
      BY <3>1 DEF WholeRecords
    <3>3. s[i][2] < Parts =>
              i < Len(s) /\ s[i + 1] = <<s[i][1], s[i][2] + 1>>
      BY <3>1 DEF WholeRecords
    <3>4. i > 1 => i - 1 \in 1 .. Len(s)
      BY <2>1, <2>2
    <3>5. i < Len(s) => i + 1 \in 1 .. Len(s) /\ i < Len(t)
      BY <2>1, <1>1, <1>3
    <3> QED
      BY <3>1, <3>2, <3>3, <3>4, <3>5, <1>3
  <2>3. CASE i > Len(s)
    <3> DEFINE j == i - Len(s)
    <3>1. j \in 1 .. Parts /\ i = Len(s) + j
      BY <2>1, <2>3, <1>1
    <3> HIDE DEF j
    <3>2. t[i] = <<c, j>>
      BY <3>1, <1>3, <1>4
    <3>3. ASSUME j > 1 PROVE i > 1 /\ t[i - 1] = <<c, j - 1>>
      <4>1. j - 1 \in 1 .. Parts /\ i - 1 = Len(s) + (j - 1) /\ i > 1
        BY <3>1, <3>3, <1>1
      <4> QED
        BY <4>1, <1>3, <1>4
    <3>4. ASSUME j < Parts PROVE i < Len(t) /\ t[i + 1] = <<c, j + 1>>
      <4>1. /\ j + 1 \in 1 .. Parts
            /\ i + 1 = Len(s) + (j + 1)
            /\ i < Len(s) + Parts
        BY <3>1, <3>4, <1>1
      <4> QED
        BY <4>1, <1>3, <1>4
    <3> QED
      BY <3>1, <3>2, <3>3, <3>4
  <2> QED
    BY <2>1, <2>2, <2>3
<1> QED
  BY <1>5 DEF WholeRecords, t, b

LEMMA InitWhole == Init => WholeInv
<1> SUFFICES ASSUME Init PROVE WholeInv
  OBVIOUS
<1>1. stream \in Seq(Byte) /\ WholeRecords(stream)
  BY DEF Init, WholeRecords
<1> QED
  BY <1>1, KirokuAssumption DEF Init, WholeInv, NeverTorn

\* A round of write_all on a pipe takes the whole record or nothing.
LEMMA WriteKeepsWhole ==
    ASSUME WholeInv, NEW c \in Call, Write(c)
    PROVE  WholeInv'
<1> USE KirokuAssumption
<1> DEFINE n == Taken(rest[c])
<1>1. rest[c] \in 0 .. Parts /\ phase[c] = "writing"
  BY DEF WholeInv, Write
<1>2. n \in 0 .. rest[c] /\ (n > 0 => n <= free)
  BY <1>1 DEF WholeInv, Taken
<1>3. kind = "fifo" => n \in {0, Parts} /\ rest[c] = Parts
  BY <1>1 DEF WholeInv, Taken
<1> HIDE DEF n
<1>4. CASE n = 0
  <2>1. /\ phase' = [phase EXCEPT ![c] = "done"]
        /\ UNCHANGED <<free, stream, rest, kind, read>>
    BY <1>4 DEF Write, n
  <2> QED
    BY <2>1 DEF WholeInv, NeverTorn, WholeRecords
<1>5. CASE n # 0
  <2> DEFINE new == [i \in 1 .. n |-> <<c, Parts - rest[c] + i>>]
  <2>1. /\ stream' = stream \o new
        /\ free' = free - n
        /\ rest' = [rest EXCEPT ![c] = @ - n]
        /\ phase' = [phase EXCEPT ![c] = IF rest[c] = n THEN "done" ELSE @]
        /\ UNCHANGED <<kind, read>>
    BY <1>5 DEF Write, PutBytes, n
  <2>2. new \in Seq(Byte)
    BY <1>1, <1>2 DEF Byte
  <2>3. /\ stream' \in Seq(Byte)
        /\ free' \in Nat
        /\ read' \in Nat
    BY <2>1, <2>2, <1>2, <1>5 DEF WholeInv
  <2>4. /\ rest' \in [Call -> 0 .. Parts]
        /\ phase' \in [Call -> {"idle", "writing", "done"}]
    BY <2>1, <1>1, <1>2 DEF WholeInv
  <2>5. ASSUME kind' = "fifo"
        PROVE  /\ \A d \in Call : phase'[d] = "writing" => rest'[d] = Parts
               /\ WholeRecords(stream)'
    <3>1. kind = "fifo" /\ n = Parts /\ rest[c] = Parts
      BY <2>1, <2>5, <1>3, <1>5
    <3>2. new = [i \in 1 .. Parts |-> <<c, i>>]
      BY <3>1
    <3>3. WholeRecords(stream \o [i \in 1 .. Parts |-> <<c, i>>])
      BY <3>1, AppendWhole DEF WholeInv, NeverTorn
    <3>4. WholeRecords(stream)'
      BY <2>1, <3>2, <3>3 DEF WholeRecords
    <3>5. \A d \in Call : phase'[d] = "writing" => rest'[d] = Parts
      BY <2>1, <3>1 DEF WholeInv
    <3> QED
      BY <3>4, <3>5
  <2> QED
    BY <2>3, <2>4, <2>5 DEF WholeInv, NeverTorn
<1> QED
  BY <1>4, <1>5

\* The other steps do not touch the stream.
LEMMA NextKeepsWhole == WholeInv /\ [Next]_vars => WholeInv'
<1> SUFFICES ASSUME WholeInv, [Next]_vars PROVE WholeInv'
  OBVIOUS
<1>0. ASSUME Read PROVE free' \in Nat /\ read' \in Nat
  <2>1. free \in Nat /\ read \in Nat
    BY DEF WholeInv
  <2>2. PICK r \in read + 1 .. Len(stream) :
            read' = r /\ free' = free + (r - read)
    BY <1>0 DEF Read
  <2>3. r \in Nat /\ free + (r - read) \in Nat
    BY <2>1
  <2> QED
    BY <2>2, <2>3
<1> USE KirokuAssumption DEF WholeInv, NeverTorn, WholeRecords
<1>1. CASE Open
  BY <1>1 DEF Open, callVars
<1>2. CASE Read
  BY <1>0, <1>2 DEF Read, callVars
<1>3. CASE DiskChanges
  BY <1>3 DEF DiskChanges, callVars
<1>4. CASE ReaderChanges
  BY <1>4 DEF ReaderChanges, callVars
<1>5. CASE Ingest
  BY <1>5 DEF Ingest, callVars, sinkVars
<1>6. ASSUME NEW c \in Call, Emit(c) PROVE WholeInv'
  BY <1>6 DEF Emit, sinkVars
<1>7. ASSUME NEW c \in Call, Write(c) PROVE WholeInv'
  BY <1>7, WriteKeepsWhole
<1>8. CASE UNCHANGED vars
  BY <1>8 DEF vars, sinkVars, callVars
<1> QED
  BY <1>1, <1>2, <1>3, <1>4, <1>5, <1>6, <1>7, <1>8 DEF Next

\* A pipe never holds a part of a record: Sink::emit delivers it whole or drops
\* it, for any number of threads, any pipe and any behaviour of its reader.
THEOREM NeverTornAlways == Spec => []NeverTorn
<1>1. WholeInv => NeverTorn
  BY DEF WholeInv
<1> QED
  BY <1>1, InitWhole, NextKeepsWhole, PTL DEF Spec

-----------------------------------------------------------------------------

\* Where the bytes of a call are in a stream.
Bytes(s, c) == {i \in DOMAIN s : s[i][1] = c}

\* The calls that returned with bytes unwritten.
Cut == {c \in Call : phase[c] = "done" /\ rest[c] # 0}

\* What makes TypeOK and Accounted inductive: room in a pipe is what the bytes
\* not yet read leave, and a call has in the stream what it has not still to
\* write.
CountInv ==
    /\ kind \in Kind /\ reader \in BOOLEAN
    /\ sink \in {"closed", "open", "failed"}
    /\ free \in 0 .. Capacity
    /\ stream \in Seq(Byte)
    /\ read \in 0 .. Len(stream)
    /\ kind = "fifo" => free + (Len(stream) - read) = Capacity
    /\ phase \in [Call -> {"idle", "writing", "done"}]
    /\ rest \in [Call -> 0 .. Parts]
    /\ \A c \in Call :
           /\ phase[c] = "idle" => Cardinality(Bytes(stream, c)) = 0
           /\ phase[c] # "idle" =>
                  Cardinality(Bytes(stream, c)) = Parts - rest[c]
           /\ phase[c] = "writing" => rest[c] >= 1
    /\ dropped = Cardinality(Cut)

LEMMA BytesFinite ==
    ASSUME NEW s \in Seq(Byte), NEW c
    PROVE  IsFiniteSet(Bytes(s, c)) /\ Cardinality(Bytes(s, c)) \in Nat
<1>1. Bytes(s, c) \subseteq 1 .. Len(s) /\ IsFiniteSet(1 .. Len(s))
  BY FS_Interval DEF Bytes
<1> QED
  BY <1>1, FS_Subset, FS_CardinalityType

\* n bytes of one call behind a stream are n bytes more of that call.
LEMMA BytesAppend ==
    ASSUME NEW s \in Seq(Byte), NEW b \in Seq(Byte), NEW c,
           \A i \in 1 .. Len(b) : b[i][1] = c
    PROVE  /\ Cardinality(Bytes(s \o b, c)) = Cardinality(Bytes(s, c)) + Len(b)
           /\ \A d : d # c => Bytes(s \o b, d) = Bytes(s, d)
<1> DEFINE n == Len(b)
           t == s \o b
           new == Len(s) + 1 .. Len(s) + n
<1>1. /\ t \in Seq(Byte) /\ Len(t) = Len(s) + n /\ Len(s) \in Nat
      /\ DOMAIN t = 1 .. Len(s) + n /\ DOMAIN s = 1 .. Len(s)
      /\ \A i \in 1 .. Len(s) : t[i] = s[i]
      /\ \A i \in new : t[i] = b[i - Len(s)] /\ i - Len(s) \in 1 .. n
      /\ n \in Nat /\ \A i \in 1 .. n : b[i][1] = c
  OBVIOUS
<1> HIDE DEF n, t
<1>2. Bytes(t, c) = Bytes(s, c) \cup new
  BY <1>1 DEF Bytes
<1>3. \A d : d # c => Bytes(t, d) = Bytes(s, d)
  BY <1>1 DEF Bytes
<1>4. IsFiniteSet(new) /\ Cardinality(new) = n
  BY <1>1, FS_Interval
<1>5. Bytes(s, c) \cap new = {}
  BY <1>1 DEF Bytes
<1>6. Cardinality(Bytes(s, c) \cup new) = Cardinality(Bytes(s, c)) + n
  <2> DEFINE old == Bytes(s, c)
  <2>1. IsFiniteSet(old) /\ Cardinality(old) \in Nat /\ n \in Nat
    BY <1>1, BytesFinite
  <2>2. Cardinality(old \cap new) = 0
    BY <1>5, FS_EmptySet
  <2> HIDE DEF old, new
  <2>3. Cardinality(old \cup new) =
            Cardinality(old) + Cardinality(new) - Cardinality(old \cap new)
    BY <1>4, <2>1, FS_Union
  <2>4. Cardinality(old \cup new) = Cardinality(old) + n
    BY <1>4, <2>1, <2>2, <2>3
  <2> QED
    BY <2>4 DEF old
<1> QED
  BY <1>2, <1>3, <1>6 DEF n, t

LEMMA CutFinite ==
    /\ IsFiniteSet(Cut)
    /\ Cardinality(Cut) \in 0 .. Cardinality(Call)
    /\ Cardinality(Call) \in Nat
<1>1. Cut \subseteq Call /\ IsFiniteSet(Call)
  BY KirokuAssumption DEF Cut
<1> QED
  BY <1>1, FS_Subset, FS_CardinalityType

\* What CountInv says of one call.
OneCall(c) ==
    /\ phase[c] = "idle" => Cardinality(Bytes(stream, c)) = 0
    /\ phase[c] # "idle" => Cardinality(Bytes(stream, c)) = Parts - rest[c]
    /\ phase[c] = "writing" => rest[c] >= 1

LEMMA InitCounts == Init => CountInv
<1> SUFFICES ASSUME Init PROVE CountInv
  OBVIOUS
<1>1. stream \in Seq(Byte) /\ Len(stream) = 0 /\ \A c : Bytes(stream, c) = {}
  BY DEF Init, Bytes
<1>2. Cut = {}
  BY DEF Init, Cut
<1>3. dropped = Cardinality(Cut) /\ \A c : Cardinality(Bytes(stream, c)) = 0
  BY <1>1, <1>2, FS_EmptySet DEF Init
<1>4. reader \in BOOLEAN
  BY DEF Init
<1>5. /\ phase \in [Call -> {"idle", "writing", "done"}]
      /\ rest \in [Call -> 0 .. Parts]
      /\ \A c \in Call : phase[c] = "idle"
  BY KirokuAssumption DEF Init
<1> QED
  BY <1>1, <1>3, <1>4, <1>5, KirokuAssumption DEF Init, CountInv

LEMMA WriteCounts ==
    ASSUME CountInv, NEW c \in Call, Write(c)
    PROVE  CountInv'
<1> DEFINE n == Taken(rest[c])
<1>0. Parts \in Nat /\ Capacity \in Nat
  BY KirokuAssumption
<1>1. rest[c] \in 1 .. Parts /\ phase[c] = "writing"
  BY DEF CountInv, Write
<1>2. n \in 0 .. rest[c] /\ (n > 0 => n <= free)
  BY <1>0, <1>1 DEF CountInv, Taken
<1>3. n \in Nat /\ rest[c] \in Nat
  BY <1>0, <1>1, <1>2
<1>4. UNCHANGED <<kind, reader, sink, read>>
  BY DEF Write
<1>5. /\ stream \in Seq(Byte) /\ Len(stream) \in Nat
      /\ free \in 0 .. Capacity /\ read \in 0 .. Len(stream)
      /\ kind = "fifo" => free + (Len(stream) - read) = Capacity
  BY DEF CountInv
<1>6. Cardinality(Bytes(stream, c)) = Parts - rest[c]
  BY <1>1 DEF CountInv
<1> HIDE DEF n
<1>7. CASE n = 0
  <2>1. /\ phase' = [phase EXCEPT ![c] = "done"] /\ dropped' = dropped + 1
        /\ UNCHANGED <<free, stream, rest>>
    BY <1>7 DEF Write, n
  <2>2. Cut' = Cut \cup {c} /\ c \notin Cut
    BY <1>1, <2>1 DEF CountInv, Cut
  <2>3. Cardinality(Cut') = Cardinality(Cut) + 1
    BY <2>2, CutFinite, FS_AddElement
  <2>4. \A d \in Call : OneCall(d)'
    BY <1>1, <2>1 DEF CountInv, OneCall
  <2>5. phase' \in [Call -> {"idle", "writing", "done"}]
    BY <2>1 DEF CountInv
  <2> QED
    BY <1>4, <2>1, <2>3, <2>4, <2>5 DEF CountInv, OneCall
<1>8. CASE n # 0
  <2> DEFINE new == [i \in 1 .. n |-> <<c, Parts - rest[c] + i>>]
  <2>1. /\ stream' = stream \o new
        /\ free' = free - n
        /\ rest' = [rest EXCEPT ![c] = @ - n]
        /\ phase' = [phase EXCEPT ![c] = IF rest[c] = n THEN "done" ELSE @]
        /\ dropped' = dropped
    BY <1>8 DEF Write, PutBytes, n
  <2>2. /\ new \in Seq(Byte) /\ Len(new) = n
        /\ \A i \in 1 .. n : new[i][1] = c
    BY <1>0, <1>1, <1>2 DEF Byte
  <2> HIDE DEF new
  <2>3. /\ stream' \in Seq(Byte) /\ Len(stream') = Len(stream) + n
        /\ Len(stream) \in Nat
    <3>1. \A x, y \in Seq(Byte) :
              x \o y \in Seq(Byte) /\ Len(x \o y) = Len(x) + Len(y)
      OBVIOUS
    <3>2. new \in Seq(Byte) /\ Len(new) = n /\ stream' = stream \o new
      BY <2>1, <2>2
    <3> QED
      BY <1>5, <3>1, <3>2
  <2>4. /\ free' \in 0 .. Capacity /\ read' \in 0 .. Len(stream')
        /\ kind' = "fifo" => free' + (Len(stream') - read') = Capacity
    <3>1. free' = free - n /\ read' = read /\ kind' = kind /\ n <= free
      BY <1>2, <1>3, <1>4, <1>8, <2>1
    <3> QED
      BY <1>0, <1>3, <1>5, <2>3, <3>1
  <2>5. /\ rest' \in [Call -> 0 .. Parts]
        /\ phase' \in [Call -> {"idle", "writing", "done"}]
    BY <1>0, <1>1, <1>2, <2>1 DEF CountInv
  <2>6. /\ Cardinality(Bytes(stream', c)) = Cardinality(Bytes(stream, c)) + n
        /\ \A d \in Call : d # c => Bytes(stream', d) = Bytes(stream, d)
    <3>1. stream' = stream \o new
      BY <2>1
    <3>2. /\ stream \in Seq(Byte) /\ n \in Nat
          /\ new \in Seq(Byte) /\ Len(new) = n
          /\ \A i \in 1 .. Len(new) : new[i][1] = c
      BY <1>3, <1>5, <2>2
    <3>3. /\ Cardinality(Bytes(stream \o new, c)) = Cardinality(Bytes(stream, c)) + n
          /\ \A d : d # c => Bytes(stream \o new, d) = Bytes(stream, d)
      BY <3>2, BytesAppend
    <3> QED
      BY Zenon, <3>1, <3>3
  <2>7. \A d \in Call \ {c} : OneCall(d)'
    BY <2>1, <2>6 DEF CountInv, OneCall
  <2>8. OneCall(c)'
    <3>1. /\ rest'[c] = rest[c] - n
          /\ phase'[c] = IF rest[c] = n THEN "done" ELSE "writing"
      BY <1>1, <2>1 DEF CountInv
    <3>2. Cardinality(Bytes(stream', c)) = Parts - rest'[c]
      BY <1>0, <1>1, <1>3, <1>6, <2>6, <3>1
    <3>3. phase'[c] = "writing" => rest'[c] >= 1
      BY <1>1, <1>2, <1>3, <3>1
    <3> QED
      BY <3>1, <3>2, <3>3 DEF OneCall
  <2>9. Cut' = Cut
    BY <1>1, <1>2, <2>1 DEF CountInv, Cut
  <2> QED
    BY <1>4, <2>1, <2>3, <2>4, <2>5, <2>7, <2>8, <2>9 DEF CountInv, OneCall
<1> QED
  BY <1>7, <1>8

LEMMA NextCounts ==
    ASSUME CountInv, [Next]_vars
    PROVE  CountInv'
<1> USE DEF callVars, sinkVars
<1>0. Parts \in Nat /\ Parts >= 2 /\ Capacity \in Nat
  BY KirokuAssumption
<1>1. CASE Open
  BY <1>1 DEF CountInv, Cut, Open
<1>2. CASE Read
  <2>1. /\ read' \in 0 .. Len(stream) /\ free' \in 0 .. Capacity
        /\ free' + (Len(stream) - read') = Capacity
    <3>1. PICK r \in read + 1 .. Len(stream) :
              read' = r /\ free' = free + (r - read)
      BY <1>2 DEF Read
    <3>2. /\ free \in 0 .. Capacity /\ read \in 0 .. Len(stream)
          /\ Len(stream) \in Nat /\ free + (Len(stream) - read) = Capacity
      BY <1>2 DEF CountInv, Read
    <3> QED
      BY <1>0, <3>1, <3>2
  <2> QED
    BY <1>2, <2>1 DEF CountInv, Cut, Read
<1>3. CASE DiskChanges
  BY <1>3 DEF CountInv, Cut, DiskChanges
<1>4. CASE ReaderChanges
  <2>1. reader' \in BOOLEAN
    BY Zenon, <1>4 DEF ReaderChanges
  <2> QED
    BY <1>4, <2>1 DEF CountInv, Cut, ReaderChanges
<1>5. CASE Ingest
  BY <1>5 DEF CountInv, Cut, Ingest
<1>6. ASSUME NEW c \in Call, Emit(c) PROVE CountInv'
  <2>1. /\ phase' \in [Call -> {"idle", "writing", "done"}]
        /\ rest' \in [Call -> 0 .. Parts]
        /\ \A d \in Call : OneCall(d)'
    BY <1>0, <1>6 DEF CountInv, OneCall, Emit
  <2>2. Cut' = Cut
    BY <1>6 DEF CountInv, Cut, Emit
  <2> QED
    BY <1>6, <2>1, <2>2 DEF CountInv, OneCall, Emit
<1>7. ASSUME NEW c \in Call, Write(c) PROVE CountInv'
  BY <1>7, WriteCounts
<1>8. CASE UNCHANGED vars
  BY <1>8 DEF CountInv, Cut, vars
<1> QED
  BY <1>1, <1>2, <1>3, <1>4, <1>5, <1>6, <1>7, <1>8 DEF Next

LEMMA CountsAlways == Spec => []CountInv
  BY InitCounts, NextCounts, PTL DEF Spec

\* Type correctness.  Its numbers are the point: the room in the pipe stays
\* between none and its capacity, and no record is counted as dropped twice.
THEOREM TypeCorrect == Spec => []TypeOK
<1>1. CountInv => TypeOK
  BY CutFinite DEF CountInv, TypeOK, Byte
<1> QED
  BY <1>1, CountsAlways, PTL

\* Every record that was to be written is in the sink with all its bytes or is
\* counted: Sink::emit loses none silently, also when write_all fails midway.
THEOREM AlwaysAccounted == Spec => []Accounted
<1>1. CountInv => Accounted
  <2> SUFFICES ASSUME CountInv PROVE Accounted
    OBVIOUS
  <2>1. ASSUME NEW c \in Call, phase[c] = "done"
        PROVE  Complete(c) <=> rest[c] = 0
    BY <2>1, KirokuAssumption DEF CountInv, Complete, Bytes
  <2>2. Cut = {c \in Call : phase[c] = "done" /\ ~Complete(c)}
    BY <2>1 DEF Cut
  <2> QED
    BY <2>2 DEF CountInv, Accounted
<1> QED
  BY <1>1, CountsAlways, PTL

-----------------------------------------------------------------------------

LEMMA Clamped ==
    ASSUME NEW t \in Int
    PROVE  NowUnixMs(t) \in 0 .. MaxSafe
  BY KirokuAssumption DEF NowUnixMs

\* What the keys of a record must be, and their values, for its step.
Fits(e, args, result, success) ==
    /\ e.step \in {"session_start", "arm", "read", "wipe", "kill",
                   "session_end"}
    /\ DOMAIN args = Allowed(e.step)[1]
    /\ DOMAIN result = Allowed(e.step)[2]
    /\ DOMAIN args \cap CommonArgs = {}
    /\ \A k \in DOMAIN args : args[k] \in Vocabulary(k)
    /\ \A k \in DOMAIN result : result[k] \in BOOLEAN
    /\ success = IF e.step = "read" THEN result.served ELSE TRUE
    /\ "success" \in DOMAIN result => result.success

\* What every record has, whatever it tells.
LEMMA RecordValid ==
    ASSUME NEW c \in Component, NEW e, NEW t \in Int, NEW args, NEW result,
           NEW success, Fits(e, args, result, success)
    PROVE  Valid(Record(c, e, t, args, result, success))
<1> USE DEF Fits
<1> DEFINE r == Record(c, e, t, args, result, success)
           common == [component |-> c, contract |-> "lifecycle@1",
                      producer |-> "this version", session |-> "hex",
                      observed_unix_ms |-> NowUnixMs(t)]
<1>1. /\ DOMAIN r = TopKeys /\ r.tool_name = e.step
      /\ r.args = Join(common, args) /\ r.result = result
      /\ r.source_agent = SourceAgent(c) /\ r.success = success
  BY DEF Record, TopKeys
<1>2. /\ DOMAIN common = CommonArgs
      /\ \A k \in CommonArgs : common[k] \in Vocabulary(k)
      /\ common.component = c
  <2>1. DOMAIN common = CommonArgs
    BY DEF CommonArgs
  <2>2. /\ Vocabulary("component") = Component
        /\ Vocabulary("contract") = {"lifecycle@1"}
        /\ Vocabulary("producer") = {"this version"}
        /\ Vocabulary("session") = {"hex"}
        /\ Vocabulary("observed_unix_ms") = 0 .. MaxSafe
    BY DEF Vocabulary
  <2>3. NowUnixMs(t) \in 0 .. MaxSafe
    BY Clamped
  <2>4. /\ common.component = c /\ common.contract = "lifecycle@1"
        /\ common.producer = "this version" /\ common.session = "hex"
        /\ common.observed_unix_ms = NowUnixMs(t)
    OBVIOUS
  <2> HIDE DEF common
  <2> QED
    BY <2>1, <2>2, <2>3, <2>4 DEF CommonArgs
<1> HIDE DEF r, common
<1>3. /\ DOMAIN Join(common, args) = CommonArgs \cup DOMAIN args
      /\ \A k \in CommonArgs \cup DOMAIN args :
             Join(common, args)[k] = IF k \in CommonArgs THEN common[k] ELSE args[k]
  BY <1>2 DEF Join
<1>4. Join(common, args).component = c
  BY <1>2, <1>3 DEF CommonArgs
<1>5. \A k \in DOMAIN r.args : r.args[k] \in Vocabulary(k)
  BY <1>1, <1>2, <1>3
<1> QED
  BY <1>1, <1>3, <1>4, <1>5 DEF Valid, r

LEMMA AllowedKeys ==
    /\ Allowed("session_start") = <<{"armed"}, {"success"}>>
    /\ Allowed("arm") = <<{"via"}, {"success"}>>
    /\ Allowed("read") = <<{"tool", "kind"}, {"served"}>>
    /\ Allowed("wipe") = <<{"reason", "buffers"}, {"success"}>>
    /\ Allowed("kill") = <<{"reason", "target", "count"}, {"executed"}>>
    /\ Allowed("session_end") = <<{"reason"}, {"success"}>>
  BY DEF Allowed

LEMMA Words ==
    /\ Vocabulary("armed") = BOOLEAN
    /\ Vocabulary("via") = ArmVia
    /\ Vocabulary("kind") = ReadKind
    /\ Vocabulary("target") = KillTarget
    /\ Vocabulary("reason") = Reason
    /\ Vocabulary("tool") = Counter
    /\ Vocabulary("buffers") = Counter
    /\ Vocabulary("count") = Counter
  BY DEF Vocabulary

LEMMA SomeFields ==
    ASSUME NEW e, NEW keys
    PROVE  /\ DOMAIN Fields(e, keys) = keys
           /\ \A k \in keys : Fields(e, keys)[k] = e[k]
  BY DEF Fields

LEMMA SucceedsFacts ==
    /\ DOMAIN Succeeds = {"success"}
    /\ \A k \in DOMAIN Succeeds : Succeeds[k] \in BOOLEAN
    /\ "success" \in DOMAIN Succeeds => Succeeds.success
<1>1. DOMAIN Succeeds = {"success"}
  BY DEF Succeeds
<1>2. Succeeds.success = TRUE
  BY Zenon DEF Succeeds
<1>3. Succeeds.success \in BOOLEAN
  BY <1>2, Zenon
<1> QED
  BY <1>1, <1>2, <1>3, Zenon

\* A record that only succeeds.
Plain(e, keys) ==
    /\ e.step \in {"session_start", "arm", "wipe", "session_end"}
    /\ Allowed(e.step) = <<keys, {"success"}>>
    /\ keys \cap CommonArgs = {}
    /\ \A k \in keys : e[k] \in Vocabulary(k)

LEMMA PlainValid ==
    ASSUME NEW c \in Component, NEW e, NEW t \in Int, NEW keys,
           Plain(e, keys)
    PROVE  Valid(Record(c, e, t, Fields(e, keys), Succeeds, TRUE))
<1> DEFINE args == Fields(e, keys)
<1>1. DOMAIN args = keys /\ \A k \in keys : args[k] = e[k]
  BY SomeFields
<1>2. /\ e.step \in {"session_start", "arm", "read", "wipe", "kill",
                    "session_end"}
      /\ DOMAIN args = Allowed(e.step)[1]
      /\ DOMAIN Succeeds = Allowed(e.step)[2]
      /\ DOMAIN args \cap CommonArgs = {}
      /\ \A k \in DOMAIN args : args[k] \in Vocabulary(k)
  BY <1>1, SucceedsFacts DEF Plain
<1>3. TRUE = IF e.step = "read" THEN Succeeds.served ELSE TRUE
  BY DEF Plain
<1> HIDE DEF args
<1>4. Valid(Record(c, e, t, args, Succeeds, TRUE))
  <2>1. Fits(e, args, Succeeds, TRUE)
    BY <1>2, <1>3, SucceedsFacts, Zenon DEF Fits
  <2> QED
    BY <2>1, RecordValid, Zenon
<1> QED
  BY <1>4 DEF args

\* The validator takes every record the program renders, whatever the clock
\* says: no line of dazai or motokano is refused by its own contract.
THEOREM RenderedIsValid ==
    ASSUME NEW c \in Component, NEW t \in Int, NEW e \in Lifecycle
    PROVE  Valid(Render(c, t, e))
<1> USE DEF CommonArgs
<1>1. CASE e \in [step : {"session_start"}, armed : BOOLEAN]
  <2>1. e.step = "session_start" /\ \A k \in {"armed"} : e[k] \in Vocabulary(k)
    BY <1>1, Words
  <2>2. Render(c, t, e) = Record(c, e, t, Fields(e, {"armed"}), Succeeds, TRUE)
    BY <2>1 DEF Render
  <2>3. Plain(e, {"armed"})
    BY <2>1, AllowedKeys DEF Plain
  <2> QED
    BY <2>2, <2>3, PlainValid, Zenon
<1>2. CASE e \in [step : {"arm"}, via : ArmVia]
  <2>1. e.step = "arm" /\ \A k \in {"via"} : e[k] \in Vocabulary(k)
    BY <1>2, Words
  <2>2. Render(c, t, e) = Record(c, e, t, Fields(e, {"via"}), Succeeds, TRUE)
    BY <2>1 DEF Render
  <2>3. Plain(e, {"via"})
    BY <2>1, AllowedKeys DEF Plain
  <2> QED
    BY <2>2, <2>3, PlainValid, Zenon
<1>3. CASE e \in [step : {"read"}, tool : Counter, kind : ReadKind, served : BOOLEAN]
  <2> DEFINE args == Fields(e, {"tool", "kind"})
             result == Fields(e, {"served"})
  <2>1. /\ e.step = "read" /\ e.served \in BOOLEAN
        /\ \A k \in {"tool", "kind"} : e[k] \in Vocabulary(k)
    BY <1>3, Words
  <2>2. Render(c, t, e) = Record(c, e, t, args, result, e.served)
    BY <2>1 DEF Render
  <2>3. /\ DOMAIN args = {"tool", "kind"}
        /\ \A k \in DOMAIN args : args[k] \in Vocabulary(k)
        /\ DOMAIN result = {"served"}
        /\ result.served = e.served
    BY <2>1, SomeFields
  <2> HIDE DEF args, result
  <2>4. \A k \in DOMAIN result : result[k] \in BOOLEAN
    BY <2>1, <2>3, Zenon
  <2>5. e.served = IF e.step = "read" THEN result.served ELSE TRUE
    BY <2>1, <2>3
  <2>6. /\ e.step \in {"session_start", "arm", "read", "wipe", "kill",
                      "session_end"}
        /\ DOMAIN args = Allowed(e.step)[1]
        /\ DOMAIN result = Allowed(e.step)[2]
        /\ DOMAIN args \cap CommonArgs = {}
        /\ "success" \notin DOMAIN result
    BY <2>1, <2>3, AllowedKeys
  <2>7. Fits(e, args, result, e.served)
    BY <2>3, <2>4, <2>5, <2>6, Zenon DEF Fits
  <2> QED
    BY <2>2, <2>7, RecordValid, Zenon
<1>4. CASE e \in [step : {"wipe"}, reason : Reason, buffers : Counter]
  <2>1. e.step = "wipe" /\ \A k \in {"reason", "buffers"} : e[k] \in Vocabulary(k)
    BY <1>4, Words
  <2>2. Render(c, t, e) = Record(c, e, t, Fields(e, {"reason", "buffers"}), Succeeds, TRUE)
    BY <2>1 DEF Render
  <2>3. Plain(e, {"reason", "buffers"})
    BY <2>1, AllowedKeys DEF Plain
  <2> QED
    BY <2>2, <2>3, PlainValid, Zenon
<1>5. CASE e \in [step : {"kill"}, reason : Reason, target : KillTarget,
                 count : Counter, executed : BOOLEAN]
  <2> DEFINE args == Fields(e, {"reason", "target", "count"})
             result == Fields(e, {"executed"})
  <2>1. /\ e.step = "kill" /\ e.executed \in BOOLEAN
        /\ \A k \in {"reason", "target", "count"} : e[k] \in Vocabulary(k)
    BY <1>5, Words
  <2>2. Render(c, t, e) = Record(c, e, t, args, result, TRUE)
    BY <2>1 DEF Render
  <2>3. /\ DOMAIN args = {"reason", "target", "count"}
        /\ \A k \in DOMAIN args : args[k] \in Vocabulary(k)
        /\ DOMAIN result = {"executed"}
        /\ result.executed = e.executed
    BY <2>1, SomeFields
  <2> HIDE DEF args, result
  <2>4. \A k \in DOMAIN result : result[k] \in BOOLEAN
    BY <2>1, <2>3, Zenon
  <2>5. TRUE = IF e.step = "read" THEN result.served ELSE TRUE
    BY <2>1, <2>3
  <2>6. /\ e.step \in {"session_start", "arm", "read", "wipe", "kill",
                      "session_end"}
        /\ DOMAIN args = Allowed(e.step)[1]
        /\ DOMAIN result = Allowed(e.step)[2]
        /\ DOMAIN args \cap CommonArgs = {}
        /\ "success" \notin DOMAIN result
    BY <2>1, <2>3, AllowedKeys
  <2>7. Fits(e, args, result, TRUE)
    BY <2>3, <2>4, <2>5, <2>6, Zenon DEF Fits
  <2> QED
    BY <2>2, <2>7, RecordValid, Zenon
<1>6. CASE e \in [step : {"session_end"}, reason : Reason]
  <2>1. e.step = "session_end" /\ \A k \in {"reason"} : e[k] \in Vocabulary(k)
    BY <1>6, Words
  <2>2. Render(c, t, e) = Record(c, e, t, Fields(e, {"reason"}), Succeeds, TRUE)
    BY <2>1 DEF Render
  <2>3. Plain(e, {"reason"})
    BY <2>1, AllowedKeys DEF Plain
  <2> QED
    BY <2>2, <2>3, PlainValid, Zenon
<1> QED
  BY <1>1, <1>2, <1>3, <1>4, <1>5, <1>6 DEF Lifecycle

-----------------------------------------------------------------------------

\* A line whose fields, args and result are functions, as JSON objects are.
IsMap(f) == f = [k \in DOMAIN f |-> f[k]]
Line(r) ==
    /\ IsMap(r)
    /\ "args" \in DOMAIN r => IsMap(r.args)
    /\ "result" \in DOMAIN r => IsMap(r.result)

\* What a valid line says besides the fields of its step.
LEMMA CommonValues ==
    ASSUME NEW r, Valid(r)
    PROVE  /\ r.args.component \in Component
           /\ r.args.contract = "lifecycle@1"
           /\ r.args.producer = "this version"
           /\ r.args.session = "hex"
           /\ r.args.observed_unix_ms \in 0 .. MaxSafe
<1>1. CommonArgs \subseteq DOMAIN r.args
  BY DEF Valid
<1>2. \A k \in CommonArgs : r.args[k] \in Vocabulary(k)
  BY <1>1 DEF Valid
<1>3. /\ Vocabulary("component") = Component
      /\ Vocabulary("contract") = {"lifecycle@1"}
      /\ Vocabulary("producer") = {"this version"}
      /\ Vocabulary("session") = {"hex"}
      /\ Vocabulary("observed_unix_ms") = 0 .. MaxSafe
  BY DEF Vocabulary
<1> QED
  BY <1>2, <1>3 DEF CommonArgs

LEMMA InRange ==
    ASSUME NEW t \in 0 .. MaxSafe
    PROVE  NowUnixMs(t) = t
  BY KirokuAssumption DEF NowUnixMs

\* A valid line is the record of any event that has its step and its fields.
LEMMA Rebuilt ==
    ASSUME NEW r, Line(r), Valid(r), NEW e, e.step = r.tool_name,
           NEW keys, keys = Allowed(r.tool_name)[1],
           \A k \in keys : e[k] = r.args[k]
    PROVE  r = Record(r.args.component, e, r.args.observed_unix_ms,
                      Fields(e, keys), r.result, r.success)
<1> DEFINE c == r.args.component
           t == r.args.observed_unix_ms
           common == [component |-> c, contract |-> "lifecycle@1",
                      producer |-> "this version", session |-> "hex",
                      observed_unix_ms |-> NowUnixMs(t)]
           args == Join(common, Fields(e, keys))
<1>0. /\ t \in 0 .. MaxSafe
      /\ r.args.contract = "lifecycle@1"
      /\ r.args.producer = "this version"
      /\ r.args.session = "hex"
  BY CommonValues, Zenon
<1>1. NowUnixMs(t) = t
  BY <1>0, InRange
<1>2. DOMAIN common = CommonArgs
  BY DEF CommonArgs
<1>3. \A k \in CommonArgs : common[k] = r.args[k]
  <2>1. /\ common.component = r.args.component
        /\ common.contract = r.args.contract
        /\ common.producer = r.args.producer
        /\ common.session = r.args.session
        /\ common.observed_unix_ms = r.args.observed_unix_ms
    BY <1>1, <1>0
  <2> HIDE DEF common
  <2> QED
    BY <2>1 DEF CommonArgs
<1> HIDE DEF common
<1>4. /\ DOMAIN r.args = CommonArgs \cup keys
      /\ IsMap(r.args)
  BY DEF Valid, Line, TopKeys
<1>5. /\ DOMAIN Fields(e, keys) = keys
      /\ \A k \in keys : Fields(e, keys)[k] = r.args[k]
  BY SomeFields
<1>6. args = [k \in CommonArgs \cup keys |->
                 IF k \in CommonArgs THEN common[k] ELSE Fields(e, keys)[k]]
  BY <1>2, <1>5 DEF Join
<1>7. args = r.args
  BY <1>3, <1>4, <1>5, <1>6 DEF IsMap
<1>8. DOMAIN r = TopKeys /\ IsMap(r)
  BY DEF Valid, Line
<1>9. r = [tool_name |-> r.tool_name, source_agent |-> r.source_agent,
           success |-> r.success, result |-> r.result, args |-> r.args]
  BY <1>8 DEF IsMap, TopKeys
<1>10. r.source_agent = SourceAgent(c)
  BY DEF Valid
<1> HIDE DEF args
<1>11. Record(c, e, t, Fields(e, keys), r.result, r.success) =
           [tool_name |-> r.tool_name, source_agent |-> SourceAgent(c),
            success |-> r.success, result |-> r.result, args |-> args]
  BY DEF Record, args, common
<1> QED
  BY <1>7, <1>9, <1>10, <1>11

LEMMA PlainResult ==
    ASSUME NEW r, Line(r), Valid(r), r.tool_name # "read",
           Allowed(r.tool_name)[2] = {"success"}
    PROVE  r.result = Succeeds /\ r.success = TRUE
<1>1. DOMAIN r.result = {"success"} /\ r.result.success /\ r.success = TRUE
  BY DEF Valid
<1>2. r.result.success \in BOOLEAN
  BY <1>1 DEF Valid
<1>3. r.result.success = TRUE
  BY <1>1, <1>2, Zenon
<1>4. IsMap(r.result)
  BY DEF Line, Valid, TopKeys
<1>5. r.result = [success |-> TRUE]
  BY <1>1, <1>3, <1>4 DEF IsMap
<1> QED
  BY <1>1, <1>5 DEF Succeeds

\* A line that the validator takes is a record the program may render.
LEMMA ValidIsRendered ==
    ASSUME NEW r, Line(r), Valid(r)
    PROVE  \E c \in Component, t \in 0 .. MaxSafe, e \in Lifecycle :
               r = Render(c, t, e)
<1> DEFINE c == r.args.component
           t == r.args.observed_unix_ms
<1>1. \A k \in Allowed(r.tool_name)[1] : r.args[k] \in Vocabulary(k)
  BY DEF Valid
<1>2. c \in Component /\ t \in 0 .. MaxSafe
  BY CommonValues
<1>3. CASE r.tool_name = "session_start"
  <2> DEFINE e == [step |-> "session_start", armed |-> r.args.armed]
  <2>1. Allowed(r.tool_name) = <<{"armed"}, {"success"}>>
    BY <1>3, AllowedKeys
  <2>2. \A k \in {"armed"} : r.args[k] \in Vocabulary(k)
    BY <2>1, <1>1
  <2>3. e \in [step : {"session_start"}, armed : BOOLEAN]
    BY <2>2, Words
  <2>4. e.step = r.tool_name /\ \A k \in {"armed"} : e[k] = r.args[k]
    BY <1>3
  <2>5. r.result = Succeeds /\ r.success = TRUE
    <3>1. r.tool_name # "read" /\ Allowed(r.tool_name)[2] = {"success"}
      BY <1>3, <2>1
    <3> QED
      BY <3>1, PlainResult, Zenon
  <2> HIDE DEF e
  <2>6. r = Record(c, e, t, Fields(e, {"armed"}), r.result, r.success)
    BY <2>1, <2>4, Rebuilt
  <2>7. Render(c, t, e) = Record(c, e, t, Fields(e, {"armed"}), Succeeds, TRUE)
    BY <1>3, <2>4 DEF Render
  <2>8. r = Render(c, t, e)
    BY <2>5, <2>6, <2>7, Zenon
  <2> QED
    BY <1>2, <2>3, <2>8 DEF Lifecycle
<1>4. CASE r.tool_name = "arm"
  <2> DEFINE e == [step |-> "arm", via |-> r.args.via]
  <2>1. Allowed(r.tool_name) = <<{"via"}, {"success"}>>
    BY <1>4, AllowedKeys
  <2>2. \A k \in {"via"} : r.args[k] \in Vocabulary(k)
    BY <2>1, <1>1
  <2>3. e \in [step : {"arm"}, via : ArmVia]
    BY <2>2, Words
  <2>4. e.step = r.tool_name /\ \A k \in {"via"} : e[k] = r.args[k]
    BY <1>4
  <2>5. r.result = Succeeds /\ r.success = TRUE
    <3>1. r.tool_name # "read" /\ Allowed(r.tool_name)[2] = {"success"}
      BY <1>4, <2>1
    <3> QED
      BY <3>1, PlainResult, Zenon
  <2> HIDE DEF e
  <2>6. r = Record(c, e, t, Fields(e, {"via"}), r.result, r.success)
    BY <2>1, <2>4, Rebuilt
  <2>7. Render(c, t, e) = Record(c, e, t, Fields(e, {"via"}), Succeeds, TRUE)
    BY <1>4, <2>4 DEF Render
  <2>8. r = Render(c, t, e)
    BY <2>5, <2>6, <2>7, Zenon
  <2> QED
    BY <1>2, <2>3, <2>8 DEF Lifecycle
<1>5. CASE r.tool_name = "read"
  <2> DEFINE e == [step |-> "read", tool |-> r.args.tool, kind |-> r.args.kind, served |-> r.result.served]
  <2>1. Allowed(r.tool_name) = <<{"tool", "kind"}, {"served"}>>
    BY <1>5, AllowedKeys
  <2>2. \A k \in {"tool", "kind"} : r.args[k] \in Vocabulary(k)
    BY <2>1, <1>1
  <2>3. /\ DOMAIN r.result = {"served"} /\ r.result.served \in BOOLEAN
        /\ IsMap(r.result)
    BY <2>1 DEF Valid, Line, TopKeys
  <2>4. e \in [step : {"read"}, tool : Counter, kind : ReadKind, served : BOOLEAN]
    BY <2>2, <2>3, Words
  <2>5. /\ e.step = r.tool_name /\ e.served = r.result.served
        /\ \A k \in {"tool", "kind"} : e[k] = r.args[k]
    BY <1>5
  <2> HIDE DEF e
  <2>6. r.result = Fields(e, {"served"})
    BY <2>3, <2>5 DEF IsMap, Fields
  <2>7. r.success = e.served
    BY <1>5, <2>5 DEF Valid
  <2>8. r = Record(c, e, t, Fields(e, {"tool", "kind"}), r.result, r.success)
    BY <2>1, <2>5, Rebuilt
  <2>9. Render(c, t, e) = Record(c, e, t, Fields(e, {"tool", "kind"}),
                                 Fields(e, {"served"}), e.served)
    BY <1>5, <2>5 DEF Render
  <2>10. r = Render(c, t, e)
    BY <2>6, <2>7, <2>8, <2>9, Zenon
  <2> QED
    BY <1>2, <2>4, <2>10 DEF Lifecycle
<1>6. CASE r.tool_name = "wipe"
  <2> DEFINE e == [step |-> "wipe", reason |-> r.args.reason, buffers |-> r.args.buffers]
  <2>1. Allowed(r.tool_name) = <<{"reason", "buffers"}, {"success"}>>
    BY <1>6, AllowedKeys
  <2>2. \A k \in {"reason", "buffers"} : r.args[k] \in Vocabulary(k)
    BY <2>1, <1>1
  <2>3. e \in [step : {"wipe"}, reason : Reason, buffers : Counter]
    BY <2>2, Words
  <2>4. e.step = r.tool_name /\ \A k \in {"reason", "buffers"} : e[k] = r.args[k]
    BY <1>6
  <2>5. r.result = Succeeds /\ r.success = TRUE
    <3>1. r.tool_name # "read" /\ Allowed(r.tool_name)[2] = {"success"}
      BY <1>6, <2>1
    <3> QED
      BY <3>1, PlainResult, Zenon
  <2> HIDE DEF e
  <2>6. r = Record(c, e, t, Fields(e, {"reason", "buffers"}), r.result, r.success)
    BY <2>1, <2>4, Rebuilt
  <2>7. Render(c, t, e) = Record(c, e, t, Fields(e, {"reason", "buffers"}), Succeeds, TRUE)
    BY <1>6, <2>4 DEF Render
  <2>8. r = Render(c, t, e)
    BY <2>5, <2>6, <2>7, Zenon
  <2> QED
    BY <1>2, <2>3, <2>8 DEF Lifecycle
<1>7. CASE r.tool_name = "kill"
  <2> DEFINE e == [step |-> "kill", reason |-> r.args.reason, target |-> r.args.target, count |-> r.args.count, executed |-> r.result.executed]
  <2>1. Allowed(r.tool_name) = <<{"reason", "target", "count"}, {"executed"}>>
    BY <1>7, AllowedKeys
  <2>2. \A k \in {"reason", "target", "count"} : r.args[k] \in Vocabulary(k)
    BY <2>1, <1>1
  <2>3. /\ DOMAIN r.result = {"executed"} /\ r.result.executed \in BOOLEAN
        /\ IsMap(r.result)
    BY <2>1 DEF Valid, Line, TopKeys
  <2>4. e \in [step : {"kill"}, reason : Reason, target : KillTarget,
             count : Counter, executed : BOOLEAN]
    BY <2>2, <2>3, Words
  <2>5. /\ e.step = r.tool_name /\ e.executed = r.result.executed
        /\ \A k \in {"reason", "target", "count"} : e[k] = r.args[k]
    BY <1>7
  <2> HIDE DEF e
  <2>6. r.result = Fields(e, {"executed"})
    BY <2>3, <2>5 DEF IsMap, Fields
  <2>7. r.success = TRUE
    BY <1>7, <2>5 DEF Valid
  <2>8. r = Record(c, e, t, Fields(e, {"reason", "target", "count"}), r.result, r.success)
    BY <2>1, <2>5, Rebuilt
  <2>9. Render(c, t, e) = Record(c, e, t, Fields(e, {"reason", "target", "count"}),
                                 Fields(e, {"executed"}), TRUE)
    BY <1>7, <2>5 DEF Render
  <2>10. r = Render(c, t, e)
    BY <2>6, <2>7, <2>8, <2>9, Zenon
  <2> QED
    BY <1>2, <2>4, <2>10 DEF Lifecycle
<1>8. CASE r.tool_name = "session_end"
  <2> DEFINE e == [step |-> "session_end", reason |-> r.args.reason]
  <2>1. Allowed(r.tool_name) = <<{"reason"}, {"success"}>>
    BY <1>8, AllowedKeys
  <2>2. \A k \in {"reason"} : r.args[k] \in Vocabulary(k)
    BY <2>1, <1>1
  <2>3. e \in [step : {"session_end"}, reason : Reason]
    BY <2>2, Words
  <2>4. e.step = r.tool_name /\ \A k \in {"reason"} : e[k] = r.args[k]
    BY <1>8
  <2>5. r.result = Succeeds /\ r.success = TRUE
    <3>1. r.tool_name # "read" /\ Allowed(r.tool_name)[2] = {"success"}
      BY <1>8, <2>1
    <3> QED
      BY <3>1, PlainResult, Zenon
  <2> HIDE DEF e
  <2>6. r = Record(c, e, t, Fields(e, {"reason"}), r.result, r.success)
    BY <2>1, <2>4, Rebuilt
  <2>7. Render(c, t, e) = Record(c, e, t, Fields(e, {"reason"}), Succeeds, TRUE)
    BY <1>8, <2>4 DEF Render
  <2>8. r = Render(c, t, e)
    BY <2>5, <2>6, <2>7, Zenon
  <2> QED
    BY <1>2, <2>3, <2>8 DEF Lifecycle
<1> QED
  BY <1>3, <1>4, <1>5, <1>6, <1>7, <1>8 DEF Valid

-----------------------------------------------------------------------------

\* Joining, leaving out and picking fields makes functions again.
LEMMA Maps ==
    /\ \A f, g : IsMap(Join(f, g))
    /\ \A f, k : IsMap(Without(f, k))
    /\ \A f, k, v : IsMap(With(f, k, v))
    /\ \A f, keys : IsMap(Fields(f, keys))
  BY DEF IsMap, Join, Fields, With, Without

LEMMA RenderLine ==
    ASSUME NEW c \in Component, NEW t \in Int, NEW e \in Lifecycle
    PROVE  LET r == Render(c, t, e)
           IN  Line(r) /\ DOMAIN r = TopKeys
<1> DEFINE r == Render(c, t, e)
<1>1. Valid(r)
  BY RenderedIsValid
<1>2. e.step \in {"session_start", "arm", "read", "wipe", "kill",
                  "session_end"}
  BY DEF Lifecycle
<1>3. IsMap(Succeeds)
  BY DEF IsMap, Succeeds
<1>4. \E args, result, success :
          IsMap(result) /\ r = Record(c, e, t, args, result, success)
  BY <1>2, <1>3, Maps DEF Render
<1> HIDE DEF r
<1>5. PICK args, result, success :
          IsMap(result) /\ r = Record(c, e, t, args, result, success)
  BY <1>4
<1>6. IsMap(r) /\ IsMap(r.args) /\ IsMap(r.result) /\ DOMAIN r = TopKeys
  BY <1>5, Maps DEF Record, IsMap, TopKeys
<1> QED
  BY <1>6 DEF Line, r

LEMMA ExceptLine ==
    ASSUME NEW s, IsMap(s), IsMap(s.args), IsMap(s.result),
           DOMAIN s = TopKeys, NEW k \in TopKeys, NEW v,
           k \in {"args", "result"} => IsMap(v)
    PROVE  Line([s EXCEPT ![k] = v])
<1> DEFINE r == [s EXCEPT ![k] = v]
<1>1. /\ DOMAIN r = TopKeys /\ IsMap(r)
      /\ \A x \in TopKeys : r[x] = IF x = k THEN v ELSE s[x]
  BY DEF IsMap
<1> HIDE DEF r
<1>2. IsMap(r.args) /\ IsMap(r.result)
  BY <1>1 DEF TopKeys
<1>3. Line(r)
  BY <1>1, <1>2 DEF Line
<1> QED
  BY <1>3 DEF r

\* An edit of a line is a line.
LEMMA EditsAreLines ==
    ASSUME NEW s, Line(s), DOMAIN s = TopKeys, NEW r \in Edits(s)
    PROVE  Line(r)
<1>1. IsMap(s) /\ IsMap(s.args) /\ IsMap(s.result)
  BY DEF Line, TopKeys
<1>2. CASE r = s
  BY <1>2
<1>3. CASE r = With(s, "seq_id", 0)
  <2>1. /\ IsMap(r) /\ DOMAIN r = TopKeys \cup {"seq_id"}
        /\ r.args = s.args /\ r.result = s.result
    BY <1>3, Maps DEF With, Join, TopKeys
  <2> QED
    BY <1>1, <2>1 DEF Line
<1>4. ASSUME NEW k \in {"tool_name", "source_agent", "success"}, NEW v,
             r = [s EXCEPT ![k] = v]
      PROVE  Line(r)
  <2>1. k \in TopKeys /\ k \notin {"args", "result"}
    BY <1>4 DEF TopKeys
  <2> QED
    BY <1>1, <1>4, <2>1, ExceptLine
<1>5. CASE \E k \in DOMAIN s : r = Without(s, k)
  <2>1. PICK k \in DOMAIN s : r = Without(s, k)
    BY <1>5
  <2>2. /\ IsMap(r) /\ DOMAIN r = TopKeys \ {k}
        /\ \A x \in DOMAIN r : r[x] = s[x]
    BY <2>1, Maps DEF Without, Fields
  <2> QED
    BY <1>1, <2>2 DEF Line
<1>6. ASSUME NEW k \in {"args", "result"}, NEW v, IsMap(v),
             r = [s EXCEPT ![k] = v]
      PROVE  Line(r)
  <2>1. k \in TopKeys
    BY <1>6 DEF TopKeys
  <2> QED
    BY <1>1, <1>6, <2>1, ExceptLine
<1>7. CASE r = [s EXCEPT !.success = ~@]
  BY <1>4, <1>7
<1>8. CASE \E e \in Told : r = [s EXCEPT !.tool_name = e.step]
  BY <1>4, <1>8
<1>9. CASE \E d \in Component : r = [s EXCEPT !.source_agent = SourceAgent(d)]
  BY <1>4, <1>9
<1>10. CASE \E k \in DOMAIN s.args : r = [s EXCEPT !.args = Without(@, k)]
  BY <1>6, <1>10, Maps
<1>11. CASE \E k \in Keys : \E v \in Values(k) :
                r = [s EXCEPT !.args = With(@, k, v)]
  BY <1>6, <1>11, Maps
<1>12. CASE \E k \in {"success", "served", "executed"}, b \in BOOLEAN :
                r = [s EXCEPT !.result = With(@, k, b)]
  BY <1>6, <1>12, Maps
<1> DEFINE plain == {s, With(s, "seq_id", 0), [s EXCEPT !.success = ~@]}
           names == {[s EXCEPT !.tool_name = e.step] : e \in Told}
           agents == {[s EXCEPT !.source_agent = SourceAgent(d)] :
                         d \in Component}
           less == {Without(s, k) : k \in DOMAIN s}
           fewer == {[s EXCEPT !.args = Without(@, k)] : k \in DOMAIN s.args}
           results == {[s EXCEPT !.result = With(@, k, b)] :
                         k \in {"success", "served", "executed"}, b \in BOOLEAN}
           other == UNION {{[s EXCEPT !.args = With(@, k, v)] : v \in Values(k)}
                             : k \in Keys}
<1>13. r \in plain \cup names \cup agents \cup less \cup fewer \cup results
              \cup other
  BY DEF Edits
<1>14. CASE r \in other
  BY <1>11, <1>14, Zenon
<1>15. CASE r \in results
  BY <1>12, <1>15
<1>16. CASE r \in plain
  BY <1>2, <1>3, <1>7, <1>16, Zenon
<1>17. CASE r \in names
  BY <1>8, <1>17, Zenon
<1>18. CASE r \in agents
  BY <1>9, <1>18, Zenon
<1>19. CASE r \in less
  BY <1>5, <1>19, Zenon
<1>20. CASE r \in fewer
  BY <1>10, <1>20, Zenon
<1> HIDE DEF plain, names, agents, less, fewer, other, results
<1> QED
  BY <1>13, <1>14, <1>15, <1>16, <1>17, <1>18, <1>19, <1>20

-----------------------------------------------------------------------------

OfferInv ==
    \/ offered.line = NoLine
    \/ Line(offered.line) /\ (offered.accepted <=> Valid(offered.line))

LEMMA OfferSteps == OfferInv /\ [Next]_vars => OfferInv'
<1> SUFFICES ASSUME OfferInv, [Next]_vars PROVE OfferInv'
  OBVIOUS
<1>1. CASE UNCHANGED offered
  BY <1>1 DEF OfferInv
<1>2. CASE Ingest
  <2>0. PICK e \in Told, t \in Now, c \in Component :
                 \E r \in Edits(Render(c, t, e)) :
                     offered' = [line |-> r, accepted |-> Valid(r)]
    BY <1>2, Zenon DEF Ingest
  <2>1. PICK r \in Edits(Render(c, t, e)) :
                 offered' = [line |-> r, accepted |-> Valid(r)]
    BY <2>0
  <2>2. e \in Lifecycle /\ t \in Int
    BY KirokuAssumption DEF Told
  <2>3. Line(r)
    BY <2>2, RenderLine, EditsAreLines
  <2>4. offered'.line = r /\ offered'.accepted = Valid(r)
    BY <2>1, Zenon
  <2> QED
    BY <2>3, <2>4, Zenon DEF OfferInv
<1>3. Next \/ UNCHANGED vars => UNCHANGED offered \/ Ingest
  BY DEF Next, vars, Open, Read, DiskChanges, ReaderChanges, Emit, Write,
         sinkVars, callVars
<1> QED
  BY <1>1, <1>2, <1>3

\* The validator takes a line exactly if it is a record the program may
\* render: Record::validate and Event::render agree on the whole contract,
\* for any bounds of the counters and any clock.
THEOREM ContractAlwaysExact == Spec => []ContractExact
<1>1. Init => OfferInv
  BY DEF Init, OfferInv
<1>2. OfferInv => ContractExact
  <2> SUFFICES ASSUME OfferInv, offered.line # NoLine
               PROVE  offered.accepted <=>
                        \E c \in Component, t \in Now \cup 0 .. MaxSafe,
                           e \in Lifecycle : offered.line = Render(c, t, e)
    BY Zenon DEF ContractExact
  <2>1. Line(offered.line) /\ (offered.accepted <=> Valid(offered.line))
    BY Zenon DEF OfferInv
  <2>2. ASSUME Valid(offered.line)
        PROVE  \E c \in Component, t \in Now \cup 0 .. MaxSafe,
                  e \in Lifecycle : offered.line = Render(c, t, e)
    BY <2>1, <2>2, ValidIsRendered
  <2>3. ASSUME NEW c \in Component, NEW t \in Now \cup 0 .. MaxSafe,
               NEW e \in Lifecycle, offered.line = Render(c, t, e)
        PROVE  Valid(offered.line)
    <3>1. t \in Int
      BY KirokuAssumption
    <3> QED
      BY <2>3, <3>1, RenderedIsValid
  <2> QED
    BY <2>1, <2>2, <2>3, Zenon
<1> QED
  BY <1>1, <1>2, OfferSteps, PTL DEF Spec

=============================================================================
