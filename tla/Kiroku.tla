------------------------------- MODULE Kiroku -------------------------------
(***************************************************************************)
(* kiroku (rs/crates/kiroku/src): the lifecycle sink that several threads  *)
(* of one process write to without ever waiting, and the contract by which *)
(* an ingester takes or refuses what it reads there.                       *)
(*                                                                         *)
(* A record is what its JSON line says; in the sink it is Parts bytes, the *)
(* last of them the line's end.  Numbers are compared with their bounds    *)
(* only, which are small here.                                             *)
(***************************************************************************)
EXTENDS Integers, Sequences, FiniteSets

CONSTANTS
    Call,       \* calls of emit, on whatever threads
    Kind,       \* what --korg-sink may name: "fifo", "file", "none"
    Reasons,    \* reasons tried, of the vocabulary
    Now,        \* what the clock may say, in milliseconds since 1970
    Parts,      \* bytes of a record, MAX_RECORD_BYTES at most
    PipeBuf,    \* a write to a pipe of so many bytes at most is atomic
    Capacity,   \* bytes for which the pipe or the disk has room
    U32Max,     \* the largest counter
    MaxSafe     \* the largest integer Korg takes

ASSUME KirokuAssumption ==
    /\ IsFiniteSet(Call)
    /\ Kind \subseteq {"fifo", "file", "none"}
    /\ Now \subseteq Int
    /\ {Parts, PipeBuf, Capacity, U32Max, MaxSafe} \subseteq Nat
    /\ 2 <= Parts /\ Parts <= PipeBuf

-----------------------------------------------------------------------------
(* What may be told.                                                       *)

Component == {"dazai", "motokano"}
SourceAgent(c) == IF c = "dazai" THEN "mcp:dazai" ELSE "mcp:motokano"
ArmVia == {"startup", "control"}
Reason ==
    {"heartbeat_lost", "ping_timeout", "panic_signal", "hard_panic_signal",
     "shutdown", "client_quit", "calls_exhausted", "client_disconnect",
     "daemon_lost"}
KillTarget == {"registered", "self"}
ReadKind == {"static", "exec"}
Counter == 0 .. U32Max

Lifecycle ==
    [step : {"session_start"}, armed : BOOLEAN]
    \cup [step : {"arm"}, via : ArmVia]
    \cup [step : {"read"}, tool : Counter, kind : ReadKind, served : BOOLEAN]
    \cup [step : {"wipe"}, reason : Reason, buffers : Counter]
    \cup [step : {"kill"}, reason : Reason, target : KillTarget,
          count : Counter, executed : BOOLEAN]
    \cup [step : {"session_end"}, reason : Reason]

\* Those tried.
Told == {e \in Lifecycle : "reason" \in DOMAIN e => e.reason \in Reasons}

\* Bug: whatever the clock says.
NowUnclamped(t) == t

NowUnixMs(t) == IF t < 0 THEN 0 ELSE IF t > MaxSafe THEN MaxSafe ELSE t

Fields(e, keys) == [k \in keys |-> e[k]]

Join(f, g) ==
    [k \in DOMAIN f \cup DOMAIN g |-> IF k \in DOMAIN f THEN f[k] ELSE g[k]]

Record(c, e, t, args, result, success) ==
    [tool_name |-> e.step, source_agent |-> SourceAgent(c),
     success |-> success, result |-> result,
     args |-> Join([component |-> c, contract |-> "lifecycle@1",
                    producer |-> "this version", session |-> "hex",
                    observed_unix_ms |-> NowUnixMs(t)], args)]

Succeeds == [success |-> TRUE]

Render(c, t, e) ==
    CASE e.step = "session_start" ->
            Record(c, e, t, Fields(e, {"armed"}), Succeeds, TRUE)
      [] e.step = "arm" ->
            Record(c, e, t, Fields(e, {"via"}), Succeeds, TRUE)
      [] e.step = "read" ->
            Record(c, e, t, Fields(e, {"tool", "kind"}),
                   Fields(e, {"served"}), e.served)
      [] e.step = "wipe" ->
            Record(c, e, t, Fields(e, {"reason", "buffers"}), Succeeds, TRUE)
      [] e.step = "kill" ->
            Record(c, e, t, Fields(e, {"reason", "target", "count"}),
                   Fields(e, {"executed"}), TRUE)
      [] e.step = "session_end" ->
            Record(c, e, t, Fields(e, {"reason"}), Succeeds, TRUE)

-----------------------------------------------------------------------------
(* The contract: every key is on the list for its step, every value in the *)
(* vocabulary or in its range.                                             *)

\* Left out are three keys that every record has with the same value:
\* duration_ms, event_type and payload_refs.
TopKeys == {"args", "result", "source_agent", "success", "tool_name"}
CommonArgs ==
    {"component", "contract", "observed_unix_ms", "producer", "session"}

\* The keys of args and of result that each step has.
Allowed(step) ==
    CASE step = "session_start" -> <<{"armed"}, {"success"}>>
      [] step = "arm" -> <<{"via"}, {"success"}>>
      [] step = "read" -> <<{"tool", "kind"}, {"served"}>>
      [] step = "wipe" -> <<{"reason", "buffers"}, {"success"}>>
      [] step = "kill" -> <<{"reason", "target", "count"}, {"executed"}>>
      [] step = "session_end" -> <<{"reason"}, {"success"}>>

Vocabulary(key) ==
    CASE key = "component" -> Component
      [] key = "contract" -> {"lifecycle@1"}
      [] key = "producer" -> {"this version"}
      [] key = "session" -> {"hex"}
      [] key = "observed_unix_ms" -> 0 .. MaxSafe
      [] key = "armed" -> BOOLEAN
      [] key = "via" -> ArmVia
      [] key = "kind" -> ReadKind
      [] key = "target" -> KillTarget
      [] key = "reason" -> Reason
      [] key \in {"tool", "buffers", "count"} -> Counter

Valid(r) ==
    /\ DOMAIN r = TopKeys
    /\ r.tool_name \in {"session_start", "arm", "read", "wipe", "kill",
                        "session_end"}
    /\ DOMAIN r.args = CommonArgs \cup Allowed(r.tool_name)[1]
    /\ DOMAIN r.result = Allowed(r.tool_name)[2]
    /\ \A k \in DOMAIN r.args : r.args[k] \in Vocabulary(k)
    /\ \A k \in DOMAIN r.result : r.result[k] \in BOOLEAN
    /\ r.source_agent = SourceAgent(r.args.component)
    /\ r.success = IF r.tool_name = "read" THEN r.result.served ELSE TRUE
    /\ "success" \in DOMAIN r.result => r.result.success

-----------------------------------------------------------------------------
(* The sink.                                                               *)

VARIABLES
    kind,       \* what the path names
    reader,     \* somebody reads from the fifo
    sink,       \* "closed", "open" or "failed"
    free,       \* bytes the pipe or the disk has room for
    stream,     \* the bytes appended so far: <<whose record, which byte>>
    read,       \* how many of them the reader has taken
    phase,      \* each call of emit: "idle", "writing", "done"
    rest,       \* bytes it has still to write
    dropped,    \* records that could not be written
    offered     \* a line of unknown origin, and whether it is accepted

callVars == <<phase, rest, dropped>>
sinkVars == <<kind, reader, sink, free, stream, read>>
vars == <<sinkVars, callVars, offered>>

NoLine == [tool_name |-> "none"]

Init ==
    /\ kind \in Kind
    /\ reader \in IF kind = "fifo" THEN BOOLEAN ELSE {FALSE}
    /\ sink = "closed"
    /\ free = Capacity
    /\ stream = <<>>
    /\ read = 0
    /\ phase = [c \in Call |-> "idle"]
    /\ rest = [c \in Call |-> 0]
    /\ dropped = 0
    /\ offered = [line |-> NoLine, accepted |-> FALSE]

\* A fifo without a reader is refused at once, and the random number for the
\* session may not be had.
Open ==
    /\ sink = "closed"
    /\ kind # "none"
    /\ sink' \in IF kind = "fifo" /\ ~reader THEN {"failed"}
                                            ELSE {"open", "failed"}
    /\ UNCHANGED <<kind, reader, free, stream, read, callVars, offered>>

\* Whatever it tells, the record is rendered before any of it is written.
Emit(c) ==
    /\ sink = "open"
    /\ phase[c] = "idle"
    /\ phase' = [phase EXCEPT ![c] = "writing"]
    /\ rest' = [rest EXCEPT ![c] = Parts]
    /\ UNCHANGED <<sinkVars, dropped, offered>>

Broken == kind = "fifo" /\ ~reader

\* What write(2) without waiting may take of n bytes; nothing is an error.
Taken(n) ==
    CASE Broken -> 0
      [] ~Broken /\ free >= n -> n
      [] ~Broken /\ free < n ->
            IF kind = "fifo" /\ n <= PipeBuf THEN 0 ELSE free

PutBytes(c, n) ==
    /\ stream' = stream \o [i \in 1 .. n |-> <<c, Parts - rest[c] + i>>]
    /\ free' = free - n
    /\ rest' = [rest EXCEPT ![c] = @ - n]
    /\ phase' = [phase EXCEPT ![c] = IF rest[c] = n THEN "done" ELSE @]

\* Bug: the descriptor is a waiting one.
WriteWaiting(c) ==
    /\ phase[c] = "writing"
    /\ Taken(rest[c]) > 0
    /\ PutBytes(c, Taken(rest[c]))
    /\ UNCHANGED <<kind, reader, sink, read, dropped, offered>>

\* Bug: what is written goes out piece by piece.
WriteByPiece(c) ==
    /\ phase[c] = "writing"
    /\ IF Taken(1) = 0
       THEN /\ phase' = [phase EXCEPT ![c] = "done"]
            /\ dropped' = dropped + 1
            /\ UNCHANGED <<free, stream, rest>>
       ELSE PutBytes(c, 1) /\ UNCHANGED dropped
    /\ UNCHANGED <<kind, reader, sink, read, offered>>

\* Bug: what is counted is bytes, not records.
WriteCountsBytes(c) ==
    /\ phase[c] = "writing"
    /\ IF Taken(rest[c]) = 0
       THEN /\ phase' = [phase EXCEPT ![c] = "done"]
            /\ dropped' = dropped + rest[c]
            /\ UNCHANGED <<free, stream, rest>>
       ELSE PutBytes(c, Taken(rest[c])) /\ UNCHANGED dropped
    /\ UNCHANGED <<kind, reader, sink, read, offered>>

\* One round of write_all.
Write(c) ==
    /\ phase[c] = "writing"
    /\ IF Taken(rest[c]) = 0
       THEN /\ phase' = [phase EXCEPT ![c] = "done"]
            /\ dropped' = dropped + 1
            /\ UNCHANGED <<free, stream, rest>>
       ELSE PutBytes(c, Taken(rest[c])) /\ UNCHANGED dropped
    /\ UNCHANGED <<kind, reader, sink, read, offered>>

\* Reading makes room in a pipe; room on a disk comes and goes.
Read ==
    /\ kind = "fifo" /\ reader
    /\ read < Len(stream)
    /\ read' \in read + 1 .. Len(stream)
    /\ free' = free + (read' - read)
    /\ UNCHANGED <<kind, reader, sink, stream, callVars, offered>>

DiskChanges ==
    /\ kind = "file"
    /\ free' \in 0 .. Capacity
    /\ UNCHANGED <<kind, reader, sink, stream, read, callVars, offered>>

ReaderChanges ==
    /\ kind = "fifo"
    /\ reader' = ~reader
    /\ UNCHANGED <<kind, sink, free, stream, read, callVars, offered>>

-----------------------------------------------------------------------------
(* Lines that somebody else offers to the ingester: a record of this       *)
(* program, or one that differs from it in a single place.                 *)

Values(key) ==
    CASE key = "armed" -> BOOLEAN
      [] key = "observed_unix_ms" -> {MaxSafe, MaxSafe + 1}
      [] key \in {"tool", "buffers", "count"} -> {0, U32Max, U32Max + 1}
      [] key = "seq_id" -> {0}
      [] OTHER -> {"free text"} \cup Vocabulary(key)

Keys == CommonArgs \cup {"armed", "via", "tool", "kind", "reason", "buffers",
                         "target", "count", "seq_id"}

With(f, k, v) == Join([x \in {k} |-> v], f)
Without(f, k) == Fields(f, DOMAIN f \ {k})

Edits(r) ==
    {r, With(r, "seq_id", 0), [r EXCEPT !.success = ~@]}
    \cup {[r EXCEPT !.tool_name = e.step] : e \in Told}
    \cup {[r EXCEPT !.source_agent = SourceAgent(c)] : c \in Component}
    \cup {Without(r, k) : k \in DOMAIN r}
    \cup {[r EXCEPT !.args = Without(@, k)] : k \in DOMAIN r.args}
    \cup {[r EXCEPT !.result = With(@, k, b)] :
            k \in {"success", "served", "executed"}, b \in BOOLEAN}
    \cup (UNION {{[r EXCEPT !.args = With(@, k, v)] : v \in Values(k)}
                   : k \in Keys})

\* The ingester knows nothing of the sink (bound: it is asked once, by a run
\* of its own).
Ingest ==
    /\ kind = "none"
    /\ offered.line = NoLine
    /\ \E e \in Told, t \in Now, c \in Component :
        \E r \in Edits(Render(c, t, e)) :
            offered' = [line |-> r, accepted |-> Valid(r)]
    /\ UNCHANGED <<sinkVars, callVars>>

Next ==
    \/ Open \/ Read \/ DiskChanges \/ ReaderChanges \/ Ingest
    \/ \E c \in Call : Emit(c) \/ Write(c)

\* Of the threads only; the reader may never read.
Spec == Init /\ [][Next]_vars /\ \A c \in Call : WF_vars(Write(c))

-----------------------------------------------------------------------------
TypeOK ==
    /\ kind \in Kind
    /\ reader \in BOOLEAN
    /\ sink \in {"closed", "open", "failed"}
    /\ free \in 0 .. Capacity
    /\ stream \in Seq(Call \X (1 .. Parts))
    /\ read \in 0 .. Len(stream)
    /\ phase \in [Call -> {"idle", "writing", "done"}]
    /\ rest \in [Call -> 0 .. Parts]
    /\ dropped \in 0 .. Cardinality(Call)

\* Each byte of a record is followed by the next one of the same record.
WholeRecords(s) ==
    \A i \in DOMAIN s :
        LET c == s[i][1]
            n == s[i][2]
        IN
        /\ n > 1 => i > 1 /\ s[i - 1] = <<c, n - 1>>
        /\ n < Parts => i < Len(s) /\ s[i + 1] = <<c, n + 1>>

\* A pipe holds whole records only, whatever room its reader leaves and
\* however many threads write: one is delivered whole or dropped.
NeverTorn == kind = "fifo" => WholeRecords(stream)

Complete(c) ==
    Cardinality({i \in DOMAIN stream : stream[i][1] = c}) = Parts

\* Every record that was to be written is in the sink with all its bytes or
\* is counted, also when the disk fills up in the middle of it.
Accounted ==
    dropped = Cardinality({c \in Call : phase[c] = "done" /\ ~Complete(c)})

\* The validator takes every record the program renders, and of the lines
\* near to one, it takes no line that the program could not have rendered.
ContractExact ==
    offered.line # NoLine =>
        (offered.accepted <=>
            \E c \in Component, t \in Now \cup 0 .. MaxSafe, e \in Lifecycle :
                offered.line = Render(c, t, e))

\* The kill path does not depend on the reader: emit returns, though nobody
\* ever reads the pipe and however full the disk is.
NeverWaits == \A c \in Call : phase[c] = "writing" ~> phase[c] = "done"

=============================================================================
