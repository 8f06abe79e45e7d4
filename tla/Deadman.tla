------------------------------- MODULE Deadman -------------------------------
(***************************************************************************)
(* The Python daemon (deadman.py) with its buffers (secmem.py): one thread *)
(* around select, and signal handlers that run between any two of its      *)
(* steps.  SIGUSR1, SIGTERM and SIGINT write a code into a pipe that the   *)
(* loop reads; SIGUSR2 wipes and ends the process inside the handler.      *)
(***************************************************************************)
EXTENDS Naturals, Sequences, FiniteSets

CONSTANTS
    Client,     \* connections
    None,       \* no client
    MaxPipe,    \* bound: no signal is sent while the pipe holds so many codes
    MaxLines    \* bound: no line is sent while so many verbs are unread

ASSUME NoneAssumption == None \notin Client

VARIABLES
    mode,       \* "dry"; with --arm "grace", or "now" when --grace is zero
    pc,         \* the main thread, in the body of its loop or around it
    cur,        \* local of the start-up and of _cleanup: the buffer at hand
    ready,      \* local of _loop: the sockets select has found readable
    batch,      \* local of _drain_pipe: the codes read and not yet acted on
    stop,       \* _stop
    fired,      \* the controller's guard
    deadline,   \* its deadline: "none", "pending", "expired"
    client,     \* the heartbeat connection
    late,       \* the ping deadline of the client has passed
    conn,       \* the daemon's end of each connection
    open,       \* the peers that have not closed their end
    inbox,      \* the verbs a peer has sent and the daemon has not read
    backlog,    \* connections made and not accepted, oldest first
    arrival,    \* history: whom a connection found when it was made; forgotten
                \* when it becomes the heartbeat
    pipe,       \* the self-pipe
    buf,        \* the secure buffers
    fault,      \* a wipe has touched memory that is not mapped
    life        \* how the process ended, or "running"

policy == <<stop, fired, deadline>>
peers == <<conn, open, inbox, backlog, arrival>>
memory == <<buf, fault>>
vars == <<mode, pc, cur, ready, batch, policy, client, late, peers, pipe,
          memory, life>>

Verb == {"PING", "CANCEL", "QUIT"}
Socket == {"client", "server"}

\* The buffers in the order they are made and freed.
Buffers == <<"key", "work">>
Buffer == {"key", "work"}

Running == life = "running"
Goto(label) == pc' = label

-----------------------------------------------------------------------------
(* secmem.                                                                 *)

\* A buffer is in LIVE_BUFFERS (live) from its construction to the third step
\* of free.
NoBuffer == [live |-> FALSE, closed |-> FALSE, mapped |-> FALSE,
             content |-> "zero"]
Fresh == [NoBuffer EXCEPT !.live = TRUE, !.mapped = TRUE]

\* zeroize does nothing to a closed buffer.
Zeroize(b) == IF b.closed THEN b ELSE [b EXCEPT !.content = "zero"]

\* zeroize_all visits the live buffers; writing to one that is neither closed
\* nor mapped faults.
ZeroizeAll ==
    /\ buf' = [b \in Buffer |-> IF buf[b].live THEN Zeroize(buf[b])
                                              ELSE buf[b]]
    /\ fault' = (fault \/ \E b \in Buffer : /\ buf[b].live
                                           /\ ~buf[b].closed
                                           /\ ~buf[b].mapped)

-----------------------------------------------------------------------------

\* The handlers are installed; nothing has been allocated.
Init ==
    /\ mode \in {"dry", "grace", "now"}
    /\ pc = "allocate"
    /\ cur = 1
    /\ ready = {}
    /\ batch = <<>>
    /\ stop = FALSE
    /\ fired = FALSE
    /\ deadline = "none"
    /\ client = None
    /\ late = FALSE
    /\ conn = [c \in Client |-> "new"]
    /\ open = {}
    /\ inbox = [c \in Client |-> {}]
    /\ backlog = <<>>
    /\ arrival = [c \in Client |-> "none"]
    /\ pipe = <<>>
    /\ buf = [b \in Buffer |-> NoBuffer]
    /\ fault = FALSE
    /\ life = "running"

-----------------------------------------------------------------------------
(* Start-up.                                                                *)

Allocate ==
    /\ Running
    /\ pc = "allocate"
    /\ buf' = [buf EXCEPT ![Buffers[cur]] = Fresh]
    /\ Goto("fill")
    /\ UNCHANGED <<mode, cur, ready, batch, policy, client, late, peers, pipe,
                   fault, life>>

Fill ==
    /\ Running
    /\ pc = "fill"
    /\ buf' = [buf EXCEPT ![Buffers[cur]].content = "secret"]
    /\ cur' = IF cur < Len(Buffers) THEN cur + 1 ELSE 1
    /\ Goto(IF cur < Len(Buffers) THEN "allocate" ELSE "listen")
    /\ UNCHANGED <<mode, ready, batch, policy, client, late, peers, pipe,
                   fault, life>>

Listen ==
    /\ Running
    /\ pc = "listen"
    /\ Goto("select")
    /\ UNCHANGED <<mode, cur, ready, batch, policy, client, late, peers, pipe,
                   memory, life>>

\* Mapping, filling or binding raises: on to the finally clause.
SetupFails ==
    /\ Running
    /\ pc \in {"allocate", "fill", "listen"}
    /\ cur' = 1
    /\ Goto("free")
    /\ UNCHANGED <<mode, ready, batch, policy, client, late, peers, pipe,
                   memory, life>>

-----------------------------------------------------------------------------
(* PanicController.                                                         *)

Execute ==
    /\ fired' = TRUE
    /\ deadline' = "none"
    /\ ZeroizeAll
    /\ Goto("kill")
    /\ UNCHANGED stop

DryRun(next) ==
    /\ ZeroizeAll
    /\ fired' = TRUE
    /\ stop' = TRUE
    /\ Goto(next)
    /\ UNCHANGED deadline

\* Bug: the window is not opened.
OpenNoWindow(next) ==
    /\ Goto(next)
    /\ UNCHANGED <<policy, memory>>

OpenWindow(next) ==
    /\ deadline' = "pending"
    /\ Goto(next)
    /\ UNCHANGED <<stop, fired, memory>>

\* Bug: a request opens the window whether the daemon is armed or not.
RequestUnarmed(next) ==
    \/ fired /\ Goto(next) /\ UNCHANGED <<policy, memory>>
    \/ ~fired /\ mode \in {"dry", "grace"} /\ OpenWindow(next)
    \/ ~fired /\ mode = "now" /\ Execute

Request(next) ==
    \/ fired /\ Goto(next) /\ UNCHANGED <<policy, memory>>
    \/ ~fired /\ mode = "dry" /\ DryRun(next)
    \/ ~fired /\ mode = "grace" /\ OpenWindow(next)
    \/ ~fired /\ mode = "now" /\ Execute

-----------------------------------------------------------------------------
(* One iteration of _loop: select, pipe, client, server, deadlines.         *)

LeaveLoop ==
    /\ Running
    /\ pc = "select"
    /\ stop
    /\ cur' = 1
    /\ Goto("free")
    /\ UNCHANGED <<mode, ready, batch, policy, client, late, peers, pipe,
                   memory, life>>

ClientReadable ==
    client # None /\ (inbox[client] # {} \/ client \notin open)
Readable == {s \in Socket : \/ s = "client" /\ ClientReadable
                            \/ s = "server" /\ backlog # <<>>}

\* Returns when something is readable or the nearest deadline has come; what
\* is in the pipe is read at once.
Select ==
    /\ Running
    /\ pc = "select"
    /\ ~stop
    /\ \/ Readable # {} \/ pipe # <<>>
       \/ deadline = "expired" \/ (client # None /\ late)
    /\ ready' = Readable
    /\ batch' = pipe
    /\ pipe' = <<>>
    /\ Goto("pipe")
    /\ UNCHANGED <<mode, cur, policy, client, late, peers, memory, life>>

DrainPipe ==
    /\ Running
    /\ pc = "pipe"
    /\ batch # <<>>
    /\ batch' = Tail(batch)
    /\ \/ Head(batch) = "G" /\ Request("pipe")
       \/ /\ Head(batch) = "T"
          /\ stop' = TRUE
          /\ UNCHANGED <<pc, fired, deadline, memory>>
    /\ UNCHANGED <<mode, cur, ready, client, late, peers, pipe, life>>

PipeDone ==
    /\ Running
    /\ pc = "pipe"
    /\ batch = <<>>
    /\ Goto("client")
    /\ UNCHANGED <<mode, cur, ready, batch, policy, client, late, peers, pipe,
                   memory, life>>

\* What has arrived is read in one piece; its lines set different things, so
\* their order does not matter.
ReadLines ==
    /\ Running
    /\ pc = "client"
    /\ "client" \in ready
    /\ inbox[client] # {}
    /\ inbox' = [inbox EXCEPT ![client] = {}]
    /\ late' = (late /\ "PING" \notin inbox[client])
    /\ deadline' = IF "CANCEL" \in inbox[client] THEN "none" ELSE deadline
    /\ stop' = (stop \/ "QUIT" \in inbox[client])
    /\ Goto("server")
    /\ UNCHANGED <<mode, cur, ready, batch, fired, client, conn, open, backlog,
                   arrival, pipe, memory, life>>

\* Bug: the closed connection stays in client.
CloseKeepsClient ==
    /\ conn' = [conn EXCEPT ![client] = "closed"]
    /\ inbox' = [inbox EXCEPT ![client] = {}]
    /\ late' = FALSE
    /\ UNCHANGED client

CloseClient ==
    /\ conn' = [conn EXCEPT ![client] = "closed"]
    /\ client' = None
    /\ inbox' = [inbox EXCEPT ![client] = {}]
    /\ late' = FALSE

HeartbeatDropped ==
    /\ Running
    /\ pc = "client"
    /\ "client" \in ready
    /\ inbox[client] = {}
    /\ client \notin open
    /\ CloseClient
    /\ Request("server")
    /\ UNCHANGED <<mode, cur, ready, batch, open, backlog, arrival, pipe,
                   life>>

NoClientInput ==
    /\ Running
    /\ pc = "client"
    /\ "client" \notin ready
    /\ Goto("server")
    /\ UNCHANGED <<mode, cur, ready, batch, policy, client, late, peers, pipe,
                   memory, life>>

\* A second client is refused; the first one cancels a pending panic.
Admit ==
    LET c == Head(backlog) IN
    /\ backlog' = Tail(backlog)
    /\ \/ /\ client # None
          /\ conn' = [conn EXCEPT ![c] = "refused"]
          /\ inbox' = [inbox EXCEPT ![c] = {}]
          /\ UNCHANGED <<client, late, deadline, arrival>>
       \/ /\ client = None
          /\ conn' = [conn EXCEPT ![c] = "held"]
          /\ client' = c
          /\ late' = FALSE
          /\ deadline' = "none"
          /\ arrival' = [arrival EXCEPT ![c] = "none"]
          /\ UNCHANGED inbox

\* Bug: the server is looked at before the client.
AcceptBeforeClient ==
    /\ Running
    /\ pc \in {"client", "server"}
    /\ pc = "server" => "client" \notin ready
    /\ "server" \in ready
    /\ backlog # <<>>
    /\ Admit
    /\ ready' = ready \ {"server"}
    /\ UNCHANGED <<mode, pc, cur, batch, stop, fired, open, pipe, memory,
                   life>>

Accept ==
    /\ Running
    /\ pc = "server"
    /\ "server" \in ready
    /\ backlog # <<>>
    /\ Admit
    /\ ready' = {}
    /\ Goto("tick")
    /\ UNCHANGED <<mode, cur, batch, stop, fired, open, pipe, memory, life>>

\* Nobody is waiting, or accept fails.  What select found is of no more use.
NoAccept ==
    /\ Running
    /\ pc = "server"
    /\ ready' = {}
    /\ Goto("tick")
    /\ UNCHANGED <<mode, cur, batch, policy, client, late, peers, pipe, memory,
                   life>>

\* execute does nothing when the guard is set.
Tick ==
    /\ Running
    /\ pc = "tick"
    /\ \/ deadline = "expired" /\ ~fired /\ Execute
       \/ /\ deadline # "expired" \/ fired
          /\ Goto("pings")
          /\ UNCHANGED <<policy, memory>>
    /\ UNCHANGED <<mode, cur, ready, batch, client, late, peers, pipe, life>>

CheckPingTimeout ==
    /\ Running
    /\ pc = "pings"
    /\ \/ /\ client # None
          /\ late
          /\ CloseClient
          /\ Request("select")
       \/ /\ client = None \/ ~late
          /\ Goto("select")
          /\ UNCHANGED <<conn, inbox, client, late, policy, memory>>
    /\ UNCHANGED <<mode, cur, ready, batch, open, backlog, arrival, pipe,
                   life>>

Kill ==
    /\ Running
    /\ pc = "kill"
    /\ life' = "dead"
    /\ UNCHANGED <<mode, pc, cur, ready, batch, policy, client, late, peers,
                   pipe, memory>>

-----------------------------------------------------------------------------
(* _cleanup: SecureBuffer.free, one step at a time, of each buffer.         *)

FreeStep(from, next) ==
    /\ Running
    /\ pc = from
    /\ cur <= Len(Buffers)
    /\ Goto(next)
    /\ UNCHANGED <<mode, ready, batch, policy, client, late, peers, pipe,
                   fault, life>>

\* A buffer that was never made is passed over.
FreeZeroize ==
    /\ FreeStep("free", IF buf[Buffers[cur]].mapped THEN "close" ELSE "free")
    /\ buf' = [buf EXCEPT ![Buffers[cur]] = Zeroize(@)]
    /\ cur' = IF buf[Buffers[cur]].mapped THEN cur ELSE cur + 1

\* Bug: the mapping is released first.
FreeUnmapFirst ==
    /\ FreeStep("close", "unmap")
    /\ buf' = [buf EXCEPT ![Buffers[cur]].mapped = FALSE]
    /\ UNCHANGED cur

FreeClose ==
    /\ FreeStep("close", "remove")
    /\ buf' = [buf EXCEPT ![Buffers[cur]].closed = TRUE]
    /\ UNCHANGED cur

FreeRemove ==
    /\ FreeStep("remove", "unmap")
    /\ buf' = [buf EXCEPT ![Buffers[cur]].live = FALSE]
    /\ UNCHANGED cur

FreeUnmap ==
    /\ FreeStep("unmap", "free")
    /\ buf' = [buf EXCEPT ![Buffers[cur]].mapped = FALSE]
    /\ cur' = cur + 1

\* The sockets are closed, run returns.
Exit ==
    /\ Running
    /\ pc = "free"
    /\ cur > Len(Buffers)
    /\ life' = "exited"
    /\ UNCHANGED <<mode, pc, cur, ready, batch, policy, client, late, peers,
                   pipe, memory>>

-----------------------------------------------------------------------------
(* Signals, the clock and the peers.                                        *)

\* Outside the loop nothing that peers and signals other than SIGUSR2 do is
\* read any more, but for the codes that arrive before the loop.
Looping == pc \in {"select", "pipe", "client", "server", "tick", "pings"}

\* SIGUSR1 writes "G", SIGTERM and SIGINT write "T".
Signal(code) ==
    /\ Running
    /\ Looping \/ pc \in {"allocate", "fill", "listen"}
    /\ Len(pipe) < MaxPipe
    /\ pipe' = Append(pipe, code)
    /\ UNCHANGED <<mode, pc, cur, ready, batch, policy, client, late, peers,
                   memory, life>>

\* Bug: the handler leaves the wipe to the loop.
HardPanicNoWipe ==
    /\ Running
    /\ life' = IF mode = "dry" THEN "exited" ELSE "dead"
    /\ UNCHANGED <<mode, pc, cur, ready, batch, policy, client, late, peers,
                   pipe, memory>>

\* SIGUSR2.
HardPanic ==
    /\ Running
    /\ ZeroizeAll
    /\ life' = IF mode = "dry" THEN "exited" ELSE "dead"
    /\ UNCHANGED <<mode, pc, cur, ready, batch, policy, client, late, peers,
                   pipe>>

GraceExpires ==
    /\ Running
    /\ deadline = "pending"
    /\ deadline' = "expired"
    /\ UNCHANGED <<mode, pc, cur, ready, batch, stop, fired, client, late,
                   peers, pipe, memory, life>>

\* Without --ping-timeout this never happens.
PingLate ==
    /\ Running
    /\ client # None
    /\ ~late
    /\ late' = TRUE
    /\ UNCHANGED <<mode, pc, cur, ready, batch, policy, client, peers, pipe,
                   memory, life>>

\* The connections the daemon has not done with.
Pending == {c \in Client : conn[c] \in {"backlog", "held"}}

Connect(c) ==
    /\ Running
    /\ Looping
    /\ conn[c] = "new"
    /\ conn' = [conn EXCEPT ![c] = "backlog"]
    /\ backlog' = Append(backlog, c)
    /\ arrival' = [arrival EXCEPT ![c] =
                        IF open # {} THEN "contested"
                        ELSE IF \E d \in Pending : inbox[d] # {} THEN "unread"
                        ELSE "alone"]
    /\ open' = open \cup {c}
    /\ UNCHANGED <<mode, pc, cur, ready, batch, policy, client, late, inbox,
                   pipe, memory, life>>

SendLine(c, verb) ==
    /\ Running
    /\ Looping
    /\ c \in open
    /\ c \in Pending
    /\ Cardinality(inbox[c]) < MaxLines
    /\ inbox' = [inbox EXCEPT ![c] = @ \cup {verb}]
    /\ UNCHANGED <<mode, pc, cur, ready, batch, policy, client, late, conn,
                   open, backlog, arrival, pipe, memory, life>>

Hangup(c) ==
    /\ Running
    /\ Looping
    /\ c \in open
    /\ open' = open \ {c}
    /\ UNCHANGED <<mode, pc, cur, ready, batch, policy, client, late, conn,
                   inbox, backlog, arrival, pipe, memory, life>>

Halted == ~Running /\ UNCHANGED vars

-----------------------------------------------------------------------------

Setup == Allocate \/ Fill \/ Listen \/ SetupFails
Iterate ==
    \/ LeaveLoop \/ Select
    \/ DrainPipe \/ PipeDone
    \/ ReadLines \/ HeartbeatDropped \/ NoClientInput
    \/ Accept \/ NoAccept
    \/ Tick \/ CheckPingTimeout \/ Kill
Cleanup == FreeZeroize \/ FreeClose \/ FreeRemove \/ FreeUnmap \/ Exit
Main == Setup \/ Iterate \/ Cleanup

Peer(c) == Connect(c) \/ Hangup(c) \/ \E verb \in Verb : SendLine(c, verb)
GracefulSignal == \E code \in {"G", "T"} : Signal(code)

Next ==
    \/ Main
    \/ GracefulSignal \/ HardPanic
    \/ GraceExpires \/ PingLate
    \/ \E c \in Client : Peer(c)
    \/ Halted

\* The thread runs and time passes; nothing is assumed of peers and signals.
Fairness == WF_vars(Main) /\ WF_vars(GraceExpires)

Spec == Init /\ [][Next]_vars
FairSpec == Spec /\ Fairness

-----------------------------------------------------------------------------
(* Properties.                                                             *)

Label == {"allocate", "fill", "listen", "select", "pipe", "client", "server",
          "tick", "pings", "kill", "free", "close", "remove", "unmap"}

\* Every variable holds a value of its type.
TypeOK ==
    /\ mode \in {"dry", "grace", "now"}
    /\ pc \in Label
    /\ cur \in 1..(Len(Buffers) + 1)
    /\ ready \subseteq Socket
    /\ batch \in Seq({"G", "T"})
    /\ stop \in BOOLEAN /\ fired \in BOOLEAN
    /\ deadline \in {"none", "pending", "expired"}
    /\ client \in {c \in Client : conn[c] = "held"} \cup {None}
    /\ late \in BOOLEAN
    /\ conn \in [Client -> {"new", "backlog", "held", "refused", "closed"}]
    /\ open \subseteq Client
    /\ inbox \in [Client -> SUBSET Verb]
    /\ backlog \in Seq({c \in Client : conn[c] = "backlog"})
    /\ arrival \in [Client -> {"none", "alone", "unread", "contested"}]
    /\ pipe \in Seq({"G", "T"})
    /\ buf \in [Buffer -> [live : BOOLEAN, closed : BOOLEAN, mapped : BOOLEAN,
                           content : {"zero", "secret"}]]
    /\ fault \in BOOLEAN
    /\ life \in {"running", "dead", "exited"}

\* However the process ends, and wherever a signal has interrupted it, no
\* buffer that was filled still holds its secret.
EndsWiped == ~Running => \A b \in Buffer : buf[b].content = "zero"

\* A handler that interrupts free never writes to a released mapping.
NoFault == ~fault

\* Only an armed daemon kills, though execute and tick do not ask whether it is
\* armed; once its sequence has begun nothing leads back to the loop or to the
\* clean exit, while a dry run always stands down.
EndsAsArmed ==
    /\ life = "dead" => mode # "dry"
    /\ fired => IF mode = "dry" THEN stop ELSE pc = "kill"

\* A client that connects when no other peer is left, and none has left lines
\* unread, is not turned away: the loss of the heartbeat is noticed before the
\* new connection is accepted.
ReconnectAccepted ==
    \A c \in Client : conn[c] = "refused" => arrival[c] # "alone"

\* A dropped heartbeat ends in a wipe or in another client, when signals cease.
SignalsCease == <>[][~GracefulSignal]_vars
DropAnswered ==
    SignalsCease =>
        \A c \in Client : conn[c] = "held" /\ c \notin open ~>
            \/ \A b \in Buffer : buf[b].content = "zero"
            \/ client \notin {c, None}

=============================================================================
