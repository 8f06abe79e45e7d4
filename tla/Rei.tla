-------------------------------- MODULE Rei --------------------------------
(***************************************************************************)
(* The MCP adapter of rs/crates/rei/src/lib.rs beside the daemons of       *)
(* Dazai.  A tool asks whichever daemon listens on the socket and waits    *)
(* three seconds for one line; the panic tools ask for STATUS, then read   *)
(* the pidfile, then signal, and the world may change between the three.   *)
(*                                                                         *)
(* The other tools relay one request and say what came back; they are      *)
(* among the clients of ControlRequest.                                    *)
(***************************************************************************)
EXTENDS Dazai

CONSTANT Call   \* tool calls that run at a time, each one after another

VARIABLES
    step,       \* "idle", "sent", "gated" (STATUS answered), "aimed" (pid
                \* read)
    tool,       \* the tool that runs
    peer,       \* the daemon that was asked
    target      \* the pid read from the pidfile

callVars == <<step, tool, peer, target>>
allVars == <<vars, callVars>>

Panics == {"panic", "hard_panic"}

ReiInit ==
    /\ Init
    /\ step = [c \in Call |-> "idle"]
    /\ tool = [c \in Call |-> "none"]
    /\ peer = [c \in Call |-> Nobody]
    /\ target = [c \in Call |-> 0]

Return(c) ==
    /\ step' = [step EXCEPT ![c] = "idle"]
    /\ tool' = [tool EXCEPT ![c] = "none"]
    /\ peer' = [peer EXCEPT ![c] = Nobody]
    /\ target' = [target EXCEPT ![c] = 0]

-----------------------------------------------------------------------------
\* A socket file whose daemon is gone refuses the connection.
Listening == sock # Nobody /\ Alive(sock)

\* If nobody listens the tool returns at once.
CallTool(c, t) ==
    /\ step[c] = "idle"
    /\ Listening
    /\ step' = [step EXCEPT ![c] = "sent"]
    /\ tool' = [tool EXCEPT ![c] = t]
    /\ peer' = [peer EXCEPT ![c] = sock]
    /\ UNCHANGED <<vars, target>>

Awaits(c) == step[c] = "sent" /\ Serving(peer[c])

\* STATUS changes nothing.
StatusAnswered(c) ==
    /\ Awaits(c)
    /\ step' = [step EXCEPT ![c] = "gated"]
    /\ UNCHANGED <<vars, tool, peer, target>>

\* The daemon is gone before it answers, or three seconds are over.
Unanswered(c) ==
    /\ step[c] = "sent"
    /\ Return(c)
    /\ UNCHANGED vars

\* Bug: what is in the pidfile is taken for a pid unseen.
AimAnyway(c) ==
    /\ step' = [step EXCEPT ![c] = "aimed"]
    /\ target' = [target EXCEPT ![c] = pidfile]
    /\ UNCHANGED <<vars, tool, peer>>

Aim(c) ==
    /\ IF pidfile \in Pid
       THEN /\ step' = [step EXCEPT ![c] = "aimed"]
            /\ target' = [target EXCEPT ![c] = pidfile]
            /\ UNCHANGED <<tool, peer>>
       ELSE Return(c)
    /\ UNCHANGED vars

\* Bug: the pidfile is read without waiting for the answer.
ReadUngated(c) ==
    step[c] \in {"sent", "gated"} /\ Aim(c)

ReadPidfile(c) == step[c] = "gated" /\ Aim(c)

\* An agent that is hit may have a handler or not.
AgentHit(p) ==
    /\ owner' \in {owner, [owner EXCEPT ![p] = "nothing"]}
    /\ UNCHANGED <<stepVars, memVars, shieldVars, loopVars, fileVars, pid,
                   overlap>>

\* The processes that get the signal of a tool that has read a pid.
Hit(c) == SendSignal(target[c], Mine)

Signal(c) ==
    LET s == IF tool[c] = "hard_panic" THEN "USR2" ELSE "USR1"
        runs == owner[target[c]]
    IN
    /\ step[c] = "aimed"
    /\ CASE Hit(c) = {} -> UNCHANGED vars
         [] Hit(c) # {} /\ runs \in Daemon -> Deliver(runs, s)
         [] OTHER -> AgentHit(target[c])
    /\ Return(c)

-----------------------------------------------------------------------------
CallStep(c) ==
    \/ \E t \in Panics : CallTool(c, t)
    \/ StatusAnswered(c) \/ Unanswered(c)
    \/ ReadPidfile(c) \/ Signal(c)

ReiNext ==
    \/ Next /\ UNCHANGED callVars
    \/ \E c \in Call : CallStep(c)

ReiSpec ==
    /\ ReiInit
    /\ [][ReiNext]_allVars
    /\ \A d \in Daemon : WF_vars(Work(d))

-----------------------------------------------------------------------------
ReiTypeOK ==
    /\ TypeOK
    /\ step \in [Call -> {"idle", "sent", "gated", "aimed"}]
    /\ tool \in [Call -> {"none"} \cup Panics]
    /\ peer \in [Call -> Daemon \cup {Nobody}]
    /\ target \in [Call -> Pid \cup {0}]

\* A panic tool has delivered its signal.
Strikes(c) == step[c] = "aimed" /\ step'[c] = "idle" /\ Hit(c) # {}

\* A panic tool has found no pid, or no process under it.
Misses(c) ==
    /\ step[c] \in {"gated", "aimed"}
    /\ step'[c] = "idle"
    /\ ~Strikes(c)

\* The STATUS gate and the pidfile together: a panic tool signals the very
\* daemon that answered it, and finds its handlers installed, unless that
\* daemon has gone since or shares its path with another.
SignalsTheAnswerer ==
    [][\A c \in Call : Strikes(c) =>
        \/ owner[target[c]] = peer[c] /\ peer[c] \in handlers
        \/ ~Alive(peer[c])
        \/ peer[c] \in overlap]_allVars

\* A panic is not lost: once a daemon that has its path for itself has
\* answered STATUS, the tool fails only if that daemon is on its way out.
PanicNotLost ==
    [][\A c \in Call : Misses(c) =>
        pc[peer[c]] # "watch" \/ peer[c] \in overlap]_allVars

\* What the documentation says of the panic tools: the pid of a daemon that
\* has exited, recycled by the system, is not signalled.
NoStrangerSignalled ==
    [][\A c \in Call : Strikes(c) => owner[target[c]] \in Daemon]_allVars

=============================================================================
