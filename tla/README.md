# ningen-shikkaku in TLA+

Models, model-checking runs and proofs for the daemon `dazai` and what it is
made of, the one-shot server `motokano`, the MCP adapter `rei` and the Python
daemon `deadman.py` of this repository. Paths below are relative to the
repository; `rs/` stands for `rs/crates/`.

## The system

ningen-shikkaku keeps a secret in locked memory and destroys it, with the
processes that may hold a copy, when the person who guards it disappears.

| Component | State | Operations | Interacts with |
|---|---|---|---|
| **kikka** panic policy (`rs/kikka/src/panic.rs`) | armed flag, fired flag, deadline | graceful and hard request, cancel, tick | called by the watchdog's main loop; calls its collaborators kill-registered, wipe, kill, dry-done |
| **kikka** watchdog (`rs/kikka/src/lib.rs`) | event channel, active flag, generation source, registered pids, control count, believed generation, socket file | main loop; signal thread, accept thread; one thread for each heartbeat and control connection | clients over a unix socket, signals, kiroku's sink, the host's lethal action |
| **dazai** host (`rs/dazai/src/main.rs`) | child, pidfile, socket path | start-up order, lethal action, clean return | kikka, sienna, kekkai, goodnight |
| **motokano** (`rs/motokano/src`) | call counter, closed flag, EXITING flag, tool registry | tool calls, disconnect, daemon monitor, wipe_and_exit | an MCP client over stdio, a dazai daemon, kiroku's sink |
| **kiroku** (`rs/kiroku/src`) | an append-only descriptor, a count of dropped records | open, emit; validate, for an ingester | both servers; whoever reads the sink |
| **sienna** (`rs/sienna/src`) | one child process | spawn, kill, drop | dazai's lethal action |
| **rei** (`rs/rei/src`) | none of its own | MCP tools that ask the daemon over its socket, panic tools that signal the pid in the pidfile | dazai's socket and pidfile |
| **goodnight** (`rs/goodnight/src`) | a mapped, locked buffer | write, wipe, drop | both servers |
| **kekkai** (`rs/kekkai/src`) | none | one filter, applied once | kernel |
| **deadman.py, heartbeat.py, secmem.py** | the first, single-threaded Python version of the daemon and its buffers | select loop, signal handlers, wipe, free | signals, a socket |

### What is hard in it

* Threads report to the main loop through one channel, and a reader thread
  clears the single-client flag *before* it sends its loss: the next client's
  `Connected` may overtake the loss of the one before. Generation numbers are
  there to make that harmless.
* Several triggers race (loss, missed ping, two signals, an expired window);
  the sequence must run once, in one order and for one reason, while ARM and
  REGISTER are served by other threads between its steps.
* The grace window can be restarted, cancelled or cut short.
* In motokano three threads may want to end the process at once while call
  handlers run, one of them perhaps awaiting a command.
* The host takes its resources in a fixed order, and every step may fail after
  some of them are held; a signal before the handlers are installed kills it
  without a wipe; what it leaves on its path meets the next daemon.
* Once the filter is loaded, a system call nobody listed kills the daemon on
  the very way out that makes it.
* The adapter asks one process, reads a file another may have written and
  signals a pid a third may hold by then.
* Records go to a pipe nobody may read or a disk that is full, from several
  threads, and must not make the kill wait.
* The Python daemon has one thread, but a signal handler may run between any two
  of its steps, also while a buffer is being freed; and one `select` reports the
  loss of a client together with its replacement.
* Pids are reused; connections, pids and handlers are capped; what follows a
  SIGKILL of oneself never runs.

`PROJECT.json` lists these hazards one by one, at their lines.

## Modules

| Module | What it is |
|---|---|
| `PanicController` | the policy of `panic.rs`, one operator for each method, without variables of its own besides those it reads and writes |
| `Watchdog` | kikka from the entry of `run_with_listener` to its return or to the self-SIGKILL; extends `PanicController` |
| `KillSwitch` | the abstract dead man's switch: armed, it kills the protected processes that it may signal, destroys the secret and dies; otherwise it destroys the secret and leaves |
| `Goodnight` | buffers (length, mapping, bytes that hold a secret) and signals to one pid, as operators |
| `Kekkai` | the system calls the filter allows, as sets |
| `Dazai` | `run_daemon` from its arguments to the end of the process, for several daemons on one path; extends `Goodnight` and `Kekkai` |
| `Rei` | the panic tools of the MCP adapter beside the daemons of `Dazai`, which it extends |
| `Kiroku` | the sink and the contract of its records |
| `Motokano` | counter, call handlers, daemon monitor, disconnect path and `wipe_and_exit` |
| `Deadman` | the Python daemon of `deadman.py` with the buffers of `secmem.py`: start-up, select loop, cleanup, signal handlers |
| `MCWatchdog`, `MCDazai`, `MCRei`, `MCKiroku` | symmetry sets and inputs for TLC; `Motokano` and `Deadman` are run as they are |
| `WatchdogProofs`, `PromiseProofs` | theorems about `Watchdog` and their proofs: its threads and channel; its promise and its sink |
| `DazaiProofs`, `PathProofs` | about `Dazai`: one daemon; the files several of them share |
| `ReiProofs`, `KirokuProofs`, `MotokanoProofs`, `DeadmanProofs` | about `Rei` (extends `PathProofs`), `Kiroku`, `Motokano` and `Deadman` |

`Watchdog` and `Motokano` both instantiate `KillSwitch` with a refinement
mapping: `Switch == INSTANCE KillSwitch WITH phase <- Phase, ...`. `Dazai` takes
of the watchdog only what `KillSwitch` allows it: a trigger that ends in the
lethal action when armed and in a clean return when not, and a clean return
at any time.

### Watchdog and the code

One action is one step of one thread between two accesses to shared state.
`pc` is the main thread: the steps of start-up, `"loop"`, the collaborator
it calls next (`"kill_registered"`, `"wipe"`, `"kill"`, `"dry_wipe"`,
`"dry_done"`), the host's `"lethal"` action, `"cleanup"`. Between two
collaborators every other thread may run, as it may in the program. `conn[c]`
and `ctl[k]` are the reader threads of heartbeat and control connections:

* a heartbeat thread claims the slot (`Claim`, the swap), takes a number
  (`Number`, `fetch_add`), announces itself (`Announce`), forwards CANCEL, and
  ends by `Drop`, `MissPing` or `ClientQuit`, which clear the flag, followed by
  `SendTerminal`;
* a control thread enters and leaves (`EnterControl`, `LeaveControl`, the
  count), validates a pid (`CheckPid`) and only then takes the lock
  (`Register`), unregisters, arms (`Arm`) and then records that (`RecordArm`).

`chan` is the mpsc channel, `sink` the lifecycle records in order of writing,
`proc[p]` what runs under a pid: an agent, a process of another user
(`"foreign"`), nothing (`"gone"`), or a stranger that has taken the pid.
kill(2) refuses a process of another user with EPERM. `pid_exists` takes that
for a yes, so REGISTER accepts such a pid; at the kill `sigkill_pid` fails, which
`kill_registered` only logs, and it records every registered pid as killed
(`KillRegistered`, `AfterKill`). What the daemon promises is therefore stated of
the processes it may signal: in `SinkIsTrue` (no *agent* recorded as killed
lives on) and in `KillSwitch!KillProtected`. The documentation promises more, see
*Findings*. A stranger under a reused pid may be
killed, as in the code.
Left out because no property tells it apart: the text of lines and replies,
PING/PONG and STATUS replies, write timeouts, logging. SIGINT is handled as
SIGTERM and is not listed apart. The sink is configured and its writes succeed.
A connection the daemon never accepts stays `"new"`; this includes an accept
thread that has ended at an error. The time of the grace window is three
values: no window, a window that is open, a deadline that has passed.

### Dazai, Goodnight, Kekkai and the code

`pc[d]` is the next step of daemon `d`, in the order of `run_daemon`: `args`,
the two buffers (`key`, `work`: map, then write), `child`, `stale`, `bind`,
`chmod`, `create`, `write`, `chmod_pid`, `filter`, `handlers`, `watch`; then
either the lethal action (`kill_registered`, `wipe`, `kill_child`,
`unlink_pid`, `raise`) or the clean return (`cleanup`, `unlink_sock`,
`unlink_pidfile`, the drops and the exit). An error anywhere in the start-up
(`SetupFails`) goes straight to the drops, as `?` does. `how[d]` says by which
way a daemon ends. sienna's child is `child[d]`; `Killed` is
`ChildProcess::kill`.

`sock` is the daemon that bound the socket file; `pidfile` is the pid in the
file, `Empty` between `File::create` and the write. A daemon that has the file
open while another removes it writes to nothing: `linked` are those whose open
file is still the one on the path. Pids are taken at the start and are free
again at the end; agents (`AgentChanges`) take free ones. unlink(2) of a
file that is there is taken to succeed: the code ignores its error, and on a
directory that the daemon has just written to it has no other reason to fail than
a change of permissions in between; `NoStalePid` and the file properties rest on
that. A daemon may be signalled or killed at any step (`Signalled`, `KilledOutside`); before
`InstallHandlers` each of its signals ends it.

A buffer is its length, the length of its mapping (whole pages, modulo the
width of a length) and the bytes that hold a secret; `Write`, `Wipe` and the
drop act on these bytes. A pid that is registered may be any unsigned number
twice as wide as `pid_t`; `InRange` is the test that keeps it from naming a
group, and `Mine` are the running processes that the daemon's user may signal:
agents may be another user's (`"foreign"`), and a signal to these reaches
nobody. `Needs` lists, for each step, the system calls that the standard library
and signal-hook make on x86_64; a confined daemon cannot take a step
that needs another (`Permitted`), and is killed there (`KilledOutside`).

Agents register themselves or a number that is no pid, never a running daemon
(`Registrable`): a daemon registered with another would be killed by it before
it has wiped, and no document speaks of that.

### Rei and the code

`step[c]` is where a panic tool stands: the request has been sent to whoever
listens, STATUS has been answered, the pidfile has been read. Three actions,
and between any two of them the daemons of `Dazai` go on: they end, are killed,
start, and their pids pass on. A request may go unanswered for three seconds
(`Unanswered`). The other tools relay one request and word the reply; to the
daemon they are `ControlRequest`.

### Kiroku and the code

In the sink a record is `Parts` bytes. `Write` is one round of `write_all`: it
takes what write(2) takes of a descriptor that does not wait (`Taken`): all of
it, all or nothing on a pipe when the record is no longer than `PIPE_BUF`,
what fits on a disk, nothing (an error) if the reader is gone. Readers come, go
and stop; disks fill. Otherwise a record is a function from keys to values
(`Render`), and `Valid` is the contract's validator; `Ingest` offers it every
record, and every line that differs from one in a single place.

### Motokano and the code

`call[c]` is the handler of a call: `Admit` (reads `closed`), `Resolve` (under
the registry's lock), `CommandEnds` or `CommandFails` (exec tools),
`RecordRead`, `Load` and `Exchange` (the compare-exchange loop), `FireByCalls`
(the swap of `fired`), `CloseAndSpawn`. `exit[t]` is the way of the main,
monitor and counter thread through `wipe_and_exit`: the swap of EXITING
(`Enter`), `closed` (`StopServing`), the connection that unregisters with the
daemon, if there is one (`Unregister`), flush and grace and the wipe (`Wipe`), the
two records, the end. The connect is a blocking one, and nothing says when
`Unregister` is taken; a daemon that is gone refuses the connection, which is
ignored. Outside: `DaemonLost` (EOF or no PONG), `DaemonKills`
(an armed daemon kills what is registered with it). How many handlers the MCP
library runs at a time is the variable `inFlight`, chosen at the start from the
constant `Dispatch`; `server.rs:142-143` says it is one. Nothing in the
repository makes it so: a library that starts a task for each request leaves
the guarantees that need it (`ServesAtMost`, `CountedReadsFirst`) to clients that
wait for an answer before they ask again.

### Deadman and the code

`pc` is the main thread: making and filling the two buffers (`Allocate`,
`Fill`), the socket (`Listen`), the order of one iteration of `_loop`
(`Select`, `DrainPipe`, `ReadLines` or `HeartbeatDropped`, `Accept`, `Tick`,
`CheckPingTimeout`), and `_cleanup`, where `SecureBuffer.free` is taken apart into
its steps (`FreeZeroize`, `FreeClose`, `FreeRemove`, `FreeUnmap`). Any failure of
the start-up goes to the same cleanup (`SetupFails`). `HardPanic` is SIGUSR2's
handler: it may run between any two of these steps, wipes and ends the process.
The other handlers only write to the pipe (`Signal`). `fault` records a wipe of
memory that is not mapped. The run begins with the handlers installed, which is
the first thing `run` does. Peers connect, send a verb and hang up as they
like; all the lines that have arrived are read at once, since they set different
things. What peers do after the loop is left is not read by anyone and is left
out, and so is a ping timeout of zero, whose behaviours are those in which
`PingLate` never happens. `Accept` failing is `NoAccept`.

## Runs

| Run | Instance | Shows |
|---|---|---|
| `heartbeat` | 3 heartbeat connections, signals | `SingleHolder`, `GenerationsInOrder`, `NoFalseAlarm`, `NoMissedLoss`, `OneStory` |
| `control` | 3 control connections, 2 pids, caps 1 and 2, signals | `CapsHold`, `SinkIsTrue`, `SafePromise` (every step is one the abstract switch may take) |
| `answered` | 2 heartbeat connections, fairness | `LossAnswered`, `KeepsPromise` (the abstract switch with its liveness) |
| `host` | 2 daemons on one path, 2 pids, all signals, sizes 0, 1, 3 and 15 of 16 | `Findable`, `StaleFilesYield`, `NoStalePid` (the files), `ChildDies`, `NoSecretReturned` (what a way out leaves), `NeverDenied` (the filter), `OnlyRegisteredDie` (the kill) |
| `adapter` | 2 daemons, 2 pids, one tool call after another | `SignalsTheAnswerer`, `PanicNotLost` |
| `sink` | 3 threads, a fifo or a file with room for one record and a half, fairness | `NeverTorn`, `Accounted`, `NeverWaits`, `ContractExact` |
| `oneshot` | 3 calls of a command, N = 2, one or two handlers at a time, fairness | `ServesAtMost`, `CounterIsExact`, `OneExit`, `CountedReadsFirst` (no read after the wipe that the counter scheduled), `KeepsSafePromise`, `EndsItself` |
| `deadman` | 2 clients, one code in the pipe, one unread line each, fairness | `EndsWiped`, `NoFault`, `EndsAsArmed`, `ReconnectAccepted`, `DropAnswered` |
| `late_register`, `first_connect`, `unwiped`, `stale_pid` | small | each refutes one sentence of the documentation, see *Findings* |

`host`, `adapter` and `sink` do not check for deadlock: every daemon may have
ended for good, every record may have been written.

### Bounds, and why they are enough

* `MaxChan = 1`: a signal or a CANCEL is sent only while the channel is empty.
  Reader threads ignore the bound, so the channel still holds the events of
  every connection at once: three connections give up to six queued events,
  which is what the reordering of losses needs. Signals carry no data, so a
  second queued one differs from a later one only in what lies between.
* Three connections: one lost, one that follows it, one that is refused or
  follows in turn. Numbers are compared for equality and order only.
* Three control connections with room for one pid and two handlers: one
  connection over each cap, and two validated pids in a race for one place.
* `Graces`: the runs try both a window of some length and one of zero length;
  `control` only the former, which has a window's interleavings of ARM and
  REGISTER, in fewer states. The proofs have both.
* A pid is reused once in `Watchdog`: a second stranger is no different from the
  first.
* Two daemons, each started once: one that leaves its files and one that finds
  them, or two at the same time. The properties of the files are about a
  daemon and whatever was there before it; `PathProofs` has them for any number.
* `PidMax = 2`: two daemons at a time, or a daemon and an agent; after an end, the
  same pid for somebody else. Registered numbers go up to `2 * PidMax + 1`, so
  that 0 and those that turn negative are among them. One number is registered
  at a time (`MaxRegistered = 1`); `DazaiProofs` has any number.
* Pages of 4 bytes and lengths modulo 16: a length of nothing, less than a page,
  a page and the length whose mapping wraps to nothing. Secrets of 1 and 2
  bytes: one size (1) is too small for the working buffer's.
* One outside signal is pending at a time; the tools of `Rei` add theirs.
* `adapter` leaves out what its properties do not depend on: children, sizes,
  signals other than the tool's, registered pids.
* Records of two bytes with `PIPE_BUF` of two and room for three: a record that
  fits, one that does not, and a disk that takes half of one. Three threads: two
  that write between the rounds of a third.
* Three calls with N = 2: the last counted call and one that must be refused;
  two at a time make a compare-exchange fail and race the exit. `oneshot` has only commands, whose handlers
  take every step that a value's take and one more.
* `MaxPipe = 1`, `MaxLines = 1` in `deadman`: a signal or a line is sent when the
  one before has been read, by two clients: one is lost and one replaces it or is
  refused.
* Symmetry (connections, pids, daemons) is used where no liveness is checked;
  no property names a particular one.

### Fairness

`Watchdog`: weak fairness of the main thread (it blocks only in `recv_timeout`,
which returns at an event or at the deadline), of the clock, and of the steps
a reader thread takes without its client. Nothing is assumed of clients,
signals or processes. `LossAnswered` needs `SignalsCease`, since each graceful
trigger restarts the window.
`Motokano`: weak fairness of the handlers' own steps, of `wipe_and_exit`, and
of the disconnect path. Nothing is assumed of the client and of commands (they
may run for ever). Nor is it of the daemon that it takes the
connection of `unregister`: `EndsItself` says that every exit condition leads to
the end or to that wait, and that what comes after the wait leads to the end.
`Kiroku`: weak fairness of the threads that write; the reader may never read.
`Dazai` and `Rei` state weak fairness of the daemons' main threads, and check
safety only: that a started way out ends is no more than that fairness.
`Deadman`: weak fairness of the thread and of the clock. `DropAnswered` needs
signals to cease for the same reason as `LossAnswered`.

## What is proved

Every safety property that a passing run checks is also a theorem: it holds for
any number of connections, calls, daemons, threads, pids, clients and bytes and
for any caps. TLC checks the same formulas on the instances above. The
theorems assume what their modules `ASSUME` and nothing else: sets of threads and
connections are finite, caps are natural numbers, what stands for "nobody" is
nobody, a length's width is a multiple of the page size, and, in `Kiroku`, that a
record has two bytes or more and is no longer than `PIPE_BUF`.

Each proof names its inductive invariant in parts, one for each idea, and shows
that the steps of each action keep them. The parts:

Of `Watchdog` (`WatchdogProofs`, `PromiseProofs`), for a channel of any length:

* `TypeCorrect`: `Spec => []TypeOK`, one step for each action.
* `SingleHolderAlways`. `SingleHolder` is not inductive: it says nothing of a
  holder that has no number yet. `HolderInv` adds that no generation exceeds
  the source and that connections without a number have generation 0.
* `GenerationsAlwaysInOrder`. Order in the channel depends on events that are
  still to be sent. `ChanInv` adds to it, for each connection, where its
  number may occur in the channel in each phase of its thread, and that
  nothing in the channel is newer than the source.
* `NoFalseAlarmEver`, the reason for generation numbers. `LiveIsBelieved` (the
  main loop believes in each live client whose `Connected` it has taken) is
  inductive together with the two invariants above: a `Connected` taken from
  the channel is newer than what is believed, so it cannot displace a live
  client, and a loss that names a live client cannot be in the channel.
  `AlarmIsNotLoss` follows from the code's order of clearing `present` and
  asking for the panic.
* `NoLossMissed`, its converse. `LossInv` says of what is believed, and of every
  `Connected` still in the channel, that its connection is there or its loss
  or QUIT is on the way; a loss is taken for the believed generation only, and
  `ChanInv` keeps it behind its `Connected`.
* `CapsAlwaysHold`: the count is the number of connections that have added to it
  and not yet subtracted, refused ones included (`ControlSteps`), and the list of
  pids grows only under its lock.
* `SinkAlwaysTrue`: what a record needs to be true is never undone
  (`SinkSteps`): above all, no step makes an agent of a pid that was killed. Of
  processes that the daemon may not signal the theorem says nothing.
  `ArmInv`: whoever is about to record an execution or an arm has seen the flag
  up.
* `OneStoryOnly`: `StoryInv` says how much of which of the three sequences (kill,
  dry run, clean end) has been told at each step of the main thread, and
  `GuardInv` that the one-shot guard is up exactly from a trigger to the end.
* `ImplementsSwitch`: `Spec => SafePromise`. `PromiseInv` (a window is open only
  when armed; the last phases come after the wipe) is preserved by each step,
  and each step maps to a step of `KillSwitch` or a stutter: `LoopMaps`,
  `CallMaps`, `LeaveMaps` for the main thread, `ClientMaps`, `ControlMaps`,
  `WorldMaps` for the rest.

Of `Dazai` (`DazaiProofs`):

* `TypeCorrect`, one lemma for each group of actions.
* `KillsOnlyRegistered`: `OnlyRegisteredDie`, from `SignalHitsOne` (a number in
  range reaches the process it names, any other number reaches nobody).
* `FilterNeverKills`: `NeverDenied`. `HostInv` adds which steps a confined daemon
  can be at (`After`), and `Needs` of each of these is in `Allowed`.
* `ChildNeverLeft`: `ChildDies`. `HostInv` says that a child runs at no step after
  it was killed or before it was spawned (`Childless`), and `EndsLast` that a
  daemon ends of its own only from such a step.
* `SecretsErased`: `NoSecretReturned`. `MemInv`: every byte of a secret lies in
  its buffer's mapping, and there is none at the steps after a wipe.
  `CapCovers` is the arithmetic: a mapping that is not refused is at least as
  long as the buffer, although the product may wrap.

Of the files (`PathProofs`): `AloneIsFound`, `AloneStarts`, `AloneLeavesNoPid`.
`PathInv` says that two daemons alive at once are both in `overlap`, and, for a
daemon that is not, what socket and pidfile are at each of its steps. The
difficulty is the pidfile that is being written: `linked` must not hold anybody
else.

Of `Rei` (`ReiProofs`), on top of the invariants of its daemons:

* `AdapterTypeCorrect`, `AnswererIsHit` (`SignalsTheAnswerer`) and `PanicArrives`
  (`PanicNotLost`). `ProcessInv`: a pid belongs to the live daemon that has it,
  and only what has come past its start-up catches signals. `NamedInv`: the
  pidfile of a daemon that catches signals and is alone names it or is gone.
  `CallInv`: what a tool may know at each of its steps. `Keeps` is the reason it
  still knows it a step later: a daemon starts once, and as long as it lives it
  keeps its pid and its handlers. A tool's own signal is one more way a daemon
  may be ended (`Remote`), which all these invariants survive.

Of `Motokano` (`MotokanoProofs`), for any number of handlers at a time unless
said otherwise:

* `TypeCorrect`, with `LoadInv`: who has loaded the counter has seen it positive,
  so the exchange never takes it below zero.
* `CounterStaysExact`. `CounterInv` adds that the handlers that have brought the
  counter to zero are one; the exchange succeeds only on the value that was
  loaded.
* `OneExitAlways`. `ExitInv` says how far each thread can be in `wipe_and_exit`:
  one is inside, from the swap of EXITING on. `EndInv` ties the records to it.
* `ImplementsSwitch`: `Spec => KeepsSafePromise`, the same abstract switch.
* `OneShot`: `ServesAtMost`, for one handler at a time. `OneAtATime`: when the
  counter stands at zero no call is under way that has not been counted, and
  none can be admitted, because of `closed`, because the input has ended, or
  because the winner has not returned; `FiredInv` is where `closed` comes from.
* `CountedReadsComeFirst`, for one handler at a time. `ScheduledInv`: from the
  moment the counter's thread is spawned no call is under way and none is let in;
  with `EndInv`, a wipe for the counter's reason is that thread's.

Of `Kiroku` (`KirokuProofs`):

* `NeverTornAlways`. `WholeInv` adds to `NeverTorn` that a thread writing to a pipe
  has written all of its record or nothing.
* `TypeCorrect` and `AlwaysAccounted`. `CountInv` counts the bytes of each call in
  the stream against those it has still to write, and the room in the pipe
  against what is unread.
* `ContractAlwaysExact`: the validator takes a line if and only if it is a record
  the program may render. One direction is `RenderedIsValid`; the other
  (`ValidIsRendered`) rebuilds the event from any line that passes. `EditsAreLines`
  says that what is offered is a line at all, that is, a map from keys to values.

Of `Deadman` (`DeadmanProofs`):

* `AlwaysEndsWiped` and `NeverFaults`. `MemInv`: a secret is in a buffer that
  `zeroize_all` still finds, and what it finds is mapped (`Sound`), at each step
  of `free`; `AtHand` is what the main thread knows of the buffer it frees or
  fills, `Passed` that those before it are zero.
* `AlwaysReconnects`. `QueueInv`: who came alone has only quiet peers before it in
  the backlog (`OnlyQuietBefore`), and a `select` that found it has found the
  end of the client as well (`Found`), which is looked at first.
* `AlwaysEndsAsArmed`. `execute` and `tick` do not ask whether the daemon is armed;
  `ArmedInv` says why they need not: an open window means an armed daemon, and
  the guard is up exactly from the start of a sequence.
* `TypeCorrect`, from the first two and the policy's own variables.

Only model-checked: whatever needs fairness, `LossAnswered`, `KeepsPromise`,
`EndsItself`, `DropAnswered` and `NeverWaits`, since liveness and ENABLED are out
of the prover's reach; and the four refutations, which are traces.

## Findings

Each is a sentence of the documentation that the code does not keep, with a run
that shows how.

* `late_register`: a REGISTER answered OK between the kill of the registered
  pids and the self-SIGKILL leaves that process alive
  (`docs/src/reference/mcp-tools.md:15`).
* `first_connect`: the first connection ever, and any CANCEL, close an armed
  grace window (`docs/src/reference/protocol.md:16`).
* `unwiped`: when the MCP handshake fails, motokano returns past
  `wipe_and_exit`; if a daemon link is configured, its monitor still holds the
  registry, and not even its destructor wipes
  (`docs/src/components/motokano.md:31`).
* `stale_pid`: a daemon answers STATUS and is killed from outside, which leaves
  its pidfile; a process that takes its pid before the tool signals gets the
  signal (`docs/src/reference/mcp-tools.md:56`). What does hold is
  `SignalsTheAnswerer`.

Also worth knowing, without a run of their own:

* REGISTER accepts a process of another user, since `pid_exists` answers yes to
  EPERM (`rs/goodnight/src/lib.rs:91-92`). Its SIGKILL is refused, the log calls
  it "already gone", the sink counts it among the killed
  (`rs/kikka/src/lib.rs:147-161`), and it outlives the daemon, where
  `docs/src/reference/protocol.md:38` has "every registered PID" killed. If
  `SinkIsTrue` spoke of such processes too, TLC would refute it at the first
  kill.
* A command that is awaited while the client leaves or the daemon is lost ends
  after the wipe, and its read is recorded, as served, after it. The comment at
  `rs/motokano/src/server.rs:138` has the read "always" first, for the sake of the
  counter; for the counter it holds (`CountedReadsFirst`).
* `unregister` connects on a blocking socket, before the wipe, where
  `rs/motokano/src/lib.rs:70` calls it non-blocking. When the daemon hangs and its
  backlog is full, the process neither wipes nor ends for as long; the loss that
  the monitor reported may be that very daemon's.
* `ServesAtMost` is stated for one handler at a time. With two TLC finds a call
  admitted between the exchange that counts the last call and the store to
  `closed`, and N + 1 reads or more.
* Repeated SIGUSR1 restarts the grace window for ever, even after it has expired
  (`docs/src/kill-sequence.md:17` names only the reconnect).
* `docs/src/components/sienna.md:9` has the child killed first on any trigger,
  before the buffers are wiped; the code kills it in the lethal action, which
  comes after the wipe, or by its drop.
* In `deadman.py`, SIGTERM only sets a flag and the iteration goes on: SIGUSR1
  behind it in the pipe, or a window that has just expired, still kills
  (`src/deadman.py:26`). One `recv` is made in each iteration: a client that has
  left a line unread is not seen to be gone in the iteration that reads the
  line, and its reconnect is refused (`src/deadman.py:311`). `ReconnectAccepted`
  is what does hold: a client that connects alone, with nothing left unread, is
  accepted.
* Two daemons at a time on one path: the second takes over socket and pidfile,
  and the first one's clean return removes them. The models have it; the
  properties of the files except it through `overlap`.
* On a full disk a sink that is a file may keep part of a record, and another
  thread's record may follow it there; `NeverTorn` is about pipes, and
  `Accounted` says that such a record is counted.

## Plan

Every component is modelled as far as *Not modelled* says, and its safety
properties are checked and proved. What is left to do:

1. The lemmas that two proof modules share (which steps leave which variables
   alone) stated once.

`Deadman` is not an implementation of `KillSwitch` and is not meant to become one:
SIGUSR2 may kill it on its clean way out, and wipes and kills in one handler.
`EndsAsArmed` is what it keeps of that promise.

## Not modelled, and why

* `run_client` is a heartbeat connection of `Watchdog`, seen from the other end;
  `run_mcp` starts the adapter.
* Parsing of arguments, tool specifications, protocol lines and STATUS lines, and
  the JSON of records: pure text, whose results the actions take as inputs.
* In `goodnight`: whether `mlock` succeeded (a buffer is then swappable and says
  so), `madvise`, the memory limit and the dumpable flag: the kernel's doing, and
  no step of the program depends on it.
* The filter on other architectures, where best-effort names are skipped.
* The tools of `rei` other than the panic tools: one request, one reply.
* The demo is a script.
