----------------------------- MODULE Goodnight -----------------------------
(***************************************************************************)
(* What the rest of the program takes from goodnight                       *)
(* (rs/crates/goodnight/src/lib.rs): locked buffers whose bytes can be     *)
(* erased, and signals to exactly one process.  A buffer is known by its   *)
(* length, the length of its mapping and the bytes that hold a secret.     *)
(***************************************************************************)
EXTENDS Integers, FiniteSets

CONSTANTS
    PageSize,   \* bytes in a page
    UsizeMod,   \* 2^64 in the program: lengths are computed modulo this
    PidMax      \* i32::MAX in the program, the largest pid_t

ASSUME GoodnightAssumption ==
    /\ PageSize \in Nat \ {0}
    /\ UsizeMod \in Nat \ {0}
    /\ UsizeMod % PageSize = 0
    /\ PidMax \in Nat \ {0}

-----------------------------------------------------------------------------
(* Buffers.                                                                 *)

\* The mapping is whole pages; the product wraps in a release build.
Cap(len) == (((len + PageSize - 1) \div PageSize) * PageSize) % UsizeMod

\* A mapping of no bytes is refused, as is a buffer of no bytes.
Mappable(len) == len > 0 /\ Cap(len) > 0

\* A fresh mapping is zero.
NewBuffer(len) == [len |-> len, cap |-> Cap(len), secret |-> {}]

Fits(buf, n) == n <= buf.len

\* Copies n bytes and zeroes the rest of the logical length.
Write(buf, n) ==
    [buf EXCEPT !.secret =
        (buf.secret \ (0 .. buf.len - 1)) \cup (0 .. n - 1)]

\* Bug: the wipe covers what was written, rounded down to pages.
WipeWholePages(buf) ==
    [buf EXCEPT !.secret =
        buf.secret \ (0 .. ((buf.len \div PageSize) * PageSize) - 1)]

\* The whole mapping, not only the logical length.
Wipe(buf) == [buf EXCEPT !.secret = buf.secret \ (0 .. buf.cap - 1)]

-----------------------------------------------------------------------------
(* Signals.  A pid arrives as an unsigned number twice as wide as the      *)
(* positive half of pid_t, and is cast to pid_t for kill(2).               *)

U32 == 0 .. 2 * PidMax + 1
Pid == 1 .. PidMax

PidT(pid) == IF pid > PidMax THEN pid - (2 * PidMax + 2) ELSE pid

\* Whom kill(2) reaches: one process, or a group or everybody.
Reached(n) == IF n > 0 THEN {n} ELSE Pid

\* Bug: the range of pid_t is not checked.
NotZero(pid) == pid # 0

\* Bug: the largest pid is left out.
BelowMax(pid) == pid # 0 /\ pid < PidMax

InRange(pid) == pid # 0 /\ pid <= PidMax

\* The processes send_signal delivers to, of those that the caller may signal;
\* for any other kill(2) fails, with ESRCH or EPERM, and FALSE is returned.
SendSignal(pid, permitted) ==
    IF InRange(pid) THEN Reached(PidT(pid)) \cap permitted ELSE {}

\* A signal that is only a question: EPERM is a yes, so it is asked of all that
\* are running.
PidExists(pid, running) ==
    InRange(pid) /\ Reached(PidT(pid)) \cap running # {}

=============================================================================
