--------------------------- MODULE ResamplerHandle ---------------------------
(***************************************************************************)
(* The C ABI around the resampler (bindings/c/src/lib.rs): push leaves the *)
(* candles it closed in a buffer of the handle, drain copies some of them  *)
(* out, flush hands the last one over directly.  Go, C#, Java and R reach  *)
(* the resampler through it.  The tick aggregator's handle has the same    *)
(* push and drain, and no flush.                                           *)
(***************************************************************************)
EXTENDS Resampler

CONSTANTS
    Caps,       \* the sizes of the caller's array
    MaxOwed     \* bound: candles the resampler emits

ASSUME HandleAssumption ==
    /\ Caps \subseteq Nat
    /\ MaxOwed \in Nat

VARIABLES
    pending,    \* the handle's buffer
    \* history, read by the properties only:
    owed,       \* the candles the resampler emitted, in order
    got,        \* the candles the caller obtained, in order
    overrun     \* has the caller been handed new candles over a buffer not empty

handleVars == <<open, out, result, inputs, series, pending, owed, got, overrun>>

HandleInit ==
    /\ Init
    /\ pending = <<>>
    /\ owed = <<>>
    /\ got = <<>>
    /\ overrun = FALSE

\* wickra_resampler_push returns the length of what it buffered or, for a
\* refusal, -1.  Mutant: a refusal empties the buffer.
PushReplaces(c) ==
    /\ Len(owed) <= MaxOwed
    /\ Push(c)
    /\ pending' = out'
    /\ owed' = owed \o out'
    /\ overrun' = (overrun \/ (pending # <<>> /\ result' = "ok"))
    /\ UNCHANGED got

\* A refusal leaves the buffer alone, success replaces it.
HandlePush(c) ==
    /\ Len(owed) <= MaxOwed
    /\ Push(c)
    /\ pending' = IF result' = "ok" THEN out' ELSE pending
    /\ owed' = owed \o out'
    /\ overrun' = (overrun \/ (pending # <<>> /\ result' = "ok"))
    /\ UNCHANGED got

\* wickra_resampler_drain: into an array of cap candles; it returns their number.
Drain(cap) ==
    LET n == Lesser(Len(pending), cap)
    IN  /\ got' = got \o SubSeq(pending, 1, n)
        /\ pending' = SubSeq(pending, n + 1, Len(pending))
        /\ UNCHANGED <<open, out, result, inputs, series, owed, overrun>>

\* wickra_resampler_flush hands its candle over past the buffer.  An empty
\* resampler and a bar that does not validate both give false.
HandleFlush ==
    /\ Len(owed) <= MaxOwed
    /\ Flush
    /\ got' = got \o out'
    /\ owed' = owed \o out'
    /\ overrun' = (overrun \/ (pending # <<>> /\ out' # <<>>))
    /\ UNCHANGED pending

HandleNext ==
    \/ \E c \in Input : HandlePush(c)
    \/ \E cap \in Caps : Drain(cap)
    \/ HandleFlush

HandleSpec == HandleInit /\ [][HandleNext]_handleVars

-----------------------------------------------------------------------------
(* Properties. *)

\* drain's comment: a caller that empties the buffer before it takes in more, in
\* arrays of whatever size, obtains every candle exactly once and in order.  A
\* refused push in between costs it nothing.
DrainIsLossless == ~overrun => got \o pending = owed

=============================================================================
