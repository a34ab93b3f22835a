----------------------------- MODULE BinanceFeed -----------------------------
(***************************************************************************)
(* The live Binance kline feed: BinanceKlineStream::next_event of          *)
(* crates/wickra-data/src/live/binance.rs (read loop, stall detection,     *)
(* reconnect with exponential back-off, close) together with the way every *)
(* language binding drives it, wickra_binance_next of bindings/c/src/lib.rs*)
(* and its Python and Node twins: one poll is                              *)
(*     block_on(timeout(timeout_ms, next_event()))                         *)
(* so a poll that times out DROPS the next_event future, and with it every *)
(* timer and loop counter that lived in it; only the socket survives.      *)
(*                                                                         *)
(* Time is discrete.  Tick lets one unit pass; it is possible only while   *)
(* the future is blocked (tokio polls the wrapped future before it looks   *)
(* at the deadline), so every step that can be taken is taken before time  *)
(* moves on.  Between two polls nothing runs and no clock matters.         *)
(*                                                                         *)
(* The exchange numbers its kline updates 1, 2, 3, ...  A frame is its     *)
(* kind and, for a kline, that number.                                     *)
(***************************************************************************)
EXTENDS Integers, Sequences

CONSTANTS
    ReadTimeout,    \* BinanceConfig::read_timeout
    InitialDelay,   \* BinanceConfig::initial_reconnect_delay
    MaxBackoff,     \* BinanceConfig::max_reconnect_backoff
    MaxAttempts,    \* BinanceConfig::max_reconnect_attempts
    PollTimeout,    \* timeout_ms of the binding, or NoTimeout for Rust callers
    NoTimeout,      \* no timeout around next_event
    MaxKlines,      \* bound: klines the exchange produces
    MaxInbound      \* bound: frames received and not yet read

ASSUME ConfigAssumption ==
    /\ ReadTimeout \in Nat \ {0}
    /\ InitialDelay \in Nat
    /\ MaxBackoff \in Nat
    /\ MaxAttempts \in Nat \ {0}   \* connect_with_config rejects 0
    /\ NoTimeout \notin Nat
    /\ PollTimeout \in Nat \cup {NoTimeout}
    /\ MaxKlines \in Nat
    /\ MaxInbound \in Nat

VARIABLES
    conn,      \* "up", "silent" (nothing will ever arrive) or "ended"
    inbound,   \* frames that arrived on the current socket, not yet read
    closed,    \* the stream's closed flag
    call,      \* where the pending next_event future stands
    result,    \* what the last poll (or close) returned
    attempt,   \* failed attempts in the reconnect loop of this call
    delay,     \* the reconnect loop's next sleep
    waitLeft,  \* time left on the read timeout or on the back-off sleep
    pollLeft,  \* time left on the caller's poll timeout
    produced,  \* klines the exchange has produced so far
    \* history, read by the properties only:
    delivered,       \* klines handed to the caller, in order
    onConn,          \* klines that arrived on the current socket
    failedOpens,     \* opens that failed since one succeeded or Err surfaced
    closeRequested   \* the caller has called close()

futureVars == <<call, attempt, delay, waitLeft, pollLeft>>
historyVars == <<delivered, onConn, failedOpens, closeRequested>>
vars == <<conn, inbound, closed, call, result, attempt, delay, waitLeft,
          pollLeft, produced, delivered, onConn, failedOpens, closeRequested>>

Calls == {"idle", "reading", "ponging", "backoff", "opening"}
Results == {"none", "pending", "event", "badframe", "exhausted", "timeout",
            "closed", "closefailed"}

Lesser(a, b) == IF a < b THEN a ELSE b
Greater(a, b) == IF a < b THEN b ELSE a

\* "control": acknowledgements, error objects and pongs; "badKline": a kline
\* whose fields do not decode; "garbage": a text frame that is not JSON.
OtherKinds == {"control", "ping", "badKline", "garbage", "close"}
Kline(k) == [kind |-> "kline", seq |-> k]
Other(kind) == [kind |-> kind, seq |-> 0]
Frames == [kind : OtherKinds \cup {"kline"}, seq : Nat]

\* The state right after a successful connect_with_config.
Init ==
    /\ conn = "up"
    /\ inbound = <<>>
    /\ closed = FALSE
    /\ call = "idle"
    /\ result = "none"
    /\ attempt = 0
    /\ delay = InitialDelay
    /\ waitLeft = 0
    /\ pollLeft = 0
    /\ produced = 0
    /\ delivered = <<>>
    /\ onConn = {}
    /\ failedOpens = 0
    /\ closeRequested = FALSE

-----------------------------------------------------------------------------
(* The exchange and the network. *)

\* The exchange pushes the next kline update and it reaches our socket ...
ServerKline ==
    /\ conn = "up"
    /\ produced < MaxKlines
    /\ Len(inbound) < MaxInbound
    /\ produced' = produced + 1
    /\ inbound' = Append(inbound, Kline(produced + 1))
    /\ onConn' = onConn \cup {produced + 1}
    /\ UNCHANGED <<conn, closed, result, futureVars, delivered, failedOpens,
                   closeRequested>>

\* ... or nobody is listening and it is gone.
MissedKline ==
    /\ conn # "up"
    /\ produced < MaxKlines
    /\ produced' = produced + 1
    /\ UNCHANGED <<conn, inbound, closed, result, futureVars, historyVars>>

\* Any other frame; after a close frame the socket yields nothing more.
ServerFrame ==
    /\ conn = "up"
    /\ Len(inbound) < MaxInbound
    /\ \E kind \in OtherKinds :
           /\ inbound' = Append(inbound, Other(kind))
           /\ conn' = IF kind = "close" THEN "ended" ELSE conn
    /\ UNCHANGED <<closed, result, futureVars, produced, historyVars>>

\* The connection dies visibly: what had arrived can still be read.
Drop ==
    /\ conn # "ended"
    /\ conn' = "ended"
    /\ UNCHANGED <<inbound, closed, result, futureVars, produced, historyVars>>

\* The connection dies silently: no frame and no error will arrive on it.
FallSilent ==
    /\ conn = "up"
    /\ conn' = "silent"
    /\ UNCHANGED <<inbound, closed, result, futureVars, produced, historyVars>>

Network == ServerKline \/ MissedKline \/ ServerFrame \/ Drop \/ FallSilent

-----------------------------------------------------------------------------
(* The caller. *)

\* Mutant: the closed flag is not looked at.
PollIgnoringClosed ==
    /\ call = "idle"
    /\ call' = "reading"
    /\ waitLeft' = ReadTimeout
    /\ pollLeft' = PollTimeout
    /\ result' = "pending"
    /\ UNCHANGED <<conn, inbound, closed, attempt, delay, produced, historyVars>>

\* One poll: next_event is called and runs up to its first await.
Poll ==
    /\ call = "idle"
    /\ ~closed
    /\ call' = "reading"
    /\ waitLeft' = ReadTimeout
    /\ pollLeft' = PollTimeout
    /\ result' = "pending"
    /\ UNCHANGED <<conn, inbound, closed, attempt, delay, produced, historyVars>>

\* next_event on a closed stream yields Ok(None) at once.
PollClosed ==
    /\ call = "idle"
    /\ closed
    /\ result' = "closed"
    /\ UNCHANGED <<conn, inbound, closed, futureVars, produced, historyVars>>

\* Mutant: the flag is set only once the socket has been closed without error.
CloseSocketFirst ==
    /\ call = "idle"
    /\ closeRequested' = TRUE
    /\ \E ok \in BOOLEAN :
           /\ closed' = (closed \/ ok)
           /\ result' = IF ok THEN "closed" ELSE "closefailed"
    /\ conn' = "ended"
    /\ UNCHANGED <<inbound, futureVars, produced, delivered, onConn, failedOpens>>

\* close() takes &mut self, so no poll is pending.  The flag is set before the
\* socket is closed, which may fail.
Close ==
    /\ call = "idle"
    /\ closeRequested' = TRUE
    /\ closed' = TRUE
    /\ \E ok \in BOOLEAN : result' = IF ok THEN "closed" ELSE "closefailed"
    /\ conn' = "ended"
    /\ UNCHANGED <<inbound, futureVars, produced, delivered, onConn, failedOpens>>

-----------------------------------------------------------------------------
(* The next_event future. *)

\* The future is gone, completed or dropped, and its locals with it.
FutureGone ==
    /\ call' = "idle"
    /\ attempt' = 0
    /\ delay' = InitialDelay
    /\ waitLeft' = 0
    /\ pollLeft' = 0

\* reconnect() is entered: sleep first, then open.
StartReconnect ==
    /\ call' = "backoff"
    /\ attempt' = 0
    /\ delay' = InitialDelay
    /\ waitLeft' = InitialDelay
    /\ UNCHANGED pollLeft

\* The frame the read loop takes from the socket.
HeadIs(kinds) == inbound # <<>> /\ Head(inbound).kind \in kinds

\* Mutant: the frame is left on the socket when the event is returned.
PeekKline ==
    /\ call = "reading"
    /\ HeadIs({"kline"})
    /\ delivered' = Append(delivered, Head(inbound).seq)
    /\ result' = "event"
    /\ FutureGone
    /\ UNCHANGED <<conn, inbound, closed, produced, onConn, failedOpens,
                   closeRequested>>

\* parse_frame yields Some(event): the poll returns it.
ReadKline ==
    /\ call = "reading"
    /\ HeadIs({"kline"})
    /\ inbound' = Tail(inbound)
    /\ delivered' = Append(delivered, Head(inbound).seq)
    /\ result' = "event"
    /\ FutureGone
    /\ UNCHANGED <<conn, closed, produced, onConn, failedOpens, closeRequested>>

\* Mutant: the frame that does not parse stays at the head of the queue.
KeepBadFrame ==
    /\ call = "reading"
    /\ HeadIs({"badKline", "garbage"})
    /\ result' = "badframe"
    /\ FutureGone
    /\ UNCHANGED <<conn, inbound, closed, produced, historyVars>>

\* parse_frame fails, on the JSON or on the kline: the poll returns the error,
\* the frame is consumed and the stream stays usable.
ReadBadFrame ==
    /\ call = "reading"
    /\ HeadIs({"badKline", "garbage"})
    /\ inbound' = Tail(inbound)
    /\ result' = "badframe"
    /\ FutureGone
    /\ UNCHANGED <<conn, closed, produced, historyVars>>

\* parse_frame yields None, or a pong is ignored: the loop goes round and waits a
\* full read timeout again.
ReadControl ==
    /\ call = "reading"
    /\ HeadIs({"control"})
    /\ inbound' = Tail(inbound)
    /\ waitLeft' = ReadTimeout
    /\ UNCHANGED <<conn, closed, call, result, attempt, delay, pollLeft,
                   produced, historyVars>>

\* A ping: the pong is written in an await of its own, outside the read timeout.
ReadPing ==
    /\ call = "reading"
    /\ HeadIs({"ping"})
    /\ inbound' = Tail(inbound)
    /\ call' = "ponging"
    /\ waitLeft' = 0
    /\ UNCHANGED <<conn, closed, result, attempt, delay, pollLeft, produced,
                   historyVars>>

\* That write is over.  Its error is ignored: the next read will show it.
PongSent ==
    /\ call = "ponging"
    /\ call' = "reading"
    /\ waitLeft' = ReadTimeout
    /\ UNCHANGED <<conn, inbound, closed, result, attempt, delay, pollLeft,
                   produced, historyVars>>

\* The server's close frame.
ReadClose ==
    /\ call = "reading"
    /\ HeadIs({"close"})
    /\ inbound' = Tail(inbound)
    /\ StartReconnect
    /\ UNCHANGED <<conn, closed, result, produced, historyVars>>

\* Mutant: the end of the socket is reported as a poll without an event.
EndedReportsTimeout ==
    /\ call = "reading"
    /\ inbound = <<>>
    /\ conn = "ended"
    /\ result' = "timeout"
    /\ FutureGone
    /\ UNCHANGED <<conn, inbound, closed, produced, historyVars>>

\* socket.next() is None or an error.
ReadEnded ==
    /\ call = "reading"
    /\ inbound = <<>>
    /\ conn = "ended"
    /\ StartReconnect
    /\ UNCHANGED <<conn, inbound, closed, result, produced, historyVars>>

\* Mutant: an elapsed read timeout is taken for a quiet market, keep reading.
StallIgnored ==
    /\ call = "reading"
    /\ inbound = <<>>
    /\ conn # "ended"
    /\ waitLeft = 0
    /\ waitLeft' = ReadTimeout
    /\ UNCHANGED <<conn, inbound, closed, call, result, attempt, delay,
                   pollLeft, produced, historyVars>>

\* The read timeout elapsed with nothing to read.
ReadStalled ==
    /\ call = "reading"
    /\ inbound = <<>>
    /\ conn # "ended"
    /\ waitLeft = 0
    /\ StartReconnect
    /\ UNCHANGED <<conn, inbound, closed, result, produced, historyVars>>

BackoffOver ==
    /\ call = "backoff"
    /\ waitLeft = 0
    /\ call' = "opening"
    /\ UNCHANGED <<conn, inbound, closed, result, attempt, delay, waitLeft,
                   pollLeft, produced, historyVars>>

\* A handshake succeeds: the old socket is dropped with whatever it still held.
OpenOk ==
    /\ call = "opening"
    /\ conn' = "up"
    /\ inbound' = <<>>
    /\ onConn' = {}
    /\ failedOpens' = 0
    /\ call' = "reading"
    /\ waitLeft' = ReadTimeout
    /\ attempt' = 0
    /\ delay' = InitialDelay
    /\ UNCHANGED <<closed, result, pollLeft, produced, delivered,
                   closeRequested>>

\* Mutant: one round too many.
OneAttemptMore == attempt = MaxAttempts

\* The loop over 0..max_reconnect_attempts has run out.
LastAttempt == attempt + 1 = MaxAttempts

\* Mutant: the doubled delay is not capped.
UncappedDelay == 2 * delay

\* Mutant: a constant delay instead of an exponential one.
ConstantDelay == Lesser(delay, MaxBackoff)

NextDelay == Lesser(2 * delay, MaxBackoff)

\* A handshake fails with attempts left: double the delay and sleep again.
OpenFailed ==
    /\ call = "opening"
    /\ ~LastAttempt
    /\ attempt' = attempt + 1
    /\ delay' = NextDelay
    /\ waitLeft' = NextDelay
    /\ call' = "backoff"
    /\ failedOpens' = Lesser(failedOpens + 1, MaxAttempts)
    /\ UNCHANGED <<conn, inbound, closed, result, pollLeft, produced,
                   delivered, onConn, closeRequested>>

\* Mutant: the error is swallowed and the poll looks like one with no event yet.
SwallowExhausted ==
    /\ call = "opening"
    /\ LastAttempt
    /\ result' = "timeout"
    /\ failedOpens' = 0
    /\ FutureGone
    /\ UNCHANGED <<conn, inbound, closed, produced, delivered, onConn,
                   closeRequested>>

\* The last handshake fails: the poll returns the error.  The dead socket stays
\* in place, so the next poll starts a new reconnect.
OpenExhausted ==
    /\ call = "opening"
    /\ LastAttempt
    /\ result' = "exhausted"
    /\ failedOpens' = 0
    /\ FutureGone
    /\ UNCHANGED <<conn, inbound, closed, produced, delivered, onConn,
                   closeRequested>>

-----------------------------------------------------------------------------
(* Time. *)

\* The future is pending: nothing it awaits is ready.  A handshake and the write
\* of a pong may always take longer: neither has a timeout of its own.
Blocked ==
    \/ call = "reading" /\ inbound = <<>> /\ conn # "ended" /\ waitLeft > 0
    \/ call = "backoff" /\ waitLeft > 0
    \/ call \in {"opening", "ponging"}

\* Mutant: what has arrived is thrown away with the future.
PollExpiresWithBuffer ==
    /\ call # "idle"
    /\ pollLeft = 0
    /\ result' = "timeout"
    /\ inbound' = <<>>
    /\ FutureGone
    /\ UNCHANGED <<conn, closed, produced, historyVars>>

\* The caller's timeout fires: the future is dropped wherever it stands.
PollExpires ==
    /\ Blocked
    /\ pollLeft = 0
    /\ result' = "timeout"
    /\ FutureGone
    /\ UNCHANGED <<conn, inbound, closed, produced, historyVars>>

Tick ==
    /\ Blocked
    /\ pollLeft # 0
    /\ waitLeft' = Greater(waitLeft - 1, 0)
    /\ pollLeft' = IF pollLeft = NoTimeout THEN NoTimeout ELSE pollLeft - 1
    /\ UNCHANGED <<conn, inbound, closed, call, result, attempt, delay,
                   produced, historyVars>>

Read == ReadKline \/ ReadBadFrame \/ ReadControl \/ ReadPing \/ ReadClose
            \/ ReadEnded \/ ReadStalled
OpenResolved == OpenOk \/ OpenFailed \/ OpenExhausted
Caller == Poll \/ PollClosed \/ Close
Runtime == Read \/ BackoffOver \/ PollExpires \/ Tick

Next == Network \/ Caller \/ Runtime \/ PongSent \/ OpenResolved

Spec == Init /\ [][Next]_vars

\* The runtime runs what can run and lets time pass, the caller polls again and
\* again, and the write of a pong ends, well or badly, and every handshake
\* succeeds or fails, if it is given the time.
Fairness ==
    /\ WF_vars(Runtime)
    /\ WF_vars(Poll)
    /\ WF_vars(PongSent)
    /\ WF_vars(OpenResolved)

FairSpec == Spec /\ Fairness

\* In addition the endpoint comes back: if handshakes are tried for ever, one
\* of them succeeds.
ReachableSpec == FairSpec /\ SF_vars(OpenOk)

-----------------------------------------------------------------------------
(* Properties. *)

\* Types, with the bounds the timers and the loop counter stay within: no sleep
\* is longer than the first delay or the cap, whichever is greater
\* (BinanceConfig does not make max_reconnect_backoff bound the first delay).
TypeOK ==
    /\ conn \in {"up", "silent", "ended"}
    /\ inbound \in Seq(Frames)
    /\ closed \in BOOLEAN
    /\ call \in Calls
    /\ result \in Results
    /\ attempt \in 0 .. MaxAttempts - 1
    /\ delay \in 0 .. Greater(InitialDelay, MaxBackoff)
    /\ waitLeft \in 0 .. Greater(ReadTimeout, Greater(InitialDelay, MaxBackoff))
    /\ pollLeft \in Nat \cup {NoTimeout}
    /\ produced \in 0 .. MaxKlines
    /\ delivered \in Seq(Nat)
    /\ onConn \in SUBSET (1 .. produced)
    /\ failedOpens \in 0 .. MaxAttempts
    /\ closeRequested \in BOOLEAN

\* The klines on the socket, unread.
Pending == {inbound[i].seq : i \in {j \in DOMAIN inbound :
                                        inbound[j].kind = "kline"}}
Delivered == {delivered[i] : i \in DOMAIN delivered}

\* next_event hands every kline over at most once and in the order the exchange
\* produced them, and what is still unread is newer than all of it, whatever
\* polls were dropped and whatever connections were replaced in between.
InOrder ==
    /\ \A i, j \in DOMAIN delivered : i < j => delivered[i] < delivered[j]
    /\ \A i, j \in DOMAIN inbound :
           /\ i < j
           /\ inbound[i].kind = "kline"
           /\ inbound[j].kind = "kline"
           => inbound[i].seq < inbound[j].seq
    /\ \A i \in DOMAIN delivered, j \in DOMAIN inbound :
           inbound[j].kind = "kline" => delivered[i] < inbound[j].seq

\* A kline that reached the socket is lost only with that socket: as long as the
\* connection is not replaced it has been handed over or can still be read, no
\* matter how many polls timed out.  (next_event is cancellation safe.)
NoLossWithinConnection == onConn \subseteq Delivered \cup Pending

\* After close() - even a close() that failed on the socket - the stream is
\* never polled or reconnected again.
ClosedIsTerminal == closeRequested => closed /\ call = "idle"

\* While nobody drops the future, the n-th sleep of a reconnect is the first
\* delay doubled n times, cut at the maximum: failed handshakes are what makes
\* it grow, and only a success or a surfaced error starts it afresh.
Schedule[n \in Nat] ==
    IF n = 0 THEN InitialDelay
    ELSE Lesser(InitialDelay * 2^n, MaxBackoff)
BackoffFollowsSchedule == call = "backoff" => delay = Schedule[failedOpens]

\* next_event retries a dropped connection at most max_reconnect_attempts times
\* before the caller is told.
RetriesBeforeSurfacing == failedOpens < MaxAttempts

\* A dropped connection, once a poll is looking at it, is replaced or the caller
\* is told (the call returns Err, or somebody closed the stream): it never goes
\* on being reported as "no event yet".
DropRecoveredOrSurfaced ==
    conn = "ended" /\ call # "idle"
        ~> conn = "up" \/ closed \/ result = "exhausted"

\* The same for a connection on which nothing arrives any more.
StallRecoveredOrSurfaced ==
    conn = "silent" /\ call # "idle"
        ~> conn # "silent" \/ closed \/ result = "exhausted"

\* If the endpoint comes back, a lost connection is replaced.
DropRecovered == conn = "ended" ~> conn = "up" \/ closed

\* A kline on the socket is eventually handed over unless that socket is
\* replaced or the stream closed: no frame in front of it and no dropped poll
\* can keep it from the caller.
KlineHandedOver ==
    \A k \in 1 .. MaxKlines :
        k \in onConn ~> k \in Delivered \/ k \notin onConn \/ closed

\* The feed keeps the contract of a live feed.
Abstract == INSTANCE FeedContract WITH published <- produced,
                                       received <- delivered,
                                       terminated <- closeRequested
KeepsContract == Abstract!Contract

=============================================================================
