------------------------- MODULE BinanceFeed_proofs -------------------------
(***************************************************************************)
(* Safety of the live feed for every configuration: types and timer        *)
(* bounds, the order of delivery, no loss within a connection, close as a  *)
(* terminal state, the bound and the schedule of retries, and that the     *)
(* feed implements FeedContract.                                           *)
(***************************************************************************)
EXTENDS BinanceFeed, SequenceTheorems, FiniteSetTheorems, TLAPS

LEMMA TypeInit == Init => TypeOK
<1> SUFFICES ASSUME Init PROVE TypeOK
  OBVIOUS
<1>1. /\ delay \in 0 .. Greater(InitialDelay, MaxBackoff)
      /\ waitLeft \in 0 .. Greater(ReadTimeout, Greater(InitialDelay, MaxBackoff))
      /\ attempt \in 0 .. MaxAttempts - 1
      /\ failedOpens \in 0 .. MaxAttempts
      /\ pollLeft \in Nat \cup {NoTimeout}
  BY ConfigAssumption DEF Init, Greater
<1>2. /\ inbound \in Seq(Frames)
      /\ delivered \in Seq(Nat)
      /\ onConn \in SUBSET (1 .. produced)
      /\ produced \in 0 .. MaxKlines
  BY ConfigAssumption DEF Init
<1> QED BY <1>1, <1>2 DEF Init, TypeOK, Calls, Results

LEMMA TypeNext == TypeOK /\ [Next]_vars => TypeOK'
<1> SUFFICES ASSUME TypeOK, [Next]_vars PROVE TypeOK'
  OBVIOUS
<1> USE ConfigAssumption
<1>1. CASE Network
  <2>1. CASE ServerKline
    BY <2>1 DEF ServerKline, TypeOK, Kline, Frames, futureVars
  <2>2. CASE MissedKline
    BY <2>2 DEF MissedKline, TypeOK, futureVars, historyVars
  <2>3. CASE ServerFrame
    BY <2>3 DEF ServerFrame, TypeOK, Other, OtherKinds, Frames, futureVars, historyVars
  <2>4. CASE Drop
    BY <2>4 DEF Drop, TypeOK, futureVars, historyVars
  <2>5. CASE FallSilent
    BY <2>5 DEF FallSilent, TypeOK, futureVars, historyVars
  <2> QED BY <1>1, <2>1, <2>2, <2>3, <2>4, <2>5 DEF Network
<1>2. CASE Caller
  <2>1. CASE Poll
    BY <2>1 DEF Poll, TypeOK, Calls, Results, Greater, historyVars
  <2>2. CASE PollClosed
    BY <2>2 DEF PollClosed, TypeOK, Results, futureVars, historyVars
  <2>3. CASE Close
    BY <2>3 DEF Close, TypeOK, Results, futureVars
  <2> QED BY <1>2, <2>1, <2>2, <2>3 DEF Caller
<1>3. CASE Read
  <2>1. CASE ReadKline
    <3>1. /\ inbound' \in Seq(Frames)
          /\ delivered' \in Seq(Nat)
      <4>1. inbound \in Seq(Frames) /\ inbound # <<>>
        BY <2>1 DEF ReadKline, HeadIs, TypeOK
      <4>2. Head(inbound) \in Frames /\ Tail(inbound) \in Seq(Frames)
        BY <4>1
      <4>3. Head(inbound).seq \in Nat
        BY <4>2 DEF Frames
      <4> QED BY <2>1, <4>2, <4>3 DEF ReadKline, TypeOK
    <3> QED BY <2>1, <3>1
            DEF ReadKline, FutureGone, TypeOK, Calls, Results, Greater
  <2>2. CASE ReadBadFrame
    BY <2>2 DEF ReadBadFrame, HeadIs, FutureGone, TypeOK, Calls, Results, Greater, historyVars
  <2>3. CASE ReadControl
    BY <2>3 DEF ReadControl, HeadIs, TypeOK, Greater, historyVars
  <2>4. CASE ReadPing
    BY <2>4 DEF ReadPing, HeadIs, TypeOK, Calls, Greater, historyVars
  <2>5. CASE ReadClose
    BY <2>5 DEF ReadClose, HeadIs, StartReconnect, TypeOK, Calls, Greater, historyVars
  <2>6. CASE ReadEnded
    BY <2>6 DEF ReadEnded, StartReconnect, TypeOK, Calls, Greater, historyVars
  <2>7. CASE ReadStalled
    BY <2>7 DEF ReadStalled, StartReconnect, TypeOK, Calls, Greater, historyVars
  <2> QED BY <1>3, <2>1, <2>2, <2>3, <2>4, <2>5, <2>6, <2>7 DEF Read
<1>4. CASE PongSent \/ BackoffOver \/ PollExpires \/ Tick
  <2>1. CASE BackoffOver
    BY <2>1 DEF BackoffOver, TypeOK, Calls, historyVars
  <2>2. CASE PollExpires
    BY <2>2 DEF PollExpires, FutureGone, TypeOK, Calls, Results, Greater, historyVars
  <2>3. CASE Tick
    <3>1. waitLeft' \in 0 .. Greater(ReadTimeout, Greater(InitialDelay, MaxBackoff))
      BY <2>3 DEF Tick, TypeOK, Greater
    <3>2. pollLeft' \in Nat \cup {NoTimeout}
      BY <2>3 DEF Tick, TypeOK
    <3> QED BY <2>3, <3>1, <3>2 DEF Tick, TypeOK, historyVars
  <2>4. CASE PongSent
    BY <2>4 DEF PongSent, TypeOK, Calls, Greater, historyVars
  <2> QED BY <1>4, <2>1, <2>2, <2>3, <2>4
<1>5. CASE OpenResolved
  <2>1. CASE OpenOk
    BY <2>1 DEF OpenOk, TypeOK, Calls, Greater
  <2>2. CASE OpenFailed
    <3>1. attempt' \in 0 .. MaxAttempts - 1
      BY <2>2 DEF OpenFailed, LastAttempt, TypeOK
    <3>2. NextDelay \in 0 .. MaxBackoff
      BY DEF NextDelay, Lesser, TypeOK
    <3>3. failedOpens' \in 0 .. MaxAttempts
      BY <2>2 DEF OpenFailed, Lesser, TypeOK
    <3> QED BY <2>2, <3>1, <3>2, <3>3 DEF OpenFailed, TypeOK, Calls, Greater
  <2>3. CASE OpenExhausted
    BY <2>3 DEF OpenExhausted, FutureGone, TypeOK, Calls, Results, Greater
  <2> QED BY <1>5, <2>1, <2>2, <2>3 DEF OpenResolved
<1>6. CASE UNCHANGED vars
  BY <1>6 DEF vars, TypeOK
<1> QED BY <1>1, <1>2, <1>3, <1>4, <1>5, <1>6 DEF Next, Runtime

\* Every variable keeps its type, the reconnect loop never counts past its last
\* attempt, and no sleep exceeds the first delay or the cap, whichever is
\* greater - for every configuration connect_with_config accepts.
THEOREM FeedTypes == Spec => []TypeOK
  BY TypeInit, TypeNext, PTL DEF Spec

-----------------------------------------------------------------------------
(* What a step can do to the frames.  Order and loss only depend on these six *)
(* effects, not on where the future stands.                                   *)

NoFrameMoves ==
    /\ UNCHANGED <<inbound, delivered, onConn>>
    /\ produced <= produced'

SkipsFrame ==
    /\ inbound # <<>>
    /\ Head(inbound).kind # "kline"
    /\ inbound' = Tail(inbound)
    /\ UNCHANGED <<delivered, onConn, produced>>

GetsFrame ==
    /\ \E kind \in OtherKinds : inbound' = Append(inbound, Other(kind))
    /\ UNCHANGED <<delivered, onConn, produced>>

GetsKline ==
    /\ inbound' = Append(inbound, Kline(produced + 1))
    /\ onConn' = onConn \cup {produced + 1}
    /\ produced' = produced + 1
    /\ UNCHANGED delivered

HandsOver ==
    /\ inbound # <<>>
    /\ Head(inbound).kind = "kline"
    /\ inbound' = Tail(inbound)
    /\ delivered' = Append(delivered, Head(inbound).seq)
    /\ UNCHANGED <<onConn, produced>>

Reconnects ==
    /\ inbound' = <<>>
    /\ onConn' = {}
    /\ UNCHANGED <<delivered, produced>>

LEMMA FrameEffects ==
    ASSUME TypeOK, [Next]_vars
    PROVE  \/ NoFrameMoves \/ SkipsFrame \/ GetsFrame \/ GetsKline
           \/ HandsOver \/ Reconnects
<1> produced \in Nat /\ produced <= produced + 1
  BY ConfigAssumption DEF TypeOK
<1>1. CASE Network
  <2>1. CASE ServerKline
    BY <2>1 DEF ServerKline, GetsKline
  <2>2. CASE MissedKline
    BY <2>2 DEF MissedKline, NoFrameMoves, historyVars
  <2>3. CASE ServerFrame
    BY <2>3 DEF ServerFrame, GetsFrame, historyVars
  <2>4. CASE Drop \/ FallSilent
    BY <2>4 DEF Drop, FallSilent, NoFrameMoves, historyVars
  <2> QED BY <1>1, <2>1, <2>2, <2>3, <2>4 DEF Network
<1>2. CASE Caller
  BY <1>2 DEF Caller, Poll, PollClosed, Close, NoFrameMoves, historyVars
<1>3. CASE Read
  <2>1. CASE ReadKline
    BY <2>1 DEF ReadKline, HeadIs, HandsOver
  <2>2. CASE ReadBadFrame
    BY <2>2 DEF ReadBadFrame, HeadIs, SkipsFrame, historyVars
  <2>3. CASE ReadControl
    BY <2>3 DEF ReadControl, HeadIs, SkipsFrame, historyVars
  <2>4. CASE ReadPing \/ ReadClose
    BY <2>4 DEF ReadPing, ReadClose, HeadIs, SkipsFrame, historyVars
  <2>5. CASE ReadEnded \/ ReadStalled
    BY <2>5 DEF ReadEnded, ReadStalled, NoFrameMoves, historyVars
  <2> QED BY <1>3, <2>1, <2>2, <2>3, <2>4, <2>5 DEF Read
<1>4. CASE PongSent \/ BackoffOver \/ PollExpires \/ Tick
  BY <1>4 DEF PongSent, BackoffOver, PollExpires, Tick, NoFrameMoves, historyVars
<1>5. CASE OpenResolved
  BY <1>5 DEF OpenResolved, OpenOk, OpenFailed, OpenExhausted, Reconnects,
              NoFrameMoves
<1>6. CASE UNCHANGED vars
  BY <1>6 DEF vars, NoFrameMoves
<1> QED BY <1>1, <1>2, <1>3, <1>4, <1>5, <1>6 DEF Next, Runtime

-----------------------------------------------------------------------------
(* InOrder and NoLossWithinConnection are inductive once it is known that no *)
(* number is handed over or on the socket before the exchange produced it.   *)

NothingFromTheFuture ==
    /\ \A i \in DOMAIN delivered : delivered[i] <= produced
    /\ \A j \in DOMAIN inbound :
           inbound[j].kind = "kline" => inbound[j].seq \in 1 .. produced

OrderInv == TypeOK /\ InOrder /\ NothingFromTheFuture

LEMMA TailFrames ==
    ASSUME inbound \in Seq(Frames), inbound # <<>>
    PROVE  /\ inbound[1] = Head(inbound)
           /\ 1 \in DOMAIN inbound
           /\ Head(inbound) \in Frames
           /\ \A j \in DOMAIN Tail(inbound) :
                  /\ j + 1 \in DOMAIN inbound
                  /\ j \in Nat
                  /\ Tail(inbound)[j] = inbound[j + 1]
           /\ \A j \in DOMAIN inbound :
                  j = 1 \/ j - 1 \in DOMAIN Tail(inbound)
<1>1. /\ Tail(inbound) \in Seq(Frames)
      /\ Len(Tail(inbound)) = Len(inbound) - 1
      /\ \A i \in 1 .. Len(Tail(inbound)) : Tail(inbound)[i] = inbound[i + 1]
      /\ Head(inbound) \in Frames
  BY HeadTailProperties
<1> QED BY <1>1

LEMMA FrameNumbers ==
    ASSUME inbound \in Seq(Frames)
    PROVE  \A j \in DOMAIN inbound : inbound[j].seq \in Nat
<1>1. \A j \in DOMAIN inbound : inbound[j] \in Frames
  OBVIOUS
<1> QED BY <1>1 DEF Frames

LEMMA OrderNext == OrderInv /\ [Next]_vars => OrderInv'
<1> SUFFICES ASSUME OrderInv, [Next]_vars PROVE (InOrder /\ NothingFromTheFuture)'
  BY TypeNext DEF OrderInv
<1>0. TypeOK /\ TypeOK' /\ produced \in Nat /\ produced' \in Nat
  BY TypeNext, ConfigAssumption DEF OrderInv, TypeOK
<1>1. CASE NoFrameMoves
  <2>1. \A i \in DOMAIN delivered : delivered[i] \in Nat
    BY <1>0 DEF TypeOK
  <2>2. \A j \in DOMAIN inbound : inbound[j].seq \in Nat
    BY <1>0, FrameNumbers DEF TypeOK
  <2> QED BY <1>0, <1>1, <2>1, <2>2
          DEF NoFrameMoves, OrderInv, InOrder, NothingFromTheFuture
<1>2. CASE SkipsFrame
  <2>1. inbound \in Seq(Frames) /\ inbound # <<>>
    BY <1>0, <1>2 DEF TypeOK, SkipsFrame
  <2> QED BY <1>0, <1>2, <2>1, TailFrames
          DEF SkipsFrame, OrderInv, InOrder, NothingFromTheFuture
<1>3. CASE GetsFrame
  <2> PICK kind \in OtherKinds : inbound' = Append(inbound, Other(kind))
    BY <1>3 DEF GetsFrame
  <2>1. \A j \in DOMAIN inbound' :
            inbound'[j].kind = "kline" => /\ j \in DOMAIN inbound
                                          /\ inbound'[j] = inbound[j]
    BY <1>0 DEF TypeOK, Other, OtherKinds, Frames
  <2> QED BY <1>0, <1>3, <2>1
          DEF GetsFrame, OrderInv, InOrder, NothingFromTheFuture
<1>4. CASE GetsKline
  <2>1. \A j \in DOMAIN inbound' :
            \/ j \in DOMAIN inbound /\ inbound'[j] = inbound[j]
            \/ j = Len(inbound) + 1 /\ inbound'[j].seq = produced + 1
    BY <1>0, <1>4 DEF GetsKline, TypeOK, Kline, Frames
  <2>2. \A j \in DOMAIN inbound : j \in Nat /\ j <= Len(inbound)
                                  /\ inbound[j].seq \in Nat
    BY <1>0, FrameNumbers DEF TypeOK
  <2>3. \A i \in DOMAIN delivered : delivered[i] \in Nat
    BY <1>0 DEF TypeOK
  <2>4. Len(inbound) \in Nat
    BY <1>0 DEF TypeOK
  <2> QED BY <1>0, <1>4, <2>1, <2>2, <2>3, <2>4
          DEF GetsKline, OrderInv, InOrder, NothingFromTheFuture
<1>5. CASE HandsOver
  <2>1. inbound \in Seq(Frames) /\ inbound # <<>>
    BY <1>0, <1>5 DEF TypeOK, HandsOver
  <2>2. inbound[1] = Head(inbound) /\ Head(inbound).seq \in Nat
        /\ 1 \in DOMAIN inbound
    BY <2>1, TailFrames DEF Frames
  <2>3. \A i \in DOMAIN delivered' :
            \/ i \in DOMAIN delivered /\ delivered'[i] = delivered[i]
            \/ i = Len(delivered) + 1 /\ delivered'[i] = Head(inbound).seq
    BY <1>0, <1>5, <2>2 DEF HandsOver, TypeOK
  <2>4. \A i \in DOMAIN delivered : i \in Nat /\ i <= Len(delivered)
                                    /\ delivered[i] < Head(inbound).seq
    <3>1. \A i \in DOMAIN delivered : i \in Nat /\ i <= Len(delivered)
      BY <1>0 DEF TypeOK
    <3>2. inbound[1].kind = "kline"
      BY <1>5, <2>2 DEF HandsOver
    <3>3. \A i \in DOMAIN delivered : delivered[i] < inbound[1].seq
      BY <2>2, <3>2 DEF OrderInv, InOrder
    <3> QED
      BY <2>2, <3>1, <3>3
  <2>5. \A j \in DOMAIN inbound' :
            inbound'[j].kind = "kline" => Head(inbound).seq < inbound'[j].seq
    BY <1>5, <2>1, <2>2, TailFrames DEF HandsOver, OrderInv, InOrder
  <2>6. Len(delivered) \in Nat
    BY <1>0 DEF TypeOK
  <2>7. InOrder'
    <3>1. \A i, j \in DOMAIN delivered' : i < j => delivered'[i] < delivered'[j]
      BY <2>3, <2>4, <2>6 DEF OrderInv, InOrder
    <3>2. \A i, j \in DOMAIN inbound' :
              i < j /\ inbound'[i].kind = "kline" /\ inbound'[j].kind = "kline"
              => inbound'[i].seq < inbound'[j].seq
      BY <1>5, <2>1, TailFrames DEF HandsOver, OrderInv, InOrder
    <3>3. \A i \in DOMAIN delivered', j \in DOMAIN inbound' :
              inbound'[j].kind = "kline" => delivered'[i] < inbound'[j].seq
      BY <1>5, <2>1, <2>3, <2>5, TailFrames DEF HandsOver, OrderInv, InOrder
    <3> QED BY <3>1, <3>2, <3>3 DEF InOrder
  <2>8. NothingFromTheFuture'
    BY <1>5, <2>1, <2>2, <2>3, TailFrames
       DEF HandsOver, OrderInv, NothingFromTheFuture
  <2> QED BY <2>7, <2>8
<1>6. CASE Reconnects
  BY <1>6 DEF Reconnects, OrderInv, InOrder, NothingFromTheFuture
<1> QED BY <1>0, <1>1, <1>2, <1>3, <1>4, <1>5, <1>6, FrameEffects

LEMMA OrderInvariant == Spec => []OrderInv
<1>1. Init => OrderInv
  BY TypeInit DEF Init, OrderInv, InOrder, NothingFromTheFuture
<1> QED BY <1>1, OrderNext, PTL DEF Spec

\* Whatever polls are dropped and whatever connections are replaced, klines are
\* handed over at most once and in the order the exchange produced them.
THEOREM FeedInOrder == Spec => []InOrder
<1>1. OrderInv => InOrder
  BY DEF OrderInv
<1> QED BY <1>1, OrderInvariant, PTL

-----------------------------------------------------------------------------
(* Nothing that reached the socket is lost while the socket is kept. *)

LEMMA LossNext ==
    TypeOK /\ NoLossWithinConnection /\ [Next]_vars => NoLossWithinConnection'
<1> SUFFICES ASSUME TypeOK, NoLossWithinConnection, [Next]_vars,
                    NEW k \in onConn'
             PROVE  k \in Delivered' \cup Pending'
  BY DEF NoLossWithinConnection
<1>0. inbound \in Seq(Frames) /\ delivered \in Seq(Nat) /\ produced \in Nat
  BY ConfigAssumption DEF TypeOK
<1>a. CASE NoFrameMoves
  BY <1>a DEF NoFrameMoves, NoLossWithinConnection, Delivered, Pending
<1>b. CASE SkipsFrame
  <2>1. CASE k \in Delivered
    BY <1>b, <2>1 DEF SkipsFrame, Delivered
  <2>2. CASE k \in Pending
    <3>1. PICK j \in DOMAIN inbound : inbound[j].kind = "kline"
                                      /\ inbound[j].seq = k
      BY <2>2 DEF Pending
    <3>2. j - 1 \in DOMAIN Tail(inbound) /\ Tail(inbound)[j - 1] = inbound[j]
      BY <1>0, <1>b, <3>1, TailFrames DEF SkipsFrame
    <3> QED BY <1>b, <3>1, <3>2 DEF SkipsFrame, Pending
  <2> QED BY <1>b, <2>1, <2>2 DEF SkipsFrame, NoLossWithinConnection
<1>c. CASE GetsFrame
  <2>1. \A j \in DOMAIN inbound : j \in DOMAIN inbound'
                                  /\ inbound'[j] = inbound[j]
    BY <1>0, <1>c DEF GetsFrame, Other, OtherKinds, Frames
  <2> QED BY <1>c, <2>1 DEF GetsFrame, NoLossWithinConnection, Delivered, Pending
<1>d. CASE GetsKline
  <2>1. /\ \A j \in DOMAIN inbound : j \in DOMAIN inbound'
                                     /\ inbound'[j] = inbound[j]
        /\ Len(inbound) + 1 \in DOMAIN inbound'
        /\ inbound'[Len(inbound) + 1] = Kline(produced + 1)
    BY <1>0, <1>d DEF GetsKline, Kline, Frames
  <2> QED BY <1>d, <2>1
          DEF GetsKline, Kline, NoLossWithinConnection, Delivered, Pending
<1>e. CASE HandsOver
  <2>1. /\ \A i \in DOMAIN delivered : i \in DOMAIN delivered'
                                       /\ delivered'[i] = delivered[i]
        /\ Len(delivered) + 1 \in DOMAIN delivered'
        /\ delivered'[Len(delivered) + 1] = inbound[1].seq
    <3>1. Head(inbound).seq \in Nat /\ inbound[1] = Head(inbound)
      BY <1>0, <1>e, TailFrames DEF HandsOver, Frames
    <3> QED BY <1>0, <1>e, <3>1 DEF HandsOver
  <2>2. CASE k \in Delivered
    BY <2>1, <2>2 DEF Delivered
  <2>3. CASE k \in Pending
    <3>1. PICK j \in DOMAIN inbound : inbound[j].kind = "kline"
                                      /\ inbound[j].seq = k
      BY <2>3 DEF Pending
    <3>2. CASE j = 1
      BY <2>1, <3>1, <3>2 DEF Delivered
    <3>3. CASE j # 1
      <4>1. j - 1 \in DOMAIN Tail(inbound) /\ Tail(inbound)[j - 1] = inbound[j]
        BY <1>0, <1>e, <3>1, <3>3, TailFrames DEF HandsOver
      <4> QED BY <1>e, <3>1, <4>1 DEF HandsOver, Pending
    <3> QED BY <3>2, <3>3
  <2> QED BY <1>e, <2>2, <2>3 DEF HandsOver, NoLossWithinConnection
<1>f. CASE Reconnects
  BY <1>f DEF Reconnects
<1> QED BY <1>a, <1>b, <1>c, <1>d, <1>e, <1>f, FrameEffects

\* A poll that times out loses nothing: every kline that reached the socket has
\* been handed over or can still be read until the socket is replaced.
THEOREM FeedNoLoss == Spec => []NoLossWithinConnection
<1>1. Init => NoLossWithinConnection
  BY DEF Init, NoLossWithinConnection
<1> QED BY <1>1, LossNext, FeedTypes, PTL DEF Spec

-----------------------------------------------------------------------------
(* close() and the contract. *)

LEMMA ClosedNext ==
    ClosedIsTerminal /\ [Next]_vars => ClosedIsTerminal'
  BY DEF ClosedIsTerminal, Next, Network, ServerKline, MissedKline, ServerFrame,
         Drop, FallSilent, Caller, Poll, PollClosed, Close, Runtime, Read,
         ReadKline, ReadBadFrame, ReadControl, ReadPing, ReadClose, ReadEnded,
         ReadStalled, StartReconnect, PongSent, BackoffOver, PollExpires, Blocked, Tick,
         OpenResolved, OpenOk, OpenFailed, OpenExhausted, FutureGone,
         futureVars, historyVars, vars

\* Once the caller has called close(), however it ended, no poll reads or
\* reconnects again.
THEOREM FeedClosed == Spec => []ClosedIsTerminal
<1>1. Init => ClosedIsTerminal
  BY DEF Init, ClosedIsTerminal
<1> QED BY <1>1, ClosedNext, PTL DEF Spec

\* The last update handed over, in the contract's words.
LEMMA LastHandedOver ==
    ASSUME OrderInv, HandsOver
    PROVE  /\ Head(inbound).seq \in Abstract!LastReceived + 1 .. produced
           /\ Abstract!LastReceived \in Nat
<1>1. inbound \in Seq(Frames) /\ inbound # <<>> /\ delivered \in Seq(Nat)
      /\ produced \in Nat
  BY ConfigAssumption DEF OrderInv, TypeOK, HandsOver
<1>2. inbound[1] = Head(inbound) /\ Head(inbound).seq \in Nat
      /\ 1 \in DOMAIN inbound
  BY <1>1, TailFrames DEF Frames
<1>3. Head(inbound).seq <= produced
  BY <1>2 DEF OrderInv, NothingFromTheFuture, HandsOver
<1>4. CASE delivered = <<>>
  <2>1. Abstract!LastReceived = 0
    BY <1>4 DEF Abstract!LastReceived
  <2>2. 0 < Head(inbound).seq
    BY <1>2 DEF OrderInv, NothingFromTheFuture, HandsOver
  <2> QED BY <1>1, <1>2, <1>3, <2>1, <2>2
<1>5. CASE delivered # <<>>
  <2>1. Len(delivered) \in DOMAIN delivered
    BY <1>1, <1>5
  <2>2. Abstract!LastReceived = delivered[Len(delivered)]
    BY <1>5 DEF Abstract!LastReceived
  <2>3. delivered[Len(delivered)] < Head(inbound).seq
    BY <1>2, <2>1 DEF OrderInv, InOrder, HandsOver
  <2> QED BY <1>1, <1>2, <1>3, <2>1, <2>2, <2>3
<1> QED BY <1>4, <1>5

LEMMA ContractStep ==
    ASSUME OrderInv, ClosedIsTerminal, [Next]_vars
    PROVE  [Abstract!ContractNext]_(Abstract!contractVars)
<1> USE DEF Abstract!ContractNext, Abstract!contractVars
<1>1. CASE ReadKline
  <2>1. HandsOver
    BY <1>1 DEF ReadKline, HeadIs, HandsOver
  <2>2. ~closeRequested
    BY <1>1 DEF ReadKline, ClosedIsTerminal
  <2>3. UNCHANGED <<produced, closeRequested>>
    BY <1>1 DEF ReadKline
  <2>4. Abstract!Receive
    BY <2>1, <2>2, <2>3, LastHandedOver DEF Abstract!Receive, HandsOver
  <2> QED BY <2>4
<1>2. CASE Close
  <2>1. Abstract!Terminate
    BY <1>2 DEF Close, Abstract!Terminate
  <2> QED BY <2>1
<1>3. CASE ServerKline \/ MissedKline
  <2>1. Abstract!Publish
    BY <1>3 DEF ServerKline, MissedKline, historyVars, Abstract!Publish
  <2> QED BY <2>1
<1>4. CASE UNCHANGED <<produced, delivered, closeRequested>>
  BY <1>4
<1>5. \/ ReadKline \/ Close \/ ServerKline \/ MissedKline
      \/ UNCHANGED <<produced, delivered, closeRequested>>
  BY DEF Next, Network, ServerFrame, Drop, FallSilent, Caller, Poll, PollClosed,
         Runtime, Read, ReadBadFrame, ReadControl, ReadPing, ReadClose, ReadEnded,
         ReadStalled, PongSent, BackoffOver, PollExpires, Tick, OpenResolved, OpenOk,
         OpenFailed, OpenExhausted, historyVars, vars
<1> QED BY <1>1, <1>2, <1>3, <1>4, <1>5

\* The feed, with its sockets, timers, dropped polls and reconnects, implements
\* the contract: at most once, in order, nothing after close.
THEOREM FeedKeepsContract == Spec => KeepsContract
<1>1. Init => Abstract!ContractInit
  BY DEF Init, Abstract!ContractInit
<1>2. OrderInv /\ ClosedIsTerminal /\ [Next]_vars
          => [Abstract!ContractNext]_(Abstract!contractVars)
  BY ContractStep
<1> QED BY <1>1, <1>2, OrderInvariant, FeedClosed, PTL
        DEF Spec, KeepsContract, Abstract!Contract

-----------------------------------------------------------------------------
(* Without a poll timeout the loop counter of the pending call counts every  *)
(* open that failed since the last success: no future is ever dropped.       *)

Undropped ==
    /\ call # "idle" => pollLeft = NoTimeout
    /\ failedOpens = attempt
    /\ call \in {"idle", "reading", "ponging"} => attempt = 0

LEMMA UndroppedNext ==
    ASSUME PollTimeout = NoTimeout
    PROVE  TypeOK /\ Undropped /\ [Next]_vars => Undropped'
<1> SUFFICES ASSUME TypeOK, Undropped, [Next]_vars PROVE Undropped'
  OBVIOUS
<1>1. CASE PollExpires
  BY <1>1, ConfigAssumption DEF PollExpires, Blocked, Undropped
<1>2. CASE ReadKline \/ ReadBadFrame \/ ReadClose \/ ReadEnded \/ ReadStalled
           \/ Poll
  BY <1>2 DEF ReadKline, ReadBadFrame, ReadClose, ReadEnded, ReadStalled, Poll,
              StartReconnect, FutureGone, Undropped, historyVars
<1>3. CASE OpenResolved
  <2>1. CASE OpenFailed
    <3>1. Lesser(failedOpens + 1, MaxAttempts) = attempt + 1
      BY <2>1, ConfigAssumption
         DEF OpenFailed, LastAttempt, Undropped, TypeOK, Lesser
    <3> QED BY <2>1, <3>1 DEF OpenFailed, Undropped
  <2>2. CASE OpenOk \/ OpenExhausted
    BY <2>2 DEF OpenOk, OpenExhausted, FutureGone, Undropped
  <2> QED BY <1>3, <2>1, <2>2 DEF OpenResolved
<1>4. CASE Network \/ PollClosed \/ Close \/ ReadControl \/ ReadPing \/ PongSent
           \/ BackoffOver \/ Tick \/ UNCHANGED vars
  BY <1>4 DEF Network, ServerKline, MissedKline, ServerFrame, Drop, FallSilent,
              PollClosed, Close, ReadControl, ReadPing, PongSent, BackoffOver,
              Tick, Blocked,
              Undropped, futureVars, historyVars, vars
<1> QED BY <1>1, <1>2, <1>3, <1>4 DEF Next, Caller, Runtime, Read

\* A caller that awaits next_event is told after max_reconnect_attempts failed
\* opens in a row: no more of them pass silently.
THEOREM FeedRetriesBounded ==
    ASSUME PollTimeout = NoTimeout
    PROVE  Spec => []RetriesBeforeSurfacing
<1>1. Init => Undropped
  BY DEF Init, Undropped
<1>2. TypeOK /\ Undropped /\ [Next]_vars => Undropped'
  BY UndroppedNext
<1>3. TypeOK /\ Undropped => RetriesBeforeSurfacing
  BY ConfigAssumption DEF TypeOK, Undropped, RetriesBeforeSurfacing
<1> QED BY <1>1, <1>2, <1>3, FeedTypes, PTL DEF Spec

-----------------------------------------------------------------------------
(* The schedule of the back-off. *)

\* A set with one member more has twice the subsets: that is what is known of 2^n.
LEMMA PowerDoubles ==
    ASSUME NEW n \in Nat
    PROVE  2^n \in Nat /\ 2^(n + 1) = 2 * 2^n
<1> DEFINE A == 1 .. n
           B == 1 .. n + 1
           P == SUBSET A
           Q == {x \in SUBSET B : n + 1 \in x}
           f == [x \in P |-> x \cup {n + 1}]
<1>1. IsFiniteSet(A) /\ Cardinality(A) = n
  BY FS_Interval
<1>2. IsFiniteSet(B) /\ Cardinality(B) = n + 1
  BY FS_Interval
<1>3. IsFiniteSet(P) /\ Cardinality(P) = 2^n
  BY <1>1, FS_SUBSET
<1>4. Cardinality(SUBSET B) = 2^(n + 1)
  BY <1>2, FS_SUBSET
<1>5. f \in Bijection(P, Q)
  <2>1. f \in [P -> Q]
    OBVIOUS
  <2>2. ASSUME NEW x \in P, NEW y \in P, f[x] = f[y] PROVE x = y
    <3>1. n + 1 \notin x /\ n + 1 \notin y
      OBVIOUS
    <3> QED BY <2>2, <3>1
  <2>3. ASSUME NEW q \in Q PROVE \E x \in P : f[x] = q
    <3>1. q \ {n + 1} \in P /\ f[q \ {n + 1}] = q
      OBVIOUS
    <3> QED BY <3>1
  <2> QED BY <2>1, <2>2, <2>3 DEF Bijection, Injection, IsInjective, Surjection
<1>6. IsFiniteSet(Q) /\ Cardinality(Q) = Cardinality(P)
  BY <1>3, <1>5, FS_Bijection DEF ExistsBijection
<1>7. SUBSET B = P \cup Q /\ P \cap Q = {}
  OBVIOUS
<1> HIDE DEF A, B, P, Q, f
<1>8. Cardinality({}) = 0
  BY FS_EmptySet
<1>9. Cardinality(P \cup Q) = Cardinality(P) + Cardinality(Q) - 0
  BY <1>3, <1>6, <1>7, <1>8, FS_Union
<1>10. Cardinality(P) \in Nat
  BY <1>3, FS_CardinalityType
<1>11. Cardinality(SUBSET B) = 2 * Cardinality(P)
  <2>1. Cardinality(SUBSET B) = Cardinality(P \cup Q)
    BY <1>7
  <2> DEFINE c == Cardinality(P)
             d == Cardinality(Q)
             e == Cardinality(P \cup Q)
  <2>2. c \in Nat /\ d = c /\ e = c + d - 0
    BY <1>6, <1>9, <1>10
  <2> HIDE DEF c, d, e
  <2>3. e = 2 * c
    BY <2>2
  <2> QED BY <2>1, <2>3 DEF c, e
<1> QED BY <1>3, <1>4, <1>10, <1>11, Zenon

LEMMA ScheduleStarts == Schedule[0] = InitialDelay
  BY DEF Schedule

\* Doubling the delay and cutting it is the next delay of the schedule.
LEMMA ScheduleGrows ==
    ASSUME NEW n \in Nat
    PROVE  Lesser(2 * Schedule[n], MaxBackoff) = Schedule[n + 1]
<1>1. Schedule[n + 1] = Lesser(InitialDelay * 2^(n + 1), MaxBackoff)
  BY DEF Schedule
<1>2. InitialDelay \in Nat /\ MaxBackoff \in Nat
  BY ConfigAssumption
<1>3. CASE n = 0
  <2>1. 2^(n + 1) = 2
    BY <1>3
  <2> QED BY <1>1, <1>3, <2>1, ScheduleStarts, <1>2 DEF Lesser
<1>4. CASE n # 0
  <2>1. Schedule[n] = Lesser(InitialDelay * 2^n, MaxBackoff)
    BY <1>4 DEF Schedule
  <2> DEFINE p == InitialDelay * 2^n
  <2>2. p \in Nat /\ InitialDelay * 2^(n + 1) = 2 * p
    <3>1. 2^n \in Nat /\ 2^(n + 1) = 2 * 2^n
      BY PowerDoubles
    <3>2. \A a, b \in Nat : a * b \in Nat /\ a * (2 * b) = 2 * (a * b)
      OBVIOUS
    <3> QED BY <1>2, <3>1, <3>2
  <2> HIDE DEF p
  <2>3. Schedule[n] = Lesser(p, MaxBackoff) /\ Schedule[n + 1] = Lesser(2 * p, MaxBackoff)
    BY <1>1, <2>1, <2>2 DEF p
  <2> QED BY <1>2, <2>2, <2>3 DEF Lesser
<1> QED BY <1>3, <1>4

OnSchedule == call \in {"backoff", "opening"} => delay = Schedule[failedOpens]

LEMMA ScheduleNext ==
    TypeOK /\ Undropped /\ OnSchedule /\ [Next]_vars => OnSchedule'
<1> SUFFICES ASSUME TypeOK, Undropped, OnSchedule, [Next]_vars PROVE OnSchedule'
  OBVIOUS
<1>1. CASE ReadClose \/ ReadEnded \/ ReadStalled
  <2>1. delay' = InitialDelay /\ failedOpens' = failedOpens /\ failedOpens = 0
    BY <1>1 DEF ReadClose, ReadEnded, ReadStalled, StartReconnect, historyVars, Undropped
  <2> QED BY <2>1, ScheduleStarts DEF OnSchedule
<1>2. CASE OpenFailed
  <2>1. /\ call = "opening" /\ attempt + 1 < MaxAttempts /\ attempt \in Nat
        /\ failedOpens = attempt
    BY <1>2, ConfigAssumption DEF OpenFailed, LastAttempt, TypeOK, Undropped
  <2>2. failedOpens' = failedOpens + 1
    BY <1>2, <2>1, ConfigAssumption DEF OpenFailed, Lesser
  <2>3. delay' = Lesser(2 * Schedule[failedOpens], MaxBackoff)
    BY <1>2, <2>1 DEF OpenFailed, NextDelay, OnSchedule
  <2> QED BY <2>1, <2>2, <2>3, ScheduleGrows DEF OnSchedule
<1>3. CASE ReadKline \/ ReadBadFrame \/ ReadControl \/ ReadPing \/ PongSent \/ Poll
           \/ PollExpires \/ OpenOk \/ OpenExhausted
  BY <1>3 DEF ReadKline, ReadBadFrame, ReadControl, ReadPing, PongSent, Poll, PollExpires,
              OpenOk, OpenExhausted, FutureGone, OnSchedule
<1>4. CASE Network \/ PollClosed \/ Close \/ BackoffOver \/ Tick \/ UNCHANGED vars
  BY <1>4 DEF Network, ServerKline, MissedKline, ServerFrame, Drop, FallSilent,
              PollClosed, Close, BackoffOver, Tick,
              OnSchedule, futureVars, historyVars, vars
<1> QED BY <1>1, <1>2, <1>3, <1>4 DEF Next, Caller, Runtime, Read, OpenResolved

\* A caller that awaits next_event has each sleep of a reconnect on schedule: the
\* first delay doubled as often as a handshake has failed, cut at the maximum.
THEOREM FeedBackoffFollowsSchedule ==
    ASSUME PollTimeout = NoTimeout
    PROVE  Spec => []BackoffFollowsSchedule
<1>1. Init => Undropped /\ OnSchedule
  BY DEF Init, Undropped, OnSchedule
<1>2. TypeOK /\ Undropped /\ [Next]_vars => Undropped'
  BY UndroppedNext
<1>3. OnSchedule => BackoffFollowsSchedule
  BY DEF OnSchedule, BackoffFollowsSchedule
<1> QED BY <1>1, <1>2, <1>3, ScheduleNext, FeedTypes, PTL DEF Spec

=============================================================================
