---------------------------- MODULE FeedContract ----------------------------
(***************************************************************************)
(* What a live kline feed promises its caller, with everything about       *)
(* sockets, timers and reconnects left out: the exchange produces updates  *)
(* 1, 2, 3, ... and the caller receives some of them, each at most once,   *)
(* never out of order, never one that does not exist yet, and none after   *)
(* it closed the feed.  Updates may be skipped (the feed does not replay   *)
(* what it missed while it was disconnected).                              *)
(***************************************************************************)
EXTENDS Naturals, Sequences

VARIABLES
    published,   \* the number of updates the exchange has produced
    received,    \* the updates handed to the caller, in hand-over order
    terminated   \* has the caller closed the feed

contractVars == <<published, received, terminated>>

\* The last update the caller has seen, 0 when it has seen none.
LastReceived == IF received = <<>> THEN 0 ELSE received[Len(received)]

ContractInit ==
    /\ published = 0
    /\ received = <<>>
    /\ terminated = FALSE

Publish ==
    /\ published' = published + 1
    /\ UNCHANGED <<received, terminated>>

Receive ==
    /\ ~terminated
    /\ \E k \in LastReceived + 1 .. published :
           received' = Append(received, k)
    /\ UNCHANGED <<published, terminated>>

Terminate ==
    /\ terminated' = TRUE
    /\ UNCHANGED <<published, received>>

ContractNext == Publish \/ Receive \/ Terminate

Contract == ContractInit /\ [][ContractNext]_contractVars

=============================================================================
