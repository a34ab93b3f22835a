---------------------------- MODULE SlidingWindow ----------------------------
(***************************************************************************)
(* What an indicator over a fixed window promises (Indicator of            *)
(* crates/wickra-core/src/traits.rs), without saying how the window is     *)
(* stored: it looks at the last Width inputs it accepted, answers an input *)
(* if and only if that input is accepted and the window is full with it,   *)
(* and skips a rejected input altogether.                                  *)
(***************************************************************************)
EXTENDS Naturals, Sequences

CONSTANTS
    Width,      \* the period
    Inputs      \* the inputs it accepts

VARIABLES
    window,     \* the last inputs accepted, oldest first
    answered    \* was the last input answered with a value

windowVars == <<window, answered>>

WindowInit == window = <<>> /\ answered = FALSE

Accept(x) ==
    /\ window' = IF Len(window) < Width THEN Append(window, x)
                 ELSE Append(Tail(window), x)
    /\ answered' = (Len(window') = Width)

Reject == answered' = FALSE /\ UNCHANGED window

Forget == window' = <<>> /\ UNCHANGED answered

\* A whole slice at once, into an empty window.
AcceptSlice ==
    /\ window = <<>>
    /\ window' \in [1 .. Width -> Inputs]
    /\ answered' = TRUE

WindowNext == (\E x \in Inputs : Accept(x)) \/ Reject \/ Forget \/ AcceptSlice

WindowSpec == WindowInit /\ [][WindowNext]_windowVars

=============================================================================
