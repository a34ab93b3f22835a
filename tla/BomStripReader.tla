--------------------------- MODULE BomStripReader ---------------------------
(***************************************************************************)
(* BomStripReader of crates/wickra-data/src/csv.rs: a source of bytes that *)
(* drops a leading UTF-8 byte-order mark.  The first read probes three     *)
(* bytes and keeps what turns out not to be the mark.  The source below    *)
(* answers a read with fewer bytes than asked for whenever it likes, and   *)
(* may fail.                                                               *)
(*                                                                         *)
(* The bytes of a mark are members of the file of their own, every line is *)
(* one member whatever its length.                                         *)
(***************************************************************************)
EXTENDS Integers, SequencesExt

CONSTANTS
    Files,      \* the files that may be opened
    BufLen      \* how much the consumer asks for, at most

ASSUME BufLenAssumption == BufLen \in Nat \ {0}

\* What a file is made of: the bytes of marks, and lines.
Members == {"EF", "BB", "BF", "header", "good", "bad"}

ASSUME FilesAssumption == Files \subseteq Seq(Members)

Bom == <<"EF", "BB", "BF">>

VARIABLES
    file,       \* the file being read
    rest,       \* what the source has not given away yet
    checked,    \* has the probe begun
    probing,    \* is it under way
    probe,      \* the bytes it has
    leftover,   \* the bytes probed that were no mark and have not been handed on
    handed,     \* history: what the consumer was given
    ended,      \* has the consumer been told of the end
    failed      \* has the consumer been told of an error

readerVars == <<file, rest, checked, probing, probe, leftover, handed, ended, failed>>

ReaderInit ==
    /\ file \in Files
    /\ rest = file
    /\ checked = FALSE
    /\ probing = FALSE
    /\ probe = <<>>
    /\ leftover = <<>>
    /\ handed = <<>>
    /\ ended = FALSE
    /\ failed = FALSE

First(s, n) == SubSeq(s, 1, n)
Behind(s, n) == SubSeq(s, n + 1, Len(s))
UpTo(n, s) == 1 .. (IF Len(s) < n THEN Len(s) ELSE n)

-----------------------------------------------------------------------------
(* check_bom. *)

Check ==
    /\ ~checked
    /\ checked' = TRUE
    /\ probing' = TRUE
    /\ UNCHANGED <<file, rest, probe, leftover, handed, ended, failed>>

ProbeRead ==
    /\ probing
    /\ \E n \in UpTo(Len(Bom) - Len(probe), rest) :
          /\ probe' = probe \o First(rest, n)
          /\ rest' = Behind(rest, n)
    /\ UNCHANGED <<file, checked, probing, leftover, handed, ended, failed>>

\* Mutant: the first short read ends the probe.
ProbeOverEarly ==
    /\ probing
    /\ probe # <<>> \/ rest = <<>>
    /\ probing' = FALSE
    /\ leftover' = IF probe = Bom THEN <<>> ELSE probe
    /\ UNCHANGED <<file, rest, checked, probe, handed, ended, failed>>

\* Mutant: the probe waits for three bytes even of a source that has fewer.
ProbeOverFull ==
    /\ probing
    /\ Len(probe) = Len(Bom)
    /\ probing' = FALSE
    /\ leftover' = IF probe = Bom THEN <<>> ELSE probe
    /\ UNCHANGED <<file, rest, checked, probe, handed, ended, failed>>

ProbeOver ==
    /\ probing
    /\ Len(probe) = Len(Bom) \/ rest = <<>>
    /\ probing' = FALSE
    /\ leftover' = IF probe = Bom THEN <<>> ELSE probe
    /\ UNCHANGED <<file, rest, checked, probe, handed, ended, failed>>

\* An error leaves the loop by its ?, and what was probed is never looked at again.
ProbeFails ==
    /\ probing
    /\ Len(probe) < Len(Bom)
    /\ probing' = FALSE
    /\ failed' = TRUE
    /\ UNCHANGED <<file, rest, checked, probe, leftover, handed, ended>>

-----------------------------------------------------------------------------
(* read, once the start of the file has been probed. *)

Probed == checked /\ ~probing

ReadLeftover ==
    /\ Probed
    /\ leftover # <<>>
    /\ LET n == IF Len(leftover) < BufLen THEN Len(leftover) ELSE BufLen
       IN  /\ handed' = handed \o First(leftover, n)
           /\ leftover' = Behind(leftover, n)
    /\ UNCHANGED <<file, rest, checked, probing, probe, ended, failed>>

\* Mutant: a read looks at the source first.
ReadInnerFirst ==
    /\ Probed
    /\ \E n \in UpTo(BufLen, rest) :
          /\ handed' = handed \o First(rest, n)
          /\ rest' = Behind(rest, n)
    /\ UNCHANGED <<file, checked, probing, probe, leftover, ended, failed>>

ReadInner ==
    /\ Probed
    /\ leftover = <<>>
    /\ \E n \in UpTo(BufLen, rest) :
          /\ handed' = handed \o First(rest, n)
          /\ rest' = Behind(rest, n)
    /\ UNCHANGED <<file, checked, probing, probe, leftover, ended, failed>>

ReadEnd ==
    /\ Probed
    /\ leftover = <<>>
    /\ rest = <<>>
    /\ ended' = TRUE
    /\ UNCHANGED <<file, rest, checked, probing, probe, leftover, handed, failed>>

ReadFails ==
    /\ Probed
    /\ leftover = <<>>
    /\ failed' = TRUE
    /\ UNCHANGED <<file, rest, checked, probing, probe, leftover, handed, ended>>

\* What the source does with a read that was called, whichever bytes it has.
Reading ==
    Check \/ ProbeRead \/ ProbeOver \/ ReadLeftover \/ ReadInner \/ ReadEnd
Failing == ProbeFails \/ ReadFails

=============================================================================
