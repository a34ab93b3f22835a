---------------------------- MODULE CandleSource ----------------------------
(***************************************************************************)
(* What a CandleReader promises: it answers for every row of the file, in  *)
(* the order of the file and once, a row that does not decode included,    *)
(* and says that there are no more rows only at the end of the file or     *)
(* once reading it has failed.                                             *)
(***************************************************************************)
EXTENDS Integers, Sequences

VARIABLES
    rows,       \* the rows of the file
    answers,    \* what was answered, row by row
    failed,     \* has reading the file failed
    over        \* has the end been reported

sourceVars == <<rows, answers, failed, over>>

Init ==
    /\ answers = <<>>
    /\ failed = FALSE
    /\ over = FALSE

Answer ==
    /\ ~over
    /\ Len(answers) < Len(rows)
    /\ answers' = Append(answers, rows[Len(answers) + 1])
    /\ UNCHANGED <<rows, failed, over>>

Fail ==
    /\ failed' = TRUE
    /\ UNCHANGED <<rows, answers, over>>

End ==
    /\ answers = rows \/ failed
    /\ over' = TRUE
    /\ UNCHANGED <<rows, answers, failed>>

Next == Answer \/ Fail \/ End

Spec == Init /\ [][Next]_sourceVars

=============================================================================
