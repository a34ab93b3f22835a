--------------------------- MODULE MCDataPipeline ---------------------------
(* Values of the pipeline's constants that a .cfg cannot write. *)
EXTENDS DataPipeline

MCTsMin == -TsMax - 1
MCTickTimes == {-3, -1, 0, 2, 5, 7, 9}

=============================================================================
