------------------------------- MODULE MCSma --------------------------------
(* Inputs of both signs, which a .cfg cannot write. *)
EXTENDS Sma

MCValues == {-3, 2, 12}

=============================================================================
