--------------------------- MODULE MCCandleReader ---------------------------
(* Files with and without a mark, with half of one, and with nothing else. *)
EXTENDS CandleReader

Bodies ==
    {<<>>, <<"header">>, <<"good", "good">>, <<"header", "good">>,
     <<"header", "good", "bad", "good">>,
     <<"header", "good", "good", "good", "bad", "good", "good">>}
MCFiles == {prefix \o body : prefix \in {<<>>, <<"EF">>, <<"EF", "BB">>, Bom}, body \in Bodies}

=============================================================================
