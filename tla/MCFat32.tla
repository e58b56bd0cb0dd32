------------------------------ MODULE MCFat32 ------------------------------
(* Values for the constants of Fat32: an empty payload, one that fits a    *)
(* cluster and one that does not.                                          *)
EXTENDS Fat32

MCPayloads == {<<>>, <<"x">>, <<"y", "x", "x">>}

MCEmpty == {<<>>}
=============================================================================
