------------------------------ MODULE MCFields -------------------------------
(* Names that differ in the case of their letters alone.                   *)
EXTENDS Fields

MCBaseModel == <<"A", "A">>
CaseNames == {<<"I", "D">>, <<"A", "D", "i", "D">>, <<"A", "d", "i", "D">>, <<"D">>}
MCColumns == {Default, <<"d">>, <<",">>}
MCBad     == <<",">>
=============================================================================
