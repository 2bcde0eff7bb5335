------------------------------ MODULE MCSplice -------------------------------
(* Names with initialisms, with neighbours in either case, and a bad one;  *)
(* the paths a resolver file imports, a fork of luima among them.          *)
EXTENDS Splice

MCBaseModel == <<"A", "A">>
MCNames   == {<<"I", "D">>, <<"I", "d">>, <<"A", "I", "D">>, <<"A", "i", "d">>, <<"A", "i", "D">>,
              <<"D">>, <<"a", "D">>, <<"A", "_">>, MCBaseModel}
MCColumns == {Default, <<"d">>, <<",">>}
MCBad     == <<",">>

MCPaths == {Fmt, Luima, Bun, [mod |-> "acme", pkg |-> "luima"]}
=============================================================================
