----------------------------- MODULE MCConnect -----------------------------
(***************************************************************************)
(* Connect for TLC: DSNs of every form, with timeouts disabled, short and  *)
(* default, no parameters, good ones and refused ones; tunes that keep,    *)
(* zero, disable, shorten and raise; bounds on both sides of each edge.    *)
(***************************************************************************)
EXTENDS Connect

MCParams ==
    {<<>>,
     [k \in {"application_name"} |-> 7],
     [k \in {"application_name", Setting} |-> 2],
     [k \in {Setting} |-> MaxSetting + 1],
     [k \in {"aplication_name"} |-> 7],
     [k \in {"password"} |-> 7]}

MCDSNs ==
    [form : {"plain"}, dial : {-1, 1, DefaultDial}, read : {-1, 1, DefaultRead},
     params : MCParams]
    \union
    [form : Forms \ {"plain"}, dial : {DefaultDial}, read : {DefaultRead},
     params : {<<>>, [k \in {"application_name"} |-> 7]}]

MCTunes ==
    [dial : {Keep, -1, 0, 4}, read : {Keep, -1, 0, 1},
     bound : {Keep, -1500, -1, 0, 1, 999, 1000, 2500,
              1000 * MaxSetting + 999, 1000 * (MaxSetting + 1)}]
=============================================================================
