-------------------------------- MODULE MCWebGis -------------------------------
(* A small page and a small table for TLC. *)
EXTENDS WebGis

MCContextSeq == <<"c1", "c2">>
MCVisible(area) == {area, area + 1}
MCMatches(text) == IF text \in Titles THEN {text} ELSE Titles
MCCompletes(text, title) == text \in {"", title} \/ (text = "k" /\ title = "ka")
MCAnswers == {<<"ka">>, <<"ka", "bk">>, <<"none">>}
MCBaseLayers == <<"amap", "amap satellite", "google", "google satellite">>
===============================================================================
