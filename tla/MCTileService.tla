--------------------------- MODULE MCTileService ---------------------------
\* Instances of TileService: the requests clients may send, and symmetry.
EXTENDS TileService, TLC

CONSTANTS t1, t2, k1, k2, a

Req(form, tile_, keep) == [form |-> form, tile |-> tile_, keepAlive |-> keep]

\* One tile in both forms, a request answered by closing, one never answered.
EveryForm == {Req("path", a, TRUE), Req("query", a, TRUE),
              Req("other", a, FALSE), Req("malformed", a, TRUE)}

\* A tile, and the requests that are answered at once or not at all.
LiveForms == {Req("query", a, TRUE), Req("other", a, FALSE), Req("malformed", a, TRUE)}

\* One tile in the path form.
PathForm == {Req("path", a, TRUE)}

\* Threads and connections are interchangeable.
Symmetry == Permutations({t1, t2}) \cup Permutations({k1, k2})
=============================================================================
