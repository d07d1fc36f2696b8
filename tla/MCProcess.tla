----------------------------- MODULE MCProcess -----------------------------
(***************************************************************************)
(* Process with one handler and configurations of two entries.  Handlers   *)
(* share nothing but the installed routes, which they only read: one of    *)
(* them meets everything that two do.                                      *)
(***************************************************************************)
EXTENDS Process

Backend  == [redirect |-> FALSE, error |-> FALSE, backend |-> TRUE]
Redirect == [redirect |-> TRUE,  error |-> FALSE, backend |-> FALSE]
Error    == [redirect |-> FALSE, error |-> TRUE,  backend |-> FALSE]
Nothing  == [redirect |-> FALSE, error |-> FALSE, backend |-> FALSE]

Both == {"q1", "q2"}

Match(t, l, n, hits, r) ==
  [matchless |-> FALSE, type |-> t, len |-> l, headers |-> n, hits |-> hits, rule |-> r]
Bare(hits, r) == [Match("", 0, 0, hits, r) EXCEPT !.matchless = TRUE]

MCConfigs == {
  <<>>,
  \* a prefix for both requests, an exact path for one of them, in either order
  <<Match("Exact", 2, 0, {"q1"}, Redirect), Match("PathPrefix", 1, 0, Both, Backend)>>,
  <<Match("PathPrefix", 1, 0, Both, Backend), Match("Exact", 2, 0, {"q1"}, Redirect)>>,
  \* headers decide, and a rule without matches is in the way
  <<Bare(Both, Nothing), Match("", 0, 1, {"q2"}, Error)>> }

MCServerOf == [h \in {"s1"} |-> "http"]
=============================================================================
