------------------------------ MODULE Matching ------------------------------
(***************************************************************************)
(* What MatchRoute compares, and which rule is the right one.              *)
(*                                                                         *)
(* MatchRoute scans the installed InternalRoutes route by route, rule by   *)
(* rule and match by match, so they are flattened here into one sequence   *)
(* of entries in scan order.  An entry is a match of a rule, or a rule     *)
(* that has no matches.  The requests it accepts, by the hostnames of its  *)
(* route, its path and its headers, are the set hits; its precedence is    *)
(* [type, len, headers].                                                   *)
(***************************************************************************)
EXTENDS Integers, Sequences

CONSTANT Requests  \* host, path and headers of a request

Types   == {"", "PathPrefix", "Exact", "RegularExpression"}
Replies == {"redirect", "error", "backend", "notFound"}

Rules == [redirect : BOOLEAN, error : BOOLEAN, backend : BOOLEAN]

Entries ==
  [matchless : BOOLEAN, type : Types, len : Nat, headers : Nat,
   hits : SUBSET Requests, rule : Rules]

(* The precedence of matches. *)

\* getPathMatchTypeWeight.
Weight(t) ==
  IF t = "Exact" THEN 3
  ELSE IF t = "PathPrefix" THEN 2
  ELSE IF t = "" THEN 1 ELSE 0

\* isBetterMatch, for a best match that is not nil.
Better(m, b) ==
  \/ m.type # b.type /\ Weight(m.type) > Weight(b.type)
  \/ m.type = b.type /\ m.len > b.len
  \/ m.type = b.type /\ m.len = b.len /\ m.headers > b.headers

\* The entries among the first n of c that accept the request q.
Hits(c, q, n) == {i \in 1..n : q \in c[i].hits}

\* What ServeHTTP does with the rule that was found.
Answer(c, i) ==
  IF i = 0 THEN "notFound"
  ELSE IF c[i].rule.redirect THEN "redirect"
  ELSE IF c[i].rule.error THEN "error"
  ELSE IF c[i].rule.backend THEN "backend"
  ELSE "notFound"

\* Entry i is the right one for request q among the first n of c: it accepts
\* q, no match that does takes precedence over it, and of equal ones it is the
\* first.  A rule without matches stands only if it is the first of all to
\* accept q, and then like a match of no path and no headers.
RightUpTo(c, q, i, n) ==
  LET H == Hits(c, q, n) IN
  IF H = {} THEN i = 0
  ELSE /\ i \in H
       /\ c[i].matchless => \A j \in H : i <= j
       /\ \A j \in H : ~c[j].matchless => ~Better(c[j], c[i])
       /\ \A j \in H : j < i /\ (c[j].matchless => \A k \in H : j <= k)
                         => Better(c[i], c[j])

=============================================================================
