----------------------------- MODULE Hostnames -----------------------------
(***************************************************************************)
(* Hostnames of listeners and routes: their intersection (pkg/state/       *)
(* utils.go) and the hosts an InternalRoute matches.                       *)
(*                                                                         *)
(* A hostname is the sequence of its labels.  "" is the empty sequence,    *)
(* "*" the single label Star, and "*.a.b" is <<Star, "a", "b">>.  A suffix *)
(* test of the code starts at a dot, so it is one on whole labels.         *)
(***************************************************************************)
EXTENDS Integers, Sequences

CONSTANT Labels  \* the labels hosts are made of

Star == "*"

\* Hostnames of listeners and routes, and hosts of requests, which have no
\* wildcard label.
HostPatterns == Seq(Labels \union {Star})
Hosts == {h \in Seq(Labels \ {Star}) : h # <<>>}

\* Both "*" and "" stand for every host.
AnyName(p) == p = <<>> \/ p = <<Star>>

\* HasPrefix(p, "*.").
Wild(p) == Len(p) > 1 /\ p[1] = Star

\* HasSuffix(p, w[1:]), for a wildcard w: p ends with the labels of w after
\* the first, and has at least one before them.
Under(p, w) ==
  /\ Len(p) >= Len(w)
  /\ \A i \in 2..Len(w) : p[Len(p) - Len(w) + i] = w[i]

\* Intersect: the one name, or none.
Intersect(a, b) ==
  IF AnyName(a) THEN {b}
  ELSE IF AnyName(b) THEN {a}
  ELSE IF a = b THEN {a}
  ELSE IF Wild(b) /\ Under(a, b) THEN {a}
  ELSE IF Wild(a) /\ Under(b, a) THEN {b}
  ELSE {}

\* IntersectHostnames, for the set of a route's hostnames.
IntersectHostnames(names, listener) ==
  IF AnyName(listener) THEN IF names = {} THEN {<<Star>>} ELSE names
  ELSE IF names = {} THEN {listener}
  ELSE UNION {Intersect(n, listener) : n \in names}

\* MatchHostname: no hostnames match every host, and "" matches none.
MatchHostname(names, host) ==
  \/ names = {}
  \/ \E p \in names : p = <<Star>> \/ p = host \/ (Wild(p) /\ Under(host, p))

----------------------------------------------------------------------------
(* What hostnames mean. *)

\* The hosts a hostname stands for: all, one, or those with its labels after
\* the first, and at least one more before them.
StandsFor(p, host) ==
  \/ AnyName(p)
  \/ p = host
  \/ /\ Wild(p)
     /\ \E n \in 1..Len(host) : SubSeq(host, n + 1, Len(host)) = Tail(p)

=============================================================================
