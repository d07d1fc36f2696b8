--------------------------- MODULE MatchingProofs ---------------------------
(***************************************************************************)
(* Proofs about the operators of Matching and Hostnames.                   *)
(*                                                                         *)
(* Looking at one more entry keeps the best entry right among those looked *)
(* at (ScanStep).  It rests on isBetterMatch being a strict weak order,    *)
(* which holds because no two path types have the same weight.             *)
(*                                                                         *)
(* Intersect is the intersection of the sets of hosts its arguments stand  *)
(* for, for hostnames of any length over any labels.                       *)
(***************************************************************************)
EXTENDS Matching, Hostnames, SequenceTheorems, WellFoundedInduction, TLAPS

----------------------------------------------------------------------------
(* Induction on the naturals, over a set of them. *)

LEMMA LeastNumber ==
  ASSUME NEW S, S \subseteq Nat, S # {} PROVE \E n \in S : \A m \in S : ~(m < n)
<1> DEFINE R == {ss \in Nat \X Nat : ss[1] < ss[2]}
<1>1. IsWellFoundedOn(R, Nat)
  BY NatLessThanWellFounded DEF OpToRel
<1> HIDE DEF R
<1>2. PICK n \in S : \A m \in S : <<m, n>> \notin R
  BY <1>1, WFMin
<1>3. \A m, k \in Nat : m < k => <<m, k>> \in R
  BY DEF R
<1> QED
  BY <1>2, <1>3

LEMMA Induction ==
  ASSUME NEW S, 0 \in S, \A n \in Nat : n \in S => n + 1 \in S PROVE Nat \subseteq S
<1> SUFFICES ASSUME Nat \ S # {} PROVE FALSE
  OBVIOUS
<1>1. PICK n \in Nat \ S : \A m \in Nat \ S : ~(m < n)
  BY LeastNumber
<1>2. n # 0 /\ n - 1 \in Nat /\ n - 1 < n
  BY <1>1
<1>3. n - 1 \in S
  BY <1>1, <1>2
<1> QED
  BY <1>1, <1>2, <1>3

----------------------------------------------------------------------------
(* isBetterMatch. *)

\* Different path types have different weights.
LEMMA WeightInjective ==
  \A s, t \in Types : Weight(s) \in 0..3 /\ (Weight(s) = Weight(t) => s = t)
<1>1. "" # "Exact" /\ "" # "PathPrefix" /\ "" # "RegularExpression"
  OBVIOUS
<1>2. "Exact" # "PathPrefix" /\ "Exact" # "RegularExpression" /\ "PathPrefix" # "RegularExpression"
  OBVIOUS
<1>3. /\ Weight("Exact") = 3
      /\ Weight("PathPrefix") = 2
      /\ Weight("") = 1
      /\ Weight("RegularExpression") = 0
  BY <1>1, <1>2 DEF Weight
<1> QED
  <2>1. \A t \in Types :
          \/ t = "Exact" /\ Weight(t) = 3
          \/ t = "PathPrefix" /\ Weight(t) = 2
          \/ t = "" /\ Weight(t) = 1
          \/ t = "RegularExpression" /\ Weight(t) = 0
    BY <1>3, Zenon DEF Types
  <2>2. ASSUME NEW s \in Types, NEW t \in Types
        PROVE  Weight(s) \in 0..3 /\ (Weight(s) = Weight(t) => s = t)
    <3> DEFINE v == Weight(s)  w == Weight(t)
    <3>1. v \in 0..3
      <4>1. v = 3 \/ v = 2 \/ v = 1 \/ v = 0
        BY <2>1
      <4> HIDE DEF v
      <4> QED
        BY <4>1
    <3>2. v = w => s = t
      <4>1. 3 # 2 /\ 3 # 1 /\ 3 # 0 /\ 2 # 1 /\ 2 # 0 /\ 1 # 0
        OBVIOUS
      <4> QED
        BY <2>1, <4>1, Zenon
    <3> QED
      BY <3>1, <3>2
  <2> QED
    BY <2>2

\* What isBetterMatch looks at.
Comparable(m) == m.type \in Types /\ m.len \in Nat /\ m.headers \in Nat

\* A list MatchRoute may scan.
Scannable(c) ==
  /\ Len(c) \in Nat
  /\ \A i \in 1..Len(c) : Comparable(c[i]) /\ c[i].matchless \in BOOLEAN

\* No match is better than itself.
LEMMA BetterIrreflexive == ASSUME NEW m, Comparable(m) PROVE ~Better(m, m)
  BY DEF Better, Comparable

\* A match that is better than a better one is better.
LEMMA BetterTransitive ==
  ASSUME NEW m, Comparable(m), NEW n, Comparable(n), NEW o, Comparable(o),
         Better(m, n), Better(n, o)
  PROVE  Better(m, o)
  BY WeightInjective DEF Better, Comparable

\* What does not beat the best one is beaten by what does.
LEMMA BetterNegative ==
  ASSUME NEW m, Comparable(m), NEW n, Comparable(n), NEW o, Comparable(o),
         Better(m, n), ~Better(o, n)
  PROVE  Better(m, o)
  BY WeightInjective DEF Better, Comparable

----------------------------------------------------------------------------
(* One step of the scan. *)

\* The entry that Look leaves as the best one.
Next1(c, q, b, n) ==
  IF q \in c[n].hits /\ (b = 0 \/ (~c[n].matchless /\ Better(c[n], c[b]))) THEN n ELSE b

LEMMA ScanStep ==
  ASSUME NEW c, Scannable(c), NEW q, NEW n \in 1..Len(c), NEW b \in 0..(n - 1),
         RightUpTo(c, q, b, n - 1)
  PROVE  /\ Next1(c, q, b, n) \in 0..n
         /\ RightUpTo(c, q, Next1(c, q, b, n), n)
<1> DEFINE H == Hits(c, q, n - 1)
           K == Hits(c, q, n)
           i == Next1(c, q, b, n)
<1>0. /\ Len(c) \in Nat /\ n \in Nat /\ b \in Nat
      /\ \A j \in 1..n : Comparable(c[j]) /\ c[j].matchless \in BOOLEAN
  BY DEF Scannable
<1>1. K = IF q \in c[n].hits THEN H \union {n} ELSE H
  BY <1>0 DEF Hits
<1>2. H \subseteq 1..(n - 1) /\ n \notin H /\ \A j \in H : j < n
  BY <1>0 DEF Hits
<1>3. i \in 0..n
  BY <1>0 DEF Next1
<1>4. IF H = {} THEN b = 0
      ELSE /\ b \in H
           /\ c[b].matchless => \A j \in H : b <= j
           /\ \A j \in H : ~c[j].matchless => ~Better(c[j], c[b])
           /\ \A j \in H : j < b /\ (c[j].matchless => \A k \in H : j <= k)
                             => Better(c[b], c[j])
  BY DEF RightUpTo
<1>g. SUFFICES
      IF K = {} THEN i = 0
      ELSE /\ i \in K
           /\ c[i].matchless => \A j \in K : i <= j
           /\ \A j \in K : ~c[j].matchless => ~Better(c[j], c[i])
           /\ \A j \in K : j < i /\ (c[j].matchless => \A k \in K : j <= k)
                             => Better(c[i], c[j])
  BY <1>3 DEF RightUpTo
<1>5. CASE q \notin c[n].hits
  <2>1. K = H /\ i = b
    BY <1>1, <1>5 DEF Next1
  <2> QED
    BY <1>4, <2>1
<1>6. CASE q \in c[n].hits /\ b = 0
  <2>1. i = n
    BY <1>6 DEF Next1
  <2>2. H = {} /\ K = {n}
    BY <1>0, <1>1, <1>2, <1>4, <1>6
  <2> QED
    BY <1>0, <2>1, <2>2, BetterIrreflexive
<1>7. CASE q \in c[n].hits /\ b # 0 /\ ~(~c[n].matchless /\ Better(c[n], c[b]))
  <2>1. i = b /\ K = H \union {n} /\ b \in H /\ b < n
    BY <1>1, <1>2, <1>4, <1>7 DEF Next1
  <2>2. c[b].matchless => \A j \in K : b <= j
    BY <1>0, <1>4, <2>1
  <2>3. \A j \in K : ~c[j].matchless => ~Better(c[j], c[b])
    BY <1>4, <1>7, <2>1
  <2>4. ASSUME NEW j \in K, j < b, c[j].matchless => \A k \in K : j <= k
        PROVE  Better(c[b], c[j])
    <3>1. j \in H
      BY <1>0, <2>1, <2>4
    <3> QED
      BY <1>4, <2>1, <2>4, <3>1
  <2> QED
    BY <2>1, <2>2, <2>3, <2>4
<1>8. CASE q \in c[n].hits /\ b # 0 /\ ~c[n].matchless /\ Better(c[n], c[b])
  <2>1. i = n /\ K = H \union {n} /\ b \in H /\ b < n
    BY <1>1, <1>2, <1>4, <1>8 DEF Next1
  <2>2. ASSUME NEW j \in K, ~c[j].matchless PROVE ~Better(c[j], c[n])
    <3>1. CASE j = n
      BY <1>0, <3>1, BetterIrreflexive
    <3>2. CASE j \in H
      <4>1. ~Better(c[j], c[b])
        BY <1>4, <2>1, <2>2, <3>2
      <4>2. Better(c[j], c[n]) => Better(c[j], c[b])
        BY <1>0, <1>2, <1>8, <2>1, <3>2, BetterTransitive
      <4> QED
        BY <4>1, <4>2
    <3> QED
      BY <2>1, <3>1, <3>2
  <2>3. ASSUME NEW j \in K, j < n, c[j].matchless => \A k \in K : j <= k
        PROVE  Better(c[n], c[j])
    <3>0. j \in H /\ Comparable(c[j]) /\ Comparable(c[b]) /\ Comparable(c[n])
      BY <1>0, <1>2, <2>1, <2>3
    <3>1. CASE j = b
      BY <1>8, <3>1
    <3>2. CASE j < b
      <4>1. Better(c[b], c[j])
        BY <1>4, <2>1, <2>3, <3>0, <3>2
      <4> QED
        BY <1>8, <3>0, <4>1, BetterTransitive
    <3>3. CASE j > b
      <4>1. ~c[j].matchless
        BY <1>0, <1>2, <2>1, <2>3, <3>0, <3>3
      <4>2. ~Better(c[j], c[b])
        BY <1>4, <2>1, <3>0, <4>1
      <4> QED
        BY <1>8, <3>0, <4>2, BetterNegative
    <3> QED
      BY <1>0, <1>2, <2>1, <3>0, <3>1, <3>2, <3>3
  <2> QED
    BY <1>8, <2>1, <2>2, <2>3
<1> QED
  BY <1>5, <1>6, <1>7, <1>8

\* For every list and request there is a right entry, or none accepts it.
LEMMA RightExists ==
  ASSUME NEW c, Scannable(c), NEW q PROVE \E i \in 0..Len(c) : RightUpTo(c, q, i, Len(c))
<1> DEFINE S == {n \in Nat : n <= Len(c) => \E i \in 0..n : RightUpTo(c, q, i, n)}
<1>0. Len(c) \in Nat
  BY DEF Scannable
<1>1. 0 \in S
  <2>1. RightUpTo(c, q, 0, 0)
    BY DEF RightUpTo, Hits
  <2> QED
    BY <2>1
<1>2. ASSUME NEW n \in Nat, n \in S PROVE n + 1 \in S
  <2> SUFFICES ASSUME n + 1 <= Len(c) PROVE \E i \in 0..(n + 1) : RightUpTo(c, q, i, n + 1)
    OBVIOUS
  <2>1. PICK i \in 0..n : RightUpTo(c, q, i, n)
    BY <1>0, <1>2
  <2>2. PICK k : k = n + 1
    OBVIOUS
  <2>3. k \in 1..Len(c) /\ i \in 0..(k - 1) /\ RightUpTo(c, q, i, k - 1)
    BY <1>0, <2>1, <2>2
  <2>4. \E j \in 0..k : RightUpTo(c, q, j, k)
    BY <2>3, ScanStep
  <2> QED
    BY <2>2, <2>4
<1> HIDE DEF S
<1>3. Len(c) \in S
  BY <1>0, <1>1, <1>2, Induction
<1> QED
  BY <1>0, <1>3 DEF S

\* There is only one right entry.  Of two, the first would stand against the
\* second, which must then be better, and a rule without matches is no better.
LEMMA RightUnique ==
  ASSUME NEW c, NEW q, NEW n \in Nat, NEW i, RightUpTo(c, q, i, n), NEW j, RightUpTo(c, q, j, n)
  PROVE  i = j
<1> DEFINE H == Hits(c, q, n)
<1>1. \A a, b \in H : RightUpTo(c, q, a, n) /\ RightUpTo(c, q, b, n) => ~(a < b)
  <2> SUFFICES ASSUME NEW a \in H, NEW b \in H, a < b,
                      RightUpTo(c, q, a, n), RightUpTo(c, q, b, n)
               PROVE  FALSE
    OBVIOUS
  <2>1. /\ c[a].matchless => \A k \in H : a <= k
        /\ ~c[b].matchless => ~Better(c[b], c[a])
    BY DEF RightUpTo
  <2>2. /\ c[b].matchless => b <= a
        /\ (c[a].matchless => \A k \in H : a <= k) => Better(c[b], c[a])
    BY DEF RightUpTo
  <2>3. a \in Nat /\ b \in Nat
    BY DEF Hits
  <2> HIDE DEF H
  <2> QED
    BY <2>1, <2>2, <2>3
<1>2. CASE H = {}
  BY <1>2 DEF RightUpTo
<1>3. CASE H # {}
  <2>1. i \in H /\ j \in H
    BY <1>3 DEF RightUpTo
  <2>2. i \in Nat /\ j \in Nat
    BY <2>1 DEF Hits
  <2> HIDE DEF H
  <2> QED
    BY <1>1, <2>1, <2>2
<1> QED
  BY <1>2, <1>3

----------------------------------------------------------------------------
(* Suffixes. *)

\* A host is under a wildcard exactly if cutting some labels off its front
\* leaves the wildcard's labels after the first.
LEMMA UnderIsSuffix ==
  ASSUME NEW p \in HostPatterns, Wild(p), NEW h \in Hosts
  PROVE  Under(h, p) <=> \E n \in 1..Len(h) : SubSeq(h, n + 1, Len(h)) = Tail(p)
<1> DEFINE m == Len(h) - Len(p) + 1
<1>1. /\ Len(p) \in Nat /\ Len(h) \in Nat /\ Len(p) > 1
      /\ p \in Seq(Labels \union {Star}) /\ h \in Seq(Labels \ {Star})
  BY DEF HostPatterns, Hosts, Wild
<1>2. Len(Tail(p)) = Len(p) - 1 /\ \A i \in 1..(Len(p) - 1) : Tail(p)[i] = p[i + 1]
  BY <1>1
<1>3. ASSUME NEW n \in 1..Len(h)
      PROVE  /\ Len(SubSeq(h, n + 1, Len(h))) = Len(h) - n
             /\ \A i \in 1..(Len(h) - n) : SubSeq(h, n + 1, Len(h))[i] = h[n + i]
  BY <1>1
<1>4. ASSUME Under(h, p) PROVE \E n \in 1..Len(h) : SubSeq(h, n + 1, Len(h)) = Tail(p)
  <2>1. m \in 1..Len(h) /\ Len(h) - m = Len(p) - 1
    BY <1>1, <1>4 DEF Under
  <2>2. \A i \in 1..(Len(p) - 1) : SubSeq(h, m + 1, Len(h))[i] = Tail(p)[i]
    <3> TAKE i \in 1..(Len(p) - 1)
    <3>1. SubSeq(h, m + 1, Len(h))[i] = h[m + i]
      BY <1>3, <2>1
    <3>2. i + 1 \in 2..Len(p) /\ Len(h) - Len(p) + (i + 1) = m + i
      BY <1>1
    <3>3. h[m + i] = p[i + 1]
      BY <1>4, <3>2 DEF Under
    <3> QED
      BY <1>2, <3>1, <3>3
  <2>3. SubSeq(h, m + 1, Len(h)) \in Seq(Labels \union {Star}) /\ Tail(p) \in Seq(Labels \union {Star})
    BY <1>1, <2>1
  <2>4. Len(SubSeq(h, m + 1, Len(h))) = Len(Tail(p))
    BY <1>2, <1>3, <2>1
  <2>5. SubSeq(h, m + 1, Len(h)) = Tail(p)
    BY <1>2, <2>2, <2>3, <2>4, SeqEqual
  <2> QED
    BY <2>1, <2>5
<1>5. ASSUME NEW n \in 1..Len(h), SubSeq(h, n + 1, Len(h)) = Tail(p) PROVE Under(h, p)
  <2>1. Len(h) - n = Len(p) - 1
    BY <1>2, <1>3, <1>5
  <2>2. ASSUME NEW i \in 2..Len(p) PROVE h[Len(h) - Len(p) + i] = p[i]
    <3>1. i - 1 \in 1..(Len(p) - 1) /\ n + (i - 1) = Len(h) - Len(p) + i /\ (i - 1) + 1 = i
      BY <1>1, <2>1
    <3>2. Tail(p)[i - 1] = p[i] /\ SubSeq(h, n + 1, Len(h))[i - 1] = h[n + (i - 1)]
      BY <1>2, <1>3, <2>1, <3>1
    <3> QED
      BY <1>5, <3>1, <3>2
  <2> QED
    BY <1>1, <2>1, <2>2 DEF Under
<1> QED
  BY <1>4, <1>5

\* A wildcard under another one stands for fewer hosts.
LEMMA UnderTransitive ==
  ASSUME NEW a \in HostPatterns, Wild(a), NEW b \in HostPatterns, Wild(b),
         NEW h \in Hosts, Under(h, a), Under(a, b)
  PROVE  Under(h, b)
<1>1. /\ Len(a) \in Nat /\ Len(b) \in Nat /\ Len(h) \in Nat
      /\ Len(h) >= Len(a) /\ Len(a) >= Len(b)
  BY DEF HostPatterns, Hosts, Under
<1>2. ASSUME NEW i \in 2..Len(b) PROVE h[Len(h) - Len(b) + i] = b[i]
  <2>1. Len(a) - Len(b) + i \in 2..Len(a) /\ a[Len(a) - Len(b) + i] = b[i]
    BY <1>1 DEF Under
  <2>2. h[Len(h) - Len(a) + (Len(a) - Len(b) + i)] = a[Len(a) - Len(b) + i]
    BY <2>1 DEF Under
  <2>3. Len(h) - Len(a) + (Len(a) - Len(b) + i) = Len(h) - Len(b) + i
    BY <1>1
  <2> QED
    BY <2>1, <2>2, <2>3
<1> QED
  BY <1>1, <1>2 DEF Under

\* Of two wildcards that share a host, one is under the other.
LEMMA UnderNested ==
  ASSUME NEW a \in HostPatterns, Wild(a), NEW b \in HostPatterns, Wild(b),
         NEW h \in Hosts, Under(h, a), Under(h, b), Len(a) >= Len(b)
  PROVE  Under(a, b)
<1>1. /\ Len(a) \in Nat /\ Len(b) \in Nat /\ Len(h) \in Nat
      /\ Len(h) >= Len(a) /\ Len(h) >= Len(b)
  BY DEF HostPatterns, Hosts, Under
<1>2. ASSUME NEW i \in 2..Len(b) PROVE a[Len(a) - Len(b) + i] = b[i]
  <2>1. Len(a) - Len(b) + i \in 2..Len(a)
    BY <1>1
  <2>2. h[Len(h) - Len(a) + (Len(a) - Len(b) + i)] = a[Len(a) - Len(b) + i]
    BY <2>1 DEF Under
  <2>3. Len(h) - Len(a) + (Len(a) - Len(b) + i) = Len(h) - Len(b) + i
    BY <1>1
  <2>4. h[Len(h) - Len(b) + i] = b[i]
    BY DEF Under
  <2> QED
    BY <2>2, <2>3, <2>4
<1> QED
  BY <1>2 DEF Under

\* A host is no pattern.
LEMMA HostIsExact == \A h \in Hosts : ~AnyName(h) /\ ~Wild(h)
<1> SUFFICES ASSUME NEW h \in Hosts PROVE ~AnyName(h) /\ ~Wild(h)
  OBVIOUS
<1>1. h \in Seq(Labels \ {Star}) /\ h # <<>>
  BY DEF Hosts
<1>2. h[1] \in Labels \ {Star}
  BY <1>1
<1>3. h # <<Star>>
  BY <1>2
<1> QED
  BY <1>1, <1>2, <1>3 DEF AnyName, Wild

\* What a hostname stands for, in the words of the code.
LEMMA StandsForUnder ==
  ASSUME NEW p \in HostPatterns, NEW h \in Hosts
  PROVE  StandsFor(p, h) <=> AnyName(p) \/ p = h \/ (Wild(p) /\ Under(h, p))
  BY UnderIsSuffix DEF StandsFor

----------------------------------------------------------------------------
(* Intersections. *)

\* Intersect returns a name for exactly the hosts both of its arguments stand
\* for, and none if there is no such host.
THEOREM IntersectIsExact ==
  ASSUME NEW a \in HostPatterns, NEW b \in HostPatterns, NEW h \in Hosts
  PROVE  StandsFor(a, h) /\ StandsFor(b, h)
           <=> \E p \in Intersect(a, b) : StandsFor(p, h)
<1>1. CASE AnyName(a) \/ AnyName(b) \/ a = b
  BY <1>1 DEF Intersect, StandsFor
<1>2. CASE ~AnyName(a) /\ ~AnyName(b) /\ a # b
  <2> DEFINE A == a = h \/ (Wild(a) /\ Under(h, a))
             B == b = h \/ (Wild(b) /\ Under(h, b))
  <2>1. (StandsFor(a, h) <=> A) /\ (StandsFor(b, h) <=> B)
    BY <1>2, StandsForUnder
  <2>2. Intersect(a, b) = IF Wild(b) /\ Under(a, b) THEN {a}
                          ELSE IF Wild(a) /\ Under(b, a) THEN {b} ELSE {}
    BY <1>2 DEF Intersect
  <2>3. A /\ Wild(b) /\ Under(a, b) => B
    BY UnderTransitive
  <2>4. B /\ Wild(a) /\ Under(b, a) => A
    BY UnderTransitive
  <2>5. A /\ B => (Wild(b) /\ Under(a, b)) \/ (Wild(a) /\ Under(b, a))
    <3>1. CASE a = h \/ b = h
      BY <1>2, <3>1, HostIsExact
    <3>2. CASE Wild(a) /\ Wild(b) /\ Under(h, a) /\ Under(h, b)
      <4>1. Len(a) \in Nat /\ Len(b) \in Nat
        BY DEF HostPatterns
      <4>2. Len(a) >= Len(b) \/ Len(b) >= Len(a)
        BY <4>1
      <4> QED
        BY <3>2, <4>2, UnderNested
    <3> QED
      BY <3>1, <3>2
  <2> HIDE DEF A, B
  <2> QED
    BY <2>1, <2>2, <2>3, <2>4, <2>5
<1> QED
  BY <1>1, <1>2

\* MatchHostname goes by what the names stand for, the empty name apart.
LEMMA MatchStandsFor ==
  ASSUME NEW names \in SUBSET HostPatterns, <<>> \notin names, NEW h \in Hosts
  PROVE  MatchHostname(names, h) <=> names = {} \/ \E n \in names : StandsFor(n, h)
<1>1. \A n \in names : StandsFor(n, h) <=> n = <<Star>> \/ n = h \/ (Wild(n) /\ Under(h, n))
  BY StandsForUnder DEF AnyName
<1> QED
  BY <1>1 DEF MatchHostname

\* The InternalRoute of a listener and a route, which is left out if the route
\* has hostnames and none is left, matches exactly the hosts that the listener
\* and one of the route's hostnames stand for.
THEOREM EffectiveHostnamesAreExact ==
  ASSUME NEW names \in SUBSET HostPatterns, <<>> \notin names,
         NEW listener \in HostPatterns, NEW h \in Hosts
  PROVE  LET e == IntersectHostnames(names, listener) IN
         (e # {} \/ names = {}) /\ MatchHostname(e, h)
           <=> StandsFor(listener, h) /\ (names = {} \/ \E n \in names : StandsFor(n, h))
<1> DEFINE e == IntersectHostnames(names, listener)
<1>0. <<Star>> \in HostPatterns /\ StandsFor(<<Star>>, h) /\ <<Star>> # <<>>
  BY DEF HostPatterns, StandsFor, AnyName
<1>1. CASE AnyName(listener)
  <2>1. StandsFor(listener, h)
    BY <1>1 DEF StandsFor
  <2>2. e = IF names = {} THEN {<<Star>>} ELSE names
    BY <1>1 DEF IntersectHostnames
  <2>3. e \in SUBSET HostPatterns /\ <<>> \notin e /\ e # {}
    BY <1>0, <2>2
  <2> HIDE DEF e
  <2>4. MatchHostname(e, h) <=> \E n \in e : StandsFor(n, h)
    BY <2>3, MatchStandsFor
  <2> QED
    BY <1>0, <2>1, <2>2, <2>3, <2>4 DEF e
<1>2. CASE ~AnyName(listener) /\ names = {}
  <2>1. e = {listener} /\ listener # <<>>
    BY <1>2 DEF IntersectHostnames, AnyName
  <2>2. MatchHostname({listener}, h) <=> StandsFor(listener, h)
    BY <2>1, MatchStandsFor
  <2> QED
    BY <1>2, <2>1, <2>2
<1>3. CASE ~AnyName(listener) /\ names # {}
  <2>1. e = UNION {Intersect(n, listener) : n \in names}
    BY <1>3 DEF IntersectHostnames
  <2>2. \A n \in names : Intersect(n, listener) \subseteq {n, listener}
    BY DEF Intersect
  <2>3. e \in SUBSET HostPatterns /\ <<>> \notin e
    <3>1. listener # <<>>
      BY <1>3 DEF AnyName
    <3> QED
      BY <2>1, <2>2, <3>1
  <2>4. (\E p \in e : StandsFor(p, h))
          <=> \E n \in names : StandsFor(n, h) /\ StandsFor(listener, h)
    BY <2>1, IntersectIsExact
  <2> HIDE DEF e
  <2>5. MatchHostname(e, h) <=> e = {} \/ \E p \in e : StandsFor(p, h)
    BY <2>3, MatchStandsFor
  <2> QED
    BY <1>3, <2>4, <2>5 DEF e
<1> QED
  BY <1>1, <1>2, <1>3
=============================================================================
