--------------------------- MODULE RoutingProofs ---------------------------
(***************************************************************************)
(* Proofs about Routing, for any Gateways, listeners, HTTPRoutes,          *)
(* Services, policies and certificates State may hold, and any requests.   *)
(***************************************************************************)
EXTENDS Routing, MatchingProofs, FiniteSetTheorems

----------------------------------------------------------------------------
(* Lists that are built by appending to them, in loops. *)

\* u[i] is what the loop of FlattenSeq has put together after i sequences.
Flattens(u, seqs, n) ==
  u = [i \in 1..n |-> IF i = 1 THEN seqs[i] ELSE u[i - 1] \o seqs[i]]

LEMMA FlattensNext ==
  ASSUME NEW seqs, NEW n \in Nat, NEW u, Flattens(u, seqs, n), NEW i \in 1..n
  PROVE  u[i] = IF i = 1 THEN seqs[i] ELSE u[i - 1] \o seqs[i]
<1> DEFINE Next_(j) == IF j = 1 THEN seqs[j] ELSE u[j - 1] \o seqs[j]
<1>1. u = [j \in 1..n |-> Next_(j)]
  BY DEF Flattens
<1> HIDE DEF Next_
<1>2. u[i] = Next_(i)
  BY <1>1
<1> QED
  BY <1>2 DEF Next_

LEMMA FlattensExists == ASSUME NEW seqs PROVE \A n \in Nat : \E u : Flattens(u, seqs, n)
<1> DEFINE S == {n \in Nat : \E u : Flattens(u, seqs, n)}
<1>1. 0 \in S
  <2> DEFINE u == [i \in 1..0 |-> <<>>]
  <2>1. Flattens(u, seqs, 0)
    BY DEF Flattens
  <2> QED
    BY <2>1
<1>2. ASSUME NEW n \in Nat, n \in S PROVE n + 1 \in S
  <2>1. PICK u : Flattens(u, seqs, n)
    BY <1>2
  <2> DEFINE last == IF n = 0 THEN seqs[n + 1] ELSE u[n] \o seqs[n + 1]
             v == [i \in 1..(n + 1) |-> IF i = n + 1 THEN last ELSE u[i]]
  <2> HIDE DEF last
  <2>2. \A i \in 1..n : v[i] = u[i]
    OBVIOUS
  <2>3. v[n + 1] = last
    OBVIOUS
  <2>4. \A i \in 1..(n + 1) : v[i] = IF i = 1 THEN seqs[i] ELSE v[i - 1] \o seqs[i]
    <3>1. ASSUME NEW i \in 1..n PROVE v[i] = IF i = 1 THEN seqs[i] ELSE v[i - 1] \o seqs[i]
      <4>1. u[i] = IF i = 1 THEN seqs[i] ELSE u[i - 1] \o seqs[i]
        BY <2>1, FlattensNext
      <4>2. i # 1 => i - 1 \in 1..n
        OBVIOUS
      <4> HIDE DEF v
      <4> QED
        BY <2>2, <4>1, <4>2
    <3>2. last = IF n + 1 = 1 THEN seqs[n + 1] ELSE v[(n + 1) - 1] \o seqs[n + 1]
      <4>1. (n + 1) - 1 = n /\ (n # 0 => n \in 1..n)
        OBVIOUS
      <4> HIDE DEF v
      <4> QED
        BY <2>2, <4>1 DEF last
    <3> HIDE DEF v
    <3> QED
      BY <2>3, <3>1, <3>2
  <2>5. v = [i \in 1..(n + 1) |-> v[i]]
    OBVIOUS
  <2> HIDE DEF v
  <2>6. Flattens(v, seqs, n + 1)
    BY <2>4, <2>5 DEF Flattens
  <2> QED
    BY <2>6
<1> QED
  BY <1>1, <1>2, Induction

\* Where the elements of the first n of seqs are, and the order in which the
\* loops come to them.
Places(seqs, n) == {a \in Nat \X Nat : a[1] \in 1..n /\ a[2] \in 1..Len(seqs[a[1]])}

Earlier(a, b) == a[1] < b[1] \/ (a[1] = b[1] /\ a[2] < b[2])

\* at[p] is where element p of s comes from, if s holds the elements of the
\* first n of seqs in that order.
Locates(at, s, seqs, n) ==
  /\ \A p \in 1..Len(s) : at[p] \in Places(seqs, n) /\ s[p] = seqs[at[p][1]][at[p][2]]
  /\ \A p, r \in 1..Len(s) : p < r => Earlier(at[p], at[r])
  /\ \A a \in Places(seqs, n) : \E p \in 1..Len(s) : at[p] = a

LEMMA LocatesNext ==
  ASSUME NEW T, NEW seqs \in Seq(Seq(T)), NEW n \in Nat, n + 1 <= Len(seqs),
         NEW s \in Seq(T), \E at : Locates(at, s, seqs, n)
  PROVE  \E at : Locates(at, s \o seqs[n + 1], seqs, n + 1)
<1>1. PICK at : Locates(at, s, seqs, n)
  OBVIOUS
<1>k. PICK k : k = n + 1
  OBVIOUS
<1>t. PICK t : t = seqs[k]
  OBVIOUS
<1>2. t \in Seq(T) /\ Len(t) \in Nat /\ Len(s) \in Nat /\ k \in Nat
  <2>1. k \in 1..Len(seqs)
    BY <1>k
  <2> QED
    BY <1>t, <2>1
<1>3. /\ Len(s \o t) = Len(s) + Len(t)
      /\ \A p \in 1..Len(s) : (s \o t)[p] = s[p]
      /\ \A p \in 1..Len(t) : (s \o t)[Len(s) + p] = t[p]
  BY <1>2, ConcatProperties
<1> DEFINE all == [p \in 1..(Len(s) + Len(t)) |->
                     IF p <= Len(s) THEN at[p] ELSE <<k, p - Len(s)>>]
<1>4. /\ \A p \in 1..Len(s) : all[p] = at[p] /\ p \in 1..(Len(s) + Len(t))
      /\ \A p \in 1..Len(t) : all[Len(s) + p] = <<k, p>> /\ Len(s) + p \in 1..(Len(s) + Len(t))
      /\ \A p \in 1..(Len(s) + Len(t)) :
           p \in 1..Len(s) \/ \E r \in 1..Len(t) : p = Len(s) + r
  <2>1. ASSUME NEW p \in 1..(Len(s) + Len(t)), p \notin 1..Len(s)
        PROVE  \E r \in 1..Len(t) : p = Len(s) + r
    <3>1. p - Len(s) \in 1..Len(t) /\ p = Len(s) + (p - Len(s))
      BY <1>2, <2>1
    <3> QED
      BY <3>1
  <2>2. \A p \in 1..Len(t) : (Len(s) + p) - Len(s) = p /\ ~(Len(s) + p <= Len(s))
    BY <1>2
  <2>3. /\ \A p \in 1..Len(s) : p \in 1..(Len(s) + Len(t)) /\ p <= Len(s)
        /\ \A p \in 1..Len(t) : Len(s) + p \in 1..(Len(s) + Len(t))
    BY <1>2
  <2>4. \A p \in 1..Len(s) : all[p] = at[p]
    BY <2>3
  <2>5. \A p \in 1..Len(t) : all[Len(s) + p] = <<k, p>>
    BY <2>2, <2>3
  <2> HIDE DEF all
  <2> QED
    BY <2>1, <2>3, <2>4, <2>5
<1> HIDE DEF all
<1>5. Places(seqs, k) = Places(seqs, n) \union {<<k, p>> : p \in 1..Len(t)}
  <2>1. \A a \in Nat \X Nat : a = <<a[1], a[2]>>
    OBVIOUS
  <2>2. \A i \in Nat : i \in 1..k <=> i \in 1..n \/ i = k
    BY <1>2, <1>k
  <2>3. ASSUME NEW a \in Places(seqs, k)
        PROVE  a \in Places(seqs, n) \union {<<k, p>> : p \in 1..Len(t)}
    <3>1. a = <<a[1], a[2]>> /\ a \in Nat \X Nat /\ a[1] \in 1..k /\ a[2] \in 1..Len(seqs[a[1]])
      BY <2>1 DEF Places
    <3>2. CASE a[1] \in 1..n
      BY <3>1, <3>2 DEF Places
    <3>3. CASE a[1] = k
      <4>1. a[2] \in 1..Len(t)
        BY <1>t, <3>1, <3>3
      <4> QED
        BY <3>1, <3>3, <4>1
    <3> QED
      BY <2>2, <3>1, <3>2, <3>3
  <2>4. Places(seqs, n) \subseteq Places(seqs, k)
    BY <2>2 DEF Places
  <2>5. ASSUME NEW p \in 1..Len(t) PROVE <<k, p>> \in Places(seqs, k)
    <3>1. <<k, p>> \in Nat \X Nat /\ <<k, p>>[1] = k /\ <<k, p>>[2] = p /\ k \in 1..k
      BY <1>2, <1>k
    <3> QED
      BY <1>t, <3>1 DEF Places
  <2> QED
    BY <2>3, <2>4, <2>5
<1>6. \A p \in 1..Len(s) : at[p] \in Places(seqs, n) /\ at[p][1] < k
  <2>1. \A a \in Places(seqs, n) : a[1] < k
    BY <1>k DEF Places
  <2> QED
    BY <1>1, <2>1 DEF Locates
<1>7. ASSUME NEW p \in 1..Len(s \o t)
      PROVE  all[p] \in Places(seqs, k) /\ (s \o t)[p] = seqs[all[p][1]][all[p][2]]
  <2>1. CASE p \in 1..Len(s)
    BY <1>1, <1>3, <1>4, <1>5, <2>1 DEF Locates
  <2>2. CASE \E r \in 1..Len(t) : p = Len(s) + r
    <3>1. PICK r \in 1..Len(t) : p = Len(s) + r
      BY <2>2
    <3>2. all[p] = <<k, r>> /\ <<k, r>>[1] = k /\ <<k, r>>[2] = r /\ (s \o t)[p] = t[r]
      BY <1>3, <1>4, <3>1
    <3> QED
      BY <1>t, <1>5, <3>2
  <2> QED
    BY <1>3, <1>4, <2>1, <2>2
<1>8. ASSUME NEW p \in 1..Len(s \o t), NEW r \in 1..Len(s \o t), p < r
      PROVE  Earlier(all[p], all[r])
  <2>1. CASE p \in 1..Len(s) /\ r \in 1..Len(s)
    BY <1>1, <1>4, <1>8, <2>1 DEF Locates
  <2>2. ASSUME NEW j \in 1..Len(t), r = Len(s) + j, p \in 1..Len(s)
        PROVE  Earlier(all[p], all[r])
    <3>1. all[p] = at[p] /\ all[r] = <<k, j>> /\ <<k, j>>[1] = k /\ at[p][1] < k
      BY <1>4, <1>6, <2>2
    <3> QED
      BY <3>1 DEF Earlier
  <2>3. ASSUME NEW i \in 1..Len(t), NEW j \in 1..Len(t), p = Len(s) + i, r = Len(s) + j
        PROVE  Earlier(all[p], all[r])
    <3>1. i < j
      BY <1>2, <1>8, <2>3
    <3>2. /\ all[p] = <<k, i>> /\ <<k, i>>[1] = k /\ <<k, i>>[2] = i
          /\ all[r] = <<k, j>> /\ <<k, j>>[1] = k /\ <<k, j>>[2] = j
      BY <1>4, <2>3
    <3> QED
      BY <3>1, <3>2 DEF Earlier
  <2>4. ASSUME NEW i \in 1..Len(t), p = Len(s) + i, r \in 1..Len(s) PROVE FALSE
    BY <1>2, <1>8, <2>4
  <2> QED
    BY <1>3, <1>4, <2>1, <2>2, <2>3, <2>4
<1>9. ASSUME NEW a \in Places(seqs, k) PROVE \E p \in 1..Len(s \o t) : all[p] = a
  <2>1. CASE a \in Places(seqs, n)
    <3>1. PICK p \in 1..Len(s) : at[p] = a
      BY <1>1, <2>1 DEF Locates
    <3> QED
      BY <1>3, <1>4, <3>1
  <2>2. CASE \E p \in 1..Len(t) : a = <<k, p>>
    BY <1>3, <1>4, <2>2
  <2> QED
    BY <1>5, <2>1, <2>2
<1>10. Locates(all, s \o t, seqs, k)
  BY <1>7, <1>8, <1>9 DEF Locates
<1> QED
  BY <1>k, <1>t, <1>10

\* What the loops have put together are the elements of the sequences, one
\* sequence after the other.
LEMMA FlattenLocates ==
  ASSUME NEW T, NEW seqs \in Seq(Seq(T))
  PROVE  /\ FlattenSeq(seqs) \in Seq(T)
         /\ \E at : Locates(at, FlattenSeq(seqs), seqs, Len(seqs))
<1>0. /\ Len(seqs) \in Nat /\ \A i \in 1..Len(seqs) : seqs[i] \in Seq(T)
      /\ <<>> \in Seq(T) /\ Len(<<>>) = 0
  BY EmptySeq
<1>1. CASE Len(seqs) = 0
  <2>1. seqs = <<>> /\ FlattenSeq(seqs) = seqs
    BY <1>1, EmptySeq DEF FlattenSeq
  <2>2. Locates(<<>>, <<>>, <<>>, 0)
    <3>1. Places(<<>>, 0) = {} /\ 1..Len(<<>>) = {}
      BY <1>0 DEF Places
    <3> QED
      BY <3>1 DEF Locates
  <2> QED
    BY <1>0, <2>1, <2>2
<1>2. CASE Len(seqs) # 0
  <2>1. PICK u : Flattens(u, seqs, Len(seqs)) /\ FlattenSeq(seqs) = u[Len(seqs)]
    <3>1. \E u : Flattens(u, seqs, Len(seqs))
      BY <1>0, FlattensExists
    <3> QED
      BY <1>2, <3>1 DEF Flattens, FlattenSeq
  <2> DEFINE Good(n) == u[n] \in Seq(T) /\ \E at : Locates(at, u[n], seqs, n)
             S == {n \in Nat : n + 1 <= Len(seqs) => Good(n + 1)}
  <2> HIDE DEF Good
  <2>2. 0 \in S
    <3>1. \E at : Locates(at, <<>>, seqs, 0)
      <4>1. Places(seqs, 0) = {} /\ 1..Len(<<>>) = {}
        BY <1>0 DEF Places
      <4> QED
        BY <4>1 DEF Locates
    <3>2. 1 \in 1..Len(seqs) /\ 0 + 1 = 1 /\ 0 + 1 <= Len(seqs)
      BY <1>0, <1>2
    <3>3. u[1] = seqs[1] /\ seqs[1] \in Seq(T)
      BY <1>0, <2>1, <3>2, FlattensNext
    <3>4. <<>> \o seqs[1] = seqs[1]
      BY <3>3
    <3>5. \E at : Locates(at, <<>> \o seqs[0 + 1], seqs, 0 + 1)
      BY <1>0, <3>1, <3>2, LocatesNext
    <3> QED
      BY <3>2, <3>3, <3>4, <3>5 DEF Good
  <2>3. ASSUME NEW n \in Nat, n \in S PROVE n + 1 \in S
    <3> SUFFICES ASSUME (n + 1) + 1 <= Len(seqs) PROVE Good((n + 1) + 1)
      OBVIOUS
    <3>k. PICK k : k = n + 1
      OBVIOUS
    <3>1. k \in Nat /\ k + 1 <= Len(seqs) /\ k + 1 \in 1..Len(seqs) /\ k + 1 # 1 /\ (k + 1) - 1 = k
      BY <1>0, <3>k
    <3>2. Good(k)
      BY <1>0, <2>3, <3>k, <3>1
    <3>3. u[k + 1] = u[k] \o seqs[k + 1]
      <4>1. PICK j : j = k + 1
        OBVIOUS
      <4>n. PICK n2 : n2 = Len(seqs)
        OBVIOUS
      <4>3. j \in 1..n2 /\ n2 \in Nat /\ Flattens(u, seqs, n2)
        BY <1>0, <2>1, <3>1, <4>1, <4>n
      <4>2. u[j] = IF j = 1 THEN seqs[j] ELSE u[j - 1] \o seqs[j]
        <5>1. \A i \in 1..n2 : u[i] = IF i = 1 THEN seqs[i] ELSE u[i - 1] \o seqs[i]
          <6>1. ASSUME NEW i \in 1..n2
                PROVE  u[i] = IF i = 1 THEN seqs[i] ELSE u[i - 1] \o seqs[i]
            BY <4>3, <6>1, FlattensNext
          <6> QED
            BY <6>1
        <5> QED
          BY <4>3, <5>1, Zenon
      <4> QED
        BY <3>1, <4>1, <4>2
    <3>4. u[k] \in Seq(T) /\ seqs[k + 1] \in Seq(T) /\ \E at : Locates(at, u[k], seqs, k)
      BY <1>0, <3>1, <3>2 DEF Good
    <3>5. \E at : Locates(at, u[k] \o seqs[k + 1], seqs, k + 1)
      BY <3>1, <3>4, LocatesNext
    <3>6. Good(k + 1)
      BY <3>3, <3>4, <3>5, ConcatProperties DEF Good
    <3> QED
      BY <3>k, <3>6
  <2> HIDE DEF S
  <2>4. Len(seqs) - 1 \in S
    <3>1. Nat \subseteq S
      BY <2>2, <2>3, Induction
    <3>2. Len(seqs) - 1 \in Nat
      BY <1>0, <1>2
    <3> QED
      BY <3>1, <3>2
  <2>5. Good(Len(seqs))
    BY <1>0, <1>2, <2>4 DEF S
  <2> QED
    BY <2>1, <2>5 DEF Good
<1> QED
  BY <1>1, <1>2

\* The elements alone.
Collects(T, seqs, s) ==
  /\ s \in Seq(T)
  /\ \A p \in 1..Len(s) : \E k \in 1..Len(seqs) : \E i \in 1..Len(seqs[k]) : s[p] = seqs[k][i]
  /\ \A k \in 1..Len(seqs) : \A i \in 1..Len(seqs[k]) : \E p \in 1..Len(s) : s[p] = seqs[k][i]

LEMMA FlattenCollects ==
  ASSUME NEW T, NEW seqs \in Seq(Seq(T)) PROVE Collects(T, seqs, FlattenSeq(seqs))
<1>1. PICK s : s = FlattenSeq(seqs)
  OBVIOUS
<1>2. PICK at : Locates(at, s, seqs, Len(seqs))
  BY <1>1, FlattenLocates
<1>3. s \in Seq(T) /\ Len(seqs) \in Nat
  BY <1>1, FlattenLocates
<1>4. \A p \in 1..Len(s) : \E k \in 1..Len(seqs) : \E i \in 1..Len(seqs[k]) : s[p] = seqs[k][i]
  <2>1. ASSUME NEW p \in 1..Len(s)
        PROVE  \E k \in 1..Len(seqs) : \E i \in 1..Len(seqs[k]) : s[p] = seqs[k][i]
    <3>1. at[p] \in Places(seqs, Len(seqs)) /\ s[p] = seqs[at[p][1]][at[p][2]]
      BY <1>2 DEF Locates
    <3>2. at[p][1] \in 1..Len(seqs) /\ at[p][2] \in 1..Len(seqs[at[p][1]])
      BY <3>1 DEF Places
    <3> QED
      BY <3>1, <3>2, Zenon
  <2> QED
    BY <2>1
<1>5. ASSUME NEW k \in 1..Len(seqs), NEW i \in 1..Len(seqs[k])
      PROVE  \E p \in 1..Len(s) : s[p] = seqs[k][i]
  <2>1. seqs[k] \in Seq(T) /\ Len(seqs[k]) \in Nat
    OBVIOUS
  <2>2. <<k, i>> \in Places(seqs, Len(seqs))
    BY <1>3, <2>1 DEF Places
  <2>3. PICK p \in 1..Len(s) : at[p] = <<k, i>>
    BY <1>2, <2>2 DEF Locates
  <2>4. s[p] = seqs[at[p][1]][at[p][2]]
    BY <1>2 DEF Locates
  <2> QED
    BY <2>3, <2>4
<1> QED
  BY <1>1, <1>3, <1>4, <1>5 DEF Collects

Elements(s) == {s[p] : p \in 1..Len(s)}

LEMMA FlattenElements ==
  ASSUME NEW T, NEW n \in Nat, NEW seqs \in [1..n -> Seq(T)], NEW s, s = FlattenSeq(seqs)
  PROVE  s \in Seq(T) /\ Elements(s) = UNION {Elements(seqs[k]) : k \in 1..n}
<1>1. Len(seqs) = n /\ seqs \in Seq(Seq(T))
  OBVIOUS
<1>2. Collects(T, seqs, s)
  BY <1>1, FlattenCollects
<1>3. /\ s \in Seq(T)
      /\ \A p \in 1..Len(s) : \E k \in 1..n : \E i \in 1..Len(seqs[k]) : s[p] = seqs[k][i]
      /\ \A k \in 1..n : \A i \in 1..Len(seqs[k]) : \E p \in 1..Len(s) : s[p] = seqs[k][i]
  <2>1. PICK m : m = Len(seqs)
    OBVIOUS
  <2>2. m = n
    BY <1>1, <2>1
  <2> QED
    BY <1>2, <2>1, <2>2 DEF Collects
<1>4. ASSUME NEW x \in Elements(s) PROVE \E k \in 1..n : x \in Elements(seqs[k])
  <2>1. PICK p \in 1..Len(s) : x = s[p]
    BY DEF Elements
  <2>2. PICK k \in 1..n : \E i \in 1..Len(seqs[k]) : s[p] = seqs[k][i]
    BY <1>3
  <2> QED
    BY <2>1, <2>2 DEF Elements
<1>5. ASSUME NEW k \in 1..n, NEW x \in Elements(seqs[k]) PROVE x \in Elements(s)
  <2>1. PICK i \in 1..Len(seqs[k]) : x = seqs[k][i]
    BY DEF Elements
  <2>2. PICK p \in 1..Len(s) : s[p] = seqs[k][i]
    BY <1>3
  <2> QED
    BY <2>1, <2>2 DEF Elements
<1>6. Elements(s) = UNION {Elements(seqs[k]) : k \in 1..n}
  BY <1>4, <1>5
<1> QED
  BY <1>3, <1>6

\* Two lists of sequences that go together, element by element, do so when
\* they are put together.
Together(R, s, t) == Len(s) = Len(t) /\ \A p \in 1..Len(s) : <<s[p], t[p]>> \in R

LEMMA TogetherAppended ==
  ASSUME NEW R, NEW S, NEW T, NEW s \in Seq(S), NEW a \in Seq(S), NEW t \in Seq(T), NEW b \in Seq(T),
         Together(R, s, t), Together(R, a, b)
  PROVE  Together(R, s \o a, t \o b)
<1>0. /\ Len(s) \in Nat /\ Len(a) \in Nat
      /\ Len(s) = Len(t) /\ Len(a) = Len(b)
  BY LenProperties DEF Together
<1>3. Len(s \o a) = Len(s) + Len(a) /\ Len(t \o b) = Len(t) + Len(b)
  BY ConcatProperties
<1>1. /\ Len(s) \in Nat /\ Len(a) \in Nat
      /\ Len(s) = Len(t) /\ Len(a) = Len(b)
      /\ Len(s \o a) = Len(s) + Len(a) /\ Len(t \o b) = Len(t) + Len(b)
  BY <1>0, <1>3
<1>2. ASSUME NEW p \in 1..Len(s \o a) PROVE <<(s \o a)[p], (t \o b)[p]>> \in R
  <2>1. CASE p <= Len(s)
    <3>1. p \in 1..Len(s) /\ (s \o a)[p] = s[p] /\ (t \o b)[p] = t[p]
      BY <1>1, <2>1, ConcatProperties
    <3> QED
      BY <3>1 DEF Together
  <2>2. CASE ~(p <= Len(s))
    <3>1. PICK r : r = p - Len(s)
      OBVIOUS
    <3>2. r \in 1..Len(a) /\ p = Len(s) + r
      BY <1>1, <2>2, <3>1
    <3>3. (s \o a)[p] = a[r] /\ (t \o b)[p] = b[r]
      BY <1>1, <3>1, <3>2, ConcatProperties
    <3> QED
      BY <3>2, <3>3 DEF Together
  <2> QED
    BY <2>1, <2>2
<1> QED
  BY <1>1, <1>2 DEF Together

LEMMA FlattenTogether ==
  ASSUME NEW R, NEW S, NEW T, NEW n \in Nat,
         NEW seqs \in [1..n -> Seq(S)], NEW seqs2 \in [1..n -> Seq(T)],
         \A k \in 1..n : Together(R, seqs[k], seqs2[k])
  PROVE  Together(R, FlattenSeq(seqs), FlattenSeq(seqs2))
<1>0. /\ Len(seqs) = n /\ Len(seqs2) = n /\ Len(<<>>) = 0
      /\ \A k \in 1..n : seqs[k] \in Seq(S) /\ seqs2[k] \in Seq(T)
  OBVIOUS
<1>1. CASE n = 0
  <2>1. seqs = <<>> /\ seqs2 = <<>>
    BY <1>0, <1>1, EmptySeq
  <2>2. FlattenSeq(<<>>) = <<>>
    BY <1>0 DEF FlattenSeq
  <2>3. Together(R, <<>>, <<>>)
    BY <1>0 DEF Together
  <2> QED
    BY <2>1, <2>2, <2>3
<1>2. CASE n # 0
  <2>1. PICK u : Flattens(u, seqs, n) /\ FlattenSeq(seqs) = u[n]
    <3>1. \E u : Flattens(u, seqs, Len(seqs)) /\ FlattenSeq(seqs) = u[Len(seqs)]
      <4>1. \E u : Flattens(u, seqs, Len(seqs))
        BY <1>0, FlattensExists
      <4> QED
        BY <1>0, <1>2, <4>1 DEF Flattens, FlattenSeq
    <3> QED
      BY <1>0, <3>1
  <2>2. PICK v : Flattens(v, seqs2, n) /\ FlattenSeq(seqs2) = v[n]
    <3>1. \E v : Flattens(v, seqs2, Len(seqs2)) /\ FlattenSeq(seqs2) = v[Len(seqs2)]
      <4>1. \E v : Flattens(v, seqs2, Len(seqs2))
        BY <1>0, FlattensExists
      <4> QED
        BY <1>0, <1>2, <4>1 DEF Flattens, FlattenSeq
    <3> QED
      BY <1>0, <3>1
  <2>3. \A i \in 1..n : /\ u[i] = IF i = 1 THEN seqs[i] ELSE u[i - 1] \o seqs[i]
                        /\ v[i] = IF i = 1 THEN seqs2[i] ELSE v[i - 1] \o seqs2[i]
    BY <2>1, <2>2, FlattensNext
  <2> DEFINE Good(i) == u[i] \in Seq(S) /\ v[i] \in Seq(T) /\ Together(R, u[i], v[i])
             G == {i \in Nat : i + 1 <= n => Good(i + 1)}
  <2> HIDE DEF Good
  <2>4. 0 \in G
    <3>1. 1 \in 1..n /\ 0 + 1 = 1
      BY <1>2
    <3>2. u[1] = seqs[1] /\ v[1] = seqs2[1]
      BY <2>3, <3>1
    <3> QED
      BY <1>0, <3>1, <3>2 DEF Good
  <2>5. ASSUME NEW i \in Nat, i \in G PROVE i + 1 \in G
    <3> SUFFICES ASSUME (i + 1) + 1 <= n PROVE Good((i + 1) + 1)
      OBVIOUS
    <3>k. PICK k : k = i + 1
      OBVIOUS
    <3>j. PICK j : j = k + 1
      OBVIOUS
    <3>1. k \in Nat /\ j \in 1..n /\ j # 1 /\ j - 1 = k /\ k <= n
      BY <3>k, <3>j
    <3>2. Good(k)
      BY <2>5, <3>k, <3>1
    <3>3. u[j] = u[k] \o seqs[j] /\ v[j] = v[k] \o seqs2[j]
      BY <2>3, <3>1
    <3>4. Together(R, u[k] \o seqs[j], v[k] \o seqs2[j])
      BY <1>0, <3>1, <3>2, TogetherAppended DEF Good
    <3>5. Good(j)
      BY <1>0, <3>1, <3>2, <3>3, <3>4, ConcatProperties DEF Good
    <3> QED
      BY <3>k, <3>j, <3>5
  <2> HIDE DEF G
  <2>6. n - 1 \in G
    <3>1. Nat \subseteq G
      BY <2>4, <2>5, Induction
    <3>2. n - 1 \in Nat
      BY <1>2
    <3> QED
      BY <3>1, <3>2
  <2>7. Good(n)
    BY <1>2, <2>6 DEF G
  <2> QED
    BY <2>1, <2>2, <2>7 DEF Good
<1> QED
  BY <1>1, <1>2

----------------------------------------------------------------------------
(* Orders, firsts and lasts. *)

\* A set in some order has each of its elements, at one place.
LEMMA Listed ==
  ASSUME NEW S, IsFiniteSet(S), NEW f \in SetToSeqs(S)
  PROVE  /\ f \in Seq(S) /\ Len(f) \in Nat /\ \A i \in 1..Len(f) : f[i] \in S
         /\ \A x \in S : \E i \in 1..Len(f) : f[i] = x
         /\ \A i, j \in 1..Len(f) : f[i] = f[j] => i = j
<1>n. PICK n : n = Cardinality(S)
  OBVIOUS
<1>1. n \in Nat
  BY <1>n, FS_CardinalityType
<1>2. f \in [1..n -> S] /\ \A i, j \in 1..n : i # j => f[i] # f[j]
  BY <1>n DEF SetToSeqs
<1>3. f \in Seq(S) /\ Len(f) = n
  BY <1>1, <1>2
<1>4. f \in Injection(1..n, S)
  BY <1>2 DEF Injection, IsInjective
<1>5. Cardinality(1..n) = n
  BY <1>1, FS_Interval
<1>6. f \in Surjection(1..n, S)
  BY <1>n, <1>4, <1>5, FS_Injection
<1>7. \A x \in S : \E i \in 1..n : f[i] = x
  BY <1>6 DEF Surjection
<1> QED
  BY <1>1, <1>2, <1>3, <1>7

\* A set of positions has a first and a last one.
LEMMA MinIsFirst ==
  ASSUME NEW S, S \subseteq Nat, S # {} PROVE Min(S) \in S /\ \A i \in S : Min(S) <= i
<1>1. PICK n \in S : \A m \in S : ~(m < n)
  BY LeastNumber
<1>2. \A m \in S : n <= m
  BY <1>1
<1> QED
  BY <1>2 DEF Min

LEMMA MaxIsLast ==
  ASSUME NEW n \in Nat, NEW S, S \subseteq 1..n, S # {}
  PROVE  Max(S) \in S /\ \A i \in S : i <= Max(S)
<1> DEFINE R == {n - i : i \in S}
<1>1. R \subseteq Nat /\ R # {}
  <2>1. ASSUME NEW i \in S PROVE n - i \in Nat
    <3>1. i \in 1..n
      OBVIOUS
    <3> QED
      BY <3>1
  <2> QED
    BY <2>1
<1> HIDE DEF R
<1>2. PICK d \in R : \A m \in R : ~(m < d)
  BY <1>1, LeastNumber
<1>3. PICK i \in S : d = n - i
  BY <1>2 DEF R
<1>4. ASSUME NEW j \in S PROVE j <= i
  <2>1. n - j \in R
    BY DEF R
  <2>2. ~(n - j < n - i)
    BY <1>2, <1>3, <2>1
  <2> QED
    BY <2>2
<1> QED
  BY <1>4 DEF Max

----------------------------------------------------------------------------
(* What is built. *)

TypedMatches == [type : Types \ {""}, value : Paths]

InternalMatches ==
  [path : TypedMatches \union {None}, headers : {s \in SUBSET Strings : IsFiniteSet(s)}]

InternalRules ==
  [matches : Seq(InternalMatches), redirect : Redirects \union {None}, error : BOOLEAN,
   backend : Backends \union {None}]

InternalRoutes ==
  [gateway : Gateways, route : Routes, hostnames : SUBSET HostPatterns, rules : Seq(InternalRules)]

LEMMA WorldFacts ==
  ASSUME NEW w \in Worlds
  PROVE  /\ w.gateways \subseteq Gateways /\ IsFiniteSet(w.gateways)
         /\ w.routes \subseteq Routes /\ IsFiniteSet(w.routes)
         /\ w.policies \subseteq Policies /\ IsFiniteSet(w.policies)
  BY WorldsAssumption

LEMMA RouteFacts ==
  ASSUME NEW w \in Worlds, NEW r \in w.routes
  PROVE  /\ r \in Routes /\ r.namespace \in Strings
         /\ r.parentRefs \in Seq(ParentRefs) /\ r.rules \in Seq(RouteRules)
         /\ r.hostnames \in SUBSET HostPatterns /\ <<>> \notin r.hostnames
         /\ r.valid \in BOOLEAN
         /\ Len(r.rules) \in Nat
         /\ \A i \in 1..Len(r.rules) : r.rules[i] \in RouteRules
<1>1. r \in Routes
  BY WorldFacts
<1>2. /\ r.namespace \in Strings
      /\ r.parentRefs \in Seq(ParentRefs) /\ r.rules \in Seq(RouteRules)
      /\ r.hostnames \in SUBSET (HostPatterns \ {<<>>})
      /\ r.valid \in BOOLEAN
  BY <1>1 DEF Routes
<1>3. PICK rules : rules = r.rules
  OBVIOUS
<1>4. Len(rules) \in Nat /\ \A i \in 1..Len(rules) : rules[i] \in RouteRules
  BY <1>2, <1>3
<1> QED
  BY <1>1, <1>2, <1>3, <1>4

LEMMA MatchTyped == ASSUME NEW m \in RouteMatches PROVE Match(m) \in InternalMatches
<1>1. m.path \in PathMatches \union {None} /\ m.headers \in {s \in SUBSET Strings : IsFiniteSet(s)}
  BY DEF RouteMatches
<1>2. ASSUME m.path # None
      PROVE  [m.path EXCEPT !.type = IF @ = "" THEN "PathPrefix" ELSE @] \in TypedMatches
  <2>1. PICK p \in PathMatches : p = m.path
    BY <1>1, <1>2
  <2>2. PICK t : t = IF p.type = "" THEN "PathPrefix" ELSE p.type
    OBVIOUS
  <2>3. t \in Types \ {""}
    BY <2>2 DEF Types, PathMatches
  <2>4. [p EXCEPT !.type = t] \in TypedMatches
    BY <2>3 DEF PathMatches, TypedMatches
  <2> QED
    BY <2>1, <2>2, <2>4
<1> QED
  BY <1>1, <1>2 DEF Match, InternalMatches

\* The policies that target a Service, and the last of them.
LEMMA LastPolicy ==
  ASSUME NEW S, NEW policies \in Seq(S), NEW key,
         {i \in 1..Len(policies) : Targets(policies[i], key)} # {}
  PROVE  LET on == {i \in 1..Len(policies) : Targets(policies[i], key)}
         IN  Max(on) \in on /\ policies[Max(on)] \in S /\ Targets(policies[Max(on)], key)
<1> DEFINE on == {i \in 1..Len(policies) : Targets(policies[i], key)}
<1>1. Len(policies) \in Nat /\ on \subseteq 1..Len(policies) /\ on # {}
  OBVIOUS
<1>2. \A i \in on : Targets(policies[i], key) /\ policies[i] \in S
  OBVIOUS
<1> HIDE DEF on
<1>3. Max(on) \in on
  BY <1>1, MaxIsLast
<1>4. policies[Max(on)] \in S /\ Targets(policies[Max(on)], key)
  BY <1>2, <1>3
<1> QED
  BY <1>3, <1>4 DEF on

LEMMA BackendTyped ==
  ASSUME NEW w \in Worlds, NEW r \in w.routes, NEW ref \in Refs, NEW policies \in Seq(w.policies)
  PROVE  /\ Backend(w, r, ref, policies) \in Backends
         /\ Backend(w, r, ref, policies) # None
<1> DEFINE key == ServiceKey(r, ref)
           on  == {i \in 1..Len(policies) : Targets(policies[i], key)}
           b   == Backend(w, r, ref, policies)
<1>1. key \in Strings \X Strings /\ ref.port \in Nat
  BY RouteFacts DEF ServiceKey, Refs
<1>2. AppProtocol(w, key, ref.port) \in Strings
  <2>1. ASSUME key \in DOMAIN w.services, ref.port \in DOMAIN w.services[key]
        PROVE  w.services[key][ref.port] \in Strings
    BY <2>1, WorldsAssumption
  <2>2. "" \in Strings
    BY StringsAssumption
  <2> QED
    BY <2>1, <2>2, Zenon DEF AppProtocol
<1>3. ASSUME on # {} PROVE TLSConfig(w, policies[Max(on)]) \in TLSConfigs
  <2>1. policies[Max(on)] \in w.policies
    BY <1>3, LastPolicy
  <2>2. PICK p \in Policies : p = policies[Max(on)]
    BY <2>1, WorldFacts
  <2>3. TLSConfig(w, p) \in TLSConfigs
    BY DEF TLSConfig, CACerts, TLSConfigs, Policies
  <2> QED
    BY <2>2, <2>3
<1>4. b = [key |-> key, port |-> ref.port,
           appProtocol |-> IF on = {} THEN AppProtocol(w, key, ref.port) ELSE "https",
           tls |-> IF on = {} THEN None ELSE TLSConfig(w, policies[Max(on)])]
  BY DEF Backend
<1> HIDE DEF b, on, key
<1>5. b \in Backends
  <2>a. PICK a : a = IF on = {} THEN AppProtocol(w, key, ref.port) ELSE "https"
    OBVIOUS
  <2>t. PICK t : t = IF on = {} THEN None ELSE TLSConfig(w, policies[Max(on)])
    OBVIOUS
  <2>1. a \in Strings /\ t \in TLSConfigs \union {None}
    BY <1>2, <1>3, <2>a, <2>t, StringsAssumption
  <2>2. b = [key |-> key, port |-> ref.port, appProtocol |-> a, tls |-> t]
    BY <1>4, <2>a, <2>t
  <2> QED
    BY <1>1, <2>1, <2>2 DEF Backends
<1> QED
  BY <1>5, NoneAssumption DEF b

\* The references of a rule that have a port.
Usable(rule) == {i \in 1..Len(rule.refs) : rule.refs[i].port # 0}

\* What a rule of the proxy is given, and when.
RuleGiven(w, r, rule, policies, ir) ==
  /\ ir \in InternalRules
  /\ ir.redirect = rule.redirect
  /\ ir.error = ~ResolvedRefs(r)
  /\ ir.backend # None
       <=> ResolvedRefs(r) /\ rule.redirect = None /\ Usable(rule) # {}
  /\ ir.backend # None =>
       \E i \in Usable(rule) : /\ \A j \in Usable(rule) : i <= j
                              /\ ir.backend = Backend(w, r, rule.refs[i], policies)

LEMMA RuleFacts ==
  ASSUME NEW w \in Worlds, NEW r \in w.routes, NEW rule \in RouteRules,
         NEW policies \in Seq(w.policies)
  PROVE  RuleGiven(w, r, rule, policies, Rule(w, r, rule, policies))
<1>r. PICK ir : ir = Rule(w, r, rule, policies)
  OBVIOUS
<1> DEFINE ms   == [i \in 1..Len(rule.matches) |-> Match(rule.matches[i])]
           base == [matches |-> ms, redirect |-> rule.redirect, error |-> FALSE, backend |-> None]
<1>1. /\ rule.matches \in Seq(RouteMatches) /\ rule.refs \in Seq(Refs)
      /\ rule.redirect \in Redirects \union {None}
  BY DEF RouteRules
<1>2. ms \in Seq(InternalMatches)
  <2>1. PICK ss : ss = rule.matches
    OBVIOUS
  <2>2. ss \in Seq(RouteMatches) /\ Len(ss) \in Nat /\ \A i \in 1..Len(ss) : ss[i] \in RouteMatches
    BY <1>1, <2>1
  <2>3. \A i \in 1..Len(ss) : Match(ss[i]) \in InternalMatches
    BY <2>2, MatchTyped
  <2>4. [i \in 1..Len(ss) |-> Match(ss[i])] \in [1..Len(ss) -> InternalMatches]
    BY <2>3
  <2> QED
    BY <2>1, <2>2, <2>4
<1>3. ASSUME Usable(rule) # {}
      PROVE  /\ rule.refs[Min(Usable(rule))] \in Refs
             /\ Min(Usable(rule)) \in Usable(rule)
             /\ \A j \in Usable(rule) : Min(Usable(rule)) <= j
  <2>1. Usable(rule) \subseteq Nat /\ \A i \in Usable(rule) : rule.refs[i] \in Refs
    BY <1>1 DEF Usable
  <2>2. Min(Usable(rule)) \in Usable(rule) /\ \A j \in Usable(rule) : Min(Usable(rule)) <= j
    BY <1>3, <2>1, MinIsFirst
  <2> QED
    BY <2>1, <2>2
<1>4. ir = IF ~ResolvedRefs(r) THEN [base EXCEPT !.error = TRUE]
           ELSE IF rule.redirect # None \/ Usable(rule) = {} THEN base
           ELSE [base EXCEPT !.backend = Backend(w, r, rule.refs[Min(Usable(rule))], policies)]
  BY <1>r, Zenon DEF Rule, Usable
<1>5. ResolvedRefs(r) \in BOOLEAN
  BY DEF ResolvedRefs
<1> HIDE DEF ms
<1>6. ASSUME ~ResolvedRefs(r) PROVE RuleGiven(w, r, rule, policies, ir)
  BY <1>1, <1>2, <1>4, <1>6 DEF RuleGiven, InternalRules
<1>7. ASSUME ResolvedRefs(r) /\ (rule.redirect # None \/ Usable(rule) = {})
      PROVE  RuleGiven(w, r, rule, policies, ir)
  <2>1. ir = base
    BY <1>4, <1>7, Zenon
  <2>2. ir \in InternalRules
    BY <1>1, <1>2, <2>1 DEF InternalRules
  <2>3. ir.matches = ms /\ ir.redirect = rule.redirect /\ ir.error = FALSE /\ ir.backend = None
    BY <2>1
  <2> QED
    BY <1>7, <2>2, <2>3, Zenon DEF RuleGiven
<1>8. ASSUME ResolvedRefs(r) /\ rule.redirect = None /\ Usable(rule) # {}
      PROVE  RuleGiven(w, r, rule, policies, ir)
  <2>0. PICK i \in Usable(rule) : i = Min(Usable(rule)) /\ \A j \in Usable(rule) : i <= j
    BY <1>3, <1>8
  <2>1. PICK ref \in Refs : ref = rule.refs[i]
    BY <1>3, <1>8, <2>0
  <2>2. PICK b : b = Backend(w, r, ref, policies)
    OBVIOUS
  <2>3. b \in Backends /\ b # None
    BY <2>2, BackendTyped
  <2>4. ir = [base EXCEPT !.backend = b]
    BY <1>4, <1>8, <2>0, <2>1, <2>2
  <2>5. ir.backend = b
    BY <2>4
  <2>6. ir \in InternalRules
    BY <1>1, <1>2, <2>3, <2>4 DEF InternalRules
  <2> QED
    BY <1>8, <2>0, <2>1, <2>2, <2>3, <2>4, <2>5, <2>6 DEF RuleGiven
<1> QED
  BY <1>r, <1>6, <1>7, <1>8

LEMMA InternalRouteFacts ==
  ASSUME NEW w \in Worlds, NEW g \in w.gateways, NEW r \in w.routes, NEW l \in Listeners,
         NEW policies \in Seq(w.policies), NEW ir, ir = InternalRoute(w, g, l, r, policies)
  PROVE  /\ ir \in InternalRoutes
         /\ ir.gateway = g /\ ir.route = r /\ ir.hostnames = Effective(r, l)
         /\ Len(ir.rules) = Len(r.rules)
         /\ \A i \in 1..Len(r.rules) :
              ir.rules[i] = Rule(w, r, r.rules[i], policies)
<1> DEFINE n     == Len(r.rules)
           rules == [i \in 1..n |-> Rule(w, r, r.rules[i], policies)]
<1>1. n \in Nat /\ \A i \in 1..n : r.rules[i] \in RouteRules
  BY RouteFacts
<1>2. \A i \in 1..n : Rule(w, r, r.rules[i], policies) \in InternalRules
  BY <1>1, RuleFacts DEF RuleGiven
<1>3. rules \in [1..n -> InternalRules]
  BY <1>2
<1>4. rules \in Seq(InternalRules) /\ Len(rules) = n
  BY <1>1, <1>3
<1>5. Effective(r, l) \in SUBSET HostPatterns
  <2>1. l.hostname \in HostPatterns /\ r.hostnames \in SUBSET HostPatterns
    BY RouteFacts DEF Listeners
  <2>2. <<Star>> \in HostPatterns
    BY DEF HostPatterns
  <2> QED
    BY <2>1, <2>2 DEF Effective, IntersectHostnames, Intersect
<1>6. g \in Gateways /\ r \in Routes
  BY WorldFacts
<1>7. ir = [gateway |-> g, route |-> r, hostnames |-> Effective(r, l), rules |-> rules]
  BY DEF InternalRoute
<1>8. \A i \in 1..n : rules[i] = Rule(w, r, r.rules[i], policies)
  OBVIOUS
<1> HIDE DEF rules
<1> QED
  BY <1>4, <1>5, <1>6, <1>7, <1>8 DEF InternalRoutes

----------------------------------------------------------------------------
(* Which listeners get an InternalRoute. *)

\* A parentRef of r leads to listener l of g.
Named(g, l, r) ==
  \E i \in 1..Len(r.parentRefs) :
    LET p == r.parentRefs[i] IN p.name = g.name /\ InNamespace(p, g) /\ Section(p, l)

LEMMA FirstOfOne ==
  ASSUME NEW g, NEW name
  PROVE  \A k : k \in FirstNamed(name, <<g>>) <=> k = 1 /\ g.name = name
<1>1. Len(<<g>>) = 1 /\ <<g>>[1] = g
  OBVIOUS
<1>2. 1..1 = {1} /\ 1..(1 - 1) = {}
  OBVIOUS
<1> QED
  BY <1>1, <1>2 DEF FirstNamed

\* Asked of one Gateway, acceptance adds to what the loop has seen only that
\* the route is valid: the listener itself accepts it.
LEMMA ServesIff ==
  ASSUME NEW g, NEW r, NEW gateways, NEW i \in 1..Len(g.listeners), NEW l, l = g.listeners[i]
  PROVE  Serves(g, l, r, gateways)
           <=> /\ HTTP(l) /\ r.valid /\ Named(g, l, r)
               /\ Effective(r, l) # {} \/ r.hostnames = {}
<1>1. ASSUME NEW p, p.name = g.name, Section(p, l), HTTP(l), r.valid,
             Effective(r, l) # {} \/ r.hostnames = {}
      PROVE  Accepted(r, p, <<g>>)
  <2>1. 1 \in FirstNamed(p.name, <<g>>) /\ <<g>>[1] = g
    BY <1>1, FirstOfOne
  <2> QED
    BY <1>1, <2>1 DEF Accepted
<1>2. \A p : Accepted(r, p, <<g>>) => r.valid
  BY DEF Accepted
<1> QED
  BY <1>1, <1>2 DEF Serves, Bound, Named

\* The InternalRoutes that a listener gets.
RoutesFor(w, g, l, gateways, policies) ==
  {InternalRoute(w, g, l, r, policies) : r \in {r \in w.routes : Serves(g, l, r, gateways)}}

LEMMA ListenerElements ==
  ASSUME NEW w \in Worlds, NEW g \in w.gateways, NEW l \in Listeners, NEW gateways,
         NEW rts \in SetToSeqs(w.routes), NEW policies \in Seq(w.policies),
         NEW irs, irs = ListenerRoutes(w, g, l, gateways, rts, policies)
  PROVE  irs \in Seq(InternalRoutes) /\ Elements(irs) = RoutesFor(w, g, l, gateways, policies)
<1>n. PICK n : n = Len(rts)
  OBVIOUS
<1>1. /\ n \in Nat /\ \A k \in 1..n : rts[k] \in w.routes
      /\ \A r \in w.routes : \E k \in 1..n : rts[k] = r
  BY <1>n, WorldFacts, Listed
<1> DEFINE On(r) == Serves(g, l, r, gateways)
           Ir(r) == InternalRoute(w, g, l, r, policies)
           seqs  == [k \in 1..n |-> IF On(rts[k]) THEN <<Ir(rts[k])>> ELSE <<>>]
<1>2. irs = FlattenSeq(seqs)
  BY <1>n, Zenon DEF ListenerRoutes
<1>3. \A k \in 1..n : Ir(rts[k]) \in InternalRoutes
  BY <1>1, InternalRouteFacts
<1>4. RoutesFor(w, g, l, gateways, policies) = {Ir(r) : r \in {r \in w.routes : On(r)}}
  BY DEF RoutesFor
<1> HIDE DEF On, Ir
<1>5. ASSUME NEW k \in 1..n
      PROVE  /\ seqs[k] \in Seq(InternalRoutes)
             /\ Elements(seqs[k]) = IF On(rts[k]) THEN {Ir(rts[k])} ELSE {}
  <2>1. seqs[k] = IF On(rts[k]) THEN <<Ir(rts[k])>> ELSE <<>>
    OBVIOUS
  <2> HIDE DEF seqs
  <2>2. CASE On(rts[k])
    <3>1. PICK x : x = Ir(rts[k])
      OBVIOUS
    <3>2. seqs[k] = <<x>> /\ x \in InternalRoutes
      BY <1>3, <2>1, <2>2, <3>1
    <3>3. <<x>> \in Seq(InternalRoutes) /\ Len(<<x>>) = 1 /\ <<x>>[1] = x /\ 1..1 = {1}
      BY <3>2
    <3> QED
      BY <2>2, <3>1, <3>2, <3>3 DEF Elements
  <2>3. CASE ~On(rts[k])
    <3>1. seqs[k] = <<>> /\ Len(<<>>) = 0 /\ 1..0 = {} /\ <<>> \in Seq(InternalRoutes)
      BY <2>1, <2>3, EmptySeq
    <3> QED
      BY <2>3, <3>1 DEF Elements
  <2> QED
    BY <2>2, <2>3
<1>6. seqs \in [1..n -> Seq(InternalRoutes)]
  BY <1>5
<1> HIDE DEF seqs
<1>7. irs \in Seq(InternalRoutes) /\ Elements(irs) = UNION {Elements(seqs[k]) : k \in 1..n}
  BY <1>1, <1>2, <1>6, FlattenElements
<1>8. UNION {Elements(seqs[k]) : k \in 1..n} = {Ir(r) : r \in {r \in w.routes : On(r)}}
  <2>1. ASSUME NEW k \in 1..n, NEW x \in Elements(seqs[k])
        PROVE  x \in {Ir(r) : r \in {r \in w.routes : On(r)}}
    BY <1>1, <1>5
  <2>2. ASSUME NEW r \in w.routes, On(r) PROVE \E k \in 1..n : Ir(r) \in Elements(seqs[k])
    BY <1>1, <1>5, <2>2
  <2> QED
    BY <2>1, <2>2
<1> QED
  BY <1>4, <1>7, <1>8

\* The InternalRoutes of one Gateway are those of its listeners.
LEMMA BuildElements ==
  ASSUME NEW w \in Worlds, NEW g \in w.gateways, NEW gateways,
         NEW rts \in SetToSeqs(w.routes), NEW policies \in Seq(w.policies),
         NEW irs, irs = BuildInternalRoutes(w, g, gateways, rts, policies)
  PROVE  /\ irs \in Seq(InternalRoutes)
         /\ Elements(irs) =
              UNION {RoutesFor(w, g, g.listeners[i], gateways, policies) : i \in 1..Len(g.listeners)}
<1>n. PICK n : n = Len(g.listeners)
  OBVIOUS
<1>1. g \in Gateways /\ n \in Nat /\ \A i \in 1..n : g.listeners[i] \in Listeners
  BY <1>n, WorldFacts DEF Gateways
<1> DEFINE Of(l) == ListenerRoutes(w, g, l, gateways, rts, policies)
           seqs  == [i \in 1..n |-> Of(g.listeners[i])]
<1>2. irs = FlattenSeq(seqs)
  BY <1>n DEF BuildInternalRoutes
<1>3. \A i \in 1..n : /\ Of(g.listeners[i]) \in Seq(InternalRoutes)
                      /\ Elements(Of(g.listeners[i])) = RoutesFor(w, g, g.listeners[i], gateways, policies)
  <2>1. ASSUME NEW l \in Listeners
        PROVE  /\ Of(l) \in Seq(InternalRoutes)
               /\ Elements(Of(l)) = RoutesFor(w, g, l, gateways, policies)
    BY ListenerElements
  <2> HIDE DEF Of
  <2> QED
    BY <1>1, <2>1
<1> HIDE DEF Of
<1>4. /\ seqs \in [1..n -> Seq(InternalRoutes)]
      /\ \A i \in 1..n : Elements(seqs[i]) = RoutesFor(w, g, g.listeners[i], gateways, policies)
  BY <1>3
<1> HIDE DEF seqs
<1>5. irs \in Seq(InternalRoutes) /\ Elements(irs) = UNION {Elements(seqs[i]) : i \in 1..n}
  BY <1>1, <1>2, <1>4, FlattenElements
<1> QED
  BY <1>4, <1>5, <1>n

\* irs holds an InternalRoute for each listener and the routes it serves, and
\* no other.
BuiltOf(w, gs, ps, irs) ==
  /\ irs \in Seq(InternalRoutes)
  /\ \A p \in 1..Len(irs) : \E g \in w.gateways, r \in w.routes : \E i \in 1..Len(g.listeners) :
       /\ Serves(g, g.listeners[i], r, gs)
       /\ irs[p] = InternalRoute(w, g, g.listeners[i], r, ps)
  /\ \A g \in w.gateways, r \in w.routes : \A i \in 1..Len(g.listeners) :
       Serves(g, g.listeners[i], r, gs) =>
         \E p \in 1..Len(irs) : irs[p] = InternalRoute(w, g, g.listeners[i], r, ps)

LEMMA AllElements ==
  ASSUME NEW w \in Worlds, NEW gs \in SetToSeqs(w.gateways), NEW rts \in SetToSeqs(w.routes),
         NEW ps \in SetToSeqs(w.policies)
  PROVE  BuiltOf(w, gs, ps, AllRoutes(w, gs, rts, ps))
<1>i. PICK irs : irs = AllRoutes(w, gs, rts, ps)
  OBVIOUS
<1>n. PICK n : n = Len(gs)
  OBVIOUS
<1>1. /\ n \in Nat /\ \A k \in 1..n : gs[k] \in w.gateways
      /\ \A g \in w.gateways : \E k \in 1..n : gs[k] = g
  BY <1>n, WorldFacts, Listed
<1>2. ps \in Seq(w.policies)
  BY WorldFacts, Listed
<1> DEFINE Of(g) == BuildInternalRoutes(w, g, gs, rts, ps)
           For(g) == UNION {RoutesFor(w, g, g.listeners[i], gs, ps) : i \in 1..Len(g.listeners)}
           seqs  == [k \in 1..n |-> Of(gs[k])]
<1>3. irs = FlattenSeq(seqs)
  BY <1>i, <1>n DEF AllRoutes
<1>4. \A k \in 1..n : Of(gs[k]) \in Seq(InternalRoutes) /\ Elements(Of(gs[k])) = For(gs[k])
  <2>1. ASSUME NEW g \in w.gateways PROVE Of(g) \in Seq(InternalRoutes) /\ Elements(Of(g)) = For(g)
    <3>1. PICK ps2 \in Seq(w.policies) : ps2 = ps
      BY <1>2
    <3>2. PICK irs1 : irs1 = BuildInternalRoutes(w, g, gs, rts, ps2)
      OBVIOUS
    <3>3. /\ irs1 \in Seq(InternalRoutes)
          /\ Elements(irs1) =
               UNION {RoutesFor(w, g, g.listeners[i], gs, ps2) : i \in 1..Len(g.listeners)}
      BY <3>2, BuildElements
    <3> QED
      BY <3>1, <3>2, <3>3
  <2> HIDE DEF Of, For
  <2> QED
    BY <1>1, <2>1
<1> HIDE DEF Of
<1>5. seqs \in [1..n -> Seq(InternalRoutes)] /\ \A k \in 1..n : Elements(seqs[k]) = For(gs[k])
  <2> HIDE DEF For
  <2> QED
    BY <1>4
<1> HIDE DEF seqs
<1>6. irs \in Seq(InternalRoutes) /\ Elements(irs) = UNION {Elements(seqs[k]) : k \in 1..n}
  <2>1. n \in Nat /\ seqs \in [1..n -> Seq(InternalRoutes)]
    BY <1>1, <1>5
  <2> HIDE DEF For
  <2> QED
    BY <1>3, <2>1, FlattenElements
<1>7. ASSUME NEW p \in 1..Len(irs)
      PROVE  \E g \in w.gateways, r \in w.routes : \E i \in 1..Len(g.listeners) :
               /\ Serves(g, g.listeners[i], r, gs)
               /\ irs[p] = InternalRoute(w, g, g.listeners[i], r, ps)
  <2>1. irs[p] \in Elements(irs)
    BY DEF Elements
  <2>2. PICK k \in 1..n : irs[p] \in For(gs[k])
    <3> HIDE DEF For
    <3> QED
      BY <1>5, <1>6, <2>1
  <2>3. PICK g \in w.gateways : irs[p] \in For(g)
    BY <1>1, <2>2
  <2>4. PICK i \in 1..Len(g.listeners) : irs[p] \in RoutesFor(w, g, g.listeners[i], gs, ps)
    BY <2>3
  <2> QED
    BY <2>4 DEF RoutesFor
<1>8. ASSUME NEW g \in w.gateways, NEW r \in w.routes, NEW i \in 1..Len(g.listeners),
             Serves(g, g.listeners[i], r, gs)
      PROVE  \E p \in 1..Len(irs) : irs[p] = InternalRoute(w, g, g.listeners[i], r, ps)
  <2>x. PICK x : x = InternalRoute(w, g, g.listeners[i], r, ps)
    OBVIOUS
  <2>1. x \in RoutesFor(w, g, g.listeners[i], gs, ps)
    BY <1>8, <2>x DEF RoutesFor
  <2>2. x \in For(g)
    BY <2>1
  <2>3. x \in Elements(irs)
    <3> HIDE DEF For
    <3> QED
      BY <1>1, <1>5, <1>6, <2>2
  <2> QED
    BY <2>3, <2>x DEF Elements
<1> QED
  BY <1>i, <1>6, <1>7, <1>8 DEF BuiltOf

----------------------------------------------------------------------------
(* The invariant: what is installed was built of the State, and an answer   *)
(* is what the installed routes say.                                        *)

Built ==
  installed = None
    \/ \E gs \in SetToSeqs(state.gateways), rts \in SetToSeqs(state.routes),
          ps \in SetToSeqs(state.policies) : installed = AllRoutes(state, gs, rts, ps)

Replied == answer # None => installed # None /\ \E q \in Requests : answer = Served(installed, q)

IInv == state \in Worlds /\ Built /\ Replied

LEMMA Invariant == Spec => []IInv
<1>1. Init => IInv
  BY DEF Init, IInv, Built, Replied
<1>2. IInv /\ [Next]_vars => IInv'
  <2> SUFFICES ASSUME IInv, [Next]_vars PROVE IInv'
    OBVIOUS
  <2>1. CASE UpdateProxy
    BY <2>1, Zenon DEF UpdateProxy, IInv, Built, Replied
  <2>2. ASSUME NEW q \in Requests, ServeHTTP(q) PROVE IInv'
    BY <2>2, Zenon DEF ServeHTTP, IInv, Built, Replied
  <2>3. CASE UNCHANGED vars
    BY <2>3, Zenon DEF vars, IInv, Built, Replied
  <2> QED
    BY <2>1, <2>2, <2>3 DEF Next
<1> QED
  BY <1>1, <1>2, PTL DEF Spec

----------------------------------------------------------------------------
(* Hosts and status. *)

\* The InternalRoutes for one route.
BuiltForRoute(w, r, gs, ps, irs) ==
  /\ \A p \in 1..Len(irs) :
       irs[p].route = r =>
         \E g \in w.gateways : \E i \in 1..Len(g.listeners) :
           Serves(g, g.listeners[i], r, gs) /\ irs[p] = InternalRoute(w, g, g.listeners[i], r, ps)
  /\ \A g \in w.gateways : \A i \in 1..Len(g.listeners) :
       Serves(g, g.listeners[i], r, gs) =>
         \E p \in 1..Len(irs) : irs[p].route = r /\ irs[p] = InternalRoute(w, g, g.listeners[i], r, ps)

LEMMA BuiltForEach ==
  ASSUME NEW w, NEW gs, NEW ps, NEW irs, BuiltOf(w, gs, ps, irs), NEW r \in w.routes
  PROVE  BuiltForRoute(w, r, gs, ps, irs)
<1>1. \A g, l, r2 : InternalRoute(w, g, l, r2, ps).route = r2
  BY DEF InternalRoute
<1>2. ASSUME NEW p \in 1..Len(irs), irs[p].route = r
      PROVE  \E g \in w.gateways : \E i \in 1..Len(g.listeners) :
               Serves(g, g.listeners[i], r, gs) /\ irs[p] = InternalRoute(w, g, g.listeners[i], r, ps)
  <2>1. PICK g \in w.gateways, r2 \in w.routes : \E i \in 1..Len(g.listeners) :
          Serves(g, g.listeners[i], r2, gs) /\ irs[p] = InternalRoute(w, g, g.listeners[i], r2, ps)
    BY DEF BuiltOf
  <2>2. r2 = r
    BY <1>1, <1>2, <2>1
  <2> QED
    BY <2>1, <2>2
<1>3. ASSUME NEW g \in w.gateways, NEW i \in 1..Len(g.listeners), Serves(g, g.listeners[i], r, gs)
      PROVE  \E p \in 1..Len(irs) :
               irs[p].route = r /\ irs[p] = InternalRoute(w, g, g.listeners[i], r, ps)
  <2>1. PICK p \in 1..Len(irs) : irs[p] = InternalRoute(w, g, g.listeners[i], r, ps)
    BY <1>3 DEF BuiltOf
  <2> QED
    BY <1>1, <2>1
<1> QED
  BY <1>2, <1>3 DEF BuiltForRoute

LEMMA HostsExactIfBuilt == ASSUME IInv PROVE HostsExact
<1> SUFFICES ASSUME installed # None, NEW r \in state.routes, NEW q \in Requests
             PROVE  (\E i \in 1..Len(installed) :
                       installed[i].route = r /\ MatchHostname(installed[i].hostnames, q.host))
                      <=>
                    /\ r.valid
                    /\ r.hostnames = {} \/ \E n \in r.hostnames : StandsFor(n, q.host)
                    /\ \E g \in state.gateways, i \in 1..Len(r.parentRefs) :
                         LET p == r.parentRefs[i] IN
                         /\ p.name = g.name /\ InNamespace(p, g)
                         /\ \E j \in 1..Len(g.listeners) :
                              LET l == g.listeners[j] IN
                              HTTP(l) /\ Section(p, l) /\ StandsFor(l.hostname, q.host)
  BY DEF HostsExact
<1> DEFINE Stands == r.hostnames = {} \/ \E n \in r.hostnames : StandsFor(n, q.host)
<1>w. PICK w \in Worlds : w = state
  BY DEF IInv
<1>r. r \in w.routes
  BY <1>w
<1>1. q.host \in Hosts /\ r.hostnames \in SUBSET HostPatterns /\ <<>> \notin r.hostnames
  BY <1>r, RouteFacts, RequestsAssumption
<1>2. PICK gs \in SetToSeqs(w.gateways), rts \in SetToSeqs(w.routes), ps \in SetToSeqs(w.policies) :
        installed = AllRoutes(w, gs, rts, ps)
  BY <1>w DEF IInv, Built
<1>b. BuiltForRoute(w, r, gs, ps, installed)
  BY <1>2, <1>r, AllElements, BuiltForEach
<1>3. ps \in Seq(w.policies)
  BY WorldFacts, Listed
<1> DEFINE Ir(g, l) == InternalRoute(w, g, l, r, ps)
           Same(g, l) ==
             /\ Serves(g, l, r, gs)
                  <=> /\ HTTP(l) /\ r.valid /\ Named(g, l, r)
                      /\ Effective(r, l) # {} \/ r.hostnames = {}
             /\ Ir(g, l).hostnames = Effective(r, l)
             /\ (Effective(r, l) # {} \/ r.hostnames = {}) /\ MatchHostname(Effective(r, l), q.host)
                  <=> StandsFor(l.hostname, q.host) /\ Stands
<1>4. \A g \in w.gateways : \A i \in 1..Len(g.listeners) : Same(g, g.listeners[i])
  <2>1. ASSUME NEW g \in w.gateways, NEW i \in 1..Len(g.listeners), NEW l, l = g.listeners[i]
        PROVE  Same(g, l)
    <3>1. l \in Listeners
      BY <2>1, WorldFacts DEF Gateways
    <3>2. l.hostname \in HostPatterns
      BY <3>1 DEF Listeners
    <3>3. Serves(g, l, r, gs)
            <=> /\ HTTP(l) /\ r.valid /\ Named(g, l, r)
                /\ Effective(r, l) # {} \/ r.hostnames = {}
      BY <2>1, ServesIff
    <3>4. Ir(g, l).hostnames = Effective(r, l)
      BY <1>3, <1>r, <3>1, InternalRouteFacts
    <3>5. (Effective(r, l) # {} \/ r.hostnames = {}) /\ MatchHostname(Effective(r, l), q.host)
            <=> StandsFor(l.hostname, q.host) /\ Stands
      BY <1>1, <3>2, EffectiveHostnamesAreExact DEF Effective
    <3> QED
      BY <3>3, <3>4, <3>5
  <2> HIDE DEF Same
  <2> QED
    BY <2>1
<1>c. /\ \A p \in 1..Len(installed) :
           installed[p].route = r =>
             \E g \in w.gateways : \E i \in 1..Len(g.listeners) :
               Serves(g, g.listeners[i], r, gs) /\ installed[p] = Ir(g, g.listeners[i])
      /\ \A g \in w.gateways : \A i \in 1..Len(g.listeners) :
           Serves(g, g.listeners[i], r, gs) =>
             \E p \in 1..Len(installed) : installed[p].route = r /\ installed[p] = Ir(g, g.listeners[i])
  BY <1>b DEF BuiltForRoute
<1> HIDE DEF Same, Stands, Ir
<1>5. ASSUME NEW p \in 1..Len(installed), installed[p].route = r,
             MatchHostname(installed[p].hostnames, q.host)
      PROVE  /\ r.valid /\ Stands
             /\ \E g \in w.gateways : \E i \in 1..Len(g.listeners) :
                  /\ HTTP(g.listeners[i]) /\ Named(g, g.listeners[i], r)
                  /\ StandsFor(g.listeners[i].hostname, q.host)
  <2>1. PICK g \in w.gateways : \E i \in 1..Len(g.listeners) :
          Serves(g, g.listeners[i], r, gs) /\ installed[p] = Ir(g, g.listeners[i])
    BY <1>c, <1>5
  <2>2. PICK i \in 1..Len(g.listeners) :
          Serves(g, g.listeners[i], r, gs) /\ installed[p] = Ir(g, g.listeners[i])
    BY <2>1
  <2>3. PICK l : l = g.listeners[i]
    OBVIOUS
  <2>4. Same(g, l)
    BY <1>4, <2>3
  <2>5. Serves(g, l, r, gs) /\ MatchHostname(Ir(g, l).hostnames, q.host)
    BY <1>5, <2>2, <2>3
  <2>6. r.valid /\ Stands /\ HTTP(l) /\ Named(g, l, r) /\ StandsFor(l.hostname, q.host)
    BY <2>4, <2>5 DEF Same
  <2> QED
    BY <2>3, <2>6
<1>6. ASSUME r.valid, Stands, NEW g \in w.gateways, NEW i \in 1..Len(g.listeners),
             HTTP(g.listeners[i]), Named(g, g.listeners[i], r),
             StandsFor(g.listeners[i].hostname, q.host)
      PROVE  \E p \in 1..Len(installed) :
               installed[p].route = r /\ MatchHostname(installed[p].hostnames, q.host)
  <2>1. PICK l : l = g.listeners[i]
    OBVIOUS
  <2>2. Same(g, l)
    BY <1>4, <2>1
  <2>3. HTTP(l) /\ r.valid /\ Named(g, l, r) /\ StandsFor(l.hostname, q.host) /\ Stands
    BY <1>6, <2>1
  <2>4. Serves(g, l, r, gs) /\ MatchHostname(Ir(g, l).hostnames, q.host)
    BY <2>2, <2>3 DEF Same
  <2>5. PICK p \in 1..Len(installed) : installed[p].route = r /\ installed[p] = Ir(g, l)
    BY <1>c, <2>1, <2>4
  <2> QED
    BY <2>4, <2>5
<1>7. (\E g \in w.gateways : \E j \in 1..Len(g.listeners) :
         /\ HTTP(g.listeners[j]) /\ Named(g, g.listeners[j], r)
         /\ StandsFor(g.listeners[j].hostname, q.host))
      <=>
      \E g \in w.gateways, i \in 1..Len(r.parentRefs) :
        LET p == r.parentRefs[i] IN
        /\ p.name = g.name /\ InNamespace(p, g)
        /\ \E j \in 1..Len(g.listeners) :
             LET l == g.listeners[j] IN
             HTTP(l) /\ Section(p, l) /\ StandsFor(l.hostname, q.host)
  BY Zenon DEF Named
<1>8. Stands <=> r.hostnames = {} \/ \E n \in r.hostnames : StandsFor(n, q.host)
  BY <1>1 DEF Stands
<1> QED
  BY <1>w, <1>1, <1>5, <1>6, <1>7, <1>8

\* For any State and any requests: a host is routed for an HTTPRoute exactly if
\* an HTTP listener that the route names stands for it, and the route does.
\* BuildInternalRoutes neither loses nor adds a host.
THEOREM HostsAreExact == Spec => []HostsExact
<1>1. IInv => HostsExact
  BY HostsExactIfBuilt
<1> QED
  BY <1>1, Invariant, PTL

\* The only Gateway of its name is the first of that name in any order.
LEMMA FirstOfItsName ==
  ASSUME NEW S, IsFiniteSet(S), NEW gs \in SetToSeqs(S), NEW g \in S,
         \A h \in S : h.name = g.name => h = g
  PROVE  /\ \E k \in FirstNamed(g.name, gs) : TRUE
         /\ \A k \in FirstNamed(g.name, gs) : gs[k] = g
<1>1. /\ Len(gs) \in Nat /\ \A i \in 1..Len(gs) : gs[i] \in S
      /\ \A x \in S : \E i \in 1..Len(gs) : gs[i] = x
      /\ \A i, j \in 1..Len(gs) : gs[i] = gs[j] => i = j
  BY Listed
<1>2. PICK k \in 1..Len(gs) : gs[k] = g
  BY <1>1
<1>3. \A j \in 1..(k - 1) : j \in 1..Len(gs) /\ j # k
  BY <1>1
<1>4. \A j \in 1..(k - 1) : gs[j].name # g.name
  BY <1>1, <1>2, <1>3
<1>5. k \in FirstNamed(g.name, gs)
  BY <1>2, <1>4 DEF FirstNamed
<1>6. \A j \in FirstNamed(g.name, gs) : gs[j] = g
  BY <1>1 DEF FirstNamed
<1> QED
  BY <1>5, <1>6

LEMMA AcceptedIsServedIfBuilt == ASSUME IInv PROVE AcceptedIsServed
<1> SUFFICES ASSUME installed # None, NEW r \in state.routes, NEW g \in state.gateways,
                    \A h \in state.gateways : h.name = g.name => h = g,
                    NEW hs \in SetToSeqs(state.gateways)
             PROVE  (\E i \in 1..Len(r.parentRefs) :
                       LET p == r.parentRefs[i] IN
                       p.name = g.name /\ InNamespace(p, g) /\ Accepted(r, p, hs))
                      <=> \E i \in 1..Len(installed) : installed[i].gateway = g /\ installed[i].route = r
  BY DEF AcceptedIsServed
<1>w. PICK w \in Worlds : w = state
  BY DEF IInv
<1>1. r \in w.routes /\ IsFiniteSet(w.gateways)
  BY <1>w, WorldFacts
<1>2. PICK gs \in SetToSeqs(w.gateways), rts \in SetToSeqs(w.routes), ps \in SetToSeqs(w.policies) :
        installed = AllRoutes(w, gs, rts, ps)
  BY <1>w DEF IInv, Built
<1>b. BuiltForRoute(w, r, gs, ps, installed)
  BY <1>1, <1>2, AllElements, BuiltForEach
<1>3. ps \in Seq(w.policies)
  BY WorldFacts, Listed
<1> DEFINE Takes(l) == HTTP(l) /\ r.valid /\ Named(g, l, r) /\ (Effective(r, l) # {} \/ r.hostnames = {})
<1>4. ASSUME NEW p, p.name = g.name
      PROVE  Accepted(r, p, hs)
               <=> /\ r.valid
                   /\ \E i \in 1..Len(g.listeners) :
                        LET l == g.listeners[i] IN
                        HTTP(l) /\ Section(p, l) /\ (Effective(r, l) # {} \/ r.hostnames = {})
  <2>1. /\ \E k \in FirstNamed(p.name, hs) : TRUE
        /\ \A k \in FirstNamed(p.name, hs) : hs[k] = g
    BY <1>1, <1>4, <1>w, FirstOfItsName
  <2> QED
    BY <2>1 DEF Accepted
<1>5. (\E i \in 1..Len(r.parentRefs) :
         LET p == r.parentRefs[i] IN
         p.name = g.name /\ InNamespace(p, g) /\ Accepted(r, p, hs))
      <=> \E j \in 1..Len(g.listeners) : Takes(g.listeners[j])
  BY <1>4, Zenon DEF Named
<1>6. \A h \in w.gateways : \A i \in 1..Len(h.listeners) :
        InternalRoute(w, h, h.listeners[i], r, ps).gateway = h
  <2>1. ASSUME NEW h \in w.gateways, NEW i \in 1..Len(h.listeners), NEW l, l = h.listeners[i]
        PROVE  InternalRoute(w, h, l, r, ps).gateway = h
    <3>1. l \in Listeners
      BY <2>1, WorldFacts DEF Gateways
    <3> QED
      BY <1>1, <1>3, <3>1, InternalRouteFacts
  <2> QED
    BY <2>1
<1>7. \A i \in 1..Len(g.listeners) : Serves(g, g.listeners[i], r, gs) <=> Takes(g.listeners[i])
  <2>1. ASSUME NEW i \in 1..Len(g.listeners), NEW l, l = g.listeners[i]
        PROVE  Serves(g, l, r, gs) <=> Takes(l)
    BY <2>1, ServesIff
  <2> QED
    BY <2>1
<1> HIDE DEF Takes
<1>8. ASSUME NEW p \in 1..Len(installed), installed[p].gateway = g, installed[p].route = r
      PROVE  \E j \in 1..Len(g.listeners) : Takes(g.listeners[j])
  <2>1. PICK h \in w.gateways : \E i \in 1..Len(h.listeners) :
          /\ Serves(h, h.listeners[i], r, gs)
          /\ installed[p] = InternalRoute(w, h, h.listeners[i], r, ps)
    BY <1>b, <1>8 DEF BuiltForRoute
  <2>2. h = g
    BY <1>6, <1>8, <2>1
  <2> QED
    BY <1>7, <2>1, <2>2
<1>9. ASSUME NEW j \in 1..Len(g.listeners), Takes(g.listeners[j])
      PROVE  \E p \in 1..Len(installed) : installed[p].gateway = g /\ installed[p].route = r
  <2>1. PICK p \in 1..Len(installed) :
          installed[p].route = r /\ installed[p] = InternalRoute(w, g, g.listeners[j], r, ps)
    BY <1>b, <1>7, <1>9, <1>w DEF BuiltForRoute
  <2> QED
    BY <1>6, <1>w, <2>1
<1> QED
  BY <1>1, <1>5, <1>8, <1>9

\* For any State: the status and the proxy agree.  Where one Gateway has the
\* name, and the parentRef means its namespace, ComputeAcceptedCondition
\* accepts a route exactly if BuildInternalRoutes makes an InternalRoute of it.
THEOREM AcceptedRoutesAreServed == Spec => []AcceptedIsServed
<1>1. IInv => AcceptedIsServed
  BY AcceptedIsServedIfBuilt
<1> QED
  BY <1>1, Invariant, PTL

----------------------------------------------------------------------------
(* What MatchRoute scans. *)

\* Entries of irs: each is a match of rule index of one of irs, or that rule.
LookedAt(irs) ==
  {e \in [matchless : BOOLEAN, type : Types, len : Nat, headers : Nat, hits : SUBSET Requests,
          rule : Rules, route : Routes, index : Nat, match : InternalMatches,
          internal : InternalRules] :
     /\ e.matchless => e.type = "" /\ e.headers = 0
     /\ e.type = "" => e.len = 0
     /\ e.rule = [redirect |-> e.internal.redirect # None, error |-> e.internal.error,
                  backend |-> e.internal.backend # None]
     /\ \E i \in 1..Len(irs) : /\ e.route = irs[i].route /\ e.index \in 1..Len(irs[i].rules)
                               /\ e.internal = irs[i].rules[e.index]}

\* The match of an entry: its type, and how long and how many.
LEMMA MatchFacts ==
  ASSUME NEW m \in InternalMatches
  PROVE  /\ m.path # None => /\ m.path.type \in Types \ {""}
                             /\ Len(m.path.value) \in Nat
         /\ Cardinality(m.headers) \in Nat
<1>1. m.path \in TypedMatches \union {None} /\ IsFiniteSet(m.headers)
  BY DEF InternalMatches
<1>2. ASSUME m.path # None PROVE m.path.type \in Types \ {""} /\ Len(m.path.value) \in Nat
  <2>1. m.path \in TypedMatches
    BY <1>1, <1>2
  <2>2. m.path.type \in Types \ {""} /\ m.path.value \in Seq(Strings)
    BY <2>1 DEF TypedMatches, Paths
  <2>3. PICK v \in Seq(Strings) : v = m.path.value
    BY <2>2
  <2>4. Len(v) \in Nat
    OBVIOUS
  <2> QED
    BY <2>2, <2>3, <2>4
<1> QED
  BY <1>1, <1>2, FS_CardinalityType

LEMMA NoMatchTyped == NoMatch \in InternalMatches /\ NoMatch.path = None /\ Cardinality(NoMatch.headers) = 0
<1>1. IsFiniteSet({}) /\ Cardinality({}) = 0
  BY FS_EmptySet
<1> QED
  BY <1>1 DEF NoMatch, InternalMatches

LEMMA LookTyped ==
  ASSUME NEW irs \in Seq(InternalRoutes), NEW i \in 1..Len(irs), NEW j \in 1..Len(irs[i].rules)
  PROVE  Look(irs[i], j) \in Seq(LookedAt(irs))
<1>r. PICK ir \in InternalRoutes : ir = irs[i]
  OBVIOUS
<1>1. ir.rules \in Seq(InternalRules) /\ ir.rules[j] \in InternalRules /\ j \in Nat
  <2>1. ir.rules \in Seq(InternalRules)
    BY DEF InternalRoutes
  <2>2. PICK rs : rs = ir.rules
    OBVIOUS
  <2>3. rs[j] \in InternalRules /\ j \in Nat
    BY <1>r, <2>1, <2>2
  <2> QED
    BY <2>1, <2>2, <2>3
<1>u. PICK rule \in InternalRules : rule = ir.rules[j]
  BY <1>1
<1> DEFINE bare == rule.matches = <<>>
           ms   == IF bare THEN <<NoMatch>> ELSE rule.matches
           given == [redirect |-> rule.redirect # None, error |-> rule.error,
                     backend |-> rule.backend # None]
           Hit(m) == {q \in Requests : /\ MatchHostname(ir.hostnames, q.host)
                                       /\ bare \/ Matches(m, q)}
           Entry(m) == [matchless |-> bare,
                        type    |-> IF m.path = None THEN "" ELSE m.path.type,
                        len     |-> IF m.path = None THEN 0 ELSE Len(m.path.value),
                        headers |-> Cardinality(m.headers),
                        hits    |-> Hit(m), rule |-> given,
                        route |-> ir.route, index |-> j, match |-> m, internal |-> rule]
<1>2. Look(ir, j) = [k \in 1..Len(ms) |-> Entry(ms[k])]
  BY <1>u DEF Look
<1>3. /\ Len(ms) \in Nat
      /\ \A k \in 1..Len(ms) : ms[k] \in InternalMatches /\ (bare => ms[k] = NoMatch)
  <2>1. CASE bare
    <3>1. ms = <<NoMatch>> /\ Len(<<NoMatch>>) = 1 /\ <<NoMatch>>[1] = NoMatch
      BY <2>1
    <3> HIDE DEF ms
    <3> QED
      BY <2>1, <3>1, NoMatchTyped
  <2>2. CASE ~bare
    <3>1. PICK ss : ss = rule.matches
      OBVIOUS
    <3>2. ss \in Seq(InternalMatches)
      BY <3>1 DEF InternalRules
    <3>3. Len(ss) \in Nat /\ \A k \in 1..Len(ss) : ss[k] \in InternalMatches
      BY <3>2
    <3>4. ms = ss
      BY <2>2, <3>1
    <3> HIDE DEF ms
    <3> QED
      BY <2>2, <3>3, <3>4
  <2> QED
    BY <2>1, <2>2
<1>4. given \in Rules
  BY DEF InternalRules, Rules
<1>5. /\ bare \in BOOLEAN /\ \A m : Hit(m) \in SUBSET Requests
      /\ "" \in Types /\ 0 \in Nat
  BY DEF Types
<1> HIDE DEF ms, Hit, bare
<1>6. ASSUME NEW m \in InternalMatches, bare => m = NoMatch PROVE Entry(m) \in LookedAt(irs)
  <2>t. PICK t : t = IF m.path = None THEN "" ELSE m.path.type
    OBVIOUS
  <2>l. PICK l : l = IF m.path = None THEN 0 ELSE Len(m.path.value)
    OBVIOUS
  <2>h. PICK h : h = Cardinality(m.headers)
    OBVIOUS
  <2>1. t \in Types /\ l \in Nat /\ h \in Nat /\ (t = "" => l = 0)
    BY <1>5, <2>t, <2>l, <2>h, MatchFacts
  <2>2. bare => t = "" /\ h = 0
    BY <1>6, <2>t, <2>h, NoMatchTyped
  <2>3. Entry(m) = [matchless |-> bare, type |-> t, len |-> l, headers |-> h,
                    hits |-> Hit(m), rule |-> given, route |-> ir.route, index |-> j,
                    match |-> m, internal |-> rule]
    BY <2>t, <2>l, <2>h
  <2>g. PICK g \in Rules : g = given
    BY <1>4
  <2>r. PICK rt \in Routes : rt = ir.route
    BY DEF InternalRoutes
  <2>e. PICK e : e = Entry(m)
    OBVIOUS
  <2>4. e = [matchless |-> bare, type |-> t, len |-> l, headers |-> h,
             hits |-> Hit(m), rule |-> g, route |-> rt, index |-> j, match |-> m,
             internal |-> rule]
    BY <2>3, <2>g, <2>e, <2>r
  <2>5. e \in [matchless : BOOLEAN, type : Types, len : Nat, headers : Nat, hits : SUBSET Requests,
               rule : Rules, route : Routes, index : Nat, match : InternalMatches,
               internal : InternalRules]
    BY <1>1, <1>5, <2>1, <2>4
  <2>6. /\ e.matchless = bare /\ e.type = t /\ e.len = l /\ e.headers = h /\ e.rule = g
        /\ e.index = j /\ e.internal = rule /\ e.route = rt
    BY <2>4
  <2>7. e.rule = [redirect |-> e.internal.redirect # None, error |-> e.internal.error,
                  backend |-> e.internal.backend # None]
    BY <2>6, <2>g
  <2>8. /\ e.route = irs[i].route /\ e.index \in 1..Len(irs[i].rules)
        /\ e.internal = irs[i].rules[e.index]
    BY <1>r, <1>u, <2>6, <2>r
  <2>9. e \in LookedAt(irs)
    BY <2>1, <2>2, <2>5, <2>6, <2>7, <2>8, Zenon DEF LookedAt
  <2> QED
    BY <2>e, <2>9
<1> HIDE DEF Entry
<1>7. [k \in 1..Len(ms) |-> Entry(ms[k])] \in [1..Len(ms) -> LookedAt(irs)]
  BY <1>3, <1>6
<1> QED
  BY <1>r, <1>2, <1>3, <1>7

LEMMA FlattenedTyped ==
  ASSUME NEW irs \in Seq(InternalRoutes) PROVE Flattened(irs) \in Seq(LookedAt(irs))
<1> DEFINE T == LookedAt(irs)
           Looks(i) == [j \in 1..Len(irs[i].rules) |-> Look(irs[i], j)]
           Of(i) == FlattenSeq(Looks(i))
           seqs == [i \in 1..Len(irs) |-> Of(i)]
<1> HIDE DEF T
<1>1. ASSUME NEW i \in 1..Len(irs) PROVE Of(i) \in Seq(T)
  <2>1. PICK n : n = Len(irs[i].rules)
    OBVIOUS
  <2>2. n \in Nat
    <3>1. irs[i] \in InternalRoutes
      OBVIOUS
    <3>2. irs[i].rules \in Seq(InternalRules)
      BY <3>1 DEF InternalRoutes
    <3> QED
      BY <2>1, <3>2
  <2>3. \A j \in 1..n : Look(irs[i], j) \in Seq(T)
    BY <2>1, LookTyped DEF T
  <2>4. Looks(i) \in [1..n -> Seq(T)]
    BY <2>1, <2>3
  <2>5. Looks(i) \in Seq(Seq(T))
    <3> HIDE DEF Looks
    <3> QED
      BY <2>2, <2>4
  <2> HIDE DEF Looks
  <2>6. Collects(T, Looks(i), Of(i))
    BY <2>5, FlattenCollects
  <2> QED
    BY <2>6 DEF Collects
<1>2. Flattened(irs) = FlattenSeq(seqs)
  BY DEF Flattened
<1> HIDE DEF Of
<1>3. seqs \in Seq(Seq(T))
  <2>1. seqs \in [1..Len(irs) -> Seq(T)] /\ Len(irs) \in Nat
    BY <1>1
  <2> HIDE DEF seqs
  <2> QED
    BY <2>1
<1> HIDE DEF seqs
<1>4. Collects(T, seqs, FlattenSeq(seqs))
  BY <1>3, FlattenCollects
<1>5. FlattenSeq(seqs) \in Seq(T)
  BY <1>4 DEF Collects
<1> QED
  BY <1>2, <1>5 DEF T

\* For every request MatchRoute finds the right rule, or finds none.
LEMMA MatchRouteFinds ==
  ASSUME NEW irs, NEW c \in Seq(LookedAt(irs)), NEW q
  PROVE  /\ MatchRoute(c, q) \in 0..Len(c)
         /\ RightUpTo(c, q, MatchRoute(c, q), Len(c))
<1>1. Len(c) \in Nat
  OBVIOUS
<1>2. \A i \in 1..Len(c) : c[i] \in LookedAt(irs)
  OBVIOUS
<1>3. \A e \in LookedAt(irs) : Comparable(e) /\ e.matchless \in BOOLEAN
  BY DEF LookedAt, Comparable
<1>4. Scannable(c)
  BY <1>1, <1>2, <1>3 DEF Scannable
<1>5. \E i \in 0..Len(c) : RightUpTo(c, q, i, Len(c))
  BY <1>4, RightExists
<1> QED
  BY <1>5 DEF MatchRoute

----------------------------------------------------------------------------
(* What a request is answered. *)

\* The rule that answers is a rule of one of the routes, as BuildInternalRoutes
\* makes it of one order of the policies.
LEMMA EntryFacts ==
  ASSUME NEW w \in Worlds, NEW gs, NEW ps \in SetToSeqs(w.policies),
         NEW irs, BuiltOf(w, gs, ps, irs), NEW e \in LookedAt(irs)
  PROVE  /\ e.route \in w.routes
         /\ e.index \in 1..Len(e.route.rules)
         /\ e.internal = Rule(w, e.route, e.route.rules[e.index], ps)
<1>2. PICK p \in 1..Len(irs) : /\ e.route = irs[p].route /\ e.index \in 1..Len(irs[p].rules)
                               /\ e.internal = irs[p].rules[e.index]
  BY DEF LookedAt
<1>3. PICK g \in w.gateways, r \in w.routes : \E i \in 1..Len(g.listeners) :
        irs[p] = InternalRoute(w, g, g.listeners[i], r, ps)
  BY DEF BuiltOf
<1>4. PICK i \in 1..Len(g.listeners) : irs[p] = InternalRoute(w, g, g.listeners[i], r, ps)
  BY <1>3
<1>5. ps \in Seq(w.policies)
  BY WorldFacts, Listed
<1>l. PICK l : l = g.listeners[i]
  OBVIOUS
<1>6. l \in Listeners
  BY <1>l, WorldFacts DEF Gateways
<1>o. PICK ir : ir = irs[p]
  OBVIOUS
<1>7. ir = InternalRoute(w, g, l, r, ps)
  BY <1>4, <1>l, <1>o
<1>8. /\ ir.route = r /\ Len(ir.rules) = Len(r.rules)
      /\ \A k \in 1..Len(r.rules) : ir.rules[k] = Rule(w, r, r.rules[k], ps)
  BY <1>5, <1>6, <1>7, InternalRouteFacts
<1>9. e.route = r /\ e.index \in 1..Len(r.rules) /\ e.internal = Rule(w, r, r.rules[e.index], ps)
  BY <1>2, <1>8, <1>o
<1> QED
  BY <1>9

\* The answer to q, when the routes are built of w.
AnswerFrom(w, ps, a, e) ==
  /\ a.reply = IF e.internal.redirect # None THEN "redirect"
               ELSE IF e.internal.error THEN "error"
               ELSE IF e.internal.backend # None THEN "backend" ELSE "notFound"
  /\ a.route = e.route /\ a.rule = e.index
  /\ a.reply = "backend" =>
       /\ a.backend = e.internal.backend.key /\ a.port = e.internal.backend.port
       /\ a.transport = Transport(e.internal.backend)
  /\ e.route \in w.routes
  /\ e.index \in 1..Len(e.route.rules)
  /\ e.internal = Rule(w, e.route, e.route.rules[e.index], ps)

LEMMA ServedFacts ==
  ASSUME NEW w \in Worlds, NEW gs, NEW ps \in SetToSeqs(w.policies),
         NEW irs, BuiltOf(w, gs, ps, irs), NEW q \in Requests, NEW a, a = Served(irs, q)
  PROVE  /\ a.req = q
         /\ \/ a.reply = "notFound" /\ a.rule = 0
            \/ \E e : AnswerFrom(w, ps, a, e)
<1>1. irs \in Seq(InternalRoutes)
  BY DEF BuiltOf
<1>c. PICK c : c = Flattened(irs)
  OBVIOUS
<1>2. c \in Seq(LookedAt(irs)) /\ Len(c) \in Nat
  BY <1>1, <1>c, FlattenedTyped
<1>i. PICK i : i = MatchRoute(c, q)
  OBVIOUS
<1>3. i \in 0..Len(c)
  BY <1>2, <1>i, MatchRouteFinds
<1>p. PICK reply : reply = Answer(c, i)
  OBVIOUS
<1>4. /\ a.req = q /\ a.reply = reply /\ a.rule = IF i = 0 THEN 0 ELSE c[i].index
      /\ a.route = IF i = 0 THEN None ELSE c[i].route
      /\ a.port = IF reply = "backend" THEN c[i].internal.backend.port ELSE 0
      /\ a.backend = IF reply = "backend" THEN c[i].internal.backend.key ELSE None
      /\ a.transport = IF reply = "backend" THEN Transport(c[i].internal.backend) ELSE None
  BY <1>c, <1>i, <1>p DEF Served
<1>5. CASE i = 0
  BY <1>4, <1>5, <1>p DEF Answer
<1>6. CASE i # 0
  <2>1. i \in 1..Len(c)
    BY <1>2, <1>3, <1>6
  <2>2. PICK e \in LookedAt(irs) : e = c[i]
    BY <1>2, <2>1
  <2>3. /\ e.route \in w.routes
        /\ e.index \in 1..Len(e.route.rules)
        /\ e.internal = Rule(w, e.route, e.route.rules[e.index], ps)
    BY EntryFacts
  <2>4. e.rule = [redirect |-> e.internal.redirect # None, error |-> e.internal.error,
                  backend |-> e.internal.backend # None]
    BY DEF LookedAt
  <2>5. reply = IF e.internal.redirect # None THEN "redirect"
                ELSE IF e.internal.error THEN "error"
                ELSE IF e.internal.backend # None THEN "backend" ELSE "notFound"
    <3>1. reply = IF e.rule.redirect THEN "redirect"
                  ELSE IF e.rule.error THEN "error"
                  ELSE IF e.rule.backend THEN "backend" ELSE "notFound"
      BY <1>6, <1>p, <2>2, Zenon DEF Answer
    <3>2. /\ e.rule.redirect = (e.internal.redirect # None) /\ e.rule.error = e.internal.error
          /\ e.rule.backend = (e.internal.backend # None)
      BY <2>4
    <3> QED
      BY <3>1, <3>2, Zenon
  <2>6. AnswerFrom(w, ps, a, e)
    BY <1>4, <1>6, <2>2, <2>3, <2>5, Zenon DEF AnswerFrom
  <2> QED
    BY <1>4, <2>6
<1> QED
  BY <1>5, <1>6

\* What the invariant says of an answer, unless nothing was found.
LEMMA AnswerFacts ==
  ASSUME IInv, answer # None
  PROVE  \E w \in Worlds : \E ps \in SetToSeqs(w.policies) :
           /\ w = state /\ answer.req \in Requests
           /\ \/ answer.reply = "notFound" /\ answer.rule = 0
              \/ \E e : AnswerFrom(w, ps, answer, e)
<1>1. PICK w \in Worlds : w = state
  BY DEF IInv
<1>2. PICK q \in Requests : installed # None /\ answer = Served(installed, q)
  BY DEF IInv, Replied
<1>3. PICK gs \in SetToSeqs(w.gateways), rts \in SetToSeqs(w.routes), ps \in SetToSeqs(w.policies) :
        installed = AllRoutes(w, gs, rts, ps)
  BY <1>1, <1>2 DEF IInv, Built
<1>i. PICK irs : irs = installed
  OBVIOUS
<1>a. PICK a : a = answer
  OBVIOUS
<1>4. BuiltOf(w, gs, ps, irs) /\ a = Served(irs, q)
  BY <1>2, <1>3, <1>i, <1>a, AllElements
<1>5. /\ a.req = q
      /\ \/ a.reply = "notFound" /\ a.rule = 0
         \/ \E e : AnswerFrom(w, ps, a, e)
  BY <1>4, ServedFacts
<1> QED
  BY <1>1, <1>5, <1>a

LEMMA TypeOKIfBuilt == ASSUME IInv PROVE TypeOK
<1>1. state \in Worlds
  BY DEF IInv
<1>2. ASSUME installed # None
      PROVE  LET c == Flattened(installed) IN
             \A i \in 1..Len(c) :
               /\ [matchless |-> c[i].matchless, type |-> c[i].type, len |-> c[i].len,
                   headers |-> c[i].headers, hits |-> c[i].hits, rule |-> c[i].rule] \in Entries
               /\ c[i].matchless => c[i].type = "" /\ c[i].headers = 0
               /\ c[i].type = "" => c[i].len = 0
  <2>1. PICK gs \in SetToSeqs(state.gateways), rts \in SetToSeqs(state.routes),
             ps \in SetToSeqs(state.policies) : installed = AllRoutes(state, gs, rts, ps)
    BY <1>2 DEF IInv, Built
  <2>2. installed \in Seq(InternalRoutes)
    BY <1>1, <2>1, AllElements DEF BuiltOf
  <2>3. PICK c : c = Flattened(installed)
    OBVIOUS
  <2>4. c \in Seq(LookedAt(installed))
    BY <2>2, <2>3, FlattenedTyped
  <2>5. \A i \in 1..Len(c) : c[i] \in LookedAt(installed)
    BY <2>4
  <2>6. \A e \in LookedAt(installed) :
          /\ [matchless |-> e.matchless, type |-> e.type, len |-> e.len,
              headers |-> e.headers, hits |-> e.hits, rule |-> e.rule] \in Entries
          /\ e.matchless => e.type = "" /\ e.headers = 0
          /\ e.type = "" => e.len = 0
    BY DEF LookedAt, Entries
  <2> QED
    BY <2>3, <2>5, <2>6
<1>3. ASSUME answer # None
      PROVE  /\ answer.req \in Requests
             /\ answer.reply \in Replies
             /\ answer.rule # 0 =>
                  answer.route \in state.routes /\ answer.rule \in 1..Len(answer.route.rules)
  <2>1. PICK w \in Worlds : \E ps \in SetToSeqs(w.policies) :
           /\ w = state /\ answer.req \in Requests
           /\ \/ answer.reply = "notFound" /\ answer.rule = 0
              \/ \E e : AnswerFrom(w, ps, answer, e)
    BY <1>3, AnswerFacts
  <2>2. CASE answer.reply = "notFound" /\ answer.rule = 0
    BY <2>1, <2>2 DEF Replies
  <2>3. ASSUME NEW ps, NEW e, AnswerFrom(w, ps, answer, e)
        PROVE  /\ answer.reply \in Replies
               /\ answer.route \in w.routes /\ answer.rule \in 1..Len(answer.route.rules)
    BY <2>3, Zenon DEF AnswerFrom, Replies
  <2> QED
    BY <2>1, <2>2, <2>3
<1> QED
  BY <1>1, <1>2, <1>3 DEF TypeOK

\* For any State and any requests: what BuildInternalRoutes installs is a list
\* that MatchRoute may scan, in which every path has a type and a rule without
\* matches counts as one without a path or headers.
THEOREM TypeCorrect == Spec => []TypeOK
<1>1. IInv => TypeOK
  BY TypeOKIfBuilt
<1> QED
  BY <1>1, Invariant, PTL

\* A rule of another kind of reference is not resolved, and neither is its route.
LEMMA UnresolvedRule ==
  ASSUME NEW r, NEW k \in 1..Len(r.rules), NEW i \in 1..Len(r.rules[k].refs),
         ~ToService(r.rules[k].refs[i])
  PROVE  ~ResolvedRefs(r)
  BY DEF ResolvedRefs

\* What ForwardedAsReferenced says of a rule of r.
Forwarded(a, r, rule) ==
  /\ (\E i \in 1..Len(rule.refs) : ~ToService(rule.refs[i])) => a.reply = "error"
  /\ a.reply = "error" => ~ResolvedRefs(r)
  /\ a.reply = "notFound" => Usable(rule) = {}
  /\ a.reply = "backend" =>
       \E i \in Usable(rule) :
         /\ \A j \in Usable(rule) : i <= j
         /\ a.backend = ServiceKey(r, rule.refs[i])
         /\ a.port = rule.refs[i].port

LEMMA ForwardedIfBuilt == ASSUME IInv PROVE ForwardedAsReferenced
<1> SUFFICES ASSUME answer # None, answer.rule # 0,
                    answer.route.rules[answer.rule].redirect = None
             PROVE  Forwarded(answer, answer.route, answer.route.rules[answer.rule])
  BY DEF ForwardedAsReferenced, Forwarded, Usable
<1>0. PICK r, rule : r = answer.route /\ rule = r.rules[answer.rule]
  OBVIOUS
<1> SUFFICES Forwarded(answer, r, rule)
  BY <1>0
<1>y. rule.redirect = None
  BY <1>0
<1>1. PICK w \in Worlds : \E ps \in SetToSeqs(w.policies) :
         /\ w = state /\ answer.req \in Requests
         /\ \/ answer.reply = "notFound" /\ answer.rule = 0
            \/ \E e : AnswerFrom(w, ps, answer, e)
  BY AnswerFacts
<1>f. PICK ps \in SetToSeqs(w.policies) : \E e : AnswerFrom(w, ps, answer, e)
  BY <1>1
<1>2. PICK e : AnswerFrom(w, ps, answer, e)
  BY <1>f
<1>3. /\ ps \in Seq(w.policies)
      /\ r \in w.routes /\ answer.rule \in 1..Len(r.rules) /\ rule \in RouteRules
  <2>1. r \in w.routes /\ answer.rule \in 1..Len(r.rules)
    BY <1>0, <1>2 DEF AnswerFrom
  <2> QED
    BY <1>0, <2>1, RouteFacts, WorldFacts, Listed
<1>x. PICK ir : ir = e.internal
  OBVIOUS
<1>4. ir = Rule(w, r, rule, ps)
  BY <1>0, <1>2, <1>x DEF AnswerFrom
<1>g. RuleGiven(w, r, rule, ps, ir)
  BY <1>3, <1>4, RuleFacts
<1>5. /\ ir.redirect = None
      /\ ir.error = ~ResolvedRefs(r)
      /\ ir.backend # None <=> ResolvedRefs(r) /\ Usable(rule) # {}
  BY <1>g, <1>y DEF RuleGiven
<1>6. answer.reply = IF ir.redirect # None THEN "redirect"
                     ELSE IF ir.error THEN "error"
                     ELSE IF ir.backend # None THEN "backend" ELSE "notFound"
  BY <1>2, <1>x, Zenon DEF AnswerFrom
<1>7. /\ answer.reply = "error" <=> ir.error
      /\ answer.reply = "notFound" => ~ir.error /\ ir.backend = None
      /\ answer.reply = "backend" => ir.backend # None
  <2>1. /\ "error" # "notFound" /\ "backend" # "error" /\ "backend" # "notFound"
    OBVIOUS
  <2> QED
    BY <1>5, <1>6, <2>1, Zenon
<1>8. answer.reply = "error" <=> ~ResolvedRefs(r)
  BY <1>5, <1>7, Zenon
<1>9. (\E i \in 1..Len(rule.refs) : ~ToService(rule.refs[i])) => ~ResolvedRefs(r)
  <2>1. ASSUME NEW i \in 1..Len(rule.refs), ~ToService(rule.refs[i]) PROVE ~ResolvedRefs(r)
    <3>1. PICK k : k = answer.rule
      OBVIOUS
    <3> QED
      BY <1>0, <1>3, <2>1, <3>1, UnresolvedRule
  <2> QED
    BY <2>1
<1>10. answer.reply = "notFound" => Usable(rule) = {}
  BY <1>5, <1>7, Zenon
<1>11. ASSUME answer.reply = "backend"
       PROVE  \E i \in Usable(rule) :
                /\ \A j \in Usable(rule) : i <= j
                /\ answer.backend = ServiceKey(r, rule.refs[i])
                /\ answer.port = rule.refs[i].port
  <2>1. ir.backend # None
    BY <1>7, <1>11
  <2>2. PICK i \in Usable(rule) :
          /\ \A j \in Usable(rule) : i <= j
          /\ ir.backend = Backend(w, r, rule.refs[i], ps)
    BY <1>g, <2>1 DEF RuleGiven
  <2>b. PICK b : b = Backend(w, r, rule.refs[i], ps)
    OBVIOUS
  <2>3. answer.backend = b.key /\ answer.port = b.port
    BY <1>2, <1>11, <1>x, <2>2, <2>b DEF AnswerFrom
  <2>4. b.key = ServiceKey(r, rule.refs[i]) /\ b.port = rule.refs[i].port
    BY <2>b DEF Backend
  <2> QED
    BY <2>2, <2>3, <2>4
<1> QED
  BY <1>8, <1>9, <1>10, <1>11 DEF Forwarded

\* For any State and any requests: a rule forwards to its own first reference
\* with a port, in the namespace of its own route, and to nothing if one of its
\* references is of another kind; an error is one that the route's ResolvedRefs
\* shows, and a rule with a reference that has a port is not answered a 404.
THEOREM ForwardsAsReferenced == Spec => []ForwardedAsReferenced
<1>1. IInv => ForwardedAsReferenced
  BY ForwardedIfBuilt
<1> QED
  BY <1>1, Invariant, PTL

LEMMA TransportIfBuilt == ASSUME IInv PROVE TransportOfOnePolicy
<1> DEFINE On(key) == {p \in state.policies : Targets(p, key)}
           Said(t, p) == t = [mode |-> IF CACerts(state, p) = {} THEN "unverified" ELSE "verified",
                              caCerts |-> CACerts(state, p), serverName |-> p.hostname]
<1> SUFFICES ASSUME answer # None, answer.reply = "backend", NEW key, key = answer.backend
             PROVE  /\ On(key) # {} => \E p \in On(key) : Said(answer.transport, p)
                    /\ On(key) = {} => /\ answer.transport.caCerts = {}
                                       /\ answer.transport.serverName = ""
                                       /\ answer.transport.mode # "verified"
  BY DEF TransportOfOnePolicy
<1>1. PICK w \in Worlds : \E ps \in SetToSeqs(w.policies) :
         /\ w = state /\ answer.req \in Requests
         /\ \/ answer.reply = "notFound" /\ answer.rule = 0
            \/ \E e : AnswerFrom(w, ps, answer, e)
  BY AnswerFacts
<1>f. PICK ps \in SetToSeqs(w.policies) : \E e : AnswerFrom(w, ps, answer, e)
  BY <1>1
<1>2. PICK e : AnswerFrom(w, ps, answer, e)
  BY <1>f
<1>3. /\ ps \in Seq(w.policies) /\ \A i \in 1..Len(ps) : ps[i] \in w.policies
      /\ \A p \in w.policies : \E i \in 1..Len(ps) : ps[i] = p
  BY WorldFacts, Listed
<1>r. PICK r \in w.routes : r = e.route /\ e.index \in 1..Len(r.rules)
  BY <1>2 DEF AnswerFrom
<1>4. PICK rule \in RouteRules : rule = r.rules[e.index]
  BY <1>r, RouteFacts
<1>x. PICK ir : ir = e.internal
  OBVIOUS
<1>5. ir = Rule(w, r, rule, ps)
  BY <1>2, <1>4, <1>r, <1>x DEF AnswerFrom
<1>6. ir.backend # None
  <2>1. answer.reply = IF ir.redirect # None THEN "redirect"
                       ELSE IF ir.error THEN "error"
                       ELSE IF ir.backend # None THEN "backend" ELSE "notFound"
    BY <1>2, <1>x, Zenon DEF AnswerFrom
  <2>2. "redirect" # "backend" /\ "error" # "backend" /\ "notFound" # "backend"
    OBVIOUS
  <2> QED
    BY <2>1, <2>2, Zenon
<1>g. RuleGiven(w, r, rule, ps, ir)
  BY <1>3, <1>5, RuleFacts
<1>7. PICK ref : ir.backend = Backend(w, r, ref, ps)
  BY <1>6, <1>g DEF RuleGiven
<1>b. PICK b : b = ir.backend
  OBVIOUS
<1>8. key = b.key /\ answer.transport = Transport(b)
  BY <1>2, <1>b, <1>x DEF AnswerFrom
<1> DEFINE on == {i \in 1..Len(ps) : Targets(ps[i], key)}
<1>9. /\ b.appProtocol = "https" \/ on = {}
      /\ b.tls = IF on = {} THEN None ELSE TLSConfig(w, ps[Max(on)])
  <2>1. b = Backend(w, r, ref, ps)
    BY <1>7, <1>b
  <2>2. b.key = ServiceKey(r, ref)
    BY <2>1 DEF Backend
  <2>3. key = ServiceKey(r, ref)
    BY <1>8, <2>2
  <2> HIDE DEF on
  <2>4. b = [key |-> key, port |-> ref.port,
             appProtocol |-> IF on = {} THEN AppProtocol(w, key, ref.port) ELSE "https",
             tls |-> IF on = {} THEN None ELSE TLSConfig(w, ps[Max(on)])]
    BY <2>1, <2>3 DEF Backend, on
  <2> QED
    BY <2>4
<1>10. CASE on # {}
  <2>1. Max(on) \in on /\ ps[Max(on)] \in w.policies /\ Targets(ps[Max(on)], key)
    BY <1>3, <1>10, LastPolicy
  <2>2. PICK p \in w.policies : p = ps[Max(on)]
    BY <2>1
  <2>3. p \in On(key)
    BY <1>1, <2>1, <2>2
  <2> HIDE DEF on, On
  <2>4. TLSConfig(w, p) # None
    <3>1. p \in Policies
      BY WorldFacts
    <3>2. TLSConfig(w, p) \in TLSConfigs
      BY <3>1 DEF TLSConfig, CACerts, TLSConfigs, Policies
    <3> QED
      BY <3>2, NoneAssumption
  <2>5. b.appProtocol = "https" /\ b.tls = TLSConfig(w, p) /\ b.tls # None
    BY <1>9, <1>10, <2>2, <2>4
  <2>6. b.tls.caCerts = CACerts(w, p) /\ b.tls.hostname = p.hostname
    BY <2>5 DEF TLSConfig
  <2>7. Said(answer.transport, p)
    <3>1. Transport(b) = [mode |-> IF b.tls.caCerts = {} THEN "unverified" ELSE "verified",
                          caCerts |-> b.tls.caCerts, serverName |-> b.tls.hostname]
      BY <2>5, Zenon DEF Transport
    <3> QED
      BY <1>1, <1>8, <2>6, <3>1
  <2> QED
    BY <2>3, <2>7
<1>11. CASE on = {}
  <2>1. On(key) = {}
    <3>1. ASSUME NEW p \in w.policies PROVE ~Targets(p, key)
      <4>1. PICK i \in 1..Len(ps) : ps[i] = p
        BY <1>3
      <4>2. i \notin on
        BY <1>11
      <4> QED
        BY <4>1, <4>2
    <3>2. w = state
      BY <1>1
    <3> QED
      BY <3>1, <3>2
  <2>2. b.tls = None
    BY <1>9, <1>11
  <2> HIDE DEF on, On
  <2>3. /\ Transport(b).caCerts = {} /\ Transport(b).serverName = ""
        /\ Transport(b).mode # "verified"
    BY <2>2 DEF Transport
  <2> QED
    BY <1>8, <2>1, <2>3
<1> QED
  BY <1>10, <1>11

\* For any State and any requests: a Service that policies of its namespace
\* target is spoken to as one of them says, by its hostname, verified against
\* the certificates State has for that same policy and unverified if it has
\* none; one that no policy targets is never verified.
THEOREM TransportsOfOnePolicy == Spec => []TransportOfOnePolicy
<1>1. IInv => TransportOfOnePolicy
  BY TransportIfBuilt
<1> QED
  BY <1>1, Invariant, PTL

----------------------------------------------------------------------------
(* The same answers for every order of the maps.                            *)

\* Two entries of the same rule and match: they differ in the requests they
\* accept at most, by the hostnames of their InternalRoutes.
Alike(e, f) ==
  /\ e.matchless = f.matchless /\ e.type = f.type /\ e.len = f.len /\ e.headers = f.headers
  /\ e.rule = f.rule /\ e.route = f.route /\ e.index = f.index
  /\ e.match = f.match /\ e.internal = f.internal

\* What c has for route r is the list b over and over: once for each of N, in
\* that order, and of these the ones in M accept q where b does and the others
\* do not.
Repeats(c, at, b, N, M, q, r) ==
  /\ \A p \in 1..Len(c) :
       c[p].route = r =>
         /\ at[p] \in N \X (1..Len(b))
         /\ Alike(c[p], b[at[p][2]])
         /\ q \in c[p].hits <=> at[p][1] \in M /\ q \in b[at[p][2]].hits
  /\ \A p, p2 \in 1..Len(c) :
       c[p].route = r /\ c[p2].route = r /\ p < p2 => Earlier(at[p], at[p2])
  /\ \A k \in N, x \in 1..Len(b) : \E p \in 1..Len(c) : c[p].route = r /\ at[p] = <<k, x>>

\* What RightUpTo says of i, for the entries H.
RightIn(c, H, i) ==
  /\ i \in H
  /\ c[i].matchless => \A j \in H : i <= j
  /\ \A j \in H : ~c[j].matchless => ~Better(c[j], c[i])
  /\ \A j \in H : j < i /\ (c[j].matchless => \A k \in H : j <= k) => Better(c[i], c[j])

LEMMA RightAmongAll ==
  ASSUME NEW c, Len(c) \in Nat, NEW q, NEW i
  PROVE  RightUpTo(c, q, i, Len(c)) <=>
           IF Hits(c, q, Len(c)) = {} THEN i = 0 ELSE RightIn(c, Hits(c, q, Len(c)), i)
<1> DEFINE H == Hits(c, q, Len(c))
<1>1. RightUpTo(c, q, i, Len(c)) <=>
        IF H = {} THEN i = 0
        ELSE /\ i \in H
             /\ c[i].matchless => \A j \in H : i <= j
             /\ \A j \in H : ~c[j].matchless => ~Better(c[j], c[i])
             /\ \A j \in H : j < i /\ (c[j].matchless => \A k \in H : j <= k) => Better(c[i], c[j])
  BY Zenon DEF RightUpTo
<1> HIDE DEF H
<1>2. RightUpTo(c, q, i, Len(c)) <=> IF H = {} THEN i = 0 ELSE RightIn(c, H, i)
  BY <1>1, Zenon DEF RightIn
<1> QED
  BY <1>2 DEF H

\* The entries for route r that accept q.
RouteHits(c, q, r) == {p \in Hits(c, q, Len(c)) : c[p].route = r}

\* The right entry is the right one of its own route, if nothing ties with
\* another route.  (A rule without matches that is the first of its route but
\* not of all loses to what the first of all is worse than.)
LEMMA RightOfRoute ==
  ASSUME NEW c, Scannable(c), NEW q, Decided(c, q),
         NEW i \in 1..Len(c), RightUpTo(c, q, i, Len(c)), NEW r, r = c[i].route
  PROVE  RightIn(c, RouteHits(c, q, r), i)
<1> DEFINE H == Hits(c, q, Len(c))
           G == RouteHits(c, q, r)
<1>0. /\ Len(c) \in Nat /\ \A j \in H : j \in Nat /\ Comparable(c[j])
      /\ \A j \in G : j \in H /\ c[j].route = r
      /\ \A j \in H : c[j].route = r => j \in G
  BY DEF Scannable, Hits, RouteHits
<1>1. RightIn(c, H, i)
  BY <1>0, RightAmongAll
<1>2. \A j, k \in H : c[j].route # c[k].route => Beats(c[j], c[k]) \/ Beats(c[k], c[j])
  BY DEF Decided
<1> HIDE DEF H, G
<1>3. i \in G /\ i \in H
  BY <1>0, <1>1 DEF RightIn
<1>4. /\ c[i].matchless => \A j \in G : i <= j
      /\ \A j \in G : ~c[j].matchless => ~Better(c[j], c[i])
  BY <1>0, <1>1 DEF RightIn
<1>5. ASSUME NEW j \in G, j < i, c[j].matchless => \A k \in G : j <= k
      PROVE  Better(c[i], c[j])
  <2>1. CASE c[j].matchless => \A k \in H : j <= k
    BY <1>0, <1>1, <1>5, <2>1 DEF RightIn
  <2>2. CASE c[j].matchless /\ \E k \in H : ~(j <= k)
    <3>1. PICK k \in H : ~(j <= k)
      BY <2>2
    <3>2. c[k].route # r /\ c[j].route = r /\ c[i].route = r
      BY <1>0, <1>5, <2>2, <3>1
    <3>3. Beats(c[k], c[j])
      BY <1>0, <1>2, <2>2, <3>2 DEF Beats
    <3>4. ~Beats(c[k], c[i])
      BY <1>1 DEF Beats, RightIn
    <3>5. Beats(c[i], c[k])
      BY <1>2, <1>3, <3>2, <3>4
    <3>6. Better(c[i], c[k]) /\ Better(c[k], c[j])
      BY <3>3, <3>5 DEF Beats
    <3> QED
      BY <1>0, <1>3, <3>6, BetterTransitive
  <2> QED
    BY <2>1, <2>2
<1>6. RightIn(c, G, i)
  BY <1>3, <1>4, <1>5 DEF RightIn
<1> QED
  BY <1>6 DEF G

\* Two entries that are alike compare alike.
LEMMA AlikeCompare ==
  ASSUME NEW e, NEW f, NEW e2, NEW f2, Alike(e, e2), Alike(f, f2)
  PROVE  Better(e, f) <=> Better(e2, f2)
  BY Zenon DEF Alike, Better

\* The right entry of a route is a copy of the right entry of b: of the copies
\* of one entry the first is taken.
LEMMA RightOfRepeated ==
  ASSUME NEW c, Scannable(c), NEW b, Scannable(b), NEW at, NEW N \in SUBSET Nat,
         NEW M \in SUBSET N, NEW q, NEW r, Repeats(c, at, b, N, M, q, r),
         NEW i, RightIn(c, RouteHits(c, q, r), i)
  PROVE  \E x \in 1..Len(b) : RightUpTo(b, q, x, Len(b)) /\ Alike(c[i], b[x])
<1> DEFINE H == RouteHits(c, q, r)
           G == Hits(b, q, Len(b))
<1>0. Len(c) \in Nat /\ Len(b) \in Nat /\ i \in H
  BY DEF Scannable, RightIn
<1>k. PICK k0 \in M : \A k \in M : k0 <= k
  <2>0. i \in 1..Len(c) /\ q \in c[i].hits /\ c[i].route = r
    BY <1>0 DEF RouteHits, Hits
  <2>1. M \subseteq Nat /\ M # {}
    BY <2>0 DEF Repeats
  <2>2. PICK k0 \in M : \A k \in M : ~(k < k0)
    BY <2>1, LeastNumber
  <2>3. \A k \in M : k0 <= k
    BY <2>1, <2>2
  <2> QED
    BY <2>3
<1>1. /\ \A p \in H : p \in 1..Len(c) /\ q \in c[p].hits /\ c[p].route = r
      /\ \A p \in 1..Len(c) : q \in c[p].hits /\ c[p].route = r => p \in H
      /\ \A y \in G : y \in 1..Len(b) /\ q \in b[y].hits
      /\ \A y \in 1..Len(b) : q \in b[y].hits => y \in G
  BY DEF RouteHits, Hits
<1>2. ASSUME NEW p \in H
      PROVE  at[p][1] \in M /\ at[p][2] \in G
  <2>1. p \in 1..Len(c) /\ q \in c[p].hits /\ c[p].route = r
    BY <1>1
  <2>2. /\ at[p] \in N \X (1..Len(b))
        /\ q \in c[p].hits <=> at[p][1] \in M /\ q \in b[at[p][2]].hits
    BY <2>1 DEF Repeats
  <2>3. at[p][2] \in 1..Len(b)
    BY <2>2
  <2> QED
    BY <1>1, <2>1, <2>2, <2>3
<1>3. ASSUME NEW y \in G
      PROVE  \E p \in H : at[p] = <<k0, y>> /\ Alike(c[p], b[y])
  <2>1. k0 \in N /\ y \in 1..Len(b) /\ q \in b[y].hits
    BY <1>1
  <2>2. PICK p \in 1..Len(c) : c[p].route = r /\ at[p] = <<k0, y>>
    BY <2>1 DEF Repeats
  <2>3. at[p][1] = k0 /\ at[p][2] = y
    BY <2>2
  <2>4. q \in c[p].hits /\ Alike(c[p], b[y])
    BY <2>1, <2>2, <2>3 DEF Repeats
  <2> QED
    BY <1>1, <2>2, <2>4
<1>4. /\ i \in H
      /\ c[i].matchless => \A j \in H : i <= j
      /\ \A j \in H : ~c[j].matchless => ~Better(c[j], c[i])
      /\ \A j \in H : j < i /\ (c[j].matchless => \A k \in H : j <= k) => Better(c[i], c[j])
  BY DEF RightIn
<1> HIDE DEF H
<1>5. \E x \in 1..Len(b) : RightUpTo(b, q, x, Len(b)) /\ Alike(c[i], b[x])
  <2>1. /\ i \in H
        /\ c[i].matchless => \A j \in H : i <= j
        /\ \A j \in H : ~c[j].matchless => ~Better(c[j], c[i])
        /\ \A j \in H : j < i /\ (c[j].matchless => \A k \in H : j <= k) => Better(c[i], c[j])
    BY <1>4
  <2>x. PICK x : x = at[i][2]
    OBVIOUS
  <2>2. x \in G /\ x \in 1..Len(b) /\ Alike(c[i], b[x])
    BY <1>1, <1>2, <2>1, <2>x DEF Repeats
  <2>3. \A p, z \in H : ~Earlier(at[z], at[p]) => p <= z
    BY <1>0, <1>1 DEF Repeats
  <2>b. \A y \in G : Comparable(b[y]) /\ b[y].matchless \in BOOLEAN
    BY <1>1 DEF Scannable
  <2>g. G \subseteq Nat /\ H \subseteq Nat /\ M \subseteq Nat /\ k0 \in M
    <3>1. \A p \in H : p \in Nat
      BY <1>0, <1>1
    <3>2. \A y \in G : y \in Nat
      BY <1>0, <1>1
    <3> QED
      BY <1>k, <3>1, <3>2
  <2>4. at[i] = <<k0, x>>
    <3>1. PICK p \in H : at[p] = <<k0, x>> /\ Alike(c[p], b[x])
      BY <1>3, <2>2
    <3>2. p <= i
      <4>1. at[i][1] \in M /\ at[i][2] = x /\ at[p][1] = k0 /\ at[p][2] = x
        BY <1>2, <2>1, <2>x, <3>1
      <4>2. k0 <= at[i][1] /\ at[i][1] \in Nat /\ x \in Nat
        BY <1>k, <2>2, <2>g, <4>1
      <4>3. ~Earlier(at[i], at[p])
        BY <4>1, <4>2, <2>g DEF Earlier
      <4> QED
        BY <2>1, <2>3, <4>3
    <3>3. ~(p < i)
      <4> SUFFICES ASSUME p < i PROVE FALSE
        OBVIOUS
      <4>1. c[p].matchless = c[i].matchless
        BY <2>2, <3>1 DEF Alike
      <4>2. ~c[i].matchless
        BY <2>1, <2>g
      <4>3. Better(c[i], c[p])
        BY <2>1, <4>1, <4>2
      <4>4. Better(b[x], b[x])
        BY <2>2, <3>1, <4>3, AlikeCompare
      <4> QED
        BY <2>2, <2>b, <4>4, BetterIrreflexive
    <3>4. p = i
      BY <2>1, <2>g, <3>2, <3>3
    <3> QED
      BY <3>1, <3>4
  <2>5. ASSUME b[x].matchless, NEW y \in G PROVE x <= y
    <3>1. PICK p \in H : at[p] = <<k0, y>>
      BY <1>3
    <3>2. i <= p
      BY <2>1, <2>2, <2>5 DEF Alike
    <3>3. i < p => Earlier(at[i], at[p])
      BY <1>1, <2>1 DEF Repeats
    <3>4. i = p \/ i < p
      BY <2>1, <2>g, <3>2
    <3>5. at[i] = at[p] \/ Earlier(at[i], at[p])
      BY <3>3, <3>4
    <3>6. /\ at[i][1] = k0 /\ at[i][2] = x
          /\ at[p][1] = k0 /\ at[p][2] = y
      BY <2>4, <3>1
    <3> QED
      BY <2>2, <2>g, <3>5, <3>6 DEF Earlier
  <2>6. ASSUME NEW y \in G, ~b[y].matchless PROVE ~Better(b[y], b[x])
    <3>1. PICK p \in H : at[p] = <<k0, y>> /\ Alike(c[p], b[y])
      BY <1>3
    <3>2. ~Better(c[p], c[i])
      BY <2>1, <2>6, <3>1 DEF Alike
    <3> QED
      BY <2>2, <3>1, <3>2, AlikeCompare
  <2>7. ASSUME NEW y \in G, y < x, b[y].matchless => \A z \in G : y <= z
        PROVE  Better(b[x], b[y])
    <3>1. PICK p \in H : at[p] = <<k0, y>> /\ Alike(c[p], b[y])
      BY <1>3
    <3>2. /\ at[i][1] = k0 /\ at[i][2] = x
          /\ at[p][1] = k0 /\ at[p][2] = y
      BY <2>4, <3>1
    <3>3. ~Earlier(at[i], at[p]) /\ p # i
      BY <2>2, <2>7, <2>g, <3>2 DEF Earlier
    <3>4. p < i
      BY <2>1, <2>3, <2>g, <3>3
    <3>5. ASSUME c[p].matchless, NEW j \in H PROVE p <= j
      <4>1. at[j][1] \in M /\ at[j][2] \in G
        BY <1>2
      <4>2. y <= at[j][2] /\ k0 <= at[j][1]
        BY <1>k, <2>7, <3>1, <3>5, <4>1 DEF Alike
      <4>3. ~Earlier(at[j], at[p])
        <5>1. PICK k, z : k = at[j][1] /\ z = at[j][2]
          OBVIOUS
        <5>2. k \in Nat /\ z \in Nat /\ y \in Nat /\ k0 \in Nat /\ k0 <= k /\ y <= z
          BY <2>g, <4>1, <4>2, <5>1
        <5>3. ~(k < k0 \/ (k = k0 /\ z < y))
          BY <5>2
        <5> QED
          BY <3>2, <5>1, <5>3 DEF Earlier
      <4> QED
        BY <2>3, <4>3
    <3>6. Better(c[i], c[p])
      BY <2>1, <3>4, <3>5
    <3> QED
      BY <2>2, <3>1, <3>6, AlikeCompare
  <2>8. RightUpTo(b, q, x, Len(b))
    BY <1>0, <2>2, <2>5, <2>6, <2>7, RightAmongAll DEF RightIn
  <2> QED
    BY <2>2, <2>8
<1> QED
  BY <1>5

\* Entries of irs, whose hostnames are names, and the entries they are copies of.
Copies(S, T, names) ==
  {z \in S \X T : /\ Alike(z[1], z[2])
                  /\ \A q \in Requests :
                       q \in z[1].hits <=> MatchHostname(names, q.host) /\ q \in z[2].hits}

LEMMA LookAlike ==
  ASSUME NEW irs \in Seq(InternalRoutes), NEW irs2 \in Seq(InternalRoutes),
         NEW k \in 1..Len(irs), NEW k2 \in 1..Len(irs2),
         irs[k].rules = irs2[k2].rules, irs[k].route = irs2[k2].route,
         irs2[k2].hostnames = {}, NEW j \in 1..Len(irs[k].rules)
  PROVE  Together(Copies(LookedAt(irs), LookedAt(irs2), irs[k].hostnames),
                  Look(irs[k], j), Look(irs2[k2], j))
<1> DEFINE R == Copies(LookedAt(irs), LookedAt(irs2), irs[k].hostnames)
<1>a. PICK a, b : a = irs[k] /\ b = irs2[k2]
  OBVIOUS
<1>r. PICK rule : rule = a.rules[j]
  OBVIOUS
<1>t. PICK rt : rt = a.route
  OBVIOUS
<1>1. rule = b.rules[j] /\ b.hostnames = {} /\ rt = b.route
  BY <1>a, <1>r, <1>t
<1> DEFINE bare == rule.matches = <<>>
           ms   == IF bare THEN <<NoMatch>> ELSE rule.matches
           given == [redirect |-> rule.redirect # None, error |-> rule.error,
                     backend |-> rule.backend # None]
           Hit(names, m) == {q \in Requests : /\ MatchHostname(names, q.host)
                                              /\ bare \/ Matches(m, q)}
           Entry(names, m) ==
             [matchless |-> bare,
              type    |-> IF m.path = None THEN "" ELSE m.path.type,
              len     |-> IF m.path = None THEN 0 ELSE Len(m.path.value),
              headers |-> Cardinality(m.headers),
              hits    |-> Hit(names, m), rule |-> given,
              route |-> rt, index |-> j, match |-> m, internal |-> rule]
<1>2. /\ Look(a, j) = [x \in 1..Len(ms) |-> Entry(a.hostnames, ms[x])]
      /\ Look(b, j) = [x \in 1..Len(ms) |-> Entry(b.hostnames, ms[x])]
  BY <1>1, <1>r, <1>t DEF Look
<1>3. Look(a, j) \in Seq(LookedAt(irs)) /\ Look(b, j) \in Seq(LookedAt(irs2))
  BY <1>a, LookTyped
<1>4. ASSUME NEW m
      PROVE  /\ Alike(Entry(a.hostnames, m), Entry(b.hostnames, m))
             /\ \A q \in Requests :
                  q \in Entry(a.hostnames, m).hits
                    <=> MatchHostname(a.hostnames, q.host) /\ q \in Entry(b.hostnames, m).hits
  <2>1. \A names : Entry(names, m).hits = Hit(names, m)
    OBVIOUS
  <2>2. \A q \in Requests : MatchHostname(b.hostnames, q.host)
    BY <1>1 DEF MatchHostname
  <2>3. \A q \in Requests :
          q \in Hit(a.hostnames, m) <=> MatchHostname(a.hostnames, q.host) /\ q \in Hit(b.hostnames, m)
    BY <2>2, Zenon
  <2>4. Alike(Entry(a.hostnames, m), Entry(b.hostnames, m))
    <3> HIDE DEF bare, Hit
    <3> QED
      BY DEF Alike
  <2> HIDE DEF Hit, Entry
  <2> QED
    BY <2>1, <2>3, <2>4
<1> HIDE DEF ms, Entry
<1>n. PICK n : n = Len(ms)
  OBVIOUS
<1>l. PICK s, t : s = Look(a, j) /\ t = Look(b, j)
  OBVIOUS
<1>5. /\ DOMAIN s = 1..n /\ DOMAIN t = 1..n /\ Len(s) \in Nat /\ Len(t) \in Nat
      /\ DOMAIN s = 1..Len(s) /\ DOMAIN t = 1..Len(t)
  BY <1>2, <1>3, <1>n, <1>l
<1>6. Len(s) = Len(t) /\ 1..Len(s) = 1..n
  BY <1>5
<1>7. ASSUME NEW x \in 1..Len(s) PROVE <<s[x], t[x]>> \in R
  <2>1. s[x] = Entry(a.hostnames, ms[x]) /\ t[x] = Entry(b.hostnames, ms[x])
    BY <1>2, <1>6, <1>l, <1>n
  <2>2. s[x] \in LookedAt(irs) /\ t[x] \in LookedAt(irs2)
    BY <1>3, <1>6, <1>l
  <2>3. /\ Alike(s[x], t[x])
        /\ \A q \in Requests :
             q \in s[x].hits <=> MatchHostname(a.hostnames, q.host) /\ q \in t[x].hits
    BY <1>4, <2>1
  <2>z. PICK z : z = <<s[x], t[x]>>
    OBVIOUS
  <2>4. z \in LookedAt(irs) \X LookedAt(irs2) /\ z[1] = s[x] /\ z[2] = t[x]
    BY <2>2, <2>z
  <2>5. z \in R
    BY <1>a, <2>3, <2>4 DEF Copies
  <2> QED
    BY <2>z, <2>5
<1> QED
  BY <1>a, <1>l, <1>6, <1>7 DEF Together

\* The rules of a route for every host, and what is looked at for them.
Plain(r, rs) ==
  [gateway |-> [name |-> "", namespace |-> "", listeners |-> <<>>], route |-> r,
   hostnames |-> {}, rules |-> rs]

Once(r, rs) == FlattenSeq([j \in 1..Len(rs) |-> Look(Plain(r, rs), j)])

LEMMA OnceTyped ==
  ASSUME NEW r \in Routes, NEW rs \in Seq(InternalRules)
  PROVE  /\ <<Plain(r, rs)>> \in Seq(InternalRoutes)
         /\ Once(r, rs) \in Seq(LookedAt(<<Plain(r, rs)>>))
<1>1. Plain(r, rs) \in InternalRoutes /\ Plain(r, rs).rules = rs
  <2>1. <<>> \in Seq(Listeners)
    BY EmptySeq
  <2> QED
    BY <2>1, StringsAssumption DEF Plain, InternalRoutes, Gateways
<1>i. PICK irs : irs = <<Plain(r, rs)>>
  OBVIOUS
<1>2. irs \in Seq(InternalRoutes) /\ Len(irs) = 1 /\ irs[1] = Plain(r, rs)
  BY <1>1, <1>i
<1> DEFINE T == LookedAt(irs)
           seqs == [j \in 1..Len(rs) |-> Look(Plain(r, rs), j)]
<1>3. \A j \in 1..Len(rs) : Look(Plain(r, rs), j) \in Seq(T)
  <2>1. 1 \in 1..Len(irs)
    BY <1>2
  <2>2. \A j \in 1..Len(irs[1].rules) : Look(irs[1], j) \in Seq(T)
    BY <1>2, <2>1, LookTyped
  <2> QED
    BY <1>1, <1>2, <2>2
<1> HIDE DEF T
<1>4. seqs \in Seq(Seq(T))
  <2>1. seqs \in [1..Len(rs) -> Seq(T)] /\ Len(rs) \in Nat
    BY <1>3
  <2> HIDE DEF seqs
  <2> QED
    BY <2>1
<1>5. Once(r, rs) = FlattenSeq(seqs)
  BY DEF Once
<1> HIDE DEF seqs
<1>6. Once(r, rs) \in Seq(T)
  BY <1>4, <1>5, FlattenLocates
<1> QED
  BY <1>i, <1>2, <1>6 DEF T

\* All that is looked at for an InternalRoute is of its route.
LEMMA LooksOfRoute ==
  ASSUME NEW irs \in Seq(InternalRoutes), NEW k \in 1..Len(irs), NEW r, irs[k].route = r
  PROVE  FlattenSeq([j \in 1..Len(irs[k].rules) |-> Look(irs[k], j)])
           \in Seq({e \in LookedAt(irs) : e.route = r})
<1> DEFINE T == {e \in LookedAt(irs) : e.route = r}
<1>a. PICK a \in InternalRoutes : a = irs[k]
  OBVIOUS
<1>n. PICK n : n = Len(a.rules)
  OBVIOUS
<1>0. n \in Nat
  <2>1. a.rules \in Seq(InternalRules)
    BY DEF InternalRoutes
  <2> QED
    BY <1>n, <2>1
<1>1. ASSUME NEW j \in 1..n PROVE Look(a, j) \in Seq(T)
  <2>s. PICK s : s = Look(a, j)
    OBVIOUS
  <2>1. s \in Seq(LookedAt(irs))
    BY <1>a, <1>n, <2>s, LookTyped
  <2>2. \A x \in DOMAIN s : s[x].route = a.route
    BY <2>s, Zenon DEF Look
  <2>3. \A x \in 1..Len(s) : s[x] \in LookedAt(irs) /\ s[x].route = r
    BY <1>a, <2>1, <2>2
  <2>4. \A x \in 1..Len(s) : s[x] \in T
    BY <2>3
  <2> HIDE DEF T
  <2>5. s \in Seq(T)
    BY <2>1, <2>4
  <2> QED
    BY <2>s, <2>5
<1> HIDE DEF T
<1> DEFINE looks == [j \in 1..n |-> Look(a, j)]
<1>2. looks \in [1..n -> Seq(T)]
  BY <1>1
<1> HIDE DEF looks
<1>3. FlattenSeq(looks) \in Seq(T)
  BY <1>0, <1>2, FlattenElements
<1> QED
  BY <1>a, <1>n, <1>3 DEF T, looks

\* InternalRoutes of the same route and rules are looked at as those rules over
\* and over.
LEMMA FlattenedRepeats ==
  ASSUME NEW irs \in Seq(InternalRoutes), NEW r \in Routes, NEW rs \in Seq(InternalRules),
         \A k \in 1..Len(irs) : irs[k].route = r => irs[k].rules = rs, NEW q \in Requests,
         NEW N, N = {k \in 1..Len(irs) : irs[k].route = r},
         NEW M, M = {k \in N : MatchHostname(irs[k].hostnames, q.host)}
  PROVE  \E at : Repeats(Flattened(irs), at, Once(r, rs), N, M, q, r)
<1>b. PICK b : b = Once(r, rs)
  OBVIOUS
<1>p. PICK irs2 : irs2 = <<Plain(r, rs)>>
  OBVIOUS
<1>0. /\ irs2 \in Seq(InternalRoutes) /\ b \in Seq(LookedAt(irs2))
      /\ Len(irs2) = 1 /\ irs2[1].rules = rs /\ irs2[1].hostnames = {} /\ irs2[1].route = r
      /\ irs2[1] = Plain(r, rs) /\ Len(rs) \in Nat
  <2>1. irs2[1] = Plain(r, rs) /\ Len(irs2) = 1
    BY <1>p
  <2>2. Plain(r, rs).rules = rs /\ Plain(r, rs).hostnames = {} /\ Plain(r, rs).route = r
    BY DEF Plain
  <2> QED
    BY <1>b, <1>p, <2>1, <2>2, OnceTyped
<1> DEFINE T == LookedAt(irs)
           U == LookedAt(irs2)
           R(k) == Copies(T, U, irs[k].hostnames)
           Looks(k) == [j \in 1..Len(rs) |-> Look(irs[k], j)]
           plain == [j \in 1..Len(rs) |-> Look(Plain(r, rs), j)]
           Of(k) == FlattenSeq([j \in 1..Len(irs[k].rules) |-> Look(irs[k], j)])
           seqs == [k \in 1..Len(irs) |-> Of(k)]
<1>N. ASSUME NEW k \in N PROVE k \in 1..Len(irs) /\ irs[k].route = r /\ irs[k].rules = rs
  OBVIOUS
<1>1. ASSUME NEW k \in N, NEW j \in 1..Len(rs)
      PROVE  /\ Look(irs[k], j) \in Seq(T) /\ Look(irs2[1], j) \in Seq(U)
             /\ Together(R(k), Look(irs[k], j), Look(irs2[1], j))
  <2>1. /\ irs[k].rules = irs2[1].rules /\ irs[k].route = irs2[1].route
        /\ k \in 1..Len(irs) /\ j \in 1..Len(irs[k].rules) /\ 1 \in 1..Len(irs2)
        /\ j \in 1..Len(irs2[1].rules)
    BY <1>0, <1>N
  <2>2. Look(irs[k], j) \in Seq(T) /\ Look(irs2[1], j) \in Seq(U)
    BY <1>0, <2>1, LookTyped
  <2>3. Together(R(k), Look(irs[k], j), Look(irs2[1], j))
    BY <1>0, <2>1, LookAlike
  <2> QED
    BY <2>2, <2>3
<1>t. ASSUME NEW k \in 1..Len(irs)
      PROVE  Of(k) \in Seq(T) /\ \A x \in 1..Len(Of(k)) : Of(k)[x].route = irs[k].route
  <2>r. PICK rt, s : rt = irs[k].route /\ s = Of(k)
    OBVIOUS
  <2> DEFINE Tr == {e \in T : e.route = rt}
  <2>1. s \in Seq(Tr)
    BY <2>r, LooksOfRoute
  <2>2. \A x \in 1..Len(s) : s[x] \in T /\ s[x].route = rt
    <3>1. \A e \in Tr : e \in T /\ e.route = rt
      OBVIOUS
    <3> HIDE DEF Tr
    <3> QED
      BY <2>1, <3>1
  <2> HIDE DEF T, Tr
  <2>3. s \in Seq(T)
    BY <2>1, <2>2
  <2> HIDE DEF Of
  <2> QED
    BY <2>r, <2>2, <2>3
<1> HIDE DEF T, U, R
<1>2. ASSUME NEW k \in N PROVE Together(R(k), Of(k), b)
  <2>1. Looks(k) \in [1..Len(rs) -> Seq(T)] /\ plain \in [1..Len(rs) -> Seq(U)]
    BY <1>0, <1>1
  <2>2. \A j \in 1..Len(rs) : Together(R(k), Looks(k)[j], plain[j])
    BY <1>0, <1>1
  <2>3. b = FlattenSeq(plain)
    BY <1>b DEF Once
  <2>f. Of(k) = FlattenSeq(Looks(k))
    BY <1>N
  <2> HIDE DEF Looks, plain, Of
  <2>4. Together(R(k), FlattenSeq(Looks(k)), FlattenSeq(plain))
    BY <1>0, <2>1, <2>2, FlattenTogether
  <2> QED
    BY <2>3, <2>4, <2>f
<1>c. PICK c : c = Flattened(irs)
  OBVIOUS
<1>3. c = FlattenSeq(seqs)
  <2>1. seqs = [k \in 1..Len(irs) |->
                  FlattenSeq([j \in 1..Len(irs[k].rules) |-> Look(irs[k], j)])]
    OBVIOUS
  <2> QED
    BY <1>c, <2>1 DEF Flattened
<1> HIDE DEF Of
<1>n. PICK n : n = Len(irs)
  OBVIOUS
<1>4. seqs \in Seq(Seq(T)) /\ n \in Nat /\ Len(seqs) = n /\ \A k \in 1..n : seqs[k] = Of(k)
  <2>1. seqs \in [1..n -> Seq(T)] /\ n \in Nat /\ \A k \in 1..n : seqs[k] = Of(k)
    BY <1>n, <1>t
  <2> HIDE DEF seqs
  <2> QED
    BY <2>1
<1> HIDE DEF seqs
<1>5. PICK at : Locates(at, c, seqs, n)
  <2>1. \E at : Locates(at, c, seqs, Len(seqs))
    BY <1>3, <1>4, FlattenLocates
  <2> QED
    BY <1>4, <2>1
<1>m. PICK m : m = Len(b)
  OBVIOUS
<1>6. \A k \in N : k \in 1..n /\ Len(seqs[k]) = m
  BY <1>2, <1>4, <1>m, <1>n, <1>N DEF Together
<1>7. m \in Nat
  BY <1>0, <1>m
<1>8. ASSUME NEW p \in 1..Len(c), c[p].route = r
      PROVE  /\ at[p] \in N \X (1..m)
             /\ Alike(c[p], b[at[p][2]])
             /\ q \in c[p].hits <=> at[p][1] \in M /\ q \in b[at[p][2]].hits
  <2>1. at[p] \in Places(seqs, n) /\ c[p] = seqs[at[p][1]][at[p][2]]
    BY <1>5 DEF Locates
  <2>2. PICK k, x : k = at[p][1] /\ x = at[p][2]
    OBVIOUS
  <2>3. at[p] \in Nat \X Nat /\ k \in 1..n /\ x \in 1..Len(seqs[k]) /\ c[p] = Of(k)[x]
    BY <1>4, <2>1, <2>2 DEF Places
  <2>k. k \in N /\ x \in 1..m
    <3>1. irs[k].route = r
      BY <1>4, <1>8, <1>n, <1>t, <2>3
    <3> QED
      BY <1>6, <1>n, <2>3, <3>1
  <2>4. <<Of(k)[x], b[x]>> \in R(k)
    <3>1. Together(R(k), Of(k), b) /\ Len(Of(k)) = m
      BY <1>2, <1>4, <1>6, <2>k
    <3> QED
      BY <2>k, <3>1 DEF Together
  <2>e. PICK e : e = c[p]
    OBVIOUS
  <2>f. PICK f : f = b[x]
    OBVIOUS
  <2>5. <<e, f>> \in R(k)
    BY <2>3, <2>4, <2>e, <2>f
  <2>6. Alike(e, f) /\ (q \in e.hits <=> MatchHostname(irs[k].hostnames, q.host) /\ q \in f.hits)
    <3>1. PICK z : z = <<e, f>>
      OBVIOUS
    <3>2. z[1] = e /\ z[2] = f /\ z \in R(k)
      BY <2>5, <3>1
    <3> QED
      BY <3>2 DEF R, Copies
  <2>7. k \in M <=> MatchHostname(irs[k].hostnames, q.host)
    BY <2>k
  <2>8. at[p] \in N \X (1..m)
    BY <2>2, <2>3, <2>k
  <2> QED
    BY <2>2, <2>6, <2>7, <2>8, <2>e, <2>f
<1>9. ASSUME NEW k \in N, NEW x \in 1..m
      PROVE  \E p \in 1..Len(c) : c[p].route = r /\ at[p] = <<k, x>>
  <2>1. PICK a : a = <<k, x>>
    OBVIOUS
  <2>2. a \in Places(seqs, n) /\ k \in 1..n
    BY <1>4, <1>6, <1>7, <2>1 DEF Places
  <2>3. PICK p \in 1..Len(c) : at[p] = a
    BY <1>5, <2>2 DEF Locates
  <2>4. c[p] = seqs[k][x]
    BY <1>5, <2>1, <2>3 DEF Locates
  <2>5. Len(Of(k)) = m /\ c[p] = Of(k)[x] /\ irs[k].route = r
    BY <1>4, <1>6, <1>N, <2>2, <2>4
  <2>6. c[p].route = r
    BY <1>N, <1>t, <2>5
  <2> QED
    BY <2>1, <2>3, <2>6
<1>10. Repeats(c, at, b, N, M, q, r)
  <2>1. \A p, p2 \in 1..Len(c) : p < p2 => Earlier(at[p], at[p2])
    BY <1>5 DEF Locates
  <2> QED
    BY <1>8, <1>9, <1>m, <2>1 DEF Repeats
<1> QED
  BY <1>b, <1>c, <1>10

\* No two policies of w target one Service.
OneEach(w) ==
  \A p1, p2 \in w.policies :
    p1 # p2 => p1.namespace # p2.namespace \/ p1.targets \intersect p2.targets = {}

\* The last policy of a Service is its only one, in whatever order.
LEMMA BackendSame ==
  ASSUME NEW w \in Worlds, OneEach(w), NEW ps \in SetToSeqs(w.policies),
         NEW ps2 \in SetToSeqs(w.policies), NEW r, NEW ref \in Refs
  PROVE  Backend(w, r, ref, ps) = Backend(w, r, ref, ps2)
<1> DEFINE key == ServiceKey(r, ref)
           On(pp) == {i \in 1..Len(pp) : Targets(pp[i], key)}
           Given(pp) ==
             [key |-> key, port |-> ref.port,
              appProtocol |-> IF On(pp) = {} THEN AppProtocol(w, key, ref.port) ELSE "https",
              tls |-> IF On(pp) = {} THEN None ELSE TLSConfig(w, pp[Max(On(pp))])]
<1>1. \A pp : Backend(w, r, ref, pp) = Given(pp)
  BY DEF Backend
<1>2. ASSUME NEW pp \in SetToSeqs(w.policies)
      PROVE  /\ On(pp) = {} <=> \A p \in w.policies : ~Targets(p, key)
             /\ On(pp) # {} => pp[Max(On(pp))] \in w.policies /\ Targets(pp[Max(On(pp))], key)
  <2>1. /\ pp \in Seq(w.policies) /\ \A i \in 1..Len(pp) : pp[i] \in w.policies
        /\ \A p \in w.policies : \E i \in 1..Len(pp) : pp[i] = p
    <3>1. PICK S : S = w.policies
      OBVIOUS
    <3>2. IsFiniteSet(S) /\ pp \in SetToSeqs(S)
      BY <3>1, WorldFacts
    <3>3. /\ pp \in Seq(S) /\ \A i \in 1..Len(pp) : pp[i] \in S
          /\ \A p \in S : \E i \in 1..Len(pp) : pp[i] = p
      BY <3>2, Listed
    <3> QED
      BY <3>1, <3>3
  <2>2. On(pp) = {} <=> \A p \in w.policies : ~Targets(p, key)
    BY <2>1
  <2>3. ASSUME On(pp) # {} PROVE pp[Max(On(pp))] \in w.policies /\ Targets(pp[Max(On(pp))], key)
    BY <2>1, <2>3, LastPolicy
  <2> QED
    BY <2>2, <2>3
<1> HIDE DEF On
<1>3. ASSUME On(ps) # {}, On(ps2) # {} PROVE ps[Max(On(ps))] = ps2[Max(On(ps2))]
  <2>1. PICK p1 \in w.policies, p2 \in w.policies :
          /\ p1 = ps[Max(On(ps))] /\ Targets(p1, key)
          /\ p2 = ps2[Max(On(ps2))] /\ Targets(p2, key)
    BY <1>2, <1>3
  <2>2. p1.namespace = p2.namespace /\ key[2] \in p1.targets \intersect p2.targets
    BY <2>1 DEF Targets
  <2>3. p1 = p2
    BY <2>2 DEF OneEach
  <2> QED
    BY <2>1, <2>3
<1>4. On(ps) = {} <=> On(ps2) = {}
  BY <1>2
<1>5. Given(ps) = Given(ps2)
  <2>1. CASE On(ps) = {}
    BY <1>4, <2>1
  <2>2. CASE On(ps) # {}
    BY <1>3, <1>4, <2>2
  <2> QED
    BY <2>1, <2>2
<1> HIDE DEF Given
<1> QED
  BY <1>1, <1>5

\* The rules that every InternalRoute for r gets.
RulesOf(w, r, ps) ==
  [i \in 1..Len(r.rules) |-> Rule(w, r, r.rules[i], ps)]

LEMMA RulesSame ==
  ASSUME NEW w \in Worlds, OneEach(w), NEW r \in w.routes, NEW ps \in SetToSeqs(w.policies),
         NEW ps2 \in SetToSeqs(w.policies)
  PROVE  RulesOf(w, r, ps) = RulesOf(w, r, ps2) /\ RulesOf(w, r, ps) \in Seq(InternalRules)
<1>n. PICK n : n = Len(r.rules)
  OBVIOUS
<1>1. n \in Nat /\ \A i \in 1..n : r.rules[i] \in RouteRules
  BY <1>n, RouteFacts
<1>2. ASSUME NEW rule \in RouteRules
      PROVE  Rule(w, r, rule, ps) = Rule(w, r, rule, ps2)
  <2> DEFINE base == [matches |-> [i \in 1..Len(rule.matches) |-> Match(rule.matches[i])],
                      redirect |-> rule.redirect, error |-> FALSE, backend |-> None]
             first == rule.refs[Min(Usable(rule))]
  <2>1. \A pp : Rule(w, r, rule, pp) =
                  IF ~ResolvedRefs(r) THEN [base EXCEPT !.error = TRUE]
                  ELSE IF rule.redirect # None \/ Usable(rule) = {} THEN base
                  ELSE [base EXCEPT !.backend = Backend(w, r, first, pp)]
    BY Zenon DEF Rule, Usable
  <2>2. ASSUME Usable(rule) # {} PROVE first \in Refs
    <3>1. rule.refs \in Seq(Refs)
      BY DEF RouteRules
    <3>2. Usable(rule) \subseteq Nat /\ \A i \in Usable(rule) : rule.refs[i] \in Refs
      BY <3>1 DEF Usable
    <3>3. Min(Usable(rule)) \in Usable(rule)
      BY <2>2, <3>2, MinIsFirst
    <3> QED
      BY <3>2, <3>3
  <2> HIDE DEF base, first
  <2>3. Usable(rule) # {} => Backend(w, r, first, ps) = Backend(w, r, first, ps2)
    BY <2>2, BackendSame
  <2> QED
    BY <2>1, <2>3, Zenon
<1>3. RulesOf(w, r, ps) = RulesOf(w, r, ps2)
  BY <1>1, <1>2, <1>n DEF RulesOf
<1>4. \A i \in 1..n : Rule(w, r, r.rules[i], ps) \in InternalRules
  <2>1. ps \in Seq(w.policies)
    BY WorldFacts, Listed
  <2> QED
    BY <1>1, <2>1, RuleFacts DEF RuleGiven
<1>5. RulesOf(w, r, ps) \in [1..n -> InternalRules]
  BY <1>4, <1>n DEF RulesOf
<1> QED
  BY <1>1, <1>3, <1>5

LEMMA BuiltOfRules ==
  ASSUME NEW w \in Worlds, NEW gs, NEW ps, NEW irs, BuiltOf(w, gs, ps, irs)
  PROVE  \A k \in 1..Len(irs) : /\ irs[k].route \in w.routes
                                /\ irs[k].rules = RulesOf(w, irs[k].route, ps)
<1> SUFFICES ASSUME NEW k \in 1..Len(irs)
             PROVE  irs[k].route \in w.routes /\ irs[k].rules = RulesOf(w, irs[k].route, ps)
  OBVIOUS
<1>1. PICK g \in w.gateways, r \in w.routes : \E i \in 1..Len(g.listeners) :
        irs[k] = InternalRoute(w, g, g.listeners[i], r, ps)
  BY DEF BuiltOf
<1>2. PICK i \in 1..Len(g.listeners) : irs[k] = InternalRoute(w, g, g.listeners[i], r, ps)
  BY <1>1
<1> QED
  BY <1>2 DEF InternalRoute, RulesOf

\* What one order of the maps routes a host to a route by, another one does.
RoutedFor(irs, r, h) ==
  \E k \in 1..Len(irs) : irs[k].route = r /\ MatchHostname(irs[k].hostnames, h)

LEMMA HostsCarry ==
  ASSUME NEW w \in Worlds, NEW gs, NEW ps, NEW gs2, NEW ps2,
         NEW irs, BuiltOf(w, gs, ps, irs), NEW irs2, BuiltOf(w, gs2, ps2, irs2),
         NEW to, NEW h, RoutedFor(irs, to, h)
  PROVE  RoutedFor(irs2, to, h)
<1>k. PICK k \in 1..Len(irs) : irs[k].route = to /\ MatchHostname(irs[k].hostnames, h)
  BY DEF RoutedFor
<1>1. PICK g \in w.gateways, r \in w.routes : \E i \in 1..Len(g.listeners) :
        /\ Serves(g, g.listeners[i], r, gs)
        /\ irs[k] = InternalRoute(w, g, g.listeners[i], r, ps)
  BY DEF BuiltOf
<1>2. PICK i \in 1..Len(g.listeners) :
        /\ Serves(g, g.listeners[i], r, gs)
        /\ irs[k] = InternalRoute(w, g, g.listeners[i], r, ps)
  BY <1>1
<1>l. PICK l : l = g.listeners[i]
  OBVIOUS
<1>3. Serves(g, l, r, gs2)
  <2> DEFINE Takes == HTTP(l) /\ r.valid /\ Named(g, l, r) /\ (Effective(r, l) # {} \/ r.hostnames = {})
  <2>1. \A gateways : Serves(g, l, r, gateways) <=> Takes
    BY <1>l, ServesIff
  <2> HIDE DEF Takes
  <2> QED
    BY <1>2, <1>l, <2>1
<1>4. PICK k2 \in 1..Len(irs2) : irs2[k2] = InternalRoute(w, g, l, r, ps2)
  BY <1>3, <1>l DEF BuiltOf
<1>5. irs2[k2].hostnames = irs[k].hostnames /\ irs2[k2].route = irs[k].route
  BY <1>2, <1>4, <1>l DEF InternalRoute
<1> QED
  BY <1>k, <1>5 DEF RoutedFor

\* Entries that are alike answer a request alike.
LEMMA AlikeAnswers ==
  ASSUME NEW irs, NEW irs2, NEW q,
         NEW c, c = Flattened(irs), NEW c2, c2 = Flattened(irs2),
         NEW i, i = MatchRoute(c, q), NEW i2, i2 = MatchRoute(c2, q),
         IF i = 0 THEN i2 = 0 ELSE i2 # 0 /\ Alike(c[i], c2[i2])
  PROVE  Served(irs, q) = Served(irs2, q)
<1> DEFINE Said(b, j) ==
             LET reply == Answer(b, j) IN
             [req |-> q, reply |-> reply,
              route |-> IF j = 0 THEN None ELSE b[j].route,
              rule |-> IF j = 0 THEN 0 ELSE b[j].index,
              prefix |-> IF j # 0 /\ b[j].match.path # None /\ b[j].type = "PathPrefix"
                         THEN b[j].match.path.value ELSE None,
              location  |-> IF reply = "redirect"
                            THEN Location(q, b[j].internal.redirect, b[j].match) ELSE None,
              backend   |-> IF reply = "backend" THEN b[j].internal.backend.key ELSE None,
              port      |-> IF reply = "backend" THEN b[j].internal.backend.port ELSE 0,
              transport |-> IF reply = "backend" THEN Transport(b[j].internal.backend) ELSE None]
<1>1. Served(irs, q) = Said(c, i) /\ Served(irs2, q) = Said(c2, i2)
  BY DEF Served
<1>2. CASE i = 0
  <2>1. "notFound" # "redirect" /\ "notFound" # "backend"
    OBVIOUS
  <2>2. i2 = 0 /\ Answer(c, 0) = "notFound" /\ Answer(c2, 0) = "notFound"
    BY <1>2 DEF Answer
  <2>3. Said(c, 0) = Said(c2, 0)
    BY <2>1, <2>2
  <2> QED
    BY <1>1, <1>2, <2>2, <2>3
<1>3. CASE i # 0
  <2>e. PICK e, f : e = c[i] /\ f = c2[i2]
    OBVIOUS
  <2>1. /\ e.rule = f.rule /\ e.route = f.route /\ e.index = f.index /\ e.match = f.match
        /\ e.internal = f.internal /\ e.type = f.type /\ i2 # 0
    BY <1>3, <2>e DEF Alike
  <2>2. Answer(c, i) = Answer(c2, i2)
    BY <1>3, <2>1, <2>e, Zenon DEF Answer
  <2> DEFINE Prefix(d) == IF d.match.path # None /\ d.type = "PathPrefix" THEN d.match.path.value ELSE None
             To(d, reply) == IF reply = "redirect" THEN Location(q, d.internal.redirect, d.match) ELSE None
             Key(d, reply) == IF reply = "backend" THEN d.internal.backend.key ELSE None
             Port(d, reply) == IF reply = "backend" THEN d.internal.backend.port ELSE 0
             By(d, reply) == IF reply = "backend" THEN Transport(d.internal.backend) ELSE None
             Told(d, reply) == [req |-> q, reply |-> reply, route |-> d.route, rule |-> d.index, prefix |-> Prefix(d),
                                location |-> To(d, reply), backend |-> Key(d, reply),
                                port |-> Port(d, reply), transport |-> By(d, reply)]
  <2>3. Said(c, i) = Told(e, Answer(c, i)) /\ Said(c2, i2) = Told(f, Answer(c2, i2))
    BY <1>3, <2>1, <2>e
  <2>4. \A reply : /\ Prefix(e) = Prefix(f) /\ To(e, reply) = To(f, reply)
                   /\ Key(e, reply) = Key(f, reply) /\ Port(e, reply) = Port(f, reply)
                   /\ By(e, reply) = By(f, reply)
    BY <2>1
  <2> HIDE DEF Prefix, To, Key, Port, By
  <2>5. \A reply : Told(e, reply) = Told(f, reply)
    BY <2>1, <2>4
  <2> HIDE DEF Said, Told
  <2>6. Said(c, i) = Said(c2, i2)
    BY <2>2, <2>3, <2>5
  <2> QED
    BY <1>1, <2>6
<1> QED
  BY <1>2, <1>3

\* What is scanned can be compared.
LEMMA FlattenedScannable ==
  ASSUME NEW irs \in Seq(InternalRoutes) PROVE Scannable(Flattened(irs))
<1>c. PICK c : c = Flattened(irs)
  OBVIOUS
<1>1. c \in Seq(LookedAt(irs))
  BY <1>c, FlattenedTyped
<1>2. \A e \in LookedAt(irs) : Comparable(e) /\ e.matchless \in BOOLEAN
  BY DEF LookedAt, Comparable
<1>3. Scannable(c)
  BY <1>1, <1>2 DEF Scannable
<1> QED
  BY <1>c, <1>3

LEMMA OnceScannable ==
  ASSUME NEW r \in Routes, NEW rs \in Seq(InternalRules) PROVE Scannable(Once(r, rs))
<1>b. PICK b, irs : b = Once(r, rs) /\ irs = <<Plain(r, rs)>>
  OBVIOUS
<1>1. b \in Seq(LookedAt(irs))
  BY <1>b, OnceTyped
<1>2. \A e \in LookedAt(irs) : Comparable(e) /\ e.matchless \in BOOLEAN
  BY DEF LookedAt, Comparable
<1>3. Scannable(b)
  BY <1>1, <1>2 DEF Scannable
<1> QED
  BY <1>b, <1>3

\* For route r, what is scanned is the rules of r over and over, and some of
\* the copies accept q if an InternalRoute for r has its host.
Repeated(c, irs, b, q, r) ==
  \E at, N, M : /\ N \subseteq Nat /\ M \subseteq N
                /\ N = {k \in 1..Len(irs) : irs[k].route = r}
                /\ M = {k \in N : MatchHostname(irs[k].hostnames, q.host)}
                /\ Repeats(c, at, b, N, M, q, r)

LEMMA BuiltRepeats ==
  ASSUME NEW w \in Worlds, OneEach(w), NEW gs, NEW ps \in SetToSeqs(w.policies),
         NEW irs, BuiltOf(w, gs, ps, irs), NEW r \in w.routes, NEW q \in Requests
  PROVE  Repeated(Flattened(irs), irs, Once(r, RulesOf(w, r, ps)), q, r)
<1>r. PICK rs : rs = RulesOf(w, r, ps)
  OBVIOUS
<1>1. rs \in Seq(InternalRules) /\ r \in Routes
  BY <1>r, RulesSame, RouteFacts
<1>2. irs \in Seq(InternalRoutes) /\ Len(irs) \in Nat
  BY DEF BuiltOf
<1>3. \A k \in 1..Len(irs) : irs[k].route = r => irs[k].rules = rs
  BY <1>r, BuiltOfRules
<1>N. PICK N : N = {k \in 1..Len(irs) : irs[k].route = r}
  OBVIOUS
<1>M. PICK M : M = {k \in N : MatchHostname(irs[k].hostnames, q.host)}
  OBVIOUS
<1>4. PICK at : Repeats(Flattened(irs), at, Once(r, rs), N, M, q, r)
  BY <1>1, <1>2, <1>3, <1>N, <1>M, FlattenedRepeats
<1>5. N \subseteq Nat /\ M \subseteq N
  BY <1>2, <1>N, <1>M
<1> QED
  BY <1>r, <1>N, <1>M, <1>4, <1>5 DEF Repeated

\* What accepts q in one order of the maps does in another.
Carries(c, c2, q) ==
  \A p \in Hits(c, q, Len(c)) : \E p2 \in Hits(c2, q, Len(c2)) : Alike(c[p], c2[p2])

LEMMA HitsCarry ==
  ASSUME NEW w \in Worlds, OneEach(w), NEW gs, NEW gs2,
         NEW ps \in SetToSeqs(w.policies), NEW ps2 \in SetToSeqs(w.policies),
         NEW irs, BuiltOf(w, gs, ps, irs), NEW irs2, BuiltOf(w, gs2, ps2, irs2),
         NEW q \in Requests
  PROVE  Carries(Flattened(irs), Flattened(irs2), q)
<1>c. PICK c, c2 : c = Flattened(irs) /\ c2 = Flattened(irs2)
  OBVIOUS
<1>1. ASSUME NEW p \in Hits(c, q, Len(c))
      PROVE  \E p2 \in Hits(c2, q, Len(c2)) : Alike(c[p], c2[p2])
  <2>0. p \in 1..Len(c) /\ q \in c[p].hits
    BY DEF Hits
  <2>r. PICK r : r = c[p].route
    OBVIOUS
  <2>1. r \in w.routes
    <3>1. c \in Seq(LookedAt(irs))
      BY <1>c, FlattenedTyped DEF BuiltOf
    <3>2. c[p] \in LookedAt(irs)
      BY <2>0, <3>1
    <3> QED
      BY <2>r, <3>2, EntryFacts
  <2>b. PICK b : b = Once(r, RulesOf(w, r, ps))
    OBVIOUS
  <2>2. b = Once(r, RulesOf(w, r, ps2))
    BY <2>1, <2>b, RulesSame
  <2>3. Repeated(c, irs, b, q, r) /\ Repeated(c2, irs2, b, q, r)
    BY <1>c, <2>1, <2>2, <2>b, BuiltRepeats
  <2>4. PICK at, N, M : /\ N = {k \in 1..Len(irs) : irs[k].route = r}
                        /\ M = {k \in N : MatchHostname(irs[k].hostnames, q.host)}
                        /\ Repeats(c, at, b, N, M, q, r)
    BY <2>3 DEF Repeated
  <2>5. PICK at2, N2, M2 : /\ N2 = {k \in 1..Len(irs2) : irs2[k].route = r}
                           /\ M2 = {k \in N2 : MatchHostname(irs2[k].hostnames, q.host)}
                           /\ Repeats(c2, at2, b, N2, M2, q, r)
    BY <2>3 DEF Repeated
  <2>k. PICK k, x : k = at[p][1] /\ x = at[p][2]
    OBVIOUS
  <2>6. k \in M /\ x \in 1..Len(b) /\ q \in b[x].hits /\ Alike(c[p], b[x])
    BY <2>0, <2>4, <2>k, <2>r DEF Repeats
  <2>7. k \in 1..Len(irs) /\ irs[k].route = r /\ MatchHostname(irs[k].hostnames, q.host)
    BY <2>4, <2>6
  <2>8. PICK k2 \in 1..Len(irs2) :
          irs2[k2].route = r /\ MatchHostname(irs2[k2].hostnames, q.host)
    <3>h. PICK h : h = q.host
      OBVIOUS
    <3>1. RoutedFor(irs, r, h)
      BY <2>7, <3>h DEF RoutedFor
    <3>2. RoutedFor(irs2, r, h)
      BY <3>1, HostsCarry
    <3> QED
      BY <3>h, <3>2 DEF RoutedFor
  <2>9. k2 \in N2 /\ k2 \in M2
    BY <2>5, <2>8
  <2>10. PICK p2 \in 1..Len(c2) : c2[p2].route = r /\ at2[p2] = <<k2, x>>
    BY <2>5, <2>6, <2>9 DEF Repeats
  <2>11. at2[p2][1] = k2 /\ at2[p2][2] = x
    BY <2>10
  <2>12. q \in c2[p2].hits /\ Alike(c2[p2], b[x])
    BY <2>5, <2>6, <2>9, <2>10, <2>11 DEF Repeats
  <2>13. Alike(c[p], c2[p2])
    BY <2>6, <2>12 DEF Alike
  <2> QED
    BY <2>12, <2>13 DEF Hits
<1> QED
  BY <1>1, <1>c DEF Carries

\* Where the scan order decides nothing between two routes, it does not in
\* another order of the maps either, and the same route is answered by.
LEMMA DecidedCarries ==
  ASSUME NEW c, NEW c2, NEW q, Carries(c2, c, q), Decided(c, q)
  PROVE  Decided(c2, q)
<1> SUFFICES ASSUME NEW i \in Hits(c2, q, Len(c2)), NEW j \in Hits(c2, q, Len(c2)),
                    c2[i].route # c2[j].route
             PROVE  Beats(c2[i], c2[j]) \/ Beats(c2[j], c2[i])
  BY Zenon DEF Decided
<1>1. PICK k \in Hits(c, q, Len(c)) : Alike(c2[i], c[k])
  BY DEF Carries
<1>2. PICK l \in Hits(c, q, Len(c)) : Alike(c2[j], c[l])
  BY DEF Carries
<1>3. c[k].route # c[l].route
  BY <1>1, <1>2 DEF Alike
<1>4. Beats(c[k], c[l]) \/ Beats(c[l], c[k])
  BY <1>3 DEF Decided
<1>5. /\ Better(c2[i], c2[j]) <=> Better(c[k], c[l])
      /\ Better(c2[j], c2[i]) <=> Better(c[l], c[k])
  BY <1>1, <1>2, AlikeCompare
<1> QED
  BY <1>1, <1>2, <1>4, <1>5 DEF Beats, Alike

LEMMA SameRoute ==
  ASSUME NEW c, NEW c2, NEW q, Carries(c, c2, q), Carries(c2, c, q), Decided(c, q),
         NEW i, RightIn(c, Hits(c, q, Len(c)), i), NEW i2, RightIn(c2, Hits(c2, q, Len(c2)), i2)
  PROVE  c[i].route = c2[i2].route
<1> SUFFICES ASSUME c[i].route # c2[i2].route PROVE FALSE
  OBVIOUS
<1>0. i \in Hits(c, q, Len(c)) /\ i2 \in Hits(c2, q, Len(c2))
  BY DEF RightIn
<1>1. PICK k \in Hits(c, q, Len(c)) : Alike(c2[i2], c[k])
  BY <1>0 DEF Carries
<1>2. PICK k2 \in Hits(c2, q, Len(c2)) : Alike(c[i], c2[k2])
  BY <1>0 DEF Carries
<1>3. c[k].route # c[i].route
  BY <1>1 DEF Alike
<1>4. Beats(c[k], c[i]) \/ Beats(c[i], c[k])
  BY <1>0, <1>3 DEF Decided
<1>5. ~Beats(c[k], c[i]) /\ ~Beats(c2[k2], c2[i2])
  BY DEF Beats, RightIn
<1>6. Better(c2[k2], c2[i2]) <=> Better(c[i], c[k])
  <2>1. Alike(c2[k2], c[i])
    BY <1>2 DEF Alike
  <2> QED
    BY <1>1, <2>1, AlikeCompare
<1> QED
  BY <1>2, <1>4, <1>5, <1>6 DEF Beats, Alike

\* The right entry is, but for its hits, the right one of the rules of its
\* route alone.
LEMMA RightOfRules ==
  ASSUME NEW c, Scannable(c), NEW irs, NEW b, Scannable(b), NEW q, NEW r,
         Repeated(c, irs, b, q, r), Decided(c, q),
         NEW i \in 1..Len(c), RightUpTo(c, q, i, Len(c)), r = c[i].route
  PROVE  \E x \in 1..Len(b) : RightUpTo(b, q, x, Len(b)) /\ Alike(c[i], b[x])
<1>1. PICK at, N, M : N \subseteq Nat /\ M \subseteq N /\ Repeats(c, at, b, N, M, q, r)
  BY DEF Repeated
<1>2. RightIn(c, RouteHits(c, q, r), i)
  BY RightOfRoute
<1> QED
  BY <1>1, <1>2, RightOfRepeated

\* Two lists that are built of one State answer a request alike, if no two
\* routes tie for it.
LEMMA SameAnswers ==
  ASSUME NEW w \in Worlds, OneEach(w), NEW gs, NEW gs2,
         NEW ps \in SetToSeqs(w.policies), NEW ps2 \in SetToSeqs(w.policies),
         NEW irs, BuiltOf(w, gs, ps, irs), NEW irs2, BuiltOf(w, gs2, ps2, irs2),
         NEW q \in Requests, Decided(Flattened(irs), q)
  PROVE  Served(irs, q) = Served(irs2, q)
<1>c. PICK c, c2 : c = Flattened(irs) /\ c2 = Flattened(irs2)
  OBVIOUS
<1>0. irs \in Seq(InternalRoutes) /\ irs2 \in Seq(InternalRoutes)
  BY DEF BuiltOf
<1>1. Scannable(c) /\ Scannable(c2) /\ Len(c) \in Nat /\ Len(c2) \in Nat
  <2>1. Scannable(c) /\ Scannable(c2)
    BY <1>0, <1>c, FlattenedScannable
  <2> QED
    BY <2>1 DEF Scannable
<1>2. Carries(c, c2, q) /\ Carries(c2, c, q)
  BY <1>c, HitsCarry
<1>3. Decided(c, q) /\ Decided(c2, q)
  BY <1>c, <1>2, DecidedCarries
<1>i. PICK i, i2 : i = MatchRoute(c, q) /\ i2 = MatchRoute(c2, q)
  OBVIOUS
<1>4. /\ i \in 0..Len(c) /\ RightUpTo(c, q, i, Len(c))
      /\ i2 \in 0..Len(c2) /\ RightUpTo(c2, q, i2, Len(c2))
  <2>1. c \in Seq(LookedAt(irs)) /\ c2 \in Seq(LookedAt(irs2))
    BY <1>0, <1>c, FlattenedTyped
  <2> QED
    BY <1>i, <2>1, MatchRouteFinds
<1> DEFINE H == Hits(c, q, Len(c))
           H2 == Hits(c2, q, Len(c2))
<1>5. /\ IF H = {} THEN i = 0 ELSE RightIn(c, H, i)
      /\ IF H2 = {} THEN i2 = 0 ELSE RightIn(c2, H2, i2)
  BY <1>1, <1>4, RightAmongAll
<1>6. (H = {} <=> H2 = {}) /\ 0 \notin H /\ 0 \notin H2
  <2>1. 0 \notin H /\ 0 \notin H2
    BY <1>1 DEF Hits
  <2>2. /\ \A p \in H : \E p2 \in H2 : TRUE
        /\ \A p2 \in H2 : \E p \in H : TRUE
    BY <1>2, Zenon DEF Carries
  <2> HIDE DEF H, H2
  <2> QED
    BY <2>1, <2>2
<1>7. IF i = 0 THEN i2 = 0 ELSE i2 # 0 /\ Alike(c[i], c2[i2])
  <2>1. CASE H = {}
    BY <1>5, <1>6, <2>1
  <2>2. CASE H # {}
    <3>1. RightIn(c, H, i) /\ RightIn(c2, H2, i2)
      BY <1>5, <1>6, <2>2
    <3>2. i # 0 /\ i2 # 0
      BY <1>6, <3>1 DEF RightIn
    <3>3. i \in 1..Len(c) /\ i2 \in 1..Len(c2)
      BY <1>1, <1>4, <3>2
    <3>r. PICK r : r = c[i].route
      OBVIOUS
    <3>4. r = c2[i2].route
      BY <1>2, <1>3, <3>1, <3>r, SameRoute
    <3>5. r \in w.routes /\ r \in Routes
      <4>1. c \in Seq(LookedAt(irs))
        BY <1>0, <1>c, FlattenedTyped
      <4>2. c[i] \in LookedAt(irs)
        BY <3>3, <4>1
      <4> QED
        BY <3>r, <4>2, EntryFacts, RouteFacts
    <3>b. PICK b : b = Once(r, RulesOf(w, r, ps))
      OBVIOUS
    <3>6. b = Once(r, RulesOf(w, r, ps2)) /\ Scannable(b)
      BY <3>5, <3>b, RulesSame, OnceScannable
    <3>7. Repeated(c, irs, b, q, r) /\ Repeated(c2, irs2, b, q, r)
      BY <1>c, <3>5, <3>6, <3>b, BuiltRepeats
    <3>8. PICK x \in 1..Len(b) : RightUpTo(b, q, x, Len(b)) /\ Alike(c[i], b[x])
      BY <1>1, <1>3, <1>4, <3>3, <3>6, <3>7, <3>r, RightOfRules
    <3>9. PICK y \in 1..Len(b) : RightUpTo(b, q, y, Len(b)) /\ Alike(c2[i2], b[y])
      BY <1>1, <1>3, <1>4, <3>3, <3>4, <3>6, <3>7, RightOfRules
    <3>10. x = y
      <4>1. Len(b) \in Nat
        BY <3>6 DEF Scannable
      <4> QED
        BY <3>8, <3>9, <4>1, RightUnique
    <3> QED
      BY <3>2, <3>8, <3>9, <3>10 DEF Alike
  <2> QED
    BY <2>1, <2>2
<1> QED
  BY <1>7, <1>c, <1>i, AlikeAnswers

\* For any State and any requests: updateProxy called again on the same State
\* changes no answer, in whatever order Go's maps give it the Gateways, the
\* HTTPRoutes and the policies, unless two policies target one Service or
\* matches of two HTTPRoutes tie for the request.
THEOREM AnswersDoNotChange == Spec => SameAnswersAgain
<1> DEFINE Keeps == /\ installed # None
                    /\ \A p1, p2 \in state.policies :
                         p1 # p2 => p1.namespace # p2.namespace \/ p1.targets \intersect p2.targets = {}
                    => \A q \in Requests :
                         Decided(Flattened(installed), q) => Served(installed, q) = Served(installed', q)
<1>1. ASSUME IInv, [Next]_vars, installed' # installed PROVE Keeps
  <2> SUFFICES ASSUME installed # None,
                      \A p1, p2 \in state.policies :
                        p1 # p2 => p1.namespace # p2.namespace \/ p1.targets \intersect p2.targets = {},
                      NEW q \in Requests, Decided(Flattened(installed), q)
               PROVE  Served(installed, q) = Served(installed', q)
    OBVIOUS
  <2>1. UpdateProxy
    BY <1>1 DEF Next, ServeHTTP, vars
  <2>w. PICK w \in Worlds : w = state
    BY <1>1 DEF IInv
  <2>2. OneEach(w)
    BY <2>w DEF OneEach
  <2>3. PICK gs \in SetToSeqs(w.gateways), rts \in SetToSeqs(w.routes),
             ps \in SetToSeqs(w.policies) : installed = AllRoutes(w, gs, rts, ps)
    BY <1>1, <2>w DEF IInv, Built
  <2>4. PICK gs2 \in SetToSeqs(w.gateways), rts2 \in SetToSeqs(w.routes),
             ps2 \in SetToSeqs(w.policies) : installed' = AllRoutes(w, gs2, rts2, ps2)
    BY <2>1, <2>w DEF UpdateProxy
  <2>i. PICK irs, irs2 : irs = installed /\ irs2 = installed'
    OBVIOUS
  <2>5. BuiltOf(w, gs, ps, irs) /\ BuiltOf(w, gs2, ps2, irs2)
    BY <2>3, <2>4, <2>i, AllElements
  <2>6. Decided(Flattened(irs), q)
    BY <2>i
  <2>7. Served(irs, q) = Served(irs2, q)
    BY <2>2, <2>5, <2>6, SameAnswers
  <2> QED
    BY <2>7, <2>i
<1>2. IInv /\ [Next]_vars => [Keeps]_installed
  BY <1>1
<1> QED
  BY <1>2, Invariant, PTL DEF Spec, SameAnswersAgain

=============================================================================
