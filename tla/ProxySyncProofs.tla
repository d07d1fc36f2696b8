-------------------------- MODULE ProxySyncProofs --------------------------
(***************************************************************************)
(* Proofs about ProxySync, for any kinds, any contents and any order in    *)
(* which updateProxy copies the maps, as long as it copies every one.      *)
(*                                                                         *)
(* IInv is the inductive invariant.  OwnCopyCurrent is inductive only with *)
(* its companions: a worker that is not inside updateProxy has copied      *)
(* nothing (so its store cannot outdate a copy), and the types.            *)
(***************************************************************************)
EXTENDS ProxySync, TLAPS

\* Outside updateProxy a worker's next copy is the first one.
NothingCopied == \A k \in Kinds : pc[k] # "update" => next[k] = 1

IInv == TypeOK /\ NothingCopied /\ OwnCopyCurrent

\* updateProxy's order has a last position, and names a map at each one.
LEMMA ReadOrderFacts ==
  /\ Len(ReadOrder) \in Nat
  /\ \A i \in 1..Len(ReadOrder) : ReadOrder[i] \in Kinds
  BY ReadOrderAssumption

\* The first copy is before the end of the order, or the order is empty.
LEMMA FirstPosition == 1 \in 1..(Len(ReadOrder) + 1)
  BY ReadOrderFacts

\* A newly started process satisfies the inductive invariant.
LEMMA InitIInv == Init => IInv
<1> SUFFICES ASSUME Init PROVE IInv
  OBVIOUS
<1> USE DEF Init, Nothing
<1>1. TypeOK
  BY EmptyAssumption, FirstPosition DEF TypeOK
<1>2. NothingCopied
  BY DEF NothingCopied
<1>3. OwnCopyCurrent
  BY DEF OwnCopyCurrent
<1> QED
  BY <1>1, <1>2, <1>3 DEF IInv

\* Every step of a reconciler, and a restart, preserves the types.
LEMMA TypeStep == TypeOK /\ [Next]_vars => TypeOK'
<1> SUFFICES ASSUME TypeOK, [Next]_vars PROVE TypeOK'
  OBVIOUS
<1> USE ReadOrderFacts, FirstPosition, EmptyAssumption DEF TypeOK, Nothing
<1>1. ASSUME NEW k \in Kinds, Write(k) PROVE TypeOK'
  BY <1>1 DEF Write
<1>2. ASSUME NEW k \in Kinds, Fail(k) PROVE TypeOK'
  BY <1>2 DEF Fail
<1>3. ASSUME NEW k \in Kinds, Read(k) PROVE TypeOK'
  <2>1. next[k] \in 1..Len(ReadOrder) /\ ReadOrder[next[k]] \in Kinds
    BY <1>3 DEF Read
  <2>2. snap' \in [Kinds -> [Kinds -> Values]]
    BY <1>3, <2>1 DEF Read
  <2>3. next' \in [Kinds -> 1..(Len(ReadOrder) + 1)]
    BY <1>3, <2>1 DEF Read
  <2> QED
    BY <1>3, <2>2, <2>3 DEF Read
<1>4. ASSUME NEW k \in Kinds, Publish(k) PROVE TypeOK'
  BY <1>4 DEF Publish
<1>5. CASE Restart
  BY <1>5 DEF Restart
<1>6. CASE UNCHANGED vars
  BY <1>6 DEF vars
<1> QED
  BY <1>1, <1>2, <1>3, <1>4, <1>5, <1>6 DEF Next

\* The inductive step: only the worker of a kind writes that kind's map, and
\* it does so only while it has copied nothing.
LEMMA NextIInv == IInv /\ [Next]_vars => IInv'
<1> SUFFICES ASSUME IInv, [Next]_vars PROVE IInv'
  OBVIOUS
<1>1. TypeOK /\ TypeOK'
  BY TypeStep DEF IInv
<1>2. NothingCopied'
  <2> USE <1>1 DEF IInv, TypeOK, NothingCopied
  <2>1. ASSUME NEW k \in Kinds, Write(k) \/ Fail(k) \/ Read(k) \/ Publish(k)
        PROVE  NothingCopied'
    BY <2>1 DEF Write, Fail, Read, Publish
  <2>2. CASE Restart
    BY <2>2 DEF Restart
  <2>3. CASE UNCHANGED vars
    BY <2>3 DEF vars
  <2> QED
    BY <2>1, <2>2, <2>3 DEF Next
<1>3. OwnCopyCurrent'
  <2> SUFFICES ASSUME NEW k \in Kinds, NEW i \in 1..(next'[k] - 1),
                      ReadOrder[i] = k
               PROVE  snap'[k][k] = store'[k]
    BY DEF OwnCopyCurrent
  <2>a. ASSUME i \in 1..(next[k] - 1) PROVE snap[k][k] = store[k]
    BY <2>a DEF IInv, OwnCopyCurrent
  <2>0. next[k] \in Nat /\ next'[k] \in Nat /\ i \in Nat
    BY <1>1, ReadOrderFacts DEF TypeOK
  <2>1. ASSUME NEW p \in Kinds, Write(p) PROVE snap'[k][k] = store'[k]
    <3>1. CASE p = k
      <4>1. next'[k] = 1
        BY <2>1, <3>1 DEF Write, IInv, NothingCopied
      <4> QED
        BY <4>1, <2>0
    <3>2. CASE p # k
      BY <2>1, <3>2, <2>a, <1>1 DEF Write, TypeOK
    <3> QED
      BY <3>1, <3>2
  <2>2. ASSUME NEW p \in Kinds, Fail(p) PROVE snap'[k][k] = store'[k]
    BY <2>2, <2>a DEF Fail
  <2>3. ASSUME NEW p \in Kinds, Read(p) PROVE snap'[k][k] = store'[k]
    <3>1. CASE p # k
      BY <2>3, <3>1, <2>a, <1>1 DEF Read, TypeOK
    <3>2. CASE p = k /\ ReadOrder[next[k]] = k
      BY <2>3, <3>2, <1>1 DEF Read, TypeOK
    <3>3. CASE p = k /\ ReadOrder[next[k]] # k
      <4>1. next'[k] = next[k] + 1
        BY <2>3, <3>3, <1>1 DEF Read, TypeOK
      <4>2. i # next[k]
        BY <3>3
      <4>3. i \in 1..(next[k] - 1)
        BY <4>1, <4>2, <2>0
      <4>4. snap'[k][k] = snap[k][k]
        BY <2>3, <3>3, <1>1 DEF Read, TypeOK
      <4> QED
        BY <4>3, <4>4, <2>a, <2>3 DEF Read
    <3> QED
      BY <3>1, <3>2, <3>3
  <2>4. ASSUME NEW p \in Kinds, Publish(p) PROVE snap'[k][k] = store'[k]
    <3>1. CASE p = k
      <4>1. next'[k] = 1
        BY <2>4, <3>1, <1>1 DEF Publish, TypeOK
      <4> QED
        BY <4>1, <2>0
    <3>2. CASE p # k
      BY <2>4, <3>2, <2>a, <1>1 DEF Publish, TypeOK
    <3> QED
      BY <3>1, <3>2
  <2>5. CASE Restart
    BY <2>5 DEF Restart
  <2>6. CASE UNCHANGED vars
    BY <2>6, <2>a DEF vars
  <2> QED
    BY <2>1, <2>2, <2>3, <2>4, <2>5, <2>6 DEF Next
<1> QED
  BY <1>1, <1>2, <1>3 DEF IInv

\* The inductive invariant holds in every reachable state.
THEOREM Invariance == Spec => []IInv
  BY InitIInv, NextIInv, PTL DEF Spec

\* The maps, the copies, the positions and the routes keep their types.
THEOREM TypeCorrect == Spec => []TypeOK
<1>1. IInv => TypeOK
  BY DEF IInv
<1> QED
  BY Invariance, <1>1, PTL

\* A worker inside updateProxy holds what it stored of its own kind: the
\* store comes before the call, and no other worker writes that map.
THEOREM OwnCopyIsCurrent == Spec => []OwnCopyCurrent
<1>1. IInv => OwnCopyCurrent
  BY DEF IInv
<1> QED
  BY Invariance, <1>1, PTL

\* The step from routes that agree with a map at rest to routes that do not
\* is an overtaking install by another worker, or an error return.
LEMMA StaleStep ==
  ASSUME IInv, [Next]_vars, NEW k \in Kinds, ~Stale(k), Stale(k)'
  PROVE  \/ Fail(k)
         \/ \E p \in Kinds \ {k} : Publish(p) /\ snap[p][k] # store[k]
<1> USE DEF Stale, IInv, TypeOK
<1>1. ASSUME NEW p \in Kinds, Write(p) PROVE FALSE
  BY <1>1 DEF Write
<1>2. ASSUME NEW p \in Kinds, Fail(p) PROVE p = k
  BY <1>2 DEF Fail
<1>3. ASSUME NEW p \in Kinds, Read(p) PROVE FALSE
  BY <1>3 DEF Read
<1>4. ASSUME NEW p \in Kinds, Publish(p)
      PROVE  p # k /\ snap[p][k] # store[k]
  <2>1. CASE p = k
    <3>1. PICK i \in 1..Len(ReadOrder) : ReadOrder[i] = k
      BY ReadOrderAssumption
    <3>2. i \in 1..(next[k] - 1)
      BY <1>4, <2>1, ReadOrderFacts DEF Publish
    <3>3. snap[k][k] = store[k]
      BY <3>1, <3>2 DEF OwnCopyCurrent
    <3> QED
      BY <1>4, <2>1, <3>3 DEF Publish
  <2>2. CASE p # k
    BY <1>4, <2>2 DEF Publish
  <2> QED
    BY <2>1, <2>2
<1>5. CASE Restart
  BY <1>5 DEF Restart
<1>6. CASE UNCHANGED vars
  BY <1>6 DEF vars
<1> QED
  BY <1>1, <1>2, <1>3, <1>4, <1>5, <1>6 DEF Next

\* A completed Reconcile never leaves its own map out of the proxy: only an
\* install by another reconciler, from an older copy, or an error return can.
THEOREM OnlyOvertakingMakesStale == Spec => StaleOnlyByOvertaking
<1>1. IInv /\ [Next]_vars =>
        [\A k \in Kinds : ~Stale(k) /\ Stale(k)' =>
           \/ Fail(k)
           \/ \E p \in Kinds \ {k} : Publish(p) /\ snap[p][k] # store[k]]_vars
  BY StaleStep
<1> QED
  BY Invariance, <1>1, PTL DEF Spec, StaleOnlyByOvertaking
=============================================================================
