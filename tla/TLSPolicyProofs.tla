--------------------------- MODULE TLSPolicyProofs ---------------------------
(***************************************************************************)
(* Proofs about TLSPolicy, for any policies, ConfigMaps and specs, any     *)
(* finite set of Gateways and any bounds.                                  *)
(***************************************************************************)
EXTENDS TLSPolicy, FiniteSetTheorems, SequenceTheorems, WellFoundedInduction, TLAPS

----------------------------------------------------------------------------
(* Induction on the naturals, over a set of them. *)

LEMMA LeastNumber ==
  ASSUME NEW S, S \subseteq Nat, S # {} PROVE \E n \in S : \A m \in S : ~(m < n)
<1> DEFINE R == {ss \in Nat \X Nat : ss[1] < ss[2]}
<1>1. IsWellFoundedOn(R, Nat)
  BY NatLessThanWellFounded DEF OpToRel
<1> HIDE DEF R
<1>2. PICK n \in S : \A m \in S : <<m, n>> \notin R
  BY <1>1, WFMin
<1>3. \A m, k \in Nat : m < k => <<m, k>> \in R
  BY DEF R
<1> QED
  BY <1>2, <1>3

LEMMA Induction ==
  ASSUME NEW S, 0 \in S, \A n \in Nat : n \in S => n + 1 \in S PROVE Nat \subseteq S
<1> SUFFICES ASSUME Nat \ S # {} PROVE FALSE
  OBVIOUS
<1>1. PICK n \in Nat \ S : \A m \in Nat \ S : ~(m < n)
  BY LeastNumber
<1>2. n # 0 /\ n - 1 \in Nat /\ n - 1 < n
  BY <1>1
<1>3. n - 1 \in S
  BY <1>1, <1>2
<1> QED
  BY <1>1, <1>2, <1>3

----------------------------------------------------------------------------
(* The references that do not resolve. *)

\* u[i] is what the loop has collected after i references, for i up to n.
Collects(u, refs, m, n) ==
  u = [i \in 0..n |-> IF i = 0 THEN <<>>
                      ELSE IF Resolves(refs[i], m) THEN u[i - 1] ELSE Append(u[i - 1], refs[i])]

\* What the loop does with reference number i + 1.
Collect(u, refs, m, i) ==
  IF Resolves(refs[i + 1], m) THEN u[i] ELSE Append(u[i], refs[i + 1])

LEMMA CollectsNext ==
  ASSUME NEW refs, NEW m, NEW n \in Nat, NEW u, Collects(u, refs, m, n), NEW i \in Nat, i < n
  PROVE  u[i + 1] = Collect(u, refs, m, i)
<1> DEFINE Next_(j) == IF Resolves(refs[j], m) THEN u[j - 1] ELSE Append(u[j - 1], refs[j])
<1>1. u = [j \in 0..n |-> IF j = 0 THEN <<>> ELSE Next_(j)]
  BY DEF Collects
<1>2. i + 1 \in 0..n /\ i + 1 # 0 /\ (i + 1) - 1 = i
  OBVIOUS
<1>3. Next_(i + 1) = Collect(u, refs, m, i)
  BY <1>2 DEF Collect
<1> HIDE DEF Next_
<1>4. u[i + 1] = Next_(i + 1)
  BY <1>1, <1>2
<1> QED
  BY <1>3, <1>4

LEMMA CollectsExists == ASSUME NEW refs, NEW m PROVE \A n \in Nat : \E u : Collects(u, refs, m, n)
<1> DEFINE S == {n \in Nat : \E u : Collects(u, refs, m, n)}
<1>1. 0 \in S
  <2> DEFINE u == [i \in 0..0 |-> <<>>]
  <2>1. Collects(u, refs, m, 0)
    BY DEF Collects
  <2> QED
    BY <2>1
<1>2. ASSUME NEW n \in Nat, n \in S PROVE n + 1 \in S
  <2>1. PICK u : Collects(u, refs, m, n)
    BY <1>2
  <2> DEFINE last == IF Resolves(refs[n + 1], m) THEN u[n] ELSE Append(u[n], refs[n + 1])
             v == [i \in 0..(n + 1) |-> IF i = n + 1 THEN last ELSE u[i]]
  <2> HIDE DEF last
  <2>2. \A i \in 0..n : v[i] = u[i]
    OBVIOUS
  <2>3. v[n + 1] = last /\ v[0] = <<>>
    BY <2>1 DEF Collects
  <2>4. \A i \in 0..(n + 1) :
          v[i] = IF i = 0 THEN <<>>
                 ELSE IF Resolves(refs[i], m) THEN v[i - 1] ELSE Append(v[i - 1], refs[i])
    <3>1. ASSUME NEW i \in 0..(n + 1), i # 0, i # n + 1
          PROVE  v[i] = IF Resolves(refs[i], m) THEN v[i - 1] ELSE Append(v[i - 1], refs[i])
      <4>1. PICK j : j = i - 1
        OBVIOUS
      <4>2. j \in Nat /\ j < n /\ j + 1 = i /\ j \in 0..n /\ i \in 0..n
        BY <3>1, <4>1
      <4>3. u[j + 1] = IF Resolves(refs[j + 1], m) THEN u[j] ELSE Append(u[j], refs[j + 1])
        BY <2>1, <4>2, CollectsNext DEF Collect
      <4>4. v[i] = u[i] /\ v[j] = u[j]
        BY <2>2, <4>2
      <4> QED
        BY <4>1, <4>2, <4>3, <4>4
    <3>2. last = IF Resolves(refs[n + 1], m) THEN v[n] ELSE Append(v[n], refs[n + 1])
      BY <2>2 DEF last
    <3>3. (n + 1) - 1 = n
      OBVIOUS
    <3> HIDE DEF v
    <3> QED
      BY <2>3, <3>1, <3>2, <3>3
  <2>5. v = [i \in 0..(n + 1) |-> v[i]]
    OBVIOUS
  <2> HIDE DEF v
  <2>6. Collects(v, refs, m, n + 1)
    BY <2>4, <2>5 DEF Collects
  <2> QED
    BY <2>6
<1> QED
  BY <1>1, <1>2, Induction

LEMMA UnresolvedCollects ==
  ASSUME NEW refs, Len(refs) \in Nat, NEW m
  PROVE  \E u : Collects(u, refs, m, Len(refs)) /\ Unresolved(refs, m) = u[Len(refs)]
<1>1. PICK u : Collects(u, refs, m, Len(refs))
  BY CollectsExists
<1> QED
  BY <1>1 DEF Collects, Unresolved

\* The first k references of the one are those of the other, and resolve alike.
AlikeUpTo(refs, refs2, m, m2, k) ==
  \A i \in 1..k : refs[i] = refs2[i] /\ Resolves(refs[i], m) = Resolves(refs[i], m2)

\* Two loops over the same references, that resolve alike, collect the same.
LEMMA CollectAlike ==
  ASSUME NEW refs, NEW refs2, NEW m, NEW m2, NEW n \in Nat, NEW n2 \in Nat, NEW k \in Nat,
         NEW u, Collects(u, refs, m, n), NEW v, Collects(v, refs2, m2, n2), k <= n, k <= n2,
         AlikeUpTo(refs, refs2, m, m2, k)
  PROVE  u[k] = v[k]
<1> DEFINE S == {i \in Nat : i <= k => u[i] = v[i]}
<1>1. 0 \in S
  BY DEF Collects
<1>2. ASSUME NEW i \in Nat, i \in S PROVE i + 1 \in S
  <2> SUFFICES ASSUME i + 1 <= k PROVE u[i + 1] = v[i + 1]
    OBVIOUS
  <2>1. u[i] = v[i] /\ i + 1 \in 1..k /\ i < n /\ i < n2
    BY <1>2
  <2>2. u[i + 1] = Collect(u, refs, m, i)
    BY <2>1, CollectsNext
  <2>3. v[i + 1] = Collect(v, refs2, m2, i)
    BY <2>1, CollectsNext
  <2>4. /\ refs[i + 1] = refs2[i + 1]
        /\ Resolves(refs[i + 1], m) = Resolves(refs2[i + 1], m2)
    BY <2>1 DEF AlikeUpTo
  <2> QED
    BY <2>1, <2>2, <2>3, <2>4 DEF Collect
<1>3. k \in S
  <2> HIDE DEF S
  <2> QED
    BY <1>1, <1>2, Induction
<1> QED
  BY <1>3

\* The loop has looked at no reference yet.
LEMMA UnresolvedNone ==
  ASSUME NEW refs, Len(refs) = 0, NEW m PROVE Unresolved(refs, m) = <<>>
<1>1. PICK u : Collects(u, refs, m, 0) /\ Unresolved(refs, m) = u[0]
  BY UnresolvedCollects
<1> QED
  BY <1>1 DEF Collects

\* The loop looks at one more reference.
LEMMA UnresolvedNext ==
  ASSUME NEW S, NEW refs \in Seq(S), NEW done \in 0..Len(refs), done < Len(refs), NEW m
  PROVE  Unresolved(SubSeq(refs, 1, done + 1), m) =
           LET before == Unresolved(SubSeq(refs, 1, done), m)
           IN  IF Resolves(refs[done + 1], m) THEN before ELSE Append(before, refs[done + 1])
<1>r. PICK r : r = SubSeq(refs, 1, done)
  OBVIOUS
<1>s. PICK s : s = SubSeq(refs, 1, done + 1)
  OBVIOUS
<1>0. /\ Len(r) = done /\ \A i \in 1..done : r[i] = refs[i]
      /\ Len(s) = done + 1 /\ \A i \in 1..(done + 1) : s[i] = refs[i]
  BY <1>r, <1>s, SubSeqProperties
<1>1. PICK u : Collects(u, r, m, done) /\ Unresolved(r, m) = u[done]
  BY <1>0, UnresolvedCollects
<1>2. PICK v : Collects(v, s, m, done + 1) /\ Unresolved(s, m) = v[done + 1]
  BY <1>0, UnresolvedCollects
<1>3. u[done] = v[done]
  <2>1. AlikeUpTo(r, s, m, m, done)
    BY <1>0 DEF AlikeUpTo
  <2>2. done \in Nat /\ done + 1 \in Nat /\ done <= done /\ done <= done + 1
    OBVIOUS
  <2> QED
    BY <2>1, <2>2, <1>1, <1>2, CollectAlike
<1>4. v[done + 1] = Collect(v, s, m, done)
  BY <1>2, CollectsNext
<1> QED
  BY <1>r, <1>s, <1>0, <1>1, <1>2, <1>3, <1>4 DEF Collect

\* Only the ConfigMaps referred to matter.
LEMMA UnresolvedSame ==
  ASSUME NEW refs, Len(refs) \in Nat, NEW m, NEW m2,
         \A c \in Elements(refs) : m[c] = m2[c]
  PROVE  Unresolved(refs, m) = Unresolved(refs, m2)
<1>1. PICK u : Collects(u, refs, m, Len(refs)) /\ Unresolved(refs, m) = u[Len(refs)]
  BY UnresolvedCollects
<1>2. PICK v : Collects(v, refs, m2, Len(refs)) /\ Unresolved(refs, m2) = v[Len(refs)]
  BY UnresolvedCollects
<1>3. AlikeUpTo(refs, refs, m, m2, Len(refs))
  BY DEF AlikeUpTo, Resolves, Elements
<1>n. PICK n : n = Len(refs)
  OBVIOUS
<1>4. /\ n \in Nat /\ n <= n /\ AlikeUpTo(refs, refs, m, m2, n)
      /\ Collects(u, refs, m, n) /\ Collects(v, refs, m2, n)
  BY <1>1, <1>2, <1>3, <1>n
<1>5. u[n] = v[n]
  BY <1>4, CollectAlike
<1> QED
  BY <1>1, <1>2, <1>5, <1>n

----------------------------------------------------------------------------
(* The data. *)

Fields == {"pc", "key", "base", "obj", "gateways", "ways", "left", "unresolved", "snap"}

LEMMA KeysFacts ==
  /\ \A w \in Workers : Own(w) \subseteq Keys
  /\ \A k \in Keys : k # Absent /\ Owner(k) \in Workers /\ k \in Own(Owner(k))
  /\ \A v, w \in Workers : v # w => Own(v) \intersect Own(w) = {}
  /\ \A p \in Policies : p \in Keys /\ SpecsOf(p) \subseteq Seq(ConfigMaps)
  /\ Own("backendTLSPolicies") = Policies /\ Own("configMaps") = ConfigMaps
  /\ Workers = {"backendTLSPolicies", "configMaps"}
  BY NamesAssumption DEF Own, Owner, Keys, Workers, SpecsOf

LEMMA IdleFacts ==
  /\ DOMAIN Idle = Fields
  /\ Idle.pc = "idle" /\ Idle.gateways = {} /\ Idle.ways = {} /\ Idle.unresolved = <<>>
  /\ Idle.snap = NothingCopied /\ NothingCopied \in [Workers -> Contents]
  BY DEF Idle, Fields, NothingCopied, Contents

\* Replacing one object by another of its kind, or by none, keeps a map typed.
LEMMA MapUpdate ==
  ASSUME NEW m, ObjectMap(m), NEW k \in Keys, NEW o \in Objects(k) \union {Absent}
  PROVE  ObjectMap([m EXCEPT ![k] = o])
  BY DEF ObjectMap

LEMMA NewOK ==
  ASSUME NEW k \in Keys, NEW g \in Generations, NEW s \in SpecsOf(k)
  PROVE  New(g, s) \in Objects(k)
<1>1. <<>> \in Statuses
  BY EmptySeq DEF Statuses
<1> QED
  BY <1>1 DEF New, Objects

\* What updateProxy copies of a map has the type of a copy.
LEMMA ContentOK ==
  ASSUME ObjectMap(store), NEW w \in Workers PROVE Content(w) \in Contents
<1>1. ASSUME NEW k \in Own(w), store[k] # Absent
      PROVE  store[k].spec \in PolicySpecs \union Data
  BY <1>1, KeysFacts DEF ObjectMap, Objects, SpecsOf
<1> QED
  BY <1>1, KeysFacts DEF Content, Contents

\* A status lists Gateways, each once, with the same verdict and generation.
LEMMA AncestorsOK ==
  ASSUME NEW S, S \subseteq Gateways, NEW order \in Orders(S),
         NEW u \in Seq(ConfigMaps), NEW g \in Generations
  PROVE  Ancestors(order, u, g) \in Statuses
<1> DEFINE a == Ancestors(order, u, g)
<1>1. Cardinality(S) \in Nat
  BY NamesAssumption, FS_Subset, FS_CardinalityType
<1>2. /\ order \in [1..Cardinality(S) -> S]
      /\ \A i, j \in DOMAIN order : order[i] = order[j] => i = j
  BY DEF Orders
<1>3. /\ a \in [1..Cardinality(S) -> AncestorStatuses]
      /\ \A i \in 1..Cardinality(S) : a[i].gateway = order[i]
  BY <1>2 DEF Ancestors, AncestorStatuses
<1> HIDE DEF a
<1>n. PICK n : n = Cardinality(S)
  OBVIOUS
<1>4. n \in Nat /\ a \in [1..n -> AncestorStatuses]
  BY <1>n, <1>1, <1>3
<1>5. a \in Seq(AncestorStatuses)
  BY <1>4
<1>6. Len(a) = n
  BY <1>4, <1>5
<1>7. \A i, j \in 1..Len(a) : a[i].gateway = a[j].gateway => i = j
  BY <1>n, <1>2, <1>3, <1>6
<1> QED
  BY <1>5, <1>7 DEF Statuses, a

----------------------------------------------------------------------------
(* Type correctness. *)

\* The types of the tasks, together.
TasksOK == task = [w \in Workers |-> task[w]] /\ \A w \in Workers : TaskOK(w, task[w])

LEMMA TaskUpdate ==
  ASSUME TasksOK, NEW w \in Workers, NEW t, TaskOK(w, t), task' = [task EXCEPT ![w] = t]
  PROVE  TasksOK'
<1>1. TaskOK(w, t)' = TaskOK(w, t)
  OBVIOUS
<1>2. task' = [x \in Workers |-> task'[x]]
  BY DEF TasksOK
<1>3. \A x \in Workers : task'[x] = IF x = w THEN t ELSE task[x]
  BY DEF TasksOK
<1>4. \A x \in Workers : TaskOK(x, task'[x])
  BY <1>3 DEF TasksOK
<1>5. (\A x \in Workers : TaskOK(x, task[x]))'
  BY <1>4 DEF TaskOK, HoldOK, LookedAt
<1> QED
  BY <1>2, <1>5 DEF TasksOK

\* What stays typed in a step that only moves the worker w, with the task t.
LEMMA TaskOnly ==
  ASSUME TypeOK, NEW w \in Workers, NEW t, TaskOK(w, t), task' = [task EXCEPT ![w] = t],
         UNCHANGED <<api, cache, noticed, others, queue, store, routes, counters>>
  PROVE  TypeOK'
<1>1. TasksOK'
  BY TaskUpdate DEF TypeOK, TasksOK
<1> QED
  BY <1>1 DEF TypeOK, TasksOK, ObjectMap, others, counters

\* The tasks that hold no object.
LEMMA TaskSteps ==
  ASSUME NEW w \in Workers
  PROVE  /\ TaskOK(w, Idle)
         /\ TaskOK(w, [Idle EXCEPT !.pc = "readPolicies"])
         /\ \A k \in Own(w) : TaskOK(w, [Idle EXCEPT !.pc = "get", !.key = k])
<1>0. <<>> \in Seq(ConfigMaps)
  BY EmptySeq
<1>1. TaskOK(w, Idle)
  BY <1>0, IdleFacts DEF TaskOK, PCs, PolicyPCs
<1>2. TaskOK(w, [Idle EXCEPT !.pc = "readPolicies"])
  BY <1>0, IdleFacts DEF TaskOK, PCs, PolicyPCs, Fields
<1>3. ASSUME NEW k \in Own(w) PROVE TaskOK(w, [Idle EXCEPT !.pc = "get", !.key = k])
  <2> DEFINE t == [Idle EXCEPT !.pc = "get", !.key = k]
  <2>1. /\ DOMAIN t = Fields /\ t.pc = "get" /\ t.key = k /\ t.gateways = {} /\ t.ways = {}
        /\ t.unresolved = <<>> /\ t.snap = NothingCopied
    BY IdleFacts DEF Fields
  <2>2. t.pc \in PCs /\ t.pc \notin PolicyPCs /\ t.pc # "idle"
    BY <2>1 DEF PCs, PolicyPCs
  <2>3. t = [Idle EXCEPT !.pc = "get", !.key = t.key]
    BY <2>1
  <2> HIDE DEF t
  <2> QED
    <3>1. t.pc \in IF w = "configMaps" THEN PCs ELSE PCs \union PolicyPCs
      BY <2>2
    <3>2. t.pc = "get" => t.key \in Own(w) /\ t = [Idle EXCEPT !.pc = "get", !.key = t.key]
      BY <2>1, <2>3
    <3>3. DOMAIN t = DOMAIN Idle /\ t.snap \in [Workers -> Contents]
      BY <2>1, IdleFacts
    <3> QED
      BY <1>0, <2>1, <2>2, <3>1, <3>2, <3>3 DEF TaskOK
<1> QED
  BY <1>1, <1>2, <1>3

\* The process starts with typed objects and nothing running.
LEMMA InitTypeOK == Init => TypeOK
<1> SUFFICES ASSUME Init PROVE TypeOK
  OBVIOUS
<1>1. ObjectMap(api)
  <2>1. PICK specs \in [Keys -> PolicySpecs \union Data \union {Absent}] :
          /\ \A k \in Keys : specs[k] \in SpecsOf(k) \union {Absent}
          /\ api = [k \in Keys |-> IF specs[k] = Absent THEN Absent ELSE New(1, specs[k])]
    BY DEF Init
  <2>2. 1 \in Generations
    BY BoundsAssumption DEF Generations
  <2>3. ASSUME NEW k \in Keys PROVE api[k] \in Objects(k) \union {Absent}
    <3>1. CASE specs[k] = Absent
      BY <2>1, <3>1
    <3>2. CASE specs[k] # Absent
      BY <2>1, <2>2, <3>2, NewOK
    <3> QED
      BY <3>1, <3>2
  <2> QED
    BY <2>1, <2>3 DEF ObjectMap
<1>2. ObjectMap(cache) /\ ObjectMap(store)
  BY <1>1 DEF Init, ObjectMap
<1>3. TasksOK
  BY TaskSteps DEF Init, TasksOK
<1> QED
  BY <1>1, <1>2, <1>3, IdleFacts, BoundsAssumption DEF Init, TypeOK, TasksOK

\* The counters, after an event that is one of the rarer ones.
Spent ==
  /\ events \in 0..MaxEvents
  /\ changes \in [Keys -> 0..events]
  /\ spent \subseteq RareEvents

LEMMA SpendOK ==
  ASSUME TypeOK, NEW e, Spend(e), UNCHANGED changes PROVE Spent'
<1>1. events' \in 0..MaxEvents /\ changes' \in [Keys -> 0..events']
  BY BoundsAssumption DEF Spend, Count, TypeOK
<1> QED
  BY <1>1 DEF Spent, Spend, TypeOK

\* Users, the other reconcilers, the informers and a restart keep the types.
LEMMA OutsideTypeStep ==
  ASSUME TypeOK,
         \/ \E k \in Keys : Apply(k) \/ Remove(k) \/ Deliver(k)
         \/ \E c \in ConfigMaps : MapEvent(c)
         \/ OthersChange \/ Restart
  PROVE  TypeOK'
<1>1. ASSUME NEW k \in Keys, Apply(k) PROVE TypeOK'
  <2>1. /\ events' \in 0..MaxEvents /\ changes' \in [Keys -> 0..events']
        /\ changes[k] + 2 \in Generations
    BY <1>1, BoundsAssumption DEF Apply, Count, TypeOK, Generations
  <2>2. PICK s \in SpecsOf(k) :
          \/ /\ api[k] = Absent
             /\ api' = [api EXCEPT ![k] = New(changes[k] + 2, s)]
          \/ /\ api[k] # Absent
             /\ api' = [api EXCEPT ![k].gen = changes[k] + 2, ![k].spec = s]
    BY <1>1 DEF Apply
  <2>3. ObjectMap(api')
    <3>1. CASE api[k] = Absent
      BY <2>1, <2>2, <3>1, NewOK, MapUpdate DEF TypeOK
    <3>2. CASE api[k] # Absent
      <4> DEFINE o == [api[k] EXCEPT !.gen = changes[k] + 2, !.spec = s]
      <4>1. api' = [api EXCEPT ![k] = o]
        BY <2>2, <3>2 DEF TypeOK, ObjectMap
      <4>2. api[k] \in Objects(k)
        BY <3>2 DEF TypeOK, ObjectMap
      <4>3. o \in Objects(k)
        BY <2>1, <4>2 DEF Objects
      <4> HIDE DEF o
      <4> QED
        BY <4>1, <4>3, MapUpdate DEF TypeOK
    <3> QED
      BY <3>1, <3>2
  <2> QED
    BY <1>1, <2>1, <2>3 DEF Apply, TypeOK, ObjectMap, others
<1>2. ASSUME NEW k \in Keys, Remove(k) PROVE TypeOK'
  <2>1. ObjectMap(api')
    BY <1>2, MapUpdate DEF Remove, TypeOK
  <2>2. events' \in 0..MaxEvents /\ changes' \in [Keys -> 0..events']
    BY <1>2, BoundsAssumption DEF Remove, Count, TypeOK
  <2> QED
    BY <1>2, <2>1, <2>2 DEF Remove, TypeOK, ObjectMap, others
<1>3. ASSUME NEW k \in Keys, Deliver(k) PROVE TypeOK'
  <2>1. ObjectMap(cache')
    BY <1>3, MapUpdate DEF Deliver, TypeOK, ObjectMap
  <2>2. queue' = [w \in Workers |-> queue'[w]] /\ \A w \in Workers : queue'[w] \subseteq Own(w)
    <3>1. queue' = [queue EXCEPT ![Owner(k)] = queue[Owner(k)] \union {k}]
      BY <1>3 DEF Deliver
    <3>2. Owner(k) \in Workers /\ k \in Own(Owner(k))
      BY KeysFacts
    <3> QED
      BY <3>1, <3>2 DEF TypeOK
  <2> QED
    BY <1>3, <2>1, <2>2 DEF Deliver, TypeOK, ObjectMap, others, counters
<1>4. ASSUME NEW c \in ConfigMaps, MapEvent(c) PROVE TypeOK'
  <2>1. queue' = [w \in Workers |-> queue'[w]] /\ \A w \in Workers : queue'[w] \subseteq Own(w)
    BY <1>4, KeysFacts DEF MapEvent, TypeOK
  <2> QED
    BY <1>4, <2>1 DEF MapEvent, TypeOK, ObjectMap, others, counters
<1>5. CASE OthersChange
  <2>1. known' \subseteq Gateways /\ leads' \in [Policies -> SUBSET Gateways]
    BY <1>5, NamesAssumption DEF OthersChange
  <2>2. events' \in 0..MaxEvents /\ changes' \in [Keys -> 0..events']
    BY <1>5, BoundsAssumption DEF OthersChange, Count, TypeOK
  <2> QED
    BY <1>5, <2>1, <2>2 DEF OthersChange, TypeOK, ObjectMap
<1>6. CASE Restart
  <2>1. ObjectMap(cache') /\ ObjectMap(store')
    BY <1>6 DEF Restart, TypeOK, ObjectMap
  <2>2. queue' = [w \in Workers |-> queue'[w]] /\ \A w \in Workers : queue'[w] \subseteq Own(w)
    BY <1>6 DEF Restart
  <2>3. TasksOK'
    BY <1>6, TaskSteps DEF Restart, TasksOK, TaskOK, HoldOK, LookedAt
  <2>4. Spent'
    BY <1>6, SpendOK DEF Restart
  <2> QED
    BY <1>6, <2>1, <2>2, <2>3, <2>4, IdleFacts DEF Restart, TypeOK, TasksOK, ObjectMap, Spent
<1> QED
  BY <1>1, <1>2, <1>3, <1>4, <1>5, <1>6

\* The steps both reconcilers have, and ConfigMapReconciler, keep the types.
LEMMA SharedTypeStep ==
  ASSUME TypeOK, NEW w \in Workers,
         \/ \E k \in Keys : Take(w, k)
         \/ Gone(w) \/ ReadPolicies(w) \/ ReadConfigMaps(w) \/ Publish(w)
         \/ w = "configMaps" /\ ConfigMapFound
  PROVE  TypeOK'
<1>0. TasksOK /\ TaskOK(w, task[w])
  BY DEF TypeOK, TasksOK
<1>1. ASSUME NEW k \in Keys, Take(w, k) PROVE TypeOK'
  <2>1. task' = [task EXCEPT ![w] = [Idle EXCEPT !.pc = "get", !.key = k]]
    BY <1>0, <1>1 DEF Take, TasksOK
  <2>2. k \in Own(w)
    BY <1>1 DEF Take, TypeOK
  <2>3. TasksOK'
    BY <1>0, <2>1, <2>2, TaskSteps, TaskUpdate
  <2>4. queue' = [v \in Workers |-> queue'[v]] /\ \A v \in Workers : queue'[v] \subseteq Own(v)
    BY <1>1 DEF Take, TypeOK
  <2> QED
    BY <1>1, <2>3, <2>4 DEF Take, TypeOK, TasksOK, ObjectMap, others, counters
<1>2. CASE Gone(w) \/ (w = "configMaps" /\ ConfigMapFound)
  <2>1. task[w].key \in Own(w) /\ task[w].key \in Keys
    BY <1>0, <1>2, KeysFacts DEF Gone, ConfigMapFound, TaskOK
  <2>2. ObjectMap(store')
    <3>1. PICK o \in Objects(task[w].key) \union {Absent} :
            store' = [store EXCEPT ![task[w].key] = o]
      BY <1>2, <2>1 DEF Gone, ConfigMapFound, TypeOK, ObjectMap
    <3> QED
      BY <2>1, <3>1, MapUpdate DEF TypeOK
  <2>3. TasksOK'
    BY <1>0, <1>2, TaskSteps, TaskUpdate DEF Gone, ConfigMapFound, Update
  <2> QED
    BY <1>2, <2>2, <2>3
       DEF Gone, ConfigMapFound, TypeOK, TasksOK, ObjectMap, others, counters
<1>3. CASE ReadPolicies(w) \/ ReadConfigMaps(w)
  <2>1. PICK p \in {"readConfigMaps", "publish"}, j \in Workers :
          /\ task[w].pc \in {"readPolicies", "readConfigMaps"}
          /\ task' = [task EXCEPT ![w].pc = p, ![w].snap[j] = Content(j)]
          /\ UNCHANGED <<api, cache, noticed, others, queue, store, routes, counters>>
    BY <1>3, KeysFacts DEF ReadPolicies, ReadConfigMaps
  <2> DEFINE t == [task[w] EXCEPT !.pc = p, !.snap[j] = Content(j)]
  <2>2. task' = [task EXCEPT ![w] = t]
    BY <1>0, <2>1 DEF TasksOK
  <2>3. /\ DOMAIN task[w] = Fields
        /\ task[w].snap \in [Workers -> Contents]
        /\ Content(j) \in Contents
    BY <1>0, IdleFacts, ContentOK DEF TaskOK, TypeOK
  <2>4. /\ DOMAIN t = Fields /\ t.pc = p /\ t.gateways = task[w].gateways
        /\ t.ways = task[w].ways /\ t.unresolved = task[w].unresolved
        /\ t.snap = [task[w].snap EXCEPT ![j] = Content(j)]
    BY <2>3 DEF Fields
  <2>5. t.snap \in [Workers -> Contents]
    BY <2>3, <2>4
  <2>6. t.pc \in PCs /\ t.pc \notin PolicyPCs /\ t.pc \notin {"idle", "get"}
    BY <2>4 DEF PCs, PolicyPCs
  <2> HIDE DEF t
  <2>7. TaskOK(w, t)
    BY <1>0, <2>4, <2>5, <2>6, IdleFacts DEF TaskOK
  <2> QED
    BY <2>1, <2>2, <2>7, TaskOnly
<1>4. CASE Publish(w)
  <2>1. TasksOK'
    BY <1>0, <1>4, TaskSteps, TaskUpdate DEF Publish
  <2>2. routes' \in [Workers -> Contents]
    BY <1>0, <1>4 DEF Publish, TaskOK
  <2> QED
    BY <1>4, <2>1, <2>2 DEF Publish, TypeOK, TasksOK, ObjectMap, others, counters
<1> QED
  BY <1>1, <1>2, <1>3, <1>4

\* What is known of the task of a policy that is being worked on.
LEMMA PolicyFacts ==
  ASSUME TypeOK
  PROVE  /\ "backendTLSPolicies" \in Workers /\ TasksOK /\ TaskOK("backendTLSPolicies", policy)
         /\ DOMAIN policy = Fields
         /\ policy.pc = "get" => policy.key \in Policies
         /\ policy.pc \in PolicyPCs => HoldOK(policy) /\ policy.key \in Policies
         /\ Policies \subseteq Keys
  BY KeysFacts, IdleFacts DEF TypeOK, TasksOK, TaskOK, HoldOK, policy, Workers, Own

\* A policy is read, and the references it has are still to be looked at.
LEMMA PolicyFoundType == ASSUME TypeOK, PolicyFound PROVE TypeOK'
<1> DEFINE w == "backendTLSPolicies"
           o == cache[policy.key]
           t == [policy EXCEPT !.pc = "ways", !.base = o, !.obj = o, !.left = o.spec,
                               !.gateways = known]
<1>1. /\ policy.pc = "get" /\ o # Absent /\ task' = [task EXCEPT ![w] = t]
      /\ UNCHANGED <<api, cache, noticed, others, queue, store, routes, counters>>
  BY DEF PolicyFound, Continue
<1>2. policy.key \in Policies /\ o \in Objects(policy.key) /\ o.spec \in Seq(ConfigMaps)
  <2>1. policy.key \in Policies /\ policy.key \in Keys
    BY <1>1, PolicyFacts
  <2>2. o \in Objects(policy.key)
    BY <1>1, <2>1 DEF TypeOK, ObjectMap
  <2> QED
    BY <2>1, <2>2, KeysFacts DEF Objects
<1>3. policy = [Idle EXCEPT !.pc = "get", !.key = policy.key]
  BY <1>1, PolicyFacts DEF TaskOK
<1>4. policy.unresolved = <<>> /\ policy.ways = {} /\ policy.snap = NothingCopied
  BY <1>3, IdleFacts DEF Fields
<1>5. /\ DOMAIN t = Fields /\ t.pc = "ways" /\ t.key = policy.key /\ t.base = o /\ t.obj = o
      /\ t.left = o.spec /\ t.gateways = known /\ t.ways = {} /\ t.unresolved = <<>>
      /\ t.snap = NothingCopied
  BY <1>4, PolicyFacts DEF Fields
<1> HIDE DEF t, o
<1>6. HoldOK(t)
  <2>1. o = [o EXCEPT !.status = o.status]
    BY <1>2 DEF Objects
  <2>2. /\ 0 \in 0..Len(o.spec) /\ o.spec = SubSeq(o.spec, 1, Len(o.spec))
        /\ Elements(<<>>) \subseteq Elements(SubSeq(o.spec, 1, 0))
    BY <1>2, SubSeqFull, LenProperties DEF Elements
  <2>3. LookedAt(t)
    BY <1>5, <2>2 DEF LookedAt
  <2>4. t.obj = [t.base EXCEPT !.status = t.obj.status]
    BY <1>5, <2>1
  <2>5. t.key \in Policies /\ t.base \in Objects(t.key) /\ t.obj \in Objects(t.key)
    BY <1>2, <1>5
  <2> QED
    BY <2>3, <2>4, <2>5 DEF HoldOK
<1>7. TaskOK(w, t)
  <2>1. t.pc \in PolicyPCs /\ t.pc \notin {"idle", "get"}
    BY <1>5 DEF PolicyPCs
  <2>2. <<>> \in Seq(ConfigMaps) /\ known \subseteq Gateways
    BY EmptySeq DEF TypeOK
  <2> QED
    BY <1>5, <1>6, <2>1, <2>2, IdleFacts DEF TaskOK
<1> QED
  BY <1>1, <1>7, PolicyFacts, TaskOnly

\* A worker that goes on with the policy it holds, and with other statuses.
LEMMA HoldGoesOn ==
  ASSUME NEW u, NEW t, HoldOK(u), t.key = u.key, t.base = u.base,
         t.obj \in Objects(u.key), t.obj = [u.base EXCEPT !.status = t.obj.status],
         t.left = u.left, t.unresolved = u.unresolved
  PROVE  HoldOK(t)
<1>1. LookedAt(t)
  BY DEF HoldOK, LookedAt
<1> QED
  BY <1>1 DEF HoldOK

\* One more reference has been looked at.
LEMMA CheckReferenceHold ==
  ASSUME NEW u, HoldOK(u), u.left # <<>>, u.unresolved \in Seq(ConfigMaps), NEW m
  PROVE  \E done \in 0..(Len(u.base.spec) - 1) :
           /\ u.left = SubSeq(u.base.spec, done + 1, Len(u.base.spec))
           /\ Tail(u.left) = SubSeq(u.base.spec, done + 2, Len(u.base.spec))
           /\ Head(u.left) = u.base.spec[done + 1] /\ Head(u.left) \in ConfigMaps
           /\ Elements(u.unresolved) \subseteq Elements(SubSeq(u.base.spec, 1, done))
           /\ Elements(SubSeq(u.base.spec, 1, done)) \union {Head(u.left)}
                \subseteq Elements(SubSeq(u.base.spec, 1, done + 1))
<1>s. PICK s : s = u.base.spec
  OBVIOUS
<1>1. s \in Seq(ConfigMaps) /\ Len(s) \in Nat
  BY <1>s, KeysFacts, LenProperties DEF HoldOK, Objects
<1>2. PICK done \in 0..Len(s) : /\ u.left = SubSeq(s, done + 1, Len(s))
                                /\ Elements(u.unresolved) \subseteq Elements(SubSeq(s, 1, done))
  BY <1>s DEF HoldOK, LookedAt
<1>3. done # Len(s)
  BY <1>1, <1>2, SubSeqEmpty
<1>4. done + 1 \in 1..Len(s) /\ Len(s) \in (done + 1)..Len(s) /\ done \in 0..(Len(s) - 1)
  BY <1>1, <1>3
<1>5. Head(u.left) = s[done + 1] /\ Tail(u.left) = SubSeq(s, done + 2, Len(s))
  <2>k. PICK k, l : k = done + 1 /\ l = Len(s)
    OBVIOUS
  <2>1. k \in 1..Len(s) /\ l \in k..Len(s) /\ k + 1 = done + 2 /\ u.left = SubSeq(s, k, l)
    BY <1>2, <1>4, <2>k
  <2>2. Head(SubSeq(s, k, l)) = s[k] /\ Tail(SubSeq(s, k, l)) = SubSeq(s, k + 1, l)
    BY <1>1, <2>1, HeadTailOfSubSeq
  <2> QED
    BY <2>k, <2>1, <2>2
<1>6. s[done + 1] \in ConfigMaps /\ \A i \in 1..Len(s) : s[i] \in ConfigMaps
  BY <1>1, <1>4
<1>7. Elements(SubSeq(s, 1, done)) \union {s[done + 1]} \subseteq Elements(SubSeq(s, 1, done + 1))
  <2>r. PICK a, b : a = SubSeq(s, 1, done) /\ b = SubSeq(s, 1, done + 1)
    OBVIOUS
  <2>1. /\ Len(a) = done /\ \A i \in 1..done : a[i] = s[i]
        /\ Len(b) = done + 1 /\ \A i \in 1..(done + 1) : b[i] = s[i]
    BY <1>1, <1>4, <1>6, <2>r, SubSeqProperties
  <2>2. \A i \in 1..done : i \in 1..(done + 1) /\ a[i] = b[i]
    BY <1>4, <2>1
  <2>3. done + 1 \in 1..(done + 1) /\ b[done + 1] = s[done + 1]
    BY <1>4, <2>1
  <2>4. Elements(a) \subseteq Elements(b) /\ s[done + 1] \in Elements(b)
    BY <2>1, <2>2, <2>3 DEF Elements
  <2> QED
    BY <2>r, <2>4
<1> QED
  BY <1>s, <1>2, <1>4, <1>5, <1>6, <1>7

LEMMA CheckReferenceType == ASSUME TypeOK, CheckReference PROVE TypeOK'
<1>u. PICK u : u = policy
  OBVIOUS
<1>w. PICK w : w = "backendTLSPolicies"
  OBVIOUS
<1>n. PICK n : n = IF Resolves(Head(u.left), cache) THEN u.unresolved
                   ELSE Append(u.unresolved, Head(u.left))
  OBVIOUS
<1>t. PICK t : t = [u EXCEPT !.left = Tail(u.left), !.unresolved = n]
  OBVIOUS
<1>1. /\ u.pc = "check" /\ u.left # <<>> /\ task' = [task EXCEPT ![w] = t]
      /\ UNCHANGED <<api, cache, noticed, others, queue, store, routes, counters>>
      /\ w \in Workers /\ TaskOK(w, u) /\ DOMAIN u = Fields /\ HoldOK(u)
  <2>1. u.pc = "check" /\ u.left # <<>>
    BY <1>u DEF CheckReference
  <2>2. /\ Continue([u EXCEPT !.left = Tail(u.left), !.unresolved = n])
    BY <1>u, <1>n, PolicyFacts DEF CheckReference, Fields
  <2> QED
    BY <1>u, <1>w, <1>t, <2>1, <2>2, PolicyFacts DEF Continue, PolicyPCs
<1>2. /\ DOMAIN t = Fields /\ t.pc = "check" /\ t.key = u.key /\ t.base = u.base
      /\ t.obj = u.obj /\ t.gateways = u.gateways /\ t.ways = u.ways /\ t.snap = u.snap
      /\ t.left = Tail(u.left) /\ t.unresolved = n
  BY <1>t, <1>1 DEF Fields
<1>3. PICK done \in 0..(Len(u.base.spec) - 1) :
           /\ Tail(u.left) = SubSeq(u.base.spec, done + 2, Len(u.base.spec))
           /\ Head(u.left) \in ConfigMaps
           /\ Elements(u.unresolved) \subseteq Elements(SubSeq(u.base.spec, 1, done))
           /\ Elements(SubSeq(u.base.spec, 1, done)) \union {Head(u.left)}
                \subseteq Elements(SubSeq(u.base.spec, 1, done + 1))
  BY <1>1, CheckReferenceHold DEF TaskOK
<1>4. n \in Seq(ConfigMaps) /\ Elements(n) \subseteq Elements(u.unresolved) \union {Head(u.left)}
  <2>1. u.unresolved \in Seq(ConfigMaps)
    BY <1>1 DEF TaskOK
  <2>2. Elements(Append(u.unresolved, Head(u.left))) \subseteq Elements(u.unresolved) \union {Head(u.left)}
    BY <1>3, <2>1, AppendProperties DEF Elements
  <2> QED
    BY <1>n, <1>3, <2>1, <2>2, AppendProperties
<1>5. HoldOK(t)
  <2>1. Len(u.base.spec) \in Nat
    BY <1>1, KeysFacts, LenProperties DEF HoldOK, Objects
  <2>2. done + 1 \in 0..Len(u.base.spec) /\ (done + 1) + 1 = done + 2
    BY <2>1
  <2>3. LookedAt(t)
    <3>1. /\ t.left = SubSeq(t.base.spec, (done + 1) + 1, Len(t.base.spec))
          /\ Elements(t.unresolved) \subseteq Elements(SubSeq(t.base.spec, 1, done + 1))
      BY <1>2, <1>3, <1>4, <2>2
    <3> QED
      BY <1>2, <2>2, <3>1 DEF LookedAt
  <2> QED
    BY <1>1, <1>2, <2>3 DEF HoldOK
<1>6. TaskOK(w, t)
  <2>1. t.pc \in PolicyPCs /\ t.pc \notin {"idle", "get"} /\ t.pc \notin PCs /\ u.pc \notin PCs
    BY <1>1, <1>2 DEF PolicyPCs, PCs
  <2> QED
    BY <1>1, <1>2, <1>4, <1>5, <2>1, IdleFacts DEF TaskOK
<1> QED
  BY <1>1, <1>6, TaskOnly

\* The statuses that may be computed are statuses.
LEMMA NewStatusesOK ==
  ASSUME TypeOK, policy.pc = "check" PROVE NewStatuses \subseteq Statuses
<1>1. /\ policy.gateways \subseteq Gateways /\ policy.unresolved \in Seq(ConfigMaps)
      /\ policy.base.gen \in Generations
  BY PolicyFacts DEF TaskOK, HoldOK, Objects, PolicyPCs
<1>2. ASSUME NEW ways, NEW order \in Orders(policy.gateways \intersect ways)
      PROVE  Ancestors(order, policy.unresolved, policy.base.gen) \in Statuses
  <2>1. policy.gateways \intersect ways \subseteq Gateways
    BY <1>1
  <2> QED
    BY <1>1, <2>1, AncestorsOK
<1> QED
  BY <1>2 DEF NewStatuses

\* The other steps of BackendTLSPolicyReconciler in which only its task changes.
LEMMA PolicyGoesOnType ==
  ASSUME TypeOK, CopyRoutes \/ ComputeKept \/ ComputeChanged PROVE TypeOK'
<1>u. PICK u : u = policy
  OBVIOUS
<1>w. PICK w : w = "backendTLSPolicies"
  OBVIOUS
<1>0. /\ w \in Workers /\ TaskOK(w, u) /\ DOMAIN u = Fields
      /\ u.pc \in {"ways", "check"} /\ HoldOK(u)
      /\ leads[u.key] \subseteq Gateways
  <2>1. u.pc \in {"ways", "check"}
    BY <1>u DEF CopyRoutes, ComputeKept, ComputeChanged, Checked
  <2> QED
    BY <1>u, <1>w, <2>1, PolicyFacts DEF PolicyPCs, TypeOK
<1>1. PICK p \in PolicyPCs, ways \in SUBSET Gateways, new \in Statuses :
        Continue([u EXCEPT !.pc = p, !.ways = ways, !.obj.status = new])
  <2>1. /\ u.ways \subseteq Gateways /\ u.obj \in Objects(u.key) /\ u.obj.status \in Statuses
        /\ DOMAIN u.obj = {"gen", "spec", "status"}
    BY <1>0 DEF TaskOK, HoldOK, Objects
  <2>2. CASE CopyRoutes
    <3>1. [u EXCEPT !.pc = "check", !.ways = leads[u.key]]
            = [u EXCEPT !.pc = "check", !.ways = leads[u.key], !.obj.status = u.obj.status]
      BY <1>0, <2>1 DEF Fields, Objects
    <3> "check" \in PolicyPCs /\ leads[u.key] \in SUBSET Gateways
      BY <1>0 DEF PolicyPCs
    <3>2. Continue([u EXCEPT !.pc = "check", !.ways = leads[u.key]])
      BY <1>u, <2>2 DEF CopyRoutes
    <3> u.obj.status \in Statuses
      BY <2>1
    <3> WITNESS "check" \in PolicyPCs, leads[u.key] \in SUBSET Gateways, u.obj.status \in Statuses
    <3> QED
      BY <3>1, <3>2 DEF Continue
  <2>3. CASE ComputeKept
    <3>1. [u EXCEPT !.pc = "store"]
            = [u EXCEPT !.pc = "store", !.ways = u.ways, !.obj.status = u.obj.status]
      BY <1>0, <2>1 DEF Fields, Objects
    <3> "store" \in PolicyPCs /\ u.ways \in SUBSET Gateways
      BY <2>1 DEF PolicyPCs
    <3>2. Continue([u EXCEPT !.pc = "store"])
      BY <1>u, <2>3 DEF ComputeKept
    <3> u.obj.status \in Statuses
      BY <2>1
    <3> WITNESS "store" \in PolicyPCs, u.ways \in SUBSET Gateways, u.obj.status \in Statuses
    <3> QED
      BY <3>1, <3>2 DEF Continue
  <2>4. CASE ComputeChanged
    <3>1. PICK new \in NewStatuses : Continue([u EXCEPT !.pc = "put", !.obj.status = new])
      BY <1>u, <2>4 DEF ComputeChanged
    <3>2. new \in Statuses
      BY <1>u, <2>4, NewStatusesOK DEF ComputeChanged, Checked
    <3>3. [u EXCEPT !.pc = "put", !.obj.status = new]
            = [u EXCEPT !.pc = "put", !.ways = u.ways, !.obj.status = new]
      BY <1>0 DEF Fields
    <3>4. "put" \in PolicyPCs /\ u.ways \in SUBSET Gateways
      BY <2>1 DEF PolicyPCs
    <3> QED
      BY <3>1, <3>2, <3>3, <3>4
  <2> QED
    BY <2>2, <2>3, <2>4
<1>o. PICK o : o = [u.obj EXCEPT !.status = new]
  OBVIOUS
<1>t. PICK t : t = [u EXCEPT !.pc = p, !.ways = ways, !.obj.status = new]
  OBVIOUS
<1>2. /\ DOMAIN t = Fields /\ t.pc = p /\ t.key = u.key /\ t.base = u.base
      /\ t.obj = o /\ t.gateways = u.gateways /\ t.ways = ways /\ t.snap = u.snap
      /\ t.left = u.left /\ t.unresolved = u.unresolved
  BY <1>0, <1>o, <1>t DEF Fields
<1>3. o \in Objects(u.key) /\ o = [u.base EXCEPT !.status = o.status]
  <2>1. /\ u.key \in Policies /\ u.base \in Objects(u.key) /\ u.obj \in Objects(u.key)
        /\ u.obj = [u.base EXCEPT !.status = u.obj.status]
    BY <1>0 DEF HoldOK
  <2> QED
    BY <1>o, <2>1 DEF Objects
<1>4. HoldOK(t)
  BY <1>0, <1>2, <1>3, HoldGoesOn
<1>5. TaskOK(w, t)
  <2>1. t.pc \in PolicyPCs /\ t.pc \notin {"idle", "get"} /\ t.pc \notin PCs /\ u.pc \notin PCs
    BY <1>0, <1>2 DEF PolicyPCs, PCs
  <2> QED
    BY <1>0, <1>2, <1>4, <2>1, IdleFacts DEF TaskOK
<1> QED
  BY <1>w, <1>t, <1>0, <1>1, <1>5, TaskOnly DEF Continue

\* The status write and the store of BackendTLSPolicyReconciler keep the types.
LEMMA PolicyWritesType ==
  ASSUME TypeOK, PutAccepted \/ PutRejected \/ PutFailed \/ PolicyStore PROVE TypeOK'
<1>u. PICK u : u = policy
  OBVIOUS
<1>w. PICK w : w = "backendTLSPolicies"
  OBVIOUS
<1>0. /\ w \in Workers /\ TaskOK(w, u) /\ DOMAIN u = Fields /\ u = task[w]
      /\ u.pc \in {"put", "store"} /\ HoldOK(u) /\ TasksOK
      /\ u.key \in Policies /\ u.key \in Keys /\ u.obj \in Objects(u.key)
  <2>1. u.pc \in {"put", "store"}
    BY <1>u DEF PutAccepted, PutRejected, PutFailed, PolicyStore
  <2> QED
    BY <1>u, <1>w, <2>1, PolicyFacts DEF PolicyPCs, HoldOK, policy
<1>1. CASE PutAccepted
  <2>1. ObjectMap(api')
    BY <1>u, <1>0, <1>1, MapUpdate DEF PutAccepted, TypeOK
  <2>t. PICK t : t = [u EXCEPT !.pc = "store"]
    OBVIOUS
  <2>2. task' = [task EXCEPT ![w] = t]
    BY <1>w, <1>0, <1>1, <2>t DEF PutAccepted, TasksOK
  <2>3. /\ DOMAIN t = Fields /\ t.pc = "store" /\ t.key = u.key /\ t.base = u.base
        /\ t.obj = u.obj /\ t.gateways = u.gateways /\ t.ways = u.ways /\ t.snap = u.snap
        /\ t.left = u.left /\ t.unresolved = u.unresolved
    BY <1>0, <2>t DEF Fields
  <2>4. HoldOK(t)
    BY <1>0, <2>3, HoldGoesOn DEF HoldOK
  <2>5. t.pc \in PolicyPCs /\ t.pc \notin {"idle", "get"} /\ t.pc \notin PCs /\ u.pc \notin PCs
    BY <1>0, <2>3 DEF PolicyPCs, PCs
  <2>6. TaskOK(w, t)
    BY <1>0, <2>3, <2>4, <2>5, IdleFacts DEF TaskOK
  <2>7. TasksOK'
    BY <1>0, <2>2, <2>6, TaskUpdate
  <2> QED
    BY <1>1, <2>1, <2>7 DEF PutAccepted, TypeOK, TasksOK, ObjectMap, others, counters
<1>2. CASE PutRejected \/ PutFailed
  <2>1. ObjectMap(api')
    <3>1. CASE api' = api
      BY <3>1 DEF TypeOK, ObjectMap
    <3>2. CASE api' = [api EXCEPT ![u.key] = u.obj]
      BY <1>0, <3>2, MapUpdate DEF TypeOK
    <3> QED
      BY <1>u, <1>2, <3>1, <3>2 DEF PutRejected, PutFailed
  <2>2. /\ task' = [task EXCEPT ![w] = Idle]
        /\ queue' = [queue EXCEPT ![w] = queue[w] \union {u.key}]
    BY <1>u, <1>w, <1>2 DEF PutRejected, PutFailed, ReturnError
  <2>3. TasksOK'
    BY <1>0, <2>2, TaskSteps, TaskUpdate
  <2>4. queue' = [v \in Workers |-> queue'[v]] /\ \A v \in Workers : queue'[v] \subseteq Own(v)
    <3>1. u.key \in Own(w)
      BY <1>w, <1>0, KeysFacts
    <3> QED
      BY <1>0, <2>2, <3>1 DEF TypeOK
  <2>5. Spent'
    <3>1. CASE PutRejected
      BY <3>1 DEF PutRejected, TypeOK, Spent, counters
    <3>2. CASE PutFailed
      BY <3>2, SpendOK DEF PutFailed
    <3> QED
      BY <1>2, <3>1, <3>2
  <2>6. UNCHANGED <<cache, noticed, others, store, routes>>
    BY <1>2 DEF PutRejected, PutFailed
  <2> QED
    BY <2>1, <2>3, <2>4, <2>5, <2>6 DEF TypeOK, TasksOK, ObjectMap, others, Spent
<1>3. CASE PolicyStore
  <2>1. ObjectMap(store')
    BY <1>u, <1>0, <1>3, MapUpdate DEF PolicyStore, TypeOK
  <2>2. TasksOK'
    BY <1>w, <1>0, <1>3, TaskSteps, TaskUpdate DEF PolicyStore, Update
  <2> QED
    BY <1>3, <2>1, <2>2 DEF PolicyStore, TypeOK, TasksOK, ObjectMap, others, counters
<1> QED
  BY <1>1, <1>2, <1>3

LEMMA TypeStep == TypeOK /\ [Next]_vars => TypeOK'
<1> SUFFICES ASSUME TypeOK, [Next]_vars PROVE TypeOK'
  OBVIOUS
<1>1. CASE UNCHANGED vars
  BY <1>1 DEF vars, TypeOK, ObjectMap, TaskOK, HoldOK, LookedAt
<1>2. CASE \/ \E k \in Keys : Apply(k) \/ Remove(k) \/ Deliver(k)
           \/ \E c \in ConfigMaps : MapEvent(c)
           \/ OthersChange \/ Restart
  BY <1>2, OutsideTypeStep
<1>3. CASE PutFailed
  BY <1>3, PolicyWritesType
<1>4. ASSUME NEW w \in Workers, Reconcile(w) \/ \E k \in Keys : Take(w, k) PROVE TypeOK'
  BY <1>4, SharedTypeStep, PolicyFoundType, CheckReferenceType, PolicyGoesOnType,
     PolicyWritesType DEF Reconcile
<1> QED
  BY <1>1, <1>2, <1>3, <1>4 DEF Next

\* Objects, requests and tasks keep their types, whatever the reconcilers,
\* users and the API server do: a policy in the middle of its references has
\* found unresolved only some of those it has looked at.
THEOREM TypeCorrect == FairSpec => []TypeOK
  BY InitTypeOK, TypeStep, PTL DEF FairSpec

----------------------------------------------------------------------------
(* The inductive invariant of the controllers at rest: every object is     *)
(* attended to, and every ConfigMap a verdict is out of date with noticed. *)

Working       == policy.pc \in PolicyPCs
Engaged(w, k) == task[w].key = k /\ task[w].pc \in PolicyPCs \union {"get"}

\* The generations given out so far.
Numbered(k, o) == o # Absent => o.gen \in 0..(changes[k] + 1)

AllNumbered ==
  /\ \A k \in Keys : Numbered(k, api[k]) /\ Numbered(k, cache[k])
  /\ Working => Numbered(policy.key, policy.base)

\* The event of a ConfigMap that o refers to is still to be mapped.
Noticed(o) == \E c \in Elements(o.spec) : c \in noticed

\* The status of o is right about its generation and the ConfigMaps in the cache.
Right(o) ==
  \A i \in 1..Len(o.status) :
    o.status[i].obs = o.gen /\ o.status[i].unresolved = Unresolved(o.spec, cache)

\* State and the verdict are what the cache calls for, or more is to come.
Settled(k) ==
  IF cache[k] = Absent THEN store[k] = Absent
  ELSE \/ api[k] # cache[k]
       \/ store[k] = cache[k] /\ (k \in Policies => Noticed(cache[k]) \/ Right(cache[k]))

\* Nothing that is not settled is forgotten.
Attended ==
  \A w \in Workers : \A k \in Own(w) : k \in queue[w] \/ Engaged(w, k) \/ Settled(k)

\* After done references of o, u is what the cache says of them.
UpTo(left, u, o, done) ==
  left = SubSeq(o.spec, done + 1, Len(o.spec)) /\ u = Unresolved(SubSeq(o.spec, 1, done), cache)

\* What the task has found out about the references agrees with the cache.
FoundOut(t) ==
  /\ t.pc \in {"ways", "check"} =>
       \E done \in 0..Len(t.base.spec) : UpTo(t.left, t.unresolved, t.base, done)
  /\ t.pc \in {"put", "store"} => Right(t.obj)

\* What the worker knows of the policy it holds, unless it will be called again.
HoldRight(t) ==
  /\ cache[t.key] = t.base
  /\ t.pc \in {"ways", "check"} => t.obj = t.base
  /\ t.pc = "put" => t.obj.status # t.base.status
  /\ t.pc = "store" => t.obj = t.base \/ api[t.key] # t.base
  /\ Noticed(t.base) \/ FoundOut(t)

Held == Working /\ policy.key \notin queue["backendTLSPolicies"] => HoldRight(policy)

RestInv == AllNumbered /\ Attended /\ Held

----------------------------------------------------------------------------
(* Frames. *)

\* In this step the ConfigMaps of s do not change, or their events are noticed.
Heard(s) ==
  \A c \in Elements(s) :
    (c \in noticed => c \in noticed') /\ (cache'[c] = cache[c] \/ c \in noticed')

\* A prefix of the references refers to nothing else.
LEMMA PrefixElements ==
  ASSUME NEW S, NEW s \in Seq(S), NEW done \in 0..Len(s)
  PROVE  /\ SubSeq(s, 1, done) \in Seq(S) /\ Len(SubSeq(s, 1, done)) \in Nat
         /\ Elements(SubSeq(s, 1, done)) \subseteq Elements(s)
<1>a. PICK a : a = SubSeq(s, 1, done)
  OBVIOUS
<1>1. Len(s) \in Nat /\ \A i \in 1..done : i \in 1..Len(s) /\ s[i] \in S
  BY LenProperties
<1>2. a \in Seq(S) /\ Len(a) = done /\ \A i \in 1..done : a[i] = s[i]
  BY <1>a, <1>1, SubSeqProperties
<1> QED
  BY <1>a, <1>1, <1>2 DEF Elements

\* A verdict stays right, or the event that makes it wrong is noticed.
LEMMA RightKept ==
  ASSUME NEW p \in Policies, NEW o \in Objects(p), Heard(o.spec), Noticed(o) \/ Right(o)
  PROVE  Noticed(o)' \/ Right(o)'
<1>1. CASE Noticed(o)
  BY <1>1 DEF Noticed, Heard
<1>2. CASE Right(o) /\ \E c \in Elements(o.spec) : cache'[c] # cache[c]
  BY <1>2 DEF Noticed, Heard
<1>3. CASE Right(o) /\ \A c \in Elements(o.spec) : cache'[c] = cache[c]
  <2>1. o.spec \in Seq(ConfigMaps) /\ Len(o.spec) \in Nat
    BY KeysFacts, LenProperties DEF Objects
  <2>2. Unresolved(o.spec, cache') = Unresolved(o.spec, cache)
    BY <1>3, <2>1, UnresolvedSame
  <2>3. Right(o)'
    BY <1>3, <2>2 DEF Right
  <2> QED
    BY <2>3
<1> QED
  BY <1>1, <1>2, <1>3

\* What was found out stays true, or the event that makes it false is noticed.
LEMMA FoundOutKept ==
  ASSUME NEW t, HoldOK(t), Heard(t.base.spec), Noticed(t.base) \/ FoundOut(t)
  PROVE  Noticed(t.base)' \/ FoundOut(t)'
<1>0. /\ t.key \in Policies /\ {t.base, t.obj} \subseteq Objects(t.key)
      /\ t.obj.spec = t.base.spec
      /\ t.base.spec \in Seq(ConfigMaps) /\ Len(t.base.spec) \in Nat
  BY KeysFacts, LenProperties DEF HoldOK, Objects
<1>1. CASE Noticed(t.base)
  BY <1>1 DEF Noticed, Heard
<1>2. CASE FoundOut(t) /\ \E c \in Elements(t.base.spec) : cache'[c] # cache[c]
  BY <1>2 DEF Noticed, Heard
<1>3. CASE FoundOut(t) /\ \A c \in Elements(t.base.spec) : cache'[c] = cache[c]
  <2>1. ASSUME NEW done \in 0..Len(t.base.spec), UpTo(t.left, t.unresolved, t.base, done)
        PROVE  UpTo(t.left, t.unresolved, t.base, done)'
    <3>1. Unresolved(SubSeq(t.base.spec, 1, done), cache')
            = Unresolved(SubSeq(t.base.spec, 1, done), cache)
      <4>1. /\ Len(SubSeq(t.base.spec, 1, done)) \in Nat
            /\ \A c \in Elements(SubSeq(t.base.spec, 1, done)) : cache[c] = cache'[c]
        BY <1>0, <1>3, PrefixElements
      <4> QED
        BY <4>1, UnresolvedSame
    <3> QED
      BY <2>1, <3>1 DEF UpTo
  <2>2. Right(t.obj) => Right(t.obj)'
    <3>1. Unresolved(t.obj.spec, cache') = Unresolved(t.obj.spec, cache)
      BY <1>0, <1>3, UnresolvedSame
    <3> QED
      BY <3>1 DEF Right
  <2> QED
    BY <1>3, <2>1, <2>2 DEF FoundOut
<1> QED
  BY <1>1, <1>2, <1>3

\* An object nobody touches stays settled.
LEMMA SettledKept ==
  ASSUME TypeOK, NEW k \in Keys, Settled(k), cache'[k] = cache[k], store'[k] = store[k],
         api'[k] = api[k] \/ cache[k] = Absent \/ api'[k] # cache[k],
         k \in Policies => Heard(cache[k].spec)
  PROVE  Settled(k)'
<1>1. CASE cache[k] = Absent \/ api'[k] # cache[k]
  BY <1>1 DEF Settled
<1>2. CASE cache[k] # Absent /\ api'[k] = cache[k]
  <2>1. store[k] = cache[k] /\ (k \in Policies => Noticed(cache[k]) \/ Right(cache[k]))
    BY <1>2 DEF Settled
  <2>2. cache[k] \in Objects(k)
    BY <1>2 DEF TypeOK, ObjectMap
  <2>3. k \in Policies => Noticed(cache[k])' \/ Right(cache[k])'
    <3>o. PICK o : o = cache[k]
      OBVIOUS
    <3>1. k \in Policies => Noticed(o)' \/ Right(o)'
      BY <2>1, <2>2, <3>o, RightKept
    <3> QED
      BY <3>o, <3>1 DEF Noticed, Right
  <2> QED
    BY <1>2, <2>1, <2>3 DEF Settled
<1> QED
  BY <1>1, <1>2

\* The policy that is held, when it is not what the step is about.
LEMMA HoldRightKept ==
  ASSUME NEW t, HoldOK(t), HoldRight(t), cache'[t.key] = cache[t.key],
         api'[t.key] = api[t.key] \/ api'[t.key] # t.base, Heard(t.base.spec)
  PROVE  HoldRight(t)'
<1>1. Noticed(t.base)' \/ FoundOut(t)'
  BY FoundOutKept DEF HoldRight
<1> QED
  BY <1>1 DEF HoldRight

\* A step that moves no worker, gives no request away, and leaves the cache
\* and State as they are, but for what is queued.
LEMMA FrameStep ==
  ASSUME TypeOK, Attended, Held, UNCHANGED <<task, store>>,
         \A v \in Workers : queue[v] \subseteq queue'[v],
         \A v \in Workers : \A k \in Own(v) :
           \/ k \in queue'[v]
           \/ /\ cache'[k] = cache[k]
              /\ api'[k] = api[k] \/ cache[k] = Absent \/ api'[k] # cache[k]
              /\ Working /\ policy.key = k => api'[k] = api[k] \/ api'[k] # policy.base
              /\ k \in Policies /\ cache[k] # Absent => Heard(cache[k].spec)
  PROVE  Attended' /\ Held'
<1>0. /\ \A v \in Workers : Own(v) \subseteq Keys
      /\ Own("backendTLSPolicies") = Policies /\ "backendTLSPolicies" \in Workers
  BY KeysFacts
<1>1. ASSUME NEW v \in Workers, NEW k \in Own(v)
      PROVE  (k \in queue[v] \/ Engaged(v, k) \/ Settled(k))'
  <2>1. k \in queue[v] \/ Engaged(v, k) \/ Settled(k)
    BY DEF Attended
  <2>2. CASE Engaged(v, k)
    BY <2>2 DEF Engaged
  <2>3. CASE Settled(k) /\ k \notin queue'[v]
    <3>1. /\ k \in Keys /\ cache'[k] = cache[k]
          /\ api'[k] = api[k] \/ cache[k] = Absent \/ api'[k] # cache[k]
          /\ k \in Policies /\ cache[k] # Absent => Heard(cache[k].spec)
      BY <1>0, <2>3
    <3>2. CASE cache[k] = Absent
      BY <2>3, <3>1, <3>2 DEF Settled
    <3>3. CASE cache[k] # Absent
      BY <2>3, <3>1, <3>3, SettledKept
    <3> QED
      BY <3>2, <3>3
  <2> QED
    BY <2>1, <2>2, <2>3
<1>2. ASSUME Working', (policy.key \notin queue["backendTLSPolicies"])'
      PROVE  HoldRight(policy)'
  <2>u. PICK u : u = policy
    OBVIOUS
  <2>1. policy' = u /\ u.pc \in PolicyPCs /\ u.key \notin queue'["backendTLSPolicies"]
    BY <1>2, <2>u DEF Working, policy
  <2>2. HoldOK(u) /\ u.key \in Policies
    BY <2>u, <2>1, PolicyFacts
  <2>3. HoldRight(u)
    BY <1>0, <2>u, <2>1 DEF Held, Working
  <2>4. cache[u.key] = u.base /\ u.base # Absent
    BY <1>0, <2>2, <2>3, AbsentAssumption, KeysFacts DEF HoldRight, HoldOK
  <2>5. /\ cache'[u.key] = cache[u.key]
        /\ api'[u.key] = api[u.key] \/ api'[u.key] # u.base
        /\ Heard(u.base.spec)
    BY <1>0, <2>u, <2>1, <2>2, <2>4 DEF Working
  <2>6. HoldRight(u)'
    BY <2>2, <2>3, <2>5, HoldRightKept
  <2> QED
    BY <2>1, <2>6 DEF HoldRight, FoundOut, UpTo, Right, Noticed
<1> QED
  BY <1>1, <1>2 DEF Attended, Held

\* An object that a user made or changed is none that anybody read before.
LEMMA FreshGeneration ==
  ASSUME TypeOK, NEW k \in Keys, Apply(k) \/ Remove(k)
  PROVE  /\ changes' = [changes EXCEPT ![k] = @ + 1]
         /\ \A j \in Keys : j # k => api'[j] = api[j]
         /\ api'[k] # Absent => api'[k].gen = changes[k] + 2
         /\ \A o : Numbered(k, o) /\ o # Absent => api'[k] # o
<1>0. changes[k] \in Nat /\ api = [j \in Keys |-> api[j]]
  BY DEF TypeOK, ObjectMap
<1>1. changes' = [changes EXCEPT ![k] = @ + 1]
  BY DEF Apply, Remove
<1>2. \A j \in Keys : j # k => api'[j] = api[j]
  BY <1>0 DEF Apply, Remove
<1>3. api'[k] # Absent => api'[k].gen = changes[k] + 2
  <2>1. CASE Apply(k)
    <3>1. PICK s \in SpecsOf(k) :
            \/ /\ api[k] = Absent
               /\ api' = [api EXCEPT ![k] = New(changes[k] + 2, s)]
            \/ /\ api[k] # Absent
               /\ api' = [api EXCEPT ![k].gen = changes[k] + 2, ![k].spec = s]
      BY <2>1 DEF Apply
    <3>2. CASE api[k] = Absent
      BY <1>0, <3>1, <3>2 DEF New
    <3>3. CASE api[k] # Absent
      <4>1. api[k] \in Objects(k)
        BY <3>3 DEF TypeOK, ObjectMap
      <4>2. api'[k] = [api[k] EXCEPT !.gen = changes[k] + 2, !.spec = s]
        BY <1>0, <3>1, <3>3
      <4> QED
        BY <4>1, <4>2 DEF Objects
    <3> QED
      BY <3>2, <3>3
  <2>2. CASE Remove(k)
    BY <1>0, <2>2 DEF Remove
  <2> QED
    BY <2>1, <2>2
<1>4. ASSUME NEW o, Numbered(k, o), o # Absent PROVE api'[k] # o
  <2>1. o.gen \in 0..(changes[k] + 1)
    BY <1>4 DEF Numbered
  <2>2. changes[k] + 2 \notin 0..(changes[k] + 1)
    BY <1>0
  <2> QED
    BY <1>3, <1>4, <2>1, <2>2
<1> QED
  BY <1>1, <1>2, <1>3, <1>4

----------------------------------------------------------------------------
(* The steps of users, of the informers and of the watch, and a restart. *)

\* A user's change makes an object that nobody has read.
LEMMA UserStep ==
  ASSUME TypeOK, RestInv, NEW k \in Keys, Apply(k) \/ Remove(k) PROVE RestInv'
<1>0. /\ UNCHANGED <<cache, noticed, queue, task, store>>
      /\ changes' = [changes EXCEPT ![k] = @ + 1] /\ changes \in [Keys -> Nat]
      /\ policy' = policy
  BY FreshGeneration DEF Apply, Remove, TypeOK, policy
<1>1. ASSUME NEW j \in Keys, NEW o, Numbered(j, o) PROVE Numbered(j, o)'
  BY <1>0, <1>1 DEF Numbered
<1>2. ASSUME NEW j \in Keys, NEW o, Numbered(j, o), o # Absent
      PROVE  api'[j] = api[j] \/ api'[j] # o
  BY <1>2, FreshGeneration
<1>3. Working => /\ policy.key \in Keys /\ policy.base # Absent
                 /\ Numbered(policy.key, policy.base)
  BY PolicyFacts, AbsentAssumption DEF Working, HoldOK, RestInv, AllNumbered
<1>4. AllNumbered'
  <2>1. ASSUME NEW j \in Keys PROVE Numbered(j, api[j])' /\ Numbered(j, cache[j])'
    <3>1. Numbered(j, cache[j])'
      BY <1>0, <1>1 DEF RestInv, AllNumbered
    <3>2. CASE j = k
      <4>1. changes'[k] = changes[k] + 1 /\ changes[k] \in Nat
        BY <1>0
      <4>2. api'[k] # Absent => api'[k].gen \in 0..(changes'[k] + 1)
        BY <4>1, FreshGeneration
      <4> QED
        BY <3>1, <3>2, <4>2 DEF Numbered
    <3>3. CASE j # k
      BY <1>0, <1>1, <3>3, FreshGeneration DEF RestInv, AllNumbered
    <3> QED
      BY <3>1, <3>2, <3>3
  <2>2. Working' => Numbered(policy.key, policy.base)'
    BY <1>0, <1>1, <1>3 DEF Working
  <2> QED
    BY <2>1, <2>2 DEF AllNumbered
<1>5. ASSUME NEW v \in Workers, NEW j \in Own(v)
      PROVE  /\ cache'[j] = cache[j]
             /\ api'[j] = api[j] \/ cache[j] = Absent \/ api'[j] # cache[j]
             /\ Working /\ policy.key = j => api'[j] = api[j] \/ api'[j] # policy.base
             /\ j \in Policies /\ cache[j] # Absent => Heard(cache[j].spec)
  <2>1. j \in Keys
    BY KeysFacts
  <2> QED
    BY <1>0, <1>2, <1>3, <2>1 DEF RestInv, AllNumbered, Heard
<1>6. Attended' /\ Held'
  BY <1>0, <1>5, FrameStep DEF RestInv
<1> QED
  BY <1>4, <1>6 DEF RestInv

\* An event that the informer delivers is a request, whatever was read before,
\* and that of a ConfigMap is noticed for the policies that refer to it.
LEMMA DeliverStep == ASSUME TypeOK, RestInv, NEW k \in Keys, Deliver(k) PROVE RestInv'
<1>0. /\ UNCHANGED <<api, task, store, changes>> /\ policy' = policy
      /\ cache' = [cache EXCEPT ![k] = api[k]] /\ cache = [j \in Keys |-> cache[j]]
      /\ queue' = [queue EXCEPT ![Owner(k)] = @ \union {k}]
      /\ queue = [v \in Workers |-> queue[v]]
      /\ noticed' = noticed \union ({k} \intersect ConfigMaps)
  BY DEF Deliver, TypeOK, ObjectMap, policy, counters
<1>1. AllNumbered'
  <2>1. Working' <=> Working
    BY <1>0 DEF Working
  <2>2. \A j \in Keys : cache'[j] \in {cache[j], api[j]}
    BY <1>0
  <2> QED
    BY <1>0, <2>1, <2>2 DEF RestInv, AllNumbered, Numbered
<1>2. \A v \in Workers : queue[v] \subseteq queue'[v]
  BY <1>0
<1>3. ASSUME NEW v \in Workers, k \in Own(v) PROVE k \in queue'[v]
  <2>1. v = Owner(k)
    BY <1>3, KeysFacts
  <2> QED
    BY <1>0, <2>1
<1>4. ASSUME NEW j \in Keys, j \in Policies, cache[j] # Absent PROVE Heard(cache[j].spec)
  <2>1. Elements(cache[j].spec) \subseteq ConfigMaps /\ ConfigMaps \subseteq Keys
    <3>1. cache[j].spec \in Seq(ConfigMaps)
      BY <1>4, KeysFacts DEF TypeOK, ObjectMap, Objects
    <3> QED
      BY <3>1 DEF Elements, Keys
  <2> QED
    BY <1>0, <2>1 DEF Heard
<1>5. ASSUME NEW v \in Workers, NEW j \in Own(v), j \notin queue'[v]
      PROVE  /\ cache'[j] = cache[j]
             /\ j \in Policies /\ cache[j] # Absent => Heard(cache[j].spec)
  <2>1. j \in Keys /\ j # k
    BY <1>3, <1>5, KeysFacts
  <2> QED
    BY <1>0, <1>4, <2>1
<1>6. Attended' /\ Held'
  BY <1>0, <1>2, <1>5, FrameStep DEF RestInv
<1> QED
  BY <1>1, <1>6 DEF RestInv

\* The event of a ConfigMap becomes a request for every policy that refers to it.
LEMMA MapEventStep == ASSUME TypeOK, RestInv, NEW c \in ConfigMaps, MapEvent(c) PROVE RestInv'
<1>w. PICK w : w = "backendTLSPolicies"
  OBVIOUS
<1>p. PICK ps : ps = {p \in Policies : cache[p] # Absent /\ c \in Elements(cache[p].spec)}
  OBVIOUS
<1>0. /\ UNCHANGED <<api, cache, task, store, changes>> /\ policy' = policy
      /\ queue' = [queue EXCEPT ![w] = @ \union ps]
      /\ queue = [v \in Workers |-> queue[v]] /\ w \in Workers
      /\ noticed' = noticed \ {c}
  BY <1>w, <1>p, KeysFacts DEF MapEvent, TypeOK, policy, counters
<1>1. AllNumbered'
  BY <1>0 DEF RestInv, AllNumbered, Numbered, Working
<1>2. \A v \in Workers : queue[v] \subseteq queue'[v]
  BY <1>0
<1>3. ASSUME NEW v \in Workers, NEW j \in Own(v), j \notin queue'[v]
      PROVE  j \in Policies /\ cache[j] # Absent => Heard(cache[j].spec)
  <2>1. j \in Policies => v = w
    BY <1>w, KeysFacts
  <2>2. j \in Policies => j \notin ps
    BY <1>0, <1>3, <2>1
  <2> QED
    BY <1>0, <1>p, <2>2 DEF Heard
<1>4. Attended' /\ Held'
  BY <1>0, <1>2, <1>3, FrameStep DEF RestInv
<1> QED
  BY <1>1, <1>4 DEF RestInv

\* Gateways and routes are in no verdict.
LEMMA OthersStep == ASSUME TypeOK, RestInv, OthersChange \/ UNCHANGED vars PROVE RestInv'
<1>0. UNCHANGED <<api, cache, noticed, queue, task, store, changes>> /\ policy' = policy
  BY DEF OthersChange, vars, policy
<1>1. AllNumbered'
  BY <1>0 DEF RestInv, AllNumbered, Numbered, Working
<1>2. \A s : Heard(s)
  BY <1>0 DEF Heard
<1>3. Attended' /\ Held'
  BY <1>0, <1>2, FrameStep DEF RestInv
<1> QED
  BY <1>1, <1>3 DEF RestInv

\* A process that starts lists every object that exists.
LEMMA StartedRest ==
  ASSUME TypeOK, cache = api, \A w \in Workers : task[w] = Idle,
         \A w \in Workers : queue[w] = Existing(api) \intersect Own(w),
         \A k \in Keys : store[k] = Absent
  PROVE  Attended /\ ~Working
<1>1. ~Working
  BY IdleFacts, PolicyFacts DEF Working, policy, PolicyPCs
<1>2. Attended
  BY KeysFacts DEF Attended, Settled, Existing
<1> QED
  BY <1>1, <1>2

LEMMA InitRestInv == Init => RestInv
<1> SUFFICES ASSUME Init PROVE RestInv
  OBVIOUS
<1>0. TypeOK
  BY InitTypeOK
<1>1. Attended /\ ~Working
  BY <1>0, StartedRest DEF Init
<1>2. ASSUME NEW k \in Keys, api[k] # Absent PROVE api[k].gen = 1
  BY <1>2 DEF Init, New
<1>3. AllNumbered
  BY <1>1, <1>2 DEF Init, AllNumbered, Numbered
<1> QED
  BY <1>1, <1>3 DEF RestInv, Held

LEMMA RestartStep == ASSUME TypeOK, RestInv, Restart PROVE RestInv'
<1>0. UNCHANGED <<api, changes>> /\ cache' = api
  BY DEF Restart
<1>1. \A w \in Workers : task'[w] = Idle
  BY DEF Restart
<1>2. ~Working'
  BY <1>1, IdleFacts, KeysFacts DEF Working, policy, PolicyPCs
<1>3. AllNumbered'
  BY <1>0, <1>2 DEF RestInv, AllNumbered, Numbered
<1>4. Attended'
  <2>1. ASSUME NEW w \in Workers, NEW k \in Own(w)
        PROVE  k \in queue'[w] \/ (cache'[k] = Absent /\ store'[k] = Absent)
    BY KeysFacts DEF Restart, Existing
  <2> QED
    BY <2>1 DEF Attended, Settled
<1> QED
  BY <1>2, <1>3, <1>4 DEF RestInv, Held

----------------------------------------------------------------------------
(* The steps of the workers. *)

\* A step of worker w that concerns no object but k.
LEMMA WorkerStep ==
  ASSUME TypeOK, RestInv, NEW w \in Workers, NEW k \in Own(w), NEW t,
         task' = [task EXCEPT ![w] = t], UNCHANGED <<cache, noticed, changes>>,
         \A j \in Keys : j # k => store'[j] = store[j] /\ api'[j] = api[j],
         Numbered(k, api'[k]),
         \A v \in Workers : queue[v] \ {k} \subseteq queue'[v],
         \A j : Engaged(w, j) => j = k,
         t.pc \in PolicyPCs => /\ w = "backendTLSPolicies" /\ Numbered(k, t.base)
                               /\ k \notin queue'[w] => HoldRight(t)',
         t.pc \in PolicyPCs \union {"get"} => t.key = k,
         t.pc \in PolicyPCs \union {"get"} \/ k \in queue'[w] \/ Settled(k)'
  PROVE  RestInv'
<1>0. /\ task'[w] = t /\ \A v \in Workers : v # w => task'[v] = task[v]
      /\ "backendTLSPolicies" \in Workers /\ Own("backendTLSPolicies") = Policies
      /\ \A v \in Workers : Own(v) \subseteq Keys
      /\ \A v, x \in Workers : v # x => Own(v) \intersect Own(x) = {}
  BY KeysFacts DEF TypeOK
<1>h. \A s : Heard(s)
  BY DEF Heard
<1>1. AllNumbered'
  <2>1. ASSUME NEW j \in Keys PROVE Numbered(j, api[j])' /\ Numbered(j, cache[j])'
    BY DEF RestInv, AllNumbered, Numbered
  <2>2. ASSUME Working' PROVE Numbered(policy.key, policy.base)'
    <3>1. CASE w = "backendTLSPolicies"
      BY <1>0, <2>2, <3>1 DEF Working, policy, Numbered
    <3>2. CASE w # "backendTLSPolicies"
      BY <1>0, <2>2, <3>2 DEF Working, policy, Numbered, RestInv, AllNumbered
    <3> QED
      BY <3>1, <3>2
  <2> QED
    BY <2>1, <2>2 DEF AllNumbered
<1>2. ASSUME NEW v \in Workers, NEW j \in Own(v)
      PROVE  (j \in queue[v] \/ Engaged(v, j) \/ Settled(j))'
  <2>1. CASE j = k
    <3>1. v = w
      BY <1>0, <2>1
    <3> QED
      BY <1>0, <2>1, <3>1 DEF Engaged
  <2>2. CASE j # k
    <3>1. j \in queue[v] \/ Engaged(v, j) \/ Settled(j)
      BY DEF RestInv, Attended
    <3>2. CASE j \in queue[v]
      BY <2>2, <3>2
    <3>3. CASE Engaged(v, j)
      BY <1>0, <2>2, <3>3 DEF Engaged
    <3>4. CASE Settled(j)
      BY <1>0, <1>h, <2>2, <3>4, SettledKept
    <3> QED
      BY <3>1, <3>2, <3>3, <3>4
  <2> QED
    BY <2>1, <2>2
<1>3. Held'
  <2>1. CASE w = "backendTLSPolicies"
    <3>1. policy' = t
      BY <1>0, <2>1 DEF policy
    <3> QED
      BY <2>1, <3>1 DEF Held, Working, HoldRight, FoundOut, UpTo, Right, Noticed
  <2>2. CASE w # "backendTLSPolicies"
    <3>u. PICK u : u = policy
      OBVIOUS
    <3>1. policy' = u /\ policy = u
      BY <1>0, <2>2, <3>u DEF policy
    <3>2. ASSUME u.pc \in PolicyPCs, u.key \notin queue'["backendTLSPolicies"]
          PROVE  HoldRight(u)'
      <4>1. HoldOK(u) /\ u.key \in Policies /\ u.key # k
        BY <1>0, <2>2, <3>1, <3>2, PolicyFacts
      <4>2. u.key \notin queue["backendTLSPolicies"]
        BY <1>0, <3>2, <4>1
      <4>3. HoldRight(u)
        BY <3>1, <3>2, <4>2 DEF RestInv, Held, Working
      <4> QED
        BY <1>0, <1>h, <4>1, <4>3, HoldRightKept
    <3> QED
      BY <3>1, <3>2 DEF Held, Working, HoldRight, FoundOut, UpTo, Right, Noticed
  <2> QED
    BY <2>1, <2>2
<1> QED
  BY <1>1, <1>2, <1>3 DEF RestInv, Attended

\* A worker that holds no object moves on, and leaves all else alone.
LEMMA HoldsNothing ==
  ASSUME TypeOK, RestInv, NEW w \in Workers, NEW t, task' = [task EXCEPT ![w] = t],
         UNCHANGED <<api, cache, noticed, changes, store, queue>>,
         task[w].pc \notin PolicyPCs \union {"get"}, t.pc \notin PolicyPCs
  PROVE  RestInv'
<1>0. /\ task'[w] = t /\ \A v \in Workers : v # w => task'[v] = task[v]
      /\ "backendTLSPolicies" \in Workers
  BY KeysFacts DEF TypeOK
<1>1. Working' => Working /\ policy' = policy
  BY <1>0 DEF Working, policy
<1>2. AllNumbered'
  BY <1>1 DEF RestInv, AllNumbered, Numbered
<1>3. ASSUME NEW v \in Workers, NEW j \in Own(v)
      PROVE  (j \in queue[v] \/ Engaged(v, j) \/ Settled(j))'
  <2>1. j \in queue[v] \/ Engaged(v, j) \/ Settled(j)
    BY DEF RestInv, Attended
  <2>2. Engaged(v, j) => Engaged(v, j)'
    BY <1>0 DEF Engaged
  <2>3. Settled(j) => Settled(j)'
    BY DEF Settled, Noticed, Right
  <2> QED
    BY <2>1, <2>2, <2>3
<1>4. Held'
  <2>1. HoldRight(policy) /\ policy' = policy => HoldRight(policy)'
    BY DEF HoldRight, FoundOut, UpTo, Right, Noticed
  <2> QED
    BY <1>1, <2>1 DEF Held, RestInv
<1> QED
  BY <1>2, <1>3, <1>4 DEF RestInv, Attended

\* A request is taken by the worker that serves it.
LEMMA TakeStep ==
  ASSUME TypeOK, RestInv, NEW w \in Workers, NEW k \in Keys, Take(w, k) PROVE RestInv'
<1>t. PICK t : t = [Idle EXCEPT !.pc = "get", !.key = k]
  OBVIOUS
<1>1. /\ k \in Own(w) /\ task[w] = Idle /\ task' = [task EXCEPT ![w] = t]
      /\ UNCHANGED <<api, cache, noticed, store, changes>>
      /\ queue' = [queue EXCEPT ![w] = @ \ {k}]
  BY <1>t DEF Take, TypeOK, counters
<1>2. t.pc = "get" /\ t.key = k /\ "get" \notin PolicyPCs
  BY <1>t, IdleFacts DEF Fields, PolicyPCs
<1>3. \A j : ~Engaged(w, j)
  BY <1>1, IdleFacts DEF Engaged, PolicyPCs
<1>4. Numbered(k, api'[k])
  BY <1>1 DEF RestInv, AllNumbered
<1>5. \A v \in Workers : queue[v] \ {k} \subseteq queue'[v]
  BY <1>1 DEF TypeOK
<1> QED
  BY <1>1, <1>2, <1>3, <1>4, <1>5, WorkerStep

\* updateProxy runs with no object in hand.
LEMMA UpdateProxyStep ==
  ASSUME TypeOK, RestInv, NEW w \in Workers,
         ReadPolicies(w) \/ ReadConfigMaps(w) \/ Publish(w)
  PROVE  RestInv'
<1>1. PICK t : task' = [task EXCEPT ![w] = t] /\ t.pc \in {"readConfigMaps", "publish", "idle"}
  <2>0. TaskOK(w, task[w]) /\ DOMAIN task[w] = Fields /\ task = [v \in Workers |-> task[v]]
    BY IdleFacts DEF TypeOK, TaskOK
  <2>1. CASE ReadPolicies(w)
    <3>c. PICK c : c = Content("backendTLSPolicies")
      OBVIOUS
    <3>t. PICK t : t = [task[w] EXCEPT !.pc = "readConfigMaps", !.snap["backendTLSPolicies"] = c]
      OBVIOUS
    <3>1. task' = [task EXCEPT ![w] = t] /\ t.pc = "readConfigMaps"
      BY <2>0, <2>1, <3>c, <3>t DEF ReadPolicies, Fields
    <3> QED
      BY <3>1
  <2>2. CASE ReadConfigMaps(w)
    <3>c. PICK c : c = Content("configMaps")
      OBVIOUS
    <3>t. PICK t : t = [task[w] EXCEPT !.pc = "publish", !.snap["configMaps"] = c]
      OBVIOUS
    <3>1. task' = [task EXCEPT ![w] = t] /\ t.pc = "publish"
      BY <2>0, <2>2, <3>c, <3>t DEF ReadConfigMaps, Fields
    <3> QED
      BY <3>1
  <2>3. CASE Publish(w)
    BY <2>3, IdleFacts DEF Publish
  <2> QED
    BY <2>1, <2>2, <2>3
<1>2. UNCHANGED <<api, cache, noticed, changes, store, queue>>
  BY DEF ReadPolicies, ReadConfigMaps, Publish, counters
<1>3. task[w].pc \notin PolicyPCs \union {"get"} /\ t.pc \notin PolicyPCs
  BY <1>1 DEF ReadPolicies, ReadConfigMaps, Publish, PolicyPCs
<1> QED
  BY <1>1, <1>2, <1>3, HoldsNothing

\* The task after a store: updateProxy is next.
LEMMA UpdateFacts == [Idle EXCEPT !.pc = "readPolicies"].pc \notin PolicyPCs \union {"get"}
  BY IdleFacts DEF Fields, PolicyPCs

\* What was read, or its absence, is in State.
LEMMA StoredStep ==
  ASSUME TypeOK, RestInv, NEW w \in Workers,
         Gone(w) \/ (w = "configMaps" /\ ConfigMapFound)
  PROVE  RestInv'
<1>k. PICK k : k = task[w].key
  OBVIOUS
<1>t. PICK t : t = [Idle EXCEPT !.pc = "readPolicies"]
  OBVIOUS
<1>1. /\ task[w].pc = "get" /\ task' = [task EXCEPT ![w] = t]
      /\ UNCHANGED <<api, cache, noticed, queue, changes>>
      /\ store' = [store EXCEPT ![k] = cache[k]]
      /\ cache[k] = Absent \/ w = "configMaps"
  BY <1>k, <1>t DEF Gone, ConfigMapFound, Update, counters
<1>2. k \in Own(w) /\ k \in Keys /\ store = [j \in Keys |-> store[j]]
  BY <1>k, <1>1, KeysFacts DEF TypeOK, TaskOK, ObjectMap
<1>3. Settled(k)'
  <2>1. cache[k] # Absent => k \notin Policies
    BY <1>1, <1>2, KeysFacts
  <2> QED
    BY <1>1, <1>2, <2>1 DEF Settled
<1>4. \A j : Engaged(w, j) => j = k
  BY <1>k DEF Engaged
<1>5. Numbered(k, api'[k])
  BY <1>1, <1>2 DEF RestInv, AllNumbered
<1>6. t.pc \notin PolicyPCs \union {"get"}
  BY <1>t, UpdateFacts
<1>7. /\ \A j \in Keys : j # k => store'[j] = store[j] /\ api'[j] = api[j]
      /\ \A v \in Workers : queue[v] \ {k} \subseteq queue'[v]
  BY <1>1, <1>2
<1> QED
  BY <1>1, <1>2, <1>3, <1>4, <1>5, <1>6, <1>7, WorkerStep

----------------------------------------------------------------------------
(* The steps of BackendTLSPolicyReconciler. *)

\* A step from u, the task of the policies' worker, to t, that leaves State, the
\* API server, the cache and the queues alone.
LEMMA PolicyGoesOnRest ==
  ASSUME TypeOK, RestInv, NEW u, NEW t, u = policy, Continue(t),
         u.pc \in PolicyPCs \union {"get"}, u.key \in Policies, t.pc \in PolicyPCs,
         t.key = u.key, Numbered(u.key, t.base),
         u.key \notin queue["backendTLSPolicies"] => HoldRight(t)'
  PROVE  RestInv'
<1>w. PICK w : w = "backendTLSPolicies"
  OBVIOUS
<1>k. PICK k : k = u.key
  OBVIOUS
<1>1. /\ task' = [task EXCEPT ![w] = t]
      /\ UNCHANGED <<api, cache, noticed, queue, store, changes>>
  BY <1>w DEF Continue, counters
<1>2. w \in Workers /\ k \in Own(w) /\ k \in Keys
  BY <1>w, <1>k, KeysFacts
<1>3. \A j : Engaged(w, j) => j = k
  BY <1>w, <1>k DEF Engaged, policy
<1>4. Numbered(k, api'[k])
  BY <1>1, <1>2 DEF RestInv, AllNumbered
<1> QED
  BY <1>w, <1>k, <1>1, <1>2, <1>3, <1>4, WorkerStep

\* A policy is read: the cache agrees, and no reference has been looked at.
LEMMA PolicyFoundRest == ASSUME TypeOK, RestInv, PolicyFound PROVE RestInv'
<1>u. PICK u : u = policy
  OBVIOUS
<1>o. PICK o : o = cache[u.key]
  OBVIOUS
<1>t. PICK t : t = [u EXCEPT !.pc = "ways", !.base = o, !.obj = o, !.left = o.spec,
                             !.gateways = known]
  OBVIOUS
<1>1. u.pc = "get" /\ o # Absent /\ Continue(t)
  BY <1>u, <1>o, <1>t DEF PolicyFound, Continue
<1>2. u.key \in Policies /\ u.key \in Keys /\ DOMAIN u = Fields /\ u.unresolved = <<>>
  <2>1. u = [Idle EXCEPT !.pc = "get", !.key = u.key] /\ u.key \in Policies
    BY <1>u, <1>1, PolicyFacts DEF TaskOK
  <2> QED
    BY <1>u, <2>1, IdleFacts, PolicyFacts DEF Fields
<1>3. /\ t.pc = "ways" /\ t.key = u.key /\ t.base = o /\ t.obj = o
      /\ t.left = o.spec /\ t.unresolved = <<>>
  BY <1>2, <1>t DEF Fields
<1>4. o.spec \in Seq(ConfigMaps)
  BY <1>o, <1>1, <1>2, KeysFacts DEF TypeOK, ObjectMap, Objects
<1>5. UpTo(t.left, t.unresolved, t.base, 0)'
  <2>1. o.spec = SubSeq(o.spec, 0 + 1, Len(o.spec)) /\ SubSeq(o.spec, 1, 0) = <<>>
    BY <1>4, SubSeqFull, SubSeqEmpty
  <2>2. Unresolved(<<>>, cache') = <<>>
    BY UnresolvedNone, EmptySeq
  <2> QED
    BY <1>3, <2>1, <2>2 DEF UpTo
<1>6. HoldRight(t)'
  <2>1. cache' = cache /\ 0 \in 0..Len(o.spec)
    BY <1>1, <1>4, LenProperties DEF Continue
  <2> QED
    BY <1>o, <1>3, <1>5, <2>1 DEF HoldRight, FoundOut
<1>7. Numbered(u.key, t.base)
  BY <1>o, <1>2, <1>3 DEF RestInv, AllNumbered
<1> QED
  BY <1>u, <1>1, <1>2, <1>3, <1>6, <1>7, PolicyGoesOnRest DEF PolicyPCs

\* What is known of the task of a policy between two steps.
LEMMA HeldFacts ==
  ASSUME TypeOK, RestInv, NEW u, u = policy, u.pc \in PolicyPCs
  PROVE  /\ HoldOK(u) /\ TaskOK("backendTLSPolicies", u) /\ DOMAIN u = Fields
         /\ u.key \in Policies /\ u.key \in Keys
         /\ u.base.spec \in Seq(ConfigMaps) /\ Len(u.base.spec) \in Nat
         /\ Numbered(u.key, u.base)
         /\ u.key \notin queue["backendTLSPolicies"] => HoldRight(u)
<1>1. HoldOK(u) /\ TaskOK("backendTLSPolicies", u) /\ DOMAIN u = Fields /\ u.key \in Policies
  BY PolicyFacts
<1>2. u.base.spec \in Seq(ConfigMaps) /\ Len(u.base.spec) \in Nat
  BY <1>1, KeysFacts, LenProperties DEF HoldOK, Objects
<1> QED
  BY <1>1, <1>2, KeysFacts DEF RestInv, AllNumbered, Held, Working

\* The routes are copied.
LEMMA CopyRoutesRest == ASSUME TypeOK, RestInv, CopyRoutes PROVE RestInv'
<1>u. PICK u : u = policy
  OBVIOUS
<1>l. PICK l : l = leads[u.key]
  OBVIOUS
<1>t. PICK t : t = [u EXCEPT !.pc = "check", !.ways = l]
  OBVIOUS
<1>1. u.pc = "ways" /\ u.pc \in PolicyPCs /\ Continue(t)
  BY <1>u, <1>l, <1>t DEF CopyRoutes, Continue, PolicyPCs
<1>2. /\ t.pc = "check" /\ t.key = u.key /\ t.base = u.base /\ t.obj = u.obj
      /\ t.left = u.left /\ t.unresolved = u.unresolved
  BY <1>u, <1>t, <1>1, HeldFacts DEF Fields
<1>3. ASSUME u.key \notin queue["backendTLSPolicies"] PROVE HoldRight(t)'
  <2>1. HoldRight(u) /\ UNCHANGED <<cache, api, noticed>>
    BY <1>u, <1>1, <1>3, HeldFacts DEF Continue
  <2> QED
    BY <1>1, <1>2, <2>1 DEF HoldRight, FoundOut, UpTo, Noticed
<1> QED
  BY <1>u, <1>1, <1>2, <1>3, HeldFacts, PolicyGoesOnRest DEF PolicyPCs

\* What a reference that is looked up adds to those that do not resolve.
Added(before, c, m) == IF Resolves(c, m) THEN before ELSE Append(before, c)

\* One reference is looked up, in the cache as it is.
LooksUp(spec, done, left, m) ==
  /\ done + 1 \in 0..Len(spec)
  /\ Tail(left) = SubSeq(spec, (done + 1) + 1, Len(spec))
  /\ Unresolved(SubSeq(spec, 1, done + 1), m) =
       Added(Unresolved(SubSeq(spec, 1, done), m), Head(left), m)

LEMMA LookUp ==
  ASSUME NEW spec \in Seq(ConfigMaps), NEW done \in 0..Len(spec), NEW left, left # <<>>,
         left = SubSeq(spec, done + 1, Len(spec)), NEW m
  PROVE  LooksUp(spec, done, left, m)
<1>1. Len(spec) \in Nat /\ done # Len(spec)
  BY LenProperties, SubSeqEmpty
<1>2. done + 1 \in 1..Len(spec) /\ Len(spec) \in (done + 1)..Len(spec) /\ done < Len(spec)
  BY <1>1
<1>3. Head(left) = spec[done + 1] /\ Tail(left) = SubSeq(spec, (done + 1) + 1, Len(spec))
  BY <1>2, HeadTailOfSubSeq
<1> QED
  BY <1>2, <1>3, UnresolvedNext DEF Added, LooksUp

LEMMA CheckReferenceRest == ASSUME TypeOK, RestInv, CheckReference PROVE RestInv'
<1>u. PICK u : u = policy
  OBVIOUS
<1>n. PICK n : n = IF Resolves(Head(u.left), cache) THEN u.unresolved
                   ELSE Append(u.unresolved, Head(u.left))
  OBVIOUS
<1>t. PICK t : t = [u EXCEPT !.left = Tail(u.left), !.unresolved = n]
  OBVIOUS
<1>0. u.pc = "check" /\ u.pc \in PolicyPCs /\ u.left # <<>>
  BY <1>u DEF CheckReference, PolicyPCs
<1>1. Continue(t)
  BY <1>u, <1>n, <1>t, PolicyFacts DEF CheckReference, Continue, Fields
<1>2. /\ t.pc = "check" /\ t.key = u.key /\ t.base = u.base /\ t.obj = u.obj
      /\ t.left = Tail(u.left) /\ t.unresolved = n
  BY <1>u, <1>t, <1>0, HeldFacts DEF Fields
<1>3. ASSUME u.key \notin queue["backendTLSPolicies"] PROVE HoldRight(t)'
  <2>1. HoldRight(u) /\ UNCHANGED <<cache, api, noticed>>
    BY <1>u, <1>0, <1>1, <1>3, HeldFacts DEF Continue
  <2>2. CASE Noticed(u.base)
    BY <1>0, <1>2, <2>1, <2>2 DEF HoldRight, Noticed
  <2>3. CASE FoundOut(u)
    <3>1. PICK done \in 0..Len(u.base.spec) : UpTo(u.left, u.unresolved, u.base, done)
      BY <1>0, <2>3 DEF FoundOut
    <3>2. /\ done + 1 \in 0..Len(u.base.spec)
          /\ Tail(u.left) = SubSeq(u.base.spec, (done + 1) + 1, Len(u.base.spec))
          /\ Unresolved(SubSeq(u.base.spec, 1, done + 1), cache)
               = Added(u.unresolved, Head(u.left), cache)
      <4>1. u.base.spec \in Seq(ConfigMaps)
        BY <1>u, <1>0, HeldFacts
      <4>2. /\ u.left = SubSeq(u.base.spec, done + 1, Len(u.base.spec))
            /\ u.unresolved = Unresolved(SubSeq(u.base.spec, 1, done), cache)
        BY <3>1 DEF UpTo
      <4>s. PICK s : s = u.base.spec
        OBVIOUS
      <4>l. PICK l : l = u.left
        OBVIOUS
      <4>3. /\ s \in Seq(ConfigMaps) /\ done \in 0..Len(s) /\ l # <<>>
            /\ l = SubSeq(s, done + 1, Len(s))
        BY <1>0, <4>1, <4>2, <4>s, <4>l
      <4>4. LooksUp(s, done, l, cache)
        BY <4>3, LookUp
      <4>5. /\ done + 1 \in 0..Len(s)
            /\ Tail(l) = SubSeq(s, (done + 1) + 1, Len(s))
            /\ Unresolved(SubSeq(s, 1, done + 1), cache)
                 = Added(Unresolved(SubSeq(s, 1, done), cache), Head(l), cache)
        BY <4>4 DEF LooksUp
      <4> QED
        BY <4>2, <4>s, <4>l, <4>5
    <3>3. UpTo(t.left, t.unresolved, t.base, done + 1)'
      BY <1>n, <1>2, <2>1, <3>2 DEF UpTo, Added
    <3>4. FoundOut(t)'
      BY <1>2, <3>2, <3>3 DEF FoundOut
    <3> QED
      BY <1>0, <1>2, <2>1, <3>4 DEF HoldRight
  <2> QED
    BY <2>1, <2>2, <2>3 DEF HoldRight
<1> QED
  BY <1>u, <1>0, <1>1, <1>2, <1>3, HeldFacts, PolicyGoesOnRest DEF PolicyPCs

\* A status that is computed is right about what was found out.
LEMMA ComputedFacts ==
  ASSUME TypeOK, NEW u, u = policy, u.pc = "check", NEW new \in NewStatuses
  PROVE  \A i \in 1..Len(new) : new[i].obs = u.base.gen /\ new[i].unresolved = u.unresolved
<1>1. PICK ways : \E order \in Orders(u.gateways \intersect ways) :
                    new = Ancestors(order, u.unresolved, u.base.gen)
  BY DEF NewStatuses
<1>2. PICK order \in Orders(u.gateways \intersect ways) :
             new = Ancestors(order, u.unresolved, u.base.gen)
  BY <1>1
<1>3. DOMAIN new = DOMAIN order
  BY <1>2 DEF Ancestors
<1>4. new \in Statuses
  BY NewStatusesOK
<1>5. DOMAIN new = 1..Len(new)
  BY <1>4, LenProperties DEF Statuses
<1> QED
  BY <1>2, <1>3, <1>5 DEF Ancestors

\* The status is computed once all the references have been looked at.
LEMMA ComputeRest ==
  ASSUME TypeOK, RestInv, ComputeKept \/ ComputeChanged PROVE RestInv'
<1>u. PICK u : u = policy
  OBVIOUS
<1>0. u.pc = "check" /\ u.pc \in PolicyPCs /\ u.left = <<>>
  BY <1>u DEF ComputeKept, ComputeChanged, Checked, PolicyPCs
<1>n. PICK new \in NewStatuses : \E t :
        /\ Continue(t)
        /\ \/ t = [u EXCEPT !.pc = "store"] /\ new = u.base.status
           \/ t = [u EXCEPT !.pc = "put", !.obj.status = new] /\ new # u.base.status
  <2>1. CASE ComputeKept
    BY <1>u, <2>1 DEF ComputeKept
  <2>2. CASE ComputeChanged
    BY <1>u, <2>2 DEF ComputeChanged
  <2> QED
    BY <2>1, <2>2
<1>1. PICK t :
        /\ Continue(t)
        /\ \/ t = [u EXCEPT !.pc = "store"] /\ new = u.base.status
           \/ t = [u EXCEPT !.pc = "put", !.obj.status = new] /\ new # u.base.status
  BY <1>n
<1>2. t.pc \in {"store", "put"} /\ t.key = u.key /\ t.base = u.base
  BY <1>u, <1>0, <1>1, HeldFacts DEF Fields
<1>3. ASSUME u.key \notin queue["backendTLSPolicies"] PROVE HoldRight(t)'
  <2>1. HoldRight(u) /\ UNCHANGED <<cache, api, noticed>> /\ HoldOK(u) /\ DOMAIN u = Fields
    BY <1>u, <1>0, <1>1, <1>3, HeldFacts DEF Continue
  <2>2. u.obj = u.base /\ u.base \in Objects(u.key)
    BY <1>0, <2>1 DEF HoldRight, HoldOK
  <2>3. /\ t.obj.gen = u.base.gen /\ t.obj.spec = u.base.spec /\ t.obj.status = new
        /\ t.pc = "store" => t.obj = u.base
        /\ t.pc = "put" => new # u.base.status
    <3>b. PICK b : b = u.base
      OBVIOUS
    <3>0. b = u.obj /\ DOMAIN b = {"gen", "spec", "status"}
      BY <2>2, <3>b DEF Objects
    <3>1. CASE t = [u EXCEPT !.pc = "store"] /\ new = u.base.status
      <4>1. t.pc = "store" /\ t.obj = b
        BY <2>1, <3>0, <3>1 DEF Fields
      <4> QED
        BY <3>1, <3>b, <4>1
    <3>2. CASE t = [u EXCEPT !.pc = "put", !.obj.status = new] /\ new # u.base.status
      <4>1. t.pc = "put" /\ t.obj = [b EXCEPT !.status = new]
        BY <2>1, <3>0, <3>2 DEF Fields
      <4>2. t.obj.gen = b.gen /\ t.obj.spec = b.spec /\ t.obj.status = new
        BY <3>0, <4>1
      <4> QED
        BY <3>2, <3>b, <4>1, <4>2
    <3> QED
      BY <1>1, <3>1, <3>2
  <2>4. CASE Noticed(u.base)
    BY <1>2, <2>1, <2>3, <2>4 DEF HoldRight, Noticed
  <2>5. CASE FoundOut(u)
    <3>1. PICK done \in 0..Len(u.base.spec) : UpTo(u.left, u.unresolved, u.base, done)
      BY <1>0, <2>5 DEF FoundOut
    <3>2. u.unresolved = Unresolved(u.base.spec, cache)
      <4>s. PICK s : s = u.base.spec
        OBVIOUS
      <4>1. s \in Seq(ConfigMaps) /\ Len(s) \in Nat /\ \A i \in 1..Len(s) : s[i] \in ConfigMaps
        BY <1>u, <1>0, <4>s, HeldFacts, LenProperties
      <4>2. SubSeq(s, done + 1, Len(s)) = <<>> /\ done \in 0..Len(s)
        BY <1>0, <3>1, <4>s DEF UpTo
      <4>3. done = Len(s)
        <5>1. ASSUME done < Len(s) PROVE FALSE
          <6>1. Len(SubSeq(s, done + 1, Len(s))) = Len(s) - (done + 1) + 1
            BY <4>1, <4>2, <5>1, SubSeqProperties
          <6>2. Len(<<>>) = 0
            OBVIOUS
          <6>3. Len(s) - (done + 1) + 1 = 0
            BY <4>2, <6>1, <6>2
          <6> QED
            BY <4>1, <4>2, <5>1, <6>3
        <5> QED
          BY <4>1, <4>2, <5>1
      <4>4. SubSeq(s, 1, done) = s
        BY <4>1, <4>3, SubSeqFull
      <4> QED
        BY <3>1, <4>s, <4>4 DEF UpTo
    <3>3. \A i \in 1..Len(new) : new[i].obs = u.base.gen /\ new[i].unresolved = u.unresolved
      BY <1>u, <1>0, ComputedFacts
    <3>4. Right(t.obj)'
      BY <2>1, <2>3, <3>2, <3>3 DEF Right
    <3>5. FoundOut(t)'
      BY <1>2, <3>4 DEF FoundOut
    <3> QED
      BY <1>2, <2>1, <2>3, <3>5 DEF HoldRight
  <2> QED
    BY <2>1, <2>4, <2>5 DEF HoldRight
<1>4. t.pc \in PolicyPCs
  BY <1>2 DEF PolicyPCs
<1> QED
  BY <1>u, <1>0, <1>1, <1>2, <1>3, <1>4, HeldFacts, PolicyGoesOnRest

\* The status write is taken, and makes the cache out of date; or it is not,
\* or its outcome not known, and the worker is called again.
LEMMA PutRest ==
  ASSUME TypeOK, RestInv, PutAccepted \/ PutRejected \/ PutFailed PROVE RestInv'
<1>w. PICK w : w = "backendTLSPolicies"
  OBVIOUS
<1>u. PICK u : u = policy
  OBVIOUS
<1>k. PICK k : k = u.key
  OBVIOUS
<1>0. /\ u.pc = "put" /\ u.pc \in PolicyPCs
      /\ w \in Workers /\ k \in Own(w) /\ k \in Keys
      /\ HoldOK(u) /\ DOMAIN u = Fields /\ Numbered(k, u.base)
      /\ api = [j \in Keys |-> api[j]] /\ task = [v \in Workers |-> task[v]]
      /\ queue = [v \in Workers |-> queue[v]] /\ u = task[w]
  <2>1. u.pc = "put" /\ u.pc \in PolicyPCs
    BY <1>u DEF PutAccepted, PutRejected, PutFailed, PolicyPCs
  <2> QED
    BY <1>w, <1>u, <1>k, <2>1, HeldFacts, KeysFacts DEF TypeOK, ObjectMap, policy
<1>1. \A j \in Keys : j # k => store'[j] = store[j] /\ api'[j] = api[j]
  BY <1>u, <1>k, <1>0 DEF PutAccepted, PutRejected, PutFailed
<1>2. Numbered(k, api'[k])
  <2>1. u.obj.gen = u.base.gen /\ u.base # Absent
    BY <1>0, <1>k, AbsentAssumption DEF HoldOK, Objects
  <2>2. api'[k] \in {api[k], u.obj}
    BY <1>u, <1>k, <1>0 DEF PutAccepted, PutRejected, PutFailed
  <2>3. Numbered(k, api[k])
    BY <1>0 DEF RestInv, AllNumbered
  <2> QED
    BY <1>0, <2>1, <2>2, <2>3 DEF Numbered
<1>3. \A j : Engaged(w, j) => j = k
  BY <1>u, <1>k, <1>0 DEF Engaged
<1>4. UNCHANGED <<cache, noticed, changes>>
  BY DEF PutAccepted, PutRejected, PutFailed, counters
<1>5. CASE PutAccepted
  <2>t. PICK t : t = [u EXCEPT !.pc = "store"]
    OBVIOUS
  <2>1. /\ task' = [task EXCEPT ![w] = t] /\ queue' = queue
        /\ api' = [api EXCEPT ![k] = u.obj]
    BY <1>w, <1>u, <1>k, <1>0, <1>5, <2>t DEF PutAccepted
  <2>2. t.pc = "store" /\ t.key = k /\ t.base = u.base /\ t.obj = u.obj
    BY <1>k, <1>0, <2>t DEF Fields
  <2>3. ASSUME k \notin queue'[w] PROVE HoldRight(t)'
    <3>1. HoldRight(u) /\ u.obj.status # u.base.status
      BY <1>w, <1>u, <1>k, <1>0, <2>1, <2>3, HeldFacts DEF HoldRight
    <3>2. api'[k] # u.base
      BY <1>0, <2>1, <3>1
    <3>3. cache[k] = u.base /\ (Noticed(u.base) \/ Right(u.obj))
      BY <1>k, <1>0, <3>1 DEF HoldRight, FoundOut
    <3>4. (Noticed(t.base) \/ Right(t.obj))'
      BY <1>4, <2>2, <3>3 DEF Noticed, Right
    <3> QED
      BY <1>4, <2>2, <3>2, <3>3, <3>4 DEF HoldRight, FoundOut
  <2>4. t.pc \in PolicyPCs
    BY <2>2 DEF PolicyPCs
  <2> QED
    BY <1>w, <1>0, <1>1, <1>2, <1>3, <1>4, <2>1, <2>2, <2>3, <2>4, WorkerStep
<1>6. CASE PutRejected \/ PutFailed
  <2>1. /\ task' = [task EXCEPT ![w] = Idle]
        /\ queue' = [queue EXCEPT ![w] = @ \union {k}]
    BY <1>w, <1>u, <1>k, <1>6 DEF PutRejected, PutFailed, ReturnError
  <2>2. Idle.pc \notin PolicyPCs \union {"get"}
    BY IdleFacts DEF PolicyPCs
  <2>3. k \in queue'[w] /\ \A v \in Workers : queue[v] \ {k} \subseteq queue'[v]
    BY <1>0, <2>1
  <2> QED
    BY <1>0, <1>1, <1>2, <1>3, <1>4, <2>1, <2>2, <2>3, WorkerStep
<1> QED
  BY <1>5, <1>6

\* The policy is stored: as the cache has it, unless the cache is behind.
LEMMA PolicyStoreRest == ASSUME TypeOK, RestInv, PolicyStore PROVE RestInv'
<1>w. PICK w : w = "backendTLSPolicies"
  OBVIOUS
<1>u. PICK u : u = policy
  OBVIOUS
<1>k. PICK k : k = u.key
  OBVIOUS
<1>t. PICK t : t = [Idle EXCEPT !.pc = "readPolicies"]
  OBVIOUS
<1>0. /\ u.pc = "store" /\ u.pc \in PolicyPCs /\ u = task[w]
      /\ w \in Workers /\ k \in Own(w) /\ k \in Keys /\ k \in Policies
      /\ HoldOK(u) /\ u.base # Absent /\ store = [j \in Keys |-> store[j]]
  <2>1. u.pc = "store" /\ u.pc \in PolicyPCs
    BY <1>u DEF PolicyStore, PolicyPCs
  <2> QED
    BY <1>w, <1>u, <1>k, <2>1, HeldFacts, KeysFacts, AbsentAssumption
       DEF TypeOK, ObjectMap, policy, HoldOK
<1>1. /\ task' = [task EXCEPT ![w] = t] /\ store' = [store EXCEPT ![k] = u.obj]
      /\ UNCHANGED <<api, cache, noticed, queue, changes>>
  BY <1>w, <1>u, <1>k, <1>t DEF PolicyStore, Update, counters
<1>2. k \in queue'[w] \/ Settled(k)'
  <2>1. ASSUME k \notin queue[w] PROVE Settled(k)'
    <3>1. HoldRight(u)
      BY <1>w, <1>u, <1>k, <1>0, <2>1, HeldFacts
    <3>2. /\ cache[k] = u.base /\ (u.obj = u.base \/ api[k] # u.base)
          /\ Noticed(u.base) \/ Right(u.obj)
      BY <1>k, <1>0, <3>1 DEF HoldRight, FoundOut
    <3>3. store'[k] = u.obj
      BY <1>0, <1>1
    <3>4. CASE api[k] # u.base
      BY <1>0, <1>1, <3>2, <3>4 DEF Settled
    <3>5. CASE u.obj = u.base
      <4>1. (Noticed(u.base) \/ Right(u.base))'
        BY <1>1, <3>2, <3>5 DEF Noticed, Right
      <4>2. store'[k] = u.base /\ cache'[k] = u.base /\ u.base # Absent
        BY <1>0, <1>1, <3>2, <3>3, <3>5
      <4> QED
        BY <4>1, <4>2 DEF Settled, Noticed, Right
    <3> QED
      BY <3>2, <3>4, <3>5
  <2> QED
    BY <1>1, <2>1
<1>3. \A j : Engaged(w, j) => j = k
  BY <1>u, <1>k, <1>0 DEF Engaged
<1>4. Numbered(k, api'[k])
  BY <1>0, <1>1 DEF RestInv, AllNumbered
<1>5. t.pc \notin PolicyPCs \union {"get"}
  BY <1>t, UpdateFacts
<1>6. /\ \A j \in Keys : j # k => store'[j] = store[j] /\ api'[j] = api[j]
      /\ \A v \in Workers : queue[v] \ {k} \subseteq queue'[v]
  BY <1>0, <1>1
<1> QED
  BY <1>0, <1>1, <1>2, <1>3, <1>4, <1>5, <1>6, WorkerStep

----------------------------------------------------------------------------

LEMMA RestStep == TypeOK /\ RestInv /\ [Next]_vars => RestInv'
<1> SUFFICES ASSUME TypeOK, RestInv, [Next]_vars PROVE RestInv'
  OBVIOUS
<1>1. CASE OthersChange \/ UNCHANGED vars
  BY <1>1, OthersStep
<1>2. CASE \/ \E k \in Keys : Apply(k) \/ Remove(k) \/ Deliver(k)
           \/ \E c \in ConfigMaps : MapEvent(c)
           \/ Restart
  BY <1>2, UserStep, DeliverStep, MapEventStep, RestartStep
<1>3. CASE PutFailed
  BY <1>3, PutRest
<1>4. ASSUME NEW w \in Workers, Reconcile(w) \/ \E k \in Keys : Take(w, k) PROVE RestInv'
  BY <1>4, TakeStep, UpdateProxyStep, StoredStep, PolicyFoundRest, CopyRoutesRest,
     CheckReferenceRest, ComputeRest, PutRest, PolicyStoreRest DEF Reconcile
<1> QED
  BY <1>1, <1>2, <1>3, <1>4 DEF Next

LEMMA RestInvariance == FairSpec => [](TypeOK /\ RestInv)
  BY InitTypeOK, InitRestInv, TypeStep, RestStep, PTL DEF FairSpec

\* At rest every object is settled.
LEMMA RestSettled ==
  ASSUME TypeOK, RestInv, AtRest, NEW k \in Keys
  PROVE  /\ store[k] = api[k]
         /\ k \in Policies /\ api[k] # Absent => Right(api[k])
<1>1. \A w \in Workers : task[w].pc = "idle" /\ queue[w] = {}
  BY IdleFacts DEF AtRest
<1>2. \A w \in Workers : ~Engaged(w, k)
  BY <1>1 DEF Engaged, PolicyPCs
<1>3. Owner(k) \in Workers /\ k \in Own(Owner(k))
  BY KeysFacts
<1>4. Settled(k)
  BY <1>1, <1>2, <1>3 DEF RestInv, Attended
<1>5. ~Noticed(cache[k])
  BY DEF AtRest, Noticed
<1> QED
  BY <1>4, <1>5 DEF AtRest, Settled

\* At rest State holds what the API server does, for any history of users,
\* errors and restarts: a policy that was read before it changed again, or
\* whose status was refused, is read and stored once more.
THEOREM MirrorsAtRest == FairSpec => []MirrorAtRest
<1>1. TypeOK /\ RestInv => MirrorAtRest
  <2> SUFFICES ASSUME TypeOK, RestInv, AtRest PROVE store = api
    BY DEF MirrorAtRest
  <2>1. \A k \in Keys : store[k] = api[k]
    BY RestSettled
  <2> QED
    BY <2>1 DEF TypeOK, ObjectMap
<1> QED
  BY <1>1, RestInvariance, PTL

\* At rest the conditions of every policy speak of its current generation and
\* of the ConfigMaps as they are, whichever changed while its references were
\* looked up: the watch makes up for it.
THEOREM VerdictsAtRest == FairSpec => []VerdictAtRest
<1>1. TypeOK /\ RestInv => VerdictAtRest
  <2> SUFFICES ASSUME TypeOK, RestInv, AtRest,
                      NEW p \in {k \in Policies : api[k] # Absent},
                      NEW i \in 1..Len(api[p].status)
               PROVE  /\ api[p].status[i].obs = api[p].gen
                      /\ api[p].status[i].unresolved = Unresolved(api[p].spec, api)
    BY DEF VerdictAtRest
  <2>1. Right(api[p])
    BY KeysFacts, RestSettled
  <2>2. cache = api
    BY DEF AtRest
  <2> QED
    BY <2>1, <2>2 DEF Right
<1> QED
  BY <1>1, RestInvariance, PTL

----------------------------------------------------------------------------
(* TLSPolicy implements ProxySync. *)

\* Outside updateProxy a worker has copied nothing.
NoCopies ==
  \A w \in Workers : task[w].pc \notin {"readConfigMaps", "publish"} =>
    task[w].snap = NothingCopied

\* The state of ProxySync.
SharedStore == [w \in Workers |-> Content(w)]
SharedPC    == [w \in Workers |-> Place(task[w].pc)]
SharedNext  == [w \in Workers |-> NextCopy(task[w].pc)]
SharedSnap  == [w \in Workers |-> task[w].snap]

SharedValues == SUBSET ((Policies \X PolicySpecs) \union (ConfigMaps \X Data))

\* Where a worker is before its store, and between its store and updateProxy.
BeforeStore == {"idle", "get"} \union PolicyPCs

LEMMA PlaceFacts ==
  /\ \A pc \in BeforeStore : Place(pc) = "idle" /\ NextCopy(pc) = 1
  /\ Place("readPolicies") = "written" /\ NextCopy("readPolicies") = 1
  /\ Place("readConfigMaps") = "update" /\ NextCopy("readConfigMaps") = 2
  /\ Place("publish") = "update" /\ NextCopy("publish") = 3
  BY DEF Place, NextCopy, BeforeStore, PolicyPCs

\* What BuildInternalRoutes reads of State is a content of ProxySync's maps.
LEMMA ContentIsValue ==
  ASSUME NEW m, ObjectMap(m), NEW w \in Workers
  PROVE  {<<k, m[k].spec>> : k \in {j \in Own(w) : m[j] # Absent}} \in SharedValues
<1>1. ASSUME NEW k \in Own(w), m[k] # Absent
      PROVE  <<k, m[k].spec>> \in (Policies \X PolicySpecs) \union (ConfigMaps \X Data)
  <2>1. m[k] \in Objects(k)
    BY <1>1, KeysFacts DEF ObjectMap
  <2>2. CASE w = "backendTLSPolicies"
    BY <2>1, <2>2 DEF Own, Objects, SpecsOf
  <2>3. CASE w = "configMaps"
    BY <2>1, <2>3, NamesAssumption DEF Own, Objects, SpecsOf
  <2> QED
    BY <2>2, <2>3 DEF Workers
<1> QED
  BY <1>1 DEF SharedValues

\* A worker's value that is set to what it is.
LEMMA SetToSame ==
  ASSUME NEW w \in Workers, NEW f, f = [v \in Workers |-> f[v]]
  PROVE  [f EXCEPT ![w] = f[w]] = f
  OBVIOUS

\* The move of one worker, in the state of ProxySync.
LEMMA SharedTask ==
  ASSUME TypeOK, NEW w \in Workers, NEW t, task' = [task EXCEPT ![w] = t]
  PROVE  /\ SharedPC'   = [SharedPC EXCEPT ![w] = Place(t.pc)]
         /\ SharedNext' = [SharedNext EXCEPT ![w] = NextCopy(t.pc)]
         /\ SharedSnap' = [SharedSnap EXCEPT ![w] = t.snap]
<1>1. \A v \in Workers : task'[v] = IF v = w THEN t ELSE task[v]
  BY DEF TypeOK
<1>2. SharedPC' = [SharedPC EXCEPT ![w] = Place(t.pc)]
  <2>1. SharedPC' = [v \in Workers |-> Place(task'[v].pc)]
    BY DEF SharedPC, Place
  <2>2. \A v \in Workers : Place(task'[v].pc) = IF v = w THEN Place(t.pc)
                                               ELSE Place(task[v].pc)
    BY <1>1
  <2> HIDE DEF Place
  <2> QED
    BY <2>1, <2>2 DEF SharedPC
<1>3. SharedNext' = [SharedNext EXCEPT ![w] = NextCopy(t.pc)]
  <2>1. SharedNext' = [v \in Workers |-> NextCopy(task'[v].pc)]
    BY DEF SharedNext, NextCopy
  <2>2. \A v \in Workers : NextCopy(task'[v].pc) = IF v = w THEN NextCopy(t.pc)
                                                  ELSE NextCopy(task[v].pc)
    BY <1>1
  <2> QED
    BY <2>1, <2>2 DEF SharedNext
<1>4. SharedSnap' = [SharedSnap EXCEPT ![w] = t.snap]
  <2>1. SharedSnap' = [v \in Workers |-> task'[v].snap]
    BY DEF SharedSnap
  <2>2. \A v \in Workers : task'[v].snap = IF v = w THEN t.snap ELSE task[v].snap
    BY <1>1
  <2> QED
    BY <2>1, <2>2 DEF SharedSnap
<1> QED
  BY <1>2, <1>3, <1>4

\* What a step has to show: it is one of ProxySync, and keeps NoCopies.
SharedStep == [Shared!Next]_Shared!vars /\ NoCopies'

\* The move of one worker keeps NoCopies.
LEMMA NoCopiesKept ==
  ASSUME TypeOK, NoCopies, NEW w \in Workers, NEW t, task' = [task EXCEPT ![w] = t],
         t.pc \in {"readConfigMaps", "publish"} \/ t.snap = NothingCopied
  PROVE  NoCopies'
<1>1. \A v \in Workers : task'[v] = IF v = w THEN t ELSE task[v]
  BY DEF TypeOK
<1> QED
  BY <1>1 DEF NoCopies, NothingCopied

\* A step before the store is none of ProxySync.
LEMMA GoesOn ==
  ASSUME TypeOK, NoCopies, NEW w \in Workers, UNCHANGED <<store, routes>>, NEW t,
         task' = [task EXCEPT ![w] = t], {task[w].pc, t.pc} \subseteq BeforeStore,
         t.snap \in {task[w].snap, NothingCopied}
  PROVE  SharedStep
<1>0. t.snap = NothingCopied /\ task[w].snap = NothingCopied
  BY DEF NoCopies, BeforeStore, PolicyPCs
<1>1. SharedPC' = SharedPC /\ SharedNext' = SharedNext /\ SharedSnap' = SharedSnap
  <2>1. /\ SharedPC[w] = Place(t.pc) /\ SharedNext[w] = NextCopy(t.pc)
        /\ SharedSnap[w] = t.snap
    BY <1>0, PlaceFacts DEF SharedPC, SharedNext, SharedSnap
  <2>2. /\ [SharedPC EXCEPT ![w] = SharedPC[w]] = SharedPC
        /\ [SharedNext EXCEPT ![w] = SharedNext[w]] = SharedNext
        /\ [SharedSnap EXCEPT ![w] = SharedSnap[w]] = SharedSnap
    BY SetToSame DEF SharedPC, SharedNext, SharedSnap
  <2>3. /\ SharedPC'   = [SharedPC EXCEPT ![w] = Place(t.pc)]
        /\ SharedNext' = [SharedNext EXCEPT ![w] = NextCopy(t.pc)]
        /\ SharedSnap' = [SharedSnap EXCEPT ![w] = t.snap]
    BY SharedTask
  <2> QED
    BY <2>1, <2>2, <2>3
<1>2. SharedStore' = SharedStore
  BY DEF SharedStore, Content, Own
<1>3. UNCHANGED Shared!vars
  BY <1>1, <1>2 DEF Shared!vars, SharedStore, SharedPC, SharedNext, SharedSnap
<1> QED
  BY <1>0, <1>3, NoCopiesKept DEF SharedStep

\* A store in State.
LEMMA WriteStep ==
  ASSUME TypeOK, TypeOK', NoCopies, NEW w \in Workers, Update(w), UNCHANGED routes,
         \A k \in Keys \ Own(w) : store'[k] = store[k], task[w].pc \in BeforeStore
  PROVE  SharedStep
<1>t. PICK t : t = [Idle EXCEPT !.pc = "readPolicies"]
  OBVIOUS
<1>0. /\ task' = [task EXCEPT ![w] = t]
      /\ t.pc = "readPolicies" /\ t.snap = NothingCopied
  BY <1>t, IdleFacts DEF Update, Fields
<1>2. /\ SharedPC' = [SharedPC EXCEPT ![w] = "written"] /\ SharedPC[w] = "idle"
      /\ SharedNext' = SharedNext /\ SharedSnap' = SharedSnap
  <2>1. SharedNext[w] = NextCopy(t.pc) /\ SharedSnap[w] = t.snap /\ SharedPC[w] = "idle"
    BY <1>0, PlaceFacts
       DEF SharedPC, SharedNext, SharedSnap, NoCopies, BeforeStore, PolicyPCs
  <2>2. /\ [SharedNext EXCEPT ![w] = SharedNext[w]] = SharedNext
        /\ [SharedSnap EXCEPT ![w] = SharedSnap[w]] = SharedSnap
    BY SetToSame DEF SharedNext, SharedSnap
  <2>3. /\ SharedPC'   = [SharedPC EXCEPT ![w] = Place(t.pc)]
        /\ SharedNext' = [SharedNext EXCEPT ![w] = NextCopy(t.pc)]
        /\ SharedSnap' = [SharedSnap EXCEPT ![w] = t.snap]
    BY <1>0, SharedTask
  <2> QED
    BY <1>0, <2>1, <2>2, <2>3, PlaceFacts
<1>3. \E v \in SharedValues : SharedStore' = [SharedStore EXCEPT ![w] = v]
  <2>1. Content(w)' \in SharedValues
    <3>1. ObjectMap(store')
      BY DEF TypeOK, ObjectMap
    <3> QED
      BY <3>1, ContentIsValue DEF Content, Own
  <2>2. \A v \in Workers : v # w => Content(v)' = Content(v)
    <3>1. \A v \in Workers : v # w => Own(v) \subseteq Keys \ Own(w)
      BY KeysFacts
    <3> QED
      BY <3>1 DEF Content, Own
  <2>3. SharedStore' = [SharedStore EXCEPT ![w] = Content(w)']
    BY <2>2 DEF SharedStore
  <2> QED
    BY <2>1, <2>3
<1>4. Shared!Write(w)
  BY <1>2, <1>3
     DEF Shared!Write, SharedStore, SharedPC, SharedNext, SharedSnap, SharedValues
<1> QED
  BY <1>0, <1>4, NoCopiesKept DEF SharedStep, Shared!Next

\* The copy of one of State's maps: ReadPolicies and ReadConfigMaps.
LEMMA ReadStep ==
  ASSUME TypeOK, NoCopies, NEW w \in Workers, ReadPolicies(w) \/ ReadConfigMaps(w)
  PROVE  SharedStep
<1>0. /\ UNCHANGED <<routes, store>> /\ TaskOK(w, task[w])
      /\ DOMAIN task[w] = Fields
      /\ task = [v \in Workers |-> task[v]]
      /\ task[w].snap = [v \in Workers |-> task[w].snap[v]]
      /\ Workers = {"backendTLSPolicies", "configMaps"}
  BY IdleFacts DEF ReadPolicies, ReadConfigMaps, TypeOK, TaskOK, Workers
<1>1. SharedStore' = SharedStore
  BY <1>0 DEF SharedStore, Content, Own
<1>2. PICK j \in Workers, p \in {"readConfigMaps", "publish"} :
        \/ ReadPolicies(w) /\ j = "backendTLSPolicies" /\ p = "readConfigMaps"
        \/ ReadConfigMaps(w) /\ j = "configMaps" /\ p = "publish"
  BY <1>0
<1>3. PICK c : c = Content(j)
  OBVIOUS
<1>4. PICK t : t = [task[w] EXCEPT !.pc = p, !.snap[j] = c]
  OBVIOUS
<1>5. /\ task' = [task EXCEPT ![w] = t]
      /\ task[w].pc = IF j = "backendTLSPolicies" THEN "readPolicies" ELSE "readConfigMaps"
      /\ t.pc = p /\ t.snap = [task[w].snap EXCEPT ![j] = c]
  BY <1>0, <1>2, <1>3, <1>4 DEF ReadPolicies, ReadConfigMaps, Fields
<1>6. /\ SharedPC'   = [SharedPC EXCEPT ![w] = "update"]
      /\ SharedNext' = [SharedNext EXCEPT ![w] = SharedNext[w] + 1]
      /\ SharedSnap' = [SharedSnap EXCEPT ![w] = [SharedSnap[w] EXCEPT ![j] = c]]
      /\ SharedPC[w] \in {"written", "update"}
      /\ SharedNext[w] = IF j = "backendTLSPolicies" THEN 1 ELSE 2
  <2>1. /\ SharedPC'   = [SharedPC EXCEPT ![w] = Place(t.pc)]
        /\ SharedNext' = [SharedNext EXCEPT ![w] = NextCopy(t.pc)]
        /\ SharedSnap' = [SharedSnap EXCEPT ![w] = t.snap]
    BY <1>5, SharedTask
  <2>2. SharedNext[w] = NextCopy(task[w].pc) /\ SharedPC[w] = Place(task[w].pc)
    BY DEF SharedNext, SharedPC
  <2>3. /\ Place(t.pc) = "update" /\ NextCopy(t.pc) = NextCopy(task[w].pc) + 1
        /\ Place(task[w].pc) \in {"written", "update"}
        /\ NextCopy(task[w].pc) = IF j = "backendTLSPolicies" THEN 1 ELSE 2
    BY <1>2, <1>5, PlaceFacts
  <2>4. SharedSnap[w] = task[w].snap
    BY DEF SharedSnap
  <2> QED
    BY <1>5, <2>1, <2>2, <2>3, <2>4
<1>7. /\ <<"backendTLSPolicies", "configMaps">>[SharedNext[w]] = j
      /\ SharedNext[w] <= Len(<<"backendTLSPolicies", "configMaps">>)
      /\ SharedStore[j] = c
  BY <1>0, <1>2, <1>3, <1>6 DEF SharedStore
<1>8. SharedSnap' = [SharedSnap EXCEPT ![w][j] = SharedStore[j]]
  BY <1>6, <1>7
<1>9. Shared!Read(w)
  BY <1>0, <1>1, <1>6, <1>7, <1>8
     DEF Shared!Read, SharedStore, SharedPC, SharedNext, SharedSnap
<1>10. NoCopies'
  BY <1>5, NoCopiesKept
<1> QED
  BY <1>9, <1>10 DEF SharedStep, Shared!Next

\* The install of the routes.
LEMMA PublishStep ==
  ASSUME TypeOK, NoCopies, NEW w \in Workers, Publish(w) PROVE SharedStep
<1>0. /\ task[w].pc = "publish" /\ UNCHANGED store /\ routes' = task[w].snap
      /\ task' = [task EXCEPT ![w] = Idle]
  BY DEF Publish
<1>1. SharedStore' = SharedStore
  BY <1>0 DEF SharedStore, Content, Own
<1>2. /\ SharedPC'   = [SharedPC EXCEPT ![w] = "idle"]
      /\ SharedNext' = [SharedNext EXCEPT ![w] = 1]
      /\ SharedSnap' = [SharedSnap EXCEPT ![w] = NothingCopied]
  <2>1. /\ SharedPC'   = [SharedPC EXCEPT ![w] = Place(Idle.pc)]
        /\ SharedNext' = [SharedNext EXCEPT ![w] = NextCopy(Idle.pc)]
        /\ SharedSnap' = [SharedSnap EXCEPT ![w] = Idle.snap]
    BY <1>0, SharedTask
  <2> QED
    BY <2>1, IdleFacts, PlaceFacts DEF BeforeStore
<1>3. SharedPC[w] = "update" /\ SharedNext[w] = 3 /\ SharedSnap[w] = task[w].snap
  BY <1>0, PlaceFacts DEF SharedPC, SharedNext, SharedSnap
<1>4. Shared!Publish(w)
  BY <1>0, <1>1, <1>2, <1>3
     DEF Shared!Publish, Shared!Nothing, SharedStore, SharedPC, SharedNext, SharedSnap,
         NothingCopied
<1>5. NoCopies'
  BY <1>0, IdleFacts, NoCopiesKept
<1> QED
  BY <1>4, <1>5 DEF SharedStep, Shared!Next

\* A process that starts has an empty State, no routes and nothing running.
LEMMA InitShared == Init => Shared!Init /\ NoCopies
<1> SUFFICES ASSUME Init PROVE Shared!Init /\ NoCopies
  OBVIOUS
<1>0. /\ \A w \in Workers : task[w] = Idle
      /\ \A k \in Keys : store[k] = Absent
      /\ routes = NothingCopied
  BY DEF Init
<1>1. \A w \in Workers : Content(w) = {}
  BY <1>0, KeysFacts DEF Content
<1>2. Place("idle") = "idle" /\ NextCopy("idle") = 1
  BY PlaceFacts DEF BeforeStore
<1> QED
  BY <1>0, <1>1, <1>2, IdleFacts DEF Shared!Init, Shared!Nothing, NothingCopied, NoCopies

LEMMA RestartShared == ASSUME Restart PROVE SharedStep
<1>0. /\ \A w \in Workers : task'[w] = Idle
      /\ \A k \in Keys : store'[k] = Absent
      /\ routes' = NothingCopied /\ Idle.pc = "idle" /\ Idle.snap = NothingCopied
  BY IdleFacts DEF Restart
<1>1. \A w \in Workers : Content(w)' = {}
  BY <1>0, KeysFacts DEF Content, Own
<1>2. Place("idle") = "idle" /\ NextCopy("idle") = 1
  BY PlaceFacts DEF BeforeStore
<1>3. /\ SharedStore' = NothingCopied
      /\ SharedPC'    = [w \in Workers |-> "idle"]
      /\ SharedNext'  = [w \in Workers |-> 1]
      /\ SharedSnap'  = [w \in Workers |-> NothingCopied]
  <2>1. SharedPC' = [w \in Workers |-> Place(task'[w].pc)]
    BY DEF SharedPC, Place
  <2>2. SharedNext' = [w \in Workers |-> NextCopy(task'[w].pc)]
    BY DEF SharedNext, NextCopy
  <2> QED
    BY <1>0, <1>1, <1>2, <2>1, <2>2 DEF SharedStore, SharedSnap, NothingCopied
<1>4. Shared!Restart
  BY <1>0, <1>3
     DEF Shared!Restart, Shared!Nothing, NothingCopied, SharedStore, SharedPC, SharedNext,
         SharedSnap
<1>5. NoCopies'
  BY <1>0 DEF NoCopies, NothingCopied
<1> QED
  BY <1>4, <1>5 DEF SharedStep, Shared!Next

\* Users, the watches and the other reconcilers touch neither these maps of
\* State nor the proxy.
LEMMA OutsideShared ==
  ASSUME UNCHANGED <<task, store, routes>>, NoCopies PROVE SharedStep
<1>1. SharedStore' = SharedStore
  BY DEF SharedStore, Content, Own
<1>2. SharedPC' = SharedPC /\ SharedNext' = SharedNext /\ SharedSnap' = SharedSnap
  BY DEF SharedPC, SharedNext, SharedSnap, Place, NextCopy
<1>3. UNCHANGED Shared!vars
  BY <1>1, <1>2 DEF Shared!vars, SharedStore, SharedPC, SharedNext, SharedSnap
<1>4. NoCopies'
  BY DEF NoCopies, NothingCopied
<1> QED
  BY <1>3, <1>4 DEF SharedStep

\* The steps of ConfigMapReconciler, and those both reconcilers have, before
\* updateProxy.
LEMMA BothShared ==
  ASSUME TypeOK, TypeOK', NoCopies, NEW w \in Workers,
         \/ \E k \in Keys : Take(w, k)
         \/ Gone(w)
         \/ w = "configMaps" /\ ConfigMapFound
  PROVE  SharedStep
<1>u. PICK u : u = task[w]
  OBVIOUS
<1>0. /\ TaskOK(w, u) /\ DOMAIN u = Fields
      /\ task = [v \in Workers |-> task[v]] /\ store = [j \in Keys |-> store[j]]
  BY <1>u, IdleFacts DEF TypeOK, TaskOK, ObjectMap
<1>1. ASSUME NEW k \in Keys, Take(w, k) PROVE SharedStep
  <2>t. PICK t : t = [u EXCEPT !.pc = "get", !.key = k]
    OBVIOUS
  <2>1. /\ u.pc = "idle" /\ task' = [task EXCEPT ![w] = t] /\ UNCHANGED <<store, routes>>
        /\ t.pc = "get" /\ t.snap = u.snap
    BY <1>u, <1>0, <1>1, <2>t, IdleFacts DEF Take, Fields
  <2> QED
    BY <1>u, <2>1, GoesOn DEF BeforeStore
<1>2. CASE Gone(w)
  <2>1. /\ task[w].pc \in BeforeStore /\ Update(w) /\ UNCHANGED routes
        /\ \A k \in Keys \ Own(w) : store'[k] = store[k]
    BY <1>u, <1>0, <1>2 DEF Gone, TaskOK, BeforeStore
  <2> QED
    BY <2>1, WriteStep
<1>3. CASE w = "configMaps" /\ ConfigMapFound
  <2>1. /\ task[w].pc \in BeforeStore /\ Update(w) /\ UNCHANGED routes
        /\ \A k \in Keys \ Own(w) : store'[k] = store[k]
    BY <1>u, <1>0, <1>3 DEF ConfigMapFound, TaskOK, BeforeStore
  <2> QED
    BY <2>1, WriteStep
<1> QED
  BY <1>1, <1>2, <1>3

\* BackendTLSPolicyReconciler touches State after the status is written only.
LEMMA PolicyShared ==
  ASSUME TypeOK, TypeOK', NoCopies,
         \/ PolicyFound \/ CopyRoutes \/ CheckReference \/ ComputeKept \/ ComputeChanged
         \/ PutAccepted \/ PutRejected \/ PutFailed \/ PolicyStore
  PROVE  SharedStep
<1>w. PICK w : w = "backendTLSPolicies"
  OBVIOUS
<1>u. PICK u : u = task[w]
  OBVIOUS
<1>0. /\ w \in Workers /\ u = policy /\ TaskOK(w, u) /\ DOMAIN u = Fields
      /\ task = [v \in Workers |-> task[v]] /\ store = [j \in Keys |-> store[j]]
  BY <1>w, <1>u, IdleFacts DEF TypeOK, TaskOK, ObjectMap, Workers, policy
<1>1. ASSUME NEW t, Continue(t), u.pc \in BeforeStore, t.pc \in BeforeStore, t.snap = u.snap
      PROVE  SharedStep
  <2>1. task' = [task EXCEPT ![w] = t] /\ UNCHANGED <<store, routes>>
    BY <1>w, <1>1 DEF Continue
  <2> QED
    BY <1>u, <1>0, <1>1, <2>1, GoesOn
<1>2. CASE PolicyFound
  <2>o. PICK o : o = cache[u.key]
    OBVIOUS
  <2>t. PICK t : t = [u EXCEPT !.pc = "ways", !.base = o, !.obj = o, !.left = o.spec,
                               !.gateways = known]
    OBVIOUS
  <2>1. Continue(t) /\ u.pc = "get" /\ t.pc = "ways" /\ t.snap = u.snap
    BY <1>0, <1>2, <2>o, <2>t DEF PolicyFound, Fields
  <2> QED
    BY <1>1, <2>1 DEF BeforeStore, PolicyPCs
<1>3. CASE CopyRoutes
  <2>t. PICK t : t = [u EXCEPT !.pc = "check", !.ways = leads[u.key]]
    OBVIOUS
  <2>1. Continue(t) /\ u.pc = "ways" /\ t.pc = "check" /\ t.snap = u.snap
    BY <1>0, <1>3, <2>t DEF CopyRoutes, Fields
  <2> QED
    BY <1>1, <2>1 DEF BeforeStore, PolicyPCs
<1>4. CASE CheckReference
  <2>n. PICK n : n = IF Resolves(Head(u.left), cache) THEN u.unresolved
                     ELSE Append(u.unresolved, Head(u.left))
    OBVIOUS
  <2>t. PICK t : t = [u EXCEPT !.left = Tail(u.left), !.unresolved = n]
    OBVIOUS
  <2>1. Continue(t) /\ u.pc = "check" /\ t.pc = "check" /\ t.snap = u.snap
    BY <1>0, <1>4, <2>n, <2>t DEF CheckReference, Fields
  <2> QED
    BY <1>1, <2>1 DEF BeforeStore, PolicyPCs
<1>5. CASE ComputeKept \/ ComputeChanged
  <2>1. PICK t, new : /\ Continue(t)
                      /\ \/ t = [u EXCEPT !.pc = "store"]
                         \/ t = [u EXCEPT !.pc = "put", !.obj.status = new]
    BY <1>0, <1>5 DEF ComputeKept, ComputeChanged
  <2>2. t.pc \in {"store", "put"} /\ t.snap = u.snap
    BY <1>0, <2>1 DEF Fields
  <2>3. u.pc = "check"
    BY <1>0, <1>5 DEF ComputeKept, ComputeChanged, Checked
  <2> QED
    BY <1>1, <2>1, <2>2, <2>3 DEF BeforeStore, PolicyPCs
<1>6. CASE PutAccepted
  <2>t. PICK t : t = [u EXCEPT !.pc = "store"]
    OBVIOUS
  <2>1. /\ u.pc = "put" /\ task' = [task EXCEPT ![w] = t] /\ UNCHANGED <<store, routes>>
        /\ t.pc = "store" /\ t.snap = u.snap
    BY <1>w, <1>u, <1>0, <1>6, <2>t DEF PutAccepted, Fields
  <2> QED
    BY <1>u, <1>0, <2>1, GoesOn DEF BeforeStore, PolicyPCs
<1>7. CASE PutRejected \/ PutFailed
  <2>1. u.pc = "put" /\ task' = [task EXCEPT ![w] = Idle] /\ UNCHANGED <<store, routes>>
    BY <1>w, <1>0, <1>7 DEF PutRejected, PutFailed, ReturnError
  <2> QED
    BY <1>u, <1>0, <2>1, IdleFacts, GoesOn DEF BeforeStore, PolicyPCs
<1>8. CASE PolicyStore
  <2>1. u.pc = "store" /\ Update(w) /\ UNCHANGED routes
    BY <1>w, <1>0, <1>8 DEF PolicyStore
  <2>2. u.key \in Own(w)
    BY <1>w, <1>0, <2>1, KeysFacts DEF TaskOK, HoldOK, PolicyPCs
  <2>3. \A k \in Keys \ Own(w) : store'[k] = store[k]
    BY <1>0, <1>8, <2>2 DEF PolicyStore
  <2> QED
    BY <1>u, <1>0, <2>1, <2>3, WriteStep DEF BeforeStore, PolicyPCs
<1> QED
  BY <1>2, <1>3, <1>4, <1>5, <1>6, <1>7, <1>8

\* Every step is one of ProxySync, or none of its state's business.
LEMMA NextShared == TypeOK /\ NoCopies /\ [Next]_vars => SharedStep
<1> SUFFICES ASSUME TypeOK, NoCopies, [Next]_vars PROVE SharedStep
  OBVIOUS
<1>0. TypeOK'
  BY TypeStep
<1>1. CASE UNCHANGED vars
  BY <1>1, OutsideShared DEF vars
<1>2. CASE \/ \E k \in Keys : Apply(k) \/ Remove(k) \/ Deliver(k)
           \/ \E c \in ConfigMaps : MapEvent(c)
           \/ OthersChange
  BY <1>2, OutsideShared DEF Apply, Remove, Deliver, MapEvent, OthersChange
<1>3. CASE Restart
  BY <1>3, RestartShared
<1>4. CASE PutFailed
  BY <1>0, <1>4, PolicyShared
<1>5. ASSUME NEW w \in Workers, Reconcile(w) \/ \E k \in Keys : Take(w, k) PROVE SharedStep
  BY <1>0, <1>5, BothShared, ReadStep, PublishStep, PolicyShared DEF Reconcile
<1> QED
  BY <1>1, <1>2, <1>3, <1>4, <1>5 DEF Next

\* The reconcilers of policies and ConfigMaps use State and the proxy as
\* ProxySync says, and neither ever returns an error after its store: a policy
\* that is in State is on its way to the proxy.
THEOREM TLSPolicyImplementsProxySync == FairSpec => UsesSharedState
<1>1. Init => Shared!Init /\ NoCopies
  BY InitShared
<1>2. TypeOK /\ NoCopies /\ [Next]_vars => [Shared!Next]_Shared!vars /\ NoCopies'
  BY NextShared DEF SharedStep
<1> QED
  BY <1>1, <1>2, TypeCorrect, PTL DEF FairSpec, UsesSharedState, Shared!Spec

=============================================================================
