------------------------- MODULE ControlPlaneProofs -------------------------
(***************************************************************************)
(* Proofs about ControlPlane, for any finite set of routes, any Gateways,  *)
(* specs, addresses and bounds.                                            *)
(***************************************************************************)
EXTENDS ControlPlane, FiniteSetTheorems, TLAPS

----------------------------------------------------------------------------
(* The data. *)

\* Replacing one object by another of its kind, or by none, keeps a map typed.
LEMMA MapUpdate ==
  ASSUME NEW m, ObjectMap(m), NEW k \in Keys, NEW o \in Objects(k) \union {Absent}
  PROVE  ObjectMap([m EXCEPT ![k] = o])
  BY DEF ObjectMap

\* A worker that runs nothing holds nothing.
LEMMA IdleOK == \A w \in Workers : TaskOK(w, Idle)
  BY DEF TaskOK, Idle, NothingCopied, Contents, PCs

\* The fields of a task.
HasFields(t, pc, key, base, obj, snap) ==
  /\ DOMAIN t = {"pc", "key", "base", "obj", "snap"}
  /\ t.pc = pc /\ t.key = key /\ t.base = base /\ t.obj = obj /\ t.snap = snap

\* The types of the tasks, together.
TasksOK == task = [w \in Workers |-> task[w]] /\ \A w \in Workers : TaskOK(w, task[w])

\* A step of one worker keeps the tasks typed if its new task is typed.
LEMMA TaskUpdate ==
  ASSUME TasksOK, NEW w \in Workers, NEW t, TaskOK(w, t),
         task' = [task EXCEPT ![w] = t]
  PROVE  TasksOK'
  BY DEF TasksOK, TaskOK

\* The routes counted for a listener are at most all the routes.
LEMMA AttachedBound ==
  ASSUME NEW g, NEW s PROVE Attached(g, s) \in 0..Cardinality(Routes)
<1> DEFINE R == {r \in Routes : s[r] # Absent /\ g \in s[r].spec.parents /\ IsAccepted(s[r])}
<1>1. IsFiniteSet(R) /\ Cardinality(R) <= Cardinality(Routes)
  BY KeysAssumption, FS_Subset
<1>2. Cardinality(R) \in Nat /\ Cardinality(Routes) \in Nat
  BY <1>1, KeysAssumption, FS_CardinalityType
<1> QED
  BY <1>1, <1>2 DEF Attached

\* The status HTTPRouteReconciler computes is a status of a route, with one
\* condition for each parentRef and the generation of the route in each.
LEMMA RouteStatusFacts ==
  ASSUME NEW o \in RouteObjects, NEW s
  PROVE  /\ [o EXCEPT !.status = RouteStatus(o, s)] \in RouteObjects
         /\ \A p \in DOMAIN RouteStatus(o, s) : RouteStatus(o, s)[p].obs = o.gen
<1>1. o.spec.parents \in SUBSET Gateways /\ o.gen \in Generations
  BY SpecsAssumption DEF RouteObjects
<1>2. \A p : Reason(o, p, s) \in Reasons
  BY DEF Reason, Reasons
<1>3. RouteStatus(o, s) \in [o.spec.parents -> [reason : Reasons, obs : Generations]]
  BY <1>1, <1>2 DEF RouteStatus
<1>4. RouteStatus(o, s) \in
        UNION {[ps -> [reason : Reasons, obs : Generations]] : ps \in SUBSET Gateways}
  BY <1>1, <1>3
<1>5. [o EXCEPT !.status = RouteStatus(o, s)] \in RouteObjects
  BY <1>4 DEF RouteObjects
<1>6. \A p \in DOMAIN RouteStatus(o, s) : RouteStatus(o, s)[p].obs = o.gen
  BY DEF RouteStatus
<1> QED
  BY <1>5, <1>6

\* A new object is one of its kind.
LEMMA NewOK ==
  ASSUME NEW k \in Keys, NEW n \in Generations, NEW s \in SpecsOf(k)
  PROVE  New(k, n, s) \in Objects(k)
<1>1. 0 \in Generations /\ 0 \in 0..Cardinality(Routes)
  <2>1. Cardinality(Routes) \in Nat
    BY KeysAssumption, FS_CardinalityType
  <2> QED
    BY <2>1, BoundsAssumption DEF Generations
<1>2. CASE k \in Gateways
  BY <1>1, <1>2 DEF New, NoStatus, NoGatewayStatus, SpecsOf, Objects, GatewayObjects
<1>3. CASE k \notin Gateways
  <2>1. NoRouteStatus \in [{} -> [reason : Reasons, obs : Generations]]
    BY DEF NoRouteStatus
  <2>2. NoRouteStatus \in
          UNION {[ps -> [reason : Reasons, obs : Generations]] : ps \in SUBSET Gateways}
    BY <2>1
  <2> QED
    BY <1>3, <2>2 DEF New, NoStatus, SpecsOf, Objects, RouteObjects
<1> QED
  BY <1>2, <1>3

\* An event adds to each queue only objects its controller reconciles.
LEMMA RequestsOK ==
  ASSUME NEW k \in Keys, NEW objs, objs \subseteq Objects(k) \union {Absent}
  PROVE  /\ Requests(k, objs) = [w \in Workers |-> Requests(k, objs)[w]]
         /\ \A w \in Workers : Requests(k, objs)[w] \subseteq Own(w)
<1>1. ASSUME k \notin Gateways, NEW o \in objs PROVE ParentsOf(o) \subseteq Gateways
  <2>1. CASE o = Absent
    BY <2>1 DEF ParentsOf
  <2>2. CASE o # Absent
    BY <1>1, <2>2, SpecsAssumption DEF ParentsOf, Objects, RouteObjects
  <2> QED
    BY <2>1, <2>2
<1>2. k \notin Gateways => UNION {ParentsOf(o) : o \in objs} \subseteq Gateways
  BY <1>1
<1>3. Requests(k, objs) = [w \in Workers |-> Requests(k, objs)[w]]
  BY DEF Requests
<1>4. ASSUME NEW w \in Workers PROVE Requests(k, objs)[w] \subseteq Own(w)
  <2>1. CASE w = "httpRoutes"
    BY <2>1 DEF Requests, Own, Workers
  <2>2. CASE w = "gateways"
    BY <2>2, <1>2 DEF Requests, Own, Workers
  <2> QED
    BY <2>1, <2>2 DEF Workers
<1> QED
  BY <1>3, <1>4

\* Listing a typed map puts in each queue only what its controller reconciles.
LEMMA ListedOK ==
  ASSUME NEW m, ObjectMap(m)
  PROVE  /\ Listed(m) = [w \in Workers |-> Listed(m)[w]]
         /\ \A w \in Workers : Listed(m)[w] \subseteq Own(w)
<1>1. Listed(m) = [w \in Workers |-> Listed(m)[w]]
  BY DEF Listed
<1>2. ASSUME NEW w \in Workers, NEW k \in Keys PROVE Requests(k, {m[k]})[w] \subseteq Own(w)
  BY RequestsOK DEF ObjectMap
<1> QED
  BY <1>1, <1>2 DEF Listed

\* What updateProxy copies of the maps has the type of a copy.
LEMMA ContentOK ==
  ASSUME ObjectMap(store), NEW ks \in SUBSET Keys
  PROVE  Content(ks) \in Contents
<1>1. ASSUME NEW k \in ks, store[k] # Absent
      PROVE  store[k].spec \in GatewaySpecs \union RouteSpecs
  BY <1>1 DEF ObjectMap, Objects, GatewayObjects, RouteObjects
<1> QED
  BY <1>1 DEF Content, Contents

----------------------------------------------------------------------------
(* Type correctness. *)

LEMMA KeysFacts ==
  /\ \A w \in Workers : Own(w) \subseteq Keys
  /\ \A k \in Keys : k # Absent
  /\ \A r \in Own("httpRoutes") : Objects(r) = RouteObjects
  /\ \A g \in Own("gateways") : Objects(g) = GatewayObjects
  /\ Workers = {"gateways", "httpRoutes"}
  BY KeysAssumption DEF Own, Keys, Workers, Objects

\* The process starts with typed objects and nothing running.
LEMMA InitTypeOK == Init => TypeOK
<1> SUFFICES ASSUME Init PROVE TypeOK
  OBVIOUS
<1>1. ObjectMap(api)
  <2>1. PICK specs \in [Keys -> GatewaySpecs \union RouteSpecs \union {Absent}] :
          /\ \A k \in Keys : specs[k] \in SpecsOf(k) \union {Absent}
          /\ api = [k \in Keys |-> IF specs[k] = Absent THEN Absent ELSE New(k, 1, specs[k])]
    BY DEF Init
  <2>2. 1 \in Generations
    BY BoundsAssumption DEF Generations
  <2>3. ASSUME NEW k \in Keys PROVE api[k] \in Objects(k) \union {Absent}
    <3>1. CASE specs[k] = Absent
      BY <2>1, <3>1
    <3>2. CASE specs[k] # Absent
      BY <2>1, <2>2, <3>2, NewOK
    <3> QED
      BY <3>1, <3>2
  <2> QED
    BY <2>1, <2>3 DEF ObjectMap
<1>2. ObjectMap(cache) /\ ObjectMap(store)
  BY <1>1 DEF Init, ObjectMap
<1>3. queue \in [Workers -> SUBSET Keys] /\ \A w \in Workers : queue[w] \subseteq Own(w)
  BY <1>1, ListedOK, KeysFacts DEF Init
<1>4. TasksOK
  BY IdleOK DEF Init, TasksOK
<1> QED
  BY <1>1, <1>2, <1>3, <1>4, BoundsAssumption, SpecsAssumption
     DEF Init, TypeOK, TasksOK, NothingCopied, Contents

\* The counters, after an event that is one of the rarer ones.
Spent ==
  /\ events \in 0..MaxEvents
  /\ changes \in [Keys -> 0..events]
  /\ spent \subseteq RareEvents

LEMMA SpendOK ==
  ASSUME TypeOK, NEW e, Spend(e), UNCHANGED changes PROVE Spent'
<1>1. events' \in 0..MaxEvents /\ changes' \in [Keys -> 0..events']
  BY BoundsAssumption DEF Spend, Count, TypeOK
<1> QED
  BY <1>1 DEF Spent, Spend, TypeOK

\* What stays typed in a step that only moves the worker w, with the task t.
LEMMA TaskOnly ==
  ASSUME TypeOK, NEW w \in Workers, NEW t, TaskOK(w, t),
         task' = [task EXCEPT ![w] = t],
         UNCHANGED <<environment, queue, store, routes>>
  PROVE  TypeOK'
<1>1. TasksOK'
  BY TaskUpdate DEF TypeOK, TasksOK
<1> QED
  BY <1>1 DEF TypeOK, TasksOK, environment, ObjectMap

\* Users, the platform, the informers and a restart keep the types.
LEMMA EnvironmentTypeStep ==
  ASSUME TypeOK,
         \/ \E k \in Keys : Apply(k) \/ Remove(k) \/ Deliver(k) \/ Resync(k)
         \/ AssignAddress \/ ChangePlatform \/ Restart
  PROVE  TypeOK'
<1>1. ASSUME NEW k \in Keys, Apply(k) PROVE TypeOK'
  <2>1. /\ events' \in 0..MaxEvents /\ changes' \in [Keys -> 0..events']
        /\ changes[k] + 2 \in Generations
    BY <1>1, BoundsAssumption DEF Apply, Count, TypeOK, Generations
  <2>2. PICK s \in SpecsOf(k) :
          \/ /\ api[k] = Absent
             /\ api' = [api EXCEPT ![k] = New(k, changes[k] + 2, s)]
          \/ /\ api[k] # Absent
             /\ api' = [api EXCEPT ![k].gen = changes[k] + 2, ![k].spec = s]
    BY <1>1 DEF Apply
  <2>3. ObjectMap(api')
    <3>1. CASE api[k] = Absent
      BY <2>1, <2>2, <3>1, NewOK, MapUpdate DEF TypeOK
    <3>2. CASE api[k] # Absent
      <4> DEFINE o == [api[k] EXCEPT !.gen = changes[k] + 2, !.spec = s]
      <4>1. api' = [api EXCEPT ![k] = o]
        BY <2>2, <3>2 DEF TypeOK, ObjectMap
      <4>2. api[k] \in Objects(k)
        BY <3>2 DEF TypeOK, ObjectMap
      <4>3. o \in Objects(k)
        BY <2>1, <4>2 DEF Objects, SpecsOf, GatewayObjects, RouteObjects
      <4> HIDE DEF o
      <4> QED
        BY <4>1, <4>3, MapUpdate DEF TypeOK
    <3> QED
      BY <3>1, <3>2
  <2> QED
    BY <1>1, <2>1, <2>3 DEF Apply, TypeOK, ObjectMap
<1>2. ASSUME NEW k \in Keys, Remove(k) PROVE TypeOK'
  <2>1. ObjectMap(api')
    BY <1>2, MapUpdate DEF Remove, TypeOK
  <2>2. events' \in 0..MaxEvents /\ changes' \in [Keys -> 0..events']
    BY <1>2, BoundsAssumption DEF Remove, Count, TypeOK
  <2> QED
    BY <1>2, <2>1, <2>2 DEF Remove, TypeOK, ObjectMap
<1>3. ASSUME NEW k \in Keys, Deliver(k) PROVE TypeOK'
  <2>1. {cache[k], api[k]} \subseteq Objects(k) \union {Absent}
    BY DEF TypeOK, ObjectMap
  <2>2. ObjectMap(cache')
    BY <1>3, <2>1, MapUpdate DEF Deliver, TypeOK
  <2>3. \A w \in Workers : Requests(k, {cache[k], api[k]})[w] \subseteq Own(w)
    BY <2>1, RequestsOK
  <2>4. queue' \in [Workers -> SUBSET Keys] /\ \A w \in Workers : queue'[w] \subseteq Own(w)
    BY <1>3, <2>3, KeysFacts DEF Deliver, TypeOK
  <2> QED
    BY <1>3, <2>2, <2>4 DEF Deliver, TypeOK, ObjectMap
<1>4. ASSUME NEW k \in Keys, Resync(k) PROVE TypeOK'
  <2>1. {cache[k]} \subseteq Objects(k) \union {Absent}
    BY DEF TypeOK, ObjectMap
  <2>2. \A w \in Workers : Requests(k, {cache[k]})[w] \subseteq Own(w)
    BY <2>1, RequestsOK
  <2>3. queue' \in [Workers -> SUBSET Keys] /\ \A w \in Workers : queue'[w] \subseteq Own(w)
    BY <1>4, <2>2, KeysFacts DEF Resync, TypeOK
  <2>4. Spent'
    BY <1>4, SpendOK DEF Resync
  <2> QED
    BY <1>4, <2>3, <2>4 DEF Resync, TypeOK, ObjectMap, Spent
<1>5. CASE AssignAddress
  BY <1>5 DEF AssignAddress, TypeOK, ObjectMap
<1>6. CASE ChangePlatform
  <2>1. classes' \subseteq OurClasses /\ lb' \in IPs \union {NoIP}
    BY <1>6 DEF ChangePlatform, TypeOK
  <2>2. Spent'
    BY <1>6, SpendOK DEF ChangePlatform
  <2> QED
    BY <1>6, <2>1, <2>2 DEF ChangePlatform, TypeOK, ObjectMap, Spent
<1>7. CASE Restart
  <2>1. ObjectMap(cache') /\ ObjectMap(store')
    BY <1>7 DEF Restart, TypeOK, ObjectMap
  <2>2. queue' \in [Workers -> SUBSET Keys] /\ \A w \in Workers : queue'[w] \subseteq Own(w)
    BY <1>7, ListedOK, KeysFacts DEF Restart, TypeOK
  <2>3. TasksOK'
    BY <1>7, IdleOK DEF Restart, TasksOK, TaskOK
  <2>4. Spent'
    BY <1>7, SpendOK DEF Restart
  <2> QED
    BY <1>7, <2>1, <2>2, <2>3, <2>4
       DEF Restart, TypeOK, TasksOK, ObjectMap, NothingCopied, Contents, Spent
<1> QED
  BY <1>1, <1>2, <1>3, <1>4, <1>5, <1>6, <1>7

\* The steps of a task that two or more reconcilers share keep it typed.
LEMMA TaskSteps ==
  ASSUME TypeOK, NEW w \in Workers
  PROVE  /\ TaskOK(w, Idle)
         /\ TaskOK(w, [Idle EXCEPT !.pc = "readGateways"])
         /\ \A k \in Own(w) : TaskOK(w, [Idle EXCEPT !.pc = "get", !.key = k])
<1>1. TaskOK(w, Idle)
  BY IdleOK
<1>2. DOMAIN Idle = {"pc", "key", "base", "obj", "snap"} /\ Idle.snap \in [Workers -> Contents]
  BY <1>1 DEF TaskOK
<1> HIDE DEF Idle
<1>3. TaskOK(w, [Idle EXCEPT !.pc = "readGateways"])
  BY <1>2 DEF TaskOK, PCs
<1>4. ASSUME NEW k \in Own(w) PROVE TaskOK(w, [Idle EXCEPT !.pc = "get", !.key = k])
  <2> DEFINE t == [Idle EXCEPT !.pc = "get", !.key = k]
  <2>1. HasFields(t, "get", k, Idle.base, Idle.obj, Idle.snap)
    BY <1>2 DEF HasFields
  <2> HIDE DEF t
  <2> QED
    BY <1>2, <2>1 DEF TaskOK, PCs, HasFields
<1> QED
  BY <1>1, <1>3, <1>4

\* The steps both reconcilers have keep the types.
LEMMA SharedTypeStep ==
  ASSUME TypeOK, NEW w \in Workers,
         \/ \E k \in Keys : Take(w, k)
         \/ Gone(w) \/ PutAccepted(w) \/ PutRejected(w) \/ PutFailed(w)
         \/ ReadGateways(w) \/ ReadRoutes(w) \/ Publish(w)
  PROVE  TypeOK'
<1>0. TasksOK /\ TaskOK(w, task[w])
  BY DEF TypeOK, TasksOK
<1>1. ASSUME NEW k \in Keys, Take(w, k) PROVE TypeOK'
  <2>1. task' = [task EXCEPT ![w] = [Idle EXCEPT !.pc = "get", !.key = k]]
    BY <1>1, <1>0 DEF Take, TasksOK
  <2>2. k \in Own(w)
    BY <1>1 DEF Take, TypeOK
  <2>3. TasksOK'
    BY <1>0, <2>1, <2>2, TaskSteps, TaskUpdate
  <2> QED
    BY <1>1, <2>3 DEF Take, TypeOK, TasksOK, ObjectMap, environment
<1>2. CASE Gone(w)
  <2>1. task[w].key \in Keys
    BY <1>0, <1>2, KeysFacts DEF Gone, TaskOK
  <2>2. ObjectMap(store')
    BY <1>2, <2>1, MapUpdate DEF Gone, TypeOK
  <2>3. TasksOK'
    BY <1>0, <1>2, TaskSteps, TaskUpdate DEF Gone, Update
  <2> QED
    BY <1>2, <2>2, <2>3 DEF Gone, TypeOK, TasksOK, ObjectMap, environment
<1>p. ASSUME task[w].pc = "put", api[task[w].key] = task[w].base,
             api' = [api EXCEPT ![task[w].key].status = task[w].obj.status]
      PROVE  ObjectMap(api')
  <2> DEFINE k == task[w].key
             o == [api[k] EXCEPT !.status = task[w].obj.status]
  <2>1. k \in Keys /\ {task[w].base, task[w].obj} \subseteq Objects(k)
    BY <1>0, <1>p, KeysFacts DEF TaskOK
  <2>2. o \in Objects(k)
    BY <1>p, <2>1 DEF Objects, GatewayObjects, RouteObjects
  <2>3. api' = [api EXCEPT ![k] = o]
    BY <1>p, <2>1 DEF TypeOK, ObjectMap
  <2> HIDE DEF k, o
  <2> QED
    BY <2>1, <2>2, <2>3, MapUpdate DEF TypeOK
<1>3. CASE PutAccepted(w)
  <2>1. ObjectMap(api')
    BY <1>3, <1>p DEF PutAccepted
  <2>2. TasksOK'
    <3>1. CASE w = "gateways"
      <4>1. task' = [task EXCEPT ![w] = [task[w] EXCEPT !.pc = "store"]]
        BY <1>0, <1>3, <3>1 DEF PutAccepted, Go, TasksOK
      <4>2. TaskOK(w, [task[w] EXCEPT !.pc = "store"])
        BY <1>0, <1>3 DEF PutAccepted, TaskOK, PCs
      <4> QED
        BY <1>0, <4>1, <4>2, TaskUpdate
    <3>2. CASE w # "gateways"
      BY <1>0, <1>3, <3>2, TaskSteps, TaskUpdate DEF PutAccepted, Update
    <3> QED
      BY <3>1, <3>2
  <2> QED
    BY <1>3, <2>1, <2>2 DEF PutAccepted, TypeOK, TasksOK, ObjectMap
<1>q. ASSUME task[w].pc = "put", ReturnRequeue(w)
      PROVE  /\ TasksOK'
             /\ queue' \in [Workers -> SUBSET Keys]
             /\ \A v \in Workers : queue'[v] \subseteq Own(v)
  <2>1. task[w].key \in Own(w)
    BY <1>0, <1>q DEF TaskOK
  <2>2. TasksOK'
    BY <1>0, <1>q, TaskSteps, TaskUpdate DEF ReturnRequeue
  <2> QED
    BY <1>q, <2>1, <2>2, KeysFacts DEF ReturnRequeue, TypeOK
<1>4. CASE PutRejected(w)
  BY <1>4, <1>q DEF PutRejected, TypeOK, TasksOK, ObjectMap, environment
<1>5. CASE PutFailed(w)
  <2>1. ObjectMap(api')
    BY <1>5, <1>p DEF PutFailed, TypeOK
  <2>2. Spent'
    BY <1>5, SpendOK DEF PutFailed
  <2> QED
    BY <1>5, <1>q, <2>1, <2>2 DEF PutFailed, TypeOK, TasksOK, ObjectMap, Spent
<1>6. CASE ReadGateways(w)
  <2> DEFINE t == [task[w] EXCEPT !.pc = "readRoutes", !.snap["gateways"] = Content(Gateways)]
  <2>1. task' = [task EXCEPT ![w] = t]
    BY <1>0, <1>6 DEF ReadGateways, TasksOK
  <2>2. Content(Gateways) \in Contents
    BY ContentOK DEF TypeOK, Keys
  <2>3. TaskOK(w, t)
    <3>1. task[w].snap \in [Workers -> Contents] /\ task[w].pc # "idle"
      BY <1>0, <1>6 DEF ReadGateways, TaskOK
    <3>2. [task[w].snap EXCEPT !["gateways"] = Content(Gateways)] \in [Workers -> Contents]
      BY <2>2, <3>1
    <3>3. HasFields(t, "readRoutes", task[w].key, task[w].base, task[w].obj,
                    [task[w].snap EXCEPT !["gateways"] = Content(Gateways)])
      BY <1>0 DEF HasFields, TaskOK
    <3> HIDE DEF t
    <3> QED
      BY <3>2, <3>3 DEF TaskOK, PCs, HasFields
  <2> QED
    BY <1>6, <2>1, <2>3, TaskOnly DEF ReadGateways
<1>7. CASE ReadRoutes(w)
  <2> DEFINE t == [task[w] EXCEPT !.pc = "publish", !.snap["httpRoutes"] = Content(Routes)]
  <2>1. task' = [task EXCEPT ![w] = t]
    BY <1>0, <1>7 DEF ReadRoutes, TasksOK
  <2>2. Content(Routes) \in Contents
    BY ContentOK DEF TypeOK, Keys
  <2>3. TaskOK(w, t)
    <3>1. task[w].snap \in [Workers -> Contents] /\ task[w].pc # "idle"
      BY <1>0, <1>7 DEF ReadRoutes, TaskOK
    <3>2. [task[w].snap EXCEPT !["httpRoutes"] = Content(Routes)] \in [Workers -> Contents]
      BY <2>2, <3>1
    <3>3. HasFields(t, "publish", task[w].key, task[w].base, task[w].obj,
                    [task[w].snap EXCEPT !["httpRoutes"] = Content(Routes)])
      BY <1>0 DEF HasFields, TaskOK
    <3> HIDE DEF t
    <3> QED
      BY <3>2, <3>3 DEF TaskOK, PCs, HasFields
  <2> QED
    BY <1>7, <2>1, <2>3, TaskOnly DEF ReadRoutes
<1>8. CASE Publish(w)
  <2>1. TasksOK'
    BY <1>0, <1>8, TaskSteps, TaskUpdate DEF Publish, Return
  <2>2. routes' \in [Workers -> Contents]
    BY <1>0, <1>8 DEF Publish, TaskOK
  <2> QED
    BY <1>8, <2>1, <2>2 DEF Publish, Return, TypeOK, TasksOK, ObjectMap, environment
<1> QED
  BY <1>1, <1>2, <1>3, <1>4, <1>5, <1>6, <1>7, <1>8

\* The steps of GatewayReconciler keep the types.
LEMMA GatewayTypeStep ==
  ASSUME TypeOK,
         GatewayForeign \/ GatewayNoAddress \/ GatewayFound \/ GatewayCompute
         \/ GatewayTorn \/ GatewayStore
  PROVE  TypeOK'
<1> DEFINE w == "gateways"
           u == task[w]
<1>0. /\ TasksOK /\ TaskOK(w, u) /\ w \in Workers
      /\ DOMAIN u = {"pc", "key", "base", "obj", "snap"}
  BY DEF TypeOK, TasksOK, Workers, TaskOK
<1>k. u.pc \in {"get", "store", "compute", "assign", "put"} =>
        u.key \in Gateways /\ u.key \in Keys /\ Objects(u.key) = GatewayObjects
  BY <1>0 DEF TaskOK, Own, Keys, Objects
<1>1. CASE GatewayForeign
  BY <1>0, <1>1, TaskSteps, TaskOnly DEF GatewayForeign, Return
<1>2. CASE GatewayNoAddress \/ GatewayTorn
  <2>1. TasksOK'
    BY <1>0, <1>2, TaskSteps, TaskUpdate DEF GatewayNoAddress, GatewayTorn, ReturnRequeue
  <2>2. /\ queue' \in [Workers -> SUBSET Keys]
        /\ \A v \in Workers : queue'[v] \subseteq Own(v)
    <3>1. /\ queue \in [Workers -> SUBSET Keys]
          /\ \A v \in Workers : queue[v] \subseteq Own(v)
      BY DEF TypeOK
    <3>2. /\ u.key \in Keys /\ u.key \in Own(w)
          /\ queue' = [queue EXCEPT ![w] = @ \union {u.key}]
      BY <1>2, <1>k DEF GatewayNoAddress, GatewayTorn, ReturnRequeue, gateway, Own
    <3> HIDE DEF w, u
    <3> QED
      BY <1>0, <3>1, <3>2
  <2> QED
    BY <1>2, <2>1, <2>2
       DEF GatewayNoAddress, GatewayTorn, TypeOK, TasksOK, ObjectMap, environment
<1>3. CASE GatewayFound
  <2> DEFINE o == cache[u.key]
             p == [o EXCEPT !.status.ip = lb]
             t == [u EXCEPT !.pc = "compute", !.base = o, !.obj = p]
  <2>1. u.pc = "get" /\ o # Absent
    BY <1>3 DEF GatewayFound, gateway
  <2>2. o \in GatewayObjects
    BY <1>k, <2>1 DEF TypeOK, ObjectMap
  <2>3. p \in GatewayObjects
    BY <2>2 DEF TypeOK, GatewayObjects
  <2>4. task' = [task EXCEPT ![w] = t]
    BY <1>0, <1>3 DEF GatewayFound, gateway, TasksOK
  <2>5. TaskOK(w, t)
    <3> HIDE DEF u, o, p
    <3>1. HasFields(t, "compute", u.key, o, p, u.snap)
      BY <1>0 DEF HasFields
    <3> HIDE DEF t
    <3> QED
      BY <1>0, <1>k, <2>1, <2>2, <2>3, <3>1 DEF TaskOK, PCs, Own, HasFields
  <2> QED
    BY <1>0, <1>3, <2>4, <2>5, TaskOnly DEF GatewayFound
<1>4. CASE GatewayCompute
  <2> DEFINE new == [u.obj.status EXCEPT !.obs = u.base.gen, !.attached = Attached(u.key, store)]
             q == IF new = u.base.status THEN "store" ELSE "put"
             p == [u.obj EXCEPT !.status = new]
             t == [u EXCEPT !.obj = p, !.pc = q]
  <2>1. u.pc = "compute" /\ u.obj \in GatewayObjects /\ u.base \in GatewayObjects
    BY <1>0, <1>k, <1>4 DEF GatewayCompute, gateway, TaskOK
  <2>2. Attached(u.key, store) \in 0..Cardinality(Routes)
    BY AttachedBound
  <2>3. p \in GatewayObjects
    BY <2>1, <2>2 DEF GatewayObjects
  <2>4. task' = [task EXCEPT ![w] = t]
    BY <1>0, <1>4 DEF GatewayCompute, gateway, TasksOK
  <2>5. TaskOK(w, t)
    <3>0. q \in {"store", "put"}
      OBVIOUS
    <3> HIDE DEF u, p, q
    <3>1. HasFields(t, q, u.key, u.base, p, u.snap)
      BY <1>0 DEF HasFields
    <3> HIDE DEF t
    <3> QED
      BY <1>0, <1>k, <2>1, <2>3, <3>0, <3>1 DEF TaskOK, PCs, Own, HasFields
  <2> QED
    BY <1>0, <1>4, <2>4, <2>5, TaskOnly DEF GatewayCompute
<1>5. CASE GatewayStore
  <2>1. u.pc = "store" /\ u.obj \in GatewayObjects
    BY <1>0, <1>k, <1>5 DEF GatewayStore, gateway, TaskOK
  <2>2. ObjectMap(store')
    BY <1>k, <1>5, <2>1, MapUpdate DEF GatewayStore, gateway, TypeOK
  <2>3. TasksOK'
    BY <1>0, <1>5, TaskSteps, TaskUpdate DEF GatewayStore, Update
  <2> QED
    BY <1>5, <2>2, <2>3 DEF GatewayStore, TypeOK, TasksOK, ObjectMap, environment
<1> QED
  BY <1>1, <1>2, <1>3, <1>4, <1>5

\* The steps of HTTPRouteReconciler keep the types.  The assignment in place
\* changes an object of State, which is the one the worker holds.
LEMMA RouteTypeStep ==
  ASSUME TypeOK, RouteShared, RouteFound \/ RouteStore \/ RouteCompute \/ RouteAssign
  PROVE  TypeOK'
<1> DEFINE w == "httpRoutes"
           u == task[w]
<1>0. /\ TasksOK /\ TaskOK(w, u) /\ w \in Workers
      /\ DOMAIN u = {"pc", "key", "base", "obj", "snap"}
  BY DEF TypeOK, TasksOK, Workers, TaskOK
<1>k. u.pc \in {"get", "store", "compute", "assign", "put"} =>
        u.key \in Routes /\ u.key \in Keys /\ Objects(u.key) = RouteObjects
  BY <1>0, KeysAssumption DEF TaskOK, Own, Keys, Objects
<1>1. CASE RouteFound
  <2> DEFINE o == cache[u.key]
             t == [u EXCEPT !.pc = "store", !.base = o, !.obj = o]
  <2>1. u.pc = "get" /\ o # Absent
    BY <1>1 DEF RouteFound, route
  <2>2. o \in RouteObjects
    BY <1>k, <2>1 DEF TypeOK, ObjectMap
  <2>4. task' = [task EXCEPT ![w] = t]
    BY <1>0, <1>1 DEF RouteFound, route, TasksOK
  <2>5. TaskOK(w, t)
    <3> HIDE DEF u, o
    <3>1. HasFields(t, "store", u.key, o, o, u.snap)
      BY <1>0 DEF HasFields
    <3> HIDE DEF t
    <3> QED
      BY <1>0, <1>k, <2>1, <2>2, <3>1 DEF TaskOK, PCs, Own, HasFields
  <2> QED
    BY <1>0, <1>1, <2>4, <2>5, TaskOnly DEF RouteFound
<1>2. CASE RouteStore
  <2> DEFINE t == [u EXCEPT !.pc = "compute"]
  <2>1. u.pc = "store" /\ u.obj \in RouteObjects
    BY <1>0, <1>k, <1>2 DEF RouteStore, route, TaskOK
  <2>2. ObjectMap(store')
    BY <1>k, <1>2, <2>1, MapUpdate DEF RouteStore, route, TypeOK
  <2>3. TaskOK(w, t)
    BY <1>0, <2>1 DEF TaskOK, PCs
  <2>4. TasksOK'
    BY <1>0, <1>2, <2>3, TaskUpdate DEF RouteStore, Go, TasksOK
  <2> QED
    BY <1>2, <2>2, <2>4 DEF RouteStore, TypeOK, TasksOK, ObjectMap, environment
<1>3. CASE RouteCompute
  <2> DEFINE new == RouteStatus(u.obj, store)
  <2>1. u.pc = "compute" /\ u.obj \in RouteObjects /\ u.base \in RouteObjects
    BY <1>0, <1>k, <1>3 DEF RouteCompute, route, TaskOK
  <2>2. CASE new = u.base.status
    <3>1. task' = [task EXCEPT ![w] = [Idle EXCEPT !.pc = "readGateways"]]
          /\ UNCHANGED <<environment, queue, store, routes>>
      BY <1>3, <2>2 DEF RouteCompute, route, Update
    <3> QED
      BY <1>0, <3>1, TaskSteps, TaskOnly
  <2>3. CASE new # u.base.status
    <3> DEFINE p == [u.obj EXCEPT !.status = new]
               t == [u EXCEPT !.pc = "assign", !.obj = p]
    <3>1. p \in RouteObjects
      BY <2>1, RouteStatusFacts
    <3>2. task' = [task EXCEPT !["httpRoutes"].pc = "assign", !["httpRoutes"].obj.status = new]
          /\ UNCHANGED <<environment, queue, store, routes>>
      BY <1>3, <2>3 DEF RouteCompute, route
    <3>3. task' = [task EXCEPT ![w] = t]
      BY <1>0, <3>2 DEF TasksOK
    <3>4. TaskOK(w, t)
      <4> HIDE DEF u, p
      <4>1. HasFields(t, "assign", u.key, u.base, p, u.snap)
        BY <1>0 DEF HasFields
      <4> HIDE DEF t
      <4> QED
        BY <1>0, <1>k, <2>1, <3>1, <4>1 DEF TaskOK, PCs, Own, HasFields
    <3> QED
      BY <1>0, <3>2, <3>3, <3>4, TaskOnly
  <2> QED
    BY <2>2, <2>3
<1>4. CASE RouteAssign
  <2> DEFINE t == [u EXCEPT !.pc = "put"]
             o == [store[u.key] EXCEPT !.status = u.obj.status]
  <2>1. u.pc = "assign" /\ u.obj \in RouteObjects
    BY <1>0, <1>k, <1>4 DEF RouteAssign, route, TaskOK
  <2>2. store[u.key] = [u.obj EXCEPT !.status = store[u.key].status]
    BY <2>1 DEF RouteShared, route
  <2>3. o \in RouteObjects
    BY <2>1, <2>2 DEF RouteObjects
  <2>4. store' = [store EXCEPT ![u.key] = o]
    BY <1>k, <1>4, <2>1 DEF RouteAssign, route, TypeOK, ObjectMap
  <2>5. ObjectMap(store')
    <3> HIDE DEF u, o
    <3> QED
      BY <1>k, <2>1, <2>3, <2>4, MapUpdate DEF TypeOK
  <2>6. TaskOK(w, t)
    BY <1>0, <2>1 DEF TaskOK, PCs
  <2>7. TasksOK'
    BY <1>0, <1>4, <2>6, TaskUpdate DEF RouteAssign, Go, TasksOK
  <2> QED
    BY <1>4, <2>5, <2>7 DEF RouteAssign, TypeOK, TasksOK, ObjectMap, environment
<1> QED
  BY <1>1, <1>2, <1>3, <1>4

\* Every step keeps the types.
LEMMA TypeStep == TypeOK /\ RouteShared /\ [Next]_vars => TypeOK'
<1> SUFFICES ASSUME TypeOK, RouteShared, [Next]_vars PROVE TypeOK'
  OBVIOUS
<1>1. CASE UNCHANGED vars
  BY <1>1 DEF vars, TypeOK, ObjectMap
<1>2. CASE \/ \E k \in Keys : Apply(k) \/ Remove(k) \/ Deliver(k) \/ Resync(k)
           \/ AssignAddress \/ ChangePlatform \/ Restart
  BY <1>2, EnvironmentTypeStep
<1>3. ASSUME NEW w \in Workers, Reconcile(w) \/ PutFailed(w) \/ \E k \in Keys : Take(w, k)
      PROVE  TypeOK'
  BY <1>3, SharedTypeStep, GatewayTypeStep, RouteTypeStep DEF Reconcile
<1> QED
  BY <1>1, <1>2, <1>3 DEF Next

----------------------------------------------------------------------------
(* What the workers hold: the rest of the inductive invariant. *)

\* The object a worker works on is the one it read but for the status, and a
\* status on its way to the API server speaks of that object's generation.
HeldOK(t) ==
  /\ t.pc \in {"store", "compute", "assign", "put"} => t.obj.gen = t.base.gen
  /\ t.pc \in {"assign", "put"} => Observed(t.key, t.obj) \subseteq {t.base.gen}

Held == \A w \in Workers : HeldOK(task[w])

\* The inductive invariant: the types of what RouteCompute assigns in State
\* rest on RouteShared, and what a status write changes rests on Held.
IInv == TypeOK /\ RouteShared /\ Held

\* A step of one worker keeps Held if its new task satisfies it.
LEMMA HeldUpdate ==
  ASSUME TasksOK, Held, NEW w \in Workers, NEW t, HeldOK(t),
         task' = [task EXCEPT ![w] = t]
  PROVE  Held'
  BY DEF TasksOK, Held, HeldOK

\* A worker that works on no object holds nothing.
LEMMA HeldNothing ==
  ASSUME NEW t, t.pc \notin {"store", "compute", "assign", "put"} PROVE HeldOK(t)
  BY DEF HeldOK

\* Users, the informers, a restart and the steps both reconcilers have keep it.
LEMMA SharedHeldStep ==
  ASSUME TypeOK, Held, NEW w \in Workers,
         \/ UNCHANGED task
         \/ Restart
         \/ \E k \in Keys : Take(w, k)
         \/ Gone(w) \/ PutAccepted(w) \/ PutRejected(w) \/ PutFailed(w)
         \/ ReadGateways(w) \/ ReadRoutes(w) \/ Publish(w)
  PROVE  Held'
<1>0. TasksOK /\ TaskOK(w, task[w]) /\ HeldOK(task[w])
  BY DEF TypeOK, TasksOK, Held
<1>u. DOMAIN task[w] = {"pc", "key", "base", "obj", "snap"}
  BY <1>0 DEF TaskOK
<1>i. HeldOK(Idle) /\ HeldOK([Idle EXCEPT !.pc = "readGateways"])
  BY DEF Idle, HeldOK
<1>1. CASE UNCHANGED task
  BY <1>1 DEF Held, HeldOK
<1>2. CASE Restart
  BY <1>2, <1>i DEF Restart, Held
<1>3. ASSUME NEW k \in Keys, Take(w, k) PROVE Held'
  <2> DEFINE t == [task[w] EXCEPT !.pc = "get", !.key = k]
  <2>1. t.pc = "get"
    BY <1>u
  <2>2. task' = [task EXCEPT ![w] = t]
    BY <1>3, <1>0 DEF Take, TasksOK
  <2> QED
    BY <1>0, <2>1, <2>2, HeldNothing, HeldUpdate
<1>4. CASE Gone(w)
  BY <1>0, <1>i, <1>4, HeldUpdate DEF Gone, Update
<1>5. CASE PutAccepted(w)
  <2>1. CASE w = "gateways"
    <3>1. task' = [task EXCEPT ![w] = [task[w] EXCEPT !.pc = "store"]]
      BY <1>0, <1>5, <2>1 DEF PutAccepted, Go, TasksOK
    <3>2. HeldOK([task[w] EXCEPT !.pc = "store"])
      BY <1>0, <1>5, <1>u DEF PutAccepted, HeldOK
    <3> QED
      BY <1>0, <3>1, <3>2, HeldUpdate
  <2>2. CASE w # "gateways"
    BY <1>0, <1>i, <1>5, <2>2, HeldUpdate DEF PutAccepted, Update
  <2> QED
    BY <2>1, <2>2
<1>6. CASE PutRejected(w) \/ PutFailed(w)
  BY <1>0, <1>i, <1>6, HeldUpdate DEF PutRejected, PutFailed, ReturnRequeue
<1>7. CASE ReadGateways(w)
  <2> DEFINE t == [task[w] EXCEPT !.pc = "readRoutes", !.snap["gateways"] = Content(Gateways)]
  <2>1. t.pc = "readRoutes"
    BY <1>u
  <2>2. task' = [task EXCEPT ![w] = t]
    BY <1>7, <1>0 DEF ReadGateways, TasksOK
  <2> QED
    BY <1>0, <2>1, <2>2, HeldNothing, HeldUpdate
<1>8. CASE ReadRoutes(w)
  <2> DEFINE t == [task[w] EXCEPT !.pc = "publish", !.snap["httpRoutes"] = Content(Routes)]
  <2>1. t.pc = "publish"
    BY <1>u
  <2>2. task' = [task EXCEPT ![w] = t]
    BY <1>8, <1>0 DEF ReadRoutes, TasksOK
  <2> QED
    BY <1>0, <2>1, <2>2, HeldNothing, HeldUpdate
<1>9. CASE Publish(w)
  BY <1>0, <1>i, <1>9, HeldUpdate DEF Publish, Return
<1> QED
  BY <1>1, <1>2, <1>3, <1>4, <1>5, <1>6, <1>7, <1>8, <1>9

\* GatewayReconciler only changes the status of the object it read, and sets
\* the generation it read in it.
LEMMA GatewayHeldStep ==
  ASSUME TypeOK, Held,
         GatewayForeign \/ GatewayNoAddress \/ GatewayFound \/ GatewayCompute
         \/ GatewayTorn \/ GatewayStore
  PROVE  Held'
<1> DEFINE w == "gateways"
           u == task[w]
<1>0. /\ TasksOK /\ TaskOK(w, u) /\ HeldOK(u) /\ w \in Workers
      /\ DOMAIN u = {"pc", "key", "base", "obj", "snap"}
  BY DEF TypeOK, TasksOK, Workers, TaskOK, Held
<1>k. u.pc \in {"get", "store", "compute", "assign", "put"} =>
        u.key \in Gateways /\ u.key \in Keys /\ Objects(u.key) = GatewayObjects
  BY <1>0 DEF TaskOK, Own, Keys, Objects
<1>i. HeldOK(Idle) /\ HeldOK([Idle EXCEPT !.pc = "readGateways"])
  BY DEF Idle, HeldOK
<1>1. CASE GatewayForeign \/ GatewayNoAddress \/ GatewayTorn
  BY <1>0, <1>i, <1>1, HeldUpdate
     DEF GatewayForeign, GatewayNoAddress, GatewayTorn, Return, ReturnRequeue
<1>2. CASE GatewayFound
  <2> DEFINE o == cache[u.key]
             p == [o EXCEPT !.status.ip = lb]
             t == [u EXCEPT !.pc = "compute", !.base = o, !.obj = p]
  <2>1. u.pc = "get" /\ o # Absent
    BY <1>2 DEF GatewayFound, gateway
  <2>o. o \in GatewayObjects
    BY <1>k, <2>1 DEF TypeOK, ObjectMap
  <2>2. p.gen = o.gen
    BY <2>o DEF GatewayObjects
  <2>3. task' = [task EXCEPT ![w] = t]
    BY <1>0, <1>2 DEF GatewayFound, gateway, TasksOK
  <2>4. HeldOK(t)
    <3> HIDE DEF u, o, p
    <3>1. HasFields(t, "compute", u.key, o, p, u.snap)
      BY <1>0 DEF HasFields
    <3> HIDE DEF t
    <3> QED
      BY <2>2, <3>1 DEF HeldOK, HasFields
  <2> QED
    BY <1>0, <2>3, <2>4, HeldUpdate
<1>3. CASE GatewayCompute
  <2> DEFINE new == [u.obj.status EXCEPT !.obs = u.base.gen, !.attached = Attached(u.key, store)]
             q == IF new = u.base.status THEN "store" ELSE "put"
             p == [u.obj EXCEPT !.status = new]
             t == [u EXCEPT !.obj = p, !.pc = q]
  <2>1. u.pc = "compute" /\ u.obj \in GatewayObjects
    BY <1>0, <1>k, <1>3 DEF GatewayCompute, gateway, TaskOK
  <2>2. p.gen = u.base.gen /\ p.status.obs = u.base.gen
    BY <1>0, <2>1 DEF GatewayObjects, HeldOK
  <2>3. task' = [task EXCEPT ![w] = t]
    BY <1>0, <1>3 DEF GatewayCompute, gateway, TasksOK
  <2>4. HeldOK(t)
    <3>0. Observed(u.key, p) = {u.base.gen}
      BY <1>k, <2>1, <2>2 DEF Observed
    <3> HIDE DEF u, p, q
    <3>1. HasFields(t, q, u.key, u.base, p, u.snap)
      BY <1>0 DEF HasFields
    <3> HIDE DEF t
    <3> QED
      BY <2>2, <3>0, <3>1 DEF HeldOK, HasFields
  <2> QED
    BY <1>0, <2>3, <2>4, HeldUpdate
<1>4. CASE GatewayStore
  BY <1>0, <1>i, <1>4, HeldUpdate DEF GatewayStore, Update
<1> QED
  BY <1>1, <1>2, <1>3, <1>4

\* HTTPRouteReconciler only assigns the status it computed from the object it
\* read, with that object's generation in every condition.
LEMMA RouteHeldStep ==
  ASSUME TypeOK, Held, RouteFound \/ RouteStore \/ RouteCompute \/ RouteAssign
  PROVE  Held'
<1> DEFINE w == "httpRoutes"
           u == task[w]
<1>0. /\ TasksOK /\ TaskOK(w, u) /\ HeldOK(u) /\ w \in Workers
      /\ DOMAIN u = {"pc", "key", "base", "obj", "snap"}
  BY DEF TypeOK, TasksOK, Workers, TaskOK, Held
<1>k. u.pc \in {"get", "store", "compute", "assign", "put"} =>
        u.key \notin Gateways /\ Objects(u.key) = RouteObjects
  BY <1>0, KeysAssumption DEF TaskOK, Own, Objects
<1>1. CASE RouteFound
  <2> DEFINE o == cache[u.key]
             t == [u EXCEPT !.pc = "store", !.base = o, !.obj = o]
  <2>1. task' = [task EXCEPT ![w] = t]
    BY <1>0, <1>1 DEF RouteFound, route, TasksOK
  <2>2. HeldOK(t)
    <3> HIDE DEF u, o
    <3>1. HasFields(t, "store", u.key, o, o, u.snap)
      BY <1>0 DEF HasFields
    <3> HIDE DEF t
    <3> QED
      BY <3>1 DEF HeldOK, HasFields
  <2> QED
    BY <1>0, <2>1, <2>2, HeldUpdate
<1>2. CASE RouteStore
  <2> DEFINE t == [u EXCEPT !.pc = "compute"]
  <2>1. task' = [task EXCEPT ![w] = t]
    BY <1>0, <1>2 DEF RouteStore, route, Go, TasksOK
  <2>2. HeldOK(t)
    BY <1>0, <1>2 DEF RouteStore, route, HeldOK
  <2> QED
    BY <1>0, <2>1, <2>2, HeldUpdate
<1>3. CASE RouteCompute
  <2> DEFINE new == RouteStatus(u.obj, store)
  <2>1. u.pc = "compute" /\ u.obj \in RouteObjects
    BY <1>0, <1>k, <1>3 DEF RouteCompute, route, TaskOK
  <2>2. CASE new = u.base.status
    <3>1. task' = [task EXCEPT ![w] = [Idle EXCEPT !.pc = "readGateways"]]
      BY <1>3, <2>2 DEF RouteCompute, route, Update
    <3>2. HeldOK([Idle EXCEPT !.pc = "readGateways"])
      BY DEF Idle, HeldOK
    <3> QED
      BY <1>0, <3>1, <3>2, HeldUpdate
  <2>3. CASE new # u.base.status
    <3> DEFINE p == [u.obj EXCEPT !.status = new]
               t == [u EXCEPT !.pc = "assign", !.obj = p]
    <3>1. task' = [task EXCEPT !["httpRoutes"].pc = "assign", !["httpRoutes"].obj.status = new]
      BY <1>3, <2>3 DEF RouteCompute, route
    <3>2. task' = [task EXCEPT ![w] = t]
      BY <1>0, <3>1 DEF TasksOK
    <3>3. p.gen = u.base.gen /\ p.status = new
      BY <1>0, <2>1 DEF HeldOK, RouteObjects
    <3>4. \A q \in DOMAIN new : new[q].obs = u.base.gen
      BY <1>0, <2>1, RouteStatusFacts DEF HeldOK
    <3>5. Observed(u.key, p) \subseteq {u.base.gen}
      BY <1>k, <2>1, <3>3, <3>4 DEF Observed
    <3>6. HeldOK(t)
      <4> HIDE DEF u, p
      <4>1. HasFields(t, "assign", u.key, u.base, p, u.snap)
        BY <1>0 DEF HasFields
      <4> HIDE DEF t
      <4> QED
        BY <3>3, <3>5, <4>1 DEF HeldOK, HasFields
    <3> QED
      BY <1>0, <3>2, <3>6, HeldUpdate
  <2> QED
    BY <2>2, <2>3
<1>4. CASE RouteAssign
  <2> DEFINE t == [u EXCEPT !.pc = "put"]
  <2>1. task' = [task EXCEPT ![w] = t]
    BY <1>0, <1>4 DEF RouteAssign, route, Go, TasksOK
  <2>2. HeldOK(t)
    <3>1. u.pc = "assign"
      BY <1>4 DEF RouteAssign, route
    <3> HIDE DEF u
    <3>2. HasFields(t, "put", u.key, u.base, u.obj, u.snap)
      BY <1>0 DEF HasFields
    <3> HIDE DEF t
    <3> QED
      BY <1>0, <3>1, <3>2 DEF HeldOK, HasFields
  <2> QED
    BY <1>0, <2>1, <2>2, HeldUpdate
<1> QED
  BY <1>1, <1>2, <1>3, <1>4

\* Every step keeps Held.
LEMMA HeldStep == TypeOK /\ Held /\ [Next]_vars => Held'
<1> SUFFICES ASSUME TypeOK, Held, [Next]_vars PROVE Held'
  OBVIOUS
<1>1. CASE UNCHANGED vars
  BY <1>1 DEF vars, Held, HeldOK
<1>2. CASE \/ \E k \in Keys : Apply(k) \/ Remove(k) \/ Deliver(k) \/ Resync(k)
           \/ AssignAddress \/ ChangePlatform \/ Restart
  <2>1. "gateways" \in Workers
    BY DEF Workers
  <2>2. Restart \/ UNCHANGED task
    BY <1>2 DEF Apply, Remove, Deliver, Resync, AssignAddress, ChangePlatform
  <2> QED
    BY <2>1, <2>2, SharedHeldStep
<1>3. ASSUME NEW w \in Workers, Reconcile(w) \/ PutFailed(w) \/ \E k \in Keys : Take(w, k)
      PROVE  Held'
  BY <1>3, SharedHeldStep, GatewayHeldStep, RouteHeldStep DEF Reconcile
<1> QED
  BY <1>1, <1>2, <1>3 DEF Next

----------------------------------------------------------------------------
(* The object of a route is shared with State. *)

\* What keeps RouteShared: the worker keeps its key and object, or it holds
\* none, and nobody else writes State's map of routes.
LEMMA RouteSharedKept ==
  ASSUME RouteShared,
         \/ route'.pc \notin {"compute", "assign", "put"}
         \/ /\ route.pc \in {"compute", "assign", "put"}
            /\ route' = route
            /\ store'[route.key] = store[route.key]
  PROVE  RouteShared'
  BY DEF RouteShared

\* Every step keeps the object of a route shared.
LEMMA RouteSharedStep == TypeOK /\ RouteShared /\ [Next]_vars => RouteShared'
<1> SUFFICES ASSUME TypeOK, RouteShared, [Next]_vars PROVE RouteShared'
  OBVIOUS
<1> DEFINE v == "httpRoutes"
<1>0. TasksOK /\ v \in Workers /\ Workers = {"gateways", "httpRoutes"}
  BY DEF TypeOK, TasksOK, Workers
<1>1. ASSUME UNCHANGED <<task, store>> PROVE RouteShared'
  BY <1>1 DEF RouteShared, route
<1>2. CASE UNCHANGED vars
  BY <1>1, <1>2 DEF vars
<1>3. CASE \/ \E k \in Keys : Apply(k) \/ Remove(k) \/ Deliver(k) \/ Resync(k)
           \/ AssignAddress \/ ChangePlatform
  BY <1>1, <1>3 DEF Apply, Remove, Deliver, Resync, AssignAddress, ChangePlatform
<1>4. CASE Restart
  <2>1. route'.pc = "idle"
    BY <1>0, <1>4 DEF Restart, Idle, route
  <2> QED
    BY <2>1, RouteSharedKept
\* The other worker moves on: it writes only Gateways.
<1>5. ASSUME NEW t, task' = [task EXCEPT !["gateways"] = t],
             \/ UNCHANGED store
             \/ \E k \in Gateways : \E o : store' = [store EXCEPT ![k] = o]
      PROVE  RouteShared'
  <2>1. route' = route
    BY <1>0, <1>5 DEF TasksOK, route
  <2>2. CASE route.pc \in {"compute", "assign", "put"}
    <3>1. route.key \in Routes
      BY <1>0, <2>2 DEF TasksOK, TaskOK, route, Own
    <3>2. store'[route.key] = store[route.key]
      <4>1. DOMAIN store = Keys /\ store = [j \in Keys |-> store[j]]
        BY DEF TypeOK, ObjectMap
      <4>2. route.key \in Keys /\ route.key \notin Gateways
        BY <3>1, KeysAssumption DEF Keys
      <4> QED
        BY <1>5, <4>1, <4>2
    <3> QED
      BY <2>1, <2>2, <3>2, RouteSharedKept
  <2>3. CASE route.pc \notin {"compute", "assign", "put"}
    BY <2>1, <2>3, RouteSharedKept
  <2> QED
    BY <2>2, <2>3
<1>6. CASE \/ Reconcile("gateways") \/ PutFailed("gateways")
           \/ \E k \in Keys : Take("gateways", k)
  <2> DEFINE w == "gateways"
  <2>0. w # v /\ w \in Workers /\ TaskOK(w, task[w])
    BY <1>0 DEF TypeOK
  <2>k. task[w].pc \in {"get", "store"} => task[w].key \in Gateways
    BY <2>0 DEF TaskOK, Own
  <2>1. \E t : task' = [task EXCEPT !["gateways"] = t]
    <3>1. CASE PutFailed(w) \/ \E k \in Keys : Take(w, k)
      BY <3>1, <1>0 DEF PutFailed, Take, Return, ReturnRequeue, TasksOK
    <3>2. CASE Gone(w) \/ PutRejected(w) \/ Publish(w)
      BY <3>2 DEF Gone, PutRejected, Publish, Update, Return, ReturnRequeue
    <3>6. CASE PutAccepted(w)
      BY <3>6, <1>0 DEF PutAccepted, Go, TasksOK
    <3>3. CASE ReadGateways(w) \/ ReadRoutes(w)
      BY <3>3, <1>0 DEF ReadGateways, ReadRoutes, TasksOK
    <3>4. CASE GatewayForeign \/ GatewayNoAddress \/ GatewayFound
      BY <3>4, <1>0 DEF GatewayForeign, GatewayNoAddress, GatewayFound, Return,
                        ReturnRequeue, Go, TasksOK
    <3>5. CASE GatewayTorn \/ GatewayStore
      BY <3>5 DEF GatewayTorn, GatewayStore, Update, ReturnRequeue
    <3>7. CASE GatewayCompute
      BY <3>7, <1>0 DEF GatewayCompute, TasksOK
    <3> QED
      BY <1>6, <3>1, <3>2, <3>3, <3>4, <3>5, <3>6, <3>7 DEF Reconcile
  <2>2. \/ UNCHANGED store
        \/ \E k \in Gateways : \E o : store' = [store EXCEPT ![k] = o]
    BY <1>6, <2>k
       DEF Reconcile, PutFailed, Take, Gone, PutAccepted, PutRejected, ReadGateways,
           ReadRoutes, Publish, GatewayForeign, GatewayNoAddress, GatewayFound,
           GatewayCompute, GatewayTorn, GatewayStore, gateway
  <2> QED
    BY <1>5, <2>1, <2>2
\* HTTPRouteReconciler moves: it works on a shared object in four steps only.
<1>7. ASSUME NEW t, task' = [task EXCEPT ![v] = t], t.pc \notin {"compute", "assign", "put"}
      PROVE  RouteShared'
  <2>1. route' = t
    BY <1>0, <1>7 DEF TasksOK, route
  <2> QED
    BY <1>7, <2>1, RouteSharedKept
<1>8. CASE \/ Reconcile(v) \/ PutFailed(v) \/ \E k \in Keys : Take(v, k)
  <2>0. TaskOK(v, task[v]) /\ DOMAIN task[v] = {"pc", "key", "base", "obj", "snap"}
    BY <1>0 DEF TypeOK, TaskOK
  <2>i. /\ Idle.pc \notin {"compute", "assign", "put"}
        /\ [Idle EXCEPT !.pc = "readGateways"].pc \notin {"compute", "assign", "put"}
    BY DEF Idle
  <2>1. ASSUME NEW k \in Keys, Take(v, k) PROVE RouteShared'
    <3> DEFINE t == [task[v] EXCEPT !.pc = "get", !.key = k]
    <3>1. t.pc = "get"
      BY <2>0
    <3>2. task' = [task EXCEPT ![v] = t]
      BY <1>0, <2>1 DEF Take, TasksOK
    <3> HIDE DEF t
    <3> QED
      BY <1>7, <3>1, <3>2
  <2>2. CASE Gone(v) \/ PutAccepted(v) \/ PutRejected(v) \/ PutFailed(v) \/ Publish(v)
    BY <1>7, <2>i, <2>2
       DEF Gone, PutAccepted, PutRejected, PutFailed, Publish, Update, Return, ReturnRequeue
  <2>3. CASE ReadGateways(v)
    <3> DEFINE t == [task[v] EXCEPT !.pc = "readRoutes", !.snap["gateways"] = Content(Gateways)]
    <3>1. t.pc = "readRoutes"
      BY <2>0
    <3>2. task' = [task EXCEPT ![v] = t]
      <4>1. task' = [task EXCEPT ![v].pc = "readRoutes", ![v].snap["gateways"] = Content(Gateways)]
        BY <2>3 DEF ReadGateways
      <4>2. v \in Workers /\ task = [x \in Workers |-> task[x]]
        BY <1>0 DEF TasksOK
      <4> QED
        BY <4>1, <4>2
    <3> HIDE DEF t
    <3> QED
      BY <1>7, <3>1, <3>2
  <2>4. CASE ReadRoutes(v)
    <3> DEFINE t == [task[v] EXCEPT !.pc = "publish", !.snap["httpRoutes"] = Content(Routes)]
    <3>1. t.pc = "publish"
      BY <2>0
    <3>2. task' = [task EXCEPT ![v] = t]
      <4>1. task' = [task EXCEPT ![v].pc = "publish", ![v].snap["httpRoutes"] = Content(Routes)]
        BY <2>4 DEF ReadRoutes
      <4>2. v \in Workers /\ task = [x \in Workers |-> task[x]]
        BY <1>0 DEF TasksOK
      <4> QED
        BY <4>1, <4>2
    <3> HIDE DEF t
    <3> QED
      BY <1>7, <3>1, <3>2
  <2>5. CASE RouteFound
    <3> DEFINE t == [task[v] EXCEPT !.pc = "store", !.base = cache[task[v].key],
                                    !.obj = cache[task[v].key]]
    <3>1. t.pc = "store"
      BY <2>0
    <3>2. task' = [task EXCEPT ![v] = t]
      BY <1>0, <2>5 DEF RouteFound, route, TasksOK
    <3> HIDE DEF t
    <3> QED
      BY <1>7, <3>1, <3>2
  <2>6. CASE RouteStore
    <3>1. route'.key = route.key /\ route'.obj = route.obj /\ route'.pc = "compute"
      BY <1>0, <2>0, <2>6 DEF RouteStore, Go, route, TasksOK
    <3>2. route.key \in Keys
      BY <2>0, <2>6, KeysFacts DEF RouteStore, route, TaskOK
    <3>3. store'[route.key] = route.obj
      BY <2>6, <3>2 DEF RouteStore, TypeOK, ObjectMap
    <3> QED
      BY <3>1, <3>3 DEF RouteShared
  <2>7. CASE RouteCompute
    <3> DEFINE new == RouteStatus(route.obj, store)
    <3>1. CASE new = route.base.status
      BY <1>7, <2>i, <2>7, <3>1 DEF RouteCompute, Update
    <3>2. CASE new # route.base.status
      <4>1. /\ route.pc = "compute"
            /\ store' = store
            /\ task' = [task EXCEPT !["httpRoutes"].pc = "assign",
                                    !["httpRoutes"].obj.status = new]
        BY <2>7, <3>2 DEF RouteCompute
      <4>2. /\ route'.key = route.key
            /\ route'.obj = [route.obj EXCEPT !.status = new]
            /\ route'.pc = "assign"
        BY <1>0, <2>0, <4>1 DEF route, TasksOK
      <4>3. route.obj \in RouteObjects /\ store[route.key] = route.obj
        BY <2>0, <4>1, KeysFacts DEF RouteShared, route, TaskOK
      <4>4. route.obj = [route'.obj EXCEPT !.status = route.obj.status]
        BY <4>2, <4>3 DEF RouteObjects
      <4>5. route.obj # Absent
        <5>1. route.key \in Own("httpRoutes")
          BY <2>0, <4>1 DEF route, TaskOK
        <5> QED
          BY <4>3, <5>1, KeysFacts, AbsentAssumption
      <4> QED
        BY <4>1, <4>2, <4>3, <4>4, <4>5 DEF RouteShared
    <3> QED
      BY <3>1, <3>2
  <2>8. CASE RouteAssign
    <3> DEFINE o == [store[route.key] EXCEPT !.status = route.obj.status]
    <3>1. route.pc = "assign" /\ route.obj \in RouteObjects /\ route.key \in Keys
      BY <2>0, <2>8, KeysFacts DEF RouteAssign, route, TaskOK
    <3>2. store[route.key] = [route.obj EXCEPT !.status = store[route.key].status]
      BY <3>1 DEF RouteShared
    <3>3. o = route.obj
      BY <3>1, <3>2 DEF RouteObjects
    <3>4. store'[route.key] = o
      BY <2>8, <3>1 DEF RouteAssign, TypeOK, ObjectMap
    <3>5. route'.key = route.key /\ route'.obj = route.obj /\ route'.pc = "put"
      BY <1>0, <2>0, <2>8 DEF RouteAssign, Go, route, TasksOK
    <3> QED
      BY <3>3, <3>4, <3>5 DEF RouteShared
  <2>9. v # "gateways"
    OBVIOUS
  <2> QED
    BY <1>8, <2>1, <2>2, <2>3, <2>4, <2>5, <2>6, <2>7, <2>8, <2>9 DEF Reconcile
<1> QED
  BY <1>0, <1>2, <1>3, <1>4, <1>6, <1>8 DEF Next

----------------------------------------------------------------------------
(* The theorems. *)

\* The process starts with nothing held.
LEMMA InitIInv == Init => IInv
<1> SUFFICES ASSUME Init PROVE IInv
  OBVIOUS
<1>1. \A w \in Workers : task[w].pc = "idle"
  BY DEF Init, Idle
<1>2. RouteShared /\ Held
  BY <1>1 DEF RouteShared, route, Workers, Held, HeldOK
<1> QED
  BY <1>2, InitTypeOK DEF IInv

\* The invariant is inductive.
LEMMA NextIInv == IInv /\ [Next]_vars => IInv'
  BY TypeStep, RouteSharedStep, HeldStep DEF IInv

\* The inductive invariant holds in every reachable state.
THEOREM Invariance == Spec => []IInv
  BY InitIInv, NextIInv, PTL DEF Spec

\* Every object is one of its kind, every request is for the controller whose
\* queue it is in, and a worker holds what its place in Reconcile lets it hold.
THEOREM TypeCorrect == Spec => []TypeOK
<1>1. IInv => TypeOK
  BY DEF IInv
<1> QED
  BY Invariance, <1>1, PTL

\* The status HTTPRouteReconciler assigns in place lands in the object that
\* State holds, whatever the other reconciler, the users and the API server do
\* between the store and the return of Status().Update.
THEOREM RouteIsShared == Spec => []RouteShared
<1>1. IInv => RouteShared
  BY DEF IInv
<1> QED
  BY Invariance, <1>1, PTL

\* A status write that the API server takes is for the object that was read.
LEMMA PutStep ==
  ASSUME TypeOK, Held, NEW w \in Workers, NEW k \in Keys,
         task[w].pc = "put", api[task[w].key] = task[w].base,
         api' = [api EXCEPT ![task[w].key].status = task[w].obj.status],
         api'[k].status # api[k].status
  PROVE  api'[k].gen = api[k].gen /\ Observed(k, api'[k]) \subseteq {api[k].gen}
<1>1. TaskOK(w, task[w]) /\ HeldOK(task[w])
  BY DEF TypeOK, Held
<1>2. k = task[w].key
  BY DEF TypeOK, ObjectMap
<1>3. {task[w].base, task[w].obj} \subseteq Objects(k)
  BY <1>1, <1>2 DEF TaskOK
<1>4. api'[k] = [task[w].base EXCEPT !.status = task[w].obj.status]
  BY <1>2 DEF TypeOK, ObjectMap
<1>5. api'[k].gen = api[k].gen /\ api'[k].status = task[w].obj.status
  BY <1>2, <1>3, <1>4 DEF Objects, GatewayObjects, RouteObjects
<1>6. Observed(k, api'[k]) = Observed(k, task[w].obj)
  BY <1>5 DEF Observed
<1> QED
  BY <1>1, <1>2, <1>5, <1>6 DEF HeldOK

\* What StatusMovesForward asks of a step, under the inductive invariant.
LEMMA StatusStep ==
  ASSUME IInv, [Next]_vars, NEW k \in Keys, api[k] # Absent, api'[k] # Absent,
         api'[k].status # api[k].status
  PROVE  api'[k].gen = api[k].gen /\ Observed(k, api'[k]) \subseteq {api[k].gen}
<1> USE DEF IInv
<1>0. api = [j \in Keys |-> api[j]]
  BY DEF TypeOK, ObjectMap
<1>1. ASSUME NEW j \in Keys, Apply(j) PROVE FALSE
  <2>1. PICK s \in SpecsOf(j) :
          \/ /\ api[j] = Absent
             /\ api' = [api EXCEPT ![j] = New(j, changes[j] + 2, s)]
          \/ /\ api[j] # Absent
             /\ api' = [api EXCEPT ![j].gen = changes[j] + 2, ![j].spec = s]
    BY <1>1 DEF Apply
  <2>2. CASE j # k
    BY <1>0, <2>1, <2>2
  <2>3. CASE j = k
    <3>1. api[k] \in Objects(k)
      BY DEF TypeOK, ObjectMap
    <3>2. api'[k] = [api[k] EXCEPT !.gen = changes[k] + 2, !.spec = s]
      BY <1>0, <2>1, <2>3
    <3>3. api'[k].status = api[k].status
      BY <3>1, <3>2 DEF Objects, GatewayObjects, RouteObjects
    <3> QED
      BY <3>3
  <2> QED
    BY <2>2, <2>3
<1>2. ASSUME NEW j \in Keys, Remove(j) PROVE FALSE
  BY <1>0, <1>2 DEF Remove
<1>3. CASE \/ UNCHANGED vars
           \/ \E j \in Keys : Deliver(j) \/ Resync(j)
           \/ AssignAddress \/ ChangePlatform \/ Restart
  BY <1>3 DEF vars, Deliver, Resync, AssignAddress, ChangePlatform, Restart
<1>4. ASSUME NEW w \in Workers, PutAccepted(w) \/ PutFailed(w)
      PROVE  api'[k].gen = api[k].gen /\ Observed(k, api'[k]) \subseteq {api[k].gen}
  BY <1>4, PutStep DEF PutAccepted, PutFailed
<1>5. ASSUME NEW w \in Workers, Reconcile(w) \/ \E j \in Keys : Take(w, j), ~PutAccepted(w)
      PROVE  FALSE
  BY <1>5
     DEF environment, Reconcile, Take, Gone, PutRejected, ReadGateways, ReadRoutes, Publish,
         GatewayForeign, GatewayNoAddress, GatewayFound, GatewayCompute, GatewayTorn,
         GatewayStore, RouteFound, RouteStore, RouteCompute, RouteAssign
<1> QED
  BY <1>1, <1>2, <1>3, <1>4, <1>5 DEF Next

\* No status write marks a generation observed that its reconciler did not
\* read, or replaces the status of a newer object: optimistic concurrency
\* refuses the reconciler that worked on a stale cache.
THEOREM StatusGoesForward == Spec => StatusMovesForward
<1>1. IInv /\ [Next]_vars =>
        [\A k \in Keys :
           api[k] # Absent /\ api'[k] # Absent /\ api'[k].status # api[k].status
             => /\ api'[k].gen = api[k].gen
                /\ Observed(k, api'[k]) \subseteq {api[k].gen}]_vars
  BY StatusStep
<1> QED
  BY Invariance, <1>1, PTL DEF Spec, StatusMovesForward
=============================================================================
