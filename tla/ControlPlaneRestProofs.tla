----------------------- MODULE ControlPlaneRestProofs -----------------------
(***************************************************************************)
(* What ControlPlane comes to when nothing is on its way any more, and     *)
(* that it implements ProxySync: for any Gateways and specs, any finite    *)
(* set of routes, any addresses and bounds.                                *)
(***************************************************************************)
EXTENDS ControlPlaneProofs, Sequences

----------------------------------------------------------------------------
(* The inductive invariant: every object is attended to. *)

\* Where a Reconcile call holds the object it read.
Stages == {"store", "compute", "assign", "put"}

Working(w)    == task[w].pc \in Stages
Engaged(w, k) == task[w].key = k /\ task[w].pc \in Stages \union {"get"}

\* The generations given out so far.
Numbered(k, o) == o # Absent => o.gen \in 0..(changes[k] + 1)

AllNumbered ==
  /\ \A k \in Keys : Numbered(k, api[k]) /\ Numbered(k, cache[k])
  /\ \A w \in Workers :
       Working(w) => task[w].base # Absent /\ Numbered(task[w].key, task[w].base)

\* The status of o is what its reconciler would compute, as far as
\* ObservedAtRest speaks of it.
Right(k, o) ==
  IF k \in Gateways
  THEN lb # NoIP /\ o.status.ip = lb /\ o.status.obs = o.gen
  ELSE /\ DOMAIN o.status = o.spec.parents
       /\ \A p \in o.spec.parents :
            /\ o.status[p].obs = o.gen
            /\ (o.status[p].reason = "UnsupportedValue") = ~o.spec.valid

Foreign(k, o) == k \in Gateways /\ ~Managed(o)

\* State and the status are what the cache calls for, or the cache is behind.
Settled(k) ==
  IF cache[k] = Absent THEN store[k] = Absent
  ELSE \/ api[k] # cache[k]
       \/ Foreign(k, cache[k])
       \/ store[k] = cache[k] /\ Right(k, cache[k])

\* Nothing that is not settled is forgotten.
Attended ==
  \A w \in Workers : \A k \in Own(w) : k \in queue[w] \/ Engaged(w, k) \/ Settled(k)

\* What a worker knows of the object it holds, its key and the cache.
WorkOK(w, t) ==
  /\ t.obj = [t.base EXCEPT !.status = t.obj.status]
  /\ t.key \notin queue[w] => cache[t.key] = t.base
  /\ t.pc \in {"assign", "put"} => t.obj.status # t.base.status
  /\ w = "gateways" =>
       /\ lb # NoIP /\ t.obj.status.ip = lb
       /\ t.pc \in {"put", "store"} => t.obj.status.obs = t.base.gen
       /\ t.pc = "store" => t.obj = t.base \/ api[t.key] # t.base
  /\ w = "httpRoutes" /\ t.pc \in {"store", "compute"} => t.obj = t.base

\* A class or an address that changes is what no controller watches.
Pending ==
  "platform" \notin spent =>
    Attended /\ \A w \in Workers : Working(w) => WorkOK(w, task[w])

RestInv == AllNumbered /\ Pending

----------------------------------------------------------------------------
(* The numbers of the generations. *)

\* An object that a user made or changed is none that anybody read before.
LEMMA FreshGeneration ==
  ASSUME TypeOK, NEW k \in Keys, Apply(k) \/ Remove(k)
  PROVE  /\ changes' = [changes EXCEPT ![k] = @ + 1]
         /\ \A j \in Keys : j # k => api'[j] = api[j]
         /\ api'[k] # Absent => api'[k].gen = changes[k] + 2
         /\ \A o : Numbered(k, o) /\ o # Absent => api'[k] # o
<1>0. changes[k] \in Nat /\ api = [j \in Keys |-> api[j]]
  BY DEF TypeOK, ObjectMap
<1>1. changes' = [changes EXCEPT ![k] = @ + 1]
  BY DEF Apply, Remove
<1>2. \A j \in Keys : j # k => api'[j] = api[j]
  BY <1>0 DEF Apply, Remove
<1>3. api'[k] # Absent => api'[k].gen = changes[k] + 2
  <2>1. CASE Apply(k)
    <3>1. PICK s \in SpecsOf(k) :
            \/ /\ api[k] = Absent
               /\ api' = [api EXCEPT ![k] = New(k, changes[k] + 2, s)]
            \/ /\ api[k] # Absent
               /\ api' = [api EXCEPT ![k].gen = changes[k] + 2, ![k].spec = s]
      BY <2>1 DEF Apply
    <3>2. CASE api[k] = Absent
      BY <1>0, <3>1, <3>2 DEF New
    <3>3. CASE api[k] # Absent
      <4>1. api[k] \in GatewayObjects \union RouteObjects
        BY <3>3 DEF TypeOK, ObjectMap, Objects
      <4>2. api'[k] = [api[k] EXCEPT !.gen = changes[k] + 2, !.spec = s]
        BY <1>0, <3>1, <3>3
      <4> QED
        BY <4>1, <4>2 DEF GatewayObjects, RouteObjects
    <3> QED
      BY <3>2, <3>3
  <2>2. CASE Remove(k)
    BY <1>0, <2>2 DEF Remove
  <2> QED
    BY <2>1, <2>2
<1>4. ASSUME NEW o, Numbered(k, o), o # Absent PROVE api'[k] # o
  <2>1. o.gen \in 0..(changes[k] + 1)
    BY <1>4 DEF Numbered
  <2>2. changes[k] + 2 \notin 0..(changes[k] + 1)
    BY <1>0
  <2> QED
    BY <1>3, <1>4, <2>1, <2>2
<1> QED
  BY <1>1, <1>2, <1>3, <1>4


\* A status write, taken or not, changes nothing else of the object.
LEMMA PutFacts ==
  ASSUME TypeOK, NEW w \in Workers, PutAccepted(w) \/ PutFailed(w)
  PROVE  /\ task[w].key \in Own(w)
         /\ \A j \in Keys : j # task[w].key => api'[j] = api[j]
         /\ \/ api' = api
            \/ /\ api[task[w].key] = task[w].base
               /\ api'[task[w].key] = [task[w].base EXCEPT !.status = task[w].obj.status]
               /\ api'[task[w].key].gen = task[w].base.gen
               /\ api'[task[w].key].status = task[w].obj.status
<1> DEFINE t == task[w]
<1>0. /\ t.pc = "put" /\ t.key \in Own(w) /\ Own(w) \subseteq Keys
      /\ api = [j \in Keys |-> api[j]] /\ {t.base, t.obj} \subseteq Objects(t.key)
  BY KeysFacts DEF PutAccepted, PutFailed, TypeOK, TaskOK, ObjectMap
<1>1. \/ api' = api
      \/ api[t.key] = t.base /\ api' = [api EXCEPT ![t.key].status = t.obj.status]
  BY DEF PutAccepted, PutFailed
<1> HIDE DEF t
<1>2. \A j \in Keys : j # t.key => api'[j] = api[j]
  BY <1>0, <1>1
<1>3. \/ api' = api
      \/ api[t.key] = t.base /\ api'[t.key] = [t.base EXCEPT !.status = t.obj.status]
  BY <1>0, <1>1
<1>4. /\ [t.base EXCEPT !.status = t.obj.status].gen = t.base.gen
      /\ [t.base EXCEPT !.status = t.obj.status].status = t.obj.status
  BY <1>0 DEF Objects, GatewayObjects, RouteObjects
<1> QED
  BY <1>0, <1>2, <1>3, <1>4 DEF t

----------------------------------------------------------------------------
(* Frames: what is left alone stays attended to. *)

\* The controllers reconcile different kinds.
LEMMA OwnDisjoint ==
  /\ \A v, w \in Workers : v # w => Own(v) \intersect Own(w) = {}
  /\ \A k \in Keys : \E w \in Workers : k \in Own(w)
  BY KeysAssumption DEF Own, Keys, Workers

\* An object nobody touches stays settled.
LEMMA SettledKept ==
  ASSUME NEW k \in Keys, Settled(k), UNCHANGED <<classes, lb>>,
         cache'[k] = cache[k], store'[k] = store[k],
         api'[k] = api[k] \/ cache[k] = Absent \/ api'[k] # cache[k]
  PROVE  Settled(k)'
  BY DEF Settled, Foreign, Managed, Right

\* A step of a worker on the object it was called for, that leaves it with t.
LEMMA WorkerStep ==
  ASSUME TypeOK, RestInv, NEW w \in Workers, NEW k \in Own(w), NEW t,
         Engaged(w, k), task' = [task EXCEPT ![w] = t],
         UNCHANGED <<cache, classes, lb, changes>>, spent \subseteq spent',
         \A j \in Keys : j # k => store'[j] = store[j] /\ api'[j] = api[j],
         Numbered(k, api'[k]),
         \A v \in Workers : v # w => queue'[v] = queue[v],
         queue[w] \subseteq queue'[w],
         t.pc \in Stages => t.key = k /\ t.base # Absent /\ Numbered(k, t.base),
         "platform" \notin spent =>
           IF t.pc \in Stages THEN WorkOK(w, t)' ELSE k \in queue'[w] \/ Settled(k)'
  PROVE  RestInv'
<1>0. /\ \A v \in Workers : task'[v] = IF v = w THEN t ELSE task[v]
      /\ \A v \in Workers : TaskOK(v, task[v]) /\ Own(v) \subseteq Keys
  BY KeysFacts DEF TypeOK
<1>1. AllNumbered'
  <2>1. ASSUME NEW j \in Keys PROVE Numbered(j, api'[j])
    BY DEF RestInv, AllNumbered
  <2>2. ASSUME NEW v \in Workers, Working(v)'
        PROVE  (task[v].base # Absent /\ Numbered(task[v].key, task[v].base))'
    BY <1>0, <2>2 DEF RestInv, AllNumbered, Numbered, Working
  <2> QED
    BY <2>1, <2>2 DEF RestInv, AllNumbered, Numbered
<1>2. ASSUME "platform" \notin spent' PROVE Attended'
  <2>1. "platform" \notin spent /\ Attended
    BY <1>2 DEF RestInv, Pending
  <2>2. ASSUME NEW v \in Workers, NEW j \in Own(v), j # k
        PROVE  (j \in queue[v] \/ Engaged(v, j) \/ Settled(j))'
    <3>1. j \in Keys
      BY KeysFacts
    <3>2. CASE j \in queue[v]
      BY <3>2
    <3>3. CASE Engaged(v, j)
      <4>1. v # w
        BY <2>2, <3>3 DEF Engaged
      <4> QED
        BY <1>0, <3>3, <4>1 DEF Engaged
    <3>4. CASE Settled(j)
      BY <2>2, <3>1, <3>4, SettledKept
    <3> QED
      BY <2>1, <2>2, <3>2, <3>3, <3>4 DEF Attended
  <2>3. ASSUME NEW v \in Workers, k \in Own(v)
        PROVE  (k \in queue[v] \/ Engaged(v, k) \/ Settled(k))'
    <3>1. v = w
      BY <2>3, OwnDisjoint
    <3>2. CASE t.pc \in Stages
      BY <1>0, <3>1, <3>2 DEF Engaged
    <3>3. CASE t.pc \notin Stages
      BY <2>1, <3>1, <3>3
    <3> QED
      BY <3>2, <3>3
  <2> QED
    BY <2>2, <2>3 DEF Attended
<1>3. ASSUME "platform" \notin spent', NEW v \in Workers, Working(v)'
      PROVE  WorkOK(v, task[v])'
  <2>1. "platform" \notin spent
    BY <1>3
  <2>2. CASE v = w
    BY <1>0, <1>3, <2>1, <2>2 DEF Working, WorkOK
  <2>3. CASE v # w
    <3>1. task'[v] = task[v] /\ task[v].pc \in Stages
      BY <1>0, <1>3, <2>3 DEF Working
    <3>2. task[v].key \in Own(v) /\ task[v].key \in Keys
      BY <1>0, <3>1 DEF TaskOK, Stages
    <3>3. api'[task[v].key] = api[task[v].key]
      BY <2>3, <3>2, OwnDisjoint
    <3>4. WorkOK(v, task[v])
      BY <2>1, <3>1 DEF RestInv, Pending, Working
    <3> QED
      BY <2>3, <3>1, <3>3, <3>4 DEF WorkOK
  <2> QED
    BY <2>2, <2>3
<1> QED
  BY <1>1, <1>2, <1>3 DEF RestInv, Pending

\* A worker that holds no object moves on, and leaves all else alone.
LEMMA HoldsNothing ==
  ASSUME TypeOK, RestInv, NEW w \in Workers, NEW t, task' = [task EXCEPT ![w] = t],
         UNCHANGED <<api, cache, classes, lb, changes, spent, store, queue>>,
         \A k \in Keys : ~Engaged(w, k),
         ~Working(w), t.pc \notin Stages
  PROVE  RestInv'
<1>0. \A v \in Workers : task'[v] = IF v = w THEN t ELSE task[v]
  BY DEF TypeOK
<1>1. AllNumbered'
  BY <1>0 DEF RestInv, AllNumbered, Numbered, Working
<1>2. ASSUME "platform" \notin spent' PROVE Attended'
  <2>1. ASSUME NEW v \in Workers, NEW j \in Own(v)
        PROVE  (j \in queue[v] \/ Engaged(v, j) \/ Settled(j))'
    <3>1. j \in Keys /\ (j \in queue[v] \/ Engaged(v, j) \/ Settled(j))
      BY <1>2, KeysFacts DEF RestInv, Pending, Attended
    <3>2. CASE Engaged(v, j)
      BY <1>0, <3>1, <3>2 DEF Engaged
    <3>3. CASE Settled(j)
      BY <3>1, <3>3, SettledKept
    <3> QED
      BY <3>1, <3>2, <3>3
  <2> QED
    BY <2>1 DEF Attended
<1>3. ASSUME "platform" \notin spent', NEW v \in Workers, Working(v)'
      PROVE  WorkOK(v, task[v])'
  <2>1. v # w /\ task'[v] = task[v]
    BY <1>0, <1>3 DEF Working
  <2>2. WorkOK(v, task[v])
    BY <1>3, <2>1 DEF RestInv, Pending, Working
  <2> QED
    BY <2>1, <2>2 DEF WorkOK
<1> QED
  BY <1>1, <1>2, <1>3 DEF RestInv, Pending

----------------------------------------------------------------------------
(* The steps of users, of the platform, of the informers, and a restart. *)

\* The event of an object is a request for it in the queue of its controller.
LEMMA RequestsOwn ==
  ASSUME NEW w \in Workers, NEW k \in Own(w), NEW objs PROVE k \in Requests(k, objs)[w]
  BY KeysAssumption DEF Requests, Own, Workers

\* A user's change makes an object that nobody has read.
LEMMA UserStep ==
  ASSUME TypeOK, RestInv, NEW k \in Keys, Apply(k) \/ Remove(k) PROVE RestInv'
<1>0. /\ UNCHANGED <<cache, classes, lb, queue, task, store, spent>>
      /\ changes' = [changes EXCEPT ![k] = @ + 1]
      /\ changes \in [Keys -> Nat]
      /\ \A v \in Workers : TaskOK(v, task[v]) /\ Own(v) \subseteq Keys
  BY FreshGeneration, KeysFacts DEF Apply, Remove, TypeOK
<1>1. \A j \in Keys : 0..(changes[j] + 1) \subseteq 0..(changes'[j] + 1)
  BY <1>0
<1>2. ASSUME NEW j \in Keys, NEW o, Numbered(j, o) PROVE Numbered(j, o)'
  BY <1>1, <1>2 DEF Numbered
<1>3. ASSUME NEW j \in Keys, NEW o, Numbered(j, o), o # Absent
      PROVE  api'[j] = api[j] \/ api'[j] # o
  BY <1>3, FreshGeneration
<1>4. ASSUME NEW v \in Workers, Working(v)
      PROVE  /\ task[v].key \in Own(v) /\ task[v].key \in Keys
             /\ task[v].base # Absent /\ Numbered(task[v].key, task[v].base)
  <2>1. task[v].key \in Own(v) /\ task[v].key \in Keys
    BY <1>0, <1>4 DEF Working, TaskOK, Stages
  <2> QED
    BY <1>4, <2>1 DEF RestInv, AllNumbered
<1>5. AllNumbered'
  <2>1. ASSUME NEW j \in Keys PROVE Numbered(j, api[j])' /\ Numbered(j, cache[j])'
    <3>1. Numbered(j, cache[j])'
      BY <1>0, <1>2 DEF RestInv, AllNumbered
    <3>2. CASE j = k
      <4>1. changes'[k] = changes[k] + 1 /\ changes[k] \in Nat
        BY <1>0
      <4>2. api'[k] # Absent => api'[k].gen \in 0..(changes'[k] + 1)
        BY <4>1, FreshGeneration
      <4> QED
        BY <3>1, <3>2, <4>2 DEF Numbered
    <3>3. CASE j # k
      BY <1>0, <1>2, <3>3, FreshGeneration DEF RestInv, AllNumbered
    <3> QED
      BY <3>1, <3>2, <3>3
  <2>2. ASSUME NEW v \in Workers, Working(v)'
        PROVE  (task[v].base # Absent /\ Numbered(task[v].key, task[v].base))'
    BY <1>0, <1>2, <1>4, <2>2 DEF Working
  <2> QED
    BY <2>1, <2>2 DEF AllNumbered
<1>6. ASSUME "platform" \notin spent' PROVE Attended'
  <2>1. ASSUME NEW v \in Workers, NEW j \in Own(v)
        PROVE  (j \in queue[v] \/ Engaged(v, j) \/ Settled(j))'
    <3>1. j \in Keys /\ (j \in queue[v] \/ Engaged(v, j) \/ Settled(j))
      BY <1>0, <1>6, KeysFacts DEF RestInv, Pending, Attended
    <3>2. api'[j] = api[j] \/ cache[j] = Absent \/ api'[j] # cache[j]
      BY <1>3, <3>1 DEF RestInv, AllNumbered
    <3> QED
      BY <1>0, <3>1, <3>2, SettledKept DEF Engaged
  <2> QED
    BY <2>1 DEF Attended
<1>7. ASSUME "platform" \notin spent', NEW v \in Workers, Working(v)'
      PROVE  WorkOK(v, task[v])'
  <2>1. Working(v) /\ WorkOK(v, task[v])
    BY <1>0, <1>7 DEF Working, RestInv, Pending
  <2>2. api'[task[v].key] = api[task[v].key] \/ api'[task[v].key] # task[v].base
    BY <1>3, <1>4, <2>1
  <2> QED
    BY <1>0, <2>1, <2>2 DEF WorkOK
<1> QED
  BY <1>5, <1>6, <1>7 DEF RestInv, Pending

\* An event that the informer delivers is a request, whatever was read before.
LEMMA EventStep ==
  ASSUME TypeOK, RestInv, NEW k \in Keys, Deliver(k) \/ Resync(k) PROVE RestInv'
<1>0. /\ UNCHANGED <<api, classes, lb, task, store, changes>> /\ spent \subseteq spent'
      /\ \A j \in Keys : j # k => cache'[j] = cache[j]
      /\ cache'[k] = cache[k] \/ cache'[k] = api[k]
      /\ \A v \in Workers : queue[v] \subseteq queue'[v]
      /\ \A v \in Workers : TaskOK(v, task[v]) /\ Own(v) \subseteq Keys
  BY KeysFacts DEF Deliver, Resync, Spend, TypeOK, ObjectMap
<1>1. ASSUME NEW v \in Workers, k \in Own(v) PROVE k \in queue'[v]
  BY <1>1, RequestsOwn DEF Deliver, Resync, TypeOK
<1>2. AllNumbered'
  BY <1>0 DEF RestInv, AllNumbered, Numbered, Working
<1>3. ASSUME "platform" \notin spent' PROVE Attended'
  <2>1. ASSUME NEW v \in Workers, NEW j \in Own(v), j # k
        PROVE  (j \in queue[v] \/ Engaged(v, j) \/ Settled(j))'
    <3>1. j \in Keys /\ (j \in queue[v] \/ Engaged(v, j) \/ Settled(j))
      BY <1>0, <1>3, KeysFacts DEF RestInv, Pending, Attended
    <3> QED
      BY <1>0, <2>1, <3>1, SettledKept DEF Engaged
  <2> QED
    BY <1>1, <2>1 DEF Attended
<1>4. ASSUME "platform" \notin spent', NEW v \in Workers, Working(v)'
      PROVE  WorkOK(v, task[v])'
  <2>1. Working(v) /\ WorkOK(v, task[v])
    BY <1>0, <1>4 DEF Working, RestInv, Pending
  <2>2. task[v].key \in Own(v)
    BY <1>0, <2>1 DEF Working, TaskOK, Stages
  <2>3. task[v].key \notin queue'[v] => cache'[task[v].key] = task[v].base
    BY <1>0, <1>1, <2>1, <2>2 DEF WorkOK
  <2> QED
    BY <1>0, <2>1, <2>3 DEF WorkOK
<1> QED
  BY <1>2, <1>3, <1>4 DEF RestInv, Pending

\* Until gari-proxy has an address, no Gateway of ours is settled or held.
LEMMA AddressStep == ASSUME TypeOK, RestInv, AssignAddress PROVE RestInv'
<1>0. /\ UNCHANGED <<api, cache, classes, queue, task, store, changes, spent>> /\ lb = NoIP
  BY DEF AssignAddress
<1>1. AllNumbered'
  BY <1>0 DEF RestInv, AllNumbered, Numbered, Working
<1>2. ASSUME NEW k \in Keys, Settled(k) PROVE Settled(k)'
  BY <1>0, <1>2 DEF Settled, Right, Foreign, Managed
<1>3. ASSUME "platform" \notin spent' PROVE Attended'
  BY <1>0, <1>2, <1>3, KeysFacts DEF RestInv, Pending, Attended, Engaged
<1>4. ASSUME "platform" \notin spent', NEW v \in Workers, Working(v)'
      PROVE  WorkOK(v, task[v])'
  BY <1>0, <1>4 DEF RestInv, Pending, Working, WorkOK
<1> QED
  BY <1>1, <1>3, <1>4 DEF RestInv, Pending

\* The platform's event is what Pending excepts.
LEMMA PlatformStep == ASSUME TypeOK, RestInv, ChangePlatform PROVE RestInv'
<1>1. /\ UNCHANGED <<api, cache, task, changes>> /\ "platform" \in spent'
  BY DEF ChangePlatform, Spend
<1> QED
  BY <1>1 DEF RestInv, AllNumbered, Numbered, Working, Pending

\* A new process lists every object that exists.
LEMMA RestartStep == ASSUME TypeOK, RestInv, Restart PROVE RestInv'
<1>0. /\ UNCHANGED <<api, changes>> /\ cache' = api /\ queue' = Listed(api)
      /\ \A w \in Workers : task'[w] = Idle
      /\ \A k \in Keys : store'[k] = Absent
  BY DEF Restart
<1>1. \A w \in Workers : ~Working(w)'
  BY <1>0 DEF Working, Idle, Stages
<1>2. AllNumbered'
  BY <1>0, <1>1 DEF RestInv, AllNumbered, Numbered
<1>3. Attended'
  <2>1. ASSUME NEW w \in Workers, NEW k \in Own(w), api[k] # Absent PROVE k \in queue'[w]
    BY <1>0, <2>1, RequestsOwn, KeysFacts DEF Listed
  <2> QED
    BY <1>0, <2>1, KeysFacts DEF Attended, Settled
<1> QED
  BY <1>1, <1>2, <1>3 DEF RestInv, Pending

\* The process starts by listing every object, with none in State.
LEMMA InitRestInv == Init => RestInv
<1> SUFFICES ASSUME Init PROVE RestInv
  OBVIOUS
<1>0. /\ cache = api /\ queue = Listed(api) /\ changes = [k \in Keys |-> 0]
      /\ \A w \in Workers : task[w] = Idle
      /\ \A k \in Keys : store[k] = Absent
  BY DEF Init
<1>1. \A w \in Workers : ~Working(w)
  BY <1>0 DEF Working, Idle, Stages
<1>2. AllNumbered
  <2>1. \A k \in Keys : api[k] # Absent => api[k].gen = 1
    BY DEF Init, New
  <2> QED
    BY <1>0, <1>1, <2>1 DEF AllNumbered, Numbered
<1>3. Attended
  <2>1. ASSUME NEW w \in Workers, NEW k \in Own(w), api[k] # Absent PROVE k \in queue[w]
    BY <1>0, <2>1, RequestsOwn, KeysFacts DEF Listed
  <2> QED
    BY <1>0, <2>1, KeysFacts DEF Attended, Settled
<1> QED
  BY <1>1, <1>2, <1>3 DEF RestInv, Pending

----------------------------------------------------------------------------
(* The steps of the workers. *)

\* A request that is taken is the worker's business from then on.
LEMMA TakeStep ==
  ASSUME TypeOK, RestInv, NEW w \in Workers, NEW k \in Keys, Take(w, k) PROVE RestInv'
<1> DEFINE t == [task[w] EXCEPT !.pc = "get", !.key = k]
<1>0. /\ UNCHANGED <<api, cache, classes, lb, changes, spent, store>>
      /\ task[w] = Idle /\ Idle.pc = "idle"
      /\ DOMAIN task[w] = {"pc", "key", "base", "obj", "snap"}
      /\ queue' = [queue EXCEPT ![w] = @ \ {k}] /\ k \in Own(w)
      /\ task = [v \in Workers |-> task[v]] /\ queue = [v \in Workers |-> queue[v]]
      /\ task' = [task EXCEPT ![w].pc = "get", ![w].key = k]
  BY DEF Take, environment, TypeOK, TaskOK, Idle
<1>1. \A v \in Workers : task'[v] = IF v = w THEN t ELSE task[v]
  BY <1>0
<1>2. t.pc = "get" /\ t.key = k
  BY <1>0
<1>3. ~Working(w)
  BY <1>0 DEF Working, Stages
<1> HIDE DEF t
<1>4. AllNumbered'
  BY <1>0, <1>1, <1>2 DEF RestInv, AllNumbered, Numbered, Working, Stages
<1>5. ASSUME "platform" \notin spent' PROVE Attended'
  <2>1. ASSUME NEW v \in Workers, NEW j \in Own(v)
        PROVE  (j \in queue[v] \/ Engaged(v, j) \/ Settled(j))'
    <3>1. j \in Keys /\ (j \in queue[v] \/ Engaged(v, j) \/ Settled(j))
      BY <1>0, <1>5, KeysFacts DEF RestInv, Pending, Attended
    <3>2. CASE j \in queue[v] /\ (v # w \/ j # k)
      BY <1>0, <3>2
    <3>3. CASE v = w /\ j = k
      BY <1>1, <1>2, <3>3 DEF Engaged
    <3>4. CASE Engaged(v, j)
      <4>1. v # w
        BY <1>0, <3>4 DEF Engaged, Stages
      <4> QED
        BY <1>1, <3>4, <4>1 DEF Engaged
    <3>5. CASE Settled(j)
      BY <1>0, <3>1, <3>5, SettledKept
    <3> QED
      BY <3>1, <3>2, <3>3, <3>4, <3>5
  <2> QED
    BY <2>1 DEF Attended
<1>6. ASSUME "platform" \notin spent', NEW v \in Workers, Working(v)'
      PROVE  WorkOK(v, task[v])'
  <2>1. v # w /\ task'[v] = task[v]
    BY <1>1, <1>2, <1>6 DEF Working, Stages
  <2>2. WorkOK(v, task[v])
    BY <1>0, <1>6, <2>1 DEF RestInv, Pending, Working
  <2> QED
    BY <1>0, <2>1, <2>2 DEF WorkOK
<1> QED
  BY <1>4, <1>5, <1>6 DEF RestInv, Pending

\* Tasks that hold no object.
LEMMA HoldNothing ==
  /\ Idle.pc \notin Stages
  /\ [Idle EXCEPT !.pc = "readGateways"].pc \notin Stages
  BY DEF Idle, Stages

\* updateProxy looks at no object of the API server or the cache.
LEMMA UpdateProxyStep ==
  ASSUME TypeOK, RestInv, NEW w \in Workers, ReadGateways(w) \/ ReadRoutes(w) \/ Publish(w)
  PROVE  RestInv'
<1>0. /\ UNCHANGED <<api, cache, classes, lb, changes, spent, store, queue>>
      /\ DOMAIN task[w] = {"pc", "key", "base", "obj", "snap"}
      /\ task[w].pc \in {"readGateways", "readRoutes", "publish"}
      /\ task = [v \in Workers |-> task[v]]
  BY DEF ReadGateways, ReadRoutes, Publish, Return, environment, TypeOK, TaskOK
<1>1. ~Working(w) /\ \A k \in Keys : ~Engaged(w, k)
  BY <1>0 DEF Working, Engaged, Stages
<1>2. CASE ReadGateways(w)
  <2> DEFINE t == [task[w] EXCEPT !.pc = "readRoutes", !.snap["gateways"] = Content(Gateways)]
  <2>1. task' = [task EXCEPT ![w] = t]
    BY <1>0, <1>2 DEF ReadGateways
  <2>2. t.pc \notin Stages
    BY <1>0 DEF Stages
  <2> HIDE DEF t
  <2> QED
    BY <1>0, <1>1, <2>1, <2>2, HoldsNothing
<1>3. CASE ReadRoutes(w)
  <2> DEFINE t == [task[w] EXCEPT !.pc = "publish", !.snap["httpRoutes"] = Content(Routes)]
  <2>1. task' = [task EXCEPT ![w] = t]
    BY <1>0, <1>3 DEF ReadRoutes
  <2>2. t.pc \notin Stages
    BY <1>0 DEF Stages
  <2> HIDE DEF t
  <2> QED
    BY <1>0, <1>1, <2>1, <2>2, HoldsNothing
<1>4. CASE Publish(w)
  <2>1. task' = [task EXCEPT ![w] = Idle]
    BY <1>4 DEF Publish, Return
  <2> QED
    BY <1>0, <1>1, <2>1, HoldNothing, HoldsNothing
<1> QED
  BY <1>2, <1>3, <1>4

\* A worker that returns an error, or wants to be called again, is.
LEMMA RequeueStep ==
  ASSUME TypeOK, RestInv, NEW w \in Workers, NEW k \in Own(w), Engaged(w, k),
         ReturnRequeue(w),
         UNCHANGED <<cache, classes, lb, changes, store>>, spent \subseteq spent',
         \A j \in Keys : j # k => api'[j] = api[j],
         Numbered(k, api'[k])
  PROVE  RestInv'
<1>1. task' = [task EXCEPT ![w] = Idle] /\ queue' = [queue EXCEPT ![w] = @ \union {k}]
  BY DEF ReturnRequeue, Engaged
<1>2. /\ \A v \in Workers : v # w => queue'[v] = queue[v]
      /\ queue[w] \subseteq queue'[w] /\ k \in queue'[w]
  BY <1>1 DEF TypeOK
<1> QED
  BY <1>1, <1>2, HoldNothing, WorkerStep

\* A worker returns or goes on to updateProxy, and its object is settled.
LEMMA SettleStep ==
  ASSUME TypeOK, RestInv, NEW w \in Workers, NEW k \in Own(w), Engaged(w, k),
         Update(w) \/ Return(w),
         UNCHANGED <<cache, classes, lb, changes, spent, queue>>,
         \A j \in Keys : j # k => store'[j] = store[j] /\ api'[j] = api[j],
         Numbered(k, api'[k]),
         "platform" \notin spent => k \in queue[w] \/ Settled(k)'
  PROVE  RestInv'
<1>1. CASE Update(w)
  <2>1. task' = [task EXCEPT ![w] = [Idle EXCEPT !.pc = "readGateways"]]
    BY <1>1 DEF Update
  <2> QED
    BY <2>1, HoldNothing, WorkerStep
<1>2. CASE Return(w)
  <2>1. task' = [task EXCEPT ![w] = Idle]
    BY <1>2 DEF Return
  <2> QED
    BY <2>1, HoldNothing, WorkerStep
<1> QED
  BY <1>1, <1>2

\* What holds of a worker that was called for an object.
LEMMA EngagedFacts ==
  ASSUME TypeOK, NEW w \in Workers, task[w].pc \in Stages \union {"get"}
  PROVE  /\ task[w].key \in Own(w) /\ task[w].key \in Keys
         /\ Engaged(w, task[w].key)
         /\ Working(w) => {task[w].base, task[w].obj} \subseteq Objects(task[w].key)
         /\ DOMAIN task[w] = {"pc", "key", "base", "obj", "snap"}
         /\ task = [v \in Workers |-> task[v]]
         /\ api = [j \in Keys |-> api[j]] /\ store = [j \in Keys |-> store[j]]
<1>1. TaskOK(w, task[w]) /\ Own(w) \subseteq Keys
  BY KeysFacts DEF TypeOK
<1>2. /\ task = [v \in Workers |-> task[v]]
      /\ api = [j \in Keys |-> api[j]] /\ store = [j \in Keys |-> store[j]]
  BY DEF TypeOK, ObjectMap
<1> QED
  BY <1>1, <1>2 DEF TaskOK, Engaged, Stages, Working

\* An object that is gone from the cache is gone from State.
LEMMA GoneStep == ASSUME TypeOK, RestInv, NEW w \in Workers, Gone(w) PROVE RestInv'
<1>k. PICK k : k = task[w].key
  OBVIOUS
<1>0. /\ task[w].pc \in Stages \union {"get"} /\ cache[k] = Absent
      /\ UNCHANGED <<api, cache, classes, lb, changes, spent, queue>>
      /\ store' = [store EXCEPT ![k] = Absent] /\ Update(w)
  BY <1>k DEF Gone, environment
<1>1. k \in Own(w) /\ k \in Keys /\ Engaged(w, k) /\ store = [j \in Keys |-> store[j]]
  BY <1>k, <1>0, EngagedFacts
<1>2. Settled(k)'
  BY <1>0, <1>1 DEF Settled
<1>3. Numbered(k, api'[k]) /\ \A j \in Keys : j # k => store'[j] = store[j]
  BY <1>0, <1>1 DEF RestInv, AllNumbered
<1> QED
  BY <1>0, <1>1, <1>2, <1>3, SettleStep

\* A write that the API server refuses, or that fails, is tried again.
LEMMA PutRefusedStep ==
  ASSUME TypeOK, RestInv, NEW w \in Workers, PutRejected(w) \/ PutFailed(w) PROVE RestInv'
<1>k. PICK k : k = task[w].key
  OBVIOUS
<1>0. /\ task[w].pc = "put" /\ ReturnRequeue(w) /\ spent \subseteq spent'
      /\ UNCHANGED <<cache, classes, lb, changes, store>>
      /\ PutFailed(w) \/ UNCHANGED api
  BY <1>k DEF PutRejected, PutFailed, environment, Spend
<1>1. /\ k \in Own(w) /\ k \in Keys /\ Engaged(w, k)
      /\ task[w].base # Absent /\ Numbered(k, task[w].base) /\ Numbered(k, api[k])
  BY <1>k, <1>0, EngagedFacts DEF RestInv, AllNumbered, Working, Stages
<1>2. Numbered(k, api'[k]) /\ \A j \in Keys : j # k => api'[j] = api[j]
  <2>1. CASE UNCHANGED api
    BY <1>1, <2>1
  <2>2. CASE PutFailed(w)
    BY <1>k, <1>1, <2>2, PutFacts DEF Numbered
  <2> QED
    BY <1>0, <2>1, <2>2
<1> QED
  BY <1>0, <1>1, <1>2, RequeueStep

\* A write that the API server takes leaves the cache behind.
LEMMA PutAcceptedStep ==
  ASSUME TypeOK, RestInv, NEW w \in Workers, PutAccepted(w) PROVE RestInv'
<1>u. PICK u : u = task[w]
  OBVIOUS
<1>k. PICK k : k = u.key
  OBVIOUS
<1>0. /\ u.pc = "put" /\ UNCHANGED <<cache, classes, lb, changes, spent, queue, store>>
      /\ api[k] = u.base
      /\ IF w = "gateways" THEN Go(w, "store") ELSE Update(w)
  BY <1>u, <1>k DEF PutAccepted
<1>1. /\ k \in Own(w) /\ k \in Keys /\ Engaged(w, k) /\ Working(w)
      /\ u.base # Absent /\ Numbered(k, u.base) /\ Numbered(k, api[k])
      /\ DOMAIN u = {"pc", "key", "base", "obj", "snap"}
      /\ task = [v \in Workers |-> task[v]]
  BY <1>u, <1>k, <1>0, EngagedFacts DEF RestInv, AllNumbered, Working, Stages
<1>2. Numbered(k, api'[k]) /\ \A j \in Keys : j # k => api'[j] = api[j]
  BY <1>u, <1>k, <1>0, <1>1, PutFacts DEF Numbered
<1>3. ASSUME "platform" \notin spent PROVE WorkOK(w, u) /\ api'[k] # u.base
  <2>1. WorkOK(w, u)
    BY <1>u, <1>1, <1>3 DEF RestInv, Pending
  <2>2. u.obj.status # u.base.status
    BY <1>0, <2>1 DEF WorkOK
  <2>3. api'[k].status = u.obj.status
    <3>1. api' = [api EXCEPT ![k].status = u.obj.status]
      BY <1>u, <1>k DEF PutAccepted
    <3>2. {u.base, u.obj} \subseteq Objects(k) /\ api = [j \in Keys |-> api[j]]
      BY <1>u, <1>k, <1>0, EngagedFacts DEF Working, Stages
    <3> QED
      BY <1>0, <1>1, <3>1, <3>2 DEF Objects, GatewayObjects, RouteObjects
  <2> QED
    BY <2>1, <2>2, <2>3
<1>4. CASE w = "gateways"
  <2>t. PICK t : t = [u EXCEPT !.pc = "store"]
    OBVIOUS
  <2>1. task' = [task EXCEPT ![w] = t]
    BY <1>u, <2>t, <1>0, <1>1, <1>4 DEF Go
  <2>2. HasFields(t, "store", k, u.base, u.obj, u.snap)
    BY <1>k, <2>t, <1>1 DEF HasFields
  <2>3. "platform" \notin spent => WorkOK(w, t)'
    BY <1>k, <1>0, <1>1, <1>3, <1>4, <2>2 DEF WorkOK, HasFields, Stages
  <2>4. t.pc \in Stages /\ t.key = k /\ t.base # Absent /\ Numbered(k, t.base)
    BY <1>1, <2>2 DEF HasFields, Stages
  <2> QED
    BY <1>0, <1>1, <1>2, <2>1, <2>3, <2>4, WorkerStep
<1>5. CASE w # "gateways"
  <2>1. "platform" \notin spent => k \in queue[w] \/ Settled(k)'
    BY <1>k, <1>0, <1>1, <1>3 DEF WorkOK, Settled
  <2> QED
    BY <1>0, <1>1, <1>2, <1>5, <2>1, SettleStep
<1> QED
  BY <1>4, <1>5

\* The steps of GatewayReconciler: a Gateway of ours is stored with the status
\* its reconciler has for it, or the API server took that status just now.
LEMMA GatewayRestStep ==
  ASSUME TypeOK, RestInv,
         \/ GatewayForeign \/ GatewayNoAddress \/ GatewayFound
         \/ GatewayCompute \/ GatewayTorn \/ GatewayStore
  PROVE  RestInv'
<1>w. PICK w : w = "gateways"
  OBVIOUS
<1>u. PICK u : u = task[w]
  OBVIOUS
<1>k. PICK k : k = u.key
  OBVIOUS
<1>0. /\ w \in Workers /\ gateway = u /\ gateway.key = k
      /\ UNCHANGED <<api, cache, classes, lb, changes, spent>>
      /\ u.pc \in Stages \union {"get"}
  BY <1>w, <1>u, <1>k
     DEF Workers, gateway, environment, GatewayForeign, GatewayNoAddress, GatewayFound,
         GatewayCompute, GatewayTorn, GatewayStore, Stages
<1>1. /\ k \in Own(w) /\ k \in Keys /\ k \in Gateways /\ Engaged(w, k)
      /\ u.pc \in Stages => Working(w) /\ {u.base, u.obj} \subseteq GatewayObjects
      /\ DOMAIN u = {"pc", "key", "base", "obj", "snap"}
      /\ task = [v \in Workers |-> task[v]] /\ store = [j \in Keys |-> store[j]]
  BY <1>w, <1>u, <1>k, <1>0, EngagedFacts DEF Working, Own, Objects
<1>2. /\ \A j \in Keys : j # k => api'[j] = api[j]
      /\ Numbered(k, api'[k]) /\ Numbered(k, cache[k])
      /\ u.pc \in Stages => u.base # Absent /\ Numbered(k, u.base)
  BY <1>u, <1>k, <1>0, <1>1 DEF RestInv, AllNumbered
<1>3. "platform" \notin spent /\ u.pc \in Stages => WorkOK(w, u)
  BY <1>u, <1>0, <1>1 DEF RestInv, Pending
<1>4. CASE GatewayForeign
  <2>1. cache[k] # Absent /\ Foreign(k, cache[k]) /\ Return(w) /\ UNCHANGED <<queue, store>>
    BY <1>w, <1>0, <1>1, <1>4 DEF GatewayForeign, Foreign, Return
  <2>2. Settled(k)'
    BY <1>0, <2>1 DEF Settled, Foreign, Managed
  <2> QED
    BY <1>0, <1>1, <1>2, <2>1, <2>2, SettleStep
<1>5. CASE GatewayNoAddress \/ GatewayTorn
  <2>1. ReturnRequeue(w) /\ UNCHANGED store
    BY <1>w, <1>5 DEF GatewayNoAddress, GatewayTorn
  <2> QED
    BY <1>0, <1>1, <1>2, <2>1, RequeueStep
<1>6. CASE GatewayFound
  <2>b. PICK b : b = [cache[k] EXCEPT !.status.ip = lb]
    OBVIOUS
  <2>t. PICK t : t = [u EXCEPT !.pc = "compute", !.base = cache[k], !.obj = b]
    OBVIOUS
  <2>0. /\ cache[k] # Absent /\ lb # NoIP /\ UNCHANGED <<queue, store>>
        /\ task' = [task EXCEPT ![w] = t]
    BY <1>w, <1>u, <1>0, <1>1, <1>6, <2>b, <2>t DEF GatewayFound
  <2>1. HasFields(t, "compute", k, cache[k], b, u.snap)
    BY <1>1, <1>k, <2>t DEF HasFields
  <2>2. cache[k] \in GatewayObjects
    BY <1>1, <2>0 DEF TypeOK, ObjectMap, Objects
  <2>3. b.status.ip = lb /\ b = [cache[k] EXCEPT !.status = b.status]
    BY <2>2, <2>b DEF GatewayObjects
  <2>4. WorkOK(w, t)'
    BY <1>w, <1>0, <2>0, <2>1, <2>3 DEF WorkOK, HasFields
  <2>5. t.pc \in Stages /\ t.key = k /\ t.base # Absent /\ Numbered(k, t.base)
    BY <1>2, <2>0, <2>1 DEF HasFields, Stages
  <2> QED
    BY <1>0, <1>1, <1>2, <2>0, <2>4, <2>5, WorkerStep
<1>7. CASE GatewayCompute
  <2>n. PICK n : n = [u.obj.status EXCEPT !.obs = u.base.gen, !.attached = Attached(k, store)]
    OBVIOUS
  <2>b. PICK b : b = [u.obj EXCEPT !.status = n]
    OBVIOUS
  <2>p. PICK p : p = IF n = u.base.status THEN "store" ELSE "put"
    OBVIOUS
  <2>t. PICK t : t = [u EXCEPT !.pc = p, !.obj = b]
    OBVIOUS
  <2>0. /\ u.pc = "compute" /\ UNCHANGED <<queue, store>>
        /\ task' = [task EXCEPT !["gateways"].obj.status = n, !["gateways"].pc = p]
    BY <1>0, <1>7, <2>n, <2>p DEF GatewayCompute
  <2>1. task' = [task EXCEPT ![w] = t]
    BY <1>w, <1>u, <1>1, <2>0, <2>b, <2>t
  <2>2. HasFields(t, p, k, u.base, b, u.snap)
    BY <1>1, <1>k, <2>t DEF HasFields
  <2>3. {u.base, u.obj} \subseteq GatewayObjects /\ u.pc \in Stages
    BY <1>1, <2>0 DEF Stages
  <2>4. /\ b.status = n /\ n.obs = u.base.gen /\ n.ip = u.obj.status.ip
        /\ u.obj = [u.base EXCEPT !.status = u.obj.status] =>
             /\ b = [u.base EXCEPT !.status = b.status]
             /\ n = u.base.status => b = u.base
    BY <2>3, <2>n, <2>b DEF GatewayObjects
  <2>5. ASSUME "platform" \notin spent PROVE WorkOK(w, t)'
    <3>1. WorkOK(w, u)
      BY <1>3, <2>3, <2>5
    <3>2. u.obj = [u.base EXCEPT !.status = u.obj.status]
      BY <3>1 DEF WorkOK
    <3>3. p = "put" => b.status # u.base.status
      BY <2>4, <2>p
    <3>4. p = "store" => b = u.base
      BY <2>4, <2>p, <3>2
    <3>5. p \in {"store", "put"}
      BY <2>p
    <3> QED
      BY <1>w, <1>k, <1>0, <2>0, <2>2, <2>4, <3>1, <3>2, <3>3, <3>4, <3>5 DEF WorkOK, HasFields
  <2>6. t.pc \in Stages /\ t.key = k /\ t.base # Absent /\ Numbered(k, t.base)
    BY <1>2, <2>2, <2>3, <2>p DEF HasFields, Stages
  <2> QED
    BY <1>0, <1>1, <1>2, <2>0, <2>1, <2>5, <2>6, WorkerStep
<1>8. CASE GatewayStore
  <2>0. /\ u.pc = "store" /\ store' = [store EXCEPT ![k] = u.obj]
        /\ Update(w) /\ UNCHANGED queue
    BY <1>w, <1>0, <1>8 DEF GatewayStore
  <2>1. store'[k] = u.obj /\ \A j \in Keys : j # k => store'[j] = store[j]
    BY <1>1, <2>0
  <2>2. ASSUME "platform" \notin spent, k \notin queue[w] PROVE Settled(k)'
    <3>1. WorkOK(w, u) /\ u.base # Absent
      BY <1>2, <1>3, <2>0, <2>2 DEF Stages
    <3>2. cache[k] = u.base
      BY <1>k, <2>2, <3>1 DEF WorkOK
    <3>3. CASE u.obj = u.base
      <4>1. Right(k, u.base)'
        BY <1>w, <1>0, <1>1, <2>0, <3>1, <3>3 DEF Right, WorkOK
      <4> QED
        BY <1>0, <2>1, <3>1, <3>2, <3>3, <4>1 DEF Settled
    <3>4. CASE api[k] # u.base
      BY <1>0, <3>1, <3>2, <3>4 DEF Settled
    <3> QED
      BY <1>w, <1>k, <2>0, <3>1, <3>3, <3>4 DEF WorkOK
  <2> QED
    BY <1>0, <1>1, <1>2, <2>0, <2>1, <2>2, SettleStep
<1> QED
  BY <1>4, <1>5, <1>6, <1>7, <1>8

\* A status that HTTPRouteReconciler has just computed is the right one.
LEMMA ComputedIsRight ==
  ASSUME NEW k \in Routes, NEW o \in RouteObjects, NEW m, o.status = RouteStatus(o, m)
  PROVE  Right(k, o)
<1>1. k \notin Gateways /\ o.spec.valid \in BOOLEAN
  BY KeysAssumption, SpecsAssumption DEF RouteObjects
<1>2. DOMAIN o.status = o.spec.parents
  BY DEF RouteStatus
<1>3. ASSUME NEW p \in o.spec.parents
      PROVE  /\ o.status[p].obs = o.gen
             /\ (o.status[p].reason = "UnsupportedValue") = ~o.spec.valid
  <2>1. o.status[p] = [reason |-> Reason(o, p, m), obs |-> o.gen]
    BY DEF RouteStatus
  <2>2. Reason(o, p, m) = "UnsupportedValue" <=> ~o.spec.valid
    BY DEF Reason
  <2> QED
    BY <1>1, <2>1, <2>2
<1> QED
  BY <1>1, <1>2, <1>3 DEF Right

\* The steps of HTTPRouteReconciler: a route whose status it need not write is
\* stored with the status that is right.
LEMMA RouteRestStep ==
  ASSUME TypeOK, RouteShared, RestInv,
         RouteFound \/ RouteStore \/ RouteCompute \/ RouteAssign
  PROVE  RestInv'
<1>w. PICK w : w = "httpRoutes"
  OBVIOUS
<1>u. PICK u : u = task[w]
  OBVIOUS
<1>k. PICK k : k = u.key
  OBVIOUS
<1>0. /\ w \in Workers /\ route = u /\ route.key = k
      /\ UNCHANGED <<api, cache, classes, lb, changes, spent, queue>>
      /\ u.pc \in Stages \union {"get"}
  BY <1>w, <1>u, <1>k
     DEF Workers, route, environment, RouteFound, RouteStore, RouteCompute, RouteAssign, Stages
<1>1. /\ k \in Own(w) /\ k \in Keys /\ k \in Routes /\ Engaged(w, k)
      /\ u.pc \in Stages => Working(w) /\ {u.base, u.obj} \subseteq RouteObjects
      /\ DOMAIN u = {"pc", "key", "base", "obj", "snap"}
      /\ task = [v \in Workers |-> task[v]] /\ store = [j \in Keys |-> store[j]]
  BY <1>w, <1>u, <1>k, <1>0, EngagedFacts, KeysFacts DEF Working, Own
<1>2. /\ \A j \in Keys : j # k => api'[j] = api[j]
      /\ Numbered(k, api'[k]) /\ Numbered(k, cache[k])
      /\ u.pc \in Stages => u.base # Absent /\ Numbered(k, u.base)
  BY <1>u, <1>k, <1>0, <1>1 DEF RestInv, AllNumbered
<1>3. "platform" \notin spent /\ u.pc \in Stages => WorkOK(w, u)
  BY <1>u, <1>0, <1>1 DEF RestInv, Pending
\* A step that only changes where the worker is, with the object b.
<1>t. ASSUME NEW t, NEW p \in Stages, NEW a, NEW b, HasFields(t, p, k, a, b, u.snap),
             task' = [task EXCEPT ![w] = t], a # Absent, Numbered(k, a),
             \A j \in Keys : j # k => store'[j] = store[j],
             "platform" \notin spent =>
               /\ k \notin queue[w] => cache[k] = a
               /\ b = [a EXCEPT !.status = b.status]
               /\ p \in {"assign", "put"} => b.status # a.status
               /\ p \in {"store", "compute"} => b = a
      PROVE  RestInv'
  <2>1. "platform" \notin spent => WorkOK(w, t)'
    BY <1>w, <1>0, <1>t DEF WorkOK, HasFields
  <2>2. t.pc \in Stages /\ t.key = k /\ t.base # Absent /\ Numbered(k, t.base)
    BY <1>t DEF HasFields
  <2> QED
    BY <1>0, <1>1, <1>2, <1>t, <2>1, <2>2, WorkerStep
<1>4. CASE RouteFound
  <2>t. PICK t : t = [u EXCEPT !.pc = "store", !.base = cache[k], !.obj = cache[k]]
    OBVIOUS
  <2>0. /\ cache[k] # Absent /\ UNCHANGED store /\ task' = [task EXCEPT ![w] = t]
    BY <1>w, <1>u, <1>0, <1>1, <1>4, <2>t DEF RouteFound
  <2>1. HasFields(t, "store", k, cache[k], cache[k], u.snap)
    BY <1>1, <1>k, <2>t DEF HasFields
  <2>2. cache[k] \in RouteObjects
    BY <1>w, <1>1, <2>0, KeysFacts DEF TypeOK, ObjectMap
  <2>3. cache[k] = [cache[k] EXCEPT !.status = cache[k].status]
    BY <2>2 DEF RouteObjects
  <2> QED
    BY <1>2, <1>t, <2>0, <2>1, <2>3 DEF Stages
<1>5. CASE RouteStore
  <2>t. PICK t : t = [u EXCEPT !.pc = "compute"]
    OBVIOUS
  <2>0. /\ u.pc = "store" /\ \A j \in Keys : j # k => store'[j] = store[j]
        /\ task' = [task EXCEPT ![w] = t]
    BY <1>w, <1>u, <1>0, <1>1, <1>5, <2>t DEF RouteStore, Go
  <2>1. HasFields(t, "compute", k, u.base, u.obj, u.snap)
    BY <1>1, <1>k, <2>t DEF HasFields
  <2>2. "platform" \notin spent =>
          /\ k \notin queue[w] => cache[k] = u.base
          /\ u.obj = [u.base EXCEPT !.status = u.obj.status] /\ u.obj = u.base
    BY <1>w, <1>k, <1>3, <2>0 DEF WorkOK, Stages
  <2> QED
    BY <1>2, <1>t, <2>0, <2>1, <2>2 DEF Stages
<1>6. CASE RouteCompute
  <2>n. PICK n : n = RouteStatus(u.obj, store)
    OBVIOUS
  <2>0. /\ u.pc = "compute" /\ UNCHANGED store
        /\ \/ n = u.base.status /\ Update(w)
           \/ /\ n # u.base.status
              /\ task' = [task EXCEPT !["httpRoutes"].pc = "assign",
                                      !["httpRoutes"].obj.status = n]
    BY <1>w, <1>0, <1>6, <2>n DEF RouteCompute
  <2>1. {u.base, u.obj} \subseteq RouteObjects /\ u.base # Absent /\ store[k] = u.obj
    BY <1>0, <1>1, <1>2, <2>0 DEF RouteShared, Stages
  <2>2. CASE n = u.base.status /\ Update(w)
    <3>1. ASSUME "platform" \notin spent, k \notin queue[w] PROVE Settled(k)'
      <4>1. u.obj = u.base /\ cache[k] = u.base
        BY <1>w, <1>k, <1>3, <2>0, <3>1 DEF WorkOK, Stages
      <4>2. Right(k, u.base)
        BY <1>1, <2>n, <2>1, <2>2, <4>1, ComputedIsRight
      <4>3. Settled(k)
        BY <2>1, <4>1, <4>2 DEF Settled
      <4> QED
        BY <1>0, <1>1, <2>0, <4>3, SettledKept
    <3> QED
      BY <1>0, <1>1, <1>2, <2>0, <2>2, <3>1, SettleStep
  <2>3. CASE n # u.base.status
    <3>b. PICK b : b = [u.obj EXCEPT !.status = n]
      OBVIOUS
    <3>t. PICK t : t = [u EXCEPT !.pc = "assign", !.obj = b]
      OBVIOUS
    <3>0. task' = [task EXCEPT ![w] = t]
      BY <1>w, <1>u, <1>1, <2>0, <2>3, <3>b, <3>t
    <3>1. HasFields(t, "assign", k, u.base, b, u.snap)
      BY <1>1, <1>k, <3>t DEF HasFields
    <3>2. /\ b.status = n
          /\ u.obj = u.base => b = [u.base EXCEPT !.status = b.status]
      BY <2>1, <3>b DEF RouteObjects
    <3>3. "platform" \notin spent =>
            u.obj = u.base /\ (k \notin queue[w] => cache[k] = u.base)
      BY <1>w, <1>k, <1>3, <2>0 DEF WorkOK, Stages
    <3> QED
      BY <1>2, <1>t, <2>0, <2>1, <2>3, <3>0, <3>1, <3>2, <3>3 DEF Stages
  <2> QED
    BY <2>0, <2>2, <2>3
<1>7. CASE RouteAssign
  <2>t. PICK t : t = [u EXCEPT !.pc = "put"]
    OBVIOUS
  <2>0. /\ u.pc = "assign" /\ \A j \in Keys : j # k => store'[j] = store[j]
        /\ task' = [task EXCEPT ![w] = t]
    BY <1>w, <1>u, <1>0, <1>1, <1>7, <2>t DEF RouteAssign, Go
  <2>1. HasFields(t, "put", k, u.base, u.obj, u.snap)
    BY <1>1, <1>k, <2>t DEF HasFields
  <2>2. "platform" \notin spent =>
          /\ k \notin queue[w] => cache[k] = u.base
          /\ u.obj = [u.base EXCEPT !.status = u.obj.status]
          /\ u.obj.status # u.base.status
    BY <1>w, <1>k, <1>3, <2>0 DEF WorkOK, Stages
  <2> QED
    BY <1>2, <1>t, <2>0, <2>1, <2>2 DEF Stages
<1> QED
  BY <1>4, <1>5, <1>6, <1>7

----------------------------------------------------------------------------
(* The theorems about rest. *)

\* Every step keeps every object attended to.
LEMMA RestStep == IInv /\ RestInv /\ [Next]_vars => RestInv'
<1> SUFFICES ASSUME TypeOK, RouteShared, RestInv, [Next]_vars PROVE RestInv'
  BY DEF IInv
<1>1. CASE UNCHANGED vars
  <2>1. AllNumbered'
    BY <1>1 DEF vars, RestInv, AllNumbered, Numbered, Working
  <2>2. Attended => Attended'
    BY <1>1 DEF vars, Attended, Engaged, Working, Settled, Foreign, Managed, Right
  <2>3. (\A w \in Workers : Working(w) => WorkOK(w, task[w]))
          => (\A w \in Workers : Working(w) => WorkOK(w, task[w]))'
    BY <1>1 DEF vars, Working, WorkOK
  <2> QED
    BY <1>1, <2>1, <2>2, <2>3 DEF vars, RestInv, Pending
<1>2. CASE \/ \E k \in Keys : Apply(k) \/ Remove(k) \/ Deliver(k) \/ Resync(k)
           \/ AssignAddress \/ ChangePlatform \/ Restart
  BY <1>2, UserStep, EventStep, AddressStep, PlatformStep, RestartStep
<1>3. ASSUME NEW w \in Workers, Reconcile(w) \/ PutFailed(w) \/ \E k \in Keys : Take(w, k)
      PROVE  RestInv'
  BY <1>3, TakeStep, GoneStep, PutAcceptedStep, PutRefusedStep, UpdateProxyStep,
     GatewayRestStep, RouteRestStep DEF Reconcile
<1> QED
  BY <1>1, <1>2, <1>3 DEF Next

\* The two invariants are inductive together.
LEMMA RestInvariance == Spec => [](IInv /\ RestInv)
<1>1. Init => IInv /\ RestInv
  BY InitIInv, InitRestInv
<1>2. (IInv /\ RestInv) /\ [Next]_vars => (IInv /\ RestInv)'
  BY NextIInv, RestStep
<1> QED
  BY <1>1, <1>2, PTL DEF Spec

\* At rest every object is settled, and the cache is the API server's.
LEMMA RestSettled ==
  ASSUME RestInv, AtRest, "platform" \notin spent, NEW k \in Keys
  PROVE  /\ cache = api /\ Settled(k)
<1>1. PICK w \in Workers : k \in Own(w)
  BY OwnDisjoint
<1>2. queue[w] = {} /\ task[w] = Idle /\ cache = api
  BY DEF AtRest
<1>3. ~Engaged(w, k)
  BY <1>2 DEF Engaged, Idle, Stages
<1> QED
  BY <1>1, <1>2, <1>3 DEF RestInv, Pending, Attended

\* What a user changed, the informer delivered late, a reconciler read too
\* early, failed to write or was interrupted in is in State in the end: once
\* no request waits or runs, State has the routes of the API server with their
\* statuses, the Gateways of our classes, and nothing that was deleted.
THEOREM MirrorsAtRest == Spec => []MirrorAtRest
<1>1. IInv /\ RestInv => MirrorAtRest
  <2> SUFFICES ASSUME RestInv, AtRest, "platform" \notin spent
               PROVE  /\ \A r \in Routes : store[r] = api[r]
                      /\ \A g \in Gateways :
                           IF api[g] = Absent THEN store[g] = Absent
                           ELSE Managed(api[g]) => store[g] = api[g]
    BY DEF MirrorAtRest
  <2> QED
    BY RestSettled, KeysAssumption DEF Settled, Foreign, Keys
<1> QED
  BY RestInvariance, <1>1, PTL

\* And the API server has the conditions of the current generations: no status
\* is left behind by a conflict, a failed write, a panic or a restart.
THEOREM ObservesAtRest == Spec => []ObservedAtRest
<1>1. IInv /\ RestInv => ObservedAtRest
  <2> SUFFICES ASSUME RestInv, AtRest, "platform" \notin spent, NEW k \in Keys,
                      api[k] # Absent, ~Foreign(k, api[k])
               PROVE  Right(k, api[k])
    BY KeysAssumption DEF ObservedAtRest, Right, Foreign, Keys
  <2> QED
    BY RestSettled DEF Settled
<1> QED
  BY RestInvariance, <1>1, PTL

----------------------------------------------------------------------------
(* ControlPlane implements ProxySync. *)

\* Outside updateProxy a worker has copied nothing.
NoCopies ==
  \A w \in Workers : task[w].pc \notin {"readRoutes", "publish"} => task[w].snap = NothingCopied

\* The state of ProxySync.
SharedStore == [w \in Workers |-> Content(Own(w))]
SharedPC    == [w \in Workers |-> Place(w, task[w].pc)]
SharedNext  == [w \in Workers |-> NextCopy(task[w].pc)]
SharedSnap  == [w \in Workers |-> task[w].snap]

SharedValues == SUBSET ((Gateways \X GatewaySpecs) \union (Routes \X RouteSpecs))

LEMMA PlaceFacts ==
  /\ \A w \in Workers : \A pc \in {"idle", "get", "store"} : Place(w, pc) = "idle"
  /\ \A pc \in PCs \ {"readGateways", "readRoutes", "publish"} : Place("gateways", pc) = "idle"
  /\ \A pc \in {"compute", "assign", "put"} : Place("httpRoutes", pc) = "written"
  /\ \A w \in Workers : Place(w, "readGateways") = "written"
  /\ \A w \in Workers : \A pc \in {"readRoutes", "publish"} : Place(w, pc) = "update"
  /\ \A pc \in PCs \ {"readRoutes", "publish"} : NextCopy(pc) = 1
  /\ NextCopy("readRoutes") = 2 /\ NextCopy("publish") = 3
  BY DEF Place, NextCopy, PCs, Workers

\* What BuildInternalRoutes reads of State is a content of ProxySync's maps.
LEMMA ContentIsValue ==
  ASSUME NEW m, ObjectMap(m), NEW w \in Workers
  PROVE  {<<k, m[k].spec>> : k \in {j \in Own(w) : m[j] # Absent}} \in SharedValues
<1>1. ASSUME NEW k \in Own(w), m[k] # Absent
      PROVE  <<k, m[k].spec>> \in (Gateways \X GatewaySpecs) \union (Routes \X RouteSpecs)
  <2>1. m[k] \in Objects(k)
    BY <1>1, KeysFacts DEF ObjectMap
  <2>2. CASE w = "gateways"
    BY <2>1, <2>2 DEF Own, Objects, GatewayObjects
  <2>3. CASE w = "httpRoutes"
    BY <2>1, <2>3, KeysAssumption DEF Own, Objects, RouteObjects
  <2> QED
    BY <2>2, <2>3 DEF Workers
<1> QED
  BY <1>1 DEF SharedValues

\* A worker's value that is set to what it is.
LEMMA SetToSame ==
  ASSUME NEW w \in Workers, NEW f, f = [v \in Workers |-> f[v]]
  PROVE  [f EXCEPT ![w] = f[w]] = f
  OBVIOUS

\* The move of one worker, in the state of ProxySync.
LEMMA SharedTask ==
  ASSUME TypeOK, NEW w \in Workers, NEW t, task' = [task EXCEPT ![w] = t]
  PROVE  /\ SharedPC'   = [SharedPC EXCEPT ![w] = Place(w, t.pc)]
         /\ SharedNext' = [SharedNext EXCEPT ![w] = NextCopy(t.pc)]
         /\ SharedSnap' = [SharedSnap EXCEPT ![w] = t.snap]
<1>1. \A v \in Workers : task'[v] = IF v = w THEN t ELSE task[v]
  BY DEF TypeOK
<1>2. SharedPC' = [SharedPC EXCEPT ![w] = Place(w, t.pc)]
  <2>1. SharedPC' = [v \in Workers |-> Place(v, task'[v].pc)]
    BY DEF SharedPC, Place
  <2>2. \A v \in Workers : Place(v, task'[v].pc) = IF v = w THEN Place(w, t.pc)
                                                  ELSE Place(v, task[v].pc)
    BY <1>1
  <2> HIDE DEF Place
  <2> QED
    BY <2>1, <2>2 DEF SharedPC
<1>3. SharedNext' = [SharedNext EXCEPT ![w] = NextCopy(t.pc)]
  <2>1. SharedNext' = [v \in Workers |-> NextCopy(task'[v].pc)]
    BY DEF SharedNext, NextCopy
  <2>2. \A v \in Workers : NextCopy(task'[v].pc) = IF v = w THEN NextCopy(t.pc)
                                                  ELSE NextCopy(task[v].pc)
    BY <1>1
  <2> QED
    BY <2>1, <2>2 DEF SharedNext
<1>4. SharedSnap' = [SharedSnap EXCEPT ![w] = t.snap]
  <2>1. SharedSnap' = [v \in Workers |-> task'[v].snap]
    BY DEF SharedSnap
  <2>2. \A v \in Workers : task'[v].snap = IF v = w THEN t.snap ELSE task[v].snap
    BY <1>1
  <2> QED
    BY <2>1, <2>2 DEF SharedSnap
<1> QED
  BY <1>2, <1>3, <1>4

\* What a step has to show: it is one of ProxySync, and keeps NoCopies.
SharedStep == [Shared!Next]_Shared!vars /\ NoCopies'

\* The move of one worker keeps NoCopies.
LEMMA NoCopiesKept ==
  ASSUME TypeOK, NoCopies, NEW w \in Workers, NEW t, task' = [task EXCEPT ![w] = t],
         t.pc \in {"readRoutes", "publish"} \/ t.snap = NothingCopied
  PROVE  NoCopies'
<1>1. \A v \in Workers : task'[v] = IF v = w THEN t ELSE task[v]
  BY DEF TypeOK
<1> QED
  BY <1>1 DEF NoCopies, NothingCopied

\* A step in which State's content, the routes and the place of every worker
\* in ProxySync stay is none of ProxySync.
LEMMA StaysStep ==
  ASSUME TypeOK, NoCopies, NEW w \in Workers, NEW t, task' = [task EXCEPT ![w] = t],
         UNCHANGED routes, SharedStore' = SharedStore,
         {task[w].pc, t.pc} \subseteq PCs \ {"readRoutes", "publish"},
         Place(w, t.pc) = Place(w, task[w].pc), t.snap = NothingCopied
  PROVE  SharedStep
<1>1. SharedPC' = SharedPC /\ SharedNext' = SharedNext /\ SharedSnap' = SharedSnap
  <2>1. /\ SharedPC[w] = Place(w, t.pc) /\ SharedNext[w] = NextCopy(t.pc)
        /\ SharedSnap[w] = t.snap
    BY PlaceFacts DEF SharedPC, SharedNext, SharedSnap, NoCopies
  <2>2. /\ [SharedPC EXCEPT ![w] = SharedPC[w]] = SharedPC
        /\ [SharedNext EXCEPT ![w] = SharedNext[w]] = SharedNext
        /\ [SharedSnap EXCEPT ![w] = SharedSnap[w]] = SharedSnap
    BY SetToSame DEF SharedPC, SharedNext, SharedSnap
  <2>3. /\ SharedPC'   = [SharedPC EXCEPT ![w] = Place(w, t.pc)]
        /\ SharedNext' = [SharedNext EXCEPT ![w] = NextCopy(t.pc)]
        /\ SharedSnap' = [SharedSnap EXCEPT ![w] = t.snap]
    BY SharedTask
  <2> QED
    BY <2>1, <2>2, <2>3
<1>2. UNCHANGED Shared!vars
  BY <1>1 DEF Shared!vars, SharedStore, SharedPC, SharedNext, SharedSnap
<1> QED
  BY <1>2, NoCopiesKept DEF SharedStep

\* A store in State.
LEMMA WriteStep ==
  ASSUME TypeOK, TypeOK', NoCopies, NEW w \in Workers, NEW t, task' = [task EXCEPT ![w] = t],
         UNCHANGED routes,
         \A k \in Keys \ Own(w) : store'[k] = store[k],
         task[w].pc \in PCs, Place(w, task[w].pc) = "idle",
         t.pc \in PCs, Place(w, t.pc) = "written", t.snap = NothingCopied
  PROVE  SharedStep
<1>1. {task[w].pc, t.pc} \subseteq PCs \ {"readRoutes", "publish"}
  BY PlaceFacts
<1>2. /\ SharedPC' = [SharedPC EXCEPT ![w] = "written"] /\ SharedPC[w] = "idle"
      /\ SharedNext' = SharedNext /\ SharedSnap' = SharedSnap
  <2>1. SharedNext[w] = NextCopy(t.pc) /\ SharedSnap[w] = t.snap /\ SharedPC[w] = "idle"
    BY <1>1, PlaceFacts DEF SharedPC, SharedNext, SharedSnap, NoCopies
  <2>2. /\ [SharedNext EXCEPT ![w] = SharedNext[w]] = SharedNext
        /\ [SharedSnap EXCEPT ![w] = SharedSnap[w]] = SharedSnap
    BY SetToSame DEF SharedNext, SharedSnap
  <2>3. /\ SharedPC'   = [SharedPC EXCEPT ![w] = Place(w, t.pc)]
        /\ SharedNext' = [SharedNext EXCEPT ![w] = NextCopy(t.pc)]
        /\ SharedSnap' = [SharedSnap EXCEPT ![w] = t.snap]
    BY SharedTask
  <2> QED
    BY <2>1, <2>2, <2>3
<1>3. \E v \in SharedValues : SharedStore' = [SharedStore EXCEPT ![w] = v]
  <2>1. (Content(Own(w)))' \in SharedValues
    <3>1. ObjectMap(store')
      BY DEF TypeOK, ObjectMap
    <3> QED
      BY <3>1, ContentIsValue DEF Content, Own
  <2>2. \A v \in Workers : v # w => (Content(Own(v)))' = Content(Own(v))
    <3>1. \A v \in Workers : v # w => Own(v) \subseteq Keys \ Own(w)
      BY OwnDisjoint, KeysFacts
    <3> QED
      BY <3>1 DEF Content, Own
  <2>3. SharedStore' = [SharedStore EXCEPT ![w] = (Content(Own(w)))']
    BY <2>2 DEF SharedStore
  <2> QED
    BY <2>1, <2>3
<1>4. Shared!Write(w)
  BY <1>2, <1>3
     DEF Shared!Write, SharedStore, SharedPC, SharedNext, SharedSnap, SharedValues
<1> QED
  BY <1>1, <1>4, NoCopiesKept DEF SharedStep, Shared!Next

\* HTTPRouteReconciler returns an error after its store.
LEMMA FailStep ==
  ASSUME TypeOK, NoCopies, task' = [task EXCEPT !["httpRoutes"] = Idle],
         UNCHANGED <<routes, store>>, task["httpRoutes"].pc = "put"
  PROVE  SharedStep
<1>w. PICK w : w = "httpRoutes"
  OBVIOUS
<1>0. w \in Workers /\ Idle.pc = "idle" /\ Idle.snap = NothingCopied
  BY <1>w DEF Workers, Idle
<1>1. /\ SharedPC' = [SharedPC EXCEPT ![w] = "idle"] /\ SharedPC[w] = "written"
      /\ SharedNext' = SharedNext /\ SharedSnap' = SharedSnap
  <2>1. SharedNext[w] = 1 /\ SharedSnap[w] = NothingCopied /\ SharedPC[w] = "written"
    BY <1>w, <1>0, PlaceFacts DEF SharedPC, SharedNext, SharedSnap, NoCopies, PCs
  <2>2. /\ [SharedNext EXCEPT ![w] = SharedNext[w]] = SharedNext
        /\ [SharedSnap EXCEPT ![w] = SharedSnap[w]] = SharedSnap
    BY <1>0, SetToSame DEF SharedNext, SharedSnap
  <2>3. /\ SharedPC'   = [SharedPC EXCEPT ![w] = Place(w, Idle.pc)]
        /\ SharedNext' = [SharedNext EXCEPT ![w] = NextCopy(Idle.pc)]
        /\ SharedSnap' = [SharedSnap EXCEPT ![w] = Idle.snap]
    BY <1>w, <1>0, SharedTask
  <2>4. Place(w, Idle.pc) = "idle" /\ NextCopy(Idle.pc) = 1
    BY <1>0, PlaceFacts DEF PCs
  <2> QED
    BY <1>0, <2>1, <2>2, <2>3, <2>4
<1>2. SharedStore' = SharedStore
  BY DEF SharedStore, Content, Own
<1>3. Shared!Fail(w)
  BY <1>w, <1>1, <1>2 DEF Shared!Fail, SharedStore, SharedPC, SharedNext, SharedSnap
<1>4. NoCopies'
  BY <1>w, <1>0, NoCopiesKept
<1> QED
  BY <1>0, <1>3, <1>4 DEF SharedStep, Shared!Next

\* The copy of one of State's maps: ReadGateways and ReadRoutes.
LEMMA ReadStep ==
  ASSUME TypeOK, NoCopies, NEW w \in Workers, ReadGateways(w) \/ ReadRoutes(w)
  PROVE  SharedStep
<1>0. /\ UNCHANGED <<routes, store>> /\ TaskOK(w, task[w])
      /\ DOMAIN task[w] = {"pc", "key", "base", "obj", "snap"}
      /\ task = [v \in Workers |-> task[v]]
      /\ task[w].snap = [v \in Workers |-> task[w].snap[v]]
      /\ Workers = {"gateways", "httpRoutes"}
  BY DEF ReadGateways, ReadRoutes, TypeOK, TaskOK, Workers
<1>1. SharedStore' = SharedStore
  BY <1>0 DEF SharedStore, Content, Own
<1>2. PICK j \in Workers, p \in {"readRoutes", "publish"} :
        \/ ReadGateways(w) /\ j = "gateways" /\ p = "readRoutes"
        \/ ReadRoutes(w) /\ j = "httpRoutes" /\ p = "publish"
  BY <1>0
<1>3. PICK c : c = Content(Own(j))
  OBVIOUS
<1>4. PICK t : t = [task[w] EXCEPT !.pc = p, !.snap[j] = c]
  OBVIOUS
<1>5. /\ task' = [task EXCEPT ![w] = t]
      /\ task[w].pc = IF j = "gateways" THEN "readGateways" ELSE "readRoutes"
      /\ t.pc = p /\ t.snap = [task[w].snap EXCEPT ![j] = c]
  BY <1>0, <1>2, <1>3, <1>4 DEF ReadGateways, ReadRoutes, Own
<1>6. /\ SharedPC'   = [SharedPC EXCEPT ![w] = "update"]
      /\ SharedNext' = [SharedNext EXCEPT ![w] = SharedNext[w] + 1]
      /\ SharedSnap' = [SharedSnap EXCEPT ![w] = [SharedSnap[w] EXCEPT ![j] = c]]
      /\ SharedPC[w] \in {"written", "update"}
      /\ SharedNext[w] = IF j = "gateways" THEN 1 ELSE 2
  <2>1. /\ SharedPC'   = [SharedPC EXCEPT ![w] = Place(w, t.pc)]
        /\ SharedNext' = [SharedNext EXCEPT ![w] = NextCopy(t.pc)]
        /\ SharedSnap' = [SharedSnap EXCEPT ![w] = t.snap]
    BY <1>5, SharedTask
  <2>2. SharedNext[w] = NextCopy(task[w].pc) /\ SharedPC[w] = Place(w, task[w].pc)
    BY DEF SharedNext, SharedPC
  <2>3. /\ Place(w, t.pc) = "update" /\ NextCopy(t.pc) = NextCopy(task[w].pc) + 1
        /\ Place(w, task[w].pc) \in {"written", "update"}
        /\ NextCopy(task[w].pc) = IF j = "gateways" THEN 1 ELSE 2
    BY <1>2, <1>5, PlaceFacts DEF PCs
  <2>4. SharedSnap[w] = task[w].snap
    BY DEF SharedSnap
  <2> QED
    BY <1>5, <2>1, <2>2, <2>3, <2>4
<1>7. /\ <<"gateways", "httpRoutes">>[SharedNext[w]] = j
      /\ SharedNext[w] <= Len(<<"gateways", "httpRoutes">>)
      /\ SharedStore[j] = c
  BY <1>0, <1>2, <1>3, <1>6 DEF SharedStore
<1>8. SharedSnap' = [SharedSnap EXCEPT ![w][j] = SharedStore[j]]
  BY <1>6, <1>7
<1>9. Shared!Read(w)
  BY <1>0, <1>1, <1>6, <1>7, <1>8
     DEF Shared!Read, SharedStore, SharedPC, SharedNext, SharedSnap
<1>10. NoCopies'
  BY <1>5, NoCopiesKept
<1> QED
  BY <1>9, <1>10 DEF SharedStep, Shared!Next

\* The install of the routes.
LEMMA PublishStep ==
  ASSUME TypeOK, NoCopies, NEW w \in Workers, Publish(w) PROVE SharedStep
<1>0. /\ task[w].pc = "publish" /\ UNCHANGED store /\ routes' = task[w].snap
      /\ task' = [task EXCEPT ![w] = Idle]
      /\ Idle.pc = "idle" /\ Idle.snap = NothingCopied
  BY DEF Publish, Return, Idle
<1>1. SharedStore' = SharedStore
  BY <1>0 DEF SharedStore, Content, Own
<1>2. /\ SharedPC'   = [SharedPC EXCEPT ![w] = "idle"]
      /\ SharedNext' = [SharedNext EXCEPT ![w] = 1]
      /\ SharedSnap' = [SharedSnap EXCEPT ![w] = NothingCopied]
  <2>1. /\ SharedPC'   = [SharedPC EXCEPT ![w] = Place(w, Idle.pc)]
        /\ SharedNext' = [SharedNext EXCEPT ![w] = NextCopy(Idle.pc)]
        /\ SharedSnap' = [SharedSnap EXCEPT ![w] = Idle.snap]
    BY <1>0, SharedTask
  <2>2. Place(w, Idle.pc) = "idle" /\ NextCopy(Idle.pc) = 1
    BY <1>0, PlaceFacts DEF PCs
  <2> QED
    BY <1>0, <2>1, <2>2
<1>3. SharedPC[w] = "update" /\ SharedNext[w] = 3 /\ SharedSnap[w] = task[w].snap
  BY <1>0, PlaceFacts DEF SharedPC, SharedNext, SharedSnap
<1>4. Shared!Publish(w)
  BY <1>0, <1>1, <1>2, <1>3
     DEF Shared!Publish, Shared!Nothing, SharedStore, SharedPC, SharedNext, SharedSnap,
         NothingCopied
<1>5. NoCopies'
  BY <1>0, NoCopiesKept
<1> QED
  BY <1>4, <1>5 DEF SharedStep, Shared!Next

\* A process that starts has an empty State, no routes and nothing running.
LEMMA InitShared == Init => Shared!Init /\ NoCopies
<1> SUFFICES ASSUME Init PROVE Shared!Init /\ NoCopies
  OBVIOUS
<1>0. /\ \A w \in Workers : task[w] = Idle
      /\ \A k \in Keys : store[k] = Absent
      /\ routes = NothingCopied /\ Idle.pc = "idle" /\ Idle.snap = NothingCopied
  BY DEF Init, Idle
<1>1. \A w \in Workers : Content(Own(w)) = {}
  BY <1>0, KeysFacts DEF Content
<1>2. \A w \in Workers : Place(w, "idle") = "idle" /\ NextCopy("idle") = 1
  BY PlaceFacts DEF PCs
<1> QED
  BY <1>0, <1>1, <1>2 DEF Shared!Init, Shared!Nothing, NothingCopied, NoCopies

LEMMA RestartShared == ASSUME Restart PROVE SharedStep
<1>0. /\ \A w \in Workers : task'[w] = Idle
      /\ \A k \in Keys : store'[k] = Absent
      /\ routes' = NothingCopied /\ Idle.pc = "idle" /\ Idle.snap = NothingCopied
  BY DEF Restart, Idle
<1>1. \A w \in Workers : (Content(Own(w)))' = {}
  BY <1>0, KeysFacts DEF Content, Own
<1>2. \A w \in Workers : Place(w, "idle") = "idle" /\ NextCopy("idle") = 1
  BY PlaceFacts DEF PCs
<1>3. /\ SharedStore' = NothingCopied
      /\ SharedPC'    = [w \in Workers |-> "idle"]
      /\ SharedNext'  = [w \in Workers |-> 1]
      /\ SharedSnap'  = [w \in Workers |-> NothingCopied]
  <2>1. SharedPC' = [w \in Workers |-> Place(w, task'[w].pc)]
    BY DEF SharedPC, Place
  <2>2. SharedNext' = [w \in Workers |-> NextCopy(task'[w].pc)]
    BY DEF SharedNext, NextCopy
  <2> QED
    BY <1>0, <1>1, <1>2, <2>1, <2>2 DEF SharedStore, SharedSnap, NothingCopied
<1>4. Shared!Restart
  BY <1>0, <1>3
     DEF Shared!Restart, Shared!Nothing, NothingCopied, SharedStore, SharedPC, SharedNext,
         SharedSnap
<1>5. NoCopies'
  BY <1>0 DEF NoCopies, NothingCopied
<1> QED
  BY <1>4, <1>5 DEF SharedStep, Shared!Next

\* Users, the platform and the informers touch neither State nor the proxy.
LEMMA OutsideStep ==
  ASSUME UNCHANGED <<task, store, routes>>, NoCopies PROVE SharedStep
<1>1. SharedStore' = SharedStore
  BY DEF SharedStore, Content, Own
<1>2. SharedPC' = SharedPC /\ SharedNext' = SharedNext /\ SharedSnap' = SharedSnap
  BY DEF SharedPC, SharedNext, SharedSnap, Place, NextCopy
<1>3. UNCHANGED Shared!vars
  BY <1>1, <1>2 DEF Shared!vars, SharedStore, SharedPC, SharedNext, SharedSnap
<1>4. NoCopies'
  BY DEF NoCopies, NothingCopied
<1> QED
  BY <1>3, <1>4 DEF SharedStep

\* The status that is assigned in place is not part of State's content.
LEMMA AssignKeepsContent ==
  ASSUME TypeOK, RouteShared, RouteAssign PROVE SharedStore' = SharedStore
<1> DEFINE k == route.key
<1>0. /\ route.pc = "assign" /\ store' = [store EXCEPT ![k].status = route.obj.status]
      /\ store = [j \in Keys |-> store[j]]
      /\ store[k] = [route.obj EXCEPT !.status = store[k].status]
  BY DEF RouteAssign, TypeOK, ObjectMap, RouteShared
<1>1. k \in Routes /\ k \in Keys /\ route.obj \in RouteObjects
  <2>1. TaskOK("httpRoutes", route) /\ "httpRoutes" \in Workers
    BY DEF TypeOK, route, Workers
  <2> QED
    BY <1>0, <2>1, KeysFacts DEF TaskOK, Own
<1>2. store'[k] = route.obj /\ store[k].spec = route.obj.spec
  BY <1>0, <1>1 DEF RouteObjects
<1>3. route.obj # Absent /\ store[k] # Absent
  <2>1. Absent \notin RouteObjects
    BY <1>1, KeysFacts, AbsentAssumption DEF Own
  <2> QED
    BY <1>0, <1>1, <2>1 DEF RouteShared
<1> HIDE DEF k
<1>4. \A j \in Keys : /\ store'[j] # Absent <=> store[j] # Absent
                      /\ store'[j] # Absent => store'[j].spec = store[j].spec
  BY <1>0, <1>1, <1>2, <1>3
<1>5. ASSUME NEW w \in Workers PROVE (Content(Own(w)))' = Content(Own(w))
  BY <1>4, KeysFacts DEF Content, Own
<1> QED
  BY <1>5 DEF SharedStore

\* A worker goes on with the object and the copies it has, or returns.
LEMMA GoesOn ==
  ASSUME TypeOK, NoCopies, NEW w \in Workers, UNCHANGED <<store, routes>>, NEW t,
         task' = [task EXCEPT ![w] = t], t.snap \in {task[w].snap, NothingCopied},
         {task[w].pc, t.pc} \subseteq PCs \ {"readRoutes", "publish"},
         Place(w, t.pc) = Place(w, task[w].pc)
  PROVE  SharedStep
<1>1. SharedStore' = SharedStore
  BY DEF SharedStore, Content, Own
<1>2. t.snap = NothingCopied
  BY DEF NoCopies
<1> QED
  BY <1>1, <1>2, StaysStep

\* The steps both reconcilers have.
LEMMA BothShared ==
  ASSUME TypeOK, TypeOK', NoCopies, NEW w \in Workers,
         \/ \E k \in Keys : Take(w, k)
         \/ Gone(w) \/ PutAccepted(w) \/ PutRejected(w) \/ PutFailed(w)
  PROVE  SharedStep
<1>u. PICK u : u = task[w]
  OBVIOUS
<1>0. /\ TaskOK(w, u) /\ DOMAIN u = {"pc", "key", "base", "obj", "snap"} /\ u.pc \in PCs
      /\ task = [v \in Workers |-> task[v]] /\ store = [j \in Keys |-> store[j]]
      /\ Workers = {"gateways", "httpRoutes"}
      /\ Idle.pc = "idle" /\ Idle.snap = NothingCopied
      /\ DOMAIN Idle = {"pc", "key", "base", "obj", "snap"}
  BY <1>u DEF TypeOK, TaskOK, ObjectMap, Workers, Idle
<1>1. ASSUME NEW k \in Keys, Take(w, k) PROVE SharedStep
  <2>t. PICK t : t = [u EXCEPT !.pc = "get", !.key = k]
    OBVIOUS
  <2>1. /\ u.pc = "idle" /\ task' = [task EXCEPT ![w] = t] /\ UNCHANGED <<store, routes>>
        /\ t.pc = "get" /\ t.snap = u.snap
    BY <1>u, <1>0, <1>1, <2>t DEF Take
  <2> QED
    <3>1. /\ Place(w, t.pc) = Place(w, u.pc)
          /\ {u.pc, t.pc} \subseteq PCs \ {"readRoutes", "publish"}
      BY <2>1, PlaceFacts DEF PCs
    <3> QED
      BY <1>u, <2>1, <3>1, GoesOn
<1>2. CASE Gone(w)
  <2>t. PICK t : t = [Idle EXCEPT !.pc = "readGateways"]
    OBVIOUS
  <2>1. /\ u.pc = "get" /\ task' = [task EXCEPT ![w] = t] /\ UNCHANGED routes
        /\ t.pc = "readGateways" /\ t.snap = NothingCopied
        /\ \A k \in Keys \ Own(w) : store'[k] = store[k]
    BY <1>u, <1>0, <1>2, <2>t DEF Gone, Update, TaskOK
  <2> QED
    BY <1>u, <2>1, PlaceFacts, WriteStep DEF PCs
<1>3. CASE PutAccepted(w) /\ w = "gateways"
  <2>t. PICK t : t = [u EXCEPT !.pc = "store"]
    OBVIOUS
  <2>1. /\ u.pc = "put" /\ task' = [task EXCEPT ![w] = t] /\ UNCHANGED <<store, routes>>
        /\ t.pc = "store" /\ t.snap = u.snap
    BY <1>u, <1>0, <1>3, <2>t DEF PutAccepted, Go
  <2> QED
    <3>1. /\ Place(w, t.pc) = Place(w, u.pc)
          /\ {u.pc, t.pc} \subseteq PCs \ {"readRoutes", "publish"}
      BY <1>0, <1>3, <2>1, PlaceFacts DEF PCs
    <3> QED
      BY <1>u, <2>1, <3>1, GoesOn
<1>4. CASE PutAccepted(w) /\ w = "httpRoutes"
  <2>t. PICK t : t = [Idle EXCEPT !.pc = "readGateways"]
    OBVIOUS
  <2>1. /\ u.pc = "put" /\ task' = [task EXCEPT ![w] = t] /\ UNCHANGED <<store, routes>>
        /\ t.pc = "readGateways" /\ t.snap = NothingCopied
    BY <1>u, <1>0, <1>4, <2>t DEF PutAccepted, Update
  <2> QED
    <3>1. /\ Place(w, t.pc) = Place(w, u.pc)
          /\ {u.pc, t.pc} \subseteq PCs \ {"readRoutes", "publish"}
      BY <1>0, <1>4, <2>1, PlaceFacts DEF PCs
    <3> QED
      BY <1>u, <2>1, <3>1, GoesOn
<1>5. CASE PutRejected(w) \/ PutFailed(w)
  <2>1. /\ u.pc = "put" /\ task' = [task EXCEPT ![w] = Idle] /\ UNCHANGED <<store, routes>>
    BY <1>u, <1>5 DEF PutRejected, PutFailed, ReturnRequeue
  <2>2. CASE w = "gateways"
    BY <1>u, <1>0, <2>1, <2>2, PlaceFacts, GoesOn DEF PCs
  <2>3. CASE w = "httpRoutes"
    BY <1>u, <2>1, <2>3, FailStep
  <2> QED
    BY <1>0, <2>2, <2>3
<1> QED
  BY <1>0, <1>1, <1>2, <1>3, <1>4, <1>5

\* GatewayReconciler writes State's map of Gateways in one place only.
LEMMA GatewayShared ==
  ASSUME TypeOK, TypeOK', NoCopies,
         \/ GatewayForeign \/ GatewayNoAddress \/ GatewayFound
         \/ GatewayCompute \/ GatewayTorn \/ GatewayStore
  PROVE  SharedStep
<1>w. PICK w : w = "gateways"
  OBVIOUS
<1>u. PICK u : u = task[w]
  OBVIOUS
<1>0. /\ w \in Workers /\ u = gateway
      /\ TaskOK(w, u) /\ DOMAIN u = {"pc", "key", "base", "obj", "snap"} /\ u.pc \in PCs
      /\ task = [v \in Workers |-> task[v]] /\ store = [j \in Keys |-> store[j]]
      /\ Idle.pc = "idle" /\ Idle.snap = NothingCopied
      /\ DOMAIN Idle = {"pc", "key", "base", "obj", "snap"}
  BY <1>w, <1>u DEF TypeOK, TaskOK, ObjectMap, Workers, Idle, gateway
<1>1. CASE GatewayForeign \/ GatewayNoAddress \/ GatewayTorn
  <2>1. /\ u.pc \in {"get", "compute"} /\ task' = [task EXCEPT ![w] = Idle]
        /\ UNCHANGED <<store, routes>>
    BY <1>w, <1>0, <1>1
       DEF GatewayForeign, GatewayNoAddress, GatewayTorn, Return, ReturnRequeue
  <2> QED
    <3>1. /\ Place(w, Idle.pc) = Place(w, u.pc)
          /\ {u.pc, Idle.pc} \subseteq PCs \ {"readRoutes", "publish"}
      BY <1>w, <1>0, <2>1, PlaceFacts DEF PCs
    <3> QED
      BY <1>0, <1>u, <2>1, <3>1, GoesOn
<1>2. CASE GatewayFound
  <2>b. PICK b : b = [cache[u.key] EXCEPT !.status.ip = lb]
    OBVIOUS
  <2>t. PICK t : t = [u EXCEPT !.pc = "compute", !.base = cache[u.key], !.obj = b]
    OBVIOUS
  <2>1. /\ u.pc = "get" /\ task' = [task EXCEPT ![w] = t] /\ UNCHANGED <<store, routes>>
        /\ t.pc = "compute" /\ t.snap = u.snap
    BY <1>w, <1>u, <1>0, <1>2, <2>b, <2>t DEF GatewayFound
  <2> QED
    <3>1. /\ Place(w, t.pc) = Place(w, u.pc)
          /\ {u.pc, t.pc} \subseteq PCs \ {"readRoutes", "publish"}
      BY <1>w, <1>0, <2>1, PlaceFacts DEF PCs
    <3> QED
      BY <1>0, <1>u, <2>1, <3>1, GoesOn
<1>3. CASE GatewayCompute
  <2>n. PICK n : n = [u.obj.status EXCEPT !.obs = u.base.gen, !.attached = Attached(u.key, store)]
    OBVIOUS
  <2>p. PICK p : p = IF n = u.base.status THEN "store" ELSE "put"
    OBVIOUS
  <2>t. PICK t : t = [u EXCEPT !.pc = p, !.obj.status = n]
    OBVIOUS
  <2>0. /\ u.pc = "compute" /\ UNCHANGED <<store, routes>>
        /\ task' = [task EXCEPT !["gateways"].obj.status = n, !["gateways"].pc = p]
    BY <1>0, <1>3, <2>n, <2>p DEF GatewayCompute
  <2>1. task' = [task EXCEPT ![w] = t] /\ t.pc = p /\ t.snap = u.snap
    BY <1>w, <1>u, <1>0, <2>0, <2>t
  <2> QED
    BY <1>w, <1>u, <1>0, <2>p, <2>0, <2>1, PlaceFacts, GoesOn DEF PCs
<1>4. CASE GatewayStore
  <2>t. PICK t : t = [Idle EXCEPT !.pc = "readGateways"]
    OBVIOUS
  <2>1. /\ u.pc = "store" /\ task' = [task EXCEPT ![w] = t] /\ UNCHANGED routes
        /\ t.pc = "readGateways" /\ t.snap = NothingCopied
        /\ \A k \in Keys \ Own(w) : store'[k] = store[k]
    BY <1>w, <1>0, <1>4, <2>t DEF GatewayStore, Update, TaskOK
  <2>2. /\ {u.pc, t.pc} \subseteq PCs
        /\ Place(w, u.pc) = "idle" /\ Place(w, t.pc) = "written"
    BY <1>w, <1>0, <2>1, PlaceFacts DEF PCs
  <2> QED
    BY <1>u, <1>0, <2>1, <2>2, WriteStep
<1> QED
  BY <1>1, <1>2, <1>3, <1>4

\* HTTPRouteReconciler writes State's map of routes before it computes, and
\* nothing that BuildInternalRoutes reads of it after that.
LEMMA RouteIsWriter ==
  ASSUME TypeOK, TypeOK', RouteShared, NoCopies,
         RouteFound \/ RouteStore \/ RouteCompute \/ RouteAssign
  PROVE  SharedStep
<1>w. PICK w : w = "httpRoutes"
  OBVIOUS
<1>u. PICK u : u = task[w]
  OBVIOUS
<1>0. /\ w \in Workers /\ u = route
      /\ TaskOK(w, u) /\ DOMAIN u = {"pc", "key", "base", "obj", "snap"} /\ u.pc \in PCs
      /\ task = [v \in Workers |-> task[v]] /\ store = [j \in Keys |-> store[j]]
      /\ Idle.pc = "idle" /\ Idle.snap = NothingCopied
      /\ DOMAIN Idle = {"pc", "key", "base", "obj", "snap"}
  BY <1>w, <1>u DEF TypeOK, TaskOK, ObjectMap, Workers, Idle, route
<1>1. CASE RouteFound
  <2>t. PICK t : t = [u EXCEPT !.pc = "store", !.base = cache[u.key], !.obj = cache[u.key]]
    OBVIOUS
  <2>1. /\ u.pc = "get" /\ task' = [task EXCEPT ![w] = t] /\ UNCHANGED <<store, routes>>
        /\ t.pc = "store" /\ t.snap = u.snap
    BY <1>w, <1>u, <1>0, <1>1, <2>t DEF RouteFound
  <2>2. /\ {u.pc, t.pc} \subseteq PCs \ {"readRoutes", "publish"}
        /\ Place(w, t.pc) = Place(w, u.pc)
    BY <1>0, <2>1, PlaceFacts DEF PCs
  <2> QED
    BY <1>u, <1>0, <2>1, <2>2, GoesOn
<1>2. CASE RouteStore
  <2>t. PICK t : t = [u EXCEPT !.pc = "compute"]
    OBVIOUS
  <2>1. /\ u.pc = "store" /\ task' = [task EXCEPT ![w] = t] /\ UNCHANGED routes
        /\ t.pc = "compute" /\ t.snap = NothingCopied
        /\ \A k \in Keys \ Own(w) : store'[k] = store[k]
    BY <1>w, <1>u, <1>0, <1>2, <2>t DEF RouteStore, Go, TaskOK, NoCopies
  <2>2. /\ {u.pc, t.pc} \subseteq PCs
        /\ Place(w, u.pc) = "idle" /\ Place(w, t.pc) = "written"
    BY <1>w, <1>0, <2>1, PlaceFacts DEF PCs
  <2> QED
    BY <1>u, <1>0, <2>1, <2>2, WriteStep
<1>3. CASE RouteCompute
  <2>n. PICK n : n = RouteStatus(u.obj, store)
    OBVIOUS
  <2>0. /\ u.pc = "compute" /\ UNCHANGED <<store, routes>>
        /\ \/ Update(w)
           \/ task' = [task EXCEPT !["httpRoutes"].pc = "assign",
                                   !["httpRoutes"].obj.status = n]
    BY <1>w, <1>0, <1>3, <2>n DEF RouteCompute
  <2>t. PICK t : \/ t = [Idle EXCEPT !.pc = "readGateways"] /\ Update(w)
                 \/ /\ t = [u EXCEPT !.pc = "assign", !.obj.status = n]
                    /\ task' = [task EXCEPT !["httpRoutes"].pc = "assign",
                                            !["httpRoutes"].obj.status = n]
    BY <2>0
  <2>1. /\ task' = [task EXCEPT ![w] = t] /\ t.pc \in {"assign", "readGateways"}
        /\ t.snap \in {u.snap, NothingCopied}
    <3>1. CASE t = [Idle EXCEPT !.pc = "readGateways"] /\ Update(w)
      BY <1>0, <3>1 DEF Update
    <3>2. CASE /\ t = [u EXCEPT !.pc = "assign", !.obj.status = n]
               /\ task' = [task EXCEPT !["httpRoutes"].pc = "assign",
                                       !["httpRoutes"].obj.status = n]
      BY <1>w, <1>u, <1>0, <3>2
    <3> QED
      BY <2>t, <3>1, <3>2
  <2>2. /\ {u.pc, t.pc} \subseteq PCs \ {"readRoutes", "publish"}
        /\ Place(w, t.pc) = Place(w, u.pc)
    BY <1>w, <1>0, <2>0, <2>1, PlaceFacts DEF PCs
  <2>3. /\ {task[w].pc, t.pc} \subseteq PCs \ {"readRoutes", "publish"}
        /\ Place(w, t.pc) = Place(w, task[w].pc)
        /\ t.snap \in {task[w].snap, NothingCopied}
    BY <1>u, <2>1, <2>2
  <2> QED
    BY <1>0, <2>0, <2>1, <2>3, GoesOn
<1>4. CASE RouteAssign
  <2>t. PICK t : t = [u EXCEPT !.pc = "put"]
    OBVIOUS
  <2>1. /\ u.pc = "assign" /\ task' = [task EXCEPT ![w] = t] /\ UNCHANGED routes
        /\ t.pc = "put" /\ t.snap = NothingCopied
    BY <1>w, <1>u, <1>0, <1>4, <2>t DEF RouteAssign, Go, NoCopies
  <2>2. /\ {u.pc, t.pc} \subseteq PCs \ {"readRoutes", "publish"}
        /\ Place(w, t.pc) = Place(w, u.pc)
    BY <1>w, <1>0, <2>1, PlaceFacts DEF PCs
  <2>3. SharedStore' = SharedStore
    BY <1>4, AssignKeepsContent
  <2>4. /\ {task[w].pc, t.pc} \subseteq PCs \ {"readRoutes", "publish"}
        /\ Place(w, t.pc) = Place(w, task[w].pc)
    BY <1>u, <2>2
  <2> QED
    BY <1>0, <2>1, <2>3, <2>4, StaysStep
<1> QED
  BY <1>1, <1>2, <1>3, <1>4

\* Every step is one of ProxySync, or none of its state's business.
LEMMA NextShared == IInv /\ NoCopies /\ [Next]_vars => SharedStep
<1> SUFFICES ASSUME IInv, NoCopies, [Next]_vars PROVE SharedStep
  OBVIOUS
<1>0. TypeOK /\ TypeOK' /\ RouteShared
  BY NextIInv DEF IInv
<1>1. CASE UNCHANGED vars
  BY <1>1, OutsideStep DEF vars
<1>2. CASE \/ \E k \in Keys : Apply(k) \/ Remove(k) \/ Deliver(k) \/ Resync(k)
           \/ AssignAddress \/ ChangePlatform
  BY <1>2, OutsideStep DEF Apply, Remove, Deliver, Resync, AssignAddress, ChangePlatform
<1>3. CASE Restart
  BY <1>3, RestartShared
<1>4. ASSUME NEW w \in Workers, Reconcile(w) \/ PutFailed(w) \/ \E k \in Keys : Take(w, k)
      PROVE  SharedStep
  BY <1>0, <1>4, BothShared, ReadStep, PublishStep, GatewayShared, RouteIsWriter DEF Reconcile
<1> QED
  BY <1>1, <1>2, <1>3, <1>4 DEF Next

\* The two reconcilers use State and the proxy as ProxySync says, so that what
\* is proved there of updateProxy holds here: they store before they update,
\* write only their own map, and return early only where a status write fails.
THEOREM ControlPlaneImplementsProxySync == Spec => UsesSharedState
<1>1. Init => Shared!Init /\ NoCopies
  BY InitShared
<1>2. IInv /\ NoCopies /\ [Next]_vars => [Shared!Next]_Shared!vars /\ NoCopies'
  BY NextShared DEF SharedStep
<1> QED
  BY <1>1, <1>2, Invariance, PTL DEF Spec, UsesSharedState, Shared!Spec

=============================================================================
