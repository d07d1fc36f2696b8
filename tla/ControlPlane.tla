---------------------------- MODULE ControlPlane ----------------------------
(***************************************************************************)
(* GatewayReconciler and HTTPRouteReconciler between the API server and    *)
(* the proxy.                                                              *)
(*                                                                         *)
(* A user changes Gateways and HTTPRoutes in the API server.  The informer *)
(* cache follows it and puts a request in the queue of each controller     *)
(* that watches the kind.  A reconciler reads the cache, stores what it    *)
(* read in State, computes a status from what State holds, writes it with  *)
(* optimistic concurrency and rebuilds the proxy's routes (updateProxy).   *)
(* Each controller runs one worker; both run in one process, and what they *)
(* share is State and the proxy.                                           *)
(*                                                                         *)
(* An object is [gen, spec, status].  gen stands for its identity and      *)
(* generation: a change of the spec, or a new object of the same name,     *)
(* gets a later number.  One listener per Gateway; the parentRefs of a    *)
(* route are a set of Gateway names; a hostname is one token, or AnyHost.  *)
(***************************************************************************)
EXTENDS Integers, FiniteSets

CONSTANTS
  Gateways, Routes,   \* the names of the objects
  GatewaySpecs,       \* records [class, host]
  RouteSpecs,         \* records [parents, host, valid]
  OurClasses,         \* the GatewayClasses with our controllerName
  IPs,                \* addresses the load balancer may give gari-proxy
  FirstIP,            \* the address it has when the process starts, or NoIP
  Removable,          \* the names a user may delete
  MaxEvents,          \* bound: user changes and rarer events, together
  RareEvents,         \* the rarer events that may happen, once each
  Absent, NoIP, AnyHost

Keys    == Gateways \union Routes
Workers == {"gateways", "httpRoutes"}   \* named for the map the worker writes

ASSUME KeysAssumption ==
  /\ Gateways \intersect Routes = {}
  /\ Absent \notin Keys
  /\ IsFiniteSet(Routes)

ASSUME SpecsAssumption ==
  /\ \A s \in RouteSpecs : s.parents \subseteq Gateways /\ s.valid \in BOOLEAN
  /\ FirstIP \in IPs \union {NoIP}

ASSUME BoundsAssumption ==
  /\ MaxEvents \in Nat
  /\ RareEvents \subseteq {"error", "restart", "resync", "platform"}

VARIABLES
  api,      \* api[k]: the object in the API server
  cache,    \* cache[k]: the object in the informer cache
  classes,  \* the GatewayClasses in the cache that carry our controllerName
  lb,       \* the load balancer address of the gari-proxy Service in the cache
  queue,    \* queue[w]: the requests waiting in the workqueue of controller w
  task,     \* task[w]: the Reconcile call of controller w
  store,    \* store[k]: the object in State
  routes,   \* the copies of State that Proxy.routes was computed from
  changes,  \* changes[k]: user changes of k so far
  spent,    \* the rarer events that happened
  events    \* user changes and rarer events so far

vars == <<api, cache, classes, lb, queue, task, store, routes, changes, spent, events>>

environment == <<api, cache, classes, lb, changes, spent, events>>

----------------------------------------------------------------------------
(* The data. *)

NoGatewayStatus == [obs |-> 0, ip |-> NoIP, attached |-> 0]
NoRouteStatus   == [p \in {} |-> [reason |-> "", obs |-> 0]]

SpecsOf(k)  == IF k \in Gateways THEN GatewaySpecs ELSE RouteSpecs
NoStatus(k) == IF k \in Gateways THEN NoGatewayStatus ELSE NoRouteStatus

New(k, gen, spec) == [gen |-> gen, spec |-> spec, status |-> NoStatus(k)]

\* The Gateways that the watch of GatewayReconciler maps an HTTPRoute to.
ParentsOf(o) == IF o = Absent THEN {} ELSE o.spec.parents

\* ComputeAcceptedCondition for one parentRef, with the Gateways of s.
Reason(r, p, s) ==
  IF ~r.spec.valid THEN "UnsupportedValue"
  ELSE IF s[p] = Absent THEN "NoMatchingParent"
  ELSE IF AnyHost \in {r.spec.host, s[p].spec.host} \/ r.spec.host = s[p].spec.host
  THEN "Accepted"
  ELSE "NoMatchingListenerHostname"

\* The status HTTPRouteReconciler computes: a condition for each parentRef.
RouteStatus(r, s) ==
  [p \in r.spec.parents |-> [reason |-> Reason(r, p, s), obs |-> r.gen]]

\* HTTPRouteState.IsAccepted: by any parent.
IsAccepted(r) == \E p \in DOMAIN r.status : r.status[p].reason = "Accepted"

\* The routes GatewayReconciler counts for the listener of g, among those of s.
Attached(g, s) ==
  Cardinality({r \in Routes : s[r] # Absent /\ g \in s[r].spec.parents /\ IsAccepted(s[r])})

Managed(o) == o.spec.class \in classes

\* MUTANT of Requests: the queue of HTTPRouteReconciler gets Gateways too.
RequestsUnfiltered(k, objs) ==
  [w \in Workers |-> IF w = "httpRoutes" \/ k \in Gateways THEN {k}
                     ELSE UNION {ParentsOf(o) : o \in objs}]

\* The requests an event for k, with these objects, adds to the queues.  For
\* an HTTPRoute the map function runs on the old object and on the new one.
Requests(k, objs) ==
  [w \in Workers |-> IF w = "httpRoutes" THEN {k} \intersect Routes
                     ELSE IF k \in Gateways THEN {k}
                     ELSE UNION {ParentsOf(o) : o \in objs}]

\* The requests of the events for all the objects of m.
Listed(m) ==
  [w \in Workers |-> UNION {Requests(k, {m[k]})[w] : k \in {j \in Keys : m[j] # Absent}}]

\* What BuildInternalRoutes reads of the maps: the specs of their objects.
Content(ks) == {<<k, store[k].spec>> : k \in {j \in ks : store[j] # Absent}}

NothingCopied == [w \in Workers |-> {}]

\* No Reconcile call is running.
Idle == [pc |-> "idle", key |-> Absent, base |-> Absent, obj |-> Absent,
         snap |-> NothingCopied]

Count == events < MaxEvents /\ events' = events + 1

\* The event e, one of the rarer ones, happens.
Spend(e) ==
  /\ e \in RareEvents \ spent
  /\ Count
  /\ spent' = spent \union {e}

----------------------------------------------------------------------------

\* The process starts: it lists the objects that exist and reconciles them
\* all.  None has a status yet; Restart is a start where some have.
Init ==
  /\ \E specs \in [Keys -> GatewaySpecs \union RouteSpecs \union {Absent}] :
       /\ \A k \in Keys : specs[k] \in SpecsOf(k) \union {Absent}
       /\ api = [k \in Keys |-> IF specs[k] = Absent THEN Absent ELSE New(k, 1, specs[k])]
  /\ cache   = api
  /\ classes = OurClasses
  /\ lb      = FirstIP
  /\ queue   = Listed(api)
  /\ task    = [w \in Workers |-> Idle]
  /\ store   = [k \in Keys |-> Absent]
  /\ routes  = NothingCopied
  /\ changes = [k \in Keys |-> 0]
  /\ spent   = {}
  /\ events  = 0

----------------------------------------------------------------------------
(* The API server and its users. *)

\* A user creates an object or changes its spec.
Apply(k) ==
  /\ Count
  /\ changes' = [changes EXCEPT ![k] = @ + 1]
  /\ \E s \in SpecsOf(k) :
       \/ /\ api[k] = Absent
          /\ api' = [api EXCEPT ![k] = New(k, changes[k] + 2, s)]
       \/ /\ api[k] # Absent
          /\ api[k].spec # s
          /\ api' = [api EXCEPT ![k].gen = changes[k] + 2, ![k].spec = s]
  /\ UNCHANGED <<cache, classes, lb, queue, task, store, routes, spent>>

\* A user deletes an object.
Remove(k) ==
  /\ k \in Removable
  /\ api[k] # Absent
  /\ Count
  /\ changes' = [changes EXCEPT ![k] = @ + 1]
  /\ api' = [api EXCEPT ![k] = Absent]
  /\ UNCHANGED <<cache, classes, lb, queue, task, store, routes, spent>>

\* The load balancer gives the gari-proxy Service an address.
AssignAddress ==
  /\ lb = NoIP
  /\ lb' \in IPs
  /\ UNCHANGED <<api, cache, classes, queue, task, store, routes, changes, spent, events>>

\* The address changes, or a GatewayClass of ours is deleted or created.  No
\* controller watches the Service or the GatewayClass on a Gateway's behalf.
ChangePlatform ==
  /\ Spend("platform")
  /\ \/ /\ lb # NoIP
        /\ lb' \in IPs \ {lb}
        /\ UNCHANGED classes
     \/ /\ \E c \in OurClasses : classes' = (classes \ {c}) \union ({c} \ classes)
        /\ UNCHANGED lb
  /\ UNCHANGED <<api, cache, queue, task, store, routes, changes>>

----------------------------------------------------------------------------
(* The informer cache and the workqueues. *)

\* The cache catches up with the API server on k.
Deliver(k) ==
  /\ cache[k] # api[k]
  /\ cache' = [cache EXCEPT ![k] = api[k]]
  /\ LET q == Requests(k, {cache[k], api[k]}) IN
     queue' = [w \in Workers |-> queue[w] \union q[w]]
  /\ UNCHANGED <<api, classes, lb, task, store, routes, changes, spent, events>>

\* The periodic resync repeats the event of an object that did not change.
Resync(k) ==
  /\ Spend("resync")
  /\ cache[k] # Absent
  /\ LET q == Requests(k, {cache[k]}) IN
     queue' = [w \in Workers |-> queue[w] \union q[w]]
  /\ UNCHANGED <<api, cache, classes, lb, task, store, routes, changes>>

\* The process ends, and a new one lists every object before it reconciles.
Restart ==
  /\ Spend("restart")
  /\ cache' = api
  /\ queue' = Listed(api)
  /\ task'   = [w \in Workers |-> Idle]
  /\ store'  = [k \in Keys |-> Absent]
  /\ routes' = NothingCopied
  /\ UNCHANGED <<api, classes, lb, changes>>

\* The worker takes a request.  An event for it from now on queues it again.
Take(w, k) ==
  /\ task[w] = Idle
  /\ k \in queue[w]
  /\ queue' = [queue EXCEPT ![w] = @ \ {k}]
  /\ task'  = [task EXCEPT ![w].pc = "get", ![w].key = k]
  /\ UNCHANGED <<environment, store, routes>>

----------------------------------------------------------------------------
(* Steps of a Reconcile call, by the worker w.  *)

Go(w, pc) == task' = [task EXCEPT ![w].pc = pc]

\* Reconcile calls updateProxy, and has no more use for the object.
Update(w) == task' = [task EXCEPT ![w] = [Idle EXCEPT !.pc = "readGateways"]]

\* Reconcile returns without an error.
Return(w) == task' = [task EXCEPT ![w] = Idle] /\ UNCHANGED queue

\* MUTANT of ReturnRequeue: the error is logged and nil is returned.
ReturnForget(w) ==
  /\ task'  = [task EXCEPT ![w] = Idle]
  /\ UNCHANGED queue

\* Reconcile returns an error, or Requeue: true.
ReturnRequeue(w) ==
  /\ task'  = [task EXCEPT ![w] = Idle]
  /\ queue' = [queue EXCEPT ![w] = @ \union {task[w].key}]

\* MUTANT of Gone: updateProxy is not called after the delete.
GoneQuietly(w) ==
  /\ task[w].pc = "get"
  /\ cache[task[w].key] = Absent
  /\ store' = [store EXCEPT ![task[w].key] = Absent]
  /\ Return(w)
  /\ UNCHANGED <<environment, routes>>

\* Get says NotFound: the object leaves State.
Gone(w) ==
  /\ task[w].pc = "get"
  /\ cache[task[w].key] = Absent
  /\ store' = [store EXCEPT ![task[w].key] = Absent]
  /\ Update(w)
  /\ UNCHANGED <<environment, queue, routes>>

\* MUTANT of PutAccepted: a patch without a resourceVersion.
PutUnchecked(w) ==
  LET t == task[w] IN
  /\ t.pc = "put"
  /\ api[t.key] # Absent
  /\ api' = [api EXCEPT ![t.key].status = t.obj.status]
  /\ IF w = "gateways" THEN Go(w, "store") ELSE Update(w)
  /\ UNCHANGED <<cache, classes, lb, queue, store, routes, changes, spent, events>>

\* Status().Update: the API server takes the status if the object is still
\* the one the reconciler read.
PutAccepted(w) ==
  LET t == task[w] IN
  /\ t.pc = "put"
  /\ api[t.key] = t.base
  /\ api' = [api EXCEPT ![t.key].status = t.obj.status]
  /\ IF w = "gateways" THEN Go(w, "store") ELSE Update(w)
  /\ UNCHANGED <<cache, classes, lb, queue, store, routes, changes, spent, events>>

\* The object changed or is gone: Conflict or NotFound, returned as an error.
PutRejected(w) ==
  /\ task[w].pc = "put"
  /\ api[task[w].key] # task[w].base
  /\ ReturnRequeue(w)
  /\ UNCHANGED <<environment, store, routes>>

\* The call fails on its way to the API server, or on its way back.
PutFailed(w) ==
  LET t == task[w] IN
  /\ t.pc = "put"
  /\ Spend("error")
  /\ \/ UNCHANGED api
     \/ /\ api[t.key] = t.base
        /\ api' = [api EXCEPT ![t.key].status = t.obj.status]
  /\ ReturnRequeue(w)
  /\ UNCHANGED <<cache, classes, lb, store, routes, changes>>

\* updateProxy, GetGateways.
ReadGateways(w) ==
  /\ task[w].pc = "readGateways"
  /\ task' = [task EXCEPT ![w].pc = "readRoutes",
                          ![w].snap["gateways"] = Content(Gateways)]
  /\ UNCHANGED <<environment, queue, store, routes>>

\* updateProxy, GetHTTPRoutes.
ReadRoutes(w) ==
  /\ task[w].pc = "readRoutes"
  /\ task' = [task EXCEPT ![w].pc = "publish",
                          ![w].snap["httpRoutes"] = Content(Routes)]
  /\ UNCHANGED <<environment, queue, store, routes>>

\* updateProxy, Proxy.UpdateRoutes, and the end of Reconcile.
Publish(w) ==
  /\ task[w].pc = "publish"
  /\ routes' = task[w].snap
  /\ Return(w)
  /\ UNCHANGED <<environment, store>>

----------------------------------------------------------------------------
(* GatewayReconciler. *)

gateway == task["gateways"]

\* MUTANT of GatewayForeign: a Gateway that is not ours is asked about again.
GatewayForeignRetried ==
  /\ gateway.pc = "get"
  /\ cache[gateway.key] # Absent
  /\ ~Managed(cache[gateway.key])
  /\ ReturnRequeue("gateways")
  /\ UNCHANGED <<environment, store, routes>>

\* The class is missing or another controller's: State is left as it is.
GatewayForeign ==
  /\ gateway.pc = "get"
  /\ cache[gateway.key] # Absent
  /\ ~Managed(cache[gateway.key])
  /\ Return("gateways")
  /\ UNCHANGED <<environment, store, routes>>

\* gari-proxy has no address yet: come back later.
GatewayNoAddress ==
  /\ gateway.pc = "get"
  /\ cache[gateway.key] # Absent
  /\ Managed(cache[gateway.key])
  /\ lb = NoIP
  /\ ReturnRequeue("gateways")
  /\ UNCHANGED <<environment, store, routes>>

\* The Gateway, its class and the address were read.
GatewayFound ==
  LET o == cache[gateway.key] IN
  /\ gateway.pc = "get"
  /\ o # Absent
  /\ Managed(o)
  /\ lb # NoIP
  /\ task' = [task EXCEPT !["gateways"].pc = "compute", !["gateways"].base = o,
                          !["gateways"].obj = [o EXCEPT !.status.ip = lb]]
  /\ UNCHANGED <<environment, queue, store, routes>>

\* MUTANT of GatewayCompute: the comparison leaves out ObservedGeneration.
GatewayComputeAnyGeneration ==
  LET new == [gateway.obj.status EXCEPT !.obs = gateway.base.gen,
                                        !.attached = Attached(gateway.key, store)] IN
  /\ gateway.pc = "compute"
  /\ task' = [task EXCEPT
                !["gateways"].obj.status = new,
                !["gateways"].pc = IF [new EXCEPT !.obs = 0] = [gateway.base.status EXCEPT !.obs = 0]
                                   THEN "store" ELSE "put"]
  /\ UNCHANGED <<environment, queue, store, routes>>

\* Count the attached routes in State, and compare the status with the one read.
GatewayCompute ==
  LET new == [gateway.obj.status EXCEPT !.obs = gateway.base.gen,
                                        !.attached = Attached(gateway.key, store)] IN
  /\ gateway.pc = "compute"
  /\ task' = [task EXCEPT
                !["gateways"].obj.status = new,
                !["gateways"].pc = IF new = gateway.base.status THEN "store" ELSE "put"]
  /\ UNCHANGED <<environment, queue, store, routes>>

\* The count reads the parents of a route while HTTPRouteReconciler assigns
\* them, without a lock: the old array with the length of the longer new one.
\* The index is out of its memory, and the panic is recovered as an error (the
\* process may also die of it: that is Restart).
GatewayTorn ==
  /\ gateway.pc = "compute"
  /\ task["httpRoutes"].pc = "assign"
  /\ LET r == task["httpRoutes"] IN
     /\ gateway.key \in r.obj.spec.parents
     /\ Cardinality(DOMAIN store[r.key].status) < Cardinality(DOMAIN r.obj.status)
  /\ ReturnRequeue("gateways")
  /\ UNCHANGED <<environment, store, routes>>

\* UpsertGateway.
GatewayStore ==
  /\ gateway.pc = "store"
  /\ store' = [store EXCEPT ![gateway.key] = gateway.obj]
  /\ Update("gateways")
  /\ UNCHANGED <<environment, queue, routes>>

----------------------------------------------------------------------------
(* HTTPRouteReconciler. *)

route == task["httpRoutes"]

\* The HTTPRoute was read.
RouteFound ==
  LET o == cache[route.key] IN
  /\ route.pc = "get"
  /\ o # Absent
  /\ task' = [task EXCEPT !["httpRoutes"].pc = "store", !["httpRoutes"].base = o,
                          !["httpRoutes"].obj = o]
  /\ UNCHANGED <<environment, queue, store, routes>>

\* UpsertHTTPRoute, valid or not: State points to the object that was read.
RouteStore ==
  /\ route.pc = "store"
  /\ store' = [store EXCEPT ![route.key] = route.obj]
  /\ Go("httpRoutes", "compute")
  /\ UNCHANGED <<environment, queue, routes>>

\* MUTANT of RouteCompute: the status is assigned in a copy of the object.
RouteComputeOnCopy ==
  LET new == RouteStatus(route.obj, store) IN
  /\ route.pc = "compute"
  /\ \/ /\ new = route.base.status
        /\ Update("httpRoutes")
     \/ /\ new # route.base.status
        /\ task' = [task EXCEPT !["httpRoutes"].pc = "put",
                                !["httpRoutes"].obj.status = new]
  /\ UNCHANGED <<environment, queue, store, routes>>

\* Compute the status from the Gateways in State.  The second UpsertHTTPRoute,
\* after the status write or instead of it, stores the same pointer again.
RouteCompute ==
  LET new == RouteStatus(route.obj, store) IN
  /\ route.pc = "compute"
  /\ \/ /\ new = route.base.status
        /\ Update("httpRoutes")
     \/ /\ new # route.base.status
        /\ task' = [task EXCEPT !["httpRoutes"].pc = "assign",
                                !["httpRoutes"].obj.status = new]
  /\ UNCHANGED <<environment, queue, store, routes>>

\* The status that differs is assigned in the object State points to, before
\* the API server has it.
RouteAssign ==
  /\ route.pc = "assign"
  /\ store' = [store EXCEPT ![route.key].status = route.obj.status]
  /\ Go("httpRoutes", "put")
  /\ UNCHANGED <<environment, queue, routes>>

----------------------------------------------------------------------------

\* What worker w does once it has taken a request.
Reconcile(w) ==
  \/ Gone(w) \/ PutAccepted(w) \/ PutRejected(w)
  \/ ReadGateways(w) \/ ReadRoutes(w) \/ Publish(w)
  \/ /\ w = "gateways"
     /\ \/ GatewayForeign \/ GatewayNoAddress \/ GatewayFound
        \/ GatewayCompute \/ GatewayTorn \/ GatewayStore
  \/ /\ w = "httpRoutes"
     /\ RouteFound \/ RouteStore \/ RouteCompute \/ RouteAssign

Next ==
  \/ \E k \in Keys : Apply(k) \/ Remove(k) \/ Deliver(k) \/ Resync(k)
  \/ AssignAddress \/ ChangePlatform \/ Restart
  \/ \E w \in Workers : Reconcile(w) \/ PutFailed(w) \/ \E k \in Keys : Take(w, k)

Spec == Init /\ [][Next]_vars

\* The informers deliver, the workers run, and the queues are FIFO, so no
\* request is passed over for ever.  The load balancer gets an address.  Users,
\* errors, restarts and resyncs owe nothing.
Fairness ==
  /\ WF_vars(AssignAddress)
  /\ \A k \in Keys : WF_vars(Deliver(k))
  /\ \A w \in Workers : WF_vars(Reconcile(w))
  /\ \A w \in Workers, k \in Keys : SF_vars(Take(w, k))

FairSpec == Spec /\ Fairness

----------------------------------------------------------------------------
(* Properties. *)

Generations == 0..(MaxEvents + 1)

GatewayObjects ==
  [gen : Generations, spec : GatewaySpecs,
   status : [obs : Generations, ip : IPs \union {NoIP}, attached : 0..Cardinality(Routes)]]

Reasons == {"Accepted", "UnsupportedValue", "NoMatchingParent", "NoMatchingListenerHostname"}

RouteObjects ==
  [gen : Generations, spec : RouteSpecs,
   status : UNION {[ps -> [reason : Reasons, obs : Generations]] : ps \in SUBSET Gateways}]

Objects(k) == IF k \in Gateways THEN GatewayObjects ELSE RouteObjects

\* A missing object is not taken for one.
ASSUME AbsentAssumption == \A k \in Keys : Absent \notin Objects(k)

ObjectMap(m) ==
  /\ m = [k \in Keys |-> m[k]]
  /\ \A k \in Keys : m[k] \in Objects(k) \union {Absent}

\* The objects the controller of w reconciles.
Own(w) == IF w = "gateways" THEN Gateways ELSE Routes

Contents == SUBSET (Keys \X (GatewaySpecs \union RouteSpecs))

PCs == {"idle", "get", "store", "compute", "assign", "put", "readGateways", "readRoutes", "publish"}

TaskOK(w, t) ==
  /\ DOMAIN t = {"pc", "key", "base", "obj", "snap"}
  /\ t.pc \in PCs
  /\ t.snap \in [Workers -> Contents]
  /\ t.pc = "idle" => t = Idle
  /\ t.pc \in {"get", "store", "compute", "assign", "put"} => t.key \in Own(w)
  /\ t.pc \in {"store", "compute", "assign", "put"} => {t.base, t.obj} \subseteq Objects(t.key)

\* Every object is one of its kind, every request one for its controller, and
\* a worker holds only what its place in Reconcile lets it hold.
TypeOK ==
  /\ ObjectMap(api) /\ ObjectMap(cache) /\ ObjectMap(store)
  /\ classes \subseteq OurClasses
  /\ lb \in IPs \union {NoIP}
  /\ queue \in [Workers -> SUBSET Keys]
  /\ task = [w \in Workers |-> task[w]]
  /\ \A w \in Workers : queue[w] \subseteq Own(w) /\ TaskOK(w, task[w])
  /\ routes \in [Workers -> Contents]
  /\ events \in 0..MaxEvents
  /\ changes \in [Keys -> 0..events]
  /\ spent \subseteq RareEvents

Observed(k, o) ==
  IF k \in Gateways THEN {o.status.obs} ELSE {o.status[p].obs : p \in DOMAIN o.status}

\* While HTTPRouteReconciler computes and writes the status of a route, the
\* object it works on is the one State holds: what it assigns in place is what
\* GatewayReconciler counts.  In the assignment it is all but the status.
RouteShared ==
  /\ route.pc \in {"compute", "put"} => store[route.key] = route.obj
  /\ route.pc = "assign" =>
       /\ store[route.key] # Absent
       /\ store[route.key] = [route.obj EXCEPT !.status = store[route.key].status]

\* Nothing is on its way: the cache is current, and no request waits or runs.
AtRest ==
  /\ cache = api
  /\ \A w \in Workers : queue[w] = {} /\ task[w] = Idle

\* At rest State holds the last-observed objects: every HTTPRoute with the
\* status the API server has, every Gateway of our classes, and nothing that
\* was deleted.  (Unless a class or the address changed, which nothing watches.)
MirrorAtRest ==
  AtRest /\ "platform" \notin spent =>
    /\ \A r \in Routes : store[r] = api[r]
    /\ \A g \in Gateways :
         IF api[g] = Absent THEN store[g] = Absent
         ELSE Managed(api[g]) => store[g] = api[g]

\* At rest the conditions speak of the current generation: each parentRef of
\* a route has a verdict, by validation if it is invalid, and each Gateway of
\* our classes is Programmed, at the address of the load balancer.
ObservedAtRest ==
  AtRest /\ "platform" \notin spent =>
    /\ \A r \in {k \in Routes : api[k] # Absent} :
         /\ DOMAIN api[r].status = api[r].spec.parents
         /\ \A p \in api[r].spec.parents :
              /\ api[r].status[p].obs = api[r].gen
              /\ (api[r].status[p].reason = "UnsupportedValue") = ~api[r].spec.valid
    /\ \A g \in {k \in Gateways : api[k] # Absent} :
         Managed(api[g]) => api[g].status.obs = api[g].gen /\ api[g].status.ip = lb

\* A status write never takes the conditions of an object back to an older
\* generation, and never marks a generation observed that was not read: a
\* reconciler that worked on a stale cache is refused.
StatusMovesForward ==
  [][\A k \in Keys :
       api[k] # Absent /\ api'[k] # Absent /\ api'[k].status # api[k].status
         => /\ api'[k].gen = api[k].gen
            /\ Observed(k, api'[k]) \subseteq {api[k].gen}]_vars

\* At rest AttachedRoutes is the number of routes that name the Gateway and
\* that are accepted, as their statuses in the API server say.
AttachedExact ==
  AtRest =>
    \A g \in {k \in Gateways : api[k] # Absent} :
      Managed(api[g]) => api[g].status.attached = Attached(g, api)

\* A <<Gateway, route>> pair BuildInternalRoutes made an entry for.
Served ==
  {gr \in Gateways \X Routes :
     \E gs \in GatewaySpecs, rs \in RouteSpecs :
       /\ <<gr[1], gs>> \in routes["gateways"]
       /\ <<gr[2], rs>> \in routes["httpRoutes"]
       /\ gr[1] \in rs.parents
       /\ rs.valid
       /\ AnyHost \in {gs.host, rs.host} \/ gs.host = rs.host}

\* "If the route is not accepted, we still update the state but it won't be
\* used for proxying": at rest, no route is served that its status refuses.
NotAcceptedNotServed ==
  AtRest => \A gr \in Served :
    LET r == api[gr[2]] IN
    r # Absent /\ gr[1] \in DOMAIN r.status => r.status[gr[1]].reason = "Accepted"

\* "Check if the GatewayClass is managed by us": at rest, no Gateway is served
\* whose class is another controller's.
ForeignNotServed ==
  AtRest => \A gr \in Served : api[gr[1]] # Absent => Managed(api[gr[1]])

\* Once users, errors and restarts stop, the controllers come to rest: no
\* status write sets off writes for ever, no request is retried for ever.
ComesToRest == <>[]AtRest

----------------------------------------------------------------------------
(* The refinement: the two workers are the writers of ProxySync. *)

\* Where the worker w is in ProxySync, and the copy it makes next.
Place(w, pc) ==
  CASE pc \in {"readRoutes", "publish"} -> "update"
    [] pc = "readGateways" -> "written"
    [] w = "httpRoutes" /\ pc \in {"compute", "assign", "put"} -> "written"
    [] OTHER -> "idle"

NextCopy(pc) == CASE pc = "readRoutes" -> 2 [] pc = "publish" -> 3 [] OTHER -> 1

Shared == INSTANCE ProxySync WITH
  Kinds     <- Workers,
  ReadOrder <- <<"gateways", "httpRoutes">>,
  Values    <- SUBSET ((Gateways \X GatewaySpecs) \union (Routes \X RouteSpecs)),
  Empty     <- {},
  Fallible  <- {"httpRoutes"},
  store     <- [w \in Workers |-> Content(Own(w))],
  pc        <- [w \in Workers |-> Place(w, task[w].pc)],
  next      <- [w \in Workers |-> NextCopy(task[w].pc)],
  snap      <- [w \in Workers |-> task[w].snap],
  routes    <- routes

\* The reconcilers use State and the proxy as ProxySync says: they store
\* before they call updateProxy, only their own map, and always call it unless
\* the status write of a route fails.
UsesSharedState == Shared!Spec

=============================================================================
