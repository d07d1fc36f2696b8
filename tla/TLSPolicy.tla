------------------------------ MODULE TLSPolicy ------------------------------
(***************************************************************************)
(* BackendTLSPolicyReconciler and ConfigMapReconciler between the API      *)
(* server and the proxy.                                                   *)
(*                                                                         *)
(* The first checks the CA certificates a policy refers to, in the         *)
(* informer cache, finds the Gateways it is used through, in State, writes *)
(* both as the policy's status and only then stores the policy; it is      *)
(* called again for a ConfigMap that changed.  The second stores           *)
(* ConfigMaps.  Each ends with updateProxy.                                *)
(*                                                                         *)
(* An object is [gen, spec, status], with gen as in ControlPlane.  The     *)
(* spec of a policy is the sequence of the ConfigMaps it refers to, that   *)
(* of a ConfigMap is the sequence of the types of the PEM blocks in its    *)
(* ca.crt.  The status of a policy is the sequence of its ancestors,       *)
(* [gateway, unresolved, obs]: the references that were not resolved make  *)
(* its two conditions.                                                     *)
(***************************************************************************)
EXTENDS Integers, FiniteSets, Sequences

CONSTANTS
  Policies, ConfigMaps, Gateways,  \* names
  PolicySpecs, Data,               \* specs of the two kinds
  OthersDo,                        \* bound: values of <<known, leads>> the others make
  Removable,                       \* the names a user may delete
  MaxEvents,                       \* bound: user changes and rarer events, together
  RareEvents,                      \* the rarer events that may happen, once each
  Absent

Keys    == Policies \union ConfigMaps
Workers == {"backendTLSPolicies", "configMaps"}

ASSUME NamesAssumption ==
  /\ Policies \intersect ConfigMaps = {}
  /\ Absent \notin Keys
  /\ PolicySpecs \subseteq Seq(ConfigMaps)
  /\ IsFiniteSet(Gateways)
  /\ OthersDo \subseteq (SUBSET Gateways) \X [Policies -> SUBSET Gateways]

ASSUME BoundsAssumption ==
  /\ MaxEvents \in Nat
  /\ RareEvents \subseteq {"error", "restart"}

VARIABLES
  api,      \* api[k]: the object in the API server
  cache,    \* cache[k]: the object in the informer cache
  noticed,  \* ConfigMap events the watch of the policy controller has not mapped yet
  known,    \* the Gateways in State
  leads,    \* leads[p]: Gateways an accepted route of State leads from to p's Service
  queue,    \* queue[w]: the requests waiting in the workqueue of controller w
  task,     \* task[w]: the Reconcile call of controller w
  store,    \* store[k]: the object in State
  routes,   \* the copies of State that Proxy.routes was computed from
  changes,  \* changes[k]: user changes of k so far
  spent,    \* the rarer events that happened
  events    \* user changes and rarer events so far

vars == <<api, cache, noticed, known, leads, queue, task, store, routes, changes, spent, events>>

others == <<known, leads>>
counters == <<changes, spent, events>>

----------------------------------------------------------------------------
(* The data. *)

SpecsOf(k) == IF k \in Policies THEN PolicySpecs ELSE Data

New(gen, spec) == [gen |-> gen, spec |-> spec, status |-> <<>>]

Elements(s) == {s[i] : i \in 1..Len(s)}

\* The orders in which Go may walk a map with these keys.
Orders(S) == {f \in [1..Cardinality(S) -> S] : \A i, j \in DOMAIN f : f[i] = f[j] => i = j}

\* The reference resolves: the ConfigMap, as it is in m, starts with a certificate.
Resolves(c, m) == m[c] # Absent /\ m[c].spec # <<>> /\ Head(m[c].spec) = "CERTIFICATE"

Ancestors(order, unresolved, gen) ==
  [i \in DOMAIN order |-> [gateway |-> order[i], unresolved |-> unresolved, obs |-> gen]]

\* Those of a sequence of references that do not resolve, in their order: the
\* loop over the references, as a function so that it can be proved about.
Unresolved(refs, m) ==
  LET upTo[i \in 0..Len(refs)] ==
        IF i = 0 THEN <<>>
        ELSE IF Resolves(refs[i], m) THEN upTo[i - 1] ELSE Append(upTo[i - 1], refs[i])
  IN  upTo[Len(refs)]

\* The worker whose controller is For() the kind of k.
Owner(k) == IF k \in Policies THEN "backendTLSPolicies" ELSE "configMaps"

Own(w) == IF w = "backendTLSPolicies" THEN Policies ELSE ConfigMaps

Existing(m) == {k \in Keys : m[k] # Absent}

\* What BuildInternalRoutes reads of the map of w.
Content(w) == {<<k, store[k].spec>> : k \in {j \in Own(w) : store[j] # Absent}}

NothingCopied == [w \in Workers |-> {}]

\* No Reconcile call is running.  gateways and ways are the copies of State it
\* finds ancestors from, left the references it still has to look at.
Idle == [pc |-> "idle", key |-> Absent, base |-> Absent, obj |-> Absent, gateways |-> {},
         ways |-> {}, left |-> <<>>, unresolved |-> <<>>, snap |-> NothingCopied]

Count == events < MaxEvents /\ events' = events + 1

Spend(e) ==
  /\ e \in RareEvents \ spent
  /\ Count
  /\ spent' = spent \union {e}

----------------------------------------------------------------------------

\* The process starts, lists the objects that exist and reconciles them all.
Init ==
  /\ \E specs \in [Keys -> PolicySpecs \union Data \union {Absent}] :
       /\ \A k \in Keys : specs[k] \in SpecsOf(k) \union {Absent}
       /\ api = [k \in Keys |-> IF specs[k] = Absent THEN Absent ELSE New(1, specs[k])]
  /\ cache   = api
  /\ noticed = Existing(api) \intersect ConfigMaps
  /\ known   = {}
  /\ leads   = [p \in Policies |-> {}]
  /\ queue   = [w \in Workers |-> Existing(api) \intersect Own(w)]
  /\ task    = [w \in Workers |-> Idle]
  /\ store   = [k \in Keys |-> Absent]
  /\ routes  = NothingCopied
  /\ changes = [k \in Keys |-> 0]
  /\ spent   = {}
  /\ events  = 0

----------------------------------------------------------------------------
(* Users, the informer cache and the workqueues. *)

\* A user creates an object or changes its spec.
Apply(k) ==
  /\ Count
  /\ changes' = [changes EXCEPT ![k] = @ + 1]
  /\ \E s \in SpecsOf(k) :
       \/ /\ api[k] = Absent
          /\ api' = [api EXCEPT ![k] = New(changes[k] + 2, s)]
       \/ /\ api[k] # Absent
          /\ api[k].spec # s
          /\ api' = [api EXCEPT ![k].gen = changes[k] + 2, ![k].spec = s]
  /\ UNCHANGED <<cache, noticed, others, queue, task, store, routes, spent>>

\* A user deletes an object.
Remove(k) ==
  /\ k \in Removable
  /\ api[k] # Absent
  /\ Count
  /\ changes' = [changes EXCEPT ![k] = @ + 1]
  /\ api' = [api EXCEPT ![k] = Absent]
  /\ UNCHANGED <<cache, noticed, others, queue, task, store, routes, spent>>

\* The reconcilers of Gateways and HTTPRoutes change State.
OthersChange ==
  /\ Count
  /\ \E o \in OthersDo : known' = o[1] /\ leads' = o[2]
  /\ others' # others
  /\ UNCHANGED <<api, cache, noticed, queue, task, store, routes, changes, spent>>

\* The cache catches up with the API server on k.
Deliver(k) ==
  /\ cache[k] # api[k]
  /\ cache'   = [cache EXCEPT ![k] = api[k]]
  /\ queue'   = [queue EXCEPT ![Owner(k)] = @ \union {k}]
  /\ noticed' = noticed \union ({k} \intersect ConfigMaps)
  /\ UNCHANGED <<api, others, task, store, routes, counters>>

\* MUTANT of MapEvent: the request is for the object of the event.
MapEventOwnKey(c) ==
  /\ c \in noticed
  /\ noticed' = noticed \ {c}
  /\ queue' = [queue EXCEPT !["backendTLSPolicies"] = @ \union {c}]
  /\ UNCHANGED <<api, cache, others, task, store, routes, counters>>

\* The watch of ConfigMaps: the policies in the cache that refer to c.
MapEvent(c) ==
  /\ c \in noticed
  /\ noticed' = noticed \ {c}
  /\ queue' = [queue EXCEPT !["backendTLSPolicies"] = @ \union
                 {p \in Policies : cache[p] # Absent /\ c \in Elements(cache[p].spec)}]
  /\ UNCHANGED <<api, cache, others, task, store, routes, counters>>

\* The process ends, and a new one starts with an empty State.
Restart ==
  /\ Spend("restart")
  /\ cache'   = api
  /\ noticed' = Existing(api) \intersect ConfigMaps
  /\ known'   = {}
  /\ leads'   = [p \in Policies |-> {}]
  /\ queue'   = [w \in Workers |-> Existing(api) \intersect Own(w)]
  /\ task'    = [w \in Workers |-> Idle]
  /\ store'   = [k \in Keys |-> Absent]
  /\ routes'  = NothingCopied
  /\ UNCHANGED <<api, changes>>

\* The worker takes a request.  An event for it from now on queues it again.
Take(w, k) ==
  /\ task[w] = Idle
  /\ k \in queue[w]
  /\ queue' = [queue EXCEPT ![w] = @ \ {k}]
  /\ task'  = [task EXCEPT ![w].pc = "get", ![w].key = k]
  /\ UNCHANGED <<api, cache, noticed, others, store, routes, counters>>

----------------------------------------------------------------------------
(* Steps both reconcilers have. *)

\* Reconcile calls updateProxy, and has no more use for the object.
Update(w) == task' = [task EXCEPT ![w] = [Idle EXCEPT !.pc = "readPolicies"]]

\* Get says NotFound: the object leaves State.
Gone(w) ==
  /\ task[w].pc = "get"
  /\ cache[task[w].key] = Absent
  /\ store' = [store EXCEPT ![task[w].key] = Absent]
  /\ Update(w)
  /\ UNCHANGED <<api, cache, noticed, others, queue, routes, counters>>

\* updateProxy, GetBackendTLSPolicies.
ReadPolicies(w) ==
  /\ task[w].pc = "readPolicies"
  /\ task' = [task EXCEPT ![w].pc = "readConfigMaps",
                          ![w].snap["backendTLSPolicies"] = Content("backendTLSPolicies")]
  /\ UNCHANGED <<api, cache, noticed, others, queue, store, routes, counters>>

\* updateProxy, GetConfigMaps.
ReadConfigMaps(w) ==
  /\ task[w].pc = "readConfigMaps"
  /\ task' = [task EXCEPT ![w].pc = "publish",
                          ![w].snap["configMaps"] = Content("configMaps")]
  /\ UNCHANGED <<api, cache, noticed, others, queue, store, routes, counters>>

\* updateProxy, Proxy.UpdateRoutes, and the end of Reconcile.
Publish(w) ==
  /\ task[w].pc = "publish"
  /\ routes' = task[w].snap
  /\ task' = [task EXCEPT ![w] = Idle]
  /\ UNCHANGED <<api, cache, noticed, others, queue, store, counters>>

----------------------------------------------------------------------------
(* ConfigMapReconciler. *)

\* MUTANT of ConfigMapFound: the policies' reconciler is left to update the proxy.
ConfigMapFoundQuietly ==
  LET t == task["configMaps"] IN
  /\ t.pc = "get"
  /\ cache[t.key] # Absent
  /\ store' = [store EXCEPT ![t.key] = cache[t.key]]
  /\ task'  = [task EXCEPT !["configMaps"] = Idle]
  /\ UNCHANGED <<api, cache, noticed, others, queue, routes, counters>>

\* UpsertConfigMap.
ConfigMapFound ==
  LET t == task["configMaps"] IN
  /\ t.pc = "get"
  /\ cache[t.key] # Absent
  /\ store' = [store EXCEPT ![t.key] = cache[t.key]]
  /\ Update("configMaps")
  /\ UNCHANGED <<api, cache, noticed, others, queue, routes, counters>>

----------------------------------------------------------------------------
(* BackendTLSPolicyReconciler. *)

policy == task["backendTLSPolicies"]

\* The worker goes on with t; nothing but its task changes.
Continue(t) ==
  /\ task' = [task EXCEPT !["backendTLSPolicies"] = t]
  /\ UNCHANGED <<api, cache, noticed, others, queue, store, routes, counters>>

\* The policy was read, and GetGateways called.
PolicyFound ==
  LET o == cache[policy.key] IN
  /\ policy.pc = "get"
  /\ o # Absent
  /\ Continue([policy EXCEPT !.pc = "ways", !.base = o, !.obj = o, !.left = o.spec,
                             !.gateways = known])

\* GetHTTPRoutes.
CopyRoutes ==
  /\ policy.pc = "ways"
  /\ Continue([policy EXCEPT !.pc = "check", !.ways = leads[policy.key]])

\* MUTANT of CheckReference: the ConfigMap is looked up in State.
CheckReferenceInState ==
  LET c == Head(policy.left) IN
  /\ policy.pc = "check"
  /\ policy.left # <<>>
  /\ Continue([policy EXCEPT !.left = Tail(@),
                             !.unresolved = IF Resolves(c, store) THEN @ ELSE Append(@, c)])

\* One CA certificate reference is looked up in the cache.
CheckReference ==
  LET c == Head(policy.left) IN
  /\ policy.pc = "check"
  /\ policy.left # <<>>
  /\ Continue([policy EXCEPT !.left = Tail(@),
                             !.unresolved = IF Resolves(c, cache) THEN @ ELSE Append(@, c)])

\* The statuses that may be computed: the routes of the copy are shared, and
\* their statuses change in place, so a Gateway counts if the copy and what
\* State holds by now agree on it, and may count if they do not.
NewStatuses ==
  LET now == leads[policy.key] IN
  {Ancestors(order, policy.unresolved, policy.base.gen) :
     order \in UNION {Orders(policy.gateways \intersect ways) :
       ways \in {u \in SUBSET (policy.ways \union now) : policy.ways \intersect now \subseteq u}}}

Checked == policy.pc = "check" /\ policy.left = <<>>

\* The status is the one that was read.
ComputeKept ==
  /\ Checked
  /\ policy.base.status \in NewStatuses
  /\ Continue([policy EXCEPT !.pc = "store"])

\* The status differs, be it in the order of the ancestors alone.
ComputeChanged ==
  /\ Checked
  /\ \E new \in NewStatuses \ {policy.base.status} :
       Continue([policy EXCEPT !.pc = "put", !.obj.status = new])

\* Status().Update: the API server takes the status of the object that was read.
PutAccepted ==
  /\ policy.pc = "put"
  /\ api[policy.key] = policy.base
  /\ api'  = [api EXCEPT ![policy.key] = policy.obj]
  /\ task' = [task EXCEPT !["backendTLSPolicies"].pc = "store"]
  /\ UNCHANGED <<cache, noticed, others, queue, store, routes, counters>>

\* MUTANT of ReturnError: the error is logged and nil is returned.
ReturnErrorForget ==
  /\ task'  = [task EXCEPT !["backendTLSPolicies"] = Idle]
  /\ UNCHANGED queue

\* Reconcile returns the error, and is called again.
ReturnError ==
  /\ task'  = [task EXCEPT !["backendTLSPolicies"] = Idle]
  /\ queue' = [queue EXCEPT !["backendTLSPolicies"] = @ \union {policy.key}]

\* Conflict, or NotFound.
PutRejected ==
  /\ policy.pc = "put"
  /\ api[policy.key] # policy.base
  /\ ReturnError
  /\ UNCHANGED <<api, cache, noticed, others, store, routes, counters>>

\* The call fails on its way to the API server, or on its way back.
PutFailed ==
  /\ policy.pc = "put"
  /\ Spend("error")
  /\ \/ UNCHANGED api
     \/ api[policy.key] = policy.base /\ api' = [api EXCEPT ![policy.key] = policy.obj]
  /\ ReturnError
  /\ UNCHANGED <<cache, noticed, others, store, routes, changes>>

\* MUTANT of PolicyStore: a reference that is not resolved is asked for again.
PolicyStoreRetried ==
  /\ policy.pc = "store"
  /\ store' = [store EXCEPT ![policy.key] = policy.obj]
  /\ Update("backendTLSPolicies")
  /\ queue' = [queue EXCEPT !["backendTLSPolicies"] =
                 IF policy.unresolved = <<>> THEN @ ELSE @ \union {policy.key}]
  /\ UNCHANGED <<api, cache, noticed, others, routes, counters>>

\* UpsertBackendTLSPolicy, accepted or not.
PolicyStore ==
  /\ policy.pc = "store"
  /\ store' = [store EXCEPT ![policy.key] = policy.obj]
  /\ Update("backendTLSPolicies")
  /\ UNCHANGED <<api, cache, noticed, others, queue, routes, counters>>

----------------------------------------------------------------------------

\* What worker w does once it has taken a request.
Reconcile(w) ==
  \/ Gone(w) \/ ReadPolicies(w) \/ ReadConfigMaps(w) \/ Publish(w)
  \/ w = "configMaps" /\ ConfigMapFound
  \/ /\ w = "backendTLSPolicies"
     /\ \/ PolicyFound \/ CopyRoutes \/ CheckReference
        \/ ComputeKept \/ ComputeChanged \/ PutAccepted \/ PutRejected \/ PolicyStore

Next ==
  \/ \E k \in Keys : Apply(k) \/ Remove(k) \/ Deliver(k)
  \/ \E c \in ConfigMaps : MapEvent(c)
  \/ OthersChange \/ Restart \/ PutFailed
  \/ \E w \in Workers : Reconcile(w) \/ \E k \in Keys : Take(w, k)

\* As in ControlPlane.  Go walks a map in a random order, so that the order in
\* the status comes up again if the reconciler is called often enough.
Fairness ==
  /\ \A k \in Keys : WF_vars(Deliver(k))
  /\ \A c \in ConfigMaps : WF_vars(MapEvent(c))
  /\ \A w \in Workers : WF_vars(Reconcile(w))
  /\ \A w \in Workers, k \in Keys : SF_vars(Take(w, k))
  /\ SF_vars(ComputeKept)

FairSpec == Init /\ [][Next]_vars /\ Fairness

----------------------------------------------------------------------------
(* Properties. *)

Generations == 0..(MaxEvents + 1)

AncestorStatuses == [gateway : Gateways, unresolved : Seq(ConfigMaps), obs : Generations]

\* The statuses of a policy: no Gateway is listed twice.
Statuses ==
  {s \in Seq(AncestorStatuses) : \A i, j \in 1..Len(s) : s[i].gateway = s[j].gateway => i = j}

Objects(k) ==
  [gen : Generations, spec : SpecsOf(k), status : IF k \in Policies THEN Statuses ELSE {<<>>}]

ASSUME AbsentAssumption == \A k \in Keys : Absent \notin Objects(k)

ObjectMap(m) ==
  /\ m = [k \in Keys |-> m[k]]
  /\ \A k \in Keys : m[k] \in Objects(k) \union {Absent}

Contents == SUBSET (Keys \X (PolicySpecs \union Data))

PCs == {"idle", "get", "readPolicies", "readConfigMaps", "publish"}
PolicyPCs == {"ways", "check", "put", "store"}

\* The references that are not left have been looked at.
LookedAt(t) ==
  \E done \in 0..Len(t.base.spec) :
    /\ t.left = SubSeq(t.base.spec, done + 1, Len(t.base.spec))
    /\ Elements(t.unresolved) \subseteq Elements(SubSeq(t.base.spec, 1, done))

\* A worker between Get and its store works on the policy it was called for.
HoldOK(t) ==
  /\ t.key \in Policies
  /\ t.base \in Objects(t.key) /\ t.obj \in Objects(t.key)
  /\ t.obj = [t.base EXCEPT !.status = t.obj.status]
  /\ LookedAt(t)

TaskOK(w, t) ==
  /\ DOMAIN t = DOMAIN Idle
  /\ t.pc \in IF w = "configMaps" THEN PCs ELSE PCs \union PolicyPCs
  /\ t.pc = "idle" => t = Idle
  /\ t.pc = "get" => t.key \in Own(w) /\ t = [Idle EXCEPT !.pc = "get", !.key = t.key]
  /\ t.pc \in PolicyPCs => HoldOK(t)
  /\ t.gateways \subseteq Gateways /\ t.ways \subseteq Gateways
  /\ t.unresolved \in Seq(ConfigMaps)
  /\ t.snap \in [Workers -> Contents]

\* Every object is one of its kind, every request one for its controller, every
\* task one its controller can have.
TypeOK ==
  /\ ObjectMap(api) /\ ObjectMap(cache) /\ ObjectMap(store)
  /\ noticed \subseteq ConfigMaps
  /\ known \subseteq Gateways
  /\ leads \in [Policies -> SUBSET Gateways]
  /\ queue = [w \in Workers |-> queue[w]] /\ \A w \in Workers : queue[w] \subseteq Own(w)
  /\ task = [w \in Workers |-> task[w]] /\ \A w \in Workers : TaskOK(w, task[w])
  /\ routes \in [Workers -> Contents]
  /\ events \in 0..MaxEvents
  /\ changes \in [Keys -> 0..events]
  /\ spent \subseteq RareEvents

\* Nothing is on its way: the cache is current, and no event or request waits
\* or runs.
AtRest ==
  /\ cache = api
  /\ noticed = {}
  /\ \A w \in Workers : queue[w] = {} /\ task[w] = Idle

\* At rest State holds the policies and ConfigMaps of the API server, whatever
\* the verdict on a policy, and nothing that was deleted: a policy whose
\* status could not be written is stored later.
MirrorAtRest == AtRest => store = api

\* At rest the conditions of a policy speak of its current generation, and of
\* the ConfigMaps as they are: the check read them one by one, at other times
\* than the policy, and only the watch makes up for what changed since.
VerdictAtRest ==
  AtRest => \A p \in {k \in Policies : api[k] # Absent} :
    \A i \in 1..Len(api[p].status) :
      /\ api[p].status[i].obs = api[p].gen
      /\ api[p].status[i].unresolved = Unresolved(api[p].spec, api)

\* "Find all Gateways that use this policy (via Services referenced in
\* HTTPRoutes)": at rest, the ancestors in the status are those Gateways.
AncestorsExact ==
  AtRest => \A p \in {k \in Policies : api[k] # Absent} :
    {api[p].status[i].gateway : i \in 1..Len(api[p].status)} = known \intersect leads[p]

\* Once users, errors and restarts stop, the controllers come to rest: a
\* reconciler that is called for the status it wrote itself, and lists the
\* ancestors in another order, does not write for ever.
ComesToRest == <>[]AtRest

\* Where a worker that is at pc stands in ProxySync, and the copy it makes next.
Place(pc) ==
  CASE pc \in {"readConfigMaps", "publish"} -> "update"
    [] pc = "readPolicies" -> "written"
    [] OTHER -> "idle"

NextCopy(pc) == CASE pc = "readConfigMaps" -> 2 [] pc = "publish" -> 3 [] OTHER -> 1

\* The refinement: the two workers are writers of ProxySync, none of which
\* ever fails after a store.
Shared == INSTANCE ProxySync WITH
  Kinds     <- Workers,
  ReadOrder <- <<"backendTLSPolicies", "configMaps">>,
  Values    <- SUBSET ((Policies \X PolicySpecs) \union (ConfigMaps \X Data)),
  Empty     <- {},
  Fallible  <- {},
  store     <- [w \in Workers |-> Content(w)],
  pc        <- [w \in Workers |-> Place(task[w].pc)],
  next      <- [w \in Workers |-> NextCopy(task[w].pc)],
  snap      <- [w \in Workers |-> task[w].snap],
  routes    <- routes

\* A policy is in State only once its status is written, and from then on
\* nothing can keep it from the proxy: no error comes between the store and
\* updateProxy, as it may for an HTTPRoute.
UsesSharedState == Shared!Spec

=============================================================================
