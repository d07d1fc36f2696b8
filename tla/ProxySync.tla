----------------------------- MODULE ProxySync -----------------------------
(***************************************************************************)
(* The shared half of the controller process: the maps of pkg/state.State, *)
(* the routes of pkg/proxy.Proxy, and updateProxy, which every reconciler  *)
(* calls to derive the second from the first.                              *)
(*                                                                         *)
(* State holds one map per resource kind and each map is written by one    *)
(* reconciler only, whose controller runs one worker.  A kind therefore    *)
(* also names the worker that writes it.  A map's whole content is one     *)
(* value: an Upsert or Delete replaces it under the write lock.            *)
(*                                                                         *)
(* updateProxy copies the maps one at a time, each under a read lock of    *)
(* its own, computes the routes from the five copies and installs them     *)
(* under the proxy's lock.  Nothing spans the copies and the install, so   *)
(* the workers interleave between any two of them.  The routes that        *)
(* BuildInternalRoutes computes are a function of the copies, and are      *)
(* represented by the copies they were computed from.  It reads only the   *)
(* specs of the objects, so a status that is assigned in place, in an      *)
(* object that is in a map, changes no content.                            *)
(***************************************************************************)
EXTENDS Integers, Sequences

CONSTANTS
  Kinds,      \* the resource kinds State keeps a map of
  ReadOrder,  \* the order in which updateProxy copies the maps
  Values,     \* the contents a map may have
  Empty,      \* the content of a map nothing was stored in
  Fallible    \* the kinds whose reconciler may return an error after a store

ASSUME ReadOrderAssumption ==
  /\ ReadOrder \in Seq(Kinds)
  /\ \A k \in Kinds : \E i \in 1..Len(ReadOrder) : ReadOrder[i] = k

ASSUME EmptyAssumption == Empty \in Values

ASSUME FallibleAssumption == Fallible \subseteq Kinds

VARIABLES
  store,   \* store[k]: content of State's map of kind k
  pc,      \* pc[k]: where the worker of kind k is in Reconcile
  next,    \* next[k]: the position in ReadOrder of the map it copies next
  snap,    \* snap[k]: the copies its updateProxy call has made so far
  routes   \* the copies that Proxy.routes was computed from

vars == <<store, pc, next, snap, routes>>

Nothing == [k \in Kinds |-> Empty]

----------------------------------------------------------------------------

\* NewState and NewProxy: no object observed, no route installed.
Init ==
  /\ store  = Nothing
  /\ pc     = [k \in Kinds |-> "idle"]
  /\ next   = [k \in Kinds |-> 1]
  /\ snap   = [k \in Kinds |-> Nothing]
  /\ routes = Nothing

\* State.Upsert... or State.Delete...: the reconciler of k has a fresh object,
\* or saw that one is gone.  HTTPRouteReconciler stores a route a second time
\* before it calls updateProxy, but stores the same pointer, which is no step.
Write(k) ==
  /\ pc[k] = "idle"
  /\ \E v \in Values : store' = [store EXCEPT ![k] = v]
  /\ pc' = [pc EXCEPT ![k] = "written"]
  /\ UNCHANGED <<next, snap, routes>>

\* The reconciler returns an error between its store and its updateProxy call.
Fail(k) ==
  /\ k \in Fallible
  /\ pc[k] = "written"
  /\ pc' = [pc EXCEPT ![k] = "idle"]
  /\ UNCHANGED <<store, next, snap, routes>>

\* MUTANT of Read: the copy of a map is memoized from the installed routes'
\* inputs ("potentially memoized in the future", doc.go).
ReadMemoized(k) ==
  LET j == ReadOrder[next[k]] IN
  /\ pc[k] \in {"written", "update"}
  /\ next[k] <= Len(ReadOrder)
  /\ snap' = [snap EXCEPT ![k][j] = routes[j]]
  /\ next' = [next EXCEPT ![k] = @ + 1]
  /\ pc'   = [pc EXCEPT ![k] = "update"]
  /\ UNCHANGED <<store, routes>>

\* One of updateProxy's Get... calls: the copy of one map.
Read(k) ==
  LET j == ReadOrder[next[k]] IN
  /\ pc[k] \in {"written", "update"}
  /\ next[k] <= Len(ReadOrder)
  /\ snap' = [snap EXCEPT ![k][j] = store[j]]
  /\ next' = [next EXCEPT ![k] = @ + 1]
  /\ pc'   = [pc EXCEPT ![k] = "update"]
  /\ UNCHANGED <<store, routes>>

\* MUTANT of Publish: the install is left to another call that is under way.
PublishUnlessBusy(k) ==
  /\ pc[k] = "update"
  /\ next[k] > Len(ReadOrder)
  /\ routes' = IF \E p \in Kinds \ {k} : pc[p] = "update" THEN routes ELSE snap[k]
  /\ pc'   = [pc EXCEPT ![k] = "idle"]
  /\ next' = [next EXCEPT ![k] = 1]
  /\ snap' = [snap EXCEPT ![k] = Nothing]
  /\ UNCHANGED store

\* Proxy.UpdateRoutes, and the end of Reconcile.
Publish(k) ==
  /\ pc[k] = "update"
  /\ next[k] > Len(ReadOrder)
  /\ routes' = snap[k]
  /\ pc'   = [pc EXCEPT ![k] = "idle"]
  /\ next' = [next EXCEPT ![k] = 1]
  /\ snap' = [snap EXCEPT ![k] = Nothing]
  /\ UNCHANGED store

\* MUTANT of Restart: the copies are numbered from zero.
RestartAtZero ==
  /\ store'  = Nothing
  /\ pc'     = [k \in Kinds |-> "idle"]
  /\ next'   = [k \in Kinds |-> 0]
  /\ snap'   = [k \in Kinds |-> Nothing]
  /\ routes' = Nothing

\* The process ends and starts again: all of this state lives in its memory.
Restart ==
  /\ store'  = Nothing
  /\ pc'     = [k \in Kinds |-> "idle"]
  /\ next'   = [k \in Kinds |-> 1]
  /\ snap'   = [k \in Kinds |-> Nothing]
  /\ routes' = Nothing

Next ==
  \/ \E k \in Kinds : Write(k) \/ Fail(k) \/ Read(k) \/ Publish(k)
  \/ Restart

Spec == Init /\ [][Next]_vars

----------------------------------------------------------------------------

\* Every map, copy and position is one the code can hold.
TypeOK ==
  /\ store  \in [Kinds -> Values]
  /\ pc     \in [Kinds -> {"idle", "written", "update"}]
  /\ next   \in [Kinds -> 1..(Len(ReadOrder) + 1)]
  /\ snap   \in [Kinds -> [Kinds -> Values]]
  /\ routes \in [Kinds -> Values]

\* The map of kind k is not what the proxy serves, and the worker that wrote
\* it is done with it.
Stale(k) == pc[k] = "idle" /\ routes[k] # store[k]

\* A worker that has copied its own map holds exactly what it stored: between
\* its store and its install nobody else writes that map (updateProxy is
\* called after the store, in the same Reconcile).
OwnCopyCurrent ==
  \A k \in Kinds : \A i \in 1..(next[k] - 1) :
    ReadOrder[i] = k => snap[k][k] = store[k]

\* A map at rest falls out of the proxy in two ways only: another reconciler
\* installs routes computed from a copy it made before the map's last store
\* (updateProxy copies and installs without a common lock), or the map's own
\* reconciler returns an error after the store (HTTPRouteReconciler, when the
\* status update fails).  A reconciler never leaves its own map behind by
\* completing.
StaleOnlyByOvertaking ==
  [][\A k \in Kinds : ~Stale(k) /\ Stale(k)' =>
       \/ Fail(k)
       \/ \E p \in Kinds \ {k} : Publish(p) /\ snap[p][k] # store[k]]_vars

\* The proxy serves the last-observed state: once every reconciler has
\* returned, without error, the installed routes are the ones State gives.
FreshAtRest == (\A k \in Kinds : pc[k] = "idle") => routes = store

=============================================================================
