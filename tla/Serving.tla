------------------------------ MODULE Serving ------------------------------
(***************************************************************************)
(* Proxy.ServeHTTP and MatchRoute: requests are answered from the routes   *)
(* while updateProxy installs others.                                      *)
(*                                                                         *)
(* A configuration is what UpdateRoutes installs, as the sequence of       *)
(* entries that MatchRoute looks at (module Matching).                     *)
(* The handlers are the goroutines of the two servers, which share Proxy.  *)
(***************************************************************************)
EXTENDS Matching

CONSTANTS
  Handlers,  \* goroutines that serve requests
  Configs,   \* the configurations updateProxy may install
  NoRequest

\* A rule without matches competes as the empty InternalMatch.
ASSUME ConfigsAssumption ==
  /\ Configs \subseteq Seq(Entries)
  /\ <<>> \in Configs
  /\ \A c \in Configs : \A i \in 1..Len(c) :
       c[i].matchless => c[i].type = "" /\ c[i].len = 0 /\ c[i].headers = 0

ASSUME RequestsAssumption == NoRequest \notin Requests

VARIABLES
  installed,  \* Proxy.routes
  pc,         \* pc[h]: where the call of ServeHTTP is
  req,        \* req[h]: the request it serves
  snap,       \* snap[h]: its local variable routes
  at,         \* at[h]: the entry it looks at next
  best,       \* best[h]: the entry of bestRule and bestMatch, 0 for nil
  reply,      \* reply[h]: what it answered
  since       \* history: since[h], the configurations installed during the call

vars == <<installed, pc, req, snap, at, best, reply, since>>

----------------------------------------------------------------------------

Init ==
  /\ installed = <<>>
  /\ pc    = [h \in Handlers |-> "idle"]
  /\ req   = [h \in Handlers |-> NoRequest]
  /\ snap  = [h \in Handlers |-> <<>>]
  /\ at    = [h \in Handlers |-> 1]
  /\ best  = [h \in Handlers |-> 0]
  /\ reply = [h \in Handlers |-> "notFound"]
  /\ since = [h \in Handlers |-> {}]

\* UpdateRoutes: a new list, never a change of the one that is there.
Install(c) ==
  /\ installed' = c
  /\ since' = [h \in Handlers |-> IF pc[h] \in {"read", "scan"} THEN since[h] \union {c}
                                  ELSE since[h]]
  /\ UNCHANGED <<pc, req, snap, at, best, reply>>

\* A server calls ServeHTTP.
Accept(h) ==
  /\ pc[h] = "idle"
  /\ \E q \in Requests : req' = [req EXCEPT ![h] = q]
  /\ pc'    = [pc EXCEPT ![h] = "read"]
  /\ since' = [since EXCEPT ![h] = {installed}]
  /\ UNCHANGED <<installed, snap, at, best, reply>>

\* MUTANT of ReadRoutes: the scan is numbered from zero.
ReadRoutesAtZero(h) ==
  /\ pc[h] = "read"
  /\ snap' = [snap EXCEPT ![h] = installed]
  /\ at'   = [at EXCEPT ![h] = 0]
  /\ pc'   = [pc EXCEPT ![h] = "scan"]
  /\ UNCHANGED <<installed, req, best, reply, since>>

\* ServeHTTP reads Proxy.routes under the read lock.
ReadRoutes(h) ==
  /\ pc[h] = "read"
  /\ snap' = [snap EXCEPT ![h] = installed]
  /\ pc'   = [pc EXCEPT ![h] = "scan"]
  /\ UNCHANGED <<installed, req, at, best, reply, since>>

\* MUTANT of Look: the routes are read again at each entry.
LookAgain(h) ==
  LET n == at[h] IN
  /\ pc[h] = "scan"
  /\ n <= Len(snap[h])
  /\ snap' = [snap EXCEPT ![h] = IF n <= Len(installed) THEN installed ELSE @]
  /\ at' = [at EXCEPT ![h] = n + 1]
  /\ best' = [best EXCEPT ![h] =
                IF /\ req[h] \in snap'[h][n].hits
                   /\ @ = 0 \/ (~snap'[h][n].matchless /\ Better(snap'[h][n], snap'[h][@]))
                THEN n ELSE @]
  /\ UNCHANGED <<installed, pc, req, reply, since>>

\* MatchRoute looks at one entry: a rule without matches is taken if there is
\* nothing yet, a match if it is better.
Look(h) ==
  LET n == at[h]  c == snap[h] IN
  /\ pc[h] = "scan"
  /\ n <= Len(c)
  /\ at' = [at EXCEPT ![h] = n + 1]
  /\ best' = [best EXCEPT ![h] =
                IF /\ req[h] \in c[n].hits
                   /\ @ = 0 \/ (~c[n].matchless /\ Better(c[n], c[@]))
                THEN n ELSE @]
  /\ UNCHANGED <<installed, pc, req, snap, reply, since>>

\* The scan is over: ServeHTTP redirects, answers with an error, or forwards.
Reply(h) ==
  /\ pc[h] = "scan"
  /\ at[h] > Len(snap[h])
  /\ reply' = [reply EXCEPT ![h] = Answer(snap[h], best[h])]
  /\ pc'    = [pc EXCEPT ![h] = "replied"]
  /\ UNCHANGED <<installed, req, snap, at, best, since>>

\* ServeHTTP returns.
Done(h) ==
  /\ pc[h] = "replied"
  /\ pc'    = [pc EXCEPT ![h] = "idle"]
  /\ req'   = [req EXCEPT ![h] = NoRequest]
  /\ snap'  = [snap EXCEPT ![h] = <<>>]
  /\ at'    = [at EXCEPT ![h] = 1]
  /\ best'  = [best EXCEPT ![h] = 0]
  /\ reply' = [reply EXCEPT ![h] = "notFound"]
  /\ since' = [since EXCEPT ![h] = {}]
  /\ UNCHANGED installed

Next ==
  \/ \E c \in Configs : Install(c)
  \/ \E h \in Handlers :
       Accept(h) \/ ReadRoutes(h) \/ Look(h) \/ Reply(h) \/ Done(h)

Spec == Init /\ [][Next]_vars

----------------------------------------------------------------------------

\* The types of the variables.
TypeOK ==
  /\ installed \in Configs
  /\ pc    \in [Handlers -> {"idle", "read", "scan", "replied"}]
  /\ req   \in [Handlers -> Requests \union {NoRequest}]
  /\ snap  \in [Handlers -> Configs]
  /\ at    = [h \in Handlers |-> at[h]]
  /\ best  = [h \in Handlers |-> best[h]]
  /\ \A h \in Handlers :
       /\ pc[h] \in {"read", "scan"} => req[h] \in Requests
       /\ pc[h] \in {"idle", "read"} => at[h] = 1 /\ best[h] = 0
       /\ at[h] \in 1..(Len(snap[h]) + 1)
       /\ best[h] \in 0..(at[h] - 1)
  /\ reply \in [Handlers -> Replies]
  /\ since \in [Handlers -> SUBSET Configs]

\* A request is answered as one configuration says that was installed at some
\* time during the call: by the right rule of it, or 404 if none accepts it.
\* No mixture of two configurations, and no order of the scan other than theirs.
AnsweredByOneConfiguration ==
  \A h \in Handlers : pc[h] = "replied" =>
    \E c \in since[h] : \E i \in 0..Len(c) :
      RightUpTo(c, req[h], i, Len(c)) /\ reply[h] = Answer(c, i)

=============================================================================
