------------------------------ MODULE Routing ------------------------------
(***************************************************************************)
(* From the objects in State to the answer to a request: updateProxy and   *)
(* BuildInternalRoutes, then Matches, redirect and forward.                *)
(*                                                                         *)
(* State holds Gateways, HTTPRoutes, Services, BackendTLSPolicies and      *)
(* ConfigMaps.  updateProxy copies the maps in an order that changes from  *)
(* call to call, and a request is answered by the right rule of what it    *)
(* installed (module Serving shows that the scan finds that rule).         *)
(*                                                                         *)
(* "" and 0 stand for a nil pointer; a path is the sequence of its slashes *)
(* and segments; an object's key is <<namespace, name>>.                   *)
(***************************************************************************)
EXTENDS Matching, Hostnames, SequencesExt

CONSTANTS
  Strings,   \* names, protocols, slashes and segments of paths
  Worlds,    \* what State may hold: records [gateways, routes, services, policies, caCerts]
  None

(* The objects in State, and what is made of them. *)

Listeners  == [name : Strings, protocol : Strings, hostname : HostPatterns]
Gateways   == [name : Strings, namespace : Strings, listeners : Seq(Listeners)]
ParentRefs == [name : Strings, namespace : Strings, section : Strings]
Refs       == [kind : Strings, namespace : Strings, name : Strings, port : Nat]

Paths         == Seq(Strings)
PathMatches   == [type : Types, value : Paths]
PathModifiers == [type : Strings, value : Paths]

RouteMatches ==
  [path : PathMatches \union {None}, headers : {s \in SUBSET Strings : IsFiniteSet(s)}]

Redirects ==
  [scheme : Strings, hostname : HostPatterns, port : Nat,
   path : PathModifiers \union {None}, status : Nat]

RouteRules ==
  [matches : Seq(RouteMatches), redirect : Redirects \union {None}, refs : Seq(Refs)]

\* A hostname of a route is never empty; that of a listener may be.
Routes ==
  [name : Strings, namespace : Strings, parentRefs : Seq(ParentRefs),
   hostnames : SUBSET (HostPatterns \ {<<>>}), valid : BOOLEAN, rules : Seq(RouteRules)]

Policies ==
  [name : Strings, namespace : Strings, targets : SUBSET Strings, caRefs : SUBSET Strings,
   hostname : Strings]

TLSConfigs == [hostname : Strings, caCerts : SUBSET Strings]

Backends ==
  [key : Strings \X Strings, port : Nat, appProtocol : Strings, tls : TLSConfigs \union {None}]

ASSUME StringsAssumption == {"", "https"} \subseteq Strings

ASSUME WorldsAssumption ==
  \A w \in Worlds :
    /\ w.gateways \subseteq Gateways /\ IsFiniteSet(w.gateways)
    /\ w.routes \subseteq Routes /\ IsFiniteSet(w.routes)
    /\ \A key \in DOMAIN w.services : \A port \in DOMAIN w.services[key] :
         w.services[key][port] \in Strings
    /\ w.policies \subseteq Policies /\ IsFiniteSet(w.policies)

ASSUME RequestsAssumption == \A q \in Requests : q.host \in Hosts

ASSUME NoneAssumption == None \notin PathMatches \union TLSConfigs \union Backends

VARIABLES
  state,     \* State: one of Worlds
  installed, \* Proxy.routes: a sequence of InternalRoutes, or None before the first
  answer     \* what the last request was answered, or None

vars == <<state, installed, answer>>

----------------------------------------------------------------------------
(* Acceptance and references, pkg/state/httproute.go. *)

HTTP(l) == l.protocol \in {"HTTP", "HTTPS"}

Section(p, l) == p.section \in {"", l.name}

\* The hostnames of route and listener, none if they have none in common.
Effective(r, l) == IntersectHostnames(r.hostnames, l.hostname)

\* Where the first Gateway of that name is, if there is one.
FirstNamed(name, gateways) ==
  {i \in 1..Len(gateways) : /\ gateways[i].name = name
                            /\ \A j \in 1..(i - 1) : gateways[j].name # name}

\* MUTANT of Accepted: the sectionName is not looked at.
AcceptedAnySection(r, p, gateways) ==
  /\ r.valid
  /\ \E k \in FirstNamed(p.name, gateways) : \E i \in 1..Len(gateways[k].listeners) :
       LET l == gateways[k].listeners[i] IN
       HTTP(l) /\ (Effective(r, l) # {} \/ r.hostnames = {})

\* ComputeAcceptedCondition, with the Gateways in this order: the first one of
\* that name is asked, in whatever namespace it is.
Accepted(r, p, gateways) ==
  /\ r.valid
  /\ \E k \in FirstNamed(p.name, gateways) : \E i \in 1..Len(gateways[k].listeners) :
       LET l == gateways[k].listeners[i] IN
       HTTP(l) /\ Section(p, l) /\ (Effective(r, l) # {} \/ r.hostnames = {})

\* The kind of a reference is Service if it is not said.
ToService(ref) == ref.kind \in {"", "Service"}

\* ComputeResolvedRefsCondition: one kind that is not Service is enough.
ResolvedRefs(r) ==
  \A i \in 1..Len(r.rules) : \A j \in 1..Len(r.rules[i].refs) : ToService(r.rules[i].refs[j])

----------------------------------------------------------------------------
(* BuildInternalRoutes. *)

InNamespace(p, g) == p.namespace \in {"", g.namespace}

\* MUTANT of Bound: acceptance is asked of all Gateways in State.
BoundAmongAll(g, l, r, gateways) ==
  \E i \in 1..Len(r.parentRefs) :
    LET p == r.parentRefs[i] IN
    /\ p.name = g.name /\ InNamespace(p, g) /\ Section(p, l)
    /\ Accepted(r, p, gateways)

\* A parentRef leads to this listener, and the Gateway accepts the route.
Bound(g, l, r, gateways) ==
  \E i \in 1..Len(r.parentRefs) :
    LET p == r.parentRefs[i] IN
    /\ p.name = g.name /\ InNamespace(p, g) /\ Section(p, l)
    /\ Accepted(r, p, <<g>>)

\* MUTANT of Serves: the empty intersection is not looked at.
ServesAll(g, l, r, gateways) == HTTP(l) /\ Bound(g, l, r, gateways)

\* The listener of g gets an InternalRoute for r.
Serves(g, l, r, gateways) ==
  /\ HTTP(l)
  /\ Bound(g, l, r, gateways)
  /\ Effective(r, l) # {} \/ r.hostnames = {}

ServiceKey(r, ref) == <<IF ref.namespace = "" THEN r.namespace ELSE ref.namespace, ref.name>>

Targets(policy, key) == policy.namespace = key[1] /\ key[2] \in policy.targets

\* The appProtocol of the Service's port, if both are there.
AppProtocol(w, key, port) ==
  IF key \in DOMAIN w.services /\ port \in DOMAIN w.services[key]
  THEN w.services[key][port] ELSE ""

\* The CA certificates State has for a policy, by the ConfigMaps it names.
CACerts(w, policy) == {c \in policy.caRefs : <<policy.namespace, c>> \in w.caCerts}

TLSConfig(w, policy) == [hostname |-> policy.hostname, caCerts |-> CACerts(w, policy)]

\* MUTANT of Backend: the hostname is kept of the first policy that has one.
BackendMixed(w, r, ref, policies) ==
  LET key == ServiceKey(r, ref)
      on  == {i \in 1..Len(policies) : Targets(policies[i], key)}
  IN  [key |-> key, port |-> ref.port,
       appProtocol |-> IF on = {} THEN AppProtocol(w, key, ref.port) ELSE "https",
       tls |-> IF on = {} THEN None
               ELSE [TLSConfig(w, policies[Max(on)]) EXCEPT !.hostname = policies[Min(on)].hostname]]

\* The InternalBackend of a reference: https if a policy targets the Service,
\* as the last such policy says.
Backend(w, r, ref, policies) ==
  LET key == ServiceKey(r, ref)
      on  == {i \in 1..Len(policies) : Targets(policies[i], key)}
  IN  [key |-> key, port |-> ref.port,
       appProtocol |-> IF on = {} THEN AppProtocol(w, key, ref.port) ELSE "https",
       tls |-> IF on = {} THEN None ELSE TLSConfig(w, policies[Max(on)])]

\* MUTANT of Match: a path keeps the type it has, if any.
MatchUntyped(m) == [path |-> m.path, headers |-> m.headers]

\* An InternalMatch; a path without a type is a PathPrefix.
Match(m) ==
  [path |-> IF m.path = None THEN None
            ELSE [m.path EXCEPT !.type = IF @ = "" THEN "PathPrefix" ELSE @],
   headers |-> m.headers]

\* MUTANT of Rule: the first reference that is not a Service ends the loop.
RuleFirstRef(w, r, rule, policies) ==
  LET base == [matches |-> [i \in 1..Len(rule.matches) |-> Match(rule.matches[i])],
               redirect |-> rule.redirect, error |-> FALSE, backend |-> None]
      usable == {i \in 1..Len(rule.refs) : rule.refs[i].port # 0}
  IN  IF rule.redirect # None THEN base
      ELSE IF rule.refs # <<>> /\ ~ToService(rule.refs[1]) THEN [base EXCEPT !.error = TRUE]
      ELSE IF usable = {} THEN base
      ELSE [base EXCEPT !.backend = Backend(w, r, rule.refs[Min(usable)], policies)]

\* The InternalRule of a rule: an error if a reference of any rule is not
\* resolved, else a redirect, or the first reference that has a port.  (The
\* kinds are looked at again in the code, and are Services by then.)
Rule(w, r, rule, policies) ==
  LET base == [matches |-> [i \in 1..Len(rule.matches) |-> Match(rule.matches[i])],
               redirect |-> rule.redirect, error |-> FALSE, backend |-> None]
      usable == {i \in 1..Len(rule.refs) : rule.refs[i].port # 0}
  IN  IF ~ResolvedRefs(r) THEN [base EXCEPT !.error = TRUE]
      ELSE IF rule.redirect # None \/ usable = {} THEN base
      ELSE [base EXCEPT !.backend = Backend(w, r, rule.refs[Min(usable)], policies)]

\* The InternalRoute of a listener l of g for r.  gateway and route are where
\* it comes from, which the code does not keep.
InternalRoute(w, g, l, r, policies) ==
  [gateway   |-> g,
   route     |-> r,
   hostnames |-> Effective(r, l),
   rules     |-> [i \in 1..Len(r.rules) |-> Rule(w, r, r.rules[i], policies)]]

\* The InternalRoutes of a listener, one for each HTTPRoute it serves.
ListenerRoutes(w, g, l, gateways, routes, policies) ==
  FlattenSeq([k \in 1..Len(routes) |->
    IF Serves(g, l, routes[k], gateways)
    THEN <<InternalRoute(w, g, l, routes[k], policies)>> ELSE <<>>])

\* Those of one Gateway, listener by listener.
BuildInternalRoutes(w, g, gateways, routes, policies) ==
  FlattenSeq([i \in 1..Len(g.listeners) |->
    ListenerRoutes(w, g, g.listeners[i], gateways, routes, policies)])

\* Those of all Gateways, in this order.
AllRoutes(w, gateways, routes, policies) ==
  FlattenSeq([i \in 1..Len(gateways) |->
    BuildInternalRoutes(w, gateways[i], gateways, routes, policies)])

----------------------------------------------------------------------------
(* Matches. *)

Slash == "/"

HasPathPrefix(path, prefix) ==
  \/ prefix = <<Slash>>
  \/ path = prefix
  \/ /\ IsStrictPrefix(prefix, path)
     /\ path[Len(prefix) + 1] = Slash \/ (prefix # <<>> /\ Last(prefix) = Slash)

\* InternalMatch.Matches.  A type it does not know matches every path.
Matches(m, q) ==
  /\ m.path # None =>
       /\ m.path.type = "Exact" => q.path = m.path.value
       /\ m.path.type = "PathPrefix" => HasPathPrefix(q.path, m.path.value)
  /\ m.headers \subseteq q.headers

NoMatch == [path |-> None, headers |-> {}]

\* What MatchRoute looks at for rule j of an InternalRoute: its matches, or
\* the rule itself.  (Two prefixes of a path compare by their tokens as they
\* do by their bytes.)
Look(ir, j) ==
  LET rule == ir.rules[j]
      bare == rule.matches = <<>>
      ms   == IF bare THEN <<NoMatch>> ELSE rule.matches
  IN  [i \in 1..Len(ms) |->
         [matchless |-> bare,
          type    |-> IF ms[i].path = None THEN "" ELSE ms[i].path.type,
          len     |-> IF ms[i].path = None THEN 0 ELSE Len(ms[i].path.value),
          headers |-> Cardinality(ms[i].headers),
          hits    |-> {q \in Requests : /\ MatchHostname(ir.hostnames, q.host)
                                        /\ bare \/ Matches(ms[i], q)},
          rule    |-> [redirect |-> rule.redirect # None, error |-> rule.error,
                       backend |-> rule.backend # None],
          route |-> ir.route, index |-> j, match |-> ms[i], internal |-> rule]]

\* The entries of all InternalRoutes in scan order.
Flattened(irs) ==
  FlattenSeq([i \in 1..Len(irs) |->
    FlattenSeq([j \in 1..Len(irs[i].rules) |-> Look(irs[i], j)])])

\* MatchRoute.
MatchRoute(c, q) == CHOOSE i \in 0..Len(c) : RightUpTo(c, q, i, Len(c))

----------------------------------------------------------------------------
(* ServeHTTP. *)

\* MUTANT of RedirectPath: the prefix is cut off with the slash after it.
RedirectPathPastSlash(path, mod, m) ==
  IF mod = None THEN path
  ELSE IF mod.type = "ReplaceFullPath" THEN mod.value
  ELSE IF /\ mod.type = "ReplacePrefixMatch"
          /\ m.path # None /\ m.path.type = "PathPrefix" /\ IsPrefix(m.path.value, path)
  THEN mod.value \o SubSeq(path, Len(m.path.value) + 2, Len(path))
  ELSE path

\* The path of a redirect: a prefix is replaced only if the match has one.
RedirectPath(path, mod, m) ==
  IF mod = None THEN path
  ELSE IF mod.type = "ReplaceFullPath" THEN mod.value
  ELSE IF /\ mod.type = "ReplacePrefixMatch"
          /\ m.path # None /\ m.path.type = "PathPrefix" /\ IsPrefix(m.path.value, path)
  THEN mod.value \o SubSeq(path, Len(m.path.value) + 1, Len(path))
  ELSE path

\* URL.String puts a slash between the host and a path without one.
Rooted(path) == IF path # <<>> /\ path[1] # Slash THEN <<Slash>> \o path ELSE path

\* redirect: what the filter does not say is taken from the request.
Location(q, f, m) ==
  [scheme |-> IF f.scheme # "" THEN f.scheme ELSE IF q.tls THEN "https" ELSE "http",
   host   |-> IF f.hostname # <<>> THEN f.hostname ELSE q.host,
   port   |-> IF f.port # 0 THEN f.port ELSE q.port,
   path   |-> Rooted(RedirectPath(q.path, f.path, m)),
   status |-> IF f.status # 0 THEN f.status ELSE 302]

\* forward: how the transport to a backend is made.  Without certificates the
\* backend is not verified, but still asked for by the policy's hostname.
Transport(b) ==
  IF b.appProtocol # "https"
  THEN [mode |-> IF b.appProtocol = "kubernetes.io/h2c" THEN "h2c" ELSE "plain",
        caCerts |-> {}, serverName |-> ""]
  ELSE IF b.tls = None THEN [mode |-> "unverified", caCerts |-> {}, serverName |-> ""]
  ELSE [mode |-> IF b.tls.caCerts = {} THEN "unverified" ELSE "verified",
        caCerts |-> b.tls.caCerts, serverName |-> b.tls.hostname]

\* What the routes irs answer to q; rule is the rule of an HTTPRoute, 0 for none.
Served(irs, q) ==
  LET c == Flattened(irs)
      i == MatchRoute(c, q)
      reply == Answer(c, i)
  IN  [req |-> q, reply |-> reply,
       route  |-> IF i = 0 THEN None ELSE c[i].route,
       rule   |-> IF i = 0 THEN 0 ELSE c[i].index,
       prefix |-> IF i # 0 /\ c[i].match.path # None /\ c[i].type = "PathPrefix"
                  THEN c[i].match.path.value ELSE None,
       location  |-> IF reply = "redirect"
                     THEN Location(q, c[i].internal.redirect, c[i].match) ELSE None,
       backend   |-> IF reply = "backend" THEN c[i].internal.backend.key ELSE None,
       port      |-> IF reply = "backend" THEN c[i].internal.backend.port ELSE 0,
       transport |-> IF reply = "backend" THEN Transport(c[i].internal.backend) ELSE None]

----------------------------------------------------------------------------

Init ==
  /\ state \in Worlds
  /\ installed = None
  /\ answer = None

\* updateProxy: State's Gateways, HTTPRoutes and policies, each map in any order.
UpdateProxy ==
  /\ \E gs \in SetToSeqs(state.gateways), rs \in SetToSeqs(state.routes),
        ps \in SetToSeqs(state.policies) :
       installed' = AllRoutes(state, gs, rs, ps)
  /\ answer' = None
  /\ UNCHANGED state

\* ServeHTTP.
ServeHTTP(q) ==
  /\ installed # None
  /\ answer' = Served(installed, q)
  /\ UNCHANGED <<state, installed>>

Next == UpdateProxy \/ \E q \in Requests : ServeHTTP(q)

Spec == Init /\ [][Next]_vars

----------------------------------------------------------------------------
(* Properties. *)

\* What is installed is a list that Serving scans: a rule without matches
\* competes with no path and no headers, and every path has a type, without
\* which it would lose to a shorter one.  And the types of the other variables.
TypeOK ==
  /\ state \in Worlds
  /\ installed # None =>
       LET c == Flattened(installed) IN
       \A i \in 1..Len(c) :
         /\ [matchless |-> c[i].matchless, type |-> c[i].type, len |-> c[i].len,
             headers |-> c[i].headers, hits |-> c[i].hits, rule |-> c[i].rule] \in Entries
         /\ c[i].matchless => c[i].type = "" /\ c[i].headers = 0
         /\ c[i].type = "" => c[i].len = 0
  /\ answer # None =>
       /\ answer.req \in Requests
       /\ answer.reply \in Replies
       /\ answer.rule # 0 => answer.route \in state.routes /\ answer.rule \in 1..Len(answer.route.rules)

\* A host is routed for an HTTPRoute exactly if an HTTP listener that the route
\* names stands for it, and the route does: no host is lost or added on the way
\* through acceptance, listeners, intersections and MatchHostname.
HostsExact ==
  installed # None => \A r \in state.routes, q \in Requests :
    (\E i \in 1..Len(installed) :
       installed[i].route = r /\ MatchHostname(installed[i].hostnames, q.host))
      <=>
    /\ r.valid
    /\ r.hostnames = {} \/ \E n \in r.hostnames : StandsFor(n, q.host)
    /\ \E g \in state.gateways, i \in 1..Len(r.parentRefs) :
         LET p == r.parentRefs[i] IN
         /\ p.name = g.name /\ InNamespace(p, g)
         /\ \E j \in 1..Len(g.listeners) :
              LET l == g.listeners[j] IN
              HTTP(l) /\ Section(p, l) /\ StandsFor(l.hostname, q.host)

\* The status and the proxy agree: where one Gateway has the name, and the
\* parentRef means its namespace, a route is Accepted by it exactly if there
\* is an InternalRoute for it.
AcceptedIsServed ==
  installed # None => \A r \in state.routes, g \in state.gateways :
    (\A h \in state.gateways : h.name = g.name => h = g) =>
      \A gs \in SetToSeqs(state.gateways) :
        (\E i \in 1..Len(r.parentRefs) :
           LET p == r.parentRefs[i] IN
           p.name = g.name /\ InNamespace(p, g) /\ Accepted(r, p, gs))
          <=> \E i \in 1..Len(installed) : installed[i].gateway = g /\ installed[i].route = r

\* A rule never forwards past a reference of another kind, and never anywhere
\* but to the Service and port of its own first reference that has a port, in
\* the namespace of its own route.  An error is one the status of that route
\* shows too, and a rule that has such a reference is not answered with a 404.
ForwardedAsReferenced ==
  answer # None /\ answer.rule # 0 =>
    LET rule   == answer.route.rules[answer.rule]
        usable == {i \in 1..Len(rule.refs) : rule.refs[i].port # 0}
    IN  rule.redirect = None =>
        /\ (\E i \in 1..Len(rule.refs) : ~ToService(rule.refs[i])) => answer.reply = "error"
        /\ answer.reply = "error" => ~ResolvedRefs(answer.route)
        /\ answer.reply = "notFound" => usable = {}
        /\ answer.reply = "backend" =>
             \E i \in usable :
               /\ \A j \in usable : i <= j
               /\ answer.backend = ServiceKey(answer.route, rule.refs[i])
               /\ answer.port = rule.refs[i].port


\* A Service that BackendTLSPolicies of its namespace target is spoken to with
\* TLS, as one of them says and never as two of them do together: by its
\* hostname, verified against the certificates that State has for it,
\* unverified if it has none.
TransportOfOnePolicy ==
  answer # None /\ answer.reply = "backend" =>
    LET ps == {p \in state.policies : Targets(p, answer.backend)} IN
    /\ ps # {} => \E p \in ps :
         answer.transport = [mode |-> IF CACerts(state, p) = {} THEN "unverified" ELSE "verified",
                             caCerts |-> CACerts(state, p), serverName |-> p.hostname]
    /\ ps = {} => /\ answer.transport.caCerts = {} /\ answer.transport.serverName = ""
                  /\ answer.transport.mode # "verified"

Segments(path) == SelectSeq(path, LAMBDA t : t # Slash)

\* A prefix and its replacement that agree in whether they end with a slash:
\* the redirect replaces the segments of the prefix, keeps the others, and
\* has one slash between any two.
RedirectKeepsRest ==
  answer # None /\ answer.reply = "redirect" =>
    LET mod == answer.route.rules[answer.rule].redirect.path
        new == answer.location.path
        old == Segments(answer.req.path)
    IN  /\ mod # None
        /\ mod.type = "ReplacePrefixMatch"
        /\ answer.prefix # None
        /\ (Last(mod.value) = Slash) = (Last(answer.prefix) = Slash)
        =>
        /\ Segments(new) = Segments(mod.value) \o
                             SubSeq(old, Len(Segments(answer.prefix)) + 1, Len(old))
        /\ \A i \in 1..Len(new) : i % 2 = 1 <=> new[i] = Slash

\* Match e is taken over f, whichever of them the scan comes to first.
Beats(e, f) == ~e.matchless /\ Better(e, f)

\* Between matches of two HTTPRoutes that accept q the scan order decides
\* nothing.
Decided(c, q) ==
  \A i, j \in Hits(c, q, Len(c)) :
    c[i].route # c[j].route => Beats(c[i], c[j]) \/ Beats(c[j], c[i])

\* updateProxy called again on the same State changes no answer, in whatever
\* order Go's maps give it the objects, unless two policies target one Service
\* or matches of two HTTPRoutes tie for the request.  In those two cases the
\* order does decide: the code has no rule for them.
SameAnswersAgain ==
  [][ /\ installed # None
      /\ \A p1, p2 \in state.policies :
           p1 # p2 => p1.namespace # p2.namespace \/ p1.targets \intersect p2.targets = {}
      => \A q \in Requests :
           Decided(Flattened(installed), q) => Served(installed, q) = Served(installed', q)
    ]_installed

=============================================================================
