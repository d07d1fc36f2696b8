----------------------------- MODULE MCRouting -----------------------------
(***************************************************************************)
(* Routing on three families of objects: one varies Gateways, listeners,   *)
(* parentRefs and hostnames, one rules, references and policies, and one   *)
(* has two HTTPRoutes in two namespaces, whose matches tie or do not.      *)
(***************************************************************************)
EXTENDS Routing

Listener(name, protocol, hostname) == [name |-> name, protocol |-> protocol, hostname |-> hostname]
Gateway(name, ns, listeners) == [name |-> name, namespace |-> ns, listeners |-> listeners]

MCStrings == STRING
MCLabels == {"ex", "x", "y", "z"}

AnyHost == <<>>
Wide    == <<"*", "ex">>
Narrow  == <<"*", "x", "ex">>
Exact   == <<"x", "ex">>

GatewaySets == {
  {Gateway("gw", "a", <<Listener("l1", "HTTP", AnyHost)>>)},
  {Gateway("gw", "a", <<Listener("l1", "HTTP", Wide), Listener("l2", "HTTPS", Exact)>>)},
  {Gateway("gw", "a", <<Listener("l1", "HTTP", Narrow)>>),
   Gateway("gw", "b", <<Listener("l1", "HTTP", Exact)>>)},
  {Gateway("gw", "a", <<Listener("l1", "TCP", AnyHost), Listener("l2", "HTTP", Narrow)>>),
   Gateway("other", "a", <<Listener("l1", "HTTP", Wide)>>)} }

Parent(name, ns, section) == [name |-> name, namespace |-> ns, section |-> section]

ParentLists == {
  <<Parent("gw", "", "")>>,
  <<Parent("gw", "a", "l2")>>,
  <<Parent("gw", "b", "")>>,
  <<Parent("gw", "", "l1"), Parent("other", "a", "")>> }

HostnameSets == {{}, {Wide}, {Narrow, <<"y">>}, {Exact, <<"y">>}}

Ref(kind, ns, name, port) == [kind |-> kind, namespace |-> ns, name |-> name, port |-> port]
Svc  == Ref("Service", "", "s", 80)
Bare == Ref("", "", "s", 0)
Far  == Ref("", "b", "s", 80)
Odd  == Ref("Odd", "", "s", 80)

Redirect(hostname, port, path) ==
  [scheme |-> "", hostname |-> hostname, port |-> port, path |-> path, status |-> 0]
Prefix(v) == [type |-> "ReplacePrefixMatch", value |-> v]
Full(v)   == [type |-> "ReplaceFullPath", value |-> v]

On(type, value)   == [path |-> [type |-> type, value |-> value], headers |-> {}]
HeaderOnly        == [path |-> None, headers |-> {"h"}]
RuleOf(ms, f, rs) == [matches |-> ms, redirect |-> f, refs |-> rs]

A == <<"/", "a">>
Root == <<"/">>

RuleLists == {
  <<RuleOf(<<On("PathPrefix", A)>>, None, <<Bare, Svc>>), RuleOf(<<On("Exact", A)>>, None, <<Bare>>)>>,
  <<RuleOf(<<>>, None, <<Far>>), RuleOf(<<HeaderOnly>>, None, <<Svc>>)>>,
  <<RuleOf(<<On("", A)>>, None, <<Svc, Odd>>), RuleOf(<<>>, Redirect(<<>>, 0, None), <<>>)>>,
  <<RuleOf(<<On("PathPrefix", A)>>, Redirect(<<"y">>, 0, Prefix(<<"/", "n">>)), <<>>),
    RuleOf(<<On("PathPrefix", Root)>>, Redirect(<<>>, 81, Prefix(<<"/", "n", "/">>)), <<>>)>>,
  <<RuleOf(<<On("PathPrefix", Root), On("Exact", A)>>, Redirect(<<>>, 0, Prefix(<<"/", "n">>)), <<>>),
    RuleOf(<<HeaderOnly, On("Exact", A)>>, Redirect(<<>>, 0, Full(<<"/", "f">>)), <<>>)>> }

RouteIn(ns, name, parents, hostnames, valid, rules) ==
  [name |-> name, namespace |-> ns, parentRefs |-> parents, hostnames |-> hostnames,
   valid |-> valid, rules |-> rules]
RouteOf(parents, hostnames, valid, rules) == RouteIn("a", "r", parents, hostnames, valid, rules)

Policy(name, ns, targets, caRefs) ==
  [name |-> name, namespace |-> ns, targets |-> targets, caRefs |-> caRefs, hostname |-> name]

PolicySets == {
  {Policy("p", "a", {"s"}, {"c"})},
  {Policy("p", "a", {"t", "s"}, {"c", "d"}), Policy("p", "b", {"s"}, {"d"})},
  {Policy("p", "a", {"s"}, {"c"}), Policy("q", "a", {"s"}, {"d"})} }

CASets == {{}, {<<"a", "c">>}, {<<"a", "c">>, <<"b", "d">>}}

Services(protocol) == [k \in {<<"a", "s">>} |-> [p \in {80} |-> protocol]]

World(gs, rs, svc, ps, cas) ==
  [gateways |-> gs, routes |-> rs, services |-> svc, policies |-> ps, caCerts |-> cas]

OneRule == <<RuleOf(<<>>, None, <<Svc>>)>>

\* What the Service says, the policies, and the certificates.
Backings ==
  {<<protocol, {}, {}>> : protocol \in {"", "https", "kubernetes.io/h2c"}}
  \union {<<"kubernetes.io/h2c", ps, cas>> : ps \in PolicySets, cas \in CASets}

\* Rules of two routes: the same, decided by path, by length or by headers, and
\* with no matches at all.
Sharing == {
  <<RuleOf(<<>>, None, <<Svc>>)>>,
  <<RuleOf(<<On("PathPrefix", A)>>, None, <<Svc>>), RuleOf(<<>>, Redirect(<<>>, 0, None), <<>>)>>,
  <<RuleOf(<<On("Exact", A), On("RegularExpression", Root)>>, None, <<Bare, Svc>>)>>,
  <<RuleOf(<<On("PathPrefix", Root), HeaderOnly>>, None, <<Svc, Odd>>)>> }

TwoRoutes ==
  {{RouteIn("a", "r1", <<Parent("gw", "a", "")>>, {}, TRUE, rules1),
    RouteIn("b", "r2", <<Parent("gw", "a", "")>>, hostnames, TRUE, rules2)} :
     rules1 \in Sharing, rules2 \in Sharing, hostnames \in {{}, {Narrow, <<"y">>}}}

MCWorlds ==
  {World(gs, {RouteOf(parents, hostnames, valid, OneRule)}, Services(""), {}, {}) :
     gs \in GatewaySets, parents \in ParentLists, hostnames \in HostnameSets, valid \in BOOLEAN}
  \union
  {World(gs, {RouteOf(<<Parent("gw", "", "")>>, {}, TRUE, rules)}, Services(b[1]), b[2], b[3]) :
     gs \in {g \in GatewaySets : Cardinality(g) = 1}, rules \in RuleLists, b \in Backings}
  \union
  {World(gs, rs, Services(""), {Policy("p", "b", {"s"}, {"d"})}, {<<"b", "d">>}) :
     gs \in {g \in GatewaySets : Cardinality(g) = 1}, rs \in TwoRoutes}

MCRequests ==
  {[host |-> h, port |-> 80, path |-> Root, headers |-> {}, tls |-> FALSE] :
     h \in {<<"ex">>, Exact, <<"z", "ex">>, <<"y">>, <<"z", "x", "ex">>}}
  \union
  {[host |-> Exact, port |-> 0, path |-> p, headers |-> hs, tls |-> TRUE] :
     p \in {A, <<"/", "b">>, <<"/", "a", "/", "b">>, <<"/", "a", "/">>}, hs \in {{}, {"h"}}}
=============================================================================
