---------------------------- MODULE MCTLSPolicy ----------------------------
(***************************************************************************)
(* TLSPolicy on one policy, its ConfigMaps and two Gateways.               *)
(***************************************************************************)
EXTENDS TLSPolicy

\* A policy that refers to a ConfigMap, or to none (wellKnownCACertificates).
MCPolicySpecs == {<<"c1">>, <<>>}
MCData        == {<<"CERTIFICATE">>}

\* The policy is used by no Gateway, or by both.
MCOthersDo == {<<{}, [p \in {"p1"} |-> {}]>>,
               <<{"g1", "g2"}, [p \in {"p1"} |-> {"g1", "g2"}]>>}
=============================================================================
