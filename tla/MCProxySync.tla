---------------------------- MODULE MCProxySync ----------------------------
(***************************************************************************)
(* ProxySync on the kinds updateProxy reads first, in the order it reads   *)
(* them, with the one reconciler that can fail after a store among them.   *)
(***************************************************************************)
EXTENDS ProxySync

MCReadOrder == <<"gateways", "httpRoutes", "services">>
MCKinds     == {"gateways", "httpRoutes", "services"}
MCFallible  == {"httpRoutes"}
\* Every status update succeeds.
MCNone      == {}
=============================================================================
