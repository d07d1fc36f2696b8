--------------------------- MODULE MCControlPlane ---------------------------
(***************************************************************************)
(* ControlPlane on a few Gateways and HTTPRoutes.                          *)
(***************************************************************************)
EXTENDS ControlPlane

Gw(c, h)        == [class |-> c, host |-> h]
Rt(ps, h, v)    == [parents |-> ps, host |-> h, valid |-> v]

\* One Gateway, ours or another controller's, and one route, valid or not.
MCGateways      == {"g1"}
MCRoutes        == {"r1"}
MCGatewaySpecs  == {Gw("ours", "h1"), Gw("theirs", "h1")}
MCRouteSpecs    == {Rt({"g1"}, "h1", TRUE), Rt({"g1"}, "h1", FALSE)}

\* A Gateway of ours, and a route that does or does not fit its hostname.
MCOurSpecs      == {Gw("ours", "h1")}
MCHostSpecs     == {Rt({"g1"}, "h1", TRUE), Rt({"g1"}, "h2", TRUE)}
=============================================================================
