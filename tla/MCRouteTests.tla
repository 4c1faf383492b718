---------------------------- MODULE MCRouteTests -----------------------------
(* Two routes, two manual tests: enough for three tests of one route to     *)
(* overlap.                                                                 *)
EXTENDS RouteTests
==============================================================================
