--------------------------- MODULE MCRouteHealth ---------------------------
(* Small instances of RouteHealth: the names of two addresses and three endpoints. *)
EXTENDS RouteHealth
CONSTANTS e1, e2, t1, t2, t3
=============================================================================
