----------------------------- MODULE RouteRings ------------------------------
(***************************************************************************)
(* internal/server/biz/unified_route_state.go, the cursors: one ring of    *)
(* channels per model for primary selection, one for rescue, and inside a  *)
(* rescue channel a counter over its exact routes.  A channel is its       *)
(* positive ID; a route is <<channel, rank>>, the rank standing for the    *)
(* place of (model, format, credential) in the order the code sorts by.    *)
(***************************************************************************)
EXTENDS Integers, FiniteSets

CONSTANTS
    Model,        \* request models; each has rings of its own
    Channel,      \* channel IDs
    Route,        \* exact routes, <<channel, rank>>
    RouteCycle    \* a common multiple of the sizes of the route lists

ASSUME RingAssumption ==
    /\ Channel \subseteq Nat \ {0}
    /\ Route \subseteq Channel \X Nat
    /\ IsFiniteSet(Route)
    /\ RouteCycle \in Nat \ {0}
    /\ \A c \in Channel : \A n \in 1 .. Cardinality({x \in Route : x[1] = c}) :
          RouteCycle % n = 0

VARIABLES
    last,         \* last[kind][m]: lastChannelID of the ring; 0 is hasLastChannel = false
    routeNext     \* routeNext[m][c]: the counter of "route:m:c", modulo RouteCycle

rings == <<last, routeNext>>

Kinds == {"primary", "rescue"}

ChannelOf(x) == x[1]
Rank(x) == x[2]

RingsInit ==
    /\ last = [k \in Kinds |-> [m \in Model |-> 0]]
    /\ routeNext = [m \in Model |-> [c \in Channel |-> 0]]

(* The smallest ID above the last one served, else the smallest of all.    *)
IsNext(prev, ids, c) ==
    LET above == {i \in ids : i > prev}
        from == IF above # {} THEN above ELSE ids
    IN c \in from /\ \A i \in from : c <= i

NextPrimary(m, ids, c) ==
    /\ IsNext(last["primary"][m], ids, c)
    /\ last' = [last EXCEPT !["primary"][m] = c]
    /\ UNCHANGED routeNext

\* Bug: rescue traffic moves the primary cursor too.
NextRescue_SharedCursor(m, ids, c) ==
    /\ IsNext(last["primary"][m], ids, c)
    /\ last' = [k \in Kinds |-> [last[k] EXCEPT ![m] = c]]
    /\ UNCHANGED routeNext

NextRescue(m, ids, c) ==
    /\ IsNext(last["rescue"][m], ids, c)
    /\ last' = [last EXCEPT !["rescue"][m] = c]
    /\ UNCHANGED routeNext

(* The n-th of the routes in rank order, counted from 0.                   *)
IsNth(routes, n, x) ==
    /\ x \in routes
    /\ Cardinality({y \in routes : Rank(y) < Rank(x)}) = n

\* Bug: the counter skips the last route of the list.
NextRescueRoute_SkipsTheLast(m, c, routes, x) ==
    LET n == Cardinality(routes)
    IN  /\ IsNth(routes, routeNext[m][c] % (IF n = 1 THEN 1 ELSE n - 1), x)
        /\ routeNext' = [routeNext EXCEPT ![m][c] = (@ + 1) % RouteCycle]
        /\ UNCHANGED last

\* routes: the routes of channel c on offer.
NextRescueRoute(m, c, routes, x) ==
    /\ IsNth(routes, routeNext[m][c] % Cardinality(routes), x)
    /\ routeNext' = [routeNext EXCEPT ![m][c] = (@ + 1) % RouteCycle]
    /\ UNCHANGED last

RingsTypeOK ==
    /\ last \in [Kinds -> [Model -> Channel \cup {0}]]
    /\ routeNext \in [Model -> [Channel -> 0 .. RouteCycle - 1]]
==============================================================================
