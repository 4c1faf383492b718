---------------------------- MODULE FairRotation -----------------------------
(***************************************************************************)
(* What the rings of RouteRings promise to a channel: a turn.  Requests    *)
(* call them concurrently with whatever candidates they have; channels     *)
(* come and go, and each call is one critical section of the code.  Two    *)
(* history variables count the turns others took.                          *)
(***************************************************************************)
EXTENDS RouteRings

VARIABLES
    turns,     \* turns[k][m][c][d]: turns of d in ring k since c was last served,
               \* counted while c is on offer every time
    offered,   \* offered[m][c]: the routes of the last route pick in channel c
    taken      \* taken[m][c][x]: picks of x since the offer last changed or was used up

turnHistory == <<turns, offered, taken>>
rotationVars == <<rings, turnHistory>>

NoTurns == [c \in Channel |-> [d \in Channel |-> 0]]
NoneTaken == [x \in Route |-> 0]

RotationInit ==
    /\ RingsInit
    /\ turns = [k \in Kinds |-> [m \in Model |-> NoTurns]]
    /\ offered = [m \in Model |-> [c \in Channel |-> {}]]
    /\ taken = [m \in Model |-> [c \in Channel |-> NoneTaken]]

\* d is served while ids are on offer: whoever is on offer and passed over
\* remembers it; the served one and those not on offer start afresh.
CountTurn(k, m, ids, d) ==
    turns' = [turns EXCEPT ![k][m] =
                [c \in Channel |->
                    IF c \in ids \ {d}
                    THEN [turns[k][m][c] EXCEPT ![d] = @ + 1]
                    ELSE [e \in Channel |-> 0]]]

PickPrimary(m, ids) ==
    \E c \in ids :
        /\ NextPrimary(m, ids, c)
        /\ CountTurn("primary", m, ids, c)
        /\ UNCHANGED <<offered, taken>>

PickRescue(m, ids) ==
    \E c \in ids :
        /\ NextRescue(m, ids, c)
        /\ CountTurn("rescue", m, ids, c)
        /\ UNCHANGED <<offered, taken>>

PickRoute(m, c, routes) ==
    \E x \in routes :
        /\ NextRescueRoute(m, c, routes, x)
        /\ LET before == IF offered[m][c] = routes THEN taken[m][c] ELSE NoneTaken
               after == [before EXCEPT ![x] = @ + 1]
           IN taken' = [taken EXCEPT ![m][c] =
                          IF \A y \in routes : after[y] = 1 THEN NoneTaken ELSE after]
        /\ offered' = [offered EXCEPT ![m][c] = routes]
        /\ UNCHANGED turns

RotationNext ==
    \E m \in Model :
        \/ \E ids \in (SUBSET Channel) \ {{}} : PickPrimary(m, ids) \/ PickRescue(m, ids)
        \/ \E c \in Channel :
              \E routes \in (SUBSET {x \in Route : ChannelOf(x) = c}) \ {{}} :
                  PickRoute(m, c, routes)

RotationSpec == RotationInit /\ [][RotationNext]_rotationVars

RotationTypeOK ==
    /\ RingsTypeOK
    /\ turns \in [Kinds -> [Model -> [Channel -> [Channel -> Nat]]]]
    /\ offered \in [Model -> [Channel -> SUBSET Route]]
    /\ taken \in [Model -> [Channel -> [Route -> Nat]]]

(* Fair turns: while a channel stays a candidate, no other channel is      *)
(* served twice before it, however the set of candidates changes around    *)
(* them and whatever the other ring does.                                  *)
FairTurns ==
    \A k \in Kinds, m \in Model : \A c, d \in Channel : turns[k][m][c][d] <= 1

(* While the offer of a channel stays the same, its routes are used up     *)
(* before one is used again.                                               *)
RoutesUsedUp ==
    \A m \in Model, c \in Channel : \A x \in Route : taken[m][c][x] <= 1
==============================================================================
