---------------------------- MODULE RescueRouting ----------------------------
(***************************************************************************)
(* The route of a production request: orderUnifiedCandidates chooses the   *)
(* primary channel, the retry loop of pipeline.Process runs attempts, and  *)
(* NextChannel of outbound.go chooses the exact rescue route after each    *)
(* failure.  Requests share the rings of RouteRings and the availability   *)
(* that RouteTests maintains.  NextChannel reads the availability of one   *)
(* route at a time, under its own lock, and calls the channel ring and the *)
(* route ring in two further critical sections: each is a step.            *)
(***************************************************************************)
EXTENDS RouteRings

CONSTANTS
    Request,
    ModelOf,        \* the model a request asks for
    MultiKey,       \* channels with several API keys: a forced key is built anew
    MaxSwitches     \* RetryPolicy.MaxChannelRetries

ASSUME RescueAssumption ==
    /\ ModelOf \in [Request -> Model]
    /\ \A c \in Channel : \E x \in Route : ChannelOf(x) = c
    /\ MaxSwitches \in Nat

VARIABLES
    passing,      \* routes whose availability is Known and Available
    pc,
    candidates,   \* channels of ChannelModelsCandidates
    route,        \* the current candidate, model and forced credential; <<>> before
    tried,        \* AttemptedRoutes
    switches,     \* channelSwitches
    tier,         \* which of the four routeOptions calls is running
    unread,       \* routes it has still to look at
    options,      \* what it has collected
    steady,       \* history: routes passing ever since the last choice began
    ever          \* history: routes passing at some time since it began

request == <<pc, candidates, route, tried, switches, tier, unread, options>>
history == <<steady, ever>>
vars == <<rings, passing, request, history>>

\* scan: in routeOptions; channel: before NextRescue; route: before
\* NextRescueRoute; built: TransformRequest next; sent: with the provider;
\* failed: the attempt has failed.
Running == {"built", "sent", "failed", "scan", "channel", "route"}
Ended == {"done", "exhausted", "refused", "cancelled", "rejected"}

RoutesOf(q) == {x \in Route : ChannelOf(x) \in candidates[q]}

Init ==
    /\ RingsInit
    /\ passing = {}
    /\ pc = [q \in Request |-> "new"]
    /\ candidates = [q \in Request |-> {}]
    /\ route = [q \in Request |-> <<>>]
    /\ tried = [q \in Request |-> {}]
    /\ switches = [q \in Request |-> 0]
    /\ tier = [q \in Request |-> 1]
    /\ unread = [q \in Request |-> {}]
    /\ options = [q \in Request |-> {}]
    /\ steady = [q \in Request |-> {}]
    /\ ever = [q \in Request |-> {}]

Goes(q, from, to) ==
    /\ pc[q] = from
    /\ pc' = [pc EXCEPT ![q] = to]

------------------------------------------------------------------------------
(* The environment: RecordTestVerdictGeneration writes a verdict.           *)

Choosing(q) == pc[q] \in {"scan", "channel", "route"}

TestPasses(x) ==
    /\ passing' = passing \cup {x}
    /\ ever' = [q \in Request |-> IF Choosing(q) THEN ever[q] \cup {x} ELSE ever[q]]
    /\ UNCHANGED <<rings, request, steady>>

TestFails(x) ==
    /\ passing' = passing \ {x}
    /\ steady' = [q \in Request |-> IF Choosing(q) THEN steady[q] \ {x} ELSE steady[q]]
    /\ UNCHANGED <<rings, request, ever>>

------------------------------------------------------------------------------
(* Selection, the attempt and its end                                       *)

\* Two candidates or more: the affinity target if it is one of them, else the ring.
Primary(q, cs, affinity, c) ==
    IF Cardinality(cs) < 2 \/ affinity \in cs
    THEN /\ c \in cs
         /\ affinity \in cs => c = affinity
         /\ UNCHANGED rings
    ELSE NextPrimary(ModelOf[q], cs, c)

SelectCandidates(q) ==
    /\ Goes(q, "new", "built")
    /\ \E cs \in (SUBSET Channel) \ {{}}, affinity \in Channel \cup {0} :
          /\ candidates' = [candidates EXCEPT ![q] = cs]
          /\ \E c \in cs :
                /\ Primary(q, cs, affinity, c)
                /\ \E x \in Route : /\ ChannelOf(x) = c
                                    /\ route' = [route EXCEPT ![q] = x]
    /\ UNCHANGED <<passing, tried, switches, tier, unread, options, history>>

NoCandidates(q) ==
    /\ Goes(q, "new", "rejected")
    /\ UNCHANGED <<rings, passing, candidates, route, tried, switches, tier, unread,
                   options, history>>

\* The history of the choice ends where the attempt begins.
Begin(q) ==
    /\ steady' = [steady EXCEPT ![q] = {}]
    /\ ever' = [ever EXCEPT ![q] = {}]

captureCurrentRoute(q) == tried' = [tried EXCEPT ![q] = @ \cup {route[q]}]

\* The route is captured whether or not the transformer of the provider failed.
TransformRequest(q) ==
    /\ Goes(q, "built", "sent") \/ Goes(q, "built", "failed")
    /\ captureCurrentRoute(q)
    /\ Begin(q)
    /\ UNCHANGED <<rings, passing, candidates, route, switches, tier, unread, options>>

\* GetChannelWithKey fails (channel gone or expired): returns before the capture.
ForcedKeyGone(q) ==
    /\ Goes(q, "built", "failed")
    /\ switches[q] > 0
    /\ ChannelOf(route[q]) \in MultiKey
    /\ Begin(q)
    /\ UNCHANGED <<rings, passing, candidates, route, tried, switches, tier, unread,
                   options>>

AttemptEnds(q) ==
    /\ Goes(q, "sent", "done") \/ Goes(q, "sent", "failed")
    /\ UNCHANGED <<rings, passing, candidates, route, tried, switches, tier, unread,
                   options, history>>

\* The caller is gone, the payload itself was refused, or the budget is spent.
StopRetrying(q) ==
    /\ \/ Goes(q, "failed", "cancelled")
       \/ Goes(q, "failed", "refused")
       \/ switches[q] >= MaxSwitches /\ Goes(q, "failed", "exhausted")
    /\ UNCHANGED <<rings, passing, candidates, route, tried, switches, tier, unread,
                   options, history>>

------------------------------------------------------------------------------
(* NextChannel                                                              *)

NextChannel(q) ==
    /\ switches[q] < MaxSwitches
    /\ RoutesOf(q) # {}
    /\ Goes(q, "failed", "scan")
    /\ tier' = [tier EXCEPT ![q] = 1]
    /\ unread' = [unread EXCEPT ![q] = RoutesOf(q)]
    /\ options' = [options EXCEPT ![q] = {}]
    /\ steady' = [steady EXCEPT ![q] = passing]
    /\ ever' = [ever EXCEPT ![q] = passing]
    /\ UNCHANGED <<rings, passing, candidates, route, tried, switches>>

\* Bug: the first call forgets what was tried.
ReadAvailability_ForgetsTried(q) ==
    /\ pc[q] = "scan"
    /\ tier[q] <= 2
    /\ \E x \in unread[q] :
          /\ unread' = [unread EXCEPT ![q] = @ \ {x}]
          /\ options' = [options EXCEPT ![q] = IF x \in passing THEN @ \cup {x} ELSE @]
    /\ UNCHANGED <<rings, passing, pc, candidates, route, tried, switches, tier, history>>

\* routeOptions(true, true), then routeOptions(true, false): one Availability call.
ReadAvailability(q) ==
    /\ pc[q] = "scan"
    /\ tier[q] <= 2
    /\ \E x \in unread[q] :
          /\ unread' = [unread EXCEPT ![q] = @ \ {x}]
          /\ options' = [options EXCEPT ![q] =
                           IF x \in passing /\ (tier[q] = 2 \/ x \notin tried[q])
                           THEN @ \cup {x} ELSE @]
    /\ UNCHANGED <<rings, passing, pc, candidates, route, tried, switches, tier, history>>

\* Bug: the second call forgets the availability and takes every untried route.
NextTier_PassNotFirst(q) ==
    /\ pc[q] = "scan"
    /\ tier[q] = 1 /\ unread[q] = {} /\ options[q] = {}
    /\ tier' = [tier EXCEPT ![q] = 3]
    /\ UNCHANGED <<rings, passing, pc, candidates, route, tried, switches, unread,
                   options, history>>

\* Nothing collected: the next call.
NextTier(q) ==
    /\ pc[q] = "scan"
    /\ tier[q] <= 2 /\ unread[q] = {} /\ options[q] = {}
    /\ tier' = [tier EXCEPT ![q] = @ + 1]
    /\ unread' = [unread EXCEPT ![q] = IF tier[q] = 1 THEN RoutesOf(q) ELSE {}]
    /\ UNCHANGED <<rings, passing, pc, candidates, route, tried, switches, options,
                   history>>

\* Bug: with no PASS route left, any route will do, tried or not.
BestEffort_ForgetsTried(q) ==
    /\ tier[q] = 3
    /\ Goes(q, "scan", "channel")
    /\ options' = [options EXCEPT ![q] = RoutesOf(q)]
    /\ UNCHANGED <<rings, passing, candidates, route, tried, switches, tier, unread,
                   history>>

\* routeOptions(false, true), else routeOptions(false, false): no shared state.
BestEffort(q) ==
    /\ tier[q] = 3
    /\ Goes(q, "scan", "channel")
    /\ options' = [options EXCEPT ![q] =
                     IF RoutesOf(q) \ tried[q] # {} THEN RoutesOf(q) \ tried[q]
                                                    ELSE RoutesOf(q)]
    /\ UNCHANGED <<rings, passing, candidates, route, tried, switches, tier, unread,
                   history>>

Collected(q) ==
    /\ unread[q] = {} /\ options[q] # {}
    /\ Goes(q, "scan", "channel")
    /\ UNCHANGED <<rings, passing, candidates, route, tried, switches, tier, unread,
                   options, history>>

\* selectRouteOption, first half: a rescue channel among those of the options.
RescueChannel(q) ==
    /\ Goes(q, "channel", "route")
    /\ \E c \in Channel :
          /\ NextRescue(ModelOf[q], {ChannelOf(x) : x \in options[q]}, c)
          /\ options' = [options EXCEPT ![q] = {x \in @ : ChannelOf(x) = c}]
    /\ UNCHANGED <<passing, candidates, route, tried, switches, tier, unread, history>>

\* Bug: the loop resets channelSwitches as it does sameChannelRetries.
RescueRoute_ResetsBudget(q) ==
    /\ Goes(q, "route", "built")
    /\ \E x \in options[q] :
          /\ NextRescueRoute(ModelOf[q], ChannelOf(x), options[q], x)
          /\ route' = [route EXCEPT ![q] = x]
    /\ switches' = [switches EXCEPT ![q] = 0]
    /\ tier' = [tier EXCEPT ![q] = 1]
    /\ options' = [options EXCEPT ![q] = {}]
    /\ UNCHANGED <<passing, candidates, tried, unread, history>>

\* Second half, and what NextChannel and the loop set: a route of that channel.
RescueRoute(q) ==
    /\ Goes(q, "route", "built")
    /\ \E x \in options[q] :
          /\ NextRescueRoute(ModelOf[q], ChannelOf(x), options[q], x)
          /\ route' = [route EXCEPT ![q] = x]
    /\ switches' = [switches EXCEPT ![q] = @ + 1]
    /\ tier' = [tier EXCEPT ![q] = 1]
    /\ options' = [options EXCEPT ![q] = {}]
    /\ UNCHANGED <<passing, candidates, tried, unread, history>>

------------------------------------------------------------------------------
RequestStep(q) ==
    \/ SelectCandidates(q) \/ NoCandidates(q)
    \/ TransformRequest(q) \/ ForcedKeyGone(q) \/ AttemptEnds(q) \/ StopRetrying(q)
    \/ NextChannel(q)
    \/ ReadAvailability(q) \/ NextTier(q) \/ BestEffort(q) \/ Collected(q)
    \/ RescueChannel(q) \/ RescueRoute(q)

Next ==
    \/ \E x \in Route : TestPasses(x) \/ TestFails(x)
    \/ \E q \in Request : RequestStep(q)

Spec == Init /\ [][Next]_vars

\* The loop is the code's own; an attempt ends at the configured timeouts.
FairSpec == Spec /\ \A q \in Request : WF_vars(RequestStep(q))

------------------------------------------------------------------------------
TypeOK ==
    /\ RingsTypeOK
    /\ passing \subseteq Route
    /\ pc \in [Request -> {"new"} \cup Running \cup Ended]
    /\ candidates \in [Request -> SUBSET Channel]
    /\ route \in [Request -> Route \cup {<<>>}]
    /\ tried \in [Request -> SUBSET Route]
    /\ switches \in [Request -> 0 .. MaxSwitches]
    /\ tier \in [Request -> 1 .. 3]
    /\ unread \in [Request -> SUBSET Route]
    /\ options \in [Request -> SUBSET Route]
    /\ steady \in [Request -> SUBSET Route]
    /\ ever \in [Request -> SUBSET Route]

JustRescued(q) == pc[q] = "built" /\ switches[q] > 0

(* NextChannel's promise, although verdicts change while it looks: if some *)
(* candidate route passed all along, the rescue goes to a route that       *)
(* passed at some moment of the choice ...                                 *)
RescueHonoursPass ==
    \A q \in Request :
        JustRescued(q) /\ steady[q] \cap RoutesOf(q) # {} => route[q] \in ever[q]

(* ... to one that was not tried yet, if one of those passed all along ... *)
NoRepeatBesideFreshPass ==
    \A q \in Request :
        JustRescued(q) /\ (steady[q] \cap RoutesOf(q)) \ tried[q] # {}
            => route[q] \notin tried[q]

(* ... and a route is repeated only because it passed, or because there is *)
(* nothing left to try.                                                    *)
RepeatHasReason ==
    \A q \in Request :
        JustRescued(q) /\ route[q] \in tried[q]
            => route[q] \in ever[q] \/ RoutesOf(q) \subseteq tried[q]

(* A request never leaves its own candidates, whatever the shared rings    *)
(* and the other requests do.                                              *)
StaysWithCandidates ==
    \A q \in Request : pc[q] \in Running => route[q] \in RoutesOf(q)

(* A request that started comes to an end: no rescue goes on for ever.     *)
EveryRequestEnds ==
    \A q \in Request : pc[q] # "new" ~> pc[q] \in Ended
==============================================================================
