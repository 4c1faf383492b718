--------------------------- MODULE ChannelLimiter ----------------------------
(***************************************************************************)
(* internal/server/orchestrator/channel_limiter.go: the hard blocking      *)
(* semaphore in front of one upstream channel.  Each request r is a        *)
(* goroutine.  Everything the code does under l.mu is one step; what       *)
(* happens outside the mutex (the select of Acquire, the two contexts, the *)
(* unlock before the hand-back) are steps of their own, so the grant of a  *)
(* slot can meet a timeout or a cancellation in every order.               *)
(***************************************************************************)
EXTENDS Integers, Sequences, SequencesExt, FiniteSets

CONSTANTS
    Req,         \* the goroutines that call Acquire on this limiter
    Capacity,    \* l.capacity
    QueueSize,   \* l.queueSize; 0 is the unbounded queue
    HasTimeout   \* l.timeout > 0

\* "Caller must ensure capacity > 0"; the manager builds no other limiter.
ASSUME LimiterAssumption ==
    /\ IsFiniteSet(Req)
    /\ Capacity \in Nat \ {0}
    /\ QueueSize \in Nat
    /\ HasTimeout \in BOOLEAN

VARIABLES
    inFlight,    \* l.inFlight
    waiters,     \* l.waiters: the requests whose slotReq is in the FIFO list
    closed,      \* requests whose slotReq.ch was closed and not yet received from
    pc,          \* where each request is, see Stages
    ctxDone,     \* requests whose caller's context is done
    waitErr      \* waitCtx.Err() of a waiting request: the first cause sticks

vars == <<inFlight, waiters, closed, pc, ctxDone, waitErr>>

\* idle: has not called Acquire; waiting: in its select; handback: took the
\* Done branch but was granted, about to call Release; failing: about to
\* compute the error it returns; holding: Acquire returned nil; the other
\* three: Acquire returned that error.
Stages == {"idle", "waiting", "handback", "failing", "holding",
           "queueFull", "queueTimeout", "ctxError"}

Failed == {"queueFull", "queueTimeout", "ctxError"}

\* The requests a slot is accounted to: told so, or granted and not aware of it.
Owners == closed \cup {r \in Req : pc[r] \in {"holding", "handback"}}

Init ==
    /\ inFlight = 0
    /\ waiters = <<>>
    /\ closed = {}
    /\ pc = [r \in Req |-> "idle"]
    /\ ctxDone = {}
    /\ waitErr = [r \in Req |-> "none"]

------------------------------------------------------------------------------
(* Acquire, entry: one critical section with three outcomes.               *)

AcquireFast(r) ==
    /\ pc[r] = "idle"
    /\ inFlight < Capacity
    /\ inFlight' = inFlight + 1
    /\ pc' = [pc EXCEPT ![r] = "holding"]
    /\ UNCHANGED <<waiters, closed, ctxDone, waitErr>>

\* Bug: ">" for ">=".
QueueIsFull_OffByOne == QueueSize > 0 /\ Len(waiters) > QueueSize

QueueIsFull == QueueSize > 0 /\ Len(waiters) >= QueueSize

AcquireRejected(r) ==
    /\ pc[r] = "idle"
    /\ inFlight >= Capacity
    /\ QueueIsFull
    /\ pc' = [pc EXCEPT ![r] = "queueFull"]
    /\ UNCHANGED <<inFlight, waiters, closed, ctxDone, waitErr>>

\* A context that is already done makes waitCtx done from the start.
AcquireQueued(r) ==
    /\ pc[r] = "idle"
    /\ inFlight >= Capacity
    /\ ~ QueueIsFull
    /\ waiters' = Append(waiters, r)
    /\ pc' = [pc EXCEPT ![r] = "waiting"]
    /\ waitErr' = [waitErr EXCEPT ![r] = IF r \in ctxDone THEN "cancelled" ELSE "none"]
    /\ UNCHANGED <<inFlight, closed, ctxDone>>

------------------------------------------------------------------------------
(* The two contexts a waiter listens to.                                   *)

QueueTimer(r) ==
    /\ HasTimeout
    /\ pc[r] = "waiting"
    /\ waitErr[r] = "none"
    /\ waitErr' = [waitErr EXCEPT ![r] = "timeout"]
    /\ UNCHANGED <<inFlight, waiters, closed, pc, ctxDone>>

CallerCancels(r) ==
    /\ r \notin ctxDone
    /\ ctxDone' = ctxDone \cup {r}
    /\ waitErr' = [waitErr EXCEPT ![r] =
                     IF pc[r] = "waiting" /\ @ = "none" THEN "cancelled" ELSE @]
    /\ UNCHANGED <<inFlight, waiters, closed, pc>>

------------------------------------------------------------------------------
(* Acquire, the select: a closed ch and a done waitCtx may both be ready.  *)

ReceiveGrant(r) ==
    /\ pc[r] = "waiting"
    /\ r \in closed
    /\ closed' = closed \ {r}
    /\ pc' = [pc EXCEPT ![r] = "holding"]
    /\ UNCHANGED <<inFlight, waiters, ctxDone, waitErr>>

\* Bug: a waiter that was granted as it gave up keeps quiet about the slot.
GiveUpAfterGrant_NoHandBack(r) ==
    /\ pc[r] = "waiting"
    /\ waitErr[r] # "none"
    /\ r \in closed
    /\ closed' = closed \ {r}
    /\ pc' = [pc EXCEPT ![r] = "failing"]
    /\ UNCHANGED <<inFlight, waiters, ctxDone, waitErr>>

GiveUpAfterGrant(r) ==
    /\ pc[r] = "waiting"
    /\ waitErr[r] # "none"
    /\ r \in closed
    /\ closed' = closed \ {r}
    /\ pc' = [pc EXCEPT ![r] = "handback"]
    /\ UNCHANGED <<inFlight, waiters, ctxDone, waitErr>>

\* Bug: the select listens to ctx instead of waitCtx.
GiveUpInQueue_DeafToTimer(r) ==
    /\ pc[r] = "waiting"
    /\ r \in ctxDone
    /\ r \notin closed
    /\ \E i \in DOMAIN waiters :
          /\ waiters[i] = r
          /\ waiters' = RemoveAt(waiters, i)
    /\ pc' = [pc EXCEPT ![r] = "failing"]
    /\ UNCHANGED <<inFlight, closed, ctxDone, waitErr>>

GiveUpInQueue(r) ==
    /\ pc[r] = "waiting"
    /\ waitErr[r] # "none"
    /\ r \notin closed
    /\ \E i \in DOMAIN waiters :
          /\ waiters[i] = r
          /\ waiters' = RemoveAt(waiters, i)
    /\ pc' = [pc EXCEPT ![r] = "failing"]
    /\ UNCHANGED <<inFlight, closed, ctxDone, waitErr>>

\* The error of a waiter that gave up; "holding" is what a nil error means.
WaitError(r) ==
    CASE HasTimeout /\ waitErr[r] = "timeout" /\ r \notin ctxDone -> "queueTimeout"
      [] r \in ctxDone -> "ctxError"
      [] OTHER -> "holding"

ReturnError(r) ==
    /\ pc[r] = "failing"
    /\ pc' = [pc EXCEPT ![r] = WaitError(r)]
    /\ UNCHANGED <<inFlight, waiters, closed, ctxDone, waitErr>>

------------------------------------------------------------------------------
(* Release, called by an owner or by a waiter that was granted too late.   *)

\* Bug: the counter goes down and nobody is woken.
ReleaseSlot_WakesNobody ==
    /\ inFlight' = IF inFlight > 0 THEN inFlight - 1 ELSE inFlight
    /\ UNCHANGED <<waiters, closed>>

ReleaseSlot ==
    IF waiters # <<>>
    THEN /\ closed' = closed \cup {Head(waiters)}
         /\ waiters' = Tail(waiters)
         /\ UNCHANGED inFlight
    ELSE /\ inFlight' = IF inFlight > 0 THEN inFlight - 1 ELSE inFlight
         /\ UNCHANGED <<waiters, closed>>

HandBack(r) ==
    /\ pc[r] = "handback"
    /\ ReleaseSlot
    /\ pc' = [pc EXCEPT ![r] = "failing"]
    /\ UNCHANGED <<ctxDone, waitErr>>

\* The owner finishes; its goroutine may later carry a new request.
Release(r) ==
    /\ pc[r] = "holding"
    /\ ReleaseSlot
    /\ pc' = [pc EXCEPT ![r] = "idle"]
    /\ ctxDone' = ctxDone \ {r}
    /\ waitErr' = [waitErr EXCEPT ![r] = "none"]

\* A request that was turned away is over; a new one may come.
Finish(r) ==
    /\ pc[r] \in Failed
    /\ pc' = [pc EXCEPT ![r] = "idle"]
    /\ ctxDone' = ctxDone \ {r}
    /\ waitErr' = [waitErr EXCEPT ![r] = "none"]
    /\ UNCHANGED <<inFlight, waiters, closed>>

------------------------------------------------------------------------------
\* What the goroutine of r does by itself once it is inside Acquire.
AcquireStep(r) ==
    \/ ReceiveGrant(r)
    \/ GiveUpAfterGrant(r)
    \/ GiveUpInQueue(r)
    \/ HandBack(r)
    \/ ReturnError(r)

Next ==
    \E r \in Req :
        \/ AcquireFast(r)
        \/ AcquireRejected(r)
        \/ AcquireQueued(r)
        \/ QueueTimer(r)
        \/ CallerCancels(r)
        \/ AcquireStep(r)
        \/ Release(r)
        \/ Finish(r)

Spec == Init /\ [][Next]_vars

\* Go runs every goroutine that can run: nobody stays inside Acquire while a
\* branch of its select is ready.  Nothing is assumed of the owners.
SchedulerSpec == Spec /\ \A r \in Req : WF_vars(AcquireStep(r))

\* What the middleware does when nothing goes wrong: it releases each slot, when
\* the response is there, on the raw error, or when the stream is closed.
OwnersRelease == \A r \in Req : WF_vars(Release(r))

------------------------------------------------------------------------------
(* Type invariant.                                                         *)
TypeOK ==
    /\ inFlight \in Nat
    /\ waiters \in Seq(Req)
    /\ closed \in SUBSET Req
    /\ pc \in [Req -> Stages]
    /\ ctxDone \in SUBSET Req
    /\ waitErr \in [Req -> {"none", "timeout", "cancelled"}]

(* The counter is exact: inFlight counts the requests that own a slot,     *)
(* including those granted by Release that have not noticed yet and those  *)
(* that lost the race with their timeout and still have to hand back.  No  *)
(* nil error without a slot, no slot forgotten by a timeout.               *)
SlotAccounting == inFlight = Cardinality(Owners)

(* "The in-flight counter never exceeds capacity, so the cap is strict":   *)
(* stated of the requests themselves, not of the counter.                  *)
StrictCap == Cardinality(Owners) <= Capacity

(* No lost wake-up: a request waits only while every slot is taken.        *)
NoIdleSlot == waiters # <<>> => Cardinality(Owners) = Capacity

(* The list and the waiting goroutines agree: whoever is in its select is  *)
(* either in the list, once, or has been granted, never both or neither.   *)
QueueAccounting ==
    /\ IsInjective(waiters)
    /\ closed \cap Range(waiters) = {}
    /\ closed \cup Range(waiters) = {r \in Req : pc[r] = "waiting"}

(* An error means there really was a cause for it: a timeout is reported   *)
(* only when one fired and the caller was still there to be told.          *)
HonestErrors ==
    \A r \in Req :
        /\ pc[r] = "queueTimeout" => HasTimeout /\ waitErr[r] = "timeout"
        /\ pc[r] = "ctxError" => r \in ctxDone
        /\ pc[r] \in {"failing", "handback"} => waitErr[r] # "none"
        /\ waitErr[r] = "cancelled" => r \in ctxDone
        /\ waitErr[r] = "timeout" => HasTimeout

(* Strict first come first served: nobody gets a slot while another        *)
(* request has been waiting longer, neither a newcomer nor a later waiter. *)
NoOvertaking ==
    [][ \A r \in Owners' \ Owners :
            waiters # <<>> => r = Head(waiters) ]_vars

(* Admission is what FifoSemaphore promises.                               *)
Semaphore == INSTANCE FifoSemaphore WITH owners <- Owners, queue <- waiters

ImplementsSemaphore == Semaphore!Spec

(* Every waiter gets an answer, provided the owners release.               *)
EveryWaiterAnswered ==
    OwnersRelease =>
        \A r \in Req : pc[r] = "waiting" ~> pc[r] \in Failed \cup {"holding"}

(* A waiter whose caller has gone, or whose timer fired, leaves Acquire    *)
(* even when no owner ever releases a slot.                                *)
NoWaiterTrapped ==
    \A r \in Req :
        (pc[r] = "waiting" /\ waitErr[r] # "none")
            ~> pc[r] \in Failed \cup {"holding"}
==============================================================================
