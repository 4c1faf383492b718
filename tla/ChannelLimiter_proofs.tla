------------------------ MODULE ChannelLimiter_proofs ------------------------
(***************************************************************************)
(* Proofs about ChannelLimiter for every number of requests, capacity and  *)
(* queue size: the slot counter is exact, the cap is strict, nobody waits  *)
(* while a slot is free, and the limiter implements FifoSemaphore.         *)
(***************************************************************************)
EXTENDS ChannelLimiter, DataFacts, FiniteSetTheorems

(* The inductive invariant.  inFlight is compared with the capacity, which *)
(* is what the code's guards read, and with the owners, which is what the  *)
(* properties speak of; the queue and the waiting goroutines must agree    *)
(* for a hand-over to reach somebody who is still listening.               *)
IInv ==
    /\ TypeOK
    /\ SlotAccounting
    /\ inFlight <= Capacity
    /\ waiters # <<>> => inFlight = Capacity
    /\ QueueAccounting
    /\ HonestErrors

------------------------------------------------------------------------------
(* Owners is a finite set, so that its cardinality can be reasoned about.  *)
LEMMA OwnersFinite ==
    TypeOK => Owners \in SUBSET Req /\ IsFiniteSet(Owners)
<1> SUFFICES ASSUME TypeOK
             PROVE  Owners \in SUBSET Req /\ IsFiniteSet(Owners)
  OBVIOUS
<1>1. Owners \in SUBSET Req
  BY DEF TypeOK, Owners
<1> QED BY <1>1, FS_Subset, LimiterAssumption

LEMMA InitInvariant == Init => IInv
<1> SUFFICES ASSUME Init PROVE IInv
  OBVIOUS
<1>1. TypeOK
  BY DEF Init, TypeOK, Stages
<1>2. Owners = {}
  BY DEF Init, Owners
<1>3. SlotAccounting
  BY <1>2, FS_EmptySet DEF Init, SlotAccounting
<1>4. QueueAccounting
  BY DEF Init, QueueAccounting, IsInjective, Range
<1>5. HonestErrors
  BY DEF Init, HonestErrors
<1> QED BY <1>1, <1>3, <1>4, <1>5, LimiterAssumption DEF Init, IInv

(* What Release does to the owners: the leaving request is replaced by the *)
(* head of the queue, or by nobody when the queue is empty.                *)
LEMMA ReleaseHandsOver ==
    ASSUME IInv, NEW r \in Req, pc[r] \in {"holding", "handback"}, ReleaseSlot,
           NEW stage \in Stages \ {"waiting", "holding", "handback"},
           pc' = [pc EXCEPT ![r] = stage]
    PROVE  /\ Owners' = IF waiters = <<>> THEN Owners \ {r}
                        ELSE (Owners \ {r}) \cup {Head(waiters)}
           /\ inFlight' = IF waiters = <<>> THEN inFlight - 1 ELSE inFlight
           /\ waiters' = IF waiters = <<>> THEN waiters ELSE Tail(waiters)
           /\ inFlight' \in Nat /\ waiters' \in Seq(Req) /\ closed' \in SUBSET Req
           /\ pc' \in [Req -> Stages]
           /\ SlotAccounting'
           /\ QueueAccounting'
           /\ inFlight' <= Capacity
           /\ waiters' # <<>> => inFlight' = Capacity
<1> USE DEF IInv
<1>1. TypeOK /\ QueueAccounting /\ SlotAccounting
  OBVIOUS
<1>2. pc' \in [Req -> Stages] /\ pc'[r] = stage /\ \A q \in Req \ {r} : pc'[q] = pc[q]
  BY DEF TypeOK
<1>3. r \in Owners /\ r \notin closed
  BY DEF Owners, QueueAccounting
<1>4. Owners \in SUBSET Req /\ IsFiniteSet(Owners) /\ inFlight = Cardinality(Owners)
  BY OwnersFinite DEF SlotAccounting
<1>5. {q \in Req : pc'[q] \in {"holding", "handback"}}
        = {q \in Req : pc[q] \in {"holding", "handback"}} \ {r}
  BY <1>2
<1>6. {q \in Req : pc'[q] = "waiting"} = {q \in Req : pc[q] = "waiting"}
  BY <1>2
<1>7. CASE waiters = <<>>
  <2>1. Owners' = Owners \ {r}
    BY <1>3, <1>5, <1>7 DEF Owners, ReleaseSlot
  <2>2. inFlight # 0
    BY <1>3, <1>4, FS_EmptySet
  <2>3. inFlight' = inFlight - 1 /\ inFlight' \in Nat /\ waiters' = waiters /\ closed' = closed
    BY <1>7, <2>2 DEF ReleaseSlot, TypeOK
  <2>4. SlotAccounting'
    <3>1. Cardinality(Owners \ {r}) = Cardinality(Owners) - 1
      BY <1>3, <1>4, FS_RemoveElement
    <3> QED BY <1>4, <2>1, <2>3, <3>1 DEF SlotAccounting
  <2>5. QueueAccounting'
    BY <1>6, <2>3 DEF QueueAccounting
  <2>6. inFlight' <= Capacity
    BY <2>3, LimiterAssumption DEF TypeOK
  <2> QED BY <1>2, <1>7, <2>1, <2>3, <2>4, <2>5, <2>6 DEF TypeOK
<1>8. CASE waiters # <<>>
  <2> DEFINE h == Head(waiters)
  <2>1. /\ waiters' = Tail(waiters) /\ closed' = closed \cup {h} /\ inFlight' = inFlight
    BY <1>8 DEF ReleaseSlot
  <2>2. /\ Tail(waiters) \in Seq(Req)
        /\ h \in Range(waiters)
        /\ Range(Tail(waiters)) = Range(waiters) \ {h}
        /\ IsInjective(Tail(waiters))
    BY <1>1, <1>8, TailFacts DEF TypeOK, QueueAccounting
  <2>3. h \in Req /\ pc[h] = "waiting" /\ h \notin closed
    BY <1>1, <2>2 DEF QueueAccounting
  <2>4. h \notin Owners /\ h # r
    BY <1>3, <2>3 DEF Owners
  <2>5. Owners' = (Owners \ {r}) \cup {h}
    BY <1>3, <1>5, <2>1, <2>4 DEF Owners
  <2>6. Cardinality(Owners') = Cardinality(Owners)
    <3>1. IsFiniteSet(Owners \ {r}) /\ Cardinality(Owners \ {r}) = Cardinality(Owners) - 1
      BY <1>3, <1>4, FS_RemoveElement
    <3>2. Cardinality((Owners \ {r}) \cup {h}) = Cardinality(Owners \ {r}) + 1
      BY <2>4, <3>1, FS_AddElement
    <3> QED BY <1>4, <2>5, <3>1, <3>2 DEF TypeOK
  <2>7. SlotAccounting'
    BY <1>4, <2>1, <2>6 DEF SlotAccounting
  <2>8. QueueAccounting'
    BY <1>1, <1>6, <2>1, <2>2, <2>3 DEF QueueAccounting
  <2>9. closed' \in SUBSET Req
    BY <2>1, <2>3 DEF TypeOK
  <2> QED BY <1>2, <1>8, <2>1, <2>2, <2>5, <2>7, <2>8, <2>9 DEF TypeOK
<1> QED BY <1>7, <1>8

(* A waiter that gave up always has an error to return.                    *)
LEMMA GivenUpMeansError ==
    ASSUME IInv, NEW r \in Req, pc[r] = "failing"
    PROVE  WaitError(r) \in {"queueTimeout", "ctxError"}
<1>1. waitErr[r] \in {"timeout", "cancelled"}
  BY DEF IInv, TypeOK, HonestErrors
<1>2. /\ waitErr[r] = "cancelled" => r \in ctxDone
      /\ waitErr[r] = "timeout" => HasTimeout
  BY DEF IInv, HonestErrors
<1> QED BY <1>1, <1>2 DEF WaitError

------------------------------------------------------------------------------
(* Each action preserves the inductive invariant.                          *)

LEMMA StepInvariant == IInv /\ [Next]_vars => IInv'
<1> SUFFICES ASSUME IInv, [Next]_vars
             PROVE  IInv'
  OBVIOUS
<1> USE DEF IInv
<1>0. TypeOK /\ SlotAccounting /\ QueueAccounting /\ HonestErrors
  OBVIOUS
<1>1. CASE UNCHANGED vars
  BY <1>1 DEF vars, TypeOK, SlotAccounting, Owners, QueueAccounting, HonestErrors
<1>2. ASSUME NEW r \in Req, AcquireFast(r)
      PROVE  IInv'
  <2>1. TypeOK'
    BY <1>2 DEF AcquireFast, TypeOK, Stages
  <2>2. SlotAccounting'
    <3>1. r \notin Owners /\ Owners' = Owners \cup {r}
      BY <1>2 DEF AcquireFast, TypeOK, Owners, QueueAccounting
    <3>2. Cardinality(Owners \cup {r}) = Cardinality(Owners) + 1
      BY <3>1, OwnersFinite, FS_AddElement
    <3> QED BY <1>2, <3>1, <3>2 DEF AcquireFast, SlotAccounting
  <2>3. inFlight' <= Capacity /\ waiters' = <<>>
    BY <1>2, LimiterAssumption DEF AcquireFast, TypeOK
  <2>4. QueueAccounting'
    BY <1>2 DEF AcquireFast, TypeOK, QueueAccounting
  <2>5. HonestErrors'
    BY <1>2 DEF AcquireFast, TypeOK, HonestErrors
  <2> QED BY <2>1, <2>2, <2>3, <2>4, <2>5
<1>3. ASSUME NEW r \in Req, AcquireRejected(r)
      PROVE  IInv'
  BY <1>3 DEF AcquireRejected, TypeOK, Stages, SlotAccounting, Owners,
              QueueAccounting, HonestErrors
<1>4. ASSUME NEW r \in Req, AcquireQueued(r)
      PROVE  IInv'
  <2>1. r \notin Range(waiters) /\ r \notin closed
    BY <1>4 DEF AcquireQueued, QueueAccounting
  <2>2. /\ Append(waiters, r) \in Seq(Req)
        /\ Range(Append(waiters, r)) = Range(waiters) \cup {r}
        /\ IsInjective(Append(waiters, r))
    BY <2>1, AppendFacts DEF TypeOK, QueueAccounting
  <2>3. TypeOK'
    BY <1>4, <2>2 DEF AcquireQueued, TypeOK, Stages
  <2>4. SlotAccounting'
    <3>1. Owners' = Owners
      BY <1>4 DEF AcquireQueued, TypeOK, Owners
    <3> QED BY <1>4, <3>1 DEF AcquireQueued, SlotAccounting
  <2>5. inFlight' = Capacity
    BY <1>4, LimiterAssumption DEF AcquireQueued, TypeOK
  <2>6. QueueAccounting'
    <3>1. {q \in Req : pc'[q] = "waiting"} = {q \in Req : pc[q] = "waiting"} \cup {r}
      BY <1>4 DEF AcquireQueued, TypeOK
    <3> QED BY <1>4, <2>1, <2>2, <3>1 DEF AcquireQueued, QueueAccounting
  <2>7. HonestErrors'
    BY <1>4 DEF AcquireQueued, TypeOK, HonestErrors
  <2> QED BY <2>3, <2>4, <2>5, <2>6, <2>7, LimiterAssumption
<1>5. ASSUME NEW r \in Req, QueueTimer(r)
      PROVE  IInv'
  BY <1>5 DEF QueueTimer, TypeOK, SlotAccounting, Owners, QueueAccounting, HonestErrors
<1>6. ASSUME NEW r \in Req, CallerCancels(r)
      PROVE  IInv'
  BY <1>6 DEF CallerCancels, TypeOK, SlotAccounting, Owners, QueueAccounting, HonestErrors
<1>7. ASSUME NEW r \in Req, ReceiveGrant(r) \/ GiveUpAfterGrant(r)
      PROVE  IInv'
  <2>1. TypeOK' /\ HonestErrors'
    BY <1>7 DEF ReceiveGrant, GiveUpAfterGrant, TypeOK, Stages, HonestErrors
  <2>2. Owners' = Owners
    BY <1>7 DEF ReceiveGrant, GiveUpAfterGrant, TypeOK, Owners
  <2>3. QueueAccounting'
    <3>1. {q \in Req : pc'[q] = "waiting"} = {q \in Req : pc[q] = "waiting"} \ {r}
      BY <1>7 DEF ReceiveGrant, GiveUpAfterGrant, TypeOK
    <3> QED BY <1>7, <3>1 DEF ReceiveGrant, GiveUpAfterGrant, QueueAccounting
  <2>4. inFlight' = inFlight /\ waiters' = waiters
    BY <1>7 DEF ReceiveGrant, GiveUpAfterGrant
  <2> QED BY <2>1, <2>2, <2>3, <2>4 DEF SlotAccounting
<1>8. ASSUME NEW r \in Req, GiveUpInQueue(r)
      PROVE  IInv'
  <2>1. PICK i \in DOMAIN waiters : waiters[i] = r /\ waiters' = RemoveAt(waiters, i)
    BY <1>8 DEF GiveUpInQueue
  <2>2. /\ waiters' \in Seq(Req)
        /\ Range(waiters') = Range(waiters) \ {r}
        /\ IsInjective(waiters')
    BY <2>1, RemoveAtFacts DEF TypeOK, QueueAccounting
  <2>3. waiters # <<>>
    BY <2>1
  <2>4. TypeOK' /\ HonestErrors'
    BY <1>8, <2>2 DEF GiveUpInQueue, TypeOK, Stages, HonestErrors
  <2>5. Owners' = Owners
    BY <1>8 DEF GiveUpInQueue, TypeOK, Owners
  <2>6. QueueAccounting'
    <3>1. {q \in Req : pc'[q] = "waiting"} = {q \in Req : pc[q] = "waiting"} \ {r}
      BY <1>8 DEF GiveUpInQueue, TypeOK
    <3> QED BY <1>8, <2>2, <3>1 DEF GiveUpInQueue, QueueAccounting
  <2>7. inFlight' = Capacity /\ inFlight' = inFlight
    BY <1>8, <2>3 DEF GiveUpInQueue
  <2> QED BY <2>4, <2>5, <2>6, <2>7, LimiterAssumption DEF SlotAccounting
<1>9. ASSUME NEW r \in Req, ReturnError(r)
      PROVE  IInv'
  <2>1. /\ pc' = [pc EXCEPT ![r] = WaitError(r)]
        /\ WaitError(r) \in {"queueTimeout", "ctxError"}
        /\ pc[r] = "failing"
    BY <1>9, GivenUpMeansError DEF ReturnError
  <2>2. TypeOK'
    BY <1>9, <2>1 DEF ReturnError, TypeOK, Stages
  <2>3. Owners' = Owners
    BY <1>9, <2>1 DEF ReturnError, TypeOK, Owners
  <2>4. QueueAccounting'
    BY <1>9, <2>1 DEF ReturnError, TypeOK, QueueAccounting
  <2>5. HonestErrors'
    <3>1. /\ WaitError(r) = "queueTimeout" => HasTimeout /\ waitErr[r] = "timeout"
          /\ WaitError(r) = "ctxError" => r \in ctxDone
      BY DEF WaitError
    <3> QED BY <1>9, <2>1, <3>1 DEF ReturnError, TypeOK, HonestErrors
  <2> QED BY <1>9, <2>2, <2>3, <2>4, <2>5 DEF ReturnError, SlotAccounting
<1>10. ASSUME NEW r \in Req, HandBack(r)
       PROVE  IInv'
  <2>1. pc[r] = "handback" /\ ReleaseSlot /\ pc' = [pc EXCEPT ![r] = "failing"]
    BY <1>10 DEF HandBack
  <2>2. /\ inFlight' \in Nat /\ waiters' \in Seq(Req) /\ closed' \in SUBSET Req
        /\ pc' \in [Req -> Stages] /\ SlotAccounting' /\ QueueAccounting'
        /\ inFlight' <= Capacity
        /\ waiters' # <<>> => inFlight' = Capacity
    BY <2>1, ReleaseHandsOver DEF Stages
  <2>3. TypeOK'
    BY <1>10, <2>2 DEF HandBack, TypeOK
  <2>4. HonestErrors'
    BY <1>10, <2>1 DEF HandBack, TypeOK, HonestErrors
  <2> QED BY <2>2, <2>3, <2>4
<1>11. ASSUME NEW r \in Req, Release(r)
       PROVE  IInv'
  <2>1. pc[r] = "holding" /\ ReleaseSlot /\ pc' = [pc EXCEPT ![r] = "idle"]
    BY <1>11 DEF Release
  <2>2. /\ inFlight' \in Nat /\ waiters' \in Seq(Req) /\ closed' \in SUBSET Req
        /\ pc' \in [Req -> Stages] /\ SlotAccounting' /\ QueueAccounting'
        /\ inFlight' <= Capacity
        /\ waiters' # <<>> => inFlight' = Capacity
    BY <2>1, ReleaseHandsOver DEF Stages
  <2>3. TypeOK'
    BY <1>11, <2>2 DEF Release, TypeOK
  <2>4. HonestErrors'
    BY <1>11, <2>1 DEF Release, TypeOK, HonestErrors
  <2> QED BY <2>2, <2>3, <2>4
<1>12. ASSUME NEW r \in Req, Finish(r)
       PROVE  IInv'
  <2>1. pc[r] \in {"queueFull", "queueTimeout", "ctxError"} /\ pc' = [pc EXCEPT ![r] = "idle"]
    BY <1>12 DEF Finish, Failed
  <2>2. TypeOK' /\ HonestErrors'
    BY <1>12, <2>1 DEF Finish, TypeOK, Stages, HonestErrors
  <2>3. Owners' = Owners /\ QueueAccounting'
    BY <1>12, <2>1 DEF Finish, TypeOK, Owners, QueueAccounting
  <2> QED BY <1>12, <2>2, <2>3 DEF Finish, SlotAccounting
<1> QED
  BY <1>1, <1>2, <1>3, <1>4, <1>5, <1>6, <1>7, <1>8, <1>9, <1>10, <1>11, <1>12
  DEF Next, AcquireStep

(* The invariant holds in every reachable state.                           *)
THEOREM InductiveInvariant == Spec => []IInv
<1> QED BY InitInvariant, StepInvariant, PTL DEF Spec

(* Every variable of the limiter keeps its type.                           *)
THEOREM TypeCorrect == Spec => []TypeOK
<1>1. IInv => TypeOK
  BY DEF IInv
<1> QED BY <1>1, InductiveInvariant, PTL

(* inFlight is the number of requests that own a slot, whatever the order  *)
(* in which grants, timeouts and cancellations meet: no slot is lost and   *)
(* none is invented, for any number of requests.                           *)
THEOREM SlotsAccountedFor == Spec => []SlotAccounting
<1>1. IInv => SlotAccounting
  BY DEF IInv
<1> QED BY <1>1, InductiveInvariant, PTL

(* Never more owners than the capacity.                                    *)
THEOREM CapIsStrict == Spec => []StrictCap
<1>1. IInv => StrictCap
  BY DEF IInv, SlotAccounting, StrictCap
<1> QED BY <1>1, InductiveInvariant, PTL

(* A request waits only while every slot is taken: no wake-up is lost.     *)
THEOREM NoLostWakeUp == Spec => []NoIdleSlot
<1>1. IInv => NoIdleSlot
  BY DEF IInv, SlotAccounting, NoIdleSlot
<1> QED BY <1>1, InductiveInvariant, PTL

------------------------------------------------------------------------------
(* Refinement: each step of the limiter is a step of FifoSemaphore or a    *)
(* stutter of it.  Granting is the abstract step; noticing the grant, or   *)
(* refusing it, is not.                                                    *)

LEMMA HandOverIsLeave ==
    ASSUME IInv, NEW r \in Req, pc[r] \in {"holding", "handback"}, ReleaseSlot,
           NEW stage \in Stages \ {"waiting", "holding", "handback"},
           pc' = [pc EXCEPT ![r] = stage]
    PROVE  Semaphore!Leave(r)
<1>1. r \in Owners
  BY DEF Owners
<1>2. /\ Owners' = IF waiters = <<>> THEN Owners \ {r}
                   ELSE (Owners \ {r}) \cup {Head(waiters)}
      /\ waiters' = IF waiters = <<>> THEN waiters ELSE Tail(waiters)
  BY ReleaseHandsOver
<1> QED BY <1>1, <1>2 DEF Semaphore!Leave

LEMMA StepRefines == IInv /\ [Next]_vars => [Semaphore!Next]_(Semaphore!vars)
<1> SUFFICES ASSUME IInv, [Next]_vars
             PROVE  [Semaphore!Next]_(Semaphore!vars)
  OBVIOUS
<1>0. /\ TypeOK /\ SlotAccounting /\ QueueAccounting
      /\ inFlight <= Capacity
      /\ waiters # <<>> => inFlight = Capacity
  BY DEF IInv
<1>1. CASE UNCHANGED vars
  BY <1>1 DEF vars, Owners, Semaphore!vars
<1>2. ASSUME NEW r \in Req, AcquireFast(r)
      PROVE  Semaphore!Next
  <2>1. r \notin Owners /\ Owners' = Owners \cup {r}
    BY <1>0, <1>2 DEF AcquireFast, TypeOK, Owners, QueueAccounting
  <2>2. r \notin Range(waiters) /\ waiters = <<>> /\ waiters' = waiters
    BY <1>0, <1>2, LimiterAssumption DEF AcquireFast, TypeOK, QueueAccounting
  <2>3. Cardinality(Owners) < Capacity
    BY <1>0, <1>2 DEF AcquireFast, SlotAccounting
  <2>4. Semaphore!Enter(r)
    BY <2>1, <2>2, <2>3
    DEF Semaphore!Enter, Semaphore!Present, Semaphore!Range, Range,
        Semaphore!Cardinality, Cardinality
  <2> QED BY <2>4 DEF Semaphore!Next
<1>3. ASSUME NEW r \in Req, AcquireQueued(r)
      PROVE  Semaphore!Next
  <2>1. r \notin Owners /\ r \notin Range(waiters)
    BY <1>0, <1>3 DEF AcquireQueued, Owners, QueueAccounting
  <2>2. Owners' = Owners
    BY <1>0, <1>3 DEF AcquireQueued, TypeOK, Owners
  <2>3. Cardinality(Owners) = Capacity
    BY <1>0, <1>3, LimiterAssumption DEF AcquireQueued, SlotAccounting, TypeOK
  <2>4. QueueSize > 0 => Len(waiters) < QueueSize
    <3>1. Len(waiters) \in Nat
      BY <1>0, LenProperties DEF TypeOK
    <3> QED BY <1>3, <3>1, LimiterAssumption DEF AcquireQueued, QueueIsFull
  <2>5. waiters' = Append(waiters, r)
    BY <1>3 DEF AcquireQueued
  <2>6. Semaphore!Join(r)
    BY <2>1, <2>2, <2>3, <2>4, <2>5
    DEF Semaphore!Join, Semaphore!Present, Semaphore!Range, Range,
        Semaphore!Cardinality, Cardinality
  <2> QED BY <2>6 DEF Semaphore!Next
<1>4. ASSUME NEW r \in Req, GiveUpInQueue(r)
      PROVE  Semaphore!Next
  <2>1. Owners' = Owners
    BY <1>0, <1>4 DEF GiveUpInQueue, TypeOK, Owners
  <2>2. Semaphore!Quit(r)
    BY <1>4, <2>1 DEF GiveUpInQueue, Semaphore!Quit, Semaphore!RemoveAt, RemoveAt
  <2> QED BY <2>2 DEF Semaphore!Next
<1>5. ASSUME NEW r \in Req, HandBack(r)
      PROVE  Semaphore!Next
  BY <1>5, HandOverIsLeave DEF HandBack, Stages, Semaphore!Next
<1>6. ASSUME NEW r \in Req, Release(r)
      PROVE  Semaphore!Next
  BY <1>6, HandOverIsLeave DEF Release, Stages, Semaphore!Next
<1>7. ASSUME NEW r \in Req, AcquireRejected(r) \/ QueueTimer(r) \/ CallerCancels(r)
      PROVE  UNCHANGED Semaphore!vars
  BY <1>0, <1>7 DEF AcquireRejected, QueueTimer, CallerCancels, TypeOK, Owners,
                    Semaphore!vars
<1>8. ASSUME NEW r \in Req, ReceiveGrant(r) \/ GiveUpAfterGrant(r)
      PROVE  UNCHANGED Semaphore!vars
  BY <1>0, <1>8 DEF ReceiveGrant, GiveUpAfterGrant, TypeOK, Owners, Semaphore!vars
<1>9. ASSUME NEW r \in Req, ReturnError(r)
      PROVE  UNCHANGED Semaphore!vars
  <2>1. /\ pc' = [pc EXCEPT ![r] = WaitError(r)]
        /\ WaitError(r) \in {"queueTimeout", "ctxError"}
        /\ pc[r] = "failing"
    BY <1>9, GivenUpMeansError DEF ReturnError
  <2> QED BY <1>0, <1>9, <2>1 DEF ReturnError, TypeOK, Owners, Semaphore!vars
<1>10. ASSUME NEW r \in Req, Finish(r)
       PROVE  UNCHANGED Semaphore!vars
  BY <1>0, <1>10 DEF Finish, Failed, TypeOK, Owners, Semaphore!vars
<1> QED
  BY <1>1, <1>2, <1>3, <1>4, <1>5, <1>6, <1>7, <1>8, <1>9, <1>10
  DEF Next, AcquireStep

(* The limiter keeps every promise of FifoSemaphore: first come first      *)
(* served, a strict cap, no queue in front of a free slot.                 *)
THEOREM LimiterImplementsSemaphore == Spec => ImplementsSemaphore
<1>1. Init => Semaphore!Init
  BY DEF Init, Owners, Semaphore!Init
<1>2. IInv /\ [Next]_vars => [Semaphore!Next]_(Semaphore!vars)
  BY StepRefines
<1> QED
  BY <1>1, <1>2, InductiveInvariant, PTL
  DEF Spec, ImplementsSemaphore, Semaphore!Spec

(* Nobody gets a slot while another request has been waiting longer.       *)
THEOREM FirstComeFirstServed == Spec => NoOvertaking
<1>1. IInv /\ [Next]_vars =>
        [\A r \in Owners' \ Owners : waiters # <<>> => r = Head(waiters)]_vars
  <2> SUFFICES ASSUME IInv, [Semaphore!Next]_(Semaphore!vars),
                      NEW r \in Owners' \ Owners, waiters # <<>>
               PROVE  r = Head(waiters)
    BY StepRefines
  <2>1. PICK q \in Req : \/ Semaphore!Enter(q) \/ Semaphore!Join(q)
                         \/ Semaphore!Leave(q) \/ Semaphore!Quit(q)
    BY DEF Semaphore!Next, Semaphore!vars
  <2> QED BY <2>1 DEF Semaphore!Enter, Semaphore!Join, Semaphore!Leave, Semaphore!Quit
<1> QED BY <1>1, InductiveInvariant, PTL DEF Spec, NoOvertaking
==============================================================================
