----------------------- MODULE ChannelAdmission_proofs -----------------------
(***************************************************************************)
(* Proofs about ChannelAdmission for every number of requests, every set   *)
(* of configurations and any number of changes: slots are exact across the *)
(* generations of a channel's limiter, a waiter always has a holder to     *)
(* wake it, the first requests share one limiter, and the minute's budget  *)
(* is exact.                                                               *)
(***************************************************************************)
EXTENDS ChannelAdmission, DataFacts, FiniteSetTheorems

(* Only waiting requests are queued, once, and at the limiter they chose.  *)
Queues ==
    \A i \in DOMAIN limiters :
        /\ IsInjective(limiters[i].queue)
        /\ \A r \in Range(limiters[i].queue) : pc[r] = "queued" /\ lim[r] = i

(* The counters are what the hooks leave of them, within what the guards   *)
(* of Acquire read.                                                        *)
Counters ==
    \A i \in DOMAIN limiters :
        /\ limiters[i].inFlight = Cardinality(Holders(i))
        /\ limiters[i].inFlight <= limiters[i].cfg.capacity
        /\ limiters[i].queue # <<>> => limiters[i].inFlight = limiters[i].cfg.capacity

(* A held slot is a stored one, and its attempt is between admission and   *)
(* release.                                                                *)
HeldSlots ==
    \A r \in Requests :
        held[r] => /\ slot[r] # 0
                   /\ pc[r] \in {"rate", "dial", "open", "closed", "failing"}

(* An attempt asks a limiter with the limits of its snapshot, and nothing  *)
(* reaches the provider of a limited channel without that limiter's slot.  *)
Fitting ==
    \A r \in Requests :
        /\ pc[r] \in {"create", "acquire", "queued"} => snapshot[r].capacity > 0
        /\ pc[r] \in {"acquire", "queued"} =>
              /\ lim[r] # 0
              /\ limiters[lim[r]].cfg = extractLimiterConfig(snapshot[r])
        /\ pc[r] \in {"rate", "dial", "open"} /\ snapshot[r].capacity > 0 =>
              /\ held[r]
              /\ limiters[slot[r]].cfg = extractLimiterConfig(snapshot[r])
        /\ r \in connected => pc[r] = "open"

(* Before the first change everybody has the same snapshot, and the        *)
(* registry's limiter is the only one.                                     *)
Unchanged ==
    changes = 0 =>
        /\ cached = stored /\ ~forget
        /\ \A r \in Requests : pc[r] \notin {"new", "over"} => snapshot[r] = cached
        /\ entry = Len(limiters)
        /\ Len(limiters) <= 1
        /\ Len(limiters) = 1 =>
              /\ cached.capacity > 0
              /\ limiters[1].cfg = extractLimiterConfig(cached)

Budget == window.start <= minute /\ MinuteBudget

IInv ==
    TypeOK /\ Queues /\ Counters /\ HeldSlots /\ Fitting /\ Unchanged /\ Budget

-----------------------------------------------------------------------------
(* Facts about the state.                                                  *)

LEMMA HoldersFinite ==
    ASSUME NEW i
    PROVE  IsFiniteSet(Holders(i)) /\ Cardinality(Holders(i)) \in Nat
<1>1. Holders(i) \in SUBSET Requests
  BY DEF Holders
<1> QED BY <1>1, FS_Subset, FS_CardinalityType, AdmissionAssumption

(* What a member of Configs, or Deleted, says.                             *)
LEMMA ConfigFacts ==
    ASSUME NEW ch \in Configs \cup {Deleted}
    PROVE  /\ ch.capacity \in Nat /\ ch.queueSize \in Nat /\ ch.rpm \in Nat
           /\ ch.rpm > 0 => ch \in Configs
           /\ extractLimiterConfig(ch) \in [capacity : Nat, queueSize : Nat]
           /\ extractLimiterConfig(ch).capacity = ch.capacity
<1>1. ch.capacity \in Nat /\ ch.queueSize \in Nat /\ ch.rpm \in Nat
  BY AdmissionAssumption DEF Deleted
<1>2. ch.rpm > 0 => ch \in Configs
  BY AdmissionAssumption DEF Deleted
<1> QED BY <1>1, <1>2 DEF extractLimiterConfig

(* Limiter i is replaced by l.                                             *)
LEMMA LimiterReplaced ==
    ASSUME TypeOK, NEW i \in DOMAIN limiters, NEW l \in Limiter,
           limiters' = [limiters EXCEPT ![i] = l]
    PROVE  /\ limiters' \in Seq(Limiter)
           /\ Len(limiters') = Len(limiters)
           /\ DOMAIN limiters' = DOMAIN limiters
           /\ limiters'[i] = l
           /\ \A j \in DOMAIN limiters : j # i => limiters'[j] = limiters[j]
<1>1. i \in 1 .. Len(limiters) /\ DOMAIN limiters = 1 .. Len(limiters)
  BY LenProperties DEF TypeOK
<1>2. /\ limiters' \in Seq(Limiter)
      /\ Len(limiters') = Len(limiters)
      /\ \A j \in 1 .. Len(limiters) : limiters'[j] = IF j = i THEN l ELSE limiters[j]
  BY <1>1, ExceptSeq DEF TypeOK
<1>3. DOMAIN limiters' = 1 .. Len(limiters')
  BY <1>2, LenProperties
<1> QED BY <1>1, <1>2, <1>3

(* A limiter's fields.                                                     *)
LEMMA LimiterFields ==
    ASSUME TypeOK, NEW i \in DOMAIN limiters
    PROVE  /\ limiters[i] \in Limiter
           /\ limiters[i].cfg \in [capacity : Nat, queueSize : Nat]
           /\ limiters[i].cfg.capacity \in Nat
           /\ limiters[i].inFlight \in Nat
           /\ limiters[i].queue \in Seq(Requests)
           /\ Range(limiters[i].queue) \subseteq Requests
           /\ i \in Nat \ {0} /\ i <= Len(limiters)
<1>1. i \in 1 .. Len(limiters) /\ Len(limiters) \in Nat
  BY LenProperties DEF TypeOK
<1>2. limiters[i] \in Limiter
  BY <1>1, ElementOfSeq DEF TypeOK
<1>3. limiters[i].queue \in Seq(Requests)
  BY <1>2 DEF Limiter
<1>4. Range(limiters[i].queue) \subseteq Requests
  BY <1>3, RangeOfSeq
<1> QED BY <1>1, <1>2, <1>3, <1>4 DEF Limiter

LEMMA LengthNat == TypeOK => Len(limiters) \in Nat
BY LenProperties DEF TypeOK

LEMMA LimiterIndex ==
    ASSUME TypeOK, NEW i \in 0 .. Len(limiters), i # 0
    PROVE  i \in DOMAIN limiters
BY LenProperties DEF TypeOK

(* A step in which one request moves between stages outside the queue      *)
(* leaves queues and counters as they were.                                *)
LEMMA MovesOutside ==
    ASSUME IInv, NEW r \in Requests, NEW stage \in Stages \ {"queued"}, pc[r] # "queued",
           Goto(r, stage), UNCHANGED <<limiters, slot, held>>,
           \A q \in Requests \ {r} : lim'[q] = lim[q]
    PROVE  /\ Queues' /\ Counters'
           /\ pc' \in [Requests -> Stages]
           /\ pc'[r] = stage /\ \A q \in Requests \ {r} : pc'[q] = pc[q]
<1>1. /\ pc' \in [Requests -> Stages]
      /\ pc'[r] = stage /\ \A q \in Requests \ {r} : pc'[q] = pc[q]
  BY DEF IInv, TypeOK, Goto
<1>2. Queues'
  <2>1. \A i \in DOMAIN limiters : \A q \in Range(limiters[i].queue) : q \in Requests \ {r}
    BY LimiterFields DEF IInv, Queues
  <2> QED BY <1>1, <2>1 DEF IInv, Queues
<1>3. Counters'
  BY DEF IInv, Counters, Holders
<1> QED BY <1>1, <1>2, <1>3

LEMMA InitInvariant == Init => IInv
<1> SUFFICES ASSUME Init PROVE IInv
  OBVIOUS
<1>1. TypeOK
  <2>1. limiters \in Seq(Limiter) /\ Len(limiters) = 0
    BY EmptySeq DEF Init
  <2>2. 0 \in 0 .. MaxChanges /\ 0 \in 0 .. MaxTries /\ 0 \in 0 .. MaxMinutes /\ 0 \in 0 .. 0
    BY AdmissionAssumption
  <2> QED BY <2>1, <2>2 DEF Init, TypeOK, Stages
<1>2. DOMAIN limiters = {} /\ Len(limiters) = 0
  BY DEF Init
<1>3. Queues /\ Counters
  BY <1>2 DEF Queues, Counters
<1>4. HeldSlots /\ Fitting
  BY DEF Init, HeldSlots, Fitting
<1>5. Unchanged
  BY <1>2 DEF Init, Unchanged
<1>6. Budget
  <2>1. \E c \in Configs : 0 <= c.rpm
    BY AdmissionAssumption
  <2> QED BY <2>1 DEF Init, Budget, MinuteBudget
<1> QED BY <1>1, <1>3, <1>4, <1>5, <1>6 DEF IInv

-----------------------------------------------------------------------------
(* Changes of the channel, and the clock.                                  *)

LEMMA ChannelStepInvariant ==
    ASSUME IInv, UpdateChannel \/ DeleteChannel \/ Forget \/ Reload \/ Tick
    PROVE  IInv'
<1> USE DEF IInv
<1>1. CASE UpdateChannel \/ DeleteChannel
  <2>1. /\ UNCHANGED <<cached, registry, request, clockVars>>
        /\ stored' \in Configs \cup {Deleted} /\ forget' \in BOOLEAN
        /\ changes < MaxChanges /\ changes' = changes + 1
    BY <1>1 DEF UpdateChannel, DeleteChannel, TypeOK
  <2>2. changes' \in 0 .. MaxChanges /\ changes' # 0
    BY <2>1, AdmissionAssumption DEF TypeOK
  <2>3. TypeOK'
    BY <2>1, <2>2 DEF TypeOK, registry, request, clockVars
  <2>4. Queues' /\ Counters' /\ HeldSlots' /\ Fitting'
    BY <2>1 DEF Queues, Counters, HeldSlots, Fitting, Holders, registry, request
  <2>5. Unchanged' /\ Budget'
    BY <2>1, <2>2 DEF Unchanged, Budget, MinuteBudget, clockVars
  <2> QED BY <2>3, <2>4, <2>5
<1>2. CASE Forget
  <2>1. UNCHANGED <<stored, cached, changes, limiters, request, clockVars>>
    BY <1>2 DEF Forget
  <2>2. TypeOK'
    <3>1. Len(limiters) \in Nat
      BY LengthNat
    <3>2. entry' = 0 /\ forget' = FALSE /\ 0 \in 0 .. Len(limiters)
      BY <1>2, <3>1 DEF Forget
    <3> QED BY <2>1, <3>2 DEF TypeOK, request, clockVars
  <2>3. Queues' /\ Counters' /\ HeldSlots' /\ Fitting'
    BY <2>1 DEF Queues, Counters, HeldSlots, Fitting, Holders, request
  <2>4. Unchanged' /\ Budget'
    BY <1>2, <2>1 DEF Forget, Unchanged, Budget, MinuteBudget, clockVars
  <2> QED BY <2>2, <2>3, <2>4
<1>3. CASE Reload
  <2>1. UNCHANGED <<stored, forget, changes, registry, request, clockVars>>
    BY <1>3 DEF Reload
  <2>2. TypeOK'
    BY <1>3, <2>1 DEF Reload, TypeOK, registry, request, clockVars
  <2>3. Queues' /\ Counters' /\ HeldSlots' /\ Fitting'
    BY <2>1 DEF Queues, Counters, HeldSlots, Fitting, Holders, registry, request
  <2>4. Unchanged' /\ Budget'
    BY <1>3, <2>1 DEF Reload, Unchanged, Budget, MinuteBudget, clockVars
  <2> QED BY <2>2, <2>3, <2>4
<1>4. CASE Tick
  <2>1. /\ UNCHANGED <<channel, registry, request, window>>
        /\ minute' = minute + 1 /\ minute < MaxMinutes /\ sent' = 0
    BY <1>4 DEF Tick
  <2>2. TypeOK'
    BY <2>1, AdmissionAssumption DEF TypeOK, channel, registry, request
  <2>3. /\ Queues' /\ Counters' /\ HeldSlots' /\ Fitting'
        /\ Unchanged'
    <3>1. Queues' /\ Counters'
      BY <2>1 DEF Queues, Counters, Holders, registry, request
    <3>2. HeldSlots' /\ Fitting'
      BY <2>1 DEF HeldSlots, Fitting, registry, request
    <3>3. Unchanged'
      BY <2>1 DEF Unchanged, channel, registry, request
    <3> QED BY <3>1, <3>2, <3>3
  <2>4. window.start \in Nat /\ minute \in Nat
    BY AdmissionAssumption DEF TypeOK
  <2>5. \E c \in Configs : 0 <= c.rpm
    BY AdmissionAssumption
  <2>6. Budget'
    BY <2>1, <2>4, <2>5 DEF Budget, MinuteBudget
  <2> QED BY <2>2, <2>3, <2>6
<1> QED BY <1>1, <1>2, <1>3, <1>4

-----------------------------------------------------------------------------
(* GetOrCreate.                                                            *)

LEMMA ArriveInvariant == ASSUME IInv, NEW r \in Requests, Arrive(r) PROVE IInv'
<1> USE DEF IInv
<1>1. /\ pc[r] = "new" /\ cached # Deleted /\ Goto(r, "lookup")
      /\ UNCHANGED <<channel, registry, lim, slot, held, connected, clockVars>>
      /\ snapshot' = [snapshot EXCEPT ![r] = cached]
      /\ tries' = [tries EXCEPT ![r] = 1]
  BY DEF Arrive
<1>2. /\ Queues' /\ Counters'
      /\ pc' \in [Requests -> Stages]
      /\ pc'[r] = "lookup" /\ \A q \in Requests \ {r} : pc'[q] = pc[q]
  BY <1>1, MovesOutside DEF registry, Stages
<1>3. TypeOK'
  <2>1. 1 \in 0 .. MaxTries
    BY AdmissionAssumption
  <2>2. snapshot' \in [Requests -> Configs \cup {Deleted}] /\ tries' \in [Requests -> 0 .. MaxTries]
    BY <1>1, <2>1 DEF TypeOK
  <2> QED BY <1>1, <1>2, <2>2 DEF TypeOK, channel, registry, clockVars
<1>4. HeldSlots'
  BY <1>1, <1>2 DEF HeldSlots
<1>5. Fitting'
  BY <1>1, <1>2 DEF Fitting, TypeOK, registry
<1>6. Unchanged'
  BY <1>1, <1>2 DEF Unchanged, TypeOK, channel, registry
<1>7. Budget'
  BY <1>1 DEF Budget, MinuteBudget, clockVars
<1> QED BY <1>2, <1>3, <1>4, <1>5, <1>6, <1>7

LEMMA LookupUnlimitedInvariant ==
    ASSUME IInv, NEW r \in Requests, LookupUnlimited(r) PROVE IInv'
<1> USE DEF IInv
<1>1. /\ pc[r] = "lookup" /\ snapshot[r].capacity = 0 /\ entry' = 0 /\ Goto(r, "rate")
      /\ UNCHANGED <<channel, limiters, snapshot, tries, slot, held, connected, clockVars>>
      /\ lim' = [lim EXCEPT ![r] = 0]
  BY DEF LookupUnlimited
<1>2. /\ Queues' /\ Counters'
      /\ pc' \in [Requests -> Stages]
      /\ pc'[r] = "rate" /\ \A q \in Requests \ {r} : pc'[q] = pc[q]
  BY <1>1, MovesOutside DEF Stages
<1>3. TypeOK'
  <2>1. entry' \in 0 .. Len(limiters') /\ lim' \in [Requests -> 0 .. Len(limiters')]
    BY <1>1, LengthNat DEF TypeOK
  <2> QED BY <1>1, <1>2, <2>1 DEF TypeOK, channel, clockVars
<1>4. HeldSlots'
  BY <1>1, <1>2 DEF HeldSlots
<1>5. Fitting'
  BY <1>1, <1>2 DEF Fitting, TypeOK
<1>6. Unchanged'
  <2>1. changes = 0 => Len(limiters) = 0
    BY <1>1, LengthNat DEF Unchanged
  <2> QED BY <1>1, <1>2, <2>1 DEF Unchanged, channel
<1>7. Budget'
  BY <1>1 DEF Budget, MinuteBudget, clockVars
<1> QED BY <1>2, <1>3, <1>4, <1>5, <1>6, <1>7

LEMMA LookupFastInvariant ==
    ASSUME IInv, NEW r \in Requests, LookupFast(r) PROVE IInv'
<1> USE DEF IInv
<1>1. /\ pc[r] = "lookup" /\ snapshot[r].capacity > 0
      /\ UNCHANGED <<channel, registry, snapshot, tries, slot, held, connected, clockVars>>
      /\ \/ Fits(r) /\ lim' = [lim EXCEPT ![r] = entry] /\ Goto(r, "acquire")
         \/ UNCHANGED lim /\ Goto(r, "create")
  BY DEF LookupFast
<1>2. PICK stage \in {"acquire", "create"} :
          /\ Goto(r, stage)
          /\ stage = "acquire" => Fits(r) /\ lim' = [lim EXCEPT ![r] = entry]
          /\ stage = "create" => UNCHANGED lim
  BY <1>1
<1>3. lim' \in [Requests -> 0 .. Len(limiters)] /\ \A q \in Requests \ {r} : lim'[q] = lim[q]
  BY <1>2 DEF TypeOK
<1>4. /\ Queues' /\ Counters'
      /\ pc' \in [Requests -> Stages]
      /\ pc'[r] = stage /\ \A q \in Requests \ {r} : pc'[q] = pc[q]
  BY <1>1, <1>2, <1>3, MovesOutside DEF Stages, registry
<1>5. TypeOK'
  BY <1>1, <1>3, <1>4 DEF TypeOK, channel, registry, clockVars
<1>6. HeldSlots'
  BY <1>1, <1>4 DEF HeldSlots
<1>7. Fitting'
  <2>1. stage = "acquire" =>
            lim'[r] # 0 /\ limiters[lim'[r]].cfg = extractLimiterConfig(snapshot[r])
    BY <1>2 DEF Fits, TypeOK
  <2> QED BY <1>1, <1>3, <1>4, <2>1 DEF Fitting, registry
<1>8. Unchanged' /\ Budget'
  BY <1>1, <1>4 DEF Unchanged, Budget, MinuteBudget, channel, registry, clockVars
<1> QED BY <1>4, <1>5, <1>6, <1>7, <1>8

(* A new limiter goes behind those there are.                              *)
LEMMA LimiterAppended ==
    ASSUME TypeOK, NEW l \in Limiter, limiters' = Append(limiters, l)
    PROVE  /\ limiters' \in Seq(Limiter)
           /\ Len(limiters) \in Nat /\ Len(limiters') = Len(limiters) + 1
           /\ DOMAIN limiters' = DOMAIN limiters \cup {Len(limiters')}
           /\ Len(limiters') \notin DOMAIN limiters
           /\ limiters'[Len(limiters')] = l
           /\ \A j \in DOMAIN limiters : limiters'[j] = limiters[j]
<1>1. limiters \in Seq(Limiter)
  BY DEF TypeOK
<1>2. /\ limiters' \in Seq(Limiter)
      /\ Len(limiters') = Len(limiters) + 1
      /\ \A j \in 1 .. Len(limiters) : limiters'[j] = limiters[j]
      /\ limiters'[Len(limiters) + 1] = l
  BY <1>1, AppendProperties
<1>3. /\ DOMAIN limiters = 1 .. Len(limiters) /\ Len(limiters) \in Nat
      /\ DOMAIN limiters' = 1 .. Len(limiters')
  BY <1>1, <1>2, LenProperties
<1> QED BY <1>2, <1>3

LEMMA LookupCreateInvariant ==
    ASSUME IInv, NEW r \in Requests, LookupCreate(r) PROVE IInv'
<1> USE DEF IInv
<1>1. /\ pc[r] = "create" /\ Goto(r, "acquire")
      /\ UNCHANGED <<channel, snapshot, tries, slot, held, connected, clockVars>>
      /\ lim' = [lim EXCEPT ![r] = entry']
  BY DEF LookupCreate
<1>2. /\ pc' \in [Requests -> Stages]
      /\ pc'[r] = "acquire" /\ \A q \in Requests \ {r} : pc'[q] = pc[q]
  BY <1>1 DEF Goto, TypeOK, Stages
<1>3. HeldSlots'
  BY <1>1, <1>2 DEF HeldSlots
<1>4. Budget'
  BY <1>1 DEF Budget, MinuteBudget, clockVars
<1>5. CASE Fits(r)
  <2>1. UNCHANGED registry
    BY <1>5 DEF LookupCreate
  <2>2. lim' \in [Requests -> 0 .. Len(limiters)] /\ \A q \in Requests \ {r} : lim'[q] = lim[q]
    BY <1>1, <2>1 DEF TypeOK, registry
  <2>3. Queues' /\ Counters'
    BY <1>1, <2>1, <2>2, MovesOutside DEF Stages, registry
  <2>4. TypeOK'
    BY <1>1, <1>2, <2>1, <2>2 DEF TypeOK, channel, registry, clockVars
  <2>5. Fitting'
    <3>1. lim'[r] # 0 /\ limiters[lim'[r]].cfg = extractLimiterConfig(snapshot[r])
      BY <1>1, <1>5, <2>1 DEF Fits, TypeOK, registry
    <3> QED BY <1>1, <1>2, <2>1, <2>2, <3>1 DEF Fitting, registry
  <2>6. Unchanged'
    BY <1>1, <1>2, <2>1 DEF Unchanged, channel, registry
  <2> QED BY <1>3, <1>4, <2>3, <2>4, <2>5, <2>6
<1>6. CASE ~Fits(r)
  <2> DEFINE new == [cfg |-> extractLimiterConfig(snapshot[r]), inFlight |-> 0,
                     queue |-> <<>>]
  <2>1. limiters' = Append(limiters, new) /\ entry' = Len(limiters')
    BY <1>6 DEF LookupCreate
  <2>2. snapshot[r] \in Configs \cup {Deleted} /\ snapshot[r].capacity > 0
    BY <1>1 DEF TypeOK, Fitting
  <2>3. extractLimiterConfig(snapshot[r]) \in [capacity : Nat, queueSize : Nat]
    BY <2>2, ConfigFacts
  <2>4. <<>> \in Seq(Requests)
    BY EmptySeq
  <2>5. /\ new \in Limiter
        /\ new.cfg = extractLimiterConfig(snapshot[r]) /\ new.cfg.capacity > 0
        /\ new.inFlight = 0 /\ new.queue = <<>>
    BY <2>2, <2>3, <2>4 DEF Limiter, extractLimiterConfig
  <2> HIDE DEF new
  <2>6. /\ limiters' \in Seq(Limiter)
        /\ Len(limiters) \in Nat /\ entry' = Len(limiters) + 1
        /\ DOMAIN limiters' = DOMAIN limiters \cup {entry'}
        /\ entry' \notin DOMAIN limiters
        /\ limiters'[entry'] = new
        /\ \A j \in DOMAIN limiters : limiters'[j] = limiters[j]
        /\ Len(limiters') = Len(limiters) + 1
    BY <2>1, <2>5, LimiterAppended
  <2>7. lim'[r] = entry' /\ \A q \in Requests \ {r} : lim'[q] = lim[q]
    BY <1>1 DEF TypeOK
  <2>8. TypeOK'
    <3>1. entry' \in 0 .. Len(limiters') /\ 0 .. Len(limiters) \subseteq 0 .. Len(limiters')
      BY <2>6
    <3>2. /\ lim' \in [Requests -> 0 .. Len(limiters')]
          /\ slot' \in [Requests -> 0 .. Len(limiters')]
      BY <1>1, <3>1 DEF TypeOK
    <3> QED BY <1>1, <1>2, <2>6, <3>1, <3>2 DEF TypeOK, channel, clockVars
  <2>9. Queues'
    <3>1. ASSUME NEW i \in DOMAIN limiters
          PROVE  /\ IsInjective(limiters'[i].queue)
                 /\ \A q \in Range(limiters'[i].queue) : pc'[q] = "queued" /\ lim'[q] = i
      <4>1. \A q \in Range(limiters[i].queue) : q \in Requests \ {r}
        BY <1>1, LimiterFields DEF Queues
      <4> QED BY <1>2, <2>6, <2>7, <4>1 DEF Queues
    <3>2. IsInjective(<<>>) /\ Range(<<>>) = {}
      BY DEF IsInjective, Range
    <3> QED BY <2>5, <2>6, <3>1, <3>2 DEF Queues
  <2>10. Counters'
    <3>1. \A i : Holders(i)' = Holders(i)
      BY <1>1 DEF Holders
    <3>2. Holders(entry') = {}
      BY <2>6, LimiterIndex DEF Holders, HeldSlots, TypeOK
    <3>3. Cardinality(Holders(entry')) = 0
      BY <3>2, FS_EmptySet
    <3>4. new.inFlight <= new.cfg.capacity
      BY <2>2, <2>5 DEF Limiter
    <3>5. \A i \in DOMAIN limiters' : limiters'[i].inFlight = Cardinality(Holders(i))
      BY <2>5, <2>6, <3>3 DEF Counters
    <3> QED BY <2>5, <2>6, <3>1, <3>4, <3>5 DEF Counters
  <2>11. Fitting'
    <3>1. \A q \in Requests \ {r} : pc[q] \in {"acquire", "queued"} => lim[q] \in DOMAIN limiters
      BY LimiterIndex DEF Fitting, TypeOK
    <3>2. \A q \in Requests : held[q] => slot[q] \in DOMAIN limiters
      BY LimiterIndex DEF HeldSlots, TypeOK
    <3>3. entry' # 0
      BY <2>6
    <3> QED BY <1>1, <1>2, <2>2, <2>5, <2>6, <2>7, <3>1, <3>2, <3>3 DEF Fitting
  <2>12. Unchanged'
    <3>1. ASSUME changes = 0
          PROVE  Len(limiters) = 0 /\ snapshot[r] = cached
      <4>1. snapshot[r] = cached
        BY <1>1, <3>1 DEF Unchanged
      <4>2. Len(limiters) # 1
        BY <1>6, <3>1, <4>1 DEF Unchanged, Fits
      <4> QED BY <2>6, <3>1, <4>1, <4>2 DEF Unchanged
    <3>2. changes = 0 => entry' = 1 /\ Len(limiters') = 1
      BY <2>6, <3>1
    <3> QED BY <1>1, <1>2, <2>2, <2>5, <2>6, <3>1, <3>2 DEF Unchanged, channel
  <2> QED BY <1>3, <1>4, <2>8, <2>9, <2>10, <2>11, <2>12
<1> QED BY <1>5, <1>6

-----------------------------------------------------------------------------
(* Queues and counters.                                                    *)

(* Steps that leave the configurations of all limiters and the number of   *)
(* limiters as they were keep what a request knows about its limiter.      *)
SameConfigs ==
    /\ DOMAIN limiters' = DOMAIN limiters
    /\ Len(limiters') = Len(limiters)
    /\ \A i \in DOMAIN limiters : limiters'[i].cfg = limiters[i].cfg

(* What an attempt refers to is there.                                     *)
LEMMA KnownLimiters ==
    ASSUME IInv, NEW r \in Requests
    PROVE  /\ pc[r] \in {"acquire", "queued"} => lim[r] \in DOMAIN limiters
           /\ held[r] => slot[r] \in DOMAIN limiters
BY LimiterIndex DEF IInv, TypeOK, Fitting, HeldSlots

(* The invariant of the first changes needs no more than SameConfigs.      *)
LEMMA UnchangedKept ==
    ASSUME IInv, SameConfigs, UNCHANGED <<channel, entry>>,
           \A r \in Requests :
              pc'[r] \notin {"new", "over"} =>
                 pc[r] \notin {"new", "over"} /\ snapshot'[r] = snapshot[r]
    PROVE  Unchanged'
<1>1. Len(limiters) = 1 => 1 \in DOMAIN limiters
  BY LenProperties DEF IInv, TypeOK
<1> QED BY <1>1 DEF IInv, Unchanged, SameConfigs, channel

LEMMA AcquireInvariant == ASSUME IInv, NEW r \in Requests, Acquire(r) PROVE IInv'
<1> USE DEF IInv
<1>1. /\ pc[r] = "acquire"
      /\ UNCHANGED <<channel, entry, snapshot, tries, lim, connected, clockVars>>
  BY DEF Acquire
<1>2. PICK i \in DOMAIN limiters :
          /\ i = lim[r] /\ i # 0
          /\ limiters[i].cfg = extractLimiterConfig(snapshot[r])
  BY <1>1, KnownLimiters DEF Fitting
<1>3. ~held[r]
  BY <1>1 DEF HeldSlots
<1>4. /\ limiters[i] \in Limiter
      /\ limiters[i].cfg.capacity \in Nat /\ limiters[i].inFlight \in Nat
      /\ limiters[i].queue \in Seq(Requests)
  BY <1>2, LimiterFields
<1>5. \A j \in DOMAIN limiters : \A q \in Range(limiters[j].queue) : q \in Requests \ {r}
  BY <1>1, LimiterFields DEF Queues
<1>6. Budget'
  BY <1>1 DEF Budget, MinuteBudget, clockVars
<1>7. CASE /\ limiters[i].inFlight < limiters[i].cfg.capacity
           /\ limiters' = [limiters EXCEPT ![i].inFlight = @ + 1]
           /\ slot' = [slot EXCEPT ![r] = i]
           /\ held' = [held EXCEPT ![r] = TRUE]
           /\ Goto(r, "rate")
  <2> DEFINE l == [limiters[i] EXCEPT !.inFlight = limiters[i].inFlight + 1]
  <2>1. /\ l \in Limiter /\ limiters' = [limiters EXCEPT ![i] = l]
        /\ l.inFlight = limiters[i].inFlight + 1
        /\ l.cfg = limiters[i].cfg /\ l.queue = limiters[i].queue
    BY <1>4, <1>7 DEF Limiter
  <2> HIDE DEF l
  <2>2. /\ limiters' \in Seq(Limiter)
        /\ Len(limiters') = Len(limiters)
        /\ DOMAIN limiters' = DOMAIN limiters
        /\ limiters'[i] = l
        /\ \A j \in DOMAIN limiters : j # i => limiters'[j] = limiters[j]
    BY <1>2, <2>1, LimiterReplaced
  <2>3. /\ pc' \in [Requests -> Stages]
        /\ pc'[r] = "rate" /\ \A q \in Requests \ {r} : pc'[q] = pc[q]
        /\ slot'[r] = i /\ \A q \in Requests \ {r} : slot'[q] = slot[q]
        /\ held'[r] /\ \A q \in Requests \ {r} : held'[q] = held[q]
    BY <1>7 DEF Goto, TypeOK, Stages
  <2>4. SameConfigs
    BY <2>1, <2>2 DEF SameConfigs
  <2>5. TypeOK'
    <3>1. slot' \in [Requests -> 0 .. Len(limiters')] /\ held' \in [Requests -> BOOLEAN]
      BY <1>2, <1>7, <2>2 DEF TypeOK
    <3> QED BY <1>1, <2>2, <2>3, <3>1 DEF TypeOK, channel, clockVars
  <2>6. Queues'
    BY <1>1, <1>5, <2>1, <2>2, <2>3 DEF Queues
  <2>7. Counters'
    <3>1. Holders(i)' = Holders(i) \cup {r} /\ r \notin Holders(i)
      BY <1>3, <2>3 DEF Holders
    <3>2. Cardinality(Holders(i)') = Cardinality(Holders(i)) + 1
      BY <3>1, HoldersFinite, FS_AddElement
    <3>3. \A j \in DOMAIN limiters : j # i => Holders(j)' = Holders(j)
      BY <1>3, <2>3 DEF Holders
    <3>4. /\ l.inFlight <= l.cfg.capacity
          /\ l.queue # <<>> => l.inFlight = l.cfg.capacity
      BY <1>2, <1>4, <1>7, <2>1 DEF Counters
    <3>5. l.inFlight = Cardinality(Holders(i)')
      BY <1>2, <2>1, <3>2 DEF Counters
    <3> QED BY <2>2, <3>3, <3>4, <3>5 DEF Counters
  <2>8. HeldSlots'
    BY <1>2, <2>3 DEF HeldSlots
  <2>9. Fitting'
    BY <1>1, <1>2, <2>3, <2>4, KnownLimiters DEF Fitting, SameConfigs
  <2>10. Unchanged'
    BY <1>1, <2>3, <2>4, UnchangedKept
  <2> QED BY <1>6, <2>5, <2>6, <2>7, <2>8, <2>9, <2>10
<1>8. CASE Goto(r, "failing") /\ UNCHANGED <<limiters, slot, held>>
  <2>1. /\ Queues' /\ Counters'
        /\ pc' \in [Requests -> Stages]
        /\ pc'[r] = "failing" /\ \A q \in Requests \ {r} : pc'[q] = pc[q]
    BY <1>1, <1>8, MovesOutside DEF Stages
  <2>2. TypeOK'
    BY <1>1, <1>8, <2>1 DEF TypeOK, channel, clockVars
  <2>3. HeldSlots' /\ Fitting'
    BY <1>1, <1>8, <2>1 DEF HeldSlots, Fitting
  <2>4. Unchanged'
    BY <1>1, <1>8, <2>1 DEF Unchanged, channel
  <2> QED BY <1>6, <2>1, <2>2, <2>3, <2>4
<1>9. CASE /\ limiters[i].inFlight >= limiters[i].cfg.capacity
           /\ limiters' = [limiters EXCEPT ![i].queue = Append(@, r)]
           /\ Goto(r, "queued")
           /\ UNCHANGED <<slot, held>>
  <2> DEFINE l == [limiters[i] EXCEPT !.queue = Append(limiters[i].queue, r)]
  <2>1. /\ Append(limiters[i].queue, r) \in Seq(Requests)
        /\ Range(Append(limiters[i].queue, r)) = Range(limiters[i].queue) \cup {r}
        /\ IsInjective(Append(limiters[i].queue, r))
    <3>1. IsInjective(limiters[i].queue) /\ r \notin Range(limiters[i].queue)
      BY <1>2, <1>5 DEF Queues
    <3> QED BY <1>4, <3>1, AppendFacts
  <2>2. /\ l \in Limiter /\ limiters' = [limiters EXCEPT ![i] = l]
        /\ l.inFlight = limiters[i].inFlight
        /\ l.cfg = limiters[i].cfg /\ l.queue = Append(limiters[i].queue, r)
    BY <1>4, <1>9, <2>1 DEF Limiter
  <2> HIDE DEF l
  <2>3. /\ limiters' \in Seq(Limiter)
        /\ Len(limiters') = Len(limiters)
        /\ DOMAIN limiters' = DOMAIN limiters
        /\ limiters'[i] = l
        /\ \A j \in DOMAIN limiters : j # i => limiters'[j] = limiters[j]
    BY <1>2, <2>2, LimiterReplaced
  <2>4. /\ pc' \in [Requests -> Stages]
        /\ pc'[r] = "queued" /\ \A q \in Requests \ {r} : pc'[q] = pc[q]
    BY <1>9 DEF Goto, TypeOK, Stages
  <2>5. SameConfigs
    BY <2>2, <2>3 DEF SameConfigs
  <2>6. TypeOK'
    BY <1>1, <1>9, <2>3, <2>4 DEF TypeOK, channel, clockVars
  <2>7. Queues'
    <3>1. ASSUME NEW j \in DOMAIN limiters
          PROVE  /\ IsInjective(limiters'[j].queue)
                 /\ \A q \in Range(limiters'[j].queue) : pc'[q] = "queued" /\ lim'[q] = j
      <4>1. CASE j = i
        <5>1. \A q \in Range(limiters[i].queue) : pc'[q] = "queued" /\ lim[q] = i
          BY <1>5, <2>4 DEF Queues
        <5> QED BY <1>1, <1>2, <2>1, <2>2, <2>3, <2>4, <4>1, <5>1
      <4>2. CASE j # i
        BY <1>1, <1>5, <2>3, <2>4, <4>2 DEF Queues
      <4> QED BY <4>1, <4>2
    <3> QED BY <2>3, <3>1 DEF Queues
  <2>8. Counters'
    <3>1. \A j : Holders(j)' = Holders(j)
      BY <1>9 DEF Holders
    <3>2. l.inFlight = l.cfg.capacity
      BY <1>2, <1>4, <1>9, <2>2 DEF Counters
    <3> QED BY <1>2, <1>4, <2>2, <2>3, <3>1, <3>2 DEF Counters
  <2>9. HeldSlots'
    BY <1>1, <1>9, <2>4 DEF HeldSlots
  <2>10. Fitting'
    BY <1>1, <1>2, <1>9, <2>4, <2>5, KnownLimiters DEF Fitting, SameConfigs
  <2>11. Unchanged'
    BY <1>1, <2>4, <2>5, UnchangedKept
  <2> QED BY <1>6, <2>6, <2>7, <2>8, <2>9, <2>10, <2>11
<1> QED BY <1>2, <1>7, <1>8, <1>9 DEF Acquire

LEMMA LeaveQueueInvariant == ASSUME IInv, NEW r \in Requests, LeaveQueue(r) PROVE IInv'
<1> USE DEF IInv
<1>1. /\ pc[r] = "queued" /\ Goto(r, "failing")
      /\ UNCHANGED <<channel, entry, snapshot, tries, lim, slot, held, connected, clockVars>>
  BY DEF LeaveQueue
<1>2. PICK i \in DOMAIN limiters : i = lim[r]
  BY <1>1, KnownLimiters
<1>3. PICK k \in DOMAIN limiters[i].queue :
          /\ limiters[i].queue[k] = r
          /\ limiters' = [limiters EXCEPT ![i].queue = RemoveAt(@, k)]
  BY <1>2 DEF LeaveQueue
<1>4. limiters[i] \in Limiter /\ limiters[i].queue \in Seq(Requests)
  BY <1>2, LimiterFields
<1> DEFINE rest == RemoveAt(limiters[i].queue, k)
           l == [limiters[i] EXCEPT !.queue = rest]
<1>5. /\ rest \in Seq(Requests) /\ IsInjective(rest)
      /\ Range(rest) = Range(limiters[i].queue) \ {r}
  BY <1>2, <1>3, <1>4, RemoveAtFacts DEF Queues
<1> HIDE DEF rest
<1>6. /\ l \in Limiter /\ limiters' = [limiters EXCEPT ![i] = l]
      /\ l.inFlight = limiters[i].inFlight
      /\ l.cfg = limiters[i].cfg /\ l.queue = rest
  BY <1>3, <1>4, <1>5 DEF Limiter, rest
<1> HIDE DEF l
<1>7. /\ limiters' \in Seq(Limiter)
      /\ Len(limiters') = Len(limiters)
      /\ DOMAIN limiters' = DOMAIN limiters
      /\ limiters'[i] = l
      /\ \A j \in DOMAIN limiters : j # i => limiters'[j] = limiters[j]
  BY <1>2, <1>6, LimiterReplaced
<1>8. /\ pc' \in [Requests -> Stages]
      /\ pc'[r] = "failing" /\ \A q \in Requests \ {r} : pc'[q] = pc[q]
  BY <1>1 DEF Goto, TypeOK, Stages
<1>9. SameConfigs
  BY <1>6, <1>7 DEF SameConfigs
<1>10. TypeOK'
  BY <1>1, <1>7, <1>8 DEF TypeOK, channel, clockVars
<1>11. Queues'
  <2>1. ASSUME NEW j \in DOMAIN limiters
        PROVE  /\ IsInjective(limiters'[j].queue)
               /\ \A q \in Range(limiters'[j].queue) : pc'[q] = "queued" /\ lim'[q] = j
    <3>1. \A q \in Range(limiters[j].queue) : q \in Requests
      BY LimiterFields
    <3>2. CASE j = i
      BY <1>1, <1>5, <1>6, <1>7, <1>8, <3>1, <3>2 DEF Queues
    <3>3. CASE j # i
      BY <1>1, <1>2, <1>7, <1>8, <3>1, <3>3 DEF Queues
    <3> QED BY <3>2, <3>3
  <2> QED BY <1>7, <2>1 DEF Queues
<1>12. Counters'
  <2>1. \A j : Holders(j)' = Holders(j)
    BY <1>1 DEF Holders
  <2>2. limiters[i].queue # <<>>
    BY <1>3
  <2> QED BY <1>2, <1>6, <1>7, <2>1, <2>2 DEF Counters
<1>13. HeldSlots'
  BY <1>1, <1>8 DEF HeldSlots
<1>14. Fitting'
  BY <1>1, <1>8, <1>9, KnownLimiters DEF Fitting, SameConfigs
<1>15. Unchanged'
  BY <1>1, <1>8, <1>9, UnchangedKept
<1>16. Budget'
  BY <1>1 DEF Budget, MinuteBudget, clockVars
<1> QED BY <1>10, <1>11, <1>12, <1>13, <1>14, <1>15, <1>16

-----------------------------------------------------------------------------
(* The minute's rate and the connection.                                   *)

LEMMA TryAcquireRequestInvariant ==
    ASSUME IInv, NEW r \in Requests, TryAcquireRequest(r) PROVE IInv'
<1> USE DEF IInv
<1>1. /\ pc[r] = "rate"
      /\ UNCHANGED <<channel, registry, snapshot, tries, lim, slot, held, connected, minute>>
  BY DEF TryAcquireRequest
<1>2. /\ CurrentWindow \in [start : 0 .. MaxMinutes, requests : Nat]
      /\ CurrentWindow.start = minute
      /\ CurrentWindow.requests = sent
  BY DEF CurrentWindow, TypeOK, Budget, MinuteBudget
<1>3. snapshot[r].rpm \in Nat /\ (snapshot[r].rpm > 0 => snapshot[r] \in Configs)
  BY ConfigFacts DEF TypeOK
<1>4. PICK stage \in {"dial", "failing"} : Goto(r, stage)
  BY DEF TryAcquireRequest
<1>5. /\ window' \in [start : 0 .. MaxMinutes, requests : Nat] /\ sent' \in Nat
      /\ Budget'
  <2>1. CASE UNCHANGED <<window, sent>>
    BY <1>1, <2>1 DEF TypeOK, Budget, MinuteBudget
  <2>2. CASE /\ CurrentWindow.requests < snapshot[r].rpm
             /\ window' = [CurrentWindow EXCEPT !.requests = @ + 1]
             /\ sent' = sent + 1
    <3>1. window'.start = minute /\ window'.requests = sent' /\ sent \in Nat
      BY <1>2, <2>2 DEF TypeOK
    <3>2. snapshot[r] \in Configs /\ sent' <= snapshot[r].rpm
      BY <1>2, <1>3, <2>2, <3>1
    <3>3. window' \in [start : 0 .. MaxMinutes, requests : Nat] /\ sent' \in Nat
      BY <1>2, <2>2, <3>1
    <3> QED BY <1>1, <3>1, <3>2, <3>3, AdmissionAssumption DEF TypeOK, Budget, MinuteBudget
  <2>3. CASE window' = CurrentWindow /\ UNCHANGED sent
    BY <1>1, <1>2, <2>3, AdmissionAssumption DEF TypeOK, Budget, MinuteBudget
  <2> QED BY <2>1, <2>2, <2>3 DEF TryAcquireRequest
<1>6. /\ Queues' /\ Counters'
      /\ pc' \in [Requests -> Stages]
      /\ pc'[r] = stage /\ \A q \in Requests \ {r} : pc'[q] = pc[q]
  BY <1>1, <1>4, MovesOutside DEF Stages, registry
<1>7. TypeOK'
  BY <1>1, <1>5, <1>6 DEF TypeOK, channel, registry
<1>8. HeldSlots' /\ Fitting'
  BY <1>1, <1>6 DEF HeldSlots, Fitting, registry
<1>9. Unchanged'
  BY <1>1, <1>6 DEF Unchanged, channel, registry
<1> QED BY <1>5, <1>6, <1>7, <1>8, <1>9

(* Dialling and closing move one request; only a request that is open is   *)
(* connected.                                                              *)
LEMMA ConnectionStepInvariant ==
    ASSUME IInv, NEW r \in Requests, Dial(r) \/ CloseUpstream(r) PROVE IInv'
<1> USE DEF IInv
<1>1. /\ pc[r] \in {"dial", "open"}
      /\ UNCHANGED <<channel, registry, snapshot, tries, lim, slot, held, clockVars>>
  BY DEF Dial, CloseUpstream
<1>2. PICK stage \in {"open", "failing", "closed"} :
          /\ Goto(r, stage)
          /\ stage = "open" => pc[r] = "dial" /\ connected' = connected \cup {r}
          /\ stage = "failing" => pc[r] = "dial" /\ UNCHANGED connected
          /\ stage = "closed" => connected' = connected \ {r}
  BY DEF Dial, CloseUpstream
<1>3. /\ Queues' /\ Counters'
      /\ pc' \in [Requests -> Stages]
      /\ pc'[r] = stage /\ \A q \in Requests \ {r} : pc'[q] = pc[q]
  BY <1>1, <1>2, MovesOutside DEF Stages, registry
<1>4. connected' \in SUBSET Requests
  BY <1>2 DEF TypeOK
<1>5. TypeOK'
  BY <1>1, <1>3, <1>4 DEF TypeOK, channel, registry, clockVars
<1>6. HeldSlots'
  BY <1>1, <1>3 DEF HeldSlots
<1>7. Fitting'
  <2>1. r \in connected' => stage = "open"
    BY <1>1, <1>2 DEF Fitting
  <2>2. \A q \in Requests \ {r} : q \in connected' => q \in connected
    BY <1>2
  <2>3. stage = "open" => pc[r] = "dial"
    BY <1>2
  <2> QED BY <1>1, <1>3, <2>1, <2>2, <2>3 DEF Fitting, registry
<1>8. Unchanged'
  BY <1>1, <1>3 DEF Unchanged, channel, registry
<1>9. Budget'
  BY <1>1 DEF Budget, MinuteBudget, clockVars
<1> QED BY <1>3, <1>5, <1>6, <1>7, <1>8, <1>9

-----------------------------------------------------------------------------
(* The release.                                                            *)

(* The next waiter, if there is one, takes over the slot: holders and      *)
(* counter change together, in the limiter the slot came from and in no    *)
(* other.                                                                  *)
LEMMA ReleaseHandsOver ==
    ASSUME IInv, NEW r \in Requests, pc[r] \in {"closed", "failing"},
           slot[r] # 0, held[r],
           NEW i \in DOMAIN limiters, i = slot[r],
           limiters' = Released(i)
    PROVE  /\ limiters' \in Seq(Limiter) /\ SameConfigs
           /\ Woken(i) \subseteq Requests \ {r}
           /\ \A q \in Woken(i) : pc[q] = "queued" /\ lim[q] = i /\ ~held[q]
           /\ \A j \in DOMAIN limiters :
                 /\ IsInjective(limiters'[j].queue)
                 /\ Range(limiters'[j].queue) = Range(limiters[j].queue) \ Woken(i)
                 /\ limiters'[j].queue # <<>> => limiters[j].queue # <<>>
                 /\ j # i => limiters'[j] = limiters[j]
           /\ Woken(i) = {} => limiters'[i].inFlight = limiters[i].inFlight - 1
           /\ Woken(i) # {} => limiters'[i].inFlight = limiters[i].inFlight
<1> USE DEF IInv
<1>1. /\ limiters[i] \in Limiter
      /\ limiters[i].inFlight \in Nat /\ limiters[i].queue \in Seq(Requests)
      /\ IsInjective(limiters[i].queue)
  BY LimiterFields DEF Queues
<1>2. \A j \in DOMAIN limiters :
          /\ IsInjective(limiters[j].queue)
          /\ \A q \in Range(limiters[j].queue) :
                q \in Requests \ {r} /\ pc[q] = "queued" /\ lim[q] = j /\ ~held[q]
  BY LimiterFields DEF Queues, HeldSlots
<1>3. limiters[i].inFlight # 0
  <2>1. r \in Holders(i)
    BY DEF Holders
  <2>2. Cardinality(Holders(i)) # 0
    BY <2>1, HoldersFinite, FS_EmptySet
  <2> QED BY <2>2 DEF Counters
<1>4. CASE limiters[i].queue # <<>>
  <2> DEFINE h == Head(limiters[i].queue)
             rest == Tail(limiters[i].queue)
             l == [limiters[i] EXCEPT !.queue = rest]
  <2>1. /\ h \in Range(limiters[i].queue)
        /\ rest \in Seq(Requests) /\ IsInjective(rest)
        /\ Range(rest) = Range(limiters[i].queue) \ {h}
    BY <1>1, <1>4, TailFacts
  <2>2. Woken(i) = {h}
    BY <1>4 DEF Woken
  <2> HIDE DEF h
  <2>3. /\ l \in Limiter /\ limiters' = [limiters EXCEPT ![i] = l]
        /\ l.cfg = limiters[i].cfg /\ l.inFlight = limiters[i].inFlight
        /\ l.queue = rest
    BY <1>1, <1>4, <2>1 DEF Limiter, Released
  <2> HIDE DEF l, rest
  <2>4. /\ limiters' \in Seq(Limiter)
        /\ Len(limiters') = Len(limiters)
        /\ DOMAIN limiters' = DOMAIN limiters
        /\ limiters'[i] = l
        /\ \A j \in DOMAIN limiters : j # i => limiters'[j] = limiters[j]
    BY <2>3, LimiterReplaced
  <2>5. SameConfigs
    BY <2>3, <2>4 DEF SameConfigs
  <2>6. ASSUME NEW j \in DOMAIN limiters
        PROVE  /\ IsInjective(limiters'[j].queue)
               /\ Range(limiters'[j].queue) = Range(limiters[j].queue) \ Woken(i)
               /\ limiters'[j].queue # <<>> => limiters[j].queue # <<>>
    <3>1. CASE j = i
      BY <1>4, <2>1, <2>2, <2>3, <2>4, <3>1
    <3>2. CASE j # i
      <4>1. h \notin Range(limiters[j].queue)
        BY <1>2, <2>1, <3>2
      <4> QED BY <1>2, <2>2, <2>4, <3>2, <4>1
    <3> QED BY <3>1, <3>2
  <2>7. h \in Requests \ {r} /\ pc[h] = "queued" /\ lim[h] = i /\ ~held[h]
    BY <1>2, <2>1
  <2>8. limiters'[i].inFlight = limiters[i].inFlight
    BY <2>3, <2>4
  <2> QED BY <2>2, <2>4, <2>5, <2>6, <2>7, <2>8
<1>5. CASE limiters[i].queue = <<>>
  <2> DEFINE l == [limiters[i] EXCEPT !.inFlight = limiters[i].inFlight - 1]
  <2>1. Woken(i) = {}
    BY <1>5 DEF Woken
  <2>2. /\ l \in Limiter /\ limiters' = [limiters EXCEPT ![i] = l]
        /\ l.cfg = limiters[i].cfg /\ l.inFlight = limiters[i].inFlight - 1
        /\ l.queue = limiters[i].queue
    BY <1>1, <1>3, <1>5 DEF Limiter, Released
  <2> HIDE DEF l
  <2>3. /\ limiters' \in Seq(Limiter)
        /\ Len(limiters') = Len(limiters)
        /\ DOMAIN limiters' = DOMAIN limiters
        /\ limiters'[i] = l
        /\ \A j \in DOMAIN limiters : j # i => limiters'[j] = limiters[j]
    BY <2>2, LimiterReplaced
  <2>4. SameConfigs
    BY <2>2, <2>3 DEF SameConfigs
  <2>5. \A j \in DOMAIN limiters : limiters'[j].queue = limiters[j].queue
    BY <2>2, <2>3
  <2> QED BY <1>2, <1>5, <2>1, <2>2, <2>3, <2>4, <2>5
<1> QED BY <1>4, <1>5

(* The counter goes down only when nobody takes over.                      *)
LEMMA ReleaseCounts ==
    ASSUME IInv, NEW r \in Requests, pc[r] \in {"closed", "failing"},
           slot[r] # 0, held[r],
           NEW i \in DOMAIN limiters, i = slot[r],
           limiters' = Released(i)
    PROVE  limiters'[i].inFlight = IF Woken(i) = {} THEN limiters[i].inFlight - 1
                                   ELSE limiters[i].inFlight
BY ReleaseHandsOver

LEMMA ReleaseInvariant ==
    ASSUME IInv, NEW r \in Requests, pc[r] \in {"closed", "failing"},
           NEW stage \in {"over", "failing", "lookup"}, ReleaseSlot(r, stage),
           UNCHANGED <<channel, entry, connected, clockVars>>,
           tries' \in [Requests -> 0 .. MaxTries]
    PROVE  IInv'
<1> USE DEF IInv
<1> DEFINE releases == slot[r] # 0 /\ held[r]
<1>1. PICK woken \in SUBSET Requests :
          /\ woken = IF releases THEN Woken(slot[r]) ELSE {}
          /\ woken \subseteq Requests \ {r}
          /\ \A q \in woken : pc[q] = "queued" /\ ~held[q]
          /\ releases => \A q \in woken : lim[q] = slot[r]
          /\ ~releases => woken = {}
  <2>1. CASE releases
    <3>1. slot[r] \in DOMAIN limiters /\ limiters' = Released(slot[r])
      BY <2>1, KnownLimiters DEF ReleaseSlot
    <3> QED BY <2>1, <3>1, ReleaseHandsOver
  <2>2. CASE ~releases
    BY <2>2
  <2> QED BY <2>1, <2>2
<1>2. /\ limiters' = IF releases THEN Released(slot[r]) ELSE limiters
      /\ held' = [q \in Requests |-> q \in woken \/ (q # r /\ held[q])]
      /\ slot' = [q \in Requests |->
                     IF q \in woken THEN lim[q]
                     ELSE IF q = r THEN (IF stage = "over" THEN 0 ELSE slot[r]) ELSE slot[q]]
      /\ pc' = [q \in Requests |-> IF q \in woken THEN "rate"
                                   ELSE IF q = r THEN stage ELSE pc[q]]
      /\ snapshot' = [snapshot EXCEPT ![r] = IF stage = "over" THEN Deleted ELSE @]
      /\ lim' = [lim EXCEPT ![r] = IF stage = "over" THEN 0 ELSE @]
  BY <1>1 DEF ReleaseSlot
<1>3. /\ limiters' \in Seq(Limiter) /\ SameConfigs
      /\ \A j \in DOMAIN limiters :
            /\ IsInjective(limiters'[j].queue)
            /\ Range(limiters'[j].queue) = Range(limiters[j].queue) \ woken
            /\ limiters'[j].queue # <<>> => limiters[j].queue # <<>>
  <2>1. CASE releases
    <3>1. slot[r] \in DOMAIN limiters /\ limiters' = Released(slot[r])
      BY <1>2, <2>1, KnownLimiters
    <3>2. woken = Woken(slot[r])
      BY <1>1, <2>1
    <3> QED BY <2>1, <3>1, <3>2, ReleaseHandsOver
  <2>2. CASE ~releases
    BY <1>1, <1>2, <2>2 DEF TypeOK, SameConfigs, Queues
  <2> QED BY <2>1, <2>2
<1>4. /\ \A q \in woken : /\ pc'[q] = "rate" /\ held'[q] /\ slot'[q] = lim[q]
                          /\ lim'[q] = lim[q] /\ snapshot'[q] = snapshot[q]
      /\ \A q \in Requests \ {r} : q \notin woken =>
            /\ pc'[q] = pc[q] /\ held'[q] = held[q] /\ slot'[q] = slot[q]
            /\ lim'[q] = lim[q] /\ snapshot'[q] = snapshot[q]
      /\ pc'[r] = stage /\ ~held'[r]
      /\ stage # "over" => snapshot'[r] = snapshot[r]
  BY <1>1, <1>2 DEF TypeOK
<1>5. TypeOK'
  <2>1. Len(limiters) \in Nat /\ Len(limiters') = Len(limiters)
    BY <1>3, LengthNat DEF SameConfigs
  <2>2. /\ lim' \in [Requests -> 0 .. Len(limiters')]
        /\ slot' \in [Requests -> 0 .. Len(limiters')]
        /\ held' \in [Requests -> BOOLEAN]
    BY <1>2, <2>1 DEF TypeOK
  <2>3. snapshot' \in [Requests -> Configs \cup {Deleted}]
    BY <1>2 DEF TypeOK
  <2>4. pc' \in [Requests -> Stages]
    BY <1>2 DEF TypeOK, Stages
  <2> QED BY <1>3, <2>1, <2>2, <2>3, <2>4 DEF TypeOK, channel, clockVars
<1>6. Queues'
  <2>1. \A j \in DOMAIN limiters : \A q \in Range(limiters[j].queue) : q \in Requests \ {r}
    BY LimiterFields DEF Queues
  <2> QED BY <1>3, <1>4, <2>1 DEF Queues, SameConfigs
<1>7. Counters'
  <2>1. SUFFICES ASSUME NEW j \in DOMAIN limiters
                 PROVE  /\ limiters'[j].inFlight = Cardinality(Holders(j)')
                        /\ limiters'[j].inFlight <= limiters'[j].cfg.capacity
                        /\ limiters'[j].queue # <<>> =>
                              limiters'[j].inFlight = limiters'[j].cfg.capacity
    BY <1>3 DEF Counters, SameConfigs
  <2>2. /\ limiters[j].inFlight = Cardinality(Holders(j))
        /\ limiters[j].inFlight <= limiters[j].cfg.capacity
        /\ limiters[j].queue # <<>> => limiters[j].inFlight = limiters[j].cfg.capacity
        /\ limiters[j].inFlight \in Nat /\ limiters[j].cfg.capacity \in Nat
        /\ limiters'[j].cfg = limiters[j].cfg
        /\ limiters'[j].queue # <<>> => limiters[j].queue # <<>>
    BY <1>3, LimiterFields DEF Counters, SameConfigs
  <2>3. CASE releases /\ j = slot[r]
    <3>1. limiters' = Released(j) /\ woken = Woken(j) /\ j # 0
      BY <1>1, <1>2, <2>3
    <3>2. r \in Holders(j) /\ Holders(j)' = (Holders(j) \ {r}) \cup woken
      BY <1>1, <1>4, <2>3 DEF Holders
    <3>3. /\ IsFiniteSet(Holders(j) \ {r})
          /\ Cardinality(Holders(j) \ {r}) = Cardinality(Holders(j)) - 1
      BY <3>2, HoldersFinite, FS_RemoveElement
    <3>4. CASE woken = {} /\ limiters[j].queue = <<>>
               /\ limiters'[j].inFlight = limiters[j].inFlight - 1
      BY <2>2, <3>2, <3>3, <3>4
    <3>5. CASE /\ \E q \in Requests : woken = {q}
               /\ limiters'[j].inFlight = limiters[j].inFlight
      <4>1. PICK q \in Requests : woken = {q}
        BY <3>5
      <4>2. q \notin Holders(j) \ {r}
        BY <1>1, <4>1 DEF Holders
      <4>3. Cardinality(Holders(j)') = Cardinality(Holders(j)) - 1 + 1
        BY <3>2, <3>3, <4>1, <4>2, FS_AddElement
      <4> QED BY <2>2, <3>5, <4>3, HoldersFinite
    <3>6. slot[r] # 0 /\ held[r] /\ j = slot[r] /\ limiters' = Released(j)
      BY <2>3, <3>1
    <3>7. limiters'[j].inFlight = IF Woken(j) = {} THEN limiters[j].inFlight - 1
                                  ELSE limiters[j].inFlight
      BY <3>6, ReleaseCounts
    <3>8. /\ woken # {} => \E q \in Requests : woken = {q}
          /\ woken = {} => limiters[j].queue = <<>>
      BY <3>1 DEF Woken
    <3> QED BY <3>1, <3>4, <3>5, <3>7, <3>8
  <2>4. CASE ~(releases /\ j = slot[r])
    <3>1. Holders(j)' = Holders(j)
      <4>1. r \notin Holders(j) /\ r \notin Holders(j)'
        BY <1>4, <2>4, LimiterFields DEF Holders
      <4>2. \A q \in woken : q \notin Holders(j) /\ q \notin Holders(j)'
        BY <1>1, <1>4, <2>4 DEF Holders
      <4>3. \A q \in Requests \ {r} : q \notin woken => (q \in Holders(j)' <=> q \in Holders(j))
        BY <1>4 DEF Holders
      <4> QED BY <4>1, <4>2, <4>3 DEF Holders
    <3>2. limiters'[j] = limiters[j]
      <4>1. CASE releases
        <5>1. slot[r] \in DOMAIN limiters /\ limiters' = Released(slot[r])
          BY <1>2, <4>1, KnownLimiters
        <5> QED BY <2>4, <4>1, <5>1, ReleaseHandsOver
      <4>2. CASE ~releases
        BY <1>2, <4>2
      <4> QED BY <4>1, <4>2
    <3> QED BY <2>2, <3>1, <3>2
  <2> QED BY <2>3, <2>4
<1>8. HeldSlots'
  <2>1. \A q \in woken : lim[q] # 0
    BY <1>1 DEF Fitting
  <2> QED BY <1>4, <2>1 DEF HeldSlots
<1>9. Fitting'
  <2>1. ASSUME NEW q \in woken
        PROVE  /\ lim[q] \in DOMAIN limiters
               /\ limiters'[lim[q]].cfg = extractLimiterConfig(snapshot[q])
               /\ q \notin connected
    BY <1>1, <1>3, KnownLimiters DEF Fitting, SameConfigs
  <2>2. ASSUME NEW q \in Requests \ {r}, q \notin woken
        PROVE  /\ pc[q] \in {"acquire", "queued"} =>
                     limiters'[lim[q]].cfg = limiters[lim[q]].cfg
               /\ held[q] => limiters'[slot[q]].cfg = limiters[slot[q]].cfg
    BY <1>3, KnownLimiters DEF SameConfigs
  <2>3. r \notin connected
    BY DEF Fitting
  <2> QED BY <1>1, <1>4, <2>1, <2>2, <2>3 DEF Fitting
<1>10. Unchanged'
  BY <1>1, <1>3, <1>4, UnchangedKept
<1>11. Budget'
  BY DEF Budget, MinuteBudget, clockVars
<1> QED BY <1>5, <1>6, <1>7, <1>8, <1>9, <1>10, <1>11

-----------------------------------------------------------------------------
(* The theorems.                                                           *)

LEMMA StepInvariant == IInv /\ [Next]_vars => IInv'
<1> SUFFICES ASSUME IInv, [Next]_vars PROVE IInv'
  OBVIOUS
<1>1. CASE UpdateChannel \/ DeleteChannel \/ Forget \/ Reload \/ Tick
  BY <1>1, ChannelStepInvariant
<1>2. ASSUME NEW r \in Requests, Arrive(r) \/ LeaveQueue(r)
      PROVE  IInv'
  BY <1>2, ArriveInvariant, LeaveQueueInvariant
<1>3. ASSUME NEW r \in Requests, LookupUnlimited(r) \/ LookupFast(r) \/ LookupCreate(r)
      PROVE  IInv'
  BY <1>3, LookupUnlimitedInvariant, LookupFastInvariant, LookupCreateInvariant
<1>4. ASSUME NEW r \in Requests,
             Acquire(r) \/ TryAcquireRequest(r) \/ Dial(r) \/ CloseUpstream(r)
      PROVE  IInv'
  BY <1>4, AcquireInvariant, TryAcquireRequestInvariant, ConnectionStepInvariant
<1>5. ASSUME NEW r \in Requests, ReleaseByHook(r)
      PROVE  IInv'
  <2>1. pc[r] = "closed" /\ UNCHANGED <<channel, entry, tries, connected, clockVars>>
    BY <1>5 DEF ReleaseByHook
  <2>2. PICK stage \in {"over", "failing"} : ReleaseSlot(r, stage)
    BY <1>5 DEF ReleaseByHook
  <2>3. tries' \in [Requests -> 0 .. MaxTries]
    BY <2>1 DEF IInv, TypeOK
  <2> QED BY <2>1, <2>2, <2>3, ReleaseInvariant
<1>6. ASSUME NEW r \in Requests, RawError(r)
      PROVE  IInv'
  <2>1. pc[r] = "failing" /\ UNCHANGED <<channel, entry, connected, clockVars>>
    BY <1>6 DEF RawError
  <2>2. PICK stage \in {"over", "lookup"} :
            /\ ReleaseSlot(r, stage)
            /\ \/ tries[r] < MaxTries /\ tries' = [tries EXCEPT ![r] = @ + 1]
               \/ UNCHANGED tries
    BY <1>6 DEF RawError
  <2>3. tries' \in [Requests -> 0 .. MaxTries]
    <3>1. tries \in [Requests -> 0 .. MaxTries] /\ MaxTries \in Nat
      BY AdmissionAssumption DEF IInv, TypeOK
    <3>2. tries[r] < MaxTries => tries[r] + 1 \in 0 .. MaxTries
      BY <3>1
    <3> QED BY <2>2, <3>1, <3>2
  <2> QED BY <2>1, <2>2, <2>3, ReleaseInvariant
<1>7. CASE UNCHANGED vars
  <2>1. TypeOK'
    BY <1>7 DEF IInv, TypeOK, vars, channel, registry, request, clockVars
  <2>2. Queues' /\ Counters' /\ HeldSlots' /\ Fitting'
    BY <1>7 DEF IInv, Queues, Counters, Holders, HeldSlots, Fitting, vars, registry, request
  <2>3. Unchanged' /\ Budget'
    BY <1>7 DEF IInv, Unchanged, Budget, MinuteBudget, vars, channel, registry, request,
                clockVars
  <2> QED BY <2>1, <2>2, <2>3 DEF IInv
<1> QED BY <1>1, <1>2, <1>3, <1>4, <1>5, <1>6, <1>7 DEF Next, AttemptStep

(* The capacity bounds the open connections: those of a limiter's holders  *)
(* are among its holders.                                                  *)
LEMMA ConnectionsWithinCapacity == IInv => ConnectionsHaveSlots
<1> SUFFICES ASSUME IInv PROVE ConnectionsHaveSlots
  OBVIOUS
<1>1. ASSUME NEW r \in connected, snapshot[r].capacity > 0
      PROVE  held[r] /\ limiters[slot[r]].cfg = extractLimiterConfig(snapshot[r])
  BY <1>1 DEF IInv, Fitting, TypeOK
<1>2. ASSUME NEW i \in DOMAIN limiters
      PROVE  Cardinality(Holders(i) \cap connected) <= limiters[i].cfg.capacity
  <2>1. /\ Cardinality(Holders(i) \cap connected) \in Nat
        /\ Cardinality(Holders(i) \cap connected) <= Cardinality(Holders(i))
    <3>1. Holders(i) \cap connected \subseteq Holders(i)
      OBVIOUS
    <3> QED BY <3>1, HoldersFinite, FS_Subset, FS_CardinalityType
  <2>2. /\ limiters[i].inFlight = Cardinality(Holders(i))
        /\ limiters[i].inFlight <= limiters[i].cfg.capacity
        /\ limiters[i].inFlight \in Nat /\ limiters[i].cfg.capacity \in Nat
    BY LimiterFields DEF IInv, Counters
  <2> QED BY <2>1, <2>2
<1> QED BY <1>1, <1>2 DEF ConnectionsHaveSlots

(* While someone is queued, every slot of that limiter has a holder.       *)
LEMMA HoldersWhileQueued == IInv => WaitersHaveHolders
<1> SUFFICES ASSUME IInv, NEW i \in DOMAIN limiters, limiters[i].queue # <<>>
             PROVE  Cardinality(Holders(i)) >= limiters[i].cfg.capacity
  BY DEF WaitersHaveHolders
<1>1. limiters[i].cfg.capacity \in Nat /\ limiters[i].cfg.capacity = Cardinality(Holders(i))
  BY LimiterFields DEF IInv, Counters
<1> QED BY <1>1

(* Every variable of the admission path keeps its type: indices stay       *)
(* within the limiters built, and every limiter has a configuration.       *)
THEOREM TypeCorrect == Spec => []TypeOK
<1>1. IInv => TypeOK
  BY DEF IInv
<1> QED BY InitInvariant, StepInvariant, <1>1, PTL DEF Spec

(* Every generation of the channel's limiter counts exactly the attempts   *)
(* that hold one of its slots.                                             *)
THEOREM SlotsAlwaysExact == Spec => []SlotsExact
<1>1. IInv => SlotsExact
  BY DEF IInv, SlotsExact, Counters, HeldSlots
<1> QED BY InitInvariant, StepInvariant, <1>1, PTL DEF Spec

(* Connections to a limited channel hold slots of a limiter with their own *)
(* snapshot's limits and never outnumber its capacity.                     *)
THEOREM ConnectionsAlwaysHaveSlots == Spec => []ConnectionsHaveSlots
BY InitInvariant, StepInvariant, ConnectionsWithinCapacity, PTL DEF Spec

(* First requests that arrive together build one limiter.                  *)
THEOREM OneLimiterForFirstRequests == Spec => []OneLimiterUntilChanged
<1>1. IInv => OneLimiterUntilChanged
  BY DEF IInv, OneLimiterUntilChanged, Unchanged
<1> QED BY InitInvariant, StepInvariant, <1>1, PTL DEF Spec

(* The tracker's window counts exactly the attempts let through in this    *)
(* minute, within the largest limit any snapshot allows.                   *)
THEOREM MinuteBudgetExact == Spec => []MinuteBudget
<1>1. IInv => MinuteBudget
  BY DEF IInv, Budget
<1> QED BY InitInvariant, StepInvariant, <1>1, PTL DEF Spec

(* A waiter always has a holder that will wake it, at a limiter dropped    *)
(* from the registry too.                                                  *)
THEOREM NobodyWaitsInVain == Spec => []WaitersHaveHolders
BY InitInvariant, StepInvariant, HoldersWhileQueued, PTL DEF Spec
=============================================================================
