--------------------------- MODULE ChannelAdmission ---------------------------
(***************************************************************************)
(* Admission of attempts to one upstream channel: the registry that keeps  *)
(* the channel's limiter (orchestrator/channel_limiter_manager.go), the    *)
(* middleware that holds one slot for each attempt                         *)
(* (connection_tracking.go) and the request rate checked after it          *)
(* (rate_limit_admission.go, channel_request_tracker.go).                  *)
(*                                                                         *)
(* Every request works on the snapshot of the channel it was routed with,  *)
(* whatever administrators store meanwhile.  A limiter is the first come   *)
(* first served semaphore that ChannelLimiter implements: Acquire and      *)
(* Release are single steps, and its counter is anonymous, as in the code. *)
(***************************************************************************)
EXTENDS Naturals, Sequences, SequencesExt, FiniteSets

CONSTANTS
    Requests,
    Configs,      \* limiterConfig and RPM of a channel: [capacity, queueSize, rpm]
    MaxTries,     \* attempts of one request on this channel
    MaxChanges,   \* bound: changes of the stored channel
    MaxMinutes    \* bound: the clock, in minutes

\* capacity 0: no concurrency limit; queueSize 0: an unbounded queue; rpm 0: no
\* limit of the rate.
ASSUME AdmissionAssumption ==
    /\ IsFiniteSet(Requests)
    /\ Configs # {}
    /\ \A c \in Configs : c.capacity \in Nat /\ c.queueSize \in Nat /\ c.rpm \in Nat
    /\ MaxTries \in Nat \ {0}
    /\ MaxChanges \in Nat
    /\ MaxMinutes \in Nat

Deleted == [capacity |-> 0, queueSize |-> 0, rpm |-> 0, deleted |-> TRUE]

VARIABLES
    stored,     \* the channel row, or Deleted
    cached,     \* the channel in enabledChannelsCache, or Deleted
    forget,     \* a deletion is about to call Forget
    changes,    \* changes of the row so far
    limiters,   \* every limiter built: [cfg, inFlight, queue]
    entry,      \* the index of the registry's limiter, 0 without an entry
    pc,         \* where each request is
    snapshot,   \* the channel a request was routed with
    tries,      \* attempts a request has begun
    lim,        \* the limiter GetOrCreate gave this attempt, 0 for nil
    slot,       \* m.current: the limiter of the slot, 0 when none was stored
    held,       \* the sync.Once of that slot has not run
    connected,  \* requests with a connection to the provider
    minute,     \* the clock
    window,     \* the tracker's rateLimitWindow: [start, requests]
    sent        \* attempts let through the rate limit in this minute

registry == <<limiters, entry>>
channel == <<stored, cached, forget, changes>>
clockVars == <<minute, window, sent>>
request == <<pc, snapshot, tries, lim, slot, held, connected>>
vars == <<channel, registry, request, clockVars>>

Stages == {"new", "lookup", "create", "acquire", "queued", "rate", "dial",
           "open", "closed", "failing", "over"}

Init ==
    /\ stored \in Configs
    /\ cached = stored
    /\ forget = FALSE
    /\ changes = 0
    /\ limiters = <<>>
    /\ entry = 0
    /\ pc = [r \in Requests |-> "new"]
    /\ snapshot = [r \in Requests |-> Deleted]
    /\ tries = [r \in Requests |-> 0]
    /\ lim = [r \in Requests |-> 0]
    /\ slot = [r \in Requests |-> 0]
    /\ held = [r \in Requests |-> FALSE]
    /\ connected = {}
    /\ minute = 0
    /\ window = [start |-> 0, requests |-> 0]
    /\ sent = 0

Goto(r, stage) == pc' = [pc EXCEPT ![r] = stage]

-----------------------------------------------------------------------------
(* The channel changes under the requests.                                 *)

UpdateChannel ==
    /\ changes < MaxChanges
    /\ stored # Deleted
    /\ stored' \in Configs \ {stored}
    /\ changes' = changes + 1
    /\ UNCHANGED <<cached, forget, registry, request, clockVars>>

DeleteChannel ==
    /\ changes < MaxChanges
    /\ stored # Deleted
    /\ stored' = Deleted
    /\ forget' = TRUE
    /\ changes' = changes + 1
    /\ UNCHANGED <<cached, registry, request, clockVars>>

\* Only deletion and expiry call it.
Forget ==
    /\ forget
    /\ forget' = FALSE
    /\ entry' = 0
    /\ UNCHANGED <<stored, cached, changes, limiters, request, clockVars>>

\* The notified reload of the enabled channels, or its periodic one.
Reload ==
    /\ cached # stored
    /\ cached' = stored
    /\ UNCHANGED <<stored, forget, changes, registry, request, clockVars>>

Tick ==
    /\ minute < MaxMinutes
    /\ minute' = minute + 1
    /\ sent' = 0
    /\ UNCHANGED <<channel, registry, request, window>>

-----------------------------------------------------------------------------
(* GetOrCreate.                                                            *)

\* The parameters of a channel's limiter.
extractLimiterConfig(ch) == [capacity |-> ch.capacity, queueSize |-> ch.queueSize]

\* Mutant: any limiter of the channel will do.
Fits_AnyLimiter(r) == entry # 0

\* The registry's entry fits the snapshot of r.
Fits(r) == entry # 0 /\ limiters[entry].cfg = extractLimiterConfig(snapshot[r])

\* A request is routed to the channel.
Arrive(r) ==
    /\ pc[r] = "new"
    /\ cached # Deleted
    /\ snapshot' = [snapshot EXCEPT ![r] = cached]
    /\ tries' = [tries EXCEPT ![r] = 1]
    /\ Goto(r, "lookup")
    /\ UNCHANGED <<channel, registry, lim, slot, held, connected, clockVars>>

\* No concurrency limit: the entry is dropped and the attempt is not queued.
LookupUnlimited(r) ==
    /\ pc[r] = "lookup"
    /\ snapshot[r].capacity = 0
    /\ entry' = 0
    /\ lim' = [lim EXCEPT ![r] = 0]
    /\ Goto(r, "rate")
    /\ UNCHANGED <<channel, limiters, snapshot, tries, slot, held, connected,
                   clockVars>>

\* Under the read lock.
LookupFast(r) ==
    /\ pc[r] = "lookup"
    /\ snapshot[r].capacity > 0
    /\ IF Fits(r)
       THEN lim' = [lim EXCEPT ![r] = entry] /\ Goto(r, "acquire")
       ELSE UNCHANGED lim /\ Goto(r, "create")
    /\ UNCHANGED <<channel, registry, snapshot, tries, slot, held, connected,
                   clockVars>>

\* Mutant: the entry is not looked at again.
LookupCreate_Unchecked(r) ==
    /\ pc[r] = "create"
    /\ limiters' = Append(limiters,
            [cfg |-> extractLimiterConfig(snapshot[r]), inFlight |-> 0, queue |-> <<>>])
    /\ entry' = Len(limiters')
    /\ lim' = [lim EXCEPT ![r] = entry']
    /\ Goto(r, "acquire")
    /\ UNCHANGED <<channel, snapshot, tries, slot, held, connected, clockVars>>

\* Under the write lock, where the entry is looked at again.
LookupCreate(r) ==
    /\ pc[r] = "create"
    /\ IF Fits(r)
       THEN UNCHANGED registry
       ELSE /\ limiters' = Append(limiters,
                 [cfg |-> extractLimiterConfig(snapshot[r]), inFlight |-> 0,
                  queue |-> <<>>])
            /\ entry' = Len(limiters')
    /\ lim' = [lim EXCEPT ![r] = entry']
    /\ Goto(r, "acquire")
    /\ UNCHANGED <<channel, snapshot, tries, slot, held, connected, clockVars>>

-----------------------------------------------------------------------------
(* One attempt: a slot, a place in the minute, a connection.               *)

QueueIsFull(l) == l.cfg.queueSize > 0 /\ Len(l.queue) >= l.cfg.queueSize

\* The slot is stored for the attempt.
Acquire(r) ==
    /\ pc[r] = "acquire"
    /\ LET l == limiters[lim[r]]
       IN  \/ /\ l.inFlight < l.cfg.capacity
              /\ limiters' = [limiters EXCEPT ![lim[r]].inFlight = @ + 1]
              /\ slot' = [slot EXCEPT ![r] = lim[r]]
              /\ held' = [held EXCEPT ![r] = TRUE]
              /\ Goto(r, "rate")
           \/ /\ l.inFlight >= l.cfg.capacity
              /\ QueueIsFull(l)
              /\ Goto(r, "failing")
              /\ UNCHANGED <<limiters, slot, held>>
           \/ /\ l.inFlight >= l.cfg.capacity
              /\ ~QueueIsFull(l)
              /\ limiters' = [limiters EXCEPT ![lim[r]].queue = Append(@, r)]
              /\ Goto(r, "queued")
              /\ UNCHANGED <<slot, held>>
    /\ UNCHANGED <<channel, entry, snapshot, tries, lim, connected, clockVars>>

\* The queue timeout, or the end of the request's context.
LeaveQueue(r) ==
    /\ pc[r] = "queued"
    /\ \E k \in DOMAIN limiters[lim[r]].queue :
          /\ limiters[lim[r]].queue[k] = r
          /\ limiters' = [limiters EXCEPT ![lim[r]].queue = RemoveAt(@, k)]
    /\ Goto(r, "failing")
    /\ UNCHANGED <<channel, entry, snapshot, tries, lim, slot, held, connected,
                   clockVars>>

\* Mutant: the minute moves on and the count stays.
CurrentWindow_KeepsCount == [start |-> minute, requests |-> window.requests]

\* getOrResetWindow
CurrentWindow ==
    IF window.start = minute THEN window
    ELSE [start |-> minute, requests |-> 0]

\* TryAcquireRequest, only where the snapshot limits the rate.
TryAcquireRequest(r) ==
    /\ pc[r] = "rate"
    /\ \/ /\ snapshot[r].rpm = 0
          /\ Goto(r, "dial")
          /\ UNCHANGED <<window, sent>>
       \/ /\ snapshot[r].rpm > 0
          /\ CurrentWindow.requests < snapshot[r].rpm
          /\ window' = [CurrentWindow EXCEPT !.requests = @ + 1]
          /\ sent' = sent + 1
          /\ Goto(r, "dial")
       \/ /\ snapshot[r].rpm > 0
          /\ CurrentWindow.requests >= snapshot[r].rpm
          /\ window' = CurrentWindow
          /\ Goto(r, "failing")
          /\ UNCHANGED sent
    /\ UNCHANGED <<channel, registry, snapshot, tries, lim, slot, held,
                   connected, minute>>

\* The provider answers, or it cannot be reached.
Dial(r) ==
    /\ pc[r] = "dial"
    /\ \/ connected' = connected \cup {r} /\ Goto(r, "open")
       \/ UNCHANGED connected /\ Goto(r, "failing")
    /\ UNCHANGED <<channel, registry, snapshot, tries, lim, slot, held,
                   clockVars>>

\* channelLimiterStream.Close closes the upstream first; a plain answer was
\* read to its end before OnOutboundLlmResponse.
CloseUpstream(r) ==
    /\ pc[r] = "open"
    /\ connected' = connected \ {r}
    /\ Goto(r, "closed")
    /\ UNCHANGED <<channel, registry, snapshot, tries, lim, slot, held,
                   clockVars>>

-----------------------------------------------------------------------------
(* The release of the attempt's slot, from any of its hooks.               *)

\* Release of limiter i: its oldest waiter gets the slot, and its goroutine goes
\* on; otherwise the counter goes down.
Released(i) ==
    IF limiters[i].queue # <<>>
    THEN [limiters EXCEPT ![i].queue = Tail(@)]
    ELSE [limiters EXCEPT ![i].inFlight = @ - 1]

Woken(i) == IF limiters[i].queue # <<>> THEN {Head(limiters[i].queue)} ELSE {}

\* Mutant: the hooks that overlap each release.
ReleaseSlot_Twice(r, stage) ==
    LET releases == slot[r] # 0
        woken == IF releases THEN Woken(slot[r]) ELSE {}
        kept == IF stage = "over" THEN 0 ELSE slot[r]
    IN  /\ limiters' = IF releases THEN Released(slot[r]) ELSE limiters
        /\ held' = [q \in Requests |-> q \in woken \/ (q # r /\ held[q])]
        /\ slot' = [q \in Requests |-> IF q \in woken THEN lim[q]
                                       ELSE IF q = r THEN kept ELSE slot[q]]
        /\ pc' = [q \in Requests |-> IF q \in woken THEN "rate"
                                     ELSE IF q = r THEN stage ELSE pc[q]]
        /\ snapshot' = [snapshot EXCEPT ![r] = IF stage = "over" THEN Deleted ELSE @]
        /\ lim' = [lim EXCEPT ![r] = IF stage = "over" THEN 0 ELSE @]

\* Mutant: the slot goes to the registry's limiter only.
ReleaseSlot_OnlyRegistered(r, stage) ==
    LET releases == slot[r] # 0 /\ slot[r] = entry /\ held[r]
        woken == IF releases THEN Woken(slot[r]) ELSE {}
        kept == IF stage = "over" THEN 0 ELSE slot[r]
    IN  /\ limiters' = IF releases THEN Released(slot[r]) ELSE limiters
        /\ held' = [q \in Requests |-> q \in woken \/ (q # r /\ held[q])]
        /\ slot' = [q \in Requests |-> IF q \in woken THEN lim[q]
                                       ELSE IF q = r THEN kept ELSE slot[q]]
        /\ pc' = [q \in Requests |-> IF q \in woken THEN "rate"
                                     ELSE IF q = r THEN stage ELSE pc[q]]
        /\ snapshot' = [snapshot EXCEPT ![r] = IF stage = "over" THEN Deleted ELSE @]
        /\ lim' = [lim EXCEPT ![r] = IF stage = "over" THEN 0 ELSE @]

\* releaseSlot under its sync.Once, after which r goes to stage; a request that
\* is over is forgotten.
ReleaseSlot(r, stage) ==
    LET releases == slot[r] # 0 /\ held[r]
        woken == IF releases THEN Woken(slot[r]) ELSE {}
        kept == IF stage = "over" THEN 0 ELSE slot[r]
    IN  /\ limiters' = IF releases THEN Released(slot[r]) ELSE limiters
        /\ held' = [q \in Requests |-> q \in woken \/ (q # r /\ held[q])]
        /\ slot' = [q \in Requests |-> IF q \in woken THEN lim[q]
                                       ELSE IF q = r THEN kept ELSE slot[q]]
        /\ pc' = [q \in Requests |-> IF q \in woken THEN "rate"
                                     ELSE IF q = r THEN stage ELSE pc[q]]
        /\ snapshot' = [snapshot EXCEPT ![r] = IF stage = "over" THEN Deleted ELSE @]
        /\ lim' = [lim EXCEPT ![r] = IF stage = "over" THEN 0 ELSE @]

\* The release when the answer is there or the stream is closed; the attempt may
\* still fail afterwards.
ReleaseByHook(r) ==
    /\ pc[r] = "closed"
    /\ \E stage \in {"over", "failing"} : ReleaseSlot(r, stage)
    /\ UNCHANGED <<channel, entry, tries, connected, clockVars>>

\* OnOutboundRawError: releases whatever slot was stored last, which may have
\* been released before, and another attempt follows or not.
RawError(r) ==
    /\ pc[r] = "failing"
    /\ \/ /\ tries[r] < MaxTries
          /\ tries' = [tries EXCEPT ![r] = @ + 1]
          /\ ReleaseSlot(r, "lookup")
       \/ UNCHANGED tries /\ ReleaseSlot(r, "over")
    /\ UNCHANGED <<channel, entry, connected, clockVars>>

-----------------------------------------------------------------------------
AttemptStep(r) ==
    \/ LookupUnlimited(r)
    \/ LookupFast(r)
    \/ LookupCreate(r)
    \/ Acquire(r)
    \/ TryAcquireRequest(r)
    \/ Dial(r)
    \/ CloseUpstream(r)
    \/ ReleaseByHook(r)
    \/ RawError(r)

Next ==
    \/ UpdateChannel
    \/ DeleteChannel
    \/ Forget
    \/ Reload
    \/ Tick
    \/ \E r \in Requests : Arrive(r) \/ LeaveQueue(r) \/ AttemptStep(r)

Spec == Init /\ [][Next]_vars

-----------------------------------------------------------------------------
(* Properties.                                                             *)

Limiter ==
    [cfg : [capacity : Nat, queueSize : Nat], inFlight : Nat, queue : Seq(Requests)]

TypeOK ==
    /\ stored \in Configs \cup {Deleted}
    /\ cached \in Configs \cup {Deleted}
    /\ forget \in BOOLEAN
    /\ changes \in 0 .. MaxChanges
    /\ limiters \in Seq(Limiter)
    /\ entry \in 0 .. Len(limiters)
    /\ pc \in [Requests -> Stages]
    /\ snapshot \in [Requests -> Configs \cup {Deleted}]
    /\ tries \in [Requests -> 0 .. MaxTries]
    /\ lim \in [Requests -> 0 .. Len(limiters)]
    /\ slot \in [Requests -> 0 .. Len(limiters)]
    /\ held \in [Requests -> BOOLEAN]
    /\ connected \in SUBSET Requests
    /\ minute \in 0 .. MaxMinutes
    /\ window \in [start : 0 .. MaxMinutes, requests : Nat]
    /\ sent \in Nat

Holders(i) == {r \in Requests : slot[r] = i /\ held[r]}

(* Every limiter, the orphaned ones included, counts exactly the attempts   *)
(* that hold a slot of it: none is released twice by the hooks that overlap,*)
(* none is kept by an attempt that is over, and none goes to another        *)
(* generation's limiter.                                                    *)
SlotsExact ==
    /\ \A i \in DOMAIN limiters : limiters[i].inFlight = Cardinality(Holders(i))
    /\ \A r \in Requests :
          held[r] => pc[r] \in {"rate", "dial", "open", "closed", "failing"}

(* A connection to a limited channel is open only while its attempt holds a *)
(* slot, and of a limiter with the limits of its own snapshot: connections  *)
(* never outnumber the capacity a waiter was promised.                      *)
ConnectionsHaveSlots ==
    /\ \A r \in connected :
          snapshot[r].capacity > 0 =>
              /\ held[r]
              /\ limiters[slot[r]].cfg = extractLimiterConfig(snapshot[r])
    /\ \A i \in DOMAIN limiters :
          Cardinality(Holders(i) \cap connected) <= limiters[i].cfg.capacity

(* As long as the channel has not been changed, all attempts share one      *)
(* limiter, so the capacity bounds the whole channel: first requests that   *)
(* arrive together do not build one each.                                   *)
OneLimiterUntilChanged == changes = 0 => Len(limiters) <= 1

(* The minute's budget is exact: the window counts the attempts that went   *)
(* on to the provider in this minute, and only them, and no more than the   *)
(* largest limit any snapshot allows.                                       *)
MinuteBudget ==
    /\ window.start = minute => window.requests = sent
    /\ window.start # minute => sent = 0
    /\ \E c \in Configs : sent <= c.rpm

(* Nobody waits in vain, not even at a limiter that a change of the channel *)
(* dropped from the registry: while someone is queued there, all its slots  *)
(* are held by attempts that are on their way, each of which releases into  *)
(* the limiter it came from.                                                *)
WaitersHaveHolders ==
    \A i \in DOMAIN limiters :
        limiters[i].queue # <<>> => Cardinality(Holders(i)) >= limiters[i].cfg.capacity
=============================================================================
