--------------------------- MODULE StreamAttempts ---------------------------
(***************************************************************************)
(* The attempts of one logical request whose upstream answer is a stream:  *)
(* a client stream (mode "stream") or a plain answer aggregated from a     *)
(* forced upstream stream (mode "aggregate").  pipeline.Process replaces   *)
(* an attempt by another route until the stream is accepted, and the       *)
(* persistence, metering and affinity wrappers of every attempt write the  *)
(* same request state when they are closed.  The concurrent parties are    *)
(* the goroutine of the request, the first-event timer, the provider and   *)
(* the client, who may leave at any moment.                                *)
(*                                                                         *)
(* Data: an upstream event is one of Kinds.  An event that carries both    *)
(* content and a finish reason is a content event and then a finish event. *)
(***************************************************************************)
EXTENDS Naturals, Sequences

CONSTANTS
    MaxAttempts,   \* attempts of one request: 1 + MaxChannelRetries
    ProbeLimit,    \* maxPreCommitRetryProbeEvents, maxPreReadEvents without retries
    MaxEvents      \* bound on the events a provider sends in one attempt

ASSUME AttemptsAssumption ==
    /\ MaxAttempts \in Nat \ {0}
    /\ ProbeLimit \in Nat \ {0}
    /\ MaxEvents \in Nat \ {0}

Attempts == 1..MaxAttempts

\* "meta": a chunk without output (a role, a running usage count); "finish": a
\* finish reason; "incomplete": a Responses terminal that reports the answer
\* as cut short; "done": the end sentinel, which the Responses transformer
\* appends after either terminal.
Kinds == {"meta", "content", "finish", "incomplete", "done"}

Terminal == {"finish", "done"}

Status == {"processing", "completed", "failed", "canceled"}

Errors == {"none", "timeout", "canceled", "upstream", "schema", "empty",
           "eof", "local"}

VARIABLES
    mode,              \* what the client asked for
    showsIncomplete,   \* the client's format can report a cut-off answer
    attempt,           \* the attempt in progress
    stage,             \* where the goroutine of the request is
    err,               \* why the attempt failed (lastErr)
    guard,             \* firstEventTimeoutGuard.state, "none" without a guard
    ctxLive,           \* the context of this attempt has not been cancelled
    clientGone,        \* the context of the request has been cancelled
    broken,            \* the stream being closed ended with an error
    upstream,          \* the connection of every attempt
    seen,              \* kinds of the events read in every attempt
    count,             \* events read in this attempt
    buffered,          \* probed events not yet handed to the client
    delivered,         \* kinds the inbound stream handed out in this attempt
    streamCompleted,   \* state.StreamCompleted
    providerCompleted, \* state.OutboundStreamCompleted
    accepted,          \* state.AttemptAccepted
    semantic,          \* state.AttemptSemanticOutput
    exec,              \* the execution row of every attempt
    request,           \* the request row
    usage,             \* the attempt the usage log is charged to, 0: none
    affinity,          \* the attempt the session is bound to, 0: none
    answer             \* what pipeline.Process returned

asked == <<mode, showsIncomplete>>
attemptVars == <<attempt, guard, ctxLive, seen, count, buffered, delivered>>
flagVars == <<streamCompleted, providerCompleted, accepted, semantic>>
rowVars == <<exec, request, usage, affinity>>
vars == <<mode, showsIncomplete, stage, err, clientGone, broken,
          upstream, answer, attemptVars, flagVars, rowVars>>

TypeOK ==
    /\ mode \in {"stream", "aggregate"}
    /\ showsIncomplete \in BOOLEAN
    /\ attempt \in Attempts
    /\ stage \in {"transform", "dial", "probe", "ready", "serving",
                  "aggregate", "closing", "failed", "ended"}
    /\ err \in Errors
    /\ guard \in {"none", "pending", "completed", "timedOut"}
    /\ ctxLive \in BOOLEAN
    /\ clientGone \in BOOLEAN
    /\ broken \in BOOLEAN
    /\ upstream \in [Attempts -> {"none", "open", "closed"}]
    /\ seen \in [Attempts -> SUBSET Kinds]
    /\ count \in 0..MaxEvents
    /\ buffered \in Seq(Kinds)
    /\ delivered \in SUBSET Kinds
    /\ streamCompleted \in BOOLEAN
    /\ providerCompleted \in BOOLEAN
    /\ accepted \in BOOLEAN
    /\ semantic \in BOOLEAN
    /\ exec \in [Attempts -> Status \cup {"none", "orphaned"}]
    /\ request \in Status
    /\ usage \in {0} \cup Attempts
    /\ affinity \in {0} \cup Attempts
    /\ answer \in {"none", "stream", "response", "error"}

Init ==
    /\ mode \in {"stream", "aggregate"}
    /\ showsIncomplete \in BOOLEAN
    /\ attempt = 1
    /\ stage = "transform"
    /\ err = "none"
    /\ guard = "none"
    /\ ctxLive = TRUE
    /\ clientGone = FALSE
    /\ broken = FALSE
    /\ upstream = [a \in Attempts |-> "none"]
    /\ seen = [a \in Attempts |-> {}]
    /\ count = 0
    /\ buffered = <<>>
    /\ delivered = {}
    /\ streamCompleted = FALSE
    /\ providerCompleted = FALSE
    /\ accepted = FALSE
    /\ semantic = FALSE
    /\ exec = [a \in Attempts |-> "none"]
    /\ request = "processing"
    /\ usage = 0
    /\ affinity = 0
    /\ answer = "none"

-----------------------------------------------------------------------------
(* What closing the wrappers of the current attempt does.  acc is the      *)
(* value of AttemptAccepted at that time.                                  *)

\* The provider reported a usage count among the aggregated chunks.
ReportsUsage == seen[attempt] \cap {"meta", "finish"} # {}

\* A usage log is created once per request, for an accepted attempt that
\* produced output; aggErr: the chunks could not be aggregated.
Metered(acc, aggErr) ==
    IF usage = 0 /\ acc /\ semantic /\ ReportsUsage /\ ~aggErr
    THEN attempt ELSE usage

\* Bug: binds on the provider's completion alone.
BoundOnClose_Unaccepted(acc) ==
    IF affinity # attempt /\ "incomplete" \notin seen[attempt] /\ semantic
         /\ providerCompleted
    THEN attempt ELSE affinity

\* sessionAffinityBindingStream.Close.
BoundOnClose(acc) ==
    IF affinity # attempt /\ "incomplete" \notin seen[attempt] /\ semantic /\ acc
         /\ providerCompleted
    THEN attempt ELSE affinity

\* The provider's protocol ended well, as far as this attempt knows.
ProviderCompleted(aggErr) ==
    providerCompleted \/ (~aggErr /\ "finish" \in seen[attempt])

\* OutboundPersistentStream.Close: the status of the execution.
ExecVerdict(acc, aggErr) ==
    IF ~aggErr /\ "incomplete" \in seen[attempt] THEN "failed"
    ELSE IF ~aggErr /\ acc /\ semantic /\ ProviderCompleted(aggErr)
         THEN "completed"
    ELSE IF ~broken /\ clientGone THEN "canceled" ELSE "failed"

\* InboundPersistentStream.Close: the status of the request.
\* brk: the stream ended with an error that is not a cancellation.  A client
\* format that cannot report a cut-off answer shows it as a finish reason.
RequestVerdict(brk, aggErr) ==
    LET shown == showsIncomplete /\ "incomplete" \in delivered
        finished == delivered \cap {"finish", "incomplete"} # {}
    IN  IF streamCompleted
        THEN IF aggErr \/ shown THEN "failed" ELSE "completed"
        ELSE IF brk \/ (~aggErr /\ shown) THEN "failed"
        ELSE IF ~aggErr /\ finished THEN "completed"
        ELSE IF clientGone THEN "canceled" ELSE "failed"

-----------------------------------------------------------------------------
(* One attempt up to the moment it is accepted.                            *)

\* Bug: the completion of a failed attempt stays for the next one.
ResetProviderAttemptState_Keeps ==
    /\ providerCompleted' = providerCompleted
    /\ accepted' = FALSE
    /\ semantic' = FALSE

\* resetProviderAttemptState, called by TransformRequest and NextChannel.
ResetProviderAttemptState ==
    /\ providerCompleted' = FALSE
    /\ accepted' = FALSE
    /\ semantic' = FALSE

\* TransformRequest fails, before an execution exists.
TransformFails ==
    /\ stage = "transform"
    /\ stage' = "failed"
    /\ err' = "local"
    /\ UNCHANGED <<asked, clientGone, broken, upstream, answer, attemptVars,
                   flagVars, rowVars>>

\* TransformRequest succeeds and the raw request middlewares run: the execution
\* is created, then the channel's queue and its request rate may reject the
\* attempt, whose execution the error middlewares fail.  When the write after
\* the creation fails ("orphaned"), the state never learns of the execution.
Transform(outcome) ==
    /\ stage = "transform"
    /\ streamCompleted' = FALSE
    /\ ResetProviderAttemptState
    /\ exec' = [exec EXCEPT ![attempt] =
                  CASE outcome = "admitted" -> "processing"
                    [] outcome = "rejected" -> "failed"
                    [] outcome = "orphaned" -> "orphaned"]
    /\ stage' = IF outcome = "admitted" THEN "dial" ELSE "failed"
    /\ err' \in IF outcome = "admitted" THEN {"none"}
                ELSE {"local"} \cup (IF clientGone THEN {"canceled"} ELSE {})
    /\ guard' = IF outcome = "admitted" /\ mode = "stream" THEN "pending"
                ELSE "none"
    /\ ctxLive' = TRUE
    /\ count' = 0
    /\ buffered' = <<>>
    /\ delivered' = {}
    /\ UNCHANGED <<asked, clientGone, broken, upstream, answer, attempt, seen,
                   request, usage, affinity>>

\* Bug: the timer stores its state without the exchange.
TimerFires_NoExchange ==
    /\ guard \in {"pending", "completed"}
    /\ stage # "ended"
    /\ guard' = "timedOut"
    /\ UNCHANGED <<asked, stage, err, clientGone, broken, upstream, answer,
                   attempt, ctxLive, seen, count, buffered, delivered,
                   flagVars, rowVars>>

\* Bug: the timer starts once the stream is there.
TimerFires_AfterDial ==
    /\ guard = "pending"
    /\ stage # "dial"
    /\ guard' = "timedOut"
    /\ UNCHANGED <<asked, stage, err, clientGone, broken, upstream, answer,
                   attempt, ctxLive, seen, count, buffered, delivered,
                   flagVars, rowVars>>

\* time.AfterFunc of the guard: it wins or loses the exchange, and cancels
\* the context of the attempt only when it won.
TimerFires ==
    /\ guard = "pending"
    /\ guard' = "timedOut"
    /\ UNCHANGED <<asked, stage, err, clientGone, broken, upstream, answer,
                   attempt, ctxLive, seen, count, buffered, delivered,
                   flagVars, rowVars>>

TimerCancels ==
    /\ guard = "timedOut"
    /\ ctxLive
    /\ ctxLive' = FALSE
    /\ UNCHANGED <<asked, stage, err, clientGone, broken, upstream, answer,
                   attempt, guard, seen, count, buffered, delivered,
                   flagVars, rowVars>>

\* The deadline of a plain answer (withNonStreamTimeout).
DeadlinePasses ==
    /\ mode = "aggregate"
    /\ stage \in {"dial", "probe", "ready", "aggregate"}
    /\ ctxLive
    /\ ~clientGone
    /\ ctxLive' = FALSE
    /\ UNCHANGED <<asked, stage, err, clientGone, broken, upstream, answer,
                   attempt, guard, seen, count, buffered, delivered,
                   flagVars, rowVars>>

\* The request failed because its own timer or deadline passed.
TimedOut == guard = "timedOut" \/ (mode = "aggregate" /\ ~ctxLive)

\* The attempt is given up before it is accepted: the stream, if any, is
\* closed, the guard is completed and cancelled, and the error middlewares
\* write the execution.  status: what closing the inbound stream, when there
\* is one already, makes of the request; acc: AttemptAccepted by then.
FailWith(e, status, acc) ==
    /\ stage' = "failed"
    /\ request' = status
    /\ err' = IF TimedOut THEN "timeout" ELSE e
    /\ guard' = IF guard = "pending" THEN "completed" ELSE guard
    /\ ctxLive' = FALSE
    /\ upstream' = [upstream EXCEPT ![attempt] =
                      IF @ = "open" THEN "closed" ELSE @]
    /\ exec' = [exec EXCEPT ![attempt] = "failed"]
    /\ accepted' = acc
    /\ usage' = Metered(acc, FALSE)
    /\ affinity' = BoundOnClose(acc)
    /\ UNCHANGED <<asked, clientGone, broken, answer, attempt>>

FailAttempt(e, status) == FailWith(e, status, accepted)

\* Bug: the stream that came too late is dropped without being closed.
DialSucceeds_DropsLateStream ==
    /\ stage = "dial"
    /\ upstream' = [upstream EXCEPT ![attempt] = "open"]
    /\ IF guard = "timedOut"
       THEN /\ stage' = "failed"
            /\ err' = "timeout"
            /\ ctxLive' = FALSE
            /\ exec' = [exec EXCEPT ![attempt] = "failed"]
       ELSE /\ stage' = "probe"
            /\ UNCHANGED <<err, ctxLive, exec>>
    /\ UNCHANGED <<asked, clientGone, broken, answer, attempt, guard, seen,
                   count, buffered, delivered, flagVars, request, usage,
                   affinity>>

\* executor.DoStream returns a stream; a guard that timed out meanwhile
\* closes it.
DialSucceeds ==
    /\ stage = "dial"
    /\ upstream' = [upstream EXCEPT ![attempt] =
                      IF guard = "timedOut" THEN "closed" ELSE "open"]
    /\ \/ /\ guard # "timedOut"
          /\ stage' = "probe"
          /\ UNCHANGED <<err, ctxLive, exec>>
       \/ /\ guard = "timedOut"
          /\ stage' = "failed"
          /\ err' = "timeout"
          /\ ctxLive' = FALSE
          /\ exec' = [exec EXCEPT ![attempt] = "failed"]
    /\ UNCHANGED <<asked, clientGone, broken, answer, attempt, guard, seen,
                   count, buffered, delivered, flagVars, request, usage,
                   affinity>>

\* executor.DoStream fails: the provider refused ("schema": a deterministic
\* rejection of the request), or a context was cancelled.
DialFails ==
    /\ stage = "dial"
    /\ \/ \E e \in {"upstream", "schema"} : FailAttempt(e, request)
       \/ clientGone /\ FailAttempt("canceled", request)
    /\ UNCHANGED <<seen, count, buffered, delivered, streamCompleted,
                   providerCompleted, semantic>>

\* What a provider may send next: nothing after the sentinel, a running usage
\* count or the sentinel after a finish reason, the sentinel after a cut-off.
CanFollow(k) ==
    /\ "done" \notin seen[attempt]
    /\ "finish" \in seen[attempt] => k \in {"meta", "done"}
    /\ "incomplete" \in seen[attempt] => k = "done"

\* An event of the upstream is read: the flags the wrappers set.
ReadEvent(k) ==
    /\ count' = count + 1
    /\ seen' = [seen EXCEPT ![attempt] = @ \cup {k}]
    /\ semantic' = (semantic \/ k = "content")
    /\ providerCompleted' =
         (providerCompleted
            \/ (k \in Terminal /\ "incomplete" \notin seen[attempt]))

\* preReadLlmStream reads one more event.
ProbeEvent(k) ==
    /\ stage = "probe"
    /\ count < MaxEvents
    /\ CanFollow(k)
    /\ \/ /\ count = 0 /\ guard = "timedOut"
          /\ FailAttempt("timeout", request)
          /\ UNCHANGED <<seen, count, buffered, delivered, streamCompleted,
                         providerCompleted, semantic>>
       \/ /\ ~(count = 0 /\ guard = "timedOut")
          /\ ReadEvent(k)
          /\ buffered' = Append(buffered, k)
          /\ UNCHANGED <<streamCompleted, delivered>>
          /\ \/ /\ k = "incomplete"
                /\ FailAttempt("upstream", request)
             \/ /\ k \in Terminal
                /\ FailAttempt("empty", request)
             \/ /\ k \in {"content", "meta"}
                /\ stage' = IF k = "content" \/ count + 1 >= ProbeLimit
                            THEN "ready" ELSE "probe"
                /\ guard' = IF guard = "pending" THEN "completed" ELSE guard
                /\ UNCHANGED <<asked, err, clientGone, broken, upstream,
                               answer, attempt, ctxLive, accepted, rowVars>>

\* The stream ends while it is probed.
ProbeEnds ==
    /\ stage = "probe"
    /\ \/ /\ ~(clientGone /\ count = 0 /\ mode = "stream")
          /\ \/ FailAttempt(IF count = 0 THEN "empty" ELSE "eof", request)
             \/ FailAttempt("upstream", request)
       \/ clientGone /\ FailAttempt("canceled", request)
    /\ UNCHANGED <<seen, count, buffered, delivered, streamCompleted,
                   providerCompleted, semantic>>

-----------------------------------------------------------------------------
(* The stream is ready: it is accepted and served, or aggregated.          *)

\* The client stream is returned: from here no other route can replace it.
Serve ==
    /\ stage = "ready"
    /\ mode = "stream"
    /\ accepted' = TRUE
    /\ stage' = "serving"
    /\ answer' = "stream"
    /\ UNCHANGED <<asked, err, clientGone, broken, upstream, attemptVars,
                   streamCompleted, providerCompleted, semantic, rowVars>>

\* Bug: the acceptance is not taken back.
ServeFails_StaysAccepted ==
    /\ stage = "ready"
    /\ \E status \in {request, RequestVerdict(FALSE, FALSE)} :
         FailWith("local", status, TRUE)
    /\ UNCHANGED <<seen, count, buffered, delivered, streamCompleted,
                   providerCompleted, semantic>>

\* The inbound transformer fails, or a middleware of its stream does: then the
\* acceptance is taken back before that stream is closed.
ServeFails ==
    /\ stage = "ready"
    /\ \E status \in {request, RequestVerdict(FALSE, FALSE)} :
         FailWith("local", status, FALSE)
    /\ UNCHANGED <<seen, count, buffered, delivered, streamCompleted,
                   providerCompleted, semantic>>

StartAggregation ==
    /\ stage = "ready"
    /\ mode = "aggregate"
    /\ stage' = "aggregate"
    /\ UNCHANGED <<asked, err, clientGone, broken, upstream, answer,
                   attemptVars, flagVars, rowVars>>

\* The inbound stream hands out k.
Deliver(k) ==
    /\ delivered' = delivered \cup {k}
    /\ streamCompleted' = (streamCompleted \/ k = "done")

\* Next on the inbound stream: the probed events first.
DeliverBuffered ==
    /\ stage \in {"serving", "aggregate"}
    /\ buffered # <<>>
    /\ Deliver(Head(buffered))
    /\ buffered' = Tail(buffered)
    /\ UNCHANGED <<asked, stage, err, clientGone, broken, upstream, answer,
                   attempt, guard, ctxLive, seen, count, providerCompleted,
                   accepted, semantic, rowVars>>

DeliverEvent(k) ==
    /\ stage \in {"serving", "aggregate"}
    /\ buffered = <<>>
    /\ count < MaxEvents
    /\ CanFollow(k)
    /\ ReadEvent(k)
    /\ Deliver(k)
    /\ affinity' = IF affinity # attempt /\ k \in Terminal /\ semantic
                        /\ accepted
                   THEN attempt ELSE affinity
    /\ UNCHANGED <<asked, stage, err, clientGone, broken, upstream, answer,
                   attempt, guard, ctxLive, buffered, accepted, exec,
                   request, usage>>

\* The served stream ends, cleanly or with an error, or the handler sees
\* that the client is gone.
ServingEnds ==
    /\ stage = "serving"
    /\ \/ buffered = <<>> /\ broken' \in BOOLEAN
       \/ clientGone /\ broken' = FALSE
    /\ stage' = "closing"
    /\ UNCHANGED <<asked, err, clientGone, upstream, answer, attemptVars,
                   flagVars, rowVars>>

\* autoAggregateStream reached the end of a readable stream and built the
\* answer; the deferred Close runs before the answer is returned.
AggregationEnds ==
    /\ stage = "aggregate"
    /\ buffered = <<>>
    /\ accepted' = TRUE
    /\ stage' = "closing"
    /\ answer' = "response"
    /\ UNCHANGED <<asked, err, clientGone, broken, upstream, attemptVars,
                   streamCompleted, providerCompleted, semantic, rowVars>>

\* The upstream broke, or its chunks give no answer: closed unaccepted.
AggregationFails ==
    /\ stage = "aggregate"
    /\ buffered = <<>>
    /\ \/ FailAttempt("upstream", RequestVerdict(TRUE, FALSE))
       \/ \E aggErr \in BOOLEAN :
            \/ FailAttempt("empty", RequestVerdict(FALSE, aggErr))
            \/ clientGone /\ FailAttempt("canceled",
                                        RequestVerdict(FALSE, aggErr))
    /\ UNCHANGED <<seen, count, buffered, delivered, streamCompleted,
                   providerCompleted, semantic>>

\* Close of the inbound stream: the request, the affinity, the execution and
\* its usage, the upstream, and last the context of the attempt.
Close(inErr, outErr) ==
    /\ stage = "closing"
    /\ request' = RequestVerdict(broken, inErr)
    /\ affinity' = BoundOnClose(accepted)
    /\ exec' = [exec EXCEPT ![attempt] = ExecVerdict(accepted, outErr)]
    /\ usage' = Metered(accepted, outErr)
    /\ upstream' = [upstream EXCEPT ![attempt] = "closed"]
    /\ ctxLive' = FALSE
    /\ stage' = "ended"
    /\ UNCHANGED <<asked, err, clientGone, broken, answer, attempt, guard,
                   seen, count, buffered, delivered, flagVars>>

-----------------------------------------------------------------------------
(* The retry loop.                                                         *)

\* NextChannel: another route, with the provider state of the failed attempt
\* cleared and no execution yet.
Retry ==
    /\ stage = "failed"
    /\ ~clientGone
    /\ err # "schema"
    /\ attempt < MaxAttempts
    /\ attempt' = attempt + 1
    /\ stage' = "transform"
    /\ ResetProviderAttemptState
    /\ UNCHANGED <<asked, err, clientGone, broken, upstream, answer, guard,
                   ctxLive, seen, count, buffered, delivered,
                   streamCompleted, rowVars>>

\* The client leaves during the delay before the next attempt.
LeavesDuringDelay ==
    /\ stage = "transform"
    /\ attempt > 1
    /\ clientGone
    /\ stage' = "failed"
    /\ err' = "canceled"
    /\ UNCHANGED <<asked, clientGone, broken, upstream, answer, attemptVars,
                   flagVars, rowVars>>

\* Bug: a timeout is taken for a cancellation.
GiveUp_TimeoutIsCancellation ==
    /\ stage = "failed"
    /\ LET status == IF err \in {"canceled", "timeout"} THEN "canceled"
                     ELSE "failed"
       IN  /\ request' = status
           /\ exec' = [exec EXCEPT ![attempt] =
                         IF @ \in {"none", "orphaned"} THEN @ ELSE status]
    /\ stage' = "ended"
    /\ answer' = "error"
    /\ UNCHANGED <<asked, err, clientGone, broken, upstream, attemptVars,
                   flagVars, usage, affinity>>

\* Process returns the error, and the orchestrator writes the execution of
\* the last attempt, if it has one, and the request.
GiveUp ==
    /\ stage = "failed"
    /\ LET status == IF err = "canceled" THEN "canceled" ELSE "failed"
       IN  /\ request' = status
           /\ exec' = [exec EXCEPT ![attempt] =
                         IF @ \in {"none", "orphaned"} THEN @ ELSE status]
    /\ stage' = "ended"
    /\ answer' = "error"
    /\ UNCHANGED <<asked, err, clientGone, broken, upstream, attemptVars,
                   flagVars, usage, affinity>>

ClientLeaves ==
    /\ stage # "ended"
    /\ ~clientGone
    /\ clientGone' = TRUE
    /\ UNCHANGED <<asked, stage, err, broken, upstream, answer, attemptVars,
                   flagVars, rowVars>>

\* The request is over.
Finished == stage = "ended" /\ UNCHANGED vars

Next ==
    \/ TransformFails
    \/ \E outcome \in {"admitted", "rejected", "orphaned"} : Transform(outcome)
    \/ TimerFires
    \/ TimerCancels
    \/ DeadlinePasses
    \/ DialSucceeds
    \/ DialFails
    \/ \E k \in Kinds : ProbeEvent(k)
    \/ ProbeEnds
    \/ Serve
    \/ ServeFails
    \/ StartAggregation
    \/ DeliverBuffered
    \/ \E k \in Kinds : DeliverEvent(k)
    \/ ServingEnds
    \/ AggregationEnds
    \/ AggregationFails
    \/ \E inErr, outErr \in BOOLEAN : Close(inErr, outErr)
    \/ Retry
    \/ LeavesDuringDelay
    \/ GiveUp
    \/ ClientLeaves
    \/ Finished

Spec == Init /\ [][Next]_vars

\* What the goroutine of the request does without waiting for the provider, and
\* the reads and dials a cancelled context interrupts.
PipelineStep ==
    \/ \E outcome \in {"admitted", "rejected", "orphaned"} : Transform(outcome)
    \/ Serve
    \/ StartAggregation
    \/ \E inErr, outErr \in BOOLEAN : Close(inErr, outErr)
    \/ Retry
    \/ GiveUp

Interrupted ==
    /\ ~ctxLive \/ clientGone
    /\ DialFails \/ ProbeEnds \/ ServingEnds \/ AggregationFails

\* The runtime runs the goroutine and the timers.  Nothing is assumed of the
\* provider, nor of the client.
FairSpec ==
    /\ Spec
    /\ WF_vars(PipelineStep)
    /\ WF_vars(Interrupted)
    /\ WF_vars(DeliverBuffered)
    /\ WF_vars(TimerFires)
    /\ WF_vars(TimerCancels)

-----------------------------------------------------------------------------
(* Properties.                                                             *)

(* The first-event timer and the first event race for one attempt: a       *)
(* stream that is kept is never one whose context the timer cancels, now   *)
(* or later, and its connection is open until it is closed.                *)
KeptStreamLives ==
    stage \in {"ready", "serving"} =>
        /\ guard # "timedOut"
        /\ mode = "stream" => ctxLive
        /\ upstream[attempt] = "open"

(* An execution is completed only for the attempt whose answer the client  *)
(* got, and only when its provider sent output and a successful terminal:  *)
(* no truncated or empty answer, and no earlier attempt, counts as one.    *)
CompletedIsReal ==
    \A a \in Attempts : exec[a] = "completed" =>
        /\ a = attempt
        /\ answer \in {"stream", "response"}
        /\ "content" \in seen[a]
        /\ seen[a] \cap Terminal # {}
        /\ "incomplete" \notin seen[a]

(* The one usage record of a request is charged to the attempt that        *)
(* answered it, never to one that was replaced; and a completed attempt    *)
(* that reported its usage is charged.                                     *)
ChargedOnce ==
    /\ usage # 0 =>
          /\ usage = attempt
          /\ answer \in {"stream", "response"}
          /\ "content" \in seen[usage]
    /\ exec[attempt] = "completed" /\ ReportsUsage => usage = attempt

(* The session is bound only to the route of the attempt that answered, and *)
(* only when it answered with output and a terminal.                        *)
BoundToTheAnswer ==
    affinity # 0 =>
        /\ affinity = attempt
        /\ answer \in {"stream", "response"}
        /\ "content" \in seen[affinity]
        /\ seen[affinity] \cap (Terminal \cup {"incomplete"}) # {}

(* Only the departure of the client makes a request or an execution         *)
(* canceled: the timers cancel contexts too, and their attempts failed.     *)
CanceledMeansClientLeft ==
    request = "canceled" \/ (\E a \in Attempts : exec[a] = "canceled")
        => clientGone

(* When the request is over nothing of it is left: every connection is      *)
(* closed and every execution the state knows of, and the request, has a    *)
(* final status; while it runs only the current attempt is unfinished.      *)
EverythingSettled ==
    /\ \A a \in Attempts \ {attempt} :
          upstream[a] # "open" /\ exec[a] # "processing"
    /\ stage \in {"failed", "ended"} =>
          upstream[attempt] # "open" /\ exec[attempt] # "processing"
    /\ stage = "ended" => request # "processing"

(* Silence ends.  A client stream leaves its first-event phase although the *)
(* provider is silent, as the dial or the first read is interrupted; and    *)
(* once the client has left, the request ends whatever the provider does.   *)
(* Said of a request with a first-event timeout, which the code configures  *)
(* when retries are enabled (orchestrator.go:203-208).                      *)
SilenceEnds ==
    /\ (mode = "stream" /\ stage \in {"dial", "probe"} /\ count = 0)
         ~> ~(mode = "stream" /\ stage \in {"dial", "probe"} /\ count = 0)
    /\ clientGone ~> stage = "ended"

(* session_affinity_test.go:178: "committed partial output with an          *)
(* incomplete terminal must not bind session affinity".                     *)
FailedTerminalNeverBinds ==
    [][affinity' # affinity => "incomplete" \notin seen'[affinity']]_vars
=============================================================================
