-------------------------- MODULE PassThroughStream --------------------------
(***************************************************************************)
(* One streamed attempt with pass-through (orchestrator/pass_through.go):  *)
(* a goroutine copies the provider's raw events to two bounded channels,   *)
(* for the pipeline, which probes, transforms and records the stream, and  *)
(* for the client, who gets them as they came.  Once the attempt is        *)
(* accepted a second goroutine drains the pipeline's stream.               *)
(*                                                                         *)
(* All that matters of an event is whether it is the terminal one.         *)
(***************************************************************************)
EXTENDS Naturals, Sequences

CONSTANTS
    Buffer,     \* the capacity of pipelineCh and of rawStreamCh: 64
    MaxProbe,   \* bound: raw events the pipeline reads before it accepts
    MaxEvents   \* bound: raw events of the provider

ASSUME PassThroughAssumption ==
    Buffer \in Nat \ {0} /\ MaxProbe \in Nat \ {0} /\ MaxEvents \in Nat

VARIABLES
    g,           \* the goroutine of captureRawProviderStream
    event,       \* the event it holds
    read,        \* events it got from the provider
    failure,     \* stream.Err()
    pipelineCh, rawStreamCh,
    chClosed,    \* the goroutine closed both channels
    rawStreamErr,
    closed,      \* closeStream was called
    ctxDone,     \* the request's context is done
    guard,       \* the first-event timer: it cancels the provider's request only
    d,           \* the pipeline: probing, then draining
    probed,      \* raw events read while probing
    recorded,    \* it read the terminal event
    dEnd,        \* how draining ended
    c,           \* the handler that writes to the client
    written,     \* events it wrote
    terminated,  \* it wrote the terminal event
    cEnd         \* how its stream ended

goroutine == <<g, event, read, failure, chClosed, rawStreamErr>>
pipeline == <<guard, d, probed, recorded, dEnd>>
client == <<c, written, terminated, cEnd>>
vars == <<goroutine, pipelineCh, rawStreamCh, closed, ctxDone, pipeline, client>>

Init ==
    /\ g = "check"
    /\ event = "none"
    /\ read = 0
    /\ failure = FALSE
    /\ pipelineCh = <<>>
    /\ rawStreamCh = <<>>
    /\ chClosed = FALSE
    /\ rawStreamErr = FALSE
    /\ closed = FALSE
    /\ ctxDone = FALSE
    /\ guard = "pending"
    /\ d = "probe"
    /\ probed = 0
    /\ recorded = FALSE
    /\ dEnd = "none"
    /\ c = "absent"
    /\ written = 0
    /\ terminated = FALSE
    /\ cEnd = "none"

\* attemptCtx.Done(): closeStream cancels it, and it descends from the request's
\* context, not from the one the timer cancels.
AttemptDone == closed \/ ctxDone

-----------------------------------------------------------------------------
(* captureRawProviderStream.                                               *)

CheckAttempt ==
    /\ g = "check"
    /\ g' = IF AttemptDone THEN "close" ELSE "read"
    /\ UNCHANGED <<event, read, failure, chClosed, rawStreamErr, pipelineCh,
                   rawStreamCh, closed, ctxDone, pipeline, client>>

\* stream.Next(): an event, the end of the stream, or an error; the end also when
\* the stream was closed or its request canceled meanwhile.
ReadEvent ==
    /\ g = "read"
    /\ \/ /\ read < MaxEvents
          /\ event # "terminal"
          /\ event' \in {"delta", "terminal"}
          /\ read' = read + 1
          /\ g' = "pipeline"
          /\ UNCHANGED failure
       \/ /\ failure' \in BOOLEAN
          /\ g' = "close"
          /\ UNCHANGED <<event, read>>
    /\ UNCHANGED <<chClosed, rawStreamErr, pipelineCh, rawStreamCh, closed, ctxDone,
                   pipeline, client>>

\* Mutant: a full channel of the pipeline is skipped, as a recording that must not
\* slow the client down.
SendToPipeline_Skips ==
    /\ g = "pipeline"
    /\ pipelineCh' = IF Len(pipelineCh) < Buffer THEN Append(pipelineCh, event)
                     ELSE pipelineCh
    /\ g' = "raw"
    /\ UNCHANGED <<event, read, failure, chClosed, rawStreamErr, rawStreamCh, closed,
                   ctxDone, pipeline, client>>

SendToPipeline ==
    /\ g = "pipeline"
    /\ \/ /\ Len(pipelineCh) < Buffer
          /\ pipelineCh' = Append(pipelineCh, event)
          /\ g' = "raw"
       \/ /\ AttemptDone
          /\ g' = "close"
          /\ UNCHANGED pipelineCh
    /\ UNCHANGED <<event, read, failure, chClosed, rawStreamErr, rawStreamCh, closed,
                   ctxDone, pipeline, client>>

\* Mutant: an event is dropped when the client is slower than the provider.
SendToClient_Drops ==
    /\ g = "raw"
    /\ rawStreamCh' = IF Len(rawStreamCh) < Buffer THEN Append(rawStreamCh, event)
                      ELSE rawStreamCh
    /\ g' = "check"
    /\ UNCHANGED <<event, read, failure, chClosed, rawStreamErr, pipelineCh, closed,
                   ctxDone, pipeline, client>>

\* Mutant: the send does not notice that the attempt is over.
SendToClient_Deaf ==
    /\ g = "raw"
    /\ Len(rawStreamCh) < Buffer
    /\ rawStreamCh' = Append(rawStreamCh, event)
    /\ g' = "check"
    /\ UNCHANGED <<event, read, failure, chClosed, rawStreamErr, pipelineCh, closed,
                   ctxDone, pipeline, client>>

SendToClient ==
    /\ g = "raw"
    /\ \/ /\ Len(rawStreamCh) < Buffer
          /\ rawStreamCh' = Append(rawStreamCh, event)
          /\ g' = "check"
       \/ /\ AttemptDone
          /\ g' = "close"
          /\ UNCHANGED rawStreamCh
    /\ UNCHANGED <<event, read, failure, chClosed, rawStreamErr, pipelineCh, closed,
                   ctxDone, pipeline, client>>

\* The first deferred call: closeStream.
CloseStream ==
    /\ g = "close"
    /\ closed' = TRUE
    /\ g' = "report"
    /\ UNCHANGED <<event, read, failure, chClosed, rawStreamErr, pipelineCh,
                   rawStreamCh, ctxDone, pipeline, client>>

\* The second: the error, and then both channels are closed.
Report ==
    /\ g = "report"
    /\ rawStreamErr' = failure
    /\ chClosed' = TRUE
    /\ g' = "done"
    /\ UNCHANGED <<event, read, failure, pipelineCh, rawStreamCh, closed, ctxDone,
                   pipeline, client>>

-----------------------------------------------------------------------------
(* preReadLlmStream on the transformed stream, then the draining goroutine *)
(* of applyPassThroughStream.                                              *)

\* Both read pipelineCh through passThroughChannelStream.Next.
Taken(stage) ==
    /\ d = stage
    /\ pipelineCh # <<>>
    /\ pipelineCh' = Tail(pipelineCh)
    /\ recorded' = (recorded \/ Head(pipelineCh) = "terminal")

\* The raw event gives no event of the unified stream, or one without content, so
\* that the probe reads on.
ProbeReadsOn ==
    /\ Taken("probe")
    /\ Head(pipelineCh) # "terminal"
    /\ probed < MaxProbe
    /\ probed' = probed + 1
    /\ \/ UNCHANGED guard
       \/ guard = "pending" /\ guard' = "stopped"
    /\ UNCHANGED <<goroutine, rawStreamCh, closed, ctxDone, d, dEnd, client>>

\* Content, the terminal event or the end of the probe: the client gets its stream.
Accept ==
    /\ Taken("probe")
    /\ guard # "fired"
    /\ guard' = "stopped"
    /\ d' = "drain"
    /\ c' = "writing"
    /\ UNCHANGED <<goroutine, rawStreamCh, closed, ctxDone, probed, dEnd, written,
                   terminated, cEnd>>

\* The attempt fails before content: an explicit failure, a transformation error,
\* an event after the timer fired, the end of the stream, or the client left.
Reject ==
    /\ \/ Taken("probe")
       \/ /\ d = "probe"
          /\ ctxDone \/ (chClosed /\ pipelineCh = <<>>)
          /\ UNCHANGED <<pipelineCh, recorded>>
    /\ d' = "rejected"
    /\ closed' = TRUE
    /\ UNCHANGED <<goroutine, rawStreamCh, ctxDone, guard, probed, dEnd, client>>

\* Its only effect is that the provider's request is canceled.
FirstEventTimeout ==
    /\ d = "probe"
    /\ guard = "pending"
    /\ guard' = "fired"
    /\ UNCHANGED <<goroutine, pipelineCh, rawStreamCh, closed, ctxDone, d, probed,
                   recorded, dEnd, client>>

\* The transformation may fail at an event and ends the stream then.
Drain ==
    /\ Taken("drain")
    /\ \/ UNCHANGED <<d, dEnd, closed>>
       \/ /\ d' = "ended"
          /\ dEnd' = "failed"
          /\ closed' = TRUE
    /\ UNCHANGED <<goroutine, rawStreamCh, ctxDone, guard, probed, client>>

\* Next is false: the channel was closed, or the request's context is done, which
\* Go may choose although an event is there.
DrainEnds ==
    /\ d = "drain"
    /\ \/ chClosed /\ pipelineCh = <<>> /\ dEnd' = "drained"
       \/ ctxDone /\ dEnd' = "canceled"
    /\ d' = "ended"
    /\ closed' = TRUE
    /\ UNCHANGED <<goroutine, pipelineCh, rawStreamCh, ctxDone, guard, probed, recorded,
                   client>>

-----------------------------------------------------------------------------
(* WriteSSEStream.                                                         *)

WriteEvent ==
    /\ c = "writing"
    /\ rawStreamCh # <<>>
    /\ rawStreamCh' = Tail(rawStreamCh)
    /\ written' = written + 1
    /\ terminated' = (terminated \/ Head(rawStreamCh) = "terminal")
    /\ UNCHANGED <<goroutine, pipelineCh, closed, ctxDone, pipeline, c, cEnd>>

\* A client that is still there is told of an error that the goroutine reported.
WritingEnds ==
    /\ c = "writing"
    /\ ctxDone \/ (chClosed /\ rawStreamCh = <<>>)
    /\ cEnd' = CASE ctxDone      -> "left"
                 [] rawStreamErr -> "error"
                 [] OTHER        -> "clean"
    /\ c' = "returning"
    /\ UNCHANGED <<goroutine, pipelineCh, rawStreamCh, closed, ctxDone, pipeline,
                   written, terminated>>

\* The deferred Close, and the server cancels the context of a request that is over.
HandlerReturns ==
    /\ c = "returning"
    /\ c' = "over"
    /\ closed' = TRUE
    /\ ctxDone' = TRUE
    /\ UNCHANGED <<goroutine, pipelineCh, rawStreamCh, pipeline, written, terminated,
                   cEnd>>

\* The client disconnects, or the timeout of the request passes.
ClientLeaves ==
    /\ ~ctxDone
    /\ ctxDone' = TRUE
    /\ UNCHANGED <<goroutine, pipelineCh, rawStreamCh, closed, pipeline, client>>

-----------------------------------------------------------------------------
Copies ==
    \/ CheckAttempt \/ ReadEvent \/ SendToPipeline \/ SendToClient
    \/ CloseStream \/ Report

PipelineReads == ProbeReadsOn \/ Accept \/ Reject \/ Drain \/ DrainEnds

Writes == WriteEvent \/ WritingEnds \/ HandlerReturns

Next == Copies \/ PipelineReads \/ FirstEventTimeout \/ Writes \/ ClientLeaves

Spec == Init /\ [][Next]_vars

\* Goroutines run, the first-event timer fires, and a provider that says nothing more
\* ends or is cut off.  Nobody has to leave.
FairSpec ==
    /\ Spec
    /\ WF_vars(Copies)
    /\ WF_vars(PipelineReads)
    /\ WF_vars(FirstEventTimeout)
    /\ WF_vars(Writes)

-----------------------------------------------------------------------------
(* Properties.                                                             *)

TypeOK ==
    /\ g \in {"check", "read", "pipeline", "raw", "close", "report", "done"}
    /\ event \in {"none", "delta", "terminal"}
    /\ read \in 0 .. MaxEvents
    /\ Len(pipelineCh) <= Buffer /\ Len(rawStreamCh) <= Buffer
    /\ failure \in BOOLEAN /\ rawStreamErr \in BOOLEAN
    /\ chClosed \in BOOLEAN /\ closed \in BOOLEAN /\ ctxDone \in BOOLEAN
    /\ recorded \in BOOLEAN /\ terminated \in BOOLEAN
    /\ guard \in {"pending", "stopped", "fired"}
    /\ d \in {"probe", "drain", "ended", "rejected"}
    /\ probed \in 0 .. MaxProbe
    /\ dEnd \in {"none", "drained", "failed", "canceled"}
    /\ c \in {"absent", "writing", "returning", "over"}
    /\ written \in 0 .. MaxEvents
    /\ cEnd \in {"none", "clean", "error", "left"}

(* A stream that ends cleanly for the client is whole: it has every event   *)
(* the provider sent, and the provider did not fail.  The exception is a    *)
(* transformation that failed, whose Close cuts the copying short.          *)
CleanEndIsWhole ==
    cEnd = "clean" /\ dEnd # "failed" => written = read /\ ~failure

(* What is recorded is what was delivered.  A terminal event the client got *)
(* is recorded, unless draining was cut off by the end of the request,      *)
(* which includes a client that goes as soon as it has the last event; and  *)
(* a completion is recorded only if the client got it, left, or was told.   *)
RecordTellsDelivery ==
    /\ dEnd = "drained" /\ terminated => recorded
    /\ recorded /\ cEnd = "clean" /\ dEnd # "failed" => terminated

Finished ==
    /\ g = "done"
    /\ d \in {"rejected", "ended"}
    /\ c \in {"absent", "over"}

\* More raw events than rawStreamCh holds came before one with content: the copying
\* goroutine waits for a client that is not there yet, and the probe for it.
Stalled ==
    /\ g = "raw" /\ Len(rawStreamCh) = Buffer
    /\ d = "probe" /\ probed > Buffer

(* Nobody blocks forever.  Once the request is over, because its client left *)
(* or its own timeout passed, the copying goroutine, the pipeline and the    *)
(* handler all come to an end.  Before that they can only block in one way,  *)
(* the stall, which the first-event timer does not end.                      *)
NobodyBlocksForever ==
    /\ ctxDone ~> Finished
    /\ <>Finished \/ <>[]Stalled
=============================================================================
