----------------------- MODULE PassThroughStream_proofs -----------------------
(***************************************************************************)
(* The safety properties of PassThroughStream, for channels of any size,   *)
(* any probe and any number of events.                                     *)
(*                                                                         *)
(* Neither property is inductive: that the client's clean end is the whole *)
(* stream needs an account of where every event is and of who may have     *)
(* ended the attempt early (Whole, ClosedEarly), and that the record tells *)
(* the delivery needs the terminal event followed through both channels    *)
(* (TerminalTravels).                                                      *)
(***************************************************************************)
EXTENDS PassThroughStream, SequenceTheorems, TLAPS

Delivered == {"delta", "terminal"}

Channels == pipelineCh \in Seq(Delivered) /\ rawStreamCh \in Seq(Delivered)

\* The events the goroutine no longer has in its hands.
Sent == IF g \in {"pipeline", "raw"} THEN read - 1 ELSE read

(* Every event is with the client or in rawStreamCh or in the goroutine's  *)
(* hands, unless the attempt was over when it was to be sent.              *)
Whole ==
    /\ written + Len(rawStreamCh) <= Sent
    /\ g \in {"check", "read", "pipeline", "raw"} => written + Len(rawStreamCh) = Sent
    /\ \/ written + Len(rawStreamCh) = Sent
       \/ ctxDone \/ d = "rejected" \/ dEnd = "failed"

(* Before the copying is over, only these close the attempt.               *)
ClosedEarly ==
    closed => \/ g \in {"report", "done"}
              \/ ctxDone \/ d = "rejected" \/ dEnd = "failed"

(* What the parties' ends say of each other.                               *)
Ends ==
    /\ event = "none" <=> read = 0
    /\ g \in {"pipeline", "raw"} => read # 0
    /\ chClosed <=> g = "done"
    /\ failure => g \in {"close", "report", "done"}
    /\ chClosed => rawStreamErr = failure
    /\ d \in {"probe", "rejected"} <=> c = "absent"
    /\ c \in {"absent", "writing"} => cEnd = "none"
    /\ d # "ended" => dEnd = "none"
    /\ dEnd = "drained" => chClosed /\ pipelineCh = <<>>
    /\ dEnd = "canceled" => ctxDone
    /\ cEnd = "clean" =>
          /\ chClosed /\ rawStreamCh = <<>> /\ ~failure
          /\ written = read \/ dEnd = "failed"

Holds(ch) == \E i \in DOMAIN ch : ch[i] = "terminal"

TerminalInPipeline == recorded \/ Holds(pipelineCh)

TerminalAtClient == terminated \/ Holds(rawStreamCh)

(* The pipeline is sent the terminal event before the client is, and it is *)
(* the last event of both.                                                 *)
TerminalTravels ==
    /\ TerminalAtClient \/ (g = "raw" /\ event = "terminal") => TerminalInPipeline
    /\ TerminalInPipeline =>
          /\ event = "terminal"
          /\ g # "pipeline"
          /\ TerminalAtClient \/ written + Len(rawStreamCh) < read

IInv == TypeOK /\ Channels /\ Whole /\ ClosedEarly /\ Ends /\ TerminalTravels

-----------------------------------------------------------------------------
(* What a send and a receive do to a channel.                              *)
LEMMA SendFacts ==
    ASSUME NEW ch \in Seq(Delivered), NEW e \in Delivered
    PROVE  /\ Append(ch, e) \in Seq(Delivered)
           /\ Append(ch, e) # <<>>
           /\ Len(ch) \in Nat
           /\ Len(Append(ch, e)) = Len(ch) + 1
           /\ Holds(Append(ch, e)) <=> Holds(ch) \/ e = "terminal"
<1>1. /\ Append(ch, e) \in Seq(Delivered)
      /\ Append(ch, e) # <<>>
      /\ Len(Append(ch, e)) = Len(ch) + 1
      /\ Len(ch) \in Nat
      /\ DOMAIN ch = 1 .. Len(ch)
      /\ DOMAIN Append(ch, e) = 1 .. Len(ch) + 1
      /\ \A i \in 1 .. Len(ch) : Append(ch, e)[i] = ch[i]
      /\ Append(ch, e)[Len(ch) + 1] = e
  BY AppendProperties, LenProperties
<1>2. \A i \in 1 .. Len(ch) + 1 : i \in 1 .. Len(ch) \/ i = Len(ch) + 1
  BY <1>1
<1>3. 1 .. Len(ch) \subseteq 1 .. Len(ch) + 1 /\ Len(ch) + 1 \in 1 .. Len(ch) + 1
  BY <1>1
<1> QED BY <1>1, <1>2, <1>3 DEF Holds

LEMMA ReceiveFacts ==
    ASSUME NEW ch \in Seq(Delivered), ch # <<>>
    PROVE  /\ Tail(ch) \in Seq(Delivered)
           /\ Head(ch) \in Delivered
           /\ Len(ch) \in Nat \ {0}
           /\ Len(Tail(ch)) = Len(ch) - 1
           /\ Holds(ch) <=> Head(ch) = "terminal" \/ Holds(Tail(ch))
<1>1. /\ Tail(ch) \in Seq(Delivered)
      /\ Head(ch) \in Delivered
      /\ Len(ch) \in Nat \ {0}
      /\ Len(Tail(ch)) = Len(ch) - 1
      /\ DOMAIN ch = 1 .. Len(ch)
      /\ DOMAIN Tail(ch) = 1 .. Len(ch) - 1
      /\ Head(ch) = ch[1]
      /\ \A i \in 1 .. Len(ch) - 1 : Tail(ch)[i] = ch[i + 1]
  BY HeadTailProperties, LenProperties, EmptySeq
<1>2. \A i \in 1 .. Len(ch) : i = 1 \/ (i - 1 \in 1 .. Len(ch) - 1 /\ i = (i - 1) + 1)
  BY <1>1
<1>3. 1 \in 1 .. Len(ch) /\ \A i \in 1 .. Len(ch) - 1 : i + 1 \in 1 .. Len(ch)
  BY <1>1
<1>4. Holds(ch) => ch[1] = "terminal" \/ Holds(Tail(ch))
  <2> SUFFICES ASSUME NEW i \in 1 .. Len(ch), ch[i] = "terminal", i # 1
               PROVE  Holds(Tail(ch))
    BY <1>1 DEF Holds
  <2>1. i - 1 \in 1 .. Len(ch) - 1 /\ (i - 1) + 1 = i
    BY <1>2
  <2>2. Tail(ch)[i - 1] = "terminal"
    BY <1>1, <2>1
  <2> QED BY <1>1, <2>1, <2>2 DEF Holds
<1>5. ch[1] = "terminal" \/ Holds(Tail(ch)) => Holds(ch)
  BY <1>1, <1>3 DEF Holds
<1> QED BY <1>1, <1>4, <1>5

LEMMA EmptyFacts == <<>> \in Seq(Delivered) /\ Len(<<>>) = 0 /\ ~Holds(<<>>)
BY EmptySeq DEF Holds

-----------------------------------------------------------------------------
LEMMA InitInvariant == Init => IInv
<1> SUFFICES ASSUME Init PROVE IInv
  OBVIOUS
<1>1. TypeOK
  <2>1. Len(<<>>) <= Buffer /\ 0 \in 0 .. MaxEvents /\ 0 \in 0 .. MaxProbe
    BY EmptyFacts, PassThroughAssumption
  <2> QED BY <2>1, Zenon DEF Init, TypeOK
<1>2. Channels /\ Whole /\ ClosedEarly /\ Ends /\ TerminalTravels
  BY EmptyFacts DEF Init, Channels, Whole, Sent, ClosedEarly, Ends, TerminalTravels,
       TerminalInPipeline, TerminalAtClient
<1> QED BY <1>1, <1>2 DEF IInv

(* The goroutine that copies.                                              *)
LEMMA CopiesInvariant == ASSUME IInv, Copies PROVE IInv'
<1> USE DEF IInv, TypeOK, Channels, Whole, Sent, ClosedEarly, Ends, TerminalTravels,
        TerminalInPipeline, TerminalAtClient, AttemptDone, pipeline, client
<1>0. Len(pipelineCh) \in Nat /\ Len(rawStreamCh) \in Nat
  BY LenProperties
<1>1. CASE CheckAttempt
  BY <1>0, <1>1 DEF CheckAttempt
<1>2. CASE ReadEvent
  <2>1. TypeOK'
    BY <1>2, PassThroughAssumption DEF ReadEvent
  <2>2. Channels' /\ Whole' /\ ClosedEarly'
    BY <1>0, <1>2 DEF ReadEvent
  <2>3. Ends'
    BY <1>0, <1>2 DEF ReadEvent
  <2>4. TerminalTravels'
    BY <1>0, <1>2 DEF ReadEvent
  <2> QED BY <2>1, <2>2, <2>3, <2>4
<1>3. CASE SendToPipeline
  <2>1. event \in Delivered
    BY <1>3 DEF SendToPipeline, Delivered
  <2>2. /\ Append(pipelineCh, event) \in Seq(Delivered)
        /\ Append(pipelineCh, event) # <<>>
        /\ Len(Append(pipelineCh, event)) = Len(pipelineCh) + 1
        /\ Holds(Append(pipelineCh, event)) <=> Holds(pipelineCh) \/ event = "terminal"
    BY <2>1, SendFacts
  <2>3. TypeOK'
    BY <1>0, <1>3, <2>2, PassThroughAssumption DEF SendToPipeline
  <2>4. Channels' /\ Ends'
    BY <1>0, <1>3, <2>2 DEF SendToPipeline
  <2>5. CASE pipelineCh' = Append(pipelineCh, event) /\ g' = "raw"
    <3>1. Whole' /\ ClosedEarly'
      BY <1>0, <1>3, <2>2, <2>5 DEF SendToPipeline
    <3>2. TerminalTravels'
      BY <1>0, <1>3, <2>2, <2>5 DEF SendToPipeline
    <3> QED BY <2>3, <2>4, <3>1, <3>2
  <2>6. CASE AttemptDone /\ g' = "close" /\ UNCHANGED pipelineCh
    <3>1. Whole' /\ ClosedEarly'
      BY <1>0, <1>3, <2>6 DEF SendToPipeline
    <3>2. TerminalTravels'
      BY <1>0, <1>3, <2>6 DEF SendToPipeline
    <3> QED BY <2>3, <2>4, <3>1, <3>2
  <2> QED BY <1>3, <2>5, <2>6 DEF SendToPipeline
<1>4. CASE SendToClient
  <2>1. event \in Delivered
    BY <1>4 DEF SendToClient, Delivered
  <2>2. /\ Append(rawStreamCh, event) \in Seq(Delivered)
        /\ Append(rawStreamCh, event) # <<>>
        /\ Len(Append(rawStreamCh, event)) = Len(rawStreamCh) + 1
        /\ Holds(Append(rawStreamCh, event)) <=> Holds(rawStreamCh) \/ event = "terminal"
    BY <2>1, SendFacts
  <2>3. TypeOK'
    BY <1>0, <1>4, <2>2, PassThroughAssumption DEF SendToClient
  <2>4. Channels' /\ Ends'
    BY <1>0, <1>4, <2>2 DEF SendToClient
  <2>5. CASE rawStreamCh' = Append(rawStreamCh, event) /\ g' = "check"
    <3>1. Whole' /\ ClosedEarly'
      BY <1>0, <1>4, <2>2, <2>5 DEF SendToClient
    <3>2. TerminalTravels'
      BY <1>0, <1>4, <2>2, <2>5 DEF SendToClient
    <3> QED BY <2>3, <2>4, <3>1, <3>2
  <2>6. CASE AttemptDone /\ g' = "close" /\ UNCHANGED rawStreamCh
    <3>1. Whole' /\ ClosedEarly'
      BY <1>0, <1>4, <2>6 DEF SendToClient
    <3>2. TerminalTravels'
      BY <1>0, <1>4, <2>6 DEF SendToClient
    <3> QED BY <2>3, <2>4, <3>1, <3>2
  <2> QED BY <1>4, <2>5, <2>6 DEF SendToClient
<1>5. CASE CloseStream
  BY <1>0, <1>5 DEF CloseStream
<1>6. CASE Report
  BY <1>0, <1>6 DEF Report
<1> QED BY <1>1, <1>2, <1>3, <1>4, <1>5, <1>6 DEF Copies

(* The pipeline, and the timer of the first event.                         *)
LEMMA PipelineInvariant ==
    ASSUME IInv, PipelineReads \/ FirstEventTimeout
    PROVE  IInv'
<1> USE DEF IInv, TypeOK, Channels, Whole, Sent, ClosedEarly, Ends, TerminalTravels,
        TerminalInPipeline, TerminalAtClient, AttemptDone, goroutine, client
<1>0. Len(pipelineCh) \in Nat /\ Len(rawStreamCh) \in Nat
  BY LenProperties
<1>t. ASSUME NEW stage, Taken(stage)
      PROVE  /\ pipelineCh # <<>> /\ pipelineCh' \in Seq(Delivered)
             /\ Len(pipelineCh') = Len(pipelineCh) - 1
             /\ recorded' \in BOOLEAN
             /\ TerminalInPipeline' <=> TerminalInPipeline
  BY <1>t, ReceiveFacts DEF Taken
<1>1. CASE ProbeReadsOn
  BY <1>0, <1>1, <1>t, PassThroughAssumption DEF ProbeReadsOn, Taken
<1>2. CASE Accept
  BY <1>0, <1>2, <1>t, PassThroughAssumption DEF Accept, Taken
<1>3. CASE Reject
  BY <1>0, <1>3, <1>t, PassThroughAssumption DEF Reject, Taken
<1>4. CASE Drain
  <2>1. TypeOK'
    <3>1. Len(pipelineCh') <= Buffer /\ recorded' \in BOOLEAN
      BY <1>0, <1>4, <1>t, PassThroughAssumption DEF Drain
    <3>2. /\ d' \in {"probe", "drain", "ended", "rejected"}
          /\ dEnd' \in {"none", "drained", "failed", "canceled"}
          /\ closed' \in BOOLEAN
      BY <1>4, Zenon DEF Drain
    <3>3. UNCHANGED <<goroutine, rawStreamCh, ctxDone, guard, probed, client>>
      BY <1>4 DEF Drain
    <3> QED BY <3>1, <3>2, <3>3
  <2>2. Channels' /\ Whole' /\ ClosedEarly'
    BY <1>0, <1>4, <1>t DEF Drain, Taken
  <2>3. Ends'
    BY <1>0, <1>4, <1>t DEF Drain, Taken
  <2>4. TerminalTravels'
    BY <1>0, <1>4, <1>t DEF Drain, Taken
  <2> QED BY <2>1, <2>2, <2>3, <2>4
<1>5. CASE DrainEnds
  BY <1>0, <1>5 DEF DrainEnds
<1>6. CASE FirstEventTimeout
  BY <1>0, <1>6 DEF FirstEventTimeout
<1> QED BY <1>1, <1>2, <1>3, <1>4, <1>5, <1>6 DEF PipelineReads

(* The handler and its client.                                             *)
LEMMA ClientInvariant ==
    ASSUME IInv, Writes \/ ClientLeaves
    PROVE  IInv'
<1> USE DEF IInv, TypeOK, Channels, Whole, Sent, ClosedEarly, Ends, TerminalTravels,
        TerminalInPipeline, TerminalAtClient, AttemptDone, goroutine, pipeline
<1>0. Len(pipelineCh) \in Nat /\ Len(rawStreamCh) \in Nat
  BY LenProperties
<1>1. CASE WriteEvent
  <2>1. /\ rawStreamCh # <<>> /\ rawStreamCh' \in Seq(Delivered)
        /\ Len(rawStreamCh) \in Nat \ {0}
        /\ Len(rawStreamCh') = Len(rawStreamCh) - 1
        /\ terminated' \in BOOLEAN
        /\ TerminalAtClient' <=> TerminalAtClient
    BY <1>1, ReceiveFacts DEF WriteEvent
  <2> QED BY <1>0, <1>1, <2>1, PassThroughAssumption DEF WriteEvent
<1>2. CASE WritingEnds
  BY <1>0, <1>2, EmptyFacts DEF WritingEnds
<1>3. CASE HandlerReturns
  BY <1>0, <1>3 DEF HandlerReturns
<1>4. CASE ClientLeaves
  BY <1>0, <1>4 DEF ClientLeaves, client
<1> QED BY <1>1, <1>2, <1>3, <1>4 DEF Writes

LEMMA StepInvariant == IInv /\ [Next]_vars => IInv'
<1> SUFFICES ASSUME IInv, [Next]_vars PROVE IInv'
  OBVIOUS
<1>1. CASE UNCHANGED vars
  BY <1>1 DEF vars, goroutine, pipeline, client, IInv, TypeOK, Channels, Whole, Sent,
       ClosedEarly, Ends, TerminalTravels, TerminalInPipeline, TerminalAtClient
<1> QED BY <1>1, CopiesInvariant, PipelineInvariant, ClientInvariant DEF Next

LEMMA Inductive == Spec => []IInv
BY InitInvariant, StepInvariant, PTL DEF Spec

(* The channels never hold more than their capacity, nobody writes more    *)
(* events than the provider sent, and the states are those of the code.    *)
THEOREM TypeCorrect == Spec => []TypeOK
<1>1. IInv => TypeOK
  BY DEF IInv
<1> QED BY <1>1, Inductive, PTL

(* A client whose stream ends cleanly has every event of a provider that   *)
(* did not fail, whoever of the goroutine, the pipeline and the client was *)
(* slower; only a failed transformation cuts the stream short.             *)
THEOREM CleanEndsAreWhole == Spec => []CleanEndIsWhole
<1>1. IInv => CleanEndIsWhole
  BY DEF IInv, Ends, CleanEndIsWhole
<1> QED BY <1>1, Inductive, PTL

(* The terminal event is recorded if the client got it and draining went   *)
(* to its end, and got by a client whose clean end it is if it was         *)
(* recorded, although the two are read from different channels.            *)
THEOREM RecordsTellDelivery == Spec => []RecordTellsDelivery
<1>1. IInv => RecordTellsDelivery
  <2> SUFFICES ASSUME IInv PROVE RecordTellsDelivery
    OBVIOUS
  <2> USE DEF IInv, Ends, TerminalTravels, TerminalInPipeline, TerminalAtClient
  <2>1. dEnd = "drained" /\ terminated => recorded
    BY EmptyFacts
  <2>2. recorded /\ cEnd = "clean" /\ dEnd # "failed" => terminated
    BY EmptyFacts DEF TypeOK
  <2> QED BY <2>1, <2>2 DEF RecordTellsDelivery
<1> QED BY <1>1, Inductive, PTL
===============================================================================
