------------------------ MODULE StreamAttempts_proofs ------------------------
(***************************************************************************)
(* The safety properties of StreamAttempts, for any number of attempts,    *)
(* any probe limit and any number of events.                               *)
(*                                                                         *)
(* Most actions either leave the rows alone or are one of the many ways to *)
(* give an attempt up before it is accepted.  The latter are one kind of   *)
(* step, FailStep, and are treated once.                                   *)
(***************************************************************************)
EXTENDS StreamAttempts, TLAPS

-----------------------------------------------------------------------------
(* The inductive invariant.                                                *)

\* The guard is decided before a stream is kept, and an undecided or completed
\* guard has not cancelled the context of a client stream.
Guarded ==
    /\ stage = "dial" => count = 0
    /\ stage \in {"ready", "serving", "aggregate", "closing"}
         \/ (stage = "probe" /\ count > 0)
       => guard \in {"none", "completed"}
    /\ mode = "stream" /\ stage \in {"dial", "probe", "ready", "serving"}
         /\ guard # "timedOut"
       => ctxLive
    /\ stage \in {"probe", "ready", "serving", "aggregate", "closing"}
       => upstream[attempt] = "open"

Justified ==
    /\ err = "canceled" => clientGone
    /\ CanceledMeansClientLeft

Settled ==
    /\ EverythingSettled
    /\ stage = "transform" =>
          upstream[attempt] # "open" /\ exec[attempt] # "processing"

\* The flags of the state speak of the current attempt.
Flags ==
    /\ semantic => "content" \in seen[attempt]
    /\ providerCompleted => seen[attempt] \cap Terminal # {}
    /\ accepted => stage \in {"serving", "closing", "ended"}
    /\ stage = "serving" => answer = "stream"
    /\ stage = "closing" => answer \in {"stream", "response"}

\* The rows are written last.
Rows ==
    /\ \A a \in Attempts : exec[a] = "completed" => stage = "ended"
    /\ usage # 0 => stage = "ended"
    /\ affinity # 0 => stage \in {"serving", "closing", "ended"}
    /\ CompletedIsReal
    /\ ChargedOnce
    /\ BoundToTheAnswer

IInv == TypeOK /\ Guarded /\ Justified /\ Settled /\ Flags /\ Rows

LEMMA InitInv == Init => IInv
<1> SUFFICES ASSUME Init PROVE IInv
  OBVIOUS
<1>1. TypeOK
  <2>1. attempt \in Attempts /\ count \in 0..MaxEvents
    BY AttemptsAssumption DEF Init, Attempts
  <2>2. buffered \in Seq(Kinds)
    BY DEF Init
  <2> QED BY <2>1, <2>2 DEF Init, TypeOK, Errors, Status
<1>2. Guarded /\ Justified
  BY <1>1 DEF Init, Guarded, Justified, CanceledMeansClientLeft
<1>3. Settled
  BY <1>1 DEF Init, Settled, EverythingSettled, TypeOK
<1>4. Flags /\ Rows
  BY <1>1 DEF Init, Flags, Rows, CompletedIsReal, ChargedOnce, BoundToTheAnswer, TypeOK
<1> QED BY <1>1, <1>2, <1>3, <1>4 DEF IInv

-----------------------------------------------------------------------------
(* The verdicts.                                                           *)

(* RequestVerdict and ExecVerdict are final, and canceled only when the    *)
(* client has left (InboundPersistentStream.Close and its counterpart).    *)
LEMMA RequestVerdictFacts ==
    ASSUME NEW brk, NEW aggErr
    PROVE  /\ RequestVerdict(brk, aggErr) \in {"completed", "failed", "canceled"}
           /\ RequestVerdict(brk, aggErr) = "canceled" => clientGone
BY DEF RequestVerdict

LEMMA ExecVerdictFacts ==
    ASSUME NEW acc, NEW aggErr
    PROVE  /\ ExecVerdict(acc, aggErr) \in {"completed", "failed", "canceled"}
           /\ ExecVerdict(acc, aggErr) = "canceled" => clientGone
           /\ ExecVerdict(acc, aggErr) = "completed" =>
                 /\ ~aggErr /\ acc /\ semantic
                 /\ "incomplete" \notin seen[attempt]
                 /\ providerCompleted \/ "finish" \in seen[attempt]
BY DEF ExecVerdict, ProviderCompleted

-----------------------------------------------------------------------------
(* Giving an attempt up before it is accepted.                             *)

\* What is read of the upstream in a step.
Reads ==
    \/ UNCHANGED <<seen, count, buffered, semantic, providerCompleted>>
    \/ \E k \in Kinds :
          ReadEvent(k) /\ count < MaxEvents /\ buffered' = Append(buffered, k)

FailStep ==
    /\ stage \notin {"serving", "closing", "ended"}
    /\ stage' = "failed"
    /\ ctxLive' = FALSE
    /\ guard' \in {"none", "completed", "timedOut"}
    /\ err' \in Errors
    /\ err' = "canceled" => clientGone
    /\ request' \in Status
    /\ request' = "canceled" => request = "canceled" \/ clientGone
    /\ upstream' = [upstream EXCEPT ![attempt] = IF @ = "open" THEN "closed" ELSE @]
    /\ exec' = [exec EXCEPT ![attempt] = "failed"]
    /\ accepted' = FALSE
    /\ Reads
    /\ UNCHANGED <<asked, clientGone, broken, answer, attempt, delivered,
                   streamCompleted, usage, affinity>>

LEMMA FailWithFacts ==
    ASSUME TypeOK, NEW e \in Errors, NEW status \in Status, NEW acc \in BOOLEAN,
           ~acc, FailWith(e, status, acc), stage \notin {"serving", "closing", "ended"},
           e = "canceled" => clientGone,
           status = "canceled" => request = "canceled" \/ clientGone,
           Reads, UNCHANGED <<delivered, streamCompleted>>
    PROVE  FailStep
<1>1. usage' = usage
  BY DEF FailWith, Metered
<1>2. affinity' = affinity
  BY DEF FailWith, BoundOnClose
<1>3. accepted' = FALSE
  BY DEF FailWith
<1>4. err' \in Errors /\ (err' = "canceled" => clientGone)
  BY DEF FailWith, Errors
<1>5. guard' \in {"none", "completed", "timedOut"}
  BY DEF FailWith, TypeOK
<1> QED BY <1>1, <1>2, <1>3, <1>4, <1>5 DEF FailWith, FailStep, asked

(* Every way to give up an attempt that was not accepted is a FailStep:    *)
(* the dial, the probe, the inbound transformation and the aggregation.    *)
LEMMA FailuresAreFailSteps ==
    ASSUME IInv,
           DialFails \/ ProbeEnds \/ ServeFails \/ AggregationFails
    PROVE  FailStep
<1>1. TypeOK /\ (accepted => stage \in {"serving", "closing", "ended"})
  BY DEF IInv, Flags
<1>2. request \in Status /\ accepted \in BOOLEAN
  BY <1>1 DEF TypeOK
<1>3. CASE DialFails
  <2>1. /\ stage \notin {"serving", "closing", "ended"}
        /\ ~accepted /\ Reads /\ UNCHANGED <<delivered, streamCompleted>>
    BY <1>1, <1>3 DEF DialFails, Reads
  <2>2. \E e \in Errors : (e = "canceled" => clientGone) /\ FailWith(e, request, accepted)
    BY <1>3 DEF DialFails, FailAttempt, Errors
  <2> QED BY <1>1, <1>2, <2>1, <2>2, FailWithFacts
<1>4. CASE ProbeEnds
  <2>1. /\ stage \notin {"serving", "closing", "ended"}
        /\ ~accepted /\ Reads /\ UNCHANGED <<delivered, streamCompleted>>
    BY <1>1, <1>4 DEF ProbeEnds, Reads
  <2>2. \E e \in Errors : (e = "canceled" => clientGone) /\ FailWith(e, request, accepted)
    BY <1>4 DEF ProbeEnds, FailAttempt, Errors
  <2> QED BY <1>1, <1>2, <2>1, <2>2, FailWithFacts
<1>5. CASE ServeFails
  <2>1. /\ stage \notin {"serving", "closing", "ended"}
        /\ Reads /\ UNCHANGED <<delivered, streamCompleted>>
    BY <1>5 DEF ServeFails, Reads
  <2>2. PICK status \in {request, RequestVerdict(FALSE, FALSE)} :
           FailWith("local", status, FALSE)
    BY <1>5 DEF ServeFails
  <2>3. status \in Status /\ (status = "canceled" => request = "canceled" \/ clientGone)
    BY <1>2, <2>2, RequestVerdictFacts DEF Status
  <2>4. "local" \in Errors /\ "local" # "canceled"
    BY DEF Errors
  <2> QED BY <1>1, <2>1, <2>2, <2>3, <2>4, FailWithFacts
<1>6. CASE AggregationFails
  <2>1. /\ stage \notin {"serving", "closing", "ended"}
        /\ ~accepted /\ Reads /\ UNCHANGED <<delivered, streamCompleted>>
    BY <1>1, <1>6 DEF AggregationFails, Reads
  <2>2. \E e \in Errors, brk, aggErr \in BOOLEAN :
           /\ e = "canceled" => clientGone
           /\ FailWith(e, RequestVerdict(brk, aggErr), accepted)
    BY <1>6 DEF AggregationFails, FailAttempt, Errors
  <2>3. PICK e \in Errors, brk \in BOOLEAN, aggErr \in BOOLEAN :
           /\ e = "canceled" => clientGone
           /\ FailWith(e, RequestVerdict(brk, aggErr), accepted)
    BY <2>2
  <2>4. /\ RequestVerdict(brk, aggErr) \in Status
        /\ RequestVerdict(brk, aggErr) = "canceled" => clientGone
    BY RequestVerdictFacts DEF Status
  <2> QED BY <1>1, <1>2, <2>1, <2>3, <2>4, FailWithFacts
<1> QED BY <1>3, <1>4, <1>5, <1>6

(* A probed event fails the attempt, or the stream is kept so far.         *)
LEMMA ProbeEventFacts ==
    ASSUME IInv, NEW k \in Kinds, ProbeEvent(k)
    PROVE  \/ FailStep
           \/ /\ ~(count = 0 /\ guard = "timedOut")
              /\ stage = "probe" /\ count < MaxEvents
              /\ ReadEvent(k)
              /\ buffered' = Append(buffered, k)
              /\ k \in {"content", "meta"}
              /\ stage' \in {"ready", "probe"}
              /\ guard' = IF guard = "pending" THEN "completed" ELSE guard
              /\ UNCHANGED <<streamCompleted, delivered, asked, err, clientGone, broken,
                             upstream, answer, attempt, ctxLive, accepted, rowVars>>
<1>1. /\ TypeOK /\ ~accepted /\ accepted \in BOOLEAN /\ request \in Status
      /\ stage \notin {"serving", "closing", "ended"}
  BY DEF IInv, Flags, ProbeEvent, TypeOK
<1>2. CASE count = 0 /\ guard = "timedOut"
  <2>1. FailWith("timeout", request, accepted) /\ Reads
        /\ UNCHANGED <<delivered, streamCompleted>>
    BY <1>2 DEF ProbeEvent, FailAttempt, Reads
  <2> QED BY <1>1, <2>1, FailWithFacts DEF Errors
<1>3. CASE ~(count = 0 /\ guard = "timedOut")
  <2>1. /\ ReadEvent(k) /\ count < MaxEvents /\ buffered' = Append(buffered, k)
        /\ UNCHANGED <<delivered, streamCompleted>>
        /\ stage = "probe"
    BY <1>3 DEF ProbeEvent
  <2>2. Reads
    BY <2>1 DEF Reads
  <2>3. CASE \E e \in {"upstream", "empty"} : FailAttempt(e, request)
    BY <1>1, <2>1, <2>2, <2>3, FailWithFacts DEF FailAttempt, Errors
  <2>4. CASE ~ \E e \in {"upstream", "empty"} : FailAttempt(e, request)
    BY <1>3, <2>1, <2>4 DEF ProbeEvent
  <2> QED BY <2>3, <2>4
<1> QED BY <1>2, <1>3

(* An event read from the upstream keeps the types and the flags true.     *)
LEMMA ReadEventFacts ==
    ASSUME TypeOK, NEW k \in Kinds, count < MaxEvents, ReadEvent(k)
    PROVE  /\ count' \in 0..MaxEvents
           /\ seen' \in [Attempts -> SUBSET Kinds]
           /\ semantic' \in BOOLEAN
           /\ providerCompleted' \in BOOLEAN
           /\ seen'[attempt] = seen[attempt] \cup {k}
           /\ \A a \in Attempts \ {attempt} : seen'[a] = seen[a]
           /\ count' > 0
<1>1. count \in Nat /\ MaxEvents \in Nat /\ count' = count + 1
  BY AttemptsAssumption DEF TypeOK, ReadEvent
<1>2. count' \in 0..MaxEvents /\ count' > 0
  BY <1>1
<1>3. attempt \in Attempts /\ seen \in [Attempts -> SUBSET Kinds]
  BY DEF TypeOK
<1>4. seen' = [seen EXCEPT ![attempt] = @ \cup {k}]
  BY DEF ReadEvent
<1>5. semantic' \in BOOLEAN /\ providerCompleted' \in BOOLEAN
  BY DEF ReadEvent, TypeOK
<1> QED BY <1>2, <1>3, <1>4, <1>5

LEMMA ReadEventFlags ==
    ASSUME TypeOK, Flags, NEW k \in Kinds, count < MaxEvents, ReadEvent(k)
    PROVE  /\ semantic' => "content" \in seen'[attempt]
           /\ providerCompleted' => seen'[attempt] \cap Terminal # {}
<1>1. seen'[attempt] = seen[attempt] \cup {k}
  BY ReadEventFacts
<1> QED BY <1>1 DEF ReadEvent, Flags

LEMMA ReadsFacts ==
    ASSUME TypeOK, Flags, Reads
    PROVE  /\ count' \in 0..MaxEvents
           /\ buffered' \in Seq(Kinds)
           /\ seen' \in [Attempts -> SUBSET Kinds]
           /\ semantic' \in BOOLEAN
           /\ providerCompleted' \in BOOLEAN
           /\ semantic' => "content" \in seen'[attempt]
           /\ providerCompleted' => seen'[attempt] \cap Terminal # {}
<1>1. CASE UNCHANGED <<seen, count, buffered, semantic, providerCompleted>>
  BY <1>1 DEF TypeOK, Flags
<1>2. ASSUME NEW k \in Kinds,
             ReadEvent(k), count < MaxEvents, buffered' = Append(buffered, k)
      PROVE  /\ count' \in 0..MaxEvents
             /\ buffered' \in Seq(Kinds)
             /\ seen' \in [Attempts -> SUBSET Kinds]
             /\ semantic' \in BOOLEAN
             /\ providerCompleted' \in BOOLEAN
             /\ semantic' => "content" \in seen'[attempt]
             /\ providerCompleted' => seen'[attempt] \cap Terminal # {}
  <2>1. buffered' \in Seq(Kinds)
    BY <1>2 DEF TypeOK
  <2> QED BY <1>2, <2>1, ReadEventFacts, ReadEventFlags
<1> QED BY <1>1, <1>2 DEF Reads

LEMMA FailStepInductive == ASSUME IInv, FailStep PROVE IInv'
<1>1. TypeOK /\ Guarded /\ Justified /\ Settled /\ Flags /\ Rows
  BY DEF IInv
<1>2. /\ attempt \in Attempts /\ attempt' = attempt /\ stage' = "failed"
      /\ stage \notin {"serving", "closing", "ended"}
  BY <1>1 DEF TypeOK, FailStep
<1>3. /\ upstream' \in [Attempts -> {"none", "open", "closed"}]
      /\ upstream'[attempt] # "open"
      /\ \A a \in Attempts \ {attempt} : upstream'[a] = upstream[a]
  BY <1>1, <1>2 DEF TypeOK, FailStep
<1>4. /\ exec' \in [Attempts -> Status \cup {"none", "orphaned"}]
      /\ exec'[attempt] = "failed"
      /\ \A a \in Attempts \ {attempt} : exec'[a] = exec[a]
  BY <1>1, <1>2 DEF TypeOK, FailStep, Status
<1>5. TypeOK'
  <2>1. /\ count' \in 0..MaxEvents /\ buffered' \in Seq(Kinds)
        /\ seen' \in [Attempts -> SUBSET Kinds]
        /\ semantic' \in BOOLEAN /\ providerCompleted' \in BOOLEAN
    BY <1>1, ReadsFacts DEF FailStep
  <2>2. /\ mode' = mode /\ showsIncomplete' = showsIncomplete
        /\ ctxLive' \in BOOLEAN /\ accepted' \in BOOLEAN
        /\ guard' \in {"none", "pending", "completed", "timedOut"}
        /\ err' \in Errors /\ request' \in Status
        /\ UNCHANGED <<clientGone, broken, answer, delivered, streamCompleted,
                       usage, affinity>>
    BY DEF FailStep, asked
  <2> QED BY <1>1, <1>2, <1>3, <1>4, <2>1, <2>2 DEF TypeOK
<1>6. Guarded'
  BY <1>2 DEF Guarded
<1>7. Justified'
  BY <1>1, <1>2, <1>4 DEF Justified, CanceledMeansClientLeft, FailStep
<1>8. Settled'
  BY <1>1, <1>2, <1>3, <1>4 DEF Settled, EverythingSettled
<1>9. Flags'
  BY <1>1, <1>2, ReadsFacts DEF Flags, FailStep
<1>10. Rows'
  <2>1. /\ UNCHANGED <<usage, affinity>> /\ usage = 0 /\ affinity = 0
        /\ \A a \in Attempts : exec'[a] # "completed"
    BY <1>1, <1>2, <1>4 DEF Rows, FailStep
  <2> QED BY <1>2, <2>1 DEF Rows, CompletedIsReal, ChargedOnce, BoundToTheAnswer
<1> QED BY <1>5, <1>6, <1>7, <1>8, <1>9, <1>10 DEF IInv

-----------------------------------------------------------------------------
(* The other steps.                                                        *)

(* Steps that write no row: the timers, the client, and the ways of the    *)
(* goroutine from one stage to the next.                                   *)
LEMMA QuietStepsInductive ==
    ASSUME IInv,
           \/ TransformFails \/ TimerFires \/ TimerCancels \/ DeadlinePasses
           \/ Serve \/ StartAggregation \/ ServingEnds
           \/ AggregationEnds \/ LeavesDuringDelay \/ ClientLeaves
           \/ UNCHANGED vars
    PROVE  IInv'
<1>1. TypeOK /\ Guarded /\ Justified /\ Settled /\ Flags /\ Rows
  BY DEF IInv
<1>2. CASE TransformFails
  <2>1. TypeOK'
    BY <1>1, <1>2 DEF TransformFails, Errors, TypeOK, asked, attemptVars, flagVars, rowVars
  <2>2. Guarded'
    BY <1>1, <1>2 DEF TransformFails, Guarded, asked, attemptVars, flagVars, rowVars
  <2>3. Justified'
    BY <1>1, <1>2 DEF TransformFails, Justified, CanceledMeansClientLeft, asked, attemptVars, flagVars, rowVars
  <2>4. Settled'
    BY <1>1, <1>2 DEF TransformFails, Settled, EverythingSettled, asked, attemptVars, flagVars, rowVars
  <2>5. Flags'
    BY <1>1, <1>2 DEF TransformFails, Flags, asked, attemptVars, flagVars, rowVars
  <2>6. Rows'
    BY <1>1, <1>2 DEF TransformFails, Rows, CompletedIsReal, ChargedOnce, BoundToTheAnswer, ReportsUsage, asked, attemptVars, flagVars, rowVars
  <2> QED BY <2>1, <2>2, <2>3, <2>4, <2>5, <2>6 DEF IInv
<1>3. CASE TimerFires
  <2>1. TypeOK'
    BY <1>1, <1>3 DEF TimerFires, Errors, TypeOK, asked, attemptVars, flagVars, rowVars
  <2>2. Guarded'
    BY <1>1, <1>3 DEF TimerFires, Guarded, asked, attemptVars, flagVars, rowVars
  <2>3. Justified'
    BY <1>1, <1>3 DEF TimerFires, Justified, CanceledMeansClientLeft, asked, attemptVars, flagVars, rowVars
  <2>4. Settled'
    BY <1>1, <1>3 DEF TimerFires, Settled, EverythingSettled, asked, attemptVars, flagVars, rowVars
  <2>5. Flags'
    BY <1>1, <1>3 DEF TimerFires, Flags, asked, attemptVars, flagVars, rowVars
  <2>6. Rows'
    BY <1>1, <1>3 DEF TimerFires, Rows, CompletedIsReal, ChargedOnce, BoundToTheAnswer, ReportsUsage, asked, attemptVars, flagVars, rowVars
  <2> QED BY <2>1, <2>2, <2>3, <2>4, <2>5, <2>6 DEF IInv
<1>4. CASE TimerCancels
  <2>1. TypeOK'
    <3>1. /\ ctxLive' \in BOOLEAN
          /\ UNCHANGED <<mode, showsIncomplete, attempt, stage, err, guard, clientGone, broken, upstream,
                       seen, count, buffered, delivered, answer, flagVars, rowVars>>
      BY <1>4 DEF TimerCancels, asked, attemptVars
    <3> QED BY <1>1, <3>1 DEF TypeOK, flagVars, rowVars
  <2>2. Guarded'
    BY <1>1, <1>4 DEF TimerCancels, Guarded, asked, attemptVars, flagVars, rowVars
  <2>3. Justified'
    BY <1>1, <1>4 DEF TimerCancels, Justified, CanceledMeansClientLeft, asked, attemptVars, flagVars, rowVars
  <2>4. Settled'
    BY <1>1, <1>4 DEF TimerCancels, Settled, EverythingSettled, asked, attemptVars, flagVars, rowVars
  <2>5. Flags'
    BY <1>1, <1>4 DEF TimerCancels, Flags, asked, attemptVars, flagVars, rowVars
  <2>6. Rows'
    BY <1>1, <1>4 DEF TimerCancels, Rows, CompletedIsReal, ChargedOnce, BoundToTheAnswer, ReportsUsage, asked, attemptVars, flagVars, rowVars
  <2> QED BY <2>1, <2>2, <2>3, <2>4, <2>5, <2>6 DEF IInv
<1>5. CASE DeadlinePasses
  <2>1. TypeOK'
    <3>1. /\ ctxLive' \in BOOLEAN
          /\ UNCHANGED <<mode, showsIncomplete, attempt, stage, err, guard, clientGone, broken, upstream,
                       seen, count, buffered, delivered, answer, flagVars, rowVars>>
      BY <1>5 DEF DeadlinePasses, asked, attemptVars
    <3> QED BY <1>1, <3>1 DEF TypeOK, flagVars, rowVars
  <2>2. Guarded'
    BY <1>1, <1>5 DEF DeadlinePasses, Guarded, asked, attemptVars, flagVars, rowVars
  <2>3. Justified'
    BY <1>1, <1>5 DEF DeadlinePasses, Justified, CanceledMeansClientLeft, asked, attemptVars, flagVars, rowVars
  <2>4. Settled'
    BY <1>1, <1>5 DEF DeadlinePasses, Settled, EverythingSettled, asked, attemptVars, flagVars, rowVars
  <2>5. Flags'
    BY <1>1, <1>5 DEF DeadlinePasses, Flags, asked, attemptVars, flagVars, rowVars
  <2>6. Rows'
    BY <1>1, <1>5 DEF DeadlinePasses, Rows, CompletedIsReal, ChargedOnce, BoundToTheAnswer, ReportsUsage, asked, attemptVars, flagVars, rowVars
  <2> QED BY <2>1, <2>2, <2>3, <2>4, <2>5, <2>6 DEF IInv
<1>6. CASE Serve
  <2>1. TypeOK'
    BY <1>1, <1>6 DEF Serve, Errors, TypeOK, asked, attemptVars, flagVars, rowVars
  <2>2. Guarded'
    BY <1>1, <1>6 DEF Serve, Guarded, asked, attemptVars, flagVars, rowVars
  <2>3. Justified'
    BY <1>1, <1>6 DEF Serve, Justified, CanceledMeansClientLeft, asked, attemptVars, flagVars, rowVars
  <2>4. Settled'
    BY <1>1, <1>6 DEF Serve, Settled, EverythingSettled, asked, attemptVars, flagVars, rowVars
  <2>5. Flags'
    BY <1>1, <1>6 DEF Serve, Flags, asked, attemptVars, flagVars, rowVars
  <2>6. Rows'
    BY <1>1, <1>6 DEF Serve, Rows, CompletedIsReal, ChargedOnce, BoundToTheAnswer, ReportsUsage, asked, attemptVars, flagVars, rowVars
  <2> QED BY <2>1, <2>2, <2>3, <2>4, <2>5, <2>6 DEF IInv
<1>7. CASE StartAggregation
  <2>1. TypeOK'
    BY <1>1, <1>7 DEF StartAggregation, Errors, TypeOK, asked, attemptVars, flagVars, rowVars
  <2>2. Guarded'
    BY <1>1, <1>7 DEF StartAggregation, Guarded, asked, attemptVars, flagVars, rowVars
  <2>3. Justified'
    BY <1>1, <1>7 DEF StartAggregation, Justified, CanceledMeansClientLeft, asked, attemptVars, flagVars, rowVars
  <2>4. Settled'
    BY <1>1, <1>7 DEF StartAggregation, Settled, EverythingSettled, asked, attemptVars, flagVars, rowVars
  <2>5. Flags'
    BY <1>1, <1>7 DEF StartAggregation, Flags, asked, attemptVars, flagVars, rowVars
  <2>6. Rows'
    BY <1>1, <1>7 DEF StartAggregation, Rows, CompletedIsReal, ChargedOnce, BoundToTheAnswer, ReportsUsage, asked, attemptVars, flagVars, rowVars
  <2> QED BY <2>1, <2>2, <2>3, <2>4, <2>5, <2>6 DEF IInv
<1>8. CASE ServingEnds
  <2>1. TypeOK'
    <3>1. /\ broken' \in BOOLEAN
          /\ stage' = "closing"
          /\ UNCHANGED <<mode, showsIncomplete, attempt, err, guard, ctxLive, clientGone, upstream,
                       seen, count, buffered, delivered, answer, flagVars, rowVars>>
      BY <1>8 DEF ServingEnds, asked, attemptVars
    <3> QED BY <1>1, <3>1 DEF TypeOK, flagVars, rowVars
  <2>2. Guarded'
    BY <1>1, <1>8 DEF ServingEnds, Guarded, asked, attemptVars, flagVars, rowVars
  <2>3. Justified'
    BY <1>1, <1>8 DEF ServingEnds, Justified, CanceledMeansClientLeft, asked, attemptVars, flagVars, rowVars
  <2>4. Settled'
    BY <1>1, <1>8 DEF ServingEnds, Settled, EverythingSettled, asked, attemptVars, flagVars, rowVars
  <2>5. Flags'
    BY <1>1, <1>8 DEF ServingEnds, Flags, asked, attemptVars, flagVars, rowVars
  <2>6. Rows'
    BY <1>1, <1>8 DEF ServingEnds, Rows, CompletedIsReal, ChargedOnce, BoundToTheAnswer, ReportsUsage, asked, attemptVars, flagVars, rowVars
  <2> QED BY <2>1, <2>2, <2>3, <2>4, <2>5, <2>6 DEF IInv
<1>9. CASE AggregationEnds
  <2>1. TypeOK'
    BY <1>1, <1>9 DEF AggregationEnds, Errors, TypeOK, asked, attemptVars, flagVars, rowVars
  <2>2. Guarded'
    BY <1>1, <1>9 DEF AggregationEnds, Guarded, asked, attemptVars, flagVars, rowVars
  <2>3. Justified'
    BY <1>1, <1>9 DEF AggregationEnds, Justified, CanceledMeansClientLeft, asked, attemptVars, flagVars, rowVars
  <2>4. Settled'
    BY <1>1, <1>9 DEF AggregationEnds, Settled, EverythingSettled, asked, attemptVars, flagVars, rowVars
  <2>5. Flags'
    BY <1>1, <1>9 DEF AggregationEnds, Flags, asked, attemptVars, flagVars, rowVars
  <2>6. Rows'
    BY <1>1, <1>9 DEF AggregationEnds, Rows, CompletedIsReal, ChargedOnce, BoundToTheAnswer, ReportsUsage, asked, attemptVars, flagVars, rowVars
  <2> QED BY <2>1, <2>2, <2>3, <2>4, <2>5, <2>6 DEF IInv
<1>10. CASE LeavesDuringDelay
  <2>1. TypeOK'
    BY <1>1, <1>10 DEF LeavesDuringDelay, Errors, TypeOK, asked, attemptVars, flagVars, rowVars
  <2>2. Guarded'
    BY <1>1, <1>10 DEF LeavesDuringDelay, Guarded, asked, attemptVars, flagVars, rowVars
  <2>3. Justified'
    BY <1>1, <1>10 DEF LeavesDuringDelay, Justified, CanceledMeansClientLeft, asked, attemptVars, flagVars, rowVars
  <2>4. Settled'
    BY <1>1, <1>10 DEF LeavesDuringDelay, Settled, EverythingSettled, asked, attemptVars, flagVars, rowVars
  <2>5. Flags'
    BY <1>1, <1>10 DEF LeavesDuringDelay, Flags, asked, attemptVars, flagVars, rowVars
  <2>6. Rows'
    BY <1>1, <1>10 DEF LeavesDuringDelay, Rows, CompletedIsReal, ChargedOnce, BoundToTheAnswer, ReportsUsage, asked, attemptVars, flagVars, rowVars
  <2> QED BY <2>1, <2>2, <2>3, <2>4, <2>5, <2>6 DEF IInv
<1>11. CASE ClientLeaves
  <2>1. TypeOK'
    BY <1>1, <1>11 DEF ClientLeaves, Errors, TypeOK, asked, attemptVars, flagVars, rowVars
  <2>2. Guarded'
    BY <1>1, <1>11 DEF ClientLeaves, Guarded, asked, attemptVars, flagVars, rowVars
  <2>3. Justified'
    BY <1>1, <1>11 DEF ClientLeaves, Justified, CanceledMeansClientLeft, asked, attemptVars, flagVars, rowVars
  <2>4. Settled'
    BY <1>1, <1>11 DEF ClientLeaves, Settled, EverythingSettled, asked, attemptVars, flagVars, rowVars
  <2>5. Flags'
    BY <1>1, <1>11 DEF ClientLeaves, Flags, asked, attemptVars, flagVars, rowVars
  <2>6. Rows'
    BY <1>1, <1>11 DEF ClientLeaves, Rows, CompletedIsReal, ChargedOnce, BoundToTheAnswer, ReportsUsage, asked, attemptVars, flagVars, rowVars
  <2> QED BY <2>1, <2>2, <2>3, <2>4, <2>5, <2>6 DEF IInv
<1>12. CASE UNCHANGED vars
  <2>1. TypeOK'
    BY <1>1, <1>12 DEF vars, Errors, TypeOK, asked, attemptVars, flagVars, rowVars
  <2>2. Guarded'
    BY <1>1, <1>12 DEF vars, Guarded, asked, attemptVars, flagVars, rowVars
  <2>3. Justified'
    BY <1>1, <1>12 DEF vars, Justified, CanceledMeansClientLeft, asked, attemptVars, flagVars, rowVars
  <2>4. Settled'
    BY <1>1, <1>12 DEF vars, Settled, EverythingSettled, asked, attemptVars, flagVars, rowVars
  <2>5. Flags'
    BY <1>1, <1>12 DEF vars, Flags, asked, attemptVars, flagVars, rowVars
  <2>6. Rows'
    BY <1>1, <1>12 DEF vars, Rows, CompletedIsReal, ChargedOnce, BoundToTheAnswer, ReportsUsage, asked, attemptVars, flagVars, rowVars
  <2> QED BY <2>1, <2>2, <2>3, <2>4, <2>5, <2>6 DEF IInv
<1> QED BY <1>2, <1>3, <1>4, <1>5, <1>6, <1>7, <1>8, <1>9, <1>10, <1>11, <1>12

(* Transform starts an attempt and creates its execution.                  *)
LEMMA TransformInductive ==
    ASSUME IInv, NEW outcome \in {"admitted", "rejected", "orphaned"}, Transform(outcome)
    PROVE  IInv'
<1>1. TypeOK /\ Guarded /\ Justified /\ Settled /\ Flags /\ Rows
  BY DEF IInv
<1>2. stage = "transform" /\ attempt \in Attempts /\ attempt' = attempt
  BY <1>1 DEF Transform, TypeOK
<1>3. /\ exec' \in [Attempts -> Status \cup {"none", "orphaned"}]
      /\ exec'[attempt] \in {"processing", "failed", "orphaned"}
      /\ stage' = "failed" => exec'[attempt] # "processing"
      /\ \A a \in Attempts \ {attempt} : exec'[a] = exec[a]
  BY <1>1, <1>2 DEF Transform, TypeOK, Status
<1>4. /\ stage' \in {"dial", "failed"}
      /\ err' \in Errors /\ (err' = "canceled" => clientGone)
      /\ guard' \in {"none", "pending"} /\ ctxLive' = TRUE /\ count' = 0
      /\ buffered' = <<>> /\ delivered' = {}
      /\ streamCompleted' = FALSE /\ ~semantic' /\ ~accepted' /\ ~providerCompleted'
      /\ UNCHANGED <<mode, showsIncomplete, clientGone, broken, upstream, answer,
                     seen, request, usage, affinity>>
  BY DEF Transform, ResetProviderAttemptState, asked, Errors
<1>5. <<semantic', accepted', providerCompleted'>> \in BOOLEAN \X BOOLEAN \X BOOLEAN
  BY DEF Transform, ResetProviderAttemptState
<1>6. TypeOK'
  <2>1. count' \in 0..MaxEvents
    BY <1>4, AttemptsAssumption
  <2>2. buffered' \in Seq(Kinds)
    BY <1>4
  <2> QED BY <1>1, <1>2, <1>3, <1>4, <1>5, <2>1, <2>2 DEF TypeOK
<1>7. Guarded' /\ Flags'
  BY <1>1, <1>2, <1>4 DEF Guarded, Flags
<1>8. Justified' /\ Settled'
  BY <1>1, <1>2, <1>3, <1>4
  DEF Justified, CanceledMeansClientLeft, Settled, EverythingSettled
<1>9. Rows'
  <2>1. usage' = 0 /\ affinity' = 0 /\ \A a \in Attempts : exec'[a] # "completed"
    BY <1>1, <1>2, <1>3, <1>4 DEF Rows
  <2> QED BY <1>2, <1>3, <1>4, <2>1 DEF Rows, CompletedIsReal, ChargedOnce, BoundToTheAnswer
<1> QED BY <1>6, <1>7, <1>8, <1>9 DEF IInv

(* A stream that comes after the timer is closed at once.                  *)
LEMMA DialSucceedsInductive == ASSUME IInv, DialSucceeds PROVE IInv'
<1>1. TypeOK /\ Guarded /\ Justified /\ Settled /\ Flags /\ Rows
  BY DEF IInv
<1>2. /\ stage = "dial" /\ attempt \in Attempts /\ attempt' = attempt
      /\ UNCHANGED <<mode, showsIncomplete, clientGone, broken, answer, guard, seen, count,
                     buffered, delivered, streamCompleted, providerCompleted,
                     accepted, semantic, request, usage, affinity>>
  BY <1>1 DEF DialSucceeds, TypeOK, asked, flagVars
<1>3. /\ upstream' \in [Attempts -> {"none", "open", "closed"}]
      /\ upstream'[attempt] = IF guard = "timedOut" THEN "closed" ELSE "open"
      /\ \A a \in Attempts \ {attempt} : upstream'[a] = upstream[a]
  BY <1>1, <1>2 DEF DialSucceeds, TypeOK
<1>4. CASE guard # "timedOut"
  <2>1. stage' = "probe" /\ UNCHANGED <<err, ctxLive, exec>>
    BY <1>4 DEF DialSucceeds
  <2>2. TypeOK' /\ Guarded' /\ Justified'
    <3>1. TypeOK'
      BY <1>1, <1>2, <1>3, <2>1 DEF TypeOK
    <3>2. Guarded'
      BY <1>1, <1>2, <1>3, <1>4, <2>1 DEF Guarded
    <3>3. Justified'
      BY <1>1, <1>2, <2>1 DEF Justified, CanceledMeansClientLeft
    <3> QED BY <3>1, <3>2, <3>3
  <2>3. Settled' /\ Flags'
    BY <1>1, <1>2, <1>3, <1>4, <2>1 DEF Settled, EverythingSettled, Flags
  <2>4. Rows'
    BY <1>1, <1>2, <2>1 DEF Rows, CompletedIsReal, ChargedOnce, BoundToTheAnswer, ReportsUsage
  <2> QED BY <2>2, <2>3, <2>4 DEF IInv
<1>5. CASE guard = "timedOut"
  <2>1. stage' = "failed" /\ err' \in Errors \ {"canceled"} /\ ctxLive' \in BOOLEAN
    BY <1>5 DEF DialSucceeds, Errors
  <2>2. /\ exec' \in [Attempts -> Status \cup {"none", "orphaned"}]
        /\ exec'[attempt] = "failed"
        /\ \A a \in Attempts \ {attempt} : exec'[a] = exec[a]
    BY <1>1, <1>2, <1>5 DEF DialSucceeds, TypeOK, Status
  <2>3. TypeOK'
    BY <1>1, <1>2, <1>3, <2>1, <2>2 DEF TypeOK
  <2>4. Guarded' /\ Justified' /\ Settled' /\ Flags'
    BY <1>1, <1>2, <1>3, <1>5, <2>1, <2>2
    DEF Guarded, Justified, CanceledMeansClientLeft, Settled, EverythingSettled, Flags
  <2>5. usage' = 0 /\ affinity' = 0 /\ \A a \in Attempts : exec'[a] # "completed"
    BY <1>1, <1>2, <2>2 DEF Rows
  <2>6. Rows'
    BY <1>2, <2>1, <2>2, <2>5 DEF Rows, CompletedIsReal, ChargedOnce, BoundToTheAnswer
  <2> QED BY <2>3, <2>4, <2>6 DEF IInv
<1> QED BY <1>4, <1>5

(* The probe: the first event decides against the timer.                   *)
LEMMA ProbeEventInductive ==
    ASSUME IInv, NEW k \in Kinds, ProbeEvent(k) PROVE IInv'
<1>1. TypeOK /\ Guarded /\ Justified /\ Settled /\ Flags /\ Rows
  BY DEF IInv
<1>2. CASE FailStep
  BY <1>2, FailStepInductive
<1>3. CASE ~FailStep
  <2>1. /\ ~(count = 0 /\ guard = "timedOut")
        /\ stage = "probe" /\ count < MaxEvents
        /\ ReadEvent(k)
        /\ buffered' = Append(buffered, k)
        /\ stage' \in {"ready", "probe"}
        /\ guard' = IF guard = "pending" THEN "completed" ELSE guard
        /\ UNCHANGED <<streamCompleted, delivered, asked, err, clientGone, broken,
                       upstream, answer, attempt, ctxLive, accepted, rowVars>>
    BY <1>3, ProbeEventFacts
  <2>2. UNCHANGED <<streamCompleted, delivered, mode, showsIncomplete, err, clientGone,
                    broken, upstream, answer, attempt, ctxLive, accepted, exec, request,
                    usage, affinity>>
    BY <2>1 DEF asked, rowVars
  <2>3. /\ count' \in 0..MaxEvents
        /\ seen' \in [Attempts -> SUBSET Kinds]
        /\ semantic' \in BOOLEAN /\ providerCompleted' \in BOOLEAN
    BY <1>1, <2>1, ReadEventFacts
  <2>4. buffered' \in Seq(Kinds)
    BY <1>1, <2>1 DEF TypeOK
  <2>5. guard' \in {"none", "completed"} /\ guard # "timedOut"
    <3>1. count \in 0..MaxEvents /\ guard \in {"none", "pending", "completed", "timedOut"}
      BY <1>1 DEF TypeOK
    <3>2. count = 0 \/ count > 0
      BY <3>1, AttemptsAssumption
    <3>3. count > 0 => guard \in {"none", "completed"}
      BY <1>1, <2>1 DEF Guarded
    <3> QED BY <2>1, <3>1, <3>2, <3>3
  <2>6. TypeOK'
    BY <1>1, <2>1, <2>2, <2>3, <2>4, <2>5 DEF TypeOK
  <2>7. Guarded'
    <3>1. mode = "stream" => ctxLive
      BY <1>1, <2>1, <2>5 DEF Guarded
    <3> QED BY <1>1, <2>1, <2>2, <2>5, <3>1 DEF Guarded
  <2>8. Justified' /\ Settled'
    BY <1>1, <2>1, <2>2
    DEF Justified, CanceledMeansClientLeft, Settled, EverythingSettled
  <2>9. Flags'
    BY <1>1, <2>1, <2>2, ReadEventFlags DEF Flags
  <2>10. usage = 0 /\ affinity = 0 /\ \A a \in Attempts : exec[a] # "completed"
    BY <1>1, <2>1 DEF Rows
  <2>11. Rows'
    BY <1>1, <2>1, <2>2, <2>10
    DEF Rows, CompletedIsReal, ChargedOnce, BoundToTheAnswer, TypeOK
  <2> QED BY <2>6, <2>7, <2>8, <2>9, <2>11 DEF IInv
<1> QED BY <1>2, <1>3

(* A stream that is served or aggregated hands out one event: a probed one *)
(* or the next of the provider, which may bind the session.                *)
LEMMA DeliverBufferedInductive == ASSUME IInv, DeliverBuffered PROVE IInv'
<1>1. TypeOK /\ Guarded /\ Justified /\ Settled /\ Flags /\ Rows
  BY DEF IInv
<1>2. UNCHANGED <<mode, showsIncomplete, stage, err, clientGone, broken, upstream, answer,
                  attempt, guard, ctxLive, seen, count, providerCompleted,
                  accepted, semantic, exec, request, usage, affinity>>
  BY DEF DeliverBuffered, asked, rowVars
<1>3. buffered' \in Seq(Kinds) /\ Head(buffered) \in Kinds
  BY <1>1 DEF DeliverBuffered, TypeOK
<1>4. delivered' \in SUBSET Kinds /\ streamCompleted' \in BOOLEAN
  BY <1>1, <1>3 DEF DeliverBuffered, Deliver, TypeOK
<1>5. TypeOK'
  BY <1>1, <1>2, <1>3, <1>4 DEF TypeOK
<1>6. Guarded' /\ Justified' /\ Settled' /\ Flags'
  BY <1>1, <1>2
  DEF Guarded, Justified, CanceledMeansClientLeft, Settled, EverythingSettled, Flags
<1>7. Rows'
  BY <1>1, <1>2 DEF Rows, CompletedIsReal, ChargedOnce, BoundToTheAnswer, ReportsUsage
<1> QED BY <1>5, <1>6, <1>7 DEF IInv

LEMMA DeliverEventInductive ==
    ASSUME IInv, NEW k \in Kinds, DeliverEvent(k) PROVE IInv'
<1>1. TypeOK /\ Guarded /\ Justified /\ Settled /\ Flags /\ Rows
  BY DEF IInv
<1>2. /\ stage \in {"serving", "aggregate"} /\ attempt \in Attempts
      /\ count < MaxEvents /\ ReadEvent(k) /\ Deliver(k)
      /\ UNCHANGED <<mode, showsIncomplete, stage, err, clientGone, broken, upstream,
                     answer, attempt, guard, ctxLive, buffered, accepted, exec,
                     request, usage>>
  BY <1>1 DEF DeliverEvent, asked, TypeOK
<1>3. /\ count' \in 0..MaxEvents
      /\ seen' \in [Attempts -> SUBSET Kinds]
      /\ semantic' \in BOOLEAN /\ providerCompleted' \in BOOLEAN
      /\ seen'[attempt] = seen[attempt] \cup {k}
  BY <1>1, <1>2, ReadEventFacts
<1>4. delivered' \in SUBSET Kinds /\ streamCompleted' \in BOOLEAN
  BY <1>1, <1>2 DEF Deliver, TypeOK
<1>5. \/ affinity' = affinity
      \/ affinity' = attempt /\ k \in Terminal /\ semantic /\ accepted
  BY DEF DeliverEvent
<1>6. TypeOK'
  <2>1. affinity' \in {0} \cup Attempts
    BY <1>1, <1>2, <1>5 DEF TypeOK
  <2> QED BY <1>1, <1>2, <1>3, <1>4, <2>1 DEF TypeOK
<1>7. Guarded' /\ Justified' /\ Settled'
  BY <1>1, <1>2
  DEF Guarded, Justified, CanceledMeansClientLeft, Settled, EverythingSettled
<1>8. Flags'
  BY <1>1, <1>2, ReadEventFlags DEF Flags
<1>9. usage' = 0 /\ \A a \in Attempts : exec'[a] # "completed"
  BY <1>1, <1>2 DEF Rows
<1>10. affinity' # 0 => stage' = "serving"
  BY <1>1, <1>2, <1>5 DEF Rows, Flags
<1>11. BoundToTheAnswer'
  <2>1. SUFFICES ASSUME affinity' # 0
                 PROVE  /\ affinity' = attempt
                        /\ answer' = "stream"
                        /\ "content" \in seen'[attempt]
                        /\ seen'[attempt] \cap (Terminal \cup {"incomplete"}) # {}
    BY <1>2 DEF BoundToTheAnswer
  <2>2. answer' = "stream"
    BY <1>1, <1>2, <1>10, <2>1 DEF Flags
  <2>3. CASE affinity' = affinity
    BY <1>1, <1>3, <2>1, <2>2, <2>3 DEF Rows, BoundToTheAnswer
  <2>4. CASE affinity' = attempt /\ k \in Terminal /\ semantic
    BY <1>1, <1>3, <2>2, <2>4 DEF Flags
  <2> QED BY <1>5, <2>3, <2>4
<1>12. Rows'
  BY <1>2, <1>9, <1>10, <1>11 DEF Rows, CompletedIsReal, ChargedOnce, TypeOK
<1> QED BY <1>6, <1>7, <1>8, <1>12 DEF IInv

(* Closing the stream writes every row.                                    *)
LEMMA CloseInductive ==
    ASSUME IInv, NEW inErr \in BOOLEAN, NEW outErr \in BOOLEAN, Close(inErr, outErr)
    PROVE  IInv'
<1>1. TypeOK /\ Guarded /\ Justified /\ Settled /\ Flags /\ Rows
  BY DEF IInv
<1>2. /\ stage = "closing" /\ stage' = "ended" /\ attempt \in Attempts
      /\ request' = RequestVerdict(broken, inErr)
      /\ affinity' = BoundOnClose(accepted)
      /\ usage' = Metered(accepted, outErr)
      /\ ctxLive' \in BOOLEAN
      /\ UNCHANGED <<mode, showsIncomplete, err, clientGone, broken, answer, attempt,
                     guard, seen, count, buffered, delivered, streamCompleted,
                     providerCompleted, accepted, semantic>>
  BY <1>1 DEF Close, asked, flagVars, TypeOK
<1>3. /\ upstream' \in [Attempts -> {"none", "open", "closed"}]
      /\ upstream'[attempt] = "closed"
      /\ \A a \in Attempts \ {attempt} : upstream'[a] = upstream[a]
  BY <1>1, <1>2 DEF Close, TypeOK
<1>4. /\ exec'[attempt] = ExecVerdict(accepted, outErr)
      /\ \A a \in Attempts \ {attempt} : exec'[a] = exec[a]
  BY <1>1, <1>2 DEF Close, TypeOK
<1>5. exec' \in [Attempts -> Status \cup {"none", "orphaned"}]
  <2>1. ExecVerdict(accepted, outErr) \in Status
    BY ExecVerdictFacts DEF Status
  <2>2. exec' = [exec EXCEPT ![attempt] = ExecVerdict(accepted, outErr)]
    BY DEF Close
  <2> QED BY <1>1, <2>1, <2>2 DEF TypeOK
<1>6. /\ request' \in {"completed", "failed", "canceled"}
      /\ request' = "canceled" => clientGone
  BY <1>2, RequestVerdictFacts
<1>7. usage = 0 /\ usage' \in {0, attempt}
      /\ (usage' = attempt <=> accepted /\ semantic /\ ReportsUsage /\ ~outErr)
  <2>1. usage = 0 /\ attempt # 0
    BY <1>1, <1>2 DEF Rows, Attempts
  <2> QED BY <1>2, <2>1 DEF Metered
<1>8. affinity' \in {affinity, attempt}
      /\ (affinity' # affinity => semantic /\ providerCompleted)
  BY <1>2 DEF BoundOnClose
<1>9. TypeOK'
  <2>1. affinity' \in {0} \cup Attempts /\ usage' \in {0} \cup Attempts
    BY <1>1, <1>2, <1>7, <1>8 DEF TypeOK
  <2>2. request' \in Status
    BY <1>6 DEF Status
  <2> QED BY <1>1, <1>2, <1>3, <1>5, <2>1, <2>2 DEF TypeOK
<1>10. Guarded' /\ Flags'
  BY <1>1, <1>2 DEF Guarded, Flags
<1>11. Justified' /\ Settled'
  BY <1>1, <1>2, <1>3, <1>4, <1>6, ExecVerdictFacts
  DEF Justified, CanceledMeansClientLeft, Settled, EverythingSettled
<1>12. answer' \in {"stream", "response"}
  BY <1>1, <1>2 DEF Flags
<1>13. CompletedIsReal'
  <2>1. SUFFICES ASSUME exec'[attempt] = "completed"
                 PROVE  /\ "content" \in seen[attempt]
                        /\ seen[attempt] \cap Terminal # {}
                        /\ "incomplete" \notin seen[attempt]
    BY <1>1, <1>2, <1>4, <1>12 DEF CompletedIsReal, Rows
  <2>2. /\ semantic /\ "incomplete" \notin seen[attempt]
        /\ providerCompleted \/ "finish" \in seen[attempt]
    BY <1>4, <2>1, ExecVerdictFacts
  <2> QED BY <1>1, <2>2 DEF Flags, Terminal
<1>14. ChargedOnce'
  <2>1. exec'[attempt] = "completed" => accepted /\ semantic /\ ~outErr
    BY <1>4, ExecVerdictFacts
  <2>2. ReportsUsage' <=> ReportsUsage
    BY <1>2 DEF ReportsUsage
  <2> QED BY <1>1, <1>2, <1>7, <1>12, <2>1, <2>2 DEF ChargedOnce, Flags
<1>15. BoundToTheAnswer'
  BY <1>1, <1>2, <1>8, <1>12 DEF BoundToTheAnswer, Rows, Flags
<1> QED BY <1>2, <1>9, <1>10, <1>11, <1>13, <1>14, <1>15 DEF IInv, Rows

-----------------------------------------------------------------------------
(* The retry loop.                                                         *)

LEMMA RetryInductive == ASSUME IInv, Retry PROVE IInv'
<1>1. TypeOK /\ Guarded /\ Justified /\ Settled /\ Flags /\ Rows
  BY DEF IInv
<1>2. /\ stage = "failed" /\ stage' = "transform"
      /\ attempt \in Attempts /\ attempt' \in Attempts /\ attempt' # attempt
  BY <1>1, AttemptsAssumption DEF Retry, TypeOK, Attempts
<1>3. UNCHANGED <<mode, showsIncomplete, err, clientGone, broken, upstream, answer, guard,
                  ctxLive, seen, count, buffered, delivered, streamCompleted,
                  exec, request, usage, affinity>>
  BY DEF Retry, asked, rowVars
<1>4. /\ ~semantic' /\ ~accepted' /\ ~providerCompleted'
      /\ <<semantic', accepted', providerCompleted'>> \in BOOLEAN \X BOOLEAN \X BOOLEAN
  BY DEF Retry, ResetProviderAttemptState
<1>5. TypeOK'
  BY <1>1, <1>2, <1>3, <1>4 DEF TypeOK
<1>6. Guarded' /\ Justified' /\ Flags'
  BY <1>1, <1>2, <1>3, <1>4 DEF Guarded, Justified, CanceledMeansClientLeft, Flags
<1>7. Settled'
  BY <1>1, <1>2, <1>3 DEF Settled, EverythingSettled
<1>8. usage' = 0 /\ affinity' = 0 /\ \A a \in Attempts : exec'[a] # "completed"
  BY <1>1, <1>2, <1>3 DEF Rows
<1>9. Rows'
  BY <1>2, <1>8 DEF Rows, CompletedIsReal, ChargedOnce, BoundToTheAnswer
<1> QED BY <1>5, <1>6, <1>7, <1>9 DEF IInv

LEMMA GiveUpInductive == ASSUME IInv, GiveUp PROVE IInv'
<1>1. TypeOK /\ Guarded /\ Justified /\ Settled /\ Flags /\ Rows
  BY DEF IInv
<1>2. /\ stage = "failed" /\ stage' = "ended" /\ attempt \in Attempts
      /\ answer' = "error"
      /\ UNCHANGED <<mode, showsIncomplete, err, clientGone, broken, upstream, attempt,
                     guard, ctxLive, seen, count, buffered, delivered, streamCompleted,
                     providerCompleted, accepted, semantic, usage, affinity>>
  BY <1>1 DEF GiveUp, asked, attemptVars, flagVars, TypeOK
<1>3. /\ request' \in {"canceled", "failed"}
      /\ request' = "canceled" => clientGone
  BY <1>1 DEF GiveUp, Justified
<1>4. /\ exec' \in [Attempts -> Status \cup {"none", "orphaned"}]
      /\ exec'[attempt] \in {"none", "orphaned", request'}
      /\ \A a \in Attempts \ {attempt} : exec'[a] = exec[a]
  BY <1>1, <1>2 DEF GiveUp, TypeOK, Status
<1>5. TypeOK'
  <2>1. request' \in Status /\ answer' \in {"none", "stream", "response", "error"}
    BY <1>2, <1>3 DEF Status
  <2> QED BY <1>1, <1>2, <1>4, <2>1 DEF TypeOK
<1>6. Guarded' /\ Flags'
  BY <1>1, <1>2 DEF Guarded, Flags
<1>7. Justified' /\ Settled'
  BY <1>1, <1>2, <1>3, <1>4
  DEF Justified, CanceledMeansClientLeft, Settled, EverythingSettled
<1>8. usage' = 0 /\ affinity' = 0 /\ \A a \in Attempts : exec'[a] # "completed"
  BY <1>1, <1>2, <1>3, <1>4 DEF Rows
<1>9. Rows'
  BY <1>2, <1>8 DEF Rows, CompletedIsReal, ChargedOnce, BoundToTheAnswer
<1> QED BY <1>5, <1>6, <1>7, <1>9 DEF IInv

-----------------------------------------------------------------------------
LEMMA NextInductive == ASSUME IInv, [Next]_vars PROVE IInv'
<1>1. CASE UNCHANGED vars
  BY <1>1, QuietStepsInductive
<1>2. CASE Next
  <2>1. ASSUME NEW outcome \in {"admitted", "rejected", "orphaned"}, Transform(outcome)
        PROVE  IInv'
    BY <2>1, TransformInductive
  <2>2. ASSUME NEW k \in Kinds, ProbeEvent(k) PROVE IInv'
    BY <2>2, ProbeEventInductive
  <2>3. ASSUME NEW k \in Kinds, DeliverEvent(k) PROVE IInv'
    BY <2>3, DeliverEventInductive
  <2>4. ASSUME NEW inErr \in BOOLEAN, NEW outErr \in BOOLEAN, Close(inErr, outErr)
        PROVE  IInv'
    BY <2>4, CloseInductive
  <2>5. CASE DialFails \/ ProbeEnds \/ ServeFails \/ AggregationFails
    BY <2>5, FailuresAreFailSteps, FailStepInductive
  <2>6. CASE \/ TransformFails \/ TimerFires \/ TimerCancels \/ DeadlinePasses
             \/ Serve \/ StartAggregation \/ ServingEnds
             \/ AggregationEnds \/ LeavesDuringDelay \/ ClientLeaves
             \/ Finished
    BY <2>6, QuietStepsInductive DEF Finished
  <2>7. CASE DialSucceeds \/ DeliverBuffered \/ Retry \/ GiveUp
    BY <2>7, DialSucceedsInductive, DeliverBufferedInductive, RetryInductive,
       GiveUpInductive
  <2> QED BY <1>2, <2>1, <2>2, <2>3, <2>4, <2>5, <2>6, <2>7 DEF Next
<1> QED BY <1>1, <1>2

LEMMA InductiveInvariant == Spec => []IInv
BY InitInv, NextInductive, PTL DEF Spec

-----------------------------------------------------------------------------
(* The state keeps its types; no request makes more attempts than its      *)
(* budget, and what is probed and delivered are events of the provider.    *)
THEOREM TypeCorrect == Spec => []TypeOK
<1>1. IInv => TypeOK
  BY DEF IInv
<1> QED BY <1>1, InductiveInvariant, PTL

(* However the first-event timer and the first event race, a stream that   *)
(* is kept has an open connection and a context no timer cancels           *)
(* (firstEventTimeoutGuard).                                               *)
THEOREM KeptStreamsLive == Spec => []KeptStreamLives
<1>1. IInv => KeptStreamLives
  BY DEF IInv, Guarded, KeptStreamLives
<1> QED BY <1>1, InductiveInvariant, PTL

(* An execution is completed only for the attempt whose answer was given,  *)
(* with output and a successful terminal (OutboundPersistentStream.Close). *)
THEOREM CompletionIsReal == Spec => []CompletedIsReal
<1>1. IInv => CompletedIsReal
  BY DEF IInv, Rows
<1> QED BY <1>1, InductiveInvariant, PTL

(* Usage is charged to the answering attempt, and is charged when it was   *)
(* completed and its provider reported usage.                              *)
THEOREM OnlyTheAnswerIsCharged == Spec => []ChargedOnce
<1>1. IInv => ChargedOnce
  BY DEF IInv, Rows
<1> QED BY <1>1, InductiveInvariant, PTL

(* A session is bound only to the route that answered                      *)
(* (sessionAffinityBindingStream).                                         *)
THEOREM OnlyTheAnswerIsBound == Spec => []BoundToTheAnswer
<1>1. IInv => BoundToTheAnswer
  BY DEF IInv, Rows
<1> QED BY <1>1, InductiveInvariant, PTL

(* Canceled means that the client left, never that a timer fired.          *)
THEOREM TimersDoNotCancel == Spec => []CanceledMeansClientLeft
<1>1. IInv => CanceledMeansClientLeft
  BY DEF IInv, Justified
<1> QED BY <1>1, InductiveInvariant, PTL

(* Nothing is left over: replaced attempts and ended requests have closed  *)
(* connections and final rows.                                             *)
THEOREM NothingLeftOver == Spec => []EverythingSettled
<1>1. IInv => EverythingSettled
  BY DEF IInv, Settled
<1> QED BY <1>1, InductiveInvariant, PTL
=============================================================================
