----------------------------- MODULE RouteTests ------------------------------
(***************************************************************************)
(* internal/server/biz/unified_route_state.go, the availability of a       *)
(* route: what TestChannel said of it.  A programmatic test is a           *)
(* singleflight run started by TriggerTest; a manual test is started from  *)
(* the UI (orchestrator/tester.go) and learns only at its end which exact  *)
(* route it exercised.  Each critical section of s.mu is a step, so tests  *)
(* of one route overlap and their verdicts arrive in any order.            *)
(***************************************************************************)
EXTENDS Integers, FiniteSets

CONSTANTS
    Tested,      \* exact routes
    Manual,      \* manual tests that can run at the same time
    MaxStarts    \* bound on the tests ever started

ASSUME TestsAssumption ==
    /\ MaxStarts \in Nat
    /\ Tested \cap Manual = {}

VARIABLES
    availability,   \* "unknown", "pass" or "fail"
    generations,    \* generation of the verdict that availability came from
    nextTestGen,    \* generations handed out
    inflight,       \* runs counted per route; 0 is "deleted from the map"
    stage,          \* how far the test of a route, or a manual test, is
    gen,            \* the generation that test captured
    verdict,        \* what it found, while it waits to record it
    completed       \* history: the complete verdicts <<generation, verdict>> per route

testVars == <<availability, generations, nextTestGen, inflight, stage, gen, verdict,
              completed>>

Verdict == {"pass", "fail"}

\* A test is a singleflight run of a route or a manual one.
Test == Tested \cup Manual

\* idle: singleflight has no call for the key; called: DoChan registered the
\* call; numbered: has its generation; running: counted in inflight; judged:
\* has a verdict to record; ending: done, still counted; returned: the function
\* is over but singleflight has not dropped the key.
Stages == {"idle", "called", "numbered", "running", "judged", "ending", "returned"}

TestsInit ==
    /\ availability = [r \in Tested |-> "unknown"]
    /\ generations = [r \in Tested |-> 0]
    /\ nextTestGen = 0
    /\ inflight = [r \in Tested |-> 0]
    /\ stage = [t \in Test |-> "idle"]
    /\ gen = [t \in Test |-> 0]
    /\ verdict = [t \in Test |-> "fail"]
    /\ completed = [r \in Tested |-> {}]

TestGoes(t, from, to) ==
    /\ stage[t] = from
    /\ stage' = [stage EXCEPT ![t] = to]

\* The bound: a call that is registered keeps its place among the MaxStarts.
Room == nextTestGen + Cardinality({r \in Tested : stage[r] = "called"}) < MaxStarts

------------------------------------------------------------------------------
(* TriggerTest                                                              *)

\* A trigger while a call is registered joins it: nothing changes.
TriggerTest(r) ==
    /\ Room
    /\ TestGoes(r, "idle", "called")
    /\ UNCHANGED <<availability, generations, nextTestGen, inflight, gen, verdict,
                   completed>>

TakeGeneration(t) ==
    /\ nextTestGen' = nextTestGen + 1
    /\ gen' = [gen EXCEPT ![t] = nextTestGen + 1]

NextTestGeneration(r) ==
    /\ TestGoes(r, "called", "numbered")
    /\ TakeGeneration(r)
    /\ UNCHANGED <<availability, generations, inflight, verdict, completed>>

CountRun(r) ==
    /\ TestGoes(r, "numbered", "running")
    /\ inflight' = [inflight EXCEPT ![r] = @ + 1]
    /\ UNCHANGED <<availability, generations, nextTestGen, gen, verdict, completed>>

\* The run reached TestChannel's verdict within its two minutes.
RunCompletes(r, v) ==
    /\ TestGoes(r, "running", "judged")
    /\ verdict' = [verdict EXCEPT ![r] = v]
    /\ UNCHANGED <<availability, generations, nextTestGen, inflight, gen, completed>>

\* Bug: a panicking run skips the deferred decrement.
RunFails_PanicSkipsDefer(r) ==
    /\ TestGoes(r, "running", "returned")
    /\ UNCHANGED <<availability, generations, nextTestGen, inflight, gen, verdict,
                   completed>>

\* An error, a panic, the two-minute timeout or an incomplete verdict.
RunFails(r) ==
    /\ TestGoes(r, "running", "ending")
    /\ UNCHANGED <<availability, generations, nextTestGen, inflight, gen, verdict,
                   completed>>

\* Bug: the generation is ignored, the last verdict to arrive wins.
Record_LastWins(r, g, v) ==
    /\ generations' = [generations EXCEPT ![r] = g]
    /\ availability' = [availability EXCEPT ![r] = v]

\* RecordTestVerdictGeneration of a completed verdict.
Record(r, g, v) ==
    IF g < generations[r]
    THEN UNCHANGED <<availability, generations>>
    ELSE /\ generations' = [generations EXCEPT ![r] = g]
         /\ availability' = [availability EXCEPT ![r] = v]

Remember(r, g, v) == completed' = [completed EXCEPT ![r] = @ \cup {<<g, v>>}]

\* Bug: the early return for an older generation keeps s.mu locked.
RecordVerdict_KeepsTheLock(r) ==
    /\ gen[r] >= generations[r]
    /\ TestGoes(r, "judged", "ending")
    /\ Record(r, gen[r], verdict[r])
    /\ Remember(r, gen[r], verdict[r])
    /\ UNCHANGED <<nextTestGen, inflight, gen, verdict>>

RecordVerdict(r) ==
    /\ TestGoes(r, "judged", "ending")
    /\ Record(r, gen[r], verdict[r])
    /\ Remember(r, gen[r], verdict[r])
    /\ UNCHANGED <<nextTestGen, inflight, gen, verdict>>

UncountRun(r) ==
    /\ TestGoes(r, "ending", "returned")
    /\ inflight' = [inflight EXCEPT ![r] = IF @ - 1 <= 0 THEN 0 ELSE @ - 1]
    /\ UNCHANGED <<availability, generations, nextTestGen, gen, verdict, completed>>

\* singleflight drops the key after the function has returned.
ForgetCall(r) ==
    /\ TestGoes(r, "returned", "idle")
    /\ UNCHANGED <<availability, generations, nextTestGen, inflight, gen, verdict,
                   completed>>

------------------------------------------------------------------------------
(* A manual test: testChannel and testSingleKey with recordVerdict.         *)

ManualStarts(t) ==
    /\ Room
    /\ TestGoes(t, "idle", "running")
    /\ TakeGeneration(t)
    /\ UNCHANGED <<availability, generations, inflight, verdict, completed>>

\* The route it used is known only now; any exact route may be meant.
ManualRecords(t, r, v) ==
    /\ TestGoes(t, "running", "idle")
    /\ Record(r, gen[t], v)
    /\ Remember(r, gen[t], v)
    /\ UNCHANGED <<nextTestGen, inflight, gen, verdict>>

\* An error, a cancelled context or an unknown route: nothing is recorded.
ManualAborts(t) ==
    /\ TestGoes(t, "running", "idle")
    /\ UNCHANGED <<availability, generations, nextTestGen, inflight, gen, verdict,
                   completed>>

------------------------------------------------------------------------------
RunStep(r) ==
    \/ NextTestGeneration(r)
    \/ CountRun(r)
    \/ (\E v \in Verdict : RunCompletes(r, v))
    \/ RunFails(r)
    \/ RecordVerdict(r)
    \/ UncountRun(r)
    \/ ForgetCall(r)

TestsNext ==
    \/ \E r \in Tested : TriggerTest(r) \/ RunStep(r)
    \/ \E t \in Manual :
          \/ ManualStarts(t)
          \/ \E r \in Tested, v \in Verdict : ManualRecords(t, r, v)
          \/ ManualAborts(t)

TestsSpec == TestsInit /\ [][TestsNext]_testVars

\* A run always comes back: its context ends after two minutes at the latest,
\* and every other step is the code's own.
TestsFairSpec == TestsSpec /\ \A r \in Tested : WF_testVars(RunStep(r))

------------------------------------------------------------------------------
TestsTypeOK ==
    /\ availability \in [Tested -> Verdict \cup {"unknown"}]
    /\ nextTestGen \in Nat
    /\ generations \in [Tested -> 0 .. nextTestGen]
    /\ inflight \in [Tested -> Nat]
    /\ stage \in [Test -> Stages]
    /\ gen \in [Test -> 0 .. nextTestGen]
    /\ verdict \in [Test -> Verdict]
    /\ completed \in [Tested -> SUBSET ((0 .. nextTestGen) \X Verdict)]

(* What a route is said to be is the verdict of the test that STARTED      *)
(* last among those that completed, in whatever order they arrived; a      *)
(* route is unknown exactly as long as no test of it completed.            *)
NewestTestWins ==
    \A r \in Tested :
        /\ availability[r] = "unknown" <=> completed[r] = {}
        /\ \A c \in completed[r] :
              (\A d \in completed[r] : d[1] <= c[1]) => availability[r] = c[2]

(* The UI's "test in flight" is true: a run is counted, once, from its     *)
(* start to its end, whether it passed, failed, timed out or panicked.     *)
InflightIsExact ==
    \A r \in Tested :
        inflight[r] = IF stage[r] \in {"running", "judged", "ending"} THEN 1 ELSE 0

(* A test, however it ends, never blocks later tests of its route for      *)
(* ever: the singleflight key is free again and TriggerTest can start one. *)
RouteTestableAgain ==
    \A r \in Tested : stage[r] # "idle" ~> stage[r] = "idle"
==============================================================================
