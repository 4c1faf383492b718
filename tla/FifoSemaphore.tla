---------------------------- MODULE FifoSemaphore ----------------------------
(***************************************************************************)
(* What per-channel admission control promises, with no word about locks,  *)
(* channels, timers or hand-over: a set of owners that never outgrows the  *)
(* capacity, a first-come-first-served queue, and nobody in the queue      *)
(* while a slot is free.  ChannelLimiter implements it.                    *)
(***************************************************************************)
EXTENDS Integers, Sequences, SequencesExt, FiniteSets

CONSTANTS
    Req,         \* the goroutines that ask for a slot of one channel
    Capacity,    \* slots of the channel
    QueueSize    \* longest queue; 0 stands for a queue without a bound

VARIABLES
    owners,      \* the requests that own a slot
    queue        \* the requests that wait, oldest first

vars == <<owners, queue>>

Present(r) == r \in owners \/ r \in Range(queue)

Init ==
    /\ owners = {}
    /\ queue = <<>>

\* A newcomer takes a free slot, which exists only when nobody waits.
Enter(r) ==
    /\ ~ Present(r)
    /\ queue = <<>>
    /\ Cardinality(owners) < Capacity
    /\ owners' = owners \cup {r}
    /\ UNCHANGED queue

\* A newcomer finds every slot taken and goes to the back of the queue.
Join(r) ==
    /\ ~ Present(r)
    /\ Cardinality(owners) = Capacity
    /\ QueueSize > 0 => Len(queue) < QueueSize
    /\ queue' = Append(queue, r)
    /\ UNCHANGED owners

\* An owner gives its slot back: to the oldest waiter when there is one.
Leave(r) ==
    /\ r \in owners
    /\ IF queue = <<>>
       THEN /\ owners' = owners \ {r}
            /\ UNCHANGED queue
       ELSE /\ owners' = (owners \ {r}) \cup {Head(queue)}
            /\ queue' = Tail(queue)

\* A waiter gives up; the others keep their order.
Quit(r) ==
    /\ \E i \in DOMAIN queue :
          /\ queue[i] = r
          /\ queue' = RemoveAt(queue, i)
    /\ UNCHANGED owners

Next == \E r \in Req : Enter(r) \/ Join(r) \/ Leave(r) \/ Quit(r)

Spec == Init /\ [][Next]_vars
==============================================================================
