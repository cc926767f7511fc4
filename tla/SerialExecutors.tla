-------------------------- MODULE SerialExecutors --------------------------
(***************************************************************************)
(* What the two queues of the serving core promise to their callers: for   *)
(* every key (a session of SessionExecutor, a model of EngineExecutor) a   *)
(* bounded FIFO of waiting requests, of which at most one at a time is in  *)
(* service, and in which an accepted request is eventually served.  How    *)
(* that is done with a running flag and a shared thread pool is the        *)
(* business of ServingCore, which is shown to implement this module.       *)
(***************************************************************************)
EXTENDS Naturals, Sequences

CONSTANTS Keys,      \* the serial queues
          Items,     \* what is queued
          Capacity   \* [Keys -> Nat]: how many items may wait

VARIABLES waiting,   \* [Keys -> Seq(Items)]
          current    \* [Keys -> SUBSET Items]: the item in service, if any

vars == <<waiting, current>>

Init ==
    /\ waiting = [k \in Keys |-> <<>>]
    /\ current = [k \in Keys |-> {}]

\* An item joins the back of a queue that has room.
Submit(k, i) ==
    /\ Len(waiting[k]) < Capacity[k]
    /\ waiting' = [waiting EXCEPT ![k] = Append(@, i)]

\* The item in service leaves it.
Complete(k) ==
    /\ current[k] # {}
    /\ current' = [current EXCEPT ![k] = {}]

Arrive(k) == \E i \in Items : Submit(k, i) /\ UNCHANGED current

\* The oldest waiting item enters service, when nothing else is in service.
Start(k) ==
    /\ waiting[k] # <<>>
    /\ current[k] = {}
    /\ current' = [current EXCEPT ![k] = {Head(waiting[k])}]
    /\ waiting' = [waiting EXCEPT ![k] = Tail(@)]

Leave(k) == Complete(k) /\ UNCHANGED waiting

\* Service at k ends by queueing the item with another key: a session's drain
\* hands the request to the model's queue.
HandOver(k) ==
    \E k2 \in Keys \ {k} : \E i \in current[k] : Submit(k2, i) /\ Complete(k)

Next == \E k \in Keys : Arrive(k) \/ Start(k) \/ Leave(k) \/ HandOver(k)

SafeSpec == Init /\ [][Next]_vars

\* An item at the head of an idle queue is taken, and service ends.
Fairness ==
    \A k \in Keys : WF_vars(Start(k)) /\ WF_vars(Leave(k) \/ HandOver(k))

Spec == SafeSpec /\ Fairness

=============================================================================
