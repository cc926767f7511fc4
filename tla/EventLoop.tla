------------------------------ MODULE EventLoop ------------------------------
(***************************************************************************)
(* One network::EventLoop: the thread that polls its channels, handles     *)
(* their events and then runs the functors other threads have queued.      *)
(*                                                                         *)
(* The module gives the loop's own steps as operators.  The program that   *)
(* runs on the loop says which channels are ready, what an event handler   *)
(* and a functor do, and leaves everything else unchanged.                 *)
(***************************************************************************)
EXTENDS Naturals, Sequences

CONSTANTS
    Threads,       \* the threads that are not the loop's and queue functors
    WakeupChannel, \* wakeupChannel_, the channel of the eventfd
    None

VARIABLES
    pending,       \* pendingFunctors_
    batch,         \* the functors swapped out of it and not yet run
    active,        \* activeChannels_ still to handle: <<channel, event>> pairs
    current,       \* currentActiveChannel_ between two callbacks of its, or None
    loop,          \* the loop's thread: "poll", "events" or "functors"
    wakeup,        \* the eventfd is readable
    waking         \* the threads between their push_back and their wakeup()

loopVars == <<pending, batch, active, current, loop, wakeup, waking>>

LoopInit ==
    /\ pending = <<>> /\ batch = <<>> /\ active = {} /\ current = None
    /\ loop = "poll" /\ wakeup = FALSE /\ waking = {}

\* Mutant: only a loop that runs its functors is woken.
queueInLoopCalling(t, f) ==
    /\ pending' = Append(pending, f)
    /\ waking' = IF loop = "functors" THEN waking \cup {t} ELSE waking

\* queueInLoop by another thread: push_back under mutex_, then the wakeup.
queueInLoop(t, f) ==
    /\ pending' = Append(pending, f)
    /\ waking' = waking \cup {t}

wakeupLoop(t) ==
    /\ t \in waking
    /\ waking' = waking \ {t}
    /\ wakeup' = TRUE

\* queueInLoop by the loop's own thread, which then wakes itself only when
\* callingPendingFunctors_.
queueInOwnLoop(f) ==
    /\ pending' = Append(pending, f)
    /\ wakeup' = (wakeup \/ loop = "functors")

\* poll returns with the ready channels, or with none after kPollTimeMs.
poll(ready) ==
    /\ loop = "poll"
    /\ active' = ready \cup (IF wakeup THEN {<<WakeupChannel, "in">>} ELSE {})
    /\ loop' = "events"
    /\ UNCHANGED <<pending, batch, current, wakeup, waking>>

\* handleEvent of a channel, one callback at a time: the read callback comes
\* before the write callback, and a channel is done with before the next.
handleEvent(channel, event) ==
    /\ loop = "events"
    /\ current \in {None, channel}
    /\ <<channel, event>> \in active
    /\ event = "out" => <<channel, "in">> \notin active
    /\ active' = active \ {<<channel, event>>}
    /\ current' = IF \E e \in {"in", "out"} : <<channel, e>> \in active' THEN channel ELSE None
    /\ UNCHANGED <<batch, loop, waking>>

\* The handler of the wakeup channel empties the eventfd.
handleWakeup ==
    /\ handleEvent(WakeupChannel, "in")
    /\ wakeup' = FALSE
    /\ UNCHANGED pending

\* doPendingFunctors: swap under mutex_ ...
swapFunctors ==
    /\ loop = "events" /\ active = {}
    /\ batch' = pending /\ pending' = <<>>
    /\ loop' = "functors"
    /\ UNCHANGED <<active, current, wakeup, waking>>

\* ... call them one by one, each of the given kind ...
callFunctor(op) ==
    /\ loop = "functors" /\ batch # <<>> /\ Head(batch).op = op
    /\ batch' = Tail(batch)
    /\ UNCHANGED <<active, current, loop, waking>>

\* ... and back to poll.
endFunctors ==
    /\ loop = "functors" /\ batch = <<>>
    /\ loop' = "poll"
    /\ UNCHANGED <<pending, batch, active, current, wakeup, waking>>

(* A loop that blocks in poll with functors queued has been woken, or the  *)
(* thread that queued the last one is about to wake it: no response waits  *)
(* for the 10 s poll timeout (queueInLoop, EventLoop.cc:116).              *)
NoLostWakeup ==
    loop = "poll" /\ pending # <<>> => wakeup \/ waking # {}
=============================================================================
