---------------------------- MODULE ServingCore ----------------------------
(***************************************************************************)
(* The serving core: the HTTP loop thread that runs HttpGateway's chat     *)
(* handlers, the ThreadPool's workers, SessionExecutor (one FIFO and one   *)
(* drain per session), EngineExecutor (one bounded FIFO and one runner per *)
(* model) and the life of a ServingContext from arrival to its single      *)
(* EmitFinish.  Both executors run on the same pool.                       *)
(*                                                                         *)
(* Message texts, session history and the KV cache are left to other       *)
(* modules; here a request is its control flow.                            *)
(***************************************************************************)
EXTENDS Integers, Sequences, FiniteSets, Functions

CONSTANTS
    Requests,        \* chat requests, each sent once on a connection of its own
    Sessions,        \* Session objects
    Models,          \* model names
    Workers,         \* threads of the ThreadPool
    Loop,            \* the EventLoop's thread; the server starts no other IO thread
    Streaming,       \* the requests with ?stream=true
    Leavers,         \* bound: the requests whose client closes the connection at some time
    SessionOf,       \* [Requests -> Sessions]
    ModelOf,         \* [Requests -> Models]
    MaxPending,      \* MAX_SESSION_PENDING
    MaxModelQueue,   \* MAX_MODEL_QUEUE
    None

Jobs    == Sessions \cup Models   \* what a pool task serves: Drain(s) or RunModelQueue(m)
Threads == Workers \cup {Loop}
Reasons == {"stop", "length", "cancelled", "error"}

ASSUME CoreAssumption ==
    /\ Sessions \cap Models = {}
    /\ Loop \notin Workers
    /\ None \notin Requests \cup Jobs
    /\ Streaming \subseteq Requests
    /\ Leavers \subseteq Requests
    /\ SessionOf \in [Requests -> Sessions]
    /\ ModelOf \in [Requests -> Models]
    /\ MaxPending \in Nat \ {0}
    /\ MaxModelQueue \in Nat \ {0}

VARIABLES
    pc,             \* where each thread is
    req,            \* the request whose context a thread works on, or None
    job,            \* the session or model a worker serves, or None
    arg,            \* the argument of the EmitFinish call a thread is in
    pool,           \* ThreadPool::q_
    queue,          \* Session::pending of a session, ModelQueue::tasks of a model
    running,        \* Session::running, ModelQueue::running
    conn,           \* the request's connection: "new", "up", "hup" (the peer has gone,
                    \* the loop has not noticed) or "down" (onConnection has run)
    cancelled, finished, finish_reason,  \* fields of the ServingContext
    error,          \* error_message/error_code: "none", "overloaded" or "internal"
    reply,          \* what the client was told: a status, or the last chunk's reason
    in_flight,      \* HttpGateway::in_flight_
    done            \* how many times the request's on_finish has run

threadVars == <<pc, req, job, arg>>
ctxVars    == <<cancelled, finished, finish_reason, error>>
outVars    == <<reply, in_flight, done>>
vars == <<pc, req, job, arg, pool, queue, running, conn, cancelled, finished,
          finish_reason, error, reply, in_flight, done>>

Init ==
    /\ pc = [t \in Threads |-> "idle"]
    /\ req = [t \in Threads |-> None]
    /\ job = [t \in Threads |-> None]
    /\ arg = [t \in Threads |-> "stop"]
    /\ pool = <<>>
    /\ queue = [k \in Jobs |-> <<>>]
    /\ running = [k \in Jobs |-> FALSE]
    /\ conn = [r \in Requests |-> "new"]
    /\ cancelled = [r \in Requests |-> FALSE]
    /\ finished = [r \in Requests |-> FALSE]
    /\ finish_reason = [r \in Requests |-> "stop"]
    /\ error = [r \in Requests |-> "none"]
    /\ reply = [r \in Requests |-> "none"]
    /\ in_flight = 0
    /\ done = [r \in Requests |-> 0]

-----------------------------------------------------------------------------
(* Control flow shared by the threads.                                     *)

\* Where a thread goes when it is through with its current request: a worker
\* back to the loop of Drain or RunModelQueue, the loop thread to the wait of
\* a non-stream handler or, from a stream handler or a close callback, to the
\* next event.
Resume(t) ==
    IF t = Loop
    THEN IF req[t] \in Streaming \/ conn[req[t]] = "down" THEN "idle" ELSE "wait"
    ELSE IF job[t] \in Sessions THEN "drain" ELSE "runq"

Goto(t, l) == pc' = [pc EXCEPT ![t] = l]

Return(t) ==
    /\ Goto(t, Resume(t))
    /\ req' = [req EXCEPT ![t] = IF Resume(t) = "wait" THEN @ ELSE None]
    /\ arg' = [arg EXCEPT ![t] = "stop"]

\* Enter EmitFinish(reason).
CallEmitFinish(t, reason) ==
    /\ Goto(t, "emit")
    /\ arg' = [arg EXCEPT ![t] = reason]

\* Mutant: the flag is not claimed.
EnqueueUnclaimed(t, k, r) ==
    /\ queue' = [queue EXCEPT ![k] = Append(@, r)]
    /\ UNCHANGED running
    /\ IF running[k] THEN Return(t) ELSE Goto(t, "schedule") /\ UNCHANGED <<req, arg>>

\* The critical section of both Submits: push, and claim the running flag if
\* nobody holds it, in which case the caller must put a task into the pool.
Enqueue(t, k, r) ==
    /\ queue' = [queue EXCEPT ![k] = Append(@, r)]
    /\ running' = [running EXCEPT ![k] = TRUE]
    /\ IF running[k] THEN Return(t) ELSE Goto(t, "schedule") /\ UNCHANGED <<req, arg>>

\* The queue a thread in "schedule" has claimed.
Claimed(t) == IF t = Loop THEN SessionOf[req[t]] ELSE ModelOf[req[t]]

\* Mutant: the task is not put into the pool.
ScheduleLost(t) ==
    /\ pc[t] = "schedule"
    /\ Return(t)
    /\ UNCHANGED <<job, pool, queue, running, conn, ctxVars, outVars>>

\* ThreadPool::Submit of Drain(session) or RunModelQueue(model).
Schedule(t) ==
    /\ pc[t] = "schedule"
    /\ pool' = Append(pool, Claimed(t))
    /\ Return(t)
    /\ UNCHANGED <<job, queue, running, conn, ctxVars, outVars>>

-----------------------------------------------------------------------------
(* ServingContext::EmitFinish, on whichever thread calls it.               *)

\* Mutant: finished is stored, not exchanged.
EmitFinishTwice(t) ==
    /\ pc[t] = "emit"
    /\ finished' = [finished EXCEPT ![req[t]] = TRUE]
    /\ Goto(t, "reason")
    /\ UNCHANGED <<req, job, arg, pool, queue, running, conn, cancelled, finish_reason,
                   error, outVars>>

\* finished.exchange(true): only the first call goes on.
EmitFinish(t) ==
    /\ pc[t] = "emit"
    /\ finished' = [finished EXCEPT ![req[t]] = TRUE]
    /\ IF finished[req[t]] THEN Return(t) ELSE Goto(t, "reason") /\ UNCHANGED <<req, arg>>
    /\ UNCHANGED <<job, pool, queue, running, conn, cancelled, finish_reason,
                   error, outVars>>

\* finish_reason = reason, then notify_all.
StoreReason(t) ==
    /\ pc[t] = "reason"
    /\ finish_reason' = [finish_reason EXCEPT ![req[t]] = arg[t]]
    /\ Goto(t, IF req[t] \in Streaming THEN "chunk" ELSE "onfinish")
    /\ UNCHANGED <<req, job, arg, pool, queue, running, conn, cancelled, finished,
                   error, outVars>>

\* The last on_chunk of a stream; a closed HttpStreamSession drops it and marks
\* the request cancelled.
FinalChunk(t) ==
    /\ pc[t] = "chunk"
    /\ LET r == req[t]  alive == conn[r] # "down"
       IN  /\ reply' = [reply EXCEPT ![r] = IF alive THEN arg[t] ELSE @]
           /\ cancelled' = [cancelled EXCEPT ![r] = @ \/ ~alive]
    /\ Goto(t, "onfinish")
    /\ UNCHANGED <<req, job, arg, pool, queue, running, conn, finished, finish_reason,
                   error, in_flight, done>>

\* The gateway's on_finish: RecordFinish counts the request out.
OnFinish(t) ==
    /\ pc[t] = "onfinish"
    /\ in_flight' = in_flight - 1
    /\ done' = [done EXCEPT ![req[t]] = @ + 1]
    /\ Return(t)
    /\ UNCHANGED <<job, pool, queue, running, conn, ctxVars, reply>>

-----------------------------------------------------------------------------
(* The loop thread: HandleChatCompletion, HandleChatCompletionStream and   *)
(* the close callbacks they install.                                       *)

\* Mutant: a bad request is not counted out.
BadRequestLeak(r) ==
    /\ pc[Loop] = "idle"
    /\ conn[r] = "new"
    /\ conn' = [conn EXCEPT ![r] = "up"]
    /\ reply' = [reply EXCEPT ![r] = "400"]
    /\ in_flight' = in_flight + 1
    /\ UNCHANGED <<threadVars, pool, queue, running, ctxVars, done>>

\* A body that is not JSON, or without a messages array: 400, counted in and
\* out by the same thread.
BadRequest(r) ==
    /\ pc[Loop] = "idle"
    /\ conn[r] = "new"
    /\ conn' = [conn EXCEPT ![r] = "up"]
    /\ reply' = [reply EXCEPT ![r] = "400"]
    /\ UNCHANGED <<threadVars, pool, queue, running, ctxVars, in_flight, done>>

\* A well-formed request, up to the call of SessionExecutor::Submit.  A stream
\* sends its 200 header here.
ChatRequest(r) ==
    /\ pc[Loop] = "idle"
    /\ conn[r] = "new"
    /\ conn' = [conn EXCEPT ![r] = "up"]
    /\ in_flight' = in_flight + 1
    /\ req' = [req EXCEPT ![Loop] = r]
    /\ Goto(Loop, "submit")
    /\ UNCHANGED <<job, arg, pool, queue, running, ctxVars, reply, done>>

\* SessionExecutor::Submit, and the handler's answer to a full queue.
SessionSubmit ==
    /\ pc[Loop] = "submit"
    /\ LET r == req[Loop]  s == SessionOf[r]
       IN  IF Len(queue[s]) >= MaxPending
           THEN /\ error' = [error EXCEPT ![r] = "overloaded"]
                /\ CallEmitFinish(Loop, "error")
                /\ UNCHANGED <<req, queue, running>>
           ELSE /\ Enqueue(Loop, s, r)
                /\ UNCHANGED error
    /\ UNCHANGED <<job, pool, conn, cancelled, finished, finish_reason, outVars>>

\* Mutant: the error code itself is sent as the status.
AnswerWithCode(r) == IF error[r] # "none" THEN error[r] ELSE finish_reason[r]

\* The status or finish reason a non-stream handler answers with.
Answer(r) ==
    IF error[r] # "none" \/ finish_reason[r] = "error"
    THEN IF error[r] = "overloaded" THEN "429" ELSE "500"
    ELSE finish_reason[r]

\* WaitFinishOrCancel ends, and the handler answers and returns.
WaitFinishOrCancel ==
    /\ pc[Loop] = "wait"
    /\ LET r == req[Loop]
       IN  /\ finished[r] \/ conn[r] = "down"
           /\ IF finished[r]
              THEN /\ reply' = [reply EXCEPT ![r] = IF conn[r] = "down" THEN @ ELSE Answer(r)]
                   /\ Goto(Loop, "idle")
                   /\ req' = [req EXCEPT ![Loop] = None]
                   /\ UNCHANGED <<arg, cancelled>>
              ELSE /\ cancelled' = [cancelled EXCEPT ![r] = TRUE]
                   /\ CallEmitFinish(Loop, "cancelled")
                   /\ UNCHANGED <<req, reply>>
    /\ UNCHANGED <<job, pool, queue, running, conn, finished, finish_reason, error,
                   in_flight, done>>

\* The peer closes its connection; the server learns of it when its loop
\* handles the event.
PeerClose(r) ==
    /\ r \in Leavers
    /\ conn[r] = "up"
    /\ conn' = [conn EXCEPT ![r] = "hup"]
    /\ UNCHANGED <<threadVars, pool, queue, running, ctxVars, outVars>>

\* NetworkHttpServer::onConnection runs the on_close callback the handler
\* installed: both set cancelled, the non-stream one calls EmitFinish too.
OnClose(r) ==
    /\ pc[Loop] = "idle"
    /\ conn[r] = "hup"
    /\ conn' = [conn EXCEPT ![r] = "down"]
    /\ cancelled' = [cancelled EXCEPT ![r] = reply[r] # "400"]
    /\ IF r \in Streaming \/ reply[r] = "400"
       THEN UNCHANGED <<pc, req, arg>>
       ELSE /\ CallEmitFinish(Loop, "cancelled")
            /\ req' = [req EXCEPT ![Loop] = r]
    /\ UNCHANGED <<job, pool, queue, running, finished, finish_reason, error, outVars>>

-----------------------------------------------------------------------------
(* A pool worker.                                                          *)

\* ThreadPool::WorkerLoop takes the oldest task.
TakeTask(w) ==
    /\ pc[w] = "idle"
    /\ pool # <<>>
    /\ pool' = Tail(pool)
    /\ job' = [job EXCEPT ![w] = Head(pool)]
    /\ Goto(w, IF Head(pool) \in Sessions THEN "drain" ELSE "runq")
    /\ UNCHANGED <<req, arg, queue, running, conn, ctxVars, outVars>>

\* Mutant: the newest entry is taken.
PopNewest(w, l, next) ==
    /\ pc[w] = l
    /\ queue[job[w]] # <<>>
    /\ LET q == queue[job[w]]
       IN  /\ req' = [req EXCEPT ![w] = q[Len(q)]]
           /\ queue' = [queue EXCEPT ![job[w]] = SubSeq(q, 1, Len(q) - 1)]
    /\ Goto(w, next)
    /\ UNCHANGED <<job, arg, pool, running, conn, ctxVars, outVars>>

\* One turn of the loop of Drain or RunModelQueue, under the queue's mutex: take
\* the oldest entry ...
PopNext(w, l, next) ==
    /\ pc[w] = l
    /\ queue[job[w]] # <<>>
    /\ req' = [req EXCEPT ![w] = Head(queue[job[w]])]
    /\ queue' = [queue EXCEPT ![job[w]] = Tail(@)]
    /\ Goto(w, next)
    /\ UNCHANGED <<job, arg, pool, running, conn, ctxVars, outVars>>

\* Mutant: the flag is not given back.
LeaveQueueClaimed(w, l) ==
    /\ pc[w] = l
    /\ queue[job[w]] = <<>>
    /\ job' = [job EXCEPT ![w] = None]
    /\ Goto(w, "idle")
    /\ UNCHANGED <<req, arg, pool, queue, running, conn, ctxVars, outVars>>

\* ... or find the queue empty, give the flag back and leave.
LeaveQueue(w, l) ==
    /\ pc[w] = l
    /\ queue[job[w]] = <<>>
    /\ running' = [running EXCEPT ![job[w]] = FALSE]
    /\ job' = [job EXCEPT ![w] = None]
    /\ Goto(w, "idle")
    /\ UNCHANGED <<req, arg, pool, queue, conn, ctxVars, outVars>>

Drain(w)         == PopNext(w, "drain", "exec") \/ LeaveQueue(w, "drain")
RunModelQueue(w) == PopNext(w, "runq", "task") \/ LeaveQueue(w, "runq")

\* EngineExecutor::Execute, called by the drain: its check of finished.
Execute(w) ==
    /\ pc[w] = "exec"
    /\ IF finished[req[w]] THEN Return(w) ELSE Goto(w, "submitm") /\ UNCHANGED <<req, arg>>
    /\ UNCHANGED <<job, pool, queue, running, conn, ctxVars, outVars>>

\* Mutant: one request too many is queued.
SubmitOneMore(w) ==
    /\ pc[w] = "submitm"
    /\ LET r == req[w]  m == ModelOf[r]
       IN  IF Len(queue[m]) > MaxModelQueue
           THEN /\ error' = [error EXCEPT ![r] = "overloaded"]
                /\ CallEmitFinish(w, "error")
                /\ UNCHANGED <<req, queue, running>>
           ELSE /\ Enqueue(w, m, r)
                /\ UNCHANGED error
    /\ UNCHANGED <<job, pool, conn, cancelled, finished, finish_reason, outVars>>

\* Mutant: a refused request is not finished.
SubmitDrops(w) ==
    /\ pc[w] = "submitm"
    /\ LET r == req[w]  m == ModelOf[r]
       IN  IF Len(queue[m]) >= MaxModelQueue
           THEN /\ error' = [error EXCEPT ![r] = "overloaded"]
                /\ Return(w)
                /\ UNCHANGED <<queue, running>>
           ELSE /\ Enqueue(w, m, r)
                /\ UNCHANGED error
    /\ UNCHANGED <<job, pool, conn, cancelled, finished, finish_reason, outVars>>

\* Execute's SubmitPerModel, and its answer to a full model queue.
SubmitPerModel(w) ==
    /\ pc[w] = "submitm"
    /\ LET r == req[w]  m == ModelOf[r]
       IN  IF Len(queue[m]) >= MaxModelQueue
           THEN /\ error' = [error EXCEPT ![r] = "overloaded"]
                /\ CallEmitFinish(w, "error")
                /\ UNCHANGED <<req, queue, running>>
           ELSE /\ Enqueue(w, m, r)
                /\ UNCHANGED error
    /\ UNCHANGED <<job, pool, conn, cancelled, finished, finish_reason, outVars>>

\* The model task finds the request already finished, or cancelled while queued ...
TaskSkips(w) ==
    /\ pc[w] = "task"
    /\ finished[req[w]] \/ cancelled[req[w]]
    /\ IF finished[req[w]] THEN Return(w) ELSE CallEmitFinish(w, "cancelled") /\ UNCHANGED req
    /\ UNCHANGED <<job, pool, queue, running, conn, ctxVars, outVars>>

\* ... or it was queued for longer than MAX_QUEUE_WAIT_MS, or the model has no engine ...
TaskFails(w) ==
    /\ pc[w] = "task"
    /\ ~finished[req[w]] /\ ~cancelled[req[w]]
    /\ \E e \in {"overloaded", "internal"} : error' = [error EXCEPT ![req[w]] = e]
    /\ CallEmitFinish(w, "error")
    /\ UNCHANGED <<req, job, pool, queue, running, conn, cancelled, finished,
                   finish_reason, outVars>>

\* ... or engine->Run begins.
EngineStart(w) ==
    /\ pc[w] = "task"
    /\ ~finished[req[w]] /\ ~cancelled[req[w]]
    /\ Goto(w, "run")
    /\ UNCHANGED <<req, job, arg, pool, queue, running, conn, ctxVars, outVars>>

\* Mutant: the engine fails without an error_message.
EngineFinishMute(w) ==
    /\ pc[w] = "run"
    /\ \E reason \in Reasons :
          /\ reason = "cancelled" => cancelled[req[w]]
          /\ CallEmitFinish(w, reason)
    /\ UNCHANGED <<req, job, pool, queue, running, conn, cancelled, finished,
                   finish_reason, error, outVars>>

\* The engine ends the request: generation complete, an error (error_message is
\* set first) or, at one of its cancellation points, cancelled.
EngineFinish(w) ==
    /\ pc[w] = "run"
    /\ \E reason \in Reasons :
          /\ reason = "cancelled" => cancelled[req[w]]
          /\ error' = [error EXCEPT ![req[w]] = IF reason = "error" THEN "internal" ELSE @]
          /\ CallEmitFinish(w, reason)
    /\ UNCHANGED <<req, job, pool, queue, running, conn, cancelled, finished,
                   finish_reason, outVars>>

\* The engine returns without finishing, and the task does it for it.
EngineReturn(w) ==
    /\ pc[w] = "run"
    /\ CallEmitFinish(w, IF cancelled[req[w]] THEN "cancelled" ELSE "stop")
    /\ UNCHANGED <<req, job, pool, queue, running, conn, ctxVars, outVars>>

-----------------------------------------------------------------------------
EmitStep(t) == EmitFinish(t) \/ StoreReason(t) \/ FinalChunk(t) \/ OnFinish(t)

EngineStep(w) == EngineFinish(w) \/ EngineReturn(w)

\* What a worker does on its own, the engine's run apart.
WorkerStep(w) ==
    \/ TakeTask(w) \/ Drain(w) \/ RunModelQueue(w)
    \/ Execute(w) \/ SubmitPerModel(w) \/ Schedule(w)
    \/ TaskSkips(w) \/ TaskFails(w) \/ EngineStart(w) \/ EmitStep(w)

\* What the loop thread does once it has been given something to do.
LoopStep ==
    \/ SessionSubmit \/ Schedule(Loop) \/ WaitFinishOrCancel \/ EmitStep(Loop)
    \/ \E r \in Requests : OnClose(r)

ClientStep(r) == BadRequest(r) \/ ChatRequest(r) \/ PeerClose(r)

\* Every request has come and gone and every thread waits: the server idles.
Quiescent ==
    /\ \A t \in Threads : pc[t] = "idle"
    /\ pool = <<>>
    /\ \A r \in Requests : conn[r] = IF r \in Leavers THEN "down" ELSE "up"
    /\ UNCHANGED vars

Next ==
    \/ \E w \in Workers : WorkerStep(w) \/ EngineStep(w)
    \/ LoopStep
    \/ \E r \in Requests : ClientStep(r)
    \/ Quiescent

Spec == Init /\ [][Next]_vars

\* Threads are scheduled; clients may do nothing.
ThreadFairness ==
    /\ WF_vars(LoopStep)
    /\ \A w \in Workers : WF_vars(WorkerStep(w))

\* A generation ends: LlamaEngine stops after max_new_tokens, DummyEngine after 20.
EngineFairness == \A w \in Workers : WF_vars(EngineStep(w))

FairSpec == Spec /\ ThreadFairness /\ EngineFairness

\* However long a generation takes.
SlowEngineSpec == Spec /\ ThreadFairness

-----------------------------------------------------------------------------
(* Properties.                                                             *)

Places == {"idle", "submit", "schedule", "wait", "drain", "exec", "submitm", "runq", "task",
           "run", "emit", "reason", "chunk", "onfinish"}

ThreadTypeOK ==
    /\ pc \in [Threads -> Places]
    /\ req \in [Threads -> Requests \cup {None}]
    /\ job \in [Threads -> Jobs \cup {None}]
    /\ arg \in [Threads -> Reasons]

QueueTypeOK ==
    /\ pool \in Seq(Jobs)
    /\ queue \in [Jobs -> Seq(Requests)]
    /\ running \in [Jobs -> BOOLEAN]

ContextTypeOK ==
    /\ conn \in [Requests -> {"new", "up", "hup", "down"}]
    /\ cancelled \in [Requests -> BOOLEAN]
    /\ finished \in [Requests -> BOOLEAN]
    /\ finish_reason \in [Requests -> Reasons]
    /\ error \in [Requests -> {"none", "overloaded", "internal"}]
    /\ reply \in [Requests -> Reasons \cup {"none", "400", "429", "500"}]
    /\ in_flight \in Int
    /\ done \in [Requests -> Nat]

\* Type correctness of the core's state.
TypeOK == ThreadTypeOK /\ QueueTypeOK /\ ContextTypeOK

InPool(k)       == k \in Range(pool)
Claims(t, k)    == pc[t] = "schedule" /\ Claimed(t) = k
Serves(w, k)    == job[w] = k
Responsible(k)  == InPool(k) \/ (\E t \in Threads : Claims(t, k)) \/ (\E w \in Workers : Serves(w, k))

\* No lost wakeup: a session or model with queued requests has its running flag
\* set, and a set flag always has somebody behind it (a task in the pool, a thread
\* about to put it there, or a worker in Drain/RunModelQueue).  The empty-check that
\* clears the flag races with the push that finds it still set.
NoStrandedQueue ==
    \A k \in Jobs :
        /\ queue[k] # <<>> => running[k]
        /\ running[k] <=> Responsible(k)

\* "At any time one drain per session" (SessionExecutor.cc:46) and one runner per
\* model: a queue is never served, claimed or scheduled twice over.
OneServer ==
    /\ IsInjective(pool)
    /\ \A k \in Jobs :
        /\ InPool(k) => \A t \in Threads : ~Claims(t, k)
        /\ InPool(k) => \A w \in Workers : ~Serves(w, k)
        /\ \A t \in Threads, w \in Workers : ~(Claims(t, k) /\ Serves(w, k))
        /\ \A t, u \in Threads : Claims(t, k) /\ Claims(u, k) => t = u
        /\ \A v, w \in Workers : Serves(v, k) /\ Serves(w, k) => v = w

\* The request was counted into in_flight_.
Entered(r) == conn[r] # "new" /\ reply[r] # "400"

InQueue(k, r) == r \in Range(queue[k])

\* A thread owes the request its next step.
Holds(t, r) == req[t] = r /\ pc[t] \notin {"idle", "schedule", "wait", "drain", "runq"}

\* No request is lost between the queues and the threads: until its on_finish has
\* run, an entered request is in its session's queue, in its model's queue, or in
\* the hands of a thread that owes it its next step.
NotLost ==
    \A r \in Requests : Entered(r) /\ done[r] = 0 =>
        \/ InQueue(SessionOf[r], r)
        \/ InQueue(ModelOf[r], r)
        \/ \E t \in Threads : Holds(t, r)

\* EmitFinish may be called by the gateway, by either executor, by the engine and
\* by the close callback; on_finish runs at most once all the same.
FinishOnce == \A r \in Requests : done[r] <= 1

\* The in_flight_ gauge of /metrics is exact: every entered request is counted
\* until its on_finish, on every error path.
InFlightExact ==
    in_flight = Cardinality({r \in Requests : Entered(r) /\ done[r] = 0})

\* A non-stream request that fails is never answered as a success, and one that
\* does not fail never as an error, although the handler reads error_message and
\* finish_reason as soon as finished is set, while EmitFinish is still running.
ErrorStatus ==
    \A r \in Requests \ Streaming : done[r] > 0 /\ reply[r] # "none" =>
        /\ (reply[r] \in {"429", "500"}) <=> finish_reason[r] = "error"
        /\ reply[r] = "429" <=> error[r] = "overloaded"

\* Once a request's on_finish has run its outcome is settled: no later step of a
\* late queue entry, engine or close callback changes it.
OutcomeSettled ==
    [][\A r \in Requests : done[r] > 0 =>
          /\ finish_reason'[r] = finish_reason[r]
          /\ error'[r] = error[r]
          /\ done'[r] = done[r]]_vars

\* Where a request is on its way to the engine: in its session's queue, in the hands of
\* the drain, in its model's queue.
Handed(r) == \E w \in Workers : req[w] = r /\ pc[w] \in {"exec", "submitm"}
Waits(r)  == InQueue(SessionOf[r], r) \/ Handed(r) \/ InQueue(ModelOf[r], r)

Before(q, a, b) == \E i, j \in DOMAIN q : i < j /\ q[i] = a /\ q[j] = b

\* a and b, of one session and for one model, are on their way, and a is further on.
Ahead(a, b) ==
    \/ Before(queue[ModelOf[a]], a, b)
    \/ InQueue(ModelOf[a], a) /\ (Handed(b) \/ InQueue(SessionOf[b], b))
    \/ Handed(a) /\ InQueue(SessionOf[b], b)
    \/ Before(queue[SessionOf[a]], a, b)

\* Requests of one session for one model reach the engine in the order they were
\* accepted, through two queues and the worker between them: the one ahead stays ahead
\* until it is through, unless the other is refused because the model queue is full, and
\* a new one comes in behind all others.
OrderKept ==
    [][\A a, b \in Requests :
          a # b /\ SessionOf[a] = SessionOf[b] /\ ModelOf[a] = ModelOf[b] =>
              /\ Ahead(a, b) => \/ Ahead(a, b)' \/ ~Waits(a)'
                                \/ error[b] = "none" /\ error'[b] = "overloaded"
              /\ Waits(a) /\ ~Waits(b) /\ Waits(b)' => Ahead(a, b)']_vars

\* Every entered request is finished, and a waiting non-stream client is answered.
EveryRequestEnds ==
    \A r \in Requests :
        /\ Entered(r) ~> done[r] > 0
        /\ Entered(r) /\ r \notin Streaming ~> reply[r] # "none"

\* Both executors implement a bounded serial FIFO per key.
Current(k) == {req[w] : w \in {v \in Workers : Serves(v, k) /\ req[v] # None}}

Serial == INSTANCE SerialExecutors WITH
    Keys <- Jobs,
    Items <- Requests,
    Capacity <- [k \in Jobs |-> IF k \in Sessions THEN MaxPending ELSE MaxModelQueue],
    waiting <- queue,
    current <- [k \in Jobs |-> Current(k)]

SerialSafeSpec == Serial!SafeSpec
SerialSpec     == Serial!Spec

\* An engine object is cached per model and has one KV cache and no lock: two
\* workers never run the same model's engine, whatever the sessions.
EngineExclusive ==
    \A v, w \in Workers :
        v # w /\ pc[v] = "run" /\ pc[w] = "run" => ModelOf[req[v]] # ModelOf[req[w]]

\* HttpGateway.cc:350, "requests of one session execute serially": at most one
\* request of a session is in an engine.
SessionSerial ==
    \A v, w \in Workers :
        v # w /\ pc[v] = "run" /\ pc[w] = "run" => SessionOf[req[v]] # SessionOf[req[w]]

\* ServingContext.h:122, "write the result first (so that whoever wakes from
\* WaitFinish reads it)": the answer carries the reason the request finished with.
AnswerHasReason ==
    \A r \in Requests \ Streaming :
        done[r] > 0 /\ reply[r] \in Reasons => reply[r] = finish_reason[r]

\* HttpGateway.cc:344, "a closed connection cancels at once and wakes the waiter".
CloseWakesWaiter ==
    \A r \in Requests \ Streaming :
        (conn[r] = "hup" /\ pc[Loop] = "wait" /\ req[Loop] = r) ~> finished[r]

-----------------------------------------------------------------------------
(* The invariants behind the theorems.                                     *)

\* What a thread's place in the code says about the request it works on and the
\* queue it serves.
ControlInv ==
    /\ job[Loop] = None
    /\ pc[Loop] \in {"idle", "submit", "schedule", "wait", "emit", "reason", "chunk", "onfinish"}
    /\ pc[Loop] # "idle" => req[Loop] \in Requests
    /\ \A w \in Workers :
        /\ pc[w] \notin {"submit", "wait"}
        /\ job[w] = None <=> pc[w] = "idle"
        /\ req[w] = None <=> pc[w] \in {"idle", "drain", "runq"}
        /\ pc[w] \in {"drain", "exec", "submitm", "schedule"} => job[w] \in Sessions
        /\ pc[w] \in {"runq", "task", "run"} => job[w] \in Models

\* A model's queue, and a worker serving it, hold requests for that model only.
RoutedInv ==
    \A m \in Models :
        /\ \A r \in Range(queue[m]) : ModelOf[r] = m
        /\ \A w \in Workers : job[w] = m /\ req[w] # None => ModelOf[req[w]] = m

\* The thread that won finished.exchange, until it has called on_finish.
Finishing(t, r) == req[t] = r /\ pc[t] \in {"reason", "chunk", "onfinish"}

\* on_finish is still owed by exactly the thread that won the exchange.
FinishInv ==
    \A r \in Requests :
        /\ done[r] \in {0, 1}
        /\ done[r] = 1 => finished[r]
        /\ \A t \in Threads : Finishing(t, r) => finished[r] /\ done[r] = 0
        /\ \A t, u \in Threads : Finishing(t, r) /\ Finishing(u, r) => t = u

=============================================================================
