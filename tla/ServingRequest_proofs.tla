----------------------- MODULE ServingRequest_proofs -----------------------
(***************************************************************************)
(* Proofs about the life of a request in ServingCore: it is not lost, it   *)
(* is counted exactly, its outcome is settled once, its status agrees with *)
(* its outcome, and it keeps its place among those of its session.         *)
(***************************************************************************)
EXTENDS ServingCore_proofs, FiniteSetTheorems

-----------------------------------------------------------------------------
(* Only entered requests travel.                                           *)

\* Threads, queues and finished contexts belong to requests that were counted in.
EnteredInv ==
    /\ \A t \in Threads : pc[t] \notin {"idle", "drain", "runq"} => Entered(req[t])
    /\ \A k \in Jobs : \A r \in Range(queue[k]) : Entered(r)
    /\ \A r \in Requests : finished[r] => Entered(r)
    /\ \A r \in Requests : conn[r] = "new" => reply[r] = "none"

\* A request enters in ChatRequest and in no other step, and never leaves again.
LEMMA EntryStep ==
    ASSUME TypeOK, ControlInv, EnteredInv, [Next]_vars
    PROVE  /\ \A r \in Requests : Entered(r) => Entered(r)'
           /\ \A r \in Requests : Entered(r)' => Entered(r) \/ ChatRequest(r)
           /\ \A r \in Requests : conn'[r] = "new" => reply'[r] = "none"
<1>. DEFINE Goal == /\ \A r \in Requests : Entered(r) => Entered(r)'
                    /\ \A r \in Requests : Entered(r)' => Entered(r) \/ ChatRequest(r)
                    /\ \A r \in Requests : conn'[r] = "new" => reply'[r] = "none"
<1>. USE CoreAssumption DEF Threads, TypeOK, ContextTypeOK
<1>1. ASSUME UNCHANGED <<conn, reply>> PROVE Goal
  BY <1>1 DEF Entered, EnteredInv
<1>2. ASSUME NEW t \in Threads, EmitStep(t) PROVE Goal
  <2>1. CASE FinalChunk(t)
    <3>1. req[t] \in Requests /\ Entered(req[t]) /\ arg[t] \in Reasons
      BY <2>1 DEF FinalChunk, ControlInv, EnteredInv, ThreadTypeOK
    <3>2. \A r \in Requests : reply'[r] = reply[r] \/ (r = req[t] /\ reply'[r] = arg[t])
      BY <2>1 DEF FinalChunk
    <3>3. UNCHANGED conn
      BY <2>1 DEF FinalChunk
    <3>. QED  BY <3>1, <3>2, <3>3 DEF Entered, EnteredInv, Reasons
  <2>2. CASE EmitFinish(t) \/ StoreReason(t) \/ OnFinish(t)
    BY <1>1, <2>2 DEF EmitFinish, StoreReason, OnFinish, outVars
  <2>. QED  BY <1>2, <2>1, <2>2 DEF EmitStep
<1>3. ASSUME NEW r \in Requests, ClientStep(r) \/ OnClose(r) PROVE Goal
  <2>1. CASE ChatRequest(r)
    <3>1. \A x \in Requests : x # r => conn'[x] = conn[x]
      BY <2>1 DEF ChatRequest
    <3>2. conn'[r] = "up" /\ UNCHANGED reply
      BY <2>1 DEF ChatRequest
    <3>3. conn[r] = "new"
      BY <2>1 DEF ChatRequest
    <3>. QED  BY <2>1, <3>1, <3>2, <3>3 DEF Entered, EnteredInv
  <2>2. CASE BadRequest(r)
    <3>1. \A x \in Requests : x # r => conn'[x] = conn[x] /\ reply'[x] = reply[x]
      BY <2>2 DEF BadRequest
    <3>2. conn[r] = "new" /\ conn'[r] = "up" /\ reply'[r] = "400"
      BY <2>2 DEF BadRequest
    <3>. QED  BY <3>1, <3>2 DEF Entered, EnteredInv
  <2>3. CASE PeerClose(r) \/ OnClose(r)
    <3>1. \A x \in Requests : x # r => conn'[x] = conn[x]
      BY <2>3 DEF PeerClose, OnClose
    <3>2. conn[r] # "new" /\ conn'[r] # "new" /\ UNCHANGED reply
      BY <2>3 DEF PeerClose, OnClose, outVars
    <3>. QED  BY <3>1, <3>2 DEF Entered, EnteredInv
  <2>. QED  BY <1>3, <2>1, <2>2, <2>3 DEF ClientStep
<1>4. ASSUME WaitFinishOrCancel PROVE Goal
  <2>1. req[Loop] \in Requests /\ Entered(req[Loop])
    BY <1>4 DEF WaitFinishOrCancel, ControlInv, EnteredInv
  <2>2. Answer(req[Loop]) \in Reasons \cup {"429", "500"}
    BY <2>1 DEF Answer
  <2>3. \A r \in Requests : reply'[r] = reply[r] \/ (r = req[Loop] /\ reply'[r] = Answer(r))
    BY <1>4 DEF WaitFinishOrCancel
  <2>4. UNCHANGED conn
    BY <1>4 DEF WaitFinishOrCancel
  <2>. QED  BY <2>1, <2>2, <2>3, <2>4 DEF Entered, EnteredInv, Reasons
<1>5. ASSUME SessionSubmit \/ UNCHANGED vars PROVE Goal
  BY <1>1, <1>5 DEF SessionSubmit, vars, outVars
<1>6. ASSUME NEW t \in Threads, Schedule(t) PROVE Goal
  BY <1>1, <1>6 DEF Schedule, outVars
<1>7. ASSUME NEW w \in Workers, TakeTask(w) \/ Drain(w) \/ RunModelQueue(w) PROVE Goal
  BY <1>1, <1>7 DEF TakeTask, Drain, RunModelQueue, PopNext, LeaveQueue, outVars
<1>8. ASSUME NEW w \in Workers,
             Execute(w) \/ SubmitPerModel(w) \/ TaskSkips(w) \/ TaskFails(w) \/ EngineStart(w)
             \/ EngineStep(w)
      PROVE  Goal
  BY <1>1, <1>8 DEF Execute, SubmitPerModel, TaskSkips, TaskFails, EngineStart, EngineStep,
                    EngineFinish, EngineReturn, outVars
<1>. QED
  BY <1>2, <1>3, <1>4, <1>5, <1>6, <1>7, <1>8 DEF Next, WorkerStep, LoopStep, Quiescent

\* A push adds its request to one queue.
LEMMA PushFacts ==
    ASSUME QueueTypeOK, NEW k \in Jobs, NEW r \in Requests,
           queue' = [queue EXCEPT ![k] = Append(@, r)]
    PROVE  /\ \A l \in Jobs, x \in Requests : InQueue(l, x)' <=> InQueue(l, x) \/ (l = k /\ x = r)
           /\ \A l \in Jobs : IsInjective(queue[l]) /\ ~InQueue(k, r) => IsInjective(queue'[l])
<1>1. queue[k] \in Seq(Requests)
  BY DEF QueueTypeOK
<1>2. /\ queue'[k] = Append(queue[k], r)
      /\ \A l \in Jobs \ {k} : queue'[l] = queue[l]
  BY DEF QueueTypeOK
<1>3. /\ Range(queue'[k]) = Range(queue[k]) \cup {r}
      /\ IsInjective(queue[k]) /\ r \notin Range(queue[k]) => IsInjective(queue'[k])
  BY <1>1, <1>2, AppendRange
<1>. QED  BY <1>2, <1>3 DEF InQueue

\* A turn of Drain or RunModelQueue moves the oldest request from the queue to the worker.
LEMMA PopFacts ==
    ASSUME TypeOK, ControlInv, NEW w \in Workers,
           PopNext(w, "drain", "exec") \/ PopNext(w, "runq", "task")
    PROVE  /\ job[w] \in Jobs /\ req[w] = None /\ pc[w] \in {"drain", "runq"}
           /\ req'[w] \in Requests /\ pc'[w] \in {"exec", "task"} /\ InQueue(job[w], req'[w])
           /\ \A t \in Threads \ {w} : pc'[t] = pc[t] /\ req'[t] = req[t]
           /\ \A l \in Jobs, x \in Requests :
                 InQueue(l, x) <=> InQueue(l, x)' \/ (l = job[w] /\ x = req'[w])
           /\ \A l \in Jobs : IsInjective(queue[l]) => IsInjective(queue'[l])
           /\ IsInjective(queue[job[w]]) => req'[w] \notin Range(queue'[job[w]])
           /\ UNCHANGED <<arg, conn, cancelled, finished, finish_reason, error, reply, done>>
<1>. USE CoreAssumption DEF Threads, Jobs
<1>1. /\ job[w] \in Jobs /\ req[w] = None /\ pc[w] \in {"drain", "runq"}
      /\ queue[job[w]] # <<>>
      /\ queue' = [queue EXCEPT ![job[w]] = Tail(queue[job[w]])]
      /\ req' = [req EXCEPT ![w] = Head(queue[job[w]])]
      /\ UNCHANGED <<arg, conn, cancelled, finished, finish_reason, error, reply, done>>
  BY DEF PopNext, ControlInv, ctxVars, outVars
<1>2. /\ pc'[w] \in {"exec", "task"}
      /\ \A t \in Threads \ {w} : pc'[t] = pc[t] /\ req'[t] = req[t]
  BY <1>1 DEF PopNext, Goto, TypeOK, ThreadTypeOK
<1>3. queue[job[w]] \in Seq(Requests)
  BY <1>1 DEF TypeOK, QueueTypeOK
<1>4. /\ queue'[job[w]] = Tail(queue[job[w]])
      /\ \A l \in Jobs \ {job[w]} : queue'[l] = queue[l]
      /\ req'[w] = Head(queue[job[w]])
  BY <1>1 DEF TypeOK, QueueTypeOK, ThreadTypeOK
<1>5. Head(queue[job[w]]) \in Requests
  BY <1>1, <1>3
<1>6. /\ Range(queue[job[w]]) = Range(queue'[job[w]]) \cup {req'[w]}
      /\ IsInjective(queue[job[w]]) => IsInjective(queue'[job[w]]) /\ req'[w] \notin Range(queue'[job[w]])
  BY <1>1, <1>3, <1>4, TailRange
<1>. QED  BY <1>1, <1>2, <1>4, <1>5, <1>6 DEF InQueue

\* Every step keeps threads, queues and finished contexts to entered requests.
LEMMA EnteredStep ==
    ASSUME TypeOK, ControlInv, EnteredInv, [Next]_vars
    PROVE  EnteredInv'
<1>. DEFINE Busy(t) == pc[t] \notin {"idle", "drain", "runq"}
<1>. USE CoreAssumption DEF Threads, Jobs
<1>1. /\ \A r \in Requests : Entered(r) => Entered(r)'
      /\ \A r \in Requests : conn'[r] = "new" => reply'[r] = "none"
  BY EntryStep
<1>2. \A t \in Threads : Busy(t) => req[t] \in Requests
  BY DEF ControlInv, TypeOK, ThreadTypeOK
<1>3. \A k \in Jobs, r \in Requests : InQueue(k, r) => Entered(r)
  BY DEF EnteredInv, InQueue
<1>4. ASSUME \A t \in Threads : Busy(t)' => \/ Busy(t) /\ req'[t] = req[t]
                                            \/ \E r \in Requests : req'[t] = r /\ Entered(r)'
                                            \/ \E k \in Jobs, r \in Requests : req'[t] = r /\ InQueue(k, r),
             \A k \in Jobs, r \in Requests :
                InQueue(k, r)' => InQueue(k, r) \/ \E t \in Threads : Busy(t) /\ r = req[t],
             \A r \in Requests : finished'[r] => finished[r] \/ \E t \in Threads : Busy(t) /\ r = req[t]
      PROVE  EnteredInv'
  <2>1. \A t \in Threads : Busy(t)' => \E r \in Requests : req'[t] = r /\ Entered(r)'
    BY <1>1, <1>2, <1>3, <1>4 DEF EnteredInv
  <2>2. \A k \in Jobs, r \in Requests : InQueue(k, r)' => Entered(r)'
    BY <1>1, <1>3, <1>4 DEF EnteredInv
  <2>3. \A r \in Requests : finished'[r] => Entered(r)'
    BY <1>1, <1>4 DEF EnteredInv
  <2>4. \A k \in Jobs : Range(queue'[k]) \subseteq Requests
    <3>1. queue' \in [Jobs -> Seq(Requests)]
      BY QueueTypeStep DEF TypeOK, QueueTypeOK
    <3>. QED  BY <3>1 DEF Range
  <2>5. \A t \in Threads : Busy(t)' => Entered(req[t])'
    BY <2>1 DEF Entered
  <2>. QED  BY <1>1, <2>2, <2>3, <2>4, <2>5 DEF EnteredInv, InQueue
<1>5. ASSUME UNCHANGED <<queue, finished>>,
             \A t \in Threads : Busy(t)' => Busy(t) /\ req'[t] = req[t]
      PROVE  EnteredInv'
  BY <1>4, <1>5 DEF InQueue
<1>6. ASSUME NEW t \in Threads, NEW k \in Jobs, Busy(t), Enqueue(t, k, req[t]), UNCHANGED finished
      PROVE  EnteredInv'
  <2>1. \A l \in Jobs, x \in Requests : InQueue(l, x)' => InQueue(l, x) \/ x = req[t]
    BY <1>2, <1>6, PushFacts DEF Enqueue, TypeOK
  <2>2. \A u \in Threads : Busy(u)' => Busy(u) /\ req'[u] = req[u]
    BY <1>6 DEF Enqueue, Return, Goto, Resume, TypeOK, ThreadTypeOK
  <2>. QED  BY <1>4, <1>6, <2>1, <2>2
<1>7. ASSUME NEW w \in Workers, PopNext(w, "drain", "exec") \/ PopNext(w, "runq", "task")
      PROVE  EnteredInv'
  BY <1>4, <1>7, PopFacts
<1>8. ASSUME NEW t \in Threads, EmitStep(t) PROVE EnteredInv'
  <2>1. \A u \in Threads : Busy(u)' => Busy(u) /\ req'[u] = req[u]
    BY <1>8 DEF EmitStep, EmitFinish, StoreReason, FinalChunk, OnFinish, Return, Goto, Resume,
                TypeOK, ThreadTypeOK
  <2>2. UNCHANGED queue
    BY <1>8 DEF EmitStep, EmitFinish, StoreReason, FinalChunk, OnFinish
  <2>3. \A r \in Requests : finished'[r] => finished[r] \/ (Busy(t) /\ r = req[t])
    BY <1>8 DEF EmitStep, EmitFinish, StoreReason, FinalChunk, OnFinish, ctxVars, TypeOK,
                ContextTypeOK
  <2>. QED  BY <1>4, <2>1, <2>2, <2>3 DEF InQueue
<1>9. ASSUME NEW r \in Requests, ClientStep(r) \/ OnClose(r) PROVE EnteredInv'
  <2>1. UNCHANGED <<queue, finished>>
    BY <1>9 DEF ClientStep, BadRequest, ChatRequest, PeerClose, OnClose, ctxVars
  <2>2. CASE ChatRequest(r)
    <3>1. Entered(r)'
      BY <2>2 DEF ChatRequest, Entered, EnteredInv, TypeOK, ContextTypeOK
    <3>2. \A u \in Threads : Busy(u)' => req'[u] = r \/ (Busy(u) /\ req'[u] = req[u])
      BY <2>2 DEF ChatRequest, Goto, TypeOK, ThreadTypeOK
    <3>. QED  BY <1>4, <2>1, <3>1, <3>2 DEF InQueue
  <2>3. CASE OnClose(r)
    <3>1. \A u \in Threads : Busy(u)' => (req'[u] = r /\ reply[r] # "400") \/ (Busy(u) /\ req'[u] = req[u])
      BY <2>3 DEF OnClose, CallEmitFinish, Goto, TypeOK, ThreadTypeOK
    <3>2. reply[r] # "400" => Entered(r)'
      BY <1>1, <2>3 DEF OnClose, Entered
    <3>. QED  BY <1>4, <2>1, <3>1, <3>2 DEF InQueue
  <2>4. CASE BadRequest(r) \/ PeerClose(r)
    BY <1>5, <2>1, <2>4 DEF BadRequest, PeerClose, threadVars
  <2>. QED  BY <1>9, <2>2, <2>3, <2>4 DEF ClientStep
<1>10. ASSUME SessionSubmit PROVE EnteredInv'
  <2>1. SessionOf[req[Loop]] \in Jobs /\ Busy(Loop)
    BY <1>10 DEF SessionSubmit, ControlInv
  <2>2. CASE Len(queue[SessionOf[req[Loop]]]) >= MaxPending
    BY <1>5, <1>10, <2>1, <2>2 DEF SessionSubmit, CallEmitFinish, Goto, TypeOK, ThreadTypeOK
  <2>3. CASE ~(Len(queue[SessionOf[req[Loop]]]) >= MaxPending)
    BY <1>6, <1>10, <2>1, <2>3 DEF SessionSubmit
  <2>. QED  BY <2>2, <2>3
<1>11. ASSUME NEW w \in Workers, SubmitPerModel(w) PROVE EnteredInv'
  <2>1. ModelOf[req[w]] \in Jobs /\ Busy(w)
    BY <1>2, <1>11 DEF SubmitPerModel
  <2>2. CASE Len(queue[ModelOf[req[w]]]) >= MaxModelQueue
    BY <1>5, <1>11, <2>1, <2>2 DEF SubmitPerModel, CallEmitFinish, Goto, TypeOK, ThreadTypeOK
  <2>3. CASE ~(Len(queue[ModelOf[req[w]]]) >= MaxModelQueue)
    BY <1>6, <1>11, <2>1, <2>3 DEF SubmitPerModel
  <2>. QED  BY <2>2, <2>3
<1>12. ASSUME WaitFinishOrCancel \/ UNCHANGED vars PROVE EnteredInv'
  BY <1>5, <1>12 DEF WaitFinishOrCancel, CallEmitFinish, Goto, vars, TypeOK, ThreadTypeOK
<1>13. ASSUME NEW t \in Threads, Schedule(t) PROVE EnteredInv'
  BY <1>5, <1>13 DEF Schedule, Return, Resume, Goto, ctxVars, TypeOK, ThreadTypeOK
<1>14. ASSUME NEW w \in Workers, TakeTask(w) \/ LeaveQueue(w, "drain") \/ LeaveQueue(w, "runq")
       PROVE  EnteredInv'
  BY <1>5, <1>14 DEF TakeTask, LeaveQueue, Goto, ctxVars, TypeOK, ThreadTypeOK
<1>15. ASSUME NEW w \in Workers,
              Execute(w) \/ TaskSkips(w) \/ TaskFails(w) \/ EngineStart(w) \/ EngineStep(w)
       PROVE  EnteredInv'
  BY <1>5, <1>15 DEF Execute, TaskSkips, TaskFails, EngineStart, EngineStep, EngineFinish,
                     EngineReturn, CallEmitFinish, Return, Resume, Goto, ctxVars, TypeOK, ThreadTypeOK
<1>. QED
  BY <1>7, <1>8, <1>9, <1>10, <1>11, <1>12, <1>13, <1>14, <1>15
     DEF Next, WorkerStep, LoopStep, Drain, RunModelQueue, Quiescent

-----------------------------------------------------------------------------
(* No request is lost.                                                     *)

\* A finished request whose on_finish has not run has the thread that won the
\* exchange on its way to it.
OwedInv ==
    \A r \in Requests : finished[r] /\ done[r] = 0 => \E t \in Threads : Finishing(t, r)

\* A thread is taking the request towards its finish.
Working(t, r) == req[t] = r /\ pc[t] \in {"submit", "exec", "submitm", "task", "run", "emit"}

\* An unfinished request waits in one of its queues or is in a thread's hands.
PlacedInv ==
    \A r \in Requests : Entered(r) /\ ~finished[r] =>
        \/ InQueue(SessionOf[r], r)
        \/ InQueue(ModelOf[r], r)
        \/ \E t \in Threads : Working(t, r)

\* Every step keeps on_finish owed by somebody until it has run.
LEMMA OwedStep ==
    ASSUME TypeOK, ControlInv, OwedInv, [Next]_vars
    PROVE  OwedInv'
<1>. USE CoreAssumption DEF Threads
<1>1. ASSUME UNCHANGED <<finished, done>>,
             \A t \in Threads, r \in Requests : Finishing(t, r) => Finishing(t, r)'
      PROVE  OwedInv'
  BY <1>1 DEF OwedInv
<1>2. ASSUME NEW t \in Threads, EmitFinish(t) PROVE OwedInv'
  <2>1. /\ req[t] \in Requests
        /\ \A r \in Requests : finished'[r] <=> finished[r] \/ r = req[t]
        /\ UNCHANGED done
        /\ \A u \in Threads, r \in Requests : Finishing(u, r) => Finishing(u, r)'
    BY <1>2 DEF EmitFinish, Return, Goto, ControlInv, Finishing, outVars, TypeOK, ThreadTypeOK,
                ContextTypeOK
  <2>2. ~finished[req[t]] => pc'[t] = "reason" /\ req'[t] = req[t]
    BY <1>2 DEF EmitFinish, Goto, TypeOK, ThreadTypeOK
  <2>. QED  BY <2>1, <2>2 DEF OwedInv, Finishing
<1>3. ASSUME NEW t \in Threads, StoreReason(t) \/ FinalChunk(t) PROVE OwedInv'
  BY <1>1, <1>3 DEF StoreReason, FinalChunk, Goto, Finishing, outVars, TypeOK, ThreadTypeOK
<1>4. ASSUME NEW t \in Threads, OnFinish(t) PROVE OwedInv'
  <2>1. /\ req[t] \in Requests
        /\ UNCHANGED finished
        /\ \A u \in Threads \ {t} : pc'[u] = pc[u] /\ req'[u] = req[u]
    BY <1>4 DEF OnFinish, Return, Goto, ControlInv, ctxVars, TypeOK, ThreadTypeOK
  <2>2. /\ done'[req[t]] # 0
        /\ \A r \in Requests \ {req[t]} : done'[r] = done[r]
    BY <1>4, <2>1 DEF OnFinish, TypeOK, ContextTypeOK
  <2>. QED  BY <2>1, <2>2 DEF OwedInv, Finishing
<1>5. ASSUME NEW w \in Workers, PopNext(w, "drain", "exec") \/ PopNext(w, "runq", "task")
      PROVE  OwedInv'
  BY <1>1, <1>5, PopFacts DEF Finishing
<1>6. ASSUME NEW w \in Workers,
             TakeTask(w) \/ LeaveQueue(w, "drain") \/ LeaveQueue(w, "runq") \/ SubmitPerModel(w)
      PROVE  OwedInv'
  BY <1>1, <1>6
     DEF TakeTask, LeaveQueue, SubmitPerModel, CallEmitFinish, Enqueue, Return, Goto,
         Finishing, ctxVars, outVars, TypeOK, ThreadTypeOK
<1>7. ASSUME NEW w \in Workers,
             Execute(w) \/ TaskSkips(w) \/ TaskFails(w) \/ EngineStart(w) \/ EngineStep(w)
      PROVE  OwedInv'
  BY <1>1, <1>7
     DEF Execute, TaskSkips, TaskFails, EngineStart, EngineStep, EngineFinish, EngineReturn,
         CallEmitFinish, Return, Goto, Finishing, ctxVars, outVars, TypeOK, ThreadTypeOK
<1>8. ASSUME NEW t \in Threads, Schedule(t) PROVE OwedInv'
  BY <1>1, <1>8
     DEF Schedule, Return, Goto, Finishing, ctxVars, outVars, TypeOK, ThreadTypeOK
<1>9. ASSUME NEW r \in Requests, ClientStep(r) \/ OnClose(r) PROVE OwedInv'
  BY <1>1, <1>9
     DEF ClientStep, BadRequest, ChatRequest, PeerClose, OnClose, CallEmitFinish, Goto, Finishing,
         threadVars, ctxVars, outVars, TypeOK, ThreadTypeOK
<1>10. ASSUME SessionSubmit \/ WaitFinishOrCancel PROVE OwedInv'
  BY <1>1, <1>10
     DEF SessionSubmit, WaitFinishOrCancel, CallEmitFinish, Enqueue, Return, Goto,
         Finishing, outVars, TypeOK, ThreadTypeOK
<1>11. CASE UNCHANGED vars
  BY <1>1, <1>11 DEF vars, Finishing
<1>. QED
  BY <1>2, <1>3, <1>4, <1>5, <1>6, <1>7, <1>8, <1>9, <1>10, <1>11
     DEF Next, WorkerStep, LoopStep, EmitStep, Drain, RunModelQueue, Quiescent

\* Every step keeps an unfinished request in a queue of its own or in a thread's hands.
LEMMA PlacedStep ==
    ASSUME TypeOK, ControlInv, EnteredInv, PlacedInv, [Next]_vars
    PROVE  PlacedInv'
<1>. USE CoreAssumption DEF Threads, Jobs
<1>1. \A r \in Requests : Entered(r)' => Entered(r) \/ Working(Loop, r)'
  <2>1. \A r \in Requests : ChatRequest(r) => Working(Loop, r)'
    BY DEF ChatRequest, Goto, Working, TypeOK, ThreadTypeOK
  <2>. QED  BY <2>1, EntryStep
\* Nobody who works on an unfinished request lets go of it, and no queue loses one.
<1>2. ASSUME \A r \in Requests : finished[r] => finished'[r],
             \A k \in Jobs, r \in Requests : InQueue(k, r) => InQueue(k, r)',
             \A t \in Threads, r \in Requests : Working(t, r) /\ ~finished'[r] => Working(t, r)'
      PROVE  PlacedInv'
  BY <1>1, <1>2 DEF PlacedInv
<1>3. ASSUME NEW t \in Threads, NEW k \in Jobs, NEW r \in Requests, Enqueue(t, k, r), r = req[t],
             k \in {SessionOf[r], ModelOf[r]}, UNCHANGED finished
      PROVE  PlacedInv'
  <2>1. \A l \in Jobs, x \in Requests : InQueue(l, x)' <=> InQueue(l, x) \/ (l = k /\ x = r)
    <3>1. queue' = [queue EXCEPT ![k] = Append(@, r)]
      BY <1>3 DEF Enqueue
    <3>2. QueueTypeOK
      BY DEF TypeOK
    <3>. QED  BY <3>1, <3>2, PushFacts
  <2>2. \A u \in Threads, x \in Requests : Working(u, x) /\ x # r => Working(u, x)'
    BY <1>3 DEF Enqueue, Return, Goto, Working, TypeOK, ThreadTypeOK
  <2>. QED  BY <1>1, <1>3, <2>1, <2>2 DEF PlacedInv
\* No queue changes, no request finishes, and a thread only drops a finished request.
<1>4. ASSUME UNCHANGED <<queue, finished>>,
             \A t \in Threads, r \in Requests : Working(t, r) /\ ~finished[r] => Working(t, r)'
      PROVE  PlacedInv'
  BY <1>2, <1>4 DEF InQueue
<1>5. ASSUME SessionSubmit PROVE PlacedInv'
  <2>1. PICK r \in Requests : r = req[Loop]
    BY <1>5 DEF SessionSubmit, ControlInv
  <2>2. CASE Len(queue[SessionOf[r]]) >= MaxPending
    BY <1>4, <1>5, <2>1, <2>2 DEF SessionSubmit, CallEmitFinish, Goto, Working, TypeOK, ThreadTypeOK
  <2>3. CASE ~(Len(queue[SessionOf[r]]) >= MaxPending)
    BY <1>3, <1>5, <2>1, <2>3 DEF SessionSubmit
  <2>. QED  BY <2>2, <2>3
<1>6. ASSUME NEW w \in Workers, SubmitPerModel(w) PROVE PlacedInv'
  <2>1. PICK r \in Requests : r = req[w]
    BY <1>6 DEF SubmitPerModel, ControlInv, TypeOK, ThreadTypeOK
  <2>2. CASE Len(queue[ModelOf[r]]) >= MaxModelQueue
    BY <1>4, <1>6, <2>1, <2>2 DEF SubmitPerModel, CallEmitFinish, Goto, Working, TypeOK, ThreadTypeOK
  <2>3. CASE ~(Len(queue[ModelOf[r]]) >= MaxModelQueue)
    BY <1>3, <1>6, <2>1, <2>3 DEF SubmitPerModel
  <2>. QED  BY <2>2, <2>3
<1>7. ASSUME NEW w \in Workers, PopNext(w, "drain", "exec") \/ PopNext(w, "runq", "task")
      PROVE  PlacedInv'
  <2>1. /\ \A l \in Jobs, x \in Requests : InQueue(l, x) => InQueue(l, x)' \/ Working(w, x)'
        /\ \A u \in Threads, x \in Requests : Working(u, x) => Working(u, x)'
        /\ UNCHANGED finished
    BY <1>7, PopFacts DEF Working
  <2>. QED  BY <1>1, <2>1 DEF PlacedInv
<1>8. ASSUME NEW t \in Threads, EmitFinish(t) PROVE PlacedInv'
  <2>1. /\ req[t] \in Requests
        /\ \A r \in Requests : finished'[r] <=> finished[r] \/ r = req[t]
        /\ UNCHANGED queue
        /\ \A u \in Threads \ {t} : pc'[u] = pc[u] /\ req'[u] = req[u]
    BY <1>8 DEF EmitFinish, Return, Goto, ControlInv, TypeOK, ThreadTypeOK, ContextTypeOK
  <2>. QED  BY <1>2, <2>1 DEF Working, InQueue
<1>9. ASSUME NEW t \in Threads, StoreReason(t) \/ FinalChunk(t) \/ OnFinish(t) \/ Schedule(t)
      PROVE  PlacedInv'
  BY <1>4, <1>9
     DEF StoreReason, FinalChunk, OnFinish, Schedule, Return, Goto, Working, ctxVars, TypeOK,
         ThreadTypeOK
<1>10. ASSUME NEW w \in Workers, TakeTask(w) \/ LeaveQueue(w, "drain") \/ LeaveQueue(w, "runq")
       PROVE  PlacedInv'
  BY <1>4, <1>10 DEF TakeTask, LeaveQueue, Goto, Working, ctxVars, TypeOK, ThreadTypeOK
<1>11. ASSUME NEW w \in Workers,
              Execute(w) \/ TaskSkips(w) \/ TaskFails(w) \/ EngineStart(w) \/ EngineStep(w)
       PROVE  PlacedInv'
  BY <1>4, <1>11
     DEF Execute, TaskSkips, TaskFails, EngineStart, EngineStep, EngineFinish, EngineReturn,
         CallEmitFinish, Return, Goto, Working, ctxVars, TypeOK, ThreadTypeOK
<1>12. ASSUME NEW r \in Requests, ClientStep(r) \/ OnClose(r) PROVE PlacedInv'
  BY <1>4, <1>12
     DEF ClientStep, BadRequest, ChatRequest, PeerClose, OnClose, CallEmitFinish, Goto, Working,
         threadVars, ctxVars, TypeOK, ThreadTypeOK
<1>13. ASSUME WaitFinishOrCancel \/ UNCHANGED vars PROVE PlacedInv'
  BY <1>4, <1>13 DEF WaitFinishOrCancel, CallEmitFinish, Goto, Working, vars, TypeOK, ThreadTypeOK
<1>. QED
  BY <1>5, <1>6, <1>7, <1>8, <1>9, <1>10, <1>11, <1>12, <1>13
     DEF Next, WorkerStep, LoopStep, EmitStep, Drain, RunModelQueue, Quiescent

\* What is known of a request's whereabouts, from its arrival to its on_finish.
THEOREM Whereabouts == Spec => [](EnteredInv /\ FinishInv /\ OwedInv /\ PlacedInv)
<1>1. Init => EnteredInv /\ FinishInv /\ OwedInv /\ PlacedInv
  BY CoreAssumption DEF Init, EnteredInv, FinishInv, OwedInv, PlacedInv, Entered, Finishing, Range,
                        Threads, Jobs
<1>2. TypeOK /\ ControlInv /\ (EnteredInv /\ FinishInv /\ OwedInv /\ PlacedInv) /\ [Next]_vars
      => (EnteredInv /\ FinishInv /\ OwedInv /\ PlacedInv)'
  BY EnteredStep, FinishStep, OwedStep, PlacedStep DEF TypeOK
<1>. QED  BY <1>1, <1>2, TypeCorrect, PTL DEF Spec

\* No request is lost between the session queue, the model queue, the pool's threads
\* and the race to finish it.
THEOREM NothingLost == Spec => []NotLost
<1>1. OwedInv /\ PlacedInv => NotLost
  BY DEF OwedInv, PlacedInv, NotLost, Finishing, Working, Holds
<1>. QED  BY <1>1, Whereabouts, PTL

-----------------------------------------------------------------------------
(* in_flight_ is exact.                                                    *)

\* The requests counted in and not yet counted out.
Open == {r \in Requests : Entered(r) /\ done[r] = 0}

\* The gauge counts the open requests, of which there are finitely many.
CountInv == IsFiniteSet(Open) /\ in_flight = Cardinality(Open)

\* A request's arrival and its on_finish are the only steps that change the gauge, and
\* each changes it by the one request it opens or closes.
LEMMA CountStep ==
    ASSUME TypeOK, ControlInv, EnteredInv, FinishInv, CountInv, [Next]_vars
    PROVE  CountInv'
<1>. USE CoreAssumption DEF Threads
<1>1. /\ \A r \in Requests : Entered(r) => Entered(r)'
      /\ \A r \in Requests : Entered(r)' => Entered(r) \/ ChatRequest(r)
  BY EntryStep
<1>2. ASSUME UNCHANGED <<in_flight, done>>, \A r \in Requests : ~ChatRequest(r) PROVE CountInv'
  <2>1. Open' = Open
    BY <1>1, <1>2 DEF Open
  <2>. QED  BY <1>2, <2>1 DEF CountInv
<1>3. ASSUME NEW r \in Requests, ChatRequest(r) PROVE CountInv'
  <2>1. /\ in_flight' = in_flight + 1
        /\ UNCHANGED done
        /\ ~Entered(r)
        /\ \A x \in Requests : ChatRequest(x) => x = r
    BY <1>3 DEF ChatRequest, Entered, TypeOK, ThreadTypeOK
  <2>2. Entered(r)'
    BY <1>3 DEF ChatRequest, Entered, EnteredInv, TypeOK, ContextTypeOK
  <2>3. done[r] = 0
    BY <2>1 DEF EnteredInv, FinishInv
  <2>4. r \notin Open /\ Open' = Open \cup {r}
    BY <1>1, <2>1, <2>2, <2>3 DEF Open
  <2>. QED  BY <2>1, <2>4, FS_AddElement DEF CountInv
<1>4. ASSUME NEW t \in Threads, OnFinish(t) PROVE CountInv'
  <2>1. PICK r \in Requests : r = req[t]
    BY <1>4 DEF OnFinish, ControlInv, TypeOK, ThreadTypeOK
  <2>2. /\ in_flight' = in_flight - 1
        /\ done[r] = 0
        /\ Entered(r)
    BY <1>4, <2>1 DEF OnFinish, FinishInv, Finishing, EnteredInv
  <2>3. done'[r] = 1 /\ \A x \in Requests \ {r} : done'[x] = done[x]
    BY <1>4, <2>1, <2>2 DEF OnFinish, TypeOK, ContextTypeOK
  <2>4. \A x \in Requests : ~ChatRequest(x)
    BY <1>4 DEF OnFinish, ChatRequest, TypeOK, ContextTypeOK
  <2>5. r \in Open /\ Open' = Open \ {r}
    BY <1>1, <2>2, <2>3, <2>4 DEF Open
  <2>. QED  BY <2>2, <2>5, FS_RemoveElement DEF CountInv
<1>5. CASE UNCHANGED <<in_flight, done>>
  <2>1. \A r \in Requests : ~ChatRequest(r)
    BY <1>5 DEF ChatRequest, TypeOK, ContextTypeOK
  <2>. QED  BY <1>2, <1>5, <2>1
<1>6. ASSUME NEW t \in Threads,
             EmitFinish(t) \/ StoreReason(t) \/ FinalChunk(t) \/ Schedule(t)
      PROVE  UNCHANGED <<in_flight, done>>
  BY <1>6 DEF EmitFinish, StoreReason, FinalChunk, Schedule, outVars
<1>7. ASSUME NEW r \in Requests, BadRequest(r) \/ PeerClose(r) \/ OnClose(r)
      PROVE  UNCHANGED <<in_flight, done>>
  BY <1>7 DEF BadRequest, PeerClose, OnClose, outVars
<1>8. ASSUME NEW w \in Workers,
             \/ TakeTask(w) \/ Drain(w) \/ RunModelQueue(w) \/ Execute(w) \/ SubmitPerModel(w)
             \/ TaskSkips(w) \/ TaskFails(w) \/ EngineStart(w) \/ EngineStep(w)
      PROVE  UNCHANGED <<in_flight, done>>
  BY <1>8 DEF TakeTask, Drain, RunModelQueue, PopNext, LeaveQueue, Execute, SubmitPerModel,
              TaskSkips, TaskFails, EngineStart, EngineStep, EngineFinish, EngineReturn, outVars
<1>9. ASSUME SessionSubmit \/ WaitFinishOrCancel \/ UNCHANGED vars
      PROVE  UNCHANGED <<in_flight, done>>
  BY <1>9 DEF SessionSubmit, WaitFinishOrCancel, vars, outVars
<1>. QED
  BY <1>3, <1>4, <1>5, <1>6, <1>7, <1>8, <1>9
     DEF Next, WorkerStep, LoopStep, ClientStep, EmitStep, Quiescent

\* The in_flight_ gauge always equals the number of requests between their arrival and
\* their on_finish, whichever path they take.
THEOREM GaugeExact == Spec => []InFlightExact
<1>1. Init => CountInv
  <2>1. Init => Open = {}
    BY DEF Init, Open, Entered
  <2>. QED  BY <2>1, FS_EmptySet DEF Init, CountInv
<1>2. TypeOK /\ ControlInv /\ EnteredInv /\ FinishInv /\ CountInv /\ [Next]_vars => CountInv'
  BY CountStep
<1>3. CountInv => InFlightExact
  BY DEF CountInv, InFlightExact, Open
<1>. QED  BY <1>1, <1>2, <1>3, TypeCorrect, Whereabouts, PTL DEF Spec

-----------------------------------------------------------------------------
(* A request is in one place at a time.                                    *)

\* The loop thread stays with a non-stream request until it is finished, so that the
\* close callback, which the same thread runs, always comes too late to finish it.
AttendedInv ==
    /\ \A r \in Requests \ Streaming :
          Entered(r) /\ ~finished[r] => pc[Loop] # "idle" /\ req[Loop] = r
    /\ pc[Loop] # "idle" /\ ~finished[req[Loop]] => conn[req[Loop]] # "down"

\* The thread works on a request that it alone can still finish; the EmitFinish of a
\* close callback is not such work.
Carries(t, r) == Working(t, r) /\ (t = Loop /\ pc[t] = "emit" => ~finished[r])

\* An unfinished request is in one queue once, or with one thread; a finished one is in
\* no queue, and no thread carries it.
SoleInv ==
    /\ \A r \in Requests :
        /\ \A t \in Threads : Carries(t, r) => ~finished[r]
        /\ \A k \in Jobs : InQueue(k, r) => ~finished[r]
        /\ \A t, u \in Threads : Carries(t, r) /\ Carries(u, r) => t = u
        /\ \A t \in Threads, k \in Jobs : ~(Carries(t, r) /\ InQueue(k, r))
        /\ \A k, l \in Jobs : InQueue(k, r) /\ InQueue(l, r) => k = l
    /\ \A k \in Jobs : IsInjective(queue[k])

\* Every step leaves the loop thread with the unfinished non-stream request it serves.
LEMMA AttendedStep ==
    ASSUME TypeOK, ControlInv, EnteredInv, AttendedInv, [Next]_vars
    PROVE  AttendedInv'
<1>. USE CoreAssumption DEF Threads
<1>1. \A r \in Requests : Entered(r)' => Entered(r) \/ ChatRequest(r)
  BY EntryStep
<1>2. pc[Loop] # "idle" => req[Loop] \in Requests
  BY DEF ControlInv
\* The loop thread stays where it is, or moves on with the same request.
<1>3. ASSUME \A r \in Requests : finished[r] => finished'[r],
             \A r \in Requests : ChatRequest(r) => FALSE,
             \A r \in Requests : conn'[r] = "down" => conn[r] = "down",
             pc'[Loop] # "idle" => pc[Loop] # "idle" /\ req'[Loop] = req[Loop],
             pc[Loop] # "idle" /\ ~finished'[req[Loop]] /\ req[Loop] \notin Streaming
                => pc'[Loop] # "idle" /\ req'[Loop] = req[Loop]
      PROVE  AttendedInv'
  BY <1>1, <1>2, <1>3 DEF AttendedInv
<1>4. ASSUME NEW w \in Workers, pc' = [pc EXCEPT ![w] = pc'[w]], req' = [req EXCEPT ![w] = req'[w]],
             UNCHANGED conn, \A r \in Requests : finished[r] => finished'[r]
      PROVE  AttendedInv'
  <2>1. pc'[Loop] = pc[Loop] /\ req'[Loop] = req[Loop]
    BY <1>4 DEF TypeOK, ThreadTypeOK
  <2>2. \A r \in Requests : ~ChatRequest(r)
    BY <2>1 DEF ChatRequest, Goto, TypeOK, ThreadTypeOK
  <2>. QED  BY <1>3, <1>4, <2>1, <2>2
<1>5. ASSUME NEW t \in Threads, pc[t] # "idle", Return(t), UNCHANGED conn,
             \A r \in Requests : finished[r] => finished'[r]
      PROVE  AttendedInv'
  <2>1. CASE t = Loop
    <3>1. /\ pc' = [pc EXCEPT ![Loop] = Resume(Loop)]
          /\ req' = [req EXCEPT ![Loop] = IF Resume(Loop) = "wait" THEN @ ELSE None]
      BY <1>5, <2>1 DEF Return, Goto
    <3>2. /\ pc'[Loop] = Resume(Loop)
          /\ req'[Loop] = IF Resume(Loop) = "wait" THEN req[Loop] ELSE None
      BY <3>1 DEF TypeOK, ThreadTypeOK
    <3>3. /\ Resume(Loop) \in {"idle", "wait"}
          /\ req[Loop] \notin Streaming /\ conn[req[Loop]] # "down" => Resume(Loop) = "wait"
      BY DEF Resume
    <3>4. \A r \in Requests : ~ChatRequest(r)
      BY <1>5, <2>1 DEF ChatRequest
    <3>. QED  BY <1>2, <1>3, <1>5, <2>1, <3>2, <3>3, <3>4 DEF AttendedInv
  <2>2. CASE t # Loop
    <3>1. pc' = [pc EXCEPT ![t] = pc'[t]] /\ req' = [req EXCEPT ![t] = req'[t]]
      BY <1>5 DEF Return, Goto, TypeOK, ThreadTypeOK
    <3>. QED  BY <1>4, <1>5, <2>2, <3>1
  <2>. QED  BY <2>1, <2>2
\* A thread goes on with its request.
<1>6. ASSUME NEW t \in Threads, pc[t] # "idle", NEW l, l # "idle", Goto(t, l),
             UNCHANGED <<req, conn>>, \A r \in Requests : finished[r] => finished'[r]
      PROVE  AttendedInv'
  <2>1. CASE t = Loop
    <3>1. pc'[Loop] = l /\ \A r \in Requests : ~ChatRequest(r)
      BY <1>6, <2>1 DEF Goto, ChatRequest, TypeOK, ThreadTypeOK
    <3>. QED  BY <1>3, <1>6, <2>1, <3>1
  <2>2. CASE t # Loop
    <3>1. pc' = [pc EXCEPT ![t] = pc'[t]] /\ req' = [req EXCEPT ![t] = req'[t]]
      BY <1>6 DEF Goto, TypeOK, ThreadTypeOK
    <3>. QED  BY <1>4, <1>6, <2>2, <3>1
  <2>. QED  BY <2>1, <2>2
<1>7. ASSUME NEW t \in Threads, EmitStep(t) PROVE AttendedInv'
  <2>1. \A r \in Requests : finished[r] => finished'[r]
    BY <1>7 DEF EmitStep, EmitFinish, StoreReason, FinalChunk, OnFinish, ctxVars, TypeOK,
                ContextTypeOK
  <2>2. UNCHANGED conn /\ pc[t] # "idle"
    BY <1>7 DEF EmitStep, EmitFinish, StoreReason, FinalChunk, OnFinish
  <2>3. CASE Return(t)
    BY <1>5, <2>1, <2>2, <2>3
  <2>4. CASE \E l \in {"reason", "chunk", "onfinish"} : Goto(t, l) /\ UNCHANGED req
    BY <1>6, <2>1, <2>2, <2>4
  <2>. QED  BY <1>7, <2>3, <2>4 DEF EmitStep, EmitFinish, StoreReason, FinalChunk, OnFinish
<1>8. ASSUME NEW t \in Threads, Schedule(t) PROVE AttendedInv'
  BY <1>5, <1>8 DEF Schedule, ctxVars
<1>9. ASSUME NEW r \in Requests, ClientStep(r) \/ OnClose(r) PROVE AttendedInv'
  <2>1. UNCHANGED finished
    BY <1>9 DEF ClientStep, BadRequest, ChatRequest, PeerClose, OnClose, ctxVars
  <2>2. CASE ChatRequest(r)
    <3>1. /\ pc'[Loop] = "submit" /\ req'[Loop] = r /\ pc[Loop] = "idle"
          /\ conn'[r] = "up"
          /\ \A x \in Requests : ChatRequest(x) => x = r
      BY <2>2 DEF ChatRequest, Goto, TypeOK, ThreadTypeOK, ContextTypeOK
    <3>. QED  BY <1>1, <2>1, <3>1 DEF AttendedInv
  <2>3. CASE BadRequest(r) \/ PeerClose(r)
    <3>1. UNCHANGED <<pc, req>> /\ \A x \in Requests : conn'[x] = "down" => conn[x] = "down"
      BY <2>3 DEF BadRequest, PeerClose, threadVars, TypeOK, ContextTypeOK
    <3>2. \A x \in Requests : ~ChatRequest(x)
      BY <3>1 DEF ChatRequest, Goto, TypeOK, ThreadTypeOK
    <3>. QED  BY <1>3, <2>1, <3>1, <3>2
  <2>4. CASE OnClose(r)
    <3>1. /\ pc[Loop] = "idle"
          /\ \A x \in Requests \ {r} : conn'[x] = conn[x]
          /\ conn'[r] = "down"
          /\ conn[r] = "hup"
      BY <2>4 DEF OnClose, TypeOK, ContextTypeOK
    <3>2. \A x \in Requests : ~ChatRequest(x)
      BY <3>1 DEF ChatRequest, TypeOK, ContextTypeOK
    <3>3. r \in Streaming \/ reply[r] = "400" \/ finished[r]
      BY <3>1 DEF AttendedInv, Entered
    <3>4. pc'[Loop] = "idle" \/ (req'[Loop] = r /\ finished[r])
      BY <2>4, <3>1, <3>3 DEF OnClose, CallEmitFinish, Goto, TypeOK, ThreadTypeOK
    <3>. QED  BY <1>1, <2>1, <3>1, <3>2, <3>4 DEF AttendedInv
  <2>. QED  BY <1>9, <2>2, <2>3, <2>4 DEF ClientStep
<1>10. ASSUME SessionSubmit PROVE AttendedInv'
  <2>1. UNCHANGED <<conn, finished>> /\ pc[Loop] # "idle"
    BY <1>10 DEF SessionSubmit
  <2>2. CASE Return(Loop)
    BY <1>5, <2>1, <2>2
  <2>3. CASE \E l \in {"emit", "schedule"} : Goto(Loop, l) /\ UNCHANGED req
    BY <1>6, <2>1, <2>3
  <2>. QED  BY <1>10, <2>2, <2>3 DEF SessionSubmit, CallEmitFinish, Enqueue
<1>11. ASSUME WaitFinishOrCancel PROVE AttendedInv'
  <2>1. finished[req[Loop]]
    BY <1>11 DEF WaitFinishOrCancel, AttendedInv
  <2>2. UNCHANGED <<conn, finished>> /\ pc'[Loop] = "idle" /\ pc[Loop] = "wait"
    BY <1>11, <2>1 DEF WaitFinishOrCancel, Goto, TypeOK, ThreadTypeOK
  <2>3. \A r \in Requests : ~ChatRequest(r)
    BY <2>2 DEF ChatRequest
  <2>. QED  BY <1>3, <2>1, <2>2, <2>3
<1>12. ASSUME NEW w \in Workers,
              \/ TakeTask(w) \/ Drain(w) \/ RunModelQueue(w) \/ Execute(w) \/ SubmitPerModel(w)
              \/ TaskSkips(w) \/ TaskFails(w) \/ EngineStart(w) \/ EngineStep(w)
       PROVE  AttendedInv'
  <2>1. UNCHANGED <<conn, finished>>
    BY <1>12 DEF TakeTask, Drain, RunModelQueue, PopNext, LeaveQueue, Execute, SubmitPerModel,
                 TaskSkips, TaskFails, EngineStart, EngineStep, EngineFinish, EngineReturn, ctxVars
  <2>2. pc' = [pc EXCEPT ![w] = pc'[w]] /\ req' = [req EXCEPT ![w] = req'[w]]
    BY <1>12 DEF TakeTask, Drain, RunModelQueue, PopNext, LeaveQueue, Execute, SubmitPerModel,
                 TaskSkips, TaskFails, EngineStart, EngineStep, EngineFinish, EngineReturn,
                 Enqueue, CallEmitFinish, Return, Goto, TypeOK, ThreadTypeOK
  <2>. QED  BY <1>4, <2>1, <2>2
<1>13. CASE UNCHANGED vars
  <2>1. \A r \in Requests : ~ChatRequest(r)
    BY <1>13 DEF vars, ChatRequest, TypeOK, ContextTypeOK
  <2>. QED  BY <1>3, <1>13, <2>1 DEF vars
<1>. QED
  BY <1>7, <1>8, <1>9, <1>10, <1>11, <1>12, <1>13 DEF Next, WorkerStep, LoopStep, Quiescent

\* Every step keeps a request in one place.
LEMMA SoleStep ==
    ASSUME TypeOK, ControlInv, EnteredInv, AttendedInv, SoleInv, [Next]_vars
    PROVE  SoleInv'
<1>. USE CoreAssumption DEF Threads, Jobs
\* No request changes its place, or it is only let go.
<1>1. ASSUME UNCHANGED <<queue, finished>>,
             \A t \in Threads, r \in Requests : Carries(t, r)' => Carries(t, r)
      PROVE  SoleInv'
  BY <1>1 DEF SoleInv, InQueue
<1>2. ASSUME NEW t \in Threads, NEW k \in Jobs, NEW r \in Requests, Enqueue(t, k, r), r = req[t],
             pc[t] \in {"submit", "submitm"}, UNCHANGED finished
      PROVE  SoleInv'
  <2>1. Carries(t, r)
    BY <1>2 DEF Carries, Working
  <2>2. ~InQueue(k, r)
    BY <2>1 DEF SoleInv
  <2>3. /\ \A l \in Jobs, x \in Requests : InQueue(l, x)' <=> InQueue(l, x) \/ (l = k /\ x = r)
        /\ \A l \in Jobs : IsInjective(queue[l]) => IsInjective(queue'[l])
    <3>1. QueueTypeOK /\ queue' = [queue EXCEPT ![k] = Append(@, r)]
      BY <1>2 DEF Enqueue, TypeOK
    <3>2. \A l \in Jobs : IsInjective(queue[l]) /\ ~InQueue(k, r) => IsInjective(queue'[l])
      BY <3>1, PushFacts
    <3>3. \A l \in Jobs, x \in Requests : InQueue(l, x)' <=> InQueue(l, x) \/ (l = k /\ x = r)
      BY <3>1, PushFacts
    <3>. QED  BY <2>2, <3>2, <3>3
  <2>4. \A u \in Threads, x \in Requests : Carries(u, x)' => Carries(u, x) /\ u # t
    BY <1>2 DEF Enqueue, Return, Resume, Goto, Carries, Working, TypeOK, ThreadTypeOK
  <2>. QED  BY <1>2, <2>1, <2>3, <2>4 DEF SoleInv
<1>3. ASSUME NEW w \in Workers, PopNext(w, "drain", "exec") \/ PopNext(w, "runq", "task")
      PROVE  SoleInv'
  <2>1. PICK r \in Requests, k \in Jobs : r = req'[w] /\ k = job[w]
    BY <1>3, PopFacts
  <2>2. /\ InQueue(k, r)
        /\ \A l \in Jobs, x \in Requests : InQueue(l, x) <=> InQueue(l, x)' \/ (l = k /\ x = r)
        /\ \A l \in Jobs : IsInjective(queue[l]) => IsInjective(queue'[l])
        /\ UNCHANGED finished
    BY <1>3, <2>1, PopFacts
  <2>3. ~InQueue(k, r)'
    BY <1>3, <2>1, PopFacts DEF InQueue, SoleInv
  <2>4. \A u \in Threads, x \in Requests : Carries(u, x)' => Carries(u, x) \/ (u = w /\ x = r)
    BY <1>3, <2>1, PopFacts DEF Carries, Working
  <2>. QED  BY <2>2, <2>3, <2>4 DEF SoleInv
<1>4. ASSUME NEW t \in Threads, EmitFinish(t) PROVE SoleInv'
  <2>1. PICK r \in Requests : r = req[t]
    BY <1>4 DEF EmitFinish, ControlInv, TypeOK, ThreadTypeOK
  <2>2. /\ \A x \in Requests : finished'[x] <=> finished[x] \/ x = r
        /\ UNCHANGED queue
    BY <1>4, <2>1 DEF EmitFinish, TypeOK, ContextTypeOK
  <2>3. \A u \in Threads, x \in Requests : Carries(u, x)' => Carries(u, x) /\ u # t
    BY <1>4, <2>1, <2>2
       DEF EmitFinish, Return, Resume, Goto, Carries, Working, TypeOK, ThreadTypeOK
  <2>4. ~finished[r] => Carries(t, r)
    BY <1>4, <2>1 DEF EmitFinish, Carries, Working
  <2>. QED  BY <2>2, <2>3, <2>4 DEF SoleInv, InQueue
<1>5. ASSUME NEW r \in Requests, ChatRequest(r) PROVE SoleInv'
  <2>1. /\ UNCHANGED <<queue, finished>>
        /\ ~Entered(r)
        /\ \A u \in Threads, x \in Requests : Carries(u, x)' => Carries(u, x) \/ (u = Loop /\ x = r)
    BY <1>5 DEF ChatRequest, Entered, Goto, Carries, Working, ctxVars, TypeOK, ThreadTypeOK
  <2>2. /\ ~finished[r]
        /\ \A k \in Jobs : ~InQueue(k, r)
        /\ \A u \in Threads : ~Carries(u, r)
    BY <2>1 DEF EnteredInv, InQueue, Carries, Working
  <2>. QED  BY <2>1, <2>2 DEF SoleInv, InQueue
<1>6. ASSUME NEW r \in Requests, OnClose(r) PROVE SoleInv'
  <2>1. r \in Streaming \/ reply[r] = "400" \/ finished[r]
    BY <1>6 DEF OnClose, AttendedInv, Entered
  <2>2. \A u \in Threads, x \in Requests : Carries(u, x)' => Carries(u, x)
    BY <1>6, <2>1 DEF OnClose, CallEmitFinish, Goto, Carries, Working, TypeOK, ThreadTypeOK
  <2>. QED  BY <1>1, <1>6, <2>2 DEF OnClose
<1>7. ASSUME SessionSubmit PROVE SoleInv'
  <2>1. PICK r \in Requests : r = req[Loop]
    BY <1>7 DEF SessionSubmit, ControlInv
  <2>2. CASE Len(queue[SessionOf[r]]) >= MaxPending
    BY <1>1, <1>7, <2>1, <2>2
       DEF SessionSubmit, CallEmitFinish, Goto, Carries, Working, TypeOK, ThreadTypeOK
  <2>3. CASE ~(Len(queue[SessionOf[r]]) >= MaxPending)
    BY <1>2, <1>7, <2>1, <2>3 DEF SessionSubmit
  <2>. QED  BY <2>2, <2>3
<1>8. ASSUME NEW w \in Workers, SubmitPerModel(w) PROVE SoleInv'
  <2>1. PICK r \in Requests : r = req[w]
    BY <1>8 DEF SubmitPerModel, ControlInv, TypeOK, ThreadTypeOK
  <2>2. CASE Len(queue[ModelOf[r]]) >= MaxModelQueue
    BY <1>1, <1>8, <2>1, <2>2
       DEF SubmitPerModel, CallEmitFinish, Goto, Carries, Working, TypeOK, ThreadTypeOK
  <2>3. CASE ~(Len(queue[ModelOf[r]]) >= MaxModelQueue)
    BY <1>2, <1>8, <2>1, <2>3 DEF SubmitPerModel
  <2>. QED  BY <2>2, <2>3
<1>9. ASSUME NEW t \in Threads, StoreReason(t) \/ FinalChunk(t) \/ OnFinish(t) \/ Schedule(t)
      PROVE  SoleInv'
  BY <1>1, <1>9
     DEF StoreReason, FinalChunk, OnFinish, Schedule, Return, Resume, Goto, Carries, Working, ctxVars,
         TypeOK, ThreadTypeOK
<1>10. ASSUME NEW w \in Workers, TakeTask(w) \/ LeaveQueue(w, "drain") \/ LeaveQueue(w, "runq")
       PROVE  SoleInv'
  BY <1>1, <1>10 DEF TakeTask, LeaveQueue, Goto, Carries, Working, ctxVars, TypeOK, ThreadTypeOK
<1>11. ASSUME NEW w \in Workers,
              Execute(w) \/ TaskSkips(w) \/ TaskFails(w) \/ EngineStart(w) \/ EngineStep(w)
       PROVE  SoleInv'
  BY <1>1, <1>11
     DEF Execute, TaskSkips, TaskFails, EngineStart, EngineStep, EngineFinish, EngineReturn,
         CallEmitFinish, Return, Resume, Goto, Carries, Working, ctxVars, TypeOK, ThreadTypeOK
<1>12. ASSUME NEW r \in Requests, BadRequest(r) \/ PeerClose(r) PROVE SoleInv'
  BY <1>1, <1>12 DEF BadRequest, PeerClose, Carries, Working, threadVars, ctxVars
<1>13. ASSUME WaitFinishOrCancel PROVE SoleInv'
  <2>1. finished[req[Loop]]
    BY <1>13 DEF WaitFinishOrCancel, AttendedInv
  <2>. QED  BY <1>1, <1>13, <2>1
            DEF WaitFinishOrCancel, Goto, Carries, Working, TypeOK, ThreadTypeOK
<1>14. CASE UNCHANGED vars
  BY <1>1, <1>14 DEF vars, Carries, Working
<1>. QED
  BY <1>3, <1>4, <1>5, <1>6, <1>7, <1>8, <1>9, <1>10, <1>11, <1>12, <1>13, <1>14
     DEF Next, WorkerStep, LoopStep, ClientStep, EmitStep, Drain, RunModelQueue, Quiescent

\* The loop thread attends to a non-stream request until it is finished, and every request
\* is in one place: no thread and no queue holds one that has finished.
THEOREM OnePlace == Spec => [](AttendedInv /\ SoleInv)
<1>1. Init => AttendedInv /\ SoleInv
  BY CoreAssumption DEF Init, AttendedInv, SoleInv, Entered, Carries, Working, InQueue, Range,
                        IsInjective, Threads, Jobs
<1>2. TypeOK /\ ControlInv /\ EnteredInv /\ (AttendedInv /\ SoleInv) /\ [Next]_vars
      => (AttendedInv /\ SoleInv)'
  BY AttendedStep, SoleStep
<1>. QED  BY <1>1, <1>2, TypeCorrect, Whereabouts, PTL DEF Spec

\* What a step may do to the outcome of a request: the thread that won the exchange stores
\* its reason, the thread that carries it its error, and nobody else touches either.
LEMMA OutcomeStep ==
    ASSUME TypeOK, ControlInv, FinishInv, [Next]_vars, NEW r \in Requests
    PROVE  /\ finish_reason'[r] = finish_reason[r] \/ \E t \in Threads : Finishing(t, r)
           /\ error'[r] = error[r] \/ \E t \in Threads : Carries(t, r)
           /\ done'[r] = done[r] \/ \E t \in Threads : Finishing(t, r)
<1>. DEFINE Goal == /\ finish_reason'[r] = finish_reason[r] \/ \E t \in Threads : Finishing(t, r)
                    /\ error'[r] = error[r] \/ \E t \in Threads : Carries(t, r)
                    /\ done'[r] = done[r] \/ \E t \in Threads : Finishing(t, r)
<1>. USE CoreAssumption DEF Threads
<1>1. CASE UNCHANGED <<finish_reason, error, done>>
  BY <1>1
<1>2. ASSUME NEW t \in Threads, StoreReason(t) \/ OnFinish(t) PROVE Goal
  <2>1. Finishing(t, req[t]) /\ req[t] \in Requests /\ UNCHANGED error
    BY <1>2 DEF StoreReason, OnFinish, Finishing, ControlInv, ctxVars, TypeOK, ThreadTypeOK
  <2>2. r # req[t] => finish_reason'[r] = finish_reason[r] /\ done'[r] = done[r]
    BY <1>2, <2>1 DEF StoreReason, OnFinish, ctxVars, outVars, TypeOK, ContextTypeOK
  <2>. QED  BY <2>1, <2>2
<1>3. ASSUME NEW t \in Threads, pc[t] \in {"submit", "submitm", "task", "run"},
             \/ UNCHANGED error
             \/ \E e : error' = [error EXCEPT ![req[t]] = e],
             UNCHANGED <<finish_reason, done>>
      PROVE  Goal
  <2>1. Carries(t, req[t])
    BY <1>3 DEF Carries, Working
  <2>2. r # req[t] => error'[r] = error[r]
    BY <1>3 DEF TypeOK, ContextTypeOK
  <2>. QED  BY <1>3, <2>1, <2>2
<1>4. ASSUME NEW t \in Threads, EmitFinish(t) \/ FinalChunk(t) \/ Schedule(t)
      PROVE  UNCHANGED <<finish_reason, error, done>>
  BY <1>4 DEF EmitFinish, FinalChunk, Schedule, ctxVars, outVars
<1>5. ASSUME NEW x \in Requests, ClientStep(x) \/ OnClose(x)
      PROVE  UNCHANGED <<finish_reason, error, done>>
  BY <1>5 DEF ClientStep, BadRequest, ChatRequest, PeerClose, OnClose, ctxVars, outVars
<1>6. ASSUME NEW w \in Workers,
             \/ TakeTask(w) \/ Drain(w) \/ RunModelQueue(w) \/ Execute(w)
             \/ TaskSkips(w) \/ EngineStart(w) \/ EngineReturn(w)
      PROVE  UNCHANGED <<finish_reason, error, done>>
  BY <1>6 DEF TakeTask, Drain, RunModelQueue, PopNext, LeaveQueue, Execute, TaskSkips, EngineStart,
              EngineReturn, ctxVars, outVars
<1>7. ASSUME SessionSubmit PROVE Goal
  BY <1>3, <1>7 DEF SessionSubmit, outVars
<1>8. ASSUME NEW w \in Workers, SubmitPerModel(w) \/ TaskFails(w) \/ EngineFinish(w) PROVE Goal
  <2>1. CASE SubmitPerModel(w)
    BY <1>3, <2>1 DEF SubmitPerModel, outVars
  <2>2. CASE TaskFails(w)
    BY <1>3, <2>2 DEF TaskFails, outVars
  <2>3. CASE EngineFinish(w)
    BY <1>3, <2>3 DEF EngineFinish, outVars
  <2>. QED  BY <1>8, <2>1, <2>2, <2>3
<1>9. ASSUME WaitFinishOrCancel \/ UNCHANGED vars PROVE UNCHANGED <<finish_reason, error, done>>
  BY <1>9 DEF WaitFinishOrCancel, vars
<1>. QED
  BY <1>1, <1>2, <1>4, <1>5, <1>6, <1>7, <1>8, <1>9
     DEF Next, WorkerStep, LoopStep, EmitStep, EngineStep, Quiescent

\* Once on_finish has run, no later step of a queue entry, an engine or a close callback
\* changes the request's reason, error or count of finishes.
THEOREM OutcomeStaysSettled == Spec => OutcomeSettled
<1>1. TypeOK /\ ControlInv /\ FinishInv /\ SoleInv /\ [Next]_vars
      => [\A r \in Requests : done[r] > 0 =>
              /\ finish_reason'[r] = finish_reason[r]
              /\ error'[r] = error[r]
              /\ done'[r] = done[r]]_vars
  <2>. SUFFICES ASSUME TypeOK, ControlInv, FinishInv, SoleInv, [Next]_vars,
                       NEW r \in Requests, done[r] > 0
                PROVE  /\ finish_reason'[r] = finish_reason[r]
                       /\ error'[r] = error[r]
                       /\ done'[r] = done[r]
    OBVIOUS
  <2>1. finished[r] /\ \A t \in Threads : ~Finishing(t, r)
    BY DEF FinishInv
  <2>2. \A t \in Threads : ~Carries(t, r)
    BY <2>1 DEF SoleInv
  <2>. QED  BY <2>1, <2>2, OutcomeStep
<1>. QED  BY <1>1, TypeCorrect, Whereabouts, OnePlace, PTL DEF Spec, OutcomeSettled

-----------------------------------------------------------------------------
(* The status agrees with the outcome.                                     *)

Emitting(t, r) == req[t] = r /\ pc[t] = "emit"
Storing(t, r)  == req[t] = r /\ pc[t] = "reason"

\* A request ends with reason "error" exactly if an error was recorded for it: the two
\* agree in the call of EmitFinish, in the thread that won the exchange and, once that
\* thread has stored the reason, in the context.
ReasonInv ==
    \A r \in Requests :
        /\ error[r] # "none" /\ ~finished[r] => \E t \in Threads : Emitting(t, r)
        /\ \A t \in Threads : Emitting(t, r) /\ ~finished[r] => (arg[t] = "error" <=> error[r] # "none")
        /\ \A t \in Threads : Storing(t, r) => /\ arg[t] = "error" <=> error[r] # "none"
                                               /\ finish_reason[r] # "error"
        /\ finished[r] => \/ finish_reason[r] = "error" <=> error[r] # "none"
                          \/ \E t \in Threads : Storing(t, r)
        /\ ~finished[r] => finish_reason[r] # "error"

\* A non-stream request is answered after it finished, with a status that its recorded
\* error already determines.
ReplyInv ==
    /\ \A t \in Threads : pc[t] = "chunk" => req[t] \in Streaming
    /\ \A r \in Requests \ Streaming : reply[r] \notin {"none", "400"} =>
        /\ finished[r]
        /\ (reply[r] \in {"429", "500"}) <=> error[r] # "none"
        /\ reply[r] = "429" <=> error[r] = "overloaded"

\* Every step keeps the recorded error and the reason of a request in agreement.
LEMMA ReasonStep ==
    ASSUME TypeOK, ControlInv, EnteredInv, FinishInv, AttendedInv, SoleInv, ReasonInv, [Next]_vars
    PROVE  ReasonInv'
<1>. USE CoreAssumption DEF Threads
\* No request is finished, refused or failed, and no thread enters EmitFinish for an
\* unfinished one.
<1>1. ASSUME UNCHANGED <<finished, finish_reason, error>>,
             \A t \in Threads, r \in Requests :
                 ~finished[r] => /\ Emitting(t, r)' <=> Emitting(t, r)
                                 /\ Emitting(t, r) => arg'[t] = arg[t],
             \A t \in Threads, r \in Requests : /\ Storing(t, r)' <=> Storing(t, r)
                                                /\ Storing(t, r) => arg'[t] = arg[t]
      PROVE  ReasonInv'
  BY <1>1 DEF ReasonInv
\* The thread that carries a request enters EmitFinish with it.
<1>2. ASSUME NEW t \in Threads, NEW r \in Requests, r = req[t],
             pc[t] \in {"submit", "submitm", "task", "run"},
             NEW reason, NEW e, CallEmitFinish(t, reason), UNCHANGED <<req, finished, finish_reason>>,
             error' = [error EXCEPT ![r] = e], e = error[r] \/ e # "none",
             reason = "error" <=> e # error[r]
      PROVE  ReasonInv'
  <2>1. Carries(t, r) /\ ~Emitting(t, r)
    BY <1>2 DEF Carries, Working, Emitting
  <2>2. ~finished[r] /\ \A u \in Threads : Carries(u, r) => u = t
    BY <2>1 DEF SoleInv
  <2>3. \A u \in Threads : Emitting(u, r) => Carries(u, r)
    BY <2>2 DEF Emitting, Carries, Working
  <2>4. error[r] = "none"
    BY <2>1, <2>2, <2>3 DEF ReasonInv
  <2>5. /\ error'[r] = e
        /\ \A x \in Requests \ {r} : error'[x] = error[x]
    BY <1>2 DEF TypeOK, ContextTypeOK
  <2>6. /\ pc'[t] = "emit" /\ arg'[t] = reason
        /\ \A u \in Threads \ {t} : pc'[u] = pc[u] /\ arg'[u] = arg[u]
    BY <1>2 DEF CallEmitFinish, Goto, TypeOK, ThreadTypeOK
  <2>7. \A u \in Threads : ~Storing(u, r)
    BY <2>2 DEF FinishInv, Finishing, Storing
  <2>8. \A u \in Threads, x \in Requests :
            /\ Storing(u, x)' => Storing(u, x) /\ arg'[u] = arg[u] /\ x # r
            /\ Storing(u, x) => Storing(u, x)'
            /\ Emitting(u, x)' /\ x # r => Emitting(u, x) /\ arg'[u] = arg[u]
            /\ Emitting(u, x) => Emitting(u, x)'
    BY <1>2, <2>6, <2>7 DEF Storing, Emitting
  <2>9. /\ Emitting(t, r)'
        /\ \A u \in Threads : Emitting(u, r)' => u = t
    BY <1>2, <2>2, <2>3, <2>6 DEF Emitting
  <2>10. ASSUME NEW x \in Requests, x # r
         PROVE  /\ error'[x] # "none" /\ ~finished'[x] => \E u \in Threads : Emitting(u, x)'
                /\ \A u \in Threads : Emitting(u, x)' /\ ~finished'[x]
                       => (arg'[u] = "error" <=> error'[x] # "none")
                /\ \A u \in Threads : Storing(u, x)' => /\ arg'[u] = "error" <=> error'[x] # "none"
                                                        /\ finish_reason'[x] # "error"
                /\ finished'[x] => \/ finish_reason'[x] = "error" <=> error'[x] # "none"
                                   \/ \E u \in Threads : Storing(u, x)'
                /\ ~finished'[x] => finish_reason'[x] # "error"
    BY <1>2, <2>5, <2>8, <2>10 DEF ReasonInv
  <2>11. /\ error'[r] # "none" /\ ~finished'[r] => \E u \in Threads : Emitting(u, r)'
         /\ \A u \in Threads : Emitting(u, r)' /\ ~finished'[r]
                => (arg'[u] = "error" <=> error'[r] # "none")
         /\ \A u \in Threads : ~Storing(u, r)'
         /\ ~finished'[r]
         /\ finish_reason'[r] # "error"
    BY <1>2, <2>2, <2>4, <2>5, <2>6, <2>8, <2>9 DEF ReasonInv
  <2>. QED  BY <2>10, <2>11 DEF ReasonInv
<1>3. ASSUME NEW t \in Threads, EmitFinish(t) PROVE ReasonInv'
  <2>1. PICK r \in Requests : r = req[t]
    BY <1>3 DEF EmitFinish, ControlInv, TypeOK, ThreadTypeOK
  <2>2. /\ finished'[r]
        /\ \A x \in Requests \ {r} : finished'[x] = finished[x]
        /\ UNCHANGED <<finish_reason, error>>
        /\ pc[t] = "emit"
    BY <1>3, <2>1 DEF EmitFinish, TypeOK, ContextTypeOK
  <2>3. \A u \in Threads \ {t} : pc'[u] = pc[u] /\ req'[u] = req[u] /\ arg'[u] = arg[u]
    BY <1>3 DEF EmitFinish, Return, Goto, TypeOK, ThreadTypeOK
  <2>4. CASE finished[r]
    <3>1. UNCHANGED finished
      BY <1>3, <2>1, <2>4 DEF EmitFinish, TypeOK, ContextTypeOK
    <3>2. pc'[t] \notin {"emit", "reason"}
      BY <1>3, <2>1, <2>4 DEF EmitFinish, Return, Resume, Goto, TypeOK, ThreadTypeOK
    <3>. QED  BY <1>1, <2>1, <2>2, <2>3, <2>4, <3>1, <3>2 DEF Emitting, Storing
  <2>5. CASE ~finished[r]
    <3>1. pc'[t] = "reason" /\ UNCHANGED <<req, arg>>
      BY <1>3, <2>1, <2>5 DEF EmitFinish, Goto, TypeOK, ThreadTypeOK
    <3>2. \A u \in Threads : ~Storing(u, r)
      BY <2>5 DEF FinishInv, Finishing, Storing
    <3>3. /\ Emitting(t, r) /\ Storing(t, r)'
          /\ \A u \in Threads : Storing(u, r)' => u = t
          /\ \A u \in Threads, x \in Requests : x # r => /\ Emitting(u, x)' <=> Emitting(u, x)
                                                         /\ Storing(u, x)' <=> Storing(u, x)
      BY <2>1, <2>2, <2>3, <3>1, <3>2 DEF Emitting, Storing
    <3>. QED  BY <2>2, <2>5, <3>1, <3>3 DEF ReasonInv
  <2>. QED  BY <2>4, <2>5
<1>4. ASSUME NEW t \in Threads, StoreReason(t) PROVE ReasonInv'
  <2>1. PICK r \in Requests : r = req[t]
    BY <1>4 DEF StoreReason, ControlInv, TypeOK, ThreadTypeOK
  <2>2. /\ finish_reason'[r] = arg[t]
        /\ \A x \in Requests \ {r} : finish_reason'[x] = finish_reason[x]
        /\ UNCHANGED <<req, arg, finished, error>>
    BY <1>4, <2>1 DEF StoreReason, TypeOK, ContextTypeOK
  <2>3. /\ pc[t] = "reason" /\ pc'[t] \notin {"emit", "reason"}
        /\ \A u \in Threads \ {t} : pc'[u] = pc[u]
    BY <1>4 DEF StoreReason, Goto, TypeOK, ThreadTypeOK
  <2>4. /\ finished[r]
        /\ \A u \in Threads : Storing(u, r) => u = t
    BY <2>1, <2>3 DEF FinishInv, Finishing, Storing
  <2>5. /\ Storing(t, r)
        /\ \A u \in Threads : ~Storing(u, r)'
        /\ \A u \in Threads, x \in Requests : Emitting(u, x)' <=> Emitting(u, x)
        /\ \A u \in Threads, x \in Requests : x # r => (Storing(u, x)' <=> Storing(u, x))
    BY <2>1, <2>2, <2>3, <2>4 DEF Emitting, Storing
  <2>. QED  BY <2>2, <2>4, <2>5 DEF ReasonInv
<1>5. ASSUME NEW t \in Threads, FinalChunk(t) \/ OnFinish(t) \/ Schedule(t) PROVE ReasonInv'
  BY <1>1, <1>5
     DEF FinalChunk, OnFinish, Schedule, Return, Resume, Goto, Emitting, Storing, ctxVars, TypeOK,
         ThreadTypeOK
<1>6. ASSUME NEW w \in Workers, PopNext(w, "drain", "exec") \/ PopNext(w, "runq", "task")
      PROVE  ReasonInv'
  BY <1>1, <1>6, PopFacts DEF Emitting, Storing
<1>7. ASSUME NEW w \in Workers,
             TakeTask(w) \/ LeaveQueue(w, "drain") \/ LeaveQueue(w, "runq") \/ EngineStart(w)
      PROVE  ReasonInv'
  BY <1>1, <1>7
     DEF TakeTask, LeaveQueue, EngineStart, Goto, Emitting, Storing, ctxVars, TypeOK, ThreadTypeOK
<1>8. ASSUME NEW w \in Workers, Execute(w) PROVE ReasonInv'
  BY <1>1, <1>8
     DEF Execute, Return, Resume, Goto, Emitting, Storing, ctxVars, TypeOK, ThreadTypeOK
<1>9. ASSUME NEW t \in Threads, NEW k, NEW r, Enqueue(t, k, r), pc[t] \in {"submit", "submitm"},
             UNCHANGED <<finished, finish_reason, error>>
      PROVE  ReasonInv'
  BY <1>1, <1>9 DEF Enqueue, Return, Resume, Goto, Emitting, Storing, TypeOK, ThreadTypeOK
<1>10. ASSUME SessionSubmit PROVE ReasonInv'
  <2>1. PICK r \in Requests : r = req[Loop]
    BY <1>10 DEF SessionSubmit, ControlInv
  <2>2. CASE Len(queue[SessionOf[r]]) >= MaxPending
    <3>1. Carries(Loop, r)
      BY <1>10, <2>1 DEF SessionSubmit, Carries, Working
    <3>2. error[r] = "none"
      BY <1>10, <2>1, <3>1 DEF SessionSubmit, SoleInv, ReasonInv, Emitting, Carries, Working
    <3>. QED  BY <1>2, <1>10, <2>1, <2>2, <3>2 DEF SessionSubmit
  <2>3. CASE ~(Len(queue[SessionOf[r]]) >= MaxPending)
    BY <1>9, <1>10, <2>1, <2>3 DEF SessionSubmit
  <2>. QED  BY <2>2, <2>3
\* A worker with a queued request or inside an engine has recorded no error for it.
<1>11. ASSUME NEW w \in Workers, pc[w] \in {"submitm", "task", "run"}
       PROVE  req[w] \in Requests /\ error[req[w]] = "none"
  <2>1. req[w] \in Requests /\ Carries(w, req[w])
    BY <1>11 DEF ControlInv, Carries, Working, TypeOK, ThreadTypeOK
  <2>. QED  BY <1>11, <2>1 DEF SoleInv, ReasonInv, Emitting, Carries, Working
<1>12. ASSUME NEW w \in Workers, SubmitPerModel(w) PROVE ReasonInv'
  <2>1. PICK r \in Requests : r = req[w] /\ error[r] = "none"
    BY <1>11, <1>12 DEF SubmitPerModel
  <2>2. CASE Len(queue[ModelOf[r]]) >= MaxModelQueue
    BY <1>2, <1>12, <2>1, <2>2 DEF SubmitPerModel
  <2>3. CASE ~(Len(queue[ModelOf[r]]) >= MaxModelQueue)
    BY <1>9, <1>12, <2>1, <2>3 DEF SubmitPerModel
  <2>. QED  BY <2>2, <2>3
<1>13. ASSUME NEW w \in Workers, NEW reason, reason # "error", pc[w] \in {"task", "run"},
              CallEmitFinish(w, reason), UNCHANGED <<req, finished, finish_reason, error>>
       PROVE  ReasonInv'
  <2>1. PICK r \in Requests : r = req[w]
    BY <1>11, <1>13
  <2>2. error' = [error EXCEPT ![r] = error[r]]
    BY <1>13 DEF TypeOK, ContextTypeOK
  <2>. QED  BY <1>2, <1>13, <2>1, <2>2
<1>14. ASSUME NEW w \in Workers, TaskSkips(w) PROVE ReasonInv'
  <2>1. CASE finished[req[w]]
    BY <1>1, <1>14, <2>1
       DEF TaskSkips, Return, Resume, Goto, Emitting, Storing, ctxVars, TypeOK, ThreadTypeOK
  <2>2. CASE ~finished[req[w]]
    BY <1>13, <1>14, <2>2 DEF TaskSkips, ctxVars
  <2>. QED  BY <2>1, <2>2
<1>15. ASSUME NEW w \in Workers, TaskFails(w) PROVE ReasonInv'
  <2>1. PICK r \in Requests : r = req[w] /\ error[r] = "none"
    BY <1>11, <1>15 DEF TaskFails
  <2>2. PICK e \in {"overloaded", "internal"} : error' = [error EXCEPT ![r] = e]
    BY <1>15, <2>1 DEF TaskFails
  <2>. QED  BY <1>2, <1>15, <2>1, <2>2 DEF TaskFails
<1>16. ASSUME NEW w \in Workers, EngineFinish(w) PROVE ReasonInv'
  <2>1. PICK r \in Requests : r = req[w] /\ error[r] = "none"
    BY <1>11, <1>16 DEF EngineFinish
  <2>2. PICK reason \in Reasons :
            /\ error' = [error EXCEPT ![r] = IF reason = "error" THEN "internal" ELSE error[r]]
            /\ CallEmitFinish(w, reason)
    BY <1>16, <2>1 DEF EngineFinish
  <2>3. CASE reason = "error"
    BY <1>2, <1>16, <2>1, <2>2, <2>3 DEF EngineFinish
  <2>4. CASE reason # "error"
    BY <1>2, <1>16, <2>1, <2>2, <2>4 DEF EngineFinish
  <2>. QED  BY <2>3, <2>4
<1>17. ASSUME NEW w \in Workers, EngineReturn(w) PROVE ReasonInv'
  BY <1>13, <1>17 DEF EngineReturn, ctxVars
<1>18. ASSUME NEW r \in Requests, ClientStep(r) PROVE ReasonInv'
  BY <1>1, <1>18
     DEF ClientStep, BadRequest, ChatRequest, PeerClose, Goto, Emitting, Storing, threadVars, ctxVars,
         TypeOK, ThreadTypeOK
<1>19. ASSUME NEW r \in Requests, OnClose(r) PROVE ReasonInv'
  <2>1. r \in Streaming \/ reply[r] = "400" \/ finished[r]
    BY <1>19 DEF OnClose, AttendedInv, Entered
  <2>. QED  BY <1>1, <1>19, <2>1
            DEF OnClose, CallEmitFinish, Goto, Emitting, Storing, TypeOK, ThreadTypeOK
<1>20. ASSUME WaitFinishOrCancel PROVE ReasonInv'
  <2>1. finished[req[Loop]]
    BY <1>20 DEF WaitFinishOrCancel, AttendedInv
  <2>. QED  BY <1>1, <1>20, <2>1
            DEF WaitFinishOrCancel, Goto, Emitting, Storing, TypeOK, ThreadTypeOK
<1>21. CASE UNCHANGED vars
  BY <1>1, <1>21 DEF vars, Emitting, Storing
<1>. QED
  BY <1>3, <1>4, <1>5, <1>6, <1>7, <1>8, <1>10, <1>12, <1>14, <1>15, <1>16, <1>17, <1>18, <1>19,
     <1>20, <1>21
     DEF Next, WorkerStep, LoopStep, EmitStep, EngineStep, Drain, RunModelQueue, Quiescent

\* Every step keeps the answer in agreement with the recorded error.
LEMMA ReplyStep ==
    ASSUME TypeOK, ControlInv, EnteredInv, FinishInv, SoleInv, ReasonInv, ReplyInv, [Next]_vars
    PROVE  ReplyInv'
<1>. USE CoreAssumption DEF Threads
<1>1. ASSUME NEW r \in Requests, finished[r] PROVE error'[r] = error[r]
  BY <1>1, OutcomeStep DEF SoleInv
\* No answer is given, nothing that has finished is reopened.
<1>2. ASSUME \A r \in Requests : finished[r] => finished'[r],
             \A r \in Requests \ Streaming : reply'[r] = reply[r] \/ reply'[r] \in {"none", "400"},
             \A t \in Threads : pc'[t] = "chunk" => pc[t] = "chunk" /\ req'[t] = req[t]
      PROVE  ReplyInv'
  BY <1>1, <1>2 DEF ReplyInv
<1>3. ASSUME NEW t \in Threads, EmitStep(t) PROVE ReplyInv'
  <2>1. \A r \in Requests : finished[r] => finished'[r]
    BY <1>3 DEF EmitStep, EmitFinish, StoreReason, FinalChunk, OnFinish, ctxVars, TypeOK,
                ContextTypeOK
  <2>2. CASE EmitFinish(t) \/ OnFinish(t)
    <3>1. \A u \in Threads : pc'[u] = "chunk" => pc[u] = "chunk" /\ req'[u] = req[u]
      BY <2>2 DEF EmitFinish, OnFinish, Return, Resume, Goto, TypeOK, ThreadTypeOK
    <3>. QED  BY <1>2, <2>1, <2>2, <3>1 DEF EmitFinish, OnFinish, outVars
  <2>3. CASE StoreReason(t)
    <3>1. UNCHANGED reply
      BY <2>3 DEF StoreReason, outVars
    <3>2. \A u \in Threads : pc'[u] = "chunk" => req'[u] \in Streaming
      BY <2>3 DEF StoreReason, Goto, ReplyInv, TypeOK, ThreadTypeOK
    <3>. QED  BY <1>1, <2>1, <3>1, <3>2 DEF ReplyInv
  <2>4. CASE FinalChunk(t)
    <3>1. req[t] \in Streaming
      BY <2>4 DEF FinalChunk, ReplyInv
    <3>2. \A r \in Requests \ Streaming : reply'[r] = reply[r]
      BY <2>4, <3>1 DEF FinalChunk, TypeOK, ContextTypeOK
    <3>3. \A u \in Threads : pc'[u] = "chunk" => pc[u] = "chunk" /\ req'[u] = req[u]
      BY <2>4 DEF FinalChunk, Goto, TypeOK, ThreadTypeOK
    <3>. QED  BY <1>2, <2>1, <3>2, <3>3
  <2>. QED  BY <1>3, <2>2, <2>3, <2>4 DEF EmitStep
<1>4. ASSUME WaitFinishOrCancel PROVE ReplyInv'
  <2>1. PICK r \in Requests : r = req[Loop]
    BY <1>4 DEF WaitFinishOrCancel, ControlInv
  <2>2. UNCHANGED finished
    BY <1>4 DEF WaitFinishOrCancel
  <2>3. \A u \in Threads : pc'[u] = "chunk" => pc[u] = "chunk" /\ req'[u] = req[u]
    BY <1>4 DEF WaitFinishOrCancel, CallEmitFinish, Goto, TypeOK, ThreadTypeOK
  <2>4. CASE UNCHANGED reply
    BY <1>2, <2>2, <2>3, <2>4
  <2>5. CASE finished[r] /\ reply' = [reply EXCEPT ![r] = IF conn[r] = "down" THEN @ ELSE Answer(r)]
    <3>1. reply'[r] = reply[r] \/ reply'[r] = Answer(r)
      BY <2>5 DEF TypeOK, ContextTypeOK
    <3>2. \A x \in Requests \ {r} : reply'[x] = reply[x]
      BY <2>5 DEF TypeOK, ContextTypeOK
    <3>3. finish_reason[r] = "error" => error[r] # "none"
      BY <2>5 DEF ReasonInv
    <3>4. /\ Answer(r) \in {"429", "500"} <=> error[r] # "none"
          /\ Answer(r) = "429" <=> error[r] = "overloaded"
      BY <3>3 DEF Answer, TypeOK, ContextTypeOK, Reasons
    <3>5. ASSUME NEW x \in Requests \ Streaming, reply'[x] \notin {"none", "400"}
          PROVE  /\ finished'[x]
                 /\ (reply'[x] \in {"429", "500"}) <=> error'[x] # "none"
                 /\ reply'[x] = "429" <=> error'[x] = "overloaded"
      <4>1. CASE reply'[x] = reply[x]
        BY <1>1, <2>2, <3>5, <4>1 DEF ReplyInv
      <4>2. CASE x = r /\ reply'[x] = Answer(r)
        BY <1>1, <2>2, <2>5, <3>4, <4>2
      <4>. QED  BY <3>1, <3>2, <4>1, <4>2
    <3>. QED  BY <2>3, <3>5 DEF ReplyInv
  <2>. QED  BY <1>4, <2>1, <2>4, <2>5 DEF WaitFinishOrCancel
<1>5. ASSUME NEW r \in Requests, ClientStep(r) \/ OnClose(r) PROVE ReplyInv'
  <2>1. UNCHANGED finished
    BY <1>5 DEF ClientStep, BadRequest, ChatRequest, PeerClose, OnClose, ctxVars
  <2>2. \A x \in Requests : reply'[x] = reply[x] \/ reply'[x] = "400"
    BY <1>5 DEF ClientStep, BadRequest, ChatRequest, PeerClose, OnClose, outVars, TypeOK, ContextTypeOK
  <2>3. \A u \in Threads : pc'[u] = "chunk" => pc[u] = "chunk" /\ req'[u] = req[u]
    BY <1>5 DEF ClientStep, BadRequest, ChatRequest, PeerClose, OnClose, CallEmitFinish, Goto,
                threadVars, TypeOK, ThreadTypeOK
  <2>. QED  BY <1>2, <2>1, <2>2, <2>3
<1>6. ASSUME NEW w \in Workers, PopNext(w, "drain", "exec") \/ PopNext(w, "runq", "task")
      PROVE  ReplyInv'
  BY <1>2, <1>6, PopFacts
<1>7. ASSUME NEW w \in Workers,
             \/ TakeTask(w) \/ LeaveQueue(w, "drain") \/ LeaveQueue(w, "runq") \/ Execute(w)
             \/ SubmitPerModel(w) \/ TaskSkips(w) \/ TaskFails(w) \/ EngineStart(w) \/ EngineStep(w)
      PROVE  ReplyInv'
  <2>1. UNCHANGED <<finished, reply>>
    BY <1>7 DEF TakeTask, LeaveQueue, Execute, SubmitPerModel, TaskSkips, TaskFails, EngineStart,
                EngineStep, EngineFinish, EngineReturn, ctxVars, outVars
  <2>2. \A u \in Threads : pc'[u] = "chunk" => pc[u] = "chunk" /\ req'[u] = req[u]
    BY <1>7 DEF TakeTask, LeaveQueue, Execute, SubmitPerModel, TaskSkips, TaskFails, EngineStart,
                EngineStep, EngineFinish, EngineReturn, Enqueue, CallEmitFinish, Return, Resume, Goto,
                TypeOK, ThreadTypeOK
  <2>. QED  BY <1>2, <2>1, <2>2
<1>8. ASSUME NEW t \in Threads, Schedule(t) PROVE ReplyInv'
  BY <1>2, <1>8 DEF Schedule, Return, Resume, Goto, ctxVars, outVars, TypeOK, ThreadTypeOK
<1>9. ASSUME SessionSubmit \/ UNCHANGED vars PROVE ReplyInv'
  BY <1>2, <1>9 DEF SessionSubmit, Enqueue, CallEmitFinish, Return, Resume, Goto, outVars, vars,
                    TypeOK, ThreadTypeOK
<1>. QED
  BY <1>3, <1>4, <1>5, <1>6, <1>7, <1>8, <1>9
     DEF Next, WorkerStep, LoopStep, Drain, RunModelQueue, Quiescent

\* The recorded error, the reason and the answer of a request agree throughout.
LEMMA ReasonsAgree == Spec => [](ReasonInv /\ ReplyInv)
<1>1. Init => ReasonInv /\ ReplyInv
  BY CoreAssumption DEF Init, ReasonInv, ReplyInv, Emitting, Storing, Threads
<1>2. /\ TypeOK /\ ControlInv /\ EnteredInv /\ FinishInv /\ AttendedInv /\ SoleInv
      /\ ReasonInv /\ ReplyInv /\ [Next]_vars
      => (ReasonInv /\ ReplyInv)'
  BY ReasonStep, ReplyStep
<1>. QED  BY <1>1, <1>2, TypeCorrect, Whereabouts, OnePlace, PTL DEF Spec

\* A non-stream client is told 429 or 500 exactly if its request ended with an error, and
\* 429 exactly if it was refused for load, although the handler may read the context
\* before EmitFinish has stored the reason.
THEOREM StatusAgrees == Spec => []ErrorStatus
<1>1. EnteredInv /\ FinishInv /\ ReasonInv /\ ReplyInv => ErrorStatus
  <2>. SUFFICES ASSUME EnteredInv, FinishInv, ReasonInv, ReplyInv,
                       NEW r \in Requests \ Streaming, done[r] > 0, reply[r] # "none"
                PROVE  /\ (reply[r] \in {"429", "500"}) <=> finish_reason[r] = "error"
                       /\ reply[r] = "429" <=> error[r] = "overloaded"
    BY DEF ErrorStatus
  <2>1. finished[r] /\ \A t \in Threads : ~Storing(t, r)
    BY DEF FinishInv, Finishing, Storing
  <2>2. reply[r] # "400"
    BY <2>1 DEF EnteredInv, Entered
  <2>. QED  BY <2>1, <2>2 DEF ReasonInv, ReplyInv
<1>. QED  BY <1>1, Whereabouts, ReasonsAgree, PTL

-----------------------------------------------------------------------------
(* Requests of one session for one model keep their order.                 *)

\* A session's queue, and the worker draining it, hold requests of that session only.
DrainedInv ==
    \A s \in Sessions :
        /\ \A r \in Range(queue[s]) : SessionOf[r] = s
        /\ \A w \in Workers : job[w] = s /\ req[w] # None => SessionOf[req[w]] = s

\* Every step keeps a session's queue, and the worker draining it, to requests of that
\* session.
LEMMA DrainedStep ==
    ASSUME ThreadTypeOK, QueueTypeOK, ControlInv, DrainedInv, [Next]_vars
    PROVE  DrainedInv'
<1>. USE CoreAssumption DEF Threads, Jobs
\* No session queue gains a request and no draining worker takes a new one.
<1>1. ASSUME \A s \in Sessions : queue'[s] = queue[s],
             \A w \in Workers : \/ job'[w] = job[w] /\ req'[w] \in {req[w], None}
                                \/ req'[w] = None
      PROVE  DrainedInv'
  BY <1>1 DEF DrainedInv
<1>2. ASSUME SessionSubmit PROVE DrainedInv'
  <2>1. /\ req[Loop] \in Requests
        /\ \A w \in Workers : req'[w] = req[w] /\ job'[w] = job[w]
    BY <1>2 DEF SessionSubmit, CallEmitFinish, Enqueue, Return, ControlInv, ThreadTypeOK
  <2>2. CASE UNCHANGED queue
    BY <1>1, <2>1, <2>2
  <2>3. CASE queue' = [queue EXCEPT ![SessionOf[req[Loop]]] = Append(@, req[Loop])]
    <3>1. Range(queue'[SessionOf[req[Loop]]]) = Range(queue[SessionOf[req[Loop]]]) \cup {req[Loop]}
      BY <2>1, <2>3, AppendRange DEF QueueTypeOK
    <3>2. \A s \in Sessions \ {SessionOf[req[Loop]]} : queue'[s] = queue[s]
      BY <2>3 DEF QueueTypeOK
    <3>. QED  BY <2>1, <3>1, <3>2 DEF DrainedInv
  <2>. QED  BY <1>2, <2>2, <2>3 DEF SessionSubmit, Enqueue
<1>3. ASSUME NEW w \in Workers, PopNext(w, "drain", "exec") \/ PopNext(w, "runq", "task")
      PROVE  DrainedInv'
  <2>1. /\ queue[job[w]] # <<>>
        /\ queue' = [queue EXCEPT ![job[w]] = Tail(queue[job[w]])]
        /\ req' = [req EXCEPT ![w] = Head(queue[job[w]])]
        /\ UNCHANGED job
        /\ job[w] \in Jobs
    BY <1>3 DEF PopNext, ControlInv
  <2>2. Range(queue[job[w]]) = Range(Tail(queue[job[w]])) \cup {Head(queue[job[w]])}
    BY <2>1, TailRange DEF QueueTypeOK
  <2>3. /\ queue'[job[w]] = Tail(queue[job[w]])
        /\ \A k \in Jobs \ {job[w]} : queue'[k] = queue[k]
        /\ req'[w] = Head(queue[job[w]])
        /\ \A v \in Workers \ {w} : req'[v] = req[v]
    BY <2>1 DEF QueueTypeOK, ThreadTypeOK
  <2>. QED  BY <2>1, <2>2, <2>3 DEF DrainedInv
<1>4. ASSUME NEW w \in Workers, SubmitPerModel(w) PROVE DrainedInv'
  <2>1. ModelOf[req[w]] \in Models
    BY <1>4 DEF SubmitPerModel, ControlInv, ThreadTypeOK
  <2>. QED
    BY <1>1, <1>4, <2>1 DEF SubmitPerModel, CallEmitFinish, Enqueue, Return, QueueTypeOK, ThreadTypeOK
<1>5. ASSUME NEW w \in Workers, TakeTask(w) PROVE DrainedInv'
  BY <1>1, <1>5 DEF TakeTask, ControlInv, ThreadTypeOK
<1>6. ASSUME NEW w \in Workers, LeaveQueue(w, "drain") \/ LeaveQueue(w, "runq") PROVE DrainedInv'
  BY <1>1, <1>6 DEF LeaveQueue, ControlInv, ThreadTypeOK
<1>7. ASSUME NEW t \in Threads, EmitStep(t) \/ Schedule(t) PROVE DrainedInv'
  BY <1>1, <1>7
     DEF EmitStep, EmitFinish, StoreReason, FinalChunk, OnFinish, Schedule, Return, ThreadTypeOK
<1>8. ASSUME NEW r \in Requests, ClientStep(r) \/ OnClose(r) PROVE DrainedInv'
  BY <1>1, <1>8
     DEF ClientStep, BadRequest, ChatRequest, PeerClose, OnClose, threadVars, ThreadTypeOK
<1>9. ASSUME NEW w \in Workers,
             Execute(w) \/ TaskSkips(w) \/ TaskFails(w) \/ EngineStart(w) \/ EngineStep(w)
      PROVE  DrainedInv'
  BY <1>1, <1>9
     DEF Execute, TaskSkips, TaskFails, EngineStart, EngineStep, EngineFinish, EngineReturn,
         Return, ThreadTypeOK
<1>10. ASSUME WaitFinishOrCancel \/ UNCHANGED vars PROVE DrainedInv'
  BY <1>1, <1>10 DEF WaitFinishOrCancel, vars, ThreadTypeOK
<1>. QED
  BY <1>2, <1>3, <1>4, <1>5, <1>6, <1>7, <1>8, <1>9, <1>10
     DEF Next, WorkerStep, LoopStep, Drain, RunModelQueue, Quiescent

\* A push comes behind what is queued and leaves the order of the others alone.
LEMMA BeforeAppend ==
    ASSUME NEW q \in Seq(Requests), NEW r \in Requests, NEW a \in Requests, NEW b \in Requests
    PROVE  /\ Before(q, a, b) => Before(Append(q, r), a, b)
           /\ a \in Range(q) => Before(Append(q, r), a, r)
<1>1. /\ DOMAIN Append(q, r) = 1 .. Len(q) + 1
      /\ DOMAIN q = 1 .. Len(q)
      /\ Len(q) \in Nat
      /\ \A i \in 1 .. Len(q) : Append(q, r)[i] = q[i]
      /\ Append(q, r)[Len(q) + 1] = r
  OBVIOUS
<1>2. ASSUME Before(q, a, b) PROVE Before(Append(q, r), a, b)
  <2>1. PICK i, j \in 1 .. Len(q) : i < j /\ q[i] = a /\ q[j] = b
    BY <1>1, <1>2 DEF Before
  <2>2. i \in 1 .. Len(q) + 1 /\ j \in 1 .. Len(q) + 1
    BY <1>1
  <2>. QED  BY <1>1, <2>1, <2>2 DEF Before
<1>3. ASSUME a \in Range(q) PROVE Before(Append(q, r), a, r)
  <2>1. PICK i \in 1 .. Len(q) : q[i] = a
    BY <1>1, <1>3 DEF Range
  <2>2. i \in 1 .. Len(q) + 1 /\ Len(q) + 1 \in 1 .. Len(q) + 1 /\ i < Len(q) + 1
    BY <1>1
  <2>. QED  BY <1>1, <2>1, <2>2 DEF Before
<1>. QED  BY <1>2, <1>3

\* A pop takes the one nobody is before, and leaves the order of the others alone.
LEMMA BeforeTail ==
    ASSUME NEW q \in Seq(Requests), q # <<>>, IsInjective(q), NEW a \in Requests, NEW b \in Requests,
           Before(q, a, b)
    PROVE  /\ b # Head(q)
           /\ b \in Range(q)
           /\ a = Head(q) \/ Before(Tail(q), a, b)
<1>1. /\ DOMAIN q = 1 .. Len(q)
      /\ Len(q) \in Nat \ {0}
      /\ DOMAIN Tail(q) = 1 .. Len(q) - 1
      /\ \A i \in 1 .. Len(q) - 1 : Tail(q)[i] = q[i + 1]
      /\ Head(q) = q[1]
  OBVIOUS
<1>2. PICK i, j \in 1 .. Len(q) : i < j /\ q[i] = a /\ q[j] = b
  BY <1>1 DEF Before
<1>3. 1 \in 1 .. Len(q) /\ j # 1
  BY <1>1, <1>2
<1>4. b # Head(q)
  BY <1>1, <1>2, <1>3 DEF IsInjective
<1>5. ASSUME a # Head(q) PROVE Before(Tail(q), a, b)
  <2>1. i # 1
    BY <1>1, <1>2, <1>5
  <2>2. PICK k, l \in 1 .. Len(q) - 1 : k = i - 1 /\ l = j - 1
    BY <1>1, <1>3, <2>1
  <2>3. k < l /\ k + 1 = i /\ l + 1 = j
    BY <1>1, <1>2, <2>2
  <2>4. Tail(q)[k] = a /\ Tail(q)[l] = b
    BY <1>1, <1>2, <2>3
  <2>. QED  BY <1>1, <2>3, <2>4 DEF Before
<1>. QED  BY <1>1, <1>2, <1>4, <1>5 DEF Range

\* Every step leaves the one of two requests ahead that was ahead, until it is through or
\* the other is refused, and lets a newcomer in behind.
LEMMA OrderStep ==
    ASSUME TypeOK, ControlInv, OneServer, SoleInv, ReasonInv, DrainedInv, [Next]_vars,
           NEW a \in Requests, NEW b \in Requests,
           a # b, SessionOf[a] = SessionOf[b], ModelOf[a] = ModelOf[b]
    PROVE  /\ Ahead(a, b) => \/ Ahead(a, b)' \/ ~Waits(a)'
                             \/ error[b] = "none" /\ error'[b] = "overloaded"
           /\ Waits(a) /\ ~Waits(b) /\ Waits(b)' => Ahead(a, b)'
<1>. DEFINE Kept == /\ Ahead(a, b) => \/ Ahead(a, b)' \/ ~Waits(a)'
                                      \/ error[b] = "none" /\ error'[b] = "overloaded"
                    /\ Waits(a) /\ ~Waits(b) /\ Waits(b)' => Ahead(a, b)'
<1>. USE CoreAssumption DEF Threads, Jobs
<1>1. PICK s \in Sessions, m \in Models : /\ SessionOf[a] = s /\ SessionOf[b] = s
                                          /\ ModelOf[a] = m /\ ModelOf[b] = m
  OBVIOUS
<1>2. /\ s \in Jobs /\ m \in Jobs /\ s # m
      /\ queue[s] \in Seq(Requests) /\ queue[m] \in Seq(Requests)
      /\ IsInjective(queue[s]) /\ IsInjective(queue[m])
  BY DEF TypeOK, QueueTypeOK, SoleInv
\* What Ahead and Waits say of these two.
<1>3. /\ Ahead(a, b) <=> \/ Before(queue[m], a, b)
                         \/ InQueue(m, a) /\ (Handed(b) \/ InQueue(s, b))
                         \/ Handed(a) /\ InQueue(s, b)
                         \/ Before(queue[s], a, b)
      /\ Waits(a) <=> InQueue(s, a) \/ Handed(a) \/ InQueue(m, a)
      /\ Waits(b) <=> InQueue(s, b) \/ Handed(b) \/ InQueue(m, b)
  BY <1>1 DEF Ahead, Waits
<1>4. /\ Ahead(a, b)' <=> \/ Before(queue'[m], a, b)
                          \/ InQueue(m, a)' /\ (Handed(b)' \/ InQueue(s, b)')
                          \/ Handed(a)' /\ InQueue(s, b)'
                          \/ Before(queue'[s], a, b)
      /\ Waits(a)' <=> InQueue(s, a)' \/ Handed(a)' \/ InQueue(m, a)'
      /\ Waits(b)' <=> InQueue(s, b)' \/ Handed(b)' \/ InQueue(m, b)'
  BY <1>1 DEF Ahead, Waits, Before
\* A request in the hands of a drain is carried by that worker, and so nowhere else.
<1>5. ASSUME NEW x \in Requests, NEW w \in Workers, req[w] = x, pc[w] \in {"exec", "submitm"}
      PROVE  /\ Handed(x) /\ ~finished[x] /\ error[x] = "none"
             /\ \A k \in Jobs : ~InQueue(k, x)
             /\ \A v \in Workers : req[v] = x /\ pc[v] \in {"exec", "submitm"} => v = w
  <2>1. Carries(w, x) /\ Handed(x)
    BY <1>5 DEF Carries, Working, Handed
  <2>2. \A v \in Workers : req[v] = x /\ pc[v] \in {"exec", "submitm"} => Carries(v, x)
    BY DEF Carries, Working
  <2>3. /\ ~finished[x]
        /\ \A k \in Jobs : ~InQueue(k, x)
        /\ \A t \in Threads : Carries(t, x) => t = w
    BY <2>1 DEF SoleInv
  <2>4. \A t \in Threads : ~Emitting(t, x)
    BY <1>5, <2>3 DEF Emitting, Carries, Working
  <2>. QED  BY <2>1, <2>2, <2>3, <2>4 DEF ReasonInv
<1>6. \A x \in Requests : Handed(x) => \A k \in Jobs : ~InQueue(k, x)
  BY <1>5 DEF Handed
\* Nothing moves on the way of these two.
<1>7. ASSUME queue'[s] = queue[s], queue'[m] = queue[m],
             Handed(a)' <=> Handed(a), Handed(b)' <=> Handed(b)
      PROVE  Kept
  BY <1>3, <1>4, <1>7 DEF InQueue
<1>8. ASSUME UNCHANGED queue,
             \A w \in Workers : \/ pc'[w] = pc[w] /\ req'[w] = req[w]
                                \/ /\ pc[w] \in {"exec", "submitm"} <=> pc'[w] \in {"exec", "submitm"}
                                   /\ pc[w] \in {"exec", "submitm"} => req'[w] = req[w]
      PROVE  Kept
  <2>1. \A x \in Requests : Handed(x)' <=> Handed(x)
    BY <1>8 DEF Handed
  <2>. QED  BY <1>7, <1>8, <2>1
\* A request is pushed behind the others of its session.
<1>9. ASSUME SessionSubmit PROVE Kept
  <2>1. PICK r \in Requests : r = req[Loop]
    BY <1>9 DEF SessionSubmit, ControlInv
  <2>2. \A w \in Workers : pc'[w] = pc[w] /\ req'[w] = req[w]
    BY <1>9 DEF SessionSubmit, CallEmitFinish, Enqueue, Return, Goto, TypeOK, ThreadTypeOK
  <2>3. \A x \in Requests : Handed(x)' <=> Handed(x)
    BY <2>2 DEF Handed
  <2>4. CASE UNCHANGED queue
    BY <1>7, <2>3, <2>4
  <2>5. CASE queue' = [queue EXCEPT ![SessionOf[r]] = Append(@, r)]
    <3>1. CASE SessionOf[r] # s
      BY <1>2, <1>7, <2>3, <2>5, <3>1 DEF TypeOK, QueueTypeOK
    <3>2. CASE SessionOf[r] = s
      <4>1. queue'[s] = Append(queue[s], r) /\ queue'[m] = queue[m]
        BY <1>2, <2>5, <3>2 DEF TypeOK, QueueTypeOK
      <4>2. \A l \in Jobs, x \in Requests : InQueue(l, x)' <=> InQueue(l, x) \/ (l = s /\ x = r)
        <5>1. queue' = [queue EXCEPT ![s] = Append(@, r)] /\ QueueTypeOK
          BY <2>5, <3>2 DEF TypeOK
        <5>. QED  BY <1>2, <5>1, PushFacts
      <4>3. /\ Before(queue[s], a, b) => Before(queue'[s], a, b)
            /\ InQueue(s, a) => Before(queue'[s], a, r)
        BY <1>2, <4>1, BeforeAppend DEF InQueue
      <4>. QED  BY <1>2, <1>3, <1>4, <2>3, <4>1, <4>2, <4>3
    <3>. QED  BY <3>1, <3>2
  <2>. QED  BY <1>9, <2>1, <2>4, <2>5 DEF SessionSubmit, Enqueue
\* The drain pushes its request behind the others for its model, or it is refused.
<1>10. ASSUME NEW w \in Workers, SubmitPerModel(w) PROVE Kept
  <2>1. PICK r \in Requests : r = req[w]
    BY <1>10 DEF SubmitPerModel, ControlInv, TypeOK, ThreadTypeOK
  <2>2. pc[w] = "submitm" /\ pc'[w] \notin {"exec", "submitm"}
    BY <1>10 DEF SubmitPerModel, CallEmitFinish, Enqueue, Return, Resume, Goto, TypeOK, ThreadTypeOK
  <2>3. \A v \in Workers \ {w} : pc'[v] = pc[v] /\ req'[v] = req[v]
    BY <1>10 DEF SubmitPerModel, CallEmitFinish, Enqueue, Return, Goto, TypeOK, ThreadTypeOK
  <2>4. /\ Handed(r) /\ error[r] = "none"
        /\ \A k \in Jobs : ~InQueue(k, r)
        /\ \A v \in Workers : req[v] = r /\ pc[v] \in {"exec", "submitm"} => v = w
    BY <1>5, <2>1, <2>2
  <2>5. \A x \in Requests : Handed(x)' <=> Handed(x) /\ x # r
    BY <2>1, <2>2, <2>3, <2>4 DEF Handed
  <2>6. CASE UNCHANGED queue /\ error' = [error EXCEPT ![r] = "overloaded"]
    <3>1. error'[r] = "overloaded"
      BY <2>6 DEF TypeOK, ContextTypeOK
    <3>2. \A l \in Jobs, x \in Requests : InQueue(l, x)' <=> InQueue(l, x)
      BY <2>6 DEF InQueue
    <3>3. CASE r \notin {a, b}
      BY <1>7, <2>5, <2>6, <3>3
    <3>4. CASE r = a
      BY <1>2, <1>3, <1>4, <2>4, <2>5, <3>2, <3>4
    <3>5. CASE r = b
      BY <1>2, <1>3, <1>4, <2>4, <2>5, <3>1, <3>2, <3>5
    <3>. QED  BY <3>3, <3>4, <3>5
  <2>7. CASE queue' = [queue EXCEPT ![ModelOf[r]] = Append(@, r)]
    <3>1. CASE ModelOf[r] # m
      <4>1. r \notin {a, b} /\ ModelOf[r] \in Models
        BY <1>1, <3>1
      <4>2. queue'[s] = queue[s] /\ queue'[m] = queue[m]
        BY <1>2, <2>7, <3>1, <4>1 DEF TypeOK, QueueTypeOK
      <4>. QED  BY <1>7, <2>5, <4>1, <4>2
    <3>2. CASE ModelOf[r] = m
      <4>1. queue'[m] = Append(queue[m], r) /\ queue'[s] = queue[s]
        BY <1>2, <2>7, <3>2 DEF TypeOK, QueueTypeOK
      <4>2. \A l \in Jobs, x \in Requests : InQueue(l, x)' <=> InQueue(l, x) \/ (l = m /\ x = r)
        <5>1. queue' = [queue EXCEPT ![m] = Append(@, r)] /\ QueueTypeOK
          BY <2>7, <3>2 DEF TypeOK
        <5>. QED  BY <1>2, <5>1, PushFacts
      <4>3. /\ Before(queue[m], a, b) => Before(queue'[m], a, b)
            /\ InQueue(m, a) => Before(queue'[m], a, r)
        BY <1>2, <4>1, BeforeAppend DEF InQueue
      <4>. QED  BY <1>2, <1>3, <1>4, <2>4, <2>5, <4>1, <4>2, <4>3
    <3>. QED  BY <3>1, <3>2
  <2>. QED  BY <1>10, <2>1, <2>6, <2>7 DEF SubmitPerModel, Enqueue
\* The drain of a session takes its oldest request; it held no other.
<1>11. ASSUME NEW w \in Workers, PopNext(w, "drain", "exec") PROVE Kept
  <2>1. PICK k \in Sessions : k = job[w]
    BY <1>11 DEF PopNext, ControlInv
  <2>2. /\ queue[k] # <<>> /\ queue[k] \in Seq(Requests)
        /\ queue'[k] = Tail(queue[k])
        /\ \A l \in Jobs \ {k} : queue'[l] = queue[l]
        /\ pc[w] = "drain" /\ pc'[w] = "exec"
        /\ req'[w] = Head(queue[k])
    BY <1>11, <2>1 DEF PopNext, Goto, TypeOK, QueueTypeOK, ThreadTypeOK
  <2>3. PICK h \in Requests : h = Head(queue[k])
    BY <2>2
  <2>4. /\ \A v \in Workers \ {w} : pc'[v] = pc[v] /\ req'[v] = req[v]
        /\ InQueue(k, h)
        /\ \A l \in Jobs, x \in Requests : InQueue(l, x) <=> InQueue(l, x)' \/ (l = k /\ x = h)
    BY <1>11, <2>1, <2>2, <2>3, PopFacts
  <2>5. \A x \in Requests : Handed(x)' <=> Handed(x) \/ x = h
    BY <2>2, <2>3, <2>4 DEF Handed
  <2>6. SessionOf[h] = k
    BY <2>4 DEF DrainedInv, InQueue
  <2>7. CASE k # s
    BY <1>1, <1>2, <1>7, <2>2, <2>5, <2>6, <2>7
  <2>8. CASE k = s
    <3>1. ASSUME NEW x \in Requests, Handed(x), SessionOf[x] = s PROVE FALSE
      <4>1. PICK v \in Workers : req[v] = x /\ pc[v] \in {"exec", "submitm"}
        BY <3>1 DEF Handed
      <4>2. job[v] \in Sessions /\ req[v] # None
        BY <4>1 DEF ControlInv
      <4>3. job[v] = s
        BY <3>1, <4>1, <4>2 DEF DrainedInv
      <4>4. v = w
        BY <2>1, <2>8, <4>3 DEF OneServer, Serves
      <4>. QED  BY <2>2, <4>1, <4>4
    <3>2. ~Handed(a) /\ ~Handed(b)
      BY <1>1, <3>1
    <3>3. Before(queue[s], a, b) => /\ b # h /\ InQueue(s, b)
                                    /\ a = h \/ Before(queue'[s], a, b)
      BY <1>2, <2>2, <2>3, <2>8, BeforeTail DEF InQueue
    <3>4. queue'[m] = queue[m]
      BY <1>2, <2>2, <2>8
    <3>5. /\ InQueue(s, a) <=> InQueue(s, a)' \/ a = h
          /\ InQueue(s, b) <=> InQueue(s, b)' \/ b = h
          /\ InQueue(m, a) <=> InQueue(m, a)'
          /\ InQueue(m, b) <=> InQueue(m, b)'
      BY <1>2, <2>4, <2>8
    <3>. QED  BY <1>3, <1>4, <2>5, <3>2, <3>3, <3>4, <3>5
  <2>. QED  BY <2>7, <2>8
\* A model's runner takes its oldest request, which is through.
<1>12. ASSUME NEW w \in Workers, PopNext(w, "runq", "task") PROVE Kept
  <2>1. PICK k \in Models : k = job[w]
    BY <1>12 DEF PopNext, ControlInv
  <2>2. /\ queue[k] # <<>> /\ queue[k] \in Seq(Requests)
        /\ queue'[k] = Tail(queue[k])
        /\ \A l \in Jobs \ {k} : queue'[l] = queue[l]
        /\ pc[w] = "runq" /\ pc'[w] = "task"
        /\ req'[w] = Head(queue[k])
    BY <1>12, <2>1 DEF PopNext, Goto, TypeOK, QueueTypeOK, ThreadTypeOK
  <2>3. PICK h \in Requests : h = Head(queue[k])
    BY <2>2
  <2>4. /\ \A v \in Workers \ {w} : pc'[v] = pc[v] /\ req'[v] = req[v]
        /\ InQueue(k, h) /\ (IsInjective(queue[k]) => ~InQueue(k, h)')
        /\ \A l \in Jobs, x \in Requests : InQueue(l, x) <=> InQueue(l, x)' \/ (l = k /\ x = h)
    BY <1>12, <2>1, <2>2, <2>3, PopFacts DEF InQueue
  <2>5. \A x \in Requests : Handed(x)' <=> Handed(x)
    BY <2>2, <2>4 DEF Handed
  <2>6. CASE k # m
    BY <1>2, <1>7, <2>2, <2>5, <2>6
  <2>7. CASE k = m
    <3>1. Before(queue[m], a, b) => a = h \/ Before(queue'[m], a, b)
      BY <1>2, <2>2, <2>3, <2>7, BeforeTail
    <3>2. queue'[s] = queue[s]
      BY <1>2, <2>2, <2>7
    <3>3. /\ InQueue(m, a) <=> InQueue(m, a)' \/ a = h
          /\ InQueue(m, b) <=> InQueue(m, b)' \/ b = h
          /\ InQueue(s, a) <=> InQueue(s, a)'
          /\ InQueue(s, b) <=> InQueue(s, b)'
      BY <1>2, <2>4, <2>7
    <3>4. a = h => ~Waits(a)'
      <4>. SUFFICES ASSUME a = h PROVE ~Waits(a)'
        OBVIOUS
      <4>1. InQueue(m, a) /\ ~InQueue(m, a)'
        BY <1>2, <2>4, <2>7
      <4>2. ~Handed(a)'
        BY <1>2, <1>6, <2>5, <4>1
      <4>3. ~InQueue(s, a)'
        BY <1>2, <3>3, <4>1 DEF SoleInv
      <4>. QED  BY <1>4, <4>1, <4>2, <4>3
    <3>. QED  BY <1>3, <1>4, <2>5, <3>1, <3>2, <3>3, <3>4
  <2>. QED  BY <2>6, <2>7
<1>13. ASSUME NEW w \in Workers, Execute(w) PROVE Kept
  <2>1. PICK r \in Requests : r = req[w]
    BY <1>13 DEF Execute, ControlInv, TypeOK, ThreadTypeOK
  <2>2. ~finished[r]
    BY <1>5, <1>13, <2>1 DEF Execute
  <2>. QED  BY <1>8, <1>13, <2>1, <2>2 DEF Execute, Goto, TypeOK, ThreadTypeOK
<1>14. ASSUME NEW t \in Threads, EmitStep(t) \/ Schedule(t) PROVE Kept
  <2>1. UNCHANGED queue
    BY <1>14 DEF EmitStep, EmitFinish, StoreReason, FinalChunk, OnFinish, Schedule
  <2>2. \A w \in Workers : \/ pc'[w] = pc[w] /\ req'[w] = req[w]
                           \/ pc[w] \notin {"exec", "submitm"} /\ pc'[w] \notin {"exec", "submitm"}
    BY <1>14 DEF EmitStep, EmitFinish, StoreReason, FinalChunk, OnFinish, Schedule, Return, Resume,
                 Goto, TypeOK, ThreadTypeOK
  <2>. QED  BY <1>8, <2>1, <2>2
<1>15. ASSUME NEW r \in Requests, ClientStep(r) \/ OnClose(r) PROVE Kept
  BY <1>8, <1>15
     DEF ClientStep, BadRequest, ChatRequest, PeerClose, OnClose, CallEmitFinish, Goto, threadVars,
         TypeOK, ThreadTypeOK
<1>16. ASSUME NEW w \in Workers,
              \/ TakeTask(w) \/ LeaveQueue(w, "drain") \/ LeaveQueue(w, "runq")
              \/ TaskSkips(w) \/ TaskFails(w) \/ EngineStart(w) \/ EngineStep(w)
       PROVE  Kept
  <2>1. UNCHANGED queue
    BY <1>16 DEF TakeTask, LeaveQueue, TaskSkips, TaskFails, EngineStart, EngineStep, EngineFinish,
                 EngineReturn
  <2>2. \A v \in Workers : \/ pc'[v] = pc[v] /\ req'[v] = req[v]
                           \/ pc[v] \notin {"exec", "submitm"} /\ pc'[v] \notin {"exec", "submitm"}
    BY <1>16 DEF TakeTask, LeaveQueue, TaskSkips, TaskFails, EngineStart, EngineStep, EngineFinish,
                 EngineReturn, CallEmitFinish, Return, Resume, Goto, TypeOK, ThreadTypeOK
  <2>. QED  BY <1>8, <2>1, <2>2
<1>17. ASSUME WaitFinishOrCancel \/ UNCHANGED vars PROVE Kept
  BY <1>8, <1>17
     DEF WaitFinishOrCancel, CallEmitFinish, Goto, vars, TypeOK, ThreadTypeOK
<1>. QED
  BY <1>9, <1>10, <1>11, <1>12, <1>13, <1>14, <1>15, <1>16, <1>17
     DEF Next, WorkerStep, LoopStep, Drain, RunModelQueue, Quiescent

\* Requests of one session for one model reach the engine in the order they were accepted,
\* although each passes from one queue to the other in the hands of a pool thread.
THEOREM OrderIsKept == Spec => OrderKept
<1>1. Init => DrainedInv
  BY CoreAssumption DEF Init, DrainedInv, Range, Threads, Jobs
<1>2. TypeOK /\ ControlInv /\ DrainedInv /\ [Next]_vars => DrainedInv'
  BY DrainedStep DEF TypeOK
<1>3. TypeOK /\ ControlInv /\ OneServer /\ SoleInv /\ ReasonInv /\ DrainedInv /\ [Next]_vars
      => [\A a, b \in Requests :
            a # b /\ SessionOf[a] = SessionOf[b] /\ ModelOf[a] = ModelOf[b] =>
                /\ Ahead(a, b) => \/ Ahead(a, b)' \/ ~Waits(a)'
                                  \/ error[b] = "none" /\ error'[b] = "overloaded"
                /\ Waits(a) /\ ~Waits(b) /\ Waits(b)' => Ahead(a, b)']_vars
  BY OrderStep
<1>. QED
  BY <1>1, <1>2, <1>3, TypeCorrect, ServiceCorrect, OnePlace, ReasonsAgree, PTL DEF Spec, OrderKept

=============================================================================
