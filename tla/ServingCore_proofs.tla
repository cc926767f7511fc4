------------------------- MODULE ServingCore_proofs -------------------------
(***************************************************************************)
(* Proofs about ServingCore, for every set of requests, sessions, models   *)
(* and workers and all queue bounds.                                       *)
(***************************************************************************)
EXTENDS ServingCore, TLAPS

-----------------------------------------------------------------------------
(* Types and control.                                                      *)

\* Every step keeps a thread's place in the code consistent with its request and the
\* queue it serves.
LEMMA ControlStep ==
    ASSUME ThreadTypeOK, QueueTypeOK, ControlInv, [Next]_vars
    PROVE  ThreadTypeOK' /\ ControlInv'
<1>. USE CoreAssumption DEF Jobs, Threads, Reasons, Places, threadVars,
         ThreadTypeOK, ControlInv, Goto
<1>1. ASSUME NEW t \in Threads, pc[t] \in {"schedule", "emit", "onfinish"}, Return(t), UNCHANGED job
      PROVE  ThreadTypeOK' /\ ControlInv'
  BY <1>1 DEF Return, Resume
<1>2. ASSUME NEW t \in Threads, Schedule(t) PROVE ThreadTypeOK' /\ ControlInv'
  BY <1>1, <1>2 DEF Schedule
<1>3. ASSUME NEW t \in Threads, EmitFinish(t) PROVE ThreadTypeOK' /\ ControlInv'
  <2>1. CASE finished[req[t]]
    BY <1>1, <1>3, <2>1 DEF EmitFinish
  <2>2. CASE ~finished[req[t]]
    BY <1>3, <2>2 DEF EmitFinish
  <2>. QED  BY <2>1, <2>2
<1>4. ASSUME NEW t \in Threads, StoreReason(t) \/ FinalChunk(t)
      PROVE  ThreadTypeOK' /\ ControlInv'
  BY <1>4 DEF StoreReason, FinalChunk
<1>5. ASSUME NEW t \in Threads, OnFinish(t) PROVE ThreadTypeOK' /\ ControlInv'
  BY <1>1, <1>5 DEF OnFinish
<1>6. ASSUME NEW r \in Requests, ClientStep(r) PROVE ThreadTypeOK' /\ ControlInv'
  BY <1>6 DEF ClientStep, BadRequest, ChatRequest, PeerClose
<1>7. ASSUME SessionSubmit PROVE ThreadTypeOK' /\ ControlInv'
  <2>1. CASE Len(queue[SessionOf[req[Loop]]]) >= MaxPending
    BY <1>7, <2>1 DEF SessionSubmit, CallEmitFinish
  <2>2. CASE ~(Len(queue[SessionOf[req[Loop]]]) >= MaxPending)
    BY <1>7, <2>2 DEF SessionSubmit, Enqueue, Return, Resume
  <2>. QED  BY <2>1, <2>2
<1>8. ASSUME WaitFinishOrCancel PROVE ThreadTypeOK' /\ ControlInv'
  BY <1>8 DEF WaitFinishOrCancel, CallEmitFinish
<1>9. ASSUME NEW r \in Requests, OnClose(r) PROVE ThreadTypeOK' /\ ControlInv'
  BY <1>9 DEF OnClose, CallEmitFinish
<1>10. ASSUME NEW w \in Workers, TakeTask(w) PROVE ThreadTypeOK' /\ ControlInv'
  <2>1. Head(pool) \in Jobs
    BY <1>10 DEF TakeTask, QueueTypeOK
  <2>. QED  BY <1>10, <2>1 DEF TakeTask
<1>11. ASSUME NEW w \in Workers, PopNext(w, "drain", "exec") \/ PopNext(w, "runq", "task")
       PROVE  ThreadTypeOK' /\ ControlInv'
  <2>1. Head(queue[job[w]]) \in Requests
    BY <1>11 DEF PopNext, QueueTypeOK
  <2>. QED  BY <1>11, <2>1 DEF PopNext
<1>12. ASSUME NEW w \in Workers, LeaveQueue(w, "drain") \/ LeaveQueue(w, "runq")
       PROVE  ThreadTypeOK' /\ ControlInv'
  BY <1>12 DEF LeaveQueue
<1>13. ASSUME NEW w \in Workers, Execute(w) PROVE ThreadTypeOK' /\ ControlInv'
  BY <1>13 DEF Execute, Return, Resume
<1>14. ASSUME NEW w \in Workers, SubmitPerModel(w) PROVE ThreadTypeOK' /\ ControlInv'
  <2>1. CASE Len(queue[ModelOf[req[w]]]) >= MaxModelQueue
    BY <1>14, <2>1 DEF SubmitPerModel, CallEmitFinish
  <2>2. CASE ~(Len(queue[ModelOf[req[w]]]) >= MaxModelQueue)
    BY <1>14, <2>2 DEF SubmitPerModel, Enqueue, Return, Resume
  <2>. QED  BY <2>1, <2>2
<1>15. ASSUME NEW w \in Workers, TaskSkips(w) PROVE ThreadTypeOK' /\ ControlInv'
  BY <1>15 DEF TaskSkips, Return, Resume, CallEmitFinish
<1>16. ASSUME NEW w \in Workers, TaskFails(w) \/ EngineStart(w) PROVE ThreadTypeOK' /\ ControlInv'
  BY <1>16 DEF TaskFails, EngineStart, CallEmitFinish
<1>17. ASSUME NEW w \in Workers, EngineStep(w) PROVE ThreadTypeOK' /\ ControlInv'
  BY <1>17 DEF EngineStep, EngineFinish, EngineReturn, CallEmitFinish
<1>18. CASE UNCHANGED vars
  BY <1>18 DEF vars
<1>. QED
  BY <1>2, <1>3, <1>4, <1>5, <1>6, <1>7, <1>8, <1>9, <1>10, <1>11, <1>12, <1>13, <1>14,
     <1>15, <1>16, <1>17, <1>18
     DEF Next, WorkerStep, LoopStep, EmitStep, Drain, RunModelQueue, Quiescent

\* Every step keeps the pool and the queues well typed.
LEMMA QueueTypeStep ==
    ASSUME ThreadTypeOK, QueueTypeOK, ControlInv, [Next]_vars
    PROVE  QueueTypeOK'
<1>. USE CoreAssumption DEF Jobs, Threads, QueueTypeOK
<1>1. ASSUME NEW t \in Threads, Schedule(t) PROVE QueueTypeOK'
  <2>1. Claimed(t) \in Jobs
    BY <1>1 DEF Schedule, Claimed, ControlInv, ThreadTypeOK
  <2>. QED  BY <1>1, <2>1 DEF Schedule
<1>2. ASSUME NEW t \in Threads, NEW k \in Jobs, NEW r \in Requests, Enqueue(t, k, r), UNCHANGED pool
      PROVE  QueueTypeOK'
  BY <1>2 DEF Enqueue
<1>3. ASSUME SessionSubmit PROVE QueueTypeOK'
  BY <1>2, <1>3 DEF SessionSubmit, ControlInv
<1>4. ASSUME NEW w \in Workers, SubmitPerModel(w) PROVE QueueTypeOK'
  <2>1. req[w] \in Requests
    BY <1>4 DEF SubmitPerModel, ControlInv, ThreadTypeOK
  <2>. QED  BY <1>2, <1>4, <2>1 DEF SubmitPerModel
<1>5. ASSUME NEW w \in Workers, TakeTask(w) PROVE QueueTypeOK'
  BY <1>5 DEF TakeTask
<1>6. ASSUME NEW w \in Workers, PopNext(w, "drain", "exec") \/ PopNext(w, "runq", "task")
      PROVE  QueueTypeOK'
  <2>1. job[w] \in Jobs
    BY <1>6 DEF PopNext, ControlInv
  <2>2. Tail(queue[job[w]]) \in Seq(Requests)
    BY <1>6, <2>1 DEF PopNext
  <2>3. /\ queue' = [queue EXCEPT ![job[w]] = Tail(queue[job[w]])]
        /\ UNCHANGED <<pool, running>>
    BY <1>6 DEF PopNext
  <2>. QED  BY <2>1, <2>2, <2>3
<1>7. ASSUME NEW w \in Workers, LeaveQueue(w, "drain") \/ LeaveQueue(w, "runq") PROVE QueueTypeOK'
  BY <1>7 DEF LeaveQueue
<1>8. CASE UNCHANGED <<pool, queue, running>>
  BY <1>8
<1>9. ASSUME NEW t \in Threads, EmitStep(t) PROVE UNCHANGED <<pool, queue, running>>
  BY <1>9 DEF EmitStep, EmitFinish, StoreReason, FinalChunk, OnFinish
<1>10. ASSUME NEW r \in Requests, ClientStep(r) \/ OnClose(r)
       PROVE  UNCHANGED <<pool, queue, running>>
  BY <1>10 DEF ClientStep, BadRequest, ChatRequest, PeerClose, OnClose
<1>11. ASSUME NEW w \in Workers,
              Execute(w) \/ TaskSkips(w) \/ TaskFails(w) \/ EngineStart(w) \/ EngineStep(w)
       PROVE  UNCHANGED <<pool, queue, running>>
  BY <1>11 DEF Execute, TaskSkips, TaskFails, EngineStart, EngineStep, EngineFinish, EngineReturn
<1>12. ASSUME WaitFinishOrCancel \/ UNCHANGED vars PROVE UNCHANGED <<pool, queue, running>>
  BY <1>12 DEF WaitFinishOrCancel, vars
<1>. QED
  BY <1>1, <1>3, <1>4, <1>5, <1>6, <1>7, <1>8, <1>9, <1>10, <1>11, <1>12
     DEF Next, WorkerStep, LoopStep, Drain, RunModelQueue, Quiescent

\* Every step keeps the contexts, connections, answers and counters well typed.
LEMMA ContextTypeStep ==
    ASSUME ThreadTypeOK, ContextTypeOK, ControlInv, [Next]_vars
    PROVE  ContextTypeOK'
<1>. USE CoreAssumption DEF Threads, Reasons, ThreadTypeOK, ContextTypeOK, ctxVars, outVars
<1>1. ASSUME NEW t \in Threads, EmitStep(t) PROVE ContextTypeOK'
  <2>1. CASE EmitFinish(t)
    BY <2>1 DEF EmitFinish
  <2>2. CASE StoreReason(t)
    BY <2>2 DEF StoreReason
  <2>3. CASE FinalChunk(t)
    <3>1. cancelled' \in [Requests -> BOOLEAN]
      BY <2>3 DEF FinalChunk
    <3>2. reply' \in [Requests -> Reasons \cup {"none", "400", "429", "500"}]
      BY <2>3 DEF FinalChunk
    <3>. QED  BY <2>3, <3>1, <3>2 DEF FinalChunk
  <2>4. CASE OnFinish(t)
    <3>1. req[t] \in Requests
      BY <2>4 DEF OnFinish, ControlInv
    <3>. QED  BY <2>4, <3>1 DEF OnFinish
  <2>. QED  BY <1>1, <2>1, <2>2, <2>3, <2>4 DEF EmitStep
<1>2. ASSUME NEW r \in Requests, ClientStep(r) \/ OnClose(r) PROVE ContextTypeOK'
  <2>1. CASE BadRequest(r)
    BY <2>1 DEF BadRequest
  <2>2. CASE ChatRequest(r)
    BY <2>2 DEF ChatRequest
  <2>3. CASE PeerClose(r)
    BY <2>3 DEF PeerClose
  <2>4. CASE OnClose(r)
    BY <2>4 DEF OnClose
  <2>. QED  BY <1>2, <2>1, <2>2, <2>3, <2>4 DEF ClientStep
<1>3. ASSUME SessionSubmit PROVE ContextTypeOK'
  BY <1>3 DEF SessionSubmit
<1>4. ASSUME WaitFinishOrCancel PROVE ContextTypeOK'
  <2>1. Answer(req[Loop]) \in Reasons \cup {"429", "500"}
    BY <1>4 DEF WaitFinishOrCancel, Answer, ControlInv
  <2>2. CASE finished[req[Loop]]
    BY <1>4, <2>1, <2>2 DEF WaitFinishOrCancel
  <2>3. CASE ~finished[req[Loop]]
    <3>1. cancelled' = [cancelled EXCEPT ![req[Loop]] = TRUE] /\ reply' = reply
      BY <1>4, <2>3 DEF WaitFinishOrCancel
    <3>. QED  BY <1>4, <3>1 DEF WaitFinishOrCancel
  <2>. QED  BY <2>2, <2>3
<1>5. ASSUME NEW w \in Workers, SubmitPerModel(w) \/ TaskFails(w) \/ EngineStep(w)
      PROVE  ContextTypeOK'
  <2>1. CASE SubmitPerModel(w)
    BY <2>1 DEF SubmitPerModel
  <2>2. CASE TaskFails(w)
    <3>1. PICK e \in {"overloaded", "internal"} : error' = [error EXCEPT ![req[w]] = e]
      BY <2>2 DEF TaskFails
    <3>. QED  BY <2>2, <3>1 DEF TaskFails
  <2>3. CASE EngineStep(w)
    BY <2>3 DEF EngineStep, EngineFinish, EngineReturn
  <2>. QED  BY <1>5, <2>1, <2>2, <2>3
<1>6. ASSUME NEW t \in Threads, Schedule(t) PROVE ContextTypeOK'
  BY <1>6 DEF Schedule
<1>7. ASSUME NEW w \in Workers, TakeTask(w) \/ Drain(w) \/ RunModelQueue(w) PROVE ContextTypeOK'
  BY <1>7 DEF TakeTask, Drain, RunModelQueue, PopNext, LeaveQueue
<1>8. ASSUME NEW w \in Workers, Execute(w) \/ TaskSkips(w) \/ EngineStart(w) PROVE ContextTypeOK'
  BY <1>8 DEF Execute, TaskSkips, EngineStart
<1>9. CASE UNCHANGED vars
  BY <1>9 DEF vars
<1>. QED
  BY <1>1, <1>2, <1>3, <1>4, <1>5, <1>6, <1>7, <1>8, <1>9
     DEF Next, WorkerStep, LoopStep, Quiescent

\* The core's state keeps its types, and a thread's place in the code always tells
\* which request it works on and which queue it serves.
THEOREM TypeCorrect == Spec => [](TypeOK /\ ControlInv)
<1>1. Init => TypeOK /\ ControlInv
  BY CoreAssumption
     DEF Init, TypeOK, ThreadTypeOK, QueueTypeOK, ContextTypeOK, ControlInv, Jobs, Threads,
         Reasons, Places
<1>2. TypeOK /\ ControlInv /\ [Next]_vars => (TypeOK /\ ControlInv)'
  BY ControlStep, QueueTypeStep, ContextTypeStep DEF TypeOK
<1>. QED  BY <1>1, <1>2, PTL DEF Spec

-----------------------------------------------------------------------------
(* One server per queue, and no queue without one.                         *)

\* Elements of an extended sequence.
LEMMA AppendRange ==
    ASSUME NEW S, NEW s \in Seq(S), NEW x \in S
    PROVE  /\ Range(Append(s, x)) = Range(s) \cup {x}
           /\ IsInjective(s) /\ x \notin Range(s) => IsInjective(Append(s, x))
<1>1. /\ Len(Append(s, x)) = Len(s) + 1
      /\ DOMAIN Append(s, x) = 1 .. Len(s) + 1
      /\ DOMAIN s = 1 .. Len(s)
      /\ Len(s) \in Nat
      /\ \A i \in 1 .. Len(s) : Append(s, x)[i] = s[i]
      /\ Append(s, x)[Len(s) + 1] = x
  OBVIOUS
<1>. QED  BY <1>1 DEF Range, IsInjective

\* Elements of a sequence that lost its head.
LEMMA TailRange ==
    ASSUME NEW S, NEW s \in Seq(S), s # <<>>
    PROVE  /\ Range(s) = Range(Tail(s)) \cup {Head(s)}
           /\ IsInjective(s) => IsInjective(Tail(s)) /\ Head(s) \notin Range(Tail(s))
<1>1. /\ Len(s) \in Nat \ {0}
      /\ DOMAIN s = 1 .. Len(s)
      /\ DOMAIN Tail(s) = 1 .. Len(s) - 1
      /\ \A i \in 1 .. Len(s) - 1 : Tail(s)[i] = s[i + 1]
      /\ Head(s) = s[1]
  OBVIOUS
<1>2. \A i \in 1 .. Len(s) : i = 1 \/ (i - 1 \in 1 .. Len(s) - 1 /\ s[i] = Tail(s)[i - 1])
  BY <1>1
<1>3. Range(s) = Range(Tail(s)) \cup {Head(s)}
  <2>1. ASSUME NEW y \in Range(s) PROVE y \in Range(Tail(s)) \cup {Head(s)}
    <3>1. PICK i \in 1 .. Len(s) : y = s[i]
      BY <1>1, <2>1 DEF Range
    <3>2. CASE i = 1
      BY <1>1, <3>1, <3>2
    <3>3. CASE i # 1
      BY <1>1, <1>2, <3>1, <3>3 DEF Range
    <3>. QED  BY <3>2, <3>3
  <2>2. ASSUME NEW y \in Range(Tail(s)) PROVE y \in Range(s)
    <3>1. PICK i \in 1 .. Len(s) - 1 : y = Tail(s)[i]
      BY <1>1, <2>2 DEF Range
    <3>2. i + 1 \in 1 .. Len(s) /\ s[i + 1] = y
      BY <1>1, <3>1
    <3>. QED  BY <1>1, <3>2 DEF Range
  <2>3. Head(s) \in Range(s)
    BY <1>1 DEF Range
  <2>. QED  BY <2>1, <2>2, <2>3
<1>4. ASSUME IsInjective(s) PROVE IsInjective(Tail(s)) /\ Head(s) \notin Range(Tail(s))
  <2>1. \A i \in 1 .. Len(s) - 1 : i + 1 \in 1 .. Len(s) /\ i + 1 # 1
    BY <1>1
  <2>2. 1 \in 1 .. Len(s)
    BY <1>1
  <2>3. ASSUME NEW i \in 1 .. Len(s) - 1, NEW j \in 1 .. Len(s) - 1, Tail(s)[i] = Tail(s)[j]
        PROVE  i = j
    <3>1. i + 1 = j + 1
      BY <1>1, <1>4, <2>1, <2>3 DEF IsInjective
    <3>. QED  BY <3>1
  <2>. QED  BY <1>1, <1>4, <2>1, <2>2, <2>3 DEF IsInjective, Range
<1>. QED  BY <1>3, <1>4

\* Every step keeps exactly one server, claimant or pool task behind every running
\* flag, and a flag behind every queued request.
LEMMA ServiceStep ==
    ASSUME ThreadTypeOK, QueueTypeOK, ControlInv, NoStrandedQueue, OneServer, [Next]_vars
    PROVE  NoStrandedQueue' /\ OneServer'
<1>. DEFINE Same(k) == /\ InPool(k)' <=> InPool(k)
                       /\ \A t \in Threads : Claims(t, k)' <=> Claims(t, k)
                       /\ \A w \in Workers : Serves(w, k)' <=> Serves(w, k)
<1>. DEFINE Frame == UNCHANGED <<pool, running, job>>
<1>. USE CoreAssumption DEF Threads, Jobs
\* Nothing moves between the queues, the pool and the threads' claims.
<1>1. ASSUME Frame, UNCHANGED queue,
             \A t \in Threads : pc'[t] = "schedule" <=> pc[t] = "schedule",
             \A t \in Threads : pc[t] = "schedule" => req'[t] = req[t]
      PROVE  NoStrandedQueue' /\ OneServer'
  <2>1. \A k \in Jobs : Same(k)
    BY <1>1 DEF InPool, Claims, Claimed, Serves
  <2>. HIDE DEF Same
  <2>2. IsInjective(pool)' <=> IsInjective(pool)
    BY <1>1
  <2>. QED  BY <1>1, <2>1, <2>2 DEF Same, NoStrandedQueue, OneServer, Responsible
<1>2. ASSUME NEW t \in Threads, NEW k \in Jobs, NEW r, Enqueue(t, k, r), UNCHANGED <<job, pool>>,
             pc[t] # "schedule", Claimed(t) = k, r \in Requests
      PROVE  NoStrandedQueue' /\ OneServer'
  <2>1. /\ queue' = [queue EXCEPT ![k] = Append(queue[k], r)]
        /\ running' = [running EXCEPT ![k] = TRUE]
    BY <1>2 DEF Enqueue
  <2>2. \A k2 \in Jobs : queue'[k2] # <<>> => k2 = k \/ queue[k2] # <<>>
    BY <2>1 DEF QueueTypeOK
  <2>3. /\ running'[k] = TRUE
        /\ \A k2 \in Jobs \ {k} : running'[k2] = running[k2]
    BY <2>1 DEF QueueTypeOK
  <2>4. IsInjective(pool)' <=> IsInjective(pool)
    BY <1>2
  <2>5. CASE running[k]
    <3>1. /\ pc' = [pc EXCEPT ![t] = Resume(t)]
          /\ Resume(t) # "schedule"
          /\ req' = [req EXCEPT ![t] = req'[t]]
      BY <1>2, <2>5 DEF Enqueue, Return, Goto, Resume, ThreadTypeOK
    <3>2. \A k2 \in Jobs : Same(k2)
      BY <1>2, <3>1 DEF InPool, Claims, Claimed, Serves, ThreadTypeOK
    <3>. HIDE DEF Same
    <3>. QED  BY <2>2, <2>3, <2>4, <2>5, <3>2 DEF Same, NoStrandedQueue, OneServer, Responsible
  <2>6. CASE ~running[k]
    <3>1. pc' = [pc EXCEPT ![t] = "schedule"] /\ req' = req
      BY <1>2, <2>6 DEF Enqueue, Goto
    <3>2. /\ \A u \in Threads : Claims(u, k)' <=> Claims(u, k) \/ u = t
          /\ InPool(k)' <=> InPool(k)
          /\ \A w \in Workers : Serves(w, k)' <=> Serves(w, k)
      BY <1>2, <3>1 DEF InPool, Claims, Claimed, Serves, ThreadTypeOK
    <3>3. \A k2 \in Jobs \ {k} : Same(k2)
      BY <1>2, <3>1 DEF InPool, Claims, Claimed, Serves, ThreadTypeOK
    <3>4. ~Responsible(k)
      BY <2>6 DEF NoStrandedQueue
    <3>. HIDE DEF Same
    <3>5. NoStrandedQueue'
      BY <2>2, <2>3, <3>2, <3>3 DEF Same, NoStrandedQueue, Responsible
    <3>6. OneServer'
      BY <2>4, <3>2, <3>3, <3>4 DEF Same, OneServer, Responsible
    <3>. QED  BY <3>5, <3>6
  <2>. QED  BY <2>5, <2>6
<1>3. ASSUME SessionSubmit PROVE NoStrandedQueue' /\ OneServer'
  <2>1. req[Loop] \in Requests /\ pc[Loop] = "submit"
    BY <1>3 DEF SessionSubmit, ControlInv
  <2>2. CASE Len(queue[SessionOf[req[Loop]]]) >= MaxPending
    BY <1>1, <1>3, <2>1, <2>2 DEF SessionSubmit, CallEmitFinish, Goto, ThreadTypeOK
  <2>3. CASE ~(Len(queue[SessionOf[req[Loop]]]) >= MaxPending)
    <3>1. Enqueue(Loop, SessionOf[req[Loop]], req[Loop]) /\ UNCHANGED <<job, pool>>
      BY <1>3, <2>3 DEF SessionSubmit
    <3>. QED  BY <1>2, <2>1, <3>1 DEF Claimed
  <2>. QED  BY <2>2, <2>3
<1>4. ASSUME NEW w \in Workers, SubmitPerModel(w) PROVE NoStrandedQueue' /\ OneServer'
  <2>1. req[w] \in Requests /\ pc[w] = "submitm"
    BY <1>4 DEF SubmitPerModel, ControlInv, ThreadTypeOK
  <2>2. CASE Len(queue[ModelOf[req[w]]]) >= MaxModelQueue
    BY <1>1, <1>4, <2>1, <2>2 DEF SubmitPerModel, CallEmitFinish, Goto, ThreadTypeOK
  <2>3. CASE ~(Len(queue[ModelOf[req[w]]]) >= MaxModelQueue)
    <3>1. Enqueue(w, ModelOf[req[w]], req[w]) /\ UNCHANGED <<job, pool>>
      BY <1>4, <2>3 DEF SubmitPerModel
    <3>. QED  BY <1>2, <2>1, <3>1 DEF Claimed
  <2>. QED  BY <2>2, <2>3
\* A claim becomes a task of the pool.
<1>5. ASSUME NEW t \in Threads, Schedule(t) PROVE NoStrandedQueue' /\ OneServer'
  <2>1. PICK k \in Jobs : k = Claimed(t)
    BY <1>5 DEF Schedule, Claimed, ControlInv, ThreadTypeOK
  <2>2. /\ pool' = Append(pool, k)
        /\ UNCHANGED <<job, queue, running>>
        /\ pc[t] = "schedule"
        /\ pc' = [pc EXCEPT ![t] = Resume(t)]
        /\ Resume(t) # "schedule"
        /\ req' = [req EXCEPT ![t] = req'[t]]
    BY <1>5, <2>1 DEF Schedule, Return, Goto, Resume, ThreadTypeOK
  <2>3. Range(pool') = Range(pool) \cup {k}
    BY <2>2, AppendRange DEF QueueTypeOK
  <2>4. Claims(t, k) /\ ~InPool(k)
    BY <2>1, <2>2 DEF Claims, OneServer
  <2>5. IsInjective(pool')
    BY <2>2, <2>4, AppendRange DEF QueueTypeOK, OneServer, InPool
  <2>6. /\ InPool(k)'
        /\ \A k2 \in Jobs \ {k} : InPool(k2)' <=> InPool(k2)
    BY <2>3 DEF InPool
  <2>7. \A k2 \in Jobs, u \in Threads : Claims(u, k2)' <=> Claims(u, k2) /\ u # t
    BY <2>2 DEF Claims, Claimed, ThreadTypeOK
  <2>8. \A k2 \in Jobs \ {k} : ~Claims(t, k2)
    BY <2>1 DEF Claims
  <2>9. \A k2 \in Jobs, w \in Workers : Serves(w, k2)' <=> Serves(w, k2)
    BY <2>2 DEF Serves
  <2>10. NoStrandedQueue'
    BY <2>2, <2>4, <2>6, <2>7, <2>8, <2>9 DEF NoStrandedQueue, Responsible
  <2>11. OneServer'
    BY <2>4, <2>5, <2>6, <2>7, <2>9 DEF OneServer
  <2>. QED  BY <2>10, <2>11
\* A task of the pool becomes a server.
<1>6. ASSUME NEW w \in Workers, TakeTask(w) PROVE NoStrandedQueue' /\ OneServer'
  <2>1. PICK k \in Jobs : k = Head(pool)
    BY <1>6 DEF TakeTask, QueueTypeOK
  <2>2. /\ pool # <<>>
        /\ pool' = Tail(pool)
        /\ UNCHANGED <<req, queue, running>>
        /\ job' = [job EXCEPT ![w] = k]
        /\ job[w] = None
        /\ pc[w] # "schedule" /\ pc'[w] # "schedule"
        /\ \A u \in Threads \ {w} : pc'[u] = pc[u]
    BY <1>6, <2>1 DEF TakeTask, Goto, ControlInv, ThreadTypeOK
  <2>3. Range(pool) = Range(pool') \cup {k}
    BY <2>1, <2>2, TailRange DEF QueueTypeOK
  <2>4. IsInjective(pool') /\ k \notin Range(pool')
    BY <2>1, <2>2, TailRange DEF QueueTypeOK, OneServer
  <2>5. /\ InPool(k) /\ ~InPool(k)'
        /\ \A k2 \in Jobs \ {k} : InPool(k2)' <=> InPool(k2)
    BY <2>3, <2>4 DEF InPool
  <2>6. \A k2 \in Jobs, u \in Threads : Claims(u, k2)' <=> Claims(u, k2)
    BY <2>2 DEF Claims, Claimed, ThreadTypeOK
  <2>7. /\ \A v \in Workers : Serves(v, k)' <=> Serves(v, k) \/ v = w
        /\ \A k2 \in Jobs \ {k} : \A v \in Workers : Serves(v, k2)' <=> Serves(v, k2)
    BY <2>2 DEF Serves, ThreadTypeOK
  <2>8. NoStrandedQueue'
    BY <2>2, <2>5, <2>6, <2>7 DEF NoStrandedQueue, Responsible
  <2>9. OneServer'
    BY <2>4, <2>5, <2>6, <2>7 DEF OneServer
  <2>. QED  BY <2>8, <2>9
\* A server takes an entry: it serves the queue, so the flag is set.
<1>7. ASSUME NEW w \in Workers, PopNext(w, "drain", "exec") \/ PopNext(w, "runq", "task")
      PROVE  NoStrandedQueue' /\ OneServer'
  <2>1. /\ Frame
        /\ queue[job[w]] # <<>>
        /\ queue' = [queue EXCEPT ![job[w]] = Tail(queue[job[w]])]
        /\ pc[w] # "schedule" /\ pc'[w] # "schedule"
        /\ \A u \in Threads \ {w} : pc'[u] = pc[u] /\ req'[u] = req[u]
    BY <1>7 DEF PopNext, Goto, ThreadTypeOK
  <2>2. \A k \in Jobs : queue'[k] # <<>> => queue[k] # <<>>
    BY <2>1 DEF QueueTypeOK
  <2>3. \A k \in Jobs : Same(k)
    BY <2>1 DEF InPool, Claims, Claimed, Serves
  <2>4. IsInjective(pool)' <=> IsInjective(pool)
    BY <2>1
  <2>. HIDE DEF Same
  <2>. QED  BY <2>1, <2>2, <2>3, <2>4 DEF Same, NoStrandedQueue, OneServer, Responsible
\* The only server of an empty queue leaves, and the flag is cleared.
<1>8. ASSUME NEW w \in Workers, LeaveQueue(w, "drain") \/ LeaveQueue(w, "runq")
      PROVE  NoStrandedQueue' /\ OneServer'
  <2>1. PICK k \in Jobs : k = job[w]
    BY <1>8 DEF LeaveQueue, ControlInv
  <2>2. /\ UNCHANGED <<req, pool, queue>>
        /\ queue[k] = <<>>
        /\ running' = [running EXCEPT ![k] = FALSE]
        /\ job' = [job EXCEPT ![w] = None]
        /\ pc[w] # "schedule" /\ pc'[w] # "schedule"
        /\ \A u \in Threads \ {w} : pc'[u] = pc[u]
    BY <1>8, <2>1 DEF LeaveQueue, Goto, ThreadTypeOK
  <2>3. /\ running'[k] = FALSE
        /\ \A k2 \in Jobs \ {k} : running'[k2] = running[k2]
    BY <2>2 DEF QueueTypeOK
  <2>4. /\ \A k2 \in Jobs : InPool(k2)' <=> InPool(k2)
        /\ IsInjective(pool)' <=> IsInjective(pool)
    BY <2>2 DEF InPool
  <2>5. \A k2 \in Jobs, u \in Threads : Claims(u, k2)' <=> Claims(u, k2)
    BY <2>2 DEF Claims, Claimed, ThreadTypeOK
  <2>6. \A k2 \in Jobs, v \in Workers : Serves(v, k2)' <=> Serves(v, k2) /\ v # w
    BY <2>2 DEF Serves, ThreadTypeOK
  <2>7. /\ Serves(w, k)
        /\ \A k2 \in Jobs \ {k} : ~Serves(w, k2)
    BY <2>1 DEF Serves
  <2>8. OneServer'
    BY <2>4, <2>5, <2>6 DEF OneServer
  <2>9. ~Responsible(k)'
    BY <2>4, <2>5, <2>6, <2>7 DEF OneServer, Responsible
  <2>10. NoStrandedQueue'
    BY <2>2, <2>3, <2>4, <2>5, <2>6, <2>7, <2>9 DEF NoStrandedQueue, Responsible
  <2>. QED  BY <2>8, <2>10
<1>9. ASSUME NEW t \in Threads, EmitStep(t) PROVE NoStrandedQueue' /\ OneServer'
  BY <1>1, <1>9
     DEF EmitStep, EmitFinish, StoreReason, FinalChunk, OnFinish, Return, Resume, Goto, ThreadTypeOK
<1>10. ASSUME NEW r \in Requests, ClientStep(r) \/ OnClose(r) PROVE NoStrandedQueue' /\ OneServer'
  BY <1>1, <1>10
     DEF ClientStep, BadRequest, ChatRequest, PeerClose, OnClose, CallEmitFinish, Goto,
         threadVars, ThreadTypeOK
<1>11. ASSUME NEW w \in Workers,
              Execute(w) \/ TaskSkips(w) \/ TaskFails(w) \/ EngineStart(w) \/ EngineStep(w)
       PROVE  NoStrandedQueue' /\ OneServer'
  BY <1>1, <1>11
     DEF Execute, TaskSkips, TaskFails, EngineStart, EngineStep, EngineFinish, EngineReturn,
         Return, Resume, CallEmitFinish, Goto, ThreadTypeOK
<1>12. ASSUME WaitFinishOrCancel \/ UNCHANGED vars PROVE NoStrandedQueue' /\ OneServer'
  BY <1>1, <1>12 DEF WaitFinishOrCancel, CallEmitFinish, Goto, vars, ThreadTypeOK
<1>. QED
  BY <1>3, <1>4, <1>5, <1>6, <1>7, <1>8, <1>9, <1>10, <1>11, <1>12
     DEF Next, WorkerStep, LoopStep, Drain, RunModelQueue, Quiescent

\* Neither executor ever strands a queued request or serves one queue twice over,
\* whatever the number of requests, sessions, models and pool threads.
THEOREM ServiceCorrect == Spec => [](NoStrandedQueue /\ OneServer)
<1>1. Init => NoStrandedQueue /\ OneServer
  <2>1. ASSUME Init PROVE Range(pool) = {} /\ IsInjective(pool)
    BY <2>1 DEF Init, Range, IsInjective
  <2>. QED
    BY <2>1, CoreAssumption
       DEF Init, NoStrandedQueue, OneServer, Responsible, InPool, Claims, Serves, Jobs, Threads
<1>2. TypeOK /\ ControlInv /\ NoStrandedQueue /\ OneServer /\ [Next]_vars
        => (NoStrandedQueue /\ OneServer)'
  BY ServiceStep DEF TypeOK
<1>. QED  BY <1>1, <1>2, TypeCorrect, PTL DEF Spec

-----------------------------------------------------------------------------
(* One engine run per model.                                               *)

\* Every step keeps a model's queue, and the worker serving it, to requests for that
\* model.
LEMMA RoutedStep ==
    ASSUME ThreadTypeOK, QueueTypeOK, ControlInv, RoutedInv, [Next]_vars
    PROVE  RoutedInv'
<1>. USE CoreAssumption DEF Threads, Jobs
\* No model queue gains a request and no worker serving a model takes a new one.
<1>1. ASSUME \A m \in Models : queue'[m] = queue[m],
             \A w \in Workers : \/ job'[w] \notin Models
                                \/ job'[w] = job[w] /\ req'[w] \in {req[w], None}
                                \/ req'[w] = None
      PROVE  RoutedInv'
  BY <1>1 DEF RoutedInv
<1>2. ASSUME NEW w \in Workers, SubmitPerModel(w) PROVE RoutedInv'
  <2>1. /\ req[w] \in Requests
        /\ job[w] \in Sessions
        /\ UNCHANGED job
        /\ \A v \in Workers \ {w} : req'[v] = req[v]
    BY <1>2 DEF SubmitPerModel, CallEmitFinish, Enqueue, Return, ControlInv, ThreadTypeOK
  <2>2. CASE UNCHANGED queue
    BY <1>1, <2>1, <2>2
  <2>3. CASE queue' = [queue EXCEPT ![ModelOf[req[w]]] = Append(@, req[w])]
    <3>1. Range(queue'[ModelOf[req[w]]]) = Range(queue[ModelOf[req[w]]]) \cup {req[w]}
      BY <2>1, <2>3, AppendRange DEF QueueTypeOK
    <3>2. \A m \in Models \ {ModelOf[req[w]]} : queue'[m] = queue[m]
      BY <2>3 DEF QueueTypeOK
    <3>. QED  BY <2>1, <3>1, <3>2 DEF RoutedInv
  <2>. QED  BY <1>2, <2>2, <2>3 DEF SubmitPerModel, Enqueue
<1>3. ASSUME NEW w \in Workers, PopNext(w, "drain", "exec") \/ PopNext(w, "runq", "task")
      PROVE  RoutedInv'
  <2>1. /\ queue[job[w]] # <<>>
        /\ queue' = [queue EXCEPT ![job[w]] = Tail(queue[job[w]])]
        /\ req' = [req EXCEPT ![w] = Head(queue[job[w]])]
        /\ UNCHANGED job
        /\ job[w] \in Jobs
    BY <1>3 DEF PopNext, ControlInv
  <2>2. Range(queue[job[w]]) = Range(Tail(queue[job[w]])) \cup {Head(queue[job[w]])}
    BY <2>1, TailRange DEF QueueTypeOK
  <2>3. /\ queue'[job[w]] = Tail(queue[job[w]])
        /\ \A m \in Jobs \ {job[w]} : queue'[m] = queue[m]
        /\ req'[w] = Head(queue[job[w]])
        /\ \A v \in Workers \ {w} : req'[v] = req[v]
    BY <2>1 DEF QueueTypeOK, ThreadTypeOK
  <2>. QED  BY <2>1, <2>2, <2>3 DEF RoutedInv
<1>4. ASSUME SessionSubmit PROVE RoutedInv'
  BY <1>1, <1>4
     DEF SessionSubmit, CallEmitFinish, Enqueue, Return, QueueTypeOK, ThreadTypeOK, ControlInv
<1>5. ASSUME NEW w \in Workers, TakeTask(w) PROVE RoutedInv'
  BY <1>1, <1>5 DEF TakeTask, ControlInv, ThreadTypeOK
<1>6. ASSUME NEW w \in Workers, LeaveQueue(w, "drain") \/ LeaveQueue(w, "runq") PROVE RoutedInv'
  BY <1>1, <1>6 DEF LeaveQueue, ThreadTypeOK
<1>7. ASSUME NEW t \in Threads, EmitStep(t) \/ Schedule(t) PROVE RoutedInv'
  BY <1>1, <1>7
     DEF EmitStep, EmitFinish, StoreReason, FinalChunk, OnFinish, Schedule, Return, ThreadTypeOK
<1>8. ASSUME NEW r \in Requests, ClientStep(r) \/ OnClose(r) PROVE RoutedInv'
  BY <1>1, <1>8
     DEF ClientStep, BadRequest, ChatRequest, PeerClose, OnClose, threadVars, ThreadTypeOK
<1>9. ASSUME NEW w \in Workers,
             Execute(w) \/ TaskSkips(w) \/ TaskFails(w) \/ EngineStart(w) \/ EngineStep(w)
      PROVE  RoutedInv'
  BY <1>1, <1>9
     DEF Execute, TaskSkips, TaskFails, EngineStart, EngineStep, EngineFinish, EngineReturn,
         Return, ThreadTypeOK
<1>10. ASSUME WaitFinishOrCancel \/ UNCHANGED vars PROVE RoutedInv'
  BY <1>1, <1>10 DEF WaitFinishOrCancel, vars, ThreadTypeOK
<1>. QED
  BY <1>2, <1>3, <1>4, <1>5, <1>6, <1>7, <1>8, <1>9, <1>10
     DEF Next, WorkerStep, LoopStep, Drain, RunModelQueue, Quiescent

\* No two workers are ever inside the same model's engine, although every session's
\* drain may queue work for it at any time.
THEOREM EngineRunsAlone == Spec => []EngineExclusive
<1>1. Init => RoutedInv
  BY CoreAssumption DEF Init, RoutedInv, Range, Threads, Jobs
<1>2. TypeOK /\ ControlInv /\ RoutedInv /\ [Next]_vars => RoutedInv'
  BY RoutedStep DEF TypeOK
<1>3. TypeOK /\ ControlInv /\ OneServer /\ RoutedInv => EngineExclusive
  BY CoreAssumption
     DEF TypeOK, ThreadTypeOK, ControlInv, OneServer, RoutedInv, EngineExclusive, Serves, Jobs,
         Threads
<1>. QED  BY <1>1, <1>2, <1>3, TypeCorrect, ServiceCorrect, PTL DEF Spec

-----------------------------------------------------------------------------
(* One finish per request.                                                 *)

\* Every step keeps on_finish owed by exactly the thread that won the exchange.
LEMMA FinishStep ==
    ASSUME ThreadTypeOK, ContextTypeOK, ControlInv, FinishInv, [Next]_vars
    PROVE  FinishInv'
<1>. USE CoreAssumption DEF Threads
<1>1. ASSUME UNCHANGED <<finished, done>>,
             \A t \in Threads, r \in Requests : Finishing(t, r)' => Finishing(t, r)
      PROVE  FinishInv'
  BY <1>1 DEF FinishInv
<1>2. ASSUME NEW t \in Threads, EmitFinish(t) PROVE FinishInv'
  <2>1. /\ req[t] \in Requests
        /\ finished' = [finished EXCEPT ![req[t]] = TRUE]
        /\ UNCHANGED done
        /\ \A u \in Threads \ {t} : pc'[u] = pc[u] /\ req'[u] = req[u]
    BY <1>2 DEF EmitFinish, Return, Goto, ControlInv, outVars, ThreadTypeOK
  <2>2. CASE finished[req[t]]
    <3>1. UNCHANGED finished
      BY <2>1, <2>2 DEF ContextTypeOK
    <3>2. pc'[t] \notin {"reason", "chunk", "onfinish"}
      BY <1>2, <2>2 DEF EmitFinish, Return, Resume, Goto, ThreadTypeOK
    <3>. QED  BY <1>1, <2>1, <3>1, <3>2 DEF Finishing
  <2>3. CASE ~finished[req[t]]
    <3>1. req' = req /\ pc[t] = "emit"
      BY <1>2, <2>3 DEF EmitFinish
    <3>2. \A u \in Threads, r \in Requests :
             Finishing(u, r)' => Finishing(u, r) \/ (u = t /\ r = req[t])
      BY <2>1, <3>1 DEF Finishing
    <3>3. \A u \in Threads : ~Finishing(u, req[t])
      BY <2>1, <2>3 DEF FinishInv
    <3>4. done[req[t]] = 0
      BY <2>1, <2>3 DEF FinishInv
    <3>5. \A r \in Requests : finished'[r] <=> finished[r] \/ r = req[t]
      BY <2>1 DEF ContextTypeOK
    <3>. QED  BY <2>1, <3>2, <3>3, <3>4, <3>5 DEF FinishInv
  <2>. QED  BY <2>2, <2>3
<1>3. ASSUME NEW t \in Threads, StoreReason(t) \/ FinalChunk(t) PROVE FinishInv'
  BY <1>1, <1>3 DEF StoreReason, FinalChunk, Goto, Finishing, outVars, ThreadTypeOK
<1>4. ASSUME NEW t \in Threads, OnFinish(t) PROVE FinishInv'
  <2>5. req[t] \in Requests
    BY <1>4 DEF OnFinish, ControlInv, ThreadTypeOK
  <2>1. /\ done' = [done EXCEPT ![req[t]] = done[req[t]] + 1]
        /\ UNCHANGED finished
        /\ \A u \in Threads \ {t} : pc'[u] = pc[u] /\ req'[u] = req[u]
        /\ pc'[t] \notin {"reason", "chunk", "onfinish"}
    BY <1>4 DEF OnFinish, Return, Resume, Goto, ctxVars, ThreadTypeOK
  <2>2. Finishing(t, req[t])
    BY <1>4 DEF OnFinish, Finishing
  <2>3. \A u \in Threads, r \in Requests : Finishing(u, r)' => Finishing(u, r) /\ u # t
    BY <2>1 DEF Finishing
  <2>4. /\ done'[req[t]] = 1
        /\ \A r \in Requests \ {req[t]} : done'[r] = done[r]
    BY <2>5, <2>1, <2>2 DEF FinishInv, ContextTypeOK
  <2>. QED  BY <2>5, <2>1, <2>2, <2>3, <2>4 DEF FinishInv
<1>5. ASSUME NEW w \in Workers, PopNext(w, "drain", "exec") \/ PopNext(w, "runq", "task")
      PROVE  FinishInv'
  BY <1>1, <1>5 DEF PopNext, Goto, Finishing, ctxVars, outVars, ThreadTypeOK
<1>6. ASSUME NEW w \in Workers,
             TakeTask(w) \/ LeaveQueue(w, "drain") \/ LeaveQueue(w, "runq") \/ SubmitPerModel(w)
      PROVE  FinishInv'
  BY <1>1, <1>6
     DEF TakeTask, LeaveQueue, SubmitPerModel, CallEmitFinish, Enqueue, Return, Resume, Goto,
         Finishing, ctxVars, outVars, ThreadTypeOK
<1>7. ASSUME NEW w \in Workers,
             Execute(w) \/ TaskSkips(w) \/ TaskFails(w) \/ EngineStart(w) \/ EngineStep(w)
      PROVE  FinishInv'
  BY <1>1, <1>7
     DEF Execute, TaskSkips, TaskFails, EngineStart, EngineStep, EngineFinish, EngineReturn,
         CallEmitFinish, Return, Resume, Goto, Finishing, ctxVars, outVars, ThreadTypeOK
<1>8. ASSUME NEW t \in Threads, Schedule(t) PROVE FinishInv'
  BY <1>1, <1>8
     DEF Schedule, Return, Resume, Goto, Finishing, ctxVars, outVars, ThreadTypeOK
<1>9. ASSUME NEW r \in Requests, ClientStep(r) \/ OnClose(r) PROVE FinishInv'
  BY <1>1, <1>9
     DEF ClientStep, BadRequest, ChatRequest, PeerClose, OnClose, CallEmitFinish, Goto, Finishing,
         threadVars, ctxVars, outVars, ThreadTypeOK
<1>10. ASSUME SessionSubmit \/ WaitFinishOrCancel PROVE FinishInv'
  BY <1>1, <1>10
     DEF SessionSubmit, WaitFinishOrCancel, CallEmitFinish, Enqueue, Return, Resume, Goto,
         Finishing, outVars, ThreadTypeOK
<1>11. CASE UNCHANGED vars
  BY <1>1, <1>11 DEF vars, Finishing
<1>. QED
  BY <1>2, <1>3, <1>4, <1>5, <1>6, <1>7, <1>8, <1>9, <1>10, <1>11
     DEF Next, WorkerStep, LoopStep, EmitStep, Drain, RunModelQueue, Quiescent

\* on_finish runs at most once for a request, whoever races to finish it.
THEOREM FinishesOnce == Spec => []FinishOnce
<1>1. Init => FinishInv
  BY CoreAssumption DEF Init, FinishInv, Finishing, Threads
<1>2. TypeOK /\ ControlInv /\ FinishInv /\ [Next]_vars => FinishInv'
  BY FinishStep DEF TypeOK
<1>3. FinishInv => FinishOnce
  BY DEF FinishInv, FinishOnce
<1>. QED  BY <1>1, <1>2, <1>3, TypeCorrect, PTL DEF Spec

-----------------------------------------------------------------------------
(* Both executors are bounded serial FIFOs.                                *)

\* Every step is a step of SerialExecutors or leaves its variables alone.
LEMMA SerialStep ==
    ASSUME ThreadTypeOK, QueueTypeOK, ControlInv, OneServer, OneServer', [Next]_vars
    PROVE  [Serial!Next]_(Serial!vars)
<1>. DEFINE Cur == [k \in Jobs |-> Current(k)]
            Cap == [k \in Jobs |-> IF k \in Sessions THEN MaxPending ELSE MaxModelQueue]
<1>. USE CoreAssumption DEF Threads, Jobs
\* What is in service at a queue is what its only server holds.
<1>1. /\ \A k \in Jobs, w \in Workers :
            Serves(w, k) => Current(k) = IF req[w] = None THEN {} ELSE {req[w]}
      /\ \A k \in Jobs : (\A w \in Workers : ~Serves(w, k)) => Current(k) = {}
  BY DEF Current, OneServer
<1>2. /\ \A k \in Jobs, w \in Workers :
            Serves(w, k)' => Current(k)' = IF req'[w] = None THEN {} ELSE {req'[w]}
      /\ \A k \in Jobs : (\A w \in Workers : ~Serves(w, k)') => Current(k)' = {}
  BY DEF Current, OneServer
\* Stuttering: no queue changes and no worker takes or drops a request.
<1>3. ASSUME UNCHANGED queue, \A k \in Jobs : Current(k)' = Current(k)
      PROVE  UNCHANGED Serial!vars
  BY <1>3 DEF Serial!vars
<1>4. ASSUME \A w \in Workers : job'[w] = job[w] /\ req'[w] = req[w]
      PROVE  \A k \in Jobs : Current(k)' = Current(k)
  BY <1>4 DEF Current, Serves
\* A worker is through with its request.
<1>5. ASSUME NEW w \in Workers, UNCHANGED job, job[w] # None, req[w] \in Requests, req'[w] = None,
             \A v \in Workers \ {w} : req'[v] = req[v]
      PROVE  /\ Current(job[w]) = {req[w]}
             /\ Cur' = [Cur EXCEPT ![job[w]] = {}]
  <2>1. PICK k \in Jobs : k = job[w]
    BY <1>5 DEF ThreadTypeOK
  <2>2. Current(k) = {req[w]} /\ Current(k)' = {}
    BY <1>1, <1>2, <1>5, <2>1 DEF Serves
  <2>3. ASSUME NEW k2 \in Jobs, k2 # k PROVE Current(k2)' = Current(k2)
    BY <1>5, <2>1, <2>3 DEF Current, Serves
  <2>. QED  BY <2>1, <2>2, <2>3
<1>6. ASSUME NEW w \in Workers, Return(w), UNCHANGED <<job, queue>>, req[w] # None
      PROVE  Serial!Next
  <2>1. /\ req[w] \in Requests /\ req'[w] = None
        /\ \A v \in Workers \ {w} : req'[v] = req[v]
        /\ job[w] \in Jobs
    BY <1>6 DEF Return, Resume, ThreadTypeOK, ControlInv
  <2>2. job[w] # None
    BY <2>1
  <2>3. Current(job[w]) = {req[w]} /\ Cur' = [Cur EXCEPT ![job[w]] = {}]
    BY <1>5, <1>6, <2>1, <2>2
  <2>4. Cur[job[w]] # {}
    BY <2>1, <2>3
  <2>5. Serial!Leave(job[w])
    BY <1>6, <2>3, <2>4 DEF Serial!Leave, Serial!Complete
  <2>. QED  BY <2>1, <2>5 DEF Serial!Next
<1>7. ASSUME NEW k \in Jobs, NEW r \in Requests,
             queue' = [queue EXCEPT ![k] = Append(@, r)], Len(queue[k]) < Cap[k]
      PROVE  Serial!Submit(k, r)
  BY <1>7 DEF Serial!Submit
<1>8. ASSUME SessionSubmit PROVE [Serial!Next]_(Serial!vars)
  <2>1. /\ req[Loop] \in Requests
        /\ \A w \in Workers : job'[w] = job[w] /\ req'[w] = req[w]
    BY <1>8 DEF SessionSubmit, CallEmitFinish, Enqueue, Return, ControlInv, ThreadTypeOK
  <2>2. PICK s \in Sessions : s = SessionOf[req[Loop]]
    BY <2>1
  <2>3. CASE Len(queue[s]) >= MaxPending
    BY <1>3, <1>4, <1>8, <2>1, <2>2, <2>3 DEF SessionSubmit
  <2>4. CASE ~(Len(queue[s]) >= MaxPending)
    <3>1. Len(queue[s]) < Cap[s]
      BY <2>4 DEF QueueTypeOK
    <3>2. queue' = [queue EXCEPT ![s] = Append(@, req[Loop])]
      BY <1>8, <2>2, <2>4 DEF SessionSubmit, Enqueue
    <3>3. Serial!Arrive(s)
      BY <1>4, <1>7, <2>1, <3>1, <3>2 DEF Serial!Arrive
    <3>. QED  BY <3>3 DEF Serial!Next
  <2>. QED  BY <2>3, <2>4
<1>9. ASSUME NEW w \in Workers, SubmitPerModel(w) PROVE [Serial!Next]_(Serial!vars)
  <2>1. /\ req[w] \in Requests
        /\ UNCHANGED job
        /\ job[w] \in Sessions
        /\ \A v \in Workers \ {w} : req'[v] = req[v]
    BY <1>9 DEF SubmitPerModel, CallEmitFinish, Enqueue, Return, ControlInv, ThreadTypeOK
  <2>2. PICK m \in Models : m = ModelOf[req[w]]
    BY <2>1
  <2>3. CASE Len(queue[m]) >= MaxModelQueue
    BY <1>3, <1>4, <1>9, <2>1, <2>2, <2>3 DEF SubmitPerModel
  <2>4. CASE ~(Len(queue[m]) >= MaxModelQueue)
    <3>1. Len(queue[m]) < Cap[m]
      BY <2>4 DEF QueueTypeOK
    <3>2. queue' = [queue EXCEPT ![m] = Append(@, req[w])]
      BY <1>9, <2>2, <2>4 DEF SubmitPerModel, Enqueue
    <3>3. Serial!Submit(m, req[w])
      BY <1>7, <2>1, <3>1, <3>2
    <3>4. CASE running[m]
      <4>1. req'[w] = None
        BY <1>9, <2>1, <2>2, <2>4, <3>4 DEF SubmitPerModel, Enqueue, Return, Resume, ThreadTypeOK
      <4>2. Serial!Complete(job[w]) /\ req[w] \in Current(job[w])
        <5>1. job[w] # None
          BY <2>1
        <5>2. Current(job[w]) = {req[w]} /\ Cur' = [Cur EXCEPT ![job[w]] = {}]
          BY <1>5, <2>1, <4>1, <5>1
        <5>. QED  BY <2>1, <5>2 DEF Serial!Complete
      <4>3. Serial!HandOver(job[w])
        BY <2>1, <3>3, <4>2 DEF Serial!HandOver
      <4>. QED  BY <2>1, <4>3 DEF Serial!Next
    <3>5. CASE ~running[m]
      <4>1. req' = req
        BY <1>9, <2>2, <2>4, <3>5 DEF SubmitPerModel, Enqueue
      <4>2. Serial!Arrive(m)
        BY <1>4, <2>1, <3>3, <4>1 DEF Serial!Arrive
      <4>. QED  BY <4>2 DEF Serial!Next
    <3>. QED  BY <3>4, <3>5
  <2>. QED  BY <2>3, <2>4
<1>10. ASSUME NEW w \in Workers, PopNext(w, "drain", "exec") \/ PopNext(w, "runq", "task")
       PROVE  Serial!Next
  <2>1. PICK k \in Jobs : k = job[w]
    BY <1>10 DEF PopNext, ControlInv
  <2>2. /\ queue[k] # <<>>
        /\ queue' = [queue EXCEPT ![k] = Tail(queue[k])]
        /\ req' = [req EXCEPT ![w] = Head(queue[k])]
        /\ req[w] = None
        /\ UNCHANGED job
    BY <1>10, <2>1 DEF PopNext, ControlInv
  <2>3. Head(queue[k]) \in Requests
    BY <2>2 DEF QueueTypeOK
  <2>4. Current(k) = {} /\ Current(k)' = {Head(queue[k])}
    BY <1>1, <1>2, <2>1, <2>2, <2>3 DEF Serves, ThreadTypeOK
  <2>5. ASSUME NEW k2 \in Jobs, k2 # k PROVE Current(k2)' = Current(k2)
    BY <2>1, <2>2, <2>5 DEF Current, Serves, ThreadTypeOK
  <2>6. Serial!Start(k)
    BY <2>2, <2>4, <2>5 DEF Serial!Start
  <2>. QED  BY <2>6 DEF Serial!Next
\* A worker without a request takes or leaves a queue.
<1>11. ASSUME NEW w \in Workers,
              TakeTask(w) \/ LeaveQueue(w, "drain") \/ LeaveQueue(w, "runq")
       PROVE  UNCHANGED Serial!vars
  <2>1. /\ UNCHANGED <<req, queue>>
        /\ req[w] = None
        /\ \A v \in Workers \ {w} : job'[v] = job[v]
    BY <1>11 DEF TakeTask, LeaveQueue, ControlInv, ThreadTypeOK
  <2>2. \A k \in Jobs : Current(k)' = Current(k)
    BY <2>1 DEF Current, Serves
  <2>. QED  BY <1>3, <2>1, <2>2
<1>12. ASSUME NEW t \in Threads, Schedule(t) \/ EmitStep(t) PROVE [Serial!Next]_(Serial!vars)
  <2>1. UNCHANGED <<job, queue>>
    BY <1>12 DEF Schedule, EmitStep, EmitFinish, StoreReason, FinalChunk, OnFinish
  <2>2. CASE req' = req
    BY <1>3, <1>4, <2>1, <2>2
  <2>3. CASE Return(t) /\ t = Loop
    <3>1. \A w \in Workers : req'[w] = req[w]
      BY <2>3 DEF Return, ThreadTypeOK
    <3>. QED  BY <1>3, <1>4, <2>1, <3>1
  <2>4. CASE Return(t) /\ t # Loop
    <3>1. req[t] # None
      BY <1>12, <2>4
         DEF Schedule, EmitStep, EmitFinish, StoreReason, FinalChunk, OnFinish, ControlInv
    <3>. QED  BY <1>6, <2>1, <2>4, <3>1
  <2>. QED
    BY <1>12, <2>2, <2>3, <2>4 DEF Schedule, EmitStep, EmitFinish, StoreReason, FinalChunk, OnFinish
<1>13. ASSUME NEW w \in Workers,
              Execute(w) \/ TaskSkips(w) \/ TaskFails(w) \/ EngineStart(w) \/ EngineStep(w)
       PROVE  [Serial!Next]_(Serial!vars)
  <2>1. UNCHANGED <<job, queue>> /\ req[w] # None
    BY <1>13 DEF Execute, TaskSkips, TaskFails, EngineStart, EngineStep, EngineFinish, EngineReturn,
                 ControlInv
  <2>2. CASE req' = req
    BY <1>3, <1>4, <2>1, <2>2
  <2>3. CASE Return(w)
    BY <1>6, <2>1, <2>3
  <2>. QED
    BY <1>13, <2>2, <2>3
       DEF Execute, TaskSkips, TaskFails, EngineStart, EngineStep, EngineFinish, EngineReturn
<1>14. ASSUME NEW r \in Requests, ClientStep(r) \/ OnClose(r) PROVE UNCHANGED Serial!vars
  <2>1. UNCHANGED queue /\ \A w \in Workers : job'[w] = job[w] /\ req'[w] = req[w]
    BY <1>14 DEF ClientStep, BadRequest, ChatRequest, PeerClose, OnClose, threadVars, ThreadTypeOK
  <2>. QED  BY <1>3, <1>4, <2>1
<1>15. ASSUME WaitFinishOrCancel \/ UNCHANGED vars PROVE UNCHANGED Serial!vars
  <2>1. UNCHANGED queue /\ \A w \in Workers : job'[w] = job[w] /\ req'[w] = req[w]
    BY <1>15 DEF WaitFinishOrCancel, vars, ThreadTypeOK
  <2>. QED  BY <1>3, <1>4, <2>1
<1>. QED
  BY <1>8, <1>9, <1>10, <1>11, <1>12, <1>13, <1>14, <1>15
     DEF Next, WorkerStep, LoopStep, Drain, RunModelQueue, Quiescent

\* The running flags, the pool and the mutexes of SessionExecutor and EngineExecutor
\* implement one bounded FIFO per session and per model with one request in service.
THEOREM ImplementsSerial == Spec => SerialSafeSpec
<1>1. Init => Serial!Init
  BY CoreAssumption DEF Init, Serial!Init, Current, Serves, Jobs, Threads
<1>2. TypeOK /\ ControlInv /\ OneServer /\ OneServer' /\ [Next]_vars => [Serial!Next]_(Serial!vars)
  BY SerialStep DEF TypeOK
<1>. QED  BY <1>1, <1>2, TypeCorrect, ServiceCorrect, PTL DEF Spec, SerialSafeSpec, Serial!SafeSpec

=============================================================================
