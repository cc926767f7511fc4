# A TLA+ verification of llm_MultimodalServer

The repository has two programs that hardly share code: an OpenAI-compatible
inference gateway (`serving/`, `engine/`) on a small reactor library (`network/`), and
a unit manager with ZeroMQ units (`unit-manager/`, `infra-controller/`,
`hybrid-comm/`, `node/`). This directory models both: the gateway's serving core, its
session table, its conversation state, its HTTP side on the reactor, and the unit
manager with a node. TLC checks the models on small instances; TLAPS proves nearly all of
their safety properties for every instance.

## 1. Inventory

| Component | State | Operations | Talks to | Hard behaviour |
|---|---|---|---|---|
| `ThreadPool` | FIFO of closures `q_` | `Submit`, `WorkerLoop` | run by its workers for both executors | two kinds of task share the workers |
| `SessionExecutor` | `Session::pending`, `Session::running` | `Submit`, `Drain` | pool; calls `EngineExecutor::Execute` | empty-check against push; bounded queue |
| `EngineExecutor` | per model: `tasks`, `running`; engine cache | `Execute`, `SubmitPerModel`, `RunModelQueue` | pool, `EngineFactory`, `ModelEngine::Run` | same race again, refusal on a worker, queue timeout |
| `ServingContext` | `cancelled`, `finished`, `finish_reason`, error fields, `final_text` | `EmitDelta`, `EmitFinish`, `WaitFinishOrCancel` | read and written by loop thread, workers, engine | four parties race to finish it once |
| `HttpGateway` | `in_flight_`, counters, the `SessionManager` | chat handlers, `on_chunk`, `on_finish`, `on_close` | everything above | a non-stream handler blocks the only loop thread |
| `SessionManager` | `map_`, `lru_` | `getOrCreate`, `get`, `touch`, `close`, `gc`, `evictIfNeeded_` | handlers and the GC thread under `mu_`; `Session::touch` outside it | iterator across an erase; a session evicted while in use |
| `Session` conversation | `history`, `model_ctx` | auto-diff, history update | handlers (loop thread) and engine (worker) | history read on arrival, used after other requests have run |
| `LlamaEngine`, `ModelContext` | KV cache, `n_past` | `EnsureContext`, prefill, generation loop | `ServingContext` | cancellation between decode and emit; context rebuilt when nearly full |
| `DummyEngine`, `EngineFactory` | engine cache | `Run`, `Create` | `EngineExecutor` | creation may fail |
| HTTP server and responses | header/end flags, `on_close` | `onMessage`, `Write`, `End`, `SetOnClose` | gateway, `TcpConnection` | writes from workers, close from the loop |
| `network/` | functor queue, connection states, output buffer | `runInLoop`, `send`, `shutdown`, `handleClose` | HTTP server, unit manager | cross-thread wakeup, lifetime of a connection |
| `unit-manager/` | units, ports 5010-5555, one bus per TCP client | `sys_allocate_unit`, `sys_release_unit`, RPCs | units over ZeroMQ | port exhaustion, release against use |
| `StackFlow`, `pzmq` | event queue, task channels, RPC table | `setup`, `exit`, `link`, RPC call | unit manager, other units | RPC timeout, unregister while called |

What makes each part correct:

* **Executors.** A queued request always has someone bound to serve it; nobody serves a
  queue twice; requests of one session and model reach the engine in order; a refused
  request is told so and not lost.
* **Context.** `on_finish` runs exactly once; the outcome does not change afterwards;
  the answer's status agrees with the outcome; the gauge is exact.
* **Session table.** Both containers describe the same table; the size is bounded; the
  session just handed out is in it; an eviction takes the session nobody has asked for
  longest; only idle sessions are collected; a collection ends.
* **Conversation.** A reply is generated from what the client sent and nothing else;
  the history is one finished request's transcript; a cache has one writer.
* **Reactor and HTTP.** A functor queued from another thread is not left waiting; bytes
  leave in the order they were written; the write side is shut after the last byte; a
  connection is removed once; a client that stays gets its whole answer.
* **Unit manager.** No port is held twice and a released unit's ports come back; manager
  and node agree on the units; a unit outlives its task; an answer goes to the client that
  asked; every action is answered, unless a process ends over it.

`PROJECT.json` lists the components with what is left out of each, and the hazards,
each at its line with the properties that would catch it going wrong.

## 2. Modules

| Module | What it is |
|---|---|
| `SerialExecutors` | abstract specification: per key a bounded FIFO and at most one item in service |
| `ServingCore` | `ThreadPool`, both executors, `ServingContext`, the chat handlers and their close callbacks |
| `ServingCore_proofs` | theorems about its queues, engines and finishing, and the refinement |
| `ServingRequest_proofs` | extends it: theorems about where a request is and what comes of it |
| `SessionManager` | the session table and the GC thread |
| `SessionManager_proofs` | the theorems about it |
| `ChatSession` | history, auto-diff, KV cache and `LlamaEngine::Run` for one session |
| `ChatSession_proofs` | the theorems about it |
| `EventLoop` | the loop's own steps as operators: poll, events, functors, wakeup |
| `TcpServer` | extends it: `TcpConnection`, `TcpServer`, `Poller`, and the kernel's socket |
| `HttpServer` | extends that: framing, responses, stream sessions, the chunk writer, workers and clients |
| `HttpConnection_proofs` | theorems about the loop's wakeup, connections, their output and the cancelling of streams |
| `HttpResponse_proofs` | extends it: theorems about what a client receives and the text of a stream's chunks |
| `UnitManager` | the manager's IO and sys threads, the node's event loop and unit threads, ZeroMQ between them |
| `UnitManager_proofs` | the theorem about the deletion of units |
| `UnitAgreement_proofs` | extends it: theorems about types, ports, units, limits and answers |
| `MC*` and `*.cfg` | the instances TLC checks |

Operators introduced by a comment "Mutant: ..." stand just before the definition they
are a broken version of. Nothing uses them: they are the bugs the properties have been
tried against, one for each property of each passing run (`PROJECT.json`, "mutants").

### ServingCore

Each thread has a program counter `pc`, the request `req` whose context it works on and,
if it is a worker, the queue (`job`) it serves. The atomic steps are the code's critical
sections and its single accesses to atomics:

* A chat handler is `ChatRequest` (parse, count in, install callbacks), `SessionSubmit`
  (the critical section of `SessionExecutor::Submit` and the handler's reaction to a
  full queue), `Schedule` (the `ThreadPool::Submit` after the unlock) and, for a
  non-stream request, `WaitFinishOrCancel`. `BadRequest` is a body that is refused.
* A worker takes a task (`TakeTask`), loops in `Drain` or `RunModelQueue`
  (`PopNext`/`LeaveQueue`, each under the queue's mutex), and for an entry of a session
  runs `Execute` and `SubmitPerModel`, for an entry of a model `TaskSkips`, `TaskFails`
  or `EngineStart` and then `EngineFinish` or `EngineReturn`.
* `EmitFinish` is four steps on whichever thread called it: the exchange of `finished`,
  `StoreReason`, for a stream `FinalChunk`, and `OnFinish`. The order in the code is
  exchange first, reason second, and a waiter may be released between them.
* A connection is `new`, `up`, `hup` (the peer has gone and the loop does not know) or
  `down`. `OnClose` needs the loop thread to be idle: the server has one IO thread, and
  a non-stream handler blocks it. This one fact shapes most interleavings.

`Sessions` here are Session objects, so an eviction that makes a second object for the
same id is simply another element. How long a queue wait or a generation lasts is left
open: `TaskFails` and `EngineFinish` are nondeterministic.

### SerialExecutors, and the refinement

`Serial == INSTANCE SerialExecutors` maps a key to a session or a model, its waiting
items to `queue[k]` and its item in service to the set `Current(k)` of requests held by
workers that serve `k`. That the set is never larger than one is a consequence of
`OneServer`, not of the mapping. A drain that queues its request with a model whose flag
is up maps to `HandOver`; if it claims the flag instead, the push maps to `Arrive` and the
later `Schedule` to `Leave`. `TakeTask`, `LeaveQueue` and the loop thread's `Schedule` are
stutters: the abstract executor has neither pool nor flags.

### SessionManager

A Session object is named after the request that created it, so two objects of one id
can be told apart; `holder[r]` is the reference a request's context keeps. `gc` is
modelled with the C++ reverse iterator it uses: `it` is the iterator's base, `Deref` the
element before it. `gcVisit` is `it++`, which makes the node about to be erased the
base; `gcErase` frees it; `gcStale` is the next `*it` on the freed node. Reading it is
undefined behaviour, modelled as the outcomes a build can produce: the freed node still
has its links and the walk goes on from the back of the list, or the process dies
(`crashed`).

`onFinish` touches the Session without `moveToFront_`. So `lru_` is not ordered by
`last_active`, and `gc`, which stops at the first fresh entry from the back, may leave
idle sessions behind a fresh one until a later round. `used` records when the table was
last asked for an object; `OrderedByUse` says that this is the order of `lru_`.

### ChatSession

One session, whose requests are served one at a time (as the core's refinement says for
one model) while others arrive. A message is a role, its request and its pieces; a
cache is a sequence of messages whose last one is the reply being generated. A context
is named after the request whose run created it, so the context a request got from
`EnsureContext` (`mc[r]`) and the session's current one can differ. `seen[r]` is what
the client received and `talks` the transcripts it may go on from.

`clean` records whether something has put history and cache apart: a request arriving
while another is unfinished, an abort after the prefill, a context rebuilt or lost
under a non-empty history, a token in the cache whose piece was never emitted, because a
cancellation came in between or because `token_to_piece` returns an empty string for it
(`LlamaEngine.cc:142`). The property `GeneratesFromClient` says that this list is complete.

External and abstracted: chat templates are taken to be compositional (the delta prompt
is the rendering of the delta), the tokenizer and the sampler are choices, one message
and one piece count as one token each. The end-of-generation token, which is sampled
and never decoded, is not in the cache, as in the code.

### EventLoop, TcpServer, HttpServer

The three modules are layers: the lower two give operators and leave to the layer above
what a message, a functor and a closed connection mean; `HttpServer` has the actions.

* The loop's thread is in `poll`, in `events` (one callback of one channel at a time) or
  in `functors`; `waiting` is the request it waits for inside a non-stream handler, and
  nothing of the loop moves meanwhile. `queueInLoop` of a worker is two steps, the push
  and the wakeup.
* `sendInLoop` writes directly when no output waits; the kernel takes some prefix while it
  has room. A client that has closed gets nothing, and a write to it may end the process:
  the program does not ignore SIGPIPE (`killed`).
* A response is a sequence of items (header, opening comment, chunks, finish, `[DONE]`).
  `told[r]` is what was written for a request, `wire[c]` what the kernel took. Text is a
  sequence of byte classes, so that `split_utf8_prefix` does what the code does: keep an
  incomplete character, replace an invalid byte. The bytes that the last call flushes are
  computed and then left out of the finish chunk, as in the code.
* A connection may carry a second request. It replaces `context` (the close callback) of
  the first, and its answer may shut the connection under a stream. A request without a
  Content-Length swallows everything that has arrived.
* What happens between `Submit` and the first token is `ServingCore`'s subject; here a
  request is accepted or refused and then run by a worker.

### UnitManager

* An IO thread holds `unit_action_match_mtx` while it matches a message: `Refuse`,
  `Ignore` (an action the unit does not have: the answer "NotAction" is dropped),
  `RemoteCall` (the node's RPC thread only queues an event), or `Lookup` and `Publish`, the
  two halves of `zmq_bus_publisher_push` with the pointer in `holds` between them. `Throw` is
  a message with an empty work id or action, which ends the manager.
* The sys thread takes `calls` in order: `AllocateUnit`, and for a release `DeleteUnit` and
  `EraseUnit`, between which the key leads to a freed object. A client may address the unit
  `sys` and call `register_unit` itself (`AllocateStray`): the unit is in the table, under a
  key that nobody names (`"stray"`).
* The node's event loop takes an event (`TakeEvent`), answers (`Tell`), sets up
  (`Registered`) or exits (`ExitTask`, then `Released`), with blocking calls to the manager
  between the steps. A call that reaches its limit (`TimesOut`) leaves an entry in `calls`
  that is served later for nobody; a register call without an answer ends the node's
  process, because the empty answer is parsed as a number.
* No error of the node is ever sent. `StackFlow::send` takes the error as a string, the node
  passes a json object, and the conversion throws (`utils/json.hpp:4725`) on a thread where
  nothing catches it. `SendError` is therefore the end of the process: at every pause, at
  the exit or taskinfo of a unit without a task (`TellError`), at a setup that is refused or
  fails (`SetupRefused`, so the release after it in `StackFlow::setup` is never reached) and
  at an inference whose data is refused. Whether the data of a setup or an inference is
  good is left open, so every one of them may take this way.
* A unit's thread joins the bus, takes an inference, points the channel's one push url at
  the sender and sends its messages, or keeps a part of a stream, or meets bad data.
* External: a PUB socket drops what no subscriber has joined for; closing a socket with a
  queued message for a peer that has gone never returns (libzmq's default linger, which
  pzmq does not change). The states `"stuck"`, `owed` and a run at 0 are threads or sockets
  in that situation.

Undefined behaviour is a choice: a send through a deleted unit is lost or ends the
manager (`Publish`); a port from a full list is any number (`FirstFree`), and its release
may end the manager; replacing or clearing a socket under a thread that uses it may end
the node (`TakeEvent`, `ExitRaces`).

## 3. Runs

| Run | Instance | Shows |
|---|---|---|
| `core` | 3 requests, 2 sessions, 1 model, 2 workers, session queue 2, model queue 1 | all safety properties of the core, and the refinement |
| `core_live` | 2 requests of one session, queues of 1, with fairness | every request ends and is answered; accepted entries are served |
| `core_close` | the same, engine not fair | violated: a client's leaving does not wake a non-stream handler |
| `core_reason` | the same | violated: the answer may carry the default reason |
| `core_mixed` | 2 requests of one session for 2 models | violated: both run at once |
| `sessions` | 4 requests, 3 ids, table of 2, batch of 2, clock 0..2 | table consistent, bounded, in the order of use, fair to newcomers and fresh sessions; a dropped session stays out; `gc` ends |
| `sessions_iterator` | the same | violated: `gc` goes on with an iterator to an erased node |
| `chat` | 3 requests (2 streams), 2 pieces, queue of 1, context full at 5 | reply generated from the client's messages; history of one request; one writer per cache |
| `chat_abort` | the same | violated: an aborted request stays in the cache |
| `chat_turn` | the same | violated: a turn after a stream is not prefilled as a delta |
| `http` | one connection, a stream in two pieces and a non-stream request after it, two bytes of text | order and completeness of what reaches the client, wakeups, cancellation, removal of the connection |
| `units` | 2 clients with scripts of 4 and 8 messages, 5 ports, 3 work ids, task limit 1, one time limit reached, one client may leave | ports, units, routing and limits agree; every setup, exit and taskinfo is answered unless a process ends |

The six violated runs each state a comment of the code and show an execution that
contradicts it; `PROJECT.json` ("findings") quotes the comment and the line.

### Properties

* `NoStrandedQueue`, `OneServer`: no lost wakeup and no double service. The race is
  between `Drain` finding its queue empty and `Submit` finding the flag still set.
* `NotLost`: a request is always in a queue or in the hands of a thread.
* `FinishOnce`, `OutcomeSettled`, `InFlightExact`, `ErrorStatus`: the context's promises.
* `EngineExclusive`: an engine has one KV cache and no lock; two workers never run it.
* `OrderKept`: order survives two queues and the worker that carries from one to the other.
* `SerialSafeSpec`, `SerialSpec`: both executors implement `SerialExecutors`, without
  and with its fairness.
* `EveryRequestEnds`: with the loop thread blocked by one request, the others still end.
* `TableAgrees`, `SizeBounded`, `NewcomerStays`, `GcSparesFresh`, `GcReleasesLock`.
* `OrderedByUse`: `lru_` is in the order in which sessions were asked for, which is what
  eviction needs. It is not the order of `last_active`. `DroppedStaysOut`: a request that
  still holds an evicted or collected session does not bring it back.
* `GeneratesFromClient`, `HistoryOfOneRequest`, `CacheNotShared`.
* `NoLostWakeup`: the loop does not block over a queued functor. Emptying the eventfd
  after the swap, or waking only a loop that runs functors, breaks it.
* `WireIsPrefix`, `NothingAfterFin`, `AnswerDelivered`: what a client receives is in order
  and without gaps, ends with the end of the stream, and is complete if the client stays,
  for a first request that is refused, answered at once or run by a worker. A stream
  refused after its 200 header is told so inside the stream.
* `ChunksAreText`: however the engine cuts its output, the chunks joined are its
  characters; `MCHttpServer` also compares `split_utf8_prefix` with a definition by
  position (`Visible`) for all texts of up to four bytes in two deltas.
* `SoonCancelled`: a stream whose connection is gone is given at most one more delta, with
  or without a close callback. `RemovedOnce`: the assertions of `removeChannel` and
  `handleClose`.
* `PortsExclusive`: until a full list has been met, no two units in the table share a port
  and exactly their ports are marked, a client's own unit included.
* `UnitsAgree`: while both processes run, manager and node know the same units but for the
  ones in between, also when a call reached its limit and is served late.
  `DeletedAfterTask`: a task's unit is in the table.
* `TaskLimit`: the test for equality is enough, because the setup that meets it does not
  leave a channel in a node that goes on. `AnswersRouted`: who gets an answer, with the
  code's exceptions spelled out. `EveryActionAnswered`: no cycle of waiting between IO
  threads, event loop, sys thread and unit threads leaves a setup, an exit or a taskinfo
  unanswered. It excuses a process that has ended, and what a client that left blocks; both
  happen in the model as in the code.

### Seen while modelling

These are in the models as the code has them. They have no run of their own: either no
comment or test says otherwise, or the comment is quoted here.

* `SessionManager.cc:101` says the list is ordered by time and everything before a fresh
  session is fresher, so `gc` may stop there. `on_finish` (`HttpGateway.cc:329`) refreshes a
  session where it stands, so a fresh one may be the last and idle ones before it stay.
* `HttpGateway.cc:573` says the stream's header is sent after acceptance; line 574 sends
  it before.
* `zmq_bus.cpp:90`: the `else` binds to an `if` inside the `ALOGW` macro
  (`utils/sample_log.h:52`), so an inference for an unknown unit is never answered.
* `StackFlow.h:128`: every error answer of the node throws instead of being sent, and the
  node ends. The units it had stay in the manager's table with their ports.
* `remote_action.cpp:34`: a message with an empty work id or action ends the manager.
* `remote_server.cpp:132`: a client's own `register_unit` takes two ports for good.
* `StackFlow.h:106`: `_pause` reads parameter 0 twice, so it finds neither request id nor
  unit.
* `channel.cpp:149`: one push url per unit, so the rest of an answer goes to whoever names
  the unit next.
* `LlamaEngine.cc:142`: a token whose piece is longer than 64 bytes is in the cache and in
  no reply.
* `node/test/src/main.cpp:280`: exit is answered before the unit is released; an inference sent after
  that answer can meet the deleted unit.
* `pzmq.hpp:339`: a client that leaves before its answer blocks the node's event loop for
  everybody; a dead node blocks an IO thread that holds the mutex of all of them.
* `StackFlow.cpp:203`: a register call that reaches its limit ends the node's process, and
  the unit stays in the manager's table with its ports.
* SIGPIPE is not ignored: a client that closes at the wrong moment can end the gateway.

### Bounds

* `Requests`: each request is sent once. Three let two drains compete for one model
  queue while a third request waits in its session's queue; two suffice for every pair
  of handler and close callback, which is what the liveness run needs.
* `MaxPending`, `MaxModelQueue`: 1 or 2 instead of the code's defaults, so that the
  queues fill and both refusals happen.
* `Leavers`: the requests whose client closes its connection; a bound on the state
  space of `core` only (one stream and the non-stream request), all of them elsewhere.
* `MaxTime = 2` with `IdleTtl = 1`: a session can be fresh, exactly at the limit and over
  it. `GcBatch = 2` and a table of two: the loop goes on after an erase and also ends by
  its counter.
* `MaxPieces = 2`: a cancellation between two pieces, `stop` before and `length` at the
  limit. `KvLimit = 5`: a context is full after two turns, so that the third rebuilds it.
* `http`: the second request arrives at every possible point of the stream; the header and
  the body of the first come in two reads; a character of two bytes can be cut. `Dead` is
  the stuttering of an ended process.
* `units`: one client registers a unit of its own, sets one up, asks it and drops it; the
  other one is refused twice, sends an action nobody has, looks at a unit, asks one, sets
  one up while the first may still run, pauses and sends a message without a name. Neither
  waits for an answer, and an exit, a taskinfo or an inference names any work id. Five ports
  serve two units side by side and are one short for a third; `MaxWork = 3` are the units
  ever made. With `TaskCount = 1` the second setup meets the limit unless the first unit has
  gone. `c2` may leave at any time; one call may reach its limit at every place. `Chunks`
  bounds the messages of an answer. Deadlock is not checked: a script ends, and a process
  may be dead.
* `MCSymmetry` permutes the workers, and only in the run whose properties are all safety
  properties.

### Fairness

`ThreadFairness` is weak fairness of the loop thread and of each worker: threads that
can run are scheduled. Clients owe nothing. `EngineFairness` says that a generation
ends: `LlamaEngine` leaves its loop after `max_new_tokens`, `DummyEngine` after 20
deltas. `core_close` leaves it out, because its question is whether the handler wakes
before the generation is over. `SessionManager`'s `FairSpec` schedules a GC thread that
has begun. `HttpServer` schedules the loop and the workers and lets a client that stays
read; clients need not send. `UnitManager` schedules every thread that can go on; clients
need not send their next message, no call has to be slow and nobody has to leave. No strong fairness is used.

## 4. Proofs

Every theorem holds for all values of the constants that satisfy the module's named
assumptions, which only say what kind of thing each constant is. Each rests on an inductive
invariant; TLC checked every part of it on the run's instance before it was proved.

### The core

`CoreAssumption`: sessions and models are different things, the loop thread is no worker,
bounds are positive.

| Theorem | States | Rests on |
|---|---|---|
| `TypeCorrect` | `Spec => []TypeOK` | `TypeOK /\ ControlInv` is inductive |
| `ServiceCorrect` | `Spec => [](NoStrandedQueue /\ OneServer)` | the same with both conjuncts |
| `EngineRunsAlone` | `Spec => []EngineExclusive` | `RoutedInv`, `OneServer` |
| `FinishesOnce` | `Spec => []FinishOnce` | `FinishInv` |
| `ImplementsSerial` | `Spec => SerialSafeSpec` | `ControlInv`, `OneServer` |
| `NothingLost` | `Spec => []NotLost` | `EnteredInv`, `OwedInv`, `PlacedInv` (`Whereabouts`) |
| `GaugeExact` | `Spec => []InFlightExact` | `CountInv` |
| `OnePlace` | `Spec => [](AttendedInv /\ SoleInv)` | `Whereabouts` |
| `OutcomeStaysSettled` | `Spec => OutcomeSettled` | `OnePlace` |
| `StatusAgrees` | `Spec => []ErrorStatus` | `ReasonInv`, `ReplyInv`, `OnePlace` |
| `OrderIsKept` | `Spec => OrderKept` | `DrainedInv`, `OneServer`, `SoleInv`, `ReasonInv` |

Why the strengthenings are needed:

* `ControlInv` says what a place in the code implies about `req` and `job`. Types alone do
  not exclude a worker in `exec` with no request.
* `NoStrandedQueue` and `OneServer` need each other: that the flag may be claimed when it
  is down needs that nobody is behind a lowered flag, and that it may be lowered needs
  that the server leaving is the only one.
* `RoutedInv`: a model's queue, and whoever serves it, hold requests for that model. With
  it, two workers in one model's engine would be two servers of one queue.
* `FinishInv`: between the exchange and `on_finish` exactly one thread is finishing, and
  `finished` is up from then on. `FinishOnce` alone is not inductive.
* `ImplementsSerial` maps every action to `Arrive`, `Start`, `Leave` or `HandOver`, or to a
  stutter; `Current(k)` changes only with its one server.
* `OwedInv` and `PlacedInv` split `NotLost` at the exchange of `finished`: before it the
  request waits or is worked on, after it the winner owes the `on_finish`.
* `AttendedInv` is what `OutcomeSettled` turns out to depend on. A non-stream request could
  be cancelled by its close callback and finished again with another reason; it is not,
  because the one loop thread stays in the handler until the request has finished, so the
  callback, which runs on that thread, comes too late. The second way out of
  `WaitFinishOrCancel` is never taken. A server with several IO threads would lose this.
* `SoleInv`: an unfinished request is in one queue once or with one thread. Without it a
  second entry could record an error after the first has finished the request.
* `ReasonInv`: the reason handed to `EmitFinish`, kept by the winner and stored in the
  context is "error" exactly if an error is recorded. The handler looks while these steps
  are under way, so the invariant follows the reason through all of them.
* `DrainedInv`: a session's queue, and the worker draining it, hold requests of that session.
  With `OneServer` a drain that takes the next request has handed on the one before, so none
  overtakes another between the two queues. `ReasonInv` says that a refused request had no
  error yet, which is how `OrderKept` tells a refusal from an overtaking.

### The session table

`SessionManager_proofs`, from `TableAssumption`: `TypeCorrect`, `ContainersAgree`
(`TableAgrees`), `NeverTooMany` (`SizeBounded`), `OrderHolds` (`OrderedByUse`) and the
action properties `NewcomerNotEvicted`, `GcOnlyIdle`, `DroppedNeverReturns`. Added to the
properties are `FitInv` (the list, not only the map, fits), `ClockInv` (no time stamp lies
in the future, which is what makes moving to the front keep the order) and `EraseInv` (the
entry `gcErase` is about to remove is in the table and was idle when `gc` read the clock, or
has been touched since, outside the lock). The theorems include the walks that go on from
the freed node, as long as the process lives.

### The conversation

`ChatSession_proofs`, from `ChatAssumption`: `TypeCorrect`, `CacheUnshared`
(`CacheNotShared`), `HistoryIsOneRequests` (`HistoryOfOneRequest`), `RepliesToClient`
(`GeneratesFromClient`).

* `QueueInv`, `TurnInv`, `CacheInv`: one request is served at a time, and from its prefill
  on the last message in its context is its own reply.
* `GeneratesFromClient` speaks of one request while it generates; what carries it from one
  turn to the next is `CleanInv`: in a clean session history and cache are both empty or the
  same transcript, up to the pieces a stream has twice in its history (`Settled`). Then the
  delta that auto-diff cuts off continues the cache, not only the history.
* `TalkInv`: a client goes on only from transcripts with the replies it was given. So if the
  history is a prefix of what the client sent, the replies in it are the ones it got, and
  the doubled pieces cannot pass for them. This is also why a turn after a stream is never a
  delta (`chat_turn`).

### The loop and the HTTP side

`HttpConnection_proofs` begins with `WakeupNotLost`, `Spec => []NoLostWakeup`, without any
assumption on the constants. `NoLostWakeup` speaks of `poll` only; `WakeInv` says the same
of every place but `events`. There the eventfd is emptied while functors may be queued,
which is sound because the swap comes after it and before the next `poll`.

It goes on with `TypeCorrect`, `RemovedOnlyOnce` (`RemovedOnce`),
`StreamSoonCancelled` (`SoonCancelled`) and the action property `QuietAfterFin`
(`NothingAfterFin`), from `HttpAssumption` and `InputAssumption`: a request is sent on one
connection, in one header and at most one body that follows it.

* `StateInv` relates a connection's state, its channel and the events poll has reported for
  it; an input event is never left for a channel that has been disabled, because both happen
  in the one callback that handles it.
* `RemoveInv` looks at the queued and the swapped-out functors as one sequence: exactly the
  disabled channels have a `connectDestroyed` in it, and only one.
* `OutInv`: a connection whose write side is shut is going down, does not ask for EPOLLOUT
  and has no output. With `send` refusing to write unless connected, nothing follows.
* `WastedInv`: a request that was given a delta for a dead connection is cancelled, or stands
  before the check that will cancel it. It needs `BegunInv`, that a connection that is
  not up never comes up again under a running request, and `OnceInv`, that no request is
  begun twice, which rests on what is erased from the buffer.

`HttpResponse_proofs`, from the same assumptions, proves `ChunksJoinToText`
(`ChunksAreText`), `ClientGetsPrefix` (`WireIsPrefix`), and two results no run states:
`SplitIsVisible`, that for every text `split_utf8_prefix` computes the characters `Visible`
defines without scanning, and `NothingOvertakes`, that while connection and client are up what
was written for a request is what was received or waits in the connection's output, then
what the queued functors will write, then what its worker has left, in that order.

* Induction over data is said of sets of numbers (`SetInduction`, from the library's
  `WFMin`): the library's induction theorems take an operator, which the provers cannot
  instantiate, but a set they can. The recursive functions in `split_utf8_prefix` and in the
  library's `FlattenSeq` are shown to exist by extending them one argument at a time. From
  there on both are used through what they satisfy (`SplitScans`, `FlattenAppend`,
  `FlattenConcat`).
* `VisibleGrows` is the fact about texts that the writer rests on: the characters of a text
  and more bytes are those of the text, then those of what it kept with the new bytes. A
  byte's fate before the cut does not depend on what comes after it.
* `TextInv`: as long as a stream is not finished its writer keeps exactly what follows the
  last whole character, so the next delta is cut where the text, not the delta, says so.
* `StageInv`: where a worker stands tells what it has been given and what it has to write,
  and a functor writes only of a response that has begun.
* `UpInv`: on a connection that is up the header of a response that has begun has been sent,
  so a queued write adds nothing to what was written, and no worker has given up a write.
* `FlowInv` follows the items through their three places. Nothing moves from one to the next
  but its first item. A connection that has begun to go down may lose what is queued
  or left, never what lies before it; that is why the property is a prefix. Once the client
  has closed, the model forgets what it was sent, and the property says nothing of it.

### The unit manager

`UnitManager_proofs` proves `DeletesAfterTask`, `Spec => []DeletedAfterTask`, from
`UnitAssumption` (the scripts hold known actions, the limits are numbers, `None` is nothing
else). The inductive invariant adds to the property:

* `FreshInv`: work ids are handed out in order, so a new unit is nobody's;
* `DoomedInv`: whatever is queued for release has no task any more;
* `HandedInv`: the unit a setup was just given is live, and nobody has asked for its
  release;
* `CallInv`: while the manager runs, the loop waits for at most one call and the answer it
  finds is that call's. This is where calls that reached their limit matter: they are
  served late, and without the `waits` flag their answer would be taken for the next one's.

`UnitAgreement_proofs` adds `TypeCorrect`, `TasksLimited` (`TaskLimit`), `PortsNotShared`
(`PortsExclusive`), `UnitsInStep` (`UnitsAgree`) and `AnswersReachAskers` (`AnswersRouted`).

* `HoldsInv`, `EventInv`, `TaskInv`: what the owner of the mutex, the event loop and the unit
  threads have in hand. `TaskLimit` needs that channels and tasks are the same but for the
  unit whose release is under way and the one whose setup has ended the node: the test
  compares the number of channels.
* `FreedInv`: between delete and erase the key leads to the deleted unit, whose ports are
  already free. `PortsExclusive` would fail here if such a unit counted as live.
* `WaitInv`, `PendingInv`: the loop waits for the very release it asked for, and a release
  that is still pending concerns a unit whose channel is gone or being dropped.
* `RegisterInv`: while both processes run, the loop waits for every register call, since the
  one it gives up ends the node. So a unit cannot be allocated late for a node that runs.
* `AskedInv`: everyone a channel points at, while its thread answers, has named the unit.

### Only model-checked

* Liveness and the refinement with fairness, which are out of the prover's reach:
  `EveryRequestEnds`, `SerialSpec`, `GcReleasesLock`, `AnswerDelivered`,
  `EveryActionAnswered`.

Every safety property of the passing runs is proved.

## 5. Not modelled

* `ThreadPool`'s destructor: the pool lives as long as the process. `ExecuteAndWait`,
  `EngineFactory::ClearCache`, `RpcEngine`, `StackFlowsClient`: without a caller, or stubs.
* What `/health`, `/metrics` and `/v1/completions` say: constants and counters. That they
  are answered is part of `HttpServer`.
* C++ exceptions outside the handlers' JSON parsing (allocation failure, a field of an
  unexpected JSON type): nothing on the loop thread or in a model task catches them, and
  the process ends.
* The contents of messages, JSON, templates, tokenization, sampling.
* In `network/`: several loops and their threads, `quit`, `TcpClient`, `Connector`,
  `forceClose`, `stopRead` (the two programs do not call them), a full table of file
  descriptors, half-closed clients, and `Buffer`'s memory layout.
* In the unit manager: its TCP front, which takes one read for one message and names a
  session by a counter; the `sql_*` RPCs, which no unit calls, though a client that
  addresses `sys` could overwrite a key with them; the time limit of such a client's own
  call; configuration. A node that has died is not started again: it would bind its socket
  anew and know none of its units.
* In `StackFlow`: `work` and `link`, which the example node does not override, and the
  shutdown of a node by a signal. `~llm_llm` empties `llm_task_` while the event loop still
  runs, and `~StackFlow` joins its thread again after each channel it releases, which
  throws from a destructor; so the process ends with the second join unless it has no unit,
  and the manager keeps the other units. A node's death is in the model where the code
  brings it about by itself.
* A session is named by a port counter that several IO threads increment, test and reset
  (`tcp_comm.cpp:36`): two sessions may share a url after some 57000 connections.
* `LLMUnit` and the demos: the first version of the server. `llm_server` passes a string to
  `LLMUnit::Generate`, which now takes a `ServingContext`, so it does not compile.
* Vendored code (`utils/json.hpp`, the headers of libzmq, llama.cpp), which is more than
  two thirds of the lines, and build output.

## 6. Plan

1. **Composition.** `SessionManager` with the core: after an eviction in use, two Session
   objects of one id are drained in parallel. Both halves are checked apart: the core takes
   Session objects as given, the table shows that a dropped one does not come back.
2. **Several loops.** The unit manager's TCP front runs on an `EventLoopThreadPool`:
   `TcpServer` with a loop per connection, and a connection removed across two loops.
