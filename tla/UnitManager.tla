---------------------------- MODULE UnitManager ----------------------------
(***************************************************************************)
(* The unit manager, one inference node and the ZeroMQ calls between them. *)
(*                                                                         *)
(* A client's TCP session is served by an IO thread, which matches each    *)
(* message under one mutex (unit_action_match): an inference is published  *)
(* on the named unit's bus, any other action is a blocking RPC to the      *)
(* node, which only queues an event.  The node's event loop takes the      *)
(* events one by one; to set up or to drop a unit it calls the manager's   *)
(* "sys" RPC thread, with a time limit.  Each unit has a subscriber thread *)
(* in the node that answers its inferences.  Answers are pushed to the URL *)
(* of a client's session.                                                  *)
(*                                                                         *)
(* pzmq opens a context per socket and never sets ZMQ_LINGER, so closing a *)
(* socket with a queued message whose peer has gone never returns          *)
(* (external: libzmq's default).                                           *)
(***************************************************************************)
EXTENDS Naturals, Sequences, FiniteSets

CONSTANTS
    Clients,        \* the clients, one TCP session and com url each
    Script,         \* Script[c]: the actions c asks for, in this order
    MaxWork,        \* bound: the work ids that are named, 0 .. MaxWork - 1
    NPorts,         \* length of port_list
    TaskCount,      \* task_count_ of the node
    Chunks,         \* messages of one inference
    MaxTimeouts,    \* bound: RPC calls that reach their time limit
    Leavers,        \* the clients that may disconnect
    None

\* What a client may ask for; whether the data of a setup or an inference is
\* any good is left open.  "garbled" is a message that does not parse or lacks
\* a field, "stranger" an action for a unit no node serves; "unknown" is an
\* action the unit does not have, or a unit whose name begins with the dot;
\* "register" is register_unit for the unit "sys", which is the manager
\* itself; "nameless" has an empty work id or action.
Control == {"setup", "exit", "taskinfo", "pause"}
Refused == {"garbled", "stranger"}
Silent  == {"unknown", "register", "nameless"}

WorkIds  == 0 .. MaxWork - 1
Ports    == 1 .. NPorts

\* A call on the "sys" socket: the unit of a release, and whether the caller
\* still waits.
Calls == [op : {"register", "release"}, unit : WorkIds \cup {None}, waits : BOOLEAN]

Requests == UNION {{c} \X DOMAIN Script[c] : c \in Clients}

\* An event of the node, with the unit it names; the session and the request
\* id the node answers to; the inference a unit's thread is at.
Events == [act : Control, unit : WorkIds \cup {None}, req : Requests]
Desks  == [to : Clients, id : Requests]
Runs   == [req : Requests, n : 0 .. Chunks]

ASSUME UnitAssumption ==
    /\ \A c \in Clients : Script[c] \in Seq(Control \cup {"inference"} \cup Refused \cup Silent)
    /\ {MaxWork, NPorts, TaskCount, Chunks, MaxTimeouts} \subseteq Nat
    /\ Chunks > 0 /\ NPorts > 0
    /\ Leavers \subseteq Clients
    /\ None \notin Clients /\ None \notin Calls /\ None \notin WorkIds
    /\ None \notin Events /\ None \notin Desks /\ None \notin Runs

ClientOf(r) == r[1]
ActOf(r)    == Script[r[1]][r[2]]

VARIABLES
    \* the manager
    counter,    \* work_id_number_counter
    port_list,  \* the ports marked as taken
    key_sql,    \* key_sql[w]: "none", "live", "freed" (pointer to a deleted unit) or
                \* "stray" (a unit under a key that nobody names)
    url,        \* url[w]: the output and the inference port of unit w
    up,         \* the manager's process runs
    next,       \* next[c]: the message of c's script to come
    holds,      \* the client whose IO thread holds unit_action_match_mtx, with
                \* the unit it looked up (None in a call), or None
    calls,      \* the calls on the "sys" socket, oldest first
    erasing,    \* the call whose unit is deleted and not yet erased, or None
    \* the node
    alive,      \* its process runs
    events,     \* event_queue_
    ev,         \* the event being processed, or None
    at,         \* how far it is
    desk,       \* request_id_ and out_zmq_url_, as the session and the request id
    answer,     \* what the sys thread answered to the call in progress
    channels,   \* keys of llm_task_channel_
    tasks,      \* keys of llm_task_
    push,       \* push[w]: output_url_ of the channel, as the client
    owed,       \* the channels whose PUSH socket holds a message nobody takes
    sub,        \* sub[w]: the subscriber socket, "none", "joining" or "joined"
    inbox,      \* inbox[w]: inferences published and not yet taken
    run,        \* run[w]: the inference its thread answers, and how far
    \* the clients
    gone,       \* the clients that have disconnected
    heard,      \* the answers that reached a session
    \* history
    asked,      \* asked[w]: the clients that named unit w
    timeouts,   \* RPC calls that reached their time limit
    starved     \* an allocation found no free port

table   == <<counter, port_list, key_sql, url>>
match   == <<next, holds>>
sys     == <<calls, erasing>>
loop    == <<ev, at, desk>>
chans   == <<channels, tasks, push, owed>>
subs    == <<sub, inbox, run>>
client  == <<gone, heard>>
history == <<asked, timeouts, starved>>
vars    == <<table, up, match, sys, alive, events, loop, answer, chans, subs, client, history>>

Init ==
    /\ counter = 0 /\ port_list = {} /\ up = TRUE
    /\ key_sql = [w \in WorkIds |-> "none"]
    /\ url = [w \in WorkIds |-> <<>>]
    /\ next = [c \in Clients |-> 1]
    /\ holds = None /\ calls = <<>> /\ erasing = None
    /\ alive = TRUE /\ events = <<>> /\ ev = None /\ at = "idle"
    /\ desk = None /\ answer = None
    /\ channels = {} /\ tasks = {} /\ owed = {}
    /\ push = [w \in WorkIds |-> None]
    /\ sub = [w \in WorkIds |-> "none"]
    /\ inbox = [w \in WorkIds |-> <<>>]
    /\ run = [w \in WorkIds |-> None]
    /\ gone = {} /\ heard = {}
    /\ asked = [w \in WorkIds |-> {}] /\ timeouts = 0 /\ starved = FALSE

-----------------------------------------------------------------------------
(* The manager's IO threads.                                               *)

\* An answer: the session it is pushed to, the request id it carries, the
\* request it is about.
Reply(to, id, of) == [to |-> to, id |-> id, of |-> of]

Current(c) == <<c, next[c]>>
Asks(c, acts) == /\ up /\ holds = None /\ c \notin gone
                 /\ next[c] \in DOMAIN Script[c]
                 /\ ActOf(Current(c)) \in acts
Matched(c) == next' = [next EXCEPT ![c] = @ + 1]

\* unit_action_match refuses the message itself, or remote_call finds no
\* socket file: the IO thread answers with an error.
Refuse(c) ==
    /\ Asks(c, Refused)
    /\ Matched(c)
    /\ heard' = heard \cup {Reply(c, IF ActOf(Current(c)) = "garbled" THEN None ELSE Current(c),
                                  Current(c))}
    /\ UNCHANGED <<table, up, holds, sys, alive, events, loop, answer, chans, subs, gone, history>>

\* An action for a unit without a name is not sent at all, one that the unit
\* does not have is answered "NotAction", and a client's release_unit of "sys"
\* finds no such key: the call counts as made, and the client is told nothing.
Ignore(c) ==
    /\ Asks(c, {"unknown"})
    /\ Matched(c)
    /\ UNCHANGED <<table, up, holds, sys, alive, events, loop, answer, chans, subs, client, history>>

\* remote_call throws for an empty work id or action, and nothing on the IO
\* thread catches it: the manager ends.
Throw(c) ==
    /\ Asks(c, {"nameless"})
    /\ up' = FALSE
    /\ UNCHANGED <<table, match, sys, alive, events, loop, answer, chans, subs, client, history>>

\* remote_call: the node's RPC thread queues the event and returns.
Event(c, w) == [act |-> ActOf(Current(c)), unit |-> w, req |-> Current(c)]

\* A setup names no unit yet, and a pause loses it (_pause reads the session's
\* url for the message too); the others name one, or the node alone.
Named(c) == IF ActOf(Current(c)) \in {"exit", "taskinfo"} THEN WorkIds \cup {None} ELSE {None}

Ask(c, w) == asked' = [v \in WorkIds |-> IF v = w THEN asked[v] \cup {c} ELSE asked[v]]

RemoteCall(c) ==
    /\ Asks(c, Control) /\ alive
    /\ \E w \in Named(c) : events' = Append(events, Event(c, w)) /\ Ask(c, w)
    /\ Matched(c)
    /\ UNCHANGED <<table, up, holds, sys, alive, loop, answer, chans, subs, client,
                   timeouts, starved>>

\* A dead node leaves its socket file behind, so the call is sent and reaches
\* its limit; the request nobody took is still queued when call_rpc_action
\* closes the socket, and the IO thread keeps the mutex for ever.
CallDead(c) ==
    /\ Asks(c, Control \cup {"unknown"}) /\ ~alive
    /\ holds' = <<c, None>>
    /\ UNCHANGED <<table, up, next, sys, alive, events, loop, answer, chans, subs, client, history>>

\* zmq_bus_publisher_push reads the unit's pointer under the spin lock.  The
\* else of its last branch belongs to the if inside the ALOGW macro: for a
\* unit that does not exist the function returns 0 all the same.
Lookup(c) ==
    /\ Asks(c, {"inference"})
    /\ \E w \in WorkIds :
          /\ IF key_sql[w] \in {"none", "stray"}
             THEN Matched(c) /\ holds' = None
             ELSE holds' = <<c, w>> /\ next' = next
          /\ Ask(c, w)
    /\ UNCHANGED <<table, up, sys, alive, events, loop, answer, chans, subs, client,
                   timeouts, starved>>

\* unit_data::send_msg, on the pointer read before.  A deleted unit is
\* undefined behaviour: the message is lost or the process dies.  A PUB
\* socket drops what no subscriber has joined for.
Publish ==
    /\ up /\ holds # None /\ holds[2] # None
    /\ \E died \in BOOLEAN :
          LET c == holds[1]
              w == holds[2]
          IN /\ died => key_sql[w] # "live"
             /\ up' = ~died
             /\ inbox' = IF key_sql[w] = "live" /\ alive /\ sub[w] = "joined"
                         THEN [inbox EXCEPT ![w] = Append(@, Current(c))]
                         ELSE inbox
             /\ Matched(c)
    /\ holds' = None
    /\ UNCHANGED <<table, sys, alive, events, loop, answer, chans, sub, run, client, history>>

\* The session's PULL socket goes with the connection (TcpSession::stop).
Leave(c) ==
    /\ c \in Leavers \ gone
    /\ holds # None => holds[1] # c
    /\ gone' = gone \cup {c}
    /\ UNCHANGED <<table, up, match, sys, alive, events, loop, answer, chans, subs, heard, history>>

-----------------------------------------------------------------------------
(* The manager's "sys" RPC thread.                                         *)

Register(n)   == [op |-> "register", unit |-> None, waits |-> n]
Release(w, n) == [op |-> "release", unit |-> w, waits |-> n]

\* The first free port, marked; a full list leaves the variable port
\* unassigned, and any number may come out (0: one outside the list).
FirstFree(taken) ==
    IF Ports \subseteq taken
    THEN Ports \cup {0}
    ELSE {CHOOSE p \in Ports \ taken : \A q \in Ports \ taken : p <= q}

\* Mutant: the second search starts from the list as it was before the first.
sys_allocate_unit_twice ==
    \E p \in FirstFree(port_list), q \in FirstFree(port_list) :
       /\ url' = [url EXCEPT ![counter] = <<p, q>>]
       /\ port_list' = port_list \cup ({p, q} \cap Ports)
       /\ starved' = (starved \/ Cardinality(Ports \ port_list) < 2)

\* Mutant: a number that is no port is marked as well.
sys_allocate_unit_outside ==
    \E p \in FirstFree(port_list) : \E q \in FirstFree(port_list \cup {p}) :
       /\ url' = [url EXCEPT ![counter] = <<p, q>>]
       /\ port_list' = port_list \cup {p, q}
       /\ starved' = (starved \/ Cardinality(Ports \ port_list) < 2)

sys_allocate_unit ==
    \E p \in FirstFree(port_list) : \E q \in FirstFree(port_list \cup {p}) :
       /\ url' = [url EXCEPT ![counter] = <<p, q>>]
       /\ port_list' = port_list \cup ({p, q} \cap Ports)
       /\ starved' = (starved \/ Cardinality(Ports \ port_list) < 2)

\* rpc_allocate_unit: the unit is in the table before the answer is sent; an
\* answer whose caller has given up is dropped with its socket.
AllocateUnit ==
    /\ up /\ erasing = None /\ calls # <<>> /\ Head(calls).op = "register"
    /\ counter \in WorkIds
    /\ sys_allocate_unit
    /\ key_sql' = [key_sql EXCEPT ![counter] = "live"]
    /\ counter' = counter + 1
    /\ answer' = IF Head(calls).waits THEN counter ELSE answer
    /\ calls' = Tail(calls)
    /\ UNCHANGED <<up, match, erasing, alive, events, loop, chans, subs, client, asked, timeouts>>

\* A client that calls register_unit of "sys": the unit is in the table under
\* a name made of the whole message, and its number is told to nobody.  The IO
\* thread waits for the sys thread, which serves the calls in any order.
AllocateStray(c) ==
    /\ Asks(c, {"register"}) /\ erasing = None
    /\ counter \in WorkIds
    /\ sys_allocate_unit
    /\ key_sql' = [key_sql EXCEPT ![counter] = "stray"]
    /\ counter' = counter + 1
    /\ Matched(c)
    /\ UNCHANGED <<up, holds, sys, alive, events, loop, answer, chans, subs, client, asked, timeouts>>

Answered(call) == answer' = IF call.waits THEN call.unit ELSE answer

\* sys_release_unit up to the delete; an unknown unit is answered at once.  A
\* port outside the list is a write out of bounds, which may end the process.
DeleteUnit ==
    /\ up /\ erasing = None /\ calls # <<>> /\ Head(calls).op = "release"
    /\ calls' = Tail(calls)
    /\ LET w == Head(calls).unit
       IN IF key_sql[w] \in {"none", "stray"}
          THEN Answered(Head(calls)) /\ UNCHANGED <<port_list, key_sql, url, erasing, up>>
          ELSE \E died \in BOOLEAN :
               /\ died => 0 \in {url[w][1], url[w][2]}
               /\ up' = ~died
               /\ port_list' = port_list \ {url[w][1], url[w][2]}
               /\ key_sql' = [key_sql EXCEPT ![w] = "freed"]
               /\ url' = [url EXCEPT ![w] = <<>>]
               /\ erasing' = Head(calls)
               /\ answer' = answer
    /\ UNCHANGED <<counter, match, alive, events, loop, chans, subs, client, history>>

\* Mutant: the key stays.
EraseUnitNot ==
    /\ up /\ erasing # None
    /\ key_sql' = key_sql
    /\ Answered(erasing)
    /\ erasing' = None
    /\ UNCHANGED <<counter, port_list, url, up, match, calls, alive, events, loop, chans, subs,
                   client, history>>

\* SAFE_ERASE of its keys, and the answer.
EraseUnit ==
    /\ up /\ erasing # None
    /\ key_sql' = [key_sql EXCEPT ![erasing.unit] = "none"]
    /\ Answered(erasing)
    /\ erasing' = None
    /\ UNCHANGED <<counter, port_list, url, up, match, calls, alive, events, loop, chans, subs,
                   client, history>>

-----------------------------------------------------------------------------
(* The node's event loop.                                                  *)

Reachable(c) == up /\ c \notin gone

\* StackFlow::send with LLM_NO_ERROR, the empty string: the answer goes to
\* out_zmq_url_ over a socket of its own, whose closing waits for a session
\* that is gone.
Say(c, id, r, then) ==
    IF Reachable(c) THEN heard' = heard \cup {Reply(c, id, r)} /\ at' = then
                    ELSE heard' = heard /\ at' = "stuck"

\* StackFlow::send with an error: error_msg is a std::string and every caller
\* passes a JSON object, whose conversion throws before anything is sent; the
\* event loop and the subscriber threads catch nothing, and the process ends.
SendError == alive' = FALSE

\* set_push_url replaces the channel's PUSH socket when the session changes,
\* and waits for what the old one still holds.
NewUrl(w, c) == push[w] # c
Waits(w, c)  == NewUrl(w, c) /\ w \in owed
set_push_url(w, c) ==
    /\ push' = [push EXCEPT ![w] = c]
    /\ owed' = IF NewUrl(w, c) THEN owed \ {w} ELSE owed

\* Mutant: an exit leaves the request id and the session of the event before.
EventDeskKept(e) == IF e.act = "exit" THEN desk ELSE [to |-> ClientOf(e.req), id |-> e.req]

\* request_id_ and out_zmq_url_, set by _setup, _exit, _taskinfo and _pause.
EventDesk(e) == [to |-> ClientOf(e.req), id |-> e.req]

\* The next event.  A setup asks the manager for a unit; an action on a unit
\* with a channel points the channel at the asking session, while the unit's
\* thread may be sending on the socket that is replaced (a data race, which
\* may end the process).
TakeEvent ==
    /\ alive /\ at = "idle" /\ events # <<>>
    /\ events' = Tail(events)
    /\ ev' = Head(events)
    /\ desk' = EventDesk(Head(events))
    /\ LET w == Head(events).unit
           c == ClientOf(Head(events).req)
       IN \/ /\ Head(events).act = "setup"
             /\ calls' = Append(calls, Register(TRUE))
             /\ at' = "register"
             /\ UNCHANGED <<alive, push, owed>>
          \/ /\ Head(events).act \in {"exit", "taskinfo"} /\ w \in channels
             /\ set_push_url(w, c)
             /\ at' = IF Waits(w, c) THEN "stuck" ELSE "handle"
             /\ \E died \in BOOLEAN : /\ died => NewUrl(w, c) /\ run[w] # None
                                      /\ alive' = ~died
             /\ calls' = calls
          \/ /\ Head(events).act \in {"exit", "taskinfo", "pause"} /\ w \notin channels
             /\ at' = "handle"
             /\ UNCHANGED <<alive, push, owed, calls>>
    /\ UNCHANGED <<table, up, match, erasing, answer, channels, tasks, subs, client, history>>

\* Mutant: only a unit's taskinfo is answered, the list of tasks is not.
TellUnits ==
    /\ alive /\ at = "handle"
    /\ ev.act = "taskinfo" /\ ev.unit \in tasks \cup {None}
    /\ IF ev.unit = None THEN at' = "idle" /\ heard' = heard
                         ELSE Say(desk.to, desk.id, ev.req, "idle")
    /\ ev' = None
    /\ UNCHANGED <<table, up, match, sys, alive, events, desk, answer, chans, subs, gone, history>>

\* taskinfo of a task, or of the node: the list of its tasks.
Tell ==
    /\ alive /\ at = "handle"
    /\ ev.act = "taskinfo" /\ ev.unit \in tasks \cup {None}
    /\ Say(desk.to, desk.id, ev.req, "idle")
    /\ ev' = None
    /\ UNCHANGED <<table, up, match, sys, alive, events, desk, answer, chans, subs, gone, history>>

\* What the node would answer with an error: every pause, which the node does
\* not have, and the taskinfo or the exit of a unit without a task.
TellError ==
    /\ alive /\ at = "handle"
    /\ \/ ev.act = "pause"
       \/ ev.act = "taskinfo" /\ ev.unit \notin tasks \cup {None}
       \/ ev.act = "exit" /\ ev.unit \notin tasks
    /\ SendError
    /\ UNCHANGED <<table, up, match, sys, events, loop, answer, chans, subs, client, history>>

\* exit of a task: stop_subscriber clears the sockets, which waits for the
\* unit's thread and for what is owed; the answer goes out before the
\* manager is asked to release the unit.
ExitTask ==
    /\ alive /\ at = "handle" /\ ev.act = "exit" /\ ev.unit \in tasks
    /\ run[ev.unit] = None /\ ev.unit \notin owed
    /\ tasks' = tasks \ {ev.unit}
    /\ sub' = [sub EXCEPT ![ev.unit] = "none"]
    /\ inbox' = [inbox EXCEPT ![ev.unit] = <<>>]
    /\ Say(desk.to, desk.id, ev.req, "release")
    /\ calls' = IF Reachable(desk.to) THEN Append(calls, Release(ev.unit, TRUE)) ELSE calls
    /\ UNCHANGED <<table, up, match, erasing, alive, events, ev, desk, answer, channels, push,
                   owed, run, gone, history>>

\* Clearing the sockets under a thread that is sending is undefined: the
\* process may die.
ExitRaces ==
    /\ alive /\ at = "handle" /\ ev.act = "exit" /\ ev.unit \in tasks
    /\ run[ev.unit] # None
    /\ alive' = FALSE
    /\ UNCHANGED <<table, up, match, sys, events, loop, answer, chans, subs, client, history>>

\* Mutant: one task too many.
FullLate(w) == Cardinality(channels \cup {w}) - 1 = TaskCount + 1

\* llm_task_channel_.size() - 1 == task_count_, the new channel included.
Full(w) == Cardinality(channels \cup {w}) - 1 = TaskCount

\* sys_register_unit has its answer: the channel is made and points at the
\* asking session, the node's own setup starts the task and subscribes.
NewChannel ==
    /\ channels' = channels \cup {answer}
    /\ push' = [push EXCEPT ![answer] = ClientOf(ev.req)]

Registered ==
    /\ alive /\ at = "register" /\ answer # None
    /\ ~Full(answer)
    /\ NewChannel
    /\ tasks' = tasks \cup {answer}
    /\ sub' = [sub EXCEPT ![answer] = "joining"]
    /\ Say(desk.to, desk.id, ev.req, "idle")
    /\ answer' = None
    /\ ev' = None
    /\ UNCHANGED <<table, up, match, sys, alive, events, desk, owed, inbox, run, gone, history>>

\* The setup refuses: the tasks are full, or the data does not parse or load,
\* which any data may.  The release of the unit stands after the error and is
\* not reached.
SetupRefused ==
    /\ alive /\ at = "register" /\ answer # None
    /\ NewChannel
    /\ SendError
    /\ UNCHANGED <<table, up, match, sys, events, loop, answer, tasks, owed, subs, client, history>>

\* sys_release_unit goes on with or without an answer.
Dropped ==
    /\ channels' = channels \ {ev.unit}
    /\ push' = [push EXCEPT ![ev.unit] = None]
    /\ at' = "idle"
    /\ ev' = None

Released ==
    /\ alive /\ at = "release" /\ answer # None
    /\ Dropped
    /\ answer' = None
    /\ UNCHANGED <<table, up, match, sys, alive, events, desk, tasks, owed, subs, client, history>>

\* The call reaches its limit and its socket is closed; call_rpc_action hands
\* out an empty message.  sys_register_unit finds no number in it, throws,
\* and the process ends.
GivenUp(call) == [call EXCEPT !.waits = FALSE]

\* Mutant: a register call without an answer is caught, and the loop goes on.
TimesOutGoesOn ==
    /\ alive /\ at \in {"register", "release"} /\ answer = None
    /\ timeouts < MaxTimeouts \/ ~up
    /\ timeouts' = IF up THEN timeouts + 1 ELSE timeouts
    /\ calls' = [i \in DOMAIN calls |-> GivenUp(calls[i])]
    /\ erasing' = IF erasing = None THEN None ELSE GivenUp(erasing)
    /\ IF at = "release" THEN Dropped ELSE at' = "idle" /\ ev' = None /\ UNCHANGED <<channels, push>>
    /\ UNCHANGED <<table, up, match, alive, events, desk, answer, tasks, owed, subs, client,
                   asked, starved>>

TimesOut ==
    /\ alive /\ at \in {"register", "release"} /\ answer = None
    /\ timeouts < MaxTimeouts \/ ~up
    /\ timeouts' = IF up THEN timeouts + 1 ELSE timeouts
    /\ calls' = [i \in DOMAIN calls |-> GivenUp(calls[i])]
    /\ erasing' = IF erasing = None THEN None ELSE GivenUp(erasing)
    /\ IF at = "release" THEN Dropped /\ UNCHANGED alive
                         ELSE alive' = FALSE /\ UNCHANGED <<ev, at, channels, push>>
    /\ UNCHANGED <<table, up, match, events, desk, answer, tasks, owed, subs, client,
                   asked, starved>>

\* A call to a manager that has died: the socket does not close.
CallHangs ==
    /\ alive /\ at \in {"register", "release"} /\ answer = None /\ ~up
    /\ at' = "stuck"
    /\ UNCHANGED <<table, up, match, sys, alive, events, ev, desk, answer, chans, subs, client,
                   history>>

-----------------------------------------------------------------------------
(* The subscriber thread of a unit.                                        *)

\* The SUB socket connects in the background.
Joins(w) ==
    /\ alive /\ sub[w] = "joining"
    /\ sub' = [sub EXCEPT ![w] = "joined"]
    /\ UNCHANGED <<table, up, match, sys, alive, events, loop, answer, chans, inbox, run, client,
                   history>>

\* How far a run is: the next message to send; 0 for a thread that never
\* returns from closing a socket.
Run(r, n) == [req |-> r, n |-> n]

\* subscriber_event_call: the channel is pointed at the sender's session, and
\* task_user_data infers, keeps a part of a stream for later, or refuses the
\* data: none, "None", or a stream that does not decode.
TakeInference(w) ==
    /\ alive /\ sub[w] = "joined" /\ run[w] = None /\ inbox[w] # <<>>
    /\ inbox' = [inbox EXCEPT ![w] = Tail(@)]
    /\ LET r == Head(inbox[w])
       IN /\ set_push_url(w, ClientOf(r))
          /\ \/ /\ Waits(w, ClientOf(r))
                /\ run' = [run EXCEPT ![w] = Run(r, 0)] /\ alive' = alive
             \/ /\ ~Waits(w, ClientOf(r))
                /\ run' = [run EXCEPT ![w] = Run(r, 1)] /\ alive' = alive
             \/ /\ ~Waits(w, ClientOf(r))
                /\ run' = run /\ (alive' = alive \/ SendError)
    /\ UNCHANGED <<table, up, match, sys, events, loop, answer, channels, tasks, sub, client,
                   history>>

\* task_output sends to whatever session the channel points at by now.
SendChunk(w) ==
    /\ alive /\ run[w] # None /\ run[w].n > 0
    /\ IF Reachable(push[w])
       THEN heard' = heard \cup {Reply(push[w], run[w].req, run[w].req)} /\ owed' = owed
       ELSE heard' = heard /\ owed' = owed \cup {w}
    /\ run' = [run EXCEPT ![w] = IF @.n = Chunks THEN None ELSE Run(@.req, @.n + 1)]
    /\ UNCHANGED <<table, up, match, sys, alive, events, loop, answer, channels, tasks, push, sub,
                   inbox, gone, history>>

-----------------------------------------------------------------------------
MatchStep(c)  == \/ Refuse(c) \/ Ignore(c) \/ Throw(c)
                 \/ RemoteCall(c) \/ CallDead(c) \/ Lookup(c) \/ AllocateStray(c)
SysStep       == AllocateUnit \/ DeleteUnit \/ EraseUnit
LoopStep      == TakeEvent \/ Tell \/ TellError \/ ExitTask \/ Registered \/ SetupRefused \/ Released
UnitThread(w) == Joins(w) \/ TakeInference(w) \/ SendChunk(w)

Next ==
    \/ \E c \in Clients : MatchStep(c) \/ Leave(c)
    \/ Publish
    \/ SysStep
    \/ LoopStep \/ ExitRaces \/ TimesOut \/ CallHangs
    \/ \E w \in WorkIds : UnitThread(w)

Spec == Init /\ [][Next]_vars

\* Every thread that can go on does; no call has to be slow, and no client has
\* to send its next message or to leave.
FairSpec ==
    /\ Spec
    /\ WF_vars(Publish) /\ WF_vars(SysStep) /\ WF_vars(LoopStep)
    /\ \A w \in WorkIds : WF_vars(UnitThread(w))

-----------------------------------------------------------------------------
(***************************************************************************)
(* Every variable has its type.                                            *)
(***************************************************************************)
TypeOK ==
    /\ counter \in 0 .. MaxWork
    /\ port_list \subseteq Ports
    /\ key_sql \in [WorkIds -> {"none", "live", "freed", "stray"}]
    /\ \A w \in WorkIds : url[w] = <<>> \/ url[w] \in (Ports \cup {0}) \X (Ports \cup {0})
    /\ up \in BOOLEAN /\ alive \in BOOLEAN /\ starved \in BOOLEAN
    /\ \A c \in Clients : next[c] \in 1 .. Len(Script[c]) + 1
    /\ holds \in {None} \cup (Clients \X (WorkIds \cup {None}))
    /\ \A i \in DOMAIN calls : calls[i] \in Calls
    /\ erasing \in {None} \cup Calls
    /\ \A i \in DOMAIN events : events[i] \in Events
    /\ ev \in {None} \cup Events
    /\ at \in {"idle", "handle", "register", "release", "stuck"}
    /\ desk \in {None} \cup Desks
    /\ answer \in WorkIds \cup {None}
    /\ channels \subseteq WorkIds /\ tasks \subseteq WorkIds /\ owed \subseteq WorkIds
    /\ push \in [WorkIds -> Clients \cup {None}]
    /\ sub \in [WorkIds -> {"none", "joining", "joined"}]
    /\ \A w \in WorkIds : \A i \in DOMAIN inbox[w] : inbox[w][i] \in Requests
    /\ run \in [WorkIds -> {None} \cup Runs]
    /\ gone \subseteq Clients
    /\ heard \subseteq [to : Clients, id : Requests \cup {None}, of : Requests]
    /\ asked \in [WorkIds -> SUBSET Clients]
    /\ timeouts \in 0 .. MaxTimeouts

(***************************************************************************)
(* No two units in the table share a port, no unit uses one port for both  *)
(* of its sockets, and exactly the ports of the units in the table are     *)
(* marked (sys_allocate_unit, sys_release_unit), as long as no allocation  *)
(* has met a full list: from then on the port is an uninitialised number.  *)
(***************************************************************************)
Allocated   == {w \in WorkIds : key_sql[w] \in {"live", "stray"}}
PortsOf(w)  == {url[w][1], url[w][2]}

PortsExclusive ==
    starved \/
    /\ port_list = UNION {PortsOf(w) : w \in Allocated}
    /\ \A w \in Allocated : Cardinality(PortsOf(w)) = 2
    /\ \A v, w \in Allocated : v # w => PortsOf(v) \cap PortsOf(w) = {}

(***************************************************************************)
(* Manager and node agree on the units.  A channel of the node is a unit   *)
(* of the manager until the release of it is under way.  While both        *)
(* processes run, a unit the manager has allocated for the node is a       *)
(* channel of it, being handed over or being released, although either     *)
(* call may reach its time limit and be served later: a register call that *)
(* does ends the node.  Between two events the node has a task for every   *)
(* channel (StackFlow::setup, exit, sys_release_unit).                     *)
(***************************************************************************)
Live == {w \in WorkIds : key_sql[w] = "live"}

Releasing(w) == \/ \E i \in DOMAIN calls : calls[i].op = "release" /\ calls[i].unit = w
                \/ erasing # None /\ erasing.unit = w
                \/ at = "release" /\ ev.unit = w

UnitsAgree ==
    /\ \A w \in channels : w \in Live \/ Releasing(w)
    /\ up /\ alive => \A w \in Live : w \in channels \cup {answer} \/ Releasing(w)
    /\ at = "idle" => channels = tasks

(***************************************************************************)
(* A unit is deleted only when the node has stopped its task, and the key  *)
(* leads to the deleted unit only until that very release erases it: an IO *)
(* thread between its lookup and its send holds a dangling pointer only    *)
(* for a unit that was exited.                                             *)
(***************************************************************************)
DeletedAfterTask ==
    /\ \A w \in tasks : key_sql[w] = "live"
    /\ \A w \in WorkIds : key_sql[w] = "freed" => erasing # None /\ erasing.unit = w

(***************************************************************************)
(* The node never runs more than task_count_ tasks, although the test      *)
(* (node main.cpp:200) is for equality and is made when the new channel is *)
(* already in the map.  The setup that meets the limit ends the node.      *)
(***************************************************************************)
TaskLimit == Cardinality(tasks) <= TaskCount

(***************************************************************************)
(* An answer reaches the session that asked and carries its request id.    *)
(* The exceptions are the code's: the messages of an inference go to       *)
(* another session that has named the unit meanwhile, since the channel    *)
(* has one push url (channel.cpp:149); the answer to a message that does   *)
(* not parse has no id.  No error of the node is ever sent (SendError).    *)
(***************************************************************************)
AnswersRouted ==
    \A h \in heard :
       /\ ActOf(h.of) # "inference" => h.to = ClientOf(h.of)
       /\ h.to = ClientOf(h.of) \/ \E w \in WorkIds : {h.to, ClientOf(h.of)} \subseteq asked[w]
       /\ ActOf(h.of) # "garbled" => h.id = h.of

(***************************************************************************)
(* Every setup, exit and taskinfo that the manager has taken from a client *)
(* is answered in the end, although the IO threads wait for each other and *)
(* for the node, and the node waits for the manager and for its own unit   *)
(* threads; unless a process has died, by a message it would answer with   *)
(* an error, a time limit, a nameless message or a race, or a client has   *)
(* left while something was still to be sent to it, which blocks the node  *)
(* for everybody.                                                          *)
(***************************************************************************)
Blocked == at = "stuck" \/ owed # {} \/ \E w \in WorkIds : run[w] # None /\ run[w].n = 0

EveryActionAnswered ==
    \A r \in Requests : ActOf(r) \in {"setup", "exit", "taskinfo"} =>
       (next[ClientOf(r)] > r[2]) ~>
          \/ \E h \in heard : h.of = r
          \/ ~alive \/ ~up
          \/ gone # {} /\ Blocked

=============================================================================
