----------------------- MODULE UnitAgreement_proofs -----------------------
(***************************************************************************)
(* The unit manager and the node agree on types, units, ports, tasks and   *)
(* answers, for any clients, scripts, ports, task limits and time limits.  *)
(* What is to be deleted is known from UnitManager_proofs.                 *)
(***************************************************************************)
EXTENDS UnitManager_proofs, FiniteSetTheorems

Numbers == Ports \cup {0}
Answers == [to : Clients, id : Requests \cup {None}, of : Requests]

\* The types of the manager's variables.
ManagerType ==
    /\ counter \in 0 .. MaxWork
    /\ port_list \subseteq Ports
    /\ url \in [WorkIds -> {<<>>} \cup (Numbers \X Numbers)]
    /\ up \in BOOLEAN /\ starved \in BOOLEAN
    /\ next \in [Clients -> Nat]
    /\ \A c \in Clients : next[c] \in 1 .. Len(Script[c]) + 1
    /\ holds \in {None} \cup (Clients \X (WorkIds \cup {None}))

\* The types of the variables of the node's event loop.
LoopType ==
    /\ alive \in BOOLEAN
    /\ events \in Seq(Events)
    /\ ev \in {None} \cup Events
    /\ at \in {"idle", "handle", "register", "release", "stuck"}
    /\ desk \in {None} \cup Desks
    /\ timeouts \in 0 .. MaxTimeouts

\* The types of what the unit threads share with it.
ThreadType ==
    /\ channels \subseteq WorkIds /\ owed \subseteq WorkIds
    /\ push \in [WorkIds -> Clients \cup {None}]
    /\ sub \in [WorkIds -> {"none", "joining", "joined"}]
    /\ inbox \in [WorkIds -> Seq(Requests)]
    /\ run \in [WorkIds -> {None} \cup Runs]

\* The types of what the clients see.
ClientType ==
    /\ gone \subseteq Clients
    /\ heard \subseteq Answers
    /\ asked \in [WorkIds -> SUBSET Clients]

\* The IO thread that holds the mutex is at a message of its client's script.
HoldsInv ==
    holds # None => next[holds[1]] \in DOMAIN Script[holds[1]]

\* The event loop works on an event, and has told the session of it to send.
EventInv ==
    /\ at \in {"handle", "register", "release"} => ev # None
    /\ ev # None => desk # None /\ desk.to = ClientOf(ev.req) /\ desk.id = ev.req

\* The channels are the tasks, but for the one whose release is under way and
\* the one whose setup has ended the node.
\* Only a task has a subscriber thread, and its channel points at a session.
TaskInv ==
    /\ tasks \subseteq channels
    /\ at \in {"idle", "handle"} \/ (at = "register" /\ alive) => channels = tasks
    /\ at = "release" => /\ ev.unit \in WorkIds \ tasks
                         /\ channels = tasks \cup {ev.unit}
    /\ \A w \in WorkIds : /\ sub[w] # "none" => w \in tasks
                          /\ run[w] # None => sub[w] = "joined"
    /\ \A w \in tasks : push[w] # None

AllType == ManagerType /\ LoopType /\ ThreadType /\ ClientType /\ HoldsInv /\ EventInv /\ TaskInv

\* The loop waits for the very release it asked for, and the answer says that
\* the unit is out of the table.
WaitInv ==
    at = "release" =>
       /\ ev.unit < counter
       /\ answer = None => \/ \E i \in DOMAIN calls : calls[i] = Release(ev.unit, TRUE)
                           \/ erasing = Release(ev.unit, TRUE)
       /\ answer # None => answer = ev.unit /\ key_sql[ev.unit] # "live"

Pending(w) == \/ \E i \in DOMAIN calls : calls[i].op = "release" /\ calls[i].unit = w
              \/ erasing # None /\ erasing.unit = w

\* A unit whose release is pending is not a channel any more, or the loop
\* waits for that release.
PendingInv ==
    up => \A w \in channels : Pending(w) => at = "release" /\ ev.unit = w

\* While both processes run the loop waits for every register call: one that it
\* has given up has ended the node.
RegisterInv ==
    up /\ alive => \A i \in DOMAIN calls : calls[i].op = "register" => calls[i].waits

AgreeInv == WaitInv /\ PendingInv /\ RegisterInv /\ UnitsAgree

\* Who a request, an event or an inference comes from has named its unit, and
\* while a unit's thread answers, the channel points at such a client.
AskedInv ==
    /\ holds # None /\ holds[2] # None =>
          /\ ActOf(Current(holds[1])) = "inference"
          /\ holds[1] \in asked[holds[2]]
    /\ \A i \in DOMAIN events :
          /\ events[i].act = ActOf(events[i].req)
          /\ events[i].unit # None => ClientOf(events[i].req) \in asked[events[i].unit]
    /\ ev # None => ev.act = ActOf(ev.req)
    /\ \A w \in WorkIds :
          /\ \A i \in DOMAIN inbox[w] : /\ ActOf(inbox[w][i]) = "inference"
                                        /\ ClientOf(inbox[w][i]) \in asked[w]
          /\ run[w] # None => /\ ActOf(run[w].req) = "inference"
                              /\ ClientOf(run[w].req) \in asked[w]
                              /\ push[w] \in asked[w]

-----------------------------------------------------------------------------
\* A message of a client's script is a request of that client.
LEMMA RequestFacts ==
    /\ \A c \in Clients : \A n \in DOMAIN Script[c] :
          <<c, n>> \in Requests /\ ClientOf(<<c, n>>) = c
    /\ \A r \in Requests : ClientOf(r) \in Clients
<1>1. ASSUME NEW c \in Clients, NEW n \in DOMAIN Script[c]
      PROVE  <<c, n>> \in Requests /\ ClientOf(<<c, n>>) = c
  BY <1>1 DEF Requests, ClientOf
<1>2. ASSUME NEW r \in Requests PROVE ClientOf(r) \in Clients
  BY <1>2 DEF Requests, ClientOf
<1> QED BY <1>1, <1>2

\* The message an IO thread matches.
LEMMA AsksFacts ==
    ASSUME ManagerType, NEW c \in Clients, NEW acts, Asks(c, acts)
    PROVE  /\ up /\ holds = None
           /\ Current(c) \in Requests /\ ClientOf(Current(c)) = c
           /\ ActOf(Current(c)) \in acts
           /\ next[c] \in DOMAIN Script[c]
           /\ next[c] + 1 \in 1 .. Len(Script[c]) + 1
<1>1. /\ up /\ holds = None /\ next[c] \in DOMAIN Script[c] /\ ActOf(Current(c)) \in acts
      /\ Len(Script[c]) \in Nat /\ DOMAIN Script[c] = 1 .. Len(Script[c])
  BY UnitAssumption DEF Asks
<1>2. Current(c) \in Requests /\ ClientOf(Current(c)) = c
  BY <1>1, RequestFacts DEF Current
<1> QED BY <1>1, <1>2

\* One message further.
LEMMA MatchedFacts ==
    ASSUME ManagerType, NEW c \in Clients, next[c] \in DOMAIN Script[c], Matched(c)
    PROVE  /\ next' \in [Clients -> Nat]
           /\ \A d \in Clients : next'[d] \in 1 .. Len(Script[d]) + 1
<1>1. /\ next \in [Clients -> Nat] /\ \A d \in Clients : next[d] \in 1 .. Len(Script[d]) + 1
      /\ Len(Script[c]) \in Nat /\ DOMAIN Script[c] = 1 .. Len(Script[c])
      /\ next' = [next EXCEPT ![c] = @ + 1]
  BY UnitAssumption DEF ManagerType, Matched
<1> QED BY <1>1

\* The search finds a free port unless the list is full, and then the
\* variable holds any number.
LEMMA FirstFreeFacts ==
    ASSUME NEW taken
    PROVE  /\ FirstFree(taken) \subseteq Numbers
           /\ ~(Ports \subseteq taken) => \A p \in FirstFree(taken) : p \in Ports \ taken
<1>1. CASE Ports \subseteq taken
  BY <1>1 DEF FirstFree, Numbers
<1>2. CASE ~(Ports \subseteq taken)
  <2> DEFINE Less == OpToRel(<, Nat)
  <2>1. Ports \ taken # {} /\ Ports \ taken \subseteq Nat
    BY <1>2, UnitAssumption DEF Ports
  <2>2. IsWellFoundedOn(Less, Nat)
    BY NatLessThanWellFounded
  <2>3. \A m, n \in Nat : m < n => <<m, n>> \in Less
    BY DEF OpToRel
  <2> HIDE DEF Less
  <2>4. PICK p \in Ports \ taken : \A q \in Ports \ taken : ~(<<q, p>> \in Less)
    BY <2>1, <2>2, WFMin
  <2>5. ASSUME NEW q \in Ports \ taken PROVE p <= q
    <3>1. p \in Nat /\ q \in Nat
      BY <2>1
    <3>2. ~(q < p)
      BY <2>3, <2>4, <3>1
    <3> QED BY <3>1, <3>2
  <2> QED BY <1>2, <2>5 DEF FirstFree, Numbers
<1> QED BY <1>1, <1>2

LEMMA InitAll == Init => AllType
<1> SUFFICES ASSUME Init PROVE AllType
  OBVIOUS
<1>1. ManagerType
  <2>1. \A c \in Clients : 1 \in 1 .. Len(Script[c]) + 1
    BY UnitAssumption
  <2>2. url \in [WorkIds -> {<<>>} \cup (Numbers \X Numbers)]
    BY DEF Init
  <2>3. counter \in 0 .. MaxWork /\ next \in [Clients -> Nat]
    BY UnitAssumption DEF Init
  <2>4. \A c \in Clients : next[c] \in 1 .. Len(Script[c]) + 1
    BY <2>1 DEF Init
  <2> QED BY <2>2, <2>3, <2>4 DEF Init, ManagerType
<1>2. LoopType
  BY UnitAssumption DEF Init, LoopType
<1>3. ThreadType /\ ClientType
  BY DEF Init, ThreadType, ClientType
<1>4. HoldsInv /\ EventInv /\ TaskInv
  BY DEF Init, HoldsInv, EventInv, TaskInv
<1> QED BY <1>1, <1>2, <1>3, <1>4 DEF AllType

\* A unit is put into the table.
LEMMA AllocFacts ==
    ASSUME ManagerType, counter \in WorkIds, sys_allocate_unit
    PROVE  /\ counter + 1 \in 0 .. MaxWork
           /\ port_list' \subseteq Ports /\ starved' \in BOOLEAN
           /\ url' \in [WorkIds -> {<<>>} \cup (Numbers \X Numbers)]
<1>1. PICK p \in FirstFree(port_list) : \E q \in FirstFree(port_list \cup {p}) :
         /\ url' = [url EXCEPT ![counter] = <<p, q>>]
         /\ port_list' = port_list \cup ({p, q} \cap Ports)
         /\ starved' = (starved \/ Cardinality(Ports \ port_list) < 2)
  BY DEF sys_allocate_unit
<1>2. PICK q \in FirstFree(port_list \cup {p}) :
         /\ url' = [url EXCEPT ![counter] = <<p, q>>]
         /\ port_list' = port_list \cup ({p, q} \cap Ports)
         /\ starved' = (starved \/ Cardinality(Ports \ port_list) < 2)
  BY <1>1
<1>3. p \in Numbers /\ q \in Numbers
  BY FirstFreeFacts
<1>4. url' \in [WorkIds -> {<<>>} \cup (Numbers \X Numbers)]
  BY <1>2, <1>3 DEF ManagerType
<1>5. counter + 1 \in 0 .. MaxWork
  BY UnitAssumption DEF WorkIds
<1>6. port_list' \subseteq Ports /\ starved' \in BOOLEAN
  BY <1>2 DEF ManagerType
<1> QED BY <1>4, <1>5, <1>6

\* The manager's variables keep their types.
LEMMA ManagerStep ==
    ASSUME DeleteInv, ManagerType, HoldsInv, [Next]_vars
    PROVE  ManagerType' /\ HoldsInv'
<1> DEFINE managerVars == <<counter, port_list, url, up, starved, next, holds>>
           Good == ManagerType' /\ HoldsInv'
<1>0. ASSUME UNCHANGED managerVars PROVE Good
  BY <1>0 DEF ManagerType, HoldsInv
<1>1. ASSUME NEW c \in Clients, Refuse(c) \/ Ignore(c) \/ RemoteCall(c) \/ Lookup(c)
      PROVE  Good
  <2>1. /\ holds = None /\ next[c] \in DOMAIN Script[c]
    BY <1>1, AsksFacts DEF Refuse, Ignore, RemoteCall, Lookup
  <2>2. UNCHANGED <<counter, port_list, url, up, starved>>
    BY <1>1 DEF Refuse, Ignore, RemoteCall, Lookup, table, history
  <2>3. CASE Matched(c) /\ holds' = None
    <3>1. /\ next' \in [Clients -> Nat]
          /\ \A d \in Clients : next'[d] \in 1 .. Len(Script[d]) + 1
      BY <2>1, <2>3, MatchedFacts
    <3> QED BY <2>2, <2>3, <3>1 DEF ManagerType, HoldsInv
  <2>4. CASE next' = next /\ \E w \in WorkIds : holds' = <<c, w>>
    BY <2>1, <2>2, <2>4 DEF ManagerType, HoldsInv
  <2> QED BY <1>1, <2>1, <2>3, <2>4 DEF Refuse, Ignore, RemoteCall, Lookup
<1>2. ASSUME NEW c \in Clients, CallDead(c) PROVE Good
  <2>1. /\ next[c] \in DOMAIN Script[c] /\ holds' = <<c, None>>
        /\ UNCHANGED <<counter, port_list, url, up, starved, next>>
    BY <1>2, AsksFacts DEF CallDead, table, history
  <2> QED BY <2>1 DEF ManagerType, HoldsInv
<1>3. CASE Publish
  <2>1. /\ holds[1] \in Clients /\ next[holds[1]] \in DOMAIN Script[holds[1]]
    BY <1>3 DEF Publish, ManagerType, HoldsInv
  <2>2. /\ Matched(holds[1]) /\ holds' = None /\ up' \in BOOLEAN
        /\ UNCHANGED <<counter, port_list, url, starved>>
    BY <1>3 DEF Publish, table, history
  <2>3. /\ next' \in [Clients -> Nat]
        /\ \A d \in Clients : next'[d] \in 1 .. Len(Script[d]) + 1
    BY <2>1, <2>2, MatchedFacts
  <2> QED BY <2>2, <2>3 DEF ManagerType, HoldsInv
<1>4. CASE AllocateUnit
  <2>1. /\ counter \in WorkIds /\ counter' = counter + 1 /\ sys_allocate_unit
        /\ UNCHANGED <<up, next, holds>>
    BY <1>4 DEF AllocateUnit, match
  <2> QED BY <2>1, AllocFacts DEF ManagerType, HoldsInv
<1>10. ASSUME NEW c \in Clients, AllocateStray(c) PROVE Good
  <2>1. /\ counter \in WorkIds /\ counter' = counter + 1 /\ sys_allocate_unit
        /\ holds = None /\ next[c] \in DOMAIN Script[c] /\ Matched(c) /\ UNCHANGED <<up, holds>>
    BY <1>10, AsksFacts DEF AllocateStray
  <2>2. /\ next' \in [Clients -> Nat]
        /\ \A d \in Clients : next'[d] \in 1 .. Len(Script[d]) + 1
    BY <2>1, MatchedFacts
  <2> QED BY <2>1, <2>2, AllocFacts DEF ManagerType, HoldsInv
<1>11. ASSUME NEW c \in Clients, Throw(c) PROVE Good
  BY <1>11 DEF Throw, ManagerType, HoldsInv, table, match, history
<1>5. CASE DeleteUnit
  <2>1. UNCHANGED <<counter, next, holds, starved>>
    BY <1>5 DEF DeleteUnit, match, history
  <2>2. PICK w : \/ UNCHANGED <<port_list, url, up>>
                 \/ /\ up' \in BOOLEAN /\ port_list' \subseteq port_list
                    /\ url' = [url EXCEPT ![w] = <<>>]
    BY <1>5 DEF DeleteUnit
  <2>3. url' \in [WorkIds -> {<<>>} \cup (Numbers \X Numbers)]
    BY <2>2 DEF ManagerType
  <2> QED BY <2>1, <2>2, <2>3 DEF ManagerType, HoldsInv
<1>6. ASSUME NEW c \in Clients, Leave(c) PROVE Good
  BY <1>0, <1>6 DEF Leave, table, match, history
<1>7. CASE EraseUnit \/ LoopStep \/ ExitRaces \/ TimesOut \/ CallHangs
  <2>1. UNCHANGED managerVars
    BY <1>7 DEF EraseUnit, LoopStep, TakeEvent, Tell, TellError, ExitTask, Registered,
                SetupRefused, Released,
                ExitRaces, TimesOut, CallHangs, table, match, history
  <2> QED BY <1>0, <2>1
<1>8. ASSUME NEW w \in WorkIds, UnitThread(w) PROVE Good
  BY <1>0, <1>8 DEF UnitThread, Joins, TakeInference, SendChunk, table, match, history
<1>9. CASE UNCHANGED vars
  BY <1>0, <1>9 DEF vars, table, match, history
<1> QED BY <1>1, <1>2, <1>3, <1>4, <1>5, <1>6, <1>7, <1>8, <1>9,
         <1>10, <1>11
      DEF Next, MatchStep, SysStep

\* An event queued or taken.
LEMMA EventFacts ==
    ASSUME LoopType
    PROVE  /\ \A c \in Clients : \A w \in WorkIds \cup {None} :
                 Current(c) \in Requests /\ ActOf(Current(c)) \in Control
                    => Event(c, w) \in Events
           /\ events # <<>> => /\ Head(events) \in Events /\ Tail(events) \in Seq(Events)
                               /\ EventDesk(Head(events)) \in Desks
           /\ \A e \in Events : e.req \in Requests
<1>1. \A c \in Clients : \A w \in WorkIds \cup {None} :
         Current(c) \in Requests /\ ActOf(Current(c)) \in Control => Event(c, w) \in Events
  BY DEF Event, Events
<1>2. ASSUME events # <<>>
      PROVE  /\ Head(events) \in Events /\ Tail(events) \in Seq(Events)
             /\ EventDesk(Head(events)) \in Desks
  <2>1. Head(events) \in Events /\ Tail(events) \in Seq(Events)
    BY <1>2 DEF LoopType
  <2>2. Head(events).req \in Requests
    BY <2>1 DEF Events
  <2> QED BY <2>1, <2>2, RequestFacts DEF EventDesk, Desks
<1>3. \A e \in Events : e.req \in Requests
  BY DEF Events
<1> QED BY <1>1, <1>2, <1>3

\* The event loop's variables keep their types.
LEMMA LoopTypeStep ==
    ASSUME DeleteInv, ManagerType, LoopType, EventInv, [Next]_vars
    PROVE  LoopType'
<1>0. ASSUME UNCHANGED <<alive, events, ev, at, desk, timeouts>> PROVE LoopType'
  BY <1>0 DEF LoopType
<1>1. ASSUME NEW c \in Clients, RemoteCall(c) PROVE LoopType'
  <2>1. Current(c) \in Requests /\ ActOf(Current(c)) \in Control
    BY <1>1, AsksFacts DEF RemoteCall
  <2>2. PICK w \in WorkIds \cup {None} : events' = Append(events, Event(c, w))
    BY <1>1 DEF RemoteCall, Named
  <2>3. Event(c, w) \in Events
    BY <2>1, EventFacts
  <2>4. events' \in Seq(Events)
    BY <2>2, <2>3 DEF LoopType
  <2> QED BY <1>1, <2>4 DEF RemoteCall, LoopType, loop
<1>2. CASE TakeEvent
  <2>1. /\ events # <<>> /\ events' = Tail(events) /\ ev' = Head(events)
        /\ desk' = EventDesk(Head(events)) /\ UNCHANGED timeouts
        /\ at' \in {"register", "stuck", "handle"} /\ alive' \in BOOLEAN
    BY <1>2 DEF TakeEvent, history, LoopType
  <2>2. events' \in Seq(Events) /\ ev' \in Events /\ desk' \in Desks
    BY <2>1, EventFacts
  <2> QED BY <2>1, <2>2 DEF LoopType
<1>3. CASE \/ Tell \/ TellError \/ ExitTask \/ Registered \/ SetupRefused \/ Released
           \/ CallHangs \/ ExitRaces
  <2>1. /\ alive' \in {alive, FALSE} /\ ev' \in {ev, None}
        /\ at' \in {"idle", "release", "stuck", at}
        /\ UNCHANGED <<events, desk, timeouts>>
    BY <1>3 DEF Tell, TellError, ExitTask, Registered, SetupRefused, SendError, Released, Dropped,
                CallHangs, ExitRaces, Say, loop, history
  <2> QED BY <2>1 DEF LoopType
<1>4. ASSUME NEW w \in WorkIds, TakeInference(w) PROVE LoopType'
  <2>1. alive' \in {alive, FALSE} /\ UNCHANGED <<events, ev, at, desk, timeouts>>
    BY <1>4 DEF TakeInference, SendError, loop, history
  <2> QED BY <2>1 DEF LoopType
<1>5. CASE TimesOut
  <2>1. /\ alive' \in {alive, FALSE} /\ ev' \in {ev, None} /\ at' \in {"idle", at}
        /\ UNCHANGED <<events, desk>>
    BY <1>5 DEF TimesOut, Dropped
  <2>2. timeouts' \in 0 .. MaxTimeouts
    BY <1>5, UnitAssumption DEF TimesOut, LoopType
  <2> QED BY <2>1, <2>2 DEF LoopType
<1>6. ASSUME NEW c \in Clients,
             \/ Refuse(c) \/ Ignore(c) \/ Throw(c) \/ CallDead(c) \/ Lookup(c)
             \/ AllocateStray(c) \/ Leave(c)
      PROVE  LoopType'
  BY <1>0, <1>6 DEF Refuse, Ignore, Throw, CallDead, Lookup, AllocateStray, Leave, loop, history
<1>7. CASE Publish \/ SysStep
  BY <1>0, <1>7 DEF Publish, SysStep, AllocateUnit, DeleteUnit, EraseUnit, loop, history
<1>8. ASSUME NEW w \in WorkIds, Joins(w) \/ SendChunk(w) PROVE LoopType'
  BY <1>0, <1>8 DEF Joins, SendChunk, loop, history
<1>9. CASE UNCHANGED vars
  BY <1>0, <1>9 DEF vars, loop, history
<1> QED
  BY <1>1, <1>2, <1>3, <1>4, <1>5, <1>6, <1>7, <1>8, <1>9
     DEF Next, MatchStep, LoopStep, UnitThread

\* The loop's event and the session it answers go together.
LEMMA EventStep ==
    ASSUME LoopType, EventInv, [Next]_vars
    PROVE  EventInv'
<1>0. ASSUME UNCHANGED <<ev, at, desk>> PROVE EventInv'
  BY <1>0 DEF EventInv
<1>1. CASE TakeEvent
  <2>1. /\ events # <<>> /\ ev' = Head(events) /\ desk' = EventDesk(Head(events))
    BY <1>1 DEF TakeEvent
  <2>2. Head(events) \in Events /\ EventDesk(Head(events)) \in Desks
    BY <2>1, EventFacts
  <2>3. ev' # None /\ desk' # None
    BY <2>1, <2>2, UnitAssumption
  <2> QED BY <2>1, <2>2, <2>3 DEF EventInv, EventDesk
<1>2. CASE Tell \/ ExitTask \/ Registered \/ Released \/ CallHangs
  <2>1. /\ \/ ev' = None /\ at' \in {"idle", "stuck"}
           \/ ev' = ev /\ at \in {"handle", "register", "release"}
        /\ desk' = desk
    BY <1>2 DEF Tell, ExitTask, Registered, Released, Dropped, CallHangs, Say
  <2> QED BY <2>1 DEF EventInv, LoopType
<1>3. CASE TellError \/ SetupRefused \/ ExitRaces
  BY <1>0, <1>3 DEF TellError, SetupRefused, ExitRaces, loop
<1>4. CASE TimesOut
  <2>1. /\ \/ ev' = None /\ at' = "idle"
           \/ UNCHANGED <<ev, at>>
        /\ UNCHANGED desk
    BY <1>4 DEF TimesOut, Dropped
  <2> QED BY <2>1 DEF EventInv
<1>5. ASSUME NEW w \in WorkIds, UnitThread(w) PROVE EventInv'
  BY <1>0, <1>5 DEF UnitThread, Joins, TakeInference, SendChunk, loop
<1>6. ASSUME NEW c \in Clients, MatchStep(c) \/ Leave(c) PROVE EventInv'
  BY <1>0, <1>6 DEF MatchStep, Refuse, Ignore, Throw, RemoteCall, CallDead, Lookup, AllocateStray,
                    Leave, loop
<1>7. CASE Publish \/ SysStep
  BY <1>0, <1>7 DEF Publish, SysStep, AllocateUnit, DeleteUnit, EraseUnit, loop
<1>8. CASE UNCHANGED vars
  BY <1>0, <1>8 DEF vars, loop
<1> QED
  BY <1>1, <1>2, <1>3, <1>4, <1>5, <1>6, <1>7, <1>8 DEF Next, LoopStep

\* What the threads share keeps its types.
LEMMA ThreadStep ==
    ASSUME DeleteInv, ManagerType, LoopType, ThreadType, HoldsInv, EventInv, [Next]_vars
    PROVE  ThreadType'
<1> DEFINE threadVars == <<channels, owed, push, sub, inbox, run>>
<1>0. ASSUME UNCHANGED threadVars PROVE ThreadType'
  BY <1>0 DEF ThreadType
<1>1. CASE Publish
  <2> DEFINE w == holds[2]
             r == Current(holds[1])
  <2>1. holds[1] \in Clients /\ w \in WorkIds /\ next[holds[1]] \in DOMAIN Script[holds[1]]
    BY <1>1 DEF Publish, ManagerType, HoldsInv
  <2>2. r \in Requests
    BY <2>1, RequestFacts DEF Current
  <2>3. \/ inbox' = inbox
        \/ inbox' = [inbox EXCEPT ![w] = Append(@, r)]
    BY <1>1 DEF Publish
  <2>4. inbox' \in [WorkIds -> Seq(Requests)]
    <3>1. inbox \in [WorkIds -> Seq(Requests)] /\ inbox[w] \in Seq(Requests)
      BY <2>1 DEF ThreadType
    <3>2. Append(inbox[w], r) \in Seq(Requests)
      BY <2>2, <3>1
    <3> HIDE DEF w, r
    <3> QED BY <2>3, <3>1, <3>2
  <2> QED BY <1>1, <2>4 DEF Publish, ThreadType, chans
<1>2. CASE TakeEvent
  <2>1. /\ \/ UNCHANGED <<push, owed>>
           \/ set_push_url(Head(events).unit, ClientOf(Head(events).req))
        /\ UNCHANGED <<channels, sub, inbox, run>> /\ events # <<>>
    BY <1>2 DEF TakeEvent, subs
  <2>2. ClientOf(Head(events).req) \in Clients
    BY <2>1, EventFacts, RequestFacts
  <2> QED BY <2>1, <2>2 DEF ThreadType, set_push_url
<1>3. CASE ExitTask
  <2>1. inbox' = [inbox EXCEPT ![ev.unit] = <<>>] /\ <<>> \in Seq(Requests)
    BY <1>3 DEF ExitTask
  <2>2. inbox' \in [WorkIds -> Seq(Requests)]
    BY <2>1 DEF ThreadType
  <2>3. sub' \in [WorkIds -> {"none", "joining", "joined"}]
    BY <1>3 DEF ExitTask, ThreadType
  <2> QED BY <1>3, <2>2, <2>3 DEF ExitTask, ThreadType
<1>4. CASE Registered \/ SetupRefused
  <2>1. answer \in WorkIds /\ ev \in Events
    BY <1>4 DEF Registered, SetupRefused, DeleteInv, TypeInv, LoopType, EventInv
  <2>2. ClientOf(ev.req) \in Clients
    BY <2>1, EventFacts, RequestFacts
  <2>3. /\ channels' = channels \cup {answer}
        /\ push' = [push EXCEPT ![answer] = ClientOf(ev.req)]
        /\ sub' = sub \/ sub' = [sub EXCEPT ![answer] = "joining"]
        /\ UNCHANGED <<owed, inbox, run>>
    BY <1>4 DEF Registered, SetupRefused, NewChannel, subs
  <2> QED BY <2>1, <2>2, <2>3 DEF ThreadType
<1>5. CASE Released \/ TimesOut
  <2>1. /\ Dropped \/ UNCHANGED <<channels, push>>
        /\ UNCHANGED <<owed, sub, inbox, run>>
    BY <1>5 DEF Released, TimesOut, subs
  <2> QED BY <2>1 DEF Dropped, ThreadType
<1>6. ASSUME NEW w \in WorkIds, Joins(w) PROVE ThreadType'
  BY <1>6 DEF Joins, ThreadType, chans
<1>7. ASSUME NEW w \in WorkIds, TakeInference(w) PROVE ThreadType'
  <2>1. /\ inbox[w] \in Seq(Requests) /\ inbox[w] # <<>>
        /\ inbox' = [inbox EXCEPT ![w] = Tail(@)]
        /\ set_push_url(w, ClientOf(Head(inbox[w])))
        /\ UNCHANGED <<channels, sub>>
    BY <1>7 DEF TakeInference, ThreadType
  <2>2. Head(inbox[w]) \in Requests /\ Tail(inbox[w]) \in Seq(Requests)
    BY <2>1
  <2>3. \A n \in {0, 1} : Run(Head(inbox[w]), n) \in Runs
    BY <2>2, UnitAssumption DEF Run, Runs
  <2>4. run' = run \/ \E n \in {0, 1} : run' = [run EXCEPT ![w] = Run(Head(inbox[w]), n)]
    BY <1>7 DEF TakeInference
  <2>5. run' \in [WorkIds -> {None} \cup Runs]
    BY <2>3, <2>4 DEF ThreadType
  <2>6. inbox' \in [WorkIds -> Seq(Requests)]
    BY <2>1, <2>2 DEF ThreadType
  <2>7. ClientOf(Head(inbox[w])) \in Clients
    BY <2>2, RequestFacts
  <2> QED BY <2>1, <2>5, <2>6, <2>7 DEF ThreadType, set_push_url
<1>8. ASSUME NEW w \in WorkIds, SendChunk(w) PROVE ThreadType'
  <2>1. /\ run[w] \in Runs
        /\ run' = [run EXCEPT ![w] = IF @.n = Chunks THEN None ELSE Run(@.req, @.n + 1)]
        /\ owed' = owed \/ owed' = owed \cup {w}
        /\ UNCHANGED <<channels, push, sub, inbox>>
    BY <1>8 DEF SendChunk, ThreadType
  <2>2. run[w].n # Chunks => Run(run[w].req, run[w].n + 1) \in Runs
    BY <2>1, UnitAssumption DEF Run, Runs
  <2>3. run' \in [WorkIds -> {None} \cup Runs]
    BY <2>1, <2>2 DEF ThreadType
  <2> QED BY <2>1, <2>3 DEF ThreadType
<1>9. ASSUME NEW c \in Clients, MatchStep(c) \/ Leave(c) PROVE ThreadType'
  BY <1>0, <1>9 DEF MatchStep, Refuse, Ignore, Throw, RemoteCall, CallDead, Lookup, AllocateStray,
                    Leave, chans, subs
<1>10. CASE SysStep \/ Tell \/ TellError \/ ExitRaces \/ CallHangs \/ UNCHANGED vars
  BY <1>0, <1>10 DEF SysStep, AllocateUnit, DeleteUnit, EraseUnit, Tell, TellError, ExitRaces,
                     CallHangs, vars, chans, subs
<1> QED
  BY <1>1, <1>2, <1>3, <1>4, <1>5, <1>6, <1>7, <1>8, <1>9, <1>10 DEF Next, LoopStep, UnitThread

\* The clients and what they heard keep their types: every answer goes to a
\* client.
LEMMA ClientStep ==
    ASSUME AllType, [Next]_vars
    PROVE  ClientType'
<1> USE DEF AllType
<1>0. ASSUME UNCHANGED <<gone, heard, asked>> PROVE ClientType'
  BY <1>0 DEF ClientType
<1>1. ASSUME NEW c \in Clients, Refuse(c) PROVE ClientType'
  <2>1. Current(c) \in Requests
    BY <1>1, AsksFacts DEF Refuse
  <2>2. \A id \in {None, Current(c)} : Reply(c, id, Current(c)) \in Answers
    BY <2>1 DEF Reply, Answers
  <2> QED BY <1>1, <2>2 DEF Refuse, ClientType, history
<1>2. ASSUME NEW c \in Clients, RemoteCall(c) \/ Lookup(c) PROVE ClientType'
  <2>1. UNCHANGED <<gone, heard>> /\ \E w : Ask(c, w)
    BY <1>2 DEF RemoteCall, Lookup, client
  <2> QED BY <2>1 DEF Ask, ClientType
<1>3. ASSUME NEW c \in Clients, Leave(c) PROVE ClientType'
  BY <1>3, UnitAssumption DEF Leave, ClientType, history
<1>4. CASE Tell \/ ExitTask \/ Registered
  <2>1. at \in {"handle", "register"} /\ ev \in Events /\ desk \in Desks
    BY <1>4 DEF Tell, ExitTask, Registered, EventInv, LoopType
  <2>2. Reply(desk.to, desk.id, ev.req) \in Answers
    BY <2>1, EventFacts DEF Reply, Answers, Desks
  <2>3. heard' = heard \/ heard' = heard \cup {Reply(desk.to, desk.id, ev.req)}
    BY <1>4 DEF Tell, ExitTask, Registered, Say
  <2>4. UNCHANGED <<gone, asked>>
    BY <1>4 DEF Tell, ExitTask, Registered, history
  <2> QED BY <2>2, <2>3, <2>4 DEF ClientType
<1>5. ASSUME NEW w \in WorkIds, TakeInference(w) PROVE ClientType'
  BY <1>0, <1>5 DEF TakeInference, client, history
<1>6. ASSUME NEW w \in WorkIds, SendChunk(w) PROVE ClientType'
  <2>1. run[w] \in Runs /\ push[w] \in Clients
    BY <1>6 DEF SendChunk, ThreadType, TaskInv
  <2>2. Reply(push[w], run[w].req, run[w].req) \in Answers
    BY <2>1 DEF Reply, Answers, Runs
  <2>3. heard' = heard \/ heard' = heard \cup {Reply(push[w], run[w].req, run[w].req)}
    BY <1>6 DEF SendChunk
  <2> QED BY <1>6, <2>2, <2>3 DEF SendChunk, ClientType, history
<1>7. ASSUME NEW c \in Clients, Ignore(c) \/ Throw(c) \/ CallDead(c) \/ AllocateStray(c)
      PROVE  ClientType'
  BY <1>0, <1>7 DEF Ignore, Throw, CallDead, AllocateStray, client, history
<1>8. ASSUME NEW w \in WorkIds, Joins(w) PROVE ClientType'
  BY <1>0, <1>8 DEF Joins, client, history
<1>9. CASE Publish \/ SysStep \/ UNCHANGED vars
  BY <1>0, <1>9 DEF Publish, SysStep, AllocateUnit, DeleteUnit, EraseUnit, vars, client, history
<1>10. CASE \/ TakeEvent \/ TellError \/ SetupRefused \/ Released \/ ExitRaces \/ CallHangs
            \/ TimesOut
  BY <1>0, <1>10 DEF TakeEvent, TellError, SetupRefused, Released, ExitRaces, CallHangs, TimesOut,
                     client, history
<1> QED
  BY <1>1, <1>2, <1>3, <1>4, <1>5, <1>6, <1>7, <1>8, <1>9, <1>10
     DEF Next, MatchStep, LoopStep, UnitThread

\* A task is made from the unit the manager has just handed over, and its
\* channel outlives it only until the release is answered or given up.
LEMMA TaskStep ==
    ASSUME DeleteInv, AllType, [Next]_vars
    PROVE  TaskInv'
<1> USE DEF AllType
<1> DEFINE taskVars == <<tasks, channels, at, ev, sub, run, push>>
<1>0. ASSUME UNCHANGED taskVars, alive' => alive PROVE TaskInv'
  BY <1>0 DEF TaskInv
<1>1. CASE TakeEvent
  <2>1. /\ at = "idle" /\ at' \in {"register", "handle", "stuck"} /\ events # <<>>
        /\ UNCHANGED <<tasks, channels, sub, run>>
        /\ \/ push' = push
           \/ push' = [push EXCEPT ![Head(events).unit] = ClientOf(Head(events).req)]
    BY <1>1 DEF TakeEvent, subs, set_push_url
  <2>2. ClientOf(Head(events).req) # None
    BY <2>1, EventFacts, RequestFacts, UnitAssumption
  <2>3. \A w \in WorkIds : push[w] # None => push'[w] # None
    BY <2>1, <2>2 DEF ThreadType
  <2>4. tasks \subseteq WorkIds
    BY DEF DeleteInv, TypeInv
  <2> QED BY <2>1, <2>3, <2>4 DEF TaskInv
<1>2. CASE Tell
  BY <1>2 DEF Tell, Say, TaskInv, chans, subs
<1>3. CASE ExitTask
  <2>1. /\ at = "handle" /\ ev.unit \in tasks /\ ev.unit \in WorkIds /\ channels = tasks
        /\ run[ev.unit] = None
    BY <1>3 DEF ExitTask, TaskInv, DeleteInv, TypeInv
  <2>2. /\ at' \in {"release", "stuck"} /\ tasks' = tasks \ {ev.unit}
        /\ sub' = [sub EXCEPT ![ev.unit] = "none"]
        /\ UNCHANGED <<ev, channels, run, push>>
    BY <1>3 DEF ExitTask, Say
  <2>3. \A w \in WorkIds : /\ sub'[w] # "none" => w \in tasks'
                           /\ run'[w] # None => sub'[w] = "joined"
    BY <2>1, <2>2 DEF TaskInv, ThreadType
  <2> QED BY <2>1, <2>2, <2>3 DEF TaskInv
<1>4. CASE Registered \/ SetupRefused
  <2> DEFINE w == answer
  <2>1. /\ w \in WorkIds /\ w \notin tasks /\ channels = tasks /\ ev \in Events
        /\ at = "register"
    BY <1>4 DEF Registered, SetupRefused, DeleteInv, TypeInv, HandedInv, TaskInv, EventInv, LoopType
  <2>2. ClientOf(ev.req) # None
    BY <2>1, EventFacts, RequestFacts, UnitAssumption
  <2>3. /\ channels' = channels \cup {w}
        /\ push' = [push EXCEPT ![w] = ClientOf(ev.req)]
        /\ run' = run
        /\ \/ /\ tasks' = tasks \cup {w} /\ sub' = [sub EXCEPT ![w] = "joining"]
              /\ at' \in {"idle", "stuck"}
           \/ /\ tasks' = tasks /\ sub' = sub /\ at' = at /\ alive' = FALSE
    BY <1>4 DEF Registered, SetupRefused, NewChannel, SendError, Say, subs, loop
  <2>5. sub[w] = "none" /\ run[w] = None
    BY <2>1 DEF TaskInv, ThreadType
  <2>6. \A v \in WorkIds : push'[v] = IF v = w THEN ClientOf(ev.req) ELSE push[v]
    BY <2>3 DEF ThreadType
  <2>7. \A v \in WorkIds : v # w => sub'[v] = sub[v]
    BY <2>3 DEF ThreadType
  <2>8. tasks \subseteq WorkIds
    BY DEF DeleteInv, TypeInv
  <2> HIDE DEF w
  <2>9. CASE /\ tasks' = tasks \cup {w} /\ sub' = [sub EXCEPT ![w] = "joining"]
             /\ at' \in {"idle", "stuck"}
    BY <2>1, <2>2, <2>3, <2>5, <2>6, <2>7, <2>8, <2>9 DEF TaskInv
  <2>10. CASE tasks' = tasks /\ sub' = sub /\ at' = at /\ alive' = FALSE
    BY <2>1, <2>2, <2>3, <2>6, <2>8, <2>10 DEF TaskInv
  <2> QED BY <2>3, <2>9, <2>10
<1>5. CASE Released \/ TimesOut
  <2>1. \/ UNCHANGED taskVars /\ (alive' => alive)
        \/ at = "release" /\ Dropped /\ UNCHANGED <<tasks, sub, run>>
    BY <1>5 DEF Released, TimesOut, subs
  <2>2. ASSUME at = "release", Dropped, UNCHANGED <<tasks, sub, run>> PROVE TaskInv'
    <3>1. /\ channels' = tasks /\ at' = "idle"
      BY <2>2 DEF TaskInv, Dropped
    <3>2. \A w \in tasks : push'[w] = push[w]
      BY <2>2 DEF TaskInv, Dropped, ThreadType, DeleteInv, TypeInv
    <3> QED BY <2>2, <3>1, <3>2 DEF TaskInv
  <2> QED BY <1>0, <2>1, <2>2
<1>6. CASE CallHangs
  BY <1>6 DEF CallHangs, TaskInv, chans, subs
<1>7. ASSUME NEW w \in WorkIds, Joins(w) PROVE TaskInv'
  BY <1>7 DEF Joins, TaskInv, ThreadType, loop, chans
<1>8. ASSUME NEW w \in WorkIds, TakeInference(w) \/ SendChunk(w) PROVE TaskInv'
  <2>1. /\ UNCHANGED <<tasks, channels, at, ev, sub>> /\ (alive' => alive)
        /\ \A v \in WorkIds : run'[v] # None => run[v] # None \/ sub[v] = "joined"
    BY <1>8 DEF TakeInference, SendChunk, SendError, loop, ThreadType
  <2>2. push' = push \/ \E c \in Clients : push' = [push EXCEPT ![w] = c]
    <3>1. CASE TakeInference(w)
      <4>1. Head(inbox[w]) \in Requests
        BY <3>1 DEF TakeInference, ThreadType
      <4> QED BY <3>1, <4>1, RequestFacts DEF TakeInference, set_push_url
    <3> QED BY <1>8, <3>1 DEF SendChunk
  <2>3. \A v \in WorkIds : push[v] # None => push'[v] # None
    BY <2>2, UnitAssumption DEF ThreadType
  <2>4. tasks \subseteq WorkIds
    BY DEF DeleteInv, TypeInv
  <2> QED BY <2>1, <2>3, <2>4 DEF TaskInv
<1>9. ASSUME NEW c \in Clients, MatchStep(c) \/ Leave(c) PROVE TaskInv'
  BY <1>0, <1>9 DEF MatchStep, Refuse, Ignore, Throw, RemoteCall, CallDead, Lookup, AllocateStray,
                    Leave, loop, chans, subs
<1>10. CASE Publish \/ SysStep \/ TellError \/ ExitRaces \/ UNCHANGED vars
  BY <1>0, <1>10 DEF Publish, SysStep, AllocateUnit, DeleteUnit, EraseUnit, TellError, ExitRaces,
                     vars, loop, chans, subs
<1> QED
  BY <1>1, <1>2, <1>3, <1>4, <1>5, <1>6, <1>7, <1>8, <1>9, <1>10 DEF Next, LoopStep, UnitThread

LEMMA AllTypeHolds == Spec => [](AllType /\ DeleteInv)
<1>1. AllType /\ DeleteInv /\ [Next]_vars => AllType'
  BY ManagerStep, LoopTypeStep, EventStep, ThreadStep, ClientStep, TaskStep DEF AllType
<1> QED BY <1>1, InitAll, DeleteHolds, PTL DEF Spec

(***************************************************************************)
(* The variables of the manager, the node and the clients keep their       *)
(* types.  This needs more than types: the loop always has an event and a  *)
(* session to answer to when it answers, a unit's thread never sends to a  *)
(* channel that points nowhere, and the IO thread between its lookup and   *)
(* its send is still at a message of the script.                           *)
(***************************************************************************)
THEOREM TypeCorrect == Spec => []TypeOK
<1>1. AllType /\ DeleteInv => TypeOK
  <2> SUFFICES ASSUME AllType, DeleteInv PROVE TypeOK
    OBVIOUS
  <2> USE DEF AllType, DeleteInv
  <2>1. \A w \in WorkIds : url[w] = <<>> \/ url[w] \in Numbers \X Numbers
    BY DEF ManagerType
  <2>2. \A i \in DOMAIN calls : calls[i] \in Calls
    BY DEF TypeInv
  <2>3. \A i \in DOMAIN events : events[i] \in Events
    BY DEF LoopType
  <2>4. \A w \in WorkIds : \A i \in DOMAIN inbox[w] : inbox[w][i] \in Requests
    BY DEF ThreadType
  <2>5. erasing \in {None} \cup Calls /\ answer \in WorkIds \cup {None}
        /\ key_sql \in [WorkIds -> {"none", "live", "freed", "stray"}] /\ tasks \subseteq WorkIds
    BY DEF TypeInv, Releases
  <2>6. heard \subseteq [to : Clients, id : Requests \cup {None}, of : Requests]
    BY DEF ClientType, Answers
  <2> QED
    BY <2>1, <2>2, <2>3, <2>4, <2>5, <2>6
       DEF TypeOK, ManagerType, LoopType, ThreadType, ClientType, Numbers
<1> QED BY <1>1, AllTypeHolds, PTL

(***************************************************************************)
(* The node never runs more than task_count_ tasks.  The test is for       *)
(* equality and counts channels, not tasks (llm_task_channel_.size() - 1   *)
(* == task_count_): it works because between two events the channels are   *)
(* exactly the tasks, and the new one is not among them.  The setup that   *)
(* meets the limit ends the node with the channel made and no task.        *)
(***************************************************************************)
THEOREM TasksLimited == Spec => []TaskLimit
<1>1. Init => TaskLimit
  BY FS_EmptySet, UnitAssumption DEF Init, TaskLimit
<1>2. ASSUME DeleteInv, AllType, TaskLimit, [Next]_vars PROVE TaskLimit'
  <2>0. /\ tasks \subseteq WorkIds /\ IsFiniteSet(tasks)
        /\ Cardinality(tasks) \in Nat /\ TaskCount \in Nat
    <3>1. IsFiniteSet(WorkIds)
      BY FS_Interval, UnitAssumption DEF WorkIds
    <3>2. tasks \subseteq WorkIds
      BY <1>2 DEF DeleteInv, TypeInv
    <3> QED BY <3>1, <3>2, FS_Subset, FS_CardinalityType, UnitAssumption
  <2>1. CASE tasks' = tasks
    BY <1>2, <2>1 DEF TaskLimit
  <2>2. CASE Registered
    <3>1. channels = tasks /\ answer \notin tasks
      BY <1>2, <2>2 DEF Registered, AllType, TaskInv, DeleteInv, HandedInv
    <3>2. Cardinality(tasks \cup {answer}) = Cardinality(tasks) + 1
      BY <2>0, <3>1, FS_AddElement
    <3>3. ASSUME ~Full(answer) PROVE Cardinality(tasks \cup {answer}) <= TaskCount
      BY <1>2, <2>0, <3>1, <3>2, <3>3 DEF Full, TaskLimit
    <3>4. ~Full(answer) /\ tasks' = tasks \cup {answer}
      BY <2>2 DEF Registered
    <3> QED BY <3>3, <3>4 DEF TaskLimit
  <2>3. CASE ExitTask
    <3>1. tasks' = tasks \ {ev.unit}
      BY <2>3 DEF ExitTask
    <3>2. Cardinality(tasks \ {ev.unit}) <= Cardinality(tasks)
      BY <2>0, FS_Subset
    <3>3. Cardinality(tasks \ {ev.unit}) \in Nat
      BY <2>0, FS_Subset, FS_CardinalityType
    <3> QED BY <1>2, <2>0, <3>1, <3>2, <3>3 DEF TaskLimit
  <2>4. Registered \/ ExitTask \/ tasks' = tasks
    BY <1>2 DEF Next, MatchStep, Refuse, Ignore, Throw, RemoteCall, CallDead, Lookup,
                AllocateStray, Leave, Publish, SysStep, AllocateUnit, DeleteUnit, EraseUnit, LoopStep, TakeEvent, Tell, TellError,
                SetupRefused, NewChannel, Released,
                ExitRaces, TimesOut, CallHangs, UnitThread, Joins, TakeInference, SendChunk,
                vars, chans
  <2> QED BY <2>1, <2>2, <2>3, <2>4
<1> QED BY <1>1, <1>2, AllTypeHolds, PTL DEF Spec

-----------------------------------------------------------------------------
\* Between its delete and its erase, the key leads to the deleted unit.
FreedInv == erasing # None => key_sql[erasing.unit] = "freed"

LEMMA FreedHolds == Spec => []FreedInv
<1>1. Init => FreedInv
  BY DEF Init, FreedInv
<1>2. ASSUME DeleteInv, FreedInv, [Next]_vars PROVE FreedInv'
  <2> USE DEF DeleteInv, FreedInv
  <2>1. CASE DeleteUnit
    <3>1. Head(calls).unit \in WorkIds
      <4>1. calls \in Seq(Calls) /\ calls # <<>> /\ Head(calls).op = "release"
        BY <1>2, <2>1 DEF DeleteUnit, TypeInv
      <4>2. Head(calls) = calls[1] /\ 1 \in DOMAIN calls
        BY <4>1, TailFacts
      <4> QED BY <1>2, <4>1, <4>2 DEF TypeInv, Releases
    <3> QED BY <1>2, <2>1, <3>1 DEF DeleteUnit, TypeInv
  <2>2. CASE AllocateUnit
    BY <2>2 DEF AllocateUnit
  <2>3. CASE EraseUnit
    BY <2>3 DEF EraseUnit
  <2>4. CASE TimesOut
    <3>1. /\ erasing' = IF erasing = None THEN None ELSE GivenUp(erasing)
          /\ UNCHANGED key_sql
      BY <2>4 DEF TimesOut, table
    <3>2. erasing # None => GivenUp(erasing).unit = erasing.unit
      BY <1>2 DEF TypeInv, Releases, Calls, GivenUp
    <3> QED BY <1>2, <3>1, <3>2
  <2>6. ASSUME NEW c \in Clients, AllocateStray(c) PROVE FreedInv'
    BY <2>6 DEF AllocateStray, sys
  <2>5. \/ AllocateUnit \/ DeleteUnit \/ EraseUnit \/ TimesOut \/ UNCHANGED <<key_sql, erasing>>
        \/ \E c \in Clients : AllocateStray(c)
    BY <1>2 DEF Next, MatchStep, Refuse, Ignore, Throw, RemoteCall, CallDead, Lookup,
                Leave, Publish, SysStep, LoopStep, TakeEvent, Tell, TellError, ExitTask, Registered,
                SetupRefused, NewChannel, Released,
                ExitRaces, CallHangs, UnitThread, Joins, TakeInference, SendChunk,
                vars, table, sys
  <2> QED BY <1>2, <2>1, <2>2, <2>3, <2>4, <2>5, <2>6
<1> QED BY <1>1, <1>2, DeleteHolds, PTL DEF Spec

\* Two free ports are enough for both searches.
LEMMA TwoFree ==
    ASSUME ~(Cardinality(Ports \ port_list) < 2),
           NEW p \in FirstFree(port_list), NEW q \in FirstFree(port_list \cup {p})
    PROVE  /\ p \in Ports \ port_list /\ q \in Ports \ port_list /\ p # q
           /\ Cardinality({p, q}) = 2
<1>1. IsFiniteSet(Ports)
  BY FS_Interval, UnitAssumption DEF Ports
<1>2. IsFiniteSet(Ports \ port_list) /\ Cardinality(Ports \ port_list) \in Nat
  BY <1>1, FS_Subset, FS_CardinalityType
<1>3. ASSUME NEW x, Ports \subseteq port_list \cup {x} PROVE FALSE
  <2>1. Ports \ port_list \in SUBSET {x}
    BY <1>3
  <2>2. IsFiniteSet({x}) /\ Cardinality({x}) = 1
    BY FS_Singleton
  <2>3. Cardinality(Ports \ port_list) <= 1
    BY <2>1, <2>2, FS_Subset
  <2> QED BY <1>2, <2>3
<1>4. ~(Ports \subseteq port_list) /\ ~(Ports \subseteq port_list \cup {p})
  BY <1>3
<1>5. p \in Ports \ port_list
  BY <1>4, FirstFreeFacts
<1>6. q \in Ports \ (port_list \cup {p})
  BY <1>4, FirstFreeFacts
<1>7. Cardinality({p} \cup {q}) = Cardinality({p}) + 1 /\ Cardinality({p}) = 1
  BY <1>6, FS_Singleton, FS_AddElement
<1>8. {p, q} = {p} \cup {q}
  OBVIOUS
<1> QED BY <1>5, <1>6, <1>7, <1>8

\* A unit and its two ports come into the table together.
LEMMA AllocatePorts ==
    ASSUME DeleteInv, AllType, PortsExclusive, counter \in WorkIds, sys_allocate_unit,
           NEW k \in {"live", "stray"}, key_sql' = [key_sql EXCEPT ![counter] = k]
    PROVE  PortsExclusive'
<1> SUFFICES ASSUME ~starved' PROVE PortsExclusive'
  BY DEF PortsExclusive
<1> USE DEF DeleteInv, AllType
<1>0. PICK n \in WorkIds : n = counter
  OBVIOUS
<1>1. key_sql' = [key_sql EXCEPT ![n] = k]
  BY <1>0
<1>2. PICK p \in FirstFree(port_list) : \E q \in FirstFree(port_list \cup {p}) :
         /\ url' = [url EXCEPT ![counter] = <<p, q>>]
         /\ port_list' = port_list \cup ({p, q} \cap Ports)
         /\ starved' = (starved \/ Cardinality(Ports \ port_list) < 2)
  BY DEF sys_allocate_unit
<1>3. PICK q \in FirstFree(port_list \cup {p}) :
         /\ url' = [url EXCEPT ![counter] = <<p, q>>]
         /\ port_list' = port_list \cup ({p, q} \cap Ports)
         /\ starved' = (starved \/ Cardinality(Ports \ port_list) < 2)
  BY <1>2
<1>4. ~starved /\ ~(Cardinality(Ports \ port_list) < 2)
  BY <1>3
<1>5. /\ p \in Ports \ port_list /\ q \in Ports \ port_list
      /\ Cardinality({p, q}) = 2
  BY <1>4, TwoFree
<1>6. /\ port_list = UNION {PortsOf(w) : w \in Allocated}
      /\ \A w \in Allocated : Cardinality(PortsOf(w)) = 2
      /\ \A v, w \in Allocated : v # w => PortsOf(v) \cap PortsOf(w) = {}
  BY <1>4 DEF PortsExclusive
<1>7. n \notin Allocated
  BY <1>0 DEF FreshInv, Allocated, TypeInv, WorkIds
<1>8. Allocated' = Allocated \cup {n}
  BY <1>1 DEF Allocated, TypeInv
<1>9. \A w \in WorkIds : w # n => PortsOf(w)' = PortsOf(w)
  BY <1>0, <1>3 DEF PortsOf, ManagerType
<1>10. PortsOf(n)' = {p, q}
  <2>1. url'[n] = <<p, q>>
    BY <1>0, <1>3 DEF ManagerType
  <2> QED BY <2>1 DEF PortsOf
<1>11. port_list' = port_list \cup {p, q}
  BY <1>3, <1>5
<1>12. \A w \in Allocated : w \in WorkIds /\ w # n /\ PortsOf(w) \subseteq port_list
  BY <1>6, <1>7 DEF Allocated
<1> HIDE DEF Allocated, PortsOf
<1>13. port_list' = UNION {PortsOf(w)' : w \in Allocated'}
  BY <1>6, <1>8, <1>9, <1>10, <1>11, <1>12
<1>14. \A w \in Allocated' : Cardinality(PortsOf(w)') = 2
  BY <1>5, <1>6, <1>8, <1>9, <1>10, <1>12
<1>15. \A v, w \in Allocated' : v # w => PortsOf(v)' \cap PortsOf(w)' = {}
  BY <1>5, <1>6, <1>8, <1>9, <1>10, <1>12
<1> QED BY <1>13, <1>14, <1>15 DEF PortsExclusive

\* They leave it together: the unit that is deleted is in the table.
LEMMA DeletePorts ==
    ASSUME DeleteInv, AllType, PortsExclusive, DeleteUnit
    PROVE  PortsExclusive'
<1> SUFFICES ASSUME ~starved' PROVE PortsExclusive'
  BY DEF PortsExclusive
<1> USE DEF DeleteInv, AllType
<1> DEFINE w == Head(calls).unit
<1>1. ~starved /\ erasing = None
  BY DEF DeleteUnit, history
<1>2. CASE key_sql[w] \in {"none", "stray"}
  <2>1. UNCHANGED <<port_list, key_sql, url, starved>>
    BY <1>2 DEF DeleteUnit, history
  <2> QED BY <2>1 DEF PortsExclusive, Allocated, PortsOf
<1>3. CASE key_sql[w] \notin {"none", "stray"}
  <2>1. w \in WorkIds
    <3>1. calls \in Seq(Calls) /\ calls # <<>> /\ Head(calls).op = "release"
      BY DEF DeleteUnit, TypeInv
    <3>2. Head(calls) = calls[1] /\ 1 \in DOMAIN calls
      BY <3>1, TailFacts
    <3> QED BY <3>1, <3>2 DEF TypeInv, Releases
  <2>2. key_sql[w] = "live"
    BY <1>1, <1>3, <2>1 DEF TypeInv, DeletedAfterTask
  <2>3. /\ port_list' = port_list \ PortsOf(w)
        /\ key_sql' = [key_sql EXCEPT ![w] = "freed"]
        /\ url' = [url EXCEPT ![w] = <<>>]
    BY <1>3 DEF DeleteUnit, PortsOf
  <2> HIDE DEF w
  <2>4. /\ port_list = UNION {PortsOf(v) : v \in Allocated}
        /\ \A v \in Allocated : Cardinality(PortsOf(v)) = 2
        /\ \A u, v \in Allocated : u # v => PortsOf(u) \cap PortsOf(v) = {}
    BY <1>1 DEF PortsExclusive
  <2>5. w \in Allocated /\ Allocated' = Allocated \ {w}
    BY <2>1, <2>2, <2>3 DEF Allocated, TypeInv
  <2>6. \A v \in Allocated : v # w => PortsOf(v)' = PortsOf(v)
    BY <2>1, <2>3 DEF PortsOf, ManagerType, Allocated
  <2> HIDE DEF Allocated, PortsOf
  <2>7. port_list' = UNION {PortsOf(v)' : v \in Allocated'}
    BY <2>3, <2>4, <2>5, <2>6
  <2>8. \A v \in Allocated' : Cardinality(PortsOf(v)') = 2
    BY <2>4, <2>5, <2>6
  <2>9. \A u, v \in Allocated' : u # v => PortsOf(u)' \cap PortsOf(v)' = {}
    BY <2>4, <2>5, <2>6
  <2> QED BY <2>7, <2>8, <2>9 DEF PortsExclusive
<1> QED BY <1>2, <1>3

(***************************************************************************)
(* No two units of the table share a port, no unit has one port twice, and *)
(* port_list marks exactly the ports of the units in the table, as long as *)
(* sys_allocate_unit has never met a list with fewer than two free ports.  *)
(***************************************************************************)
THEOREM PortsNotShared == Spec => []PortsExclusive
<1>1. Init => PortsExclusive
  <2> SUFFICES ASSUME Init PROVE PortsExclusive
    OBVIOUS
  <2>1. Allocated = {} /\ port_list = {}
    BY DEF Init, Allocated
  <2> QED BY <2>1 DEF PortsExclusive
<1>2. ASSUME DeleteInv, AllType, FreedInv, PortsExclusive, [Next]_vars PROVE PortsExclusive'
  <2>1. CASE EraseUnit
    <3>1. /\ key_sql' = [key_sql EXCEPT ![erasing.unit] = "none"]
          /\ UNCHANGED <<port_list, url, starved>> /\ erasing # None
      BY <2>1 DEF EraseUnit, history
    <3>2. erasing.unit \in WorkIds
      BY <1>2, <3>1 DEF DeleteInv, TypeInv, Releases
    <3>3. Allocated' = Allocated
      BY <1>2, <3>1, <3>2 DEF Allocated, FreedInv, DeleteInv, TypeInv
    <3> QED BY <1>2, <3>1, <3>3 DEF PortsExclusive, PortsOf
  <2>2. \/ AllocateUnit \/ DeleteUnit \/ EraseUnit \/ UNCHANGED <<key_sql, port_list, url, starved>>
        \/ \E c \in Clients : AllocateStray(c)
    BY <1>2 DEF Next, MatchStep, Refuse, Ignore, Throw, RemoteCall, CallDead, Lookup,
                Leave, Publish, SysStep, LoopStep, TakeEvent, Tell, TellError, ExitTask, Registered,
                SetupRefused, NewChannel, Released,
                ExitRaces, TimesOut, CallHangs, UnitThread, Joins, TakeInference, SendChunk,
                vars, table, history
  <2>3. CASE UNCHANGED <<key_sql, port_list, url, starved>>
    BY <1>2, <2>3 DEF PortsExclusive, Allocated, PortsOf
  <2>4. CASE AllocateUnit
    <3>1. /\ counter \in WorkIds /\ sys_allocate_unit
          /\ key_sql' = [key_sql EXCEPT ![counter] = "live"]
      BY <2>4 DEF AllocateUnit
    <3> QED BY <1>2, <3>1, AllocatePorts
  <2>5. ASSUME NEW c \in Clients, AllocateStray(c) PROVE PortsExclusive'
    <3>1. /\ counter \in WorkIds /\ sys_allocate_unit
          /\ key_sql' = [key_sql EXCEPT ![counter] = "stray"]
      BY <2>5 DEF AllocateStray
    <3> QED BY <1>2, <3>1, AllocatePorts
  <2> QED BY <1>2, <2>1, <2>2, <2>3, <2>4, <2>5, DeletePorts
<1> QED BY <1>1, <1>2, AllTypeHolds, FreedHolds, PTL DEF Spec

-----------------------------------------------------------------------------
LEMMA InitAgree == Init => AgreeInv
<1> SUFFICES ASSUME Init PROVE AgreeInv
  OBVIOUS
<1>1. Live = {}
  BY DEF Init, Live
<1> QED BY <1>1 DEF Init, AgreeInv, WaitInv, PendingInv, RegisterInv, UnitsAgree

\* Steps that leave manager and loop alone, or in which one of them only dies.
LEMMA QuietAgrees ==
    ASSUME AgreeInv, up' => up, alive' => alive,
           UNCHANGED <<counter, key_sql, calls, erasing, at, ev, answer, channels, tasks>>
    PROVE  AgreeInv'
  BY DEF AgreeInv, WaitInv, PendingInv, RegisterInv, UnitsAgree, Live, Releasing, Pending

\* The call that is served waits only if the loop waits for it.
LEMMA ServedCall ==
    ASSUME DeleteInv, AllType, AgreeInv, up, erasing = None, calls # <<>>
    PROVE  /\ calls[1] \in Calls /\ 1 \in DOMAIN calls /\ Head(calls) = calls[1]
           /\ calls[1].waits => answer = None /\ at = calls[1].op
           /\ calls[1].waits /\ at = "release" => calls[1] = Release(ev.unit, TRUE)
           /\ \A i \in DOMAIN Tail(calls) : i + 1 \in DOMAIN calls /\ Tail(calls)[i] = calls[i + 1]
           /\ \A i \in DOMAIN calls : i # 1 => \E j \in DOMAIN Tail(calls) : i = j + 1
<1> USE DEF DeleteInv, AgreeInv
<1>1. calls \in Seq(Calls)
  BY DEF TypeInv
<1>2. /\ calls[1] \in Calls /\ 1 \in DOMAIN calls /\ Head(calls) = calls[1]
      /\ \A i \in DOMAIN Tail(calls) : i + 1 \in DOMAIN calls /\ Tail(calls)[i] = calls[i + 1]
  BY <1>1, TailFacts
<1>3. ASSUME NEW i \in DOMAIN calls, i # 1 PROVE \E j \in DOMAIN Tail(calls) : i = j + 1
  <2>1. i - 1 \in DOMAIN Tail(calls) /\ i = (i - 1) + 1
    BY <1>1, <1>3
  <2> QED BY <2>1
<1>4. calls[1].waits => answer = None /\ at = calls[1].op
  BY <1>2 DEF CallInv
<1>5. ASSUME calls[1].waits, at = "release" PROVE calls[1] = Release(ev.unit, TRUE)
  <2>1. answer = None
    BY <1>4, <1>5
  <2>2. Release(ev.unit, TRUE) # None
    <3>1. ev.unit \in WorkIds
      BY <1>5 DEF TaskInv, AllType
    <3>2. Release(ev.unit, TRUE) \in Calls
      BY <3>1, ReleaseFacts
    <3> QED BY <3>2, UnitAssumption
  <2>3. PICK i \in DOMAIN calls : calls[i] = Release(ev.unit, TRUE)
    BY <1>5, <2>1, <2>2 DEF WaitInv
  <2>4. calls[i].waits
    BY <2>3 DEF Release
  <2>5. i = 1
    BY <1>2, <1>5, <2>4 DEF CallInv
  <2> QED BY <2>3, <2>5
<1> QED BY <1>2, <1>3, <1>4, <1>5

\* A new unit is handed to the loop, unless the node has died.
LEMMA AllocateAgrees ==
    ASSUME DeleteInv, AllType, AgreeInv, AllocateUnit
    PROVE  AgreeInv'
<1> USE DEF AgreeInv
<1>0. PICK n \in WorkIds : n = counter
  BY DEF AllocateUnit
<1>1. /\ up /\ erasing = None /\ calls # <<>> /\ Head(calls).op = "register"
      /\ key_sql' = [key_sql EXCEPT ![n] = "live"] /\ counter' = n + 1
      /\ answer' = IF Head(calls).waits THEN n ELSE answer
      /\ calls' = Tail(calls)
      /\ UNCHANGED <<up, alive, erasing, at, ev, channels, tasks>>
  BY <1>0 DEF AllocateUnit, loop, chans
<1>2. /\ calls[1] \in Calls /\ 1 \in DOMAIN calls /\ Head(calls) = calls[1]
      /\ calls[1].waits => answer = None /\ at = "register"
      /\ \A i \in DOMAIN calls' : i + 1 \in DOMAIN calls /\ calls'[i] = calls[i + 1]
      /\ \A i \in DOMAIN calls : i # 1 => \E j \in DOMAIN calls' : i = j + 1
  BY <1>1, ServedCall
<1>3. Live' = Live \cup {n}
  BY <1>1 DEF Live, DeleteInv, TypeInv
<1>4. \A w : Pending(w) => Pending(w)'
  <2>1. ASSUME NEW i \in DOMAIN calls, calls[i].op = "release"
        PROVE  \E j \in DOMAIN calls' : calls'[j] = calls[i]
    BY <1>1, <1>2, <2>1
  <2> QED BY <1>1, <2>1 DEF Pending
<1>5. \A w : Pending(w)' => Pending(w)
  BY <1>1, <1>2 DEF Pending
<1>6. WaitInv'
  <2> SUFFICES ASSUME at = "release" PROVE WaitInv'
    BY <1>1 DEF WaitInv
  <2>1. answer' = answer
    BY <1>1, <1>2
  <2>2. ev.unit \in WorkIds /\ ev.unit < n
    BY <1>0 DEF WaitInv, TaskInv, AllType
  <2>3. key_sql'[ev.unit] = key_sql[ev.unit] /\ ev.unit < n + 1
    BY <1>1, <2>2 DEF DeleteInv, TypeInv, WorkIds
  <2>4. ASSUME answer = None
        PROVE  \/ \E i \in DOMAIN calls' : calls'[i] = Release(ev.unit, TRUE)
               \/ erasing = Release(ev.unit, TRUE)
    <3>1. CASE erasing = Release(ev.unit, TRUE)
      BY <3>1
    <3>2. ASSUME NEW i \in DOMAIN calls, calls[i] = Release(ev.unit, TRUE)
          PROVE  \E j \in DOMAIN calls' : calls'[j] = Release(ev.unit, TRUE)
      <4>1. i # 1
        BY <1>1, <1>2, <3>2 DEF Release
      <4> QED BY <1>2, <3>2, <4>1
    <3> QED BY <2>4, <3>1, <3>2 DEF WaitInv
  <2> QED BY <1>1, <2>1, <2>3, <2>4 DEF WaitInv
<1>7. PendingInv'
  BY <1>1, <1>5 DEF PendingInv
<1>8. RegisterInv'
  BY <1>1, <1>2 DEF RegisterInv
<1>9. UnitsAgree'
  <2>0. \A w : Releasing(w) => Releasing(w)'
    BY <1>1, <1>4 DEF Releasing, Pending
  <2>1. \A w \in channels : w \in Live' \/ Releasing(w)'
    BY <1>3, <2>0 DEF UnitsAgree
  <2>2. ASSUME alive, NEW w \in Live' PROVE w \in channels \cup {answer'} \/ Releasing(w)'
    <3>1. calls[1].waits /\ answer' = n /\ answer = None
      BY <1>1, <1>2, <2>2 DEF RegisterInv
    <3>2. w = n \/ (w \in Live /\ w # None)
      BY <1>3, UnitAssumption DEF Live
    <3> QED BY <1>1, <2>0, <2>2, <3>1, <3>2 DEF UnitsAgree
  <2>3. at' = "idle" => channels' = tasks'
    BY <1>1 DEF UnitsAgree
  <2> QED BY <1>1, <2>1, <2>2, <2>3 DEF UnitsAgree
<1> QED BY <1>6, <1>7, <1>8, <1>9

\* A unit that a client registers is none of the node's.
LEMMA StrayAgrees ==
    ASSUME DeleteInv, AllType, AgreeInv, NEW c \in Clients, AllocateStray(c)
    PROVE  AgreeInv'
<1> USE DEF AgreeInv
<1>0. PICK n \in WorkIds : n = counter
  BY DEF AllocateStray
<1>1. /\ key_sql' = [key_sql EXCEPT ![n] = "stray"] /\ counter' = n + 1
      /\ UNCHANGED <<up, alive, calls, erasing, at, ev, answer, channels, tasks>>
  BY <1>0 DEF AllocateStray, sys, loop, chans
<1>2. \A w \in WorkIds : w < n => key_sql'[w] = key_sql[w]
  BY <1>0, <1>1 DEF DeleteInv, TypeInv, WorkIds
<1>3. Live' = Live
  <2>1. key_sql[n] # "live"
    BY <1>0 DEF DeleteInv, FreshInv, TypeInv, WorkIds
  <2> QED BY <1>1, <2>1 DEF Live, DeleteInv, TypeInv
<1>4. WaitInv'
  <2> SUFFICES ASSUME at = "release" PROVE WaitInv'
    BY <1>1 DEF WaitInv
  <2>1. ev.unit \in WorkIds /\ ev.unit < n
    BY <1>0 DEF WaitInv, TaskInv, AllType
  <2>2. ev.unit < n + 1
    BY <2>1 DEF WorkIds
  <2> QED BY <1>1, <1>2, <2>1, <2>2 DEF WaitInv
<1>5. PendingInv' /\ RegisterInv'
  BY <1>1 DEF PendingInv, RegisterInv, Pending
<1>6. UnitsAgree'
  BY <1>1, <1>3 DEF UnitsAgree, Releasing
<1> QED BY <1>4, <1>5, <1>6

\* A unit is deleted while the loop waits for it, or when its channel is gone.
LEMMA DeleteAgrees ==
    ASSUME DeleteInv, AllType, AgreeInv, DeleteUnit
    PROVE  AgreeInv'
<1> USE DEF AgreeInv
<1>0. PICK e \in Calls : e = Head(calls)
  BY ServedCall DEF DeleteUnit
<1>1. /\ up /\ erasing = None /\ calls # <<>> /\ e.op = "release" /\ calls' = Tail(calls)
      /\ UNCHANGED <<counter, alive, at, ev, channels, tasks>>
  BY <1>0 DEF DeleteUnit, loop, chans, history
<1>2. /\ 1 \in DOMAIN calls /\ calls[1] = e
      /\ e.waits => answer = None /\ at = "release" /\ e = Release(ev.unit, TRUE)
      /\ \A i \in DOMAIN calls' : i + 1 \in DOMAIN calls /\ calls'[i] = calls[i + 1]
      /\ \A i \in DOMAIN calls : i # 1 => \E j \in DOMAIN calls' : i = j + 1
  BY <1>0, <1>1, ServedCall
<1>3. e \in Releases /\ e.unit \in WorkIds /\ e # None
  BY <1>1, <1>2, UnitAssumption DEF DeleteInv, TypeInv, Releases
<1>4. Release(ev.unit, TRUE).unit = ev.unit /\ Release(ev.unit, TRUE).waits = TRUE
  BY DEF Release
<1>5. at = "release" => Release(ev.unit, TRUE) # None
  BY ReleaseFacts, UnitAssumption DEF TaskInv, AllType
<1>6. ASSUME NEW w \in channels, Pending(w) PROVE at = "release" /\ ev.unit = w
  BY <1>1, <1>6 DEF PendingInv
<1>7. Pending(e.unit)
  BY <1>1, <1>2 DEF Pending
<1>8. CASE key_sql[e.unit] \in {"none", "stray"}
  <2>1. /\ answer' = IF e.waits THEN e.unit ELSE answer
        /\ UNCHANGED <<key_sql, erasing, up>>
    BY <1>0, <1>8 DEF DeleteUnit, Answered
  <2>2. \A w : Pending(w)' => Pending(w)
    BY <1>1, <1>2, <2>1 DEF Pending
  <2>3. \A w \in channels : Pending(w) => Releasing(w)'
    BY <1>1, <1>6 DEF Releasing
  <2>4. WaitInv'
    <3> SUFFICES ASSUME at = "release" PROVE WaitInv'
      BY <1>1 DEF WaitInv
    <3>1. CASE e.waits
      BY <1>1, <1>2, <1>3, <1>4, <1>8, <2>1, <3>1, UnitAssumption DEF WaitInv
    <3>2. CASE ~e.waits
      <4>1. ASSUME answer = None
            PROVE  \E j \in DOMAIN calls' : calls'[j] = Release(ev.unit, TRUE)
        <5>1. PICK i \in DOMAIN calls : calls[i] = Release(ev.unit, TRUE)
          BY <1>1, <1>5, <4>1 DEF WaitInv
        <5>2. i # 1
          BY <1>2, <1>4, <3>2, <5>1
        <5>3. PICK j \in DOMAIN calls' : i = j + 1
          BY <1>2, <5>2
        <5> QED BY <1>2, <5>1, <5>3
      <4> QED BY <1>1, <2>1, <3>2, <4>1 DEF WaitInv
    <3> QED BY <3>1, <3>2
  <2>5. PendingInv' /\ RegisterInv'
    BY <1>1, <1>2, <2>1, <2>2 DEF PendingInv, RegisterInv
  <2>6. UnitsAgree'
    <3>1. Live' = Live
      BY <2>1 DEF Live
    <3>2. \A w \in channels : Releasing(w) => Releasing(w)'
      BY <1>1, <2>3 DEF Releasing, Pending
    <3>3. ASSUME NEW w \in Live, Releasing(w) PROVE Releasing(w)'
      <4>1. w # e.unit
        BY <1>8 DEF Live
      <4>2. \A i \in DOMAIN calls : i = 1 \/ \E j \in DOMAIN calls' : calls'[j] = calls[i]
        BY <1>2
      <4> QED BY <1>1, <1>2, <2>1, <3>3, <4>1, <4>2 DEF Releasing
    <3>4. ASSUME up, alive, NEW w \in Live PROVE w \in channels \cup {answer'} \/ Releasing(w)'
      <4>1. w # None /\ (w \in channels \cup {answer} \/ Releasing(w))
        BY <3>4, UnitAssumption DEF Live, UnitsAgree
      <4> QED BY <1>2, <2>1, <3>3, <4>1
    <3>5. \A w \in channels' : w \in Live' \/ Releasing(w)'
      BY <1>1, <3>1, <3>2 DEF UnitsAgree
    <3>6. at' = "idle" => channels' = tasks'
      BY <1>1 DEF UnitsAgree
    <3> QED BY <1>1, <2>1, <3>1, <3>4, <3>5, <3>6 DEF UnitsAgree
  <2> QED BY <2>4, <2>5, <2>6
<1>9. CASE key_sql[e.unit] \notin {"none", "stray"}
  <2>1. /\ key_sql' = [key_sql EXCEPT ![e.unit] = "freed"]
        /\ erasing' = e /\ answer' = answer
    BY <1>0, <1>9 DEF DeleteUnit
  <2>2. \A w : Pending(w)' <=> Pending(w)
    <3>1. \A w : Pending(w)' => Pending(w)
      BY <1>1, <1>2, <2>1 DEF Pending
    <3>2. \A i \in DOMAIN calls : i = 1 \/ \E j \in DOMAIN calls' : calls'[j] = calls[i]
      BY <1>2
    <3>3. \A w : Pending(w) => Pending(w)'
      BY <1>1, <1>2, <1>3, <2>1, <3>2 DEF Pending
    <3> QED BY <3>1, <3>3
  <2>3. Live' \subseteq Live /\ \A w \in Live : w = e.unit \/ w \in Live'
    BY <1>3, <2>1 DEF Live, DeleteInv, TypeInv
  <2>4. WaitInv'
    <3> SUFFICES ASSUME at = "release" PROVE WaitInv'
      BY <1>1 DEF WaitInv
    <3>1. ASSUME answer = None
          PROVE  \/ \E j \in DOMAIN calls' : calls'[j] = Release(ev.unit, TRUE)
                 \/ e = Release(ev.unit, TRUE)
      <4>1. PICK i \in DOMAIN calls : calls[i] = Release(ev.unit, TRUE)
        BY <1>1, <1>5, <3>1 DEF WaitInv
      <4> QED BY <1>2, <4>1
    <3>2. answer # None => key_sql'[ev.unit] # "live"
      BY <2>1 DEF WaitInv, DeleteInv, TypeInv, TaskInv, AllType
    <3> QED BY <1>1, <2>1, <3>1, <3>2 DEF WaitInv
  <2>5. PendingInv'
    BY <1>1, <2>2 DEF PendingInv
  <2>6. RegisterInv'
    BY <1>1, <1>2, <2>1 DEF RegisterInv
  <2>7. UnitsAgree'
    <3>1. \A w : Releasing(w) => Releasing(w)'
      BY <1>1, <2>2 DEF Releasing, Pending
    <3>2. Releasing(e.unit)'
      BY <1>3, <2>1 DEF Releasing
    <3>3. \A w \in channels' : w \in Live' \/ Releasing(w)'
      BY <1>1, <2>3, <3>1, <3>2 DEF UnitsAgree
    <3>4. up' /\ alive' => \A w \in Live' : w \in channels' \cup {answer'} \/ Releasing(w)'
      BY <1>1, <2>1, <2>3, <3>1 DEF UnitsAgree
    <3>5. at' = "idle" => channels' = tasks'
      BY <1>1 DEF UnitsAgree
    <3> QED BY <3>3, <3>4, <3>5 DEF UnitsAgree
  <2> QED BY <2>4, <2>5, <2>6, <2>7
<1> QED BY <1>8, <1>9

\* The answer to a release says that the key is gone.
LEMMA EraseAgrees ==
    ASSUME DeleteInv, AllType, FreedInv, AgreeInv, EraseUnit
    PROVE  AgreeInv'
<1> USE DEF AgreeInv
<1>0. PICK e \in Releases : e = erasing
  BY DEF EraseUnit, DeleteInv, TypeInv
<1>1. /\ up /\ erasing # None /\ erasing' = None
      /\ key_sql' = [key_sql EXCEPT ![e.unit] = "none"]
      /\ answer' = IF e.waits THEN e.unit ELSE answer
      /\ UNCHANGED <<counter, up, alive, calls, at, ev, channels, tasks>>
  BY <1>0 DEF EraseUnit, Answered, loop, chans, history
<1>2. e.unit \in WorkIds /\ key_sql[e.unit] = "freed"
  BY <1>0, <1>1 DEF Releases, FreedInv
<1>3. Live' = Live
  BY <1>1, <1>2 DEF Live, DeleteInv, TypeInv
<1>4. Release(ev.unit, TRUE).unit = ev.unit /\ Release(ev.unit, TRUE).waits = TRUE
  BY DEF Release
<1>5. e.waits => /\ answer = None /\ at = "release" /\ e.unit = ev.unit
                 /\ \A i \in DOMAIN calls : ~calls[i].waits
  BY <1>0, <1>1, <1>4 DEF DeleteInv, CallInv, WaitInv
<1>6. \A w : Pending(w)' => Pending(w)
  BY <1>1 DEF Pending
<1>7. WaitInv'
  <2> SUFFICES ASSUME at = "release" PROVE WaitInv'
    BY <1>1 DEF WaitInv
  <2>1. ev.unit \in WorkIds
    BY DEF TaskInv, AllType
  <2>2. key_sql[ev.unit] # "live" => key_sql'[ev.unit] # "live"
    BY <1>1, <2>1 DEF DeleteInv, TypeInv
  <2>3. CASE e.waits
    BY <1>1, <1>2, <1>5, <2>2, <2>3, UnitAssumption DEF WaitInv
  <2>4. CASE ~e.waits
    BY <1>0, <1>1, <1>4, <2>2, <2>4 DEF WaitInv
  <2> QED BY <2>3, <2>4
<1>8. PendingInv' /\ RegisterInv'
  BY <1>1, <1>6 DEF PendingInv, RegisterInv
<1>9. UnitsAgree'
  <2>1. ASSUME NEW w \in channels, Releasing(w) PROVE Releasing(w)'
    <3>1. Pending(w) => at = "release" /\ ev.unit = w
      BY <1>1 DEF PendingInv
    <3> QED BY <1>1, <2>1, <3>1 DEF Releasing, Pending
  <2>2. ASSUME NEW w \in Live, Releasing(w) PROVE Releasing(w)'
    <3>1. w # e.unit
      BY <1>2 DEF Live
    <3> QED BY <1>0, <1>1, <2>2, <3>1 DEF Releasing
  <2>3. ASSUME alive, NEW w \in Live PROVE w \in channels \cup {answer'} \/ Releasing(w)'
    <3>1. w # None /\ (w \in channels \cup {answer} \/ Releasing(w))
      BY <1>1, <2>3, UnitAssumption DEF Live, UnitsAgree
    <3> QED BY <1>1, <1>5, <2>2, <3>1
  <2>4. at' = "idle" => channels' = tasks'
    BY <1>1 DEF UnitsAgree
  <2>5. \A w \in channels' : w \in Live' \/ Releasing(w)'
    BY <1>1, <1>3, <2>1 DEF UnitsAgree
  <2> QED BY <1>1, <1>3, <2>3, <2>4, <2>5 DEF UnitsAgree
<1> QED BY <1>7, <1>8, <1>9

\* At the loop's other places no channel's release is pending.
LEMMA NotPending ==
    ASSUME AgreeInv, up, at # "release"
    PROVE  \A w \in channels : ~Pending(w)
  BY DEF AgreeInv, PendingInv

\* One call more.
LEMMA PendingMore ==
    ASSUME DeleteInv, NEW e \in Calls, calls' = Append(calls, e), UNCHANGED erasing
    PROVE  /\ \A w : Pending(w) => Pending(w)'
           /\ \A w : Pending(w)' => Pending(w) \/ (e.op = "release" /\ e.unit = w)
           /\ \E i \in DOMAIN calls' : calls'[i] = e
           /\ \A i \in DOMAIN calls' : \/ i \in DOMAIN calls /\ calls'[i] = calls[i]
                                       \/ calls'[i] = e
<1>1. calls \in Seq(Calls)
  BY DEF DeleteInv, TypeInv
<1>2. /\ \A i \in DOMAIN calls : i \in DOMAIN calls' /\ calls'[i] = calls[i]
      /\ \A i \in DOMAIN calls' : (i \in DOMAIN calls /\ calls'[i] = calls[i]) \/ calls'[i] = e
      /\ Len(calls) + 1 \in DOMAIN calls' /\ calls'[Len(calls) + 1] = e
  BY <1>1
<1> QED BY <1>2 DEF Pending

\* The loop takes an event or answers it.
LEMMA TakeAgrees ==
    ASSUME DeleteInv, AllType, AgreeInv, TakeEvent \/ Tell
    PROVE  AgreeInv'
<1> USE DEF AgreeInv
<1>1. /\ alive /\ at \in {"idle", "handle"} /\ at' # "release"
      /\ at' = "idle" => at = "handle"
      /\ UNCHANGED <<counter, key_sql, up, erasing, answer, channels, tasks>>
  BY DEF TakeEvent, Tell, Say, table, chans, sys, history
<1>2. calls' = calls \/ calls' = Append(calls, Register(TRUE))
  BY DEF TakeEvent, Tell, sys
<1>3. Register(TRUE) \in Calls /\ Register(TRUE).op = "register" /\ Register(TRUE).waits = TRUE
  BY DEF Register, Calls
<1>4. \A w : Pending(w)' <=> Pending(w)
  <2>1. CASE calls' = calls
    BY <1>1, <2>1 DEF Pending
  <2>2. CASE calls' = Append(calls, Register(TRUE))
    BY <1>1, <1>3, <2>2, PendingMore
  <2> QED BY <1>2, <2>1, <2>2
<1>5. WaitInv'
  BY <1>1 DEF WaitInv
<1>6. PendingInv'
  BY <1>1, <1>4 DEF PendingInv
<1>7. RegisterInv'
  <2>1. \A i \in DOMAIN calls' : \/ i \in DOMAIN calls /\ calls'[i] = calls[i]
                                 \/ calls'[i] = Register(TRUE)
    BY <1>1, <1>2, <1>3, PendingMore
  <2> QED BY <1>1, <1>3, <2>1 DEF RegisterInv
<1>8. UnitsAgree'
  <2>1. Live' = Live
    BY <1>1 DEF Live
  <2>2. \A w : Releasing(w) => Releasing(w)'
    BY <1>1, <1>4 DEF Releasing, Pending
  <2>3. channels = tasks
    BY <1>1 DEF TaskInv, AllType
  <2> QED BY <1>1, <2>1, <2>2, <2>3 DEF UnitsAgree
<1> QED BY <1>5, <1>6, <1>7, <1>8

\* The loop asks for the release of an old unit and waits, or never returns
\* from its answer and asks for nothing.
LEMMA ReleaseAgrees ==
    ASSUME DeleteInv, AllType, AgreeInv, NEW w \in WorkIds, w < counter, w \in Live,
           alive, at = "handle", answer = None, w \in channels,
           \/ at' = "stuck" /\ calls' = calls
           \/ at' = "release" /\ calls' = Append(calls, Release(w, TRUE)) /\ ev'.unit = w,
           UNCHANGED <<counter, key_sql, up, alive, erasing, answer, channels>>
    PROVE  AgreeInv'
<1> USE DEF AgreeInv
<1>1. Live' = Live
  BY DEF Live
<1>2. /\ Release(w, TRUE) \in Calls /\ Release(w, TRUE).op = "release"
      /\ Release(w, TRUE).unit = w /\ Release(w, TRUE).waits = TRUE
  BY ReleaseFacts DEF Release
<1>3. \A v : Pending(v) => Pending(v)'
  <2>1. CASE calls' = calls
    BY <2>1 DEF Pending
  <2> QED BY <1>2, <2>1, PendingMore
<1>4. UnitsAgree'
  <2>1. \A v \in channels : v \in Live \/ Pending(v)
    BY DEF UnitsAgree, Releasing, Pending
  <2>2. \A v \in channels' : v \in Live' \/ Releasing(v)'
    BY <1>1, <1>3, <2>1 DEF Releasing, Pending
  <2>3. up => \A v \in Live : v \in channels \cup {answer} \/ Pending(v)
    BY DEF UnitsAgree, Releasing, Pending
  <2>4. up' /\ alive' => \A v \in Live' : v \in channels' \cup {answer'} \/ Releasing(v)'
    BY <1>1, <1>3, <2>3 DEF Releasing, Pending
  <2> QED BY <2>2, <2>4 DEF UnitsAgree
<1>5. CASE at' = "stuck" /\ calls' = calls
  <2>1. \A v : Pending(v)' <=> Pending(v)
    BY <1>5 DEF Pending
  <2>2. PendingInv'
    BY <2>1, NotPending DEF PendingInv
  <2>3. WaitInv' /\ RegisterInv'
    BY <1>5 DEF WaitInv, RegisterInv
  <2> QED BY <1>4, <2>2, <2>3
<1>6. CASE at' = "release" /\ calls' = Append(calls, Release(w, TRUE)) /\ ev'.unit = w
  <2>1. /\ \A v : Pending(v)' => Pending(v) \/ v = w
        /\ \E i \in DOMAIN calls' : calls'[i] = Release(w, TRUE)
    BY <1>2, <1>6, PendingMore
  <2>2. WaitInv'
    BY <1>6, <2>1 DEF WaitInv
  <2>3. PendingInv'
    BY <1>6, <2>1, NotPending DEF PendingInv
  <2>4. RegisterInv'
    <3>1. \A i \in DOMAIN calls' : \/ i \in DOMAIN calls /\ calls'[i] = calls[i]
                                   \/ calls'[i] = Release(w, TRUE)
      BY <1>2, <1>6, PendingMore
    <3> QED BY <1>2, <3>1 DEF RegisterInv
  <2> QED BY <1>4, <2>2, <2>3, <2>4
<1> QED BY <1>5, <1>6

LEMMA ExitAgrees ==
    ASSUME DeleteInv, AllType, AgreeInv, ExitTask
    PROVE  AgreeInv'
<1>1. PICK w \in WorkIds : w = ev.unit /\ w \in tasks
  BY DEF ExitTask, DeleteInv, TypeInv
<1>2. w \in Live /\ w < counter
  BY <1>1 DEF DeleteInv, DeletedAfterTask, FreshInv, Live
<1>3. /\ alive /\ at = "handle" /\ channels = tasks /\ answer = None
  BY DEF ExitTask, AllType, TaskInv, DeleteInv, CallInv
<1>5. /\ \/ at' = "stuck" /\ calls' = calls
         \/ at' = "release" /\ calls' = Append(calls, Release(w, TRUE)) /\ ev'.unit = w
      /\ UNCHANGED <<counter, key_sql, up, alive, erasing, answer, channels>>
  BY <1>1, <1>3 DEF ExitTask, Say, table
<1> QED BY <1>1, <1>2, <1>3, <1>5, ReleaseAgrees

\* The unit handed over becomes a channel.
LEMMA RegisteredAgrees ==
    ASSUME DeleteInv, AllType, AgreeInv, Registered \/ SetupRefused
    PROVE  AgreeInv'
<1> USE DEF AgreeInv
<1>1. PICK w \in WorkIds : w = answer
  BY DEF Registered, SetupRefused, DeleteInv, TypeInv
<1>2. /\ alive /\ at = "register" /\ w \in Live /\ ~Pending(w) /\ channels = tasks
  BY <1>1, UnitAssumption
     DEF Registered, SetupRefused, DeleteInv, HandedInv, Live, Pending, AllType, TaskInv
<1>3. /\ channels' = channels \cup {w} /\ at' # "release"
      /\ UNCHANGED <<counter, key_sql, up, calls, erasing>>
      /\ \/ alive' = FALSE /\ at' = at
         \/ answer' = None /\ tasks' = tasks \cup {w}
  BY <1>1, <1>2 DEF Registered, SetupRefused, SendError, NewChannel, Say, table, sys, loop
<1>4. Live' = Live /\ \A v : Pending(v)' <=> Pending(v)
  BY <1>3 DEF Live, Pending
<1>5. \A v \in channels' : v \in Live' \/ Releasing(v)'
  BY <1>2, <1>3, <1>4 DEF UnitsAgree, Releasing, Pending
<1>6. up' /\ alive' => \A v \in Live' : v \in channels' \cup {answer'} \/ Releasing(v)'
  BY <1>1, <1>2, <1>3, <1>4 DEF UnitsAgree, Releasing, Pending
<1>7. at' = "idle" => channels' = tasks'
  BY <1>2, <1>3
<1>8. UnitsAgree'
  BY <1>5, <1>6, <1>7 DEF UnitsAgree
<1>9. PendingInv'
  BY <1>2, <1>3, <1>4, NotPending DEF PendingInv
<1>10. WaitInv' /\ RegisterInv'
  BY <1>2, <1>3 DEF WaitInv, RegisterInv
<1> QED BY <1>8, <1>9, <1>10

\* The channel goes when the release is answered, and then the unit is out of
\* the table; or when the call reaches its limit.
LEMMA DroppedAgrees ==
    ASSUME DeleteInv, AllType, AgreeInv, Released \/ TimesOut \/ CallHangs
    PROVE  AgreeInv'
<1> USE DEF AgreeInv
<1>1. /\ at \in {"register", "release"} /\ answer' = None
      /\ UNCHANGED <<counter, key_sql, up, tasks>> /\ alive
  BY DEF Released, TimesOut, CallHangs, table, chans
<1>2. Live' = Live
  BY <1>1 DEF Live
<1>3. \A w : Pending(w)' <=> Pending(w)
  <2>1. CASE Released \/ CallHangs
    BY <2>1 DEF Released, CallHangs, sys, Pending
  <2>2. CASE TimesOut
    <3>1. \A c \in Calls : GivenUp(c).op = c.op /\ GivenUp(c).unit = c.unit /\ GivenUp(c) \in Calls
      BY DEF GivenUp, Calls
    <3>2. /\ DOMAIN calls' = DOMAIN calls
          /\ \A i \in DOMAIN calls : /\ calls[i] \in Calls /\ calls'[i] = GivenUp(calls[i])
                                     /\ calls'[i].op = calls[i].op
                                     /\ calls'[i].unit = calls[i].unit
      BY <2>2, <3>1 DEF TimesOut, DeleteInv, TypeInv
    <3>3. /\ erasing = None => erasing' = None
          /\ erasing # None => erasing' # None /\ erasing'.unit = erasing.unit
      BY <2>2, <3>1, UnitAssumption DEF TimesOut, DeleteInv, TypeInv, Releases
    <3> QED BY <3>2, <3>3 DEF Pending
  <2> QED BY <2>1, <2>2
<1>4. WaitInv'
  <2>1. CASE at' # "release"
    BY <2>1 DEF WaitInv
  <2>2. CASE at' = "release"
    BY <2>2 DEF Released, TimesOut, CallHangs, Dropped
  <2> QED BY <2>1, <2>2
<1>5. ASSUME at = "release" PROVE ev.unit \in channels /\ ev.unit \in WorkIds
  BY <1>5 DEF AllType, TaskInv
<1>6. PendingInv'
  <2>1. CASE Dropped /\ at = "release"
    BY <1>1, <1>3, <2>1 DEF PendingInv, Dropped
  <2>2. CASE TimesOut /\ at = "register"
    BY <1>1, <1>3, <2>2, NotPending DEF PendingInv, TimesOut
  <2>3. CASE CallHangs
    BY <1>1, <2>3 DEF PendingInv, CallHangs
  <2> QED BY <1>1, <2>1, <2>2, <2>3 DEF Released, TimesOut, CallHangs
<1>7. RegisterInv'
  <2>1. CASE TimesOut /\ up /\ at = "release"
    <3>1. \A i \in DOMAIN calls : calls[i].op # "register"
      BY <1>1, <2>1 DEF RegisterInv, DeleteInv, CallInv
    <3>2. /\ DOMAIN calls' = DOMAIN calls
          /\ \A i \in DOMAIN calls : calls[i] \in Calls /\ calls'[i] = GivenUp(calls[i])
      BY <2>1 DEF TimesOut, DeleteInv, TypeInv
    <3>3. \A c \in Calls : GivenUp(c).op = c.op
      BY DEF GivenUp, Calls
    <3> QED BY <3>1, <3>2, <3>3 DEF RegisterInv
  <2>2. CASE ~up
    BY <1>1, <2>2 DEF RegisterInv
  <2>3. CASE Released
    BY <1>1, <2>3 DEF Released, sys, RegisterInv
  <2>4. CASE TimesOut /\ at = "register"
    BY <2>4 DEF TimesOut, RegisterInv
  <2> QED BY <1>1, <2>1, <2>2, <2>3, <2>4 DEF CallHangs
<1>8. UnitsAgree'
  <2>0. ASSUME at = "release", answer = None PROVE Pending(ev.unit)
    <3>1. \/ \E i \in DOMAIN calls : calls[i] = Release(ev.unit, TRUE)
          \/ erasing = Release(ev.unit, TRUE)
      BY <2>0 DEF WaitInv
    <3>2. /\ Release(ev.unit, TRUE) # None /\ Release(ev.unit, TRUE).op = "release"
          /\ Release(ev.unit, TRUE).unit = ev.unit
      BY <1>5, <2>0, ReleaseFacts, UnitAssumption
    <3> QED BY <3>1, <3>2 DEF Pending
  <2>1. \A w \in channels' : w \in Live' \/ Releasing(w)'
    <3>1. \A w \in channels : w \in Live \/ Pending(w) \/ (at = "release" /\ ev.unit = w)
      BY DEF UnitsAgree, Releasing, Pending
    <3>2. CASE Dropped
      <4>1. \A w \in channels' : w \in channels /\ w # ev.unit
        BY <3>2 DEF Dropped
      <4> QED BY <1>2, <1>3, <3>1, <4>1 DEF Releasing, Pending
    <3>3. CASE channels' = channels /\ at = "register"
      BY <1>2, <1>3, <3>1, <3>3 DEF Releasing, Pending
    <3>4. CASE CallHangs /\ at = "release"
      <4>1. Pending(ev.unit)
        BY <2>0, <3>4 DEF CallHangs
      <4>2. channels' = channels
        BY <3>4 DEF CallHangs, chans
      <4> QED BY <1>2, <1>3, <3>1, <4>1, <4>2 DEF Releasing, Pending
    <3> QED BY <1>1, <3>2, <3>3, <3>4 DEF Released, TimesOut, CallHangs, chans
  <2>2. ASSUME up', alive', NEW w \in Live'
        PROVE  w \in channels' \cup {answer'} \/ Releasing(w)'
    <3>0. /\ w \in Live /\ w # None
          /\ w \in channels \cup {answer} \/ Pending(w) \/ (at = "release" /\ ev.unit = w)
      BY <1>1, <1>2, <2>2, UnitAssumption DEF UnitsAgree, Releasing, Pending, Live
    <3>1. CASE Released
      <4>1. /\ channels' = channels \ {ev.unit} /\ answer = ev.unit /\ ev.unit \notin Live
        BY <3>1 DEF Released, Dropped, WaitInv, Live
      <4> QED BY <1>3, <3>0, <4>1 DEF Releasing, Pending
    <3>2. CASE TimesOut /\ at = "release"
      <4>1. channels' = channels \ {ev.unit} /\ answer = None
        BY <3>2 DEF TimesOut, Dropped
      <4>2. Pending(ev.unit)
        BY <2>0, <3>2, <4>1
      <4> QED BY <1>3, <3>0, <4>1, <4>2 DEF Releasing, Pending
    <3>3. CASE TimesOut /\ at = "register"
      BY <2>2, <3>3 DEF TimesOut
    <3> QED BY <1>1, <2>2, <3>1, <3>2, <3>3 DEF CallHangs
  <2>3. at' = "idle" => channels' = tasks'
    BY <1>1 DEF Released, TimesOut, CallHangs, Dropped, AllType, TaskInv
  <2> QED BY <2>1, <2>2, <2>3 DEF UnitsAgree
<1> QED BY <1>4, <1>6, <1>7, <1>8

(***************************************************************************)
(* Manager and node agree on the units.  A channel of the node is a unit   *)
(* of the manager until its release is under way; while both processes     *)
(* run, a unit the manager has allocated for the node is a channel of it,  *)
(* being handed over or being released, although either call may reach its *)
(* time limit; and between two events the channels are the tasks           *)
(* (StackFlow::setup, exit, sys_release_unit).  The proof rests on the     *)
(* order of the calls: the loop asks one thing at a time, so the answer it *)
(* sees is the answer to the release it asked for; a release that nobody   *)
(* waits for any more concerns a unit whose channel is gone; and a         *)
(* register call that nobody waits for is the call of a node that has      *)
(* ended.                                                                  *)
(***************************************************************************)
THEOREM UnitsInStep == Spec => []UnitsAgree
<1>1. ASSUME DeleteInv, AllType, FreedInv, AgreeInv, [Next]_vars PROVE AgreeInv'
  <2> USE DEF table, match, sys, loop, chans, subs, client, history
  <2>1. ASSUME NEW c \in Clients, MatchStep(c) \/ Leave(c) PROVE AgreeInv'
    <3>1. CASE AllocateStray(c)
      BY <1>1, <3>1, StrayAgrees
    <3>2. CASE Refuse(c) \/ Ignore(c) \/ Throw(c) \/ RemoteCall(c) \/ CallDead(c) \/ Lookup(c) \/ Leave(c)
      BY <1>1, <3>2, QuietAgrees DEF Refuse, Ignore, Throw, RemoteCall, CallDead, Lookup, Leave
    <3> QED BY <2>1, <3>1, <3>2 DEF MatchStep
  <2>2. CASE Publish
    BY <1>1, <2>2, QuietAgrees DEF Publish
  <2>3. CASE SysStep
    BY <1>1, <2>3, AllocateAgrees, DeleteAgrees, EraseAgrees DEF SysStep
  <2>4. CASE LoopStep \/ TimesOut \/ CallHangs
    <3>1. CASE TellError
      BY <1>1, <3>1, QuietAgrees DEF TellError, SendError
    <3> QED BY <1>1, <2>4, <3>1, TakeAgrees, ExitAgrees, RegisteredAgrees, DroppedAgrees DEF LoopStep
  <2>5. CASE ExitRaces
    BY <1>1, <2>5, QuietAgrees DEF ExitRaces
  <2>6. ASSUME NEW w \in WorkIds, UnitThread(w) PROVE AgreeInv'
    BY <1>1, <2>6, QuietAgrees DEF UnitThread, Joins, TakeInference, SendChunk, SendError
  <2>7. CASE UNCHANGED vars
    BY <1>1, <2>7, QuietAgrees DEF vars
  <2> QED BY <1>1, <2>1, <2>2, <2>3, <2>4, <2>5, <2>6, <2>7 DEF Next
<1>2. AgreeInv => UnitsAgree
  BY DEF AgreeInv
<1> QED BY <1>1, <1>2, InitAgree, AllTypeHolds, FreedHolds, PTL DEF Spec

-----------------------------------------------------------------------------
\* Who asks for a unit is remembered.
LEMMA AskFacts ==
    ASSUME ClientType, NEW c \in Clients, NEW w, Ask(c, w)
    PROVE  /\ \A v \in WorkIds : asked[v] \subseteq asked'[v]
           /\ w \in WorkIds => c \in asked'[w]
  BY DEF Ask, ClientType

LEMMA EventUnit ==
    ASSUME LoopType
    PROVE  \A i \in DOMAIN events : events[i].unit # None => events[i].unit \in WorkIds
<1>1. \A i \in DOMAIN events : events[i] \in Events
  BY DEF LoopType
<1> QED BY <1>1 DEF Events

\* An event, an inference and a run know who named the unit.
LEMMA AskedStep ==
    ASSUME DeleteInv, AllType, AskedInv, [Next]_vars
    PROVE  AskedInv'
<1> USE DEF AllType
<1>0. ASSUME UNCHANGED <<next, holds, asked, events, ev, inbox, run, push>> PROVE AskedInv'
  BY <1>0 DEF AskedInv, Current
<1>1. ASSUME NEW c \in Clients, Refuse(c) \/ Ignore(c) \/ AllocateStray(c) PROVE AskedInv'
  <2>1. /\ holds = None /\ holds' = None /\ UNCHANGED <<asked, events, ev, inbox, run, push>>
    BY <1>1 DEF Refuse, Ignore, AllocateStray, Asks, history, loop, chans, subs
  <2> QED BY <2>1 DEF AskedInv
<1>2. ASSUME NEW c \in Clients, RemoteCall(c) PROVE AskedInv'
  <2>1. PICK w \in Named(c) : events' = Append(events, Event(c, w)) /\ Ask(c, w)
    BY <1>2 DEF RemoteCall
  <2>2. /\ holds = None /\ holds' = None /\ UNCHANGED <<ev, inbox, run, push>>
    BY <1>2 DEF RemoteCall, Asks, loop, chans, subs
  <2>3. /\ \A v \in WorkIds : asked[v] \subseteq asked'[v]
        /\ w # None => c \in asked'[w]
    BY <2>1, AskFacts DEF Named
  <2>4. /\ Event(c, w).act = ActOf(Event(c, w).req) /\ Event(c, w).unit = w
        /\ ClientOf(Event(c, w).req) = c
    BY <1>2, AsksFacts DEF RemoteCall, Event
  <2>5. \A i \in DOMAIN events' : \/ i \in DOMAIN events /\ events'[i] = events[i]
                                  \/ events'[i] = Event(c, w)
    BY <2>1 DEF LoopType
  <2>6. \A i \in DOMAIN events : events[i].unit # None => events[i].unit \in WorkIds
    BY EventUnit
  <2>7. \A i \in DOMAIN events' :
           /\ events'[i].act = ActOf(events'[i].req)
           /\ events'[i].unit # None => ClientOf(events'[i].req) \in asked'[events'[i].unit]
    BY <2>3, <2>4, <2>5, <2>6 DEF AskedInv
  <2> QED BY <2>2, <2>3, <2>7 DEF AskedInv
<1>3. ASSUME NEW c \in Clients, Lookup(c) PROVE AskedInv'
  <2>1. PICK w \in WorkIds : /\ Ask(c, w)
                             /\ holds' = None \/ (holds' = <<c, w>> /\ next' = next)
    BY <1>3 DEF Lookup
  <2>2. UNCHANGED <<events, ev, inbox, run, push>> /\ ActOf(Current(c)) = "inference"
    BY <1>3, AsksFacts DEF Lookup, loop, chans, subs
  <2>3. /\ \A v \in WorkIds : asked[v] \subseteq asked'[v]
        /\ c \in asked'[w]
    BY <2>1, AskFacts
  <2>4. \A i \in DOMAIN events : events[i].unit # None => events[i].unit \in WorkIds
    BY EventUnit
  <2>5. holds' # None => /\ ActOf(Current(holds[1])') = "inference"
                         /\ holds'[1] \in asked'[holds'[2]]
    BY <2>1, <2>2, <2>3 DEF Current
  <2> QED BY <2>2, <2>3, <2>4, <2>5 DEF AskedInv
<1>4. ASSUME NEW c \in Clients, CallDead(c) PROVE AskedInv'
  <2>1. /\ holds' = <<c, None>> /\ UNCHANGED <<asked, events, ev, inbox, run, push>>
    BY <1>4 DEF CallDead, history, loop, chans, subs
  <2> QED BY <2>1 DEF AskedInv
<1>5. CASE Publish
  <2>1. PICK w \in WorkIds : w = holds[2]
    BY <1>5 DEF Publish, ManagerType
  <2>2. PICK r \in Requests : r = Current(holds[1])
    <3>1. holds[1] \in Clients /\ next[holds[1]] \in DOMAIN Script[holds[1]]
      BY <1>5 DEF Publish, ManagerType, HoldsInv
    <3> QED BY <3>1, RequestFacts DEF Current
  <2>3. ActOf(r) = "inference" /\ ClientOf(r) \in asked[w]
    BY <1>5, <2>1, <2>2 DEF Publish, AskedInv, Current, ClientOf
  <2>4. /\ holds' = None /\ UNCHANGED <<asked, events, ev, run, push>>
        /\ inbox' = inbox \/ inbox' = [inbox EXCEPT ![w] = Append(@, r)]
    BY <1>5, <2>1, <2>2 DEF Publish, history, loop, chans
  <2>5. \A v \in WorkIds : \A i \in DOMAIN inbox'[v] :
           \/ i \in DOMAIN inbox[v] /\ inbox'[v][i] = inbox[v][i]
           \/ v = w /\ inbox'[v][i] = r
    <3>1. inbox \in [WorkIds -> Seq(Requests)]
      BY DEF ThreadType
    <3>2. \A v \in WorkIds : inbox'[v] = inbox[v] \/ (v = w /\ inbox'[v] = Append(inbox[v], r))
      BY <2>4, <3>1
    <3>3. ASSUME NEW v \in WorkIds, NEW i \in DOMAIN inbox'[v], inbox'[v] = Append(inbox[v], r)
          PROVE  (i \in DOMAIN inbox[v] /\ inbox'[v][i] = inbox[v][i]) \/ inbox'[v][i] = r
      <4>1. inbox[v] \in Seq(Requests)
        BY <3>1
      <4> QED BY <3>3, <4>1
    <3> QED BY <3>2, <3>3
  <2> QED BY <2>3, <2>4, <2>5 DEF AskedInv
<1>6. CASE TakeEvent
  <2>1. /\ events # <<>> /\ events' = Tail(events) /\ ev' = Head(events)
        /\ \/ push' = push
           \/ /\ Head(events).unit \in channels
              /\ push' = [push EXCEPT ![Head(events).unit] = ClientOf(Head(events).req)]
        /\ UNCHANGED <<next, holds, asked, inbox, run>>
    BY <1>6 DEF TakeEvent, set_push_url, match, subs, history
  <2>2. events \in Seq(Events)
    BY DEF LoopType
  <2>3. /\ Head(events) = events[1] /\ 1 \in DOMAIN events
        /\ \A i \in DOMAIN events' : i + 1 \in DOMAIN events /\ events'[i] = events[i + 1]
    BY <2>1, <2>2, TailFacts
  <2>4. \A w \in WorkIds : push'[w] = push[w] \/ push'[w] \in asked[w]
    <3>1. Head(events).unit \in channels =>
             /\ Head(events).unit # None
             /\ ClientOf(Head(events).req) \in asked[Head(events).unit]
      BY <2>3, UnitAssumption DEF AskedInv, ThreadType
    <3>2. push \in [WorkIds -> Clients \cup {None}]
      BY DEF ThreadType
    <3> QED BY <2>1, <3>1, <3>2
  <2> QED BY <2>1, <2>3, <2>4 DEF AskedInv, Current
<1>7. CASE ExitTask
  <2>1. /\ inbox' = [inbox EXCEPT ![ev.unit] = <<>>]
        /\ UNCHANGED <<next, holds, asked, events, ev, run, push>>
    BY <1>7 DEF ExitTask, match, history
  <2>2. \A w \in WorkIds : \A i \in DOMAIN inbox'[w] :
           i \in DOMAIN inbox[w] /\ inbox'[w][i] = inbox[w][i]
    BY <2>1 DEF ThreadType
  <2> QED BY <2>1, <2>2 DEF AskedInv, Current
<1>8. CASE Registered \/ SetupRefused
  <2>1. /\ answer \in WorkIds
        /\ push' = [push EXCEPT ![answer] = ClientOf(ev.req)]
        /\ ev' \in {None, ev}
        /\ UNCHANGED <<next, holds, asked, events, inbox, run>>
    BY <1>8 DEF Registered, SetupRefused, NewChannel, DeleteInv, TypeInv, match, loop, subs, history
  <2>2. run[answer] = None
    BY <1>8, <2>1 DEF Registered, SetupRefused, TaskInv, DeleteInv, HandedInv
  <2>3. \A w \in WorkIds : run[w] # None => push'[w] = push[w]
    BY <2>1, <2>2 DEF ThreadType
  <2> QED BY <2>1, <2>3 DEF AskedInv, Current
<1>9. CASE Released \/ TimesOut
  <2>1. /\ UNCHANGED <<next, holds, asked, events, inbox, run>>
        /\ \/ UNCHANGED <<ev, push>>
           \/ /\ at = "release" /\ ev' = None /\ push' = [push EXCEPT ![ev.unit] = None]
    BY <1>9 DEF Released, TimesOut, Dropped, match, subs, history
  <2>2. at = "release" => ev.unit \in WorkIds /\ run[ev.unit] = None
    BY DEF TaskInv
  <2>3. \A w \in WorkIds : run[w] # None => push'[w] = push[w]
    BY <2>1, <2>2 DEF ThreadType
  <2> QED BY <2>1, <2>3 DEF AskedInv, Current
<1>10. ASSUME NEW w \in WorkIds, TakeInference(w) PROVE AskedInv'
  <2>1. PICK r \in Requests : r = Head(inbox[w]) /\ inbox[w] # <<>> /\ inbox[w] \in Seq(Requests)
    BY <1>10 DEF TakeInference, ThreadType
  <2>2. /\ r = inbox[w][1] /\ 1 \in DOMAIN inbox[w]
        /\ \A i \in DOMAIN Tail(inbox[w]) :
              i + 1 \in DOMAIN inbox[w] /\ Tail(inbox[w])[i] = inbox[w][i + 1]
    BY <2>1, TailFacts
  <2>3. ActOf(r) = "inference" /\ ClientOf(r) \in asked[w]
    BY <2>2 DEF AskedInv
  <2>4. /\ inbox' = [inbox EXCEPT ![w] = Tail(@)]
        /\ push' = [push EXCEPT ![w] = ClientOf(r)]
        /\ run' = run \/ \E n \in {0, 1} : run' = [run EXCEPT ![w] = Run(r, n)]
        /\ UNCHANGED <<next, holds, asked, events, ev>>
    BY <1>10, <2>1 DEF TakeInference, set_push_url, match, loop, history
  <2>5. \A n : Run(r, n).req = r
    BY DEF Run
  <2>6. \A v \in WorkIds : /\ v # w => inbox'[v] = inbox[v] /\ push'[v] = push[v] /\ run'[v] = run[v]
                           /\ v = w => inbox'[v] = Tail(inbox[w]) /\ push'[v] = ClientOf(r)
    BY <2>4 DEF ThreadType
  <2>7. run'[w] # None => run'[w] = run[w] \/ run'[w].req = r
    BY <2>4, <2>5 DEF ThreadType
  <2>8. \A v \in WorkIds : \A i \in DOMAIN inbox'[v] : /\ ActOf(inbox'[v][i]) = "inference"
                                                       /\ ClientOf(inbox'[v][i]) \in asked[v]
    <3>1. \A v \in WorkIds : \A i \in DOMAIN inbox[v] : /\ ActOf(inbox[v][i]) = "inference"
                                                        /\ ClientOf(inbox[v][i]) \in asked[v]
      BY DEF AskedInv
    <3>2. \A i \in DOMAIN Tail(inbox[w]) : /\ ActOf(Tail(inbox[w])[i]) = "inference"
                                           /\ ClientOf(Tail(inbox[w])[i]) \in asked[w]
      BY <2>2, <3>1
    <3>3. \A v \in WorkIds : v # w => inbox'[v] = inbox[v]
      BY <2>6
    <3>4. inbox'[w] = Tail(inbox[w])
      BY <2>6
    <3>5. ASSUME NEW v \in WorkIds, v # w, NEW i \in DOMAIN inbox'[v]
          PROVE  ActOf(inbox'[v][i]) = "inference" /\ ClientOf(inbox'[v][i]) \in asked[v]
      BY <3>1, <3>3, <3>5
    <3>6. ASSUME NEW i \in DOMAIN inbox'[w]
          PROVE  ActOf(inbox'[w][i]) = "inference" /\ ClientOf(inbox'[w][i]) \in asked[w]
      BY <3>2, <3>4, <3>6
    <3> QED BY <3>5, <3>6
  <2>9. \A v \in WorkIds : run'[v] # None => /\ ActOf(run'[v].req) = "inference"
                                             /\ ClientOf(run'[v].req) \in asked[v]
                                             /\ push'[v] \in asked[v]
    BY <2>3, <2>6, <2>7 DEF AskedInv
  <2> QED BY <2>4, <2>8, <2>9 DEF AskedInv, Current
<1>11. ASSUME NEW w \in WorkIds, SendChunk(w) PROVE AskedInv'
  <2>1. /\ run' = [run EXCEPT ![w] = IF @.n = Chunks THEN None ELSE Run(@.req, @.n + 1)]
        /\ run[w] # None
        /\ UNCHANGED <<next, holds, asked, events, ev, inbox, push>>
    BY <1>11 DEF SendChunk, match, loop, history
  <2>2. \A v \in WorkIds : run'[v] # None => run[v] # None /\ run'[v].req = run[v].req
    BY <2>1 DEF ThreadType, Run
  <2> QED BY <2>1, <2>2 DEF AskedInv, Current
<1>12. ASSUME NEW w \in WorkIds, Joins(w) PROVE AskedInv'
  BY <1>0, <1>12 DEF Joins, match, loop, chans, history
<1>13. ASSUME NEW c \in Clients, Leave(c) PROVE AskedInv'
  BY <1>0, <1>13 DEF Leave, match, loop, chans, subs, history
<1>14. CASE SysStep \/ TellError \/ ExitRaces \/ CallHangs \/ UNCHANGED vars
  BY <1>0, <1>14 DEF SysStep, AllocateUnit, DeleteUnit, EraseUnit, TellError, ExitRaces,
                     CallHangs, vars, match, loop, chans, subs, history
<1>15. CASE Tell
  BY <1>15 DEF Tell, match, chans, subs, history, AskedInv, Current
<1>16. ASSUME NEW c \in Clients, Throw(c) PROVE AskedInv'
  BY <1>0, <1>16 DEF Throw, match, loop, chans, subs, history
<1> QED
  BY <1>1, <1>2, <1>3, <1>4, <1>5, <1>6, <1>7, <1>8, <1>9, <1>10, <1>11, <1>12, <1>13, <1>14,
     <1>15, <1>16
     DEF Next, MatchStep, LoopStep, UnitThread

LEMMA AskedHolds == Spec => []AskedInv
<1>1. Init => AskedInv
  BY DEF Init, AskedInv
<1> QED BY <1>1, AskedStep, AllTypeHolds, PTL DEF Spec

\* What one answer has to satisfy, given who has asked for what.
Routed(h, by) ==
    /\ ActOf(h.of) # "inference" => h.to = ClientOf(h.of)
    /\ h.to = ClientOf(h.of) \/ \E w \in WorkIds : {h.to, ClientOf(h.of)} \subseteq by[w]
    /\ ActOf(h.of) # "garbled" => h.id = h.of

\* More names spoil no answer.
LEMMA RoutedStays ==
    ASSUME NEW h, NEW by, NEW more, Routed(h, by), \A w \in WorkIds : by[w] \subseteq more[w]
    PROVE  Routed(h, more)
  BY DEF Routed

\* An answer of the event loop goes to the session of its event.
LEMMA LoopRouted ==
    ASSUME AllType, at \in {"handle", "register"}
    PROVE  Routed(Reply(desk.to, desk.id, ev.req), asked)
<1>1. ev # None
  BY DEF AllType, EventInv
<1>2. desk.to = ClientOf(ev.req) /\ desk.id = ev.req
  BY <1>1 DEF AllType, EventInv
<1> QED BY <1>2 DEF Routed, Reply

(***************************************************************************)
(* An answer that is sent reaches the session that asked and carries its   *)
(* request id, with the code's own exceptions: a message of an inference   *)
(* may go to another session that has named the unit, and an unreadable    *)
(* message has lost its id.  The answers are the manager's refusals, what  *)
(* the node's loop says of a setup, an exit or a taskinfo that succeeds,   *)
(* and the messages of an inference; an error of the node is never sent.   *)
(* For the inferences it takes that a channel is never re-targeted, while  *)
(* its thread answers, but by an event of a client that named that unit:   *)
(* registering re-targets only a unit that has no thread yet, and          *)
(* releasing one whose thread is done.                                     *)
(***************************************************************************)
THEOREM AnswersReachAskers == Spec => []AnswersRouted
<1>0. AnswersRouted <=> \A h \in heard : Routed(h, asked)
  BY DEF AnswersRouted, Routed
<1>1. Init => AnswersRouted
  BY DEF Init, AnswersRouted
<1>2. ASSUME AllType, AskedInv, AnswersRouted, [Next]_vars PROVE AnswersRouted'
  <2> USE <1>2
  <2>1. \A h \in heard : Routed(h, asked)
    BY <1>0
  <2>2. ASSUME \A w \in WorkIds : asked[w] \subseteq asked'[w],
               \A h \in heard' : h \in heard \/ Routed(h, asked)
        PROVE  AnswersRouted'
    <3>1. \A h \in heard' : Routed(h, asked')
      BY <2>1, <2>2, RoutedStays
    <3> QED BY <3>1 DEF AnswersRouted, Routed
  <2>3. ASSUME UNCHANGED asked, NEW h, heard' = heard \/ heard' = heard \cup {h},
               heard' = heard \cup {h} => Routed(h, asked)
        PROVE  AnswersRouted'
    BY <2>2, <2>3
  <2>4. ASSUME NEW c \in Clients, Refuse(c) PROVE AnswersRouted'
    <3> DEFINE id == IF ActOf(Current(c)) = "garbled" THEN None ELSE Current(c)
    <3>1. heard' = heard \cup {Reply(c, id, Current(c))} /\ UNCHANGED asked
      BY <2>4 DEF Refuse, history
    <3>2. ActOf(Current(c)) \in Refused /\ ClientOf(Current(c)) = c
      BY <2>4, AsksFacts DEF Refuse, AllType
    <3>3. Routed(Reply(c, id, Current(c)), asked)
      BY <3>2 DEF Routed, Reply, Refused
    <3> HIDE DEF id
    <3> QED BY <2>3, <3>1, <3>3
  <2>5. ASSUME NEW c \in Clients, RemoteCall(c) \/ Lookup(c) PROVE AnswersRouted'
    <3>1. heard' = heard /\ \E w : Ask(c, w)
      BY <2>5 DEF RemoteCall, Lookup, client
    <3>2. \A w \in WorkIds : asked[w] \subseteq asked'[w]
      BY <3>1, AskFacts DEF AllType
    <3> QED BY <2>2, <3>1, <3>2
  <2>6. CASE Tell \/ ExitTask \/ Registered
    <3>1. at \in {"handle", "register"} /\ UNCHANGED asked
      BY <2>6 DEF Tell, ExitTask, Registered, history
    <3>2. heard' = heard \/ heard' = heard \cup {Reply(desk.to, desk.id, ev.req)}
      BY <2>6 DEF Tell, ExitTask, Registered, Say
    <3> QED BY <2>3, <3>1, <3>2, LoopRouted
  <2>7. ASSUME NEW w \in WorkIds, TakeInference(w) PROVE UNCHANGED <<heard, asked>>
    BY <2>7 DEF TakeInference, client, history
  <2>8. ASSUME NEW w \in WorkIds, SendChunk(w) PROVE AnswersRouted'
    <3>1. PICK r : r = run[w].req
      OBVIOUS
    <3>2. /\ ActOf(r) = "inference" /\ ClientOf(r) \in asked[w] /\ push[w] \in asked[w]
      BY <2>8, <3>1 DEF SendChunk, AskedInv
    <3>3. Routed(Reply(push[w], r, r), asked)
      BY <3>2 DEF Routed, Reply
    <3>4. /\ heard' = heard \/ heard' = heard \cup {Reply(push[w], r, r)}
          /\ UNCHANGED asked
      BY <2>8, <3>1 DEF SendChunk, history
    <3> QED BY <2>3, <3>3, <3>4
  <2>9. CASE UNCHANGED <<heard, asked>>
    BY <2>9 DEF AnswersRouted
  <2>10. ASSUME NEW c \in Clients,
                Ignore(c) \/ Throw(c) \/ CallDead(c) \/ AllocateStray(c) \/ Leave(c)
         PROVE  UNCHANGED <<heard, asked>>
    BY <2>10 DEF Ignore, Throw, CallDead, AllocateStray, Leave, client, history
  <2>11. ASSUME Publish \/ SysStep \/ UNCHANGED vars PROVE UNCHANGED <<heard, asked>>
    BY <2>11 DEF Publish, SysStep, AllocateUnit, DeleteUnit, EraseUnit, vars, client, history
  <2>12. ASSUME \/ TakeEvent \/ TellError \/ SetupRefused \/ Released
                \/ ExitRaces \/ TimesOut \/ CallHangs
         PROVE  UNCHANGED <<heard, asked>>
    BY <2>12 DEF TakeEvent, TellError, SetupRefused, Released, ExitRaces, TimesOut, CallHangs,
                 client, history
  <2>13. ASSUME NEW w \in WorkIds, Joins(w) PROVE UNCHANGED <<heard, asked>>
    BY <2>13 DEF Joins, client, history
  <2> QED
    BY <2>4, <2>5, <2>6, <2>7, <2>8, <2>9, <2>10, <2>11, <2>12, <2>13
       DEF Next, MatchStep, LoopStep, UnitThread
<1> QED BY <1>1, <1>2, AskedHolds, AllTypeHolds, PTL DEF Spec
=============================================================================
