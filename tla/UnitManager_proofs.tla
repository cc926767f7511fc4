------------------------- MODULE UnitManager_proofs -------------------------
(***************************************************************************)
(* A unit is deleted only after its task, for any clients, scripts, ports, *)
(* task limits and time limits.                                            *)
(***************************************************************************)
EXTENDS UnitManager, TLAPS

Releases == {c \in Calls : c.op = "release" /\ c.unit \in WorkIds}

\* What the argument needs of the types.
TypeInv ==
    /\ counter \in Nat
    /\ key_sql \in [WorkIds -> {"none", "live", "freed", "stray"}]
    /\ calls \in Seq(Calls)
    /\ \A i \in DOMAIN calls : calls[i].op = "release" => calls[i] \in Releases
    /\ erasing \in {None} \cup Releases
    /\ answer \in WorkIds \cup {None}
    /\ tasks \subseteq WorkIds

\* Work ids are handed out in order and never again.
FreshInv == \A w \in WorkIds : key_sql[w] # "none" => w < counter

\* What is to be released is an old unit without a task.
DoomedInv ==
    /\ \A i \in DOMAIN calls : calls[i].op = "release" =>
          calls[i].unit \notin tasks /\ calls[i].unit < counter
    /\ erasing # None => erasing.unit \notin tasks /\ erasing.unit < counter

\* The unit a setup has just been given is live, has no task yet, and nobody
\* has asked for its release.
HandedInv ==
    at = "register" /\ answer # None =>
       /\ key_sql[answer] = "live" /\ answer \notin tasks
       /\ \A i \in DOMAIN calls : calls[i].op = "release" => calls[i].unit # answer
       /\ erasing # None => erasing.unit # answer

\* The node's loop waits for one call at a time, and the answer that comes is
\* the answer to that call.
CallInv ==
    /\ at \notin {"register", "release"} => answer = None
    /\ up => /\ \A i \in DOMAIN calls : calls[i].waits =>
                   /\ answer = None /\ at = calls[i].op
                   /\ \A j \in DOMAIN calls : calls[j].waits => i = j
                   /\ erasing # None => ~erasing.waits
             /\ erasing # None /\ erasing.waits => answer = None /\ at = "release"

DeleteInv == TypeInv /\ FreshInv /\ DoomedInv /\ HandedInv /\ CallInv /\ DeletedAfterTask

deleteVars == <<counter, key_sql, up, calls, erasing, at, answer, tasks>>

-----------------------------------------------------------------------------
\* The calls after the first.
LEMMA TailFacts ==
    ASSUME NEW S, NEW s \in Seq(S), s # <<>>
    PROVE  /\ Head(s) \in S /\ Head(s) = s[1] /\ 1 \in DOMAIN s
           /\ Tail(s) \in Seq(S)
           /\ \A i \in DOMAIN Tail(s) : i + 1 \in DOMAIN s /\ Tail(s)[i] = s[i + 1]
  OBVIOUS

\* One call more.
LEMMA NewCall ==
    ASSUME TypeInv, NEW e \in Calls, calls' = Append(calls, e)
    PROVE  /\ calls' \in Seq(Calls)
           /\ \A i \in DOMAIN calls' :
                 \/ i \in DOMAIN calls /\ calls'[i] = calls[i]
                 \/ i = Len(calls) + 1 /\ i \notin DOMAIN calls /\ calls'[i] = e
<1>1. calls \in Seq(Calls)
  BY DEF TypeInv
<1> QED BY <1>1

\* Outside "register" and "release" the loop waits for no call.
LEMMA NobodyWaits ==
    ASSUME TypeInv, CallInv, up, at \notin {"register", "release"}
    PROVE  /\ \A i \in DOMAIN calls : ~calls[i].waits
           /\ erasing # None => ~erasing.waits
<1>1. \A i \in DOMAIN calls : calls[i] \in Calls
  BY DEF TypeInv
<1>2. \A c \in Calls : c.op \in {"register", "release"}
  BY DEF Calls
<1> QED BY <1>1, <1>2 DEF CallInv

LEMMA InitDelete == Init => DeleteInv
  BY UnitAssumption
     DEF Init, DeleteInv, TypeInv, FreshInv, DoomedInv, HandedInv, CallInv, DeletedAfterTask

\* Steps that leave alone what a deletion depends on.
LEMMA QuietKeeps ==
    ASSUME DeleteInv, UNCHANGED deleteVars
    PROVE  DeleteInv'
  BY DEF deleteVars, DeleteInv, TypeInv, FreshInv, DoomedInv, HandedInv, CallInv,
         DeletedAfterTask

\* The manager may die at a send through a dangling pointer, and does at a
\* message without a name.
LEMMA DyingKeeps ==
    ASSUME DeleteInv, up' => up,
           UNCHANGED <<counter, key_sql, calls, erasing, at, answer, tasks>>
    PROVE  DeleteInv'
  BY DEF DeleteInv, TypeInv, FreshInv, DoomedInv, HandedInv, CallInv, DeletedAfterTask

LEMMA PublishKeeps ==
    ASSUME DeleteInv, Publish
    PROVE  DeleteInv'
<1>1. UNCHANGED <<counter, key_sql, calls, erasing, at, answer, tasks>> /\ (up' => up)
  BY DEF Publish, table, sys, loop, chans
<1> QED BY <1>1, DyingKeeps

LEMMA ThrowKeeps ==
    ASSUME DeleteInv, NEW c \in Clients, Throw(c)
    PROVE  DeleteInv'
<1>1. UNCHANGED <<counter, key_sql, calls, erasing, at, answer, tasks>> /\ (up' => up)
  BY DEF Throw, table, sys, loop, chans
<1> QED BY <1>1, DyingKeeps

\* A unit that a client registers is nobody's task and nobody's answer.
LEMMA StrayKeeps ==
    ASSUME DeleteInv, NEW c \in Clients, AllocateStray(c)
    PROVE  DeleteInv'
<1> USE DEF DeleteInv
<1>1. /\ counter \in WorkIds /\ counter \in Nat /\ counter' = counter + 1
      /\ key_sql' = [key_sql EXCEPT ![counter] = "stray"]
      /\ UNCHANGED <<up, calls, erasing, at, answer, tasks>>
  BY DEF AllocateStray, sys, loop, chans, TypeInv
<1>2. key_sql[counter] = "none" /\ counter \notin tasks
  BY <1>1 DEF TypeInv, FreshInv, DeletedAfterTask
<1>3. TypeInv' /\ CallInv'
  BY <1>1 DEF TypeInv, CallInv
<1>4. FreshInv' /\ DoomedInv'
  BY <1>1 DEF TypeInv, FreshInv, DoomedInv, Releases, WorkIds
<1>5. HandedInv'
  BY <1>1, <1>2 DEF TypeInv, HandedInv
<1>6. DeletedAfterTask'
  BY <1>1, <1>2 DEF TypeInv, DeletedAfterTask
<1> QED BY <1>3, <1>4, <1>5, <1>6

LEMMA AllocateKeeps ==
    ASSUME DeleteInv, AllocateUnit
    PROVE  DeleteInv'
<1> USE DEF DeleteInv
<1>1. /\ calls \in Seq(Calls) /\ calls # <<>> /\ up /\ erasing = None
      /\ counter \in WorkIds /\ counter \in Nat
      /\ calls' = Tail(calls) /\ counter' = counter + 1
      /\ key_sql' = [key_sql EXCEPT ![counter] = "live"]
      /\ answer' = IF calls[1].waits THEN counter ELSE answer
      /\ calls[1].op = "register"
      /\ UNCHANGED <<up, erasing, at, tasks>>
  BY TailFacts DEF AllocateUnit, loop, chans, TypeInv
<1>2. /\ 1 \in DOMAIN calls /\ calls' \in Seq(Calls)
      /\ \A i \in DOMAIN calls' : i + 1 \in DOMAIN calls /\ calls'[i] = calls[i + 1]
  BY <1>1, TailFacts
<1>3. \A i \in DOMAIN calls' : i \in Nat /\ i + 1 # 1
  BY <1>2
<1>4. key_sql[counter] = "none" /\ counter \notin tasks
  BY <1>1 DEF TypeInv, FreshInv, DeletedAfterTask
<1>5. TypeInv'
  BY <1>1, <1>2 DEF TypeInv
<1>6. FreshInv'
  BY <1>1 DEF TypeInv, FreshInv, WorkIds
<1>7. DoomedInv'
  BY <1>1, <1>2 DEF TypeInv, DoomedInv, Releases, WorkIds
<1>8. HandedInv'
  BY <1>1, <1>2, <1>4 DEF TypeInv, DoomedInv, HandedInv, Releases, WorkIds
<1>9. CallInv'
  BY <1>1, <1>2, <1>3 DEF TypeInv, CallInv
<1>10. DeletedAfterTask'
  BY <1>1, <1>4 DEF TypeInv, DeletedAfterTask
<1> QED BY <1>5, <1>6, <1>7, <1>8, <1>9, <1>10

\* The sys thread deletes a unit that no task uses and nobody was just given.
LEMMA DeleteKeeps ==
    ASSUME DeleteInv, DeleteUnit
    PROVE  DeleteInv'
<1> USE DEF DeleteInv
<1> DEFINE w == calls[1].unit
<1>1. /\ calls \in Seq(Calls) /\ calls # <<>> /\ up /\ erasing = None
      /\ calls' = Tail(calls) /\ Head(calls) = calls[1] /\ 1 \in DOMAIN calls
      /\ calls[1].op = "release"
      /\ UNCHANGED <<counter, at, tasks>>
  BY TailFacts DEF DeleteUnit, loop, chans, TypeInv
<1>2. /\ calls' \in Seq(Calls)
      /\ \A i \in DOMAIN calls' : i + 1 \in DOMAIN calls /\ calls'[i] = calls[i + 1]
  BY <1>1, TailFacts
<1>3. \A i \in DOMAIN calls' : i \in Nat /\ i + 1 # 1
  BY <1>2
<1>4. calls[1] \in Releases /\ w \in WorkIds /\ calls[1] # None
  BY <1>1, UnitAssumption DEF TypeInv, Releases
<1>5. CASE key_sql[w] \in {"none", "stray"}
  <2>1. /\ UNCHANGED <<key_sql, erasing, up>>
        /\ answer' = IF calls[1].waits THEN w ELSE answer
    BY <1>1, <1>5 DEF DeleteUnit, Answered
  <2>2. TypeInv'
    BY <1>1, <1>2, <1>4, <2>1 DEF TypeInv
  <2>3. FreshInv' /\ DoomedInv' /\ DeletedAfterTask'
    BY <1>1, <1>2, <2>1 DEF FreshInv, DoomedInv, DeletedAfterTask
  <2>4. CallInv'
    BY <1>1, <1>2, <1>3, <2>1 DEF TypeInv, CallInv
  <2>5. HandedInv'
    BY <1>1, <1>2, <2>1 DEF HandedInv, CallInv
  <2> QED BY <2>2, <2>3, <2>4, <2>5
<1>6. CASE key_sql[w] \notin {"none", "stray"}
  <2>1. /\ key_sql' = [key_sql EXCEPT ![w] = "freed"]
        /\ erasing' = calls[1] /\ answer' = answer
    BY <1>1, <1>6 DEF DeleteUnit
  <2>2. TypeInv'
    BY <1>1, <1>2, <1>4, <2>1 DEF TypeInv
  <2>3. FreshInv'
    BY <1>1, <1>4, <1>6, <2>1 DEF TypeInv, FreshInv
  <2>4. DoomedInv'
    BY <1>1, <1>2, <2>1 DEF DoomedInv
  <2>5. CallInv'
    BY <1>1, <1>2, <1>3, <2>1 DEF TypeInv, CallInv
  <2>6. HandedInv'
    BY <1>1, <1>2, <2>1 DEF TypeInv, HandedInv
  <2>7. DeletedAfterTask'
    BY <1>1, <1>4, <2>1 DEF TypeInv, DoomedInv, DeletedAfterTask
  <2> QED BY <2>2, <2>3, <2>4, <2>5, <2>6, <2>7
<1> QED BY <1>5, <1>6

LEMMA EraseKeeps ==
    ASSUME DeleteInv, EraseUnit
    PROVE  DeleteInv'
<1> USE DEF DeleteInv
<1>1. /\ up /\ erasing # None /\ erasing \in Releases /\ erasing' = None
      /\ key_sql' = [key_sql EXCEPT ![erasing.unit] = "none"]
      /\ answer' = IF erasing.waits THEN erasing.unit ELSE answer
      /\ UNCHANGED <<counter, up, calls, at, tasks>>
  BY DEF EraseUnit, Answered, loop, chans, TypeInv
<1>2. TypeInv'
  BY <1>1 DEF TypeInv, Releases
<1>3. FreshInv' /\ DoomedInv'
  BY <1>1 DEF TypeInv, FreshInv, DoomedInv
<1>4. HandedInv'
  BY <1>1 DEF TypeInv, HandedInv, CallInv
<1>5. CallInv'
  BY <1>1 DEF CallInv
<1>6. DeletedAfterTask'
  BY <1>1 DEF TypeInv, DoomedInv, DeletedAfterTask
<1> QED BY <1>2, <1>3, <1>4, <1>5, <1>6

\* A setup's call is the only one the loop waits for.
LEMMA TakeKeeps ==
    ASSUME DeleteInv, TakeEvent
    PROVE  DeleteInv'
<1> USE DEF DeleteInv
<1>1. /\ at = "idle" /\ answer = None
      /\ UNCHANGED <<counter, key_sql, up, erasing, answer, tasks>>
  BY DEF TakeEvent, table, subs, chans, CallInv
<1>2. up => /\ \A i \in DOMAIN calls : ~calls[i].waits
            /\ erasing # None => ~erasing.waits
  BY <1>1, NobodyWaits
<1>3. CASE calls' = Append(calls, Register(TRUE)) /\ at' = "register"
  <2>1. Register(TRUE) \in Calls /\ Register(TRUE).op = "register"
    BY DEF Register, Calls
  <2>2. /\ calls' \in Seq(Calls)
        /\ \A i \in DOMAIN calls' :
              \/ i \in DOMAIN calls /\ calls'[i] = calls[i]
              \/ i = Len(calls) + 1 /\ i \notin DOMAIN calls /\ calls'[i] = Register(TRUE)
    BY <1>3, <2>1, NewCall
  <2>3. TypeInv' /\ FreshInv' /\ DoomedInv' /\ HandedInv' /\ DeletedAfterTask'
    BY <1>1, <2>1, <2>2 DEF TypeInv, FreshInv, DoomedInv, HandedInv, DeletedAfterTask
  <2>4. CallInv'
    BY <1>1, <1>2, <1>3, <2>1, <2>2 DEF CallInv
  <2> QED BY <2>3, <2>4
<1>4. CASE calls' = calls /\ at' \in {"stuck", "handle"}
  BY <1>1, <1>2, <1>4 DEF TypeInv, FreshInv, DoomedInv, HandedInv, CallInv, DeletedAfterTask
<1> QED BY <1>3, <1>4 DEF TakeEvent

LEMMA TellKeeps ==
    ASSUME DeleteInv, Tell
    PROVE  DeleteInv'
<1>1. /\ at = "handle" /\ at' \in {"idle", "stuck"}
      /\ UNCHANGED <<counter, key_sql, up, calls, erasing, answer, tasks>>
  BY DEF Tell, Say, table, sys, chans
<1>2. up => /\ \A i \in DOMAIN calls : ~calls[i].waits
            /\ erasing # None => ~erasing.waits
  BY <1>1, NobodyWaits DEF DeleteInv
<1> QED
  BY <1>1, <1>2 DEF DeleteInv, TypeInv, FreshInv, DoomedInv, HandedInv, CallInv,
                    DeletedAfterTask

\* A release that is asked for by a loop that waits for nothing else.
LEMMA ReleaseFacts ==
    ASSUME NEW w \in WorkIds
    PROVE  /\ Release(w, TRUE) \in Calls /\ Release(w, TRUE) \in Releases
           /\ Release(w, TRUE).op = "release" /\ Release(w, TRUE).unit = w
  BY DEF Release, Calls, Releases

\* Then it waits for that call and no other.
LEMMA AskRelease ==
    ASSUME NEW w \in WorkIds,
           up => /\ \A i \in DOMAIN calls : ~calls[i].waits
                 /\ erasing # None => ~erasing.waits,
           \A i \in DOMAIN calls' :
              \/ i \in DOMAIN calls /\ calls'[i] = calls[i]
              \/ i = Len(calls) + 1 /\ i \notin DOMAIN calls /\ calls'[i] = Release(w, TRUE),
           at' = "release", answer' = None, UNCHANGED <<up, erasing>>
    PROVE  CallInv'
<1>1. ASSUME up, NEW i \in DOMAIN calls', calls'[i].waits
      PROVE  i = Len(calls) + 1 /\ calls'[i].op = "release"
  <2>1. CASE i \in DOMAIN calls /\ calls'[i] = calls[i]
    BY <1>1, <2>1
  <2>2. CASE i = Len(calls) + 1 /\ calls'[i] = Release(w, TRUE)
    BY <2>2, ReleaseFacts
  <2> QED BY <2>1, <2>2
<1> QED BY <1>1 DEF CallInv

\* The task goes before the release is asked for.
LEMMA ExitKeeps ==
    ASSUME DeleteInv, ExitTask
    PROVE  DeleteInv'
<1> USE DEF DeleteInv
<1> DEFINE w == ev.unit
<1>1. /\ at = "handle" /\ w \in tasks /\ w \in WorkIds /\ answer = None
      /\ tasks' = tasks \ {w}
      /\ UNCHANGED <<counter, key_sql, up, erasing, answer>>
  BY DEF ExitTask, table, TypeInv, CallInv
<1>2. key_sql[w] = "live" /\ w < counter
  BY <1>1 DEF DeletedAfterTask, FreshInv
<1>3. up => /\ \A i \in DOMAIN calls : ~calls[i].waits
            /\ erasing # None => ~erasing.waits
  BY <1>1, NobodyWaits
<1>4. CASE Reachable(desk.to)
  <2>1. calls' = Append(calls, Release(w, TRUE)) /\ at' = "release"
    BY <1>4 DEF ExitTask, Say
  <2>2. /\ calls' \in Seq(Calls)
        /\ \A i \in DOMAIN calls' :
              \/ i \in DOMAIN calls /\ calls'[i] = calls[i]
              \/ i = Len(calls) + 1 /\ i \notin DOMAIN calls /\ calls'[i] = Release(w, TRUE)
    BY <1>1, <2>1, NewCall, ReleaseFacts
  <2>3. TypeInv'
    BY <1>1, <2>2, ReleaseFacts DEF TypeInv
  <2>4. FreshInv' /\ HandedInv' /\ DeletedAfterTask'
    BY <1>1, <2>1 DEF FreshInv, HandedInv, DeletedAfterTask
  <2>5. DoomedInv'
    BY <1>1, <1>2, <2>2, ReleaseFacts DEF DoomedInv
  <2>6. CallInv'
    <3>1. at' = "release"
      BY <2>1
    <3> QED BY <1>1, <1>3, <2>2, <3>1, AskRelease
  <2> QED BY <2>3, <2>4, <2>5, <2>6
<1>5. CASE ~Reachable(desk.to)
  <2>1. calls' = calls /\ at' = "stuck"
    BY <1>5 DEF ExitTask, Say
  <2> QED
    BY <1>1, <1>3, <2>1
       DEF TypeInv, FreshInv, DoomedInv, HandedInv, CallInv, DeletedAfterTask
<1> QED BY <1>4, <1>5

\* The unit handed over becomes a task.
LEMMA RegisteredKeeps ==
    ASSUME DeleteInv, Registered
    PROVE  DeleteInv'
<1> USE DEF DeleteInv
<1>1. /\ at = "register" /\ answer # None /\ answer \in WorkIds /\ answer' = None
      /\ at' \in {"idle", "stuck"} /\ tasks' = tasks \cup {answer}
      /\ UNCHANGED <<counter, key_sql, up, calls, erasing>>
  BY DEF Registered, Say, table, sys, TypeInv
<1>2. /\ key_sql[answer] = "live"
      /\ \A i \in DOMAIN calls : calls[i].op = "release" => calls[i].unit # answer
      /\ erasing # None => erasing.unit # answer
  BY <1>1 DEF HandedInv
<1>3. up => /\ \A i \in DOMAIN calls : ~calls[i].waits
            /\ erasing # None => ~erasing.waits
  BY <1>1 DEF CallInv
<1> QED
  BY <1>1, <1>2, <1>3
     DEF TypeInv, FreshInv, DoomedInv, HandedInv, CallInv, DeletedAfterTask

\* The loop goes on after an answer.
LEMMA ReleasedKeeps ==
    ASSUME DeleteInv, Released
    PROVE  DeleteInv'
<1> USE DEF DeleteInv
<1>1. /\ at' = "idle" /\ answer # None /\ answer' = None
      /\ UNCHANGED <<counter, key_sql, up, calls, erasing, tasks>>
  BY DEF Released, Dropped, table, sys
<1>2. up => /\ \A i \in DOMAIN calls : ~calls[i].waits
            /\ erasing # None => ~erasing.waits
  BY <1>1 DEF CallInv
<1> QED
  BY <1>1, <1>2 DEF TypeInv, FreshInv, DoomedInv, HandedInv, CallInv, DeletedAfterTask

\* A call that reached its limit is still served, and answered to nobody.
LEMMA TimeoutKeeps ==
    ASSUME DeleteInv, TimesOut
    PROVE  DeleteInv'
<1> USE DEF DeleteInv
<1>1. /\ answer = None /\ at' \in {"idle", at}
      /\ calls' = [i \in DOMAIN calls |-> GivenUp(calls[i])]
      /\ erasing' = IF erasing = None THEN None ELSE GivenUp(erasing)
      /\ UNCHANGED <<counter, key_sql, up, answer, tasks>>
  BY DEF TimesOut, Dropped, table
<1>2. \A c \in Calls : /\ GivenUp(c) \in Calls /\ ~GivenUp(c).waits
                       /\ GivenUp(c).op = c.op /\ GivenUp(c).unit = c.unit
  BY DEF GivenUp, Calls
<1>3. calls \in Seq(Calls) /\ DOMAIN calls = 1 .. Len(calls) /\ Len(calls) \in Nat
  BY DEF TypeInv
<1>4. /\ DOMAIN calls' = DOMAIN calls
      /\ \A i \in DOMAIN calls : calls[i] \in Calls /\ calls'[i] = GivenUp(calls[i])
  BY <1>1, <1>3
<1>5. calls' \in Seq(Calls)
  <2>1. calls' \in [1 .. Len(calls) -> Calls]
    BY <1>1, <1>2, <1>3, <1>4
  <2> QED BY <1>3, <2>1
<1>6. erasing # None => /\ erasing \in Calls /\ erasing' # None /\ erasing' \in Releases
                        /\ erasing'.unit = erasing.unit /\ ~erasing'.waits
  BY <1>1, <1>2, UnitAssumption DEF TypeInv, Releases
<1>7. TypeInv'
  BY <1>1, <1>2, <1>4, <1>5, <1>6 DEF TypeInv, Releases
<1>8. FreshInv' /\ DoomedInv' /\ HandedInv' /\ DeletedAfterTask'
  BY <1>1, <1>2, <1>4, <1>6 DEF FreshInv, DoomedInv, HandedInv, DeletedAfterTask
<1>9. CallInv'
  BY <1>1, <1>2, <1>4, <1>6 DEF CallInv
<1> QED BY <1>7, <1>8, <1>9

\* A call to a dead manager is never answered.
LEMMA HangKeeps ==
    ASSUME DeleteInv, CallHangs
    PROVE  DeleteInv'
<1>1. /\ ~up /\ answer = None /\ at' = "stuck"
      /\ UNCHANGED <<counter, key_sql, up, calls, erasing, answer, tasks>>
  BY DEF CallHangs, table, sys, chans
<1> QED
  BY <1>1 DEF DeleteInv, TypeInv, FreshInv, DoomedInv, HandedInv, CallInv, DeletedAfterTask

\* Every step keeps it.
LEMMA DeleteStep == DeleteInv /\ [Next]_vars => DeleteInv'
<1> SUFFICES ASSUME DeleteInv, [Next]_vars PROVE DeleteInv'
  OBVIOUS
<1> USE DEF deleteVars, table, match, sys, loop, chans, subs, client, history
<1>1. ASSUME NEW c \in Clients, MatchStep(c) \/ Leave(c) PROVE DeleteInv'
  <2>1. CASE Throw(c) \/ AllocateStray(c)
    BY <2>1, ThrowKeeps, StrayKeeps
  <2>2. CASE \/ Refuse(c) \/ Ignore(c) \/ RemoteCall(c) \/ CallDead(c) \/ Lookup(c)
             \/ Leave(c)
    BY <2>2, QuietKeeps DEF Refuse, Ignore, RemoteCall, CallDead, Lookup, Leave
  <2> QED BY <1>1, <2>1, <2>2 DEF MatchStep
<1>2. CASE SysStep
  BY <1>2, AllocateKeeps, DeleteKeeps, EraseKeeps DEF SysStep
<1>3. CASE LoopStep
  <2>1. CASE TellError \/ SetupRefused
    BY <2>1, QuietKeeps DEF TellError, SetupRefused
  <2> QED
    BY <1>3, <2>1, TakeKeeps, TellKeeps, ExitKeeps, RegisteredKeeps, ReleasedKeeps DEF LoopStep
<1>4. CASE ExitRaces
  BY <1>4, QuietKeeps DEF ExitRaces
<1>5. ASSUME NEW w \in WorkIds, UnitThread(w) PROVE DeleteInv'
  BY <1>5, QuietKeeps DEF UnitThread, Joins, TakeInference, SendChunk
<1>6. CASE UNCHANGED vars
  BY <1>6, QuietKeeps DEF vars
<1> QED
  BY <1>1, <1>2, <1>3, <1>4, <1>5, <1>6, PublishKeeps, TimeoutKeeps, HangKeeps DEF Next

LEMMA DeleteHolds == Spec => []DeleteInv
  BY InitDelete, DeleteStep, PTL DEF Spec

(***************************************************************************)
(* A task of the node always has its unit in the manager's table, and a    *)
(* key leads to a deleted unit only while the release of that unit is      *)
(* between its delete and its erase (sys_release_unit), although a call    *)
(* may reach its time limit and be served later, and either process may    *)
(* die.                                                                    *)
(***************************************************************************)
THEOREM DeletesAfterTask == Spec => []DeletedAfterTask
<1>1. DeleteInv => DeletedAfterTask
  BY DEF DeleteInv
<1> QED BY <1>1, DeleteHolds, PTL
=============================================================================
