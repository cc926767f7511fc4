--------------------------- MODULE SessionManager ---------------------------
(***************************************************************************)
(* The session table of the gateway: map_ and lru_, creation with eviction *)
(* of the least recently used session, and the GC thread that removes idle *)
(* ones.  All of it runs under mu_, except Session::touch, which the       *)
(* on_finish callback of a request calls under the session's own mutex.    *)
(*                                                                         *)
(* A Session object is named after the request that created it.  Erasing   *)
(* an entry drops the table's reference only; requests that hold the       *)
(* object keep it alive.                                                   *)
(***************************************************************************)
EXTENDS Integers, Sequences, FiniteSets, SequencesExt

CONSTANTS
    Ids,           \* session ids
    Requests,      \* requests; each names an id and holds its Session until it is over
    IdOf,          \* [Requests -> Ids]
    MaxSessions,   \* Options::max_sessions
    GcBatch,       \* Options::gc_batch
    IdleTtl,       \* Options::idle_ttl
    MaxTime,       \* bound on the clock
    None,
    End            \* lru_.end()

ASSUME TableAssumption ==
    /\ IdOf \in [Requests -> Ids]
    /\ MaxSessions \in Nat \ {0}
    /\ GcBatch \in Nat \ {0}
    /\ IdleTtl \in Nat
    /\ MaxTime \in Nat
    /\ None \notin Requests
    /\ End \notin Ids

VARIABLES
    map,           \* map_: the Session object of an id, or None
    lru,           \* lru_: ids, the most recently used first
    last_active,   \* Session::last_active of an object
    holder,        \* the Session a request's context holds, or None
    arrived,       \* requests that have come
    now,           \* the steady clock
    gc,            \* the GC thread: "sleep", "scan", "erase" or "crashed"
    it,            \* gc's reverse iterator: it.base() (an id, or End)
    removed,       \* gc's counter
    gc_now,        \* gc's reading of the clock
    used           \* history: when the table was last asked for an object

tableVars == <<map, lru>>
gcVars    == <<gc, it, removed, gc_now>>
vars      == <<map, lru, last_active, holder, arrived, now, gc, it, removed, gc_now, used>>

Init ==
    /\ map = [i \in Ids |-> None]
    /\ lru = <<>>
    /\ last_active = [o \in Requests |-> 0]
    /\ holder = [r \in Requests |-> None]
    /\ arrived = {}
    /\ now = 0
    /\ gc = "sleep" /\ it = End /\ removed = 0 /\ gc_now = 0
    /\ used = [o \in Requests |-> 0]

\* mu_ is free: gc holds it from its first statement to its return.
Unlocked == gc = "sleep"

Mapped == {i \in Ids : map[i] # None}

-----------------------------------------------------------------------------
\* lru_.erase of the node of an id.
Unlink(s, i) == RemoveAt(s, CHOOSE p \in DOMAIN s : s[p] = i)

\* Mutant: the id's old node stays in the list.
moveToFrontTwice(i) == lru' = <<i>> \o lru

moveToFront(i) == lru' = <<i>> \o Unlink(lru, i)

eraseUnlocked(i) ==
    /\ lru' = Unlink(lru, i)
    /\ map' = [map EXCEPT ![i] = None]

\* Mutants: one session too many is kept; the most recent ones are dropped.
KeptOneMore(s) == SubSeq(s, 1, IF Len(s) > MaxSessions THEN MaxSessions + 1 ELSE Len(s))
KeptOldest(s)  == SubSeq(s, IF Len(s) > MaxSessions THEN Len(s) - MaxSessions + 1 ELSE 1, Len(s))

\* evictIfNeeded_ on a table m with the order s: drop the back until it fits.
Kept(s) == SubSeq(s, 1, IF Len(s) > MaxSessions THEN MaxSessions ELSE Len(s))

evictIfNeeded(m, s) ==
    /\ lru' = Kept(s)
    /\ map' = [i \in Ids |-> IF i \in Range(Kept(s)) THEN m[i] ELSE None]

\* getOrCreate, by the request's handler, which keeps the Session.
getOrCreate(r) ==
    /\ Unlocked
    /\ r \notin arrived
    /\ arrived' = arrived \cup {r}
    /\ LET i == IdOf[r]  o == IF map[i] # None THEN map[i] ELSE r
       IN  /\ holder' = [holder EXCEPT ![r] = o]
           /\ last_active' = [last_active EXCEPT ![o] = now]
           /\ used' = [used EXCEPT ![o] = now]
           /\ IF map[i] # None
              THEN moveToFront(i) /\ UNCHANGED map
              ELSE evictIfNeeded([map EXCEPT ![i] = r], <<i>> \o lru)
    /\ UNCHANGED <<now, gcVars>>

\* Mutant: the time the session would expire is stored as its last activity.
touchDeadline(i) ==
    /\ Unlocked
    /\ map[i] # None
    /\ last_active' = [last_active EXCEPT ![map[i]] = now + IdleTtl]
    /\ moveToFront(i)
    /\ used' = [used EXCEPT ![map[i]] = now]
    /\ UNCHANGED <<map, holder, arrived, now, gcVars>>

\* Mutant: the session is refreshed but stays where it is in the list.
touchInPlace(i) ==
    /\ Unlocked
    /\ map[i] # None
    /\ last_active' = [last_active EXCEPT ![map[i]] = now]
    /\ used' = [used EXCEPT ![map[i]] = now]
    /\ UNCHANGED <<map, lru, holder, arrived, now, gcVars>>

\* get and touch: the same effect on the table.
touch(i) ==
    /\ Unlocked
    /\ map[i] # None
    /\ last_active' = [last_active EXCEPT ![map[i]] = now]
    /\ moveToFront(i)
    /\ used' = [used EXCEPT ![map[i]] = now]
    /\ UNCHANGED <<map, holder, arrived, now, gcVars>>

close(i) ==
    /\ Unlocked
    /\ map[i] # None
    /\ eraseUnlocked(i)
    /\ UNCHANGED <<last_active, holder, arrived, now, gcVars, used>>

\* Mutant: a session the table has dropped is put back when its request is over.
onFinishPutsBack(r) ==
    /\ gc = "sleep"
    /\ holder[r] # None
    /\ IF map[IdOf[r]] = None /\ Len(lru) < MaxSessions
       THEN map' = [map EXCEPT ![IdOf[r]] = holder[r]] /\ lru' = <<IdOf[r]>> \o lru
       ELSE UNCHANGED tableVars
    /\ last_active' = [last_active EXCEPT ![holder[r]] = now]
    /\ holder' = [holder EXCEPT ![r] = None]
    /\ UNCHANGED <<arrived, now, gcVars, used>>

\* The request's on_finish: Session::touch after stop or length, nothing after
\* cancelled or error; then the context, and with it the reference, goes.
onFinish(r) ==
    /\ gc # "crashed"
    /\ holder[r] # None
    /\ \/ last_active' = [last_active EXCEPT ![holder[r]] = now]
       \/ UNCHANGED last_active
    /\ holder' = [holder EXCEPT ![r] = None]
    /\ UNCHANGED <<tableVars, arrived, now, gcVars, used>>

-----------------------------------------------------------------------------
(* SessionManager::gc, on the gateway's background thread.                 *)

gcBegin ==
    /\ gc = "sleep"
    /\ gc' = "scan" /\ it' = End /\ removed' = 0 /\ gc_now' = now
    /\ UNCHANGED <<tableVars, last_active, holder, arrived, now, used>>

\* The iterator is one that the list still has.
ItValid == it = End \/ it \in Range(lru)

\* it == lru_.rend()
AtRend == IF lru = <<>> THEN it = End ELSE it = lru[1]

\* *it: the element before it.base().
Deref ==
    IF it = End THEN Last(lru) ELSE lru[(CHOOSE p \in DOMAIN lru : lru[p] = it) - 1]

\* Mutant: off by one.
shouldExpireEarly(o) == gc_now - last_active[o] >= IdleTtl

shouldExpire(o) == gc_now - last_active[o] > IdleTtl

\* Mutant: the end of the list is not noticed.
gcReturnLate ==
    /\ gc = "scan"
    /\ \/ removed >= GcBatch
       \/ ItValid /\ ~AtRend /\ map[Deref] # None /\ ~shouldExpire(map[Deref])
    /\ gc' = "sleep" /\ it' = End /\ removed' = 0 /\ gc_now' = 0
    /\ UNCHANGED <<tableVars, last_active, holder, arrived, now, used>>

\* The head of the loop ends it; or the oldest session is fresh: break.
gcReturn ==
    /\ gc = "scan"
    /\ \/ removed >= GcBatch
       \/ ItValid /\ AtRend
       \/ ItValid /\ ~AtRend /\ map[Deref] # None /\ ~shouldExpire(map[Deref])
    /\ gc' = "sleep" /\ it' = End /\ removed' = 0 /\ gc_now' = 0
    /\ UNCHANGED <<tableVars, last_active, holder, arrived, now, used>>

\* The loop's body steps on, past an id without an entry or to erase an idle one.
gcVisit ==
    /\ gc = "scan" /\ removed < GcBatch
    /\ ItValid /\ ~AtRend
    /\ map[Deref] # None => shouldExpire(map[Deref])
    /\ it' = Deref
    /\ gc' = IF map[Deref] # None THEN "erase" ELSE "scan"
    /\ UNCHANGED <<tableVars, last_active, holder, arrived, now, removed, gc_now, used>>

gcErase ==
    /\ gc = "erase"
    /\ eraseUnlocked(it)
    /\ removed' = removed + 1
    /\ gc' = "scan"
    /\ UNCHANGED <<last_active, holder, arrived, now, it, gc_now, used>>

\* The loop goes on with an iterator whose base is the erased node.  If the freed
\* node still holds its links, the walk continues from what was before it, now the
\* back of the list; if not, the process dies.
gcStale ==
    /\ gc = "scan" /\ removed < GcBatch
    /\ ~ItValid
    /\ it' = End
    /\ gc' \in {"scan", "crashed"}
    /\ UNCHANGED <<tableVars, last_active, holder, arrived, now, removed, gc_now, used>>

-----------------------------------------------------------------------------
Tick ==
    /\ gc # "crashed"
    /\ now < MaxTime
    /\ now' = now + 1
    /\ UNCHANGED <<tableVars, last_active, holder, arrived, gcVars, used>>

GcStep == gcReturn \/ gcVisit \/ gcErase \/ gcStale

\* A dead process stays dead.
Dead == gc = "crashed" /\ UNCHANGED vars

Next ==
    \/ \E r \in Requests : getOrCreate(r) \/ onFinish(r)
    \/ \E i \in Ids : touch(i) \/ close(i)
    \/ gcBegin \/ GcStep
    \/ Tick \/ Dead

Spec == Init /\ [][Next]_vars

\* The GC thread is scheduled once it runs.
FairSpec == Spec /\ WF_vars(GcStep)

-----------------------------------------------------------------------------
(* Properties.                                                             *)

\* Type correctness of the session table and the GC thread.
TypeOK ==
    /\ map \in [Ids -> Requests \cup {None}]
    /\ lru \in Seq(Ids)
    /\ last_active \in [Requests -> 0 .. MaxTime]
    /\ holder \in [Requests -> Requests \cup {None}]
    /\ arrived \subseteq Requests
    /\ now \in 0 .. MaxTime
    /\ gc \in {"sleep", "scan", "erase", "crashed"}
    /\ it \in Ids \cup {End}
    /\ removed \in 0 .. GcBatch
    /\ gc_now \in 0 .. MaxTime
    /\ used \in [Requests -> 0 .. MaxTime]

\* The two containers describe the same table in every state, also in the middle of
\* a collection: the order lists exactly the mapped ids, each once, and an entry's
\* Session is one that was created for its id.
TableAgrees ==
    /\ IsInjective(lru)
    /\ Range(lru) = Mapped
    /\ \A i \in Mapped : map[i] \in arrived /\ IdOf[map[i]] = i

\* The table never holds more than max_sessions.
SizeBounded == Cardinality(Mapped) <= MaxSessions

\* The session a request was given is the one in the table when getOrCreate returns:
\* the eviction that makes room never takes the newcomer.
NewcomerStays ==
    [][\A r \in Requests : r \in arrived' \ arrived => map'[IdOf[r]] = holder'[r]]_vars

\* gc removes a session only if it had been idle for longer than idle_ttl when the
\* collection began; a request that finishes on it meanwhile may come too late.
GcSparesFresh ==
    [][\A i \in Ids : gc # "sleep" /\ map[i] # None /\ map'[i] = None =>
          \/ gc_now - last_active[map[i]] > IdleTtl
          \/ last_active[map[i]] >= gc_now]_vars

\* The list is in the order in which the table was asked for its sessions
\* (getOrCreate, get, touch), so that evictIfNeeded_ drops the one nobody has asked
\* for longest; a session is never less recent than that.  It is not the order of
\* last_active, which SessionManager.cc:102 takes it for: on_finish refreshes a
\* session where it stands, and behind it gc may leave sessions that are long idle.
OrderedByUse ==
    /\ \A p, q \in DOMAIN lru : p < q => used[map[lru[q]]] <= used[map[lru[p]]]
    /\ \A o \in Requests : used[o] <= last_active[o]

\* A Session that was evicted, collected or closed while requests held it never comes
\* back: what the table gets is an object made by the request that asks, so a late
\* finish on the dropped one (its history and cache with it) cannot replace the new.
DroppedStaysOut ==
    [][\A o \in arrived : map[IdOf[o]] # o => map'[IdOf[o]] # o]_vars

\* A collection ends, and mu_ is free again for the request handlers, unless the
\* process died.
GcReleasesLock == gc # "sleep" ~> gc \in {"sleep", "crashed"}

\* SessionManager.cc:95, "step on before erasing": the iterator gc goes on with is
\* one the list still has.
GcIteratorValid == gc = "scan" /\ removed < GcBatch => ItValid

=============================================================================
