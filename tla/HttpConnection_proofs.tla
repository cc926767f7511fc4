------------------------ MODULE HttpConnection_proofs ------------------------
(***************************************************************************)
(* The loop's wakeup, types, the life of a connection and the cancelling   *)
(* of streams, for any connections, requests, worker threads, texts and    *)
(* cuts of the input into reads.                                           *)
(***************************************************************************)
EXTENDS HttpServer, SequenceTheorems, TLAPS

-----------------------------------------------------------------------------
(* The loop's wakeup.                                                      *)

\* NoLostWakeup is about poll; what makes it inductive is that the eventfd is
\* emptied only while events are handled, before the functors are swapped out.
WakeInv == loop # "events" /\ pending # <<>> => wakeup \/ waking # {}

\* The parts of the loop a wakeup depends on.
wakeVars == <<loop, pending, wakeup, waking>>

\* A step of the loop's thread while it handles events leaves it there.
LEMMA EventStep ==
    ASSUME NEW c, NEW e, handleEvent(c, e)
    PROVE  loop' = "events"
  BY DEF handleEvent

\* A step of a worker outside queueInLoop and wakeup.
LEMMA QuietStep ==
    ASSUME WakeInv, UNCHANGED wakeVars
    PROVE  WakeInv'
  BY DEF WakeInv, wakeVars

\* A functor queued by a worker comes with a wakeup that is still to be given.
LEMMA QueueStep ==
    ASSUME NEW r, NEW f, queueInLoop(r, f)
    PROVE  WakeInv'
  BY DEF WakeInv, queueInLoop

\* Close from a worker.
LEMMA CloseStep ==
    ASSUME NEW r, Closes(r)
    PROVE  WakeInv'
  BY QueueStep DEF Closes

\* The wakeup itself.
LEMMA WakesStep ==
    ASSUME WakeInv, NEW r, Wakes(r)
    PROVE  WakeInv'
<1>1. CASE r \in waking
  BY <1>1 DEF Wakes, wakeupLoop, WakeInv
<1>2. CASE r \notin waking
  BY <1>2, QuietStep DEF Wakes, wakeVars
<1> QED BY <1>1, <1>2

\* The steps of the loop's thread.
LEMMA LoopKeeps ==
    ASSUME WakeInv, LoopStep
    PROVE  WakeInv'
<1>1. CASE Poll
  BY <1>1 DEF Poll, poll, WakeInv
<1>2. CASE HandleWakeup
  BY <1>2, EventStep DEF HandleWakeup, handleWakeup, WakeInv
<1>3. ASSUME NEW c \in Conns, Accept(c) PROVE WakeInv'
  BY <1>3, EventStep DEF Accept, newConnection, WakeInv
<1>4. ASSUME NEW c \in Conns, HandleWrite(c) PROVE WakeInv'
  BY <1>4, EventStep DEF HandleWrite, handleWrite, WakeInv
<1>5. ASSUME NEW c \in Conns, ReadClose(c) PROVE WakeInv'
  BY <1>5, EventStep DEF ReadClose, WakeInv
<1>6. ASSUME NEW c \in Conns, ReadPart(c) PROVE WakeInv'
  BY <1>6, EventStep DEF ReadPart, OnMessage, WakeInv
<1>7. ASSUME NEW c \in Conns, HandleRequest(c) PROVE WakeInv'
  <2>1. ASSUME NEW p, NEW r, HandlesRequest(c, p, r) PROVE loop' = "events"
    BY <2>1, EventStep DEF HandlesRequest, OnMessage
  <2> QED
    BY <1>7, <2>1 DEF HandleRequest, HandleNow, RefusePlain, HandlePlain, HandleStream,
                      RefuseStream, WakeInv
<1>8. ASSUME NEW r \in Requests, ResumePlain(r) PROVE WakeInv'
  BY <1>8, QuietStep DEF ResumePlain, loopVars, wakeVars
<1>9. CASE SwapFunctors
  BY <1>9 DEF SwapFunctors, swapFunctors, WakeInv
<1>10. CASE CallWrite
  BY <1>10, QuietStep DEF CallWrite, callFunctor, wakeVars
<1>11. CASE CallEnd
  BY <1>11, QuietStep DEF CallEnd, callFunctor, wakeVars
<1>12. CASE CallDestroyed
  BY <1>12, QuietStep DEF CallDestroyed, callFunctor, connectDestroyed, wakeVars
<1>13. CASE EndFunctors
  BY <1>13 DEF EndFunctors, endFunctors, WakeInv
<1> QED
  BY <1>1, <1>2, <1>3, <1>4, <1>5, <1>6, <1>7, <1>8, <1>9, <1>10, <1>11, <1>12, <1>13
     DEF LoopStep

\* The steps of a worker.
LEMMA WorkerKeeps ==
    ASSUME WakeInv, NEW r \in Requests, WorkerStep(r)
    PROVE  WakeInv'
<1>1. ASSUME NEW k, Delta(r, k) PROVE WakeInv'
  BY <1>1, QuietStep DEF Delta, loopVars, wakeVars
<1>2. CASE EmitFinish(r)
  BY <1>2, QuietStep DEF EmitFinish, loopVars, wakeVars
<1>3. CASE WriteDead(r)
  BY <1>3, QuietStep DEF WriteDead, loopVars, wakeVars
<1>4. CASE WriteFinds(r)
  BY <1>4, CloseStep DEF WriteFinds
<1>5. CASE WriteChecks(r)
  BY <1>5, QuietStep DEF WriteChecks, loopVars, wakeVars
<1>6. CASE WriteQueues(r)
  BY <1>6, QueueStep DEF WriteQueues
<1>7. CASE WriteWakes(r)
  BY <1>7, WakesStep DEF WriteWakes
<1>8. CASE WriteFindsAfter(r)
  <2>1. CASE closed[r]
    BY <1>8, <2>1, QuietStep DEF WriteFindsAfter, loopVars, wakeVars
  <2>2. CASE ~closed[r]
    BY <1>8, <2>2, CloseStep DEF WriteFindsAfter
  <2> QED BY <2>1, <2>2
<1>9. CASE OnFinish(r)
  <2>1. CASE Closes(r)
    BY <2>1, CloseStep
  <2>2. CASE ~Closes(r)
    BY <1>9, <2>2, QuietStep DEF OnFinish, loopVars, wakeVars
  <2> QED BY <2>1, <2>2
<1>10. CASE EndWakes(r)
  BY <1>10, WakesStep DEF EndWakes
<1>11. CASE RunPlain(r)
  BY <1>11, QuietStep DEF RunPlain, loopVars, wakeVars
<1> QED
  BY <1>1, <1>2, <1>3, <1>4, <1>5, <1>6, <1>7, <1>8, <1>9, <1>10, <1>11 DEF WorkerStep

(***************************************************************************)
(* A loop that blocks in poll while functors are queued has been woken or  *)
(* is about to be, whatever the workers, the clients and the loop's own    *)
(* handlers do (EventLoop::queueInLoop, handleRead, doPendingFunctors).    *)
(***************************************************************************)
THEOREM WakeupNotLost == Spec => []NoLostWakeup
<1>1. Init => WakeInv
  BY DEF Init, TcpInit, LoopInit, WakeInv
<1>2. WakeInv /\ [Next]_vars => WakeInv'
  <2> SUFFICES ASSUME WakeInv, [Next]_vars PROVE WakeInv'
    OBVIOUS
  <2>1. CASE LoopStep
    BY <2>1, LoopKeeps
  <2>2. ASSUME NEW r \in Requests, WorkerStep(r) PROVE WakeInv'
    BY <2>2, WorkerKeeps
  <2>3. ASSUME NEW c \in Conns, ClientStep(c) PROVE WakeInv'
    BY <2>3, QuietStep DEF ClientStep, Connect, Send, Leave, loopVars, wakeVars
  <2>4. ASSUME NEW c \in Conns, ClientReads(c) PROVE WakeInv'
    BY <2>4, QuietStep DEF ClientReads, Drain, loopVars, wakeVars
  <2>5. CASE UNCHANGED vars
    BY <2>5, QuietStep DEF vars, loopVars, wakeVars
  <2> QED BY <2>1, <2>2, <2>3, <2>4, <2>5 DEF Next, Dead
<1>3. WakeInv => NoLostWakeup
  BY DEF WakeInv, NoLostWakeup
<1> QED BY <1>1, <1>2, <1>3, PTL DEF Spec

-----------------------------------------------------------------------------
(* The invariants of a connection.                                         *)

\* A sequence of anything: what the items of a response are does not matter here.
IsSeq(s) == \E S : s \in Seq(S)

\* The loop's thread: events are left only while it handles events, functors to
\* call only while it calls functors.
LoopInv ==
    /\ loop \in {"poll", "events", "functors"} /\ wakeup \in BOOLEAN /\ waking \subseteq Requests
    /\ loop # "events" => active = {}
    /\ loop # "functors" => batch = <<>>
    /\ IsSeq(batch) /\ IsSeq(pending)

\* The functions of a connection and of a request.
ConnType ==
    /\ state \in [Conns -> {"kConnecting", "kConnected", "kDisconnecting", "kDisconnected"}]
    /\ index \in [Conns -> {"kNew", "kAdded", "kDeleted"}]
    /\ writing \in [Conns -> BOOLEAN] /\ fin \in [Conns -> BOOLEAN]
    /\ peer \in [Conns -> {"none", "open", "closed"}]
    /\ context \in [Conns -> Requests \cup {None}]

WorkType ==
    /\ pc \in [Requests -> Place]
    /\ cancelled \in [Requests -> BOOLEAN]
    /\ wasted \in [Requests -> Nat]
    /\ at \in [Requests -> Nat] /\ \A r \in Requests : at[r] <= Len(Text[r])
    /\ waiting \in Requests \cup {None}

\* What is erased has been read, and what is read has been sent.
InputInv ==
    /\ sent \in [Conns -> Nat] /\ got \in [Conns -> Nat] /\ eaten \in [Conns -> Nat]
    /\ \A c \in Conns : eaten[c] <= got[c] /\ got[c] <= sent[c] /\ sent[c] <= Len(Input[c])

\* A connection's state, its channel and the events poll has reported for it.
StateInv ==
    \A c \in Conns :
        /\ state[c] = "kConnecting" => index[c] = "kNew"
        /\ state[c] \in {"kConnected", "kDisconnecting"} <=> index[c] = "kAdded"
        /\ state[c] \in {"kConnected", "kDisconnecting"} <=> c \in connections
        /\ <<c, "accept">> \in active => state[c] = "kConnecting"
        /\ <<c, "in">> \in active => index[c] = "kAdded"
        /\ <<c, "out">> \in active => index[c] # "kNew"

\* The functors to come, in order.
Functors == batch \o pending

\* What a functor may be.
IsFunctor(f) ==
    \/ f.op \in {"WriteInLoop", "EndInLoop"} /\ f.req \in Requests
    \/ f.op = "connectDestroyed" /\ f.conn \in Conns

\* A disabled channel is removed by one functor, and only a disabled one is.
RemoveInv ==
    /\ \A i \in DOMAIN Functors : IsFunctor(Functors[i])
    /\ \A c \in Conns : /\ index[c] = "kDeleted" <=> Removals(c) # {}
                        /\ \A i, j \in Removals(c) : i = j

\* The output side.  Only a connection that is being shut down is at its end, and
\* then it has nothing more to send.
OutInv ==
    /\ DOMAIN out = Conns /\ DOMAIN wire = Conns
    /\ \A c \in Conns :
          /\ IsSeq(out[c]) /\ IsSeq(wire[c])
          /\ state[c] # "kDisconnected" => (writing[c] <=> out[c] # <<>>)
          /\ fin[c] => /\ state[c] \in {"kDisconnecting", "kDisconnected"}
                       /\ ~writing[c] /\ out[c] = <<>>

\* A header still in the input is of a request that has not begun ...
OnceInv ==
    \A c \in Conns : \A p \in DOMAIN Input[c] :
        Input[c][p].head /\ p > eaten[c] => pc[Input[c][p].req] = "none"

\* ... and one that has begun came in on a connection that was accepted.
BegunInv == \A r \in Requests : pc[r] # "none" => state[ConnOf(r)] # "kConnecting"

\* A delta that was wasted has cancelled the request, or its write is about to.
WastedInv ==
    \A r \in Requests :
        \/ wasted[r] = 0
        \/ /\ wasted[r] = 1 /\ pc[r] # "none"
           /\ cancelled[r] \/ (pc[r] = "check" /\ ~connected(ConnOf(r)))

-----------------------------------------------------------------------------
(* Sequences of anything.                                                  *)

\* Length and domain of a sequence.
LEMMA SeqLen ==
    ASSUME NEW s, IsSeq(s)
    PROVE  /\ Len(s) \in Nat /\ DOMAIN s = 1 .. Len(s)
           /\ s = <<>> <=> Len(s) = 0
<1>1. PICK S : s \in Seq(S)
  BY DEF IsSeq
<1>. QED  BY <1>1, LenProperties, EmptySeq

\* Short tuples are sequences.
LEMMA SeqTuples ==
    ASSUME NEW a, NEW b, NEW d
    PROVE  IsSeq(<<>>) /\ IsSeq(<<a>>) /\ IsSeq(<<a, b, d>>)
<1>1. <<>> \in Seq({a}) /\ <<a>> \in Seq({a}) /\ <<a, b, d>> \in Seq({a, b, d})
  OBVIOUS
<1>. QED  BY <1>1 DEF IsSeq

\* Two sequences joined.
LEMMA SeqConcat ==
    ASSUME NEW s, NEW t, IsSeq(s), IsSeq(t)
    PROVE  /\ IsSeq(s \o t) /\ Len(s \o t) = Len(s) + Len(t)
           /\ \A i \in 1 .. Len(s) + Len(t) :
                 (s \o t)[i] = IF i <= Len(s) THEN s[i] ELSE t[i - Len(s)]
<1>1. PICK S : s \in Seq(S)
  BY DEF IsSeq
<1>2. PICK T : t \in Seq(T)
  BY DEF IsSeq
<1>3. s \in Seq(S \cup T) /\ t \in Seq(S \cup T)
  BY <1>1, <1>2, SeqMonotonic
<1>4. /\ s \o t \in Seq(S \cup T) /\ Len(s \o t) = Len(s) + Len(t)
      /\ \A i \in 1 .. Len(s) + Len(t) :
            (s \o t)[i] = IF i <= Len(s) THEN s[i] ELSE t[i - Len(s)]
  BY <1>3, ConcatProperties
<1>. QED  BY <1>4 DEF IsSeq

\* A sequence with one more element.
LEMMA SeqAppend ==
    ASSUME NEW s, NEW e, IsSeq(s)
    PROVE  /\ IsSeq(Append(s, e)) /\ Len(Append(s, e)) = Len(s) + 1
           /\ \A i \in 1 .. Len(s) : Append(s, e)[i] = s[i]
           /\ Append(s, e)[Len(s) + 1] = e
<1>1. PICK S : s \in Seq(S)
  BY DEF IsSeq
<1>2. s \in Seq(S \cup {e}) /\ e \in S \cup {e}
  BY <1>1, SeqMonotonic
<1>3. Append(s, e) \in Seq(S \cup {e})
  BY <1>2, AppendProperties
<1>. QED  BY <1>2, <1>3, AppendProperties DEF IsSeq

\* A sequence without its first element.
LEMMA SeqTail ==
    ASSUME NEW s, IsSeq(s), s # <<>>
    PROVE  /\ IsSeq(Tail(s)) /\ Len(Tail(s)) = Len(s) - 1 /\ Head(s) = s[1]
           /\ \A i \in 1 .. Len(s) - 1 : Tail(s)[i] = s[i + 1]
<1>1. PICK S : s \in Seq(S)
  BY DEF IsSeq
<1>2. /\ Tail(s) \in Seq(S) /\ Len(Tail(s)) = Len(s) - 1
      /\ \A i \in 1 .. Len(Tail(s)) : Tail(s)[i] = s[i + 1]
  BY <1>1, HeadTailProperties
<1>3. Head(s) = s[1]
  BY <1>1
<1>. QED  BY <1>2, <1>3 DEF IsSeq

\* A part of a sequence.
LEMMA SeqPart ==
    ASSUME NEW s, IsSeq(s), NEW m \in Int, NEW n \in Int, 1 <= m, n <= Len(s)
    PROVE  IsSeq(SubSeq(s, m, n))
<1>1. PICK S : s \in Seq(S)
  BY DEF IsSeq
<1>2. Len(s) \in Nat /\ \A i \in 1 .. Len(s) : s[i] \in S
  BY <1>1, LenProperties, ElementOfSeq
<1>3. \A i \in m .. n : s[i] \in S
  BY <1>2
<1>4. SubSeq(s, m, n) \in Seq(S)
  BY <1>3, SubSeqProperties
<1>. QED  BY <1>4 DEF IsSeq

-----------------------------------------------------------------------------
(* What the kinds of steps leave alone.                                    *)

\* The connection of a request is the one it came in on.
LEMMA ConnOfInput ==
    /\ \A r \in Requests : ConnOf(r) \in Conns
    /\ \A c \in Conns : \A p \in DOMAIN Input[c] :
          Input[c][p].req \in Requests /\ ConnOf(Input[c][p].req) = c
<1>1. ASSUME NEW r \in Requests
      PROVE  ConnOf(r) \in Conns /\ \E p \in DOMAIN Input[ConnOf(r)] : Input[ConnOf(r)][p].req = r
  <2>1. \E c \in Conns : \E p \in DOMAIN Input[c] : Input[c][p].req = r
    BY InputAssumption
  <2>. QED  BY <2>1 DEF ConnOf
<1>2. ASSUME NEW c \in Conns, NEW p \in DOMAIN Input[c]
      PROVE  Input[c][p].req \in Requests /\ ConnOf(Input[c][p].req) = c
  <2>1. Input[c] \in Seq(Piece)
    BY HttpAssumption
  <2>2. Input[c][p] \in Piece
    BY <2>1, LenProperties, ElementOfSeq
  <2>3. PICK r \in Requests : r = Input[c][p].req
    BY <2>2 DEF Piece
  <2>4. PICK q \in DOMAIN Input[ConnOf(r)] : Input[ConnOf(r)][q].req = r
    BY <1>1
  <2>5. ConnOf(r) \in Conns
    BY <1>1
  <2>6. PICK d \in Conns : d = ConnOf(r)
    BY <2>5
  <2>7. d = c
    BY <2>3, <2>4, <2>6, InputAssumption
  <2>. QED  BY <2>3, <2>6, <2>7
<1>. QED  BY <1>1, <1>2

\* A worker changes nothing of the loop and of the connections but the queue of
\* functors, to which it adds one of its own, and the wakeup.
LEMMA WorkerFrame ==
    ASSUME NEW r \in Requests, WorkerStep(r)
    PROVE  /\ UNCHANGED <<connVars, kernelVars, batch, active, loop, context, eaten, waiting>>
           /\ waking' \subseteq waking \cup {r} /\ wakeup' \in {wakeup, TRUE}
           /\ \/ pending' = pending
              \/ \E f : /\ f.op \in {"WriteInLoop", "EndInLoop"} /\ f.req = r
                        /\ pending' = Append(pending, f)
<1>. DEFINE Good ==
       /\ UNCHANGED <<connVars, kernelVars, batch, active, loop, context, eaten, waiting>>
       /\ waking' \subseteq waking \cup {r} /\ wakeup' \in {wakeup, TRUE}
       /\ \/ pending' = pending
          \/ \E f : /\ f.op \in {"WriteInLoop", "EndInLoop"} /\ f.req = r
                    /\ pending' = Append(pending, f)
<1>1. ASSUME NEW k, Delta(r, k) PROVE Good
  BY <1>1 DEF Delta, loopVars
<1>2. CASE EmitFinish(r) \/ WriteDead(r) \/ WriteChecks(r) \/ RunPlain(r)
  BY <1>2 DEF EmitFinish, WriteDead, WriteChecks, RunPlain, loopVars
<1>3. ASSUME Closes(r) PROVE Good
  <2>1. PICK f : f = [op |-> "EndInLoop", req |-> r]
    OBVIOUS
  <2>2. f.op = "EndInLoop" /\ f.req = r
    BY <2>1
  <2>3. pending' = Append(pending, f) /\ waking' = waking \cup {r}
    BY <1>3, <2>1 DEF Closes, queueInLoop
  <2>4. UNCHANGED <<connVars, kernelVars, batch, active, loop, wakeup, context, eaten, waiting>>
    BY <1>3 DEF Closes
  <2>. QED  BY <2>2, <2>3, <2>4
<1>4. CASE WriteFinds(r)
  BY <1>3, <1>4 DEF WriteFinds
<1>5. CASE WriteQueues(r)
  <2>1. PICK f : f = [op |-> "WriteInLoop", req |-> r, item |-> Head(mail[r])]
    OBVIOUS
  <2>2. f.op = "WriteInLoop" /\ f.req = r
    BY <2>1
  <2>3. pending' = Append(pending, f) /\ waking' = waking \cup {r}
    BY <1>5, <2>1 DEF WriteQueues, queueInLoop
  <2>4. UNCHANGED <<connVars, kernelVars, batch, active, loop, wakeup, context, eaten, waiting>>
    BY <1>5 DEF WriteQueues
  <2>. QED  BY <2>2, <2>3, <2>4
<1>6. ASSUME Wakes(r) PROVE Good
  BY <1>6 DEF Wakes, wakeupLoop
<1>7. CASE WriteWakes(r) \/ EndWakes(r)
  BY <1>6, <1>7 DEF WriteWakes, EndWakes
<1>8. CASE WriteFindsAfter(r)
  BY <1>3, <1>8 DEF WriteFindsAfter, loopVars
<1>9. CASE OnFinish(r)
  BY <1>3, <1>9 DEF OnFinish, loopVars
<1>. QED  BY <1>1, <1>2, <1>4, <1>5, <1>7, <1>8, <1>9 DEF WorkerStep

\* A client changes nothing of the program.
LEMMA ClientFrame ==
    ASSUME NEW c \in Conns, ClientStep(c) \/ ClientReads(c)
    PROVE  /\ UNCHANGED <<loopVars, connVars, got, fin, httpVars>>
           /\ sent' = sent \/ (sent[c] < Len(Input[c]) /\ sent' = [sent EXCEPT ![c] = @ + 1])
           /\ wire' = wire \/ wire' = [wire EXCEPT ![c] = <<>>]
           /\ peer' = peer \/ peer' = [peer EXCEPT ![c] = "open"]
                           \/ peer' = [peer EXCEPT ![c] = "closed"]
  BY DEF ClientStep, ClientReads, Connect, Send, Leave, Drain

\* A step's writes to a connection, and its shutdown of it.
Writes(c) == \/ UNCHANGED <<wire, out, writing>>
             \/ \E items : IsSeq(items) /\ send(c, items)
Shuts(c)  == UNCHANGED <<state, fin>> \/ shutdown(c)

\* WriteInLoop of up to three items.
LEMMA WriteInLoopFrame ==
    ASSUME NEW r, NEW a, NEW b, NEW d, NEW items \in {<<a>>, <<a, b, d>>}, WriteInLoop(r, items)
    PROVE  Writes(ConnOf(r))
<1>1. IsSeq(<<a>>) /\ IsSeq(<<a, b, d>>) /\ IsSeq(<<Header(r)>>)
  BY SeqTuples
<1>2. IsSeq(items)
  BY <1>1
<1>3. IsSeq(<<Header(r)>> \o items)
  BY <1>1, <1>2, SeqConcat
<1>. QED  BY <1>2, <1>3 DEF WriteInLoop, Writes

\* A complete request: where it lies in the input.
LEMMA CompleteFacts ==
    ASSUME InputInv, NEW c \in Conns, NEW p \in Complete(c)
    PROVE  /\ p \in DOMAIN Input[c] /\ Input[c][p].head /\ p > eaten[c]
           /\ p <= RequestEnd(c, p) /\ RequestEnd(c, p) <= sent[c] /\ RequestEnd(c, p) \in Nat
<1>1. /\ sent[c] \in Nat /\ eaten[c] \in Nat /\ sent[c] <= Len(Input[c])
      /\ Len(Input[c]) \in Nat /\ DOMAIN Input[c] = 1 .. Len(Input[c])
  <2>1. Input[c] \in Seq(Piece)
    BY HttpAssumption
  <2>. QED  BY <2>1, LenProperties DEF InputInv
<1>2. p \in (eaten[c] + 1) .. sent[c] /\ Input[c][p].head /\ RequestEnd(c, p) <= sent[c]
  BY DEF Complete, HeaderAt
<1>3. RequestEnd(c, p) \in {sent[c], p + 1, p}
  BY DEF RequestEnd
<1>. QED  BY <1>1, <1>2, <1>3

\* onMessage with a complete request in the buffer, whichever handler it goes to.
LEMMA RequestFrame ==
    ASSUME InputInv, NEW c \in Conns, HandleRequest(c)
    PROVE  /\ loop = "events" /\ <<c, "in">> \in active /\ active' = active \ {<<c, "in">>}
           /\ UNCHANGED <<pending, batch, loop, wakeup, waking, index, connections, peer, sent,
                          at, wasted>>
           /\ got' = [got EXCEPT ![c] = sent[c]]
           /\ Writes(c) /\ Shuts(c)
           /\ \E p \in DOMAIN Input[c], r \in Requests, n \in Nat :
                 /\ r = Input[c][p].req /\ ConnOf(r) = c /\ Input[c][p].head /\ p > eaten[c]
                 /\ p <= n /\ n <= sent[c] /\ eaten' = [eaten EXCEPT ![c] = n]
                 /\ context' \in {context, [context EXCEPT ![c] = r]}
                 /\ waiting' \in {waiting, r, None}
                 /\ pc' \in {[pc EXCEPT ![r] = "run"], [pc EXCEPT ![r] = "ended"]}
                 /\ cancelled' \in {cancelled, [cancelled EXCEPT ![r] = ~connected(c)]}
<1>0. PICK p \in Complete(c) : LET r == Input[c][p].req IN
         \/ HandleNow(c, p, r) \/ RefusePlain(c, p, r) \/ HandlePlain(c, p, r)
         \/ HandleStream(c, p, r) \/ RefuseStream(c, p, r)
  BY DEF HandleRequest
<1>1. PICK r : /\ r = Input[c][p].req
               /\ \/ HandleNow(c, p, r) \/ RefusePlain(c, p, r) \/ HandlePlain(c, p, r)
                  \/ HandleStream(c, p, r) \/ RefuseStream(c, p, r)
  BY <1>0
<1>2. HandlesRequest(c, p, r)
  BY <1>1 DEF HandleNow, RefusePlain, HandlePlain, HandleStream, RefuseStream
<1>3. /\ loop = "events" /\ <<c, "in">> \in active /\ active' = active \ {<<c, "in">>}
      /\ UNCHANGED <<pending, batch, loop, wakeup, waking, index, connections, peer, sent>>
      /\ got' = [got EXCEPT ![c] = sent[c]]
  BY <1>2 DEF HandlesRequest, OnMessage, handleEvent
<1>4. UNCHANGED <<at, wasted>>
  BY <1>1 DEF HandleNow, RefusePlain, HandlePlain, HandleStream, RefuseStream
<1>5. p \in DOMAIN Input[c] /\ r \in Requests /\ ConnOf(r) = c
  BY <1>1, CompleteFacts, ConnOfInput
<1>6. Writes(c) /\ Shuts(c)
  <2>1. ASSUME Answer(r) PROVE Writes(c) /\ Shuts(c)
    BY <2>1, <1>5, WriteInLoopFrame DEF Answer, Shuts
  <2>2. CASE HandleNow(c, p, r) \/ RefusePlain(c, p, r)
    BY <2>1, <2>2 DEF HandleNow, RefusePlain
  <2>3. CASE HandlePlain(c, p, r)
    BY <2>3 DEF HandlePlain, Writes, Shuts
  <2>4. CASE HandleStream(c, p, r)
    <3>1. WriteInLoop(r, <<Open(r)>>) /\ UNCHANGED <<state, fin>>
      BY <2>4 DEF HandleStream
    <3>. QED  BY <3>1, <1>5, WriteInLoopFrame DEF Shuts
  <2>5. CASE RefuseStream(c, p, r)
    <3>1. WriteInLoop(r, <<Open(r), Finish(r), Done(r)>>) /\ shutdown(c)
      BY <2>5 DEF RefuseStream
    <3>. QED  BY <3>1, <1>5, WriteInLoopFrame DEF Shuts
  <2>. QED  BY <1>1, <2>2, <2>3, <2>4, <2>5
<1>7. PICK n \in Nat : p <= n /\ n <= sent[c] /\ eaten' = [eaten EXCEPT ![c] = n]
  BY <1>2, CompleteFacts DEF HandlesRequest
<1>8. /\ context' \in {context, [context EXCEPT ![c] = r]}
      /\ waiting' \in {waiting, r, None}
      /\ pc' \in {[pc EXCEPT ![r] = "run"], [pc EXCEPT ![r] = "ended"]}
      /\ cancelled' \in {cancelled, [cancelled EXCEPT ![r] = ~connected(c)]}
  BY <1>1 DEF HandleNow, RefusePlain, HandlePlain, HandleStream, RefuseStream
<1>9. Input[c][p].head /\ p > eaten[c]
  BY CompleteFacts
<1>. QED  BY <1>1, <1>3, <1>4, <1>5, <1>6, <1>7, <1>8, <1>9

\* The loop's thread resumes its handler.
LEMMA ResumeFrame ==
    ASSUME NEW r \in Requests, ResumePlain(r)
    PROVE  /\ Writes(ConnOf(r)) /\ Shuts(ConnOf(r)) /\ waiting' = None
           /\ UNCHANGED <<loopVars, index, connections, peer, sent, got, context, eaten,
                          cancelled, pc, at, wasted>>
  BY WriteInLoopFrame DEF ResumePlain, Answer, Shuts

\* The functors of the workers.
LEMMA CallFrame ==
    ASSUME CallWrite \/ CallEnd, NEW r, r = Head(batch).req
    PROVE  /\ Writes(ConnOf(r)) /\ Shuts(ConnOf(r))
           /\ loop = "functors" /\ batch # <<>> /\ batch' = Tail(batch)
           /\ Head(batch).op \in {"WriteInLoop", "EndInLoop"}
           /\ UNCHANGED <<pending, active, loop, wakeup, waking, index, connections, peer, sent,
                          got, context, eaten, waiting, cancelled, pc, at, wasted>>
<1>1. CASE CallWrite
  <2>1. WriteInLoop(r, <<Head(batch).item>>)
    BY <1>1 DEF CallWrite
  <2>2. Writes(ConnOf(r))
    BY <2>1, WriteInLoopFrame
  <2>. QED  BY <1>1, <2>2 DEF CallWrite, callFunctor, Shuts
<1>2. CASE CallEnd
  BY <1>2 DEF CallEnd, callFunctor, Shuts, Writes, httpVars, requestVars
<1>. QED  BY <1>1, <1>2

-----------------------------------------------------------------------------
(* The loop, the input and the types.                                      *)

\* The loop's phases, its events and its functors.
LEMMA LoopInvStep ==
    ASSUME LoopInv, InputInv, [Next]_vars
    PROVE  LoopInv'
<1>0. IsSeq(<<>>)
  BY SeqTuples
<1>1. CASE Poll
  BY <1>1 DEF Poll, poll, LoopInv
<1>2. CASE HandleWakeup
  BY <1>2 DEF HandleWakeup, handleWakeup, handleEvent, LoopInv
<1>3. ASSUME NEW c \in Conns, Accept(c) PROVE LoopInv'
  BY <1>3 DEF Accept, newConnection, handleEvent, LoopInv
<1>4. ASSUME NEW c \in Conns, HandleWrite(c) PROVE LoopInv'
  BY <1>4 DEF HandleWrite, handleWrite, handleEvent, LoopInv
<1>5. ASSUME NEW c \in Conns, ReadClose(c) PROVE LoopInv'
  <2>1. pending' = Append(pending, [op |-> "connectDestroyed", conn |-> c])
    BY <1>5 DEF ReadClose, handleClose, queueInOwnLoop
  <2>2. IsSeq(pending')
    BY <2>1, SeqAppend DEF LoopInv
  <2>3. wakeup' \in BOOLEAN
    BY <1>5 DEF ReadClose, handleClose, queueInOwnLoop, LoopInv
  <2>. QED  BY <1>5, <2>2, <2>3 DEF ReadClose, handleEvent, LoopInv
<1>6. ASSUME NEW c \in Conns, ReadPart(c) PROVE LoopInv'
  BY <1>6 DEF ReadPart, OnMessage, handleEvent, LoopInv
<1>7. ASSUME NEW c \in Conns, HandleRequest(c) PROVE LoopInv'
  BY <1>7, RequestFrame DEF LoopInv
<1>8. ASSUME NEW r \in Requests, ResumePlain(r) PROVE LoopInv'
  BY <1>8, ResumeFrame DEF LoopInv, loopVars
<1>9. CASE SwapFunctors
  BY <1>0, <1>9 DEF SwapFunctors, swapFunctors, LoopInv
<1>10. ASSUME loop = "functors", batch # <<>>, batch' = Tail(batch),
              UNCHANGED <<pending, active, loop, wakeup, waking>>
       PROVE  LoopInv'
  BY <1>10, SeqTail DEF LoopInv
<1>11. CASE CallWrite \/ CallEnd
  BY <1>10, <1>11, CallFrame
<1>12. CASE CallDestroyed
  BY <1>10, <1>12 DEF CallDestroyed, callFunctor, connectDestroyed
<1>13. CASE EndFunctors
  BY <1>13 DEF EndFunctors, endFunctors, LoopInv
<1>14. ASSUME NEW r \in Requests, WorkerStep(r) PROVE LoopInv'
  <2>1. IsSeq(pending')
    <3>1. CASE pending' = pending
      BY <3>1 DEF LoopInv
    <3>2. CASE pending' # pending
      <4>1. PICK f : pending' = Append(pending, f)
        BY <1>14, <3>2, WorkerFrame
      <4>. QED  BY <4>1, SeqAppend DEF LoopInv
    <3>. QED  BY <3>1, <3>2
  <2>. QED  BY <1>14, <2>1, WorkerFrame DEF LoopInv
<1>15. ASSUME NEW c \in Conns, ClientStep(c) \/ ClientReads(c) PROVE LoopInv'
  BY <1>15, ClientFrame DEF LoopInv, loopVars
<1>16. CASE UNCHANGED vars
  BY <1>16 DEF vars, loopVars, LoopInv
<1>. QED
  BY <1>1, <1>2, <1>3, <1>4, <1>5, <1>6, <1>7, <1>8, <1>9, <1>11, <1>12, <1>13, <1>14, <1>15,
     <1>16 DEF Next, LoopStep, Dead

\* What is erased, read and sent.
LEMMA InputInvStep ==
    ASSUME InputInv, [Next]_vars
    PROVE  InputInv'
<1>1. ASSUME UNCHANGED <<sent, got, eaten>> PROVE InputInv'
  BY <1>1 DEF InputInv
<1>2. CASE Poll \/ HandleWakeup \/ SwapFunctors \/ EndFunctors \/ UNCHANGED vars
  BY <1>1, <1>2 DEF Poll, HandleWakeup, SwapFunctors, EndFunctors, kernelVars, httpVars, vars
<1>3. ASSUME NEW c \in Conns, Accept(c) \/ HandleWrite(c) \/ ReadClose(c) PROVE InputInv'
  BY <1>1, <1>3 DEF Accept, newConnection, HandleWrite, handleWrite, ReadClose, handleClose,
                    kernelVars, httpVars
<1>4. ASSUME NEW c \in Conns, ReadPart(c) PROVE InputInv'
  <2>1. got' = [got EXCEPT ![c] = sent[c]] /\ UNCHANGED <<sent, eaten>>
    BY <1>4 DEF ReadPart, OnMessage, httpVars
  <2>. QED  BY <2>1 DEF InputInv
<1>5. ASSUME NEW c \in Conns, HandleRequest(c) PROVE InputInv'
  <2>1. PICK n \in Nat : n <= sent[c] /\ eaten' = [eaten EXCEPT ![c] = n]
    BY <1>5, RequestFrame
  <2>2. got' = [got EXCEPT ![c] = sent[c]] /\ sent' = sent
    BY <1>5, RequestFrame
  <2>. QED  BY <2>1, <2>2 DEF InputInv
<1>6. ASSUME NEW r \in Requests, ResumePlain(r) PROVE InputInv'
  BY <1>1, <1>6, ResumeFrame
<1>7. CASE CallWrite \/ CallEnd
  BY <1>1, <1>7, CallFrame
<1>8. CASE CallDestroyed
  BY <1>1, <1>8 DEF CallDestroyed, connectDestroyed, kernelVars, httpVars
<1>9. ASSUME NEW r \in Requests, WorkerStep(r) PROVE InputInv'
  BY <1>1, <1>9, WorkerFrame DEF kernelVars
<1>10. ASSUME NEW c \in Conns, ClientStep(c) \/ ClientReads(c) PROVE InputInv'
  <2>1. UNCHANGED <<got, eaten>>
    BY <1>10, ClientFrame DEF httpVars
  <2>2. Len(Input[c]) \in Nat
    <3>1. Input[c] \in Seq(Piece)
      BY HttpAssumption
    <3>. QED  BY <3>1, LenProperties
  <2>3. CASE sent' = sent
    BY <1>1, <2>1, <2>3
  <2>4. CASE sent[c] < Len(Input[c]) /\ sent' = [sent EXCEPT ![c] = @ + 1]
    BY <2>1, <2>2, <2>4 DEF InputInv
  <2>. QED  BY <1>10, <2>3, <2>4, ClientFrame
<1>. QED
  BY <1>2, <1>3, <1>4, <1>5, <1>6, <1>7, <1>8, <1>9, <1>10 DEF Next, LoopStep, Dead

\* A shutdown changes a connection that is up to one that is going down.
LEMMA ShutsFacts ==
    ASSUME ConnType, writing' \in [Conns -> BOOLEAN], NEW c \in Conns, Shuts(c)
    PROVE  /\ state' \in [Conns -> {"kConnecting", "kConnected", "kDisconnecting",
                                    "kDisconnected"}]
           /\ fin' \in [Conns -> BOOLEAN]
           /\ \A d \in Conns : \/ state'[d] = state[d] /\ fin'[d] = fin[d]
                               \/ /\ state[d] = "kConnected" /\ state'[d] = "kDisconnecting"
                                  /\ fin'[d] = ~writing'[d]
  BY DEF ConnType, Shuts, shutdown, connected

\* The kernel takes a prefix.
LEMMA KernelTakes ==
    ASSUME NEW c, NEW items, IsSeq(items), NEW k \in KernelWrite(c, items)
    PROVE  Len(items) \in Nat /\ k.took \in 0 .. Len(items)
<1>1. Len(items) \in Nat
  BY SeqLen
<1>2. CASE peer[c] = "closed"
  <2>1. k \in [took : {0, Len(items)}, room : {TRUE}, killed : BOOLEAN]
    BY <1>2 DEF KernelWrite
  <2>. QED  BY <1>1, <2>1
<1>3. CASE peer[c] # "closed"
  <2>1. PICK n \in IF room[c] THEN 1 .. Len(items) ELSE {0} :
           k = [took |-> n, room |-> n = Len(items), killed |-> FALSE]
    BY <1>3 DEF KernelWrite
  <2>2. k.took = n
    BY <2>1
  <2>. QED  BY <1>1, <2>1, <2>2
<1>. QED  BY <1>2, <1>3

\* What a write makes of the output of a connection, and of no other.
LEMMA WritesFacts ==
    ASSUME ConnType, OutInv, NEW c \in Conns, Writes(c)
    PROVE  /\ writing' \in [Conns -> BOOLEAN]
           /\ DOMAIN out' = Conns /\ DOMAIN wire' = Conns
           /\ \A d \in Conns :
                 /\ IsSeq(out'[d]) /\ IsSeq(wire'[d])
                 /\ state[d] # "kDisconnected" => (writing'[d] <=> out'[d] # <<>>)
                 /\ ~connected(d) => /\ out'[d] = out[d] /\ wire'[d] = wire[d]
                                     /\ writing'[d] = writing[d]
<1>. DEFINE Good == /\ writing' \in [Conns -> BOOLEAN]
                    /\ DOMAIN out' = Conns /\ DOMAIN wire' = Conns
                    /\ \A d \in Conns :
                          /\ IsSeq(out'[d]) /\ IsSeq(wire'[d])
                          /\ state[d] # "kDisconnected" => (writing'[d] <=> out'[d] # <<>>)
                          /\ ~connected(d) => /\ out'[d] = out[d] /\ wire'[d] = wire[d]
                                              /\ writing'[d] = writing[d]
<1>1. CASE UNCHANGED <<wire, out, writing>>
  BY <1>1 DEF ConnType, OutInv
<1>2. ASSUME NEW items, IsSeq(items), send(c, items) PROVE Good
  <2>1. CASE ~connected(c)
    BY <1>1, <1>2, <2>1 DEF send
  <2>2. CASE connected(c) /\ ~writing[c] /\ out[c] = <<>>
    <3>1. PICK k \in KernelWrite(c, items) :
             /\ wire' = [wire EXCEPT ![c] = @ \o Carried(c, items, k.took)]
             /\ out' = [out EXCEPT ![c] = Kept(c, items, k.took)]
             /\ writing' = [writing EXCEPT ![c] = out'[c] # <<>>]
      BY <1>2, <2>2 DEF send, sendInLoop
    <3>2. Len(items) \in Nat
      BY <1>2, SeqLen
    <3>3. k.took \in 0 .. Len(items)
      BY <1>2, KernelTakes
    <3>4. IsSeq(SubSeq(items, 1, k.took)) /\ IsSeq(SubSeq(items, k.took + 1, Len(items)))
      BY <1>2, <3>2, <3>3, SeqPart
    <3>5. IsSeq(Carried(c, items, k.took)) /\ IsSeq(Kept(c, items, k.took))
      BY <3>4, SeqTuples DEF Carried, Kept
    <3>6. IsSeq(wire[c] \o Carried(c, items, k.took))
      BY <3>5, SeqConcat DEF OutInv
    <3>7. /\ DOMAIN out' = Conns /\ DOMAIN wire' = Conns
          /\ IsSeq(out'[c]) /\ IsSeq(wire'[c])
          /\ \A d \in Conns \ {c} : out'[d] = out[d] /\ wire'[d] = wire[d]
      BY <3>1, <3>5, <3>6 DEF OutInv
    <3>8. /\ writing' \in [Conns -> BOOLEAN] /\ writing'[c] = (out'[c] # <<>>)
          /\ \A d \in Conns \ {c} : writing'[d] = writing[d]
      BY <3>1 DEF ConnType
    <3>. QED  BY <2>2, <3>7, <3>8 DEF OutInv
  <2>3. CASE connected(c) /\ ~(~writing[c] /\ out[c] = <<>>)
    <3>1. /\ out' = [out EXCEPT ![c] = @ \o items] /\ wire' = wire
          /\ writing' = [writing EXCEPT ![c] = TRUE]
      BY <1>2, <2>3 DEF send, sendInLoop
    <3>2. out[c] # <<>> /\ IsSeq(out[c])
      BY <2>3 DEF OutInv, connected
    <3>3. IsSeq(out[c] \o items) /\ out[c] \o items # <<>>
      <4>1. IsSeq(out[c] \o items) /\ Len(out[c] \o items) = Len(out[c]) + Len(items)
        BY <1>2, <3>2, SeqConcat
      <4>2. Len(out[c]) \in Nat /\ Len(items) \in Nat /\ Len(out[c]) # 0
        BY <1>2, <3>2, SeqLen
      <4>. QED  BY <4>1, <4>2, SeqLen
    <3>4. /\ DOMAIN out' = Conns /\ out'[c] = out[c] \o items
          /\ \A d \in Conns \ {c} : out'[d] = out[d]
      BY <3>1 DEF OutInv
    <3>5. /\ writing' \in [Conns -> BOOLEAN] /\ writing'[c] = TRUE
          /\ \A d \in Conns \ {c} : writing'[d] = writing[d]
      BY <3>1 DEF ConnType
    <3>. QED  BY <2>3, <3>1, <3>3, <3>4, <3>5 DEF OutInv
  <2>. QED  BY <2>1, <2>2, <2>3
<1>. QED  BY <1>1, <1>2 DEF Writes

\* handleWrite on the output of a connection.
LEMMA HandleWriteFacts ==
    ASSUME ConnType, OutInv, NEW c \in Conns, handleWrite(c)
    PROVE  /\ writing' \in [Conns -> BOOLEAN] /\ fin' \in [Conns -> BOOLEAN]
           /\ DOMAIN out' = Conns /\ DOMAIN wire' = Conns
           /\ \A d \in Conns :
                 /\ IsSeq(out'[d]) /\ IsSeq(wire'[d])
                 /\ \/ /\ out'[d] = out[d] /\ wire'[d] = wire[d] /\ writing'[d] = writing[d]
                       /\ fin'[d] = fin[d]
                    \/ /\ writing[d] /\ (writing'[d] <=> out'[d] # <<>>)
                       /\ fin'[d] => fin[d] \/ (out'[d] = <<>> /\ state[d] = "kDisconnecting")
<1>1. CASE ~writing[c]
  BY <1>1 DEF handleWrite, ConnType, OutInv
<1>2. CASE writing[c]
  <2>1. PICK k \in KernelWrite(c, out[c]) :
           /\ wire' = [wire EXCEPT ![c] = @ \o Carried(c, out[c], k.took)]
           /\ out' = [out EXCEPT ![c] = SubSeq(@, k.took + 1, Len(@))]
           /\ writing' = [writing EXCEPT ![c] = out'[c] # <<>>]
           /\ fin' = [fin EXCEPT ![c] = @ \/ (out'[c] = <<>> /\ state[c] = "kDisconnecting")]
    BY <1>2 DEF handleWrite
  <2>2. IsSeq(out[c]) /\ IsSeq(wire[c])
    BY DEF OutInv
  <2>3. Len(out[c]) \in Nat /\ k.took \in 0 .. Len(out[c])
    BY <2>2, KernelTakes
  <2>4. IsSeq(SubSeq(out[c], 1, k.took)) /\ IsSeq(SubSeq(out[c], k.took + 1, Len(out[c])))
    BY <2>2, <2>3, SeqPart
  <2>5. IsSeq(Carried(c, out[c], k.took))
    BY <2>4, SeqTuples DEF Carried
  <2>6. IsSeq(wire[c] \o Carried(c, out[c], k.took))
    BY <2>2, <2>5, SeqConcat
  <2>7. /\ DOMAIN out' = Conns /\ DOMAIN wire' = Conns
        /\ IsSeq(out'[c]) /\ IsSeq(wire'[c])
        /\ \A d \in Conns \ {c} : out'[d] = out[d] /\ wire'[d] = wire[d]
    BY <2>1, <2>4, <2>6 DEF OutInv
  <2>8. /\ writing' \in [Conns -> BOOLEAN] /\ writing'[c] = (out'[c] # <<>>)
        /\ \A d \in Conns \ {c} : writing'[d] = writing[d]
    BY <2>1 DEF ConnType
  <2>9. /\ fin' \in [Conns -> BOOLEAN]
        /\ fin'[c] = (fin[c] \/ (out'[c] = <<>> /\ state[c] = "kDisconnecting"))
        /\ \A d \in Conns \ {c} : fin'[d] = fin[d]
    BY <2>1 DEF ConnType
  <2>. QED  BY <1>2, <2>7, <2>8, <2>9 DEF OutInv
<1>. QED  BY <1>1, <1>2

\* The types of a connection, and its output.
LEMMA OutStep ==
    ASSUME ConnType, OutInv, InputInv, RemoveInv, LoopInv, StateInv, [Next]_vars
    PROVE  ConnType' /\ OutInv'
<1>1. ASSUME UNCHANGED <<state, index, writing, fin, out, wire, peer, context>>
      PROVE  ConnType' /\ OutInv'
  BY <1>1 DEF ConnType, OutInv
<1>2. ASSUME NEW c \in Conns, Writes(c), Shuts(c), UNCHANGED <<index, peer>>,
             context' \in [Conns -> Requests \cup {None}]
      PROVE  ConnType' /\ OutInv'
  <2>1. ConnType'
    BY <1>2, WritesFacts, ShutsFacts DEF ConnType
  <2>2. ASSUME NEW d \in Conns
        PROVE  /\ IsSeq(out'[d]) /\ IsSeq(wire'[d])
               /\ state'[d] # "kDisconnected" => (writing'[d] <=> out'[d] # <<>>)
               /\ fin'[d] => /\ state'[d] \in {"kDisconnecting", "kDisconnected"}
                             /\ ~writing'[d] /\ out'[d] = <<>>
    <3>1. /\ IsSeq(out'[d]) /\ IsSeq(wire'[d]) /\ writing' \in [Conns -> BOOLEAN]
          /\ state[d] # "kDisconnected" => (writing'[d] <=> out'[d] # <<>>)
          /\ ~connected(d) => out'[d] = out[d] /\ writing'[d] = writing[d]
      BY <1>2, WritesFacts
    <3>2. \/ state'[d] = state[d] /\ fin'[d] = fin[d]
          \/ /\ state[d] = "kConnected" /\ state'[d] = "kDisconnecting"
             /\ fin'[d] = ~writing'[d]
      BY <1>2, <3>1, ShutsFacts
    <3>. QED  BY <3>1, <3>2 DEF OutInv, connected
  <2>3. DOMAIN out' = Conns /\ DOMAIN wire' = Conns
    BY <1>2, WritesFacts
  <2>. QED  BY <2>1, <2>2, <2>3 DEF OutInv
<1>3. CASE Poll \/ HandleWakeup \/ SwapFunctors \/ EndFunctors \/ UNCHANGED vars
  BY <1>1, <1>3 DEF Poll, HandleWakeup, SwapFunctors, EndFunctors, connVars, kernelVars, httpVars,
                    vars
<1>4. ASSUME NEW c \in Conns, Accept(c) PROVE ConnType' /\ OutInv'
  <2>1. /\ state' = [state EXCEPT ![c] = "kConnected"] /\ index' = [index EXCEPT ![c] = "kAdded"]
        /\ UNCHANGED <<writing, fin, out, wire, peer, context>>
        /\ <<c, "accept">> \in active
    BY <1>4 DEF Accept, newConnection, handleEvent, kernelVars, httpVars
  <2>2. state[c] = "kConnecting"
    BY <2>1 DEF StateInv
  <2>. QED  BY <2>1, <2>2 DEF ConnType, OutInv
<1>5. ASSUME NEW c \in Conns, HandleWrite(c) PROVE ConnType' /\ OutInv'
  <2>1. handleWrite(c) /\ UNCHANGED <<state, index, peer, context>>
    BY <1>5 DEF HandleWrite, handleWrite, httpVars
  <2>2. ConnType'
    BY <2>1, HandleWriteFacts DEF ConnType
  <2>3. ASSUME NEW d \in Conns
        PROVE  /\ IsSeq(out'[d]) /\ IsSeq(wire'[d])
               /\ state'[d] # "kDisconnected" => (writing'[d] <=> out'[d] # <<>>)
               /\ fin'[d] => /\ state'[d] \in {"kDisconnecting", "kDisconnected"}
                             /\ ~writing'[d] /\ out'[d] = <<>>
    BY <2>1, HandleWriteFacts DEF OutInv
  <2>4. DOMAIN out' = Conns /\ DOMAIN wire' = Conns
    BY <2>1, HandleWriteFacts
  <2>. QED  BY <2>2, <2>3, <2>4 DEF OutInv
<1>6. ASSUME NEW c \in Conns, ReadClose(c) PROVE ConnType' /\ OutInv'
  <2>1. /\ state' = [state EXCEPT ![c] = "kDisconnected"]
        /\ index' = [index EXCEPT ![c] = "kDeleted"]
        /\ writing' = [writing EXCEPT ![c] = FALSE]
        /\ UNCHANGED <<fin, out, wire, peer, context>>
    BY <1>6 DEF ReadClose, handleClose, kernelVars
  <2>. QED  BY <2>1 DEF ConnType, OutInv
<1>7. ASSUME NEW c \in Conns, ReadPart(c) PROVE ConnType' /\ OutInv'
  BY <1>1, <1>7 DEF ReadPart, OnMessage, httpVars
<1>8. ASSUME NEW c \in Conns, HandleRequest(c) PROVE ConnType' /\ OutInv'
  <2>1. PICK r \in Requests : context' \in {context, [context EXCEPT ![c] = r]}
    BY <1>8, RequestFrame
  <2>2. context' \in [Conns -> Requests \cup {None}]
    BY <2>1 DEF ConnType
  <2>. QED  BY <1>2, <1>8, <2>2, RequestFrame
<1>9. ASSUME NEW r \in Requests, ResumePlain(r) PROVE ConnType' /\ OutInv'
  <2>1. ConnOf(r) \in Conns
    BY ConnOfInput
  <2>. QED  BY <1>2, <1>9, <2>1, ResumeFrame DEF ConnType
<1>10. CASE CallWrite \/ CallEnd
  <2>1. PICK r : r = Head(batch).req
    OBVIOUS
  <2>2. batch # <<>> /\ Head(batch).op \in {"WriteInLoop", "EndInLoop"}
    BY <1>10, CallFrame
  <2>3. Head(batch) = Functors[1] /\ 1 \in DOMAIN Functors
    <3>1. IsSeq(batch) /\ IsSeq(pending)
      BY DEF LoopInv
    <3>2. Len(batch) \in Nat \ {0} /\ Len(pending) \in Nat /\ Head(batch) = batch[1]
      BY <2>2, <3>1, SeqLen, SeqTail
    <3>. QED  BY <3>1, <3>2, SeqConcat, SeqLen DEF Functors
  <2>4. r \in Requests
    BY <2>1, <2>2, <2>3 DEF RemoveInv, IsFunctor
  <2>5. ConnOf(r) \in Conns
    BY <2>4, ConnOfInput
  <2>. QED  BY <1>2, <1>10, <2>1, <2>5, CallFrame DEF ConnType
<1>11. CASE CallDestroyed
  <2>1. /\ index' = [index EXCEPT ![Head(batch).conn] = "kNew"]
        /\ UNCHANGED <<state, writing, fin, out, wire, peer, context>>
    BY <1>11 DEF CallDestroyed, connectDestroyed, kernelVars, httpVars
  <2>. QED  BY <2>1 DEF ConnType, OutInv
<1>12. ASSUME NEW r \in Requests, WorkerStep(r) PROVE ConnType' /\ OutInv'
  BY <1>1, <1>12, WorkerFrame DEF connVars, kernelVars
<1>13. ASSUME NEW c \in Conns, ClientStep(c) \/ ClientReads(c) PROVE ConnType' /\ OutInv'
  <2>1. UNCHANGED <<state, index, writing, fin, out, context>>
    BY <1>13, ClientFrame DEF connVars, httpVars
  <2>2. peer' \in [Conns -> {"none", "open", "closed"}]
    BY <1>13, ClientFrame DEF ConnType
  <2>3. DOMAIN wire' = Conns /\ \A d \in Conns : IsSeq(wire'[d])
    <3>1. IsSeq(<<>>)
      BY SeqTuples
    <3>2. wire' = wire \/ wire' = [wire EXCEPT ![c] = <<>>]
      BY <1>13, ClientFrame
    <3>. QED  BY <3>1, <3>2 DEF OutInv
  <2>. QED  BY <2>1, <2>2, <2>3 DEF ConnType, OutInv
<1>. QED
  BY <1>3, <1>4, <1>5, <1>6, <1>7, <1>8, <1>9, <1>10, <1>11, <1>12, <1>13
     DEF Next, LoopStep, Dead

-----------------------------------------------------------------------------
(* The functors, and the states of a connection.                           *)

\* The queue of functors as one sequence.
LEMMA FunctorsSeq ==
    ASSUME IsSeq(batch), IsSeq(pending)
    PROVE  /\ IsSeq(Functors) /\ Len(Functors) \in Nat /\ DOMAIN Functors = 1 .. Len(Functors)
           /\ Len(batch) \in Nat /\ Len(pending) \in Nat
           /\ Len(Functors) = Len(batch) + Len(pending)
           /\ \A i \in 1 .. Len(batch) + Len(pending) :
                 Functors[i] = IF i <= Len(batch) THEN batch[i] ELSE pending[i - Len(batch)]
<1>1. /\ IsSeq(Functors) /\ Len(Functors) = Len(batch) + Len(pending)
      /\ \A i \in 1 .. Len(batch) + Len(pending) :
            Functors[i] = IF i <= Len(batch) THEN batch[i] ELSE pending[i - Len(batch)]
  BY SeqConcat DEF Functors
<1>2. Len(batch) \in Nat /\ Len(pending) \in Nat /\ DOMAIN Functors = 1 .. Len(Functors)
  BY <1>1, SeqLen
<1>. QED  BY <1>1, <1>2

\* The same after a step.
LEMMA FunctorsSeqNext ==
    ASSUME IsSeq(batch'), IsSeq(pending')
    PROVE  /\ DOMAIN Functors' = 1 .. Len(batch') + Len(pending')
           /\ Len(batch') \in Nat /\ Len(pending') \in Nat
           /\ \A i \in 1 .. Len(batch') + Len(pending') :
                 Functors'[i] = IF i <= Len(batch') THEN batch'[i] ELSE pending'[i - Len(batch')]
<1>1. /\ IsSeq(batch' \o pending') /\ Len(batch' \o pending') = Len(batch') + Len(pending')
      /\ \A i \in 1 .. Len(batch') + Len(pending') :
            (batch' \o pending')[i]
              = IF i <= Len(batch') THEN batch'[i] ELSE pending'[i - Len(batch')]
  BY SeqConcat
<1>2. /\ Len(batch') \in Nat /\ Len(pending') \in Nat
      /\ DOMAIN (batch' \o pending') = 1 .. Len(batch' \o pending')
  BY <1>1, SeqLen
<1>3. Functors' = batch' \o pending'
  BY DEF Functors
<1>. QED  BY <1>1, <1>2, <1>3

\* Queueing a functor.
LEMMA FunctorPushed ==
    ASSUME LoopInv, NEW f, pending' = Append(pending, f), batch' = batch
    PROVE  /\ DOMAIN Functors' = 1 .. Len(Functors) + 1
           /\ \A i \in 1 .. Len(Functors) : Functors'[i] = Functors[i]
           /\ Functors'[Len(Functors) + 1] = f
<1>1. IsSeq(batch) /\ IsSeq(pending)
  BY DEF LoopInv
<1>2. /\ IsSeq(pending') /\ Len(pending') = Len(pending) + 1
      /\ \A i \in 1 .. Len(pending) : pending'[i] = pending[i]
      /\ pending'[Len(pending) + 1] = f
  BY <1>1, SeqAppend
<1>3. IsSeq(batch')
  BY <1>1
<1>. DEFINE m == Len(batch)  n == Len(pending)
<1>4. /\ m \in Nat /\ n \in Nat /\ Len(Functors) = m + n
      /\ \A i \in 1 .. m + n : Functors[i] = IF i <= m THEN batch[i] ELSE pending[i - m]
  BY <1>1, FunctorsSeq
<1>5. /\ DOMAIN Functors' = 1 .. m + (n + 1)
      /\ \A i \in 1 .. m + (n + 1) :
            Functors'[i] = IF i <= m THEN batch[i] ELSE pending'[i - m]
  BY <1>2, <1>3, FunctorsSeqNext
<1>. HIDE DEF m, n
<1>6. DOMAIN Functors' = 1 .. Len(Functors) + 1
  BY <1>4, <1>5
<1>7. \A i \in 1 .. Len(Functors) : Functors'[i] = Functors[i]
  <2>. SUFFICES ASSUME NEW i \in 1 .. m + n PROVE Functors'[i] = Functors[i]
    BY <1>4
  <2>1. CASE i <= m
    BY <1>4, <1>5, <2>1
  <2>2. CASE ~(i <= m)
    <3>1. i - m \in 1 .. n
      BY <1>4, <2>2
    <3>2. pending'[i - m] = pending[i - m]
      BY <1>2, <3>1 DEF n
    <3>3. i \in 1 .. m + (n + 1)
      BY <1>4
    <3>4. Functors'[i] = pending'[i - m]
      BY <1>5, <2>2, <3>3
    <3>5. Functors[i] = pending[i - m]
      BY <1>4, <2>2
    <3>. QED  BY <3>2, <3>4, <3>5
  <2>. QED  BY <2>1, <2>2
<1>8. Functors'[Len(Functors) + 1] = f
  <2>1. Functors'[m + (n + 1)] = pending'[n + 1]
    <3>1. PICK j : j = m + (n + 1)
      OBVIOUS
    <3>2. j \in 1 .. m + (n + 1) /\ ~(j <= m) /\ j - m = n + 1
      BY <1>4, <3>1
    <3>3. Functors'[j] = pending'[j - m]
      BY <1>5, <3>2
    <3>. QED  BY <3>1, <3>2, <3>3
  <2>2. Len(Functors) + 1 = m + (n + 1)
    BY <1>4
  <2>. QED  BY <1>2, <2>1, <2>2 DEF n
<1>. QED  BY <1>6, <1>7, <1>8

\* Calling the next functor.
LEMMA FunctorPopped ==
    ASSUME LoopInv, batch # <<>>, batch' = Tail(batch), pending' = pending
    PROVE  /\ 1 \in DOMAIN Functors /\ Functors[1] = Head(batch)
           /\ DOMAIN Functors' = 1 .. Len(Functors) - 1
           /\ \A i \in 1 .. Len(Functors) - 1 : Functors'[i] = Functors[i + 1]
<1>1. IsSeq(batch) /\ IsSeq(pending)
  BY DEF LoopInv
<1>2. /\ IsSeq(batch') /\ Len(batch') = Len(batch) - 1 /\ Head(batch) = batch[1]
      /\ \A i \in 1 .. Len(batch) - 1 : batch'[i] = batch[i + 1]
  BY <1>1, SeqTail
<1>3. IsSeq(pending')
  BY <1>1
<1>. DEFINE m == Len(batch)  n == Len(pending)
<1>4. /\ m \in Nat /\ n \in Nat /\ Len(Functors) = m + n /\ DOMAIN Functors = 1 .. m + n
      /\ \A i \in 1 .. m + n : Functors[i] = IF i <= m THEN batch[i] ELSE pending[i - m]
  BY <1>1, FunctorsSeq
<1>5. m # 0
  BY <1>1, SeqLen
<1>6. /\ DOMAIN Functors' = 1 .. (m - 1) + n
      /\ \A i \in 1 .. (m - 1) + n :
            Functors'[i] = IF i <= m - 1 THEN batch'[i] ELSE pending[i - (m - 1)]
  BY <1>2, <1>3, FunctorsSeqNext
<1>7. \A i \in 1 .. m - 1 : batch'[i] = batch[i + 1]
  BY <1>2
<1>. HIDE DEF m, n
<1>8. 1 \in DOMAIN Functors /\ Functors[1] = Head(batch)
  BY <1>2, <1>4, <1>5
<1>9. DOMAIN Functors' = 1 .. Len(Functors) - 1
  BY <1>4, <1>6
<1>10. \A i \in 1 .. Len(Functors) - 1 : Functors'[i] = Functors[i + 1]
  <2>. SUFFICES ASSUME NEW i \in 1 .. (m - 1) + n PROVE Functors'[i] = Functors[i + 1]
    BY <1>4
  <2>1. i + 1 \in 1 .. m + n /\ (i + 1) - m = i - (m - 1)
    BY <1>4, <1>5
  <2>2. CASE i <= m - 1
    <3>1. i \in 1 .. m - 1 /\ i + 1 <= m
      BY <1>4, <2>2
    <3>2. Functors'[i] = batch'[i]
      BY <1>6, <2>2
    <3>3. batch'[i] = batch[i + 1]
      BY <1>7, <3>1
    <3>4. Functors[i + 1] = batch[i + 1]
      BY <1>4, <2>1, <3>1
    <3>. QED  BY <3>2, <3>3, <3>4
  <2>3. CASE ~(i <= m - 1)
    <3>1. Functors'[i] = pending[i - (m - 1)]
      BY <1>6, <2>3
    <3>2. ~(i + 1 <= m)
      BY <1>4, <2>3
    <3>3. Functors[i + 1] = pending[(i + 1) - m]
      BY <1>4, <2>1, <3>2
    <3>. QED  BY <2>1, <3>1, <3>3
  <2>. QED  BY <2>2, <2>3
<1>. QED  BY <1>8, <1>9, <1>10

\* Taking over the queue.
LEMMA FunctorsSwapped ==
    ASSUME LoopInv, batch = <<>>, batch' = pending, pending' = <<>>
    PROVE  Functors' = Functors
<1>1. PICK S : pending \in Seq(S)
  BY DEF LoopInv, IsSeq
<1>2. pending \o <<>> = pending /\ <<>> \o pending = pending
  BY <1>1, ConcatEmptySeq
<1>. QED  BY <1>2 DEF Functors

\* The functors that remove a channel, when one is queued ...
LEMMA RemovalsPushed ==
    ASSUME LoopInv, NEW f, pending' = Append(pending, f), batch' = batch, NEW c
    PROVE  Removals(c)' = Removals(c) \cup {i \in {Len(Functors) + 1} :
                                              f.op = "connectDestroyed" /\ f.conn = c}
<1>1. /\ Len(Functors) \in Nat /\ DOMAIN Functors = 1 .. Len(Functors)
      /\ DOMAIN Functors' = 1 .. Len(Functors) + 1
      /\ \A i \in 1 .. Len(Functors) : Functors'[i] = Functors[i]
      /\ Functors'[Len(Functors) + 1] = f
  BY FunctorsSeq, FunctorPushed DEF LoopInv
<1>2. /\ Removals(c) = {i \in DOMAIN Functors :
                           Functors[i].op = "connectDestroyed" /\ Functors[i].conn = c}
      /\ Removals(c)' = {i \in DOMAIN Functors' :
                            Functors'[i].op = "connectDestroyed" /\ Functors'[i].conn = c}
  BY DEF Removals, Functors
<1>3. PICK n \in Nat : n = Len(Functors)
  BY <1>1
<1>4. DOMAIN Functors' = DOMAIN Functors \cup {n + 1} /\ n + 1 \notin DOMAIN Functors
  BY <1>1, <1>3
<1>. QED  BY <1>1, <1>2, <1>3, <1>4, Zenon

\* ... and when one is called.
LEMMA RemovalsPopped ==
    ASSUME LoopInv, batch # <<>>, batch' = Tail(batch), pending' = pending, NEW c
    PROVE  /\ Removals(c)' = {i \in 1 .. Len(Functors) - 1 : i + 1 \in Removals(c)}
           /\ Removals(c) \subseteq 1 .. Len(Functors) /\ Len(Functors) \in Nat
           /\ 1 \in Removals(c) <=> Head(batch).op = "connectDestroyed" /\ Head(batch).conn = c
<1>1. /\ Len(Functors) \in Nat /\ DOMAIN Functors = 1 .. Len(Functors)
      /\ 1 \in DOMAIN Functors /\ Functors[1] = Head(batch)
      /\ DOMAIN Functors' = 1 .. Len(Functors) - 1
      /\ \A i \in 1 .. Len(Functors) - 1 : Functors'[i] = Functors[i + 1]
  BY FunctorsSeq, FunctorPopped DEF LoopInv
<1>2. /\ Removals(c) = {i \in DOMAIN Functors :
                           Functors[i].op = "connectDestroyed" /\ Functors[i].conn = c}
      /\ Removals(c)' = {i \in DOMAIN Functors' :
                            Functors'[i].op = "connectDestroyed" /\ Functors'[i].conn = c}
  BY DEF Removals, Functors
<1>3. \A i \in 1 .. Len(Functors) - 1 : i + 1 \in DOMAIN Functors
  BY <1>1
<1>4. Removals(c)' = {i \in 1 .. Len(Functors) - 1 : i + 1 \in Removals(c)}
  BY <1>1, <1>2, <1>3
<1>. QED  BY <1>1, <1>2, <1>4

\* A functor of a worker joins the queue.
LEMMA RemoveStaysPushed ==
    ASSUME LoopInv, RemoveInv, NEW f, f.op \in {"WriteInLoop", "EndInLoop"}, f.req \in Requests,
           pending' = Append(pending, f), UNCHANGED <<batch, index>>
    PROVE  RemoveInv'
<1>1. /\ Len(Functors) \in Nat /\ DOMAIN Functors = 1 .. Len(Functors)
      /\ DOMAIN Functors' = 1 .. Len(Functors) + 1
      /\ \A i \in 1 .. Len(Functors) : Functors'[i] = Functors[i]
      /\ Functors'[Len(Functors) + 1] = f
  BY FunctorsSeq, FunctorPushed DEF LoopInv
<1>2. IsFunctor(f)
  BY DEF IsFunctor
<1>3. \A i \in DOMAIN Functors' : IsFunctor(Functors'[i])
  BY <1>1, <1>2 DEF RemoveInv
<1>4. ASSUME NEW c \in Conns PROVE Removals(c)' = Removals(c)
  <2>1. Removals(c)' = Removals(c) \cup {i \in {Len(Functors) + 1} :
                                            f.op = "connectDestroyed" /\ f.conn = c}
    BY RemovalsPushed
  <2>2. f.op # "connectDestroyed"
    OBVIOUS
  <2>. QED  BY <2>1, <2>2
<1>. QED  BY <1>3, <1>4 DEF RemoveInv

\* A functor leaves the queue; one that removes a channel has done so.
LEMMA RemoveStaysPopped ==
    ASSUME LoopInv, RemoveInv, ConnType, batch # <<>>, batch' = Tail(batch), pending' = pending,
           \/ index' = index /\ Head(batch).op # "connectDestroyed"
           \/ /\ Head(batch).op = "connectDestroyed"
              /\ index' = [index EXCEPT ![Head(batch).conn] = "kNew"]
    PROVE  RemoveInv'
<1>1. /\ Len(Functors) \in Nat /\ DOMAIN Functors = 1 .. Len(Functors)
      /\ 1 \in DOMAIN Functors /\ Functors[1] = Head(batch)
      /\ DOMAIN Functors' = 1 .. Len(Functors) - 1
      /\ \A i \in 1 .. Len(Functors) - 1 : Functors'[i] = Functors[i + 1]
  BY FunctorsSeq, FunctorPopped DEF LoopInv
<1>2. \A i \in DOMAIN Functors' : IsFunctor(Functors'[i])
  <2>1. \A i \in 1 .. Len(Functors) - 1 : i + 1 \in DOMAIN Functors
    BY <1>1
  <2>. QED  BY <1>1, <2>1 DEF RemoveInv
<1>3. ASSUME NEW c \in Conns
      PROVE  /\ index'[c] = "kDeleted" <=> Removals(c)' # {}
             /\ \A i, j \in Removals(c)' : i = j
  <2>1. PICK n \in Nat : n = Len(Functors)
    BY <1>1
  <2>2. PICK R : R = Removals(c)
    OBVIOUS
  <2>3. /\ Removals(c)' = {i \in 1 .. n - 1 : i + 1 \in R} /\ R \subseteq 1 .. n
        /\ 1 \in R <=> Head(batch).op = "connectDestroyed" /\ Head(batch).conn = c
    BY <2>1, <2>2, RemovalsPopped
  <2>4. (index[c] = "kDeleted" <=> R # {}) /\ \A i, j \in R : i = j
    BY <2>2 DEF RemoveInv
  <2>5. \A i, j \in Removals(c)' : i = j
    <3>1. \A i, j \in {k \in 1 .. n - 1 : k + 1 \in R} : i = j
      BY <2>4
    <3>. QED  BY <2>3, <3>1
  <2>6. CASE 1 \in R
    <3>1. \A i \in 1 .. n - 1 : i + 1 # 1
      OBVIOUS
    <3>2. Removals(c)' = {}
      BY <2>3, <2>4, <2>6, <3>1
    <3>3. index'[c] = "kNew"
      BY <2>3, <2>6 DEF ConnType
    <3>. QED  BY <2>5, <3>2, <3>3
  <2>7. CASE 1 \notin R
    <3>1. index'[c] = index[c]
      BY <2>3, <2>7 DEF ConnType
    <3>2. \A i \in R : i - 1 \in 1 .. n - 1 /\ (i - 1) + 1 \in R
      BY <2>3, <2>7
    <3>3. R # {} => Removals(c)' # {}
      BY <2>3, <3>2
    <3>4. R = {} => Removals(c)' = {}
      BY <2>3
    <3>. QED  BY <2>4, <2>5, <3>1, <3>3, <3>4
  <2>. QED  BY <2>6, <2>7
<1>. QED  BY <1>2, <1>3 DEF RemoveInv

\* A disabled channel is removed once.
LEMMA RemoveInvStep ==
    ASSUME LoopInv, InputInv, ConnType, StateInv, RemoveInv, [Next]_vars
    PROVE  RemoveInv'
<1>1. ASSUME Functors' = Functors, index' = index PROVE RemoveInv'
  BY <1>1 DEF RemoveInv, Removals, Functors
<1>2. ASSUME UNCHANGED <<batch, pending, index>> PROVE RemoveInv'
  BY <1>1, <1>2 DEF Functors
<1>3. CASE Poll \/ HandleWakeup \/ EndFunctors \/ UNCHANGED vars
  BY <1>2, <1>3 DEF Poll, poll, HandleWakeup, handleWakeup, handleEvent, EndFunctors, endFunctors,
                    connVars, loopVars, vars
<1>4. CASE SwapFunctors
  <2>1. batch = <<>>
    BY <1>4 DEF SwapFunctors, swapFunctors, LoopInv
  <2>. QED
    BY <1>1, <1>4, <2>1, FunctorsSwapped DEF SwapFunctors, swapFunctors, connVars
<1>5. ASSUME NEW c \in Conns, Accept(c) PROVE RemoveInv'
  <2>1. /\ <<c, "accept">> \in active /\ index' = [index EXCEPT ![c] = "kAdded"]
        /\ UNCHANGED <<batch, pending>>
    BY <1>5 DEF Accept, newConnection, handleEvent
  <2>2. index[c] = "kNew"
    BY <2>1 DEF StateInv
  <2>3. Functors' = Functors
    BY <2>1 DEF Functors
  <2>4. ASSUME NEW d \in Conns PROVE Removals(d)' = Removals(d)
    BY <2>3 DEF Removals, Functors
  <2>5. ASSUME NEW d \in Conns PROVE index'[d] = "kDeleted" <=> index[d] = "kDeleted"
    BY <2>1, <2>2 DEF ConnType
  <2>. QED  BY <2>3, <2>4, <2>5 DEF RemoveInv
<1>6. ASSUME NEW c \in Conns, HandleWrite(c) PROVE RemoveInv'
  BY <1>2, <1>6 DEF HandleWrite, handleWrite, handleEvent
<1>7. ASSUME NEW c \in Conns, ReadClose(c) PROVE RemoveInv'
  <2>1. PICK f : f = [op |-> "connectDestroyed", conn |-> c]
    OBVIOUS
  <2>2. /\ <<c, "in">> \in active /\ index' = [index EXCEPT ![c] = "kDeleted"]
        /\ batch' = batch /\ pending' = Append(pending, f)
    BY <1>7, <2>1 DEF ReadClose, handleEvent, handleClose, queueInOwnLoop
  <2>3. f.op = "connectDestroyed" /\ f.conn = c
    BY <2>1
  <2>4. /\ Len(Functors) \in Nat /\ DOMAIN Functors = 1 .. Len(Functors)
        /\ DOMAIN Functors' = 1 .. Len(Functors) + 1
        /\ \A i \in 1 .. Len(Functors) : Functors'[i] = Functors[i]
        /\ Functors'[Len(Functors) + 1] = f
    BY <2>2, FunctorsSeq, FunctorPushed DEF LoopInv
  <2>5. \A i \in DOMAIN Functors' : IsFunctor(Functors'[i])
    <3>1. IsFunctor(f)
      BY <2>3 DEF IsFunctor
    <3>. QED  BY <2>4, <3>1 DEF RemoveInv
  <2>6. Removals(c) = {}
    BY <2>2 DEF StateInv, RemoveInv
  <2>7. PICK n : n = Len(Functors) + 1
    OBVIOUS
  <2>8. ASSUME NEW d \in Conns PROVE Removals(d)' = Removals(d) \cup {i \in {n} : c = d}
    BY <2>2, <2>3, <2>7, RemovalsPushed
  <2>9. Removals(c)' = {n}
    BY <2>6, <2>8
  <2>10. ASSUME NEW d \in Conns \ {c} PROVE Removals(d)' = Removals(d) /\ index'[d] = index[d]
    <3>1. Removals(d)' = Removals(d)
      BY <2>8
    <3>2. index'[d] = index[d]
      BY <2>2 DEF ConnType
    <3>. QED  BY <3>1, <3>2
  <2>11. index'[c] = "kDeleted"
    BY <2>2 DEF ConnType
  <2>. QED  BY <2>5, <2>9, <2>10, <2>11 DEF RemoveInv
<1>8. ASSUME NEW c \in Conns, ReadPart(c) PROVE RemoveInv'
  BY <1>2, <1>8 DEF ReadPart, OnMessage, handleEvent
<1>9. ASSUME NEW c \in Conns, HandleRequest(c) PROVE RemoveInv'
  BY <1>2, <1>9, RequestFrame
<1>10. ASSUME NEW r \in Requests, ResumePlain(r) PROVE RemoveInv'
  BY <1>2, <1>10, ResumeFrame DEF loopVars
<1>11. CASE CallWrite \/ CallEnd
  BY <1>11, CallFrame, RemoveStaysPopped
<1>12. CASE CallDestroyed
  BY <1>12, RemoveStaysPopped DEF CallDestroyed, callFunctor, connectDestroyed
<1>13. ASSUME NEW r \in Requests, WorkerStep(r) PROVE RemoveInv'
  <2>1. UNCHANGED <<batch, index>>
    BY <1>13, WorkerFrame DEF connVars
  <2>2. CASE pending' = pending
    BY <1>2, <2>1, <2>2
  <2>3. CASE pending' # pending
    <3>1. PICK f : /\ f.op \in {"WriteInLoop", "EndInLoop"} /\ f.req = r
                   /\ pending' = Append(pending, f)
      BY <1>13, <2>3, WorkerFrame
    <3>. QED  BY <2>1, <3>1, RemoveStaysPushed
  <2>. QED  BY <2>2, <2>3
<1>14. ASSUME NEW c \in Conns, ClientStep(c) \/ ClientReads(c) PROVE RemoveInv'
  BY <1>2, <1>14, ClientFrame DEF loopVars, connVars
<1>. QED
  BY <1>3, <1>4, <1>5, <1>6, <1>7, <1>8, <1>9, <1>10, <1>11, <1>12, <1>13, <1>14
     DEF Next, LoopStep, Dead

\* A connection's state, its channel and its events stay in step.
LEMMA StateInvStep ==
    ASSUME LoopInv, InputInv, ConnType, OutInv, StateInv, RemoveInv, [Next]_vars
    PROVE  StateInv'
<1>1. ASSUME active' \subseteq active, UNCHANGED <<state, index, connections>> PROVE StateInv'
  BY <1>1 DEF StateInv
<1>2. ASSUME active' \subseteq active, UNCHANGED <<index, connections>>, NEW c \in Conns,
             Writes(c), Shuts(c)
      PROVE  StateInv'
  <2>1. \A d \in Conns : \/ state'[d] = state[d]
                         \/ state[d] = "kConnected" /\ state'[d] = "kDisconnecting"
    BY <1>2, WritesFacts, ShutsFacts
  <2>. QED  BY <1>2, <2>1 DEF StateInv
<1>3. CASE Poll
  <2>1. /\ active' = Ready \cup (IF wakeup THEN {<<WakeupChannel, "in">>} ELSE {})
        /\ UNCHANGED <<state, index, connections>>
    BY <1>3 DEF Poll, poll, connVars
  <2>2. ASSUME NEW c \in Conns
        PROVE  /\ <<c, "accept">> \in active' => state[c] = "kConnecting"
               /\ <<c, "in">> \in active' => index[c] = "kAdded"
               /\ <<c, "out">> \in active' => index[c] = "kAdded"
    <3>1. c # WakeupChannel
      BY HttpAssumption
    <3>2. \A e : <<c, e>> \in active' => <<c, e>> \in Ready
      BY <2>1, <3>1
    <3>. QED  BY <3>2 DEF Ready
  <2>. QED  BY <2>1, <2>2 DEF StateInv
<1>4. CASE HandleWakeup \/ SwapFunctors \/ EndFunctors \/ UNCHANGED vars
  BY <1>1, <1>4 DEF HandleWakeup, handleWakeup, handleEvent, SwapFunctors, swapFunctors,
                    EndFunctors, endFunctors, connVars, loopVars, vars
<1>5. ASSUME NEW c \in Conns, Accept(c) PROVE StateInv'
  <2>1. /\ active' = active \ {<<c, "accept">>} /\ connections' = connections \cup {c}
        /\ state' = [state EXCEPT ![c] = "kConnected"] /\ index' = [index EXCEPT ![c] = "kAdded"]
    BY <1>5 DEF Accept, newConnection, handleEvent
  <2>. QED  BY <2>1 DEF StateInv, ConnType
<1>6. ASSUME NEW c \in Conns, HandleWrite(c) PROVE StateInv'
  BY <1>1, <1>6 DEF HandleWrite, handleWrite, handleEvent
<1>7. ASSUME NEW c \in Conns, ReadClose(c) PROVE StateInv'
  <2>1. /\ active' = active \ {<<c, "in">>} /\ connections' = connections \ {c}
        /\ state' = [state EXCEPT ![c] = "kDisconnected"]
        /\ index' = [index EXCEPT ![c] = "kDeleted"] /\ <<c, "in">> \in active
    BY <1>7 DEF ReadClose, handleEvent, handleClose
  <2>2. state[c] # "kConnecting" /\ <<c, "accept">> \notin active
    BY <2>1 DEF StateInv
  <2>. QED  BY <2>1, <2>2 DEF StateInv, ConnType
<1>8. ASSUME NEW c \in Conns, ReadPart(c) PROVE StateInv'
  BY <1>1, <1>8 DEF ReadPart, OnMessage, handleEvent
<1>9. ASSUME NEW c \in Conns, HandleRequest(c) PROVE StateInv'
  BY <1>2, <1>9, RequestFrame
<1>10. ASSUME NEW r \in Requests, ResumePlain(r) PROVE StateInv'
  <2>1. ConnOf(r) \in Conns
    BY ConnOfInput
  <2>. QED  BY <1>2, <1>10, <2>1, ResumeFrame DEF loopVars
<1>11. ASSUME batch # <<>> PROVE Head(batch) = Functors[1] /\ 1 \in DOMAIN Functors
  <2>1. IsSeq(batch) /\ IsSeq(pending)
    BY DEF LoopInv
  <2>2. Len(batch) \in Nat \ {0} /\ Len(pending) \in Nat /\ Head(batch) = batch[1]
    BY <1>11, <2>1, SeqLen, SeqTail
  <2>. QED  BY <2>1, <2>2, FunctorsSeq
<1>12. CASE CallWrite \/ CallEnd
  <2>1. PICK r : r = Head(batch).req
    OBVIOUS
  <2>2. batch # <<>> /\ Head(batch).op \in {"WriteInLoop", "EndInLoop"}
    BY <1>12, CallFrame
  <2>3. r \in Requests
    BY <1>11, <2>1, <2>2 DEF RemoveInv, IsFunctor
  <2>4. ConnOf(r) \in Conns
    BY <2>3, ConnOfInput
  <2>. QED  BY <1>2, <1>12, <2>1, <2>4, CallFrame
<1>13. CASE CallDestroyed
  <2>1. PICK c : c = Head(batch).conn
    OBVIOUS
  <2>2. /\ batch # <<>> /\ Head(batch).op = "connectDestroyed" /\ loop = "functors"
        /\ batch' = Tail(batch)
        /\ index' = [index EXCEPT ![c] = "kNew"]
        /\ UNCHANGED <<active, state, connections, pending>>
    BY <1>13, <2>1 DEF CallDestroyed, callFunctor, connectDestroyed
  <2>3. c \in Conns
    BY <1>11, <2>1, <2>2 DEF RemoveInv, IsFunctor
  <2>4. 1 \in Removals(c)
    BY <2>1, <2>2, RemovalsPopped
  <2>5. index[c] = "kDeleted"
    BY <2>3, <2>4 DEF RemoveInv
  <2>6. active = {}
    BY <2>2 DEF LoopInv
  <2>. QED  BY <2>2, <2>3, <2>5, <2>6 DEF StateInv, ConnType
<1>14. ASSUME NEW r \in Requests, WorkerStep(r) PROVE StateInv'
  BY <1>1, <1>14, WorkerFrame DEF connVars
<1>15. ASSUME NEW c \in Conns, ClientStep(c) \/ ClientReads(c) PROVE StateInv'
  BY <1>1, <1>15, ClientFrame DEF loopVars, connVars
<1>. QED
  BY <1>3, <1>4, <1>5, <1>6, <1>7, <1>8, <1>9, <1>10, <1>12, <1>13, <1>14, <1>15
     DEF Next, LoopStep, Dead

-----------------------------------------------------------------------------
(* The requests.                                                           *)

\* What a step of a worker other than a delta does to its request: a write that
\* finds the response dead cancels it.
Moves(r) ==
    /\ \E q \in Place \ {"none"} : pc' = [pc EXCEPT ![r] = q]
    /\ UNCHANGED <<at, wasted>>
    /\ cancelled' \in {cancelled, [cancelled EXCEPT ![r] = TRUE]}
    /\ pc[r] = "check" => cancelled' = [cancelled EXCEPT ![r] = TRUE] \/ connected(ConnOf(r))

\* A delta: the engine has just seen that the request is not cancelled.
Emits(r) ==
    /\ pc[r] = "run" /\ ~cancelled[r] /\ cancelled' = cancelled
    /\ pc' = [pc EXCEPT ![r] = "check"]
    /\ \E k \in 1 .. (Len(Text[r]) - at[r]) : at' = [at EXCEPT ![r] = @ + k]
    /\ wasted' = [wasted EXCEPT ![r] = @ + (IF connected(ConnOf(r)) THEN 0 ELSE 1)]

\* A worker moves its own request, which has begun.
LEMMA WorkerMoves ==
    ASSUME WorkType, NEW r \in Requests, WorkerStep(r)
    PROVE  pc[r] # "none" /\ (Moves(r) \/ Emits(r))
<1>. DEFINE Good == pc[r] # "none" /\ (Moves(r) \/ Emits(r))
<1>1. ASSUME NEW k \in 1 .. (Len(Text[r]) - at[r]), Delta(r, k) PROVE Good
  BY <1>1 DEF Delta, Emits
<1>2. CASE EmitFinish(r) \/ WriteChecks(r) \/ RunPlain(r)
  BY <1>2 DEF EmitFinish, WriteChecks, RunPlain, Moves, Place
<1>3. ASSUME AfterMail(r) PROVE \E q \in Place \ {"none"} : pc' = [pc EXCEPT ![r] = q]
  <2>1. PICK q : q = IF Len(mail[r]) > 1 THEN "check" ELSE IF Emitted(r) THEN "close" ELSE "run"
    OBVIOUS
  <2>2. q \in Place \ {"none"}
    BY <2>1 DEF Place
  <2>3. pc' = [pc EXCEPT ![r] = q]
    BY <1>3, <2>1 DEF AfterMail
  <2>. QED  BY <2>2, <2>3
<1>4. ASSUME Closes(r)
      PROVE  (\E q \in Place \ {"none"} : pc' = [pc EXCEPT ![r] = q]) /\ UNCHANGED <<at, wasted>>
  BY <1>4 DEF Closes, Place
<1>5. CASE WriteDead(r)
  BY <1>3, <1>5 DEF WriteDead, Moves
<1>6. CASE WriteFinds(r)
  BY <1>4, <1>6 DEF WriteFinds, Moves
<1>7. CASE WriteQueues(r)
  BY <1>7 DEF WriteQueues, Moves, Place
<1>8. CASE WriteWakes(r)
  <2>1. pc[r] = "wake" /\ UNCHANGED <<at, wasted>>
    BY <1>8 DEF WriteWakes, Wakes
  <2>2. CASE closed[r] \/ connected(ConnOf(r))
    <3>1. AfterMail(r) /\ cancelled' = [cancelled EXCEPT ![r] = @ \/ closed[r]]
      BY <1>8, <2>2 DEF WriteWakes
    <3>2. cancelled' \in {cancelled, [cancelled EXCEPT ![r] = TRUE]}
      <4>1. CASE closed[r]
        BY <3>1, <4>1 DEF WorkType
      <4>2. CASE ~closed[r]
        <5>1. (cancelled[r] \/ closed[r]) = cancelled[r]
          BY <4>2 DEF WorkType
        <5>. QED  BY <3>1, <5>1 DEF WorkType
      <4>. QED  BY <4>1, <4>2
    <3>. QED  BY <1>3, <2>1, <3>1, <3>2 DEF Moves
  <2>3. CASE ~(closed[r] \/ connected(ConnOf(r)))
    BY <1>8, <2>1, <2>3 DEF WriteWakes, Moves, Place
  <2>. QED  BY <2>2, <2>3
<1>9. CASE WriteFindsAfter(r)
  BY <1>3, <1>4, <1>9 DEF WriteFindsAfter, Moves
<1>10. CASE OnFinish(r)
  <2>1. pc[r] = "close" /\ cancelled' = cancelled
    BY <1>10 DEF OnFinish
  <2>2. CASE Closes(r)
    BY <1>4, <2>1, <2>2 DEF Moves
  <2>3. CASE ~Closes(r)
    BY <1>10, <2>1, <2>3 DEF OnFinish, Moves, Place
  <2>. QED  BY <2>2, <2>3
<1>11. CASE EndWakes(r)
  <2>1. pc[r] = "endwake" /\ UNCHANGED <<at, wasted, cancelled>>
    BY <1>11 DEF EndWakes, Wakes
  <2>2. \E q \in Place \ {"none"} : pc' = [pc EXCEPT ![r] = q]
    BY <1>3, <1>11 DEF EndWakes, Place
  <2>. QED  BY <2>1, <2>2 DEF Moves
<1>. QED
  BY <1>1, <1>2, <1>5, <1>6, <1>7, <1>8, <1>9, <1>10, <1>11 DEF WorkerStep

\* A request that the loop's thread begins: Begins(c, p, r, n) of the header at p,
\* with what is erased from the buffer after it.
Begins(c, p, r, n) ==
    /\ r = Input[c][p].req /\ ConnOf(r) = c /\ Input[c][p].head /\ p > eaten[c]
    /\ p <= n /\ n <= sent[c] /\ eaten' = [eaten EXCEPT ![c] = n]
    /\ pc' \in {[pc EXCEPT ![r] = "run"], [pc EXCEPT ![r] = "ended"]}
    /\ cancelled' \in {cancelled, [cancelled EXCEPT ![r] = ~connected(c)]}
    /\ waiting' \in {waiting, r, None} /\ UNCHANGED <<at, wasted>>
    /\ <<c, "in">> \in active

\* No request begins or moves; one may be cancelled.
Rests ==
    /\ UNCHANGED <<pc, at, wasted, eaten>> /\ waiting' \in {waiting, None}
    /\ cancelled' = cancelled \/ \E r \in Requests : cancelled' = [cancelled EXCEPT ![r] = TRUE]

\* The three things a step may do to the requests.
LEMMA RequestSteps ==
    ASSUME InputInv, WorkType, ConnType, [Next]_vars
    PROVE  \/ Rests
           \/ \E r \in Requests : /\ pc[r] # "none" /\ (Moves(r) \/ Emits(r))
                                  /\ UNCHANGED <<eaten, waiting>>
           \/ \E c \in Conns : \E p \in DOMAIN Input[c], r \in Requests, n \in Nat :
                 Begins(c, p, r, n)
<1>1. ASSUME UNCHANGED httpVars PROVE Rests
  BY <1>1 DEF httpVars, requestVars, Rests
<1>2. CASE Poll \/ HandleWakeup \/ SwapFunctors \/ CallDestroyed \/ EndFunctors \/ UNCHANGED vars
  BY <1>1, <1>2 DEF Poll, HandleWakeup, SwapFunctors, CallDestroyed, EndFunctors, vars
<1>3. ASSUME NEW c \in Conns, Accept(c) \/ HandleWrite(c) \/ ReadPart(c) PROVE Rests
  BY <1>1, <1>3 DEF Accept, HandleWrite, ReadPart
<1>4. ASSUME NEW c \in Conns, ReadClose(c) PROVE Rests
  <2>1. UNCHANGED <<pc, at, wasted, eaten, waiting>>
    BY <1>4 DEF ReadClose
  <2>2. cancelled' = cancelled \/ \E r \in Requests : cancelled' = [cancelled EXCEPT ![r] = TRUE]
    <3>1. PICK r : r = context[c]
      OBVIOUS
    <3>2. r \in Requests \cup {None}
      BY <3>1 DEF ConnType
    <3>. QED  BY <1>4, <3>1, <3>2 DEF ReadClose
  <2>. QED  BY <2>1, <2>2 DEF Rests
<1>5. ASSUME NEW c \in Conns, HandleRequest(c)
      PROVE  \E p \in DOMAIN Input[c], r \in Requests, n \in Nat : Begins(c, p, r, n)
  BY <1>5, RequestFrame DEF Begins
<1>6. ASSUME NEW r \in Requests, ResumePlain(r) PROVE Rests
  BY <1>6, ResumeFrame DEF Rests
<1>7. CASE CallWrite \/ CallEnd
  BY <1>7, CallFrame DEF Rests
<1>8. ASSUME NEW r \in Requests, WorkerStep(r)
      PROVE  pc[r] # "none" /\ (Moves(r) \/ Emits(r)) /\ UNCHANGED <<eaten, waiting>>
  BY <1>8, WorkerMoves, WorkerFrame
<1>9. ASSUME NEW c \in Conns, ClientStep(c) \/ ClientReads(c) PROVE Rests
  BY <1>1, <1>9 DEF ClientStep, ClientReads
<1>. QED
  BY <1>2, <1>3, <1>4, <1>5, <1>6, <1>7, <1>8, <1>9 DEF Next, LoopStep, Dead

\* The types of a request.
LEMMA WorkTypeStep ==
    ASSUME InputInv, WorkType, ConnType, [Next]_vars
    PROVE  WorkType'
<1>1. CASE Rests
  BY <1>1 DEF Rests, WorkType
<1>2. ASSUME NEW r \in Requests, Moves(r), UNCHANGED waiting PROVE WorkType'
  BY <1>2 DEF Moves, WorkType
<1>3. ASSUME NEW r \in Requests, Emits(r), UNCHANGED waiting PROVE WorkType'
  <2>1. Text[r] \in Seq(Byte)
    BY HttpAssumption
  <2>2. Len(Text[r]) \in Nat
    BY <2>1, LenProperties
  <2>3. PICK k \in 1 .. (Len(Text[r]) - at[r]) : at' = [at EXCEPT ![r] = @ + k]
    BY <1>3 DEF Emits
  <2>4. at' \in [Requests -> Nat] /\ \A q \in Requests : at'[q] <= Len(Text[q])
    BY <2>2, <2>3 DEF WorkType
  <2>5. pc' \in [Requests -> Place]
    BY <1>3 DEF Emits, WorkType, Place
  <2>6. wasted' \in [Requests -> Nat]
    BY <1>3 DEF Emits, WorkType
  <2>. QED  BY <1>3, <2>4, <2>5, <2>6 DEF Emits, WorkType
<1>4. ASSUME NEW c, NEW p, NEW r \in Requests, NEW n, Begins(c, p, r, n) PROVE WorkType'
  <2>1. pc' \in [Requests -> Place]
    BY <1>4 DEF Begins, WorkType, Place
  <2>2. cancelled' \in [Requests -> BOOLEAN]
    BY <1>4 DEF Begins, WorkType, connected
  <2>. QED  BY <1>4, <2>1, <2>2 DEF Begins, WorkType
<1>. QED  BY <1>1, <1>2, <1>3, <1>4, RequestSteps

\* A header is handled once: what a request began with is erased.
LEMMA OnceInvStep ==
    ASSUME InputInv, WorkType, ConnType, OnceInv, [Next]_vars
    PROVE  OnceInv'
<1>1. CASE Rests
  BY <1>1 DEF Rests, OnceInv
<1>2. ASSUME NEW r \in Requests, pc[r] # "none", Moves(r) \/ Emits(r), UNCHANGED eaten
      PROVE  OnceInv'
  <2>1. \A q \in Requests \ {r} : pc'[q] = pc[q]
    BY <1>2 DEF Moves, Emits, WorkType
  <2>. QED  BY <1>2, <2>1, ConnOfInput DEF OnceInv
<1>3. ASSUME NEW c \in Conns, NEW p \in DOMAIN Input[c], NEW r \in Requests, NEW n \in Nat,
             Begins(c, p, r, n)
      PROVE  OnceInv'
  <2>. SUFFICES ASSUME NEW d \in Conns, NEW q \in DOMAIN Input[d], Input[d][q].head,
                       q > eaten'[d]
                PROVE  pc'[Input[d][q].req] = "none"
    BY DEF OnceInv
  <2>1. /\ r = Input[c][p].req /\ Input[c][p].head /\ p > eaten[c] /\ p <= n
        /\ eaten' = [eaten EXCEPT ![c] = n]
        /\ \A s \in Requests \ {r} : pc'[s] = pc[s]
    BY <1>3 DEF Begins, WorkType
  <2>2. q \in Nat /\ p \in Nat /\ eaten[c] \in Nat
    <3>1. Input[d] \in Seq(Piece) /\ Input[c] \in Seq(Piece)
      BY HttpAssumption
    <3>2. DOMAIN Input[d] \subseteq Nat /\ DOMAIN Input[c] \subseteq Nat
      BY <3>1
    <3>. QED  BY <3>2 DEF InputInv
  <2>3. q > eaten[d] /\ (d = c => q > p)
    BY <2>1, <2>2 DEF InputInv
  <2>4. pc[Input[d][q].req] = "none" /\ Input[d][q].req \in Requests
    BY <2>3, ConnOfInput DEF OnceInv
  <2>5. Input[d][q].req # r
    <3>1. ASSUME Input[d][q].req = r PROVE FALSE
      <4>1. Input[d][q].req = Input[c][p].req
        BY <2>1, <3>1
      <4>2. d = c /\ ((Input[d][q].head <=> Input[c][p].head) => q = p)
        BY <4>1, InputAssumption
      <4>. QED  BY <2>1, <2>2, <2>3, <4>2
    <3>. QED  BY <3>1
  <2>. QED  BY <2>1, <2>4, <2>5
<1>. QED  BY <1>1, <1>2, <1>3, RequestSteps

\* A connection that was accepted is not accepted again, and one that is going
\* down or is down does not come up again.
LEMMA StaysDown ==
    ASSUME LoopInv, InputInv, ConnType, OutInv, StateInv, RemoveInv, [Next]_vars,
           NEW c \in Conns, state[c] # "kConnecting"
    PROVE  state'[c] # "kConnecting" /\ (~connected(c) => ~connected(c)')
<1>. DEFINE Good == state'[c] # "kConnecting" /\ (~connected(c) => ~connected(c)')
<1>1. ASSUME state' = state PROVE Good
  BY <1>1 DEF connected
<1>2. ASSUME NEW d \in Conns, Writes(d), Shuts(d) PROVE Good
  <2>1. \/ state'[c] = state[c]
        \/ state[c] = "kConnected" /\ state'[c] = "kDisconnecting"
    BY <1>2, WritesFacts, ShutsFacts
  <2>. QED  BY <2>1 DEF connected
<1>3. CASE Poll \/ HandleWakeup \/ SwapFunctors \/ EndFunctors \/ UNCHANGED vars
  BY <1>1, <1>3 DEF Poll, HandleWakeup, SwapFunctors, EndFunctors, connVars, vars
<1>4. ASSUME NEW d \in Conns, Accept(d) PROVE Good
  <2>1. <<d, "accept">> \in active /\ state' = [state EXCEPT ![d] = "kConnected"]
    BY <1>4 DEF Accept, newConnection, handleEvent
  <2>2. d # c
    BY <2>1 DEF StateInv
  <2>. QED  BY <2>1, <2>2 DEF ConnType, connected
<1>5. ASSUME NEW d \in Conns, HandleWrite(d) \/ ReadPart(d) PROVE Good
  BY <1>1, <1>5 DEF HandleWrite, handleWrite, ReadPart
<1>6. ASSUME NEW d \in Conns, ReadClose(d) PROVE Good
  BY <1>6 DEF ReadClose, handleClose, ConnType, connected
<1>7. ASSUME NEW d \in Conns, HandleRequest(d) PROVE Good
  BY <1>2, <1>7, RequestFrame
<1>8. ASSUME NEW r \in Requests, ResumePlain(r) PROVE Good
  BY <1>2, <1>8, ResumeFrame, ConnOfInput
<1>9. CASE CallWrite
  BY <1>1, <1>9 DEF CallWrite
<1>10. CASE CallEnd
  <2>1. PICK d : d = ConnOf(Head(batch).req)
    OBVIOUS
  <2>2. shutdown(d)
    BY <1>10, <2>1 DEF CallEnd
  <2>. QED  BY <1>1, <2>2 DEF shutdown, ConnType, connected
<1>11. CASE CallDestroyed
  BY <1>1, <1>11 DEF CallDestroyed, connectDestroyed
<1>12. ASSUME NEW r \in Requests, WorkerStep(r) PROVE Good
  BY <1>1, <1>12, WorkerFrame DEF connVars
<1>13. ASSUME NEW d \in Conns, ClientStep(d) \/ ClientReads(d) PROVE Good
  BY <1>1, <1>13, ClientFrame DEF connVars
<1>. QED
  BY <1>3, <1>4, <1>5, <1>6, <1>7, <1>8, <1>9, <1>10, <1>11, <1>12, <1>13
     DEF Next, LoopStep, Dead

\* A request that has begun has a connection that was accepted.
LEMMA BegunInvStep ==
    ASSUME LoopInv, InputInv, ConnType, OutInv, StateInv, RemoveInv, WorkType, BegunInv,
           [Next]_vars
    PROVE  BegunInv'
<1>. SUFFICES ASSUME NEW q \in Requests, pc'[q] # "none" PROVE state'[ConnOf(q)] # "kConnecting"
  BY DEF BegunInv
<1>1. PICK d \in Conns : d = ConnOf(q)
  BY ConnOfInput
<1>2. CASE pc[q] # "none"
  <2>1. state[d] # "kConnecting"
    BY <1>1, <1>2 DEF BegunInv
  <2>. QED  BY <1>1, <2>1, StaysDown
<1>3. CASE pc[q] = "none"
  <2>0. PICK c \in Conns : \E p \in DOMAIN Input[c], r \in Requests, n \in Nat :
                               Begins(c, p, r, n)
    BY <1>3, RequestSteps DEF Rests, Moves, Emits, WorkType
  <2>1. PICK p \in DOMAIN Input[c], r \in Requests, n \in Nat : Begins(c, p, r, n)
    BY <2>0
  <2>2. q = r /\ d = c
    BY <1>1, <1>3, <2>1 DEF Begins, WorkType
  <2>3. state[d] # "kConnecting"
    BY <2>1, <2>2 DEF Begins, StateInv
  <2>. QED  BY <1>1, <2>3, StaysDown
<1>. QED  BY <1>2, <1>3

\* At most one delta is wasted.
LEMMA WastedInvStep ==
    ASSUME LoopInv, InputInv, ConnType, OutInv, StateInv, RemoveInv, WorkType, OnceInv, BegunInv,
           WastedInv, [Next]_vars
    PROVE  WastedInv'
<1>. DEFINE Fine(q) == \/ wasted'[q] = 0
                       \/ /\ wasted'[q] = 1 /\ pc'[q] # "none"
                          /\ cancelled'[q] \/ (pc'[q] = "check" /\ ~connected(ConnOf(q))')
<1>. SUFFICES ASSUME NEW q \in Requests PROVE Fine(q)
  BY DEF WastedInv, connected
<1>1. PICK d \in Conns : d = ConnOf(q)
  BY ConnOfInput
<1>2. ASSUME wasted'[q] = wasted[q], pc'[q] = pc[q], cancelled[q] => cancelled'[q] PROVE Fine(q)
  <2>1. CASE wasted[q] = 0
    BY <1>2, <2>1
  <2>2. CASE wasted[q] # 0
    <3>1. /\ wasted[q] = 1 /\ pc[q] # "none"
          /\ cancelled[q] \/ (pc[q] = "check" /\ ~connected(d))
      BY <1>1, <2>2 DEF WastedInv
    <3>2. state[d] # "kConnecting"
      BY <1>1, <3>1 DEF BegunInv
    <3>3. ~connected(d) => ~connected(d)'
      BY <3>2, StaysDown
    <3>. QED  BY <1>1, <1>2, <3>1, <3>3
  <2>. QED  BY <2>1, <2>2
<1>3. CASE Rests
  BY <1>2, <1>3 DEF Rests, WorkType
<1>4. ASSUME NEW r \in Requests, pc[r] # "none", Moves(r) PROVE Fine(q)
  <2>1. CASE q # r
    BY <1>2, <1>4, <2>1 DEF Moves, WorkType
  <2>2. CASE q = r
    <3>1. wasted'[q] = wasted[q] /\ pc'[q] # "none" /\ (cancelled[q] => cancelled'[q])
      BY <1>4, <2>2 DEF Moves, WorkType
    <3>2. pc[q] = "check" /\ ~connected(d) => cancelled'[q]
      BY <1>1, <1>4, <2>2 DEF Moves, WorkType
    <3>3. wasted[q] # 0 => wasted[q] = 1 /\ (cancelled[q] \/ (pc[q] = "check" /\ ~connected(d)))
      BY <1>1 DEF WastedInv
    <3>. QED  BY <3>1, <3>2, <3>3
  <2>. QED  BY <2>1, <2>2
<1>5. ASSUME NEW c \in Conns, NEW p \in DOMAIN Input[c], NEW r \in Requests, NEW n \in Nat,
             Begins(c, p, r, n)
      PROVE  Fine(q)
  <2>1. CASE q # r
    BY <1>2, <1>5, <2>1 DEF Begins, WorkType
  <2>2. CASE q = r
    <3>1. pc[q] = "none"
      BY <1>5, <2>2 DEF Begins, OnceInv
    <3>2. wasted[q] = 0
      BY <3>1 DEF WastedInv
    <3>. QED  BY <1>5, <3>2 DEF Begins
  <2>. QED  BY <2>1, <2>2
<1>6. ASSUME NEW r \in Requests, Emits(r) PROVE Fine(q)
  <2>1. CASE q # r
    BY <1>2, <1>6, <2>1 DEF Emits, WorkType
  <2>2. CASE q = r
    <3>1. wasted[q] = 0 /\ pc[q] = "run"
      BY <1>6, <2>2 DEF Emits, WastedInv
    <3>2. pc'[q] = "check"
      BY <1>6, <2>2 DEF Emits, WorkType
    <3>3. wasted'[q] = IF connected(d) THEN 0 ELSE 1
      BY <1>1, <1>6, <2>2, <3>1 DEF Emits, WorkType
    <3>4. state[d] # "kConnecting"
      BY <1>1, <3>1 DEF BegunInv
    <3>5. ~connected(d) => ~connected(d)'
      BY <3>4, StaysDown
    <3>. QED  BY <1>1, <3>2, <3>3, <3>5
  <2>. QED  BY <2>1, <2>2
<1>. QED  BY <1>3, <1>4, <1>5, <1>6, RequestSteps

-----------------------------------------------------------------------------
(* The theorems.                                                           *)

ConnInv == /\ LoopInv /\ ConnType /\ WorkType /\ InputInv /\ StateInv /\ RemoveInv /\ OutInv
           /\ OnceInv /\ BegunInv /\ WastedInv

\* The invariants together.
LEMMA ConnHolds == Spec => []ConnInv
<1>1. Init => ConnInv
  <2>. SUFFICES ASSUME Init PROVE ConnInv
    OBVIOUS
  <2>. USE DEF Init, TcpInit, LoopInit
  <2>1. IsSeq(<<>>)
    BY SeqTuples
  <2>2. LoopInv
    BY <2>1 DEF LoopInv
  <2>3. ConnType
    BY DEF ConnType
  <2>4. WorkType
    <3>1. \A r \in Requests : Text[r] \in Seq(Byte)
      BY HttpAssumption
    <3>2. \A r \in Requests : Len(Text[r]) \in Nat
      BY <3>1, LenProperties
    <3>. QED  BY <3>2 DEF WorkType, Place
  <2>5. InputInv
    <3>1. \A c \in Conns : Input[c] \in Seq(Piece)
      BY HttpAssumption
    <3>2. \A c \in Conns : Len(Input[c]) \in Nat
      BY <3>1, LenProperties
    <3>. QED  BY <3>2 DEF InputInv
  <2>6. StateInv
    BY DEF StateInv
  <2>7. RemoveInv
    <3>1. DOMAIN Functors = {}
      <4>1. Functors = <<>>
        BY DEF Functors
      <4>. QED  BY <2>1, <4>1, SeqLen
    <3>2. \A c \in Conns : Removals(c) = {}
      BY <3>1 DEF Removals, Functors
    <3>. QED  BY <3>1, <3>2 DEF RemoveInv
  <2>8. OutInv
    BY <2>1 DEF OutInv
  <2>9. OnceInv
    BY ConnOfInput DEF OnceInv
  <2>10. BegunInv /\ WastedInv
    BY DEF BegunInv, WastedInv
  <2>. QED  BY <2>2, <2>3, <2>4, <2>5, <2>6, <2>7, <2>8, <2>9, <2>10 DEF ConnInv
<1>2. ConnInv /\ [Next]_vars => ConnInv'
  BY LoopInvStep, InputInvStep, OutStep, StateInvStep, RemoveInvStep, WorkTypeStep, OnceInvStep,
     BegunInvStep, WastedInvStep DEF ConnInv
<1>. QED  BY <1>1, <1>2, PTL DEF Spec

(***************************************************************************)
(* The types, the order of what is erased, read and sent, and the output   *)
(* side of every connection: output waits exactly while EPOLLOUT is asked  *)
(* for (sendInLoop, TcpConnection.cc:86; handleWrite :286).                *)
(***************************************************************************)
THEOREM TypeCorrect == Spec => []TypeOK
<1>1. ConnInv => TypeOK
  <2>. SUFFICES ASSUME ConnInv PROVE TypeOK
    OBVIOUS
  <2>1. \A r \in Requests : pc[r] \in Place /\ at[r] \in 0 .. Len(Text[r])
    <3>1. \A r \in Requests : Text[r] \in Seq(Byte)
      BY HttpAssumption
    <3>2. \A r \in Requests : Len(Text[r]) \in Nat
      BY <3>1, LenProperties
    <3>. QED  BY <3>2 DEF ConnInv, WorkType
  <2>. QED
    BY <2>1 DEF ConnInv, LoopInv, ConnType, WorkType, InputInv, StateInv, OutInv, TypeOK
<1>. QED  BY <1>1, ConnHolds, PTL

(***************************************************************************)
(* A channel leaves the Poller once, by one functor, with no event of its  *)
(* left to handle (removeChannel's assertion, EventLoop.cc:142;            *)
(* handleClose's, TcpConnection.cc:305).                                   *)
(***************************************************************************)
THEOREM RemovedOnlyOnce == Spec => []RemovedOnce
<1>1. ConnInv => RemovedOnce
  BY DEF ConnInv, ConnType, StateInv, RemoveInv, RemovedOnce
<1>. QED  BY <1>1, ConnHolds, PTL

(***************************************************************************)
(* A stream whose connection is no longer up is given at most one more     *)
(* delta, whichever request holds the close callback and however the       *)
(* worker's checks interleave with the loop (HttpStreamSession::Write,     *)
(* SetOnClose in NetworkHttpTypes.h:200).                                  *)
(***************************************************************************)
THEOREM StreamSoonCancelled == Spec => []SoonCancelled
<1>1. ConnInv => SoonCancelled
  BY DEF ConnInv, WastedInv, SoonCancelled
<1>. QED  BY <1>1, ConnHolds, PTL

\* On a connection whose write side is shut nothing more is written.
LEMMA QuietStepFin ==
    ASSUME ConnInv, [Next]_vars, NEW c \in Conns, fin[c]
    PROVE  wire'[c] \in {wire[c], <<>>}
<1>0. ~connected(c) /\ ~writing[c]
  BY DEF ConnInv, OutInv, connected
<1>1. ASSUME NEW d \in Conns, Writes(d) PROVE wire'[c] = wire[c]
  BY <1>0, <1>1, WritesFacts DEF ConnInv
<1>2. CASE Poll \/ HandleWakeup \/ SwapFunctors \/ EndFunctors \/ CallDestroyed \/ UNCHANGED vars
  BY <1>2 DEF Poll, HandleWakeup, SwapFunctors, EndFunctors, CallDestroyed, connectDestroyed,
              kernelVars, vars
<1>3. ASSUME NEW d \in Conns, Accept(d) \/ ReadClose(d) \/ ReadPart(d) PROVE wire' = wire
  BY <1>3 DEF Accept, newConnection, ReadClose, handleClose, ReadPart, kernelVars
<1>4. ASSUME NEW d \in Conns, HandleWrite(d) PROVE wire'[c] = wire[c]
  <2>1. handleWrite(d)
    BY <1>4 DEF HandleWrite
  <2>. QED  BY <1>0, <2>1, HandleWriteFacts DEF ConnInv
<1>5. ASSUME NEW d \in Conns, HandleRequest(d) PROVE wire'[c] = wire[c]
  BY <1>1, <1>5, RequestFrame DEF ConnInv
<1>6. ASSUME NEW r \in Requests, ResumePlain(r) PROVE wire'[c] = wire[c]
  BY <1>1, <1>6, ResumeFrame, ConnOfInput
<1>7. CASE CallEnd
  BY <1>7 DEF CallEnd
<1>8. CASE CallWrite
  <2>1. PICK r : r = Head(batch).req
    OBVIOUS
  <2>2. batch # <<>> /\ Head(batch).op \in {"WriteInLoop", "EndInLoop"}
    BY <1>8, CallFrame
  <2>3. Head(batch) = Functors[1] /\ 1 \in DOMAIN Functors
    <3>1. IsSeq(batch) /\ IsSeq(pending)
      BY DEF ConnInv, LoopInv
    <3>2. Len(batch) \in Nat \ {0} /\ Len(pending) \in Nat /\ Head(batch) = batch[1]
      BY <2>2, <3>1, SeqLen, SeqTail
    <3>. QED  BY <3>1, <3>2, FunctorsSeq
  <2>4. r \in Requests
    BY <2>1, <2>2, <2>3 DEF ConnInv, RemoveInv, IsFunctor
  <2>. QED  BY <1>1, <1>8, <2>1, <2>4, CallFrame, ConnOfInput
<1>9. ASSUME NEW r \in Requests, WorkerStep(r) PROVE wire' = wire
  BY <1>9, WorkerFrame DEF kernelVars
<1>10. ASSUME NEW d \in Conns, ClientStep(d) \/ ClientReads(d) PROVE wire'[c] \in {wire[c], <<>>}
  BY <1>10, ClientFrame DEF ConnInv, OutInv
<1>. QED
  BY <1>2, <1>3, <1>4, <1>5, <1>6, <1>7, <1>8, <1>9, <1>10 DEF Next, LoopStep, Dead

(***************************************************************************)
(* The write side of a connection is shut only when nothing is left to     *)
(* send, and nothing is sent after it (shutdownInLoop,                     *)
(* TcpConnection.cc:135; handleWrite :286).                                *)
(***************************************************************************)
THEOREM QuietAfterFin == Spec => NothingAfterFin
<1>1. ConnInv /\ ConnInv' /\ [Next]_vars
      => [\A c \in Conns :
             fin'[c] => out'[c] = <<>> /\ (fin[c] => IsPrefix(wire'[c], wire[c]))]_vars
  <2>. SUFFICES ASSUME ConnInv, ConnInv', [Next]_vars, NEW c \in Conns, fin'[c]
                PROVE  out'[c] = <<>> /\ (fin[c] => IsPrefix(wire'[c], wire[c]))
    OBVIOUS
  <2>1. out'[c] = <<>>
    BY DEF ConnInv, OutInv
  <2>2. ASSUME fin[c] PROVE IsPrefix(wire'[c], wire[c])
    <3>1. wire'[c] \in {wire[c], <<>>}
      BY <2>2, QuietStepFin
    <3>2. IsSeq(wire[c])
      BY DEF ConnInv, OutInv
    <3>3. PICK w : w = wire[c]
      OBVIOUS
    <3>4. Len(w) \in Nat
      BY <3>2, <3>3, SeqLen
    <3>5. IsPrefix(w, w)
      BY <3>4 DEF IsPrefix
    <3>6. IsPrefix(<<>>, w)
      <4>1. Len(<<>>) = 0
        OBVIOUS
      <4>2. SubSeq(<<>>, 1, 0) = <<>> /\ SubSeq(w, 1, 0) = <<>>
        BY SubSeqEmpty
      <4>. QED  BY <3>4, <4>1, <4>2 DEF IsPrefix
    <3>. QED  BY <3>1, <3>3, <3>5, <3>6
  <2>. QED  BY <2>1, <2>2
<1>. QED  BY <1>1, ConnHolds, PTL DEF Spec, NothingAfterFin
=============================================================================
