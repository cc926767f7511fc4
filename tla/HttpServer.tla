----------------------------- MODULE HttpServer -----------------------------
(***************************************************************************)
(* The HTTP side of the serving program: NetworkHttpServer's framing and   *)
(* routing on the loop thread, NetworkHttpResponse, HttpStreamSession and  *)
(* OpenAIStreamWriter as the workers use them, and the close callback.     *)
(*                                                                         *)
(* What happens between Submit and the engine's first token is             *)
(* ServingCore's subject; here a request is accepted or refused, and an    *)
(* accepted one is run by some worker, named after the request.            *)
(***************************************************************************)
EXTENDS TcpServer, SequencesExt

CONSTANTS
    Requests,      \* HTTP requests
    Kind,          \* [Requests -> {"stream", "plain", "get"}]; a "get" has no Content-Length
    Input,         \* [Conns -> Seq(Piece)]: what a client sends, in order
    Text           \* [Requests -> Seq(Byte)]: the engine's output for a stream

\* The bytes split_utf8_prefix tells apart: ASCII, a lead of two or of three
\* (or four), a continuation, a byte that is none of these.
Byte == {"a", "l2", "l3", "c", "x"}

\* What one read may bring: a request's header, its body with it unless that comes
\* in a piece of its own.
Piece == [req : Requests, head : BOOLEAN]

ASSUME HttpAssumption ==
    /\ Kind \in [Requests -> {"stream", "plain", "get"}]
    /\ Input \in [Conns -> Seq(Piece)]
    /\ Text \in [Requests -> Seq(Byte)]
    /\ Threads = Requests
    /\ None \notin Requests \cup Conns
    /\ WakeupChannel \notin Conns \cup {None}

\* Every request is sent, on one connection, with one header, which a body apart
\* follows at once.
ASSUME InputAssumption ==
    /\ \A r \in Requests : \E c \in Conns : \E p \in DOMAIN Input[c] : Input[c][p].req = r
    /\ \A c, d \in Conns : \A p \in DOMAIN Input[c], q \in DOMAIN Input[d] :
          Input[c][p].req = Input[d][q].req =>
              c = d /\ ((Input[c][p].head <=> Input[d][q].head) => p = q)
    /\ \A c \in Conns : \A p \in DOMAIN Input[c] :
          ~Input[c][p].head => p > 1 /\ Input[c][p - 1] = [Input[c][p] EXCEPT !.head = TRUE]

VARIABLES
    context,       \* context_ of a connection: the request whose on_close it is, or None
    eaten,         \* pieces of input erased from http_buffers_[conn]
    waiting,       \* the request the loop's thread waits for in its handler, or None
    header_sent,   \* NetworkHttpResponse::header_sent
    closed,        \* HttpStreamSession::closed_
    cancelled,     \* ServingContext::cancelled
    pc,            \* "none", or where the worker of a request is
    mail,          \* the events its OnChunk has still to write
    at,            \* bytes of Text the engine has produced
    pending_bytes, \* OpenAIStreamWriter::pending_bytes_
    told,          \* history: every item the request was given for its client
    wasted         \* history: deltas begun on a connection that was no longer up

requestVars == <<header_sent, closed, cancelled, pc, mail, at, pending_bytes, told, wasted>>
httpVars    == <<context, eaten, waiting, requestVars>>
vars        == <<loopVars, connVars, kernelVars, httpVars>>

ConnOf(r) == CHOOSE c \in Conns : \E p \in DOMAIN Input[c] : Input[c][p].req = r

\* Items of a response on the wire.
Item(r, kind, text) == [req |-> r, kind |-> kind, text |-> text]
Header(r) == Item(r, "header", <<>>)
Open(r)   == Item(r, "open", <<>>)       \* ":\n\n"
Body(r)   == Item(r, "body", <<>>)
Finish(r) == Item(r, "finish", <<>>)     \* the chunk with a finish_reason
Done(r)   == Item(r, "done", <<>>)       \* "data: [DONE]\n\n"

Init ==
    /\ TcpInit
    /\ context = [c \in Conns |-> None]
    /\ eaten = [c \in Conns |-> 0]
    /\ waiting = None
    /\ header_sent = [r \in Requests |-> FALSE]
    /\ closed = [r \in Requests |-> FALSE]
    /\ cancelled = [r \in Requests |-> FALSE]
    /\ pc = [r \in Requests |-> "none"]
    /\ mail = [r \in Requests |-> <<>>]
    /\ at = [r \in Requests |-> 0]
    /\ pending_bytes = [r \in Requests |-> <<>>]
    /\ told = [r \in Requests |-> <<>>]
    /\ wasted = [r \in Requests |-> 0]

-----------------------------------------------------------------------------
(* OpenAIStreamWriter: split_utf8_prefix.                                  *)

Need(b) == CASE b = "a" -> 1 [] b = "l2" -> 2 [] b = "l3" -> 3 [] OTHER -> 0

\* The characters of the input up to the first incomplete one, and the rest.
split_utf8_prefix(input) ==
    LET n == Len(input)
        Valid(i) == \A k \in (i + 1)..(i + Need(input[i]) - 1) : input[k] = "c"
        from[i \in 1..(n + 1)] ==
            IF i > n THEN [prefix |-> <<>>, rest |-> <<>>]
            ELSE IF Need(input[i]) = 0
            THEN [from[i + 1] EXCEPT !.prefix = <<"?">> \o @]
            ELSE IF i + Need(input[i]) - 1 > n
            THEN [prefix |-> <<>>, rest |-> SubSeq(input, i, n)]
            ELSE IF Valid(i)
            THEN [from[i + Need(input[i])] EXCEPT !.prefix = <<input[i]>> \o @]
            ELSE [from[i + 1] EXCEPT !.prefix = <<"?">> \o @]
    IN  from[1]

-----------------------------------------------------------------------------
(* NetworkHttpResponse on the loop's thread.                               *)

\* WriteInLoop of a stream's items; the header goes before the first.
WriteInLoop(r, items) ==
    LET c == ConnOf(r) IN
    /\ send(c, IF header_sent[r] THEN items ELSE <<Header(r)>> \o items)
    /\ header_sent' = [header_sent EXCEPT ![r] = @ \/ connected(c)]

\* Write of a whole answer, then End: what WriteError, the other handlers and
\* the end of HandleChatCompletion do.  Without sse, WriteInLoop calls End
\* too; the second one finds the connection no longer connected.
Answer(r) ==
    /\ WriteInLoop(r, <<Body(r)>>)
    /\ shutdown(ConnOf(r))
    /\ told' = [told EXCEPT ![r] = <<Header(r), Body(r)>>]

-----------------------------------------------------------------------------
(* The loop's thread.                                                      *)

Idle == waiting = None /\ ~killed

Poll ==
    /\ Idle
    /\ poll(Ready)
    /\ UNCHANGED <<connVars, kernelVars, httpVars>>

HandleWakeup ==
    /\ Idle
    /\ handleWakeup
    /\ UNCHANGED <<connVars, kernelVars, httpVars>>

Accept(c) ==
    /\ Idle
    /\ newConnection(c)
    /\ UNCHANGED httpVars

HandleWrite(c) ==
    /\ Idle
    /\ handleWrite(c)
    /\ UNCHANGED httpVars

\* handleRead with n = 0.  on_close belongs to the connection's last request:
\* it cancels a stream and closes its session (whose End does nothing any
\* more); a non-stream request has finished by now.
ReadClose(c) ==
    /\ Idle
    /\ handleEvent(c, "in")
    /\ got[c] = sent[c] /\ peer[c] = "closed"
    /\ handleClose(c)
    /\ LET r == context[c] IN
       IF r # None /\ Kind[r] = "stream"
       THEN /\ cancelled' = [cancelled EXCEPT ![r] = TRUE]
            /\ closed' = [closed EXCEPT ![r] = TRUE]
       ELSE UNCHANGED <<cancelled, closed>>
    /\ UNCHANGED <<context, eaten, waiting, header_sent, pc, mail, at, pending_bytes, told, wasted>>

\* The first header in http_buffers_[c], and where its request ends: after its
\* Content-Length, or without one after all that has arrived.
HeaderAt(c) == {p \in (eaten[c] + 1)..sent[c] :
                   Input[c][p].head /\ \A q \in (eaten[c] + 1)..(p - 1) : ~Input[c][q].head}
RequestEnd(c, p) == IF Kind[Input[c][p].req] = "get" THEN sent[c]
                    ELSE IF p < Len(Input[c]) /\ ~Input[c][p + 1].head THEN p + 1 ELSE p
Complete(c) == {p \in HeaderAt(c) : RequestEnd(c, p) <= sent[c]}

\* onMessage: append what was read to the buffer ...
OnMessage(c) ==
    /\ Idle
    /\ handleEvent(c, "in")
    /\ got[c] < sent[c]
    /\ got' = [got EXCEPT ![c] = sent[c]]
    /\ UNCHANGED <<pending, wakeup, index, connections, peer, sent>>

\* ... and return if it holds no complete request.
ReadPart(c) ==
    /\ OnMessage(c)
    /\ Complete(c) = {}
    /\ UNCHANGED <<state, writing, out, wire, room, fin, killed, httpVars>>

\* Otherwise handle one request r, at p.
HandlesRequest(c, p, r) ==
    /\ OnMessage(c)
    /\ p \in Complete(c)
    /\ r = Input[c][p].req
    /\ eaten' = [eaten EXCEPT ![c] = RequestEnd(c, p)]

\* Answered at once: every route but chat, a body that is not a chat request,
\* and a request line spoiled by bytes left over before it.
HandleNow(c, p, r) ==
    /\ HandlesRequest(c, p, r)
    /\ Answer(r)
    /\ pc' = [pc EXCEPT ![r] = "ended"]
    /\ UNCHANGED <<context, waiting, closed, cancelled, mail, at, pending_bytes, wasted>>

\* HandleChatCompletion: a refused request is answered; for an accepted one
\* the loop's thread waits, unless the connection is no longer up.
RefusePlain(c, p, r) ==
    /\ Kind[r] = "plain" /\ p = eaten[c] + 1
    /\ HandlesRequest(c, p, r)
    /\ Answer(r)
    /\ context' = [context EXCEPT ![c] = r]
    /\ pc' = [pc EXCEPT ![r] = "ended"]
    /\ UNCHANGED <<waiting, closed, cancelled, mail, at, pending_bytes, wasted>>

HandlePlain(c, p, r) ==
    /\ Kind[r] = "plain" /\ p = eaten[c] + 1
    /\ HandlesRequest(c, p, r)
    /\ context' = [context EXCEPT ![c] = r]
    /\ pc' = [pc EXCEPT ![r] = "run"]
    /\ waiting' = IF connected(c) THEN r ELSE None
    /\ cancelled' = [cancelled EXCEPT ![r] = ~connected(c)]
    /\ UNCHANGED <<state, writing, out, wire, room, fin, killed,
                   header_sent, closed, mail, at, pending_bytes, told, wasted>>

\* WaitFinishOrCancel returns: the request has finished.
ResumePlain(r) ==
    /\ waiting = r /\ pc[r] = "ended" /\ ~killed
    /\ Answer(r)
    /\ waiting' = None
    /\ UNCHANGED <<loopVars, index, connections, peer, sent, got, context, eaten,
                   closed, cancelled, pc, mail, at, pending_bytes, wasted>>

\* HandleChatCompletionStream: Start writes before Submit is asked; a refused
\* stream is then finished by the loop's own thread.
HandleStream(c, p, r) ==
    /\ Kind[r] = "stream" /\ p = eaten[c] + 1
    /\ HandlesRequest(c, p, r)
    /\ context' = [context EXCEPT ![c] = r]
    /\ WriteInLoop(r, <<Open(r)>>)
    /\ told' = [told EXCEPT ![r] = <<Header(r), Open(r)>>]
    /\ pc' = [pc EXCEPT ![r] = "run"]
    /\ UNCHANGED <<state, fin, waiting, closed, cancelled, mail, at, pending_bytes, wasted>>

RefuseStream(c, p, r) ==
    /\ Kind[r] = "stream" /\ p = eaten[c] + 1
    /\ HandlesRequest(c, p, r)
    /\ context' = [context EXCEPT ![c] = r]
    /\ WriteInLoop(r, <<Open(r), Finish(r), Done(r)>>)
    /\ shutdown(c)
    /\ told' = [told EXCEPT ![r] = <<Header(r), Open(r), Finish(r), Done(r)>>]
    /\ closed' = [closed EXCEPT ![r] = TRUE]
    /\ cancelled' = [cancelled EXCEPT ![r] = ~connected(c)]
    /\ pc' = [pc EXCEPT ![r] = "ended"]
    /\ UNCHANGED <<waiting, mail, at, pending_bytes, wasted>>

SwapFunctors ==
    /\ Idle
    /\ swapFunctors
    /\ UNCHANGED <<connVars, kernelVars, httpVars>>

CallWrite ==
    /\ Idle
    /\ callFunctor("WriteInLoop")
    /\ WriteInLoop(Head(batch).req, <<Head(batch).item>>)
    /\ UNCHANGED <<pending, wakeup, state, index, connections, peer, sent, got, fin,
                   context, eaten, waiting, closed, cancelled, pc, mail, at, pending_bytes,
                   told, wasted>>

CallEnd ==
    /\ Idle
    /\ callFunctor("EndInLoop")
    /\ UNCHANGED writing
    /\ shutdown(ConnOf(Head(batch).req))
    /\ UNCHANGED <<pending, wakeup, index, out, connections, peer, sent, got, wire, room,
                   killed, httpVars>>

CallDestroyed ==
    /\ Idle
    /\ callFunctor("connectDestroyed")
    /\ connectDestroyed(Head(batch).conn)
    /\ UNCHANGED httpVars

EndFunctors ==
    /\ Idle
    /\ endFunctors
    /\ UNCHANGED <<connVars, kernelVars, httpVars>>

-----------------------------------------------------------------------------
(* A worker that runs a stream: EmitDelta and EmitFinish call OnChunk,     *)
(* whose events go through write_ and HttpStreamSession::Write one by one. *)

\* Mutant: bytes of an incomplete character are not kept for the next delta.
DeltaDrops(r, k) ==
    /\ ~killed /\ pc[r] = "run" /\ Kind[r] = "stream" /\ ~cancelled[r]
    /\ LET u == split_utf8_prefix(SubSeq(Text[r], at[r] + 1, at[r] + k))
           chunk == Item(r, "chunk", u.prefix)
       IN  /\ mail' = [mail EXCEPT ![r] = <<chunk>>]
           /\ told' = [told EXCEPT ![r] = Append(@, chunk)]
    /\ at' = [at EXCEPT ![r] = @ + k]
    /\ pc' = [pc EXCEPT ![r] = "check"]
    /\ wasted' = [wasted EXCEPT ![r] = @ + (IF connected(ConnOf(r)) THEN 0 ELSE 1)]
    /\ UNCHANGED <<loopVars, connVars, kernelVars, context, eaten, waiting, header_sent,
                   closed, cancelled, pending_bytes>>

\* The engine, which has looked at cancelled, emits the next k bytes.
Delta(r, k) ==
    /\ ~killed /\ pc[r] = "run" /\ Kind[r] = "stream" /\ ~cancelled[r]
    /\ LET u == split_utf8_prefix(pending_bytes[r] \o SubSeq(Text[r], at[r] + 1, at[r] + k))
           chunk == Item(r, "chunk", u.prefix)
       IN  /\ pending_bytes' = [pending_bytes EXCEPT ![r] = u.rest]
           /\ mail' = [mail EXCEPT ![r] = <<chunk>>]
           /\ told' = [told EXCEPT ![r] = Append(@, chunk)]
    /\ at' = [at EXCEPT ![r] = @ + k]
    /\ pc' = [pc EXCEPT ![r] = "check"]
    /\ wasted' = [wasted EXCEPT ![r] = @ + (IF connected(ConnOf(r)) THEN 0 ELSE 1)]
    /\ UNCHANGED <<loopVars, connVars, kernelVars, context, eaten, waiting, header_sent,
                   closed, cancelled>>

\* EmitFinish, for whatever reason: the last chunk (its flushed bytes are not
\* part of it) and [DONE].
EmitFinish(r) ==
    /\ ~killed /\ pc[r] = "run" /\ Kind[r] = "stream"
    /\ mail' = [mail EXCEPT ![r] = <<Finish(r), Done(r)>>]
    /\ told' = [told EXCEPT ![r] = @ \o <<Finish(r), Done(r)>>]
    /\ pending_bytes' = [pending_bytes EXCEPT ![r] = <<>>]
    /\ pc' = [pc EXCEPT ![r] = "check"]
    /\ UNCHANGED <<loopVars, connVars, kernelVars, context, eaten, waiting, header_sent,
                   closed, cancelled, at, wasted>>

\* Where the worker goes when the first event of its mail is dealt with: the
\* next event, the next token, or on_finish.
Emitted(r) == \E p \in DOMAIN told[r] : told[r][p] = Done(r)
AfterMail(r) ==
    /\ mail' = [mail EXCEPT ![r] = Tail(@)]
    /\ pc' = [pc EXCEPT ![r] = IF Len(mail[r]) > 1 THEN "check"
                               ELSE IF Emitted(r) THEN "close" ELSE "run"]

\* write_ on a session that is closed.
WriteDead(r) ==
    /\ ~killed /\ pc[r] = "check" /\ closed[r]
    /\ cancelled' = [cancelled EXCEPT ![r] = TRUE]
    /\ AfterMail(r)
    /\ UNCHANGED <<loopVars, connVars, kernelVars, context, eaten, waiting, header_sent, closed,
                   at, pending_bytes, told, wasted>>

\* HttpStreamSession::Write finds the response dead: Close queues EndInLoop,
\* and write_ cancels the request.
Closes(r) ==
    /\ ~closed[r]
    /\ closed' = [closed EXCEPT ![r] = TRUE]
    /\ queueInLoop(r, [op |-> "EndInLoop", req |-> r])
    /\ pc' = [pc EXCEPT ![r] = "endwake"]
    /\ UNCHANGED <<batch, active, current, loop, wakeup, connVars, kernelVars, context, eaten,
                   waiting, header_sent, mail, at, pending_bytes, told, wasted>>

\* Mutant: the request goes on.
WriteFindsUncancelled(r) ==
    /\ ~killed /\ pc[r] = "check" /\ ~connected(ConnOf(r))
    /\ Closes(r)
    /\ UNCHANGED cancelled

WriteFinds(r) ==
    /\ ~killed /\ pc[r] = "check" /\ ~connected(ConnOf(r))
    /\ Closes(r)
    /\ cancelled' = [cancelled EXCEPT ![r] = TRUE]

WriteChecks(r) ==
    /\ ~killed /\ pc[r] = "check" /\ ~closed[r] /\ connected(ConnOf(r))
    /\ pc' = [pc EXCEPT ![r] = "push"]
    /\ UNCHANGED <<loopVars, connVars, kernelVars, context, eaten, waiting, header_sent, closed,
                   cancelled, mail, at, pending_bytes, told, wasted>>

WriteQueues(r) ==
    /\ ~killed /\ pc[r] = "push"
    /\ queueInLoop(r, [op |-> "WriteInLoop", req |-> r, item |-> Head(mail[r])])
    /\ pc' = [pc EXCEPT ![r] = "wake"]
    /\ UNCHANGED <<batch, active, current, loop, wakeup, connVars, kernelVars, context, eaten,
                   waiting, header_sent, closed, cancelled, mail, at, pending_bytes, told, wasted>>

\* The wakeup of either queueInLoop, if its test asks for one.
Wakes(r) ==
    /\ IF r \in waking THEN wakeupLoop(r) ELSE UNCHANGED <<waking, wakeup>>
    /\ UNCHANGED <<pending, batch, active, current, loop, connVars, kernelVars, context, eaten,
                   waiting, header_sent, closed, at, pending_bytes, told, wasted>>

\* Write goes on to look at the response again; write_ at the session.
WriteWakes(r) ==
    /\ ~killed /\ pc[r] = "wake"
    /\ Wakes(r)
    /\ IF closed[r] \/ connected(ConnOf(r))
       THEN /\ cancelled' = [cancelled EXCEPT ![r] = @ \/ closed[r]]
            /\ AfterMail(r)
       ELSE /\ pc' = [pc EXCEPT ![r] = "dead"]
            /\ UNCHANGED <<cancelled, mail>>

WriteFindsAfter(r) ==
    /\ ~killed /\ pc[r] = "dead"
    /\ IF closed[r]
       THEN AfterMail(r) /\ UNCHANGED <<loopVars, connVars, kernelVars, context, eaten, waiting,
                                        header_sent, closed, at, pending_bytes, told, wasted>>
       ELSE Closes(r)
    /\ cancelled' = [cancelled EXCEPT ![r] = TRUE]

\* on_finish: HttpStreamSession::Close, once.
OnFinish(r) ==
    /\ ~killed /\ pc[r] = "close" /\ UNCHANGED cancelled
    /\ \/ Closes(r)
       \/ /\ closed[r]
          /\ pc' = [pc EXCEPT ![r] = "ended"]
          /\ UNCHANGED <<loopVars, connVars, kernelVars, context, eaten, waiting, header_sent,
                         closed, mail, at, pending_bytes, told, wasted>>

EndWakes(r) ==
    /\ ~killed /\ pc[r] = "endwake"
    /\ Wakes(r)
    /\ UNCHANGED cancelled
    /\ IF mail[r] # <<>> THEN AfterMail(r)
       ELSE pc' = [pc EXCEPT ![r] = "ended"] /\ UNCHANGED mail

\* A non-stream request runs to its EmitFinish.
RunPlain(r) ==
    /\ ~killed /\ pc[r] = "run" /\ Kind[r] = "plain"
    /\ pc' = [pc EXCEPT ![r] = "ended"]
    /\ UNCHANGED <<loopVars, connVars, kernelVars, context, eaten, waiting, header_sent, closed,
                   cancelled, mail, at, pending_bytes, told, wasted>>

-----------------------------------------------------------------------------
\* The loop's thread handles a complete request in one of these ways.
HandleRequest(c) ==
    \E p \in Complete(c) : LET r == Input[c][p].req IN
        \/ HandleNow(c, p, r)
        \/ RefusePlain(c, p, r)
        \/ HandlePlain(c, p, r)
        \/ HandleStream(c, p, r)
        \/ RefuseStream(c, p, r)

LoopStep ==
    \/ Poll
    \/ HandleWakeup
    \/ \E c \in Conns : Accept(c) \/ HandleWrite(c) \/ ReadClose(c) \/ ReadPart(c)
                        \/ HandleRequest(c)
    \/ \E r \in Requests : ResumePlain(r)
    \/ SwapFunctors \/ CallWrite \/ CallEnd \/ CallDestroyed \/ EndFunctors

WorkerStep(r) ==
    \/ \E k \in 1..(Len(Text[r]) - at[r]) : Delta(r, k)
    \/ EmitFinish(r)
    \/ WriteDead(r) \/ WriteFinds(r) \/ WriteChecks(r) \/ WriteQueues(r)
    \/ WriteWakes(r) \/ WriteFindsAfter(r)
    \/ OnFinish(r) \/ EndWakes(r)
    \/ RunPlain(r)

ClientStep(c) ==
    /\ ~killed
    /\ Connect(c) \/ Send(c, Len(Input[c])) \/ Leave(c)
    /\ UNCHANGED httpVars

ClientReads(c) ==
    /\ ~killed
    /\ Drain(c)
    /\ UNCHANGED httpVars

\* The process is gone.
Dead == killed /\ UNCHANGED vars

Next ==
    \/ LoopStep
    \/ \E r \in Requests : WorkerStep(r)
    \/ \E c \in Conns : ClientStep(c) \/ ClientReads(c)
    \/ Dead

Spec == Init /\ [][Next]_vars

\* The loop and the pool's threads keep running; a client that stays reads.
FairSpec ==
    /\ Spec
    /\ WF_vars(LoopStep)
    /\ \A r \in Requests : WF_vars(WorkerStep(r))
    /\ \A c \in Conns : WF_vars(ClientReads(c))

-----------------------------------------------------------------------------
Place == {"none", "run", "check", "push", "wake", "dead", "close", "endwake", "ended"}

(* Types, and what the output side of a connection looks like: output      *)
(* waits exactly while EPOLLOUT is asked for, until handleClose.           *)
TypeOK ==
    /\ loop \in {"poll", "events", "functors"} /\ wakeup \in BOOLEAN /\ waking \subseteq Requests
    /\ \A c \in Conns :
          /\ state[c] \in {"kConnecting", "kConnected", "kDisconnecting", "kDisconnected"}
          /\ index[c] \in {"kNew", "kAdded", "kDeleted"}
          /\ peer[c] \in {"none", "open", "closed"}
          /\ got[c] <= sent[c] /\ eaten[c] <= got[c]
          /\ context[c] \in Requests \cup {None}
          /\ state[c] # "kDisconnected" => (writing[c] <=> out[c] # <<>>)
          /\ c \in connections <=> state[c] \in {"kConnected", "kDisconnecting"}
    /\ \A r \in Requests : pc[r] \in Place /\ at[r] \in 0..Len(Text[r])
    /\ waiting \in Requests \cup {None}

\* Those of the items s that are of r; what the wire of r's connection carries of r.
ItemsOf(s, r) == FlattenSeq([i \in DOMAIN s |-> IF s[i].req = r THEN <<s[i]>> ELSE <<>>])
Received(r)   == ItemsOf(wire[ConnOf(r)], r)

(* What a client has received of a response is a prefix of what the        *)
(* handlers and the worker wrote for it: the header once and first, every  *)
(* event in order and none missing before the last one, however direct     *)
(* writes, buffered output, queued functors and a dying connection mix     *)
(* (WriteInLoop, NetworkHttpTypes.h:105; sendInLoop, TcpConnection.cc:86). *)
WireIsPrefix == \A r \in Requests : IsPrefix(Received(r), told[r])

(* The write side is shut only when nothing is left to send, and nothing   *)
(* follows it (shutdownInLoop, TcpConnection.cc:135; handleWrite :286).    *)
NothingAfterFin ==
    [][\A c \in Conns : fin'[c] => out'[c] = <<>> /\ (fin[c] => IsPrefix(wire'[c], wire[c]))]_vars

\* The characters of a text whose last one may be cut off, told by what
\* surrounds each byte rather than by scanning.
Whole(s, i)   == i + Need(s[i]) - 1 <= Len(s) /\
                 \A k \in (i + 1)..(i + Need(s[i]) - 1) : s[k] = "c"
Inside(s, i)  == s[i] = "c" /\ \E j \in 1..(i - 1) :
                    s[j] \in {"l2", "l3"} /\ i < j + Need(s[j]) /\ Whole(s, j)
CutOff(s, i)  == s[i] \in {"l2", "l3"} /\ i + Need(s[i]) - 1 > Len(s)
Shown(s, i)   == IF Inside(s, i) \/ \E j \in 1..i : CutOff(s, j) THEN <<>>
                 ELSE IF Need(s[i]) > 0 /\ Whole(s, i) THEN <<s[i]>> ELSE <<"?">>
Visible(s)    == FlattenSeq([i \in 1..Len(s) |-> Shown(s, i)])

(* However the engine cuts its output into deltas, the content of the      *)
(* chunks joined is the characters of the output: no character is split    *)
(* over two chunks, replaced although it is valid, lost or repeated        *)
(* (split_utf8_prefix and pending_bytes_, OpenAIStreamWriter.cc:37, 107).  *)
ChunksAreText ==
    \A r \in Requests :
        Kind[r] = "stream" =>
            FlattenSeq([p \in DOMAIN told[r] |-> told[r][p].text]) =
                Visible(SubSeq(Text[r], 1, at[r]))

(* A stream whose connection is no longer up is given at most one more     *)
(* delta, also when a later request of the connection has taken over its   *)
(* close callback (SetOnClose, NetworkHttpTypes.h:200).                    *)
SoonCancelled == \A r \in Requests : wasted[r] <= 1

\* The functors still to run that remove c's channel.
Removals(c) ==
    LET functors == batch \o pending
    IN  {i \in DOMAIN functors : functors[i].op = "connectDestroyed" /\ functors[i].conn = c}

(* removeChannel's assertion (EventLoop.cc:142) and handleClose's          *)
(* (TcpConnection.cc:305): a connection whose channel has left the Poller  *)
(* is out of the table, has no event waiting, and no functor removes it    *)
(* again.                                                                  *)
RemovedOnce ==
    \A c \in Conns :
        /\ state[c] = "kDisconnected" =>
              {e \in {"in", "out"} : <<c, e>> \in active} \subseteq {"out"}
        /\ state[c] = "kDisconnected" /\ index[c] = "kDeleted" <=> Removals(c) # {}
        /\ \A i, j \in Removals(c) : i = j
        /\ index[c] = "kNew" => {e \in {"in", "out"} : <<c, e>> \in active} = {}

\* The first requests of the connections; r has its connection for itself.
Firsts   == {Head(Input[c]).req : c \in Conns}
Alone(r) == \A q \in Requests \ {r} : ConnOf(q) = ConnOf(r) => pc[q] = "none" /\ told[q] = <<>>

(* The first request of a connection is answered in full once it has       *)
(* ended, however it ended: refused on arrival, answered at once, or run   *)
(* by a worker whose writes are queued.  Unless its client leaves, the     *)
(* process dies or another request comes in on its connection, everything  *)
(* written for it reaches the client, through short writes and a shutdown  *)
(* that has to wait for them, and the write side is shut after it.  A      *)
(* refused stream has its 200 header out by then, since Start is called    *)
(* before Submit (HttpGateway.cc:574, whatever the comment above it says); *)
(* it hears of the refusal in the stream.                                  *)
AnswerDelivered ==
    \A r \in Firsts :
        pc[r] = "ended" ~>
            \/ Received(r) = told[r] /\ fin[ConnOf(r)]
            \/ peer[ConnOf(r)] = "closed" \/ killed \/ ~Alone(r)
=============================================================================
