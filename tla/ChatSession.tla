---------------------------- MODULE ChatSession ----------------------------
(***************************************************************************)
(* The conversation of one session: the client's transcripts, the history  *)
(* the gateway keeps, the delta it computes on arrival (auto-diff), and    *)
(* the KV cache of the session's ModelContext that LlamaEngine extends.    *)
(*                                                                         *)
(* Requests of a session for one model are served one at a time and in     *)
(* order, as SerialExecutors promises; their arrivals interleave with the  *)
(* one being served, because the handlers run on the loop thread.  A       *)
(* non-stream handler blocks that thread until its request is finished.    *)
(*                                                                         *)
(* A message is its role, the request it stems from and, for a reply, its  *)
(* pieces.  Chat templates are taken to be compositional: the prompt that  *)
(* build_chat_delta_prompt cuts off is the rendering of ctx->messages.     *)
(***************************************************************************)
EXTENDS Integers, Sequences, SequencesExt

CONSTANTS
    Requests,
    Streaming,    \* the requests with stream=true
    MaxPending,   \* requests that may be queued
    MaxPieces,    \* max_new_tokens
    KvLimit,      \* n_ctx - KV_RESET_MARGIN
    None

ASSUME ChatAssumption ==
    /\ Streaming \subseteq Requests
    /\ MaxPending \in Nat \ {0}
    /\ MaxPieces \in Nat \ {0}
    /\ KvLimit \in Nat
    /\ None \notin Requests

VARIABLES
    history,      \* Session::history
    model_ctx,    \* Session::model_ctx: the request whose run created it, or None
    kv,           \* what a context's cache holds
    n_past,       \* ModelContext::n_past
    pending,      \* the accepted requests, oldest first
    pc,           \* where a request is
    client,       \* client_messages of a request
    messages,     \* ServingContext::messages: the delta left by auto-diff
    mc,           \* the context the engine got for the request
    final_text,   \* ServingContext::final_text
    seen,         \* the reply as the client received it
    reason,       \* the reason the request finished with
    cancelled,    \* ServingContext::cancelled
    waiting,      \* the non-stream request the loop thread waits for, or None
    talks,        \* the transcripts a client may go on from
    clean         \* history variable: nothing has put history and cache apart

sessionVars == <<history, model_ctx>>
cacheVars   == <<kv, n_past>>
reqVars     == <<client, messages, mc, final_text, seen, reason, cancelled>>
vars == <<history, model_ctx, kv, n_past, pending, pc, client, messages, mc, final_text,
          seen, reason, cancelled, waiting, talks, clean>>

User(r)     == [role |-> "user", from |-> r, text |-> <<>>]
Reply(r, x) == [role |-> "assistant", from |-> r, text |-> x]

Init ==
    /\ history = <<>>
    /\ model_ctx = None
    /\ kv = [c \in Requests |-> <<>>]
    /\ n_past = [c \in Requests |-> 0]
    /\ pending = <<>>
    /\ pc = [r \in Requests |-> "new"]
    /\ client = [r \in Requests |-> <<>>]
    /\ messages = [r \in Requests |-> <<>>]
    /\ mc = [r \in Requests |-> None]
    /\ final_text = [r \in Requests |-> <<>>]
    /\ seen = [r \in Requests |-> <<>>]
    /\ reason = [r \in Requests |-> "none"]
    /\ cancelled = [r \in Requests |-> FALSE]
    /\ waiting = None
    /\ talks = {<<>>}
    /\ clean = TRUE

Goto(r, l) == pc' = [pc EXCEPT ![r] = l]

Unfinished == {r \in Requests : pc[r] \notin {"new", "done"}}

-----------------------------------------------------------------------------
(* The loop thread: the two chat handlers and the close callback.          *)

\* Mutant: only the lengths are compared.
is_prefixByLength(h, incoming) == Len(h) <= Len(incoming)

is_prefix(h, incoming) == IsPrefix(h, incoming)

diff_messages(h, incoming) ==
    IF is_prefix(h, incoming) THEN SubSeq(incoming, Len(h) + 1, Len(incoming)) ELSE incoming

\* The auto-diff block, under the session's mutex.
AutoDiff(r, incoming) ==
    IF history = <<>> \/ is_prefix(history, incoming)
    THEN /\ messages' = [messages EXCEPT ![r] = diff_messages(history, incoming)]
         /\ UNCHANGED sessionVars
         /\ clean' = (clean /\ Unfinished = {})
    ELSE /\ messages' = [messages EXCEPT ![r] = incoming]
         /\ history' = <<>>
         /\ model_ctx' = None
         /\ clean' = (Unfinished = {})

\* Mutant: the handler waits for a stream too.
WaitsForStream(r) == r

\* Whom the loop thread waits for once r is accepted.
Waits(r) == IF r \in Streaming THEN None ELSE r

\* A request that adds a user message to a transcript the client has.
ChatRequest(r) ==
    /\ waiting = None
    /\ pc[r] = "new"
    /\ \E t \in talks :
          /\ client' = [client EXCEPT ![r] = Append(t, User(r))]
          /\ AutoDiff(r, Append(t, User(r)))
    /\ IF Len(pending) >= MaxPending
       THEN /\ reason' = [reason EXCEPT ![r] = "error"]
            /\ Goto(r, "done")
            /\ UNCHANGED <<pending, waiting>>
       ELSE /\ pending' = Append(pending, r)
            /\ waiting' = Waits(r)
            /\ Goto(r, "queued")
            /\ UNCHANGED reason
    /\ UNCHANGED <<cacheVars, mc, final_text, seen, cancelled, talks>>

Transcript(r, x) == Append(client[r], Reply(r, x))

\* The non-stream handler wakes as soon as finished is set and answers.
Answer ==
    /\ waiting # None
    /\ pc[waiting] \in {"finishing", "done"}
    /\ seen' = [seen EXCEPT ![waiting] = final_text[waiting]]
    /\ talks' = IF reason[waiting] \in {"stop", "length"}
                THEN talks \cup {Transcript(waiting, final_text[waiting])} ELSE talks
    /\ waiting' = None
    /\ UNCHANGED <<sessionVars, cacheVars, pending, pc, client, messages, mc, final_text,
                   reason, cancelled, clean>>

\* on_close of a stream.  A non-stream request's is never run in time: the thread
\* that would run it is the one that waits.
OnClose(r) ==
    /\ waiting = None
    /\ r \in Streaming \cap Unfinished
    /\ ~cancelled[r]
    /\ cancelled' = [cancelled EXCEPT ![r] = TRUE]
    /\ UNCHANGED <<sessionVars, cacheVars, pending, pc, client, messages, mc, final_text, seen,
                   reason, waiting, talks, clean>>

-----------------------------------------------------------------------------
(* ServingContext::EmitFinish.                                             *)

\* finished is set and, for a stream, the last chunk sent; on_finish is still to
\* come.  A request that ends early leaves its prompt in the cache.
Finish(r, why) ==
    /\ Goto(r, "finishing")
    /\ reason' = [reason EXCEPT ![r] = why]
    /\ talks' = IF r \in Streaming /\ ~cancelled[r] /\ why \in {"stop", "length"}
                THEN talks \cup {Transcript(r, seen[r])} ELSE talks

\* Mutant: every reason updates the history.
OnFinishAlways(r) ==
    /\ pc[r] = "finishing"
    /\ history' = Transcript(r, final_text[r])
    /\ Goto(r, "done")
    /\ UNCHANGED <<model_ctx, cacheVars, pending, reqVars, waiting, talks, clean>>

\* The gateway's on_finish: only stop and length update the history.
OnFinish(r) ==
    /\ pc[r] = "finishing"
    /\ history' = IF reason[r] \in {"stop", "length"}
                  THEN Transcript(r, final_text[r]) ELSE history
    /\ Goto(r, "done")
    /\ UNCHANGED <<model_ctx, cacheVars, pending, reqVars, waiting, talks, clean>>

-----------------------------------------------------------------------------
(* The worker: the model's task, and LlamaEngine::Run.                     *)

\* Mutant: the next request does not wait for the one in service.
BeginAtOnce(r) ==
    /\ pending # <<>> /\ r = Head(pending)
    /\ pending' = Tail(pending)
    /\ Goto(r, "ensure")
    /\ UNCHANGED <<sessionVars, cacheVars, reqVars, waiting, talks, clean>>

\* The next request's turn.
Begin(r) ==
    /\ pending # <<>> /\ r = Head(pending)
    /\ Unfinished \subseteq Range(pending)
    /\ pending' = Tail(pending)
    /\ Goto(r, "ensure")
    /\ UNCHANGED <<sessionVars, cacheVars, reqVars, waiting, talks, clean>>

\* Pieces of the reply that are in the cache.
Pieces(r) == Last(kv[mc[r]]).text

\* The task's and the engine's checks of cancelled; and the errors before the
\* engine touches the session (model queue full, queue timeout, no engine).
Stop(r) ==
    /\ \/ cancelled[r] /\ pc[r] \in {"ensure", "prompt", "decoded"} /\ Finish(r, "cancelled")
       \/ cancelled[r] /\ pc[r] = "gen" /\ Len(Pieces(r)) < MaxPieces
                       /\ Finish(r, "cancelled")
       \/ pc[r] = "ensure" /\ Finish(r, "error")
    /\ clean' = (clean /\ pc[r] \in {"ensure", "prompt"})
    /\ UNCHANGED <<sessionVars, cacheVars, pending, client, messages, mc, final_text, seen,
                   cancelled, waiting>>

\* The session has a context, and it is not nearly full.
Usable == model_ctx # None /\ n_past[model_ctx] <= KvLimit

\* EnsureContext: the session's context, or a new one in its place.
EnsureContext(r) ==
    /\ pc[r] = "ensure" /\ ~cancelled[r]
    /\ model_ctx' = IF Usable THEN model_ctx ELSE r
    /\ mc' = [mc EXCEPT ![r] = model_ctx']
    /\ clean' = (clean /\ (Usable \/ messages[r] = client[r]))
    /\ Goto(r, "prompt")
    /\ UNCHANGED <<history, cacheVars, pending, client, messages, final_text, seen, reason,
                   cancelled, waiting, talks>>

\* CreateNewContext returns nullptr, and the session is left without a context.
EnsureFails(r) ==
    /\ pc[r] = "ensure" /\ ~cancelled[r]
    /\ ~Usable
    /\ model_ctx' = None
    /\ clean' = (clean /\ history = <<>>)
    /\ Finish(r, "error")
    /\ UNCHANGED <<history, cacheVars, pending, client, messages, mc, final_text, seen,
                   cancelled, waiting>>

\* The delta prompt, and the opening of the reply, go into the cache.
Prefill(r) ==
    /\ pc[r] = "prompt" /\ ~cancelled[r]
    /\ kv' = [kv EXCEPT ![mc[r]] = @ \o messages[r] \o <<Reply(r, <<>>)>>]
    /\ n_past' = [n_past EXCEPT ![mc[r]] = @ + Len(messages[r]) + 1]
    /\ Goto(r, "gen")
    /\ UNCHANGED <<sessionVars, pending, reqVars, waiting, talks, clean>>

\* One turn of the generation loop up to llama_decode.
Decode(r) ==
    /\ pc[r] = "gen" /\ ~cancelled[r]
    /\ Len(Pieces(r)) < MaxPieces
    /\ kv' = [kv EXCEPT ![mc[r]] =
                 Append(Front(@), Reply(r, Append(Pieces(r), Len(Pieces(r)) + 1)))]
    /\ n_past' = [n_past EXCEPT ![mc[r]] = @ + 1]
    /\ Goto(r, "decoded")
    /\ UNCHANGED <<sessionVars, pending, reqVars, waiting, talks, clean>>

\* The check of cancelled after llama_decode is passed.
Decoded(r) ==
    /\ pc[r] = "decoded" /\ ~cancelled[r]
    /\ Goto(r, "piece")
    /\ UNCHANGED <<sessionVars, cacheVars, pending, reqVars, waiting, talks, clean>>

\* The token's piece.  token_to_piece returns "" for a piece it cannot render, and
\* a cancellation may have come meanwhile: then nothing is emitted, although the
\* token is in the cache.  Otherwise EmitDelta appends the piece to final_text, and
\* so does a stream's on_chunk.
EmitDelta(r) ==
    /\ pc[r] = "piece"
    /\ \/ /\ clean' = FALSE
          /\ UNCHANGED <<final_text, seen>>
       \/ /\ ~cancelled[r]
          /\ LET x == Last(Pieces(r))
             IN  /\ final_text' = [final_text EXCEPT ![r] =
                                      @ \o IF r \in Streaming THEN <<x, x>> ELSE <<x>>]
                 /\ seen' = [seen EXCEPT ![r] = IF r \in Streaming THEN Append(@, x) ELSE @]
          /\ UNCHANGED clean
    /\ Goto(r, "gen")
    /\ UNCHANGED <<sessionVars, cacheVars, pending, client, messages, mc, reason, cancelled,
                   waiting, talks>>

\* An end-of-generation token, or max_new_tokens reached.
Complete(r) ==
    /\ pc[r] = "gen"
    /\ \/ Len(Pieces(r)) < MaxPieces /\ ~cancelled[r] /\ Finish(r, "stop")
       \/ Len(Pieces(r)) = MaxPieces /\ Finish(r, "length")
    /\ UNCHANGED <<sessionVars, cacheVars, pending, client, messages, mc, final_text, seen,
                   cancelled, waiting, clean>>

\* The prompt cannot be built or tokenized, or llama_decode fails.
EngineError(r) ==
    /\ pc[r] = "prompt" \/ (pc[r] = "gen" /\ Len(Pieces(r)) < MaxPieces)
    /\ ~cancelled[r]
    /\ clean' = (clean /\ pc[r] = "prompt")
    /\ Finish(r, "error")
    /\ UNCHANGED <<sessionVars, cacheVars, pending, client, messages, mc, final_text, seen,
                   cancelled, waiting>>

Serve(r) ==
    \/ Begin(r) \/ Stop(r) \/ EnsureContext(r) \/ EnsureFails(r) \/ Prefill(r)
    \/ Decode(r) \/ Decoded(r) \/ EmitDelta(r) \/ Complete(r) \/ EngineError(r)
    \/ OnFinish(r)

\* All requests are over: nothing is left to do.
Quiescent ==
    /\ waiting = None
    /\ \A r \in Requests : pc[r] = "done"
    /\ UNCHANGED vars

Next ==
    \/ Answer
    \/ \E r \in Requests : ChatRequest(r) \/ OnClose(r) \/ Serve(r)
    \/ Quiescent

Spec == Init /\ [][Next]_vars

-----------------------------------------------------------------------------
(* Properties.                                                             *)

Text    == Seq(1 .. MaxPieces)
Message == [role : {"user", "assistant"}, from : Requests, text : Text]

\* Type correctness of the session, its contexts and its requests.
TypeOK ==
    /\ history \in Seq(Message)
    /\ model_ctx \in Requests \cup {None}
    /\ kv \in [Requests -> Seq(Message)]
    /\ n_past \in [Requests -> Nat]
    /\ pending \in Seq(Requests)
    /\ pc \in [Requests -> {"new", "queued", "ensure", "prompt", "gen", "decoded", "piece",
                            "finishing", "done"}]
    /\ client \in [Requests -> Seq(Message)]
    /\ messages \in [Requests -> Seq(Message)]
    /\ mc \in [Requests -> Requests \cup {None}]
    /\ final_text \in [Requests -> Text]
    /\ seen \in [Requests -> Text]
    /\ reason \in [Requests -> {"none", "stop", "length", "cancelled", "error"}]
    /\ cancelled \in [Requests -> BOOLEAN]
    /\ waiting \in (Requests \ Streaming) \cup {None}
    /\ talks \subseteq Seq(Message)
    /\ clean \in BOOLEAN

Generating(r) == pc[r] \in {"gen", "decoded", "piece"}

\* The cache a reply is generated from holds exactly the messages the client sent,
\* in turn after turn of appending deltas, for clients that go on from any of their
\* transcripts, as long as no request overlapped another, none was aborted after its
\* prefill, every decoded token had a piece to emit (LlamaEngine.cc:441), and no
\* context was rebuilt or lost under a history.
GeneratesFromClient ==
    \A r \in Requests : clean /\ Generating(r) => Front(kv[mc[r]]) = client[r]

\* The history is at all times the transcript of one request that ended with stop or
\* length: no aborted request and no mixture of two requests gets into it.
HistoryOfOneRequest ==
    history = <<>> \/ \E r \in Requests :
        /\ reason[r] \in {"stop", "length"} /\ pc[r] = "done"
        /\ history = Transcript(r, final_text[r])

\* A context is written by one request at a time, although auto-diff and
\* EnsureContext replace the session's context while a request still uses its own:
\* the last entry of the cache a request generates into is its own reply.
CacheNotShared ==
    \A r \in Requests : Generating(r) => Last(kv[mc[r]]).from = r

\* HttpGateway.cc:321, "only stop/length update the history, so that cancelled/error
\* do not pollute the session": an aborted request leaves nothing in the session's
\* context.
AbortLeavesNoTrace ==
    \A r \in Requests :
        pc[r] = "done" /\ reason[r] \in {"cancelled", "error"} /\ model_ctx # None =>
            \A p \in DOMAIN kv[model_ctx] : kv[model_ctx][p].from # r

\* LlamaEngine.cc:246, "several turns: prefill only this turn's messages": a request
\* that goes on from the last transcript of an idle session is reduced to its own
\* message.
OnlyThisTurn ==
    [][\A r, q \in Requests :
          /\ pc[r] = "new" /\ pc'[r] = "queued" /\ Unfinished = {}
          /\ history # <<>> /\ Last(history).from = q
          /\ client'[r] = Append(Transcript(q, seen[q]), User(r))
          => messages'[r] = <<User(r)>>]_vars

=============================================================================
