------------------------- MODULE ChatSession_proofs -------------------------
(***************************************************************************)
(* Proofs about ChatSession, for every set of requests, streams or not,    *)
(* every queue length, reply length and context size.                      *)
(***************************************************************************)
EXTENDS ChatSession, SequenceTheorems, TLAPS

-----------------------------------------------------------------------------
(* The invariants.                                                         *)

\* The queue holds the accepted requests whose turn has not come, each once.
QueueInv ==
    /\ \A p, q \in DOMAIN pending : pending[p] = pending[q] => p = q
    /\ \A r \in Requests : pc[r] = "queued" <=> r \in Range(pending)

\* The request r has had its turn and is not over.
InService(r) == pc[r] \notin {"new", "queued", "done"}

\* One request is served at a time.
TurnInv == \A r, q \in Requests : InService(r) /\ InService(q) => r = q

\* From EnsureContext on a request has a context, and from its prefill on the
\* last entry there is its own reply, which holds the piece it just decoded.
CacheAt(r) ==
    /\ pc[r] = "prompt" \/ Generating(r) => mc[r] \in Requests
    /\ Generating(r) => kv[mc[r]] # <<>> /\ Last(kv[mc[r]]).from = r
    /\ pc[r] \in {"decoded", "piece"} => Pieces(r) # <<>>

CacheInv == \A r \in Requests : CacheAt(r)

\* A context no request has created is empty and nobody's.
FreshInv ==
    \A c \in Requests : pc[c] \in {"new", "queued", "ensure"} =>
        /\ kv[c] = <<>>
        /\ model_ctx # c
        /\ \A r \in Requests : mc[r] # c

\* The reply as the client gets it.
Spoken(r) == IF r \in Streaming THEN seen[r] ELSE final_text[r]

\* The reply is empty before the prefill.
ReplyInv ==
    \A r \in Requests : pc[r] \in {"new", "queued", "ensure", "prompt"} =>
        final_text[r] = <<>> /\ seen[r] = <<>>

\* Every reply in a transcript is one the client was given.
Faithful(t) ==
    \A i \in DOMAIN t : t[i].role = "assistant" =>
        /\ pc[t[i].from] \in {"finishing", "done"}
        /\ t[i].text = Spoken(t[i].from)

TalkInv ==
    /\ \A t \in talks : Faithful(t)
    /\ \A r \in Requests : Faithful(client[r])

\* What the session's context holds.
Cached == IF model_ctx = None THEN <<>> ELSE kv[model_ctx]

\* History and cache of a session none of whose requests is in the cache but not yet
\* in the history: both empty, or the same transcript but for the doubled pieces.
Settled ==
    \/ history = <<>> /\ Cached = <<>>
    \/ \E q \in Requests :
          /\ pc[q] = "done" /\ model_ctx # None
          /\ history = Transcript(q, final_text[q])
          /\ kv[model_ctx] = Transcript(q, Spoken(q))

\* r has not been put into the cache yet; r is over but its history is not updated.
Early(r)  == pc[r] \in {"queued", "ensure", "prompt"}
Ending(r) == pc[r] = "finishing" /\ reason[r] \in {"stop", "length"}

\* The pieces of the reply in the cache, against those that were given out.
InStep(r) ==
    IF pc[r] = "gen" THEN Pieces(r) = Spoken(r)
    ELSE Pieces(r) = Append(Spoken(r), Len(Spoken(r)) + 1)

\* What a clean session guarantees for the one request it has: its delta continues
\* the cache, then its reply does, and then the cache is its transcript.
CleanAt(r) ==
    /\ Early(r) => Cached \o messages[r] = client[r]
    /\ pc[r] = "prompt" => mc[r] = model_ctx
    /\ Generating(r) => /\ mc[r] = model_ctx
                        /\ kv[mc[r]] = Append(client[r], Reply(r, Pieces(r)))
                        /\ InStep(r)
    /\ Ending(r) => model_ctx # None /\ kv[model_ctx] = Transcript(r, Spoken(r))
    /\ ~Generating(r) /\ ~Ending(r) => Settled

CleanInv ==
    clean => /\ \A r, q \in Unfinished : r = q
             /\ \A r \in Unfinished : CleanAt(r)
             /\ Unfinished = {} => Settled

-----------------------------------------------------------------------------
(* Sequences and messages.                                                 *)

\* Appending to a sequence, and taking the last entry off again.
LEMMA AppendFacts ==
    ASSUME NEW S, NEW s \in Seq(S), NEW e \in S
    PROVE  /\ Append(s, e) \in Seq(S) /\ Append(s, e) # <<>>
           /\ Len(Append(s, e)) = Len(s) + 1
           /\ Front(Append(s, e)) = s /\ Last(Append(s, e)) = e
           /\ \A i \in 1 .. Len(s) : Append(s, e)[i] = s[i]
           /\ Append(s, e)[Len(s) + 1] = e
<1>. DEFINE a == Append(s, e)
<1>1. Len(s) \in Nat /\ DOMAIN s = 1 .. Len(s)
  BY LenProperties
<1>2. /\ a \in Seq(S) /\ a # <<>> /\ Len(a) = Len(s) + 1
      /\ \A i \in 1 .. Len(s) : a[i] = s[i]
      /\ a[Len(s) + 1] = e
  BY AppendProperties
<1>3. Last(a) = e
  BY <1>2 DEF Last
<1>4. Front(a) = s
  <2>1. \A i \in 1 .. Len(s) : a[i] \in S
    BY <1>2, ElementOfSeq
  <2>2. Front(a) = SubSeq(a, 1, Len(s))
    BY <1>1, <1>2 DEF Front
  <2>. HIDE DEF a
  <2>3. /\ SubSeq(a, 1, Len(s)) \in Seq(S)
        /\ Len(SubSeq(a, 1, Len(s))) = IF 1 <= Len(s) THEN Len(s) - 1 + 1 ELSE 0
        /\ \A i \in 1 .. Len(s) - 1 + 1 : SubSeq(a, 1, Len(s))[i] = a[1 + i - 1]
    BY <1>1, <2>1, SubSeqProperties
  <2>4. Len(SubSeq(a, 1, Len(s))) = Len(s)
    BY <1>1, <2>3
  <2>5. \A i \in 1 .. Len(s) : SubSeq(a, 1, Len(s))[i] = s[i]
    BY <1>1, <1>2, <2>3
  <2>. QED  BY <2>2, <2>3, <2>4, <2>5, SeqEqual
<1>. QED  BY <1>2, <1>3, <1>4

\* A sequence that is not empty is its front and its last entry.
LEMMA FrontFacts ==
    ASSUME NEW S, NEW s \in Seq(S), s # <<>>
    PROVE  /\ Front(s) \in Seq(S) /\ Last(s) \in S
           /\ s = Append(Front(s), Last(s))
<1>1. PICK u \in Seq(S), e \in S : s = Append(u, e)
  BY SequenceEmptyOrAppend
<1>. QED  BY <1>1, AppendFacts

\* The messages a client and an engine write.
LEMMA MessageFacts ==
    ASSUME NEW r \in Requests
    PROVE  /\ <<>> \in Text
           /\ User(r) \in Message /\ User(r).role = "user"
           /\ \A x \in Text : /\ Reply(r, x) \in Message /\ Reply(r, x).role = "assistant"
                             /\ Reply(r, x).from = r /\ Reply(r, x).text = x
  BY EmptySeq DEF Message, Text, User, Reply

\* What is left of a sequence after one of its prefixes.
LEMMA DiffFacts ==
    ASSUME NEW S, NEW h \in Seq(S), NEW t \in Seq(S)
    PROVE  /\ diff_messages(h, t) \in Seq(S)
           /\ is_prefix(h, t) => h \o diff_messages(h, t) = t
           /\ is_prefix(h, t) => Len(h) <= Len(t) /\ \A i \in 1 .. Len(h) : t[i] = h[i]
<1>. DEFINE m == Len(h)  n == Len(t)
<1>1. m \in Nat /\ n \in Nat
  BY LenProperties
<1>2. CASE ~is_prefix(h, t)
  BY <1>2 DEF diff_messages
<1>3. CASE is_prefix(h, t)
  <2>1. m <= n /\ SubSeq(h, 1, m) = SubSeq(t, 1, m)
    BY <1>3 DEF is_prefix, IsPrefix
  <2>2. SubSeq(h, 1, m) = h
    BY SubSeqFull
  <2>3. diff_messages(h, t) = SubSeq(t, m + 1, n)
    BY <1>3 DEF diff_messages
  <2>4. \A i \in 1 .. n : t[i] \in S
    BY ElementOfSeq
  <2>5. SubSeq(t, m + 1, n) \in Seq(S)
    <3>1. \A i \in m + 1 .. n : t[i] \in S
      BY <1>1, <2>4
    <3>. QED  BY <1>1, <3>1, SubSeqProperties
  <2>6. SubSeq(t, 1, m) \o SubSeq(t, m + 1, n) = SubSeq(t, 1, n)
    <3>1. 1 \in 1 .. n + 1 /\ m \in 1 - 1 .. n /\ n \in m .. n
      BY <1>1, <2>1
    <3>. QED  BY <3>1, ConcatAdjacentSubSeq
  <2>7. SubSeq(t, 1, n) = t
    BY SubSeqFull
  <2>8. \A i \in 1 .. m : SubSeq(t, 1, m)[i] = t[i]
    <3>1. \A i \in 1 .. m : t[i] \in S
      BY <1>1, <2>1, <2>4
    <3>2. \A i \in 1 .. m - 1 + 1 : SubSeq(t, 1, m)[i] = t[1 + i - 1]
      BY <1>1, <3>1, SubSeqProperties
    <3>. QED  BY <1>1, <3>2
  <2>. QED  BY <2>1, <2>2, <2>3, <2>5, <2>6, <2>7, <2>8
<1>. QED  BY <1>2, <1>3

\* An empty history leaves the whole transcript.
LEMMA DiffOfNothing ==
    ASSUME NEW S, NEW t \in Seq(S)
    PROVE  diff_messages(<<>>, t) = t
<1>1. Len(t) \in Nat /\ Len(<<>>) = 0
  BY LenProperties, EmptySeq
<1>2. CASE is_prefix(<<>>, t)
  <2>1. diff_messages(<<>>, t) = SubSeq(t, 1, Len(t))
    BY <1>1, <1>2 DEF diff_messages
  <2>. QED  BY <2>1, SubSeqFull
<1>3. CASE ~is_prefix(<<>>, t)
  BY <1>3 DEF diff_messages
<1>. QED  BY <1>2, <1>3

-----------------------------------------------------------------------------
(* Types, and what the cache of a request in service holds.                *)

\* The pieces of a request that generates.
LEMMA PiecesType ==
    ASSUME TypeOK, NEW r \in Requests, CacheAt(r), Generating(r)
    PROVE  /\ mc[r] \in Requests /\ kv[mc[r]] \in Seq(Message) /\ kv[mc[r]] # <<>>
           /\ Front(kv[mc[r]]) \in Seq(Message)
           /\ Last(kv[mc[r]]) \in Message
           /\ Pieces(r) \in Text /\ Len(Pieces(r)) \in Nat
<1>1. mc[r] \in Requests /\ kv[mc[r]] # <<>>
  BY DEF CacheAt
<1>2. kv[mc[r]] \in Seq(Message)
  BY <1>1 DEF TypeOK
<1>3. Front(kv[mc[r]]) \in Seq(Message) /\ Last(kv[mc[r]]) \in Message
  BY <1>1, <1>2, FrontFacts
<1>4. Pieces(r) \in Text
  BY <1>3 DEF Pieces, Message
<1>5. Len(Pieces(r)) \in Nat
  BY <1>4, LenProperties DEF Text
<1>. QED  BY <1>1, <1>2, <1>3, <1>4, <1>5

\* A transcript with a reply to it is a transcript.
LEMMA TranscriptType ==
    ASSUME TypeOK, NEW r \in Requests, NEW x \in Text
    PROVE  Transcript(r, x) \in Seq(Message)
<1>1. client[r] \in Seq(Message) /\ Reply(r, x) \in Message
  BY MessageFacts DEF TypeOK
<1>. QED  BY <1>1, AppendProperties DEF Transcript

\* EmitFinish keeps the types.
LEMMA FinishType ==
    ASSUME TypeOK, NEW r \in Requests, NEW why \in {"stop", "length", "cancelled", "error"},
           Finish(r, why)
    PROVE  /\ pc' \in [Requests -> {"new", "queued", "ensure", "prompt", "gen", "decoded",
                                    "piece", "finishing", "done"}]
           /\ reason' \in [Requests -> {"none", "stop", "length", "cancelled", "error"}]
           /\ talks' \subseteq Seq(Message)
<1>1. Transcript(r, seen[r]) \in Seq(Message)
  BY TranscriptType DEF TypeOK
<1>. QED  BY <1>1 DEF TypeOK, Finish, Goto

\* Type correctness is inductive, given what the caches hold.
LEMMA TypeStep ==
    ASSUME TypeOK, CacheInv, [Next]_vars
    PROVE  TypeOK'
<1>. USE ChatAssumption
<1>1. CASE UNCHANGED vars
  BY <1>1 DEF vars, TypeOK
<1>2. CASE Answer
  <2>1. waiting \in Requests /\ final_text[waiting] \in Text
    BY <1>2 DEF Answer, TypeOK
  <2>2. Transcript(waiting, final_text[waiting]) \in Seq(Message)
    BY <2>1, TranscriptType
  <2>3. talks' \subseteq Seq(Message)
    BY <1>2, <2>2 DEF Answer, TypeOK
  <2>4. seen' \in [Requests -> Text]
    BY <1>2, <2>1 DEF Answer, TypeOK
  <2>. QED  BY <1>2, <2>3, <2>4 DEF Answer, TypeOK, sessionVars, cacheVars
<1>3. ASSUME NEW r \in Requests, ChatRequest(r) PROVE TypeOK'
  <2>1. PICK t \in talks : /\ client' = [client EXCEPT ![r] = Append(t, User(r))]
                           /\ AutoDiff(r, Append(t, User(r)))
    BY <1>3 DEF ChatRequest
  <2>2. Append(t, User(r)) \in Seq(Message)
    <3>1. t \in Seq(Message) /\ User(r) \in Message
      BY <2>1, MessageFacts DEF TypeOK
    <3>. QED  BY <3>1, AppendProperties
  <2>3. client' \in [Requests -> Seq(Message)]
    BY <2>1, <2>2 DEF TypeOK
  <2>4. diff_messages(history, Append(t, User(r))) \in Seq(Message)
    BY <2>2, DiffFacts DEF TypeOK
  <2>5. /\ messages' \in [Requests -> Seq(Message)]
        /\ history' \in Seq(Message)
        /\ model_ctx' \in Requests \cup {None}
        /\ clean' \in BOOLEAN
    <3>1. CASE history = <<>> \/ is_prefix(history, Append(t, User(r)))
      <4>1. /\ messages' = [messages EXCEPT ![r] = diff_messages(history, Append(t, User(r)))]
            /\ UNCHANGED <<history, model_ctx>> /\ clean' = (clean /\ Unfinished = {})
        BY <2>1, <3>1 DEF AutoDiff, sessionVars
      <4>. HIDE DEF diff_messages
      <4>. QED  BY <2>4, <4>1 DEF TypeOK
    <3>2. CASE ~(history = <<>> \/ is_prefix(history, Append(t, User(r))))
      <4>1. <<>> \in Seq(Message)
        BY EmptySeq
      <4>2. /\ messages' = [messages EXCEPT ![r] = Append(t, User(r))]
            /\ history' = <<>> /\ model_ctx' = None /\ clean' = (Unfinished = {})
        BY <2>1, <3>2 DEF AutoDiff
      <4>. QED  BY <2>2, <4>1, <4>2 DEF TypeOK
    <3>. QED  BY <3>1, <3>2
  <2>6. /\ pending' \in Seq(Requests)
        /\ waiting' \in (Requests \ Streaming) \cup {None}
    <3>1. Append(pending, r) \in Seq(Requests)
      BY AppendProperties DEF TypeOK
    <3>. QED  BY <1>3, <3>1 DEF ChatRequest, TypeOK, Waits
  <2>7. /\ pc' \in [Requests -> {"new", "queued", "ensure", "prompt", "gen", "decoded",
                                  "piece", "finishing", "done"}]
        /\ reason' \in [Requests -> {"none", "stop", "length", "cancelled", "error"}]
    BY <1>3 DEF ChatRequest, TypeOK, Goto
  <2>8. UNCHANGED <<kv, n_past, mc, final_text, seen, cancelled, talks>>
    BY <1>3 DEF ChatRequest, cacheVars
  <2>. QED  BY <2>3, <2>5, <2>6, <2>7, <2>8 DEF TypeOK
<1>4. ASSUME NEW r \in Requests, OnClose(r) PROVE TypeOK'
  BY <1>4 DEF OnClose, TypeOK, sessionVars, cacheVars
<1>5. ASSUME NEW r \in Requests, Begin(r) PROVE TypeOK'
  <2>1. pending' \in Seq(Requests)
    BY <1>5, HeadTailProperties DEF Begin, TypeOK
  <2>. QED  BY <1>5, <2>1 DEF Begin, Goto, TypeOK, sessionVars, cacheVars, reqVars
<1>6. ASSUME NEW r \in Requests, Stop(r) PROVE TypeOK'
  <2>1. PICK why \in {"stop", "length", "cancelled", "error"} : Finish(r, why)
    BY <1>6 DEF Stop
  <2>. HIDE DEF Finish
  <2>. QED  BY <1>6, <2>1, FinishType DEF Stop, TypeOK, sessionVars, cacheVars
<1>7. ASSUME NEW r \in Requests, EnsureContext(r) PROVE TypeOK'
  <2>1. model_ctx' \in Requests \cup {None}
    BY <1>7 DEF EnsureContext, TypeOK, Usable
  <2>2. mc' \in [Requests -> Requests \cup {None}] /\ clean' \in BOOLEAN
    BY <1>7, <2>1 DEF EnsureContext, TypeOK
  <2>. QED  BY <1>7, <2>1, <2>2 DEF EnsureContext, Goto, TypeOK, cacheVars
<1>8. ASSUME NEW r \in Requests, EnsureFails(r) PROVE TypeOK'
  <2>1. Finish(r, "error")
    BY <1>8 DEF EnsureFails
  <2>2. clean' \in BOOLEAN
    BY <1>8 DEF EnsureFails, TypeOK
  <2>. HIDE DEF Finish
  <2>. QED  BY <1>8, <2>1, <2>2, FinishType DEF EnsureFails, TypeOK, cacheVars
<1>9. ASSUME NEW r \in Requests, Prefill(r) PROVE TypeOK'
  <2>1. mc[r] \in Requests
    BY <1>9 DEF CacheInv, CacheAt, Prefill
  <2>2. Len(messages[r]) \in Nat
    BY LenProperties DEF TypeOK
  <2>3. Reply(r, <<>>) \in Message /\ <<Reply(r, <<>>)>> \in Seq(Message)
    BY MessageFacts, EmptySeq
  <2>4. (kv[mc[r]] \o messages[r]) \o <<Reply(r, <<>>)>> \in Seq(Message)
    <3>1. kv[mc[r]] \in Seq(Message) /\ messages[r] \in Seq(Message)
      BY <2>1 DEF TypeOK
    <3>. QED  BY <2>3, <3>1, ConcatProperties
  <2>5. kv' = [kv EXCEPT ![mc[r]] = (kv[mc[r]] \o messages[r]) \o <<Reply(r, <<>>)>>]
    BY <1>9 DEF Prefill
  <2>6. kv' \in [Requests -> Seq(Message)]
    BY <2>1, <2>4, <2>5 DEF TypeOK
  <2>7. n_past' \in [Requests -> Nat]
    BY <1>9, <2>1, <2>2 DEF Prefill, TypeOK
  <2>. QED  BY <1>9, <2>6, <2>7 DEF Prefill, Goto, TypeOK, sessionVars, reqVars
<1>10. ASSUME NEW r \in Requests, Decode(r) PROVE TypeOK'
  <2>. DEFINE n == Len(Pieces(r))
              x == Append(Pieces(r), n + 1)
              k == Append(Front(kv[mc[r]]), Reply(r, x))
  <2>1. CacheAt(r) /\ Generating(r)
    BY <1>10 DEF CacheInv, Decode, Generating
  <2>2. mc[r] \in Requests /\ Pieces(r) \in Text /\ n \in Nat /\ n < MaxPieces
    BY <1>10, <2>1, PiecesType DEF Decode
  <2>3. x \in Text
    <3>1. n + 1 \in 1 .. MaxPieces
      BY <2>2
    <3>. QED  BY <2>2, <3>1, AppendProperties DEF Text
  <2>4. k \in Seq(Message)
    <3>1. Front(kv[mc[r]]) \in Seq(Message) /\ Reply(r, x) \in Message
      BY <2>1, <2>3, PiecesType, MessageFacts
    <3>. QED  BY <3>1, AppendProperties
  <2>5. kv' = [kv EXCEPT ![mc[r]] = k]
    BY <1>10 DEF Decode
  <2>. HIDE DEF k
  <2>6. kv' \in [Requests -> Seq(Message)]
    BY <2>2, <2>4, <2>5 DEF TypeOK
  <2>7. n_past' \in [Requests -> Nat]
    <3>1. n_past' = [n_past EXCEPT ![mc[r]] = @ + 1] /\ n_past \in [Requests -> Nat]
      BY <1>10 DEF Decode, TypeOK
    <3>. QED  BY <2>2, <3>1
  <2>8. pc' \in [Requests -> {"new", "queued", "ensure", "prompt", "gen", "decoded", "piece",
                              "finishing", "done"}]
    BY <1>10 DEF Decode, Goto, TypeOK
  <2>9. UNCHANGED <<sessionVars, pending, reqVars, waiting, talks, clean>>
    BY <1>10 DEF Decode
  <2>. QED  BY <2>6, <2>7, <2>8, <2>9 DEF TypeOK, sessionVars, reqVars
<1>11. ASSUME NEW r \in Requests, Decoded(r) PROVE TypeOK'
  BY <1>11 DEF Decoded, Goto, TypeOK, sessionVars, cacheVars, reqVars
<1>12. ASSUME NEW r \in Requests, EmitDelta(r) PROVE TypeOK'
  <2>. DEFINE x == Last(Pieces(r))
  <2>1. CacheAt(r) /\ Generating(r) /\ Pieces(r) # <<>>
    BY <1>12 DEF CacheInv, CacheAt, EmitDelta, Generating
  <2>2. x \in 1 .. MaxPieces
    BY <2>1, PiecesType, FrontFacts DEF Text
  <2>3. /\ <<x, x>> \in Text /\ <<x>> \in Text
        /\ final_text[r] \in Text /\ seen[r] \in Text
    BY <2>2 DEF Text, TypeOK
  <2>4. /\ final_text[r] \o <<x, x>> \in Text /\ final_text[r] \o <<x>> \in Text
        /\ Append(seen[r], x) \in Text
    BY <2>2, <2>3, ConcatProperties, AppendProperties DEF Text
  <2>5. CASE clean' = FALSE /\ UNCHANGED <<final_text, seen>>
    BY <1>12, <2>5 DEF EmitDelta, Goto, TypeOK, sessionVars, cacheVars
  <2>6. CASE ~(clean' = FALSE /\ UNCHANGED <<final_text, seen>>)
    <3>1. /\ final_text' = [final_text EXCEPT ![r] =
                               final_text[r] \o IF r \in Streaming THEN <<x, x>> ELSE <<x>>]
          /\ seen' = [seen EXCEPT ![r] = IF r \in Streaming THEN Append(seen[r], x) ELSE seen[r]]
          /\ UNCHANGED clean
      BY <1>12, <2>6 DEF EmitDelta
    <3>. HIDE DEF x
    <3>2. final_text' \in [Requests -> Text] /\ seen' \in [Requests -> Text]
      BY <2>3, <2>4, <3>1 DEF TypeOK
    <3>. QED  BY <1>12, <3>1, <3>2 DEF EmitDelta, Goto, TypeOK, sessionVars, cacheVars
  <2>. QED  BY <2>5, <2>6
<1>13. ASSUME NEW r \in Requests, Complete(r) PROVE TypeOK'
  <2>1. PICK why \in {"stop", "length", "cancelled", "error"} : Finish(r, why)
    BY <1>13 DEF Complete
  <2>. QED  BY <1>13, <2>1, FinishType DEF Complete, TypeOK, sessionVars, cacheVars
<1>14. ASSUME NEW r \in Requests, EngineError(r) PROVE TypeOK'
  <2>1. Finish(r, "error") /\ clean' \in BOOLEAN
    BY <1>14 DEF EngineError, TypeOK
  <2>. QED  BY <1>14, <2>1, FinishType DEF EngineError, TypeOK, sessionVars, cacheVars
<1>15. ASSUME NEW r \in Requests, OnFinish(r) PROVE TypeOK'
  <2>1. Transcript(r, final_text[r]) \in Seq(Message)
    BY TranscriptType DEF TypeOK
  <2>. QED  BY <1>15, <2>1 DEF OnFinish, Goto, TypeOK, cacheVars, reqVars
<1>. QED
  BY <1>1, <1>2, <1>3, <1>4, <1>5, <1>6, <1>7, <1>8, <1>9, <1>10, <1>11, <1>12, <1>13, <1>14,
     <1>15 DEF Next, Serve, Quiescent

\* Every step of a request that is in service, and of no other.
LEMMA ServedOnly ==
    ASSUME TypeOK, TurnInv, NEW r \in Requests, InService(r), NEW l, Goto(r, l)
    PROVE  /\ pc'[r] = l
           /\ \A q \in Requests \ {r} : ~InService(q) /\ pc'[q] = pc[q]
  BY DEF TypeOK, TurnInv, Goto

\* The queue, and the turns.
LEMMA QueueStep ==
    ASSUME TypeOK, QueueInv, TurnInv, [Next]_vars
    PROVE  QueueInv' /\ TurnInv'
<1>0. Len(pending) \in Nat /\ DOMAIN pending = 1 .. Len(pending)
  BY LenProperties DEF TypeOK
<1>1. ASSUME UNCHANGED <<pending, pc>> PROVE QueueInv' /\ TurnInv'
  BY <1>1 DEF QueueInv, TurnInv, InService
<1>2. ASSUME NEW r \in Requests, NEW l, InService(r), l # "new", l # "queued",
             Goto(r, l), UNCHANGED pending
      PROVE  QueueInv' /\ TurnInv'
  <2>1. QueueInv'
    BY <1>2 DEF QueueInv, Goto, InService, TypeOK
  <2>2. TurnInv'
    BY <1>2, ServedOnly DEF TurnInv, InService
  <2>. QED  BY <2>1, <2>2
<1>3. ASSUME NEW r \in Requests, ChatRequest(r) PROVE QueueInv' /\ TurnInv'
  <2>1. pc[r] = "new" /\ r \notin Range(pending)
    BY <1>3 DEF ChatRequest, QueueInv
  <2>2. CASE Len(pending) >= MaxPending
    <3>1. UNCHANGED pending /\ Goto(r, "done")
      BY <1>3, <2>2 DEF ChatRequest
    <3>2. \A q \in Requests : pc'[q] = IF q = r THEN "done" ELSE pc[q]
      BY <3>1 DEF Goto, TypeOK
    <3>3. QueueInv'
      BY <2>1, <3>1, <3>2 DEF QueueInv
    <3>4. TurnInv'
      BY <2>1, <3>2 DEF TurnInv, InService
    <3>. QED  BY <3>3, <3>4
  <2>3. CASE ~(Len(pending) >= MaxPending)
    <3>1. pending' = Append(pending, r) /\ Goto(r, "queued")
      BY <1>3, <2>3 DEF ChatRequest
    <3>2. /\ pending' \in Seq(Requests)
          /\ Len(pending') = Len(pending) + 1
          /\ \A i \in 1 .. Len(pending) : pending'[i] = pending[i]
          /\ pending'[Len(pending) + 1] = r
      BY <3>1, AppendProperties DEF TypeOK
    <3>3. DOMAIN pending' = 1 .. Len(pending) + 1
      BY <3>2, LenProperties
    <3>4. \A p \in DOMAIN pending : pending[p] # r
      BY <2>1 DEF Range
    <3>5. \A p, q \in DOMAIN pending' : pending'[p] = pending'[q] => p = q
      BY <1>0, <3>2, <3>3, <3>4 DEF QueueInv
    <3>6. Range(pending') = Range(pending) \cup {r}
      BY <1>0, <3>2, <3>3 DEF Range
    <3>7. \A q \in Requests : pc'[q] = IF q = r THEN "queued" ELSE pc[q]
      BY <3>1 DEF Goto, TypeOK
    <3>8. QueueInv'
      BY <3>5, <3>6, <3>7 DEF QueueInv
    <3>9. TurnInv'
      BY <3>7 DEF TurnInv, InService
    <3>. QED  BY <3>8, <3>9
  <2>. QED  BY <2>2, <2>3
<1>4. ASSUME NEW r \in Requests, Begin(r) PROVE QueueInv' /\ TurnInv'
  <2>1. /\ pending # <<>> /\ r = Head(pending) /\ pending' = Tail(pending)
        /\ Unfinished \subseteq Range(pending) /\ Goto(r, "ensure")
    BY <1>4 DEF Begin
  <2>2. /\ pending' \in Seq(Requests) /\ Len(pending') = Len(pending) - 1
        /\ \A i \in 1 .. Len(pending') : pending'[i] = pending[i + 1]
    BY <2>1, HeadTailProperties DEF TypeOK
  <2>3. DOMAIN pending' = 1 .. Len(pending) - 1
    BY <2>2, LenProperties
  <2>4. r = pending[1] /\ 1 \in DOMAIN pending
    BY <1>0, <2>1, EmptySeq DEF TypeOK
  <2>5. ASSUME NEW p \in DOMAIN pending', NEW q \in DOMAIN pending', pending'[p] = pending'[q]
        PROVE  p = q
    <3>1. /\ p + 1 \in DOMAIN pending /\ q + 1 \in DOMAIN pending
          /\ pending[p + 1] = pending[q + 1]
      BY <1>0, <2>2, <2>3, <2>5
    <3>2. p + 1 = q + 1
      BY <3>1 DEF QueueInv
    <3>. QED  BY <2>3, <3>2
  <2>6. Range(pending') = Range(pending) \ {r}
    <3>1. \A x : x \in Range(pending') => x \in Range(pending) /\ x # r
      BY <1>0, <2>2, <2>3, <2>4 DEF Range, QueueInv
    <3>2. \A x : x \in Range(pending) /\ x # r => x \in Range(pending')
      <4>. SUFFICES ASSUME NEW p \in DOMAIN pending, pending[p] # r
                    PROVE  pending[p] \in Range(pending')
        BY DEF Range
      <4>1. p - 1 \in DOMAIN pending' /\ pending'[p - 1] = pending[p]
        BY <1>0, <2>2, <2>3, <2>4
      <4>. QED  BY <4>1 DEF Range
    <3>. QED  BY <3>1, <3>2
  <2>7. \A q \in Requests : pc'[q] = IF q = r THEN "ensure" ELSE pc[q]
    BY <2>1 DEF Goto, TypeOK
  <2>8. QueueInv'
    BY <2>5, <2>6, <2>7 DEF QueueInv
  <2>9. \A q \in Requests : ~InService(q)
    BY <2>1 DEF Unfinished, InService, QueueInv
  <2>10. TurnInv'
    BY <2>7, <2>9 DEF TurnInv, InService
  <2>. QED  BY <2>8, <2>10
<1>5. CASE Answer
  BY <1>5, <1>1 DEF Answer
<1>6. ASSUME NEW r \in Requests, OnClose(r) PROVE QueueInv' /\ TurnInv'
  BY <1>6, <1>1 DEF OnClose
<1>7. ASSUME NEW r \in Requests, Serve(r), ~Begin(r) PROVE QueueInv' /\ TurnInv'
  <2>1. InService(r) /\ UNCHANGED pending
    BY <1>7 DEF Serve, Stop, EnsureContext, EnsureFails, Prefill, Decode, Decoded, EmitDelta,
                Complete, EngineError, OnFinish, InService
  <2>2. PICK l : l # "new" /\ l # "queued" /\ Goto(r, l)
    BY <1>7 DEF Serve, Stop, EnsureContext, EnsureFails, Prefill, Decode, Decoded, EmitDelta,
                Complete, EngineError, OnFinish, Finish
  <2>. QED  BY <2>1, <2>2, <1>2
<1>8. CASE UNCHANGED vars
  BY <1>8, <1>1 DEF vars
<1>. QED  BY <1>3, <1>4, <1>5, <1>6, <1>7, <1>8 DEF Next, Serve, Quiescent

\* The cache the prefill writes.
LEMMA PrefillFacts ==
    ASSUME TypeOK, CacheInv, NEW r \in Requests, Prefill(r)
    PROVE  /\ mc[r] \in Requests
           /\ kv[mc[r]] \o messages[r] \in Seq(Message)
           /\ kv' = [kv EXCEPT ![mc[r]] = Append(kv[mc[r]] \o messages[r], Reply(r, <<>>))]
           /\ Reply(r, <<>>) \in Message
<1>1. mc[r] \in Requests
  BY DEF CacheInv, CacheAt, Prefill
<1>2. Reply(r, <<>>) \in Message
  BY MessageFacts
<1>3. kv[mc[r]] \o messages[r] \in Seq(Message)
  BY <1>1, ConcatProperties DEF TypeOK
<1>4. Append(kv[mc[r]] \o messages[r], Reply(r, <<>>))
        = (kv[mc[r]] \o messages[r]) \o <<Reply(r, <<>>)>>
  BY <1>2, <1>3, AppendIsConcat
<1>5. kv' = [kv EXCEPT ![mc[r]] = (kv[mc[r]] \o messages[r]) \o <<Reply(r, <<>>)>>]
  BY DEF Prefill
<1>. QED  BY <1>1, <1>2, <1>3, <1>4, <1>5

\* The cache llama_decode writes.
LEMMA DecodeFacts ==
    ASSUME TypeOK, CacheInv, NEW r \in Requests, Decode(r),
           NEW x, x = Append(Pieces(r), Len(Pieces(r)) + 1)
    PROVE  /\ mc[r] \in Requests
           /\ Pieces(r) \in Text /\ x \in Text /\ x # <<>>
           /\ Front(kv[mc[r]]) \in Seq(Message)
           /\ kv' = [kv EXCEPT ![mc[r]] = Append(Front(kv[mc[r]]), Reply(r, x))]
           /\ Reply(r, x) \in Message
<1>1. CacheAt(r) /\ Generating(r)
  BY DEF CacheInv, Decode, Generating
<1>2. /\ mc[r] \in Requests /\ Pieces(r) \in Text /\ Len(Pieces(r)) \in Nat
      /\ Len(Pieces(r)) < MaxPieces /\ Front(kv[mc[r]]) \in Seq(Message)
  BY <1>1, PiecesType DEF Decode
<1>3. x \in Text /\ x # <<>>
  <2>1. Len(Pieces(r)) + 1 \in 1 .. MaxPieces
    BY <1>2, ChatAssumption
  <2>. QED  BY <1>2, <2>1, AppendProperties DEF Text
<1>4. Reply(r, x) \in Message
  BY <1>3, MessageFacts
<1>5. kv' = [kv EXCEPT ![mc[r]] = Append(Front(kv[mc[r]]), Reply(r, x))]
  BY DEF Decode
<1>. QED  BY <1>2, <1>3, <1>4, <1>5

\* What a request in service finds in its cache.
LEMMA CacheStep ==
    ASSUME TypeOK, TypeOK', TurnInv, CacheInv, [Next]_vars
    PROVE  CacheInv'
<1>1. ASSUME UNCHANGED <<kv, mc>>,
             \A q \in Requests : \/ pc'[q] = pc[q]
                                 \/ pc'[q] \notin {"prompt", "gen", "decoded", "piece"}
      PROVE  CacheInv'
  BY <1>1 DEF CacheInv, CacheAt, Generating, Pieces
<1>2. ASSUME NEW r \in Requests, NEW l, InService(r), Goto(r, l), CacheAt(r)' PROVE CacheInv'
  BY <1>2, ServedOnly DEF CacheInv, CacheAt, Generating, InService
<1>3. ASSUME NEW r \in Requests, ChatRequest(r) PROVE CacheInv'
  <2>1. PICK l \in {"done", "queued"} : Goto(r, l)
    BY <1>3 DEF ChatRequest
  <2>2. \A q \in Requests : pc'[q] = IF q = r THEN l ELSE pc[q]
    BY <2>1 DEF Goto, TypeOK
  <2>3. UNCHANGED <<kv, mc>>
    BY <1>3 DEF ChatRequest, cacheVars
  <2>. QED  BY <2>1, <2>2, <2>3, <1>1
<1>4. CASE Answer
  BY <1>4, <1>1 DEF Answer, cacheVars
<1>5. ASSUME NEW r \in Requests, OnClose(r) PROVE CacheInv'
  BY <1>5, <1>1 DEF OnClose, cacheVars
<1>6. ASSUME NEW r \in Requests,
             \/ Begin(r) \/ Stop(r) \/ EnsureFails(r) \/ Complete(r) \/ EngineError(r)
             \/ OnFinish(r)
      PROVE  CacheInv'
  <2>1. PICK l \in {"ensure", "finishing", "done"} : Goto(r, l)
    BY <1>6 DEF Begin, Stop, EnsureFails, Complete, EngineError, OnFinish, Finish
  <2>2. \A q \in Requests : pc'[q] = IF q = r THEN l ELSE pc[q]
    BY <2>1 DEF Goto, TypeOK
  <2>3. UNCHANGED <<kv, mc>>
    BY <1>6 DEF Begin, Stop, EnsureFails, Complete, EngineError, OnFinish, cacheVars, reqVars
  <2>. QED  BY <2>1, <2>2, <2>3, <1>1
<1>7. ASSUME NEW r \in Requests, EnsureContext(r) PROVE CacheInv'
  <2>1. InService(r) /\ Goto(r, "prompt") /\ pc'[r] = "prompt"
    BY <1>7 DEF EnsureContext, InService, Goto, TypeOK
  <2>2. mc'[r] = model_ctx' /\ model_ctx' \in Requests
    BY <1>7 DEF EnsureContext, Usable, TypeOK
  <2>3. CacheAt(r)'
    BY <2>1, <2>2 DEF CacheAt, Generating
  <2>. QED  BY <2>1, <2>3, <1>2
<1>8. ASSUME NEW r \in Requests, Prefill(r) PROVE CacheInv'
  <2>. DEFINE s == kv[mc[r]] \o messages[r]
              k == Append(s, Reply(r, <<>>))
  <2>1. InService(r) /\ Goto(r, "gen") /\ pc'[r] = "gen" /\ mc' = mc
    BY <1>8 DEF Prefill, InService, Goto, TypeOK, reqVars
  <2>2. mc[r] \in Requests /\ kv'[mc[r]] = k /\ s \in Seq(Message) /\ Reply(r, <<>>) \in Message
    BY <1>8, PrefillFacts DEF TypeOK
  <2>. HIDE DEF s
  <2>3. k # <<>> /\ Last(k) = Reply(r, <<>>)
    BY <2>2, AppendFacts
  <2>4. Last(k).from = r
    BY <2>3 DEF Reply
  <2>. HIDE DEF k
  <2>5. CacheAt(r)'
    BY <2>1, <2>2, <2>3, <2>4 DEF CacheAt, Generating
  <2>. QED  BY <2>1, <2>5, <1>2
<1>9. ASSUME NEW r \in Requests, Decode(r) PROVE CacheInv'
  <2>. DEFINE x == Append(Pieces(r), Len(Pieces(r)) + 1)
              s == Front(kv[mc[r]])
              k == Append(s, Reply(r, x))
  <2>1. InService(r) /\ Goto(r, "decoded") /\ pc'[r] = "decoded" /\ mc' = mc
    BY <1>9 DEF Decode, InService, Goto, TypeOK, reqVars
  <2>2. /\ mc[r] \in Requests /\ x \in Text /\ x # <<>> /\ s \in Seq(Message)
        /\ kv' = [kv EXCEPT ![mc[r]] = k] /\ Reply(r, x) \in Message
    BY <1>9, DecodeFacts
  <2>. HIDE DEF s, x
  <2>3. k # <<>> /\ Last(k) = Reply(r, x)
    BY <2>2, AppendFacts
  <2>4. Last(k).from = r /\ Last(k).text = x
    BY <2>3 DEF Reply
  <2>. HIDE DEF k
  <2>5. kv'[mc[r]] = k
    BY <2>2 DEF TypeOK
  <2>6. CacheAt(r)'
    BY <2>1, <2>2, <2>3, <2>4, <2>5 DEF CacheAt, Generating, Pieces
  <2>. QED  BY <2>1, <2>6, <1>2
<1>10. ASSUME NEW r \in Requests, Decoded(r) \/ EmitDelta(r) PROVE CacheInv'
  <2>1. PICK l \in {"piece", "gen"} : Goto(r, l) /\ (l = "piece" => pc[r] = "decoded")
    BY <1>10 DEF Decoded, EmitDelta
  <2>2. InService(r) /\ Generating(r) /\ UNCHANGED <<kv, mc>>
    BY <1>10 DEF Decoded, EmitDelta, InService, Generating, cacheVars, reqVars
  <2>3. pc'[r] = l
    BY <2>1 DEF Goto, TypeOK
  <2>4. CacheAt(r)'
    BY <2>1, <2>2, <2>3 DEF CacheInv, CacheAt, Generating, Pieces
  <2>. QED  BY <2>1, <2>2, <2>4, <1>2
<1>11. CASE UNCHANGED vars
  BY <1>11, <1>1 DEF vars
<1>. QED
  BY <1>3, <1>4, <1>5, <1>6, <1>7, <1>8, <1>9, <1>10, <1>11 DEF Next, Serve, Quiescent

\* The four together.
ServeInv == TypeOK /\ QueueInv /\ TurnInv /\ CacheInv

\* They hold together.
LEMMA ServeHolds == Spec => []ServeInv
<1>1. Init => ServeInv
  <2>. SUFFICES ASSUME Init PROVE ServeInv
    OBVIOUS
  <2>1. <<>> \in Seq(Message) /\ <<>> \in Text /\ <<>> \in Seq(Requests)
    BY EmptySeq DEF Text
  <2>2. TypeOK
    BY <2>1, ChatAssumption DEF Init, TypeOK
  <2>3. QueueInv
    BY DEF Init, QueueInv, Range
  <2>4. TurnInv /\ CacheInv
    BY DEF Init, TurnInv, InService, CacheInv, CacheAt, Generating
  <2>. QED  BY <2>2, <2>3, <2>4 DEF ServeInv
<1>2. ServeInv /\ [Next]_vars => ServeInv'
  BY TypeStep, QueueStep, CacheStep DEF ServeInv
<1>. QED  BY <1>1, <1>2, PTL DEF Spec

(***************************************************************************)
(* Type correctness: a request never looks for the pieces of its reply in  *)
(* a context it does not have or in an empty cache (LlamaEngine::Run), and *)
(* the loop thread waits for non-stream requests only.                     *)
(***************************************************************************)
THEOREM TypeCorrect == Spec => []TypeOK
<1>1. ServeInv => TypeOK
  BY DEF ServeInv
<1>. QED  BY <1>1, ServeHolds, PTL

(***************************************************************************)
(* A context is written by one request at a time, although the handlers    *)
(* and EnsureContext replace Session::model_ctx while a request still uses *)
(* its own: LlamaEngine's decode loop goes on in the context it was given. *)
(***************************************************************************)
THEOREM CacheUnshared == Spec => []CacheNotShared
<1>1. ServeInv => CacheNotShared
  BY DEF ServeInv, CacheInv, CacheAt, CacheNotShared
<1>. QED  BY <1>1, ServeHolds, PTL

-----------------------------------------------------------------------------
(* Requests that are over, and the history.                                *)

\* The request whose turn it is was queued.
LEMMA BeginsQueued ==
    ASSUME TypeOK, QueueInv, NEW r \in Requests, Begin(r)
    PROVE  pc[r] = "queued"
<1>1. 1 \in DOMAIN pending /\ r = pending[1]
  BY LenProperties, EmptySeq DEF Begin, TypeOK
<1>. QED  BY <1>1 DEF QueueInv, Range

\* What a request that is over leaves behind does not change any more.
LEMMA OverStays ==
    ASSUME TypeOK, QueueInv, [Next]_vars, NEW q \in Requests, pc[q] \in {"finishing", "done"}
    PROVE  /\ client'[q] = client[q] /\ final_text'[q] = final_text[q]
           /\ reason'[q] = reason[q] /\ Spoken(q)' = Spoken(q)
           /\ pc'[q] \in {pc[q], "done"}
<1>. DEFINE Good == /\ client'[q] = client[q] /\ final_text'[q] = final_text[q]
                    /\ reason'[q] = reason[q] /\ Spoken(q)' = Spoken(q)
                    /\ pc'[q] \in {pc[q], "done"}
<1>1. CASE UNCHANGED vars
  BY <1>1 DEF vars, Spoken
<1>2. CASE Answer
  <2>1. q \in Streaming => seen'[q] = seen[q]
    BY <1>2 DEF Answer, TypeOK
  <2>. QED  BY <1>2, <2>1 DEF Answer, Spoken
<1>3. ASSUME NEW r \in Requests, ChatRequest(r) PROVE Good
  <2>1. q # r
    BY <1>3 DEF ChatRequest
  <2>2. client'[q] = client[q] /\ UNCHANGED <<final_text, seen>>
    BY <1>3, <2>1 DEF ChatRequest, TypeOK
  <2>3. reason'[q] = reason[q] /\ pc'[q] = pc[q]
    BY <1>3, <2>1 DEF ChatRequest, Goto, TypeOK
  <2>. QED  BY <2>2, <2>3 DEF Spoken
<1>4. ASSUME NEW r \in Requests, OnClose(r) PROVE Good
  BY <1>4 DEF OnClose, Spoken
<1>5. ASSUME NEW r \in Requests, Begin(r) PROVE Good
  <2>1. q # r
    BY <1>5, BeginsQueued
  <2>. QED  BY <1>5, <2>1 DEF Begin, reqVars, Spoken, Goto, TypeOK
<1>6. ASSUME NEW r \in Requests, Stop(r) \/ EnsureFails(r) \/ Complete(r) \/ EngineError(r)
      PROVE  Good
  <2>1. q # r /\ UNCHANGED <<client, final_text, seen>>
    BY <1>6 DEF Stop, EnsureFails, Complete, EngineError
  <2>2. PICK why : Finish(r, why)
    BY <1>6 DEF Stop, EnsureFails, Complete, EngineError
  <2>3. reason'[q] = reason[q] /\ pc'[q] = pc[q]
    BY <2>1, <2>2 DEF Finish, Goto, TypeOK
  <2>. QED  BY <2>1, <2>3 DEF Spoken
<1>7. ASSUME NEW r \in Requests, EnsureContext(r) PROVE Good
  BY <1>7 DEF EnsureContext, Spoken, Goto, TypeOK
<1>8. ASSUME NEW r \in Requests, Prefill(r) \/ Decode(r) \/ Decoded(r) PROVE Good
  BY <1>8 DEF Prefill, Decode, Decoded, reqVars, Spoken, Goto, TypeOK
<1>9. ASSUME NEW r \in Requests, EmitDelta(r) PROVE Good
  <2>1. q # r
    BY <1>9 DEF EmitDelta
  <2>2. final_text'[q] = final_text[q] /\ seen'[q] = seen[q]
    <3>1. CASE UNCHANGED <<final_text, seen>>
      BY <3>1
    <3>2. CASE ~(UNCHANGED <<final_text, seen>>)
      BY <1>9, <2>1, <3>2 DEF EmitDelta, TypeOK
    <3>. QED  BY <3>1, <3>2
  <2>3. pc'[q] = pc[q] /\ UNCHANGED <<client, reason>>
    BY <1>9, <2>1 DEF EmitDelta, Goto, TypeOK
  <2>. QED  BY <2>2, <2>3 DEF Spoken
<1>10. ASSUME NEW r \in Requests, OnFinish(r) PROVE Good
  BY <1>10 DEF OnFinish, reqVars, Spoken, Goto, TypeOK
<1>. QED
  BY <1>1, <1>2, <1>3, <1>4, <1>5, <1>6, <1>7, <1>8, <1>9, <1>10 DEF Next, Serve, Quiescent

(***************************************************************************)
(* The history is at all times empty or the transcript of one request that *)
(* ended with stop or length (the gateway's on_finish): no aborted request *)
(* and no mixture of two gets into it, however arrivals reset it meanwhile.*)
(***************************************************************************)
THEOREM HistoryIsOneRequests == Spec => []HistoryOfOneRequest
<1>1. Init => HistoryOfOneRequest
  BY DEF Init, HistoryOfOneRequest
<1>2. ServeInv /\ HistoryOfOneRequest /\ [Next]_vars => HistoryOfOneRequest'
  <2>. SUFFICES ASSUME TypeOK, QueueInv, HistoryOfOneRequest, [Next]_vars
                PROVE  HistoryOfOneRequest'
    BY DEF ServeInv
  <2>1. CASE history' = <<>>
    BY <2>1 DEF HistoryOfOneRequest
  <2>2. CASE history' = history
    <3>1. CASE history = <<>>
      BY <2>2, <3>1 DEF HistoryOfOneRequest
    <3>2. CASE history # <<>>
      <4>1. PICK q \in Requests : /\ reason[q] \in {"stop", "length"} /\ pc[q] = "done"
                                  /\ history = Transcript(q, final_text[q])
        BY <3>2 DEF HistoryOfOneRequest
      <4>2. reason'[q] \in {"stop", "length"} /\ pc'[q] = "done"
        BY <4>1, OverStays
      <4>3. client'[q] = client[q] /\ final_text'[q] = final_text[q]
        BY <4>1, OverStays
      <4>. QED  BY <2>2, <4>1, <4>2, <4>3 DEF HistoryOfOneRequest, Transcript
    <3>. QED  BY <3>1, <3>2
  <2>3. ASSUME NEW r \in Requests, OnFinish(r), history' # history PROVE HistoryOfOneRequest'
    <3>1. /\ reason[r] \in {"stop", "length"} /\ history' = Transcript(r, final_text[r])
          /\ pc'[r] = "done" /\ UNCHANGED <<client, final_text, reason>>
      BY <2>3 DEF OnFinish, Goto, reqVars, TypeOK
    <3>. QED  BY <3>1 DEF HistoryOfOneRequest, Transcript
  <2>4. \/ history' = <<>> \/ history' = history
        \/ \E r \in Requests : OnFinish(r)
    <3>1. ASSUME NEW r \in Requests, ChatRequest(r) PROVE history' = <<>> \/ history' = history
      BY <3>1 DEF ChatRequest, AutoDiff, sessionVars
    <3>2. ASSUME NEW r \in Requests, Serve(r), ~OnFinish(r) PROVE history' = history
      BY <3>2 DEF Serve, Begin, Stop, EnsureContext, EnsureFails, Prefill, Decode, Decoded,
                  EmitDelta, Complete, EngineError, sessionVars
    <3>. QED  BY <3>1, <3>2 DEF Next, Answer, OnClose, Quiescent, vars, sessionVars
  <2>. QED  BY <2>1, <2>2, <2>3, <2>4
<1>. QED  BY <1>1, <1>2, ServeHolds, PTL DEF Spec

-----------------------------------------------------------------------------
(* Contexts, replies and transcripts.                                      *)

\* A request's place: where it was, or where its next step takes it.
LEMMA Onward ==
    ASSUME TypeOK, QueueInv, [Next]_vars, NEW q \in Requests
    PROVE  /\ pc'[q] \in {"new", "queued", "ensure"} => pc[q] \in {"new", "queued", "ensure"}
           /\ pc'[q] = "prompt" => pc[q] \in {"ensure", "prompt"}
<1>. DEFINE Good ==
       /\ pc'[q] \in {"new", "queued", "ensure"} => pc[q] \in {"new", "queued", "ensure"}
       /\ pc'[q] = "prompt" => pc[q] \in {"ensure", "prompt"}
<1>1. ASSUME NEW r \in Requests, ChatRequest(r) PROVE Good
  BY <1>1 DEF ChatRequest, Goto, TypeOK
<1>2. ASSUME NEW r \in Requests, Begin(r) PROVE Good
  BY <1>2, BeginsQueued DEF Begin, Goto, TypeOK
<1>3. ASSUME NEW r \in Requests, EnsureContext(r) PROVE Good
  BY <1>3 DEF EnsureContext, Goto, TypeOK
<1>4. ASSUME NEW r \in Requests, Serve(r), ~Begin(r), ~EnsureContext(r) PROVE Good
  <2>1. PICK l \in {"gen", "decoded", "piece", "finishing", "done"} : Goto(r, l)
    BY <1>4 DEF Serve, Stop, EnsureFails, Prefill, Decode, Decoded, EmitDelta, Complete,
                EngineError, OnFinish, Finish
  <2>. QED  BY <2>1 DEF Goto, TypeOK
<1>5. CASE Answer \/ UNCHANGED vars \/ \E r \in Requests : OnClose(r)
  BY <1>5 DEF Answer, OnClose, vars
<1>. QED  BY <1>1, <1>2, <1>3, <1>4, <1>5 DEF Next, Serve, Quiescent

\* A context that nobody has created stays empty.
LEMMA FreshStep ==
    ASSUME TypeOK, QueueInv, CacheInv, FreshInv, [Next]_vars
    PROVE  FreshInv'
<1>. SUFFICES ASSUME NEW c \in Requests, pc'[c] \in {"new", "queued", "ensure"}
              PROVE  kv'[c] = <<>> /\ model_ctx' # c /\ \A r \in Requests : mc'[r] # c
  BY DEF FreshInv
<1>1. /\ pc[c] \in {"new", "queued", "ensure"}
      /\ kv[c] = <<>> /\ model_ctx # c /\ \A r \in Requests : mc[r] # c
  BY Onward DEF FreshInv
<1>2. None # c
  BY ChatAssumption
<1>3. ASSUME NEW r \in Requests, EnsureContext(r)
      PROVE  kv'[c] = <<>> /\ model_ctx' # c /\ \A q \in Requests : mc'[q] # c
  <2>1. r # c
    BY <1>3 DEF EnsureContext, Goto, TypeOK
  <2>2. model_ctx' # c
    BY <1>1, <1>3, <2>1 DEF EnsureContext
  <2>3. \A q \in Requests : mc'[q] # c
    BY <1>1, <1>3, <2>2 DEF EnsureContext, TypeOK
  <2>. QED  BY <1>1, <1>3, <2>2, <2>3 DEF EnsureContext, cacheVars
<1>4. ASSUME NEW r \in Requests, Prefill(r)
      PROVE  kv'[c] = <<>> /\ UNCHANGED <<model_ctx, mc>>
  BY <1>1, <1>4, PrefillFacts DEF Prefill, sessionVars, reqVars, TypeOK
<1>5. ASSUME NEW r \in Requests, Decode(r)
      PROVE  kv'[c] = <<>> /\ UNCHANGED <<model_ctx, mc>>
  BY <1>1, <1>5, DecodeFacts DEF Decode, sessionVars, reqVars, TypeOK
<1>6. ASSUME NEW r \in Requests, Serve(r), ~EnsureContext(r), ~Prefill(r), ~Decode(r)
      PROVE  UNCHANGED <<kv, mc>> /\ model_ctx' \in {model_ctx, None}
  BY <1>6 DEF Serve, Begin, Stop, EnsureFails, Decoded, EmitDelta, Complete, EngineError,
              OnFinish, cacheVars, reqVars, sessionVars
<1>7. ASSUME NEW r \in Requests, ChatRequest(r)
      PROVE  UNCHANGED <<kv, mc>> /\ model_ctx' \in {model_ctx, None}
  BY <1>7 DEF ChatRequest, AutoDiff, sessionVars, cacheVars
<1>8. CASE Answer \/ UNCHANGED vars \/ \E r \in Requests : OnClose(r)
  BY <1>1, <1>8 DEF Answer, OnClose, vars, sessionVars, cacheVars
<1>. QED
  BY <1>1, <1>2, <1>3, <1>4, <1>5, <1>6, <1>7, <1>8 DEF Next, Serve, Quiescent

\* EmitDelta on the two copies of a reply.
LEMMA EmitFacts ==
    ASSUME TypeOK, CacheInv, NEW r \in Requests, EmitDelta(r), clean', NEW x,
           x = Last(Pieces(r))
    PROVE  /\ x \in 1 .. MaxPieces /\ Pieces(r) \in Text /\ Pieces(r) # <<>>
           /\ final_text' = [final_text EXCEPT ![r] = IF r \in Streaming
                                 THEN final_text[r] \o <<x, x>> ELSE Append(final_text[r], x)]
           /\ seen' = [seen EXCEPT ![r] = IF r \in Streaming THEN Append(seen[r], x) ELSE seen[r]]
           /\ UNCHANGED clean
<1>1. CacheAt(r) /\ Generating(r) /\ Pieces(r) # <<>>
  BY DEF CacheInv, CacheAt, EmitDelta, Generating
<1>2. x \in 1 .. MaxPieces /\ Pieces(r) \in Text
  BY <1>1, PiecesType, FrontFacts DEF Text
<1>3. Append(final_text[r], x) = final_text[r] \o <<x>>
  <2>1. final_text[r] \in Seq(1 .. MaxPieces)
    BY DEF TypeOK, Text
  <2>. QED  BY <1>2, <2>1, AppendIsConcat
<1>4. /\ final_text' = [final_text EXCEPT ![r] =
                            final_text[r] \o IF r \in Streaming THEN <<x, x>> ELSE <<x>>]
      /\ seen' = [seen EXCEPT ![r] = IF r \in Streaming THEN Append(seen[r], x) ELSE seen[r]]
      /\ UNCHANGED clean
  BY DEF EmitDelta
<1>. QED  BY <1>1, <1>2, <1>3, <1>4

\* Replies begin empty.
LEMMA ReplyStep ==
    ASSUME TypeOK, QueueInv, ReplyInv, [Next]_vars
    PROVE  ReplyInv'
<1>. SUFFICES ASSUME NEW q \in Requests, pc'[q] \in {"new", "queued", "ensure", "prompt"}
              PROVE  final_text'[q] = <<>> /\ seen'[q] = <<>>
  BY DEF ReplyInv
<1>1. pc[q] \in {"new", "queued", "ensure", "prompt"} /\ final_text[q] = <<>> /\ seen[q] = <<>>
  BY Onward DEF ReplyInv
<1>2. CASE Answer
  BY <1>1, <1>2 DEF Answer, TypeOK
<1>3. ASSUME NEW r \in Requests, EmitDelta(r) PROVE final_text'[q] = <<>> /\ seen'[q] = <<>>
  BY <1>1, <1>3 DEF EmitDelta, TypeOK
<1>4. \/ Answer \/ (\E r \in Requests : EmitDelta(r)) \/ UNCHANGED <<final_text, seen>>
  BY DEF Next, ChatRequest, OnClose, Serve, Begin, Stop, EnsureContext, EnsureFails, Prefill,
         Decode, Decoded, Complete, EngineError, OnFinish, Quiescent, vars, reqVars
<1>. QED  BY <1>1, <1>2, <1>3, <1>4

\* A transcript the client has stays what the client was given ...
LEMMA FaithfulStays ==
    ASSUME TypeOK, QueueInv, [Next]_vars, NEW t \in Seq(Message), Faithful(t)
    PROVE  Faithful(t)'
<1>. SUFFICES ASSUME NEW i \in DOMAIN t, t[i].role = "assistant"
              PROVE  /\ pc'[t[i].from] \in {"finishing", "done"}
                     /\ t[i].text = Spoken(t[i].from)'
  BY DEF Faithful
<1>1. t[i] \in Message
  BY LenProperties, ElementOfSeq
<1>2. PICK q \in Requests : q = t[i].from
  BY <1>1 DEF Message
<1>3. pc[q] \in {"finishing", "done"} /\ t[i].text = Spoken(q)
  BY <1>2 DEF Faithful
<1>4. pc'[q] \in {"finishing", "done"} /\ Spoken(q)' = Spoken(q)
  BY <1>3, OverStays
<1>. QED  BY <1>2, <1>3, <1>4

\* ... and so it does with one more message.
LEMMA FaithfulAppend ==
    ASSUME NEW t \in Seq(Message), Faithful(t)', NEW m \in Message, NEW q, q = m.from,
           m.role = "assistant" => pc'[q] \in {"finishing", "done"} /\ m.text = Spoken(q)'
    PROVE  Faithful(Append(t, m))'
<1>. DEFINE a == Append(t, m)
<1>1. Len(t) \in Nat /\ DOMAIN t = 1 .. Len(t)
  BY LenProperties
<1>2. /\ a \in Seq(Message) /\ Len(a) = Len(t) + 1
      /\ \A i \in 1 .. Len(t) : a[i] = t[i]
      /\ a[Len(t) + 1] = m
  BY AppendProperties
<1>3. DOMAIN a = 1 .. Len(t) + 1
  BY <1>2, LenProperties
<1>. HIDE DEF a
<1>4. SUFFICES ASSUME NEW i \in DOMAIN a, a[i].role = "assistant"
               PROVE  /\ pc'[a[i].from] \in {"finishing", "done"}
                      /\ a[i].text = Spoken(a[i].from)'
  BY DEF Faithful, a
<1>5. CASE i \in 1 .. Len(t)
  <2>1. a[i] = t[i] /\ i \in DOMAIN t
    BY <1>1, <1>2, <1>5
  <2>. QED  BY <1>4, <2>1 DEF Faithful
<1>6. CASE i = Len(t) + 1
  <2>1. a[i] = m
    BY <1>2, <1>6
  <2>. QED  BY <1>4, <2>1
<1>. QED  BY <1>1, <1>3, <1>4, <1>5, <1>6

\* The transcripts clients have and send hold the replies they were given.
LEMMA TalkStep ==
    ASSUME TypeOK, TypeOK', QueueInv, TalkInv, [Next]_vars
    PROVE  TalkInv'
<1>1. \A t \in talks : t \in Seq(Message) /\ Faithful(t)'
  BY FaithfulStays DEF TalkInv, TypeOK
<1>2. ASSUME NEW q \in Requests, client'[q] = client[q] PROVE Faithful(client[q])'
  <2>1. PICK t \in Seq(Message) : t = client[q]
    BY DEF TypeOK
  <2>2. Faithful(t)'
    BY <2>1, FaithfulStays DEF TalkInv
  <2>. QED  BY <1>2, <2>1, <2>2 DEF Faithful
<1>3. ASSUME client' = client, talks' = talks PROVE TalkInv'
  BY <1>1, <1>2, <1>3 DEF TalkInv
<1>4. ASSUME NEW r \in Requests, NEW x \in Text, x = Spoken(r)',
             pc'[r] \in {"finishing", "done"},
             client' = client, talks' \subseteq talks \cup {Transcript(r, x)}
      PROVE  TalkInv'
  <2>1. PICK t \in Seq(Message) : t = client[r]
    BY DEF TypeOK
  <2>2. Faithful(t)'
    BY <2>1, FaithfulStays DEF TalkInv
  <2>3. /\ Reply(r, x) \in Message /\ Reply(r, x).role = "assistant"
        /\ Reply(r, x).from = r /\ Reply(r, x).text = x
    BY MessageFacts
  <2>4. PICK m \in Message : m = Reply(r, x)
    BY <2>3
  <2>5. Faithful(Append(t, m))'
    BY <1>4, <2>2, <2>3, <2>4, FaithfulAppend
  <2>6. Transcript(r, x) = Append(t, m)
    BY <2>1, <2>4 DEF Transcript
  <2>7. \A u \in talks' : u \in talks \/ u = Append(t, m)
    BY <1>4, <2>6
  <2>8. \A u \in talks' : Faithful(u)'
    BY <1>1, <2>5, <2>7
  <2>. QED  BY <1>2, <1>4, <2>8 DEF TalkInv
<1>5. CASE Answer
  <2>1. waiting \in Requests /\ waiting \notin Streaming
    BY <1>5 DEF Answer, TypeOK
  <2>2. PICK r \in Requests : r = waiting
    BY <2>1
  <2>3. PICK x \in Text : x = final_text[r]
    BY DEF TypeOK
  <2>4. x = Spoken(r)' /\ pc'[r] \in {"finishing", "done"}
    BY <1>5, <2>1, <2>2, <2>3 DEF Answer, Spoken
  <2>5. client' = client /\ talks' \subseteq talks \cup {Transcript(r, x)}
    BY <1>5, <2>2, <2>3 DEF Answer
  <2>. QED  BY <2>4, <2>5, <1>4
<1>6. ASSUME NEW r \in Requests, Stop(r) \/ EnsureFails(r) \/ Complete(r) \/ EngineError(r)
      PROVE  TalkInv'
  <2>1. PICK why : Finish(r, why)
    BY <1>6 DEF Stop, EnsureFails, Complete, EngineError
  <2>2. pc'[r] = "finishing" /\ UNCHANGED <<client, seen, final_text>>
    BY <1>6, <2>1 DEF Stop, EnsureFails, Complete, EngineError, Finish, Goto, TypeOK
  <2>3. CASE r \in Streaming
    <3>1. PICK x \in Text : x = seen[r]
      BY DEF TypeOK
    <3>2. x = Spoken(r)'
      BY <2>2, <2>3, <3>1 DEF Spoken
    <3>3. talks' \subseteq talks \cup {Transcript(r, x)}
      BY <2>1, <3>1 DEF Finish
    <3>. QED  BY <2>2, <3>2, <3>3, <1>4
  <2>4. CASE r \notin Streaming
    BY <2>1, <2>2, <2>4, <1>3 DEF Finish
  <2>. QED  BY <2>3, <2>4
<1>7. ASSUME NEW r \in Requests, ChatRequest(r) PROVE TalkInv'
  <2>1. PICK t \in talks : client' = [client EXCEPT ![r] = Append(t, User(r))]
    BY <1>7 DEF ChatRequest
  <2>2. User(r) \in Message /\ User(r).role = "user"
    BY MessageFacts
  <2>3. PICK m \in Message : m = User(r)
    BY <2>2
  <2>4. Faithful(Append(t, m))'
    BY <1>1, <2>1, <2>2, <2>3, FaithfulAppend
  <2>5. client'[r] = Append(t, m) /\ \A q \in Requests \ {r} : client'[q] = client[q]
    BY <2>1, <2>3 DEF TypeOK
  <2>6. Faithful(client[r])'
    BY <2>4, <2>5 DEF Faithful
  <2>7. talks' = talks
    BY <1>7 DEF ChatRequest
  <2>. QED  BY <1>1, <1>2, <2>5, <2>6, <2>7 DEF TalkInv
<1>8. ASSUME NEW r \in Requests, Serve(r),
             ~Stop(r), ~EnsureFails(r), ~Complete(r), ~EngineError(r)
      PROVE  TalkInv'
  BY <1>8, <1>3 DEF Serve, Begin, EnsureContext, Prefill, Decode, Decoded, EmitDelta, OnFinish,
                    reqVars
<1>9. CASE UNCHANGED vars \/ \E r \in Requests : OnClose(r)
  BY <1>9, <1>3 DEF OnClose, vars
<1>. QED  BY <1>5, <1>6, <1>7, <1>8, <1>9 DEF Next, Quiescent

-----------------------------------------------------------------------------
(* A clean session: history, cache and the request in service.             *)

\* What a settled session has, it keeps.
LEMMA SettledStays ==
    ASSUME TypeOK, QueueInv, [Next]_vars, Settled, UNCHANGED <<history, model_ctx, kv>>
    PROVE  Settled'
<1>1. CASE history = <<>> /\ Cached = <<>>
  BY <1>1 DEF Settled, Cached
<1>2. ASSUME NEW q \in Requests, pc[q] = "done", model_ctx # None,
             history = Transcript(q, final_text[q]), kv[model_ctx] = Transcript(q, Spoken(q))
      PROVE  Settled'
  <2>1. /\ client'[q] = client[q] /\ final_text'[q] = final_text[q]
        /\ Spoken(q)' = Spoken(q) /\ pc'[q] = "done"
    BY <1>2, OverStays
  <2>2. Transcript(q, final_text[q])' = Transcript(q, final_text[q])
    BY <2>1 DEF Transcript
  <2>3. Transcript(q, Spoken(q))' = Transcript(q, Spoken(q))
    BY <2>1 DEF Transcript
  <2>. QED  BY <1>2, <2>1, <2>2, <2>3 DEF Settled
<1>. QED  BY <1>1, <1>2 DEF Settled

\* A transcript with a reply is not empty, so an empty history means an empty cache.
LEMMA SettledEmpty ==
    ASSUME TypeOK, Settled
    PROVE  /\ history = <<>> => Cached = <<>>
           /\ Cached = <<>> => history = <<>>
<1>1. ASSUME NEW q \in Requests, NEW x \in Text PROVE Transcript(q, x) # <<>>
  <2>1. client[q] \in Seq(Message) /\ Reply(q, x) \in Message
    BY MessageFacts DEF TypeOK
  <2>. QED  BY <2>1, AppendProperties DEF Transcript
<1>2. \A q \in Requests : final_text[q] \in Text /\ Spoken(q) \in Text
  BY DEF TypeOK, Spoken
<1>. QED  BY <1>1, <1>2 DEF Settled, Cached

\* A client that goes on from the history was given the very reply in it.
LEMMA PrefixAgrees ==
    ASSUME TypeOK, TalkInv, NEW q \in Requests, NEW r \in Requests, NEW t \in talks,
           is_prefix(Transcript(q, final_text[q]), Append(t, User(r)))
    PROVE  Spoken(q) = final_text[q]
<1>. DEFINE h == Transcript(q, final_text[q])
            m == Reply(q, final_text[q])
            a == Append(t, User(r))
            n == Len(client[q]) + 1
<1>1. /\ final_text[q] \in Text /\ seen[q] \in Text /\ client[q] \in Seq(Message)
      /\ t \in Seq(Message)
  BY DEF TypeOK
<1>2. /\ m \in Message /\ m.role = "assistant" /\ m.from = q /\ m.text = final_text[q]
      /\ User(r) \in Message /\ User(r).role = "user"
  BY <1>1, MessageFacts
<1>3. Len(client[q]) \in Nat /\ Len(t) \in Nat /\ DOMAIN t = 1 .. Len(t)
  BY <1>1, LenProperties
<1>4. h \in Seq(Message) /\ Len(h) = n /\ h[n] = m
  BY <1>1, <1>2, AppendProperties DEF Transcript
<1>5. /\ a \in Seq(Message) /\ Len(a) = Len(t) + 1
      /\ \A i \in 1 .. Len(t) : a[i] = t[i]
      /\ a[Len(t) + 1] = User(r)
  BY <1>1, <1>2, AppendProperties
<1>. HIDE DEF h, a, m
<1>6. Len(h) <= Len(a) /\ \A i \in 1 .. Len(h) : a[i] = h[i]
  <2>1. is_prefix(h, a)
    BY DEF h, a
  <2>. QED  BY <1>4, <1>5, <2>1, DiffFacts
<1>7. n \in 1 .. Len(t) + 1 /\ a[n] = m
  BY <1>3, <1>4, <1>5, <1>6
<1>8. n # Len(t) + 1
  BY <1>2, <1>5, <1>7
<1>9. n \in DOMAIN t /\ t[n] = m
  BY <1>3, <1>5, <1>7, <1>8
<1>10. m.text = Spoken(q)
  BY <1>2, <1>9 DEF TalkInv, Faithful
<1>. QED  BY <1>2, <1>10

\* The delta of an arriving request continues the cache.
LEMMA ArrivalContinues ==
    ASSUME TypeOK, TalkInv, Settled, NEW r \in Requests, NEW t \in talks,
           history = <<>> \/ is_prefix(history, Append(t, User(r)))
    PROVE  Cached \o diff_messages(history, Append(t, User(r))) = Append(t, User(r))
<1>1. Append(t, User(r)) \in Seq(Message)
  <2>1. t \in Seq(Message) /\ User(r) \in Message
    BY MessageFacts DEF TypeOK
  <2>. QED  BY <2>1, AppendProperties
<1>2. CASE history = <<>>
  <2>1. Cached = <<>>
    BY <1>2, SettledEmpty
  <2>2. diff_messages(history, Append(t, User(r))) = Append(t, User(r))
    BY <1>1, <1>2, DiffOfNothing
  <2>3. <<>> \o Append(t, User(r)) = Append(t, User(r))
    BY <1>1, ConcatEmptySeq
  <2>. QED  BY <2>1, <2>2, <2>3
<1>3. CASE history # <<>>
  <2>1. PICK q \in Requests : /\ model_ctx # None
                              /\ history = Transcript(q, final_text[q])
                              /\ kv[model_ctx] = Transcript(q, Spoken(q))
    BY <1>3 DEF Settled
  <2>2. is_prefix(history, Append(t, User(r)))
    BY <1>3
  <2>3. Spoken(q) = final_text[q]
    BY <2>1, <2>2, PrefixAgrees
  <2>4. Cached = history
    BY <2>1, <2>3 DEF Cached
  <2>5. history \in Seq(Message)
    BY DEF TypeOK
  <2>6. history \o diff_messages(history, Append(t, User(r))) = Append(t, User(r))
    BY <1>1, <2>2, <2>5, DiffFacts
  <2>. QED  BY <2>4, <2>6
<1>. QED  BY <1>2, <1>3

\* In a clean session a step of the unfinished request is the only one there is.
LEMMA SoleStep ==
    ASSUME TypeOK, clean, CleanInv, NEW r \in Requests, r \in Unfinished, NEW l, Goto(r, l)
    PROVE  /\ CleanAt(r) /\ pc'[r] = l
           /\ Unfinished' = IF l \in {"new", "done"} THEN {} ELSE {r}
<1>1. CleanAt(r) /\ \A q \in Requests \ {r} : pc[q] \in {"new", "done"}
  BY DEF CleanInv, Unfinished
<1>2. \A q \in Requests : pc'[q] = IF q = r THEN l ELSE pc[q]
  BY DEF Goto, TypeOK
<1>. QED  BY <1>1, <1>2 DEF Unfinished

\* The steps before the prefill, and the ends there.
LEMMA CleanBefore ==
    ASSUME TypeOK, QueueInv, FreshInv, CleanInv, [Next]_vars, clean',
           NEW r \in Requests,
           \/ Begin(r) \/ EnsureContext(r) \/ EnsureFails(r)
           \/ (pc[r] \in {"ensure", "prompt"} /\ (Stop(r) \/ EngineError(r)))
    PROVE  CleanInv'
<1>0. clean /\ r \in Unfinished /\ Early(r) /\ ~Generating(r) /\ ~Ending(r)
  <2>1. Begin(r) => pc[r] = "queued"
    BY BeginsQueued
  <2>. QED  BY <2>1 DEF Begin, EnsureContext, EnsureFails, Stop, EngineError, Unfinished, Early,
                        Generating, Ending
<1>1. CleanAt(r) /\ Settled /\ Cached \o messages[r] = client[r]
  BY <1>0 DEF CleanInv, CleanAt
<1>2. ASSUME CleanAt(r)', Unfinished' = {r} PROVE CleanInv'
  BY <1>2 DEF CleanInv
<1>3. CASE Begin(r)
  <2>1. Goto(r, "ensure") /\ UNCHANGED <<history, model_ctx, kv, messages, client>>
    BY <1>3 DEF Begin, sessionVars, cacheVars, reqVars
  <2>2. pc'[r] = "ensure" /\ Unfinished' = {r}
    BY <1>0, <2>1, SoleStep
  <2>3. Settled'
    BY <1>1, <2>1, SettledStays
  <2>4. CleanAt(r)'
    BY <1>1, <2>1, <2>2, <2>3 DEF CleanAt, Early, Generating, Ending, Cached
  <2>. QED  BY <2>2, <2>4, <1>2
<1>4. CASE EnsureContext(r)
  <2>1. /\ Goto(r, "prompt") /\ UNCHANGED <<history, kv, messages, client>>
        /\ model_ctx' = (IF Usable THEN model_ctx ELSE r) /\ mc'[r] = model_ctx'
        /\ Usable \/ messages[r] = client[r]
    BY <1>4 DEF EnsureContext, cacheVars, TypeOK
  <2>2. pc'[r] = "prompt" /\ Unfinished' = {r}
    BY <1>0, <2>1, SoleStep
  <2>3. Settled' /\ Cached' = Cached
    <3>1. CASE Usable
      BY <1>1, <2>1, <3>1, SettledStays DEF Cached
    <3>2. CASE ~Usable
      <4>1. messages[r] \in Seq(Message) /\ Cached \in Seq(Message)
        BY EmptySeq DEF TypeOK, Cached
      <4>2. Cached = <<>>
        BY <1>1, <2>1, <3>2, <4>1, ConcatEqualIffEmpty
      <4>3. history = <<>>
        BY <1>1, <4>2, SettledEmpty
      <4>4. model_ctx' = r /\ kv[r] = <<>> /\ r # None
        BY <1>4, <2>1, <3>2, ChatAssumption DEF FreshInv, EnsureContext
      <4>5. Cached' = <<>>
        BY <2>1, <4>4 DEF Cached
      <4>. QED  BY <2>1, <4>2, <4>3, <4>5 DEF Settled
    <3>. QED  BY <3>1, <3>2
  <2>4. CleanAt(r)'
    BY <1>1, <2>1, <2>2, <2>3 DEF CleanAt, Early, Generating, Ending
  <2>. QED  BY <2>2, <2>4, <1>2
<1>5. CASE EnsureFails(r)
  <2>1. /\ history = <<>> /\ Finish(r, "error") /\ model_ctx' = None /\ history' = history
    BY <1>5 DEF EnsureFails
  <2>2. Goto(r, "finishing") /\ reason'[r] = "error"
    BY <2>1 DEF Finish, TypeOK
  <2>3. pc'[r] = "finishing" /\ Unfinished' = {r}
    BY <1>0, <2>2, SoleStep
  <2>4. Settled'
    BY <2>1 DEF Settled, Cached
  <2>5. CleanAt(r)'
    BY <2>2, <2>3, <2>4 DEF CleanAt, Early, Generating, Ending
  <2>. QED  BY <2>3, <2>5, <1>2
<1>6. CASE pc[r] \in {"ensure", "prompt"} /\ (Stop(r) \/ EngineError(r))
  <2>1. PICK why \in {"cancelled", "error"} : Finish(r, why)
    BY <1>6 DEF Stop, EngineError
  <2>2. Goto(r, "finishing") /\ reason'[r] = why
    BY <2>1 DEF Finish, TypeOK
  <2>3. pc'[r] = "finishing" /\ Unfinished' = {r}
    BY <1>0, <2>2, SoleStep
  <2>4. UNCHANGED <<history, model_ctx, kv>>
    BY <1>6 DEF Stop, EngineError, sessionVars, cacheVars
  <2>5. Settled'
    BY <1>1, <2>4, SettledStays
  <2>6. CleanAt(r)'
    BY <2>1, <2>2, <2>3, <2>5 DEF CleanAt, Early, Generating, Ending
  <2>. QED  BY <2>3, <2>6, <1>2
<1>. QED  BY <1>3, <1>4, <1>5, <1>6

\* Prefill and generation.
LEMMA CleanDuring ==
    ASSUME TypeOK, CacheInv, ReplyInv, CleanInv, clean', NEW r \in Requests,
           Prefill(r) \/ Decode(r) \/ Decoded(r) \/ EmitDelta(r)
    PROVE  CleanInv'
<1>0. clean /\ r \in Unfinished
  BY DEF Prefill, Decode, Decoded, EmitDelta, Unfinished
<1>1. client' = client /\ model_ctx' = model_ctx /\ mc' = mc
  BY DEF Prefill, Decode, Decoded, EmitDelta, sessionVars, reqVars
<1>2. /\ client[r] \in Seq(Message) /\ Spoken(r) \in Seq(1 .. MaxPieces)
      /\ final_text[r] \in Text /\ seen[r] \in Text
  BY DEF TypeOK, Text, Spoken
<1>3. ASSUME NEW l \in {"gen", "decoded", "piece"}, Goto(r, l), NEW x \in Text,
             mc[r] = model_ctx, kv'[mc[r]] = Append(client[r], Reply(r, x)),
             IF l = "gen" THEN x = Spoken(r)' ELSE x = Append(Spoken(r)', Len(Spoken(r)') + 1)
      PROVE  CleanInv'
  <2>1. pc'[r] = l /\ Unfinished' = {r}
    BY <1>0, <1>3, SoleStep
  <2>2. Reply(r, x) \in Message /\ Reply(r, x).text = x
    BY MessageFacts
  <2>3. Last(Append(client[r], Reply(r, x))) = Reply(r, x)
    BY <1>2, <2>2, AppendFacts
  <2>4. Pieces(r)' = x
    BY <1>1, <1>3, <2>2, <2>3 DEF Pieces
  <2>5. InStep(r)'
    BY <1>3, <2>1, <2>4 DEF InStep
  <2>6. kv'[mc'[r]] = Append(client'[r], Reply(r, Pieces(r)'))
    BY <1>1, <1>3, <2>4
  <2>7. CleanAt(r)'
    BY <1>1, <1>3, <2>1, <2>5, <2>6 DEF CleanAt, Early, Generating, Ending, Reply
  <2>. QED  BY <2>1, <2>7 DEF CleanInv
<1>4. CASE Prefill(r)
  <2>1. Goto(r, "gen") /\ UNCHANGED <<final_text, seen>>
    BY <1>4 DEF Prefill, reqVars
  <2>2. CleanAt(r)
    BY <1>0, <2>1, SoleStep
  <2>3. mc[r] = model_ctx /\ Cached \o messages[r] = client[r]
    BY <1>4, <2>2 DEF CleanAt, Prefill, Early
  <2>4. /\ mc[r] \in Requests
        /\ kv' = [kv EXCEPT ![mc[r]] = Append(kv[mc[r]] \o messages[r], Reply(r, <<>>))]
    BY <1>4, PrefillFacts
  <2>5. Cached = kv[mc[r]]
    BY <2>3, <2>4, ChatAssumption DEF Cached
  <2>6. kv'[mc[r]] = Append(client[r], Reply(r, <<>>))
    BY <2>3, <2>4, <2>5 DEF TypeOK
  <2>7. Spoken(r)' = <<>> /\ <<>> \in Text
    BY <1>4, <2>1, EmptySeq DEF ReplyInv, Prefill, Spoken, Text
  <2>. QED  BY <2>1, <2>3, <2>6, <2>7, <1>3
<1>5. ASSUME Decode(r) \/ Decoded(r) \/ EmitDelta(r)
      PROVE  /\ CacheAt(r) /\ Generating(r) /\ mc[r] = model_ctx /\ mc[r] \in Requests
             /\ Pieces(r) \in Text /\ InStep(r)
             /\ kv[mc[r]] = Append(client[r], Reply(r, Pieces(r)))
             /\ Front(kv[mc[r]]) = client[r]
  <2>1. CacheAt(r) /\ Generating(r)
    BY <1>5 DEF CacheInv, Decode, Decoded, EmitDelta, Generating
  <2>2. CleanAt(r)
    BY <1>0 DEF CleanInv
  <2>3. /\ mc[r] = model_ctx /\ InStep(r)
        /\ kv[mc[r]] = Append(client[r], Reply(r, Pieces(r)))
    BY <2>1, <2>2 DEF CleanAt
  <2>4. mc[r] \in Requests /\ Pieces(r) \in Text
    BY <2>1, PiecesType
  <2>5. Reply(r, Pieces(r)) \in Message
    BY <2>4, MessageFacts
  <2>6. Front(Append(client[r], Reply(r, Pieces(r)))) = client[r]
    BY <1>2, <2>5, AppendFacts
  <2>. QED  BY <2>1, <2>3, <2>4, <2>6
<1>6. CASE Decode(r)
  <2>1. PICK x : x = Append(Pieces(r), Len(Pieces(r)) + 1)
    OBVIOUS
  <2>2. /\ x \in Text /\ mc[r] \in Requests
        /\ kv' = [kv EXCEPT ![mc[r]] = Append(Front(kv[mc[r]]), Reply(r, x))]
    BY <1>6, <2>1, DecodeFacts
  <2>3. kv'[mc[r]] = Append(client[r], Reply(r, x))
    BY <1>5, <1>6, <2>2 DEF TypeOK
  <2>4. Goto(r, "decoded") /\ UNCHANGED <<final_text, seen>> /\ pc[r] = "gen"
    BY <1>6 DEF Decode, reqVars
  <2>5. Spoken(r)' = Spoken(r) /\ Pieces(r) = Spoken(r)
    BY <1>5, <1>6, <2>4 DEF Spoken, InStep
  <2>. QED  BY <1>5, <1>6, <2>1, <2>2, <2>3, <2>4, <2>5, <1>3
<1>7. CASE Decoded(r)
  <2>1. PICK x \in Text : x = Pieces(r)
    BY <1>5, <1>7
  <2>2. Goto(r, "piece") /\ UNCHANGED <<kv, final_text, seen>> /\ pc[r] = "decoded"
    BY <1>7 DEF Decoded, cacheVars, reqVars
  <2>3. Spoken(r)' = Spoken(r) /\ x = Append(Spoken(r), Len(Spoken(r)) + 1)
    BY <1>5, <1>7, <2>1, <2>2 DEF Spoken, InStep
  <2>4. kv'[mc[r]] = Append(client[r], Reply(r, x))
    BY <1>5, <1>7, <2>1, <2>2
  <2>. QED  BY <1>5, <1>7, <2>2, <2>3, <2>4, <1>3
<1>8. CASE EmitDelta(r)
  <2>1. PICK x \in Text : x = Pieces(r)
    BY <1>5, <1>8
  <2>2. Goto(r, "gen") /\ UNCHANGED kv /\ pc[r] = "piece"
    BY <1>8 DEF EmitDelta, cacheVars
  <2>3. PICK n : n = Len(Spoken(r)) + 1
    OBVIOUS
  <2>4. x = Append(Spoken(r), n)
    BY <1>5, <1>8, <2>1, <2>2, <2>3 DEF InStep
  <2>5. PICK y : y = Last(Pieces(r))
    OBVIOUS
  <2>6. /\ y \in 1 .. MaxPieces
        /\ final_text' = [final_text EXCEPT ![r] = IF r \in Streaming
                              THEN final_text[r] \o <<y, y>> ELSE Append(final_text[r], y)]
        /\ seen' = [seen EXCEPT ![r] = IF r \in Streaming THEN Append(seen[r], y) ELSE seen[r]]
    BY <1>8, <2>5, EmitFacts
  <2>7. Spoken(r)' = Append(Spoken(r), y)
    BY <2>6 DEF Spoken, TypeOK
  <2>8. y = n
    <3>1. Len(Spoken(r)) \in Nat
      BY <1>2, LenProperties
    <3>2. Spoken(r) \in Seq(Nat) /\ n \in Nat
      <4>1. 1 .. MaxPieces \subseteq Nat
        BY ChatAssumption
      <4>2. Spoken(r) \in Seq(Nat)
        BY <1>2, <4>1, SeqMonotonic
      <4>. QED  BY <2>3, <3>1, <4>2
    <3>3. Last(Append(Spoken(r), n)) = n
      BY <3>2, AppendFacts
    <3>. QED  BY <2>1, <2>4, <2>5, <3>3
  <2>9. x = Spoken(r)'
    BY <2>4, <2>7, <2>8
  <2>10. kv'[mc[r]] = Append(client[r], Reply(r, x))
    BY <1>5, <1>8, <2>1, <2>2
  <2>. QED  BY <1>5, <1>8, <2>2, <2>9, <2>10, <1>3
<1>. QED  BY <1>4, <1>6, <1>7, <1>8

\* The end of a reply, and the update of the history.
LEMMA CleanAfter ==
    ASSUME TypeOK, QueueInv, CacheInv, CleanInv, [Next]_vars, clean', NEW r \in Requests,
           Complete(r) \/ OnFinish(r)
    PROVE  CleanInv'
<1>0. clean /\ r \in Unfinished /\ UNCHANGED <<client, final_text, seen, model_ctx, kv>>
  BY DEF Complete, OnFinish, Unfinished, sessionVars, cacheVars, reqVars
<1>1. CASE Complete(r)
  <2>1. PICK why \in {"stop", "length"} : Finish(r, why)
    BY <1>1 DEF Complete
  <2>2. Goto(r, "finishing") /\ reason'[r] = why
    BY <2>1 DEF Finish, TypeOK
  <2>3. pc'[r] = "finishing" /\ Unfinished' = {r} /\ CleanAt(r)
    BY <1>0, <2>2, SoleStep
  <2>4. Generating(r) /\ pc[r] = "gen" /\ mc[r] \in Requests
    BY <1>1 DEF Complete, Generating, CacheInv, CacheAt
  <2>5. /\ mc[r] = model_ctx /\ kv[mc[r]] = Append(client[r], Reply(r, Pieces(r)))
        /\ Pieces(r) = Spoken(r)
    BY <2>3, <2>4 DEF CleanAt, InStep
  <2>6. model_ctx' # None /\ kv'[model_ctx'] = Transcript(r, Spoken(r))'
    BY <1>0, <2>4, <2>5, ChatAssumption DEF Transcript, Spoken, Reply
  <2>7. CleanAt(r)'
    BY <2>1, <2>2, <2>3, <2>6 DEF CleanAt, Early, Generating, Ending
  <2>. QED  BY <2>3, <2>7 DEF CleanInv
<1>2. CASE OnFinish(r)
  <2>1. Goto(r, "done") /\ pc[r] = "finishing"
    BY <1>2 DEF OnFinish
  <2>2. pc'[r] = "done" /\ Unfinished' = {} /\ CleanAt(r)
    BY <1>0, <2>1, SoleStep
  <2>3. CASE Ending(r)
    <3>1. model_ctx # None /\ kv[model_ctx] = Transcript(r, Spoken(r))
      BY <2>2, <2>3 DEF CleanAt
    <3>2. history' = Transcript(r, final_text[r])
      BY <1>2, <2>3 DEF OnFinish, Ending
    <3>3. /\ Transcript(r, final_text[r])' = Transcript(r, final_text[r])
          /\ Transcript(r, Spoken(r))' = Transcript(r, Spoken(r))
      BY <1>0 DEF Transcript, Spoken
    <3>4. Settled'
      BY <1>0, <2>2, <3>1, <3>2, <3>3 DEF Settled
    <3>. QED  BY <2>2, <3>4 DEF CleanInv
  <2>4. CASE ~Ending(r)
    <3>1. Settled
      BY <2>1, <2>2, <2>4 DEF CleanAt, Generating
    <3>2. history' = history
      BY <1>2, <2>1, <2>4 DEF OnFinish, Ending
    <3>3. Settled'
      BY <1>0, <3>1, <3>2, SettledStays
    <3>. QED  BY <2>2, <3>3 DEF CleanInv
  <2>. QED  BY <2>3, <2>4
<1>. QED  BY <1>1, <1>2

\* An arrival that leaves the session clean finds it idle.
LEMMA CleanArrival ==
    ASSUME TypeOK, QueueInv, TalkInv, CleanInv, [Next]_vars, clean', NEW r \in Requests,
           ChatRequest(r)
    PROVE  CleanInv'
<1>1. PICK t \in talks : /\ client' = [client EXCEPT ![r] = Append(t, User(r))]
                         /\ AutoDiff(r, Append(t, User(r)))
  BY DEF ChatRequest
<1>2. Unfinished = {}
  BY <1>1 DEF AutoDiff
<1>3. Goto(r, "queued")
  <2>1. \A q \in Requests : pc[q] \in {"new", "done"}
    BY <1>2 DEF Unfinished
  <2>2. \A p \in DOMAIN pending : pending[p] \in Requests
    BY LenProperties, ElementOfSeq DEF TypeOK
  <2>3. DOMAIN pending = {}
    BY <2>1, <2>2 DEF QueueInv, Range
  <2>4. Len(pending) = 0
    <3>1. Len(pending) \in Nat /\ DOMAIN pending = 1 .. Len(pending)
      BY LenProperties DEF TypeOK
    <3>. QED  BY <2>3, <3>1
  <2>. QED  BY <2>4, ChatAssumption DEF ChatRequest
<1>4. pc'[r] = "queued" /\ Unfinished' = {r}
  BY <1>2, <1>3 DEF Goto, TypeOK, Unfinished
<1>5. client'[r] = Append(t, User(r)) /\ kv' = kv
  BY <1>1 DEF ChatRequest, cacheVars, TypeOK
<1>6. Append(t, User(r)) \in Seq(Message)
  <2>1. t \in Seq(Message) /\ User(r) \in Message
    BY MessageFacts DEF TypeOK
  <2>. QED  BY <2>1, AppendProperties
<1>7. Settled' /\ Cached' \o messages'[r] = client'[r]
  <2>1. CASE history = <<>> \/ is_prefix(history, Append(t, User(r)))
    <3>1. /\ messages'[r] = diff_messages(history, Append(t, User(r)))
          /\ UNCHANGED <<history, model_ctx>> /\ clean
      BY <1>1, <2>1 DEF AutoDiff, sessionVars, TypeOK
    <3>2. Settled
      BY <1>2, <3>1 DEF CleanInv
    <3>3. Settled'
      BY <1>5, <3>1, <3>2, SettledStays
    <3>4. Cached \o diff_messages(history, Append(t, User(r))) = Append(t, User(r))
      BY <1>1, <2>1, <3>2, ArrivalContinues
    <3>5. Cached' = Cached
      BY <1>5, <3>1 DEF Cached
    <3>. QED  BY <1>5, <3>1, <3>3, <3>4, <3>5
  <2>2. CASE ~(history = <<>> \/ is_prefix(history, Append(t, User(r))))
    <3>1. messages'[r] = Append(t, User(r)) /\ history' = <<>> /\ model_ctx' = None
      BY <1>1, <2>2 DEF AutoDiff, TypeOK
    <3>2. Cached' = <<>>
      BY <3>1 DEF Cached
    <3>3. <<>> \o Append(t, User(r)) = Append(t, User(r))
      BY <1>6, ConcatEmptySeq
    <3>. QED  BY <1>5, <3>1, <3>2, <3>3 DEF Settled
  <2>. QED  BY <2>1, <2>2
<1>8. CleanAt(r)'
  BY <1>4, <1>7 DEF CleanAt, Early, Generating, Ending
<1>. QED  BY <1>4, <1>8 DEF CleanInv

\* Steps that touch neither the session nor a request's place.
LEMMA CleanQuiet ==
    ASSUME CleanInv,
           UNCHANGED <<history, model_ctx, kv, pc, client, messages, mc, final_text, reason, clean>>,
           \A q \in Requests : Spoken(q)' = Spoken(q)
    PROVE  CleanInv'
<1>1. Unfinished' = Unfinished /\ Cached' = Cached
  BY DEF Unfinished, Cached
<1>2. Settled => Settled'
  BY <1>1 DEF Settled, Transcript
<1>3. ASSUME NEW r \in Requests, CleanAt(r) PROVE CleanAt(r)'
  <2>1. Transcript(r, Spoken(r))' = Transcript(r, Spoken(r))
    BY DEF Transcript
  <2>2. InStep(r)' = InStep(r) /\ Pieces(r)' = Pieces(r)
    BY DEF InStep, Pieces
  <2>. QED  BY <1>1, <1>2, <1>3, <2>1, <2>2 DEF CleanAt, Early, Generating, Ending, Reply
<1>. QED  BY <1>1, <1>2, <1>3 DEF CleanInv, Unfinished

\* All steps.
LEMMA CleanStep ==
    ASSUME ServeInv, FreshInv, ReplyInv, TalkInv, CleanInv, [Next]_vars
    PROVE  CleanInv'
<1>. USE DEF ServeInv
<1>1. CASE ~clean'
  BY <1>1 DEF CleanInv
<1>2. CASE clean'
  <2>1. ASSUME NEW r \in Requests, ChatRequest(r) PROVE CleanInv'
    BY <1>2, <2>1, CleanArrival
  <2>2. ASSUME NEW r \in Requests, Begin(r) \/ EnsureContext(r) \/ EnsureFails(r) PROVE CleanInv'
    BY <1>2, <2>2, CleanBefore
  <2>3. ASSUME NEW r \in Requests, Stop(r) \/ EngineError(r) PROVE CleanInv'
    <3>1. pc[r] \in {"ensure", "prompt"}
      BY <1>2, <2>3 DEF Stop, EngineError
    <3>. QED  BY <1>2, <2>3, <3>1, CleanBefore
  <2>4. ASSUME NEW r \in Requests, Prefill(r) \/ Decode(r) \/ Decoded(r) \/ EmitDelta(r)
        PROVE  CleanInv'
    BY <1>2, <2>4, CleanDuring
  <2>5. ASSUME NEW r \in Requests, Complete(r) \/ OnFinish(r) PROVE CleanInv'
    BY <1>2, <2>5, CleanAfter
  <2>6. ASSUME NEW r \in Requests, OnClose(r) PROVE CleanInv'
    BY <2>6, CleanQuiet DEF OnClose, sessionVars, cacheVars, Spoken
  <2>7. CASE Answer
    <3>1. \A q \in Requests : Spoken(q)' = Spoken(q)
      BY <2>7 DEF Answer, Spoken, TypeOK
    <3>. QED  BY <2>7, <3>1, CleanQuiet DEF Answer, sessionVars, cacheVars
  <2>8. CASE UNCHANGED vars
    BY <2>8, CleanQuiet DEF vars, Spoken
  <2>. QED
    BY <2>1, <2>2, <2>3, <2>4, <2>5, <2>6, <2>7, <2>8 DEF Next, Serve, Quiescent
<1>. QED  BY <1>1, <1>2

(***************************************************************************)
(* In a clean session the cache a reply is generated from holds exactly    *)
(* the messages the client sent, whatever transcript the client goes on    *)
(* from: auto-diff's delta, appended to what the context already holds, is *)
(* the client's transcript, turn after turn.  A stream's history holds its *)
(* pieces twice; is_prefix holds of it only where that makes no difference.*)
(***************************************************************************)
THEOREM RepliesToClient == Spec => []GeneratesFromClient
<1>. DEFINE Inv == FreshInv /\ ReplyInv /\ TalkInv /\ CleanInv
<1>1. Init => Inv
  <2>. SUFFICES ASSUME Init PROVE Inv
    OBVIOUS
  <2>1. FreshInv /\ ReplyInv
    BY ChatAssumption DEF Init, FreshInv, ReplyInv
  <2>2. TalkInv
    BY DEF Init, TalkInv, Faithful
  <2>3. Settled /\ Unfinished = {}
    BY DEF Init, Settled, Cached, Unfinished
  <2>4. CleanInv
    BY <2>3 DEF CleanInv
  <2>. QED  BY <2>1, <2>2, <2>4
<1>2. ServeInv /\ ServeInv' /\ Inv /\ [Next]_vars => Inv'
  <2>. SUFFICES ASSUME ServeInv, ServeInv', Inv, [Next]_vars PROVE Inv'
    OBVIOUS
  <2>1. FreshInv' /\ ReplyInv' /\ TalkInv'
    BY FreshStep, ReplyStep, TalkStep DEF ServeInv
  <2>2. CleanInv'
    BY CleanStep
  <2>. QED  BY <2>1, <2>2
<1>3. ServeInv /\ Inv => GeneratesFromClient
  <2>. SUFFICES ASSUME ServeInv, Inv, NEW r \in Requests, clean, Generating(r)
                PROVE  Front(kv[mc[r]]) = client[r]
    BY DEF GeneratesFromClient
  <2>1. CleanAt(r)
    BY DEF CleanInv, Unfinished, Generating
  <2>2. kv[mc[r]] = Append(client[r], Reply(r, Pieces(r)))
    BY <2>1 DEF CleanAt
  <2>3. client[r] \in Seq(Message) /\ Reply(r, Pieces(r)) \in Message
    <3>1. Pieces(r) \in Text
      BY PiecesType DEF ServeInv, CacheInv
    <3>. QED  BY <3>1, MessageFacts DEF ServeInv, TypeOK
  <2>. QED  BY <2>2, <2>3, AppendFacts
<1>. QED  BY <1>1, <1>2, <1>3, ServeHolds, PTL DEF Spec
=============================================================================
