---------------------------- MODULE MCHttpServer ----------------------------
(***************************************************************************)
(* A client that sends a stream request, in two pieces, and on the same    *)
(* connection a non-stream one, at any time.                               *)
(***************************************************************************)
EXTENDS HttpServer

CONSTANTS c1, q1, q2

MCKind  == (q1 :> "stream") @@ (q2 :> "plain")
MCInput == c1 :> <<[req |-> q1, head |-> TRUE], [req |-> q1, head |-> FALSE],
                   [req |-> q2, head |-> TRUE]>>
MCText  == (q1 :> <<"l2", "c">>) @@ (q2 :> <<>>)

\* The writer's splitting against its reference, for every text of up to four
\* bytes in two deltas.
ASSUME SplitAgrees ==
    \A n \in 0..4 : \A s \in [1..n -> Byte] : \A k \in 0..n :
        LET u == split_utf8_prefix(SubSeq(s, 1, k))
            v == split_utf8_prefix(u.rest \o SubSeq(s, k + 1, n))
        IN  u.prefix \o v.prefix = Visible(s)
=============================================================================
