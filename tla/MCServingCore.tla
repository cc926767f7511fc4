--------------------------- MODULE MCServingCore ---------------------------
(***************************************************************************)
(* Small serving cores for TLC.                                            *)
(*                                                                         *)
(* "MC": three requests for one model, two of them streams of one session, *)
(* so that two drains compete for a model queue of length one, a session   *)
(* queue holds two requests and one request finds the model queue full.    *)
(*                                                                         *)
(* "Pair": a stream and a non-stream request of one session, with room for *)
(* one pending request, so that the second may find the session queue      *)
(* full; small enough for liveness.                                        *)
(*                                                                         *)
(* "Mixed": two streams of one session that name different models.         *)
(***************************************************************************)
EXTENDS ServingCore, TLC

CONSTANTS r1, r2, r3, s1, s2, m1, m2

MCRequests  == {r1, r2, r3}
MCStreaming == {r1, r2}
MCLeavers   == {r1, r3}
MCSessionOf == (r1 :> s1) @@ (r2 :> s1) @@ (r3 :> s2)
MCModelOf   == [r \in MCRequests |-> m1]
MCSymmetry  == Permutations(Workers)

PairRequests  == {r1, r2}
PairStreaming == {r1}
PairSessionOf == [r \in PairRequests |-> s1]
PairModelOf   == [r \in PairRequests |-> m1]

MixedModelOf  == (r1 :> m1) @@ (r2 :> m2)
=============================================================================
