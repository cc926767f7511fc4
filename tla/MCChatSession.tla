--------------------------- MODULE MCChatSession ---------------------------
(***************************************************************************)
(* Three requests of one session, streams and others, with replies of up   *)
(* to two pieces, one queue place, and a context that is rebuilt once two  *)
(* turns are in it.                                                        *)
(***************************************************************************)
EXTENDS ChatSession

CONSTANTS r1, r2, r3

MCRequests  == {r1, r2, r3}
MCStreaming == {r1, r2}
=============================================================================
