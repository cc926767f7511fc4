-------------------------- MODULE MCSessionManager --------------------------
(***************************************************************************)
(* Four requests of three sessions, two of them of one session, in a table *)
(* that holds two, with a collection that removes at most two.             *)
(***************************************************************************)
EXTENDS SessionManager

CONSTANTS r1, r2, r3, r4, i1, i2, i3

MCIdOf == (r1 :> i1) @@ (r2 :> i2) @@ (r3 :> i3) @@ (r4 :> i1)
=============================================================================
