--------------------------- MODULE MCUnitManager ---------------------------
(***************************************************************************)
(* Two sessions and a node that runs one task.  The first client registers *)
(* a unit of its own with the manager, sets one up on the node, asks it    *)
(* and drops it.  The second one is refused twice, sends an action nobody  *)
(* has, looks at a unit, asks one, sets one up while the first may still   *)
(* run, pauses and sends a message without a name; it may leave at any     *)
(* time.  Neither has to send its next message, they do not wait for       *)
(* answers, and they name any work id or none.  Five ports are enough for  *)
(* two units and one short of what three need: two units exist side by     *)
(* side, and a third meets a full list.                                    *)
(***************************************************************************)
EXTENDS UnitManager, TLC

CONSTANTS c1, c2

MCScript == (c1 :> <<"register", "setup", "inference", "exit">>) @@
            (c2 :> <<"garbled", "stranger", "unknown", "taskinfo", "inference", "setup", "pause",
                     "nameless">>)
=============================================================================
