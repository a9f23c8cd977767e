----------------------------- MODULE MCPokerOps -----------------------------
(* A small instance of PokerOps, with and without its console. *)
EXTENDS PokerOps, MCPokerTable

\* A host closes; players stay away; an administrator stops the table, which with
\* one player also restarts.
CloseScenes ==
    {Scene({"HOST"}, 2, 1),
     Scene({"SIT_OUT", "DISCONNECT", "TIMEOUT"}, 1, 1),
     Scene({"CONSOLE"}, 0, 1),
     [Scene({"CONSOLE"}, 1, 1) EXCEPT !.purse = [u \in Users |-> IF u = u1 THEN 1 ELSE 0]]}
=============================================================================
