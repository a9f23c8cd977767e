--------------------------- MODULE MCPokerTable ---------------------------
(* Small instances of PokerTable. *)
EXTENDS PokerTable, TLC

CONSTANTS u1, u2, u3

Two == {u1, u2}
Three == {u1, u2, u3}
Interchangeable == Permutations(Three)

\* Everybody brings the same.
Scene(commands, restarts, chips) ==
    [commands |-> commands, crashes |-> restarts, purse |-> [u \in Users |-> chips],
     seats |-> Seats]

\* Two of the players, at two of the seats.
PairScene(commands, restarts, chips) ==
    [commands |-> commands, crashes |-> restarts, seats |-> {2, 4},
     purse |-> [u \in Users |-> IF u = u3 THEN 0 ELSE chips]]

\* Chips move in every way between two of the players, with their sockets or with
\* the cap; the host interferes; and three players with one chip each come, go and
\* wait for the blinds at more seats.
MoneyScenes ==
    {PairScene({"LEAVE", "TOP_UP", "DISCONNECT"}, 1, 2),
     PairScene({"LEAVE", "TOP_UP", "CAP"}, 1, 2),
     PairScene({"HOST", "SIT_OUT"}, 0, 1),
     Scene({"LEAVE"}, 0, 1)}

RebuyScenes == {Scene({"TOP_UP", "DISCONNECT"}, 0, 2)}
DisconnectScenes == {Scene({}, 1, 1)}
AutoLeaveScenes == {Scene({"TOP_UP", "DISCONNECT"}, 0, 4)}
=============================================================================
