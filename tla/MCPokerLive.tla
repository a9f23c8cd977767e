----------------------------- MODULE MCPokerLive -----------------------------
(***************************************************************************)
(* What a table owes to those who look at it: a hand ends, and their       *)
(* sockets show what was committed.  A behaviour moves a hand or the       *)
(* sockets; the other is over, the hand settled or the sockets gone.       *)
(***************************************************************************)
EXTENDS MCPokerEngine, PokerStream

VARIABLE focus      \* what the behaviour moves

NoSockets ==
    /\ stream = [c \in Streams |-> [stage |-> "GONE", queue |-> <<>>, wake |-> FALSE,
                                    last |-> NothingShown, next |-> NothingShown]]
    /\ feed = [version |-> 1, epoch |-> 1, view |-> 1]
    /\ unsent = [version |-> FALSE, view |-> FALSE]
    /\ fence = 0 /\ loginLive = TRUE
NoHand ==
    /\ hand = [Fresh([i \in Seats |-> 1], Min(Seats)) EXCEPT !.street = "SETTLED"]
    /\ restarts = 0

MCInit ==
    /\ focus \in {"hand", "streams"}
    /\ IF focus = "hand" THEN Init /\ NoSockets ELSE NoHand /\ StreamInit

MCNext ==
    \/ focus = "hand" /\ Next /\ UNCHANGED <<focus, streamVars>>
    \/ focus = "streams" /\ StreamNext /\ UNCHANGED <<focus, vars>>

MCSpec == MCInit /\ [][MCNext]_<<focus, vars, streamVars>> /\ Fairness /\ StreamFairness
=============================================================================
