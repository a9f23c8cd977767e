--------------------------- MODULE MCPokerEngine ---------------------------
(* Small instances of PokerEngine for TLC. *)
EXTENDS PokerEngine

\* Both strict orders by seat, a tie for the best hand and a tie of everyone.
SomeRankings ==
    {[i \in Seats |-> i], [i \in Seats |-> 10 - i], [i \in Seats |-> IF i = Min(Seats) THEN 1 ELSE 2],
     [i \in Seats |-> 1]}

\* Every deal of Init; the service restarts in some of the hands of two seats.
BettingInit ==
    \E P \in SUBSET Seats :
       /\ Cardinality(P) >= 2
       /\ \E stacks \in [P -> Stacks], button \in P :
             /\ hand = Fresh(stacks, button)
             /\ restarts = IF Cardinality(P) = 2 /\ button = Min(P) /\ stacks[button] = Max(Stacks)
                          THEN 0 ELSE MaxRestarts
BettingSpec == BettingInit /\ [][Next]_vars
=============================================================================
