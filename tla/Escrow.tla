------------------------------- MODULE Escrow -------------------------------
(***************************************************************************)
(* What a round that holds stakes promises.  Each round is an account: an  *)
(* owner pays a stake in and may take it back while the round is open; the *)
(* round closes once, and what it held is then, to the unit, what its      *)
(* owners are credited and what the asset cap keeps.                       *)
(***************************************************************************)
EXTENDS Integers, Functions

CONSTANTS Rounds, Owners, Units
VARIABLES
    held,       \* held[r][u]: what r holds for u
    closed,     \* the rounds that have closed
    credit,     \* credit[r][u]: what r paid to u when it closed
    kept        \* kept[r]: what the cap kept of it

vars == <<held, closed, credit, kept>>

Sum(f) == SumFunctionOnSet(f, Owners)

Init ==
    /\ held = [r \in Rounds |-> [u \in Owners |-> 0]]
    /\ closed = {}
    /\ credit = [r \in Rounds |-> [u \in Owners |-> 0]]
    /\ kept = [r \in Rounds |-> 0]

Stake(r, u) ==
    /\ r \notin closed /\ held[r][u] = 0
    /\ held'[r][u] \in Units \ {0}
    /\ held' = [held EXCEPT ![r][u] = held'[r][u]]
    /\ UNCHANGED <<closed, credit, kept>>

Return(r, u) ==
    /\ r \notin closed /\ held[r][u] > 0
    /\ held' = [held EXCEPT ![r][u] = 0]
    /\ UNCHANGED <<closed, credit, kept>>

Close(r) ==
    /\ r \notin closed
    /\ closed' = closed \cup {r}
    /\ held' = [held EXCEPT ![r] = [u \in Owners |-> 0]]
    /\ \E paid \in [Owners -> Units], k \in Units :
          /\ Sum(paid) + k = Sum(held[r])
          /\ \A u \in Owners : paid[u] > 0 => held[r][u] > 0 /\ paid[u] >= held[r][u]
          /\ credit' = [credit EXCEPT ![r] = paid]
          /\ kept' = [kept EXCEPT ![r] = k]

Next == \E r \in Rounds : Close(r) \/ \E u \in Owners : Stake(r, u) \/ Return(r, u)

Spec == Init /\ [][Next]_vars
=============================================================================
