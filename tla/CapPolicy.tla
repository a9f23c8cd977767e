----------------------------- MODULE CapPolicy -----------------------------
(***************************************************************************)
(* The economic policy of internal/platform/economy_policy.go: a payout is *)
(* split into returned principal, which is never clipped, and profit,      *)
(* which is clipped so that the player's assets stay below the cap.        *)
(***************************************************************************)
EXTENDS Integers

Least(a, b) == IF a < b THEN a ELSE b
Greatest(a, b) == IF a > b THEN a ELSE b

\* The arguments CapPayout accepts; it returns ErrInvalidMutation otherwise.
CapPayoutAccepts(cap, total, stake, gross, quantum) ==
    /\ total >= 0 /\ stake >= 0 /\ stake <= total /\ gross >= 0
    /\ quantum > 0 /\ stake % quantum = 0 /\ gross % quantum = 0
    /\ cap > 0

\* Mutant: profit is rounded to the quantum but not held below the cap.
UnclippedProfit(cap, base, profit, quantum) == profit - (profit % quantum)

\* Profit in whole quanta, within the room the assets leave below the cap.
ClippedProfit(cap, base, profit, quantum) ==
    LET room == Greatest(cap - base, 0)
        p == Least(profit, room)
    IN  p - (p % quantum)

\* CapPayout: the settlement of a gross payout against a stake, for a player
\* whose unified assets (the stake in flight included) are total.
CapPayout(cap, total, stake, gross, quantum) ==
    LET principal == Least(stake, gross)
        base == total - stake + principal
        profit == ClippedProfit(cap, base, gross - principal, quantum)
    IN  [gross |-> gross, stake |-> stake, total |-> total,
         credited |-> principal + profit,
         withheld |-> gross - (principal + profit),
         net |-> principal + profit - stake,
         after |-> base + profit]
=============================================================================
