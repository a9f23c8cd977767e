------------------------------- MODULE Wagers --------------------------------
(***************************************************************************)
(* Wagers of the single-player games: what internal/games accepts before   *)
(* it looks at the randomness of a round, and the limits the Discord bot   *)
(* of internal/botgames computes on its own to show before the wager is    *)
(* made.  Amounts are units.                                               *)
(***************************************************************************)
EXTENDS Integers, FiniteSetsExt

CONSTANTS
    BankMax,        \* math.MaxInt64
    UnitsPerChip,   \* a multiple of 10, the number of lines of the slot
    MinimumChips,   \* least wager, 10 in the code
    PlayMax         \* SinglePlayerMaxUnits of the economic policy

ASSUME WagersAssumption ==
    /\ BankMax \in Nat /\ PlayMax \in Nat /\ MinimumChips \in Nat \ {0}
    /\ UnitsPerChip \in Nat \ {0} /\ UnitsPerChip % 10 = 0

AllGames == {"dice", "scratch", "summon", "tenfold", "slot", "blackjack"}

\* Payouts, in multiples of the base wager (of a line for the slot).
TopMultiple(g) ==
    CASE g = "dice" -> 2 [] g = "scratch" -> 100 [] g = "summon" -> 100
      [] g = "tenfold" -> 1000 [] g = "slot" -> 5201 [] g = "blackjack" -> 17
Divisor(g) == IF g = "slot" THEN 10 ELSE 1
Count(g) == IF g = "tenfold" THEN 10 ELSE 1

\* normalizeCreateForRuleset: the wager must be able to pay its top prize.
normalizeCreate(g, wager) ==
    [ok |-> /\ wager >= MinimumChips * UnitsPerChip /\ wager <= BankMax
            /\ wager \div Divisor(g) <= BankMax \div TopMultiple(g),
     stake |-> wager * Count(g), top |-> (wager \div Divisor(g)) * TopMultiple(g)]

\* The guards of Create and createBlackjack on a balance, before the draw.
Affordable(g, wager, bank, policy) ==
    LET n == normalizeCreate(g, wager)
    IN  /\ n.ok /\ bank >= n.stake /\ bank - n.stake <= BankMax - n.top
        /\ policy => n.stake <= PlayMax

Whole(units) == units - (units % UnitsPerChip)
Limited(units, most, policy) == Whole(IF policy THEN Min({units, most}) ELSE units)

wagerLimits(bank, policy) == Limited(Min({bank, BankMax \div 2, BankMax - bank}), PlayMax, policy)
scratchWagerLimits(bank, policy) ==
    Limited(Min({bank, BankMax \div 100, (BankMax - bank) \div 99}), PlayMax, policy)
slotWagerLimits(bank, policy) ==
    LET m == TopMultiple("slot")
        line == Min({BankMax \div m, (BankMax - bank) \div (m - 10)})
    IN  Limited(Min({bank, 10 * line}), PlayMax, policy)
summonWagerLimits(bank, policy, n) ==
    Limited(Min({bank \div n, BankMax \div (100 * n), (BankMax - bank) \div (99 * n)}), PlayMax \div n, policy)
\* Mutant: the wager that is paid back with the largest win is not counted.
blackjackGrossLimits(bank, policy) ==
    Limited(Min({bank, BankMax \div 17, (BankMax - bank) \div 15}), PlayMax, policy)
blackjackWagerLimits(bank, policy) ==
    Limited(Min({bank, BankMax \div 17, (BankMax - bank) \div 16}), PlayMax, policy)

BotLimit(g, bank, policy) ==
    CASE g = "dice"      -> wagerLimits(bank, policy)
      [] g = "scratch"   -> scratchWagerLimits(bank, policy)
      [] g = "slot"      -> slotWagerLimits(bank, policy)
      [] g = "summon"    -> summonWagerLimits(bank, policy, 1)
      [] g = "tenfold"   -> summonWagerLimits(bank, policy, 10)
      [] g = "blackjack" -> blackjackWagerLimits(bank, policy)
=============================================================================
