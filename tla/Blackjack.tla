------------------------------ MODULE Blackjack ------------------------------
(***************************************************************************)
(* The blackjack rules of internal/games/blackjack and the tables they are *)
(* kept in.  A round is a record; an operator that draws returns the set   *)
(* of its results, one for every card the shoe can hold there, so the part *)
(* of the shoe that is dealt is chosen as it is dealt.  A card is its      *)
(* position in dealt.  Times are abstracted to whether the 24 hours of     *)
(* inactivity have passed (idle).                                          *)
(***************************************************************************)
EXTENDS Integers, FiniteSets, Sequences, SequencesExt

CONSTANTS
    Points,         \* points of the cards in the shoe, a subset of 1..10
    MaxDealt        \* bound on the cards dealt before a player's move

VARIABLE table      \* the round, [phase |-> "NONE"] when none is played

NoTable == [phase |-> "NONE"]
Wager == 2          \* initial wager, in half stakes: a natural pays 5 halves
MaxHands == 4

Hand(id, index, parent, cards, stake) ==
    [id |-> id, index |-> index, parent |-> parent, cards |-> cards, stake |-> stake,
     aces |-> FALSE, natural |-> FALSE, status |-> "ACTIVE", payout |-> 0]

\* Evaluate: the best total, an ace counting eleven when that does not bust.
Evaluate(points) ==
    LET hard == FoldLeft(+, 0, points)
    IN  IF 1 \in ToSet(points) /\ hard + 10 <= 21 THEN hard + 10 ELSE hard
PointsOf(s, cards) == [i \in DOMAIN cards |-> s.dealt[cards[i]]]
BestTotal(s, h) == Evaluate(PointsOf(s, h.cards))

\* draw: the next card of the shoe, any card where the shoe is not yet known.
NextCards(s) == IF Len(s.dealt) < Len(s.shoe) THEN {s.shoe[Len(s.dealt) + 1]} ELSE Points
draw(s) == {[s EXCEPT !.dealt = Append(@, p)] : p \in NextCards(s)}
Top(s) == Len(s.dealt)

activeIndex(s) == {i \in DOMAIN s.hands : s.hands[i].id = s.active /\ s.hands[i].status = "ACTIVE"}

(***************************************************************************)
(* settle, the dealer's draws and the deal.                                *)
(***************************************************************************)
Payout(s, h) ==
    LET dealer == Evaluate(PointsOf(s, s.dealer))
        dealerNatural == Len(s.dealer) = 2 /\ dealer = 21
        best == BestTotal(s, h)
    IN  CASE best > 21                      -> 0
          [] dealerNatural /\ h.natural     -> h.stake
          [] dealerNatural /\ ~h.natural    -> 0
          [] h.natural /\ ~dealerNatural    -> (h.stake \div 2) * 5
          [] OTHER -> IF dealer > 21 \/ best > dealer THEN 2 * h.stake
                      ELSE IF best = dealer THEN h.stake ELSE 0
settle(s) ==
    LET hands == [i \in DOMAIN s.hands |-> [s.hands[i] EXCEPT !.payout = Payout(s, s.hands[i])]]
    IN  [s EXCEPT !.phase = "SETTLED", !.active = -1, !.hands = hands,
                  !.payout = FoldLeft(LAMBDA sum, h : sum + h.payout, 0, hands)]

\* The dealer draws to seventeen.
DealerPlay(s) ==
    LET more(t) == {[d EXCEPT !.dealer = Append(@, Top(d))] : d \in draw(t)}
        step(S) == UNION {IF Evaluate(PointsOf(t, t.dealer)) >= 17 THEN {t} ELSE more(t) : t \in S}
        after[n \in 0..16] == IF n = 0 THEN {s} ELSE step(after[n - 1])
    IN  after[16]

advance(s) ==
    LET open == {i \in DOMAIN s.hands : s.hands[i].status = "ACTIVE"}
        bust == \A i \in DOMAIN s.hands : BestTotal(s, s.hands[i]) > 21
    IN  IF open # {} THEN {[s EXCEPT !.active = s.hands[CHOOSE i \in open : \A j \in open : i <= j].id]}
        ELSE {settle(t) : t \in IF bust THEN {s} ELSE DealerPlay(s)}

\* New: player, dealer, player, dealer; a natural on either side settles.
Deal(points, shoe) ==
    LET s == [phase |-> "PLAYER_TURN", shoe |-> shoe, dealt |-> points, dealer |-> <<2, 4>>, active |-> 0,
              hands |-> <<Hand(0, 0, -1, <<1, 3>>, Wager)>>, version |-> 1, actions |-> <<>>,
              stake |-> Wager, payout |-> 0]
        player == BestTotal(s, s.hands[1]) = 21
        dealer == Evaluate(PointsOf(s, s.dealer)) = 21
    IN  IF player THEN settle([s EXCEPT !.hands[1].natural = TRUE, !.hands[1].status = "NATURAL_COMPLETE"])
        ELSE IF dealer THEN settle([s EXCEPT !.hands[1].status = "STOOD"]) ELSE s
New == {Deal(points, <<>>) : points \in [1..4 -> Points]}

(***************************************************************************)
(* apply: one action of the player, or the system's stand.                 *)
(***************************************************************************)
Act(s, type, idle) ==
    [type |-> type, hand |-> s.active, version |-> s.version, fresh |-> Len(s.hands), idle |-> idle]

Hit(s, i) ==
    {LET cards == Append(s.hands[i].cards, Top(t))
         best == Evaluate(PointsOf(t, cards))
     IN  [t EXCEPT !.hands[i].cards = cards,
              !.hands[i].status = IF best > 21 THEN "BUST" ELSE IF best = 21 THEN "STOOD" ELSE @]
     : t \in draw(s)}
Stand(s, i) == {[s EXCEPT !.hands[i].status = "STOOD"]}
Double(s, i) ==
    {[t EXCEPT !.hands[i] = [@ EXCEPT !.cards = Append(@, Top(t)), !.stake = 2 * @,
                                      !.status = "DOUBLED_COMPLETE"]] : t \in draw(s)}

\* The right hand takes the middle of the indices up to the next hand, or 8.
SplitIndex(s, i) ==
    (s.hands[i].index + (IF i < Len(s.hands) THEN s.hands[i + 1].index ELSE 8)) \div 2
Split(s, i, fresh) ==
    {LET h == s.hands[i]
         aces == s.dealt[h.cards[1]] = 1
         shape(x) == [x EXCEPT !.aces = aces, !.natural = FALSE,
                               !.status = IF aces THEN "SPLIT_ACES_COMPLETE" ELSE "ACTIVE"]
         left == shape([h EXCEPT !.cards = <<h.cards[1], Top(t) - 1>>])
         right == shape(Hand(fresh, SplitIndex(s, i), h.id, <<h.cards[2], Top(t)>>, h.stake))
     IN  [t EXCEPT !.hands = SubSeq(s.hands, 1, i - 1) \o <<left, right>>
                                \o SubSeq(s.hands, i + 1, Len(s.hands))]
     : t \in UNION {draw(d) : d \in draw(s)}}

Pair(s, h) == Len(h.cards) = 2 /\ ~h.aces /\ s.dealt[h.cards[1]] = s.dealt[h.cards[2]]
CanSplit(s, i, a, available) ==
    /\ Pair(s, s.hands[i]) /\ Len(s.hands) < MaxHands /\ available >= s.hands[i].stake
    /\ \A j \in DOMAIN s.hands : s.hands[j].id # a.fresh
    /\ SplitIndex(s, i) > s.hands[i].index

Moved(s, i, a, available) ==
    LET h == s.hands[i]
    IN  CASE a.type = "HIT"     -> Hit(s, i)
          [] a.type = "STAND"   -> Stand(s, i)
          [] a.type = "SYSTEM_AUTO_STAND" -> IF a.idle THEN Stand(s, i) ELSE {}
          [] a.type = "DOUBLE"  -> IF Len(h.cards) = 2 /\ ~h.aces /\ available >= h.stake
                                   THEN Double(s, i) ELSE {}
          [] a.type = "SPLIT"   -> IF CanSplit(s, i, a, available) THEN Split(s, i, a.fresh) ELSE {}

Added(s, i, a) == IF a.type \in {"DOUBLE", "SPLIT"} THEN s.hands[i].stake ELSE 0

\* The set is empty when the action is refused.
apply(s, a, available) ==
    IF s.phase # "PLAYER_TURN" \/ a.version # s.version \/ a.hand # s.active THEN {}
    ELSE UNION {UNION {advance([t EXCEPT !.stake = @ + Added(s, i, a), !.version = @ + 1,
                                         !.actions = Append(@, a)])
                       : t \in Moved(s, i, a, available)} : i \in activeIndex(s)}

\* LegalActions: what the player is offered with these chips.
LegalActions(s, available) ==
    UNION {LET h == s.hands[i]
               rich == Len(h.cards) = 2 /\ ~h.aces /\ available >= h.stake
           IN  {"HIT", "STAND"} \cup (IF rich THEN {"DOUBLE"} ELSE {})
                 \cup (IF rich /\ Len(s.hands) < MaxHands
                          /\ s.dealt[h.cards[1]] = s.dealt[h.cards[2]] THEN {"SPLIT"} ELSE {})
           : i \in activeIndex(s)}

\* AutoResolve: every hand still open stands, from the left.
AutoResolve(s) ==
    LET stand(S) == UNION {IF t.phase # "PLAYER_TURN" THEN {t}
                           ELSE apply(t, Act(t, "SYSTEM_AUTO_STAND", TRUE), 0) : t \in S}
        after[n \in 0..MaxHands] == IF n = 0 THEN {s} ELSE stand(after[n - 1])
    IN  after[MaxHands]

(***************************************************************************)
(* The tables: hands by hand_index, cards by shoe_index with the hand that *)
(* holds each, and the replay that every read and every move makes.        *)
(***************************************************************************)
persistBlackjackState(s) ==
    [head |-> [s EXCEPT !.hands = <<>>, !.dealer = <<>>],
     hands |-> {[h EXCEPT !.cards = <<>>] : h \in ToSet(s.hands)},
     owner |-> [c \in DOMAIN s.dealt |->
                   {s.hands[i].id : i \in {i \in DOMAIN s.hands : c \in ToSet(s.hands[i].cards)}}]]

\* ORDER BY shoe_index and ORDER BY hand_index.
InOrder(S) == [n \in 1..Cardinality(S) |-> CHOOSE x \in S : Cardinality({y \in S : y < x}) = n - 1]
loadBlackjackState(db) ==
    LET cardsOf(S) == InOrder({c \in DOMAIN db.owner : db.owner[c] = S})
        indices == InOrder({h.index : h \in db.hands})
        sorted == [n \in DOMAIN indices |-> CHOOSE h \in db.hands : h.index = indices[n]]
    IN  [db.head EXCEPT !.dealer = cardsOf({}),
                        !.hands = [i \in DOMAIN sorted |->
                                      [sorted[i] EXCEPT !.cards = cardsOf({sorted[i].id})]]]

Replayed(s, available) ==
    LET step(S, a) == UNION {apply(t, a, available) : t \in S}
        start == Deal(SubSeq(s.dealt, 1, 4), s.dealt)
    IN  {[t EXCEPT !.shoe = <<>>] : t \in FoldLeft(step, {start}, s.actions)}
\* Mutant: the replay is given the chips the player has now.
verifyWithBalance(s) == Replayed(s, 0) = {s}
\* VerifyRecovery: the recorded actions on the same shoe, with chips without limit,
\* lead to this state and no other.
VerifyRecovery(s) == Replayed(s, 8 * Wager) = {s}

(***************************************************************************)
(* The machine.                                                            *)
(***************************************************************************)
TableInit == table \in New

TableMove ==
    /\ table.phase = "PLAYER_TURN" /\ Len(table.dealt) < MaxDealt
    /\ \E available \in {0, 8 * Wager} : \E type \in LegalActions(table, available) :
          table' \in apply(table, Act(table, type, FALSE), available)

TableAuto ==
    /\ table.phase = "PLAYER_TURN"
    /\ table' \in AutoResolve(table)

TableNext == TableMove \/ TableAuto

\* What is stored is what was played: the rows read back in their order give the same
\* hands, cards and dealer, and the replay accepts them, so no legal round is sent to
\* review (a card that moves to another hand with a split, and a hand that is put
\* between two others, could be restored in another order).  A restored round can be
\* played on: the player has a move and every offered move is accepted, the system's
\* stand ends it, and stake and payout stay within the headroom (8 and 16 wagers)
\* that was reserved before the deal.
RoundRestores ==
    table.phase # "NONE" =>
        /\ loadBlackjackState(persistBlackjackState(table)) = table
        /\ VerifyRecovery(table)
        /\ table.stake = FoldLeft(LAMBDA sum, h : sum + h.stake, 0, table.hands)
        /\ table.stake <= 8 * Wager /\ table.payout <= 2 * table.stake + Wager \div 2
        /\ table.phase = "PLAYER_TURN" =>
              /\ LegalActions(table, 0) # {}
              /\ \A type \in LegalActions(table, 8 * Wager) :
                    apply(table, Act(table, type, FALSE), 8 * Wager) # {}
              /\ \A t \in AutoResolve(table) : t.phase = "SETTLED" /\ t.stake = table.stake
=============================================================================
