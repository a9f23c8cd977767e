----------------------------- MODULE DevilRules -----------------------------
(***************************************************************************)
(* The two-player rules of internal/roulette/devil.go.  A rule state is a  *)
(* record; an operator that draws from the random stream returns the set   *)
(* of its possible results.  The weights of the item draw are left out:    *)
(* they decide how often an item is drawn, not which.                      *)
(***************************************************************************)
EXTENDS Integers, FiniteSets, FiniteSetsExt, Functions

CONSTANTS
    MaxHP,          \* 4 in the code
    ShellCounts,    \* 5..8 in the code
    ItemLimit,      \* items a player can hold, 4 in the code
    ItemDraws       \* items dealt with a cylinder, {2, 3} in the code

ASSUME DevilAssumption ==
    /\ MaxHP \in Nat \ {0} /\ ItemLimit \in Nat
    /\ ShellCounts \subseteq Nat \ {0} /\ ShellCounts # {}
    /\ ItemDraws \subseteq Nat /\ ItemDraws # {}

Items == {"handcuffs", "adrenaline", "saw", "magnifier", "inverter", "phone",
          "beer", "cigarette", "medicine"}
DevilSeats == {0, 1}
Other(seat) == 1 - seat
NoItems == [item \in Items |-> 0]
HeldItems(d, seat) == {item \in Items : d.items[seat][item] > 0}
BagSize(bag) == SumFunctionOnSet(bag, Items)
ItemCount(d, seat) == BagSize(d.items[seat])

\* acquire: a single copy of the strong items, one item of each group.
Single == {"saw", "handcuffs", "adrenaline", "inverter", "cigarette", "medicine"}
Groups == {{"cigarette", "medicine"}, {"saw", "handcuffs", "adrenaline"}}
acquire(bag, item) ==
    /\ bag[item] < IF item \in Single THEN 1 ELSE 2
    /\ \A g \in Groups : item \in g => \A other \in g : bag[other] = 0

\* The bags a player can hold after n more draws.
DrawItem(bag) ==
    LET offered == {item \in Items : acquire(bag, item)}
    IN  IF BagSize(bag) = ItemLimit \/ offered = {} THEN {bag} ELSE {[bag EXCEPT ![item] = @ + 1] : item \in offered}
Deals(bag, n) ==
    LET after[i \in 0..n] == IF i = 0 THEN {bag} ELSE UNION {DrawItem(b) : b \in after[i - 1]}
    IN  after[n]

Cylinders ==
    UNION {{f \in [0..(n - 1) -> BOOLEAN] :
               Cardinality({i \in DOMAIN f : f[i]}) \in ((4 * n + 5) \div 10)..((6 * n + 5) \div 10)}
           : n \in ShellCounts}

\* The items of both players once each has drawn as many as the other.
Dealt(d) ==
    UNION {{[seat \in DevilSeats |-> IF seat = 0 THEN b0 ELSE b1] :
               b0 \in Deals(d.items[0], n), b1 \in Deals(d.items[1], n)} : n \in ItemDraws}

\* reload: a new cylinder; the initiative alternates except at the start.
Loaded(d, cylinder, bags, alternate) ==
    [d EXCEPT !.shells = cylinder, !.pointer = 0, !.known = [seat \in DevilSeats |-> <<>>],
              !.items = bags,
              !.cuffed = IF alternate THEN {} ELSE @,
              !.first = IF alternate THEN Other(@) ELSE @,
              !.turn = IF alternate THEN Other(d.first) ELSE @]
devilReload(d, alternate) ==
    {Loaded(d, cylinder, bags, alternate) : cylinder \in Cylinders, bags \in Dealt(d)}

newDevil ==
    UNION {devilReload([hp |-> [seat \in DevilSeats |-> MaxHP],
                        items |-> [seat \in DevilSeats |-> NoItems],
                        known |-> [seat \in DevilSeats |-> <<>>], shells |-> <<>>,
                        pointer |-> 0, turn |-> t, first |-> t, saw |-> FALSE, cuffed |-> {},
                        ended |-> FALSE, eligible |-> {}, forfeited |-> {}], FALSE)
           : t \in DevilSeats}

Size(d) == Cardinality(DOMAIN d.shells)

itemLegal(d, seat, item) ==
    /\ item # "adrenaline"
    /\ item \in {"phone", "handcuffs"} => d.pointer + 1 < Size(d)
    /\ item = "handcuffs" => Other(seat) \notin d.cuffed

\* actions: what a seat may do; a stolen item is not tested by itemLegal.
DevilAction(kind, target, item, stolen) ==
    [kind |-> kind, target |-> target, item |-> item, stolen |-> stolen]
Shoot(target) == DevilAction("DEVIL_SHOOT", target, "", "")
devilActions(d, seat) ==
    IF d.ended THEN {}
    ELSE {DevilAction("SURRENDER", "", "", "")} \cup
         IF seat # d.turn THEN {}
         ELSE {Shoot("SELF"), Shoot("OPPONENT")} \cup
              {DevilAction("DEVIL_ITEM", "", item, "") :
                  item \in {item \in HeldItems(d, seat) : itemLegal(d, seat, item)}} \cup
              {DevilAction("DEVIL_ITEM", "", "adrenaline", stolen) :
                  stolen \in IF "adrenaline" \in HeldItems(d, seat)
                             THEN HeldItems(d, Other(seat)) \ {"adrenaline"} ELSE {}}

\* turn: a cuffed player loses one turn.
devilTurn(d, next) ==
    IF next \notin d.cuffed THEN [d EXCEPT !.turn = next]
    ELSE IF Other(next) \notin d.cuffed
         THEN [d EXCEPT !.cuffed = {}, !.turn = Other(next)]
    ELSE [d EXCEPT !.cuffed = {}, !.turn = next]

consume(d) ==
    [d EXCEPT !.pointer = @ + 1,
              !.known = [seat \in DevilSeats |->
                  Restrict(@[seat], DOMAIN @[seat] \ {d.pointer})]]

Lost(d) == {seat \in DevilSeats : d.hp[seat] <= 0 \/ seat \in d.forfeited}
devilFinish(d) ==
    IF Lost(d) = {} THEN d
    ELSE [d EXCEPT !.ended = TRUE, !.eligible = {Other(Max(Lost(d)))}]

Heal(d, seat, n) == [d EXCEPT !.hp[seat] = Min({MaxHP, @ + n})]

shoot(d, seat, target) ==
    LET hit == d.shells[d.pointer]
        at == IF target = "SELF" THEN seat ELSE Other(seat)
        damage == IF d.saw THEN 2 ELSE 1
        spent == consume([d EXCEPT !.saw = FALSE])
        s == devilFinish(IF hit THEN [spent EXCEPT !.hp[at] = Max({0, @ - damage})] ELSE spent)
    IN  IF s.ended THEN {s}
        ELSE IF s.pointer = Size(s) THEN devilReload(s, TRUE)
        ELSE {devilTurn(s, IF ~hit /\ target = "SELF" THEN seat ELSE Other(seat))}

Reveal(d, seat, i) == [d EXCEPT !.known[seat] = [j \in DOMAIN @ \cup {i} |-> d.shells[j]]]

\* phone: a later shell, an unknown one if there is any; a stolen phone used on
\* the last shell shows nothing.
phone(d, seat) ==
    LET future == {i \in DOMAIN d.shells : i > d.pointer}
        unknown == future \ DOMAIN d.known[seat]
    IN  IF future = {} THEN {d}
        ELSE {Reveal(d, seat, i) : i \in IF unknown # {} THEN unknown ELSE future}

inverter(d) ==
    [d EXCEPT !.shells[d.pointer] = ~@,
              !.known = [seat \in DevilSeats |->
                  [i \in DOMAIN @[seat] |-> IF i = d.pointer THEN ~@[seat][i] ELSE @[seat][i]]]]

useItem(d, seat, item) ==
    CASE item = "magnifier" -> {Reveal(d, seat, d.pointer)}
      [] item = "phone" -> phone(d, seat)
      [] item = "saw" -> {[d EXCEPT !.saw = TRUE]}
      [] item = "handcuffs" -> {[d EXCEPT !.cuffed = @ \cup {Other(seat)}]}
      [] item = "cigarette" -> {Heal(d, seat, 1)}
      [] item = "medicine" -> {devilFinish(Heal(d, seat, 2)), devilFinish([d EXCEPT !.hp[seat] = @ - 1])}
      [] item = "inverter" -> {inverter(d)}
      [] item = "beer" -> LET s == consume(d)
                          IN  IF s.pointer = Size(s) THEN devilReload(s, TRUE) ELSE {s}

Spend(d, seat, item) == [d EXCEPT !.items[seat][item] = @ - 1]

\* applyDevil for an action of devilActions, or for the worker's TIMEOUT (a shot
\* at the opponent) and GAME_LIMIT.
applyDevil(d, seat, a) ==
    CASE a.kind = "GAME_LIMIT" -> {[d EXCEPT !.ended = TRUE, !.eligible = DevilSeats]}
      [] a.kind = "TIMEOUT" -> shoot(d, seat, "OPPONENT")
      [] a.kind = "SURRENDER" -> {devilFinish([d EXCEPT !.forfeited = @ \cup {seat}])}
      [] a.kind = "DEVIL_SHOOT" -> shoot(d, seat, a.target)
      [] a.kind = "DEVIL_ITEM" ->
            LET s == Spend(d, seat, a.item)
            IN  IF a.item = "adrenaline"
                THEN useItem(Spend(s, Other(seat), a.stolen), seat, a.stolen)
                ELSE useItem(s, seat, a.item)

\* validHiddenState for this game: what load and save insist on.
validDevil(d) ==
    /\ d.turn \in DevilSeats /\ d.first \in DevilSeats
    /\ Size(d) \in ShellCounts /\ d.pointer \in 0..Size(d)
    /\ ~d.ended => d.pointer < Size(d)
    /\ d.eligible \subseteq DevilSeats /\ d.ended = (d.eligible # {})
    /\ \A seat \in DevilSeats :
          /\ d.hp[seat] \in 0..MaxHP /\ ItemCount(d, seat) <= ItemLimit
          /\ ~d.ended => d.hp[seat] > 0 /\ seat \notin d.forfeited
          /\ \A i \in DOMAIN d.known[seat] :
                i >= d.pointer /\ i < Size(d) /\ d.shells[i] = d.known[seat][i]
=============================================================================
