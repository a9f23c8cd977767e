--------------------------- MODULE RouletteProofs ---------------------------
(***************************************************************************)
(* FundingVerified and RoundsAreEscrows for every set of rooms and         *)
(* players, every stake and cap.                                           *)
(*                                                                         *)
(* verifyFunding adds up amounts; the invariant says instead which rows    *)
(* there are.  A ready cycle that was taken back has its escrow and its    *)
(* refund, the cycle a player is ready in has its escrow, and what a room  *)
(* pays when it ends is one row more for each of those.                    *)
(*                                                                         *)
(* RuleAccepts for every number of seats, chambers, shells, lives, items   *)
(* and rounds.  It is not inductive: that no bag overflows needs what      *)
(* acquire draws, that the worker's move is legal needs that a debt and a  *)
(* riposte are about the player whose turn it is, and that next names      *)
(* somebody else needs that no seat is in the order twice.                 *)
(***************************************************************************)
EXTENDS Roulette, RouletteRules, SumTheorems, SequenceTheorems

Entry(r, u, c, k, n) == [room |-> r, user |-> u, cycle |-> c, kind |-> k, amount |-> n]
Kinds == {"ESCROW", "REFUND", "PAYOUT", "VOID_REFUND"}
States == {"NONE", "WAITING", "PLAYING", "SETTLING", "NEEDS_REVIEW"} \cup Terminal
SeatRow == [seat : (0..(Target - 1)) \cup {NoSeatNo}, cycle : 0..MaxCycle, ready : BOOLEAN, active : BOOLEAN]

Shape ==
    /\ rooms = [r \in Rooms |-> rooms[r]]
    /\ \A r \in Rooms : /\ DOMAIN rooms[r] = DOMAIN NoRoom /\ rooms[r].state \in States
                        /\ rooms[r].escrow \in Int
    /\ seats \in [Rooms -> [Players -> SeatRow]]
    /\ chips \in [Players -> Int]
    /\ withheld \in [Rooms -> [Players -> Nat]]
    /\ IsFiniteSet(funding)
    /\ \A row \in funding :
          /\ row = Entry(row.room, row.user, row.cycle, row.kind, row.amount)
          /\ row.room \in Rooms /\ row.user \in Players /\ row.cycle \in 0..MaxCycle
          /\ row.kind \in Kinds /\ row.amount \in Nat

\* Whoever is ready has a seat of the room, and no two have the same.
SeatsOf(r) ==
    /\ \A u \in Players : seats[r][u].ready => seats[r][u].cycle >= 1 /\ seats[r][u].seat # NoSeatNo
    /\ \A u, v \in Players : seats[r][u].seat = seats[r][v].seat /\ u # v => seats[r][u].seat = NoSeatNo
    /\ rooms[r].state = "NONE" => \A u \in Players : ~seats[r][u].ready /\ seats[r][u].cycle = 0
                                                     /\ seats[r][u].seat = NoSeatNo

\* An outcome pays players who are ready, at least their stakes.
OutcomeOf(r) ==
    LET o == rooms[r].outcome
    IN  /\ DOMAIN o.awards \subseteq Ready(r) /\ o.refunds \in BOOLEAN
        /\ \A u \in DOMAIN o.awards : o.awards[u] \in Nat /\ o.awards[u] >= RoomStake
        /\ o.refunds => DOMAIN o.awards = Ready(r) /\ \A u \in Ready(r) : o.awards[u] = RoomStake
        /\ rooms[r].state \in {"NONE", "WAITING"} => o = NoOutcome

\* The row a room that is over has for a ready player, besides the escrow.
LastRows(r, u) ==
    LET o == rooms[r].outcome
        c == seats[r][u].cycle
    IN  IF rooms[r].state \notin Terminal THEN {{}}
        ELSE IF o.refunds THEN {{Entry(r, u, c, k, RoomStake)} : k \in Refunds}
        ELSE IF u \in DOMAIN o.awards THEN {{Entry(r, u, c, "PAYOUT", o.awards[u] - withheld[r][u])}}
        ELSE {{}}
Posted(r, u, c) ==
    LET stake == Entry(r, u, c, "ESCROW", RoomStake)
        back == Entry(r, u, c, "REFUND", RoomStake)
        last == seats[r][u].cycle
    IN  /\ c \notin 1..last => RowsOf(r, u, c) = {}
        /\ c \in 1..last /\ ~Backed(r, u, c) => RowsOf(r, u, c) = {stake, back}
        /\ c \in 1..last /\ Backed(r, u, c) =>
              \E rows \in LastRows(r, u) : RowsOf(r, u, c) = {stake} \cup rows

\* What the cap withheld is of the awards, and only of a room that is over.
WithheldOf(r) ==
    LET o == rooms[r].outcome
    IN  \A u \in Players :
           IF rooms[r].state \in Terminal /\ ~o.refunds /\ u \in DOMAIN o.awards
           THEN o.awards[u] - withheld[r][u] >= RoomStake
           ELSE withheld[r][u] = 0

StakeOf(r) == [u \in Players |-> IF seats[r][u].ready THEN RoomStake ELSE 0]
RowsOfRoom(r) == {row \in funding : row.room = r}
Posts(rows) == Amount(rows, {"ESCROW"}) - Amount(rows, Refunds \cup {"PAYOUT"})
Balance(r) == Posts(RowsOfRoom(r)) - SumFunctionOnSet(withheld[r], Players)
EscrowOf(r) ==
    /\ rooms[r].escrow = IF rooms[r].state \in Terminal THEN 0
                         ELSE SumFunctionOnSet(StakeOf(r), Players)
    /\ rooms[r].escrow = Balance(r)

Money(r) ==
    /\ WithheldOf(r) /\ EscrowOf(r)
    /\ \A u \in Players, c \in 0..MaxCycle : Posted(r, u, c)
RoomOK(r) == SeatsOf(r) /\ OutcomeOf(r) /\ Money(r)
RoomInv == Shape /\ \A r \in Rooms : RoomOK(r)

(***************************************************************************)
(* Amounts of a few rows.                                                  *)
(***************************************************************************)
Kept(rows, kinds) == {row \in rows : row.kind \in kinds}

\* An amount may be taken from any function that reads the column.
LEMMA AmountOf ==
  ASSUME NEW rows, NEW kinds, IsFiniteSet(Kept(rows, kinds)),
         NEW f, \A row \in Kept(rows, kinds) : f[row] = row.amount
  PROVE  Amount(rows, kinds) = SumFunctionOnSet(f, Kept(rows, kinds))
  <1> DEFINE g == [row \in rows |-> row.amount]
  <1>1. \A row \in Kept(rows, kinds) : g[row] = f[row]
    BY DEF Kept
  <1> HIDE DEF g
  <1>2. SumFunctionOnSet(g, Kept(rows, kinds)) = SumFunctionOnSet(f, Kept(rows, kinds))
    BY <1>1, SumCong
  <1> QED
    BY <1>2 DEF g, Amount, Kept

\* The amount of no rows.
LEMMA AmountNone ==
  ASSUME NEW rows, NEW kinds, Kept(rows, kinds) = {}
  PROVE  Amount(rows, kinds) = 0
  BY SumEmpty DEF Amount, Kept

\* The amount of one row.
LEMMA AmountOne ==
  ASSUME NEW rows, NEW kinds, NEW x, Kept(rows, kinds) = {x}, x.amount \in Int
  PROVE  Amount(rows, kinds) = x.amount
  <1> DEFINE f == [row \in {x} |-> row.amount]
  <1>1. IsFiniteSet({x}) /\ f[x] = x.amount
    BY FS_Singleton
  <1> HIDE DEF f
  <1>2. SumFunctionOnSet(f, {x}) = x.amount
    BY <1>1, SumSingle
  <1> QED
    BY <1>1, <1>2, AmountOf

\* Rows added to the others.
LEMMA AmountUnion ==
  ASSUME NEW old, NEW new, NEW kinds, IsFiniteSet(old), IsFiniteSet(new), old \cap new = {},
         \A row \in old \cup new : row.amount \in Int
  PROVE  Amount(old \cup new, kinds) = Amount(old, kinds) + Amount(new, kinds)
  <1> DEFINE f == [row \in old \cup new |-> row.amount]
             A == Kept(old, kinds)
             B == Kept(new, kinds)
  <1>1. /\ IsFiniteSet(A) /\ IsFiniteSet(B) /\ A \cap B = {}
        /\ Kept(old \cup new, kinds) = A \cup B
        /\ \A row \in A \cup B : f[row] \in Int /\ f[row] = row.amount
    BY FS_Subset DEF Kept
  <1> HIDE DEF f, A, B
  <1>2. IsFiniteSet(A \cup B)
    BY <1>1, FS_Union
  <1>3. SumFunctionOnSet(f, A \cup B) = SumFunctionOnSet(f, A) + SumFunctionOnSet(f, B)
    BY <1>1, SumUnion
  <1>4. Amount(old, kinds) = SumFunctionOnSet(f, A)
    BY <1>1, AmountOf DEF A
  <1>5. Amount(new, kinds) = SumFunctionOnSet(f, B)
    BY <1>1, AmountOf DEF B
  <1>6. Amount(old \cup new, kinds) = SumFunctionOnSet(f, A \cup B)
    BY <1>1, <1>2, AmountOf
  <1> QED
    BY <1>3, <1>4, <1>5, <1>6

\* The amount of finitely many rows is a number.
LEMMA AmountInt ==
  ASSUME NEW rows, NEW kinds, IsFiniteSet(rows), \A row \in rows : row.amount \in Int
  PROVE  Amount(rows, kinds) \in Int
  <1> DEFINE f == [row \in rows |-> row.amount]
  <1>1. IsFiniteSet(Kept(rows, kinds)) /\ \A row \in Kept(rows, kinds) : f[row] \in Int /\ f[row] = row.amount
    BY FS_Subset DEF Kept
  <1> HIDE DEF f
  <1> QED
    BY <1>1, AmountOf, SumInt

\* One row for each of some players.
LEMMA AmountEach ==
  ASSUME NEW D, IsFiniteSet(D), NEW rows, NEW h, Lists(h, D, rows), NEW p, NEW kinds,
         \A u \in D : h[u].amount = p[u] /\ h[u].kind \in kinds /\ p[u] \in Int
  PROVE  IsFiniteSet(rows) /\ Amount(rows, kinds) = SumFunctionOnSet(p, D)
  <1> DEFINE f == [row \in rows |-> row.amount]
  <1>1. /\ \A u \in D : f[h[u]] \in Int /\ p[u] = f[h[u]]
        /\ \A row \in rows : f[row] = row.amount
        /\ Kept(rows, kinds) = rows
    BY DEF Lists, Kept
  <1> HIDE DEF f
  <1>2. IsFiniteSet(rows) /\ SumFunctionOnSet(f, rows) = SumFunctionOnSet(p, D)
    BY <1>1, SumImage
  <1>3. Amount(rows, kinds) = SumFunctionOnSet(f, rows)
    BY <1>1, <1>2, AmountOf
  <1> QED
    BY <1>2, <1>3

(***************************************************************************)
(* What the invariant says of a room's verification.                       *)
(***************************************************************************)
\* The net of a cycle: nothing, or the stake of the player who is ready.
LEMMA CycleNet ==
  ASSUME RoomInv, NEW r \in Rooms, NEW u \in Players, NEW c \in 0..MaxCycle
  PROVE  /\ Amount(RowsOf(r, u, c), {"ESCROW"}) \in {0, RoomStake}
         /\ Net(r, u, c) \in {0, RoomStake}
         /\ Net(r, u, c) # 0 => Backed(r, u, c) /\ seats[r][u].seat # NoSeatNo
  <1> DEFINE rows == RowsOf(r, u, c)
             stake == Entry(r, u, c, "ESCROW", RoomStake)
             back == Entry(r, u, c, "REFUND", RoomStake)
             last == seats[r][u].cycle
  <1>1. /\ Posted(r, u, c) /\ SeatsOf(r) /\ RoomStake \in Nat \ {0}
        /\ \A v \in Players : seats[r][v].cycle \in 0..MaxCycle
    BY RoomAssumption DEF RoomInv, RoomOK, Money, Shape, SeatRow
  <1>2. /\ stake.kind = "ESCROW" /\ back.kind = "REFUND"
        /\ stake.amount = RoomStake /\ back.amount = RoomStake
    BY DEF Entry
  <1>3. CASE c \notin 1..last
    <2>1. Kept(rows, {"ESCROW"}) = {} /\ Kept(rows, Refunds) = {}
      BY <1>1, <1>3 DEF Posted, Kept
    <2>2. Amount(rows, {"ESCROW"}) = 0 /\ Amount(rows, Refunds) = 0
      BY <2>1, AmountNone
    <2> QED
      BY <1>1, <2>2 DEF Net
  <1>4. CASE c \in 1..last /\ ~Backed(r, u, c)
    <2>1. rows = {stake, back}
      BY <1>1, <1>4 DEF Posted
    <2> HIDE DEF stake, back, rows
    <2>2. Kept(rows, {"ESCROW"}) = {stake} /\ Kept(rows, Refunds) = {back}
      BY <1>2, <2>1 DEF Kept, Refunds
    <2>3. Amount(rows, {"ESCROW"}) = RoomStake /\ Amount(rows, Refunds) = RoomStake
      BY <1>1, <1>2, <2>2, AmountOne
    <2> QED
      BY <1>1, <2>3 DEF Net, rows
  <1>5. CASE c \in 1..last /\ Backed(r, u, c)
    <2>1. PICK more \in LastRows(r, u) : rows = {stake} \cup more
      BY <1>1, <1>5 DEF Posted
    <2>2. \A row \in more : row.kind \in {"REFUND", "VOID_REFUND", "PAYOUT"}
      BY <2>1 DEF LastRows, Entry, Refunds
    <2>3. more = {} \/ (\E x : more = {x} /\ (x.kind \in Refunds => x.amount = RoomStake))
      BY <2>1 DEF LastRows, Entry, Refunds
    <2> HIDE DEF stake, rows
    <2>4. Kept(rows, {"ESCROW"}) = {stake}
      BY <1>2, <2>1, <2>2 DEF Kept
    <2>5. Amount(rows, {"ESCROW"}) = RoomStake
      BY <1>1, <1>2, <2>4, AmountOne
    <2>6. Amount(rows, Refunds) \in {0, RoomStake}
      <3>1. CASE Kept(rows, Refunds) = {}
        BY <3>1, AmountNone
      <3>2. CASE Kept(rows, Refunds) # {}
        <4>1. PICK x : more = {x} /\ x.kind \in Refunds /\ x.amount = RoomStake
          BY <1>2, <2>1, <2>3, <3>2 DEF Kept, Refunds
        <4>2. Kept(rows, Refunds) = {x}
          BY <1>2, <2>1, <4>1 DEF Kept, Refunds
        <4> QED
          BY <1>1, <4>1, <4>2, AmountOne
      <3> QED
        BY <3>1, <3>2
    <2>7. Backed(r, u, c) /\ seats[r][u].seat # NoSeatNo
      BY <1>1, <1>5 DEF SeatsOf, Backed
    <2> QED
      BY <1>1, <2>5, <2>6, <2>7 DEF Net, rows
  <1> QED
    BY <1>3, <1>4, <1>5

\* A payout of a player is the one of the cycle the room was played in.
LEMMA PayoutRows ==
  ASSUME RoomInv, NEW r \in Rooms, NEW u \in Players
  PROVE  LET o == rooms[r].outcome
             paid == {row \in RowsOfRoom(r) : row.user = u /\ row.kind = "PAYOUT"}
         IN  paid = IF rooms[r].state \in Terminal /\ ~o.refunds /\ u \in DOMAIN o.awards
                    THEN {Entry(r, u, seats[r][u].cycle, "PAYOUT", o.awards[u] - withheld[r][u])}
                    ELSE {}
  <1> DEFINE o == rooms[r].outcome
             c == seats[r][u].cycle
             paid == {row \in RowsOfRoom(r) : row.user = u /\ row.kind = "PAYOUT"}
             over == rooms[r].state \in Terminal /\ ~o.refunds /\ u \in DOMAIN o.awards
             x == Entry(r, u, c, "PAYOUT", o.awards[u] - withheld[r][u])
  <1>1. /\ \A d \in 0..MaxCycle : Posted(r, u, d)
        /\ SeatsOf(r) /\ OutcomeOf(r) /\ c \in 0..MaxCycle
    BY DEF RoomInv, RoomOK, Money, Shape, SeatRow
  <1>2. ASSUME NEW row \in paid
        PROVE  over /\ row = x
    <2>1. row \in RowsOf(r, u, row.cycle) /\ row.cycle \in 0..MaxCycle /\ row.kind = "PAYOUT"
      BY DEF RowsOf, RowsOfRoom, RoomInv, Shape
    <2>2. /\ row.cycle \in 1..c /\ Backed(r, u, row.cycle)
          /\ \E more \in LastRows(r, u) : row \in more
      BY <1>1, <2>1 DEF Posted, Entry
    <2> QED
      BY <2>1, <2>2 DEF LastRows, Refunds, Entry
  <1>3. ASSUME over
        PROVE  x \in paid
    <2>1. seats[r][u].ready /\ c \in 1..c
      BY <1>1, <1>3 DEF OutcomeOf, Ready, SeatsOf
    <2>2. LastRows(r, u) = {{x}}
      BY <1>3 DEF LastRows
    <2>3. x \in RowsOf(r, u, c)
      BY <1>1, <2>1, <2>2 DEF Posted, Backed
    <2> QED
      BY <2>3 DEF RowsOf, RowsOfRoom, Entry
  <1> HIDE DEF x, over, paid
  <1>4. paid = IF over THEN {x} ELSE {}
    BY <1>2, <1>3
  <1> QED
    BY <1>4 DEF x, over, paid
\* The stakes of the ready players.
LEMMA Stakes ==
  ASSUME RoomInv, NEW r \in Rooms, NEW f, \A u \in Ready(r) : f[u] = RoomStake
  PROVE  /\ IsFiniteSet(Ready(r)) /\ Ready(r) \subseteq Players
         /\ Ready(r) = {u \in Players : seats[r][u].ready}
         /\ SumFunctionOnSet(f, Ready(r)) = RoomStake * Cardinality(Ready(r))
         /\ SumFunctionOnSet(StakeOf(r), Players) = SumFunctionOnSet(f, Ready(r))
  <1>1. IsFiniteSet(Players) /\ RoomStake \in Int /\ 0 \in Int
    BY RoomAssumption
  <1>2. Ready(r) = {u \in Players : seats[r][u].ready}
    BY DEF Ready, RoomInv, RoomOK, SeatsOf
  <1>3. Ready(r) \in SUBSET Players /\ IsFiniteSet(Ready(r))
    BY <1>1, <1>2, FS_Subset
  <1>4. /\ \A u \in Ready(r) : f[u] \in Int /\ StakeOf(r)[u] = f[u]
        /\ \A u \in Players \ Ready(r) : StakeOf(r)[u] = 0
    BY <1>1, <1>2 DEF StakeOf
  <1>5. SumFunctionOnSet(StakeOf(r), Players) = SumFunctionOnSet(f, Ready(r))
    BY <1>1, <1>3, <1>4, SumWithin
  <1>6. SumFunctionOnSet(f, Ready(r)) = RoomStake * Cardinality(Ready(r))
    BY <1>1, <1>3, SumConstant
  <1> QED
    BY <1>2, <1>3, <1>5, <1>6

\* Under RoomInv the worker's verification succeeds.
LEMMA Verified ==
  ASSUME RoomInv, NEW r \in Rooms
  PROVE  verifyFunding(r) /\ (Open(r) => voidMaterial(r))
  <1> DEFINE o == rooms[r].outcome
             rows == {row \in funding : row.room = r}
             done == rooms[r].state \in Terminal
             paid(u) == {row \in RowsOfRoom(r) : row.user = u /\ row.kind = "PAYOUT"}
             over(u) == rooms[r].state \in Terminal /\ ~o.refunds /\ u \in DOMAIN o.awards
             last(u) == Entry(r, u, seats[r][u].cycle, "PAYOUT", o.awards[u] - withheld[r][u])
  <1>1. SeatsOf(r) /\ OutcomeOf(r) /\ WithheldOf(r) /\ EscrowOf(r)
    BY DEF RoomInv, RoomOK, Money
  <1>2. /\ \A u \in Players : withheld[r][u] \in Nat
        /\ \A row \in rows : row.user \in Players /\ row \in RowsOfRoom(r)
        /\ rows = RowsOfRoom(r)
    BY DEF RoomInv, Shape, RowsOfRoom
  <1>3. \A u \in Players : paid(u) = IF over(u) THEN {last(u)} ELSE {}
    BY PayoutRows
  <1>4. \A u \in Players, c \in 0..MaxCycle :
           /\ Amount(RowsOf(r, u, c), {"ESCROW"}) \in {0, RoomStake}
           /\ Net(r, u, c) \in {0, RoomStake}
           /\ Net(r, u, c) # 0 => Backed(r, u, c) /\ seats[r][u].seat # NoSeatNo
    BY CycleNet
  <1>5. \A u \in Players : Cardinality({row \in rows : row.user = u /\ row.kind = "PAYOUT"}) <= 1
    <2> TAKE u \in Players
    <2>1. {row \in rows : row.user = u /\ row.kind = "PAYOUT"} = paid(u)
      BY <1>2
    <2> HIDE DEF paid, over, last
    <2>2. Cardinality(paid(u)) \in {0, 1}
      BY <1>3, FS_EmptySet, FS_Singleton
    <2> QED
      BY <2>1, <2>2
  <1>6. \A u \in Players :
           Amount({row \in rows : row.user = u}, {"PAYOUT"}) = IF over(u) THEN last(u).amount ELSE 0
    <2> TAKE u \in Players
    <2>1. Kept({row \in rows : row.user = u}, {"PAYOUT"}) = paid(u)
      BY <1>2 DEF Kept
    <2>2. over(u) => last(u).amount \in Int
      BY <1>1, <1>2 DEF OutcomeOf, Entry
    <2> HIDE DEF paid, over, last, rows
    <2> QED
      BY <1>3, <2>1, <2>2, AmountNone, AmountOne
  <1>7. ASSUME done
        PROVE  /\ rooms[r].escrow = 0
               /\ o.refunds => Amount(rows, {"PAYOUT"}) = 0
               /\ ~o.refunds => \A u \in Players :
                     Amount({row \in rows : row.user = u}, {"PAYOUT"}) + withheld[r][u] = Gross(r, u)
    <2>1. rooms[r].escrow = 0
      BY <1>1, <1>7 DEF EscrowOf
    <2>2. ASSUME o.refunds PROVE Amount(rows, {"PAYOUT"}) = 0
      <3>1. Kept(rows, {"PAYOUT"}) = {}
        BY <1>2, <1>3, <2>2 DEF Kept
      <3> QED
        BY <3>1, AmountNone
    <2>3. ASSUME ~o.refunds, NEW u \in Players
          PROVE  Amount({row \in rows : row.user = u}, {"PAYOUT"}) + withheld[r][u] = Gross(r, u)
      <3>1. CASE u \in DOMAIN o.awards
        <4>1. over(u) /\ last(u).amount = o.awards[u] - withheld[r][u] /\ Gross(r, u) = o.awards[u]
          BY <1>7, <2>3, <3>1 DEF Entry, Gross
        <4>2. o.awards[u] \in Nat
          BY <1>1, <3>1 DEF OutcomeOf
        <4> HIDE DEF over, last, rows, o
        <4> QED
          BY <1>2, <1>6, <4>1, <4>2
      <3>2. CASE u \notin DOMAIN o.awards
        <4>1. ~over(u) /\ Gross(r, u) = 0 /\ withheld[r][u] = 0
          BY <1>1, <3>2 DEF Gross, WithheldOf
        <4> HIDE DEF over, last, rows, o
        <4> QED
          BY <1>6, <4>1
      <3> QED
        BY <3>1, <3>2
    <2> QED
      BY <2>1, <2>2, <2>3
  <1>8. Amount(rows, {"ESCROW"}) - Amount(rows, Refunds \cup {"PAYOUT"})
            - SumFunctionOnSet(withheld[r], Players) = rooms[r].escrow
    BY <1>1, <1>2 DEF EscrowOf, Balance, Posts
  <1>9. verifyFunding(r)
    BY <1>4, <1>5, <1>7, <1>8 DEF verifyFunding
  <1>10. ASSUME Open(r)
         PROVE  voidMaterial(r)
    <2>1. ~\E row \in funding : row.room = r /\ row.kind \in {"PAYOUT", "VOID_REFUND"}
      <3> SUFFICES ASSUME NEW row \in rows, row.kind \in {"PAYOUT", "VOID_REFUND"} PROVE FALSE
        OBVIOUS
      <3>1. /\ row \in RowsOf(r, row.user, row.cycle) /\ row.user \in Players
            /\ row.cycle \in 0..MaxCycle /\ Posted(r, row.user, row.cycle)
        BY DEF RowsOf, RoomInv, RoomOK, Money, Shape
      <3>2. LastRows(r, row.user) = {{}}
        BY <1>10 DEF LastRows, Open
      <3> QED
        BY <3>1, <3>2 DEF Posted, Entry
    <2>2. SumFunctionOnSet([u \in Ready(r) |-> RoomStake], Ready(r)) = rooms[r].escrow
      <3> DEFINE f == [u \in Ready(r) |-> RoomStake]
      <3>1. \A u \in Ready(r) : f[u] = RoomStake
        OBVIOUS
      <3> HIDE DEF f
      <3>2. SumFunctionOnSet(StakeOf(r), Players) = SumFunctionOnSet(f, Ready(r))
        BY <3>1, Stakes
      <3>3. rooms[r].escrow = SumFunctionOnSet(StakeOf(r), Players)
        BY <1>1, <1>10 DEF EscrowOf, Open
      <3> QED
        BY <3>2, <3>3 DEF f
    <2>3. \A u \in Players, c \in 0..MaxCycle :
             Net(r, u, c) # 0 => Net(r, u, c) = RoomStake /\ Backed(r, u, c) /\ seats[r][u].seat # NoSeatNo
      BY <1>4
    <2> QED
      BY <1>9, <2>1, <2>2, <2>3 DEF voidMaterial
  <1> QED
    BY <1>9, <1>10
(***************************************************************************)
(* The invariant holds at the start and of every room a step leaves alone. *)
(***************************************************************************)
\* No outcome pays nobody.
LEMMA NoAwards == DOMAIN NoOutcome.awards = {} /\ NoOutcome.refunds = FALSE
  BY DEF NoOutcome

\* Every room is empty at first.
LEMMA Initial == RoomInit => RoomInv
  <1> SUFFICES ASSUME RoomInit PROVE RoomInv
    OBVIOUS
  <1>1. /\ rooms = [r \in Rooms |-> NoRoom] /\ seats = [r \in Rooms |-> [u \in Players |-> Absent]]
        /\ chips = [u \in Players |-> StartChips] /\ funding = {}
        /\ withheld = [r \in Rooms |-> [u \in Players |-> 0]]
    BY DEF RoomInit
  <1>2. Shape
    BY <1>1, RoomAssumption, FS_EmptySet DEF Shape, NoRoom, Absent, SeatRow, States, NoSeatNo
  <1>3. ASSUME NEW r \in Rooms
        PROVE  RoomOK(r)
    <2>1. SeatsOf(r)
      BY <1>1 DEF SeatsOf, Absent, NoSeatNo
    <2>2. OutcomeOf(r)
      BY <1>1, NoAwards DEF OutcomeOf, NoRoom
    <2>3. WithheldOf(r)
      BY <1>1 DEF WithheldOf, NoRoom, Terminal
    <2>4. EscrowOf(r)
      <3>1. IsFiniteSet(Players) /\ 0 \in Int
        BY RoomAssumption
      <3>2. \A u \in Players : StakeOf(r)[u] = 0 /\ withheld[r][u] = 0
        BY <1>1 DEF StakeOf, Absent
      <3>3. SumFunctionOnSet(StakeOf(r), Players) = 0 * Cardinality(Players)
        BY <3>1, <3>2, SumConstant
      <3>4. SumFunctionOnSet(withheld[r], Players) = 0 * Cardinality(Players)
        BY <3>1, <3>2, SumConstant
      <3>5. 0 * Cardinality(Players) = 0
        BY <3>1, FS_CardinalityType
      <3>6. /\ Amount(RowsOfRoom(r), {"ESCROW"}) = 0
            /\ Amount(RowsOfRoom(r), Refunds \cup {"PAYOUT"}) = 0
        <4>1. RowsOfRoom(r) = {}
          BY <1>1 DEF RowsOfRoom
        <4> QED
          BY <4>1, AmountNone DEF Kept
      <3>7. rooms[r].escrow = 0 /\ rooms[r].state \notin Terminal
        BY <1>1 DEF NoRoom, Terminal
      <3> QED
        BY <3>3, <3>4, <3>5, <3>6, <3>7 DEF EscrowOf, Balance, Posts
    <2>5. ASSUME NEW u \in Players, NEW c \in 0..MaxCycle
          PROVE  Posted(r, u, c)
      BY <1>1 DEF Posted, RowsOf, Absent
    <2> QED
      BY <2>1, <2>2, <2>3, <2>4, <2>5 DEF RoomOK, Money
  <1> QED
    BY <1>2, <1>3 DEF RoomInv

\* Nothing that concerns the money of a room changes.
LEMMA MoneyKept ==
  ASSUME RoomInv, NEW r \in Rooms,
         rooms'[r].escrow = rooms[r].escrow, withheld'[r] = withheld[r],
         RowsOfRoom(r)' = RowsOfRoom(r),
         \A u \in Players : seats'[r][u].ready = seats[r][u].ready /\ seats'[r][u].cycle = seats[r][u].cycle,
         \/ rooms[r].state \notin Terminal /\ rooms'[r].state \notin Terminal
         \/ rooms'[r].state = rooms[r].state /\ rooms'[r].outcome = rooms[r].outcome
  PROVE  Money(r)'
  <1>1. WithheldOf(r) /\ EscrowOf(r) /\ \A u \in Players, c \in 0..MaxCycle : Posted(r, u, c)
    BY DEF RoomInv, RoomOK, Money
  <1>2. WithheldOf(r)'
    BY <1>1 DEF WithheldOf
  <1>3. EscrowOf(r)'
    <2>1. StakeOf(r)' = StakeOf(r)
      BY DEF StakeOf
    <2>2. Balance(r)' = Balance(r)
      BY DEF Balance
    <2>3. SumFunctionOnSet(StakeOf(r), Players)' = SumFunctionOnSet(StakeOf(r), Players)
      BY <2>1
    <2> QED
      BY <1>1, <2>2, <2>3 DEF EscrowOf
  <1>4. ASSUME NEW u \in Players, NEW c \in 0..MaxCycle
        PROVE  Posted(r, u, c)'
    <2>1. RowsOf(r, u, c)' = RowsOf(r, u, c)
      <3>1. /\ RowsOf(r, u, c) = {row \in RowsOfRoom(r) : row.user = u /\ row.cycle = c}
            /\ RowsOf(r, u, c)' = {row \in RowsOfRoom(r)' : row.user = u /\ row.cycle = c}
        BY DEF RowsOf, RowsOfRoom
      <3> QED
        BY <3>1
    <2>2. LastRows(r, u)' = LastRows(r, u) /\ Backed(r, u, c)' = Backed(r, u, c)
      BY DEF LastRows, Backed
    <2> QED
      BY <1>1, <2>1, <2>2 DEF Posted
  <1> QED
    BY <1>2, <1>3, <1>4 DEF Money

\* A step that does not touch a room's rows keeps RoomOK of it.
LEMMA OtherRoom ==
  ASSUME RoomInv, NEW r \in Rooms,
         rooms'[r] = rooms[r], seats'[r] = seats[r], withheld'[r] = withheld[r],
         RowsOfRoom(r)' = RowsOfRoom(r)
  PROVE  RoomOK(r)'
  <1>1. Money(r)'
    BY MoneyKept
  <1>2. SeatsOf(r)' /\ OutcomeOf(r)'
    BY DEF RoomInv, RoomOK, SeatsOf, OutcomeOf, Ready
  <1> QED
    BY <1>1, <1>2 DEF RoomOK

\* A step of one room that moves no stake.
LEMMA QuietStep ==
  ASSUME RoomInv, NEW r \in Rooms, NEW room, NEW taken \in [Players -> SeatRow],
         rooms' = [rooms EXCEPT ![r] = room], seats' = [seats EXCEPT ![r] = taken],
         UNCHANGED <<chips, funding, withheld>>,
         DOMAIN room = DOMAIN NoRoom, room.state \in States, room.escrow = rooms[r].escrow,
         \A u \in Players : taken[u].ready = seats[r][u].ready /\ taken[u].cycle = seats[r][u].cycle,
         rooms[r].state \notin Terminal /\ room.state \notin Terminal,
         SeatsOf(r)', OutcomeOf(r)'
  PROVE  RoomInv'
  <1>1. Shape /\ rooms'[r] = room /\ seats'[r] = taken
    BY DEF RoomInv, Shape
  <1>2. Shape'
    BY <1>1 DEF Shape
  <1>3. ASSUME NEW s \in Rooms
        PROVE  RoomOK(s)'
    <2>1. RowsOfRoom(s)' = RowsOfRoom(s) /\ withheld'[s] = withheld[s]
      BY DEF RowsOfRoom
    <2>2. CASE s = r
      BY <1>1, <2>1, <2>2, MoneyKept DEF RoomOK
    <2>3. CASE s # r
      <3>1. rooms'[s] = rooms[s] /\ seats'[s] = seats[s]
        BY <1>1, <2>3 DEF Shape
      <3> QED
        BY <2>1, <3>1, OtherRoom
    <2> QED
      BY <2>2, <2>3
  <1> QED
    BY <1>2, <1>3 DEF RoomInv
(***************************************************************************)
(* The steps that move no stake.                                           *)
(***************************************************************************)
LEMMA CreateStep ==
  ASSUME RoomInv, NEW r \in Rooms, NEW u \in Players, NEW econ \in BOOLEAN, create(u, r, econ)
  PROVE  RoomInv'
  <1> DEFINE room == [NoRoom EXCEPT !.state = "WAITING", !.host = u, !.econ = econ]
             taken == [seats[r] EXCEPT ![u] = [@ EXCEPT !.seat = 0, !.active = TRUE]]
  <1>1. /\ seats[r] \in [Players -> SeatRow] /\ 0 \in 0..(Target - 1)
        /\ SeatsOf(r) /\ OutcomeOf(r) /\ EscrowOf(r) /\ rooms[r].state = "NONE"
    BY RoomAssumption DEF RoomInv, RoomOK, Money, Shape, create
  <1>2. rooms' = [rooms EXCEPT ![r] = room] /\ UNCHANGED <<chips, funding, withheld>>
    BY DEF create
  <1>3. seats' = [seats EXCEPT ![r] = taken]
    BY DEF create
  <1>4. taken \in [Players -> SeatRow]
    BY <1>1 DEF SeatRow
  <1>5. /\ DOMAIN room = DOMAIN NoRoom /\ room.state = "WAITING" /\ room.escrow = 0
        /\ room.outcome = NoOutcome
    BY DEF NoRoom
  <1>6. \A v \in Players :
           /\ taken[v].ready = seats[r][v].ready /\ taken[v].cycle = seats[r][v].cycle
           /\ ~taken[v].ready
           /\ taken[v].seat = IF v = u THEN 0 ELSE NoSeatNo
    BY <1>1 DEF SeatRow, SeatsOf
  <1>7. rooms[r].escrow = 0
    <2>1. rooms[r].escrow = SumFunctionOnSet(StakeOf(r), Players)
      BY <1>1 DEF EscrowOf, Terminal
    <2>2. \A v \in Players : StakeOf(r)[v] = 0
      BY <1>1 DEF SeatsOf, StakeOf
    <2>3. IsFiniteSet(Players) /\ 0 \in Int
      BY RoomAssumption
    <2>4. SumFunctionOnSet(StakeOf(r), Players) = 0 * Cardinality(Players)
      BY <2>2, <2>3, SumConstant
    <2> QED
      BY <2>1, <2>3, <2>4, FS_CardinalityType
  <1> HIDE DEF room, taken
  <1>8. rooms'[r] = room /\ seats'[r] = taken
    BY <1>2, <1>3 DEF RoomInv, Shape
  <1>9. SeatsOf(r)'
    BY <1>5, <1>6, <1>8 DEF SeatsOf, NoSeatNo
  <1>10. OutcomeOf(r)'
    BY <1>5, <1>8, NoAwards DEF OutcomeOf
  <1> QED
    BY <1>1, <1>2, <1>3, <1>4, <1>5, <1>6, <1>7, <1>9, <1>10, QuietStep DEF States, Terminal

\* The seat a player is given is free.
LEMMA FreeSeatIsFree ==
  ASSUME RoomInv, NEW r \in Rooms, Cardinality(Occupied(r)) < Target
  PROVE  FreeSeat(r) \in 0..(Target - 1) /\ \A v \in Players : seats[r][v].seat # FreeSeat(r)
  <1> DEFINE all == 0..(Target - 1)
             free == all \ Occupied(r)
  <1>1. Target \in Nat \ {0}
    BY RoomAssumption
  <1>2. IsFiniteSet(all) /\ Cardinality(all) = Target
    BY <1>1, FS_Interval
  <1>3. Occupied(r) \subseteq all
    BY DEF Occupied, RoomInv, Shape, SeatRow
  <1>4. free # {}
    <2> SUFFICES ASSUME free = {} PROVE FALSE
      OBVIOUS
    <2>1. Occupied(r) = all
      BY <1>3
    <2> HIDE DEF all, free
    <2> QED
      BY <1>1, <1>2, <2>1
  <1>5. free \in SUBSET Nat
    BY <1>1
  <1>6. \E m \in free : \A n \in free : m <= n
    <2> HIDE DEF free
    <2> QED
      BY <1>4, <1>5, Smallest
  <1>7. FreeSeat(r) \in free
    BY <1>6 DEF FreeSeat, Min
  <1> QED
    BY <1>7 DEF Occupied, NoSeatNo

\* Joining moves no chips.
LEMMA JoinStep ==
  ASSUME RoomInv, NEW r \in Rooms, NEW u \in Players, join(u, r)
  PROVE  RoomInv'
  <1> DEFINE n == FreeSeat(r)
             taken == [seats[r] EXCEPT ![u] = [@ EXCEPT !.seat = n, !.active = TRUE]]
  <1>1. /\ seats[r] \in [Players -> SeatRow] /\ SeatsOf(r) /\ OutcomeOf(r) /\ rooms[r].state = "WAITING"
        /\ DOMAIN rooms[r] = DOMAIN NoRoom /\ rooms = [s \in Rooms |-> rooms[s]] /\ DOMAIN seats = Rooms
    BY DEF RoomInv, RoomOK, Shape, join
  <1>2. UNCHANGED <<rooms, chips, funding, withheld>> /\ seats' = [seats EXCEPT ![r] = taken]
    BY DEF join
  <1>3. rooms' = [rooms EXCEPT ![r] = rooms[r]]
    BY <1>1, <1>2
  <1>4. n \in 0..(Target - 1) /\ \A v \in Players : seats[r][v].seat # n
    BY FreeSeatIsFree DEF join
  <1> HIDE DEF n
  <1>5. taken \in [Players -> SeatRow]
    BY <1>1, <1>4 DEF SeatRow
  <1>6. \A v \in Players :
           /\ taken[v].ready = seats[r][v].ready /\ taken[v].cycle = seats[r][v].cycle
           /\ taken[v].seat = IF v = u THEN n ELSE seats[r][v].seat
    BY <1>1 DEF SeatRow
  <1>7. n # NoSeatNo
    BY <1>4, RoomAssumption DEF NoSeatNo
  <1> HIDE DEF taken
  <1>8. seats'[r] = taken
    BY <1>1, <1>2
  <1>9. SeatsOf(r)'
    <2>1. ASSUME NEW v \in Players, taken[v].ready
          PROVE  taken[v].cycle >= 1 /\ taken[v].seat # NoSeatNo
      BY <1>1, <1>6, <1>7, <2>1 DEF SeatsOf
    <2>2. ASSUME NEW v \in Players, NEW w \in Players, taken[v].seat = taken[w].seat, v # w
          PROVE  taken[v].seat = NoSeatNo
      BY <1>1, <1>4, <1>6, <2>2 DEF SeatsOf
    <2>3. rooms'[r].state # "NONE"
      BY <1>1, <1>2
    <2> QED
      BY <1>8, <2>1, <2>2, <2>3 DEF SeatsOf
  <1>10. OutcomeOf(r)'
    BY <1>1, <1>2, NoAwards DEF OutcomeOf
  <1>11. rooms[r].state \in States /\ rooms[r].state \notin Terminal
    BY <1>1 DEF States, Terminal
  <1> QED
    BY <1>1, <1>2, <1>3, <1>5, <1>6, <1>9, <1>10, <1>11, QuietStep

\* A step of one room that leaves its seats, its escrow and its money alone.
LEMMA RoomOnly ==
  ASSUME RoomInv, NEW r \in Rooms, NEW room,
         rooms' = [rooms EXCEPT ![r] = room], UNCHANGED <<seats, chips, funding, withheld>>,
         DOMAIN room = DOMAIN NoRoom, room.state \in States, room.escrow = rooms[r].escrow,
         rooms[r].state \notin Terminal \cup {"NONE"} /\ room.state \notin Terminal \cup {"NONE"},
         OutcomeOf(r)'
  PROVE  RoomInv'
  <1>1. /\ seats[r] \in [Players -> SeatRow] /\ SeatsOf(r) /\ seats \in [Rooms -> [Players -> SeatRow]]
        /\ rooms'[r] = room
    BY DEF RoomInv, RoomOK, Shape
  <1>2. seats' = [seats EXCEPT ![r] = seats[r]]
    BY <1>1
  <1>3. SeatsOf(r)'
    BY <1>1 DEF SeatsOf
  <1> QED
    BY <1>1, <1>2, <1>3, QuietStep

\* The outcome stays as it is, in a room that is past its waiting.
LEMMA OutcomeKept ==
  ASSUME RoomInv, NEW r \in Rooms, seats' = seats, rooms'[r].outcome = rooms[r].outcome,
         rooms'[r].state \in {"NONE", "WAITING"} => rooms[r].state = rooms'[r].state
  PROVE  OutcomeOf(r)'
  BY DEF RoomInv, RoomOK, OutcomeOf, Ready

\* Nor does cancelling a room in which nobody is ready.
LEMMA CancelStep ==
  ASSUME RoomInv, NEW r \in Rooms, rooms[r].state = "WAITING",
         rooms' = [rooms EXCEPT ![r] = cancelled(r)], UNCHANGED <<seats, chips, funding, withheld>>
  PROVE  RoomInv'
  <1> DEFINE room == cancelled(r)
  <1>1. DOMAIN rooms[r] = DOMAIN NoRoom /\ rooms'[r] = room /\ RoomStake \in Nat \ {0}
    BY RoomAssumption DEF RoomInv, Shape
  <1>2. /\ DOMAIN room = DOMAIN NoRoom /\ room.state = "SETTLING" /\ room.escrow = rooms[r].escrow
        /\ room.outcome.awards = [u \in Ready(r) |-> RoomStake] /\ room.outcome.refunds = TRUE
    BY <1>1 DEF cancelled, NoRoom
  <1>3. OutcomeOf(r)'
    <2>1. Ready(r)' = Ready(r)
      BY DEF Ready
    <2> DEFINE pays == rooms'[r].outcome.awards
    <2>2. /\ DOMAIN pays = Ready(r) /\ \A u \in Ready(r) : pays[u] = RoomStake
          /\ rooms'[r].state = "SETTLING" /\ rooms'[r].outcome.refunds = TRUE
      BY <1>1, <1>2
    <2>3. \A u \in DOMAIN pays : pays[u] \in Nat /\ pays[u] >= RoomStake
      BY <1>1, <2>2
    <2>4. DOMAIN pays \subseteq Ready(r)' /\ DOMAIN pays = Ready(r)' /\ \A u \in Ready(r)' : pays[u] = RoomStake
      BY <2>1, <2>2
    <2> HIDE DEF room
    <2> QED
      BY <2>2, <2>3, <2>4 DEF OutcomeOf
  <1> HIDE DEF room
  <1> QED
    BY <1>1, <1>2, <1>3, RoomOnly DEF room, States, Terminal

\* A share of no fewer stakes than there are winners is at least a stake.
LEMMA ShareBound ==
  ASSUME NEW c \in Nat \ {0}, NEW n \in Nat, NEW m \in Nat \ {0}, m <= n
  PROVE  (c * n) \div m \in Nat /\ (c * n) \div m >= c
  <1> DEFINE a == c * n
             q == a \div m
  <1>1. a \in Nat /\ c * m <= a /\ c * m \in Nat
    BY SMTT(30)
  <1> HIDE DEF a
  <1>2. q \in Int /\ m * q <= a /\ a < m * q + m
    BY <1>1, SMTT(30)
  <1> HIDE DEF q
  <1>3. ASSUME q < c PROVE FALSE
    <2>1. q + 1 <= c
      BY <1>2, <1>3
    <2>2. m * (q + 1) <= m * c
      BY <1>2, <2>1, SMTT(30)
    <2>3. m * (q + 1) = m * q + m /\ m * c = c * m
      BY <1>2, SMTT(30)
    <2> QED
      BY <1>1, <1>2, <2>2, <2>3, SMTT(30)
  <1>4. q >= c
    BY <1>2, <1>3
  <1> QED
    BY <1>2, <1>4 DEF q, a

\* The outcome of a game awards ready players at least their stake.
LEMMA OutcomeMade ==
  ASSUME RoomInv, NEW r \in Rooms, rooms[r].state \notin Terminal,
         NEW eligible \in (SUBSET Ready(r)) \ {{}}
  PROVE  LET o == makeOutcome(r, eligible)
         IN  /\ DOMAIN o.awards \subseteq Ready(r) /\ o.refunds = FALSE
             /\ \A u \in DOMAIN o.awards : o.awards[u] \in Nat /\ o.awards[u] >= RoomStake
  <1> DEFINE f == [u \in Ready(r) |-> RoomStake]
             n == Cardinality(Ready(r))
             m == Cardinality(eligible)
             base == rooms[r].escrow \div m
  <1>1. \A u \in Ready(r) : f[u] = RoomStake
    OBVIOUS
  <1> HIDE DEF f
  <1>2. rooms[r].escrow = RoomStake * n
    BY <1>1, Stakes DEF RoomInv, RoomOK, Money, EscrowOf
  <1>3. IsFiniteSet(Ready(r)) /\ RoomStake \in Nat \ {0}
    BY <1>1, Stakes, RoomAssumption
  <1>4. IsFiniteSet(eligible) /\ n \in Nat /\ m \in Nat \ {0} /\ m <= n
    BY <1>3, FS_Subset, FS_CardinalityType, FS_EmptySet
  <1>5. base \in Nat /\ base >= RoomStake
    <2> HIDE DEF n, m
    <2> QED
      BY <1>2, <1>3, <1>4, ShareBound
  <1> HIDE DEF base, m
  <1> QED
    BY <1>3, <1>5 DEF makeOutcome, base, m

\* A game that ends awaits its settlement.
LEMMA EndStep ==
  ASSUME RoomInv, NEW r \in Rooms, rooms[r].state = "PLAYING", NEW eligible \in (SUBSET Ready(r)) \ {{}},
         rooms' = [rooms EXCEPT ![r] = ended(r, eligible)], UNCHANGED <<seats, chips, funding, withheld>>
  PROVE  RoomInv'
  <1> DEFINE room == ended(r, eligible)
             o == makeOutcome(r, eligible)
  <1>1. DOMAIN rooms[r] = DOMAIN NoRoom /\ rooms'[r] = room
    BY DEF RoomInv, Shape
  <1>2. /\ DOMAIN room = DOMAIN NoRoom /\ room.state = "SETTLING" /\ room.escrow = rooms[r].escrow
        /\ room.outcome = o
    BY <1>1 DEF ended, NoRoom
  <1>3. /\ DOMAIN o.awards \subseteq Ready(r) /\ o.refunds = FALSE
        /\ \A u \in DOMAIN o.awards : o.awards[u] \in Nat /\ o.awards[u] >= RoomStake
    BY OutcomeMade DEF Terminal
  <1> HIDE DEF room, o
  <1>4. OutcomeOf(r)'
    <2>1. Ready(r)' = Ready(r)
      BY DEF Ready
    <2> QED
      BY <1>1, <1>2, <1>3, <2>1 DEF OutcomeOf
  <1> QED
    BY <1>1, <1>2, <1>4, RoomOnly DEF room, States, Terminal

Going(r) == rooms[r].state \in {"WAITING", "PLAYING", "SETTLING"}
Marked(r, room) ==
    /\ DOMAIN room = DOMAIN NoRoom /\ room.state \in {rooms[r].state, "NEEDS_REVIEW"}
    /\ room.escrow = rooms[r].escrow /\ room.outcome = rooms[r].outcome

\* A deadline that passes, a look at the clock, and a room sent to review.
LEMMA MarkStep ==
  ASSUME RoomInv, NEW r \in Rooms, NEW room, Going(r), Marked(r, room),
         rooms' = [rooms EXCEPT ![r] = room], UNCHANGED <<seats, chips, funding, withheld>>
  PROVE  RoomInv'
  <1>1. rooms'[r] = room
    BY DEF RoomInv, Shape
  <1>2. OutcomeOf(r)'
    BY <1>1, OutcomeKept DEF Going, Marked
  <1>3. /\ rooms[r].state \notin Terminal \cup {"NONE"} /\ room.state \notin Terminal \cup {"NONE"}
        /\ room.state \in States /\ DOMAIN room = DOMAIN NoRoom /\ room.escrow = rooms[r].escrow
    BY DEF Going, Marked, States, Terminal
  <1> QED
    BY <1>2, <1>3, RoomOnly

\* The deadlines, the end of a game and an unreadable one keep RoomInv.
LEMMA ClockSteps ==
  ASSUME RoomInv, NEW r \in Rooms, Late(r) \/ GameOver(r) \/ Unreadable(r)
  PROVE  RoomInv'
  <1>1. DOMAIN rooms[r] = DOMAIN NoRoom /\ DOMAIN rooms = Rooms
    BY DEF RoomInv, Shape
  <1>2. CASE Late(r)
    <2>0. PICK room : room = [rooms[r] EXCEPT !.late = TRUE]
      OBVIOUS
    <2>1. rooms' = [rooms EXCEPT ![r] = room] /\ UNCHANGED <<seats, chips, funding, withheld>>
      BY <1>2, <2>0 DEF Late
    <2>2. Marked(r, room)
      BY <1>1, <2>0 DEF NoRoom, Marked
    <2>3. Going(r)
      BY <1>2 DEF Late, Going
    <2> QED
      BY <2>1, <2>2, <2>3, MarkStep
  <1>3. CASE GameOver(r)
    <2>0. PICK room : room = [rooms[r] EXCEPT !.over = TRUE, !.late = TRUE]
      OBVIOUS
    <2>1. rooms' = [rooms EXCEPT ![r] = room] /\ UNCHANGED <<seats, chips, funding, withheld>>
      BY <1>1, <1>3, <2>0 DEF GameOver
    <2>2. Marked(r, room)
      BY <1>1, <2>0 DEF NoRoom, Marked
    <2>3. Going(r)
      BY <1>3 DEF GameOver, Going
    <2> QED
      BY <2>1, <2>2, <2>3, MarkStep
  <1>4. CASE Unreadable(r)
    <2>0. PICK room : room = [rooms[r] EXCEPT !.state = "NEEDS_REVIEW", !.late = FALSE]
      OBVIOUS
    <2>1. rooms' = [rooms EXCEPT ![r] = room] /\ UNCHANGED <<seats, chips, funding, withheld>>
      BY <1>1, <1>4, <2>0 DEF Unreadable, markReview
    <2>2. Marked(r, room)
      BY <1>1, <2>0 DEF NoRoom, Marked
    <2>3. Going(r)
      BY <1>4 DEF Unreadable, Going
    <2> QED
      BY <2>1, <2>2, <2>3, MarkStep
  <1> QED
    BY <1>2, <1>3, <1>4

\* Chips from elsewhere are no row of a room.
LEMMA IncomeStep ==
  ASSUME RoomInv, NEW u, Income(u)
  PROVE  RoomInv'
  <1>1. UNCHANGED <<rooms, seats, funding, withheld>> /\ chips' = [chips EXCEPT ![u] = MaxChips]
    BY DEF Income
  <1>2. Shape'
    <2>1. chips' \in [Players -> Int]
      <3>1. chips \in [Players -> Int] /\ MaxChips \in Int
        BY RoomAssumption DEF RoomInv, Shape
      <3> QED
        BY <1>1, <3>1
    <2> QED
      BY <1>1, <2>1 DEF RoomInv, Shape
  <1>3. ASSUME NEW r \in Rooms PROVE RoomOK(r)'
    BY <1>1, OtherRoom DEF RowsOfRoom
  <1> QED
    BY <1>2, <1>3 DEF RoomInv
(***************************************************************************)
(* Rows that are added to a room.                                          *)
(***************************************************************************)
LEMMA PostsUnion ==
  ASSUME NEW old, NEW new, IsFiniteSet(old), IsFiniteSet(new), old \cap new = {},
         \A row \in old \cup new : row.amount \in Int
  PROVE  Posts(old \cup new) = Posts(old) + Posts(new) /\ Posts(old) \in Int /\ Posts(new) \in Int
  <1>1. \A row \in old : row.amount \in Int
    OBVIOUS
  <1>2. \A row \in new : row.amount \in Int
    OBVIOUS
  <1> DEFINE K == {"ESCROW"}
             L == Refunds \cup {"PAYOUT"}
  <1> HIDE DEF K, L
  <1>3. /\ Amount(old \cup new, K) = Amount(old, K) + Amount(new, K)
        /\ Amount(old \cup new, L) = Amount(old, L) + Amount(new, L)
    BY AmountUnion
  <1>4. Amount(old, K) \in Int /\ Amount(new, K) \in Int /\ Amount(old, L) \in Int /\ Amount(new, L) \in Int
    BY <1>1, <1>2, AmountInt
  <1> QED
    BY <1>3, <1>4 DEF Posts, K, L

\* What one row posts to the escrow.
LEMMA PostsOne ==
  ASSUME NEW x, x.amount \in Int, x.kind \in Kinds
  PROVE  Posts({x}) = IF x.kind = "ESCROW" THEN x.amount ELSE 0 - x.amount
  <1>1. CASE x.kind = "ESCROW"
    <2>1. Kept({x}, {"ESCROW"}) = {x} /\ Kept({x}, Refunds \cup {"PAYOUT"}) = {}
      BY <1>1 DEF Kept, Refunds
    <2>2. Amount({x}, {"ESCROW"}) = x.amount
      BY <2>1, AmountOne
    <2>3. Amount({x}, Refunds \cup {"PAYOUT"}) = 0
      BY <2>1, AmountNone
    <2> QED
      BY <1>1, <2>2, <2>3 DEF Posts
  <1>2. CASE x.kind # "ESCROW"
    <2>1. Kept({x}, {"ESCROW"}) = {} /\ Kept({x}, Refunds \cup {"PAYOUT"}) = {x}
      BY <1>2 DEF Kept, Refunds, Kinds
    <2> QED
      BY <1>2, <2>1, AmountOne, AmountNone DEF Posts
  <1> QED
    BY <1>1, <1>2

\* What one row for each player posts.
LEMMA PostsEach ==
  ASSUME NEW D, IsFiniteSet(D), NEW rows, NEW h, Lists(h, D, rows), NEW p, NEW k \in Kinds \ {"ESCROW"},
         \A u \in D : h[u].amount = p[u] /\ h[u].kind = k /\ p[u] \in Int
  PROVE  IsFiniteSet(rows) /\ Posts(rows) = 0 - SumFunctionOnSet(p, D)
  <1> DEFINE L == Refunds \cup {"PAYOUT"}
  <1>1. \A u \in D : h[u].amount = p[u] /\ h[u].kind \in L /\ p[u] \in Int
    BY DEF Kinds, Refunds
  <1>2. Kept(rows, {"ESCROW"}) = {}
    BY DEF Kept, Lists
  <1> HIDE DEF L
  <1>3. IsFiniteSet(rows) /\ Amount(rows, L) = SumFunctionOnSet(p, D)
    BY <1>1, AmountEach
  <1>4. Amount(rows, {"ESCROW"}) = 0
    BY <1>2, AmountNone
  <1>5. SumFunctionOnSet(p, D) \in Int
    BY SumInt
  <1> QED
    BY <1>3, <1>4, <1>5 DEF Posts, L

\* New rows of a room add their amounts to it and nothing to the others.
LEMMA RowsAdded ==
  ASSUME RoomInv, NEW r \in Rooms, NEW new, IsFiniteSet(new), new \cap funding = {},
         \A row \in new : row.room = r /\ row.amount \in Int, funding' = funding \cup new
  PROVE  /\ \A s \in Rooms \ {r} : RowsOfRoom(s)' = RowsOfRoom(s)
         /\ Posts(RowsOfRoom(r)') = Posts(RowsOfRoom(r)) + Posts(new)
         /\ Posts(RowsOfRoom(r)) \in Int /\ Posts(new) \in Int
         /\ \A u \in Players, c \in 0..MaxCycle :
               RowsOf(r, u, c)' = RowsOf(r, u, c) \cup {row \in new : row.user = u /\ row.cycle = c}
  <1>1. \A s \in Rooms \ {r} : RowsOfRoom(s)' = RowsOfRoom(s)
    BY DEF RowsOfRoom
  <1>2. RowsOfRoom(r)' = RowsOfRoom(r) \cup new
    BY DEF RowsOfRoom
  <1>3. /\ IsFiniteSet(RowsOfRoom(r)) /\ RowsOfRoom(r) \cap new = {}
        /\ \A row \in RowsOfRoom(r) \cup new : row.amount \in Int
    BY FS_Subset DEF RoomInv, Shape, RowsOfRoom
  <1>4. /\ Posts(RowsOfRoom(r) \cup new) = Posts(RowsOfRoom(r)) + Posts(new)
        /\ Posts(RowsOfRoom(r)) \in Int /\ Posts(new) \in Int
    BY <1>3, PostsUnion
  <1>5. \A u \in Players, c \in 0..MaxCycle :
           RowsOf(r, u, c)' = RowsOf(r, u, c) \cup {row \in new : row.user = u /\ row.cycle = c}
    BY DEF RowsOf
  <1> QED
    BY <1>1, <1>2, <1>4, <1>5

(***************************************************************************)
(* READY, UNREADY and LEAVE.                                               *)
(***************************************************************************)
\* One player of a waiting room stakes or takes the stake back.
LEMMA StakeMoved ==
  ASSUME RoomInv, NEW r \in Rooms, NEW u \in Players, NEW x,
         x.room = r, x.user = u, x.kind \in {"ESCROW", "REFUND"}, x.amount = RoomStake, x \notin funding,
         funding' = funding \cup {x}, withheld' = withheld,
         rooms[r].state \notin Terminal, rooms'[r].state \notin Terminal,
         seats[r][u].ready <=> x.kind = "REFUND",
         seats'[r][u].ready <=> x.kind = "ESCROW",
         \A v \in Players \ {u} : seats'[r][v].ready = seats[r][v].ready,
         rooms'[r].escrow = IF x.kind = "ESCROW" THEN rooms[r].escrow + RoomStake
                            ELSE rooms[r].escrow - RoomStake
  PROVE  EscrowOf(r)'
  <1>1. /\ IsFiniteSet(Players) /\ RoomStake \in Int
        /\ rooms[r].escrow = SumFunctionOnSet(StakeOf(r), Players)
        /\ rooms[r].escrow = Balance(r)
    BY RoomAssumption DEF RoomInv, RoomOK, Money, EscrowOf
  <1>2. PICK f : f = StakeOf(r)
    OBVIOUS
  <1>3. PICK g : g = StakeOf(r)'
    OBVIOUS
  <1>4. /\ \A v \in Players : f[v] \in Int /\ g[v] \in Int
        /\ \A v \in Players \ {u} : g[v] = f[v]
    BY <1>1, <1>2, <1>3 DEF StakeOf
  <1>5. SumFunctionOnSet(g, Players) = SumFunctionOnSet(f, Players) + (g[u] - f[u])
    BY <1>1, <1>4, SumUpdate
  <1>6. /\ g[u] - f[u] = IF x.kind = "ESCROW" THEN RoomStake ELSE 0 - RoomStake
        /\ SumFunctionOnSet(f, Players) \in Int
    BY <1>1, <1>2, <1>3, <1>4, SumInt DEF StakeOf
  <1>7. rooms'[r].escrow = SumFunctionOnSet(StakeOf(r)', Players)
    <2>1. rooms[r].escrow = SumFunctionOnSet(f, Players)
      BY <1>1, <1>2
    <2>2. rooms'[r].escrow = SumFunctionOnSet(g, Players)
      BY <1>1, <1>5, <1>6, <2>1
    <2> QED
      BY <1>3, <2>2
  <1>8. Posts({x}) = IF x.kind = "ESCROW" THEN RoomStake ELSE 0 - RoomStake
    BY <1>1, PostsOne DEF Kinds
  <1>9. Posts(RowsOfRoom(r)') = Posts(RowsOfRoom(r)) + Posts({x}) /\ Posts(RowsOfRoom(r)) \in Int
    <2>1. IsFiniteSet({x}) /\ {x} \cap funding = {} /\ \A row \in {x} : row.room = r /\ row.amount \in Int
      BY <1>1, FS_Singleton
    <2> QED
      BY <2>1, RowsAdded
  <1>10. SumFunctionOnSet(withheld[r], Players) \in Int
    BY <1>1, SumInt DEF RoomInv, Shape
  <1>11. rooms'[r].escrow = Posts(RowsOfRoom(r)') - SumFunctionOnSet(withheld[r], Players)
    BY <1>1, <1>8, <1>9, <1>10 DEF Balance
  <1>12. SumFunctionOnSet(withheld'[r], Players) = SumFunctionOnSet(withheld[r], Players)
    OBVIOUS
  <1> QED
    BY <1>7, <1>11, <1>12 DEF EscrowOf, Balance

\* A stake that is taken or given back, with its row, keeps RoomInv.
LEMMA StakeStep ==
  ASSUME RoomInv, NEW r \in Rooms, NEW u \in Players, NEW c \in 0..MaxCycle, NEW k \in {"ESCROW", "REFUND"},
         NEW x, x = Entry(r, u, c, k, RoomStake), x \notin funding,
         NEW room, NEW taken \in [Players -> SeatRow],
         rooms' = [rooms EXCEPT ![r] = room], seats' = [seats EXCEPT ![r] = taken],
         chips' \in [Players -> Int], funding' = funding \cup {x}, withheld' = withheld,
         rooms[r].state = "WAITING", DOMAIN room = DOMAIN NoRoom, room.state \in {"WAITING", "PLAYING"},
         room.outcome = rooms[r].outcome,
         room.escrow = IF k = "ESCROW" THEN rooms[r].escrow + RoomStake ELSE rooms[r].escrow - RoomStake,
         \A v \in Players \ {u} : taken[v] = seats[r][v],
         seats[r][u].ready <=> k = "REFUND", taken[u].ready <=> k = "ESCROW",
         taken[u].ready => taken[u].cycle >= 1 /\ taken[u].seat # NoSeatNo,
         taken[u].seat \in {seats[r][u].seat, NoSeatNo},
         \A d \in 0..MaxCycle : Posted(r, u, d)'
  PROVE  RoomInv'
  <1>1. /\ Shape /\ SeatsOf(r) /\ OutcomeOf(r) /\ WithheldOf(r) /\ EscrowOf(r)
        /\ \A v \in Players, d \in 0..MaxCycle : Posted(r, v, d)
        /\ rooms'[r] = room /\ seats'[r] = taken
        /\ RoomStake \in Nat
    BY RoomAssumption DEF RoomInv, RoomOK, Money, Shape
  <1>2. /\ x.room = r /\ x.user = u /\ x.cycle = c /\ x.kind = k /\ x.amount = RoomStake
        /\ x = Entry(x.room, x.user, x.cycle, x.kind, x.amount) /\ k \in Kinds
    BY DEF Entry, Kinds
  <1>3. /\ rooms[r].state \notin Terminal /\ room.state \notin Terminal \cup {"NONE"}
        /\ room.state \in States
    BY DEF Terminal, States
  <1>4. Shape'
    <2>1. IsFiniteSet(funding \cup {x})
      BY <1>1, FS_AddElement DEF Shape
    <2>2. /\ rooms' = [s \in Rooms |-> rooms'[s]]
          /\ \A s \in Rooms : /\ DOMAIN rooms'[s] = DOMAIN NoRoom /\ rooms'[s].state \in States
                              /\ rooms'[s].escrow \in Int
      <3>1. room.escrow \in Int
        BY <1>1 DEF Shape
      <3> QED
        BY <1>1, <1>3, <3>1 DEF Shape
    <2>3. seats' \in [Rooms -> [Players -> SeatRow]] /\ withheld' \in [Rooms -> [Players -> Nat]]
      BY <1>1 DEF Shape
    <2>4. ASSUME NEW row \in funding'
          PROVE  /\ row = Entry(row.room, row.user, row.cycle, row.kind, row.amount)
                 /\ row.room \in Rooms /\ row.user \in Players /\ row.cycle \in 0..MaxCycle
                 /\ row.kind \in Kinds /\ row.amount \in Nat
      BY <1>1, <1>2 DEF Shape
    <2> QED
      BY <2>1, <2>2, <2>3, <2>4 DEF Shape
  <1>5. RoomOK(r)'
    <2>1. SeatsOf(r)'
      BY <1>1, <1>3 DEF SeatsOf
    <2>2. OutcomeOf(r)'
      BY <1>1, NoAwards DEF OutcomeOf
    <2>3. WithheldOf(r)'
      BY <1>1, <1>3 DEF WithheldOf
    <2>4. EscrowOf(r)'
      BY <1>1, <1>2, <1>3, StakeMoved
    <2>5. ASSUME NEW v \in Players \ {u}, NEW d \in 0..MaxCycle
          PROVE  Posted(r, v, d)'
      <3>1. RowsOf(r, v, d)' = RowsOf(r, v, d)
        BY <1>2 DEF RowsOf
      <3>2. LastRows(r, v)' = {{}} /\ LastRows(r, v) = {{}}
        BY <1>1, <1>3 DEF LastRows
      <3>3. /\ Posted(r, v, d) /\ seats'[r][v] = seats[r][v]
            /\ Backed(r, v, d)' = Backed(r, v, d)
        BY <1>1 DEF Backed
      <3> QED
        BY <3>1, <3>2, <3>3 DEF Posted
    <2>6. \A v \in Players, d \in 0..MaxCycle : Posted(r, v, d)'
      BY <2>5
    <2> QED
      BY <2>1, <2>2, <2>3, <2>4, <2>6 DEF RoomOK, Money
  <1>6. ASSUME NEW s \in Rooms \ {r}
        PROVE  RoomOK(s)'
    <2>1. rooms'[s] = rooms[s] /\ seats'[s] = seats[s] /\ withheld'[s] = withheld[s]
      BY <1>1 DEF Shape
    <2>2. RowsOfRoom(s)' = RowsOfRoom(s)
      BY <1>2 DEF RowsOfRoom
    <2> QED
      BY <2>1, <2>2, OtherRoom
  <1> QED
    BY <1>4, <1>5, <1>6 DEF RoomInv

\* ready takes a stake, and starts a full room.
LEMMA ReadyStep ==
  ASSUME RoomInv, NEW r \in Rooms, NEW u \in Players, ready(u, r)
  PROVE  RoomInv'
  <1>1. PICK c : c = seats[r][u].cycle + 1
    OBVIOUS
  <1>2. PICK x : x = Entry(r, u, c, "ESCROW", RoomStake)
    OBVIOUS
  <1>3. PICK room : room = [rooms[r] EXCEPT !.escrow = rooms[r].escrow + RoomStake,
                               !.state = IF Cardinality(Ready(r)) + 1 = Target THEN "PLAYING" ELSE rooms[r].state]
    OBVIOUS
  <1>4. PICK taken : taken = [seats[r] EXCEPT ![u] = [seats[r][u] EXCEPT !.cycle = c, !.ready = TRUE]]
    OBVIOUS
  <1>5. /\ Shape /\ SeatsOf(r) /\ \A d \in 0..MaxCycle : Posted(r, u, d)
        /\ seats[r] \in [Players -> SeatRow] /\ DOMAIN rooms[r] = DOMAIN NoRoom
        /\ MaxCycle \in Nat /\ RoomStake \in Nat
    BY RoomAssumption DEF RoomInv, RoomOK, Money, Shape
  <1>6. /\ rooms[r].state = "WAITING" /\ ~seats[r][u].ready /\ SeatedIn(r, u)
        /\ c <= MaxCycle /\ withheld' = withheld
    BY <1>1 DEF ready
  <1>7. c \in 1..MaxCycle /\ c \in 0..MaxCycle
    BY <1>1, <1>5, <1>6 DEF SeatRow
  <1>8. funding' = funding \cup {x}
    BY <1>1, <1>2 DEF ready, Row, Entry
  <1>9. chips' \in [Players -> Int]
    BY <1>5 DEF ready, Shape
  <1>10. rooms' = [rooms EXCEPT ![r] = room]
    BY <1>3, <1>5 DEF ready, Shape, NoRoom
  <1>11. seats' = [seats EXCEPT ![r] = taken]
    BY <1>1, <1>4, <1>5 DEF ready, Shape
  <1>12. /\ taken \in [Players -> SeatRow] /\ taken[u].cycle = c /\ taken[u].ready
         /\ taken[u].seat = seats[r][u].seat /\ taken[u].seat # NoSeatNo
         /\ \A v \in Players \ {u} : taken[v] = seats[r][v]
    BY <1>4, <1>5, <1>6, <1>7 DEF SeatRow, SeatedIn
  <1>13. /\ DOMAIN room = DOMAIN NoRoom /\ room.state \in {"WAITING", "PLAYING"}
         /\ room.outcome = rooms[r].outcome /\ room.escrow = rooms[r].escrow + RoomStake
    BY <1>3, <1>5, <1>6 DEF NoRoom
  <1>14. /\ x.user = u /\ x.cycle = c
         /\ rooms'[r] = room /\ seats'[r] = taken /\ room.state \notin Terminal
    BY <1>2, <1>5, <1>10, <1>11, <1>13 DEF Entry, Shape, Terminal
  <1>15. x \notin funding
    <2>1. RowsOf(r, u, c) = {}
      BY <1>1, <1>5, <1>7 DEF Posted, SeatRow
    <2> QED
      BY <1>2, <2>1 DEF RowsOf, Entry
  <1>16. ASSUME NEW d \in 0..MaxCycle
         PROVE  Posted(r, u, d)'
    <2>1. RowsOf(r, u, d)' = RowsOf(r, u, d) \cup (IF d = c THEN {x} ELSE {})
      BY <1>2, <1>8, <1>14 DEF RowsOf, Entry
    <2>2. LastRows(r, u)' = {{}}
      BY <1>14 DEF LastRows
    <2>3. Posted(r, u, d) /\ ~Backed(r, u, d) /\ (Backed(r, u, d)' <=> d = c) /\ (seats'[r][u]).cycle = c
      BY <1>5, <1>6, <1>12, <1>14 DEF Backed
    <2>4. CASE d = c
      <3>1. RowsOf(r, u, d) = {}
        BY <1>1, <1>5, <1>7, <2>3, <2>4 DEF Posted, SeatRow
      <3> QED
        BY <1>2, <1>7, <2>1, <2>2, <2>3, <2>4, <3>1 DEF Posted
    <2>5. CASE d # c
      <3>1. d \in 1..c <=> d \in 1..seats[r][u].cycle
        BY <1>1, <1>5, <2>5 DEF SeatRow
      <3> QED
        BY <2>1, <2>3, <2>5, <3>1 DEF Posted
    <2> QED
      BY <2>4, <2>5
  <1>17. PICK k : k = "ESCROW"
    OBVIOUS
  <1>18. /\ k \in {"ESCROW", "REFUND"} /\ x = Entry(r, u, c, k, RoomStake)
         /\ room.escrow = IF k = "ESCROW" THEN rooms[r].escrow + RoomStake ELSE rooms[r].escrow - RoomStake
         /\ (seats[r][u].ready <=> k = "REFUND") /\ (taken[u].ready <=> k = "ESCROW")
         /\ (taken[u].ready => taken[u].cycle >= 1 /\ taken[u].seat # NoSeatNo)
         /\ taken[u].seat \in {seats[r][u].seat, NoSeatNo}
    BY <1>2, <1>6, <1>7, <1>12, <1>13, <1>17
  <1> QED
    BY <1>6, <1>7, <1>8, <1>9, <1>10, <1>11, <1>12, <1>13, <1>15, <1>16, <1>18, StakeStep

\* unready and leave give it back.
LEMMA UnreadyStep ==
  ASSUME RoomInv, NEW r \in Rooms, NEW u \in Players, NEW leave \in BOOLEAN, unready(u, r, leave)
  PROVE  RoomInv'
  <1>1. PICK c : c = seats[r][u].cycle
    OBVIOUS
  <1>2. PICK x : x = Entry(r, u, c, "REFUND", RoomStake)
    OBVIOUS
  <1>3. PICK room : room = IF seats[r][u].ready
                           THEN [rooms[r] EXCEPT !.escrow = rooms[r].escrow - RoomStake] ELSE rooms[r]
    OBVIOUS
  <1>4. PICK taken : taken = [seats[r] EXCEPT ![u] =
              IF leave THEN [seats[r][u] EXCEPT !.ready = FALSE, !.seat = NoSeatNo, !.active = FALSE]
              ELSE [seats[r][u] EXCEPT !.ready = FALSE]]
    OBVIOUS
  <1>5. /\ Shape /\ SeatsOf(r) /\ OutcomeOf(r) /\ \A d \in 0..MaxCycle : Posted(r, u, d)
        /\ seats[r] \in [Players -> SeatRow] /\ DOMAIN rooms[r] = DOMAIN NoRoom
        /\ MaxCycle \in Nat /\ RoomStake \in Nat /\ c \in 0..MaxCycle
    BY <1>1, RoomAssumption DEF RoomInv, RoomOK, Money, Shape, SeatRow
  <1>6. rooms[r].state = "WAITING" /\ withheld' = withheld
    BY DEF unready
  <1>7. chips' \in [Players -> Int]
    BY <1>5 DEF unready, Shape
  <1>8. rooms' = [rooms EXCEPT ![r] = room]
    BY <1>3, <1>5 DEF unready, Shape, NoRoom
  <1>9. seats' = [seats EXCEPT ![r] = taken]
    BY <1>4, <1>5 DEF unready, Shape
  <1>10. /\ taken \in [Players -> SeatRow] /\ taken[u].cycle = c /\ ~taken[u].ready
         /\ taken[u].seat \in {seats[r][u].seat, NoSeatNo}
         /\ \A v \in Players \ {u} : taken[v] = seats[r][v]
    BY <1>1, <1>4, <1>5 DEF SeatRow
  <1>11. /\ DOMAIN room = DOMAIN NoRoom /\ room.state = "WAITING" /\ room.outcome = rooms[r].outcome
         /\ room.escrow = IF seats[r][u].ready THEN rooms[r].escrow - RoomStake ELSE rooms[r].escrow
    BY <1>3, <1>5, <1>6 DEF NoRoom
  <1>12. rooms'[r] = room /\ seats'[r] = taken /\ room.state \notin Terminal
    BY <1>5, <1>8, <1>9, <1>11 DEF Shape, Terminal
  <1>13. CASE ~seats[r][u].ready
    <2>1. funding' = funding /\ chips' = chips
      BY <1>13 DEF unready
    <2>2. SeatsOf(r)'
      BY <1>5, <1>10, <1>11, <1>12 DEF SeatsOf
    <2>3. OutcomeOf(r)'
      BY <1>5, <1>6, <1>11, <1>12, NoAwards DEF OutcomeOf
    <2>4. /\ room.escrow = rooms[r].escrow /\ room.state \in States /\ rooms[r].state \notin Terminal
          /\ \A v \in Players : taken[v].ready = seats[r][v].ready /\ taken[v].cycle = seats[r][v].cycle
      <3>1. seats[r][u].ready = FALSE /\ taken[u].ready = FALSE
        BY <1>5, <1>10, <1>13 DEF SeatRow
      <3> QED
        BY <1>1, <1>6, <1>10, <1>11, <1>13, <3>1 DEF States, Terminal
    <2>5. UNCHANGED <<chips, funding, withheld>>
      BY <1>6, <2>1
    <2> QED
      BY <1>8, <1>9, <1>10, <1>11, <1>12, <2>2, <2>3, <2>4, <2>5, QuietStep
  <1>14. CASE seats[r][u].ready
    <2>1. funding' = funding \cup {x}
      BY <1>1, <1>2, <1>14 DEF unready, Row, Entry
    <2>2. PICK stake : stake = Entry(r, u, c, "ESCROW", RoomStake)
      OBVIOUS
    <2>3. RowsOf(r, u, c) = {stake}
      <3>1. c \in 1..c /\ Backed(r, u, c)
        BY <1>1, <1>5, <1>14 DEF SeatsOf, Backed
      <3>2. LastRows(r, u) = {{}}
        BY <1>6 DEF LastRows, Terminal
      <3> QED
        BY <1>1, <1>5, <2>2, <3>1, <3>2 DEF Posted
    <2>4. x \notin funding
      BY <1>2, <2>2, <2>3 DEF RowsOf, Entry
    <2>5. ASSUME NEW d \in 0..MaxCycle
          PROVE  Posted(r, u, d)'
      <3>1. RowsOf(r, u, d)' = RowsOf(r, u, d) \cup (IF d = c THEN {x} ELSE {})
        BY <1>2, <2>1 DEF RowsOf, Entry
      <3>2. /\ ~Backed(r, u, d)' /\ (Backed(r, u, d) <=> d = c) /\ (seats'[r][u]).cycle = c
            /\ Posted(r, u, d)
        BY <1>1, <1>5, <1>10, <1>12, <1>14 DEF Backed
      <3>3. CASE d = c
        <4>1. RowsOf(r, u, d)' = {stake, x}
          BY <2>3, <3>1, <3>3
        <4>2. d \in 1..c
          BY <1>1, <1>5, <1>14, <3>3 DEF SeatsOf
        <4>3. /\ RowsOf(r, u, d)' = {Entry(r, u, d, "ESCROW", RoomStake), Entry(r, u, d, "REFUND", RoomStake)}
              /\ d \in 1..(seats'[r][u]).cycle
          BY <1>2, <2>2, <3>2, <3>3, <4>1, <4>2
        <4> QED
          BY <3>2, <4>3 DEF Posted
      <3>4. CASE d # c
        BY <1>1, <3>1, <3>2, <3>4 DEF Posted
      <3> QED
        BY <3>3, <3>4
    <2>6. PICK k : k = "REFUND"
      OBVIOUS
    <2>7. /\ k \in {"ESCROW", "REFUND"} /\ x = Entry(r, u, c, k, RoomStake)
          /\ room.escrow = IF k = "ESCROW" THEN rooms[r].escrow + RoomStake ELSE rooms[r].escrow - RoomStake
          /\ (seats[r][u].ready <=> k = "REFUND") /\ (taken[u].ready <=> k = "ESCROW")
          /\ (taken[u].ready => taken[u].cycle >= 1 /\ taken[u].seat # NoSeatNo)
          /\ room.state \in {"WAITING", "PLAYING"}
      BY <1>2, <1>10, <1>11, <1>14, <2>6
    <2> QED
      BY <1>5, <1>6, <1>7, <1>8, <1>9, <1>10, <1>11, <2>1, <2>4, <2>5, <2>7, StakeStep
  <1> QED
    BY <1>13, <1>14
(***************************************************************************)
(* Settlement and void.                                                    *)
(***************************************************************************)
\* The cap splits an award that is at least the stake, and leaves nothing alone.
LEMMA CapSplit ==
  ASSUME NEW total \in Int, NEW gross \in Nat, gross = 0 \/ gross >= RoomStake
  PROVE  LET d == CapPayout(Cap, total, RoomStake, gross, 1)
         IN  /\ d.credited \in Nat /\ d.withheld \in Nat /\ d.credited + d.withheld = gross
             /\ gross > 0 => d.credited >= RoomStake
  <1> DEFINE principal == Least(RoomStake, gross)
             base == total - RoomStake + principal
             room == Greatest(Cap - base, 0)
             part == Least(gross - principal, room)
  <1>1. Cap \in Nat /\ RoomStake \in Nat \ {0}
    BY RoomAssumption
  <1>2. /\ principal \in Nat /\ principal <= gross
        /\ gross > 0 => principal = RoomStake
        /\ base \in Int
    BY <1>1 DEF Least
  <1>3. room \in Nat
    BY <1>1, <1>2 DEF Greatest
  <1>4. part \in Nat /\ principal + part <= gross
    BY <1>2, <1>3 DEF Least
  <1>5. part % 1 = 0
    BY <1>4
  <1>6. ClippedProfit(Cap, base, gross - principal, 1) = part
    BY <1>4, <1>5 DEF ClippedProfit
  <1> HIDE DEF principal, base, room, part
  <1>7. /\ CapPayout(Cap, total, RoomStake, gross, 1).credited = principal + part
        /\ CapPayout(Cap, total, RoomStake, gross, 1).withheld = gross - (principal + part)
    BY <1>6 DEF CapPayout, principal, base
  <1> QED
    BY <1>1, <1>2, <1>4, <1>7

\* A room closes with outcome o: what p gives, in rows of kind k, and what the cap keeps.
Closes(r, o, k, p, kept) ==
    /\ rooms[r].state \notin Terminal \cup {"NONE"}
    /\ DOMAIN o.awards \subseteq Ready(r) /\ kept \in [Players -> Nat]
    /\ \A u \in DOMAIN o.awards : /\ o.awards[u] \in Nat /\ p[u] \in Nat /\ p[u] >= RoomStake
                                  /\ p[u] + kept[u] = o.awards[u]
    /\ \A u \in Players \ DOMAIN o.awards : kept[u] = 0
    /\ \/ /\ o.refunds = TRUE /\ k \in Refunds /\ DOMAIN o.awards = Ready(r)
          /\ \A u \in Ready(r) : o.awards[u] = RoomStake /\ kept[u] = 0
       \/ o.refunds = FALSE /\ k = "PAYOUT"
    /\ SumFunctionOnSet(o.awards, DOMAIN o.awards) = rooms[r].escrow
ClosesTo(r, o, k, p, kept) ==
    /\ Closes(r, o, k, p, kept)
    /\ funding' = funding \cup {Entry(r, u, seats[r][u].cycle, k, p[u]) : u \in DOMAIN o.awards}
    /\ withheld' = [withheld EXCEPT ![r] = kept] /\ chips' \in [Players -> Int]
    /\ rooms' = [rooms EXCEPT ![r] = rooms'[r]] /\ DOMAIN rooms'[r] = DOMAIN NoRoom
    /\ rooms'[r].state \in Terminal /\ rooms'[r].escrow = 0 /\ rooms'[r].outcome = o
    /\ seats' = [seats EXCEPT ![r] = [u \in Players |-> [seats[r][u] EXCEPT !.active = FALSE]]]

\* The assets of a player are a number.
LEMMA AssetsInt ==
  ASSUME RoomInv, NEW u \in Players
  PROVE  Assets(u) \in Int
  <1> DEFINE f == [r \in Rooms |->
                     IF rooms[r].state \notin Terminal /\ u \in Ready(r) THEN RoomStake ELSE 0]
  <1>1. IsFiniteSet(Rooms) /\ RoomStake \in Int
    BY RoomAssumption
  <1>2. \A r \in Rooms : f[r] \in Int
    BY <1>1
  <1> HIDE DEF f
  <1>3. SumFunctionOnSet(f, Rooms) \in Int
    BY <1>1, <1>2, SumInt
  <1>4. chips[u] \in Int
    BY DEF RoomInv, Shape
  <1> QED
    BY <1>3, <1>4 DEF Assets, f

\* A void closes the room with refunds.
LEMMA VoidCloses ==
  ASSUME RoomInv, NEW r \in Rooms, SystemVoid(r)
  PROVE  \E o, k, p, kept : ClosesTo(r, o, k, p, kept)
  <1>1. PICK o : o = [awards |-> [u \in Ready(r) |-> RoomStake], refunds |-> TRUE]
    OBVIOUS
  <1>2. PICK p : p = [u \in Ready(r) |-> RoomStake]
    OBVIOUS
  <1>3. PICK kept : kept = withheld[r]
    OBVIOUS
  <1>4. PICK k : k = "VOID_REFUND"
    OBVIOUS
  <1>5. Shape /\ WithheldOf(r) /\ RoomStake \in Nat /\ DOMAIN rooms[r] = DOMAIN NoRoom
    BY RoomAssumption DEF RoomInv, RoomOK, Money, Shape
  <1>6. /\ rooms[r].state \notin Terminal \cup {"NONE"}
        /\ SumFunctionOnSet(p, Ready(r)) = rooms[r].escrow
    BY <1>2 DEF SystemVoid, Open, voidMaterial
  <1>7. /\ DOMAIN o.awards = Ready(r) /\ Ready(r) \subseteq Players /\ o.refunds = TRUE /\ o.awards = p
        /\ \A u \in Ready(r) : o.awards[u] = RoomStake /\ p[u] = RoomStake
        /\ kept \in [Players -> Nat] /\ \A u \in Players : kept[u] = 0
    BY <1>1, <1>2, <1>3, <1>5, <1>6 DEF Ready, Shape, WithheldOf
  <1>8. Closes(r, o, k, p, kept)
    <2>1. \A u \in Ready(r) : p[u] \in Nat /\ p[u] >= RoomStake /\ p[u] + kept[u] = o.awards[u]
      BY <1>5, <1>7
    <2> QED
      BY <1>4, <1>5, <1>6, <1>7, <2>1 DEF Closes, Refunds
  <1>9. funding' = funding \cup {Entry(r, u, seats[r][u].cycle, k, p[u]) : u \in DOMAIN o.awards}
    <2>1. \A u \in Ready(r) : Row(r, u, "VOID_REFUND", RoomStake) = Entry(r, u, seats[r][u].cycle, k, p[u])
      BY <1>4, <1>7 DEF Row, Entry
    <2>2. funding' = funding \cup {Row(r, u, "VOID_REFUND", RoomStake) : u \in Ready(r)}
      BY DEF SystemVoid
    <2> QED
      BY <1>7, <2>1, <2>2
  <1>10. withheld' = [withheld EXCEPT ![r] = kept]
    BY <1>3, <1>5 DEF SystemVoid, Shape
  <1>11. chips' \in [Players -> Int]
    BY <1>5 DEF SystemVoid, Shape
  <1>12. /\ rooms' = [rooms EXCEPT ![r] = rooms'[r]] /\ DOMAIN rooms'[r] = DOMAIN NoRoom
         /\ rooms'[r].state \in Terminal /\ rooms'[r].escrow = 0 /\ rooms'[r].outcome = o
    BY <1>1, <1>5 DEF SystemVoid, Shape, NoRoom, Terminal
  <1>13. seats' = [seats EXCEPT ![r] = [u \in Players |-> [seats[r][u] EXCEPT !.active = FALSE]]]
    BY <1>5 DEF SystemVoid, Shape
  <1>14. ClosesTo(r, o, k, p, kept)
    BY <1>8, <1>9, <1>10, <1>11, <1>12, <1>13 DEF ClosesTo
  <1> QED
    BY <1>14


\* A settlement closes it with awards, or leaves it for review.
LEMMA SettleCloses ==
  ASSUME RoomInv, NEW r \in Rooms, settle(r), rooms[r].state = "SETTLING"
  PROVE  \/ rooms' = [rooms EXCEPT ![r].state = "NEEDS_REVIEW"] /\ UNCHANGED <<seats, chips, funding, withheld>>
         \/ \E o, k, p, kept : ClosesTo(r, o, k, p, kept)
  <1> SUFFICES ASSUME ~(/\ rooms' = [rooms EXCEPT ![r].state = "NEEDS_REVIEW"]
                        /\ UNCHANGED <<seats, chips, funding, withheld>>)
               PROVE  \E o, k, p, kept : ClosesTo(r, o, k, p, kept)
    OBVIOUS
  <1>1. PICK o : o = rooms[r].outcome
    OBVIOUS
  <1>2. PICK p : p = [u \in Players |-> Credited(r, u)]
    OBVIOUS
  <1>3. PICK kept : kept = [u \in Players |-> IF Capped(r) /\ u \in Ready(r) THEN Decision(r, u).withheld ELSE 0]
    OBVIOUS
  <1>4. PICK k : k = IF o.refunds THEN "REFUND" ELSE "PAYOUT"
    OBVIOUS
  <1>5. /\ Shape /\ OutcomeOf(r) /\ RoomStake \in Nat \ {0} /\ DOMAIN rooms[r] = DOMAIN NoRoom
    BY RoomAssumption DEF RoomInv, RoomOK, Money, Shape
  <1>6. /\ SumFunctionOnSet(o.awards, DOMAIN o.awards) = rooms[r].escrow
        /\ funding' = funding \cup {Row(r, u, k, Credited(r, u)) : u \in DOMAIN o.awards}
        /\ chips' = [u \in Players |-> chips[u] + IF u \in DOMAIN o.awards THEN Credited(r, u) ELSE 0]
        /\ withheld' = [withheld EXCEPT ![r] = kept]
        /\ rooms' = [rooms EXCEPT ![r].escrow = 0, ![r].state = IF o.refunds THEN "CANCELLED" ELSE "FINISHED"]
        /\ seats' = [seats EXCEPT ![r] = [u \in Players |-> [@[u] EXCEPT !.active = FALSE]]]
    BY <1>1, <1>3, <1>4 DEF settle, Sound
  <1>7. /\ DOMAIN o.awards \subseteq Ready(r) /\ Ready(r) \subseteq Players /\ o.refunds \in BOOLEAN
        /\ \A u \in DOMAIN o.awards : o.awards[u] \in Nat /\ o.awards[u] >= RoomStake
        /\ o.refunds => DOMAIN o.awards = Ready(r) /\ \A u \in Ready(r) : o.awards[u] = RoomStake
    BY <1>1, <1>5 DEF OutcomeOf, Ready
  <1>8. ASSUME NEW u \in Players
        PROVE  /\ p[u] \in Nat /\ kept[u] \in Nat
               /\ u \in DOMAIN o.awards => p[u] >= RoomStake /\ p[u] + kept[u] = o.awards[u]
               /\ u \notin DOMAIN o.awards => kept[u] = 0
               /\ o.refunds => kept[u] = 0
    <2>1. /\ p[u] = Credited(r, u)
          /\ kept[u] = IF Capped(r) /\ u \in Ready(r) THEN Decision(r, u).withheld ELSE 0
      BY <1>2, <1>3
    <2>2. PICK g : g = Gross(r, u)
      OBVIOUS
    <2>3. /\ g \in Nat /\ (g = 0 \/ g >= RoomStake)
          /\ u \in DOMAIN o.awards => g = o.awards[u] /\ g > 0
          /\ u \notin DOMAIN o.awards => g = 0
      BY <1>1, <1>5, <1>7, <2>2 DEF Gross
    <2>4. PICK total : total = Assets(u)
      OBVIOUS
    <2>5. total \in Int
      BY <2>4, AssetsInt
    <2>6. PICK d : d = CapPayout(Cap, total, RoomStake, g, 1)
      OBVIOUS
    <2>7. /\ d.credited \in Nat /\ d.withheld \in Nat /\ d.credited + d.withheld = g
          /\ g > 0 => d.credited >= RoomStake
      BY <2>3, <2>5, <2>6, CapSplit
    <2>8. Decision(r, u) = d
      BY <2>2, <2>4, <2>6 DEF Decision
    <2>9. CASE Capped(r)
      <3>1. p[u] = d.credited /\ kept[u] = IF u \in Ready(r) THEN d.withheld ELSE 0
        BY <2>1, <2>8, <2>9 DEF Credited
      <3>2. ~o.refunds
        BY <1>1, <2>9 DEF Capped
      <3> QED
        BY <1>7, <2>3, <2>7, <3>1, <3>2
    <2>10. CASE ~Capped(r)
      <3>1. p[u] = g /\ kept[u] = 0
        BY <2>1, <2>2, <2>10 DEF Credited
      <3> QED
        BY <1>7, <2>3, <3>1
    <2> QED
      BY <2>9, <2>10
  <1>9. Closes(r, o, k, p, kept)
    <2>1. kept \in [Players -> Nat]
      BY <1>3, <1>8
    <2>2. rooms[r].state \notin Terminal \cup {"NONE"}
      BY DEF Terminal
    <2>3. \/ /\ o.refunds = TRUE /\ k \in Refunds /\ DOMAIN o.awards = Ready(r)
             /\ \A u \in Ready(r) : o.awards[u] = RoomStake /\ kept[u] = 0
          \/ o.refunds = FALSE /\ k = "PAYOUT"
      BY <1>4, <1>7, <1>8 DEF Refunds
    <2> QED
      BY <1>6, <1>7, <1>8, <2>1, <2>2, <2>3 DEF Closes
  <1>10. funding' = funding \cup {Entry(r, u, seats[r][u].cycle, k, p[u]) : u \in DOMAIN o.awards}
    <2>1. \A u \in DOMAIN o.awards : Row(r, u, k, Credited(r, u)) = Entry(r, u, seats[r][u].cycle, k, p[u])
      BY <1>2, <1>7 DEF Row, Entry
    <2> QED
      BY <1>6, <2>1
  <1>11. chips' \in [Players -> Int]
    <2>1. \A u \in Players : Credited(r, u) \in Nat /\ chips[u] \in Int
      BY <1>2, <1>5, <1>8 DEF Shape
    <2> QED
      BY <1>6, <2>1
  <1>12. /\ rooms' = [rooms EXCEPT ![r] = rooms'[r]] /\ DOMAIN rooms'[r] = DOMAIN NoRoom
         /\ rooms'[r].state \in Terminal /\ rooms'[r].escrow = 0 /\ rooms'[r].outcome = o
    BY <1>1, <1>5, <1>6 DEF Shape, NoRoom, Terminal
  <1>13. seats' = [seats EXCEPT ![r] = [u \in Players |-> [seats[r][u] EXCEPT !.active = FALSE]]]
    BY <1>5, <1>6 DEF Shape
  <1>14. ClosesTo(r, o, k, p, kept)
    BY <1>6, <1>9, <1>10, <1>11, <1>12, <1>13 DEF ClosesTo
  <1> QED
    BY <1>14
\* What an award and what the cap keeps add up to, over the players.
LEMMA CloseSums ==
  ASSUME RoomInv, NEW r \in Rooms, NEW o, NEW k, NEW p, NEW kept, Closes(r, o, k, p, kept)
  PROVE  /\ IsFiniteSet(DOMAIN o.awards)
         /\ SumFunctionOnSet(p, DOMAIN o.awards) \in Nat
         /\ SumFunctionOnSet(kept, Players) \in Nat
         /\ SumFunctionOnSet(p, DOMAIN o.awards) + SumFunctionOnSet(kept, Players) = rooms[r].escrow
  <1> DEFINE D == DOMAIN o.awards
  <1>1. /\ D \subseteq Players /\ kept \in [Players -> Nat]
        /\ \A u \in D : o.awards[u] \in Nat /\ p[u] \in Nat /\ p[u] + kept[u] = o.awards[u]
        /\ \A u \in Players \ D : kept[u] = 0
        /\ SumFunctionOnSet(o.awards, D) = rooms[r].escrow
    BY DEF Closes, Ready
  <1> HIDE DEF D
  <1>2. IsFiniteSet(Players) /\ IsFiniteSet(D) /\ D \in SUBSET Players
    BY <1>1, FS_Subset, RoomAssumption
  <1>3. \A u \in D : p[u] \in Int /\ kept[u] \in Int /\ (o.awards)[u] = p[u] + kept[u]
    BY <1>1, <1>2
  <1>4. SumFunctionOnSet(o.awards, D) = SumFunctionOnSet(p, D) + SumFunctionOnSet(kept, D)
    BY <1>2, <1>3, SumAdd
  <1>5. \A u \in D : kept[u] \in Int /\ kept[u] = kept[u]
    BY <1>3
  <1>6. SumFunctionOnSet(kept, Players) = SumFunctionOnSet(kept, D)
    BY <1>1, <1>2, <1>5, SumWithin
  <1>7. SumFunctionOnSet(p, D) \in Nat
    BY <1>1, <1>2, SumNat
  <1>8. SumFunctionOnSet(kept, Players) \in Nat
    BY <1>1, <1>2, SumNat
  <1> QED
    BY <1>1, <1>2, <1>4, <1>6, <1>7, <1>8 DEF D

\* Closing a room posts exactly what the escrow holds.
LEMMA CloseStep ==
  ASSUME RoomInv, NEW r \in Rooms, NEW o, NEW k, NEW p, NEW kept, ClosesTo(r, o, k, p, kept)
  PROVE  RoomInv'
  <1> DEFINE D == DOMAIN o.awards
  <1>0. PICK room : room = rooms'[r]
    OBVIOUS
  <1>1. PICK h : h = [u \in D |-> Entry(r, u, seats[r][u].cycle, k, p[u])]
    OBVIOUS
  <1>2. PICK new : new = {h[u] : u \in D}
    OBVIOUS
  <1>3. PICK taken : taken = [u \in Players |-> [seats[r][u] EXCEPT !.active = FALSE]]
    OBVIOUS
  <1>4. /\ Shape /\ SeatsOf(r) /\ EscrowOf(r) /\ \A u \in Players, c \in 0..MaxCycle : Posted(r, u, c)
        /\ RoomStake \in Nat \ {0} /\ seats[r] \in [Players -> SeatRow] /\ rooms[r].escrow \in Int
    BY RoomAssumption DEF RoomInv, RoomOK, Money, Shape
  <1>5. /\ D \subseteq Ready(r) /\ D \subseteq Players /\ Ready(r) \subseteq Players
        /\ kept \in [Players -> Nat]
        /\ \A u \in D : /\ o.awards[u] \in Nat /\ o.awards[u] >= RoomStake /\ p[u] \in Nat
                        /\ p[u] >= RoomStake /\ p[u] + kept[u] = o.awards[u]
        /\ \A u \in Players \ D : kept[u] = 0
        /\ \/ /\ o.refunds = TRUE /\ k \in Refunds /\ D = Ready(r)
              /\ \A u \in Ready(r) : o.awards[u] = RoomStake /\ kept[u] = 0
           \/ o.refunds = FALSE /\ k = "PAYOUT"
        /\ rooms[r].state \notin Terminal \cup {"NONE"}
    BY <1>4 DEF ClosesTo, Closes, Ready
  <1>6. k \in Kinds \ {"ESCROW"}
    BY <1>5 DEF Kinds, Refunds
  <1>7. \A u \in D : /\ h[u] = Entry(r, u, seats[r][u].cycle, k, p[u])
                     /\ h[u].room = r /\ h[u].user = u /\ h[u].cycle = seats[r][u].cycle
                     /\ h[u].kind = k /\ h[u].amount = p[u] /\ p[u] \in Int
    BY <1>1, <1>5 DEF Entry
  <1>8. funding' = funding \cup new
    <2>1. new = {Entry(r, u, seats[r][u].cycle, k, p[u]) : u \in D}
      BY <1>2, <1>7
    <2> QED
      BY <2>1 DEF ClosesTo
  <1>9. /\ withheld' = [withheld EXCEPT ![r] = kept] /\ chips' \in [Players -> Int]
        /\ rooms' = [rooms EXCEPT ![r] = room] /\ DOMAIN room = DOMAIN NoRoom
        /\ room.state \in Terminal /\ room.escrow = 0 /\ room.outcome = o
        /\ seats' = [seats EXCEPT ![r] = taken]
    BY <1>0, <1>3 DEF ClosesTo
  <1>10. /\ withheld'[r] = kept /\ seats'[r] = taken /\ taken \in [Players -> SeatRow]
         /\ rooms'[r] = room
         /\ \A u \in Players : /\ taken[u].ready = seats[r][u].ready
                               /\ taken[u].cycle = seats[r][u].cycle /\ taken[u].seat = seats[r][u].seat
    <2>1. /\ taken \in [Players -> SeatRow]
          /\ \A u \in Players : /\ taken[u].ready = seats[r][u].ready
                                /\ taken[u].cycle = seats[r][u].cycle /\ taken[u].seat = seats[r][u].seat
      BY <1>3, <1>4 DEF SeatRow
    <2> QED
      BY <1>0, <1>4, <1>9, <2>1 DEF Shape
  <1>11. /\ IsFiniteSet(D) /\ SumFunctionOnSet(p, D) \in Nat /\ SumFunctionOnSet(kept, Players) \in Nat
         /\ SumFunctionOnSet(p, D) + SumFunctionOnSet(kept, Players) = rooms[r].escrow
    BY CloseSums DEF ClosesTo
  <1>12. IsFiniteSet(new) /\ Posts(new) = 0 - SumFunctionOnSet(p, D)
    <2> HIDE DEF D
    <2>1. \A u \in D : h[u].amount = p[u] /\ h[u].kind = k /\ p[u] \in Int
      BY <1>7
    <2>2. Lists(h, D, new)
      BY <1>2, <1>7 DEF Lists
    <2> QED
      BY <1>6, <1>11, <2>1, <2>2, PostsEach
  <1>13. \A u \in D : /\ seats[r][u].ready /\ seats[r][u].cycle \in 1..MaxCycle
                      /\ RowsOf(r, u, seats[r][u].cycle) = {Entry(r, u, seats[r][u].cycle, "ESCROW", RoomStake)}
    <2> TAKE u \in D
    <2> DEFINE c == seats[r][u].cycle
    <2>1. seats[r][u].ready /\ u \in Players
      BY <1>5 DEF Ready
    <2>2. c \in 0..MaxCycle /\ c >= 1
      BY <1>4, <2>1 DEF SeatsOf, SeatRow
    <2>3. c \in 1..c /\ Backed(r, u, c) /\ LastRows(r, u) = {{}}
      BY <1>5, <2>1, <2>2 DEF Backed, LastRows
    <2>4. RowsOf(r, u, c) = {Entry(r, u, c, "ESCROW", RoomStake)}
      BY <1>4, <2>1, <2>2, <2>3 DEF Posted
    <2> QED
      BY <2>1, <2>2, <2>4
  <1>14. new \cap funding = {}
    <2> SUFFICES ASSUME NEW u \in D, h[u] \in funding PROVE FALSE
      BY <1>2
    <2>1. h[u] \in RowsOf(r, u, seats[r][u].cycle)
      BY <1>7 DEF RowsOf
    <2>2. h[u].kind = "ESCROW"
      BY <1>13, <2>1 DEF Entry
    <2> QED
      BY <1>6, <1>7, <2>2
  <1>15. /\ \A s \in Rooms \ {r} : RowsOfRoom(s)' = RowsOfRoom(s)
         /\ Posts(RowsOfRoom(r)') = Posts(RowsOfRoom(r)) + Posts(new)
         /\ Posts(RowsOfRoom(r)) \in Int
         /\ \A u \in Players, c \in 0..MaxCycle :
               RowsOf(r, u, c)' = RowsOf(r, u, c) \cup {row \in new : row.user = u /\ row.cycle = c}
    <2>1. \A row \in new : row.room = r /\ row.amount \in Int
      BY <1>2, <1>7
    <2> QED
      BY <1>8, <1>12, <1>14, <2>1, RowsAdded
  <1> HIDE DEF D
  <1>16. Shape'
    <2>1. IsFiniteSet(funding \cup new)
      BY <1>4, <1>12, FS_Union DEF Shape
    <2>2. /\ rooms' = [s \in Rooms |-> rooms'[s]]
          /\ \A s \in Rooms : /\ DOMAIN rooms'[s] = DOMAIN NoRoom /\ rooms'[s].state \in States
                              /\ rooms'[s].escrow \in Int
      BY <1>4, <1>9, <1>10 DEF Shape, States
    <2>3. seats' \in [Rooms -> [Players -> SeatRow]] /\ withheld' \in [Rooms -> [Players -> Nat]]
      BY <1>4, <1>5, <1>9, <1>10 DEF Shape
    <2>4. ASSUME NEW row \in new
          PROVE  /\ row = Entry(row.room, row.user, row.cycle, row.kind, row.amount)
                 /\ row.room \in Rooms /\ row.user \in Players /\ row.cycle \in 0..MaxCycle
                 /\ row.kind \in Kinds /\ row.amount \in Nat
      <3>1. PICK u \in D : row = h[u]
        BY <1>2
      <3>2. seats[r][u].cycle \in 0..MaxCycle
        BY <1>4, <1>5 DEF SeatRow
      <3> QED
        BY <1>5, <1>6, <1>7, <3>1, <3>2
    <2> QED
      BY <1>4, <1>8, <1>9, <2>1, <2>2, <2>3, <2>4 DEF Shape
  <1>17. RoomOK(r)'
    <2>1. SeatsOf(r)'
      BY <1>4, <1>9, <1>10 DEF SeatsOf, Terminal
    <2>2. OutcomeOf(r)'
      <3>1. Ready(r)' = Ready(r)
        BY <1>10 DEF Ready
      <3>2. rooms'[r].state \notin {"NONE", "WAITING"} /\ o.refunds \in BOOLEAN
        BY <1>5, <1>9, <1>10 DEF Terminal
      <3> QED
        BY <1>5, <1>9, <1>10, <3>1, <3>2 DEF OutcomeOf, D
    <2>3. WithheldOf(r)'
      <3> SUFFICES ASSUME NEW u \in Players
                   PROVE  IF ~o.refunds /\ u \in D THEN o.awards[u] - kept[u] >= RoomStake ELSE kept[u] = 0
        BY <1>9, <1>10 DEF WithheldOf, D
      <3>1. ~o.refunds /\ u \in D => o.awards[u] - kept[u] >= RoomStake
        BY <1>4, <1>5
      <3>2. ~(~o.refunds /\ u \in D) => kept[u] = 0
        BY <1>5
      <3> QED
        BY <3>1, <3>2
    <2>4. EscrowOf(r)'
      <3>1. Posts(RowsOfRoom(r)') = Posts(RowsOfRoom(r)) - SumFunctionOnSet(p, D)
        BY <1>11, <1>12, <1>15
      <3>2. rooms[r].escrow = Posts(RowsOfRoom(r))
        <4>1. \A u \in Players : withheld[r][u] = 0
          BY <1>5 DEF RoomInv, RoomOK, Money, WithheldOf
        <4>2. SumFunctionOnSet(withheld[r], Players) = 0 * Cardinality(Players)
          <5>1. IsFiniteSet(Players) /\ 0 \in Int
            BY RoomAssumption
          <5> QED
            BY <4>1, <5>1, SumConstant
        <4>3. SumFunctionOnSet(withheld[r], Players) = 0
          BY <4>2, FS_CardinalityType, RoomAssumption
        <4> QED
          BY <1>4, <1>15, <4>3 DEF EscrowOf, Balance
      <3>3. Posts(RowsOfRoom(r)') - SumFunctionOnSet(kept, Players) = 0
        BY <1>11, <1>15, <3>1, <3>2
      <3>4. Balance(r)' = Posts(RowsOfRoom(r)') - SumFunctionOnSet(kept, Players)
        BY <1>10 DEF Balance
      <3> QED
        BY <1>9, <1>10, <3>3, <3>4 DEF EscrowOf
    <2>5. ASSUME NEW u \in Players, NEW c \in 0..MaxCycle
          PROVE  Posted(r, u, c)'
      <3> DEFINE last == seats[r][u].cycle
      <3>1. /\ (seats'[r][u]).cycle = last /\ (Backed(r, u, c)' <=> Backed(r, u, c))
            /\ Posted(r, u, c) /\ LastRows(r, u) = {{}}
        BY <1>4, <1>5, <1>9, <1>10 DEF Backed, LastRows
      <3>2. RowsOf(r, u, c)' = RowsOf(r, u, c) \cup (IF u \in D /\ c = last THEN {h[u]} ELSE {})
        BY <1>2, <1>7, <1>15
      <3>3. CASE Backed(r, u, c) /\ c \in 1..last
        <4>1. u \in Ready(r) /\ c = last
          BY <1>4, <3>3 DEF Backed, Ready, SeatsOf
        <4>2. RowsOf(r, u, c) = {Entry(r, u, c, "ESCROW", RoomStake)}
          BY <3>1, <3>3 DEF Posted
        <4>3. (IF u \in D THEN {h[u]} ELSE {}) \in LastRows(r, u)'
          <5>1. CASE o.refunds = TRUE
            <6>1. u \in D /\ k \in Refunds /\ p[u] = RoomStake
              BY <1>4, <1>5, <4>1, <5>1
            <6>2. {Entry(r, u, (seats'[r][u]).cycle, k, RoomStake)} \in LastRows(r, u)'
              BY <1>9, <1>10, <5>1, <6>1 DEF LastRows
            <6> QED
              BY <1>7, <3>1, <6>1, <6>2
          <5>2. CASE o.refunds = FALSE /\ u \in D
            <6>1. k = "PAYOUT" /\ p[u] = o.awards[u] - kept[u]
              BY <1>4, <1>5, <5>2
            <6>2. LastRows(r, u)' = {{Entry(r, u, last, "PAYOUT", o.awards[u] - kept[u])}}
              BY <1>9, <1>10, <3>1, <5>2 DEF LastRows, D
            <6> QED
              BY <1>7, <5>2, <6>1, <6>2
          <5>3. CASE o.refunds = FALSE /\ u \notin D
            BY <1>9, <1>10, <5>3 DEF LastRows, D
          <5> QED
            BY <1>5, <5>1, <5>2, <5>3
        <4>4. RowsOf(r, u, c)' = {Entry(r, u, c, "ESCROW", RoomStake)} \cup (IF u \in D THEN {h[u]} ELSE {})
          BY <3>2, <4>1, <4>2
        <4> HIDE DEF last
        <4> QED
          BY <3>1, <3>3, <4>3, <4>4 DEF Posted
      <3>4. CASE ~(Backed(r, u, c) /\ c \in 1..last)
        <4>1. ~(u \in D /\ c = last)
          BY <1>13, <1>5, <3>4 DEF Backed
        <4> HIDE DEF last
        <4>2. RowsOf(r, u, c)' = RowsOf(r, u, c)
          BY <3>2, <4>1
        <4> QED
          BY <3>1, <3>4, <4>2 DEF Posted, last
      <3> QED
        BY <3>3, <3>4
    <2> QED
      BY <2>1, <2>2, <2>3, <2>4, <2>5 DEF RoomOK, Money
  <1>18. ASSUME NEW s \in Rooms \ {r}
         PROVE  RoomOK(s)'
    <2>1. rooms'[s] = rooms[s] /\ seats'[s] = seats[s] /\ withheld'[s] = withheld[s]
      BY <1>4, <1>9 DEF Shape
    <2> QED
      BY <1>15, <2>1, OtherRoom
  <1> QED
    BY <1>16, <1>17, <1>18 DEF RoomInv
(***************************************************************************)
(* The invariant, and what it establishes.                                 *)
(***************************************************************************)
LEMMA DueStep ==
  ASSUME RoomInv, NEW r \in Rooms, StepDue(r)
  PROVE  RoomInv'
  <1>1. DOMAIN rooms[r] = DOMAIN NoRoom /\ rooms = [s \in Rooms |-> rooms[s]] /\ due(r)
    BY DEF RoomInv, Shape, StepDue
  <1>2. CASE rooms[r].state = "SETTLING"
    <2>1. settle(r)
      BY <1>1, <1>2 DEF due
    <2>2. CASE /\ rooms' = [rooms EXCEPT ![r].state = "NEEDS_REVIEW"]
               /\ UNCHANGED <<seats, chips, funding, withheld>>
      <3>1. PICK room : room = [rooms[r] EXCEPT !.state = "NEEDS_REVIEW"]
        OBVIOUS
      <3>2. rooms' = [rooms EXCEPT ![r] = room]
        BY <2>2, <3>1
      <3>3. Going(r) /\ Marked(r, room)
        BY <1>1, <1>2, <3>1 DEF Going, Marked, NoRoom
      <3> QED
        BY <2>2, <3>2, <3>3, MarkStep
    <2>3. CASE \E o, k, p, kept : ClosesTo(r, o, k, p, kept)
      BY <2>3, CloseStep
    <2> QED
      BY <1>2, <2>1, <2>2, <2>3, SettleCloses
  <1>3. CASE rooms[r].state = "WAITING"
    <2>1. rooms' = [rooms EXCEPT ![r] = cancelled(r)] /\ UNCHANGED <<seats, chips, funding, withheld>>
      BY <1>1, <1>3 DEF due
    <2> QED
      BY <1>3, <2>1, CancelStep
  <1>4. CASE rooms[r].state = "PLAYING"
    <2>1. CASE /\ rooms' = [rooms EXCEPT ![r].late = FALSE]
               /\ UNCHANGED <<seats, chips, funding, withheld>>
      <3>1. PICK room : room = [rooms[r] EXCEPT !.late = FALSE]
        OBVIOUS
      <3>2. rooms' = [rooms EXCEPT ![r] = room]
        BY <2>1, <3>1
      <3>3. Going(r) /\ Marked(r, room)
        BY <1>1, <1>4, <3>1 DEF Going, Marked, NoRoom
      <3> QED
        BY <2>1, <3>2, <3>3, MarkStep
    <2>2. ASSUME NEW eligible \in (SUBSET Ready(r)) \ {{}},
                 rooms' = [rooms EXCEPT ![r] = ended(r, eligible)],
                 UNCHANGED <<seats, chips, funding, withheld>>
          PROVE  RoomInv'
      BY <1>4, <2>2, EndStep
    <2> QED
      BY <1>1, <1>4, <2>1, <2>2 DEF due
  <1> QED
    BY <1>1, <1>2, <1>3, <1>4 DEF due

\* Every operation on a room keeps RoomInv.
LEMMA RoomStepKeeps ==
  ASSUME RoomInv, NEW r \in Rooms, NEW u \in Players, RoomStep(u, r)
  PROVE  RoomInv'
  <1>1. ASSUME NEW econ \in BOOLEAN, create(u, r, econ) PROVE RoomInv'
    BY <1>1, CreateStep
  <1>2. CASE join(u, r)
    BY <1>2, JoinStep
  <1>3. CASE hostCancel(u, r)
    BY <1>3, CancelStep DEF hostCancel
  <1>4. CASE ready(u, r)
    BY <1>4, ReadyStep
  <1>5. CASE play(u, r)
    <2>1. PICK eligible \in (SUBSET Ready(r)) \ {{}} : rooms' = [rooms EXCEPT ![r] = ended(r, eligible)]
      BY <1>5 DEF play
    <2>2. rooms[r].state = "PLAYING" /\ UNCHANGED <<seats, chips, funding, withheld>>
      BY <1>5 DEF play
    <2> QED
      BY <2>1, <2>2, EndStep
  <1>6. ASSUME NEW leave \in BOOLEAN, unready(u, r, leave) PROVE RoomInv'
    BY <1>6, UnreadyStep
  <1> QED
    BY <1>1, <1>2, <1>3, <1>4, <1>5, <1>6 DEF RoomStep

\* Every step keeps RoomInv.
LEMMA Kept_RoomInv == RoomInv /\ [RoomNext]_roomVars => RoomInv'
  <1> SUFFICES ASSUME RoomInv, [RoomNext]_roomVars PROVE RoomInv'
    OBVIOUS
  <1>1. ASSUME NEW r \in Rooms, NEW u \in Players, RoomStep(u, r) PROVE RoomInv'
    BY <1>1, RoomStepKeeps
  <1>2. ASSUME NEW r \in Rooms, StepDue(r) PROVE RoomInv'
    BY <1>2, DueStep
  <1>3. ASSUME NEW r \in Rooms, Unreadable(r) \/ Late(r) \/ GameOver(r) PROVE RoomInv'
    BY <1>3, ClockSteps
  <1>4. ASSUME NEW r \in Rooms, SystemVoid(r) PROVE RoomInv'
    BY <1>4, VoidCloses, CloseStep
  <1>5. ASSUME NEW u \in Lucky, Income(u) PROVE RoomInv'
    BY <1>5, IncomeStep
  <1>6. CASE UNCHANGED roomVars
    <2>1. /\ rooms' = rooms /\ seats' = seats /\ chips' = chips /\ funding' = funding
          /\ withheld' = withheld
      BY <1>6 DEF roomVars
    <2>2. Shape'
      BY <2>1 DEF RoomInv, Shape
    <2>3. ASSUME NEW r \in Rooms PROVE RoomOK(r)'
      BY <2>1, OtherRoom DEF RowsOfRoom
    <2> QED
      BY <2>2, <2>3 DEF RoomInv
  <1> QED
    BY <1>1, <1>2, <1>3, <1>4, <1>5, <1>6 DEF RoomNext

\* The invariant holds of every reachable state of the rooms.
THEOREM RoomsSound == RoomSpec => []RoomInv
  BY Initial, Kept_RoomInv, PTL DEF RoomSpec

\* Every room, through ready cycles, rejoining, a lost key, settlement, review and
\* void, passes the verification of its funding rows; and a room that is not over
\* always has what SystemVoid requires.
THEOREM FundingVerifiedHolds == RoomSpec => []FundingVerified
  <1>1. RoomInv => FundingVerified
    BY Verified DEF FundingVerified
  <1> QED
    BY <1>1, RoomsSound, PTL
(***************************************************************************)
(* The rooms as accounts of the abstract escrow.                           *)
(***************************************************************************)
HeldF == [r \in Rooms |-> [u \in Players |-> Held(r, u)]]
ClosedF == {r \in Rooms : rooms[r].state \in Terminal}
CreditF == [r \in Rooms |-> [u \in Players |-> Paid(r, u)]]
KeptF == [r \in Rooms |-> SumFunctionOnSet(withheld[r], Players)]

\* What the invariant makes of an account: the stakes of the ready players, and
\* after the end the awards less what the cap kept.
StakeHeld(r, u) == IF rooms[r].state \notin Terminal /\ seats[r][u].ready THEN RoomStake ELSE 0
AwardPaid(r, u) ==
    LET o == rooms[r].outcome
    IN  IF rooms[r].state \in Terminal /\ u \in DOMAIN o.awards THEN o.awards[u] - withheld[r][u] ELSE 0

\* The mapping of the escrow's held stakes, for every player.
LEMMA HeldIs == RoomInv => \A s \in Rooms, v \in Players : Held(s, v) = StakeHeld(s, v)
  BY DEF RoomInv, RoomOK, SeatsOf, Held, StakeHeld, Open, Ready

\* The mapping of what the escrow paid, for every player.
LEMMA PaidIs == RoomInv => \A s \in Rooms, v \in Players : Paid(s, v) = AwardPaid(s, v)
  <1> SUFFICES ASSUME RoomInv, NEW r \in Rooms, NEW u \in Players PROVE Paid(r, u) = AwardPaid(r, u)
    OBVIOUS
  <1> DEFINE c == seats[r][u].cycle
             o == rooms[r].outcome
             rows == {row \in funding : row.room = r /\ row.user = u /\ row.cycle = c /\ seats[r][u].ready}
             L == Refunds \cup {"PAYOUT"}
  <1>1. /\ SeatsOf(r) /\ OutcomeOf(r) /\ WithheldOf(r) /\ c \in 0..MaxCycle /\ Posted(r, u, c)
        /\ RoomStake \in Nat /\ withheld[r][u] \in Nat
    BY RoomAssumption DEF RoomInv, RoomOK, Money, Shape, SeatRow
  <1>2. CASE rooms[r].state \notin Terminal
    BY <1>2 DEF Paid, AwardPaid
  <1>3. CASE rooms[r].state \in Terminal /\ ~seats[r][u].ready
    <2>1. Kept(rows, L) = {}
      BY <1>3 DEF Kept
    <2>2. Amount(rows, L) = 0
      BY <2>1, AmountNone
    <2>3. u \notin DOMAIN o.awards
      BY <1>1, <1>3 DEF OutcomeOf, Ready
    <2> QED
      BY <1>3, <2>2, <2>3 DEF Paid, AwardPaid
  <1>4. CASE rooms[r].state \in Terminal /\ seats[r][u].ready
    <2>1. rows = RowsOf(r, u, c)
      BY <1>4 DEF RowsOf
    <2>2. PICK more \in LastRows(r, u) : rows = {Entry(r, u, c, "ESCROW", RoomStake)} \cup more
      <3>1. c \in 1..c /\ Backed(r, u, c)
        BY <1>1, <1>4 DEF SeatsOf, Backed
      <3> QED
        BY <1>1, <2>1, <3>1 DEF Posted
    <2>3. Kept(rows, L) = more
      BY <2>2 DEF Kept, LastRows, Entry, Refunds
    <2>4. /\ u \in Ready(r) /\ Paid(r, u) = Amount(rows, L)
          /\ o.awards[u] \in Nat \/ u \notin DOMAIN o.awards
      BY <1>1, <1>4 DEF Paid, Ready, SeatsOf, OutcomeOf
    <2> HIDE DEF rows, L
    <2>5. CASE o.refunds
      <3>0. PICK kind \in Refunds : more = {Entry(r, u, c, kind, RoomStake)}
        BY <1>4, <2>2, <2>5 DEF LastRows
      <3>1. PICK x : more = {x} /\ x.amount = RoomStake
        <4>1. Entry(r, u, c, kind, RoomStake).amount = RoomStake
          BY DEF Entry
        <4> QED
          BY <3>0, <4>1
      <3>2. Amount(rows, L) = RoomStake
        BY <1>1, <2>3, <3>1, AmountOne
      <3>3. u \in DOMAIN o.awards /\ o.awards[u] = RoomStake /\ withheld[r][u] = 0
        BY <1>1, <1>4, <2>4, <2>5 DEF OutcomeOf, WithheldOf
      <3> QED
        BY <1>1, <1>4, <2>4, <3>2, <3>3 DEF AwardPaid
    <2>6. CASE ~o.refunds /\ u \in DOMAIN o.awards
      <3>0. more = {Entry(r, u, c, "PAYOUT", o.awards[u] - withheld[r][u])}
        BY <1>4, <2>2, <2>6 DEF LastRows
      <3>1. PICK x : more = {x} /\ x.amount = o.awards[u] - withheld[r][u]
        <4>1. Entry(r, u, c, "PAYOUT", o.awards[u] - withheld[r][u]).amount = o.awards[u] - withheld[r][u]
          BY DEF Entry
        <4> QED
          BY <3>0, <4>1
      <3>2. Amount(rows, L) = o.awards[u] - withheld[r][u]
        BY <1>1, <2>3, <2>4, <2>6, <3>1, AmountOne
      <3> QED
        BY <1>4, <2>4, <2>6, <3>2 DEF AwardPaid
    <2>7. CASE ~o.refunds /\ u \notin DOMAIN o.awards
      <3>1. more = {}
        BY <1>4, <2>2, <2>7 DEF LastRows
      <3>2. Amount(rows, L) = 0
        BY <2>3, <3>1, AmountNone
      <3> QED
        BY <2>4, <2>7, <3>2 DEF AwardPaid
    <2> QED
      BY <2>5, <2>6, <2>7
  <1> QED
    BY <1>2, <1>3, <1>4

\* The same after a step that keeps the invariant.
LEMMA HeldAfter == RoomInv' => \A s \in Rooms, v \in Players : Held(s, v)' = StakeHeld(s, v)'
  <1>1. (RoomInv => \A s \in Rooms, v \in Players : Held(s, v) = StakeHeld(s, v))'
    BY HeldIs, PTL
  <1> QED
    BY <1>1

\* The same after a step.
LEMMA PaidAfter == RoomInv' => \A s \in Rooms, v \in Players : Paid(s, v)' = AwardPaid(s, v)'
  <1>1. (RoomInv => \A s \in Rooms, v \in Players : Paid(s, v) = AwardPaid(s, v))'
    BY PaidIs, PTL
  <1> QED
    BY <1>1

\* No more players are ready than the room has seats.
LEMMA ReadyBound ==
  ASSUME RoomInv, NEW r \in Rooms
  PROVE  Cardinality(Ready(r)) \in 0..Target
  <1> DEFINE seat == [u \in Ready(r) |-> seats[r][u].seat]
             T == 0..(Target - 1)
  <1>1. Target \in Nat \ {0}
    BY RoomAssumption
  <1>2. IsFiniteSet(T) /\ Cardinality(T) = Target
    BY <1>1, FS_Interval
  <1>3. seat \in Injection(Ready(r), T)
    <2>1. \A u \in Ready(r) : seat[u] \in T
      BY DEF RoomInv, Shape, SeatRow, Ready
    <2>2. \A u, v \in Ready(r) : seat[u] = seat[v] => u = v
      BY DEF RoomInv, RoomOK, SeatsOf, Ready
    <2> QED
      BY <2>1, <2>2 DEF Injection, IsInjective
  <1>4. IsFiniteSet(Ready(r)) /\ Cardinality(Ready(r)) <= Cardinality(T)
    <2> HIDE DEF seat, T
    <2> QED
      BY <1>2, <1>3, FS_Injection
  <1>5. Cardinality(Ready(r)) \in Nat
    BY <1>4, FS_CardinalityType
  <1> QED
    BY <1>1, <1>2, <1>4, <1>5

\* Initially the escrow is empty.
LEMMA InitAccount == RoomInit => Account!Init
  <1> SUFFICES ASSUME RoomInit PROVE Account!Init
    OBVIOUS
  <1>1. /\ rooms = [r \in Rooms |-> NoRoom] /\ withheld = [r \in Rooms |-> [u \in Players |-> 0]]
    BY DEF RoomInit
  <1>2. \A r \in Rooms : rooms[r].state \notin Terminal /\ ~Open(r)
    BY <1>1 DEF NoRoom, Terminal, Open
  <1>3. HeldF = [r \in Rooms |-> [u \in Players |-> 0]]
    BY <1>2 DEF HeldF, Held
  <1>4. ClosedF = {}
    BY <1>2 DEF ClosedF
  <1>5. CreditF = [r \in Rooms |-> [u \in Players |-> 0]]
    BY <1>2 DEF CreditF, Paid
  <1>6. KeptF = [r \in Rooms |-> 0]
    <2>1. ASSUME NEW r \in Rooms PROVE SumFunctionOnSet(withheld[r], Players) = 0
      <3>1. /\ \A u \in Players : withheld[r][u] = 0
            /\ IsFiniteSet(Players) /\ 0 \in Int
        BY <1>1, RoomAssumption
      <3>2. SumFunctionOnSet(withheld[r], Players) = 0 * Cardinality(Players)
        BY <3>1, SumConstant
      <3> QED
        BY <3>1, <3>2, FS_CardinalityType
    <2> QED
      BY <2>1 DEF KeptF
  <1> QED
    BY <1>3, <1>4, <1>5, <1>6 DEF Account!Init, HeldF, ClosedF, CreditF, KeptF
\* Which rooms are over and how they ended does not change, nor what was withheld.
SameEnds ==
    /\ withheld' = withheld
    /\ \A r \in Rooms : /\ rooms[r].state \in Terminal <=> rooms'[r].state \in Terminal
                        /\ rooms[r].state \in Terminal => rooms'[r].outcome = rooms[r].outcome
\* Nobody stakes or takes a stake back.
Idle == SameEnds /\ \A r \in Rooms, u \in Players : seats'[r][u].ready = seats[r][u].ready
\* The stake of u is the only one that changes.
Turns(r, u) ==
    /\ SameEnds /\ rooms[r].state \notin Terminal
    /\ seats'[r][u].ready = ~seats[r][u].ready /\ seats[r][u].ready \in BOOLEAN
    /\ \A s \in Rooms, v \in Players : s # r \/ v # u => seats'[s][v].ready = seats[s][v].ready

\* A step that closes no room leaves what the escrow paid and kept.
LEMMA EndsKept ==
  ASSUME RoomInv, RoomInv', SameEnds
  PROVE  ClosedF' = ClosedF /\ CreditF' = CreditF /\ KeptF' = KeptF
  <1>1. ClosedF' = ClosedF
    BY DEF ClosedF, SameEnds
  <1>2. KeptF' = KeptF
    BY DEF KeptF, SameEnds
  <1>3. \A s \in Rooms, v \in Players : Paid(s, v)' = AwardPaid(s, v)'
    BY PaidAfter
  <1>4. ASSUME NEW r \in Rooms, NEW u \in Players
        PROVE  Paid(r, u)' = Paid(r, u)
    <2>1. AwardPaid(r, u)' = AwardPaid(r, u)
      BY DEF AwardPaid, SameEnds
    <2> QED
      BY <1>3, <2>1, PaidIs
  <1>5. CreditF' = CreditF
    BY <1>4 DEF CreditF
  <1> QED
    BY <1>1, <1>2, <1>5

\* A step that moves no stake stutters.
LEMMA IdleAccount ==
  ASSUME RoomInv, RoomInv', Idle
  PROVE  UNCHANGED Account!vars
  <1>1. \A s \in Rooms, v \in Players : Held(s, v)' = StakeHeld(s, v)'
    BY HeldAfter
  <1>2. ASSUME NEW r \in Rooms, NEW u \in Players
        PROVE  Held(r, u)' = Held(r, u)
    <2>1. StakeHeld(r, u)' = StakeHeld(r, u)
      BY DEF StakeHeld, Idle, SameEnds
    <2> QED
      BY <1>1, <2>1, HeldIs
  <1>3. HeldF' = HeldF
    BY <1>2 DEF HeldF
  <1>4. ClosedF' = ClosedF /\ CreditF' = CreditF /\ KeptF' = KeptF
    BY EndsKept DEF Idle
  <1> QED
    BY <1>3, <1>4 DEF Account!vars, HeldF, ClosedF, CreditF, KeptF

\* A stake taken or given back is a step of the escrow.
LEMMA TurnAccount ==
  ASSUME RoomInv, RoomInv', NEW r \in Rooms, NEW u \in Players, Turns(r, u)
  PROVE  Account!Stake(r, u) \/ Account!Return(r, u)
  <1>1. \A s \in Rooms, v \in Players : Held(s, v)' = StakeHeld(s, v)'
    BY HeldAfter
  <1>2. ClosedF' = ClosedF /\ CreditF' = CreditF /\ KeptF' = KeptF /\ r \notin ClosedF
    BY EndsKept DEF Turns, ClosedF
  <1>3. PICK n : n = IF seats[r][u].ready THEN 0 ELSE RoomStake
    OBVIOUS
  <1>4. ASSUME NEW s \in Rooms, NEW v \in Players
        PROVE  Held(s, v)' = IF s = r /\ v = u THEN n ELSE Held(s, v)
    <2>1. StakeHeld(s, v)' = IF s = r /\ v = u THEN n ELSE StakeHeld(s, v)
      BY <1>3 DEF StakeHeld, Turns, SameEnds
    <2> QED
      BY <1>1, <2>1, HeldIs
  <1>5. HeldF' = [HeldF EXCEPT ![r][u] = n]
    BY <1>4 DEF HeldF
  <1>6. HeldF[r][u] = IF seats[r][u].ready THEN RoomStake ELSE 0
    BY HeldIs DEF HeldF, StakeHeld, Turns
  <1>7. RoomStake \in 0..(RoomStake * Target) /\ RoomStake > 0
    <2>1. RoomStake \in Nat \ {0} /\ Target \in Nat \ {0}
      BY RoomAssumption
    <2>2. RoomStake * Target \in Nat /\ RoomStake <= RoomStake * Target
      BY <2>1, SMTT(30)
    <2> QED
      BY <2>1, <2>2
  <1>8. CASE ~seats[r][u].ready
    <2>1. n \in (0..(RoomStake * Target)) \ {0} /\ HeldF[r][u] = 0
      BY <1>3, <1>6, <1>7, <1>8
    <2> QED
      BY <1>2, <1>5, <2>1 DEF Account!Stake, HeldF, ClosedF, CreditF, KeptF
  <1>9. CASE seats[r][u].ready
    <2>1. n = 0 /\ HeldF[r][u] > 0
      BY <1>3, <1>6, <1>7, <1>9
    <2> QED
      BY <1>2, <1>5, <2>1 DEF Account!Return, HeldF, ClosedF, CreditF, KeptF
  <1> QED
    BY <1>8, <1>9
\* The sum of the abstract module is the same sum.
LEMMA AccountSum == \A f, S : Account!SumFunctionOnSet(f, S) = SumFunctionOnSet(f, S)
  <1>1. \A f, S : Account!SumFunctionOnSet(f, S) = SumIter(f, S)[S]
    BY DEF Account!SumFunctionOnSet, Account!FoldFunctionOnSet, Account!MapThenFoldSet, SumIter, Solves, One
  <1> QED
    BY <1>1, SumDef

\* A term of a sum of natural numbers is at most the sum.
LEMMA TermBound ==
  ASSUME NEW S, IsFiniteSet(S), NEW f, \A x \in S : f[x] \in Nat, NEW a \in S
  PROVE  f[a] <= SumFunctionOnSet(f, S)
  <1>1. IsFiniteSet(S \ {a}) /\ \A x \in S \ {a} : f[x] \in Nat
    BY FS_Subset
  <1>2. SumFunctionOnSet(f, S \ {a}) \in Nat
    BY <1>1, SumNat
  <1>3. \A x \in S : f[x] \in Int
    OBVIOUS
  <1>4. SumFunctionOnSet(f, S) = f[a] + SumFunctionOnSet(f, S \ {a})
    BY <1>3, SumRemove
  <1> QED
    BY <1>2, <1>4

\* Closing a room is the escrow's Close.
LEMMA CloseAccount ==
  ASSUME RoomInv, RoomInv', NEW r \in Rooms, NEW o, NEW k, NEW p, NEW kept, ClosesTo(r, o, k, p, kept)
  PROVE  Account!Close(r)
  <1> DEFINE D == DOMAIN o.awards
             U == 0..(RoomStake * Target)
  <1>1. \A s \in Rooms, v \in Players : Held(s, v)' = StakeHeld(s, v)'
    BY HeldAfter
  <1>2. \A s \in Rooms, v \in Players : Paid(s, v)' = AwardPaid(s, v)'
    BY PaidAfter
  <1>3. PICK room : room = rooms'[r]
    OBVIOUS
  <1>4. PICK paid : paid = [u \in Players |-> IF u \in D THEN p[u] ELSE 0]
    OBVIOUS
  <1>5. PICK c : c = SumFunctionOnSet(kept, Players)
    OBVIOUS
  <1>6. PICK f : f = StakeOf(r)
    OBVIOUS
  <1>7. /\ D \subseteq Ready(r) /\ D \subseteq Players /\ kept \in [Players -> Nat]
        /\ \A u \in D : p[u] \in Nat /\ p[u] >= RoomStake /\ p[u] + kept[u] = o.awards[u]
        /\ rooms[r].state \notin Terminal
    BY DEF ClosesTo, Closes, Ready
  <1>8. /\ rooms' = [rooms EXCEPT ![r] = room] /\ room.state \in Terminal /\ room.outcome = o
        /\ withheld' = [withheld EXCEPT ![r] = kept]
        /\ seats' = [seats EXCEPT ![r] = [u \in Players |-> [seats[r][u] EXCEPT !.active = FALSE]]]
    BY <1>3 DEF ClosesTo
  <1>9. /\ rooms'[r] = room /\ withheld'[r] = kept
        /\ \A s \in Rooms \ {r} : rooms'[s] = rooms[s] /\ withheld'[s] = withheld[s] /\ seats'[s] = seats[s]
    BY <1>8 DEF RoomInv, Shape
  <1>10. /\ IsFiniteSet(D) /\ SumFunctionOnSet(p, D) \in Nat /\ c \in Nat
         /\ SumFunctionOnSet(p, D) + c = rooms[r].escrow
    BY <1>5, CloseSums DEF ClosesTo
  <1>11. /\ rooms[r].escrow = SumFunctionOnSet(f, Players) /\ rooms[r].escrow \in U
         /\ \A u \in Players : f[u] = IF seats[r][u].ready THEN RoomStake ELSE 0
    <2>1. PICK g : g = [u \in Ready(r) |-> RoomStake]
      OBVIOUS
    <2>2. rooms[r].escrow = SumFunctionOnSet(f, Players)
      BY <1>6, <1>7 DEF RoomInv, RoomOK, Money, EscrowOf
    <2>3. SumFunctionOnSet(f, Players) = RoomStake * Cardinality(Ready(r))
      BY <1>6, <2>1, Stakes
    <2>4. RoomStake * Cardinality(Ready(r)) \in U
      <3>1. PICK n : n = Cardinality(Ready(r))
        OBVIOUS
      <3>2. n \in 0..Target /\ RoomStake \in Nat \ {0} /\ Target \in Nat \ {0}
        BY <3>1, ReadyBound, RoomAssumption
      <3>3. RoomStake * n \in Nat /\ RoomStake * n <= RoomStake * Target
        BY <3>2, SMTT(30)
      <3> QED
        BY <3>1, <3>2, <3>3
    <2> QED
      BY <1>6, <2>2, <2>3, <2>4 DEF StakeOf
  <1>12. IsFiniteSet(Players) /\ RoomStake \in Nat \ {0} /\ Target \in Nat \ {0} /\ RoomStake * Target \in Nat
    <2>1. IsFiniteSet(Players) /\ RoomStake \in Nat \ {0} /\ Target \in Nat \ {0}
      BY RoomAssumption
    <2> QED
      BY <2>1
  <1> HIDE DEF D
  <1>13. SumFunctionOnSet(paid, Players) = SumFunctionOnSet(p, D)
    <2>1. /\ D \in SUBSET Players /\ \A u \in D : p[u] \in Int /\ paid[u] = p[u]
          /\ \A u \in Players \ D : paid[u] = 0
      BY <1>4, <1>7
    <2> QED
      BY <1>12, <2>1, SumWithin
  <1>14. paid \in [Players -> U] /\ c \in U
    <2>1. \A u \in D : p[u] <= SumFunctionOnSet(p, D)
      BY <1>7, <1>10, TermBound
    <2>2. SumFunctionOnSet(p, D) <= RoomStake * Target /\ c <= RoomStake * Target
      BY <1>10, <1>11, <1>12
    <2>3. \A u \in D : p[u] \in U
      BY <1>7, <1>10, <1>12, <2>1, <2>2
    <2>4. 0 \in U /\ c \in U
      BY <1>10, <1>12, <2>2
    <2> HIDE DEF U
    <2> QED
      BY <1>4, <2>3, <2>4
  <1>15. \A u \in Players : Held(r, u) = f[u]
    BY <1>7, <1>11, HeldIs DEF StakeHeld
  <1>16. HeldF[r] = [u \in Players |-> Held(r, u)] /\ SumFunctionOnSet(HeldF[r], Players) = SumFunctionOnSet(f, Players)
    <2>1. PICK g : g = HeldF[r]
      OBVIOUS
    <2>2. \A u \in Players : g[u] = f[u]
      BY <1>15, <2>1 DEF HeldF
    <2>3. SumFunctionOnSet(g, Players) = SumFunctionOnSet(f, Players)
      BY <1>12, <2>2, SumCong
    <2> QED
      BY <2>1, <2>3 DEF HeldF
  <1>17. r \notin ClosedF /\ ClosedF' = ClosedF \cup {r}
    BY <1>7, <1>8, <1>9 DEF ClosedF
  <1>18. HeldF' = [HeldF EXCEPT ![r] = [u \in Players |-> 0]]
    <2>1. ASSUME NEW s \in Rooms, NEW v \in Players
          PROVE  Held(s, v)' = IF s = r THEN 0 ELSE Held(s, v)
      <3>1. StakeHeld(s, v)' = IF s = r THEN 0 ELSE StakeHeld(s, v)
        BY <1>8, <1>9 DEF StakeHeld
      <3> QED
        BY <1>1, <3>1, HeldIs
    <2> QED
      BY <2>1 DEF HeldF
  <1>19. CreditF' = [CreditF EXCEPT ![r] = paid]
    <2>1. ASSUME NEW s \in Rooms, NEW v \in Players
          PROVE  Paid(s, v)' = IF s = r THEN paid[v] ELSE Paid(s, v)
      <3>1. CASE s = r
        <4>1. AwardPaid(r, v)' = IF v \in D THEN o.awards[v] - kept[v] ELSE 0
          BY <1>8, <1>9 DEF AwardPaid, D
        <4>2. v \in D => o.awards[v] - kept[v] = p[v]
          BY <1>7
        <4> QED
          BY <1>2, <1>4, <3>1, <4>1, <4>2
      <3>2. CASE s # r
        <4>1. AwardPaid(s, v)' = AwardPaid(s, v)
          BY <1>9, <3>2 DEF AwardPaid
        <4> QED
          BY <1>2, <3>2, <4>1, PaidIs
      <3> QED
        BY <3>1, <3>2
    <2>2. paid = [u \in Players |-> paid[u]]
      BY <1>4
    <2> QED
      BY <2>1, <2>2 DEF CreditF
  <1>20. KeptF' = [KeptF EXCEPT ![r] = c]
    BY <1>5, <1>9 DEF KeptF
  <1>21. /\ SumFunctionOnSet(paid, Players) + c = SumFunctionOnSet(HeldF[r], Players)
         /\ \A u \in Players : paid[u] > 0 => HeldF[r][u] > 0 /\ paid[u] >= HeldF[r][u]
    <2>1. SumFunctionOnSet(paid, Players) + c = SumFunctionOnSet(HeldF[r], Players)
      BY <1>10, <1>11, <1>13, <1>16
    <2>2. ASSUME NEW u \in Players, paid[u] > 0
          PROVE  HeldF[r][u] > 0 /\ paid[u] >= HeldF[r][u]
      <3>1. u \in D /\ paid[u] = p[u]
        BY <1>4, <2>2
      <3>2. seats[r][u].ready
        BY <1>7, <3>1 DEF Ready
      <3>3. HeldF[r][u] = RoomStake
        BY <1>11, <1>15, <3>2 DEF HeldF
      <3> QED
        BY <1>7, <1>12, <3>1, <3>3
    <2> QED
      BY <2>1, <2>2
  <1>22. \E pays \in [Players -> U], n \in U :
            /\ SumFunctionOnSet(pays, Players) + n = SumFunctionOnSet(HeldF[r], Players)
            /\ \A u \in Players : pays[u] > 0 => HeldF[r][u] > 0 /\ pays[u] >= HeldF[r][u]
            /\ CreditF' = [CreditF EXCEPT ![r] = pays]
            /\ KeptF' = [KeptF EXCEPT ![r] = n]
    <2> HIDE DEF U
    <2> QED
      BY <1>14, <1>19, <1>20, <1>21
  <1> QED
    BY <1>17, <1>18, <1>22, AccountSum DEF Account!Close, Account!Sum, HeldF, ClosedF, CreditF, KeptF
\* Every step is of one of the three kinds.
LEMMA StepKinds ==
  ASSUME RoomInv, RoomNext
  PROVE  \/ Idle
         \/ \E r \in Rooms, u \in Players : Turns(r, u)
         \/ \E r \in Rooms : \E o, k, p, kept : ClosesTo(r, o, k, p, kept)
  <1> DEFINE Kind == \/ Idle
                     \/ \E r \in Rooms, u \in Players : Turns(r, u)
                     \/ \E r \in Rooms : \E o, k, p, kept : ClosesTo(r, o, k, p, kept)
  <1>1. Shape /\ "NONE" \notin Terminal /\ "WAITING" \notin Terminal /\ "PLAYING" \notin Terminal
        /\ "SETTLING" \notin Terminal /\ "NEEDS_REVIEW" \notin Terminal
    BY DEF RoomInv, Terminal
  <1>2. ASSUME NEW r \in Rooms, NEW room, rooms' = [rooms EXCEPT ![r] = room],
               rooms[r].state \notin Terminal, room.state \notin Terminal, UNCHANGED <<seats, withheld>>
        PROVE  Idle
    <2>1. rooms'[r] = room /\ \A s \in Rooms \ {r} : rooms'[s] = rooms[s]
      BY <1>1, <1>2 DEF Shape
    <2> QED
      BY <1>2, <2>1 DEF Idle, SameEnds
  <1>3. ASSUME NEW r \in Rooms, NEW u \in Players, RoomStep(u, r)
        PROVE  Kind
    <2>1. ASSUME NEW econ \in BOOLEAN, create(u, r, econ)
          PROVE  Idle
      <3>1. \A s \in Rooms, v \in Players : seats'[s][v].ready = seats[s][v].ready
        BY <1>1, <2>1 DEF create, Shape, SeatRow
      <3>2. \A s \in Rooms : \/ rooms'[s] = rooms[s]
                             \/ rooms'[s].state = "WAITING" /\ rooms[s].state = "NONE"
        BY <1>1, <2>1 DEF create, Shape, NoRoom
      <3>3. withheld' = withheld
        BY <2>1 DEF create
      <3> QED
        BY <1>1, <3>1, <3>2, <3>3 DEF Idle, SameEnds
    <2>2. CASE join(u, r)
      <3>1. \A s \in Rooms, v \in Players : seats'[s][v].ready = seats[s][v].ready
        BY <1>1, <2>2 DEF join, Shape, SeatRow
      <3>2. rooms' = rooms /\ withheld' = withheld
        BY <2>2 DEF join
      <3> QED
        BY <3>1, <3>2 DEF Idle, SameEnds
    <2>3. CASE hostCancel(u, r)
      <3>1. PICK room : room = cancelled(r)
        OBVIOUS
      <3>2. rooms' = [rooms EXCEPT ![r] = room] /\ rooms[r].state = "WAITING" /\ UNCHANGED <<seats, withheld>>
        BY <2>3, <3>1 DEF hostCancel
      <3>3. room.state = "SETTLING"
        BY <1>1, <3>1 DEF cancelled, Shape, NoRoom
      <3> QED
        BY <1>1, <1>2, <3>2, <3>3
    <2>4. CASE ready(u, r)
      <3>1. /\ seats'[r][u].ready = TRUE /\ seats[r][u].ready = FALSE
            /\ \A s \in Rooms, v \in Players : s # r \/ v # u => seats'[s][v].ready = seats[s][v].ready
        <4>1. PICK x : x = [seats[r][u] EXCEPT !.cycle = seats[r][u].cycle + 1, !.ready = TRUE]
          OBVIOUS
        <4>2. seats' = [seats EXCEPT ![r][u] = x] /\ ~seats[r][u].ready
          BY <1>1, <2>4, <4>1 DEF ready, Shape
        <4>3. x.ready = TRUE /\ seats[r][u].ready \in BOOLEAN
          BY <1>1, <4>1 DEF Shape, SeatRow
        <4> QED
          BY <1>1, <4>2, <4>3 DEF Shape
      <3>2. \A s \in Rooms : \/ rooms'[s] = rooms[s]
                             \/ rooms'[s].state \in {"WAITING", "PLAYING"} /\ rooms[s].state = "WAITING"
        BY <1>1, <2>4 DEF ready, Shape, NoRoom
      <3>3. withheld' = withheld /\ rooms[r].state = "WAITING"
        BY <2>4 DEF ready
      <3> QED
        BY <1>1, <3>1, <3>2, <3>3 DEF Turns, SameEnds
    <2>5. CASE play(u, r)
      <3>1. PICK eligible \in (SUBSET Ready(r)) \ {{}} : rooms' = [rooms EXCEPT ![r] = ended(r, eligible)]
        BY <2>5 DEF play
      <3>2. PICK room : room = ended(r, eligible)
        OBVIOUS
      <3>3. rooms' = [rooms EXCEPT ![r] = room] /\ rooms[r].state = "PLAYING" /\ UNCHANGED <<seats, withheld>>
        BY <2>5, <3>1, <3>2 DEF play
      <3>4. room.state = "SETTLING"
        BY <1>1, <3>2 DEF ended, Shape, NoRoom
      <3> QED
        BY <1>1, <1>2, <3>3, <3>4
    <2>6. ASSUME NEW leave \in BOOLEAN, unready(u, r, leave)
          PROVE  Kind
      <3>1. /\ seats'[r][u].ready = FALSE /\ seats[r][u].ready \in BOOLEAN
            /\ \A s \in Rooms, v \in Players : s # r \/ v # u => seats'[s][v].ready = seats[s][v].ready
        <4>1. PICK x : x = IF leave
                           THEN [seats[r][u] EXCEPT !.ready = FALSE, !.seat = NoSeatNo, !.active = FALSE]
                           ELSE [seats[r][u] EXCEPT !.ready = FALSE]
          OBVIOUS
        <4>2. seats' = [seats EXCEPT ![r][u] = x]
          BY <1>1, <2>6, <4>1 DEF unready, Shape
        <4>3. x.ready = FALSE /\ seats[r][u].ready \in BOOLEAN
          BY <1>1, <4>1 DEF Shape, SeatRow
        <4> QED
          BY <1>1, <4>2, <4>3 DEF Shape
      <3>2. /\ \A s \in Rooms \ {r} : rooms'[s] = rooms[s]
            /\ rooms'[r].state = "WAITING" /\ rooms[r].state = "WAITING"
        BY <1>1, <2>6 DEF unready, Shape, NoRoom
      <3>3. withheld' = withheld
        BY <2>6 DEF unready
      <3>4. SameEnds
        BY <1>1, <3>2, <3>3 DEF SameEnds
      <3>5. CASE seats[r][u].ready
        BY <1>1, <3>1, <3>2, <3>4, <3>5 DEF Turns
      <3>6. CASE ~seats[r][u].ready
        BY <3>1, <3>4, <3>6 DEF Idle
      <3> QED
        BY <3>5, <3>6
    <2> QED
      BY <1>3, <2>1, <2>2, <2>3, <2>4, <2>5, <2>6 DEF RoomStep
  <1>4. ASSUME NEW r \in Rooms, StepDue(r)
        PROVE  Kind
    <2>1. due(r)
      BY <1>4 DEF StepDue
    <2>2. CASE rooms[r].state = "SETTLING"
      <3>1. settle(r)
        BY <2>1, <2>2 DEF due
      <3>2. CASE /\ rooms' = [rooms EXCEPT ![r].state = "NEEDS_REVIEW"]
                 /\ UNCHANGED <<seats, chips, funding, withheld>>
        <4>1. PICK room : room = [rooms[r] EXCEPT !.state = "NEEDS_REVIEW"]
          OBVIOUS
        <4>2. rooms' = [rooms EXCEPT ![r] = room] /\ room.state = "NEEDS_REVIEW"
          BY <1>1, <3>2, <4>1 DEF Shape, NoRoom
        <4>3. UNCHANGED <<seats, withheld>> /\ rooms[r].state \notin Terminal /\ room.state \notin Terminal
          BY <1>1, <2>2, <3>2, <4>2
        <4>4. Idle
          BY <1>2, <4>2, <4>3
        <4> QED
          BY <4>4
      <3> QED
        BY <2>2, <3>1, <3>2, SettleCloses
    <2>3. CASE rooms[r].state = "WAITING"
      <3>1. PICK room : room = cancelled(r)
        OBVIOUS
      <3>2. rooms' = [rooms EXCEPT ![r] = room] /\ UNCHANGED <<seats, withheld>>
        BY <2>1, <2>3, <3>1 DEF due
      <3>3. room.state = "SETTLING"
        BY <1>1, <3>1 DEF cancelled, Shape, NoRoom
      <3> QED
        BY <1>1, <1>2, <2>3, <3>2, <3>3
    <2>4. CASE rooms[r].state = "PLAYING"
      <3>1. PICK room : /\ rooms' = [rooms EXCEPT ![r] = room] /\ room.state \in {"PLAYING", "SETTLING"}
                        /\ UNCHANGED <<seats, withheld>>
        <4>1. CASE rooms' = [rooms EXCEPT ![r].late = FALSE] /\ UNCHANGED <<seats, chips, funding, withheld>>
          <5>1. PICK room : room = [rooms[r] EXCEPT !.late = FALSE]
            OBVIOUS
          <5>2. rooms' = [rooms EXCEPT ![r] = room] /\ room.state = "PLAYING"
            BY <1>1, <2>4, <4>1, <5>1 DEF Shape, NoRoom
          <5> QED
            BY <4>1, <5>2
        <4>2. ASSUME NEW eligible \in (SUBSET Ready(r)) \ {{}},
                     rooms' = [rooms EXCEPT ![r] = ended(r, eligible)]
              PROVE  \E room : rooms' = [rooms EXCEPT ![r] = room] /\ room.state = "SETTLING"
          <5>1. PICK room : room = ended(r, eligible)
            OBVIOUS
          <5>2. rooms' = [rooms EXCEPT ![r] = room] /\ room.state = "SETTLING"
            BY <1>1, <4>2, <5>1 DEF ended, Shape, NoRoom
          <5> QED
            BY <5>2
        <4>3. UNCHANGED <<seats, withheld>>
          BY <2>1, <2>4 DEF due
        <4> QED
          BY <2>1, <2>4, <4>1, <4>2, <4>3 DEF due
      <3> QED
        BY <1>1, <1>2, <2>4, <3>1
    <2> QED
      BY <2>1, <2>2, <2>3, <2>4 DEF due
  <1>5. ASSUME NEW r \in Rooms, Unreadable(r) \/ Late(r) \/ GameOver(r)
        PROVE  Idle
    <2>1. /\ UNCHANGED <<seats, withheld>>
          /\ rooms[r].state \in {"WAITING", "PLAYING", "SETTLING"}
      BY <1>5 DEF Unreadable, markReview, Late, GameOver
    <2>2. \A s \in Rooms : \/ rooms'[s] = rooms[s]
                           \/ s = r /\ rooms'[s].state \in {rooms[r].state, "NEEDS_REVIEW"}
      BY <1>1, <1>5 DEF Unreadable, markReview, Late, GameOver, Shape, NoRoom
    <2> QED
      BY <1>1, <2>1, <2>2 DEF Idle, SameEnds
  <1>6. ASSUME NEW u \in Lucky, Income(u)
        PROVE  Idle
    BY <1>6 DEF Income, Idle, SameEnds
  <1>7. ASSUME NEW r \in Rooms, SystemVoid(r)
        PROVE  Kind
    BY <1>7, VoidCloses
  <1> QED
    BY <1>3, <1>4, <1>5, <1>6, <1>7 DEF RoomNext

\* Every room is an escrow: a stake is held for whoever is ready, a room that ends pays
\* out or keeps as withheld exactly what it held, once, and holds nothing after; READY,
\* UNREADY, LEAVE, settle and SystemVoid are the steps of the accounts, and every other
\* command, deadline and credit leaves the accounts alone.
THEOREM RoundsAreEscrowsHolds == RoomSpec => RoundsAreEscrows
  <1>1. RoomInv /\ RoomInv' /\ [RoomNext]_roomVars => [Account!Next]_Account!vars
    <2> SUFFICES ASSUME RoomInv, RoomInv', [RoomNext]_roomVars
                 PROVE  Account!Next \/ UNCHANGED Account!vars
      OBVIOUS
    <2>1. CASE UNCHANGED roomVars
      <3>1. Idle
        BY <2>1 DEF roomVars, Idle, SameEnds
      <3> QED
        BY <3>1, IdleAccount
    <2>2. CASE Idle
      BY <2>2, IdleAccount
    <2>3. ASSUME NEW r \in Rooms, NEW u \in Players, Turns(r, u)
          PROVE  Account!Next
      <3>1. Account!Stake(r, u) \/ Account!Return(r, u)
        BY <2>3, TurnAccount
      <3> QED
        BY <3>1 DEF Account!Next
    <2>4. ASSUME NEW r \in Rooms, \E o, k, p, kept : ClosesTo(r, o, k, p, kept)
          PROVE  Account!Next
      <3>1. Account!Close(r)
        BY <2>4, CloseAccount
      <3> QED
        BY <3>1 DEF Account!Next
    <2> QED
      BY <2>1, <2>2, <2>3, <2>4, StepKinds
  <1> QED
    BY <1>1, InitAccount, RoomsSound, PTL DEF RoomSpec, RoundsAreEscrows, Account!Spec

-----------------------------------------------------------------------------
\* A bag a player can hold.
BagOK(bag) == bag \in [Items -> Nat] /\ BagSize(bag) <= ItemLimit
\* What a player knows of the cylinder is true, and of shells still to come.
KnownOK(d, seat) ==
    /\ DOMAIN d.known[seat] \subseteq d.pointer..(Size(d) - 1)
    /\ \A i \in DOMAIN d.known[seat] : d.shells[i] = d.known[seat][i]
DevilFields == {"hp", "items", "known", "shells", "pointer", "turn", "first", "saw", "cuffed",
                "ended", "eligible", "forfeited"}
\* Whatever happens, of a state whose end is still to be declared.
DevilHeld(d) ==
    /\ DOMAIN d = DevilFields /\ d.turn \in DevilSeats /\ d.first \in DevilSeats
    /\ \E n \in ShellCounts : d.shells \in [0..(n - 1) -> BOOLEAN]
    /\ d.pointer \in 0..Size(d)
    /\ d.hp \in [DevilSeats -> 0..MaxHP]
    /\ DOMAIN d.items = DevilSeats /\ DOMAIN d.known = DevilSeats
    /\ \A seat \in DevilSeats : BagOK(d.items[seat]) /\ KnownOK(d, seat)
    /\ d.forfeited \subseteq DevilSeats /\ d.ended \in BOOLEAN
\* The round goes on, or it is over and somebody not lost is paid.
DevilOpen(d) == ~d.ended /\ d.eligible = {} /\ Lost(d) = {} /\ d.pointer < Size(d)
DevilClosed(d) == d.ended /\ d.eligible # {} /\ d.eligible \subseteq DevilSeats \ Lost(d)
DevilInv(d) == DevilHeld(d) /\ (DevilOpen(d) \/ DevilClosed(d))

\* No seat is twice in the order of play.
Injective(s) == \A i, j \in DOMAIN s : s[i] = s[j] => i = j
PressureFields == {"alive", "turn", "phase", "live", "dud", "gun", "spent", "pointer", "charge",
                   "debtOwner", "debt", "aggressor", "holder", "ripInitiator", "ripTarget",
                   "unloadUsed", "forfeited", "votes", "resumeMode", "ended", "eligible"}
\* The gun and the pool.
GunOK(p) ==
    /\ p.gun \in [Slots -> {"empty", "live", "dud"}] /\ p.pointer \in Slots
    /\ p.spent \subseteq Slots /\ \A i \in p.spent : p.gun[i] = "empty"
    /\ p.live \in Nat /\ p.dud \in Nat /\ p.live + p.dud <= PoolSize
\* Who plays, and the pairs of seats that duels are between.
PlayersOK(p) ==
    /\ p.alive \in Seq(PressureSeats) /\ Injective(p.alive) /\ Len(p.alive) >= 1
    /\ p.turn \in PressureSeats /\ p.charge \in Nat /\ p.ended \in BOOLEAN
    /\ p.debt \in 0..2 /\ (p.debtOwner = NoSeat) = (p.debt = 0)
    /\ (p.ripTarget = NoSeat) = (p.ripInitiator = NoSeat)
    /\ (p.aggressor = NoSeat) = (p.holder = NoSeat)
    /\ p.votes \subseteq Alive(p) /\ p.resumeMode \in {"", "FIRE", "CHOICE", "forcedPass"}
\* Whatever happens.
PressureHeld(p) == DOMAIN p = PressureFields /\ GunOK(p) /\ PlayersOK(p)
\* The seat to act is the one a debt or a riposte is about.
Duel(p) ==
    /\ p.debt > 0 => /\ p.debtOwner = p.turn
                     /\ p.phase = "FIRE" \/ (p.phase = "VOTE" /\ p.resumeMode = "FIRE")
    /\ p.ripTarget # NoSeat => /\ p.ripTarget = p.turn /\ p.ripInitiator \in Alive(p) \ {p.turn}
                               /\ p.phase = "FIRE" /\ p.debt = 0
    /\ p.aggressor # NoSeat => p.aggressor # p.holder
\* The game goes on.
PressureOpen(p) ==
    /\ ~p.ended /\ p.eligible = {} /\ Len(p.alive) >= 2 /\ p.turn \in Alive(p) /\ Duel(p)
    /\ p.phase \in {"FIRE", "CHOICE", "VOTE"}
    /\ p.phase # "VOTE" => p.votes = {}
    /\ p.phase = "VOTE" => /\ p.votes # Alive(p) /\ Bullets(p) = 0 /\ PoolLeft(p) = 0
                           /\ p.resumeMode # ""
\* The game is over: those who still play are paid.
PressureClosed(p) == p.ended /\ p.phase = "ENDED" /\ p.eligible = Alive(p)
PressureInv(p) == PressureHeld(p) /\ (PressureOpen(p) \/ PressureClosed(p))

\* What holds of the hidden state of either game.
RuleInv ==
    \/ rule = NoRule
    \/ DOMAIN rule = {"game", "state"} /\ rule.game = "devil" /\ DevilInv(rule.state)
    \/ DOMAIN rule = {"game", "state"} /\ rule.game = "pressure" /\ PressureInv(rule.state)

-----------------------------------------------------------------------------
\* The game for two.

\* Three things are finitely many.
LEMMA Triple == ASSUME NEW a, NEW b, NEW c PROVE IsFiniteSet({a, b, c})
  <1>1. IsFiniteSet({a})
    BY FS_Singleton
  <1>2. IsFiniteSet({a} \cup {b})
    BY <1>1, FS_AddElement
  <1>3. IsFiniteSet(({a} \cup {b}) \cup {c})
    BY <1>2, FS_AddElement
  <1>4. ({a} \cup {b}) \cup {c} = {a, b, c}
    OBVIOUS
  <1> QED
    BY <1>3, <1>4

\* There are nine items.
LEMMA ItemsFinite == IsFiniteSet(Items)
  <1>1. Items = ({"handcuffs", "adrenaline", "saw"} \cup {"magnifier", "inverter", "phone"})
                  \cup {"beer", "cigarette", "medicine"}
    BY DEF Items
  <1> QED
    BY <1>1, Triple, FS_Union

\* Giving or taking an item changes the size of a bag by one.
LEMMA BagStep ==
  ASSUME NEW bag, bag \in [Items -> Nat], NEW item \in Items, NEW n \in Int,
         NEW new, new \in [Items -> Nat], new[item] = bag[item] + n,
         \A x \in Items \ {item} : new[x] = bag[x]
  PROVE  BagSize(bag) \in Nat /\ BagSize(new) = BagSize(bag) + n
  <1>1. /\ new \in [Items -> Nat] /\ new[item] = bag[item] + n
        /\ \A x \in Items \ {item} : new[x] = bag[x]
    OBVIOUS
  <1>2. \A x \in Items : bag[x] \in Int /\ new[x] \in Int
    BY <1>1
  <1>3. SumFunctionOnSet(new, Items) = SumFunctionOnSet(bag, Items) + (new[item] - bag[item])
    <2>1. \A x \in Items \ {item} : new[x] = bag[x]
      BY <1>1
    <2>2. IsFiniteSet(Items) /\ item \in Items
      BY ItemsFinite
    <2> QED
      BY ONLY <1>2, <2>1, <2>2, SumUpdate
  <1>4. SumFunctionOnSet(bag, Items) \in Nat
    BY ItemsFinite, SumNat
  <1>5. bag[item] \in Nat /\ new[item] = bag[item] + n
    BY <1>1
  <1> QED
    BY <1>1, <1>3, <1>4, <1>5 DEF BagSize

\* An empty bag can be held.
LEMMA NoItemsOK == BagOK(NoItems)
  <1>1. NoItems \in [Items -> Nat] /\ \A x \in Items : NoItems[x] \in Int /\ NoItems[x] = 0
    BY DEF NoItems
  <1>2. SumFunctionOnSet(NoItems, Items) = SumFunctionOnSet(NoItems, {})
    BY <1>1, ItemsFinite, FS_EmptySet, SumWithin
  <1>3. BagSize(NoItems) = 0
    BY <1>2, SumEmpty DEF BagSize
  <1> QED
    BY <1>1, <1>3, DevilAssumption DEF BagOK

\* A draw leaves a bag that can be held.
LEMMA DrawOK ==
  ASSUME NEW bag, BagOK(bag)
  PROVE  DrawItem(bag) # {} /\ \A b \in DrawItem(bag) : BagOK(b)
  <1> DEFINE offered == {item \in Items : acquire(bag, item)}
  <1>1. CASE BagSize(bag) = ItemLimit \/ offered = {}
    <2>1. DrawItem(bag) = {bag}
      BY <1>1 DEF DrawItem
    <2> QED
      BY <2>1
  <1>2. CASE ~(BagSize(bag) = ItemLimit \/ offered = {})
    <2>1. DrawItem(bag) = {[bag EXCEPT ![item] = @ + 1] : item \in offered}
      BY <1>2 DEF DrawItem
    <2>2. ASSUME NEW item \in offered PROVE BagOK([bag EXCEPT ![item] = @ + 1])
      <3>1. PICK new : new = [bag EXCEPT ![item] = @ + 1]
        OBVIOUS
      <3>2. bag \in [Items -> Nat] /\ item \in Items /\ 1 \in Int
        BY DEF BagOK
      <3>5. /\ new \in [Items -> Nat] /\ new[item] = bag[item] + 1
            /\ \A x \in Items \ {item} : new[x] = bag[x]
        BY <3>1, <3>2
      <3>3. BagSize(bag) \in Nat /\ BagSize(new) = BagSize(bag) + 1
        BY ONLY <3>2, <3>5, BagStep
      <3>4. BagSize(new) <= ItemLimit
        BY <1>2, <3>3, DevilAssumption DEF BagOK
      <3> QED
        BY <3>1, <3>4, <3>5 DEF BagOK
    <2> HIDE DEF offered
    <2> QED
      BY <1>2, <2>1, <2>2
  <1> QED
    BY <1>1, <1>2

\* acquire is repeated for each item dealt.
LEMMA DealsOK ==
  ASSUME NEW bag, BagOK(bag), NEW n \in Nat
  PROVE  Deals(bag, n) # {} /\ \A b \in Deals(bag, n) : BagOK(b)
  <1> DEFINE Runs(k, a) == a = [i \in 0..k |-> IF i = 0 THEN {bag} ELSE UNION {DrawItem(b) : b \in a[i - 1]}]
             Bad == {k \in Nat : ~\E a : Runs(k, a)}
  <1>1. ASSUME Bad # {} PROVE FALSE
    <2>1. PICK m \in Bad : \A k \in Bad : m <= k
      BY <1>1, Smallest
    <2>2. CASE m = 0
      <3>1. PICK a : a = [i \in 0..0 |-> {bag}]
        OBVIOUS
      <3>2. Runs(0, a)
        BY <3>1
      <3> QED
        BY <2>1, <2>2, <3>2
    <2>3. CASE m # 0
      <3>1. m - 1 \in Nat /\ m - 1 \notin Bad /\ m \in Nat
        <4>1. m \in Nat
          BY <2>1
        <4>2. m - 1 \in Nat /\ ~(m <= m - 1)
          BY <2>3, <4>1
        <4> HIDE DEF Bad
        <4> QED
          BY <2>1, <4>1, <4>2
      <3>2. PICK a : Runs(m - 1, a)
        BY <3>1
      <3>3. PICK c : c = [i \in 0..m |-> IF i = 0 THEN {bag} ELSE UNION {DrawItem(b) : b \in a[i - 1]}]
        OBVIOUS
      <3>4. \A i \in 0..m : i # 0 => i - 1 \in 0..(m - 1)
        BY <3>1
      <3>5. \A i \in 0..(m - 1) : c[i] = a[i]
        <4>1. \A i \in 0..(m - 1) : i \in 0..m
          BY <3>1
        <4> QED
          BY <3>2, <3>3, <4>1
      <3>6. Runs(m, c)
        <4>1. \A i \in 0..m : i # 0 => c[i - 1] = a[i - 1]
          BY <3>4, <3>5
        <4>2. \A i \in 0..m : (IF i = 0 THEN {bag} ELSE UNION {DrawItem(b) : b \in a[i - 1]})
                 = (IF i = 0 THEN {bag} ELSE UNION {DrawItem(b) : b \in c[i - 1]})
          BY <4>1
        <4> QED
          BY <3>3, <4>2
      <3> QED
        BY <2>1, <3>6
    <2> QED
      BY <2>2, <2>3
  <1>2. \E a : Runs(n, a)
    BY <1>1
  <1>3. PICK a : a = CHOOSE b : Runs(n, b)
    OBVIOUS
  <1>4. Runs(n, a)
    BY <1>2, <1>3
  <1>5. Deals(bag, n) = a[n]
    BY <1>3 DEF Deals
  <1> HIDE DEF Bad
  <1> DEFINE Wrong == {k \in Nat : k \in 0..n /\ ~(a[k] # {} /\ \A b \in a[k] : BagOK(b))}
  <1>6. ASSUME Wrong # {} PROVE FALSE
    <2>1. PICK m \in Wrong : \A k \in Wrong : m <= k
      BY <1>6, Smallest
    <2>2. m \in 0..n
      BY <2>1
    <2>3. CASE m = 0
      <3>1. a[m] = {bag}
        BY <1>4, <2>2, <2>3
      <3> QED
        BY <2>1, <3>1
    <2>4. CASE m # 0
      <3>1. m - 1 \in 0..n /\ m - 1 \in Nat /\ ~(m <= m - 1)
        BY <2>2, <2>4
      <3>2. m - 1 \notin Wrong
        BY <2>1, <3>1
      <3>3. a[m - 1] # {} /\ \A b \in a[m - 1] : BagOK(b)
        BY <3>1, <3>2
      <3>4. a[m] = UNION {DrawItem(b) : b \in a[m - 1]}
        BY <1>4, <2>2, <2>4
      <3>5. a[m] # {} /\ \A b \in a[m] : BagOK(b)
        BY <3>3, <3>4, DrawOK
      <3> QED
        BY <2>1, <3>5
    <2> QED
      BY <2>3, <2>4
  <1>7. n \notin Wrong /\ n \in 0..n
    BY <1>6
  <1> QED
    BY <1>5, <1>7

\* There is a cylinder for each number of shells.
LEMMA CylindersOK ==
  /\ Cylinders # {}
  /\ \A c \in Cylinders : \E n \in ShellCounts : c \in [0..(n - 1) -> BOOLEAN]
  <1> DEFINE Some(n) == {f \in [0..(n - 1) -> BOOLEAN] :
               Cardinality({i \in DOMAIN f : f[i]}) \in ((4 * n + 5) \div 10)..((6 * n + 5) \div 10)}
  <1>1. Cylinders = UNION {Some(n) : n \in ShellCounts}
    BY DEF Cylinders
  <1>2. PICK n \in ShellCounts : n \in Nat \ {0}
    BY DevilAssumption
  <1>3. PICK k : k = (4 * n + 5) \div 10
    OBVIOUS
  <1>4. k \in Nat /\ k <= n /\ k <= (6 * n + 5) \div 10
    BY <1>2, <1>3
  <1>5. PICK f : f = [i \in 0..(n - 1) |-> i < k]
    OBVIOUS
  <1>6. f \in [0..(n - 1) -> BOOLEAN]
    BY <1>5
  <1>7. {i \in DOMAIN f : f[i]} = 0..(k - 1)
    <2>1. DOMAIN f = 0..(n - 1) /\ \A i \in 0..(n - 1) : f[i] <=> i < k
      BY <1>5
    <2>2. \A i : (i \in 0..(n - 1) /\ i < k) <=> i \in 0..(k - 1)
      BY <1>2, <1>4
    <2> QED
      BY <2>1, <2>2
  <1>8. Cardinality(0..(k - 1)) = k
    <2>1. 0 \in Int /\ k - 1 \in Int
      BY <1>4
    <2> QED
      BY <1>4, <2>1, FS_Interval
  <1>9. k \in ((4 * n + 5) \div 10)..((6 * n + 5) \div 10)
    BY <1>2, <1>3, <1>4
  <1>10. f \in Some(n)
    BY <1>6, <1>7, <1>8, <1>9
  <1>11. Cylinders # {}
    <2> HIDE DEF Some
    <2> QED BY <1>1, <1>2, <1>10
  <1>12. ASSUME NEW c \in Cylinders PROVE \E m \in ShellCounts : c \in [0..(m - 1) -> BOOLEAN]
    <2>1. PICK m \in ShellCounts : c \in Some(m)
      <3> HIDE DEF Some
      <3> QED BY <1>1
    <2> QED
      BY <2>1
  <1> QED
    BY <1>11, <1>12

\* A state for which a cylinder is to be loaded.
DevilSeed(d) ==
    /\ DOMAIN d = DevilFields /\ d.turn \in DevilSeats /\ d.first \in DevilSeats
    /\ d.hp \in [DevilSeats -> 0..MaxHP] /\ Lost(d) = {}
    /\ DOMAIN d.items = DevilSeats /\ \A seat \in DevilSeats : BagOK(d.items[seat])
    /\ d.forfeited \subseteq DevilSeats /\ d.ended = FALSE /\ d.eligible = {}

\* There are as many chambers as the cylinder has shells.
LEMMA SizeIs ==
  ASSUME NEW d, NEW n \in ShellCounts, d.shells \in [0..(n - 1) -> BOOLEAN]
  PROVE  Size(d) = n /\ n \in Nat \ {0}
  <1>1. n \in Nat \ {0} /\ 0 \in Int /\ n - 1 \in Int
    BY DevilAssumption
  <1>2. Cardinality(0..(n - 1)) = n
    BY <1>1, FS_Interval
  <1> QED
    BY <1>1, <1>2 DEF Size

\* Both players draw items they can hold.
LEMMA DealtOK ==
  ASSUME NEW d, \A seat \in DevilSeats : BagOK(d.items[seat])
  PROVE  /\ Dealt(d) # {}
         /\ \A b \in Dealt(d) : DOMAIN b = DevilSeats /\ \A seat \in DevilSeats : BagOK(b[seat])
  <1>1. 0 \in DevilSeats /\ 1 \in DevilSeats /\ \A seat \in DevilSeats : seat = 0 \/ seat = 1
    BY DEF DevilSeats
  <1>2. ItemDraws # {} /\ \A n \in ItemDraws : n \in Nat
    BY DevilAssumption
  <1>3. ASSUME NEW n \in ItemDraws
        PROVE  /\ Deals(d.items[0], n) # {} /\ \A b \in Deals(d.items[0], n) : BagOK(b)
               /\ Deals(d.items[1], n) # {} /\ \A b \in Deals(d.items[1], n) : BagOK(b)
    BY <1>1, <1>2, DealsOK
  <1> DEFINE Pairs(n) == {[seat \in DevilSeats |-> IF seat = 0 THEN b0 ELSE b1] :
               b0 \in Deals(d.items[0], n), b1 \in Deals(d.items[1], n)}
  <1>4. Dealt(d) = UNION {Pairs(n) : n \in ItemDraws}
    BY DEF Dealt
  <1>5. ASSUME NEW n \in ItemDraws
        PROVE  /\ Pairs(n) # {}
               /\ \A b \in Pairs(n) : DOMAIN b = DevilSeats /\ \A seat \in DevilSeats : BagOK(b[seat])
    <2>1. PICK x \in Deals(d.items[0], n), y \in Deals(d.items[1], n) : TRUE
      BY <1>3
    <2>2. [seat \in DevilSeats |-> IF seat = 0 THEN x ELSE y] \in Pairs(n)
      OBVIOUS
    <2>3. ASSUME NEW b \in Pairs(n)
          PROVE  DOMAIN b = DevilSeats /\ \A seat \in DevilSeats : BagOK(b[seat])
      <3>1. PICK b0 \in Deals(d.items[0], n), b1 \in Deals(d.items[1], n) :
                b = [seat \in DevilSeats |-> IF seat = 0 THEN b0 ELSE b1]
        BY <2>3
      <3>2. BagOK(b0) /\ BagOK(b1)
        BY <1>3
      <3> QED
        BY <3>1, <3>2
    <2> HIDE DEF Pairs
    <2> QED
      BY <2>2, <2>3
  <1> HIDE DEF Pairs
  <1> QED
    BY <1>2, <1>4, <1>5

\* reload leaves a state in which the round goes on.
LEMMA Reloaded ==
  ASSUME NEW d, DevilSeed(d), NEW alternate \in BOOLEAN
  PROVE  /\ devilReload(d, alternate) # {}
         /\ \A e \in devilReload(d, alternate) : DevilInv(e)
  <1>1. /\ Dealt(d) # {}
        /\ \A b \in Dealt(d) : DOMAIN b = DevilSeats /\ \A seat \in DevilSeats : BagOK(b[seat])
    BY DealtOK DEF DevilSeed
  <1>2. devilReload(d, alternate) # {}
    <2>1. PICK c \in Cylinders, b \in Dealt(d) : TRUE
      BY <1>1, CylindersOK
    <2>2. Loaded(d, c, b, alternate) \in devilReload(d, alternate)
      BY DEF devilReload
    <2> QED
      BY <2>2
  <1>3. ASSUME NEW e \in devilReload(d, alternate) PROVE DevilInv(e)
    <2>1. PICK c \in Cylinders, b \in Dealt(d) : e = Loaded(d, c, b, alternate)
      BY <1>3 DEF devilReload
    <2>2. PICK n \in ShellCounts : c \in [0..(n - 1) -> BOOLEAN]
      BY CylindersOK
    <2>3. /\ DOMAIN e = DevilFields /\ e.shells = c /\ e.pointer = 0 /\ e.items = b
          /\ e.known = [seat \in DevilSeats |-> <<>>]
          /\ e.first = (IF alternate THEN Other(d.first) ELSE d.first)
          /\ e.turn = (IF alternate THEN Other(d.first) ELSE d.turn)
          /\ e.hp = d.hp /\ e.forfeited = d.forfeited /\ e.ended = d.ended /\ e.eligible = d.eligible
      BY <2>1 DEF Loaded, DevilSeed, DevilFields
    <2>4. e.turn \in DevilSeats /\ e.first \in DevilSeats
      BY <2>3 DEF DevilSeed, DevilSeats, Other
    <2>5. Size(e) = n /\ n \in Nat \ {0}
      BY <2>2, <2>3, SizeIs
    <2>6. \A seat \in DevilSeats : KnownOK(e, seat)
      BY <2>3 DEF KnownOK
    <2>7. DevilHeld(e)
      <3>1. e.pointer \in 0..Size(e) /\ e.ended \in BOOLEAN /\ e.forfeited \subseteq DevilSeats
        <4>1. e.pointer \in 0..Size(e)
          BY <2>3, <2>5
        <4>2. e.ended = FALSE /\ e.forfeited \subseteq DevilSeats
          BY <2>3 DEF DevilSeed
        <4> QED
          BY <4>1, <4>2
      <3>2. e.hp \in [DevilSeats -> 0..MaxHP] /\ DOMAIN e.items = DevilSeats /\ DOMAIN e.known = DevilSeats
        BY <1>1, <2>3 DEF DevilSeed
      <3>3. \A seat \in DevilSeats : BagOK(e.items[seat])
        BY <1>1, <2>3
      <3>4. \E k \in ShellCounts : e.shells \in [0..(k - 1) -> BOOLEAN]
        BY <2>2, <2>3
      <3> QED
        BY <2>3, <2>4, <2>6, <3>1, <3>2, <3>3, <3>4 DEF DevilHeld
    <2>8. Lost(e) = {}
      BY <2>3 DEF DevilSeed, Lost
    <2>9. DevilOpen(e)
      BY <2>3, <2>5, <2>8 DEF DevilOpen, DevilSeed
    <2> QED
      BY <2>7, <2>9 DEF DevilInv
  <1> QED
    BY <1>2, <1>3

\* The first cylinder.
LEMMA DevilInitially == \A d \in newDevil : DevilInv(d)
  <1> SUFFICES ASSUME NEW d \in newDevil PROVE DevilInv(d)
    OBVIOUS
  <1>1. PICK t \in DevilSeats :
          d \in devilReload([hp |-> [seat \in DevilSeats |-> MaxHP],
                        items |-> [seat \in DevilSeats |-> NoItems],
                        known |-> [seat \in DevilSeats |-> <<>>], shells |-> <<>>,
                        pointer |-> 0, turn |-> t, first |-> t, saw |-> FALSE, cuffed |-> {},
                        ended |-> FALSE, eligible |-> {}, forfeited |-> {}], FALSE)
    BY DEF newDevil
  <1>2. PICK s : s = [hp |-> [seat \in DevilSeats |-> MaxHP],
                        items |-> [seat \in DevilSeats |-> NoItems],
                        known |-> [seat \in DevilSeats |-> <<>>], shells |-> <<>>,
                        pointer |-> 0, turn |-> t, first |-> t, saw |-> FALSE, cuffed |-> {},
                        ended |-> FALSE, eligible |-> {}, forfeited |-> {}]
    OBVIOUS
  <1>3. /\ DOMAIN s = DevilFields /\ s.turn = t /\ s.first = t /\ s.ended = FALSE /\ s.eligible = {}
        /\ s.forfeited = {} /\ s.hp = [seat \in DevilSeats |-> MaxHP]
        /\ s.items = [seat \in DevilSeats |-> NoItems]
    BY <1>2 DEF DevilFields
  <1>4. MaxHP \in 0..MaxHP /\ MaxHP > 0
    BY DevilAssumption
  <1>5. Lost(s) = {}
    BY <1>3, <1>4 DEF Lost
  <1>6. DevilSeed(s)
    BY <1>3, <1>4, <1>5, NoItemsOK DEF DevilSeed
  <1> QED
    BY <1>1, <1>2, <1>6, Reloaded
-----------------------------------------------------------------------------
\* A shell is used up: nobody knows more than before, and of later shells only.
LEMMA Consumed ==
  ASSUME NEW d, DevilHeld(d), d.pointer < Size(d), NEW e, e = consume(d)
  PROVE  /\ DevilHeld(e) /\ e.pointer = d.pointer + 1 /\ Size(e) = Size(d) /\ e.turn = d.turn
         /\ e.first = d.first /\ e.hp = d.hp /\ e.items = d.items /\ e.forfeited = d.forfeited
         /\ e.ended = d.ended /\ e.eligible = d.eligible /\ e.shells = d.shells
         /\ e.cuffed = d.cuffed
  <1>1. PICK n \in ShellCounts : d.shells \in [0..(n - 1) -> BOOLEAN]
    BY DEF DevilHeld
  <1>2. Size(d) = n /\ n \in Nat \ {0} /\ d.pointer \in 0..n
    BY <1>1, SizeIs DEF DevilHeld
  <1>3. /\ DOMAIN e = DevilFields /\ e.pointer = d.pointer + 1 /\ e.turn = d.turn
        /\ e.first = d.first /\ e.hp = d.hp /\ e.items = d.items /\ e.forfeited = d.forfeited
        /\ e.ended = d.ended /\ e.eligible = d.eligible /\ e.shells = d.shells
        /\ e.cuffed = d.cuffed
        /\ e.known = [seat \in DevilSeats |->
                         Restrict(d.known[seat], DOMAIN d.known[seat] \ {d.pointer})]
    BY DEF consume, DevilHeld, DevilFields
  <1>4. Size(e) = n
    BY <1>2, <1>3 DEF Size
  <1>5. ASSUME NEW seat \in DevilSeats PROVE KnownOK(e, seat)
    <2>1. KnownOK(d, seat)
      BY DEF DevilHeld
    <2>2. /\ DOMAIN e.known[seat] = DOMAIN d.known[seat] \ {d.pointer}
          /\ \A i \in DOMAIN d.known[seat] \ {d.pointer} : e.known[seat][i] = d.known[seat][i]
      BY <1>3 DEF Restrict
    <2>3. \A i \in DOMAIN d.known[seat] \ {d.pointer} : i \in (d.pointer + 1)..(n - 1)
      BY <1>2, <2>1 DEF KnownOK
    <2> QED
      BY <1>2, <1>3, <1>4, <2>1, <2>2, <2>3 DEF KnownOK
  <1>6. e.pointer \in 0..n
    BY <1>2, <1>3
  <1>7. DevilHeld(e)
    BY <1>1, <1>3, <1>4, <1>5, <1>6 DEF DevilHeld
  <1> QED
    BY <1>2, <1>3, <1>4, <1>7

\* A seat out of play ends the round for the other one.
LEMMA Finished ==
  ASSUME NEW s, DevilHeld(s), ~s.ended, s.eligible = {}, NEW v \in DevilSeats, Lost(s) \subseteq {v},
         NEW f, f = devilFinish(s)
  PROVE  /\ DevilHeld(f) /\ (Lost(s) = {} => f = s) /\ (Lost(s) # {} => DevilInv(f) /\ f.ended)
  <1>1. CASE Lost(s) = {}
    BY <1>1 DEF devilFinish
  <1>2. CASE Lost(s) # {}
    <2>1. Lost(s) = {v}
      BY <1>2
    <2>2. Max(Lost(s)) = v
      <3>1. v \in {v} /\ \A y \in {v} : v >= y
        BY DEF DevilSeats
      <3> QED
        BY <2>1, <3>1 DEF Max
    <2>3. f = [s EXCEPT !.ended = TRUE, !.eligible = {Other(v)}]
      BY <1>2, <2>2 DEF devilFinish
    <2>4. Other(v) \in DevilSeats /\ Other(v) # v
      BY DEF Other, DevilSeats
    <2>5. /\ DOMAIN f = DevilFields /\ f.pointer = s.pointer /\ f.turn = s.turn
          /\ f.first = s.first /\ f.hp = s.hp /\ f.items = s.items /\ f.forfeited = s.forfeited
          /\ f.ended /\ f.eligible = {Other(v)} /\ f.shells = s.shells /\ f.known = s.known
      BY <2>3 DEF DevilHeld, DevilFields
    <2>6. Lost(f) = {v} /\ Size(f) = Size(s)
      BY <2>1, <2>5 DEF Lost, Size
    <2>7. DevilHeld(f)
      BY <2>5, <2>6 DEF DevilHeld, KnownOK
    <2> QED
      BY <1>2, <2>4, <2>5, <2>6, <2>7 DEF DevilInv, DevilClosed
  <1> QED
    BY <1>1, <1>2

\* The lesser and the greater of two numbers.
LEMMA LesserOf == ASSUME NEW x \in Int, NEW y \in Int PROVE Min({x, y}) = IF x <= y THEN x ELSE y
  <1>1. \A z \in {x, y} : (\A w \in {x, y} : z <= w) <=> z = IF x <= y THEN x ELSE y
    OBVIOUS
  <1>2. (IF x <= y THEN x ELSE y) \in {x, y}
    OBVIOUS
  <1> QED
    BY <1>1, <1>2 DEF Min
LEMMA GreaterOf == ASSUME NEW x \in Int, NEW y \in Int PROVE Max({x, y}) = IF x >= y THEN x ELSE y
  <1>1. \A z \in {x, y} : (\A w \in {x, y} : z >= w) <=> z = IF x >= y THEN x ELSE y
    OBVIOUS
  <1>2. (IF x >= y THEN x ELSE y) \in {x, y}
    OBVIOUS
  <1> QED
    BY <1>1, <1>2 DEF Max

\* A change of one seat's lives that leaves the other seat in play.
LEMMA LivesChanged ==
  ASSUME NEW d, DevilHeld(d), NEW v \in DevilSeats, NEW h \in 0..MaxHP,
         NEW e, e = [d EXCEPT !.hp[v] = h]
  PROVE  /\ DevilHeld(e) /\ e.pointer = d.pointer /\ Size(e) = Size(d) /\ e.ended = d.ended
         /\ e.eligible = d.eligible /\ Lost(e) \subseteq Lost(d) \cup {v}
         /\ e.turn = d.turn /\ e.first = d.first /\ e.cuffed = d.cuffed
         /\ (v \notin Lost(d) /\ h > 0 => Lost(e) \subseteq Lost(d))
  <1>1. /\ DOMAIN e = DevilFields /\ e.pointer = d.pointer /\ e.turn = d.turn
        /\ e.first = d.first /\ e.items = d.items /\ e.forfeited = d.forfeited
        /\ e.ended = d.ended /\ e.eligible = d.eligible /\ e.shells = d.shells
        /\ e.known = d.known /\ e.cuffed = d.cuffed
        /\ e.hp = [d.hp EXCEPT ![v] = h]
    BY DEF DevilHeld, DevilFields
  <1>2. /\ e.hp \in [DevilSeats -> 0..MaxHP] /\ e.hp[v] = h
        /\ \A seat \in DevilSeats \ {v} : e.hp[seat] = d.hp[seat]
    BY <1>1 DEF DevilHeld
  <1>3. Size(e) = Size(d)
    BY <1>1 DEF Size
  <1>4. DevilHeld(e)
    <2>1. \A seat \in DevilSeats : BagOK(e.items[seat]) /\ KnownOK(e, seat)
      BY <1>1, <1>3 DEF DevilHeld, KnownOK
    <2>2. \E n \in ShellCounts : e.shells \in [0..(n - 1) -> BOOLEAN]
      BY <1>1 DEF DevilHeld
    <2>3. e.pointer \in 0..Size(e)
      BY <1>1, <1>3 DEF DevilHeld
    <2>4. /\ e.turn \in DevilSeats /\ e.first \in DevilSeats /\ e.forfeited \subseteq DevilSeats
          /\ DOMAIN e.items = DevilSeats /\ DOMAIN e.known = DevilSeats
      BY <1>1 DEF DevilHeld
    <2> QED
      BY <1>1, <1>2, <2>1, <2>2, <2>3, <2>4 DEF DevilHeld
  <1>5. Lost(e) \subseteq Lost(d) \cup {v}
    BY <1>1, <1>2 DEF Lost
  <1>6. v \notin Lost(d) /\ h > 0 => Lost(e) \subseteq Lost(d)
    <2>1. h \in Int
      OBVIOUS
    <2> QED
      BY <1>1, <1>2, <2>1 DEF Lost
  <1> QED
    BY <1>1, <1>3, <1>4, <1>5, <1>6

\* A state in which the round goes on can be loaded anew.
LEMMA HeldIsSeed ==
  ASSUME NEW d, DevilHeld(d), ~d.ended, d.eligible = {}, Lost(d) = {}
  PROVE  DevilSeed(d)
  BY DEF DevilHeld, DevilSeed

\* The turn goes to one of the two.
LEMMA Turned ==
  ASSUME NEW d, DevilHeld(d), DevilOpen(d), NEW v \in DevilSeats
  PROVE  DevilInv(devilTurn(d, v))
  <1>1. PICK e : e = devilTurn(d, v)
    OBVIOUS
  <1>2. /\ DOMAIN e = DevilFields /\ e.pointer = d.pointer /\ e.turn \in DevilSeats
        /\ e.first = d.first /\ e.items = d.items /\ e.forfeited = d.forfeited
        /\ e.ended = d.ended /\ e.eligible = d.eligible /\ e.shells = d.shells
        /\ e.known = d.known /\ e.hp = d.hp
    <2>1. Other(v) \in DevilSeats
      BY DEF Other, DevilSeats
    <2>2. \/ e = [d EXCEPT !.turn = v]
          \/ e = [d EXCEPT !.cuffed = {}, !.turn = Other(v)]
          \/ e = [d EXCEPT !.cuffed = {}, !.turn = v]
      BY <1>1 DEF devilTurn
    <2> QED
      BY <2>1, <2>2 DEF DevilHeld, DevilFields
  <1>3. Size(e) = Size(d) /\ Lost(e) = Lost(d)
    BY <1>2 DEF Size, Lost
  <1>4. DevilHeld(e)
    BY <1>2, <1>3 DEF DevilHeld, KnownOK
  <1>5. DevilOpen(e)
    BY <1>2, <1>3 DEF DevilOpen
  <1> QED
    BY <1>1, <1>4, <1>5 DEF DevilInv

\* A shot: the round ends, a new cylinder is loaded, or the turn passes.
LEMMA Shoots ==
  ASSUME NEW d, DevilHeld(d), DevilOpen(d), NEW seat \in DevilSeats, NEW target
  PROVE  shoot(d, seat, target) # {} /\ \A e \in shoot(d, seat, target) : DevilInv(e)
  <1> DEFINE hit == d.shells[d.pointer]
             at == IF target = "SELF" THEN seat ELSE Other(seat)
             damage == IF d.saw THEN 2 ELSE 1
             spent == consume([d EXCEPT !.saw = FALSE])
             new == IF hit THEN [spent EXCEPT !.hp[at] = Max({0, @ - damage})] ELSE spent
             s == devilFinish(new)
  <1>1. shoot(d, seat, target) =
           IF s.ended THEN {s}
           ELSE IF s.pointer = Size(s) THEN devilReload(s, TRUE)
           ELSE {devilTurn(s, IF ~hit /\ target = "SELF" THEN seat ELSE Other(seat))}
    BY DEF shoot
  <1>2. at \in DevilSeats /\ Other(seat) \in DevilSeats
    BY DEF Other, DevilSeats
  <1>3. PICK c : c = [d EXCEPT !.saw = FALSE]
    OBVIOUS
  <1>4. DevilHeld(c) /\ DevilOpen(c)
    <2>1. /\ DOMAIN c = DevilFields /\ c.pointer = d.pointer /\ c.turn = d.turn
          /\ c.first = d.first /\ c.items = d.items /\ c.forfeited = d.forfeited
          /\ c.ended = d.ended /\ c.eligible = d.eligible /\ c.shells = d.shells
          /\ c.known = d.known /\ c.hp = d.hp
      BY <1>3 DEF DevilHeld, DevilFields
    <2>2. Size(c) = Size(d) /\ Lost(c) = Lost(d)
      BY <2>1 DEF Size, Lost
    <2> QED
      BY <2>1, <2>2 DEF DevilHeld, DevilOpen, KnownOK
  <1>5. PICK p : p = spent
    OBVIOUS
  <1>6. /\ DevilHeld(p) /\ Size(p) = Size(c) /\ p.pointer = c.pointer + 1 /\ ~p.ended
        /\ p.eligible = {} /\ Lost(p) = {}
    <2>1. /\ DevilHeld(p) /\ p.pointer = c.pointer + 1 /\ Size(p) = Size(c)
          /\ p.hp = c.hp /\ p.forfeited = c.forfeited /\ p.ended = c.ended /\ p.eligible = c.eligible
      BY <1>3, <1>4, <1>5, Consumed DEF DevilOpen
    <2> QED
      BY <1>4, <2>1 DEF DevilOpen, Lost
  <1>7. PICK m : m = new
    OBVIOUS
  <1>8. /\ DevilHeld(m) /\ ~m.ended /\ m.eligible = {} /\ Lost(m) \subseteq {at}
        /\ m.pointer = p.pointer /\ Size(m) = Size(p)
    <2>1. CASE hit
      <3>1. PICK h : h = Max({0, p.hp[at] - damage})
        OBVIOUS
      <3>2. h \in 0..MaxHP
        <4>1. p.hp[at] \in 0..MaxHP /\ damage \in {1, 2}
          BY <1>2, <1>6 DEF DevilHeld
        <4>2. p.hp[at] \in Int /\ p.hp[at] - damage \in Int /\ MaxHP \in Nat
          BY <4>1, DevilAssumption
        <4>3. h = IF 0 >= p.hp[at] - damage THEN 0 ELSE p.hp[at] - damage
          BY <3>1, <4>2, GreaterOf
        <4> QED
          BY <4>1, <4>2, <4>3
      <3>3. m = [p EXCEPT !.hp[at] = h]
        BY <1>5, <1>7, <2>1, <3>1
      <3> HIDE DEF at
      <3> QED
        BY <1>2, <1>6, <3>2, <3>3, LivesChanged
    <2>2. CASE ~hit
      BY <1>5, <1>6, <1>7, <2>2
    <2> QED
      BY <2>1, <2>2
  <1>9. PICK f : f = s
    OBVIOUS
  <1>10. DevilHeld(f) /\ (Lost(m) = {} => f = m) /\ (Lost(m) # {} => DevilInv(f) /\ f.ended)
    <2>1. f = devilFinish(m)
      BY <1>7, <1>9
    <2> HIDE DEF at
    <2> QED
      BY <1>2, <1>8, <2>1, Finished
  <1>11. CASE Lost(m) # {}
    <2>1. shoot(d, seat, target) = {f}
      BY <1>1, <1>9, <1>10, <1>11
    <2> QED
      BY <1>10, <1>11, <2>1
  <1>12. CASE Lost(m) = {}
    <2>1. f = m /\ ~f.ended /\ f.eligible = {} /\ Lost(f) = {}
      BY <1>8, <1>10, <1>12
    <2>2. CASE f.pointer = Size(f)
      <3>1. shoot(d, seat, target) = devilReload(f, TRUE)
        BY <1>1, <1>9, <2>1, <2>2
      <3>2. DevilSeed(f)
        BY <1>10, <2>1, HeldIsSeed
      <3> QED
        BY <3>1, <3>2, Reloaded
    <2>3. CASE f.pointer # Size(f)
      <3>1. PICK v \in DevilSeats : shoot(d, seat, target) = {devilTurn(f, v)}
        BY <1>1, <1>2, <1>9, <2>1, <2>3
      <3>2. f.pointer < Size(f)
        <4>1. PICK n \in ShellCounts : f.shells \in [0..(n - 1) -> BOOLEAN]
          BY <1>10 DEF DevilHeld
        <4>2. Size(f) = n /\ n \in Nat \ {0} /\ f.pointer \in 0..n
          BY <1>10, <4>1, SizeIs DEF DevilHeld
        <4> QED
          BY <2>3, <4>2
      <3>3. DevilOpen(f)
        BY <2>1, <3>2 DEF DevilOpen
      <3> QED
        BY <1>10, <3>1, <3>3, Turned
    <2> QED
      BY <2>2, <2>3
  <1> QED
    BY <1>11, <1>12

\* States that differ in what no invariant is about.
DevilLike(e, d) ==
    /\ DOMAIN e = DevilFields /\ e.pointer = d.pointer /\ e.turn = d.turn /\ e.first = d.first
    /\ e.hp = d.hp /\ e.forfeited = d.forfeited /\ e.ended = d.ended /\ e.eligible = d.eligible

\* The round goes on in both or in neither.
LEMMA LikeOpen ==
  ASSUME NEW d, DevilHeld(d), DevilOpen(d), NEW e, DevilLike(e, d), e.items = d.items,
         NEW n \in ShellCounts, d.shells \in [0..(n - 1) -> BOOLEAN], e.shells \in [0..(n - 1) -> BOOLEAN],
         DOMAIN e.known = DevilSeats, \A seat \in DevilSeats : KnownOK(e, seat)
  PROVE  DevilHeld(e) /\ DevilOpen(e)
  <1>1. Size(e) = n /\ Size(d) = n /\ n \in Nat
    BY SizeIs
  <1>2. Lost(e) = Lost(d)
    BY DEF DevilLike, Lost
  <1>3. DevilHeld(e)
    BY <1>1 DEF DevilHeld, DevilLike
  <1> QED
    BY <1>1, <1>2, <1>3 DEF DevilOpen, DevilLike

\* A player sees a shell that is there.
LEMMA Revealed ==
  ASSUME NEW d, DevilHeld(d), DevilOpen(d), NEW seat \in DevilSeats,
         NEW i \in DOMAIN d.shells, i >= d.pointer
  PROVE  DevilInv(Reveal(d, seat, i))
  <1>1. PICK n \in ShellCounts : d.shells \in [0..(n - 1) -> BOOLEAN]
    BY DEF DevilHeld
  <1>2. Size(d) = n /\ n \in Nat \ {0} /\ d.pointer \in 0..n /\ DOMAIN d.shells = 0..(n - 1)
    BY <1>1, SizeIs DEF DevilHeld
  <1>3. PICK e : e = Reveal(d, seat, i)
    OBVIOUS
  <1>4. PICK k : k = [j \in DOMAIN d.known[seat] \cup {i} |-> d.shells[j]]
    OBVIOUS
  <1>5. /\ DevilLike(e, d) /\ e.items = d.items /\ e.shells = d.shells
        /\ e.known = [d.known EXCEPT ![seat] = k]
    BY <1>3, <1>4 DEF Reveal, DevilLike, DevilHeld, DevilFields
  <1>6. /\ DOMAIN e.known = DevilSeats /\ e.known[seat] = k
        /\ \A v \in DevilSeats \ {seat} : e.known[v] = d.known[v]
    BY <1>5 DEF DevilHeld
  <1>7. Size(e) = n
    BY <1>2, <1>5 DEF Size
  <1>8. ASSUME NEW v \in DevilSeats PROVE KnownOK(e, v)
    <2>1. KnownOK(d, v)
      BY DEF DevilHeld
    <2>2. CASE v = seat
      <3>1. i \in d.pointer..(n - 1)
        BY <1>2
      <3>2. DOMAIN k = DOMAIN d.known[seat] \cup {i} /\ \A j \in DOMAIN k : k[j] = d.shells[j]
        BY <1>4
      <3>3. e.pointer = d.pointer
        BY <1>5 DEF DevilLike
      <3> QED
        BY <1>2, <1>5, <1>6, <1>7, <2>1, <2>2, <3>1, <3>2, <3>3 DEF KnownOK
    <2>3. CASE v # seat
      BY <1>2, <1>5, <1>6, <1>7, <2>1, <2>3 DEF KnownOK, DevilLike
    <2> QED
      BY <2>2, <2>3
  <1>9. DevilHeld(e) /\ DevilOpen(e)
    BY <1>1, <1>5, <1>6, <1>8, LikeOpen
  <1> QED
    BY <1>3, <1>9 DEF DevilInv

\* The current shell is turned, for the cylinder and for who knows it.
LEMMA Inverted ==
  ASSUME NEW d, DevilHeld(d), DevilOpen(d)
  PROVE  DevilInv(inverter(d))
  <1>1. PICK n \in ShellCounts : d.shells \in [0..(n - 1) -> BOOLEAN]
    BY DEF DevilHeld
  <1>2. Size(d) = n /\ n \in Nat \ {0} /\ d.pointer \in 0..n /\ DOMAIN d.shells = 0..(n - 1)
    BY <1>1, SizeIs DEF DevilHeld
  <1>3. PICK e, a : e = inverter(d) /\ a = d.pointer
    OBVIOUS
  <1>4. a \in 0..(n - 1)
    BY <1>2, <1>3 DEF DevilOpen
  <1>5. /\ DevilLike(e, d) /\ e.items = d.items
        /\ e.shells = [d.shells EXCEPT ![a] = ~@]
        /\ e.known = [seat \in DevilSeats |-> [i \in DOMAIN d.known[seat] |->
                         IF i = a THEN ~d.known[seat][i] ELSE d.known[seat][i]]]
    BY <1>3 DEF inverter, DevilLike, DevilHeld, DevilFields
  <1>6. /\ e.shells \in [0..(n - 1) -> BOOLEAN] /\ e.shells[a] = ~d.shells[a]
        /\ \A i \in 0..(n - 1) : i # a => e.shells[i] = d.shells[i]
    BY <1>1, <1>4, <1>5
  <1>7. Size(e) = n
    BY <1>6, SizeIs
  <1>8. ASSUME NEW v \in DevilSeats PROVE KnownOK(e, v)
    <2>1. /\ DOMAIN d.known[v] \subseteq a..(n - 1)
          /\ \A i \in DOMAIN d.known[v] : d.shells[i] = d.known[v][i]
      BY <1>2, <1>3 DEF DevilHeld, KnownOK
    <2>2. /\ DOMAIN e.known[v] = DOMAIN d.known[v]
          /\ \A i \in DOMAIN d.known[v] :
                e.known[v][i] = IF i = a THEN ~d.known[v][i] ELSE d.known[v][i]
      BY <1>5
    <2>3. \A i \in DOMAIN d.known[v] : i \in 0..(n - 1)
      BY <1>4, <2>1
    <2>4. \A i \in DOMAIN d.known[v] : e.shells[i] = e.known[v][i]
      BY <1>6, <2>1, <2>2, <2>3
    <2>5. e.pointer = a
      BY <1>3, <1>5 DEF DevilLike
    <2> QED
      BY <1>7, <2>1, <2>2, <2>4, <2>5 DEF KnownOK
  <1>9. DOMAIN e.known = DevilSeats
    BY <1>5
  <1>10. DevilHeld(e) /\ DevilOpen(e)
    BY <1>1, <1>5, <1>6, <1>8, <1>9, LikeOpen
  <1> QED
    BY <1>3, <1>10 DEF DevilInv

\* An item is used that its owner had.
LEMMA Spent ==
  ASSUME NEW d, DevilHeld(d), DevilOpen(d), NEW seat \in DevilSeats, NEW item \in HeldItems(d, seat),
         NEW e, e = Spend(d, seat, item)
  PROVE  DevilHeld(e) /\ DevilOpen(e) /\ \A v \in DevilSeats \ {seat} : e.items[v] = d.items[v]
  <1>1. PICK bag, new : bag = d.items[seat] /\ new = [bag EXCEPT ![item] = @ + (-1)]
    OBVIOUS
  <1>2. bag \in [Items -> Nat] /\ item \in Items /\ bag[item] > 0 /\ BagSize(bag) <= ItemLimit
    BY <1>1 DEF DevilHeld, BagOK, HeldItems
  <1>3. -1 \in Int /\ bag[item] + (-1) \in Nat
    BY <1>2
  <1>4. new \in [Items -> Nat] /\ BagSize(bag) \in Nat /\ BagSize(new) = BagSize(bag) + (-1)
    <2>1. /\ new \in [Items -> Nat] /\ new[item] = bag[item] + (-1)
          /\ \A x \in Items \ {item} : new[x] = bag[x]
      BY <1>1, <1>2, <1>3
    <2> QED
      BY ONLY <1>2, <1>3, <2>1, BagStep
  <1>5. BagOK(new)
    BY <1>2, <1>4, DevilAssumption DEF BagOK
  <1>6. new = [bag EXCEPT ![item] = @ - 1]
    BY <1>1, <1>2
  <1>7. e = [d EXCEPT !.items = [d.items EXCEPT ![seat] = new]]
    BY <1>1, <1>6 DEF Spend, DevilHeld, DevilFields
  <1>8. /\ DevilLike(e, d) /\ e.known = d.known /\ e.shells = d.shells
        /\ e.items = [d.items EXCEPT ![seat] = new]
    BY <1>7 DEF DevilLike, DevilHeld, DevilFields
  <1>9. /\ DOMAIN e.items = DevilSeats /\ e.items[seat] = new
        /\ \A v \in DevilSeats \ {seat} : e.items[v] = d.items[v]
    BY <1>8 DEF DevilHeld
  <1>10. Size(e) = Size(d) /\ Lost(e) = Lost(d)
    BY <1>8 DEF DevilLike, Size, Lost
  <1>11. \A v \in DevilSeats : BagOK(e.items[v]) /\ KnownOK(e, v)
    BY <1>5, <1>8, <1>9, <1>10 DEF DevilHeld, KnownOK, DevilLike
  <1>12. DevilHeld(e)
    BY <1>8, <1>9, <1>10, <1>11 DEF DevilHeld, DevilLike
  <1>13. DevilOpen(e)
    BY <1>8, <1>10 DEF DevilOpen, DevilLike
  <1> QED
    BY <1>9, <1>12, <1>13

\* A life regained, up to the limit.
LEMMA Healed ==
  ASSUME NEW d, DevilHeld(d), DevilOpen(d), NEW seat \in DevilSeats, NEW n \in Nat
  PROVE  DevilInv(Heal(d, seat, n)) /\ DevilHeld(Heal(d, seat, n)) /\ DevilOpen(Heal(d, seat, n))
  <1>1. PICK h : h = Min({MaxHP, d.hp[seat] + n})
    OBVIOUS
  <1>2. d.hp[seat] \in 0..MaxHP /\ seat \notin Lost(d) /\ MaxHP \in Nat \ {0}
    BY DevilAssumption DEF DevilHeld, DevilOpen
  <1>3. d.hp[seat] \in Nat /\ d.hp[seat] > 0
    BY <1>2 DEF Lost
  <1>4. h = IF MaxHP <= d.hp[seat] + n THEN MaxHP ELSE d.hp[seat] + n
    BY <1>1, <1>2, <1>3, LesserOf
  <1>5. h \in 0..MaxHP /\ h > 0
    BY <1>2, <1>3, <1>4
  <1>6. PICK e : e = Heal(d, seat, n)
    OBVIOUS
  <1>7. e = [d EXCEPT !.hp[seat] = h]
    BY <1>1, <1>6 DEF Heal
  <1>8. /\ DevilHeld(e) /\ e.pointer = d.pointer /\ Size(e) = Size(d) /\ e.ended = d.ended
        /\ e.eligible = d.eligible /\ Lost(e) \subseteq Lost(d)
    BY <1>2, <1>5, <1>7, LivesChanged
  <1>9. DevilOpen(e)
    BY <1>8 DEF DevilOpen
  <1> QED
    BY <1>6, <1>8, <1>9 DEF DevilInv

\* The medicine that harms.
LEMMA Poisoned ==
  ASSUME NEW d, DevilHeld(d), DevilOpen(d), NEW seat \in DevilSeats
  PROVE  DevilInv(devilFinish([d EXCEPT !.hp[seat] = @ - 1]))
  <1>1. PICK h : h = d.hp[seat] - 1
    OBVIOUS
  <1>2. d.hp[seat] \in 0..MaxHP /\ seat \notin Lost(d) /\ MaxHP \in Nat
    BY DevilAssumption DEF DevilHeld, DevilOpen
  <1>3. h \in 0..MaxHP
    BY <1>1, <1>2 DEF Lost
  <1>4. PICK m : m = [d EXCEPT !.hp[seat] = h]
    OBVIOUS
  <1>5. /\ DevilHeld(m) /\ m.pointer = d.pointer /\ Size(m) = Size(d) /\ ~m.ended
        /\ m.eligible = {} /\ Lost(m) \subseteq {seat}
    BY <1>3, <1>4, LivesChanged DEF DevilOpen
  <1>6. PICK f : f = devilFinish(m)
    OBVIOUS
  <1>7. DevilHeld(f) /\ (Lost(m) = {} => f = m) /\ (Lost(m) # {} => DevilInv(f))
    BY <1>5, <1>6, Finished
  <1>8. DevilInv(f)
    BY <1>5, <1>7 DEF DevilInv, DevilOpen
  <1> QED
    BY <1>1, <1>4, <1>6, <1>8

\* An item does what it does to a state in which the round goes on.
LEMMA ItemUsed ==
  ASSUME NEW d, DevilHeld(d), DevilOpen(d), NEW seat \in DevilSeats,
         NEW item \in Items \ {"adrenaline"}
  PROVE  \A e \in useItem(d, seat, item) : DevilInv(e)
  <1>1. PICK n \in ShellCounts : d.shells \in [0..(n - 1) -> BOOLEAN]
    BY DEF DevilHeld
  <1>2. Size(d) = n /\ n \in Nat \ {0} /\ d.pointer \in 0..(n - 1) /\ DOMAIN d.shells = 0..(n - 1)
    BY <1>1, SizeIs DEF DevilHeld, DevilOpen
  <1>3. DevilInv(d)
    BY DEF DevilInv
  <1>4. ASSUME NEW e, DevilLike(e, d), e.items = d.items, e.shells = d.shells, e.known = d.known
        PROVE  DevilInv(e)
    <2>1. \A v \in DevilSeats : KnownOK(e, v)
      <3>1. Size(e) = Size(d)
        BY <1>4 DEF Size
      <3> QED
        BY <1>4, <3>1 DEF DevilHeld, KnownOK, DevilLike
    <2>2. DOMAIN e.known = DevilSeats
      BY <1>4 DEF DevilHeld
    <2> QED
      BY <1>1, <1>4, <2>1, <2>2, LikeOpen DEF DevilInv
  <1>5. CASE item = "magnifier"
    <2>1. useItem(d, seat, item) = {Reveal(d, seat, d.pointer)}
      BY <1>5 DEF useItem
    <2>2. d.pointer \in DOMAIN d.shells /\ d.pointer >= d.pointer
      BY <1>2
    <2> QED
      BY <2>1, <2>2, Revealed
  <1>6. CASE item = "phone"
    <2>1. useItem(d, seat, item) = phone(d, seat)
      BY <1>6 DEF useItem
    <2>2. ASSUME NEW e \in phone(d, seat)
          PROVE  e = d \/ \E i \in DOMAIN d.shells : i > d.pointer /\ e = Reveal(d, seat, i)
      BY <2>2 DEF phone
    <2>3. ASSUME NEW i \in DOMAIN d.shells, i > d.pointer PROVE DevilInv(Reveal(d, seat, i))
      BY <1>2, <2>3, Revealed
    <2> QED
      BY <1>3, <2>1, <2>2, <2>3
  <1>7. CASE item = "saw"
    <2>1. PICK e : e = [d EXCEPT !.saw = TRUE]
      OBVIOUS
    <2>2. DevilLike(e, d) /\ e.items = d.items /\ e.shells = d.shells /\ e.known = d.known
      BY <2>1 DEF DevilLike, DevilHeld, DevilFields
    <2>3. useItem(d, seat, item) = {e}
      BY <1>7, <2>1 DEF useItem
    <2> QED
      BY <1>4, <2>2, <2>3
  <1>8. CASE item = "handcuffs"
    <2>1. PICK e : e = [d EXCEPT !.cuffed = @ \cup {Other(seat)}]
      OBVIOUS
    <2>2. DevilLike(e, d) /\ e.items = d.items /\ e.shells = d.shells /\ e.known = d.known
      BY <2>1 DEF DevilLike, DevilHeld, DevilFields
    <2>3. useItem(d, seat, item) = {e}
      BY <1>8, <2>1 DEF useItem
    <2> QED
      BY <1>4, <2>2, <2>3
  <1>9. CASE item = "cigarette"
    <2>1. useItem(d, seat, item) = {Heal(d, seat, 1)}
      BY <1>9 DEF useItem
    <2> QED
      BY <2>1, Healed
  <1>10. CASE item = "medicine"
    <2>1. useItem(d, seat, item)
             = {devilFinish(Heal(d, seat, 2)), devilFinish([d EXCEPT !.hp[seat] = @ - 1])}
      BY <1>10 DEF useItem
    <2>2. devilFinish(Heal(d, seat, 2)) = Heal(d, seat, 2)
      BY Healed DEF devilFinish, DevilOpen
    <2> QED
      BY <2>1, <2>2, Healed, Poisoned
  <1>11. CASE item = "inverter"
    <2>1. useItem(d, seat, item) = {inverter(d)}
      BY <1>11 DEF useItem
    <2> QED
      BY <2>1, Inverted
  <1>12. CASE item = "beer"
    <2>1. PICK s : s = consume(d)
      OBVIOUS
    <2>2. useItem(d, seat, item) = IF s.pointer = Size(s) THEN devilReload(s, TRUE) ELSE {s}
      BY <1>12, <2>1 DEF useItem
    <2>3. /\ DevilHeld(s) /\ s.pointer = d.pointer + 1 /\ Size(s) = Size(d) /\ s.hp = d.hp
          /\ s.forfeited = d.forfeited /\ s.ended = d.ended /\ s.eligible = d.eligible
      BY <2>1, Consumed DEF DevilOpen
    <2>4. Lost(s) = {} /\ ~s.ended /\ s.eligible = {}
      BY <2>3 DEF Lost, DevilOpen
    <2>5. CASE s.pointer = Size(s)
      <3>1. DevilSeed(s)
        BY <2>3, <2>4, HeldIsSeed
      <3> QED
        BY <2>2, <2>5, <3>1, Reloaded
    <2>6. CASE s.pointer # Size(s)
      <3>1. DevilOpen(s)
        BY <1>2, <2>3, <2>4, <2>6 DEF DevilOpen
      <3> QED
        BY <2>2, <2>3, <2>6, <3>1 DEF DevilInv
    <2> QED
      BY <2>5, <2>6
  <1> QED
    BY <1>5, <1>6, <1>7, <1>8, <1>9, <1>10, <1>11, <1>12 DEF Items

\* Every move that actions offers.
LEMMA DevilMoves ==
  ASSUME NEW d, DevilInv(d), NEW seat \in DevilSeats, NEW a \in devilActions(d, seat)
  PROVE  \A e \in applyDevil(d, seat, a) : DevilInv(e)
  <1>1. ~d.ended
    BY DEF devilActions
  <1>2. DevilHeld(d) /\ DevilOpen(d)
    BY <1>1 DEF DevilInv, DevilClosed
  <1>3. CASE a = DevilAction("SURRENDER", "", "", "")
    <2>1. PICK m : m = [d EXCEPT !.forfeited = @ \cup {seat}]
      OBVIOUS
    <2>2. applyDevil(d, seat, a) = {devilFinish(m)}
      BY <1>3, <2>1 DEF applyDevil, DevilAction
    <2>3. /\ DOMAIN m = DevilFields /\ m.pointer = d.pointer /\ m.turn = d.turn /\ m.first = d.first
          /\ m.hp = d.hp /\ m.forfeited = d.forfeited \cup {seat} /\ m.ended = d.ended
          /\ m.eligible = d.eligible /\ m.items = d.items /\ m.known = d.known /\ m.shells = d.shells
      BY <1>2, <2>1 DEF DevilHeld, DevilFields
    <2>4. Size(m) = Size(d)
      BY <2>3 DEF Size
    <2>5. DevilHeld(m)
      BY <1>2, <2>3, <2>4 DEF DevilHeld, KnownOK
    <2>6. Lost(m) = {seat}
      BY <1>2, <2>3 DEF DevilOpen, Lost
    <2>7. ~m.ended /\ m.eligible = {}
      BY <1>2, <2>3 DEF DevilOpen
    <2>8. DevilInv(devilFinish(m))
      <3>1. PICK f : f = devilFinish(m)
        OBVIOUS
      <3>2. Lost(m) # {} => DevilInv(f)
        BY <2>5, <2>6, <2>7, <3>1, Finished
      <3> QED
        BY <2>6, <3>1, <3>2
    <2> QED
      BY <2>2, <2>8
  <1>4. ASSUME NEW target, a = Shoot(target) PROVE \A e \in applyDevil(d, seat, a) : DevilInv(e)
    <2>1. applyDevil(d, seat, a) = shoot(d, seat, target)
      BY <1>4 DEF applyDevil, Shoot, DevilAction
    <2> QED
      BY <1>2, <2>1, Shoots
  <1>5. ASSUME NEW item \in HeldItems(d, seat), itemLegal(d, seat, item),
               a = DevilAction("DEVIL_ITEM", "", item, "")
        PROVE  \A e \in applyDevil(d, seat, a) : DevilInv(e)
    <2>1. item \in Items \ {"adrenaline"}
      BY <1>5 DEF HeldItems, itemLegal
    <2>2. PICK s : s = Spend(d, seat, item)
      OBVIOUS
    <2>3. applyDevil(d, seat, a) = useItem(s, seat, item)
      BY <1>5, <2>1, <2>2 DEF applyDevil, DevilAction
    <2>4. DevilHeld(s) /\ DevilOpen(s)
      BY <1>2, <2>2, Spent
    <2> QED
      BY <2>1, <2>3, <2>4, ItemUsed
  <1>6. ASSUME NEW stolen \in HeldItems(d, Other(seat)) \ {"adrenaline"},
               "adrenaline" \in HeldItems(d, seat),
               a = DevilAction("DEVIL_ITEM", "", "adrenaline", stolen)
        PROVE  \A e \in applyDevil(d, seat, a) : DevilInv(e)
    <2>1. stolen \in Items \ {"adrenaline"} /\ Other(seat) \in DevilSeats \ {seat}
      BY DEF HeldItems, Other, DevilSeats
    <2>2. PICK s, used : used = "adrenaline" /\ s = Spend(d, seat, used)
      OBVIOUS
    <2>3. DevilHeld(s) /\ DevilOpen(s) /\ s.items[Other(seat)] = d.items[Other(seat)]
      <3>1. used \in HeldItems(d, seat) /\ s = Spend(d, seat, used)
        BY <1>6, <2>2
      <3>2. DevilHeld(s) /\ DevilOpen(s) /\ \A v \in DevilSeats \ {seat} : s.items[v] = d.items[v]
        BY ONLY <1>2, <3>1, seat \in DevilSeats, Spent
      <3> QED
        BY <2>1, <3>2
    <2>4. stolen \in HeldItems(s, Other(seat))
      BY <1>6, <2>3 DEF HeldItems
    <2>5. PICK t : t = Spend(s, Other(seat), stolen)
      OBVIOUS
    <2>6. DevilHeld(t) /\ DevilOpen(t)
      BY <2>1, <2>3, <2>4, <2>5, Spent
    <2>7. applyDevil(d, seat, a) = useItem(t, seat, stolen)
      BY <1>6, <2>2, <2>5 DEF applyDevil, DevilAction
    <2> QED
      BY <2>1, <2>6, <2>7, ItemUsed
  <1> QED
    BY <1>1, <1>3, <1>4, <1>5, <1>6 DEF devilActions

\* The worker's move is always possible and leaves what a player's would.
LEMMA DevilExpires ==
  ASSUME NEW d, DevilInv(d), ~d.ended
  PROVE  /\ applyDevil(d, d.turn, Timeout) # {}
         /\ \A a \in {Timeout, GameLimit} : \A e \in applyDevil(d, d.turn, a) : DevilInv(e)
  <1>1. DevilHeld(d) /\ DevilOpen(d)
    BY DEF DevilInv, DevilClosed
  <1>2. d.turn \in DevilSeats
    BY <1>1 DEF DevilHeld
  <1>3. applyDevil(d, d.turn, Timeout) = shoot(d, d.turn, "OPPONENT")
    BY DEF applyDevil, Timeout
  <1>4. PICK m : m = [d EXCEPT !.ended = TRUE, !.eligible = DevilSeats]
    OBVIOUS
  <1>5. applyDevil(d, d.turn, GameLimit) = {m}
    BY <1>4 DEF applyDevil, GameLimit
  <1>6. /\ DOMAIN m = DevilFields /\ m.pointer = d.pointer /\ m.turn = d.turn /\ m.first = d.first
        /\ m.hp = d.hp /\ m.forfeited = d.forfeited /\ m.ended /\ m.eligible = DevilSeats
        /\ m.items = d.items /\ m.known = d.known /\ m.shells = d.shells
    BY <1>1, <1>4 DEF DevilHeld, DevilFields
  <1>7. Size(m) = Size(d) /\ Lost(m) = {}
    BY <1>1, <1>6 DEF Size, Lost, DevilOpen
  <1>8. DevilHeld(m)
    BY <1>1, <1>6, <1>7 DEF DevilHeld, KnownOK
  <1>9. DevilInv(m)
    BY <1>6, <1>7, <1>8 DEF DevilInv, DevilClosed, DevilSeats
  <1> QED
    BY <1>1, <1>2, <1>3, <1>5, <1>9, Shoots

\* What load and save insist on.
LEMMA DevilAccepts ==
  ASSUME NEW d, DevilInv(d)
  PROVE  /\ validDevil(d) /\ d.eligible \subseteq DevilSeats \ Lost(d)
         /\ d.ended = (d.eligible # {})
  <1>1. PICK n \in ShellCounts : d.shells \in [0..(n - 1) -> BOOLEAN]
    BY DEF DevilInv, DevilHeld
  <1>2. Size(d) = n /\ n \in Nat \ {0} /\ d.pointer \in 0..n
    BY <1>1, SizeIs DEF DevilInv, DevilHeld
  <1>3. DevilHeld(d) /\ (DevilOpen(d) \/ DevilClosed(d))
    BY DEF DevilInv
  <1>4. d.eligible \subseteq DevilSeats \ Lost(d)
    BY <1>3 DEF DevilOpen, DevilClosed
  <1>5. ASSUME NEW seat \in DevilSeats
        PROVE  /\ d.hp[seat] \in 0..MaxHP /\ ItemCount(d, seat) <= ItemLimit
               /\ ~d.ended => d.hp[seat] > 0 /\ seat \notin d.forfeited
               /\ \A i \in DOMAIN d.known[seat] :
                     i >= d.pointer /\ i < Size(d) /\ d.shells[i] = d.known[seat][i]
    <2>1. d.hp[seat] \in 0..MaxHP /\ BagOK(d.items[seat]) /\ KnownOK(d, seat)
      BY <1>3 DEF DevilHeld
    <2>2. ~d.ended => seat \notin Lost(d)
      BY <1>3 DEF DevilOpen, DevilClosed
    <2>3. ~d.ended => d.hp[seat] > 0 /\ seat \notin d.forfeited
      BY <2>1, <2>2, DevilAssumption DEF Lost
    <2> QED
      BY <1>2, <2>1, <2>3 DEF BagOK, KnownOK, ItemCount
  <1>6. d.ended = (d.eligible # {}) /\ (~d.ended => d.pointer < Size(d))
    <2>1. d.ended \in BOOLEAN
      BY <1>3 DEF DevilHeld
    <2>2. CASE DevilOpen(d)
      BY <2>1, <2>2 DEF DevilOpen
    <2>3. CASE DevilClosed(d)
      BY <2>1, <2>3 DEF DevilClosed
    <2> QED
      BY <1>3, <2>2, <2>3
  <1> QED
    BY <1>1, <1>2, <1>3, <1>4, <1>5, <1>6 DEF validDevil, DevilHeld

-----------------------------------------------------------------------------
\* The game for more than two.

\* A seat in play has one place in the order.
LEMMA PlaceIs ==
  ASSUME NEW S, NEW o \in Seq(S), NEW v \in ToSet(o)
  PROVE  Place(o, v) \in 1..Len(o) /\ o[Place(o, v)] = v
  <1>1. \E i \in DOMAIN o : o[i] = v
    BY DEF ToSet
  <1> QED
    BY <1>1 DEF Place

\* next: somebody else among those who still play.
LEMMA NextIs ==
  ASSUME NEW p, NEW S, p.alive \in Seq(S), Injective(p.alive), Len(p.alive) >= 2, NEW v \in Alive(p)
  PROVE  next(p, v) \in Alive(p) \ {v} /\ next(p, v) \in S
  <1>1. PICK o, n, i : o = p.alive /\ n = Len(o) /\ i = Place(o, v)
    OBVIOUS
  <1>2. o \in Seq(S) /\ n \in Nat /\ n >= 2 /\ Injective(o) /\ v \in ToSet(o) /\ n = Len(o)
    BY <1>1 DEF Alive
  <1>3. i \in 1..n /\ o[i] = v
    BY <1>1, <1>2, PlaceIs
  <1>4. PICK k : k = (i % n) + 1
    OBVIOUS
  <1>5. k \in 1..n /\ k # i
    <2>1. CASE i = n
      <3>1. n % n = 0
        BY <1>2
      <3> QED
        BY <1>2, <1>3, <1>4, <2>1, <3>1
    <2>2. CASE i # n
      <3>1. i % n = i
        BY <1>2, <1>3, <2>2
      <3> QED
        BY <1>2, <1>3, <1>4, <2>2, <3>1
    <2> QED
      BY <2>1, <2>2
  <1>6. next(p, v) = o[k]
    BY <1>1, <1>4 DEF next
  <1>7. DOMAIN o = 1..n /\ o[k] \in S
    BY <1>2, <1>5
  <1>8. o[k] # o[i]
    BY <1>2, <1>3, <1>5, <1>7 DEF Injective
  <1>9. o[k] \in ToSet(o)
    BY <1>5, <1>7 DEF ToSet
  <1> QED
    BY <1>1, <1>3, <1>6, <1>7, <1>8, <1>9 DEF Alive

\* remove takes one seat out of the order of play and leaves the others as they were.
LEMMA WithoutIs ==
  ASSUME NEW S, NEW o \in Seq(S), Injective(o), NEW v \in ToSet(o), NEW w, w = Without(o, v)
  PROVE  /\ w \in Seq(S) /\ Injective(w) /\ Len(w) = Len(o) - 1
         /\ ToSet(w) = ToSet(o) \ {v}
  <1>1. PICK n, i : n = Len(o) /\ i = Place(o, v)
    OBVIOUS
  <1>2. n \in Nat /\ i \in 1..n /\ o[i] = v
    BY <1>1, PlaceIs
  <1>3. w = SubSeq(o, 1, i - 1) \o SubSeq(o, i + 1, n)
    BY <1>1 DEF Without, RemoveAt
  <1>4. PICK l, r : l = SubSeq(o, 1, i - 1) /\ r = SubSeq(o, i + 1, n)
    OBVIOUS
  <1>5. /\ l \in Seq(S) /\ Len(l) = i - 1 /\ \A j \in 1..(i - 1) : l[j] = o[j]
    BY <1>1, <1>2, <1>4
  <1>6. /\ r \in Seq(S) /\ Len(r) = n - i /\ \A j \in 1..(n - i) : r[j] = o[j + i]
    BY <1>1, <1>2, <1>4
  <1>7. w = l \o r
    BY <1>3, <1>4
  <1>8. w \in Seq(S) /\ Len(w) = n - 1
    BY <1>2, <1>5, <1>6, <1>7
  <1>9. \A j \in 1..(n - 1) : w[j] = IF j < i THEN o[j] ELSE o[j + 1]
    <2> SUFFICES ASSUME NEW j \in 1..(n - 1) PROVE w[j] = IF j < i THEN o[j] ELSE o[j + 1]
      OBVIOUS
    <2>1. CASE j < i
      BY <1>2, <1>5, <1>6, <1>7, <2>1
    <2>2. CASE ~(j < i)
      <3>1. j - (i - 1) \in 1..(n - i) /\ (j - (i - 1)) + i = j + 1
        BY <1>2, <2>2
      <3>2. w[j] = r[j - (i - 1)]
        BY <1>2, <1>5, <1>6, <1>7, <2>2
      <3> QED
        BY <1>6, <2>2, <3>1, <3>2
    <2> QED
      BY <2>1, <2>2
  <1>10. DOMAIN w = 1..(n - 1) /\ DOMAIN o = 1..n
    BY <1>1, <1>8
  <1> DEFINE k(j) == IF j < i THEN j ELSE j + 1
  <1>11. \A j \in 1..(n - 1) : k(j) \in 1..n /\ k(j) # i /\ w[j] = o[k(j)]
    BY <1>2, <1>9
  <1>12. \A j, h \in 1..(n - 1) : k(j) = k(h) => j = h
    BY <1>2
  <1>13. Injective(w)
    <2> SUFFICES ASSUME NEW j \in 1..(n - 1), NEW h \in 1..(n - 1), w[j] = w[h] PROVE j = h
      BY <1>10 DEF Injective
    <2>1. k(j) = k(h)
      <3> HIDE DEF k
      <3> QED BY <1>10, <1>11 DEF Injective
    <2> QED
      BY <1>12, <2>1
  <1>14. ToSet(w) \subseteq ToSet(o) \ {v}
    <2> SUFFICES ASSUME NEW j \in 1..(n - 1) PROVE w[j] \in ToSet(o) /\ w[j] # v
      BY <1>10 DEF ToSet
    <2> HIDE DEF k
    <2>1. k(j) \in 1..n /\ k(j) # i /\ w[j] = o[k(j)]
      BY <1>11
    <2>2. o[k(j)] # o[i]
      BY <1>2, <1>10, <2>1 DEF Injective
    <2> QED
      BY <1>2, <1>10, <2>1, <2>2 DEF ToSet
  <1>15. ToSet(o) \ {v} \subseteq ToSet(w)
    <2> SUFFICES ASSUME NEW j \in 1..n, o[j] # v PROVE o[j] \in ToSet(w)
      BY <1>10 DEF ToSet
    <2>1. j # i
      BY <1>2
    <2>2. CASE j < i
      <3>1. j \in 1..(n - 1) /\ w[j] = o[j]
        BY <1>2, <1>9, <2>2
      <3> QED
        BY <1>10, <3>1 DEF ToSet
    <2>3. CASE ~(j < i)
      <3>1. j - 1 \in 1..(n - 1) /\ ~(j - 1 < i) /\ (j - 1) + 1 = j
        BY <1>2, <2>1, <2>3
      <3>2. w[j - 1] = o[j]
        BY <1>9, <3>1
      <3> QED
        BY <1>10, <3>1, <3>2 DEF ToSet
    <2> QED
      BY <2>2, <2>3
  <1> QED
    BY <1>1, <1>8, <1>13, <1>14, <1>15

\* As many play as the order of play is long.
LEMMA AliveCount ==
  ASSUME NEW S, NEW o \in Seq(S), Injective(o)
  PROVE  Cardinality(ToSet(o)) = Len(o) /\ ToSet(o) \subseteq S
  <1>1. DOMAIN o = 1..Len(o) /\ Len(o) \in Nat
    OBVIOUS
  <1>2. o \in Bijection(1..Len(o), ToSet(o))
    <2>1. o \in [1..Len(o) -> ToSet(o)]
      BY <1>1 DEF ToSet
    <2> QED
      BY <1>1, <2>1 DEF Bijection, Injection, Surjection, IsInjective, Injective, ToSet
  <1>3. ExistsBijection(1..Len(o), ToSet(o))
    BY <1>2 DEF ExistsBijection
  <1>4. IsFiniteSet(1..Len(o)) /\ Cardinality(1..Len(o)) = Len(o)
    <2>1. 1 \in Int /\ Len(o) \in Int
      BY <1>1
    <2> QED
      BY <1>1, <2>1, FS_Interval
  <1>5. ToSet(o) \subseteq S
    BY <1>1 DEF ToSet
  <1> QED
    BY <1>3, <1>4, <1>5, FS_Bijection

\* Nothing but the gun and the pool differs.
SameTable(q, p) ==
    /\ DOMAIN q = PressureFields /\ q.alive = p.alive /\ q.turn = p.turn /\ q.phase = p.phase
    /\ q.charge = p.charge /\ q.debtOwner = p.debtOwner /\ q.debt = p.debt
    /\ q.aggressor = p.aggressor /\ q.holder = p.holder /\ q.ripInitiator = p.ripInitiator
    /\ q.ripTarget = p.ripTarget /\ q.unloadUsed = p.unloadUsed /\ q.forfeited = p.forfeited
    /\ q.votes = p.votes /\ q.resumeMode = p.resumeMode /\ q.ended = p.ended
    /\ q.eligible = p.eligible
\* The gun and the pool are as they were.
SameGun(q, p) ==
    /\ q.live = p.live /\ q.dud = p.dud /\ q.gun = p.gun /\ q.spent = p.spent
    /\ q.pointer = p.pointer

\* The same gun holds as many rounds.
LEMMA GunKept == ASSUME NEW p, NEW q, SameGun(q, p)
                 PROVE  /\ GunOK(p) => GunOK(q)
                        /\ Bullets(q) = Bullets(p) /\ PoolLeft(q) = PoolLeft(p)
  BY DEF SameGun, GunOK, Bullets, PoolLeft

\* Who plays is as it was.
LEMMA TableKept == ASSUME NEW p, NEW q, SameTable(q, p), GunOK(q), PressureHeld(p)
                   PROVE  PressureHeld(q)
  BY DEF SameTable, PressureHeld, PlayersOK, Alive

\* Two changes of the gun are one.
LEMMA TableTwice == ASSUME NEW p, NEW q, NEW r, SameTable(q, p), SameTable(r, q)
                    PROVE  SameTable(r, p)
  BY DEF SameTable

\* The cylinder has finitely many chambers, the first among them.
LEMMA SlotsFinite == /\ IsFiniteSet(Slots) /\ 0 \in Slots
                     /\ \A S \in SUBSET Slots : IsFiniteSet(S) /\ Cardinality(S) \in Nat
  <1>1. Chambers \in Nat \ {0}
    BY PressureAssumption
  <1>2. 0 \in Int /\ Chambers - 1 \in Int
    BY <1>1
  <1>3. IsFiniteSet(Slots)
    BY <1>2, FS_Interval DEF Slots
  <1>4. 0 \in Slots
    BY <1>1 DEF Slots
  <1> QED
    BY <1>3, <1>4, FS_Subset, FS_CardinalityType

\* How many rounds the gun holds, and how many of them are duds.
LEMMA BulletsIs == ASSUME NEW p PROVE /\ Bullets(p) \in Nat /\ GunDuds(p) \in Nat
                                      /\ Bullets(p) = 0 <=> \A i \in Slots : p.gun[i] = "empty"
                                      /\ Bullets(p) = 0 => GunDuds(p) = 0
  <1>1. PICK S : S = {i \in Slots : p.gun[i] # "empty"}
    OBVIOUS
  <1>2. PICK D : D = {i \in Slots : p.gun[i] = "dud"}
    OBVIOUS
  <1>3. Bullets(p) = Cardinality(S) /\ GunDuds(p) = Cardinality(D)
    BY <1>1, <1>2 DEF Bullets, GunDuds
  <1>4. IsFiniteSet(S) /\ Cardinality(S) \in Nat /\ IsFiniteSet(D) /\ Cardinality(D) \in Nat
    BY <1>1, <1>2, SlotsFinite
  <1>5. Cardinality(S) = 0 <=> S = {}
    BY <1>4, FS_EmptySet
  <1>6. S = {} <=> \A i \in Slots : p.gun[i] = "empty"
    BY <1>1
  <1>7. S = {} => D = {}
    BY <1>1, <1>2
  <1>8. Cardinality({}) = 0
    BY FS_EmptySet
  <1> QED
    BY <1>3, <1>4, <1>5, <1>6, <1>7, <1>8

\* A spin shows nothing and starts at the first chamber.
LEMMA SpinIs ==
  ASSUME NEW p, DOMAIN p = PressureFields, GunOK(p), NEW t, NEW m, NEW q \in spin(p, t, m)
  PROVE  GunOK(q) /\ SameTable(q, p) /\ q.live = p.live /\ q.dud = p.dud
  <1>1. PICK g \in Cylinder(t, m) : q = [p EXCEPT !.gun = g, !.spent = {}, !.pointer = 0]
    BY DEF spin
  <1>2. g \in [Slots -> {"empty", "live", "dud"}]
    BY <1>1 DEF Cylinder
  <1>3. /\ DOMAIN q = PressureFields /\ q.gun = g /\ q.spent = {} /\ q.pointer = 0
        /\ q.live = p.live /\ q.dud = p.dud
    BY <1>1 DEF PressureFields
  <1>4. SameTable(q, p)
    BY <1>1, <1>3 DEF PressureFields, SameTable
  <1>5. 0 \in Slots
    BY SlotsFinite
  <1> QED
    BY <1>2, <1>3, <1>4, <1>5 DEF GunOK

\* Rounds taken from the pool are there.
LEMMA TakenIs ==
  ASSUME NEW p, DOMAIN p = PressureFields, GunOK(p), NEW n \in Int, NEW m \in Drawn(p, n)
  PROVE  /\ GunOK(Taken(p, n, m)) /\ SameTable(Taken(p, n, m), p)
         /\ Taken(p, n, m).gun = p.gun /\ Taken(p, n, m).spent = p.spent
         /\ DOMAIN Taken(p, n, m) = PressureFields
  <1>1. PICK q : q = Taken(p, n, m)
    OBVIOUS
  <1>2. /\ DOMAIN q = PressureFields /\ q.live = p.live - (n - m) /\ q.dud = p.dud - m
        /\ q.gun = p.gun /\ q.spent = p.spent /\ q.pointer = p.pointer
    BY <1>1 DEF Taken, PressureFields
  <1>3. SameTable(q, p)
    BY <1>1, <1>2 DEF Taken, PressureFields, SameTable
  <1>4. m \in 0..n /\ m <= p.dud /\ n - m <= p.live
    BY DEF Drawn
  <1>5. p.live \in Nat /\ p.dud \in Nat /\ p.live + p.dud <= PoolSize /\ PoolSize \in Nat
    BY PressureAssumption DEF GunOK
  <1>6. q.live \in Nat /\ q.dud \in Nat /\ q.live + q.dud <= PoolSize
    BY <1>2, <1>4, <1>5
  <1> QED
    BY <1>1, <1>2, <1>3, <1>6 DEF GunOK

\* Rounds are drawn, the cylinder is spun.
LEMMA DrawSpinIs ==
  ASSUME NEW p, DOMAIN p = PressureFields, GunOK(p), NEW n \in Int, NEW q \in drawSpin(p, n)
  PROVE  GunOK(q) /\ SameTable(q, p)
  <1>1. PICK m \in Drawn(p, n) : q \in spin(Taken(p, n, m), Bullets(p) + n, GunDuds(p) + m)
    BY DEF drawSpin
  <1>2. PICK r : r = Taken(p, n, m)
    OBVIOUS
  <1>3. GunOK(r) /\ SameTable(r, p) /\ DOMAIN r = PressureFields
    BY <1>2, TakenIs
  <1>4. GunOK(q) /\ SameTable(q, r)
    BY <1>1, <1>2, <1>3, SpinIs
  <1> QED
    BY <1>3, <1>4, TableTwice

\* A round of the pool can be put into an empty gun.
LEMMA DrawSpinSome ==
  ASSUME NEW p, GunOK(p), Bullets(p) = 0, PoolLeft(p) # 0
  PROVE  drawSpin(p, 1) # {}
  <1>1. GunDuds(p) = 0
    BY BulletsIs
  <1>2. p.live \in Nat /\ p.dud \in Nat /\ p.live + p.dud # 0
    BY DEF GunOK, PoolLeft
  <1>3. \E m \in {0, 1} : m <= p.dud /\ 1 - m <= p.live
    BY <1>2
  <1>4. PICK m \in {0, 1} : m <= p.dud /\ 1 - m <= p.live
    BY <1>3
  <1>5. m \in Drawn(p, 1)
    BY <1>4 DEF Drawn
  <1>6. PICK bullet \in {"live", "dud"} : bullet = "dud" <=> m = 1
    OBVIOUS
  <1>7. PICK g : g = [i \in Slots |-> IF i = 0 THEN bullet ELSE "empty"]
    OBVIOUS
  <1>8. 0 \in Slots
    BY SlotsFinite
  <1>9. {i \in Slots : g[i] # "empty"} = {0}
    BY <1>6, <1>7, <1>8
  <1>10. {i \in Slots : g[i] = "dud"} = IF m = 1 THEN {0} ELSE {}
    BY <1>6, <1>7, <1>8
  <1>11. Cardinality({0}) = 1 /\ Cardinality({}) = 0
    BY FS_Singleton, FS_EmptySet
  <1>12. g \in Cylinder(1, m)
    <2>1. g \in [Slots -> {"empty", "live", "dud"}]
      BY <1>6, <1>7
    <2>2. Cardinality({i \in Slots : g[i] # "empty"}) = 1
      BY <1>9, <1>11
    <2>3. Cardinality({i \in Slots : g[i] = "dud"}) = m
      <3>1. CASE m = 1
        BY <1>10, <1>11, <3>1
      <3>2. CASE m = 0
        BY <1>10, <1>11, <3>2
      <3> QED
        BY <3>1, <3>2
    <2> QED
      BY <2>1, <2>2, <2>3 DEF Cylinder
  <1>13. spin(Taken(p, 1, m), 1, m) # {}
    BY <1>12 DEF spin
  <1>14. Bullets(p) + 1 = 1 /\ GunDuds(p) + m = m
    BY <1>1, <1>4
  <1>15. spin(Taken(p, 1, m), 1, m) \subseteq drawSpin(p, 1)
    BY <1>5, <1>14 DEF drawSpin
  <1> QED
    BY <1>13, <1>15

\* reload deals with an empty gun.
LEMMA ReloadIs ==
  ASSUME NEW p, DOMAIN p = PressureFields, GunOK(p)
  PROVE  /\ \A q \in reload(p) : GunOK(q) /\ SameTable(q, p)
         /\ Bullets(p) = 0 /\ PoolLeft(p) # 0 => reload(p) # {}
  <1>1. CASE p.spent = Slots
    <2>1. reload(p) = drawSpin(p, 1)
      BY <1>1 DEF reload
    <2>2. 1 \in Int
      OBVIOUS
    <2> QED
      BY <2>1, <2>2, DrawSpinIs, DrawSpinSome
  <1>2. CASE p.spent # Slots
    <2> DEFINE Put(m, i) == [Taken(p, 1, m) EXCEPT !.gun[i] = IF m = 1 THEN "dud" ELSE "live"]
    <2>1. reload(p) = {Put(m, i) : m \in Drawn(p, 1), i \in Slots \ p.spent}
      BY <1>2 DEF reload
    <2>2. ASSUME NEW m \in Drawn(p, 1), NEW i \in Slots \ p.spent
          PROVE  GunOK(Put(m, i)) /\ SameTable(Put(m, i), p)
      <3>1. PICK r, q : r = Taken(p, 1, m) /\ q = Put(m, i)
        OBVIOUS
      <3>2. 1 \in Int
        OBVIOUS
      <3>3. GunOK(r) /\ SameTable(r, p) /\ DOMAIN r = PressureFields
        BY <3>1, <3>2, TakenIs
      <3>4. PICK bullet \in {"live", "dud"} : bullet = IF m = 1 THEN "dud" ELSE "live"
        OBVIOUS
      <3>5. q = [r EXCEPT !.gun[i] = bullet]
        BY <3>1, <3>4
      <3>6. /\ DOMAIN q = PressureFields /\ q.gun = [r.gun EXCEPT ![i] = bullet]
            /\ q.spent = r.spent /\ q.pointer = r.pointer /\ q.live = r.live /\ q.dud = r.dud
        BY <3>3, <3>5 DEF PressureFields
      <3>7. SameTable(q, r)
        BY <3>3, <3>5, <3>6 DEF PressureFields, SameTable
      <3>8. i \notin r.spent
        BY <3>1, <3>2, TakenIs
      <3>9. GunOK(q)
        <4>1. q.gun \in [Slots -> {"empty", "live", "dud"}]
          BY <3>3, <3>4, <3>6 DEF GunOK
        <4>2. \A k \in q.spent : q.gun[k] = "empty"
          <5>1. \A k \in r.spent : k # i /\ k \in Slots /\ r.gun[k] = "empty"
            BY <3>3, <3>8 DEF GunOK
          <5>2. DOMAIN r.gun = Slots
            BY <3>3 DEF GunOK
          <5> QED
            BY <3>6, <5>1, <5>2
        <4> QED
          BY <3>3, <3>6, <4>1, <4>2 DEF GunOK
      <3> QED
        BY <3>1, <3>3, <3>7, <3>9, TableTwice
    <2>3. ASSUME Bullets(p) = 0, PoolLeft(p) # 0 PROVE reload(p) # {}
      <3>1. p.live \in Nat /\ p.dud \in Nat /\ p.live + p.dud # 0
        BY <2>3 DEF GunOK, PoolLeft
      <3>2. \E m \in 0..1 : m <= p.dud /\ 1 - m <= p.live
        BY <3>1
      <3>3. Drawn(p, 1) # {}
        BY <3>2 DEF Drawn
      <3>4. Slots \ p.spent # {}
        BY <1>2 DEF GunOK
      <3> HIDE DEF Put
      <3> QED
        BY <2>1, <3>3, <3>4
    <2> HIDE DEF Put
    <2> QED
      BY <2>1, <2>2, <2>3
  <1> QED
    BY <1>1, <1>2

\* A pool is prepared afresh when the game starts and when a vote goes against the end.
LEMMA PreparedIs ==
  ASSUME NEW p, DOMAIN p = PressureFields, GunOK(p), NEW q \in preparePool(p)
  PROVE  GunOK(q) /\ SameTable(q, p) /\ DOMAIN q = PressureFields
  <1>1. PICK m \in PoolDuds : q = [p EXCEPT !.live = PoolSize - m, !.dud = m]
    BY DEF preparePool
  <1>2. m \in 0..PoolSize /\ PoolSize \in Nat
    BY PressureAssumption
  <1>3. /\ DOMAIN q = PressureFields /\ q.live = PoolSize - m /\ q.dud = m
        /\ q.gun = p.gun /\ q.spent = p.spent /\ q.pointer = p.pointer
    BY <1>1 DEF PressureFields
  <1>4. SameTable(q, p)
    BY <1>1, <1>3 DEF PressureFields, SameTable
  <1>5. q.live \in Nat /\ q.dud \in Nat /\ q.live + q.dud <= PoolSize
    BY <1>2, <1>3
  <1> QED
    BY <1>3, <1>4, <1>5 DEF GunOK

\* How many rounds a charge loads.
LEMMA LoadCountIs == ASSUME NEW p, PressureHeld(p) PROVE loadCount(p) \in Int
  <1>1. PICK x, y, z : x = 1 + p.charge /\ y = Chambers - Bullets(p) /\ z = PoolLeft(p)
    OBVIOUS
  <1>2. x \in Int /\ y \in Int /\ z \in Int
    <2>1. p.charge \in Nat /\ p.live \in Nat /\ p.dud \in Nat /\ Chambers \in Nat
      BY PressureAssumption DEF PressureHeld, PlayersOK, GunOK
    <2>2. Bullets(p) \in Nat
      BY BulletsIs
    <2> QED
      BY <1>1, <2>1, <2>2 DEF PoolLeft
  <1>3. loadCount(p) = CHOOSE n \in {x, y, z} : n <= x /\ n <= y /\ n <= z
    BY <1>1 DEF loadCount
  <1>4. \E n \in {x, y, z} : n <= x /\ n <= y /\ n <= z
    BY <1>2
  <1> QED
    BY <1>2, <1>3, <1>4

\* A game that goes on, between two shots.
Steady(p) ==
    /\ PressureHeld(p) /\ ~p.ended /\ p.eligible = {} /\ Len(p.alive) >= 2 /\ p.turn \in Alive(p)
    /\ p.votes = {} /\ (p.aggressor # NoSeat => p.aggressor # p.holder)
\* Nobody owes a shot, no riposte is under way.
Quiet(p) == p.debt = 0 /\ p.ripTarget = NoSeat
\* What resume is given: the mode the player to act goes on with.
Resumable(p, mode) ==
    /\ mode \in {"FIRE", "CHOICE", "forcedPass"}
    /\ \/ /\ PressureClosed(p) /\ PressureHeld(p)
       \/ /\ Steady(p) /\ p.ripTarget = NoSeat
          /\ p.debt > 0 => p.debtOwner = p.turn /\ mode = "FIRE"

\* No seat is the mark of no seat.
LEMMA SeatsNat == \A s \in PressureSeats : s \in Nat /\ s # NoSeat
  BY PressureAssumption DEF NoSeat

\* A game that goes on in a phase of shooting or of choosing.
LEMMA SteadyOpen ==
  ASSUME NEW p, Steady(p), Duel(p), p.phase \in {"FIRE", "CHOICE"}
  PROVE  PressureInv(p)
  BY DEF Steady, PressureInv, PressureOpen

\* pressureFinish pays those who still play.
LEMMA FinishedIs ==
  ASSUME NEW p, PressureHeld(p)
  PROVE  /\ PressureHeld(pressureFinish(p)) /\ PressureClosed(pressureFinish(p))
         /\ PressureInv(pressureFinish(p)) /\ pressureFinish(p).turn = p.turn
         /\ pressureFinish(p).alive = p.alive
  <1>1. PICK q : q = pressureFinish(p)
    OBVIOUS
  <1>2. DOMAIN p = PressureFields /\ GunOK(p) /\ PlayersOK(p)
    BY DEF PressureHeld
  <1>3. /\ DOMAIN q = PressureFields /\ q.ended = TRUE /\ q.phase = "ENDED" /\ q.eligible = Alive(p)
        /\ q.alive = p.alive /\ q.turn = p.turn /\ q.charge = p.charge
        /\ q.debtOwner = p.debtOwner /\ q.debt = p.debt /\ q.aggressor = p.aggressor
        /\ q.holder = p.holder /\ q.ripInitiator = p.ripInitiator /\ q.ripTarget = p.ripTarget
        /\ q.votes = p.votes /\ q.resumeMode = p.resumeMode /\ SameGun(q, p)
    BY <1>1, <1>2 DEF pressureFinish, PressureFields, SameGun
  <1>4. GunOK(q)
    BY <1>2, <1>3, GunKept
  <1>5. PlayersOK(q)
    BY <1>2, <1>3 DEF PlayersOK, Alive
  <1>6. PressureHeld(q) /\ PressureClosed(q)
    BY <1>3, <1>4, <1>5 DEF PressureHeld, PressureClosed, Alive
  <1> QED
    BY <1>1, <1>3, <1>6 DEF PressureInv

\* pass hands the gun to the next player.
LEMMA Passed ==
  ASSUME NEW p, Steady(p), Quiet(p), NEW q, q = pass(p)
  PROVE  /\ PressureHeld(q) /\ Steady(q) /\ Quiet(q) /\ q.phase = "FIRE" /\ PressureInv(q)
         /\ q.turn = next(p, p.turn) /\ q.alive = p.alive
  <1>1. DOMAIN p = PressureFields /\ GunOK(p) /\ PlayersOK(p)
    BY DEF Steady, PressureHeld
  <1>2. PICK t : t = next(p, p.turn)
    OBVIOUS
  <1>3. t \in Alive(p) /\ t \in PressureSeats
    <2>1. /\ p.alive \in Seq(PressureSeats) /\ Injective(p.alive) /\ Len(p.alive) >= 2
          /\ p.turn \in Alive(p)
      BY <1>1 DEF Steady, PlayersOK
    <2> QED
      BY <1>2, <2>1, NextIs
  <1>4. PICK h, a : /\ h = IF p.holder = p.turn THEN NoSeat ELSE p.holder
                    /\ a = IF p.holder = p.turn THEN NoSeat ELSE p.aggressor
    OBVIOUS
  <1>5. q = [p EXCEPT !.turn = t, !.charge = 0, !.phase = "FIRE", !.holder = h, !.aggressor = a]
    BY <1>1, <1>2, <1>4 DEF pass, PressureFields
  <1>6. /\ DOMAIN q = PressureFields /\ q.ended = p.ended /\ q.phase = "FIRE" /\ q.eligible = p.eligible
        /\ q.alive = p.alive /\ q.turn = t /\ q.charge = 0
        /\ q.debtOwner = p.debtOwner /\ q.debt = p.debt /\ q.aggressor = a
        /\ q.holder = h /\ q.ripInitiator = p.ripInitiator /\ q.ripTarget = p.ripTarget
        /\ q.votes = p.votes /\ q.resumeMode = p.resumeMode /\ SameGun(q, p)
    BY <1>1, <1>5 DEF PressureFields, SameGun
  <1>7. (a = NoSeat) = (h = NoSeat) /\ (a # NoSeat => a # h)
    <2>1. (p.aggressor = NoSeat) = (p.holder = NoSeat) /\ (p.aggressor # NoSeat => p.aggressor # p.holder)
      BY <1>1 DEF Steady, PlayersOK
    <2> QED
      BY <1>4, <2>1
  <1>8. GunOK(q)
    BY <1>1, <1>6, GunKept
  <1>9. PlayersOK(q)
    <2>1. /\ p.alive \in Seq(PressureSeats) /\ Injective(p.alive) /\ Len(p.alive) >= 1
          /\ p.ended \in BOOLEAN
          /\ p.debt \in 0..2 /\ (p.debtOwner = NoSeat) = (p.debt = 0)
          /\ (p.ripTarget = NoSeat) = (p.ripInitiator = NoSeat)
          /\ p.votes \subseteq Alive(p) /\ p.resumeMode \in {"", "FIRE", "CHOICE", "forcedPass"}
      BY <1>1 DEF PlayersOK
    <2>2. q.charge \in Nat /\ q.turn \in PressureSeats /\ q.votes \subseteq Alive(q)
      <3>1. Alive(q) = Alive(p)
        BY <1>6 DEF Alive
      <3>2. q.charge \in Nat
        BY <1>6
      <3>3. q.turn \in PressureSeats
        BY <1>3, <1>6
      <3>4. q.votes \subseteq Alive(q)
        <4>1. q.votes = p.votes
          BY <1>6
        <4> QED
          BY <2>1, <3>1, <4>1
      <3> QED
        BY <3>2, <3>3, <3>4
    <2> QED
      BY <1>6, <1>7, <2>1, <2>2 DEF PlayersOK
  <1>10. PressureHeld(q) /\ Steady(q) /\ Quiet(q)
    BY <1>3, <1>6, <1>7, <1>8, <1>9 DEF PressureHeld, Steady, Quiet, Alive
  <1>11. Duel(q)
    BY <1>6, <1>10 DEF Quiet, Duel, Steady
  <1> QED
    BY <1>2, <1>6, <1>10, <1>11, SteadyOpen

\* remove takes a seat out, with every duel it is a party to.
LEMMA Removed ==
  ASSUME NEW p, Steady(p), NEW seat \in Alive(p), NEW q, q = remove(p, seat)
  PROVE  /\ PressureHeld(q) /\ q.turn = p.turn /\ q.charge = p.charge
         /\ Len(p.alive) = 2 => PressureClosed(q)
         /\ Len(p.alive) # 2 =>
              /\ ~q.ended /\ q.eligible = {} /\ Len(q.alive) >= 2 /\ Alive(q) = Alive(p) \ {seat}
              /\ q.votes = {} /\ (q.aggressor # NoSeat => q.aggressor # q.holder)
              /\ p.debtOwner = seat => q.debt = 0
              /\ p.debt = 0 => q.debt = 0
              /\ p.ripTarget = NoSeat => q.ripTarget = NoSeat
  <1>1. DOMAIN p = PressureFields /\ GunOK(p) /\ PlayersOK(p)
    BY DEF Steady, PressureHeld
  <1>2. PICK w : w = Without(p.alive, seat)
    OBVIOUS
  <1>3. /\ p.alive \in Seq(PressureSeats) /\ Injective(p.alive) /\ Len(p.alive) >= 2
        /\ Len(p.alive) \in Nat /\ seat \in ToSet(p.alive)
    <2>1. p.alive \in Seq(PressureSeats) /\ Injective(p.alive)
      BY <1>1 DEF PlayersOK
    <2>2. Len(p.alive) >= 2 /\ seat \in ToSet(p.alive)
      BY DEF Steady, Alive
    <2> QED
      BY <2>1, <2>2
  <1>4. /\ w \in Seq(PressureSeats) /\ Injective(w) /\ Len(w) = Len(p.alive) - 1
        /\ ToSet(w) = ToSet(p.alive) \ {seat}
    BY <1>2, <1>3, WithoutIs
  <1>5. PICK c : c = clearDebt(p, seat)
    OBVIOUS
  <1>6. /\ DOMAIN c = PressureFields /\ c.ended = p.ended /\ c.phase = p.phase /\ c.eligible = p.eligible
        /\ c.alive = p.alive /\ c.turn = p.turn /\ c.charge = p.charge
        /\ c.aggressor = p.aggressor
        /\ c.holder = p.holder /\ c.ripInitiator = p.ripInitiator /\ c.ripTarget = p.ripTarget
        /\ c.votes = p.votes /\ c.resumeMode = p.resumeMode /\ SameGun(c, p)
        /\ c.debtOwner = (IF p.debtOwner = seat THEN NoSeat ELSE p.debtOwner)
        /\ c.debt = (IF p.debtOwner = seat THEN 0 ELSE p.debt)
    <2>1. CASE p.debtOwner = seat
      <3>1. c = [p EXCEPT !.debt = 0, !.debtOwner = NoSeat]
        BY <1>5, <2>1 DEF clearDebt
      <3> QED
        BY <1>1, <2>1, <3>1 DEF PressureFields, SameGun
    <2>2. CASE p.debtOwner # seat
      <3>1. c = p
        BY <1>5, <2>2 DEF clearDebt
      <3> QED
        BY <1>1, <2>2, <3>1 DEF SameGun
    <2> QED
      BY <2>1, <2>2
  <1>7. PICK h, a, rt, ri :
          /\ h = (IF seat \in {p.holder, p.aggressor} THEN NoSeat ELSE p.holder)
          /\ a = (IF seat \in {p.holder, p.aggressor} THEN NoSeat ELSE p.aggressor)
          /\ rt = (IF seat \in {p.ripTarget, p.ripInitiator} THEN NoSeat ELSE p.ripTarget)
          /\ ri = (IF seat \in {p.ripTarget, p.ripInitiator} THEN NoSeat ELSE p.ripInitiator)
    OBVIOUS
  <1>8. PICK s : s = [c EXCEPT !.alive = w, !.holder = h, !.aggressor = a, !.ripTarget = rt,
                               !.ripInitiator = ri]
    OBVIOUS
  <1>9. /\ DOMAIN s = PressureFields /\ s.ended = p.ended /\ s.phase = p.phase /\ s.eligible = p.eligible
        /\ s.alive = w /\ s.turn = p.turn /\ s.charge = p.charge
        /\ s.aggressor = a /\ s.holder = h /\ s.ripInitiator = ri /\ s.ripTarget = rt
        /\ s.votes = p.votes /\ s.resumeMode = p.resumeMode
        /\ s.debtOwner = c.debtOwner /\ s.debt = c.debt /\ SameGun(s, p)
    BY <1>6, <1>8 DEF PressureFields, SameGun
  <1>10. q = IF Len(w) <= 1 THEN pressureFinish(s) ELSE s
    <2>1. s = [clearDebt(p, seat) EXCEPT
                !.alive = Without(@, seat),
                !.holder = IF seat \in {p.holder, p.aggressor} THEN NoSeat ELSE @,
                !.aggressor = IF seat \in {p.holder, p.aggressor} THEN NoSeat ELSE @,
                !.ripTarget = IF seat \in {p.ripTarget, p.ripInitiator} THEN NoSeat ELSE @,
                !.ripInitiator = IF seat \in {p.ripTarget, p.ripInitiator} THEN NoSeat ELSE @]
      BY <1>2, <1>5, <1>6, <1>7, <1>8 DEF PressureFields
    <2> QED
      BY <1>9, <2>1 DEF remove
  <1>11. (a = NoSeat) = (h = NoSeat) /\ (rt = NoSeat) = (ri = NoSeat)
    BY <1>1, <1>7 DEF PlayersOK
  <1>12. PressureHeld(s)
    <2>1. GunOK(s)
      BY <1>1, <1>9, GunKept
    <2>2. c.debt \in 0..2 /\ (c.debtOwner = NoSeat) = (c.debt = 0)
      <3>1. p.debt \in 0..2 /\ (p.debtOwner = NoSeat) = (p.debt = 0)
        BY <1>1 DEF PlayersOK
      <3>2. CASE p.debtOwner = seat
        BY <1>6, <3>2
      <3>3. CASE p.debtOwner # seat
        BY <1>6, <3>1, <3>3
      <3> QED
        BY <3>2, <3>3
    <2>3. s.votes \subseteq Alive(s) /\ Len(w) >= 1
      BY <1>3, <1>4, <1>9 DEF Steady
    <2>4. p.turn \in PressureSeats /\ p.charge \in Nat /\ p.resumeMode \in {"", "FIRE", "CHOICE", "forcedPass"}
      BY <1>1 DEF PlayersOK
    <2>5. p.ended = FALSE
      BY <1>1 DEF Steady, PlayersOK
    <2>6. PlayersOK(s)
      BY <1>4, <1>9, <1>11, <2>2, <2>3, <2>4, <2>5 DEF PlayersOK
    <2> QED
      BY <1>9, <2>1, <2>6 DEF PressureHeld
  <1>13. CASE Len(p.alive) = 2
    <2>1. q = pressureFinish(s)
      BY <1>4, <1>10, <1>13
    <2>2. q.charge = s.charge
      BY <1>9, <2>1 DEF pressureFinish, PressureFields
    <2> QED
      BY <1>9, <1>12, <1>13, <2>1, <2>2, FinishedIs
  <1>14. CASE Len(p.alive) # 2
    <2>1. q = s /\ Len(w) >= 2
      <3>1. PICK m, n : m = Len(w) /\ n = Len(p.alive)
        OBVIOUS
      <3>2. n \in Nat /\ n >= 2 /\ n # 2 /\ m = n - 1
        BY <1>3, <1>4, <1>14, <3>1
      <3>3. m >= 2 /\ ~(m <= 1)
        BY <3>2
      <3> QED
        BY <1>10, <3>1, <3>3
    <2>2. p.aggressor # NoSeat => p.aggressor # p.holder
      BY DEF Steady
    <2>3. a # NoSeat => a # h
      BY <1>7, <2>2
    <2>4. p.ripTarget = NoSeat => rt = NoSeat
      BY <1>7
    <2> QED
      BY <1>3, <1>4, <1>6, <1>9, <1>12, <1>14, <2>1, <2>3, <2>4 DEF Steady, Alive
  <1> QED
    BY <1>13, <1>14

\* The player goes on as the mode says.
LEMMA Goes ==
  ASSUME NEW p, NEW mode, Resumable(p, mode), ~p.ended
  PROVE  /\ mode = "forcedPass" => PressureInv(pass(p))
         /\ mode # "forcedPass" => PressureInv([p EXCEPT !.phase = mode])
  <1>1. /\ mode \in {"FIRE", "CHOICE", "forcedPass"} /\ Steady(p) /\ p.ripTarget = NoSeat
        /\ p.debt > 0 => p.debtOwner = p.turn /\ mode = "FIRE"
    BY DEF Resumable, PressureClosed
  <1>2. DOMAIN p = PressureFields /\ GunOK(p) /\ PlayersOK(p)
    BY <1>1 DEF Steady, PressureHeld
  <1>3. CASE mode = "forcedPass"
    <2>1. p.debt = 0
      <3>1. p.debt \in 0..2
        BY <1>2 DEF PlayersOK
      <3>2. ~(p.debt > 0)
        BY <1>1, <1>3
      <3> QED
        BY <3>1, <3>2
    <2>2. Quiet(p)
      BY <1>1, <2>1 DEF Quiet
    <2> QED
      BY <1>1, <1>3, <2>2, Passed
  <1>4. CASE mode # "forcedPass"
    <2>1. PICK q : q = [p EXCEPT !.phase = mode]
      OBVIOUS
    <2>2. /\ DOMAIN q = PressureFields /\ q.ended = p.ended /\ q.phase = mode /\ q.eligible = p.eligible
          /\ q.alive = p.alive /\ q.turn = p.turn /\ q.charge = p.charge
          /\ q.debtOwner = p.debtOwner /\ q.debt = p.debt /\ q.aggressor = p.aggressor
          /\ q.holder = p.holder /\ q.ripInitiator = p.ripInitiator /\ q.ripTarget = p.ripTarget
          /\ q.votes = p.votes /\ q.resumeMode = p.resumeMode /\ SameGun(q, p)
      BY <1>2, <2>1 DEF PressureFields, SameGun
    <2>3. GunOK(q)
      BY <1>2, <2>2, GunKept
    <2>4. PlayersOK(q)
      BY <1>2, <2>2 DEF PlayersOK, Alive
    <2>5. Steady(q)
      BY <1>1, <2>2, <2>3, <2>4 DEF Steady, PressureHeld, Alive
    <2>6. Duel(q)
      BY <1>1, <2>2, <2>5 DEF Duel, Steady
    <2>7. q.phase \in {"FIRE", "CHOICE"}
      BY <1>1, <1>4, <2>2
    <2> QED
      BY <1>4, <2>1, <2>5, <2>6, <2>7, SteadyOpen
  <1> QED
    BY <1>3, <1>4

\* resume deals with an empty gun, or asks for a vote, and the game goes on.
LEMMA Resumed ==
  ASSUME NEW p, NEW mode, Resumable(p, mode)
  PROVE  resume(p, mode) # {} /\ \A q \in resume(p, mode) : PressureInv(q)
  <1> DEFINE go(q) == IF mode = "forcedPass" THEN pass(q) ELSE [q EXCEPT !.phase = mode]
  <1>1. CASE p.ended
    <2>1. resume(p, mode) = {p}
      BY <1>1 DEF resume
    <2>2. PressureInv(p)
      BY <1>1 DEF Resumable, PressureInv, Steady
    <2> QED
      BY <2>1, <2>2
  <1>2. CASE ~p.ended
    <2>1. /\ mode \in {"FIRE", "CHOICE", "forcedPass"} /\ Steady(p) /\ p.ripTarget = NoSeat
          /\ p.debt > 0 => p.debtOwner = p.turn /\ mode = "FIRE"
      BY <1>2 DEF Resumable, PressureClosed
    <2>2. DOMAIN p = PressureFields /\ GunOK(p) /\ PlayersOK(p)
      BY <2>1 DEF Steady, PressureHeld
    <2>3. CASE Bullets(p) > 0
      <3>1. resume(p, mode) = {go(p)}
        BY <1>2, <2>3 DEF resume
      <3>2. PressureInv(go(p))
        BY <1>2, Goes
      <3> QED
        BY <3>1, <3>2
    <2>4. CASE Bullets(p) = 0 /\ PoolLeft(p) = 0
      <3>1. PICK q : q = [p EXCEPT !.phase = "VOTE", !.votes = {}, !.resumeMode = mode]
        OBVIOUS
      <3>2. resume(p, mode) = {q}
        BY <1>2, <2>4, <3>1 DEF resume
      <3>3. /\ DOMAIN q = PressureFields /\ q.ended = p.ended /\ q.phase = "VOTE" /\ q.eligible = p.eligible
            /\ q.alive = p.alive /\ q.turn = p.turn /\ q.charge = p.charge
            /\ q.debtOwner = p.debtOwner /\ q.debt = p.debt /\ q.aggressor = p.aggressor
            /\ q.holder = p.holder /\ q.ripInitiator = p.ripInitiator /\ q.ripTarget = p.ripTarget
            /\ q.votes = {} /\ q.resumeMode = mode /\ SameGun(q, p)
        BY <2>2, <3>1 DEF PressureFields, SameGun
      <3>4. GunOK(q) /\ Bullets(q) = 0 /\ PoolLeft(q) = 0
        BY <2>2, <2>4, <3>3, GunKept
      <3>5. PlayersOK(q)
        BY <2>1, <2>2, <3>3 DEF PlayersOK, Alive
      <3>6. PressureHeld(q)
        BY <3>3, <3>4, <3>5 DEF PressureHeld
      <3>7. Duel(q)
        BY <2>1, <3>3 DEF Duel, Steady
      <3>8. q.votes # Alive(q)
        BY <2>1, <3>3 DEF Steady, Alive
      <3>9. PressureOpen(q)
        <4>1. ~q.ended /\ q.eligible = {} /\ Len(q.alive) >= 2 /\ q.turn \in Alive(q)
          BY <2>1, <3>3 DEF Steady, Alive
        <4>2. q.phase = "VOTE" /\ q.resumeMode # ""
          BY <2>1, <3>3
        <4> QED
          BY <3>4, <3>7, <3>8, <4>1, <4>2 DEF PressureOpen
      <3> QED
        BY <3>2, <3>6, <3>9 DEF PressureInv
    <2>5. CASE Bullets(p) = 0 /\ PoolLeft(p) # 0
      <3>1. resume(p, mode) = {go(q) : q \in reload(p)}
        BY <1>2, <2>5 DEF resume
      <3>2. ASSUME NEW q \in reload(p) PROVE PressureInv(go(q))
        <4>1. GunOK(q) /\ SameTable(q, p)
          BY <2>2, ReloadIs
        <4>2. PressureHeld(q)
          BY <2>1, <4>1, TableKept DEF Steady
        <4>3. Resumable(q, mode) /\ ~q.ended
          BY <1>2, <2>1, <4>1, <4>2 DEF Resumable, Steady, SameTable, Alive
        <4> QED
          BY <4>3, Goes
      <3>3. reload(p) # {}
        BY <2>2, <2>5, ReloadIs
      <3> HIDE DEF go
      <3> QED
        BY <3>1, <3>2, <3>3
    <2>6. Bullets(p) \in Nat
      BY BulletsIs
    <2> QED
      BY <2>3, <2>4, <2>5, <2>6
  <1> QED
    BY <1>1, <1>2

\* A player about to shoot: the debt and the riposte, if any, are about that player.
Aiming(p) ==
    /\ Steady(p)
    /\ p.debt > 0 => p.debtOwner = p.turn
    /\ p.ripTarget # NoSeat => /\ p.ripTarget = p.turn /\ p.ripInitiator \in Alive(p) \ {p.turn}
                               /\ p.debt = 0

\* A chamber is fired: it is empty and spent, the pointer moves on.
Fired(p, c) == [p EXCEPT !.gun[p.pointer] = "empty", !.spent = @ \cup {p.pointer},
                         !.pointer = (@ + 1) % Chambers, !.charge = c]
LEMMA FiredIs ==
  ASSUME NEW p, Steady(p), NEW c \in Nat, NEW s, s = Fired(p, c)
  PROVE  /\ DOMAIN s = PressureFields /\ s.ended = p.ended /\ s.phase = p.phase
         /\ s.eligible = p.eligible
         /\ s.alive = p.alive /\ s.turn = p.turn /\ s.charge = c
         /\ s.debtOwner = p.debtOwner /\ s.debt = p.debt /\ s.aggressor = p.aggressor
         /\ s.holder = p.holder /\ s.ripInitiator = p.ripInitiator /\ s.ripTarget = p.ripTarget
         /\ s.votes = p.votes /\ s.resumeMode = p.resumeMode /\ Steady(s)
  <1>1. DOMAIN p = PressureFields /\ GunOK(p) /\ PlayersOK(p)
    BY DEF Steady, PressureHeld
  <1>2. /\ DOMAIN s = PressureFields /\ s.ended = p.ended /\ s.phase = p.phase
        /\ s.eligible = p.eligible
        /\ s.alive = p.alive /\ s.turn = p.turn /\ s.charge = c
        /\ s.debtOwner = p.debtOwner /\ s.debt = p.debt /\ s.aggressor = p.aggressor
        /\ s.holder = p.holder /\ s.ripInitiator = p.ripInitiator /\ s.ripTarget = p.ripTarget
        /\ s.votes = p.votes /\ s.resumeMode = p.resumeMode
        /\ s.gun = [p.gun EXCEPT ![p.pointer] = "empty"] /\ s.spent = p.spent \cup {p.pointer}
        /\ s.pointer = (p.pointer + 1) % Chambers /\ s.live = p.live /\ s.dud = p.dud
    BY <1>1 DEF PressureFields, Fired
  <1>3. GunOK(s)
    <2>1. /\ p.gun \in [Slots -> {"empty", "live", "dud"}] /\ p.pointer \in Slots
          /\ p.spent \subseteq Slots /\ \A i \in p.spent : p.gun[i] = "empty"
      BY <1>1 DEF GunOK
    <2>2. s.gun \in [Slots -> {"empty", "live", "dud"}]
      BY <1>2, <2>1
    <2>3. \A i \in s.spent : s.gun[i] = "empty"
      BY <1>2, <2>1
    <2>4. s.pointer \in Slots
      <3>1. p.pointer \in Int /\ Chambers \in Nat \ {0}
        BY <2>1, PressureAssumption DEF Slots
      <3>2. (p.pointer + 1) % Chambers \in 0..(Chambers - 1)
        BY <3>1
      <3> QED
        BY <1>2, <3>2 DEF Slots
    <2> QED
      BY <1>1, <1>2, <2>1, <2>2, <2>3, <2>4 DEF GunOK
  <1>4. Alive(s) = Alive(p)
    BY <1>2 DEF Alive
  <1>5. PlayersOK(s)
    <2>1. /\ p.alive \in Seq(PressureSeats) /\ Injective(p.alive) /\ Len(p.alive) >= 1
          /\ p.turn \in PressureSeats /\ p.ended \in BOOLEAN
          /\ p.debt \in 0..2 /\ (p.debtOwner = NoSeat) = (p.debt = 0)
          /\ (p.ripTarget = NoSeat) = (p.ripInitiator = NoSeat)
          /\ (p.aggressor = NoSeat) = (p.holder = NoSeat)
          /\ p.votes \subseteq Alive(p) /\ p.resumeMode \in {"", "FIRE", "CHOICE", "forcedPass"}
      BY <1>1 DEF PlayersOK
    <2> QED
      BY <1>2, <1>4, <2>1 DEF PlayersOK
  <1>6. Steady(s)
    BY <1>2, <1>3, <1>4, <1>5 DEF Steady, PressureHeld
  <1> QED
    BY <1>2, <1>6

\* The player to act changes, and what duel is on.
LEMMA Moved ==
  ASSUME NEW p, Steady(p), NEW t \in Alive(p), NEW d \in 0..2, NEW o, (o = NoSeat) = (d = 0), NEW q,
         DOMAIN q = PressureFields, q.ended = p.ended,
         q.eligible = p.eligible, q.alive = p.alive, q.turn = t, q.charge \in Nat,
         q.debtOwner = o, q.debt = d, q.aggressor = p.aggressor,
         q.holder = p.holder, (q.ripTarget = NoSeat) = (q.ripInitiator = NoSeat),
         q.votes = p.votes, q.resumeMode = p.resumeMode, SameGun(q, p)
  PROVE  Steady(q)
  <1>1. DOMAIN p = PressureFields /\ GunOK(p) /\ PlayersOK(p)
    BY DEF Steady, PressureHeld
  <1>2. GunOK(q)
    BY <1>1, GunKept
  <1>3. Alive(q) = Alive(p)
    BY DEF Alive
  <1>4. /\ p.alive \in Seq(PressureSeats) /\ Injective(p.alive) /\ Len(p.alive) >= 1
        /\ p.ended \in BOOLEAN
        /\ (p.aggressor = NoSeat) = (p.holder = NoSeat)
        /\ p.votes \subseteq Alive(p) /\ p.resumeMode \in {"", "FIRE", "CHOICE", "forcedPass"}
    BY <1>1 DEF PlayersOK
  <1>5. t \in PressureSeats
    BY <1>4, AliveCount DEF Alive
  <1>6. PlayersOK(q)
    BY <1>3, <1>4, <1>5 DEF PlayersOK
  <1> QED
    BY <1>2, <1>3, <1>6 DEF Steady, PressureHeld

\* Nothing but the player to act differs.
SameButTurn(q, r) ==
    /\ DOMAIN q = PressureFields /\ q.ended = r.ended /\ q.phase = r.phase
    /\ q.eligible = r.eligible /\ q.alive = r.alive /\ q.charge = r.charge
    /\ q.debtOwner = r.debtOwner /\ q.debt = r.debt /\ q.aggressor = r.aggressor
    /\ q.holder = r.holder /\ q.ripInitiator = r.ripInitiator /\ q.ripTarget = r.ripTarget
    /\ q.votes = r.votes /\ q.resumeMode = r.resumeMode /\ SameGun(q, r)

\* After a seat is out the next one goes on, or nobody does.
LEMMA OutIs ==
  ASSUME NEW p, Steady(p), NEW seat \in Alive(p), p.ripTarget = NoSeat,
         p.debt > 0 => p.debtOwner = seat, NEW t \in Alive(p) \ {seat},
         NEW r, r = remove(p, seat), NEW q, SameButTurn(q, r), q.turn = t
  PROVE  Resumable(q, "FIRE")
  <1>2. PressureHeld(r) /\ DOMAIN r = PressureFields
    BY Removed DEF PressureHeld
  <1>3. /\ DOMAIN q = PressureFields /\ q.ended = r.ended /\ q.phase = r.phase
        /\ q.eligible = r.eligible
        /\ q.alive = r.alive /\ q.turn = t /\ q.charge = r.charge
        /\ q.debtOwner = r.debtOwner /\ q.debt = r.debt /\ q.aggressor = r.aggressor
        /\ q.holder = r.holder /\ q.ripInitiator = r.ripInitiator /\ q.ripTarget = r.ripTarget
        /\ q.votes = r.votes /\ q.resumeMode = r.resumeMode /\ SameGun(q, r)
    BY DEF SameButTurn
  <1>4. t \in PressureSeats
    BY AliveCount DEF Alive, Steady, PressureHeld, PlayersOK
  <1>5. GunOK(r) /\ PlayersOK(r)
    BY <1>2 DEF PressureHeld
  <1>6. GunOK(q)
    BY <1>3, <1>5, GunKept
  <1>7. Alive(q) = Alive(r)
    BY <1>3 DEF Alive
  <1>8. PlayersOK(q)
    <2>1. /\ r.alive \in Seq(PressureSeats) /\ Injective(r.alive) /\ Len(r.alive) >= 1
          /\ r.charge \in Nat /\ r.ended \in BOOLEAN
          /\ r.debt \in 0..2 /\ (r.debtOwner = NoSeat) = (r.debt = 0)
          /\ (r.ripTarget = NoSeat) = (r.ripInitiator = NoSeat)
          /\ (r.aggressor = NoSeat) = (r.holder = NoSeat)
          /\ r.votes \subseteq Alive(r) /\ r.resumeMode \in {"", "FIRE", "CHOICE", "forcedPass"}
      BY <1>5 DEF PlayersOK
    <2> QED
      BY <1>3, <1>4, <1>7, <2>1 DEF PlayersOK
  <1>9. PressureHeld(q)
    BY <1>3, <1>6, <1>8 DEF PressureHeld
  <1>10. CASE Len(p.alive) = 2
    <2>1. PressureClosed(r)
      BY <1>10, Removed
    <2> QED
      BY <1>3, <1>7, <1>9, <2>1 DEF PressureClosed, Resumable
  <1>11. CASE Len(p.alive) # 2
    <2>1. /\ ~r.ended /\ r.eligible = {} /\ Len(r.alive) >= 2 /\ Alive(r) = Alive(p) \ {seat}
          /\ r.votes = {} /\ (r.aggressor # NoSeat => r.aggressor # r.holder)
          /\ p.debtOwner = seat => r.debt = 0
          /\ p.debt = 0 => r.debt = 0
          /\ p.ripTarget = NoSeat => r.ripTarget = NoSeat
      BY <1>11, Removed
    <2>2. p.debt \in 0..2
      BY DEF Steady, PressureHeld, PlayersOK
    <2>3. r.debt = 0
      BY <2>1, <2>2
    <2>4. Steady(q)
      BY <1>3, <1>7, <1>9, <2>1 DEF Steady
    <2> QED
      BY <1>3, <2>1, <2>3, <2>4 DEF Resumable
  <1> QED
    BY <1>10, <1>11

\* The shot of a riposte: the player who riposted is skipped.
LEMMA RipShot ==
  ASSUME NEW p, Aiming(p), p.ripTarget # NoSeat, NEW u
  PROVE  shot(p, u) # {} /\ \A q \in shot(p, u) : PressureInv(q)
  <1>1. PICK seat, hit : seat = p.turn /\ hit = (p.gun[p.pointer] = "live")
    OBVIOUS
  <1>2. hit \in BOOLEAN /\ Steady(p) /\ p.debt = 0 /\ p.ripInitiator \in Alive(p) \ {seat} /\ seat \in Alive(p)
    BY <1>1 DEF Aiming, Steady
  <1>3. PICK c : c = IF hit THEN 0 ELSE p.charge
    OBVIOUS
  <1>4. c \in Nat
    BY <1>2, <1>3 DEF Steady, PressureHeld, PlayersOK
  <1>5. PICK s : s = Fired(p, c)
    OBVIOUS
  <1>6. /\ DOMAIN s = PressureFields /\ s.ended = p.ended /\ s.phase = p.phase
        /\ s.eligible = p.eligible
        /\ s.alive = p.alive /\ s.turn = p.turn /\ s.charge = c
        /\ s.debtOwner = p.debtOwner /\ s.debt = p.debt /\ s.aggressor = p.aggressor
        /\ s.holder = p.holder /\ s.ripInitiator = p.ripInitiator /\ s.ripTarget = p.ripTarget
        /\ s.votes = p.votes /\ s.resumeMode = p.resumeMode /\ Steady(s)
    BY <1>2, <1>4, <1>5, FiredIs
  <1>7. PICK ar : ar = IF hit /\ next(s, s.ripInitiator) = seat THEN next(s, seat)
                       ELSE next(s, s.ripInitiator)
    OBVIOUS
  <1>8. ar \in Alive(s) /\ (hit => ar # seat) /\ Alive(s) = Alive(p)
    <2>1. Alive(s) = Alive(p)
      BY <1>6 DEF Alive
    <2>2. s.alive \in Seq(PressureSeats) /\ Injective(s.alive) /\ Len(s.alive) >= 2
      BY <1>6 DEF Steady, PressureHeld, PlayersOK
    <2>3. next(s, s.ripInitiator) \in Alive(s) /\ next(s, seat) \in Alive(s) \ {seat}
      <3>1. s.ripInitiator \in Alive(s) /\ seat \in Alive(s)
        BY <1>2, <1>6, <2>1
      <3> QED
        BY <2>2, <3>1, NextIs
    <2> QED
      BY <1>7, <2>1, <2>3
  <1>9. PICK r : r = [s EXCEPT !.ripTarget = NoSeat, !.ripInitiator = NoSeat, !.turn = ar]
    OBVIOUS
  <1>10. shot(p, u) = resume(IF hit THEN remove(r, seat) ELSE r,
                             IF hit \/ ar # seat THEN "FIRE" ELSE "CHOICE")
    <2>1. s.ripTarget # NoSeat
      BY <1>6
    <2>2. CASE hit
      <3>1. p.gun[p.pointer] = "live" /\ c = 0
        BY <1>1, <1>3, <2>2
      <3> QED
        BY <1>1, <1>5, <1>7, <1>9, <2>1, <2>2, <3>1 DEF shot, Fired
    <2>3. CASE ~hit
      <3>1. p.gun[p.pointer] # "live" /\ c = p.charge
        BY <1>1, <1>3, <2>3
      <3> QED
        BY <1>1, <1>5, <1>7, <1>9, <2>1, <2>3, <3>1 DEF shot, Fired
    <2> QED
      BY <2>2, <2>3
  <1>11. /\ DOMAIN r = PressureFields /\ r.ended = s.ended /\ r.phase = s.phase
         /\ r.eligible = s.eligible
         /\ r.alive = s.alive /\ r.turn = ar /\ r.charge = s.charge
         /\ r.debtOwner = s.debtOwner /\ r.debt = s.debt /\ r.aggressor = s.aggressor
         /\ r.holder = s.holder /\ r.ripInitiator = NoSeat /\ r.ripTarget = NoSeat
         /\ r.votes = s.votes /\ r.resumeMode = s.resumeMode /\ SameGun(r, s)
    BY <1>6, <1>9 DEF PressureFields, SameGun
  <1>12. Steady(r)
    <2>1. s.debt = 0 /\ 0 \in 0..2
      BY <1>2, <1>6
    <2>2. (s.debtOwner = NoSeat) = (s.debt = 0)
      BY <1>6 DEF Steady, PressureHeld, PlayersOK
    <2>3. (r.ripTarget = NoSeat) = (r.ripInitiator = NoSeat)
      BY <1>11
    <2> QED
      BY <1>4, <1>6, <1>8, <1>11, <2>1, <2>2, <2>3, Moved
  <1>13. CASE hit
    <2>1. PICK x : x = remove(r, seat)
      OBVIOUS
    <2>2. shot(p, u) = resume(x, "FIRE")
      BY <1>10, <1>13, <2>1
    <2>3. seat \in Alive(r) /\ r.debt = 0 /\ r.ripTarget = NoSeat /\ ar \in Alive(r) \ {seat}
      BY <1>2, <1>6, <1>8, <1>11, <1>13 DEF Alive
    <2>4. x.turn = ar /\ DOMAIN x = PressureFields
      BY <1>11, <1>12, <2>1, <2>3, Removed DEF PressureHeld
    <2>5. SameButTurn(x, x)
      BY <2>4 DEF SameButTurn, SameGun
    <2>6. r.debt > 0 => r.debtOwner = seat
      BY <2>3
    <2>7. Resumable(x, "FIRE")
      BY <1>12, <2>1, <2>3, <2>4, <2>5, <2>6, OutIs
    <2> QED
      BY <2>2, <2>7, Resumed
  <1>14. CASE ~hit
    <2>1. PICK mode \in {"FIRE", "CHOICE"} : mode = IF hit \/ ar # seat THEN "FIRE" ELSE "CHOICE"
      OBVIOUS
    <2>2. shot(p, u) = resume(r, mode)
      BY <1>10, <1>14, <2>1
    <2>3. r.debt = 0
      BY <1>2, <1>6, <1>11
    <2>4. Resumable(r, mode)
      BY <1>11, <1>12, <2>3 DEF Resumable
    <2> QED
      BY <2>2, <2>4, Resumed
  <1> QED
    BY <1>2, <1>13, <1>14

\* Any other shot: a debt is paid with it.
LEMMA PlainShot ==
  ASSUME NEW p, Aiming(p), p.ripTarget = NoSeat, NEW u \in BOOLEAN, u => p.debt = 0
  PROVE  shot(p, u) # {} /\ \A q \in shot(p, u) : PressureInv(q)
  <1>1. PICK seat, hit : seat = p.turn /\ hit = (p.gun[p.pointer] = "live")
    OBVIOUS
  <1>2. hit \in BOOLEAN /\ Steady(p) /\ seat \in Alive(p) /\ (p.debt > 0 => p.debtOwner = seat)
    BY <1>1 DEF Aiming, Steady
  <1>3. PICK c : c = IF hit THEN 0 ELSE p.charge
    OBVIOUS
  <1>4. c \in Nat
    BY <1>2, <1>3 DEF Steady, PressureHeld, PlayersOK
  <1>5. PICK s : s = Fired(p, c)
    OBVIOUS
  <1>6. /\ DOMAIN s = PressureFields /\ s.ended = p.ended /\ s.phase = p.phase
        /\ s.eligible = p.eligible
        /\ s.alive = p.alive /\ s.turn = p.turn /\ s.charge = c
        /\ s.debtOwner = p.debtOwner /\ s.debt = p.debt /\ s.aggressor = p.aggressor
        /\ s.holder = p.holder /\ s.ripInitiator = p.ripInitiator /\ s.ripTarget = p.ripTarget
        /\ s.votes = p.votes /\ s.resumeMode = p.resumeMode /\ Steady(s)
    BY <1>2, <1>4, <1>5, FiredIs
  <1>7. PICK paid : paid = IF debtOf(s, seat) = 0 THEN s
                           ELSE [s EXCEPT !.debt = @ - 1, !.debtOwner = IF s.debt = 1 THEN NoSeat ELSE @]
    OBVIOUS
  <1>8. shot(p, u) = IF hit THEN resume([remove(paid, seat) EXCEPT !.turn = next(paid, seat)], "FIRE")
                     ELSE resume(paid, IF debtOf(paid, seat) > 0 THEN "FIRE"
                                       ELSE IF u THEN "forcedPass" ELSE "CHOICE")
    <2>1. s.ripTarget = NoSeat
      BY <1>6
    <2>2. CASE hit
      <3>1. p.gun[p.pointer] = "live" /\ c = 0
        BY <1>1, <1>3, <2>2
      <3> QED
        BY <1>1, <1>5, <1>7, <2>1, <2>2, <3>1 DEF shot, Fired
    <2>3. CASE ~hit
      <3>1. p.gun[p.pointer] # "live" /\ c = p.charge
        BY <1>1, <1>3, <2>3
      <3> QED
        BY <1>1, <1>5, <1>7, <2>1, <2>3, <3>1 DEF shot, Fired
    <2> QED
      BY <1>2, <2>2, <2>3
  <1>9. p.debt \in 0..2 /\ (p.debtOwner = NoSeat) = (p.debt = 0) /\ seat # NoSeat
    <2>1. PlayersOK(p)
      BY <1>2 DEF Steady, PressureHeld
    <2> QED
      BY <1>1, <2>1, SeatsNat DEF PlayersOK
  <1>10. /\ Steady(paid) /\ paid.alive = s.alive /\ paid.turn = seat /\ paid.ripTarget = NoSeat
         /\ paid.debt > 0 => paid.debtOwner = seat
         /\ p.debt = 0 => paid.debt = 0
         /\ paid.debt \in 0..2
    <2>1. CASE debtOf(s, seat) = 0
      <3>1. paid = s
        BY <1>7, <2>1
      <3> QED
        BY <1>1, <1>2, <1>6, <1>9, <3>1
    <2>2. CASE debtOf(s, seat) # 0
      <3>1. s.debtOwner = seat /\ s.debt \in 1..2
        BY <1>6, <1>9, <2>2 DEF debtOf
      <3>2. PICK d, o : d = s.debt - 1 /\ o = IF s.debt = 1 THEN NoSeat ELSE s.debtOwner
        OBVIOUS
      <3>3. paid = [s EXCEPT !.debt = d, !.debtOwner = o]
        BY <1>6, <1>7, <2>2, <3>2 DEF PressureFields
      <3>4. /\ DOMAIN paid = PressureFields /\ paid.ended = s.ended
            /\ paid.eligible = s.eligible
            /\ paid.alive = s.alive /\ paid.turn = s.turn /\ paid.charge = s.charge
            /\ paid.debtOwner = o /\ paid.debt = d /\ paid.aggressor = s.aggressor
            /\ paid.holder = s.holder /\ paid.ripInitiator = s.ripInitiator
            /\ paid.ripTarget = s.ripTarget
            /\ paid.votes = s.votes /\ paid.resumeMode = s.resumeMode /\ SameGun(paid, s)
        BY <1>6, <3>3 DEF PressureFields, SameGun
      <3>5. d \in 0..2 /\ (o = NoSeat) = (d = 0) /\ (d > 0 => o = seat)
        BY <1>9, <3>1, <3>2
      <3>6. s.turn \in Alive(s) /\ (paid.ripTarget = NoSeat) = (paid.ripInitiator = NoSeat)
        BY <1>6, <3>4 DEF Steady, PressureHeld, PlayersOK
      <3>7. Steady(paid)
        BY <1>4, <1>6, <3>4, <3>5, <3>6, Moved
      <3> QED
        BY <1>1, <1>6, <3>1, <3>4, <3>5, <3>7
    <2> QED
      BY <2>1, <2>2
  <1>11. Alive(paid) = Alive(p)
    BY <1>6, <1>10 DEF Alive
  <1>12. CASE hit
    <2>1. PICK t, r, x : t = next(paid, seat) /\ r = remove(paid, seat) /\ x = [r EXCEPT !.turn = t]
      OBVIOUS
    <2>2. shot(p, u) = resume(x, "FIRE")
      BY <1>8, <1>12, <2>1
    <2>3. t \in Alive(paid) \ {seat}
      <3>1. /\ paid.alive \in Seq(PressureSeats) /\ Injective(paid.alive) /\ Len(paid.alive) >= 2
            /\ seat \in Alive(paid)
        BY <1>2, <1>10, <1>11 DEF Steady, PressureHeld, PlayersOK
      <3> QED
        BY <2>1, <3>1, NextIs
    <2>4. DOMAIN r = PressureFields
      BY <1>2, <1>10, <1>11, <2>1, Removed DEF PressureHeld
    <2>5. SameButTurn(x, r) /\ x.turn = t
      BY <2>1, <2>4 DEF SameButTurn, SameGun, PressureFields
    <2>6. Resumable(x, "FIRE")
      BY <1>2, <1>10, <1>11, <2>1, <2>3, <2>5, OutIs
    <2> QED
      BY <2>2, <2>6, Resumed
  <1>13. CASE ~hit
    <2>1. PICK mode \in {"FIRE", "CHOICE", "forcedPass"} :
             mode = IF debtOf(paid, seat) > 0 THEN "FIRE" ELSE IF u THEN "forcedPass" ELSE "CHOICE"
      OBVIOUS
    <2>2. shot(p, u) = resume(paid, mode)
      BY <1>8, <1>13, <2>1
    <2>3. paid.debt > 0 => mode = "FIRE"
      BY <1>10, <2>1 DEF debtOf
    <2>4. Resumable(paid, mode)
      BY <1>10, <2>3 DEF Resumable
    <2> QED
      BY <2>2, <2>4, Resumed
  <1> QED
    BY <1>2, <1>12, <1>13

\* A shot.
LEMMA Shot ==
  ASSUME NEW p, Aiming(p), NEW u \in BOOLEAN, u => Quiet(p)
  PROVE  shot(p, u) # {} /\ \A q \in shot(p, u) : PressureInv(q)
  BY RipShot, PlainShot DEF Quiet

\* A player who is to shoot has aimed.
LEMMA AimingIs ==
  ASSUME NEW p, PressureInv(p), ~p.ended, p.phase # "VOTE"
  PROVE  /\ Aiming(p) /\ p.turn \in Alive(p)
         /\ p.phase = "CHOICE" => Quiet(p)
  <1>1. PressureHeld(p) /\ PressureOpen(p)
    BY DEF PressureInv, PressureClosed
  <1>2. p.debt \in 0..2
    BY <1>1 DEF PressureHeld, PlayersOK
  <1>3. Steady(p) /\ Duel(p)
    BY <1>1 DEF PressureOpen, Steady, Duel
  <1>4. Aiming(p)
    BY <1>3 DEF Aiming, Duel
  <1>5. p.phase = "CHOICE" => Quiet(p)
    <2>1. p.phase # "FIRE" /\ p.phase # "VOTE" => ~(p.debt > 0) /\ p.ripTarget = NoSeat
      BY <1>3 DEF Duel
    <2>2. ~(p.debt > 0) => p.debt = 0
      BY <1>2
    <2> QED
      BY <2>1, <2>2 DEF Quiet
  <1> QED
    BY <1>1, <1>4, <1>5 DEF PressureOpen

\* A spin, a draw or a fresh pool leaves a game that goes on as it was.
LEMMA SteadyKept == ASSUME NEW p, Steady(p), NEW q, SameTable(q, p), GunOK(q) PROVE Steady(q)
  <1>1. PressureHeld(q)
    BY TableKept DEF Steady
  <1> QED
    BY <1>1 DEF Steady, SameTable, Alive

\* The charge is raised: the heir gets the gun, owes the shots and may riposte.
LEMMA Charged ==
  ASSUME NEW p, Steady(p), Quiet(p), NEW q \in charge(p, p.turn)
  PROVE  PressureInv(q)
  <1>1. PICK seat, heir : seat = p.turn /\ heir = next(p, seat)
    OBVIOUS
  <1>2. PICK n : n = loadCount(p)
    OBVIOUS
  <1>3. n \in Int /\ DOMAIN p = PressureFields /\ GunOK(p)
    BY <1>2, LoadCountIs DEF Steady, PressureHeld
  <1>4. PICK o, d : /\ o = (IF forced(p) = 2 THEN heir ELSE NoSeat)
                    /\ d = (IF forced(p) = 2 THEN 2 ELSE 0)
    OBVIOUS
  <1>5. PICK w \in drawSpin(p, n) : q = [pass(w) EXCEPT !.aggressor = seat, !.holder = heir,
                                                        !.debtOwner = o, !.debt = d]
    BY <1>1, <1>2, <1>4 DEF charge
  <1>6. GunOK(w) /\ SameTable(w, p)
    BY <1>3, DrawSpinIs
  <1>7. Steady(w) /\ Quiet(w) /\ w.turn = seat /\ w.alive = p.alive
    BY <1>1, <1>6, SteadyKept DEF Quiet, SameTable
  <1>8. PICK y : y = pass(w)
    OBVIOUS
  <1>9. /\ PressureHeld(y) /\ Steady(y) /\ Quiet(y) /\ y.phase = "FIRE"
        /\ y.turn = next(w, seat) /\ y.alive = p.alive
    BY <1>7, <1>8, Passed
  <1>10. y.turn = heir
    BY <1>1, <1>7, <1>9 DEF next
  <1>11. /\ p.alive \in Seq(PressureSeats) /\ Injective(p.alive) /\ Len(p.alive) >= 2
         /\ seat \in Alive(p)
    BY <1>1 DEF Steady, PressureHeld, PlayersOK
  <1>12. heir \in Alive(p) \ {seat} /\ heir \in PressureSeats
    BY <1>1, <1>11, NextIs
  <1>13. seat \in PressureSeats
    BY <1>11, AliveCount DEF Alive
  <1>14. seat # NoSeat /\ heir # NoSeat
    BY <1>12, <1>13, SeatsNat
  <1>15. /\ DOMAIN q = PressureFields /\ q.ended = y.ended /\ q.phase = y.phase
         /\ q.eligible = y.eligible
         /\ q.alive = y.alive /\ q.turn = y.turn /\ q.charge = y.charge
         /\ q.debtOwner = o /\ q.debt = d /\ q.aggressor = seat
         /\ q.holder = heir /\ q.ripInitiator = y.ripInitiator /\ q.ripTarget = y.ripTarget
         /\ q.votes = y.votes /\ q.resumeMode = y.resumeMode /\ SameGun(q, y)
    BY <1>5, <1>8, <1>9 DEF PressureFields, SameGun, PressureHeld
  <1>16. d \in 0..2 /\ (o = NoSeat) = (d = 0) /\ (d > 0 => o = heir)
    <2>1. CASE forced(p) = 2
      BY <1>4, <1>14, <2>1
    <2>2. CASE forced(p) # 2
      BY <1>4, <2>2
    <2> QED
      BY <2>1, <2>2
  <1>17. Alive(q) = Alive(y)
    BY <1>15 DEF Alive
  <1>18. GunOK(q)
    BY <1>9, <1>15, GunKept DEF PressureHeld
  <1>19. PlayersOK(q)
    <2>1. /\ y.alive \in Seq(PressureSeats) /\ Injective(y.alive) /\ Len(y.alive) >= 1
          /\ y.turn \in PressureSeats /\ y.charge \in Nat /\ y.ended \in BOOLEAN
          /\ (y.ripTarget = NoSeat) = (y.ripInitiator = NoSeat)
          /\ y.votes \subseteq Alive(y) /\ y.resumeMode \in {"", "FIRE", "CHOICE", "forcedPass"}
      BY <1>9 DEF PressureHeld, PlayersOK
    <2>2. (q.aggressor = NoSeat) = (q.holder = NoSeat)
      BY <1>14, <1>15
    <2> QED
      BY <1>15, <1>16, <1>17, <2>1, <2>2 DEF PlayersOK
  <1>20. Steady(q)
    BY <1>9, <1>12, <1>15, <1>17, <1>18, <1>19 DEF Steady, PressureHeld
  <1>21. Duel(q)
    BY <1>9, <1>10, <1>12, <1>15, <1>16 DEF Duel, Quiet
  <1> QED
    BY <1>9, <1>15, <1>20, <1>21, SteadyOpen

\* A round is thrown away: the player's debt is off, and a shot or the pass follows.
LEMMA Unloaded ==
  ASSUME NEW p, Aiming(p), p.ripTarget = NoSeat, NEW q \in unload(p, p.turn)
  PROVE  PressureInv(q)
  <1>1. PICK seat : seat = p.turn
    OBVIOUS
  <1>2. Steady(p) /\ DOMAIN p = PressureFields /\ GunOK(p) /\ PlayersOK(p)
    BY DEF Aiming, Steady, PressureHeld
  <1>3. PICK s : s = [clearDebt(p, seat) EXCEPT !.unloadUsed = @ \cup {seat}, !.charge = 0]
    OBVIOUS
  <1>4. p.debt \in 0..2 /\ (p.debtOwner = NoSeat) = (p.debt = 0) /\ seat # NoSeat
    BY <1>1, <1>2, SeatsNat DEF PlayersOK
  <1>5. /\ DOMAIN s = PressureFields /\ s.ended = p.ended
        /\ s.eligible = p.eligible /\ s.alive = p.alive /\ s.turn = p.turn /\ s.charge = 0
        /\ s.debtOwner = NoSeat /\ s.debt = 0 /\ s.aggressor = p.aggressor
        /\ s.holder = p.holder /\ s.ripInitiator = p.ripInitiator /\ s.ripTarget = p.ripTarget
        /\ s.votes = p.votes /\ s.resumeMode = p.resumeMode /\ SameGun(s, p)
    <2>1. CASE p.debtOwner = seat
      <3>1. clearDebt(p, seat) = [p EXCEPT !.debt = 0, !.debtOwner = NoSeat]
        BY <2>1 DEF clearDebt
      <3> QED
        BY <1>2, <1>3, <3>1 DEF PressureFields, SameGun
    <2>2. CASE p.debtOwner # seat
      <3>1. clearDebt(p, seat) = p
        BY <2>2 DEF clearDebt
      <3>2. p.debt = 0 /\ p.debtOwner = NoSeat
        <4>1. ~(p.debt > 0)
          BY <1>1, <2>2 DEF Aiming
        <4> QED
          BY <1>4, <4>1
      <3> QED
        BY <1>2, <1>3, <3>1, <3>2 DEF PressureFields, SameGun
    <2> QED
      BY <2>1, <2>2
  <1>6. Steady(s) /\ Quiet(s)
    <2>1. 0 \in 0..2 /\ (NoSeat = NoSeat) = (0 = 0) /\ 0 \in Nat
      OBVIOUS
    <2>2. p.turn \in Alive(p) /\ (s.ripTarget = NoSeat) = (s.ripInitiator = NoSeat)
      BY <1>2, <1>5 DEF Steady, PlayersOK
    <2>3. Steady(s)
      BY <1>2, <1>5, <2>1, <2>2, Moved
    <2> QED
      BY <1>5, <2>3 DEF Quiet
  <1>7. PICK w : /\ \E t, m : w \in spin(s, t, m)
                 /\ q \in IF debtOf(p, seat) = 1 THEN resume(w, "forcedPass") ELSE shot(w, TRUE)
    <2> DEFINE left == {d \in {0, 1} : d <= GunDuds(p) /\ 1 - d <= Bullets(p) - GunDuds(p)}
               spun == IF Bullets(p) = 0 THEN spin(s, 0, 0)
                       ELSE UNION {spin(s, Bullets(p) - 1, GunDuds(p) - d) : d \in left}
    <2>1. unload(p, seat) = UNION {IF debtOf(p, seat) = 1 THEN resume(w, "forcedPass")
                                   ELSE shot(w, TRUE) : w \in spun}
      BY <1>3 DEF unload
    <2>2. \A w \in spun : \E t, m : w \in spin(s, t, m)
      OBVIOUS
    <2> HIDE DEF spun
    <2> QED
      BY <1>1, <2>1, <2>2
  <1>8. GunOK(s)
    BY <1>6 DEF Steady, PressureHeld
  <1>9. GunOK(w) /\ SameTable(w, s)
    BY <1>5, <1>7, <1>8, SpinIs
  <1>10. Steady(w) /\ Quiet(w)
    BY <1>6, <1>9, SteadyKept DEF Quiet, SameTable
  <1>11. Resumable(w, "forcedPass") /\ Aiming(w)
    <2>1. ~(w.debt > 0) /\ w.ripTarget = NoSeat
      BY <1>10 DEF Quiet
    <2> QED
      BY <1>10, <2>1 DEF Resumable, Aiming
  <1>12. CASE debtOf(p, seat) = 1
    <2>1. q \in resume(w, "forcedPass")
      BY <1>7, <1>12
    <2> QED
      BY <1>11, <2>1, Resumed
  <1>13. CASE debtOf(p, seat) # 1
    <2>1. q \in shot(w, TRUE)
      BY <1>7, <1>13
    <2> QED
      BY <1>10, <1>11, <2>1, Shot
  <1> QED
    BY <1>12, <1>13

\* A riposte turns the gun on the one who charged it.
LEMMA Riposted ==
  ASSUME NEW p, Steady(p), Quiet(p), p.holder = p.turn, p.aggressor \in Alive(p)
  PROVE  PressureInv(riposte(p, p.turn))
  <1>1. PICK q : q = riposte(p, p.turn)
    OBVIOUS
  <1>2. DOMAIN p = PressureFields /\ GunOK(p) /\ PlayersOK(p)
    BY DEF Steady, PressureHeld
  <1>3. /\ DOMAIN q = PressureFields /\ q.ended = p.ended /\ q.phase = "FIRE"
        /\ q.eligible = p.eligible /\ q.alive = p.alive /\ q.turn = p.aggressor /\ q.charge = 0
        /\ q.debtOwner = p.debtOwner /\ q.debt = p.debt /\ q.aggressor = NoSeat
        /\ q.holder = NoSeat /\ q.ripInitiator = p.turn /\ q.ripTarget = p.aggressor
        /\ q.votes = p.votes /\ q.resumeMode = p.resumeMode /\ SameGun(q, p)
    BY <1>1, <1>2 DEF riposte, PressureFields, SameGun
  <1>4. p.aggressor \in PressureSeats /\ p.turn \in PressureSeats
    <2>1. p.alive \in Seq(PressureSeats) /\ Injective(p.alive) /\ p.turn \in PressureSeats
      BY <1>2 DEF PlayersOK
    <2> QED
      BY <2>1, AliveCount DEF Alive
  <1>5. p.aggressor # NoSeat /\ p.turn # NoSeat /\ p.aggressor # p.turn
    BY <1>4, SeatsNat DEF Steady
  <1>6. Alive(q) = Alive(p)
    BY <1>3 DEF Alive
  <1>7. GunOK(q)
    BY <1>2, <1>3, GunKept
  <1>8. PlayersOK(q)
    <2>1. /\ p.alive \in Seq(PressureSeats) /\ Injective(p.alive) /\ Len(p.alive) >= 1
          /\ p.ended \in BOOLEAN
          /\ p.debt \in 0..2 /\ (p.debtOwner = NoSeat) = (p.debt = 0)
          /\ p.votes \subseteq Alive(p) /\ p.resumeMode \in {"", "FIRE", "CHOICE", "forcedPass"}
      BY <1>2 DEF PlayersOK
    <2>2. (q.ripTarget = NoSeat) = (q.ripInitiator = NoSeat) /\ (q.aggressor = NoSeat) = (q.holder = NoSeat)
      BY <1>3, <1>5
    <2>3. q.charge \in Nat
      BY <1>3
    <2> QED
      BY <1>3, <1>4, <1>6, <2>1, <2>2, <2>3 DEF PlayersOK
  <1>9. Steady(q)
    BY <1>3, <1>6, <1>7, <1>8 DEF Steady, PressureHeld
  <1>10. Duel(q)
    <2>1. p.debt = 0 /\ p.turn \in Alive(p)
      BY DEF Quiet, Steady
    <2> QED
      BY <1>3, <1>5, <1>6, <2>1 DEF Duel
  <1> QED
    BY <1>1, <1>3, <1>9, <1>10, SteadyOpen

\* The player to act gives up, and a debt with that player.
LEMMA GivenUp ==
  ASSUME NEW p, Aiming(p), p.ripTarget = NoSeat, NEW q \in surrender(p, p.turn)
  PROVE  PressureInv(q)
  <1>1. PICK seat : seat = p.turn
    OBVIOUS
  <1>2. Steady(p) /\ DOMAIN p = PressureFields /\ GunOK(p) /\ PlayersOK(p)
    BY DEF Aiming, Steady, PressureHeld
  <1>3. PICK s : s = [p EXCEPT !.forfeited = @ \cup {seat}, !.charge = 0]
    OBVIOUS
  <1>4. /\ DOMAIN s = PressureFields /\ s.ended = p.ended
        /\ s.eligible = p.eligible /\ s.alive = p.alive /\ s.turn = p.turn /\ s.charge = 0
        /\ s.debtOwner = p.debtOwner /\ s.debt = p.debt /\ s.aggressor = p.aggressor
        /\ s.holder = p.holder /\ s.ripInitiator = p.ripInitiator /\ s.ripTarget = p.ripTarget
        /\ s.votes = p.votes /\ s.resumeMode = p.resumeMode /\ SameGun(s, p)
    BY <1>2, <1>3 DEF PressureFields, SameGun
  <1>5. Steady(s)
    <2>1. p.debt \in 0..2 /\ (p.debtOwner = NoSeat) = (p.debt = 0) /\ 0 \in Nat
      BY <1>2 DEF PlayersOK
    <2>2. p.turn \in Alive(p) /\ (s.ripTarget = NoSeat) = (s.ripInitiator = NoSeat)
      BY <1>2, <1>4 DEF Steady, PlayersOK
    <2> QED
      BY <1>2, <1>4, <2>1, <2>2, Moved
  <1>6. PICK t, r, x : t = next(p, seat) /\ r = remove(s, seat) /\ x = [r EXCEPT !.turn = t]
    OBVIOUS
  <1>7. surrender(p, seat) = resume(x, "FIRE")
    BY <1>3, <1>6 DEF surrender
  <1>8. seat \in Alive(s) /\ t \in Alive(s) \ {seat}
    <2>1. /\ p.alive \in Seq(PressureSeats) /\ Injective(p.alive) /\ Len(p.alive) >= 2
          /\ seat \in Alive(p)
      BY <1>1, <1>2 DEF Steady, PlayersOK
    <2>2. t \in Alive(p) \ {seat}
      BY <1>6, <2>1, NextIs
    <2> QED
      BY <1>4, <2>1, <2>2 DEF Alive
  <1>9. DOMAIN r = PressureFields
    BY <1>5, <1>6, <1>8, Removed DEF PressureHeld
  <1>10. SameButTurn(x, r) /\ x.turn = t
    BY <1>6, <1>9 DEF SameButTurn, SameGun, PressureFields
  <1>11. s.ripTarget = NoSeat /\ (s.debt > 0 => s.debtOwner = seat)
    BY <1>1, <1>4 DEF Aiming
  <1>12. Resumable(x, "FIRE")
    BY <1>5, <1>6, <1>8, <1>10, <1>11, OutIs
  <1> QED
    BY <1>1, <1>7, <1>12, Resumed

\* A vote on the end: all agree, or a fresh pool is prepared and the game goes on.
LEMMA Voted ==
  ASSUME NEW p, PressureInv(p), ~p.ended, p.phase = "VOTE", NEW seat \in Alive(p),
         NEW agree \in BOOLEAN, NEW q \in vote(p, seat, agree)
  PROVE  PressureInv(q)
  <1>1. PressureHeld(p) /\ PressureOpen(p)
    BY DEF PressureInv, PressureClosed
  <1>2. DOMAIN p = PressureFields /\ GunOK(p) /\ PlayersOK(p)
    BY <1>1 DEF PressureHeld
  <1>3. CASE agree
    <2>1. PICK v : v = [p EXCEPT !.votes = @ \cup {seat}]
      OBVIOUS
    <2>2. q = IF v.votes = Alive(p) THEN pressureFinish(v) ELSE v
      BY <1>3, <2>1 DEF vote
    <2>3. /\ DOMAIN v = PressureFields /\ v.ended = p.ended /\ v.phase = p.phase
          /\ v.eligible = p.eligible /\ v.alive = p.alive /\ v.turn = p.turn /\ v.charge = p.charge
          /\ v.debtOwner = p.debtOwner /\ v.debt = p.debt /\ v.aggressor = p.aggressor
          /\ v.holder = p.holder /\ v.ripInitiator = p.ripInitiator /\ v.ripTarget = p.ripTarget
          /\ v.votes = p.votes \cup {seat} /\ v.resumeMode = p.resumeMode /\ SameGun(v, p)
      BY <1>2, <2>1 DEF PressureFields, SameGun
    <2>4. Alive(v) = Alive(p)
      BY <2>3 DEF Alive
    <2>5. GunOK(v) /\ Bullets(v) = Bullets(p) /\ PoolLeft(v) = PoolLeft(p)
      BY <1>2, <2>3, GunKept
    <2>6. PlayersOK(v)
      <3>1. /\ p.alive \in Seq(PressureSeats) /\ Injective(p.alive) /\ Len(p.alive) >= 1
            /\ p.turn \in PressureSeats /\ p.charge \in Nat /\ p.ended \in BOOLEAN
            /\ p.debt \in 0..2 /\ (p.debtOwner = NoSeat) = (p.debt = 0)
            /\ (p.ripTarget = NoSeat) = (p.ripInitiator = NoSeat)
            /\ (p.aggressor = NoSeat) = (p.holder = NoSeat)
            /\ p.votes \subseteq Alive(p) /\ p.resumeMode \in {"", "FIRE", "CHOICE", "forcedPass"}
        BY <1>2 DEF PlayersOK
      <3>2. v.votes \subseteq Alive(v)
        BY <2>3, <2>4, <3>1
      <3> QED
        BY <2>3, <3>1, <3>2 DEF PlayersOK
    <2>7. PressureHeld(v)
      BY <2>3, <2>5, <2>6 DEF PressureHeld
    <2>8. CASE v.votes = Alive(p)
      BY <2>2, <2>7, <2>8, FinishedIs
    <2>9. CASE v.votes # Alive(p)
      <3>1. Duel(v)
        BY <1>1, <2>3, <2>4 DEF PressureOpen, Duel
      <3>2. PressureOpen(v)
        BY <1>1, <2>3, <2>4, <2>5, <2>9, <3>1 DEF PressureOpen
      <3> QED
        BY <2>2, <2>7, <2>9, <3>2 DEF PressureInv
    <2> QED
      BY <2>8, <2>9
  <1>4. CASE ~agree
    <2>1. PICK u, mode : mode = p.resumeMode /\ u = [p EXCEPT !.resumeMode = "", !.votes = {}]
      OBVIOUS
    <2>15. PICK w \in preparePool(u) : \E x \in drawSpin(w, 1) : q \in resume(x, mode)
      BY <1>4, <2>1 DEF vote
    <2>2. PICK x \in drawSpin(w, 1) : q \in resume(x, mode)
      BY <2>15
    <2>3. /\ DOMAIN u = PressureFields /\ u.ended = p.ended /\ u.phase = p.phase
          /\ u.eligible = p.eligible /\ u.alive = p.alive /\ u.turn = p.turn /\ u.charge = p.charge
          /\ u.debtOwner = p.debtOwner /\ u.debt = p.debt /\ u.aggressor = p.aggressor
          /\ u.holder = p.holder /\ u.ripInitiator = p.ripInitiator /\ u.ripTarget = p.ripTarget
          /\ u.votes = {} /\ u.resumeMode = "" /\ SameGun(u, p)
      BY <1>2, <2>1 DEF PressureFields, SameGun
    <2>4. Alive(u) = Alive(p)
      BY <2>3 DEF Alive
    <2>5. GunOK(u)
      BY <1>2, <2>3, GunKept
    <2>6. PlayersOK(u)
      <3>1. /\ p.alive \in Seq(PressureSeats) /\ Injective(p.alive) /\ Len(p.alive) >= 1
            /\ p.turn \in PressureSeats /\ p.charge \in Nat /\ p.ended \in BOOLEAN
            /\ p.debt \in 0..2 /\ (p.debtOwner = NoSeat) = (p.debt = 0)
            /\ (p.ripTarget = NoSeat) = (p.ripInitiator = NoSeat)
            /\ (p.aggressor = NoSeat) = (p.holder = NoSeat)
        BY <1>2 DEF PlayersOK
      <3> QED
        BY <2>3, <3>1 DEF PlayersOK
    <2>7. Steady(u)
      <3>1. /\ ~p.ended /\ p.eligible = {} /\ Len(p.alive) >= 2 /\ p.turn \in Alive(p)
            /\ (p.aggressor # NoSeat => p.aggressor # p.holder)
        BY <1>1 DEF PressureOpen, Duel
      <3> QED
        BY <2>3, <2>4, <2>5, <2>6, <3>1 DEF Steady, PressureHeld
    <2>8. GunOK(w) /\ SameTable(w, u) /\ DOMAIN w = PressureFields
      BY <2>3, <2>5, PreparedIs
    <2>9. GunOK(x) /\ SameTable(x, w)
      <3>1. 1 \in Int
        OBVIOUS
      <3> QED
        BY <2>8, <3>1, DrawSpinIs
    <2>10. SameTable(x, u)
      BY <2>8, <2>9, TableTwice
    <2>11. Steady(x)
      BY <2>7, <2>9, <2>10, SteadyKept
    <2>12. mode \in {"FIRE", "CHOICE", "forcedPass"}
      BY <1>1, <1>2, <2>1 DEF PressureOpen, PlayersOK
    <2>13. p.ripTarget = NoSeat /\ (p.debt > 0 => p.debtOwner = p.turn /\ mode = "FIRE")
      BY <1>1, <2>1 DEF PressureOpen, Duel
    <2>14. Resumable(x, mode)
      BY <2>3, <2>10, <2>11, <2>12, <2>13 DEF Resumable, SameTable
    <2> QED
      BY <2>2, <2>14, Resumed
  <1> QED
    BY <1>3, <1>4

\* Another shot is taken on, at a charge of one more.
LEMMA Again ==
  ASSUME NEW p, Steady(p), Quiet(p)
  PROVE  PressureInv([p EXCEPT !.charge = @ + 1, !.phase = "FIRE"])
  <1>1. PICK q : q = [p EXCEPT !.charge = @ + 1, !.phase = "FIRE"]
    OBVIOUS
  <1>2. DOMAIN p = PressureFields /\ GunOK(p) /\ PlayersOK(p)
    BY DEF Steady, PressureHeld
  <1>3. /\ DOMAIN q = PressureFields /\ q.ended = p.ended /\ q.phase = "FIRE"
        /\ q.eligible = p.eligible /\ q.alive = p.alive /\ q.turn = p.turn
        /\ q.charge = p.charge + 1
        /\ q.debtOwner = p.debtOwner /\ q.debt = p.debt /\ q.aggressor = p.aggressor
        /\ q.holder = p.holder /\ q.ripInitiator = p.ripInitiator /\ q.ripTarget = p.ripTarget
        /\ q.votes = p.votes /\ q.resumeMode = p.resumeMode /\ SameGun(q, p)
    BY <1>1, <1>2 DEF PressureFields, SameGun
  <1>4. q.charge \in Nat /\ p.turn \in Alive(p) /\ p.debt \in 0..2
        /\ (p.debtOwner = NoSeat) = (p.debt = 0)
        /\ (q.ripTarget = NoSeat) = (q.ripInitiator = NoSeat)
    <2>1. p.charge \in Nat /\ p.debt \in 0..2 /\ (p.debtOwner = NoSeat) = (p.debt = 0)
          /\ (p.ripTarget = NoSeat) = (p.ripInitiator = NoSeat)
      BY <1>2 DEF PlayersOK
    <2>2. p.turn \in Alive(p)
      BY DEF Steady
    <2> QED
      BY <1>3, <2>1, <2>2
  <1>5. Steady(q)
    BY <1>3, <1>4, Moved
  <1>6. Duel(q)
    BY <1>3, <1>5 DEF Duel, Quiet, Steady
  <1> QED
    BY <1>1, <1>3, <1>5, <1>6, SteadyOpen

\* Every move a player is offered.
LEMMA Offered ==
  ASSUME NEW p, PressureInv(p), NEW seat, NEW a \in pressureActions(p, seat)
  PROVE  /\ ~p.ended /\ seat \in Alive(p)
         /\ a.kind \notin {"GAME_LIMIT", "TIMEOUT"}
         /\ \/ p.phase = "VOTE" /\ a.kind = "PRESSURE_VOTE" /\ a.agree \in BOOLEAN
            \/ p.phase = "FIRE" /\ seat = p.turn /\ a.kind = "PRESSURE_FIRE"
            \/ /\ p.phase = "FIRE" /\ seat = p.turn /\ p.ripTarget = NoSeat
               /\ a.kind \in {"SURRENDER", "PRESSURE_UNLOAD"}
            \/ /\ p.phase = "CHOICE" /\ seat = p.turn
               /\ a.kind \in {"PRESSURE_PASS", "PRESSURE_AGAIN", "PRESSURE_CHARGE"}
            \/ /\ p.phase = "CHOICE" /\ seat = p.turn /\ a.kind = "PRESSURE_RIPOSTE"
               /\ p.holder = seat /\ p.aggressor \in Alive(p)
  <1>1. ~p.ended /\ seat \in Alive(p)
    BY DEF pressureActions
  <1>2. CASE p.phase = "VOTE"
    <2>1. a \in {Act("PRESSURE_VOTE", b) : b \in BOOLEAN}
      BY <1>1, <1>2 DEF pressureActions
    <2>2. a.kind = "PRESSURE_VOTE" /\ a.agree \in BOOLEAN
      BY <2>1 DEF Act
    <2> QED
      BY <1>1, <1>2, <2>2
  <1>3. CASE p.phase # "VOTE"
    <2>1. seat = p.turn
      BY <1>1, <1>3 DEF pressureActions
    <2>2. CASE p.phase = "FIRE"
      <3>1. a \in Plain({"PRESSURE_FIRE"}) \/ (p.ripTarget = NoSeat /\ a \in Plain({"SURRENDER", "PRESSURE_UNLOAD"}))
        BY <1>1, <2>1, <2>2 DEF pressureActions, Plain
      <3>2. a.kind = "PRESSURE_FIRE" \/ (p.ripTarget = NoSeat /\ a.kind \in {"SURRENDER", "PRESSURE_UNLOAD"})
        BY <3>1 DEF Plain, Act
      <3> QED
        BY <1>1, <2>1, <2>2, <3>2
    <2>3. CASE p.phase # "FIRE"
      <3>1. p.phase = "CHOICE"
        BY <1>1, <1>3, <2>1, <2>3 DEF pressureActions
      <3>2. \/ a \in Plain({"PRESSURE_PASS", "PRESSURE_AGAIN", "PRESSURE_CHARGE"})
            \/ (a \in Plain({"PRESSURE_RIPOSTE"}) /\ p.holder = seat /\ p.aggressor \in Alive(p))
        BY <1>1, <2>1, <3>1 DEF pressureActions, Plain
      <3>3. \/ a.kind \in {"PRESSURE_PASS", "PRESSURE_AGAIN", "PRESSURE_CHARGE"}
            \/ (a.kind = "PRESSURE_RIPOSTE" /\ p.holder = seat /\ p.aggressor \in Alive(p))
        BY <3>2 DEF Plain, Act
      <3> QED
        BY <1>1, <2>1, <3>1, <3>3
    <2> QED
      BY <2>2, <2>3
  <1> QED
    BY <1>2, <1>3

\* Every move a player is offered leaves a game that goes on or is over.
LEMMA MovesKeep ==
  ASSUME NEW p, PressureInv(p), NEW seat, NEW a \in pressureActions(p, seat),
         NEW q \in pressureMove(p, seat, a)
  PROVE  PressureInv(q)
  <1>1. ~p.ended /\ seat \in Alive(p)
    BY Offered
  <1>2. CASE p.phase = "VOTE" /\ a.kind = "PRESSURE_VOTE" /\ a.agree \in BOOLEAN
    <2>1. q \in vote(p, seat, a.agree)
      BY <1>2 DEF pressureMove
    <2> QED
      BY <1>1, <1>2, <2>1, Voted
  <1>3. CASE p.phase = "FIRE" /\ seat = p.turn /\ a.kind = "PRESSURE_FIRE"
    <2>1. q \in shot(p, FALSE)
      BY <1>3 DEF pressureMove
    <2>2. Aiming(p)
      BY <1>1, <1>3, AimingIs
    <2> QED
      BY <2>1, <2>2, Shot
  <1>4. CASE p.phase = "FIRE" /\ seat = p.turn /\ p.ripTarget = NoSeat
             /\ a.kind \in {"SURRENDER", "PRESSURE_UNLOAD"}
    <2>1. Aiming(p)
      BY <1>1, <1>4, AimingIs
    <2>2. CASE a.kind = "SURRENDER"
      <3>1. q \in surrender(p, p.turn)
        BY <1>4, <2>2 DEF pressureMove
      <3> QED
        BY <1>4, <2>1, <3>1, GivenUp
    <2>3. CASE a.kind = "PRESSURE_UNLOAD"
      <3>1. q \in unload(p, p.turn)
        BY <1>4, <2>3 DEF pressureMove
      <3> QED
        BY <1>4, <2>1, <3>1, Unloaded
    <2> QED
      BY <1>4, <2>2, <2>3
  <1>5. CASE p.phase = "CHOICE" /\ seat = p.turn
             /\ a.kind \in {"PRESSURE_PASS", "PRESSURE_AGAIN", "PRESSURE_CHARGE"}
    <2>1. Steady(p) /\ Quiet(p)
      BY <1>1, <1>5, AimingIs DEF Aiming
    <2>2. CASE a.kind = "PRESSURE_PASS"
      <3>1. q = pass(p)
        BY <2>2 DEF pressureMove
      <3> QED
        BY <2>1, <3>1, Passed
    <2>3. CASE a.kind = "PRESSURE_AGAIN"
      <3>1. q = [p EXCEPT !.charge = @ + 1, !.phase = "FIRE"]
        BY <2>3 DEF pressureMove
      <3> QED
        BY <2>1, <3>1, Again
    <2>4. CASE a.kind = "PRESSURE_CHARGE"
      <3>1. q \in charge(p, p.turn)
        BY <1>5, <2>4 DEF pressureMove
      <3> QED
        BY <2>1, <3>1, Charged
    <2> QED
      BY <1>5, <2>2, <2>3, <2>4
  <1>6. CASE p.phase = "CHOICE" /\ seat = p.turn /\ a.kind = "PRESSURE_RIPOSTE"
             /\ p.holder = seat /\ p.aggressor \in Alive(p)
    <2>1. Steady(p) /\ Quiet(p)
      BY <1>1, <1>6, AimingIs DEF Aiming
    <2>2. q = riposte(p, p.turn)
      BY <1>6 DEF pressureMove
    <2> QED
      BY <1>6, <2>1, <2>2, Riposted
  <1> QED
    BY <1>2, <1>3, <1>4, <1>5, <1>6, Offered

\* applyPressure makes the move a player is offered.
LEMMA PressureMoves ==
  ASSUME NEW p, PressureInv(p), NEW seat, NEW a \in pressureActions(p, seat),
         NEW q \in applyPressure(p, seat, a)
  PROVE  PressureInv(q)
  <1>1. a.kind # "GAME_LIMIT" /\ a.kind # "TIMEOUT"
    BY Offered
  <1>2. applyPressure(p, seat, a) = pressureMove(p, seat, a)
    BY <1>1 DEF applyPressure
  <1> QED
    BY <1>2, MovesKeep

\* The move the worker makes for a player who does not is one the player was offered.
LEMMA PressureExpires ==
  ASSUME NEW p, PressureInv(p), ~p.ended
  PROVE  /\ applyPressure(p, p.turn, Timeout) # {}
         /\ \A a \in {Timeout, GameLimit} : \A q \in applyPressure(p, p.turn, a) : PressureInv(q)
  <1>1. PressureHeld(p) /\ PressureOpen(p) /\ p.turn \in Alive(p)
    BY DEF PressureInv, PressureClosed, PressureOpen
  <1>2. applyPressure(p, p.turn, GameLimit) = {pressureFinish(p)}
    BY DEF applyPressure, GameLimit
  <1>3. \A q \in applyPressure(p, p.turn, GameLimit) : PressureInv(q)
    BY <1>1, <1>2, FinishedIs
  <1>4. CASE p.phase = "VOTE"
    <2>1. PICK v : v = [p EXCEPT !.votes = Alive(p)]
      OBVIOUS
    <2>2. applyPressure(p, p.turn, Timeout) = {pressureFinish(v)}
      BY <1>4, <2>1 DEF applyPressure, Timeout
    <2>3. DOMAIN p = PressureFields /\ GunOK(p) /\ PlayersOK(p)
      BY <1>1 DEF PressureHeld
    <2>4. /\ DOMAIN v = PressureFields /\ v.ended = p.ended /\ v.phase = p.phase
          /\ v.eligible = p.eligible /\ v.alive = p.alive /\ v.turn = p.turn /\ v.charge = p.charge
          /\ v.debtOwner = p.debtOwner /\ v.debt = p.debt /\ v.aggressor = p.aggressor
          /\ v.holder = p.holder /\ v.ripInitiator = p.ripInitiator /\ v.ripTarget = p.ripTarget
          /\ v.votes = Alive(p) /\ v.resumeMode = p.resumeMode /\ SameGun(v, p)
      BY <2>1, <2>3 DEF PressureFields, SameGun
    <2>5. GunOK(v)
      BY <2>3, <2>4, GunKept
    <2>6. PlayersOK(v)
      BY <2>3, <2>4 DEF PlayersOK, Alive
    <2>7. PressureHeld(v)
      BY <2>4, <2>5, <2>6 DEF PressureHeld
    <2>8. PressureInv(pressureFinish(v))
      BY <2>7, FinishedIs
    <2> QED
      BY <1>3, <2>2, <2>8
  <1>5. CASE p.phase # "VOTE"
    <2>1. p.phase \in {"FIRE", "CHOICE"}
      BY <1>1, <1>5 DEF PressureOpen
    <2>2. PICK a : a = timeoutAction(p)
      OBVIOUS
    <2>3. Aiming(p) /\ (p.phase = "CHOICE" => Quiet(p))
      BY <1>5, AimingIs
    <2>4. debtOf(p, p.turn) = 0 \/ p.phase # "CHOICE"
      BY <2>3 DEF debtOf, Quiet
    <2>5. a = Act(IF p.phase = "CHOICE" THEN "PRESSURE_PASS" ELSE "PRESSURE_FIRE", FALSE)
      BY <2>2, <2>4 DEF timeoutAction
    <2>6. a \in pressureActions(p, p.turn)
      <3>1. CASE p.phase = "FIRE"
        <4>1. a \in Plain({"PRESSURE_FIRE"})
          BY <2>5, <3>1 DEF Plain
        <4> QED
          BY <1>1, <3>1, <4>1 DEF pressureActions
      <3>2. CASE p.phase = "CHOICE"
        <4>1. a \in Plain({"PRESSURE_PASS", "PRESSURE_AGAIN"})
          BY <2>5, <3>2 DEF Plain
        <4> QED
          BY <1>1, <2>4, <3>2, <4>1 DEF pressureActions
      <3> QED
        BY <2>1, <3>1, <3>2
    <2>7. applyPressure(p, p.turn, Timeout) = pressureMove(p, p.turn, a)
      BY <1>5, <2>2, <2>6 DEF applyPressure, Timeout
    <2>8. pressureMove(p, p.turn, a) # {}
      <3>1. CASE p.phase = "FIRE"
        <4>1. pressureMove(p, p.turn, a) = shot(p, FALSE)
          BY <2>5, <3>1 DEF pressureMove, Act
        <4> QED
          BY <2>3, <4>1, Shot
      <3>2. CASE p.phase = "CHOICE"
        <4>1. pressureMove(p, p.turn, a) = {pass(p)}
          BY <2>5, <3>2 DEF pressureMove, Act
        <4> QED
          BY <4>1
      <3> QED
        BY <2>1, <3>1, <3>2
    <2>9. \A q \in pressureMove(p, p.turn, a) : PressureInv(q)
      BY <2>6, MovesKeep
    <2> QED
      BY <1>3, <2>7, <2>8, <2>9
  <1> QED
    BY <1>4, <1>5

\* An order of play of all the seats.
LEMMA OrderIs ==
  ASSUME NEW S, NEW n, n \in Nat, n >= 2, NEW o, o \in [1..n -> S],
         \A i, j \in 1..n : i # j => o[i] # o[j]
  PROVE  o \in Seq(S) /\ Len(o) = n /\ Injective(o) /\ o[1] \in S /\ o[1] \in ToSet(o)
  <1>1. o \in Seq(S) /\ DOMAIN o = 1..n
    BY SeqDef
  <1>2. PICK m : m = Len(o)
    OBVIOUS
  <1>3. m \in Nat /\ 1..m = 1..n
    BY <1>1, <1>2, LenProperties
  <1>4. m = n
    <2>1. n \in 1..m
      BY <1>3
    <2>2. m \in 1..n
      BY <1>3, <2>1
    <2> QED
      BY <1>3, <2>1, <2>2
  <1>5. Injective(o)
    BY <1>1 DEF Injective
  <1>6. 1 \in 1..n
    OBVIOUS
  <1>7. o[1] \in S /\ o[1] \in ToSet(o)
    BY <1>1, <1>6 DEF ToSet
  <1> QED
    BY <1>1, <1>2, <1>4, <1>5, <1>7

\* The mode of a game that no vote interrupts.
NoMode(m) == m = ""
\* A table nobody has shot at yet.
LEMMA FreshIs ==
  ASSUME NEW s, NEW o, o \in Seq(PressureSeats), Injective(o), Len(o) >= 2,
         o[1] \in PressureSeats, o[1] \in ToSet(o),
         DOMAIN s = PressureFields, s.ended \in BOOLEAN, ~s.ended,
         s.eligible = {}, s.alive = o, s.turn = o[1], s.charge = 0,
         s.debtOwner = NoSeat, s.debt = 0, s.aggressor = NoSeat,
         s.holder = NoSeat, s.ripInitiator = NoSeat, s.ripTarget = NoSeat,
         s.votes = {}, NoMode(s.resumeMode), s.live = 0, s.dud = 0,
         s.gun = [i \in Slots |-> "empty"], s.spent = {}, s.pointer = 0
  PROVE  Steady(s)
  <1>1. GunOK(s)
    <2>1. s.gun \in [Slots -> {"empty", "live", "dud"}]
      OBVIOUS
    <2>2. s.pointer \in Slots /\ s.spent \subseteq Slots /\ \A i \in s.spent : s.gun[i] = "empty"
      BY SlotsFinite
    <2>3. s.live \in Nat /\ s.dud \in Nat /\ s.live + s.dud <= PoolSize
      BY PressureAssumption
    <2> QED
      BY <2>1, <2>2, <2>3 DEF GunOK
  <1>2. PlayersOK(s)
    <2>1. s.votes \subseteq Alive(s)
      OBVIOUS
    <2>2. Len(s.alive) >= 1
      BY LenProperties
    <2>3. s.alive \in Seq(PressureSeats) /\ Injective(s.alive) /\ s.turn \in PressureSeats
      OBVIOUS
    <2>4. /\ s.charge \in Nat /\ s.ended \in BOOLEAN
          /\ s.debt \in 0..2 /\ (s.debtOwner = NoSeat) = (s.debt = 0)
          /\ (s.ripTarget = NoSeat) = (s.ripInitiator = NoSeat)
          /\ (s.aggressor = NoSeat) = (s.holder = NoSeat)
      OBVIOUS
    <2>5. s.resumeMode \in {"", "FIRE", "CHOICE", "forcedPass"}
      BY DEF NoMode
    <2> QED
      BY <2>1, <2>2, <2>3, <2>4, <2>5 DEF PlayersOK
  <1> QED
    BY <1>1, <1>2 DEF Steady, PressureHeld, Alive

\* A new game.
LEMMA PressureInitially == \A p \in newPressure : PressureInv(p)
  <1> SUFFICES ASSUME NEW p \in newPressure PROVE PressureInv(p)
    OBVIOUS
  <1> DEFINE Start(order) ==
        [alive |-> order, turn |-> order[1], phase |-> "FIRE", live |-> 0, dud |-> 0,
         gun |-> [i \in Slots |-> "empty"], spent |-> {}, pointer |-> 0, charge |-> 0,
         debtOwner |-> NoSeat, debt |-> 0, aggressor |-> NoSeat, holder |-> NoSeat,
         ripInitiator |-> NoSeat, ripTarget |-> NoSeat, unloadUsed |-> {}, forfeited |-> {},
         votes |-> {}, resumeMode |-> "", ended |-> FALSE, eligible |-> {}]
  <1>1. PICK order \in SetToSeqs(PressureSeats) : \E q \in preparePool(Start(order)) : p \in drawSpin(q, 1)
    BY DEF newPressure
  <1>2. PICK q \in preparePool(Start(order)) : p \in drawSpin(q, 1)
    BY <1>1
  <1>3. PICK s : s = Start(order)
    OBVIOUS
  <1>4. PICK n : n = Cardinality(PressureSeats)
    OBVIOUS
  <1>5. n \in Nat /\ n >= 2
    BY <1>4, PressureAssumption, FS_CardinalityType
  <1>6. order \in [1..n -> PressureSeats] /\ \A i, j \in 1..n : i # j => order[i] # order[j]
    BY <1>1, <1>4 DEF SetToSeqs
  <1>7. /\ order \in Seq(PressureSeats) /\ Len(order) = n /\ Injective(order)
        /\ order[1] \in PressureSeats /\ order[1] \in ToSet(order)
    BY <1>5, <1>6, OrderIs
  <1>9. /\ DOMAIN s = PressureFields /\ s.ended \in BOOLEAN /\ ~s.ended /\ s.phase = "FIRE"
        /\ s.eligible = {} /\ s.alive = order /\ s.turn = order[1] /\ s.charge = 0
        /\ s.debtOwner = NoSeat /\ s.debt = 0 /\ s.aggressor = NoSeat
        /\ s.holder = NoSeat /\ s.ripInitiator = NoSeat /\ s.ripTarget = NoSeat
        /\ s.votes = {} /\ NoMode(s.resumeMode) /\ s.live = 0 /\ s.dud = 0
        /\ s.gun = [i \in Slots |-> "empty"] /\ s.spent = {} /\ s.pointer = 0
    BY <1>3 DEF PressureFields, NoMode
  <1> HIDE DEF Start
  <1>12. Steady(s)
    BY <1>5, <1>7, <1>9, FreshIs
  <1>10. GunOK(s)
    BY <1>12 DEF Steady, PressureHeld
  <1>13. GunOK(q) /\ SameTable(q, s) /\ DOMAIN q = PressureFields
    BY <1>2, <1>3, <1>9, <1>10, PreparedIs
  <1>14. GunOK(p) /\ SameTable(p, q)
    <2>1. 1 \in Int
      OBVIOUS
    <2> QED
      BY <1>2, <1>13, <2>1, DrawSpinIs
  <1>15. SameTable(p, s)
    BY <1>13, <1>14, TableTwice
  <1>16. Steady(p) /\ Duel(p)
    <2>1. Steady(p)
      BY <1>12, <1>14, <1>15, SteadyKept
    <2>2. p.debt = 0 /\ p.ripTarget = NoSeat /\ p.aggressor = NoSeat
      BY <1>9, <1>15 DEF SameTable
    <2> QED
      BY <2>1, <2>2 DEF Duel
  <1>17. p.phase = "FIRE"
    BY <1>9, <1>15 DEF SameTable
  <1> QED
    BY <1>16, <1>17, SteadyOpen

\* What load and save insist on, and a move for somebody while the game goes on.
LEMMA PressureAccepts ==
  ASSUME NEW p, PressureInv(p)
  PROVE  /\ validPressure(p) /\ p.eligible \subseteq Alive(p)
         /\ p.ended = (p.eligible # {})
         /\ ~p.ended => \E seat \in PressureSeats : pressureActions(p, seat) # {}
  <1>1. PressureHeld(p) /\ (PressureOpen(p) \/ PressureClosed(p))
    BY DEF PressureInv
  <1>2. GunOK(p) /\ PlayersOK(p)
    BY <1>1 DEF PressureHeld
  <1>3. Cardinality(Alive(p)) = Len(p.alive) /\ Alive(p) \subseteq PressureSeats
    BY <1>2, AliveCount DEF PlayersOK, Alive
  <1>4. Alive(p) # {}
    <2>1. p.alive \in Seq(PressureSeats) /\ Len(p.alive) >= 1
      BY <1>2 DEF PlayersOK
    <2>2. 1 \in DOMAIN p.alive
      BY <2>1
    <2> QED
      BY <2>2 DEF Alive, ToSet
  <1>5. p.ended \in BOOLEAN
    BY <1>2 DEF PlayersOK
  <1>6. p.eligible \subseteq Alive(p) /\ p.ended = (p.eligible # {})
    BY <1>1, <1>4, <1>5 DEF PressureOpen, PressureClosed
  <1>7. p.ended = (p.phase = "ENDED") /\ p.phase \in {"FIRE", "CHOICE", "VOTE", "ENDED"}
    <2>1. CASE PressureOpen(p)
      <3>1. ~p.ended /\ p.phase \in {"FIRE", "CHOICE", "VOTE"}
        BY <2>1 DEF PressureOpen
      <3> QED
        BY <1>5, <3>1
    <2>2. CASE PressureClosed(p)
      <3>1. p.ended /\ p.phase = "ENDED"
        BY <2>2 DEF PressureClosed
      <3> QED
        BY <1>5, <3>1
    <2> QED
      BY <1>1, <2>1, <2>2
  <1>8. ~p.ended => Len(p.alive) >= 2 /\ p.turn \in Alive(p)
    BY <1>1 DEF PressureOpen, PressureClosed
  <1>9. p.phase = "VOTE" => Bullets(p) = 0 /\ PoolLeft(p) = 0 /\ p.resumeMode # ""
    BY <1>1 DEF PressureOpen, PressureClosed
  <1>10. validPressure(p)
    <2>1. p.live >= 0 /\ p.dud >= 0 /\ PoolLeft(p) <= PoolSize /\ p.pointer \in Slots
          /\ \A i \in p.spent : p.gun[i] = "empty"
      BY <1>2 DEF GunOK, PoolLeft
    <2>2. /\ p.turn \in PressureSeats /\ p.resumeMode \in {"", "FIRE", "CHOICE", "forcedPass"}
          /\ p.debt \in 0..2 /\ (p.debtOwner = NoSeat) = (p.debt = 0)
          /\ (p.ripTarget = NoSeat) = (p.ripInitiator = NoSeat)
          /\ (p.aggressor = NoSeat) = (p.holder = NoSeat) /\ p.votes \subseteq Alive(p)
      BY <1>2 DEF PlayersOK
    <2>3. p.eligible # {} => p.ended
      BY <1>5, <1>6
    <2> QED
      BY <1>3, <1>6, <1>7, <1>8, <1>9, <2>1, <2>2, <2>3 DEF validPressure
  <1>11. ASSUME ~p.ended PROVE \E seat \in PressureSeats : pressureActions(p, seat) # {}
    <2>1. PressureOpen(p)
      BY <1>1, <1>11 DEF PressureClosed
    <2>2. CASE p.phase = "VOTE"
      <3>1. p.votes \subseteq Alive(p) /\ p.votes # Alive(p)
        BY <1>2, <2>1, <2>2 DEF PlayersOK, PressureOpen
      <3>2. PICK seat \in Alive(p) : seat \notin p.votes
        BY <3>1
      <3>3. pressureActions(p, seat) = {Act("PRESSURE_VOTE", b) : b \in BOOLEAN}
        BY <1>11, <2>2, <3>2 DEF pressureActions
      <3>4. Act("PRESSURE_VOTE", TRUE) \in pressureActions(p, seat)
        BY <3>3
      <3> QED
        BY <1>3, <3>2, <3>4
    <2>3. CASE p.phase # "VOTE"
      <3>1. p.turn \in Alive(p) /\ p.phase \in {"FIRE", "CHOICE"}
        BY <2>1, <2>3 DEF PressureOpen
      <3>2. p.phase = "CHOICE" => debtOf(p, p.turn) = 0
        BY <1>11, <2>3, AimingIs DEF Quiet, debtOf
      <3>3. CASE p.phase = "FIRE"
        <4>1. Act("PRESSURE_FIRE", FALSE) \in pressureActions(p, p.turn)
          BY <1>11, <3>1, <3>3 DEF pressureActions, Plain
        <4> QED
          BY <1>3, <3>1, <4>1
      <3>4. CASE p.phase = "CHOICE"
        <4>1. Act("PRESSURE_PASS", FALSE) \in pressureActions(p, p.turn)
          BY <1>11, <3>1, <3>2, <3>4 DEF pressureActions, Plain
        <4> QED
          BY <1>3, <3>1, <4>1
      <3> QED
        BY <3>1, <3>3, <3>4
    <2> QED
      BY <2>2, <2>3
  <1> QED
    BY <1>6, <1>10, <1>11

-----------------------------------------------------------------------------
\* Both games.

\* initRule.
LEMMA RuleInitially == RuleInit => RuleInv
  <1> SUFFICES ASSUME RuleInit PROVE RuleInv
    OBVIOUS
  <1>1. CASE \E d \in newDevil : rule = [game |-> "devil", state |-> d]
    BY <1>1, DevilInitially DEF RuleInv
  <1>2. CASE \E p \in newPressure : rule = [game |-> "pressure", state |-> p]
    BY <1>2, PressureInitially DEF RuleInv
  <1> QED
    BY <1>1, <1>2 DEF RuleInit, initRule

\* A player's move and the worker's.
LEMMA RuleMoves == RuleInv /\ [RuleNext]_rule => RuleInv'
  <1> SUFFICES ASSUME RuleInv, RuleNext PROVE RuleInv'
    BY DEF RuleInv
  <1>1. rule.game # "none"
    BY DEF RuleNext, RuleMove, RuleExpire
  <1>2. rule # NoRule
    BY <1>1 DEF NoRule
  <1>3. CASE DOMAIN rule = {"game", "state"} /\ rule.game = "devil" /\ DevilInv(rule.state)
    <2>1. ASSUME NEW d, DevilInv(d), rule' = [rule EXCEPT !.state = d] PROVE RuleInv'
      BY <1>3, <2>1 DEF RuleInv
    <2>2. ASSUME NEW seat \in DevilSeats, NEW a \in devilActions(rule.state, seat),
                 rule' \in applyRule(rule, seat, a)
          PROVE  RuleInv'
      <3>1. PICK d \in applyDevil(rule.state, seat, a) : rule' = [rule EXCEPT !.state = d]
        BY <1>3, <2>2 DEF applyRule
      <3> QED
        BY <1>3, <2>1, <3>1, DevilMoves
    <2>3. ASSUME NEW a \in {Timeout, GameLimit}, ~rule.state.ended,
                 rule' \in applyRule(rule, rule.state.turn, a)
          PROVE  RuleInv'
      <3>1. PICK d \in applyDevil(rule.state, rule.state.turn, a) : rule' = [rule EXCEPT !.state = d]
        BY <1>3, <2>3 DEF applyRule
      <3> QED
        BY <1>3, <2>1, <2>3, <3>1, DevilExpires
    <2>4. CASE RuleMove
      BY <1>3, <2>2, <2>4 DEF RuleMove, RuleSeats, ruleActions
    <2>5. CASE RuleExpire
      BY <2>3, <2>5 DEF RuleExpire
    <2> QED
      BY <2>4, <2>5 DEF RuleNext
  <1>4. CASE DOMAIN rule = {"game", "state"} /\ rule.game = "pressure" /\ PressureInv(rule.state)
    <2>1. ASSUME NEW p, PressureInv(p), rule' = [rule EXCEPT !.state = p] PROVE RuleInv'
      BY <1>4, <2>1 DEF RuleInv
    <2>2. ASSUME NEW seat \in PressureSeats, NEW a \in pressureActions(rule.state, seat),
                 rule' \in applyRule(rule, seat, a)
          PROVE  RuleInv'
      <3>1. PICK p \in applyPressure(rule.state, seat, a) : rule' = [rule EXCEPT !.state = p]
        BY <1>4, <2>2 DEF applyRule
      <3> QED
        BY <1>4, <2>1, <3>1, PressureMoves
    <2>3. ASSUME NEW a \in {Timeout, GameLimit}, ~rule.state.ended,
                 rule' \in applyRule(rule, rule.state.turn, a)
          PROVE  RuleInv'
      <3>1. PICK p \in applyPressure(rule.state, rule.state.turn, a) : rule' = [rule EXCEPT !.state = p]
        BY <1>4, <2>3 DEF applyRule
      <3> QED
        BY <1>4, <2>1, <2>3, <3>1, PressureExpires
    <2>4. CASE RuleMove
      BY <1>4, <2>2, <2>4 DEF RuleMove, RuleSeats, ruleActions
    <2>5. CASE RuleExpire
      BY <2>3, <2>5 DEF RuleExpire
    <2> QED
      BY <2>4, <2>5 DEF RuleNext
  <1> QED
    BY <1>2, <1>3, <1>4 DEF RuleInv

(***************************************************************************)
(* initRule and applyRule: every hidden state of either game, for every    *)
(* number of lives, shells, items, chambers and rounds and every set of    *)
(* seats, keeps RuleInv: the bags, the cylinder and the gun hold what they *)
(* can hold, what a player knows is true, a debt and a riposte are about   *)
(* the player to act, and the game is over exactly when it says who is     *)
(* paid.                                                                   *)
(***************************************************************************)
THEOREM RulesSound == RuleSpec => []RuleInv
  <1>1. RuleInit => RuleInv
    BY RuleInitially
  <1>2. RuleInv /\ [RuleNext]_rule => RuleInv'
    BY RuleMoves
  <1> QED
    BY <1>1, <1>2, PTL DEF RuleSpec

\* What play, load and due rely on follows.
LEMMA InvAccepts == RuleInv => RuleAccepts
  <1> SUFFICES ASSUME RuleInv, rule.game # "none" PROVE RuleAccepts
    BY DEF RuleAccepts
  <1>1. rule # NoRule
    BY DEF NoRule
  <1>2. CASE rule.game = "devil" /\ DevilInv(rule.state)
    <2>1. PICK d : d = rule.state
      OBVIOUS
    <2>2. /\ validDevil(d) /\ d.eligible \subseteq DevilSeats \ Lost(d)
          /\ d.ended = (d.eligible # {})
      BY <1>2, <2>1, DevilAccepts
    <2>3. ASSUME ~d.ended PROVE d.turn \in DevilSeats /\ devilActions(d, d.turn) # {}
      <3>1. DevilAction("SURRENDER", "", "", "") \in devilActions(d, d.turn)
        BY <2>3 DEF devilActions
      <3> QED
        BY <1>2, <2>1, <3>1 DEF DevilInv, DevilHeld
    <2>4. ~d.ended => applyDevil(d, d.turn, Timeout) # {}
      BY <1>2, <2>1, DevilExpires
    <2>5. ~d.ended => applyRule(rule, d.turn, Timeout) # {}
      BY <1>2, <2>1, <2>4 DEF applyRule
    <2>6. ~d.ended => \E seat \in RuleSeats(rule) : ruleActions(rule, seat) # {}
      BY <1>2, <2>1, <2>3 DEF RuleSeats, ruleActions
    <2>7. validHiddenState(rule) /\ d.eligible \subseteq Survivors(rule)
      BY <1>2, <2>1, <2>2 DEF validHiddenState, Survivors
    <2> QED
      BY <2>1, <2>2, <2>5, <2>6, <2>7 DEF RuleAccepts
  <1>3. CASE rule.game = "pressure" /\ PressureInv(rule.state)
    <2>1. PICK p : p = rule.state
      OBVIOUS
    <2>2. /\ validPressure(p) /\ p.eligible \subseteq Alive(p)
          /\ p.ended = (p.eligible # {})
          /\ ~p.ended => \E seat \in PressureSeats : pressureActions(p, seat) # {}
      BY <1>3, <2>1, PressureAccepts
    <2>4. ~p.ended => applyPressure(p, p.turn, Timeout) # {}
      BY <1>3, <2>1, PressureExpires
    <2>5. ~p.ended => applyRule(rule, p.turn, Timeout) # {}
      BY <1>3, <2>1, <2>4 DEF applyRule
    <2>6. ~p.ended => \E seat \in RuleSeats(rule) : ruleActions(rule, seat) # {}
      BY <1>3, <2>1, <2>2 DEF RuleSeats, ruleActions
    <2>7. validHiddenState(rule) /\ p.eligible \subseteq Survivors(rule)
      BY <1>3, <2>1, <2>2 DEF validHiddenState, Survivors
    <2> QED
      BY <2>1, <2>2, <2>5, <2>6, <2>7 DEF RuleAccepts
  <1> QED
    BY <1>1, <1>2, <1>3 DEF RuleInv

(***************************************************************************)
(* RuleAccepts: validHiddenState passes whatever applyRule leaves behind,  *)
(* survivors alone are paid, and while a game goes on somebody has a legal *)
(* move and the worker's TIMEOUT is one the rules accept.                  *)
(***************************************************************************)
THEOREM RuleAcceptsHolds == RuleSpec => []RuleAccepts
  <1>1. RuleInv => RuleAccepts
    BY InvAccepts
  <1> QED
    BY <1>1, RulesSound, PTL
=============================================================================
