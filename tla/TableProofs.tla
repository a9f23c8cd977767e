---------------------------- MODULE TableProofs -----------------------------
(***************************************************************************)
(* HandKeepsPlayers and JoinsAsBigBlind for every set of users and seats,  *)
(* every limit and every scene.                                            *)
(*                                                                         *)
(* The commands are functions of the committed rows, most of them through  *)
(* boundary and persistEngine, so the lemmas are about rows d and e.  Held *)
(* is what every step keeps; Deferred, that nothing waits for the end of a *)
(* hand that is over, fails between a settlement and its boundary and is   *)
(* established again by the boundary.                                      *)
(***************************************************************************)
EXTENDS PokerTable, SumTheorems

\* The columns of the rows.  What is in the stacks, the wallets and the times is
\* left open: the properties do not depend on it.
Rows(d) ==
    /\ DOMAIN d = {"table", "hand", "seats", "wallet", "withheld"}
    /\ DOMAIN d.table = {"state", "allow", "accepting", "started", "button", "pause", "empty", "previous"}
    /\ DOMAIN d.hand = {"state", "grace", "players"}
    /\ DOMAIN d.seats = Seats
    /\ \A s \in Seats : DOMAIN d.seats[s] = DOMAIN FreeSeat

\* The players of an open hand sit where they were dealt in, the button is one of
\* them, and chips are in the pot of nobody else.
HeldSeat(d, s) ==
    /\ ownsHand(d, s) => d.seats[s].user = d.hand.players[s] /\ d.seats[s].user # Nobody
    /\ d.seats[s].committed > 0 => ownsHand(d, s)
Held(d) ==
    /\ Rows(d)
    /\ HandOpen(d) => DOMAIN d.hand.players \subseteq Seats /\ d.table.button \in DOMAIN d.hand.players
    /\ \A s \in Seats : HeldSeat(d, s)
Deferred(d) ==
    \A s \in Seated(d) : d.seats[s].leave \/ d.seats[s].pending > 0 => ownsHand(d, s)

\* e are the rows of d with the same hand, after a part of the boundary: nobody got
\* a state to play in.
SameHand(d, e) ==
    /\ e.hand = d.hand /\ e.table.button = d.table.button /\ e.table.started = d.table.started
    /\ \A s \in Seats : e.seats[s].state \in {"ACTIVE", "WAITING_BIG_BLIND"} =>
                            d.seats[s].state = e.seats[s].state

\* The players of a hand depend on its row only.
LEMMA Owns ==
  ASSUME NEW d, NEW e, e.hand = d.hand
  PROVE  /\ HandOpen(e) = HandOpen(d)
         /\ \A s : ownsHand(e, s) = ownsHand(d, s)
  BY DEF HandOpen, ownsHand

\* SameHand is transitive.
LEMMA SameTrans ==
  ASSUME NEW d, NEW e, NEW f, SameHand(d, e), SameHand(e, f)
  PROVE  SameHand(d, f)
  BY DEF SameHand

\* Changes of the other columns of the seats.
LEMMA HeldFrame ==
  ASSUME NEW d, Held(d), NEW e, Rows(e), e.hand = d.hand, e.table.button = d.table.button,
         \A s \in Seats : e.seats[s].user = d.seats[s].user /\ e.seats[s].committed = d.seats[s].committed
  PROVE  Held(e)
  BY Owns DEF Held, HeldSeat
-----------------------------------------------------------------------------
(* The boundary. *)

\* The row of a free seat.
LEMMA FreeRow ==
  /\ FreeSeat.user = Nobody /\ FreeSeat.committed = 0 /\ FreeSeat.pending = 0
  /\ FreeSeat.state = "LEFT" /\ ~FreeSeat.leave
  /\ DOMAIN FreeSeat = {"user", "state", "stack", "committed", "pending", "control", "disconnected",
                        "sitOut", "rebuy", "timeoutOut", "sitOutNext", "leave"}
  BY DEF FreeSeat

\* CashOut frees the seats and leaves table and hand alone.
LEMMA CashOutRows ==
  ASSUME NEW d, Rows(d), NEW S
  PROVE  LET e == CashOut(d, S)
         IN  /\ Rows(e) /\ e.table = d.table /\ e.hand = d.hand
             /\ e.seats = [s \in Seats |-> IF s \in S THEN FreeSeat ELSE d.seats[s]]
  <1> DEFINE stack == [s \in Seats |-> d.seats[s].stack]
             due(u) == SumFunctionOnSet(stack, {s \in S : d.seats[s].user = u})
             W == [u \in Users |-> d.wallet[u] + due(u)]
             T == [s \in Seats |-> IF s \in S THEN FreeSeat ELSE d.seats[s]]
             e == CashOut(d, S)
  <1>1. e = [d EXCEPT !.wallet = W, !.seats = T]
    BY DEF CashOut
  <1>2. DOMAIN T = Seats /\ \A s \in Seats : DOMAIN T[s] = DOMAIN FreeSeat
    BY DEF Rows
  <1> HIDE DEF W, e
  <1>3. e.table = d.table /\ e.hand = d.hand /\ e.seats = T /\ DOMAIN e = DOMAIN d
    BY <1>1 DEF Rows
  <1>4. Rows(e)
    BY <1>2, <1>3 DEF Rows
  <1> QED
    BY <1>3, <1>4 DEF e

\* Sessions that own no hand are cashed out.
LEMMA CashOutHeld ==
  ASSUME NEW d, Held(d), NEW S, \A s \in S : ~ownsHand(d, s)
  PROVE  Held(CashOut(d, S)) /\ SameHand(d, CashOut(d, S))
  <1> DEFINE e == CashOut(d, S)
  <1>1. /\ Rows(e) /\ e.table = d.table /\ e.hand = d.hand
        /\ e.seats = [s \in Seats |-> IF s \in S THEN FreeSeat ELSE d.seats[s]]
    BY CashOutRows DEF Held
  <1> HIDE DEF e
  <1>2. \A s \in Seats : HeldSeat(e, s)
    BY <1>1, Owns, FreeRow DEF Held, HeldSeat
  <1>3. Held(e)
    BY <1>1, <1>2, Owns DEF Held
  <1>4. SameHand(d, e)
    BY <1>1, FreeRow DEF SameHand
  <1> QED
    BY <1>3, <1>4 DEF e

\* Replacing all the seats by rows that keep their columns, player and pot.
LEMMA SeatsHeld ==
  ASSUME NEW d, Held(d), NEW T, DOMAIN T = Seats,
         \A s \in Seats : /\ DOMAIN T[s] = DOMAIN FreeSeat
                          /\ T[s].user = d.seats[s].user /\ T[s].committed = d.seats[s].committed,
         NEW e, e = [d EXCEPT !.seats = T]
  PROVE  /\ Held(e) /\ e.seats = T /\ e.table = d.table /\ e.hand = d.hand
         /\ e.wallet = d.wallet /\ e.withheld = d.withheld
  <1>1. /\ e.seats = T /\ e.table = d.table /\ e.hand = d.hand /\ DOMAIN e = DOMAIN d
        /\ e.wallet = d.wallet /\ e.withheld = d.withheld
    BY DEF Held, Rows
  <1>2. Rows(e)
    BY <1>1 DEF Held, Rows
  <1>3. \A s \in Seats : e.seats[s].user = d.seats[s].user /\ e.seats[s].committed = d.seats[s].committed
    BY <1>1
  <1>4. Held(e)
    BY <1>1, <1>2, <1>3, HeldFrame
  <1> QED
    BY <1>1, <1>4

\* Vacate: who must leave and owns no hand is gone.
LEMMA VacateHeld ==
  ASSUME NEW d, Held(d)
  PROVE  /\ Held(Vacate(d)) /\ SameHand(d, Vacate(d)) /\ Vacate(d).table = d.table
         /\ \A s \in Seated(Vacate(d)) : Vacate(d).seats[s].leave => ownsHand(d, s)
  <1> DEFINE leaving == {s \in BetweenHands(d) : MustLeave(d, s)}
             away == {s \in BetweenHands(d) \ leaving : SitsOut(d.seats[s])}
             c == CashOut(d, leaving)
             T == [s \in Seats |-> IF s \in away THEN SatOut(c.seats[s]) ELSE c.seats[s]]
             e == Vacate(d)
  <1>1. \A s \in leaving : ~ownsHand(d, s)
    BY DEF BetweenHands
  <1>2. Held(c) /\ SameHand(d, c) /\ c.table = d.table
    BY <1>1, CashOutHeld, CashOutRows DEF Held
  <1>3. c.seats = [s \in Seats |-> IF s \in leaving THEN FreeSeat ELSE d.seats[s]]
    BY CashOutRows DEF Held
  <1>4. e = [c EXCEPT !.seats = T]
    BY DEF Vacate
  <1>5. \A s \in Seated(d) : d.seats[s].leave => ownsHand(d, s) \/ s \in leaving
    BY DEF BetweenHands, MustLeave
  <1> HIDE DEF c, e, leaving, away
  <1>6. /\ DOMAIN T = Seats
        /\ \A s \in Seats : /\ DOMAIN T[s] = DOMAIN FreeSeat
                            /\ T[s].user = c.seats[s].user /\ T[s].committed = c.seats[s].committed
                            /\ T[s].leave = c.seats[s].leave
                            /\ T[s].state = c.seats[s].state \/ T[s].state = "SIT_OUT"
    <2>1. \A s \in Seats : DOMAIN c.seats[s] = DOMAIN FreeSeat
      BY <1>2 DEF Held, Rows
    <2>2. ASSUME NEW q, DOMAIN q = DOMAIN FreeSeat
          PROVE  /\ DOMAIN SatOut(q) = DOMAIN FreeSeat /\ SatOut(q).user = q.user
                 /\ SatOut(q).committed = q.committed /\ SatOut(q).leave = q.leave
                 /\ SatOut(q).state = "SIT_OUT"
      BY <2>2, FreeRow DEF SatOut
    <2> QED
      BY <2>1, <2>2
  <1> HIDE DEF T
  <1>7. Held(e) /\ e.seats = T /\ e.table = c.table /\ e.hand = c.hand
    BY <1>2, <1>4, <1>6, SeatsHeld
  <1>8. SameHand(d, e)
    BY <1>2, <1>6, <1>7 DEF SameHand
  <1>9. \A s \in Seated(e) : e.seats[s].leave => ownsHand(d, s)
    BY <1>3, <1>5, <1>6, <1>7, FreeRow DEF Seated
  <1> QED
    BY <1>2, <1>7, <1>8, <1>9 DEF e

\* PendingTopUps leaves no request behind.
LEMMA TopUpsHeld ==
  ASSUME NEW d, Held(d)
  PROVE  LET e == PendingTopUps(d)
         IN  /\ Held(e) /\ SameHand(d, e) /\ e.table = d.table
             /\ \A s \in Seats : /\ e.seats[s].pending = 0 /\ e.seats[s].leave = d.seats[s].leave
                                 /\ e.seats[s].user = d.seats[s].user
  <1> DEFINE funded == {s \in Seats : TopUpAllowed(d, s, d.seats[s].pending)}
             pending == [s \in Seats |-> d.seats[s].pending]
             due(u) == SumFunctionOnSet(pending, {s \in funded : d.seats[s].user = u})
             W == [u \in Users |-> d.wallet[u] - due(u)]
             T == [s \in Seats |-> [d.seats[s] EXCEPT !.pending = 0,
                                      !.stack = @ + IF s \in funded THEN pending[s] ELSE 0]]
             b == [d EXCEPT !.wallet = W]
             e == PendingTopUps(d)
  <1>1. e = [d EXCEPT !.wallet = W, !.seats = T]
    BY DEF PendingTopUps
  <1> HIDE DEF W, e, funded
  <1>2. \A s \in Seats : /\ DOMAIN T[s] = DOMAIN FreeSeat /\ T[s].pending = 0
                         /\ T[s].user = d.seats[s].user /\ T[s].committed = d.seats[s].committed
                         /\ T[s].leave = d.seats[s].leave /\ T[s].state = d.seats[s].state
    BY FreeRow DEF Held, Rows
  <1>3. DOMAIN T = Seats
    OBVIOUS
  <1> HIDE DEF T
  <1>4. /\ e.seats = T /\ e.table = d.table /\ e.hand = d.hand /\ DOMAIN e = DOMAIN d
    BY <1>1 DEF Held, Rows
  <1>5. Rows(e)
    BY <1>2, <1>3, <1>4 DEF Held, Rows
  <1>6. Held(e)
    BY <1>2, <1>4, <1>5, HeldFrame
  <1> QED
    BY <1>2, <1>4, <1>6 DEF SameHand, e

\* Opening rebuys changes neither the hand nor who sits where.
LEMMA RebuysHeld ==
  ASSUME NEW d, Held(d)
  PROVE  LET e == OpenRebuys(d)
         IN  /\ Held(e) /\ SameHand(d, e) /\ e.table = d.table
             /\ \A s \in Seats : /\ e.seats[s].pending = d.seats[s].pending
                                 /\ e.seats[s].leave = d.seats[s].leave
                                 /\ e.seats[s].user = d.seats[s].user
  <1> DEFINE T == [s \in Seats |->
                     IF d.seats[s].stack = 0 /\ d.seats[s].state \notin {"REBUY_WINDOW", "LEFT"}
                     THEN [d.seats[s] EXCEPT !.state = "REBUY_WINDOW", !.rebuy = RebuyWindow]
                     ELSE d.seats[s]]
             e == OpenRebuys(d)
  <1>1. e = [d EXCEPT !.seats = T]
    BY DEF OpenRebuys
  <1> HIDE DEF e
  <1>2. DOMAIN T = Seats /\
        \A s \in Seats : /\ DOMAIN T[s] = DOMAIN FreeSeat /\ T[s].pending = d.seats[s].pending
                         /\ T[s].user = d.seats[s].user /\ T[s].committed = d.seats[s].committed
                         /\ T[s].leave = d.seats[s].leave
                         /\ T[s].state = d.seats[s].state \/ T[s].state = "REBUY_WINDOW"
    BY FreeRow DEF Held, Rows
  <1> HIDE DEF T
  <1>3. Held(e) /\ e.seats = T /\ e.table = d.table /\ e.hand = d.hand
    BY <1>1, <1>2, SeatsHeld
  <1> QED
    BY <1>2, <1>3 DEF SameHand, e

\* Steps that change columns of the table's row other than the button.
LEMMA TableHeld ==
  ASSUME NEW d, Held(d), NEW e, DOMAIN e = DOMAIN d, DOMAIN e.table = DOMAIN d.table,
         e.table.button = d.table.button, e.table.started = d.table.started,
         e.seats = d.seats, e.hand = d.hand
  PROVE  Held(e) /\ SameHand(d, e)
  <1>1. Rows(e)
    BY DEF Held, Rows
  <1> QED
    BY <1>1, HeldFrame DEF SameHand

\* Nor does the clock of an empty table.
LEMMA EmptyHeld ==
  ASSUME NEW d, Held(d)
  PROVE  LET e == updateEmpty(d)
         IN  Held(e) /\ SameHand(d, e) /\ e.seats = d.seats /\ e.hand = d.hand /\ e.table.state = d.table.state
  <1> DEFINE e == updateEmpty(d)
             n == IF Seated(d) = {} /\ ~HandOpen(d) THEN coalesce(d.table.empty, 0) ELSE -1
  <1>1. e = [d EXCEPT !.table = [d.table EXCEPT !.empty = n]]
    BY DEF updateEmpty
  <1> HIDE DEF e, n
  <1>2. /\ DOMAIN e = DOMAIN d /\ DOMAIN e.table = DOMAIN d.table
        /\ e.table.button = d.table.button /\ e.table.started = d.table.started
        /\ e.table.state = d.table.state /\ e.seats = d.seats /\ e.hand = d.hand
    BY <1>1 DEF Held, Rows
  <1> QED
    BY <1>2, TableHeld DEF e

\* Nor does closing a settled table.
LEMMA CloseHeld ==
  ASSUME NEW d, Held(d)
  PROVE  LET e == closeTableIfSettled(d)
         IN  Held(e) /\ SameHand(d, e) /\ e.seats = d.seats /\ e.hand = d.hand
  <1> DEFINE e == closeTableIfSettled(d)
             row == [d.table EXCEPT !.state = "CLOSED", !.accepting = FALSE, !.allow = FALSE]
  <1>1. e = d \/ e = [d EXCEPT !.table = row]
    BY DEF closeTableIfSettled
  <1>2. DOMAIN row = DOMAIN d.table /\ row.button = d.table.button /\ row.started = d.table.started
    BY DEF Held, Rows
  <1> HIDE DEF e, row
  <1>3. /\ DOMAIN e = DOMAIN d /\ DOMAIN e.table = DOMAIN d.table
        /\ e.table.button = d.table.button /\ e.table.started = d.table.started
        /\ e.seats = d.seats /\ e.hand = d.hand
    BY <1>1, <1>2 DEF Held, Rows
  <1> QED
    BY <1>3, TableHeld DEF e

\* The boundary keeps every hand and leaves nothing of a hand that is over.
LEMMA BoundaryHeld ==
  ASSUME NEW d, Held(d), NEW e \in boundary(d)
  PROVE  Held(e) /\ Deferred(e) /\ SameHand(d, e)
  <1> DEFINE v == Vacate(d)
             t == PendingTopUps(v)
             r == OpenRebuys(t)
             n == updateEmpty(r)
  <1>1. e = closeTableIfSettled(n) \/ e = n
    BY DEF boundary
  <1>2. /\ Held(v) /\ SameHand(d, v)
        /\ \A s \in Seated(v) : v.seats[s].leave => ownsHand(d, s)
    BY VacateHeld
  <1> HIDE DEF v
  <1>3. /\ Held(t) /\ SameHand(v, t)
        /\ \A s \in Seats : /\ t.seats[s].pending = 0 /\ t.seats[s].leave = v.seats[s].leave
                            /\ t.seats[s].user = v.seats[s].user
    BY <1>2, TopUpsHeld
  <1> HIDE DEF t
  <1>4. /\ Held(r) /\ SameHand(t, r)
        /\ \A s \in Seats : /\ r.seats[s].pending = t.seats[s].pending
                            /\ r.seats[s].leave = t.seats[s].leave
                            /\ r.seats[s].user = t.seats[s].user
    BY <1>3, RebuysHeld
  <1> HIDE DEF r
  <1>5. Held(n) /\ SameHand(r, n) /\ n.seats = r.seats
    BY <1>4, EmptyHeld
  <1> HIDE DEF n
  <1>6. Held(e) /\ SameHand(n, e) /\ e.seats = n.seats
    BY <1>1, <1>5, CloseHeld DEF SameHand
  <1>7. SameHand(d, e)
    BY <1>2, <1>3, <1>4, <1>5, <1>6, SameTrans
  <1>8. Deferred(e)
    <2>1. \A s \in Seated(e) : ~(e.seats[s].pending > 0)
      BY <1>3, <1>4, <1>5, <1>6 DEF Seated
    <2>2. \A s \in Seated(e) : e.seats[s].leave => ownsHand(d, s)
      BY <1>2, <1>3, <1>4, <1>5, <1>6 DEF Seated
    <2>3. \A s \in Seats : ownsHand(d, s) = ownsHand(e, s)
      BY <1>7, Owns DEF SameHand
    <2> QED
      BY <2>1, <2>2, <2>3 DEF Deferred, Seated
  <1> QED
    BY <1>6, <1>7, <1>8
-----------------------------------------------------------------------------
(* Around the table. *)

\* How far the seat x is after the seat a, clockwise over the nine numbers.
Ahead(a, x) == IF x > a THEN x - a ELSE x - a + 9

\* Seats are numbers from 1 to 9.
LEMMA SeatNumbers == \A S \in SUBSET Seats : \A x \in S : x \in Int /\ 1 <= x /\ x <= 9
  <1>1. Seats \subseteq 1..9
    BY TableAssumption
  <1> QED
    BY <1>1

\* A set of seats has a least one.
LEMMA LeastSeat ==
  ASSUME NEW S \in SUBSET (1..9), S # {}
  PROVE  Min(S) \in S /\ \A y \in S : Min(S) <= y
  <1>1. \E x \in S : \A y \in S : x <= y
    <2>1. ASSUME NEW n \in 1..9, n \in S, \A m \in 1..9 : m < n => m \notin S
          PROVE  \E x \in S : \A y \in S : x <= y
      BY <2>1
    <2>2. 1 \in S \/ 2 \in S \/ 3 \in S \/ 4 \in S \/ 5 \in S \/ 6 \in S \/ 7 \in S \/ 8 \in S \/ 9 \in S
      <3>1. PICK x \in S : x \in 1..9
        OBVIOUS
      <3>2. x = 1 \/ x = 2 \/ x = 3 \/ x = 4 \/ x = 5 \/ x = 6 \/ x = 7 \/ x = 8 \/ x = 9
        BY <3>1
      <3> QED
        BY <3>1, <3>2
    <2>3. \E n \in 1..9 : n \in S /\ \A m \in 1..9 : m < n => m \notin S
      BY <2>2
    <2> QED
      BY <2>1, <2>3
  <1> QED
    BY <1>1 DEF Min

\* nextSeat is the first seat ahead.
LEMMA NextSeatFirst ==
  ASSUME NEW S \in SUBSET Seats, S # {}, NEW a \in 0..9
  PROVE  nextSeat(S, a) \in S /\ \A y \in S : Ahead(a, nextSeat(S, a)) <= Ahead(a, y)
  <1> DEFINE above == {i \in S : i > a}
  <1>1. S \in SUBSET (1..9) /\ above \in SUBSET (1..9)
    BY SeatNumbers
  <1>2. CASE above # {}
    <2>1. Min(above) \in above /\ \A y \in above : Min(above) <= y
      BY <1>1, <1>2, LeastSeat
    <2>2. nextSeat(S, a) = Min(above)
      BY <1>2 DEF nextSeat
    <2> QED
      BY <1>1, <2>1, <2>2 DEF Ahead
  <1>3. CASE above = {}
    <2>1. Min(S) \in S /\ \A y \in S : Min(S) <= y
      BY <1>1, LeastSeat
    <2>2. nextSeat(S, a) = Min(S)
      BY <1>3 DEF nextSeat
    <2>3. \A y \in S : ~(y > a) /\ y \in Int
      BY <1>1, <1>3
    <2>4. \A y \in S : Ahead(a, y) = y - a + 9
      BY <2>3 DEF Ahead
    <2>5. PICK m \in S : m = Min(S)
      BY <2>1
    <2>6. \A y \in S : m - a + 9 <= y - a + 9
      BY <2>1, <2>3, <2>5
    <2> QED
      BY <2>2, <2>4, <2>5, <2>6
  <1> QED
    BY <1>2, <1>3

\* The first of more seats is the first of fewer, if it is one of them.
LEMMA NextSeatOf ==
  ASSUME NEW S \in SUBSET Seats, NEW Q \in SUBSET S, NEW a \in 0..9, nextSeat(S, a) \in Q
  PROVE  nextSeat(Q, a) = nextSeat(S, a)
  <1>1. /\ nextSeat(S, a) \in S /\ \A y \in S : Ahead(a, nextSeat(S, a)) <= Ahead(a, y)
        /\ nextSeat(Q, a) \in Q /\ \A y \in Q : Ahead(a, nextSeat(Q, a)) <= Ahead(a, y)
    BY NextSeatFirst
  <1>2. Ahead(a, nextSeat(S, a)) = Ahead(a, nextSeat(Q, a))
    <2>1. S \in SUBSET (1..9)
      BY SeatNumbers
    <2>2. \A x \in S : Ahead(a, x) \in Int
      BY <2>1 DEF Ahead
    <2> QED
      BY <1>1, <2>2
  <1>3. \A x, y \in 1..9 : Ahead(a, x) = Ahead(a, y) => x = y
    BY DEF Ahead
  <1> QED
    BY <1>1, <1>2, <1>3, SeatNumbers

\* One waiting player may enter a hand, at the seat that is to post the big blind:
\* the blinds of the hand with that player are the ones of the hand without.
LEMMA EntryPosts ==
  ASSUME NEW active \in SUBSET Seats, active # {}, NEW waiting \in SUBSET Seats,
         active \cap waiting = {}, NEW button \in active,
         EntrySeat(active, waiting, button) \in waiting
  PROVE  LET s == EntrySeat(active, waiting, button)
             P == active \cup {s}
             small == IF Cardinality(P) = 2 THEN button ELSE nextSeat(P, button)
         IN  nextSeat(P, small) = s
  <1> DEFINE s == EntrySeat(active, waiting, button)
             P == active \cup {s}
             all == active \cup waiting
             sb == IF Cardinality(active) > 1 THEN nextSeat(active, button) ELSE button
             small == IF Cardinality(P) = 2 THEN button ELSE nextSeat(P, button)
  <1>1. /\ s = nextSeat(all, sb) /\ s \in waiting /\ s \notin active
        /\ button \in 0..9 /\ button \in 1..9 /\ active \in SUBSET (1..9) /\ all \in SUBSET (1..9)
    BY SeatNumbers DEF EntrySeat
  <1>2. IsFiniteSet(active)
    <2>1. 1 \in Int /\ 9 \in Int
      OBVIOUS
    <2>2. IsFiniteSet(1..9)
      BY <2>1, FS_Interval
    <2> QED
      BY <1>1, <2>2, FS_Subset
  <1>3. Cardinality(active) \in Nat /\ Cardinality(P) = Cardinality(active) + 1 /\ Cardinality(active) # 0
    BY <1>1, <1>2, FS_AddElement, FS_CardinalityType, FS_EmptySet
  <1> HIDE DEF s
  <1>4. small = sb
    <2>1. CASE Cardinality(active) = 1
      BY <1>3, <2>1
    <2>2. CASE Cardinality(active) > 1
      <3>1. PICK c \in active : c # button
        <4>1. ASSUME active = {button} PROVE FALSE
          <5>1. Cardinality(active) = 1
            BY <4>1, FS_Singleton
          <5> QED
            BY <2>2, <5>1
        <4> QED
          BY <4>1
      <3>2. /\ sb \in active /\ \A y \in active : Ahead(button, sb) <= Ahead(button, y)
        BY <1>1, <2>2, NextSeatFirst
      <3>3. /\ \A y \in all : Ahead(sb, s) <= Ahead(sb, y)
        <4>1. all \in SUBSET Seats /\ all # {}
          OBVIOUS
        <4> HIDE DEF all, sb
        <4>2. sb \in 0..9
          <5>1. sb \in 1..9
            BY <1>1, <3>2
          <5> QED
            BY <5>1
        <4> QED
          BY <1>1, <4>1, <4>2, NextSeatFirst
      <3>4. /\ nextSeat(P, button) \in P
            /\ \A y \in P : Ahead(button, nextSeat(P, button)) <= Ahead(button, y)
        BY <1>1, NextSeatFirst
      <3>5. small = nextSeat(P, button)
        BY <1>3, <2>2
      <3>6. sb # button /\ sb \in 1..9 /\ s \in 1..9 /\ s # button /\ s # sb
        <4>1. sb \in 1..9 /\ s \in 1..9 /\ s # button /\ s # sb /\ c \in 1..9
          BY <1>1, <3>1, <3>2
        <4>2. Ahead(button, sb) <= Ahead(button, c)
          BY <3>1, <3>2
        <4> HIDE DEF sb
        <4> QED
          BY <1>1, <3>1, <4>1, <4>2 DEF Ahead
      <3>7. Ahead(sb, s) <= Ahead(sb, button)
        BY <3>3
      <3>8. ~(Ahead(button, s) < Ahead(button, sb))
        BY <1>1, <3>6, <3>7 DEF Ahead
      <3> HIDE DEF small, sb
      <3>9. small = s \/ small \in active
        BY <3>4, <3>5
      <3>10. Ahead(button, small) <= Ahead(button, sb)
        BY <3>2, <3>4, <3>5
      <3>11. small \in 1..9 /\ Ahead(button, small) = Ahead(button, sb)
        <4>1. small \in 1..9
          BY <1>1, <3>6, <3>9
        <4>2. small \in active => Ahead(button, sb) <= Ahead(button, small)
          BY <3>2
        <4> QED
          BY <1>1, <3>6, <3>8, <3>9, <3>10, <4>1, <4>2 DEF Ahead
      <3> QED
        BY <1>1, <3>6, <3>11 DEF Ahead
    <2> QED
      BY <1>3, <2>1, <2>2
  <1>5. sb \in 0..9
    <2>1. Cardinality(active) > 1 => nextSeat(active, button) \in active
      BY <1>1, NextSeatFirst
    <2>2. sb \in active
      BY <2>1
    <2> HIDE DEF sb
    <2>3. sb \in 1..9
      BY <1>1, <2>2
    <2> QED
      BY <2>3
  <1>6. nextSeat(P, sb) = s
    BY <1>1, <1>5, NextSeatOf
  <1> QED
    BY <1>4, <1>6 DEF s
-----------------------------------------------------------------------------
(* The hand. *)

\* What every command but StartHand does: the invariant is kept, no hand is opened.
Step(d, e) == Held(e) /\ Deferred(e) /\ (HandOpen(e) => HandOpen(d))

\* Commands that keep the hand, and the players and pots of the seats.
LEMMA FrameStep ==
  ASSUME NEW d, Held(d), Deferred(d), NEW e, Rows(e),
         HandOpen(e) = HandOpen(d), e.hand.players = d.hand.players,
         e.table.button = d.table.button,
         \A s \in Seats : /\ e.seats[s].user = d.seats[s].user
                          /\ e.seats[s].committed = d.seats[s].committed
                          /\ e.seats[s].leave => d.seats[s].leave \/ ownsHand(d, s)
                          /\ e.seats[s].pending > 0 => d.seats[s].pending > 0 \/ ownsHand(d, s)
  PROVE  Step(d, e)
  <1>1. \A s : ownsHand(e, s) = ownsHand(d, s)
    BY DEF ownsHand
  <1>2. Held(e)
    BY <1>1 DEF Held, HeldSeat
  <1>3. Deferred(e)
    BY <1>1 DEF Deferred, Seated
  <1> QED
    BY <1>2, <1>3 DEF Step

\* Chips of a player in the hand move into the pot.
LEMMA CommitStep ==
  ASSUME NEW d, Held(d), HandOpen(d), NEW s \in DOMAIN d.hand.players, NEW amount
  PROVE  LET e == Commit(d, s, amount)
         IN  Held(e) /\ e.hand = d.hand /\ e.table = d.table /\ (Deferred(d) => Step(d, e))
  <1> DEFINE paid == Min({amount, d.seats[s].stack})
             e == Commit(d, s, amount)
  <1>1. e = [d EXCEPT !.seats[s].stack = @ - paid, !.seats[s].committed = @ + paid]
    BY DEF Commit
  <1> HIDE DEF paid, e
  <1>2. s \in Seats /\ ownsHand(d, s)
    BY DEF Held, ownsHand
  <1>3. /\ e.hand = d.hand /\ e.table = d.table /\ DOMAIN e = DOMAIN d /\ DOMAIN e.seats = Seats
        /\ \A i \in Seats : DOMAIN e.seats[i] = DOMAIN d.seats[i]
    BY <1>1 DEF Held, Rows
  <1>4. \A i \in Seats : /\ e.seats[i].user = d.seats[i].user
                         /\ i # s => e.seats[i].committed = d.seats[i].committed
                         /\ e.seats[i].leave = d.seats[i].leave
                         /\ e.seats[i].pending = d.seats[i].pending
    BY <1>1, <1>2, FreeRow DEF Held, Rows
  <1>5. Rows(e)
    BY <1>3 DEF Held, Rows
  <1>6. \A i : ownsHand(e, i) = ownsHand(d, i)
    BY <1>3, Owns
  <1>7. Held(e)
    BY <1>2, <1>3, <1>4, <1>5, <1>6, Owns DEF Held, HeldSeat
  <1>8. Deferred(d) => Deferred(e)
    BY <1>4, <1>6 DEF Deferred, Seated
  <1> QED
    BY <1>3, <1>7, <1>8 DEF Step, e

\* The settlement ends the hand and empties the pots.
LEMMA SettledHeld ==
  ASSUME NEW d, Held(d), HandOpen(d), NEW a, NEW T
  PROVE  /\ Held(HandSettled(d, a, T)) /\ ~HandOpen(HandSettled(d, a, T))
         /\ \A s : ~ownsHand(HandSettled(d, a, T), s)
  <1> DEFINE players == DOMAIN d.hand.players
             x == HandSettled(d, a, T)
  <1>2. /\ x.hand.state = "SETTLED" /\ DOMAIN x = DOMAIN d /\ DOMAIN x.hand = DOMAIN d.hand
        /\ DOMAIN x.table = DOMAIN d.table /\ DOMAIN x.seats = Seats
    BY DEF Held, Rows, HandSettled
  <1>3. \A s \in Seats : /\ DOMAIN x.seats[s] = DOMAIN FreeSeat
                         /\ x.seats[s].committed = IF s \in players THEN 0 ELSE d.seats[s].committed
    BY FreeRow DEF Held, Rows, HandSettled
  <1> HIDE DEF x
  <1>4. ~HandOpen(x) /\ \A s : ~ownsHand(x, s)
    BY <1>2 DEF HandOpen, ownsHand
  <1>5. \A s \in Seats : ~(x.seats[s].committed > 0)
    BY <1>3 DEF Held, HeldSeat, ownsHand
  <1>6. Held(x)
    BY <1>2, <1>3, <1>4, <1>5 DEF Held, HeldSeat, Rows
  <1> QED
    BY <1>4, <1>6 DEF x

\* Its boundary ends what waited for it.
LEMMA SettlementStep ==
  ASSUME NEW d, Held(d), HandOpen(d), NEW e \in Settlements(d)
  PROVE  Step(d, e)
  <1>1. PICK a, T : e \in boundary(HandSettled(d, a, T))
    BY DEF Settlements
  <1> DEFINE x == HandSettled(d, a, T)
  <1>2. Held(x) /\ ~HandOpen(x) /\ \A s : ~ownsHand(x, s)
    BY SettledHeld
  <1>3. Held(e) /\ Deferred(e) /\ SameHand(x, e)
    BY <1>1, <1>2, BoundaryHeld
  <1> HIDE DEF x
  <1> QED
    BY <1>2, <1>3, Owns DEF Step, SameHand

\* Writing the engine's state back is a step of the table.
LEMMA PersistStep ==
  ASSUME NEW d, Held(d), Deferred(d), HandOpen(d), NEW e \in persistEngine(d)
  PROVE  Step(d, e)
  <1>1. e = d \/ e \in Settlements(d)
    BY DEF persistEngine
  <1> QED
    BY <1>1, SettlementStep DEF Step

\* Whatever the seat it starts from, nextSeat is one of the seats.
LEMMA NextSeatIn ==
  ASSUME NEW S \in SUBSET Seats, S # {}, NEW a
  PROVE  nextSeat(S, a) \in S
  <1> DEFINE above == {i \in S : i > a}
  <1>1. S \in SUBSET (1..9) /\ above \in SUBSET (1..9)
    BY SeatNumbers
  <1>2. Min(S) \in S /\ (above # {} => Min(above) \in above)
    BY <1>1, LeastSeat
  <1> QED
    BY <1>2 DEF nextSeat

\* Both blinds are posted by players of the hand.
LEMMA DealStep ==
  ASSUME NEW d, Held(d), Deferred(d), d.hand.state = "COMMITTED", NEW e \in dealHand(d)
  PROVE  Step(d, e)
  <1> DEFINE a == [d EXCEPT !.hand.state = "PLAYING"]
             b == Commit(a, SmallBlindSeat(d), SmallBlind)
             c == Commit(b, BigBlindSeat(d), BigBlind)
  <1>1. HandOpen(d)
    BY DEF HandOpen
  <1>2. /\ DOMAIN a = DOMAIN d /\ DOMAIN a.hand = DOMAIN d.hand /\ a.table = d.table /\ a.seats = d.seats
        /\ a.hand.state = "PLAYING" /\ a.hand.players = d.hand.players
    BY DEF Held, Rows
  <1> HIDE DEF a
  <1>3. HandOpen(a)
    BY <1>2 DEF HandOpen
  <1>4. Rows(a)
    BY <1>2 DEF Held, Rows
  <1>5. Held(a) /\ Deferred(a)
    BY <1>1, <1>2, <1>3, <1>4, FrameStep DEF Step
  <1>6. SmallBlindSeat(d) \in DOMAIN d.hand.players /\ BigBlindSeat(d) \in DOMAIN d.hand.players
    BY <1>1, NextSeatIn DEF Held, SmallBlindSeat, BigBlindSeat
  <1>7. Held(b) /\ b.hand = a.hand /\ Deferred(b)
    BY <1>2, <1>3, <1>5, <1>6, CommitStep DEF Step
  <1> HIDE DEF b
  <1>8. HandOpen(b)
    BY <1>3, <1>7, Owns
  <1>9. Held(c) /\ c.hand = b.hand /\ Deferred(c)
    BY <1>2, <1>6, <1>7, <1>8, CommitStep DEF Step
  <1>10. e \in persistEngine(c)
    BY DEF dealHand, a, b
  <1> HIDE DEF c
  <1>11. HandOpen(c)
    BY <1>8, <1>9, Owns
  <1> QED
    BY <1>1, <1>9, <1>10, <1>11, PersistStep DEF Step

\* On a running table the players dealt in play on, or wait and post the big blind,
\* or all of them wait.
Joined(d, e) ==
    \A s \in Seats :
        d.table.started /\ ownsHand(e, s) /\ d.seats[s].state = "WAITING_BIG_BLIND"
        => \/ s = BigBlindSeat(e)
           \/ \A i \in DOMAIN e.hand.players : d.seats[i].state = "WAITING_BIG_BLIND"

\* The seats that are ready are taken.
LEMMA ReadySeats ==
  ASSUME NEW d, NEW state
  PROVE  /\ Ready(d, state) \in SUBSET Seats
         /\ \A s \in Ready(d, state) : d.seats[s].user # Nobody /\ d.seats[s].state = state
  BY DEF Ready, Seated

\* The participants are seated, and the button is theirs.
LEMMA Participants ==
  ASSUME NEW d, NEW chosen, chosen = selectParticipants(d), chosen.players # {}, NEW button \in chosen.buttons
  PROVE  /\ chosen.players \in SUBSET Seats /\ button \in chosen.players
         /\ \A s \in chosen.players : d.seats[s].user # Nobody
  <1> DEFINE incumbent == Ready(d, "ACTIVE")
             fresh == Ready(d, "WAITING_BIG_BLIND")
             active == IF incumbent = {} THEN fresh ELSE incumbent
             waiting == IF incumbent = {} THEN {} ELSE fresh
             next == nextSeat(active, d.table.button)
             joins == waiting \cap {EntrySeat(active, waiting, next)}
  <1>1. chosen = IF ~d.table.started
                 THEN [players |-> incumbent \cup fresh, buttons |-> incumbent \cup fresh]
                 ELSE [players |-> active \cup joins, buttons |-> {next}]
    BY DEF selectParticipants
  <1>2. /\ incumbent \in SUBSET Seats /\ fresh \in SUBSET Seats
        /\ \A s \in incumbent \cup fresh : d.seats[s].user # Nobody
    BY ReadySeats
  <1> HIDE DEF incumbent, fresh
  <1>3. active \in SUBSET Seats /\ active \cup joins \subseteq incumbent \cup fresh
    BY <1>2
  <1>4. CASE ~d.table.started
    BY <1>1, <1>2, <1>4
  <1>5. CASE d.table.started
    <2>1. chosen.players = active \cup joins /\ button = next
      BY <1>1, <1>5
    <2>2. active # {}
      BY <2>1
    <2>3. next \in active
      BY <1>3, <2>2, NextSeatIn
    <2> HIDE DEF active, joins, next
    <2> QED
      BY <1>2, <1>3, <2>1, <2>3
  <1> QED
    BY <1>4, <1>5

\* A hand opened on the rows b between two hands.
LEMMA FreezeHeld ==
  ASSUME NEW b, Held(b), Deferred(b), ~HandOpen(b),
         NEW players \in SUBSET Seats, NEW button \in players,
         \A s \in players : b.seats[s].user # Nobody
  PROVE  LET e == Freeze(b, players, button)
         IN  /\ Held(e) /\ Deferred(e)
             /\ e.table.button = button /\ DOMAIN e.hand.players = players
             /\ \A s : ownsHand(e, s) => s \in players
  <1> DEFINE e == Freeze(b, players, button)
             T == [s \in Seats |->
                     IF s \in players THEN [b.seats[s] EXCEPT !.state = "ACTIVE"] ELSE b.seats[s]]
             hand == [state |-> "COMMITTED", grace |-> -1,
                      players |-> [s \in players |-> b.seats[s].user]]
  <1>1. /\ e.hand = hand /\ e.seats = T /\ DOMAIN e = DOMAIN b /\ DOMAIN e.table = DOMAIN b.table
        /\ e.table.button = button
    BY DEF Freeze, Held, Rows
  <1> HIDE DEF e
  <1>2. /\ hand.state = "COMMITTED" /\ DOMAIN hand = {"state", "grace", "players"}
        /\ DOMAIN hand.players = players /\ \A s \in players : hand.players[s] = b.seats[s].user
    OBVIOUS
  <1> HIDE DEF hand
  <1>3. \A s \in Seats : /\ DOMAIN T[s] = DOMAIN FreeSeat
                         /\ T[s].user = b.seats[s].user /\ T[s].committed = b.seats[s].committed
                         /\ T[s].leave = b.seats[s].leave /\ T[s].pending = b.seats[s].pending
    BY FreeRow DEF Held, Rows
  <1>4. DOMAIN T = Seats
    OBVIOUS
  <1> HIDE DEF T
  <1>5. \A s : ownsHand(e, s) = (s \in players)
    BY <1>1, <1>2 DEF ownsHand, HandOpen
  <1>6. \A s : ~ownsHand(b, s)
    BY DEF ownsHand
  <1>7. Rows(e)
    BY <1>1, <1>2, <1>3, <1>4 DEF Held, Rows
  <1>8. \A s \in Seats : HeldSeat(e, s)
    BY <1>1, <1>2, <1>3, <1>5, <1>6 DEF Held, HeldSeat
  <1>9. Held(e)
    BY <1>1, <1>2, <1>7, <1>8 DEF Held
  <1>10. Deferred(e)
    BY <1>1, <1>3, <1>6 DEF Deferred, Seated
  <1> QED
    BY <1>1, <1>2, <1>5, <1>9, <1>10 DEF e

\* Who enters the hand frozen on b was waiting on the rows before the boundary.
LEMMA FreezeJoined ==
  ASSUME NEW d, NEW b, SameHand(d, b), NEW chosen, chosen = selectParticipants(b),
         chosen.players # {}, NEW button \in chosen.buttons,
         NEW e, e.table.button = button, DOMAIN e.hand.players = chosen.players
  PROVE  Joined(d, e)
  <1> DEFINE incumbent == Ready(b, "ACTIVE")
             fresh == Ready(b, "WAITING_BIG_BLIND")
             next == nextSeat(incumbent, b.table.button)
             entry == EntrySeat(incumbent, fresh, next)
  <1>1. SUFFICES ASSUME NEW s \in Seats, d.table.started, ownsHand(e, s),
                        d.seats[s].state = "WAITING_BIG_BLIND",
                        ~\A i \in DOMAIN e.hand.players : d.seats[i].state = "WAITING_BIG_BLIND"
                 PROVE  s = BigBlindSeat(e)
    BY DEF Joined
  <1>2. /\ incumbent \in SUBSET Seats /\ fresh \in SUBSET Seats
        /\ \A i \in incumbent : b.seats[i].state = "ACTIVE" /\ d.seats[i].state = "ACTIVE"
        /\ \A i \in fresh : b.seats[i].state = "WAITING_BIG_BLIND"
                            /\ d.seats[i].state = "WAITING_BIG_BLIND"
    BY ReadySeats DEF SameHand
  <1>3. s \in chosen.players /\ b.table.started
    BY <1>1 DEF ownsHand, SameHand
  <1>4. incumbent # {}
    <2>1. ASSUME incumbent = {} PROVE chosen.players = fresh
      BY <1>3, <2>1 DEF selectParticipants
    <2> QED
      BY <1>1, <1>2, <2>1
  <1>5. chosen = [players |-> incumbent \cup (fresh \cap {entry}), buttons |-> {next}]
    BY <1>3, <1>4 DEF selectParticipants
  <1>6. next \in incumbent
    BY <1>2, <1>4, NextSeatIn
  <1> HIDE DEF incumbent, fresh, next
  <1>7. s \notin incumbent /\ incumbent \cap fresh = {}
    BY <1>1, <1>2
  <1>8. /\ s \in fresh /\ s = entry /\ chosen.players = incumbent \cup {entry} /\ button = next
    BY <1>3, <1>5, <1>7
  <1>9. LET P == incumbent \cup {entry}
            small == IF Cardinality(P) = 2 THEN next ELSE nextSeat(P, next)
        IN  nextSeat(P, small) = entry
    BY <1>2, <1>4, <1>6, <1>7, <1>8, EntryPosts
  <1> HIDE DEF entry
  <1> QED
    BY <1>8, <1>9 DEF BigBlindSeat, SmallBlindSeat

\* Preparing a hand establishes Deferred and lets players join as Joined says.
LEMMA PrepareStep ==
  ASSUME NEW d, Held(d), ~HandOpen(d), NEW e \in prepareHand(d)
  PROVE  Held(e) /\ Deferred(e) /\ Joined(d, e)
  <1>1. PICK b \in boundary(d) :
          \E chosen \in {x \in {selectParticipants(b)} : Cardinality(x.players) >= 2} :
             \E button \in chosen.buttons : e = Freeze(b, chosen.players, button)
    BY DEF prepareHand
  <1>2. PICK chosen : /\ chosen = selectParticipants(b) /\ Cardinality(chosen.players) >= 2
                      /\ \E button \in chosen.buttons : e = Freeze(b, chosen.players, button)
    BY <1>1
  <1>3. PICK button \in chosen.buttons : e = Freeze(b, chosen.players, button)
    BY <1>2
  <1>4. chosen.players # {}
    BY <1>2, FS_EmptySet
  <1>5. Held(b) /\ Deferred(b) /\ SameHand(d, b)
    BY BoundaryHeld
  <1>6. ~HandOpen(b)
    BY <1>5, Owns DEF SameHand
  <1>7. /\ chosen.players \in SUBSET Seats /\ button \in chosen.players
        /\ \A s \in chosen.players : b.seats[s].user # Nobody
    BY <1>2, <1>4, Participants
  <1>8. /\ Held(e) /\ Deferred(e) /\ e.table.button = button /\ DOMAIN e.hand.players = chosen.players
    BY <1>3, <1>5, <1>6, <1>7, FreezeHeld
  <1> QED
    BY <1>2, <1>4, <1>5, <1>8, FreezeJoined
-----------------------------------------------------------------------------
(* The commands. *)

TableInv == Held(db) /\ Deferred(db)

\* Requests of a player in the hand.
LEMMA OwnSeatStep ==
  ASSUME NEW d, Held(d), Deferred(d), NEW s \in Seats, ownsHand(d, s),
         NEW e, DOMAIN e = DOMAIN d, DOMAIN e.table = DOMAIN d.table, e.table.button = d.table.button,
         e.hand = d.hand, DOMAIN e.seats = Seats, \A i \in Seats \ {s} : e.seats[i] = d.seats[i],
         DOMAIN e.seats[s] = DOMAIN FreeSeat, e.seats[s].user = d.seats[s].user,
         e.seats[s].committed = d.seats[s].committed
  PROVE  Step(d, e)
  <1>1. Rows(e)
    BY DEF Held, Rows
  <1>2. \A i \in Seats : /\ e.seats[i].user = d.seats[i].user
                         /\ e.seats[i].committed = d.seats[i].committed
                         /\ e.seats[i].leave => d.seats[i].leave \/ ownsHand(d, i)
                         /\ e.seats[i].pending > 0 => d.seats[i].pending > 0 \/ ownsHand(d, i)
    BY DEF Held, Rows
  <1> QED
    BY <1>1, <1>2, FrameStep, Owns

\* Sessions between hands are cashed out.
LEMMA CashOutStep ==
  ASSUME NEW d, Held(d), Deferred(d), NEW S, \A s \in S : ~ownsHand(d, s)
  PROVE  Step(d, CashOut(d, S))
  <1> DEFINE e == CashOut(d, S)
  <1>1. Held(e) /\ SameHand(d, e)
    BY CashOutHeld
  <1>2. e.seats = [s \in Seats |-> IF s \in S THEN FreeSeat ELSE d.seats[s]]
    BY CashOutRows DEF Held
  <1> HIDE DEF e
  <1>3. Deferred(e)
    BY <1>1, <1>2, Owns, FreeRow DEF Deferred, Seated, SameHand
  <1> QED
    BY <1>1, <1>3, Owns DEF Step, SameHand, e

\* Steps one after the other.
LEMMA EmptyStep ==
  ASSUME NEW d, NEW e, Step(d, e)
  PROVE  Step(d, updateEmpty(e))
  <1> DEFINE f == updateEmpty(e)
  <1>1. Held(f) /\ f.seats = e.seats /\ f.hand = e.hand
    BY EmptyHeld DEF Step
  <1> HIDE DEF f
  <1>2. Deferred(f)
    BY <1>1, Owns DEF Step, Deferred, Seated
  <1> QED
    BY <1>1, <1>2, Owns DEF Step, f

\* A player leaves: the seat is freed at once, or the request is of a player in a hand.
LEMMA LeaveStep ==
  ASSUME NEW d, Held(d), Deferred(d), NEW s \in Seats
  PROVE  Step(d, Leave(d, s))
  <1>1. CASE ownsHand(d, s)
    <2> DEFINE row == [d.seats[s] EXCEPT !.state = "LEAVE_AFTER_HAND", !.leave = TRUE]
               e == [d EXCEPT !.seats[s].state = "LEAVE_AFTER_HAND", !.seats[s].leave = TRUE]
    <2>1. /\ DOMAIN row = DOMAIN FreeSeat /\ row.user = d.seats[s].user
          /\ row.committed = d.seats[s].committed /\ row.pending = d.seats[s].pending
      BY FreeRow DEF Held, Rows
    <2>2. /\ DOMAIN e = DOMAIN d /\ e.table = d.table /\ e.hand = d.hand
          /\ DOMAIN e.seats = Seats /\ e.seats[s] = row
          /\ \A i \in Seats \ {s} : e.seats[i] = d.seats[i]
      BY DEF Held, Rows
    <2> HIDE DEF row, e
    <2>3. Step(d, e)
      BY <1>1, <2>1, <2>2, OwnSeatStep
    <2> QED
      BY <1>1, <2>3, EmptyStep DEF Leave, e
  <1>2. CASE ~ownsHand(d, s)
    <2>1. Step(d, CashOut(d, {s}))
      BY <1>2, CashOutStep
    <2> QED
      BY <1>2, <2>1, EmptyStep DEF Leave
  <1> QED
    BY <1>1, <1>2

\* A player who sits down plays in no hand.
LEMMA BuyInStep ==
  ASSUME TableInv, NEW u \in Users, NEW s \in Seats, NEW amount, BuyIn(u, s, amount)
  PROVE  Step(db, db')
  <1> DEFINE row == [FreeSeat EXCEPT !.user = u, !.stack = amount, !.disconnected = 0,
                        !.state = IF db.table.started THEN "WAITING_BIG_BLIND" ELSE "ACTIVE"]
  <1>1. /\ s \notin Seated(db)
        /\ db' = [db EXCEPT !.wallet[u] = @ - amount, !.table.empty = -1, !.seats[s] = row]
    BY DEF BuyIn, Commits
  <1>2. /\ DOMAIN row = DOMAIN FreeSeat /\ row.committed = 0 /\ row.pending = 0 /\ ~row.leave
    BY DEF FreeSeat
  <1> HIDE DEF row
  <1>3. /\ DOMAIN db' = DOMAIN db /\ DOMAIN db'.table = DOMAIN db.table /\ DOMAIN db'.seats = Seats
        /\ db'.table.button = db.table.button /\ db'.hand = db.hand
        /\ \A i \in Seats : db'.seats[i] = IF i = s THEN row ELSE db.seats[i]
    BY <1>1 DEF TableInv, Held, Rows
  <1>4. Rows(db')
    BY <1>2, <1>3 DEF TableInv, Held, Rows
  <1>5. \A i : ownsHand(db', i) = ownsHand(db, i) /\ HandOpen(db') = HandOpen(db)
    BY <1>3, Owns
  <1>6. ~ownsHand(db, s)
    BY <1>1 DEF TableInv, Held, HeldSeat, Seated
  <1>7. \A i \in Seats : HeldSeat(db', i)
    BY <1>2, <1>3, <1>5, <1>6 DEF TableInv, Held, HeldSeat
  <1>8. Held(db')
    BY <1>3, <1>4, <1>5, <1>7 DEF TableInv, Held
  <1>9. Deferred(db')
    BY <1>2, <1>3, <1>5 DEF TableInv, Deferred, Seated
  <1> QED
    BY <1>5, <1>8, <1>9 DEF Step

\* Commands on the columns of a seat that say nothing of the hand.
LEMMA PlainSeatStep ==
  ASSUME NEW d, Held(d), Deferred(d), NEW s \in Seats, NEW row,
         DOMAIN row = DOMAIN FreeSeat, row.user = d.seats[s].user, row.committed = d.seats[s].committed,
         row.leave = d.seats[s].leave, row.pending = d.seats[s].pending,
         NEW e, e = [d EXCEPT !.seats[s] = row]
  PROVE  Step(d, e)
  <1>1. /\ DOMAIN e = DOMAIN d /\ e.table = d.table /\ e.hand = d.hand
        /\ DOMAIN e.seats = Seats /\ e.seats[s] = row
        /\ \A i \in Seats \ {s} : e.seats[i] = d.seats[i]
        /\ DOMAIN e.table = DOMAIN d.table /\ e.table.button = d.table.button
    BY DEF Held, Rows
  <1>2. Rows(e)
    BY <1>1 DEF Held, Rows
  <1>3. \A i \in Seats : /\ e.seats[i].user = d.seats[i].user
                         /\ e.seats[i].committed = d.seats[i].committed
                         /\ e.seats[i].leave = d.seats[i].leave
                         /\ e.seats[i].pending = d.seats[i].pending
    BY <1>1
  <1>4. \A i \in Seats : /\ e.seats[i].leave => d.seats[i].leave \/ ownsHand(d, i)
                         /\ e.seats[i].pending > 0 => d.seats[i].pending > 0 \/ ownsHand(d, i)
    BY <1>3
  <1>5. HandOpen(e) = HandOpen(d) /\ e.hand.players = d.hand.players
    BY <1>1, Owns
  <1>6. e.table.button = d.table.button
    BY <1>1
  <1>7. \A i \in Seats : /\ e.seats[i].user = d.seats[i].user
                         /\ e.seats[i].committed = d.seats[i].committed
    BY <1>3
  <1> QED
    BY <1>2, <1>4, <1>5, <1>6, <1>7, FrameStep

\* Connections do not change the hand.
LEMMA ConnectionStep ==
  ASSUME TableInv, NEW s \in Seats, Connect(s) \/ Disconnect(s)
  PROVE  Step(db, db')
  <1> DEFINE q == db.seats[s]
             age == IF ownsHand(db, s) /\ db.hand.state = "COMMITTED"
                    THEN q.disconnected ELSE coalesce(q.disconnected, 0)
             row(control, disconnected) ==
                [q EXCEPT !.control = control, !.disconnected = disconnected]
  <1>1. \E control, disconnected : db' = [db EXCEPT !.seats[s] = row(control, disconnected)]
    <2>1. CASE Connect(s)
      <3>1. db' = [db EXCEPT !.seats[s] = row(TRUE, -1)]
        BY <2>1 DEF Connect, Commits
      <3> QED
        BY <3>1
    <2>2. CASE Disconnect(s)
      <3>1. db' = [db EXCEPT !.seats[s] = row(FALSE, age)]
        BY <2>2 DEF Disconnect, Commits
      <3> QED
        BY <3>1
    <2> QED
      BY <2>1, <2>2
  <1>2. \A control, disconnected :
           LET x == row(control, disconnected)
           IN  /\ DOMAIN x = DOMAIN FreeSeat /\ x.user = q.user /\ x.committed = q.committed
               /\ x.leave = q.leave /\ x.pending = q.pending
    BY FreeRow DEF TableInv, Held, Rows
  <1> HIDE DEF row
  <1> QED
    BY <1>1, <1>2, PlainSeatStep DEF TableInv

\* Nor does sitting out and coming back.
LEMMA AwayStep ==
  ASSUME TableInv, NEW s \in Seats, RequestSitOut(s) \/ ResumeSeat(s)
  PROVE  Step(db, db')
  <1> DEFINE q == db.seats[s]
             base == IF ownsHand(db, s) THEN q ELSE SatOut(q)
             out == [base EXCEPT !.sitOutNext = TRUE]
             back == [q EXCEPT !.state = "WAITING_BIG_BLIND", !.sitOutNext = FALSE,
                               !.sitOut = -1, !.timeoutOut = FALSE]
  <1>1. DOMAIN q = DOMAIN FreeSeat
    BY DEF TableInv, Held, Rows
  <1>2. /\ DOMAIN base = DOMAIN FreeSeat /\ base.user = q.user /\ base.committed = q.committed
        /\ base.leave = q.leave /\ base.pending = q.pending
    BY <1>1, FreeRow DEF SatOut
  <1>3. CASE RequestSitOut(s)
    <2>1. db' = [db EXCEPT !.seats[s] = out]
      BY <1>3 DEF RequestSitOut, Commits
    <2> HIDE DEF base
    <2>2. /\ DOMAIN out = DOMAIN FreeSeat /\ out.user = q.user /\ out.committed = q.committed
          /\ out.leave = q.leave /\ out.pending = q.pending
      BY <1>2, FreeRow
    <2> QED
      BY <2>1, <2>2, PlainSeatStep DEF TableInv
  <1>4. CASE ResumeSeat(s)
    <2>1. db' = [db EXCEPT !.seats[s] = back]
      BY <1>4 DEF ResumeSeat, Commits
    <2>2. /\ DOMAIN back = DOMAIN FreeSeat /\ back.user = q.user /\ back.committed = q.committed
          /\ back.leave = q.leave /\ back.pending = q.pending
      BY <1>1, FreeRow
    <2> QED
      BY <2>1, <2>2, PlainSeatStep DEF TableInv
  <1> QED
    BY <1>3, <1>4

\* A top-up moves chips at once, or is requested by a player of the hand.
LEMMA TopUpStep ==
  ASSUME TableInv, NEW s \in Seats, NEW amount, TopUp(s, amount)
  PROVE  Step(db, db')
  <1> DEFINE a == AddChips(db, s, amount)
             r == Rebought(a, s)
             pending == [db EXCEPT !.seats[s].pending = amount]
  <1>1. \/ ownsHand(db, s) /\ db' = pending
        \/ db' = r
        \/ db' = a
    BY DEF TopUp, Commits
  <1>2. a = [db EXCEPT !.wallet[db.seats[s].user] = @ - amount, !.seats[s].stack = @ + amount]
    BY DEF AddChips
  <1>3. /\ DOMAIN a = DOMAIN db /\ a.table = db.table /\ a.hand = db.hand
        /\ a.seats = [db.seats EXCEPT ![s].stack = @ + amount]
    BY <1>2 DEF TableInv, Held, Rows
  <1> HIDE DEF a
  <1>4. /\ DOMAIN a.seats = Seats
        /\ \A i \in Seats : /\ DOMAIN a.seats[i] = DOMAIN db.seats[i]
                            /\ a.seats[i].user = db.seats[i].user
                            /\ a.seats[i].committed = db.seats[i].committed
                            /\ a.seats[i].leave = db.seats[i].leave
                            /\ a.seats[i].pending = db.seats[i].pending
    BY <1>3, FreeRow DEF TableInv, Held, Rows
  <1>5. Rows(a)
    BY <1>3, <1>4 DEF TableInv, Held, Rows
  <1>6. Step(db, a)
    <2>1. \A i \in Seats : /\ a.seats[i].leave => db.seats[i].leave \/ ownsHand(db, i)
                           /\ a.seats[i].pending > 0 => db.seats[i].pending > 0 \/ ownsHand(db, i)
      BY <1>4
    <2>2. HandOpen(a) = HandOpen(db) /\ a.hand.players = db.hand.players
      BY <1>3, Owns
    <2> QED
      BY <1>3, <1>4, <1>5, <2>1, <2>2, FrameStep DEF TableInv
  <1>7. Step(db, r)
    <2> DEFINE row == [a.seats[s] EXCEPT !.state = "WAITING_BIG_BLIND", !.rebuy = -1]
    <2>1. r = [a EXCEPT !.seats[s] = row]
      BY <1>6 DEF Rebought, Step, Held, Rows
    <2>2. /\ DOMAIN row = DOMAIN FreeSeat /\ row.user = a.seats[s].user
          /\ row.committed = a.seats[s].committed
          /\ row.leave = a.seats[s].leave /\ row.pending = a.seats[s].pending
      BY <1>5, FreeRow DEF Rows
    <2> HIDE DEF row, r
    <2>3. Step(a, r)
      BY <1>6, <2>1, <2>2, PlainSeatStep DEF Step
    <2> QED
      BY <1>6, <2>3 DEF Step
  <1>8. ASSUME ownsHand(db, s)
        PROVE  Step(db, pending)
    <2> DEFINE row == [db.seats[s] EXCEPT !.pending = amount]
    <2>1. /\ DOMAIN pending = DOMAIN db /\ pending.table = db.table /\ pending.hand = db.hand
          /\ DOMAIN pending.seats = Seats /\ pending.seats[s] = row
          /\ \A i \in Seats \ {s} : pending.seats[i] = db.seats[i]
      BY DEF TableInv, Held, Rows
    <2>2. /\ DOMAIN row = DOMAIN FreeSeat /\ row.user = db.seats[s].user
          /\ row.committed = db.seats[s].committed /\ row.leave = db.seats[s].leave
      BY FreeRow DEF TableInv, Held, Rows
    <2> HIDE DEF row, pending
    <2> QED
      BY <1>8, <2>1, <2>2, OwnSeatStep DEF TableInv
  <1> HIDE DEF r, pending
  <1> QED
    BY <1>1, <1>6, <1>7, <1>8

\* A player of the running hand bets, and the hand goes on or is settled.
LEMMA ActStep ==
  ASSUME TableInv, NEW s \in Seats, Act(s)
  PROVE  Step(db, db')
  <1>1. PICK amount : \E d \in persistEngine(Commit(db, s, amount)) : db' = d
    BY DEF Act, Commits
  <1>2. HandOpen(db) /\ s \in DOMAIN db.hand.players
    BY DEF Act, HandOpen
  <1> DEFINE c == Commit(db, s, amount)
  <1>3. Step(db, c) /\ c.hand = db.hand
    BY <1>2, CommitStep DEF TableInv
  <1>4. db' \in persistEngine(c)
    BY <1>1
  <1> HIDE DEF c
  <1>5. Held(c) /\ Deferred(c) /\ HandOpen(c)
    BY <1>2, <1>3, Owns DEF Step
  <1> QED
    BY <1>2, <1>4, <1>5, PersistStep DEF Step

\* Every command of a seated player is a step of the table.
LEMMA PlayerStep ==
  ASSUME TableInv, NEW s \in Seats, PlayerCommand(s)
  PROVE  Step(db, db')
  <1>1. CASE \E u \in Users, amount \in MinBuy..MaxBuy : s \in scene.seats /\ BuyIn(u, s, amount)
    BY <1>1, BuyInStep
  <1>2. CASE Connect(s) \/ Disconnect(s)
    BY <1>2, ConnectionStep
  <1>3. CASE RequestSitOut(s) \/ ResumeSeat(s)
    BY <1>3, AwayStep
  <1>4. CASE RequestSafeLeave(s)
    BY <1>4, LeaveStep DEF RequestSafeLeave, Commits, TableInv
  <1>5. CASE \E amount \in 1..MaxBuy : TopUp(s, amount)
    BY <1>5, TopUpStep
  <1>6. CASE Act(s)
    BY <1>6, ActStep
  <1> QED
    BY <1>1, <1>2, <1>3, <1>4, <1>5, <1>6 DEF PlayerCommand

\* Commands on the table's row.
LEMMA TableStep ==
  ASSUME NEW d, Held(d), Deferred(d), NEW e, DOMAIN e = DOMAIN d, DOMAIN e.table = DOMAIN d.table,
         e.table.button = d.table.button, e.table.started = d.table.started,
         e.seats = d.seats, e.hand = d.hand
  PROVE  Step(d, e)
  <1>1. Held(e)
    BY TableHeld
  <1>2. Deferred(e)
    BY Owns DEF Deferred, Seated
  <1> QED
    BY <1>1, <1>2, Owns DEF Step

\* The boundary as a step of its own.
LEMMA BoundaryStep ==
  ASSUME NEW d, NEW x, Held(x), x.hand = d.hand, NEW e \in boundary(x)
  PROVE  Step(d, e)
  <1>1. Held(e) /\ Deferred(e) /\ e.hand = x.hand
    BY BoundaryHeld DEF SameHand
  <1> QED
    BY <1>1, Owns DEF Step

\* The rows CLOSE_TABLE leaves to the boundary.
Closing(d) ==
    AllLeave([d EXCEPT !.table.state = "CLOSING", !.table.allow = FALSE, !.table.accepting = FALSE])

\* Marking everybody to leave changes neither the hand nor the chips.
LEMMA ClosingHeld ==
  ASSUME NEW d, Held(d)
  PROVE  LET x == Closing(d)
         IN  /\ Held(x) /\ x.hand = d.hand /\ x.wallet = d.wallet /\ x.withheld = d.withheld
             /\ \A s \in Seats : /\ x.seats[s].user = d.seats[s].user /\ x.seats[s].stack = d.seats[s].stack
                                 /\ x.seats[s].committed = d.seats[s].committed
                                 /\ x.seats[s].pending = d.seats[s].pending
  <1> DEFINE c == [d EXCEPT !.table.state = "CLOSING", !.table.allow = FALSE, !.table.accepting = FALSE]
             T == [s \in Seats |-> [c.seats[s] EXCEPT !.leave = s \in Seated(c)]]
             x == Closing(d)
  <1>1. x = [c EXCEPT !.seats = T]
    BY DEF Closing, AllLeave
  <1>2. /\ DOMAIN c = DOMAIN d /\ DOMAIN c.table = DOMAIN d.table /\ c.table.button = d.table.button
        /\ c.hand = d.hand /\ c.seats = d.seats /\ c.wallet = d.wallet /\ c.withheld = d.withheld
        /\ c.table.started = d.table.started
    BY DEF Held, Rows
  <1> HIDE DEF c
  <1>3. Held(c)
    BY <1>2, TableHeld
  <1>4. \A s \in Seats : /\ DOMAIN T[s] = DOMAIN FreeSeat
                         /\ T[s].user = c.seats[s].user /\ T[s].committed = c.seats[s].committed
                         /\ T[s].stack = c.seats[s].stack /\ T[s].pending = c.seats[s].pending
    BY <1>2, FreeRow DEF Held, Rows
  <1>5. DOMAIN T = Seats
    OBVIOUS
  <1> HIDE DEF T, x
  <1>6. Held(x) /\ x.seats = T /\ x.hand = c.hand /\ x.wallet = c.wallet /\ x.withheld = c.withheld
    BY <1>1, <1>3, <1>4, <1>5, SeatsHeld
  <1> QED
    BY <1>2, <1>4, <1>6 DEF x

\* Closing waits for the hand.
LEMMA CloseStep ==
  ASSUME TableInv, Close
  PROVE  Step(db, db')
  <1>1. db' \in boundary(Closing(db))
    BY DEF Close, Commits, Closing
  <1>2. Held(Closing(db)) /\ Closing(db).hand = db.hand
    BY ClosingHeld DEF TableInv
  <1> QED
    BY <1>1, <1>2, BoundaryStep

\* Every command of the host is a step of the table.
LEMMA HostStep ==
  ASSUME TableInv, HostCommand
  PROVE  Step(db, db')
  <1>1. CASE (\E accepting \in BOOLEAN : SetAccepting(accepting)) \/ Pause \/ Resume
    <2> DEFINE Kept(e) ==
                  /\ DOMAIN e = DOMAIN db /\ DOMAIN e.table = DOMAIN db.table
                  /\ e.table.button = db.table.button /\ e.table.started = db.table.started
                  /\ e.seats = db.seats /\ e.hand = db.hand
               paused == IF db.table.state \in {"WAITING", "INTERMISSION"} THEN "PAUSED" ELSE db.table.state
               resumed == IF db.table.state = "PAUSED" THEN "INTERMISSION" ELSE db.table.state
    <2>1. ASSUME NEW state, NEW allow, NEW accepting, NEW pause
          PROVE  /\ Kept([db EXCEPT !.table.accepting = accepting])
                 /\ Kept([db EXCEPT !.table.allow = allow, !.table.state = state])
                 /\ Kept([db EXCEPT !.table.allow = allow, !.table.pause = pause, !.table.state = state])
      BY DEF TableInv, Held, Rows
    <2> HIDE DEF Kept
    <2>2. Kept(db')
      <3>1. CASE \E accepting \in BOOLEAN : SetAccepting(accepting)
        BY <2>1, <3>1 DEF SetAccepting, Commits
      <3>2. CASE Pause
        <4>1. db' = [db EXCEPT !.table.allow = FALSE, !.table.state = paused]
          BY <3>2 DEF Pause, Commits
        <4> HIDE DEF paused
        <4> QED
          BY <2>1, <4>1
      <3>3. CASE Resume
        <4>1. db' = [db EXCEPT !.table.allow = TRUE, !.table.pause = Intermission,
                               !.table.state = resumed]
          BY <3>3 DEF Resume, Commits
        <4> HIDE DEF resumed
        <4> QED
          BY <2>1, <4>1
      <3> QED
        BY <1>1, <3>1, <3>2, <3>3
    <2> USE DEF Kept
    <2> QED
      BY <2>2, TableStep DEF TableInv
  <1>2. CASE Close
    BY <1>2, CloseStep
  <1>3. CASE \E s \in Seats : RemovePlayer(s)
    BY <1>3, LeaveStep DEF RemovePlayer, Commits, TableInv
  <1> QED
    BY <1>1, <1>2, <1>3 DEF HostCommand

\* So is every tick.
LEMMA TickStep ==
  ASSUME TableInv, Tick
  PROVE  Step(db, db')
  <1>1. CASE Deal
    BY <1>1, DealStep DEF Deal, Commits, TableInv
  <1>2. CASE TickTimeout
    BY <1>2, PersistStep DEF TickTimeout, Commits, TableInv, HandOpen
  <1>3. CASE TickResume
    <2>1. /\ db.hand.state = "PLAYING"
          /\ db' = [db EXCEPT !.hand.grace = -1, !.table.previous = "NONE",
                              !.table.state = ResumedState(db)]
      BY <1>3 DEF TickResume, Commits
    <2>2. /\ DOMAIN db' = DOMAIN db /\ DOMAIN db'.table = DOMAIN db.table
          /\ DOMAIN db'.hand = DOMAIN db.hand /\ db'.hand.state = db.hand.state
          /\ db'.hand.players = db.hand.players
          /\ db'.table.button = db.table.button /\ db'.seats = db.seats
      BY <2>1 DEF TableInv, Held, Rows
    <2>3. Rows(db') /\ HandOpen(db') = HandOpen(db)
      BY <2>2 DEF TableInv, Held, Rows, HandOpen
    <2> QED
      BY <2>2, <2>3, FrameStep DEF TableInv
  <1>4. CASE TickBoundary
    BY <1>4, BoundaryStep DEF TickBoundary, Commits, TableInv
  <1>5. CASE TickClose
    <2>1. db' = closeTableIfSettled(db)
      BY <1>5 DEF TickClose, Commits
    <2>2. Held(db') /\ db'.seats = db.seats /\ db'.hand = db.hand
      BY <2>1, CloseHeld DEF TableInv
    <2> QED
      BY <2>2, Owns DEF Step, TableInv, Deferred, Seated
  <1> QED
    BY <1>1, <1>2, <1>3, <1>4, <1>5 DEF Tick
-----------------------------------------------------------------------------
(* Restarts and time. *)

\* Rows with other ages and connections of the seats.
LEMMA AgesStep ==
  ASSUME NEW d, Held(d), Deferred(d), NEW T, DOMAIN T = Seats,
         \A s \in Seats : /\ DOMAIN T[s] = DOMAIN FreeSeat
                          /\ T[s].user = d.seats[s].user /\ T[s].committed = d.seats[s].committed
                          /\ T[s].leave = d.seats[s].leave /\ T[s].pending = d.seats[s].pending,
         NEW e, DOMAIN e = DOMAIN d, DOMAIN e.table = DOMAIN d.table, DOMAIN e.hand = DOMAIN d.hand,
         e.seats = T, e.table.button = d.table.button,
         e.hand.state = d.hand.state, e.hand.players = d.hand.players
  PROVE  Step(d, e)
  <1>1. Rows(e) /\ HandOpen(e) = HandOpen(d)
    BY DEF Held, Rows, HandOpen
  <1>2. \A s \in Seats : /\ e.seats[s].leave => d.seats[s].leave \/ ownsHand(d, s)
                         /\ e.seats[s].pending > 0 => d.seats[s].pending > 0 \/ ownsHand(d, s)
    OBVIOUS
  <1>3. \A s \in Seats : /\ e.seats[s].user = d.seats[s].user
                         /\ e.seats[s].committed = d.seats[s].committed
    OBVIOUS
  <1> QED
    BY <1>1, <1>2, <1>3, FrameStep

\* A crash loses only what is not committed.
LEMMA CrashStep ==
  ASSUME TableInv, Crash
  PROVE  Step(db, db')
  <1> DEFINE T == [s \in Seats |-> [db.seats[s] EXCEPT !.control = FALSE]]
  <1>1. db' = [db EXCEPT !.seats = T]
    BY DEF Crash
  <1>2. \A s \in Seats : /\ DOMAIN T[s] = DOMAIN FreeSeat
                         /\ T[s].user = db.seats[s].user /\ T[s].committed = db.seats[s].committed
                         /\ T[s].leave = db.seats[s].leave /\ T[s].pending = db.seats[s].pending
    BY FreeRow DEF TableInv, Held, Rows
  <1>3. DOMAIN T = Seats
    OBVIOUS
  <1> HIDE DEF T
  <1>4. DOMAIN db' = DOMAIN db /\ db'.seats = T /\ db'.table = db.table /\ db'.hand = db.hand
    BY <1>1 DEF TableInv, Held, Rows
  <1> QED
    BY <1>2, <1>3, <1>4, AgesStep DEF TableInv

\* Time changes only the ages.
LEMMA TimeStep ==
  ASSUME TableInv, TimePasses
  PROVE  Step(db, db')
  <1> DEFINE T == [s \in Seats |-> Aged(db.seats[s])]
             pause == Shorter(db.table.pause)
             empty == Older(db.table.empty, EmptyLimit)
             grace == Shorter(db.hand.grace)
  <1>1. db' = [db EXCEPT !.table.pause = pause, !.table.empty = empty, !.hand.grace = grace, !.seats = T]
    BY DEF TimePasses, Commits
  <1>2. \A s \in Seats : /\ DOMAIN T[s] = DOMAIN FreeSeat
                         /\ T[s].user = db.seats[s].user /\ T[s].committed = db.seats[s].committed
                         /\ T[s].leave = db.seats[s].leave /\ T[s].pending = db.seats[s].pending
    BY FreeRow DEF TableInv, Held, Rows, Aged
  <1>3. DOMAIN T = Seats
    OBVIOUS
  <1> HIDE DEF T, pause, empty, grace
  <1>4. /\ DOMAIN db' = DOMAIN db /\ db'.seats = T
        /\ DOMAIN db'.table = DOMAIN db.table /\ DOMAIN db'.hand = DOMAIN db.hand
        /\ db'.table.button = db.table.button
        /\ db'.hand.state = db.hand.state /\ db'.hand.players = db.hand.players
    BY <1>1 DEF TableInv, Held, Rows
  <1> QED
    BY <1>2, <1>3, <1>4, AgesStep DEF TableInv

\* Marking seats as disconnected changes nothing else of them.
LEMMA MarkStep ==
  ASSUME NEW d, Held(d), Deferred(d), NEW S
  PROVE  LET e == MarkDisconnected(d, S)
         IN  /\ Step(d, e) /\ e.table = d.table /\ e.hand = d.hand /\ DOMAIN e = DOMAIN d
             /\ e.seats = [s \in Seats |-> e.seats[s]]
  <1> DEFINE T == [s \in Seats |-> IF s \in S THEN SocketLost(d.seats[s]) ELSE d.seats[s]]
             e == MarkDisconnected(d, S)
  <1>1. e = [d EXCEPT !.seats = T]
    BY DEF MarkDisconnected
  <1>2. \A s \in Seats : /\ DOMAIN T[s] = DOMAIN FreeSeat
                         /\ T[s].user = d.seats[s].user /\ T[s].committed = d.seats[s].committed
                         /\ T[s].leave = d.seats[s].leave /\ T[s].pending = d.seats[s].pending
    BY FreeRow DEF Held, Rows, SocketLost
  <1>3. DOMAIN T = Seats /\ T = [s \in Seats |-> T[s]]
    OBVIOUS
  <1> HIDE DEF T, e
  <1>4. DOMAIN e = DOMAIN d /\ e.seats = T /\ e.table = d.table /\ e.hand = d.hand
    BY <1>1 DEF Held, Rows
  <1>5. Step(d, e)
    BY <1>2, <1>3, <1>4, AgesStep
  <1> QED
    BY <1>3, <1>4, <1>5 DEF e

\* A new actor deals a committed hand, or marks the players who lost their sockets.
LEMMA HydrateStep ==
  ASSUME TableInv, Hydrate
  PROVE  Step(db, db')
  <1>1. db' \in recoverMutation(db)
    BY DEF Hydrate
  <1>2. CASE db.hand.state = "SETTLED"
    BY <1>1, <1>2, MarkStep DEF recoverMutation, TableInv
  <1>3. CASE db.hand.state = "COMMITTED"
    BY <1>1, <1>3, DealStep DEF recoverMutation, TableInv
  <1>4. CASE db.hand.state \notin {"SETTLED", "COMMITTED"}
    <2> DEFINE m == MarkDisconnected(db, DOMAIN db.hand.players)
               grace == coalesce(m.hand.grace, GracePeriod)
               previous == recoveryPreviousState(db)
    <2>1. db' = [m EXCEPT !.hand.grace = grace, !.table.previous = previous, !.table.state = "RECOVERING"]
      BY <1>1, <1>4 DEF recoverMutation
    <2>2. Step(db, m) /\ m.table = db.table /\ m.hand = db.hand /\ DOMAIN m = DOMAIN db
      BY MarkStep DEF TableInv
    <2> HIDE DEF m, grace, previous
    <2>3. Held(m) /\ Deferred(m)
      BY <2>2 DEF Step
    <2>4. /\ DOMAIN db' = DOMAIN m /\ DOMAIN db'.table = DOMAIN m.table /\ DOMAIN db'.hand = DOMAIN m.hand
          /\ db'.seats = m.seats /\ db'.table.button = m.table.button
          /\ db'.hand.state = m.hand.state /\ db'.hand.players = m.hand.players
      BY <2>1, <2>3 DEF Held, Rows
    <2>5. DOMAIN m.seats = Seats /\ \A s \in Seats : DOMAIN m.seats[s] = DOMAIN FreeSeat
      BY <2>3 DEF Held, Rows
    <2>6. Step(m, db')
      BY <2>3, <2>4, <2>5, AgesStep
    <2> QED
      BY <2>2, <2>6 DEF Step
  <1> QED
    BY <1>2, <1>3, <1>4
-----------------------------------------------------------------------------

\* Every scene starts in TableInv.
LEMMA InitTable == Init => TableInv
  <1> SUFFICES ASSUME Init PROVE TableInv
    OBVIOUS
  <1>1. /\ db.hand.state = "SETTLED" /\ db.hand.players = [s \in {} |-> Nobody]
        /\ db.seats = [s \in Seats |-> FreeSeat] /\ Rows(db)
    BY DEF Init, Rows
  <1>2. ~HandOpen(db) /\ \A s : ~ownsHand(db, s)
    BY <1>1 DEF HandOpen, ownsHand
  <1>3. \A s \in Seats : HeldSeat(db, s)
    BY <1>1, <1>2, FreeRow DEF HeldSeat
  <1>4. Deferred(db)
    BY <1>1, FreeRow DEF Deferred, Seated
  <1> QED
    BY <1>1, <1>2, <1>3, <1>4 DEF TableInv, Held

\* Only StartHand opens a hand, and who joins it posts the big blind.
LEMMA NextTable ==
  ASSUME TableInv, [Next]_vars
  PROVE  TableInv' /\ (~HandOpen(db) /\ HandOpen(db') => Joined(db, db'))
  <1>1. CASE StartHand
    <2>1. ~HandOpen(db) /\ db' \in prepareHand(db)
      BY <1>1 DEF StartHand, Commits
    <2> QED
      BY <2>1, PrepareStep DEF TableInv
  <1>2. ASSUME Step(db, db') PROVE TableInv' /\ (~HandOpen(db) /\ HandOpen(db') => Joined(db, db'))
    BY <1>2 DEF Step, TableInv
  <1>3. CASE StartActor \/ UNCHANGED vars
    <2>1. db' = db
      BY <1>3 DEF StartActor, vars
    <2> QED
      BY <2>1 DEF TableInv
  <1>4. CASE \E s \in Seats : PlayerCommand(s)
    BY <1>2, <1>4, PlayerStep
  <1>5. CASE HostCommand
    BY <1>2, <1>5, HostStep
  <1>6. CASE Tick
    BY <1>2, <1>6, TickStep
  <1>7. CASE Crash
    BY <1>2, <1>7, CrashStep
  <1>8. CASE Hydrate
    BY <1>2, <1>8, HydrateStep
  <1>9. CASE TimePasses
    BY <1>2, <1>9, TimeStep
  <1> QED
    BY <1>1, <1>3, <1>4, <1>5, <1>6, <1>7, <1>8, <1>9 DEF Next

\* TableInv holds throughout.
LEMMA TableHolds == Spec => []TableInv
  <1>1. TableInv /\ [Next]_vars => TableInv'
    BY NextTable
  <1> QED
    BY InitTable, <1>1, PTL DEF Spec

\* Whatever is requested during a hand (leaving, removal by the host, the close of the
\* table, a long absence, a restart), a player dealt into it keeps the seat until it is
\* settled; no seat has chips in a pot that is not open to it; and a request to leave or
\* a pending top-up never outlives the hand it waited for.
THEOREM HandKeepsPlayersHolds == Spec => []HandKeepsPlayers
  <1>1. TableInv => HandKeepsPlayers
    BY DEF TableInv, Held, HeldSeat, Deferred, HandKeepsPlayers
  <1> QED
    BY TableHolds, <1>1, PTL

\* A player who waits for the big blind of a running table is dealt in only as its big
\* blind, with any number of seats: the small blind that EntrySeat computes before the
\* player joins is the one of the hand the player is in.
THEOREM JoinsAsBigBlindHolds == Spec => JoinsAsBigBlind
  <1> DEFINE Joins == \A s \in Seats :
          /\ ~HandOpen(db) /\ HandOpen(db') /\ db.table.started
          /\ ownsHand(db', s) /\ db.seats[s].state = "WAITING_BIG_BLIND"
          => \/ s = BigBlindSeat(db')
             \/ \A i \in DOMAIN db'.hand.players : db.seats[i].state = "WAITING_BIG_BLIND"
  <1>1. TableInv /\ [Next]_vars => [Joins]_vars
    BY NextTable DEF Joined
  <1> QED
    BY TableHolds, <1>1, PTL DEF Spec, JoinsAsBigBlind

(***************************************************************************)
(* ChipsConserved for every set of users and seats, every limit and every  *)
(* scene.  The invariant is TableInv of TableProofs with Sound, the types  *)
(* of the columns that hold chips; each command then keeps the sum Chips.  *)
(* Chips of a free seat or of a user without a wallet row would be lost in *)
(* a cash-out, so Sound says that there are none.                          *)
(***************************************************************************)
SoundSeat(q) ==
    /\ q.stack \in Nat /\ q.committed \in Nat /\ q.pending \in Nat
    /\ q.user \in Users \cup {Nobody}
    /\ q.user = Nobody => q.stack = 0 /\ q.pending = 0
Sound(d) ==
    /\ d.wallet \in [Users -> Int] /\ d.withheld \in Int
    /\ \A s \in Seats : SoundSeat(d.seats[s])

AtSeat(d) == [s \in Seats |-> d.seats[s].stack + d.seats[s].committed]
Chips(d) == SumFunctionOnSet(d.wallet, Users) + SumFunctionOnSet(AtSeat(d), Seats) + d.withheld

\* What a step does with the chips of the rows d.
Moves(d, e) == Sound(e) /\ Chips(e) = Chips(d)

\* There are finitely many seats and users.
LEMMA FiniteTable == IsFiniteSet(Seats) /\ IsFiniteSet(Users)
  <1>1. Seats \subseteq 1..9 /\ IsFiniteSet(Users)
    BY TableAssumption
  <1>2. Seats \in SUBSET Nat /\ \A s \in Seats : s <= 9
    BY <1>1
  <1>3. IsFiniteSet(Seats)
    BY <1>2, FS_BoundedSetOfNaturals
  <1> QED
    BY <1>1, <1>3

\* The three sums of sound rows are integers.
LEMMA SumsInt ==
  ASSUME NEW d, Sound(d)
  PROVE  /\ \A u \in Users : d.wallet[u] \in Int
         /\ \A s \in Seats : AtSeat(d)[s] \in Int
         /\ SumFunctionOnSet(d.wallet, Users) \in Int
         /\ SumFunctionOnSet(AtSeat(d), Seats) \in Int
         /\ d.withheld \in Int
  <1>1. \A u \in Users : d.wallet[u] \in Int
    BY DEF Sound
  <1>2. \A s \in Seats : AtSeat(d)[s] \in Int
    BY DEF Sound, SoundSeat, AtSeat
  <1> QED
    BY <1>1, <1>2, FiniteTable, SumInt DEF Sound

\* Steps that keep the chips compose.
LEMMA MovesOn ==
  ASSUME NEW d, NEW e, NEW f, Moves(d, e), Moves(e, f)
  PROVE  Moves(d, f)
  BY DEF Moves

\* Every change that leaves the columns of the chips and the players alone.
SameChips(d, e) ==
    /\ e.wallet = d.wallet /\ e.withheld = d.withheld
    /\ \A s \in Seats : /\ e.seats[s].user = d.seats[s].user /\ e.seats[s].stack = d.seats[s].stack
                        /\ e.seats[s].committed = d.seats[s].committed
                        /\ e.seats[s].pending = d.seats[s].pending

\* A step that leaves chips and wallets alone keeps the sum.
LEMMA SameMoves ==
  ASSUME NEW d, Sound(d), NEW e, SameChips(d, e)
  PROVE  Moves(d, e)
  <1>1. Sound(e)
    BY DEF SameChips, Sound, SoundSeat
  <1>2. AtSeat(e) = AtSeat(d)
    BY DEF SameChips, AtSeat
  <1> QED
    BY <1>1, <1>2 DEF SameChips, Moves, Chips
-----------------------------------------------------------------------------
(* Cash-outs and top-ups of several seats at once. *)

\* What each user is due for the amounts f of the seats in S, and each seat's part.
DueTo(S, f, owner) == [u \in Users |-> SumFunctionOnSet(f, {s \in S : owner[s] = u})]
DueFrom(S, f) == [s \in Seats |-> IF s \in S THEN f[s] ELSE 0]

\* What the users are due adds up to what the seats give.
LEMMA PaidBySeat ==
  ASSUME NEW S \in SUBSET Seats, NEW f \in [Seats -> Int], NEW owner, \A s \in S : owner[s] \in Users
  PROVE  /\ \A u \in Users : DueTo(S, f, owner)[u] \in Int
         /\ SumFunctionOnSet(DueTo(S, f, owner), Users) = SumFunctionOnSet(DueFrom(S, f), Seats)
  <1> DEFINE due == DueTo(S, f, owner)
  <1>1. IsFiniteSet(S) /\ IsFiniteSet(Users) /\ IsFiniteSet(Seats)
    BY FiniteTable, FS_Subset
  <1>2. ASSUME NEW u \in Users
        PROVE  due[u] \in Int
    <2> DEFINE R == {s \in S : owner[s] = u}
    <2>1. IsFiniteSet(R) /\ \A s \in R : f[s] \in Int
      BY <1>1, FS_Subset
    <2>2. due[u] = SumFunctionOnSet(f, R)
      BY DEF DueTo
    <2> HIDE DEF R
    <2> QED
      BY <2>1, <2>2, SumInt
  <1>3. SumFunctionOnSet(due, Users) = SumFunctionOnSet(f, S)
    <2>1. \A s \in S : f[s] \in Int
      OBVIOUS
    <2> QED
      BY <1>1, <2>1, SumPartition DEF DueTo
  <1>4. SumFunctionOnSet(DueFrom(S, f), Seats) = SumFunctionOnSet(f, S)
    <2> DEFINE g == DueFrom(S, f)
    <2>1. /\ \A s \in S : f[s] \in Int /\ g[s] = f[s]
          /\ \A s \in Seats \ S : g[s] = 0
      BY DEF DueFrom
    <2> HIDE DEF g
    <2>2. SumFunctionOnSet(g, Seats) = SumFunctionOnSet(f, S)
      BY <1>1, <2>1, SumWithin
    <2> QED
      BY <2>2 DEF g
  <1> QED
    BY <1>2, <1>3, <1>4

\* The chips of the seats in S go to their owners.
LEMMA CashOutChips ==
  ASSUME NEW d, Held(d), Sound(d), NEW S \in SUBSET Seats,
         \A s \in S : d.seats[s].user # Nobody /\ ~ownsHand(d, s)
  PROVE  Moves(d, CashOut(d, S))
  <1> DEFINE stack == [s \in Seats |-> d.seats[s].stack]
             owner == [s \in Seats |-> d.seats[s].user]
             due == DueTo(S, stack, owner)
             paid == DueFrom(S, stack)
             e == CashOut(d, S)
  <1>1. e.seats = [s \in Seats |-> IF s \in S THEN FreeSeat ELSE d.seats[s]]
    BY CashOutRows DEF Held
  <1>2. \A u \in Users : {s \in S : owner[s] = u} = {s \in S : d.seats[s].user = u}
    OBVIOUS
  <1>3. e.wallet = [u \in Users |-> d.wallet[u] + due[u]] /\ e.withheld = d.withheld
    <2> DEFINE W == [u \in Users |-> d.wallet[u] + SumFunctionOnSet(stack, {s \in S : d.seats[s].user = u})]
               T == [s \in Seats |-> IF s \in S THEN FreeSeat ELSE d.seats[s]]
    <2>1. e = [d EXCEPT !.wallet = W, !.seats = T]
      BY DEF CashOut
    <2>2. \A u \in Users : W[u] = d.wallet[u] + due[u]
      BY <1>2 DEF DueTo
    <2>3. W = [u \in Users |-> d.wallet[u] + due[u]]
      BY <2>2
    <2> HIDE DEF W, T, e, due
    <2> QED
      BY <2>1, <2>3 DEF Held, Rows
  <1> HIDE DEF e
  <1>4. /\ stack \in [Seats -> Int] /\ \A s \in S : owner[s] \in Users
    BY DEF Sound, SoundSeat
  <1>5. (\A u \in Users : due[u] \in Int) /\ SumFunctionOnSet(due, Users) = SumFunctionOnSet(paid, Seats)
    <2> HIDE DEF owner, stack
    <2> QED
      BY <1>4, PaidBySeat
  <1>6. \A s \in Seats : /\ AtSeat(d)[s] \in Int /\ AtSeat(e)[s] \in Int /\ paid[s] \in Int
                         /\ AtSeat(d)[s] = AtSeat(e)[s] + paid[s]
    <2>1. \A s \in S : d.seats[s].committed = 0
      BY DEF Held, HeldSeat, Sound, SoundSeat
    <2> QED
      BY <1>1, <2>1 DEF AtSeat, Sound, SoundSeat, FreeSeat, DueFrom
  <1>7. Sound(e)
    <2>1. SoundSeat(FreeSeat)
      BY DEF FreeSeat, SoundSeat
    <2>2. \A s \in Seats : SoundSeat(e.seats[s])
      BY <1>1, <2>1 DEF Sound
    <2>3. e.wallet \in [Users -> Int]
      <3> HIDE DEF due
      <3> QED
        BY <1>3, <1>5 DEF Sound
    <2> QED
      BY <1>3, <2>2, <2>3 DEF Sound
  <1>8. SumFunctionOnSet(e.wallet, Users) = SumFunctionOnSet(d.wallet, Users) + SumFunctionOnSet(due, Users)
    <2> HIDE DEF due
    <2>1. \A u \in Users : d.wallet[u] \in Int /\ e.wallet[u] = d.wallet[u] + due[u]
      BY <1>3 DEF Sound
    <2> QED
      BY <1>5, <2>1, FiniteTable, SumAdd
  <1>9. SumFunctionOnSet(AtSeat(d), Seats) = SumFunctionOnSet(AtSeat(e), Seats) + SumFunctionOnSet(paid, Seats)
    <2> HIDE DEF paid
    <2> QED
      BY <1>6, FiniteTable, SumAdd
  <1>10. SumFunctionOnSet(paid, Seats) \in Int
    <2> HIDE DEF paid
    <2> QED
      BY <1>6, FiniteTable, SumInt
  <1> HIDE DEF paid, due
  <1>11. Chips(e) = Chips(d)
    BY <1>3, <1>5, <1>7, <1>8, <1>9, <1>10, SumsInt DEF Chips
  <1> QED
    BY <1>7, <1>11 DEF Moves, e

\* The pending top-ups that are funded move from the wallets to the stacks.
LEMMA TopUpsChips ==
  ASSUME NEW d, Held(d), Sound(d)
  PROVE  Moves(d, PendingTopUps(d))
  <1> DEFINE S == {s \in Seats : TopUpAllowed(d, s, d.seats[s].pending)}
             pending == [s \in Seats |-> d.seats[s].pending]
             owner == [s \in Seats |-> d.seats[s].user]
             due == DueTo(S, pending, owner)
             added == DueFrom(S, pending)
             e == PendingTopUps(d)
  <1>1. \A s \in S : d.seats[s].pending > 0
    BY DEF TopUpAllowed
  <1> HIDE DEF S
  <1>2. S \in SUBSET Seats
    BY DEF S
  <1>3. /\ e.wallet = [u \in Users |-> d.wallet[u] - due[u]] /\ e.withheld = d.withheld
        /\ \A s \in Seats : /\ e.seats[s].stack = d.seats[s].stack + added[s]
                            /\ e.seats[s].committed = d.seats[s].committed
                            /\ e.seats[s].pending = 0 /\ e.seats[s].user = d.seats[s].user
    <2> DEFINE W == [u \in Users |-> d.wallet[u] - SumFunctionOnSet(pending, {s \in S : d.seats[s].user = u})]
               T == [s \in Seats |-> [d.seats[s] EXCEPT !.pending = 0,
                                        !.stack = @ + IF s \in S THEN pending[s] ELSE 0]]
    <2>1. e = [d EXCEPT !.wallet = W, !.seats = T]
      BY DEF PendingTopUps, S
    <2>2. \A u \in Users : {s \in S : owner[s] = u} = {s \in S : d.seats[s].user = u}
      BY <1>2
    <2>3. \A u \in Users : W[u] = d.wallet[u] - due[u]
      BY <2>2 DEF DueTo
    <2>4. W = [u \in Users |-> d.wallet[u] - due[u]]
      BY <2>3
    <2>5. \A s \in Seats : /\ T[s].stack = d.seats[s].stack + added[s]
                           /\ T[s].committed = d.seats[s].committed
                           /\ T[s].pending = 0 /\ T[s].user = d.seats[s].user
      BY FreeRow DEF Held, Rows, DueFrom
    <2> HIDE DEF W, T, e, due, added
    <2>6. e.wallet = W /\ e.seats = T /\ e.withheld = d.withheld
      BY <2>1 DEF Held, Rows
    <2> QED
      BY <2>4, <2>5, <2>6
  <1> HIDE DEF e
  <1>4. pending \in [Seats -> Int] /\ \A s \in S : owner[s] \in Users
    BY <1>1, <1>2 DEF Sound, SoundSeat
  <1>5. (\A u \in Users : due[u] \in Int) /\ SumFunctionOnSet(due, Users) = SumFunctionOnSet(added, Seats)
    <2> HIDE DEF owner, pending
    <2> QED
      BY <1>2, <1>4, PaidBySeat
  <1>6. \A s \in Seats : added[s] \in Nat /\ (d.seats[s].user = Nobody => added[s] = 0)
    BY <1>1 DEF Sound, SoundSeat, DueFrom
  <1> HIDE DEF added, due
  <1>7. \A s \in Seats : /\ AtSeat(d)[s] \in Int /\ AtSeat(e)[s] \in Int /\ added[s] \in Int
                         /\ AtSeat(e)[s] = AtSeat(d)[s] + added[s]
    BY <1>3, <1>6 DEF AtSeat, Sound, SoundSeat
  <1>8. Sound(e)
    <2>1. \A s \in Seats : SoundSeat(e.seats[s])
      BY <1>3, <1>6 DEF Sound, SoundSeat
    <2>2. e.wallet \in [Users -> Int]
      BY <1>3, <1>5 DEF Sound
    <2> QED
      BY <1>3, <2>1, <2>2 DEF Sound
  <1>9. SumFunctionOnSet(d.wallet, Users) = SumFunctionOnSet(e.wallet, Users) + SumFunctionOnSet(due, Users)
    <2>1. \A u \in Users : e.wallet[u] \in Int /\ d.wallet[u] = e.wallet[u] + due[u]
      BY <1>3, <1>5 DEF Sound
    <2> QED
      BY <1>5, <2>1, FiniteTable, SumAdd
  <1>10. SumFunctionOnSet(AtSeat(e), Seats) = SumFunctionOnSet(AtSeat(d), Seats) + SumFunctionOnSet(added, Seats)
    BY <1>7, FiniteTable, SumAdd
  <1>11. SumFunctionOnSet(added, Seats) \in Int
    BY <1>7, FiniteTable, SumInt
  <1>12. Chips(e) = Chips(d)
    BY <1>3, <1>5, <1>8, <1>9, <1>10, <1>11, SumsInt DEF Chips
  <1> QED
    BY <1>8, <1>12 DEF Moves, e
-----------------------------------------------------------------------------
(* The boundary. *)

\* Vacating seats pays out their stacks.
LEMMA VacateChips ==
  ASSUME NEW d, Held(d), Sound(d)
  PROVE  Moves(d, Vacate(d))
  <1> DEFINE leaving == {s \in BetweenHands(d) : MustLeave(d, s)}
             away == {s \in BetweenHands(d) \ leaving : SitsOut(d.seats[s])}
             c == CashOut(d, leaving)
             T == [s \in Seats |-> IF s \in away THEN SatOut(c.seats[s]) ELSE c.seats[s]]
             e == Vacate(d)
  <1>1. leaving \in SUBSET Seats /\ \A s \in leaving : d.seats[s].user # Nobody /\ ~ownsHand(d, s)
    BY DEF BetweenHands, Seated
  <1>2. e = [c EXCEPT !.seats = T]
    BY DEF Vacate
  <1> HIDE DEF leaving, away
  <1>3. Moves(d, c) /\ Rows(c)
    BY <1>1, CashOutChips, CashOutRows DEF Held
  <1>4. \A s \in Seats : DOMAIN c.seats[s] = DOMAIN FreeSeat
    BY <1>3 DEF Rows
  <1> HIDE DEF c
  <1>5. /\ DOMAIN T = Seats
        /\ \A s \in Seats : /\ T[s].user = c.seats[s].user /\ T[s].stack = c.seats[s].stack
                            /\ T[s].committed = c.seats[s].committed
                            /\ T[s].pending = c.seats[s].pending
    BY <1>4, FreeRow DEF SatOut
  <1> HIDE DEF T, e
  <1>6. e.seats = T /\ e.wallet = c.wallet /\ e.withheld = c.withheld
    BY <1>2, <1>3 DEF Rows
  <1>7. SameChips(c, e)
    BY <1>5, <1>6 DEF SameChips
  <1>8. Moves(c, e)
    BY <1>3, <1>7, SameMoves DEF Moves
  <1> QED
    BY <1>3, <1>8, MovesOn DEF e

\* Opening rebuys moves no chips.
LEMMA RebuysChips ==
  ASSUME NEW d, Held(d), Sound(d)
  PROVE  Moves(d, OpenRebuys(d))
  <1> DEFINE T == [s \in Seats |->
                     IF d.seats[s].stack = 0 /\ d.seats[s].state \notin {"REBUY_WINDOW", "LEFT"}
                     THEN [d.seats[s] EXCEPT !.state = "REBUY_WINDOW", !.rebuy = RebuyWindow]
                     ELSE d.seats[s]]
             e == OpenRebuys(d)
  <1>1. e = [d EXCEPT !.seats = T]
    BY DEF OpenRebuys
  <1>2. /\ DOMAIN T = Seats
        /\ \A s \in Seats : /\ T[s].user = d.seats[s].user /\ T[s].stack = d.seats[s].stack
                            /\ T[s].committed = d.seats[s].committed
                            /\ T[s].pending = d.seats[s].pending
    BY FreeRow DEF Held, Rows
  <1> HIDE DEF T, e
  <1>3. e.seats = T /\ e.wallet = d.wallet /\ e.withheld = d.withheld
    BY <1>1 DEF Held, Rows
  <1>4. SameChips(d, e)
    BY <1>2, <1>3 DEF SameChips
  <1> QED
    BY <1>4, SameMoves DEF e

\* Changes of the table's row and the hand.
LEMMA OtherRows ==
  ASSUME NEW d, Sound(d), NEW e, e.wallet = d.wallet, e.withheld = d.withheld, e.seats = d.seats
  PROVE  Moves(d, e)
  BY SameMoves DEF SameChips

\* Nor does the clock of an empty table.
LEMMA EmptyChips ==
  ASSUME NEW d, Held(d), Sound(d)
  PROVE  Moves(d, updateEmpty(d))
  <1> DEFINE e == updateEmpty(d)
             n == IF Seated(d) = {} /\ ~HandOpen(d) THEN coalesce(d.table.empty, 0) ELSE -1
  <1>1. e = [d EXCEPT !.table = [d.table EXCEPT !.empty = n]]
    BY DEF updateEmpty
  <1> HIDE DEF e, n
  <1>2. e.wallet = d.wallet /\ e.withheld = d.withheld /\ e.seats = d.seats
    BY <1>1 DEF Held, Rows
  <1> QED
    BY <1>2, OtherRows DEF e

\* Nor does closing a settled table.
LEMMA CloseChips ==
  ASSUME NEW d, Held(d), Sound(d)
  PROVE  Moves(d, closeTableIfSettled(d))
  <1> DEFINE e == closeTableIfSettled(d)
             row == [d.table EXCEPT !.state = "CLOSED", !.accepting = FALSE, !.allow = FALSE]
  <1>1. e = d \/ e = [d EXCEPT !.table = row]
    BY DEF closeTableIfSettled
  <1> HIDE DEF e, row
  <1>2. e.wallet = d.wallet /\ e.withheld = d.withheld /\ e.seats = d.seats
    BY <1>1 DEF Held, Rows
  <1> QED
    BY <1>2, OtherRows DEF e

\* The boundary after a hand conserves the chips.
LEMMA BoundaryChips ==
  ASSUME NEW d, Held(d), Sound(d), NEW e \in boundary(d)
  PROVE  Moves(d, e)
  <1> DEFINE v == Vacate(d)
             t == PendingTopUps(v)
             r == OpenRebuys(t)
             n == updateEmpty(r)
  <1>1. e = closeTableIfSettled(n) \/ e = n
    BY DEF boundary
  <1>2. Held(v) /\ Moves(d, v)
    BY VacateHeld, VacateChips
  <1> HIDE DEF v
  <1>3. Held(t) /\ Moves(v, t)
    BY <1>2, TopUpsHeld, TopUpsChips DEF Moves
  <1> HIDE DEF t
  <1>4. Held(r) /\ Moves(t, r)
    BY <1>3, RebuysHeld, RebuysChips DEF Moves
  <1> HIDE DEF r
  <1>5. Held(n) /\ Moves(r, n)
    BY <1>4, EmptyHeld, EmptyChips DEF Moves
  <1> HIDE DEF n
  <1>6. Moves(n, closeTableIfSettled(n)) /\ Moves(n, n)
    BY <1>5, CloseChips DEF Moves
  <1> QED
    BY <1>1, <1>2, <1>3, <1>4, <1>5, <1>6, MovesOn
-----------------------------------------------------------------------------
(* The pot. *)

\* Chips between the columns of one seat.
LEMMA SeatMoves ==
  ASSUME NEW d, Sound(d), NEW s \in Seats, NEW e,
         e.wallet = d.wallet, e.withheld = d.withheld,
         \A i \in Seats \ {s} : e.seats[i] = d.seats[i],
         SoundSeat(e.seats[s]),
         e.seats[s].stack + e.seats[s].committed = d.seats[s].stack + d.seats[s].committed
  PROVE  Moves(d, e)
  <1>1. Sound(e)
    BY DEF Sound
  <1>2. \A i \in Seats : AtSeat(e)[i] = AtSeat(d)[i]
    BY DEF AtSeat
  <1>3. AtSeat(e) = AtSeat(d)
    BY <1>2 DEF AtSeat
  <1> QED
    BY <1>1, <1>3 DEF Moves, Chips

\* The least of two numbers.
LEMMA LeastOf ==
  ASSUME NEW a \in Nat, NEW b \in Nat
  PROVE  Min({a, b}) = IF a <= b THEN a ELSE b
  <1> DEFINE m == IF a <= b THEN a ELSE b
             S == {a, b}
  <1>1. m \in S /\ \A y \in S : m <= y
    OBVIOUS
  <1>2. \A x \in S : (\A y \in S : x <= y) => x = m
    OBVIOUS
  <1> HIDE DEF m
  <1>3. Min(S) = m
    BY <1>1, <1>2 DEF Min
  <1> QED
    BY <1>3 DEF m

\* A bet moves from the stack to the pot.
LEMMA CommitChips ==
  ASSUME NEW d, Held(d), Sound(d), NEW s \in Seats, d.seats[s].user # Nobody, NEW amount \in Nat
  PROVE  Moves(d, Commit(d, s, amount))
  <1> DEFINE paid == Min({amount, d.seats[s].stack})
             e == Commit(d, s, amount)
  <1>1. e = [d EXCEPT !.seats[s].stack = @ - paid, !.seats[s].committed = @ + paid]
    BY DEF Commit
  <1>2. d.seats[s].stack \in Nat /\ d.seats[s].committed \in Nat
    BY DEF Sound, SoundSeat
  <1>3. paid \in Nat /\ paid <= d.seats[s].stack
    BY <1>2, LeastOf
  <1> HIDE DEF e, paid
  <1>4. /\ e.wallet = d.wallet /\ e.withheld = d.withheld
        /\ \A i \in Seats \ {s} : e.seats[i] = d.seats[i]
        /\ e.seats[s].stack = d.seats[s].stack - paid
        /\ e.seats[s].committed = d.seats[s].committed + paid
        /\ e.seats[s].pending = d.seats[s].pending /\ e.seats[s].user = d.seats[s].user
    BY <1>1, FreeRow DEF Held, Rows
  <1>5. SoundSeat(e.seats[s])
    BY <1>2, <1>3, <1>4 DEF Sound, SoundSeat
  <1>6. e.seats[s].stack + e.seats[s].committed = d.seats[s].stack + d.seats[s].committed
    BY <1>2, <1>3, <1>4
  <1> QED
    BY <1>4, <1>5, <1>6, SeatMoves DEF e

\* The awards and what the cap withholds are the pot.
LEMMA AwardsPot ==
  ASSUME NEW d, Held(d), Sound(d), HandOpen(d), NEW a \in Awards(d)
  PROVE  LET players == DOMAIN d.hand.players
             committed == [s \in players |-> d.seats[s].committed]
         IN  /\ a.withheld \in Nat /\ \A s \in players : a.award[s] \in Nat
             /\ SumFunctionOnSet(a.award, players) + a.withheld = SumFunctionOnSet(committed, players)
  <1> DEFINE players == DOMAIN d.hand.players
             committed == [s \in players |-> d.seats[s].committed]
             pot == SumFunctionOnSet(committed, players)
             one(w, kept) == [s \in players |-> IF s = w THEN pot - kept ELSE 0]
  <1>1. /\ players \subseteq Seats /\ IsFiniteSet(players)
        /\ \A s \in players : committed[s] \in Nat
    BY FiniteTable, FS_Subset DEF Held, Sound, SoundSeat
  <1>2. \/ a = [award |-> committed, withheld |-> 0]
        \/ \E w \in players, kept \in 0..pot : a = [award |-> one(w, kept), withheld |-> kept]
    BY DEF Awards
  <1> HIDE DEF players, committed
  <1>3. pot \in Nat
    BY <1>1, SumNat
  <1> HIDE DEF pot
  <1>4. CASE a = [award |-> committed, withheld |-> 0]
    <2>1. a.award = committed /\ a.withheld = 0
      BY <1>4
    <2>2. SumFunctionOnSet(a.award, players) + a.withheld = pot
      BY <1>3, <2>1 DEF pot
    <2> QED
      BY <1>1, <2>1, <2>2 DEF players, committed, pot
  <1>5. CASE \E w \in players, kept \in 0..pot : a = [award |-> one(w, kept), withheld |-> kept]
    <2>1. PICK w \in players, kept \in 0..pot : a = [award |-> one(w, kept), withheld |-> kept]
      BY <1>5
    <2> DEFINE g == one(w, kept)
    <2>2. a.award = g /\ a.withheld = kept /\ kept \in Nat /\ pot - kept \in Nat
      BY <1>3, <2>1
    <2>3. \A s \in players : g[s] \in Nat
      BY <2>2
    <2>4. w \in players /\ g[w] = pot - kept /\ g[w] \in Int /\ \A s \in players \ {w} : g[s] = 0
      BY <2>2
    <2> HIDE DEF g
    <2>5. SumFunctionOnSet(g, players) = g[w]
      BY <1>1, <2>4, SumSingle
    <2>7. SumFunctionOnSet(a.award, players) + a.withheld = pot
      BY <1>3, <2>2, <2>4, <2>5
    <2> QED
      BY <2>2, <2>3, <2>7 DEF players, committed, pot
  <1> QED
    BY <1>2, <1>4, <1>5

\* A settlement, before its boundary.
LEMMA SettledChips ==
  ASSUME NEW d, Held(d), Sound(d), HandOpen(d), NEW a \in Awards(d), NEW T
  PROVE  Moves(d, HandSettled(d, a, T))
  <1> DEFINE players == DOMAIN d.hand.players
             committed == [s \in players |-> d.seats[s].committed]
             x == HandSettled(d, a, T)
             lost == [s \in Seats |-> IF s \in players THEN committed[s] ELSE 0]
             won == [s \in Seats |-> IF s \in players THEN a.award[s] ELSE 0]
             rest == [s \in Seats |-> d.seats[s].stack]
  <1>1. /\ a.withheld \in Nat /\ \A s \in players : a.award[s] \in Nat
        /\ SumFunctionOnSet(a.award, players) + a.withheld = SumFunctionOnSet(committed, players)
    BY AwardsPot
  <1>2. players \in SUBSET Seats /\ IsFiniteSet(Seats)
    BY FiniteTable DEF Held
  <1>3. /\ x.wallet = d.wallet /\ x.withheld = d.withheld + a.withheld
        /\ \A s \in Seats : /\ x.seats[s].user = d.seats[s].user
                            /\ x.seats[s].pending = d.seats[s].pending
                            /\ x.seats[s].stack = IF s \in players THEN d.seats[s].stack + a.award[s]
                                                  ELSE d.seats[s].stack
                            /\ x.seats[s].committed = IF s \in players THEN 0 ELSE d.seats[s].committed
    BY FreeRow DEF Held, Rows, HandSettled
  <1>4. \A s \in Seats : /\ d.seats[s].stack \in Nat /\ d.seats[s].committed \in Nat
                         /\ s \notin players => d.seats[s].committed = 0
                         /\ s \in players => d.seats[s].user # Nobody
    BY DEF Sound, SoundSeat, Held, HeldSeat, ownsHand
  <1>5. \A s \in Seats : SoundSeat(x.seats[s])
    BY <1>1, <1>3, <1>4 DEF Sound, SoundSeat
  <1>6. Sound(x)
    BY <1>1, <1>3, <1>5 DEF Sound
  <1>7. \A s \in Seats : /\ rest[s] \in Int /\ lost[s] \in Int /\ won[s] \in Int
                         /\ AtSeat(d)[s] = rest[s] + lost[s] /\ AtSeat(x)[s] = rest[s] + won[s]
    BY <1>1, <1>3, <1>4 DEF AtSeat
  <1>8. /\ \A s \in players : committed[s] \in Int /\ lost[s] = committed[s]
        /\ \A s \in players : a.award[s] \in Int /\ won[s] = a.award[s]
        /\ \A s \in Seats \ players : lost[s] = 0 /\ won[s] = 0
    BY <1>1, <1>2, <1>4
  <1> HIDE DEF players, committed, x, lost, won, rest
  <1>9. /\ SumFunctionOnSet(lost, Seats) = SumFunctionOnSet(committed, players)
        /\ SumFunctionOnSet(won, Seats) = SumFunctionOnSet(a.award, players)
    BY <1>2, <1>8, SumWithin
  <1>10. /\ SumFunctionOnSet(AtSeat(d), Seats) = SumFunctionOnSet(rest, Seats) + SumFunctionOnSet(lost, Seats)
         /\ SumFunctionOnSet(AtSeat(x), Seats) = SumFunctionOnSet(rest, Seats) + SumFunctionOnSet(won, Seats)
    BY <1>2, <1>7, SumAdd
  <1>11. /\ SumFunctionOnSet(rest, Seats) \in Int /\ SumFunctionOnSet(lost, Seats) \in Int
         /\ SumFunctionOnSet(won, Seats) \in Int
    BY <1>2, <1>7, SumInt
  <1>12. Chips(x) = Chips(d)
    BY <1>1, <1>3, <1>9, <1>10, <1>11, SumsInt DEF Chips
  <1> QED
    BY <1>6, <1>12 DEF Moves, x

\* A settlement divides the pot.
LEMMA SettlementChips ==
  ASSUME NEW d, Held(d), Sound(d), HandOpen(d), NEW e \in Settlements(d)
  PROVE  Moves(d, e)
  <1>1. PICK a \in Awards(d), T \in IF Offered("TIMEOUT") THEN SUBSET DOMAIN d.hand.players ELSE {{}} :
           e \in boundary(HandSettled(d, a, T))
    BY DEF Settlements
  <1> DEFINE x == HandSettled(d, a, T)
  <1>2. Held(x) /\ Moves(d, x)
    BY SettledHeld, SettledChips
  <1>3. Moves(x, e)
    BY <1>1, <1>2, BoundaryChips DEF Moves
  <1> QED
    BY <1>2, <1>3, MovesOn

\* So does what the engine leaves behind, whatever it did.
LEMMA PersistChips ==
  ASSUME NEW d, Held(d), Sound(d), HandOpen(d), NEW e \in persistEngine(d)
  PROVE  Moves(d, e)
  <1>1. e = d \/ e \in Settlements(d)
    BY DEF persistEngine
  <1> QED
    BY <1>1, SettlementChips DEF Moves

\* A player of the hand moves chips into the pot.
LEMMA PlayerCommits ==
  ASSUME NEW d, Held(d), Sound(d), HandOpen(d), NEW s \in DOMAIN d.hand.players, NEW amount \in Nat
  PROVE  LET e == Commit(d, s, amount)
         IN  Held(e) /\ HandOpen(e) /\ e.hand = d.hand /\ Moves(d, e)
  <1>1. s \in Seats /\ d.seats[s].user # Nobody
    BY DEF Held, HeldSeat, ownsHand
  <1> DEFINE e == Commit(d, s, amount)
  <1>2. Held(e) /\ e.hand = d.hand
    BY CommitStep
  <1>3. Moves(d, e)
    BY <1>1, CommitChips
  <1> HIDE DEF e
  <1> QED
    BY <1>2, <1>3, Owns DEF e

\* Posting the blinds conserves the chips.
LEMMA DealChips ==
  ASSUME NEW d, Held(d), Sound(d), d.hand.state = "COMMITTED", NEW e \in dealHand(d)
  PROVE  Moves(d, e)
  <1> DEFINE a == [d EXCEPT !.hand.state = "PLAYING"]
             b == Commit(a, SmallBlindSeat(d), SmallBlind)
             c == Commit(b, BigBlindSeat(d), BigBlind)
  <1>1. HandOpen(d)
    BY DEF HandOpen
  <1>2. /\ DOMAIN a = DOMAIN d /\ DOMAIN a.hand = DOMAIN d.hand /\ a.table = d.table /\ a.seats = d.seats
        /\ a.hand.state = "PLAYING" /\ a.hand.players = d.hand.players
        /\ a.wallet = d.wallet /\ a.withheld = d.withheld
    BY DEF Held, Rows
  <1> HIDE DEF a
  <1>3. HandOpen(a) /\ Rows(a) /\ \A s : ownsHand(a, s) = ownsHand(d, s)
    BY <1>1, <1>2 DEF HandOpen, ownsHand, Held, Rows
  <1>4. Held(a)
    BY <1>1, <1>2, <1>3 DEF Held, HeldSeat
  <1>5. Moves(d, a)
    BY <1>2, OtherRows
  <1>6. /\ SmallBlindSeat(d) \in DOMAIN d.hand.players /\ BigBlindSeat(d) \in DOMAIN d.hand.players
        /\ SmallBlind \in Nat /\ BigBlind \in Nat
    BY <1>1, NextSeatIn, TableAssumption DEF Held, SmallBlindSeat, BigBlindSeat
  <1>7. Held(b) /\ HandOpen(b) /\ b.hand = a.hand /\ Moves(a, b)
    BY <1>2, <1>3, <1>4, <1>5, <1>6, PlayerCommits DEF Moves
  <1> HIDE DEF b
  <1>8. Held(c) /\ HandOpen(c) /\ Moves(b, c)
    BY <1>2, <1>6, <1>7, PlayerCommits DEF Moves
  <1>9. e \in persistEngine(c)
    BY DEF dealHand, a, b
  <1> HIDE DEF c
  <1>10. Moves(c, e)
    BY <1>8, <1>9, PersistChips DEF Moves
  <1> QED
    BY <1>5, <1>7, <1>8, <1>10, MovesOn

\* A new hand only marks its players.
LEMMA PrepareChips ==
  ASSUME NEW d, Held(d), Sound(d), NEW e \in prepareHand(d)
  PROVE  Moves(d, e)
  <1>1. PICK b \in boundary(d) : \E players, button : e = Freeze(b, players, button)
    BY DEF prepareHand
  <1>2. PICK players, button : e = Freeze(b, players, button)
    BY <1>1
  <1>3. Held(b) /\ Moves(d, b)
    BY BoundaryHeld, BoundaryChips
  <1> DEFINE T == [s \in Seats |->
                     IF s \in players THEN [b.seats[s] EXCEPT !.state = "ACTIVE"] ELSE b.seats[s]]
  <1>4. e.seats = T /\ e.wallet = b.wallet /\ e.withheld = b.withheld
    BY <1>2, <1>3 DEF Freeze, Held, Rows
  <1>5. \A s \in Seats : /\ T[s].user = b.seats[s].user /\ T[s].stack = b.seats[s].stack
                         /\ T[s].committed = b.seats[s].committed
                         /\ T[s].pending = b.seats[s].pending
    BY <1>3, FreeRow DEF Held, Rows
  <1> HIDE DEF T
  <1>6. SameChips(b, e)
    BY <1>4, <1>5 DEF SameChips
  <1>7. Moves(b, e)
    BY <1>3, <1>6, SameMoves DEF Moves
  <1> QED
    BY <1>3, <1>7, MovesOn
-----------------------------------------------------------------------------
(* The commands. *)

\* One seat's row, the columns of its chips and player excepted.
LEMMA PlainRow ==
  ASSUME NEW d, Held(d), Sound(d), NEW s \in Seats, NEW row,
         row.user = d.seats[s].user, row.stack = d.seats[s].stack,
         row.committed = d.seats[s].committed, row.pending = d.seats[s].pending,
         NEW e, e = [d EXCEPT !.seats[s] = row]
  PROVE  Moves(d, e)
  <1>1. /\ e.wallet = d.wallet /\ e.withheld = d.withheld
        /\ e.seats[s] = row /\ \A i \in Seats \ {s} : e.seats[i] = d.seats[i]
    BY DEF Held, Rows
  <1>2. SameChips(d, e)
    BY <1>1 DEF SameChips
  <1> QED
    BY <1>2, SameMoves

\* amount moves from the wallet of u to the seat s.
LEMMA FromWallet ==
  ASSUME NEW d, Sound(d), NEW s \in Seats, NEW u \in Users, NEW amount \in Nat, NEW e,
         e.wallet = [d.wallet EXCEPT ![u] = @ - amount], e.withheld = d.withheld,
         \A i \in Seats \ {s} : e.seats[i] = d.seats[i],
         SoundSeat(e.seats[s]),
         e.seats[s].stack + e.seats[s].committed = d.seats[s].stack + d.seats[s].committed + amount
  PROVE  Moves(d, e)
  <1>1. /\ e.wallet \in [Users -> Int] /\ e.wallet[u] = d.wallet[u] - amount
        /\ \A x \in Users \ {u} : e.wallet[x] = d.wallet[x]
    BY DEF Sound
  <1>2. Sound(e)
    BY <1>1 DEF Sound
  <1>3. /\ \A x \in Users : d.wallet[x] \in Int /\ e.wallet[x] \in Int
        /\ \A i \in Seats : AtSeat(d)[i] \in Int /\ AtSeat(e)[i] \in Int
    BY <1>2, SumsInt
  <1>4. AtSeat(e)[s] = AtSeat(d)[s] + amount /\ \A i \in Seats \ {s} : AtSeat(e)[i] = AtSeat(d)[i]
    BY DEF AtSeat
  <1>5. SumFunctionOnSet(e.wallet, Users) = SumFunctionOnSet(d.wallet, Users) + (e.wallet[u] - d.wallet[u])
    BY <1>1, <1>3, FiniteTable, SumUpdate
  <1>6. SumFunctionOnSet(AtSeat(e), Seats) = SumFunctionOnSet(AtSeat(d), Seats) + (AtSeat(e)[s] - AtSeat(d)[s])
    BY <1>3, <1>4, FiniteTable, SumUpdate
  <1>7. d.wallet[u] \in Int /\ AtSeat(d)[s] \in Int
    BY <1>3
  <1>8. Chips(e) = Chips(d)
    BY <1>1, <1>2, <1>4, <1>5, <1>6, <1>7, SumsInt DEF Chips
  <1> QED
    BY <1>2, <1>8 DEF Moves

\* Leaving pays out the stack, at once or at the boundary.
LEMMA LeaveChips ==
  ASSUME NEW d, Held(d), Sound(d), NEW s \in Seated(d)
  PROVE  Moves(d, Leave(d, s))
  <1>1. CASE ownsHand(d, s)
    <2> DEFINE row == [d.seats[s] EXCEPT !.state = "LEAVE_AFTER_HAND", !.leave = TRUE]
               e == [d EXCEPT !.seats[s] = row]
    <2>1. /\ row.user = d.seats[s].user /\ row.stack = d.seats[s].stack /\ row.committed = d.seats[s].committed
          /\ row.pending = d.seats[s].pending /\ DOMAIN row = DOMAIN FreeSeat /\ s \in Seats
      BY FreeRow DEF Held, Rows, Seated
    <2>2. Leave(d, s) = updateEmpty(e)
      BY <1>1, <2>1 DEF Leave, Held, Rows
    <2> HIDE DEF row
    <2>3. Moves(d, e)
      BY <2>1, PlainRow
    <2>4. Held(e)
      <3>1. /\ DOMAIN e = DOMAIN d /\ e.table = d.table /\ e.hand = d.hand /\ DOMAIN e.seats = Seats
            /\ e.seats[s] = row /\ \A i \in Seats \ {s} : e.seats[i] = d.seats[i]
        BY <2>1 DEF Held, Rows
      <3> HIDE DEF e
      <3>2. Rows(e) /\ e.table.button = d.table.button
        BY <2>1, <3>1 DEF Held, Rows
      <3> QED
        BY <2>1, <3>1, <3>2, HeldFrame
    <2> HIDE DEF e
    <2>5. Moves(e, updateEmpty(e))
      BY <2>3, <2>4, EmptyChips DEF Moves
    <2> QED
      BY <2>2, <2>3, <2>5, MovesOn
  <1>2. CASE ~ownsHand(d, s)
    <2> DEFINE e == CashOut(d, {s})
    <2>1. {s} \in SUBSET Seats /\ \A i \in {s} : d.seats[i].user # Nobody /\ ~ownsHand(d, i)
      BY <1>2 DEF Seated
    <2>2. Held(e) /\ Moves(d, e)
      BY <2>1, CashOutHeld, CashOutChips
    <2> HIDE DEF e
    <2>3. Moves(e, updateEmpty(e))
      BY <2>2, EmptyChips DEF Moves
    <2> QED
      BY <1>2, <2>2, <2>3, MovesOn DEF Leave, e
  <1> QED
    BY <1>1, <1>2

\* A buy-in moves from the wallet to the stack.
LEMMA BuyInChips ==
  ASSUME TableInv, Sound(db), NEW u \in Users, NEW s \in Seats, NEW amount \in Nat, BuyIn(u, s, amount)
  PROVE  Moves(db, db')
  <1> DEFINE row == [FreeSeat EXCEPT !.user = u, !.stack = amount, !.disconnected = 0,
                        !.state = IF db.table.started THEN "WAITING_BIG_BLIND" ELSE "ACTIVE"]
  <1>1. /\ s \notin Seated(db)
        /\ db' = [db EXCEPT !.wallet[u] = @ - amount, !.table.empty = -1, !.seats[s] = row]
    BY DEF BuyIn, Commits
  <1>2. row.user = u /\ row.stack = amount /\ row.committed = 0 /\ row.pending = 0
    BY DEF FreeSeat
  <1> HIDE DEF row
  <1>3. /\ db'.wallet = [db.wallet EXCEPT ![u] = @ - amount] /\ db'.withheld = db.withheld
        /\ db'.seats[s] = row /\ \A i \in Seats \ {s} : db'.seats[i] = db.seats[i]
    BY <1>1 DEF TableInv, Held, Rows
  <1>4. SoundSeat(db'.seats[s])
    BY <1>2, <1>3, TableAssumption DEF SoundSeat
  <1>5. db.seats[s].stack = 0 /\ db.seats[s].committed = 0
    BY <1>1 DEF TableInv, Held, HeldSeat, Seated, Sound, SoundSeat
  <1>6. db'.seats[s].stack + db'.seats[s].committed = db.seats[s].stack + db.seats[s].committed + amount
    BY <1>2, <1>3, <1>5
  <1> QED
    BY <1>3, <1>4, <1>6, FromWallet

\* A top-up does too, or waits for the boundary.
LEMMA TopUpChips ==
  ASSUME TableInv, Sound(db), NEW s \in Seats, NEW amount \in Nat, TopUp(s, amount)
  PROVE  Moves(db, db')
  <1> DEFINE u == db.seats[s].user
             a == AddChips(db, s, amount)
             r == Rebought(a, s)
             pending == [db EXCEPT !.seats[s].pending = amount]
  <1>1. /\ s \in Seated(db)
        /\ db' = pending \/ db' = r \/ db' = a
    BY DEF TopUp, Commits
  <1>2. u \in Users /\ u # Nobody
    BY <1>1 DEF Seated, Sound, SoundSeat
  <1>3. Moves(db, a) /\ Rows(a)
    <2>1. /\ a.wallet = [db.wallet EXCEPT ![u] = @ - amount] /\ a.withheld = db.withheld
          /\ a.seats = [db.seats EXCEPT ![s].stack = @ + amount]
          /\ DOMAIN a = DOMAIN db /\ a.table = db.table /\ a.hand = db.hand
      BY DEF AddChips, TableInv, Held, Rows
    <2> HIDE DEF a
    <2>2. /\ a.seats[s].stack = db.seats[s].stack + amount /\ a.seats[s].committed = db.seats[s].committed
          /\ a.seats[s].pending = db.seats[s].pending /\ a.seats[s].user = u
          /\ \A i \in Seats \ {s} : a.seats[i] = db.seats[i]
      BY <2>1, FreeRow DEF TableInv, Held, Rows
    <2>3. SoundSeat(a.seats[s])
      BY <1>2, <2>2 DEF Sound, SoundSeat
    <2>4. a.seats[s].stack + a.seats[s].committed = db.seats[s].stack + db.seats[s].committed + amount
      BY <2>2 DEF Sound, SoundSeat
    <2>5. Rows(a)
      BY <2>1 DEF TableInv, Held, Rows
    <2>6. u \in Users /\ a.withheld = db.withheld /\ a.wallet = [db.wallet EXCEPT ![u] = @ - amount]
      BY <1>2, <2>1
    <2> HIDE DEF u
    <2>7. Moves(db, a)
      BY <2>2, <2>3, <2>4, <2>6, FromWallet
    <2> QED
      BY <2>5, <2>7
  <1> HIDE DEF a, u
  <1>4. Moves(db, r)
    <2> DEFINE row == [a.seats[s] EXCEPT !.state = "WAITING_BIG_BLIND", !.rebuy = -1]
    <2>1. r = [a EXCEPT !.seats[s] = row]
      BY <1>3 DEF Rebought, Rows
    <2>2. /\ row.user = a.seats[s].user /\ row.stack = a.seats[s].stack
          /\ row.committed = a.seats[s].committed /\ row.pending = a.seats[s].pending
      BY <1>3, FreeRow DEF Rows
    <2> HIDE DEF row, r
    <2>3. r.wallet = a.wallet /\ r.withheld = a.withheld /\ r.seats[s] = row
          /\ \A i \in Seats \ {s} : r.seats[i] = a.seats[i]
      BY <1>3, <2>1 DEF Rows
    <2>4. SameChips(a, r)
      BY <2>2, <2>3 DEF SameChips
    <2>5. Moves(a, r)
      BY <1>3, <2>4, SameMoves DEF Moves
    <2> QED
      BY <1>3, <2>5, MovesOn
  <1>5. Moves(db, pending)
    <2> DEFINE row == [db.seats[s] EXCEPT !.pending = amount]
    <2>1. /\ pending.wallet = db.wallet /\ pending.withheld = db.withheld
          /\ pending.seats[s] = row /\ \A i \in Seats \ {s} : pending.seats[i] = db.seats[i]
      BY DEF TableInv, Held, Rows
    <2>2. /\ row.user = u /\ row.stack = db.seats[s].stack
          /\ row.committed = db.seats[s].committed /\ row.pending = amount
      BY FreeRow DEF TableInv, Held, Rows, u
    <2> HIDE DEF row, pending
    <2>3. SoundSeat(pending.seats[s])
      BY <1>2, <2>1, <2>2 DEF Sound, SoundSeat
    <2> QED
      BY <2>1, <2>2, <2>3, SeatMoves
  <1> HIDE DEF r, pending
  <1> QED
    BY <1>1, <1>3, <1>4, <1>5

\* An action conserves the chips.
LEMMA ActChips ==
  ASSUME TableInv, Sound(db), NEW s \in Seats, Act(s)
  PROVE  Moves(db, db')
  <1>1. PICK amount \in 0..db.seats[s].stack : \E d \in persistEngine(Commit(db, s, amount)) : db' = d
    BY DEF Act, Commits
  <1>2. HandOpen(db) /\ s \in DOMAIN db.hand.players
    BY DEF Act, HandOpen
  <1>3. amount \in Nat
    BY DEF Sound, SoundSeat
  <1> DEFINE c == Commit(db, s, amount)
  <1>4. Held(c) /\ HandOpen(c) /\ Moves(db, c)
    BY <1>2, <1>3, PlayerCommits DEF TableInv
  <1>5. db' \in persistEngine(c)
    BY <1>1
  <1> HIDE DEF c
  <1>6. Moves(c, db')
    BY <1>4, <1>5, PersistChips DEF Moves
  <1> QED
    BY <1>4, <1>6, MovesOn

\* Commands on the times, the states and the connection of a seat.
LEMMA SeatChips ==
  ASSUME TableInv, Sound(db), NEW s \in Seats,
         Connect(s) \/ Disconnect(s) \/ RequestSitOut(s) \/ ResumeSeat(s)
  PROVE  Moves(db, db')
  <1> DEFINE q == db.seats[s]
             Plain(row) == /\ row.user = q.user /\ row.stack = q.stack
                           /\ row.committed = q.committed /\ row.pending = q.pending
             base == IF ownsHand(db, s) THEN q ELSE SatOut(q)
             age == IF ownsHand(db, s) /\ db.hand.state = "COMMITTED"
                    THEN q.disconnected ELSE coalesce(q.disconnected, 0)
             up == [q EXCEPT !.control = TRUE, !.disconnected = -1]
             down == [q EXCEPT !.control = FALSE, !.disconnected = age]
             out == [base EXCEPT !.sitOutNext = TRUE]
             back == [q EXCEPT !.state = "WAITING_BIG_BLIND", !.sitOutNext = FALSE,
                               !.sitOut = -1, !.timeoutOut = FALSE]
  <1>1. DOMAIN q = DOMAIN FreeSeat
    BY DEF TableInv, Held, Rows
  <1>2. Plain(up) /\ Plain(down) /\ Plain(back)
    BY <1>1, FreeRow
  <1>3. Plain(out)
    <2>1. DOMAIN base = DOMAIN FreeSeat /\ Plain(base)
      BY <1>1, FreeRow DEF SatOut
    <2> HIDE DEF base
    <2> QED
      BY <2>1, FreeRow
  <1>4. \E row \in {up, down, out, back} : db' = [db EXCEPT !.seats[s] = row]
    <2>1. CASE Connect(s)
      <3>1. db' = [db EXCEPT !.seats[s] = up]
        BY <2>1 DEF Connect, Commits
      <3> QED
        BY <3>1
    <2>2. CASE Disconnect(s)
      <3>1. db' = [db EXCEPT !.seats[s] = down]
        BY <2>2 DEF Disconnect, Commits
      <3> QED
        BY <3>1
    <2>3. CASE RequestSitOut(s)
      <3>1. db' = [db EXCEPT !.seats[s] = out]
        BY <2>3 DEF RequestSitOut, Commits
      <3> QED
        BY <3>1
    <2>4. CASE ResumeSeat(s)
      <3>1. db' = [db EXCEPT !.seats[s] = back]
        BY <2>4 DEF ResumeSeat, Commits
      <3> QED
        BY <3>1
    <2> QED
      BY <2>1, <2>2, <2>3, <2>4
  <1> HIDE DEF up, down, out, back
  <1>5. PICK row \in {up, down, out, back} : db' = [db EXCEPT !.seats[s] = row]
    BY <1>4
  <1>6. Plain(row)
    BY <1>2, <1>3
  <1> QED
    BY <1>5, <1>6, PlainRow DEF TableInv

\* Every command of a seated player does.
LEMMA PlayerChips ==
  ASSUME TableInv, Sound(db), NEW s \in Seats, PlayerCommand(s)
  PROVE  Moves(db, db')
  <1>1. CASE \E u \in Users, amount \in MinBuy..MaxBuy : s \in scene.seats /\ BuyIn(u, s, amount)
    <2>1. MinBuy..MaxBuy \subseteq Nat
      BY TableAssumption
    <2> QED
      BY <1>1, <2>1, BuyInChips
  <1>2. CASE Connect(s) \/ Disconnect(s) \/ RequestSitOut(s) \/ ResumeSeat(s)
    BY <1>2, SeatChips
  <1>3. CASE RequestSafeLeave(s)
    BY <1>3, LeaveChips DEF RequestSafeLeave, Commits, TableInv
  <1>4. CASE \E amount \in 1..MaxBuy : TopUp(s, amount)
    <2>1. 1..MaxBuy \subseteq Nat
      BY TableAssumption
    <2> QED
      BY <1>4, <2>1, TopUpChips
  <1>5. CASE Act(s)
    BY <1>5, ActChips
  <1> QED
    BY <1>1, <1>2, <1>3, <1>4, <1>5 DEF PlayerCommand

\* Every command of the host does.
LEMMA HostChips ==
  ASSUME TableInv, Sound(db), HostCommand
  PROVE  Moves(db, db')
  <1>1. CASE (\E accepting \in BOOLEAN : SetAccepting(accepting)) \/ Pause \/ Resume
    <2>1. db'.wallet = db.wallet /\ db'.withheld = db.withheld /\ db'.seats = db.seats
      BY <1>1 DEF SetAccepting, Pause, Resume, Commits, TableInv, Held, Rows
    <2> QED
      BY <2>1, OtherRows
  <1>2. CASE Close
    <2> DEFINE x == Closing(db)
    <2>1. db' \in boundary(x)
      BY <1>2 DEF Close, Commits, Closing
    <2>2. Held(x) /\ SameChips(db, x)
      BY ClosingHeld DEF TableInv, SameChips
    <2> HIDE DEF x
    <2>3. Moves(db, x)
      BY <2>2, SameMoves
    <2>4. Moves(x, db')
      BY <2>1, <2>2, <2>3, BoundaryChips DEF Moves
    <2> QED
      BY <2>3, <2>4, MovesOn
  <1>3. CASE \E s \in Seats : RemovePlayer(s)
    BY <1>3, LeaveChips DEF RemovePlayer, Commits, TableInv
  <1> QED
    BY <1>1, <1>2, <1>3 DEF HostCommand

\* Every tick does.
LEMMA TickChips ==
  ASSUME TableInv, Sound(db), Tick
  PROVE  Moves(db, db')
  <1>1. CASE Deal
    BY <1>1, DealChips DEF Deal, Commits, TableInv
  <1>2. CASE TickTimeout
    BY <1>2, PersistChips DEF TickTimeout, Commits, TableInv, HandOpen
  <1>3. CASE TickResume
    <2>1. db'.wallet = db.wallet /\ db'.withheld = db.withheld /\ db'.seats = db.seats
      BY <1>3 DEF TickResume, Commits, TableInv, Held, Rows
    <2> QED
      BY <2>1, OtherRows
  <1>4. CASE TickBoundary
    BY <1>4, BoundaryChips DEF TickBoundary, Commits, TableInv
  <1>5. CASE TickClose
    BY <1>5, CloseChips DEF TickClose, Commits, TableInv
  <1> QED
    BY <1>1, <1>2, <1>3, <1>4, <1>5 DEF Tick

\* Seats with other connections and times.
LEMMA SeatsChips ==
  ASSUME NEW d, Held(d), Sound(d), NEW T,
         \A s \in Seats : /\ T[s].user = d.seats[s].user /\ T[s].stack = d.seats[s].stack
                          /\ T[s].committed = d.seats[s].committed
                          /\ T[s].pending = d.seats[s].pending,
         NEW e, e.wallet = d.wallet, e.withheld = d.withheld, e.seats = T
  PROVE  Moves(d, e)
  BY SameMoves DEF SameChips

\* Marking seats as disconnected moves no chips.
LEMMA MarkChips ==
  ASSUME NEW d, Held(d), Sound(d), NEW S
  PROVE  Moves(d, MarkDisconnected(d, S)) /\ Rows(MarkDisconnected(d, S))
  <1> DEFINE T == [s \in Seats |-> IF s \in S THEN SocketLost(d.seats[s]) ELSE d.seats[s]]
             e == MarkDisconnected(d, S)
  <1>1. e = [d EXCEPT !.seats = T]
    BY DEF MarkDisconnected
  <1>2. \A s \in Seats : /\ T[s].user = d.seats[s].user /\ T[s].stack = d.seats[s].stack
                         /\ T[s].committed = d.seats[s].committed
                         /\ T[s].pending = d.seats[s].pending /\ DOMAIN T[s] = DOMAIN FreeSeat
    BY FreeRow DEF Held, Rows, SocketLost
  <1>3. DOMAIN T = Seats
    OBVIOUS
  <1> HIDE DEF T, e
  <1>4. /\ e.seats = T /\ e.wallet = d.wallet /\ e.withheld = d.withheld /\ DOMAIN e = DOMAIN d
        /\ e.table = d.table /\ e.hand = d.hand
    BY <1>1 DEF Held, Rows
  <1> QED
    BY <1>2, <1>3, <1>4, SeatsChips DEF e, Held, Rows

\* A restart loses none: what is not committed took none.
LEMMA RestartChips ==
  ASSUME TableInv, Sound(db), Crash \/ Hydrate \/ TimePasses
  PROVE  Moves(db, db')
  <1>1. CASE Crash
    <2> DEFINE T == [s \in Seats |-> [db.seats[s] EXCEPT !.control = FALSE]]
    <2>1. db' = [db EXCEPT !.seats = T]
      BY <1>1 DEF Crash
    <2>2. \A s \in Seats : /\ T[s].user = db.seats[s].user /\ T[s].stack = db.seats[s].stack
                           /\ T[s].committed = db.seats[s].committed
                           /\ T[s].pending = db.seats[s].pending
      BY FreeRow DEF TableInv, Held, Rows
    <2> HIDE DEF T
    <2>3. db'.seats = T /\ db'.wallet = db.wallet /\ db'.withheld = db.withheld
      BY <2>1 DEF TableInv, Held, Rows
    <2> QED
      BY <2>2, <2>3, SeatsChips DEF TableInv
  <1>2. CASE TimePasses
    <2> DEFINE T == [s \in Seats |-> Aged(db.seats[s])]
               pause == Shorter(db.table.pause)
               empty == Older(db.table.empty, EmptyLimit)
               grace == Shorter(db.hand.grace)
    <2>1. db' = [db EXCEPT !.table.pause = pause, !.table.empty = empty, !.hand.grace = grace, !.seats = T]
      BY <1>2 DEF TimePasses, Commits
    <2>2. \A s \in Seats : /\ T[s].user = db.seats[s].user /\ T[s].stack = db.seats[s].stack
                           /\ T[s].committed = db.seats[s].committed
                           /\ T[s].pending = db.seats[s].pending
      BY FreeRow DEF TableInv, Held, Rows, Aged
    <2> HIDE DEF T, pause, empty, grace
    <2>3. db'.seats = T /\ db'.wallet = db.wallet /\ db'.withheld = db.withheld
      BY <2>1 DEF TableInv, Held, Rows
    <2> QED
      BY <2>2, <2>3, SeatsChips DEF TableInv
  <1>3. CASE Hydrate
    <2>1. db' \in recoverMutation(db)
      BY <1>3 DEF Hydrate
    <2>2. CASE db.hand.state = "SETTLED"
      BY <2>1, <2>2, MarkChips DEF recoverMutation, TableInv
    <2>3. CASE db.hand.state = "COMMITTED"
      BY <2>1, <2>3, DealChips DEF recoverMutation, TableInv
    <2>4. CASE db.hand.state \notin {"SETTLED", "COMMITTED"}
      <3> DEFINE m == MarkDisconnected(db, DOMAIN db.hand.players)
                 grace == coalesce(m.hand.grace, GracePeriod)
                 previous == recoveryPreviousState(db)
      <3>1. db' = [m EXCEPT !.hand.grace = grace, !.table.previous = previous, !.table.state = "RECOVERING"]
        BY <2>1, <2>4 DEF recoverMutation
      <3>2. Moves(db, m) /\ Rows(m)
        BY MarkChips DEF TableInv
      <3> HIDE DEF m, grace, previous
      <3>3. db'.wallet = m.wallet /\ db'.withheld = m.withheld /\ db'.seats = m.seats
        BY <3>1, <3>2 DEF Rows
      <3>4. Moves(m, db')
        BY <3>2, <3>3, OtherRows DEF Moves
      <3> QED
        BY <3>2, <3>4, MovesOn
    <2> QED
      BY <2>2, <2>3, <2>4
  <1> QED
    BY <1>1, <1>2, <1>3
-----------------------------------------------------------------------------
ChipInv == Sound(db) /\ Chips(db) = SumFunctionOnSet(scene.purse, Users)

\* A scene starts with all chips in the purses.
LEMMA InitChips == Init => ChipInv
  <1> SUFFICES ASSUME Init PROVE ChipInv
    OBVIOUS
  <1>1. /\ db.seats = [s \in Seats |-> FreeSeat] /\ db.wallet = scene.purse /\ db.withheld = 0
        /\ scene \in Scenes
    BY DEF Init
  <1>2. scene.purse \in [Users -> Nat]
    BY <1>1, TableAssumption
  <1>3. db.wallet \in [Users -> Int]
    BY <1>1, <1>2
  <1>4. \A s \in Seats : SoundSeat(db.seats[s])
    BY <1>1 DEF FreeSeat, SoundSeat
  <1>5. Sound(db)
    BY <1>1, <1>3, <1>4 DEF Sound
  <1>6. \A s \in Seats : AtSeat(db)[s] = 0
    BY <1>1 DEF AtSeat, FreeSeat
  <1>7. SumFunctionOnSet(AtSeat(db), Seats) = 0
    <2>1. \A s \in Seats \ {} : AtSeat(db)[s] = 0
      BY <1>6
    <2>2. \A s \in {} : AtSeat(db)[s] \in Int /\ AtSeat(db)[s] = AtSeat(db)[s]
      OBVIOUS
    <2>3. SumFunctionOnSet(AtSeat(db), Seats) = SumFunctionOnSet(AtSeat(db), {})
      BY <2>1, <2>2, FiniteTable, SumWithin
    <2> QED
      BY <2>3, SumEmpty
  <1> QED
    BY <1>1, <1>5, <1>7, SumsInt DEF ChipInv, Chips

\* Every step conserves the chips.
LEMMA NextChips ==
  ASSUME TableInv, ChipInv, [Next]_vars
  PROVE  ChipInv'
  <1>1. Sound(db)
    BY DEF ChipInv
  <1>2. scene' = scene
    BY DEF Next, vars, PlayerCommand, HostCommand, Tick, BuyIn, Connect, Disconnect, RequestSitOut,
           ResumeSeat, RequestSafeLeave, TopUp, Act, SetAccepting, Pause, Resume, Close, RemovePlayer,
           StartHand, Deal, TickTimeout, TickResume, TickBoundary, TickClose, Crash, StartActor, Hydrate,
           TimePasses, Commits
  <1>3. Moves(db, db')
    <2>1. CASE StartHand
      BY <1>1, <2>1, PrepareChips DEF StartHand, Commits, TableInv
    <2>2. CASE StartActor \/ UNCHANGED vars
      BY <1>1, <2>2 DEF StartActor, vars, Moves
    <2>3. CASE \E s \in Seats : PlayerCommand(s)
      BY <1>1, <2>3, PlayerChips
    <2>4. CASE HostCommand
      BY <1>1, <2>4, HostChips
    <2>5. CASE Tick
      BY <1>1, <2>5, TickChips
    <2>6. CASE Crash \/ Hydrate \/ TimePasses
      BY <1>1, <2>6, RestartChips
    <2> QED
      BY <2>1, <2>2, <2>3, <2>4, <2>5, <2>6 DEF Next
  <1> QED
    BY <1>2, <1>3 DEF ChipInv, Moves

\* No buy-in, top-up, rebuy, pot, settlement, cash-out or restart makes or loses a chip:
\* what the users hold in their wallets and at the table and what the asset cap withheld
\* is what they came with.
THEOREM ChipsConservedHolds == Spec => []ChipsConserved
  <1>1. ChipInv => ChipsConserved
    BY DEF ChipInv, Chips, AtSeat, ChipsConserved
  <1>2. TableInv /\ ChipInv /\ [Next]_vars => ChipInv'
    BY NextChips
  <1> QED
    BY InitChips, TableHolds, <1>1, <1>2, PTL DEF Spec

=============================================================================
