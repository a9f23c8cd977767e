---------------------------- MODULE EngineProofs ----------------------------
(***************************************************************************)
(* Theorems about PokerEngine, for every table, every stacks, blinds and   *)
(* rankings: a short all-in does not reopen the raising; absence is        *)
(* charged once the hand ends and never for the time of a recovery; what   *)
(* legal offers is accepted and keeps the audit of validate; and settle    *)
(* pays each stake what it met in the pots, in the order of the hands.     *)
(***************************************************************************)
EXTENDS PokerEngine, SumTheorems

HandFields == {"street", "button", "actor", "currentBet", "lastFullRaise", "fullRaises", "late",
               "recovery", "pots", "returned", "rank", "players"}
PlayerFields == {"initial", "stack", "street", "total", "paid", "folded", "acted", "pending",
                 "timeouts", "timeoutOut", "gone", "goneOut"}
BettingStreets == Streets \ {"SETTLED"}

Shaped(s) ==
    /\ DOMAIN s = HandFields
    /\ \A i \in In(s) : DOMAIN s.players[i] = PlayerFields /\ s.players[i].gone \in BOOLEAN

Numbers(s) ==
    /\ s.currentBet \in Int /\ s.lastFullRaise \in Int /\ s.fullRaises \in Int
    /\ \A i \in In(s) : /\ s.players[i].stack \in Int /\ s.players[i].street \in Int
                        /\ s.players[i].acted \in Int

\* Nobody is above the bet; and the bet has grown by a big blind above whoever
\* acted before the last full raise.
Answered(s, i) ==
    LET p == s.players[i]
    IN  /\ p.street <= s.currentBet
        /\ p.acted # -1 => /\ p.acted <= s.fullRaises
                           /\ p.acted < s.fullRaises => s.currentBet - p.street >= BigBlind
Betting(s) == s.lastFullRaise >= BigBlind /\ \A i \in In(s) : Answered(s, i)

Undealt(s) ==
    /\ Cardinality(In(s)) >= 2 /\ In(s) \subseteq 1..9 /\ s.button \in In(s)
    /\ s.lastFullRaise = BigBlind /\ s.fullRaises = 0 /\ s.recovery = "NONE"
    /\ \A i \in In(s) : s.players[i].street = 0 /\ s.players[i].acted = -1
Away(s) == \A i \in In(s) : s.players[i].gone => s.players[i].goneOut

EngineInv(s) ==
    /\ Shaped(s) /\ s.street \in Streets \cup {"COMMITTED"}
    /\ s.street # "SETTLED" => Numbers(s)
    /\ s.street = "COMMITTED" => Undealt(s)
    /\ s.street \in BettingStreets => Betting(s) /\ s.actor \in In(s)
    /\ s.street = "SETTLED" => Away(s)

\* What an operation leaves of a hand: its seats, their connections, its recovery.
Frame(n, s) ==
    /\ DOMAIN n = DOMAIN s /\ In(n) = In(s) /\ n.recovery = s.recovery
    /\ \A i \in In(s) : /\ DOMAIN n.players[i] = DOMAIN s.players[i]
                        /\ n.players[i].gone = s.players[i].gone

\* A street goes on with every bet, or the next one starts, or the hand is over.
Follows(m, s) ==
    /\ Shaped(m) /\ m.recovery = s.recovery
    /\ m.street \in Streets
    /\ m.street # "SETTLED" => Numbers(m) /\ Betting(m)
    /\ m.street = "SETTLED" => Away(m)
    /\ m.street = s.street => m.currentBet = s.currentBet
\* What the actor's chips, then the bet above the current one, then the record of the
\* action change.
MovedTo(n, s, target) ==
    /\ Shaped(n) /\ Numbers(n) /\ In(n) = In(s) /\ n.street = s.street
    /\ n.recovery = s.recovery /\ n.actor = s.actor /\ n.currentBet = s.currentBet
    /\ n.lastFullRaise = s.lastFullRaise /\ n.fullRaises = s.fullRaises
    /\ n.players[s.actor].street = target
    /\ \A j \in In(s) \ {s.actor} : n.players[j] = s.players[j]
RaisedTo(m, n, target) ==
    /\ DOMAIN m = HandFields /\ In(m) = In(n) /\ m.street = n.street /\ m.recovery = n.recovery
    /\ m.actor = n.actor
    /\ \A j \in In(n) : /\ DOMAIN m.players[j] = PlayerFields
                         /\ m.players[j].gone = n.players[j].gone
                         /\ m.players[j].stack = n.players[j].stack
                         /\ m.players[j].street = n.players[j].street
                         /\ m.players[j].acted = n.players[j].acted
    /\ target <= n.currentBet => /\ m.currentBet = n.currentBet /\ m.fullRaises = n.fullRaises
                                  /\ m.lastFullRaise = n.lastFullRaise
    /\ target > n.currentBet =>
          /\ m.currentBet = target
          /\ IF target - n.currentBet >= n.lastFullRaise
             THEN m.fullRaises = n.fullRaises + 1 /\ m.lastFullRaise = target - n.currentBet
             ELSE m.fullRaises = n.fullRaises /\ m.lastFullRaise = n.lastFullRaise
ActedTo(k, s, target) ==
    /\ DOMAIN k = HandFields /\ In(k) = In(s) /\ k.street = s.street /\ k.recovery = s.recovery
    /\ \A j \in In(s) : /\ DOMAIN k.players[j] = PlayerFields
                         /\ k.players[j].gone \in BOOLEAN /\ k.players[j].stack \in Int
    /\ k.players[s.actor].street = target /\ k.players[s.actor].acted = k.fullRaises
    /\ \A j \in In(s) \ {s.actor} : /\ k.players[j].street = s.players[j].street
                                    /\ k.players[j].acted = s.players[j].acted
    /\ target <= s.currentBet => /\ k.currentBet = s.currentBet /\ k.fullRaises = s.fullRaises
                                  /\ k.lastFullRaise = s.lastFullRaise
    /\ target > s.currentBet =>
          /\ k.currentBet = target
          /\ IF target - s.currentBet >= s.lastFullRaise
             THEN k.fullRaises = s.fullRaises + 1 /\ k.lastFullRaise = target - s.currentBet
             ELSE k.fullRaises = s.fullRaises /\ k.lastFullRaise = s.lastFullRaise
-----------------------------------------------------------------------------
\* What Min and Max of two numbers are.
LEMMA MinTwo ==
  ASSUME NEW a \in Int, NEW b \in Int
  PROVE  Min({a, b}) = IF a <= b THEN a ELSE b
  <1> DEFINE c == IF a <= b THEN a ELSE b
  <1>1. c \in {a, b} /\ \A y \in {a, b} : c <= y
    OBVIOUS
  <1>2. \A x \in {a, b} : (\A y \in {a, b} : x <= y) => x = c
    OBVIOUS
  <1> HIDE DEF c
  <1>3. Min({a, b}) = c
    BY <1>1, <1>2 DEF Min
  <1> QED
    BY <1>3 DEF c

LEMMA MaxTwo ==
  ASSUME NEW a \in Int, NEW b \in Int
  PROVE  Max({a, b}) = IF a <= b THEN b ELSE a
  <1> DEFINE c == IF a <= b THEN b ELSE a
  <1>1. c \in {a, b} /\ \A y \in {a, b} : c >= y
    OBVIOUS
  <1>2. \A x \in {a, b} : (\A y \in {a, b} : x >= y) => x = c
    OBVIOUS
  <1> HIDE DEF c
  <1>3. Max({a, b}) = c
    BY <1>1, <1>2 DEF Max
  <1> QED
    BY <1>3 DEF c

\* nextSeat finds one of the seats, and another than the one it starts from.
LEMMA NextSeat ==
  ASSUME NEW S \in SUBSET (1..9), S # {}, NEW after \in Int
  PROVE  /\ nextSeat(S, after) \in S
         /\ S # {after} => nextSeat(S, after) # after
  <1> DEFINE above == {i \in S : i > after}
  <1>1. \A T \in SUBSET (1..9) : T # {} => Min(T) \in T /\ \A j \in T : Min(T) <= j
    <2> SUFFICES ASSUME NEW T \in SUBSET (1..9), T # {}
                 PROVE  Min(T) \in T /\ \A j \in T : Min(T) <= j
      OBVIOUS
    <2>1. \E m \in T : \A j \in T : m <= j
      BY Smallest
    <2> QED
      BY <2>1 DEF Min
  <1>2. CASE above # {}
    <2>1. nextSeat(S, after) = Min(above)
      BY <1>2 DEF nextSeat
    <2>2. Min(above) \in above
      BY <1>1, <1>2
    <2> QED
      BY <2>1, <2>2
  <1>3. CASE above = {}
    <2>1. nextSeat(S, after) = Min(S)
      BY <1>3 DEF nextSeat
    <2>2. Min(S) \in S /\ \A j \in S : Min(S) <= j
      BY <1>1
    <2>3. \A j \in S : j <= after
      BY <1>3
    <2>4. ASSUME S # {after} PROVE Min(S) # after
      <3>1. PICK j \in S : j # after
        BY <2>4
      <3>2. PICK k : k = Min(S)
        OBVIOUS
      <3>3. k \in S /\ \A x \in 1..9 : x \in Int
        BY <2>2, <3>2
      <3>4. k \in Int /\ j \in Int
        BY <3>3
      <3>5. k <= j /\ j <= after
        BY <2>2, <2>3, <3>2
      <3>6. k # after
        BY <3>1, <3>4, <3>5
      <3> QED
        BY <3>2, <3>6
    <2> QED
      BY <2>1, <2>2, <2>4
  <1> QED
    BY <1>2, <1>3
-----------------------------------------------------------------------------
\* The settlement ends the hand and sits out whoever is away.
LEMMA Settled ==
  ASSUME NEW s, Shaped(s), s.street \in BettingStreets, NEW m \in settle(s)
  PROVE  Follows(m, s) /\ m.street = "SETTLED"
  <1>1. PICK n : m = PayOut(n) /\ \E rank : n = Divide(Showdown(s, rank))
    BY DEF settle
  <1>2. Frame(ReturnUncalled(s), s)
    <2>1. CASE ReturnUncalled(s) = s
      BY <2>1 DEF Frame, Shaped
    <2>2. CASE ReturnUncalled(s) # s
      <3>1. PICK i, amount : ReturnUncalled(s)
               = [s EXCEPT !.returned[i] = amount,
                           !.players[i].stack = @ + amount,
                           !.players[i].total = @ - amount,
                           !.players[i].street = @ - Min({@, amount})]
        BY <2>2 DEF ReturnUncalled
      <3> QED
        BY <3>1 DEF Frame, Shaped, In, HandFields, PlayerFields
    <2> QED
      BY <2>1, <2>2
  <1>3. Frame(n, s)
    <2>1. PICK rank : n = Divide(Showdown(s, rank))
      BY <1>1
    <2>2. Frame(Showdown(s, rank), s)
      BY <1>2 DEF Showdown, Frame, Shaped, In, HandFields
    <2> QED
      BY <2>1, <2>2 DEF Divide, Frame, Shaped, In, HandFields
  <1>4. /\ DOMAIN m = DOMAIN n /\ m.recovery = n.recovery /\ m.street = "SETTLED"
        /\ m.players = [i \in In(n) |-> CleanUp([n.players[i] EXCEPT !.stack = @ + Awarded(n, i)])]
    BY <1>1, <1>3 DEF PayOut, Frame, Shaped, HandFields
  <1>5. ASSUME NEW i \in In(s)
        PROVE  /\ DOMAIN m.players[i] = PlayerFields /\ m.players[i].gone = s.players[i].gone
               /\ m.players[i].gone => m.players[i].goneOut
    <2>1. m.players[i] = CleanUp([n.players[i] EXCEPT !.stack = @ + Awarded(n, i)])
      BY <1>3, <1>4 DEF Frame
    <2>2. DOMAIN n.players[i] = PlayerFields /\ n.players[i].gone = s.players[i].gone
      BY <1>3 DEF Frame, Shaped
    <2>3. s.players[i].gone \in BOOLEAN
      BY DEF Shaped
    <2> QED
      BY <2>1, <2>2, <2>3 DEF CleanUp, PlayerFields
  <1>6. In(m) = In(s)
    BY <1>3, <1>4 DEF In, Frame
  <1>7. Shaped(m) /\ Away(m)
    BY <1>3, <1>4, <1>5, <1>6 DEF Shaped, Away, Frame
  <1>8. m.recovery = s.recovery /\ m.street # s.street /\ "SETTLED" \in Streets
    BY <1>3, <1>4 DEF Frame, BettingStreets, Streets
  <1> QED
    BY <1>4, <1>7, <1>8 DEF Follows

\* Only the seats still to act change when the round of progress starts.
LEMMA PendingOnly ==
  ASSUME NEW s, Shaped(s), s.street \in BettingStreets, Numbers(s), Betting(s),
         NEW n, n = ClearPending(s)
  PROVE  Shaped(n) /\ Numbers(n) /\ Betting(n) /\ n.street = s.street /\ n.recovery = s.recovery
         /\ n.currentBet = s.currentBet /\ In(n) = In(s)
  <1>1. n = [s EXCEPT !.players = [i \in In(s) |-> [s.players[i] EXCEPT !.pending =
                @ /\ s.players[i].stack # 0 /\ ~s.players[i].folded]]]
    BY DEF ClearPending, UpdateAll
  <1>2. /\ DOMAIN n = HandFields /\ n.street = s.street /\ n.recovery = s.recovery
        /\ n.currentBet = s.currentBet /\ n.lastFullRaise = s.lastFullRaise
        /\ n.fullRaises = s.fullRaises /\ In(n) = In(s)
    BY <1>1 DEF Shaped, HandFields, In
  <1>3. ASSUME NEW i \in In(s)
        PROVE  /\ DOMAIN n.players[i] = PlayerFields /\ n.players[i].gone = s.players[i].gone
               /\ n.players[i].stack = s.players[i].stack /\ n.players[i].street = s.players[i].street
               /\ n.players[i].acted = s.players[i].acted
    <2>1. n.players = [j \in In(s) |-> [s.players[j] EXCEPT !.pending =
                          @ /\ s.players[j].stack # 0 /\ ~s.players[j].folded]]
      BY <1>1 DEF Shaped, HandFields
    <2>2. n.players[i] = [s.players[i] EXCEPT !.pending =
                              @ /\ s.players[i].stack # 0 /\ ~s.players[i].folded]
      BY <2>1
    <2> QED
      BY <2>2 DEF Shaped, PlayerFields
  <1> QED
    BY <1>2, <1>3 DEF Shaped, Numbers, Betting, Answered

\* On a new street nobody has acted and nothing is bet.
LEMMA NewStreet ==
  ASSUME NEW s, Shaped(s), s.street \in BettingStreets \ {"RIVER"}, Numbers(s),
         NEW m, m = nextStreet(s)
  PROVE  Follows(m, s) /\ m.street \in BettingStreets /\ m.street # s.street
  <1>1. m = [[s EXCEPT !.players = [i \in In(s) |-> [s.players[i] EXCEPT !.street = 0, !.acted = -1,
                !.pending = ~s.players[i].folded /\ s.players[i].stack > 0]]]
                EXCEPT !.street = FollowingStreet[@], !.currentBet = 0,
                       !.lastFullRaise = BigBlind, !.fullRaises = 0]
    BY DEF nextStreet, UpdateAll
  <1>2. /\ DOMAIN m = HandFields /\ m.street = FollowingStreet[s.street] /\ m.recovery = s.recovery
        /\ m.currentBet = 0 /\ m.lastFullRaise = BigBlind /\ m.fullRaises = 0 /\ In(m) = In(s)
    BY <1>1 DEF Shaped, HandFields, In
  <1>3. ASSUME NEW i \in In(s)
        PROVE  /\ DOMAIN m.players[i] = PlayerFields /\ m.players[i].gone = s.players[i].gone
               /\ m.players[i].stack = s.players[i].stack /\ m.players[i].street = 0
               /\ m.players[i].acted = -1
    <2>1. m.players = [j \in In(s) |-> [s.players[j] EXCEPT !.street = 0, !.acted = -1,
                          !.pending = ~s.players[j].folded /\ s.players[j].stack > 0]]
      BY <1>1 DEF Shaped, HandFields
    <2>2. m.players[i] = [s.players[i] EXCEPT !.street = 0, !.acted = -1,
                              !.pending = ~s.players[i].folded /\ s.players[i].stack > 0]
      BY <2>1
    <2> QED
      BY <2>2 DEF Shaped, PlayerFields
  <1>4. m.street \in BettingStreets /\ m.street # s.street
    BY <1>2 DEF FollowingStreet, BettingStreets, Streets
  <1>5. BigBlind \in Int
    BY EngineAssumption
  <1>6. Shaped(m) /\ Numbers(m) /\ Betting(m)
    BY <1>2, <1>3, <1>5 DEF Shaped, Numbers, Betting, Answered
  <1> QED
    BY <1>2, <1>4, <1>6 DEF Follows, BettingStreets

\* Whom the turn goes to is all that setActor changes.
LEMMA ActorOnly ==
  ASSUME NEW s, Shaped(s), s.street \in BettingStreets, Numbers(s), Betting(s), NEW seat
  PROVE  Follows(setActor(s, seat), s) /\ setActor(s, seat).street = s.street
  <1> DEFINE m == setActor(s, seat)
  <1>1. /\ DOMAIN m = HandFields /\ m.street = s.street /\ m.recovery = s.recovery
        /\ m.currentBet = s.currentBet /\ m.lastFullRaise = s.lastFullRaise
        /\ m.fullRaises = s.fullRaises /\ m.players = s.players
    BY DEF setActor, Shaped, HandFields
  <1> HIDE DEF m
  <1>2. In(m) = In(s)
    BY <1>1 DEF In
  <1>3. Shaped(m) /\ Numbers(m)
    BY <1>1, <1>2 DEF Shaped, Numbers
  <1>4. Betting(m)
    BY <1>1, <1>2 DEF Betting, Answered
  <1> QED
    BY <1>1, <1>3, <1>4 DEF m, Follows, BettingStreets

\* progress moves the turn, starts a street or settles, and changes no bet on a street.
LEMMA Progressed ==
  ASSUME NEW s, Shaped(s), s.street \in BettingStreets, Numbers(s), Betting(s), NEW after,
         NEW m \in progress(s, after)
  PROVE  Follows(m, s)
  <1>1. ASSUME NEW x, Shaped(x), x.street \in BettingStreets, Numbers(x), Betting(x),
               NEW y, NEW z \in Conclude(x, y)
        PROVE  Follows(z, x) /\ z.street \in {x.street, "SETTLED"}
    <2>1. z \in settle(x) \/ \E seat : z = setActor(x, seat)
      BY DEF Conclude
    <2> QED
      BY <1>1, <2>1, Settled, ActorOnly
  <1>2. PICK n : /\ n = ClearPending(s)
                 /\ \/ m \in Conclude(n, after)
                    \/ n.street # "RIVER" /\ m \in Conclude(nextStreet(n), s.button)
    BY DEF progress
  <1>3. Shaped(n) /\ Numbers(n) /\ Betting(n) /\ n.street = s.street /\ n.recovery = s.recovery
        /\ n.currentBet = s.currentBet
    BY <1>2, PendingOnly
  <1>4. CASE m \in Conclude(n, after)
    BY <1>1, <1>3, <1>4 DEF Follows
  <1>5. CASE n.street # "RIVER" /\ m \in Conclude(nextStreet(n), s.button)
    <2>1. PICK k : k = nextStreet(n)
      OBVIOUS
    <2>2. Follows(k, n) /\ k.street \in BettingStreets /\ k.street # n.street
      BY <1>3, <1>5, <2>1, NewStreet
    <2>3. Follows(m, k) /\ m.street \in {k.street, "SETTLED"}
      <3>1. Shaped(k) /\ Numbers(k) /\ Betting(k)
        BY <2>2 DEF Follows, BettingStreets
      <3> QED
        BY <1>1, <1>5, <2>1, <2>2, <3>1
    <2>4. m.street # s.street
      BY <1>3, <2>2, <2>3 DEF BettingStreets
    <2>5. m.recovery = s.recovery
      BY <1>3, <2>2, <2>3 DEF Follows
    <2> QED
      BY <2>3, <2>4, <2>5 DEF Follows
  <1> QED
    BY <1>2, <1>4, <1>5
-----------------------------------------------------------------------------
\* An accepted result is one of the candidates, and passed the audit.
LEMMA Accepted ==
  ASSUME NEW s, NEW candidates, NEW r \in Results(s, candidates), r.ok
  PROVE  r.hand \in candidates /\ validate(r.hand)
  <1>1. PICK n \in candidates : r = IF validate(n) THEN [ok |-> TRUE, hand |-> n] ELSE Refused(s)
    BY DEF Results
  <1>2. validate(n)
    BY <1>1 DEF Refused
  <1> QED
    BY <1>1, <1>2

LEMMA Audited ==
  ASSUME NEW s, validate(s), s.street # "SETTLED"
  PROVE  s.actor \in In(s)
  BY DEF validate, ValidBetting, PendingSeats, Active, Live

\* The chips that an action moves.
LEMMA Moved ==
  ASSUME NEW s, Shaped(s), Numbers(s), s.actor \in In(s), NEW target \in Int, NEW kind,
         NEW n, n = MoveChips(s, kind, target)
  PROVE  MovedTo(n, s, target)
  <1> DEFINE i == s.actor
             p == s.players[i]
             folded == [p EXCEPT !.folded = @ \/ kind = "FOLD"]
             delta == target - p.street
  <1>1. DOMAIN p = PlayerFields /\ p.gone \in BOOLEAN /\ p.stack \in Int /\ p.street \in Int /\ p.acted \in Int
    BY DEF Shaped, Numbers
  <1>2. n = [s EXCEPT !.players[i] = commit(folded, delta)]
    BY DEF MoveChips, Update
  <1> HIDE DEF i, p
  <1>3. /\ DOMAIN folded = PlayerFields /\ folded.gone = p.gone /\ folded.stack = p.stack
        /\ folded.street = p.street /\ folded.acted = p.acted
    BY <1>1 DEF PlayerFields
  <1>4. delta \in Int /\ p.street + delta = target /\ p.stack - delta \in Int
    BY <1>1
  <1> HIDE DEF folded, delta
  <1>5. /\ DOMAIN commit(folded, delta) = PlayerFields /\ commit(folded, delta).gone = p.gone
        /\ commit(folded, delta).stack = p.stack - delta
        /\ commit(folded, delta).street = target /\ commit(folded, delta).acted = p.acted
    BY <1>3, <1>4 DEF commit, PlayerFields
  <1>6. /\ DOMAIN n = HandFields /\ n.street = s.street /\ n.recovery = s.recovery
        /\ n.actor = s.actor /\ n.currentBet = s.currentBet /\ n.lastFullRaise = s.lastFullRaise
        /\ n.fullRaises = s.fullRaises /\ In(n) = In(s)
    BY <1>2 DEF Shaped, HandFields, In
  <1>7. n.players[i] = commit(folded, delta) /\ \A j \in In(s) \ {i} : n.players[j] = s.players[j]
    BY <1>2 DEF Shaped, HandFields, In, i
  <1>8. ASSUME NEW j \in In(s)
        PROVE  /\ DOMAIN n.players[j] = PlayerFields /\ n.players[j].gone \in BOOLEAN
               /\ n.players[j].stack \in Int /\ n.players[j].street \in Int /\ n.players[j].acted \in Int
    <2>1. CASE j = i
      BY <2>1, <1>1, <1>4, <1>5, <1>7
    <2>2. CASE j # i
      BY <2>2, <1>7 DEF Shaped, Numbers
    <2> QED
      BY <2>1, <2>2
  <1>9. Shaped(n)
    BY <1>6, <1>8 DEF Shaped
  <1>10. Numbers(n)
    BY <1>6, <1>8 DEF Numbers
  <1> QED
    BY <1>5, <1>6, <1>7, <1>9, <1>10 DEF i, MovedTo

\* What a bet above the current one changes.
LEMMA Raised ==
  ASSUME NEW n, Shaped(n), Numbers(n), NEW target \in Int, NEW m, m = RaiseTo(n, target)
  PROVE  RaisedTo(m, n, target)
  <1> DEFINE increment == target - n.currentBet
             full == increment >= n.lastFullRaise
             changed == [i \in In(n) |-> [n.players[i] EXCEPT !.pending =
                            @ \/ (i # n.actor /\ i \in Active(n) /\ n.players[i].street < target)]]
  <1>0. (target <= n.currentBet) \in BOOLEAN /\ n.currentBet \in Int
    BY DEF Numbers
  <1>1. CASE target <= n.currentBet
    <2>1. m = n
      BY <1>1 DEF RaiseTo
    <2> QED
      BY <1>0, <1>1, <2>1 DEF Shaped, RaisedTo
  <1>2. CASE ~(target <= n.currentBet)
    <2>1. m = [n EXCEPT !.currentBet = target,
                        !.fullRaises = IF full THEN @ + 1 ELSE @,
                        !.lastFullRaise = IF full THEN increment ELSE @,
                        !.players = changed]
      BY <1>2 DEF RaiseTo
    <2>2. ASSUME NEW j \in In(n)
          PROVE  /\ DOMAIN changed[j] = PlayerFields /\ changed[j].gone = n.players[j].gone
                 /\ changed[j].stack = n.players[j].stack /\ changed[j].street = n.players[j].street
                 /\ changed[j].acted = n.players[j].acted
      <3>1. changed[j] = [n.players[j] EXCEPT !.pending =
                            @ \/ (j # n.actor /\ j \in Active(n) /\ n.players[j].street < target)]
        OBVIOUS
      <3> HIDE DEF changed
      <3> QED
        BY <3>1 DEF Shaped, PlayerFields
    <2>3. DOMAIN changed = In(n)
      OBVIOUS
    <2> HIDE DEF full, increment, changed
    <2>4. /\ DOMAIN m = HandFields /\ m.street = n.street /\ m.recovery = n.recovery
          /\ m.actor = n.actor /\ m.currentBet = target /\ m.players = changed
          /\ m.fullRaises = (IF full THEN n.fullRaises + 1 ELSE n.fullRaises)
          /\ m.lastFullRaise = (IF full THEN increment ELSE n.lastFullRaise)
      BY <2>1 DEF Shaped, HandFields
    <2>5. In(m) = In(n)
      BY <2>3, <2>4 DEF In
    <2>6. \A j \in In(n) : /\ DOMAIN m.players[j] = PlayerFields
                           /\ m.players[j].gone = n.players[j].gone
                           /\ m.players[j].stack = n.players[j].stack
                           /\ m.players[j].street = n.players[j].street
                           /\ m.players[j].acted = n.players[j].acted
      BY <2>2, <2>4
    <2>7. IF target - n.currentBet >= n.lastFullRaise
          THEN m.fullRaises = n.fullRaises + 1 /\ m.lastFullRaise = target - n.currentBet
          ELSE m.fullRaises = n.fullRaises /\ m.lastFullRaise = n.lastFullRaise
      BY <2>4 DEF full, increment
    <2> QED
      BY <1>0, <1>2, <2>4, <2>5, <2>6, <2>7 DEF RaisedTo
  <1> QED
    BY <1>0, <1>1, <1>2

\* Who raises above the bet has the right to, and a call never does.
LEMMA Targets ==
  ASSUME NEW s, Numbers(s), Betting(s), s.actor \in In(s),
         NEW kind \in legalActions(s), NEW to \in LegalTargets(s, kind)
  PROVE  /\ Target(s, kind, to) \in Int
         /\ Target(s, kind, to) > s.currentBet => RaiseRights(s)
         /\ kind \in {"CHECK", "FOLD"} => Target(s, kind, to) <= s.currentBet
  <1> DEFINE p == s.players[s.actor]
             bet == s.currentBet
  <1>1. /\ bet \in Int /\ p.street \in Int /\ p.stack \in Int /\ p.street <= bet
        /\ s.lastFullRaise \in Int /\ BigBlind \in Int
    BY EngineAssumption DEF Numbers, Betting, Answered
  <1>2. kind \in ActionKinds
    BY DEF legalActions, ActionKinds
  <1>3. CASE kind \in {"CHECK", "FOLD"}
    <2>1. Target(s, kind, to) = p.street
      BY <1>3 DEF Target
    <2> QED
      BY <1>1, <2>1
  <1>4. CASE kind = "CALL"
    <2>1. ToCall(s) = bet - p.street
      <3>1. ToCall(s) = Max({0, bet - p.street})
        BY DEF ToCall
      <3>2. bet - p.street \in Int /\ 0 <= bet - p.street
        BY <1>1
      <3> HIDE DEF bet, p
      <3> QED
        BY <3>1, <3>2, MaxTwo
    <2>2. Target(s, kind, to) = p.street + Min({ToCall(s), p.stack})
      BY <1>4 DEF Target
    <2> HIDE DEF bet, p
    <2>3. PICK c : c = ToCall(s)
      OBVIOUS
    <2>4. c \in Int /\ p.street + c = bet
      BY <1>1, <2>1, <2>3
    <2>5. Min({c, p.stack}) \in Int /\ Min({c, p.stack}) <= c
      BY <1>1, <2>4, MinTwo
    <2>6. PICK t : t = Min({c, p.stack})
      OBVIOUS
    <2>7. Target(s, kind, to) = p.street + t /\ t \in Int /\ t <= c
      BY <2>2, <2>3, <2>5, <2>6
    <2>8. Target(s, kind, to) \in Int /\ Target(s, kind, to) <= bet
      BY <1>1, <2>4, <2>7
    <2> QED
      BY <1>1, <1>4, <2>8 DEF bet
  <1>5. CASE kind = "ALL_IN"
    <2>1. Target(s, kind, to) = p.street + p.stack
      BY <1>5 DEF Target
    <2>2. MaximumRaiseTo(s) <= bet \/ RaiseRights(s)
      BY <1>5 DEF legalActions
    <2>3. MaximumRaiseTo(s) = p.stack + p.street
      BY DEF MaximumRaiseTo
    <2> HIDE DEF bet, p
    <2>4. Target(s, kind, to) \in Int /\ Target(s, kind, to) = MaximumRaiseTo(s)
      BY <1>1, <2>1, <2>3
    <2> QED
      BY <1>1, <1>5, <2>2, <2>4 DEF bet
  <1>6. CASE kind \in {"BET", "RAISE"}
    <2>1. Target(s, kind, to) = to
      BY <1>6 DEF Target
    <2>2. RaiseRights(s)
      BY <1>6 DEF legalActions
    <2>3. to \in Int
      BY <1>1, <1>6 DEF LegalTargets
    <2> QED
      BY <1>6, <2>1, <2>2, <2>3
  <1> QED
    BY <1>2, <1>3, <1>4, <1>5, <1>6 DEF ActionKinds

\* The hand after an action, before progress.
LEMMA Recorded ==
  ASSUME NEW s, s.actor \in In(s), NEW target, NEW n, MovedTo(n, s, target),
         NEW m, RaisedTo(m, n, target), NEW kind, NEW timeout,
         NEW k, k = Record(m, kind, timeout)
  PROVE  ActedTo(k, s, target)
  <1> DEFINE i == s.actor
             p == m.players[i]
             q == MarkActed(p, kind, m.fullRaises, timeout)
  <1>1. k = [m EXCEPT !.players[i] = q]
    BY DEF Record, Update, MovedTo, RaisedTo
  <1>2. DOMAIN m = HandFields /\ In(m) = In(s) /\ i \in In(s) /\ DOMAIN p = PlayerFields
    BY DEF MovedTo, RaisedTo
  <1> HIDE DEF p
  <1>3. /\ DOMAIN q = PlayerFields /\ q.gone = p.gone /\ q.stack = p.stack /\ q.street = p.street
        /\ q.acted = m.fullRaises
    BY <1>2 DEF MarkActed, PlayerFields
  <1> HIDE DEF q
  <1>4. /\ DOMAIN k = HandFields /\ k.street = m.street /\ k.recovery = m.recovery
        /\ k.currentBet = m.currentBet /\ k.lastFullRaise = m.lastFullRaise
        /\ k.fullRaises = m.fullRaises /\ In(k) = In(s) /\ k.players[i] = q
        /\ \A j \in In(s) \ {i} : k.players[j] = m.players[j]
    BY <1>1, <1>2 DEF HandFields, In
  <1> HIDE DEF i
  <1>5. /\ p.gone = n.players[i].gone /\ p.stack = n.players[i].stack
        /\ p.street = n.players[i].street /\ n.players[i].street = target
        /\ n.players[i].gone \in BOOLEAN /\ n.players[i].stack \in Int
    BY <1>2 DEF MovedTo, RaisedTo, Shaped, Numbers, p, i
  <1>6. ASSUME NEW j \in In(s) \ {i}
        PROVE  /\ DOMAIN k.players[j] = PlayerFields /\ k.players[j].gone \in BOOLEAN
               /\ k.players[j].stack \in Int /\ k.players[j].street = s.players[j].street
               /\ k.players[j].acted = s.players[j].acted
    BY <1>4 DEF MovedTo, RaisedTo, Shaped, Numbers, i
  <1>7. /\ DOMAIN k.players[i] = PlayerFields /\ k.players[i].gone \in BOOLEAN
        /\ k.players[i].stack \in Int /\ k.players[i].street = target
        /\ k.players[i].acted = k.fullRaises
    BY <1>3, <1>4, <1>5
  <1>8. /\ target <= s.currentBet => /\ k.currentBet = s.currentBet /\ k.fullRaises = s.fullRaises
                                      /\ k.lastFullRaise = s.lastFullRaise
        /\ target > s.currentBet =>
              /\ k.currentBet = target
              /\ IF target - s.currentBet >= s.lastFullRaise
                 THEN k.fullRaises = s.fullRaises + 1 /\ k.lastFullRaise = target - s.currentBet
                 ELSE k.fullRaises = s.fullRaises /\ k.lastFullRaise = s.lastFullRaise
    BY <1>4 DEF MovedTo, RaisedTo
  <1>9. k.street = s.street /\ k.recovery = s.recovery
    BY <1>4 DEF MovedTo, RaisedTo
  <1> QED
    BY <1>4, <1>6, <1>7, <1>8, <1>9 DEF ActedTo, i

\* Whoever acted with room below the bet keeps it when the bet and the raises grow.
LEMMA StillAnswered ==
  ASSUME NEW a \in Int, NEW x \in Int, NEW bet \in Int, NEW fulls \in Int,
         NEW bet2 \in Int, NEW fulls2 \in Int, bet2 >= bet, fulls2 >= fulls,
         fulls2 > fulls => bet2 - bet >= BigBlind,
         x <= bet, a # -1 => a <= fulls /\ (a < fulls => bet - x >= BigBlind)
  PROVE  x <= bet2 /\ (a # -1 => a <= fulls2 /\ (a < fulls2 => bet2 - x >= BigBlind))
  <1>0. BigBlind \in Int
    BY EngineAssumption
  <1>1. x <= bet2
    OBVIOUS
  <1>2. a # -1 => a <= fulls2
    OBVIOUS
  <1>3. ASSUME a # -1, a < fulls2 PROVE bet2 - x >= BigBlind
    <2>1. CASE a < fulls
      BY <1>0, <1>3, <2>1
    <2>2. CASE ~(a < fulls)
      BY <1>0, <1>3, <2>2
    <2> QED
      BY <2>1, <2>2
  <1> QED
    BY <1>1, <1>2, <1>3

\* The bet is the highest target, and everybody is still answered.
LEMMA Acted ==
  ASSUME NEW s, Numbers(s), Betting(s), s.actor \in In(s), NEW target \in Int,
         NEW k, ActedTo(k, s, target)
  PROVE  /\ Shaped(k) /\ Numbers(k) /\ Betting(k) /\ k.street = s.street /\ k.recovery = s.recovery
         /\ k.currentBet = IF target > s.currentBet THEN target ELSE s.currentBet
  <1>1. /\ s.currentBet \in Int /\ s.lastFullRaise \in Int /\ s.fullRaises \in Int
        /\ s.lastFullRaise >= BigBlind /\ BigBlind \in Int
    BY EngineAssumption DEF Numbers, Betting
  <1>2. /\ target <= s.currentBet => /\ k.currentBet = s.currentBet /\ k.fullRaises = s.fullRaises
                                      /\ k.lastFullRaise = s.lastFullRaise
        /\ target > s.currentBet =>
              /\ k.currentBet = target
              /\ IF target - s.currentBet >= s.lastFullRaise
                 THEN k.fullRaises = s.fullRaises + 1 /\ k.lastFullRaise = target - s.currentBet
                 ELSE k.fullRaises = s.fullRaises /\ k.lastFullRaise = s.lastFullRaise
    BY DEF ActedTo
  <1>3. /\ k.currentBet \in Int /\ k.lastFullRaise \in Int /\ k.fullRaises \in Int
        /\ k.currentBet >= s.currentBet /\ k.currentBet >= target /\ k.fullRaises >= s.fullRaises
        /\ k.lastFullRaise >= BigBlind
        /\ k.fullRaises > s.fullRaises => k.currentBet - s.currentBet >= BigBlind
        /\ k.currentBet = IF target > s.currentBet THEN target ELSE s.currentBet
    <2>1. PICK bet, last, fulls : bet = s.currentBet /\ last = s.lastFullRaise /\ fulls = s.fullRaises
      OBVIOUS
    <2>2. PICK bet2, last2, fulls2 :
             bet2 = k.currentBet /\ last2 = k.lastFullRaise /\ fulls2 = k.fullRaises
      OBVIOUS
    <2>3. bet \in Int /\ last \in Int /\ fulls \in Int /\ last >= BigBlind
      BY <1>1, <2>1
    <2>4. target <= bet => bet2 = bet /\ fulls2 = fulls /\ last2 = last
      BY <1>2, <2>1, <2>2
    <2>5. target > bet =>
             /\ bet2 = target
             /\ IF target - bet >= last THEN fulls2 = fulls + 1 /\ last2 = target - bet
                ELSE fulls2 = fulls /\ last2 = last
      BY <1>2, <2>1, <2>2
    <2>6. BigBlind \in Int
      BY <1>1
    <2> DEFINE Goal == /\ bet2 \in Int /\ last2 \in Int /\ fulls2 \in Int
                       /\ bet2 >= bet /\ bet2 >= target /\ fulls2 >= fulls /\ last2 >= BigBlind
                       /\ fulls2 > fulls => bet2 - bet >= BigBlind
                       /\ bet2 = IF target > bet THEN target ELSE bet
    <2>7. ASSUME target <= bet PROVE Goal
      BY <2>3, <2>4, <2>6, <2>7
    <2>8. ASSUME target > bet /\ target - bet >= last PROVE Goal
      BY <2>3, <2>5, <2>6, <2>8
    <2>9. ASSUME target > bet /\ ~(target - bet >= last) PROVE Goal
      BY <2>3, <2>5, <2>6, <2>9
    <2>10. Goal
      BY <2>3, <2>7, <2>8, <2>9
    <2> QED
      BY <2>1, <2>2, <2>10
  <1>4. ASSUME NEW j \in In(s)
        PROVE  k.players[j].street \in Int /\ k.players[j].acted \in Int /\ Answered(k, j)
    <2>1. CASE j = s.actor
      <3>1. k.players[j].street = target /\ k.players[j].acted = k.fullRaises
        BY <2>1 DEF ActedTo
      <3> QED
        BY <1>3, <3>1 DEF Answered
    <2>2. CASE j # s.actor
      <3>1. PICK a, x : a = s.players[j].acted /\ x = s.players[j].street
        OBVIOUS
      <3>2. k.players[j].street = x /\ k.players[j].acted = a
        BY <2>2, <3>1 DEF ActedTo
      <3>3. a \in Int /\ x \in Int
        BY <3>1 DEF Numbers
      <3>4. x <= s.currentBet /\ (a # -1 => /\ a <= s.fullRaises
                                            /\ a < s.fullRaises => s.currentBet - x >= BigBlind)
        BY <3>1 DEF Betting, Answered
      <3>5. x <= k.currentBet /\ (a # -1 => /\ a <= k.fullRaises
                                            /\ a < k.fullRaises => k.currentBet - x >= BigBlind)
        BY <1>1, <1>3, <3>3, <3>4, StillAnswered
      <3> QED
        BY <3>2, <3>3, <3>5 DEF Answered
    <2> QED
      BY <2>1, <2>2
  <1>5. Shaped(k)
    BY DEF ActedTo, Shaped
  <1>6. Numbers(k)
    BY <1>3, <1>4 DEF ActedTo, Numbers
  <1>7. Betting(k)
    BY <1>3, <1>4 DEF ActedTo, Betting
  <1> QED
    BY <1>3, <1>5, <1>6, <1>7 DEF ActedTo

\* An accepted action or timeout: the bet grows only by a raise that is allowed.
LEMMA Applied ==
  ASSUME NEW s, EngineInv(s), s.street \in BettingStreets, NEW kind, NEW to, NEW timeout,
         NEW r \in apply(s, kind, to, timeout), r.ok
  PROVE  /\ EngineInv(r.hand) /\ r.hand.street \in Streets /\ r.hand.recovery = s.recovery
         /\ s.recovery = "NONE"
         /\ (r.hand.street = s.street /\ r.hand.currentBet > s.currentBet) =>
               (RaiseRights(s) /\ kind \notin {"CHECK", "FOLD"})
  <1>1. Shaped(s) /\ Numbers(s) /\ Betting(s) /\ s.actor \in In(s)
    BY DEF EngineInv, BettingStreets
  <1>2. PICK target : target = Target(s, kind, to)
    OBVIOUS
  <1>3. PICK n : n = MoveChips(s, kind, target)
    OBVIOUS
  <1>4. PICK m : m = RaiseTo(n, target)
    OBVIOUS
  <1>5. PICK k : k = Record(m, kind, timeout)
    OBVIOUS
  <1>6. /\ kind \in legalActions(s) /\ to \in LegalTargets(s, kind)
        /\ r \in Results(s, progress(k, s.actor))
    <2>1. ~Refused(s).ok
      BY DEF Refused
    <2>2. r # Refused(s)
      BY <2>1
    <2>3. k = Played(s, kind, Target(s, kind, to), timeout)
      BY <1>2, <1>3, <1>4, <1>5 DEF Played
    <2> QED
      BY <2>2, <2>3 DEF apply
  <1>7. s.recovery = "NONE"
    BY <1>6 DEF legalActions
  <1>8. /\ target \in Int
        /\ target > s.currentBet => RaiseRights(s)
        /\ kind \in {"CHECK", "FOLD"} => target <= s.currentBet
    BY <1>1, <1>6, <1>2, Targets
  <1>9. MovedTo(n, s, target)
    BY <1>1, <1>8, <1>3, Moved
  <1>10. RaisedTo(m, n, target)
    <2>1. Shaped(n) /\ Numbers(n)
      BY <1>9 DEF MovedTo
    <2> QED
      BY <1>8, <1>4, <2>1, Raised
  <1>11. ActedTo(k, s, target)
    BY <1>1, <1>9, <1>10, <1>5, Recorded
  <1>12. /\ Shaped(k) /\ Numbers(k) /\ Betting(k) /\ k.street = s.street /\ k.recovery = s.recovery
        /\ k.currentBet = IF target > s.currentBet THEN target ELSE s.currentBet
    BY <1>1, <1>8, <1>11, Acted
  <1>13. r.hand \in progress(k, s.actor) /\ validate(r.hand)
    BY <1>6, Accepted
  <1>14. Follows(r.hand, k)
    BY <1>12, <1>13, Progressed
  <1>15. r.hand.street # "SETTLED" => r.hand.actor \in In(r.hand)
    BY <1>13, Audited
  <1>16. EngineInv(r.hand) /\ r.hand.street \in Streets
    <2>1. "COMMITTED" \notin Streets
      BY DEF Streets
    <2> QED
      BY <1>14, <1>15, <2>1 DEF EngineInv, Follows, BettingStreets
  <1>17. r.hand.recovery = s.recovery
    BY <1>12, <1>14 DEF Follows
  <1>18. r.hand.street = s.street => r.hand.currentBet = k.currentBet
    BY <1>12, <1>14 DEF Follows
  <1>19. ASSUME r.hand.street = s.street, r.hand.currentBet > s.currentBet
         PROVE  RaiseRights(s) /\ kind \notin {"CHECK", "FOLD"}
    <2>1. s.currentBet \in Int
      BY <1>1 DEF Numbers
    <2>2. target > s.currentBet
      BY <1>8, <1>12, <1>18, <1>19, <2>1
    <2>3. ~(target <= s.currentBet)
      BY <1>8, <2>1, <2>2
    <2> QED
      BY <1>8, <2>2, <2>3
  <1> QED
    BY <1>7, <1>16, <1>17, <1>19
-----------------------------------------------------------------------------
\* A blind is what the stack has of it.
LEMMA Posted ==
  ASSUME NEW s, Shaped(s), Numbers(s), NEW i \in In(s), NEW blind \in Int,
         NEW n, n = PostBlind(s, i, blind)
  PROVE  /\ Shaped(n) /\ Numbers(n) /\ In(n) = In(s) /\ n.recovery = s.recovery
         /\ n.lastFullRaise = s.lastFullRaise /\ n.fullRaises = s.fullRaises
         /\ n.players[i].street <= s.players[i].street + blind
         /\ n.players[i].acted = s.players[i].acted
         /\ \A j \in In(s) \ {i} : n.players[j] = s.players[j]
  <1>1. PICK p : p = s.players[i]
    OBVIOUS
  <1>2. DOMAIN p = PlayerFields /\ p.gone \in BOOLEAN /\ p.stack \in Int /\ p.street \in Int /\ p.acted \in Int
    BY <1>1 DEF Shaped, Numbers
  <1>3. PICK delta : delta = Min({p.stack, blind})
    OBVIOUS
  <1>4. delta \in Int /\ delta <= blind
    BY <1>2, <1>3, MinTwo
  <1>5. n = [s EXCEPT !.players[i] = commit(p, delta)]
    BY <1>1, <1>3 DEF PostBlind, Update
  <1>6. /\ DOMAIN commit(p, delta) = PlayerFields /\ commit(p, delta).gone = p.gone
        /\ commit(p, delta).stack = p.stack - delta /\ commit(p, delta).street = p.street + delta
        /\ commit(p, delta).acted = p.acted
    BY <1>2, <1>4 DEF commit, PlayerFields
  <1>7. /\ DOMAIN n = HandFields /\ n.recovery = s.recovery /\ n.lastFullRaise = s.lastFullRaise
        /\ n.fullRaises = s.fullRaises /\ n.currentBet = s.currentBet /\ In(n) = In(s)
        /\ n.players[i] = commit(p, delta) /\ \A j \in In(s) \ {i} : n.players[j] = s.players[j]
    BY <1>5 DEF Shaped, HandFields, In
  <1>8. /\ n.players[i].stack \in Int /\ n.players[i].street \in Int
        /\ n.players[i].street <= p.street + blind
    BY <1>2, <1>4, <1>6, <1>7
  <1>9. ASSUME NEW j \in In(s)
        PROVE  /\ DOMAIN n.players[j] = PlayerFields /\ n.players[j].gone \in BOOLEAN
               /\ n.players[j].stack \in Int /\ n.players[j].street \in Int /\ n.players[j].acted \in Int
    <2>1. CASE j = i
      BY <2>1, <1>2, <1>6, <1>7, <1>8
    <2>2. CASE j # i
      BY <2>2, <1>7 DEF Shaped, Numbers
    <2> QED
      BY <2>1, <2>2
  <1>10. Shaped(n)
    BY <1>7, <1>9 DEF Shaped
  <1>11. Numbers(n)
    BY <1>7, <1>9 DEF Numbers
  <1> QED
    BY <1>1, <1>6, <1>7, <1>8, <1>10, <1>11

\* The blinds are posted by two players, none above the big blind.
LEMMA BlindsPosted ==
  ASSUME NEW s, Shaped(s), Numbers(s), Undealt(s)
  PROVE  LET n == Blinds(s) IN
         Shaped(n) /\ Numbers(n) /\ Betting(n) /\ n.street = "PREFLOP" /\ n.recovery = s.recovery
  <1>1. PICK sb : sb = SmallBlindSeat(s)
    OBVIOUS
  <1>2. PICK bb : bb = BigBlindSeat(s)
    OBVIOUS
  <1>3. /\ In(s) \in SUBSET (1..9) /\ In(s) # {} /\ s.button \in In(s)
        /\ \A i : In(s) # {i}
    <2>1. Cardinality({}) = 0 /\ \A i : Cardinality({i}) = 1
      BY FS_EmptySet, FS_Singleton
    <2>2. Cardinality(In(s)) >= 2
      BY DEF Undealt
    <2>3. In(s) # {} /\ \A i : In(s) # {i}
      <3>1. ASSUME In(s) = {} PROVE FALSE
        BY <2>1, <2>2, <3>1
      <3>2. ASSUME NEW i, In(s) = {i} PROVE FALSE
        <4>1. Cardinality(In(s)) = 1
          BY <2>1, <3>2
        <4> QED
          BY <2>2, <4>1
      <3> QED
        BY <3>1, <3>2
    <2> QED
      BY <2>3 DEF Undealt
  <1>4. \A i \in In(s) : i \in Int
    BY <1>3
  <1>5. sb \in In(s)
    <2>1. sb = s.button \/ sb = nextSeat(In(s), s.button)
      BY <1>1 DEF SmallBlindSeat
    <2> QED
      BY <1>3, <1>4, <2>1, NextSeat
  <1>6. bb \in In(s) /\ bb # sb
    <2>1. bb = nextSeat(In(s), sb)
      BY <1>1, <1>2 DEF BigBlindSeat
    <2> QED
      BY <1>3, <1>4, <1>5, <2>1, NextSeat
  <1>7. SmallBlind \in Int /\ BigBlind \in Int /\ SmallBlind <= BigBlind /\ 0 <= BigBlind
    BY EngineAssumption
  <1>8. PICK m : m = PostBlind(s, sb, SmallBlind)
    OBVIOUS
  <1>9. /\ Shaped(m) /\ Numbers(m) /\ In(m) = In(s) /\ m.recovery = s.recovery
        /\ m.lastFullRaise = s.lastFullRaise /\ m.fullRaises = s.fullRaises
        /\ m.players[sb].street <= s.players[sb].street + SmallBlind
        /\ m.players[sb].acted = s.players[sb].acted
        /\ \A j \in In(s) \ {sb} : m.players[j] = s.players[j]
    BY <1>5, <1>7, <1>8, Posted
  <1>10. PICK k : k = PostBlind(m, bb, BigBlind)
    OBVIOUS
  <1>11. /\ Shaped(k) /\ Numbers(k) /\ In(k) = In(m) /\ k.recovery = m.recovery
         /\ k.lastFullRaise = m.lastFullRaise /\ k.fullRaises = m.fullRaises
         /\ k.players[bb].street <= m.players[bb].street + BigBlind
         /\ k.players[bb].acted = m.players[bb].acted
         /\ \A j \in In(m) \ {bb} : k.players[j] = m.players[j]
    BY <1>6, <1>7, <1>9, <1>10, Posted
  <1>12. PICK n : n = [k EXCEPT !.street = "PREFLOP", !.currentBet = BigBlind]
    OBVIOUS
  <1>13. n = Blinds(s)
    BY <1>1, <1>2, <1>8, <1>10, <1>12 DEF Blinds
  <1>14. /\ DOMAIN n = HandFields /\ n.street = "PREFLOP" /\ n.currentBet = BigBlind
         /\ n.players = k.players /\ n.lastFullRaise = BigBlind /\ n.fullRaises = 0
         /\ n.recovery = s.recovery /\ In(n) = In(s)
    BY <1>9, <1>11, <1>12 DEF Shaped, HandFields, In, Undealt
  <1>15. ASSUME NEW j \in In(s)
         PROVE  k.players[j].street <= BigBlind /\ k.players[j].acted = -1
    <2>1. s.players[j].street = 0 /\ s.players[j].acted = -1
      BY DEF Undealt
    <2>2. CASE j = bb
      <3>1. m.players[bb] = s.players[bb]
        BY <1>6, <1>9
      <3> QED
        BY <1>7, <1>11, <2>1, <2>2, <3>1
    <2>3. CASE j = sb
      <3>1. k.players[sb] = m.players[sb] /\ m.players[sb].street \in Int
        BY <1>5, <1>6, <1>9, <1>11 DEF Numbers
      <3> QED
        BY <1>7, <1>9, <2>1, <2>3, <3>1
    <2>4. CASE j # sb /\ j # bb
      BY <1>7, <1>9, <1>11, <2>1, <2>4
    <2> QED
      BY <2>2, <2>3, <2>4
  <1>16. Shaped(n)
    BY <1>11, <1>9, <1>14 DEF Shaped, In
  <1>17. Numbers(n)
    BY <1>7, <1>11, <1>9, <1>14 DEF Numbers, In
  <1>18. Betting(n)
    BY <1>7, <1>14, <1>15 DEF Betting, Answered
  <1> QED
    BY <1>13, <1>14, <1>16, <1>17, <1>18

\* Dealing a hand.
LEMMA Dealt ==
  ASSUME NEW s, EngineInv(s), s.street = "COMMITTED", NEW r \in New(s), r.ok
  PROVE  EngineInv(r.hand) /\ r.hand.street \in Streets /\ r.hand.recovery = s.recovery
  <1>1. PICK n : n = Blinds(s)
    OBVIOUS
  <1>2. Shaped(n) /\ Numbers(n) /\ Betting(n) /\ n.street = "PREFLOP" /\ n.recovery = s.recovery
    BY <1>1, BlindsPosted DEF EngineInv
  <1>3. r.hand \in progress(n, BigBlindSeat(s)) /\ validate(r.hand)
    BY <1>1, Accepted DEF New
  <1>4. Follows(r.hand, n)
    BY <1>2, <1>3, Progressed DEF BettingStreets, Streets
  <1>5. r.hand.street # "SETTLED" => r.hand.actor \in In(r.hand)
    BY <1>3, Audited
  <1>6. "COMMITTED" \notin Streets
    BY DEF Streets
  <1> QED
    BY <1>2, <1>4, <1>5, <1>6 DEF EngineInv, Follows, BettingStreets

\* A step that leaves the betting alone: clocks, connections, recovery.
LEMMA Aside ==
  ASSUME NEW s, EngineInv(s), s.street \in Streets, NEW m,
         DOMAIN m = HandFields, m.street = s.street, m.actor = s.actor, m.currentBet = s.currentBet,
         m.lastFullRaise = s.lastFullRaise, m.fullRaises = s.fullRaises, m.players = s.players
  PROVE  EngineInv(m)
  <1>1. In(m) = In(s)
    BY DEF In
  <1>2. Shaped(m)
    BY <1>1 DEF EngineInv, Shaped
  <1>3. Numbers(s) => Numbers(m)
    BY <1>1 DEF Numbers
  <1>4. Betting(s) => Betting(m)
    BY <1>1 DEF Betting, Answered
  <1>5. Away(s) => Away(m)
    BY <1>1 DEF Away
  <1>6. "COMMITTED" \notin Streets
    BY DEF Streets
  <1> QED
    BY <1>1, <1>2, <1>3, <1>4, <1>5, <1>6 DEF EngineInv

\* The connection of a player: away at the end of the hand, or after it, is sat out.
LEMMA Connected ==
  ASSUME NEW s, EngineInv(s), s.street \in Streets, NEW i \in In(s), NEW connected \in BOOLEAN,
         NEW m, m = SetConnected(s, i, connected)
  PROVE  EngineInv(m) /\ m.recovery = s.recovery /\ m.currentBet = s.currentBet
  <1>1. PICK p, q : /\ p = s.players[i]
                    /\ q = [p EXCEPT !.gone = ~connected,
                                     !.goneOut = IF connected THEN @ /\ s.street = "SETTLED"
                                                 ELSE @ \/ s.street = "SETTLED"]
    OBVIOUS
  <1>2. m = [s EXCEPT !.players[i] = q]
    BY <1>1 DEF SetConnected, Update
  <1>3. DOMAIN p = PlayerFields
    BY <1>1 DEF EngineInv, Shaped
  <1>4. /\ DOMAIN q = PlayerFields /\ q.gone = ~connected /\ q.stack = p.stack
        /\ q.street = p.street /\ q.acted = p.acted
        /\ (~connected /\ s.street = "SETTLED") => q.goneOut
    BY <1>1, <1>3 DEF PlayerFields
  <1>5. /\ DOMAIN m = HandFields /\ m.street = s.street /\ m.actor = s.actor
        /\ m.currentBet = s.currentBet /\ m.lastFullRaise = s.lastFullRaise
        /\ m.fullRaises = s.fullRaises /\ m.recovery = s.recovery /\ In(m) = In(s)
        /\ m.players[i] = q /\ \A j \in In(s) \ {i} : m.players[j] = s.players[j]
    BY <1>2 DEF EngineInv, Shaped, HandFields, In
  <1>6. \A j \in In(s) : /\ m.players[j].stack = s.players[j].stack
                         /\ m.players[j].street = s.players[j].street
                         /\ m.players[j].acted = s.players[j].acted
    BY <1>1, <1>4, <1>5
  <1>7. Shaped(m)
    BY <1>4, <1>5 DEF EngineInv, Shaped
  <1>8. Numbers(s) => Numbers(m)
    BY <1>5, <1>6 DEF Numbers
  <1>9. Betting(s) => Betting(m)
    BY <1>5, <1>6 DEF Betting, Answered
  <1>10. s.street = "SETTLED" => Away(m)
    BY <1>4, <1>5 DEF EngineInv, Away
  <1>11. "COMMITTED" \notin Streets
    BY DEF Streets
  <1> QED
    BY <1>5, <1>7, <1>8, <1>9, <1>10, <1>11 DEF EngineInv
-----------------------------------------------------------------------------
\* What a step of the hand does to the bet and to the recovery.
EngineStep ==
    /\ EngineInv(hand)'
    /\ (/\ Running /\ hand'.street = hand.street /\ hand'.currentBet > hand.currentBet
        /\ hand.players[hand.actor].acted # -1)
          => hand.currentBet - hand.players[hand.actor].street >= BigBlind
    /\ hand.recovery # "NONE" /\ hand'.recovery = "NONE" => ~hand'.late /\ hand'.players = hand.players

\* An accepted raise is within the rights of a seat the invariant speaks of.
LEMMA RaiseAnswers ==
  ASSUME EngineInv(hand), Running, RaiseRights(hand), hand.players[hand.actor].acted # -1
  PROVE  hand.currentBet - hand.players[hand.actor].street >= BigBlind
  <1>1. Betting(hand) /\ Numbers(hand) /\ hand.actor \in In(hand)
    BY DEF EngineInv, Running, BettingStreets
  <1>2. hand.players[hand.actor].acted < hand.fullRaises
    BY DEF RaiseRights
  <1> QED
    BY <1>1, <1>2 DEF Betting, Answered

LEMMA EngineInitially == Init => EngineInv(hand)
  <1> SUFFICES ASSUME Init PROVE EngineInv(hand)
    OBVIOUS
  <1>1. PICK P \in SUBSET Seats : /\ Cardinality(P) >= 2
                                  /\ \E stacks \in [P -> Stacks], button \in P : hand = Fresh(stacks, button)
    BY DEF Init
  <1>2. PICK stacks \in [P -> Stacks], button \in P : hand = Fresh(stacks, button)
    BY <1>1
  <1>3. /\ DOMAIN hand = HandFields /\ hand.street = "COMMITTED" /\ hand.button = button
        /\ hand.recovery = "NONE"
        /\ hand.currentBet = 0 /\ hand.lastFullRaise = BigBlind /\ hand.fullRaises = 0
        /\ In(hand) = P
    BY <1>2 DEF Fresh, HandFields, In
  <1>4. \A i \in P : /\ DOMAIN hand.players[i] = PlayerFields /\ hand.players[i].gone = FALSE
                     /\ hand.players[i].stack = stacks[i] /\ hand.players[i].street = 0
                     /\ hand.players[i].acted = -1
    BY <1>2 DEF Fresh, PlayerFields
  <1>5. BigBlind \in Int /\ \A i \in P : stacks[i] \in Int
    <2>1. BigBlind \in Int /\ Stacks \subseteq Int
      BY EngineAssumption
    <2> QED
      BY <2>1
  <1>6. P \subseteq 1..9
    BY EngineAssumption
  <1>7. Shaped(hand) /\ Numbers(hand)
    <2>1. Shaped(hand)
      BY <1>3, <1>4 DEF Shaped
    <2>2. \A i \in P : /\ hand.players[i].stack \in Int /\ hand.players[i].street \in Int
                       /\ hand.players[i].acted \in Int
      BY <1>4, <1>5
    <2>3. hand.currentBet \in Int /\ hand.lastFullRaise \in Int /\ hand.fullRaises \in Int
      BY <1>3, <1>5
    <2> QED
      BY <1>3, <2>1, <2>2, <2>3 DEF Numbers
  <1>8. Undealt(hand)
    BY <1>1, <1>3, <1>4, <1>6 DEF Undealt
  <1> QED
    BY <1>3, <1>7, <1>8 DEF EngineInv, BettingStreets, Streets

\* One step per action.
LEMMA EngineMoves == EngineInv(hand) /\ [Next]_vars => EngineStep
  <1> SUFFICES ASSUME EngineInv(hand), [Next]_vars PROVE EngineStep
    OBVIOUS
  <1> USE DEF EngineStep
  <1>0. "COMMITTED" \notin Streets /\ BettingStreets \subseteq Streets
    BY DEF Streets, BettingStreets
  <1>1. CASE Deal
    <2>1. PICK r \in New(hand) : r.ok /\ hand' = r.hand
      BY <1>1 DEF Deal
    <2>2. EngineInv(hand)' /\ hand'.recovery = hand.recovery
      BY <1>1, <2>1, Dealt DEF Deal
    <2>3. ~Running
      BY <1>0, <1>1 DEF Deal, Running
    <2> QED
      BY <2>2, <2>3
  <1>2. ASSUME NEW kind, NEW to, NEW timeout, Running,
               \E r \in apply(hand, kind, to, timeout) : r.ok /\ hand' = r.hand
        PROVE  EngineStep
    <2>1. PICK r \in apply(hand, kind, to, timeout) : r.ok /\ hand' = r.hand
      BY <1>2
    <2>2. hand.street \in BettingStreets
      BY <1>2 DEF Running, BettingStreets
    <2>3. /\ EngineInv(r.hand) /\ r.hand.recovery = hand.recovery
          /\ (r.hand.street = hand.street /\ r.hand.currentBet > hand.currentBet) => RaiseRights(hand)
      BY <2>1, <2>2, Applied
    <2> QED
      BY <1>2, <2>1, <2>3, RaiseAnswers
  <1>3. ASSUME NEW kind, Act(kind) PROVE EngineStep
    BY <1>2, <1>3 DEF Act
  <1>4. CASE Timeout
    BY <1>2, <1>4 DEF Timeout
  <1>5. ASSUME hand.street \in Streets,
               DOMAIN hand' = HandFields, hand'.street = hand.street, hand'.actor = hand.actor,
               hand'.currentBet = hand.currentBet, hand'.lastFullRaise = hand.lastFullRaise,
               hand'.fullRaises = hand.fullRaises, hand'.players = hand.players
        PROVE  EngineInv(hand)'
    BY <1>5, Aside
  <1>6. Running /\ hand'.currentBet = hand.currentBet => ~(hand'.currentBet > hand.currentBet)
    <2>1. Running => hand.currentBet \in Int
      BY DEF EngineInv, Numbers, Running
    <2> QED
      BY <2>1
  <1>7. CASE Expire
    <2>1. /\ DOMAIN hand' = HandFields /\ hand'.street = hand.street /\ hand'.actor = hand.actor
          /\ hand'.currentBet = hand.currentBet /\ hand'.lastFullRaise = hand.lastFullRaise
          /\ hand'.fullRaises = hand.fullRaises /\ hand'.players = hand.players
          /\ hand'.recovery = hand.recovery
      BY <1>7 DEF Expire, EngineInv, Shaped, HandFields
    <2>2. hand.street \in Streets
      BY <1>7 DEF Expire, Running
    <2>3. EngineInv(hand)'
      BY <1>5, <2>1, <2>2
    <2> QED
      BY <1>6, <2>1, <2>3
  <1>8. ASSUME NEW i \in Flaky, Connection(i) PROVE EngineStep
    <2>1. PICK connected \in BOOLEAN : hand' = SetConnected(hand, i, connected)
      BY <1>8 DEF Connection, EngineInv, Shaped
    <2>2. EngineInv(hand') /\ hand'.recovery = hand.recovery /\ hand'.currentBet = hand.currentBet
      BY <1>8, <2>1, Connected DEF Connection
    <2> QED
      BY <1>6, <2>2
  <1>9. CASE Restart
    <2>1. /\ DOMAIN hand' = HandFields /\ hand'.street = hand.street /\ hand'.actor = hand.actor
          /\ hand'.currentBet = hand.currentBet /\ hand'.lastFullRaise = hand.lastFullRaise
          /\ hand'.fullRaises = hand.fullRaises /\ hand'.players = hand.players
          /\ hand'.recovery = "GRACE"
      BY <1>9 DEF Restart, EngineInv, Shaped, HandFields
    <2>2. hand.street \in Streets
      BY <1>9 DEF Restart, Running
    <2>3. EngineInv(hand)'
      BY <1>5, <2>1, <2>2
    <2> QED
      BY <1>6, <2>1, <2>3
  <1>10. CASE GracePasses
    <2>1. /\ DOMAIN hand' = HandFields /\ hand'.street = hand.street /\ hand'.actor = hand.actor
          /\ hand'.currentBet = hand.currentBet /\ hand'.lastFullRaise = hand.lastFullRaise
          /\ hand'.fullRaises = hand.fullRaises /\ hand'.players = hand.players
          /\ hand'.recovery = "OVER"
      BY <1>10 DEF GracePasses, EngineInv, Shaped, HandFields
    <2>2. hand.street \in Streets
      BY <1>10 DEF GracePasses, EngineInv, Undealt
    <2>3. EngineInv(hand)'
      BY <1>5, <2>1, <2>2
    <2> QED
      BY <1>6, <2>1, <2>3
  <1>11. CASE ResumeHand
    <2>1. /\ DOMAIN hand' = HandFields /\ hand'.street = hand.street /\ hand'.actor = hand.actor
          /\ hand'.currentBet = hand.currentBet /\ hand'.lastFullRaise = hand.lastFullRaise
          /\ hand'.fullRaises = hand.fullRaises /\ hand'.players = hand.players
          /\ hand'.late = FALSE
      BY <1>11 DEF ResumeHand, Resume, setActor, EngineInv, Shaped, HandFields
    <2>2. hand.street \in Streets
      BY <1>11 DEF ResumeHand, EngineInv, Undealt
    <2>3. EngineInv(hand)'
      BY <1>5, <2>1, <2>2
    <2> QED
      BY <1>6, <2>1, <2>3
  <1>12. CASE UNCHANGED vars
    <2>1. hand' = hand
      BY <1>12 DEF vars
    <2>2. EngineInv(hand') /\ hand'.recovery = hand.recovery /\ hand'.currentBet = hand.currentBet
      BY <2>1
    <2> QED
      BY <1>6, <2>2
  <1> QED
    BY <1>1, <1>3, <1>4, <1>7, <1>8, <1>9, <1>10, <1>11, <1>12 DEF Next

\* In every hand the bets, the raises and who acted on them fit together.
THEOREM EngineSound == Spec => []EngineInv(hand)
  <1>1. EngineInv(hand) /\ [Next]_vars => EngineInv(hand)'
    BY EngineMoves DEF EngineStep
  <1> QED
    BY <1>1, EngineInitially, PTL DEF Spec

\* legal gives a seat that already acted on a street the right to raise only after a
\* full raise: for all stacks, blinds and interleavings of clocks, connections and
\* restarts, the bet has then grown by a big blind above the seat's own.
THEOREM ReopenedByFullRaiseHolds == Spec => ReopenedByFullRaise
  <1>1. EngineInv(hand) /\ [Next]_vars =>
          [/\ Running /\ hand'.street = hand.street /\ hand'.currentBet > hand.currentBet
           /\ hand.players[hand.actor].acted # -1
           => hand.currentBet - hand.players[hand.actor].street >= BigBlind]_vars
    BY EngineMoves DEF EngineStep
  <1> QED
    BY <1>1, EngineSound, PTL DEF Spec, ReopenedByFullRaise

\* settle sits out whoever is away when the hand ends, SetConnected whoever leaves after
\* it, and Resume starts a new window with nobody charged.
THEOREM AbsenceChargedHolds == Spec => AbsenceCharged
  <1>1. EngineInv(hand) =>
          (hand.street = "SETTLED" =>
             \A i \in In(hand) : hand.players[i].gone => hand.players[i].goneOut)
    BY DEF EngineInv, Away
  <1>2. EngineInv(hand) /\ [Next]_vars =>
          [hand.recovery # "NONE" /\ hand'.recovery = "NONE"
             => ~hand'.late /\ hand'.players = hand.players]_vars
    BY EngineMoves DEF EngineStep
  <1> QED
    BY <1>1, <1>2, EngineSound, PTL DEF Spec, AbsenceCharged
-----------------------------------------------------------------------------
\* The highest of a finite set of numbers, and of the values of a function.
LEMMA MaxOf ==
  ASSUME NEW S, IsFiniteSet(S), S # {}, S \subseteq Int
  PROVE  Max(S) \in S /\ \A x \in S : x <= Max(S)
  <1> DEFINE D == [x \in S |-> x]
  <1>1. \A x \in S : D[x] \in Int
    OBVIOUS
  <1>2. PICK o \in S : \A x \in S : D[x] <= D[o]
    <2> HIDE DEF D
    <2> QED BY <1>1, GreatestValue
  <1>3. \A x \in S : o >= x
    BY <1>2
  <1>4. Max(S) \in S /\ \A y \in S : Max(S) >= y
    BY <1>3 DEF Max
  <1> QED
    BY <1>4

\* The values of a function on a finite set are finitely many.
LEMMA ImageFinite ==
  ASSUME NEW S, IsFiniteSet(S), NEW f
  PROVE  IsFiniteSet({f[x] : x \in S})
  <1> DEFINE T == {f[x] : x \in S}
             g == [x \in S |-> f[x]]
  <1>1. g \in Surjection(S, T)
    BY DEF Surjection
  <1> HIDE DEF T, g
  <1>2. IsFiniteSet(T)
    BY <1>1, FS_Surjection
  <1> QED
    BY <1>2 DEF T

\* Highest bounds what it ranges over, and one of them reaches it unless it is 0.
LEMMA HighestOf ==
  ASSUME NEW S, IsFiniteSet(S), NEW f, \A i \in S : f[i] \in Nat
  PROVE  /\ Highest(f, S) \in Nat
         /\ \A i \in S : f[i] <= Highest(f, S)
         /\ Highest(f, S) = 0 \/ \E i \in S : f[i] = Highest(f, S)
  <1> DEFINE V == {f[i] : i \in S}
             W == {0} \cup V
  <1>1. IsFiniteSet(V)
    BY ImageFinite
  <1>2. IsFiniteSet(W)
    <2> HIDE DEF V
    <2> QED BY <1>1, FS_Singleton, FS_Union
  <1>3. W # {} /\ W \subseteq Int
    OBVIOUS
  <1>4. Highest(f, S) = Max(W)
    BY DEF Highest
  <1>5. Max(W) \in W /\ \A x \in W : x <= Max(W)
    <2> HIDE DEF W
    <2> QED BY <1>2, <1>3, MaxOf
  <1> HIDE DEF W
  <1>6. \A i \in S : f[i] \in W
    BY DEF W
  <1>7. Max(W) = 0 \/ \E i \in S : f[i] = Max(W)
    BY <1>5 DEF W
  <1> QED
    BY <1>4, <1>5, <1>6, <1>7
-----------------------------------------------------------------------------
\* Some live seat has paid as much as anybody.
LiveTop(s) == \A i \in In(s) : \E j \in Live(s) : s.players[i].total <= s.players[j].total
\* A hand whose pots can be divided.
Divisible(s) ==
    /\ In(s) \subseteq 1..9 /\ In(s) # {} /\ s.button \in In(s)
    /\ \A i \in In(s) : s.players[i].total \in Nat /\ s.rank[i] \in Nat
    /\ LiveTop(s)
Step(s) == [l \in Levels(s) |-> l - Floor(s, l)]
Upto(s, m) == {l \in Levels(s) : l <= m}

\* Any set of seats is finite.
LEMMA SeatsFinite == ASSUME NEW S \in SUBSET (1..9) PROVE IsFiniteSet(S)
  <1>1. 1 \in Int /\ 9 \in Int
    OBVIOUS
  <1>2. IsFiniteSet(1..9)
    BY <1>1, FS_Interval
  <1> QED
    BY <1>2, FS_Subset

\* The levels at which settle cuts the pots are finitely many positive payments.
LEMMA LevelsFinite ==
  ASSUME NEW s, Divisible(s)
  PROVE  IsFiniteSet(In(s)) /\ IsFiniteSet(Levels(s)) /\ Levels(s) \subseteq Nat \ {0}
  <1>1. IsFiniteSet(In(s))
    BY SeatsFinite DEF Divisible
  <1> DEFINE V == {s.players[i].total : i \in In(s)}
  <1>2. IsFiniteSet(V)
    <2>1. V = {Totals(s)[i] : i \in In(s)}
      BY DEF Totals
    <2> HIDE DEF V
    <2> QED BY <1>1, <2>1, ImageFinite
  <1>3. Levels(s) \subseteq V
    BY DEF Levels
  <1>4. IsFiniteSet(Levels(s))
    <2> HIDE DEF V
    <2> QED BY <1>2, <1>3, FS_Subset
  <1>5. Levels(s) \subseteq Nat \ {0}
    BY DEF Levels, Divisible
  <1> QED
    BY <1>1, <1>4, <1>5

\* The floor of a pot is the next level below its ceiling.
LEMMA FloorBelow ==
  ASSUME NEW s, Divisible(s), NEW l \in Levels(s)
  PROVE  /\ Floor(s, l) \in Levels(s) \cup {0} /\ Floor(s, l) \in Nat /\ Floor(s, l) < l
         /\ \A m \in Levels(s) : m < l => m <= Floor(s, l)
  <1> DEFINE B == {m \in Levels(s) : m < l}
             W == {0} \cup B
  <1>1. IsFiniteSet(W) /\ W # {} /\ W \subseteq Int
    <2>1. IsFiniteSet(B) /\ B \subseteq Nat
      BY LevelsFinite, FS_Subset
    <2>2. IsFiniteSet({0})
      BY FS_Singleton
    <2> HIDE DEF B
    <2>3. IsFiniteSet({0} \cup B)
      BY <2>1, <2>2, FS_Union
    <2> QED
      BY <2>1, <2>3
  <1>2. Floor(s, l) = Max(W)
    BY DEF Floor
  <1>3. Max(W) \in W /\ \A x \in W : x <= Max(W)
    <2> HIDE DEF W
    <2> QED BY <1>1, MaxOf
  <1>4. Levels(s) \subseteq Nat \ {0}
    BY LevelsFinite
  <1>5. \A x \in W : x \in Levels(s) \cup {0} /\ x \in Nat /\ x < l
    BY <1>4
  <1>6. \A m \in Levels(s) : m < l => m \in W
    OBVIOUS
  <1> HIDE DEF W, B
  <1> QED
    BY <1>2, <1>3, <1>5, <1>6

\* The heights of the pots up to a level add up to the level.
LEMMA Heights ==
  ASSUME NEW s, Divisible(s), NEW m \in Levels(s) \cup {0}
  PROVE  IsFiniteSet(Upto(s, m)) /\ SumFunctionOnSet(Step(s), Upto(s, m)) = m
  <1> DEFINE L == Levels(s)
             Off == {n \in L \cup {0} : SumFunctionOnSet(Step(s), Upto(s, n)) # n}
  <1>1. IsFiniteSet(L) /\ L \subseteq Nat \ {0}
    BY LevelsFinite
  <1>2. \A n : IsFiniteSet(Upto(s, n))
    BY <1>1, FS_Subset DEF Upto
  <1>3. \A l \in L : Step(s)[l] \in Nat /\ Step(s)[l] = l - Floor(s, l)
    BY <1>1, FloorBelow DEF Step
  <1>4. ASSUME NEW n \in Off, \A k \in Off : n <= k PROVE FALSE
    <2>1. n # 0
      <3>1. Upto(s, 0) = {}
        BY <1>1 DEF Upto
      <3>2. SumFunctionOnSet(Step(s), {}) = 0
        BY SumEmpty
      <3> QED
        BY <3>1, <3>2
    <2>2. n \in L /\ n \in Nat
      BY <2>1, <1>1
    <2>3. PICK f : f = Floor(s, n)
      OBVIOUS
    <2>4. f \in L \cup {0} /\ f \in Nat /\ f < n /\ \A k \in L : k < n => k <= f
      BY <2>2, <2>3, FloorBelow
    <2>5. Upto(s, n) \ {n} = Upto(s, f) /\ n \in Upto(s, n)
      <3>1. n <= n
        BY <2>2
      <3>2. ASSUME NEW k \in L PROVE (k <= n /\ k # n) <=> k <= f
        BY <1>1, <2>2, <2>4
      <3> QED
        BY <2>2, <3>1, <3>2 DEF Upto
    <2>6. SumFunctionOnSet(Step(s), Upto(s, n))
             = Step(s)[n] + SumFunctionOnSet(Step(s), Upto(s, n) \ {n})
      <3>1. \A l \in Upto(s, n) : Step(s)[l] \in Int
        BY <1>3 DEF Upto
      <3> QED
        BY <1>2, <2>5, <3>1, SumRemove
    <2>7. SumFunctionOnSet(Step(s), Upto(s, f)) = f
      <3>1. f \notin Off
        BY <1>4, <2>2, <2>4
      <3> QED
        BY <2>4, <3>1
    <2>8. Step(s)[n] = n - f
      BY <1>3, <2>2, <2>3
    <2>9. SumFunctionOnSet(Step(s), Upto(s, n)) = n
      BY <2>2, <2>4, <2>5, <2>6, <2>7, <2>8
    <2> QED
      BY <2>9
  <1>5. Off = {}
    <2>1. Off \in SUBSET Nat
      BY <1>1
    <2> HIDE DEF Off
    <2> QED
      BY <1>4, <2>1, Smallest
  <1> QED
    BY <1>2, <1>5

Amounts(s) == [l \in Levels(s) |-> Amount(s, l)]
Paying(s, l) == {i \in In(s) : s.players[i].total >= l}
\* What the others and itself have put in up to the amount m.
Within(s, m) == [j \in In(s) |-> Min({m, s.players[j].total})]
\* The share of a seat in the pot below a level.
Shares(s) == [l \in Levels(s) |-> [j \in In(s) |-> IF s.players[j].total >= l THEN Step(s)[l] ELSE 0]]

\* A pot of PotsOf is what each seat that reaches its level puts in, added up.
LEMMA PotOfShares ==
  ASSUME NEW s, Divisible(s), NEW l \in Levels(s)
  PROVE  /\ Amount(s, l) = SumFunctionOnSet(Shares(s)[l], In(s)) /\ Amount(s, l) \in Nat
         /\ IsFiniteSet(Paying(s, l)) /\ Step(s)[l] \in Nat
         /\ Amount(s, l) = Step(s)[l] * Cardinality(Paying(s, l))
  <1> DEFINE R == Paying(s, l)
             e == [j \in In(s) |-> Step(s)[l]]
  <1>1. IsFiniteSet(In(s)) /\ Levels(s) \subseteq Nat \ {0}
    BY LevelsFinite
  <1>2. Step(s)[l] \in Nat /\ Step(s)[l] = l - Floor(s, l)
    BY <1>1, FloorBelow DEF Step
  <1>3. R \in SUBSET In(s) /\ IsFiniteSet(R) /\ Cardinality(R) \in Nat
    BY <1>1, FS_Subset, FS_CardinalityType DEF Paying
  <1>4. Amount(s, l) = Step(s)[l] * Cardinality(R)
    BY <1>2 DEF Amount, Paying
  <1>5. /\ \A j \in R : e[j] \in Int /\ Shares(s)[l][j] = e[j]
        /\ \A j \in In(s) \ R : Shares(s)[l][j] = 0
        /\ \A j \in R : e[j] = Step(s)[l]
    BY <1>2 DEF Shares, Paying
  <1> HIDE DEF R, e
  <1>6. SumFunctionOnSet(Shares(s)[l], In(s)) = SumFunctionOnSet(e, R)
    BY <1>1, <1>3, <1>5, SumWithin
  <1>7. SumFunctionOnSet(e, R) = Step(s)[l] * Cardinality(R)
    BY <1>2, <1>3, <1>5, SumConstant
  <1>8. Step(s)[l] * Cardinality(R) \in Nat
    BY <1>2, <1>3
  <1> QED
    BY <1>2, <1>3, <1>4, <1>6, <1>7, <1>8 DEF R

\* The pots up to a level hold what everybody has put in up to it.
LEMMA Covering ==
  ASSUME NEW s, Divisible(s), NEW m \in Levels(s) \cup {0}
  PROVE  SumFunctionOnSet(Amounts(s), Upto(s, m)) = SumFunctionOnSet(Within(s, m), In(s))
  <1> DEFINE U == Upto(s, m)
             h == Shares(s)
             c == [j \in In(s) |-> [l \in Levels(s) |-> Shares(s)[l][j]]]
  <1>1. IsFiniteSet(In(s)) /\ IsFiniteSet(Levels(s)) /\ Levels(s) \subseteq Nat \ {0}
    BY LevelsFinite
  <1>2. U \in SUBSET Levels(s) /\ IsFiniteSet(U)
    BY Heights DEF Upto
  <1>3. \A l \in Levels(s) : Step(s)[l] \in Nat
    BY PotOfShares
  <1>4. \A l \in U, j \in In(s) : h[l][j] \in Int
    BY <1>2, <1>3 DEF Shares
  <1>5. \A l \in U : Amounts(s)[l] = SumFunctionOnSet(h[l], In(s))
    BY <1>2, PotOfShares DEF Amounts
  <1>6. \A j \in In(s), l \in U : c[j][l] = h[l][j]
    BY <1>2
  <1>7. ASSUME NEW j \in In(s) PROVE Within(s, m)[j] = SumFunctionOnSet(c[j], U)
    <2>1. PICK t : t = s.players[j].total
      OBVIOUS
    <2>2. t \in Nat /\ m \in Nat /\ t \in Levels(s) \cup {0}
      BY <1>1, <2>1 DEF Divisible, Levels
    <2>3. PICK k : k = Min({m, t})
      OBVIOUS
    <2>4. k \in Levels(s) \cup {0} /\ k \in Nat /\ k <= m /\ k <= t /\ (k = m \/ k = t)
      <3>1. k = IF m <= t THEN m ELSE t
        BY <2>2, <2>3, MinTwo
      <3> QED
        BY <2>2, <3>1
    <2>5. Upto(s, k) \in SUBSET U
      BY <1>1, <2>2, <2>4 DEF Upto
    <2>6. \A l \in Upto(s, k) : Step(s)[l] \in Int /\ c[j][l] = Step(s)[l]
      <3>1. ASSUME NEW l \in Upto(s, k) PROVE Step(s)[l] \in Int /\ c[j][l] = Step(s)[l]
        <4>1. l \in Levels(s) /\ l <= k
          BY DEF Upto
        <4>2. t >= l
          BY <1>1, <2>2, <2>4, <4>1
        <4> QED
          BY <1>3, <2>1, <4>1, <4>2 DEF Shares
      <3> QED
        BY <3>1
    <2>7. \A l \in U \ Upto(s, k) : c[j][l] = 0
      <3>1. ASSUME NEW l \in U \ Upto(s, k) PROVE c[j][l] = 0
        <4>1. l \in Levels(s) /\ l <= m /\ ~(l <= k)
          BY DEF Upto
        <4>2. ~(t >= l)
          BY <1>1, <2>2, <2>4, <4>1
        <4> QED
          BY <2>1, <4>1, <4>2 DEF Shares
      <3> QED
        BY <3>1
    <2> HIDE DEF c, U
    <2>8. SumFunctionOnSet(c[j], U) = SumFunctionOnSet(Step(s), Upto(s, k))
      BY <1>2, <2>5, <2>6, <2>7, SumWithin
    <2>9. SumFunctionOnSet(Step(s), Upto(s, k)) = k
      BY <2>4, Heights
    <2> QED
      BY <2>1, <2>3, <2>8, <2>9 DEF Within
  <1> HIDE DEF U, h, c
  <1> QED
    BY <1>1, <1>2, <1>4, <1>5, <1>6, <1>7, SumSwap DEF U
-----------------------------------------------------------------------------
\* Clockwise distances from the button are different.
LEMMA DistancesDiffer ==
  ASSUME NEW s, s.button \in 1..9, NEW i \in 1..9
  PROVE  /\ Distance(s, i) \in Int
         /\ \A j \in 1..9 : Distance(s, i) = Distance(s, j) => i = j
  <1>1. PICK b \in 1..9 : b = s.button
    OBVIOUS
  <1>2. \A j \in 1..9 : j # b => (j - b + 9) % 9 = IF j > b THEN j - b ELSE j - b + 9
    OBVIOUS
  <1>3. \A j \in 1..9 : Distance(s, j) = IF j = b THEN 9 ELSE IF j > b THEN j - b ELSE j - b + 9
    BY <1>1, <1>2 DEF Distance
  <1> QED
    BY <1>3

\* Somebody wins each pot, and is one of those it was open to.
LEMMA WinnersExist ==
  ASSUME NEW s, Divisible(s), NEW l \in Levels(s)
  PROVE  /\ Eligible(s, l) # {} /\ Winners(s, l) # {}
         /\ Winners(s, l) \subseteq Eligible(s, l) /\ Eligible(s, l) \subseteq In(s)
         /\ IsFiniteSet(Winners(s, l))
  <1>1. Eligible(s, l) \subseteq In(s) /\ Winners(s, l) \subseteq Eligible(s, l)
    BY DEF Eligible, Live, Winners
  <1>2. Eligible(s, l) # {}
    <2>1. PICK i \in In(s) : l = s.players[i].total
      BY DEF Levels
    <2>2. PICK j \in Live(s) : s.players[i].total <= s.players[j].total
      BY DEF Divisible, LiveTop
    <2>3. j \in In(s) /\ s.players[j].total \in Nat /\ s.players[i].total \in Nat
      BY DEF Live, Divisible
    <2> QED
      BY <2>1, <2>2, <2>3 DEF Eligible
  <1>3. IsFiniteSet(Eligible(s, l)) /\ IsFiniteSet(Winners(s, l))
    BY <1>1, LevelsFinite, FS_Subset
  <1>4. \A j \in Eligible(s, l) : s.rank[j] \in Int
    BY <1>1 DEF Divisible
  <1>5. PICK o \in Eligible(s, l) : \A j \in Eligible(s, l) : s.rank[j] <= s.rank[o]
    BY <1>2, <1>3, <1>4, GreatestValue
  <1>6. o \in Winners(s, l)
    BY <1>5 DEF Winners
  <1> QED
    BY <1>1, <1>2, <1>3, <1>6

\* The shares and the odd chips of a pot are the pot.
LEMMA PotAwarded ==
  ASSUME NEW s, Divisible(s), NEW l \in Levels(s)
  PROVE  /\ \A i \in In(s) : Pot(s, l).awards[i] \in Nat
         /\ \A i \in In(s) \ Winners(s, l) : Pot(s, l).awards[i] = 0
         /\ SumFunctionOnSet(Pot(s, l).awards, In(s)) = Amount(s, l)
  <1>1. PICK W : W = Winners(s, l)
    OBVIOUS
  <1>2. PICK a : a = Amount(s, l)
    OBVIOUS
  <1>3. /\ W # {} /\ W \in SUBSET In(s) /\ IsFiniteSet(W) /\ IsFiniteSet(In(s)) /\ a \in Nat
    BY <1>1, <1>2, WinnersExist, LevelsFinite, PotOfShares
  <1>4. PICK n : n = Cardinality(W)
    OBVIOUS
  <1>5. n \in Nat /\ n > 0
    <2>1. n \in Nat /\ n # 0
      BY <1>3, <1>4, FS_CardinalityType, FS_EmptySet
    <2> QED
      BY <2>1
  <1>6. PICK q, r : q = a \div n /\ r = a % n
    OBVIOUS
  <1>7. q \in Nat /\ r \in 0..(n - 1) /\ a = q * n + r
    BY <1>3, <1>5, <1>6, QuotientAndRest
  <1> DEFINE D == [i \in W |-> Distance(s, i)]
             early == FirstRanked(D, W, r)
             base == [i \in In(s) |-> q]
             odd == [i \in In(s) |-> IF i \in early THEN 1 ELSE 0]
             both == [i \in In(s) |-> IF i \in early THEN q + 1 ELSE q]
             awards == Pot(s, l).awards
  <1>8. /\ \A i \in W : D[i] \in Int
        /\ \A i, j \in W : D[i] = D[j] => i = j
    <2>1. W \subseteq 1..9 /\ s.button \in 1..9
      BY <1>3 DEF Divisible
    <2> QED
      BY <2>1, DistancesDiffer
  <1>9. Cardinality(early) = r /\ early \in SUBSET W /\ IsFiniteSet(early)
    <2>1. r \in 0..Cardinality(W)
      BY <1>4, <1>5, <1>7
    <2>2. early \in SUBSET W /\ IsFiniteSet(early)
      BY <1>3, FS_Subset DEF FirstRanked
    <2> HIDE DEF D
    <2>3. Cardinality(early) = r
      BY <1>3, <1>8, <2>1, CountRanks
    <2> QED
      BY <2>2, <2>3
  <1>10. \A i \in In(s) : awards[i] = IF i \in W THEN both[i] ELSE 0
    <2>1. awards = [i \in In(s) |-> IF W = {} THEN 0 ELSE Award(s, a, W, i)]
      BY <1>1, <1>2 DEF Pot
    <2>2. ASSUME NEW i \in W PROVE Award(s, a, W, i) = IF i \in early THEN q + 1 ELSE q
      <3>1. {j \in W : Distance(s, j) < Distance(s, i)} = {j \in W : D[j] < D[i]}
        OBVIOUS
      <3>2. Award(s, a, W, i)
               = q + (IF Cardinality({j \in W : D[j] < D[i]}) < r THEN 1 ELSE 0)
        BY <1>4, <1>6, <3>1 DEF Award
      <3> HIDE DEF D
      <3> QED
        BY <1>7, <3>2 DEF RankedBelow, FirstRanked
    <2>3. \A i \in In(s) \ W : Award(s, a, W, i) = 0
      BY DEF Award
    <2> HIDE DEF early, awards
    <2> QED
      BY <1>3, <2>1, <2>2, <2>3
  <1> HIDE DEF early, awards, D
  <1>11. \A i \in In(s) : awards[i] \in Nat
    BY <1>7, <1>10
  <1>12. \A i \in In(s) \ W : awards[i] = 0
    BY <1>10
  <1>13. SumFunctionOnSet(awards, In(s)) = SumFunctionOnSet(both, W)
    <2>1. \A i \in W : both[i] \in Int /\ awards[i] = both[i]
      BY <1>3, <1>7, <1>10
    <2> HIDE DEF both
    <2> QED
      BY <1>3, <1>12, <2>1, SumWithin
  <1>14. SumFunctionOnSet(both, W) = SumFunctionOnSet(base, W) + SumFunctionOnSet(odd, W)
    <2>1. \A i \in W : base[i] \in Int /\ odd[i] \in Int /\ both[i] = base[i] + odd[i]
      BY <1>3, <1>7
    <2> HIDE DEF both, base, odd
    <2> QED
      BY <1>3, <2>1, SumAdd
  <1>15. SumFunctionOnSet(base, W) = q * n
    <2>1. \A i \in W : base[i] = q
      BY <1>3
    <2> HIDE DEF base
    <2> QED
      BY <1>3, <1>4, <1>7, <2>1, SumConstant
  <1>16. SumFunctionOnSet(odd, W) = r
    <2> DEFINE one == [i \in In(s) |-> 1]
    <2>1. \A i \in early : one[i] \in Int /\ odd[i] = one[i] /\ one[i] = 1
      BY <1>3, <1>9
    <2>2. \A i \in W \ early : odd[i] = 0
      BY <1>3
    <2> HIDE DEF odd, one
    <2>3. SumFunctionOnSet(odd, W) = SumFunctionOnSet(one, early)
      BY <1>3, <1>9, <2>1, <2>2, SumWithin
    <2>4. SumFunctionOnSet(one, early) = 1 * Cardinality(early)
      BY <1>9, <2>1, SumConstant
    <2> QED
      BY <1>7, <1>9, <2>3, <2>4
  <1>17. SumFunctionOnSet(awards, In(s)) = a
    BY <1>7, <1>13, <1>14, <1>15, <1>16
  <1> QED
    BY <1>1, <1>2, <1>11, <1>12, <1>17 DEF awards

\* What a seat gets from the pot below each level.
Draws(s, i) == [l \in Levels(s) |-> Pot(s, l).awards[i]]

\* Nobody draws more than the pot, and only its winners, who reach its level, draw.
LEMMA DrawsNat ==
  ASSUME NEW s, Divisible(s), NEW i \in In(s)
  PROVE  \A l \in Levels(s) :
            /\ Draws(s, i)[l] \in Nat /\ Draws(s, i)[l] <= Amounts(s)[l]
            /\ Amounts(s)[l] \in Nat
            /\ i \notin Winners(s, l) => Draws(s, i)[l] = 0
            /\ ~(l <= s.players[i].total) => Draws(s, i)[l] = 0
  <1> SUFFICES ASSUME NEW l \in Levels(s)
               PROVE  /\ Draws(s, i)[l] \in Nat /\ Draws(s, i)[l] <= Amounts(s)[l]
                      /\ Amounts(s)[l] \in Nat
                      /\ i \notin Winners(s, l) => Draws(s, i)[l] = 0
                      /\ ~(l <= s.players[i].total) => Draws(s, i)[l] = 0
    OBVIOUS
  <1>1. PICK f : f = Pot(s, l).awards
    OBVIOUS
  <1>2. /\ \A j \in In(s) : f[j] \in Nat
        /\ \A j \in In(s) \ Winners(s, l) : f[j] = 0
        /\ SumFunctionOnSet(f, In(s)) = Amount(s, l)
    BY <1>1, PotAwarded
  <1>3. Draws(s, i)[l] = f[i] /\ Amounts(s)[l] = Amount(s, l) /\ Amount(s, l) \in Nat
    BY <1>1, PotOfShares DEF Draws, Amounts
  <1>4. f[i] <= Amount(s, l)
    <2>1. IsFiniteSet(In(s)) /\ IsFiniteSet(In(s) \ {i})
      BY LevelsFinite, FS_RemoveElement
    <2>2. SumFunctionOnSet(f, In(s)) = f[i] + SumFunctionOnSet(f, In(s) \ {i})
      BY <1>2, <2>1, SumRemove
    <2>3. SumFunctionOnSet(f, In(s) \ {i}) \in Nat
      BY <1>2, <2>1, SumNat
    <2> QED
      BY <1>2, <2>2, <2>3
  <1>5. ~(l <= s.players[i].total) => i \notin Winners(s, l)
    <2>1. l \in Nat /\ s.players[i].total \in Nat
      BY LevelsFinite DEF Divisible
    <2>2. i \in Winners(s, l) => s.players[i].total >= l
      BY WinnersExist DEF Eligible
    <2> QED
      BY <2>1, <2>2
  <1> QED
    BY <1>2, <1>3, <1>4, <1>5

\* A seat draws from the pots up to its own payment, and no more than they hold.
LEMMA DrawsWithin ==
  ASSUME NEW s, Divisible(s), NEW i \in In(s), NEW t, t = s.players[i].total
  PROVE  /\ SumFunctionOnSet(Draws(s, i), Levels(s)) \in Nat
         /\ SumFunctionOnSet(Draws(s, i), Levels(s)) = SumFunctionOnSet(Draws(s, i), Upto(s, t))
         /\ SumFunctionOnSet(Draws(s, i), Levels(s)) <= SumFunctionOnSet(Within(s, t), In(s))
         /\ SumFunctionOnSet(Amounts(s), Upto(s, t)) = SumFunctionOnSet(Within(s, t), In(s))
  <1>1. IsFiniteSet(Levels(s)) /\ t \in Levels(s) \cup {0} /\ Upto(s, t) \in SUBSET Levels(s)
        /\ IsFiniteSet(Upto(s, t))
    <2>1. t \in Levels(s) \cup {0}
      BY DEF Levels
    <2> QED
      BY <2>1, LevelsFinite, Heights DEF Upto
  <1>2. \A l \in Levels(s) : Draws(s, i)[l] \in Nat /\ Draws(s, i)[l] <= Amounts(s)[l]
                             /\ Amounts(s)[l] \in Nat
    BY DrawsNat
  <1>3. \A l \in Levels(s) \ Upto(s, t) : Draws(s, i)[l] = 0
    BY DrawsNat DEF Upto
  <1>4. SumFunctionOnSet(Draws(s, i), Levels(s)) \in Nat
    BY <1>1, <1>2, SumNat
  <1>5. SumFunctionOnSet(Draws(s, i), Levels(s)) = SumFunctionOnSet(Draws(s, i), Upto(s, t))
    <2>1. \A l \in Upto(s, t) : Draws(s, i)[l] \in Int /\ Draws(s, i)[l] = Draws(s, i)[l]
      BY <1>1, <1>2
    <2> QED
      BY <1>1, <1>3, <2>1, SumWithin
  <1>6. SumFunctionOnSet(Draws(s, i), Upto(s, t)) <= SumFunctionOnSet(Amounts(s), Upto(s, t))
    <2>1. \A l \in Upto(s, t) : Draws(s, i)[l] \in Int /\ Amounts(s)[l] \in Int
                                /\ Draws(s, i)[l] <= Amounts(s)[l]
      BY <1>1, <1>2
    <2> QED
      BY <1>1, <2>1, SumLe
  <1>7. SumFunctionOnSet(Amounts(s), Upto(s, t)) = SumFunctionOnSet(Within(s, t), In(s))
    BY <1>1, Covering
  <1> QED
    BY <1>4, <1>5, <1>6, <1>7

\* A folded seat draws nothing.
LEMMA FoldedDrawsNothing ==
  ASSUME NEW s, Divisible(s), NEW i \in In(s), i \notin Live(s)
  PROVE  SumFunctionOnSet(Draws(s, i), Levels(s)) = 0
  <1>1. \A l \in Levels(s) : Draws(s, i)[l] = 0
    <2>1. \A l \in Levels(s) : i \notin Winners(s, l)
      BY WinnersExist DEF Eligible
    <2> QED
      BY <2>1, DrawsNat
  <1>2. IsFiniteSet(Levels(s))
    BY LevelsFinite
  <1>3. SumFunctionOnSet(Draws(s, i), Levels(s)) = 0 * Cardinality(Levels(s))
    BY <1>1, <1>2, SumConstant
  <1>4. Cardinality(Levels(s)) \in Nat
    BY <1>2, FS_CardinalityType
  <1> QED
    BY <1>3, <1>4

\* The strictly best live hand takes all that it covers.
LEMMA BestDrawsAll ==
  ASSUME NEW s, Divisible(s), NEW i \in Live(s), \A j \in Live(s) \ {i} : s.rank[j] < s.rank[i],
         NEW t, t = s.players[i].total
  PROVE  SumFunctionOnSet(Draws(s, i), Levels(s)) = SumFunctionOnSet(Within(s, t), In(s))
  <1>1. i \in In(s)
    BY DEF Live
  <1>2. ASSUME NEW l \in Upto(s, t) PROVE Draws(s, i)[l] = Amounts(s)[l]
    <2>1. l \in Levels(s) /\ l <= t /\ l \in Nat /\ t \in Nat
      BY <1>1, LevelsFinite DEF Upto, Divisible
    <2>2. i \in Eligible(s, l)
      BY <2>1 DEF Eligible
    <2>3. \A j \in Winners(s, l) : j = i
      <3>1. ASSUME NEW j \in Winners(s, l), j # i PROVE FALSE
        <4>1. j \in Live(s) /\ s.rank[i] <= s.rank[j]
          BY <2>2 DEF Winners, Eligible
        <4>2. s.rank[j] < s.rank[i] /\ s.rank[j] \in Nat /\ s.rank[i] \in Nat
          BY <1>1, <3>1, <4>1 DEF Live, Divisible
        <4> QED
          BY <4>1, <4>2
      <3> QED
        BY <3>1
    <2>4. PICK f : f = Pot(s, l).awards
      OBVIOUS
    <2>5. /\ \A j \in In(s) : f[j] \in Nat
          /\ \A j \in In(s) \ Winners(s, l) : f[j] = 0
          /\ SumFunctionOnSet(f, In(s)) = Amount(s, l)
      BY <2>1, <2>4, PotAwarded
    <2>6. SumFunctionOnSet(f, In(s)) = f[i]
      <3>1. f[i] \in Int /\ \A j \in In(s) \ {i} : f[j] = 0
        BY <1>1, <2>3, <2>5
      <3>2. IsFiniteSet(In(s))
        BY LevelsFinite
      <3> QED
        BY <1>1, <3>1, <3>2, SumSingle
    <2> QED
      BY <2>1, <2>4, <2>5, <2>6 DEF Draws, Amounts
  <1>3. IsFiniteSet(Upto(s, t))
    <2>1. t \in Levels(s) \cup {0}
      BY <1>1 DEF Levels
    <2> QED
      BY <2>1, Heights
  <1>4. SumFunctionOnSet(Draws(s, i), Upto(s, t)) = SumFunctionOnSet(Amounts(s), Upto(s, t))
    BY <1>2, <1>3, SumCong
  <1> QED
    BY <1>1, <1>4, DrawsWithin

\* Equal hands with equal payments differ by an odd chip of each pot.
LEMMA TiesDiffer ==
  ASSUME NEW s, Divisible(s), NEW i \in Live(s), NEW j \in Live(s), s.rank[i] = s.rank[j],
         s.players[i].total = s.players[j].total
  PROVE  SumFunctionOnSet(Draws(s, i), Levels(s))
            <= SumFunctionOnSet(Draws(s, j), Levels(s)) + Cardinality(Levels(s))
  <1>1. i \in In(s) /\ j \in In(s)
    BY DEF Live
  <1>2. ASSUME NEW l \in Levels(s) PROVE Draws(s, i)[l] <= Draws(s, j)[l] + 1
    <2>1. Draws(s, i)[l] \in Nat /\ Draws(s, j)[l] \in Nat
      BY <1>1, DrawsNat
    <2>2. CASE i \notin Winners(s, l)
      <3>1. Draws(s, i)[l] = 0
        BY <1>1, <2>2, DrawsNat
      <3> QED
        BY <2>1, <3>1
    <2>3. CASE i \in Winners(s, l)
      <3>1. j \in Winners(s, l)
        BY <2>3 DEF Winners, Eligible
      <3>2. PICK W, a : W = Winners(s, l) /\ a = Amount(s, l)
        OBVIOUS
      <3>3. W # {}
        BY <2>3, <3>2
      <3>4. Draws(s, i)[l] = Award(s, a, W, i) /\ Draws(s, j)[l] = Award(s, a, W, j)
        <4>1. Pot(s, l).awards = [k \in In(s) |-> IF W = {} THEN 0 ELSE Award(s, a, W, k)]
          BY <3>2 DEF Pot
        <4> QED
          BY <1>1, <3>3, <4>1 DEF Draws
      <3>5. PICK q : q = a \div Cardinality(W)
        OBVIOUS
      <3>6. q \in Int
        <4>1. IsFiniteSet(W) /\ a \in Nat
          BY <3>2, WinnersExist, PotOfShares
        <4>2. Cardinality(W) \in Nat /\ Cardinality(W) # 0
          BY <3>3, <4>1, FS_CardinalityType, FS_EmptySet
        <4> QED
          BY <3>5, <4>1, <4>2, QuotientAndRest
      <3>7. PICK x \in {0, 1} : Award(s, a, W, i) = q + x
        BY <2>3, <3>2, <3>5 DEF Award
      <3>8. PICK y \in {0, 1} : Award(s, a, W, j) = q + y
        BY <3>1, <3>2, <3>5 DEF Award
      <3> QED
        BY <3>4, <3>6, <3>7, <3>8
    <2> QED
      BY <2>2, <2>3
  <1>3. IsFiniteSet(Levels(s)) /\ \A l \in Levels(s) : Draws(s, i)[l] \in Nat /\ Draws(s, j)[l] \in Nat
    BY <1>1, LevelsFinite, DrawsNat
  <1> DEFINE one == [l \in Levels(s) |-> 1]
             more == [l \in Levels(s) |-> Draws(s, j)[l] + 1]
  <1>4. \A l \in Levels(s) : /\ Draws(s, i)[l] \in Int /\ more[l] \in Int /\ Draws(s, j)[l] \in Int
                             /\ one[l] \in Int /\ one[l] = 1
                             /\ more[l] = Draws(s, j)[l] + one[l] /\ Draws(s, i)[l] <= more[l]
    BY <1>2, <1>3
  <1> HIDE DEF one, more
  <1>5. SumFunctionOnSet(Draws(s, i), Levels(s)) <= SumFunctionOnSet(more, Levels(s))
    BY <1>3, <1>4, SumLe
  <1>6. SumFunctionOnSet(more, Levels(s))
           = SumFunctionOnSet(Draws(s, j), Levels(s)) + SumFunctionOnSet(one, Levels(s))
    BY <1>3, <1>4, SumAdd
  <1>7. SumFunctionOnSet(one, Levels(s)) = 1 * Cardinality(Levels(s)) /\ Cardinality(Levels(s)) \in Nat
    BY <1>3, <1>4, SumConstant, FS_CardinalityType
  <1>8. 1 * Cardinality(Levels(s)) = Cardinality(Levels(s))
    BY <1>7
  <1> QED
    BY <1>5, <1>6, <1>7, <1>8

\* All pots together hold, and award, all that was paid into them.
LEMMA AllAwarded ==
  ASSUME NEW s, Divisible(s), NEW g, \A i \in In(s) : g[i] = SumFunctionOnSet(Draws(s, i), Levels(s))
  PROVE  /\ SumFunctionOnSet(Amounts(s), Levels(s)) = SumFunctionOnSet(Totals(s), In(s))
         /\ SumFunctionOnSet(g, In(s)) = SumFunctionOnSet(Totals(s), In(s))
  <1>1. IsFiniteSet(In(s)) /\ IsFiniteSet(Levels(s))
    BY LevelsFinite
  <1>2. \A i \in In(s) : Totals(s)[i] \in Nat /\ Totals(s)[i] = s.players[i].total
    BY DEF Totals, Divisible
  <1>3. PICK m : m = Top(s)
    OBVIOUS
  <1>4. m \in Levels(s) \cup {0} /\ m \in Nat /\ \A i \in In(s) : Totals(s)[i] <= m
    <2>1. /\ m \in Nat /\ \A i \in In(s) : Totals(s)[i] <= m
          /\ m = 0 \/ \E i \in In(s) : Totals(s)[i] = m
      BY <1>1, <1>2, <1>3, HighestOf DEF Top
    <2> QED
      BY <1>2, <2>1 DEF Levels
  <1>5. Upto(s, m) = Levels(s)
    BY <1>2, <1>4 DEF Upto, Levels
  <1>6. \A i \in In(s) : Within(s, m)[i] = Totals(s)[i]
    <2>1. ASSUME NEW i \in In(s) PROVE Within(s, m)[i] = Totals(s)[i]
      <3>1. PICK t : t = s.players[i].total
        OBVIOUS
      <3>2. t \in Nat /\ t <= m /\ Totals(s)[i] = t
        BY <1>2, <1>4, <3>1
      <3>3. Min({m, t}) = IF m <= t THEN m ELSE t
        BY <1>4, <3>2, MinTwo
      <3>4. Min({m, t}) = t
        BY <1>4, <3>2, <3>3
      <3> QED
        BY <3>1, <3>2, <3>4 DEF Within
    <2> QED
      BY <2>1
  <1>7. SumFunctionOnSet(Within(s, m), In(s)) = SumFunctionOnSet(Totals(s), In(s))
    BY <1>1, <1>6, SumCong
  <1>8. SumFunctionOnSet(Amounts(s), Levels(s)) = SumFunctionOnSet(Totals(s), In(s))
    BY <1>4, <1>5, <1>7, Covering
  <1> DEFINE h == [l \in Levels(s) |-> Pot(s, l).awards]
             c == [i \in In(s) |-> Draws(s, i)]
  <1>9. \A l \in Levels(s), i \in In(s) : h[l][i] \in Int
    BY PotAwarded
  <1>10. \A l \in Levels(s) : Amounts(s)[l] = SumFunctionOnSet(h[l], In(s))
    BY PotAwarded DEF Amounts
  <1>11. \A i \in In(s), l \in Levels(s) : c[i][l] = h[l][i]
    BY DEF Draws
  <1>12. \A i \in In(s) : g[i] = SumFunctionOnSet(c[i], Levels(s))
    OBVIOUS
  <1> HIDE DEF h, c
  <1>13. SumFunctionOnSet(Amounts(s), Levels(s)) = SumFunctionOnSet(g, In(s))
    BY <1>1, <1>9, <1>10, <1>11, <1>12, SumSwap
  <1> QED
    BY <1>8, <1>13

\* The set of pots lists the levels.
LEMMA PotsListed ==
  ASSUME NEW s, Divisible(s), NEW n, n.pots = PotsOf(s)
  PROVE  /\ IsFiniteSet(n.pots) /\ Cardinality(n.pots) = Cardinality(Levels(s))
         /\ \A i \in In(s) : Awarded(n, i) = SumFunctionOnSet(Draws(s, i), Levels(s))
         /\ SumFunctionOnSet([p \in n.pots |-> p.amount], n.pots)
               = SumFunctionOnSet(Amounts(s), Levels(s))
  <1> DEFINE P == n.pots
             h == [l \in Levels(s) |-> Pot(s, l)]
  <1>1. \A l \in Levels(s) : /\ h[l] \in P /\ h[l].ceiling = l /\ h[l].amount = Amount(s, l)
                             /\ h[l].awards = Pot(s, l).awards
    BY DEF PotsOf, Pot
  <1>2. \A p \in P : \E l \in Levels(s) : p = h[l]
    BY DEF PotsOf
  <1>3. IsFiniteSet(Levels(s))
    BY LevelsFinite
  <1>4. DOMAIN h = Levels(s)
    OBVIOUS
  <1> HIDE DEF h, P
  <1>5. Lists(h, Levels(s), P)
    BY <1>1, <1>2 DEF Lists
  <1>6. ASSUME NEW i \in In(s) PROVE Awarded(n, i) = SumFunctionOnSet(Draws(s, i), Levels(s))
    <2> DEFINE f == [p \in P |-> p.awards[i]]
    <2>1. \A l \in Levels(s) : f[h[l]] \in Int /\ Draws(s, i)[l] = f[h[l]]
      <3>1. ASSUME NEW l \in Levels(s) PROVE f[h[l]] \in Int /\ Draws(s, i)[l] = f[h[l]]
        <4>1. f[h[l]] = Pot(s, l).awards[i]
          BY <1>1
        <4>2. Draws(s, i)[l] \in Nat /\ Draws(s, i)[l] = Pot(s, l).awards[i]
          BY DrawsNat DEF Draws
        <4> QED
          BY <4>1, <4>2
      <3> QED
        BY <3>1
    <2>2. Awarded(n, i) = SumFunctionOnSet(f, P)
      BY DEF Awarded, P
    <2> HIDE DEF f
    <2> QED
      BY <1>3, <1>5, <2>1, <2>2, SumImage
  <1>7. /\ IsFiniteSet(P)
        /\ SumFunctionOnSet([p \in P |-> p.amount], P) = SumFunctionOnSet(Amounts(s), Levels(s))
    <2> DEFINE f == [p \in P |-> p.amount]
    <2>1. \A l \in Levels(s) : f[h[l]] \in Int /\ Amounts(s)[l] = f[h[l]]
      <3>1. ASSUME NEW l \in Levels(s) PROVE f[h[l]] \in Int /\ Amounts(s)[l] = f[h[l]]
        <4>1. f[h[l]] = Amount(s, l)
          BY <1>1
        <4>2. Amounts(s)[l] = Amount(s, l) /\ Amount(s, l) \in Nat
          BY PotOfShares DEF Amounts
        <4> QED
          BY <4>1, <4>2
      <3> QED
        BY <3>1
    <2> HIDE DEF f
    <2>2. IsFiniteSet(P) /\ SumFunctionOnSet(f, P) = SumFunctionOnSet(Amounts(s), Levels(s))
      BY <1>3, <1>5, <2>1, SumImage
    <2> QED
      BY <2>2 DEF f
  <1>8. Cardinality(P) = Cardinality(Levels(s))
    <2>1. h \in [Levels(s) -> P]
      <3>1. h = [l \in Levels(s) |-> h[l]]
        BY DEF h
      <3> QED
        BY <1>1, <3>1
    <2>2. h \in Bijection(Levels(s), P)
      <3>1. \A a, b \in Levels(s) : h[a] = h[b] => a = b
        BY <1>1
      <3>2. \A t \in P : \E l \in Levels(s) : h[l] = t
        BY <1>2
      <3>3. DOMAIN h = Levels(s)
        BY <2>1
      <3>4. IsInjective(h)
        BY <3>1, <3>3 DEF IsInjective
      <3> QED
        BY <2>1, <3>2, <3>4 DEF Bijection, Injection, Surjection
    <2> QED
      BY <1>3, <2>2, FS_Bijection DEF ExistsBijection
  <1> QED
    BY <1>6, <1>7, <1>8 DEF P

\* The books of a seat before the settlement, and of the hand.
Account(s, i) ==
    LET p == s.players[i]
    IN  /\ p.initial \in Nat /\ p.stack \in Nat /\ p.total \in Nat /\ p.street \in 0..p.total
        /\ p.paid = p.total /\ p.stack + p.total = p.initial
        /\ p.acted \in -1..s.fullRaises /\ p.folded \in BOOLEAN /\ p.pending \in BOOLEAN
Accounts(s) ==
    /\ DOMAIN s = HandFields /\ In(s) \subseteq Seats /\ s.button \in In(s) /\ s.fullRaises \in Nat
    /\ s.pots = {} /\ s.returned = [i \in In(s) |-> 0]
    /\ \A i \in In(s) : DOMAIN s.players[i] = PlayerFields /\ Account(s, i)

\* What returning the uncalled chips does: only a live seat that nobody matches gets any.
RepaidSeat(r, s, i) ==
    LET p == s.players[i]
        q == r.players[i]
    IN  /\ DOMAIN q = PlayerFields /\ q.initial = p.initial /\ q.paid = p.paid
        /\ q.folded = p.folded /\ q.acted = p.acted
        /\ r.returned[i] \in 0..p.paid
        /\ q.total = p.paid - r.returned[i] /\ q.stack = p.stack + r.returned[i]
        /\ r.returned[i] > 0 =>
              ~p.folded /\ \A j \in In(s) \ {i} : s.players[j].paid <= q.total /\ r.returned[j] = 0
Repaid(r, s) ==
    /\ DOMAIN r = HandFields /\ In(r) = In(s) /\ r.button = s.button
    /\ r.fullRaises = s.fullRaises /\ DOMAIN r.returned = In(s)
    /\ \A i \in In(s) : RepaidSeat(r, s, i)
    /\ LiveTop(r)

\* Where returnUncalled has nothing to return the payments stand.
LEMMA NothingReturned ==
  ASSUME NEW s, Accounts(s), LiveTop(s)
  PROVE  Repaid(s, s)
  <1>1. DOMAIN s.returned = In(s) /\ \A i \in In(s) : s.returned[i] = 0
    <2>1. s.returned = [i \in In(s) |-> 0]
      BY DEF Accounts
    <2> QED
      BY <2>1
  <1>2. \A i \in In(s) : RepaidSeat(s, s, i)
    BY <1>1 DEF Accounts, Account, RepaidSeat
  <1> QED
    BY <1>1, <1>2 DEF Accounts, Repaid

\* A single highest payment exceeds the second highest by the uncalled chips.
LEMMA UncalledBy ==
  ASSUME NEW s, Accounts(s), LiveTop(s), Uncalled(s) # 0
  PROVE  \E i \in Live(s) :
            /\ Leaders(s) = {i} /\ Uncalled(s) \in 1..s.players[i].total
            /\ \A j \in In(s) \ {i} : s.players[j].total <= s.players[i].total - Uncalled(s)
            /\ \/ Uncalled(s) = s.players[i].total
               \/ \E j \in In(s) \ {i} : s.players[j].total = s.players[i].total - Uncalled(s)
  <1>1. IsFiniteSet(In(s))
    <2>1. In(s) \in SUBSET (1..9)
      BY EngineAssumption DEF Accounts
    <2> QED
      BY <2>1, SeatsFinite
  <1>2. \A i \in In(s) : s.players[i].total \in Nat /\ Totals(s)[i] = s.players[i].total
    BY DEF Accounts, Account, Totals
  <1>3. PICK top : top = Top(s)
    OBVIOUS
  <1>4. top \in Nat /\ (\A i \in In(s) : s.players[i].total <= top)
    BY <1>1, <1>2, <1>3, HighestOf DEF Top
  <1>5. Cardinality(Leaders(s)) = 1 /\ Leaders(s) = {i \in In(s) : s.players[i].total = top}
    BY <1>3 DEF Uncalled, Leaders
  <1>6. PICK i : Leaders(s) = {i}
    <2>1. IsFiniteSet(Leaders(s))
      BY <1>1, <1>5, FS_Subset
    <2> QED
      BY <1>5, <2>1, FS_Singleton
  <1>7. i \in In(s) /\ s.players[i].total = top /\ \A j \in In(s) \ {i} : s.players[j].total # top
    BY <1>5, <1>6
  <1>8. i \in Live(s)
    <2>1. PICK j \in Live(s) : s.players[i].total <= s.players[j].total
      BY <1>7 DEF LiveTop
    <2>2. j \in In(s)
      BY DEF Live
    <2>3. s.players[j].total = top
      BY <1>2, <1>4, <1>7, <2>1, <2>2
    <2> QED
      BY <1>7, <2>1, <2>2, <2>3
  <1>9. PICK R, h : R = In(s) \ {i} /\ h = Highest(Totals(s), R)
    OBVIOUS
  <1>10. h \in Nat /\ (\A j \in R : s.players[j].total <= h)
         /\ (h = 0 \/ \E j \in R : s.players[j].total = h)
    <2>1. IsFiniteSet(R) /\ \A j \in R : Totals(s)[j] \in Nat
      BY <1>1, <1>2, <1>9, FS_Subset
    <2>2. /\ h \in Nat /\ \A j \in R : Totals(s)[j] <= h
          /\ h = 0 \/ \E j \in R : Totals(s)[j] = h
      BY <1>9, <2>1, HighestOf
    <2> QED
      BY <1>2, <1>9, <2>2
  <1>11. Uncalled(s) = top - h
    BY <1>3, <1>5, <1>6, <1>9 DEF Uncalled
  <1>12. h <= top
    BY <1>2, <1>4, <1>9, <1>10
  <1>13. Uncalled(s) \in 1..top
    BY <1>4, <1>10, <1>11, <1>12
  <1>14. top - Uncalled(s) = h
    BY <1>4, <1>10, <1>11
  <1>15. \A j \in In(s) \ {i} : s.players[j].total <= top - Uncalled(s)
    BY <1>9, <1>10, <1>14
  <1>16. Uncalled(s) = top \/ \E j \in In(s) \ {i} : s.players[j].total = top - Uncalled(s)
    <2>1. CASE h = 0
      BY <1>4, <1>11, <2>1
    <2>2. CASE \E j \in R : s.players[j].total = h
      BY <1>9, <1>14, <2>2
    <2> QED
      BY <1>10, <2>1, <2>2
  <1> QED
    BY <1>6, <1>7, <1>8, <1>13, <1>15, <1>16

\* returnUncalled leaves payments that the pots divide without a rest.
LEMMA Returned ==
  ASSUME NEW s, Accounts(s), LiveTop(s), NEW r, r = ReturnUncalled(s)
  PROVE  Repaid(r, s)
  <1>1. CASE Uncalled(s) = 0
    <2>1. r = s
      BY <1>1 DEF ReturnUncalled
    <2> QED
      BY <2>1, NothingReturned
  <1>2. CASE Uncalled(s) # 0
    <2>1. PICK u : u = Uncalled(s)
      OBVIOUS
    <2>2. PICK i \in Live(s) :
             /\ Leaders(s) = {i} /\ u \in 1..s.players[i].total
             /\ \A j \in In(s) \ {i} : s.players[j].total <= s.players[i].total - u
             /\ \/ u = s.players[i].total
                \/ \E j \in In(s) \ {i} : s.players[j].total = s.players[i].total - u
      BY <1>2, <2>1, UncalledBy
    <2>3. i \in In(s) /\ ~s.players[i].folded
      BY DEF Live
    <2>4. (CHOOSE j \in In(s) : j \in Leaders(s)) = i
      BY <2>2, <2>3
    <2>5. r = [s EXCEPT !.returned[i] = u, !.players[i].stack = @ + u, !.players[i].total = @ - u,
                        !.players[i].street = @ - Min({@, u})]
      BY <1>2, <2>1, <2>4 DEF ReturnUncalled
    <2>6. /\ DOMAIN r = HandFields /\ In(r) = In(s) /\ r.button = s.button
          /\ r.fullRaises = s.fullRaises /\ DOMAIN r.returned = In(s)
          /\ r.returned[i] = u /\ \A j \in In(s) \ {i} : r.returned[j] = 0
      <3>1. s.returned = [j \in In(s) |-> 0] /\ DOMAIN s = HandFields
        BY DEF Accounts
      <3>2. r.returned = [s.returned EXCEPT ![i] = u]
        BY <2>5, <3>1 DEF HandFields
      <3>3. DOMAIN r = HandFields /\ In(r) = In(s) /\ r.button = s.button /\ r.fullRaises = s.fullRaises
        BY <2>5, <3>1 DEF HandFields, In
      <3> QED
        BY <2>3, <3>1, <3>2, <3>3
    <2>7. \A j \in In(s) \ {i} : r.players[j] = s.players[j]
      BY <2>3, <2>5 DEF Accounts, HandFields, In
    <2>8. /\ DOMAIN r.players[i] = PlayerFields /\ r.players[i].initial = s.players[i].initial
          /\ r.players[i].paid = s.players[i].paid /\ r.players[i].folded = s.players[i].folded
          /\ r.players[i].acted = s.players[i].acted
          /\ r.players[i].stack = s.players[i].stack + u
          /\ r.players[i].total = s.players[i].total - u
      <3>1. DOMAIN s = HandFields /\ DOMAIN s.players[i] = PlayerFields
        BY <2>3 DEF Accounts
      <3>2. PICK x : x = s.players[i].street - Min({s.players[i].street, u})
        OBVIOUS
      <3>3. r.players[i] = [s.players[i] EXCEPT !.stack = @ + u, !.total = @ - u, !.street = x]
        BY <2>3, <2>5, <3>1, <3>2 DEF HandFields, In, PlayerFields
      <3> QED
        BY <3>1, <3>3 DEF PlayerFields
    <2>9. \A j \in In(s) : Account(s, j) /\ s.players[j].total \in Nat /\ s.players[j].paid = s.players[j].total
      BY DEF Accounts, Account
    <2>10. RepaidSeat(r, s, i)
      <3>1. \A j \in In(s) \ {i} : s.players[j].paid <= r.players[i].total /\ r.returned[j] = 0
        BY <2>2, <2>6, <2>8, <2>9
      <3>2. u \in 0..s.players[i].paid
        BY <2>2, <2>3, <2>9
      <3> QED
        BY <2>3, <2>6, <2>8, <2>9, <3>1, <3>2 DEF RepaidSeat
    <2>11. ASSUME NEW j \in In(s) \ {i} PROVE RepaidSeat(r, s, j)
      <3>1. r.returned[j] = 0 /\ r.players[j] = s.players[j] /\ DOMAIN s.players[j] = PlayerFields
        BY <2>6, <2>7 DEF Accounts
      <3>2. s.players[j].stack \in Nat
        BY DEF Accounts, Account
      <3> QED
        BY <2>9, <3>1, <3>2 DEF RepaidSeat
    <2>12. LiveTop(r)
      <3>1. i \in Live(r)
        BY <2>3, <2>6, <2>8 DEF Live
      <3>2. \A j \in In(s) : r.players[j].total <= r.players[i].total
        <4>1. r.players[i].total \in Nat
          BY <2>2, <2>3, <2>8, <2>9
        <4> QED
          BY <2>2, <2>7, <2>8, <4>1
      <3> QED
        BY <2>6, <3>1, <3>2 DEF LiveTop
    <2> QED
      BY <2>6, <2>10, <2>11, <2>12 DEF Repaid
  <1> QED
    BY <1>1, <1>2

\* What a seat draws from all pots.
Drawn(n) == [i \in In(n) |-> SumFunctionOnSet(Draws(n, i), Levels(n))]

\* The settled hand m of s, with n the hand whose pots were divided.
EndedSeat(m, n, s, i) ==
    LET p == s.players[i]
        q == m.players[i]
    IN  /\ DOMAIN q = PlayerFields /\ q.initial = p.initial /\ q.paid = p.paid /\ q.acted = p.acted
        /\ q.folded = p.folded /\ q.total = 0 /\ q.street = 0 /\ q.pending = FALSE
        /\ m.returned[i] \in 0..p.paid /\ n.players[i].total = p.paid - m.returned[i]
        /\ n.players[i].folded = p.folded
        /\ q.stack = p.stack + m.returned[i] + Drawn(n)[i]
        /\ m.returned[i] > 0 =>
              ~p.folded /\ \A j \in In(s) \ {i} : s.players[j].paid <= n.players[i].total
Ended(m, n, s) ==
    /\ Divisible(n) /\ In(n) = In(s) /\ Live(n) = Live(s)
    /\ DOMAIN m = HandFields /\ In(m) = In(s) /\ Live(m) = Live(s)
    /\ m.street = "SETTLED" /\ m.actor = 0 /\ m.fullRaises = s.fullRaises
    /\ m.pots = PotsOf(n) /\ m.rank = n.rank
    /\ \A i \in In(s) : EndedSeat(m, n, s, i) /\ Awarded(m, i) = Drawn(n)[i]

\* The ranking of the hands is a strength for every seat.
LEMMA Evaluated ==
  ASSUME NEW s, Accounts(s), NEW rank \in evaluate(s)
  PROVE  \A i \in In(s) : rank[i] \in Nat
  <1>1. CASE Cardinality(Live(s)) = 1
    <2>1. rank = [i \in In(s) |-> 0]
      BY <1>1 DEF evaluate
    <2> QED
      BY <2>1
  <1>2. CASE Cardinality(Live(s)) # 1
    <2>1. PICK r \in Rankings : rank = [i \in In(s) |-> r[i]]
      BY <1>2 DEF evaluate
    <2>2. \A i \in In(s) : r[i] \in Nat
      BY EngineAssumption DEF Accounts
    <2> QED
      BY <2>1, <2>2
  <1> QED
    BY <1>1, <1>2

\* What settle leaves behind, from the uncalled chips to the awards of the pots.
LEMMA Ends ==
  ASSUME NEW s, Accounts(s), LiveTop(s), NEW m \in settle(s)
  PROVE  \E n : Ended(m, n, s)
  <1>1. PICK rank \in evaluate(s) : m = PayOut(Divide(Showdown(s, rank)))
    BY DEF settle
  <1>2. PICK r : r = ReturnUncalled(s)
    OBVIOUS
  <1>3. Repaid(r, s)
    BY <1>2, Returned
  <1>4. PICK n : n = [r EXCEPT !.rank = rank]
    OBVIOUS
  <1>5. PICK k : k = [n EXCEPT !.pots = PotsOf(n)]
    OBVIOUS
  <1>6. m = PayOut(k)
    BY <1>1, <1>2, <1>4, <1>5 DEF Showdown, Divide
  <1>7. DOMAIN r = HandFields /\ In(r) = In(s) /\ r.button = s.button /\ r.fullRaises = s.fullRaises
        /\ LiveTop(r) /\ \A i \in In(s) : RepaidSeat(r, s, i)
    BY <1>3 DEF Repaid
  <1>8. /\ DOMAIN n = HandFields /\ In(n) = In(s) /\ n.button = s.button /\ n.rank = rank
        /\ n.players = r.players /\ n.returned = r.returned /\ n.fullRaises = s.fullRaises
    BY <1>4, <1>7 DEF HandFields, In
  <1>9. /\ DOMAIN k = HandFields /\ In(k) = In(s) /\ k.rank = rank
        /\ k.players = r.players /\ k.returned = r.returned /\ k.fullRaises = s.fullRaises
        /\ k.pots = PotsOf(n)
    BY <1>5, <1>8 DEF HandFields, In
  <1>10. Divisible(n)
    <2>1. \A i \in In(s) : n.players[i].total \in Nat /\ n.rank[i] \in Nat
      <3>1. ASSUME NEW i \in In(s) PROVE n.players[i].total \in Nat /\ n.rank[i] \in Nat
        <4>1. s.players[i].paid \in Nat
          BY DEF Accounts, Account
        <4>2. n.players[i].total = s.players[i].paid - r.returned[i] /\ r.returned[i] \in 0..s.players[i].paid
          BY <1>7, <1>8 DEF RepaidSeat
        <4>3. rank[i] \in Nat
          BY Evaluated
        <4> QED
          BY <1>8, <4>1, <4>2, <4>3
      <3> QED
        BY <3>1
    <2>2. LiveTop(n)
      BY <1>7, <1>8 DEF LiveTop, Live
    <2>3. In(s) \subseteq 1..9 /\ s.button \in In(s)
      BY EngineAssumption DEF Accounts
    <2> QED
      BY <1>8, <2>1, <2>2, <2>3 DEF Divisible
  <1>11. \A i \in In(s) : Awarded(k, i) = Drawn(n)[i]
    BY <1>8, <1>9, <1>10, PotsListed DEF Drawn
  <1>12. /\ DOMAIN m = HandFields /\ In(m) = In(s) /\ m.street = "SETTLED" /\ m.actor = 0
         /\ m.fullRaises = s.fullRaises /\ m.pots = k.pots /\ m.rank = k.rank /\ m.returned = k.returned
         /\ m.players = [i \in In(s) |-> CleanUp([k.players[i] EXCEPT !.stack = @ + Awarded(k, i)])]
    BY <1>6, <1>9 DEF PayOut, HandFields, In
  <1>13. \A i \in In(s) : Awarded(m, i) = Drawn(n)[i]
    BY <1>11, <1>12 DEF Awarded
  <1>14. ASSUME NEW i \in In(s) PROVE EndedSeat(m, n, s, i)
    <2>1. m.players[i] = CleanUp([r.players[i] EXCEPT !.stack = @ + Awarded(k, i)])
      BY <1>9, <1>12
    <2>2. PICK q : q = r.players[i]
      OBVIOUS
    <2>3. RepaidSeat(r, s, i)
      BY <1>7
    <2>4. DOMAIN q = PlayerFields
      BY <2>2, <2>3 DEF RepaidSeat
    <2>5. PICK a : a = Awarded(k, i)
      OBVIOUS
    <2>6. m.players[i] = CleanUp([q EXCEPT !.stack = @ + a])
      BY <2>1, <2>2, <2>5
    <2>7. /\ DOMAIN m.players[i] = PlayerFields /\ m.players[i].initial = q.initial
          /\ m.players[i].paid = q.paid /\ m.players[i].acted = q.acted /\ m.players[i].folded = q.folded
          /\ m.players[i].total = 0 /\ m.players[i].street = 0 /\ m.players[i].pending = FALSE
          /\ m.players[i].stack = q.stack + a
      BY <2>4, <2>6 DEF CleanUp, PlayerFields
    <2>8. a = Drawn(n)[i] /\ m.returned[i] = r.returned[i] /\ n.players[i] = q
      BY <1>8, <1>9, <1>11, <1>12, <2>2, <2>5
    <2> QED
      BY <2>2, <2>3, <2>7, <2>8 DEF EndedSeat, RepaidSeat
  <1>15. Live(m) = Live(s) /\ Live(n) = Live(s)
    BY <1>8, <1>12, <1>14 DEF Live, EndedSeat
  <1> QED
    BY <1>8, <1>9, <1>10, <1>12, <1>13, <1>14, <1>15 DEF Ended
-----------------------------------------------------------------------------
\* The settled hand passes the audit.
LEMMA EndsValid ==
  ASSUME NEW s, Accounts(s), NEW m, NEW n, Ended(m, n, s)
  PROVE  validate(m)
  <1> DEFINE wealth == [i \in In(m) |-> m.players[i].stack + m.players[i].total]
             initial == [i \in In(m) |-> m.players[i].initial]
             paid == [i \in In(m) |-> m.players[i].paid]
             net == [i \in In(m) |-> m.players[i].paid - m.returned[i]]
             owed == [i \in In(m) |-> m.players[i].initial + Drawn(n)[i]]
             amount == [p \in m.pots |-> p.amount]
  <1>1. /\ Divisible(n) /\ In(n) = In(s) /\ Live(n) = Live(s)
        /\ In(m) = In(s) /\ Live(m) = Live(s) /\ m.street = "SETTLED" /\ m.actor = 0
        /\ m.fullRaises = s.fullRaises /\ m.pots = PotsOf(n) /\ m.rank = n.rank
        /\ \A i \in In(s) : EndedSeat(m, n, s, i) /\ Awarded(m, i) = Drawn(n)[i]
    BY DEF Ended
  <1>2. IsFiniteSet(In(s)) /\ IsFiniteSet(Levels(n))
    BY <1>1, LevelsFinite
  <1>3. \A i \in In(s) : Account(s, i) /\ EndedSeat(m, n, s, i)
    BY <1>1 DEF Accounts
  <1>4. \A i \in In(s) : Drawn(n)[i] \in Nat /\ Totals(n)[i] = n.players[i].total
    BY <1>1, DrawsWithin DEF Drawn, Totals
  <1>5. ASSUME NEW i \in In(s)
        PROVE  /\ m.players[i].initial \in Nat /\ m.players[i].paid \in 0..m.players[i].initial
               /\ m.returned[i] \in 0..m.players[i].paid /\ m.players[i].total = 0
               /\ m.players[i].street = 0 /\ m.players[i].pending = FALSE
               /\ m.players[i].acted \in -1..m.fullRaises
               /\ n.players[i].total = m.players[i].paid - m.returned[i]
               /\ n.players[i].total \in Nat
               /\ m.players[i].stack = m.players[i].initial - m.players[i].paid + m.returned[i] + Drawn(n)[i]
               /\ m.players[i].stack \in Nat
               /\ m.players[i].paid \in Nat /\ m.returned[i] \in Nat
    <2>1. PICK p, q, b, t, d : /\ p = s.players[i] /\ q = m.players[i] /\ b = m.returned[i]
                               /\ t = n.players[i].total /\ d = Drawn(n)[i]
      OBVIOUS
    <2>2. /\ p.initial \in Nat /\ p.stack \in Nat /\ p.total \in Nat /\ p.paid = p.total
          /\ p.stack + p.total = p.initial /\ p.acted \in -1..s.fullRaises
      BY <1>3, <2>1 DEF Account
    <2>3. /\ q.initial = p.initial /\ q.paid = p.paid /\ q.acted = p.acted
          /\ q.total = 0 /\ q.street = 0 /\ q.pending = FALSE
          /\ b \in 0..p.paid /\ t = p.paid - b /\ q.stack = p.stack + b + d
      BY <1>3, <2>1 DEF EndedSeat
    <2>4. d \in Nat /\ m.fullRaises = s.fullRaises
      BY <1>1, <1>4, <2>1
    <2>5. /\ q.initial \in Nat /\ q.paid \in 0..q.initial /\ q.paid \in Nat
          /\ b \in 0..q.paid /\ b \in Nat /\ t = q.paid - b /\ t \in Nat
          /\ q.stack = q.initial - q.paid + b + d /\ q.stack \in Nat
      BY <2>2, <2>3, <2>4
    <2> QED
      BY <2>1, <2>2, <2>3, <2>4, <2>5
  <1>6. /\ SumFunctionOnSet(Amounts(n), Levels(n)) = SumFunctionOnSet(Totals(n), In(s))
        /\ SumFunctionOnSet(Drawn(n), In(s)) = SumFunctionOnSet(Totals(n), In(s))
    <2>1. \A i \in In(n) : Drawn(n)[i] = SumFunctionOnSet(Draws(n, i), Levels(n))
      BY DEF Drawn
    <2> QED
      BY <1>1, <2>1, AllAwarded
  <1>7. SumFunctionOnSet(amount, m.pots) = SumFunctionOnSet(Amounts(n), Levels(n))
    BY <1>1, PotsListed
  <1>8. SumFunctionOnSet(wealth, In(m)) = SumFunctionOnSet(initial, In(m))
    <2>1. \A i \in In(s) : /\ wealth[i] \in Int /\ Totals(n)[i] \in Int /\ owed[i] = wealth[i] + Totals(n)[i]
                           /\ initial[i] \in Int /\ Drawn(n)[i] \in Int
                           /\ owed[i] = initial[i] + Drawn(n)[i]
      <3>1. ASSUME NEW i \in In(s)
            PROVE  /\ wealth[i] \in Int /\ Totals(n)[i] \in Int /\ owed[i] = wealth[i] + Totals(n)[i]
                   /\ initial[i] \in Int /\ Drawn(n)[i] \in Int
                   /\ owed[i] = initial[i] + Drawn(n)[i]
        <4>1. /\ wealth[i] = m.players[i].stack + m.players[i].total /\ initial[i] = m.players[i].initial
              /\ owed[i] = m.players[i].initial + Drawn(n)[i]
          BY <1>1
        <4>2. PICK q, a, t, b : q = m.players[i] /\ a = Drawn(n)[i] /\ t = Totals(n)[i] /\ b = m.returned[i]
          OBVIOUS
        <4>3. /\ q.initial \in Nat /\ q.paid \in Nat /\ b \in Nat /\ q.total = 0 /\ t = q.paid - b /\ t \in Nat
              /\ q.stack = q.initial - q.paid + b + a /\ q.stack \in Nat /\ a \in Nat
          BY <1>1, <1>4, <1>5, <4>2
        <4> QED
          BY <4>1, <4>2, <4>3
      <3> QED
        BY <3>1
    <2> HIDE DEF wealth, owed, initial
    <2>2. SumFunctionOnSet(owed, In(s)) = SumFunctionOnSet(wealth, In(s)) + SumFunctionOnSet(Totals(n), In(s))
      BY <1>2, <2>1, SumAdd
    <2>3. SumFunctionOnSet(owed, In(s)) = SumFunctionOnSet(initial, In(s)) + SumFunctionOnSet(Drawn(n), In(s))
      BY <1>2, <2>1, SumAdd
    <2>4. /\ SumFunctionOnSet(wealth, In(s)) \in Int /\ SumFunctionOnSet(initial, In(s)) \in Int
          /\ SumFunctionOnSet(Totals(n), In(s)) \in Int
      BY <1>2, <2>1, SumInt
    <2> QED
      BY <1>1, <1>6, <2>2, <2>3, <2>4
  <1>9. SumFunctionOnSet(paid, In(m))
           = SumFunctionOnSet(amount, m.pots) + SumFunctionOnSet(m.returned, In(m))
    <2>1. \A i \in In(s) : /\ Totals(n)[i] \in Int /\ m.returned[i] \in Int
                           /\ paid[i] = Totals(n)[i] + m.returned[i]
      <3>1. ASSUME NEW i \in In(s)
            PROVE  /\ Totals(n)[i] \in Int /\ m.returned[i] \in Int
                   /\ paid[i] = Totals(n)[i] + m.returned[i]
        <4>1. paid[i] = m.players[i].paid
          BY <1>1
        <4>2. PICK q, t, b : q = m.players[i] /\ t = Totals(n)[i] /\ b = m.returned[i]
          OBVIOUS
        <4>3. q.paid \in Nat /\ b \in Nat /\ t = q.paid - b /\ t \in Nat
          BY <1>1, <1>4, <1>5, <4>2
        <4> QED
          BY <4>1, <4>2, <4>3
      <3> QED
        BY <3>1
    <2> HIDE DEF paid, amount
    <2>2. SumFunctionOnSet(paid, In(s)) = SumFunctionOnSet(Totals(n), In(s)) + SumFunctionOnSet(m.returned, In(s))
      BY <1>2, <2>1, SumAdd
    <2> QED
      BY <1>1, <1>6, <1>7, <2>2
  <1>10. ASSUME NEW p \in m.pots
         PROVE  /\ p.eligible = {i \in Live(m) : net[i] >= p.ceiling} /\ p.eligible # {}
                /\ p.amount = (p.ceiling - p.floor) * Cardinality({i \in In(m) : net[i] >= p.ceiling})
                /\ SumFunctionOnSet(p.awards, In(m)) = p.amount
                /\ \A i \in In(m) : p.awards[i] > 0 =>
                      i \in p.eligible /\ \A j \in p.eligible : m.rank[j] <= m.rank[i]
    <2>1. PICK l \in Levels(n) : p = Pot(n, l)
      BY <1>1 DEF PotsOf
    <2>2. /\ p.ceiling = l /\ p.floor = Floor(n, l) /\ p.amount = Amount(n, l)
          /\ p.eligible = Eligible(n, l) /\ p.awards = Pot(n, l).awards
      BY <2>1 DEF Pot
    <2>3. \A i \in In(s) : net[i] = n.players[i].total
      BY <1>1, <1>5
    <2> HIDE DEF net
    <2>4. p.eligible = {i \in Live(m) : net[i] >= p.ceiling}
      BY <1>1, <2>2, <2>3 DEF Eligible, Live
    <2>5. {i \in In(m) : net[i] >= p.ceiling} = {i \in In(n) : n.players[i].total >= l}
      BY <1>1, <2>2, <2>3
    <2>6. p.amount = (p.ceiling - p.floor) * Cardinality({i \in In(m) : net[i] >= p.ceiling})
      BY <2>2, <2>5 DEF Amount
    <2>7. SumFunctionOnSet(p.awards, In(m)) = p.amount
      BY <1>1, <2>1, <2>2, PotAwarded
    <2>8. ASSUME NEW i \in In(m), p.awards[i] > 0
          PROVE  i \in p.eligible /\ \A j \in p.eligible : m.rank[j] <= m.rank[i]
      <3>1. i \in Winners(n, l)
        BY <1>1, <2>1, <2>2, <2>8, PotAwarded
      <3> QED
        BY <1>1, <2>2, <3>1 DEF Winners
    <2> QED
      BY <1>1, <2>1, <2>2, <2>4, <2>6, <2>7, <2>8, WinnersExist
  <1>11. ValidSettlement(m)
    BY <1>1, <1>5, <1>9, <1>10 DEF ValidSettlement
  <1>12. ASSUME NEW i \in In(m)
         PROVE  LET p == m.players[i] IN
                /\ p.stack >= 0 /\ p.street \in 0..p.total /\ p.acted \in -1..m.fullRaises
                /\ p.paid <= p.initial
                /\ p.stack = p.initial - p.paid + m.returned[i] + Awarded(m, i)
                /\ m.street # "SETTLED" => p.total = p.paid
    <2>1. PICK q, b : q = m.players[i] /\ b = m.returned[i]
      OBVIOUS
    <2>2. /\ q.initial \in Nat /\ q.paid \in 0..q.initial /\ q.total = 0 /\ q.street = 0
          /\ q.acted \in -1..m.fullRaises /\ q.stack = q.initial - q.paid + b + Drawn(n)[i]
          /\ q.stack \in Nat
      BY <1>1, <1>5, <2>1
    <2>3. Awarded(m, i) = Drawn(n)[i] /\ m.street = "SETTLED"
      BY <1>1
    <2> QED
      BY <2>1, <2>2, <2>3
  <1> QED
    BY <1>1, <1>8, <1>11, <1>12 DEF validate

\* What a settled seat got for its payment, and what its payment covered of all others'.
Got(s, i) == s.players[i].stack - (s.players[i].initial - s.players[i].paid)
Covered(s, i) ==
    SumFunctionOnSet([j \in In(s) |-> Min({s.players[i].paid, s.players[j].paid})], In(s))
Fair(s) ==
    \A i \in In(s) :
       /\ Got(s, i) <= Covered(s, i)
       /\ s.players[i].folded => Got(s, i) = 0
       /\ ~s.players[i].folded /\ (\A j \in Live(s) \ {i} : s.rank[j] < s.rank[i])
             => Got(s, i) = Covered(s, i)
       /\ \A j \in Live(s) :
             i \in Live(s) /\ s.rank[i] = s.rank[j] /\ s.players[i].paid = s.players[j].paid
             => Got(s, i) - Got(s, j) <= Cardinality(s.pots)

\* FairSettlement in the terms of the lemmas below.
LEMMA FairStated == FairSettlement <=> (hand.street = "SETTLED" => Fair(hand))
  BY DEF FairSettlement, Fair, Got, Covered

\* What a payment covers is what it meets in the pots and what is returned of it.
LEMMA CoveredBy ==
  ASSUME NEW s, Accounts(s), NEW m, NEW n, Ended(m, n, s), NEW i \in In(s),
         NEW t, t = n.players[i].total
  PROVE  Covered(m, i) = SumFunctionOnSet(Within(n, t), In(s)) + m.returned[i]
         /\ SumFunctionOnSet(Within(n, t), In(s)) \in Int
  <1> DEFINE f == [j \in In(m) |-> Min({m.players[i].paid, m.players[j].paid})]
  <1>1. In(m) = In(s) /\ In(n) = In(s) /\ Divisible(n) /\ IsFiniteSet(In(s))
    BY LevelsFinite DEF Ended
  <1>2. \A j \in In(s) : EndedSeat(m, n, s, j) /\ s.players[j].paid \in Nat
    BY DEF Ended, Accounts, Account
  <1>3. PICK p, b : p = s.players[i].paid /\ b = m.returned[i]
    OBVIOUS
  <1>4. p \in Nat /\ b \in 0..p /\ t = p - b /\ m.players[i].paid = p /\ t \in Nat
    <2>1. EndedSeat(m, n, s, i)
      BY <1>2
    <2>2. m.players[i].paid = p /\ b \in 0..p /\ t = p - b
      BY <1>3, <2>1 DEF EndedSeat
    <2> QED
      BY <1>2, <1>3, <2>2
  <1>5. ASSUME NEW j \in In(s)
        PROVE  /\ f[j] \in Int /\ Within(n, t)[j] \in Int
               /\ j # i => f[j] = Within(n, t)[j]
               /\ j = i => f[j] = p /\ Within(n, t)[j] = t
    <2>1. PICK v, w, c : v = s.players[j].paid /\ w = n.players[j].total /\ c = m.returned[j]
      OBVIOUS
    <2>2. v \in Nat /\ m.players[j].paid = v /\ c \in 0..v /\ w = v - c
      <3>1. EndedSeat(m, n, s, j)
        BY <1>2
      <3> QED
        BY <1>2, <2>1, <3>1 DEF EndedSeat
    <2>3. f[j] = Min({p, v}) /\ Within(n, t)[j] = Min({t, w})
      BY <1>1, <1>4, <2>1, <2>2 DEF Within
    <2>4. Min({p, v}) = (IF p <= v THEN p ELSE v) /\ Min({t, w}) = (IF t <= w THEN t ELSE w)
      BY <1>4, <2>2, MinTwo
    <2>5. j # i => (b > 0 => v <= t) /\ (c > 0 => p <= w)
      <3>1. EndedSeat(m, n, s, j) /\ EndedSeat(m, n, s, i)
        BY <1>2
      <3> QED
        BY <1>3, <2>1, <3>1 DEF EndedSeat
    <2>6. j = i => v = p /\ w = t
      BY <1>3, <2>1
    <2>7. j # i => Min({p, v}) = Min({t, w})
      BY <1>4, <2>2, <2>4, <2>5
    <2> HIDE DEF f
    <2> QED
      BY <1>4, <2>2, <2>3, <2>4, <2>6, <2>7
  <1>6. SumFunctionOnSet(f, In(s)) = SumFunctionOnSet(Within(n, t), In(s)) + (f[i] - Within(n, t)[i])
    <2> HIDE DEF f
    <2> QED BY <1>1, <1>5, SumUpdate
  <1>7. SumFunctionOnSet(Within(n, t), In(s)) \in Int
    BY <1>1, <1>5, SumInt
  <1>8. f[i] - Within(n, t)[i] = b
    <2> HIDE DEF f
    <2> QED BY <1>4, <1>5
  <1>9. Covered(m, i) = SumFunctionOnSet(f, In(s))
    BY <1>1 DEF Covered
  <1> HIDE DEF f
  <1> QED
    BY <1>3, <1>6, <1>7, <1>8, <1>9

\* What a seat got is what was returned to it and what it drew.
LEMMA GotBy ==
  ASSUME NEW s, Accounts(s), NEW m, NEW n, Ended(m, n, s), NEW i \in In(s)
  PROVE  /\ Got(m, i) = m.returned[i] + Drawn(n)[i]
         /\ m.returned[i] \in Nat /\ Drawn(n)[i] \in Nat
  <1>1. EndedSeat(m, n, s, i) /\ Account(s, i) /\ Divisible(n) /\ In(n) = In(s)
    BY DEF Ended, Accounts
  <1>2. PICK p, q, b, d : p = s.players[i] /\ q = m.players[i] /\ b = m.returned[i] /\ d = Drawn(n)[i]
    OBVIOUS
  <1>3. /\ p.initial \in Nat /\ p.stack \in Nat /\ p.total \in Nat /\ p.paid = p.total
        /\ p.stack + p.total = p.initial
    BY <1>1, <1>2 DEF Account
  <1>4. q.initial = p.initial /\ q.paid = p.paid /\ b \in 0..p.paid /\ q.stack = p.stack + b + d
    BY <1>1, <1>2 DEF EndedSeat
  <1>5. d \in Nat
    BY <1>1, <1>2, DrawsWithin DEF Drawn
  <1>6. q.stack - (q.initial - q.paid) = b + d /\ b \in Nat
    BY <1>3, <1>4, <1>5
  <1> QED
    BY <1>2, <1>5, <1>6 DEF Got

\* The settled hand is fair.
LEMMA EndsFair ==
  ASSUME NEW s, Accounts(s), NEW m, NEW n, Ended(m, n, s)
  PROVE  Fair(m)
  <1>1. /\ Divisible(n) /\ In(n) = In(s) /\ In(m) = In(s) /\ Live(n) = Live(s) /\ Live(m) = Live(s)
        /\ m.rank = n.rank /\ m.pots = PotsOf(n)
        /\ \A i \in In(s) : EndedSeat(m, n, s, i)
    BY DEF Ended
  <1>2. ASSUME NEW i \in In(s)
        PROVE  /\ Got(m, i) <= Covered(m, i)
               /\ m.players[i].folded => Got(m, i) = 0
               /\ ~m.players[i].folded /\ (\A j \in Live(m) \ {i} : m.rank[j] < m.rank[i])
                     => Got(m, i) = Covered(m, i)
               /\ \A j \in Live(m) :
                     i \in Live(m) /\ m.rank[i] = m.rank[j] /\ m.players[i].paid = m.players[j].paid
                     => Got(m, i) - Got(m, j) <= Cardinality(m.pots)
    <2>1. PICK t, w, d, b : /\ t = n.players[i].total /\ w = SumFunctionOnSet(Within(n, t), In(s))
                            /\ d = Drawn(n)[i] /\ b = m.returned[i]
      OBVIOUS
    <2>2. Covered(m, i) = w + b /\ w \in Int
      BY <2>1, CoveredBy
    <2>3. Got(m, i) = b + d /\ b \in Nat /\ d \in Nat
      BY <2>1, GotBy
    <2>4. d = SumFunctionOnSet(Draws(n, i), Levels(n))
      BY <1>1, <2>1 DEF Drawn
    <2>5. d <= w
      BY <1>1, <2>1, <2>4, DrawsWithin
    <2>6. EndedSeat(m, n, s, i)
      BY <1>1
    <2>7. ASSUME m.players[i].folded PROVE Got(m, i) = 0
      <3>1. s.players[i].folded
        BY <2>6, <2>7 DEF EndedSeat
      <3>2. i \notin Live(n)
        BY <1>1, <3>1 DEF Live
      <3>3. d = 0
        BY <1>1, <2>4, <3>2, FoldedDrawsNothing
      <3>4. ~(b > 0)
        BY <2>1, <2>6, <3>1 DEF EndedSeat
      <3> QED
        BY <2>3, <3>3, <3>4
    <2>8. ASSUME ~m.players[i].folded, \A j \in Live(m) \ {i} : m.rank[j] < m.rank[i]
          PROVE  Got(m, i) = Covered(m, i)
      <3>1. i \in Live(n) /\ \A j \in Live(n) \ {i} : n.rank[j] < n.rank[i]
        BY <1>1, <2>8 DEF Live
      <3>2. d = w
        BY <1>1, <2>1, <2>4, <3>1, BestDrawsAll
      <3> QED
        BY <2>2, <2>3, <3>2
    <2>9. ASSUME NEW j \in Live(m), i \in Live(m), m.rank[i] = m.rank[j],
                 m.players[i].paid = m.players[j].paid
          PROVE  Got(m, i) - Got(m, j) <= Cardinality(m.pots)
      <3>1. j \in In(s) /\ j \in Live(n) /\ i \in Live(n) /\ n.rank[i] = n.rank[j]
        BY <1>1, <2>9 DEF Live
      <3>2. PICK u, e, c : u = n.players[j].total /\ e = Drawn(n)[j] /\ c = m.returned[j]
        OBVIOUS
      <3>3. Got(m, j) = c + e /\ c \in Nat /\ e \in Nat
        BY <3>1, <3>2, GotBy
      <3>4. EndedSeat(m, n, s, j) /\ Account(s, j) /\ Account(s, i)
        BY <1>1, <3>1 DEF Accounts
      <3>5. t = u /\ b = c
        <4>1. CASE i = j
          BY <2>1, <3>2, <4>1
        <4>2. CASE i # j
          <5>1. PICK p, v : p = s.players[i].paid /\ v = s.players[j].paid
            OBVIOUS
          <5>2. p \in Nat /\ v \in Nat
            BY <3>4, <5>1 DEF Account
          <5>3. p = v /\ t = p - b /\ u = v - c
            BY <2>1, <2>6, <2>9, <3>2, <3>4, <5>1 DEF EndedSeat
          <5>4. (b > 0 => v <= t) /\ (c > 0 => p <= u)
            BY <2>1, <2>6, <3>1, <3>2, <3>4, <4>2, <5>1 DEF EndedSeat
          <5> QED
            BY <2>3, <3>3, <5>2, <5>3, <5>4
        <4> QED
          BY <4>1, <4>2
      <3>6. e = SumFunctionOnSet(Draws(n, j), Levels(n))
        BY <1>1, <3>1, <3>2 DEF Drawn
      <3>7. d <= e + Cardinality(Levels(n))
        BY <1>1, <2>1, <2>4, <3>1, <3>2, <3>5, <3>6, TiesDiffer
      <3>8. Cardinality(m.pots) = Cardinality(Levels(n)) /\ Cardinality(Levels(n)) \in Nat
        BY <1>1, PotsListed, LevelsFinite, FS_CardinalityType
      <3> QED
        BY <2>3, <3>3, <3>5, <3>7, <3>8
    <2> QED
      BY <2>2, <2>3, <2>5, <2>7, <2>8, <2>9
  <1> QED
    BY <1>1, <1>2 DEF Fair

\* The bet is the highest commitment of the street, and before the flop at least
\* the big blind.
BetOf(s, bet) ==
    /\ bet \in Nat /\ \A i \in In(s) : s.players[i].street <= bet
    /\ s.street = "PREFLOP" => BigBlind <= bet
    /\ \/ bet = 0
       \/ s.street = "PREFLOP" /\ bet = BigBlind
       \/ \E i \in In(s) : s.players[i].street = bet

\* What a seat had paid before the street began.
Before(s, i) == s.players[i].total - s.players[i].street
\* Who can act has paid as much as anybody before the street, and so has whoever
\* has put chips in on it.
Level(s) ==
    \A i \in Active(s), j \in In(s) :
       /\ Before(s, j) <= Before(s, i)
       /\ s.players[j].street > 0 \/ j \in Active(s) => Before(s, j) = Before(s, i)
\* Who can act and need not has met the bet.
Matched(s) == \A i \in Active(s) : ~s.players[i].pending => s.players[i].street = s.currentBet
\* A seat with the highest commitment still to act is the last that acts.
Order(s, seat) ==
    \A b \in PendingSeats(s) :
       s.players[b].street > 0 /\ (\A i \in In(s) : s.players[i].street <= s.players[b].street)
       => nextSeat(PendingSeats(s), b) = seat
\* The betting before the turn is given, and when somebody has it.
Bets(s) ==
    /\ s.street \in BettingStreets /\ Accounts(s) /\ Level(s) /\ BetOf(s, s.currentBet)
    /\ LiveTop(s) /\ Matched(s)
Ready(s, after) == Bets(s) /\ Order(s, nextSeat(PendingSeats(s), after))
Staked(s) == Bets(s) /\ Order(s, s.actor) /\ s.actor \in PendingSeats(s) /\ ~Decided(s)
Outcome(s) == validate(s) /\ (Staked(s) \/ (s.street = "SETTLED" /\ Fair(s)))

\* The live, active and pending seats of a hand lie in one another and are finitely many.
LEMMA SeatsOf ==
  ASSUME NEW s, Accounts(s)
  PROVE  /\ IsFiniteSet(In(s)) /\ In(s) \subseteq 1..9 /\ Live(s) \subseteq In(s)
         /\ Active(s) \subseteq Live(s) /\ PendingSeats(s) \subseteq Active(s)
         /\ IsFiniteSet(Active(s)) /\ IsFiniteSet(Live(s))
  <1>1. In(s) \in SUBSET (1..9)
    BY EngineAssumption DEF Accounts
  <1>2. Live(s) \subseteq In(s) /\ Active(s) \subseteq Live(s) /\ PendingSeats(s) \subseteq Active(s)
    BY DEF Live, Active, PendingSeats
  <1> QED
    BY <1>1, <1>2, SeatsFinite, FS_Subset

\* The bet that validate recomputes is the only one that fits the commitments.
LEMMA ExpectedIs ==
  ASSUME NEW s, Accounts(s)
  PROVE  BetOf(s, ExpectedBet(s)) /\ \A b : BetOf(s, b) => b = ExpectedBet(s)
  <1> DEFINE f == [i \in In(s) |-> s.players[i].street]
  <1>1. \A i \in In(s) : f[i] = s.players[i].street /\ s.players[i].street \in Nat
    BY DEF Accounts, Account
  <1>2. PICK h : h = Highest(f, In(s))
    OBVIOUS
  <1>3. PICK d : d = IF s.street = "PREFLOP" THEN BigBlind ELSE 0
    OBVIOUS
  <1>4. ExpectedBet(s) = Max({h, d})
    BY <1>2, <1>3 DEF ExpectedBet
  <1> HIDE DEF f
  <1>5. /\ h \in Nat /\ (\A i \in In(s) : s.players[i].street <= h)
        /\ (h = 0 \/ \E i \in In(s) : s.players[i].street = h)
    <2>1. /\ h \in Nat /\ (\A i \in In(s) : f[i] <= h) /\ (h = 0 \/ \E i \in In(s) : f[i] = h)
      BY <1>1, <1>2, SeatsOf, HighestOf
    <2> QED
      BY <1>1, <2>1
  <1>6. BigBlind \in Nat
    BY EngineAssumption
  <1>7. d \in Nat
    BY <1>3, <1>6
  <1>8. Max({h, d}) = IF h <= d THEN d ELSE h
    BY <1>5, <1>7, MaxTwo
  <1>9. PICK e : e = ExpectedBet(s)
    OBVIOUS
  <1>10. BetOf(s, e)
    <2>1. e \in Nat /\ h <= e /\ d <= e /\ (e = h \/ e = d)
      BY <1>4, <1>5, <1>7, <1>8, <1>9
    <2>2. \A i \in In(s) : s.players[i].street <= e
      BY <1>1, <1>5, <2>1
    <2>3. s.street = "PREFLOP" => BigBlind <= e
      BY <1>3, <2>1
    <2>4. \/ e = 0
          \/ s.street = "PREFLOP" /\ e = BigBlind
          \/ \E i \in In(s) : s.players[i].street = e
      <3>1. CASE e = d
        BY <1>3, <3>1
      <3>2. CASE e = h
        BY <1>5, <3>2
      <3> QED
        BY <2>1, <3>1, <3>2
    <2> QED
      BY <2>1, <2>2, <2>3, <2>4 DEF BetOf
  <1>11. ASSUME NEW b, BetOf(s, b) PROVE b = e
    BY <1>1, <1>6, <1>10, <1>11 DEF BetOf
  <1> QED
    BY <1>9, <1>10, <1>11

\* The hand whose turn has been given passes the audit.
LEMMA TurnValid ==
  ASSUME NEW s, Staked(s)
  PROVE  validate(s)
  <1>1. /\ Accounts(s) /\ BetOf(s, s.currentBet) /\ s.actor \in PendingSeats(s)
        /\ s.street # "SETTLED"
    BY DEF Staked, Bets, BettingStreets
  <1>2. s.pots = {} /\ \A i \in In(s) : s.returned[i] = 0
    <2>1. s.returned = [i \in In(s) |-> 0]
      BY <1>1 DEF Accounts
    <2> QED
      BY <1>1, <2>1 DEF Accounts
  <1>3. \A i \in In(s) : Awarded(s, i) = 0
    <2>1. ASSUME NEW i \in In(s) PROVE Awarded(s, i) = 0
      <3> DEFINE f == [p \in s.pots |-> p.awards[i]]
      <3>1. Awarded(s, i) = SumFunctionOnSet(f, {})
        BY <1>2 DEF Awarded
      <3> HIDE DEF f
      <3> QED
        BY <3>1, SumEmpty
    <2> QED
      BY <2>1
  <1>4. ValidBetting(s)
    BY <1>1, <1>2, ExpectedIs DEF ValidBetting
  <1>5. ASSUME NEW i \in In(s)
        PROVE  /\ s.players[i].stack >= 0 /\ s.players[i].street \in 0..s.players[i].total
               /\ s.players[i].acted \in -1..s.fullRaises
               /\ s.players[i].paid <= s.players[i].initial
               /\ s.players[i].stack = s.players[i].initial - s.players[i].paid + s.returned[i] + Awarded(s, i)
               /\ s.players[i].total = s.players[i].paid
               /\ s.players[i].stack + s.players[i].total = s.players[i].initial
    <2>1. Account(s, i) /\ s.returned[i] = 0 /\ Awarded(s, i) = 0
      BY <1>1, <1>2, <1>3 DEF Accounts
    <2>2. PICK p : p = s.players[i]
      OBVIOUS
    <2>3. /\ p.initial \in Nat /\ p.stack \in Nat /\ p.total \in Nat /\ p.street \in 0..p.total
          /\ p.paid = p.total /\ p.stack + p.total = p.initial /\ p.acted \in -1..s.fullRaises
      BY <2>1, <2>2 DEF Account
    <2> QED
      BY <2>1, <2>2, <2>3
  <1> DEFINE wealth == [i \in In(s) |-> s.players[i].stack + s.players[i].total]
             initial == [i \in In(s) |-> s.players[i].initial]
  <1>6. SumFunctionOnSet(wealth, In(s)) = SumFunctionOnSet(initial, In(s))
    <2>1. \A i \in In(s) : wealth[i] = initial[i]
      BY <1>5
    <2>2. IsFiniteSet(In(s))
      BY <1>1, SeatsOf
    <2> HIDE DEF wealth, initial
    <2> QED
      BY <2>1, <2>2, SumCong
  <1> QED
    BY <1>1, <1>4, <1>5, <1>6 DEF validate

\* The turn goes to a seat that has to act.
LEMMA TurnGiven ==
  ASSUME NEW s, NEW after \in Int, Ready(s, after), ~Decided(s), PendingSeats(s) # {},
         NEW m, m = setActor(s, nextSeat(PendingSeats(s), after))
  PROVE  Staked(m)
  <1>1. PICK a : a = nextSeat(PendingSeats(s), after)
    OBVIOUS
  <1>2. Accounts(s) /\ DOMAIN s = HandFields
    BY DEF Ready, Bets, Accounts
  <1>3. PendingSeats(s) \in SUBSET (1..9)
    BY <1>2, SeatsOf
  <1>4. a \in PendingSeats(s)
    BY <1>1, <1>3, NextSeat
  <1>5. /\ DOMAIN m = HandFields /\ m.players = s.players /\ m.street = s.street /\ m.button = s.button
        /\ m.currentBet = s.currentBet /\ m.fullRaises = s.fullRaises /\ m.pots = s.pots
        /\ m.returned = s.returned /\ m.actor = a
    BY <1>1, <1>2 DEF setActor, HandFields
  <1>6. In(m) = In(s) /\ Live(m) = Live(s) /\ Active(m) = Active(s) /\ PendingSeats(m) = PendingSeats(s)
    BY <1>5 DEF In, Live, Active, PendingSeats
  <1>7. Accounts(m)
    BY <1>2, <1>5, <1>6 DEF Accounts, Account
  <1>8. Level(m) /\ Matched(m) /\ LiveTop(m) /\ BetOf(m, m.currentBet) /\ m.street \in BettingStreets
    <2>1. Level(m)
      BY <1>5, <1>6 DEF Ready, Bets, Level, Before
    <2>2. Matched(m)
      BY <1>5, <1>6 DEF Ready, Bets, Matched
    <2>3. LiveTop(m)
      BY <1>5, <1>6 DEF Ready, Bets, LiveTop
    <2>4. BetOf(m, m.currentBet) /\ m.street \in BettingStreets
      BY <1>5, <1>6 DEF Ready, Bets, BetOf
    <2> QED
      BY <2>1, <2>2, <2>3, <2>4
  <1>9. Order(m, m.actor)
    BY <1>1, <1>5, <1>6 DEF Ready, Order
  <1>10. ~Decided(m)
    BY <1>5, <1>6 DEF Decided, Runout
  <1> QED
    BY <1>4, <1>5, <1>6, <1>7, <1>8, <1>9, <1>10 DEF Staked, Bets

\* The end of the loop of progress.
LEMMA Concluded ==
  ASSUME NEW s, NEW after \in Int, Ready(s, after), NEW m \in Conclude(s, after),
         Decided(s) \/ PendingSeats(s) # {} \/ s.street = "RIVER"
  PROVE  Outcome(m)
  <1>1. CASE m \in settle(s)
    <2>1. Accounts(s) /\ LiveTop(s)
      BY DEF Ready, Bets
    <2>2. PICK n : Ended(m, n, s)
      BY <1>1, <2>1, Ends
    <2>3. validate(m) /\ Fair(m) /\ m.street = "SETTLED"
      BY <2>1, <2>2, EndsValid, EndsFair DEF Ended
    <2> QED
      BY <2>3 DEF Outcome
  <1>2. CASE m \notin settle(s)
    <2>1. ~Decided(s) /\ ~(PendingSeats(s) = {} /\ s.street = "RIVER")
          /\ m = setActor(s, nextSeat(PendingSeats(s), after))
      BY <1>2 DEF Conclude
    <2>2. Staked(m)
      BY <2>1, TurnGiven
    <2>3. validate(m)
      BY <2>2, TurnValid
    <2> QED
      BY <2>2, <2>3 DEF Outcome
  <1> QED
    BY <1>1, <1>2

\* Clearing the folded and the all-in seats leaves who has to act.
LEMMA Cleared ==
  ASSUME NEW s, NEW after, Ready(s, after), NEW n, n = ClearPending(s)
  PROVE  Ready(n, after) /\ n.button = s.button
  <1>1. Accounts(s) /\ DOMAIN s = HandFields /\ \A i \in In(s) : DOMAIN s.players[i] = PlayerFields
    BY DEF Ready, Bets, Accounts
  <1>2. n = [s EXCEPT !.players = [i \in In(s) |-> [s.players[i] EXCEPT !.pending =
                @ /\ s.players[i].stack # 0 /\ ~s.players[i].folded]]]
    BY DEF ClearPending, UpdateAll
  <1>3. /\ DOMAIN n = HandFields /\ In(n) = In(s) /\ n.street = s.street /\ n.button = s.button
        /\ n.currentBet = s.currentBet /\ n.fullRaises = s.fullRaises /\ n.pots = s.pots
        /\ n.returned = s.returned
        /\ n.players = [i \in In(s) |-> [s.players[i] EXCEPT !.pending =
                @ /\ s.players[i].stack # 0 /\ ~s.players[i].folded]]
    BY <1>1, <1>2 DEF HandFields, In
  <1>4. ASSUME NEW i \in In(s)
        PROVE  /\ DOMAIN n.players[i] = PlayerFields
               /\ n.players[i].initial = s.players[i].initial /\ n.players[i].stack = s.players[i].stack
               /\ n.players[i].street = s.players[i].street /\ n.players[i].total = s.players[i].total
               /\ n.players[i].paid = s.players[i].paid /\ n.players[i].folded = s.players[i].folded
               /\ n.players[i].acted = s.players[i].acted
               /\ n.players[i].pending
                    = (s.players[i].pending /\ s.players[i].stack # 0 /\ ~s.players[i].folded)
    <2>1. n.players[i] = [s.players[i] EXCEPT !.pending =
                @ /\ s.players[i].stack # 0 /\ ~s.players[i].folded]
      BY <1>3
    <2> QED
      BY <1>1, <2>1 DEF PlayerFields
  <1>5. Live(n) = Live(s) /\ Active(n) = Active(s)
    BY <1>3, <1>4 DEF Live, Active
  <1>6. \A i \in Active(s) : i \in In(s) /\ n.players[i].pending = s.players[i].pending
    <2>1. \A i \in In(s) : s.players[i].stack \in Nat /\ s.players[i].pending \in BOOLEAN
      BY <1>1 DEF Accounts, Account
    <2> QED
      BY <1>4, <2>1 DEF Active, Live
  <1>7. PendingSeats(n) = PendingSeats(s)
    BY <1>5, <1>6 DEF PendingSeats
  <1>8. Accounts(n)
    <2>1. ASSUME NEW i \in In(s) PROVE Account(n, i)
      <3>1. Account(s, i)
        BY <1>1 DEF Accounts
      <3>2. n.players[i].pending \in BOOLEAN
        BY <1>4, <3>1 DEF Account
      <3> QED
        BY <1>3, <1>4, <3>1, <3>2 DEF Account
    <2> QED
      BY <1>1, <1>3, <1>4, <2>1 DEF Accounts
  <1>9. Level(n)
    <2>1. \A i \in In(s) : Before(n, i) = Before(s, i)
      BY <1>4 DEF Before
    <2>2. \A i \in Active(s) : i \in In(s)
      BY DEF Active, Live
    <2>3. Level(s)
      BY DEF Ready, Bets
    <2> QED
      BY <1>3, <1>4, <1>5, <2>1, <2>2, <2>3 DEF Level
  <1>10. LiveTop(n)
    <2>1. ASSUME NEW i \in In(n) PROVE \E j \in Live(n) : n.players[i].total <= n.players[j].total
      <3>1. i \in In(s) /\ LiveTop(s)
        BY <1>3 DEF Ready, Bets
      <3>2. PICK j \in Live(s) : s.players[i].total <= s.players[j].total
        BY <3>1 DEF LiveTop
      <3>3. j \in In(s)
        BY DEF Live
      <3> QED
        BY <1>4, <1>5, <3>1, <3>2, <3>3
    <2> QED
      BY <2>1 DEF LiveTop
  <1>11. Matched(n)
    BY <1>3, <1>4, <1>5, <1>6 DEF Matched, Ready, Bets
  <1>12. BetOf(n, n.currentBet) /\ n.street \in BettingStreets
    BY <1>3, <1>4 DEF BetOf, Ready, Bets
  <1>13. Order(n, nextSeat(PendingSeats(n), after))
    <2>1. \A b \in PendingSeats(s) : b \in In(s)
      BY DEF PendingSeats, Active, Live
    <2>2. Order(s, nextSeat(PendingSeats(s), after))
      BY DEF Ready
    <2> QED
      BY <1>3, <1>4, <1>7, <2>1, <2>2 DEF Order
  <1> QED
    BY <1>3, <1>8, <1>9, <1>10, <1>11, <1>12, <1>13 DEF Ready, Bets

\* A new street begins even: all who can act have paid the same, and have to act.
LEMMA StreetBegins ==
  ASSUME NEW s, Bets(s), s.street # "RIVER", PendingSeats(s) = {},
         NEW m, m = nextStreet(s), NEW after
  PROVE  Ready(m, after) /\ (Decided(m) \/ PendingSeats(m) # {})
  <1>1. Accounts(s) /\ DOMAIN s = HandFields /\ \A i \in In(s) : DOMAIN s.players[i] = PlayerFields
    BY DEF Bets, Accounts
  <1>2. m = [[s EXCEPT !.players = [i \in In(s) |-> [s.players[i] EXCEPT !.street = 0, !.acted = -1,
                !.pending = ~s.players[i].folded /\ s.players[i].stack > 0]]]
                EXCEPT !.street = FollowingStreet[@], !.currentBet = 0,
                       !.lastFullRaise = BigBlind, !.fullRaises = 0]
    BY DEF nextStreet, UpdateAll
  <1>3. /\ DOMAIN m = HandFields /\ m.street = FollowingStreet[s.street] /\ m.button = s.button
        /\ m.currentBet = 0 /\ m.fullRaises = 0 /\ In(m) = In(s) /\ m.pots = s.pots
        /\ m.returned = s.returned
    BY <1>1, <1>2 DEF HandFields, In
  <1>4. ASSUME NEW i \in In(s)
        PROVE  /\ DOMAIN m.players[i] = PlayerFields
               /\ m.players[i].initial = s.players[i].initial /\ m.players[i].stack = s.players[i].stack
               /\ m.players[i].street = 0 /\ m.players[i].total = s.players[i].total
               /\ m.players[i].paid = s.players[i].paid /\ m.players[i].folded = s.players[i].folded
               /\ m.players[i].acted = -1
               /\ m.players[i].pending = (~s.players[i].folded /\ s.players[i].stack > 0)
    <2>1. m.players = [j \in In(s) |-> [s.players[j] EXCEPT !.street = 0, !.acted = -1,
                          !.pending = ~s.players[j].folded /\ s.players[j].stack > 0]]
      BY <1>1, <1>2 DEF HandFields
    <2>2. m.players[i] = [s.players[i] EXCEPT !.street = 0, !.acted = -1,
                              !.pending = ~s.players[i].folded /\ s.players[i].stack > 0]
      BY <2>1
    <2> QED
      BY <1>1, <2>2 DEF PlayerFields
  <1>5. Live(m) = Live(s) /\ Active(m) = Active(s) /\ \A i \in Active(s) : i \in In(s)
    BY <1>3, <1>4 DEF Live, Active
  <1>6. PendingSeats(m) = Active(s)
    BY <1>4, <1>5 DEF PendingSeats, Active, Live
  <1>7. m.street \in BettingStreets /\ m.street # "PREFLOP"
    <2>1. s.street \in {"PREFLOP", "FLOP", "TURN"}
      BY DEF Bets, BettingStreets, Streets
    <2>2. FollowingStreet[s.street] \in {"FLOP", "TURN", "RIVER"}
      BY <2>1 DEF FollowingStreet
    <2> QED
      BY <1>3, <2>2 DEF BettingStreets, Streets
  <1>8. Accounts(m)
    <2>1. ASSUME NEW i \in In(s) PROVE Account(m, i)
      <3>1. Account(s, i)
        BY <1>1 DEF Accounts
      <3>2. m.players[i].pending \in BOOLEAN
        BY <1>4
      <3>3. PICK p, q : p = s.players[i] /\ q = m.players[i]
        OBVIOUS
      <3>4. /\ p.initial \in Nat /\ p.stack \in Nat /\ p.total \in Nat /\ p.paid = p.total
            /\ p.stack + p.total = p.initial /\ p.folded \in BOOLEAN
        BY <3>1, <3>3 DEF Account
      <3>5. /\ q.initial = p.initial /\ q.stack = p.stack /\ q.street = 0 /\ q.total = p.total
            /\ q.paid = p.paid /\ q.folded = p.folded /\ q.acted = -1 /\ m.fullRaises = 0
        BY <1>3, <1>4, <3>3
      <3>6. q.street \in 0..q.total /\ q.acted \in -1..m.fullRaises
        BY <3>4, <3>5
      <3> QED
        BY <3>2, <3>3, <3>4, <3>5, <3>6 DEF Account
    <2>2. m.fullRaises \in Nat
      BY <1>3
    <2>3. In(m) \subseteq Seats /\ m.button \in In(m) /\ m.pots = {} /\ m.returned = [i \in In(m) |-> 0]
      BY <1>1, <1>3 DEF Accounts
    <2> QED
      BY <1>3, <1>4, <2>1, <2>2, <2>3 DEF Accounts
  <1>9. Level(m)
    <2>1. ASSUME NEW i \in Active(m), NEW j \in In(m)
          PROVE  /\ Before(m, j) <= Before(m, i)
                 /\ m.players[j].street > 0 \/ j \in Active(m) => Before(m, j) = Before(m, i)
      <3>1. PICK x, y, v, w, bet : /\ x = s.players[i].total /\ y = s.players[j].total
                                   /\ v = s.players[i].street /\ w = s.players[j].street
                                   /\ bet = s.currentBet
        OBVIOUS
      <3>2. i \in Active(s) /\ i \in In(s) /\ j \in In(s)
        BY <1>3, <1>5
      <3>3. x \in Nat /\ y \in Nat /\ v \in Nat /\ w \in Nat /\ bet \in Nat /\ w <= bet
        BY <1>1, <3>1, <3>2 DEF Accounts, Account, Bets, BetOf
      <3>4. y - w <= x - v /\ (w > 0 \/ j \in Active(s) => y - w = x - v)
        BY <3>1, <3>2 DEF Bets, Level, Before
      <3>5. v = bet /\ (j \in Active(s) => w = bet)
        BY <3>1, <3>2 DEF Bets, Matched, PendingSeats
      <3>6. y <= x /\ (j \in Active(s) => y = x)
        BY <3>3, <3>4, <3>5
      <3>7. Before(m, j) = y /\ Before(m, i) = x /\ m.players[j].street = 0
        BY <1>4, <3>1, <3>2, <3>3 DEF Before
      <3> QED
        BY <1>5, <3>6, <3>7
    <2> QED
      BY <2>1 DEF Level
  <1>10. LiveTop(m)
    <2>1. ASSUME NEW i \in In(m) PROVE \E j \in Live(m) : m.players[i].total <= m.players[j].total
      <3>1. i \in In(s) /\ LiveTop(s)
        BY <1>3 DEF Bets
      <3>2. PICK j \in Live(s) : s.players[i].total <= s.players[j].total
        BY <3>1 DEF LiveTop
      <3>3. j \in In(s)
        BY DEF Live
      <3> QED
        BY <1>4, <1>5, <3>1, <3>2, <3>3
    <2> QED
      BY <2>1 DEF LiveTop
  <1>11. Matched(m)
    BY <1>4, <1>5 DEF Matched, Active, Live
  <1>12. BetOf(m, m.currentBet)
    <2>1. \A i \in In(m) : m.players[i].street <= 0
      BY <1>3, <1>4
    <2> QED
      BY <1>3, <1>7, <2>1 DEF BetOf
  <1>13. Order(m, nextSeat(PendingSeats(m), after))
    BY <1>4, <1>5, <1>6 DEF Order
  <1>14. Decided(m) \/ PendingSeats(m) # {}
    <2>1. ASSUME Active(s) = {} PROVE Runout(m)
      <3>1. Active(m) = {} /\ Cardinality({}) = 0
        BY <1>5, <2>1, FS_EmptySet
      <3> QED
        BY <3>1 DEF Runout
    <2> QED
      BY <1>6, <2>1 DEF Decided
  <1> QED
    BY <1>7, <1>8, <1>9, <1>10, <1>11, <1>12, <1>13, <1>14 DEF Ready, Bets

\* progress always ends in a hand that passes the audit.
LEMMA ProgressValid ==
  ASSUME NEW s, NEW after \in Int, Ready(s, after), NEW m \in progress(s, after)
  PROVE  Outcome(m)
  <1>1. PICK n : /\ n = ClearPending(s)
                 /\ IF Decided(n) \/ PendingSeats(n) # {} \/ n.street = "RIVER"
                    THEN m \in Conclude(n, after)
                    ELSE m \in Conclude(nextStreet(n), s.button)
    BY DEF progress
  <1>2. Ready(n, after)
    BY <1>1, Cleared
  <1>3. CASE Decided(n) \/ PendingSeats(n) # {} \/ n.street = "RIVER"
    BY <1>1, <1>2, <1>3, Concluded
  <1>4. CASE ~(Decided(n) \/ PendingSeats(n) # {} \/ n.street = "RIVER")
    <2>1. PICK k : k = nextStreet(n)
      OBVIOUS
    <2>2. Bets(n)
      BY <1>2 DEF Ready
    <2>3. Ready(k, s.button) /\ (Decided(k) \/ PendingSeats(k) # {})
      BY <1>4, <2>1, <2>2, StreetBegins
    <2>4. s.button \in Int
      <3>1. s.button \in In(s) /\ In(s) \subseteq 1..9
        BY SeatsOf DEF Ready, Bets, Accounts
      <3> QED
        BY <3>1
    <2> QED
      BY <1>1, <1>4, <2>1, <2>3, <2>4, Concluded
  <1> QED
    BY <1>3, <1>4

\* What an action to the target t changes of the actor and of the others.
PlayedActor(k, s, kind, t) ==
    LET a == s.actor
        p == s.players[a]
        q == k.players[a]
    IN  /\ DOMAIN q = PlayerFields /\ q.initial = p.initial
        /\ q.stack = p.stack - (t - p.street) /\ q.street = t
        /\ q.total = p.total + (t - p.street) /\ q.paid = p.paid + (t - p.street)
        /\ q.folded = (p.folded \/ kind = "FOLD") /\ q.acted = k.fullRaises /\ q.pending = FALSE
PlayedOther(k, s, t, j) ==
    LET p == s.players[j]
        q == k.players[j]
    IN  /\ DOMAIN q = PlayerFields /\ q.initial = p.initial /\ q.stack = p.stack
        /\ q.street = p.street /\ q.total = p.total /\ q.paid = p.paid
        /\ q.folded = p.folded /\ q.acted = p.acted
        /\ q.pending = (p.pending \/ (t > s.currentBet /\ j \in Active(s) /\ p.street < t))
PlayedTo(k, s, kind, t) ==
    /\ DOMAIN k = HandFields /\ In(k) = In(s) /\ k.street = s.street /\ k.button = s.button
    /\ k.pots = s.pots /\ k.returned = s.returned
    /\ k.currentBet = (IF t > s.currentBet THEN t ELSE s.currentBet)
    /\ k.fullRaises \in Nat /\ s.fullRaises <= k.fullRaises
    /\ PlayedActor(k, s, kind, t)
    /\ \A j \in In(s) \ {s.actor} : PlayedOther(k, s, t, j)

\* What the cases of applyInternal do to the actor, to the others and to the bet.
LEMMA Plays ==
  ASSUME NEW s, Accounts(s), s.actor \in In(s), s.currentBet \in Int, s.lastFullRaise \in Int,
         NEW t \in Int, NEW kind, NEW timeout, NEW k, k = Played(s, kind, t, timeout)
  PROVE  PlayedTo(k, s, kind, t)
  <1>1. PICK a, p, d : a = s.actor /\ p = s.players[a] /\ d = t - p.street
    OBVIOUS
  <1>2. DOMAIN s = HandFields /\ a \in In(s) /\ \A i \in In(s) : DOMAIN s.players[i] = PlayerFields
    BY <1>1 DEF Accounts
  <1>3. /\ p.stack \in Nat /\ p.street \in Nat /\ p.total \in Nat /\ p.paid \in Nat /\ d \in Int
        /\ p.folded \in BOOLEAN /\ p.pending \in BOOLEAN /\ s.fullRaises \in Nat
    BY <1>1, <1>2 DEF Accounts, Account
  <1>4. PICK n : n = MoveChips(s, kind, t)
    OBVIOUS
  <1>5. PICK f, c : f = [p EXCEPT !.folded = @ \/ kind = "FOLD"] /\ c = commit(f, d)
    OBVIOUS
  <1>6. /\ DOMAIN f = PlayerFields /\ f.initial = p.initial /\ f.stack = p.stack /\ f.street = p.street
        /\ f.total = p.total /\ f.paid = p.paid /\ f.folded = (p.folded \/ kind = "FOLD")
    BY <1>1, <1>2, <1>5 DEF PlayerFields
  <1>7. /\ DOMAIN c = PlayerFields /\ c.initial = p.initial /\ c.stack = p.stack - d
        /\ c.street = p.street + d /\ c.total = p.total + d /\ c.paid = p.paid + d
        /\ c.folded = (p.folded \/ kind = "FOLD")
    BY <1>5, <1>6 DEF commit, PlayerFields
  <1>8. n = [s EXCEPT !.players[a] = c]
    BY <1>1, <1>4, <1>5 DEF MoveChips, Update
  <1>9. /\ DOMAIN n = HandFields /\ In(n) = In(s) /\ n.street = s.street /\ n.button = s.button
        /\ n.pots = s.pots /\ n.returned = s.returned /\ n.currentBet = s.currentBet
        /\ n.fullRaises = s.fullRaises /\ n.lastFullRaise = s.lastFullRaise /\ n.actor = a
        /\ n.players[a] = c /\ \A j \in In(s) \ {a} : n.players[j] = s.players[j]
    BY <1>1, <1>2, <1>8 DEF HandFields, In
  <1>10. \A j \in In(s) \ {a} : j \in Active(n) <=> j \in Active(s)
    BY <1>9 DEF Active, Live
  <1>11. PICK m : m = RaiseTo(n, t)
    OBVIOUS
  <1>12. /\ DOMAIN m = HandFields /\ In(m) = In(s) /\ m.street = s.street /\ m.button = s.button
         /\ m.pots = s.pots /\ m.returned = s.returned /\ m.actor = a
         /\ m.currentBet = (IF t > s.currentBet THEN t ELSE s.currentBet)
         /\ m.fullRaises \in Nat /\ s.fullRaises <= m.fullRaises
         /\ \A j \in In(s) :
               /\ DOMAIN m.players[j] = PlayerFields
               /\ m.players[j].initial = n.players[j].initial /\ m.players[j].stack = n.players[j].stack
               /\ m.players[j].street = n.players[j].street /\ m.players[j].total = n.players[j].total
               /\ m.players[j].paid = n.players[j].paid /\ m.players[j].folded = n.players[j].folded
               /\ m.players[j].acted = n.players[j].acted
         /\ \A j \in In(s) \ {a} : m.players[j].pending
               = (s.players[j].pending \/ (t > s.currentBet /\ j \in Active(s) /\ s.players[j].street < t))
    <2>1. \A j \in In(s) : DOMAIN n.players[j] = PlayerFields
      BY <1>2, <1>7, <1>9
    <2>2. CASE t <= s.currentBet
      <3>1. m = n /\ ~(t > s.currentBet)
        BY <1>9, <1>11, <2>2 DEF RaiseTo
      <3>2. \A j \in In(s) \ {a} : s.players[j].pending \in BOOLEAN
        BY DEF Accounts, Account
      <3>3. m.fullRaises \in Nat /\ s.fullRaises <= m.fullRaises
        BY <1>3, <1>9, <3>1
      <3> QED
        BY <1>9, <2>1, <3>1, <3>2, <3>3
    <2>3. CASE ~(t <= s.currentBet)
      <3>1. PICK full : full = (t - s.currentBet >= s.lastFullRaise)
        OBVIOUS
      <3>2. m = [n EXCEPT !.currentBet = t,
                       !.fullRaises = IF full THEN @ + 1 ELSE @,
                       !.lastFullRaise = IF full THEN t - s.currentBet ELSE @,
                       !.players = [i \in In(n) |-> [n.players[i] EXCEPT !.pending =
                           @ \/ (i # a /\ i \in Active(n) /\ n.players[i].street < t)]]]
        BY <1>9, <1>11, <2>3, <3>1 DEF RaiseTo
      <3>3. /\ DOMAIN m = HandFields /\ In(m) = In(s) /\ m.street = s.street /\ m.button = s.button
            /\ m.pots = s.pots /\ m.returned = s.returned /\ m.actor = a /\ m.currentBet = t
        BY <1>9, <3>2 DEF HandFields, In
      <3>4. m.fullRaises = (IF full THEN n.fullRaises + 1 ELSE n.fullRaises)
        BY <1>9, <3>2 DEF HandFields
      <3>5. m.fullRaises \in Nat /\ s.fullRaises <= m.fullRaises
        BY <1>3, <1>9, <3>4
      <3>6. m.players = [i \in In(n) |-> [n.players[i] EXCEPT !.pending =
                           @ \/ (i # a /\ i \in Active(n) /\ n.players[i].street < t)]]
        BY <1>9, <3>2 DEF HandFields
      <3>7. ASSUME NEW j \in In(s)
            PROVE  /\ DOMAIN m.players[j] = PlayerFields
                   /\ m.players[j].initial = n.players[j].initial /\ m.players[j].stack = n.players[j].stack
                   /\ m.players[j].street = n.players[j].street /\ m.players[j].total = n.players[j].total
                   /\ m.players[j].paid = n.players[j].paid /\ m.players[j].folded = n.players[j].folded
                   /\ m.players[j].acted = n.players[j].acted
                   /\ m.players[j].pending
                        = (n.players[j].pending \/ (j # a /\ j \in Active(n) /\ n.players[j].street < t))
        <4>1. m.players[j] = [n.players[j] EXCEPT !.pending =
                           @ \/ (j # a /\ j \in Active(n) /\ n.players[j].street < t)]
          BY <1>9, <3>6
        <4> QED
          BY <2>1, <4>1 DEF PlayerFields
      <3>8. t > s.currentBet
        BY <2>3
      <3>9. \A j \in In(s) \ {a} : m.players[j].pending
               = (s.players[j].pending \/ (t > s.currentBet /\ j \in Active(s) /\ s.players[j].street < t))
        BY <1>9, <1>10, <3>7, <3>8
      <3> QED
        BY <3>3, <3>5, <3>7, <3>8, <3>9
    <2> QED
      BY <2>2, <2>3
  <1>13. PICK r : r = MarkActed(m.players[a], kind, m.fullRaises, timeout)
    OBVIOUS
  <1>14. k = [m EXCEPT !.players[a] = r]
    BY <1>1, <1>4, <1>11, <1>12, <1>13 DEF Played, Record, Update
  <1>15. /\ DOMAIN r = PlayerFields /\ r.initial = c.initial /\ r.stack = c.stack /\ r.street = c.street
         /\ r.total = c.total /\ r.paid = c.paid /\ r.folded = c.folded
         /\ r.acted = m.fullRaises /\ r.pending = FALSE
    <2>1. PICK w : w = m.players[a]
      OBVIOUS
    <2>2. /\ DOMAIN w = PlayerFields /\ w.initial = c.initial /\ w.stack = c.stack /\ w.street = c.street
          /\ w.total = c.total /\ w.paid = c.paid /\ w.folded = c.folded
      BY <1>2, <1>9, <1>12, <2>1
    <2>3. r = MarkActed(w, kind, m.fullRaises, timeout)
      BY <1>13, <2>1
    <2> QED
      BY <2>2, <2>3 DEF MarkActed, PlayerFields
  <1>16. /\ DOMAIN k = HandFields /\ In(k) = In(s) /\ k.street = s.street /\ k.button = s.button
         /\ k.pots = s.pots /\ k.returned = s.returned /\ k.currentBet = m.currentBet
         /\ k.fullRaises = m.fullRaises
         /\ k.players[a] = r /\ \A j \in In(s) \ {a} : k.players[j] = m.players[j]
    BY <1>2, <1>12, <1>14 DEF HandFields, In
  <1>17. PlayedActor(k, s, kind, t)
    <2>1. c.street = t
      BY <1>1, <1>3, <1>7
    <2> QED
      BY <1>1, <1>7, <1>15, <1>16, <2>1 DEF PlayedActor
  <1>18. ASSUME NEW j \in In(s) \ {s.actor} PROVE PlayedOther(k, s, t, j)
    BY <1>1, <1>9, <1>12, <1>16 DEF PlayedOther
  <1> QED
    BY <1>12, <1>16, <1>17, <1>18 DEF PlayedTo

\* Where nextSeat goes: up to the next seat, or round to the first.
LEMMA NextSeatIs ==
  ASSUME NEW S \in SUBSET (1..9), S # {}, NEW x \in Int, NEW y, y = nextSeat(S, x)
  PROVE  /\ y \in S
         /\ \/ y > x /\ \A z \in S : z > x => y <= z
            \/ (\A z \in S : z <= x) /\ \A z \in S : y <= z
  <1> DEFINE above == {i \in S : i > x}
  <1>1. \A T \in SUBSET (1..9) : T # {} => Min(T) \in T /\ \A z \in T : Min(T) <= z
    <2>1. ASSUME NEW T \in SUBSET (1..9), T # {} PROVE Min(T) \in T /\ \A z \in T : Min(T) <= z
      <3>1. T \in SUBSET Nat
        BY <2>1
      <3>2. PICK o \in T : \A z \in T : o <= z
        BY <2>1, <3>1, Smallest
      <3> QED
        BY <3>2 DEF Min
    <2> QED
      BY <2>1
  <1>2. CASE above # {}
    <2>1. y = Min(above)
      BY <1>2 DEF nextSeat
    <2>2. Min(above) \in above /\ \A z \in above : Min(above) <= z
      BY <1>1, <1>2
    <2> QED
      BY <2>1, <2>2
  <1>3. CASE above = {}
    <2>1. y = Min(S)
      BY <1>3 DEF nextSeat
    <2>2. y \in S /\ \A z \in S : y <= z
      BY <1>1, <2>1
    <2>3. \A z \in S : z <= x
      <3>1. \A z \in S : ~(z > x) /\ z \in Int
        BY <1>3
      <3> QED
        BY <3>1
    <2> QED
      BY <2>2, <2>3
  <1> QED
    BY <1>2, <1>3

\* Without the seat after b, the others follow it as they follow b.
LEMMA NextBeyond ==
  ASSUME NEW S \in SUBSET (1..9), NEW b \in S, NEW a, a = nextSeat(S, b),
         NEW T \in SUBSET (S \ {a}), T # {}
  PROVE  nextSeat(T, b) = nextSeat(T, a)
  <1>1. PICK y, z : y = nextSeat(T, b) /\ z = nextSeat(T, a)
    OBVIOUS
  <1>2. /\ a \in S
        /\ \/ a > b /\ \A i \in S : i > b => a <= i
           \/ (\A i \in S : i <= b) /\ \A i \in S : a <= i
    <2>1. S # {} /\ b \in Int
      OBVIOUS
    <2> QED
      BY <2>1, NextSeatIs
  <1>3. T \in SUBSET (1..9) /\ a \in Int /\ b \in Int /\ a \notin T
    BY <1>2
  <1>4. /\ y \in T
        /\ \/ y > b /\ \A i \in T : i > b => y <= i
           \/ (\A i \in T : i <= b) /\ \A i \in T : y <= i
    BY <1>1, <1>3, NextSeatIs
  <1>5. /\ z \in T
        /\ \/ z > a /\ \A i \in T : i > a => z <= i
           \/ (\A i \in T : i <= a) /\ \A i \in T : z <= i
    BY <1>1, <1>3, NextSeatIs
  <1>6. \A i \in S : i \in 1..9
    OBVIOUS
  <1>7. T \subseteq S
    OBVIOUS
  <1>8. y = z
    BY <1>2, <1>3, <1>4, <1>5, <1>6, <1>7
  <1> QED
    BY <1>1, <1>8

\* A legal action commits no more than the stack, and meets the bet unless it folds
\* or is all in.
LEMMA LegalTarget ==
  ASSUME NEW s, Numbers(s), Bets(s), s.lastFullRaise >= BigBlind, s.actor \in In(s),
         NEW kind \in legalActions(s), NEW to \in LegalTargets(s, kind),
         NEW t, t = Target(s, kind, to), NEW p, p = s.players[s.actor]
  PROVE  /\ t \in p.street..(p.street + p.stack)
         /\ kind = "FOLD" => t = p.street
         /\ kind # "FOLD" => t >= s.currentBet \/ t = p.street + p.stack
  <1>1. /\ p.street \in Nat /\ p.stack \in Nat /\ s.currentBet \in Nat /\ p.street <= s.currentBet
        /\ s.lastFullRaise \in Int /\ BigBlind \in Nat
    <2>1. Account(s, s.actor) /\ BetOf(s, s.currentBet)
      BY DEF Bets, Accounts
    <2>2. BigBlind \in Nat
      BY EngineAssumption
    <2> QED
      BY <2>1, <2>2 DEF Account, BetOf, Numbers
  <1>2. PICK bet, c : bet = s.currentBet /\ c = bet - p.street
    OBVIOUS
  <1>3. c \in Nat /\ ToCall(s) = c
    <2>1. Max({0, c}) = IF 0 <= c THEN c ELSE 0
      BY <1>1, <1>2, MaxTwo
    <2> QED
      BY <1>1, <1>2, <2>1 DEF ToCall
  <1>4. kind \in {"FOLD", "CHECK", "CALL", "BET", "RAISE", "ALL_IN"}
    BY DEF legalActions
  <1>5. MaximumRaiseTo(s) = p.stack + p.street /\ MinimumRaiseTo(s) = bet + s.lastFullRaise
    BY <1>2 DEF MaximumRaiseTo, MinimumRaiseTo
  <1>6. CASE kind = "FOLD"
    BY <1>1, <1>6 DEF Target
  <1>7. CASE kind = "CHECK"
    <2>1. c = 0
      BY <1>3, <1>7 DEF legalActions
    <2> QED
      BY <1>1, <1>2, <1>7, <2>1 DEF Target
  <1>8. CASE kind = "CALL"
    <2>1. t = p.street + Min({c, p.stack})
      BY <1>3, <1>8 DEF Target
    <2>2. Min({c, p.stack}) = IF c <= p.stack THEN c ELSE p.stack
      BY <1>1, <1>3, MinTwo
    <2> QED
      BY <1>1, <1>2, <1>8, <2>1, <2>2
  <1>9. CASE kind = "BET"
    <2>1. t = to /\ to \in BigBlind..(p.stack + p.street)
      BY <1>5, <1>9 DEF Target, LegalTargets
    <2>2. bet = 0
      BY <1>2, <1>9 DEF legalActions
    <2> QED
      BY <1>1, <1>2, <1>9, <2>1, <2>2
  <1>10. CASE kind = "RAISE"
    <2>1. t = to /\ to \in (bet + s.lastFullRaise)..(p.stack + p.street)
      BY <1>5, <1>10 DEF Target, LegalTargets
    <2> QED
      BY <1>1, <1>2, <1>10, <2>1
  <1>11. CASE kind = "ALL_IN"
    BY <1>1, <1>11 DEF Target
  <1> QED
    BY <1>4, <1>6, <1>7, <1>8, <1>9, <1>10, <1>11

\* An action within the stack, which folds, meets the bet or is all in.
Allowed(s, kind, t) ==
    LET p == s.players[s.actor]
    IN  /\ t \in p.street..(p.street + p.stack)
        /\ kind = "FOLD" => t = p.street
        /\ kind # "FOLD" => t >= s.currentBet \/ t = p.street + p.stack

\* Who folds leaves somebody who has paid as much: otherwise the hand was decided.
LEMMA Outlived ==
  ASSUME NEW s, Staked(s), NEW a, a = s.actor
  PROVE  \E j \in Live(s) \ {a} : s.players[a].total <= s.players[j].total
  <1>1. /\ Accounts(s) /\ Level(s) /\ BetOf(s, s.currentBet) /\ LiveTop(s) /\ Matched(s)
        /\ Order(s, a) /\ a \in PendingSeats(s) /\ ~Decided(s)
    BY DEF Staked, Bets
  <1>2. a \in In(s) /\ a \in Active(s) /\ a \in Live(s)
    BY <1>1 DEF PendingSeats, Active, Live
  <1>3. \A i \in In(s) : s.players[i].total \in Nat /\ s.players[i].street \in Nat
    BY <1>1 DEF Accounts, Account
  <1>4. \A i \in Active(s) : i \in Live(s) /\ i \in In(s)
    BY DEF Active, Live
  <1>5. \A i \in Live(s) : i \in In(s)
    BY DEF Live
  <1>6. CASE \E i \in In(s) : s.players[i].street > s.players[a].street
    <2>1. PICK i \in In(s) : s.players[i].street > s.players[a].street
      BY <1>6
    <2>2. s.players[i].street > 0
      BY <1>2, <1>3, <2>1
    <2>3. s.players[i].total - s.players[i].street = s.players[a].total - s.players[a].street
      BY <1>1, <1>2, <2>2 DEF Level, Before
    <2>4. s.players[i].total > s.players[a].total
      BY <1>2, <1>3, <2>1, <2>3
    <2>5. PICK j \in Live(s) : s.players[i].total <= s.players[j].total
      BY <1>1 DEF LiveTop
    <2>6. s.players[a].total < s.players[j].total
      BY <1>2, <1>3, <1>5, <2>4, <2>5
    <2>7. j # a
      BY <1>2, <1>3, <2>6
    <2> QED
      BY <1>2, <1>3, <1>5, <2>6, <2>7
  <1>7. CASE \A i \in In(s) : s.players[i].street <= s.players[a].street
    <2>1. PICK b \in Active(s) : b # a
      <3>1. ASSUME \A b \in Active(s) : b = a PROVE FALSE
        <4>1. Active(s) = {a}
          BY <1>2, <3>1
        <4>2. Cardinality(Active(s)) <= 1
          <5>1. Cardinality({a}) = 1
            BY FS_Singleton
          <5> QED
            BY <4>1, <5>1
        <4>3. Runout(s)
          BY <1>7, <4>1, <4>2 DEF Runout
        <4> QED
          BY <1>1, <4>3 DEF Decided
      <3> QED
        BY <3>1
    <2>2. s.players[b].total - s.players[b].street = s.players[a].total - s.players[a].street
      BY <1>1, <1>2, <1>4 DEF Level, Before
    <2>3. s.players[b].street >= s.players[a].street
      <3>1. ASSUME ~(s.players[b].street >= s.players[a].street) PROVE FALSE
        <4>1. s.players[a].street > 0 /\ s.players[b].street < s.players[a].street
          BY <1>2, <1>3, <1>4, <3>1
        <4>2. nextSeat(PendingSeats(s), a) = a
          BY <1>1, <1>7, <4>1 DEF Order
        <4>3. PendingSeats(s) \in SUBSET (1..9) /\ PendingSeats(s) # {} /\ a \in Int
          BY <1>1, <1>2, SeatsOf
        <4>4. PendingSeats(s) = {a}
          BY <4>2, <4>3, NextSeat
        <4>5. ~s.players[b].pending
          BY <2>1, <4>4 DEF PendingSeats
        <4>6. s.players[b].street = s.currentBet
          BY <1>1, <4>5 DEF Matched
        <4> QED
          BY <1>1, <1>2, <1>3, <1>4, <4>1, <4>6 DEF BetOf
      <3> QED
        BY <3>1
    <2>4. s.players[b].total >= s.players[a].total
      BY <1>2, <1>3, <1>4, <2>2, <2>3
    <2> QED
      BY <1>2, <1>3, <1>4, <2>1, <2>4
  <1>8. \/ \E i \in In(s) : s.players[i].street > s.players[a].street
        \/ \A i \in In(s) : s.players[i].street <= s.players[a].street
    BY <1>2, <1>3
  <1> QED
    BY <1>6, <1>7, <1>8

\* The books of the seats after an action.
LEMMA PlayedSeats ==
  ASSUME NEW s, Staked(s), NEW kind, NEW t, Allowed(s, kind, t), NEW k, PlayedTo(k, s, kind, t)
  PROVE  /\ Accounts(k) /\ t \in Nat
         /\ \A i \in In(s) : Before(k, i) = Before(s, i) /\ s.players[i].street <= k.players[i].street
                             /\ s.players[i].total <= k.players[i].total
         /\ Active(k) \subseteq Active(s)
         /\ \A i \in In(s) \ {s.actor} : i \in Active(k) <=> i \in Active(s)
         /\ \A i \in In(s) \ {s.actor} : i \in Live(k) <=> i \in Live(s)
         /\ s.actor \in Live(k) <=> kind # "FOLD"
         /\ s.actor \in Active(k) => kind # "FOLD" /\ t >= s.currentBet
  <1>1. PICK a, p, q : a = s.actor /\ p = s.players[a] /\ q = k.players[a]
    OBVIOUS
  <1>2. Accounts(s) /\ a \in In(s) /\ a \in Active(s) /\ ~p.folded /\ s.currentBet \in Nat
    BY <1>1 DEF Staked, Bets, BetOf, PendingSeats, Active, Live
  <1>3. \A i \in In(s) : Account(s, i)
    BY <1>2 DEF Accounts
  <1>4. /\ p.initial \in Nat /\ p.stack \in Nat /\ p.total \in Nat /\ p.street \in 0..p.total
        /\ p.paid = p.total /\ p.stack + p.total = p.initial /\ p.folded \in BOOLEAN
    BY <1>1, <1>2, <1>3 DEF Account
  <1>5. /\ t \in p.street..(p.street + p.stack)
        /\ kind # "FOLD" => t >= s.currentBet \/ t = p.street + p.stack
    BY <1>1 DEF Allowed
  <1>6. /\ DOMAIN k = HandFields /\ In(k) = In(s) /\ k.button = s.button
        /\ k.pots = s.pots /\ k.returned = s.returned
        /\ k.fullRaises \in Nat /\ s.fullRaises <= k.fullRaises
        /\ PlayedActor(k, s, kind, t)
        /\ \A j \in In(s) \ {a} : PlayedOther(k, s, t, j)
    BY <1>1 DEF PlayedTo
  <1>7. /\ DOMAIN q = PlayerFields /\ q.initial = p.initial
        /\ q.stack = p.stack - (t - p.street) /\ q.street = t
        /\ q.total = p.total + (t - p.street) /\ q.paid = p.paid + (t - p.street)
        /\ q.folded = (p.folded \/ kind = "FOLD") /\ q.acted = k.fullRaises /\ q.pending = FALSE
    BY <1>1, <1>6 DEF PlayedActor
  <1>8. t \in Nat /\ q.stack \in Nat /\ q.total \in Nat /\ q.street \in 0..q.total
        /\ q.paid = q.total /\ q.stack + q.total = q.initial /\ p.street <= q.street
        /\ p.total <= q.total /\ q.total - q.street = p.total - p.street
    BY <1>4, <1>5, <1>7
  <1>9. Account(k, a)
    <2>1. q.acted \in -1..k.fullRaises
      BY <1>6, <1>7
    <2>2. q.folded \in BOOLEAN /\ q.pending \in BOOLEAN
      BY <1>7
    <2>3. q.initial \in Nat
      BY <1>4, <1>7
    <2> QED
      BY <1>1, <1>8, <2>1, <2>2, <2>3 DEF Account
  <1>10. ASSUME NEW j \in In(s) \ {a}
         PROVE  /\ Account(k, j) /\ DOMAIN k.players[j] = PlayerFields
                /\ k.players[j].street = s.players[j].street /\ k.players[j].total = s.players[j].total
                /\ k.players[j].stack = s.players[j].stack /\ k.players[j].folded = s.players[j].folded
    <2>1. PICK u, v : u = s.players[j] /\ v = k.players[j]
      OBVIOUS
    <2>2. /\ u.initial \in Nat /\ u.stack \in Nat /\ u.total \in Nat /\ u.street \in 0..u.total
          /\ u.paid = u.total /\ u.stack + u.total = u.initial /\ u.acted \in -1..s.fullRaises
          /\ u.folded \in BOOLEAN
      BY <1>3, <2>1 DEF Account
    <2>3. PlayedOther(k, s, t, j)
      BY <1>6
    <2>4. /\ DOMAIN v = PlayerFields /\ v.initial = u.initial /\ v.stack = u.stack
          /\ v.street = u.street /\ v.total = u.total /\ v.paid = u.paid
          /\ v.folded = u.folded /\ v.acted = u.acted
      BY <2>1, <2>3 DEF PlayedOther
    <2>5. v.pending \in BOOLEAN
      BY <2>1, <2>3 DEF PlayedOther
    <2>6. s.fullRaises \in Nat
      BY <1>2 DEF Accounts
    <2>7. v.acted \in -1..k.fullRaises
      BY <1>6, <2>2, <2>4, <2>6
    <2> QED
      BY <2>1, <2>2, <2>4, <2>5, <2>7 DEF Account
  <1>11. Accounts(k)
    <2>1. \A i \in In(s) : DOMAIN k.players[i] = PlayerFields /\ Account(k, i)
      BY <1>1, <1>7, <1>9, <1>10
    <2>2. In(s) \subseteq Seats /\ s.button \in In(s) /\ s.pots = {} /\ s.returned = [i \in In(s) |-> 0]
      BY <1>2 DEF Accounts
    <2> QED
      BY <1>6, <2>1, <2>2 DEF Accounts
  <1>12. ASSUME NEW i \in In(s)
         PROVE  Before(k, i) = Before(s, i) /\ s.players[i].street <= k.players[i].street
                /\ s.players[i].total <= k.players[i].total
    <2>1. CASE i = a
      BY <1>1, <1>8, <2>1 DEF Before
    <2>2. CASE i # a
      <3>1. s.players[i].street \in Nat /\ s.players[i].total \in Nat
        BY <1>3 DEF Account
      <3> QED
        BY <1>10, <2>2, <3>1 DEF Before
    <2> QED
      BY <2>1, <2>2
  <1>13. /\ \A i \in In(s) \ {a} : i \in Active(k) <=> i \in Active(s)
         /\ \A i \in In(s) \ {a} : i \in Live(k) <=> i \in Live(s)
    BY <1>6, <1>10 DEF Active, Live
  <1>14. a \in Live(k) <=> kind # "FOLD"
    BY <1>1, <1>2, <1>6, <1>7 DEF Live
  <1>15. a \in Active(k) => kind # "FOLD" /\ t >= s.currentBet
    <2>1. ASSUME a \in Active(k) PROVE kind # "FOLD" /\ t >= s.currentBet
      <3>1. q.stack > 0 /\ kind # "FOLD"
        BY <1>1, <1>14, <2>1 DEF Active
      <3>2. t # p.street + p.stack
        BY <1>4, <1>5, <1>7, <3>1
      <3> QED
        BY <1>5, <3>1, <3>2
    <2> QED
      BY <2>1
  <1>16. Active(k) \subseteq Active(s)
    <2>1. \A i \in Active(k) : i \in In(s)
      BY <1>6 DEF Active, Live
    <2> QED
      BY <1>2, <1>13, <2>1
  <1> QED
    BY <1>1, <1>8, <1>11, <1>12, <1>13, <1>14, <1>15, <1>16

\* The action leaves a hand that progress can go on with.
LEMMA PlayedReady ==
  ASSUME NEW s, Staked(s), NEW kind, NEW t, Allowed(s, kind, t), NEW k, PlayedTo(k, s, kind, t),
         NEW a, a = s.actor
  PROVE  Ready(k, a)
  <1>1. /\ Accounts(s) /\ Level(s) /\ BetOf(s, s.currentBet) /\ LiveTop(s) /\ Matched(s)
        /\ Order(s, a) /\ a \in PendingSeats(s) /\ s.street \in BettingStreets
    BY DEF Staked, Bets
  <1>2. a \in In(s) /\ a \in Active(s) /\ a \in Live(s)
    BY <1>1 DEF PendingSeats, Active, Live
  <1>3. PICK bet : bet = s.currentBet
    OBVIOUS
  <1>4. /\ Accounts(k) /\ t \in Nat /\ bet \in Nat
        /\ \A i \in In(s) : Before(k, i) = Before(s, i) /\ s.players[i].street <= k.players[i].street
                            /\ s.players[i].total <= k.players[i].total
        /\ Active(k) \subseteq Active(s)
        /\ \A i \in In(s) \ {a} : i \in Active(k) <=> i \in Active(s)
        /\ \A i \in In(s) \ {a} : i \in Live(k) <=> i \in Live(s)
        /\ a \in Live(k) <=> kind # "FOLD"
        /\ a \in Active(k) => kind # "FOLD" /\ t >= bet
    BY <1>1, <1>3, PlayedSeats DEF BetOf
  <1>5. /\ In(k) = In(s) /\ k.street = s.street /\ k.currentBet = (IF t > bet THEN t ELSE bet)
        /\ PlayedActor(k, s, kind, t)
        /\ \A j \in In(s) \ {a} : PlayedOther(k, s, t, j)
    BY <1>3 DEF PlayedTo
  <1>6. k.players[a].street = t /\ k.players[a].pending = FALSE
    BY <1>5 DEF PlayedActor
  <1>7. \A j \in In(s) \ {a} :
           /\ k.players[j].street = s.players[j].street /\ k.players[j].total = s.players[j].total
           /\ k.players[j].pending
                = (s.players[j].pending \/ (t > bet /\ j \in Active(s) /\ s.players[j].street < t))
    BY <1>3, <1>5 DEF PlayedOther
  <1>8. \A i \in In(s) : /\ s.players[i].total \in Nat /\ s.players[i].street \in Nat
                         /\ s.players[i].street <= bet /\ s.players[i].pending \in BOOLEAN
                         /\ k.players[i].total \in Nat /\ k.players[i].street \in Nat
    <2>1. \A i \in In(s) : Account(s, i) /\ Account(k, i)
      BY <1>1, <1>4, <1>5 DEF Accounts
    <2> QED
      BY <1>1, <1>3, <2>1 DEF Account, BetOf
  <1>9. \A i \in Active(s) : i \in In(s) /\ i \in Live(s)
    BY DEF Active, Live
  <1>10. Level(k)
    <2>1. ASSUME NEW i \in Active(k), NEW j \in In(k)
          PROVE  /\ Before(k, j) <= Before(k, i)
                 /\ k.players[j].street > 0 \/ j \in Active(k) => Before(k, j) = Before(k, i)
      <3>1. i \in Active(s) /\ i \in In(s) /\ j \in In(s)
        BY <1>4, <1>5, <1>9
      <3>2. Before(k, i) = Before(s, i) /\ Before(k, j) = Before(s, j)
        BY <1>4, <3>1
      <3>3. Before(s, j) <= Before(s, i)
            /\ (s.players[j].street > 0 \/ j \in Active(s) => Before(s, j) = Before(s, i))
        BY <1>1, <3>1 DEF Level
      <3>4. k.players[j].street > 0 \/ j \in Active(k) => s.players[j].street > 0 \/ j \in Active(s)
        BY <1>2, <1>4, <1>7, <3>1
      <3> QED
        BY <3>2, <3>3, <3>4
    <2> QED
      BY <2>1 DEF Level
  <1>11. BetOf(k, k.currentBet)
    <2>1. PICK b : b = k.currentBet
      OBVIOUS
    <2>2. b \in Nat /\ bet <= b /\ t <= b /\ (b = t \/ b = bet)
      BY <1>4, <1>5, <2>1
    <2>3. \A i \in In(k) : k.players[i].street <= b
      BY <1>4, <1>5, <1>6, <1>7, <1>8, <2>2
    <2>4. k.street = "PREFLOP" => BigBlind <= b
      <3>1. s.street = "PREFLOP" => BigBlind <= bet /\ BigBlind \in Nat
        BY <1>1, <1>3, EngineAssumption DEF BetOf
      <3> QED
        BY <1>4, <1>5, <2>2, <3>1
    <2>5. \/ b = 0
          \/ k.street = "PREFLOP" /\ b = BigBlind
          \/ \E i \in In(k) : k.players[i].street = b
      <3>1. CASE b = t
        BY <1>2, <1>5, <1>6, <3>1
      <3>2. CASE b = bet /\ b # t
        <4>1. \/ bet = 0
              \/ s.street = "PREFLOP" /\ bet = BigBlind
              \/ \E i \in In(s) : s.players[i].street = bet
          BY <1>1, <1>3 DEF BetOf
        <4>2. CASE \E i \in In(s) : s.players[i].street = bet
          <5>1. PICK i \in In(s) : s.players[i].street = bet
            BY <4>2
          <5>2. i # a
            BY <1>4, <1>6, <2>2, <3>2, <5>1
          <5> QED
            BY <1>5, <1>7, <3>2, <5>1, <5>2
        <4> QED
          BY <1>5, <3>2, <4>1, <4>2
      <3> QED
        BY <2>2, <3>1, <3>2
    <2> QED
      BY <2>1, <2>2, <2>3, <2>4, <2>5 DEF BetOf
  <1>12. Matched(k)
    <2>1. ASSUME NEW i \in Active(k), ~k.players[i].pending PROVE k.players[i].street = k.currentBet
      <3>1. i \in Active(s) /\ i \in In(s)
        BY <1>4, <1>9
      <3>2. CASE i = a
        BY <1>4, <1>5, <1>6, <2>1, <3>2
      <3>3. CASE i # a
        <4>1. ~s.players[i].pending /\ ~(t > bet /\ s.players[i].street < t)
          BY <1>7, <2>1, <3>1, <3>3
        <4>2. s.players[i].street = bet
          BY <1>1, <1>3, <3>1, <4>1 DEF Matched
        <4> QED
          BY <1>4, <1>5, <1>7, <3>1, <3>3, <4>1, <4>2
      <3> QED
        BY <3>2, <3>3
    <2> QED
      BY <2>1 DEF Matched
  <1>13. LiveTop(k)
    <2>1. ASSUME NEW i \in In(k) PROVE \E j \in Live(k) : k.players[i].total <= k.players[j].total
      <3>1. i \in In(s) /\ \A j \in Live(s) : j \in In(s)
        BY <1>5 DEF Live
      <3>2. CASE kind # "FOLD"
        <4>1. CASE i = a
          BY <1>4, <1>8, <3>1, <3>2, <4>1
        <4>2. CASE i # a
          <5>1. PICK j \in Live(s) : s.players[i].total <= s.players[j].total
            BY <1>1, <3>1 DEF LiveTop
          <5>2. j \in Live(k) /\ j \in In(s)
            BY <1>4, <3>1, <3>2
          <5>3. k.players[i].total = s.players[i].total /\ s.players[j].total <= k.players[j].total
            BY <1>4, <1>7, <3>1, <4>2, <5>2
          <5> QED
            BY <1>8, <3>1, <5>1, <5>2, <5>3
        <4> QED
          BY <4>1, <4>2
      <3>3. CASE kind = "FOLD"
        <4>1. PICK o \in Live(s) \ {a} : s.players[a].total <= s.players[o].total
          BY Outlived
        <4>2. \A j \in In(s) : k.players[j].total = s.players[j].total
          <5>1. k.players[a].total = s.players[a].total
            <6>1. t = s.players[a].street
              BY <3>3 DEF Allowed
            <6>2. k.players[a].total = s.players[a].total + (t - s.players[a].street)
              BY <1>5 DEF PlayedActor
            <6> QED
              BY <1>2, <1>8, <6>1, <6>2
          <5> QED
            BY <1>7, <5>1
        <4>3. PICK j \in Live(s) : s.players[i].total <= s.players[j].total
          BY <1>1, <3>1 DEF LiveTop
        <4>4. CASE j # a
          BY <1>4, <3>1, <4>2, <4>3, <4>4
        <4>5. CASE j = a
          <5>1. o \in Live(k) /\ o \in In(s)
            BY <1>4, <3>1, <4>1
          <5>2. s.players[i].total <= s.players[o].total
            BY <1>2, <1>8, <3>1, <4>1, <4>3, <4>5, <5>1
          <5> QED
            BY <3>1, <4>2, <5>1, <5>2
        <4> QED
          BY <4>4, <4>5
      <3> QED
        BY <3>2, <3>3
    <2> QED
      BY <2>1 DEF LiveTop
  <1>14. Order(k, nextSeat(PendingSeats(k), a))
    <2>1. ASSUME NEW b \in PendingSeats(k), k.players[b].street > 0,
                 \A i \in In(k) : k.players[i].street <= k.players[b].street
          PROVE  nextSeat(PendingSeats(k), b) = nextSeat(PendingSeats(k), a)
      <3>1. b \in Active(k) /\ k.players[b].pending /\ b \in Active(s) /\ b \in In(s)
        BY <1>4, <1>9 DEF PendingSeats
      <3>2. b # a
        BY <1>6, <3>1
      <3>3. t <= s.players[b].street /\ k.players[b].street = s.players[b].street
        BY <1>2, <1>5, <1>6, <1>7, <2>1, <3>1, <3>2
      <3>4. ~(t > bet)
        BY <1>4, <1>8, <3>1, <3>3
      <3>5. PendingSeats(k) = PendingSeats(s) \ {a}
        <4>1. a \notin PendingSeats(k)
          BY <1>6 DEF PendingSeats
        <4>2. \A i \in In(s) \ {a} : i \in PendingSeats(k) <=> i \in PendingSeats(s)
          BY <1>4, <1>7, <1>8, <3>4 DEF PendingSeats
        <4>3. PendingSeats(k) \subseteq In(s) /\ PendingSeats(s) \subseteq In(s)
          BY <1>4, <1>9 DEF PendingSeats
        <4> QED
          BY <4>1, <4>2, <4>3
      <3>6. b \in PendingSeats(s)
        BY <2>1, <3>5
      <3>7. \A i \in In(s) : s.players[i].street <= s.players[b].street
        BY <1>4, <1>5, <1>8, <2>1, <3>1, <3>3
      <3>8. nextSeat(PendingSeats(s), b) = a
        BY <1>1, <2>1, <3>3, <3>6, <3>7 DEF Order
      <3>9. PendingSeats(s) \in SUBSET (1..9)
        BY <1>1, SeatsOf
      <3> QED
        BY <2>1, <3>5, <3>6, <3>8, <3>9, NextBeyond
    <2> QED
      BY <2>1 DEF Order
  <1> QED
    BY <1>1, <1>4, <1>5, <1>10, <1>11, <1>12, <1>13, <1>14 DEF Ready, Bets

\* Every legal action, and the timeout, leads to hands that pass the audit.
LEMMA ActionValid ==
  ASSUME NEW s, EngineInv(s), Staked(s), NEW kind \in legalActions(s), NEW to \in LegalTargets(s, kind),
         NEW timeout, ~timeout => ~s.late
  PROVE  \A r \in apply(s, kind, to, timeout) : r.ok /\ Outcome(r.hand)
  <1>1. PICK a, t, k : a = s.actor /\ t = Target(s, kind, to) /\ k = Played(s, kind, t, timeout)
    OBVIOUS
  <1>2. Bets(s) /\ a \in In(s) /\ Accounts(s) /\ s.street \in BettingStreets
    BY <1>1 DEF Staked, Bets, PendingSeats, Active, Live
  <1>3. Numbers(s) /\ s.lastFullRaise >= BigBlind
    BY <1>2 DEF EngineInv, Betting, BettingStreets
  <1>4. Allowed(s, kind, t) /\ t \in Int
    <2>1. PICK p : p = s.players[a]
      OBVIOUS
    <2>2. /\ t \in p.street..(p.street + p.stack)
          /\ kind = "FOLD" => t = p.street
          /\ kind # "FOLD" => t >= s.currentBet \/ t = p.street + p.stack
      BY <1>1, <1>2, <1>3, <2>1, LegalTarget
    <2>3. p.street \in Int /\ p.stack \in Int
      BY <1>2, <1>3, <2>1 DEF Numbers
    <2> QED
      BY <1>1, <2>1, <2>2, <2>3 DEF Allowed
  <1>5. PlayedTo(k, s, kind, t)
    BY <1>1, <1>2, <1>3, <1>4, Plays DEF Numbers
  <1>6. Ready(k, a)
    BY <1>1, <1>4, <1>5, PlayedReady
  <1>7. a \in Int
    BY <1>2, SeatsOf
  <1>8. \A m \in progress(k, a) : Outcome(m)
    BY <1>6, <1>7, ProgressValid
  <1>9. apply(s, kind, to, timeout) = Results(s, progress(k, a))
    BY <1>1 DEF apply
  <1>10. ASSUME NEW r \in Results(s, progress(k, a)) PROVE r.ok /\ Outcome(r.hand)
    <2>1. PICK m \in progress(k, a) : r = IF validate(m) THEN [ok |-> TRUE, hand |-> m] ELSE Refused(s)
      BY DEF Results
    <2>2. validate(m) /\ Outcome(m)
      BY <1>8 DEF Outcome
    <2>3. r = [ok |-> TRUE, hand |-> m]
      BY <2>1, <2>2
    <2> QED
      BY <2>2, <2>3
  <1> QED
    BY <1>9, <1>10

\* A hand before the deal, with its stacks untouched.
SeatedAt(s, i) ==
    LET p == s.players[i]
    IN  /\ DOMAIN p = PlayerFields /\ p.initial \in Nat \ {0} /\ p.stack = p.initial
        /\ p.street = 0 /\ p.total = 0 /\ p.paid = 0 /\ p.folded = FALSE /\ p.acted = -1
        /\ p.pending = TRUE
Seated(s) ==
    /\ DOMAIN s = HandFields /\ In(s) \subseteq Seats /\ Cardinality(In(s)) >= 2
    /\ s.button \in In(s) /\ s.actor = 0 /\ s.fullRaises = 0 /\ s.pots = {}
    /\ s.returned = [i \in In(s) |-> 0] /\ \A i \in In(s) : SeatedAt(s, i)

\* A seat that has posted a blind, or what it had of it.
Paid(p, blind) ==
    /\ DOMAIN p = PlayerFields /\ p.initial \in Nat /\ p.stack \in Nat /\ p.street \in 0..blind
    /\ p.total = p.street /\ p.paid = p.street /\ p.stack + p.street = p.initial
    /\ p.folded = FALSE /\ p.acted = -1
    /\ p.pending \in BOOLEAN
    /\ p.pending <=> p.stack # 0
    /\ p.street = blind \/ p.stack = 0
PostedTo(n, s, i, blind) ==
    /\ DOMAIN n = HandFields /\ In(n) = In(s) /\ n.button = s.button /\ n.pots = s.pots
    /\ n.fullRaises = s.fullRaises /\ n.returned = s.returned
    /\ \A j \in In(s) \ {i} : n.players[j] = s.players[j]
    /\ Paid(n.players[i], blind)

\* What a blind leaves of a seat.
LEMMA BlindPaid ==
  ASSUME NEW s, DOMAIN s = HandFields, NEW i \in In(s), SeatedAt(s, i), NEW blind \in Nat,
         NEW n, n = PostBlind(s, i, blind)
  PROVE  PostedTo(n, s, i, blind)
  <1>1. PICK p, d : p = s.players[i] /\ d = Min({p.stack, blind})
    OBVIOUS
  <1>2. /\ DOMAIN p = PlayerFields /\ p.initial \in Nat \ {0} /\ p.stack = p.initial
        /\ p.street = 0 /\ p.total = 0 /\ p.paid = 0 /\ p.folded = FALSE /\ p.acted = -1
        /\ p.pending = TRUE
    BY <1>1 DEF SeatedAt
  <1>3. d = IF p.stack <= blind THEN p.stack ELSE blind
    BY <1>1, <1>2, MinTwo
  <1>4. d \in 0..blind /\ p.stack - d \in Nat /\ (d = blind \/ p.stack - d = 0)
        /\ (p.stack # d <=> p.stack - d # 0)
    BY <1>2, <1>3
  <1>5. PICK c : c = commit(p, d)
    OBVIOUS
  <1>6. /\ DOMAIN c = PlayerFields /\ c.initial = p.initial /\ c.stack = p.stack - d
        /\ c.street = p.street + d /\ c.total = p.total + d /\ c.paid = p.paid + d
        /\ c.folded = p.folded /\ c.acted = p.acted /\ c.pending = (p.pending /\ p.stack # d)
    BY <1>2, <1>5 DEF commit, PlayerFields
  <1>7. n = [s EXCEPT !.players[i] = c]
    BY <1>1, <1>5 DEF PostBlind, Update
  <1>8. /\ DOMAIN n = HandFields /\ In(n) = In(s) /\ n.button = s.button /\ n.pots = s.pots
        /\ n.fullRaises = s.fullRaises /\ n.returned = s.returned
        /\ n.players[i] = c /\ \A j \in In(s) \ {i} : n.players[j] = s.players[j]
    BY <1>7 DEF HandFields, In
  <1>9. c.street = d /\ c.total = d /\ c.paid = d /\ c.stack + d = c.initial /\ c.stack \in Nat
    BY <1>2, <1>4, <1>6
  <1>10. c.pending \in BOOLEAN /\ (c.pending <=> c.stack # 0)
    BY <1>2, <1>4, <1>6
  <1>11. c.initial \in Nat /\ c.folded = FALSE /\ c.acted = -1 /\ c.street \in 0..blind
         /\ c.stack + c.street = c.initial /\ (c.street = blind \/ c.stack = 0)
    BY <1>2, <1>4, <1>6, <1>9
  <1>12. Paid(c, blind)
    BY <1>6, <1>9, <1>10, <1>11 DEF Paid
  <1> QED
    BY <1>8, <1>12 DEF PostedTo

\* The blinds leave a hand that progress can go on with.
LEMMA BlindsReady ==
  ASSUME NEW s, Seated(s), NEW k, k = Blinds(s), NEW b, b = BigBlindSeat(s)
  PROVE  Ready(k, b) /\ b \in Int
  <1>1. /\ DOMAIN s = HandFields /\ In(s) \subseteq 1..9 /\ In(s) # {} /\ IsFiniteSet(In(s))
        /\ s.button \in In(s) /\ Cardinality(In(s)) >= 2
        /\ \A i \in In(s) : SeatedAt(s, i)
    BY EngineAssumption, SeatsFinite DEF Seated
  <1>2. SmallBlind \in Nat \ {0} /\ BigBlind \in Nat \ {0} /\ SmallBlind < BigBlind
    BY EngineAssumption
  <1>3. PICK a : a = SmallBlindSeat(s)
    OBVIOUS
  <1>4. a \in In(s) /\ a \in Int
    <2>1. nextSeat(In(s), s.button) \in In(s)
      BY <1>1, NextSeat
    <2> QED
      BY <1>1, <1>3, <2>1 DEF SmallBlindSeat
  <1>5. b = nextSeat(In(s), a) /\ b \in In(s) /\ b # a /\ b \in Int
    <2>1. b = nextSeat(In(s), a)
      BY <1>3 DEF BigBlindSeat
    <2>2. In(s) # {a}
      <3>1. Cardinality({a}) = 1
        BY FS_Singleton
      <3> QED
        BY <1>1, <3>1
    <2>3. b \in In(s) /\ b # a
      BY <1>1, <1>4, <2>1, <2>2, NextSeat
    <2> QED
      BY <1>1, <2>1, <2>3
  <1>6. PICK m : m = PostBlind(s, a, SmallBlind)
    OBVIOUS
  <1>7. PICK n : n = PostBlind(m, b, BigBlind)
    OBVIOUS
  <1>8. k = [n EXCEPT !.street = "PREFLOP", !.currentBet = BigBlind]
    BY <1>3, <1>6, <1>7 DEF Blinds
  <1>9. /\ DOMAIN m = HandFields /\ In(m) = In(s) /\ m.button = s.button /\ m.pots = s.pots
        /\ m.fullRaises = s.fullRaises /\ m.returned = s.returned
        /\ \A j \in In(s) \ {a} : m.players[j] = s.players[j]
        /\ Paid(m.players[a], SmallBlind)
    <2>1. SeatedAt(s, a) /\ SmallBlind \in Nat
      BY <1>1, <1>2, <1>4
    <2>2. PostedTo(m, s, a, SmallBlind)
      BY <1>1, <1>4, <1>6, <2>1, BlindPaid
    <2> QED
      BY <2>2 DEF PostedTo
  <1>10. SeatedAt(m, b)
    BY <1>1, <1>5, <1>9 DEF SeatedAt
  <1>11. /\ DOMAIN n = HandFields /\ In(n) = In(s) /\ n.button = s.button /\ n.pots = s.pots
         /\ n.fullRaises = s.fullRaises /\ n.returned = s.returned
         /\ \A j \in In(s) \ {b} : n.players[j] = m.players[j]
         /\ Paid(n.players[b], BigBlind)
    <2>1. b \in In(m) /\ DOMAIN m = HandFields /\ BigBlind \in Nat
      BY <1>2, <1>5, <1>9
    <2>2. PostedTo(n, m, b, BigBlind)
      BY <1>7, <1>10, <2>1, BlindPaid
    <2> QED
      BY <1>9, <2>2 DEF PostedTo
  <1>12. /\ DOMAIN k = HandFields /\ In(k) = In(s) /\ k.button = s.button /\ k.pots = s.pots
         /\ k.fullRaises = s.fullRaises /\ k.returned = s.returned /\ k.players = n.players
         /\ k.street = "PREFLOP" /\ k.currentBet = BigBlind
    BY <1>8, <1>11 DEF HandFields, In
  <1>13. Paid(k.players[a], SmallBlind)
    BY <1>4, <1>5, <1>9, <1>11, <1>12
  <1>14. Paid(k.players[b], BigBlind)
    BY <1>11, <1>12
  <1>15. \A j \in In(s) \ {a, b} : Paid(k.players[j], 0)
    <2>1. ASSUME NEW j \in In(s) \ {a, b} PROVE Paid(k.players[j], 0)
      <3>1. PICK p : p = s.players[j]
        OBVIOUS
      <3>2. k.players[j] = p /\ SeatedAt(s, j)
        BY <1>1, <1>9, <1>11, <1>12, <3>1
      <3>3. /\ DOMAIN p = PlayerFields /\ p.initial \in Nat \ {0} /\ p.stack = p.initial
            /\ p.street = 0 /\ p.total = 0 /\ p.paid = 0 /\ p.folded = FALSE /\ p.acted = -1
            /\ p.pending = TRUE
        BY <3>1, <3>2 DEF SeatedAt
      <3>4. p.stack + p.street = p.initial /\ p.street \in 0..0 /\ p.stack \in Nat
        BY <3>3
      <3> QED
        BY <3>2, <3>3, <3>4 DEF Paid
    <2> QED
      BY <2>1
  <1>16. ASSUME NEW j \in In(s)
         PROVE  /\ Account(k, j) /\ DOMAIN k.players[j] = PlayerFields /\ Before(k, j) = 0
                /\ k.players[j].street \in 0..BigBlind /\ k.players[j].folded = FALSE
                /\ k.players[j].pending <=> k.players[j].stack # 0
                /\ k.players[j].stack \in Nat
    <2>1. PICK p : p = k.players[j]
      OBVIOUS
    <2>2. \E blind \in {0, SmallBlind, BigBlind} : Paid(p, blind)
      BY <1>13, <1>14, <1>15, <2>1
    <2>3. /\ DOMAIN p = PlayerFields /\ p.initial \in Nat /\ p.stack \in Nat /\ p.street \in 0..BigBlind
          /\ p.total = p.street /\ p.paid = p.street /\ p.stack + p.street = p.initial
          /\ p.folded = FALSE /\ p.acted = -1 /\ p.pending \in BOOLEAN
          /\ p.pending <=> p.stack # 0
      BY <1>2, <2>2 DEF Paid
    <2>4. k.fullRaises = 0
      BY <1>12 DEF Seated
    <2>5. p.total \in Nat /\ p.street \in 0..p.total /\ p.stack + p.total = p.initial
          /\ p.acted \in -1..k.fullRaises /\ p.total - p.street = 0
      BY <1>2, <2>3, <2>4
    <2> QED
      BY <2>1, <2>3, <2>5 DEF Account, Before
  <1>17. Accounts(k)
    <2>1. k.fullRaises = 0 /\ In(k) \subseteq Seats /\ k.button \in In(k) /\ k.pots = {}
          /\ k.returned = [i \in In(k) |-> 0]
      BY <1>12 DEF Seated
    <2>2. k.fullRaises \in Nat
      BY <2>1
    <2> QED
      BY <1>12, <1>16, <2>1, <2>2 DEF Accounts
  <1>18. Live(k) = In(s) /\ Active(k) = {j \in In(s) : k.players[j].stack > 0}
    BY <1>12, <1>16 DEF Live, Active
  <1>19. PendingSeats(k) = Active(k)
    <2>1. \A j \in Active(k) : k.players[j].pending
      <3>1. \A j \in Active(k) : j \in In(s) /\ k.players[j].stack # 0
        BY <1>16, <1>18
      <3> QED
        BY <1>16, <3>1
    <2> QED
      BY <2>1 DEF PendingSeats
  <1>20. Level(k)
    <2>1. \A i \in Active(k) : i \in In(s)
      BY <1>18
    <2>2. \A i \in In(s) : Before(k, i) = 0
      BY <1>16
    <2>3. 0 <= 0
      OBVIOUS
    <2> QED
      BY <1>12, <2>1, <2>2, <2>3 DEF Level
  <1>21. BetOf(k, k.currentBet)
    <2>1. \A i \in In(k) : k.players[i].street <= BigBlind
      <3>1. \A i \in In(s) : k.players[i].street \in 0..BigBlind
        BY <1>16
      <3>2. \A i \in In(s) : k.players[i].street <= BigBlind
        BY <1>2, <3>1
      <3> QED
        BY <1>12, <3>2
    <2>2. BigBlind <= BigBlind
      BY <1>2
    <2> QED
      BY <1>2, <1>12, <2>1, <2>2 DEF BetOf
  <1>22. LiveTop(k)
    <2>1. \A i \in In(s) : k.players[i].total <= k.players[i].total
      <3>1. \A i \in In(s) : k.players[i].total \in Nat
        BY <1>16 DEF Account
      <3> QED
        BY <3>1
    <2> QED
      BY <1>12, <1>18, <2>1 DEF LiveTop
  <1>23. Matched(k)
    BY <1>19 DEF Matched, PendingSeats
  <1>24. Order(k, nextSeat(PendingSeats(k), b))
    <2>1. ASSUME NEW c \in PendingSeats(k), k.players[c].street > 0,
                 \A i \in In(k) : k.players[i].street <= k.players[c].street, c # b
          PROVE  nextSeat(PendingSeats(k), c) = nextSeat(PendingSeats(k), b)
      <3>1. c \in In(s) /\ c \in Active(k) /\ k.players[c].stack # 0
        BY <1>16, <1>18, <1>19
      <3>2. c = a
        <4>1. ASSUME c # a PROVE FALSE
          <5>1. k.players[c].street \in 0..0
            BY <1>15, <2>1, <3>1, <4>1 DEF Paid
          <5> QED
            BY <2>1, <5>1
        <4> QED
          BY <4>1
      <3>3. k.players[a].street = SmallBlind
        BY <1>13, <3>1, <3>2 DEF Paid
      <3>4. k.players[b].stack = 0
        <4>1. k.players[b].street <= SmallBlind
          BY <1>5, <1>12, <2>1, <3>2, <3>3
        <4>2. k.players[b].street # BigBlind
          BY <1>2, <4>1
        <4> QED
          BY <1>14, <4>2 DEF Paid
      <3>5. b \notin PendingSeats(k)
        BY <1>18, <1>19, <3>4
      <3>6. PendingSeats(k) \in SUBSET (In(s) \ {b}) /\ PendingSeats(k) # {}
        BY <1>18, <1>19, <2>1, <3>5
      <3> QED
        BY <1>1, <1>4, <1>5, <3>2, <3>6, NextBeyond
    <2> QED
      BY <2>1 DEF Order
  <1>25. k.street \in BettingStreets
    BY <1>12 DEF BettingStreets, Streets
  <1> QED
    BY <1>5, <1>17, <1>20, <1>21, <1>22, <1>23, <1>24, <1>25 DEF Ready, Bets

\* The deal leads to hands that pass the audit.
LEMMA DealValid ==
  ASSUME NEW s, Seated(s)
  PROVE  \A r \in New(s) : r.ok /\ Outcome(r.hand)
  <1>1. PICK k, b : k = Blinds(s) /\ b = BigBlindSeat(s)
    OBVIOUS
  <1>2. Ready(k, b) /\ b \in Int
    BY <1>1, BlindsReady
  <1>3. \A m \in progress(k, b) : Outcome(m)
    BY <1>2, ProgressValid
  <1>4. New(s) = Results(s, progress(k, b))
    BY <1>1 DEF New
  <1>5. ASSUME NEW r \in Results(s, progress(k, b)) PROVE r.ok /\ Outcome(r.hand)
    <2>1. PICK m \in progress(k, b) : r = IF validate(m) THEN [ok |-> TRUE, hand |-> m] ELSE Refused(s)
      BY DEF Results
    <2>2. validate(m) /\ Outcome(m)
      BY <1>3 DEF Outcome
    <2>3. r = [ok |-> TRUE, hand |-> m]
      BY <2>1, <2>2
    <2> QED
      BY <2>2, <2>3
  <1> QED
    BY <1>4, <1>5

\* A raise button is a legal action with the target it shows.
ShortcutLegal(s, x) ==
    /\ x[1] \in legalActions(s)
    /\ IF x[1] = "ALL_IN" THEN x[2] = MaximumRaiseTo(s) ELSE x[2] \in LegalTargets(s, x[1])

\* A raise button is legal whatever fraction of the pot it starts from.
LEMMA ShortcutFits ==
  ASSUME NEW s, Numbers(s), Bets(s), s.lastFullRaise >= BigBlind, s.actor \in In(s),
         legalActions(s) # {}, RaiseRights(s), NEW target \in Int, NEW minimum,
         minimum = IF s.currentBet = 0 THEN BigBlind ELSE MinimumRaiseTo(s)
  PROVE  ShortcutLegal(s, Shortcut(s, minimum, target))
  <1>1. PICK p, top, bet, x : /\ p = s.players[s.actor] /\ top = MaximumRaiseTo(s)
                              /\ bet = s.currentBet /\ x = Shortcut(s, minimum, target)
    OBVIOUS
  <1>2. /\ p.street \in Nat /\ p.stack \in Nat /\ bet \in Nat /\ p.street <= bet
        /\ s.lastFullRaise \in Int /\ BigBlind \in Nat \ {0} /\ top = p.stack + p.street
    <2>1. Account(s, s.actor) /\ BetOf(s, bet)
      BY <1>1 DEF Bets, Accounts
    <2>2. BigBlind \in Nat \ {0}
      BY EngineAssumption
    <2> QED
      BY <1>1, <2>1, <2>2 DEF Account, BetOf, Numbers, MaximumRaiseTo
  <1>3. top > bet /\ p.stack > 0
    <2>1. top > bet
      BY <1>1 DEF RaiseRights
    <2> QED
      BY <1>2, <2>1
  <1>4. minimum \in Int /\ minimum = (IF bet = 0 THEN BigBlind ELSE bet + s.lastFullRaise)
    BY <1>1, <1>2 DEF MinimumRaiseTo
  <1>5. PICK m, to : m = Max({target, minimum}) /\ to = Min({m, top})
    OBVIOUS
  <1>6. m \in Int /\ minimum <= m
    <2>1. m = IF target <= minimum THEN minimum ELSE target
      BY <1>4, <1>5, MaxTwo
    <2> QED
      BY <1>4, <2>1
  <1>7. to \in Int /\ to <= top /\ (to = m \/ to = top)
    <2>1. top \in Int
      BY <1>2
    <2>2. to = IF m <= top THEN m ELSE top
      BY <1>5, <1>6, <2>1, MinTwo
    <2> QED
      BY <1>6, <2>1, <2>2
  <1>8. x = <<IF to < minimum \/ to = top THEN "ALL_IN" ELSE IF bet = 0 THEN "BET" ELSE "RAISE", to>>
    BY <1>1, <1>5 DEF Shortcut
  <1>9. s.actor # 0 /\ s.street # "SETTLED" /\ s.recovery = "NONE"
    BY DEF legalActions
  <1>10. CASE to < minimum \/ to = top
    <2>1. to = top
      BY <1>4, <1>6, <1>7, <1>10
    <2>2. "ALL_IN" \in legalActions(s)
      BY <1>1, <1>3, <1>9 DEF legalActions
    <2>3. x[1] = "ALL_IN" /\ x[2] = top
      BY <1>8, <1>10, <2>1
    <2> QED
      BY <1>1, <2>2, <2>3 DEF ShortcutLegal
  <1>11. CASE ~(to < minimum \/ to = top) /\ bet = 0
    <2>1. x[1] = "BET" /\ x[2] = to
      BY <1>8, <1>11
    <2>2. to \in BigBlind..top /\ top >= BigBlind
      BY <1>2, <1>4, <1>7, <1>11
    <2>3. "BET" \in legalActions(s)
      BY <1>1, <1>9, <1>11, <2>2 DEF legalActions
    <2>4. to \in LegalTargets(s, "BET")
      BY <1>1, <2>2 DEF LegalTargets
    <2> QED
      BY <1>1, <2>1, <2>3, <2>4 DEF ShortcutLegal
  <1>12. CASE ~(to < minimum \/ to = top) /\ bet # 0
    <2>1. x[1] = "RAISE" /\ x[2] = to
      BY <1>8, <1>12
    <2>2. MinimumRaiseTo(s) = minimum
      BY <1>1, <1>12
    <2>3. to \in minimum..top /\ top >= minimum /\ bet > 0
      BY <1>2, <1>4, <1>7, <1>12
    <2>4. "RAISE" \in legalActions(s)
      BY <1>1, <1>9, <2>2, <2>3 DEF legalActions
    <2>5. to \in LegalTargets(s, "RAISE")
      BY <1>1, <2>2, <2>3 DEF LegalTargets
    <2> QED
      BY <1>1, <2>1, <2>4, <2>5 DEF ShortcutLegal
  <1> QED
    BY <1>1, <1>10, <1>11, <1>12

\* Each button of ShortcutTargets is a legal action with a target legal allows.
LEMMA ShortcutsLegal ==
  ASSUME NEW s, EngineInv(s), Staked(s), NEW x \in ShortcutTargets(s)
  PROVE  ShortcutLegal(s, x)
  <1>1. Bets(s) /\ s.actor \in In(s) /\ Accounts(s) /\ s.street \in BettingStreets
    BY DEF Staked, Bets, PendingSeats, Active, Live
  <1>2. Numbers(s) /\ s.lastFullRaise >= BigBlind
    BY <1>1 DEF EngineInv, Betting, BettingStreets
  <1>3. legalActions(s) # {} /\ RaiseRights(s)
    BY DEF ShortcutTargets
  <1>4. PICK minimum, pot : /\ minimum = IF s.currentBet = 0 THEN BigBlind ELSE MinimumRaiseTo(s)
                            /\ pot = SumFunctionOnSet(Totals(s), In(s)) + ToCall(s)
    OBVIOUS
  <1>5. \/ x = Shortcut(s, minimum, minimum)
        \/ x = <<"ALL_IN", MaximumRaiseTo(s)>>
        \/ \E y \in {pot \div 2, (pot \div 3) * 2 + ((pot % 3) * 2) \div 3, pot} :
              x = Shortcut(s, minimum, s.currentBet + y)
    BY <1>3, <1>4 DEF ShortcutTargets
  <1>6. /\ s.currentBet \in Nat /\ minimum \in Int
        /\ s.players[s.actor].street \in Nat /\ s.players[s.actor].street <= s.currentBet
        /\ s.players[s.actor].stack \in Nat
    <2>1. Account(s, s.actor) /\ BetOf(s, s.currentBet) /\ BigBlind \in Nat
      BY <1>1, EngineAssumption DEF Bets, Accounts
    <2>2. s.lastFullRaise \in Int
      BY <1>2 DEF Numbers
    <2> QED
      BY <1>1, <1>4, <2>1, <2>2 DEF Account, BetOf, MinimumRaiseTo
  <1>7. pot \in Nat
    <2>1. SumFunctionOnSet(Totals(s), In(s)) \in Nat
      <3>1. \A i \in In(s) : Totals(s)[i] \in Nat
        BY <1>1 DEF Totals, Accounts, Account
      <3> QED
        BY <1>1, <3>1, SumNat, SeatsOf
    <2>2. PICK c : c = s.currentBet - s.players[s.actor].street
      OBVIOUS
    <2>3. c \in Nat
      BY <1>6, <2>2
    <2>4. Max({0, c}) = c
      BY <2>3, MaxTwo
    <2>5. ToCall(s) = c
      BY <2>2, <2>4 DEF ToCall
    <2> QED
      BY <1>4, <2>1, <2>3, <2>5
  <1>8. /\ pot \div 2 \in Int
        /\ (pot \div 3) * 2 + ((pot % 3) * 2) \div 3 \in Int
    <2>1. pot \div 2 \in Nat
      BY <1>7, QuotientAndRest
    <2>2. PICK q, r : q = pot \div 3 /\ r = pot % 3
      OBVIOUS
    <2>3. q \in Nat /\ r \in 0..2
      <3>1. 3 \in Nat /\ 3 > 0 /\ 3 - 1 = 2
        OBVIOUS
      <3> QED
        BY <1>7, <2>2, <3>1, QuotientAndRest
    <2>4. r * 2 \in Nat
      BY <2>3
    <2>5. (r * 2) \div 3 \in Nat
      BY <2>4, QuotientAndRest
    <2>6. q * 2 \in Nat
      BY <2>3
    <2> QED
      BY <2>1, <2>2, <2>5, <2>6
  <1>9. CASE x = <<"ALL_IN", MaximumRaiseTo(s)>>
    <2>1. s.players[s.actor].stack > 0
      <3>1. MaximumRaiseTo(s) > s.currentBet
        BY <1>3 DEF RaiseRights
      <3> QED
        BY <1>6, <3>1 DEF MaximumRaiseTo
    <2>2. s.actor # 0 /\ s.street # "SETTLED" /\ s.recovery = "NONE"
      BY <1>3 DEF legalActions
    <2>3. "ALL_IN" \in legalActions(s)
      BY <1>3, <2>1, <2>2 DEF legalActions
    <2>4. x[1] = "ALL_IN" /\ x[2] = MaximumRaiseTo(s)
      BY <1>9
    <2> QED
      BY <2>3, <2>4 DEF ShortcutLegal
  <1>10. \A target \in Int : ShortcutLegal(s, Shortcut(s, minimum, target))
    BY <1>1, <1>2, <1>3, <1>4, ShortcutFits
  <1>11. CASE x = Shortcut(s, minimum, minimum)
    BY <1>6, <1>10, <1>11
  <1>12. CASE \E y \in {pot \div 2, (pot \div 3) * 2 + ((pot % 3) * 2) \div 3, pot} :
                 x = Shortcut(s, minimum, s.currentBet + y)
    <2>1. PICK y \in Int : x = Shortcut(s, minimum, s.currentBet + y)
      BY <1>7, <1>8, <1>12
    <2>2. s.currentBet + y \in Int
      BY <1>6
    <2> QED
      BY <1>10, <2>1, <2>2
  <1> QED
    BY <1>5, <1>9, <1>11, <1>12

\* What the chips are at each moment of a hand.
MoneyInv(s) ==
    /\ s.street = "COMMITTED" => Seated(s)
    /\ s.street \in BettingStreets => Staked(s)
    /\ s.street = "SETTLED" => Fair(s)

\* Two hands that differ in clocks and connections only.
SameBooks(m, s) ==
    /\ DOMAIN m = HandFields /\ In(m) = In(s) /\ m.street = s.street /\ m.button = s.button
    /\ m.actor = s.actor /\ m.currentBet = s.currentBet /\ m.fullRaises = s.fullRaises
    /\ m.pots = s.pots /\ m.returned = s.returned /\ m.rank = s.rank
    /\ \A i \in In(s) :
          LET p == s.players[i]
              q == m.players[i]
          IN  /\ DOMAIN q = PlayerFields /\ q.initial = p.initial /\ q.stack = p.stack
              /\ q.street = p.street /\ q.total = p.total /\ q.paid = p.paid
              /\ q.folded = p.folded /\ q.acted = p.acted /\ q.pending = p.pending

\* Clocks and connections leave the chips of a hand as they are.
LEMMA MoneyKept ==
  ASSUME NEW s, s.street \in Streets, MoneyInv(s), NEW m, SameBooks(m, s)
  PROVE  MoneyInv(m)
  <1>1. /\ DOMAIN m = HandFields /\ In(m) = In(s) /\ m.street = s.street /\ m.button = s.button
        /\ m.actor = s.actor /\ m.currentBet = s.currentBet /\ m.fullRaises = s.fullRaises
        /\ m.pots = s.pots /\ m.returned = s.returned /\ m.rank = s.rank
    BY DEF SameBooks
  <1>2. \A i \in In(s) :
           /\ DOMAIN m.players[i] = PlayerFields /\ m.players[i].initial = s.players[i].initial
           /\ m.players[i].stack = s.players[i].stack /\ m.players[i].street = s.players[i].street
           /\ m.players[i].total = s.players[i].total /\ m.players[i].paid = s.players[i].paid
           /\ m.players[i].folded = s.players[i].folded /\ m.players[i].acted = s.players[i].acted
           /\ m.players[i].pending = s.players[i].pending
    BY DEF SameBooks
  <1>3. Live(m) = Live(s) /\ Active(m) = Active(s) /\ PendingSeats(m) = PendingSeats(s)
    BY <1>1, <1>2 DEF Live, Active, PendingSeats
  <1>4. /\ \A i \in Live(s) : i \in In(s)
        /\ \A i \in Active(s) : i \in In(s)
        /\ \A i \in PendingSeats(s) : i \in In(s)
    BY DEF Live, Active, PendingSeats
  <1>5. CASE s.street \in BettingStreets
    <2>1. /\ Accounts(s) /\ Level(s) /\ BetOf(s, s.currentBet) /\ LiveTop(s) /\ Matched(s)
          /\ Order(s, s.actor) /\ s.actor \in PendingSeats(s) /\ ~Decided(s)
      BY <1>5 DEF MoneyInv, Staked, Bets
    <2>2. \A i \in In(s) : Account(m, i)
      <3>1. \A i \in In(s) : Account(s, i)
        BY <2>1 DEF Accounts
      <3> QED
        BY <1>1, <1>2, <3>1 DEF Account
    <2>3. Accounts(m)
      BY <1>1, <1>2, <2>1, <2>2 DEF Accounts
    <2>4. Level(m)
      <3>1. \A i \in In(s) : Before(m, i) = Before(s, i)
        BY <1>2 DEF Before
      <3> QED
        BY <1>1, <1>2, <1>3, <1>4, <2>1, <3>1 DEF Level
    <2>5. BetOf(m, m.currentBet)
      BY <1>1, <1>2, <2>1 DEF BetOf
    <2>6. LiveTop(m)
      <3>1. ASSUME NEW i \in In(m) PROVE \E j \in Live(m) : m.players[i].total <= m.players[j].total
        <4>1. i \in In(s)
          BY <1>1
        <4>2. PICK j \in Live(s) : s.players[i].total <= s.players[j].total
          BY <2>1, <4>1 DEF LiveTop
        <4> QED
          BY <1>2, <1>3, <1>4, <4>1, <4>2
      <3> QED
        BY <3>1 DEF LiveTop
    <2>7. Matched(m)
      BY <1>1, <1>2, <1>3, <1>4, <2>1 DEF Matched
    <2>8. Order(m, m.actor)
      BY <1>1, <1>2, <1>3, <1>4, <2>1 DEF Order
    <2>9. ~Decided(m)
      <3>1. ASSUME Runout(m) PROVE Runout(s)
        BY <1>1, <1>2, <1>3, <1>4, <3>1 DEF Runout
      <3> QED
        BY <1>3, <2>1, <3>1 DEF Decided
    <2>10. Staked(m)
      BY <1>1, <1>3, <1>5, <2>1, <2>3, <2>4, <2>5, <2>6, <2>7, <2>8, <2>9 DEF Staked, Bets
    <2> QED
      BY <1>1, <1>5, <2>10 DEF MoneyInv, BettingStreets, Streets
  <1>6. CASE s.street = "SETTLED"
    <2>1. ASSUME NEW i \in In(s) PROVE Got(m, i) = Got(s, i) /\ Covered(m, i) = Covered(s, i)
      <3>1. Got(m, i) = Got(s, i)
        BY <1>2 DEF Got
      <3>2. [j \in In(m) |-> Min({m.players[i].paid, m.players[j].paid})]
               = [j \in In(s) |-> Min({s.players[i].paid, s.players[j].paid})]
        BY <1>1, <1>2
      <3> QED
        BY <1>1, <3>1, <3>2 DEF Covered
    <2>2. Fair(s)
      BY <1>6 DEF MoneyInv
    <2>3. Fair(m)
      BY <1>1, <1>2, <1>3, <1>4, <2>1, <2>2 DEF Fair
    <2> QED
      BY <1>1, <1>6, <2>3 DEF MoneyInv, BettingStreets
  <1> QED
    BY <1>5, <1>6 DEF BettingStreets

\* An outcome is one of the moments of the invariant.
LEMMA OutcomeKeeps ==
  ASSUME NEW m, Outcome(m)
  PROVE  MoneyInv(m)
  BY DEF Outcome, MoneyInv, Staked, Bets, BettingStreets, Streets

\* SetConnected touches no chips.
LEMMA ConnectionKeeps ==
  ASSUME NEW s, EngineInv(s), NEW i \in In(s), NEW connected, NEW m, m = SetConnected(s, i, connected)
  PROVE  SameBooks(m, s)
  <1>1. PICK p, q, g, o : /\ p = s.players[i] /\ g = ~connected
                          /\ o = IF connected THEN p.goneOut /\ s.street = "SETTLED"
                                 ELSE p.goneOut \/ s.street = "SETTLED"
                          /\ q = [p EXCEPT !.gone = g, !.goneOut = o]
    OBVIOUS
  <1>2. DOMAIN s = HandFields /\ \A j \in In(s) : DOMAIN s.players[j] = PlayerFields
    BY DEF EngineInv, Shaped
  <1>3. m = [s EXCEPT !.players[i] = q]
    BY <1>1 DEF SetConnected, Update
  <1>4. /\ DOMAIN m = HandFields /\ In(m) = In(s) /\ m.street = s.street /\ m.button = s.button
        /\ m.actor = s.actor /\ m.currentBet = s.currentBet /\ m.fullRaises = s.fullRaises
        /\ m.pots = s.pots /\ m.returned = s.returned /\ m.rank = s.rank
        /\ m.players[i] = q /\ \A j \in In(s) \ {i} : m.players[j] = s.players[j]
    BY <1>2, <1>3 DEF HandFields, In
  <1>5. /\ DOMAIN q = PlayerFields /\ q.initial = p.initial /\ q.stack = p.stack
        /\ q.street = p.street /\ q.total = p.total /\ q.paid = p.paid
        /\ q.folded = p.folded /\ q.acted = p.acted /\ q.pending = p.pending
    BY <1>1, <1>2 DEF PlayerFields
  <1>6. \A j \in In(s) :
           /\ DOMAIN m.players[j] = PlayerFields /\ m.players[j].initial = s.players[j].initial
           /\ m.players[j].stack = s.players[j].stack /\ m.players[j].street = s.players[j].street
           /\ m.players[j].total = s.players[j].total /\ m.players[j].paid = s.players[j].paid
           /\ m.players[j].folded = s.players[j].folded /\ m.players[j].acted = s.players[j].acted
           /\ m.players[j].pending = s.players[j].pending
    <2> SUFFICES ASSUME NEW j \in In(s)
                 PROVE  /\ DOMAIN m.players[j] = PlayerFields /\ m.players[j].initial = s.players[j].initial
                        /\ m.players[j].stack = s.players[j].stack /\ m.players[j].street = s.players[j].street
                        /\ m.players[j].total = s.players[j].total /\ m.players[j].paid = s.players[j].paid
                        /\ m.players[j].folded = s.players[j].folded /\ m.players[j].acted = s.players[j].acted
                        /\ m.players[j].pending = s.players[j].pending
      OBVIOUS
    <2>1. CASE j = i
      BY <1>1, <1>4, <1>5, <2>1
    <2>2. CASE j # i
      BY <1>2, <1>4, <2>2
    <2> QED
      BY <2>1, <2>2
  <1> QED
    BY <1>4, <1>6 DEF SameBooks

\* A hand whose blinds are not posted yet has whole stacks and empty pots.
LEMMA MoneyInitially == Init => MoneyInv(hand)
  <1> SUFFICES ASSUME Init PROVE MoneyInv(hand)
    OBVIOUS
  <1>1. PICK P \in SUBSET Seats : /\ Cardinality(P) >= 2
                                  /\ \E stacks \in [P -> Stacks], button \in P : hand = Fresh(stacks, button)
    BY DEF Init
  <1>2. PICK stacks \in [P -> Stacks], button \in P : hand = Fresh(stacks, button)
    BY <1>1
  <1>3. /\ DOMAIN hand = HandFields /\ hand.street = "COMMITTED" /\ hand.button = button
        /\ hand.actor = 0 /\ hand.fullRaises = 0 /\ hand.pots = {} /\ In(hand) = P
        /\ hand.returned = [i \in P |-> 0]
    BY <1>2 DEF Fresh, HandFields, In
  <1>4. \A i \in P : SeatedAt(hand, i)
    <2>1. \A i \in P : stacks[i] \in Nat \ {0}
      BY EngineAssumption
    <2> QED
      BY <1>2, <2>1 DEF Fresh, PlayerFields, SeatedAt
  <1>5. Seated(hand)
    BY <1>1, <1>3, <1>4 DEF Seated
  <1> QED
    BY <1>3, <1>5 DEF MoneyInv, BettingStreets, Streets

\* One step per action.
LEMMA MoneyMoves == EngineInv(hand) /\ MoneyInv(hand) /\ [Next]_vars => MoneyInv(hand)'
  <1> SUFFICES ASSUME EngineInv(hand), MoneyInv(hand), [Next]_vars PROVE MoneyInv(hand')
    OBVIOUS
  <1>1. CASE Deal
    <2>1. PICK r \in New(hand) : r.ok /\ hand' = r.hand
      BY <1>1 DEF Deal
    <2>2. Seated(hand)
      BY <1>1 DEF Deal, MoneyInv
    <2>3. Outcome(hand')
      BY <2>1, <2>2, DealValid
    <2> QED
      BY <2>3, OutcomeKeeps
  <1>2. ASSUME NEW kind, NEW to, NEW timeout, Running,
               \E r \in apply(hand, kind, to, timeout) : r.ok /\ hand' = r.hand
        PROVE  MoneyInv(hand')
    <2>1. PICK r \in apply(hand, kind, to, timeout) : r.ok /\ hand' = r.hand
      BY <1>2
    <2>2. Staked(hand)
      BY <1>2 DEF Running, MoneyInv, BettingStreets
    <2>3. kind \in legalActions(hand) /\ to \in LegalTargets(hand, kind) /\ (~timeout => ~hand.late)
      <3>1. ~Refused(hand).ok
        BY DEF Refused
      <3>2. r # Refused(hand)
        BY <2>1, <3>1
      <3> QED
        BY <2>1, <3>2 DEF apply
    <2>4. Outcome(hand')
      BY <2>1, <2>2, <2>3, ActionValid
    <2> QED
      BY <2>4, OutcomeKeeps
  <1>3. ASSUME NEW kind, Act(kind) PROVE MoneyInv(hand')
    BY <1>2, <1>3 DEF Act
  <1>4. CASE Timeout
    BY <1>2, <1>4 DEF Timeout
  <1>5. ASSUME NEW m, hand.street \in Streets, DOMAIN m = HandFields, m.street = hand.street,
               m.button = hand.button, m.actor = hand.actor, m.currentBet = hand.currentBet,
               m.fullRaises = hand.fullRaises, m.pots = hand.pots, m.returned = hand.returned,
               m.rank = hand.rank, m.players = hand.players
        PROVE  MoneyInv(m)
    <2>1. \A i \in In(hand) : DOMAIN hand.players[i] = PlayerFields
      BY DEF EngineInv, Shaped
    <2>2. SameBooks(m, hand)
      BY <1>5, <2>1 DEF SameBooks, In
    <2> QED
      BY <1>5, <2>2, MoneyKept
  <1>6. hand.recovery # "NONE" => hand.street \in Streets
    BY DEF EngineInv, Undealt
  <1>7. DOMAIN hand = HandFields
    BY DEF EngineInv, Shaped
  <1>8. CASE Expire
    BY <1>5, <1>7, <1>8 DEF Expire, Running, HandFields
  <1>9. ASSUME NEW i \in Flaky, Connection(i) PROVE MoneyInv(hand')
    <2>1. SameBooks(hand', hand) /\ hand.street \in Streets
      BY <1>9, ConnectionKeeps DEF Connection
    <2> QED
      BY <2>1, MoneyKept
  <1>10. CASE Restart
    BY <1>5, <1>7, <1>10 DEF Restart, Running, HandFields
  <1>11. CASE GracePasses
    BY <1>5, <1>6, <1>7, <1>11 DEF GracePasses, HandFields
  <1>12. CASE ResumeHand
    BY <1>5, <1>6, <1>7, <1>12 DEF ResumeHand, Resume, setActor, HandFields
  <1>13. CASE UNCHANGED vars
    BY <1>13 DEF vars
  <1> QED
    BY <1>1, <1>3, <1>4, <1>8, <1>9, <1>10, <1>11, <1>12, <1>13 DEF Next

\* The chips of a hand at each moment.
THEOREM MoneySound == Spec => []MoneyInv(hand)
  <1>1. EngineInv(hand) /\ MoneyInv(hand) /\ [Next]_vars => MoneyInv(hand)'
    BY MoneyMoves
  <1> QED
    BY <1>1, MoneyInitially, EngineSound, PTL DEF Spec

\* What legal offers and Timeout decides, applyInternal and validate accept, and the
\* buttons of ShortcutTargets are legal actions with their targets.
THEOREM LegalAcceptedHolds == Spec => []LegalAccepted
  <1>1. EngineInv(hand) /\ MoneyInv(hand) => LegalAccepted
    <2> SUFFICES ASSUME EngineInv(hand), MoneyInv(hand) PROVE LegalAccepted
      OBVIOUS
    <2>1. ASSUME hand.street = "COMMITTED" PROVE \A r \in New(hand) : r.ok
      BY <2>1, DealValid DEF MoneyInv
    <2>2. ASSUME Running, hand.recovery = "NONE"
          PROVE  IF hand.late THEN \A r \in apply(hand, TimeoutKind(hand), 0, TRUE) : r.ok
                 ELSE \A kind \in legalActions(hand) : \A to \in LegalTargets(hand, kind) :
                         \A r \in apply(hand, kind, to, FALSE) : r.ok
      <3>1. Staked(hand) /\ hand.street # "SETTLED"
        BY <2>2 DEF Running, MoneyInv, BettingStreets
      <3>2. hand.actor # 0
        <4>1. hand.actor \in In(hand) /\ In(hand) \subseteq 1..9
          BY <3>1, SeatsOf DEF Staked, Bets, PendingSeats, Active, Live
        <4> QED
          BY <4>1
      <3>3. TimeoutKind(hand) \in legalActions(hand) /\ 0 \in LegalTargets(hand, TimeoutKind(hand))
        BY <2>2, <3>1, <3>2 DEF TimeoutKind, legalActions, LegalTargets
      <3>4. CASE hand.late
        <4>1. \A r \in apply(hand, TimeoutKind(hand), 0, TRUE) : r.ok
          BY <3>1, <3>3, ActionValid
        <4> QED
          BY <3>4, <4>1
      <3>5. CASE ~hand.late
        <4>1. \A kind \in legalActions(hand) : \A to \in LegalTargets(hand, kind) :
                 \A r \in apply(hand, kind, to, FALSE) : r.ok
          BY <3>1, <3>5, ActionValid
        <4> QED
          BY <3>5, <4>1
      <3> QED
        BY <3>4, <3>5
    <2>3. ASSUME NEW x \in ShortcutTargets(hand) PROVE ShortcutLegal(hand, x)
      <3>1. legalActions(hand) # {}
        BY <2>3 DEF ShortcutTargets
      <3>2. hand.actor # 0 /\ hand.street # "SETTLED"
        BY <3>1 DEF legalActions
      <3>3. hand.street \in BettingStreets
        BY <3>2 DEF MoneyInv, Seated, EngineInv, BettingStreets
      <3> QED
        BY <2>3, <3>3, ShortcutsLegal DEF MoneyInv
    <2> QED
      BY <2>1, <2>2, <2>3 DEF LegalAccepted, ShortcutLegal
  <1> QED
    BY <1>1, MoneySound, EngineSound, PTL

\* settle, returnUncalled and the odd chips keep the rules of table stakes: whatever the
\* stacks, the showdown and the order of the actions.
THEOREM FairSettlementHolds == Spec => []FairSettlement
  <1>1. MoneyInv(hand) => FairSettlement
    BY FairStated DEF MoneyInv
  <1> QED
    BY <1>1, MoneySound, PTL
=============================================================================
