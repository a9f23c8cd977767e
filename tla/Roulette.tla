------------------------------ MODULE Roulette ------------------------------
(***************************************************************************)
(* The rooms of internal/roulette: creation, the waiting room with its     *)
(* ready cycles, play, settlement, the worker that steps what is due, and  *)
(* the operator's void.  Each action is one database transaction.  The     *)
(* rules of the two games are abstracted to what RuleAccepts shows of      *)
(* them: a move either goes on or ends with some seats to pay.  A command  *)
(* with a stale expected version, whose receipt exists, or which the gates *)
(* on new rounds refuse, changes nothing and is not an action.             *)
(***************************************************************************)
EXTENDS Integers, FiniteSets, FiniteSetsExt, Functions, CapPolicy

CONSTANTS
    Rooms,          \* ids of the rooms, as the worker orders them
    Players,        \* user ids, positive integers
    Target,         \* players of a room
    RoomStake,      \* stake_units of every room
    MaxChips,       \* math.MaxInt64
    Cap,            \* asset cap of the economic policy
    StartChips,     \* balance of a player at the start
    Lucky,          \* the players who may get a large credit from elsewhere
    MaxCycle        \* bound on the ready cycles of a participant

ASSUME RoomAssumption ==
    /\ IsFiniteSet(Rooms) /\ Rooms \subseteq Nat
    /\ IsFiniteSet(Players) /\ Players \subseteq Nat \ {0}
    /\ Target \in Nat \ {0} /\ RoomStake \in Nat \ {0} /\ MaxCycle \in Nat
    /\ Cap \in Nat \ {0} /\ MaxChips \in Nat /\ StartChips \in Nat

VARIABLES
    rooms,          \* roulette.rounds
    seats,          \* roulette.participants of each room
    chips,          \* AVAILABLE_CHIPS of each player
    funding,        \* roulette.funding
    withheld,       \* economy.cap_settlements of each room, per player
    unwell          \* the players with a holding outside the rooms that the asset read refuses

\* unwell is an input: poker, the games and the wallets change it when they will, and
\* the rooms only read it.
roomVars == <<rooms, seats, chips, funding, withheld>>

NoSeatNo == -1
Terminal == {"FINISHED", "CANCELLED"}
NoOutcome == [awards |-> <<>>, refunds |-> FALSE]
\* The columns that save writes of a room.
NoRoom == [state |-> "NONE", host |-> 0, econ |-> FALSE, escrow |-> 0, outcome |-> NoOutcome,
           late |-> FALSE, over |-> FALSE]
\* A user without a row among the participants of a room.
Absent == [seat |-> NoSeatNo, cycle |-> 0, ready |-> FALSE, active |-> FALSE]

RoomInit ==
    /\ rooms = [r \in Rooms |-> NoRoom]
    /\ seats = [r \in Rooms |-> [u \in Players |-> Absent]]
    /\ chips = [u \in Players |-> StartChips]
    /\ funding = {}
    /\ withheld = [r \in Rooms |-> [u \in Players |-> 0]]

Ready(r) == {u \in Players : seats[r][u].ready /\ seats[r][u].seat # NoSeatNo}
Occupied(r) == {seats[r][u].seat : u \in Players} \ {NoSeatNo}
SeatedIn(r, u) == seats[r][u].seat # NoSeatNo /\ seats[r][u].active
\* roulette_one_active_seat: a user is active in one room.
NotSeated(u) == \A r \in Rooms : ~seats[r][u].active
FreeSeat(r) == Min((0..(Target - 1)) \ Occupied(r))
Row(r, u, kind, amount) ==
    [room |-> r, user |-> u, cycle |-> seats[r][u].cycle, kind |-> kind, amount |-> amount]

(***************************************************************************)
(* The asset read of a room made under a policy.                           *)
(***************************************************************************)
\* ReadUnifiedAssetsInTx, for the chips and the rooms.
Assets(u) ==
    chips[u] + SumFunctionOnSet([r \in Rooms |->
                   IF rooms[r].state \notin Terminal /\ u \in Ready(r) THEN RoomStake ELSE 0], Rooms)
\* It refuses a user with a holding under review, in poker, in the games or in a room
\* that ever took a stake from him, and a sum that no bigint holds.
Healthy(u) ==
    /\ u \notin unwell
    /\ ~\E row \in funding : row.user = u /\ rooms[row.room].state = "NEEDS_REVIEW"
AssetsRead(u) == Healthy(u) /\ Assets(u) <= MaxChips

(***************************************************************************)
(* create and the commands of a waiting room.                              *)
(***************************************************************************)
create(u, r, econ) ==
    /\ rooms[r].state = "NONE" /\ NotSeated(u) /\ (econ => AssetsRead(u))
    /\ rooms' = [rooms EXCEPT ![r] = [NoRoom EXCEPT !.state = "WAITING", !.host = u, !.econ = econ]]
    /\ seats' = [seats EXCEPT ![r][u] = [@ EXCEPT !.seat = 0, !.active = TRUE]]
    /\ UNCHANGED <<chips, funding, withheld>>

\* Mutant: the worker looks only for deadlines that have passed.
DueByDeadline(r) == rooms[r].state \in {"WAITING", "PLAYING"} /\ rooms[r].late
Due(r) == rooms[r].state = "SETTLING" \/ (rooms[r].state \in {"WAITING", "PLAYING"} /\ rooms[r].late)

join(u, r) ==
    /\ ~Due(r) /\ rooms[r].state = "WAITING" /\ ~SeatedIn(r, u) /\ NotSeated(u)
    /\ Cardinality(Occupied(r)) < Target
    /\ seats' = [seats EXCEPT ![r][u] = [@ EXCEPT !.seat = FreeSeat(r), !.active = TRUE]]
    /\ UNCHANGED <<rooms, chips, funding, withheld>>

\* cancel: the outcome gives every ready player the stake back.
cancelled(r) ==
    [rooms[r] EXCEPT !.state = "SETTLING", !.late = FALSE,
                     !.outcome = [awards |-> [u \in Ready(r) |-> RoomStake], refunds |-> TRUE]]

hostCancel(u, r) ==     \* CANCEL, or LEAVE of the host
    /\ ~Due(r) /\ rooms[r].state = "WAITING" /\ SeatedIn(r, u) /\ rooms[r].host = u
    /\ rooms' = [rooms EXCEPT ![r] = cancelled(r)]
    /\ UNCHANGED <<seats, chips, funding, withheld>>

\* fund, under lockWallets: a wallet mutation and its funding row, unique by room,
\* user, cycle and kind.
CanFund(row) ==
    /\ ~\E old \in funding : [old EXCEPT !.amount = row.amount] = row
    /\ row.kind = "ESCROW" \/ chips[row.user] <= MaxChips - row.amount

unready(u, r, leave) ==     \* UNREADY, or LEAVE of a guest
    LET row == Row(r, u, "REFUND", RoomStake)
        back == seats[r][u].ready
    IN  /\ ~Due(r) /\ rooms[r].state = "WAITING" /\ SeatedIn(r, u)
        /\ IF leave THEN rooms[r].host # u ELSE back
        /\ back => CanFund(row)
        /\ funding' = IF back THEN funding \cup {row} ELSE funding
        /\ chips' = IF back THEN [chips EXCEPT ![u] = @ + RoomStake] ELSE chips
        /\ rooms' = IF back THEN [rooms EXCEPT ![r].escrow = @ - RoomStake] ELSE rooms
        /\ seats' = [seats EXCEPT ![r][u] =
              IF leave THEN [@ EXCEPT !.ready = FALSE, !.seat = NoSeatNo, !.active = FALSE]
              ELSE [@ EXCEPT !.ready = FALSE]]
        /\ UNCHANGED withheld

\* Mutant: a new READY reuses the cycle of the one that was taken back.
readyKeepsCycle(u, r) ==
    LET row == Row(r, u, "ESCROW", RoomStake)
        all == Cardinality(Ready(r)) + 1 = Target
    IN  /\ ~Due(r) /\ rooms[r].state = "WAITING" /\ SeatedIn(r, u) /\ ~seats[r][u].ready
        /\ seats[r][u].cycle < MaxCycle /\ chips[u] >= RoomStake
        /\ chips[u] - RoomStake <= MaxChips - RoomStake * Target
        /\ rooms[r].econ => AssetsRead(u)
        /\ seats' = [seats EXCEPT ![r][u].ready = TRUE]
        /\ funding' = funding \cup {row}
        /\ chips' = [chips EXCEPT ![u] = @ - RoomStake]
        /\ rooms' = [rooms EXCEPT ![r].escrow = @ + RoomStake,
                                  ![r].state = IF all THEN "PLAYING" ELSE @]
        /\ UNCHANGED withheld
ready(u, r) ==
    LET cycle == seats[r][u].cycle + 1
        all == Cardinality(Ready(r)) + 1 = Target
    IN  /\ ~Due(r) /\ rooms[r].state = "WAITING" /\ SeatedIn(r, u) /\ ~seats[r][u].ready
        /\ cycle <= MaxCycle /\ chips[u] >= RoomStake
        /\ chips[u] - RoomStake <= MaxChips - RoomStake * Target
        /\ rooms[r].econ => AssetsRead(u)
        /\ seats' = [seats EXCEPT ![r][u] = [@ EXCEPT !.cycle = cycle, !.ready = TRUE]]
        /\ funding' = funding \cup {[Row(r, u, "ESCROW", RoomStake) EXCEPT !.cycle = cycle]}
        /\ chips' = [chips EXCEPT ![u] = @ - RoomStake]
        /\ rooms' = [rooms EXCEPT ![r].escrow = @ + RoomStake,
                                  ![r].state = IF all THEN "PLAYING" ELSE @]
        /\ UNCHANGED withheld

(***************************************************************************)
(* play and settlement.                                                    *)
(***************************************************************************)
\* makeOutcome: equal shares, the remainder to the lowest seats.
makeOutcome(r, eligible) ==
    LET base == rooms[r].escrow \div Cardinality(eligible)
        rest == rooms[r].escrow % Cardinality(eligible)
        rank(u) == Cardinality({v \in eligible : seats[r][v].seat < seats[r][u].seat})
        share == [u \in eligible |-> IF rank(u) < rest THEN base + 1 ELSE base]
    IN  [awards |-> [u \in {u \in eligible : share[u] > 0} |-> share[u]], refunds |-> FALSE]

\* A move that ends the game leaves the outcome for a later transaction to pay.
ended(r, eligible) ==
    [rooms[r] EXCEPT !.state = "SETTLING", !.late = FALSE, !.outcome = makeOutcome(r, eligible)]

play(u, r) ==
    /\ ~Due(r) /\ rooms[r].state = "PLAYING" /\ SeatedIn(r, u)
    /\ \E eligible \in (SUBSET Ready(r)) \ {{}} : rooms' = [rooms EXCEPT ![r] = ended(r, eligible)]
    /\ UNCHANGED <<seats, chips, funding, withheld>>

\* CapPayout of each ready player, when the room was made under a policy.
Gross(r, u) == IF u \in DOMAIN rooms[r].outcome.awards THEN rooms[r].outcome.awards[u] ELSE 0
Capped(r) == rooms[r].econ /\ ~rooms[r].outcome.refunds
Decision(r, u) == CapPayout(Cap, Assets(u), RoomStake, Gross(r, u), 1)
\* Mutant: the withheld part is recorded, and paid all the same.
CreditedGross(r, u) == Gross(r, u)
Credited(r, u) == IF Capped(r) THEN Decision(r, u).credited ELSE Gross(r, u)

\* settle checks all awards before the first is paid: none overflows its balance and
\* they sum to the escrow.
Sound(r) ==
    LET awards == rooms[r].outcome.awards
    IN  /\ \A u \in DOMAIN awards : chips[u] <= MaxChips - awards[u]
        /\ SumFunctionOnSet(awards, DOMAIN awards) = rooms[r].escrow
\* A settlement whose asset read fails rolls back, and the room stays SETTLING.
Blocked(r) ==
    rooms[r].state = "SETTLING" /\ Sound(r) /\ Capped(r) /\ \E u \in Ready(r) : ~AssetsRead(u)

\* An unsound outcome or a funding conflict leaves the money for review.
settle(r) ==
    LET awards == rooms[r].outcome.awards
        kind == IF rooms[r].outcome.refunds THEN "REFUND" ELSE "PAYOUT"
        rows == {Row(r, u, kind, Credited(r, u)) : u \in DOMAIN awards}
        payable == Sound(r) /\ \A row \in rows : CanFund(row)
    IN  \/ /\ ~payable
           /\ rooms' = [rooms EXCEPT ![r].state = "NEEDS_REVIEW"]
           /\ UNCHANGED <<seats, chips, funding, withheld>>
        \/ /\ payable
           /\ funding' = funding \cup rows
           /\ chips' = [u \in Players |-> chips[u] + IF u \in DOMAIN awards THEN Credited(r, u) ELSE 0]
           /\ withheld' = [withheld EXCEPT ![r] =
                 [u \in Players |-> IF Capped(r) /\ u \in Ready(r) THEN Decision(r, u).withheld ELSE 0]]
           /\ rooms' = [rooms EXCEPT ![r].escrow = 0,
                 ![r].state = IF rooms[r].outcome.refunds THEN "CANCELLED" ELSE "FINISHED"]
           /\ seats' = [seats EXCEPT ![r] = [u \in Players |-> [@[u] EXCEPT !.active = FALSE]]]

markReview(r) ==
    /\ rooms' = [rooms EXCEPT ![r].state = "NEEDS_REVIEW", ![r].late = FALSE]
    /\ UNCHANGED <<seats, chips, funding, withheld>>

\* due: the step a room owes to the clock, TIMEOUT or GAME_LIMIT when it is played.
due(r) ==
    \/ rooms[r].state = "SETTLING" /\ ~Blocked(r) /\ settle(r)
    \/ /\ rooms[r].state = "WAITING" /\ rooms[r].late
       /\ rooms' = [rooms EXCEPT ![r] = cancelled(r)]
       /\ UNCHANGED <<seats, chips, funding, withheld>>
    \/ /\ rooms[r].state = "PLAYING" /\ rooms[r].late
       /\ \/ /\ ~rooms[r].over
             /\ rooms' = [rooms EXCEPT ![r].late = FALSE]
          \/ \E eligible \in (SUBSET Ready(r)) \ {{}} :
                rooms' = [rooms EXCEPT ![r] = ended(r, eligible)]
       /\ UNCHANGED <<seats, chips, funding, withheld>>

\* A command that met a due room, the finishPending of the request that ended it, a
\* worker that skips the rooms others hold locked, or the worker's own step.
StepDue(r) == Due(r) /\ due(r)
\* The room the worker selects: the least id of those that settle, whose deadline is
\* null, before any that is late.  A step that fails ends its pass.
NextDue(r) ==
    LET settling == {q \in Rooms : rooms[q].state = "SETTLING"}
    IN  Due(r) /\ (settling = {} \/ (r \in settling /\ \A q \in settling : r <= q))

\* load finds that the snapshot of a room does not open or does not make sense:
\* the command, or the worker, sends the room to review.
Unreadable(r) == rooms[r].state \in {"WAITING", "PLAYING", "SETTLING"} /\ markReview(r)

(***************************************************************************)
(* The operator's void and its checks.                                     *)
(***************************************************************************)
RowsOf(r, u, c) == {row \in funding : row.room = r /\ row.user = u /\ row.cycle = c}
Amount(rows, kinds) ==
    SumFunctionOnSet([row \in rows |-> row.amount], {row \in rows : row.kind \in kinds})
Refunds == {"REFUND", "VOID_REFUND"}
Net(r, u, c) == Amount(RowsOf(r, u, c), {"ESCROW"}) - Amount(RowsOf(r, u, c), Refunds)
Backed(r, u, c) == seats[r][u].ready /\ seats[r][u].cycle = c

\* verifyFunding: each cycle escrows once and refunds what it escrowed, a cycle
\* that still holds a stake is the ready one, the cap receipts match, and the sum is the escrow.
verifyFunding(r) ==
    LET rows == {row \in funding : row.room = r}
        paid(u) == Amount({row \in rows : row.user = u}, {"PAYOUT"})
        kept == SumFunctionOnSet(withheld[r], Players)
        done == rooms[r].state \in Terminal
    IN  /\ \A u \in Players, c \in 0..MaxCycle :
              /\ Amount(RowsOf(r, u, c), {"ESCROW"}) \in {0, RoomStake}
              /\ Net(r, u, c) \in {0, RoomStake}
              /\ Net(r, u, c) # 0 => Backed(r, u, c)
        /\ \A u \in Players : Cardinality({row \in rows : row.user = u /\ row.kind = "PAYOUT"}) <= 1
        /\ Amount(rows, {"ESCROW"}) - Amount(rows, Refunds \cup {"PAYOUT"}) - kept = rooms[r].escrow
        /\ done => /\ rooms[r].escrow = 0
                   /\ IF rooms[r].outcome.refunds THEN Amount(rows, {"PAYOUT"}) = 0
                      ELSE \A u \in Players : paid(u) + withheld[r][u] = Gross(r, u)

\* voidMaterial: what the operator's refund requires of a room that is not over.
Open(r) == rooms[r].state \notin Terminal \cup {"NONE"}
voidMaterial(r) ==
    /\ ~\E row \in funding : row.room = r /\ row.kind \in {"PAYOUT", "VOID_REFUND"}
    /\ verifyFunding(r)
    /\ \A u \in Players, c \in 0..MaxCycle :
          Net(r, u, c) # 0 => Net(r, u, c) = RoomStake /\ Backed(r, u, c) /\ seats[r][u].seat # NoSeatNo
    /\ SumFunctionOnSet([u \in Ready(r) |-> RoomStake], Ready(r)) = rooms[r].escrow

SystemVoid(r) ==
    LET rows == {Row(r, u, "VOID_REFUND", RoomStake) : u \in Ready(r)}
    IN  /\ Open(r) /\ voidMaterial(r)
        /\ \A row \in rows : CanFund(row)
        /\ funding' = funding \cup rows
        /\ chips' = [u \in Players |-> chips[u] + IF u \in Ready(r) THEN RoomStake ELSE 0]
        /\ rooms' = [rooms EXCEPT ![r].state = "CANCELLED", ![r].escrow = 0,
              ![r].late = FALSE, ![r].outcome = [awards |-> [u \in Ready(r) |-> RoomStake], refunds |-> TRUE]]
        /\ seats' = [seats EXCEPT ![r] = [u \in Players |-> [@[u] EXCEPT !.active = FALSE]]]
        /\ UNCHANGED withheld

(***************************************************************************)
(* The clock and the rest of the economy.                                  *)
(***************************************************************************)
\* A room's deadline passes; the deadline of the game bounds the turns.
Late(r) ==
    /\ rooms[r].state \in {"WAITING", "PLAYING"} /\ ~rooms[r].late
    /\ rooms' = [rooms EXCEPT ![r].late = TRUE]
    /\ UNCHANGED <<seats, chips, funding, withheld>>
GameOver(r) ==
    /\ rooms[r].state = "PLAYING" /\ ~rooms[r].over
    /\ rooms' = [rooms EXCEPT ![r].over = TRUE, ![r].late = TRUE]
    /\ UNCHANGED <<seats, chips, funding, withheld>>
\* A large credit from elsewhere, such as a prize of another game.
Income(u) ==
    /\ chips[u] < MaxChips
    /\ chips' = [chips EXCEPT ![u] = MaxChips]
    /\ UNCHANGED <<rooms, seats, funding, withheld>>

RoomStep(u, r) ==
    \/ \E econ \in BOOLEAN : create(u, r, econ)
    \/ join(u, r) \/ hostCancel(u, r) \/ ready(u, r) \/ play(u, r)
    \/ \E leave \in BOOLEAN : unready(u, r, leave)

RoomNext ==
    \/ \E r \in Rooms, u \in Players : RoomStep(u, r)
    \/ \E r \in Rooms : StepDue(r) \/ Unreadable(r) \/ SystemVoid(r) \/ Late(r) \/ GameOver(r)
    \/ \E u \in Lucky : Income(u)

\* The worker steps the head of its queue every second, the clock moves, and a game
\* ends at its limit because GAME_LIMIT pays everyone alive.
RoomFairness ==
    /\ WF_roomVars(\E r \in Rooms : NextDue(r) /\ StepDue(r))
    /\ \A r \in Rooms : WF_roomVars(Late(r)) /\ WF_roomVars(GameOver(r))

RoomSpec == RoomInit /\ [][RoomNext]_roomVars

(***************************************************************************)
(* Properties.                                                             *)
(***************************************************************************)
\* The funding rows of every room, open or over, pass the verification that the
\* proof page and the void rely on, through ready cycles, rejoining, a lost key and
\* review; and an operator can always refund a room that is not over: voidMaterial
\* accepts it, so no escrow is ever stuck behind a conflict.
FundingVerified ==
    \A r \in Rooms : /\ rooms[r].state # "NONE" => verifyFunding(r)
                     /\ Open(r) => voidMaterial(r)

\* Every room that was made ends, or is left for review with its escrow, if from some
\* time on no settlement meets an asset read that fails: the worker's pass comes to
\* each of them, however many settle or time out at once.
RoomEnds ==
    <>[](\A r \in Rooms : ~Blocked(r)) =>
        \A r \in Rooms : rooms[r].state = "WAITING" ~> rooms[r].state \in Terminal \cup {"NEEDS_REVIEW"}

\* Each room is an account of the abstract escrow: what is held for a user is the stake
\* of the ready seat, and settlement and void close it to the unit.
Held(r, u) == IF Open(r) /\ u \in Ready(r) THEN RoomStake ELSE 0
Paid(r, u) ==
    IF rooms[r].state \in Terminal
    THEN Amount({row \in funding : row.room = r /\ row.user = u /\ row.cycle = seats[r][u].cycle
                                   /\ seats[r][u].ready}, Refunds \cup {"PAYOUT"})
    ELSE 0
Account == INSTANCE Escrow WITH
    Rounds <- Rooms, Owners <- Players, Units <- 0..(RoomStake * Target),
    held <- [r \in Rooms |-> [u \in Players |-> Held(r, u)]],
    closed <- {r \in Rooms : rooms[r].state \in Terminal},
    credit <- [r \in Rooms |-> [u \in Players |-> Paid(r, u)]],
    kept <- [r \in Rooms |-> SumFunctionOnSet(withheld[r], Players)]
\* Every room is an escrow: a stake is held for whoever is ready, a room that ends
\* pays out or keeps as withheld exactly what it held, once, and holds nothing after.
RoundsAreEscrows == Account!Spec
=============================================================================
