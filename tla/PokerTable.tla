---------------------------- MODULE PokerTable ----------------------------
(***************************************************************************)
(* A cash table of internal/poker: seats and their sessions, buy-in,       *)
(* top-up, rebuy and cash-out against the wallets, the two-phase start of  *)
(* a hand, its settlement and the boundary that follows, the host's        *)
(* commands, the ticker and the recovery of the table after a restart.     *)
(*                                                                         *)
(* Every command runs in one database transaction that holds the table's   *)
(* row, so each is one action on db, the committed rows.  A command that   *)
(* is refused rolls back and is not a step.  The play of a hand is that of *)
(* PokerEngine; here a player's chips move into the pot and a settlement   *)
(* divides it.  Times are kept as ages (since a disconnection, a sit-out,  *)
(* the last player) or as time left (rebuy window, intermission, recovery  *)
(* grace), -1 standing for SQL NULL.                                       *)
(***************************************************************************)
EXTENDS Integers, FiniteSets, FiniteSetsExt, Functions

CONSTANTS
    Seats,                  \* the seats of the table, numbered within 1..9
    Users,
    Nobody,                 \* the session of a free seat
    MinBuy, MaxBuy,         \* buy-in limits (40 and 100 big blinds)
    SmallBlind, BigBlind,
    AwayLimit,              \* 15 minutes of sit-out or disconnection
    RebuyWindow,            \* 60 seconds with an empty stack
    Intermission,           \* 5 seconds between two hands
    GracePeriod,            \* 30 seconds of reconnect grace
    EmptyLimit,             \* 30 minutes without a player
    Scenes                  \* what the behaviours exercise: the optional commands and
                            \* faults, a bound on the restarts of the service, the
                            \* chips in each wallet at first and the seats in use

ASSUME TableAssumption ==
    /\ Seats \subseteq 1..9 /\ IsFiniteSet(Users) /\ Nobody \notin Users
    /\ MinBuy \in Nat \ {0} /\ MaxBuy \in Nat /\ MinBuy <= MaxBuy
    /\ SmallBlind \in Nat \ {0} /\ BigBlind = 2 * SmallBlind
    /\ {AwayLimit, RebuyWindow, Intermission, GracePeriod, EmptyLimit} \subseteq Nat
    /\ \A c \in Scenes : /\ c.crashes \in Nat /\ c.seats \subseteq Seats
                         /\ c.purse \in [Users -> Nat]

VARIABLES
    db,         \* the committed rows: table, seats with sessions, hand, wallets
    actor,      \* the table's actor: DOWN, HYDRATING or RUNNING
    crashes,
    scene       \* the scene of the behaviour, which never changes
vars == <<db, actor, crashes, scene>>
Offered(command) == command \in scene.commands

\* A free seat.  The columns cash-out leaves behind are not read before the
\* next buy-in resets them.
FreeSeat ==
    [user |-> Nobody, state |-> "LEFT", stack |-> 0, committed |-> 0, pending |-> 0,
     control |-> FALSE, disconnected |-> -1, sitOut |-> -1, rebuy |-> -1,
     timeoutOut |-> FALSE, sitOutNext |-> FALSE, leave |-> FALSE]

Seated(d) == {s \in Seats : d.seats[s].user # Nobody}
Connected(q) == q.disconnected = -1
HandOpen(d) == d.hand.state # "SETTLED"
ownsHand(d, s) == HandOpen(d) /\ s \in DOMAIN d.hand.players
coalesce(time, now) == IF time = -1 THEN now ELSE time

\* loadTable's CloseRequested: closing, also under a recovery that interrupted it.
CloseRequested(d) ==
    \/ d.table.state = "CLOSING"
    \/ d.table.state = "RECOVERING" /\ d.table.previous = "CLOSING"

\* The first of the seats S clockwise after a seat, 0 when S is empty.
nextSeat(S, after) ==
    LET above == {i \in S : i > after}
    IN  IF S = {} THEN 0 ELSE IF above # {} THEN Min(above) ELSE Min(S)
-----------------------------------------------------------------------------
(* Funding: the gateway between a wallet and a stack. *)

\* poker_cash_out_apply for the seats S: the stack returns to the wallet, the
\* session is settled and the seat is free.
CashOut(d, S) ==
    LET stack == [s \in Seats |-> d.seats[s].stack]
        due(u) == SumFunctionOnSet(stack, {s \in S : d.seats[s].user = u})
    IN  [d EXCEPT !.wallet = [u \in Users |-> @[u] + due(u)],
                  !.seats = [s \in Seats |-> IF s \in S THEN FreeSeat ELSE @[s]]]

\* poker_top_up_apply: amount moves to the stack, or nothing happens.
TopUpAllowed(d, s, amount) ==
    LET q == d.seats[s]
    IN  /\ amount > 0
        /\ ~ownsHand(d, s)
        /\ d.table.state \notin {"CLOSING", "CLOSED"}
        /\ q.stack + amount <= MaxBuy
        /\ d.wallet[q.user] >= amount

AddChips(d, s, amount) ==
    [d EXCEPT !.wallet[d.seats[s].user] = @ - amount, !.seats[s].stack = @ + amount]

\* A rebuy puts the player back in line for the big blind.
Rebought(d, s) ==
    [d EXCEPT !.seats[s].state = "WAITING_BIG_BLIND", !.seats[s].rebuy = -1]

\* The top-ups requested during the hand, applied or failed at its boundary.
PendingTopUps(d) ==
    LET funded == {s \in Seats : TopUpAllowed(d, s, d.seats[s].pending)}
        pending == [s \in Seats |-> d.seats[s].pending]
        due(u) == SumFunctionOnSet(pending, {s \in funded : d.seats[s].user = u})
    IN  [d EXCEPT !.wallet = [u \in Users |-> @[u] - due(u)],
                  !.seats = [s \in Seats |->
                     [d.seats[s] EXCEPT !.pending = 0,
                                        !.stack = @ + IF s \in funded THEN pending[s] ELSE 0]]]
-----------------------------------------------------------------------------
(* The boundary between two hands. *)

updateEmpty(d) ==
    [d EXCEPT !.table.empty =
        IF Seated(d) = {} /\ ~HandOpen(d) THEN coalesce(@, 0) ELSE -1]

closeTableIfSettled(d) ==
    IF Seated(d) = {} /\ ~HandOpen(d)
    THEN [d EXCEPT !.table.state = "CLOSED", !.table.accepting = FALSE, !.table.allow = FALSE]
    ELSE d

\* Why the boundary ends a session.
Overdue(q) == q.disconnected = AwayLimit \/ q.sitOut = AwayLimit
\* Mutant: a request to leave during the hand is forgotten.
MustLeaveForgetful(d, s) ==
    \/ d.table.state = "CLOSING"
    \/ d.seats[s].state = "REBUY_WINDOW" /\ d.seats[s].rebuy = 0
    \/ Overdue(d.seats[s])
MustLeave(d, s) ==
    LET q == d.seats[s]
    IN  \/ q.leave \/ d.table.state = "CLOSING"
        \/ q.state = "REBUY_WINDOW" /\ q.rebuy = 0
        \/ Overdue(q)

BetweenHands(d) == {s \in Seated(d) : ~ownsHand(d, s)}

SitsOut(q) == q.sitOutNext \/ q.timeoutOut \/ ~Connected(q)
\* Mutant: the time of the sit-out is not recorded.
SatOutUntimed(q) == [q EXCEPT !.state = "SIT_OUT"]
SatOut(q) == [q EXCEPT !.state = "SIT_OUT", !.sitOut = coalesce(@, 0)]

\* The seats with an empty stack enter the rebuy window.
OpenRebuys(d) ==
    [d EXCEPT !.seats = [s \in Seats |->
        IF @[s].stack = 0 /\ @[s].state \notin {"REBUY_WINDOW", "LEFT"}
        THEN [@[s] EXCEPT !.state = "REBUY_WINDOW", !.rebuy = RebuyWindow]
        ELSE @[s]]]

\* The sessions that end are cashed out, the players who are away sit out.
Vacate(d) ==
    LET leaving == {s \in BetweenHands(d) : MustLeave(d, s)}
        away == {s \in BetweenHands(d) \ leaving : SitsOut(d.seats[s])}
    IN  [CashOut(d, leaving) EXCEPT !.seats =
            [s \in Seats |-> IF s \in away THEN SatOut(@[s]) ELSE @[s]]]

\* boundary, as the set of its only outcome.
boundary(start) ==
    {IF d.table.state = "CLOSING" THEN closeTableIfSettled(d) ELSE d :
        d \in {updateEmpty(c) : c \in {OpenRebuys(b) : b \in
             {PendingTopUps(a) : a \in {Vacate(x) : x \in {start}}}}}}
-----------------------------------------------------------------------------
(* Hands. *)

\* A seat that may be dealt in: readySeats and the filter of selectParticipants.
Ready(d, state) ==
    {s \in Seated(d) :
        LET q == d.seats[s]
        IN  /\ q.state = state /\ q.stack > 0 /\ q.control /\ Connected(q)
            /\ ~q.leave /\ ~q.sitOutNext /\ ~q.timeoutOut}

\* Mutant: the first waiting seat after the button joins.
EntrySeatAfterButton(active, waiting, button) == nextSeat(active \cup waiting, button)
\* The seat whose turn it is to post the big blind.
EntrySeat(active, waiting, button) ==
    LET sb == IF Cardinality(active) > 1 THEN nextSeat(active, button) ELSE button
    IN  nextSeat(active \cup waiting, sb)

\* selectParticipants: the players of the next hand and the seats the button
\* may take (the first button of a table is drawn at random).
selectParticipants(d) ==
    LET incumbent == Ready(d, "ACTIVE")
        fresh == Ready(d, "WAITING_BIG_BLIND")
        active == IF incumbent = {} THEN fresh ELSE incumbent
        waiting == IF incumbent = {} THEN {} ELSE fresh
        button == nextSeat(active, d.table.button)
    IN  IF ~d.table.started
        THEN [players |-> incumbent \cup fresh, buttons |-> incumbent \cup fresh]
        ELSE [players |-> active \cup (waiting \cap {EntrySeat(active, waiting, button)}),
              buttons |-> {button}]

\* The participants are frozen in a COMMITTED hand.
Freeze(d, players, button) ==
    [d EXCEPT !.hand = [state |-> "COMMITTED", grace |-> -1,
                        players |-> [s \in players |-> d.seats[s].user]],
              !.seats = [s \in Seats |->
                 IF s \in players THEN [@[s] EXCEPT !.state = "ACTIVE"] ELSE @[s]],
              !.table.state = "IN_HAND", !.table.started = TRUE,
              !.table.button = button, !.table.pause = 0]

prepareHand(start) ==
    UNION {UNION {{Freeze(d, chosen.players, button) : button \in chosen.buttons} :
                     chosen \in {x \in {selectParticipants(d)} : Cardinality(x.players) >= 2}} :
              d \in boundary(start)}

\* The blinds of engine.New: heads-up the button posts the small one.
SmallBlindSeat(d) ==
    IF Cardinality(DOMAIN d.hand.players) = 2 THEN d.table.button
    ELSE nextSeat(DOMAIN d.hand.players, d.table.button)
BigBlindSeat(d) == nextSeat(DOMAIN d.hand.players, SmallBlindSeat(d))

\* Mutant: a short stack posts the whole blind.
CommitFullBlind(d, s, amount) ==
    [d EXCEPT !.seats[s].stack = @ - Min({amount, @}), !.seats[s].committed = @ + amount]
Commit(d, s, amount) ==
    LET paid == Min({amount, d.seats[s].stack})
    IN  [d EXCEPT !.seats[s].stack = @ - paid, !.seats[s].committed = @ + paid]

\* The ends of a hand the table distinguishes: one player takes the pot, or all
\* of it is returned.  The asset cap may withhold the winner's profit.
Awards(d) ==
    LET players == DOMAIN d.hand.players
        committed == [s \in players |-> d.seats[s].committed]
        pot == SumFunctionOnSet(committed, players)
        one(w, kept) == [s \in players |-> IF s = w THEN pot - kept ELSE 0]
        ends == {x \in players \X (0..pot) :
                    x[2] \in {0, IF Offered("CAP") THEN pot - committed[x[1]] ELSE 0}}
    IN  {[award |-> committed, withheld |-> 0]}
        \cup {[award |-> one(x[1], x[2]), withheld |-> x[2]] : x \in ends}

\* The lifecycle after a settlement.
SettledState(d) ==
    IF CloseRequested(d) THEN "CLOSING"
    ELSE IF d.table.allow THEN "INTERMISSION" ELSE "PAUSED"

\* The settlement of a hand.  The players of T have timed out twice in a row.
HandSettled(d, a, T) ==
    [d EXCEPT !.hand.state = "SETTLED",
              !.withheld = @ + a.withheld,
              !.seats = [s \in Seats |->
                  IF s \in DOMAIN d.hand.players
                  THEN [d.seats[s] EXCEPT !.stack = @ + a.award[s], !.committed = 0,
                                          !.timeoutOut = s \in T]
                  ELSE d.seats[s]],
              !.table.state = SettledState(d), !.table.pause = Intermission]

\* Every settlement, with the boundary in the same transaction.
Settlements(d) ==
    UNION {boundary(HandSettled(d, a, T)) : a \in Awards(d),
              T \in IF Offered("TIMEOUT") THEN SUBSET DOMAIN d.hand.players ELSE {{}}}

\* persistEngine after a step of the engine: the hand goes on or is settled.  Under a
\* policy settleHandCap reads the assets of the players; when the read is refused the
\* transaction rolls back and the actor's tick repeats it, which is a stutter here.
persistEngine(step) == UNION {{d} \cup Settlements(d) : d \in {step}}

\* dealHand: the blinds of a committed hand are posted.
dealHand(d) ==
    persistEngine(Commit(Commit([d EXCEPT !.hand.state = "PLAYING"],
                                SmallBlindSeat(d), SmallBlind),
                         BigBlindSeat(d), BigBlind))
-----------------------------------------------------------------------------
(* Commands of the players. *)

Running == actor = "RUNNING" /\ db.table.state # "CLOSED"
Commits(d) == db' = d /\ UNCHANGED <<actor, crashes, scene>>

BuyIn(u, s, amount) ==
    /\ Running
    /\ s \notin Seated(db) /\ \A i \in Seats : db.seats[i].user # u
    /\ db.table.accepting /\ db.table.state \notin {"CLOSING", "RECOVERING"}
    /\ amount \in MinBuy..MaxBuy /\ db.wallet[u] >= amount
    /\ Commits([db EXCEPT !.wallet[u] = @ - amount,
                          !.table.empty = -1,
                          !.seats[s] = [FreeSeat EXCEPT !.user = u, !.stack = amount,
                             !.disconnected = 0,
                             !.state = IF db.table.started THEN "WAITING_BIG_BLIND"
                                       ELSE "ACTIVE"]])

\* Connected: the player's socket takes the control of the seat.  A committed
\* hand cannot be told of a connection before it is dealt.
Connect(s) ==
    /\ Running /\ s \in Seated(db) /\ ~db.seats[s].control
    /\ ~(ownsHand(db, s) /\ db.hand.state = "COMMITTED")
    /\ Commits([db EXCEPT !.seats[s].control = TRUE, !.seats[s].disconnected = -1])

\* Disconnected: the socket is gone.  In a committed hand the command is
\* refused and nobody repeats it.
Disconnect(s) ==
    /\ Running /\ s \in Seated(db) /\ db.seats[s].control
    /\ Offered("DISCONNECT")
    /\ Commits([db EXCEPT !.seats[s].control = FALSE,
                          !.seats[s].disconnected =
                             IF ownsHand(db, s) /\ db.hand.state = "COMMITTED"
                             THEN @ ELSE coalesce(@, 0)])

\* changeSession: the guards of the commands on one's own seat.
MayChange(s) ==
    /\ Running /\ s \in Seated(db) /\ db.seats[s].control
    /\ ~db.seats[s].leave /\ db.table.state # "CLOSING"

RequestSitOut(s) ==
    /\ Offered("SIT_OUT") /\ MayChange(s)
    /\ ~ownsHand(db, s) => db.seats[s].state # "REBUY_WINDOW"
    /\ Commits([db EXCEPT !.seats[s] =
                   [IF ownsHand(db, s) THEN @ ELSE SatOut(@) EXCEPT !.sitOutNext = TRUE]])

ResumeSeat(s) ==
    /\ MayChange(s) /\ ~ownsHand(db, s)
    /\ db.seats[s].state = "SIT_OUT" /\ db.seats[s].stack > 0 /\ Connected(db.seats[s])
    /\ Commits([db EXCEPT !.seats[s] =
                   [@ EXCEPT !.state = "WAITING_BIG_BLIND", !.sitOutNext = FALSE,
                             !.sitOut = -1, !.timeoutOut = FALSE]])

\* RequestTopUp: at once, or at the boundary of the hand the player is in.  One
\* request per seat is in flight.
TopUp(s, amount) ==
    LET q == db.seats[s]
        rebuy == q.state = "REBUY_WINDOW"
    IN  /\ Offered("TOP_UP") /\ Running /\ s \in Seated(db)
        /\ ~q.leave /\ db.table.state # "CLOSING"
        /\ q.pending = 0 /\ amount \in 1..(MaxBuy - q.stack)
        /\ rebuy => amount >= MinBuy /\ q.rebuy > 0
        /\ \/ /\ ownsHand(db, s)
              /\ Commits([db EXCEPT !.seats[s].pending = amount])
           \/ /\ TopUpAllowed(db, s, amount)
              /\ Commits(IF rebuy THEN Rebought(AddChips(db, s, amount), s)
                         ELSE AddChips(db, s, amount))

\* Leave at once between hands, after the hand otherwise.
Leave(d, s) ==
    IF ownsHand(d, s)
    THEN updateEmpty([d EXCEPT !.seats[s].state = "LEAVE_AFTER_HAND", !.seats[s].leave = TRUE])
    ELSE updateEmpty(CashOut(d, {s}))

RequestSafeLeave(s) ==
    /\ Offered("LEAVE") /\ Running /\ s \in Seated(db)
    /\ Commits(Leave(db, s))

\* Act: a player of the running hand moves chips into the pot.
Act(s) ==
    /\ Running /\ db.hand.state = "PLAYING" /\ db.hand.grace = -1
    /\ s \in DOMAIN db.hand.players /\ db.seats[s].control /\ Connected(db.seats[s])
    /\ \E amount \in 0..db.seats[s].stack :
          \E d \in persistEngine(Commit(db, s, amount)) : Commits(d)
-----------------------------------------------------------------------------
(* Commands of the host. *)

MayControl == Running /\ Offered("HOST") /\ ~CloseRequested(db)

SetAccepting(accepting) ==
    /\ MayControl
    /\ Commits([db EXCEPT !.table.accepting = accepting])

Pause ==
    /\ MayControl
    /\ Commits([db EXCEPT !.table.allow = FALSE,
                          !.table.state = IF @ \in {"WAITING", "INTERMISSION"}
                                          THEN "PAUSED" ELSE @])

Resume ==
    /\ MayControl
    /\ Commits([db EXCEPT !.table.allow = TRUE, !.table.pause = Intermission,
                          !.table.state = IF @ = "PAUSED" THEN "INTERMISSION" ELSE @])

AllLeave(d) ==
    [d EXCEPT !.seats = [s \in Seats |-> [d.seats[s] EXCEPT !.leave = s \in Seated(d)]]]
\* CLOSE_TABLE: everyone leaves, now or after the hand, in one transaction.
Close ==
    /\ MayControl
    /\ \E d \in boundary(AllLeave([db EXCEPT !.table.state = "CLOSING", !.table.allow = FALSE,
                                             !.table.accepting = FALSE])) : Commits(d)

RemovePlayer(s) ==
    /\ MayControl /\ s \in Seated(db)
    /\ Commits(Leave(db, s))

StartHand ==
    /\ Running
    /\ db.table.allow /\ db.table.state \in {"WAITING", "INTERMISSION"}
    /\ db.table.pause = 0 /\ ~HandOpen(db)
    /\ \E d \in prepareHand(db) : Commits(d)
-----------------------------------------------------------------------------
(* The ticker of the table's actor. *)

Deal ==
    /\ Running /\ db.hand.state = "COMMITTED"
    /\ \E d \in dealHand(db) : Commits(d)

\* The action deadline of a player passes: the engine checks or folds.
TickTimeout ==
    /\ Running /\ db.hand.state = "PLAYING" /\ db.hand.grace = -1
    /\ \E d \in persistEngine(db) : Commits(d)

ResumedState(d) == IF CloseRequested(d) THEN "CLOSING" ELSE "IN_HAND"

TickResume ==
    /\ Running /\ db.hand.state = "PLAYING" /\ db.hand.grace = 0
    /\ Commits([db EXCEPT !.hand.grace = -1, !.table.previous = "NONE",
                          !.table.state = ResumedState(db)])

Due(d) ==
    \/ d.table.state = "CLOSING"
    \/ \E s \in Seated(d) :
          d.seats[s].leave \/ d.seats[s].pending > 0 \/ d.seats[s].rebuy = 0 \/ Overdue(d.seats[s])

TickBoundary ==
    /\ Running /\ ~HandOpen(db) /\ Due(db)
    /\ \E d \in boundary(db) : Commits(d)

TickClose ==
    /\ Running /\ ~HandOpen(db) /\ ~Due(db)
    /\ db.table.empty = EmptyLimit /\ Seated(db) = {}
    /\ Commits(closeTableIfSettled(db))
-----------------------------------------------------------------------------
(* Restarts and time. *)

Crash ==
    /\ crashes < scene.crashes /\ actor # "DOWN"
    /\ crashes' = crashes + 1 /\ actor' = "DOWN"
    /\ db' = [db EXCEPT !.seats = [s \in Seats |-> [@[s] EXCEPT !.control = FALSE]]]
    /\ UNCHANGED scene

\* actor(): the runtime epoch is advanced in a transaction of its own; from then
\* on every older actor is fenced.
StartActor ==
    /\ actor = "DOWN" /\ db.table.state # "CLOSED"
    /\ actor' = "HYDRATING" /\ UNCHANGED <<db, crashes, scene>>

\* Mutant: the state before an interrupted recovery is lost.
recoveryPreviousStateRaw(d) == d.table.state
recoveryPreviousState(d) == IF CloseRequested(d) THEN "CLOSING" ELSE d.table.state

SocketLost(q) == [q EXCEPT !.disconnected = coalesce(@, 0)]
MarkDisconnected(d, S) ==
    [d EXCEPT !.seats = [s \in Seats |-> IF s \in S THEN SocketLost(@[s]) ELSE @[s]]]

\* recoverMutation: what a new actor does before it takes any command.
recoverMutation(d) ==
    IF d.hand.state = "SETTLED" THEN {MarkDisconnected(d, Seated(d))}
    ELSE IF d.hand.state = "COMMITTED" THEN dealHand(d)
    ELSE {[MarkDisconnected(d, DOMAIN d.hand.players) EXCEPT
              !.hand.grace = coalesce(@, GracePeriod),
              !.table.previous = recoveryPreviousState(d),
              !.table.state = "RECOVERING"]}

Hydrate ==
    /\ actor = "HYDRATING"
    /\ actor' = "RUNNING" /\ UNCHANGED <<crashes, scene>>
    /\ \E d \in recoverMutation(db) : db' = d

Older(age, limit) == IF age = -1 THEN -1 ELSE Min({age + 1, limit})
Shorter(left) == IF left > 0 THEN left - 1 ELSE left
Aged(q) == [q EXCEPT !.disconnected = Older(@, AwayLimit),
                     !.sitOut = Older(@, AwayLimit), !.rebuy = Shorter(@)]

TimePasses ==
    /\ db.table.state # "CLOSED"
    /\ Commits([db EXCEPT
          !.table.pause = Shorter(@), !.table.empty = Older(@, EmptyLimit),
          !.hand.grace = Shorter(@),
          !.seats = [s \in Seats |-> Aged(@[s])]])
-----------------------------------------------------------------------------
\* CreateTable.
Init ==
    /\ scene \in Scenes
    /\ db = [table |-> [state |-> "WAITING", allow |-> TRUE, accepting |-> TRUE,
                        started |-> FALSE, button |-> 0, pause |-> 0, empty |-> -1,
                        previous |-> "NONE"],
             hand |-> [state |-> "SETTLED", grace |-> -1, players |-> [s \in {} |-> Nobody]],
             seats |-> [s \in Seats |-> FreeSeat],
             wallet |-> scene.purse,
             withheld |-> 0]
    /\ actor = "DOWN" /\ crashes = 0

PlayerCommand(s) ==
    \/ \E u \in Users, amount \in MinBuy..MaxBuy : s \in scene.seats /\ BuyIn(u, s, amount)
    \/ Connect(s) \/ Disconnect(s)
    \/ RequestSitOut(s) \/ ResumeSeat(s) \/ RequestSafeLeave(s)
    \/ \E amount \in 1..MaxBuy : TopUp(s, amount)
    \/ Act(s)
\* REMOVE_SPECTATOR and MUTE_CHAT_USER write nothing that these rules read.
HostCommand ==
    \/ \E accepting \in BOOLEAN : SetAccepting(accepting)
    \/ Pause \/ Resume \/ Close
    \/ \E s \in Seats : RemovePlayer(s)
Tick == Deal \/ TickTimeout \/ TickResume \/ TickBoundary \/ TickClose

Next ==
    \/ \E s \in Seats : PlayerCommand(s)
    \/ HostCommand \/ StartHand \/ Tick
    \/ Crash \/ StartActor \/ Hydrate \/ TimePasses

\* The ticker of a running actor fires every second, its deadlines end every
\* hand, a stopped service is started again, and time passes.
Fairness ==
    /\ WF_vars(Deal) /\ WF_vars(TickTimeout /\ ~HandOpen(db)')
    /\ WF_vars(TickResume) /\ WF_vars(TickBoundary) /\ WF_vars(TickClose)
    /\ WF_vars(StartActor) /\ WF_vars(Hydrate) /\ WF_vars(TimePasses)

Spec == Init /\ [][Next]_vars /\ Fairness
-----------------------------------------------------------------------------
(* Properties. *)

\* Buy-ins, top-ups, rebuys, pots, cash-outs and the asset cap only move chips:
\* what the players own, at the table or not, and what the cap withheld add up
\* to the chips they came with, also when a hand is cut short by a restart.
ChipsConserved ==
    LET atSeat == [s \in Seats |-> db.seats[s].stack + db.seats[s].committed]
    IN  SumFunctionOnSet(db.wallet, Users) + SumFunctionOnSet(atSeat, Seats) + db.withheld
            = SumFunctionOnSet(scene.purse, Users)

\* A player dealt into a hand keeps the seat until the hand is settled, whatever
\* is requested meanwhile (leaving, removal, closing, 15 minutes of absence); chips
\* are in a pot only while a hand is open; and what was deferred to its end does
\* not outlive it: a pending top-up or a request to leave is of a player in the hand.
HandKeepsPlayers ==
    /\ \A s \in Seats : ownsHand(db, s) => db.seats[s].user = db.hand.players[s]
    /\ \A s \in Seats : db.seats[s].committed > 0 => ownsHand(db, s)
    /\ \A s \in Seated(db) :
          db.seats[s].leave \/ db.seats[s].pending > 0 => ownsHand(db, s)

\* On a running table a waiting player enters a hand only as its big blind, as
\* engine.New deals it: nobody joins between button and blinds or skips a blind.
JoinsAsBigBlind ==
    [][\A s \in Seats :
          /\ ~HandOpen(db) /\ HandOpen(db') /\ db.table.started
          /\ ownsHand(db', s) /\ db.seats[s].state = "WAITING_BIG_BLIND"
          => \/ s = BigBlindSeat(db')
             \/ \A i \in DOMAIN db'.hand.players : db.seats[i].state = "WAITING_BIG_BLIND"]_vars

\* A player who busted, or sits out, does not hold the seat for ever: the seat is
\* taken up again or given back, unless a host or an administrator stops the table.
IdleSeatsFreed ==
    ~Offered("CONSOLE") /\ ~Offered("HOST") =>
    \A s \in Seats :
        db.seats[s].state \in {"REBUY_WINDOW", "SIT_OUT"}
            ~> db.seats[s].state \notin {"REBUY_WINDOW", "SIT_OUT"}

\* The design: an empty stack gets one rebuy window of 60 seconds ("Stack=0
\* enters a 60s Rebuy Window; ... on timeout Cash Out 0").  Refuted: a boundary
\* that finds the busted player away re-opens the window.
RebuyWindowFixed ==
    [][\A s \in Seats :
          /\ db.seats[s].state = "REBUY_WINDOW" /\ db'.seats[s].state = "REBUY_WINDOW"
          /\ db'.seats[s].user = db.seats[s].user
          => db'.seats[s].rebuy <= db.seats[s].rebuy]_vars

\* The design: the automatic leave follows 15 continuous minutes of sitting out or
\* of disconnection.  Refuted: a player who was away when the stack was lost,
\* came back, rebought and plays, is cashed out by the old sit-out time.
PlayersKeepSeat ==
    [][\A s \in Seats :
          /\ ownsHand(db, s) /\ Connected(db.seats[s]) /\ db.seats[s].state = "ACTIVE"
          /\ ~CloseRequested(db) /\ ~CloseRequested(db')
          => db'.seats[s].user = db.seats[s].user]_vars

\* The design: 15 continuous minutes of disconnection without an open hand end in
\* an automatic leave.  Refuted: a restart during a hand leaves the players who
\* are not in it marked connected, although no socket of theirs exists.
DisconnectedLeave ==
    \A s \in Seats, u \in Users :
        []<>(db.seats[s].user = u => db.seats[s].control)
=============================================================================
