---------------------------- MODULE PokerEngine ----------------------------
(***************************************************************************)
(* The single-hand engine of internal/poker/engine: blinds, betting with   *)
(* short all-ins, streets, side pots, odd chips, action deadlines,         *)
(* disconnection and the recovery of a hand after a restart.               *)
(*                                                                         *)
(* Amounts are whole chips.  The cards are abstracted to the ranking of    *)
(* the hands at showdown, chosen when the engine calls its evaluator.      *)
(* Clocks are abstracted to two flags: late (the actor's deadline has      *)
(* passed) and recovery (the reconnect grace is running or over).  Hand    *)
(* versions are abstracted away: every accepted operation emits an event   *)
(* and so advances the version, hence an action composed on an older       *)
(* version, or delivered a second time, is refused and changes nothing.    *)
(***************************************************************************)
EXTENDS Integers, FiniteSets, FiniteSetsExt, Functions

CONSTANTS
    Seats,          \* the seats of the table, numbered within 1..9
    Stacks,         \* the stacks a player can bring to the hand
    SmallBlind, BigBlind,
    Rankings,       \* outcomes of the evaluator: [Seats -> strength]
    Flaky,          \* the seats whose connection drops and returns
    MaxRestarts     \* bound on the restarts of the service during a hand

ASSUME EngineAssumption ==
    /\ Seats \subseteq 1..9 /\ Flaky \subseteq Seats
    /\ Stacks \subseteq Nat \ {0}
    /\ SmallBlind \in Nat \ {0} /\ BigBlind = 2 * SmallBlind
    /\ \A r \in Rankings : \A i \in Seats : r[i] \in Nat
    /\ MaxRestarts \in Nat

VARIABLES hand, restarts
vars == <<hand, restarts>>

Streets == {"PREFLOP", "FLOP", "TURN", "RIVER", "SETTLED"}
ActionKinds == {"FOLD", "CHECK", "CALL", "BET", "RAISE", "ALL_IN"}

In(s) == DOMAIN s.players
Live(s) == {i \in In(s) : ~s.players[i].folded}
Active(s) == {i \in Live(s) : s.players[i].stack > 0}
Highest(f, S) == Max({0} \cup {f[i] : i \in S})

\* nextSeat: the first of the seats S clockwise after a seat, 0 when S is empty.
nextSeat(S, after) ==
    LET above == {i \in S : i > after}
    IN  IF S = {} THEN 0 ELSE IF above # {} THEN Min(above) ELSE Min(S)

\* The hand as New finds it, before the blinds.
Fresh(stacks, button) ==
    [street |-> "COMMITTED", button |-> button, actor |-> 0,
     currentBet |-> 0, lastFullRaise |-> BigBlind, fullRaises |-> 0,
     late |-> FALSE, recovery |-> "NONE", pots |-> {},
     returned |-> [i \in DOMAIN stacks |-> 0], rank |-> [i \in {} |-> 0],
     players |-> [i \in DOMAIN stacks |->
        [initial |-> stacks[i], stack |-> stacks[i], street |-> 0, total |-> 0,
         paid |-> 0, folded |-> FALSE, acted |-> -1, pending |-> TRUE,
         timeouts |-> 0, timeoutOut |-> FALSE, gone |-> FALSE, goneOut |-> FALSE]]]

Update(s, i, p) == [s EXCEPT !.players[i] = p]
UpdateAll(s, f(_)) == [s EXCEPT !.players = [i \in In(s) |-> f(s.players[i])]]

\* commit: chips move from the stack to the pot; an empty stack cannot act.
commit(p, delta) ==
    [p EXCEPT !.stack = @ - delta, !.street = @ + delta, !.total = @ + delta,
              !.paid = @ + delta, !.pending = @ /\ p.stack # delta]

\* setActor: a new actor gets a whole decision window.
setActor(s, seat) == [s EXCEPT !.actor = seat, !.late = FALSE]
-----------------------------------------------------------------------------
(* legal: what the actor may do. *)

ToCall(s) == Max({0, s.currentBet - s.players[s.actor].street})
MaximumRaiseTo(s) == s.players[s.actor].stack + s.players[s.actor].street
MinimumRaiseTo(s) == s.currentBet + s.lastFullRaise

\* Mutant: every increase of the bet reopens the raising.
RaiseRightsAlways(s) ==
    Active(s) \ {s.actor} # {} /\ MaximumRaiseTo(s) > s.currentBet
\* A player may raise once per full raise, against someone who can answer.
RaiseRights(s) ==
    /\ s.players[s.actor].acted < s.fullRaises
    /\ Active(s) \ {s.actor} # {}
    /\ MaximumRaiseTo(s) > s.currentBet

legalActions(s) ==
    IF s.actor = 0 \/ s.street = "SETTLED" \/ s.recovery # "NONE" THEN {}
    ELSE {"FOLD"}
         \cup {k \in {"CHECK"} : ToCall(s) = 0}
         \cup {k \in {"CALL"} : ToCall(s) > 0}
         \cup {k \in {"BET"} : RaiseRights(s) /\ s.currentBet = 0 /\ MaximumRaiseTo(s) >= BigBlind}
         \cup {k \in {"RAISE"} : RaiseRights(s) /\ s.currentBet > 0
                                 /\ MaximumRaiseTo(s) >= MinimumRaiseTo(s)}
         \cup {k \in {"ALL_IN"} : s.players[s.actor].stack > 0
                                  /\ (MaximumRaiseTo(s) <= s.currentBet \/ RaiseRights(s))}

\* The amounts a bet or a raise may go to; every other kind carries none.
LegalTargets(s, kind) ==
    CASE kind = "BET" -> BigBlind..MaximumRaiseTo(s)
      [] kind = "RAISE" -> MinimumRaiseTo(s)..MaximumRaiseTo(s)
      [] OTHER -> {0}
-----------------------------------------------------------------------------
(* settle: uncalled chips go back, the rest is divided into side pots.      *)

\* Mutant: the lowest commitment is taken for the second highest.
UncalledOverLowest(s) ==
    LET totals == {s.players[i].total : i \in In(s)} IN Max(totals) - Min(totals)
\* What the seats have put in, the highest of it, and who did.
Totals(s) == [i \in In(s) |-> s.players[i].total]
Top(s) == Highest(Totals(s), In(s))
Leaders(s) == LET top == Top(s) IN {i \in In(s) : s.players[i].total = top}
\* What a single highest commitment exceeds the second highest by.
Uncalled(s) ==
    IF Cardinality(Leaders(s)) = 1 THEN Top(s) - Highest(Totals(s), In(s) \ Leaders(s)) ELSE 0

ReturnUncalled(s) ==
    LET i == CHOOSE j \in In(s) : j \in Leaders(s)
        amount == Uncalled(s)
    IN  IF amount = 0 THEN s
        ELSE [s EXCEPT !.returned[i] = amount,
                       !.players[i].stack = @ + amount,
                       !.players[i].total = @ - amount,
                       !.players[i].street = @ - Min({@, amount})]

\* Clockwise distance from the button; the button itself comes last.
Distance(s, i) == IF i = s.button THEN 9 ELSE (i - s.button + 9) % 9

\* Base share and odd chips, handed out clockwise from the button's left.
Award(s, amount, winners, i) ==
    LET n == Cardinality(winners)
        before == {j \in winners : Distance(s, j) < Distance(s, i)}
    IN  IF i \notin winners THEN 0
        ELSE amount \div n + (IF Cardinality(before) < amount % n THEN 1 ELSE 0)

\* Unfolded seats that paid up to the ceiling of a pot, and the best hands among them.
Eligible(s, ceiling) == {i \in Live(s) : s.players[i].total >= ceiling}
Winners(s, ceiling) ==
    LET eligible == Eligible(s, ceiling) IN {i \in eligible : \A j \in eligible : s.rank[j] <= s.rank[i]}

\* The levels of the commitments, the next below one, and the pot between the two.
Levels(s) == {s.players[i].total : i \in In(s)} \ {0}
Floor(s, ceiling) == Max({0} \cup {l \in Levels(s) : l < ceiling})
Amount(s, ceiling) ==
    (ceiling - Floor(s, ceiling)) * Cardinality({i \in In(s) : s.players[i].total >= ceiling})
Pot(s, ceiling) ==
    LET amount == Amount(s, ceiling)
        winners == Winners(s, ceiling)
    IN  [floor |-> Floor(s, ceiling), ceiling |-> ceiling, amount |-> amount,
         eligible |-> Eligible(s, ceiling),
         awards |-> [i \in In(s) |-> IF winners = {} THEN 0 ELSE Award(s, amount, winners, i)]]

PotsOf(s) == {Pot(s, l) : l \in Levels(s)}

Awarded(s, i) == SumFunctionOnSet([p \in s.pots |-> p.awards[i]], s.pots)

\* Mutant: a player who is away when the hand ends is not sat out.
CleanUpForgetful(p) == [p EXCEPT !.total = 0, !.street = 0, !.pending = FALSE]
CleanUp(p) == [p EXCEPT !.total = 0, !.street = 0, !.pending = FALSE, !.goneOut = @ \/ p.gone]

PayOut(s) ==
    LET paid == [i \in In(s) |-> CleanUp([s.players[i] EXCEPT !.stack = @ + Awarded(s, i)])]
    IN  [s EXCEPT !.players = paid, !.actor = 0, !.currentBet = 0, !.late = FALSE,
                  !.street = "SETTLED"]

\* evaluate is called for the unfolded seats if there are two or more of them.
evaluate(s) ==
    IF Cardinality(Live(s)) = 1 THEN {[i \in In(s) |-> 0]}
    ELSE {[i \in In(s) |-> r[i]] : r \in Rankings}
Showdown(s, rank) == [ReturnUncalled(s) EXCEPT !.rank = rank]
Divide(s) == [s EXCEPT !.pots = PotsOf(s)]
settle(s) == {PayOut(Divide(n)) : n \in {Showdown(s, rank) : rank \in evaluate(s)}}
-----------------------------------------------------------------------------
(* progress: who acts next, or the next street, or the settlement.  From    *)
(* here on an operator yields the set of hands its input can lead to, with  *)
(* one member unless the evaluator decides.                                 *)

FollowingStreet == [PREFLOP |-> "FLOP", FLOP |-> "TURN", TURN |-> "RIVER"]

\* Mutant: the bet of the finished street stays.
nextStreetKeepsBet(s) ==
    [UpdateAll(s, LAMBDA p : [p EXCEPT !.street = 0, !.acted = -1,
                                       !.pending = ~p.folded /\ p.stack > 0])
        EXCEPT !.street = FollowingStreet[@], !.lastFullRaise = BigBlind, !.fullRaises = 0]
nextStreet(s) ==
    [UpdateAll(s, LAMBDA p : [p EXCEPT !.street = 0, !.acted = -1,
                                       !.pending = ~p.folded /\ p.stack > 0])
        EXCEPT !.street = FollowingStreet[@], !.currentBet = 0,
               !.lastFullRaise = BigBlind, !.fullRaises = 0]

\* All but one are all in, and the one has nothing left to call.
Runout(s) ==
    /\ Cardinality(Active(s)) <= 1
    /\ \A lone \in Active(s), i \in In(s) : s.players[i].street <= s.players[lone].street

PendingSeats(s) == {i \in Active(s) : s.players[i].pending}
Decided(s) == Cardinality(Live(s)) = 1 \/ Runout(s)

\* The round that ends the loop of progress: the hands it can lead to.
Conclude(s, after) ==
    IF Decided(s) \/ (PendingSeats(s) = {} /\ s.street = "RIVER") THEN settle(s)
    ELSE {setActor(s, nextSeat(PendingSeats(s), after))}

\* Nobody who folded or is all in has to act.
ClearPending(s) == UpdateAll(s, LAMBDA p : [p EXCEPT !.pending = @ /\ p.stack # 0 /\ ~p.folded])

\* The loop: after a new street every unfolded seat with chips is pending, so
\* its second round is the last.
progress(s, after) ==
    UNION {IF Decided(n) \/ PendingSeats(n) # {} \/ n.street = "RIVER" THEN Conclude(n, after)
           ELSE UNION {Conclude(m, s.button) : m \in {nextStreet(n)}} :
             n \in {ClearPending(s)}}
-----------------------------------------------------------------------------
(* validate, validateAccounting: the audit that every new state must pass.  *)

ExpectedBet(s) ==
    LET street == [i \in In(s) |-> s.players[i].street]
    IN  Max({Highest(street, In(s)), IF s.street = "PREFLOP" THEN BigBlind ELSE 0})

ValidBetting(s) ==
    /\ s.currentBet = ExpectedBet(s)
    /\ s.actor \in PendingSeats(s)
    /\ s.pots = {} /\ \A i \in In(s) : s.returned[i] = 0

ValidSettlement(s) ==
    LET paid == [i \in In(s) |-> s.players[i].paid]
        net == [i \in In(s) |-> s.players[i].paid - s.returned[i]]
    IN  /\ s.actor = 0
        /\ \A i \in In(s) : s.players[i].total = 0 /\ s.players[i].street = 0
                            /\ ~s.players[i].pending /\ s.returned[i] \in 0..paid[i]
        /\ \A p \in s.pots :
              /\ p.eligible = {i \in Live(s) : net[i] >= p.ceiling} /\ p.eligible # {}
              /\ p.amount = (p.ceiling - p.floor) * Cardinality({i \in In(s) : net[i] >= p.ceiling})
              /\ SumFunctionOnSet(p.awards, In(s)) = p.amount
              /\ \A i \in In(s) : p.awards[i] > 0 =>
                    i \in p.eligible /\ \A j \in p.eligible : s.rank[j] <= s.rank[i]
        /\ SumFunctionOnSet(paid, In(s))
              = SumFunctionOnSet([p \in s.pots |-> p.amount], s.pots) + SumFunctionOnSet(s.returned, In(s))

validate(s) ==
    LET wealth == [i \in In(s) |-> s.players[i].stack + s.players[i].total]
        initial == [i \in In(s) |-> s.players[i].initial]
    IN  /\ SumFunctionOnSet(wealth, In(s)) = SumFunctionOnSet(initial, In(s))
        /\ \A i \in In(s) :
              LET p == s.players[i] IN
              /\ p.stack >= 0 /\ p.street \in 0..p.total /\ p.acted \in -1..s.fullRaises
              /\ p.paid <= p.initial
              /\ p.stack = p.initial - p.paid + s.returned[i] + Awarded(s, i)
              /\ s.street # "SETTLED" => p.total = p.paid
        /\ IF s.street = "SETTLED" THEN ValidSettlement(s) ELSE ValidBetting(s)

\* The possible results of an operation: an error leaves the hand as it was.
Refused(s) == [ok |-> FALSE, hand |-> s]
Results(s, candidates) ==
    {IF validate(n) THEN [ok |-> TRUE, hand |-> n] ELSE Refused(s) : n \in candidates}
-----------------------------------------------------------------------------
(* The operations of the engine. *)

PostBlind(s, seat, blind) ==
    Update(s, seat, commit(s.players[seat], Min({s.players[seat].stack, blind})))

\* Heads up the button posts the small blind.
SmallBlindSeat(s) == IF Cardinality(In(s)) = 2 THEN s.button ELSE nextSeat(In(s), s.button)

BigBlindSeat(s) == nextSeat(In(s), SmallBlindSeat(s))

Blinds(s) ==
    [PostBlind(PostBlind(s, SmallBlindSeat(s), SmallBlind), BigBlindSeat(s), BigBlind)
        EXCEPT !.street = "PREFLOP", !.currentBet = BigBlind]

New(s) == Results(s, progress(Blinds(s), BigBlindSeat(s)))

\* The street commitment an action leads to.
Target(s, kind, to) ==
    LET p == s.players[s.actor]
    IN  CASE kind = "CALL" -> p.street + Min({ToCall(s), p.stack})
          [] kind = "ALL_IN" -> p.street + p.stack
          [] kind \in {"BET", "RAISE"} -> to
          [] OTHER -> p.street

\* A bet above the current one: everyone who can answer it must.
RaiseTo(s, target) ==
    LET increment == target - s.currentBet
        full == increment >= s.lastFullRaise
    IN  IF target <= s.currentBet THEN s
        ELSE [s EXCEPT !.currentBet = target,
                       !.fullRaises = IF full THEN @ + 1 ELSE @,
                       !.lastFullRaise = IF full THEN increment ELSE @,
                       !.players = [i \in In(s) |-> [s.players[i] EXCEPT !.pending =
                           @ \/ (i # s.actor /\ i \in Active(s) /\ s.players[i].street < target)]]]

\* Mutant: the actor stays pending after a check.
MarkActedCheckPending(p, kind, fullRaises, timeout) ==
    [p EXCEPT !.pending = kind = "CHECK", !.acted = fullRaises,
              !.timeouts = IF timeout THEN @ + 1 ELSE 0,
              !.timeoutOut = @ \/ (timeout /\ p.timeouts + 1 >= 2)]
MarkActed(p, kind, fullRaises, timeout) ==
    [p EXCEPT !.pending = FALSE, !.acted = fullRaises,
              !.timeouts = IF timeout THEN @ + 1 ELSE 0,
              !.timeoutOut = @ \/ (timeout /\ p.timeouts + 1 >= 2)]

\* The hand after the actor's own part of an action.
MoveChips(s, kind, target) ==
    LET p == s.players[s.actor]
    IN  Update(s, s.actor, commit([p EXCEPT !.folded = @ \/ kind = "FOLD"], target - p.street))
Record(s, kind, timeout) ==
    Update(s, s.actor, MarkActed(s.players[s.actor], kind, s.fullRaises, timeout))
Played(s, kind, target, timeout) ==
    Record(RaiseTo(MoveChips(s, kind, target), target), kind, timeout)

apply(s, kind, to, timeout) ==
    IF /\ kind \in legalActions(s) /\ to \in LegalTargets(s, kind)
       /\ ~timeout => ~s.late
    THEN Results(s, progress(Played(s, kind, Target(s, kind, to), timeout), s.actor))
    ELSE {Refused(s)}

\* Timeout: the actor whose window is over checks if that is free, else folds.
TimeoutKind(s) == IF ToCall(s) = 0 THEN "CHECK" ELSE "FOLD"

Resume(s) == setActor([s EXCEPT !.recovery = "NONE"], s.actor)

SetConnected(s, i, connected) ==
    LET p == s.players[i]
        settled == s.street = "SETTLED"
    IN  Update(s, i, [p EXCEPT !.gone = ~connected,
                               !.goneOut = IF connected THEN @ /\ settled ELSE @ \/ settled])

\* ShortcutTargets: the raise buttons offered to the actor, as <<kind, target>>.
Shortcut(s, minimum, target) ==
    LET to == Min({Max({target, minimum}), MaximumRaiseTo(s)})
    IN  <<IF to < minimum \/ to = MaximumRaiseTo(s) THEN "ALL_IN"
          ELSE IF s.currentBet = 0 THEN "BET" ELSE "RAISE", to>>

ShortcutTargets(s) ==
    LET minimum == IF s.currentBet = 0 THEN BigBlind ELSE MinimumRaiseTo(s)
        pot == SumFunctionOnSet(Totals(s), In(s)) + ToCall(s)
        portions == {pot \div 2, (pot \div 3) * 2 + ((pot % 3) * 2) \div 3, pot}
    IN  IF legalActions(s) = {} \/ ~RaiseRights(s) THEN {}
        ELSE {Shortcut(s, minimum, minimum), <<"ALL_IN", MaximumRaiseTo(s)>>}
             \cup {Shortcut(s, minimum, s.currentBet + x) : x \in portions}
-----------------------------------------------------------------------------
(* The hand as its table drives it. *)

Running == hand.street \in Streets \ {"SETTLED"}

\* prepareHand froze the participants and the button; New deals the hand.
Deal ==
    /\ hand.street = "COMMITTED"
    /\ \E r \in New(hand) : r.ok /\ hand' = r.hand
    /\ UNCHANGED restarts

\* An action of the actor on the current version, before the deadline.
Act(kind) ==
    /\ Running
    /\ kind \in legalActions(hand)
    /\ \E to \in LegalTargets(hand, kind) :
          \E r \in apply(hand, kind, to, FALSE) : r.ok /\ hand' = r.hand
    /\ UNCHANGED restarts

\* The clock of the actor runs out.
Expire ==
    /\ Running /\ ~hand.late
    /\ hand' = [hand EXCEPT !.late = TRUE]
    /\ UNCHANGED restarts

Timeout ==
    /\ Running /\ hand.late /\ hand.recovery = "NONE"
    /\ \E r \in apply(hand, TimeoutKind(hand), 0, TRUE) : r.ok /\ hand' = r.hand
    /\ UNCHANGED restarts

Connection(i) ==
    /\ hand.street \in Streets /\ i \in In(hand)
    /\ hand' = SetConnected(hand, i, hand.players[i].gone)
    /\ UNCHANGED restarts

\* The service restarts and reconstructs the hand: BeginRecovery.
Restart ==
    /\ Running /\ hand.recovery = "NONE" /\ restarts < MaxRestarts
    /\ hand' = [hand EXCEPT !.recovery = "GRACE"]
    /\ restarts' = restarts + 1

GracePasses ==
    /\ hand.recovery = "GRACE"
    /\ hand' = [hand EXCEPT !.recovery = "OVER"]
    /\ UNCHANGED restarts

ResumeHand ==
    /\ hand.recovery = "OVER"
    /\ hand' = Resume(hand)
    /\ UNCHANGED restarts

Init ==
    /\ \E P \in SUBSET Seats :
          /\ Cardinality(P) >= 2
          /\ \E stacks \in [P -> Stacks], button \in P : hand = Fresh(stacks, button)
    /\ restarts = 0

Next ==
    \/ Deal
    \/ \E kind \in ActionKinds : Act(kind)
    \/ Expire \/ Timeout
    \/ \E i \in Flaky : Connection(i)
    \/ Restart \/ GracePasses \/ ResumeHand

\* The table actor's ticker deals, fires deadlines and resumes; time passes.
Fairness ==
    /\ WF_vars(Deal) /\ WF_vars(Expire) /\ WF_vars(Timeout)
    /\ WF_vars(GracePasses) /\ WF_vars(ResumeHand)

Spec == Init /\ [][Next]_vars /\ Fairness
-----------------------------------------------------------------------------
(* Properties. *)

\* What the engine offers it accepts: dealing, every legal action with every
\* legal amount, and the timeout lead to a state that passes the engine's own
\* audit, whatever the showdown.  An action the audit refuses would leave the
\* actor unable to move and the table stuck with the chips in the pot.  Every raise
\* button of the interface is such an action with exactly its target ("it never
\* substitutes a call for an illegal raise").
LegalAccepted ==
    /\ hand.street = "COMMITTED" => \A r \in New(hand) : r.ok
    /\ Running /\ hand.recovery = "NONE" =>
          IF hand.late THEN \A r \in apply(hand, TimeoutKind(hand), 0, TRUE) : r.ok
          ELSE \A kind \in legalActions(hand) : \A to \in LegalTargets(hand, kind) :
                  \A r \in apply(hand, kind, to, FALSE) : r.ok
    /\ \A x \in ShortcutTargets(hand) :
          /\ x[1] \in legalActions(hand)
          /\ IF x[1] = "ALL_IN" THEN x[2] = MaximumRaiseTo(hand)
             ELSE x[2] \in LegalTargets(hand, x[1])

\* The settlement against the rules of table stakes: no seat draws more from an
\* opponent than it paid itself, a folded seat draws nothing, a hand strictly
\* better than every other live hand takes all that it covers, and equal hands
\* with equal payments differ by no more than the odd chips.
FairSettlement ==
    hand.street = "SETTLED" =>
    \A i \in In(hand) :
       LET paid(j) == hand.players[j].paid
           covered == SumFunctionOnSet([j \in In(hand) |-> Min({paid(i), paid(j)})], In(hand))
           got(j) == hand.players[j].stack - (hand.players[j].initial - paid(j))
           alone == \A j \in Live(hand) \ {i} : hand.rank[j] < hand.rank[i]
       IN  /\ got(i) <= covered
           /\ hand.players[i].folded => got(i) = 0
           /\ ~hand.players[i].folded /\ alone => got(i) = covered
           /\ \A j \in Live(hand) :
                 i \in Live(hand) /\ hand.rank[i] = hand.rank[j] /\ paid(i) = paid(j)
                 => got(i) - got(j) <= Cardinality(hand.pots)

\* A seat that has already acted on a street raises again only if the bet has
\* since grown by at least a big blind above its own: short all-ins alone do not
\* reopen the raising.
ReopenedByFullRaise ==
    [][/\ Running /\ hand'.street = hand.street /\ hand'.currentBet > hand.currentBet
       /\ hand.players[hand.actor].acted # -1
       => hand.currentBet - hand.players[hand.actor].street >= BigBlind]_vars

\* Absence costs what it should: whoever is away when a hand ends, or leaves
\* afterwards, does not take part in the next one; and after a restart the actor
\* gets a whole new window, with no deadline from before the recovery or passed
\* during it charged.
AbsenceCharged ==
    /\ [](hand.street = "SETTLED" =>
            \A i \in In(hand) : hand.players[i].gone => hand.players[i].goneOut)
    /\ [][hand.recovery # "NONE" /\ hand'.recovery = "NONE"
          => ~hand'.late /\ hand'.players = hand.players]_vars

\* Every hand is settled, whatever the players and their connections do.
HandSettles == <>(hand.street = "SETTLED")
=============================================================================
