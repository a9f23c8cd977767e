---------------------------- MODULE PressureRules ----------------------------
(***************************************************************************)
(* The rules for three to six players of internal/roulette/pressure.go.    *)
(* The pool is shuffled when it is prepared and drawn from the front, so   *)
(* only how many live and dud rounds it holds is kept and a draw picks     *)
(* any; a chamber's revealed text is kept as the fact that it was spent.   *)
(* Operators that draw from the random stream return the set of results.   *)
(***************************************************************************)
EXTENDS Integers, Sequences, FiniteSets, SequencesExt

CONSTANTS
    Chambers,       \* 6 in the code
    PoolSize,       \* 9 in the code
    PoolDuds,       \* duds of a new pool, 1..3 in the code
    PressureSeats,  \* the seats of the room, 0-based
    MaxCharge       \* bound on the charge a player collects

ASSUME PressureAssumption ==
    /\ Chambers \in Nat \ {0}
    /\ PoolSize \in Nat /\ PoolDuds \subseteq 0..PoolSize
    /\ PressureSeats \subseteq Nat /\ IsFiniteSet(PressureSeats) /\ Cardinality(PressureSeats) >= 2

NoSeat == -1
Slots == 0..(Chambers - 1)
Bullets(p) == Cardinality({i \in Slots : p.gun[i] # "empty"})
GunDuds(p) == Cardinality({i \in Slots : p.gun[i] = "dud"})
PoolLeft(p) == p.live + p.dud
Alive(p) == ToSet(p.alive)

\* draw then spin: every way to put n rounds of the pool, with the ones in the
\* gun, into a cylinder that shows nothing.
Cylinder(total, duds) ==
    {g \in [Slots -> {"empty", "live", "dud"}] :
        /\ Cardinality({i \in Slots : g[i] # "empty"}) = total
        /\ Cardinality({i \in Slots : g[i] = "dud"}) = duds}
spin(p, total, duds) ==
    {[p EXCEPT !.gun = g, !.spent = {}, !.pointer = 0] : g \in Cylinder(total, duds)}
Drawn(p, n) == {d \in 0..n : d <= p.dud /\ n - d <= p.live}
Taken(p, n, d) == [p EXCEPT !.live = @ - (n - d), !.dud = @ - d]
drawSpin(p, n) ==
    UNION {spin(Taken(p, n, d), Bullets(p) + n, GunDuds(p) + d) : d \in Drawn(p, n)}

preparePool(p) == {[p EXCEPT !.live = PoolSize - d, !.dud = d] : d \in PoolDuds}

\* reload: one round goes into a chamber not spent yet, or the cylinder is spun.
reload(p) ==
    IF p.spent = Slots THEN drawSpin(p, 1)
    ELSE {[Taken(p, 1, d) EXCEPT !.gun[i] = IF d = 1 THEN "dud" ELSE "live"]
          : d \in Drawn(p, 1), i \in Slots \ p.spent}

newPressure ==
    UNION {drawSpin(q, 1) : q \in UNION {preparePool(
        [alive |-> order, turn |-> order[1], phase |-> "FIRE", live |-> 0, dud |-> 0,
         gun |-> [i \in Slots |-> "empty"], spent |-> {}, pointer |-> 0, charge |-> 0,
         debtOwner |-> NoSeat, debt |-> 0, aggressor |-> NoSeat, holder |-> NoSeat,
         ripInitiator |-> NoSeat, ripTarget |-> NoSeat, unloadUsed |-> {}, forfeited |-> {},
         votes |-> {}, resumeMode |-> "", ended |-> FALSE, eligible |-> {}])
        : order \in SetToSeqs(PressureSeats)}}

\* The place of a seat in the order of play, who follows it, and the order without it:
\* DeleteFunc takes out every place of the seat, and a seat has one (validPressure).
Place(order, seat) == CHOOSE i \in DOMAIN order : order[i] = seat
next(p, seat) == p.alive[(Place(p.alive, seat) % Len(p.alive)) + 1]
Without(order, seat) == RemoveAt(order, Place(order, seat))

forced(p) == IF p.charge >= 2 THEN 2 ELSE 1
loadCount(p) ==
    CHOOSE n \in {1 + p.charge, Chambers - Bullets(p), PoolLeft(p)} :
        n <= 1 + p.charge /\ n <= Chambers - Bullets(p) /\ n <= PoolLeft(p)
debtOf(p, seat) == IF p.debtOwner = seat THEN p.debt ELSE 0
clearDebt(p, seat) ==
    IF p.debtOwner = seat THEN [p EXCEPT !.debt = 0, !.debtOwner = NoSeat] ELSE p

pressureFinish(p) == [p EXCEPT !.ended = TRUE, !.phase = "ENDED", !.eligible = Alive(p)]

\* Mutant: the riposte right of a player who is out is kept.
removeKeepsHolder(p, seat) ==
    LET s == [clearDebt(p, seat) EXCEPT !.alive = Without(@, seat),
                                        !.holder = IF @ = seat THEN NoSeat ELSE @]
    IN  IF Len(s.alive) <= 1 THEN pressureFinish(s) ELSE s
remove(p, seat) ==
    LET parties == {p.holder, p.aggressor}
        rips == {p.ripTarget, p.ripInitiator}
        s == [clearDebt(p, seat) EXCEPT
                !.alive = Without(@, seat),
                !.holder = IF seat \in parties THEN NoSeat ELSE @,
                !.aggressor = IF seat \in parties THEN NoSeat ELSE @,
                !.ripTarget = IF seat \in rips THEN NoSeat ELSE @,
                !.ripInitiator = IF seat \in rips THEN NoSeat ELSE @]
    IN  IF Len(s.alive) <= 1 THEN pressureFinish(s) ELSE s

pass(p) ==
    [p EXCEPT !.turn = next(p, @), !.charge = 0, !.phase = "FIRE",
              !.holder = IF @ = p.turn THEN NoSeat ELSE @,
              !.aggressor = IF p.holder = p.turn THEN NoSeat ELSE @]

\* resume: an empty gun is dealt with before the pending choice or forced pass.
resume(p, mode) ==
    LET go(q) == IF mode = "forcedPass" THEN pass(q) ELSE [q EXCEPT !.phase = mode]
    IN  IF p.ended THEN {p}
        ELSE IF Bullets(p) > 0 THEN {go(p)}
        ELSE IF PoolLeft(p) = 0
             THEN {[p EXCEPT !.phase = "VOTE", !.votes = {}, !.resumeMode = mode]}
        ELSE {go(q) : q \in reload(p)}

Act(kind, agree) == [kind |-> kind, agree |-> agree]
Plain(kinds) == {Act(kind, FALSE) : kind \in kinds}
pressureActions(p, seat) ==
    IF p.ended \/ seat \notin Alive(p) THEN {}
    ELSE IF p.phase = "VOTE"
         THEN IF seat \in p.votes THEN {} ELSE {Act("PRESSURE_VOTE", b) : b \in BOOLEAN}
    ELSE IF seat # p.turn THEN {}
    ELSE IF p.phase = "FIRE"
         THEN Plain({"PRESSURE_FIRE"}) \cup
              (IF p.ripTarget # NoSeat THEN {} ELSE Plain({"SURRENDER"})) \cup
              (IF p.ripTarget # NoSeat \/ seat \in p.unloadUsed THEN {} ELSE Plain({"PRESSURE_UNLOAD"}))
    ELSE IF p.phase = "CHOICE" /\ debtOf(p, seat) = 0
         THEN Plain({"PRESSURE_PASS", "PRESSURE_AGAIN"}) \cup
              (IF loadCount(p) > 0 THEN Plain({"PRESSURE_CHARGE"}) ELSE {}) \cup
              (IF p.ripTarget = NoSeat /\ p.holder = seat /\ p.aggressor \in Alive(p)
               THEN Plain({"PRESSURE_RIPOSTE"}) ELSE {})
    ELSE {}

shot(p, unload) ==
    LET seat == p.turn
        bullet == p.gun[p.pointer]
        hit == bullet = "live"
        s == [p EXCEPT !.gun[p.pointer] = "empty", !.spent = @ \cup {p.pointer},
                       !.pointer = (@ + 1) % Chambers, !.charge = IF hit THEN 0 ELSE @]
        \* The shot of a riposte: the initiator is skipped.
        afterRip == IF hit /\ next(s, s.ripInitiator) = seat THEN next(s, seat)
                    ELSE next(s, s.ripInitiator)
        ripped == [s EXCEPT !.ripTarget = NoSeat, !.ripInitiator = NoSeat, !.turn = afterRip]
        paid == IF debtOf(s, seat) = 0 THEN s
                ELSE [s EXCEPT !.debt = @ - 1, !.debtOwner = IF s.debt = 1 THEN NoSeat ELSE @]
    IN  IF s.ripTarget # NoSeat
        THEN resume(IF hit THEN remove(ripped, seat) ELSE ripped,
                    IF hit \/ afterRip # seat THEN "FIRE" ELSE "CHOICE")
        ELSE IF hit THEN resume([remove(paid, seat) EXCEPT !.turn = next(paid, seat)], "FIRE")
        ELSE resume(paid, IF debtOf(paid, seat) > 0 THEN "FIRE"
                          ELSE IF unload THEN "forcedPass" ELSE "CHOICE")

charge(p, seat) ==
    LET heir == next(p, seat)
    IN  {[pass(q) EXCEPT !.aggressor = seat, !.holder = heir,
                         !.debtOwner = IF forced(p) = 2 THEN heir ELSE NoSeat,
                         !.debt = IF forced(p) = 2 THEN 2 ELSE 0] : q \in drawSpin(p, loadCount(p))}

\* A round of either kind is thrown away, the cylinder is spun; the last forced
\* shot is then skipped, any other shot is taken.
unload(p, seat) ==
    LET s == [clearDebt(p, seat) EXCEPT !.unloadUsed = @ \cup {seat}, !.charge = 0]
        left == {d \in {0, 1} : d <= GunDuds(p) /\ 1 - d <= Bullets(p) - GunDuds(p)}
        spun == IF Bullets(p) = 0 THEN spin(s, 0, 0)
                ELSE UNION {spin(s, Bullets(p) - 1, GunDuds(p) - d) : d \in left}
    IN  UNION {IF debtOf(p, seat) = 1 THEN resume(q, "forcedPass") ELSE shot(q, TRUE) : q \in spun}

riposte(p, seat) ==
    [p EXCEPT !.ripInitiator = seat, !.ripTarget = p.aggressor, !.turn = p.aggressor,
              !.aggressor = NoSeat, !.holder = NoSeat, !.charge = 0, !.phase = "FIRE"]

surrender(p, seat) ==
    resume([remove([p EXCEPT !.forfeited = @ \cup {seat}, !.charge = 0], seat)
               EXCEPT !.turn = next(p, seat)], "FIRE")

vote(p, seat, agree) ==
    LET voted == [p EXCEPT !.votes = @ \cup {seat}]
    IN  IF agree THEN {IF voted.votes = Alive(p) THEN pressureFinish(voted) ELSE voted}
        ELSE UNION {resume(q, p.resumeMode) :
                       q \in UNION {drawSpin(w, 1) :
                           w \in preparePool([p EXCEPT !.resumeMode = "", !.votes = {}])}}

\* The action the worker takes for the player whose turn has expired.
timeoutAction(p) ==
    Act(IF p.phase = "CHOICE" /\ debtOf(p, p.turn) = 0 THEN "PRESSURE_PASS" ELSE "PRESSURE_FIRE", FALSE)

pressureMove(p, seat, a) ==
    CASE a.kind = "PRESSURE_FIRE" -> shot(p, FALSE)
      [] a.kind = "PRESSURE_PASS" -> {pass(p)}
      [] a.kind = "PRESSURE_AGAIN" -> {[p EXCEPT !.charge = @ + 1, !.phase = "FIRE"]}
      [] a.kind = "PRESSURE_CHARGE" -> charge(p, seat)
      [] a.kind = "PRESSURE_UNLOAD" -> unload(p, seat)
      [] a.kind = "PRESSURE_RIPOSTE" -> {riposte(p, seat)}
      [] a.kind = "SURRENDER" -> surrender(p, seat)
      [] a.kind = "PRESSURE_VOTE" -> vote(p, seat, a.agree)

\* applyPressure: no result means ErrActionInvalid.
applyPressure(p, seat, a) ==
    CASE a.kind = "GAME_LIMIT" -> {pressureFinish(p)}
      [] a.kind = "TIMEOUT" ->
            IF seat # p.turn THEN {}
            ELSE IF p.phase = "VOTE" THEN {pressureFinish([p EXCEPT !.votes = Alive(p)])}
            ELSE IF timeoutAction(p) \notin pressureActions(p, seat) THEN {}
            ELSE pressureMove(p, seat, timeoutAction(p))
      [] OTHER -> IF a \notin pressureActions(p, seat) THEN {} ELSE pressureMove(p, seat, a)

\* validHiddenState for this game: what load insists on.
validPressure(p) ==
    /\ p.turn \in PressureSeats /\ p.pointer \in Slots
    /\ Alive(p) \subseteq PressureSeats /\ Cardinality(Alive(p)) = Len(p.alive)
    /\ ~p.ended => Len(p.alive) >= 2 /\ p.turn \in Alive(p)
    /\ p.ended = (p.phase = "ENDED") /\ p.phase \in {"FIRE", "CHOICE", "VOTE", "ENDED"}
    /\ p.resumeMode \in {"", "FIRE", "CHOICE", "forcedPass"}
    /\ p.live >= 0 /\ p.dud >= 0 /\ PoolLeft(p) <= PoolSize
    /\ p.debt \in 0..2 /\ (p.debtOwner = NoSeat) = (p.debt = 0)
    /\ (p.ripTarget = NoSeat) = (p.ripInitiator = NoSeat)
    /\ (p.aggressor = NoSeat) = (p.holder = NoSeat)
    /\ \A i \in p.spent : p.gun[i] = "empty"
    /\ p.phase = "VOTE" => Bullets(p) = 0 /\ PoolLeft(p) = 0 /\ p.resumeMode # ""
    /\ p.votes \subseteq Alive(p)
    /\ p.eligible \subseteq Alive(p) /\ (p.eligible # {} => p.ended)
=============================================================================
