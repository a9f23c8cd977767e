---------------------------- MODULE RouletteRules ----------------------------
(***************************************************************************)
(* The dispatch of internal/roulette/service.go to the rules of the two    *)
(* games: initRule, applyRule, ruleTurn, ruleResult, and the check that    *)
(* play makes on what a move leaves behind.                                *)
(***************************************************************************)
EXTENDS DevilRules, PressureRules

VARIABLE rule       \* the game and its hidden state, [game |-> "none"] when nothing is played

NoRule == [game |-> "none"]

initRule == {[game |-> "devil", state |-> d] : d \in newDevil}
            \cup {[game |-> "pressure", state |-> p] : p \in newPressure}

Timeout == [kind |-> "TIMEOUT"]
GameLimit == [kind |-> "GAME_LIMIT"]

applyRule(r, seat, a) ==
    IF r.game = "devil"
    THEN {[r EXCEPT !.state = d] : d \in applyDevil(r.state, seat, a)}
    ELSE {[r EXCEPT !.state = p] : p \in applyPressure(r.state, seat, a)}

ruleActions(r, seat) ==
    IF r.game = "devil" THEN devilActions(r.state, seat) ELSE pressureActions(r.state, seat)
RuleSeats(r) == IF r.game = "devil" THEN DevilSeats ELSE PressureSeats
validHiddenState(r) == IF r.game = "devil" THEN validDevil(r.state) ELSE validPressure(r.state)

\* The players who can still be paid: not shot, not given up.
Survivors(r) == IF r.game = "devil" THEN DevilSeats \ Lost(r.state) ELSE Alive(r.state)

RuleInit == rule \in initRule

\* A move of a player, as play accepts it; the bound on the charge is the model's.
RuleMove ==
    /\ rule.game # "none"
    /\ \E seat \in RuleSeats(rule) : \E a \in ruleActions(rule, seat) :
          /\ a.kind = "PRESSURE_AGAIN" => rule.state.charge < MaxCharge
          /\ rule' \in applyRule(rule, seat, a)

\* The worker's move for the player whose deadline has passed.
RuleExpire ==
    /\ rule.game # "none" /\ ~rule.state.ended
    /\ \E a \in {Timeout, GameLimit} : rule' \in applyRule(rule, rule.state.turn, a)

RuleNext == RuleMove \/ RuleExpire

RuleSpec == RuleInit /\ [][RuleNext]_rule

(***************************************************************************)
(* Every hidden state a game reaches passes validHiddenState, so that no   *)
(* saved room is refused by load; an ended game has somebody to pay and    *)
(* pays survivors only; and in a game that goes on the player to act has   *)
(* a legal move and the worker's default move is one the rules accept.     *)
(* Were it refused, due would return an error each time: the round never   *)
(* ends, and StepDue stops at it and serves no other room.                 *)
(***************************************************************************)
RuleAccepts ==
    rule.game # "none" =>
        /\ validHiddenState(rule)
        /\ rule.state.eligible \subseteq Survivors(rule)
        /\ rule.state.ended = (rule.state.eligible # {})
        /\ ~rule.state.ended =>
              /\ \E seat \in RuleSeats(rule) : ruleActions(rule, seat) # {}
              /\ applyRule(rule, rule.state.turn, Timeout) # {}
=============================================================================
