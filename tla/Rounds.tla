------------------------------- MODULE Rounds --------------------------------
(***************************************************************************)
(* The rounds of internal/games for one account and one game: published    *)
(* fairness commitments, the games settled at once (of which scratch adds  *)
(* its unfinished ticket), and blackjack rounds with their actions and     *)
(* jobs.  Each action is one transaction under the lock of the account and *)
(* the game; the other games reach it through the balance.  What a         *)
(* blackjack hand does is abstracted to a move that adds a wager or not,   *)
(* and an end that pays at most twice the stake.                           *)
(***************************************************************************)
EXTENDS Integers, FiniteSets, Sequences, Functions, CapPolicy, Wagers

CONSTANTS
    Played,         \* games of AllGames that are played
    Keys,           \* idempotency keys of a player's browser
    BotRequests,    \* Discord interaction ids, the keys of a bot's rounds
    MaxNonce,       \* math.MaxInt64 for the nonces of a game
    MaxTerms,       \* bound on the changes of client seed and configuration
    MaxMoves,       \* bound on the moves of a blackjack round
    StartBank,      \* balance at the start
    Incomes,        \* balances that other parts of the economy can lead to
    BankCap         \* asset cap of the economic policy

VARIABLES
    game,           \* the game that is played
    policy,         \* whether an economic policy is active
    gate,           \* whether new rounds are allowed
    terms,          \* version of the client seed and the active configuration
    seeds,          \* games.fairness_commitments by nonce
    plays,          \* games.game_rounds by nonce, with their supply events
    bank,           \* AVAILABLE_CHIPS
    readable        \* whether the asset read finds the player's other holdings in order

\* readable is an input: poker, roulette and the other games change it when they will,
\* and the rounds only read it.

ASSUME RoundsAssumption ==
    /\ MaxNonce \in Nat /\ MaxTerms \in Nat
    /\ StartBank \in Nat /\ Incomes \subseteq Nat /\ BankCap \in Nat
    /\ Played \subseteq AllGames /\ Keys \cap BotRequests = {}

roundVars == <<game, policy, gate, terms, seeds, plays, bank>>

Bet == MinimumChips * UnitsPerChip
Nonces == 1..MaxNonce
NoPlay == [state |-> "NONE", key |-> 0, stake |-> 0, supply |-> 0, open |-> FALSE,
           review |-> FALSE, idle |-> FALSE, moves |-> 0]

RoundInit ==
    /\ game \in Played /\ policy \in BOOLEAN /\ gate \in {"PLAY", "MAINTENANCE"}
    /\ terms = 1 /\ seeds = <<>> /\ plays = [n \in Nonces |-> NoPlay] /\ bank = StartBank

Made == {n \in Nonces : plays[n].state # "NONE"}
latestRound == Max(Made)
Unfinished(n) == plays[n].open \/ plays[n].state = "PLAYER_TURN"
Resumes == Made # {} /\ Unfinished(latestRound)
FindByKey(key) == {n \in Made : plays[n].key = key}

(***************************************************************************)
(* The asset read of a player under a policy.                              *)
(***************************************************************************)
Waged(play) == IF play.state = "PLAYER_TURN" THEN play.stake ELSE 0
Staked == SumFunctionOnSet([n \in Nonces |-> Waged(plays[n])], Nonces)
Assets == bank + Staked
\* ReadUnifiedAssetsInTx refuses a player with a holding under review, and a sum that
\* no bigint holds; the transaction rolls back.
AssetsRead == readable /\ Assets <= BankMax

(***************************************************************************)
(* Commitments.                                                            *)
(***************************************************************************)
Available == {n \in DOMAIN seeds : seeds[n].state = "AVAILABLE"}
compatible(n) == seeds[n].terms = terms
Published(t) == [state |-> "AVAILABLE", terms |-> t]

\* Mutant: a commitment under old terms stays available beside the new one.
nextCommitmentKeepsOld(t) ==
    IF \E n \in Available : seeds[n].terms = t THEN {seeds}
    ELSE IF Len(seeds) = MaxNonce THEN {} ELSE {Append(seeds, Published(t))}
\* nextCommitment: the published commitment if it fits the terms, else a new one
\* with the next nonce, until the nonces are exhausted.
nextCommitment(t) ==
    LET old == [n \in DOMAIN seeds |-> IF n \in Available THEN [seeds[n] EXCEPT !.state = "INVALIDATED"]
                                       ELSE seeds[n]]
    IN  IF \E n \in Available : seeds[n].terms = t THEN {seeds}
        ELSE IF Len(seeds) = MaxNonce THEN {} ELSE {Append(old, Published(t))}

Bootstrap ==
    /\ gate = "PLAY" /\ ~Resumes
    /\ seeds' \in nextCommitment(terms)
    /\ UNCHANGED <<game, policy, gate, terms, plays, bank>>

SetClientSeed ==
    /\ terms < MaxTerms /\ terms' = terms + 1
    /\ seeds' \in nextCommitment(terms + 1)
    /\ UNCHANGED <<game, policy, gate, plays, bank>>

\* An operator activates another configuration of the game.
Activate ==
    /\ terms < MaxTerms /\ terms' = terms + 1
    /\ UNCHANGED <<game, policy, gate, seeds, plays, bank>>

(***************************************************************************)
(* Settlement.                                                             *)
(***************************************************************************)
Supply == SumFunctionOnSet([n \in Nonces |-> plays[n].supply], Nonces)

\* Mutant: the added stake is debited, and not yet in the row that the assets count.
blackjackAssetsRead(added) == Assets - added
\* The assets finishBlackjackTransition caps with: those it reads, after the
\* debit of the added stake and before the round's row has it, and that stake.
blackjackAssets(added) == (Assets - added) + added

\* capRound: what is paid of a payout, for a player with these assets.
capRound(assets, stake, payout) ==
    IF policy THEN CapPayout(BankCap, assets, stake, payout, 1).credited ELSE payout

\* The supply event is the net of what was paid.
settled(play, stake, paid) == [play EXCEPT !.state = "SETTLED", !.stake = stake, !.supply = paid - stake, !.moves = 0]

Startable(n, key) ==
    /\ gate = "PLAY" /\ FindByKey(key) = {}
    /\ n \in Available /\ compatible(n)
    /\ Affordable(game, Bet, bank, policy)
    /\ policy => AssetsRead

\* The multiples of a lost, a returned and a won wager; a ticket's top prize is 100.
Multiples == IF game = "scratch" THEN {0, 1, 100} ELSE {0, 1, 2}

\* Create: wager, payout, supply, result and reveal in one transaction.
Create(n, key) ==
    /\ game # "blackjack" /\ Startable(n, key)
    /\ game = "scratch" => \A m \in Made : ~plays[m].open
    /\ \E m \in Multiples :
          LET paid == capRound(Assets, Bet, m * Bet)
              play == [NoPlay EXCEPT !.key = key, !.open = (game = "scratch")]
          IN  /\ bank' = bank - Bet + paid
              /\ plays' = [plays EXCEPT ![n] = settled(play, Bet, paid)]
    /\ seeds' = [seeds EXCEPT ![n].state = "REVEALED"]
    /\ UNCHANGED <<game, policy, gate, terms>>

\* finishBlackjackTransition for a settled round, in a transaction that debits the
\* wager or the added stake; the bonus of the fair ruleset is less than a wager.
finishBlackjackTransition(play, n, debit, added, gross) ==
    /\ policy => AssetsRead
    /\ \E bonus \in {0, 1} :
          LET stake == play.stake + added
              paid == capRound(blackjackAssets(added), stake, gross + bonus)
          IN  /\ bank' = bank - debit + paid
              /\ plays' = [plays EXCEPT ![n] = settled([play EXCEPT !.idle = FALSE], stake, paid)]
              /\ seeds' = [seeds EXCEPT ![n].state = "REVEALED"]

\* createBlackjack: the round stays open, or a natural settles it at once.
createBlackjack(n, key) ==
    LET dealt == [NoPlay EXCEPT !.state = "PLAYER_TURN", !.key = key, !.stake = Bet]
    IN  /\ game = "blackjack" /\ Startable(n, key)
        /\ \A m \in Made : plays[m].state # "PLAYER_TURN"
        /\ \/ /\ bank' = bank - Bet
              /\ plays' = [plays EXCEPT ![n] = dealt]
              /\ seeds' = [seeds EXCEPT ![n].state = "CONSUMED"]
           \/ \E gross \in {0, Bet, (Bet \div 2) * 5} :
                 finishBlackjackTransition(dealt, n, Bet, 0, gross)
        /\ UNCHANGED <<game, policy, gate, terms>>

Headroom == bank <= BankMax - 17 * Bet
Turn(n) == plays[n].state = "PLAYER_TURN" /\ ~plays[n].review

\* BlackjackAction: a move with its added stake; whatever the gate says.
BlackjackAction(n, added) ==
    /\ Turn(n) /\ Headroom /\ added <= bank /\ plays[n].moves < MaxMoves
    /\ policy => plays[n].stake + added <= PlayMax /\ AssetsRead
    /\ \/ /\ plays[n].moves + 1 < MaxMoves
          /\ bank' = bank - added
          /\ plays' = [plays EXCEPT ![n] =
                [plays[n] EXCEPT !.stake = @ + added, !.idle = FALSE, !.moves = @ + 1]]
          /\ UNCHANGED seeds
       \/ \E share \in {0, 1, 2} :
             finishBlackjackTransition(plays[n], n, added, added, share * (plays[n].stake + added))
    /\ UNCHANGED <<game, policy, gate, terms>>

\* Mutant: the worker stops with the gate of new rounds.
processBlackjackJobGated(n) ==
    /\ gate = "PLAY" /\ Turn(n) /\ plays[n].idle /\ Headroom
    /\ \E share \in {0, 1, 2} : finishBlackjackTransition(plays[n], n, 0, 0, share * plays[n].stake)
    /\ UNCHANGED <<game, policy, gate, terms>>
\* processBlackjackJob: the hands of a player idle for a day are stood.  An error, as
\* when the balance leaves no headroom or the asset read fails, leaves the job for a
\* retry.
processBlackjackJob(n) ==
    /\ Turn(n) /\ plays[n].idle /\ Headroom
    /\ \E share \in {0, 1, 2} : finishBlackjackTransition(plays[n], n, 0, 0, share * plays[n].stake)
    /\ UNCHANGED <<game, policy, gate, terms>>

\* The rest changes a round's row only.
PlayStep(n, play) ==
    /\ plays' = [plays EXCEPT ![n] = play]
    /\ UNCHANGED <<game, policy, gate, terms, seeds, bank>>
\* recoverBlackjack finds that the state does not replay, or the seed does not open.
markBlackjackReview(n) == Turn(n) /\ PlayStep(n, [plays[n] EXCEPT !.review = TRUE])
Idle(n) == Turn(n) /\ ~plays[n].idle /\ PlayStep(n, [plays[n] EXCEPT !.idle = TRUE])
RevealComplete(n) == plays[n].open /\ PlayStep(n, [plays[n] EXCEPT !.open = FALSE])

SetGate(state) ==
    /\ gate # state /\ gate' = state
    /\ UNCHANGED <<game, policy, terms, seeds, plays, bank>>
\* Deposits, transfers, other games.
Elsewhere(units) ==
    /\ units # bank /\ bank' = units
    /\ UNCHANGED <<game, policy, gate, terms, seeds, plays>>

RoundNext ==
    \/ Bootstrap \/ SetClientSeed \/ Activate
    \/ \E n \in Nonces, key \in Keys : Create(n, key) \/ createBlackjack(n, key)
    \/ \E n \in Nonces, added \in {0, Bet} : BlackjackAction(n, added)
    \/ \E n \in Nonces : processBlackjackJob(n) \/ markBlackjackReview(n) \/ Idle(n) \/ RevealComplete(n)
    \/ \E state \in {"PLAY", "MAINTENANCE"} : SetGate(state)
    \/ \E units \in Incomes : Elsewhere(units)

RoundSpec == RoundInit /\ [][RoundNext]_roundVars

\* The worker runs the due jobs every five seconds, and the day passes.
RoundFairness == \A n \in Nonces : WF_roundVars(processBlackjackJob(n)) /\ WF_roundVars(Idle(n))

(***************************************************************************)
(* Properties.                                                             *)
(***************************************************************************)
\* The round that a player has not finished is the one with the highest nonce, where
\* Bootstrap looks for it: a ticket or a stake never gets out of reach behind a newer
\* round.  One commitment is available at a time, the last, and no round has used it.
UnfinishedFound ==
    /\ \A n \in Nonces : Unfinished(n) => Resumes /\ n = latestRound
    /\ \A n \in Available : n = Len(seeds) /\ plays[n] = NoPlay

\* A step on a round issues what the assets grow by, and no profit above the cap.
Issued ==
    plays' # plays =>
        /\ Supply' - Supply = Assets' - Assets
        /\ policy => Assets' <= Greatest(BankCap, Assets)

\* A round changes the assets of the player by exactly what its supply event says, also
\* when stakes were added on the way, and its profit never lifts them above the cap.
IssuedWithinCap == [][Issued]_roundVars

\* A blackjack round left by its player is settled, in maintenance too, unless it
\* needs review, if from some time on the balance leaves the headroom for its payout
\* and, under a policy, the read of the player's assets succeeds: while another holding
\* is under review every retry fails.
BlackjackSettles ==
    <>[](Headroom /\ (policy => AssetsRead)) =>
        \A n \in Nonces : plays[n].state = "PLAYER_TURN" ~> plays[n].state = "SETTLED" \/ plays[n].review

\* The largest wager the bot shows is one that Create accepts at that balance, and
\* one chip more is refused: the limits agree with the guards before the draw.
LimitsAgree ==
    \A g \in AllGames :
        LET most == BotLimit(g, bank, policy)
        IN  /\ most >= Bet => Affordable(g, most, bank, policy)
            /\ ~Affordable(g, Greatest(Bet, most + UnitsPerChip), bank, policy)
=============================================================================
