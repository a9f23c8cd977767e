----------------------------- MODULE GamesProofs -----------------------------
(***************************************************************************)
(* Theorems about the single-player games: the configuration of a game     *)
(* (GameConfig), the rounds of an account on the website and through the   *)
(* bot (Rounds, BotGames), and the limits of a wager (Wagers), for any     *)
(* number of versions, nonces, keys, requests and calls.                   *)
(***************************************************************************)
EXTENDS BotGames, GameConfig, SumTheorems

(***************************************************************************)
(* Configuration.                                                          *)
(***************************************************************************)
Version == [status : {"NONE", "DRAFT", "VALIDATED", "ACTIVE", "SUPERSEDED"},
            table : Tables \cup {NoPrizes, Builtin}, artifact : Tables \cup {NoPrizes, Builtin}]
Registry == [publication : Publications, runtime : Runtimes, active : Versions, maintenance : BOOLEAN]

\* Version numbers are given out without a gap.
Numbered(n) == \A v \in Versions : versions[v].status # "NONE" <=> v <= n

\* Every version was saved with a table that newPrizeConfig accepts, and its artifact
\* is of that table since it was validated, because only a draft is edited.
VersionsOK ==
    \A v \in Versions :
        /\ versions[v].status # "NONE" => newPrizeConfig(versions[v].table)
        /\ versions[v].status \in {"VALIDATED", "ACTIVE"} => versions[v].artifact = versions[v].table

ConfigInv ==
    /\ versions \in [Versions -> Version] /\ registry \in Registry
    /\ \E n \in Versions : Numbered(n)
    /\ VersionsOK
    /\ \A v \in Versions : versions[v].status = "ACTIVE" <=> v = registry.active

\* The registry's version is active at first.
LEMMA ConfigInitially == ConfigInit => ConfigInv
  <1> SUFFICES ASSUME ConfigInit PROVE ConfigInv
    OBVIOUS
  <1>1. 1 \in Versions /\ Versions \subseteq Nat
    BY ConfigAssumption DEF Versions
  <1>2. /\ versions \in [Versions -> Version]
        /\ \A v \in Versions : versions[v] = IF v = 1 THEN [status |-> "ACTIVE", table |-> Builtin, artifact |-> Builtin]
                                             ELSE NoVersion
    BY DEF ConfigInit, Version, NoVersion
  <1>3. registry \in Registry /\ registry.active = 1
    BY <1>1 DEF ConfigInit, Registry, Publications, Runtimes
  <1>4. Numbered(1)
    BY <1>1, <1>2 DEF Numbered, NoVersion, Versions
  <1>5. VersionsOK
    BY <1>2, ConfigAssumption DEF VersionsOK, NoVersion
  <1>6. QED
    BY <1>1, <1>2, <1>3, <1>4, <1>5 DEF ConfigInv, NoVersion

\* The number after the last one is free.
LEMMA NextIsFree ==
    ASSUME ConfigInv, NEW next \in nextOpsConfigVersion
    PROVE  next \in Versions /\ versions[next].status = "NONE" /\ Numbered(next - 1)
  <1>1. PICK n \in Versions : Numbered(n)
    BY DEF ConfigInv
  <1>2. Versions \subseteq Nat /\ n \in Nat /\ MaxVersion \in Nat
    BY ConfigAssumption DEF Versions
  <1> DEFINE S == {v \in Versions : versions[v].status # "NONE"}
  <1>3. n \in S /\ \A v \in S : v \in Nat /\ v <= n
    BY <1>1, <1>2 DEF Numbered
  <1>4. Max(S) = n
    <2>1. \A x \in S : (\A y \in S : x >= y) => x = n
      BY <1>2, <1>3
    <2>2. \A y \in S : n >= y
      BY <1>2, <1>3
    <2> HIDE DEF S
    <2>3. QED
      BY <1>3, <2>1, <2>2 DEF Max
  <1>5. next = n + 1 /\ n # MaxVersion
    BY <1>4 DEF nextOpsConfigVersion
  <1>6. next \in Versions
    BY <1>2, <1>5 DEF Versions
  <1>7. QED
    BY <1>1, <1>2, <1>5, <1>6 DEF Numbered, ConfigInv, Version

\* One version is written.
LEMMA VersionWritten ==
    ASSUME ConfigInv, NEW v \in Versions, NEW x \in Version, SetVersion(v, x),
           x.status \in {"DRAFT", "VALIDATED"}, versions[v].status # "ACTIVE",
           newPrizeConfig(x.table), x.status = "VALIDATED" => x.artifact = x.table,
           versions[v].status = "NONE" => Numbered(v - 1)
    PROVE  ConfigInv'
  <1>1. /\ versions' \in [Versions -> Version] /\ registry' = registry /\ versions'[v] = x
        /\ \A w \in Versions : w # v => versions'[w] = versions[w]
    BY DEF SetVersion, ConfigInv
  <1>2. \E n \in Versions : Numbered(n)'
    <2>1. CASE versions[v].status = "NONE"
      <3>1. v \in Nat /\ \A w \in Versions : w \in Nat
        BY DEF Versions
      <3>2. \A w \in Versions : versions'[w].status # "NONE" <=> w <= v
        BY <1>1, <2>1, <3>1 DEF Numbered
      <3>3. QED
        BY <3>2 DEF Numbered
    <2>2. CASE versions[v].status # "NONE"
      BY <1>1, <2>2 DEF ConfigInv, Numbered
    <2>3. QED
      BY <2>1, <2>2
  <1>3. VersionsOK'
    BY <1>1 DEF ConfigInv, VersionsOK, newPrizeConfig
  <1>4. \A w \in Versions : versions'[w].status = "ACTIVE" <=> w = registry'.active
    BY <1>1 DEF ConfigInv
  <1>5. QED
    BY <1>1, <1>2, <1>3, <1>4 DEF ConfigInv

\* Every operation on the versions and on the game keeps ConfigInv.
LEMMA ConfigStep == ConfigInv /\ [ConfigNext]_configVars => ConfigInv'
  <1> SUFFICES ASSUME ConfigInv, [ConfigNext]_configVars PROVE ConfigInv'
    OBVIOUS
  <1>1. ASSUME NEW v \in Versions, clone(v) PROVE ConfigInv'
    <2>1. PICK next \in nextOpsConfigVersion :
             SetVersion(next, [NoVersion EXCEPT !.status = "DRAFT", !.table = versions[v].table])
      BY <1>1 DEF clone
    <2> DEFINE x == [NoVersion EXCEPT !.status = "DRAFT", !.table = versions[v].table]
    <2>2. x \in Version /\ x.status = "DRAFT" /\ x.table = versions[v].table
      BY DEF ConfigInv, Version, NoVersion
    <2>3. newPrizeConfig(x.table)
      BY <1>1, <2>2 DEF clone, ConfigInv, VersionsOK
    <2> HIDE DEF x
    <2>4. QED
      BY <2>1, <2>2, <2>3, NextIsFree, VersionWritten DEF x
  <1>2. ASSUME NEW v \in Versions, validate(v) PROVE ConfigInv'
    <2> DEFINE x == [versions[v] EXCEPT !.status = "VALIDATED", !.artifact = versions[v].table]
    <2>1. versions[v] \in Version /\ versions[v].status = "DRAFT" /\ SetVersion(v, x)
      BY <1>2 DEF validate, ConfigInv
    <2>2. x \in Version /\ x.status = "VALIDATED" /\ x.table = versions[v].table /\ x.artifact = x.table
      BY <2>1 DEF Version
    <2>3. newPrizeConfig(x.table)
      BY <2>1, <2>2 DEF ConfigInv, VersionsOK
    <2> HIDE DEF x
    <2>4. QED
      BY <2>1, <2>2, <2>3, VersionWritten
  <1>3. ASSUME NEW v \in Versions, NEW prizes \in Tables, save(v, prizes) PROVE ConfigInv'
    <2> DEFINE x == [versions[v] EXCEPT !.table = prizes]
    <2>1. versions[v] \in Version /\ versions[v].status = "DRAFT" /\ SetVersion(v, x) /\ newPrizeConfig(prizes)
      BY <1>3 DEF save, ConfigInv
    <2>2. x \in Version /\ x.status = "DRAFT" /\ x.table = prizes
      BY <2>1 DEF Version
    <2> HIDE DEF x
    <2>3. QED
      BY <2>1, <2>2, VersionWritten
  <1>4. ASSUME NEW v \in Versions, versions[v].status = "VALIDATED", activateOpsConfig(v) PROVE ConfigInv'
    <2> DEFINE Activated(w) == IF w = v THEN [versions[w] EXCEPT !.status = "ACTIVE"]
                        ELSE IF versions[w].status = "ACTIVE" THEN [versions[w] EXCEPT !.status = "SUPERSEDED"]
                        ELSE versions[w]
    <2>1. versions' = [w \in Versions |-> Activated(w)] /\ registry' = [registry EXCEPT !.active = v]
      BY <1>4 DEF activateOpsConfig
    <2>2. ASSUME NEW w \in Versions
          PROVE  /\ Activated(w) \in Version /\ Activated(w).table = versions[w].table /\ Activated(w).artifact = versions[w].artifact
                 /\ Activated(w).status = IF w = v THEN "ACTIVE"
                                   ELSE IF versions[w].status = "ACTIVE" THEN "SUPERSEDED" ELSE versions[w].status
      BY DEF ConfigInv, Version
    <2> HIDE DEF Activated
    <2>3. versions' \in [Versions -> Version] /\ \A w \in Versions : versions'[w] = Activated(w)
      BY <2>1, <2>2
    <2>4. registry' \in Registry /\ registry'.active = v
      BY <2>1 DEF ConfigInv, Registry
    <2>5. \E n \in Versions : Numbered(n)'
      <3>1. PICK n \in Versions : Numbered(n)
        BY DEF ConfigInv
      <3>2. ASSUME NEW w \in Versions PROVE versions'[w].status # "NONE" <=> versions[w].status # "NONE"
        BY <1>4, <2>2, <2>3
      <3>3. Numbered(n)'
        BY <3>1, <3>2 DEF Numbered
      <3>4. QED
        BY <3>3
    <2>6. VersionsOK'
      BY <1>4, <2>2, <2>3 DEF ConfigInv, VersionsOK, newPrizeConfig
    <2>7. \A w \in Versions : versions'[w].status = "ACTIVE" <=> w = registry'.active
      BY <2>2, <2>3, <2>4
    <2>8. QED
      BY <2>3, <2>4, <2>5, <2>6, <2>7 DEF ConfigInv
  <1>5. ASSUME UNCHANGED versions, registry' \in Registry, registry'.active = registry.active PROVE ConfigInv'
    BY <1>5 DEF ConfigInv, Numbered, VersionsOK, newPrizeConfig
  <1>6. ASSUME NEW publication \in Publications, NEW runtime \in Runtimes, saveOpsGame(publication, runtime)
        PROVE  ConfigInv'
    <2>1. registry' \in Registry /\ registry'.active = registry.active
      BY <1>6 DEF saveOpsGame, ConfigInv, Registry
    <2>2. QED
      BY <1>5, <1>6, <2>1 DEF saveOpsGame
  <1>7. ASSUME NEW on \in BOOLEAN, SetMaintenance(on) PROVE ConfigInv'
    <2>1. registry' \in Registry /\ registry'.active = registry.active
      BY <1>7 DEF SetMaintenance, ConfigInv, Registry
    <2>2. QED
      BY <1>5, <1>7, <2>1 DEF SetMaintenance
  <1>8. CASE UNCHANGED configVars
    BY <1>5, <1>8 DEF configVars, ConfigInv
  <1>9. QED
    BY <1>1, <1>2, <1>3, <1>4, <1>6, <1>7, <1>8 DEF ConfigNext, changeOpsConfig

\* Whatever versions are cloned, edited, validated and activated, the game that is
\* published and available is served with the table its artifact was computed from
\* (changeOpsConfig, activateOpsConfig, resolveRuntime).
THEOREM ConfigServesHolds == ConfigSpec => []ConfigServes
  <1>1. ConfigInv => ConfigServes
    <2> SUFFICES ASSUME ConfigInv PROVE ConfigServes
      OBVIOUS
    <2>1. {v \in Versions : versions[v].status = "ACTIVE"} = {registry.active}
      BY DEF ConfigInv, Registry
    <2>2. /\ registry.active \in Versions /\ versions[registry.active].status = "ACTIVE"
          /\ newPrizeConfig(versions[registry.active].table)
          /\ versions[registry.active].artifact = versions[registry.active].table
      BY DEF ConfigInv, Registry, VersionsOK
    <2>3. ASSUME registry.publication = "PUBLISHED", registry.runtime = "AVAILABLE", ~registry.maintenance
          PROVE  resolveRuntime = "PLAY"
      BY <2>2, <2>3 DEF resolveRuntime, configByID
    <2>4. QED
      BY <2>1, <2>3 DEF ConfigServes
  <1>2. QED
    BY ConfigInitially, ConfigStep, <1>1, PTL DEF ConfigSpec

(***************************************************************************)
(* Rounds.                                                                 *)
(***************************************************************************)
Seed == [state : {"AVAILABLE", "INVALIDATED", "CONSUMED", "REVEALED"}, terms : Nat]
States == {"NONE", "PLAYER_TURN", "SETTLED"}
RowOK(play) == /\ DOMAIN play = DOMAIN NoPlay /\ play.state \in States /\ play.open \in BOOLEAN
               /\ play.state = "NONE" => play = NoPlay
               /\ play.open => play.state = "SETTLED" /\ game = "scratch"
               /\ play.state = "PLAYER_TURN" => game = "blackjack"

SeedsOK ==
    /\ seeds \in Seq(Seed) /\ Len(seeds) <= MaxNonce /\ terms \in Nat
    /\ \A n \in Available : n = Len(seeds)

PlaysOK ==
    /\ DOMAIN plays = Nonces /\ \A n \in Nonces : RowOK(plays[n])
    /\ \A n \in Made : n \in DOMAIN seeds /\ n \notin Available
    /\ \A m, n \in Made : plays[m].key = plays[n].key => m = n

\* What is unfinished is the last round.
LastOpen == \A n \in Nonces : Unfinished(n) => \A m \in Made : m <= n

RoundInv == SeedsOK /\ PlaysOK /\ LastOpen

\* Before the first round there is no commitment.
LEMMA RoundInitially == RoundInit => RoundInv
  <1> SUFFICES ASSUME RoundInit PROVE RoundInv
    OBVIOUS
  <1>1. SeedsOK
    BY RoundsAssumption DEF RoundInit, SeedsOK, Available
  <1>2. \A n \in Nonces : plays[n] = NoPlay
    BY DEF RoundInit
  <1>3. Made = {} /\ \A n \in Nonces : ~Unfinished(n) /\ RowOK(plays[n])
    <2>1. NoPlay.state = "NONE" /\ NoPlay.open = FALSE
      BY DEF NoPlay
    <2> HIDE DEF NoPlay
    <2>2. QED
      BY <1>2, <2>1 DEF Made, Unfinished, RowOK, States
  <1>4. PlaysOK /\ LastOpen
    BY <1>3 DEF RoundInit, PlaysOK, LastOpen
  <1>5. QED
    BY <1>1, <1>4 DEF RoundInv

\* While the bound is not reached there is a next number.
LEMMA NumberLeft == \A k, m \in Nat : k <= m /\ k # m => k + 1 \in 1..m
  OBVIOUS

\* nextCommitment finds the available commitment, or appends the one that is.
LEMMA Committed ==
    ASSUME RoundInv, UNCHANGED <<game, plays>>, terms' \in Nat, seeds' \in nextCommitment(terms')
    PROVE  RoundInv' /\ Len(seeds') \in Nonces
  <1> DEFINE old == [n \in DOMAIN seeds |-> IF n \in Available THEN [seeds[n] EXCEPT !.state = "INVALIDATED"]
                                            ELSE seeds[n]]
             more == Append(old, Published(terms'))
  <1>1. /\ seeds \in Seq(Seed) /\ Len(seeds) \in Nat /\ Len(seeds) <= MaxNonce /\ MaxNonce \in Nat
        /\ DOMAIN seeds = 1..Len(seeds) /\ \A n \in DOMAIN seeds : seeds[n] \in Seed
    BY RoundsAssumption DEF RoundInv, SeedsOK
  <1>2. CASE seeds' = seeds /\ \E n \in Available : TRUE
    <2>1. SeedsOK'
      BY <1>2 DEF RoundInv, SeedsOK, Available
    <2>2. PlaysOK' /\ LastOpen'
      BY <1>2 DEF RoundInv, PlaysOK, LastOpen, Made, Unfinished, RowOK, Available
    <2>3. Len(seeds') \in Nonces
      BY <1>1, <1>2 DEF Available, Nonces
    <2>4. QED
      BY <2>1, <2>2, <2>3 DEF RoundInv
  <1>3. CASE seeds' = more /\ Len(seeds) # MaxNonce
    <2>1. \A n \in 1..Len(seeds) : old[n] \in Seed /\ old[n].state # "AVAILABLE"
      BY <1>1 DEF Seed, Available
    <2>2. old \in Seq(Seed) /\ Len(old) = Len(seeds)
      BY <1>1, <2>1
    <2>3. Published(terms') \in Seed /\ Published(terms').state = "AVAILABLE"
      BY DEF Published, Seed
    <2> HIDE DEF old
    <2>4. /\ seeds' \in Seq(Seed) /\ Len(seeds') = Len(seeds) + 1 /\ DOMAIN seeds' = 1..(Len(seeds) + 1)
          /\ \A n \in 1..Len(seeds) : seeds'[n] = old[n]
      BY <1>3, <2>2, <2>3
    <2>5. Available' \subseteq {Len(seeds) + 1}
      BY <2>1, <2>4 DEF Available
    <2>6. SeedsOK'
      BY <1>1, <1>3, <2>4, <2>5 DEF SeedsOK
    <2>7. PlaysOK'
      <3>1. \A n \in Made : n \in 1..Len(seeds)
        BY <1>1 DEF RoundInv, PlaysOK
      <3>2. \A n \in Made : n \in DOMAIN seeds' /\ n \notin Available'
        BY <1>1, <2>4, <2>5, <3>1
      <3>3. QED
        BY <3>2 DEF RoundInv, PlaysOK, Made, RowOK
    <2>8. LastOpen'
      BY DEF RoundInv, LastOpen, Made, Unfinished
    <2>9. Len(seeds') \in Nonces
      <3>1. Len(seeds) \in Nat /\ MaxNonce \in Nat /\ Len(seeds) <= MaxNonce /\ Len(seeds) # MaxNonce
        BY <1>1, <1>3
      <3>2. Len(seeds) + 1 \in 1..MaxNonce
        BY <3>1, NumberLeft
      <3>3. QED
        BY <2>4, <3>2 DEF Nonces
    <2>10. QED
      BY <2>6, <2>7, <2>8, <2>9 DEF RoundInv
  <1>4. QED
    BY <1>2, <1>3 DEF nextCommitment

\* A commitment is used.
LEMMA SeedUsed ==
    ASSUME SeedsOK, NEW n \in DOMAIN seeds, NEW state \in {"CONSUMED", "REVEALED"},
           seeds' = [seeds EXCEPT ![n].state = state], UNCHANGED terms
    PROVE  SeedsOK' /\ DOMAIN seeds' = DOMAIN seeds /\ Available' \subseteq Available /\ n \notin Available'
  <1>1. /\ seeds \in Seq(Seed) /\ Len(seeds) \in Nat /\ DOMAIN seeds = 1..Len(seeds)
        /\ \A m \in DOMAIN seeds : seeds[m] \in Seed
    BY DEF SeedsOK
  <1> DEFINE x == [seeds[n] EXCEPT !.state = state]
  <1>2. x \in Seed /\ x.state = state /\ seeds' = [seeds EXCEPT ![n] = x]
    BY <1>1 DEF Seed
  <1> HIDE DEF x
  <1>3. /\ seeds' \in Seq(Seed) /\ Len(seeds') = Len(seeds) /\ DOMAIN seeds' = DOMAIN seeds
        /\ seeds'[n] = x /\ \A m \in DOMAIN seeds : m # n => seeds'[m] = seeds[m]
    BY <1>1, <1>2
  <1>4. Available' \subseteq Available /\ n \notin Available'
    BY <1>2, <1>3 DEF Available
  <1>5. QED
    BY <1>3, <1>4 DEF SeedsOK

\* The row of a round is written: a new one with a free key and its commitment when
\* none is unfinished, or one that does not become unfinished again.
LEMMA RowWritten ==
    ASSUME RoundInv, SeedsOK', DOMAIN seeds' = DOMAIN seeds, Available' \subseteq Available, UNCHANGED game,
           NEW n \in Nonces, n \in DOMAIN seeds, n \notin Available',
           NEW x, RowOK(x), x.state # "NONE", plays' = [plays EXCEPT ![n] = x],
           \/ /\ n \in Made /\ x.key = plays[n].key /\ (x.open => plays[n].open)
              /\ x.state = "PLAYER_TURN" => plays[n].state = "PLAYER_TURN"
           \/ n \in Available /\ FindByKey(x.key) = {} /\ \A m \in Made : ~Unfinished(m)
    PROVE  RoundInv'
  <1>1. /\ DOMAIN plays' = Nonces /\ plays'[n] = x
        /\ \A m \in Nonces : m # n => plays'[m] = plays[m]
    BY DEF RoundInv, PlaysOK
  <1>2. Made' = Made \cup {n}
    BY <1>1 DEF Made
  <1>3. PlaysOK'
    <2>1. \A m \in Nonces : RowOK(plays[m])'
      BY <1>1 DEF RoundInv, PlaysOK, RowOK
    <2>2. \A m \in Made' : m \in DOMAIN seeds' /\ m \notin Available'
      BY <1>2 DEF RoundInv, PlaysOK
    <2>3. \A m \in Made : m # n => plays[m].key # x.key
      BY DEF RoundInv, PlaysOK, FindByKey
    <2>4. \A l, m \in Made' : plays'[l].key = plays'[m].key => l = m
      <3>1. \A m \in Made : m \in Nonces
        BY DEF Made
      <3>2. QED
        BY <1>1, <1>2, <2>3, <3>1 DEF RoundInv, PlaysOK
    <2>5. QED
      BY <1>1, <2>1, <2>2, <2>4 DEF PlaysOK
  <1>4. LastOpen'
    <2>1. CASE n \in Made /\ (Unfinished(n)' => Unfinished(n))
      <3>1. Made' = Made /\ \A m \in Nonces : Unfinished(m)' => Unfinished(m)
        BY <1>1, <1>2, <2>1 DEF Unfinished
      <3>2. QED
        BY <3>1 DEF RoundInv, LastOpen
    <2>2. CASE n \in Available /\ \A m \in Made : ~Unfinished(m)
      <3>1. \A m \in Nonces : m \notin Made => ~Unfinished(m)
        BY DEF RoundInv, PlaysOK, RowOK, Made, Unfinished, NoPlay
      <3>2. \A m \in Nonces : m # n => ~Unfinished(m)'
        BY <1>1, <2>2, <3>1 DEF Unfinished
      <3>3. n = Len(seeds) /\ \A m \in Made : m \in 1..Len(seeds)
        BY <2>2 DEF RoundInv, SeedsOK, PlaysOK
      <3>4. \A m \in Made' : m <= n
        BY <1>2, <3>3 DEF RoundInv, SeedsOK
      <3>5. QED
        BY <3>2, <3>4 DEF LastOpen
    <2>3. QED
      BY <1>1, <2>1, <2>2 DEF Unfinished
  <1>5. QED
    BY <1>3, <1>4 DEF RoundInv

\* What settled writes is a finished row.
LEMMA SettledRow ==
    ASSUME NEW play, NEW stake, NEW paid, DOMAIN play = DOMAIN NoPlay, play.open \in BOOLEAN,
           play.open => game = "scratch"
    PROVE  /\ RowOK(settled(play, stake, paid)) /\ settled(play, stake, paid).state = "SETTLED"
           /\ settled(play, stake, paid).key = play.key /\ settled(play, stake, paid).open = play.open
  <1>1. DOMAIN NoPlay = {"state", "key", "stake", "supply", "open", "review", "idle", "moves"}
    BY DEF NoPlay
  <1> DEFINE x == settled(play, stake, paid)
  <1>2. /\ DOMAIN x = DOMAIN play /\ x.state = "SETTLED" /\ x.key = play.key /\ x.open = play.open
    BY <1>1 DEF settled
  <1> HIDE DEF x
  <1>3. RowOK(x)
    BY <1>2 DEF RowOK, States
  <1>4. QED
    BY <1>2, <1>3 DEF x

\* The fields of a round's row.
LEMMA RowFields ==
  /\ DOMAIN NoPlay = {"state", "key", "stake", "supply", "open", "review", "idle", "moves"}
  /\ NoPlay.state = "NONE" /\ NoPlay.open = FALSE
  BY DEF NoPlay

\* Commitments in use are of rounds that have none yet.
LEMMA Fresh ==
    ASSUME RoundInv, NEW n \in Nonces, NEW key, Startable(n, key)
    PROVE  n \in Available /\ n \in DOMAIN seeds /\ FindByKey(key) = {}
  BY DEF Startable, Available

\* The creation of a round consumes the available commitment and keeps RoundInv.
LEMMA CreateKeeps ==
    ASSUME RoundInv, NEW n \in Nonces, NEW key, Create(n, key)
    PROVE  RoundInv' /\ Made' = Made \cup {n} /\ FindByKey(key) = {} /\ n \notin Made
           /\ plays'[n].key = key /\ \A m \in Nonces : m # n => plays'[m] = plays[m]
  <1>1. n \in Available /\ n \in DOMAIN seeds /\ FindByKey(key) = {}
    BY Fresh DEF Create
  <1>2. SeedsOK' /\ DOMAIN seeds' = DOMAIN seeds /\ Available' \subseteq Available /\ n \notin Available'
    BY <1>1, SeedUsed DEF Create, RoundInv
  <1> DEFINE play == [NoPlay EXCEPT !.key = key, !.open = (game = "scratch")]
  <1>3. PICK paid : plays' = [plays EXCEPT ![n] = settled(play, Bet, paid)]
    BY DEF Create
  <1>4. /\ DOMAIN play = DOMAIN NoPlay /\ play.open \in BOOLEAN /\ play.key = key
        /\ play.open => game = "scratch"
    BY RowFields
  <1> HIDE DEF play
  <1> DEFINE x == settled(play, Bet, paid)
  <1>5. RowOK(x) /\ x.state = "SETTLED" /\ x.key = key
    BY <1>4, SettledRow
  <1> HIDE DEF x
  <1>6. \A m \in Made : ~Unfinished(m)
    BY DEF Create, RoundInv, PlaysOK, RowOK, Made, Unfinished
  <1>7. RoundInv'
    <2>1. plays' = [plays EXCEPT ![n] = x] /\ UNCHANGED game
      BY <1>3 DEF x, Create
    <2>2. QED
      BY <1>1, <1>2, <1>5, <1>6, <2>1, RowWritten
  <1>8. plays'[n] = x /\ \A m \in Nonces : m # n => plays'[m] = plays[m]
    BY <1>3 DEF x, RoundInv, PlaysOK
  <1>9. n \notin Made
    BY <1>1 DEF RoundInv, PlaysOK
  <1>10. QED
    BY <1>1, <1>5, <1>7, <1>8, <1>9 DEF Made

\* A blackjack round is settled, a new one or one that waits for its player.
LEMMA FinishKeeps ==
    ASSUME RoundInv, NEW n \in Nonces, NEW play, NEW debit, NEW added, NEW gross,
           finishBlackjackTransition(play, n, debit, added, gross), UNCHANGED <<game, terms>>,
           n \in DOMAIN seeds, DOMAIN play = DOMAIN NoPlay, play.open = FALSE,
           \/ n \in Made /\ play.key = plays[n].key
           \/ n \in Available /\ FindByKey(play.key) = {} /\ \A m \in Made : ~Unfinished(m)
    PROVE  RoundInv'
  <1> DEFINE rest == [play EXCEPT !.idle = FALSE]
  <1>1. PICK stake, paid : /\ plays' = [plays EXCEPT ![n] = settled(rest, stake, paid)]
                           /\ seeds' = [seeds EXCEPT ![n].state = "REVEALED"]
    BY DEF finishBlackjackTransition
  <1>2. DOMAIN rest = DOMAIN NoPlay /\ rest.open = FALSE /\ rest.key = play.key
    BY RowFields
  <1> HIDE DEF rest
  <1> DEFINE x == settled(rest, stake, paid)
  <1>3. RowOK(x) /\ x.state = "SETTLED" /\ x.key = play.key /\ x.open = FALSE
    <2>1. DOMAIN rest = DOMAIN NoPlay /\ rest.open \in BOOLEAN /\ (rest.open => game = "scratch")
      BY <1>2
    <2>2. RowOK(x) /\ x.state = "SETTLED" /\ x.key = rest.key /\ x.open = rest.open
      BY <2>1, SettledRow
    <2>3. QED
      BY <1>2, <2>2
  <1>4. SeedsOK' /\ DOMAIN seeds' = DOMAIN seeds /\ Available' \subseteq Available /\ n \notin Available'
    BY <1>1, SeedUsed DEF RoundInv
  <1>5. plays' = [plays EXCEPT ![n] = x]
    BY <1>1
  <1> HIDE DEF x
  <1>6. QED
    BY <1>3, <1>4, <1>5, RowWritten

\* A round that exists consumed a commitment, and an open one is of blackjack.
LEMMA MadeRow ==
    ASSUME RoundInv, NEW n \in Nonces, plays[n].state # "NONE"
    PROVE  /\ n \in Made /\ n \in DOMAIN seeds /\ n \notin Available /\ RowOK(plays[n])
           /\ DOMAIN plays[n] = DOMAIN NoPlay
           /\ plays[n].state = "PLAYER_TURN" => plays[n].open = FALSE /\ game = "blackjack"
  BY DEF RoundInv, PlaysOK, Made, RowOK

\* Dealing a hand of blackjack keeps RoundInv.
LEMMA BlackjackDealt ==
    ASSUME RoundInv, NEW n \in Nonces, NEW key, createBlackjack(n, key)
    PROVE  RoundInv'
  <1> DEFINE dealt == [NoPlay EXCEPT !.state = "PLAYER_TURN", !.key = key, !.stake = Bet]
  <1>1. n \in Available /\ n \in DOMAIN seeds /\ FindByKey(key) = {}
    BY Fresh DEF createBlackjack
  <1>2. \A m \in Made : ~Unfinished(m)
    BY DEF createBlackjack, RoundInv, PlaysOK, RowOK, Made, Unfinished
  <1>3. /\ DOMAIN dealt = DOMAIN NoPlay /\ dealt.open = FALSE /\ dealt.key = key
        /\ dealt.state = "PLAYER_TURN"
    BY RowFields
  <1>4. UNCHANGED <<game, terms>> /\ game = "blackjack"
    BY DEF createBlackjack
  <1>5. \/ plays' = [plays EXCEPT ![n] = dealt] /\ seeds' = [seeds EXCEPT ![n].state = "CONSUMED"]
        \/ \E gross \in {0, Bet, (Bet \div 2) * 5} : finishBlackjackTransition(dealt, n, Bet, 0, gross)
    BY DEF createBlackjack
  <1> HIDE DEF dealt
  <1>6. CASE plays' = [plays EXCEPT ![n] = dealt] /\ seeds' = [seeds EXCEPT ![n].state = "CONSUMED"]
    <2>1. SeedsOK' /\ DOMAIN seeds' = DOMAIN seeds /\ Available' \subseteq Available /\ n \notin Available'
      BY <1>1, <1>4, <1>6, SeedUsed DEF RoundInv
    <2>2. RowOK(dealt)
      BY <1>3, <1>4 DEF RowOK, States
    <2>3. QED
      BY <1>1, <1>2, <1>3, <1>4, <1>6, <2>1, <2>2, RowWritten
  <1>7. CASE \E gross \in {0, Bet, (Bet \div 2) * 5} : finishBlackjackTransition(dealt, n, Bet, 0, gross)
    BY <1>1, <1>2, <1>3, <1>4, <1>7, FinishKeeps
  <1>8. QED
    BY <1>5, <1>6, <1>7

\* A move of the player keeps it.
LEMMA BlackjackMoved ==
    ASSUME RoundInv, NEW n \in Nonces, NEW added, BlackjackAction(n, added)
    PROVE  RoundInv'
  <1>1. plays[n].state = "PLAYER_TURN" /\ UNCHANGED <<game, terms>>
    BY DEF BlackjackAction, Turn
  <1>2. /\ n \in Made /\ n \in DOMAIN seeds /\ n \notin Available /\ DOMAIN plays[n] = DOMAIN NoPlay
        /\ plays[n].open = FALSE /\ game = "blackjack"
    BY <1>1, MadeRow
  <1> DEFINE x == [plays[n] EXCEPT !.stake = @ + added, !.idle = FALSE, !.moves = @ + 1]
  <1>3. CASE plays' = [plays EXCEPT ![n] = x] /\ UNCHANGED seeds
    <2>1. DOMAIN x = DOMAIN NoPlay /\ x.state = "PLAYER_TURN" /\ x.open = FALSE /\ x.key = plays[n].key
      BY <1>1, <1>2, RowFields
    <2> HIDE DEF x
    <2>2. RowOK(x)
      BY <1>2, <2>1 DEF RowOK, States
    <2>3. SeedsOK' /\ Available' = Available
      BY <1>1, <1>3 DEF RoundInv, SeedsOK, Available
    <2>4. QED
      BY <1>1, <1>2, <1>3, <2>1, <2>2, <2>3, RowWritten
  <1>4. CASE \E share \in {0, 1, 2} :
                finishBlackjackTransition(plays[n], n, added, added, share * (plays[n].stake + added))
    BY <1>1, <1>2, <1>4, FinishKeeps
  <1>5. \/ plays' = [plays EXCEPT ![n] = x] /\ UNCHANGED seeds
        \/ \E share \in {0, 1, 2} :
              finishBlackjackTransition(plays[n], n, added, added, share * (plays[n].stake + added))
    BY DEF BlackjackAction
  <1>6. QED
    BY <1>3, <1>4, <1>5

\* The job that settles an abandoned hand keeps it.
LEMMA JobDone ==
    ASSUME RoundInv, NEW n \in Nonces, processBlackjackJob(n)
    PROVE  RoundInv'
  <1>1. plays[n].state = "PLAYER_TURN" /\ UNCHANGED <<game, terms>>
    BY DEF processBlackjackJob, Turn
  <1>2. n \in Made /\ n \in DOMAIN seeds /\ DOMAIN plays[n] = DOMAIN NoPlay /\ plays[n].open = FALSE
    BY <1>1, MadeRow
  <1>3. QED
    BY <1>1, <1>2, FinishKeeps DEF processBlackjackJob

\* So does a change of a round that is neither its state nor its key.
LEMMA RowChanged ==
    ASSUME RoundInv, NEW n \in Nonces, NEW x, PlayStep(n, x), plays[n].state # "NONE",
           DOMAIN x = DOMAIN NoPlay, x.state = plays[n].state, x.key = plays[n].key,
           x.open \in BOOLEAN, x.open => plays[n].open
    PROVE  RoundInv' /\ Made' = Made /\ plays'[n].key = plays[n].key
           /\ \A m \in Nonces : m # n => plays'[m] = plays[m]
  <1>1. n \in Made /\ n \in DOMAIN seeds /\ n \notin Available /\ RowOK(plays[n])
    BY MadeRow
  <1>2. RowOK(x)
    BY <1>1 DEF RowOK
  <1>3. plays' = [plays EXCEPT ![n] = x] /\ UNCHANGED <<game, terms, seeds>>
    BY DEF PlayStep
  <1>4. SeedsOK' /\ Available' = Available
    BY <1>3 DEF RoundInv, SeedsOK, Available
  <1>5. RoundInv'
    BY <1>1, <1>2, <1>3, <1>4, RowWritten
  <1>6. plays'[n] = x /\ \A m \in Nonces : m # n => plays'[m] = plays[m]
    BY <1>3 DEF RoundInv, PlaysOK
  <1>7. QED
    BY <1>5, <1>6 DEF Made

\* Revealing a scratch card keeps it.
LEMMA TicketRevealed ==
    ASSUME RoundInv, NEW n \in Nonces, RevealComplete(n)
    PROVE  RoundInv' /\ Made' = Made /\ \A m \in Nonces : plays'[m].key = plays[m].key
  <1> DEFINE x == [plays[n] EXCEPT !.open = FALSE]
  <1>1. plays[n].open /\ PlayStep(n, x)
    BY DEF RevealComplete
  <1>2. RowOK(plays[n])
    BY DEF RoundInv, PlaysOK
  <1>3. plays[n].state = "SETTLED" /\ DOMAIN plays[n] = DOMAIN NoPlay
    BY <1>1, <1>2 DEF RowOK
  <1>4. DOMAIN x = DOMAIN NoPlay /\ x.state = plays[n].state /\ x.key = plays[n].key /\ x.open = FALSE
    BY <1>3, RowFields
  <1> HIDE DEF x
  <1>5. QED
    BY <1>1, <1>3, <1>4, RowChanged

\* Every operation on the rounds keeps RoundInv.
LEMMA RoundStep == RoundInv /\ [RoundNext]_roundVars => RoundInv'
  <1> SUFFICES ASSUME RoundInv, [RoundNext]_roundVars PROVE RoundInv'
    OBVIOUS
  <1>0. terms \in Nat
    BY DEF RoundInv, SeedsOK
  <1>1. CASE Bootstrap
    BY <1>0, <1>1, Committed DEF Bootstrap
  <1>2. CASE SetClientSeed
    <2>1. terms' = terms + 1 /\ terms' \in Nat
      BY <1>0, <1>2 DEF SetClientSeed
    <2>2. seeds' \in nextCommitment(terms') /\ UNCHANGED <<game, plays>>
      BY <1>2, <2>1 DEF SetClientSeed
    <2>3. QED
      BY <2>1, <2>2, Committed
  <1>3. ASSUME UNCHANGED <<game, seeds, plays>>, terms' \in Nat PROVE RoundInv'
    <2>1. SeedsOK'
      BY <1>3 DEF RoundInv, SeedsOK, Available
    <2>2. PlaysOK' /\ LastOpen'
      BY <1>3 DEF RoundInv, PlaysOK, LastOpen, RowOK, Made, Unfinished, Available
    <2>3. QED
      BY <2>1, <2>2 DEF RoundInv
  <1>4. CASE Activate
    BY <1>0, <1>3, <1>4 DEF Activate
  <1>5. ASSUME NEW n \in Nonces, NEW key \in Keys, Create(n, key) \/ createBlackjack(n, key) PROVE RoundInv'
    BY <1>5, CreateKeeps, BlackjackDealt
  <1>6. ASSUME NEW n \in Nonces, NEW added \in {0, Bet}, BlackjackAction(n, added) PROVE RoundInv'
    BY <1>6, BlackjackMoved
  <1>7. ASSUME NEW n \in Nonces, processBlackjackJob(n) \/ RevealComplete(n) PROVE RoundInv'
    BY <1>7, JobDone, TicketRevealed
  <1>8. ASSUME NEW n \in Nonces, NEW f \in {"review", "idle"}, Turn(n),
               PlayStep(n, [plays[n] EXCEPT ![f] = TRUE])
        PROVE  RoundInv'
    <2> DEFINE x == [plays[n] EXCEPT ![f] = TRUE]
    <2>1. plays[n].state = "PLAYER_TURN"
      BY <1>8 DEF Turn
    <2>2. DOMAIN plays[n] = DOMAIN NoPlay /\ plays[n].open = FALSE
      BY <2>1, MadeRow
    <2>3. DOMAIN x = DOMAIN NoPlay /\ x.state = plays[n].state /\ x.key = plays[n].key /\ x.open = FALSE
      BY <2>2, RowFields
    <2> HIDE DEF x
    <2>4. QED
      BY <1>8, <2>1, <2>3, RowChanged DEF x
  <1>9. ASSUME NEW n \in Nonces, markBlackjackReview(n) \/ Idle(n) PROVE RoundInv'
    BY <1>8, <1>9 DEF markBlackjackReview, Idle
  <1>10. ASSUME NEW state, SetGate(state) PROVE RoundInv'
    BY <1>0, <1>3, <1>10 DEF SetGate
  <1>11. ASSUME NEW units, Elsewhere(units) PROVE RoundInv'
    BY <1>0, <1>3, <1>11 DEF Elsewhere
  <1>12. CASE UNCHANGED roundVars
    BY <1>0, <1>3, <1>12 DEF roundVars
  <1>13. QED
    BY <1>1, <1>2, <1>4, <1>5, <1>6, <1>7, <1>9, <1>10, <1>11, <1>12 DEF RoundNext

\* RoundInv implies the property.
LEMMA UnfinishedIsLatest == RoundInv => UnfinishedFound
  <1> SUFFICES ASSUME RoundInv PROVE UnfinishedFound
    OBVIOUS
  <1>1. ASSUME NEW n \in Nonces, Unfinished(n) PROVE Resumes /\ n = latestRound
    <2>1. n \in Made /\ \A m \in Made : m <= n
      BY <1>1 DEF RoundInv, PlaysOK, RowOK, LastOpen, Made, Unfinished
    <2>2. \A m \in Made : m \in Nat
      BY DEF Made, Nonces
    <2>3. \A m \in Made : n >= m
      BY <2>1, <2>2
    <2>4. \A x \in Made : (\A y \in Made : x >= y) => x = n
      BY <2>1, <2>2
    <2>5. latestRound = n
      BY <2>1, <2>3, <2>4 DEF latestRound, Max
    <2>6. QED
      BY <1>1, <2>1, <2>5 DEF Resumes
  <1>2. ASSUME NEW n \in Available PROVE n = Len(seeds) /\ plays[n] = NoPlay
    <2>1. n = Len(seeds) /\ n \in 1..Len(seeds) /\ n \in Nonces
      BY RoundsAssumption DEF RoundInv, SeedsOK, Available, Nonces
    <2>2. plays[n].state = "NONE"
      BY <1>2, <2>1 DEF RoundInv, PlaysOK, Made
    <2>3. QED
      BY <2>1, <2>2 DEF RoundInv, PlaysOK, RowOK
  <1>3. QED
    BY <1>1, <1>2 DEF UnfinishedFound

(***************************************************************************)
(* The bot beside the website.                                             *)
(***************************************************************************)
Bought(req, n) == [req |-> req, kind |-> "PURCHASE", nonce |-> n] \in quotes

\* A call serves a verified quote; it makes a round only for one to purchase.
CallTrue(call) ==
    /\ call.stage \in {"CREATES", "SHOWS"} => call.quote \in BotQuote
    /\ call.stage = "CREATES" => call.quote \in quotes /\ call.quote.kind = "PURCHASE"
CallsTrue == DOMAIN calls = BotCalls /\ \A c \in BotCalls : CallTrue(calls[c])

BotGamesInv ==
    /\ RoundInv /\ CallsTrue
    /\ \A n \in Made : plays[n].key \in BotRequests => Bought(plays[n].key, n)

\* At first the bot has quoted and called nothing.
LEMMA BotInitially == RoundInit /\ BotInit => BotGamesInv
  <1> SUFFICES ASSUME RoundInit, BotInit PROVE BotGamesInv
    OBVIOUS
  <1>1. RoundInv /\ Made = {}
    BY RoundInitially, RowFields DEF RoundInit, Made
  <1>2. CallsTrue
    BY DEF BotInit, NoCall, CallsTrue, CallTrue
  <1>3. QED
    BY <1>1, <1>2 DEF BotGamesInv

\* A step that makes no round for a request, or one that it was quoted.
LEMMA RoundsFollow ==
    ASSUME BotGamesInv, RoundInv', quotes \subseteq quotes',
           \A n \in Made' : \/ n \in Made /\ plays'[n].key = plays[n].key
                            \/ plays'[n].key \in BotRequests => Bought(plays'[n].key, n),
           CallsTrue'
    PROVE  BotGamesInv'
  BY DEF BotGamesInv, Bought

\* One call changes its stage.
LEMMA CallSet ==
    ASSUME BotGamesInv, NEW c \in BotCalls, NEW x, calls' = [calls EXCEPT ![c] = x], quotes \subseteq quotes',
           CallTrue(x)
    PROVE  CallsTrue'
  BY DEF BotGamesInv, CallsTrue, CallTrue

\* What the calls were told stays told.
LEMMA CallsStay ==
    ASSUME BotGamesInv, UNCHANGED calls, quotes \subseteq quotes'
    PROVE  CallsTrue'
  BY DEF BotGamesInv, CallsTrue, CallTrue

\* The stages of a call, taken apart.
LEMMA Stages ==
    /\ NoCall.stage = "NONE" /\ \A q : At("SHOWS", q).stage = "SHOWS" /\ At("SHOWS", q).quote = q
    /\ \A q : At("CREATES", q).stage = "CREATES" /\ At("CREATES", q).quote = q
  BY DEF NoCall, At

\* A step of the website leaves the bot's quotes true.
LEMMA WebKeeps ==
    ASSUME BotGamesInv, RoundNext, UNCHANGED botVars
    PROVE  BotGamesInv'
  <1> DEFINE Follows(n) == \/ n \in Made /\ plays'[n].key = plays[n].key
                           \/ plays'[n].key \notin BotRequests
  <1>1. RoundInv /\ RoundInv' /\ UNCHANGED <<quotes, calls>>
    BY RoundStep DEF BotGamesInv, botVars
  <1>2. ASSUME NEW n \in Made' PROVE Follows(n)
    <2>0. n \in Nonces /\ DOMAIN plays = Nonces
      BY <1>1 DEF Made, RoundInv, PlaysOK
    <2>1. CASE UNCHANGED plays
      BY <2>1 DEF Made
    <2>2. ASSUME NEW m \in Nonces, NEW key \in Keys, Create(m, key) PROVE Follows(n)
      <3>1. key \notin BotRequests
        BY RoundsAssumption
      <3>2. plays'[m].key = key /\ (m # n => plays'[n] = plays[n])
        BY <1>1, <2>0, <2>2, CreateKeeps
      <3>3. QED
        BY <3>1, <3>2 DEF Made
    <2>3. ASSUME NEW m \in Nonces, NEW x, plays' = [plays EXCEPT ![m] = x],
                 x.key \notin BotRequests \/ (plays[m].state # "NONE" /\ x.key = plays[m].key)
          PROVE  Follows(n)
      BY <2>0, <2>3 DEF Made
    <2>4. ASSUME NEW m \in Nonces, NEW play, NEW debit, NEW added, NEW gross,
                 finishBlackjackTransition(play, m, debit, added, gross), DOMAIN play = DOMAIN NoPlay,
                 play.key \notin BotRequests \/ (plays[m].state # "NONE" /\ play.key = plays[m].key)
          PROVE  Follows(n)
      <3>1. PICK stake, paid : plays' = [plays EXCEPT ![m] = settled([play EXCEPT !.idle = FALSE], stake, paid)]
        BY <2>4 DEF finishBlackjackTransition
      <3>2. settled([play EXCEPT !.idle = FALSE], stake, paid).key = play.key
        BY <2>4, RowFields DEF settled
      <3>3. QED
        BY <2>3, <2>4, <3>1, <3>2
    <2>5. ASSUME NEW m \in Nonces, plays[m].state # "NONE" PROVE DOMAIN plays[m] = DOMAIN NoPlay
      BY <1>1, <2>5, MadeRow
    <2>6. ASSUME NEW m \in Nonces, NEW key \in Keys, createBlackjack(m, key)
          PROVE  Follows(n)
      <3> DEFINE dealt == [NoPlay EXCEPT !.state = "PLAYER_TURN", !.key = key, !.stake = Bet]
      <3>1. DOMAIN dealt = DOMAIN NoPlay /\ dealt.key = key /\ key \notin BotRequests
        BY RowFields, RoundsAssumption
      <3>2. \/ plays' = [plays EXCEPT ![m] = dealt]
            \/ \E gross \in {0, Bet, (Bet \div 2) * 5} : finishBlackjackTransition(dealt, m, Bet, 0, gross)
        BY <2>6 DEF createBlackjack
      <3> HIDE DEF dealt
      <3>3. QED
        BY <2>3, <2>4, <3>1, <3>2
    <2>7. ASSUME NEW m \in Nonces, NEW added, BlackjackAction(m, added)
          PROVE  Follows(n)
      <3> DEFINE x == [plays[m] EXCEPT !.stake = @ + added, !.idle = FALSE, !.moves = @ + 1]
      <3>1. plays[m].state # "NONE" /\ DOMAIN plays[m] = DOMAIN NoPlay
        BY <2>5, <2>7 DEF BlackjackAction, Turn
      <3>2. x.key = plays[m].key
        BY <3>1, RowFields
      <3>3. \/ plays' = [plays EXCEPT ![m] = x]
            \/ \E share \in {0, 1, 2} :
                  finishBlackjackTransition(plays[m], m, added, added, share * (plays[m].stake + added))
        BY <2>7 DEF BlackjackAction
      <3> HIDE DEF x
      <3>4. QED
        BY <2>3, <2>4, <3>1, <3>2, <3>3
    <2>8. ASSUME NEW m \in Nonces, processBlackjackJob(m)
          PROVE  Follows(n)
      <3>1. plays[m].state # "NONE" /\ DOMAIN plays[m] = DOMAIN NoPlay
        BY <2>5, <2>8 DEF processBlackjackJob, Turn
      <3>2. QED
        BY <2>4, <2>8, <3>1 DEF processBlackjackJob
    <2>9. ASSUME NEW m \in Nonces, markBlackjackReview(m) \/ Idle(m) \/ RevealComplete(m)
          PROVE  Follows(n)
      <3>1. RowOK(plays[m])
        BY <1>1 DEF RoundInv, PlaysOK
      <3>2. plays[m].state # "NONE" /\ DOMAIN plays[m] = DOMAIN NoPlay
        BY <2>5, <2>9, <3>1, RowFields DEF markBlackjackReview, Idle, RevealComplete, Turn, RowOK
      <3>3. PICK f \in {"review", "idle", "open"}, v \in BOOLEAN : plays' = [plays EXCEPT ![m] = [plays[m] EXCEPT ![f] = v]]
        BY <2>9 DEF markBlackjackReview, Idle, RevealComplete, PlayStep
      <3>4. [plays[m] EXCEPT ![f] = v].key = plays[m].key
        BY <3>2, RowFields
      <3>5. QED
        BY <2>3, <3>2, <3>3, <3>4
    <2>10. QED
      BY <2>1, <2>2, <2>6, <2>7, <2>8, <2>9
         DEF RoundNext, Bootstrap, SetClientSeed, Activate, SetGate, Elsewhere
  <1>3. QED
    BY <1>1, <1>2, CallsStay, RoundsFollow

\* Nothing happens to the rounds.
LEMMA RoundsStay ==
    ASSUME BotGamesInv, UNCHANGED roundVars
    PROVE  RoundInv' /\ \A n \in Made' : n \in Made /\ plays'[n].key = plays[n].key
  <1>1. RoundInv'
    BY RoundStep DEF BotGamesInv
  <1>2. QED
    BY <1>1 DEF roundVars, Made

\* A step of the bot keeps BotGamesInv.
LEMMA BotKeeps ==
    ASSUME BotGamesInv, BotNext
    PROVE  BotGamesInv'
  <1>0. RoundInv /\ terms \in Nat /\ \A n \in Made : n \in Nonces
    BY DEF BotGamesInv, RoundInv, SeedsOK, Made
  <1>1. ASSUME NEW req \in BotRequests, QuotePurchase(req) PROVE BotGamesInv'
    <2>1. UNCHANGED <<game, terms, plays, calls>> /\ seeds' \in nextCommitment(terms') /\ quotes \subseteq quotes'
      BY <1>1 DEF QuotePurchase
    <2>2. RoundInv' /\ Made' = Made
      BY <1>0, <2>1, Committed DEF Made
    <2>3. QED
      BY <2>1, <2>2, CallsStay, RoundsFollow
  <1>2. ASSUME NEW req \in BotRequests, PrepareScratch(req) PROVE BotGamesInv'
    <2>1. CASE quotes \subseteq quotes' /\ UNCHANGED <<roundVars, calls>>
      BY <2>1, RoundsStay, CallsStay, RoundsFollow
    <2>2. QED
      BY <1>1, <1>2, <2>1 DEF PrepareScratch
  <1>3. ASSUME NEW req \in BotRequests, Prepare(req) \/ PrepareSlot(req) \/ PrepareSummon(req) PROVE BotGamesInv'
    BY <1>1, <1>3 DEF Prepare, PrepareSlot, PrepareSummon
  <1>4. ASSUME NEW q \in BotQuote, Expire(q) PROVE BotGamesInv'
    BY <1>4, RoundsStay, CallsStay, RoundsFollow DEF Expire
  <1>5. ASSUME NEW c \in BotCalls, NEW q \in BotQuote, NEW create \in BOOLEAN, FindOriginal(c, q, create)
        PROVE  BotGamesInv'
    <2>1. q \in quotes /\ UNCHANGED <<roundVars, quotes>>
      BY <1>5 DEF FindOriginal, Verified
    <2>2. PICK x \in {NoCall, At("CREATES", q), At("SHOWS", q)} :
             /\ calls' = [calls EXCEPT ![c] = x]
             /\ x = At("CREATES", q) => Original(q) = {}
      BY <1>5, Stages DEF FindOriginal, Verified
    <2>3. Original(q) = {} => q.kind = "PURCHASE"
      BY DEF Original, BotQuote
    <2>4. CallTrue(x)
      BY <2>1, <2>2, <2>3, Stages DEF CallTrue
    <2>5. CallsTrue'
      BY <2>1, <2>2, <2>4, CallSet
    <2>6. QED
      BY <2>1, <2>5, RoundsStay, RoundsFollow
  <1>6. ASSUME NEW c \in BotCalls, NEW x \in {NoCall, At("SHOWS", calls[c].quote)},
               calls[c].stage \in {"CREATES", "SHOWS"} \/ x = NoCall, calls' = [calls EXCEPT ![c] = x], UNCHANGED quotes, RoundInv',
               \A n \in Made' : \/ n \in Made /\ plays'[n].key = plays[n].key
                                \/ plays'[n].key \in BotRequests => Bought(plays'[n].key, n)
        PROVE  BotGamesInv'
    <2>1. CallTrue(x)
      BY <1>6, Stages DEF CallTrue, BotGamesInv, CallsTrue
    <2>2. CallsTrue'
      BY <1>6, <2>1, CallSet
    <2>3. QED
      BY <1>6, <2>2, RoundsFollow
  <1>7. ASSUME NEW c \in BotCalls, Purchase(c) PROVE BotGamesInv'
    <2> DEFINE q == calls[c].quote
    <2>1. /\ q \in quotes /\ q \in BotQuote /\ q.kind = "PURCHASE" /\ UNCHANGED quotes
          /\ calls[c].stage = "CREATES"
          /\ \E x \in {NoCall, At("SHOWS", q)} : calls' = [calls EXCEPT ![c] = x]
      BY <1>7 DEF Purchase, BotGamesInv, CallsTrue, CallTrue
    <2>2. q = [req |-> q.req, kind |-> "PURCHASE", nonce |-> q.nonce] /\ q.nonce \in Nonces
      BY <2>1 DEF BotQuote
    <2>3. CASE UNCHANGED roundVars
      BY <1>6, <2>1, <2>3, RoundsStay
    <2>4. CASE Create(q.nonce, q.req)
      <3>1. Bought(q.req, q.nonce)
        BY <2>1, <2>2 DEF Bought
      <3> HIDE DEF q
      <3>2. /\ RoundInv' /\ Made' = Made \cup {q.nonce} /\ plays'[q.nonce].key = q.req
            /\ \A m \in Nonces : m # q.nonce => plays'[m] = plays[m]
        BY <1>0, <2>2, <2>4, CreateKeeps
      <3>3. \A n \in Made' : \/ n \in Made /\ plays'[n].key = plays[n].key
                             \/ plays'[n].key \in BotRequests => Bought(plays'[n].key, n)
        BY <1>0, <3>1, <3>2
      <3>4. QED
        BY <1>6, <2>1, <3>2, <3>3 DEF q
    <2>5. QED
      BY <1>7, <2>3, <2>4 DEF Purchase
  <1>8. ASSUME NEW c \in BotCalls, Present(c) PROVE BotGamesInv'
    <2>1. UNCHANGED quotes /\ calls' = [calls EXCEPT ![c] = NoCall]
      BY <1>8 DEF Present
    <2>2. PICK n \in Original(calls[c].quote) : RevealComplete(n) \/ UNCHANGED roundVars
      BY <1>8 DEF Present
    <2>3. CASE RevealComplete(n)
      <3>1. calls[c].quote \in BotQuote
        BY <1>8 DEF Present, BotGamesInv, CallsTrue, CallTrue
      <3>2. n \in Nonces
        BY <1>0, <3>1 DEF Original, FindByKey, BotQuote
      <3>3. QED
        BY <1>0, <1>6, <2>1, <2>3, <3>2, TicketRevealed
    <2>4. CASE UNCHANGED roundVars
      BY <1>6, <2>1, <2>4, RoundsStay
    <2>5. QED
      BY <2>2, <2>3, <2>4
  <1>9. ASSUME NEW c \in BotCalls, Drop(c) PROVE BotGamesInv'
    BY <1>6, <1>9, RoundsStay DEF Drop
  <1>10. QED
    BY <1>2, <1>3, <1>4, <1>5, <1>7, <1>8, <1>9
       DEF BotNext, result, slotResult, summonResult, scratchResult

\* Together: every step of the two keeps BotGamesInv.
LEMMA BotGamesStep ==
    BotGamesInv /\ [BotNext \/ (RoundNext /\ UNCHANGED botVars)]_<<roundVars, botVars>> => BotGamesInv'
  <1>1. BotGamesInv /\ UNCHANGED <<roundVars, botVars>> => BotGamesInv'
    BY RoundsStay, CallsStay, RoundsFollow DEF botVars
  <1>2. QED
    BY <1>1, BotKeeps, WebKeeps

\* A ticket or a stake that the player has not finished is the round that Bootstrap
\* finds, and the published commitment is one (nextCommitment, Create,
\* createBlackjack), whatever website and bot play.
THEOREM UnfinishedFoundHolds == BotGamesSpec => []UnfinishedFound
  <1>1. BotGamesInv => UnfinishedFound
    BY UnfinishedIsLatest DEF BotGamesInv
  <1>2. QED
    BY BotInitially, BotGamesStep, <1>1, PTL DEF BotGamesSpec

\* A request buys at most one round, with a commitment its user was shown
\* (internal/botgames, findOriginal and the play of a quote).
THEOREM BotPlaysWhatWasShownHolds == BotGamesSpec => []BotPlaysWhatWasShown
  <1>1. BotGamesInv => BotPlaysWhatWasShown
    <2> SUFFICES ASSUME BotGamesInv, NEW req \in BotRequests
                 PROVE  /\ Cardinality(FindByKey(req)) <= 1
                        /\ \A n \in FindByKey(req) : [req |-> req, kind |-> "PURCHASE", nonce |-> n] \in quotes
      BY DEF BotPlaysWhatWasShown
    <2>1. \A m, n \in FindByKey(req) : m = n
      BY DEF BotGamesInv, RoundInv, PlaysOK, FindByKey
    <2>2. Cardinality(FindByKey(req)) <= 1
      <3>1. CASE FindByKey(req) = {}
        BY <3>1, FS_EmptySet
      <3>2. CASE FindByKey(req) # {}
        <4>1. PICK n \in FindByKey(req) : FindByKey(req) = {n}
          BY <2>1, <3>2
        <4>2. QED
          BY <4>1, FS_Singleton
      <3>3. QED
        BY <3>1, <3>2
    <2>3. QED
      BY <2>2 DEF BotGamesInv, FindByKey, Bought
  <1>2. QED
    BY BotInitially, BotGamesStep, <1>1, PTL DEF BotGamesSpec

(***************************************************************************)
(* Money of the rounds.  A step writes one row at most, so the sums over   *)
(* all rounds change by what the row changes; and a row has no supply      *)
(* event before it is settled.                                             *)
(***************************************************************************)
RowMoney(play) == /\ play.stake \in Int /\ play.supply \in Int
                  /\ play.state # "SETTLED" => play.supply = 0
MoneyInv == bank \in Int /\ \A n \in Nonces : RowMoney(plays[n])

\* Wagers are positive amounts.
LEMMA BetUnits == Bet \in Nat /\ 0 \in Int /\ (Bet \div 2) * 5 \in Int
  <1>1. MinimumChips \in Nat /\ UnitsPerChip \in Nat
    BY WagersAssumption
  <1>2. MinimumChips * UnitsPerChip \in Nat
    BY <1>1
  <1>3. Bet \in Nat
    BY <1>2 DEF Bet
  <1>4. Bet \div 2 \in Int
    BY <1>3
  <1>5. QED
    BY <1>3, <1>4

\* The fields of a row after a change of some of them.
LEMMA SettledMoney ==
    ASSUME NEW play, DOMAIN play = DOMAIN NoPlay, NEW stake \in Int, NEW paid \in Int
    PROVE  /\ settled(play, stake, paid).state = "SETTLED"
           /\ settled(play, stake, paid).stake = stake
           /\ settled(play, stake, paid).supply = paid - stake
           /\ RowMoney(settled(play, stake, paid)) /\ Waged(settled(play, stake, paid)) = 0
  <1> DEFINE x == settled(play, stake, paid)
  <1>1. x.state = "SETTLED" /\ x.stake = stake /\ x.supply = paid - stake
    BY RowFields DEF settled
  <1> HIDE DEF x
  <1>2. RowMoney(x) /\ Waged(x) = 0
    BY <1>1 DEF RowMoney, Waged
  <1>3. QED
    BY <1>1, <1>2 DEF x

\* capRound pays no profit above the cap of the assets it is given.
LEMMA PaidWithinCap ==
    ASSUME NEW assets \in Int, NEW stake \in Int, NEW payout \in Int
    PROVE  /\ capRound(assets, stake, payout) \in Int
           /\ policy => assets + capRound(assets, stake, payout) - stake <= Greatest(BankCap, assets)
  <1>1. CASE ~policy
    BY <1>1 DEF capRound
  <1>2. CASE policy
    <2> DEFINE principal == Least(stake, payout)
               base == assets - stake + principal
               room == Greatest(BankCap - base, 0)
               p == Least(payout - principal, room)
    <2>0. BankCap \in Int
      BY RoundsAssumption
    <2>1. principal \in Int /\ principal <= stake
      BY DEF Least
    <2>2. base \in Int /\ base <= assets
      BY <2>1
    <2> HIDE DEF principal
    <2>3. room \in Int /\ (room = 0 \/ (room > 0 /\ room = BankCap - base))
      BY <2>0, <2>2 DEF Greatest
    <2> HIDE DEF base
    <2>4. p \in Int /\ p <= room
      BY <2>1, <2>3 DEF Least
    <2> HIDE DEF room
    <2>5. p - (p % 1) = p
      <3> HIDE DEF p
      <3> QED BY <2>4
    <2> HIDE DEF p
    <2>6. capRound(assets, stake, payout) = principal + p
      BY <1>2, <2>5 DEF capRound, CapPayout, ClippedProfit, principal, base, room, p
    <2>7. base = assets - stake + principal
      BY DEF base
    <2>8. base + p <= BankCap \/ base + p <= assets
      BY <2>0, <2>2, <2>3, <2>4
    <2>9. Greatest(BankCap, assets) >= BankCap /\ Greatest(BankCap, assets) >= assets
          /\ Greatest(BankCap, assets) \in Int
      BY <2>0 DEF Greatest
    <2>10. assets + (principal + p) - stake = base + p
      BY <2>1, <2>4, <2>7
    <2>11. assets + (principal + p) - stake <= Greatest(BankCap, assets)
      BY <2>0, <2>2, <2>4, <2>8, <2>9, <2>10
    <2>12. QED
      BY <2>1, <2>4, <2>6, <2>11
  <1>3. QED
    BY <1>1, <1>2

\* The assets of a player are an amount.
LEMMA AssetsInt == MoneyInv => Assets \in Int
  <1> SUFFICES ASSUME MoneyInv PROVE Assets \in Int
    OBVIOUS
  <1>1. IsFiniteSet(Nonces)
    BY RoundsAssumption, FS_Interval DEF Nonces
  <1>2. PICK f : f = [m \in Nonces |-> Waged(plays[m])]
    OBVIOUS
  <1>3. \A m \in Nonces : f[m] \in Int
    BY <1>2 DEF MoneyInv, RowMoney, Waged
  <1>4. SumFunctionOnSet(f, Nonces) \in Int
    BY <1>1, <1>3, SumInt
  <1>5. QED
    BY <1>2, <1>4 DEF Assets, Staked, MoneyInv

\* What writing a row does to the sums.
LEMMA SumsMoved ==
    ASSUME RoundInv, MoneyInv, NEW n \in Nonces, NEW x, RowMoney(x), bank' \in Int,
           plays' = [plays EXCEPT ![n] = x]
    PROVE  /\ MoneyInv' /\ Assets \in Int /\ Supply \in Int
           /\ Supply' = Supply + (x.supply - plays[n].supply)
           /\ Assets' = Assets + ((bank' - bank) + (Waged(x) - Waged(plays[n])))
  <1>1. /\ DOMAIN plays = Nonces /\ plays'[n] = x
        /\ \A m \in Nonces : m # n => plays'[m] = plays[m]
    BY DEF RoundInv, PlaysOK
  <1>2. IsFiniteSet(Nonces)
    BY RoundsAssumption, FS_Interval DEF Nonces
  <1>3. \A m \in Nonces : RowMoney(plays[m]) /\ RowMoney(plays'[m])
    BY <1>1 DEF MoneyInv
  <1>4. \A m \in Nonces : Waged(plays[m]) \in Int /\ Waged(plays'[m]) \in Int
    BY <1>3 DEF RowMoney, Waged
  <1>5. PICK f : f = [m \in Nonces |-> Waged(plays[m])]
    OBVIOUS
  <1>6. PICK g : g = [m \in Nonces |-> Waged(plays'[m])]
    OBVIOUS
  <1>7. PICK s : s = [m \in Nonces |-> plays[m].supply]
    OBVIOUS
  <1>8. PICK t : t = [m \in Nonces |-> plays'[m].supply]
    OBVIOUS
  <1>9. Staked = SumFunctionOnSet(f, Nonces) /\ Staked' = SumFunctionOnSet(g, Nonces)
    BY <1>5, <1>6 DEF Staked, Waged
  <1>10. Supply = SumFunctionOnSet(s, Nonces) /\ Supply' = SumFunctionOnSet(t, Nonces)
    BY <1>7, <1>8 DEF Supply
  <1>11. /\ \A m \in Nonces : f[m] \in Int /\ g[m] \in Int
         /\ \A m \in Nonces \ {n} : g[m] = f[m]
         /\ g[n] = Waged(x) /\ f[n] = Waged(plays[n])
    BY <1>1, <1>4, <1>5, <1>6
  <1>12. /\ \A m \in Nonces : s[m] \in Int /\ t[m] \in Int
         /\ \A m \in Nonces \ {n} : t[m] = s[m]
         /\ t[n] = x.supply /\ s[n] = plays[n].supply
    BY <1>1, <1>3, <1>7, <1>8 DEF RowMoney
  <1>13. Staked' = Staked + (Waged(x) - Waged(plays[n])) /\ Staked \in Int
    BY <1>2, <1>9, <1>11, SumUpdate, SumInt
  <1>14. Supply' = Supply + (x.supply - plays[n].supply) /\ Supply \in Int
    <2>1. SumFunctionOnSet(t, Nonces) = SumFunctionOnSet(s, Nonces) + (t[n] - s[n])
      BY <1>2, <1>12, SumUpdate
    <2>2. SumFunctionOnSet(s, Nonces) \in Int
      BY <1>2, <1>12, SumInt
    <2>3. QED
      BY <1>10, <1>12, <2>1, <2>2
  <1>15. MoneyInv'
    BY <1>3 DEF MoneyInv
  <1>16. bank \in Int /\ Waged(x) \in Int /\ Waged(plays[n]) \in Int
         /\ x.supply \in Int /\ plays[n].supply \in Int
    BY <1>1, <1>3, <1>4 DEF MoneyInv, RowMoney
  <1>17. Assets = bank + Staked /\ Assets' = bank' + Staked'
    BY DEF Assets
  <1>18. QED
    BY <1>13, <1>14, <1>15, <1>16, <1>17

\* A round is settled with what capRound pays.
LEMMA SettlementIssues ==
    ASSUME RoundInv, MoneyInv, UNCHANGED policy, NEW n \in Nonces, plays[n].state # "SETTLED",
           NEW play, DOMAIN play = DOMAIN NoPlay, NEW stake \in Int, NEW gross \in Int, NEW debit \in Int,
           NEW assets, assets = Assets, NEW paid, paid = capRound(assets, stake, gross),
           stake = debit + Waged(plays[n]), bank' = bank - debit + paid,
           plays' = [plays EXCEPT ![n] = settled(play, stake, paid)]
    PROVE  MoneyInv' /\ Issued
  <1>1. assets \in Int /\ bank \in Int /\ plays[n].supply = 0 /\ Waged(plays[n]) \in Int
    <2>1. bank \in Int /\ RowMoney(plays[n])
      BY DEF MoneyInv
    <2>2. assets \in Int
      BY AssetsInt
    <2>3. QED
      BY <2>1, <2>2 DEF RowMoney, Waged
  <1>2. paid \in Int /\ (policy => assets + paid - stake <= Greatest(BankCap, assets))
    BY <1>1, PaidWithinCap
  <1>3. PICK x : x = settled(play, stake, paid)
    OBVIOUS
  <1>4. RowMoney(x) /\ Waged(x) = 0 /\ x.supply = paid - stake
    BY <1>2, <1>3, SettledMoney
  <1>5. bank' \in Int
    BY <1>1, <1>2
  <1>6. /\ MoneyInv'
        /\ Supply' = Supply + (x.supply - plays[n].supply) /\ Supply \in Int
        /\ Assets' = Assets + ((bank' - bank) + (Waged(x) - Waged(plays[n])))
    BY <1>3, <1>4, <1>5, SumsMoved
  <1>7. Supply' - Supply = paid - stake /\ Assets' - Assets = paid - stake
    BY <1>1, <1>2, <1>4, <1>6
  <1>8. Assets' = assets + paid - stake
    BY <1>1, <1>2, <1>6, <1>7
  <1>9. QED
    BY <1>2, <1>6, <1>7, <1>8 DEF Issued

\* A step that leaves stakes, supply and assets together.
LEMMA RowIssues ==
    ASSUME RoundInv, MoneyInv, UNCHANGED policy, NEW n \in Nonces, NEW x, RowMoney(x), bank' \in Int,
           x.supply = plays[n].supply, bank' - bank = Waged(plays[n]) - Waged(x),
           plays' = [plays EXCEPT ![n] = x]
    PROVE  MoneyInv' /\ Issued
  <1>1. /\ MoneyInv' /\ Assets \in Int /\ Supply \in Int
        /\ Supply' = Supply + (x.supply - plays[n].supply)
        /\ Assets' = Assets + ((bank' - bank) + (Waged(x) - Waged(plays[n])))
    BY SumsMoved
  <1>2. Waged(x) \in Int /\ Waged(plays[n]) \in Int /\ bank \in Int /\ plays[n].supply \in Int
    BY DEF MoneyInv, RowMoney, Waged
  <1>3. Supply' - Supply = 0 /\ Assets' - Assets = 0
    BY <1>1, <1>2
  <1>4. Assets' = Assets
    BY <1>1, <1>3
  <1>5. Assets <= Greatest(BankCap, Assets)
    BY <1>1, RoundsAssumption DEF Greatest
  <1>6. QED
    BY <1>1, <1>3, <1>4, <1>5 DEF Issued

\* A new round of a game that is settled at once.
LEMMA CreateIssues ==
    ASSUME RoundInv, MoneyInv, NEW n \in Nonces, NEW key, Create(n, key)
    PROVE  MoneyInv' /\ Issued
  <1> DEFINE play == [NoPlay EXCEPT !.key = key, !.open = (game = "scratch")]
  <1>1. PICK m \in Multiples : /\ bank' = bank - Bet + capRound(Assets, Bet, m * Bet)
                               /\ plays' = [plays EXCEPT ![n] = settled(play, Bet, capRound(Assets, Bet, m * Bet))]
    BY DEF Create
  <1>2. DOMAIN play = DOMAIN NoPlay
    BY RowFields
  <1>3. plays[n].state = "NONE" /\ UNCHANGED policy
    <2>1. n \in Available
      BY Fresh DEF Create
    <2>2. QED
      BY <2>1 DEF RoundInv, PlaysOK, Made, Create
  <1>4. Waged(plays[n]) = 0
    BY <1>3 DEF Waged
  <1>5. m \in Int /\ Bet \in Int
    BY BetUnits DEF Multiples
  <1>6. PICK gross \in Int : gross = m * Bet
    BY <1>5
  <1>7. PICK assets : assets = Assets
    OBVIOUS
  <1>8. PICK paid : paid = capRound(assets, Bet, gross)
    OBVIOUS
  <1> HIDE DEF play
  <1>9. bank' = bank - Bet + paid /\ plays' = [plays EXCEPT ![n] = settled(play, Bet, paid)]
    BY <1>1, <1>6, <1>7, <1>8
  <1>10. Bet = Bet + Waged(plays[n])
    BY <1>4, <1>5
  <1>11. QED
    BY <1>2, <1>3, <1>5, <1>6, <1>7, <1>8, <1>9, <1>10, SettlementIssues

\* A blackjack round that ends.
LEMMA FinishIssues ==
    ASSUME RoundInv, MoneyInv, UNCHANGED policy, NEW n \in Nonces, plays[n].state # "SETTLED",
           NEW play, DOMAIN play = DOMAIN NoPlay, play.stake \in Int, NEW debit \in Int,
           NEW added \in Int, NEW gross \in Int, play.stake + added = debit + Waged(plays[n]),
           finishBlackjackTransition(play, n, debit, added, gross)
    PROVE  MoneyInv' /\ Issued
  <1> DEFINE rest == [play EXCEPT !.idle = FALSE]
  <1>1. PICK bonus \in {0, 1} :
           LET stake == play.stake + added
               paid == capRound(blackjackAssets(added), stake, gross + bonus)
           IN  /\ bank' = bank - debit + paid
               /\ plays' = [plays EXCEPT ![n] = settled(rest, stake, paid)]
    BY DEF finishBlackjackTransition
  <1>2. DOMAIN rest = DOMAIN NoPlay
    OBVIOUS
  <1> HIDE DEF rest
  <1>3. PICK assets : assets = Assets
    OBVIOUS
  <1>4. assets \in Int
    BY <1>3, AssetsInt
  <1>5. blackjackAssets(added) = assets
    BY <1>3, <1>4 DEF blackjackAssets
  <1>6. PICK stake \in Int : stake = play.stake + added
    OBVIOUS
  <1>7. PICK payout \in Int : payout = gross + bonus
    OBVIOUS
  <1>8. PICK paid : paid = capRound(assets, stake, payout)
    OBVIOUS
  <1>9. bank' = bank - debit + paid /\ plays' = [plays EXCEPT ![n] = settled(rest, stake, paid)]
    BY <1>1, <1>5, <1>6, <1>7, <1>8
  <1>10. QED
    BY <1>2, <1>3, <1>6, <1>7, <1>8, <1>9, SettlementIssues

\* A hand of blackjack is dealt: its wager is staked, or the hand ends at once.
LEMMA DealIssues ==
    ASSUME RoundInv, MoneyInv, NEW n \in Nonces, NEW key, createBlackjack(n, key)
    PROVE  MoneyInv' /\ Issued
  <1> DEFINE dealt == [NoPlay EXCEPT !.state = "PLAYER_TURN", !.key = key, !.stake = Bet]
  <1>1. plays[n].state = "NONE" /\ UNCHANGED policy /\ bank \in Int /\ RowMoney(plays[n])
    <2>1. n \in Available
      BY Fresh DEF createBlackjack
    <2>2. QED
      BY <2>1 DEF RoundInv, MoneyInv, PlaysOK, Made, createBlackjack
  <1>2. Waged(plays[n]) = 0 /\ plays[n].supply = 0 /\ Bet \in Int
    BY <1>1, BetUnits DEF Waged, RowMoney
  <1>3. DOMAIN dealt = DOMAIN NoPlay /\ dealt.stake = Bet /\ dealt.supply = 0 /\ dealt.state = "PLAYER_TURN"
    BY RowFields DEF NoPlay
  <1>4. \/ bank' = bank - Bet /\ plays' = [plays EXCEPT ![n] = dealt]
        \/ \E gross \in {0, Bet, (Bet \div 2) * 5} : finishBlackjackTransition(dealt, n, Bet, 0, gross)
    BY DEF createBlackjack
  <1> HIDE DEF dealt
  <1>5. RowMoney(dealt) /\ Waged(dealt) = Bet
    BY <1>2, <1>3 DEF RowMoney, Waged
  <1>6. CASE bank' = bank - Bet /\ plays' = [plays EXCEPT ![n] = dealt]
    <2>1. bank' \in Int /\ bank' - bank = Waged(plays[n]) - Waged(dealt)
      BY <1>1, <1>2, <1>5, <1>6
    <2>2. QED
      BY <1>1, <1>2, <1>3, <1>5, <1>6, <2>1, RowIssues
  <1>7. ASSUME NEW gross \in {0, Bet, (Bet \div 2) * 5}, finishBlackjackTransition(dealt, n, Bet, 0, gross)
        PROVE  MoneyInv' /\ Issued
    <2>1. gross \in Int /\ 0 \in Int
      BY <1>2, BetUnits
    <2>2. dealt.stake + 0 = Bet + Waged(plays[n]) /\ dealt.stake \in Int
      BY <1>2, <1>3
    <2>3. QED
      BY <1>1, <1>2, <1>3, <1>7, <2>1, <2>2, FinishIssues
  <1>8. QED
    BY <1>4, <1>6, <1>7

\* A move of blackjack stakes what it adds, or ends the hand.
LEMMA MoveIssues ==
    ASSUME RoundInv, MoneyInv, NEW n \in Nonces, NEW added \in Int, BlackjackAction(n, added)
    PROVE  MoneyInv' /\ Issued
  <1>1. plays[n].state = "PLAYER_TURN" /\ UNCHANGED policy /\ bank \in Int /\ RowMoney(plays[n])
    BY DEF BlackjackAction, Turn, MoneyInv
  <1>2. DOMAIN plays[n] = DOMAIN NoPlay /\ plays[n].stake \in Int /\ Waged(plays[n]) = plays[n].stake
        /\ plays[n].supply = 0
    BY <1>1, MadeRow DEF RowMoney, Waged
  <1> DEFINE x == [plays[n] EXCEPT !.stake = @ + added, !.idle = FALSE, !.moves = @ + 1]
  <1>3. /\ x.state = "PLAYER_TURN" /\ x.stake = plays[n].stake + added /\ x.supply = 0
    BY <1>1, <1>2, RowFields
  <1>4. \/ bank' = bank - added /\ plays' = [plays EXCEPT ![n] = x]
        \/ \E share \in {0, 1, 2} :
              finishBlackjackTransition(plays[n], n, added, added, share * (plays[n].stake + added))
    BY DEF BlackjackAction
  <1> HIDE DEF x
  <1>5. RowMoney(x) /\ Waged(x) = plays[n].stake + added
    BY <1>2, <1>3 DEF RowMoney, Waged
  <1>6. CASE bank' = bank - added /\ plays' = [plays EXCEPT ![n] = x]
    <2>1. bank' \in Int /\ bank' - bank = Waged(plays[n]) - Waged(x)
      BY <1>1, <1>2, <1>5, <1>6
    <2>2. QED
      BY <1>1, <1>2, <1>3, <1>5, <1>6, <2>1, RowIssues
  <1>7. ASSUME NEW share \in {0, 1, 2},
               finishBlackjackTransition(plays[n], n, added, added, share * (plays[n].stake + added))
        PROVE  MoneyInv' /\ Issued
    <2>1. PICK gross : gross = share * (plays[n].stake + added)
      OBVIOUS
    <2>2. gross \in Int
      BY <1>2, <2>1
    <2>3. plays[n].stake + added = added + Waged(plays[n])
      BY <1>2
    <2>4. finishBlackjackTransition(plays[n], n, added, added, gross)
      BY <1>7, <2>1
    <2>5. QED
      BY <1>1, <1>2, <2>2, <2>3, <2>4, FinishIssues
  <1>8. QED
    BY <1>4, <1>6, <1>7

\* The job stands the hands of the player.
LEMMA JobIssues ==
    ASSUME RoundInv, MoneyInv, NEW n \in Nonces, processBlackjackJob(n)
    PROVE  MoneyInv' /\ Issued
  <1>1. plays[n].state = "PLAYER_TURN" /\ UNCHANGED policy /\ RowMoney(plays[n])
    BY DEF processBlackjackJob, Turn, MoneyInv
  <1>2. DOMAIN plays[n] = DOMAIN NoPlay /\ plays[n].stake \in Int /\ Waged(plays[n]) = plays[n].stake
    BY <1>1, MadeRow DEF RowMoney, Waged
  <1>3. PICK share \in {0, 1, 2} : finishBlackjackTransition(plays[n], n, 0, 0, share * plays[n].stake)
    BY DEF processBlackjackJob
  <1>4. PICK gross : gross = share * plays[n].stake
    OBVIOUS
  <1>5. gross \in Int /\ 0 \in Int /\ plays[n].stake + 0 = 0 + Waged(plays[n])
    BY <1>2, <1>4
  <1>6. finishBlackjackTransition(plays[n], n, 0, 0, gross)
    BY <1>3, <1>4
  <1>7. QED
    BY <1>1, <1>2, <1>5, <1>6, FinishIssues

\* A mark on a row changes no amount.
LEMMA MarkIssues ==
    ASSUME RoundInv, MoneyInv, NEW n \in Nonces, NEW f \in {"review", "idle", "open"}, NEW v \in BOOLEAN,
           PlayStep(n, [plays[n] EXCEPT ![f] = v])
    PROVE  MoneyInv' /\ Issued
  <1>1. PICK x : x = [plays[n] EXCEPT ![f] = v]
    OBVIOUS
  <1>2. DOMAIN plays[n] = DOMAIN NoPlay /\ RowMoney(plays[n]) /\ bank \in Int
    BY DEF RoundInv, PlaysOK, RowOK, MoneyInv
  <1>3. x.state = plays[n].state /\ x.stake = plays[n].stake /\ x.supply = plays[n].supply
    BY <1>1, <1>2, RowFields
  <1>4. RowMoney(x) /\ Waged(x) = Waged(plays[n]) /\ Waged(x) \in Int
    BY <1>2, <1>3 DEF RowMoney, Waged
  <1>5. plays' = [plays EXCEPT ![n] = x] /\ bank' = bank /\ UNCHANGED policy
    BY <1>1 DEF PlayStep
  <1>6. bank' \in Int /\ bank' - bank = Waged(plays[n]) - Waged(x)
    BY <1>2, <1>4, <1>5
  <1>7. QED
    BY <1>3, <1>4, <1>5, <1>6, RowIssues

\* Nothing happens to the rows.
LEMMA RowsStay == MoneyInv /\ UNCHANGED plays /\ bank' \in Int => MoneyInv' /\ Issued
  BY DEF MoneyInv, Issued, RowMoney

\* Every operation on the rounds issues what it pays.
LEMMA RoundIssues == ASSUME RoundInv, MoneyInv, [RoundNext]_roundVars PROVE MoneyInv' /\ Issued
  <1>0. bank \in Int
    BY DEF MoneyInv
  <1>1. CASE UNCHANGED <<plays, bank>>
    BY <1>0, <1>1, RowsStay
  <1>2. ASSUME NEW n \in Nonces, NEW key \in Keys, Create(n, key) \/ createBlackjack(n, key)
        PROVE  MoneyInv' /\ Issued
    BY <1>2, CreateIssues, DealIssues
  <1>3. ASSUME NEW n \in Nonces, NEW added \in {0, Bet}, BlackjackAction(n, added)
        PROVE  MoneyInv' /\ Issued
    <2>1. added \in Int
      BY BetUnits
    <2>2. QED
      BY <1>3, <2>1, MoveIssues
  <1>4. ASSUME NEW n \in Nonces, processBlackjackJob(n) PROVE MoneyInv' /\ Issued
    BY <1>4, JobIssues
  <1>5. ASSUME NEW n \in Nonces, markBlackjackReview(n) \/ Idle(n) \/ RevealComplete(n)
        PROVE  MoneyInv' /\ Issued
    <2>1. \/ PlayStep(n, [plays[n] EXCEPT !["review"] = TRUE])
          \/ PlayStep(n, [plays[n] EXCEPT !["idle"] = TRUE])
          \/ PlayStep(n, [plays[n] EXCEPT !["open"] = FALSE])
      BY <1>5 DEF markBlackjackReview, Idle, RevealComplete
    <2>2. QED
      BY <2>1, MarkIssues
  <1>6. ASSUME NEW units \in Incomes, Elsewhere(units) PROVE MoneyInv' /\ Issued
    <2>1. bank' \in Int /\ UNCHANGED plays
      BY <1>6, RoundsAssumption DEF Elsewhere
    <2>2. QED
      BY <2>1, RowsStay
  <1>7. ASSUME NEW state, SetGate(state) PROVE MoneyInv' /\ Issued
    BY <1>1, <1>7 DEF SetGate
  <1>8. CASE Bootstrap \/ SetClientSeed \/ Activate \/ UNCHANGED roundVars
    BY <1>1, <1>8 DEF Bootstrap, SetClientSeed, Activate, roundVars
  <1>9. QED
    BY <1>2, <1>3, <1>4, <1>5, <1>6, <1>7, <1>8 DEF RoundNext

\* So does every step of the bot.
LEMMA BotIssues == ASSUME BotGamesInv, MoneyInv, BotNext PROVE MoneyInv' /\ Issued
  <1>0. bank \in Int /\ RoundInv
    BY DEF MoneyInv, BotGamesInv
  <1>1. CASE UNCHANGED <<plays, bank>>
    BY <1>0, <1>1, RowsStay
  <1>2. CASE UNCHANGED roundVars
    BY <1>1, <1>2 DEF roundVars
  <1>3. ASSUME NEW req, Prepare(req) \/ PrepareSlot(req) \/ PrepareSummon(req) \/ PrepareScratch(req)
        PROVE  MoneyInv' /\ Issued
    BY <1>1, <1>2, <1>3 DEF Prepare, PrepareSlot, PrepareSummon, PrepareScratch, QuotePurchase
  <1>4. ASSUME NEW q, Expire(q) PROVE MoneyInv' /\ Issued
    BY <1>2, <1>4 DEF Expire
  <1>5. ASSUME NEW c, NEW q, NEW create, FindOriginal(c, q, create) PROVE MoneyInv' /\ Issued
    BY <1>2, <1>5 DEF FindOriginal
  <1>6. ASSUME NEW c \in BotCalls, Purchase(c) PROVE MoneyInv' /\ Issued
    <2>1. PICK q : q = calls[c].quote
      OBVIOUS
    <2>2. q.nonce \in Nonces
      BY <1>6, <2>1 DEF Purchase, BotGamesInv, CallsTrue, CallTrue, BotQuote
    <2>3. UNCHANGED roundVars \/ Create(q.nonce, q.req)
      BY <1>6, <2>1 DEF Purchase
    <2>4. QED
      BY <1>0, <1>2, <2>2, <2>3, CreateIssues
  <1>7. ASSUME NEW c \in BotCalls, Present(c) PROVE MoneyInv' /\ Issued
    <2>1. PICK n \in Original(calls[c].quote) : RevealComplete(n) \/ UNCHANGED roundVars
      BY <1>7 DEF Present
    <2>2. calls[c].quote \in BotQuote
      BY <1>7 DEF Present, BotGamesInv, CallsTrue, CallTrue
    <2>3. n \in Nonces
      BY <2>2 DEF Original, FindByKey, BotQuote, Made
    <2>4. CASE RevealComplete(n)
      <3>1. PlayStep(n, [plays[n] EXCEPT !["open"] = FALSE])
        BY <2>4 DEF RevealComplete
      <3>2. QED
        BY <1>0, <2>3, <3>1, MarkIssues
    <2>5. QED
      BY <1>2, <2>1, <2>4
  <1>8. ASSUME NEW c, Drop(c) PROVE MoneyInv' /\ Issued
    BY <1>2, <1>8 DEF Drop
  <1>9. QED
    BY <1>3, <1>4, <1>5, <1>6, <1>7, <1>8
       DEF BotNext, result, slotResult, summonResult, scratchResult

\* A round issues by its supply event what the assets of the player grow by, through
\* every stake that was added on the way, and its profit never lifts them above the cap
\* (games.capRound, blackjack_service.go finishBlackjackTransition), for any amounts.
THEOREM IssuedWithinCapHolds == BotGamesSpec => IssuedWithinCap
  <1>1. RoundInit /\ BotInit => BotGamesInv /\ MoneyInv
    <2>1. RoundInit => MoneyInv
      <3> SUFFICES ASSUME RoundInit PROVE MoneyInv
        OBVIOUS
      <3>1. bank \in Int /\ \A n \in Nonces : plays[n] = NoPlay
        BY RoundsAssumption DEF RoundInit
      <3>2. RowMoney(NoPlay)
        BY DEF RowMoney, NoPlay
      <3>3. QED
        BY <3>1, <3>2 DEF MoneyInv
    <2>2. QED
      BY <2>1, BotInitially
  <1>2. ASSUME BotGamesInv, MoneyInv, [BotNext \/ (RoundNext /\ UNCHANGED botVars)]_<<roundVars, botVars>>
        PROVE  MoneyInv' /\ [Issued]_roundVars
    <2>1. CASE UNCHANGED roundVars
      <3>1. [RoundNext]_roundVars /\ RoundInv
        BY <1>2, <2>1 DEF BotGamesInv
      <3>2. QED
        BY <1>2, <2>1, <3>1, RoundIssues
    <2>2. CASE BotNext
      BY <1>2, <2>2, BotIssues
    <2>3. CASE RoundNext
      BY <1>2, <2>3, RoundIssues DEF BotGamesInv
    <2>4. QED
      BY <1>2, <2>1, <2>2, <2>3
  <1>3. QED
    BY <1>1, <1>2, BotGamesStep, PTL DEF BotGamesSpec, IssuedWithinCap

(***************************************************************************)
(* The limits of a wager.                                                  *)
(***************************************************************************)
LEMMA Units == UnitsPerChip \in Nat /\ UnitsPerChip > 0 /\ \E k \in Nat : UnitsPerChip = 10 * k
  <1>1. UnitsPerChip \in Nat /\ UnitsPerChip > 0 /\ UnitsPerChip % 10 = 0
    BY WagersAssumption
  <1>2. UnitsPerChip = 10 * (UnitsPerChip \div 10) /\ UnitsPerChip \div 10 \in Nat
    BY <1>1
  <1>3. QED
    BY <1>1, <1>2

\* A multiple of a multiple of ten is one of ten.
LEMMA Tens == ASSUME NEW k \in Int, NEW m \in Int PROVE (m * (10 * k)) % 10 = 0
  <1>1. m * (10 * k) = 10 * (m * k) /\ m * k \in Int
    OBVIOUS
  <1>2. \A y \in Int : (10 * y) % 10 = 0
    OBVIOUS
  <1>3. QED
    BY <1>1, <1>2

\* Quotient and remainder.
LEMMA Division == ASSUME NEW u \in Int, NEW d \in Nat, d > 0
  PROVE u \div d \in Int /\ u % d \in Int /\ u = d * (u \div d) + (u % d) /\ 0 <= u % d /\ u % d < d
  OBVIOUS

\* Whole rounds down to chips.
LEMMA WholeUnits == ASSUME NEW u \in Int
  PROVE Whole(u) \in Int /\ Whole(u) <= u /\ u < Whole(u) + UnitsPerChip /\ Whole(u) % 10 = 0 /\ UnitsPerChip % 10 = 0
  <1>1. PICK k \in Nat : UnitsPerChip = 10 * k
    BY Units
  <1> DEFINE q == u \div UnitsPerChip
             r == u % UnitsPerChip
  <1>2. q \in Int /\ r \in Int /\ u = UnitsPerChip * q + r /\ 0 <= r /\ r < UnitsPerChip
    BY Units, Division
  <1>3. Whole(u) = u - r
    BY DEF Whole
  <1> HIDE DEF q, r
  <1>4. Whole(u) = q * (10 * k)
    BY <1>1, <1>2, <1>3
  <1>5. Whole(u) % 10 = 0
    BY <1>2, <1>4, Tens
  <1>6. QED
    BY <1>2, <1>3, <1>5, Units, WagersAssumption

\* The least of two numbers.
LEMMA Min2 == ASSUME NEW a \in Int, NEW b \in Int
  PROVE Min({a, b}) \in {a, b} /\ Min({a, b}) <= a /\ Min({a, b}) <= b
  <1> DEFINE m == IF a <= b THEN a ELSE b
  <1>1. m \in {a, b} /\ \A y \in {a, b} : m <= y
    OBVIOUS
  <1>2. QED
    BY <1>1 DEF Min

\* The least of three numbers.
LEMMA Min3 == ASSUME NEW a \in Int, NEW b \in Int, NEW c \in Int
  PROVE /\ Min({a, b, c}) \in {a, b, c}
        /\ Min({a, b, c}) <= a /\ Min({a, b, c}) <= b /\ Min({a, b, c}) <= c
  <1> DEFINE n == IF a <= b THEN a ELSE b
             m == IF n <= c THEN n ELSE c
  <1>1. m \in {a, b, c} /\ \A y \in {a, b, c} : m <= y
    OBVIOUS
  <1>2. QED
    BY <1>1 DEF Min

\* Limited is the largest number of whole chips under its bounds.
LEMMA LimitBounds ==
    ASSUME NEW units \in Int, NEW most \in Int, NEW capped \in BOOLEAN
    PROVE  LET limit == Limited(units, most, capped)
           IN  /\ limit \in Int /\ limit <= units /\ (capped => limit <= most)
               /\ units < limit + UnitsPerChip \/ (capped /\ most < limit + UnitsPerChip)
               /\ limit % 10 = 0
  <1> DEFINE least == IF capped THEN Min({units, most}) ELSE units
             limit == Limited(units, most, capped)
  <1>1. /\ least \in Int /\ least <= units /\ (capped => least <= most)
        /\ least = units \/ (capped /\ least = most)
    BY Min2
  <1>2. limit = Whole(least)
    BY DEF Limited
  <1> HIDE DEF least, limit
  <1>3. limit \in Int /\ limit <= least /\ least < limit + UnitsPerChip /\ limit % 10 = 0
    BY <1>1, <1>2, WholeUnits
  <1>4. UnitsPerChip \in Int
    BY Units
  <1>5. QED
    BY <1>1, <1>3, <1>4 DEF limit

\* The next wager that could be shown.
LEMMA NextWager ==
    ASSUME NEW limit \in Int, limit % 10 = 0
    PROVE  LET w == Greatest(Bet, limit + UnitsPerChip)
           IN  w \in Int /\ w >= Bet /\ w >= limit + UnitsPerChip /\ w % 10 = 0 /\ Bet \in Int /\ Bet > 0
  <1>1. PICK k \in Nat : UnitsPerChip = 10 * k
    BY Units
  <1>2. MinimumChips \in Nat /\ MinimumChips > 0 /\ UnitsPerChip > 0
    BY WagersAssumption
  <1>3. Bet = MinimumChips * (10 * k)
    BY <1>1 DEF Bet
  <1>4. Bet \in Int /\ Bet % 10 = 0
    BY <1>2, <1>3, Tens
  <1>5. Bet > 0
    <2>1. \A m, u \in Nat : m > 0 /\ u > 0 => m * u > 0
      OBVIOUS
    <2>2. QED
      BY <1>1, <1>2, <2>1 DEF Bet
  <1>6. limit + UnitsPerChip \in Int /\ (limit + UnitsPerChip) % 10 = 0
    BY <1>1
  <1>7. QED
    BY <1>4, <1>5, <1>6 DEF Greatest

\* The guards before the draw, spelled out.
Fits(g, w, balance, capped) ==
    /\ w >= Bet /\ w <= BankMax /\ w \div Divisor(g) <= BankMax \div TopMultiple(g)
    /\ balance >= w * Count(g)
    /\ balance - w * Count(g) <= BankMax - (w \div Divisor(g)) * TopMultiple(g)
    /\ capped => w * Count(g) <= PlayMax

\* What the draw accepts is what fits the balance and the policy.
LEMMA AffordableFits ==
    ASSUME NEW g, NEW w, NEW balance, NEW capped
    PROVE  Affordable(g, w, balance, capped) <=> Fits(g, w, balance, capped)
  BY DEF Affordable, normalizeCreate, Fits, Bet

\* The bounds that Fits sets for dice: the wager is won back once.
LEMMA DiceLimit ==
    ASSUME NEW b \in Int, NEW capped \in BOOLEAN, NEW w \in Int, w >= Bet, Bet \in Int, Bet > 0
    PROVE  Fits("dice", w, b, capped)
           <=> w <= Min({b, BankMax \div 2, BankMax - b}) /\ (capped => w <= PlayMax)
  <1>1. BankMax \in Nat /\ PlayMax \in Nat
    BY WagersAssumption
  <1> DEFINE m == Min({b, BankMax \div 2, BankMax - b})
  <1>2. m \in {b, BankMax \div 2, BankMax - b} /\ m <= b /\ m <= BankMax \div 2 /\ m <= BankMax - b
    <2> DEFINE x == b
               y == BankMax \div 2
               z == BankMax - b
    <2>1. x \in Int /\ y \in Int /\ z \in Int
      BY <1>1
    <2> HIDE DEF x, y, z
    <2>2. /\ Min({x, y, z}) \in {x, y, z}
          /\ Min({x, y, z}) <= x /\ Min({x, y, z}) <= y /\ Min({x, y, z}) <= z
      BY <2>1, Min3
    <2>3. QED
      BY <2>2 DEF m, x, y, z
  <1> HIDE DEF m
  <1>3. w <= m <=> w <= b /\ w <= BankMax \div 2 /\ w <= BankMax - b
    BY <1>1, <1>2
  <1>4. Fits("dice", w, b, capped) <=>
           /\ w <= BankMax /\ w <= BankMax \div 2 /\ b >= w /\ b - w <= BankMax - w * 2
           /\ capped => w <= PlayMax
    BY <1>1 DEF Fits, Divisor, TopMultiple, Count
  <1>5. QED
    BY <1>1, <1>3, <1>4 DEF m

\* For scratch and summon: a hundredfold prize.
LEMMA ScratchLimit ==
    ASSUME NEW b \in Int, NEW capped \in BOOLEAN, NEW w \in Int, w >= Bet, Bet \in Int, Bet > 0,
           NEW g \in {"scratch", "summon"}
    PROVE  Fits(g, w, b, capped)
           <=> w <= Min({b, BankMax \div 100, (BankMax - b) \div 99}) /\ (capped => w <= PlayMax)
  <1>1. BankMax \in Nat /\ PlayMax \in Nat
    BY WagersAssumption
  <1> DEFINE m == Min({b, BankMax \div 100, (BankMax - b) \div 99})
  <1>2. m \in {b, BankMax \div 100, (BankMax - b) \div 99}
        /\ m <= b /\ m <= BankMax \div 100 /\ m <= (BankMax - b) \div 99
    <2> DEFINE x == b
               y == BankMax \div 100
               z == (BankMax - b) \div 99
    <2>1. x \in Int /\ y \in Int /\ z \in Int
      BY <1>1
    <2> HIDE DEF x, y, z
    <2>2. /\ Min({x, y, z}) \in {x, y, z}
          /\ Min({x, y, z}) <= x /\ Min({x, y, z}) <= y /\ Min({x, y, z}) <= z
      BY <2>1, Min3
    <2>3. QED
      BY <2>2 DEF m, x, y, z
  <1> HIDE DEF m
  <1>3. w <= m <=> w <= b /\ w <= BankMax \div 100 /\ w <= (BankMax - b) \div 99
    BY <1>1, <1>2
  <1>4. Fits(g, w, b, capped) <=>
           /\ w <= BankMax /\ w <= BankMax \div 100 /\ b >= w /\ b - w <= BankMax - w * 100
           /\ capped => w <= PlayMax
    BY <1>1 DEF Fits, Divisor, TopMultiple, Count
  <1>5. QED
    BY <1>1, <1>3, <1>4 DEF m

\* For blackjack: a payout of seventeen times the wager.
LEMMA BlackjackLimit ==
    ASSUME NEW b \in Int, NEW capped \in BOOLEAN, NEW w \in Int, w >= Bet, Bet \in Int, Bet > 0
    PROVE  Fits("blackjack", w, b, capped)
           <=> w <= Min({b, BankMax \div 17, (BankMax - b) \div 16}) /\ (capped => w <= PlayMax)
  <1>1. BankMax \in Nat /\ PlayMax \in Nat
    BY WagersAssumption
  <1> DEFINE m == Min({b, BankMax \div 17, (BankMax - b) \div 16})
  <1>2. m \in {b, BankMax \div 17, (BankMax - b) \div 16}
        /\ m <= b /\ m <= BankMax \div 17 /\ m <= (BankMax - b) \div 16
    <2> DEFINE x == b
               y == BankMax \div 17
               z == (BankMax - b) \div 16
    <2>1. x \in Int /\ y \in Int /\ z \in Int
      BY <1>1
    <2> HIDE DEF x, y, z
    <2>2. /\ Min({x, y, z}) \in {x, y, z}
          /\ Min({x, y, z}) <= x /\ Min({x, y, z}) <= y /\ Min({x, y, z}) <= z
      BY <2>1, Min3
    <2>3. QED
      BY <2>2 DEF m, x, y, z
  <1> HIDE DEF m
  <1>3. w <= m <=> w <= b /\ w <= BankMax \div 17 /\ w <= (BankMax - b) \div 16
    BY <1>1, <1>2
  <1>4. Fits("blackjack", w, b, capped) <=>
           /\ w <= BankMax /\ w <= BankMax \div 17 /\ b >= w /\ b - w <= BankMax - w * 17
           /\ capped => w <= PlayMax
    BY <1>1 DEF Fits, Divisor, TopMultiple, Count
  <1>5. QED
    BY <1>1, <1>3, <1>4 DEF m

\* For ten draws at once.
LEMMA TenfoldLimit ==
    ASSUME NEW b \in Int, NEW capped \in BOOLEAN, NEW w \in Int, w >= Bet, Bet \in Int, Bet > 0
    PROVE  Fits("tenfold", w, b, capped)
           <=> w <= Min({b \div 10, BankMax \div 1000, (BankMax - b) \div 990})
               /\ (capped => w <= PlayMax \div 10)
  <1>1. BankMax \in Nat /\ PlayMax \in Nat
    BY WagersAssumption
  <1> DEFINE m == Min({b \div 10, BankMax \div 1000, (BankMax - b) \div 990})
  <1>2. m \in {b \div 10, BankMax \div 1000, (BankMax - b) \div 990}
        /\ m <= b \div 10 /\ m <= BankMax \div 1000 /\ m <= (BankMax - b) \div 990
    <2> DEFINE x == b \div 10
               y == BankMax \div 1000
               z == (BankMax - b) \div 990
    <2>1. x \in Int /\ y \in Int /\ z \in Int
      BY <1>1
    <2> HIDE DEF x, y, z
    <2>2. /\ Min({x, y, z}) \in {x, y, z}
          /\ Min({x, y, z}) <= x /\ Min({x, y, z}) <= y /\ Min({x, y, z}) <= z
      BY <2>1, Min3
    <2>3. QED
      BY <2>2 DEF m, x, y, z
  <1> HIDE DEF m
  <1>3. w <= m <=> w <= b \div 10 /\ w <= BankMax \div 1000 /\ w <= (BankMax - b) \div 990
    BY <1>1, <1>2
  <1>4. Fits("tenfold", w, b, capped) <=>
           /\ w <= BankMax /\ w <= BankMax \div 1000 /\ b >= w * 10 /\ b - w * 10 <= BankMax - w * 1000
           /\ capped => w * 10 <= PlayMax
    BY <1>1 DEF Fits, Divisor, TopMultiple, Count
  <1>5. QED
    BY <1>1, <1>3, <1>4 DEF m

\* A wager of the slot is ten lines.
LEMMA SlotLimit ==
    ASSUME NEW b \in Int, NEW capped \in BOOLEAN, NEW w \in Int, w >= Bet, Bet \in Int, Bet > 0, w % 10 = 0
    PROVE  Fits("slot", w, b, capped)
           <=> w <= Min({b, 10 * Min({BankMax \div 5201, (BankMax - b) \div 5191})})
               /\ (capped => w <= PlayMax)
  <1>1. BankMax \in Nat /\ PlayMax \in Nat
    BY WagersAssumption
  <1> DEFINE line == Min({BankMax \div 5201, (BankMax - b) \div 5191})
             m == Min({b, 10 * line})
             v == w \div 10
  <1>2. line \in Int /\ line \in {BankMax \div 5201, (BankMax - b) \div 5191}
        /\ line <= BankMax \div 5201 /\ line <= (BankMax - b) \div 5191
    BY <1>1, Min2
  <1> HIDE DEF line
  <1>3. m \in {b, 10 * line} /\ m <= b /\ m <= 10 * line
    <2> DEFINE x == 10 * line
    <2>1. x \in Int
      BY <1>2
    <2> HIDE DEF x
    <2>2. Min({b, x}) \in {b, x} /\ Min({b, x}) <= b /\ Min({b, x}) <= x
      BY <2>1, Min2
    <2>3. QED
      BY <2>2 DEF x
  <1>4. v \in Int /\ w = 10 * v
    OBVIOUS
  <1>5. Fits("slot", w, b, capped) <=>
           /\ w <= BankMax /\ v <= BankMax \div 5201 /\ b >= w /\ b - w <= BankMax - v * 5201
           /\ capped => w <= PlayMax
    BY <1>1 DEF Fits, Divisor, TopMultiple, Count
  <1> HIDE DEF m, v
  <1>6. w <= m <=> w <= b /\ v <= line
    BY <1>2, <1>3, <1>4
  <1>7. v <= line <=> v <= BankMax \div 5201 /\ v <= (BankMax - b) \div 5191
    BY <1>1, <1>2, <1>4
  <1>8. v <= (BankMax - b) \div 5191 <=> 5191 * v <= BankMax - b
    BY <1>1, <1>4
  <1>9. QED
    BY <1>1, <1>4, <1>5, <1>6, <1>7, <1>8 DEF m, line

\* One game: the limit is a wager that fits and one chip more does not.
Agrees(g, limit, b, capped) ==
    /\ limit >= Bet => Affordable(g, limit, b, capped)
    /\ ~Affordable(g, Greatest(Bet, limit + UnitsPerChip), b, capped)

\* A limit that is the largest number under the bounds agrees with the draw.
LEMMA LimitExact ==
    ASSUME NEW g, NEW b, NEW capped \in BOOLEAN, NEW units \in Int, NEW most \in Int,
           \A w \in Int : w >= Bet /\ w % 10 = 0 =>
              (Fits(g, w, b, capped) <=> w <= units /\ (capped => w <= most))
    PROVE  Agrees(g, Limited(units, most, capped), b, capped)
  <1> DEFINE limit == Limited(units, most, capped)
             next == Greatest(Bet, limit + UnitsPerChip)
  <1>1. /\ limit \in Int /\ limit <= units /\ (capped => limit <= most)
        /\ units < limit + UnitsPerChip \/ (capped /\ most < limit + UnitsPerChip)
        /\ limit % 10 = 0
    BY LimitBounds
  <1> HIDE DEF limit
  <1>2. next \in Int /\ next >= Bet /\ next >= limit + UnitsPerChip /\ next % 10 = 0
    BY <1>1, NextWager
  <1> HIDE DEF next
  <1>3. limit >= Bet => Fits(g, limit, b, capped)
    BY <1>1
  <1>4. ~Fits(g, next, b, capped)
    <2>1. units < next \/ (capped /\ most < next)
      BY <1>1, <1>2, Units
    <2>2. QED
      BY <1>2, <2>1
  <1>5. QED
    BY <1>3, <1>4, AffordableFits DEF Agrees, limit, next

\* The largest wager the bot computes for its user is one that the draw accepts, and
\* one chip more is not, for every balance, policy and unit of the economy
\* (internal/botgames/*_limits and Create, createBlackjack).
THEOREM LimitsAgreeHolds == bank \in Int /\ policy \in BOOLEAN => LimitsAgree
  <1> SUFFICES ASSUME bank \in Int, policy \in BOOLEAN, NEW g \in AllGames
               PROVE  Agrees(g, BotLimit(g, bank, policy), bank, policy)
    BY DEF LimitsAgree, Agrees
  <1>1. BankMax \in Nat /\ PlayMax \in Nat
    BY WagersAssumption
  <1>2. Bet \in Int /\ Bet > 0
    BY NextWager
  <1>3. CASE g = "dice"
    <2> DEFINE x == bank
               y == BankMax \div 2
               z == BankMax - bank
               units == Min({x, y, z})
    <2>1. x \in Int /\ y \in Int /\ z \in Int
      BY <1>1
    <2> HIDE DEF x, y, z
    <2>2. units \in Int
      <3>1. units \in {x, y, z}
        BY <2>1, Min3
      <3>2. QED
        BY <2>1, <3>1
    <2> USE DEF x, y, z
    <2>3. Agrees(g, Limited(units, PlayMax, policy), bank, policy)
      BY <1>1, <1>2, <1>3, <2>2, DiceLimit, LimitExact
    <2>4. QED
      BY <1>3, <2>3 DEF BotLimit, wagerLimits
  <1>4. CASE g \in {"scratch", "summon"}
    <2> DEFINE x == bank
               y == BankMax \div 100
               z == (BankMax - bank) \div 99
               units == Min({x, y, z})
    <2>1. x \in Int /\ y \in Int /\ z \in Int
      BY <1>1
    <2> HIDE DEF x, y, z
    <2>2. units \in Int
      <3>1. units \in {x, y, z}
        BY <2>1, Min3
      <3>2. QED
        BY <2>1, <3>1
    <2> USE DEF x, y, z
    <2>3. Agrees(g, Limited(units, PlayMax, policy), bank, policy)
      BY <1>1, <1>2, <1>4, <2>2, ScratchLimit, LimitExact
    <2>4. /\ BotLimit("scratch", bank, policy) = Limited(units, PlayMax, policy)
          /\ BotLimit("summon", bank, policy)
                = Limited(Min({bank \div 1, BankMax \div (100 * 1), (BankMax - bank) \div (99 * 1)}), PlayMax \div 1, policy)
      BY DEF BotLimit, scratchWagerLimits, summonWagerLimits
    <2>5. bank \div 1 = bank /\ PlayMax \div 1 = PlayMax /\ 100 * 1 = 100 /\ 99 * 1 = 99
      BY <1>1
    <2>6. BotLimit(g, bank, policy) = Limited(units, PlayMax, policy)
      BY <1>4, <2>4, <2>5
    <2>7. QED
      BY <2>3, <2>6
  <1>5. CASE g = "tenfold"
    <2> DEFINE x == bank \div 10
               y == BankMax \div 1000
               z == (BankMax - bank) \div 990
               units == Min({x, y, z})
    <2>1. x \in Int /\ y \in Int /\ z \in Int /\ PlayMax \div 10 \in Int
      BY <1>1
    <2> HIDE DEF x, y, z
    <2>2. units \in Int
      <3>1. units \in {x, y, z}
        BY <2>1, Min3
      <3>2. QED
        BY <2>1, <3>1
    <2> USE DEF x, y, z
    <2>3. Agrees(g, Limited(units, PlayMax \div 10, policy), bank, policy)
      BY <1>2, <1>5, <2>1, <2>2, TenfoldLimit, LimitExact
    <2>4. 100 * 10 = 1000 /\ 99 * 10 = 990
      OBVIOUS
    <2>5. BotLimit(g, bank, policy) = Limited(units, PlayMax \div 10, policy)
      BY <1>5, <2>4 DEF BotLimit, summonWagerLimits
    <2>6. QED
      BY <2>3, <2>5
  <1>6. CASE g = "blackjack"
    <2> DEFINE x == bank
               y == BankMax \div 17
               z == (BankMax - bank) \div 16
               units == Min({x, y, z})
    <2>1. x \in Int /\ y \in Int /\ z \in Int
      BY <1>1
    <2> HIDE DEF x, y, z
    <2>2. units \in Int
      <3>1. units \in {x, y, z}
        BY <2>1, Min3
      <3>2. QED
        BY <2>1, <3>1
    <2> USE DEF x, y, z
    <2>3. Agrees(g, Limited(units, PlayMax, policy), bank, policy)
      BY <1>1, <1>2, <1>6, <2>2, BlackjackLimit, LimitExact
    <2>4. QED
      BY <1>6, <2>3 DEF BotLimit, blackjackWagerLimits
  <1>7. CASE g = "slot"
    <2> DEFINE y == BankMax \div 5201
               z == (BankMax - bank) \div 5191
               line == Min({y, z})
               units == Min({bank, 10 * line})
    <2>1. y \in Int /\ z \in Int
      BY <1>1
    <2> HIDE DEF y, z
    <2>2. line \in Int
      BY <2>1, Min2
    <2> HIDE DEF line
    <2>3. 10 * line \in Int
      BY <2>2
    <2>4. units \in Int
      BY <2>3, Min2
    <2>5. \A w \in Int : w >= Bet /\ w % 10 = 0 =>
             (Fits(g, w, bank, policy) <=> w <= units /\ (policy => w <= PlayMax))
      BY <1>2, <1>7, SlotLimit DEF line, y, z
    <2> HIDE DEF units
    <2>6. Agrees(g, Limited(units, PlayMax, policy), bank, policy)
      BY <1>1, <2>4, <2>5, LimitExact
    <2> USE DEF units
    <2>7. BotLimit(g, bank, policy) = Limited(units, PlayMax, policy)
      BY <1>7 DEF BotLimit, slotWagerLimits, TopMultiple, line, y, z
    <2>8. QED
      BY <2>6, <2>7
  <1>8. QED
    BY <1>3, <1>4, <1>5, <1>6, <1>7 DEF AllGames
=============================================================================
