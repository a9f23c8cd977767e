----------------------------- MODULE GameConfig ------------------------------
(***************************************************************************)
(* The registry entry of one game with an editable prize table and the     *)
(* versions of its configuration (internal/games/ops.go, registry.go): an  *)
(* administrator clones, edits, validates and activates versions, and      *)
(* resolveRuntime decides at every round whether the active one may be     *)
(* played.  Each operation is one transaction that holds the registry row. *)
(***************************************************************************)
EXTENDS Integers, FiniteSets, FiniteSetsExt

CONSTANTS
    MaxVersion,     \* math.MaxInt64 for version numbers
    Tiers,          \* tiers of the prize table
    WeightTotal     \* sum of the weights of a table, 100000

VARIABLES
    registry,       \* games.game_registry, with the maintenance gate
    versions        \* games.game_config_versions and their artifacts

configVars == <<registry, versions>>

Versions == 1..MaxVersion
\* A table keeps the name of the built-in one or has a name of its own.
Tables == [builtin : BOOLEAN, weights : [Tiers -> 0..WeightTotal]]
Builtin == [builtin |-> TRUE,
            weights |-> [t \in Tiers |-> IF t = CHOOSE u \in Tiers : TRUE THEN WeightTotal ELSE 0]]
NoPrizes == [builtin |-> FALSE, weights |-> [t \in Tiers |-> 0]]
NoVersion == [status |-> "NONE", table |-> NoPrizes, artifact |-> NoPrizes]

ConfigInit ==
    /\ registry = [publication |-> "PUBLISHED", runtime |-> "AVAILABLE", active |-> 1, maintenance |-> FALSE]
    /\ versions = [v \in Versions |->
          IF v = 1 THEN [status |-> "ACTIVE", table |-> Builtin, artifact |-> Builtin] ELSE NoVersion]

\* newPrizeConfig: the weights are complete, and the built-in name means the built-in table.
newPrizeConfig(table) ==
    /\ SumFunction(table.weights) = WeightTotal
    /\ table.builtin => table = Builtin

ASSUME ConfigAssumption == MaxVersion \in Nat \ {0} /\ newPrizeConfig(Builtin)

\* nextOpsConfigVersion: the next number, until the numbers are exhausted.
nextOpsConfigVersion == LET last == Max({v \in Versions : versions[v].status # "NONE"})
                        IN  IF last = MaxVersion THEN {} ELSE {last + 1}

SetVersion(v, version) == versions' = [versions EXCEPT ![v] = version] /\ UNCHANGED registry

clone(v) ==
    /\ versions[v].status # "NONE"
    /\ \E next \in nextOpsConfigVersion :
          SetVersion(next, [NoVersion EXCEPT !.status = "DRAFT", !.table = versions[v].table])

\* Mutant: a version of any status is edited.
saveAnyStatus(v, table) ==
    /\ versions[v].status # "NONE" /\ newPrizeConfig(table)
    /\ SetVersion(v, [versions[v] EXCEPT !.table = table])
save(v, table) ==
    /\ versions[v].status = "DRAFT" /\ newPrizeConfig(table)
    /\ SetVersion(v, [versions[v] EXCEPT !.table = table])

\* The artifact holds the hash of the table and the statistics computed from it.
validate(v) ==
    /\ versions[v].status = "DRAFT"
    /\ SetVersion(v, [versions[v] EXCEPT !.status = "VALIDATED", !.artifact = versions[v].table])

verifyOpsValidationArtifact(v) == versions[v].artifact = versions[v].table

\* PREVIEWED is a status inside the transaction only.
activateOpsConfig(v) ==
    /\ versions' = [w \in Versions |->
          IF w = v THEN [versions[w] EXCEPT !.status = "ACTIVE"]
          ELSE IF versions[w].status = "ACTIVE" THEN [versions[w] EXCEPT !.status = "SUPERSEDED"]
          ELSE versions[w]]
    /\ registry' = [registry EXCEPT !.active = v]

changeOpsConfig(v) ==
    \/ clone(v) \/ validate(v)
    \/ \E table \in Tables : save(v, table)
    \/ versions[v].status = "VALIDATED" /\ verifyOpsValidationArtifact(v) /\ activateOpsConfig(v)

saveOpsGame(publication, runtime) ==
    /\ registry' = [registry EXCEPT !.publication = publication, !.runtime = runtime]
    /\ UNCHANGED versions

\* The gate of all games, switched by the maintenance console.
SetMaintenance(on) == registry' = [registry EXCEPT !.maintenance = on] /\ UNCHANGED versions

Publications == {"DRAFT", "PUBLISHED", "COMING_SOON", "RETIRED"}
Runtimes == {"AVAILABLE", "MAINTENANCE", "UNAVAILABLE"}

ConfigNext ==
    \/ \E v \in Versions : changeOpsConfig(v)
    \/ \E publication \in Publications, runtime \in Runtimes : saveOpsGame(publication, runtime)
    \/ \E on \in BOOLEAN : SetMaintenance(on)

ConfigSpec == ConfigInit /\ [][ConfigNext]_configVars

\* configByID: a stored version loads as the compiled game that accepts its table.
configByID(version) == newPrizeConfig(version.table)

\* resolveRuntime: the state in which players find the game.
resolveRuntime ==
    LET active == versions[registry.active]
        open == registry.runtime # "UNAVAILABLE"
        halted == registry.maintenance \/ registry.runtime = "MAINTENANCE"
        sound == active.status = "ACTIVE" /\ configByID(active) /\ active.artifact = active.table
    IN  CASE registry.publication \in {"COMING_SOON", "RETIRED"} -> registry.publication
          [] registry.publication = "DRAFT" -> "NOT_FOUND"
          [] OTHER -> IF open /\ ~sound THEN "TEMPORARILY_UNAVAILABLE"
                      ELSE IF halted THEN "MAINTENANCE"
                      ELSE IF open THEN "PLAY" ELSE "TEMPORARILY_UNAVAILABLE"

\* Whatever versions are cloned, edited and activated, a game that is published and
\* available can be played: its one active version is the registry's, and is still the
\* table its artifact was computed from.
ConfigServes ==
    /\ {v \in Versions : versions[v].status = "ACTIVE"} = {registry.active}
    /\ registry.publication = "PUBLISHED" /\ registry.runtime = "AVAILABLE" /\ ~registry.maintenance
          => resolveRuntime = "PLAY"
=============================================================================
