------------------------------ MODULE Campaign ------------------------------
(***************************************************************************)
(* The balance-reset campaign (internal/platform/gambler_campaign.go): the *)
(* administrator's commands and the worker that runs one account per       *)
(* transaction, so that a crash loses nothing.  Assets are snapshotted,    *)
(* badges granted, balances checked, reset, and the economic policy        *)
(* activated.  What fences the batches from the users is a maintenance     *)
(* window, which an administrator may end between any two of them.         *)
(*                                                                         *)
(* Every window covers the scopes of the campaign.  A batch that is        *)
(* blocked only records why, which is not modelled.                        *)
(***************************************************************************)
EXTENDS Integers, FiniteSets

CONSTANTS Accounts,      \* the account ids, in the order of the batches
          MaxUnits,      \* bound on a balance
          ResetUnits,    \* the balance after the reset
          Threshold,     \* total assets above this earn the badge
          MaxWindows,    \* bound on the maintenance windows
          MaxChanges     \* bound on the changes of balances by others

\* Account ids are positive and one account exists; amounts are units of assets.
ASSUME CampaignAssumption ==
    /\ Accounts \subseteq Nat \ {0} /\ 1 \in Accounts
    /\ MaxUnits \in Nat /\ ResetUnits \in Nat /\ Threshold \in Nat

VARIABLES row,           \* economy.gambler_campaigns
          acct,          \* economy.gambler_campaign_accounts
          units,         \* the assets of each account
          registered,    \* identity.account_refs
          badges,        \* identity.account_badges
          window,        \* the active maintenance window, 0 for none
          windows,       \* windows so far
          accepted,      \* accepted work that is not settled: games, relay requests
          actorAdmin,    \* whether the admin of the command is one still
          adjusted,      \* whether an admin posted an adjustment since the command
          changes        \* changes of balances so far
campaignVars == <<row, acct, units, registered, badges, window, windows, accepted, actorAdmin,
                  adjusted, changes>>

Unset == -1
NoAccount == [snapshot |-> Unset, snapshotMember |-> FALSE, eligible |-> FALSE,
              resetMember |-> FALSE, before |-> Unset, state |-> "PENDING", resets |-> 0]

CampaignInit ==
    /\ row = [phase |-> "DRAFT", window |-> 0, cut |-> FALSE, pending |-> FALSE,
              verifying |-> "", cursor |-> 0, activated |-> FALSE, published |-> FALSE]
    /\ acct = [a \in Accounts |-> NoAccount]
    /\ units = [a \in Accounts |-> IF a = 1 THEN MaxUnits ELSE 0]
    /\ registered = {1} /\ badges = {} /\ window = 0 /\ windows = 0
    /\ accepted = {} /\ actorAdmin = TRUE /\ adjusted = FALSE /\ changes = 0
-----------------------------------------------------------------------------
(* The rest of the platform. *)

\* saveMaintenance ends the active window, and opens a new one if enabled.
SaveWindow ==
    /\ \/ window # 0 /\ window' = 0 /\ UNCHANGED windows
       \/ windows < MaxWindows /\ windows' = windows + 1 /\ window' = windows + 1
    /\ UNCHANGED <<row, acct, units, registered, badges, accepted, actorAdmin, adjusted, changes>>
RegisterAccount(a) ==
    /\ a \notin registered /\ window = 0
    /\ registered' = registered \cup {a}
    /\ UNCHANGED <<row, acct, units, badges, window, windows, accepted, actorAdmin, adjusted, changes>>
\* Work is accepted while there is no maintenance, and settles in it too; the drain
\* counts the games and not the relay requests.
AcceptWork(kind) ==
    /\ window = 0 /\ kind \notin accepted /\ changes + Cardinality(accepted) < MaxChanges
    /\ accepted' = accepted \cup {kind}
    /\ UNCHANGED <<row, acct, units, registered, badges, window, windows, actorAdmin, adjusted, changes>>
SettleWork(kind, a, v) ==
    /\ kind \in accepted /\ a \in registered
    /\ accepted' = accepted \ {kind} /\ changes' = changes + 1
    /\ units' = [units EXCEPT ![a] = v]
    /\ UNCHANGED <<row, acct, registered, badges, window, windows, actorAdmin, adjusted>>
\* An administrator's adjustment asks for no maintenance scope.
OpsAdjust(a, v) ==
    /\ a \in registered /\ v # units[a] /\ changes < MaxChanges /\ changes' = changes + 1
    /\ units' = [units EXCEPT ![a] = v] /\ adjusted' = TRUE
    /\ UNCHANGED <<row, acct, registered, badges, window, windows, accepted, actorAdmin>>
LoseAuthority ==
    /\ actorAdmin /\ row.phase # "DRAFT" /\ actorAdmin' = FALSE
    /\ UNCHANGED <<row, acct, units, registered, badges, window, windows, accepted, adjusted, changes>>
-----------------------------------------------------------------------------
(* Checkpoints. *)

\* The members that a verification compares, and with what.
Snapshotting == row.phase \in {"SNAPSHOT_PREPARING", "SNAPSHOT_READY", "GRANTED"}
Saved(a) ==
    IF Snapshotting THEN acct[a].snapshotMember /\ acct[a].snapshot # Unset
    ELSE acct[a].resetMember /\ acct[a].before # Unset
Expected(a) ==
    IF Snapshotting THEN acct[a].snapshot
    ELSE IF acct[a].state = "COMPLETED" THEN ResetUnits ELSE acct[a].before
After(cursor) == {a \in Accounts : a > cursor /\ Saved(a)}
Lowest(as) == CHOOSE a \in as : \A b \in as : a <= b

\* verifyCheckpointBatch, one account: the cursor after it, if it has not changed.
Cursor(label) == IF row.verifying = label THEN row.cursor ELSE 0
Unchanged(label) ==
    LET open == After(Cursor(label))
    IN  open # {} => units[Lowest(open)] = Expected(Lowest(open))
Moved(label) ==
    LET open == After(Cursor(label))
    IN  IF open = {} THEN Cursor(label) ELSE Lowest(open)
Finished(label) == After(Moved(label)) = {}
Verified(label) == [row EXCEPT !.verifying = label, !.cursor = Moved(label)]

\* verifyReset, in one query over the wallets.
VerifyReset(completed) ==
    /\ ~row.pending
    /\ \A a \in Accounts : acct[a].resetMember =>
          /\ acct[a].before # Unset
          /\ acct[a].state \in IF completed THEN {"COMPLETED"} ELSE {"CHECKED", "COMPLETED"}
          /\ units[a] = Expected(a)
-----------------------------------------------------------------------------
(* Commands of the administrator (saveGambler). *)

\* Maintenance is on and the games are drained; where a checkpoint begins the
\* operator confirms that no accepted request is left either.
Quiet == window # 0 /\ "GAME" \notin accepted
Drained == Quiet /\ accepted = {}
Accepts(phases) == row.phase \in phases /\ actorAdmin' = TRUE /\ adjusted' = FALSE
Others == UNCHANGED <<acct, units, registered, window, windows, accepted, changes>>

Snapshot ==
    /\ Accepts({"DRAFT"}) /\ Drained
    /\ row' = [row EXCEPT !.phase = "SNAPSHOT_PREPARING", !.window = window]
    /\ UNCHANGED badges /\ Others
Grant ==
    /\ row.phase = "SNAPSHOT_READY" /\ Quiet /\ ~row.pending
    /\ row' = [row EXCEPT !.phase = "GRANTED"]
    /\ badges' = {a \in Accounts : acct[a].eligible}
    /\ UNCHANGED <<actorAdmin, adjusted>> /\ Others
PrepareReset ==
    /\ Accepts({"GRANTED"}) /\ Drained /\ ~row.pending
    /\ row' = [row EXCEPT !.phase = "RESET_PREPARING", !.window = window, !.cut = FALSE]
    /\ UNCHANGED badges /\ Others
\* The window of the checkpoint must have been active ever since.
StartReset ==
    /\ Accepts({"RESET_READY"}) /\ Drained /\ VerifyReset(FALSE) /\ row.window = window
    /\ row' = [row EXCEPT !.phase = "RESET_RUNNING"]
    /\ UNCHANGED badges /\ Others
Resume ==
    /\ Accepts({"SNAPSHOT_PREPARING", "SNAPSHOT_READY", "RESET_PREPARING", "RESET_READY",
                "RESET_RUNNING", "COMPLETED"})
    /\ Drained
    /\ row' = [row EXCEPT !.window = window, !.pending = row.phase # "SNAPSHOT_READY",
                          !.verifying = "", !.cursor = 0]
    /\ UNCHANGED badges /\ Others
Activate ==
    /\ Accepts({"COMPLETED"}) /\ ~row.activated /\ Quiet /\ VerifyReset(TRUE)
    /\ row' = [row EXCEPT !.activated = TRUE]
    /\ UNCHANGED badges /\ Others
-----------------------------------------------------------------------------
(* The worker (runBatchInTx). *)

\* Mutant: any active window will do.
gamblerAnyMaintenance == window # 0
\* The window of the accepted command is still the active one.
gamblerMaintenance == row.window # 0 /\ row.window = window
Runs == actorAdmin /\ gamblerMaintenance /\ "GAME" \notin accepted
Kept == UNCHANGED <<registered, badges, window, windows, accepted, actorAdmin, adjusted, changes>>

\* A resumed checkpoint is compared before anything else runs.
Reverify ==
    /\ row.pending /\ Runs /\ Unchanged("RESUME")
    /\ row' = [Verified("RESUME") EXCEPT !.pending = ~Finished("RESUME")]
    /\ UNCHANGED <<acct, units>> /\ Kept

\* The first batch of a phase fixes its members.
Cohort ==
    CASE row.phase = "SNAPSHOT_PREPARING" /\ ~row.cut ->
            [a \in Accounts |-> [acct[a] EXCEPT !.snapshotMember = a \in registered]]
      [] row.phase = "RESET_PREPARING" /\ ~row.cut ->
            [a \in Accounts |-> [acct[a] EXCEPT !.resetMember = a \in registered]]
      [] OTHER -> acct
Todo(cohort) ==
    {a \in Accounts :
        CASE row.phase = "SNAPSHOT_PREPARING" -> cohort[a].snapshotMember /\ cohort[a].snapshot = Unset
          [] row.phase = "RESET_PREPARING" -> cohort[a].resetMember /\ cohort[a].state = "PENDING"
          [] row.phase = "RESET_RUNNING" -> cohort[a].resetMember /\ cohort[a].state = "CHECKED"
          [] OTHER -> FALSE}
Working == row.phase \in {"SNAPSHOT_PREPARING", "RESET_PREPARING", "RESET_RUNNING"} /\ ~row.pending

\* processAccount, under the locks of the account; a balance that is not the one
\* that was checked blocks the campaign.
ProcessAccount ==
    LET todo == Todo(Cohort)
        a == Lowest(todo)
    IN  /\ Working /\ Runs /\ todo # {}
        /\ row.phase = "RESET_RUNNING" => acct[a].before = units[a]
        /\ acct' = [Cohort EXCEPT ![a] =
              CASE row.phase = "SNAPSHOT_PREPARING" ->
                      [@ EXCEPT !.snapshot = units[a], !.eligible = units[a] > Threshold]
                [] row.phase = "RESET_PREPARING" ->
                      [@ EXCEPT !.before = units[a], !.state = "CHECKED"]
                [] OTHER -> [@ EXCEPT !.state = "COMPLETED", !.resets = acct[a].resets + 1]]
        /\ units' = IF row.phase = "RESET_RUNNING" THEN [units EXCEPT ![a] = ResetUnits] ELSE units
        /\ row' = [row EXCEPT !.cut = TRUE]
        /\ Kept
\* Nothing is left: all members are compared once more, then the phase is sealed.
Seal ==
    /\ Working /\ Runs /\ Todo(Cohort) = {} /\ Unchanged(row.phase)
    /\ row' = IF ~Finished(row.phase) THEN Verified(row.phase)
              ELSE [Verified(row.phase) EXCEPT !.phase =
                       CASE row.phase = "SNAPSHOT_PREPARING" -> "SNAPSHOT_READY"
                         [] row.phase = "RESET_PREPARING" -> "RESET_READY"
                         [] OTHER -> "COMPLETED"]
    /\ UNCHANGED <<acct, units>> /\ Kept

\* RefreshRankings, after the maintenance.
RefreshRankings ==
    /\ row.activated /\ ~row.published /\ window = 0
    /\ row' = [row EXCEPT !.published = TRUE]
    /\ UNCHANGED <<acct, units>> /\ Kept

CampaignNext ==
    \/ SaveWindow \/ LoseAuthority
    \/ \E a \in Accounts : RegisterAccount(a)
    \/ \E kind \in {"GAME", "RELAY"} :
          AcceptWork(kind) \/ \E a \in Accounts, v \in 0..MaxUnits : SettleWork(kind, a, v)
    \/ \E a \in Accounts, v \in 0..MaxUnits : OpsAdjust(a, v)
    \/ Snapshot \/ Grant \/ PrepareReset \/ StartReset \/ Resume \/ Activate
    \/ Reverify \/ ProcessAccount \/ Seal \/ RefreshRankings

CampaignSpec == CampaignInit /\ [][CampaignNext]_campaignVars
-----------------------------------------------------------------------------
\* What a step may seal, grant and activate.
Exactly ==
    /\ row'.phase # row.phase /\ ~adjusted =>
          /\ row'.phase = "SNAPSHOT_READY" =>
                \A a \in Accounts : acct[a].snapshotMember => acct[a].snapshot = units[a]
          /\ row'.phase = "RESET_READY" =>
                \A a \in Accounts : acct[a].resetMember => acct[a].before = units[a]
    /\ badges' # badges => badges' = {a \in Accounts : acct[a].snapshot > Threshold}
    /\ row'.activated # row.activated =>
          \A a \in Accounts : acct[a].resetMember => units[a] = ResetUnits /\ acct[a].resets = 1

\* The campaign does to everybody what it says, though users play between its
\* batches: a checkpoint is sealed when every member's saved assets are its assets
\* at that moment (unless an administrator adjusted one of them, which no window
\* fences), badges go to the members above the threshold of one sealed snapshot, each
\* member is reset once, and the policy is activated over reset balances only.
CampaignExact == [][Exactly]_campaignVars
=============================================================================
