----------------------------- MODULE PokerOps -----------------------------
(***************************************************************************)
(* The operations console of a poker table (internal/poker/ops.go): the    *)
(* commands an administrator runs through the table's actor, beside the    *)
(* players, the host and the ticker of PokerTable.                         *)
(*                                                                         *)
(* An emergency pause or an escalation puts the table under review: its    *)
(* actor then refuses every command, the ticker's included, but the        *)
(* recovery requests of the console.  Every console command ends with one  *)
(* UPDATE that writes the lifecycle and the two switches the transaction   *)
(* holds in memory, over whatever the hand or the boundary wrote before.   *)
(***************************************************************************)
EXTENDS PokerTable

CONSTANT MaxStops           \* bound on the emergency pauses and escalations

VARIABLE console            \* review: recovery_state is NEEDS_REVIEW; row: it exists
opsVars == <<vars, console>>

OpsInit == Init /\ console = [review |-> FALSE, row |-> FALSE, stops |-> 0]

\* The UPDATE that ends applyOpsCommand: d are the rows, m the row in memory.
OpsWrite(d, m) ==
    [d EXCEPT !.table.state = m.state, !.table.accepting = m.accepting,
              !.table.allow = m.allow,
              !.table.pause = IF m.state = "INTERMISSION" THEN Intermission ELSE @]

\* The row in memory after a step of the hand: a settlement and the end of the
\* grace are known to it, a table closed or a hand started by the step are not.
InMemory(d) ==
    [db.table EXCEPT !.state =
        IF HandOpen(db) /\ ~HandOpen(d) THEN SettledState(db)
        ELSE IF db.hand.grace = 0 /\ d.hand.grace = -1 THEN ResumedState(db)
        ELSE @]

\* execute: under review only the commands that may enter it.
Accepts(reviewed) == Running /\ Offered("CONSOLE") /\ (console.review => reviewed)
OpsCommits(d, m) ==
    /\ db' = OpsWrite(d, m)
    /\ UNCHANGED <<actor, crashes, scene>>
-----------------------------------------------------------------------------
(* Commands that need no review. *)

OpsSetAccepting(accepting) ==
    /\ Accepts(FALSE)
    /\ OpsCommits(db, [db.table EXCEPT !.accepting = accepting])
    /\ UNCHANGED console

OpsSetNewHands(allow) ==
    /\ Accepts(FALSE)
    /\ OpsCommits(db, [db.table EXCEPT !.allow = allow,
                          !.state = IF ~allow /\ @ \in {"WAITING", "INTERMISSION"} THEN "PAUSED"
                                    ELSE IF allow /\ @ = "PAUSED" THEN "INTERMISSION" ELSE @])
    /\ UNCHANGED console

\* POKER_TABLE_PAUSE and _RESUME; a table under recovery is not resumed.
OpsSetTable(resume) ==
    /\ resume => db.table.state # "RECOVERING"
    /\ OpsSetNewHands(resume)

ClosingRow(d) == [d.table EXCEPT !.state = "CLOSING", !.accepting = FALSE, !.allow = FALSE]

\* The boundary comes after the UPDATE, which would undo its CLOSED.
OpsCloseAfterHand ==
    /\ Accepts(FALSE)
    /\ \E d \in boundary(OpsWrite(AllLeave(db), ClosingRow(db))) : Commits(d)
    /\ UNCHANGED console

OpsRemovePlayer(s) ==
    /\ Accepts(FALSE) /\ s \in Seated(db)
    /\ OpsCommits(Leave(db, s), db.table)
    /\ UNCHANGED console
-----------------------------------------------------------------------------
(* Review and recovery. *)

\* POKER_EMERGENCY_PAUSE, and ESCALATE.
EmergencyPause ==
    /\ Accepts(TRUE) /\ console.stops < MaxStops
    /\ OpsCommits([db EXCEPT !.table.previous = recoveryPreviousState(db)],
                  [db.table EXCEPT !.state = "RECOVERING", !.accepting = FALSE, !.allow = FALSE])
    /\ console' = [review |-> TRUE, row |-> TRUE, stops |-> console.stops + 1]

\* RECOVER: a hand that was not dealt is dealt and the table stays under review;
\* a hand in play gets its grace and the ticker back; between hands the table is
\* paused, whatever its state was.
OpsRecover ==
    /\ Accepts(TRUE) /\ console.review
    /\ \/ /\ db.hand.state = "COMMITTED"
          /\ \E d \in recoverMutation(db) : OpsCommits(d, InMemory(d))
          /\ UNCHANGED console
       \/ /\ db.hand.state = "PLAYING"
          /\ \E d \in recoverMutation(db) : OpsCommits(d, db.table)
          /\ console' = [console EXCEPT !.review = FALSE]
       \/ /\ db.hand.state = "SETTLED"
          /\ \E d \in (IF db.table.started THEN recoverMutation(db) ELSE {db}) :
                OpsCommits([d EXCEPT !.table.previous = "NONE"],
                           [db.table EXCEPT !.state = "PAUSED"])
          /\ console' = [console EXCEPT !.review = FALSE]

\* tickMutation for the hand of the table, as the rows it may leave.  A hand that
\* may start is only reported: the ticker prepares it, in a transaction of its own.
TickOutcomes ==
    IF db.hand.state = "COMMITTED" THEN dealHand(db)
    ELSE IF db.hand.state = "PLAYING"
    THEN IF db.hand.grace = -1 THEN persistEngine(db)
         ELSE {[db EXCEPT !.hand.grace = -1, !.table.previous = "NONE"]}
    ELSE IF Due(db) THEN boundary(db)
    ELSE IF db.table.empty = EmptyLimit /\ Seated(db) = {} THEN {closeTableIfSettled(db)}
    ELSE IF /\ db.table.allow /\ db.table.state \in {"WAITING", "INTERMISSION"} /\ db.table.pause = 0
            /\ Cardinality(selectParticipants(db).players) >= 2
    THEN {db} ELSE {}

\* RESUME, refused during the grace: a step of the ticker, or, at a table that
\* never dealt, the next hand.
OpsResume ==
    /\ Accepts(FALSE) /\ console.row
    /\ db.table.previous # "NONE" => db.hand.grace \in {-1, 0}
    /\ \/ /\ db.table.started
          /\ \E d \in TickOutcomes : OpsCommits(d, InMemory(d))
       \/ /\ ~db.table.started
          /\ OpsCommits(db, [db.table EXCEPT !.state = "INTERMISSION", !.allow = TRUE])
    /\ UNCHANGED console

\* SAFE_CLOSE: queued; the ticker, or the boundary after the hand, carries it out.
SafeClose ==
    /\ Accepts(TRUE) /\ (console.review \/ db.table.state = "RECOVERING")
    /\ OpsCommits(AllLeave(db), ClosingRow(db))
    /\ UNCHANGED console
-----------------------------------------------------------------------------
\* Under review the actor refuses the recovery of a new actor, too.
HydrateReviewed ==
    /\ actor = "HYDRATING" /\ console.review
    /\ actor' = "RUNNING" /\ UNCHANGED <<db, crashes, scene, console>>

\* Removing a spectator and moderating the chat write nothing that these rules read.
Console ==
    \/ \E on \in BOOLEAN : OpsSetAccepting(on) \/ OpsSetNewHands(on) \/ OpsSetTable(on)
    \/ OpsCloseAfterHand \/ EmergencyPause \/ OpsRecover \/ OpsResume \/ SafeClose
    \/ \E s \in Seats : OpsRemovePlayer(s)

RecoveryRow == console' = [console EXCEPT !.row = @ \/ db'.table.previous # "NONE"]
\* The steps of PokerTable, of which a review leaves the process and the clock.
TableStep ==
    /\ IF console.review THEN Crash \/ StartActor \/ TimePasses ELSE Next
    /\ RecoveryRow

OpsNext == Console \/ HydrateReviewed \/ TableStep

Ticked(A) == ~console.review /\ A /\ RecoveryRow
\* As in PokerTable, while the ticker is not refused; and an administrator who
\* stopped a table ends the review.
OpsFairness ==
    /\ WF_opsVars(Ticked(Deal)) /\ WF_opsVars(Ticked(TickTimeout /\ ~HandOpen(db)'))
    /\ WF_opsVars(Ticked(TickResume)) /\ WF_opsVars(Ticked(TickBoundary))
    /\ WF_opsVars(Ticked(TickClose)) /\ WF_opsVars(Ticked(Hydrate))
    /\ WF_opsVars(StartActor /\ RecoveryRow) /\ WF_opsVars(TimePasses /\ RecoveryRow)
    /\ WF_opsVars(HydrateReviewed) /\ WF_opsVars(OpsRecover)

OpsSpec == OpsInit /\ [][OpsNext]_opsVars /\ OpsFairness
-----------------------------------------------------------------------------
\* A table whose close was requested pays everyone out and closes, whatever hand
\* was running, whoever is away, and across restarts.  Where an administrator stops
\* it before or after, deals or resumes the hand from the console, or restarts
\* happen meanwhile, it still ends its hand and pays everyone out, unless players
\* are let in again.  (The table itself may stay PAUSED and empty then: OpsRecover
\* forgets the CLOSING.)
CloseCompletes ==
    CloseRequested(db) ~>
        \/ db.table.state = "CLOSED"
        \/ /\ Offered("CONSOLE")
           /\ (Seated(db) = {} /\ ~HandOpen(db)) \/ db.table.accepting
=============================================================================
