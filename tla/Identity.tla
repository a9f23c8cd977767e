------------------------------ MODULE Identity ------------------------------
(***************************************************************************)
(* Logins, browser sessions and account changes (internal/identity).  The  *)
(* account is a row of PostgreSQL, its sessions, second-factor challenges, *)
(* OAuth states and password proofs are keys of Redis: no transaction      *)
(* spans both.  What keeps them together is the lock of the user's row,    *)
(* held from the check of the credentials to the COMMIT while the keys are *)
(* written, and the index by which RevokeUser finds every key of a user.   *)
(*                                                                         *)
(* One person is modelled, registered or not, with several requests in     *)
(* flight.  The time to live of keys is the environment step Expire.       *)
(***************************************************************************)
EXTENDS Naturals

CONSTANTS LoginRequests,      \* concurrent HTTP requests
          MaxTokens,     \* bound on the Redis keys made
          MaxStarted,    \* bound on the requests that arrive
          MaxSecurity,   \* bound on the committed changes of the account
          FailLimit      \* wrong second factors that lock it (5 in the code)
ASSUME IdentityAssumption ==
    /\ MaxTokens \in Nat /\ MaxStarted \in Nat /\ MaxSecurity \in Nat /\ FailLimit \in Nat \ {0}
    /\ "NOBODY" \notin LoginRequests

VARIABLES account,   \* the row: security counts its committed sensitive changes
          holder,    \* the request that holds the row lock
          redis,     \* per token its key
          minted,    \* tokens made so far
          started,   \* requests that arrived so far
          req        \* per request its operation and where it is
identityVars == <<account, holder, redis, minted, started, req>>

Tokens == 1..MaxTokens
NoKey == [kind |-> "NONE", born |-> 0, from |-> 0]
Ready == [op |-> "NONE", step |-> "IDLE", token |-> 0, proof |-> 0, password |-> 0, made |-> 0]
Unlocked == "NOBODY"

IdentityInit ==
    /\ \E registered \in BOOLEAN, factor \in {"OFF", "ON"} :
          /\ factor = "ON" => registered
          /\ account = [exists |-> registered, status |-> TRUE, password |-> 0, factor |-> factor,
                        failed |-> 0, locked |-> FALSE, security |-> 0,
                        receipts |-> IF registered THEN 1 ELSE 0]
    /\ holder = Unlocked /\ minted = 0 /\ started = 0
    /\ redis = [t \in Tokens |-> NoKey]
    /\ req = [r \in LoginRequests |-> Ready]

Live(t) == redis[t].kind # "NONE"
AdminOps == {"STATUS", "KICK", "RESET_2FA"}
\* The changes that revoke every session of the account.
ChangeOps == {"CHANGE", "RESET", "FACTOR_ON", "FACTOR_OFF"}
AccountOps == ChangeOps \cup {"SETUP", "PROVE"}

Step(r, step) == req' = [req EXCEPT ![r].step = step]
\* The transaction ends, committed or rolled back.
ReleaseRow(r) == holder' = Unlocked /\ req' = [req EXCEPT ![r] = Ready]
Delete(ts) == redis' = [t \in Tokens |-> IF t \in ts THEN NoKey ELSE redis[t]]
\* createSession: a key of the user's index.
Mint(kind, born, from) ==
    /\ minted < MaxTokens
    /\ minted' = minted + 1
    /\ redis' = [redis EXCEPT ![minted + 1] = [kind |-> kind, born |-> born, from |-> from]]
-----------------------------------------------------------------------------
(* Requests arrive. *)

Arrives(r) == req[r] = Ready /\ started < MaxStarted /\ started' = started + 1

\* Password login, with the password as it is when it is typed.
StartLogin(r) ==
    /\ Arrives(r)
    /\ req' = [req EXCEPT ![r] = [Ready EXCEPT !.op = "LOGIN", !.step = "LOCK",
                                               !.password = account.password]]
    /\ UNCHANGED <<account, holder, redis, minted>>

\* discordStart: the state that the callback must bring back.
DiscordStart(r) ==
    /\ Arrives(r) /\ Mint("STATE", account.security, 0)
    /\ UNCHANGED <<account, holder, req>>
\* discordCallback reads the state, asks Discord, and then consumes it.
DiscordCallback(r, t, op) ==
    /\ Arrives(r) /\ redis[t].kind = "STATE" /\ op \in {"DISCORD", "REGISTER"}
    /\ req' = [req EXCEPT ![r] = [Ready EXCEPT !.op = op, !.step = "CONSUME_STATE", !.token = t]]
    /\ UNCHANGED <<account, holder, redis, minted>>
ConsumeState(r) ==
    LET t == req[r].token
    IN  /\ req[r].step = "CONSUME_STATE"
        /\ Delete({t})
        /\ IF redis[t].kind = "STATE" THEN Step(r, "LOCK") ELSE req' = [req EXCEPT ![r] = Ready]
        /\ UNCHANGED <<account, holder, minted, started>>

\* SecondFactorLogin reads the challenge before it locks the user.
StartFactor(r, t) ==
    /\ Arrives(r) /\ redis[t].kind = "FLOW"
    /\ req' = [req EXCEPT ![r] = [Ready EXCEPT !.op = "FACTOR", !.step = "LOCK", !.token = t]]
    /\ UNCHANGED <<account, holder, redis, minted>>

\* A request with a session cookie: HTTP.read gets the key and then renews it.
StartBrowser(r, t, op, proof) ==
    /\ Arrives(r) /\ redis[t].kind = "SESSION"
    /\ op \in AccountOps \cup {"USE", "LOGOUT"}
    /\ IF op = "RESET" THEN redis[proof].kind = "PROOF" ELSE proof = t
    /\ req' = [req EXCEPT ![r] = [Ready EXCEPT !.op = op, !.step = "RENEW", !.token = t,
                                     !.proof = IF op = "RESET" THEN proof ELSE 0,
                                     !.password = IF op = "CHANGE" THEN account.password ELSE 0]]
    /\ UNCHANGED <<account, holder, redis, minted>>

StartAdmin(r, op) ==
    /\ Arrives(r) /\ op \in AdminOps /\ account.exists
    /\ req' = [req EXCEPT ![r] = [Ready EXCEPT !.op = op, !.step = "LOCK"]]
    /\ UNCHANGED <<account, holder, redis, minted>>
-----------------------------------------------------------------------------
(* Sessions. *)

\* Read: SET XX renews a key that is still there.
Renew(r) ==
    LET t == req[r].token
        locked == req[r].step = "RENEW_LOCKED"
    IN  /\ req[r].step \in {"RENEW", "RENEW_LOCKED"}
        /\ IF redis[t].kind = "SESSION"
           THEN Step(r, IF locked THEN "WORK" ELSE "SERVE") /\ UNCHANGED holder
           ELSE IF locked THEN ReleaseRow(r)
           ELSE req' = [req EXCEPT ![r] = Ready] /\ UNCHANGED holder
        /\ UNCHANGED <<account, redis, minted, started>>

\* The live status of the user is checked, then the request runs.
Serve(r) ==
    /\ req[r].step = "SERVE"
    /\ IF account.exists /\ account.status /\ req[r].op \in AccountOps
       THEN Step(r, "LOCK")
       ELSE req' = [req EXCEPT ![r] = Ready]
    /\ IF account.exists /\ account.status /\ req[r].op = "LOGOUT"
       THEN Delete({req[r].token}) ELSE UNCHANGED redis
    /\ UNCHANGED <<account, holder, minted, started>>
-----------------------------------------------------------------------------
(* Under the row lock. *)

\* The row as it is once the lock is held decides.
Admitted(r) ==
    CASE req[r].op = "LOGIN" ->
            account.exists /\ account.status /\ req[r].password = account.password
      [] req[r].op \in AdminOps -> account.exists
      [] req[r].op = "REGISTER" -> account.exists => account.status
      [] OTHER -> account.exists /\ account.status
FirstStep(op) ==
    CASE op \in {"LOGIN", "DISCORD", "REGISTER"} -> "ISSUE"
      [] op = "FACTOR" -> "REREAD"
      [] op \in AdminOps -> "REVOKE"
      [] OTHER -> "GET_LOCKED"
\* FOR UPDATE of the user; a registration locks the receipt counter before.
LockRow(r) ==
    /\ req[r].step = "LOCK" /\ holder = Unlocked
    /\ IF Admitted(r) THEN holder' = r /\ Step(r, FirstStep(req[r].op)) ELSE ReleaseRow(r)
    /\ UNCHANGED <<account, redis, minted, started>>

\* accountTx reads the cookie again.
GetLocked(r) ==
    /\ req[r].step = "GET_LOCKED"
    /\ IF redis[req[r].token].kind = "SESSION"
       THEN Step(r, "RENEW_LOCKED") /\ UNCHANGED holder ELSE ReleaseRow(r)
    /\ UNCHANGED <<account, redis, minted, started>>

\* The challenge may have been used or revoked since it was read.
Reread(r) ==
    /\ req[r].step = "REREAD"
    /\ IF redis[req[r].token].kind = "FLOW" THEN Step(r, "CODE") /\ UNCHANGED holder
       ELSE ReleaseRow(r)
    /\ UNCHANGED <<account, redis, minted, started>>

\* authenticateSecondFactor: a wrong code is counted and committed.
FactorUsable == account.factor = "ON" /\ ~account.locked
Failed == [account EXCEPT !.failed = IF @ < FailLimit THEN @ + 1 ELSE @,
                          !.locked = account.failed + 1 >= FailLimit]
Passed == [account EXCEPT !.failed = 0, !.locked = FALSE]
CheckCode(r) ==
    /\ req[r].step = "CODE"
    /\ \/ /\ FactorUsable /\ account' = Passed
          /\ Step(r, IF req[r].op = "FACTOR" THEN "CONSUME_FLOW" ELSE "REVOKE")
          /\ UNCHANGED holder
       \/ FactorUsable /\ account' = Failed /\ ReleaseRow(r)
       \/ ~FactorUsable /\ UNCHANGED account /\ ReleaseRow(r)
    /\ UNCHANGED <<redis, minted, started>>

ConsumeFlow(r) ==
    /\ req[r].step = "CONSUME_FLOW"
    /\ Delete({req[r].token}) /\ Step(r, "ISSUE")
    /\ UNCHANGED <<account, holder, minted, started>>

\* finishLogin: a challenge when the account has a second factor; issueLogin else.
Issue(r) ==
    /\ req[r].step = "ISSUE"
    /\ IF account.factor = "ON" /\ req[r].op # "FACTOR"
       THEN Mint("FLOW", account.security, 0)
       ELSE Mint("SESSION", account.security, IF req[r].op = "FACTOR" THEN req[r].token ELSE 0)
    /\ req' = [req EXCEPT ![r].step = "COMMIT", ![r].made = minted + 1]
    /\ UNCHANGED <<account, holder, started>>

\* What the operation checks before it writes.
Work(r) ==
    LET op == req[r].op
    IN  /\ req[r].step = "WORK"
        /\ CASE op = "PROVE" -> /\ Mint("PROOF", account.security, req[r].token)
                                /\ Step(r, "COMMIT") /\ UNCHANGED holder
             [] op = "RESET" -> /\ Delete({req[r].proof}) /\ UNCHANGED minted
                                /\ IF redis[req[r].proof].kind = "PROOF"
                                      /\ redis[req[r].proof].from = req[r].token
                                   THEN Step(r, "REVOKE") /\ UNCHANGED holder ELSE ReleaseRow(r)
             [] OTHER ->
                   /\ UNCHANGED <<redis, minted>>
                   /\ CASE op = "CHANGE" /\ req[r].password = account.password ->
                              Step(r, "REVOKE") /\ UNCHANGED holder
                        [] op = "SETUP" /\ account.factor # "ON" ->
                              Step(r, "COMMIT") /\ UNCHANGED holder
                        [] op = "FACTOR_ON" /\ account.factor = "SETUP" ->
                              Step(r, "REVOKE") /\ UNCHANGED holder
                        [] op = "FACTOR_OFF" -> Step(r, "CODE") /\ UNCHANGED holder
                        [] OTHER -> ReleaseRow(r)
        /\ UNCHANGED <<account, started>>

\* Mutant: only the sessions are in the index.
RevokeSessions(r) ==
    /\ req[r].step = "REVOKE"
    /\ Delete({t \in Tokens : redis[t].kind = "SESSION"})
    /\ Step(r, IF req[r].op \in AdminOps THEN "COMMIT" ELSE "ROTATE")
    /\ UNCHANGED <<account, holder, minted, started>>
\* RevokeUser: every key of the index; a state of a login belongs to no user.
RevokeUser(r) ==
    /\ req[r].step = "REVOKE"
    /\ Delete({t \in Tokens : redis[t].kind # "STATE"})
    /\ Step(r, IF req[r].op \in AdminOps THEN "COMMIT" ELSE "ROTATE")
    /\ UNCHANGED <<account, holder, minted, started>>
\* rotateAccountSession: the session that replaces the one of the request.
Rotate(r) ==
    /\ req[r].step = "ROTATE"
    /\ Mint("SESSION", account.security + 1, 0) /\ Step(r, "COMMIT")
    /\ UNCHANGED <<account, holder, started>>

Written(op) ==
    CASE op \in {"CHANGE", "RESET"} -> [account EXCEPT !.password = @ + 1, !.security = @ + 1]
      [] op = "FACTOR_ON" -> [account EXCEPT !.factor = "ON", !.security = @ + 1]
      [] op \in {"FACTOR_OFF", "RESET_2FA"} ->
            [account EXCEPT !.factor = "OFF", !.failed = 0, !.locked = FALSE, !.security = @ + 1]
      [] op = "STATUS" -> [account EXCEPT !.status = ~@, !.security = @ + 1]
      [] op = "KICK" -> [account EXCEPT !.security = @ + 1]
      [] op = "SETUP" -> [account EXCEPT !.factor = "SETUP", !.failed = 0, !.locked = FALSE]
      [] op = "REGISTER" /\ ~account.exists ->
            [account EXCEPT !.exists = TRUE, !.receipts = @ + 1]
      [] OTHER -> account
CommitAccount(r) ==
    /\ req[r].step = "COMMIT" /\ Written(req[r].op).security <= MaxSecurity
    /\ account' = Written(req[r].op)
    /\ ReleaseRow(r) /\ UNCHANGED <<redis, minted, started>>
\* An error of Redis or PostgreSQL, after which the keys stay as they are; those
\* of a registration are of a user who will never exist.
Abort(r) ==
    /\ holder = r
    /\ ReleaseRow(r)
    /\ IF ~account.exists /\ req[r].made > 0 THEN Delete({req[r].made}) ELSE UNCHANGED redis
    /\ UNCHANGED <<account, minted, started>>
-----------------------------------------------------------------------------
Expire(t) == Live(t) /\ Delete({t}) /\ UNCHANGED <<account, holder, minted, started, req>>
LockoutEnds ==
    account.locked /\ account' = [account EXCEPT !.locked = FALSE]
        /\ UNCHANGED <<holder, redis, minted, started, req>>

IdentityNext ==
    \/ \E r \in LoginRequests :
          \/ StartLogin(r) \/ DiscordStart(r) \/ ConsumeState(r)
          \/ \E t \in Tokens : \/ StartFactor(r, t)
                               \/ \E op \in {"DISCORD", "REGISTER"} : DiscordCallback(r, t, op)
                               \/ \E op \in AccountOps \cup {"USE", "LOGOUT"}, p \in Tokens :
                                     StartBrowser(r, t, op, p)
          \/ \E op \in AdminOps : StartAdmin(r, op)
          \/ Renew(r) \/ Serve(r) \/ LockRow(r) \/ GetLocked(r) \/ Reread(r) \/ CheckCode(r)
          \/ ConsumeFlow(r) \/ Issue(r) \/ Work(r) \/ RevokeUser(r) \/ Rotate(r)
          \/ CommitAccount(r) \/ Abort(r)
    \/ \E t \in Tokens : Expire(t)
    \/ LockoutEnds

IdentitySpec == IdentityInit /\ [][IdentityNext]_identityVars
-----------------------------------------------------------------------------
\* No login escapes a change of the account: once a password, second factor or
\* status change or an administrator's logout has committed, no session, challenge
\* or proof issued before it is alive, whatever was in flight; a challenge opens one
\* session at most; and callbacks that race to register one Discord account leave
\* one registration receipt.
SessionsFollowAccount ==
    /\ \A t \in Tokens :
          redis[t].kind \in {"SESSION", "FLOW", "PROOF"} => redis[t].born >= account.security
    /\ \A t, u \in Tokens :
          /\ redis[t].kind = "SESSION" /\ redis[u].kind = "SESSION" /\ t # u
          => redis[t].from = 0 \/ redis[t].from # redis[u].from
    /\ account.receipts <= 1
=============================================================================
