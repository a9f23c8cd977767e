------------------------------ MODULE PokerEntry ------------------------------
(***************************************************************************)
(* The way to a seat of a table with a password (internal/poker: password  *)
(* creation, table access, reservation, buy-in; redislease).  Three stores *)
(* are involved that no transaction spans: PostgreSQL with the table, the  *)
(* reservations and the wallet; Redis with the lease of the seat and the   *)
(* access grants; and the login sessions.  The commands of the table run   *)
(* one at a time under its row lock; Redis, the sessions and the clock do  *)
(* not wait for them.                                                      *)
(*                                                                         *)
(* One seat, one buy-in of one chip.  A user retries with the same key.    *)
(* The limit on attempts may refuse any of them and is not modelled.       *)
(***************************************************************************)
EXTENDS Naturals, FiniteSets

CONSTANTS Guests,        \* users that look for a seat
          Visits,        \* the keys of the requests of a guest
          Creates,       \* requests that create the table with one key
          Passwords,     \* what they ask for; it is not in the request's hash
          MaxFailures    \* bound on crashes and answers that are lost

\* "NONE" stands for nobody and for no password.
ASSUME EntryAssumption == "NONE" \notin Guests /\ "NONE" \notin Passwords

NoSeat == [guest |-> "NONE", visit |-> 0]
Stays == [guest : Guests, visit : Visits]   \* a reservation, its token, its buy-in

VARIABLES
    create,     \* per request its password, stage and what it read
    credential, \* the password of the table, "NONE" before it is made
    login,      \* per guest LIVE, VERIFYING, GRANTED or ENDED
    seatLease,  \* the token of the seat's key in Redis
    stay,       \* per reservation its state in PostgreSQL
    overdue,    \* the reservations past their expires_at
    buyIn,      \* per reservation the receipt of its buy-in
    seated,     \* who has the seat
    chips,      \* the wallet of each guest
    command,    \* the command the table executes
    failures
entryVars == <<create, credential, login, seatLease, stay, overdue, buyIn, seated, chips, command,
               failures>>
tableVars == <<seatLease, stay, overdue, buyIn, seated, chips, command>>

Waiting == [step |-> "NONE", stay |-> NoSeat, receipt |-> "NONE"]

EntryInit ==
    /\ create \in [Creates -> [step : {"READ"}, password : Passwords, stored : {"NONE"}]]
    /\ credential = "NONE" /\ login = [g \in Guests |-> "LIVE"]
    /\ seatLease = NoSeat /\ stay = [s \in Stays |-> "NONE"] /\ overdue = {}
    /\ buyIn = [s \in Stays |-> "NONE"] /\ seated = NoSeat /\ chips = [g \in Guests |-> 1]
    /\ command = Waiting /\ failures = 0

Failure == failures < MaxFailures /\ failures' = failures + 1
-----------------------------------------------------------------------------
(* createPasswordTable: the password is hashed outside the transaction, and *)
(* a receipt of the same key answers only who knows the table's password.  *)

CreateStep(r, step, stored) ==
    create' = [create EXCEPT ![r] = [@ EXCEPT !.step = step, !.stored = stored]]
readPasswordCreate(r) ==
    /\ create[r].step \in {"READ", "RACED"}
    /\ CreateStep(r, IF credential # "NONE" THEN "VERIFY" ELSE "INSERT", credential)
    /\ UNCHANGED <<credential, login, failures>> /\ UNCHANGED tableVars
insertPasswordCreate(r) ==
    /\ create[r].step = "INSERT"
    /\ IF credential # "NONE" THEN CreateStep(r, "RACED", "NONE") /\ UNCHANGED credential
       ELSE credential' = create[r].password /\ CreateStep(r, "CREATED", "NONE")
    /\ UNCHANGED <<login, failures>> /\ UNCHANGED tableVars
verifyPasswordCreateReplay(r) ==
    /\ create[r].step = "VERIFY"
    /\ CreateStep(r, IF create[r].password = create[r].stored /\ credential = create[r].stored
                     THEN "CREATED" ELSE "REFUSED", "NONE")
    /\ UNCHANGED <<credential, login, failures>> /\ UNCHANGED tableVars
-----------------------------------------------------------------------------
(* Access. *)

\* VerifyTableAccess: the session is asked before the password is verified, and
\* again before the grant is put until the session's deadline.
VerifyTableAccess(g) ==
    /\ credential # "NONE" /\ login[g] = "LIVE"
    /\ login' = [login EXCEPT ![g] = "VERIFYING"]
    /\ UNCHANGED <<create, credential, failures>> /\ UNCHANGED tableVars
AccessPut(g) ==
    /\ login[g] = "VERIFYING"
    /\ \E matched \in BOOLEAN : login' = [login EXCEPT ![g] = IF matched THEN "GRANTED" ELSE "LIVE"]
    /\ UNCHANGED <<create, credential, failures>> /\ UNCHANGED tableVars
\* The grant reaches its time, or Redis loses it; the session ends.
GrantEnds(g) ==
    /\ login[g] = "GRANTED" /\ \E to \in {"LIVE", "ENDED"} : login' = [login EXCEPT ![g] = to]
    /\ UNCHANGED <<create, credential, failures>> /\ UNCHANGED tableVars
\* authorizeTableRow
Authorized(g) == login[g] = "GRANTED"
-----------------------------------------------------------------------------
(* The seat's lease in Redis. *)

\* The key runs out with its TTL, or is lost.
LeaseEnds ==
    /\ seatLease # NoSeat /\ seatLease' = NoSeat
    /\ UNCHANGED <<create, credential, login, stay, overdue, buyIn, seated, chips, command, failures>>
\* PostgreSQL's clock passes expires_at.
Expires(s) ==
    /\ stay[s] = "LEASE_ACTIVE" /\ s \notin overdue /\ overdue' = overdue \cup {s}
    /\ UNCHANGED <<create, credential, login, seatLease, stay, buyIn, seated, chips, command, failures>>

Acquirable(s) == seatLease \in {NoSeat, s}
\* Mutant: the row of the reservation is taken for the lease.
ValidByAudit(s) == stay[s] = "LEASE_ACTIVE"
Valid(s) == seatLease = s
Released(s) == IF seatLease = s THEN NoSeat ELSE seatLease
-----------------------------------------------------------------------------
(* ReserveSeat *)

At(step, s, receipt) == command' = [step |-> step, stay |-> s, receipt |-> receipt]
Elsewhere == UNCHANGED <<create, credential, login>>

\* Authorized, without a receipt, and nobody on the seat.
ReserveSeat(s) ==
    /\ command = Waiting /\ credential # "NONE" /\ Authorized(s.guest)
    /\ stay[s] = "NONE" /\ seated = NoSeat
    /\ At("ACQUIRE", s, "NONE")
    /\ UNCHANGED <<seatLease, stay, overdue, buyIn, seated, chips, failures>> /\ Elsewhere
\* The answer of Redis may be lost: the command ends and does not release.
Acquire ==
    LET s == command.stay
    IN  /\ command.step = "ACQUIRE"
        /\ \/ Acquirable(s) /\ seatLease' = s /\ At("RESERVE", s, "NONE") /\ UNCHANGED failures
           \/ ~Acquirable(s) /\ command' = Waiting /\ UNCHANGED <<seatLease, failures>>
           \/ Acquirable(s) /\ seatLease' = s /\ command' = Waiting /\ Failure
        /\ UNCHANGED <<stay, overdue, buyIn, seated, chips>> /\ Elsewhere
\* The other active reservation of the seat lost its key, so it is expired.
Reserved(s) ==
    [r \in Stays |-> IF r = s THEN "LEASE_ACTIVE"
                     ELSE IF stay[r] = "LEASE_ACTIVE" THEN "EXPIRED" ELSE stay[r]]
\* beforeCommit asks for access again; a refusal rolls back and releases.
CommitReserve ==
    LET s == command.stay
    IN  /\ command.step = "RESERVE" /\ command' = Waiting
        /\ IF Authorized(s.guest) THEN stay' = Reserved(s) /\ UNCHANGED seatLease
           ELSE seatLease' = Released(s) /\ UNCHANGED stay
        /\ UNCHANGED <<overdue, buyIn, seated, chips, failures>> /\ Elsewhere
-----------------------------------------------------------------------------
(* BuyIn *)

\* The reservation and its lease before the wait for the wallet; a lost one is a
\* receipt without effect.
BuyIn(s) ==
    /\ command = Waiting /\ Authorized(s.guest) /\ buyIn[s] = "NONE" /\ stay[s] # "NONE"
    /\ IF Valid(s) /\ stay[s] = "LEASE_ACTIVE" /\ s \notin overdue
       THEN At("APPLY", s, "NONE") /\ UNCHANGED <<stay, buyIn>>
       ELSE /\ buyIn' = [buyIn EXCEPT ![s] = "FAILED_NO_EFFECT"]
            /\ stay' = [stay EXCEPT ![s] = IF @ = "LEASE_ACTIVE" THEN "EXPIRED" ELSE @]
            /\ UNCHANGED command
    /\ UNCHANGED <<seatLease, overdue, seated, chips, failures>> /\ Elsewhere
\* applyFunding: the gateway has the wallet's lock and its effects are in a savepoint
\* when lease and access are checked again.  No session any more ends the command.
applyFunding ==
    LET s == command.stay
        applies == /\ s \notin overdue /\ seated = NoSeat /\ stay[s] = "LEASE_ACTIVE"
                   /\ chips[s.guest] > 0 /\ Valid(s)
    IN  /\ command.step = "APPLY"
        /\ IF applies /\ login[s.guest] = "ENDED" THEN command' = Waiting
           ELSE At("FINAL", s, IF applies /\ Authorized(s.guest) THEN "CONFIRMED"
                               ELSE "FAILED_NO_EFFECT")
        /\ UNCHANGED <<seatLease, stay, overdue, buyIn, seated, chips, failures>> /\ Elsewhere
\* What the transaction leaves: the receipt, and of a confirmed one the effects.
Effects(s, receipt) ==
    /\ buyIn' = [buyIn EXCEPT ![s] = receipt]
    /\ IF receipt = "CONFIRMED"
       THEN /\ seated' = s /\ chips' = [chips EXCEPT ![s.guest] = @ - 1]
            /\ stay' = [stay EXCEPT ![s] = "CONSUMED"]
       ELSE UNCHANGED <<seated, chips, stay>>
\* finalizeBuyIn: without the grant the effects are rolled back and the receipt is
\* saved outside of them.
finalizeBuyIn ==
    LET s == command.stay
        refused == command.receipt = "CONFIRMED" /\ ~Authorized(s.guest)
    IN  /\ command.step = "FINAL"
        /\ IF refused /\ login[s.guest] = "ENDED"
           THEN command' = Waiting /\ UNCHANGED <<buyIn, seated, chips, stay>>
           ELSE /\ Effects(s, IF refused THEN "FAILED_NO_EFFECT" ELSE command.receipt)
                /\ IF buyIn'[s] = "CONFIRMED" THEN At("RELEASE", s, "NONE") ELSE command' = Waiting
        /\ UNCHANGED <<seatLease, overdue, failures>> /\ Elsewhere
\* onCommit
Release ==
    /\ command.step = "RELEASE" /\ command' = Waiting /\ seatLease' = Released(command.stay)
    /\ UNCHANGED <<stay, overdue, buyIn, seated, chips, failures>> /\ Elsewhere

\* A crash, an error or a failed COMMIT ends the command wherever it is; a rollback
\* that is known releases the lease it acquired.
CommandFails ==
    /\ command # Waiting /\ command' = Waiting /\ Failure
    /\ seatLease' \in {seatLease, IF command.step = "RESERVE" THEN Released(command.stay) ELSE seatLease}
    /\ UNCHANGED <<stay, overdue, buyIn, seated, chips>> /\ Elsewhere
\* The player leaves and is paid.
CashOut ==
    /\ command = Waiting /\ seated # NoSeat /\ seated' = NoSeat
    /\ chips' = [chips EXCEPT ![seated.guest] = @ + 1]
    /\ UNCHANGED <<seatLease, stay, overdue, buyIn, command, failures>> /\ Elsewhere

EntryNext ==
    \/ \E r \in Creates :
          readPasswordCreate(r) \/ insertPasswordCreate(r) \/ verifyPasswordCreateReplay(r)
    \/ \E g \in Guests : VerifyTableAccess(g) \/ AccessPut(g) \/ GrantEnds(g)
    \/ \E s \in Stays : ReserveSeat(s) \/ BuyIn(s) \/ Expires(s)
    \/ LeaseEnds \/ Acquire \/ CommitReserve
    \/ applyFunding \/ finalizeBuyIn \/ Release \/ CommandFails \/ CashOut

EntrySpec == EntryInit /\ [][EntryNext]_entryVars
-----------------------------------------------------------------------------
\* Wallets, receipts, reservations and the made table agree; a seat has one
\* reservation.
EntryState ==
    /\ \A g \in Guests : chips[g] = IF seated.guest = g THEN 0 ELSE 1
    /\ \A s \in Stays : buyIn[s] = "CONFIRMED" <=> stay[s] = "CONSUMED"
    /\ seated # NoSeat => buyIn[seated] = "CONFIRMED"
    /\ Cardinality({s \in Stays : stay[s] = "LEASE_ACTIVE"}) <= 1
    /\ \A r \in Creates : create[r].step = "CREATED" => create[r].password = credential
\* The seat goes to nobody beside its lease.
SeatTaken == seated' # seated /\ seated' # NoSeat => seatLease \in {seated', NoSeat}

\* Nobody pays for a seat that somebody else holds.  A wallet is short of a buy-in
\* exactly while its owner sits, the receipts a retry is answered with tell which
\* reservations took the seat, and the seat is never taken while its lease is another
\* request's: although the lease, the grant and the session may end during the wait
\* for the wallet, and answers of Redis get lost.  The key that made the table answers
\* only requests that knew its password.
EntryExact == []EntryState /\ [][SeatTaken]_entryVars
=============================================================================
