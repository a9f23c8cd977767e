---------------------------- MODULE PokerTicket ----------------------------
(***************************************************************************)
(* The signed one-use tickets that open a poker socket                     *)
(* (internal/poker/connectticket).  The platform issues them; the poker    *)
(* process verifies one between two calls it does not control: the session *)
(* check and the SET NX of the ticket's id in Redis, which forgets the id  *)
(* TicketTTL after it was set.  A signature is modelled by the ticket      *)
(* being a value that only Issue makes.                                    *)
(***************************************************************************)
EXTENDS Naturals

CONSTANTS
    Tickets, Attempts,      \* tickets issued, sockets that present one
    TicketTTL,              \* 60 seconds
    MaxClock                \* bound on the time of a behaviour

ASSUME TicketAssumption == TicketTTL \in Nat /\ MaxClock \in Nat

VARIABLES
    clock,
    processStart,    \* when the poker process started
    ticket,     \* per ticket when it was issued, 0 before
    used,       \* per ticket until when Redis remembers its id
    attempt,    \* per socket the stage of its Accept and the ticket presented
    session     \* whether the login session of the tickets is live
ticketVars == <<clock, processStart, ticket, used, attempt, session>>

TicketInit ==
    /\ clock = 1 /\ processStart = 1 /\ session = TRUE
    /\ ticket = [t \in Tickets |-> 0] /\ used = [t \in Tickets |-> 0]
    /\ attempt \in [Attempts -> {[stage |-> "NEW", ticket |-> t] : t \in Tickets}]

Move(a, stage) == attempt' = [attempt EXCEPT ![a].stage = stage]

\* Issue: the session is checked before the ticket is signed.
IssueTicket(t) ==
    /\ ticket[t] = 0 /\ session
    /\ ticket' = [ticket EXCEPT ![t] = clock]
    /\ UNCHANGED <<clock, processStart, used, attempt, session>>

checkTime(t) == clock < ticket[t] + TicketTTL /\ ticket[t] >= processStart

\* Accept, up to the session check.
Present(a) ==
    /\ attempt[a].stage = "NEW" /\ ticket[attempt[a].ticket] > 0
    /\ Move(a, IF checkTime(attempt[a].ticket) THEN "CHECK_SESSION" ELSE "REFUSED")
    /\ UNCHANGED <<clock, processStart, ticket, used, session>>

\* The session was live when it was checked, and the time is checked again.
CheckSession(a) ==
    /\ attempt[a].stage = "CHECK_SESSION"
    /\ Move(a, IF session /\ checkTime(attempt[a].ticket) THEN "CONSUME" ELSE "REFUSED")
    /\ UNCHANGED <<clock, processStart, ticket, used, session>>

\* RedisConsumer: SET NX with a fixed retention.  Its answer may be lost.
Consume(a) ==
    LET t == attempt[a].ticket
    IN  /\ attempt[a].stage = "CONSUME"
        /\ \/ /\ used[t] = 0
              /\ used' = [used EXCEPT ![t] = clock + TicketTTL]
              /\ Move(a, "CONSUMED") \/ Move(a, "REFUSED")
           \/ /\ Move(a, "REFUSED") /\ UNCHANGED used
        /\ UNCHANGED <<clock, processStart, ticket, session>>

\* Mutant: the time is not checked a third time.
AdmitUnchecked(a) ==
    /\ attempt[a].stage = "CONSUMED"
    /\ Move(a, "ADMITTED")
    /\ UNCHANGED <<clock, processStart, ticket, used, session>>
Admit(a) ==
    /\ attempt[a].stage = "CONSUMED"
    /\ Move(a, IF checkTime(attempt[a].ticket) THEN "ADMITTED" ELSE "REFUSED")
    /\ UNCHANGED <<clock, processStart, ticket, used, session>>

Remembered == [t \in Tickets |-> IF used[t] <= clock + 1 THEN 0 ELSE used[t]]
TicketClock ==
    /\ clock < MaxClock
    /\ clock' = clock + 1
    /\ used' = Remembered
    /\ UNCHANGED <<processStart, ticket, attempt, session>>

RevokeLogin ==
    /\ session /\ session' = FALSE
    /\ UNCHANGED <<clock, processStart, ticket, used, attempt>>

\* The poker process restarts: its handshakes are gone, and with a Redis that
\* keeps nothing on disk the ids it remembered.
RestartVerifier ==
    /\ clock < MaxClock
    /\ clock' = clock + 1 /\ processStart' = clock + 1
    /\ used' \in {Remembered, [t \in Tickets |-> 0]}
    /\ attempt' = [a \in Attempts |->
          IF attempt[a].stage \in {"CHECK_SESSION", "CONSUME", "CONSUMED"}
          THEN [attempt[a] EXCEPT !.stage = "REFUSED"] ELSE attempt[a]]
    /\ UNCHANGED <<ticket, session>>

TicketNext ==
    \/ \E t \in Tickets : IssueTicket(t)
    \/ \E a \in Attempts : Present(a) \/ CheckSession(a) \/ Consume(a) \/ Admit(a)
    \/ TicketClock \/ RevokeLogin \/ RestartVerifier

TicketSpec == TicketInit /\ [][TicketNext]_ticketVars
-----------------------------------------------------------------------------
\* A ticket opens one socket, ever: also when a slow verification outlives the
\* ticket and the memory of its use, and across a restart that loses the memory.
TicketOnce ==
    \A a, b \in Attempts :
        /\ attempt[a].stage = "ADMITTED" /\ attempt[b].stage = "ADMITTED"
        /\ attempt[a].ticket = attempt[b].ticket
        => a = b
=============================================================================
