-------------------------- MODULE PlatformProofs ----------------------------
(***************************************************************************)
(* Theorems about the services around an account: PokerTicket and          *)
(* PokerControl, for any sockets, tickets and processes, any lifetime of a *)
(* ticket and any number of epochs; Identity, for any number of requests   *)
(* and of keys; PokerEntry and Campaign.                                   *)
(***************************************************************************)
EXTENDS PokerTicket, PokerControl, Identity, PokerEntry, Campaign, SumTheorems

(***************************************************************************)
(* Tickets.                                                                *)
(***************************************************************************)

Stages == {"NEW", "CHECK_SESSION", "CONSUME", "CONSUMED", "ADMITTED", "REFUSED"}

TicketTypeOK ==
    /\ clock \in Nat /\ processStart \in Nat /\ processStart <= clock
    /\ ticket \in [Tickets -> Nat] /\ used \in [Tickets -> Nat]
    /\ \A t \in Tickets : ticket[t] <= clock
    /\ attempt \in [Attempts -> [stage : Stages, ticket : Tickets]]

\* Only a ticket that was issued is past the stage NEW or known to Redis.
TicketIssued ==
    \A a \in Attempts : attempt[a].stage # "NEW" => ticket[attempt[a].ticket] > 0

\* Redis keeps an id until the ticket itself is too old.
UseOutlivesTicket ==
    \A t \in Tickets : used[t] # 0 => used[t] >= ticket[t] + TicketTTL /\ ticket[t] > 0

Holds(a) == attempt[a].stage \in {"CONSUMED", "ADMITTED"}

\* A ticket that a socket has used is remembered or of no use any more.
UsedOrStale ==
    \A a \in Attempts : Holds(a) => used[attempt[a].ticket] # 0 \/ ~checkTime(attempt[a].ticket)

\* Two sockets hold one ticket only once it is of no use, and one was admitted at most.
HoldersApart ==
    \A a, b \in Attempts :
        Holds(a) /\ Holds(b) /\ attempt[a].ticket = attempt[b].ticket /\ a # b
            => ~checkTime(attempt[a].ticket)

TicketInv ==
    /\ TicketTypeOK /\ TicketIssued /\ UseOutlivesTicket /\ UsedOrStale /\ HoldersApart
    /\ TicketOnce

\* No ticket is issued or used at first.
LEMMA TicketInitially == TicketInit => TicketInv
  BY TicketAssumption DEF TicketInit, TicketInv, TicketTypeOK, TicketIssued, UseOutlivesTicket,
     UsedOrStale, HoldersApart, TicketOnce, Holds, Stages

\* Every step of a request, of Redis, of the clock and of a restart keeps TicketInv.
LEMMA TicketStep == TicketInv /\ [TicketNext]_ticketVars => TicketInv'
  <1> SUFFICES ASSUME TicketInv, [TicketNext]_ticketVars PROVE TicketInv'
    OBVIOUS
  <1> USE TicketAssumption DEF TicketInv, TicketTypeOK, TicketIssued, UseOutlivesTicket, UsedOrStale,
          HoldersApart, TicketOnce, Holds, Stages, checkTime
  <1>1. CASE UNCHANGED ticketVars
    BY <1>1 DEF ticketVars
  <1>2. ASSUME NEW t \in Tickets, IssueTicket(t) PROVE TicketInv'
    BY <1>2 DEF IssueTicket
  <1>3. ASSUME NEW a \in Attempts, Present(a) PROVE TicketInv'
    BY <1>3 DEF Present, Move
  <1>4. ASSUME NEW a \in Attempts, CheckSession(a) PROVE TicketInv'
    BY <1>4 DEF CheckSession, Move
  <1>5. ASSUME NEW a \in Attempts, Consume(a) PROVE TicketInv'
    BY <1>5 DEF Consume, Move
  <1>6. ASSUME NEW a \in Attempts, Admit(a) PROVE TicketInv'
    BY <1>6 DEF Admit, Move
  <1>7. CASE TicketClock
    BY <1>7 DEF TicketClock, Remembered
  <1>8. CASE RevokeLogin
    BY <1>8 DEF RevokeLogin
  <1>9. CASE RestartVerifier
    BY <1>9 DEF RestartVerifier, Remembered
  <1>10. QED
    BY <1>1, <1>2, <1>3, <1>4, <1>5, <1>6, <1>7, <1>8, <1>9 DEF TicketNext

\* A ticket opens one socket, ever (connectticket.Accept and RedisConsumer), however
\* late an answer is, whatever Redis forgets, and across restarts of the verifier.
THEOREM TicketOnceHolds == TicketSpec => []TicketOnce
  <1>1. TicketInv => TicketOnce
    BY DEF TicketInv
  <1>2. QED
    BY TicketInitially, TicketStep, <1>1, PTL DEF TicketSpec

(***************************************************************************)
(* Control of a seat.                                                      *)
(***************************************************************************)

Ref == [socket : Sockets \cup {NoSocket}, runtime : Nat, control : Nat]
SocketStates == {"NEW", "OPEN", "CLOSING", "GONE"}
RunnerStates == {"NONE", "STARTING", "RUNNING", "FENCED"}
Connection == [state : SocketStates, at : Services \cup {"none"}, runtime : Nat, grant : Nat,
               revoked : BOOLEAN, connected : Nat, takeover : Nat]
HandoverStep == [step : {"NONE", "ASSIGN", "CHECK", "RELEASE"}, ref : Ref, expected : Ref]

ControlTypeOK ==
    /\ authority \in [runtime : Nat, control : Nat, connected : BOOLEAN]
    /\ lease \in Ref /\ commanded \in Ref
    /\ runner \in [Services -> [state : RunnerStates, epoch : Nat]]
    /\ socket \in [Sockets -> Connection]
    /\ handover \in [Services -> HandoverStep]

\* A connection is of the actor its process runs, and a new one has claimed nothing.
OfItsRunner ==
    /\ \A c \in Sockets : socket[c].state = "OPEN" =>
          /\ socket[c].at \in Services /\ runner[socket[c].at].state # "NONE"
          /\ socket[c].runtime = runner[socket[c].at].epoch
    /\ \A c \in Sockets : socket[c].state = "NEW" =>
          socket[c].grant = 0 /\ socket[c].connected = 0 /\ socket[c].takeover = 0
    /\ \A c \in Sockets : socket[c].runtime <= authority.runtime
    /\ commanded.runtime <= authority.runtime

\* The references to a claimed epoch that Redis, a process, the answer to a request or
\* the last command knows.
Known(c) == {socket[c].grant, socket[c].connected, socket[c].takeover}
Claims ==
    {x \in Ref : /\ x.control > 0
                 /\ \/ x = lease \/ x = commanded
                    \/ \E p \in Services : x = handover[p].ref
                    \/ /\ x.socket \in Sockets /\ x.runtime = socket[x.socket].runtime
                       /\ x.control \in Known(x.socket)}

\* A control epoch was claimed by one socket under one runtime.
EpochsApart ==
    /\ \A x, y \in Claims : x.control = y.control => x = y
    /\ \A x \in Claims : x.control <= authority.control /\ x.runtime <= authority.runtime

ControlInv == ControlTypeOK /\ OfItsRunner /\ EpochsApart

\* Before the first registration there is nothing to claim.
LEMMA ControlInitially == ControlInit => ControlInv
  <1> SUFFICES ASSUME ControlInit PROVE ControlInv
    OBVIOUS
  <1>1. ControlTypeOK /\ OfItsRunner
    BY DEF ControlInit, ControlTypeOK, OfItsRunner, Ref, SocketStates, RunnerStates, Connection,
       HandoverStep, Free, IdleSocket, Unused, StoppedService
  <1>2. Claims = {}
    BY DEF ControlInit, Claims, Known, Free, IdleSocket, Unused
  <1>3. QED
    BY <1>1, <1>2 DEF ControlInv, EpochsApart

\* The null values are of their types and carry no epoch.
LEMMA Nulls ==
    /\ Free \in Ref /\ Free.control = 0
    /\ IdleSocket \in HandoverStep /\ IdleSocket.ref = Free
    /\ StoppedService \in [state : RunnerStates, epoch : Nat]
  BY DEF Free, IdleSocket, StoppedService, Ref, HandoverStep, RunnerStates

\* The reference of a connection at a control epoch.
RefAt(c, k) == [socket |-> c, runtime |-> socket[c].runtime, control |-> k]

\* Every reference that carries a control epoch is one of Claims.
LEMMA WhatIsClaimed ==
    ASSUME ControlTypeOK
    PROVE  /\ lease.control > 0 => lease \in Claims
           /\ commanded.control > 0 => commanded \in Claims
           /\ \A p \in Services : handover[p].ref.control > 0 => handover[p].ref \in Claims
           /\ \A c \in Sockets : \A k \in Known(c) : k > 0 => RefAt(c, k) \in Claims
  <1>1. \A p \in Services : handover[p].ref \in Ref
    BY DEF ControlTypeOK, HandoverStep
  <1>2. \A c \in Sockets : socket[c].runtime \in Nat /\ Known(c) \subseteq Nat
    BY DEF ControlTypeOK, Connection, Known
  <1>3. \A c \in Sockets : \A k \in Nat : socket[c].runtime \in Nat => RefAt(c, k) \in Ref
    BY DEF RefAt, Ref
  <1>4. lease \in Ref /\ commanded \in Ref
    BY DEF ControlTypeOK
  <1>5. \A c \in Sockets : \A k \in Known(c) : k > 0 => RefAt(c, k) \in Claims
    BY <1>2, <1>3 DEF Claims, RefAt
  <1>6. QED
    BY <1>1, <1>4, <1>5 DEF Claims

\* After a step Claims is in C when every place that can hold a claim is.
LEMMA ClaimsWithin ==
    ASSUME ControlTypeOK', NEW C,
           lease'.control > 0 => lease' \in C,
           commanded'.control > 0 => commanded' \in C,
           \A p \in Services : handover'[p].ref.control > 0 => handover'[p].ref \in C,
           \A c \in Sockets : \A k \in Known(c)' : k > 0 => RefAt(c, k)' \in C
    PROVE  Claims' \subseteq C
  <1> SUFFICES ASSUME NEW x \in Claims' PROVE x \in C
    OBVIOUS
  <1>1. x \in Ref /\ x.control > 0
    BY DEF Claims
  <1>2. CASE x.socket \in Sockets /\ x.runtime = socket'[x.socket].runtime
             /\ x.control \in Known(x.socket)'
    <2>1. x = RefAt(x.socket, x.control)'
      BY <1>1, <1>2 DEF Ref, RefAt
    <2>2. QED
      BY <1>1, <1>2, <2>1
  <1>3. QED
    BY <1>1, <1>2 DEF Claims

\* Epochs stay apart in a step that claims none, and in one that claims the next epoch
\* for one reference.
LEMMA ClaimsKept ==
    ASSUME ControlInv, ControlTypeOK',
           authority'.runtime >= authority.runtime, authority'.control >= authority.control,
           Claims' \subseteq Claims
    PROVE  EpochsApart'
  <1>1. Claims \subseteq Ref
    BY DEF Claims
  <1>2. QED
    BY <1>1 DEF EpochsApart, Ref, ControlInv, ControlTypeOK

\* A claim that takes the next control epoch stays apart from those before it.
LEMMA ClaimsGrow ==
    ASSUME ControlInv, ControlTypeOK', NEW r \in Ref,
           authority'.runtime = authority.runtime, authority'.control = authority.control + 1,
           r.control = authority'.control, r.runtime <= authority.runtime,
           Claims' \subseteq Claims \cup {r}
    PROVE  EpochsApart'
  <1>1. Claims \subseteq Ref
    BY DEF Claims
  <1>2. \A x \in Claims : x.control < r.control
    BY <1>1 DEF EpochsApart, Ref, ControlInv, ControlTypeOK
  <1>3. \A x \in Claims' : x.control <= authority'.control /\ x.runtime <= authority'.runtime
    BY <1>1 DEF EpochsApart, Ref, ControlInv, ControlTypeOK
  <1>4. \A x, y \in Claims' : x.control = y.control => x = y
    BY <1>1, <1>2 DEF EpochsApart, Ref, ControlInv, ControlTypeOK
  <1>5. QED
    BY <1>3, <1>4 DEF EpochsApart

\* Every step of Redis, of a runner, of a socket and of a handover keeps ControlInv.
LEMMA ControlStep == ControlInv /\ [ControlNext]_controlVars => ControlInv'
  <1> SUFFICES ASSUME ControlInv, [ControlNext]_controlVars PROVE ControlInv'
    OBVIOUS
  <1> USE DEF ControlInv
  <1>1. CASE UNCHANGED controlVars
    BY <1>1 DEF controlVars, EpochsApart, Claims, Known, ControlTypeOK, OfItsRunner
  <1>2. ASSUME NEW p \in Services, StartRunner(p) PROVE ControlInv'
    <2>1. authority.runtime \in Nat /\ authority.runtime + 1 \in Nat
      BY DEF ControlTypeOK
    <2>2. authority' \in [runtime : Nat, control : Nat, connected : BOOLEAN]
      BY <1>2, <2>1, Nulls DEF StartRunner, ControlTypeOK
    <2>3. runner' \in [Services -> [state : RunnerStates, epoch : Nat]]
      BY <1>2, <2>1, Nulls DEF StartRunner, ControlTypeOK, RunnerStates
    <2>4. ControlTypeOK'
      BY <1>2, <2>2, <2>3 DEF StartRunner, ControlTypeOK
    <2>5. OfItsRunner'
      <3>1. /\ authority'.runtime = authority.runtime + 1 /\ UNCHANGED <<socket, commanded>>
            /\ \A q \in Services : runner[q].state # "NONE" => runner'[q] = runner[q]
        BY <1>2, <2>1 DEF StartRunner, ControlTypeOK
      <3>2. commanded.runtime \in Nat /\ \A c \in Sockets : socket[c].runtime \in Nat
        BY DEF ControlTypeOK, Connection, Ref
      <3>3. QED
        BY <2>1, <3>1, <3>2 DEF OfItsRunner
    <2>6. lease'.control > 0 => lease' \in Claims
      BY <1>2, WhatIsClaimed DEF StartRunner
    <2>7. commanded'.control > 0 => commanded' \in Claims
      BY <1>2, WhatIsClaimed DEF StartRunner
    <2>8. \A q \in Services : handover'[q].ref.control > 0 => handover'[q].ref \in Claims
      BY <1>2, WhatIsClaimed DEF StartRunner
    <2>9. \A d \in Sockets : \A k \in Known(d)' : k > 0 => RefAt(d, k)' \in Claims
      BY <1>2, WhatIsClaimed DEF StartRunner, Known, RefAt
    <2>10. Claims' \subseteq Claims
      BY <2>4, <2>6, <2>7, <2>8, <2>9, ClaimsWithin
    <2>11. authority'.runtime >= authority.runtime /\ authority'.control >= authority.control
      BY <1>2 DEF StartRunner, ControlTypeOK
    <2>12. QED
      BY <2>4, <2>5, <2>10, <2>11, ClaimsKept
  <1>3. ASSUME NEW p \in Services, HydrateRunner(p) PROVE ControlInv'
    <2>1. authority' \in [runtime : Nat, control : Nat, connected : BOOLEAN]
      BY <1>3, Nulls DEF HydrateRunner, ControlTypeOK
    <2>2. runner' \in [Services -> [state : RunnerStates, epoch : Nat]]
      BY <1>3, Nulls DEF HydrateRunner, ControlTypeOK, RunnerStates
    <2>3. ControlTypeOK'
      BY <1>3, <2>1, <2>2 DEF HydrateRunner, ControlTypeOK
    <2>4. OfItsRunner'
      BY <1>3, Nulls DEF HydrateRunner, OfItsRunner, ControlTypeOK, Connection
    <2>5. lease'.control > 0 => lease' \in Claims
      BY <1>3, WhatIsClaimed DEF HydrateRunner
    <2>6. commanded'.control > 0 => commanded' \in Claims
      BY <1>3, WhatIsClaimed DEF HydrateRunner
    <2>7. \A q \in Services : handover'[q].ref.control > 0 => handover'[q].ref \in Claims
      BY <1>3, WhatIsClaimed DEF HydrateRunner
    <2>8. \A d \in Sockets : \A k \in Known(d)' : k > 0 => RefAt(d, k)' \in Claims
      BY <1>3, WhatIsClaimed DEF HydrateRunner, Known, RefAt
    <2>9. Claims' \subseteq Claims
      BY <2>3, <2>5, <2>6, <2>7, <2>8, ClaimsWithin
    <2>10. authority'.runtime >= authority.runtime /\ authority'.control >= authority.control
      BY <1>3 DEF HydrateRunner, ControlTypeOK
    <2>11. QED
      BY <2>3, <2>4, <2>9, <2>10, ClaimsKept
  <1>4. ASSUME NEW p \in Services, FenceRunner(p) PROVE ControlInv'
    <2>1. runner' \in [Services -> [state : RunnerStates, epoch : Nat]]
      BY <1>4, Nulls DEF FenceRunner, ControlTypeOK, RunnerStates
    <2>2. ControlTypeOK'
      BY <1>4, <2>1 DEF FenceRunner, ControlTypeOK
    <2>3. OfItsRunner'
      BY <1>4, Nulls DEF FenceRunner, OfItsRunner, ControlTypeOK, Connection
    <2>4. lease'.control > 0 => lease' \in Claims
      BY <1>4, WhatIsClaimed DEF FenceRunner
    <2>5. commanded'.control > 0 => commanded' \in Claims
      BY <1>4, WhatIsClaimed DEF FenceRunner
    <2>6. \A q \in Services : handover'[q].ref.control > 0 => handover'[q].ref \in Claims
      BY <1>4, WhatIsClaimed DEF FenceRunner
    <2>7. \A d \in Sockets : \A k \in Known(d)' : k > 0 => RefAt(d, k)' \in Claims
      BY <1>4, WhatIsClaimed DEF FenceRunner, Known, RefAt
    <2>8. Claims' \subseteq Claims
      BY <2>2, <2>4, <2>5, <2>6, <2>7, ClaimsWithin
    <2>9. authority'.runtime >= authority.runtime /\ authority'.control >= authority.control
      BY <1>4 DEF FenceRunner, ControlTypeOK
    <2>10. QED
      BY <2>2, <2>3, <2>8, <2>9, ClaimsKept
  <1>5. ASSUME NEW p \in Services, StopService(p) PROVE ControlInv'
    <2>1. runner' \in [Services -> [state : RunnerStates, epoch : Nat]]
      BY <1>5, Nulls DEF StopService, ControlTypeOK, RunnerStates
    <2>2. handover' \in [Services -> HandoverStep]
      BY <1>5, Nulls DEF StopService, ControlTypeOK, HandoverStep
    <2>3. socket' \in [Sockets -> Connection]
      BY <1>5, Nulls DEF StopService, ControlTypeOK, Connection, SocketStates, Unused
    <2>4. ControlTypeOK'
      BY <1>5, <2>1, <2>2, <2>3 DEF StopService, ControlTypeOK
    <2>5. OfItsRunner'
      BY <1>5, Nulls DEF StopService, OfItsRunner, ControlTypeOK, Connection, StoppedService, Unused
    <2>6. \A q \in Services : handover'[q] = handover[q] \/ handover'[q].ref = Free
      BY <1>5, Nulls DEF StopService, ControlTypeOK
    <2>7. \A d \in Sockets : \A k \in Known(d)' : k > 0 => k \in Known(d) /\ RefAt(d, k)' = RefAt(d, k)
      BY <1>5 DEF StopService, ControlTypeOK, Known, RefAt, Unused
    <2>8. lease'.control > 0 => lease' \in Claims
      BY <1>5, WhatIsClaimed DEF StopService
    <2>9. commanded'.control > 0 => commanded' \in Claims
      BY <1>5, WhatIsClaimed DEF StopService
    <2>10. \A q \in Services : handover'[q].ref.control > 0 => handover'[q].ref \in Claims
      BY <2>6, <2>7, WhatIsClaimed, Nulls
    <2>11. \A d \in Sockets : \A k \in Known(d)' : k > 0 => RefAt(d, k)' \in Claims
      BY <2>6, <2>7, WhatIsClaimed, Nulls
    <2>12. Claims' \subseteq Claims
      BY <2>4, <2>8, <2>9, <2>10, <2>11, ClaimsWithin
    <2>13. authority'.runtime >= authority.runtime /\ authority'.control >= authority.control
      BY <1>5 DEF StopService, ControlTypeOK
    <2>14. QED
      BY <2>4, <2>5, <2>12, <2>13, ClaimsKept
  <1>6. ASSUME NEW p \in Services, AssignLease(p) PROVE ControlInv'
    <2>1. lease' \in Ref
      BY <1>6, Nulls DEF AssignLease, ControlTypeOK, HandoverStep
    <2>2. handover' \in [Services -> HandoverStep]
      BY <1>6, Nulls DEF AssignLease, ControlTypeOK, HandoverStep
    <2>3. ControlTypeOK'
      BY <1>6, <2>1, <2>2 DEF AssignLease, ControlTypeOK
    <2>4. OfItsRunner'
      BY <1>6, Nulls DEF AssignLease, OfItsRunner, ControlTypeOK, Connection
    <2>5. \A q \in Services : handover'[q].ref = handover[q].ref \/ handover'[q].ref = Free
      BY <1>6, Nulls DEF AssignLease, ControlTypeOK, HandoverStep
    <2>6. lease' = lease \/ lease' = handover[p].ref
      BY <1>6 DEF AssignLease
    <2>7. lease'.control > 0 => lease' \in Claims
      BY <2>5, <2>6, WhatIsClaimed, Nulls
    <2>8. commanded'.control > 0 => commanded' \in Claims
      BY <1>6, WhatIsClaimed DEF AssignLease
    <2>9. \A q \in Services : handover'[q].ref.control > 0 => handover'[q].ref \in Claims
      BY <2>5, <2>6, WhatIsClaimed, Nulls
    <2>10. \A d \in Sockets : \A k \in Known(d)' : k > 0 => RefAt(d, k)' \in Claims
      BY <1>6, WhatIsClaimed DEF AssignLease, Known, RefAt
    <2>11. Claims' \subseteq Claims
      BY <2>3, <2>7, <2>8, <2>9, <2>10, ClaimsWithin
    <2>12. authority'.runtime >= authority.runtime /\ authority'.control >= authority.control
      BY <1>6 DEF AssignLease, ControlTypeOK
    <2>13. QED
      BY <2>3, <2>4, <2>11, <2>12, ClaimsKept
  <1>7. ASSUME NEW p \in Services, ConfirmControl(p) PROVE ControlInv'
    <2>1. \A d \in Sockets :
             /\ socket'[d].state = socket[d].state /\ socket'[d].at = socket[d].at
             /\ socket'[d].runtime = socket[d].runtime
             /\ socket'[d].connected = socket[d].connected /\ socket'[d].takeover = socket[d].takeover
      BY <1>7 DEF ConfirmControl, Granted, ControlTypeOK, Connection
    <2>2. handover' \in [Services -> HandoverStep]
      BY <1>7, <2>1, Nulls DEF ConfirmControl, ControlTypeOK, HandoverStep
    <2>3. socket' \in [Sockets -> Connection]
      <3>1. handover[p].ref.control \in Nat
        BY DEF ControlTypeOK, HandoverStep, Ref
      <3>2. Granted(socket, p, handover[p].ref) \in [Sockets -> Connection]
        BY <3>1 DEF Granted, ControlTypeOK, Connection
      <3>3. QED
        BY <1>7, <3>2 DEF ConfirmControl, ControlTypeOK
    <2>4. ControlTypeOK'
      BY <1>7, <2>2, <2>3 DEF ConfirmControl, ControlTypeOK
    <2>5. OfItsRunner'
      <3>1. UNCHANGED <<authority, runner, commanded>>
        BY <1>7 DEF ConfirmControl
      <3>2. \A d \in Sockets : socket'[d].state = "NEW" => socket'[d].grant = 0
        BY <1>7, <2>1 DEF ConfirmControl, Granted, live, OpenAt, OfItsRunner, ControlTypeOK, Connection
      <3>3. QED
        BY <2>1, <3>1, <3>2 DEF OfItsRunner
    <2>6. \A q \in Services : handover'[q] = handover[q] \/ handover'[q].ref = Free
      BY <1>7, <2>1, Nulls DEF ConfirmControl, ControlTypeOK
    <2>7. \A d \in Sockets : \A k \in Known(d)' : k > 0 =>
               \/ k \in Known(d) /\ RefAt(d, k)' = RefAt(d, k)
               \/ RefAt(d, k)' = handover[p].ref
      BY <1>7, <2>1 DEF ConfirmControl, ControlTypeOK, Known, RefAt, Granted, live, Connection, HandoverStep, Ref
    <2>8. lease'.control > 0 => lease' \in Claims
      BY <1>7, WhatIsClaimed DEF ConfirmControl
    <2>9. commanded'.control > 0 => commanded' \in Claims
      BY <1>7, WhatIsClaimed DEF ConfirmControl
    <2>10. \A q \in Services : handover'[q].ref.control > 0 => handover'[q].ref \in Claims
      BY <2>6, <2>7, WhatIsClaimed, Nulls
    <2>11. \A d \in Sockets : \A k \in Known(d)' : k > 0 => RefAt(d, k)' \in Claims
      <3> SUFFICES ASSUME NEW d \in Sockets, NEW k \in Known(d)', k > 0
                   PROVE RefAt(d, k)' \in Claims
        OBVIOUS
      <3>1. CASE k \in Known(d) /\ RefAt(d, k)' = RefAt(d, k)
        BY <3>1, WhatIsClaimed
      <3>2. CASE RefAt(d, k)' = handover[p].ref
        <4>1. RefAt(d, k)'.control = k
          BY DEF RefAt
        <4>2. handover[p].ref.control > 0
          BY <3>2, <4>1
        <4>3. QED
          BY <3>2, <4>2, WhatIsClaimed
      <3>3. QED
        BY <2>7, <3>1, <3>2
    <2>12. Claims' \subseteq Claims
      BY <2>4, <2>8, <2>9, <2>10, <2>11, ClaimsWithin
    <2>13. authority'.runtime >= authority.runtime /\ authority'.control >= authority.control
      BY <1>7 DEF ConfirmControl, ControlTypeOK
    <2>14. QED
      BY <2>4, <2>5, <2>12, <2>13, ClaimsKept
  <1>8. ASSUME NEW p \in Services, ReleaseLease(p) PROVE ControlInv'
    <2>1. lease' \in Ref
      BY <1>8, Nulls DEF ReleaseLease, ControlTypeOK, HandoverStep
    <2>2. handover' \in [Services -> HandoverStep]
      BY <1>8, Nulls DEF ReleaseLease, ControlTypeOK, HandoverStep
    <2>3. ControlTypeOK'
      BY <1>8, <2>1, <2>2 DEF ReleaseLease, ControlTypeOK
    <2>4. OfItsRunner'
      BY <1>8, Nulls DEF ReleaseLease, OfItsRunner, ControlTypeOK, Connection
    <2>5. \A q \in Services : handover'[q] = handover[q] \/ handover'[q].ref = Free
      BY <1>8, Nulls DEF ReleaseLease, ControlTypeOK
    <2>6. lease' = lease \/ lease' = Free
      BY <1>8 DEF ReleaseLease
    <2>7. lease'.control > 0 => lease' \in Claims
      BY <2>5, <2>6, WhatIsClaimed, Nulls
    <2>8. commanded'.control > 0 => commanded' \in Claims
      BY <1>8, WhatIsClaimed DEF ReleaseLease
    <2>9. \A q \in Services : handover'[q].ref.control > 0 => handover'[q].ref \in Claims
      BY <2>5, <2>6, WhatIsClaimed, Nulls
    <2>10. \A d \in Sockets : \A k \in Known(d)' : k > 0 => RefAt(d, k)' \in Claims
      BY <1>8, WhatIsClaimed DEF ReleaseLease, Known, RefAt
    <2>11. Claims' \subseteq Claims
      BY <2>3, <2>7, <2>8, <2>9, <2>10, ClaimsWithin
    <2>12. authority'.runtime >= authority.runtime /\ authority'.control >= authority.control
      BY <1>8 DEF ReleaseLease, ControlTypeOK
    <2>13. QED
      BY <2>3, <2>4, <2>11, <2>12, ClaimsKept
  <1>9. ASSUME NEW p \in Services, NEW c \in Sockets, ControlCommand(p, c) PROVE ControlInv'
    <2>1. commanded' \in Ref
      BY <1>9, Nulls DEF ControlCommand, ControlTypeOK, Ref, Connection, RefOf
    <2>2. ControlTypeOK'
      BY <1>9, <2>1 DEF ControlCommand, ControlTypeOK
    <2>3. OfItsRunner'
      BY <1>9, Nulls DEF ControlCommand, OfItsRunner, ControlTypeOK, Connection, RefOf, validateControl, OpenAt
    <2>4. commanded' = lease
      BY <1>9 DEF ControlCommand, validateControl
    <2>5. lease'.control > 0 => lease' \in Claims
      BY <1>9, WhatIsClaimed DEF ControlCommand
    <2>6. commanded'.control > 0 => commanded' \in Claims
      BY <2>4, WhatIsClaimed, Nulls
    <2>7. \A q \in Services : handover'[q].ref.control > 0 => handover'[q].ref \in Claims
      BY <1>9, WhatIsClaimed DEF ControlCommand
    <2>8. \A d \in Sockets : \A k \in Known(d)' : k > 0 => RefAt(d, k)' \in Claims
      BY <1>9, WhatIsClaimed DEF ControlCommand, Known, RefAt
    <2>9. Claims' \subseteq Claims
      BY <2>2, <2>5, <2>6, <2>7, <2>8, ClaimsWithin
    <2>10. authority'.runtime >= authority.runtime /\ authority'.control >= authority.control
      BY <1>9 DEF ControlCommand, ControlTypeOK
    <2>11. QED
      BY <2>2, <2>3, <2>9, <2>10, ClaimsKept
  <1>10. ASSUME NEW c \in Sockets, loseGrant(c) PROVE ControlInv'
    <2>1. socket' \in [Sockets -> Connection]
      BY <1>10, Nulls DEF loseGrant, ControlTypeOK, Connection, SocketStates
    <2>2. ControlTypeOK'
      BY <1>10, <2>1 DEF loseGrant, ControlTypeOK
    <2>3. OfItsRunner'
      BY <1>10, Nulls DEF loseGrant, OfItsRunner, ControlTypeOK, Connection
    <2>4. \A d \in Sockets : \A k \in Known(d)' : k > 0 => k \in Known(d) /\ RefAt(d, k)' = RefAt(d, k)
      BY <1>10 DEF loseGrant, ControlTypeOK, Known, RefAt, Connection
    <2>5. lease'.control > 0 => lease' \in Claims
      BY <1>10, WhatIsClaimed DEF loseGrant
    <2>6. commanded'.control > 0 => commanded' \in Claims
      BY <1>10, WhatIsClaimed DEF loseGrant
    <2>7. \A q \in Services : handover'[q].ref.control > 0 => handover'[q].ref \in Claims
      BY <1>10, WhatIsClaimed DEF loseGrant
    <2>8. \A d \in Sockets : \A k \in Known(d)' : k > 0 => RefAt(d, k)' \in Claims
      BY <2>4, WhatIsClaimed, Nulls
    <2>9. Claims' \subseteq Claims
      BY <2>2, <2>5, <2>6, <2>7, <2>8, ClaimsWithin
    <2>10. authority'.runtime >= authority.runtime /\ authority'.control >= authority.control
      BY <1>10 DEF loseGrant, ControlTypeOK
    <2>11. QED
      BY <2>2, <2>3, <2>9, <2>10, ClaimsKept
  <1>11. ASSUME NEW c \in Sockets, RevokeSession(c) PROVE ControlInv'
    <2>1. socket' \in [Sockets -> Connection]
      BY <1>11, Nulls DEF RevokeSession, ControlTypeOK, Connection, SocketStates
    <2>2. ControlTypeOK'
      BY <1>11, <2>1 DEF RevokeSession, ControlTypeOK
    <2>3. OfItsRunner'
      BY <1>11, Nulls DEF RevokeSession, OfItsRunner, ControlTypeOK, Connection
    <2>4. \A d \in Sockets : \A k \in Known(d)' : k > 0 => k \in Known(d) /\ RefAt(d, k)' = RefAt(d, k)
      BY <1>11 DEF RevokeSession, ControlTypeOK, Known, RefAt, Connection
    <2>5. lease'.control > 0 => lease' \in Claims
      BY <1>11, WhatIsClaimed DEF RevokeSession
    <2>6. commanded'.control > 0 => commanded' \in Claims
      BY <1>11, WhatIsClaimed DEF RevokeSession
    <2>7. \A q \in Services : handover'[q].ref.control > 0 => handover'[q].ref \in Claims
      BY <1>11, WhatIsClaimed DEF RevokeSession
    <2>8. \A d \in Sockets : \A k \in Known(d)' : k > 0 => RefAt(d, k)' \in Claims
      BY <2>4, WhatIsClaimed, Nulls
    <2>9. Claims' \subseteq Claims
      BY <2>2, <2>5, <2>6, <2>7, <2>8, ClaimsWithin
    <2>10. authority'.runtime >= authority.runtime /\ authority'.control >= authority.control
      BY <1>11 DEF RevokeSession, ControlTypeOK
    <2>11. QED
      BY <2>2, <2>3, <2>9, <2>10, ClaimsKept
  <1>12. ASSUME NEW c \in Sockets, CloseSocket(c) PROVE ControlInv'
    <2>1. socket' \in [Sockets -> Connection]
      BY <1>12, Nulls DEF CloseSocket, ControlTypeOK, Connection, SocketStates
    <2>2. ControlTypeOK'
      BY <1>12, <2>1 DEF CloseSocket, ControlTypeOK
    <2>3. OfItsRunner'
      BY <1>12, Nulls DEF CloseSocket, OfItsRunner, ControlTypeOK, Connection
    <2>4. \A d \in Sockets : \A k \in Known(d)' : k > 0 => k \in Known(d) /\ RefAt(d, k)' = RefAt(d, k)
      BY <1>12 DEF CloseSocket, ControlTypeOK, Known, RefAt, Connection
    <2>5. lease'.control > 0 => lease' \in Claims
      BY <1>12, WhatIsClaimed DEF CloseSocket
    <2>6. commanded'.control > 0 => commanded' \in Claims
      BY <1>12, WhatIsClaimed DEF CloseSocket
    <2>7. \A q \in Services : handover'[q].ref.control > 0 => handover'[q].ref \in Claims
      BY <1>12, WhatIsClaimed DEF CloseSocket
    <2>8. \A d \in Sockets : \A k \in Known(d)' : k > 0 => RefAt(d, k)' \in Claims
      BY <2>4, WhatIsClaimed, Nulls
    <2>9. Claims' \subseteq Claims
      BY <2>2, <2>5, <2>6, <2>7, <2>8, ClaimsWithin
    <2>10. authority'.runtime >= authority.runtime /\ authority'.control >= authority.control
      BY <1>12 DEF CloseSocket, ControlTypeOK
    <2>11. QED
      BY <2>2, <2>3, <2>9, <2>10, ClaimsKept
  <1>13. ASSUME NEW c \in Sockets, DetachSeat(c) PROVE ControlInv'
    <2>1. authority' \in [runtime : Nat, control : Nat, connected : BOOLEAN]
      BY <1>13, Nulls DEF DetachSeat, ControlTypeOK
    <2>2. handover' \in [Services -> HandoverStep]
      BY <1>13, Nulls DEF DetachSeat, ControlTypeOK, HandoverStep, Hand, InRunner
    <2>3. socket' \in [Sockets -> Connection]
      BY <1>13, Nulls DEF DetachSeat, ControlTypeOK, Connection, SocketStates, Unused
    <2>4. ControlTypeOK'
      BY <1>13, <2>1, <2>2, <2>3 DEF DetachSeat, ControlTypeOK
    <2>5. OfItsRunner'
      BY <1>13, Nulls DEF DetachSeat, OfItsRunner, ControlTypeOK, Connection, Unused
    <2>6. \A q \in Services : handover'[q].ref = handover[q].ref \/ handover'[q].ref = lease
      BY <1>13 DEF DetachSeat, Hand, ControlTypeOK, HandoverStep
    <2>7. \A d \in Sockets : \A k \in Known(d)' : k > 0 => k \in Known(d) /\ RefAt(d, k)' = RefAt(d, k)
      BY <1>13 DEF DetachSeat, ControlTypeOK, Known, RefAt, Unused, Connection
    <2>8. lease'.control > 0 => lease' \in Claims
      BY <1>13, WhatIsClaimed DEF DetachSeat
    <2>9. commanded'.control > 0 => commanded' \in Claims
      BY <1>13, WhatIsClaimed DEF DetachSeat
    <2>10. \A q \in Services : handover'[q].ref.control > 0 => handover'[q].ref \in Claims
      BY <2>6, <2>7, WhatIsClaimed, Nulls
    <2>11. \A d \in Sockets : \A k \in Known(d)' : k > 0 => RefAt(d, k)' \in Claims
      BY <2>6, <2>7, WhatIsClaimed, Nulls
    <2>12. Claims' \subseteq Claims
      BY <2>4, <2>8, <2>9, <2>10, <2>11, ClaimsWithin
    <2>13. authority'.runtime >= authority.runtime /\ authority'.control >= authority.control
      BY <1>13 DEF DetachSeat, ControlTypeOK
    <2>14. QED
      BY <2>4, <2>5, <2>12, <2>13, ClaimsKept
  <1>14. ASSUME LeaseExpires PROVE ControlInv'
    <2>1. lease' \in Ref
      BY <1>14, Nulls DEF LeaseExpires, ControlTypeOK, HandoverStep
    <2>2. ControlTypeOK'
      BY <1>14, <2>1 DEF LeaseExpires, ControlTypeOK
    <2>3. OfItsRunner'
      BY <1>14, Nulls DEF LeaseExpires, OfItsRunner, ControlTypeOK, Connection
    <2>4. lease'.control > 0 => lease' \in Claims
      BY <1>14, WhatIsClaimed, Nulls DEF LeaseExpires
    <2>5. commanded'.control > 0 => commanded' \in Claims
      BY <1>14, WhatIsClaimed DEF LeaseExpires
    <2>6. \A q \in Services : handover'[q].ref.control > 0 => handover'[q].ref \in Claims
      BY <1>14, WhatIsClaimed DEF LeaseExpires
    <2>7. \A d \in Sockets : \A k \in Known(d)' : k > 0 => RefAt(d, k)' \in Claims
      BY <1>14, WhatIsClaimed DEF LeaseExpires, Known, RefAt
    <2>8. Claims' \subseteq Claims
      BY <2>2, <2>4, <2>5, <2>6, <2>7, ClaimsWithin
    <2>9. authority'.runtime >= authority.runtime /\ authority'.control >= authority.control
      BY <1>14 DEF LeaseExpires, ControlTypeOK
    <2>10. QED
      BY <2>2, <2>3, <2>8, <2>9, ClaimsKept
  <1>15. ASSUME NEW p \in Services, NEW c \in Sockets, RegisterSocket(p, c) PROVE ControlInv'
    <2> DEFINE kept == IF socket[c].runtime = authority.runtime THEN socket[c].grant ELSE 0
               conns == [socket EXCEPT ![c] = [@ EXCEPT !.state = "OPEN", !.at = p,
                                                  !.runtime = authority.runtime, !.grant = kept]]
    <2>0. authority.control \in Nat /\ authority.control + 1 \in Nat
      BY DEF ControlTypeOK
    <2>1. conns \in [Sockets -> Connection]
      <3>1. kept \in Nat /\ authority.runtime \in Nat /\ socket[c] \in Connection
        BY DEF ControlTypeOK, Connection
      <3>2. [socket[c] EXCEPT !.state = "OPEN", !.at = p, !.runtime = authority.runtime,
                              !.grant = kept] \in Connection
        BY <3>1 DEF Connection, SocketStates
      <3>3. QED
        BY <3>2 DEF ControlTypeOK
    <2>2. socket[c].state = "NEW" \/ socket[c].runtime = authority.runtime
      BY <1>15 DEF RegisterSocket, OpenAt, InRunner, Current, OfItsRunner
    \* What the connection claimed before, it claimed under the same runtime.
    <2>3. /\ conns[c].runtime = authority.runtime /\ conns[c].at = p /\ conns[c].state = "OPEN"
          /\ conns[c].grant = socket[c].grant /\ conns[c].connected = socket[c].connected
          /\ conns[c].takeover = socket[c].takeover
          /\ \/ socket[c].runtime = authority.runtime
             \/ socket[c].grant = 0 /\ socket[c].connected = 0 /\ socket[c].takeover = 0
      <3>1. socket[c] \in Connection
        BY DEF ControlTypeOK
      <3>2. \/ socket[c].runtime = authority.runtime
            \/ socket[c].grant = 0 /\ socket[c].connected = 0 /\ socket[c].takeover = 0
        BY <1>15, <2>2 DEF OfItsRunner, RegisterSocket
      <3>3. conns[c] = [socket[c] EXCEPT !.state = "OPEN", !.at = p, !.runtime = authority.runtime,
                                         !.grant = kept]
        BY DEF ControlTypeOK
      <3>4. kept = socket[c].grant
        BY <3>2
      <3> HIDE DEF kept, conns
      <3>5. QED
        BY <3>1, <3>2, <3>3, <3>4 DEF Connection
    <2>4. \A d \in Sockets : d # c => conns[d] = socket[d]
      BY DEF ControlTypeOK
    <2>5. runner[p].state = "RUNNING" /\ runner[p].epoch = authority.runtime
      BY <1>15 DEF RegisterSocket, InRunner, Current
    <2> HIDE DEF conns
    <2>6. UNCHANGED <<lease, runner, commanded>>
      BY <1>15 DEF RegisterSocket
    <2>7. CASE ReplayClaim(p, c, "connected", conns)
      <3>1. handover' \in [Services -> HandoverStep] /\ socket' = conns /\ UNCHANGED authority
        BY <2>1, <2>7 DEF ReplayClaim, Hand, ControlTypeOK, HandoverStep, Ref, Connection
      <3>2. ControlTypeOK'
        BY <2>1, <2>6, <3>1 DEF ControlTypeOK
      <3>3. OfItsRunner'
        <4>1. socket'[c].state = "OPEN" /\ socket'[c].at = p
              /\ socket'[c].runtime = authority.runtime /\ authority.runtime \in Nat
          BY <2>3, <3>1 DEF ControlTypeOK
        <4>2. \A d \in Sockets : d # c => socket'[d] = socket[d]
          BY <2>4, <3>1
        <4>3. QED
          BY <2>5, <2>6, <3>1, <4>1, <4>2 DEF OfItsRunner
      <3>4. \A q \in Services :
               \/ handover'[q].ref = handover[q].ref
               \/ /\ handover'[q].ref = [socket |-> c, runtime |-> authority.runtime,
                                         control |-> socket[c].connected]
                  /\ socket[c].connected > 0
        BY <2>3, <2>7 DEF ReplayClaim, Hand, ControlTypeOK
      <3>5. Claims' \subseteq Claims
        <4>1. \A q \in Services : handover'[q].ref.control > 0 => handover'[q].ref \in Claims
          <5> SUFFICES ASSUME NEW q \in Services, handover'[q].ref.control > 0
                       PROVE handover'[q].ref \in Claims
            OBVIOUS
          <5>1. CASE handover'[q].ref = handover[q].ref
            BY <5>1, WhatIsClaimed
          <5>2. CASE /\ handover'[q].ref = [socket |-> c, runtime |-> authority.runtime,
                                            control |-> socket[c].connected]
                     /\ socket[c].connected > 0
            <6>1. socket[c].runtime = authority.runtime
              BY <2>3, <5>2
            <6>2. handover'[q].ref = RefAt(c, socket[c].connected)
              BY <5>2, <6>1 DEF RefAt
            <6>3. QED
              BY <5>2, <6>2, WhatIsClaimed DEF Known
          <5>3. QED
            BY <3>4, <5>1, <5>2
        <4>2. \A d \in Sockets : \A k \in Known(d)' : k > 0 =>
                 k \in Known(d) /\ socket'[d].runtime = socket[d].runtime
          BY <2>3, <2>4, <3>1 DEF Known
        <4>3. \A d \in Sockets : \A k \in Known(d)' : k > 0 => RefAt(d, k)' \in Claims
          BY <4>2, WhatIsClaimed DEF RefAt
        <4>4. QED
          BY <2>6, <3>2, <4>1, <4>3, WhatIsClaimed, ClaimsWithin
      <3>6. QED
        BY <3>1, <3>2, <3>3, <3>5, ClaimsKept DEF ControlTypeOK
    <2>8. CASE AdvanceClaim(p, c, "connected", conns)
      <3> DEFINE r == [socket |-> c, runtime |-> authority.runtime, control |-> authority.control + 1]
      <3>1. /\ authority' = [authority EXCEPT !.control = authority.control + 1, !.connected = TRUE]
            /\ socket' = [conns EXCEPT ![c].connected = authority.control + 1]
            /\ handover' = [handover EXCEPT ![p] = [step |-> "ASSIGN", ref |-> r, expected |-> lease]]
        BY <2>3, <2>8 DEF AdvanceClaim, nextControlEpoch, Hand
      <3>2. /\ authority' \in [runtime : Nat, control : Nat, connected : BOOLEAN]
            /\ authority'.runtime = authority.runtime /\ authority'.control = authority.control + 1
        BY <3>1, <2>0 DEF ControlTypeOK
      <3>3. socket' \in [Sockets -> Connection]
        BY <2>0, <2>1, <3>1 DEF ControlTypeOK, Connection
      <3>4. r \in Ref /\ handover' \in [Services -> HandoverStep]
        BY <3>1 DEF ControlTypeOK, HandoverStep, Ref
      <3>5. ControlTypeOK'
        BY <2>6, <3>2, <3>3, <3>4 DEF ControlTypeOK
      <3>6. OfItsRunner'
        BY <2>1, <2>3, <2>4, <2>5, <2>6, <3>1, <3>2 DEF OfItsRunner, ControlTypeOK, Connection
      <3>7. Claims' \subseteq Claims \cup {r}
        BY <2>1, <2>3, <2>4, <2>6, <3>1 DEF Claims, Known, ControlTypeOK, Ref, Connection
      <3>8. QED
        BY <3>2, <3>4, <3>5, <3>6, <3>7, ClaimsGrow DEF ControlTypeOK
    <2>9. CASE /\ socket' = IF LeaseCurrent /\ lease.socket = c THEN Granted(conns, p, lease)
                            ELSE conns
               /\ UNCHANGED <<authority, handover>>
      <3>0. /\ socket' \in [Sockets -> Connection]
            /\ \A d \in Sockets :
                  /\ socket'[d].state = conns[d].state /\ socket'[d].at = conns[d].at
                  /\ socket'[d].runtime = conns[d].runtime
                  /\ socket'[d].connected = conns[d].connected
                  /\ socket'[d].takeover = conns[d].takeover
                  /\ \/ socket'[d].grant \in {conns[d].grant, 0}
                     \/ LeaseCurrent /\ d = c /\ lease.socket = c /\ socket'[d].grant = lease.control
        <4>1. CASE socket' = conns
          BY <2>1, <4>1
        <4>2. CASE socket' = Granted(conns, p, lease) /\ LeaseCurrent /\ lease.socket = c
          <5>1. lease.control \in Nat
            BY DEF ControlTypeOK, Ref
          <5>2. \A d \in Sockets : socket'[d] \in Connection
            BY <2>1, <4>2, <5>1 DEF Granted, Connection
          <5>3. socket' \in [Sockets -> Connection]
            BY <4>2, <5>2 DEF Granted
          <5>4. QED
            BY <2>1, <4>2, <5>3 DEF Granted, Connection
        <4>3. QED
          BY <2>9, <4>1, <4>2
      <3>1. socket' \in [Sockets -> Connection]
        BY <3>0
      <3>2. ControlTypeOK'
        BY <2>6, <2>9, <3>1 DEF ControlTypeOK
      <3>3. OfItsRunner'
        <4>1. socket'[c].state = "OPEN" /\ socket'[c].at = p
              /\ socket'[c].runtime = authority.runtime /\ authority.runtime \in Nat
          BY <2>3, <3>0 DEF ControlTypeOK
        <4>2. \A d \in Sockets : d # c =>
                 /\ socket'[d].state = socket[d].state /\ socket'[d].at = socket[d].at
                 /\ socket'[d].runtime = socket[d].runtime
                 /\ socket'[d].connected = socket[d].connected
                 /\ socket'[d].takeover = socket[d].takeover
                 /\ socket'[d].grant = socket[d].grant \/ socket'[d].grant = 0
          BY <2>4, <3>0
        <4>3. QED
          BY <2>5, <2>6, <2>9, <4>1, <4>2 DEF OfItsRunner
      <3>4. Claims' \subseteq Claims
        <4>1. LeaseCurrent /\ lease.socket = c => lease = [socket |-> c, runtime |-> authority.runtime,
                                                          control |-> lease.control]
          BY DEF LeaseCurrent, ControlTypeOK, Ref
        <4>2. \A d \in Sockets : \A k \in Known(d)' : k > 0 =>
                 \/ k \in Known(d) /\ socket'[d].runtime = socket[d].runtime
                 \/ LeaseCurrent /\ lease.socket = c /\ d = c /\ k = lease.control
          BY <2>3, <2>4, <3>0 DEF Known
        <4>3. \A d \in Sockets : \A k \in Known(d)' : k > 0 => RefAt(d, k)' \in Claims
          BY <2>3, <3>0, <4>1, <4>2, WhatIsClaimed DEF RefAt
        <4>4. QED
          BY <2>6, <2>9, <3>2, <4>3, WhatIsClaimed, ClaimsWithin
      <3>5. QED
        BY <2>9, <3>2, <3>3, <3>4, ClaimsKept DEF ControlTypeOK
    <2>10. QED
      BY <1>15, <2>7, <2>8, <2>9 DEF RegisterSocket, conns
  <1>16. ASSUME NEW p \in Services, NEW c \in Sockets, TakeOver(p, c) PROVE ControlInv'
    <2>0. authority.control \in Nat /\ authority.control + 1 \in Nat
      BY DEF ControlTypeOK
    <2>1. UNCHANGED <<lease, runner, commanded>> /\ socket[c].runtime = authority.runtime
      BY <1>16 DEF TakeOver
    <2>2. CASE ReplayClaim(p, c, "takeover", socket)
      <3>1. handover' \in [Services -> HandoverStep] /\ UNCHANGED <<socket, authority>>
        BY <2>2 DEF ReplayClaim, Hand, ControlTypeOK, HandoverStep, Ref, Connection
      <3>2. ControlTypeOK' /\ OfItsRunner'
        BY <2>1, <3>1 DEF ControlTypeOK, OfItsRunner
      <3>3. \A q \in Services :
               \/ handover'[q].ref = handover[q].ref
               \/ /\ handover'[q].ref = [socket |-> c, runtime |-> socket[c].runtime,
                                         control |-> socket[c].takeover]
                  /\ socket[c].takeover > 0
        BY <2>2 DEF ReplayClaim, Hand, ControlTypeOK
      <3>4. Claims' \subseteq Claims
        <4>1. \A q \in Services : handover'[q].ref.control > 0 => handover'[q].ref \in Claims
          BY <3>3, WhatIsClaimed DEF Known, RefAt
        <4>2. \A d \in Sockets : \A k \in Known(d)' : k > 0 => RefAt(d, k)' \in Claims
          BY <3>1, WhatIsClaimed DEF Known, RefAt
        <4>3. QED
          BY <2>1, <3>2, <4>1, <4>2, WhatIsClaimed, ClaimsWithin
      <3>5. QED
        BY <3>1, <3>2, <3>4, ClaimsKept DEF ControlTypeOK
    <2>3. CASE AdvanceClaim(p, c, "takeover", socket)
      <3> DEFINE r == [socket |-> c, runtime |-> authority.runtime, control |-> authority.control + 1]
      <3>1. /\ authority' = [authority EXCEPT !.control = authority.control + 1, !.connected = TRUE]
            /\ socket' = [socket EXCEPT ![c].takeover = authority.control + 1]
            /\ handover' = [handover EXCEPT ![p] = [step |-> "ASSIGN", ref |-> r, expected |-> lease]]
        BY <2>1, <2>3 DEF AdvanceClaim, nextControlEpoch, Hand
      <3>2. /\ authority' \in [runtime : Nat, control : Nat, connected : BOOLEAN]
            /\ authority'.runtime = authority.runtime /\ authority'.control = authority.control + 1
        BY <3>1, <2>0 DEF ControlTypeOK
      <3>3. socket' \in [Sockets -> Connection]
        BY <2>0, <3>1 DEF ControlTypeOK, Connection
      <3>4. r \in Ref /\ handover' \in [Services -> HandoverStep]
        BY <3>1 DEF ControlTypeOK, HandoverStep, Ref
      <3>5. ControlTypeOK'
        BY <2>1, <3>2, <3>3, <3>4 DEF ControlTypeOK
      <3>6. OfItsRunner'
        BY <1>16, <2>1, <3>1, <3>2 DEF OfItsRunner, ControlTypeOK, Connection, TakeOver, OpenAt
      <3>7. Claims' \subseteq Claims \cup {r}
        BY <2>1, <3>1 DEF Claims, Known, ControlTypeOK, Ref, Connection
      <3>8. QED
        BY <3>2, <3>4, <3>5, <3>6, <3>7, ClaimsGrow DEF ControlTypeOK
    <2>4. QED
      BY <1>16, <2>2, <2>3 DEF TakeOver
  <1>17. QED
    BY <1>1, <1>2, <1>3, <1>4, <1>5, <1>6, <1>7, <1>8, <1>9, <1>10, <1>11, <1>12, <1>13, <1>14, <1>15, <1>16 DEF ControlNext

\* Control of a seat is fenced by its epochs (validateControl and beforeCommit in
\* control.go): a command accepted later is never of an older runtime or an earlier
\* claim, and one claim is used by one socket only.
THEOREM CommandsFencedHolds == ControlSpec => CommandsFenced
  <1>1. ASSUME ControlInv, ControlNext
        PROVE  commanded' # commanded =>
                  /\ commanded'.runtime >= commanded.runtime
                  /\ commanded'.control >= commanded.control
                  /\ commanded'.control = commanded.control => commanded' = commanded
    <2>1. SUFFICES ASSUME commanded' # commanded
                   PROVE  /\ commanded'.runtime >= commanded.runtime
                          /\ commanded'.control >= commanded.control
                          /\ commanded'.control = commanded.control => commanded' = commanded
      OBVIOUS
    <2>2. PICK p \in Services, c \in Sockets : ControlCommand(p, c)
      BY <1>1, <2>1 DEF ControlNext, StartRunner, HydrateRunner, FenceRunner, StopService, AssignLease,
         ConfirmControl, ReleaseLease, RegisterSocket, TakeOver, loseGrant, RevokeSession, CloseSocket,
         DetachSeat, LeaseExpires
    <2>3. /\ commanded' = [socket |-> c, runtime |-> authority.runtime, control |-> authority.control]
          /\ commanded' \in Claims
      BY <1>1, <2>2 DEF ControlCommand, validateControl, RefOf, Claims, Known, ControlInv, ControlTypeOK,
         Ref, Connection
    <2>4. commanded.control = 0 \/ commanded \in Claims
      BY <1>1 DEF Claims, ControlInv, ControlTypeOK, Ref
    <2>5. commanded.runtime <= authority.runtime
      BY <1>1 DEF ControlInv, OfItsRunner
    <2>6. QED
      BY <1>1, <2>3, <2>4, <2>5 DEF ControlInv, EpochsApart, Claims, Ref, ControlTypeOK
  <1>2. ControlInv /\ [ControlNext]_controlVars
        => [commanded' # commanded =>
               /\ commanded'.runtime >= commanded.runtime
               /\ commanded'.control >= commanded.control
               /\ commanded'.control = commanded.control => commanded' = commanded]_controlVars
    BY <1>1
  <1>3. QED
    BY ControlInitially, ControlStep, <1>2, PTL DEF ControlSpec, CommandsFenced

(***************************************************************************)
(* Identity: that sessions follow the account (Identity), for any number of          *)
(* concurrent requests and of keys.                                        *)
(*                                                                         *)
(* The argument: what a request does between LockRow and its COMMIT it     *)
(* does alone, as far as the keys of the user's index go (RequestsOK).  So *)
(* when a change of the account commits, every such key was made after     *)
(* its RevokeUser, and the challenge that a login consumed before it       *)
(* issued a session cannot open a second one (KeysOK, Mine).               *)
(***************************************************************************)
Browser == AccountOps \cup {"USE", "LOGOUT"}
Logins == {"LOGIN", "DISCORD", "REGISTER", "FACTOR"}
Operations == {"NONE"} \cup Logins \cup Browser \cup AdminOps
HeldSteps == {"GET_LOCKED", "RENEW_LOCKED", "REREAD", "CODE", "CONSUME_FLOW", "ISSUE", "WORK",
              "REVOKE", "ROTATE", "COMMIT"}
Steps == HeldSteps \cup {"IDLE", "CONSUME_STATE", "LOCK", "RENEW", "SERVE"}
Request == [op : Operations, step : Steps, token : Nat, proof : Nat, password : Nat, made : Nat]
Key == [kind : {"NONE", "STATE", "SESSION", "FLOW", "PROOF"}, born : Nat, from : Nat]

AccountOK ==
    /\ account \in [exists : BOOLEAN, status : BOOLEAN, password : Nat,
                    factor : {"OFF", "SETUP", "ON"}, failed : Nat, locked : BOOLEAN,
                    security : Nat, receipts : Nat]
    /\ account.receipts = IF account.exists THEN 1 ELSE 0

\* The steps that an operation goes through.
OpFits(op, step) ==
    /\ step = "CONSUME_STATE" => op \in Logins
    /\ step = "LOCK" => op \in Logins \cup AdminOps \cup AccountOps
    /\ step \in {"RENEW", "SERVE"} => op \in Browser
    /\ step \in {"GET_LOCKED", "RENEW_LOCKED", "WORK"} => op \in AccountOps
    /\ step \in {"REREAD", "CONSUME_FLOW"} => op = "FACTOR"
    /\ step = "CODE" => op \in {"FACTOR", "FACTOR_OFF"}
    /\ step = "ISSUE" => op \in Logins
    /\ step = "REVOKE" => op \in AdminOps \cup ChangeOps
    /\ step = "ROTATE" => op \in ChangeOps

\* The steps between LockRow and the end of the transaction are those of the holder.
RequestsOK ==
    /\ holder \in LoginRequests \cup {Unlocked}
    /\ req \in [LoginRequests -> Request]
    /\ \A r \in LoginRequests :
          /\ req[r].step \in HeldSteps <=> holder = r
          /\ OpFits(req[r].op, req[r].step)
          /\ req[r].op = "FACTOR" => req[r].token \in 1..minted

Indexed(t) == redis[t].kind \in {"SESSION", "FLOW", "PROOF"}
SessionFrom(t, f) == redis[t].kind = "SESSION" /\ redis[t].from = f

\* No key of the index is older than the account; the challenge of a session is gone,
\* and has opened no other.
KeysOK ==
    /\ minted \in 0..MaxTokens /\ started \in Nat
    /\ redis \in [Tokens -> Key]
    /\ \A t \in Tokens : Live(t) => t <= minted
    /\ \A t \in Tokens : Indexed(t) => redis[t].born >= account.security
    /\ \A t, f \in Tokens : SessionFrom(t, f) => redis[f].kind # "FLOW" /\ f <= minted
    /\ \A t \in Tokens : redis[t].kind = "SESSION" => redis[t].from \in Tokens \cup {0}
    /\ \A t, u, f \in Tokens : SessionFrom(t, f) /\ SessionFrom(u, f) => t = u

\* What the holder of the lock relies on: after RevokeUser the index has only what it
\* made since, and the challenge it examines has opened no session.
Mine(r) ==
    /\ req[r].step = "ROTATE" => \A t \in Tokens : ~Indexed(t)
    /\ req[r].step = "COMMIT" /\ req[r].op \in AdminOps \cup ChangeOps =>
          \A t \in Tokens : Indexed(t) => redis[t].born >= account.security + 1
    /\ req[r].op = "FACTOR" /\ req[r].step \in {"CODE", "CONSUME_FLOW", "ISSUE"} =>
          \A t \in Tokens : ~SessionFrom(t, req[r].token)
    /\ req[r].op = "FACTOR" /\ req[r].step = "ISSUE" => redis[req[r].token].kind # "FLOW"

IdentityInv == AccountOK /\ RequestsOK /\ KeysOK /\ \A r \in LoginRequests : Mine(r)
-----------------------------------------------------------------------------
(* Lemmas: what becomes of a request, and of the keys. *)

\* The null values of the model are of their types.
LEMMA Constants == Ready \in Request /\ NoKey \in Key /\ Unlocked \notin LoginRequests
  BY IdentityAssumption DEF Ready, NoKey, Request, Key, Steps, Operations, Unlocked

\* At first every request rests and no key exists.
LEMMA IdentityInitially == IdentityInit => IdentityInv
  <1> SUFFICES ASSUME IdentityInit PROVE IdentityInv
    OBVIOUS
  <1>1. AccountOK
    BY DEF IdentityInit, AccountOK
  <1>2. RequestsOK
    BY Constants DEF IdentityInit, RequestsOK, OpFits, Ready, HeldSteps
  <1>3. KeysOK
    BY IdentityAssumption, Constants DEF IdentityInit, KeysOK, Live, Indexed, SessionFrom, NoKey
  <1>4. \A r \in LoginRequests : Mine(r)
    BY DEF IdentityInit, Mine, Ready
  <1>5. QED
    BY <1>1, <1>2, <1>3, <1>4 DEF IdentityInv

\* A request moves to x.
ReqMoved(r, x) ==
    /\ req' \in [LoginRequests -> Request] /\ req'[r] = x
    /\ \A q \in LoginRequests : q # r => req'[q] = req[q]

\* A request that moves to a step which fits its operation keeps RequestsOK.
LEMMA RequestMoves ==
    ASSUME RequestsOK, NEW r \in LoginRequests, NEW x, ReqMoved(r, x),
           minted \in Nat, minted' \in Nat, minted' >= minted,
           \/ holder' = holder
           \/ holder = Unlocked /\ holder' = r
           \/ holder' = Unlocked /\ holder \in {r, Unlocked},
           x.step \in HeldSteps <=> holder' = r,
           OpFits(x.op, x.step), x.op = "FACTOR" => x.token \in 1..minted
    PROVE  RequestsOK'
  BY Constants DEF RequestsOK, ReqMoved

\* Step changes the step of one request and nothing else of it.
LEMMA Stepped ==
    ASSUME RequestsOK, NEW r \in LoginRequests, NEW s \in Steps, Step(r, s)
    PROVE  \E x \in Request : /\ ReqMoved(r, x) /\ x.step = s /\ x.op = req[r].op
                              /\ x.token = req[r].token
  <1> DEFINE x == [req[r] EXCEPT !.step = s]
  <1>1. req[r] \in Request /\ req' = [req EXCEPT ![r] = x]
    BY DEF RequestsOK, Step
  <1>2. x \in Request /\ x.step = s /\ x.op = req[r].op /\ x.token = req[r].token
    BY <1>1 DEF Request
  <1>3. ReqMoved(r, x)
    BY <1>1, <1>2 DEF RequestsOK, ReqMoved
  <1>4. QED
    BY <1>2, <1>3

\* A request that ends holds nothing.
LEMMA Resting ==
    ASSUME RequestsOK, NEW r \in LoginRequests, req' = [req EXCEPT ![r] = Ready]
    PROVE  /\ ReqMoved(r, Ready) /\ Ready.step \notin HeldSteps /\ OpFits(Ready.op, Ready.step)
           /\ Ready.op # "FACTOR"
  BY Constants DEF RequestsOK, ReqMoved, Ready, HeldSteps, OpFits

\* The end of a transaction, and of a request that holds no lock.
LEMMA Ends ==
    ASSUME RequestsOK, NEW r \in LoginRequests,
           \/ ReleaseRow(r) /\ holder \in {r, Unlocked}
           \/ req' = [req EXCEPT ![r] = Ready] /\ UNCHANGED holder /\ req[r].step \notin HeldSteps,
           minted \in Nat, minted' = minted
    PROVE  RequestsOK' /\ ReqMoved(r, Ready)
  <1>1. req' = [req EXCEPT ![r] = Ready]
    BY DEF ReleaseRow
  <1>2. holder' # r /\ (holder' = holder \/ (holder' = Unlocked /\ holder \in {r, Unlocked}))
    BY Constants DEF ReleaseRow, RequestsOK
  <1>3. ReqMoved(r, Ready) /\ Ready.step \notin HeldSteps /\ OpFits(Ready.op, Ready.step)
        /\ Ready.op # "FACTOR"
    BY <1>1, Resting
  <1>4. RequestsOK'
    BY <1>2, <1>3, RequestMoves
  <1>5. QED
    BY <1>3, <1>4

\* What RequestMoves says, for a Step.
LEMMA Goes ==
    ASSUME RequestsOK, NEW r \in LoginRequests, NEW s \in Steps, Step(r, s),
           minted \in Nat, minted' \in Nat, minted' >= minted,
           \/ holder' = holder
           \/ holder = Unlocked /\ holder' = r,
           s \in HeldSteps <=> holder' = r,
           OpFits(req[r].op, s)
    PROVE  /\ RequestsOK'
           /\ \E x \in Request : /\ ReqMoved(r, x) /\ x.step = s /\ x.op = req[r].op
                                 /\ x.token = req[r].token
  <1>1. PICK x \in Request : /\ ReqMoved(r, x) /\ x.step = s /\ x.op = req[r].op
                             /\ x.token = req[r].token
    BY Stepped
  <1>2. req[r].op = "FACTOR" => req[r].token \in 1..minted
    BY DEF RequestsOK
  <1>3. RequestsOK'
    BY <1>1, <1>2, RequestMoves
  <1>4. QED
    BY <1>1, <1>3

\* What RequestMoves says, for a request that arrives.
LEMMA Begins ==
    ASSUME RequestsOK, NEW r \in LoginRequests, NEW x \in Request, req' = [req EXCEPT ![r] = x],
           req[r] = Ready, x.step \notin HeldSteps, OpFits(x.op, x.step),
           x.op = "FACTOR" => x.token \in 1..minted,
           minted \in Nat, minted' = minted, UNCHANGED holder
    PROVE  RequestsOK' /\ ReqMoved(r, x)
  <1>1. ReqMoved(r, x)
    BY DEF RequestsOK, ReqMoved
  <1>2. holder # r
    BY Resting DEF RequestsOK, Ready, HeldSteps
  <1>3. QED
    BY <1>1, <1>2, RequestMoves

\* A request without the lock relies on nothing.
LEMMA NotMine == ASSUME NEW r \in LoginRequests, req[r].step \notin HeldSteps PROVE Mine(r)
  BY DEF Mine, HeldSteps

\* Keys go.
KeysGo == \A t \in Tokens : redis'[t] = redis[t] \/ redis'[t] = NoKey

\* Delete removes exactly the keys it names.
LEMMA Deleted ==
    ASSUME KeysOK, NEW ts, Delete(ts)
    PROVE  /\ redis' \in [Tokens -> Key] /\ KeysGo
           /\ \A t \in Tokens : redis'[t] = IF t \in ts THEN NoKey ELSE redis[t]
  BY Constants DEF Delete, KeysOK, KeysGo

\* Removing keys breaks none of the facts about them.
LEMMA KeysGone ==
    ASSUME KeysOK, RequestsOK, redis' \in [Tokens -> Key], KeysGo,
           UNCHANGED minted, account'.security = account.security,
           started' \in Nat
    PROVE  /\ KeysOK'
           /\ \A r \in LoginRequests :
                 /\ Mine(r) /\ req'[r].op = req[r].op /\ req'[r].token = req[r].token
                 /\ req'[r].step = req[r].step
                 => Mine(r)'
  <1>1. NoKey.kind = "NONE"
    BY DEF NoKey
  <1>2. \A t \in Tokens : /\ Live(t)' => Live(t) /\ redis'[t] = redis[t]
                          /\ Indexed(t)' => Indexed(t) /\ redis'[t] = redis[t]
                          /\ redis'[t].kind = "SESSION" => redis'[t] = redis[t]
                          /\ redis'[t].kind = "FLOW" => redis'[t] = redis[t]
                          /\ \A f : SessionFrom(t, f)' => SessionFrom(t, f)
    BY <1>1 DEF KeysGo, Live, Indexed, SessionFrom
  <1>3. KeysOK'
    BY <1>2 DEF KeysOK
  <1>4. ASSUME NEW r \in LoginRequests, Mine(r), req'[r].op = req[r].op,
               req'[r].token = req[r].token, req'[r].step = req[r].step
        PROVE  Mine(r)'
    <2>1. req[r].op = "FACTOR" => req[r].token \in Tokens
      BY IdentityAssumption DEF RequestsOK, KeysOK, Tokens
    <2>2. QED
      BY <1>2, <1>4, <2>1 DEF Mine
  <1>5. QED
    BY <1>3, <1>4
\* A key comes.
LEMMA Minted ==
    ASSUME KeysOK, NEW kind \in {"STATE", "SESSION", "FLOW", "PROOF"}, NEW born \in Nat,
           NEW from \in Nat, Mint(kind, born, from)
    PROVE  /\ minted' = minted + 1 /\ minted' \in Tokens /\ minted' \in 0..MaxTokens
           /\ redis' \in [Tokens -> Key]
           /\ redis'[minted'] = [kind |-> kind, born |-> born, from |-> from]
           /\ \A t \in Tokens : t # minted' => redis'[t] = redis[t]
  <1>2. minted + 1 \in Tokens /\ minted' = minted + 1
    BY IdentityAssumption DEF Mint, KeysOK, Tokens
  <1>3. [kind |-> kind, born |-> born, from |-> from] \in Key
    BY DEF Key
  <1>4. redis' = [redis EXCEPT ![minted'] = [kind |-> kind, born |-> born, from |-> from]]
    BY <1>2 DEF Mint
  <1>5. minted' \in 0..MaxTokens
    BY <1>2 DEF KeysOK, Tokens
  <1>6. QED
    BY <1>2, <1>3, <1>4, <1>5 DEF KeysOK

\* A new key that is as recent as the account keeps KeysOK.
LEMMA KeyCame ==
    ASSUME KeysOK, NEW kind \in {"STATE", "SESSION", "FLOW", "PROOF"}, NEW born \in Nat,
           NEW from \in Nat, Mint(kind, born, from),
           kind = "SESSION" => from \in Tokens \cup {0},
           UNCHANGED account, account.security \in Nat, started' \in Nat,
           kind = "STATE" \/ born >= account.security,
           kind = "SESSION" /\ from # 0 =>
               /\ from <= minted /\ redis[from].kind # "FLOW"
               /\ \A t \in Tokens : ~SessionFrom(t, from)
    PROVE  KeysOK'
  <1>0. /\ minted' = minted + 1 /\ minted' \in Tokens /\ minted' \in 0..MaxTokens
        /\ redis' \in [Tokens -> Key]
        /\ redis'[minted'] = [kind |-> kind, born |-> born, from |-> from]
        /\ \A t \in Tokens : t # minted' => redis'[t] = redis[t]
    BY Minted
  <1>1. minted \in Nat /\ minted' = minted + 1 /\ minted' \in Tokens /\ Tokens \subseteq Nat
    BY <1>0 DEF KeysOK, Tokens
  <1>2. \A t \in Tokens : Live(t)' => t <= minted'
    BY <1>0, <1>1 DEF KeysOK, Live
  <1>3. \A t \in Tokens : Indexed(t)' => redis'[t].born >= account'.security
    BY <1>0 DEF KeysOK, Indexed
  <1>4. \A t, f \in Tokens :
           SessionFrom(t, f)' => SessionFrom(t, f) \/ (t = minted' /\ f = from /\ kind = "SESSION")
    <2> SUFFICES ASSUME NEW t \in Tokens, NEW f \in Tokens, SessionFrom(t, f)'
                 PROVE  SessionFrom(t, f) \/ (t = minted' /\ f = from /\ kind = "SESSION")
      OBVIOUS
    <2>1. redis'[t].kind = "SESSION" /\ redis'[t].from = f
      BY DEF SessionFrom
    <2>2. CASE t # minted'
      <3>1. redis'[t] = redis[t]
        BY <1>0, <2>2
      <3>2. QED
        BY <2>1, <3>1 DEF SessionFrom
    <2>3. CASE t = minted'
      <3>1. redis'[t].kind = kind /\ redis'[t].from = from
        BY <1>0, <2>3
      <3>2. QED
        BY <2>1, <2>3, <3>1
    <2>4. QED
      BY <2>2, <2>3
  <1>5. 0 \notin Tokens
    BY DEF Tokens
  <1>6. \A t, f \in Tokens : SessionFrom(t, f)' => redis'[f].kind # "FLOW" /\ f <= minted'
    <2> SUFFICES ASSUME NEW t \in Tokens, NEW f \in Tokens, SessionFrom(t, f)'
                 PROVE  redis'[f].kind # "FLOW" /\ f <= minted'
      OBVIOUS
    <2>1. redis[f].kind # "FLOW" /\ f <= minted
      BY <1>4, <1>5 DEF KeysOK
    <2>2. f \in Nat
      BY <1>1
    <2>3. f # minted' /\ f <= minted'
      BY <1>1, <2>1, <2>2, SMTT(30)
    <2>4. QED
      BY <1>0, <2>1, <2>3
  <1>7. \A t \in Tokens : redis'[t].kind = "SESSION" => redis'[t].from \in Tokens \cup {0}
    BY <1>0 DEF KeysOK
  <1>8. \A t, u, f \in Tokens : SessionFrom(t, f)' /\ SessionFrom(u, f)' => t = u
    BY <1>4, <1>5 DEF KeysOK
  <1>9. QED
    BY <1>0, <1>2, <1>3, <1>6, <1>7, <1>8 DEF KeysOK

\* What another request does to the keys without the lock does not concern the holder.
LEMMA OthersMine ==
    ASSUME RequestsOK', NEW r \in LoginRequests, holder' = r, Mine(r)'
    PROVE  \A q \in LoginRequests : Mine(q)'
  BY DEF RequestsOK, Mine, HeldSteps
-----------------------------------------------------------------------------
(* Every action. *)

(* A step under which keys only go. *)
KeysQuiet ==
    /\ redis' \in [Tokens -> Key] /\ KeysGo
    /\ AccountOK' /\ account'.security = account.security /\ UNCHANGED minted /\ started' \in Nat

\* A request that ends without touching account or keys keeps the invariant.
LEMMA QuietEnd ==
    ASSUME IdentityInv, KeysQuiet, NEW r \in LoginRequests,
           \/ ReleaseRow(r) /\ holder \in {r, Unlocked}
           \/ req' = [req EXCEPT ![r] = Ready] /\ UNCHANGED holder /\ req[r].step \notin HeldSteps
    PROVE  IdentityInv'
  <1>0. AccountOK /\ RequestsOK /\ KeysOK /\ minted \in Nat /\ \A q \in LoginRequests : Mine(q)
    BY DEF IdentityInv, KeysOK
  <1>1. RequestsOK' /\ ReqMoved(r, Ready)
    BY <1>0, Ends DEF KeysQuiet
  <1>2. KeysOK' /\ \A q \in LoginRequests : q # r => Mine(q)'
    BY <1>0, <1>1, KeysGone DEF KeysQuiet, ReqMoved
  <1>3. Mine(r)'
    BY <1>1 DEF ReqMoved, Mine, Ready
  <1>4. QED
    BY <1>1, <1>2, <1>3 DEF IdentityInv, KeysQuiet

\* A step that mints no key and leaves the account alone keeps the invariant.
LEMMA QuietStep ==
    ASSUME IdentityInv, KeysQuiet, NEW r \in LoginRequests, NEW s \in Steps, Step(r, s),
           UNCHANGED holder \/ (holder = Unlocked /\ holder' = r),
           s \in HeldSteps <=> holder' = r, OpFits(req[r].op, s),
           s = "ROTATE" => \A t \in Tokens : ~Indexed(t)',
           s = "COMMIT" /\ req[r].op \in AdminOps \cup ChangeOps =>
               \A t \in Tokens : Indexed(t)' => redis'[t].born >= account.security + 1,
           req[r].op = "FACTOR" /\ s \in {"CODE", "CONSUME_FLOW", "ISSUE"} =>
               \A t \in Tokens : redis'[t].kind = "SESSION" => redis'[t].from # req[r].token,
           req[r].op = "FACTOR" /\ s = "ISSUE" => redis'[req[r].token].kind # "FLOW"
    PROVE  IdentityInv'
  <1>0. AccountOK /\ RequestsOK /\ KeysOK /\ minted \in Nat /\ \A q \in LoginRequests : Mine(q)
    BY DEF IdentityInv, KeysOK
  <1>1. /\ RequestsOK'
        /\ \E x \in Request : /\ ReqMoved(r, x) /\ x.step = s /\ x.op = req[r].op
                              /\ x.token = req[r].token
    BY <1>0, Goes DEF KeysQuiet
  <1>2. PICK x \in Request : /\ ReqMoved(r, x) /\ x.step = s /\ x.op = req[r].op
                             /\ x.token = req[r].token
    BY <1>1
  <1>3. KeysOK' /\ \A q \in LoginRequests : q # r => Mine(q)'
    BY <1>0, <1>2, KeysGone DEF KeysQuiet, ReqMoved
  <1>4. Mine(r)'
    BY <1>2 DEF ReqMoved, Mine, SessionFrom, KeysQuiet
  <1>5. QED
    BY <1>1, <1>3, <1>4 DEF IdentityInv, KeysQuiet

\* So does a step of no request.
LEMMA QuietRest == ASSUME IdentityInv, KeysQuiet, UNCHANGED <<req, holder>> PROVE IdentityInv'
  <1>0. AccountOK /\ RequestsOK /\ KeysOK /\ \A q \in LoginRequests : Mine(q)
    BY DEF IdentityInv
  <1>1. RequestsOK'
    BY <1>0 DEF RequestsOK, KeysQuiet
  <1>2. KeysOK' /\ \A q \in LoginRequests : Mine(q)'
    BY <1>0, KeysGone DEF KeysQuiet
  <1>3. QED
    BY <1>1, <1>2 DEF IdentityInv, KeysQuiet

\* The holder makes a key and goes to its COMMIT.
LEMMA MintStep ==
    ASSUME IdentityInv, NEW r \in LoginRequests, holder = r, UNCHANGED <<account, holder, started>>,
           NEW kind \in {"SESSION", "FLOW", "PROOF"}, NEW born \in Nat, NEW from \in Nat,
           Mint(kind, born, from), born >= account.security,
           kind = "SESSION" => from \in Tokens \cup {0},
           kind = "SESSION" /\ from # 0 =>
               /\ from <= minted /\ redis[from].kind # "FLOW"
               /\ \A t \in Tokens : ~SessionFrom(t, from),
           NEW x, ReqMoved(r, x), x.step = "COMMIT", x.op = req[r].op, x.token = req[r].token,
           x.op \in AdminOps \cup ChangeOps =>
               born = account.security + 1 /\ \A t \in Tokens : ~Indexed(t)
    PROVE  IdentityInv'
  <1>0. AccountOK /\ RequestsOK /\ KeysOK /\ minted \in Nat /\ account.security \in Nat /\ started \in Nat
    BY DEF IdentityInv, KeysOK, AccountOK
  <1>1. /\ minted' = minted + 1 /\ minted' \in Nat /\ minted' \in Tokens
        /\ redis'[minted'] = [kind |-> kind, born |-> born, from |-> from]
        /\ \A t \in Tokens : t # minted' => redis'[t] = redis[t]
    BY <1>0, Minted
  <1>2. KeysOK'
    BY <1>0, KeyCame
  <1>3. x.op = "FACTOR" => x.token \in 1..minted
    BY <1>0 DEF RequestsOK
  <1>4. RequestsOK'
    BY <1>0, <1>1, <1>3, RequestMoves DEF HeldSteps, OpFits
  <1>5. Mine(r)'
    BY <1>0, <1>1 DEF Mine, ReqMoved, Indexed
  <1>6. \A q \in LoginRequests : Mine(q)'
    BY <1>4, <1>5, OthersMine
  <1>7. QED
    BY <1>0, <1>2, <1>4, <1>6 DEF IdentityInv, AccountOK

\* Every handler's step keeps IdentityInv.
LEMMA IdentityStep == IdentityInv /\ [IdentityNext]_identityVars => IdentityInv'
  <1> SUFFICES ASSUME IdentityInv, [IdentityNext]_identityVars PROVE IdentityInv'
    OBVIOUS
  <1>0. /\ AccountOK /\ RequestsOK /\ KeysOK /\ \A r \in LoginRequests : Mine(r)
        /\ minted \in Nat /\ started \in Nat /\ account.security \in Nat
        /\ \A r \in LoginRequests : req[r] \in Request /\ (req[r].step \in HeldSteps <=> holder = r)
    BY DEF IdentityInv, KeysOK, AccountOK, RequestsOK
  <1>1. CASE UNCHANGED identityVars
    BY <1>0, <1>1 DEF identityVars, IdentityInv, AccountOK, RequestsOK, KeysOK, Mine,
       Live, Indexed, SessionFrom
  <1>2. ASSUME NEW r \in LoginRequests, StartLogin(r) PROVE IdentityInv'
    <2> DEFINE x == [Ready EXCEPT !.op = "LOGIN", !.step = "LOCK", !.password = account.password]
    <2>1. UNCHANGED <<account, holder, redis, minted>> /\ req[r] = Ready /\ started' \in Nat
          /\ req' = [req EXCEPT ![r] = x]
      BY <1>0, <1>2 DEF StartLogin, Arrives
    <2>2. account.password \in Nat
      BY <1>0 DEF AccountOK
    <2>3. x \in Request
      BY <2>2 DEF Ready, Request, Operations, Logins, Steps
    <2>4. x.step \notin HeldSteps /\ OpFits(x.op, x.step) /\ (x.op = "FACTOR" => x.token \in 1..minted)
      BY <2>2 DEF Ready, HeldSteps, OpFits, Logins
    <2> HIDE DEF x
    <2>5. RequestsOK' /\ ReqMoved(r, x)
      BY <1>0, <2>1, <2>3, <2>4, Begins
    <2>6. redis' \in [Tokens -> Key] /\ KeysGo
      BY <1>0, <2>1 DEF KeysOK, KeysGo
    <2>7. KeysOK' /\ \A q \in LoginRequests : q # r => Mine(q)'
      BY <1>0, <2>1, <2>5, <2>6, KeysGone DEF ReqMoved
    <2>8. Mine(r)'
      BY <2>4, <2>5 DEF ReqMoved, Mine, HeldSteps
    <2>9. QED
      BY <1>0, <2>1, <2>5, <2>7, <2>8 DEF IdentityInv, AccountOK
  <1>3. ASSUME NEW r \in LoginRequests, NEW t \in Tokens, NEW op \in {"DISCORD", "REGISTER"},
               DiscordCallback(r, t, op)
        PROVE IdentityInv'
    <2> DEFINE x == [Ready EXCEPT !.op = op, !.step = "CONSUME_STATE", !.token = t]
    <2>1. UNCHANGED <<account, holder, redis, minted>> /\ req[r] = Ready /\ started' \in Nat
          /\ req' = [req EXCEPT ![r] = x]
      BY <1>0, <1>3 DEF DiscordCallback, Arrives
    <2>2. t \in Nat /\ op \in Operations /\ op # "FACTOR"
      BY DEF Tokens, Operations, Logins
    <2>3. x \in Request
      BY <2>2 DEF Ready, Request, Operations, Logins, Steps
    <2>4. x.step \notin HeldSteps /\ OpFits(x.op, x.step) /\ (x.op = "FACTOR" => x.token \in 1..minted)
      BY <2>2 DEF Ready, HeldSteps, OpFits, Logins
    <2> HIDE DEF x
    <2>5. RequestsOK' /\ ReqMoved(r, x)
      BY <1>0, <2>1, <2>3, <2>4, Begins
    <2>6. redis' \in [Tokens -> Key] /\ KeysGo
      BY <1>0, <2>1 DEF KeysOK, KeysGo
    <2>7. KeysOK' /\ \A q \in LoginRequests : q # r => Mine(q)'
      BY <1>0, <2>1, <2>5, <2>6, KeysGone DEF ReqMoved
    <2>8. Mine(r)'
      BY <2>4, <2>5 DEF ReqMoved, Mine, HeldSteps
    <2>9. QED
      BY <1>0, <2>1, <2>5, <2>7, <2>8 DEF IdentityInv, AccountOK
  <1>4. ASSUME NEW r \in LoginRequests, NEW t \in Tokens, StartFactor(r, t) PROVE IdentityInv'
    <2> DEFINE x == [Ready EXCEPT !.op = "FACTOR", !.step = "LOCK", !.token = t]
    <2>1. UNCHANGED <<account, holder, redis, minted>> /\ req[r] = Ready /\ started' \in Nat
          /\ req' = [req EXCEPT ![r] = x]
      BY <1>0, <1>4 DEF StartFactor, Arrives
    <2>2. t \in Nat /\ t \in 1..minted
      BY <1>0, <1>4 DEF StartFactor, KeysOK, Live, Tokens
    <2>3. x \in Request
      BY <2>2 DEF Ready, Request, Operations, Logins, Steps
    <2>4. x.step \notin HeldSteps /\ OpFits(x.op, x.step) /\ (x.op = "FACTOR" => x.token \in 1..minted)
      BY <2>2 DEF Ready, HeldSteps, OpFits, Logins
    <2> HIDE DEF x
    <2>5. RequestsOK' /\ ReqMoved(r, x)
      BY <1>0, <2>1, <2>3, <2>4, Begins
    <2>6. redis' \in [Tokens -> Key] /\ KeysGo
      BY <1>0, <2>1 DEF KeysOK, KeysGo
    <2>7. KeysOK' /\ \A q \in LoginRequests : q # r => Mine(q)'
      BY <1>0, <2>1, <2>5, <2>6, KeysGone DEF ReqMoved
    <2>8. Mine(r)'
      BY <2>4, <2>5 DEF ReqMoved, Mine, HeldSteps
    <2>9. QED
      BY <1>0, <2>1, <2>5, <2>7, <2>8 DEF IdentityInv, AccountOK
  <1>5. ASSUME NEW r \in LoginRequests, NEW t \in Tokens, NEW op \in Browser, NEW p \in Tokens,
               StartBrowser(r, t, op, p)
        PROVE IdentityInv'
    <2> DEFINE x == [Ready EXCEPT !.op = op, !.step = "RENEW", !.token = t,
                                !.proof = IF op = "RESET" THEN p ELSE 0,
                                !.password = IF op = "CHANGE" THEN account.password ELSE 0]
    <2>1. UNCHANGED <<account, holder, redis, minted>> /\ req[r] = Ready /\ started' \in Nat
          /\ req' = [req EXCEPT ![r] = x]
      BY <1>0, <1>5 DEF StartBrowser, Arrives
    <2>2. /\ t \in Nat /\ (IF op = "RESET" THEN p ELSE 0) \in Nat
          /\ (IF op = "CHANGE" THEN account.password ELSE 0) \in Nat
          /\ op \in Operations /\ op \in Browser /\ op # "FACTOR"
      BY <1>0 DEF Tokens, AccountOK, Operations, Browser, AccountOps, ChangeOps
    <2>3. x \in Request
      BY <2>2 DEF Ready, Request, Operations, Logins, Steps
    <2>4. x.step \notin HeldSteps /\ OpFits(x.op, x.step) /\ (x.op = "FACTOR" => x.token \in 1..minted)
      BY <2>2 DEF Ready, HeldSteps, OpFits, Logins
    <2> HIDE DEF x
    <2>5. RequestsOK' /\ ReqMoved(r, x)
      BY <1>0, <2>1, <2>3, <2>4, Begins
    <2>6. redis' \in [Tokens -> Key] /\ KeysGo
      BY <1>0, <2>1 DEF KeysOK, KeysGo
    <2>7. KeysOK' /\ \A q \in LoginRequests : q # r => Mine(q)'
      BY <1>0, <2>1, <2>5, <2>6, KeysGone DEF ReqMoved
    <2>8. Mine(r)'
      BY <2>4, <2>5 DEF ReqMoved, Mine, HeldSteps
    <2>9. QED
      BY <1>0, <2>1, <2>5, <2>7, <2>8 DEF IdentityInv, AccountOK
  <1>6. ASSUME NEW r \in LoginRequests, NEW op \in AdminOps, StartAdmin(r, op) PROVE IdentityInv'
    <2> DEFINE x == [Ready EXCEPT !.op = op, !.step = "LOCK"]
    <2>1. UNCHANGED <<account, holder, redis, minted>> /\ req[r] = Ready /\ started' \in Nat
          /\ req' = [req EXCEPT ![r] = x]
      BY <1>0, <1>6 DEF StartAdmin, Arrives
    <2>2. op \in Operations /\ op # "FACTOR"
      BY DEF Operations, AdminOps
    <2>3. x \in Request
      BY <2>2 DEF Ready, Request, Operations, Logins, Steps
    <2>4. x.step \notin HeldSteps /\ OpFits(x.op, x.step) /\ (x.op = "FACTOR" => x.token \in 1..minted)
      BY <2>2 DEF Ready, HeldSteps, OpFits, Logins
    <2> HIDE DEF x
    <2>5. RequestsOK' /\ ReqMoved(r, x)
      BY <1>0, <2>1, <2>3, <2>4, Begins
    <2>6. redis' \in [Tokens -> Key] /\ KeysGo
      BY <1>0, <2>1 DEF KeysOK, KeysGo
    <2>7. KeysOK' /\ \A q \in LoginRequests : q # r => Mine(q)'
      BY <1>0, <2>1, <2>5, <2>6, KeysGone DEF ReqMoved
    <2>8. Mine(r)'
      BY <2>4, <2>5 DEF ReqMoved, Mine, HeldSteps
    <2>9. QED
      BY <1>0, <2>1, <2>5, <2>7, <2>8 DEF IdentityInv, AccountOK
  <1>7. ASSUME NEW r \in LoginRequests, DiscordStart(r) PROVE IdentityInv'
    <2>1. Mint("STATE", account.security, 0) /\ UNCHANGED <<account, holder, req>> /\ started' \in Nat
      BY <1>0, <1>7 DEF DiscordStart, Arrives
    <2>2. KeysOK'
      BY <1>0, <2>1, KeyCame
    <2>3. /\ minted' = minted + 1 
          /\ redis'[minted'] = [kind |-> "STATE", born |-> account.security, from |-> 0]
          /\ \A t \in Tokens : t # minted' => redis'[t] = redis[t]
      BY <1>0, <2>1, Minted
    <2>4. RequestsOK'
      BY <1>0, <2>1, <2>3 DEF RequestsOK
    <2>5. \A t \in Tokens : /\ Indexed(t)' => Indexed(t) /\ redis'[t] = redis[t]
                            /\ \A f : SessionFrom(t, f)' => SessionFrom(t, f)
                            /\ redis'[t].kind = "FLOW" => redis[t].kind = "FLOW"
      BY <2>3 DEF Indexed, SessionFrom
    <2>6. \A q \in LoginRequests : req[q].op = "FACTOR" => req[q].token \in Tokens
      BY <1>0, IdentityAssumption DEF RequestsOK, KeysOK, Tokens
    <2>7. \A q \in LoginRequests : Mine(q)'
      BY <1>0, <2>1, <2>5, <2>6 DEF Mine
    <2>8. QED
      BY <1>0, <2>1, <2>2, <2>4, <2>7 DEF IdentityInv, AccountOK
  <1>8. ASSUME NEW r \in LoginRequests, ConsumeState(r) PROVE IdentityInv'
    <2>1. KeysQuiet
      BY <1>0, <1>8, Deleted DEF ConsumeState, KeysQuiet, AccountOK
    <2>2. req[r].step \notin HeldSteps /\ holder # r /\ UNCHANGED holder
      BY <1>0, <1>8 DEF ConsumeState, HeldSteps
    <2>3. CASE Step(r, "LOCK")
      <3>1. req[r].op \in Logins
        BY <1>0, <1>8 DEF ConsumeState, RequestsOK, OpFits
      <3>2. QED
        BY <1>0, <2>1, <2>2, <2>3, <3>1, QuietStep DEF Steps, HeldSteps, OpFits
    <2>4. CASE req' = [req EXCEPT ![r] = Ready]
      BY <2>1, <2>2, <2>4, QuietEnd
    <2>5. QED
      BY <1>8, <2>3, <2>4 DEF ConsumeState
  <1>9. ASSUME NEW r \in LoginRequests, Renew(r) PROVE IdentityInv'
    <2>1. KeysQuiet
      BY <1>0, <1>9 DEF Renew, KeysQuiet, KeysOK, KeysGo, AccountOK
    <2>2. CASE Step(r, "WORK") /\ req[r].step = "RENEW_LOCKED" /\ UNCHANGED holder
      BY <1>0, <2>1, <2>2, QuietStep DEF Steps, HeldSteps, OpFits, RequestsOK
    <2>3. CASE Step(r, "SERVE") /\ req[r].step = "RENEW" /\ UNCHANGED holder
      BY <1>0, <2>1, <2>3, QuietStep DEF Steps, HeldSteps, OpFits, RequestsOK
    <2>4. CASE ReleaseRow(r) /\ req[r].step = "RENEW_LOCKED"
      BY <1>0, <2>1, <2>4, QuietEnd DEF HeldSteps
    <2>5. CASE req' = [req EXCEPT ![r] = Ready] /\ req[r].step = "RENEW" /\ UNCHANGED holder
      BY <2>1, <2>5, QuietEnd DEF HeldSteps
    <2>6. QED
      BY <1>9, <2>2, <2>3, <2>4, <2>5 DEF Renew
  <1>10. ASSUME NEW r \in LoginRequests, Serve(r) PROVE IdentityInv'
    <2>1. KeysQuiet
      BY <1>0, <1>10, Deleted DEF Serve, KeysQuiet, KeysOK, KeysGo, AccountOK
    <2>2. req[r].step \notin HeldSteps /\ holder # r /\ UNCHANGED holder
      BY <1>0, <1>10 DEF Serve, HeldSteps
    <2>3. CASE Step(r, "LOCK") /\ req[r].op \in AccountOps
      BY <1>0, <2>1, <2>2, <2>3, QuietStep DEF Steps, HeldSteps, OpFits
    <2>4. CASE req' = [req EXCEPT ![r] = Ready]
      BY <2>1, <2>2, <2>4, QuietEnd
    <2>5. QED
      BY <1>10, <2>3, <2>4 DEF Serve
  <1>11. ASSUME NEW r \in LoginRequests, LockRow(r) PROVE IdentityInv'
    <2>1. KeysQuiet
      BY <1>0, <1>11 DEF LockRow, KeysQuiet, KeysOK, KeysGo, AccountOK
    <2>2. CASE holder' = r /\ Step(r, FirstStep(req[r].op))
      <3>1. /\ FirstStep(req[r].op) \in HeldSteps \cap Steps
            /\ OpFits(req[r].op, FirstStep(req[r].op))
            /\ FirstStep(req[r].op) \notin {"ROTATE", "COMMIT", "CODE", "CONSUME_FLOW"}
            /\ req[r].op = "FACTOR" => FirstStep(req[r].op) # "ISSUE"
        <4>1. req[r].op \in Logins \cup AdminOps \cup AccountOps
          BY <1>0, <1>11 DEF LockRow, RequestsOK, OpFits
        <4>2. CASE req[r].op \in Logins
          BY <4>2 DEF FirstStep, HeldSteps, Steps, OpFits, Logins, AdminOps
        <4>3. CASE req[r].op \in AdminOps
          BY <4>3 DEF FirstStep, HeldSteps, Steps, OpFits, AdminOps
        <4>4. CASE req[r].op \in AccountOps
          BY <4>4 DEF FirstStep, HeldSteps, Steps, OpFits, AdminOps, AccountOps, ChangeOps
        <4>5. QED
          BY <4>1, <4>2, <4>3, <4>4
      <3>2. QED
        BY <1>11, <2>1, <2>2, <3>1, QuietStep DEF LockRow
    <2>3. CASE ReleaseRow(r) /\ holder = Unlocked
      BY <2>1, <2>3, QuietEnd
    <2>4. QED
      BY <1>11, <2>2, <2>3 DEF LockRow
  <1>12. ASSUME NEW r \in LoginRequests, GetLocked(r) PROVE IdentityInv'
    <2>1. KeysQuiet
      BY <1>0, <1>12 DEF GetLocked, KeysQuiet, KeysOK, KeysGo, AccountOK
    <2>2. holder = r
      BY <1>0, <1>12 DEF GetLocked, HeldSteps
    <2>3. CASE Step(r, "RENEW_LOCKED") /\ UNCHANGED holder
      BY <1>0, <1>12, <2>1, <2>2, <2>3, QuietStep DEF GetLocked, Steps, HeldSteps, OpFits, RequestsOK
    <2>4. CASE ReleaseRow(r)
      BY <2>1, <2>2, <2>4, QuietEnd
    <2>5. QED
      BY <1>12, <2>3, <2>4 DEF GetLocked
  <1>13. ASSUME NEW r \in LoginRequests, Reread(r) PROVE IdentityInv'
    <2>1. KeysQuiet
      BY <1>0, <1>13 DEF Reread, KeysQuiet, KeysOK, KeysGo, AccountOK
    <2>2. holder = r /\ req[r].op = "FACTOR" /\ req[r].token \in Tokens
      BY <1>0, <1>13, IdentityAssumption DEF Reread, HeldSteps, RequestsOK, OpFits, KeysOK, Tokens
    <2>3. CASE Step(r, "CODE") /\ UNCHANGED holder /\ redis[req[r].token].kind = "FLOW"
      <3>1. \A t \in Tokens : ~SessionFrom(t, req[r].token)
        BY <1>0, <2>2, <2>3 DEF KeysOK
      <3>2. \A t \in Tokens : redis'[t].kind = "SESSION" => redis'[t].from # req[r].token
        BY <1>13, <3>1 DEF SessionFrom, Reread
      <3>3. QED
        BY <2>1, <2>2, <2>3, <3>2, QuietStep DEF Steps, HeldSteps, OpFits
    <2>4. CASE ReleaseRow(r)
      BY <2>1, <2>2, <2>4, QuietEnd
    <2>5. QED
      BY <1>13, <2>3, <2>4 DEF Reread
  <1>14. ASSUME NEW r \in LoginRequests, ConsumeFlow(r) PROVE IdentityInv'
    <2>1. /\ KeysQuiet
          /\ \A t \in Tokens : redis'[t] = IF t = req[r].token THEN NoKey ELSE redis[t]
      BY <1>0, <1>14, Deleted DEF ConsumeFlow, KeysQuiet, AccountOK
    <2>2. /\ holder = r /\ UNCHANGED holder /\ req[r].op = "FACTOR" /\ req[r].token \in Tokens
          /\ Step(r, "ISSUE") /\ req[r].step = "CONSUME_FLOW"
      BY <1>0, <1>14, IdentityAssumption DEF ConsumeFlow, HeldSteps, RequestsOK, OpFits, KeysOK, Tokens
    <2>3. redis'[req[r].token].kind # "FLOW"
      BY <2>1, <2>2 DEF NoKey
    <2>4. \A t \in Tokens : redis'[t].kind = "SESSION" => redis'[t].from # req[r].token
      BY <1>0, <2>1, <2>2 DEF Mine, SessionFrom, NoKey
    <2>5. QED
      BY <2>1, <2>2, <2>3, <2>4, QuietStep DEF Steps, HeldSteps, OpFits, Logins
  <1>15. ASSUME NEW r \in LoginRequests, RevokeUser(r) PROVE IdentityInv'
    <2>1. /\ KeysQuiet
          /\ \A t \in Tokens : redis'[t] = IF redis[t].kind # "STATE" THEN NoKey ELSE redis[t]
      BY <1>0, <1>15, Deleted DEF RevokeUser, KeysQuiet, AccountOK
    <2>2. holder = r /\ UNCHANGED holder /\ req[r].step = "REVOKE" /\ req[r].op \in AdminOps \cup ChangeOps
      BY <1>0, <1>15 DEF RevokeUser, HeldSteps, RequestsOK, OpFits
    <2>3. \A t \in Tokens : ~Indexed(t)'
      BY <2>1 DEF Indexed, NoKey
    <2>4. CASE Step(r, "COMMIT")
      BY <2>1, <2>2, <2>3, <2>4, QuietStep DEF Steps, HeldSteps, OpFits
    <2>5. CASE Step(r, "ROTATE") /\ req[r].op \in ChangeOps
      BY <2>1, <2>2, <2>3, <2>5, QuietStep DEF Steps, HeldSteps, OpFits
    <2>6. QED
      BY <1>15, <2>2, <2>4, <2>5 DEF RevokeUser
  <1>16. ASSUME NEW r \in LoginRequests, Abort(r) PROVE IdentityInv'
    <2>1. KeysQuiet
      BY <1>0, <1>16, Deleted DEF Abort, KeysQuiet, KeysOK, KeysGo, AccountOK
    <2>2. QED
      BY <1>16, <2>1, QuietEnd DEF Abort
  <1>17. ASSUME NEW r \in LoginRequests, CheckCode(r) PROVE IdentityInv'
    <2>1. account' \in {account, Passed, Failed} /\ UNCHANGED <<redis, minted, started>>
      BY <1>17 DEF CheckCode
    <2>2. AccountOK' /\ account'.security = account.security
      <3>1. account.failed + 1 \in Nat
        BY <1>0 DEF AccountOK
      <3>2. CASE account' = account
        BY <1>0, <3>2 DEF AccountOK
      <3>3. CASE account' = Passed
        BY <1>0, <3>3 DEF AccountOK, Passed
      <3>4. CASE account' = Failed
        <4> DEFINE n == IF account.failed < FailLimit THEN account.failed + 1 ELSE account.failed
                   l == account.failed + 1 >= FailLimit
        <4>1. n \in Nat /\ l \in BOOLEAN
          BY <1>0, <3>1 DEF AccountOK
        <4>2. account' = [account EXCEPT !.failed = n, !.locked = l]
          BY <3>4 DEF Failed
        <4> HIDE DEF n, l
        <4>3. QED
          BY <1>0, <4>1, <4>2 DEF AccountOK
      <3>5. QED
        BY <2>1, <3>2, <3>3, <3>4
    <2>3. KeysQuiet
      BY <1>0, <2>1, <2>2 DEF KeysQuiet, KeysOK, KeysGo
    <2>4. holder = r /\ req[r].step = "CODE" /\ req[r].op \in {"FACTOR", "FACTOR_OFF"}
      BY <1>0, <1>17 DEF CheckCode, HeldSteps, RequestsOK, OpFits
    <2>5. CASE Step(r, "CONSUME_FLOW") /\ UNCHANGED holder /\ req[r].op = "FACTOR"
      <3>1. \A t \in Tokens : redis'[t].kind = "SESSION" => redis'[t].from # req[r].token
        BY <1>0, <2>1, <2>4, <2>5 DEF Mine, SessionFrom
      <3>2. QED
        BY <2>3, <2>4, <2>5, <3>1, QuietStep DEF Steps, HeldSteps, OpFits
    <2>6. CASE Step(r, "REVOKE") /\ UNCHANGED holder /\ req[r].op # "FACTOR"
      BY <2>3, <2>4, <2>6, QuietStep DEF Steps, HeldSteps, OpFits, ChangeOps
    <2>7. CASE ReleaseRow(r)
      BY <2>3, <2>4, <2>7, QuietEnd
    <2>8. QED
      BY <1>17, <2>5, <2>6, <2>7 DEF CheckCode
  <1>18. ASSUME NEW r \in LoginRequests, Issue(r) PROVE IdentityInv'
    <2>1. /\ holder = r /\ req[r].step = "ISSUE" /\ req[r].op \in Logins
          /\ UNCHANGED <<account, holder, started>>
      BY <1>0, <1>18 DEF Issue, HeldSteps, RequestsOK, OpFits
    <2>2. req[r].op \notin AdminOps \cup ChangeOps
      BY <2>1 DEF Logins, AdminOps, ChangeOps
    <2> DEFINE x == [req[r] EXCEPT !.step = "COMMIT", !.made = minted + 1]
    <2>3. minted + 1 \in Nat /\ req[r] \in Request
      BY <1>0
    <2>4. x \in Request /\ x.step = "COMMIT" /\ x.op = req[r].op /\ x.token = req[r].token
      BY <2>3 DEF Request, Steps, HeldSteps
    <2>5. req' = [req EXCEPT ![r] = x]
      BY <1>18 DEF Issue
    <2> HIDE DEF x
    <2>6. ReqMoved(r, x)
      BY <1>0, <2>4, <2>5 DEF ReqMoved, RequestsOK
    <2>7. CASE Mint("FLOW", account.security, 0)
      BY <1>0, <2>1, <2>2, <2>4, <2>6, <2>7, MintStep
    <2>8. CASE Mint("SESSION", account.security, 0)
      BY <1>0, <2>1, <2>2, <2>4, <2>6, <2>8, MintStep
    <2>9. CASE Mint("SESSION", account.security, req[r].token) /\ req[r].op = "FACTOR"
      <3>1. req[r].token \in Tokens /\ req[r].token <= minted /\ req[r].token \in Nat
        BY <1>0, <2>9, IdentityAssumption DEF RequestsOK, KeysOK, Tokens
      <3>2. redis[req[r].token].kind # "FLOW" /\ \A t \in Tokens : ~SessionFrom(t, req[r].token)
        BY <1>0, <2>1, <2>9 DEF Mine
      <3>3. QED
        BY <1>0, <2>1, <2>2, <2>4, <2>6, <2>9, <3>1, <3>2, MintStep
    <2>10. QED
      BY <1>18, <2>7, <2>8, <2>9 DEF Issue
  <1>19. ASSUME NEW r \in LoginRequests, Rotate(r) PROVE IdentityInv'
    <2>1. /\ holder = r /\ req[r].step = "ROTATE" /\ UNCHANGED <<account, holder, started>>
          /\ Mint("SESSION", account.security + 1, 0) /\ Step(r, "COMMIT")
          /\ account.security + 1 \in Nat /\ account.security + 1 >= account.security
      BY <1>0, <1>19 DEF Rotate, HeldSteps
    <2>2. \A t \in Tokens : ~Indexed(t)
      BY <1>0, <2>1 DEF Mine
    <2>3. PICK x \in Request : /\ ReqMoved(r, x) /\ x.step = "COMMIT" /\ x.op = req[r].op
                               /\ x.token = req[r].token
      BY <1>0, <2>1, Stepped DEF Steps, HeldSteps
    <2>4. QED
      BY <1>0, <2>1, <2>2, <2>3, MintStep
  <1>20. ASSUME NEW r \in LoginRequests, Work(r) PROVE IdentityInv'
    <2>1. /\ holder = r /\ req[r].step = "WORK" /\ req[r].op \in AccountOps
          /\ UNCHANGED <<account, started>>
      BY <1>0, <1>20 DEF Work, HeldSteps, RequestsOK, OpFits
    <2>2. CASE req[r].op = "PROVE"
      <3>1. /\ Mint("PROOF", account.security, req[r].token) /\ Step(r, "COMMIT")
            /\ UNCHANGED holder /\ req[r].token \in Nat
        BY <1>0, <1>20, <2>2 DEF Work, Request
      <3>2. PICK x \in Request : /\ ReqMoved(r, x) /\ x.step = "COMMIT" /\ x.op = req[r].op
                                 /\ x.token = req[r].token
        BY <1>0, <3>1, Stepped DEF Steps, HeldSteps
      <3>3. x.op \notin AdminOps \cup ChangeOps
        BY <2>2, <3>2 DEF AdminOps, ChangeOps
      <3>4. QED
        BY <1>0, <2>1, <3>1, <3>2, <3>3, MintStep
    <2>3. CASE req[r].op # "PROVE"
      <3>1. KeysQuiet
        <4>1. Delete({req[r].proof}) \/ UNCHANGED redis
          BY <1>20, <2>3 DEF Work
        <4>2. redis' \in [Tokens -> Key] /\ KeysGo
          BY <1>0, <4>1, Deleted DEF KeysOK, KeysGo
        <4>3. UNCHANGED minted
          BY <1>20, <2>3 DEF Work
        <4>4. QED
          BY <1>0, <2>1, <4>2, <4>3 DEF KeysQuiet, AccountOK
      <3>2. CASE Step(r, "REVOKE") /\ UNCHANGED holder /\ req[r].op \in ChangeOps
        BY <2>1, <3>1, <3>2, QuietStep DEF Steps, HeldSteps, OpFits
      <3>3. CASE Step(r, "COMMIT") /\ UNCHANGED holder /\ req[r].op = "SETUP"
        BY <2>1, <3>1, <3>3, QuietStep DEF Steps, HeldSteps, OpFits, AdminOps, ChangeOps
      <3>4. CASE Step(r, "CODE") /\ UNCHANGED holder /\ req[r].op = "FACTOR_OFF"
        BY <2>1, <3>1, <3>4, QuietStep DEF Steps, HeldSteps, OpFits
      <3>5. CASE ReleaseRow(r)
        BY <2>1, <3>1, <3>5, QuietEnd
      <3>6. QED
        BY <1>20, <2>3, <3>2, <3>3, <3>4, <3>5 DEF Work, ChangeOps
    <2>4. QED
      BY <2>2, <2>3
  <1>21. ASSUME NEW r \in LoginRequests, CommitAccount(r) PROVE IdentityInv'
    <2>1. /\ holder = r /\ req[r].step = "COMMIT" /\ account' = Written(req[r].op) /\ ReleaseRow(r)
          /\ UNCHANGED <<redis, minted, started>>
      BY <1>0, <1>21 DEF CommitAccount, HeldSteps
    <2>2. /\ AccountOK'
          /\ \/ account'.security = account.security
             \/ /\ req[r].op \in AdminOps \cup ChangeOps
                /\ account'.security = account.security + 1
      <3>1. account.password + 1 \in Nat /\ account.security + 1 \in Nat /\ account.receipts + 1 \in Nat
        BY <1>0 DEF AccountOK
      <3>2. CASE req[r].op \in {"CHANGE", "RESET"}
        BY <1>0, <2>1, <3>1, <3>2 DEF Written, AccountOK, ChangeOps
      <3>3. CASE req[r].op = "FACTOR_ON"
        BY <1>0, <2>1, <3>1, <3>3 DEF Written, AccountOK, ChangeOps
      <3>4. CASE req[r].op \in {"FACTOR_OFF", "RESET_2FA"}
        BY <1>0, <2>1, <3>1, <3>4 DEF Written, AccountOK, ChangeOps, AdminOps
      <3>5. CASE req[r].op \in {"STATUS", "KICK"}
        BY <1>0, <2>1, <3>1, <3>5 DEF Written, AccountOK, AdminOps
      <3>6. CASE req[r].op = "SETUP"
        BY <1>0, <2>1, <3>6 DEF Written, AccountOK
      <3>7. CASE req[r].op = "REGISTER" /\ ~account.exists
        <4>1. account.receipts = 0
          BY <1>0, <3>7 DEF AccountOK
        <4>2. account' = [account EXCEPT !.exists = TRUE, !.receipts = 1]
          BY <2>1, <3>7, <4>1 DEF Written
        <4>3. QED
          BY <1>0, <4>2 DEF AccountOK
      <3>8. CASE account' = account
        BY <1>0, <3>8 DEF AccountOK
      <3>9. QED
        BY <2>1, <3>2, <3>3, <3>4, <3>5, <3>6, <3>7, <3>8 DEF Written
    <2>3. KeysOK'
      <3>1. \A t \in Tokens : Indexed(t) => redis[t].born >= account'.security
        BY <1>0, <2>1, <2>2 DEF KeysOK, Mine
      <3>2. QED
        BY <1>0, <2>1, <3>1 DEF KeysOK, Live, Indexed, SessionFrom
    <2>4. RequestsOK' /\ holder' = Unlocked
      BY <1>0, <2>1, Ends DEF ReleaseRow
    <2>5. \A q \in LoginRequests : Mine(q)'
      BY <2>4, Constants DEF RequestsOK, Mine, HeldSteps
    <2>6. QED
      BY <2>2, <2>3, <2>4, <2>5 DEF IdentityInv
  <1>22. ASSUME NEW t \in Tokens, Expire(t) PROVE IdentityInv'
    <2>1. KeysQuiet
      BY <1>0, <1>22, Deleted DEF Expire, KeysQuiet, AccountOK
    <2>2. QED
      BY <1>22, <2>1, QuietRest DEF Expire
  <1>23. ASSUME LockoutEnds PROVE IdentityInv'
    <2>1. AccountOK' /\ account'.security = account.security
      BY <1>0, <1>23 DEF LockoutEnds, AccountOK
    <2>2. KeysQuiet
      BY <1>0, <1>23, <2>1 DEF LockoutEnds, KeysQuiet, KeysOK, KeysGo
    <2>3. QED
      BY <1>23, <2>2, QuietRest DEF LockoutEnds
  <1>24. QED
    BY <1>1, <1>2, <1>3, <1>4, <1>5, <1>6, <1>7, <1>8, <1>9, <1>10, <1>11, <1>12, <1>13, <1>14,
       <1>15, <1>16, <1>17, <1>18, <1>19, <1>20, <1>21, <1>22, <1>23 DEF IdentityNext, Browser

\* A committed change of the account leaves no login made before it, a challenge opens
\* one session, and a registration leaves one receipt (RevokeUser, finishLogin and
\* completeDiscord under the row lock), whatever requests run at the same time.
THEOREM SessionsFollowAccountHolds == IdentitySpec => []SessionsFollowAccount
  <1>1. IdentityInv => SessionsFollowAccount
    <2> SUFFICES ASSUME IdentityInv PROVE SessionsFollowAccount
      OBVIOUS
    <2>1. AccountOK /\ KeysOK
      BY DEF IdentityInv
    <2>2. \A t, u \in Tokens :
             redis[t].kind = "SESSION" /\ redis[u].kind = "SESSION" /\ t # u
             => redis[t].from = 0 \/ redis[t].from # redis[u].from
      BY <2>1 DEF KeysOK, SessionFrom
    <2>3. account.receipts <= 1
      BY <2>1 DEF AccountOK
    <2>4. QED
      BY <2>1, <2>2, <2>3 DEF SessionsFollowAccount, KeysOK, Indexed
  <1>2. QED
    BY IdentityInitially, IdentityStep, <1>1, PTL DEF IdentitySpec


(***************************************************************************)
(* PokerEntry, for any guests, keys, creating requests and passwords.      *)
(*                                                                         *)
(* The argument: the commands of the table run one at a time, so that what *)
(* a command found in the table's rows before it waited is still there     *)
(* when it goes on (CommandOK); of the seat's key in Redis only that it    *)
(* may be gone.                                                            *)
(***************************************************************************)
CreateSteps == {"READ", "VERIFY", "INSERT", "RACED", "CREATED", "REFUSED"}
Receipts == {"NONE", "FAILED_NO_EFFECT", "CONFIRMED"}

EntryTypeOK ==
    /\ create \in [Creates -> [step : CreateSteps, password : Passwords,
                               stored : Passwords \cup {"NONE"}]]
    /\ credential \in Passwords \cup {"NONE"}
    /\ seatLease \in Stays \cup {NoSeat} /\ seated \in Stays \cup {NoSeat}
    /\ stay \in [Stays -> {"NONE", "LEASE_ACTIVE", "EXPIRED", "CONSUMED"}]
    /\ buyIn \in [Stays -> Receipts] /\ chips \in [Guests -> Int]
    /\ command \in [step : {"NONE", "ACQUIRE", "RESERVE", "APPLY", "FINAL", "RELEASE"},
                    stay : Stays \cup {NoSeat}, receipt : Receipts]

\* What the command under way found in the rows of the table.
CommandOK ==
    LET s == command.stay
    IN  /\ command.step # "NONE" => s \in Stays
        /\ command.step \in {"ACQUIRE", "RESERVE"} => stay[s] = "NONE"
        /\ command.step = "APPLY" =>
              stay[s] = "LEASE_ACTIVE" /\ buyIn[s] = "NONE" /\ seatLease \in {s, NoSeat}
        /\ command.step = "FINAL" =>
              /\ buyIn[s] = "NONE"
              /\ command.receipt = "CONFIRMED" =>
                    stay[s] = "LEASE_ACTIVE" /\ seated = NoSeat /\ seatLease \in {s, NoSeat}

Paid == \A g \in Guests : chips[g] = IF seated.guest = g THEN 0 ELSE 1
Told ==
    /\ \A s \in Stays : buyIn[s] = "CONFIRMED" <=> stay[s] = "CONSUMED"
    /\ seated # NoSeat => buyIn[seated] = "CONFIRMED"
OneLease == \A s, t \in Stays : stay[s] = "LEASE_ACTIVE" /\ stay[t] = "LEASE_ACTIVE" => s = t
OwnTable == \A r \in Creates : create[r].step = "CREATED" => create[r].password = credential

EntryInv == EntryTypeOK /\ CommandOK /\ Paid /\ Told /\ OneLease /\ OwnTable

\* The null values are nobody's.
LEMMA NobodyEnters ==
    /\ NoSeat \notin Stays /\ "NONE" \notin Passwords
    /\ \A g \in Guests : NoSeat.guest # g
    /\ \A s \in Stays : s.guest \in Guests
    /\ Waiting.step = "NONE" /\ Waiting.stay = NoSeat /\ Waiting.receipt = "NONE"
  BY EntryAssumption DEF NoSeat, Stays, Waiting

\* At first the seat is free, nobody paid and no table was made.
LEMMA EntryInitially == EntryInit => EntryInv
  <1> SUFFICES ASSUME EntryInit PROVE EntryInv
    OBVIOUS
  <1>1. EntryTypeOK
    BY NobodyEnters DEF EntryInit, EntryTypeOK, CreateSteps, Receipts, Waiting
  <1>2. CommandOK /\ Paid /\ Told /\ OneLease
    BY NobodyEnters DEF EntryInit, CommandOK, Paid, Told, OneLease, Waiting
  <1>3. OwnTable
    BY DEF EntryInit, OwnTable
  <1>4. QED
    BY <1>1, <1>2, <1>3 DEF EntryInv

\* A step that leaves the requests for the table alone keeps OwnTable.
CreatesKept == UNCHANGED <<create, credential>>
\* A step that leaves the table alone.
TableKept == UNCHANGED <<seatLease, stay, buyIn, seated, chips, command>>

\* What is true of the table's rows stays true when they stay.
LEMMA TableStays ==
    ASSUME EntryInv, TableKept
    PROVE  CommandOK' /\ Paid' /\ Told' /\ OneLease'
  <1>1. seatLease' = seatLease /\ stay' = stay /\ buyIn' = buyIn /\ seated' = seated
        /\ chips' = chips /\ command' = command
    BY DEF TableKept
  <1>2. CommandOK' /\ Paid'
    BY <1>1 DEF EntryInv, CommandOK, Paid
  <1>3. Told' /\ OneLease'
    BY <1>1 DEF EntryInv, Told, OneLease
  <1>4. QED
    BY <1>2, <1>3

\* A step of one request that creates the table.
LEMMA CreateSteps_Keep ==
    ASSUME EntryInv, NEW r \in Creates,
           readPasswordCreate(r) \/ insertPasswordCreate(r) \/ verifyPasswordCreateReplay(r)
    PROVE  EntryInv'
  <1>1. TableKept
    BY DEF TableKept, tableVars, readPasswordCreate, insertPasswordCreate, verifyPasswordCreateReplay
  <1>2. create[r] \in [step : CreateSteps, password : Passwords, stored : Passwords \cup {"NONE"}]
        /\ create \in [Creates -> [step : CreateSteps, password : Passwords,
                                   stored : Passwords \cup {"NONE"}]]
        /\ credential \in Passwords \cup {"NONE"}
    BY DEF EntryInv, EntryTypeOK
  <1>3. \E step \in CreateSteps, stored \in Passwords \cup {"NONE"} :
           /\ CreateStep(r, step, stored)
           /\ credential' \in Passwords \cup {"NONE"}
           /\ credential # "NONE" => credential' = credential
           /\ step = "CREATED" => create[r].password = credential'
    <2>1. CASE readPasswordCreate(r)
      <3>1. CreateStep(r, IF credential # "NONE" THEN "VERIFY" ELSE "INSERT", credential)
            /\ credential' = credential
        BY <2>1 DEF readPasswordCreate
      <3>2. (IF credential # "NONE" THEN "VERIFY" ELSE "INSERT") \in CreateSteps \ {"CREATED"}
        BY DEF CreateSteps
      <3>3. QED
        BY <1>2, <3>1, <3>2
    <2>2. CASE insertPasswordCreate(r)
      <3>1. CASE credential # "NONE"
        <4>1. CreateStep(r, "RACED", "NONE") /\ credential' = credential
          BY <2>2, <3>1 DEF insertPasswordCreate
        <4>2. QED
          BY <1>2, <4>1 DEF CreateSteps
      <3>2. CASE credential = "NONE"
        <4>1. CreateStep(r, "CREATED", "NONE") /\ credential' = create[r].password
          BY <2>2, <3>2 DEF insertPasswordCreate
        <4>2. QED
          BY <1>2, <3>2, <4>1 DEF CreateSteps
      <3>3. QED
        BY <3>1, <3>2
    <2>3. CASE verifyPasswordCreateReplay(r)
      <3>1. CASE create[r].password = create[r].stored /\ credential = create[r].stored
        <4>1. CreateStep(r, "CREATED", "NONE") /\ credential' = credential
          BY <2>3, <3>1 DEF verifyPasswordCreateReplay
        <4>2. QED
          BY <1>2, <3>1, <4>1 DEF CreateSteps
      <3>2. CASE ~(create[r].password = create[r].stored /\ credential = create[r].stored)
        <4>1. CreateStep(r, "REFUSED", "NONE") /\ credential' = credential
          BY <2>3, <3>2 DEF verifyPasswordCreateReplay
        <4>2. QED
          BY <1>2, <4>1 DEF CreateSteps
      <3>3. QED
        BY <3>1, <3>2
    <2>4. QED
      BY <2>1, <2>2, <2>3
  <1>4. PICK step \in CreateSteps, stored \in Passwords \cup {"NONE"} :
           /\ CreateStep(r, step, stored)
           /\ credential' \in Passwords \cup {"NONE"}
           /\ credential # "NONE" => credential' = credential
           /\ step = "CREATED" => create[r].password = credential'
    BY <1>3
  <1>5. create' = [create EXCEPT ![r] = [create[r] EXCEPT !.step = step, !.stored = stored]]
    BY <1>4 DEF CreateStep
  <1>6. EntryTypeOK'
    <2>1. [create[r] EXCEPT !.step = step, !.stored = stored]
             \in [step : CreateSteps, password : Passwords, stored : Passwords \cup {"NONE"}]
      BY <1>2
    <2>2. create' \in [Creates -> [step : CreateSteps, password : Passwords,
                                   stored : Passwords \cup {"NONE"}]]
      BY <1>2, <1>5, <2>1
    <2>3. QED
      BY <1>1, <1>4, <2>2 DEF EntryInv, EntryTypeOK, TableKept
  <1>7. OwnTable'
    <2> SUFFICES ASSUME NEW q \in Creates, create'[q].step = "CREATED"
                 PROVE  create'[q].password = credential'
      BY DEF OwnTable
    <2>1. CASE q = r
      <3>1. create'[q].step = step /\ create'[q].password = create[r].password
        BY <1>2, <1>5, <2>1
      <3>2. QED
        BY <1>4, <3>1
    <2>2. CASE q # r
      <3>1. create'[q] = create[q]
        BY <1>2, <1>5, <2>2
      <3>2. create[q].password = credential /\ create[q].password \in Passwords
        BY <1>2, <3>1 DEF EntryInv, OwnTable
      <3>3. QED
        BY <1>4, <3>1, <3>2, NobodyEnters
    <2>3. QED
      BY <2>1, <2>2
  <1>8. QED
    BY <1>1, <1>6, <1>7, TableStays DEF EntryInv

\* OwnTable survives everything else.
LEMMA CreatesStay == EntryInv /\ CreatesKept => OwnTable'
  BY DEF EntryInv, CreatesKept, OwnTable

\* The seat's key runs out or is given back.
LEMMA KeyGone ==
    ASSUME EntryInv, CreatesKept, UNCHANGED <<stay, buyIn, seated, chips, command>>,
           seatLease' \in {seatLease, NoSeat}
    PROVE  EntryInv'
  <1>1. create' = create /\ credential' = credential /\ stay' = stay /\ buyIn' = buyIn
        /\ seated' = seated /\ chips' = chips /\ command' = command
    BY DEF CreatesKept
  <1>2. EntryTypeOK'
    BY <1>1 DEF EntryInv, EntryTypeOK
  <1>3. CommandOK'
    BY <1>1 DEF EntryInv, CommandOK
  <1>4. Paid' /\ Told' /\ OneLease'
    BY <1>1 DEF EntryInv, Paid, Told, OneLease
  <1>5. QED
    BY <1>2, <1>3, <1>4, CreatesStay DEF EntryInv

\* A command ends, wherever it is.
LEMMA CommandEnds ==
    ASSUME EntryInv, CreatesKept, UNCHANGED <<stay, buyIn, seated, chips>>, command' = Waiting,
           seatLease' \in Stays \cup {NoSeat}
    PROVE  EntryInv'
  <1>1. create' = create /\ credential' = credential /\ stay' = stay /\ buyIn' = buyIn
        /\ seated' = seated /\ chips' = chips
    BY DEF CreatesKept
  <1>2. EntryTypeOK'
    BY <1>1 DEF EntryInv, EntryTypeOK, Waiting, Receipts
  <1>3. CommandOK'
    BY NobodyEnters DEF CommandOK
  <1>4. Paid' /\ Told' /\ OneLease'
    BY <1>1 DEF EntryInv, Paid, Told, OneLease
  <1>5. QED
    BY <1>2, <1>3, <1>4, CreatesStay DEF EntryInv

\* A command goes on to its next step and has changed no row yet.
LEMMA CommandGoes ==
    ASSUME EntryInv, CreatesKept, UNCHANGED <<stay, buyIn, seated, chips>>,
           NEW step \in {"ACQUIRE", "RESERVE", "APPLY", "FINAL", "RELEASE"}, NEW s \in Stays,
           NEW receipt \in Receipts, At(step, s, receipt), seatLease' \in Stays \cup {NoSeat},
           step \in {"ACQUIRE", "RESERVE"} => stay[s] = "NONE",
           step = "APPLY" => stay[s] = "LEASE_ACTIVE" /\ buyIn[s] = "NONE" /\ seatLease' \in {s, NoSeat},
           step = "FINAL" => buyIn[s] = "NONE",
           step = "FINAL" /\ receipt = "CONFIRMED" =>
              stay[s] = "LEASE_ACTIVE" /\ seated = NoSeat /\ seatLease' \in {s, NoSeat}
    PROVE  EntryInv'
  <1>1. create' = create /\ credential' = credential /\ stay' = stay /\ buyIn' = buyIn
        /\ seated' = seated /\ chips' = chips
    BY DEF CreatesKept
  <1>2. command' = [step |-> step, stay |-> s, receipt |-> receipt]
    BY DEF At
  <1>3. command'.step = step /\ command'.stay = s /\ command'.receipt = receipt
    BY <1>2
  <1>4. EntryTypeOK'
    BY <1>1, <1>2 DEF EntryInv, EntryTypeOK, Receipts
  <1>5. CommandOK'
    BY <1>1, <1>3 DEF CommandOK
  <1>6. Paid' /\ Told' /\ OneLease'
    BY <1>1 DEF EntryInv, Paid, Told, OneLease
  <1>7. QED
    BY <1>4, <1>5, <1>6, CreatesStay DEF EntryInv


\* A reservation is saved, and the other one of the seat has expired.
LEMMA ReservationSaved ==
    ASSUME EntryInv, command.step = "RESERVE", CreatesKept, command' = Waiting,
           stay' = Reserved(command.stay), UNCHANGED <<seatLease, buyIn, seated, chips>>
    PROVE  EntryInv'
  <1>1. PICK s : s = command.stay
    OBVIOUS
  <1>2. s \in Stays /\ stay[s] = "NONE"
    BY <1>1 DEF EntryInv, CommandOK
  <1>3. /\ stay' \in [Stays -> {"NONE", "LEASE_ACTIVE", "EXPIRED", "CONSUMED"}]
        /\ \A r \in Stays : stay'[r] = IF r = s THEN "LEASE_ACTIVE"
                                       ELSE IF stay[r] = "LEASE_ACTIVE" THEN "EXPIRED" ELSE stay[r]
    BY <1>1 DEF Reserved, EntryInv, EntryTypeOK
  <1>4. create' = create /\ credential' = credential /\ seatLease' = seatLease /\ buyIn' = buyIn
        /\ seated' = seated /\ chips' = chips
    BY DEF CreatesKept
  <1>5. EntryTypeOK'
    BY <1>3, <1>4 DEF EntryInv, EntryTypeOK, Waiting, Receipts
  <1>6. CommandOK'
    BY NobodyEnters DEF CommandOK
  <1>7. Paid'
    BY <1>4 DEF EntryInv, Paid
  <1>8. Told'
    <2>1. buyIn[s] # "CONFIRMED"
      BY <1>2 DEF EntryInv, Told
    <2>2. \A r \in Stays : buyIn'[r] = "CONFIRMED" <=> stay'[r] = "CONSUMED"
      <3> SUFFICES ASSUME NEW r \in Stays
                   PROVE  buyIn[r] = "CONFIRMED" <=> stay'[r] = "CONSUMED"
        BY <1>4
      <3>1. buyIn[r] = "CONFIRMED" <=> stay[r] = "CONSUMED"
        BY DEF EntryInv, Told
      <3>2. QED
        BY <1>3, <2>1, <3>1
    <2>3. QED
      BY <1>4, <2>2 DEF EntryInv, Told
  <1>9. OneLease'
    BY <1>3 DEF OneLease
  <1>10. QED
    BY <1>5, <1>6, <1>7, <1>8, <1>9, CreatesStay DEF EntryInv

\* A buy-in is refused: its receipt is saved, and perhaps its reservation expired.
LEMMA Refused ==
    ASSUME EntryInv, NEW s \in Stays, buyIn[s] = "NONE", CreatesKept,
           buyIn' = [buyIn EXCEPT ![s] = "FAILED_NO_EFFECT"],
           \/ stay' = stay
           \/ stay' = [stay EXCEPT ![s] = IF @ = "LEASE_ACTIVE" THEN "EXPIRED" ELSE @],
           UNCHANGED <<seatLease, seated, chips>>, command' = Waiting
    PROVE  EntryInv'
  <1>1. create' = create /\ credential' = credential /\ seatLease' = seatLease
        /\ seated' = seated /\ chips' = chips
    BY DEF CreatesKept
  <1>2. /\ buyIn' \in [Stays -> Receipts]
        /\ buyIn'[s] = "FAILED_NO_EFFECT" /\ \A r \in Stays : r # s => buyIn'[r] = buyIn[r]
    BY DEF EntryInv, EntryTypeOK, Receipts
  <1>3. /\ stay' \in [Stays -> {"NONE", "LEASE_ACTIVE", "EXPIRED", "CONSUMED"}]
        /\ \A r \in Stays : r # s => stay'[r] = stay[r]
        /\ stay'[s] \in {stay[s], "EXPIRED"}
    BY DEF EntryInv, EntryTypeOK
  <1>4. stay[s] # "CONSUMED"
    BY DEF EntryInv, Told
  <1>5. EntryTypeOK'
    BY <1>1, <1>2, <1>3 DEF EntryInv, EntryTypeOK, Waiting, Receipts
  <1>6. CommandOK'
    BY NobodyEnters DEF CommandOK
  <1>7. Paid'
    BY <1>1 DEF EntryInv, Paid
  <1>8. Told'
    <2>1. \A r \in Stays : buyIn'[r] = "CONFIRMED" <=> stay'[r] = "CONSUMED"
      <3> SUFFICES ASSUME NEW r \in Stays
                   PROVE  buyIn'[r] = "CONFIRMED" <=> stay'[r] = "CONSUMED"
        OBVIOUS
      <3>1. buyIn[r] = "CONFIRMED" <=> stay[r] = "CONSUMED"
        BY DEF EntryInv, Told
      <3>2. QED
        BY <1>2, <1>3, <1>4, <3>1
    <2>2. seated # NoSeat => seated # s /\ buyIn[seated] = "CONFIRMED" /\ seated \in Stays
      BY DEF EntryInv, Told, EntryTypeOK
    <2>3. QED
      BY <1>1, <1>2, <2>1, <2>2 DEF Told
  <1>9. OneLease'
    <2> SUFFICES ASSUME NEW r \in Stays, NEW t \in Stays, stay'[r] = "LEASE_ACTIVE", stay'[t] = "LEASE_ACTIVE"
                 PROVE  r = t
      BY DEF OneLease
    <2>1. stay[r] = "LEASE_ACTIVE" /\ stay[t] = "LEASE_ACTIVE"
      BY <1>3
    <2>2. QED
      BY <2>1 DEF EntryInv, OneLease
  <1>10. QED
    BY <1>5, <1>6, <1>7, <1>8, <1>9, CreatesStay DEF EntryInv

\* A buy-in is confirmed: one chip, the seat and the reservation in one transaction.
LEMMA Confirmed ==
    ASSUME EntryInv, NEW s, s = command.stay, command.step = "FINAL",
           command.receipt = "CONFIRMED", CreatesKept, UNCHANGED seatLease,
           Effects(s, "CONFIRMED"), At("RELEASE", s, "NONE")
    PROVE  EntryInv' /\ seated' = s /\ seatLease \in {s, NoSeat}
  <1>1. /\ s \in Stays /\ buyIn[s] = "NONE" /\ stay[s] = "LEASE_ACTIVE" /\ seated = NoSeat
        /\ seatLease \in {s, NoSeat}
    BY DEF EntryInv, CommandOK
  <1>2. create' = create /\ credential' = credential /\ seatLease' = seatLease
    BY DEF CreatesKept
  <1>3. /\ buyIn' = [buyIn EXCEPT ![s] = "CONFIRMED"] /\ seated' = s
        /\ chips' = [chips EXCEPT ![s.guest] = chips[s.guest] - 1]
        /\ stay' = [stay EXCEPT ![s] = "CONSUMED"]
    BY DEF Effects
  <1>4. command' = [step |-> "RELEASE", stay |-> s, receipt |-> "NONE"]
    BY DEF At
  <1>5. s.guest \in Guests /\ chips \in [Guests -> Int] /\ chips[s.guest] = 1
    <2>1. s.guest \in Guests /\ seated.guest # s.guest
      BY <1>1, NobodyEnters
    <2>2. QED
      BY <2>1 DEF EntryInv, Paid, EntryTypeOK
  <1>6. EntryTypeOK'
    <2>1. chips' \in [Guests -> Int]
      BY <1>3, <1>5
    <2>2. buyIn' \in [Stays -> Receipts]
      BY <1>3 DEF EntryInv, EntryTypeOK, Receipts
    <2>3. stay' \in [Stays -> {"NONE", "LEASE_ACTIVE", "EXPIRED", "CONSUMED"}]
      BY <1>3 DEF EntryInv, EntryTypeOK
    <2>4. command' \in [step : {"NONE", "ACQUIRE", "RESERVE", "APPLY", "FINAL", "RELEASE"},
                        stay : Stays \cup {NoSeat}, receipt : Receipts]
      BY <1>1, <1>4 DEF Receipts
    <2>5. QED
      BY <1>1, <1>2, <1>3, <2>1, <2>2, <2>3, <2>4 DEF EntryInv, EntryTypeOK
  <1>7. CommandOK'
    <2>1. command'.step = "RELEASE" /\ command'.stay = s
      BY <1>4
    <2>2. QED
      BY <1>1, <2>1 DEF CommandOK
  <1>8. Paid'
    <2> SUFFICES ASSUME NEW g \in Guests PROVE chips'[g] = IF seated'.guest = g THEN 0 ELSE 1
      BY DEF Paid
    <2>1. chips[g] = 1
      BY <1>1, NobodyEnters DEF EntryInv, Paid
    <2>2. QED
      BY <1>3, <1>5, <2>1
  <1>9. Told'
    <2>1. \A r \in Stays : buyIn'[r] = "CONFIRMED" <=> stay'[r] = "CONSUMED"
      BY <1>3 DEF EntryInv, Told, EntryTypeOK
    <2>2. buyIn'[s] = "CONFIRMED"
      BY <1>1, <1>3 DEF EntryInv, EntryTypeOK
    <2>3. QED
      BY <1>3, <2>1, <2>2 DEF Told
  <1>10. OneLease'
    <2> SUFFICES ASSUME NEW r \in Stays, NEW t \in Stays, stay'[r] = "LEASE_ACTIVE", stay'[t] = "LEASE_ACTIVE"
                 PROVE  r = t
      BY DEF OneLease
    <2>1. stay[r] = "LEASE_ACTIVE" /\ stay[t] = "LEASE_ACTIVE"
      BY <1>3 DEF EntryInv, EntryTypeOK
    <2>2. QED
      BY <2>1 DEF EntryInv, OneLease
  <1>11. QED
    BY <1>1, <1>3, <1>6, <1>7, <1>8, <1>9, <1>10, CreatesStay DEF EntryInv

\* The player is paid and the seat is free.
LEMMA PaidOut == ASSUME EntryInv, CashOut PROVE EntryInv'
  <1>1. /\ command = Waiting /\ seated # NoSeat /\ seated' = NoSeat
        /\ chips' = [chips EXCEPT ![seated.guest] = chips[seated.guest] + 1]
        /\ create' = create /\ credential' = credential /\ seatLease' = seatLease
        /\ stay' = stay /\ buyIn' = buyIn /\ command' = command
    BY DEF CashOut, Elsewhere
  <1>2. seated \in Stays /\ seated.guest \in Guests /\ chips \in [Guests -> Int]
    BY <1>1, NobodyEnters DEF EntryInv, EntryTypeOK
  <1>3. EntryTypeOK'
    BY <1>1, <1>2 DEF EntryInv, EntryTypeOK
  <1>4. CommandOK'
    BY <1>1, NobodyEnters DEF CommandOK
  <1>5. Paid'
    <2> SUFFICES ASSUME NEW g \in Guests PROVE chips'[g] = 1
      BY <1>1, NobodyEnters DEF Paid
    <2>1. chips[g] = IF seated.guest = g THEN 0 ELSE 1
      BY DEF EntryInv, Paid
    <2>2. QED
      BY <1>1, <1>2, <2>1
  <1>6. Told' /\ OneLease'
    BY <1>1 DEF EntryInv, Told, OneLease
  <1>7. CreatesKept
    BY <1>1 DEF CreatesKept
  <1>8. QED
    BY <1>3, <1>4, <1>5, <1>6, <1>7, CreatesStay DEF EntryInv

\* The final look at the access: nothing, a refusal or the seat.
LEMMA Finalized ==
    ASSUME EntryInv, finalizeBuyIn
    PROVE  /\ EntryInv'
           /\ seated' # seated /\ seated' # NoSeat => seatLease \in {seated', NoSeat}
  <1>1. PICK s : s = command.stay
    OBVIOUS
  <1>2. /\ command.step = "FINAL" /\ CreatesKept /\ UNCHANGED seatLease
    BY DEF finalizeBuyIn, Elsewhere, CreatesKept
  <1>3. s \in Stays /\ buyIn[s] = "NONE" /\ seatLease \in Stays \cup {NoSeat} /\ command.receipt \in Receipts
        /\ stay \in [Stays -> {"NONE", "LEASE_ACTIVE", "EXPIRED", "CONSUMED"}] /\ buyIn \in [Stays -> Receipts]
    BY <1>1, <1>2 DEF EntryInv, CommandOK, EntryTypeOK
  <1>4. CASE command' = Waiting /\ UNCHANGED <<buyIn, seated, chips, stay>>
    BY <1>2, <1>3, <1>4, CommandEnds
  <1>5. CASE command.receipt = "CONFIRMED" /\ Authorized(s.guest)
    <2>1. Effects(s, "CONFIRMED") /\ (IF buyIn'[s] = "CONFIRMED" THEN At("RELEASE", s, "NONE") ELSE command' = Waiting)
      BY <1>1, <1>5 DEF finalizeBuyIn
    <2>2. buyIn'[s] = "CONFIRMED"
      BY <1>3, <2>1 DEF Effects
    <2>3. QED
      BY <1>1, <1>2, <1>5, <2>1, <2>2, Confirmed
  <1>6. CASE ~(command.receipt = "CONFIRMED" /\ Authorized(s.guest))
             /\ ~(command' = Waiting /\ UNCHANGED <<buyIn, seated, chips, stay>>)
    <2>1. PICK receipt \in Receipts \ {"CONFIRMED"} :
             /\ Effects(s, receipt)
             /\ IF buyIn'[s] = "CONFIRMED" THEN At("RELEASE", s, "NONE") ELSE command' = Waiting
      BY <1>1, <1>3, <1>6 DEF finalizeBuyIn, Receipts
    <2>2. buyIn' = [buyIn EXCEPT ![s] = receipt] /\ UNCHANGED <<seated, chips, stay>>
      BY <2>1 DEF Effects
    <2>3. command' = Waiting
      BY <1>3, <2>1, <2>2
    <2>4. CASE receipt = "FAILED_NO_EFFECT"
      BY <1>2, <1>3, <2>2, <2>3, <2>4, Refused
    <2>5. CASE receipt = "NONE"
      <3>1. buyIn' = buyIn
        BY <1>3, <2>2, <2>5
      <3>2. QED
        BY <1>2, <1>3, <2>2, <2>3, <3>1, CommandEnds
    <2>6. QED
      BY <2>4, <2>5 DEF Receipts
  <1>7. QED
    BY <1>4, <1>5, <1>6

\* Every step keeps the invariant, and who takes the seat has its lease or nobody.
LEMMA EntryStep ==
    ASSUME EntryInv, [EntryNext]_entryVars
    PROVE  /\ EntryInv'
           /\ seated' # seated /\ seated' # NoSeat => seatLease \in {seated', NoSeat}
  <1>0. seatLease \in Stays \cup {NoSeat} /\ stay \in [Stays -> {"NONE", "LEASE_ACTIVE", "EXPIRED", "CONSUMED"}]
    BY DEF EntryInv, EntryTypeOK
  <1>1. CASE UNCHANGED entryVars
    <2>1. CreatesKept /\ UNCHANGED <<seatLease, stay, buyIn, seated, chips, command>>
      BY <1>1 DEF entryVars, CreatesKept
    <2>2. QED
      BY <2>1, KeyGone
  <1>2. ASSUME NEW r \in Creates,
               readPasswordCreate(r) \/ insertPasswordCreate(r) \/ verifyPasswordCreateReplay(r)
        PROVE  EntryInv' /\ seated' = seated
    <2>1. seated' = seated
      BY <1>2 DEF readPasswordCreate, insertPasswordCreate, verifyPasswordCreateReplay, tableVars
    <2>2. QED
      BY <1>2, <2>1, CreateSteps_Keep
  <1>3. ASSUME NEW g \in Guests, VerifyTableAccess(g) \/ AccessPut(g) \/ GrantEnds(g)
        PROVE  EntryInv' /\ seated' = seated
    <2>1. CreatesKept /\ UNCHANGED <<seatLease, stay, buyIn, seated, chips, command>>
      BY <1>3 DEF VerifyTableAccess, AccessPut, GrantEnds, tableVars, CreatesKept
    <2>2. QED
      BY <2>1, KeyGone
  <1>4. ASSUME NEW s \in Stays, ReserveSeat(s) PROVE EntryInv' /\ seated' = seated
    <2>1. /\ At("ACQUIRE", s, "NONE") /\ stay[s] = "NONE" /\ CreatesKept
          /\ UNCHANGED <<seatLease, stay, buyIn, seated, chips>>
      BY <1>4 DEF ReserveSeat, Elsewhere, CreatesKept
    <2>2. QED
      BY <1>0, <2>1, CommandGoes DEF Receipts
  <1>5. ASSUME NEW s \in Stays, BuyIn(s) PROVE EntryInv' /\ seated' = seated
    <2>1. /\ buyIn[s] = "NONE" /\ CreatesKept /\ UNCHANGED <<seatLease, seated, chips>>
          /\ command = Waiting
      BY <1>5 DEF BuyIn, Elsewhere, CreatesKept
    <2>2. CASE Valid(s) /\ stay[s] = "LEASE_ACTIVE" /\ s \notin overdue
      <3>1. At("APPLY", s, "NONE") /\ UNCHANGED <<stay, buyIn>>
        BY <1>5, <2>2 DEF BuyIn
      <3>2. seatLease' = s
        BY <2>1, <2>2 DEF Valid
      <3>3. QED
        BY <1>0, <2>1, <2>2, <3>1, <3>2, CommandGoes DEF Receipts
    <2>3. CASE ~(Valid(s) /\ stay[s] = "LEASE_ACTIVE" /\ s \notin overdue)
      <3>1. /\ buyIn' = [buyIn EXCEPT ![s] = "FAILED_NO_EFFECT"]
            /\ stay' = [stay EXCEPT ![s] = IF @ = "LEASE_ACTIVE" THEN "EXPIRED" ELSE @]
            /\ command' = Waiting
        BY <1>5, <2>1, <2>3 DEF BuyIn
      <3>2. QED
        BY <2>1, <3>1, Refused
    <2>4. QED
      BY <2>2, <2>3
  <1>6. ASSUME NEW s \in Stays, Expires(s) PROVE EntryInv' /\ seated' = seated
    <2>1. CreatesKept /\ UNCHANGED <<seatLease, stay, buyIn, seated, chips, command>>
      BY <1>6 DEF Expires, CreatesKept
    <2>2. QED
      BY <2>1, KeyGone
  <1>7. CASE LeaseEnds
    <2>1. CreatesKept /\ UNCHANGED <<stay, buyIn, seated, chips, command>> /\ seatLease' = NoSeat
      BY <1>7 DEF LeaseEnds, CreatesKept
    <2>2. QED
      BY <2>1, KeyGone
  <1>8. CASE Acquire
    <2>1. PICK s : s = command.stay
      OBVIOUS
    <2>2. /\ command.step = "ACQUIRE" /\ CreatesKept /\ UNCHANGED <<stay, buyIn, seated, chips>>
      BY <1>8 DEF Acquire, Elsewhere, CreatesKept
    <2>3. s \in Stays /\ stay[s] = "NONE"
      BY <2>1, <2>2 DEF EntryInv, CommandOK
    <2>4. \/ At("RESERVE", s, "NONE") /\ seatLease' = s
          \/ command' = Waiting /\ seatLease' \in {s, seatLease}
      BY <1>8, <2>1 DEF Acquire
    <2>5. CASE At("RESERVE", s, "NONE") /\ seatLease' = s
      BY <2>2, <2>3, <2>5, CommandGoes DEF Receipts
    <2>6. CASE command' = Waiting /\ seatLease' \in {s, seatLease}
      <3>1. seatLease' \in Stays \cup {NoSeat}
        BY <1>0, <2>3, <2>6
      <3>2. QED
        BY <2>2, <2>6, <3>1, CommandEnds
    <2>7. QED
      BY <2>4, <2>5, <2>6
  <1>9. CASE CommitReserve
    <2>1. PICK s : s = command.stay
      OBVIOUS
    <2>2. /\ command.step = "RESERVE" /\ command' = Waiting /\ CreatesKept
          /\ UNCHANGED <<buyIn, seated, chips>>
      BY <1>9 DEF CommitReserve, Elsewhere, CreatesKept
    <2>3. CASE Authorized(s.guest)
      <3>1. stay' = Reserved(s) /\ UNCHANGED seatLease
        BY <1>9, <2>1, <2>3 DEF CommitReserve
      <3>2. QED
        BY <2>1, <2>2, <3>1, ReservationSaved
    <2>4. CASE ~Authorized(s.guest)
      <3>1. seatLease' = Released(s) /\ UNCHANGED stay
        BY <1>9, <2>1, <2>4 DEF CommitReserve
      <3>2. seatLease' \in Stays \cup {NoSeat}
        BY <1>0, <3>1 DEF Released
      <3>3. QED
        BY <2>2, <3>1, <3>2, CommandEnds
    <2>5. QED
      BY <2>3, <2>4
  <1>10. CASE applyFunding
    <2>1. PICK s : s = command.stay
      OBVIOUS
    <2>2. /\ command.step = "APPLY" /\ CreatesKept /\ UNCHANGED <<seatLease, stay, buyIn, seated, chips>>
      BY <1>10 DEF applyFunding, Elsewhere, CreatesKept
    <2>3. s \in Stays /\ stay[s] = "LEASE_ACTIVE" /\ buyIn[s] = "NONE" /\ seatLease \in {s, NoSeat}
      BY <2>1, <2>2 DEF EntryInv, CommandOK
    <2>4. CASE command' = Waiting
      BY <1>0, <2>2, <2>4, CommandEnds
    <2>5. CASE command' # Waiting
      <3>1. PICK receipt \in {"CONFIRMED", "FAILED_NO_EFFECT"} :
               At("FINAL", s, receipt) /\ (receipt = "CONFIRMED" => seated = NoSeat)
        BY <1>10, <2>1, <2>5 DEF applyFunding
      <3>2. receipt \in Receipts /\ seatLease' \in Stays \cup {NoSeat} /\ seatLease' \in {s, NoSeat}
        BY <1>0, <2>2, <2>3, <3>1 DEF Receipts
      <3>3. QED
        BY <2>2, <2>3, <3>1, <3>2, CommandGoes
    <2>6. QED
      BY <2>4, <2>5
  <1>11. CASE Release
    <2>1. /\ command' = Waiting /\ CreatesKept /\ UNCHANGED <<stay, buyIn, seated, chips>>
          /\ seatLease' \in {seatLease, NoSeat}
      BY <1>11 DEF Release, Released, Elsewhere, CreatesKept
    <2>2. QED
      BY <1>0, <2>1, CommandEnds
  <1>12. CASE CommandFails
    <2>1. /\ command' = Waiting /\ CreatesKept /\ UNCHANGED <<stay, buyIn, seated, chips>>
          /\ seatLease' \in {seatLease, NoSeat}
      BY <1>12 DEF CommandFails, Released, Elsewhere, CreatesKept
    <2>2. QED
      BY <1>0, <2>1, CommandEnds
  <1>13. CASE CashOut
    <2>1. seated' = NoSeat
      BY <1>13 DEF CashOut
    <2>2. QED
      BY <1>13, <2>1, PaidOut
  <1>14. CASE finalizeBuyIn
    BY <1>14, Finalized
  <1>15. QED
    BY <1>1, <1>2, <1>3, <1>4, <1>5, <1>6, <1>7, <1>8, <1>9, <1>10, <1>11, <1>12, <1>13, <1>14
       DEF EntryNext

\* For any number of guests, keys and passwords: a chip is paid exactly by who sits
\* (finalizeBuyIn), the receipts of BuyIn and the reservations agree, a seat has one
\* reservation at most and goes to nobody beside its lease, through every failure and
\* every end of lease, grant and session (funding.go); and the key that made the table
\* answers only requests that know its password (password_create.go).
THEOREM EntryExactHolds == EntrySpec => EntryExact
  <1>1. EntryInit => EntryInv
    BY EntryInitially
  <1>2. EntryInv /\ [EntryNext]_entryVars => EntryInv'
    BY EntryStep
  <1>3. EntryInv => EntryState
    <2> SUFFICES ASSUME EntryInv PROVE EntryState
      OBVIOUS
    <2>1. Cardinality({s \in Stays : stay[s] = "LEASE_ACTIVE"}) <= 1
      <3> DEFINE S == {s \in Stays : stay[s] = "LEASE_ACTIVE"}
      <3>1. CASE S = {}
        BY <3>1, FS_EmptySet
      <3>2. CASE S # {}
        <4>1. PICK x \in S : TRUE
          BY <3>2
        <4>2. S = {x}
          BY <4>1 DEF EntryInv, OneLease
        <4>3. Cardinality({x}) = 1
          BY FS_Singleton
        <4>4. QED
          BY <4>2, <4>3
      <3>3. QED
        BY <3>1, <3>2
    <2>2. QED
      BY <2>1 DEF EntryState, EntryInv, Paid, Told, OwnTable
  <1>4. EntryInv /\ [EntryNext]_entryVars => [SeatTaken]_entryVars
    BY EntryStep DEF SeatTaken
  <1>5. QED
    BY <1>1, <1>2, <1>3, <1>4, PTL DEF EntrySpec, EntryExact

(***************************************************************************)
(* Campaign, for any accounts, balances and threshold.                     *)
(*                                                                         *)
(* The argument: while the window of the accepted command is active, no    *)
(* accepted work is left that could change a balance (Fence), so what a    *)
(* verification compared in an earlier batch still holds in the last       *)
(* (Compared).  A label says what was compared, and no phase begins under  *)
(* its own label (Labels).                                                 *)
(***************************************************************************)
BeforeReset == {"DRAFT", "SNAPSHOT_PREPARING", "SNAPSHOT_READY", "GRANTED"}
Batched == {"SNAPSHOT_PREPARING", "RESET_PREPARING", "RESET_RUNNING"}
Phases == BeforeReset \cup {"RESET_PREPARING", "RESET_READY", "RESET_RUNNING", "COMPLETED"}
CampaignRow == [phase : Phases, window : Nat, cut : BOOLEAN, pending : BOOLEAN,
                verifying : {"", "RESUME"} \cup Batched, cursor : Nat,
                activated : BOOLEAN, published : BOOLEAN]
Member == [snapshot : Int, snapshotMember : BOOLEAN, eligible : BOOLEAN, resetMember : BOOLEAN,
           before : Int, state : {"PENDING", "CHECKED", "COMPLETED"}, resets : Nat]

CampaignTypeOK ==
    /\ row \in CampaignRow /\ acct \in [Accounts -> Member] /\ units \in [Accounts -> Nat]
    /\ window \in Nat /\ windows \in Nat /\ window <= windows /\ row.window <= windows
    /\ 1 \in registered /\ adjusted \in BOOLEAN

\* Nothing that was accepted can change a balance in the window of the command.
Fence == gamblerMaintenance => accepted = {}

\* A member is as far as its phase: an eligible one was above the threshold, and one
\* is reset when it is completed.
MemberOK(a) ==
    /\ acct[a].eligible <=> acct[a].snapshot > Threshold
    /\ acct[a].resets = IF acct[a].state = "COMPLETED" THEN 1 ELSE 0
    /\ acct[a].state # "PENDING" => acct[a].before # Unset
    /\ row.phase = "DRAFT" \/ (row.phase = "SNAPSHOT_PREPARING" /\ ~row.cut) =>
          acct[a].snapshot = Unset
    /\ row.phase \in BeforeReset \/ (row.phase = "RESET_PREPARING" /\ ~row.cut) =>
          acct[a].state = "PENDING"
    /\ row.phase \in {"RESET_PREPARING", "RESET_READY"} => acct[a].state # "COMPLETED"
MembersOK == \A a \in Accounts : MemberOK(a)

Labels ==
    /\ row.verifying = "SNAPSHOT_PREPARING" => row.phase # "DRAFT"
    /\ row.verifying = "RESET_PREPARING" => row.phase \notin BeforeReset
    /\ row.verifying = "RESET_RUNNING" => row.phase \in {"RESET_RUNNING", "COMPLETED"}

\* A phase is compared when its work is done, and what was compared is as saved.
Compared ==
    row.verifying = row.phase =>
        /\ (row.phase # "RESET_RUNNING" => row.cut) /\ Todo(acct) = {}
        /\ gamblerMaintenance /\ ~adjusted =>
              \A a \in Accounts : a <= row.cursor /\ Saved(a) => units[a] = Expected(a)

CampaignInv == CampaignTypeOK /\ Fence /\ MembersOK /\ Labels /\ Compared

\* An account before the campaign.
LEMMA Nobody ==
    /\ NoAccount \in Member /\ Unset \in Int /\ \A n \in Nat : Unset # n /\ ~(Unset > n)
    /\ NoAccount.snapshot = Unset /\ NoAccount.eligible = FALSE /\ NoAccount.resets = 0
    /\ NoAccount.state = "PENDING"
  <1>1. Unset \in Int /\ \A n \in Nat : Unset # n /\ ~(Unset > n)
    BY DEF Unset
  <1>2. QED
    BY <1>1 DEF NoAccount, Member

\* At first nobody is a member and nothing was compared.
LEMMA CampaignInitially == CampaignInit => CampaignInv
  <1> SUFFICES ASSUME CampaignInit PROVE CampaignInv
    OBVIOUS
  <1>1. row.phase = "DRAFT" /\ row.window = 0 /\ row.verifying = "" /\ row.cut = FALSE
    BY DEF CampaignInit
  <1>2. CampaignTypeOK
    <2>1. row \in CampaignRow
      BY DEF CampaignInit, CampaignRow, Phases, BeforeReset
    <2>2. acct \in [Accounts -> Member]
      BY Nobody DEF CampaignInit
    <2>3. units \in [Accounts -> Nat]
      BY CampaignAssumption DEF CampaignInit
    <2>4. adjusted \in BOOLEAN
      BY DEF CampaignInit
    <2>5. window = 0 /\ windows = 0 /\ row.window = 0 /\ registered = {1}
      BY DEF CampaignInit
    <2>6. 1 \in registered /\ window \in Nat /\ windows \in Nat /\ window <= windows /\ row.window <= windows
      BY <2>5
    <2>7. QED
      BY <2>1, <2>2, <2>3, <2>4, <2>6 DEF CampaignTypeOK
  <1>3. Fence /\ Labels /\ Compared
    BY <1>1 DEF Fence, gamblerMaintenance, Labels, Compared
  <1>4. MembersOK
    <2> SUFFICES ASSUME NEW a \in Accounts PROVE MemberOK(a)
      BY DEF MembersOK
    <2>1. acct[a] = NoAccount
      BY DEF CampaignInit
    <2>2. QED
      BY <1>1, <2>1, Nobody, CampaignAssumption DEF MemberOK
  <1>5. QED
    BY <1>2, <1>3, <1>4 DEF CampaignInv

\* The lowest of some accounts.
LEMMA LowestIn ==
    ASSUME NEW S \in SUBSET Accounts, S # {}
    PROVE  Lowest(S) \in S /\ \A b \in S : Lowest(S) <= b
  <1>1. \E m \in S : \A b \in S : m <= b
    BY CampaignAssumption, Smallest
  <1>2. QED
    BY <1>1 DEF Lowest

\* The rest of the platform: row and members stay, and in the window of the command
\* no balance moves but by an adjustment.
LEMMA PlatformStep ==
    ASSUME CampaignInv, CampaignTypeOK', UNCHANGED acct,
           row'.phase = row.phase, row'.window = row.window, row'.cut = row.cut,
           row'.verifying = row.verifying, row'.cursor = row.cursor,
           gamblerMaintenance' => gamblerMaintenance /\ accepted' = {},
           gamblerMaintenance' /\ ~adjusted' => ~adjusted /\ units' = units
    PROVE  CampaignInv'
  <1>1. Fence'
    BY DEF Fence
  <1>2. MembersOK'
    BY DEF CampaignInv, MembersOK, MemberOK
  <1>3. Labels'
    BY DEF CampaignInv, Labels
  <1>4. Compared'
    <2> SUFFICES ASSUME row.verifying = row.phase
                 PROVE  /\ (row.phase # "RESET_RUNNING" => row.cut) /\ Todo(acct)' = {}
                        /\ gamblerMaintenance' /\ ~adjusted' =>
                              \A a \in Accounts : a <= row.cursor /\ Saved(a)' => units'[a] = Expected(a)'
      BY DEF Compared
    <2>1. Todo(acct)' = Todo(acct) /\ \A a \in Accounts : Saved(a)' = Saved(a) /\ Expected(a)' = Expected(a)
      BY DEF Todo, Saved, Expected, Snapshotting
    <2>2. QED
      BY <2>1 DEF CampaignInv, Compared
  <1>5. QED
    BY <1>1, <1>2, <1>3, <1>4 DEF CampaignInv

\* A command begins or resumes something that is not compared yet.
LEMMA CommandStep ==
    ASSUME CampaignInv, UNCHANGED <<acct, units, registered, window, windows, accepted>>,
           row' \in CampaignRow, adjusted' \in BOOLEAN, row'.window \in {row.window, window},
           row'.window = row.window \/ accepted = {},
           row'.verifying # row'.phase, Labels', MembersOK'
    PROVE  CampaignInv'
  <1>1. CampaignTypeOK'
    BY DEF CampaignInv, CampaignTypeOK
  <1>2. Fence'
    BY DEF CampaignInv, Fence, gamblerMaintenance
  <1>3. Compared'
    BY DEF Compared
  <1>4. QED
    BY <1>1, <1>2, <1>3 DEF CampaignInv

\* The members are as far as a phase that follows.
LEMMA MembersOn ==
    ASSUME CampaignInv, UNCHANGED acct,
           row'.phase = "DRAFT" => row.phase = "DRAFT",
           row'.phase = "SNAPSHOT_PREPARING" /\ ~row'.cut =>
              row.phase = "DRAFT" \/ (row.phase = "SNAPSHOT_PREPARING" /\ ~row.cut),
           row'.phase \in BeforeReset => row.phase \in BeforeReset,
           row'.phase = "RESET_PREPARING" /\ ~row'.cut =>
              row.phase \in BeforeReset \/ (row.phase = "RESET_PREPARING" /\ ~row.cut),
           row'.phase \in {"RESET_PREPARING", "RESET_READY"} =>
              row.phase \in BeforeReset \cup {"RESET_PREPARING", "RESET_READY"}
    PROVE  MembersOK'
  <1> SUFFICES ASSUME NEW a \in Accounts PROVE MemberOK(a)'
    BY DEF MembersOK
  <1>1. MemberOK(a)
    BY DEF CampaignInv, MembersOK
  <1>2. QED
    BY <1>1 DEF MemberOK

\* Every command of the administrator.
LEMMA CommandsKeep ==
    ASSUME CampaignInv, Snapshot \/ Grant \/ PrepareReset \/ StartReset \/ Resume \/ Activate
    PROVE  CampaignInv'
  <1>1. UNCHANGED <<acct, units, registered, window, windows, accepted>>
    BY DEF Snapshot, Grant, PrepareReset, StartReset, Resume, Activate, Others
  <1>2. row \in CampaignRow /\ window \in Nat /\ Labels /\ adjusted \in BOOLEAN
    BY DEF CampaignInv, CampaignTypeOK
  <1>3. adjusted' \in BOOLEAN
    BY <1>2 DEF Snapshot, Grant, PrepareReset, StartReset, Resume, Activate, Accepts
  <1>4. CASE Snapshot
    <2>1. /\ row.phase = "DRAFT" /\ accepted = {}
          /\ row' = [row EXCEPT !.phase = "SNAPSHOT_PREPARING", !.window = window]
      BY <1>4 DEF Snapshot, Accepts, Drained
    <2>2. /\ row' \in CampaignRow /\ row'.phase = "SNAPSHOT_PREPARING" /\ row'.window = window
          /\ row'.verifying = row.verifying
      BY <1>2, <2>1 DEF CampaignRow, Phases, BeforeReset
    <2>3. row.verifying \notin Batched
      BY <1>2, <2>1 DEF Labels, Batched, BeforeReset
    <2>4. Labels' /\ row'.verifying # row'.phase
      BY <2>2, <2>3 DEF Labels, Batched
    <2>5. MembersOK'
      BY <1>1, <2>1, <2>2, MembersOn DEF BeforeReset
    <2>6. QED
      BY <1>1, <1>3, <2>1, <2>2, <2>4, <2>5, CommandStep
  <1>5. CASE Grant
    <2>1. row.phase = "SNAPSHOT_READY" /\ row' = [row EXCEPT !.phase = "GRANTED"]
      BY <1>5 DEF Grant
    <2>2. /\ row' \in CampaignRow /\ row'.phase = "GRANTED" /\ row'.window = row.window
          /\ row'.verifying = row.verifying
      BY <1>2, <2>1 DEF CampaignRow, Phases, BeforeReset
    <2>3. Labels' /\ row'.verifying # row'.phase
      BY <1>2, <2>1, <2>2 DEF Labels, BeforeReset, CampaignRow, Batched
    <2>4. MembersOK'
      BY <1>1, <2>1, <2>2, MembersOn DEF BeforeReset
    <2>5. QED
      BY <1>1, <1>3, <2>2, <2>3, <2>4, CommandStep
  <1>6. CASE PrepareReset
    <2>1. /\ row.phase = "GRANTED" /\ accepted = {}
          /\ row' = [row EXCEPT !.phase = "RESET_PREPARING", !.window = window, !.cut = FALSE]
      BY <1>6 DEF PrepareReset, Accepts, Drained
    <2>2. /\ row' \in CampaignRow /\ row'.phase = "RESET_PREPARING" /\ row'.window = window
          /\ row'.verifying = row.verifying
      BY <1>2, <2>1 DEF CampaignRow, Phases, BeforeReset
    <2>3. row.verifying \notin {"RESET_PREPARING", "RESET_RUNNING"}
      BY <1>2, <2>1 DEF Labels, BeforeReset
    <2>4. Labels' /\ row'.verifying # row'.phase
      BY <2>2, <2>3 DEF Labels, BeforeReset
    <2>5. MembersOK'
      BY <1>1, <2>1, <2>2, MembersOn DEF BeforeReset
    <2>6. QED
      BY <1>1, <1>3, <2>1, <2>2, <2>4, <2>5, CommandStep
  <1>7. CASE StartReset
    <2>1. row.phase = "RESET_READY" /\ row' = [row EXCEPT !.phase = "RESET_RUNNING"]
      BY <1>7 DEF StartReset, Accepts
    <2>2. /\ row' \in CampaignRow /\ row'.phase = "RESET_RUNNING" /\ row'.window = row.window
          /\ row'.verifying = row.verifying
      BY <1>2, <2>1 DEF CampaignRow, Phases, BeforeReset
    <2>3. Labels' /\ row'.verifying # row'.phase
      BY <1>2, <2>1, <2>2 DEF Labels, BeforeReset
    <2>4. MembersOK'
      BY <1>1, <2>1, <2>2, MembersOn DEF BeforeReset
    <2>5. QED
      BY <1>1, <1>3, <2>2, <2>3, <2>4, CommandStep
  <1>8. CASE Resume
    <2>1. /\ accepted = {}
          /\ row' = [row EXCEPT !.window = window, !.pending = row.phase # "SNAPSHOT_READY",
                                !.verifying = "", !.cursor = 0]
      BY <1>8 DEF Resume, Drained
    <2>2. /\ row' \in CampaignRow /\ row'.phase = row.phase /\ row'.window = window
          /\ row'.verifying = "" /\ row'.cut = row.cut
      BY <1>2, <2>1 DEF CampaignRow
    <2>3. Labels' /\ row'.verifying # row'.phase
      BY <1>2, <2>2 DEF Labels, CampaignRow, Phases, BeforeReset
    <2>4. MembersOK'
      BY <1>1, <2>2, MembersOn
    <2>5. QED
      BY <1>1, <1>3, <2>1, <2>2, <2>3, <2>4, CommandStep
  <1>9. CASE Activate
    <2>1. row.phase = "COMPLETED" /\ row' = [row EXCEPT !.activated = TRUE]
      BY <1>9 DEF Activate, Accepts
    <2>2. /\ row' \in CampaignRow /\ row'.phase = row.phase /\ row'.window = row.window
          /\ row'.verifying = row.verifying /\ row'.cut = row.cut
      BY <1>2, <2>1 DEF CampaignRow
    <2>3. Labels' /\ row'.verifying # row'.phase
      BY <1>2, <2>1, <2>2 DEF Labels, CampaignRow, Batched
    <2>4. MembersOK'
      BY <1>1, <2>2, MembersOn
    <2>5. QED
      BY <1>1, <1>3, <2>2, <2>3, <2>4, CommandStep
  <1>10. QED
    BY <1>4, <1>5, <1>6, <1>7, <1>8, <1>9

\* A phase that is not cut yet, or whose members are not done, is not sealed.
LEMMA CutFirst ==
    ASSUME CampaignInv, Working, Todo(Cohort) = {}
    PROVE  (row.phase # "RESET_RUNNING" => row.cut) /\ Cohort = acct
  <1>1. 1 \in registered /\ 1 \in Accounts /\ MemberOK(1) /\ acct \in [Accounts -> Member]
    BY CampaignAssumption DEF CampaignInv, CampaignTypeOK, MembersOK
  <1>2. ASSUME row.phase = "SNAPSHOT_PREPARING", ~row.cut PROVE FALSE
    <2>1. Cohort = [a \in Accounts |-> [acct[a] EXCEPT !.snapshotMember = a \in registered]]
      BY <1>2 DEF Cohort
    <2>2. Cohort[1].snapshotMember /\ Cohort[1].snapshot = Unset
      BY <1>1, <1>2, <2>1 DEF MemberOK, Member
    <2>3. 1 \in Todo(Cohort)
      BY <1>1, <1>2, <2>2 DEF Todo
    <2>4. QED
      BY <2>3
  <1>3. ASSUME row.phase = "RESET_PREPARING", ~row.cut PROVE FALSE
    <2>1. Cohort = [a \in Accounts |-> [acct[a] EXCEPT !.resetMember = a \in registered]]
      BY <1>3 DEF Cohort
    <2>2. Cohort[1].resetMember /\ Cohort[1].state = "PENDING"
      BY <1>1, <1>3, <2>1 DEF MemberOK, Member
    <2>3. 1 \in Todo(Cohort)
      BY <1>1, <1>3, <2>2 DEF Todo
    <2>4. QED
      BY <2>3
  <1>4. row.phase # "RESET_RUNNING" => row.cut
    BY <1>2, <1>3 DEF Working
  <1>5. Cohort = acct
    BY <1>4 DEF Cohort
  <1>6. QED
    BY <1>4, <1>5


\* The first batch of a phase changes who is a member and nothing else.
LEMMA CohortMembers ==
    ASSUME CampaignInv
    PROVE  /\ Cohort \in [Accounts -> Member]
           /\ \A a \in Accounts :
                 /\ Cohort[a].snapshot = acct[a].snapshot /\ Cohort[a].eligible = acct[a].eligible
                 /\ Cohort[a].before = acct[a].before /\ Cohort[a].state = acct[a].state
                 /\ Cohort[a].resets = acct[a].resets
  <1>1. acct \in [Accounts -> Member]
    BY DEF CampaignInv, CampaignTypeOK
  <1>2. ASSUME NEW m \in Member, NEW b \in BOOLEAN, NEW n,
               \/ n = [m EXCEPT !.snapshotMember = b]
               \/ n = [m EXCEPT !.resetMember = b]
        PROVE  /\ n \in Member /\ n.snapshot = m.snapshot /\ n.eligible = m.eligible
               /\ n.before = m.before /\ n.state = m.state /\ n.resets = m.resets
    <2>1. CASE n = [m EXCEPT !.snapshotMember = b]
      BY <2>1 DEF Member
    <2>2. CASE n = [m EXCEPT !.resetMember = b]
      BY <2>2 DEF Member
    <2>3. QED
      BY <1>2, <2>1, <2>2
  <1>3. CASE row.phase = "SNAPSHOT_PREPARING" /\ ~row.cut
    <2>1. Cohort = [a \in Accounts |-> [acct[a] EXCEPT !.snapshotMember = a \in registered]]
      BY <1>3 DEF Cohort
    <2>2. \A a \in Accounts : Cohort[a] = [acct[a] EXCEPT !.snapshotMember = a \in registered]
      BY <2>1, Zenon
    <2>3. ASSUME NEW a \in Accounts
          PROVE  /\ Cohort[a] \in Member
                 /\ Cohort[a].snapshot = acct[a].snapshot /\ Cohort[a].eligible = acct[a].eligible
                 /\ Cohort[a].before = acct[a].before /\ Cohort[a].state = acct[a].state
                 /\ Cohort[a].resets = acct[a].resets
      <3>0. (a \in registered) \in BOOLEAN
        OBVIOUS
      <3>1. PICK b \in BOOLEAN : b = (a \in registered)
        BY <3>0, Zenon
      <3>2. Cohort[a] = [acct[a] EXCEPT !.snapshotMember = b]
        BY <2>2, <3>1, Zenon
      <3>3. acct[a] \in Member
        BY <1>1
      <3>4. QED
        BY <1>2, <3>2, <3>3
    <2>4. Cohort = [a \in Accounts |-> Cohort[a]]
      BY <2>1, Zenon
    <2>5. QED
      BY <2>3, <2>4
  <1>4. CASE row.phase = "RESET_PREPARING" /\ ~row.cut
    <2>1. Cohort = [a \in Accounts |-> [acct[a] EXCEPT !.resetMember = a \in registered]]
      BY <1>4 DEF Cohort
    <2>2. \A a \in Accounts : Cohort[a] = [acct[a] EXCEPT !.resetMember = a \in registered]
      BY <2>1, Zenon
    <2>3. ASSUME NEW a \in Accounts
          PROVE  /\ Cohort[a] \in Member
                 /\ Cohort[a].snapshot = acct[a].snapshot /\ Cohort[a].eligible = acct[a].eligible
                 /\ Cohort[a].before = acct[a].before /\ Cohort[a].state = acct[a].state
                 /\ Cohort[a].resets = acct[a].resets
      <3>0. (a \in registered) \in BOOLEAN
        OBVIOUS
      <3>1. PICK b \in BOOLEAN : b = (a \in registered)
        BY <3>0, Zenon
      <3>2. Cohort[a] = [acct[a] EXCEPT !.resetMember = b]
        BY <2>2, <3>1, Zenon
      <3>3. acct[a] \in Member
        BY <1>1
      <3>4. QED
        BY <1>2, <3>2, <3>3
    <2>4. Cohort = [a \in Accounts |-> Cohort[a]]
      BY <2>1, Zenon
    <2>5. QED
      BY <2>3, <2>4
  <1>5. CASE ~(row.phase = "SNAPSHOT_PREPARING" /\ ~row.cut) /\ ~(row.phase = "RESET_PREPARING" /\ ~row.cut)
    <2>1. Cohort = acct
      BY <1>5 DEF Cohort
    <2>2. QED
      BY <1>1, <2>1
  <1>6. QED
    BY <1>3, <1>4, <1>5

\* One account of a batch.
LEMMA AccountKeeps == ASSUME CampaignInv, ProcessAccount PROVE CampaignInv'
  <1>1. /\ Working /\ Todo(Cohort) # {}
        /\ row' = [row EXCEPT !.cut = TRUE]
        /\ registered' = registered /\ window' = window /\ windows' = windows /\ accepted' = accepted
        /\ adjusted' = adjusted
    BY DEF ProcessAccount, Kept
  <1>2. PICK a : a = Lowest(Todo(Cohort))
    OBVIOUS
  <1>3. a \in Todo(Cohort) /\ a \in Accounts
    <2>1. Todo(Cohort) \in SUBSET Accounts
      BY DEF Todo
    <2>2. QED
      BY <1>1, <1>2, <2>1, LowestIn
  <1>4. row \in CampaignRow /\ units \in [Accounts -> Nat] /\ acct \in [Accounts -> Member]
    BY DEF CampaignInv, CampaignTypeOK
  <1>5. /\ row' \in CampaignRow /\ row'.phase = row.phase /\ row'.cut /\ row'.verifying = row.verifying
        /\ row'.window = row.window /\ row'.cursor = row.cursor
    BY <1>1, <1>4 DEF CampaignRow
  <1>6. row.verifying # row.phase
    <2> SUFFICES ASSUME row.verifying = row.phase PROVE FALSE
      OBVIOUS
    <2>1. (row.phase # "RESET_RUNNING" => row.cut) /\ Todo(acct) = {}
      BY DEF CampaignInv, Compared
    <2>2. Cohort = acct
      BY <1>1, <2>1 DEF Cohort, Working
    <2>3. QED
      BY <1>1, <2>1, <2>2
  <1>7. PICK m : m = CASE row.phase = "SNAPSHOT_PREPARING" ->
                             [Cohort[a] EXCEPT !.snapshot = units[a], !.eligible = units[a] > Threshold]
                       [] row.phase = "RESET_PREPARING" ->
                             [Cohort[a] EXCEPT !.before = units[a], !.state = "CHECKED"]
                       [] OTHER -> [Cohort[a] EXCEPT !.state = "COMPLETED", !.resets = acct[a].resets + 1]
    OBVIOUS
  <1>8. acct' = [Cohort EXCEPT ![a] = m]
    <2>1. a \in Accounts /\ Cohort \in [Accounts -> Member]
      BY <1>3, CohortMembers
    <2>2. QED
      BY <1>2, <1>7, <2>1 DEF ProcessAccount
  <1>9. units' \in [Accounts -> Nat]
    BY <1>2, <1>4, CampaignAssumption DEF ProcessAccount
  <1>10. /\ Cohort[a] \in Member /\ acct[a] \in Member /\ MemberOK(a) /\ units[a] \in Nat
         /\ Cohort[a].snapshot = acct[a].snapshot /\ Cohort[a].eligible = acct[a].eligible
         /\ Cohort[a].before = acct[a].before /\ Cohort[a].state = acct[a].state
         /\ Cohort[a].resets = acct[a].resets
    BY <1>3, <1>4, CohortMembers DEF CampaignInv, MembersOK
  <1>11. /\ m \in Member
         /\ m.eligible <=> m.snapshot > Threshold
         /\ m.resets = IF m.state = "COMPLETED" THEN 1 ELSE 0
         /\ m.state # "PENDING" => m.before # Unset
         /\ row.phase \in BeforeReset => m.state = "PENDING"
         /\ row.phase \in {"RESET_PREPARING", "RESET_READY"} => m.state # "COMPLETED"
    <2>1. CASE row.phase = "SNAPSHOT_PREPARING"
      <3>1. m = [Cohort[a] EXCEPT !.snapshot = units[a], !.eligible = units[a] > Threshold]
        BY <1>7, <2>1
      <3>2. (units[a] > Threshold) \in BOOLEAN /\ units[a] \in Int
        BY <1>10
      <3>3. m \in Member
        BY <1>10, <3>1, <3>2 DEF Member
      <3>4. /\ m.snapshot = units[a] /\ (m.eligible <=> units[a] > Threshold)
            /\ m.resets = acct[a].resets /\ m.state = acct[a].state /\ m.before = acct[a].before
        BY <1>10, <3>1, <3>2 DEF Member
      <3>5. acct[a].state = "PENDING" /\ acct[a].resets = 0
        BY <1>10, <2>1 DEF MemberOK, BeforeReset
      <3>6. QED
        BY <2>1, <3>3, <3>4, <3>5
    <2>2. CASE row.phase = "RESET_PREPARING"
      <3>1. m = [Cohort[a] EXCEPT !.before = units[a], !.state = "CHECKED"]
        BY <1>7, <2>2
      <3>2. units[a] # Unset /\ units[a] \in Int
        BY <1>10 DEF Unset
      <3>3. m \in Member
        BY <1>10, <3>1, <3>2 DEF Member
      <3>4. /\ m.before = units[a] /\ m.state = "CHECKED"
            /\ m.snapshot = acct[a].snapshot /\ m.eligible = acct[a].eligible /\ m.resets = acct[a].resets
        BY <1>10, <3>1 DEF Member
      <3>5. QED
        BY <1>10, <2>2, <3>2, <3>3, <3>4 DEF MemberOK, BeforeReset
    <2>3. CASE row.phase = "RESET_RUNNING"
      <3>1. m = [Cohort[a] EXCEPT !.state = "COMPLETED", !.resets = acct[a].resets + 1]
        BY <1>7, <2>3
      <3>2. acct[a].state = "CHECKED"
        BY <1>3, <1>10, <2>3 DEF Todo
      <3>3. acct[a].resets = 0 /\ acct[a].before # Unset
        BY <1>10, <3>2 DEF MemberOK
      <3>4. m = [Cohort[a] EXCEPT !.state = "COMPLETED", !.resets = 1]
        BY <3>1, <3>3
      <3>5. m \in Member
        BY <1>10, <3>4 DEF Member
      <3>6. /\ m.state = "COMPLETED" /\ m.resets = 1 /\ m.before = acct[a].before
            /\ m.snapshot = acct[a].snapshot /\ m.eligible = acct[a].eligible
        BY <1>10, <3>4 DEF Member
      <3>7. QED
        BY <1>10, <2>3, <3>3, <3>5, <3>6 DEF MemberOK, BeforeReset
    <2>4. QED
      BY <1>1, <2>1, <2>2, <2>3 DEF Working
  <1>12. acct' \in [Accounts -> Member] /\ acct'[a] = m
         /\ \A b \in Accounts : b # a => acct'[b] = Cohort[b]
    BY <1>3, <1>8, <1>11, CohortMembers
  <1>13. MembersOK'
    <2> SUFFICES ASSUME NEW b \in Accounts PROVE MemberOK(b)'
      BY DEF MembersOK
    <2>0. row.phase # "DRAFT"
      BY <1>1 DEF Working
    <2>1. CASE b = a
      BY <1>5, <1>11, <1>12, <2>0, <2>1 DEF MemberOK
    <2>2. CASE b # a
      <3>1. /\ acct'[b].snapshot = acct[b].snapshot /\ acct'[b].eligible = acct[b].eligible
            /\ acct'[b].before = acct[b].before /\ acct'[b].state = acct[b].state
            /\ acct'[b].resets = acct[b].resets
        BY <1>12, <2>2, CohortMembers
      <3>2. MemberOK(b)
        BY DEF CampaignInv, MembersOK
      <3>3. QED
        BY <1>5, <2>0, <3>1, <3>2 DEF MemberOK
    <2>3. QED
      BY <2>1, <2>2
  <1>14. CampaignTypeOK'
    BY <1>1, <1>5, <1>9, <1>12 DEF CampaignInv, CampaignTypeOK
  <1>15. Fence' /\ Labels'
    BY <1>1, <1>5 DEF CampaignInv, Fence, gamblerMaintenance, Labels
  <1>16. Compared'
    BY <1>5, <1>6 DEF Compared
  <1>17. QED
    BY <1>13, <1>14, <1>15, <1>16 DEF CampaignInv

\* Sealing compares one member more, and the last one seals the phase: every member
\* is then as saved, unless a balance was adjusted.
LEMMA SealKeeps ==
    ASSUME CampaignInv, Seal
    PROVE  /\ CampaignInv' /\ UNCHANGED <<acct, badges>> /\ row'.activated = row.activated
           /\ row'.phase # row.phase =>
                 /\ Todo(acct) = {}
                 /\ row'.phase = "SNAPSHOT_READY" => row.phase = "SNAPSHOT_PREPARING"
                 /\ row'.phase = "RESET_READY" => row.phase = "RESET_PREPARING"
                 /\ ~adjusted => \A a \in Accounts : Saved(a) => units[a] = Expected(a)
  <1>1. /\ Working /\ gamblerMaintenance /\ Todo(Cohort) = {} /\ Unchanged(row.phase)
        /\ acct' = acct /\ units' = units /\ registered' = registered /\ window' = window
        /\ windows' = windows /\ accepted' = accepted /\ adjusted' = adjusted /\ badges' = badges
    BY DEF Seal, Kept, Runs
  <1>2. row.phase \in Batched
    BY <1>1 DEF Working, Batched
  <1>3. (row.phase # "RESET_RUNNING" => row.cut) /\ Todo(acct) = {}
    BY <1>1, CutFirst
  <1>4. row \in CampaignRow /\ units \in [Accounts -> Nat] /\ \A a \in Accounts : a \in Nat \ {0}
    BY CampaignAssumption DEF CampaignInv, CampaignTypeOK
  <1>5. PICK c : c = Cursor(row.phase)
    OBVIOUS
  <1>6. PICK d : d = Moved(row.phase)
    OBVIOUS
  <1>7. ~adjusted => \A a \in Accounts : a <= c /\ Saved(a) => units[a] = Expected(a)
    <2>1. CASE row.verifying = row.phase
      BY <1>1, <1>5, <2>1 DEF CampaignInv, Compared, Cursor
    <2>2. CASE row.verifying # row.phase
      BY <1>4, <1>5, <2>2 DEF Cursor
    <2>3. QED
      BY <2>1, <2>2
  <1>8. c \in Nat
    BY <1>4, <1>5 DEF Cursor, CampaignRow
  <1>9. d \in Nat /\ (~adjusted => \A a \in Accounts : a <= d /\ Saved(a) => units[a] = Expected(a))
    <2>1. CASE After(c) = {}
      <3>1. d = c
        BY <1>5, <1>6, <2>1 DEF Moved
      <3>2. QED
        BY <1>7, <1>8, <3>1
    <2>2. CASE After(c) # {}
      <3>1. After(c) \in SUBSET Accounts
        BY DEF After
      <3>2. d = Lowest(After(c))
        BY <1>5, <1>6, <2>2 DEF Moved
      <3>3. d \in After(c) /\ \A b \in After(c) : d <= b
        BY <2>2, <3>1, <3>2, LowestIn
      <3>4. units[d] = Expected(d)
        BY <1>1, <1>5, <2>2, <3>2 DEF Unchanged
      <3>5. ASSUME ~adjusted, NEW a \in Accounts, a <= d, Saved(a) PROVE units[a] = Expected(a)
        <4>1. CASE a <= c
          BY <1>7, <3>5, <4>1
        <4>2. CASE a > c
          <5>1. a \in After(c)
            BY <3>5, <4>2 DEF After
          <5>2. d <= a /\ d \in Nat /\ a \in Nat
            BY <1>4, <3>1, <3>3, <5>1
          <5>3. a = d
            BY <3>5, <5>2
          <5>4. QED
            BY <3>4, <5>3
        <4>3. QED
          BY <1>4, <1>8, <4>1, <4>2
      <3>6. QED
        BY <1>4, <3>1, <3>3, <3>5
    <2>3. QED
      BY <2>1, <2>2
  <1>10. PICK v : v = [row EXCEPT !.verifying = row.phase, !.cursor = d]
    OBVIOUS
  <1>11. /\ v \in CampaignRow /\ v.phase = row.phase /\ v.verifying = row.phase /\ v.cursor = d
         /\ v.window = row.window /\ v.cut = row.cut /\ v.activated = row.activated
    BY <1>2, <1>4, <1>9, <1>10 DEF CampaignRow
  <1>12. v = Verified(row.phase)
    BY <1>6, <1>10 DEF Verified
  <1>13. CASE ~Finished(row.phase)
    <2>1. row' = v
      BY <1>12, <1>13 DEF Seal
    <2>2. CampaignTypeOK'
      BY <1>1, <1>11, <2>1 DEF CampaignInv, CampaignTypeOK
    <2>3. Fence'
      BY <1>1, <1>11, <2>1 DEF CampaignInv, Fence, gamblerMaintenance
    <2>4. Labels'
      BY <1>2, <1>11, <2>1 DEF Labels, Batched, BeforeReset
    <2>5. MembersOK'
      BY <1>1, <1>11, <2>1, MembersOn
    <2>6. Compared'
      <3>1. Todo(acct)' = {} /\ \A a \in Accounts : Saved(a)' = Saved(a) /\ Expected(a)' = Expected(a)
        BY <1>1, <1>3, <1>11, <2>1 DEF Todo, Saved, Expected, Snapshotting
      <3>2. (row'.phase # "RESET_RUNNING" => row'.cut)
        BY <1>3, <1>11, <2>1
      <3>3. ~adjusted' => \A a \in Accounts : a <= row'.cursor /\ Saved(a)' => units'[a] = Expected(a)'
        BY <1>1, <1>9, <1>11, <2>1, <3>1
      <3>4. QED
        BY <3>1, <3>2, <3>3 DEF Compared
    <2>7. QED
      BY <1>1, <1>11, <2>1, <2>2, <2>3, <2>4, <2>5, <2>6 DEF CampaignInv
  <1>14. CASE Finished(row.phase)
    <2>1. PICK next : next = CASE row.phase = "SNAPSHOT_PREPARING" -> "SNAPSHOT_READY"
                               [] row.phase = "RESET_PREPARING" -> "RESET_READY"
                               [] OTHER -> "COMPLETED"
      OBVIOUS
    <2>2. row' = [v EXCEPT !.phase = next]
      BY <1>12, <1>14, <2>1 DEF Seal
    <2>3. \/ row.phase = "SNAPSHOT_PREPARING" /\ next = "SNAPSHOT_READY"
          \/ row.phase = "RESET_PREPARING" /\ next = "RESET_READY"
          \/ row.phase = "RESET_RUNNING" /\ next = "COMPLETED"
      BY <1>2, <2>1 DEF Batched
    <2>4. /\ row' \in CampaignRow /\ row'.phase = next /\ row'.verifying = row.phase
          /\ row'.window = row.window /\ row'.cut = row.cut /\ row'.activated = row.activated
      BY <1>11, <2>2, <2>3 DEF CampaignRow, Phases, BeforeReset
    <2>5. CampaignTypeOK'
      BY <1>1, <2>4 DEF CampaignInv, CampaignTypeOK
    <2>6. Fence'
      BY <1>1, <2>4 DEF CampaignInv, Fence, gamblerMaintenance
    <2>7. Labels' /\ Compared'
      BY <2>3, <2>4 DEF Labels, Compared, BeforeReset
    <2>8. MembersOK'
      BY <1>1, <2>3, <2>4, MembersOn DEF BeforeReset
    <2>9. ASSUME ~adjusted, NEW a \in Accounts, Saved(a) PROVE units[a] = Expected(a)
      <3>1. After(d) = {}
        BY <1>6, <1>14 DEF Finished
      <3>2. ~(a > d)
        BY <2>9, <3>1 DEF After
      <3>3. a <= d
        BY <1>4, <1>9, <3>2
      <3>4. QED
        BY <1>9, <2>9, <3>3
    <2>10. QED
      BY <1>1, <1>3, <2>3, <2>4, <2>5, <2>6, <2>7, <2>8, <2>9 DEF CampaignInv
  <1>15. QED
    BY <1>13, <1>14

\* The rest: other work, windows and accounts, the repeated comparison, the rankings.
Around ==
    \/ SaveWindow \/ LoseAuthority
    \/ \E a \in Accounts : RegisterAccount(a)
    \/ \E kind \in {"GAME", "RELAY"} :
          AcceptWork(kind) \/ \E a \in Accounts, v \in 0..MaxUnits : SettleWork(kind, a, v)
    \/ \E a \in Accounts, v \in 0..MaxUnits : OpsAdjust(a, v)
    \/ RefreshRankings

\* What goes on around the campaign.
LEMMA AroundKeeps ==
    ASSUME CampaignInv, Around
    PROVE  CampaignInv' /\ UNCHANGED <<acct, badges>> /\ row'.phase = row.phase
           /\ row'.activated = row.activated
  <1>1. CampaignTypeOK /\ Fence /\ row \in CampaignRow
    BY DEF CampaignInv, CampaignTypeOK
  <1>a. window \in Nat /\ windows \in Nat /\ window <= windows /\ row.window <= windows /\ row.window \in Nat
    BY <1>1 DEF CampaignTypeOK, CampaignRow
  <1>2. CASE SaveWindow
    <2>1. /\ row' = row /\ acct' = acct /\ units' = units /\ registered' = registered /\ badges' = badges
          /\ adjusted' = adjusted /\ window' \in {0, windows + 1} /\ windows' \in {windows, windows + 1}
          /\ window' <= windows'
      BY <1>a, <1>2 DEF SaveWindow
    <2>2. ~gamblerMaintenance'
      BY <1>a, <2>1 DEF gamblerMaintenance
    <2>3. CampaignTypeOK'
      BY <1>1, <1>a, <2>1 DEF CampaignTypeOK
    <2>4. QED
      BY <2>1, <2>2, <2>3, PlatformStep
  <1>3. CASE LoseAuthority
    <2>1. row' = row /\ acct' = acct /\ units' = units /\ registered' = registered /\ badges' = badges
          /\ adjusted' = adjusted /\ window' = window /\ windows' = windows /\ accepted' = accepted
      BY <1>3 DEF LoseAuthority
    <2>2. CampaignTypeOK' /\ gamblerMaintenance' = gamblerMaintenance
      BY <1>1, <2>1 DEF CampaignTypeOK, gamblerMaintenance
    <2>3. QED
      BY <1>1, <2>1, <2>2, PlatformStep DEF Fence
  <1>4. ASSUME NEW a \in Accounts, RegisterAccount(a)
        PROVE  CampaignInv' /\ UNCHANGED <<acct, badges>> /\ row' = row
    <2>1. row' = row /\ acct' = acct /\ units' = units /\ registered' = registered \cup {a} /\ badges' = badges
          /\ adjusted' = adjusted /\ window' = window /\ windows' = windows /\ accepted' = accepted
      BY <1>4 DEF RegisterAccount
    <2>2. CampaignTypeOK' /\ gamblerMaintenance' = gamblerMaintenance
      BY <1>1, <2>1 DEF CampaignTypeOK, gamblerMaintenance
    <2>3. QED
      BY <1>1, <2>1, <2>2, PlatformStep DEF Fence
  <1>5. ASSUME NEW kind, AcceptWork(kind)
        PROVE  CampaignInv' /\ UNCHANGED <<acct, badges>> /\ row' = row
    <2>1. row' = row /\ acct' = acct /\ units' = units /\ registered' = registered /\ badges' = badges
          /\ adjusted' = adjusted /\ window' = window /\ windows' = windows /\ window = 0
      BY <1>5 DEF AcceptWork
    <2>2. CampaignTypeOK' /\ ~gamblerMaintenance'
      BY <1>1, <2>1 DEF CampaignTypeOK, gamblerMaintenance
    <2>3. QED
      BY <2>1, <2>2, PlatformStep
  <1>6. ASSUME NEW kind, NEW a \in Accounts, NEW v \in 0..MaxUnits, SettleWork(kind, a, v)
        PROVE  CampaignInv' /\ UNCHANGED <<acct, badges>> /\ row' = row
    <2>1. row' = row /\ acct' = acct /\ units' = [units EXCEPT ![a] = v] /\ registered' = registered
          /\ badges' = badges /\ adjusted' = adjusted /\ window' = window /\ windows' = windows
          /\ accepted # {}
      BY <1>6 DEF SettleWork
    <2>2. v \in Nat
      BY CampaignAssumption
    <2>3. CampaignTypeOK'
      BY <1>1, <2>1, <2>2 DEF CampaignTypeOK
    <2>4. ~gamblerMaintenance'
      BY <1>1, <2>1 DEF Fence, gamblerMaintenance
    <2>5. QED
      BY <2>1, <2>3, <2>4, PlatformStep
  <1>7. ASSUME NEW a \in Accounts, NEW v \in 0..MaxUnits, OpsAdjust(a, v)
        PROVE  CampaignInv' /\ UNCHANGED <<acct, badges>> /\ row' = row
    <2>1. row' = row /\ acct' = acct /\ units' = [units EXCEPT ![a] = v] /\ registered' = registered
          /\ badges' = badges /\ adjusted' = TRUE /\ window' = window /\ windows' = windows
          /\ accepted' = accepted
      BY <1>7 DEF OpsAdjust
    <2>2. v \in Nat
      BY CampaignAssumption
    <2>3. CampaignTypeOK' /\ gamblerMaintenance' = gamblerMaintenance
      BY <1>1, <2>1, <2>2 DEF CampaignTypeOK, gamblerMaintenance
    <2>4. QED
      BY <1>1, <2>1, <2>3, PlatformStep DEF Fence
  <1>8. CASE RefreshRankings
    <2>1. row' = [row EXCEPT !.published = TRUE] /\ acct' = acct /\ units' = units
          /\ registered' = registered /\ badges' = badges /\ window' = window /\ windows' = windows
          /\ accepted' = accepted /\ adjusted' = adjusted
      BY <1>8 DEF RefreshRankings, Kept
    <2>2. /\ row' \in CampaignRow /\ row'.phase = row.phase /\ row'.window = row.window
          /\ row'.cut = row.cut /\ row'.verifying = row.verifying /\ row'.cursor = row.cursor
          /\ row'.activated = row.activated
      BY <1>1, <2>1 DEF CampaignRow
    <2>3. CampaignTypeOK' /\ gamblerMaintenance' = gamblerMaintenance
      BY <1>1, <2>1, <2>2 DEF CampaignTypeOK, gamblerMaintenance
    <2>4. QED
      BY <1>1, <2>1, <2>2, <2>3, PlatformStep DEF Fence
  <1>9. QED
    BY <1>2, <1>3, <1>4, <1>5, <1>6, <1>7, <1>8 DEF Around

\* A resumed checkpoint is compared under a label of its own.
LEMMA ReverifyKeeps ==
    ASSUME CampaignInv, Reverify
    PROVE  CampaignInv' /\ UNCHANGED <<acct, badges>> /\ row'.phase = row.phase
           /\ row'.activated = row.activated
  <1>1. /\ acct' = acct /\ units' = units /\ registered' = registered /\ window' = window
        /\ windows' = windows /\ accepted' = accepted /\ adjusted' = adjusted /\ badges' = badges
    BY DEF Reverify, Kept
  <1>2. PICK d : d = Moved("RESUME")
    OBVIOUS
  <1>3. PICK pending \in BOOLEAN : pending = ~Finished("RESUME")
    BY DEF Finished
  <1>4. row \in CampaignRow /\ \A a \in Accounts : a \in Nat
    BY CampaignAssumption DEF CampaignInv, CampaignTypeOK
  <1>5. d \in Nat
    <2>1. Cursor("RESUME") \in Nat
      BY <1>4 DEF Cursor, CampaignRow
    <2>2. After(Cursor("RESUME")) \in SUBSET Accounts
      BY DEF After
    <2>3. QED
      BY <1>2, <1>4, <2>1, <2>2, LowestIn DEF Moved
  <1>6. row' = [row EXCEPT !.verifying = "RESUME", !.cursor = d, !.pending = pending]
    BY <1>2, <1>3 DEF Reverify, Verified
  <1>7. /\ row' \in CampaignRow /\ row'.phase = row.phase /\ row'.window = row.window
        /\ row'.cut = row.cut /\ row'.verifying = "RESUME" /\ row'.activated = row.activated
    BY <1>4, <1>5, <1>6 DEF CampaignRow
  <1>8. Labels' /\ row'.verifying # row'.phase
    BY <1>4, <1>7 DEF Labels, CampaignRow, Phases, BeforeReset
  <1>9. MembersOK'
    BY <1>1, <1>7, MembersOn
  <1>10. adjusted' \in BOOLEAN
    BY <1>1 DEF CampaignInv, CampaignTypeOK
  <1>11. QED
    BY <1>1, <1>7, <1>8, <1>9, <1>10, CommandStep

\* What a step of the campaign does, as CampaignExact says it.
LEMMA CampaignStep ==
    ASSUME CampaignInv, [CampaignNext]_campaignVars
    PROVE  CampaignInv' /\ [Exactly]_campaignVars
  <1>1. CASE UNCHANGED campaignVars
    <2>1. CampaignTypeOK' /\ gamblerMaintenance' = gamblerMaintenance
      BY <1>1 DEF campaignVars, CampaignInv, CampaignTypeOK, gamblerMaintenance
    <2>2. CampaignInv'
      BY <1>1, <2>1, PlatformStep DEF campaignVars, CampaignInv, Fence
    <2>3. QED
      BY <1>1, <2>2
  <1>2. CASE Around
    BY <1>2, AroundKeeps DEF Exactly
  <1>3. CASE Reverify
    BY <1>3, ReverifyKeeps DEF Exactly
  <1>4. CASE Snapshot \/ PrepareReset \/ StartReset \/ Resume
    <2>1. /\ badges' = badges /\ row'.activated = row.activated
          /\ row'.phase \in {"SNAPSHOT_READY", "RESET_READY"} => row'.phase = row.phase
      <3>1. row \in CampaignRow
        BY DEF CampaignInv, CampaignTypeOK
      <3>2. CASE Snapshot
        BY <3>1, <3>2 DEF Snapshot, CampaignRow
      <3>3. CASE PrepareReset
        BY <3>1, <3>3 DEF PrepareReset, CampaignRow
      <3>4. CASE StartReset
        BY <3>1, <3>4 DEF StartReset, CampaignRow
      <3>5. CASE Resume
        BY <3>1, <3>5 DEF Resume, CampaignRow
      <3>6. QED
        BY <1>4, <3>2, <3>3, <3>4, <3>5
    <2>2. badges' = badges
      BY <1>4 DEF Snapshot, PrepareReset, StartReset, Resume
    <2>3. QED
      BY <1>4, <2>1, <2>2, CommandsKeep DEF Exactly
  <1>5. CASE Grant
    <2>1. /\ badges' = {a \in Accounts : acct[a].eligible} /\ row' = [row EXCEPT !.phase = "GRANTED"]
          /\ row \in CampaignRow
      BY <1>5 DEF Grant, CampaignInv, CampaignTypeOK
    <2>2. row'.phase = "GRANTED" /\ row'.activated = row.activated
      BY <2>1 DEF CampaignRow
    <2>3. \A a \in Accounts : acct[a].eligible <=> acct[a].snapshot > Threshold
      BY DEF CampaignInv, MembersOK, MemberOK
    <2>4. badges' = {a \in Accounts : acct[a].snapshot > Threshold}
      BY <2>1, <2>3
    <2>5. QED
      BY <1>5, <2>2, <2>4, CommandsKeep DEF Exactly
  <1>6. CASE Activate
    <2>1. /\ row.phase = "COMPLETED" /\ VerifyReset(TRUE) /\ badges' = badges
          /\ row' = [row EXCEPT !.activated = TRUE] /\ row \in CampaignRow
      BY <1>6 DEF Activate, Accepts, CampaignInv, CampaignTypeOK
    <2>2. row'.phase = row.phase
      BY <2>1 DEF CampaignRow
    <2>3. ASSUME NEW a \in Accounts, acct[a].resetMember
          PROVE  units[a] = ResetUnits /\ acct[a].resets = 1
      <3>1. acct[a].state = "COMPLETED" /\ units[a] = Expected(a)
        BY <2>1, <2>3 DEF VerifyReset
      <3>2. Expected(a) = ResetUnits
        BY <2>1, <3>1 DEF Expected, Snapshotting
      <3>3. acct[a].resets = 1
        BY <3>1 DEF CampaignInv, MembersOK, MemberOK
      <3>4. QED
        BY <3>1, <3>2, <3>3
    <2>4. QED
      BY <1>6, <2>1, <2>2, <2>3, CommandsKeep DEF Exactly
  <1>7. CASE ProcessAccount
    <2>1. /\ row' = [row EXCEPT !.cut = TRUE] /\ badges' = badges /\ row \in CampaignRow
      BY <1>7 DEF ProcessAccount, Kept, CampaignInv, CampaignTypeOK
    <2>2. row'.phase = row.phase /\ row'.activated = row.activated
      BY <2>1 DEF CampaignRow
    <2>3. QED
      BY <1>7, <2>1, <2>2, AccountKeeps DEF Exactly
  <1>8. CASE Seal
    <2>1. /\ CampaignInv' /\ badges' = badges /\ row'.activated = row.activated
          /\ row'.phase # row.phase =>
                 /\ Todo(acct) = {}
                 /\ row'.phase = "SNAPSHOT_READY" => row.phase = "SNAPSHOT_PREPARING"
                 /\ row'.phase = "RESET_READY" => row.phase = "RESET_PREPARING"
                 /\ ~adjusted => \A a \in Accounts : Saved(a) => units[a] = Expected(a)
      BY <1>8, SealKeeps
    <2>2. ASSUME row'.phase # row.phase, ~adjusted, row'.phase = "SNAPSHOT_READY",
                 NEW a \in Accounts, acct[a].snapshotMember
          PROVE  acct[a].snapshot = units[a]
      <3>1. row.phase = "SNAPSHOT_PREPARING" /\ a \notin Todo(acct)
        BY <2>1, <2>2
      <3>2. acct[a].snapshot # Unset
        BY <2>2, <3>1 DEF Todo
      <3>3. Saved(a) /\ Expected(a) = acct[a].snapshot
        BY <2>2, <3>1, <3>2 DEF Saved, Expected, Snapshotting
      <3>4. QED
        BY <2>1, <2>2, <3>3
    <2>3. ASSUME row'.phase # row.phase, ~adjusted, row'.phase = "RESET_READY",
                 NEW a \in Accounts, acct[a].resetMember
          PROVE  acct[a].before = units[a]
      <3>1. row.phase = "RESET_PREPARING" /\ a \notin Todo(acct)
        BY <2>1, <2>3
      <3>2. acct[a].state # "PENDING"
        BY <2>3, <3>1 DEF Todo
      <3>3. acct[a].before # Unset /\ acct[a].state # "COMPLETED"
        BY <3>1, <3>2 DEF CampaignInv, MembersOK, MemberOK
      <3>4. Saved(a) /\ Expected(a) = acct[a].before
        BY <2>3, <3>1, <3>3 DEF Saved, Expected, Snapshotting
      <3>5. QED
        BY <2>1, <2>3, <3>4
    <2>4. QED
      BY <2>1, <2>2, <2>3 DEF Exactly
  <1>9. QED
    BY <1>1, <1>2, <1>3, <1>4, <1>5, <1>6, <1>7, <1>8 DEF CampaignNext, Around

\* For any number of accounts, whatever users, administrators and windows do between
\* its batches: a checkpoint is sealed over the assets that its members have
\* (verifyCheckpointBatch), badges go to those above the threshold, and the policy is
\* activated over accounts that were reset once (verifyReset).
THEOREM CampaignExactHolds == CampaignSpec => CampaignExact
  <1>1. CampaignInit => CampaignInv
    BY CampaignInitially
  <1>2. CampaignInv /\ [CampaignNext]_campaignVars => CampaignInv' /\ [Exactly]_campaignVars
    BY CampaignStep
  <1>3. QED
    BY <1>1, <1>2, PTL DEF CampaignSpec, CampaignExact
=============================================================================
