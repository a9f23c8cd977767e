--------------------------- MODULE PokerControl ---------------------------
(***************************************************************************)
(* Who may command a seat: internal/poker/control.go with the table actors *)
(* of actor.go and startup.go and the lease scripts of redislease.         *)
(*                                                                         *)
(* One seat of one table is watched.  Its durable authority, the runtime   *)
(* epoch of the table and the control epoch of the session, is in          *)
(* PostgreSQL and changes in the transactions of the table's actor.  The   *)
(* live authority is a Redis lease and a grant in the memory of the        *)
(* process that holds the socket: it is assigned after COMMIT, and every   *)
(* call in between may fail, be late, or meet another process.             *)
(***************************************************************************)
EXTENDS Naturals

CONSTANTS
    Sockets,                \* server-generated connection ids, never reused
    NoSocket,
    Services,               \* processes that may serve the table
    MaxRuntime,             \* bound on the actors started for the table
    MaxControl              \* bound on the control epochs claimed

ASSUME ControlAssumption == MaxRuntime \in Nat /\ MaxControl \in Nat

VARIABLES
    authority,  \* PostgreSQL: runtime epoch, control epoch, seat connected
    lease,      \* Redis: the ControlRef that owns the session
    runner,     \* per process its actor of the table
    socket,     \* per connection id what its process knows of it, whether its login
                \* was and the control epochs its claims were answered with
    handover,   \* per process the onCommit work of a claim or a release
    commanded   \* the reference of the last command of the seat that was accepted
controlVars ==
    <<authority, lease, runner, socket, handover, commanded>>

Free == [socket |-> NoSocket, runtime |-> 0, control |-> 0]
IdleSocket == [step |-> "NONE", ref |-> Free, expected |-> Free]
Unused == [state |-> "NEW", at |-> "none", runtime |-> 0, grant |-> 0, revoked |-> FALSE,
           connected |-> 0, takeover |-> 0]
StoppedService == [state |-> "NONE", epoch |-> 0]

ControlInit ==
    /\ authority = [runtime |-> 0, control |-> 0, connected |-> FALSE]
    /\ lease = Free
    /\ runner = [p \in Services |-> StoppedService]
    /\ socket = [c \in Sockets |-> Unused]
    /\ handover = [p \in Services |-> IdleSocket]
    /\ commanded = Free

RefOf(c) == [socket |-> c, runtime |-> socket[c].runtime, control |-> socket[c].grant]
OpenAt(c, p) == socket[c].state = "OPEN" /\ socket[c].at = p
\* live: the connection is registered in the process under the same runtime.
live(ref, p) == OpenAt(ref.socket, p) /\ socket[ref.socket].runtime = ref.runtime
Authentic(c) == ~socket[c].revoked
-----------------------------------------------------------------------------
(* The actors of the table. *)

\* actor: the runtime epoch is advanced in a transaction of its own.
StartRunner(p) ==
    /\ runner[p].state = "NONE" /\ authority.runtime < MaxRuntime
    /\ authority' = [authority EXCEPT !.runtime = @ + 1]
    /\ runner' = [runner EXCEPT ![p] = [state |-> "STARTING", epoch |-> authority.runtime + 1]]
    /\ UNCHANGED <<lease, socket, handover, commanded>>

Current(p) == runner[p].epoch = authority.runtime

\* recoverMutation between hands: nobody is connected to a new actor.
HydrateRunner(p) ==
    /\ runner[p].state = "STARTING" /\ Current(p)
    /\ runner' = [runner EXCEPT ![p].state = "RUNNING"]
    /\ authority' = [authority EXCEPT !.connected = FALSE]
    /\ UNCHANGED <<lease, socket, handover, commanded>>

\* execute: an actor whose epoch is no longer the table's commits nothing and ends.
FenceRunner(p) ==
    /\ runner[p].state \in {"STARTING", "RUNNING"} /\ ~Current(p)
    /\ runner' = [runner EXCEPT ![p].state = "FENCED"]
    /\ UNCHANGED <<authority, lease, socket, handover, commanded>>

\* A transaction of the actor: the mailbox is served one request at a time, and
\* the onCommit work of a request ends before the next one starts.
InRunner(p) == runner[p].state = "RUNNING" /\ Current(p) /\ handover[p] = IdleSocket

StopService(p) ==
    /\ runner[p].state # "NONE"
    /\ runner' = [runner EXCEPT ![p] = StoppedService]
    /\ handover' = [handover EXCEPT ![p] = IdleSocket]
    /\ socket' = [c \in Sockets |->
                     IF socket[c].at = p THEN [Unused EXCEPT !.state = "GONE"] ELSE socket[c]]
    /\ UNCHANGED <<authority, lease, commanded>>
-----------------------------------------------------------------------------
(* Claims. *)

\* grant: every other grant of the session in this process is taken back.
Granted(conns, p, ref) ==
    [c \in Sockets |->
        IF c = ref.socket THEN [conns[c] EXCEPT !.grant = ref.control]
        ELSE IF conns[c].at = p THEN [conns[c] EXCEPT !.grant = 0] ELSE conns[c]]

Hand(p, step, ref) ==
    handover' = [handover EXCEPT ![p] = [step |-> step, ref |-> ref, expected |-> lease]]

\* Mutant: a session without a lease is claimed at its present epoch.
nextControlEpochKept == IF lease = Free /\ authority.control > 0 THEN authority.control ELSE authority.control + 1
nextControlEpoch == authority.control + 1

\* The lease is of a later runtime or claim than this transaction sees.
LeaseAhead == lease.runtime > authority.runtime \/ lease.control > authority.control
\* The seat has a controller.
LeaseCurrent ==
    lease # Free /\ lease.runtime = authority.runtime /\ lease.control = authority.control

\* The same request was answered before: its epoch is confirmed, if still the seat's.
ReplayClaim(p, c, kind, conns) ==
    LET known == conns[c][kind]
        ref == [socket |-> c, runtime |-> conns[c].runtime, control |-> known]
    IN  /\ known > 0
        /\ IF known = authority.control THEN Hand(p, "ASSIGN", ref) ELSE UNCHANGED handover
        /\ socket' = conns /\ UNCHANGED authority

\* The durable claim; its lease is assigned after COMMIT.
AdvanceClaim(p, c, kind, conns) ==
    /\ ~LeaseAhead /\ (kind = "connected" => ~LeaseCurrent)
    /\ nextControlEpoch <= MaxControl
    /\ authority' = [authority EXCEPT !.control = nextControlEpoch, !.connected = TRUE]
    /\ socket' = [conns EXCEPT ![c][kind] = nextControlEpoch]
    /\ Hand(p, "ASSIGN",
            [socket |-> c, runtime |-> conns[c].runtime, control |-> nextControlEpoch])

\* Connected: a new socket, or the same one again after a buy-in.  An earlier
\* grant is kept only for the same connection under the same runtime.  A socket
\* without control intent registers, too, but never claims, and is not watched.
RegisterSocket(p, c) ==
    LET kept == IF socket[c].runtime = authority.runtime THEN socket[c].grant ELSE 0
        conns == [socket EXCEPT ![c] = [@ EXCEPT !.state = "OPEN", !.at = p,
                                           !.runtime = authority.runtime, !.grant = kept]]
    IN  /\ InRunner(p) /\ Authentic(c)
        /\ socket[c].state = "NEW" \/ OpenAt(c, p)
        /\ \/ ReplayClaim(p, c, "connected", conns)
           \/ socket[c].connected = 0 /\ AdvanceClaim(p, c, "connected", conns)
           \/ /\ socket[c].connected = 0 /\ (LeaseAhead \/ LeaseCurrent)
              /\ socket' = IF LeaseCurrent /\ lease.socket = c THEN Granted(conns, p, lease)
                           ELSE conns
              /\ UNCHANGED <<authority, handover>>
        /\ UNCHANGED <<lease, runner, commanded>>

\* TakeOver, under a new request id or as a retry of the last one.
TakeOver(p, c) ==
    /\ InRunner(p) /\ OpenAt(c, p) /\ Authentic(c)
    /\ socket[c].runtime = authority.runtime
    /\ ReplayClaim(p, c, "takeover", socket) \/ AdvanceClaim(p, c, "takeover", socket)
    /\ UNCHANGED <<lease, runner, commanded>>

\* confirmControl, first half: the compare-and-set of the lease.  Refused, failed
\* or for a socket that is gone, it ends the hand-over without a grant.
AssignLease(p) ==
    LET h == handover[p]
    IN  /\ h.step = "ASSIGN"
        /\ \/ /\ live(h.ref, p) /\ Authentic(h.ref.socket) /\ lease = h.expected
              /\ lease' = h.ref
              /\ handover' = [handover EXCEPT ![p] = [h EXCEPT !.step = "CHECK"]]
           \/ /\ handover' = [handover EXCEPT ![p] = IdleSocket]
              /\ UNCHANGED lease
        /\ UNCHANGED <<authority, runner, socket, commanded>>

\* Second half: a newer actor or claim may have come after the COMMIT.
ConfirmControl(p) ==
    LET ref == handover[p].ref
        valid == /\ ref.control = authority.control /\ ref.runtime = authority.runtime
                 /\ live(ref, p) /\ Authentic(ref.socket)
    IN  /\ handover[p].step = "CHECK"
        /\ handover' = [handover EXCEPT ![p] = IdleSocket]
        /\ socket' = IF valid THEN Granted(socket, p, ref) ELSE socket
        /\ UNCHANGED <<authority, lease, runner, commanded>>
-----------------------------------------------------------------------------
(* Use, renewal and loss. *)

\* validateControl, read again by beforeCommit under the same row lock.
validateControl(c) ==
    /\ socket[c].grant > 0
    /\ socket[c].runtime = authority.runtime /\ socket[c].grant = authority.control
    /\ Authentic(c) /\ lease = RefOf(c)

ControlCommand(p, c) ==
    /\ InRunner(p) /\ OpenAt(c, p) /\ validateControl(c)
    /\ commanded' = RefOf(c)
    /\ UNCHANGED <<authority, lease, runner, socket, handover>>

\* A command or a renewal that finds the authority gone, or Redis unreachable.
loseGrant(c) ==
    /\ socket[c].state = "OPEN" /\ socket[c].grant > 0
    /\ socket' = [socket EXCEPT ![c].grant = 0]
    /\ UNCHANGED <<authority, lease, runner, handover, commanded>>

LeaseExpires ==
    /\ lease # Free
    /\ lease' = Free
    /\ UNCHANGED <<authority, runner, socket, handover, commanded>>

\* The login of a socket is revoked, which every later validation sees.
RevokeSession(c) ==
    /\ socket[c].state = "OPEN" /\ Authentic(c)
    /\ socket' = [socket EXCEPT ![c].revoked = TRUE]
    /\ UNCHANGED <<authority, lease, runner, handover, commanded>>

\* Disconnected: the process forgets the connection first.
CloseSocket(c) ==
    /\ socket[c].state = "OPEN"
    /\ socket' = [socket EXCEPT ![c].state = "CLOSING"]
    /\ UNCHANGED <<authority, lease, runner, handover, commanded>>

\* Then the actor marks the seat disconnected, if the lease is still this
\* connection's; busy, fenced or refused, it does not and nothing is repeated.
DetachSeat(c) ==
    LET p == socket[c].at
        owner == lease.socket = c /\ lease.runtime = socket[c].runtime
                    /\ lease.control = authority.control
    IN  /\ socket[c].state = "CLOSING"
        /\ socket' = [socket EXCEPT ![c] = [Unused EXCEPT !.state = "GONE"]]
        /\ \/ /\ InRunner(p) /\ socket[c].runtime = authority.runtime /\ owner
              /\ authority' = [authority EXCEPT !.connected = FALSE]
              /\ Hand(p, "RELEASE", lease)
           \/ UNCHANGED <<authority, handover>>
        /\ UNCHANGED <<lease, runner, commanded>>

ReleaseLease(p) ==
    LET h == handover[p]
    IN  /\ h.step = "RELEASE"
        /\ lease' \in {lease, IF lease = h.ref THEN Free ELSE lease}
        /\ handover' = [handover EXCEPT ![p] = IdleSocket]
        /\ UNCHANGED <<authority, runner, socket, commanded>>

ControlNext ==
    \/ \E p \in Services :
          \/ StartRunner(p) \/ HydrateRunner(p) \/ FenceRunner(p) \/ StopService(p)
          \/ AssignLease(p) \/ ConfirmControl(p) \/ ReleaseLease(p)
          \/ \E c \in Sockets : RegisterSocket(p, c) \/ TakeOver(p, c) \/ ControlCommand(p, c)
    \/ \E c \in Sockets : loseGrant(c) \/ RevokeSession(c) \/ CloseSocket(c) \/ DetachSeat(c)
    \/ LeaseExpires

ControlSpec == ControlInit /\ [][ControlNext]_controlVars
-----------------------------------------------------------------------------
\* Two sockets of one player, in one process or in two of which one was fenced,
\* never command the seat in turns: the commands accepted follow the runtime and
\* the control epochs, and one control epoch is used by one socket only, whatever
\* of the lease and the grants is late, lost or expired.
CommandsFenced ==
    [][commanded' # commanded =>
          /\ commanded'.runtime >= commanded.runtime
          /\ commanded'.control >= commanded.control
          /\ commanded'.control = commanded.control => commanded' = commanded]_controlVars
=============================================================================
