---------------------------- MODULE PokerStream ----------------------------
(***************************************************************************)
(* The live stream of a table (internal/poker/transport: serveWS and the   *)
(* notifications it is driven by).  The actor of the table commits a new   *)
(* version and then notifies; a socket subscribes, reads a first snapshot  *)
(* and then serves its queue of versions, the wake-up of its control and   *)
(* the requests of its client, reading and writing as separate steps.      *)
(***************************************************************************)
EXTENDS Naturals, Sequences

CONSTANTS
    Streams,                \* sockets that were authenticated
    QueueCapacity,          \* SendQueueCapacity
    MaxVersion, MaxEpoch, MaxView   \* bounds on commits, actors, control changes

VARIABLES
    feed,       \* the committed table: version, runtime epoch, control view
    unsent,     \* the notifications the owner of the table still has to make
    stream,     \* per socket its stage, queue, wake-up, the snapshot it showed
                \* last and the one it read
    fence,      \* the runtime epoch of the table's event sequence
    loginLive   \* the login session of the sockets
streamVars == <<feed, unsent, stream, fence, loginLive>>

NothingShown == [version |-> 0, epoch |-> 0, view |-> 0]
StreamInit ==
    /\ feed = [version |-> 1, epoch |-> 1, view |-> 1]
    /\ unsent = [version |-> FALSE, view |-> FALSE]
    /\ stream = [c \in Streams |-> [stage |-> "NEW", queue |-> <<>>, wake |-> FALSE,
                                    last |-> NothingShown, next |-> NothingShown]]
    /\ fence = 0 /\ loginLive = TRUE

Ended(s) == [s EXCEPT !.stage = "GONE", !.queue = <<>>, !.wake = FALSE,
                      !.last = NothingShown, !.next = NothingShown]
\* Mutant: the socket subscribes when it has shown its first snapshot.
SubscribedOnceShown(c) == stream[c].last # NothingShown
\* The subscriber of the socket is known to NotifyCommitted.
Subscribed(c) == stream[c].stage \notin {"NEW", "CONNECTED", "GONE"}
To(c, s) == stream' = [stream EXCEPT ![c] = s]
Stage(c, stage) == To(c, [stream[c] EXCEPT !.stage = stage])
End(c) == To(c, Ended(stream[c]))
-----------------------------------------------------------------------------
(* The table. *)

CommitTable ==
    /\ feed.version < MaxVersion /\ ~unsent.version
    /\ feed' = [feed EXCEPT !.version = @ + 1]
    /\ unsent' = [unsent EXCEPT !.version = TRUE]
    /\ UNCHANGED <<stream, fence, loginLive>>

\* NotifyCommitted never waits: a full queue ends the connection.
Notified(s) ==
    IF Len(s.queue) < QueueCapacity THEN [s EXCEPT !.queue = Append(@, feed.version)]
    ELSE Ended(s)
NotifyCommitted ==
    /\ unsent.version
    /\ unsent' = [unsent EXCEPT !.version = FALSE]
    /\ stream' = [c \in Streams |-> IF Subscribed(c) THEN Notified(stream[c]) ELSE stream[c]]
    /\ UNCHANGED <<feed, fence, loginLive>>

\* A new actor takes the table over; nobody is told before its next commit.
ReplaceActor ==
    /\ feed.epoch < MaxEpoch
    /\ feed' = [feed EXCEPT !.epoch = @ + 1]
    /\ UNCHANGED <<unsent, stream, fence, loginLive>>

\* A grant is made or lost; one pending wake-up stands for all changes.
ChangeControl ==
    /\ feed.view < MaxView /\ ~unsent.view
    /\ feed' = [feed EXCEPT !.view = @ + 1]
    /\ unsent' = [unsent EXCEPT !.view = TRUE]
    /\ UNCHANGED <<stream, fence, loginLive>>
NotifyControlChanged ==
    /\ unsent.view
    /\ unsent' = [unsent EXCEPT !.view = FALSE]
    /\ stream' = [c \in Streams |->
                     IF Subscribed(c) THEN [stream[c] EXCEPT !.wake = TRUE] ELSE stream[c]]
    /\ UNCHANGED <<feed, fence, loginLive>>

\* The login is revoked (a logout, a change of the account) or expires.  Nothing
\* tells the sockets: Handler.RevokeSession has no caller outside the tests.
EndLogin ==
    /\ loginLive /\ loginLive' = FALSE
    /\ UNCHANGED <<feed, unsent, stream, fence>>
-----------------------------------------------------------------------------
(* A socket. *)

Alone == UNCHANGED <<feed, unsent, fence, loginLive>>

\* The ticket and the session are good, and the table registers the connection.
Open(c) ==
    /\ stream[c].stage = "NEW"
    /\ IF loginLive THEN Stage(c, "CONNECTED") ELSE End(c)
    /\ Alone

\* It subscribes before it reads.
Subscribe(c) ==
    /\ stream[c].stage = "CONNECTED"
    /\ Stage(c, "FIRST")
    /\ Alone

\* sessionSnapshot: the session is validated before every read.
Validate(c, stage, s) ==
    To(c, IF loginLive THEN [s EXCEPT !.stage = stage] ELSE Ended(s))

FirstSnapshot(c) ==
    /\ stream[c].stage = "FIRST"
    /\ Validate(c, "READ_FIRST", stream[c])
    /\ Alone

\* A version that was already shown is skipped.
TakeCommit(c) ==
    LET s == stream[c]
        rest == [s EXCEPT !.queue = Tail(@)]
    IN  /\ s.stage = "OPEN" /\ s.queue # <<>>
        /\ IF Head(s.queue) <= s.last.version THEN To(c, rest)
           ELSE Validate(c, "READ_COMMIT", rest)
        /\ Alone

TakeWake(c) ==
    /\ stream[c].stage = "OPEN" /\ stream[c].wake
    /\ Validate(c, "READ_WAKE", [stream[c] EXCEPT !.wake = FALSE])
    /\ Alone

SyncRequest(c) ==
    /\ stream[c].stage = "OPEN"
    /\ Validate(c, "READ_SYNC", stream[c])
    /\ Alone

OlderView(next, last) == next.version < last.version \/ next.epoch < last.epoch
\* What is done with a snapshot depends on why it was read.
Worth(stage, next, last) ==
    CASE stage = "READ_COMMIT" -> IF next.epoch = last.epoch /\ next.version <= last.version
                                  THEN "OPEN" ELSE "WRITE"
      [] stage = "READ_WAKE" -> IF OlderView(next, last) THEN "GONE"
                                ELSE IF next = last THEN "OPEN" ELSE "WRITE"
      [] stage = "READ_SYNC" -> IF OlderView(next, last) THEN "OPEN" ELSE "WRITE"
      [] OTHER -> "WRITE"
ReadSnapshot(c) ==
    LET s == stream[c]
        worth == Worth(s.stage, feed, s.last)
    IN  /\ s.stage \in {"READ_FIRST", "READ_COMMIT", "READ_WAKE", "READ_SYNC"}
        /\ To(c, IF worth = "GONE" THEN Ended(s)
                 ELSE [s EXCEPT !.stage = worth, !.next = IF worth = "WRITE" THEN feed ELSE NothingShown])
        /\ Alone

\* writeEvent: an event of an older runtime than the table's sequence is refused
\* and ends the connection.
WriteSnapshot(c) ==
    LET s == stream[c]
    IN  /\ s.stage = "WRITE"
        /\ IF s.next.epoch < fence
           THEN End(c) /\ UNCHANGED fence
           ELSE /\ fence' = s.next.epoch
                /\ To(c, [s EXCEPT !.stage = "OPEN", !.last = s.next, !.next = NothingShown])
        /\ UNCHANGED <<feed, unsent, loginLive>>

\* A receipt, a pong or an error is an event, too.
Reply(c) ==
    /\ stream[c].stage = "OPEN" /\ (stream[c].last.epoch < fence \/ ~loginLive)
    /\ End(c) /\ Alone

\* The client goes, a write fails or times out, the queue of requests is full, or
\* the table's moderation ends the sockets of a player (CancelTableUser).  Reading
\* has no time limit.
LoseSocket(c) ==
    /\ stream[c].stage \notin {"NEW", "GONE"}
    /\ End(c) /\ Alone

Serve(c) ==
    \/ Open(c) \/ Subscribe(c) \/ FirstSnapshot(c) \/ TakeCommit(c) \/ TakeWake(c)
    \/ ReadSnapshot(c) \/ WriteSnapshot(c)
StreamNext ==
    \/ CommitTable \/ NotifyCommitted \/ ReplaceActor
    \/ ChangeControl \/ NotifyControlChanged \/ EndLogin
    \/ \E c \in Streams : Serve(c) \/ SyncRequest(c) \/ Reply(c) \/ LoseSocket(c)

\* Every goroutine runs; notifications follow their commit.  Go's select takes a
\* channel that stays ready, so the queue and the wake-up are served fairly.
StreamFairness ==
    /\ WF_streamVars(NotifyCommitted) /\ WF_streamVars(NotifyControlChanged)
    /\ \A c \in Streams :
          /\ WF_streamVars(Open(c)) /\ WF_streamVars(Subscribe(c))
          /\ WF_streamVars(FirstSnapshot(c))
          /\ SF_streamVars(TakeCommit(c)) /\ SF_streamVars(TakeWake(c))
          /\ WF_streamVars(ReadSnapshot(c)) /\ WF_streamVars(WriteSnapshot(c))
-----------------------------------------------------------------------------
\* A socket that stays open catches up: it shows the version committed last and
\* the control as it is, whichever of subscribing, reading, committing, granting,
\* notifying and the end of the login came first.
StreamCatchesUp ==
    \A c \in Streams :
        []<>(\/ stream[c].stage = "GONE"
             \/ stream[c].last.version = feed.version /\ stream[c].last.view = feed.view)
=============================================================================
