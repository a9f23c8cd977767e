------------------------------- MODULE Relay -------------------------------
(***************************************************************************)
(* One request of the relay gateway (internal/relay: Handler, forward-     *)
(* Response, streamResponse; internal/platform: PrepareRelay, RelayCost,   *)
(* SettleRelay, the API keys and the channel and price administration).    *)
(*                                                                         *)
(* The handler tries up to three channels, while a heartbeat goroutine     *)
(* shares the response writer with it; the client may go and the deadline  *)
(* may pass at any time; administrators and the owner of the key change    *)
(* the routing data meanwhile.  A section under the writer's lock is one   *)
(* step.  Bodies are abstracted to frames that report usage or end the     *)
(* reply; the conversions between formats only succeed or fail.            *)
(***************************************************************************)
EXTENDS Integers, Sequences, FiniteSets

CONSTANTS Channels,   \* the channels that serve the model to the user's group
          Preferred,  \* the ones of the best priority
          MaxPrice,   \* bound on the price changes
          MaxBeats,   \* bound on the heartbeats
          MaxFrames   \* bound on the frames of a stream

VARIABLES shop,      \* the channels enabled, the price, the API key
          call,      \* the request: the handler's variables
          wire,      \* streamResponse and what the client received
          beat,      \* the heartbeat goroutine
          client,    \* the request context: LIVE, GONE or LATE
          bill       \* what the settlement charged
relayVars == <<shop, call, wire, beat, client, bill>>

MaxAttempts == 3
NoBill == [state |-> "NONE", cost |-> 0]

RelayInit ==
    /\ shop = [enabled |-> Channels, price |-> 1,
               key |-> [live |-> TRUE, used |-> 0, limit |-> 1]]
    /\ \E stream \in BOOLEAN :
          call = [step |-> "NEW", stream |-> stream, used |-> {}, attempt |-> 0,
                  quote |-> 0, admitted |-> 0, reported |-> FALSE, frames |-> 0,
                  terminal |-> FALSE, final |-> "ERROR"]
    /\ wire = [committed |-> FALSE, stopped |-> FALSE, sent |-> <<>>]
    /\ beat = "OFF" /\ client = "LIVE" /\ bill = NoBill

Goto(step) == call' = [call EXCEPT !.step = step]
-----------------------------------------------------------------------------
(* Routing. *)

\* selectRelayChannel: a channel of the best tier that was not tried yet.
Candidates(tried) ==
    LET open == shop.enabled \ tried
    IN  IF open \cap Preferred # {} THEN open \cap Preferred ELSE open
\* scanRelayIdentity
KeyUsable == shop.key.live /\ shop.key.used < shop.key.limit

\* PrepareRelay: the quote of the request is the price at this moment.
AdmitRequest ==
    /\ call.step = "NEW" /\ KeyUsable
    /\ \E c \in Candidates({}) :
          call' = [call EXCEPT !.step = "SEND", !.used = {c}, !.attempt = 1,
                               !.quote = shop.price, !.admitted = shop.price]
    /\ beat' = "WAITING"
    /\ UNCHANGED <<shop, wire, client, bill>>
\* admissionError: nothing to settle, no channel was chosen.
Refuse ==
    /\ call.step = "NEW" /\ (~KeyUsable \/ Candidates({}) = {})
    /\ wire' = [wire EXCEPT !.committed = TRUE, !.sent = <<"ERROR">>]
    /\ Goto("REFUSED")
    /\ UNCHANGED <<shop, beat, client, bill>>

\* Mutant: a retry takes the price of its own route.
RequoteNow == shop.price
\* One quote for the logical request, retries included.
Requote == call.quote

\* A transport error, 429 or 5xx is retried on another channel, which is logged
\* first; the key, the balance and the channels are checked again.
Retry ==
    /\ call.step = "SEND" /\ call.attempt < MaxAttempts /\ client = "LIVE" /\ KeyUsable
    /\ \E c \in Candidates(call.used) :
          \/ call' = [call EXCEPT !.used = @ \cup {c}, !.attempt = @ + 1, !.quote = Requote]
          \/ Goto("FAIL")
    /\ UNCHANGED <<shop, wire, beat, client, bill>>
\* The conversion of the request fails; the last attempt fails; the upstream
\* refuses; or the context ended while the upstream was asked.
GiveUp ==
    /\ call.step = "SEND"
    /\ call' = [call EXCEPT !.step = "FAIL",
                   !.final = IF client = "LIVE" THEN @ ELSE "CANCELLED_POST_UPSTREAM"]
    /\ UNCHANGED <<shop, wire, beat, client, bill>>
\* A 2xx answer.
Answered ==
    /\ call.step = "SEND"
    /\ Goto(IF call.stream THEN "HEADERS" ELSE "BODY")
    /\ UNCHANGED <<shop, wire, beat, client, bill>>
-----------------------------------------------------------------------------
(* The writer that the handler and the heartbeat share. *)

\* writeLocked, when nothing was stopped and the context is alive.
Writable == ~wire.stopped /\ client = "LIVE"
SentBytes(w, item) == [w EXCEPT !.committed = TRUE, !.sent = Append(@, item)]
\* stopLocked
StoppedBeats(w) == [w EXCEPT !.stopped = TRUE]

\* A frame resets the timer, of which a tick that waits for the lock is told.
ResetBody == beat' = IF beat = "FIRED" THEN "RESET" ELSE beat

\* The timer fires while the handler waits for the upstream.
BeatDue ==
    /\ call.step \in {"SEND", "BODY", "HEADERS", "STREAM"}
    /\ beat = "WAITING" /\ Cardinality({i \in 1..Len(wire.sent) : wire.sent[i] = "BEAT"}) < MaxBeats
    /\ beat' = "FIRED"
    /\ UNCHANGED <<shop, call, wire, client, bill>>
\* The lock is free: a frame may have come first, or the response was stopped.
Heartbeat ==
    /\ beat \in {"FIRED", "RESET"}
    /\ \/ beat = "FIRED" /\ Writable /\ wire' = SentBytes(wire, "BEAT") /\ beat' = "WAITING"
       \/ beat = "RESET" /\ UNCHANGED wire /\ beat' = "WAITING"
       \/ beat = "FIRED" /\ ~Writable /\ UNCHANGED wire /\ beat' = "DONE"
    /\ UNCHANGED <<shop, call, client, bill>>
BeatEnds ==
    /\ beat = "WAITING" /\ (wire.stopped \/ client # "LIVE")
    /\ beat' = "DONE"
    /\ UNCHANGED <<shop, call, wire, client, bill>>

\* fail: the error is the body, or follows what was sent; it stops the heartbeat.
FailReply ==
    /\ call.step = "FAIL"
    /\ wire' = StoppedBeats(SentBytes(wire, "ERROR"))
    /\ Goto("JOIN")
    /\ UNCHANGED <<shop, beat, client, bill>>
\* fail, finish and close wait for the goroutine.
Join ==
    /\ call.step = "JOIN" /\ beat = "DONE"
    /\ Goto("SETTLE")
    /\ UNCHANGED <<shop, wire, beat, client, bill>>
\* close, after a reply that ended without fail or finish.
Close ==
    /\ call.step = "CLOSE"
    /\ wire' = [wire EXCEPT !.stopped = TRUE] /\ Goto("JOIN")
    /\ UNCHANGED <<shop, beat, client, bill>>
-----------------------------------------------------------------------------
(* forwardResponse. *)

\* The end of a reply that was interrupted: written and not cancelled, it gets its
\* error here; not written, from the handler; else nobody is there.
Interrupted(w) ==
    [call EXCEPT !.step = IF ~w.committed \/ client # "GONE" THEN "FAIL" ELSE "CLOSE",
                 !.final = IF client = "LIVE" THEN @ ELSE "CANCELLED_POST_UPSTREAM"]

\* The whole JSON body: read, decoded, converted and written with the stop.
Body ==
    /\ call.step = "BODY"
    /\ \/ /\ Writable
          /\ wire' = [SentBytes(wire, "END") EXCEPT !.stopped = TRUE]
          /\ \E reported \in BOOLEAN :
                call' = [call EXCEPT !.step = "JOIN", !.final = "SUCCESS", !.reported = reported]
       \* Read or decoded, but not written: finish has stopped the writer.
       \/ /\ ~Writable /\ wire' = [wire EXCEPT !.stopped = TRUE]
          /\ \E reported \in BOOLEAN :
                call' = [call EXCEPT !.step = IF wire.committed THEN "JOIN" ELSE "FAIL",
                            !.reported = reported, !.final = "CANCELLED_POST_UPSTREAM"]
       \* The read, the decoding (usage may be known) or the conversion fails.
       \/ /\ \E reported \in BOOLEAN :
                call' = [call EXCEPT !.step = "FAIL", !.reported = reported,
                            !.final = IF client = "LIVE" THEN @ ELSE "CANCELLED_POST_UPSTREAM"]
          /\ UNCHANGED wire
    /\ UNCHANGED <<shop, beat, client, bill>>

\* The confirmed headers are flushed before the first event.  Not writable, the
\* reply ends here, without an error if a heartbeat was sent.
Headers ==
    /\ call.step = "HEADERS"
    /\ IF Writable
       THEN wire' = [wire EXCEPT !.committed = TRUE] /\ Goto("STREAM") /\ ResetBody
       ELSE /\ UNCHANGED <<wire, beat>>
            /\ call' = [call EXCEPT !.step = IF wire.committed THEN "CLOSE" ELSE "FAIL",
                                    !.final = "CANCELLED_POST_UPSTREAM"]
    /\ UNCHANGED <<shop, client, bill>>

\* A frame is decoded, which may report usage or be the last, and written.
Frame ==
    /\ call.step = "STREAM" /\ Writable /\ call.frames < MaxFrames /\ ~call.terminal
    /\ wire' = SentBytes(wire, "FRAME")
    /\ \E reported, terminal \in BOOLEAN :
          call' = [call EXCEPT !.frames = @ + 1, !.reported = @ \/ reported,
                               !.terminal = terminal]
    /\ ResetBody /\ UNCHANGED <<shop, client, bill>>
\* The stream ends after its terminal event, with the frames the conversion holds.
EndStream ==
    /\ call.step = "STREAM" /\ call.terminal /\ Writable
    /\ wire' = SentBytes(wire, "END")
    /\ call' = [call EXCEPT !.step = "CLOSE", !.final = "SUCCESS"]
    /\ ResetBody /\ UNCHANGED <<shop, client, bill>>
\* The context ended, the upstream broke off or sent an error, its usage counted,
\* or the end came before the terminal event.
BreakStream ==
    /\ call.step = "STREAM"
    /\ \E reported \in BOOLEAN :
          call' = [Interrupted(wire) EXCEPT !.reported = @ \/ reported]
    /\ UNCHANGED <<shop, wire, beat, client, bill>>
-----------------------------------------------------------------------------
(* Settlement: deferred, it survives the client. *)

Settle ==
    LET due == call.final = "SUCCESS" \/ call.reported
        cost == IF due THEN call.quote ELSE 0
    IN  /\ call.step = "SETTLE"
        /\ bill' = [state |-> "SETTLED", cost |-> cost]
        /\ shop' = [shop EXCEPT !.key.used = IF shop.key.live THEN @ + cost ELSE @]
        /\ Goto("DONE")
        /\ UNCHANGED <<wire, beat, client>>
\* The price or the database fails: the charge is only logged as lost.
SettleFails ==
    /\ call.step = "SETTLE"
    /\ bill' = [bill EXCEPT !.state = "LOST"] /\ Goto("DONE")
    /\ UNCHANGED <<shop, wire, beat, client>>
-----------------------------------------------------------------------------
(* The world around the request: changes that the handler can still see. *)

ClientEnds ==
    /\ call.step \notin {"REFUSED", "DONE"}
    /\ client = "LIVE" /\ client' \in {"GONE", "LATE"}
    /\ UNCHANGED <<shop, call, wire, beat, bill>>
\* saveOpsChannel, changeOpsChannel, patchOpsChannel
ChangeChannels ==
    /\ call.step \in {"NEW", "SEND"}
    /\ \E c \in Channels :
          shop' \in {[shop EXCEPT !.enabled = @ \cup {c}], [shop EXCEPT !.enabled = @ \ {c}]}
    /\ UNCHANGED <<call, wire, beat, client, bill>>
\* saveOpsGroup changes the ratio of a quote.
ChangePrice ==
    /\ call.step \in {"NEW", "SEND"} /\ shop.price < MaxPrice
    /\ shop' = [shop EXCEPT !.price = @ + 1]
    /\ UNCHANGED <<call, wire, beat, client, bill>>
\* SaveAPIKey, with a quota counted from what was used, and DeleteAPIKey.
ChangeKey ==
    /\ call.step \in {"NEW", "SEND", "SETTLE"} /\ shop.key.live
    /\ \/ shop' = [shop EXCEPT !.key.live = FALSE]
       \/ \E quota \in {0, 1} : shop' = [shop EXCEPT !.key.limit = shop.key.used + quota]
    /\ UNCHANGED <<call, wire, beat, client, bill>>

RelayNext ==
    \/ AdmitRequest \/ Refuse \/ Retry \/ GiveUp \/ Answered
    \/ BeatDue \/ Heartbeat \/ BeatEnds \/ FailReply \/ Join \/ Close
    \/ Body \/ Headers \/ Frame \/ EndStream \/ BreakStream
    \/ Settle \/ SettleFails
    \/ ClientEnds \/ ChangeChannels \/ ChangePrice \/ ChangeKey

RelaySpec == RelayInit /\ [][RelayNext]_relayVars
-----------------------------------------------------------------------------
Endings == {i \in 1..Len(wire.sent) : wire.sent[i] \in {"ERROR", "END"}}
\* A client that stays gets exactly one ending, which nothing follows, also when the
\* heartbeat has already sent the status; a reply is settled as a success when it
\* was delivered to its end; and usage that was reported is charged once, at the
\* price of the admission, although the reply broke off, channels were retried, or
\* the key was deleted meanwhile.
RelayAccounts ==
    /\ Cardinality(Endings) <= 1
    /\ \A i \in Endings : i = Len(wire.sent)
    /\ call.step = "DONE" =>
          /\ client = "LIVE" => Endings # {}
          /\ call.final = "SUCCESS" => wire.sent[Len(wire.sent)] = "END"
          /\ bill.state = "SETTLED" =>
                bill.cost = IF call.reported \/ call.final = "SUCCESS" THEN call.admitted ELSE 0
=============================================================================
