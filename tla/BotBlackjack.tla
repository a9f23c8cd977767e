----------------------------- MODULE BotBlackjack -----------------------------
(***************************************************************************)
(* Blackjack through the Discord bot (internal/botgames/blackjack_*.go)    *)
(* over the actions of internal/games/blackjack_service.go.  What the user *)
(* sees is signed: a quote of a deal, or a snapshot of a round with its    *)
(* version, active hand and stake.  A confirmation sends it back, perhaps  *)
(* late, twice, or after the website moved on; after a lost answer the     *)
(* original operation is looked up.  A call is several transactions under  *)
(* the lock of the player and the game, with others in between.            *)
(*                                                                         *)
(* Cards are left out: a move passes the turn or not.  Every stake is one  *)
(* wager.  The id of a bot's move is its interaction.                      *)
(***************************************************************************)
EXTENDS Naturals, Sequences, FiniteSets

CONSTANTS Interactions,  \* Discord interactions, the request ids
          MoveTypes,     \* of HIT, STAND, DOUBLE and SPLIT
          TapCalls,      \* requests the server handles at a time
          MaxDeals,      \* bound on the rounds
          MaxMove        \* bound on the version of a round
ASSUME TapAssumption ==
    /\ MoveTypes \subseteq {"HIT", "STAND", "DOUBLE", "SPLIT"}
    /\ MaxDeals \in Nat /\ MaxMove \in Nat
    /\ Interactions \cap ({"WEB"} \cup ({"WEB"} \X (1..MaxDeals) \X (1..MaxMove))) = {}

VARIABLES deals,         \* the rounds of the player, in order
          moves,         \* games.round_actions
          shown,         \* the quotes and snapshots that were signed
          tap            \* the calls
tapVars == <<deals, moves, shown, tap>>

Added(type) == IF type \in {"DOUBLE", "SPLIT"} THEN 1 ELSE 0
NoTap == [stage |-> "NONE"]
BlackjackInit ==
    deals = <<>> /\ moves = {} /\ shown = {} /\ tap = [c \in TapCalls |-> NoTap]

OpenDeal == deals # <<>> /\ deals[Len(deals)].hand # 0
FindByKey(key) == {n \in DOMAIN deals : deals[n].key = key}
\* signBlackjackQuote: kinds DEAL and ROUND.
DealQuote(i) == [kind |-> "DEAL", request |-> i, round |-> Len(deals) + 1]
\* projectBlackjackRound signs what it shows.
RoundSnapshot(n) ==
    [kind |-> "ROUND", round |-> n, version |-> deals[n].version, hand |-> deals[n].hand,
     stake |-> deals[n].stake]
-----------------------------------------------------------------------------
(* Rounds. *)

\* createBlackjack, with the commitment of the round that is next.  A natural
\* settles at once.
DealRound(key, commitment) ==
    /\ ~OpenDeal /\ Len(deals) < MaxDeals /\ commitment = Len(deals) + 1
    /\ \E hand \in {0, 1} :
          deals' = Append(deals, [key |-> key, version |-> 1, hand |-> hand, hands |-> 1,
                                  stake |-> 1])

\* bj.Apply: what a move makes of a round.
HandPassed(r) == [r EXCEPT !.hand = IF r.hand < r.hands THEN @ + 1 ELSE 0]
Settled(r) == [r EXCEPT !.hand = 0]
AfterMove(r, type) ==
    LET s == [r EXCEPT !.version = @ + 1, !.stake = @ + Added(type),
                       !.hands = IF type = "SPLIT" THEN @ + 1 ELSE @]
    IN  CASE type = "HIT" -> {s, HandPassed(s)}
          [] type = "SPLIT" -> {s, HandPassed(s), Settled(s)}
          [] OTHER -> {HandPassed(s)}
MoveOf(id, type, quote) ==
    [id |-> id, type |-> type, round |-> quote.round, version |-> quote.version,
     hand |-> quote.hand]

\* Mutant: the version of the request is not compared.
asShownHand(quote) == deals[quote.round].hand = quote.hand
\* The round is still as it was shown.
asShown(quote) ==
    deals[quote.round].version = quote.version /\ deals[quote.round].hand = quote.hand
\* BlackjackAction without a row of its id: checked, applied and recorded at once.
Applies(id, type, quote) ==
    /\ asShown(quote) /\ deals[quote.round].hand # 0 /\ deals[quote.round].version < MaxMove
    /\ \E r \in AfterMove(deals[quote.round], type) :
          /\ deals' = [deals EXCEPT ![quote.round] = r]
          /\ moves' = moves \cup {[request |-> MoveOf(id, type, quote),
                                   at |-> deals[quote.round].version,
                                   added |-> r.stake - deals[quote.round].stake]}
ById(id) == {m \in moves : m.request.id = id}

\* The website deals and moves, and the job stands the hands of an idle player.
WebDeal == DealRound("WEB", Len(deals) + 1) /\ UNCHANGED <<moves, shown, tap>>
WebMove(type) ==
    /\ OpenDeal /\ Applies(<<"WEB", Len(deals), deals[Len(deals)].version>>, type, RoundSnapshot(Len(deals)))
    /\ UNCHANGED <<shown, tap>>
AutoResolve ==
    /\ OpenDeal /\ deals[Len(deals)].version < MaxMove
    /\ LET r == deals[Len(deals)]
       IN  deals' = [deals EXCEPT ![Len(deals)] =
                        Settled([r EXCEPT !.version = @ + 1 + r.hands - r.hand])]
    /\ UNCHANGED <<moves, shown, tap>>
-----------------------------------------------------------------------------
(* Calls of the bot. *)

\* PrepareBlackjack shows the open round, or a deal.
PrepareBlackjack(i) ==
    /\ shown' = shown \cup {IF OpenDeal THEN RoundSnapshot(Len(deals)) ELSE DealQuote(i)}
    /\ UNCHANGED <<deals, moves, tap>>
StateBlackjack(q) ==
    /\ q \in shown /\ q.kind = "ROUND" /\ shown' = shown \cup {RoundSnapshot(q.round)}
    /\ UNCHANGED <<deals, moves, tap>>

\* bindBlackjack: a call names a signed quote; a move needs an active hand.
PlayBlackjack(c, q, write) ==
    /\ tap[c] = NoTap /\ q \in shown /\ q.kind = "DEAL"
    /\ tap' = [tap EXCEPT ![c] = [stage |-> "FIND", write |-> write, quote |-> q, type |-> "DEAL",
                                  id |-> q.request, round |-> 0]]
    /\ UNCHANGED <<deals, moves, shown>>
ActBlackjack(c, q, i, type, write) ==
    /\ tap[c] = NoTap /\ q \in shown /\ q.kind = "ROUND" /\ q.hand # 0
    /\ tap' = [tap EXCEPT ![c] = [stage |-> "FIND", write |-> write, quote |-> q, type |-> type,
                                  id |-> i, round |-> 0]]
    /\ UNCHANGED <<deals, moves, shown>>

\* A call goes on, or has answered.
Goes(c, stage, round) ==
    tap' = [tap EXCEPT ![c] = IF stage = "NONE" THEN NoTap
                              ELSE [@ EXCEPT !.stage = stage, !.round = round]]
\* Nothing is found, which ends a lookup; a write goes on if the clock does not say
\* that the two minutes of the quote are over.
Absent(c) == IF tap[c].write THEN {"NONE", "WRITE"} ELSE {"NONE"}
\* FindByKey of a deal.
FindDeal(c) ==
    /\ tap[c].stage = "FIND" /\ tap[c].type = "DEAL"
    /\ \/ FindByKey(tap[c].id) = {} /\ \E stage \in Absent(c) : Goes(c, stage, 0)
       \/ \E n \in FindByKey(tap[c].id) : Goes(c, "READ", n)
    /\ UNCHANGED <<deals, moves, shown>>
\* Create answers with the round of the key, or makes it; another open round refuses.
CreateDeal(c) ==
    /\ tap[c].stage = "WRITE" /\ tap[c].type = "DEAL"
    /\ \/ \E n \in FindByKey(tap[c].id) : Goes(c, "READ", n) /\ UNCHANGED deals
       \/ /\ FindByKey(tap[c].id) = {} /\ DealRound(tap[c].id, tap[c].quote.round)
          /\ Goes(c, "READ", Len(deals) + 1)
       \/ /\ FindByKey(tap[c].id) = {} /\ (OpenDeal \/ tap[c].quote.round # Len(deals) + 1)
          /\ Goes(c, "REFUSED", 0) /\ UNCHANGED deals
    /\ UNCHANGED <<moves, shown>>

\* FindBlackjackActionMatching: the row of the id, which must be of this request.
MoveRequest(c) == MoveOf(tap[c].id, tap[c].type, tap[c].quote)
Matches(c) == \E m \in ById(tap[c].id) : m.request = MoveRequest(c)
FindMove(c) ==
    /\ tap[c].stage = "FIND" /\ tap[c].type # "DEAL"
    /\ \E stage \in IF Matches(c) THEN {"READ"} ELSE IF ById(tap[c].id) # {} THEN {"CONFLICT"}
                    ELSE Absent(c) : Goes(c, stage, tap[c].quote.round)
    /\ UNCHANGED <<deals, moves, shown>>
WriteMove(c) ==
    /\ tap[c].stage = "WRITE" /\ tap[c].type # "DEAL"
    /\ \/ /\ ById(tap[c].id) # {}
          /\ Goes(c, IF Matches(c) THEN "READ" ELSE "CONFLICT", tap[c].quote.round)
          /\ UNCHANGED <<deals, moves>>
       \/ /\ ById(tap[c].id) = {} /\ Applies(tap[c].id, tap[c].type, tap[c].quote)
          /\ Goes(c, "READ", tap[c].quote.round)
       \/ /\ ById(tap[c].id) = {} /\ ~asShown(tap[c].quote)
          /\ Goes(c, "REFUSED", tap[c].quote.round) /\ UNCHANGED <<deals, moves>>
    /\ UNCHANGED <<shown>>
\* readBlackjackRound: the answer shows the round as it is now.
ReadCurrent(c) ==
    /\ tap[c].stage = "READ" /\ Goes(c, "DONE", tap[c].round)
    /\ shown' = shown \cup {RoundSnapshot(tap[c].round)}
    /\ UNCHANGED <<deals, moves>>
\* The answer arrives; or it is lost, at any point.
TapAnswered(c) ==
    /\ tap[c] # NoTap /\ tap' = [tap EXCEPT ![c] = NoTap]
    /\ UNCHANGED <<deals, moves, shown>>

BlackjackNext ==
    \/ WebDeal \/ AutoResolve \/ \E type \in MoveTypes : WebMove(type)
    \/ \E i \in Interactions : PrepareBlackjack(i)
    \/ \E q \in shown : StateBlackjack(q)
    \/ \E c \in TapCalls :
          \/ \E q \in shown, write \in BOOLEAN :
                \/ PlayBlackjack(c, q, write)
                \/ \E i \in Interactions, type \in MoveTypes : ActBlackjack(c, q, i, type, write)
          \/ FindDeal(c) \/ CreateDeal(c) \/ FindMove(c) \/ WriteMove(c)
          \/ ReadCurrent(c) \/ TapAnswered(c)

BlackjackSpec == BlackjackInit /\ [][BlackjackNext]_tapVars
-----------------------------------------------------------------------------
\* A confirmation does what its message showed or nothing, and once: an interaction
\* deals at most one round and makes at most one move, of the round, version and hand
\* it was shown and for the stake it was shown, however often it is sent while the
\* website plays on.  An answer that it was done is about that very move and not about
\* a later one, and a request told that it is stale or conflicts never happens.
BotMovesAsShown ==
    /\ \A i \in Interactions :
          /\ Cardinality(FindByKey(i)) <= 1 /\ Cardinality(ById(i)) <= 1
          /\ \A m \in ById(i) :
                /\ m.at = m.request.version /\ m.added = Added(m.request.type)
                /\ \E q \in shown : q.kind = "ROUND" /\ MoveOf(i, m.request.type, q) = m.request
    /\ \A n \in DOMAIN deals :
          deals[n].stake = 1 + Cardinality({m \in moves : m.request.round = n /\ m.added = 1})
    /\ \A c \in TapCalls : tap[c] # NoTap /\ tap[c].type # "DEAL" =>
          /\ tap[c].stage = "DONE" =>
                Matches(c) /\ deals[tap[c].round].version > tap[c].quote.version
          /\ tap[c].stage \in {"REFUSED", "CONFLICT"} => ~Matches(c)
=============================================================================
