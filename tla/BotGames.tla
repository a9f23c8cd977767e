------------------------------ MODULE BotGames -------------------------------
(***************************************************************************)
(* The Discord bot's way to the single-player games, internal/botgames:    *)
(* a quote signed for a commitment or an unfinished ticket, the confirmed  *)
(* play of the quote and the lookup after a lost answer.  A call reads the *)
(* round of its key, looks at the clock, and only then starts the          *)
(* transaction of Create: other calls and the website come between.        *)
(***************************************************************************)
EXTENDS Rounds

CONSTANT BotCalls   \* requests the HTTP server handles at a time

VARIABLES
    quotes,         \* signed quotes, [req, kind, nonce]
    overdue,        \* quotes whose two minutes are over
    calls           \* the calls being served

botVars == <<quotes, overdue, calls>>

BotQuote == [req : BotRequests, kind : {"PURCHASE", "RESUME"}, nonce : Nonces]
NoCall == [stage |-> "NONE"]

BotInit == quotes = {} /\ overdue = {} /\ calls = [c \in BotCalls |-> NoCall]

\* A quote for the commitment that a bootstrap found or published, for a wager
\* within the limits the bot shows.
QuotePurchase(req) ==
    /\ gate = "PLAY" /\ ~Resumes
    /\ seeds' \in nextCommitment(terms)
    /\ Bet <= BotLimit(game, bank, policy)
    /\ quotes' = quotes \cup {[req |-> req, kind |-> "PURCHASE", nonce |-> Len(seeds')]}
    /\ UNCHANGED <<game, policy, gate, terms, plays, bank, overdue, calls>>
Prepare(req) == game = "dice" /\ QuotePurchase(req)
PrepareSlot(req) == game = "slot" /\ QuotePurchase(req)
PrepareSummon(req) == game = "summon" /\ QuotePurchase(req)
\* An unfinished ticket is quoted instead, in maintenance too.
PrepareScratch(req) ==
    /\ game = "scratch"
    /\ \/ QuotePurchase(req)
       \/ /\ Resumes
          /\ quotes' = quotes \cup {[req |-> req, kind |-> "RESUME", nonce |-> latestRound]}
          /\ UNCHANGED <<roundVars, overdue, calls>>

Expire(q) ==
    /\ q \in quotes \ overdue
    /\ overdue' = overdue \cup {q}
    /\ UNCHANGED <<roundVars, quotes, calls>>

\* verifySummonQuote and its likes: a signature over the decoded fields that the
\* service made.
Verified(q) == q \in quotes
Original(q) == IF q.kind = "RESUME" THEN {q.nonce} ELSE FindByKey(q.req)
At(stage, q) == [stage |-> stage, quote |-> q]

\* Play and Lookup of a verified quote read the round of its key.  An absent one is
\* NOT_FOUND for a lookup, and is made by a play if the quote has not expired by now.
FindOriginal(c, q, create) ==
    LET found == Original(q)
        refused == ~create \/ q \in overdue
    IN  /\ Verified(q) /\ calls[c] = NoCall
        /\ calls' = [calls EXCEPT ![c] =
              IF found = {} THEN (IF refused THEN NoCall ELSE At("CREATES", q))
              ELSE IF \E n \in found : plays[n].open THEN At("SHOWS", q) ELSE NoCall]
        /\ UNCHANGED <<roundVars, quotes, overdue>>

result(c, q, create) == game = "dice" /\ FindOriginal(c, q, create)
slotResult(c, q, create) == game = "slot" /\ FindOriginal(c, q, create)
summonResult(c, q, create) == game = "summon" /\ FindOriginal(c, q, create)
scratchResult(c, q, create) == game = "scratch" /\ FindOriginal(c, q, create)

\* Mutant: the purchase takes the commitment that is published now.
PurchaseLatest(c) ==
    LET q == calls[c].quote
    IN  /\ calls[c].stage = "CREATES"
        /\ \/ FindByKey(q.req) # {} /\ UNCHANGED roundVars
           \/ \E n \in Nonces : Create(n, q.req)
        /\ calls' = [calls EXCEPT ![c] = IF game = "scratch" THEN At("SHOWS", q) ELSE NoCall]
        /\ UNCHANGED <<quotes, overdue>>
\* Create arbitrates by the key; a round that exists by now is the answer.
Purchase(c) ==
    LET q == calls[c].quote
    IN  /\ calls[c].stage = "CREATES"
        /\ \/ FindByKey(q.req) # {} /\ UNCHANGED roundVars
           \/ Create(q.nonce, q.req)
        /\ calls' = [calls EXCEPT ![c] = IF game = "scratch" THEN At("SHOWS", q) ELSE NoCall]
        /\ UNCHANGED <<quotes, overdue>>

\* The presentation of a scratch ticket is completed in its own transaction; the
\* quote to resume a ticket proves no confirmation once it has expired.
Present(c) ==
    LET q == calls[c].quote
    IN  /\ calls[c].stage = "SHOWS"
        /\ \E n \in Original(q) :
              IF plays[n].open /\ ~(q.kind = "RESUME" /\ q \in overdue) THEN RevealComplete(n)
              ELSE UNCHANGED roundVars
        /\ calls' = [calls EXCEPT ![c] = NoCall]
        /\ UNCHANGED <<quotes, overdue>>

\* A refusal, an error or a crash ends the call.
Drop(c) ==
    /\ calls[c] # NoCall /\ calls' = [calls EXCEPT ![c] = NoCall]
    /\ UNCHANGED <<roundVars, quotes, overdue>>

BotNext ==
    \/ \E req \in BotRequests :
          Prepare(req) \/ PrepareSlot(req) \/ PrepareSummon(req) \/ PrepareScratch(req)
    \/ \E q \in BotQuote : Expire(q)
    \/ \E c \in BotCalls : Purchase(c) \/ Present(c) \/ Drop(c)
    \/ \E c \in BotCalls, q \in BotQuote, create \in BOOLEAN :
          \/ result(c, q, create) \/ slotResult(c, q, create)
          \/ summonResult(c, q, create) \/ scratchResult(c, q, create)

\* The website plays on beside the bot.
BotGamesSpec ==
    RoundInit /\ BotInit
    /\ [][BotNext \/ (RoundNext /\ UNCHANGED botVars)]_<<roundVars, botVars>>

\* However often a confirmation is sent, looked up or raced by the website, a request
\* buys one round, and with a commitment the user was shown for that request.
BotPlaysWhatWasShown ==
    \A req \in BotRequests :
        /\ Cardinality(FindByKey(req)) <= 1
        /\ \A n \in FindByKey(req) : [req |-> req, kind |-> "PURCHASE", nonce |-> n] \in quotes
=============================================================================
