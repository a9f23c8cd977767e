----------------------------- MODULE BotRoulette -----------------------------
(***************************************************************************)
(* The bot's side of the roulette rooms, internal/botroulette with         *)
(* roulette/bot_command.go: signed quotes, the commit of what a quote      *)
(* shows, and the lookup a bot makes when an answer is lost.  A transaction *)
(* is split where another one can come between: waiting for the lock of an *)
(* (account, key), the read under it, and the work.  A request id carries  *)
(* its own expiry; the process and the database each have a clock.         *)
(***************************************************************************)
EXTENDS Integers, FiniteSets

CONSTANTS
    Requests,       \* request ids of one Discord subject
    Accounts,       \* accounts the subject is bound to, one after another
    Calls           \* requests the HTTP server handles at a time

VARIABLES
    bound,          \* account the resolver answers for the subject
    quotes,         \* quotes the service has signed, [req, account]
    stale,          \* clocks on which a request id has expired
    calls,          \* the calls being served
    receipts,       \* roulette.command_receipts, [req, account]
    answers         \* what bots were told by lookups, [req, account, status]

botVars == <<bound, quotes, stale, calls, receipts, answers>>

Quote == [req : Requests, account : Accounts]
NoCall == [stage |-> "NONE"]

BotInit ==
    /\ bound \in Accounts
    /\ quotes = {} /\ receipts = {} /\ answers = {}
    /\ stale = [q \in Requests |-> {}]
    /\ calls = [c \in Calls |-> NoCall]

\* quoteTimes: the two minutes of a request id pass, on one clock before the other.
Expire(q, clock) ==
    /\ clock \notin stale[q]
    /\ stale' = [stale EXCEPT ![q] = @ \cup {clock}]
    /\ UNCHANGED <<bound, quotes, calls, receipts, answers>>
Rebind(a) ==
    /\ a # bound /\ bound' = a
    /\ UNCHANGED <<quotes, stale, calls, receipts, answers>>

\* Prepare: after checkCreate or checkCommand, which only read, an unexpired
\* request is signed with the binding of the account it was resolved to.
Prepare(q) ==
    /\ "process" \notin stale[q]
    /\ quotes' = quotes \cup {[req |-> q, account |-> bound]}
    /\ UNCHANGED <<bound, stale, calls, receipts, answers>>

\* authenticate: the binding of the quote is that of the account of today.
authenticate(quote) == quote \in quotes /\ quote.account = bound

Begin(c, quote, op) ==
    /\ calls[c] = NoCall /\ authenticate(quote)
    /\ calls' = [calls EXCEPT ![c] = [stage |-> "WAITS", op |-> op, quote |-> quote]]
    /\ UNCHANGED <<bound, quotes, stale, receipts, answers>>
Commit(c, quote) == Begin(c, quote, "COMMIT")
Lookup(c, quote) == Begin(c, quote, "LOOKUP")

Holds(c) == calls[c].stage \in {"LOCKED", "WORKS"}

\* Mutant: the lookup does not wait for the transaction of a commit.
lockCommandShared(c) ==
    /\ calls[c].stage = "WAITS"
    /\ calls[c].op = "LOOKUP" \/ \A d \in Calls : Holds(d) => calls[d].quote # calls[c].quote
    /\ calls' = [calls EXCEPT ![c].stage = "LOCKED"]
    /\ UNCHANGED <<bound, quotes, stale, receipts, answers>>
\* lockCommand: an advisory lock on the account and the key made from the request.
lockCommand(c) ==
    /\ calls[c].stage = "WAITS"
    /\ \A d \in Calls : Holds(d) => calls[d].quote # calls[c].quote
    /\ calls' = [calls EXCEPT ![c].stage = "LOCKED"]
    /\ UNCHANGED <<bound, quotes, stale, receipts, answers>>

\* readReceipt, then checkBotExpiry on the database clock under the lock.
checkBotExpiry(c) ==
    LET quote == calls[c].quote
        replay == quote \in receipts \/ "db" \in stale[quote.req]
    IN  /\ calls[c].stage = "LOCKED" /\ calls[c].op = "COMMIT"
        /\ calls' = [calls EXCEPT ![c] = IF replay THEN NoCall ELSE [@ EXCEPT !.stage = "WORKS"]]
        /\ UNCHANGED <<bound, quotes, stale, receipts, answers>>

\* FindReceiptMatching answers under the same lock.
FindReceiptMatching(c) ==
    LET quote == calls[c].quote
        status == IF quote \in receipts THEN "APPLIED"
                  ELSE IF "db" \in stale[quote.req] THEN "ABSENT_FINAL" ELSE "UNKNOWN"
    IN  /\ calls[c].stage = "LOCKED" /\ calls[c].op = "LOOKUP"
        /\ answers' = answers \cup {[req |-> quote.req, account |-> quote.account, status |-> status]}
        /\ calls' = [calls EXCEPT ![c] = NoCall]
        /\ UNCHANGED <<bound, quotes, stale, receipts>>

\* The command is carried out and its receipt written in one commit.
writeReceipt(c) ==
    /\ calls[c].stage = "WORKS"
    /\ receipts' = receipts \cup {calls[c].quote}
    /\ calls' = [calls EXCEPT ![c] = NoCall]
    /\ UNCHANGED <<bound, quotes, stale, answers>>

\* A refusal, an error or a lost connection: the transaction rolls back, and a
\* lookup that fails so is answered UNKNOWN.
Fails(c) ==
    /\ calls[c] # NoCall
    /\ calls' = [calls EXCEPT ![c] = NoCall]
    /\ answers' = IF calls[c].op = "COMMIT" THEN answers
                  ELSE answers \cup {[req |-> calls[c].quote.req, account |-> calls[c].quote.account,
                                      status |-> "UNKNOWN"]}
    /\ UNCHANGED <<bound, quotes, stale, receipts>>

CallStep(c) ==
    lockCommand(c) \/ checkBotExpiry(c) \/ FindReceiptMatching(c) \/ writeReceipt(c) \/ Fails(c)

BotNext ==
    \/ \E q \in Requests : Prepare(q) \/ \E clock \in {"process", "db"} : Expire(q, clock)
    \/ \E a \in Accounts : Rebind(a)
    \/ \E c \in Calls : CallStep(c) \/ \E quote \in Quote : Commit(c, quote) \/ Lookup(c, quote)

BotSpec == BotInit /\ [][BotNext]_botVars

\* A bot that was told ABSENT_FINAL may tell its user that nothing happened: no
\* commit of that request, however delayed, is ever applied for the account.
AbsentFinal ==
    \A a \in answers : a.status = "ABSENT_FINAL" => [req |-> a.req, account |-> a.account] \notin receipts
=============================================================================
