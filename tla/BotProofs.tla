------------------------------ MODULE BotProofs ------------------------------
(***************************************************************************)
(* Theorems about the confirmations of the Discord bot: BotRoulette and    *)
(* BotBlackjack, for any number of requests, interactions and calls.       *)
(***************************************************************************)
EXTENDS BotRoulette, BotBlackjack, FiniteSetTheorems, TLAPS

(***************************************************************************)
(* Roulette: a request that a lookup calls finally absent stays absent.    *)
(***************************************************************************)
Call == [stage : {"WAITS", "LOCKED", "WORKS"}, op : {"COMMIT", "LOOKUP"}, quote : Quote]
Answer == [req : Requests, account : Accounts, status : {"APPLIED", "ABSENT_FINAL", "UNKNOWN"}]

BotTypeOK ==
    /\ calls \in [Calls -> Call \cup {NoCall}]
    /\ stale \in [Requests -> SUBSET {"process", "db"}]
    /\ receipts \subseteq Quote /\ answers \subseteq Answer

\* The advisory lock of an (account, key) has one holder.
OneHolder ==
    \A c, d \in Calls : Holds(c) /\ Holds(d) /\ calls[c].quote = calls[d].quote => c = d

\* A final answer is given on an expired request, whose commits are over.
FinalAnswers ==
    \A a \in answers : a.status = "ABSENT_FINAL" =>
        LET quote == [req |-> a.req, account |-> a.account]
        IN  /\ "db" \in stale[a.req] /\ quote \notin receipts
            /\ \A c \in Calls : calls[c].stage = "WORKS" => calls[c].quote # quote

BotInv == BotTypeOK /\ OneHolder /\ FinalAnswers

\* At first nothing was quoted, called or committed.
LEMMA BotInitially == BotInit => BotInv
  BY DEF BotInit, BotInv, BotTypeOK, OneHolder, FinalAnswers, Holds, NoCall

\* A call that does not exist is at no stage.
LEMMA NoCallIdle == NoCall.stage = "NONE" /\ NoCall \notin Call
  BY DEF NoCall, Call

\* A call ends, or moves to another stage of the same request.
LEMMA CallMoves ==
    ASSUME BotTypeOK, NEW c \in Calls, NEW x \in Call \cup {NoCall},
           calls' = [calls EXCEPT ![c] = x]
    PROVE  /\ calls' \in [Calls -> Call \cup {NoCall}] /\ calls'[c] = x
           /\ \A d \in Calls : d # c => calls'[d] = calls[d]
  BY DEF BotTypeOK

\* Every step of the bot, of roulette and of the account keeps BotInv.
LEMMA BotStep == BotInv /\ [BotNext]_botVars => BotInv'
  <1> SUFFICES ASSUME BotInv, [BotNext]_botVars PROVE BotInv'
    OBVIOUS
  <1> USE NoCallIdle DEF BotInv
  <1>1. CASE UNCHANGED botVars
    BY <1>1 DEF botVars, BotTypeOK, OneHolder, FinalAnswers, Holds
  <1>2. ASSUME NEW q \in Requests, NEW clock \in {"process", "db"}, Expire(q, clock) PROVE BotInv'
    <2>1. BotTypeOK'
      BY <1>2 DEF Expire, BotTypeOK
    <2>2. OneHolder'
      BY <1>2 DEF Expire, OneHolder, Holds
    <2>3. FinalAnswers'
      BY <1>2 DEF Expire, FinalAnswers, BotTypeOK, Answer
    <2>4. QED
      BY <2>1, <2>2, <2>3
  <1>3. ASSUME NEW a \in Accounts, Rebind(a) PROVE BotInv'
    BY <1>3 DEF Rebind, BotTypeOK, OneHolder, FinalAnswers, Holds
  <1>4. ASSUME NEW q \in Requests, Prepare(q) PROVE BotInv'
    BY <1>4 DEF Prepare, BotTypeOK, OneHolder, FinalAnswers, Holds
  <1>5. ASSUME NEW c \in Calls, NEW quote \in Quote, NEW op \in {"COMMIT", "LOOKUP"}, Begin(c, quote, op)
        PROVE  BotInv'
    <2> DEFINE x == [stage |-> "WAITS", op |-> op, quote |-> quote]
    <2>1. x \in Call /\ calls' = [calls EXCEPT ![c] = x] /\ UNCHANGED <<stale, receipts, answers>>
      BY <1>5 DEF Begin, Call
    <2>2. /\ calls' \in [Calls -> Call \cup {NoCall}] /\ calls'[c].stage = "WAITS"
          /\ \A d \in Calls : d # c => calls'[d] = calls[d]
      BY <2>1, CallMoves
    <2> HIDE DEF x
    <2>3. QED
      BY <2>1, <2>2 DEF BotTypeOK, OneHolder, FinalAnswers, Holds
  <1>6. ASSUME NEW c \in Calls, lockCommand(c) PROVE BotInv'
    <2> DEFINE x == [calls[c] EXCEPT !.stage = "LOCKED"]
    <2>1. calls' = [calls EXCEPT ![c] = x] /\ UNCHANGED <<stale, receipts, answers>> /\ calls[c] \in Call
      BY <1>6 DEF lockCommand, BotTypeOK
    <2>2. x \in Call /\ x.stage = "LOCKED" /\ x.quote = calls[c].quote
      BY <2>1 DEF Call
    <2> HIDE DEF x
    <2>3. /\ calls' \in [Calls -> Call \cup {NoCall}] /\ calls'[c].stage = "LOCKED"
          /\ calls'[c].quote = calls[c].quote
          /\ \A d \in Calls : d # c => calls'[d] = calls[d]
      BY <2>1, <2>2, CallMoves
    <2>4. OneHolder'
      BY <1>6, <2>3 DEF lockCommand, OneHolder, Holds
    <2>5. QED
      BY <2>1, <2>3, <2>4 DEF BotTypeOK, FinalAnswers
  <1>7. ASSUME NEW c \in Calls, checkBotExpiry(c) PROVE BotInv'
    <2>1. UNCHANGED <<stale, receipts, answers>> /\ calls[c] \in Call /\ calls[c].stage = "LOCKED"
      BY <1>7 DEF checkBotExpiry, BotTypeOK
    <2>2. CASE calls' = [calls EXCEPT ![c] = NoCall]
      <3>1. /\ calls' \in [Calls -> Call \cup {NoCall}] /\ calls'[c] = NoCall
            /\ \A d \in Calls : d # c => calls'[d] = calls[d]
        BY <2>2, CallMoves
      <3>2. QED
        BY <2>1, <3>1 DEF BotTypeOK, OneHolder, FinalAnswers, Holds
    <2>3. CASE /\ calls' = [calls EXCEPT ![c] = [calls[c] EXCEPT !.stage = "WORKS"]]
               /\ calls[c].quote \notin receipts /\ "db" \notin stale[calls[c].quote.req]
      <3> DEFINE x == [calls[c] EXCEPT !.stage = "WORKS"]
      <3>1. x \in Call /\ x.stage = "WORKS" /\ x.quote = calls[c].quote
        BY <2>1 DEF Call
      <3> HIDE DEF x
      <3>2. /\ calls' \in [Calls -> Call \cup {NoCall}] /\ calls'[c].stage = "WORKS"
            /\ calls'[c].quote = calls[c].quote
            /\ \A d \in Calls : d # c => calls'[d] = calls[d]
        BY <2>3, <3>1, CallMoves DEF x
      <3>3. OneHolder'
        BY <2>1, <3>2 DEF OneHolder, Holds
      <3>4. \A a \in answers : a.status = "ABSENT_FINAL" =>
               calls[c].quote # [req |-> a.req, account |-> a.account]
        <4> SUFFICES ASSUME NEW a \in answers, a.status = "ABSENT_FINAL",
                            calls[c].quote = [req |-> a.req, account |-> a.account]
                     PROVE  FALSE
          OBVIOUS
        <4>1. calls[c].quote.req = a.req
          OBVIOUS
        <4>2. "db" \in stale[a.req]
          BY DEF FinalAnswers
        <4>3. QED
          BY <2>3, <4>1, <4>2
      <3>5. QED
        BY <2>1, <3>2, <3>3, <3>4 DEF BotTypeOK, FinalAnswers
    <2>4. QED
      BY <1>7, <2>2, <2>3 DEF checkBotExpiry
  <1>8. ASSUME NEW c \in Calls, FindReceiptMatching(c) PROVE BotInv'
    <2> DEFINE quote == calls[c].quote
               status == IF quote \in receipts THEN "APPLIED"
                         ELSE IF "db" \in stale[quote.req] THEN "ABSENT_FINAL" ELSE "UNKNOWN"
               told == [req |-> quote.req, account |-> quote.account, status |-> status]
    <2>1. /\ UNCHANGED <<stale, receipts>> /\ calls[c] \in Call /\ calls[c].stage = "LOCKED"
          /\ calls' = [calls EXCEPT ![c] = NoCall] /\ answers' = answers \cup {told}
      BY <1>8 DEF FindReceiptMatching, BotTypeOK
    <2>2. /\ calls' \in [Calls -> Call \cup {NoCall}] /\ calls'[c] = NoCall
          /\ \A d \in Calls : d # c => calls'[d] = calls[d]
      BY <2>1, CallMoves
    <2>3. quote \in Quote /\ quote = [req |-> quote.req, account |-> quote.account]
      BY <2>1 DEF Call, Quote
    <2>4. told \in Answer /\ told.req = quote.req /\ told.account = quote.account
      BY <2>3 DEF Answer, Quote
    <2>5. told.status = "ABSENT_FINAL" => "db" \in stale[quote.req] /\ quote \notin receipts
      OBVIOUS
    <2>6. \A d \in Calls : calls'[d].stage = "WORKS" => calls'[d].quote # quote
      BY <2>1, <2>2 DEF OneHolder, Holds
    <2> HIDE DEF quote, status, told
    <2>7. FinalAnswers'
      <3> SUFFICES ASSUME NEW a \in answers', a.status = "ABSENT_FINAL"
                   PROVE  /\ "db" \in stale[a.req] /\ [req |-> a.req, account |-> a.account] \notin receipts
                          /\ \A d \in Calls : calls'[d].stage = "WORKS" =>
                                calls'[d].quote # [req |-> a.req, account |-> a.account]
        BY <2>1 DEF FinalAnswers
      <3>1. CASE a = told
        BY <2>3, <2>4, <2>5, <2>6, <3>1
      <3>2. CASE a \in answers
        BY <2>2, <3>2 DEF FinalAnswers
      <3>3. QED
        BY <2>1, <3>1, <3>2
    <2>8. BotTypeOK' /\ OneHolder'
      BY <2>1, <2>2, <2>4 DEF BotTypeOK, OneHolder, Holds
    <2>9. QED
      BY <2>7, <2>8
  <1>9. ASSUME NEW c \in Calls, writeReceipt(c) PROVE BotInv'
    <2>1. /\ UNCHANGED <<stale, answers>> /\ calls[c] \in Call /\ calls[c].stage = "WORKS"
          /\ calls' = [calls EXCEPT ![c] = NoCall] /\ receipts' = receipts \cup {calls[c].quote}
      BY <1>9 DEF writeReceipt, BotTypeOK
    <2>2. /\ calls' \in [Calls -> Call \cup {NoCall}] /\ calls'[c] = NoCall
          /\ \A d \in Calls : d # c => calls'[d] = calls[d]
      BY <2>1, CallMoves
    <2>3. BotTypeOK' /\ OneHolder'
      BY <2>1, <2>2 DEF BotTypeOK, OneHolder, Holds, Call
    <2>4. FinalAnswers'
      BY <2>1, <2>2 DEF FinalAnswers
    <2>5. QED
      BY <2>3, <2>4
  <1>10. ASSUME NEW c \in Calls, Fails(c) PROVE BotInv'
    <2> DEFINE told == [req |-> calls[c].quote.req, account |-> calls[c].quote.account, status |-> "UNKNOWN"]
    <2>1. /\ UNCHANGED <<stale, receipts>> /\ calls[c] \in Call
          /\ calls' = [calls EXCEPT ![c] = NoCall]
          /\ answers' = answers \/ answers' = answers \cup {told}
      BY <1>10 DEF Fails, BotTypeOK
    <2>2. /\ calls' \in [Calls -> Call \cup {NoCall}] /\ calls'[c] = NoCall
          /\ \A d \in Calls : d # c => calls'[d] = calls[d]
      BY <2>1, CallMoves
    <2>3. told \in Answer /\ told.status # "ABSENT_FINAL"
      BY <2>1 DEF Call, Quote, Answer
    <2> HIDE DEF told
    <2>4. BotTypeOK' /\ OneHolder'
      BY <2>1, <2>2, <2>3 DEF BotTypeOK, OneHolder, Holds
    <2>5. FinalAnswers'
      BY <2>1, <2>2, <2>3 DEF FinalAnswers
    <2>6. QED
      BY <2>4, <2>5
  <1>11. QED
    BY <1>1, <1>2, <1>3, <1>4, <1>5, <1>6, <1>7, <1>8, <1>9, <1>10 DEF BotNext, CallStep, Commit, Lookup

\* A bot that was told ABSENT_FINAL may say that nothing happened (FindReceiptMatching
\* under lockCommand): no commit of that request is ever applied, however delayed.
THEOREM AbsentFinalHolds == BotSpec => []AbsentFinal
  <1>1. BotInv => AbsentFinal
    BY DEF BotInv, FinalAnswers, AbsentFinal
  <1>2. QED
    BY BotInitially, BotStep, <1>1, PTL DEF BotSpec

(***************************************************************************)
(* Blackjack: a confirmation does what its message showed, once.           *)
(***************************************************************************)
Deal == [key : Interactions \cup {"WEB"}, version : Nat, hand : Nat, hands : Nat, stake : Nat]
Offer == [kind : {"DEAL"}, request : Interactions, round : Nat]
Snapshot == [kind : {"ROUND"}, round : Nat, version : Nat, hand : Nat, stake : Nat]
TapStages == {"FIND", "WRITE", "READ", "DONE", "REFUSED", "CONFLICT"}
Tap == [stage : TapStages, write : BOOLEAN, quote : Offer \cup Snapshot,
        type : MoveTypes \cup {"DEAL"}, id : Interactions, round : Nat]

\* The version of a round starts at 1, and its active hand is one of its hands.
DealsOK ==
    /\ deals \in Seq(Deal) /\ Len(deals) <= MaxDeals
    /\ \A n \in DOMAIN deals : deals[n].hand <= deals[n].hands /\ deals[n].version > 0

KeysApart ==
    \A m, n \in DOMAIN deals : deals[m].key = deals[n].key /\ deals[n].key \in Interactions => m = n

\* A snapshot is of a round as it was at its version.
ShownOK ==
    /\ shown \subseteq Offer \cup Snapshot
    /\ \A q \in shown : q.kind = "ROUND" =>
          /\ q.round \in DOMAIN deals /\ q.version <= deals[q.round].version
          /\ q.version = deals[q.round].version => q.hand = deals[q.round].hand

\* A move was made at the version that its request names, which has passed.
MovesOK ==
    /\ IsFiniteSet(moves)
    /\ \A m \in moves :
          /\ m.at = m.request.version /\ m.at \in Nat /\ m.added = Added(m.request.type)
          /\ m.request.round \in DOMAIN deals /\ m.at < deals[m.request.round].version
          /\ m.request.id \in Interactions =>
                \E q \in shown : q.kind = "ROUND" /\ MoveOf(m.request.id, m.request.type, q) = m.request
    /\ \A l, m \in moves : l.request.id = m.request.id /\ m.request.id \in Interactions => l = m

Raises(n) == {m \in moves : m.request.round = n /\ m.added = 1}
StakesOK == \A n \in DOMAIN deals : deals[n].stake = 1 + Cardinality(Raises(n))

\* A call is about a quote it was given, and its answer tells the truth of its move.
CallOK(c) ==
    tap[c] # NoTap =>
        /\ tap[c].quote \in shown
        /\ tap[c].type = "DEAL" /\ tap[c].stage = "READ" => tap[c].round \in DOMAIN deals
        /\ tap[c].type # "DEAL" =>
              /\ tap[c].quote.kind = "ROUND"
              /\ tap[c].stage # "FIND" => tap[c].round = tap[c].quote.round
              /\ tap[c].stage \in {"READ", "DONE"} => Matches(c)
              /\ tap[c].stage = "REFUSED" =>
                    ~Matches(c) /\ tap[c].quote.version < deals[tap[c].quote.round].version
              /\ tap[c].stage = "CONFLICT" => ~Matches(c) /\ ById(tap[c].id) # {}

CallsOK == tap \in [TapCalls -> Tap \cup {NoTap}] /\ \A c \in TapCalls : CallOK(c)

TapInv == DealsOK /\ KeysApart /\ ShownOK /\ MovesOK /\ StakesOK /\ CallsOK

\* At first there is no deal and nothing was shown.
LEMMA TapInitially == BlackjackInit => TapInv
  <1> SUFFICES ASSUME BlackjackInit PROVE TapInv
    OBVIOUS
  <1>1. deals = <<>> /\ deals \in Seq(Deal) /\ Len(deals) = 0 /\ DOMAIN deals = {}
    BY DEF BlackjackInit
  <1>2. DealsOK /\ KeysApart /\ ShownOK /\ StakesOK
    BY <1>1, TapAssumption DEF BlackjackInit, DealsOK, KeysApart, ShownOK, StakesOK
  <1>3. MovesOK
    BY FS_EmptySet DEF BlackjackInit, MovesOK
  <1>4. CallsOK
    BY DEF BlackjackInit, CallsOK, CallOK
  <1>5. QED
    BY <1>2, <1>3, <1>4 DEF TapInv

(* Rounds go forward. *)
Forward ==
    \A n \in DOMAIN deals :
        /\ n \in DOMAIN deals' /\ deals'[n].key = deals[n].key
        /\ deals'[n].version >= deals[n].version
        /\ deals'[n].version = deals[n].version => deals'[n] = deals[n]

\* The fields of a deal.
LEMMA DealsTyped ==
    ASSUME DealsOK
    PROVE  \A n \in DOMAIN deals : deals[n] \in Deal /\ deals[n].version \in Nat /\ deals[n].stake \in Nat
  <1> SUFFICES ASSUME NEW n \in DOMAIN deals PROVE deals[n] \in Deal
    BY DEF Deal
  <1>1. deals \in Seq(Deal) /\ n \in 1..Len(deals)
    BY DEF DealsOK
  <1>2. QED
    BY <1>1

\* A deal that starts leaves the earlier ones as they are.
LEMMA Appended ==
    ASSUME DealsOK, KeysApart, NEW deal \in Deal, deal.hand <= deal.hands, deal.version > 0,
           Len(deals) < MaxDeals, deals' = Append(deals, deal),
           deal.key \in Interactions => FindByKey(deal.key) = {}
    PROVE  /\ DealsOK' /\ KeysApart' /\ Forward
           /\ DOMAIN deals' = DOMAIN deals \cup {Len(deals) + 1} /\ deals'[Len(deals) + 1] = deal
           /\ \A n \in DOMAIN deals : deals'[n] = deals[n]
  <1>1. deals \in Seq(Deal) /\ Len(deals) \in Nat /\ DOMAIN deals = 1..Len(deals)
    BY DEF DealsOK
  <1>2. deals' \in Seq(Deal) /\ Len(deals') = Len(deals) + 1 /\ DOMAIN deals' = 1..(Len(deals) + 1)
    BY <1>1
  <1>3. deals'[Len(deals) + 1] = deal /\ \A n \in DOMAIN deals : deals'[n] = deals[n]
    BY <1>1
  <1>4. DOMAIN deals' = DOMAIN deals \cup {Len(deals) + 1} /\ Len(deals) + 1 \notin DOMAIN deals
    BY <1>1, <1>2
  <1>5. DealsOK'
    <2>1. Len(deals') <= MaxDeals
      BY <1>1, <1>2, TapAssumption
    <2>2. \A n \in DOMAIN deals' : deals'[n].hand <= deals'[n].hands /\ deals'[n].version > 0
      BY <1>3, <1>4 DEF DealsOK
    <2>3. QED
      BY <1>2, <2>1, <2>2 DEF DealsOK
  <1>6. KeysApart'
    BY <1>3, <1>4 DEF KeysApart, FindByKey
  <1>7. Forward
    <2>1. \A n \in DOMAIN deals : deals[n].version \in Nat
      BY DealsTyped
    <2>2. QED
      BY <1>3, <1>4, <2>1 DEF Forward
  <1>8. QED
    BY <1>3, <1>4, <1>5, <1>6, <1>7

\* A move changes one deal and only forward.
LEMMA Replaced ==
    ASSUME DealsOK, KeysApart, NEW n \in DOMAIN deals, NEW r \in Deal, r.hand <= r.hands,
           r.version > deals[n].version, r.key = deals[n].key, deals' = [deals EXCEPT ![n] = r]
    PROVE  /\ DealsOK' /\ KeysApart' /\ Forward /\ DOMAIN deals' = DOMAIN deals
           /\ deals'[n] = r /\ \A m \in DOMAIN deals : m # n => deals'[m] = deals[m]
  <1>1. deals \in Seq(Deal) /\ Len(deals) \in Nat /\ DOMAIN deals = 1..Len(deals) /\ deals[n] \in Deal
    BY DEF DealsOK
  <1>2. deals' \in Seq(Deal) /\ Len(deals') = Len(deals) /\ DOMAIN deals' = DOMAIN deals
    BY <1>1
  <1>3. deals'[n] = r /\ \A m \in DOMAIN deals : m # n => deals'[m] = deals[m]
    BY <1>1
  <1>4. DealsOK'
    BY <1>1, <1>2, <1>3 DEF DealsOK, Deal
  <1>5. KeysApart'
    BY <1>2, <1>3 DEF KeysApart
  <1>6. Forward
    <2>1. r.version \in Nat /\ \A m \in DOMAIN deals : deals[m].version \in Nat
      BY DealsTyped DEF Deal
    <2>2. \A m \in DOMAIN deals : deals'[m].key = deals[m].key /\ (m # n => deals'[m] = deals[m])
      BY <1>3
    <2>3. QED
      BY <1>2, <1>3, <2>1, <2>2 DEF Forward
  <1>7. QED
    BY <1>2, <1>3, <1>4, <1>5, <1>6

\* A move adds its chips to the stake and one to the version.
LEMMA WhatAMoveDoes ==
    ASSUME NEW r \in Deal, r.hand <= r.hands, NEW type \in MoveTypes, NEW x \in AfterMove(r, type)
    PROVE  /\ x \in Deal /\ x.hand <= x.hands /\ x.key = r.key
           /\ x.version = r.version + 1 /\ x.stake = r.stake + Added(type)
  <1> DEFINE s == [r EXCEPT !.version = @ + 1, !.stake = @ + Added(type),
                            !.hands = IF type = "SPLIT" THEN @ + 1 ELSE @]
             v == r.version + 1
             w == r.stake + Added(type)
             h == IF type = "SPLIT" THEN r.hands + 1 ELSE r.hands
  <1>1. v \in Nat /\ w \in Nat /\ h \in Nat /\ r.hand <= h
    BY DEF Deal, Added
  <1>2. s = [r EXCEPT !.version = v, !.stake = w, !.hands = h]
    OBVIOUS
  <1>3. x \in {s, HandPassed(s), Settled(s)}
    BY DEF AfterMove
  <1> HIDE DEF s, v, w, h
  <1>4. s \in Deal /\ s.hand = r.hand /\ s.hands = h /\ s.key = r.key /\ s.version = v /\ s.stake = w
    BY <1>1, <1>2 DEF Deal
  <1>5. CASE x = s
    BY <1>1, <1>4, <1>5 DEF v, w
  <1>6. CASE x = HandPassed(s)
    <2> DEFINE p == IF s.hand < s.hands THEN s.hand + 1 ELSE 0
    <2>1. p \in Nat /\ p <= s.hands
      BY <1>4 DEF Deal
    <2>2. x = [s EXCEPT !.hand = p]
      BY <1>6 DEF HandPassed
    <2> HIDE DEF p
    <2>3. QED
      BY <1>4, <2>1, <2>2 DEF Deal, v, w
  <1>7. CASE x = Settled(s)
    BY <1>1, <1>4, <1>7 DEF Settled, Deal, v, w
  <1>8. QED
    BY <1>3, <1>5, <1>6, <1>7

(* A step keeps what was shown and done, and what the calls know of it. *)
MovesGrow ==
    /\ moves \subseteq moves'
    /\ \A m \in moves' \ moves :
          /\ m.request.round \in DOMAIN deals
          /\ m.request.version = deals[m.request.round].version
          /\ m.request.id \in Interactions => ById(m.request.id) = {}

\* What was shown stays true of its version while the deals go forward.
LEMMA ShownKept ==
    ASSUME DealsOK, DealsOK', ShownOK, Forward
    PROVE  \A q \in shown : q.kind = "ROUND" =>
              /\ q.round \in DOMAIN deals' /\ q.version <= deals'[q.round].version
              /\ q.version = deals'[q.round].version => q.hand = deals'[q.round].hand
  <1> SUFFICES ASSUME NEW q \in shown, q.kind = "ROUND"
               PROVE  /\ q.round \in DOMAIN deals' /\ q.version <= deals'[q.round].version
                      /\ q.version = deals'[q.round].version => q.hand = deals'[q.round].hand
    OBVIOUS
  <1>1. q \in Snapshot /\ q.version \in Nat /\ q.round \in DOMAIN deals
    BY DEF ShownOK, Offer, Snapshot
  <1>2. deals[q.round] \in Deal /\ deals'[q.round] \in Deal /\ q.round \in DOMAIN deals'
    BY <1>1 DEF DealsOK, Forward
  <1>3. deals[q.round].version \in Nat /\ deals'[q.round].version \in Nat
    BY <1>2 DEF Deal
  <1>4. QED
    BY <1>1, <1>2, <1>3 DEF ShownOK, Forward

\* A call that does not move stays right while the deals go forward.
LEMMA CallKept ==
    ASSUME TapInv, DealsOK', Forward, shown \subseteq shown', MovesGrow,
           NEW c \in TapCalls, tap'[c] = tap[c]
    PROVE  CallOK(c)'
  <1> SUFFICES ASSUME tap[c] # NoTap PROVE CallOK(c)'
    BY DEF CallOK
  <1>1. tap[c] \in Tap /\ CallOK(c) /\ tap[c].quote \in shown /\ tap[c].id \in Interactions
    BY DEF TapInv, CallsOK, CallOK, Tap
  <1>2. CASE tap[c].type = "DEAL"
    BY <1>1, <1>2 DEF CallOK, Forward
  <1>3. CASE tap[c].type # "DEAL"
    <2> DEFINE q == tap[c].quote
    <2>1. q \in shown /\ q.kind = "ROUND" /\ q.round \in DOMAIN deals
      BY <1>1, <1>3 DEF CallOK, TapInv, ShownOK
    <2>2. q.version \in Nat /\ deals[q.round].version \in Nat /\ deals'[q.round].version \in Nat
          /\ deals'[q.round].version >= deals[q.round].version
      <3>1. q \in Snapshot
        BY <2>1 DEF TapInv, ShownOK, Offer, Snapshot
      <3>2. deals[q.round] \in Deal /\ deals'[q.round] \in Deal
        BY <2>1 DEF TapInv, DealsOK, Forward
      <3>3. QED
        BY <2>1, <3>1, <3>2 DEF Snapshot, Deal, Forward
    <2>3. MoveRequest(c)' = MoveRequest(c) /\ MoveRequest(c).id = tap[c].id
          /\ MoveRequest(c).round = q.round /\ MoveRequest(c).version = q.version
      BY DEF MoveRequest, MoveOf
    <2>4. Matches(c) => Matches(c)'
      BY <2>3 DEF Matches, ById, MovesGrow
    <2>5. ~Matches(c) /\ q.version < deals[q.round].version => ~Matches(c)'
      BY <2>2, <2>3 DEF Matches, ById, MovesGrow
    <2>6. ~Matches(c) /\ ById(tap[c].id) # {} => ~Matches(c)' /\ ById(tap[c].id)' # {}
      BY <1>1, <2>3 DEF Matches, ById, MovesGrow
    <2>7. QED
      BY <1>1, <1>3, <2>1, <2>2, <2>4, <2>5, <2>6 DEF CallOK
  <1>4. QED
    BY <1>2, <1>3
\* A move that is applied, of the website or of a call.
LEMMA MoveApplied ==
    ASSUME TapInv, NEW id, NEW type \in MoveTypes, NEW quote, Applies(id, type, quote),
           quote.round \in DOMAIN deals, UNCHANGED shown,
           id \in Interactions => ById(id) = {} /\ quote \in shown /\ quote.kind = "ROUND",
           ~\E m \in moves : m.request.round = quote.round /\ m.at = quote.version
    PROVE  /\ DealsOK' /\ KeysApart' /\ Forward /\ ShownOK' /\ MovesGrow /\ MovesOK' /\ StakesOK'
           /\ \E m \in moves' : m.request = MoveOf(id, type, quote)
           /\ DOMAIN deals' = DOMAIN deals
  <1> DEFINE n == quote.round
             d == deals[n]
             req == MoveOf(id, type, quote)
  <1>0. /\ DealsOK /\ KeysApart /\ ShownOK /\ MovesOK /\ StakesOK
        /\ d \in Deal /\ d.hand <= d.hands /\ d.version \in Nat /\ d.stake \in Nat
        /\ d.version = quote.version /\ d.hand = quote.hand
    BY DealsTyped DEF TapInv, DealsOK, Applies, asShown
  <1>1. PICK r \in AfterMove(d, type) :
           /\ deals' = [deals EXCEPT ![n] = r]
           /\ moves' = moves \cup {[request |-> req, at |-> d.version, added |-> r.stake - d.stake]}
    BY DEF Applies
  <1>2. /\ r \in Deal /\ r.hand <= r.hands /\ r.key = d.key /\ r.version = d.version + 1
        /\ r.stake = d.stake + Added(type) /\ Added(type) \in {0, 1}
    BY <1>0, WhatAMoveDoes DEF Added
  <1> DEFINE move == [request |-> req, at |-> d.version, added |-> Added(type)]
  <1>3. moves' = moves \cup {move}
    BY <1>0, <1>1, <1>2
  <1>4. req.id = id /\ req.type = type /\ req.round = n /\ req.version = quote.version
    BY DEF MoveOf
  <1>5. move.request = req /\ move.at = d.version /\ move.added = Added(type)
    OBVIOUS
  <1>6. move \notin moves
    BY <1>0, <1>4, <1>5
  <1> HIDE DEF move
  <1>7. DealsOK' /\ KeysApart' /\ Forward /\ DOMAIN deals' = DOMAIN deals /\ deals'[n] = r
        /\ \A m \in DOMAIN deals : m # n => deals'[m] = deals[m]
    <2>1. n \in DOMAIN deals /\ r.version > deals[n].version /\ r.key = deals[n].key
      BY <1>0, <1>2
    <2> HIDE DEF n, d
    <2>2. QED
      BY <1>0, <1>1, <1>2, <2>1, Replaced
  <1>8. ShownOK'
    BY <1>0, <1>7, ShownKept DEF ShownOK
  <1>9. MovesGrow
    BY <1>0, <1>3, <1>4, <1>5 DEF MovesGrow
  <1>10. MovesOK'
    <2>1. IsFiniteSet(moves')
      BY <1>0, <1>3, FS_AddElement DEF MovesOK
    <2>2. \A m \in moves : m.request.round \in DOMAIN deals' /\ m.at < deals'[m.request.round].version
      <3> SUFFICES ASSUME NEW m \in moves
                   PROVE  m.request.round \in DOMAIN deals' /\ m.at < deals'[m.request.round].version
        OBVIOUS
      <3>1. m.at \in Nat /\ m.request.round \in DOMAIN deals /\ m.at < deals[m.request.round].version
        BY <1>0 DEF MovesOK
      <3>2. deals[m.request.round].version \in Nat /\ deals'[m.request.round].version \in Nat
        <4>1. deals[m.request.round] \in Deal /\ deals'[m.request.round] \in Deal
          BY <1>0, <1>2, <1>7, <3>1, DealsTyped
        <4>2. QED
          BY <4>1 DEF Deal
      <3>3. QED
        BY <1>7, <3>1, <3>2 DEF Forward
    <2>3. move.at < deals'[n].version
      BY <1>0, <1>2, <1>5, <1>7
    <2>4. id \in Interactions =>
             quote \in shown /\ quote.kind = "ROUND" /\ MoveOf(move.request.id, move.request.type, quote) = req
      BY <1>4, <1>5
    <2>5. \A m \in moves' :
             /\ m.at = m.request.version /\ m.at \in Nat /\ m.added = Added(m.request.type)
             /\ m.request.round \in DOMAIN deals' /\ m.at < deals'[m.request.round].version
             /\ m.request.id \in Interactions =>
                   \E q \in shown : q.kind = "ROUND" /\ MoveOf(m.request.id, m.request.type, q) = m.request
      <3>1. ASSUME NEW m \in moves
            PROVE  /\ m.at = m.request.version /\ m.at \in Nat /\ m.added = Added(m.request.type)
                   /\ m.request.id \in Interactions =>
                      \E q \in shown : q.kind = "ROUND" /\ MoveOf(m.request.id, m.request.type, q) = m.request
        BY <1>0 DEF MovesOK
      <3>2. QED
        BY <1>0, <1>3, <1>4, <1>5, <1>7, <2>2, <2>3, <2>4, <3>1
    <2>6. \A l, m \in moves' : l.request.id = m.request.id /\ m.request.id \in Interactions => l = m
      BY <1>0, <1>3, <1>4, <1>5 DEF MovesOK, ById
    <2>7. QED
      BY <2>1, <2>5, <2>6 DEF MovesOK
  <1>11. StakesOK'
    <2> SUFFICES ASSUME NEW m \in DOMAIN deals
                 PROVE  deals'[m].stake = 1 + Cardinality(Raises(m)')
      BY <1>7 DEF StakesOK
    <2>1. IsFiniteSet(Raises(m)) /\ deals[m].stake = 1 + Cardinality(Raises(m))
          /\ Cardinality(Raises(m)) \in Nat
      BY <1>0, FS_Subset, FS_CardinalityType DEF MovesOK, StakesOK, Raises
    <2>2. CASE m = n /\ Added(type) = 1
      <3>1. Raises(m)' = Raises(m) \cup {move} /\ move \notin Raises(m)
        BY <1>3, <1>4, <1>5, <1>6, <2>2 DEF Raises
      <3>2. Cardinality(Raises(m)') = Cardinality(Raises(m)) + 1
        BY <2>1, <3>1, FS_AddElement
      <3>3. QED
        BY <1>2, <1>7, <2>1, <2>2, <3>2
    <2>3. CASE m # n \/ Added(type) = 0
      <3>1. Raises(m)' = Raises(m)
        BY <1>3, <1>4, <1>5, <2>3 DEF Raises
      <3>2. deals'[m].stake = deals[m].stake
        BY <1>0, <1>2, <1>7, <2>3
      <3>3. QED
        BY <2>1, <3>1, <3>2
    <2>4. QED
      BY <1>2, <2>2, <2>3
  <1>12. QED
    BY <1>3, <1>5, <1>7, <1>8, <1>9, <1>10, <1>11

\* A round that is dealt, by the website or for the request of a call.
LEMMA RoundDealt ==
    ASSUME TapInv, NEW key \in Interactions \cup {"WEB"}, DealRound(key, Len(deals) + 1),
           key \in Interactions => FindByKey(key) = {}, UNCHANGED <<moves, shown>>
    PROVE  /\ DealsOK' /\ KeysApart' /\ Forward /\ ShownOK' /\ MovesGrow /\ MovesOK' /\ StakesOK'
           /\ Len(deals) + 1 \in DOMAIN deals'
  <1>0. DealsOK /\ KeysApart /\ ShownOK /\ MovesOK /\ StakesOK
    BY DEF TapInv
  <1>1. PICK hand \in {0, 1} :
           deals' = Append(deals, [key |-> key, version |-> 1, hand |-> hand, hands |-> 1, stake |-> 1])
    BY DEF DealRound
  <1> DEFINE deal == [key |-> key, version |-> 1, hand |-> hand, hands |-> 1, stake |-> 1]
  <1>2. /\ deal \in Deal /\ deal.hand <= deal.hands /\ deal.version > 0 /\ deal.stake = 1
        /\ deal.key = key /\ deals' = Append(deals, deal) /\ Len(deals) < MaxDeals
    BY <1>1 DEF Deal, DealRound
  <1> HIDE DEF deal
  <1>3. /\ DealsOK' /\ KeysApart' /\ Forward
        /\ DOMAIN deals' = DOMAIN deals \cup {Len(deals) + 1} /\ deals'[Len(deals) + 1] = deal
        /\ \A n \in DOMAIN deals : deals'[n] = deals[n]
    BY <1>0, <1>2, Appended
  <1>4. ShownOK'
    BY <1>0, <1>3, ShownKept DEF ShownOK
  <1>5. MovesGrow
    BY DEF MovesGrow
  <1>6. MovesOK'
    BY <1>0, <1>3 DEF MovesOK
  <1>7. StakesOK'
    <2> SUFFICES ASSUME NEW n \in DOMAIN deals'
                 PROVE  deals'[n].stake = 1 + Cardinality(Raises(n))
      BY DEF StakesOK, Raises
    <2>1. CASE n \in DOMAIN deals
      BY <1>0, <1>3, <2>1 DEF StakesOK
    <2>2. CASE n \notin DOMAIN deals
      <3>1. Raises(n) = {}
        BY <1>0, <2>2 DEF Raises, MovesOK
      <3>2. QED
        BY <1>2, <1>3, <2>2, <3>1, FS_EmptySet
    <2>3. QED
      BY <2>1, <2>2
  <1>8. QED
    BY <1>3, <1>4, <1>5, <1>6, <1>7

\* The job stands the hands that are left: their number moves the version.
LEMMA HandsStood ==
    ASSUME TapInv, AutoResolve
    PROVE  DealsOK' /\ KeysApart' /\ Forward /\ ShownOK' /\ MovesGrow /\ MovesOK' /\ StakesOK'
  <1>0. DealsOK /\ KeysApart /\ ShownOK /\ MovesOK /\ StakesOK /\ UNCHANGED <<moves, shown>>
    BY DEF TapInv, AutoResolve
  <1> DEFINE n == Len(deals)
             d == deals[n]
             v == d.version + 1 + d.hands - d.hand
             r == [d EXCEPT !.version = v, !.hand = 0]
  <1>1. n \in DOMAIN deals
    BY <1>0 DEF AutoResolve, OpenDeal, DealsOK
  <1>2. d \in Deal /\ d.hand <= d.hands
    BY <1>0, <1>1 DEF DealsOK
  <1>3. v \in Nat /\ v > d.version
    BY <1>2 DEF Deal
  <1>4. deals' = [deals EXCEPT ![n] = r]
    BY DEF AutoResolve, Settled
  <1> HIDE DEF v, d
  <1>5. r \in Deal /\ r.hand <= r.hands /\ r.version > d.version /\ r.key = d.key /\ r.stake = d.stake
    <2>1. r \in Deal /\ r.hand = 0 /\ r.version = v
      BY <1>2, <1>3 DEF Deal
    <2>2. r.hands = d.hands /\ r.key = d.key /\ r.stake = d.stake /\ d.hands \in Nat
      BY <1>2 DEF Deal
    <2>3. QED
      BY <1>3, <2>1, <2>2
  <1> USE DEF d
  <1> HIDE DEF r, n
  <1>6. DealsOK' /\ KeysApart' /\ Forward /\ DOMAIN deals' = DOMAIN deals /\ deals'[n] = r
        /\ \A m \in DOMAIN deals : m # n => deals'[m] = deals[m]
    BY <1>0, <1>1, <1>4, <1>5, Replaced
  <1>7. ShownOK'
    BY <1>0, <1>6, ShownKept DEF ShownOK
  <1>8. MovesGrow
    BY <1>0 DEF MovesGrow
  <1>9. MovesOK'
    <2> SUFFICES ASSUME NEW m \in moves
                 PROVE  m.request.round \in DOMAIN deals' /\ m.at < deals'[m.request.round].version
      BY <1>0 DEF MovesOK
    <2>1. m.at \in Nat /\ m.request.round \in DOMAIN deals /\ m.at < deals[m.request.round].version
      BY <1>0 DEF MovesOK
    <2>2. deals[m.request.round] \in Deal /\ deals'[m.request.round] \in Deal
      BY <1>0, <1>5, <1>6, <2>1, DealsTyped
    <2>3. deals[m.request.round].version \in Nat /\ deals'[m.request.round].version \in Nat
      BY <2>2 DEF Deal
    <2>4. QED
      BY <1>6, <2>1, <2>3 DEF Forward
  <1>10. StakesOK'
    BY <1>0, <1>5, <1>6 DEF StakesOK, Raises
  <1>11. QED
    BY <1>6, <1>7, <1>8, <1>9, <1>10

\* A round is shown as it is.
LEMMA SnapshotTrue ==
    ASSUME TapInv, NEW n \in DOMAIN deals
    PROVE  /\ RoundSnapshot(n) \in Snapshot /\ RoundSnapshot(n).round = n
           /\ RoundSnapshot(n).version = deals[n].version /\ RoundSnapshot(n).hand = deals[n].hand
  <1>1. deals[n] \in Deal /\ n \in Nat
    BY DealsTyped DEF TapInv, DealsOK
  <1>2. QED
    BY <1>1 DEF RoundSnapshot, Deal, Snapshot

\* Showing what is there changes nothing else.
LEMMA MoreShown ==
    ASSUME TapInv, UNCHANGED <<deals, moves>>, NEW q, shown' = shown \cup {q},
           \/ q \in Offer
           \/ \E n \in DOMAIN deals : q = RoundSnapshot(n)
    PROVE  DealsOK' /\ KeysApart' /\ Forward /\ ShownOK' /\ MovesGrow /\ MovesOK' /\ StakesOK'
  <1>0. DealsOK /\ KeysApart /\ ShownOK /\ MovesOK /\ StakesOK
    BY DEF TapInv
  <1>1. DealsOK' /\ KeysApart' /\ StakesOK' /\ MovesGrow
    BY <1>0 DEF DealsOK, KeysApart, StakesOK, Raises, MovesGrow
  <1>2. Forward
    BY <1>0, DealsTyped DEF Forward
  <1>3. ShownOK'
    <2>1. CASE q \in Offer
      BY <1>0, <2>1 DEF ShownOK, Offer
    <2>2. ASSUME NEW n \in DOMAIN deals, q = RoundSnapshot(n) PROVE ShownOK'
      <3>1. /\ q \in Snapshot /\ q.round = n /\ q.version = deals[n].version /\ q.hand = deals[n].hand
            /\ deals[n].version \in Nat
        BY <1>0, <2>2, SnapshotTrue, DealsTyped
      <3>2. QED
        BY <1>0, <3>1 DEF ShownOK
    <2>3. QED
      BY <2>1, <2>2
  <1>4. MovesOK'
    BY <1>0 DEF MovesOK
  <1>5. QED
    BY <1>1, <1>2, <1>3, <1>4

(* A step of one call leaves the others as they were. *)
Kept == DealsOK' /\ KeysApart' /\ Forward /\ ShownOK' /\ MovesGrow /\ MovesOK' /\ StakesOK'

\* A step that leaves the tables alone keeps them.
LEMMA NothingHappened == TapInv /\ UNCHANGED <<deals, moves, shown>> => Kept
  <1> SUFFICES ASSUME TapInv, UNCHANGED <<deals, moves, shown>> PROVE Kept
    OBVIOUS
  <1>1. DealsOK /\ KeysApart /\ ShownOK /\ MovesOK /\ StakesOK
    BY DEF TapInv
  <1>2. Forward
    BY <1>1, DealsTyped DEF Forward
  <1>3. DealsOK' /\ KeysApart' /\ ShownOK' /\ MovesGrow /\ MovesOK'
    BY <1>1 DEF DealsOK, KeysApart, ShownOK, MovesGrow, MovesOK
  <1>4. StakesOK'
    BY <1>1 DEF StakesOK, Raises
  <1>5. QED
    BY <1>2, <1>3, <1>4 DEF Kept

\* A step that moves no call keeps the invariant when it keeps the tables.
LEMMA OtherCalls ==
    ASSUME TapInv, Kept, shown \subseteq shown', UNCHANGED tap
    PROVE  TapInv'
  <1>1. \A c \in TapCalls : CallOK(c)'
    BY CallKept DEF Kept
  <1>2. QED
    BY <1>1 DEF Kept, TapInv, CallsOK

\* So does a step of one call that leaves it right.
LEMMA OneCall ==
    ASSUME TapInv, Kept, shown \subseteq shown', NEW c \in TapCalls, NEW x \in Tap \cup {NoTap},
           tap' = [tap EXCEPT ![c] = x], CallOK(c)'
    PROVE  TapInv'
  <1>1. tap \in [TapCalls -> Tap \cup {NoTap}]
    BY DEF TapInv, CallsOK
  <1>2. tap' \in [TapCalls -> Tap \cup {NoTap}] /\ \A d \in TapCalls : d # c => tap'[d] = tap[d]
    BY <1>1
  <1>3. \A d \in TapCalls : d # c => CallOK(d)'
    BY <1>2, CallKept DEF Kept
  <1>4. QED
    BY <1>2, <1>3 DEF Kept, TapInv, CallsOK

\* A call that exists is at a stage and has an interaction.
LEMMA StageIsNotNone == \A x \in Tap : x # NoTap /\ x.stage # "NONE" /\ x.id \in Interactions
  BY DEF Tap, TapStages, NoTap

\* A call that goes on keeps its request.
LEMMA GoesOn ==
    ASSUME TapInv, NEW c \in TapCalls, tap[c] # NoTap, NEW stage \in TapStages, NEW round \in Nat,
           Goes(c, stage, round)
    PROVE  \E x \in Tap :
              /\ tap' = [tap EXCEPT ![c] = x] /\ tap'[c] = x /\ x.stage = stage /\ x.round = round
              /\ x.quote = tap[c].quote /\ x.type = tap[c].type /\ x.id = tap[c].id
              /\ MoveRequest(c)' = MoveRequest(c)
  <1>1. tap \in [TapCalls -> Tap \cup {NoTap}] /\ tap[c] \in Tap
    BY DEF TapInv, CallsOK
  <1> DEFINE x == [tap[c] EXCEPT !.stage = stage, !.round = round]
  <1>2. stage # "NONE"
    BY DEF TapStages
  <1>3. tap' = [tap EXCEPT ![c] = x]
    BY <1>2 DEF Goes
  <1>4. /\ x \in Tap /\ x.stage = stage /\ x.round = round
        /\ x.quote = tap[c].quote /\ x.type = tap[c].type /\ x.id = tap[c].id
    BY <1>1 DEF Tap
  <1> HIDE DEF x
  <1>5. tap'[c] = x
    BY <1>1, <1>3
  <1>6. MoveRequest(c)' = MoveRequest(c)
    BY <1>4, <1>5 DEF MoveRequest
  <1>7. QED
    BY <1>3, <1>4, <1>5, <1>6

\* A call ends.
LEMMA CallEnds ==
    ASSUME TapInv, Kept, shown \subseteq shown', NEW c \in TapCalls, tap' = [tap EXCEPT ![c] = NoTap]
    PROVE  TapInv'
  <1>1. tap'[c] = NoTap
    BY DEF TapInv, CallsOK
  <1>2. CallOK(c)'
    BY <1>1 DEF CallOK
  <1>3. QED
    BY <1>2, OneCall

\* A call takes a quote that was shown.
LEMMA CallBegins ==
    ASSUME TapInv, UNCHANGED <<deals, moves, shown>>, NEW c \in TapCalls, NEW q \in shown,
           NEW write \in BOOLEAN, NEW type \in MoveTypes \cup {"DEAL"}, NEW id \in Interactions,
           type # "DEAL" => q.kind = "ROUND",
           tap' = [tap EXCEPT ![c] = [stage |-> "FIND", write |-> write, quote |-> q, type |-> type,
                                      id |-> id, round |-> 0]]
    PROVE  TapInv'
  <1> DEFINE x == [stage |-> "FIND", write |-> write, quote |-> q, type |-> type, id |-> id, round |-> 0]
  <1>1. /\ x \in Tap /\ x.stage = "FIND" /\ x.quote = q /\ x.type = type
        /\ tap' = [tap EXCEPT ![c] = x]
    BY DEF TapInv, ShownOK, Tap, TapStages
  <1> HIDE DEF x
  <1>2. tap'[c] = x
    BY <1>1 DEF TapInv, CallsOK
  <1>3. CallOK(c)'
    BY <1>1, <1>2 DEF CallOK
  <1>4. QED
    BY <1>1, <1>3, NothingHappened, OneCall

(* The steps of a call. *)
LEMMA TypedCall ==
    ASSUME TapInv, NEW c \in TapCalls, tap[c].stage # "NONE"
    PROVE  /\ tap[c] # NoTap /\ tap[c] \in Tap /\ CallOK(c) /\ tap[c].quote \in shown
           /\ tap[c].id \in Interactions /\ tap[c].type \in MoveTypes \cup {"DEAL"}
           /\ tap[c].type # "DEAL" =>
                 tap[c].quote \in Snapshot /\ tap[c].quote.round \in DOMAIN deals
                 /\ tap[c].quote.round \in Nat
  <1>1. tap[c] # NoTap /\ tap[c] \in Tap /\ CallOK(c)
    BY DEF TapInv, CallsOK, NoTap
  <1>2. tap[c].quote \in shown
    BY <1>1 DEF CallOK
  <1>3. ASSUME tap[c].type # "DEAL"
        PROVE  tap[c].quote \in Snapshot /\ tap[c].quote.round \in DOMAIN deals
    <2>1. tap[c].quote.kind = "ROUND"
      BY <1>1, <1>3 DEF CallOK
    <2>2. QED
      BY <1>2, <2>1 DEF TapInv, ShownOK, Offer
  <1>4. QED
    BY <1>1, <1>2, <1>3 DEF Tap, Snapshot

\* The lookup before a deal keeps the invariant.
LEMMA FindDealKeeps ==
    ASSUME TapInv, NEW c \in TapCalls, FindDeal(c)
    PROVE  TapInv'
  <1>1. tap[c].stage = "FIND" /\ tap[c].type = "DEAL" /\ UNCHANGED <<deals, moves, shown>>
    BY DEF FindDeal
  <1>2. Kept
    BY <1>1, NothingHappened
  <1>3. tap[c] # NoTap /\ tap[c].quote \in shown
    BY <1>1, TypedCall
  <1>4. CASE Goes(c, "NONE", 0)
    BY <1>1, <1>2, <1>4, CallEnds DEF Goes
  <1>5. ASSUME NEW stage \in {"WRITE", "READ"}, NEW round \in Nat,
               stage = "READ" => round \in DOMAIN deals, Goes(c, stage, round)
        PROVE  TapInv'
    <2>1. stage \in TapStages
      BY DEF TapStages
    <2>2. PICK x \in Tap :
             /\ tap' = [tap EXCEPT ![c] = x] /\ tap'[c] = x /\ x.stage = stage /\ x.round = round
             /\ x.quote = tap[c].quote /\ x.type = tap[c].type
      BY <1>3, <1>5, <2>1, GoesOn
    <2>3. CallOK(c)'
      BY <1>1, <1>3, <1>5, <2>2 DEF CallOK
    <2>4. QED
      BY <1>1, <1>2, <2>2, <2>3, OneCall
  <1>6. \A n \in FindByKey(tap[c].id) : n \in DOMAIN deals /\ n \in Nat
    BY DEF FindByKey, TapInv, DealsOK
  <1>7. QED
    BY <1>4, <1>5, <1>6 DEF FindDeal, Absent

\* The transaction of a deal keeps it.
LEMMA CreateDealKeeps ==
    ASSUME TapInv, NEW c \in TapCalls, CreateDeal(c)
    PROVE  TapInv'
  <1>1. tap[c].stage = "WRITE" /\ tap[c].type = "DEAL" /\ UNCHANGED <<moves, shown>>
    BY DEF CreateDeal
  <1>2. tap[c] # NoTap /\ tap[c].quote \in shown /\ tap[c].id \in Interactions
    BY <1>1, TypedCall
  <1>3. ASSUME Kept, NEW stage \in {"READ", "REFUSED"}, NEW round \in Nat,
               stage = "READ" => round \in DOMAIN deals', Goes(c, stage, round)
        PROVE  TapInv'
    <2>1. stage \in TapStages
      BY DEF TapStages
    <2>2. PICK x \in Tap :
             /\ tap' = [tap EXCEPT ![c] = x] /\ tap'[c] = x /\ x.stage = stage /\ x.round = round
             /\ x.quote = tap[c].quote /\ x.type = tap[c].type
      BY <1>2, <1>3, <2>1, GoesOn
    <2>3. CallOK(c)'
      BY <1>1, <1>2, <1>3, <2>2 DEF CallOK
    <2>4. QED
      BY <1>1, <1>3, <2>2, <2>3, OneCall
  <1>4. ASSUME NEW n \in FindByKey(tap[c].id), Goes(c, "READ", n), UNCHANGED deals PROVE TapInv'
    <2>1. n \in DOMAIN deals /\ n \in Nat
      BY DEF FindByKey, TapInv, DealsOK
    <2>2. Kept
      BY <1>1, <1>4, NothingHappened
    <2>3. QED
      BY <1>3, <1>4, <2>1, <2>2
  <1>5. ASSUME FindByKey(tap[c].id) = {}, DealRound(tap[c].id, tap[c].quote.round),
               Goes(c, "READ", Len(deals) + 1)
        PROVE  TapInv'
    <2>1. DealRound(tap[c].id, Len(deals) + 1)
      BY <1>5 DEF DealRound
    <2>2. Kept /\ Len(deals) + 1 \in DOMAIN deals'
      BY <1>1, <1>2, <1>5, <2>1, RoundDealt DEF Kept
    <2>3. Len(deals) + 1 \in Nat
      BY DEF TapInv, DealsOK
    <2>4. QED
      BY <1>3, <1>5, <2>2, <2>3
  <1>6. ASSUME Goes(c, "REFUSED", 0), UNCHANGED deals PROVE TapInv'
    <2>1. Kept
      BY <1>1, <1>6, NothingHappened
    <2>2. QED
      BY <1>3, <1>6, <2>1
  <1>7. QED
    BY <1>4, <1>5, <1>6 DEF CreateDeal

\* The lookup before a move keeps it.
LEMMA FindMoveKeeps ==
    ASSUME TapInv, NEW c \in TapCalls, FindMove(c)
    PROVE  TapInv'
  <1>1. tap[c].stage = "FIND" /\ tap[c].type # "DEAL" /\ UNCHANGED <<deals, moves, shown>>
    BY DEF FindMove
  <1>2. Kept
    BY <1>1, NothingHappened
  <1>3. tap[c] # NoTap /\ tap[c].quote \in shown /\ tap[c].quote.round \in Nat /\ CallOK(c)
    BY <1>1, TypedCall
  <1>4. PICK stage \in {"READ", "CONFLICT", "NONE", "WRITE"} :
           /\ Goes(c, stage, tap[c].quote.round)
           /\ stage = "READ" => Matches(c)
           /\ stage = "CONFLICT" => ~Matches(c) /\ ById(tap[c].id) # {}
    BY DEF FindMove, Absent
  <1>5. CASE stage = "NONE"
    BY <1>1, <1>2, <1>4, <1>5, CallEnds DEF Goes
  <1>6. CASE stage # "NONE"
    <2>1. stage \in TapStages
      BY <1>6 DEF TapStages
    <2>2. PICK x \in Tap :
             /\ tap' = [tap EXCEPT ![c] = x] /\ tap'[c] = x /\ x.stage = stage
             /\ x.round = tap[c].quote.round
             /\ x.quote = tap[c].quote /\ x.type = tap[c].type /\ x.id = tap[c].id
             /\ MoveRequest(c)' = MoveRequest(c)
      BY <1>3, <1>4, <2>1, GoesOn
    <2>3. Matches(c)' <=> Matches(c)
      BY <1>1, <2>2 DEF Matches, ById
    <2>4. CallOK(c)'
      BY <1>1, <1>3, <1>4, <1>6, <2>2, <2>3 DEF CallOK, ById
    <2>5. QED
      BY <1>1, <1>2, <2>2, <2>4, OneCall
  <1>7. QED
    BY <1>5, <1>6

\* The transaction of a move keeps it.
LEMMA WriteMoveKeeps ==
    ASSUME TapInv, NEW c \in TapCalls, WriteMove(c)
    PROVE  TapInv'
  <1> DEFINE q == tap[c].quote
  <1>1. tap[c].stage = "WRITE" /\ tap[c].type # "DEAL" /\ UNCHANGED shown
    BY DEF WriteMove
  <1>2. /\ tap[c] # NoTap /\ q \in shown /\ q.round \in Nat /\ CallOK(c) /\ q.kind = "ROUND"
        /\ tap[c].id \in Interactions /\ tap[c].type \in MoveTypes /\ q.round \in DOMAIN deals
    BY <1>1, TypedCall DEF Snapshot
  <1>3. ASSUME Kept, NEW stage \in {"READ", "CONFLICT", "REFUSED"}, Goes(c, stage, q.round),
               stage = "READ" => \E m \in moves' : m.request = MoveRequest(c),
               stage = "CONFLICT" => UNCHANGED moves /\ ~Matches(c) /\ ById(tap[c].id) # {},
               stage = "REFUSED" => UNCHANGED <<deals, moves>> /\ ~Matches(c)
                                    /\ q.version < deals[q.round].version
        PROVE  TapInv'
    <2>1. stage \in TapStages
      BY DEF TapStages
    <2>2. PICK x \in Tap :
             /\ tap' = [tap EXCEPT ![c] = x] /\ tap'[c] = x /\ x.stage = stage /\ x.round = q.round
             /\ x.quote = q /\ x.type = tap[c].type /\ x.id = tap[c].id
             /\ MoveRequest(c)' = MoveRequest(c)
      BY <1>2, <1>3, <2>1, GoesOn
    <2>3. MoveRequest(c).id = tap[c].id
      BY DEF MoveRequest, MoveOf
    <2>4. /\ stage = "READ" => Matches(c)'
          /\ UNCHANGED moves => (Matches(c)' <=> Matches(c)) /\ ById(tap[c].id)' = ById(tap[c].id)
      BY <1>3, <2>2, <2>3 DEF Matches, ById
    <2>5. CallOK(c)'
      BY <1>1, <1>2, <1>3, <2>2, <2>4 DEF CallOK, ById
    <2>6. QED
      BY <1>1, <1>3, <2>2, <2>5, OneCall
  <1>4. CASE /\ ById(tap[c].id) # {} /\ UNCHANGED <<deals, moves>>
             /\ Goes(c, IF Matches(c) THEN "READ" ELSE "CONFLICT", q.round)
    <2>1. Kept
      BY <1>1, <1>4, NothingHappened
    <2>2. Matches(c) => \E m \in moves' : m.request = MoveRequest(c)
      BY <1>4 DEF Matches, ById
    <2>3. QED
      BY <1>3, <1>4, <2>1, <2>2
  <1>5. CASE /\ ById(tap[c].id) = {} /\ Applies(tap[c].id, tap[c].type, q)
             /\ Goes(c, "READ", q.round)
    <2>1. ~\E m \in moves : m.request.round = q.round /\ m.at = q.version
      <3> SUFFICES ASSUME NEW m \in moves, m.request.round = q.round, m.at = q.version PROVE FALSE
        OBVIOUS
      <3>1. m.at \in Nat /\ m.at < deals[q.round].version /\ deals[q.round].version = q.version
        BY <1>5 DEF TapInv, MovesOK, Applies, asShown
      <3>2. QED
        BY <3>1
    <2> HIDE DEF q
    <2>2. Kept /\ \E m \in moves' : m.request = MoveOf(tap[c].id, tap[c].type, q)
      BY <1>1, <1>2, <1>5, <2>1, MoveApplied DEF Kept
    <2>3. \E m \in moves' : m.request = MoveRequest(c)
      BY <2>2 DEF MoveRequest, q
    <2>4. QED
      BY <1>3, <1>5, <2>2, <2>3
  <1>6. CASE /\ ById(tap[c].id) = {} /\ ~asShown(q) /\ UNCHANGED <<deals, moves>>
             /\ Goes(c, "REFUSED", q.round)
    <2>1. Kept
      BY <1>1, <1>6, NothingHappened
    <2>2. ~Matches(c)
      BY <1>6 DEF Matches
    <2>3. q.version < deals[q.round].version
      <3>1. q \in Snapshot /\ deals[q.round].version \in Nat
        BY <1>1, <1>2, TypedCall, DealsTyped DEF TapInv
      <3>2. q.version <= deals[q.round].version /\ q.version # deals[q.round].version
        BY <1>2, <1>6 DEF TapInv, ShownOK, asShown
      <3>3. QED
        BY <3>1, <3>2 DEF Snapshot
    <2>4. QED
      BY <1>3, <1>6, <2>1, <2>2, <2>3
  <1>7. QED
    BY <1>4, <1>5, <1>6 DEF WriteMove

\* The answer to a stale move keeps it.
LEMMA ReadCurrentKeeps ==
    ASSUME TapInv, NEW c \in TapCalls, ReadCurrent(c)
    PROVE  TapInv'
  <1>1. tap[c].stage = "READ" /\ UNCHANGED <<deals, moves>> /\ Goes(c, "DONE", tap[c].round)
        /\ shown' = shown \cup {RoundSnapshot(tap[c].round)}
    BY DEF ReadCurrent
  <1>2. /\ tap[c] # NoTap /\ tap[c].quote \in shown /\ CallOK(c)
        /\ tap[c].round \in DOMAIN deals /\ tap[c].round \in Nat
    <2>1. tap[c] # NoTap /\ CallOK(c) /\ tap[c].type # "DEAL" => tap[c].quote.round \in DOMAIN deals
      BY <1>1, TypedCall
    <2>2. tap[c].quote \in shown /\ tap[c].round \in DOMAIN deals
      BY <1>1, <2>1, TypedCall DEF CallOK
    <2>3. QED
      BY <1>1, <2>2, TypedCall DEF TapInv, DealsOK
  <1>3. Kept
    BY <1>1, <1>2, MoreShown DEF Kept
  <1>4. "DONE" \in TapStages
    BY DEF TapStages
  <1>5. PICK x \in Tap :
           /\ tap' = [tap EXCEPT ![c] = x] /\ tap'[c] = x /\ x.stage = "DONE" /\ x.round = tap[c].round
           /\ x.quote = tap[c].quote /\ x.type = tap[c].type /\ x.id = tap[c].id
           /\ MoveRequest(c)' = MoveRequest(c)
    BY <1>1, <1>2, <1>4, GoesOn
  <1>6. Matches(c)' <=> Matches(c)
    BY <1>1, <1>5 DEF Matches, ById
  <1>7. CallOK(c)'
    BY <1>1, <1>2, <1>5, <1>6 DEF CallOK
  <1>8. QED
    BY <1>1, <1>3, <1>5, <1>7, OneCall

(* The website. *)
LEMMA WebMoveKeeps ==
    ASSUME TapInv, NEW type \in MoveTypes, WebMove(type)
    PROVE  TapInv'
  <1> DEFINE n == Len(deals)
             id == <<"WEB", n, deals[n].version>>
             q == RoundSnapshot(n)
  <1>1. n \in DOMAIN deals /\ n \in 1..MaxDeals /\ Applies(id, type, q) /\ UNCHANGED <<shown, tap>>
    BY TapAssumption DEF WebMove, OpenDeal, TapInv, DealsOK
  <1>2. q.round = n /\ q.version = deals[n].version /\ deals[n].version \in Nat /\ deals[n].version > 0
    BY <1>1, SnapshotTrue, DealsTyped DEF TapInv, DealsOK
  <1>3. deals[n].version \in 1..MaxMove
    <2>1. deals[n].version < MaxMove
      BY <1>1, <1>2 DEF Applies
    <2>2. QED
      BY <1>2, <2>1, TapAssumption
  <1>4. id \notin Interactions
    <2>1. id \in {"WEB"} \X (1..MaxDeals) \X (1..MaxMove)
      BY <1>1, <1>3
    <2>2. QED
      BY <2>1, TapAssumption
  <1>5. ~\E m \in moves : m.request.round = q.round /\ m.at = q.version
    <2> SUFFICES ASSUME NEW m \in moves, m.request.round = q.round, m.at = q.version PROVE FALSE
      OBVIOUS
    <2>1. m.at \in Nat /\ m.at < deals[n].version
      BY <1>2 DEF TapInv, MovesOK
    <2>2. QED
      BY <1>2, <2>1
  <1>6. q.round \in DOMAIN deals
    BY <1>1, <1>2
  <1> HIDE DEF id, q
  <1>7. Kept
    BY <1>1, <1>4, <1>5, <1>6, MoveApplied DEF Kept
  <1>8. QED
    BY <1>1, <1>7, OtherCalls

\* Every step of the bot and of the website keeps TapInv.
LEMMA TapStep == TapInv /\ [BlackjackNext]_tapVars => TapInv'
  <1> SUFFICES ASSUME TapInv, [BlackjackNext]_tapVars PROVE TapInv'
    OBVIOUS
  <1>1. CASE UNCHANGED tapVars
    BY <1>1, NothingHappened, OtherCalls DEF tapVars
  <1>2. CASE WebDeal
    <2>1. Kept /\ UNCHANGED <<shown, tap>>
      BY <1>2, RoundDealt, TapAssumption DEF WebDeal, Kept
    <2>2. QED
      BY <2>1, OtherCalls
  <1>3. CASE AutoResolve
    <2>1. Kept /\ UNCHANGED <<shown, tap>>
      BY <1>3, HandsStood DEF AutoResolve, Kept
    <2>2. QED
      BY <2>1, OtherCalls
  <1>4. ASSUME NEW type \in MoveTypes, WebMove(type) PROVE TapInv'
    BY <1>4, WebMoveKeeps
  <1>5. ASSUME NEW q, shown' = shown \cup {q}, UNCHANGED <<deals, moves, tap>>,
               q \in Offer \/ \E n \in DOMAIN deals : q = RoundSnapshot(n)
        PROVE  TapInv'
    <2>1. Kept
      BY <1>5, MoreShown DEF Kept
    <2>2. QED
      BY <1>5, <2>1, OtherCalls
  <1>6. ASSUME NEW i \in Interactions, PrepareBlackjack(i) PROVE TapInv'
    <2>1. DealQuote(i) \in Offer
      BY DEF DealQuote, Offer, TapInv, DealsOK
    <2>2. OpenDeal => Len(deals) \in DOMAIN deals
      BY DEF OpenDeal, TapInv, DealsOK
    <2>3. QED
      BY <1>5, <1>6, <2>1, <2>2 DEF PrepareBlackjack
  <1>7. ASSUME NEW q \in shown, StateBlackjack(q) PROVE TapInv'
    <2>1. q.round \in DOMAIN deals
      BY <1>7 DEF StateBlackjack, TapInv, ShownOK
    <2>2. QED
      BY <1>5, <1>7, <2>1 DEF StateBlackjack
  <1>8. ASSUME NEW c \in TapCalls, NEW q \in shown, NEW write \in BOOLEAN, PlayBlackjack(c, q, write)
        PROVE  TapInv'
    <2>1. q \in Offer
      BY <1>8 DEF PlayBlackjack, TapInv, ShownOK, Snapshot
    <2>2. q.request \in Interactions
      BY <2>1 DEF Offer
    <2>3. QED
      BY <1>8, <2>2, CallBegins DEF PlayBlackjack
  <1>9. ASSUME NEW c \in TapCalls, NEW q \in shown, NEW write \in BOOLEAN, NEW i \in Interactions,
               NEW type \in MoveTypes, ActBlackjack(c, q, i, type, write)
        PROVE  TapInv'
    BY <1>9, CallBegins DEF ActBlackjack
  <1>10. ASSUME NEW c \in TapCalls, FindDeal(c) \/ CreateDeal(c) \/ FindMove(c) \/ WriteMove(c) \/ ReadCurrent(c)
         PROVE  TapInv'
    BY <1>10, FindDealKeeps, CreateDealKeeps, FindMoveKeeps, WriteMoveKeeps, ReadCurrentKeeps
  <1>11. ASSUME NEW c \in TapCalls, TapAnswered(c) PROVE TapInv'
    <2>1. Kept
      BY <1>11, NothingHappened DEF TapAnswered
    <2>2. QED
      BY <1>11, <2>1, CallEnds DEF TapAnswered
  <1>12. QED
    BY <1>1, <1>2, <1>3, <1>4, <1>6, <1>7, <1>8, <1>9, <1>10, <1>11 DEF BlackjackNext

\* A set whose members are all equal has at most one.
LEMMA AtMostOne ==
    ASSUME NEW S, \A x, y \in S : x = y
    PROVE  Cardinality(S) <= 1
  <1>1. CASE S = {}
    BY <1>1, FS_EmptySet
  <1>2. CASE S # {}
    <2>1. PICK x \in S : S = {x}
      BY <1>2
    <2>2. QED
      BY <2>1, FS_Singleton
  <1>3. QED
    BY <1>1, <1>2

\* A confirmation does what its message showed or nothing, once, however often it is
\* sent and whatever the website plays in between; what the bot is told of a move is
\* true of that very move (blackjack_actions.go, actions.go).
THEOREM BotMovesAsShownHolds == BlackjackSpec => []BotMovesAsShown
  <1>1. TapInv => BotMovesAsShown
    <2> SUFFICES ASSUME TapInv PROVE BotMovesAsShown
      OBVIOUS
    <2>1. ASSUME NEW i \in Interactions
          PROVE  /\ Cardinality(FindByKey(i)) <= 1 /\ Cardinality(ById(i)) <= 1
                 /\ \A m \in ById(i) :
                       /\ m.at = m.request.version /\ m.added = Added(m.request.type)
                       /\ \E q \in shown : q.kind = "ROUND" /\ MoveOf(i, m.request.type, q) = m.request
      <3>1. \A m, n \in FindByKey(i) : m = n
        BY DEF FindByKey, TapInv, KeysApart
      <3>2. \A l, m \in ById(i) : l = m
        BY DEF ById, TapInv, MovesOK
      <3>3. \A m \in ById(i) : m \in moves /\ m.request.id = i
        BY DEF ById
      <3>4. QED
        BY <3>1, <3>2, <3>3, AtMostOne DEF TapInv, MovesOK
    <2>2. \A n \in DOMAIN deals :
             deals[n].stake = 1 + Cardinality({m \in moves : m.request.round = n /\ m.added = 1})
      BY DEF TapInv, StakesOK, Raises
    <2>3. ASSUME NEW c \in TapCalls, tap[c] # NoTap, tap[c].type # "DEAL"
          PROVE  /\ tap[c].stage = "DONE" =>
                       Matches(c) /\ deals[tap[c].round].version > tap[c].quote.version
                 /\ tap[c].stage \in {"REFUSED", "CONFLICT"} => ~Matches(c)
      <3>1. CallOK(c)
        BY DEF TapInv, CallsOK
      <3>2. ASSUME tap[c].stage = "DONE"
            PROVE  Matches(c) /\ deals[tap[c].round].version > tap[c].quote.version
        <4>1. Matches(c) /\ tap[c].round = tap[c].quote.round
          BY <2>3, <3>1, <3>2 DEF CallOK
        <4>2. PICK m \in moves : m.request = MoveRequest(c)
          BY <4>1 DEF Matches, ById
        <4>3. /\ m.at = tap[c].quote.version /\ m.at \in Nat /\ m.request.round = tap[c].quote.round
              /\ m.request.round \in DOMAIN deals /\ m.at < deals[m.request.round].version
          BY <4>2 DEF MoveRequest, MoveOf, TapInv, MovesOK
        <4>4. deals[m.request.round].version \in Nat
          BY <4>3, DealsTyped DEF TapInv
        <4>5. QED
          BY <4>1, <4>3, <4>4
      <3>3. QED
        BY <2>3, <3>1, <3>2 DEF CallOK
    <2>4. QED
      BY <2>1, <2>2, <2>3 DEF BotMovesAsShown
  <1>2. QED
    BY TapInitially, TapStep, <1>1, PTL DEF BlackjackSpec
=============================================================================
