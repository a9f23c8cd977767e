------------------------------- MODULE Wallet -------------------------------
(***************************************************************************)
(* The wallet ledger of internal/platform: accounts with two wallets, the  *)
(* immutable ledger, the idempotency records that let a client repeat a    *)
(* request whose outcome it does not know, the rewards (daily, hourly,     *)
(* relief) with the asset cap, the exchange between the two assets, and    *)
(* the settlement of relay usage.                                          *)
(*                                                                         *)
(* db is the committed database.  A request runs in one database           *)
(* transaction of a server process.  Everything from the economy lock of   *)
(* the user to the COMMIT is one step, since the lock is held to the end   *)
(* and every row read there belongs to that user; what is read before it   *)
(* (the prior receipt, the clock, the maintenance switch) is an earlier    *)
(* step of the process.                                                    *)
(***************************************************************************)
EXTENDS Integers, FiniteSets, CapPolicy

CONSTANTS
    Users, Keys,        \* accounts, client idempotency keys (UUIDs)
    GameKeys,           \* idempotency keys of the games, never UUIDs
    Requests,           \* relay request ids, also used as idempotency keys
    Procs,              \* server transactions that may run concurrently
    Kinds,              \* the kinds of client request issued
    Amounts, Costs,     \* exchange amounts and relay costs tried
    GameMutations,      \* mutations submitted by the games through ApplyInTx
    InFlights,          \* values of the units held by games and rooms
    Scopes,             \* maintenance scopes that Ops switches
    AssetCap, DailyAmount, HourlyAmount, ReliefAmount, ReliefThreshold,
    HoursPerDay, HourlyDailyLimit, ReliefCooldown,
    MaxInt,             \* math.MaxInt64
    MaxNow              \* bound on the clock, in hours

Assets == {"RESERVE", "CHIPS"}
RewardKinds == {"DAILY", "HOURLY", "RELIEF"}
AllKinds == RewardKinds \cup {"EXCHANGE"}
AllScopes == {"USER_WRITES", "REWARDS", "WALLET_EXCHANGE"}

ASSUME ConstantsAssumption ==
    /\ MaxInt \in Nat /\ MaxNow \in Nat
    /\ Amounts \subseteq (Nat \ {0}) /\ Costs \subseteq Nat /\ InFlights \subseteq Nat
    /\ DailyAmount \in Nat \ {0} /\ HourlyAmount \in Nat \ {0}
    /\ ReliefAmount \in Nat \ {0} /\ ReliefThreshold \in Nat
    /\ AssetCap \in Nat \ {0}
    /\ HoursPerDay \in Nat \ {0} /\ HourlyDailyLimit \in Nat /\ ReliefCooldown \in Nat
    /\ Kinds \subseteq AllKinds /\ Scopes \subseteq AllScopes
    /\ \A m \in GameMutations : /\ DOMAIN m = {"user", "asset", "delta", "biz", "entry"}
                                /\ m.user \in Users /\ m.asset \in Assets
                                /\ m.delta \in Int \ {0} /\ m.entry = "GAME"
                                /\ m.biz[1] = "GAME"

VARIABLES
    db,         \* the committed tables
    proc,       \* the open transaction of each server process
    now,        \* the database clock
    maint,      \* the maintenance scopes that are active
    policy,     \* whether the asset-cap policy is active
    inflight    \* units of each user held outside the wallets

vars == <<db, proc, now, maint, policy, inflight>>

Day(hour) == hour \div HoursPerDay

Put(f, k, v) == [x \in DOMAIN f \cup {k} |-> IF x = k THEN v ELSE f[x]]
Empty == [x \in {} |-> {}]

EmptyDB ==
    [accounts |-> {},
     wallets |-> [u \in Users |-> [a \in Assets |-> [balance |-> 0, seq |-> 0]]],
     ledger |-> Empty,       \* <<user, asset, seq>> -> entry
     txns |-> Empty,         \* business identity -> transaction
     idem |-> Empty,         \* <<user, scope, key>> -> idempotency record
     rewardKeys |-> Empty,   \* <<user, key>> -> reward request key
     caps |-> Empty,         \* <<business identity, user>> -> cap settlement
     daily |-> Empty,        \* <<user, day>> -> business identity
     hourly |-> Empty,       \* <<user, hour>> -> business identity
     relief |-> {},          \* relief claims
     usage |-> Empty,        \* <<user, request>> -> relay attribution
     keyUsed |-> [u \in Users |-> 0]]

Idle == [phase |-> "idle"]

-----------------------------------------------------------------------------
(* Operators on the database.  Each returns [ok, db, biz]: an error rolls   *)
(* the transaction back, so its db is the one the transaction started from. *)

Fail(d) == [ok |-> FALSE, db |-> d, biz |-> <<>>]
Done(d, b) == [ok |-> TRUE, db |-> d, biz |-> b]

\* One leg: the wallet row and the ledger entry that explains it.
\* Mutant: the row's ledger_seq is not advanced with its balance.
NextRowStaleSeq(w, delta) == [balance |-> w.balance + delta, seq |-> w.seq]
NextRow(w, delta) == [balance |-> w.balance + delta, seq |-> w.seq + 1]
NextEntry(w, delta, b, leg) ==
    [biz |-> b, leg |-> leg, delta |-> delta, before |-> w.balance, after |-> w.balance + delta]
SetRow(rows, u, a, row) ==
    [v \in Users |-> [c \in Assets |-> IF v = u /\ c = a THEN row ELSE rows[v][c]]]
EntryKey(u, a, n) == <<u, a, n>>
PostLeg(d, u, a, delta, b, leg) ==
    LET w == d.wallets[u][a]
    IN  [d EXCEPT !.wallets = SetRow(@, u, a, NextRow(w, delta)),
                  !.ledger = Put(@, EntryKey(u, a, w.seq + 1), NextEntry(w, delta, b, leg))]

\* Mutant: the overdraft check is missing.
AffordsOverdraft(w, delta) == w.balance + delta <= MaxInt /\ w.seq < MaxInt
\* The balance check of applyInTx: ErrInsufficientBalance, ErrBalanceOverflow.
Affords(w, delta) ==
    /\ w.balance + delta >= 0
    /\ w.balance + delta <= MaxInt
    /\ w.seq < MaxInt

\* hashes: the key of a user's mutation in a scope; the hash of its content is the
\* mutation itself.
IdemKey(u, scope, k) == <<u, scope, k>>
RewardKey(u, k) == <<u, k>>
\* A row of asset_transactions, of mutation_idempotency_records, of reward_request_keys.
Book(d, b, u, op, hash) == [d EXCEPT !.txns = Put(@, b, [user |-> u, op |-> op, hash |-> hash])]
Remember(d, i, hash, b) == [d EXCEPT !.idem = Put(@, i, [hash |-> hash, biz |-> b])]
Reserve(d, y, hash, b) == [d EXCEPT !.rewardKeys = Put(@, y, [hash |-> hash, biz |-> b])]

\* Mutant: the business identity is not looked up before posting.
applyInTxPerKey(d, m, k) ==
    LET i == IdemKey(m.user, "apply", k)
        posted == PostLeg(d, m.user, m.asset, m.delta, m.biz, 1)
    IN  IF i \in DOMAIN d.idem \/ RewardKey(m.user, k) \in DOMAIN d.rewardKeys THEN Fail(d)
        ELSE IF m.user \in d.accounts /\ Affords(d.wallets[m.user][m.asset], m.delta)
             THEN Done(Remember(Book(posted, m.biz, m.user, m.entry, m), i, m, m.biz), m.biz)
        ELSE Fail(d)

applyInTx(d, m, k) ==
    LET i == IdemKey(m.user, "apply", k)
        posted == PostLeg(d, m.user, m.asset, m.delta, m.biz, 1)
    IN  IF RewardKey(m.user, k) \in DOMAIN d.rewardKeys THEN Fail(d)
        ELSE IF i \in DOMAIN d.idem
             THEN IF d.idem[i].hash = m THEN Done(d, d.idem[i].biz) ELSE Fail(d)
        ELSE IF m.biz \in DOMAIN d.txns
             THEN IF d.txns[m.biz].user = m.user /\ d.txns[m.biz].hash = m
                  THEN Done(Remember(d, i, m, m.biz), m.biz)
                  ELSE Fail(d)
        ELSE IF m.user \in d.accounts /\ Affords(d.wallets[m.user][m.asset], m.delta)
             THEN Done(Remember(Book(posted, m.biz, m.user, m.entry, m), i, m, m.biz), m.biz)
        ELSE Fail(d)

\* ReadUnifiedAssetsInTx: both wallets and what games and rooms hold.
TotalAssets(d, u, outside) ==
    d.wallets[u]["RESERVE"].balance + d.wallets[u]["CHIPS"].balance + outside

\* Mutant: a zero reward does not check whether its key was used before.
zeroRewardAnyKey(d, m, k) ==
    IF m.biz \in DOMAIN d.txns
    THEN IF d.txns[m.biz].user = m.user THEN Done(d, m.biz) ELSE Fail(d)
    ELSE Done(Book(d, m.biz, m.user, m.entry, m), m.biz)

\* A reward clipped to nothing: a transaction without a ledger leg.
zeroReward(d, m, k) ==
    IF IdemKey(m.user, "apply", k) \in DOMAIN d.idem THEN Fail(d)
    ELSE IF m.biz \in DOMAIN d.txns
         THEN IF d.txns[m.biz].user = m.user THEN Done(d, m.biz) ELSE Fail(d)
    ELSE Done(Book(d, m.biz, m.user, m.entry, m), m.biz)

\* The tail of applyRewardInTx, for the cap settlement c of the reward.
Clip(m, credited) == [m EXCEPT !.delta = credited]
\* RecordCapSettlementInTx, after PrepareCapSettlementInTx computed c.
RecordCap(d, m, c) == [d EXCEPT !.caps = Put(@, <<m.biz, m.user>>, c)]
grantCapped(d, m, k, c) ==
    LET r == IF c.credited > 0 THEN applyInTx(d, Clip(m, c.credited), k) ELSE zeroReward(d, m, k)
    IN  IF r.ok
        THEN Done(Reserve(RecordCap(r.db, m, c), RewardKey(m.user, k), m, r.biz), r.biz)
        ELSE Fail(d)

applyRewardInTx(d, m, k, active, outside) ==
    LET rk == RewardKey(m.user, k)
        c == <<m.biz, m.user>>
        total == TotalAssets(d, m.user, outside)
    IN  IF rk \in DOMAIN d.rewardKeys
        THEN IF d.rewardKeys[rk].hash = m THEN Done(d, d.rewardKeys[rk].biz) ELSE Fail(d)
        ELSE IF c \in DOMAIN d.caps
             THEN IF d.caps[c].gross = m.delta THEN grantCapped(d, m, k, d.caps[c]) ELSE Fail(d)
        ELSE IF m.biz \in DOMAIN d.txns \/ ~active THEN applyInTx(d, m, k)
        ELSE IF m.user \in d.accounts /\ total <= MaxInt
             THEN grantCapped(d, m, k, CapPayout(AssetCap, total, 0, m.delta, 1))
        ELSE Fail(d)

\* Whether a request key already has an outcome in the scope of its kind.
operationScope(kind) == IF kind \in RewardKinds THEN "apply" ELSE "exchange"
findOperation(d, u, kind, k) ==
    LET s == operationScope(kind)
    IN  {d.idem[x].biz : x \in {<<u, s, k>>} \cap DOMAIN d.idem}
        \cup {d.rewardKeys[x].biz :
                x \in IF s = "apply" THEN {<<u, k>>} \cap DOMAIN d.rewardKeys ELSE {}}

rewardMutation(u, entry, amount, period) ==
    [user |-> u, asset |-> "RESERVE", delta |-> amount,
     biz |-> <<entry, u, period>>, entry |-> entry]
dailyMutation(u, day) == rewardMutation(u, "DAILY", DailyAmount, day)
hourlyMutation(u, hour) == rewardMutation(u, "HOURLY", HourlyAmount, hour)
reliefMutation(u, id) == rewardMutation(u, "RELIEF", ReliefAmount, id)

\* claimed_at of the latest relief claim decides the cooldown.
ReliefOf(d, u) == {c \in d.relief : c.user = u}
reliefCooling(d, u, at) == \E c \in ReliefOf(d, u) : at < c.at + ReliefCooldown

hourlyClaimsOn(d, u, day) == {x \in DOMAIN d.hourly : x[1] = u /\ Day(x[2]) = day}

ClaimDailyTx(d, u, k, day, active, outside) ==
    LET r == applyRewardInTx(d, dailyMutation(u, day), k, active, outside)
    IN  IF ~r.ok \/ <<u, day>> \in DOMAIN d.daily THEN r
        ELSE Done([r.db EXCEPT !.daily = Put(@, <<u, day>>, r.biz)], r.biz)

ClaimHourlyTx(d, u, k, hour, active, outside) ==
    LET r == applyRewardInTx(d, hourlyMutation(u, hour), k, active, outside)
    IN  IF ~r.ok \/ <<u, hour>> \in DOMAIN d.hourly THEN Fail(d)
        ELSE Done([r.db EXCEPT !.hourly = Put(@, <<u, hour>>, r.biz)], r.biz)

\* hourlyClaimInTx: a second key for an hour already claimed gets its receipt.
ReplayHourlyTx(d, u, k, hour, active, outside) ==
    LET r == applyRewardInTx(d, hourlyMutation(u, hour), k, active, outside)
    IN  IF r.ok /\ r.biz = d.hourly[<<u, hour>>] THEN r ELSE Fail(d)

claimReliefRewardInTx(d, u, k, at, active, outside) ==
    LET id == Cardinality(ReliefOf(d, u)) + 1    \* a fresh claim id
        total == TotalAssets(d, u, outside)
        r == applyRewardInTx(d, reliefMutation(u, id), k, active, outside)
    IN  IF u \notin d.accounts \/ total > MaxInt \/ total >= ReliefThreshold \/ ~r.ok
        THEN Fail(d)
        ELSE Done([r.db EXCEPT !.relief = @ \cup {[user |-> u, at |-> at, biz |-> r.biz]}], r.biz)

OtherAsset(a) == IF a = "RESERVE" THEN "CHIPS" ELSE "RESERVE"

exchangeInTx(d, u, k, from, amount) ==
    LET b == <<"EXCHANGE", u, k>>
        i == IdemKey(u, "exchange", k)
        hash == [user |-> u, asset |-> from, delta |-> amount]
        debited == PostLeg(d, u, from, -amount, b, 1)
        posted == PostLeg(debited, u, OtherAsset(from), amount, b, 2)
    IN  IF /\ u \in d.accounts /\ b \notin DOMAIN d.txns /\ i \notin DOMAIN d.idem
           /\ Affords(d.wallets[u][from], -amount)
           /\ Affords(d.wallets[u][OtherAsset(from)], amount)
        THEN Done(Remember(Book(posted, b, u, "EXCHANGE", hash), i, hash, b), b)
        ELSE Fail(d)

settleRelay(d, u, req, cost) ==
    LET charged == Least(d.wallets[u]["RESERVE"].balance, cost)
        m == [user |-> u, asset |-> "RESERVE", delta |-> -charged,
              biz |-> <<"API_USAGE", req>>, entry |-> "API_USAGE"]
        r == IF charged > 0 THEN applyInTx(d, m, req) ELSE Done(d, <<>>)
    IN  IF u \in d.accounts /\ r.ok
        THEN Done([r.db EXCEPT !.keyUsed[u] = @ + cost,
                     !.usage = Put(@, <<u, req>>, [cost |-> cost, charged |-> charged])], r.biz)
        ELSE Fail(d)
-----------------------------------------------------------------------------
(* Server processes.  Phases: "asked" holds the advisory lock of the        *)
(* request, "held" the lock of the reward and the user, "guarded" the       *)
(* shared maintenance guards as well; "replay" serves an hour already paid. *)

Phases == {"asked", "held", "guarded", "replay"}
Open(p) == proc[p].phase # "idle"

RequestLocked(kind, u, k) ==
    \E q \in Procs : Open(q) /\ proc[q].kind = kind /\ proc[q].user = u /\ proc[q].key = k
\* Mutant: claims of one user are not serialised.
RewardUserNeverLocked(kind, u) == FALSE
RewardUserLocked(kind, u) ==
    \E q \in Procs : /\ proc[q].phase \in {"held", "guarded", "replay"}
                     /\ proc[q].kind = kind /\ proc[q].user = u

GuardScopes(kind) ==
    {"USER_WRITES", IF kind \in RewardKinds THEN "REWARDS" ELSE "WALLET_EXCHANGE"}
Blocked(kind) == GuardScopes(kind) \cap maint # {}

Enter(p, phase, guard, period) ==
    proc' = [proc EXCEPT ![p] = [@ EXCEPT !.phase = phase, !.guard = guard, !.period = period]]
Finish(p) == proc' = [proc EXCEPT ![p] = Idle]

EnsureAccount(u) ==
    /\ u \notin db.accounts
    /\ "USER_WRITES" \notin maint
    /\ db' = [db EXCEPT !.accounts = @ \cup {u}]
    /\ UNCHANGED <<proc, now, maint, policy, inflight>>

\* A request starts: it takes its request lock and looks for its receipt; a
\* request that finds one replies with it (or a conflict) and changes nothing.
Ask(p, kind, u, k, from, amount) ==
    /\ ~Open(p)
    /\ ~RequestLocked(kind, u, k)
    /\ findOperation(db, u, kind, k) = {}
    /\ proc' = [proc EXCEPT ![p] = [phase |-> "asked", kind |-> kind, user |-> u, key |-> k,
                                    from |-> from, amount |-> amount, guard |-> FALSE,
                                    period |-> 0]]
    /\ UNCHANGED <<db, now, maint, policy, inflight>>

\* RequireNoMaintenance of ClaimDaily and exchangeInTx, then the clock.
Guard(p) ==
    /\ proc[p].phase = "asked" /\ proc[p].kind \in {"DAILY", "EXCHANGE"}
    /\ ~Blocked(proc[p].kind)
    /\ Enter(p, "guarded", TRUE, Day(now))
    /\ UNCHANGED <<db, now, maint, policy, inflight>>

HoldHourly(p) ==
    /\ proc[p].phase = "asked" /\ proc[p].kind = "HOURLY"
    /\ ~RewardUserLocked("HOURLY", proc[p].user)
    /\ Enter(p, IF <<proc[p].user, now>> \in DOMAIN db.hourly THEN "replay" ELSE "held",
             FALSE, now)
    /\ UNCHANGED <<db, now, maint, policy, inflight>>

\* The clock is read again after the guard; the checks are made for that hour.
GuardHourly(p) ==
    LET claimed == <<proc[p].user, now>> \in DOMAIN db.hourly
    IN  /\ proc[p].phase = "held" /\ proc[p].kind = "HOURLY"
        /\ ~Blocked("HOURLY")
        /\ \/ claimed
           \/ Cardinality(hourlyClaimsOn(db, proc[p].user, Day(now))) < HourlyDailyLimit
        /\ Enter(p, IF claimed THEN "replay" ELSE "guarded", TRUE, now)
        /\ UNCHANGED <<db, now, maint, policy, inflight>>

HoldRelief(p) ==
    /\ proc[p].phase = "asked" /\ proc[p].kind = "RELIEF"
    /\ ~RewardUserLocked("RELIEF", proc[p].user)
    /\ ~reliefCooling(db, proc[p].user, now)
    /\ Enter(p, "held", FALSE, now)
    /\ UNCHANGED <<db, now, maint, policy, inflight>>

GuardRelief(p) ==
    /\ proc[p].phase = "held" /\ proc[p].kind = "RELIEF"
    /\ ~Blocked("RELIEF")
    /\ ~reliefCooling(db, proc[p].user, now)
    /\ Enter(p, "guarded", TRUE, now)
    /\ UNCHANGED <<db, now, maint, policy, inflight>>

\* What the process commits once it holds the economy lock of its user.
Outcome(p) ==
    LET q == proc[p]
        out == inflight[q.user]
    IN  CASE q.phase = "replay" -> ReplayHourlyTx(db, q.user, q.key, q.period, policy, out)
          [] q.phase = "guarded" /\ q.kind = "DAILY" ->
                ClaimDailyTx(db, q.user, q.key, q.period, policy, out)
          [] q.phase = "guarded" /\ q.kind = "HOURLY" ->
                ClaimHourlyTx(db, q.user, q.key, q.period, policy, out)
          [] q.phase = "guarded" /\ q.kind = "RELIEF" ->
                claimReliefRewardInTx(db, q.user, q.key, now, policy, out)
          [] q.phase = "guarded" /\ q.kind = "EXCHANGE" ->
                exchangeInTx(db, q.user, q.key, q.from, q.amount)

Commit(p) ==
    /\ proc[p].phase \in {"guarded", "replay"}
    /\ db' = Outcome(p).db
    /\ Finish(p)
    /\ UNCHANGED <<now, maint, policy, inflight>>

\* Any error before the commit, a maintenance refusal, a lost connection or a
\* crash of the server: the transaction rolls back and its locks are released.
Rollback(p) ==
    /\ Open(p)
    /\ Finish(p)
    /\ UNCHANGED <<db, now, maint, policy, inflight>>

Apply(m, k) ==
    /\ applyInTx(db, m, k).ok
    /\ db' = applyInTx(db, m, k).db
    /\ UNCHANGED <<proc, now, maint, policy, inflight>>

SettleRelay(u, req, cost) ==
    /\ <<u, req>> \notin DOMAIN db.usage
    /\ settleRelay(db, u, req, cost).ok
    /\ db' = settleRelay(db, u, req, cost).db
    /\ UNCHANGED <<proc, now, maint, policy, inflight>>

\* Ops replaces the active scopes under every maintenance guard row, so no
\* transaction holds a shared guard.
SaveMaintenance(scopes) ==
    /\ scopes # maint
    /\ \A p \in Procs : ~(Open(p) /\ proc[p].guard)
    /\ maint' = scopes
    /\ UNCHANGED <<db, proc, now, policy, inflight>>

\* The campaign switch of gambler_campaign.go activates the policy once.
ActivatePolicy ==
    /\ ~policy
    /\ policy' = TRUE
    /\ UNCHANGED <<db, proc, now, maint, inflight>>

\* Games and rooms fund and settle under the same economy lock.
MoveInFlight(u, units) ==
    /\ units # inflight[u]
    /\ inflight' = [inflight EXCEPT ![u] = units]
    /\ UNCHANGED <<db, proc, now, maint, policy>>

Tick ==
    /\ now < MaxNow
    /\ now' = now + 1
    /\ UNCHANGED <<db, proc, maint, policy, inflight>>

Init ==
    /\ db = EmptyDB
    /\ proc = [p \in Procs |-> Idle]
    /\ now = 0
    /\ maint = {}
    /\ policy = FALSE
    /\ inflight = [u \in Users |-> 0]

Next ==
    \/ \E u \in Users : EnsureAccount(u)
    \/ \E p \in Procs, kind \in Kinds \ {"EXCHANGE"}, u \in Users, k \in Keys :
            Ask(p, kind, u, k, "RESERVE", 0)
    \/ \E p \in Procs, u \in Users, k \in Keys, from \in Assets, amount \in Amounts :
            "EXCHANGE" \in Kinds /\ Ask(p, "EXCHANGE", u, k, from, amount)
    \/ \E p \in Procs : Guard(p) \/ HoldHourly(p) \/ GuardHourly(p) \/ HoldRelief(p)
                        \/ GuardRelief(p) \/ Commit(p) \/ Rollback(p)
    \/ \E m \in GameMutations, k \in GameKeys : Apply(m, k)
    \/ \E u \in Users, req \in Requests, cost \in Costs : SettleRelay(u, req, cost)
    \/ \E scopes \in SUBSET Scopes : SaveMaintenance(scopes)
    \/ ActivatePolicy
    \/ \E u \in Users, units \in InFlights : MoveInFlight(u, units)
    \/ Tick

Spec == Init /\ [][Next]_vars
-----------------------------------------------------------------------------
(* Properties. *)

Request == [phase : Phases, kind : AllKinds, user : Users, key : Keys, from : Assets,
            amount : Nat, guard : BOOLEAN, period : Nat]
WalletRow == [balance : 0..MaxInt, seq : 0..MaxInt]

\* Type invariant: balances and ledger sequence numbers are int64 values, never
\* negative, wallets exist only with their account, and an open transaction is
\* in a phase its kind can be in.
TablesOf(d) ==
    /\ DOMAIN d = DOMAIN EmptyDB
    /\ d.accounts \subseteq Users
    /\ d.wallets \in [Users -> [Assets -> WalletRow]]
    /\ d.keyUsed \in [Users -> Nat]
    /\ \A c \in DOMAIN d.caps : d.caps[c].credited \in Nat
    /\ \A u \in Users \ d.accounts, a \in Assets : d.wallets[u][a].seq = 0
TypeOK ==
    /\ TablesOf(db)
    /\ proc \in [Procs -> Request \cup {Idle}]
    /\ now \in 0..MaxNow
    /\ maint \subseteq AllScopes
    /\ policy \in BOOLEAN
    /\ inflight \in [Users -> Nat]

\* The wallet rows are a projection of the ledger: a wallet's entries are
\* numbered 1..ledger_seq without a gap, each starts from the balance its
\* predecessor left, and the last one leaves the balance of the row (Apply
\* "atomically commits identity, wallet projection and immutable ledger").
BalanceAfter(d, u, a, n) == IF n = 0 THEN 0 ELSE d.ledger[<<u, a, n>>].after
ChainOf(d) ==
    /\ \A x \in DOMAIN d.ledger : /\ x[1] \in Users /\ x[2] \in Assets
                                  /\ x[3] \in 1..d.wallets[x[1]][x[2]].seq
    /\ \A u \in Users, a \in Assets :
          /\ \A n \in 1..d.wallets[u][a].seq :
                LET e == d.ledger[<<u, a, n>>] IN
                /\ <<u, a, n>> \in DOMAIN d.ledger
                /\ e.before = BalanceAfter(d, u, a, n - 1)
                /\ e.after = e.before + e.delta
          /\ d.wallets[u][a].balance = BalanceAfter(d, u, a, d.wallets[u][a].seq)
LedgerChain == ChainOf(db)

\* A receipt is never dangling or ambiguous: every idempotency record and every
\* reward key leads to a transaction of the same user, and a key that has both
\* leads to one transaction only (findOperation reads a single row of the union).
ReceiptsOf(d) ==
    /\ \A x \in DOMAIN d.idem :
          /\ d.idem[x].biz \in DOMAIN d.txns
          /\ d.txns[d.idem[x].biz].user = x[1]
    /\ \A y \in DOMAIN d.rewardKeys :
          LET i == IdemKey(y[1], "apply", y[2]) IN
          /\ y = RewardKey(y[1], y[2])
          /\ d.rewardKeys[y].biz \in DOMAIN d.txns
          /\ d.txns[d.rewardKeys[y].biz].user = y[1]
          /\ i \in DOMAIN d.idem => d.idem[i].biz = d.rewardKeys[y].biz
ReceiptsResolve == ReceiptsOf(db)

\* However often and under however many keys a business operation is repeated,
\* it is posted once: an exchange has its two legs, equal and opposite, on the
\* two wallets of one user; a reward clipped to zero has none; anything else one.
\* A relay request is charged at most its cost and at most the reserve, and what
\* its attribution reports is exactly what the ledger debited.
LegsOf(d, b) == {x \in DOMAIN d.ledger : d.ledger[x].biz = b}
ClippedToZero(d, b) == \E c \in DOMAIN d.caps : c[1] = b /\ d.caps[c].credited = 0
PostedLegs(d, b) ==
    LET t == d.txns[b]
        legs == LegsOf(d, b)
    IN  /\ \A x \in legs : x[1] = t.user
        /\ IF t.op = "EXCHANGE"
           THEN \E x, y \in legs : /\ legs = {x, y} /\ x[2] # y[2]
                                   /\ d.ledger[x].delta + d.ledger[y].delta = 0
           ELSE IF ClippedToZero(d, b) THEN legs = {}
           ELSE Cardinality(legs) = 1
ChargedLegs(d, x) ==
    LET legs == LegsOf(d, <<"API_USAGE", x[2]>>)
        mine == {y \in legs : y[1] = x[1]}
    IN  /\ d.usage[x].charged <= d.usage[x].cost
        /\ IF d.usage[x].charged = 0 THEN mine = {}
           ELSE \E y \in legs : /\ legs = {y} /\ mine = {y}
                                /\ d.ledger[y].delta = -d.usage[x].charged
PostedOf(d) ==
    /\ \A b \in DOMAIN d.txns : PostedLegs(d, b)
    /\ \A x \in DOMAIN d.usage : ChargedLegs(d, x)
PostedOnce == PostedOf(db)

\* The rewards granted to a user respect the schedule whatever the clock does
\* between the checks and the commit: the hourly claims of a day stay within
\* the limit and two relief claims are a full cooldown apart.  Every claim row is
\* backed by the reward transaction of its own period, so no grant is reported for
\* a transaction that paid another day, hour or user.
Spaced(d, u) ==
    \A c, e \in ReliefOf(d, u) :
        c # e => c.at + ReliefCooldown <= e.at \/ e.at + ReliefCooldown <= c.at
BackedClaims(d) ==
    /\ \A x \in DOMAIN d.daily : d.daily[x] = <<"DAILY", x[1], x[2]>>
    /\ \A x \in DOMAIN d.hourly : d.hourly[x] = <<"HOURLY", x[1], x[2]>>
    /\ \A b \in DOMAIN d.txns :
          /\ b[1] = "DAILY" => <<b[2], b[3]>> \in DOMAIN d.daily
          /\ b[1] = "HOURLY" => <<b[2], b[3]>> \in DOMAIN d.hourly
          /\ b[1] = "RELIEF" => Cardinality({c \in d.relief : c.biz = b}) = 1
ScheduleOf(d) ==
    /\ \A x \in DOMAIN d.hourly :
          Cardinality(hourlyClaimsOn(d, x[1], Day(x[2]))) <= HourlyDailyLimit
    /\ \A u \in Users : Spaced(d, u)
    /\ BackedClaims(d)
RewardSchedule == ScheduleOf(db)

\* Once the policy is active a reward never lifts a user's assets above the cap;
\* a user already above it gets nothing.
RewardCapped ==
    [][\A u \in Users :
          LET before == TotalAssets(db, u, inflight[u])
              after == TotalAssets(db', u, inflight[u])
          IN  policy /\ inflight' = inflight /\ after > before
              /\ (\E b \in DOMAIN db'.txns \ DOMAIN db.txns : b[1] \in RewardKinds)
              => after <= AssetCap]_vars
=============================================================================
