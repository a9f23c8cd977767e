---------------------------- MODULE WalletProofs ----------------------------
(***************************************************************************)
(* Proofs about Wallet and Relay, for every set of users, keys and         *)
(* amounts: type correctness, the ledger chain, the resolution of receipts,*)
(* the accounts of the relay, and on the sound database of these that a    *)
(* business operation is posted once, that the rewards respect their       *)
(* schedule and that a reward never lifts a user above the asset cap.      *)
(***************************************************************************)
EXTENDS Wallet, Relay, FiniteSetTheorems, TLAPS

\* What every operator on the database preserves.
Sound(d) == TablesOf(d) /\ ChainOf(d) /\ ReceiptsOf(d)

Mutation(m) ==
    /\ DOMAIN m = {"user", "asset", "delta", "biz", "entry"}
    /\ m.user \in Users /\ m.asset \in Assets /\ m.delta \in Int

\* The fields of a database record.
LEMMA Fields ==
  DOMAIN EmptyDB = {"accounts", "wallets", "ledger", "txns", "idem", "rewardKeys", "caps",
                    "daily", "hourly", "relief", "usage", "keyUsed"}
  BY DEF EmptyDB

\* PostLeg touches one wallet row and adds the ledger entry that explains it.
LEMMA PostLegFields ==
  ASSUME NEW d, TablesOf(d), NEW u \in Users, NEW a \in Assets, NEW delta \in Int,
         NEW b, NEW leg
  PROVE  /\ DOMAIN PostLeg(d, u, a, delta, b, leg) = DOMAIN EmptyDB
         /\ PostLeg(d, u, a, delta, b, leg).wallets =
               SetRow(d.wallets, u, a, NextRow(d.wallets[u][a], delta))
         /\ PostLeg(d, u, a, delta, b, leg).ledger =
               Put(d.ledger, EntryKey(u, a, d.wallets[u][a].seq + 1),
                   NextEntry(d.wallets[u][a], delta, b, leg))
         /\ PostLeg(d, u, a, delta, b, leg).accounts = d.accounts
         /\ PostLeg(d, u, a, delta, b, leg).keyUsed = d.keyUsed
         /\ PostLeg(d, u, a, delta, b, leg).caps = d.caps
         /\ PostLeg(d, u, a, delta, b, leg).txns = d.txns
         /\ PostLeg(d, u, a, delta, b, leg).idem = d.idem
         /\ PostLeg(d, u, a, delta, b, leg).rewardKeys = d.rewardKeys
  BY Fields DEF PostLeg, TablesOf

\* An affordable leg of an existing account keeps the tables typed.
LEMMA PostLegTables ==
  ASSUME NEW d, TablesOf(d), NEW u \in d.accounts, NEW a \in Assets, NEW delta \in Int,
         NEW b, NEW leg, Affords(d.wallets[u][a], delta)
  PROVE  TablesOf(PostLeg(d, u, a, delta, b, leg))
  <1> DEFINE e == PostLeg(d, u, a, delta, b, leg)
             w == d.wallets[u][a]
             row == NextRow(w, delta)
  <1>0. u \in Users
    BY DEF TablesOf
  <1>1. w \in WalletRow /\ MaxInt \in Nat
    BY <1>0, ConstantsAssumption DEF TablesOf
  <1>2. row \in WalletRow
    BY <1>1 DEF Affords, WalletRow, NextRow
  <1>3. /\ DOMAIN e = DOMAIN EmptyDB
        /\ e.wallets = SetRow(d.wallets, u, a, row)
        /\ e.accounts = d.accounts /\ e.keyUsed = d.keyUsed /\ e.caps = d.caps
    BY <1>0, PostLegFields
  <1>4. e.wallets \in [Users -> [Assets -> WalletRow]]
    <2>1. d.wallets \in [Users -> [Assets -> WalletRow]]
      BY DEF TablesOf
    <2> QED
      BY <1>2, <1>3, <2>1 DEF SetRow
  <1>5. \A v \in Users \ e.accounts, c \in Assets : e.wallets[v][c].seq = 0
    BY <1>0, <1>3 DEF TablesOf, SetRow
  <1> HIDE DEF e
  <1>6. TablesOf(e)
    BY <1>3, <1>4, <1>5 DEF TablesOf
  <1> QED
    BY <1>6 DEF e

\* A leg extends the chain of its wallet and leaves every other chain alone.
LEMMA PostLegChain ==
  ASSUME NEW d, TablesOf(d), ChainOf(d), NEW u \in Users, NEW a \in Assets, NEW delta \in Int,
         NEW b, NEW leg
  PROVE  ChainOf(PostLeg(d, u, a, delta, b, leg))
  <1> DEFINE e == PostLeg(d, u, a, delta, b, leg)
             w == d.wallets[u][a]
             k == <<u, a, w.seq + 1>>
             entry == NextEntry(w, delta, b, leg)
  <1>1. d.wallets \in [Users -> [Assets -> WalletRow]]
    BY DEF TablesOf
  <1>2. \A v \in Users, c \in Assets : d.wallets[v][c].seq \in Nat /\ d.wallets[v][c].balance \in Int
    BY <1>1, ConstantsAssumption DEF WalletRow
  <1>3. /\ e.wallets[u][a].balance = w.balance + delta
        /\ e.wallets[u][a].seq = w.seq + 1
        /\ \A v \in Users, c \in Assets : (v # u \/ c # a) => e.wallets[v][c] = d.wallets[v][c]
    <2>1. e.wallets = SetRow(d.wallets, u, a, NextRow(w, delta))
      BY PostLegFields
    <2> QED
      BY <1>1, <2>1 DEF SetRow, NextRow
  <1>4. /\ DOMAIN e.ledger = DOMAIN d.ledger \cup {k}
        /\ e.ledger[k] = entry
        /\ \A x \in DOMAIN d.ledger : x # k => e.ledger[x] = d.ledger[x]
    <2>1. e.ledger = Put(d.ledger, EntryKey(u, a, w.seq + 1), entry)
      BY PostLegFields
    <2>2. k = EntryKey(u, a, w.seq + 1)
      BY DEF EntryKey
    <2> HIDE DEF e, entry, k
    <2> QED
      BY <2>1, <2>2 DEF Put
  <1>5. k \notin DOMAIN d.ledger
    <2>1. k[1] = u /\ k[2] = a /\ k[3] = w.seq + 1
      OBVIOUS
    <2> QED
      BY <2>1, <1>2 DEF ChainOf
  <1> HIDE DEF e
  <1>6. ASSUME NEW x \in DOMAIN e.ledger
        PROVE  x[1] \in Users /\ x[2] \in Assets /\ x[3] \in 1..e.wallets[x[1]][x[2]].seq
    <2>1. CASE x = k
      BY <2>1, <1>2, <1>3
    <2>2. CASE x # k
      <3>1. x \in DOMAIN d.ledger
        BY <2>2, <1>4
      <3>2. x[1] \in Users /\ x[2] \in Assets /\ x[3] \in 1..d.wallets[x[1]][x[2]].seq
        BY <3>1 DEF ChainOf
      <3>3. d.wallets[x[1]][x[2]].seq <= e.wallets[x[1]][x[2]].seq
            /\ e.wallets[x[1]][x[2]].seq \in Nat
        BY <3>2, <1>2, <1>3
      <3> QED
        BY <3>2, <3>3, <1>2
    <2> QED
      BY <2>1, <2>2
  <1>7. ASSUME NEW v \in Users, NEW c \in Assets, v # u \/ c # a
        PROVE  /\ \A n \in 1..e.wallets[v][c].seq :
                     /\ <<v, c, n>> \in DOMAIN e.ledger
                     /\ e.ledger[<<v, c, n>>].before = BalanceAfter(e, v, c, n - 1)
                     /\ e.ledger[<<v, c, n>>].after =
                           e.ledger[<<v, c, n>>].before + e.ledger[<<v, c, n>>].delta
               /\ e.wallets[v][c].balance = BalanceAfter(e, v, c, e.wallets[v][c].seq)
    <2>1. e.wallets[v][c] = d.wallets[v][c]
      BY <1>3, <1>7
    <2>2. \A n \in Nat : <<v, c, n>> # k
      BY <1>7
    <2>3. \A n \in 1..d.wallets[v][c].seq : /\ <<v, c, n>> \in DOMAIN d.ledger
                                           /\ e.ledger[<<v, c, n>>] = d.ledger[<<v, c, n>>]
      BY <2>2, <1>4, <1>2 DEF ChainOf
    <2>4. \A n \in 0..d.wallets[v][c].seq : BalanceAfter(e, v, c, n) = BalanceAfter(d, v, c, n)
      BY <2>3, <1>2 DEF BalanceAfter
    <2> QED
      BY <2>1, <2>3, <2>4, <1>2, <1>4 DEF ChainOf
  <1>8. /\ \A n \in 1..e.wallets[u][a].seq :
              /\ <<u, a, n>> \in DOMAIN e.ledger
              /\ e.ledger[<<u, a, n>>].before = BalanceAfter(e, u, a, n - 1)
              /\ e.ledger[<<u, a, n>>].after =
                    e.ledger[<<u, a, n>>].before + e.ledger[<<u, a, n>>].delta
        /\ e.wallets[u][a].balance = BalanceAfter(e, u, a, e.wallets[u][a].seq)
    <2>1. w.seq \in Nat /\ w.balance \in Int
      BY <1>2
    <2>2. \A n \in 1..w.seq : /\ <<u, a, n>> \in DOMAIN d.ledger /\ <<u, a, n>> # k
                              /\ e.ledger[<<u, a, n>>] = d.ledger[<<u, a, n>>]
      BY <2>1, <1>4 DEF ChainOf
    <2>3. \A n \in 0..w.seq : BalanceAfter(e, u, a, n) = BalanceAfter(d, u, a, n)
      BY <2>2, <2>1 DEF BalanceAfter
    <2>4. BalanceAfter(e, u, a, w.seq) = w.balance
      BY <2>3, <2>1 DEF ChainOf
    <2>5. BalanceAfter(e, u, a, w.seq + 1) = w.balance + delta
      BY <2>1, <1>4 DEF BalanceAfter, NextEntry
    <2>6. ASSUME NEW n \in 1..w.seq
          PROVE  /\ <<u, a, n>> \in DOMAIN e.ledger
                 /\ e.ledger[<<u, a, n>>].before = BalanceAfter(e, u, a, n - 1)
                 /\ e.ledger[<<u, a, n>>].after =
                       e.ledger[<<u, a, n>>].before + e.ledger[<<u, a, n>>].delta
      BY <2>1, <2>2, <2>3, <1>4 DEF ChainOf
    <2>7. /\ k \in DOMAIN e.ledger
          /\ e.ledger[k].before = BalanceAfter(e, u, a, (w.seq + 1) - 1)
          /\ e.ledger[k].after = e.ledger[k].before + e.ledger[k].delta
      BY <2>1, <2>4, <1>4 DEF NextEntry
    <2>8. \A n \in 1..(w.seq + 1) : n \in 1..w.seq \/ n = w.seq + 1
      BY <2>1
    <2> QED
      BY <2>5, <2>6, <2>7, <2>8, <1>3
  <1>9. ChainOf(e)
    BY <1>6, <1>7, <1>8 DEF ChainOf
  <1> QED
    BY <1>9 DEF e

\* Soundness reads only the core tables: claim rows, cap settlements and relay
\* attributions may be added freely.
LEMMA FrameSound ==
  ASSUME NEW d, NEW e, Sound(d), DOMAIN e = DOMAIN EmptyDB,
         e.accounts = d.accounts, e.wallets = d.wallets, e.ledger = d.ledger,
         e.txns = d.txns, e.idem = d.idem, e.rewardKeys = d.rewardKeys,
         e.keyUsed \in [Users -> Nat],
         \A c \in DOMAIN e.caps : e.caps[c].credited \in Nat
  PROVE  Sound(e)
  <1>1. TablesOf(e)
    BY DEF Sound, TablesOf
  <1>2. ChainOf(e)
    BY DEF Sound, ChainOf, BalanceAfter
  <1>3. ReceiptsOf(e)
    BY DEF Sound, ReceiptsOf
  <1> QED
    BY <1>1, <1>2, <1>3 DEF Sound

\* A new transaction row leaves every receipt where it was.
LEMMA BookSound ==
  ASSUME NEW d, Sound(d), NEW b, b \notin DOMAIN d.txns, NEW u, NEW op, NEW hash
  PROVE  /\ Sound(Book(d, b, u, op, hash))
         /\ b \in DOMAIN Book(d, b, u, op, hash).txns
         /\ Book(d, b, u, op, hash).txns[b].user = u
         /\ Book(d, b, u, op, hash).idem = d.idem
         /\ Book(d, b, u, op, hash).rewardKeys = d.rewardKeys
  <1> DEFINE e == Book(d, b, u, op, hash)
             t == [user |-> u, op |-> op, hash |-> hash]
  <1>1. /\ DOMAIN e = DOMAIN EmptyDB /\ e.accounts = d.accounts /\ e.wallets = d.wallets
        /\ e.ledger = d.ledger /\ e.idem = d.idem /\ e.rewardKeys = d.rewardKeys
        /\ e.keyUsed = d.keyUsed /\ e.caps = d.caps /\ e.txns = Put(d.txns, b, t)
    BY Fields DEF Book, Sound, TablesOf
  <1> HIDE DEF e
  <1>2. /\ b \in DOMAIN e.txns /\ e.txns[b].user = u
        /\ \A x \in DOMAIN d.txns : x \in DOMAIN e.txns /\ e.txns[x] = d.txns[x]
    BY <1>1 DEF Put
  <1>3. TablesOf(e)
    BY <1>1 DEF Sound, TablesOf
  <1>4. ChainOf(e)
    BY <1>1 DEF Sound, ChainOf, BalanceAfter
  <1>5. ReceiptsOf(e)
    BY <1>1, <1>2 DEF Sound, ReceiptsOf
  <1>6. Sound(e)
    BY <1>3, <1>4, <1>5 DEF Sound
  <1> QED
    BY <1>1, <1>2, <1>6 DEF e

\* An idempotency record may be added for a key that no reward has reserved.
LEMMA RememberSound ==
  ASSUME NEW d, Sound(d), NEW i, NEW hash, NEW b \in DOMAIN d.txns, d.txns[b].user = i[1],
         \A y \in DOMAIN d.rewardKeys : IdemKey(y[1], "apply", y[2]) # i
  PROVE  /\ Sound(Remember(d, i, hash, b))
         /\ i \in DOMAIN Remember(d, i, hash, b).idem
         /\ Remember(d, i, hash, b).idem[i].biz = b
         /\ Remember(d, i, hash, b).txns = d.txns
         /\ Remember(d, i, hash, b).rewardKeys = d.rewardKeys
  <1> DEFINE e == Remember(d, i, hash, b)
             r == [hash |-> hash, biz |-> b]
  <1>1. /\ DOMAIN e = DOMAIN EmptyDB /\ e.accounts = d.accounts /\ e.wallets = d.wallets
        /\ e.ledger = d.ledger /\ e.txns = d.txns /\ e.rewardKeys = d.rewardKeys
        /\ e.keyUsed = d.keyUsed /\ e.caps = d.caps /\ e.idem = Put(d.idem, i, r)
    BY Fields DEF Remember, Sound, TablesOf
  <1> HIDE DEF e
  <1>2. /\ i \in DOMAIN e.idem /\ e.idem[i].biz = b
        /\ \A x \in DOMAIN e.idem : x # i => x \in DOMAIN d.idem /\ e.idem[x] = d.idem[x]
    BY <1>1 DEF Put
  <1>3. TablesOf(e)
    BY <1>1 DEF Sound, TablesOf
  <1>4. ChainOf(e)
    BY <1>1 DEF Sound, ChainOf, BalanceAfter
  <1>5. ReceiptsOf(e)
    BY <1>1, <1>2 DEF Sound, ReceiptsOf
  <1>6. Sound(e)
    BY <1>3, <1>4, <1>5 DEF Sound
  <1> QED
    BY <1>1, <1>2, <1>6 DEF e

\* A reward key may be reserved for the transaction its idempotency record names.
LEMMA ReserveSound ==
  ASSUME NEW d, Sound(d), NEW u, NEW k, NEW hash, NEW b \in DOMAIN d.txns, d.txns[b].user = u,
         IdemKey(u, "apply", k) \in DOMAIN d.idem => d.idem[IdemKey(u, "apply", k)].biz = b
  PROVE  /\ Sound(Reserve(d, RewardKey(u, k), hash, b))
         /\ Reserve(d, RewardKey(u, k), hash, b).txns = d.txns
  <1> DEFINE y == RewardKey(u, k)
             e == Reserve(d, y, hash, b)
             r == [hash |-> hash, biz |-> b]
  <1>0. y[1] = u /\ y[2] = k /\ y = RewardKey(y[1], y[2])
    BY DEF RewardKey
  <1> HIDE DEF y
  <1>1. /\ DOMAIN e = DOMAIN EmptyDB /\ e.accounts = d.accounts /\ e.wallets = d.wallets
        /\ e.ledger = d.ledger /\ e.txns = d.txns /\ e.idem = d.idem
        /\ e.keyUsed = d.keyUsed /\ e.caps = d.caps /\ e.rewardKeys = Put(d.rewardKeys, y, r)
    BY Fields DEF Reserve, Sound, TablesOf
  <1> HIDE DEF e
  <1>2. /\ y \in DOMAIN e.rewardKeys /\ e.rewardKeys[y].biz = b
        /\ \A x \in DOMAIN e.rewardKeys :
              x # y => x \in DOMAIN d.rewardKeys /\ e.rewardKeys[x] = d.rewardKeys[x]
    BY <1>1 DEF Put
  <1>3. TablesOf(e)
    BY <1>1 DEF Sound, TablesOf
  <1>4. ChainOf(e)
    BY <1>1 DEF Sound, ChainOf, BalanceAfter
  <1>5. ReceiptsOf(e)
    BY <1>0, <1>1, <1>2 DEF Sound, ReceiptsOf
  <1>6. Sound(e)
    BY <1>3, <1>4, <1>5 DEF Sound
  <1> QED
    BY <1>1, <1>6 DEF e, y

\* A leg keeps the database sound.
LEMMA PostLegSound ==
  ASSUME NEW d, Sound(d), NEW u \in d.accounts, NEW a \in Assets, NEW delta \in Int,
         NEW b, NEW leg, Affords(d.wallets[u][a], delta)
  PROVE  /\ Sound(PostLeg(d, u, a, delta, b, leg))
         /\ PostLeg(d, u, a, delta, b, leg).txns = d.txns
         /\ PostLeg(d, u, a, delta, b, leg).idem = d.idem
         /\ PostLeg(d, u, a, delta, b, leg).rewardKeys = d.rewardKeys
  <1> DEFINE e == PostLeg(d, u, a, delta, b, leg)
  <1>0. TablesOf(d) /\ ChainOf(d) /\ ReceiptsOf(d) /\ u \in Users
    BY DEF Sound, TablesOf
  <1>1. e.txns = d.txns /\ e.idem = d.idem /\ e.rewardKeys = d.rewardKeys
    BY <1>0, PostLegFields
  <1>2. TablesOf(e) /\ ChainOf(e)
    BY <1>0, PostLegTables, PostLegChain
  <1> HIDE DEF e
  <1>3. ReceiptsOf(e)
    BY <1>0, <1>1 DEF ReceiptsOf
  <1>4. Sound(e)
    BY <1>2, <1>3 DEF Sound
  <1> QED
    BY <1>1, <1>4 DEF e

\* What a transaction operator promises: a sound database and, on success, a
\* transaction that belongs to the user.
Settled(r, u) ==
    /\ Sound(r.db)
    /\ r.ok => r.biz \in DOMAIN r.db.txns /\ r.db.txns[r.biz].user = u

\* The fields of the results Done and Fail.
LEMMA Projections ==
  ASSUME NEW u, NEW s, NEW k
  PROVE  IdemKey(u, s, k)[1] = u /\ IdemKey(u, s, k)[2] = s /\ IdemKey(u, s, k)[3] = k
  BY DEF IdemKey

\* No reward key stands in the way of an idempotency record of an unreserved key.
LEMMA KeyFree ==
  ASSUME NEW d, Sound(d), NEW u, NEW k, RewardKey(u, k) \notin DOMAIN d.rewardKeys
  PROVE  \A y \in DOMAIN d.rewardKeys : IdemKey(y[1], "apply", y[2]) # IdemKey(u, "apply", k)
  <1> SUFFICES ASSUME NEW y \in DOMAIN d.rewardKeys,
                      IdemKey(y[1], "apply", y[2]) = IdemKey(u, "apply", k)
               PROVE  FALSE
    OBVIOUS
  <1>1. y = RewardKey(y[1], y[2])
    BY DEF Sound, ReceiptsOf
  <1>2. y[1] = u /\ y[2] = k
    BY Projections
  <1> QED
    BY <1>1, <1>2

\* applyInTx keeps the database sound; on success the key has a record of the
\* transaction returned and was not reserved by a reward.
LEMMA ApplySound ==
  ASSUME NEW d, Sound(d), NEW m, Mutation(m), NEW k
  PROVE  /\ Settled(applyInTx(d, m, k), m.user)
         /\ applyInTx(d, m, k).ok =>
               /\ IdemKey(m.user, "apply", k) \in DOMAIN applyInTx(d, m, k).db.idem
               /\ applyInTx(d, m, k).db.idem[IdemKey(m.user, "apply", k)].biz =
                     applyInTx(d, m, k).biz
  <1> DEFINE r == applyInTx(d, m, k)
             i == IdemKey(m.user, "apply", k)
             posted == PostLeg(d, m.user, m.asset, m.delta, m.biz, 1)
             booked == Book(posted, m.biz, m.user, m.entry, m)
             Goal == /\ Settled(r, m.user)
                     /\ r.ok => i \in DOMAIN r.db.idem /\ r.db.idem[i].biz = r.biz
  <1>1. CASE r = Fail(d)
    BY <1>1 DEF Settled, Fail
  <1>2. ASSUME RewardKey(m.user, k) \notin DOMAIN d.rewardKeys, i \in DOMAIN d.idem,
               r = Done(d, d.idem[i].biz)
        PROVE  Goal
    <2>1. d.idem[i].biz \in DOMAIN d.txns /\ d.txns[d.idem[i].biz].user = m.user
      BY <1>2, Projections DEF Sound, ReceiptsOf
    <2>2. r.db = d /\ r.ok /\ r.biz = d.idem[i].biz
      BY <1>2 DEF Done
    <2> HIDE DEF r, i
    <2> QED
      BY <1>2, <2>1, <2>2 DEF Settled
  <1>3. ASSUME RewardKey(m.user, k) \notin DOMAIN d.rewardKeys,
               m.biz \in DOMAIN d.txns, d.txns[m.biz].user = m.user,
               r = Done(Remember(d, i, m, m.biz), m.biz)
        PROVE  Goal
    <2>1. \A y \in DOMAIN d.rewardKeys : IdemKey(y[1], "apply", y[2]) # i
      BY <1>3, KeyFree
    <2>2. d.txns[m.biz].user = i[1]
      BY <1>3, Projections
    <2>3. r.db = Remember(d, i, m, m.biz) /\ r.ok /\ r.biz = m.biz
      BY <1>3 DEF Done
    <2> HIDE DEF r, i
    <2>4. /\ Sound(r.db) /\ i \in DOMAIN r.db.idem /\ r.db.idem[i].biz = m.biz
          /\ r.db.txns = d.txns
      BY <1>3, <2>1, <2>2, <2>3, RememberSound
    <2> QED
      BY <1>3, <2>3, <2>4 DEF Settled
  <1>4. ASSUME RewardKey(m.user, k) \notin DOMAIN d.rewardKeys,
               m.biz \notin DOMAIN d.txns, m.user \in d.accounts,
               Affords(d.wallets[m.user][m.asset], m.delta),
               r = Done(Remember(booked, i, m, m.biz), m.biz)
        PROVE  Goal
    <2>1. /\ Sound(posted) /\ posted.txns = d.txns /\ posted.rewardKeys = d.rewardKeys
      BY <1>4, PostLegSound DEF Mutation
    <2> HIDE DEF posted
    <2>2. /\ Sound(booked) /\ m.biz \in DOMAIN booked.txns /\ booked.txns[m.biz].user = m.user
          /\ booked.rewardKeys = posted.rewardKeys
      BY <1>4, <2>1, BookSound
    <2> HIDE DEF booked
    <2>3. \A y \in DOMAIN booked.rewardKeys : IdemKey(y[1], "apply", y[2]) # i
      BY <1>4, <2>1, <2>2, KeyFree
    <2>4. booked.txns[m.biz].user = i[1]
      BY <2>2, Projections
    <2>5. r.db = Remember(booked, i, m, m.biz) /\ r.ok /\ r.biz = m.biz
      BY <1>4 DEF Done
    <2> HIDE DEF r, i
    <2>6. /\ Sound(r.db) /\ i \in DOMAIN r.db.idem /\ r.db.idem[i].biz = m.biz
          /\ r.db.txns = booked.txns
      BY <2>2, <2>3, <2>4, <2>5, RememberSound
    <2> QED
      BY <2>2, <2>5, <2>6 DEF Settled
  <1> QED
    BY <1>1, <1>2, <1>3, <1>4 DEF applyInTx

\* A reward clipped to nothing by applyRewardInTx keeps the database sound and
\* reserves nothing: its key has no idempotency record.
LEMMA ZeroRewardSound ==
  ASSUME NEW d, Sound(d), NEW m, Mutation(m), NEW k
  PROVE  /\ Settled(zeroReward(d, m, k), m.user)
         /\ zeroReward(d, m, k).ok =>
               IdemKey(m.user, "apply", k) \notin DOMAIN zeroReward(d, m, k).db.idem
  <1> DEFINE r == zeroReward(d, m, k)
             i == IdemKey(m.user, "apply", k)
             booked == Book(d, m.biz, m.user, m.entry, m)
             Goal == Settled(r, m.user) /\ (r.ok => i \notin DOMAIN r.db.idem)
  <1>1. CASE r = Fail(d)
    BY <1>1 DEF Settled, Fail
  <1>2. ASSUME i \notin DOMAIN d.idem, m.biz \in DOMAIN d.txns, d.txns[m.biz].user = m.user,
               r = Done(d, m.biz)
        PROVE  Goal
    BY <1>2 DEF Settled, Done
  <1>3. ASSUME i \notin DOMAIN d.idem, m.biz \notin DOMAIN d.txns, r = Done(booked, m.biz)
        PROVE  Goal
    <2>1. /\ Sound(booked) /\ m.biz \in DOMAIN booked.txns /\ booked.txns[m.biz].user = m.user
          /\ booked.idem = d.idem
      BY <1>3, BookSound
    <2> HIDE DEF booked
    <2> QED
      BY <1>3, <2>1 DEF Settled, Done
  <1> QED
    BY <1>1, <1>2, <1>3 DEF zeroReward

\* The cap settlement row of RecordCapSettlement leaves the database sound.
LEMMA RecordCapSound ==
  ASSUME NEW d, Sound(d), NEW m, NEW c, c.credited \in Nat
  PROVE  /\ Sound(RecordCap(d, m, c))
         /\ RecordCap(d, m, c).txns = d.txns /\ RecordCap(d, m, c).idem = d.idem
  <1> DEFINE e == RecordCap(d, m, c)
             key == <<m.biz, m.user>>
  <1>1. /\ DOMAIN e = DOMAIN EmptyDB /\ e.accounts = d.accounts /\ e.wallets = d.wallets
        /\ e.ledger = d.ledger /\ e.txns = d.txns /\ e.idem = d.idem
        /\ e.rewardKeys = d.rewardKeys /\ e.keyUsed = d.keyUsed /\ e.caps = Put(d.caps, key, c)
    BY Fields DEF RecordCap, Sound, TablesOf
  <1> HIDE DEF e, key
  <1>2. \A x \in DOMAIN e.caps : e.caps[x].credited \in Nat
    BY <1>1 DEF Put, Sound, TablesOf
  <1>3. e.keyUsed \in [Users -> Nat]
    BY <1>1 DEF Sound, TablesOf
  <1>4. Sound(e)
    BY <1>1, <1>2, <1>3, FrameSound
  <1> QED
    BY <1>1, <1>4 DEF e

\* A mutation whose amount was clipped by the cap is still a mutation.
LEMMA ClipMutation ==
  ASSUME NEW m, Mutation(m), NEW credited \in Nat
  PROVE  Mutation(Clip(m, credited)) /\ Clip(m, credited).user = m.user
  BY DEF Mutation, Clip

\* The tail of applyRewardInTx (grant, cap settlement, reward key) keeps the
\* database sound for every cap settlement.
LEMMA GrantSound ==
  ASSUME NEW d, Sound(d), NEW m, Mutation(m), NEW k, NEW c, c.credited \in Nat
  PROVE  Settled(grantCapped(d, m, k, c), m.user)
  <1> DEFINE paid == applyInTx(d, Clip(m, c.credited), k)
             zero == zeroReward(d, m, k)
             r == IF c.credited > 0 THEN paid ELSE zero
             i == IdemKey(m.user, "apply", k)
             capped == RecordCap(r.db, m, c)
             g == grantCapped(d, m, k, c)
  <1>1. /\ Settled(paid, m.user)
        /\ paid.ok => i \in DOMAIN paid.db.idem /\ paid.db.idem[i].biz = paid.biz
    BY ClipMutation, ApplySound
  <1>2. Settled(zero, m.user) /\ (zero.ok => i \notin DOMAIN zero.db.idem)
    BY ZeroRewardSound
  <1> HIDE DEF paid, zero, i
  <1>3. /\ Settled(r, m.user)
        /\ r.ok => (i \in DOMAIN r.db.idem => r.db.idem[i].biz = r.biz)
    BY <1>1, <1>2
  <1>4. CASE ~r.ok
    <2>1. g = Fail(d)
      BY <1>4 DEF grantCapped, paid, zero
    <2> QED
      BY <2>1 DEF Settled, Fail
  <1>5. CASE r.ok
    <2>1. g = Done(Reserve(capped, RewardKey(m.user, k), m, r.biz), r.biz)
      BY <1>5 DEF grantCapped, paid, zero
    <2> HIDE DEF r
    <2>2. Sound(r.db) /\ r.biz \in DOMAIN r.db.txns /\ r.db.txns[r.biz].user = m.user
      BY <1>3, <1>5 DEF Settled
    <2>3. Sound(capped) /\ capped.txns = r.db.txns /\ capped.idem = r.db.idem
      BY <2>2, RecordCapSound
    <2> HIDE DEF capped
    <2>4. /\ r.biz \in DOMAIN capped.txns /\ capped.txns[r.biz].user = m.user
          /\ i \in DOMAIN capped.idem => capped.idem[i].biz = r.biz
      BY <1>3, <1>5, <2>2, <2>3
    <2> DEFINE e == Reserve(capped, RewardKey(m.user, k), m, r.biz)
    <2>5. Sound(e) /\ e.txns = capped.txns
      BY <2>3, <2>4, ReserveSound DEF i
    <2>6. g.db = e /\ g.biz = r.biz
      BY <2>1 DEF Done
    <2> HIDE DEF g, e
    <2>7. Settled(g, m.user)
      BY <2>4, <2>5, <2>6 DEF Settled
    <2> QED
      BY <2>7 DEF g
  <1> QED
    BY <1>4, <1>5

\* The split of CapPayout for every accepted settlement of a game, a room or a
\* reward: nothing is created or lost between credited and withheld, the
\* principal comes back in full, and profit is paid only into the room below the
\* cap (a player already above it ends with exactly what he had plus principal).
THEOREM PayoutCapped ==
  ASSUME NEW cap \in Int, NEW total \in Int, NEW stake \in Int, NEW gross \in Int,
         NEW quantum \in Int, CapPayoutAccepts(cap, total, stake, gross, quantum)
  PROVE  LET c == CapPayout(cap, total, stake, gross, quantum)
         IN  /\ c.credited + c.withheld = gross /\ c.withheld >= 0
             /\ c.credited >= Least(stake, gross)
             /\ c.after = total - stake + c.credited
             /\ c.after >= 0
             /\ c.credited > Least(stake, gross) => c.after <= cap
  <1> DEFINE principal == Least(stake, gross)
             base == total - stake + principal
             p == Least(gross - principal, Greatest(cap - base, 0))
             profit == ClippedProfit(cap, base, gross - principal, quantum)
  <1>1. /\ principal \in Nat /\ principal <= gross /\ principal <= stake
        /\ base \in Nat /\ stake <= total /\ quantum \in Nat \ {0}
    BY DEF CapPayoutAccepts, Least
  <1> HIDE DEF principal
  <1>2. p \in Nat /\ p <= gross - principal /\ (p > 0 => base + p <= cap)
    BY <1>1 DEF Least, Greatest
  <1>3. profit = p - (p % quantum)
    BY DEF ClippedProfit
  <1> HIDE DEF p
  <1>4. p % quantum \in Nat /\ p % quantum <= p
    BY <1>1, <1>2
  <1>5. profit \in Nat /\ profit <= p
    BY <1>2, <1>3, <1>4
  <1> HIDE DEF profit
  <1>6. LET c == CapPayout(cap, total, stake, gross, quantum)
        IN  /\ c.credited = principal + profit /\ c.withheld = gross - (principal + profit)
            /\ c.after = base + profit
    BY DEF CapPayout, principal, profit
  <1> QED
    BY <1>1, <1>2, <1>5, <1>6 DEF principal

\* CapPayout of a reward (no stake, unit quantum) never credits a negative amount.
LEMMA CreditedNat ==
  ASSUME NEW total \in Nat, NEW gross \in Nat
  PROVE  CapPayout(AssetCap, total, 0, gross, 1).credited \in Nat
  <1>1. AssetCap \in Nat
    BY ConstantsAssumption
  <1> DEFINE p == Least(gross, Greatest(AssetCap - total, 0))
  <1>2. p \in Nat
    BY <1>1 DEF Least, Greatest
  <1>3. p % 1 = 0
    BY <1>2
  <1>4. CapPayout(AssetCap, total, 0, gross, 1).credited = p - (p % 1)
    BY <1>1 DEF CapPayout, ClippedProfit, Least, Greatest
  <1> QED
    BY <1>2, <1>3, <1>4

\* applyRewardInTx, whether the policy is active or not and whatever the user
\* holds outside the wallets.
LEMMA RewardSound ==
  ASSUME NEW d, Sound(d), NEW m, Mutation(m), m.delta \in Nat, NEW k,
         NEW active \in BOOLEAN, NEW outside \in Nat
  PROVE  Settled(applyRewardInTx(d, m, k, active, outside), m.user)
  <1> DEFINE r == applyRewardInTx(d, m, k, active, outside)
             rk == RewardKey(m.user, k)
             c == <<m.biz, m.user>>
             total == TotalAssets(d, m.user, outside)
  <1>1. ASSUME r = Fail(d) PROVE Settled(r, m.user)
    BY <1>1 DEF Settled, Fail
  <1>2. ASSUME rk \in DOMAIN d.rewardKeys, r = Done(d, d.rewardKeys[rk].biz)
        PROVE  Settled(r, m.user)
    <2>1. rk[1] = m.user
      BY DEF RewardKey
    <2> HIDE DEF rk, r
    <2>2. /\ d.rewardKeys[rk].biz \in DOMAIN d.txns
          /\ d.txns[d.rewardKeys[rk].biz].user = m.user
      BY <1>2, <2>1 DEF Sound, ReceiptsOf
    <2> QED
      BY <1>2, <2>2 DEF Settled, Done
  <1>3. ASSUME c \in DOMAIN d.caps, r = grantCapped(d, m, k, d.caps[c])
        PROVE  Settled(r, m.user)
    <2>1. d.caps[c].credited \in Nat
      BY <1>3 DEF Sound, TablesOf
    <2> HIDE DEF c, r
    <2> QED
      BY <1>3, <2>1, GrantSound
  <1>4. ASSUME r = applyInTx(d, m, k) PROVE Settled(r, m.user)
    BY <1>4, ApplySound
  <1>5. ASSUME r = grantCapped(d, m, k, CapPayout(AssetCap, total, 0, m.delta, 1))
        PROVE  Settled(r, m.user)
    <2>1. m.user \in Users
      BY DEF Mutation
    <2>2. \A a \in Assets : d.wallets[m.user][a].balance \in Nat
      BY <2>1, ConstantsAssumption DEF Sound, TablesOf, WalletRow
    <2>3. total \in Nat
      BY <2>2 DEF TotalAssets, Assets
    <2> HIDE DEF total, r
    <2>4. CapPayout(AssetCap, total, 0, m.delta, 1).credited \in Nat
      BY <2>3, CreditedNat
    <2> QED
      BY <1>5, <2>4, GrantSound
  <1>6. \/ r = Fail(d)
        \/ rk \in DOMAIN d.rewardKeys /\ r = Done(d, d.rewardKeys[rk].biz)
        \/ c \in DOMAIN d.caps /\ r = grantCapped(d, m, k, d.caps[c])
        \/ r = applyInTx(d, m, k)
        \/ r = grantCapped(d, m, k, CapPayout(AssetCap, total, 0, m.delta, 1))
    BY DEF applyRewardInTx
  <1> HIDE DEF r, rk, c, total
  <1>7. Settled(r, m.user)
    BY <1>1, <1>2, <1>3, <1>4, <1>5, <1>6
  <1> QED
    BY <1>7 DEF r

\* The mutations of the three rewards are mutations that applyInTx accepts.
LEMMA RewardMutations ==
  ASSUME NEW u \in Users, NEW n
  PROVE  /\ Mutation(dailyMutation(u, n)) /\ dailyMutation(u, n).delta \in Nat
         /\ Mutation(hourlyMutation(u, n)) /\ hourlyMutation(u, n).delta \in Nat
         /\ Mutation(reliefMutation(u, n)) /\ reliefMutation(u, n).delta \in Nat
  BY ConstantsAssumption
     DEF Mutation, dailyMutation, hourlyMutation, reliefMutation, rewardMutation, Assets

\* A claim row leaves the database sound.
LEMMA ClaimRowSound ==
  ASSUME NEW d, Sound(d), NEW v
  PROVE  /\ Sound([d EXCEPT !.daily = v])
         /\ Sound([d EXCEPT !.hourly = v])
         /\ Sound([d EXCEPT !.relief = v])
  <1>1. TablesOf(d)
    BY DEF Sound
  <1>2. d.keyUsed \in [Users -> Nat] /\ \A c \in DOMAIN d.caps : d.caps[c].credited \in Nat
    BY <1>1 DEF TablesOf
  <1>3. Sound([d EXCEPT !.daily = v])
    <2> DEFINE e == [d EXCEPT !.daily = v]
    <2>1. /\ DOMAIN e = DOMAIN EmptyDB /\ e.accounts = d.accounts /\ e.wallets = d.wallets
          /\ e.ledger = d.ledger /\ e.txns = d.txns /\ e.idem = d.idem
          /\ e.rewardKeys = d.rewardKeys /\ e.keyUsed = d.keyUsed /\ e.caps = d.caps
      BY <1>1, Fields DEF TablesOf
    <2> HIDE DEF e
    <2>2. Sound(e)
      BY <1>2, <2>1, FrameSound
    <2> QED
      BY <2>2 DEF e
  <1>4. Sound([d EXCEPT !.hourly = v])
    <2> DEFINE e == [d EXCEPT !.hourly = v]
    <2>1. /\ DOMAIN e = DOMAIN EmptyDB /\ e.accounts = d.accounts /\ e.wallets = d.wallets
          /\ e.ledger = d.ledger /\ e.txns = d.txns /\ e.idem = d.idem
          /\ e.rewardKeys = d.rewardKeys /\ e.keyUsed = d.keyUsed /\ e.caps = d.caps
      BY <1>1, Fields DEF TablesOf
    <2> HIDE DEF e
    <2>2. Sound(e)
      BY <1>2, <2>1, FrameSound
    <2> QED
      BY <2>2 DEF e
  <1>5. Sound([d EXCEPT !.relief = v])
    <2> DEFINE e == [d EXCEPT !.relief = v]
    <2>1. /\ DOMAIN e = DOMAIN EmptyDB /\ e.accounts = d.accounts /\ e.wallets = d.wallets
          /\ e.ledger = d.ledger /\ e.txns = d.txns /\ e.idem = d.idem
          /\ e.rewardKeys = d.rewardKeys /\ e.keyUsed = d.keyUsed /\ e.caps = d.caps
      BY <1>1, Fields DEF TablesOf
    <2> HIDE DEF e
    <2>2. Sound(e)
      BY <1>2, <2>1, FrameSound
    <2> QED
      BY <2>2 DEF e
  <1> QED
    BY <1>3, <1>4, <1>5

\* The four reward transactions (daily, hourly, hourly replay, relief) keep the
\* database sound.
LEMMA ClaimsSound ==
  ASSUME NEW d, Sound(d), NEW u \in Users, NEW k, NEW n, NEW at,
         NEW active \in BOOLEAN, NEW outside \in Nat
  PROVE  /\ Sound(ClaimDailyTx(d, u, k, n, active, outside).db)
         /\ Sound(ClaimHourlyTx(d, u, k, n, active, outside).db)
         /\ Sound(ReplayHourlyTx(d, u, k, n, active, outside).db)
         /\ Sound(claimReliefRewardInTx(d, u, k, at, active, outside).db)
  <1>1. Sound(ClaimDailyTx(d, u, k, n, active, outside).db)
    <2> DEFINE r == applyRewardInTx(d, dailyMutation(u, n), k, active, outside)
    <2>1. Sound(r.db)
      BY RewardMutations, RewardSound DEF Settled
    <2> HIDE DEF r
    <2>2. \A v : Sound([r.db EXCEPT !.daily = v])
      BY <2>1, ClaimRowSound
    <2> QED
      BY <2>1, <2>2 DEF ClaimDailyTx, r, Done
  <1>2. Sound(ClaimHourlyTx(d, u, k, n, active, outside).db)
    <2> DEFINE r == applyRewardInTx(d, hourlyMutation(u, n), k, active, outside)
    <2>1. Sound(r.db)
      BY RewardMutations, RewardSound DEF Settled
    <2> HIDE DEF r
    <2>2. \A v : Sound([r.db EXCEPT !.hourly = v])
      BY <2>1, ClaimRowSound
    <2> QED
      BY <2>1, <2>2 DEF ClaimHourlyTx, r, Done, Fail
  <1>3. Sound(ReplayHourlyTx(d, u, k, n, active, outside).db)
    <2> DEFINE r == applyRewardInTx(d, hourlyMutation(u, n), k, active, outside)
    <2>1. Sound(r.db)
      BY RewardMutations, RewardSound DEF Settled
    <2> HIDE DEF r
    <2> QED
      BY <2>1 DEF ReplayHourlyTx, r, Fail
  <1>4. Sound(claimReliefRewardInTx(d, u, k, at, active, outside).db)
    <2> DEFINE id == Cardinality(ReliefOf(d, u)) + 1
               r == applyRewardInTx(d, reliefMutation(u, id), k, active, outside)
    <2> HIDE DEF id
    <2>1. Sound(r.db)
      BY RewardMutations, RewardSound DEF Settled
    <2> HIDE DEF r
    <2>2. \A v : Sound([r.db EXCEPT !.relief = v])
      BY <2>1, ClaimRowSound
    <2> QED
      BY <2>1, <2>2 DEF claimReliefRewardInTx, r, id, Done, Fail
  <1> QED
    BY <1>1, <1>2, <1>3, <1>4

\* Both legs of exchangeInTx, its transaction and its record keep the database sound.
LEMMA ExchangeSound ==
  ASSUME NEW d, Sound(d), NEW u \in Users, NEW k, NEW from \in Assets, NEW amount \in Nat
  PROVE  Sound(exchangeInTx(d, u, k, from, amount).db)
  <1> DEFINE b == <<"EXCHANGE", u, k>>
             i == IdemKey(u, "exchange", k)
             hash == [user |-> u, asset |-> from, delta |-> amount]
             to == OtherAsset(from)
             debited == PostLeg(d, u, from, -amount, b, 1)
             posted == PostLeg(debited, u, to, amount, b, 2)
             booked == Book(posted, b, u, "EXCHANGE", hash)
             e == Remember(booked, i, hash, b)
             r == exchangeInTx(d, u, k, from, amount)
  <1>1. CASE r = Fail(d)
    BY <1>1 DEF Fail
  <1>2. ASSUME u \in d.accounts, b \notin DOMAIN d.txns, i \notin DOMAIN d.idem,
               Affords(d.wallets[u][from], -amount), Affords(d.wallets[u][to], amount),
               r = Done(e, b)
        PROVE  Sound(r.db)
    <2>0. i[1] = u /\ i[2] = "exchange"
      BY Projections
    <2>1. -amount \in Int /\ to \in Assets /\ to # from
      BY DEF OtherAsset, Assets
    <2> HIDE DEF b, i, hash, to
    <2>2. Sound(debited) /\ debited.txns = d.txns
      BY <1>2, <2>1, PostLegSound
    <2>3. TablesOf(d)
      BY DEF Sound
    <2>4. /\ debited.accounts = d.accounts
          /\ debited.wallets = SetRow(d.wallets, u, from, NextRow(d.wallets[u][from], -amount))
      BY <2>1, <2>3, PostLegFields
    <2> HIDE DEF debited
    <2>5. debited.wallets[u][to] = d.wallets[u][to]
      BY <2>1, <2>4 DEF SetRow
    <2>6. Sound(posted) /\ posted.txns = d.txns
      BY <1>2, <2>1, <2>2, <2>4, <2>5, PostLegSound
    <2> HIDE DEF posted
    <2>7. Sound(booked) /\ b \in DOMAIN booked.txns /\ booked.txns[b].user = i[1]
      BY <1>2, <2>0, <2>6, BookSound
    <2> HIDE DEF booked
    <2>8. \A y \in DOMAIN booked.rewardKeys : IdemKey(y[1], "apply", y[2]) # i
      <3>1. \A y : IdemKey(y[1], "apply", y[2])[2] = "apply"
        BY Projections
      <3> QED
        BY <2>0, <3>1
    <2>9. Sound(e)
      BY <2>7, <2>8, RememberSound
    <2> HIDE DEF e, r
    <2> QED
      BY <1>2, <2>9 DEF Done
  <1>3. \/ r = Fail(d)
        \/ /\ u \in d.accounts /\ b \notin DOMAIN d.txns /\ i \notin DOMAIN d.idem
           /\ Affords(d.wallets[u][from], -amount) /\ Affords(d.wallets[u][to], amount)
           /\ r = Done(e, b)
    BY DEF exchangeInTx
  <1> QED
    BY <1>1, <1>2, <1>3

\* settleRelay keeps the database sound, whether or not it charges anything.
LEMMA RelaySound ==
  ASSUME NEW d, Sound(d), NEW u \in Users, NEW req, NEW cost \in Nat
  PROVE  Sound(settleRelay(d, u, req, cost).db)
  <1> DEFINE charged == Least(d.wallets[u]["RESERVE"].balance, cost)
             m == [user |-> u, asset |-> "RESERVE", delta |-> -charged,
                   biz |-> <<"API_USAGE", req>>, entry |-> "API_USAGE"]
             r == IF charged > 0 THEN applyInTx(d, m, req) ELSE Done(d, <<>>)
             a == [cost |-> cost, charged |-> charged]
             e == [r.db EXCEPT !.keyUsed[u] = @ + cost, !.usage = Put(@, <<u, req>>, a)]
  <1>1. charged \in Nat
    <2>1. d.wallets[u]["RESERVE"].balance \in Nat
      BY ConstantsAssumption DEF Sound, TablesOf, WalletRow, Assets
    <2> QED
      BY <2>1 DEF Least
  <1> HIDE DEF charged
  <1>2. Mutation(m)
    BY <1>1 DEF Mutation, Assets
  <1> HIDE DEF m
  <1>3. Sound(r.db)
    <2>1. Sound(applyInTx(d, m, req).db)
      BY <1>2, ApplySound DEF Settled
    <2> QED
      BY <2>1 DEF Done
  <1> HIDE DEF r
  <1>4. TablesOf(r.db)
    BY <1>3 DEF Sound
  <1>5. r.db.keyUsed \in [Users -> Nat] /\ \A c \in DOMAIN r.db.caps : r.db.caps[c].credited \in Nat
    BY <1>4 DEF TablesOf
  <1>6. /\ DOMAIN e = DOMAIN EmptyDB /\ e.accounts = r.db.accounts /\ e.wallets = r.db.wallets
        /\ e.ledger = r.db.ledger /\ e.txns = r.db.txns /\ e.idem = r.db.idem
        /\ e.rewardKeys = r.db.rewardKeys /\ e.caps = r.db.caps
        /\ e.keyUsed = [r.db.keyUsed EXCEPT ![u] = @ + cost]
    BY <1>4, Fields DEF TablesOf
  <1> HIDE DEF e
  <1>7. e.keyUsed \in [Users -> Nat]
    BY <1>5, <1>6
  <1>8. Sound(e)
    BY <1>3, <1>5, <1>6, <1>7, FrameSound
  <1> QED
    BY <1>8 DEF settleRelay, Done, Fail, e, r, m, charged

-----------------------------------------------------------------------------
\* The inductive invariant: the committed tables are sound and the open
\* transactions are well formed.
Inv == TypeOK /\ LedgerChain /\ ReceiptsResolve

\* The invariant says that the committed database is sound.
LEMMA InvSound == Inv => Sound(db)
  BY DEF Inv, TypeOK, LedgerChain, ReceiptsResolve, Sound

\* The empty database of the first migration satisfies the invariant.
LEMMA InitInv == Init => Inv
  <1> SUFFICES ASSUME Init PROVE Inv
    OBVIOUS
  <1>1. db = EmptyDB
    BY DEF Init
  <1>2. 0 \in 0..MaxInt /\ 0 \in 0..MaxNow
    BY ConstantsAssumption
  <1>3. TablesOf(db)
    BY <1>1, <1>2 DEF TablesOf, EmptyDB, Empty, WalletRow
  <1>4. ChainOf(db)
    BY <1>1 DEF ChainOf, BalanceAfter, EmptyDB, Empty
  <1>5. ReceiptsOf(db)
    BY <1>1 DEF ReceiptsOf, EmptyDB, Empty
  <1>6. TypeOK
    BY <1>2, <1>3 DEF TypeOK, Init
  <1> QED
    BY <1>4, <1>5, <1>6 DEF Inv, LedgerChain, ReceiptsResolve

\* A step that leaves the tables sound and touches nothing else preserves Inv.
LEMMA DbStep ==
  ASSUME Inv, Sound(db'), UNCHANGED <<now, maint, policy, inflight>>,
         proc' \in [Procs -> Request \cup {Idle}]
  PROVE  Inv'
  BY DEF Inv, TypeOK, LedgerChain, ReceiptsResolve, Sound

\* A step that only moves an open transaction to its next phase.
LEMMA EnterStep ==
  ASSUME Inv, NEW p \in Procs, proc[p].phase \in Phases, NEW phase \in Phases,
         NEW guard \in BOOLEAN, NEW period \in Nat, Enter(p, phase, guard, period),
         UNCHANGED <<db, now, maint, policy, inflight>>
  PROVE  Inv'
  <1>1. proc \in [Procs -> Request \cup {Idle}]
    BY DEF Inv, TypeOK
  <1>2. proc[p] \in Request
    BY <1>1 DEF Idle, Phases
  <1>3. [proc[p] EXCEPT !.phase = phase, !.guard = guard, !.period = period] \in Request
    BY <1>2 DEF Request
  <1>4. proc' \in [Procs -> Request \cup {Idle}]
    BY <1>1, <1>3 DEF Enter
  <1> QED
    BY <1>4, InvSound, DbStep

\* Ending a transaction leaves the process table typed.
LEMMA FinishType ==
  ASSUME Inv, NEW p \in Procs, Finish(p)
  PROVE  proc' \in [Procs -> Request \cup {Idle}]
  BY DEF Inv, TypeOK, Finish

\* Whatever the open transaction commits, the database stays sound.
LEMMA CommitSound ==
  ASSUME Inv, NEW p \in Procs, proc[p].phase \in {"guarded", "replay"}
  PROVE  Sound(Outcome(p).db)
  <1> DEFINE q == proc[p]
             out == inflight[q.user]
  <1>1. q \in Request
    BY DEF Inv, TypeOK, Idle
  <1>2. /\ q.user \in Users /\ q.kind \in AllKinds /\ q.from \in Assets /\ q.amount \in Nat
    BY <1>1 DEF Request
  <1>3. out \in Nat /\ policy \in BOOLEAN
    BY <1>2 DEF Inv, TypeOK
  <1>4. Sound(db)
    BY InvSound
  <1> HIDE DEF out
  <1>5. /\ Sound(ClaimDailyTx(db, q.user, q.key, q.period, policy, out).db)
        /\ Sound(ClaimHourlyTx(db, q.user, q.key, q.period, policy, out).db)
        /\ Sound(ReplayHourlyTx(db, q.user, q.key, q.period, policy, out).db)
        /\ Sound(claimReliefRewardInTx(db, q.user, q.key, now, policy, out).db)
    BY <1>2, <1>3, <1>4, ClaimsSound
  <1>6. Sound(exchangeInTx(db, q.user, q.key, q.from, q.amount).db)
    BY <1>2, <1>4, ExchangeSound
  <1>7. CASE q.phase = "replay"
    BY <1>5, <1>7 DEF Outcome, out
  <1>8. CASE q.phase = "guarded" /\ q.kind = "DAILY"
    BY <1>5, <1>8 DEF Outcome, out
  <1>9. CASE q.phase = "guarded" /\ q.kind = "HOURLY"
    BY <1>5, <1>9 DEF Outcome, out
  <1>10. CASE q.phase = "guarded" /\ q.kind = "RELIEF"
    BY <1>5, <1>10 DEF Outcome, out
  <1>11. CASE q.phase = "guarded" /\ q.kind = "EXCHANGE"
    BY <1>6, <1>11 DEF Outcome, out
  <1> QED
    BY <1>2, <1>7, <1>8, <1>9, <1>10, <1>11 DEF AllKinds, RewardKinds

\* EnsureAccount adds an account whose wallets are still empty.
LEMMA AccountSound ==
  ASSUME NEW d, Sound(d), NEW u \in Users
  PROVE  Sound([d EXCEPT !.accounts = @ \cup {u}])
  <1> DEFINE e == [d EXCEPT !.accounts = @ \cup {u}]
  <1>1. /\ DOMAIN e = DOMAIN EmptyDB /\ e.wallets = d.wallets /\ e.accounts = d.accounts \cup {u}
        /\ e.ledger = d.ledger /\ e.txns = d.txns /\ e.idem = d.idem
        /\ e.rewardKeys = d.rewardKeys /\ e.keyUsed = d.keyUsed /\ e.caps = d.caps
    BY Fields DEF Sound, TablesOf
  <1> HIDE DEF e
  <1>2. TablesOf(e)
    BY <1>1 DEF Sound, TablesOf
  <1>3. ChainOf(e)
    BY <1>1 DEF Sound, ChainOf, BalanceAfter
  <1>4. ReceiptsOf(e)
    BY <1>1 DEF Sound, ReceiptsOf
  <1>5. Sound(e)
    BY <1>2, <1>3, <1>4 DEF Sound
  <1> QED
    BY <1>5 DEF e

\* Every action preserves the invariant.
LEMMA NextInv == Inv /\ [Next]_vars => Inv'
  <1> SUFFICES ASSUME Inv, [Next]_vars PROVE Inv'
    OBVIOUS
  <1>0. Sound(db) /\ proc \in [Procs -> Request \cup {Idle}] /\ now \in Nat
    BY InvSound, ConstantsAssumption DEF Inv, TypeOK
  <1>a. Day(now) \in Nat
    BY <1>0, ConstantsAssumption DEF Day
  <1>1. ASSUME NEW u \in Users, EnsureAccount(u) PROVE Inv'
    <2>1. Sound(db')
      BY <1>0, <1>1, AccountSound DEF EnsureAccount
    <2>2. proc' \in [Procs -> Request \cup {Idle}] /\ UNCHANGED <<now, maint, policy, inflight>>
      BY <1>0, <1>1 DEF EnsureAccount
    <2> QED
      BY <2>1, <2>2, DbStep
  <1>2. ASSUME NEW p \in Procs, NEW kind \in AllKinds, NEW u \in Users, NEW k \in Keys,
               NEW from \in Assets, NEW amount \in Nat, Ask(p, kind, u, k, from, amount)
        PROVE  Inv'
    <2>1. Sound(db') /\ UNCHANGED <<now, maint, policy, inflight>>
      BY <1>0, <1>2 DEF Ask
    <2> DEFINE q == [phase |-> "asked", kind |-> kind, user |-> u, key |-> k, from |-> from,
                     amount |-> amount, guard |-> FALSE, period |-> 0]
    <2>2. q \in Request
      BY DEF Request, Phases
    <2>3. proc' \in [Procs -> Request \cup {Idle}]
      BY <1>0, <1>2, <2>2 DEF Ask
    <2> QED
      BY <2>1, <2>3, DbStep
  <1>3. ASSUME NEW p \in Procs, Guard(p) PROVE Inv'
    <2>1. /\ proc[p].phase \in Phases /\ Enter(p, "guarded", TRUE, Day(now))
          /\ UNCHANGED <<db, now, maint, policy, inflight>> /\ "guarded" \in Phases
      BY <1>3 DEF Guard, Phases
    <2> QED
      BY <1>a, <2>1, EnterStep
  <1>4. ASSUME NEW p \in Procs, HoldHourly(p) PROVE Inv'
    <2>1. /\ proc[p].phase \in Phases /\ UNCHANGED <<db, now, maint, policy, inflight>>
          /\ Enter(p, "replay", FALSE, now) \/ Enter(p, "held", FALSE, now)
          /\ "replay" \in Phases /\ "held" \in Phases
      BY <1>4 DEF HoldHourly, Phases
    <2> QED
      BY <1>0, <2>1, EnterStep
  <1>5. ASSUME NEW p \in Procs, GuardHourly(p) PROVE Inv'
    <2>1. /\ proc[p].phase \in Phases /\ UNCHANGED <<db, now, maint, policy, inflight>>
          /\ Enter(p, "replay", TRUE, now) \/ Enter(p, "guarded", TRUE, now)
          /\ "replay" \in Phases /\ "guarded" \in Phases
      BY <1>5 DEF GuardHourly, Phases
    <2> QED
      BY <1>0, <2>1, EnterStep
  <1>6. ASSUME NEW p \in Procs, HoldRelief(p) PROVE Inv'
    <2>1. /\ proc[p].phase \in Phases /\ Enter(p, "held", FALSE, now)
          /\ UNCHANGED <<db, now, maint, policy, inflight>> /\ "held" \in Phases
      BY <1>6 DEF HoldRelief, Phases
    <2> QED
      BY <1>0, <2>1, EnterStep
  <1>7. ASSUME NEW p \in Procs, GuardRelief(p) PROVE Inv'
    <2>1. /\ proc[p].phase \in Phases /\ Enter(p, "guarded", TRUE, now)
          /\ UNCHANGED <<db, now, maint, policy, inflight>> /\ "guarded" \in Phases
      BY <1>7 DEF GuardRelief, Phases
    <2> QED
      BY <1>0, <2>1, EnterStep
  <1>8. ASSUME NEW p \in Procs, Commit(p) PROVE Inv'
    <2>1. Sound(db') /\ UNCHANGED <<now, maint, policy, inflight>>
      BY <1>8, CommitSound DEF Commit
    <2>2. proc' \in [Procs -> Request \cup {Idle}]
      BY <1>8, FinishType DEF Commit
    <2> QED
      BY <2>1, <2>2, DbStep
  <1>9. ASSUME NEW p \in Procs, Rollback(p) PROVE Inv'
    <2>1. Sound(db') /\ UNCHANGED <<now, maint, policy, inflight>>
      BY <1>0, <1>9 DEF Rollback
    <2>2. proc' \in [Procs -> Request \cup {Idle}]
      BY <1>9, FinishType DEF Rollback
    <2> QED
      BY <2>1, <2>2, DbStep
  <1>10. ASSUME NEW m \in GameMutations, NEW k \in GameKeys, Apply(m, k) PROVE Inv'
    <2>1. Mutation(m)
      BY ConstantsAssumption DEF Mutation
    <2>2. Sound(applyInTx(db, m, k).db)
      BY <1>0, <2>1, ApplySound DEF Settled
    <2>3. /\ Sound(db') /\ UNCHANGED <<now, maint, policy, inflight>>
          /\ proc' \in [Procs -> Request \cup {Idle}]
      BY <1>0, <1>10, <2>2 DEF Apply
    <2> QED
      BY <2>3, DbStep
  <1>11. ASSUME NEW u \in Users, NEW req \in Requests, NEW cost \in Costs, SettleRelay(u, req, cost)
         PROVE  Inv'
    <2>1. cost \in Nat
      BY ConstantsAssumption
    <2>2. Sound(settleRelay(db, u, req, cost).db)
      BY <1>0, <2>1, RelaySound
    <2>3. /\ Sound(db') /\ UNCHANGED <<now, maint, policy, inflight>>
          /\ proc' \in [Procs -> Request \cup {Idle}]
      BY <1>0, <1>11, <2>2 DEF SettleRelay
    <2> QED
      BY <2>3, DbStep
  <1>12. ASSUME NEW scopes \in SUBSET Scopes, SaveMaintenance(scopes) PROVE Inv'
    BY <1>12, ConstantsAssumption
       DEF SaveMaintenance, Inv, TypeOK, LedgerChain, ReceiptsResolve
  <1>13. ASSUME ActivatePolicy PROVE Inv'
    BY <1>13 DEF ActivatePolicy, Inv, TypeOK, LedgerChain, ReceiptsResolve
  <1>14. ASSUME NEW u \in Users, NEW units \in InFlights, MoveInFlight(u, units) PROVE Inv'
    <2>1. units \in Nat
      BY ConstantsAssumption
    <2> QED
      BY <1>14, <2>1 DEF MoveInFlight, Inv, TypeOK, LedgerChain, ReceiptsResolve
  <1>15. ASSUME Tick PROVE Inv'
    BY <1>15, ConstantsAssumption DEF Tick, Inv, TypeOK, LedgerChain, ReceiptsResolve
  <1>16. CASE UNCHANGED vars
    BY <1>16 DEF vars, Inv, TypeOK, LedgerChain, ReceiptsResolve
  <1>17. \A kind \in Kinds : kind \in AllKinds
    BY ConstantsAssumption
  <1>18. /\ "RESERVE" \in Assets /\ 0 \in Nat /\ "EXCHANGE" \in AllKinds
         /\ \A amount \in Amounts : amount \in Nat
    BY ConstantsAssumption DEF Assets, AllKinds
  <1> QED
    BY <1>1, <1>2, <1>3, <1>4, <1>5, <1>6, <1>7, <1>8, <1>9, <1>10, <1>11, <1>12, <1>13,
       <1>14, <1>15, <1>16, <1>17, <1>18 DEF Next

\* Type correctness of the economy store, for every set of users, keys,
\* amounts and concurrent transactions: no balance is ever negative or beyond
\* int64, whatever applyInTx, exchangeInTx and settleRelay are asked for.
THEOREM TypeCorrect == Spec => []TypeOK
  <1>1. Inv => TypeOK
    BY DEF Inv
  <1> QED
    BY <1>1, InitInv, NextInv, PTL DEF Spec

\* The wallet rows written by applyInTx and exchangeInTx are always the
\* projection of the ledger.
THEOREM LedgerChainHolds == Spec => []LedgerChain
  <1>1. Inv => LedgerChain
    BY DEF Inv
  <1> QED
    BY <1>1, InitInv, NextInv, PTL DEF Spec

\* No receipt of mutation_idempotency_records or reward_request_keys ever
\* dangles, belongs to another user or contradicts another receipt of its key.
THEOREM ReceiptsResolveHolds == Spec => []ReceiptsResolve
  <1>1. Inv => ReceiptsResolve
    BY DEF Inv
  <1> QED
    BY <1>1, InitInv, NextInv, PTL DEF Spec

(***************************************************************************)
(* RelayAccounts for every set of channels, bound and priority.            *)
(*                                                                         *)
(* The state of a reply is spread over the handler's step, the shared      *)
(* writer and the heartbeat.  The inductive invariant says which of the    *)
(* handler's steps come before the ending, that a heartbeat that has fired *)
(* cannot write any more once there is one, and that until the settlement  *)
(* the quote is the price of the admission and nothing was billed.         *)
(***************************************************************************)
Answering == {"SEND", "BODY", "HEADERS", "STREAM"}
Unended == {"NEW", "FAIL"} \cup Answering
Ended == {"CLOSE", "JOIN", "SETTLE", "DONE"}
Sendable == {"BEAT", "FRAME", "END", "ERROR"}

Calls == [step : Unended \cup Ended \cup {"REFUSED"}, stream : BOOLEAN,
          used : SUBSET Channels, attempt : Nat, quote : Nat, admitted : Nat,
          reported : BOOLEAN, frames : Nat, terminal : BOOLEAN,
          final : {"ERROR", "SUCCESS", "CANCELLED_POST_UPSTREAM"}]
Wires == [committed : BOOLEAN, stopped : BOOLEAN, sent : Seq(Sendable)]
Beats == {"OFF", "WAITING", "FIRED", "RESET", "DONE"}
Bills == [state : {"NONE", "SETTLED", "LOST"}, cost : Nat]
KeyRows == [live : BOOLEAN, used : Nat, limit : Nat]
Shops == [enabled : SUBSET Channels, price : Nat, key : KeyRows]

RelayTypeOK ==
    /\ call \in Calls /\ wire \in Wires /\ beat \in Beats /\ bill \in Bills /\ shop \in Shops
    /\ client \in {"LIVE", "GONE", "LATE"}

\* The ending of what was sent, and who may still write after it.
EndsOnce ==
    /\ \A i \in Endings : i = Len(wire.sent)
    /\ call.step \in Unended => Endings = {}
    /\ Endings # {} => wire.stopped \/ beat # "FIRED"
    /\ call.step \in {"NEW", "REFUSED"} => beat = "OFF"
    /\ call.step \in {"NEW"} \cup Answering => ~wire.stopped
    /\ call.step \in {"JOIN", "SETTLE", "DONE"} => wire.stopped
    /\ call.step \in Ended /\ client = "LIVE" => Endings # {}
SuccessDelivered ==
    call.final = "SUCCESS" =>
        call.step \in Ended /\ Endings # {} /\ wire.sent[Len(wire.sent)] = "END"
ChargedOnce ==
    /\ call.quote = call.admitted
    /\ call.step # "DONE" => bill = NoBill
    /\ bill.state = "SETTLED" =>
          bill.cost = IF call.reported \/ call.final = "SUCCESS" THEN call.admitted ELSE 0
RelayInv == RelayTypeOK /\ EndsOnce /\ SuccessDelivered /\ ChargedOnce

\* What SentBytes does to the endings.
LEMMA SendingEnds ==
  ASSUME NEW sent \in Seq(Sendable), NEW item \in Sendable,
         NEW more, more = Append(sent, item),
         \A i \in 1..Len(sent) : sent[i] \notin {"ERROR", "END"}
  PROVE  /\ more \in Seq(Sendable) /\ more[Len(more)] = item
         /\ \A i \in 1..Len(more) : more[i] \in {"ERROR", "END"} => i = Len(more)
         /\ item \in {"ERROR", "END"} =>
               {i \in 1..Len(more) : more[i] \in {"ERROR", "END"}} # {}
         /\ item \notin {"ERROR", "END"} =>
               {i \in 1..Len(more) : more[i] \in {"ERROR", "END"}} = {}
  <1>1. /\ more \in Seq(Sendable) /\ Len(more) = Len(sent) + 1 /\ Len(sent) \in Nat
        /\ more[Len(sent) + 1] = item
        /\ \A i \in 1..Len(sent) : more[i] = sent[i]
    OBVIOUS
  <1>2. Len(more) \in 1..Len(more) /\ \A i \in 1..Len(more) : i \in 1..Len(sent) \/ i = Len(more)
    BY <1>1
  <1> QED
    BY <1>1, <1>2

\* The writer after SentBytes and after stopLocked.
LEMMA SendFields ==
  ASSUME wire \in Wires, NEW item \in Sendable, NEW w, w = SentBytes(wire, item)
  PROVE  w \in Wires /\ w.sent = Append(wire.sent, item) /\ w.stopped = wire.stopped
  <1>1. wire.sent \in Seq(Sendable)
    BY DEF Wires
  <1>2. Append(wire.sent, item) \in Seq(Sendable)
    BY <1>1
  <1> QED
    BY <1>2 DEF Wires, SentBytes

\* Stopping the writer changes nothing that was sent.
LEMMA StopFields ==
  ASSUME NEW v \in Wires, NEW w, w = [v EXCEPT !.stopped = TRUE]
  PROVE  w \in Wires /\ w.sent = v.sent /\ w.stopped
  BY DEF Wires

\* Where nothing was written yet that ends the reply, the ending is what is written now.
LEMMA SendNow ==
  ASSUME wire \in Wires, NEW item \in Sendable, Endings = {}, wire'.sent = Append(wire.sent, item)
  PROVE  /\ item \in {"ERROR", "END"} => /\ Endings' # {} /\ \A i \in Endings' : i = Len(wire'.sent)
                                         /\ wire'.sent[Len(wire'.sent)] = item
         /\ item \notin {"ERROR", "END"} => Endings' = {}
  <1>1. /\ wire.sent \in Seq(Sendable)
        /\ \A i \in 1..Len(wire.sent) : wire.sent[i] \notin {"ERROR", "END"}
    BY DEF Wires, Endings
  <1> DEFINE more == wire'.sent
  <1>2. /\ more[Len(more)] = item
        /\ \A i \in 1..Len(more) : more[i] \in {"ERROR", "END"} => i = Len(more)
        /\ item \in {"ERROR", "END"} =>
              {i \in 1..Len(more) : more[i] \in {"ERROR", "END"}} # {}
        /\ item \notin {"ERROR", "END"} =>
              {i \in 1..Len(more) : more[i] \in {"ERROR", "END"}} = {}
    BY <1>1, SendingEnds
  <1> QED
    BY <1>2 DEF Endings

\* A request arrives with nothing sent and nothing billed.
LEMMA RelayInitially == RelayInit => RelayInv
  <1> SUFFICES ASSUME RelayInit PROVE RelayInv
    OBVIOUS
  <1>1. wire.sent = <<>> /\ Endings = {}
    BY DEF RelayInit, Endings
  <1>2. RelayTypeOK
    BY DEF RelayInit, RelayTypeOK, Unended, Answering, Ended, NoBill, Calls, Wires, Beats, Bills, KeyRows, Shops
  <1>3. call.step = "NEW" /\ call.final = "ERROR" /\ bill = NoBill /\ call.quote = call.admitted
        /\ beat = "OFF" /\ bill.state = "NONE" /\ ~wire.stopped
    BY DEF RelayInit, NoBill
  <1> QED
    BY <1>1, <1>2, <1>3 DEF RelayInv, EndsOnce, SuccessDelivered, ChargedOnce, Unended, Answering, Ended

\* Every step of handler, heartbeat, client and settlement keeps RelayInv.
LEMMA RelayStep == RelayInv /\ [RelayNext]_relayVars => RelayInv'
  <1> SUFFICES ASSUME RelayInv, [RelayNext]_relayVars PROVE RelayInv'
    OBVIOUS
  <1> USE DEF Unended, Answering, Ended
  <1>0. RelayTypeOK /\ EndsOnce /\ SuccessDelivered /\ ChargedOnce
    BY DEF RelayInv
  <1>s. UNCHANGED wire => Endings' = Endings
    BY DEF Endings
  <1>1. CASE AdmitRequest
    <2>0. PICK c \in Channels : call' = [call EXCEPT !.step = "SEND", !.used = {c}, !.attempt = 1,
                                             !.quote = shop.price, !.admitted = shop.price]
      <3>1. Candidates({}) \subseteq Channels
        BY <1>0 DEF RelayTypeOK, Shops, Candidates
      <3> QED
        BY <1>1, <3>1 DEF AdmitRequest
    <2>4. /\ call.step = "NEW" /\ beat' = "WAITING" /\ UNCHANGED <<shop, wire, client, bill>>
          /\ shop.price \in Nat
      BY <1>0, <1>1 DEF AdmitRequest, RelayTypeOK, Shops
    <2>5. /\ call' \in Calls /\ call'.step = "SEND" /\ call'.final = call.final
          /\ call'.quote = call'.admitted
      BY <1>0, <2>0, <2>4 DEF RelayTypeOK, Calls
    <2>1. RelayTypeOK'
      BY <1>0, <2>4, <2>5 DEF RelayTypeOK, Beats
    <2>6. ~wire.stopped /\ Endings = {} /\ call.final # "SUCCESS" /\ bill = NoBill
      BY <1>0, <2>4 DEF EndsOnce, SuccessDelivered, ChargedOnce
    <2>2. EndsOnce'
      BY <1>s, <2>4, <2>5, <2>6 DEF EndsOnce
    <2>3. SuccessDelivered' /\ ChargedOnce'
      BY <2>4, <2>5, <2>6 DEF SuccessDelivered, ChargedOnce, NoBill
    <2> QED
      BY <2>1, <2>2, <2>3 DEF RelayInv
  <1>2. CASE Refuse
    <2>1. Endings = {} /\ call.final # "SUCCESS" /\ beat = "OFF" /\ bill.state # "SETTLED"
      BY <1>0, <1>2 DEF Refuse, EndsOnce, SuccessDelivered, ChargedOnce, NoBill
    <2>2. wire'.sent = <<"ERROR">> /\ wire' \in Wires
      <3>1. <<"ERROR">> \in Seq(Sendable)
        BY DEF Sendable
      <3> QED
        BY <1>0, <1>2, <3>1 DEF Refuse, RelayTypeOK, Wires
    <2>3. RelayTypeOK'
      BY <1>0, <1>2, <2>2 DEF RelayTypeOK, Calls, Beats, Refuse, Goto
    <2>4. EndsOnce'
      BY <1>0, <1>2, <2>1, <2>2 DEF RelayTypeOK, Calls, Beats, Refuse, EndsOnce, Endings, Goto
    <2>5. SuccessDelivered' /\ ChargedOnce'
      BY <1>0, <1>2, <2>1 DEF RelayTypeOK, Calls, Beats, Refuse, SuccessDelivered, ChargedOnce, Goto
    <2> QED
      BY <2>3, <2>4, <2>5 DEF RelayInv
  <1>3. CASE Retry
    <2>0. call.attempt \in Nat /\ call.quote \in Nat /\ Candidates(call.used) \subseteq Channels
      BY <1>0 DEF RelayTypeOK, Calls, Shops, Candidates
    <2>1. RelayTypeOK'
      <3>1. ASSUME NEW c \in Channels,
                   call' = [call EXCEPT !.used = @ \cup {c}, !.attempt = @ + 1, !.quote = Requote]
            PROVE  call' \in Calls
        <4> DEFINE tried == call.used \cup {c}
                   again == call.attempt + 1
        <4>1. tried \in SUBSET Channels /\ again \in Nat
          BY <1>0, <2>0 DEF RelayTypeOK, Calls
        <4>2. call' = [call EXCEPT !.used = tried, !.attempt = again, !.quote = call.quote]
          BY <1>0, <3>1 DEF Requote, RelayTypeOK, Calls
        <4> HIDE DEF tried, again
        <4> QED
          BY <1>0, <2>0, <4>1, <4>2 DEF RelayTypeOK, Calls
      <3>2. ASSUME call' = [call EXCEPT !.step = "FAIL"] PROVE call' \in Calls
        BY <1>0, <3>2 DEF RelayTypeOK, Calls
      <3>3. call' \in Calls
        BY <1>3, <2>0, <3>1, <3>2 DEF Retry, Goto
      <3> QED
        BY <1>0, <1>3, <3>3 DEF RelayTypeOK, Retry
    <2>2. EndsOnce'
      BY <1>0, <1>3, <1>s DEF RelayTypeOK, Calls, Beats, Retry, EndsOnce, Goto
    <2>3. SuccessDelivered' /\ ChargedOnce'
      BY <1>0, <1>3, <1>s DEF RelayTypeOK, Calls, Beats, Retry, SuccessDelivered, ChargedOnce, Goto, Requote
    <2> QED
      BY <2>1, <2>2, <2>3 DEF RelayInv
  <1>4. CASE GiveUp
    <2>1. RelayTypeOK'
      BY <1>0, <1>4 DEF RelayTypeOK, Calls, Beats, GiveUp
    <2>2. EndsOnce'
      BY <1>0, <1>4, <1>s DEF RelayTypeOK, Calls, Beats, GiveUp, EndsOnce
    <2>3. SuccessDelivered' /\ ChargedOnce'
      BY <1>0, <1>4, <1>s DEF RelayTypeOK, Calls, Beats, GiveUp, SuccessDelivered, ChargedOnce, NoBill
    <2> QED
      BY <2>1, <2>2, <2>3 DEF RelayInv
  <1>5. CASE Answered
    <2>1. RelayTypeOK'
      BY <1>0, <1>5 DEF RelayTypeOK, Calls, Beats, Answered, Goto
    <2>2. EndsOnce'
      BY <1>0, <1>5, <1>s DEF RelayTypeOK, Calls, Beats, Answered, EndsOnce, Goto
    <2>3. SuccessDelivered' /\ ChargedOnce'
      BY <1>0, <1>5, <1>s DEF RelayTypeOK, Calls, Beats, Answered, SuccessDelivered, ChargedOnce, Goto
    <2> QED
      BY <2>1, <2>2, <2>3 DEF RelayInv
  <1>6. CASE BeatDue
    <2>1. RelayTypeOK'
      BY <1>0, <1>6 DEF RelayTypeOK, Calls, Beats, BeatDue
    <2>2. EndsOnce'
      BY <1>0, <1>6, <1>s DEF RelayTypeOK, Calls, Beats, BeatDue, EndsOnce
    <2>3. SuccessDelivered' /\ ChargedOnce'
      BY <1>0, <1>6, <1>s DEF BeatDue, SuccessDelivered, ChargedOnce
    <2> QED
      BY <2>1, <2>2, <2>3 DEF RelayInv
  <1>7. CASE Heartbeat
    <2>1. CASE wire' = SentBytes(wire, "BEAT") /\ beat = "FIRED" /\ Writable /\ beat' = "WAITING"
      <3>1. Endings = {} /\ call.step \notin {"JOIN", "SETTLE", "DONE", "NEW", "REFUSED"}
            /\ call.final # "SUCCESS"
        BY <1>0, <2>1 DEF EndsOnce, SuccessDelivered, Writable
      <3>2. /\ wire'.sent = Append(wire.sent, "BEAT") /\ wire'.stopped = wire.stopped
            /\ wire' \in Wires
        BY <1>0, <2>1, SendFields DEF RelayTypeOK, Sendable
      <3>3. Endings' = {}
        BY <1>0, <3>1, <3>2, SendNow DEF RelayTypeOK, Sendable
      <3>4. RelayTypeOK'
        BY <1>0, <1>7, <2>1, <3>2 DEF RelayTypeOK, Calls, Beats, Heartbeat
      <3>5. EndsOnce'
        BY <1>0, <1>7, <2>1, <3>1, <3>2, <3>3 DEF EndsOnce, Heartbeat
      <3>6. SuccessDelivered' /\ ChargedOnce'
        BY <1>0, <1>7, <3>1 DEF SuccessDelivered, ChargedOnce, Heartbeat
      <3> QED
        BY <3>4, <3>5, <3>6 DEF RelayInv
    <2>2. CASE UNCHANGED wire /\ beat \in {"FIRED", "RESET"} /\ beat' \in {"WAITING", "DONE"}
      <3>1. RelayTypeOK'
        BY <1>0, <1>7, <2>2 DEF RelayTypeOK, Calls, Beats, Heartbeat
      <3>2. EndsOnce'
        BY <1>0, <1>7, <1>s, <2>2 DEF EndsOnce, Heartbeat
      <3>3. SuccessDelivered' /\ ChargedOnce'
        BY <1>0, <1>7, <1>s, <2>2 DEF SuccessDelivered, ChargedOnce, Heartbeat
      <3> QED
        BY <3>1, <3>2, <3>3 DEF RelayInv
    <2> QED
      BY <1>7, <2>1, <2>2 DEF Heartbeat
  <1>8. CASE BeatEnds
    <2>1. RelayTypeOK'
      BY <1>0, <1>8 DEF RelayTypeOK, Calls, Beats, BeatEnds
    <2>2. EndsOnce'
      BY <1>0, <1>8, <1>s DEF RelayTypeOK, Calls, Beats, BeatEnds, EndsOnce
    <2>3. SuccessDelivered' /\ ChargedOnce'
      BY <1>0, <1>8, <1>s DEF BeatEnds, SuccessDelivered, ChargedOnce
    <2> QED
      BY <2>1, <2>2, <2>3 DEF RelayInv
  <1>9. CASE FailReply
    <2>1. Endings = {} /\ call.final # "SUCCESS" /\ bill = NoBill
      BY <1>0, <1>9 DEF EndsOnce, SuccessDelivered, ChargedOnce, FailReply
    <2>2. /\ wire'.sent = Append(wire.sent, "ERROR") /\ wire'.stopped
          /\ wire' \in Wires
      BY <1>0, <1>9, SendFields, StopFields DEF FailReply, StoppedBeats, RelayTypeOK, Sendable
    <2>3. Endings' # {} /\ \A i \in Endings' : i = Len(wire'.sent)
      BY <1>0, <2>1, <2>2, SendNow DEF RelayTypeOK, Sendable
    <2>4. RelayTypeOK'
      BY <1>0, <1>9, <2>2 DEF RelayTypeOK, Calls, Beats, FailReply, Goto
    <2>5. EndsOnce'
      BY <1>0, <1>9, <2>2, <2>3 DEF RelayTypeOK, Calls, Beats, EndsOnce, FailReply, Goto
    <2>6. SuccessDelivered' /\ ChargedOnce'
      BY <1>0, <1>9, <2>1 DEF RelayTypeOK, Calls, Beats, SuccessDelivered, ChargedOnce, FailReply, Goto
    <2> QED
      BY <2>4, <2>5, <2>6 DEF RelayInv
  <1>10. CASE Join
    <2>1. RelayTypeOK'
      BY <1>0, <1>10 DEF RelayTypeOK, Calls, Beats, Join, Goto
    <2>2. EndsOnce'
      BY <1>0, <1>10, <1>s DEF RelayTypeOK, Calls, Beats, Join, EndsOnce, Goto
    <2>3. SuccessDelivered' /\ ChargedOnce'
      BY <1>0, <1>10, <1>s DEF RelayTypeOK, Calls, Beats, Join, SuccessDelivered, ChargedOnce, Goto
    <2> QED
      BY <2>1, <2>2, <2>3 DEF RelayInv
  <1>11. CASE Close
    <2>0. wire' \in Wires /\ wire'.sent = wire.sent /\ wire'.stopped /\ Endings' = Endings
      BY <1>0, <1>11, StopFields DEF RelayTypeOK, Close, Endings
    <2>1. RelayTypeOK'
      BY <1>0, <1>11, <2>0 DEF RelayTypeOK, Calls, Beats, Close, Goto
    <2>2. EndsOnce'
      BY <1>0, <1>11, <2>0 DEF RelayTypeOK, Calls, Beats, Close, EndsOnce, Goto
    <2>3. SuccessDelivered' /\ ChargedOnce'
      BY <1>0, <1>11, <2>0 DEF RelayTypeOK, Calls, Beats, Close, SuccessDelivered, ChargedOnce, Goto
    <2> QED
      BY <2>1, <2>2, <2>3 DEF RelayInv
  <1>12. CASE Body
    <2>1. Endings = {} /\ call.final # "SUCCESS" /\ bill = NoBill /\ ~wire.stopped
      BY <1>0, <1>12 DEF EndsOnce, SuccessDelivered, ChargedOnce, Body
    <2>2. ASSUME NEW reported \in BOOLEAN, Writable,
                 wire' = [SentBytes(wire, "END") EXCEPT !.stopped = TRUE],
                 call' = [call EXCEPT !.step = "JOIN", !.final = "SUCCESS", !.reported = reported]
          PROVE  RelayInv'
      <3>2. /\ wire'.sent = Append(wire.sent, "END") /\ wire'.stopped
            /\ wire' \in Wires
        BY <1>0, <2>2, SendFields, StopFields DEF RelayTypeOK, Sendable
      <3>3. /\ Endings' # {} /\ \A i \in Endings' : i = Len(wire'.sent)
            /\ wire'.sent[Len(wire'.sent)] = "END"
        BY <1>0, <2>1, <3>2, SendNow DEF RelayTypeOK, Sendable
      <3>4. RelayTypeOK'
        BY <1>0, <1>12, <2>2, <3>2 DEF RelayTypeOK, Calls, Beats, Body
      <3>5. EndsOnce'
        BY <1>0, <1>12, <2>2, <3>2, <3>3 DEF RelayTypeOK, Calls, Beats, EndsOnce, Body
      <3>6. SuccessDelivered' /\ ChargedOnce'
        BY <1>0, <1>12, <2>1, <2>2, <3>3 DEF RelayTypeOK, Calls, Beats, SuccessDelivered, ChargedOnce, Body, NoBill
      <3> QED
        BY <3>4, <3>5, <3>6 DEF RelayInv
    <2>3. ASSUME NEW reported \in BOOLEAN, ~Writable, wire' = [wire EXCEPT !.stopped = TRUE],
                 call' = [call EXCEPT !.step = IF wire.committed THEN "JOIN" ELSE "FAIL",
                             !.reported = reported, !.final = "CANCELLED_POST_UPSTREAM"]
          PROVE  RelayInv'
      <3>1. /\ wire' \in Wires /\ wire'.sent = wire.sent /\ wire'.stopped /\ Endings' = {}
            /\ client # "LIVE"
        BY <1>0, <2>1, <2>3, StopFields DEF RelayTypeOK, Endings, Writable
      <3>2. RelayTypeOK'
        BY <1>0, <1>12, <2>3, <3>1 DEF RelayTypeOK, Calls, Beats, Body
      <3>3. EndsOnce'
        BY <1>0, <1>12, <2>3, <3>1 DEF RelayTypeOK, Calls, Beats, EndsOnce, Body
      <3>4. SuccessDelivered' /\ ChargedOnce'
        BY <1>0, <1>12, <2>1, <2>3 DEF RelayTypeOK, Calls, Beats, SuccessDelivered, ChargedOnce, Body, NoBill
      <3> QED
        BY <3>2, <3>3, <3>4 DEF RelayInv
    <2>4. ASSUME NEW reported \in BOOLEAN, UNCHANGED wire,
                 call' = [call EXCEPT !.step = "FAIL", !.reported = reported,
                             !.final = IF client = "LIVE" THEN @ ELSE "CANCELLED_POST_UPSTREAM"]
          PROVE  RelayInv'
      <3>1. RelayTypeOK'
        BY <1>0, <1>12, <2>4 DEF RelayTypeOK, Calls, Beats, Body
      <3>2. EndsOnce'
        BY <1>0, <1>12, <1>s, <2>1, <2>4 DEF RelayTypeOK, Calls, Beats, EndsOnce, Body
      <3>3. SuccessDelivered' /\ ChargedOnce'
        BY <1>0, <1>12, <2>1, <2>4 DEF RelayTypeOK, Calls, Beats, SuccessDelivered, ChargedOnce, Body, NoBill
      <3> QED
        BY <3>1, <3>2, <3>3 DEF RelayInv
    <2> QED
      BY <1>12, <2>2, <2>3, <2>4 DEF Body
  <1>13. CASE Headers
    <2>0. /\ Endings = {} /\ call.final # "SUCCESS" /\ bill = NoBill /\ ~wire.stopped
          /\ call.step = "HEADERS" /\ (beat' # "OFF" \/ beat = "OFF")
      BY <1>0, <1>13 DEF EndsOnce, SuccessDelivered, ChargedOnce, Headers, ResetBody
    <2>1. wire' \in Wires /\ wire'.sent = wire.sent /\ ~wire'.stopped
      BY <1>0, <1>13, <2>0 DEF RelayTypeOK, Headers, Wires
    <2>2. Endings' = {}
      BY <2>0, <2>1 DEF Endings
    <2>5. RelayTypeOK' /\ call'.quote = call.quote /\ call'.admitted = call.admitted
          /\ call'.final # "SUCCESS"
          /\ \/ call'.step = "STREAM"
             \/ client # "LIVE" /\ call'.step \in {"CLOSE", "FAIL"}
      BY <1>0, <1>13, <2>0, <2>1 DEF RelayTypeOK, Calls, Beats, Headers, Goto, ResetBody, Writable
    <2>3. EndsOnce'
      BY <1>0, <1>13, <2>0, <2>1, <2>2, <2>5 DEF Headers, EndsOnce
    <2>4. SuccessDelivered' /\ ChargedOnce'
      BY <1>0, <1>13, <2>0, <2>5 DEF Headers, SuccessDelivered, ChargedOnce, NoBill
    <2> QED
      BY <2>5, <2>3, <2>4 DEF RelayInv
  <1>14. CASE Frame
    <2>1. Endings = {} /\ call.final # "SUCCESS" /\ bill = NoBill /\ ~wire.stopped
      BY <1>0, <1>14 DEF EndsOnce, SuccessDelivered, ChargedOnce, Frame
    <2>2. /\ wire'.sent = Append(wire.sent, "FRAME") /\ ~wire'.stopped
          /\ wire' \in Wires
      BY <1>0, <1>14, <2>1, SendFields DEF Frame, RelayTypeOK, Sendable
    <2>3. Endings' = {}
      BY <1>0, <2>1, <2>2, SendNow DEF RelayTypeOK, Sendable
    <2>4. RelayTypeOK'
      <3>1. PICK reported, terminal \in BOOLEAN :
               call' = [call EXCEPT !.frames = @ + 1, !.reported = @ \/ reported, !.terminal = terminal]
        BY <1>14 DEF Frame
      <3> DEFINE known == call.reported \/ reported
                 more == call.frames + 1
      <3>2. call' = [call EXCEPT !.frames = more, !.reported = known, !.terminal = terminal]
            /\ more \in Nat /\ known \in BOOLEAN
        BY <1>0, <3>1 DEF RelayTypeOK, Calls
      <3> HIDE DEF known, more
      <3>3. call' \in Calls
        BY <1>0, <3>2 DEF RelayTypeOK, Calls
      <3> QED
        BY <1>0, <1>14, <2>2, <3>3 DEF RelayTypeOK, Beats, Frame, ResetBody
    <2>5. EndsOnce'
      BY <1>0, <1>14, <2>2, <2>3 DEF RelayTypeOK, Calls, Beats, EndsOnce, Frame
    <2>6. SuccessDelivered' /\ ChargedOnce'
      BY <1>0, <1>14, <2>1 DEF RelayTypeOK, Calls, Beats, SuccessDelivered, ChargedOnce, Frame, NoBill
    <2> QED
      BY <2>4, <2>5, <2>6 DEF RelayInv
  <1>15. CASE EndStream
    <2>1. Endings = {} /\ bill = NoBill
      BY <1>0, <1>15 DEF EndsOnce, ChargedOnce, EndStream
    <2>2. /\ wire'.sent = Append(wire.sent, "END")
          /\ wire' \in Wires
      BY <1>0, <1>15, SendFields DEF EndStream, RelayTypeOK, Sendable
    <2>3. /\ Endings' # {} /\ \A i \in Endings' : i = Len(wire'.sent)
          /\ wire'.sent[Len(wire'.sent)] = "END"
      BY <1>0, <2>1, <2>2, SendNow DEF RelayTypeOK, Sendable
    <2>4. RelayTypeOK'
      BY <1>0, <1>15, <2>2 DEF RelayTypeOK, Calls, Beats, EndStream, ResetBody
    <2>5. beat' # "FIRED"
      BY <1>15 DEF EndStream, ResetBody
    <2>6. EndsOnce'
      BY <1>0, <1>15, <2>3, <2>5 DEF RelayTypeOK, Calls, Beats, EndsOnce, EndStream
    <2>7. SuccessDelivered' /\ ChargedOnce'
      BY <1>0, <1>15, <2>1, <2>3 DEF RelayTypeOK, Calls, Beats, SuccessDelivered, ChargedOnce, EndStream, NoBill
    <2> QED
      BY <2>4, <2>6, <2>7 DEF RelayInv
  <1>16. CASE BreakStream
    <2>1. Endings = {} /\ call.final # "SUCCESS" /\ bill = NoBill
      BY <1>0, <1>16 DEF EndsOnce, SuccessDelivered, ChargedOnce, BreakStream
    <2>2. PICK reported \in BOOLEAN : call' = [Interrupted(wire) EXCEPT !.reported = @ \/ reported]
      BY <1>16 DEF BreakStream
    <2>3. /\ call'.step = IF ~wire.committed \/ client # "GONE" THEN "FAIL" ELSE "CLOSE"
          /\ call'.final # "SUCCESS" /\ call'.quote = call.quote /\ call'.admitted = call.admitted
          /\ RelayTypeOK'
      BY <1>0, <1>16, <2>1, <2>2 DEF RelayTypeOK, Calls, Beats, Interrupted, BreakStream
    <2>4. EndsOnce'
      BY <1>0, <1>16, <1>s, <2>1, <2>3 DEF RelayTypeOK, Calls, Beats, BreakStream, EndsOnce
    <2>5. SuccessDelivered' /\ ChargedOnce'
      BY <1>0, <1>16, <2>1, <2>3 DEF BreakStream, SuccessDelivered, ChargedOnce, NoBill
    <2> QED
      BY <2>3, <2>4, <2>5 DEF RelayInv
  <1>17. CASE Settle
    <2> DEFINE due == call.final = "SUCCESS" \/ call.reported
               cost == IF due THEN call.quote ELSE 0
    <2>0. /\ call.step = "SETTLE" /\ bill' = [state |-> "SETTLED", cost |-> cost] /\ cost \in Nat
          /\ shop' = [shop EXCEPT !.key.used = IF shop.key.live THEN @ + cost ELSE @]
          /\ call' = [call EXCEPT !.step = "DONE"] /\ UNCHANGED <<wire, beat, client>>
      BY <1>0, <1>17 DEF Settle, Goto, RelayTypeOK, Calls, Beats
    <2> HIDE DEF cost
    <2>1. RelayTypeOK'
      <3>1. call' \in Calls
        BY <1>0, <2>0 DEF RelayTypeOK, Calls
      <3>2. bill' \in Bills
        BY <2>0 DEF Bills
      <3>3. shop.key \in KeyRows
        BY <1>0 DEF RelayTypeOK, Shops
      <3>4. [shop.key EXCEPT !.used = IF shop.key.live THEN @ + cost ELSE @] \in KeyRows
        BY <2>0, <3>3 DEF KeyRows
      <3>5. shop' \in Shops
        BY <1>0, <2>0, <3>4 DEF RelayTypeOK, Shops
      <3> QED
        BY <1>0, <2>0, <3>1, <3>2, <3>5 DEF RelayTypeOK
    <2>2. EndsOnce'
      BY <1>0, <1>s, <2>0 DEF RelayTypeOK, Calls, Beats, EndsOnce
    <2>3. SuccessDelivered'
      BY <1>0, <1>s, <2>0 DEF RelayTypeOK, Calls, Beats, SuccessDelivered
    <2>4. ChargedOnce'
      BY <1>0, <2>0 DEF RelayTypeOK, Calls, Beats, ChargedOnce, cost
    <2> QED
      BY <2>1, <2>2, <2>3, <2>4 DEF RelayInv
  <1>18. CASE SettleFails
    <2>1. RelayTypeOK'
      BY <1>0, <1>18 DEF RelayTypeOK, Calls, Bills, SettleFails, Goto
    <2>2. EndsOnce'
      BY <1>0, <1>18, <1>s DEF RelayTypeOK, Calls, Beats, SettleFails, EndsOnce, Goto
    <2>3. SuccessDelivered' /\ ChargedOnce'
      BY <1>0, <1>18, <1>s DEF RelayTypeOK, Calls, Beats, SettleFails, SuccessDelivered, ChargedOnce, Goto
    <2> QED
      BY <2>1, <2>2, <2>3 DEF RelayInv
  <1>19. CASE ClientEnds
    <2>1. RelayTypeOK'
      BY <1>0, <1>19 DEF RelayTypeOK, Calls, Beats, ClientEnds
    <2>2. EndsOnce'
      BY <1>0, <1>19, <1>s DEF RelayTypeOK, Calls, Beats, ClientEnds, EndsOnce
    <2>3. SuccessDelivered' /\ ChargedOnce'
      BY <1>0, <1>19, <1>s DEF ClientEnds, SuccessDelivered, ChargedOnce
    <2> QED
      BY <2>1, <2>2, <2>3 DEF RelayInv
  <1>20. CASE ChangeChannels \/ ChangePrice \/ ChangeKey
    <2>1. UNCHANGED <<call, wire, beat, client, bill>>
      BY <1>20 DEF ChangeChannels, ChangePrice, ChangeKey
    <2>2. shop' \in Shops
      <3>1. CASE ChangeChannels
        BY <1>0, <3>1 DEF RelayTypeOK, Shops, ChangeChannels
      <3>2. CASE ChangePrice
        BY <1>0, <3>2 DEF RelayTypeOK, Shops, ChangePrice
      <3>3. CASE ChangeKey
        <4>1. shop.key \in KeyRows
          BY <1>0 DEF RelayTypeOK, Shops
        <4>3. \A quota \in {0, 1} : shop.key.used + quota \in Nat
          BY <4>1 DEF KeyRows
        <4>2. /\ [shop.key EXCEPT !.live = FALSE] \in KeyRows
              /\ \A quota \in {0, 1} : [shop.key EXCEPT !.limit = shop.key.used + quota] \in KeyRows
          BY <4>1, <4>3 DEF KeyRows
        <4> QED
          BY <1>0, <3>3, <4>2 DEF RelayTypeOK, Shops, ChangeKey
      <3> QED
        BY <1>20, <3>1, <3>2, <3>3
    <2> QED
      BY <1>0, <1>s, <2>1, <2>2 DEF RelayInv, RelayTypeOK, EndsOnce, SuccessDelivered, ChargedOnce
  <1>21. CASE UNCHANGED relayVars
    BY <1>0, <1>s, <1>21 DEF relayVars, RelayInv, RelayTypeOK, Calls, Beats, EndsOnce, SuccessDelivered, ChargedOnce
  <1> QED
    BY <1>1, <1>2, <1>3, <1>4, <1>5, <1>6, <1>7, <1>8, <1>9, <1>10, <1>11, <1>12, <1>13, <1>14,
       <1>15, <1>16, <1>17, <1>18, <1>19, <1>20, <1>21 DEF RelayNext

\* Whatever the heartbeat, the client and the administrators do while a reply is
\* written, the client gets one ending and the settlement charges what was admitted.
THEOREM RelayAccountsHolds == RelaySpec => []RelayAccounts
  <1>1. RelayInv => RelayAccounts
    <2> SUFFICES ASSUME RelayInv PROVE RelayAccounts
      OBVIOUS
    <2>1. Cardinality(Endings) <= 1
      <3>1. Endings \subseteq {Len(wire.sent)}
        BY DEF RelayInv, EndsOnce
      <3>2. IsFiniteSet({Len(wire.sent)}) /\ Cardinality({Len(wire.sent)}) = 1
        BY FS_Singleton
      <3> QED
        BY <3>1, <3>2, FS_Subset
    <2> QED
      BY <2>1 DEF RelayInv, EndsOnce, SuccessDelivered, ChargedOnce, RelayAccounts, Ended
  <1> QED
    BY <1>1, RelayInitially, RelayStep, PTL DEF RelaySpec

(***************************************************************************)
(* Posting.  Every leg belongs to a transaction and every cap settlement   *)
(* to the reward it names, a transaction of a relay request has its        *)
(* attribution, and the hash a receipt keeps is of its own operation.      *)
(***************************************************************************)
BooksOf(d) ==
    /\ PostedOf(d)
    /\ \A x \in DOMAIN d.ledger : d.ledger[x].biz \in DOMAIN d.txns
    /\ \A c \in DOMAIN d.caps : c[1] \in DOMAIN d.txns /\ c = <<c[1], c[1][2]>>
    /\ \A x \in DOMAIN d.usage : x = <<x[1], x[2]>>
    /\ \A b \in DOMAIN d.txns : b[1] = "API_USAGE" => <<d.txns[b].user, b[2]>> \in DOMAIN d.usage
KeysOf(d) ==
    /\ \A x \in DOMAIN d.idem : x[2] = "apply" => d.idem[x].hash.biz = d.idem[x].biz
    /\ \A y \in DOMAIN d.rewardKeys : d.rewardKeys[y].hash.biz = d.rewardKeys[y].biz

SameBooks(d, e) == /\ e.ledger = d.ledger /\ e.txns = d.txns /\ e.usage = d.usage
                   /\ DOMAIN e.caps = DOMAIN d.caps
                   /\ \A c \in DOMAIN d.caps : e.caps[c] = d.caps[c]
SameClaims(d, e) == e.daily = d.daily /\ e.hourly = d.hourly /\ e.relief = d.relief

\* One more entry in the ledger is one more leg of its transaction.
LEMMA LegsPut ==
  ASSUME NEW d, NEW e, NEW key, key \notin DOMAIN d.ledger, NEW en,
         e.ledger = Put(d.ledger, key, en)
  PROVE  /\ LegsOf(e, en.biz) = LegsOf(d, en.biz) \cup {key}
         /\ \A b : b # en.biz => LegsOf(e, b) = LegsOf(d, b)
         /\ e.ledger[key] = en
         /\ \A x \in DOMAIN d.ledger : e.ledger[x] = d.ledger[x]
  <1>1. /\ DOMAIN e.ledger = DOMAIN d.ledger \cup {key}
        /\ e.ledger[key] = en
        /\ \A x \in DOMAIN d.ledger : e.ledger[x] = d.ledger[x]
    BY DEF Put
  <1> QED
    BY <1>1 DEF LegsOf

\* An unposted operation has no legs.
LEMMA NoLegs ==
  ASSUME NEW d, BooksOf(d), NEW b, b \notin DOMAIN d.txns
  PROVE  LegsOf(d, b) = {}
  BY DEF BooksOf, LegsOf

\* A transaction whose row, legs and cap settlement stay keeps what it posted.
LEMMA KeepPosted ==
  ASSUME NEW d, NEW e, NEW b, PostedLegs(d, b), e.txns[b] = d.txns[b],
         LegsOf(e, b) = LegsOf(d, b), \A x \in LegsOf(d, b) : e.ledger[x] = d.ledger[x],
         ClippedToZero(e, b) <=> ClippedToZero(d, b)
  PROVE  PostedLegs(e, b)
  <1> DEFINE legs == LegsOf(d, b)
             t == d.txns[b]
  <1>1. LegsOf(e, b) = legs /\ e.txns[b] = t /\ \A x \in legs : e.ledger[x] = d.ledger[x]
    OBVIOUS
  <1>2. /\ \A x \in legs : x[1] = t.user
        /\ t.op = "EXCHANGE" => \E x, y \in legs : /\ legs = {x, y} /\ x[2] # y[2]
                                                   /\ d.ledger[x].delta + d.ledger[y].delta = 0
        /\ t.op # "EXCHANGE" /\ ClippedToZero(d, b) => legs = {}
        /\ t.op # "EXCHANGE" /\ ~ClippedToZero(d, b) => Cardinality(legs) = 1
    BY DEF PostedLegs
  <1> HIDE DEF legs, t
  <1>3. t.op = "EXCHANGE" => \E x, y \in legs : /\ legs = {x, y} /\ x[2] # y[2]
                                                /\ e.ledger[x].delta + e.ledger[y].delta = 0
    <2> SUFFICES ASSUME t.op = "EXCHANGE"
                 PROVE  \E x, y \in legs : /\ legs = {x, y} /\ x[2] # y[2]
                                           /\ e.ledger[x].delta + e.ledger[y].delta = 0
      OBVIOUS
    <2>1. PICK x \in legs, y \in legs : /\ legs = {x, y} /\ x[2] # y[2]
                                        /\ d.ledger[x].delta + d.ledger[y].delta = 0
      BY <1>2
    <2>2. e.ledger[x] = d.ledger[x] /\ e.ledger[y] = d.ledger[y]
      BY <1>1
    <2>3. e.ledger[x].delta + e.ledger[y].delta = 0
      BY <2>1, <2>2
    <2> QED
      BY <2>1, <2>3
  <1> QED
    BY <1>1, <1>2, <1>3 DEF PostedLegs

\* A relay request whose attribution and legs stay keeps what it was charged.
LEMMA KeepCharged ==
  ASSUME NEW d, NEW e, NEW x, ChargedLegs(d, x), e.usage[x] = d.usage[x],
         LegsOf(e, <<"API_USAGE", x[2]>>) = LegsOf(d, <<"API_USAGE", x[2]>>),
         \A y \in LegsOf(d, <<"API_USAGE", x[2]>>) : e.ledger[y] = d.ledger[y]
  PROVE  ChargedLegs(e, x)
  <1> DEFINE legs == LegsOf(d, <<"API_USAGE", x[2]>>)
             use == d.usage[x]
  <1>1. LegsOf(e, <<"API_USAGE", x[2]>>) = legs /\ e.usage[x] = use
        /\ \A y \in legs : e.ledger[y] = d.ledger[y]
    OBVIOUS
  <1>2. /\ use.charged <= use.cost
        /\ use.charged = 0 => {y \in legs : y[1] = x[1]} = {}
        /\ use.charged # 0 => \E y \in legs : /\ legs = {y} /\ {z \in legs : z[1] = x[1]} = {y}
                                              /\ d.ledger[y].delta = -use.charged
    BY DEF ChargedLegs
  <1> HIDE DEF legs, use
  <1>3. use.charged # 0 => \E y \in legs : /\ legs = {y} /\ {z \in legs : z[1] = x[1]} = {y}
                                           /\ e.ledger[y].delta = -use.charged
    <2> SUFFICES ASSUME use.charged # 0
                 PROVE  \E y \in legs : /\ legs = {y} /\ {z \in legs : z[1] = x[1]} = {y}
                                        /\ e.ledger[y].delta = -use.charged
      OBVIOUS
    <2>1. PICK y \in legs : /\ legs = {y} /\ {z \in legs : z[1] = x[1]} = {y}
                            /\ d.ledger[y].delta = -use.charged
      BY <1>2
    <2>2. e.ledger[y].delta = -use.charged
      BY <1>1, <2>1
    <2> QED
      BY <2>1, <2>2
  <1>4. LegsOf(e, <<"API_USAGE", x[2]>>) = legs /\ e.usage[x] = use
    BY <1>1
  <1> QED
    BY <1>2, <1>3, <1>4 DEF ChargedLegs

\* What reads only the books does not notice a change elsewhere.
LEMMA BooksFrame ==
  ASSUME NEW d, NEW e, BooksOf(d), SameBooks(d, e)
  PROVE  BooksOf(e)
  <1>1. /\ e.ledger = d.ledger /\ e.txns = d.txns /\ DOMAIN e.caps = DOMAIN d.caps
        /\ e.usage = d.usage /\ \A b : LegsOf(e, b) = LegsOf(d, b)
        /\ \A b : ClippedToZero(e, b) <=> ClippedToZero(d, b)
    BY DEF SameBooks, LegsOf, ClippedToZero
  <1>2. ASSUME NEW b \in DOMAIN d.txns PROVE PostedLegs(e, b)
    BY <1>1, KeepPosted DEF BooksOf, PostedOf
  <1>3. ASSUME NEW x \in DOMAIN d.usage PROVE ChargedLegs(e, x)
    <2>1. ChargedLegs(d, x) /\ e.usage[x] = d.usage[x]
      BY <1>1 DEF BooksOf, PostedOf
    <2>2. /\ LegsOf(e, <<"API_USAGE", x[2]>>) = LegsOf(d, <<"API_USAGE", x[2]>>)
          /\ \A y \in LegsOf(d, <<"API_USAGE", x[2]>>) : e.ledger[y] = d.ledger[y]
      BY <1>1
    <2> QED
      BY <2>1, <2>2, KeepCharged
  <1> QED
    BY <1>1, <1>2, <1>3 DEF BooksOf, PostedOf

\* The cap settlement of a posted operation is its own.
LEMMA CapsOf ==
  ASSUME NEW d, BooksOf(d), NEW b, NEW e,
         e.caps = d.caps \/ \E c : e.caps = Put(d.caps, <<b, b[2]>>, c),
         NEW o, o # b
  PROVE  ClippedToZero(e, o) <=> ClippedToZero(d, o)
  <1> DEFINE k == <<b, b[2]>>
  <1>1. k[1] = b
    OBVIOUS
  <1> HIDE DEF k
  <1>2. CASE e.caps = d.caps
    BY <1>2 DEF ClippedToZero
  <1>3. ASSUME NEW c, e.caps = Put(d.caps, k, c)
        PROVE  ClippedToZero(e, o) <=> ClippedToZero(d, o)
    <2>1. /\ DOMAIN e.caps = DOMAIN d.caps \cup {k}
          /\ \A x \in DOMAIN d.caps : x # k => e.caps[x] = d.caps[x]
      BY <1>3 DEF Put
    <2> QED
      BY <1>1, <2>1 DEF ClippedToZero
  <1> QED
    BY <1>2, <1>3 DEF k

\* A new operation with one leg: a mutation of a game, an unclipped reward, a charge
\* of the relay.
LEMMA OneLegBooks ==
  ASSUME NEW d, BooksOf(d), NEW e, NEW b, b \notin DOMAIN d.txns, NEW t, t.op # "EXCHANGE",
         e.txns = Put(d.txns, b, t),
         NEW key, key \notin DOMAIN d.ledger, key[1] = t.user,
         NEW en, en.biz = b, e.ledger = Put(d.ledger, key, en),
         e.caps = d.caps \/ \E c : c.credited # 0 /\ e.caps = Put(d.caps, <<b, b[2]>>, c),
         \/ b[1] # "API_USAGE" /\ e.usage = d.usage
         \/ \E req, use :
               /\ b = <<"API_USAGE", req>> /\ <<t.user, req>> \notin DOMAIN d.usage
               /\ e.usage = Put(d.usage, <<t.user, req>>, use)
               /\ use.charged # 0 /\ use.charged <= use.cost /\ en.delta = -use.charged
  PROVE  BooksOf(e)
  <1>1. /\ DOMAIN e.txns = DOMAIN d.txns \cup {b} /\ e.txns[b] = t
        /\ \A o \in DOMAIN d.txns : o # b /\ e.txns[o] = d.txns[o]
    BY DEF Put
  <1>2. /\ LegsOf(e, b) = {key} /\ e.ledger[key] = en
        /\ \A o : o # b => LegsOf(e, o) = LegsOf(d, o)
        /\ \A x \in DOMAIN d.ledger : e.ledger[x] = d.ledger[x]
    <2>1. LegsOf(d, b) = {}
      BY NoLegs
    <2> QED
      BY <2>1, LegsPut
  <1>3. \A o, x : x \in LegsOf(d, o) => x \in DOMAIN d.ledger
    BY DEF LegsOf
  <1>4. ASSUME NEW o \in DOMAIN d.txns PROVE PostedLegs(e, o)
    <2>1. o # b /\ PostedLegs(d, o)
      BY <1>1 DEF BooksOf, PostedOf
    <2>2. ClippedToZero(e, o) <=> ClippedToZero(d, o)
      BY <2>1, CapsOf
    <2> QED
      BY <1>1, <1>2, <1>3, <2>1, <2>2, KeepPosted
  <1>5. PostedLegs(e, b)
    <2>1. ~ClippedToZero(e, b)
      <3>1. CASE e.caps = d.caps
        BY <3>1 DEF BooksOf, ClippedToZero
      <3>2. ASSUME NEW c, c.credited # 0, e.caps = Put(d.caps, <<b, b[2]>>, c)
            PROVE  ~ClippedToZero(e, b)
        <4>1. /\ DOMAIN e.caps = DOMAIN d.caps \cup {<<b, b[2]>>}
              /\ e.caps[<<b, b[2]>>] = c
          BY <3>2 DEF Put
        <4>2. \A x \in DOMAIN d.caps : x[1] # b
          BY DEF BooksOf
        <4> QED
          BY <3>2, <4>1, <4>2 DEF ClippedToZero
      <3> QED
        BY <3>1, <3>2
    <2>2. Cardinality({key}) = 1
      BY FS_Singleton
    <2> QED
      BY <1>1, <1>2, <2>1, <2>2 DEF PostedLegs
  <1>6. \A x \in DOMAIN e.ledger : e.ledger[x].biz \in DOMAIN e.txns
    <2>1. DOMAIN e.ledger = DOMAIN d.ledger \cup {key}
      BY DEF Put
    <2> QED
      BY <2>1, <1>1, <1>2 DEF BooksOf
  <1>7. \A x \in DOMAIN e.caps : x[1] \in DOMAIN e.txns /\ x = <<x[1], x[1][2]>>
    <2>1. \A x \in DOMAIN e.caps : x \in DOMAIN d.caps \/ x = <<b, b[2]>>
      <3>1. CASE e.caps = d.caps
        BY <3>1
      <3>2. ASSUME NEW c, e.caps = Put(d.caps, <<b, b[2]>>, c)
            PROVE  \A x \in DOMAIN e.caps : x \in DOMAIN d.caps \/ x = <<b, b[2]>>
        BY <3>2 DEF Put
      <3> QED
        BY <3>1, <3>2
    <2> QED
      BY <2>1, <1>1 DEF BooksOf
  <1>8. CASE b[1] # "API_USAGE" /\ e.usage = d.usage
    <2>1. ASSUME NEW x \in DOMAIN d.usage PROVE ChargedLegs(e, x)
      <3>1. <<"API_USAGE", x[2]>> # b
        BY <1>8
      <3>2. /\ LegsOf(e, <<"API_USAGE", x[2]>>) = LegsOf(d, <<"API_USAGE", x[2]>>)
            /\ \A y \in LegsOf(d, <<"API_USAGE", x[2]>>) : e.ledger[y] = d.ledger[y]
        BY <3>1, <1>2, <1>3
      <3>3. ChargedLegs(d, x) /\ e.usage[x] = d.usage[x]
        BY <1>8 DEF BooksOf, PostedOf
      <3> QED
        BY <3>2, <3>3, KeepCharged
    <2>2. \A o \in DOMAIN e.txns : o[1] = "API_USAGE" => <<e.txns[o].user, o[2]>> \in DOMAIN e.usage
      BY <1>1, <1>8 DEF BooksOf
    <2>3. \A x \in DOMAIN e.usage : x = <<x[1], x[2]>>
      BY <1>8 DEF BooksOf
    <2> QED
      BY <1>1, <1>4, <1>5, <1>6, <1>7, <1>8, <2>1, <2>2, <2>3 DEF BooksOf, PostedOf
  <1>9. ASSUME NEW req, NEW use, b = <<"API_USAGE", req>>, <<t.user, req>> \notin DOMAIN d.usage,
               e.usage = Put(d.usage, <<t.user, req>>, use),
               use.charged # 0, use.charged <= use.cost, en.delta = -use.charged
        PROVE  BooksOf(e)
    <2> DEFINE k == <<t.user, req>>
    <2>1. k[1] = t.user /\ k[2] = req /\ k = <<k[1], k[2]>>
      OBVIOUS
    <2>2. /\ DOMAIN e.usage = DOMAIN d.usage \cup {k} /\ e.usage[k] = use
          /\ \A x \in DOMAIN d.usage : x # k /\ e.usage[x] = d.usage[x]
      BY <1>9 DEF Put
    <2>3. b[1] = "API_USAGE" /\ b[2] = req
      BY <1>9
    <2>4. \A o \in DOMAIN e.txns : o[1] = "API_USAGE" => <<e.txns[o].user, o[2]>> \in DOMAIN e.usage
      BY <1>1, <2>2, <2>3 DEF BooksOf
    <2> HIDE DEF k
    <2>5. ChargedLegs(e, k)
      <3>1. LegsOf(e, <<"API_USAGE", k[2]>>) = {key} /\ key[1] = k[1]
        BY <1>2, <1>9, <2>1
      <3>2. {y \in {key} : y[1] = k[1]} = {key}
        BY <3>1
      <3> QED
        BY <1>2, <1>9, <2>2, <3>1, <3>2 DEF ChargedLegs
    <2>6. ASSUME NEW x \in DOMAIN d.usage PROVE ChargedLegs(e, x)
      <3>1. CASE x[2] # req
        <4>1. <<"API_USAGE", x[2]>> # b
          BY <1>9, <3>1
        <4>2. /\ LegsOf(e, <<"API_USAGE", x[2]>>) = LegsOf(d, <<"API_USAGE", x[2]>>)
              /\ \A y \in LegsOf(d, <<"API_USAGE", x[2]>>) : e.ledger[y] = d.ledger[y]
          BY <4>1, <1>2, <1>3
        <4>3. ChargedLegs(d, x) /\ e.usage[x] = d.usage[x]
          BY <2>2 DEF BooksOf, PostedOf
        <4> QED
          BY <4>2, <4>3, KeepCharged
      <3>2. CASE x[2] = req
        <4>1. x = <<x[1], req>> /\ x # k
          BY <2>2, <3>2 DEF BooksOf
        <4>2. x[1] # key[1]
          BY <4>1 DEF k
        <4>3. LegsOf(d, <<"API_USAGE", x[2]>>) = {}
          BY <1>9, <3>2, NoLegs
        <4>4. d.usage[x].charged = 0 /\ d.usage[x].charged <= d.usage[x].cost
          BY <4>3 DEF BooksOf, PostedOf, ChargedLegs
        <4>5. {y \in LegsOf(e, <<"API_USAGE", x[2]>>) : y[1] = x[1]} = {}
          BY <1>2, <1>9, <3>2, <4>2
        <4> QED
          BY <2>2, <4>4, <4>5 DEF ChargedLegs
      <3> QED
        BY <3>1, <3>2
    <2>7. \A x \in DOMAIN e.usage : x = <<x[1], x[2]>>
      BY <2>1, <2>2 DEF BooksOf
    <2> QED
      BY <1>1, <1>4, <1>5, <1>6, <1>7, <2>2, <2>4, <2>5, <2>6, <2>7 DEF BooksOf, PostedOf
  <1> QED
    BY <1>8, <1>9

\* A new operation without a leg: a reward clipped to nothing.
LEMMA NoLegBooks ==
  ASSUME NEW d, BooksOf(d), NEW e, NEW b, b \notin DOMAIN d.txns, b[1] # "API_USAGE",
         NEW t, t.op # "EXCHANGE", e.txns = Put(d.txns, b, t),
         NEW c, c.credited = 0, e.caps = Put(d.caps, <<b, b[2]>>, c),
         e.ledger = d.ledger, e.usage = d.usage
  PROVE  BooksOf(e)
  <1>1. /\ DOMAIN e.txns = DOMAIN d.txns \cup {b} /\ e.txns[b] = t
        /\ \A o \in DOMAIN d.txns : o # b /\ e.txns[o] = d.txns[o]
    BY DEF Put
  <1>2. \A o : LegsOf(e, o) = LegsOf(d, o)
    BY DEF LegsOf
  <1>3. ASSUME NEW o \in DOMAIN d.txns PROVE PostedLegs(e, o)
    <2>1. o # b /\ PostedLegs(d, o) /\ e.txns[o] = d.txns[o]
      BY <1>1 DEF BooksOf, PostedOf
    <2>2. ClippedToZero(e, o) <=> ClippedToZero(d, o)
      BY <2>1, CapsOf
    <2> QED
      BY <1>2, <2>1, <2>2, KeepPosted
  <1>4. PostedLegs(e, b)
    <2>1. LegsOf(e, b) = {}
      BY <1>2, NoLegs
    <2>2. ClippedToZero(e, b)
      <3>1. <<b, b[2]>> \in DOMAIN e.caps /\ e.caps[<<b, b[2]>>] = c
        BY DEF Put
      <3> QED
        BY <3>1 DEF ClippedToZero
    <2> QED
      BY <1>1, <2>1, <2>2 DEF PostedLegs
  <1>5. ASSUME NEW x \in DOMAIN d.usage PROVE ChargedLegs(e, x)
    <2>1. ChargedLegs(d, x) /\ e.usage[x] = d.usage[x]
      BY DEF BooksOf, PostedOf
    <2>2. /\ LegsOf(e, <<"API_USAGE", x[2]>>) = LegsOf(d, <<"API_USAGE", x[2]>>)
          /\ \A y \in LegsOf(d, <<"API_USAGE", x[2]>>) : e.ledger[y] = d.ledger[y]
      BY <1>2
    <2> QED
      BY <2>1, <2>2, KeepCharged
  <1>6. \A x \in DOMAIN e.caps : x[1] \in DOMAIN e.txns /\ x = <<x[1], x[1][2]>>
    <2>1. \A x \in DOMAIN e.caps : x \in DOMAIN d.caps \/ x = <<b, b[2]>>
      BY DEF Put
    <2> QED
      BY <2>1, <1>1 DEF BooksOf
  <1>7. /\ \A x \in DOMAIN e.ledger : e.ledger[x].biz \in DOMAIN e.txns
        /\ \A o \in DOMAIN e.txns : o[1] = "API_USAGE" => <<e.txns[o].user, o[2]>> \in DOMAIN e.usage
    BY <1>1 DEF BooksOf
  <1> QED
    BY <1>1, <1>3, <1>4, <1>5, <1>6, <1>7 DEF BooksOf, PostedOf

\* A new exchange with its two legs, on the two wallets of the user.
LEMMA TwoLegBooks ==
  ASSUME NEW d, BooksOf(d), NEW e, NEW b, b \notin DOMAIN d.txns, b[1] # "API_USAGE",
         NEW t, t.op = "EXCHANGE", e.txns = Put(d.txns, b, t),
         NEW k1, NEW k2, k1 \notin DOMAIN d.ledger, k2 \notin DOMAIN d.ledger,
         k1[1] = t.user, k2[1] = t.user, k1[2] # k2[2],
         NEW e1, NEW e2, e1.biz = b, e2.biz = b, e1.delta + e2.delta = 0,
         e.ledger = Put(Put(d.ledger, k1, e1), k2, e2),
         e.caps = d.caps, e.usage = d.usage
  PROVE  BooksOf(e)
  <1>1. /\ DOMAIN e.txns = DOMAIN d.txns \cup {b} /\ e.txns[b] = t
        /\ \A o \in DOMAIN d.txns : o # b /\ e.txns[o] = d.txns[o]
    BY DEF Put
  <1>2. /\ DOMAIN e.ledger = DOMAIN d.ledger \cup {k1, k2}
        /\ e.ledger[k1] = e1 /\ e.ledger[k2] = e2
        /\ \A x \in DOMAIN d.ledger : e.ledger[x] = d.ledger[x]
    BY DEF Put
  <1>3. /\ LegsOf(e, b) = {k1, k2}
        /\ \A o : o # b => LegsOf(e, o) = LegsOf(d, o)
    <2>1. LegsOf(d, b) = {}
      BY NoLegs
    <2> QED
      BY <1>2, <2>1 DEF LegsOf
  <1>4. \A o, x : x \in LegsOf(d, o) => x \in DOMAIN d.ledger
    BY DEF LegsOf
  <1>5. ASSUME NEW o \in DOMAIN d.txns PROVE PostedLegs(e, o)
    <2>1. o # b /\ PostedLegs(d, o) /\ e.txns[o] = d.txns[o]
      BY <1>1 DEF BooksOf, PostedOf
    <2>2. ClippedToZero(e, o) <=> ClippedToZero(d, o)
      BY DEF ClippedToZero
    <2>3. LegsOf(e, o) = LegsOf(d, o) /\ \A x \in LegsOf(d, o) : e.ledger[x] = d.ledger[x]
      BY <1>2, <1>3, <1>4, <2>1
    <2> QED
      BY <2>1, <2>2, <2>3, KeepPosted
  <1>6. PostedLegs(e, b)
    BY <1>1, <1>2, <1>3 DEF PostedLegs
  <1>7. ASSUME NEW x \in DOMAIN d.usage PROVE ChargedLegs(e, x)
    <2>1. ChargedLegs(d, x) /\ e.usage[x] = d.usage[x]
      BY DEF BooksOf, PostedOf
    <2>2. <<"API_USAGE", x[2]>> # b
      OBVIOUS
    <2>3. /\ LegsOf(e, <<"API_USAGE", x[2]>>) = LegsOf(d, <<"API_USAGE", x[2]>>)
          /\ \A y \in LegsOf(d, <<"API_USAGE", x[2]>>) : e.ledger[y] = d.ledger[y]
      BY <1>2, <1>3, <1>4, <2>2
    <2> QED
      BY <2>1, <2>3, KeepCharged
  <1>8. /\ \A x \in DOMAIN e.ledger : e.ledger[x].biz \in DOMAIN e.txns
        /\ \A x \in DOMAIN e.caps : x[1] \in DOMAIN e.txns /\ x = <<x[1], x[1][2]>>
        /\ \A o \in DOMAIN e.txns : o[1] = "API_USAGE" => <<e.txns[o].user, o[2]>> \in DOMAIN e.usage
    BY <1>1, <1>2 DEF BooksOf
  <1> QED
    BY <1>1, <1>5, <1>6, <1>7, <1>8 DEF BooksOf, PostedOf

\* A relay request that costs the user nothing leaves an attribution and no leg.
LEMMA FreeUsageBooks ==
  ASSUME NEW d, BooksOf(d), NEW e, NEW u, NEW req, <<u, req>> \notin DOMAIN d.usage,
         NEW use, use.charged = 0, use.charged <= use.cost,
         e.usage = Put(d.usage, <<u, req>>, use),
         e.ledger = d.ledger, e.txns = d.txns, e.caps = d.caps
  PROVE  BooksOf(e)
  <1> DEFINE k == <<u, req>>
             b == <<"API_USAGE", req>>
  <1>1. k[1] = u /\ k[2] = req /\ k = <<k[1], k[2]>> /\ b[1] = "API_USAGE" /\ b[2] = req
    OBVIOUS
  <1>2. /\ DOMAIN e.usage = DOMAIN d.usage \cup {k} /\ e.usage[k] = use
        /\ \A x \in DOMAIN d.usage : x # k /\ e.usage[x] = d.usage[x]
    BY DEF Put
  <1>3. \A o : LegsOf(e, o) = LegsOf(d, o) /\ (ClippedToZero(e, o) <=> ClippedToZero(d, o))
    BY DEF LegsOf, ClippedToZero
  <1>4. \A o \in DOMAIN d.txns : PostedLegs(e, o)
    BY <1>3, KeepPosted DEF BooksOf, PostedOf
  <1>5. \A y \in LegsOf(d, b) : y[1] # u
    <2> SUFFICES ASSUME NEW y \in LegsOf(d, b), y[1] = u PROVE FALSE
      OBVIOUS
    <2>1. b \in DOMAIN d.txns
      BY DEF BooksOf, LegsOf
    <2>2. y[1] = d.txns[b].user
      BY <2>1 DEF BooksOf, PostedOf, PostedLegs
    <2>3. <<d.txns[b].user, b[2]>> \in DOMAIN d.usage
      BY <2>1, <1>1 DEF BooksOf
    <2> QED
      BY <2>2, <2>3, <1>1
  <1> HIDE DEF k, b
  <1>6. ChargedLegs(e, k)
    <2>1. LegsOf(e, <<"API_USAGE", k[2]>>) = LegsOf(d, b)
      BY <1>1, <1>3 DEF b
    <2>2. {y \in LegsOf(d, b) : y[1] = k[1]} = {}
      BY <1>1, <1>5
    <2> QED
      BY <1>2, <2>1, <2>2 DEF ChargedLegs
  <1>7. ASSUME NEW x \in DOMAIN d.usage PROVE ChargedLegs(e, x)
    <2>1. ChargedLegs(d, x) /\ e.usage[x] = d.usage[x]
      BY <1>2 DEF BooksOf, PostedOf
    <2>2. /\ LegsOf(e, <<"API_USAGE", x[2]>>) = LegsOf(d, <<"API_USAGE", x[2]>>)
          /\ \A y \in LegsOf(d, <<"API_USAGE", x[2]>>) : e.ledger[y] = d.ledger[y]
      BY <1>3
    <2> QED
      BY <2>1, <2>2, KeepCharged
  <1>8. /\ \A x \in DOMAIN e.usage : x = <<x[1], x[2]>>
        /\ \A o \in DOMAIN e.txns : o[1] = "API_USAGE" => <<e.txns[o].user, o[2]>> \in DOMAIN e.usage
    BY <1>1, <1>2 DEF BooksOf
  <1> QED
    BY <1>2, <1>4, <1>6, <1>7, <1>8 DEF BooksOf, PostedOf

(***************************************************************************)
(* What the transaction operators do to the books.                         *)
(***************************************************************************)
\* The tables that applyInTx leaves alone.
Untouched(d, e) == /\ e.accounts = d.accounts /\ e.caps = d.caps /\ e.usage = d.usage
                   /\ e.rewardKeys = d.rewardKeys /\ SameClaims(d, e)
Unposted(d, e) == e.ledger = d.ledger /\ e.txns = d.txns /\ e.wallets = d.wallets
Posts(d, e, m) ==
    /\ m.biz \notin DOMAIN d.txns
    /\ e.txns = Put(d.txns, m.biz, [user |-> m.user, op |-> m.entry, hash |-> m])
    /\ \E key, en : /\ key \notin DOMAIN d.ledger /\ key[1] = m.user
                    /\ en.biz = m.biz /\ en.delta = m.delta
                    /\ e.ledger = Put(d.ledger, key, en)
    /\ e.wallets = SetRow(d.wallets, m.user, m.asset,
                          NextRow(d.wallets[m.user][m.asset], m.delta))

\* The next number of a wallet is not in the ledger yet.
LEMMA FreshKey ==
  ASSUME NEW d, Sound(d), NEW u \in Users, NEW a \in Assets
  PROVE  /\ EntryKey(u, a, d.wallets[u][a].seq + 1) \notin DOMAIN d.ledger
         /\ EntryKey(u, a, d.wallets[u][a].seq + 1)[1] = u
         /\ EntryKey(u, a, d.wallets[u][a].seq + 1)[2] = a
  <1> DEFINE n == d.wallets[u][a].seq
             key == <<u, a, n + 1>>
  <1>1. n \in Nat
    BY ConstantsAssumption DEF Sound, TablesOf, WalletRow
  <1>2. key[1] = u /\ key[2] = a /\ key[3] = n + 1
    OBVIOUS
  <1>3. key \notin DOMAIN d.ledger
    <2> SUFFICES ASSUME key \in DOMAIN d.ledger PROVE FALSE
      OBVIOUS
    <2> HIDE DEF key
    <2>1. key[3] \in 1..d.wallets[key[1]][key[2]].seq
      BY DEF Sound, ChainOf
    <2> QED
      BY <1>1, <1>2, <2>1
  <1> QED
    BY <1>2, <1>3 DEF EntryKey

\* The tables that a leg, a transaction row and an idempotency record leave alone.
LEMMA LegRest ==
  ASSUME NEW d, TablesOf(d), NEW u, NEW a, NEW delta, NEW b, NEW leg
  PROVE  /\ DOMAIN PostLeg(d, u, a, delta, b, leg) = DOMAIN d
         /\ PostLeg(d, u, a, delta, b, leg).usage = d.usage
         /\ SameClaims(d, PostLeg(d, u, a, delta, b, leg))
  BY Fields DEF PostLeg, TablesOf, SameClaims

\* Book writes a transaction row and nothing else.
LEMMA BookRest ==
  ASSUME NEW d, DOMAIN d = DOMAIN EmptyDB, NEW b, NEW u, NEW op, NEW hash
  PROVE  /\ DOMAIN Book(d, b, u, op, hash) = DOMAIN EmptyDB
         /\ Book(d, b, u, op, hash).txns = Put(d.txns, b, [user |-> u, op |-> op, hash |-> hash])
         /\ Book(d, b, u, op, hash).ledger = d.ledger
         /\ Book(d, b, u, op, hash).wallets = d.wallets
         /\ Book(d, b, u, op, hash).idem = d.idem
         /\ Untouched(d, Book(d, b, u, op, hash))
  BY Fields DEF Book, Untouched, SameClaims

\* Remember writes a key row and nothing else.
LEMMA RememberRest ==
  ASSUME NEW d, DOMAIN d = DOMAIN EmptyDB, NEW i, NEW hash, NEW b
  PROVE  /\ Unposted(d, Remember(d, i, hash, b))
         /\ Remember(d, i, hash, b).idem = Put(d.idem, i, [hash |-> hash, biz |-> b])
         /\ Untouched(d, Remember(d, i, hash, b))
  BY Fields DEF Remember, Untouched, Unposted, SameClaims

\* A record of a mutation for its own business identity keeps the keys in order.
LEMMA RememberKeys ==
  ASSUME NEW d, NEW e, KeysOf(d), NEW i, NEW hash, NEW b, i[2] = "apply" => hash.biz = b,
         e.idem = Put(d.idem, i, [hash |-> hash, biz |-> b]), e.rewardKeys = d.rewardKeys
  PROVE  KeysOf(e)
  <1>1. /\ DOMAIN e.idem = DOMAIN d.idem \cup {i}
        /\ e.idem[i].hash = hash /\ e.idem[i].biz = b
        /\ \A x \in DOMAIN d.idem : x # i => e.idem[x] = d.idem[x]
    BY DEF Put
  <1> QED
    BY <1>1 DEF KeysOf

\* applyInTx fails and changes nothing, repeats the receipt of its operation, or
\* posts the operation.
LEMMA ApplyEffect ==
  ASSUME NEW d, Sound(d), KeysOf(d), NEW m, Mutation(m), NEW k
  PROVE  /\ ~applyInTx(d, m, k).ok => applyInTx(d, m, k).db = d
         /\ applyInTx(d, m, k).ok =>
               /\ applyInTx(d, m, k).biz = m.biz
               /\ KeysOf(applyInTx(d, m, k).db) /\ Untouched(d, applyInTx(d, m, k).db)
               /\ \/ m.biz \in DOMAIN d.txns /\ Unposted(d, applyInTx(d, m, k).db)
                  \/ Posts(d, applyInTx(d, m, k).db, m)
  <1> DEFINE r == applyInTx(d, m, k)
             i == IdemKey(m.user, "apply", k)
             posted == PostLeg(d, m.user, m.asset, m.delta, m.biz, 1)
             booked == Book(posted, m.biz, m.user, m.entry, m)
             Goal == /\ ~r.ok => r.db = d
                     /\ r.ok => /\ r.biz = m.biz /\ KeysOf(r.db) /\ Untouched(d, r.db)
                                /\ \/ m.biz \in DOMAIN d.txns /\ Unposted(d, r.db)
                                   \/ Posts(d, r.db, m)
  <1>0. DOMAIN d = DOMAIN EmptyDB /\ TablesOf(d) /\ i[2] = "apply"
    BY Projections DEF Sound, TablesOf
  <1>1. ASSUME r = Fail(d) PROVE Goal
    BY <1>1 DEF Fail
  <1>2. ASSUME i \in DOMAIN d.idem, d.idem[i].hash = m, r = Done(d, d.idem[i].biz)
        PROVE  Goal
    <2>1. r.db = d /\ r.ok /\ r.biz = d.idem[i].biz
      BY <1>2 DEF Done
    <2>2. r.biz = m.biz
      BY <1>0, <1>2, <2>1 DEF KeysOf
    <2>3. m.biz \in DOMAIN d.txns
      BY <1>2, <2>1, <2>2 DEF Sound, ReceiptsOf
    <2> HIDE DEF r, i
    <2> QED
      BY <2>1, <2>2, <2>3 DEF Untouched, Unposted, SameClaims
  <1>3. ASSUME m.biz \in DOMAIN d.txns, r = Done(Remember(d, i, m, m.biz), m.biz)
        PROVE  Goal
    <2>1. r.db = Remember(d, i, m, m.biz) /\ r.ok /\ r.biz = m.biz
      BY <1>3 DEF Done
    <2> HIDE DEF r, i
    <2>2. /\ Unposted(d, r.db) /\ Untouched(d, r.db)
          /\ r.db.idem = Put(d.idem, i, [hash |-> m, biz |-> m.biz])
      BY <1>0, <2>1, RememberRest
    <2>3. KeysOf(r.db)
      BY <2>2, RememberKeys DEF Untouched
    <2> QED
      BY <1>3, <2>1, <2>2, <2>3
  <1>4. ASSUME m.biz \notin DOMAIN d.txns, r = Done(Remember(booked, i, m, m.biz), m.biz)
        PROVE  Goal
    <2> DEFINE key == EntryKey(m.user, m.asset, d.wallets[m.user][m.asset].seq + 1)
               en == NextEntry(d.wallets[m.user][m.asset], m.delta, m.biz, 1)
    <2>1. /\ DOMAIN posted = DOMAIN EmptyDB /\ posted.ledger = Put(d.ledger, key, en)
          /\ posted.wallets = SetRow(d.wallets, m.user, m.asset,
                                     NextRow(d.wallets[m.user][m.asset], m.delta))
          /\ posted.txns = d.txns /\ posted.idem = d.idem /\ Untouched(d, posted)
      BY <1>0, PostLegFields, LegRest DEF Mutation, Untouched
    <2>2. key \notin DOMAIN d.ledger /\ key[1] = m.user
      BY FreshKey DEF Mutation
    <2>3. en.biz = m.biz /\ en.delta = m.delta
      BY DEF NextEntry
    <2> HIDE DEF posted, key, en
    <2>4. /\ DOMAIN booked = DOMAIN EmptyDB
          /\ booked.txns = Put(posted.txns, m.biz, [user |-> m.user, op |-> m.entry, hash |-> m])
          /\ booked.ledger = posted.ledger /\ booked.wallets = posted.wallets
          /\ booked.idem = posted.idem /\ Untouched(posted, booked)
      BY <2>1, BookRest
    <2> HIDE DEF booked
    <2>5. r.db = Remember(booked, i, m, m.biz) /\ r.ok /\ r.biz = m.biz
      BY <1>4 DEF Done
    <2> HIDE DEF r, i
    <2>6. /\ Unposted(booked, r.db) /\ Untouched(booked, r.db)
          /\ r.db.idem = Put(booked.idem, i, [hash |-> m, biz |-> m.biz])
      BY <2>4, <2>5, RememberRest
    <2>7. Untouched(d, r.db)
      BY <2>1, <2>4, <2>6 DEF Untouched, SameClaims
    <2>8. r.db.idem = Put(d.idem, i, [hash |-> m, biz |-> m.biz])
      BY <2>1, <2>4, <2>6
    <2>9. KeysOf(r.db)
      BY <2>7, <2>8, RememberKeys DEF Untouched
    <2>10. /\ r.db.txns = Put(d.txns, m.biz, [user |-> m.user, op |-> m.entry, hash |-> m])
           /\ r.db.ledger = Put(d.ledger, key, en)
           /\ r.db.wallets = SetRow(d.wallets, m.user, m.asset,
                                    NextRow(d.wallets[m.user][m.asset], m.delta))
      BY <2>1, <2>4, <2>6 DEF Unposted
    <2>11. Posts(d, r.db, m)
      BY <1>4, <2>2, <2>3, <2>10 DEF Posts
    <2> QED
      BY <2>5, <2>7, <2>9, <2>11
  <1>5. \/ r = Fail(d)
        \/ i \in DOMAIN d.idem /\ d.idem[i].hash = m /\ r = Done(d, d.idem[i].biz)
        \/ m.biz \in DOMAIN d.txns /\ r = Done(Remember(d, i, m, m.biz), m.biz)
        \/ m.biz \notin DOMAIN d.txns /\ r = Done(Remember(booked, i, m, m.biz), m.biz)
    BY DEF applyInTx
  <1> HIDE DEF r, i, booked
  <1>6. Goal
    BY <1>1, <1>2, <1>3, <1>4, <1>5
  <1> QED
    BY <1>6 DEF r

\* What the grant of a reward does before its cap settlement is recorded: nothing,
\* a repeated receipt, a posted amount, or a transaction without a leg.
Granted(d, m, k, credited) ==
    IF credited > 0 THEN applyInTx(d, Clip(m, credited), k) ELSE zeroReward(d, m, k)
BooksNothing(d, e, m) ==
    /\ m.biz \notin DOMAIN d.txns
    /\ e.txns = Put(d.txns, m.biz, [user |-> m.user, op |-> m.entry, hash |-> m])
    /\ e.ledger = d.ledger /\ e.wallets = d.wallets

\* A clipped reward is the same mutation with another amount.
LEMMA ClipFields ==
  ASSUME NEW m, Mutation(m), NEW credited \in Nat
  PROVE  /\ Mutation(Clip(m, credited)) /\ Clip(m, credited).user = m.user
         /\ Clip(m, credited).biz = m.biz /\ Clip(m, credited).entry = m.entry
         /\ Clip(m, credited).asset = m.asset /\ Clip(m, credited).delta = credited
  BY DEF Mutation, Clip

\* A granted reward books what was credited, or finds it booked.
LEMMA GrantedEffect ==
  ASSUME NEW d, Sound(d), KeysOf(d), NEW m, Mutation(m), NEW k, NEW credited \in Nat
  PROVE  /\ ~Granted(d, m, k, credited).ok => Granted(d, m, k, credited).db = d
         /\ Granted(d, m, k, credited).ok =>
               /\ Granted(d, m, k, credited).biz = m.biz
               /\ KeysOf(Granted(d, m, k, credited).db)
               /\ Untouched(d, Granted(d, m, k, credited).db)
               /\ \/ m.biz \in DOMAIN d.txns /\ Unposted(d, Granted(d, m, k, credited).db)
                  \/ credited > 0 /\ Posts(d, Granted(d, m, k, credited).db, Clip(m, credited))
                  \/ credited = 0 /\ BooksNothing(d, Granted(d, m, k, credited).db, m)
  <1> DEFINE r == Granted(d, m, k, credited)
             booked == Book(d, m.biz, m.user, m.entry, m)
             Goal == /\ ~r.ok => r.db = d
                     /\ r.ok => /\ r.biz = m.biz /\ KeysOf(r.db) /\ Untouched(d, r.db)
                                /\ \/ m.biz \in DOMAIN d.txns /\ Unposted(d, r.db)
                                   \/ credited > 0 /\ Posts(d, r.db, Clip(m, credited))
                                   \/ credited = 0 /\ BooksNothing(d, r.db, m)
  <1>0. DOMAIN d = DOMAIN EmptyDB
    BY DEF Sound, TablesOf
  <1>1. ASSUME credited > 0 PROVE Goal
    <2> DEFINE n == Clip(m, credited)
    <2>1. Mutation(n) /\ n.biz = m.biz
      BY ClipFields
    <2>2. r = applyInTx(d, n, k)
      BY <1>1 DEF Granted
    <2> HIDE DEF n, r
    <2>3. /\ ~r.ok => r.db = d
          /\ r.ok => /\ r.biz = n.biz /\ KeysOf(r.db) /\ Untouched(d, r.db)
                     /\ \/ n.biz \in DOMAIN d.txns /\ Unposted(d, r.db)
                        \/ Posts(d, r.db, n)
      BY <2>1, <2>2, ApplyEffect
    <2> QED
      BY <1>1, <2>1, <2>3 DEF n
  <1>2. ASSUME credited = 0 PROVE Goal
    <2>1. \/ r = Fail(d)
          \/ m.biz \in DOMAIN d.txns /\ r = Done(d, m.biz)
          \/ m.biz \notin DOMAIN d.txns /\ r = Done(booked, m.biz)
      BY <1>2 DEF Granted, zeroReward
    <2>2. /\ booked.txns = Put(d.txns, m.biz, [user |-> m.user, op |-> m.entry, hash |-> m])
          /\ booked.ledger = d.ledger /\ booked.wallets = d.wallets
          /\ booked.idem = d.idem /\ Untouched(d, booked)
      BY <1>0, BookRest
    <2> HIDE DEF r, booked
    <2>3. KeysOf(booked)
      BY <2>2 DEF KeysOf, Untouched
    <2>4. CASE r = Fail(d)
      BY <2>4 DEF Fail
    <2>5. CASE m.biz \in DOMAIN d.txns /\ r = Done(d, m.biz)
      BY <2>5 DEF Done, Untouched, Unposted, SameClaims
    <2>6. CASE m.biz \notin DOMAIN d.txns /\ r = Done(booked, m.biz)
      <3>1. r.db = booked /\ r.ok /\ r.biz = m.biz
        BY <2>6 DEF Done
      <3>2. BooksNothing(d, booked, m)
        BY <2>2, <2>6 DEF BooksNothing
      <3> QED
        BY <1>2, <2>2, <2>3, <3>1, <3>2
    <2> QED
      BY <2>1, <2>4, <2>5, <2>6
  <1> HIDE DEF r
  <1>3. Goal
    BY <1>1, <1>2
  <1> QED
    BY <1>3 DEF r

\* What a reward does: it fails and changes nothing, or it has its transaction, its
\* books and keys are in order, its claim tables are untouched, and a wallet moves
\* only when the transaction is new.
Rewarded(d, e, m) ==
    /\ BooksOf(e) /\ KeysOf(e) /\ SameClaims(d, e) /\ e.accounts = d.accounts
    /\ DOMAIN e.txns = DOMAIN d.txns \cup {m.biz}
RewardMutation(m) ==
    /\ Mutation(m) /\ m.delta \in Nat /\ m.entry \in RewardKinds
    /\ m.biz[1] = m.entry /\ m.biz[2] = m.user
Moves(d, e, m, delta) ==
    e.wallets = SetRow(d.wallets, m.user, m.asset, NextRow(d.wallets[m.user][m.asset], delta))

GrantOutcome(d, m, g, credited) ==
    /\ ~g.ok => g.db = d
    /\ g.ok => /\ g.biz = m.biz /\ Rewarded(d, g.db, m)
               /\ \/ g.db.wallets = d.wallets
                  \/ /\ m.biz \notin DOMAIN d.txns /\ credited > 0
                     /\ Moves(d, g.db, m, credited)

RewardOutcome(d, m, r, active, outside) ==
    /\ ~r.ok => r.db = d
    /\ r.ok => /\ r.biz = m.biz /\ Rewarded(d, r.db, m)
               /\ \/ r.db.wallets = d.wallets
                  \/ \E delta \in Nat :
                        /\ Moves(d, r.db, m, delta)
                        /\ active => TotalAssets(d, m.user, outside) + delta <= AssetCap

\* The three tails of the books of a reward.
LEMMA RewardBooks ==
  ASSUME NEW d, BooksOf(d), NEW m, RewardMutation(m), NEW n, n.user = m.user, n.entry = m.entry,
         n.biz = m.biz, NEW e, e.usage = d.usage,
         \/ /\ m.biz \in DOMAIN d.txns /\ e.ledger = d.ledger /\ e.txns = d.txns
            /\ DOMAIN e.caps = DOMAIN d.caps /\ \A x \in DOMAIN d.caps : e.caps[x] = d.caps[x]
         \/ Posts(d, e, n) /\ e.caps = d.caps
         \/ Posts(d, e, n) /\ \E c : c.credited # 0 /\ e.caps = Put(d.caps, <<m.biz, m.user>>, c)
         \/ /\ BooksNothing(d, e, n)
            /\ \E c : c.credited = 0 /\ e.caps = Put(d.caps, <<m.biz, m.user>>, c)
  PROVE  BooksOf(e) /\ DOMAIN e.txns = DOMAIN d.txns \cup {m.biz}
  <1> DEFINE b == m.biz
             t == [user |-> n.user, op |-> n.entry, hash |-> n]
  <1>0. /\ b[1] # "API_USAGE" /\ b[2] = m.user /\ t.user = m.user /\ t.op # "EXCHANGE"
    BY DEF RewardMutation, RewardKinds
  <1>1. CASE /\ b \in DOMAIN d.txns /\ e.ledger = d.ledger /\ e.txns = d.txns
             /\ DOMAIN e.caps = DOMAIN d.caps /\ \A x \in DOMAIN d.caps : e.caps[x] = d.caps[x]
    <2>1. BooksOf(e)
      BY <1>1, BooksFrame DEF SameBooks
    <2> QED
      BY <1>1, <2>1
  <1>2. CASE /\ Posts(d, e, n)
             /\ \/ e.caps = d.caps
                \/ \E c : c.credited # 0 /\ e.caps = Put(d.caps, <<b, m.user>>, c)
    <2>1. b \notin DOMAIN d.txns /\ e.txns = Put(d.txns, b, t)
      BY <1>2 DEF Posts
    <2>2. PICK key, en : /\ key \notin DOMAIN d.ledger /\ key[1] = t.user
                         /\ en.biz = b /\ e.ledger = Put(d.ledger, key, en)
      BY <1>2 DEF Posts
    <2>3. e.caps = d.caps \/ \E c : c.credited # 0 /\ e.caps = Put(d.caps, <<b, b[2]>>, c)
      BY <1>0, <1>2
    <2> HIDE DEF b, t
    <2>4. BooksOf(e)
      BY <1>0, <1>2, <2>1, <2>2, <2>3, OneLegBooks
    <2>5. DOMAIN e.txns = DOMAIN d.txns \cup {b}
      BY <2>1 DEF Put
    <2> QED
      BY <2>4, <2>5 DEF b
  <1>3. CASE /\ BooksNothing(d, e, n)
             /\ \E c : c.credited = 0 /\ e.caps = Put(d.caps, <<b, m.user>>, c)
    <2>1. b \notin DOMAIN d.txns /\ e.txns = Put(d.txns, b, t) /\ e.ledger = d.ledger
      BY <1>3 DEF BooksNothing
    <2>2. PICK c : c.credited = 0 /\ e.caps = Put(d.caps, <<b, b[2]>>, c)
      BY <1>0, <1>3
    <2> HIDE DEF b, t
    <2>3. BooksOf(e)
      BY <1>0, <1>3, <2>1, <2>2, NoLegBooks
    <2>4. DOMAIN e.txns = DOMAIN d.txns \cup {b}
      BY <2>1 DEF Put
    <2> QED
      BY <2>3, <2>4 DEF b
  <1> QED
    BY <1>1, <1>2, <1>3

\* The cap settlement and the reward key are the last two writes of a grant.
LEMMA CapAndKeyRest ==
  ASSUME NEW d, DOMAIN d = DOMAIN EmptyDB, NEW m, NEW c, NEW y, NEW hash, NEW b
  PROVE  LET e == Reserve(RecordCap(d, m, c), y, hash, b)
         IN  /\ Unposted(d, e) /\ e.accounts = d.accounts /\ e.usage = d.usage
             /\ e.idem = d.idem /\ SameClaims(d, e)
             /\ e.caps = Put(d.caps, <<m.biz, m.user>>, c)
             /\ e.rewardKeys = Put(d.rewardKeys, y, [hash |-> hash, biz |-> b])
  BY Fields DEF Reserve, RecordCap, Unposted, SameClaims

\* The tail of applyRewardInTx, for the cap settlement of a reward already granted or
\* of a new one.
LEMMA GrantEffect ==
  ASSUME NEW d, Sound(d), BooksOf(d), KeysOf(d), NEW m, RewardMutation(m), NEW k,
         NEW c, c.credited \in Nat,
         m.biz \in DOMAIN d.txns => /\ <<m.biz, m.user>> \in DOMAIN d.caps
                                    /\ c = d.caps[<<m.biz, m.user>>]
  PROVE  GrantOutcome(d, m, grantCapped(d, m, k, c), c.credited)
  <1> DEFINE g == grantCapped(d, m, k, c)
             r == Granted(d, m, k, c.credited)
             e == Reserve(RecordCap(r.db, m, c), RewardKey(m.user, k), m, r.biz)
             n == Clip(m, c.credited)
             cap == <<m.biz, m.user>>
             Goal == GrantOutcome(d, m, g, c.credited)
  <1>0. Mutation(m) /\ cap[1] = m.biz
    BY DEF RewardMutation
  <1>1. /\ n.user = m.user /\ n.biz = m.biz /\ n.entry = m.entry /\ n.asset = m.asset
        /\ n.delta = c.credited
    BY <1>0, ClipFields
  <1>2. g = IF r.ok THEN Done(e, r.biz) ELSE Fail(d)
    BY DEF grantCapped, Granted
  <1> HIDE DEF g, n
  <1>3. ASSUME ~r.ok PROVE Goal
    <2>1. g = Fail(d)
      BY <1>2, <1>3
    <2>2. ~g.ok /\ g.db = d
      BY <2>1 DEF Fail
    <2> QED
      BY <2>2 DEF GrantOutcome
  <1>4. ASSUME r.ok PROVE Goal
    <2>1. /\ r.biz = m.biz /\ KeysOf(r.db) /\ Untouched(d, r.db)
          /\ \/ m.biz \in DOMAIN d.txns /\ Unposted(d, r.db)
             \/ c.credited > 0 /\ Posts(d, r.db, n)
             \/ c.credited = 0 /\ BooksNothing(d, r.db, m)
      BY <1>0, <1>4, GrantedEffect DEF n
    <2>2. DOMAIN r.db = DOMAIN EmptyDB
      <3>1. Settled(applyInTx(d, n, k), n.user) /\ Settled(zeroReward(d, m, k), m.user)
        BY <1>0, ClipFields, ApplySound, ZeroRewardSound DEF n
      <3> QED
        BY <3>1 DEF Granted, Settled, Sound, TablesOf, n
    <2>3. g.ok /\ g.db = e /\ g.biz = r.biz
      BY <1>2, <1>4 DEF Done
    <2> HIDE DEF r
    <2>4. /\ Unposted(r.db, e) /\ e.accounts = r.db.accounts /\ e.usage = r.db.usage
          /\ e.idem = r.db.idem /\ SameClaims(r.db, e) /\ e.caps = Put(r.db.caps, cap, c)
          /\ e.rewardKeys = Put(r.db.rewardKeys, RewardKey(m.user, k), [hash |-> m, biz |-> r.biz])
      BY <2>2, CapAndKeyRest
    <2> HIDE DEF e, cap
    <2>5. /\ e.caps = Put(d.caps, cap, c) /\ e.usage = d.usage /\ SameClaims(d, e)
          /\ e.accounts = d.accounts
      BY <2>1, <2>4 DEF Untouched, SameClaims
    <2>6. KeysOf(e)
      <3> DEFINE y == RewardKey(m.user, k)
                 row == [hash |-> m, biz |-> r.biz]
      <3> HIDE DEF y
      <3>1. /\ DOMAIN e.rewardKeys = DOMAIN r.db.rewardKeys \cup {y}
            /\ e.rewardKeys[y] = row
            /\ \A x \in DOMAIN r.db.rewardKeys : x # y => e.rewardKeys[x] = r.db.rewardKeys[x]
        BY <2>4 DEF Put, y
      <3>2. row.hash.biz = row.biz
        BY <2>1
      <3> QED
        BY <2>1, <2>4, <3>1, <3>2 DEF KeysOf
    <2>7. CASE m.biz \in DOMAIN d.txns /\ Unposted(d, r.db)
      <3>1. cap \in DOMAIN d.caps /\ c = d.caps[cap]
        BY <2>7 DEF cap
      <3>2. DOMAIN e.caps = DOMAIN d.caps /\ \A x \in DOMAIN d.caps : e.caps[x] = d.caps[x]
        BY <2>5, <3>1 DEF Put
      <3>3. e.ledger = d.ledger /\ e.txns = d.txns /\ e.wallets = d.wallets
        BY <2>4, <2>7 DEF Unposted
      <3>4. BooksOf(e) /\ DOMAIN e.txns = DOMAIN d.txns \cup {m.biz}
        BY <2>5, <2>7, <3>2, <3>3, RewardBooks
      <3> QED
        BY <2>1, <2>3, <2>5, <2>6, <3>3, <3>4 DEF Rewarded, GrantOutcome
    <2>8. CASE c.credited > 0 /\ Posts(d, r.db, n)
      <3>1. Posts(d, e, n)
        BY <2>4, <2>8 DEF Posts, Unposted
      <3>2. c.credited # 0
        BY <2>8
      <3>3. BooksOf(e) /\ DOMAIN e.txns = DOMAIN d.txns \cup {m.biz}
        BY <1>1, <2>5, <3>1, <3>2, RewardBooks DEF cap
      <3>4. m.biz \notin DOMAIN d.txns /\ Moves(d, e, m, c.credited)
        BY <1>1, <3>1 DEF Posts, Moves
      <3> QED
        BY <2>1, <2>3, <2>5, <2>6, <2>8, <3>3, <3>4 DEF Rewarded, GrantOutcome
    <2>9. CASE c.credited = 0 /\ BooksNothing(d, r.db, m)
      <3>1. BooksNothing(d, e, m)
        BY <2>4, <2>9 DEF BooksNothing, Unposted
      <3>2. BooksOf(e) /\ DOMAIN e.txns = DOMAIN d.txns \cup {m.biz}
        BY <2>5, <2>9, <3>1, RewardBooks DEF cap
      <3>3. e.wallets = d.wallets
        BY <3>1 DEF BooksNothing
      <3> QED
        BY <2>1, <2>3, <2>5, <2>6, <3>2, <3>3 DEF Rewarded, GrantOutcome
    <2> QED
      BY <2>1, <2>7, <2>8, <2>9
  <1>5. Goal
    BY <1>3, <1>4
  <1> HIDE DEF g
  <1> QED
    BY <1>5 DEF g

\* What a user has is never negative.
LEMMA TotalNat ==
  ASSUME NEW d, Sound(d), NEW u \in Users, NEW outside \in Nat
  PROVE  TotalAssets(d, u, outside) \in Nat
  <1>1. \A a \in Assets : d.wallets[u][a].balance \in Nat
    BY ConstantsAssumption DEF Sound, TablesOf, WalletRow
  <1> QED
    BY <1>1 DEF TotalAssets, Assets

\* The profit that CapPayout credits to a reward fits below the cap.
LEMMA CreditFits ==
  ASSUME NEW total \in Nat, NEW gross \in Nat
  PROVE  LET c == CapPayout(AssetCap, total, 0, gross, 1)
         IN  c.credited \in Nat /\ (c.credited > 0 => total + c.credited <= AssetCap)
  <1> DEFINE c == CapPayout(AssetCap, total, 0, gross, 1)
  <1>1. AssetCap \in Nat \ {0}
    BY ConstantsAssumption
  <1>2. c.credited \in Nat
    BY CreditedNat
  <1>3. CapPayoutAccepts(AssetCap, total, 0, gross, 1) /\ Least(0, gross) = 0
    BY <1>1 DEF CapPayoutAccepts, Least
  <1>4. /\ c.after = total - 0 + c.credited
        /\ c.credited > 0 => c.after <= AssetCap
    BY <1>1, <1>3, PayoutCapped
  <1> HIDE DEF c
  <1>5. c.credited > 0 => total + c.credited <= AssetCap
    BY <1>2, <1>4
  <1> QED
    BY <1>2, <1>5 DEF c

\* applyRewardInTx: what it pays is new, and below the cap once the policy is active.
LEMMA RewardEffect ==
  ASSUME NEW d, Sound(d), BooksOf(d), KeysOf(d), NEW m, RewardMutation(m), NEW k,
         NEW active \in BOOLEAN, NEW outside \in Nat
  PROVE  RewardOutcome(d, m, applyRewardInTx(d, m, k, active, outside), active, outside)
  <1> DEFINE r == applyRewardInTx(d, m, k, active, outside)
             rk == RewardKey(m.user, k)
             cap == <<m.biz, m.user>>
             total == TotalAssets(d, m.user, outside)
             c == CapPayout(AssetCap, total, 0, m.delta, 1)
             Goal == /\ ~r.ok => r.db = d
                     /\ r.ok => /\ r.biz = m.biz /\ Rewarded(d, r.db, m)
                                /\ \/ r.db.wallets = d.wallets
                                   \/ \E delta \in Nat :
                                         /\ Moves(d, r.db, m, delta)
                                         /\ active => TotalAssets(d, m.user, outside) + delta
                                                         <= AssetCap
  <1>0. Mutation(m) /\ m.delta \in Nat /\ m.user \in Users
    BY DEF RewardMutation, Mutation
  <1>1. \/ r = Fail(d)
        \/ rk \in DOMAIN d.rewardKeys /\ d.rewardKeys[rk].hash = m /\ r = Done(d, d.rewardKeys[rk].biz)
        \/ cap \in DOMAIN d.caps /\ r = grantCapped(d, m, k, d.caps[cap])
        \/ (m.biz \in DOMAIN d.txns \/ ~active) /\ r = applyInTx(d, m, k)
        \/ cap \notin DOMAIN d.caps /\ m.biz \notin DOMAIN d.txns /\ r = grantCapped(d, m, k, c)
    BY DEF applyRewardInTx
  <1>2. ASSUME r = Fail(d) PROVE Goal
    <2>1. ~r.ok /\ r.db = d
      BY <1>2 DEF Fail
    <2> HIDE DEF r
    <2> QED
      BY <2>1
  <1>3. ASSUME rk \in DOMAIN d.rewardKeys, d.rewardKeys[rk].hash = m,
               r = Done(d, d.rewardKeys[rk].biz)
        PROVE  Goal
    <2>1. r.db = d /\ r.ok /\ r.biz = d.rewardKeys[rk].biz
      BY <1>3 DEF Done
    <2> HIDE DEF r, rk
    <2>2. r.biz = m.biz /\ r.biz \in DOMAIN d.txns
      BY <1>3, <2>1 DEF KeysOf, Sound, ReceiptsOf
    <2>3. Rewarded(d, d, m)
      BY <2>2 DEF Rewarded, SameClaims
    <2> QED
      BY <2>1, <2>2, <2>3
  <1>4. ASSUME cap \in DOMAIN d.caps, r = grantCapped(d, m, k, d.caps[cap])
        PROVE  Goal
    <2>1. cap[1] = m.biz /\ m.biz \in DOMAIN d.txns
      BY <1>4 DEF BooksOf
    <2>2. d.caps[cap].credited \in Nat
      BY <1>4 DEF Sound, TablesOf
    <2> HIDE DEF r
    <2>3. GrantOutcome(d, m, r, d.caps[cap].credited)
      BY <1>4, <2>1, <2>2, GrantEffect
    <2> QED
      BY <2>1, <2>3 DEF GrantOutcome
  <1>5. ASSUME m.biz \in DOMAIN d.txns \/ ~active, r = applyInTx(d, m, k) PROVE Goal
    <2>1. Sound(r.db)
      BY <1>0, <1>5, ApplySound DEF Settled
    <2> HIDE DEF r
    <2>2. /\ ~r.ok => r.db = d
          /\ r.ok => /\ r.biz = m.biz /\ KeysOf(r.db) /\ Untouched(d, r.db)
                     /\ \/ m.biz \in DOMAIN d.txns /\ Unposted(d, r.db)
                        \/ Posts(d, r.db, m)
      BY <1>0, <1>5, ApplyEffect
    <2>3. ASSUME r.ok, m.biz \in DOMAIN d.txns, Unposted(d, r.db)
          PROVE  Rewarded(d, r.db, m) /\ r.db.wallets = d.wallets
      <3>1. BooksOf(r.db)
        BY <2>2, <2>3, BooksFrame DEF SameBooks, Untouched, Unposted
      <3> QED
        BY <2>2, <2>3, <3>1 DEF Rewarded, Untouched, Unposted
    <2>4. ASSUME r.ok, Posts(d, r.db, m)
          PROVE  Rewarded(d, r.db, m) /\ Moves(d, r.db, m, m.delta) /\ ~active
      <3>2. r.db.usage = d.usage /\ r.db.caps = d.caps
        BY <2>2, <2>4 DEF Untouched
      <3> DEFINE e == r.db
      <3>1. Posts(d, e, m) /\ e.caps = d.caps /\ e.usage = d.usage
        BY <2>4, <3>2
      <3> HIDE DEF e
      <3>3. BooksOf(e) /\ DOMAIN e.txns = DOMAIN d.txns \cup {m.biz}
        <4> SUFFICES ASSUME NEW n, n = m
                     PROVE  BooksOf(e) /\ DOMAIN e.txns = DOMAIN d.txns \cup {m.biz}
          OBVIOUS
        <4>1. n.user = m.user /\ n.entry = m.entry /\ n.biz = m.biz /\ Posts(d, e, n)
          BY <3>1
        <4> QED
          BY <3>1, <4>1, RewardBooks
      <3>4. ~active /\ Moves(d, r.db, m, m.delta)
        BY <1>5, <2>4 DEF Posts, Moves
      <3> QED
        BY <2>2, <2>4, <3>3, <3>4 DEF Rewarded, Untouched, e
    <2> QED
      BY <1>0, <2>2, <2>3, <2>4
  <1>6. ASSUME m.biz \notin DOMAIN d.txns, r = grantCapped(d, m, k, c) PROVE Goal
    <2>1. total \in Nat
      BY <1>0, TotalNat
    <2>2. c.credited \in Nat /\ (c.credited > 0 => total + c.credited <= AssetCap)
      BY <1>0, <2>1, CreditFits
    <2> HIDE DEF r, c, total
    <2>3. GrantOutcome(d, m, r, c.credited)
      BY <1>6, <2>2, GrantEffect
    <2> QED
      BY <2>2, <2>3 DEF GrantOutcome, total
  <1> HIDE DEF r, rk, cap, c
  <1>7. Goal
    BY <1>1, <1>2, <1>3, <1>4, <1>5, <1>6
  <1> QED
    BY <1>7 DEF r, RewardOutcome

\* A step outside the rewards: no claim and no transaction of a reward is added.
Outside(d, e) ==
    /\ SameClaims(d, e)
    /\ \A b \in DOMAIN e.txns : b[1] \in RewardKinds => b \in DOMAIN d.txns
Kept(d, e) == BooksOf(e) /\ KeysOf(e) /\ Outside(d, e)

\* Nothing done keeps the books.
LEMMA KeptSame ==
  ASSUME NEW d, BooksOf(d), KeysOf(d)
  PROVE  Kept(d, d)
  BY DEF Kept, Outside, SameClaims

\* A mutation of a game.
LEMMA GameKept ==
  ASSUME NEW d, Sound(d), BooksOf(d), KeysOf(d), NEW m \in GameMutations, NEW k
  PROVE  Kept(d, applyInTx(d, m, k).db)
  <1> DEFINE r == applyInTx(d, m, k)
             t == [user |-> m.user, op |-> m.entry, hash |-> m]
  <1>1. Mutation(m) /\ m.biz[1] = "GAME" /\ m.entry = "GAME"
    BY ConstantsAssumption DEF Mutation
  <1>2. /\ ~r.ok => r.db = d
        /\ r.ok => /\ KeysOf(r.db) /\ Untouched(d, r.db)
                   /\ \/ m.biz \in DOMAIN d.txns /\ Unposted(d, r.db)
                      \/ Posts(d, r.db, m)
    BY <1>1, ApplyEffect
  <1> HIDE DEF r
  <1>3. CASE r.ok /\ Unposted(d, r.db)
    <2>1. KeysOf(r.db) /\ Untouched(d, r.db)
      BY <1>2, <1>3
    <2>2. BooksOf(r.db)
      BY <1>3, <2>1, BooksFrame DEF SameBooks, Untouched, Unposted
    <2>3. Outside(d, r.db)
      BY <1>3, <2>1 DEF Outside, Untouched, Unposted
    <2> QED
      BY <2>1, <2>2, <2>3 DEF Kept, r
  <1>4. CASE r.ok /\ Posts(d, r.db, m)
    <2> DEFINE e == r.db
    <2>1. KeysOf(e) /\ Untouched(d, e) /\ e.caps = d.caps /\ e.usage = d.usage
      BY <1>2, <1>4 DEF Untouched
    <2>2. m.biz \notin DOMAIN d.txns /\ e.txns = Put(d.txns, m.biz, t)
      BY <1>4 DEF Posts
    <2>3. PICK key, en : /\ key \notin DOMAIN d.ledger /\ key[1] = m.user
                         /\ en.biz = m.biz /\ e.ledger = Put(d.ledger, key, en)
      BY <1>4 DEF Posts
    <2>4. t.user = m.user /\ t.op # "EXCHANGE" /\ m.biz[1] # "API_USAGE"
      BY <1>1
    <2> HIDE DEF e, t
    <2>5. BooksOf(e)
      BY <2>1, <2>2, <2>3, <2>4, OneLegBooks
    <2>6. Outside(d, e)
      <3>1. DOMAIN e.txns = DOMAIN d.txns \cup {m.biz}
        BY <2>2 DEF Put
      <3> QED
        BY <1>1, <2>1, <3>1 DEF Outside, Untouched, RewardKinds
    <2> QED
      BY <2>1, <2>5, <2>6 DEF Kept, e, r
  <1>5. CASE ~r.ok
    BY <1>2, <1>5, KeptSame DEF r
  <1> QED
    BY <1>2, <1>3, <1>4, <1>5

\* An exchange: nothing, or its two legs, its transaction and its receipt.
LEMMA ExchangeKept ==
  ASSUME NEW d, Sound(d), BooksOf(d), KeysOf(d), NEW u \in Users, NEW k,
         NEW from \in Assets, NEW amount \in Nat
  PROVE  Kept(d, exchangeInTx(d, u, k, from, amount).db)
  <1> DEFINE b == <<"EXCHANGE", u, k>>
             i == IdemKey(u, "exchange", k)
             hash == [user |-> u, asset |-> from, delta |-> amount]
             to == OtherAsset(from)
             debited == PostLeg(d, u, from, -amount, b, 1)
             posted == PostLeg(debited, u, to, amount, b, 2)
             booked == Book(posted, b, u, "EXCHANGE", hash)
             e == Remember(booked, i, hash, b)
             r == exchangeInTx(d, u, k, from, amount)
             t == [user |-> u, op |-> "EXCHANGE", hash |-> hash]
  <1>1. CASE r = Fail(d)
    <2>1. r.db = d
      BY <1>1 DEF Fail
    <2> QED
      BY <2>1, KeptSame
  <1>2. ASSUME u \in d.accounts, b \notin DOMAIN d.txns,
               Affords(d.wallets[u][from], -amount), r = Done(e, b)
        PROVE  Kept(d, r.db)
    <2>0. /\ i[2] = "exchange" /\ b[1] = "EXCHANGE" /\ t.user = u /\ t.op = "EXCHANGE"
          /\ -amount \in Int /\ to \in Assets /\ to # from /\ r.db = e /\ TablesOf(d)
      BY <1>2, Projections DEF OtherAsset, Assets, Done, Sound
    <2> DEFINE k1 == EntryKey(u, from, d.wallets[u][from].seq + 1)
               e1 == NextEntry(d.wallets[u][from], -amount, b, 1)
               k2 == EntryKey(u, to, debited.wallets[u][to].seq + 1)
               e2 == NextEntry(debited.wallets[u][to], amount, b, 2)
    <2> HIDE DEF b, i, hash, to, r, t
    <2>1. Sound(debited) /\ TablesOf(debited)
      BY <1>2, <2>0, PostLegSound DEF Sound
    <2>2. /\ debited.ledger = Put(d.ledger, k1, e1) /\ debited.txns = d.txns
          /\ debited.idem = d.idem /\ Untouched(d, debited)
      BY <2>0, PostLegFields, LegRest DEF Untouched
    <2>3. k1 \notin DOMAIN d.ledger /\ k1[1] = u /\ k1[2] = from
      BY FreshKey
    <2>4. e1.biz = b /\ e2.biz = b /\ e1.delta + e2.delta = 0
      BY DEF NextEntry
    <2> HIDE DEF debited, k1, e1, e2
    <2>5. k2 \notin DOMAIN debited.ledger /\ k2[1] = u /\ k2[2] = to
      BY <2>0, <2>1, FreshKey
    <2>6. /\ posted.ledger = Put(debited.ledger, k2, e2) /\ posted.txns = debited.txns
          /\ posted.idem = debited.idem /\ Untouched(debited, posted)
          /\ DOMAIN posted = DOMAIN EmptyDB
      BY <2>0, <2>1, PostLegFields, LegRest DEF Untouched, e2
    <2> HIDE DEF posted, k2
    <2>7. /\ DOMAIN booked = DOMAIN EmptyDB /\ booked.txns = Put(posted.txns, b, t)
          /\ booked.ledger = posted.ledger /\ booked.idem = posted.idem
          /\ Untouched(posted, booked)
      BY <2>6, BookRest DEF t
    <2> HIDE DEF booked
    <2>8. /\ Unposted(booked, e) /\ Untouched(booked, e)
          /\ e.idem = Put(booked.idem, i, [hash |-> hash, biz |-> b])
      BY <2>7, RememberRest
    <2> HIDE DEF e
    <2>9. Untouched(d, e)
      BY <2>2, <2>6, <2>7, <2>8 DEF Untouched, SameClaims
    <2>10. e.txns = Put(d.txns, b, t) /\ e.ledger = Put(Put(d.ledger, k1, e1), k2, e2)
      BY <2>2, <2>6, <2>7, <2>8 DEF Unposted
    <2>11. k2 \notin DOMAIN d.ledger
      BY <2>2, <2>5 DEF Put
    <2>12. e.caps = d.caps /\ e.usage = d.usage
      BY <2>9 DEF Untouched
    <2>13. b[1] # "API_USAGE" /\ k1[1] = t.user /\ k2[1] = t.user /\ k1[2] # k2[2]
      BY <2>0, <2>3, <2>5
    <2>14. BooksOf(e)
      BY <1>2, <2>0, <2>3, <2>4, <2>10, <2>11, <2>12, <2>13, TwoLegBooks
    <2>15. KeysOf(e)
      <3>1. e.idem = Put(d.idem, i, [hash |-> hash, biz |-> b])
        BY <2>2, <2>6, <2>7, <2>8
      <3> QED
        BY <2>0, <2>9, <3>1, RememberKeys DEF Untouched
    <2>16. Outside(d, e)
      <3>1. DOMAIN e.txns = DOMAIN d.txns \cup {b}
        BY <2>10 DEF Put
      <3> QED
        BY <2>0, <2>9, <3>1 DEF Outside, Untouched, RewardKinds
    <2> QED
      BY <2>0, <2>14, <2>15, <2>16 DEF Kept
  <1>3. \/ r = Fail(d)
        \/ /\ u \in d.accounts /\ b \notin DOMAIN d.txns
           /\ Affords(d.wallets[u][from], -amount) /\ r = Done(e, b)
    BY DEF exchangeInTx
  <1> QED
    BY <1>1, <1>2, <1>3

\* The settlement of a relay request that has no attribution yet.
LEMMA RelayKept ==
  ASSUME NEW d, Sound(d), BooksOf(d), KeysOf(d), NEW u \in Users, NEW req,
         NEW cost \in Nat, <<u, req>> \notin DOMAIN d.usage
  PROVE  Kept(d, settleRelay(d, u, req, cost).db)
  <1> DEFINE charged == Least(d.wallets[u]["RESERVE"].balance, cost)
             b == <<"API_USAGE", req>>
             m == [user |-> u, asset |-> "RESERVE", delta |-> -charged,
                   biz |-> b, entry |-> "API_USAGE"]
             r == IF charged > 0 THEN applyInTx(d, m, req) ELSE Done(d, <<>>)
             a == [cost |-> cost, charged |-> charged]
             e == [r.db EXCEPT !.keyUsed[u] = @ + cost, !.usage = Put(@, <<u, req>>, a)]
             t == [user |-> u, op |-> "API_USAGE", hash |-> m]
             g == settleRelay(d, u, req, cost)
  <1>1. charged \in Nat /\ charged <= cost
    <2>1. d.wallets[u]["RESERVE"].balance \in Nat
      BY ConstantsAssumption DEF Sound, TablesOf, WalletRow, Assets
    <2> QED
      BY <2>1 DEF Least
  <1>2. a.charged = charged /\ a.cost = cost
    OBVIOUS
  <1>3. b[1] = "API_USAGE" /\ b[2] = req
    OBVIOUS
  <1>4. \/ g = Fail(d)
        \/ r.ok /\ g.db = e
    BY DEF settleRelay, Done
  <1> HIDE DEF g, charged, b, a
  <1>5. /\ Mutation(m) /\ m.user = u /\ m.biz = b /\ m.delta = -charged
        /\ m.entry = "API_USAGE"
    BY <1>1 DEF Mutation, Assets
  <1>6. /\ t.user = u /\ t.op # "EXCHANGE" /\ t = [user |-> m.user, op |-> m.entry, hash |-> m]
    BY <1>5
  <1> HIDE DEF m, t
  <1>7. CASE g = Fail(d)
    <2>1. g.db = d
      BY <1>7 DEF Fail
    <2> QED
      BY <2>1, KeptSame DEF g
  <1>8. CASE r.ok /\ g.db = e
    <2>1. DOMAIN r.db = DOMAIN EmptyDB
      <3>1. Sound(applyInTx(d, m, req).db)
        BY <1>5, ApplySound DEF Settled
      <3> QED
        BY <3>1 DEF Sound, TablesOf, Done
    <2>2. /\ KeysOf(r.db) /\ Untouched(d, r.db)
          /\ \/ charged = 0 /\ r.db = d
             \/ charged > 0 /\ Posts(d, r.db, m)
      <3>1. CASE charged > 0
        <4>1. r = applyInTx(d, m, req)
          BY <3>1
        <4> HIDE DEF r
        <4>2. /\ r.biz = m.biz /\ KeysOf(r.db) /\ Untouched(d, r.db)
              /\ \/ m.biz \in DOMAIN d.txns /\ Unposted(d, r.db)
                 \/ Posts(d, r.db, m)
          BY <1>5, <1>8, <4>1, ApplyEffect
        <4>3. ~(m.biz \in DOMAIN d.txns /\ Unposted(d, r.db))
          <5> SUFFICES ASSUME m.biz \in DOMAIN d.txns, Unposted(d, r.db) PROVE FALSE
            OBVIOUS
          <5>1. Settled(r, u)
            BY <1>5, <4>1, ApplySound
          <5>2. d.txns[b].user = u
            BY <1>5, <1>8, <4>2, <5>1 DEF Settled, Unposted
          <5>3. <<d.txns[b].user, b[2]>> \in DOMAIN d.usage
            BY <1>3, <1>5 DEF BooksOf
          <5> QED
            BY <1>3, <5>2, <5>3
        <4> QED
          BY <3>1, <4>2, <4>3
      <3>2. CASE charged = 0
        <4>1. r.db = d
          BY <3>2 DEF Done
        <4> QED
          BY <3>2, <4>1 DEF Untouched, SameClaims
      <3> QED
        BY <1>1, <3>1, <3>2
    <2> HIDE DEF r
    <2>3. /\ e.ledger = r.db.ledger /\ e.txns = r.db.txns /\ e.idem = r.db.idem
          /\ e.rewardKeys = r.db.rewardKeys /\ e.caps = r.db.caps /\ SameClaims(r.db, e)
          /\ e.usage = Put(r.db.usage, <<u, req>>, a)
      BY <2>1, Fields DEF SameClaims
    <2> HIDE DEF e
    <2>4. KeysOf(e) /\ SameClaims(d, e) /\ e.caps = d.caps /\ e.usage = Put(d.usage, <<u, req>>, a)
      BY <2>2, <2>3 DEF KeysOf, SameClaims, Untouched
    <2>5. CASE charged = 0 /\ r.db = d
      <3>1. e.ledger = d.ledger /\ e.txns = d.txns /\ a.charged = 0 /\ a.charged <= a.cost
        BY <1>1, <1>2, <2>3, <2>5
      <3>2. BooksOf(e)
        BY <2>4, <3>1, FreeUsageBooks
      <3>3. Outside(d, e)
        BY <2>4, <3>1 DEF Outside
      <3> QED
        BY <1>8, <2>4, <3>2, <3>3 DEF Kept, g
    <2>6. CASE charged > 0 /\ Posts(d, r.db, m)
      <3>1. b \notin DOMAIN d.txns /\ e.txns = Put(d.txns, b, t)
        BY <1>5, <1>6, <2>3, <2>6 DEF Posts
      <3>2. PICK key, en : /\ key \notin DOMAIN d.ledger /\ key[1] = t.user /\ en.biz = b
                           /\ en.delta = -charged /\ e.ledger = Put(d.ledger, key, en)
        BY <1>5, <1>6, <2>3, <2>6 DEF Posts
      <3>3. \E q, use : /\ b = <<"API_USAGE", q>> /\ <<t.user, q>> \notin DOMAIN d.usage
                        /\ e.usage = Put(d.usage, <<t.user, q>>, use)
                        /\ use.charged # 0 /\ use.charged <= use.cost /\ en.delta = -use.charged
        <4>1. /\ b = <<"API_USAGE", req>> /\ <<t.user, req>> \notin DOMAIN d.usage
              /\ e.usage = Put(d.usage, <<t.user, req>>, a)
              /\ a.charged # 0 /\ a.charged <= a.cost /\ en.delta = -a.charged
          BY <1>1, <1>2, <1>6, <2>4, <2>6, <3>2 DEF b
        <4> QED
          BY <4>1
      <3>4. BooksOf(e)
        BY <1>6, <2>4, <3>1, <3>2, <3>3, OneLegBooks
      <3>5. Outside(d, e)
        <4>1. DOMAIN e.txns = DOMAIN d.txns \cup {b}
          BY <3>1 DEF Put
        <4> QED
          BY <1>3, <2>4, <4>1 DEF Outside, RewardKinds
      <3> QED
        BY <1>8, <2>4, <3>4, <3>5 DEF Kept, g
    <2> QED
      BY <2>2, <2>5, <2>6
  <1> QED
    BY <1>4, <1>7, <1>8

(***************************************************************************)
(* Claims.  The rows of the three rewards are typed and explain every      *)
(* transaction of a reward; a relief claim id is never used twice.         *)
(***************************************************************************)
ClaimsOf(d) ==
    /\ ScheduleOf(d)
    /\ \A x \in DOMAIN d.daily : x = <<x[1], x[2]>>
    /\ \A x \in DOMAIN d.hourly : x = <<x[1], x[2]>>
    /\ IsFiniteSet(DOMAIN d.hourly) /\ IsFiniteSet(d.relief)
    /\ \A c \in d.relief : /\ c.user \in Users /\ c.at \in Nat
                           /\ \E i \in 1..Cardinality(ReliefOf(d, c.user)) :
                                 c.biz = <<"RELIEF", c.user, i>>

\* The claims do not notice a step outside the rewards.
LEMMA ClaimsFrame ==
  ASSUME NEW d, ClaimsOf(d), NEW e, SameClaims(d, e),
         \A b \in DOMAIN e.txns : b[1] \in RewardKinds =>
            \/ b \in DOMAIN d.txns
            \/ b[1] = "DAILY" /\ <<b[2], b[3]>> \in DOMAIN d.daily
            \/ b[1] = "HOURLY" /\ <<b[2], b[3]>> \in DOMAIN d.hourly
  PROVE  ClaimsOf(e)
  <1>1. e.daily = d.daily /\ e.hourly = d.hourly /\ e.relief = d.relief
    BY DEF SameClaims
  <1>2. BackedClaims(e)
    BY <1>1 DEF ClaimsOf, ScheduleOf, BackedClaims, RewardKinds
  <1>3. /\ \A u : ReliefOf(e, u) = ReliefOf(d, u)
        /\ \A u, day : hourlyClaimsOn(e, u, day) = hourlyClaimsOn(d, u, day)
    BY <1>1 DEF ReliefOf, hourlyClaimsOn
  <1>4. ScheduleOf(e)
    BY <1>1, <1>2, <1>3 DEF ClaimsOf, ScheduleOf, Spaced
  <1> QED
    BY <1>1, <1>3, <1>4 DEF ClaimsOf

\* ClaimDaily adds the row of its day with its transaction.
LEMMA DailyRow ==
  ASSUME NEW d, ClaimsOf(d), NEW e, NEW u, NEW day,
         e.daily = Put(d.daily, <<u, day>>, <<"DAILY", u, day>>),
         e.hourly = d.hourly, e.relief = d.relief,
         DOMAIN e.txns = DOMAIN d.txns \cup {<<"DAILY", u, day>>}
  PROVE  ClaimsOf(e)
  <1> DEFINE k == <<u, day>>
             b == <<"DAILY", u, day>>
  <1>1. k[1] = u /\ k[2] = day /\ b[1] = "DAILY" /\ <<b[2], b[3]>> = k
    OBVIOUS
  <1>2. /\ DOMAIN e.daily = DOMAIN d.daily \cup {k} /\ e.daily[k] = b
        /\ \A x \in DOMAIN d.daily : x # k => e.daily[x] = d.daily[x]
    BY DEF Put
  <1>3. \A x \in DOMAIN e.daily : x = <<x[1], x[2]>> /\ e.daily[x] = <<"DAILY", x[1], x[2]>>
    BY <1>1, <1>2 DEF ClaimsOf, ScheduleOf, BackedClaims
  <1> HIDE DEF k, b
  <1>4. DOMAIN e.txns = DOMAIN d.txns \cup {b}
    BY DEF b
  <1>5. BackedClaims(e)
    <2>1. /\ \A x \in DOMAIN e.hourly : e.hourly[x] = <<"HOURLY", x[1], x[2]>>
          /\ e.relief = d.relief
      BY DEF ClaimsOf, ScheduleOf, BackedClaims
    <2>2. ASSUME NEW c \in DOMAIN e.txns
          PROVE  /\ c[1] = "DAILY" => <<c[2], c[3]>> \in DOMAIN e.daily
                 /\ c[1] = "HOURLY" => <<c[2], c[3]>> \in DOMAIN e.hourly
                 /\ c[1] = "RELIEF" => Cardinality({r \in e.relief : r.biz = c}) = 1
      <3>1. CASE c = b
        BY <1>1, <1>2, <3>1
      <3>2. CASE c \in DOMAIN d.txns
        <4>1. /\ c[1] = "DAILY" => <<c[2], c[3]>> \in DOMAIN d.daily
              /\ c[1] = "HOURLY" => <<c[2], c[3]>> \in DOMAIN d.hourly
              /\ c[1] = "RELIEF" => Cardinality({r \in d.relief : r.biz = c}) = 1
          BY <3>2 DEF ClaimsOf, ScheduleOf, BackedClaims
        <4> QED
          BY <4>1, <1>2, <2>1
      <3> QED
        BY <1>4, <3>1, <3>2
    <2> QED
      BY <1>3, <2>1, <2>2 DEF BackedClaims
  <1>6. /\ \A v : ReliefOf(e, v) = ReliefOf(d, v)
        /\ \A v, x : hourlyClaimsOn(e, v, x) = hourlyClaimsOn(d, v, x)
    BY DEF ReliefOf, hourlyClaimsOn
  <1>7. ScheduleOf(e)
    BY <1>5, <1>6 DEF ClaimsOf, ScheduleOf, Spaced
  <1> QED
    BY <1>3, <1>6, <1>7 DEF ClaimsOf

\* ClaimHourly adds the row of an hour not claimed yet, on a day below its limit.
LEMMA HourlyRow ==
  ASSUME NEW d, ClaimsOf(d), NEW e, NEW u, NEW hour, <<u, hour>> \notin DOMAIN d.hourly,
         Cardinality(hourlyClaimsOn(d, u, Day(hour))) < HourlyDailyLimit,
         e.hourly = Put(d.hourly, <<u, hour>>, <<"HOURLY", u, hour>>),
         e.daily = d.daily, e.relief = d.relief,
         DOMAIN e.txns = DOMAIN d.txns \cup {<<"HOURLY", u, hour>>}
  PROVE  ClaimsOf(e)
  <1> DEFINE k == <<u, hour>>
             b == <<"HOURLY", u, hour>>
  <1>1. k[1] = u /\ k[2] = hour /\ b[1] = "HOURLY" /\ <<b[2], b[3]>> = k
    OBVIOUS
  <1>2. /\ DOMAIN e.hourly = DOMAIN d.hourly \cup {k} /\ e.hourly[k] = b
        /\ \A x \in DOMAIN d.hourly : x # k /\ e.hourly[x] = d.hourly[x]
    BY DEF Put
  <1>3. \A x \in DOMAIN e.hourly : x = <<x[1], x[2]>> /\ e.hourly[x] = <<"HOURLY", x[1], x[2]>>
    BY <1>1, <1>2 DEF ClaimsOf, ScheduleOf, BackedClaims
  <1> HIDE DEF k, b
  <1>4. DOMAIN e.txns = DOMAIN d.txns \cup {b}
    BY DEF b
  <1>5. BackedClaims(e)
    <2>1. /\ \A x \in DOMAIN e.daily : e.daily[x] = <<"DAILY", x[1], x[2]>>
          /\ e.relief = d.relief
      BY DEF ClaimsOf, ScheduleOf, BackedClaims
    <2>2. ASSUME NEW c \in DOMAIN e.txns
          PROVE  /\ c[1] = "DAILY" => <<c[2], c[3]>> \in DOMAIN e.daily
                 /\ c[1] = "HOURLY" => <<c[2], c[3]>> \in DOMAIN e.hourly
                 /\ c[1] = "RELIEF" => Cardinality({r \in e.relief : r.biz = c}) = 1
      <3>1. CASE c = b
        BY <1>1, <1>2, <3>1
      <3>2. CASE c \in DOMAIN d.txns
        <4>1. /\ c[1] = "DAILY" => <<c[2], c[3]>> \in DOMAIN d.daily
              /\ c[1] = "HOURLY" => <<c[2], c[3]>> \in DOMAIN d.hourly
              /\ c[1] = "RELIEF" => Cardinality({r \in d.relief : r.biz = c}) = 1
          BY <3>2 DEF ClaimsOf, ScheduleOf, BackedClaims
        <4> QED
          BY <4>1, <1>2, <2>1
      <3> QED
        BY <1>4, <3>1, <3>2
    <2> QED
      BY <1>3, <2>1, <2>2 DEF BackedClaims
  <1>6. ASSUME NEW x \in DOMAIN e.hourly
        PROVE  Cardinality(hourlyClaimsOn(e, x[1], Day(x[2]))) <= HourlyDailyLimit
    <2>1. CASE x[1] = u /\ Day(x[2]) = Day(hour)
      <3> DEFINE S == hourlyClaimsOn(d, u, Day(hour))
      <3>1. hourlyClaimsOn(e, x[1], Day(x[2])) = S \cup {k}
        BY <1>1, <1>2, <2>1 DEF hourlyClaimsOn
      <3>2. k \notin S /\ S \subseteq DOMAIN d.hourly
        BY <1>2 DEF hourlyClaimsOn
      <3>3. IsFiniteSet(S)
        BY <3>2, FS_Subset DEF ClaimsOf
      <3> HIDE DEF S
      <3>4. Cardinality(S \cup {k}) = Cardinality(S) + 1 /\ Cardinality(S) \in Nat
        BY <3>2, <3>3, FS_AddElement, FS_CardinalityType
      <3>5. Cardinality(S) < HourlyDailyLimit /\ HourlyDailyLimit \in Nat
        BY ConstantsAssumption DEF S
      <3> QED
        BY <3>1, <3>4, <3>5
    <2>2. CASE ~(x[1] = u /\ Day(x[2]) = Day(hour))
      <3>1. x # k
        BY <1>1, <2>2
      <3>2. x \in DOMAIN d.hourly
        BY <1>2, <3>1
      <3>3. hourlyClaimsOn(e, x[1], Day(x[2])) = hourlyClaimsOn(d, x[1], Day(x[2]))
        BY <1>1, <1>2, <2>2 DEF hourlyClaimsOn
      <3> QED
        BY <3>2, <3>3 DEF ClaimsOf, ScheduleOf
    <2> QED
      BY <2>1, <2>2
  <1>7. \A v : ReliefOf(e, v) = ReliefOf(d, v)
    BY DEF ReliefOf
  <1>8. ScheduleOf(e)
    BY <1>5, <1>6, <1>7 DEF ClaimsOf, ScheduleOf, Spaced
  <1>9. IsFiniteSet(DOMAIN e.hourly)
    BY <1>2, FS_AddElement DEF ClaimsOf
  <1> QED
    BY <1>3, <1>7, <1>8, <1>9 DEF ClaimsOf

\* ClaimRelief adds a row under a fresh id, a full cooldown after the others.
LEMMA ReliefRow ==
  ASSUME NEW d, ClaimsOf(d), NEW e, NEW u \in Users, NEW at \in Nat,
         \A c \in ReliefOf(d, u) : c.at + ReliefCooldown <= at,
         NEW b, b = <<"RELIEF", u, Cardinality(ReliefOf(d, u)) + 1>>,
         e.relief = d.relief \cup {[user |-> u, at |-> at, biz |-> b]},
         e.hourly = d.hourly, e.daily = d.daily,
         DOMAIN e.txns = DOMAIN d.txns \cup {b}
  PROVE  ClaimsOf(e)
  <1> DEFINE row == [user |-> u, at |-> at, biz |-> b]
             n == Cardinality(ReliefOf(d, u))
  <1>1. row.user = u /\ row.at = at /\ row.biz = b /\ e.relief = d.relief \cup {row}
    OBVIOUS
  <1> HIDE DEF row
  <1>2. ReliefOf(d, u) \subseteq d.relief /\ IsFiniteSet(ReliefOf(d, u)) /\ n \in Nat
    <2>1. ReliefOf(d, u) \subseteq d.relief
      BY DEF ReliefOf
    <2>2. IsFiniteSet(ReliefOf(d, u))
      BY <2>1, FS_Subset DEF ClaimsOf
    <2> QED
      BY <2>1, <2>2, FS_CardinalityType
  <1>3. \A c \in d.relief : c.biz # b
    <2> SUFFICES ASSUME NEW c \in d.relief, c.biz = b PROVE FALSE
      OBVIOUS
    <2>1. PICK i \in 1..Cardinality(ReliefOf(d, c.user)) : c.biz = <<"RELIEF", c.user, i>>
      BY DEF ClaimsOf
    <2>2. c.user = u /\ i = n + 1
      BY <2>1
    <2> HIDE DEF n
    <2>3. i \in 1..n
      BY <2>1, <2>2 DEF n
    <2> QED
      BY <1>2, <2>2, <2>3
  <1>4. /\ row \notin d.relief
        /\ ReliefOf(e, u) = ReliefOf(d, u) \cup {row}
        /\ \A v : v # u => ReliefOf(e, v) = ReliefOf(d, v)
    BY <1>1, <1>3 DEF ReliefOf
  <1>5. Cardinality(ReliefOf(e, u)) = n + 1
    BY <1>2, <1>4, FS_AddElement
  <1> HIDE DEF n
  <1>6. IsFiniteSet(e.relief)
    BY <1>1, FS_AddElement DEF ClaimsOf
  <1>7. ASSUME NEW c \in e.relief
        PROVE  /\ c.user \in Users /\ c.at \in Nat
               /\ \E i \in 1..Cardinality(ReliefOf(e, c.user)) : c.biz = <<"RELIEF", c.user, i>>
    <2>1. CASE c = row
      <3>1. n + 1 \in 1..(n + 1)
        BY <1>2
      <3> QED
        BY <1>1, <1>5, <2>1, <3>1 DEF n
    <2>2. CASE c \in d.relief
      <3>1. PICK i \in 1..Cardinality(ReliefOf(d, c.user)) : c.biz = <<"RELIEF", c.user, i>>
        BY <2>2 DEF ClaimsOf
      <3>2. i \in 1..Cardinality(ReliefOf(e, c.user))
        <4>1. CASE c.user = u
          BY <1>2, <1>5, <3>1, <4>1 DEF n
        <4>2. CASE c.user # u
          BY <1>4, <3>1, <4>2
        <4> QED
          BY <4>1, <4>2
      <3> QED
        BY <2>2, <3>1, <3>2 DEF ClaimsOf
    <2> QED
      BY <1>1, <2>1, <2>2
  <1>8. \A v \in Users : Spaced(e, v)
    <2>1. ASSUME NEW v \in Users, v # u PROVE Spaced(e, v)
      BY <1>4, <2>1 DEF Spaced, ClaimsOf, ScheduleOf
    <2>2. Spaced(e, u)
      <3>1. Spaced(d, u)
        BY DEF ClaimsOf, ScheduleOf
      <3>2. \A c \in ReliefOf(d, u) : c.at + ReliefCooldown <= row.at
        BY <1>1
      <3> QED
        BY <1>4, <3>1, <3>2 DEF Spaced
    <2> QED
      BY <2>1, <2>2
  <1>9. BackedClaims(e)
    <2>1. b[1] = "RELIEF"
      OBVIOUS
    <2>2. {c \in e.relief : c.biz = b} = {row}
      BY <1>1, <1>3
    <2>3. Cardinality({c \in e.relief : c.biz = b}) = 1
      BY <2>2, FS_Singleton
    <2>4. ASSUME NEW o \in DOMAIN d.txns, o[1] = "RELIEF", o # b
          PROVE  Cardinality({c \in e.relief : c.biz = o}) = 1
      <3>1. {c \in e.relief : c.biz = o} = {c \in d.relief : c.biz = o}
        BY <1>1, <2>4
      <3>2. Cardinality({c \in d.relief : c.biz = o}) = 1
        BY <2>4 DEF ClaimsOf, ScheduleOf, BackedClaims
      <3> QED
        BY <3>1, <3>2
    <2>5. ASSUME NEW o \in DOMAIN e.txns
          PROVE  /\ o[1] = "DAILY" => <<o[2], o[3]>> \in DOMAIN e.daily
                 /\ o[1] = "HOURLY" => <<o[2], o[3]>> \in DOMAIN e.hourly
                 /\ o[1] = "RELIEF" => Cardinality({c \in e.relief : c.biz = o}) = 1
      <3>1. CASE o = b
        BY <2>1, <2>3, <3>1
      <3>2. CASE o # b
        <4>1. o \in DOMAIN d.txns
          BY <3>2
        <4>2. /\ o[1] = "DAILY" => <<o[2], o[3]>> \in DOMAIN d.daily
              /\ o[1] = "HOURLY" => <<o[2], o[3]>> \in DOMAIN d.hourly
          BY <4>1 DEF ClaimsOf, ScheduleOf, BackedClaims
        <4> QED
          BY <2>4, <3>2, <4>1, <4>2
      <3> QED
        BY <3>1, <3>2
    <2>6. /\ \A x \in DOMAIN e.daily : e.daily[x] = <<"DAILY", x[1], x[2]>>
          /\ \A x \in DOMAIN e.hourly : e.hourly[x] = <<"HOURLY", x[1], x[2]>>
      BY DEF ClaimsOf, ScheduleOf, BackedClaims
    <2> QED
      BY <2>5, <2>6 DEF BackedClaims
  <1>10. ScheduleOf(e)
    <2>1. \A v, x : hourlyClaimsOn(e, v, x) = hourlyClaimsOn(d, v, x)
      BY DEF hourlyClaimsOn
    <2> QED
      BY <1>8, <1>9, <2>1 DEF ScheduleOf, ClaimsOf
  <1> QED
    BY <1>6, <1>7, <1>10 DEF ClaimsOf

\* What a claim of user u does: its books, keys and claims stay in order and at most
\* his reserve moves, below the cap once the policy is active.
Paid(d, e, u, active, outside) ==
    \/ e.wallets = d.wallets
    \/ \E delta \in Nat :
          /\ e.wallets = SetRow(d.wallets, u, "RESERVE", NextRow(d.wallets[u]["RESERVE"], delta))
          /\ active => TotalAssets(d, u, outside) + delta <= AssetCap
Claimed(d, e, u, active, outside) ==
    BooksOf(e) /\ KeysOf(e) /\ ClaimsOf(e) /\ Paid(d, e, u, active, outside)

\* Nothing claimed keeps the claims.
LEMMA ClaimedSame ==
  ASSUME NEW d, BooksOf(d), KeysOf(d), ClaimsOf(d), NEW u, NEW active, NEW outside
  PROVE  Claimed(d, d, u, active, outside)
  BY DEF Claimed, Paid

\* The mutations of the rewards name their kind, their user and their period.
LEMMA RewardNames ==
  ASSUME NEW u \in Users, NEW n
  PROVE  /\ RewardMutation(dailyMutation(u, n)) /\ dailyMutation(u, n).biz = <<"DAILY", u, n>>
         /\ RewardMutation(hourlyMutation(u, n)) /\ hourlyMutation(u, n).biz = <<"HOURLY", u, n>>
         /\ RewardMutation(reliefMutation(u, n)) /\ reliefMutation(u, n).biz = <<"RELIEF", u, n>>
         /\ dailyMutation(u, n).user = u /\ dailyMutation(u, n).asset = "RESERVE"
         /\ hourlyMutation(u, n).user = u /\ hourlyMutation(u, n).asset = "RESERVE"
         /\ reliefMutation(u, n).user = u /\ reliefMutation(u, n).asset = "RESERVE"
  <1>1. /\ Mutation(dailyMutation(u, n)) /\ dailyMutation(u, n).delta \in Nat
        /\ Mutation(hourlyMutation(u, n)) /\ hourlyMutation(u, n).delta \in Nat
        /\ Mutation(reliefMutation(u, n)) /\ reliefMutation(u, n).delta \in Nat
    BY RewardMutations
  <1> QED
    BY <1>1 DEF RewardMutation, RewardKinds, dailyMutation, hourlyMutation, reliefMutation,
                rewardMutation

\* A claim row leaves the books, the keys and the wallets alone.
OnlyClaims(d, e) == SameBooks(d, e) /\ e.wallets = d.wallets /\ (KeysOf(d) => KeysOf(e))

\* Writing the daily claims leaves the other two tables alone.
LEMMA DailyRest ==
  ASSUME NEW d, DOMAIN d = DOMAIN EmptyDB, NEW v
  PROVE  /\ OnlyClaims(d, [d EXCEPT !.daily = v])
         /\ [d EXCEPT !.daily = v].daily = v /\ [d EXCEPT !.daily = v].hourly = d.hourly
         /\ [d EXCEPT !.daily = v].relief = d.relief
  BY Fields DEF OnlyClaims, SameBooks, KeysOf

\* So does writing the hourly claims.
LEMMA HourlyRest ==
  ASSUME NEW d, DOMAIN d = DOMAIN EmptyDB, NEW v
  PROVE  /\ OnlyClaims(d, [d EXCEPT !.hourly = v])
         /\ [d EXCEPT !.hourly = v].hourly = v /\ [d EXCEPT !.hourly = v].daily = d.daily
         /\ [d EXCEPT !.hourly = v].relief = d.relief
  BY Fields DEF OnlyClaims, SameBooks, KeysOf

\* And writing the relief claims.
LEMMA ReliefRest ==
  ASSUME NEW d, DOMAIN d = DOMAIN EmptyDB, NEW v
  PROVE  /\ OnlyClaims(d, [d EXCEPT !.relief = v])
         /\ [d EXCEPT !.relief = v].relief = v /\ [d EXCEPT !.relief = v].daily = d.daily
         /\ [d EXCEPT !.relief = v].hourly = d.hourly
  BY Fields DEF OnlyClaims, SameBooks, KeysOf

\* A reward in its user's database, before its claim row.
Settles(d, r, b, u, active, outside) ==
    /\ DOMAIN r.db = DOMAIN EmptyDB
    /\ ~r.ok => r.db = d
    /\ r.ok => /\ r.biz = b /\ BooksOf(r.db) /\ KeysOf(r.db) /\ SameClaims(d, r.db)
               /\ DOMAIN r.db.txns = DOMAIN d.txns \cup {b}
               /\ Paid(d, r.db, u, active, outside)

\* applyRewardInTx settles one reward in the books.
LEMMA RewardPaid ==
  ASSUME NEW d, Sound(d), BooksOf(d), KeysOf(d), NEW m, RewardMutation(m), m.asset = "RESERVE",
         NEW k, NEW active \in BOOLEAN, NEW outside \in Nat
  PROVE  Settles(d, applyRewardInTx(d, m, k, active, outside), m.biz, m.user, active, outside)
  <1> DEFINE r == applyRewardInTx(d, m, k, active, outside)
  <1>1. RewardOutcome(d, m, r, active, outside)
    BY RewardEffect
  <1>2. Settled(r, m.user)
    BY RewardSound DEF RewardMutation
  <1> HIDE DEF r
  <1>3. DOMAIN r.db = DOMAIN EmptyDB
    BY <1>2 DEF Settled, Sound, TablesOf
  <1>4. r.ok => Paid(d, r.db, m.user, active, outside)
    BY <1>1 DEF RewardOutcome, Paid, Moves
  <1> QED
    BY <1>1, <1>3, <1>4 DEF RewardOutcome, Rewarded, Settles, r

\* A daily claim keeps the claims and the schedule.
LEMMA DailyClaimed ==
  ASSUME NEW d, Sound(d), BooksOf(d), KeysOf(d), ClaimsOf(d), NEW u \in Users, NEW k, NEW day,
         NEW active \in BOOLEAN, NEW outside \in Nat
  PROVE  LET e == ClaimDailyTx(d, u, k, day, active, outside).db
         IN  /\ Claimed(d, e, u, active, outside)
             /\ e.hourly = d.hourly /\ e.relief = d.relief
  <1> DEFINE m == dailyMutation(u, day)
             b == <<"DAILY", u, day>>
             r == applyRewardInTx(d, m, k, active, outside)
             g == ClaimDailyTx(d, u, k, day, active, outside)
             e == [r.db EXCEPT !.daily = Put(@, <<u, day>>, r.biz)]
             Goal(x) == /\ Claimed(d, x, u, active, outside)
                        /\ x.hourly = d.hourly /\ x.relief = d.relief
  <1>1. RewardMutation(m) /\ m.biz = b /\ m.user = u /\ m.asset = "RESERVE"
    BY RewardNames
  <1>2. g = IF ~r.ok \/ <<u, day>> \in DOMAIN d.daily THEN r ELSE Done(e, r.biz)
    BY DEF ClaimDailyTx
  <1> HIDE DEF m, g
  <1>0. Settles(d, r, b, u, active, outside)
    BY <1>1, RewardPaid
  <1>3. /\ DOMAIN r.db = DOMAIN EmptyDB
        /\ ~r.ok => r.db = d
        /\ r.ok => /\ r.biz = b /\ BooksOf(r.db) /\ KeysOf(r.db) /\ SameClaims(d, r.db)
                   /\ DOMAIN r.db.txns = DOMAIN d.txns \cup {b}
                   /\ Paid(d, r.db, u, active, outside)
    BY <1>0 DEF Settles
  <1> HIDE DEF r
  <1>4. ASSUME ~r.ok PROVE Goal(g.db)
    <2>1. g.db = d
      BY <1>2, <1>3, <1>4
    <2> QED
      BY <2>1, ClaimedSame
  <1>5. ASSUME r.ok, <<u, day>> \in DOMAIN d.daily PROVE Goal(g.db)
    <2>1. g.db = r.db
      BY <1>2, <1>5
    <2>2. b[1] = "DAILY" /\ <<b[2], b[3]>> = <<u, day>>
      OBVIOUS
    <2> HIDE DEF b
    <2>3. ClaimsOf(r.db)
      BY <1>3, <1>5, <2>2, ClaimsFrame
    <2> QED
      BY <1>3, <1>5, <2>1, <2>3 DEF Claimed, SameClaims
  <1>6. ASSUME r.ok, <<u, day>> \notin DOMAIN d.daily PROVE Goal(g.db)
    <2>1. g.db = e
      BY <1>2, <1>6 DEF Done
    <2>0. /\ OnlyClaims(r.db, e)
          /\ e.daily = Put(r.db.daily, <<u, day>>, r.biz) /\ e.hourly = r.db.hourly
          /\ e.relief = r.db.relief
      BY <1>3, DailyRest
    <2> HIDE DEF e
    <2>2. SameBooks(r.db, e) /\ e.wallets = r.db.wallets /\ (KeysOf(r.db) => KeysOf(e))
      BY <2>0 DEF OnlyClaims
    <2>3. BooksOf(e) /\ KeysOf(e)
      BY <1>3, <1>6, <2>2, BooksFrame
    <2>4. /\ e.daily = Put(d.daily, <<u, day>>, b) /\ e.hourly = d.hourly /\ e.relief = d.relief
          /\ DOMAIN e.txns = DOMAIN d.txns \cup {b}
      BY <1>3, <1>6, <2>0, <2>2 DEF SameClaims, SameBooks
    <2>5. ClaimsOf(e)
      BY <2>4, DailyRow
    <2>6. Paid(d, e, u, active, outside)
      BY <1>3, <1>6, <2>2 DEF Paid
    <2> QED
      BY <2>1, <2>3, <2>4, <2>5, <2>6 DEF Claimed
  <1>7. Goal(g.db)
    BY <1>4, <1>5, <1>6
  <1> QED
    BY <1>7 DEF g

AddsHour(d, e, x) == DOMAIN e.hourly = DOMAIN d.hourly \/ DOMAIN e.hourly = DOMAIN d.hourly \cup {x}

\* So does an hourly claim within the limit of the day.
LEMMA HourlyClaimed ==
  ASSUME NEW d, Sound(d), BooksOf(d), KeysOf(d), ClaimsOf(d), NEW u \in Users, NEW k, NEW hour,
         NEW active \in BOOLEAN, NEW outside \in Nat,
         <<u, hour>> \notin DOMAIN d.hourly,
         Cardinality(hourlyClaimsOn(d, u, Day(hour))) < HourlyDailyLimit
  PROVE  LET e == ClaimHourlyTx(d, u, k, hour, active, outside).db
         IN  /\ Claimed(d, e, u, active, outside)
             /\ AddsHour(d, e, <<u, hour>>)
             /\ e.relief = d.relief
  <1> DEFINE m == hourlyMutation(u, hour)
             b == <<"HOURLY", u, hour>>
             r == applyRewardInTx(d, m, k, active, outside)
             g == ClaimHourlyTx(d, u, k, hour, active, outside)
             e == [r.db EXCEPT !.hourly = Put(@, <<u, hour>>, r.biz)]
             Goal(x) == /\ Claimed(d, x, u, active, outside)
                        /\ AddsHour(d, x, <<u, hour>>)
                        /\ x.relief = d.relief
  <1>1. RewardMutation(m) /\ m.biz = b /\ m.user = u /\ m.asset = "RESERVE"
    BY RewardNames
  <1>2. g = IF ~r.ok THEN Fail(d) ELSE Done(e, r.biz)
    BY DEF ClaimHourlyTx
  <1> HIDE DEF m, g
  <1>0. Settles(d, r, b, u, active, outside)
    BY <1>1, RewardPaid
  <1>3. /\ DOMAIN r.db = DOMAIN EmptyDB
        /\ ~r.ok => r.db = d
        /\ r.ok => /\ r.biz = b /\ BooksOf(r.db) /\ KeysOf(r.db) /\ SameClaims(d, r.db)
                   /\ DOMAIN r.db.txns = DOMAIN d.txns \cup {b}
                   /\ Paid(d, r.db, u, active, outside)
    BY <1>0 DEF Settles
  <1> HIDE DEF r
  <1>4. ASSUME ~r.ok PROVE Goal(g.db)
    <2>1. g.db = d
      BY <1>2, <1>4 DEF Fail
    <2> QED
      BY <2>1, ClaimedSame DEF AddsHour
  <1>5. ASSUME r.ok PROVE Goal(g.db)
    <2>1. g.db = e
      BY <1>2, <1>5 DEF Done
    <2>0. /\ OnlyClaims(r.db, e)
          /\ e.hourly = Put(r.db.hourly, <<u, hour>>, r.biz) /\ e.daily = r.db.daily
          /\ e.relief = r.db.relief
      BY <1>3, HourlyRest
    <2> HIDE DEF e
    <2>2. SameBooks(r.db, e) /\ e.wallets = r.db.wallets /\ (KeysOf(r.db) => KeysOf(e))
      BY <2>0 DEF OnlyClaims
    <2>3. BooksOf(e) /\ KeysOf(e)
      BY <1>3, <1>5, <2>2, BooksFrame
    <2>4. /\ e.hourly = Put(d.hourly, <<u, hour>>, b) /\ e.daily = d.daily /\ e.relief = d.relief
          /\ DOMAIN e.txns = DOMAIN d.txns \cup {b}
      BY <1>3, <1>5, <2>0, <2>2 DEF SameClaims, SameBooks
    <2>5. ClaimsOf(e)
      BY <2>4, HourlyRow
    <2>6. Paid(d, e, u, active, outside)
      BY <1>3, <1>5, <2>2 DEF Paid
    <2>7. AddsHour(d, e, <<u, hour>>)
      BY <2>4 DEF Put, AddsHour
    <2> QED
      BY <2>1, <2>3, <2>4, <2>5, <2>6, <2>7 DEF Claimed
  <1>6. Goal(g.db)
    BY <1>4, <1>5
  <1> QED
    BY <1>6 DEF g

\* hourlyClaimInTx: an hour already claimed is served again, under another key.
LEMMA ReplayClaimed ==
  ASSUME NEW d, Sound(d), BooksOf(d), KeysOf(d), ClaimsOf(d), NEW u \in Users, NEW k, NEW hour,
         NEW active \in BOOLEAN, NEW outside \in Nat, <<u, hour>> \in DOMAIN d.hourly
  PROVE  LET e == ReplayHourlyTx(d, u, k, hour, active, outside).db
         IN  /\ Claimed(d, e, u, active, outside)
             /\ e.hourly = d.hourly /\ e.relief = d.relief
  <1> DEFINE m == hourlyMutation(u, hour)
             b == <<"HOURLY", u, hour>>
             r == applyRewardInTx(d, m, k, active, outside)
             g == ReplayHourlyTx(d, u, k, hour, active, outside)
             Goal(x) == /\ Claimed(d, x, u, active, outside)
                        /\ x.hourly = d.hourly /\ x.relief = d.relief
  <1>1. RewardMutation(m) /\ m.biz = b /\ m.user = u /\ m.asset = "RESERVE"
    BY RewardNames
  <1>2. g = Fail(d) \/ (r.ok /\ g = r)
    BY DEF ReplayHourlyTx
  <1>3. b[1] = "HOURLY" /\ <<b[2], b[3]>> = <<u, hour>>
    OBVIOUS
  <1> HIDE DEF m, g, b
  <1>4. Settles(d, r, b, u, active, outside)
    BY <1>1, RewardPaid
  <1> HIDE DEF r
  <1>5. ASSUME g = Fail(d) PROVE Goal(g.db)
    <2>1. g.db = d
      BY <1>5 DEF Fail
    <2> QED
      BY <2>1, ClaimedSame
  <1>6. ASSUME r.ok, g = r PROVE Goal(g.db)
    <2>1. /\ BooksOf(r.db) /\ KeysOf(r.db) /\ SameClaims(d, r.db)
          /\ DOMAIN r.db.txns = DOMAIN d.txns \cup {b}
          /\ Paid(d, r.db, u, active, outside)
      BY <1>4, <1>6 DEF Settles
    <2>2. ClaimsOf(r.db)
      BY <1>3, <2>1, ClaimsFrame
    <2> QED
      BY <1>6, <2>1, <2>2 DEF Claimed, SameClaims
  <1>7. Goal(g.db)
    BY <1>2, <1>5, <1>6
  <1> QED
    BY <1>7 DEF g

\* claimReliefRewardInTx, a full cooldown after the other relief claims of the user.
LEMMA ReliefClaimed ==
  ASSUME NEW d, Sound(d), BooksOf(d), KeysOf(d), ClaimsOf(d), NEW u \in Users, NEW k,
         NEW at \in Nat, NEW active \in BOOLEAN, NEW outside \in Nat,
         \A c \in ReliefOf(d, u) : c.at + ReliefCooldown <= at
  PROVE  LET e == claimReliefRewardInTx(d, u, k, at, active, outside).db
         IN  /\ Claimed(d, e, u, active, outside)
             /\ e.hourly = d.hourly /\ \A v : v # u => ReliefOf(e, v) = ReliefOf(d, v)
  <1> DEFINE id == Cardinality(ReliefOf(d, u)) + 1
             m == reliefMutation(u, id)
             b == <<"RELIEF", u, id>>
             r == applyRewardInTx(d, m, k, active, outside)
             g == claimReliefRewardInTx(d, u, k, at, active, outside)
             row == [user |-> u, at |-> at, biz |-> r.biz]
             e == [r.db EXCEPT !.relief = @ \cup {row}]
             Goal(x) == /\ Claimed(d, x, u, active, outside)
                        /\ x.hourly = d.hourly /\ \A v : v # u => ReliefOf(x, v) = ReliefOf(d, v)
  <1>1. RewardMutation(m) /\ m.biz = b /\ m.user = u /\ m.asset = "RESERVE"
    BY RewardNames
  <1>2. g = Fail(d) \/ (r.ok /\ g = Done(e, r.biz))
    BY DEF claimReliefRewardInTx
  <1>3. b = <<"RELIEF", u, Cardinality(ReliefOf(d, u)) + 1>>
    OBVIOUS
  <1> HIDE DEF id, m, g, b
  <1>4. Settles(d, r, b, u, active, outside)
    BY <1>1, RewardPaid
  <1> HIDE DEF r
  <1>5. ASSUME g = Fail(d) PROVE Goal(g.db)
    <2>1. g.db = d
      BY <1>5 DEF Fail
    <2> QED
      BY <2>1, ClaimedSame
  <1>6. ASSUME r.ok, g = Done(e, r.biz) PROVE Goal(g.db)
    <2>1. /\ BooksOf(r.db) /\ KeysOf(r.db) /\ SameClaims(d, r.db) /\ r.biz = b
          /\ DOMAIN r.db.txns = DOMAIN d.txns \cup {b} /\ DOMAIN r.db = DOMAIN EmptyDB
          /\ Paid(d, r.db, u, active, outside)
      BY <1>4, <1>6 DEF Settles
    <2>2. g.db = e
      BY <1>6 DEF Done
    <2>3. /\ OnlyClaims(r.db, e) /\ e.relief = r.db.relief \cup {row}
          /\ e.daily = r.db.daily /\ e.hourly = r.db.hourly
      BY <2>1, ReliefRest
    <2> HIDE DEF e
    <2>4. SameBooks(r.db, e) /\ e.wallets = r.db.wallets /\ (KeysOf(r.db) => KeysOf(e))
      BY <2>3 DEF OnlyClaims
    <2>5. BooksOf(e) /\ KeysOf(e)
      BY <2>1, <2>4, BooksFrame
    <2>6. /\ e.relief = d.relief \cup {[user |-> u, at |-> at, biz |-> b]}
          /\ e.hourly = d.hourly /\ e.daily = d.daily
          /\ DOMAIN e.txns = DOMAIN d.txns \cup {b}
      BY <2>1, <2>3, <2>4 DEF SameClaims, SameBooks
    <2>7. ClaimsOf(e)
      BY <1>3, <2>6, ReliefRow
    <2>8. Paid(d, e, u, active, outside)
      BY <2>1, <2>4 DEF Paid
    <2>9. \A v : v # u => ReliefOf(e, v) = ReliefOf(d, v)
      BY <2>6 DEF ReliefOf
    <2> QED
      BY <2>2, <2>5, <2>6, <2>7, <2>8, <2>9 DEF Claimed
  <1>7. Goal(g.db)
    BY <1>2, <1>5, <1>6
  <1> QED
    BY <1>7 DEF g

(***************************************************************************)
(* The invariant of the open transactions: two transactions of one user    *)
(* never both hold the lock of the same reward, and what GuardHourly and   *)
(* GuardRelief checked still holds when the transaction commits.           *)
(***************************************************************************)
Locking == {"HOURLY", "RELIEF"}
Holding(p) == proc[p].phase \in {"held", "guarded", "replay"} /\ proc[p].kind \in Locking
Serial ==
    \A p, q \in Procs : p # q /\ Holding(p) /\ Holding(q) /\ proc[p].kind = proc[q].kind
                        => proc[p].user # proc[q].user
CheckedOf(p) ==
    LET q == proc[p] IN
    /\ q.phase = "replay" => q.kind = "HOURLY" /\ <<q.user, q.period>> \in DOMAIN db.hourly
    /\ q.phase = "guarded" /\ q.kind = "HOURLY" =>
          /\ <<q.user, q.period>> \notin DOMAIN db.hourly
          /\ Cardinality(hourlyClaimsOn(db, q.user, Day(q.period))) < HourlyDailyLimit
    /\ q.phase = "guarded" /\ q.kind = "RELIEF" =>
          \A c \in ReliefOf(db, q.user) : c.at + ReliefCooldown <= now
PostInv ==
    /\ Inv
    /\ BooksOf(db) /\ KeysOf(db) /\ ClaimsOf(db)
    /\ Serial
    /\ \A p \in Procs : CheckedOf(p)

\* The claim tables of everybody but user u, of the reward kind.
OthersKeep(d, e, u, kind) ==
    /\ DOMAIN d.hourly \subseteq DOMAIN e.hourly
    /\ \A x \in DOMAIN e.hourly : kind # "HOURLY" \/ x[1] # u => x \in DOMAIN d.hourly
    /\ \A v : kind # "RELIEF" \/ v # u => ReliefOf(e, v) = ReliefOf(d, v)

\* What another transaction checked survives a commit for another user or reward.
LEMMA StillChecked ==
  ASSUME PostInv, NEW q \in Procs, NEW u, NEW kind, OthersKeep(db, db', u, kind),
         proc'[q] = proc[q], now' \in Nat, now <= now',
         Holding(q) => proc[q].kind # kind \/ proc[q].user # u
  PROVE  CheckedOf(q)'
  <1> DEFINE r == proc[q]
  <1>1. CheckedOf(q) /\ now \in Nat
    BY ConstantsAssumption DEF PostInv, Inv, TypeOK
  <1>2. r.phase = "replay" => r.kind = "HOURLY" /\ <<r.user, r.period>> \in DOMAIN db'.hourly
    BY <1>1 DEF CheckedOf, OthersKeep
  <1>3. ASSUME r.phase = "guarded", r.kind = "HOURLY"
        PROVE  /\ <<r.user, r.period>> \notin DOMAIN db'.hourly
               /\ Cardinality(hourlyClaimsOn(db', r.user, Day(r.period))) < HourlyDailyLimit
    <2>1. kind # "HOURLY" \/ r.user # u
      BY <1>3 DEF Holding, Locking
    <2>2. \A x \in DOMAIN db'.hourly : x[1] = r.user => x \in DOMAIN db.hourly
      BY <2>1 DEF OthersKeep
    <2>3. hourlyClaimsOn(db', r.user, Day(r.period)) = hourlyClaimsOn(db, r.user, Day(r.period))
      BY <2>2 DEF hourlyClaimsOn, OthersKeep
    <2>4. <<r.user, r.period>>[1] = r.user
      OBVIOUS
    <2> QED
      BY <1>1, <1>3, <2>2, <2>3, <2>4 DEF CheckedOf
  <1>4. ASSUME r.phase = "guarded", r.kind = "RELIEF"
        PROVE  \A c \in ReliefOf(db', r.user) : c.at + ReliefCooldown <= now'
    <2>1. ReliefOf(db', r.user) = ReliefOf(db, r.user)
      BY <1>4 DEF Holding, Locking, OthersKeep
    <2>2. \A c \in ReliefOf(db, r.user) : c.at + ReliefCooldown <= now /\ c.at \in Nat
      BY <1>1, <1>4 DEF CheckedOf, PostInv, ClaimsOf, ReliefOf
    <2> QED
      BY <1>1, <2>1, <2>2, ConstantsAssumption
  <1> QED
    BY <1>2, <1>3, <1>4 DEF CheckedOf

\* What a commit does to the tables: those of its user and its reward at most.
Committed(p, e) ==
    /\ BooksOf(e) /\ KeysOf(e) /\ ClaimsOf(e)
    /\ OthersKeep(db, e, proc[p].user, proc[p].kind)
    /\ \/ Paid(db, e, proc[p].user, policy, inflight[proc[p].user])
       \/ Outside(db, e)

\* A transaction that claims nothing leaves the claims of everyone.
LEMMA OutsideKeeps ==
  ASSUME NEW d, NEW e, SameClaims(d, e), NEW u, NEW kind
  PROVE  OthersKeep(d, e, u, kind)
  BY DEF SameClaims, OthersKeep, ReliefOf

\* What keeps the books and the claims keeps the invariant of the rows.
LEMMA KeptClaims ==
  ASSUME NEW d, ClaimsOf(d), NEW e, Kept(d, e)
  PROVE  BooksOf(e) /\ KeysOf(e) /\ ClaimsOf(e) /\ SameClaims(d, e)
  BY ClaimsFrame DEF Kept, Outside

\* Whatever a process commits is a transaction that Committed allows.
LEMMA CommitKeeps ==
  ASSUME PostInv, NEW p \in Procs, proc[p].phase \in {"guarded", "replay"}
  PROVE  Committed(p, Outcome(p).db)
  <1> DEFINE q == proc[p]
             u == q.user
             out == inflight[u]
             e == Outcome(p).db
  <1>1. /\ Sound(db) /\ BooksOf(db) /\ KeysOf(db) /\ ClaimsOf(db) /\ CheckedOf(p)
        /\ now \in Nat /\ policy \in BOOLEAN
    BY InvSound, ConstantsAssumption DEF PostInv, Inv, TypeOK
  <1>2. q \in Request
    BY DEF PostInv, Inv, TypeOK, Idle
  <1>3. /\ u \in Users /\ q.kind \in AllKinds /\ q.from \in Assets /\ q.amount \in Nat
        /\ out \in Nat
    BY <1>2 DEF Request, PostInv, Inv, TypeOK
  <1> HIDE DEF out, u
  <1>4. ASSUME NEW x, Claimed(db, x, u, policy, out), OthersKeep(db, x, u, q.kind), e = x
        PROVE  Committed(p, e)
    BY <1>4 DEF Committed, Claimed, u, out
  <1>5. CASE q.phase = "replay"
    <2> DEFINE x == ReplayHourlyTx(db, u, q.key, q.period, policy, out).db
    <2>1. q.kind = "HOURLY" /\ <<u, q.period>> \in DOMAIN db.hourly
      BY <1>1, <1>5 DEF CheckedOf, u
    <2>2. Claimed(db, x, u, policy, out) /\ x.hourly = db.hourly /\ x.relief = db.relief
      BY <1>1, <1>3, <2>1, ReplayClaimed
    <2>3. OthersKeep(db, x, u, q.kind)
      BY <2>2 DEF OthersKeep, ReliefOf
    <2>4. e = x
      BY <1>5 DEF Outcome, u, out
    <2> QED
      BY <1>4, <2>2, <2>3, <2>4
  <1>6. CASE q.phase = "guarded" /\ q.kind = "DAILY"
    <2> DEFINE x == ClaimDailyTx(db, u, q.key, q.period, policy, out).db
    <2>1. Claimed(db, x, u, policy, out) /\ x.hourly = db.hourly /\ x.relief = db.relief
      BY <1>1, <1>3, DailyClaimed
    <2>2. OthersKeep(db, x, u, q.kind)
      BY <2>1 DEF OthersKeep, ReliefOf
    <2>3. e = x
      BY <1>6 DEF Outcome, u, out
    <2> QED
      BY <1>4, <2>1, <2>2, <2>3
  <1>7. CASE q.phase = "guarded" /\ q.kind = "HOURLY"
    <2> DEFINE x == ClaimHourlyTx(db, u, q.key, q.period, policy, out).db
               k == <<u, q.period>>
    <2>1. /\ k \notin DOMAIN db.hourly
          /\ Cardinality(hourlyClaimsOn(db, u, Day(q.period))) < HourlyDailyLimit
      BY <1>1, <1>7 DEF CheckedOf, u
    <2>2. /\ Claimed(db, x, u, policy, out)
          /\ AddsHour(db, x, k)
          /\ x.relief = db.relief
      BY <1>1, <1>3, <2>1, HourlyClaimed
    <2>3. k[1] = u
      OBVIOUS
    <2> HIDE DEF x, k
    <2>4. OthersKeep(db, x, u, q.kind)
      BY <1>7, <2>2, <2>3 DEF OthersKeep, ReliefOf, AddsHour
    <2>5. e = x
      BY <1>7 DEF Outcome, u, out, x
    <2> QED
      BY <1>4, <2>2, <2>4, <2>5
  <1>8. CASE q.phase = "guarded" /\ q.kind = "RELIEF"
    <2> DEFINE x == claimReliefRewardInTx(db, u, q.key, now, policy, out).db
    <2>1. \A c \in ReliefOf(db, u) : c.at + ReliefCooldown <= now
      BY <1>1, <1>8 DEF CheckedOf, u
    <2>2. /\ Claimed(db, x, u, policy, out) /\ x.hourly = db.hourly
          /\ \A v : v # u => ReliefOf(x, v) = ReliefOf(db, v)
      BY <1>1, <1>3, <2>1, ReliefClaimed
    <2>3. OthersKeep(db, x, u, q.kind)
      BY <1>8, <2>2 DEF OthersKeep
    <2>4. e = x
      BY <1>8 DEF Outcome, u, out
    <2> QED
      BY <1>4, <2>2, <2>3, <2>4
  <1>9. CASE q.phase = "guarded" /\ q.kind = "EXCHANGE"
    <2> DEFINE x == exchangeInTx(db, u, q.key, q.from, q.amount).db
    <2>1. Kept(db, x)
      BY <1>1, <1>3, ExchangeKept
    <2>2. BooksOf(x) /\ KeysOf(x) /\ ClaimsOf(x) /\ SameClaims(db, x) /\ Outside(db, x)
      BY <1>1, <2>1, KeptClaims DEF Kept
    <2>3. OthersKeep(db, x, q.user, q.kind)
      BY <2>2, OutsideKeeps
    <2>4. e = x
      BY <1>9 DEF Outcome, u
    <2> HIDE DEF x, e
    <2> QED
      BY <2>2, <2>3, <2>4 DEF Committed, e
  <1> QED
    BY <1>3, <1>5, <1>6, <1>7, <1>8, <1>9 DEF AllKinds, RewardKinds

\* A step that leaves the open transactions alone and takes no claim.
LEMMA QuietStep ==
  ASSUME PostInv, Inv', UNCHANGED proc, now' \in Nat, now <= now',
         BooksOf(db'), KeysOf(db'), ClaimsOf(db'), SameClaims(db, db')
  PROVE  PostInv'
  <1>1. OthersKeep(db, db', 0, "NONE")
    BY OutsideKeeps
  <1>2. ASSUME NEW q \in Procs PROVE CheckedOf(q)'
    <2>1. Holding(q) => proc[q].kind # "NONE"
      BY DEF Holding, Locking
    <2> QED
      BY <1>1, <2>1, StillChecked
  <1>3. Serial'
    BY DEF PostInv, Serial, Holding
  <1> QED
    BY <1>2, <1>3 DEF PostInv

\* A step of one transaction that keeps the database.
LEMMA PhaseStep ==
  ASSUME PostInv, Inv', UNCHANGED <<db, now>>, NEW p \in Procs, CheckedOf(p)',
         \A q \in Procs \ {p} : proc'[q] = proc[q],
         \A q \in Procs \ {p} : Holding(p)' /\ Holding(q) /\ proc[q].kind = proc'[p].kind
                                => proc[q].user # proc'[p].user
  PROVE  PostInv'
  <1>1. BooksOf(db') /\ KeysOf(db') /\ ClaimsOf(db') /\ now' \in Nat /\ now <= now'
    BY ConstantsAssumption DEF PostInv, Inv, TypeOK
  <1>2. OthersKeep(db, db', 0, "NONE")
    BY DEF OthersKeep
  <1>3. ASSUME NEW q \in Procs, q # p PROVE CheckedOf(q)'
    <2>1. Holding(q) => proc[q].kind # "NONE"
      BY DEF Holding, Locking
    <2> QED
      BY <1>1, <1>2, <1>3, <2>1, StillChecked
  <1>4. Serial'
    <2> SUFFICES ASSUME NEW q \in Procs, NEW r \in Procs, q # r, Holding(q)', Holding(r)',
                        proc'[q].kind = proc'[r].kind
                 PROVE  proc'[q].user # proc'[r].user
      BY DEF Serial
    <2>1. \A s \in Procs \ {p} : Holding(s)' => Holding(s)
      BY DEF Holding
    <2>2. CASE q = p
      BY <2>1, <2>2
    <2>3. CASE r = p
      BY <2>1, <2>3
    <2>4. CASE q # p /\ r # p
      BY <2>1, <2>4 DEF PostInv, Serial
    <2> QED
      BY <2>2, <2>3, <2>4
  <1> QED
    BY <1>1, <1>3, <1>4 DEF PostInv

\* The fields of an open transaction that moves to its next phase.
LEMMA EnterFields ==
  ASSUME PostInv, NEW p \in Procs, proc[p].phase \in Phases, NEW phase, NEW guard, NEW period,
         Enter(p, phase, guard, period)
  PROVE  /\ proc'[p].phase = phase /\ proc'[p].period = period
         /\ proc'[p].kind = proc[p].kind /\ proc'[p].user = proc[p].user
         /\ \A q \in Procs \ {p} : proc'[q] = proc[q]
  <1>1. proc \in [Procs -> Request \cup {Idle}]
    BY DEF PostInv, Inv, TypeOK
  <1>2. proc[p] \in Request
    BY <1>1 DEF Idle, Phases
  <1> QED
    BY <1>1, <1>2 DEF Enter, Request

\* A commit of the transaction p.
LEMMA CommitStep ==
  ASSUME PostInv, Inv', NEW p \in Procs, Commit(p)
  PROVE  PostInv'
  <1> DEFINE u == proc[p].user
             kind == proc[p].kind
  <1>1. Committed(p, db')
    BY CommitKeeps DEF Commit
  <1>2. /\ BooksOf(db') /\ KeysOf(db') /\ ClaimsOf(db') /\ OthersKeep(db, db', u, kind)
    BY <1>1 DEF Committed
  <1>3. proc[p].phase \in {"guarded", "replay"} /\ now' = now /\ now \in Nat
    BY ConstantsAssumption DEF Commit, PostInv, Inv, TypeOK
  <1>4. proc'[p] = Idle /\ \A q \in Procs \ {p} : proc'[q] = proc[q]
    BY DEF Commit, Finish, PostInv, Inv, TypeOK
  <1>5. ~Holding(p)' /\ CheckedOf(p)'
    BY <1>4 DEF Holding, CheckedOf, Idle
  <1>6. ASSUME NEW q \in Procs, q # p PROVE CheckedOf(q)'
    <2>1. Holding(q) => proc[q].kind # kind \/ proc[q].user # u
      BY <1>3, <1>6 DEF PostInv, Serial, Holding
    <2> HIDE DEF u, kind
    <2> QED
      BY <1>2, <1>3, <1>4, <1>6, <2>1, StillChecked
  <1>7. Serial'
    <2>1. \A s \in Procs \ {p} : Holding(s)' => Holding(s)
      BY <1>4 DEF Holding
    <2> QED
      BY <1>4, <1>5, <2>1 DEF PostInv, Serial
  <1> QED
    BY <1>2, <1>5, <1>6, <1>7 DEF PostInv

\* The empty database has no transaction, no leg and no claim.
LEMMA InitPost == Init => PostInv
  <1> SUFFICES ASSUME Init PROVE PostInv
    OBVIOUS
  <1>1. /\ db = EmptyDB /\ \A p \in Procs : proc[p] = Idle
        /\ DOMAIN db.ledger = {} /\ DOMAIN db.txns = {} /\ DOMAIN db.idem = {}
        /\ DOMAIN db.rewardKeys = {} /\ DOMAIN db.caps = {} /\ DOMAIN db.daily = {}
        /\ DOMAIN db.hourly = {} /\ db.relief = {} /\ DOMAIN db.usage = {}
    BY DEF Init, EmptyDB, Empty
  <1>2. Inv
    BY InitInv
  <1>3. BooksOf(db) /\ KeysOf(db)
    BY <1>1 DEF BooksOf, KeysOf, PostedOf
  <1>4. ClaimsOf(db)
    BY <1>1, FS_EmptySet DEF ClaimsOf, ScheduleOf, BackedClaims, Spaced, ReliefOf
  <1>5. Serial /\ \A p \in Procs : CheckedOf(p)
    BY <1>1 DEF Serial, Holding, CheckedOf, Idle
  <1> QED
    BY <1>2, <1>3, <1>4, <1>5 DEF PostInv

\* Every action preserves the invariant.
LEMMA NextPost == PostInv /\ [Next]_vars => PostInv'
  <1> SUFFICES ASSUME PostInv, [Next]_vars PROVE PostInv'
    OBVIOUS
  <1>0. /\ Inv /\ Inv' /\ Sound(db) /\ BooksOf(db) /\ KeysOf(db) /\ ClaimsOf(db) /\ now \in Nat
    BY NextInv, InvSound, ConstantsAssumption DEF PostInv, Inv, TypeOK
  <1>a. ASSUME UNCHANGED <<db, proc>>, now' \in Nat, now <= now' PROVE PostInv'
    BY <1>0, <1>a, QuietStep DEF SameClaims
  <1>b. ASSUME Kept(db, db'), UNCHANGED <<proc, now>> PROVE PostInv'
    <2>1. BooksOf(db') /\ KeysOf(db') /\ ClaimsOf(db') /\ SameClaims(db, db')
      BY <1>0, <1>b, KeptClaims
    <2> QED
      BY <1>0, <1>b, <2>1, QuietStep
  <1>1. ASSUME NEW u \in Users, EnsureAccount(u) PROVE PostInv'
    <2>1. DOMAIN db = DOMAIN EmptyDB
      BY <1>0 DEF Sound, TablesOf
    <2>2. /\ SameBooks(db, db') /\ SameClaims(db, db') /\ db'.idem = db.idem
          /\ db'.rewardKeys = db.rewardKeys
      BY <1>1, <2>1, Fields DEF EnsureAccount, SameBooks, SameClaims
    <2>3. BooksOf(db') /\ KeysOf(db')
      BY <1>0, <2>2, BooksFrame DEF KeysOf
    <2>4. Outside(db, db')
      BY <2>2 DEF Outside, SameBooks
    <2> QED
      BY <1>1, <1>b, <2>3, <2>4 DEF EnsureAccount, Kept
  <1>2. ASSUME NEW p \in Procs, NEW kind, NEW u, NEW k, NEW from, NEW amount,
               Ask(p, kind, u, k, from, amount)
        PROVE  PostInv'
    <2>1. proc'[p].phase = "asked" /\ \A q \in Procs \ {p} : proc'[q] = proc[q]
      BY <1>2 DEF Ask, PostInv, Inv, TypeOK
    <2>2. CheckedOf(p)' /\ ~Holding(p)'
      BY <2>1 DEF CheckedOf, Holding
    <2> QED
      BY <1>0, <1>2, <2>1, <2>2, PhaseStep DEF Ask
  <1>3. ASSUME NEW p \in Procs, Guard(p) PROVE PostInv'
    <2>1. /\ proc[p].phase \in Phases /\ Enter(p, "guarded", TRUE, Day(now))
          /\ UNCHANGED <<db, now>> /\ proc[p].kind \in {"DAILY", "EXCHANGE"}
      BY <1>3 DEF Guard, Phases
    <2>2. proc'[p].kind = proc[p].kind /\ proc'[p].phase = "guarded"
          /\ \A q \in Procs \ {p} : proc'[q] = proc[q]
      BY <2>1, EnterFields
    <2>3. CheckedOf(p)' /\ ~Holding(p)'
      BY <2>1, <2>2 DEF CheckedOf, Holding, Locking
    <2> QED
      BY <1>0, <2>1, <2>2, <2>3, PhaseStep
  <1>4. ASSUME NEW p \in Procs, HoldHourly(p) PROVE PostInv'
    <2> DEFINE phase == IF <<proc[p].user, now>> \in DOMAIN db.hourly THEN "replay" ELSE "held"
    <2>1. /\ proc[p].phase \in Phases /\ Enter(p, phase, FALSE, now)
          /\ UNCHANGED <<db, now>> /\ proc[p].kind = "HOURLY"
          /\ ~RewardUserLocked("HOURLY", proc[p].user)
      BY <1>4 DEF HoldHourly, Phases
    <2> HIDE DEF phase
    <2>2. /\ proc'[p].kind = "HOURLY" /\ proc'[p].phase = phase /\ proc'[p].period = now
          /\ proc'[p].user = proc[p].user
          /\ \A q \in Procs \ {p} : proc'[q] = proc[q]
      BY <2>1, EnterFields
    <2> USE DEF phase
    <2>3. CheckedOf(p)'
      BY <2>1, <2>2 DEF CheckedOf
    <2>4. \A q \in Procs \ {p} : Holding(p)' /\ Holding(q) /\ proc[q].kind = proc'[p].kind
                                 => proc[q].user # proc'[p].user
      BY <2>1, <2>2 DEF RewardUserLocked, Holding
    <2> QED
      BY <1>0, <2>1, <2>2, <2>3, <2>4, PhaseStep
  <1>5. ASSUME NEW p \in Procs, GuardHourly(p) PROVE PostInv'
    <2> DEFINE claimed == <<proc[p].user, now>> \in DOMAIN db.hourly
               phase == IF claimed THEN "replay" ELSE "guarded"
    <2>1. /\ proc[p].phase \in Phases /\ Enter(p, phase, TRUE, now)
          /\ UNCHANGED <<db, now>> /\ proc[p].kind = "HOURLY" /\ proc[p].phase = "held"
          /\ \/ claimed
             \/ Cardinality(hourlyClaimsOn(db, proc[p].user, Day(now))) < HourlyDailyLimit
      BY <1>5 DEF GuardHourly, Phases
    <2>2. /\ proc'[p].kind = "HOURLY" /\ proc'[p].phase = phase /\ proc'[p].period = now
          /\ proc'[p].user = proc[p].user
          /\ \A q \in Procs \ {p} : proc'[q] = proc[q]
      BY <2>1, EnterFields
    <2>3. CheckedOf(p)'
      BY <2>1, <2>2 DEF CheckedOf
    <2>4. \A q \in Procs \ {p} : Holding(p)' /\ Holding(q) /\ proc[q].kind = proc'[p].kind
                                 => proc[q].user # proc'[p].user
      BY <2>1, <2>2 DEF PostInv, Serial, Holding
    <2> QED
      BY <1>0, <2>1, <2>2, <2>3, <2>4, PhaseStep
  <1>6. ASSUME NEW p \in Procs, HoldRelief(p) PROVE PostInv'
    <2>1. /\ proc[p].phase \in Phases /\ Enter(p, "held", FALSE, now)
          /\ UNCHANGED <<db, now>> /\ proc[p].kind = "RELIEF"
          /\ ~RewardUserLocked("RELIEF", proc[p].user)
      BY <1>6 DEF HoldRelief, Phases
    <2>2. /\ proc'[p].kind = "RELIEF" /\ proc'[p].phase = "held"
          /\ proc'[p].user = proc[p].user
          /\ \A q \in Procs \ {p} : proc'[q] = proc[q]
      BY <2>1, EnterFields
    <2>3. CheckedOf(p)'
      BY <2>2 DEF CheckedOf
    <2>4. \A q \in Procs \ {p} : Holding(p)' /\ Holding(q) /\ proc[q].kind = proc'[p].kind
                                 => proc[q].user # proc'[p].user
      BY <2>1, <2>2 DEF RewardUserLocked, Holding
    <2> QED
      BY <1>0, <2>1, <2>2, <2>3, <2>4, PhaseStep
  <1>7. ASSUME NEW p \in Procs, GuardRelief(p) PROVE PostInv'
    <2>1. /\ proc[p].phase \in Phases /\ Enter(p, "guarded", TRUE, now)
          /\ UNCHANGED <<db, now>> /\ proc[p].kind = "RELIEF" /\ proc[p].phase = "held"
          /\ ~reliefCooling(db, proc[p].user, now)
      BY <1>7 DEF GuardRelief, Phases
    <2>2. /\ proc'[p].kind = "RELIEF" /\ proc'[p].phase = "guarded"
          /\ proc'[p].user = proc[p].user
          /\ \A q \in Procs \ {p} : proc'[q] = proc[q]
      BY <2>1, EnterFields
    <2>3. \A c \in ReliefOf(db, proc[p].user) : c.at + ReliefCooldown <= now
      <3>1. \A c \in ReliefOf(db, proc[p].user) : c.at \in Nat
        BY <1>0 DEF ClaimsOf, ReliefOf
      <3> QED
        BY <1>0, <2>1, <3>1, ConstantsAssumption DEF reliefCooling
    <2>4. CheckedOf(p)'
      BY <2>1, <2>2, <2>3 DEF CheckedOf
    <2>5. \A q \in Procs \ {p} : Holding(p)' /\ Holding(q) /\ proc[q].kind = proc'[p].kind
                                 => proc[q].user # proc'[p].user
      BY <2>1, <2>2 DEF PostInv, Serial, Holding
    <2> QED
      BY <1>0, <2>1, <2>2, <2>4, <2>5, PhaseStep
  <1>8. ASSUME NEW p \in Procs, Commit(p) PROVE PostInv'
    BY <1>0, <1>8, CommitStep
  <1>9. ASSUME NEW p \in Procs, Rollback(p) PROVE PostInv'
    <2>1. proc'[p] = Idle /\ \A q \in Procs \ {p} : proc'[q] = proc[q]
      BY <1>9 DEF Rollback, Finish, PostInv, Inv, TypeOK
    <2>2. CheckedOf(p)' /\ ~Holding(p)'
      BY <2>1 DEF CheckedOf, Holding, Idle
    <2> QED
      BY <1>0, <1>9, <2>1, <2>2, PhaseStep DEF Rollback
  <1>10. ASSUME NEW m \in GameMutations, NEW k \in GameKeys, Apply(m, k) PROVE PostInv'
    <2>1. Kept(db, applyInTx(db, m, k).db)
      BY <1>0, GameKept
    <2> QED
      BY <1>10, <1>b, <2>1 DEF Apply
  <1>11. ASSUME NEW u \in Users, NEW req \in Requests, NEW cost \in Costs, SettleRelay(u, req, cost)
         PROVE  PostInv'
    <2>1. cost \in Nat /\ <<u, req>> \notin DOMAIN db.usage
      BY <1>11, ConstantsAssumption DEF SettleRelay
    <2>2. Kept(db, settleRelay(db, u, req, cost).db)
      BY <1>0, <2>1, RelayKept
    <2> QED
      BY <1>11, <1>b, <2>2 DEF SettleRelay
  <1>12. ASSUME NEW scopes \in SUBSET Scopes, SaveMaintenance(scopes) PROVE PostInv'
    BY <1>0, <1>12, <1>a DEF SaveMaintenance
  <1>13. ASSUME ActivatePolicy PROVE PostInv'
    BY <1>0, <1>13, <1>a DEF ActivatePolicy
  <1>14. ASSUME NEW u \in Users, NEW units \in InFlights, MoveInFlight(u, units) PROVE PostInv'
    BY <1>0, <1>14, <1>a DEF MoveInFlight
  <1>15. ASSUME Tick PROVE PostInv'
    BY <1>0, <1>15, <1>a DEF Tick
  <1>16. CASE UNCHANGED vars
    BY <1>0, <1>16, <1>a DEF vars
  <1> QED
    BY <1>1, <1>2, <1>3, <1>4, <1>5, <1>6, <1>7, <1>8, <1>9, <1>10, <1>11, <1>12, <1>13,
       <1>14, <1>15, <1>16 DEF Next

\* However often applyInTx, exchangeInTx, settleRelay or a claim is repeated, and under
\* however many keys, its operation is posted once, to the wallets of its own user.
THEOREM PostedOnceHolds == Spec => []PostedOnce
  <1>1. PostInv => PostedOnce
    BY DEF PostInv, BooksOf, PostedOnce
  <1> QED
    BY <1>1, InitPost, NextPost, PTL DEF Spec

\* ClaimHourly stays within the limit of the day and ClaimRelief keeps its cooldown,
\* whatever the clock does between the checks and the commit, and every transaction
\* of a reward is backed by the claim row of its own period.
THEOREM RewardScheduleHolds == Spec => []RewardSchedule
  <1>1. PostInv => RewardSchedule
    BY DEF PostInv, ClaimsOf, RewardSchedule
  <1> QED
    BY <1>1, InitPost, NextPost, PTL DEF Spec

\* What one commit pays stays below the cap; every other wallet is left alone.
LEMMA PaidFits ==
  ASSUME Sound(db), NEW v \in Users, policy, inflight \in [Users -> Nat],
         Paid(db, db', v, policy, inflight[v]), NEW u \in Users,
         TotalAssets(db', u, inflight[u]) > TotalAssets(db, u, inflight[u])
  PROVE  TotalAssets(db', u, inflight[u]) <= AssetCap
  <1>1. inflight[u] \in Nat /\ TotalAssets(db, u, inflight[u]) \in Nat
    BY TotalNat
  <1>2. db'.wallets # db.wallets
    <2>1. ASSUME db'.wallets = db.wallets
          PROVE  TotalAssets(db', u, inflight[u]) = TotalAssets(db, u, inflight[u])
      BY <2>1 DEF TotalAssets
    <2> QED
      BY <1>1, <2>1
  <1>3. PICK delta \in Nat :
           /\ db'.wallets = SetRow(db.wallets, v, "RESERVE", NextRow(db.wallets[v]["RESERVE"], delta))
           /\ TotalAssets(db, v, inflight[v]) + delta <= AssetCap
    BY <1>2 DEF Paid
  <1>4. \A a \in Assets : db.wallets[u][a].balance \in Nat
    BY ConstantsAssumption DEF Sound, TablesOf, WalletRow
  <1>5. db'.wallets[u]["CHIPS"] = db.wallets[u]["CHIPS"]
    BY <1>3 DEF SetRow, Assets
  <1>6. CASE u # v
    <2>1. db'.wallets[u]["RESERVE"] = db.wallets[u]["RESERVE"]
      BY <1>3, <1>6 DEF SetRow, Assets
    <2>2. TotalAssets(db', u, inflight[u]) = TotalAssets(db, u, inflight[u])
      BY <1>5, <2>1 DEF TotalAssets
    <2> QED
      BY <1>1, <2>2
  <1>7. CASE u = v
    <2>1. db'.wallets[u]["RESERVE"].balance = db.wallets[u]["RESERVE"].balance + delta
      BY <1>3, <1>7 DEF SetRow, Assets, NextRow
    <2>2. TotalAssets(db', u, inflight[u]) = TotalAssets(db, u, inflight[u]) + delta
      BY <1>1, <1>4, <1>5, <2>1 DEF TotalAssets, Assets
    <2> QED
      BY <1>3, <1>7, <2>2
  <1> QED
    BY <1>6, <1>7

\* A step that is no commit of a claim posts no reward.
LEMMA PaysOrNot ==
  ASSUME PostInv, [Next]_vars
  PROVE  \/ Outside(db, db')
         \/ \E v \in Users : Paid(db, db', v, policy, inflight[v])
  <1>0. /\ Sound(db) /\ BooksOf(db) /\ KeysOf(db)
    BY InvSound DEF PostInv
  <1>1. CASE UNCHANGED db
    BY <1>1 DEF Outside, SameClaims
  <1>2. ASSUME NEW u \in Users, EnsureAccount(u) PROVE Outside(db, db')
    <2>1. DOMAIN db = DOMAIN EmptyDB
      BY <1>0 DEF Sound, TablesOf
    <2> QED
      BY <1>2, <2>1, Fields DEF EnsureAccount, Outside, SameClaims
  <1>3. ASSUME NEW p \in Procs, Commit(p)
        PROVE  Outside(db, db') \/ \E v \in Users : Paid(db, db', v, policy, inflight[v])
    <2>1. Committed(p, db')
      BY <1>3, CommitKeeps DEF Commit
    <2>2. proc[p].phase \in {"guarded", "replay"} /\ proc \in [Procs -> Request \cup {Idle}]
      BY <1>3 DEF Commit, PostInv, Inv, TypeOK
    <2>3. proc[p].user \in Users
      BY <2>2 DEF Request, Idle
    <2> QED
      BY <2>1, <2>3 DEF Committed
  <1>4. ASSUME NEW m \in GameMutations, NEW k \in GameKeys, Apply(m, k) PROVE Outside(db, db')
    BY <1>0, <1>4, GameKept DEF Apply, Kept
  <1>5. ASSUME NEW u \in Users, NEW req \in Requests, NEW cost \in Costs, SettleRelay(u, req, cost)
        PROVE  Outside(db, db')
    <2>1. cost \in Nat /\ <<u, req>> \notin DOMAIN db.usage
      BY <1>5, ConstantsAssumption DEF SettleRelay
    <2> QED
      BY <1>0, <1>5, <2>1, RelayKept DEF SettleRelay, Kept
  <1>6. ASSUME [Next]_vars
        PROVE  \/ UNCHANGED db
               \/ \E u \in Users : EnsureAccount(u)
               \/ \E p \in Procs : Commit(p)
               \/ \E m \in GameMutations, k \in GameKeys : Apply(m, k)
               \/ \E u \in Users, req \in Requests, cost \in Costs : SettleRelay(u, req, cost)
    BY <1>6 DEF Next, Ask, Guard, HoldHourly, GuardHourly, HoldRelief, GuardRelief, Rollback,
       SaveMaintenance, ActivatePolicy, MoveInFlight, Tick, vars
  <1> QED
    BY <1>1, <1>2, <1>3, <1>4, <1>5, <1>6

\* Under the active policy no claim lifts the assets of a user above the cap
\* (applyRewardInTx under CapPayout), whichever request commits it and whatever the
\* clock, the policy and the other assets of the user did since it began.
THEOREM RewardCappedHolds == Spec => RewardCapped
  <1>1. ASSUME PostInv, [Next]_vars, NEW u \in Users
        PROVE  LET before == TotalAssets(db, u, inflight[u])
                   after == TotalAssets(db', u, inflight[u])
               IN  policy /\ inflight' = inflight /\ after > before
                   /\ (\E b \in DOMAIN db'.txns \ DOMAIN db.txns : b[1] \in RewardKinds)
                   => after <= AssetCap
    <2> SUFFICES ASSUME policy, TotalAssets(db', u, inflight[u]) > TotalAssets(db, u, inflight[u]),
                        \E b \in DOMAIN db'.txns \ DOMAIN db.txns : b[1] \in RewardKinds
                 PROVE  TotalAssets(db', u, inflight[u]) <= AssetCap
      OBVIOUS
    <2>1. PICK v \in Users : Paid(db, db', v, policy, inflight[v])
      BY <1>1, PaysOrNot DEF Outside
    <2>2. Sound(db) /\ inflight \in [Users -> Nat]
      BY <1>1, InvSound DEF PostInv, Inv, TypeOK
    <2> QED
      BY <1>1, <2>1, <2>2, PaidFits
  <1>2. PostInv /\ [Next]_vars
        => [\A u \in Users :
              LET before == TotalAssets(db, u, inflight[u])
                  after == TotalAssets(db', u, inflight[u])
              IN  policy /\ inflight' = inflight /\ after > before
                  /\ (\E b \in DOMAIN db'.txns \ DOMAIN db.txns : b[1] \in RewardKinds)
                  => after <= AssetCap]_vars
    BY <1>1
  <1> QED
    BY <1>2, InitPost, NextPost, PTL DEF Spec, RewardCapped
=============================================================================
