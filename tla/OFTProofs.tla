----------------------------- MODULE OFTProofs -----------------------------
(***************************************************************************)
(* Proofs about OFT, for every choice of the constants: the type           *)
(* invariant, the solvency of the escrow, the backing of what remote       *)
(* holders may claim, what a step may never do, that every packet counts   *)
(* once, and that tokens are conserved.                                    *)
(***************************************************************************)
EXTENDS OFT, OFTMathProofs

-----------------------------------------------------------------------------
(* Sums of packets.                                                        *)

UnitsOut(packets) == MapThenSumSet(LAMBDA i : packets[i].amount_sd, DOMAIN packets)
UnitsIn(packets) == MapThenSumSet(LAMBDA p : p.amount_sd, packets)

LEMMA UnitsInIsSum ==
  ASSUME NEW D, IsFiniteSet(D), \A p \in D : p.amount_sd \in Int
  PROVE  \E g : IsSum(g, [p \in D |-> p.amount_sd], D) /\ UnitsIn(D) = g[D]
<1> DEFINE f == [p \in D |-> p.amount_sd]
            pick == [s \in SUBSET D |-> CHOOSE x \in s : TRUE]
            Rec(g) == g = [s \in SUBSET D |->
                             IF s = {} THEN 0
                             ELSE LET x == CHOOSE x \in s : TRUE
                                  IN  x.amount_sd + g[s \ {x}]]
            iter == CHOOSE g : Rec(g)
<1>1. \A s \in SUBSET D : s # {} => pick[s] \in s
  OBVIOUS
<1>2. ASSUME NEW g PROVE Rec(g) <=> Sums(g, f, pick, D)
  <2>1. ASSUME NEW s \in SUBSET D, s # {}
        PROVE  LET x == CHOOSE x \in s : TRUE IN x.amount_sd + g[s \ {x}]
                 = f[pick[s]] + g[s \ {pick[s]}]
    <3>1. pick[s] = (CHOOSE x \in s : TRUE) /\ pick[s] \in D
      BY <1>1, <2>1
    <3>2. f[pick[s]] = pick[s].amount_sd
      BY <3>1
    <3> HIDE DEF pick, f
    <3> QED BY <3>1, <3>2
  <2> HIDE DEF pick, f
  <2> QED BY <2>1 DEF Sums
<1>3. \E g : Sums(g, f, pick, D)
  <2>1. f \in [D -> Int]
    OBVIOUS
  <2> HIDE DEF f, pick
  <2> QED BY <1>1, <2>1, SumsExist
<1>4. Rec(iter)
  <2>1. \E g : Rec(g)
    <3>1. PICK g : Sums(g, f, pick, D)
      BY <1>3
    <3> HIDE DEF Rec, f, pick
    <3>2. Rec(g)
      BY <1>2, <3>1
    <3> QED BY <3>2
  <2> QED BY <2>1
<1>5. UnitsIn(D) = iter[D]
  BY DEF UnitsIn, MapThenSumSet, MapThenFoldSet
<1>6. IsSum(iter, f, D)
  <2>1. Sums(iter, f, pick, D)
    BY <1>2, <1>4
  <2> HIDE DEF iter, f, pick
  <2> QED BY <1>1, <2>1, SumsIsSum
<1> HIDE DEF iter
<1> QED BY <1>5, <1>6

LEMMA UnitsOutIsSum ==
  ASSUME NEW o, IsFiniteSet(DOMAIN o), \A i \in DOMAIN o : o[i].amount_sd \in Int
  PROVE  \E g : IsSum(g, [i \in DOMAIN o |-> o[i].amount_sd], DOMAIN o)
                 /\ UnitsOut(o) = g[DOMAIN o]
<1> DEFINE D == DOMAIN o
            f == [i \in D |-> o[i].amount_sd]
            pick == [s \in SUBSET D |-> CHOOSE x \in s : TRUE]
            Rec(g) == g = [s \in SUBSET D |->
                             IF s = {} THEN 0
                             ELSE LET x == CHOOSE x \in s : TRUE
                                  IN  o[x].amount_sd + g[s \ {x}]]
            iter == CHOOSE g : Rec(g)
<1>1. \A s \in SUBSET D : s # {} => pick[s] \in s
  OBVIOUS
<1>2. ASSUME NEW g PROVE Rec(g) <=> Sums(g, f, pick, D)
  <2>1. ASSUME NEW s \in SUBSET D, s # {}
        PROVE  LET x == CHOOSE x \in s : TRUE IN o[x].amount_sd + g[s \ {x}]
                 = f[pick[s]] + g[s \ {pick[s]}]
    <3>1. pick[s] = (CHOOSE x \in s : TRUE) /\ pick[s] \in D
      BY <1>1, <2>1
    <3>2. f[pick[s]] = o[pick[s]].amount_sd
      BY <3>1
    <3> HIDE DEF pick, f
    <3> QED BY <3>1, <3>2
  <2> HIDE DEF pick, f
  <2> QED BY <2>1 DEF Sums
<1>3. \E g : Sums(g, f, pick, D)
  <2>1. f \in [D -> Int]
    OBVIOUS
  <2> HIDE DEF f, pick
  <2> QED BY <1>1, <2>1, SumsExist
<1>4. Rec(iter)
  <2>1. \E g : Rec(g)
    <3>1. PICK g : Sums(g, f, pick, D)
      BY <1>3
    <3> HIDE DEF Rec, f, pick, D
    <3>2. Rec(g)
      BY <1>2, <3>1
    <3> QED BY <3>2
  <2> QED BY <2>1
<1>5. UnitsOut(o) = iter[D]
  BY DEF UnitsOut, MapThenSumSet, MapThenFoldSet
<1>6. IsSum(iter, f, D)
  <2>1. Sums(iter, f, pick, D)
    BY <1>2, <1>4
  <2> HIDE DEF iter, f, pick
  <2> QED BY <1>1, <2>1, SumsIsSum
<1> HIDE DEF iter
<1> QED BY <1>5, <1>6

LEMMA UnitsInType ==
  ASSUME NEW D, IsFiniteSet(D), \A p \in D : p.amount_sd \in Int
  PROVE  UnitsIn(D) \in Int
<1> DEFINE f == [p \in D |-> p.amount_sd]
<1>1. f \in [D -> Int]
  OBVIOUS
<1>2. PICK g : IsSum(g, f, D) /\ UnitsIn(D) = g[D]
  BY UnitsInIsSum
<1> HIDE DEF f
<1> QED BY <1>1, <1>2, SumType

\* One more packet adds its units.
LEMMA UnitsInAdd ==
  ASSUME NEW D, IsFiniteSet(D), NEW p, p \notin D,
         \A q \in D \cup {p} : q.amount_sd \in Int
  PROVE  UnitsIn(D) \in Int /\ UnitsIn(D \cup {p}) = UnitsIn(D) + p.amount_sd
<1> DEFINE E == D \cup {p}
            f == [q \in D |-> q.amount_sd]
            e == [q \in E |-> q.amount_sd]
<1>1. IsFiniteSet(E)
  BY FS_AddElement
<1>2. PICK g : IsSum(g, f, D) /\ UnitsIn(D) = g[D]
  BY UnitsInIsSum
<1>3. PICK h : IsSum(h, e, E) /\ UnitsIn(E) = h[E]
  <2> HIDE DEF E
  <2>1. \A q \in E : q.amount_sd \in Int BY DEF E
  <2> QED BY <1>1, <2>1, UnitsInIsSum
<1>4. f \in [D -> Int] /\ e \in [E -> Int] /\ D \subseteq E /\ \A q \in D : f[q] = e[q]
  OBVIOUS
<1>5. p \in E /\ E \ {p} = D /\ e[p] = p.amount_sd
  OBVIOUS
<1> HIDE DEF E, e, f
<1>6. g[D] \in Int /\ h[E] = g[D] + e[p]
  BY <1>1, <1>2, <1>3, <1>4, <1>5, SumAdd
<1> QED BY <1>2, <1>3, <1>5, <1>6 DEF E

LEMMA UnitsOutType ==
  ASSUME NEW P, NEW o \in Seq(P), \A q \in P : q.amount_sd \in Int
  PROVE  UnitsOut(o) \in Int
<1> DEFINE f == [i \in DOMAIN o |-> o[i].amount_sd]
<1>1. IsFiniteSet(DOMAIN o)
  <2>1. DOMAIN o = 1 .. Len(o) /\ Len(o) \in Nat
    OBVIOUS
  <2> QED BY <2>1, FS_Interval
<1>2. f \in [DOMAIN o -> Int] /\ \A i \in DOMAIN o : o[i].amount_sd \in Int
  OBVIOUS
<1>3. PICK g : IsSum(g, f, DOMAIN o) /\ UnitsOut(o) = g[DOMAIN o]
  BY <1>1, <1>2, UnitsOutIsSum
<1> HIDE DEF f
<1> QED BY <1>1, <1>2, <1>3, SumType

LEMMA UnitsOutAppend ==
  ASSUME NEW P, NEW o \in Seq(P), NEW p \in P, \A q \in P : q.amount_sd \in Int
  PROVE  UnitsOut(o) \in Int /\ UnitsOut(Append(o, p)) = UnitsOut(o) + p.amount_sd
<1> DEFINE n == Len(o) + 1
            l == Append(o, p)
            D == DOMAIN o
            E == DOMAIN l
            f == [i \in D |-> o[i].amount_sd]
            e == [i \in E |-> l[i].amount_sd]
<1>1. D = 1 .. Len(o) /\ E = 1 .. n /\ Len(o) \in Nat
  OBVIOUS
<1>2. IsFiniteSet(D) /\ IsFiniteSet(E)
  BY <1>1, FS_Interval
<1>3. /\ \A i \in D : o[i] \in P /\ l[i] = o[i]
      /\ \A i \in E : l[i] \in P
      /\ l[n] = p
  OBVIOUS
<1>4. f \in [D -> Int] /\ e \in [E -> Int] /\ D \subseteq E /\ \A i \in D : f[i] = e[i]
  BY <1>1, <1>3
<1>5. n \in E /\ E \ {n} = D /\ e[n] = p.amount_sd
  BY <1>1, <1>3
<1>6. PICK g : IsSum(g, f, D) /\ UnitsOut(o) = g[D]
  BY <1>2, <1>3, UnitsOutIsSum
<1>7. PICK h : IsSum(h, e, E) /\ UnitsOut(l) = h[E]
  <2>1. \A i \in DOMAIN l : l[i].amount_sd \in Int
    BY <1>3
  <2> HIDE DEF l
  <2> QED BY <1>2, <2>1, UnitsOutIsSum
<1> HIDE DEF D, E, e, f, n, l
<1>8. g[D] \in Int /\ h[E] = g[D] + e[n]
  BY <1>2, <1>4, <1>5, <1>6, <1>7, SumAdd
<1> QED BY <1>5, <1>6, <1>7, <1>8 DEF l

LEMMA UnitsEmpty == UnitsOut(<<>>) = 0 /\ UnitsIn({}) = 0
<1>1. IsFiniteSet({}) /\ DOMAIN <<>> = {}
  BY FS_EmptySet
<1>2. UnitsIn({}) = 0
  <2>1. PICK g : IsSum(g, [p \in {} |-> p.amount_sd], {}) /\ UnitsIn({}) = g[{}]
    BY <1>1, UnitsInIsSum
  <2> QED BY <2>1 DEF IsSum
<1>3. UnitsOut(<<>>) = 0
  <2> DEFINE o == <<>>
  <2>1. IsFiniteSet(DOMAIN o) /\ \A i \in DOMAIN o : o[i].amount_sd \in Int
    BY <1>1
  <2> HIDE DEF o
  <2>2. PICK g : IsSum(g, [i \in DOMAIN o |-> o[i].amount_sd], DOMAIN o) /\ UnitsOut(o) = g[DOMAIN o]
    BY <2>1, UnitsOutIsSum
  <2> QED BY <1>1, <2>2 DEF IsSum, o
<1> QED BY <1>2, <1>3

-----------------------------------------------------------------------------
(* The limiters on the path of a transfer stay limiters.                   *)

LEMMA RefillType ==
  ASSUME NEW l \in Limiter, NEW t \in Nat, NEW extra \in Nat
  PROVE  Refill(l, extra, t) \in Limiter /\ Refill(l, extra, t).tokens \in Nat
<1> DEFINE credit == SaturatingMul(Elapsed(l, t), l.refill_per_second)
           tokens == Least(l.capacity, SaturatingAdd(l.tokens, SaturatingAdd(extra, credit)))
<1>1. /\ MaxU64 \in Nat /\ l.capacity \in Nat /\ l.capacity <= MaxU64
      /\ l.tokens \in Nat /\ l.refill_per_second \in Nat /\ l.last_refill_time \in Nat
  BY U64Assumption DEF Limiter, Amount
<1>2. Elapsed(l, t) \in Nat
  BY <1>1 DEF Elapsed
<1>3. Elapsed(l, t) * l.refill_per_second \in Nat
  BY <1>1, <1>2
<1>4. credit \in Nat
  BY <1>1, <1>3 DEF SaturatingMul, Least
<1>5. Refill(l, extra, t) = [l EXCEPT !.tokens = tokens, !.last_refill_time = t]
  BY DEF Refill
<1> HIDE DEF credit
<1>6. tokens \in Nat /\ tokens <= l.capacity
  BY <1>1, <1>4 DEF SaturatingAdd, Least
<1> HIDE DEF tokens
<1>7. tokens \in Amount
  BY <1>1, <1>6 DEF Amount
<1> QED
  BY <1>5, <1>6, <1>7 DEF Limiter

LEMMA AfterConsumeType ==
  ASSUME NEW l \in Limiter \cup {None}, NEW t \in Nat, NEW amount \in Nat,
         Admits(l, amount, t)
  PROVE  AfterConsume(l, amount, t) \in Limiter \cup {None}
<1>1. CASE l = None
  BY <1>1 DEF AfterConsume
<1>2. CASE l # None
  <2> DEFINE r == Refill(l, 0, t)
  <2>1. r \in Limiter /\ r.tokens \in Nat
    BY <1>2, RefillType
  <2>2. amount <= r.tokens
    BY <1>2 DEF Admits, CanConsume
  <2>3. AfterConsume(l, amount, t) = [r EXCEPT !.tokens = r.tokens - amount]
    BY <1>2 DEF AfterConsume, Consume
  <2> HIDE DEF r
  <2>4. r.tokens - amount \in Amount
    BY <2>1, <2>2, U64Assumption DEF Limiter, Amount
  <2> QED
    BY <2>1, <2>3, <2>4 DEF Limiter
<1> QED
  BY <1>1, <1>2

LEMMA AfterRefillType ==
  ASSUME NEW l \in Limiter \cup {None}, NEW t \in Nat, NEW amount \in Nat
  PROVE  AfterRefill(l, amount, t) \in Limiter \cup {None}
  BY RefillType DEF AfterRefill

LEMMA UpdateLimiterType ==
  ASSUME NEW l \in Limiter \cup {None}, NEW t \in Nat,
         NEW params \in RateLimitParams \cup {None}
  PROVE  UpdateLimiter(l, params, t) \in Limiter \cup {None}
<1> DEFINE base == IF l = None THEN DefaultLimiter ELSE l
           sized == IF params.capacity = None THEN base
                    ELSE SetCapacity(base, params.capacity, t)
           rated == SetRate(sized, params.refill_per_second, t)
<1>1. CASE params = None
  BY <1>1 DEF UpdateLimiter
<1>2. CASE params # None
  <2>1. /\ params.capacity \in Amount \cup {None}
        /\ params.refill_per_second \in Amount \cup {None}
    BY <1>2 DEF RateLimitParams
  <2>2. 0 \in Amount
    BY U64Assumption DEF Amount
  <2>3. base \in Limiter
    BY <2>2 DEF DefaultLimiter, Limiter
  <2> HIDE DEF base
  <2>4. sized \in Limiter
    BY <2>1, <2>3 DEF SetCapacity, Limiter
  <2> HIDE DEF sized
  <2>5. Refill(sized, 0, t) \in Limiter
    BY <2>4, RefillType
  <2>6. params.refill_per_second # None => rated \in Limiter
    BY <2>1, <2>5 DEF SetRate, Limiter
  <2>7. UpdateLimiter(l, params, t) =
          IF params.refill_per_second = None THEN sized ELSE rated
    BY <1>2 DEF UpdateLimiter, base, sized
  <2> QED
    BY <2>4, <2>6, <2>7
<1> QED
  BY <1>1, <1>2

-----------------------------------------------------------------------------
(***************************************************************************)
(* The inductive invariant.  Before init_oft nothing was bridged; after it *)
(* the two equations of the ledger hold.  The sets of packets are finite,  *)
(* so the next nonce is a number.                                          *)
(***************************************************************************)
Blank == ~Exists => /\ supply = InitialSupply /\ escrow = 0 /\ tvl_ld = 0
                    /\ remote_sd = 0 /\ fees_ld = 0 /\ paused = FALSE

FinitePackets == IsFiniteSet(verified) /\ IsFiniteSet(delivered)

IInv == /\ TypeOK /\ FinitePackets
        /\ Blank /\ EscrowHoldsTvlAndFees /\ RemoteIsBacked

USE DEF Exists

LEMMA IInvInit == Init => IInv
<1> SUFFICES ASSUME Init
             PROVE  IInv
  OBVIOUS
<1>0. 0 \in Amount /\ 1 \in Amount \ {0} /\ 0 \in Bps
  BY U64Assumption, OFTMathAssumption DEF Amount, Bps
<1>1. TokensTyped
  BY <1>0, OFTAssumption DEF Init, TokensTyped
<1>2. StoreTyped
  BY <1>0 DEF Init, StoreTyped
<1>3. PeersTyped
  BY DEF Init, PeersTyped
<1>4. MessagesTyped
  BY DEF Init, MessagesTyped
<1>5. FinitePackets
  BY FS_EmptySet DEF Init, FinitePackets
<1>6. now \in Nat /\ remote_sd \in Int /\ fees_ld \in Int
  BY DEF Init
<1>7. Blank /\ EscrowHoldsTvlAndFees /\ RemoteIsBacked
  BY DEF Init, Blank, EscrowHoldsTvlAndFees, RemoteIsBacked
<1> QED
  BY <1>1, <1>2, <1>3, <1>4, <1>5, <1>6, <1>7 DEF IInv, TypeOK

-----------------------------------------------------------------------------
(* One lemma for each instruction.  The ledger is left alone by the        *)
(* settings and by the executor's planning.                                *)

LedgerVars == <<oft_type, ld2sd_rate, tvl_ld, supply, escrow, historyVars>>

LEMMA LedgerKept ==
  ASSUME IInv, UNCHANGED LedgerVars, Exists
  PROVE  Blank' /\ EscrowHoldsTvlAndFees' /\ RemoteIsBacked'
  BY DEF IInv, LedgerVars, historyVars, Blank, EscrowHoldsTvlAndFees, RemoteIsBacked

LEMMA InitOFTStep ==
  ASSUME IInv, NEW t \in OFTTypes, NEW d \in SharedDecimals, NEW k \in Keys,
         InitOFT(t, d, k)
  PROVE  IInv'
<1> USE DEF InitOFT, tokenVars, mintVars, messageVars, historyVars
<1>1. 0 \in Amount /\ 0 \in Bps
  BY U64Assumption, OFTMathAssumption DEF Amount, Bps
<1>2. /\ t \in {"Native", "Adapter"} /\ t # None
      /\ Radix ^ (MintDecimals - d) # 0
  BY OFTAssumption
<1>3. TokensTyped' /\ PeersTyped' /\ MessagesTyped' /\ FinitePackets'
  BY DEF IInv, TypeOK, TokensTyped, PeersTyped, MessagesTyped, FinitePackets
<1>4. StoreTyped'
  BY <1>1, <1>2 DEF StoreTyped
<1>5. now' \in Nat /\ remote_sd' \in Int /\ fees_ld' \in Int
  BY DEF IInv, TypeOK
<1>6. /\ supply = InitialSupply /\ escrow = 0 /\ remote_sd = 0 /\ fees_ld = 0
  BY DEF IInv, Blank
<1>7. Sd2Ld(ld2sd_rate', 0) = 0
  BY <1>4, U64Assumption DEF StoreTyped, Sd2Ld, Amount
<1>8. InitialSupply \in Nat
  BY OFTAssumption, U64Assumption DEF Amount
<1>9. Blank' /\ EscrowHoldsTvlAndFees' /\ RemoteIsBacked'
  BY <1>2, <1>6, <1>7, <1>8 DEF Blank, EscrowHoldsTvlAndFees, RemoteIsBacked
<1> QED
  BY <1>3, <1>4, <1>5, <1>9 DEF IInv, TypeOK

\* The settings of the store and the pause: a key, a fee or a flag changes.
SettingOfStore(signer) ==
  \/ \E k \in NewKeys \ {None} : SetAdmin(signer, k) \/ SetDelegate(signer, k)
  \/ \E k \in NewKeys : SetPauser(signer, k) \/ SetUnpauser(signer, k)
  \/ \E bps \in DefaultFees : SetDefaultFee(signer, bps)
  \/ \E p \in Pauses : SetPausedByAdmin(signer, p) \/ SetPause(signer, p)

LEMMA SettingOfStoreStep ==
  ASSUME IInv, NEW signer \in Keys, SettingOfStore(signer)
  PROVE  IInv'
<1>1. /\ UNCHANGED <<now, tokenVars, mintVars, kindVars, tvl_ld, peers, messageVars,
                     historyVars>>
      /\ Exists
  BY DEF SettingOfStore, SetAdmin, SetDelegate, SetPauser, SetUnpauser, SetDefaultFee,
         SetPausedByAdmin, SetPause, roleVars, configVars
<1>2. TokensTyped' /\ PeersTyped' /\ MessagesTyped' /\ FinitePackets'
  BY <1>1 DEF IInv, TypeOK, TokensTyped, PeersTyped, MessagesTyped, FinitePackets,
              tokenVars, mintVars, messageVars
<1>3. StoreTyped'
  <2>1. NewKeys \subseteq Keys \cup {None} /\ Pauses \subseteq BOOLEAN /\ DefaultFees \subseteq Nat
    BY OFTAssumption
  <2>2. StoreTyped
    BY DEF IInv, TypeOK
  <2>3. OneInBasisPoints \in Nat
    BY OFTMathAssumption
  <2>4. ASSUME NEW bps \in DefaultFees, SetDefaultFee(signer, bps)
        PROVE  StoreTyped'
    BY <1>1, <2>1, <2>2, <2>3, <2>4 DEF SetDefaultFee, StoreTyped, Bps, kindVars, roleVars
  <2>5. CASE \E k \in NewKeys \ {None} : SetAdmin(signer, k) \/ SetDelegate(signer, k)
    BY <1>1, <2>1, <2>2, <2>5 DEF SetAdmin, SetDelegate, StoreTyped, kindVars, configVars
  <2>6. CASE \E k \in NewKeys : SetPauser(signer, k) \/ SetUnpauser(signer, k)
    BY <1>1, <2>1, <2>2, <2>6 DEF SetPauser, SetUnpauser, StoreTyped, kindVars, configVars
  <2>7. CASE \E p \in Pauses : SetPausedByAdmin(signer, p) \/ SetPause(signer, p)
    BY <1>1, <2>1, <2>2, <2>7 DEF SetPausedByAdmin, SetPause, StoreTyped, kindVars, roleVars
  <2> QED
    BY <2>4, <2>5, <2>6, <2>7 DEF SettingOfStore
<1>4. Blank' /\ EscrowHoldsTvlAndFees' /\ RemoteIsBacked'
  BY <1>1, LedgerKept DEF LedgerVars, kindVars, tokenVars
<1> QED
  BY <1>1, <1>2, <1>3, <1>4 DEF IInv, TypeOK, historyVars

\* The settings of a peer.
SettingOfPeer(signer) ==
  \/ \E eid \in Eids, a \in RemoteOFTs : SetPeerAddress(signer, eid, a)
  \/ \E eid \in Eids, bps \in PeerFees : SetPeerFee(signer, eid, bps)
  \/ \E eid \in Eids, l \in RateLimits :
       SetOutboundRateLimit(signer, eid, l) \/ SetInboundRateLimit(signer, eid, l)

LEMMA PeerOrNewType ==
  ASSUME PeersTyped, NEW eid \in Eids
  PROVE  PeerOrNew(eid) \in PeerConfig
<1>1. DefaultPeer \in PeerConfig
  BY DEF DefaultPeer, PeerConfig
<1> QED
  BY <1>1 DEF PeersTyped, PeerOrNew

LEMMA SetPeerStep ==
  ASSUME IInv, NEW signer, NEW eid \in Eids, NEW peer \in PeerConfig,
         SetPeer(signer, eid, peer)
  PROVE  IInv'
<1> USE DEF SetPeer, tokenVars, mintVars, kindVars, roleVars, configVars, messageVars,
            historyVars
<1>1. TokensTyped' /\ StoreTyped' /\ MessagesTyped' /\ FinitePackets'
  BY DEF IInv, TypeOK, TokensTyped, StoreTyped, MessagesTyped, FinitePackets
<1>2. PeersTyped'
  BY DEF IInv, TypeOK, PeersTyped
<1>3. Blank' /\ EscrowHoldsTvlAndFees' /\ RemoteIsBacked'
  BY LedgerKept DEF LedgerVars
<1> QED
  BY <1>1, <1>2, <1>3 DEF IInv, TypeOK

LEMMA SettingOfPeerStep ==
  ASSUME IInv, NEW signer \in Keys, SettingOfPeer(signer)
  PROVE  IInv'
<1>1. PeersTyped /\ now \in Nat
  BY DEF IInv, TypeOK
<1>2. ASSUME NEW eid \in Eids, NEW a \in RemoteOFTs, SetPeerAddress(signer, eid, a)
      PROVE  IInv'
  <2>1. [PeerOrNew(eid) EXCEPT !.peer_address = a] \in PeerConfig
    BY <1>1, PeerOrNewType DEF PeerConfig
  <2> QED
    BY <1>2, <2>1, SetPeerStep DEF SetPeerAddress
<1>3. ASSUME NEW eid \in Eids, NEW bps \in PeerFees, SetPeerFee(signer, eid, bps)
      PROVE  IInv'
  <2>1. bps \in Bps \cup {None}
    BY <1>3, OFTAssumption, OFTMathAssumption DEF SetPeerFee, Bps
  <2>2. [PeerOrNew(eid) EXCEPT !.fee_bps = bps] \in PeerConfig
    BY <1>1, <2>1, PeerOrNewType DEF PeerConfig
  <2> QED
    BY <1>3, <2>2, SetPeerStep DEF SetPeerFee
<1>4. ASSUME NEW eid \in Eids, NEW l \in RateLimits, SetOutboundRateLimit(signer, eid, l)
      PROVE  IInv'
  <2> DEFINE p == PeerOrNew(eid)
             u == UpdateLimiter(p.outbound_rate_limiter, l, now)
  <2>1. p \in PeerConfig
    BY <1>1, PeerOrNewType
  <2>2. u \in Limiter \cup {None}
    BY <1>1, <2>1, OFTAssumption, UpdateLimiterType DEF PeerConfig
  <2>3. SetPeer(signer, eid, [p EXCEPT !.outbound_rate_limiter = u])
    BY <1>4 DEF SetOutboundRateLimit
  <2> HIDE DEF p, u
  <2>4. [p EXCEPT !.outbound_rate_limiter = u] \in PeerConfig
    BY <2>1, <2>2 DEF PeerConfig
  <2> QED
    BY <2>3, <2>4, SetPeerStep
<1>5. ASSUME NEW eid \in Eids, NEW l \in RateLimits, SetInboundRateLimit(signer, eid, l)
      PROVE  IInv'
  <2> DEFINE p == PeerOrNew(eid)
             u == UpdateLimiter(p.inbound_rate_limiter, l, now)
  <2>1. p \in PeerConfig
    BY <1>1, PeerOrNewType
  <2>2. u \in Limiter \cup {None}
    BY <1>1, <2>1, OFTAssumption, UpdateLimiterType DEF PeerConfig
  <2>3. SetPeer(signer, eid, [p EXCEPT !.inbound_rate_limiter = u])
    BY <1>5 DEF SetInboundRateLimit
  <2> HIDE DEF p, u
  <2>4. [p EXCEPT !.inbound_rate_limiter = u] \in PeerConfig
    BY <2>1, <2>2 DEF PeerConfig
  <2> QED
    BY <2>3, <2>4, SetPeerStep
<1> QED
  BY <1>2, <1>3, <1>4, <1>5 DEF SettingOfPeer

-----------------------------------------------------------------------------
(* What happens around the program.                                        *)

LEMMA AmountType ==
  ASSUME NEW a \in Amount
  PROVE  a \in Nat /\ a <= MaxU64 /\ \A b \in Nat : b <= a => b \in Amount
  BY U64Assumption DEF Amount

LEMMA ArrivesType ==
  ASSUME TokensTyped, NEW a \in Nat
  PROVE  /\ Arrives(a) \in Nat /\ Arrives(a) <= a
         /\ WithheldOf(a) \in Nat
  BY PostFeeType DEF TokensTyped, Arrives, WithheldOf

LEMMA WithdrawFeeStep ==
  ASSUME IInv, NEW signer \in Keys, NEW w \in Wallets, NEW fee_ld \in Withdrawals,
         WithdrawFee(signer, w, fee_ld)
  PROVE  IInv'
<1> USE DEF WithdrawFee, mintVars, kindVars, roleVars, configVars, messageVars
<1>1. fee_ld \in Nat
  BY OFTAssumption, AmountType
<1>2. TokensTyped /\ StoreTyped /\ EscrowHoldsTvlAndFees /\ fees_ld \in Int
  BY DEF IInv, TypeOK
<1>3. escrow \in Nat /\ tvl_ld \in Nat /\ withheld \in Nat
  BY <1>2, AmountType DEF TokensTyped, StoreTyped
<1>4. WithheldOf(fee_ld) \in Nat
  BY <1>1, <1>2, ArrivesType
<1>5. fee_ld <= fees_ld /\ fee_ld <= escrow
  BY <1>1, <1>2, <1>3 DEF Withdrawable, EscrowHoldsTvlAndFees
<1>6. escrow' \in Amount /\ withheld' \in Nat
  BY <1>1, <1>2, <1>3, <1>4, <1>5, AmountType DEF TokensTyped
<1>7. TokensTyped'
  BY <1>2, <1>6 DEF TokensTyped
<1>8. StoreTyped' /\ PeersTyped' /\ MessagesTyped' /\ FinitePackets'
  BY DEF IInv, TypeOK, StoreTyped, PeersTyped, MessagesTyped, FinitePackets
<1>9. EscrowHoldsTvlAndFees'
  BY <1>1, <1>2, <1>3, <1>5 DEF EscrowHoldsTvlAndFees
<1>10. Blank' /\ RemoteIsBacked'
  BY DEF IInv, Blank, RemoteIsBacked
<1>11. now' \in Nat /\ remote_sd' \in Int /\ fees_ld' \in Int
  BY <1>1, <1>2 DEF IInv, TypeOK
<1> QED
  BY <1>7, <1>8, <1>9, <1>10, <1>11 DEF IInv, TypeOK

LEMMA DonateStep ==
  ASSUME IInv, NEW w \in Wallets, NEW a \in Donations, Donate(w, a)
  PROVE  IInv'
<1> USE DEF Donate, mintVars, kindVars, roleVars, configVars, messageVars
<1>1. a \in Nat
  BY OFTAssumption, AmountType
<1>2. TokensTyped /\ StoreTyped /\ EscrowHoldsTvlAndFees /\ fees_ld \in Int
  BY DEF IInv, TypeOK
<1>3. /\ escrow \in Nat /\ tvl_ld \in Nat /\ withheld \in Nat
      /\ balance[w] \in Amount /\ balance[w] \in Nat
  BY <1>2, AmountType DEF TokensTyped, StoreTyped
<1>4. Arrives(a) \in Nat /\ WithheldOf(a) \in Nat
  BY <1>1, <1>2, ArrivesType
<1>5. balance[w] - a \in Amount /\ withheld' \in Nat
  BY <1>1, <1>3, <1>4, AmountType
<1>6. TokensTyped'
  BY <1>2, <1>5 DEF TokensTyped
<1>7. StoreTyped' /\ PeersTyped' /\ MessagesTyped' /\ FinitePackets'
  BY DEF IInv, TypeOK, StoreTyped, PeersTyped, MessagesTyped, FinitePackets
<1>8. EscrowHoldsTvlAndFees'
  BY <1>2, <1>3, <1>4 DEF EscrowHoldsTvlAndFees
<1>9. Blank' /\ RemoteIsBacked'
  BY DEF IInv, Blank, RemoteIsBacked
<1>10. now' \in Nat /\ remote_sd' \in Int /\ fees_ld' \in Int
  BY <1>2, <1>4 DEF IInv, TypeOK
<1> QED
  BY <1>6, <1>7, <1>8, <1>9, <1>10 DEF IInv, TypeOK

\* Steps of the clock and of the mint's owner leave the ledger alone.
LEMMA ClockAndMintStep ==
  ASSUME IInv,
         \/ Tick
         \/ \E fee \in TransferFees : NewEpoch(fee)
         \/ \E a \in NewAuthorities : SetMintAuthority(a)
  PROVE  IInv'
<1>1. /\ UNCHANGED <<tokenVars, kindVars, tvl_ld, roleVars, configVars, peers,
                     messageVars, historyVars>>
      /\ now' \in Nat
      /\ mint_authority' \in Authorities \cup {None}
      /\ transfer_fee' \in TransferFee \cup {None}
  <2>1. /\ now \in Nat /\ mint_authority \in Authorities \cup {None}
        /\ transfer_fee \in TransferFee \cup {None}
    BY DEF IInv, TypeOK, TokensTyped
  <2>2. CASE Tick
    BY <2>1, <2>2 DEF Tick, mintVars
  <2>3. CASE \E fee \in TransferFees : NewEpoch(fee)
    BY <2>1, <2>3, OFTAssumption DEF NewEpoch
  <2>4. CASE \E a \in NewAuthorities : SetMintAuthority(a)
    BY <2>1, <2>4, OFTAssumption DEF SetMintAuthority
  <2> QED
    BY <2>2, <2>3, <2>4
<1>2. TokensTyped' /\ StoreTyped' /\ PeersTyped' /\ MessagesTyped' /\ FinitePackets'
  BY <1>1 DEF IInv, TypeOK, TokensTyped, StoreTyped, PeersTyped, MessagesTyped,
              FinitePackets, tokenVars, kindVars, roleVars, configVars, messageVars
<1>3. Blank' /\ EscrowHoldsTvlAndFees' /\ RemoteIsBacked'
  BY <1>1 DEF IInv, Blank, EscrowHoldsTvlAndFees, RemoteIsBacked, tokenVars, kindVars,
              configVars, historyVars
<1> QED
  BY <1>1, <1>2, <1>3 DEF IInv, TypeOK, historyVars

LEMMA StutterStep ==
  ASSUME IInv, UNCHANGED vars
  PROVE  IInv'
  BY DEF IInv, TypeOK, TokensTyped, StoreTyped, PeersTyped, MessagesTyped, FinitePackets,
         Blank, EscrowHoldsTvlAndFees, RemoteIsBacked, vars, tokenVars, mintVars, kindVars,
         roleVars, configVars, messageVars, historyVars

LEMMA VerifyStep ==
  ASSUME IInv, NEW eid \in Eids, NEW s \in RemoteOFTs, NEW w \in Wallets,
         NEW a \in RemoteAmounts, NEW c \in ComposeChoices, Verify(eid, s, w, a, c)
  PROVE  IInv'
<1> DEFINE known == {p \in verified \cup delivered : p.src_eid = eid /\ p.sender = s}
           packet == [src_eid |-> eid, nonce |-> Cardinality(known) + 1, sender |-> s,
                      to |-> w, amount_sd |-> a, compose |-> c]
<1>1. /\ verified' = verified \cup {packet}
      /\ UNCHANGED <<now, tokenVars, mintVars, kindVars, tvl_ld, roleVars, configVars,
                     peers, outbox, delivered, composed, plans, historyVars>>
      /\ Exists
  BY DEF Verify
<1>2. Cardinality(known) \in Nat
  <2>1. IsFiniteSet(verified \cup delivered)
    BY FS_Union DEF IInv, FinitePackets
  <2>2. IsFiniteSet(known)
    BY <2>1, FS_Subset, known \subseteq verified \cup delivered
  <2> QED
    BY <2>2, FS_CardinalityType
<1>3. packet \in Packet
  <2>1. a \in Amount /\ c \in BOOLEAN
    BY OFTAssumption
  <2> HIDE DEF known
  <2> QED
    BY <1>2, <2>1 DEF Packet
<1> HIDE DEF packet
<1>4. MessagesTyped'
  BY <1>1, <1>3 DEF IInv, TypeOK, MessagesTyped
<1>5. FinitePackets'
  BY <1>1, FS_AddElement DEF IInv, FinitePackets
<1>6. TokensTyped' /\ StoreTyped' /\ PeersTyped'
  BY <1>1 DEF IInv, TypeOK, TokensTyped, StoreTyped, PeersTyped, tokenVars, mintVars,
              kindVars, roleVars, configVars
<1>7. Blank' /\ EscrowHoldsTvlAndFees' /\ RemoteIsBacked'
  BY <1>1, LedgerKept DEF LedgerVars, kindVars, tokenVars
<1> QED
  BY <1>1, <1>4, <1>5, <1>6, <1>7 DEF IInv, TypeOK, historyVars

-----------------------------------------------------------------------------
(* Deliveries.                                                             *)

LEMMA UnitsType ==
  ASSUME StoreTyped, NEW x \in Nat
  PROVE  Sd2Ld(ld2sd_rate, x) \in Nat
  BY AmountType DEF StoreTyped, Sd2Ld

\* A net flow that changes by x units changes its worth by what x units are worth.
LEMMA UnitsAdd ==
  ASSUME NEW rate \in Nat, NEW r \in Int, NEW x \in Int
  PROVE  /\ Sd2Ld(rate, r + x) = Sd2Ld(rate, r) + Sd2Ld(rate, x)
         /\ Sd2Ld(rate, r - x) = Sd2Ld(rate, r) - Sd2Ld(rate, x)
         /\ Sd2Ld(rate, r) \in Int /\ Sd2Ld(rate, x) \in Int
  BY DEF Sd2Ld

LEMMA LzReceiveTypesStep ==
  ASSUME IInv, NEW packet \in verified, LzReceiveTypes(packet)
  PROVE  IInv'
<1> DEFINE plan == [packet |-> packet, mint_authority |-> mint_authority,
                    compose_ld |-> IF packet.compose THEN CreditOf(packet) ELSE None]
           worth == Sd2Ld(ld2sd_rate, packet.amount_sd)
<1>1. /\ plans' = {p \in plans : p.packet # packet} \cup {plan}
      /\ UNCHANGED <<now, tokenVars, mintVars, kindVars, tvl_ld, roleVars, configVars,
                     peers, outbox, verified, delivered, composed, historyVars>>
      /\ Exists
      /\ packet.compose => worth \in Amount
  BY DEF LzReceiveTypes
<1>2. plan \in Plan
  <2>1. TokensTyped /\ StoreTyped /\ packet \in Packet
    BY DEF IInv, TypeOK, MessagesTyped
  <2>2. ASSUME packet.compose
        PROVE  CreditOf(packet) \in Amount
    <3>1. worth \in Amount /\ worth \in Nat
      BY <1>1, <2>2, AmountType
    <3> HIDE DEF worth
    <3>2. Arrives(worth) \in Amount
      BY <2>1, <3>1, ArrivesType, AmountType
    <3> QED
      BY <3>1, <3>2 DEF CreditOf, worth
  <2>3. mint_authority \in Authorities \cup {None}
    BY <2>1 DEF TokensTyped
  <2> QED
    BY <2>1, <2>2, <2>3 DEF Plan
<1> HIDE DEF plan
<1>3. MessagesTyped'
  BY <1>1, <1>2 DEF IInv, TypeOK, MessagesTyped
<1>4. TokensTyped' /\ StoreTyped' /\ PeersTyped' /\ FinitePackets'
  BY <1>1 DEF IInv, TypeOK, TokensTyped, StoreTyped, PeersTyped, FinitePackets, tokenVars,
              mintVars, kindVars, roleVars, configVars
<1>5. Blank' /\ EscrowHoldsTvlAndFees' /\ RemoteIsBacked'
  BY <1>1, LedgerKept DEF LedgerVars, kindVars, tokenVars
<1> QED
  BY <1>1, <1>3, <1>4, <1>5 DEF IInv, TypeOK, historyVars

\* The unlock of an Adapter and the mint of a Native OFT keep the ledger.
LEMMA CreditKeepsLedger ==
  ASSUME IInv, Exists, NEW packet \in Packet, NEW authority,
         UNCHANGED <<kindVars, mintVars, paused, fees_ld>>,
         Sd2Ld(ld2sd_rate, packet.amount_sd) \in Amount,
         remote_sd' = remote_sd - packet.amount_sd,
         \/ oft_type = "Adapter" /\ CreditAdapter(packet, Sd2Ld(ld2sd_rate, packet.amount_sd))
         \/ /\ oft_type = "Native"
            /\ CreditNative(packet, Sd2Ld(ld2sd_rate, packet.amount_sd), authority)
  PROVE  /\ TokensTyped' /\ tvl_ld' \in Amount
         /\ Blank' /\ EscrowHoldsTvlAndFees' /\ RemoteIsBacked'
<1> DEFINE x == Sd2Ld(ld2sd_rate, packet.amount_sd)
<1>1. /\ TokensTyped /\ StoreTyped /\ EscrowHoldsTvlAndFees /\ RemoteIsBacked
      /\ fees_ld \in Int /\ remote_sd \in Int
  BY DEF IInv, TypeOK
<1>2. /\ escrow \in Nat /\ tvl_ld \in Nat /\ supply \in Nat /\ withheld \in Nat
      /\ ld2sd_rate \in Nat /\ packet.amount_sd \in Nat /\ packet.to \in Wallets
      /\ x \in Nat /\ x \in Amount /\ InitialSupply \in Nat
  BY <1>1, AmountType, OFTAssumption DEF TokensTyped, StoreTyped, Packet
<1>3. Sd2Ld(ld2sd_rate', remote_sd') = Sd2Ld(ld2sd_rate, remote_sd) - x
  <2> DEFINE a == packet.amount_sd
  <2>1. a \in Int /\ remote_sd \in Int /\ ld2sd_rate \in Nat
    BY <1>1, <1>2
  <2> HIDE DEF a
  <2>2. Sd2Ld(ld2sd_rate, remote_sd - a) = Sd2Ld(ld2sd_rate, remote_sd) - Sd2Ld(ld2sd_rate, a)
    BY <2>1, UnitsAdd
  <2>3. ld2sd_rate' = ld2sd_rate
    BY DEF kindVars
  <2> QED
    BY <2>2, <2>3 DEF a
<1>4. Sd2Ld(ld2sd_rate, remote_sd) \in Int
  BY <1>1, <1>2, UnitsAdd
<1>5. oft_type' = oft_type /\ oft_type # None /\ fees_ld' = fees_ld
  BY DEF kindVars
<1>6. CASE oft_type = "Adapter" /\ CreditAdapter(packet, x)
  <2> HIDE DEF x
  <2>1. /\ tvl_ld' = tvl_ld - x /\ tvl_ld >= x
        /\ escrow' = escrow - x /\ escrow >= x
        /\ supply' = supply
    BY <1>6 DEF CreditAdapter
  <2>2. /\ balance[packet.to] + Arrives(x) \in Amount
        /\ balance' = [balance EXCEPT ![packet.to] = @ + Arrives(x)]
        /\ withheld' = withheld + WithheldOf(x)
    BY <1>6 DEF CreditAdapter
  <2>3. tvl_ld' \in Amount /\ escrow' \in Amount /\ withheld' \in Nat
    BY <1>1, <1>2, <2>1, <2>2, AmountType, ArrivesType DEF TokensTyped, StoreTyped
  <2>4. TokensTyped'
    BY <1>1, <2>1, <2>2, <2>3 DEF TokensTyped, mintVars
  <2>5. EscrowHoldsTvlAndFees'
    BY <1>1, <1>2, <1>5, <2>1 DEF EscrowHoldsTvlAndFees
  <2>6. RemoteIsBacked'
    BY <1>1, <1>2, <1>3, <1>4, <1>5, <1>6, <2>1 DEF RemoteIsBacked
  <2> QED
    BY <1>1, <1>5, <2>3, <2>4, <2>5, <2>6 DEF Blank
<1>7. CASE oft_type = "Native" /\ CreditNative(packet, x, authority)
  <2> HIDE DEF x
  <2>1. /\ supply' = supply + x /\ supply' \in Amount
        /\ tvl_ld' = tvl_ld /\ escrow' = escrow /\ withheld' = withheld
    BY <1>7 DEF CreditNative
  <2>2. /\ balance[packet.to] + x \in Amount
        /\ balance' = [balance EXCEPT ![packet.to] = @ + x]
    BY <1>7 DEF CreditNative
  <2>3. TokensTyped'
    BY <1>1, <2>1, <2>2 DEF TokensTyped, mintVars
  <2>4. EscrowHoldsTvlAndFees'
    BY <1>1, <1>2, <1>5, <2>1 DEF EscrowHoldsTvlAndFees
  <2>5. RemoteIsBacked'
    BY <1>1, <1>2, <1>3, <1>4, <1>5, <1>7, <2>1 DEF RemoteIsBacked
  <2> QED
    BY <1>1, <1>5, <2>1, <2>3, <2>4, <2>5 DEF Blank, StoreTyped
<1> QED
  BY <1>6, <1>7

LEMMA LzReceiveStep ==
  ASSUME IInv, NEW plan \in plans, LzReceive(plan)
  PROVE  IInv'
<1> DEFINE packet == plan.packet
           eid == packet.src_eid
           x == Sd2Ld(ld2sd_rate, packet.amount_sd)
           peer == peers[eid]
           credit == [packet |-> packet, amount_ld |-> CreditOf(packet)]
<1>1. packet \in Packet /\ eid \in Eids
  BY DEF IInv, TypeOK, MessagesTyped, Plan, Packet
<1>2. /\ TokensTyped /\ StoreTyped /\ PeersTyped /\ MessagesTyped /\ FinitePackets
      /\ now \in Nat /\ remote_sd \in Int /\ fees_ld \in Int
  BY DEF IInv, TypeOK
<1>3. /\ Exists /\ peer # None
      /\ packet \in verified
      /\ verified' = verified \ {packet} /\ delivered' = delivered \cup {packet}
      /\ x \in Amount
      /\ Admits(peer.inbound_rate_limiter, x, now)
      /\ peers' = [peers EXCEPT ![eid] =
           [peer EXCEPT !.inbound_rate_limiter = AfterConsume(@, x, now),
                        !.outbound_rate_limiter = AfterRefill(@, x, now)]]
      /\ composed' = composed \/ (packet.compose /\ composed' = composed \cup {credit})
      /\ remote_sd' = remote_sd - packet.amount_sd
      /\ UNCHANGED <<now, mintVars, kindVars, roleVars, configVars, outbox, plans, fees_ld>>
  BY DEF LzReceive, Open, ClearedOf
<1>4. \/ oft_type = "Adapter" /\ CreditAdapter(packet, x)
      \/ oft_type = "Native" /\ CreditNative(packet, x, plan.mint_authority)
  BY DEF LzReceive
<1>5. /\ TokensTyped' /\ tvl_ld' \in Amount
      /\ Blank' /\ EscrowHoldsTvlAndFees' /\ RemoteIsBacked'
  BY <1>1, <1>3, <1>4, CreditKeepsLedger DEF configVars
<1>6. x \in Nat /\ Arrives(x) \in Nat /\ Arrives(x) <= x
  BY <1>2, <1>3, AmountType, ArrivesType
<1>7. credit \in ComposeMsg
  <2> HIDE DEF x
  <2>1. Arrives(x) \in Amount
    BY <1>3, <1>6, AmountType
  <2>2. CreditOf(packet) \in Amount
    BY <1>3, <2>1 DEF CreditOf, x
  <2> QED
    BY <1>1, <2>2 DEF ComposeMsg
<1>8. PeersTyped'
  <2> DEFINE in == AfterConsume(peer.inbound_rate_limiter, x, now)
             out == AfterRefill(peer.outbound_rate_limiter, x, now)
  <2>1. peer \in PeerConfig
    BY <1>1, <1>2, <1>3 DEF PeersTyped
  <2>2. in \in Limiter \cup {None} /\ out \in Limiter \cup {None}
    BY <1>2, <1>3, <1>6, <2>1, AfterConsumeType, AfterRefillType DEF PeerConfig
  <2>3. peers' = [peers EXCEPT ![eid] = [peer EXCEPT !.inbound_rate_limiter = in,
                                                     !.outbound_rate_limiter = out]]
    BY <1>3
  <2> HIDE DEF in, out, peer
  <2>4. [peer EXCEPT !.inbound_rate_limiter = in, !.outbound_rate_limiter = out] \in PeerConfig
    BY <2>1, <2>2 DEF PeerConfig
  <2> QED
    BY <1>1, <1>2, <2>3, <2>4 DEF PeersTyped
<1> HIDE DEF packet, x, peer, credit
<1>9. StoreTyped'
  BY <1>2, <1>3, <1>5 DEF StoreTyped, kindVars, roleVars, configVars
<1>10. MessagesTyped'
  BY <1>1, <1>2, <1>3, <1>7 DEF MessagesTyped
<1>11. FinitePackets'
  BY <1>2, <1>3, FS_AddElement, FS_RemoveElement DEF FinitePackets
<1>12. now' \in Nat /\ remote_sd' \in Int /\ fees_ld' \in Int
  BY <1>1, <1>2, <1>3, AmountType DEF Packet
<1> QED
  BY <1>5, <1>8, <1>9, <1>10, <1>11, <1>12 DEF IInv, TypeOK

-----------------------------------------------------------------------------
(* Sends.                                                                  *)

\* The receipt of a send, as a client and a peer's settings determine it.
ReceiptOf(peer, amount_ld) ==
  ComputeFeeAndAdjustAmount(oft_type, ld2sd_rate, transfer_fee,
                            FinalFeeBps(default_fee_bps, peer.fee_bps), amount_ld)

\* ReceiptSound in the state of a send: the receipt is worth whole units, and what
\* is debited arrives as the amount received and the fee.
LEMMA ReceiptOfSound ==
  ASSUME TokensTyped, StoreTyped, NEW peer \in PeerConfig, NEW a \in Amount
  PROVE  LET r == ReceiptOf(peer, a)
         IN  /\ r.sent \in Nat /\ r.received \in Nat /\ r.fee \in Nat
             /\ r.sent <= a /\ r.received <= a
             /\ Ld2Sd(ld2sd_rate, r.received) \in Amount
             /\ Sd2Ld(ld2sd_rate, Ld2Sd(ld2sd_rate, r.received)) = r.received
             /\ oft_type = "Adapter" => Arrives(r.sent) = r.received + r.fee
             /\ oft_type # "Adapter" => r.sent = r.received + r.fee
<1> DEFINE bps == FinalFeeBps(default_fee_bps, peer.fee_bps)
           r == ReceiptOf(peer, a)
<1>1. /\ ld2sd_rate \in Nat \ {0} /\ transfer_fee \in TransferFee \cup {None}
      /\ a \in Nat /\ a <= MaxU64
  BY AmountType DEF TokensTyped, StoreTyped
<1>2. bps \in 0 .. (OneInBasisPoints - 1)
  BY DEF StoreTyped, PeerConfig, FinalFeeBps, Bps
<1>3. r = ComputeFeeAndAdjustAmount(oft_type, ld2sd_rate, transfer_fee, bps, a)
  BY DEF ReceiptOf
<1> HIDE DEF bps, r
<1>4. /\ r.sent \in Nat /\ r.received \in Nat /\ r.fee \in Nat
      /\ r.sent <= a
      /\ Sd2Ld(ld2sd_rate, Ld2Sd(ld2sd_rate, r.received)) = r.received
      /\ oft_type = "Adapter" => PostFeeAmount(transfer_fee, r.sent) = r.received + r.fee
      /\ oft_type # "Adapter" => r.sent = r.received + r.fee
  BY <1>1, <1>2, <1>3, ReceiptSound
<1>5. r.received <= a
  <2>1. PostFeeAmount(transfer_fee, r.sent) <= r.sent
    BY <1>1, <1>4, PostFeeType
  <2> QED
    BY <1>1, <1>4, <2>1
<1>6. Ld2Sd(ld2sd_rate, r.received) \in Amount
  <2> DEFINE n == r.received
             q == Ld2Sd(ld2sd_rate, n)
  <2>1. n \in Nat /\ n <= MaxU64
    BY <1>1, <1>4, <1>5, U64Assumption
  <2> HIDE DEF n
  <2>2. q \in Nat /\ ld2sd_rate * q <= n
    BY <1>1, <2>1, DustRemoved
  <2> HIDE DEF q
  <2>3. q <= n
    BY <1>1, <2>1, <2>2
  <2> QED
    BY <2>1, <2>2, <2>3, U64Assumption DEF Amount, n, q
<1> QED
  BY <1>4, <1>5, <1>6 DEF Arrives, r

\* The debit of an Adapter and the burn of a Native OFT keep the ledger.
LEMMA DebitKeepsLedger ==
  ASSUME IInv, Exists, NEW w \in Wallets, NEW r, NEW sd \in Nat,
         r.sent \in Nat, r.received \in Nat, r.fee \in Nat,
         Sd2Ld(ld2sd_rate, sd) = r.received,
         oft_type = "Adapter" => Arrives(r.sent) = r.received + r.fee,
         oft_type # "Adapter" => r.sent = r.received + r.fee,
         UNCHANGED <<kindVars, mintVars, paused>>,
         remote_sd' = remote_sd + sd,
         \/ oft_type = "Adapter" /\ DebitAdapter(w, r)
         \/ oft_type = "Native" /\ DebitNative(w, r)
  PROVE  /\ TokensTyped' /\ tvl_ld' \in Amount /\ fees_ld' \in Int
         /\ Blank' /\ EscrowHoldsTvlAndFees' /\ RemoteIsBacked'
<1> DEFINE sent == r.sent
           received == r.received
           fee == r.fee
<1>0. sent \in Nat /\ received \in Nat /\ fee \in Nat
  OBVIOUS
<1>1. /\ TokensTyped /\ StoreTyped /\ EscrowHoldsTvlAndFees /\ RemoteIsBacked
      /\ fees_ld \in Int /\ remote_sd \in Int
  BY DEF IInv, TypeOK
<1>2. /\ escrow \in Nat /\ tvl_ld \in Nat /\ supply \in Nat /\ withheld \in Nat
      /\ ld2sd_rate \in Nat /\ InitialSupply \in Nat
      /\ balance[w] \in Amount /\ balance[w] \in Nat
  BY <1>1, AmountType, OFTAssumption DEF TokensTyped, StoreTyped
<1>3. Sd2Ld(ld2sd_rate', remote_sd') = Sd2Ld(ld2sd_rate, remote_sd) + received
  <2>0. ld2sd_rate \in Nat /\ remote_sd \in Int /\ sd \in Int
    BY <1>1, <1>2
  <2>1. Sd2Ld(ld2sd_rate, remote_sd + sd) = Sd2Ld(ld2sd_rate, remote_sd) + Sd2Ld(ld2sd_rate, sd)
    BY <2>0, UnitsAdd
  <2>2. ld2sd_rate' = ld2sd_rate
    BY DEF kindVars
  <2> QED
    BY <2>1, <2>2
<1>4. Sd2Ld(ld2sd_rate, remote_sd) \in Int
  BY <1>1, <1>2, UnitsAdd
<1>5. oft_type' = oft_type /\ oft_type # None
  BY DEF kindVars
<1>6. CASE oft_type = "Adapter" /\ DebitAdapter(w, r)
  <2>0. Arrives(sent) = received + fee
    BY <1>6
  <2>1. /\ tvl_ld' = tvl_ld + received /\ tvl_ld' \in Amount
        /\ escrow' = escrow + Arrives(sent) /\ escrow' \in Amount
        /\ fees_ld' = fees_ld + fee
        /\ supply' = supply
    BY <1>6 DEF DebitAdapter, LockedAmount
  <2>2. /\ balance[w] >= sent
        /\ balance' = [balance EXCEPT ![w] = @ - sent]
        /\ withheld' = withheld + WithheldOf(sent)
    BY <1>6 DEF DebitAdapter
  <2> HIDE DEF sent, received, fee
  <2>3. balance[w] - sent \in Amount /\ withheld' \in Nat
    BY <1>0, <1>1, <1>2, <2>2, AmountType, ArrivesType
  <2>4. TokensTyped'
    BY <1>1, <2>1, <2>2, <2>3 DEF TokensTyped, mintVars
  <2>5. EscrowHoldsTvlAndFees' /\ fees_ld' \in Int
    BY <1>0, <1>1, <1>2, <1>5, <2>0, <2>1 DEF EscrowHoldsTvlAndFees
  <2>6. RemoteIsBacked'
    BY <1>0, <1>1, <1>2, <1>3, <1>4, <1>5, <1>6, <2>1 DEF RemoteIsBacked
  <2> QED
    BY <1>5, <2>1, <2>4, <2>5, <2>6 DEF Blank
<1>7. CASE oft_type = "Native" /\ DebitNative(w, r)
  <2>0. BurnedAmount(r) = received /\ sent = received + fee
    BY <1>0, <1>7 DEF BurnedAmount
  <2>1. /\ supply' = supply - received /\ supply >= received
        /\ escrow' = escrow + Arrives(fee) /\ escrow' \in Amount
        /\ fees_ld' = fees_ld + Arrives(fee)
        /\ tvl_ld' = tvl_ld
    BY <1>7, <2>0 DEF DebitNative
  <2>2. /\ balance[w] >= received + fee
        /\ balance' = [balance EXCEPT ![w] = @ - (received + fee)]
        /\ withheld' = withheld + WithheldOf(fee)
    BY <1>7, <2>0 DEF DebitNative
  <2> HIDE DEF sent, received, fee
  <2>3. /\ balance[w] - (received + fee) \in Amount /\ withheld' \in Nat
        /\ Arrives(fee) \in Nat
        /\ supply - received \in Amount
    BY <1>0, <1>1, <1>2, <2>1, <2>2, AmountType, ArrivesType DEF TokensTyped
  <2>4. TokensTyped'
    BY <1>1, <2>1, <2>2, <2>3 DEF TokensTyped, mintVars
  <2>5. EscrowHoldsTvlAndFees' /\ fees_ld' \in Int
    BY <1>0, <1>1, <1>2, <1>5, <2>1, <2>3 DEF EscrowHoldsTvlAndFees
  <2>6. RemoteIsBacked'
    BY <1>0, <1>1, <1>2, <1>3, <1>4, <1>5, <1>7, <2>1 DEF RemoteIsBacked
  <2> QED
    BY <1>1, <1>5, <2>1, <2>4, <2>5, <2>6 DEF Blank, StoreTyped
<1> QED
  BY <1>6, <1>7

LEMMA SendStep ==
  ASSUME IInv, NEW w \in Wallets, NEW eid \in Eids, NEW a \in SendAmounts,
         NEW m \in MinAmounts, NEW c \in ComposeChoices, Send(w, eid, a, m, c)
  PROVE  IInv'
<1> DEFINE peer == peers[eid]
           r == ReceiptOf(peer, a)
           sd == Ld2Sd(ld2sd_rate, r.received)
           packet == [dst_eid |-> eid, receiver |-> peer.peer_address, amount_sd |-> sd,
                      compose |-> c, from |-> w, asked_ld |-> a, min_ld |-> m]
<1>1. /\ TokensTyped /\ StoreTyped /\ PeersTyped /\ MessagesTyped /\ FinitePackets
      /\ now \in Nat /\ remote_sd \in Int /\ fees_ld \in Int
  BY DEF IInv, TypeOK
<1>2. /\ Exists /\ peer # None
      /\ Admits(peer.outbound_rate_limiter, r.received, now)
      /\ peers' = [peers EXCEPT ![eid] =
           [peer EXCEPT !.outbound_rate_limiter = AfterConsume(@, r.received, now),
                        !.inbound_rate_limiter = AfterRefill(@, r.received, now)]]
      /\ \/ oft_type = "Adapter" /\ DebitAdapter(w, r)
         \/ oft_type = "Native" /\ DebitNative(w, r)
      /\ outbox' = Append(outbox, packet)
      /\ remote_sd' = remote_sd + sd
      /\ UNCHANGED <<now, mintVars, kindVars, roleVars, configVars,
                     verified, delivered, composed, plans>>
  BY DEF Send, Open, ReceiptOf
<1>3. peer \in PeerConfig /\ a \in Amount /\ m \in Amount /\ c \in BOOLEAN
  BY <1>1, <1>2, OFTAssumption DEF PeersTyped
<1>4. /\ r.sent \in Nat /\ r.received \in Nat /\ r.fee \in Nat
      /\ sd \in Amount /\ sd \in Nat
      /\ Sd2Ld(ld2sd_rate, sd) = r.received
      /\ oft_type = "Adapter" => Arrives(r.sent) = r.received + r.fee
      /\ oft_type # "Adapter" => r.sent = r.received + r.fee
  BY <1>1, <1>3, ReceiptOfSound, AmountType
<1> HIDE DEF r
<1>5. /\ TokensTyped' /\ tvl_ld' \in Amount /\ fees_ld' \in Int
      /\ Blank' /\ EscrowHoldsTvlAndFees' /\ RemoteIsBacked'
  <2> HIDE DEF sd
  <2>1. UNCHANGED <<kindVars, mintVars, paused>>
    BY <1>2 DEF configVars
  <2> QED
    BY <1>2, <1>4, <2>1, DebitKeepsLedger
<1>6. PeersTyped'
  <2> DEFINE out == AfterConsume(peer.outbound_rate_limiter, r.received, now)
             in == AfterRefill(peer.inbound_rate_limiter, r.received, now)
  <2>1. in \in Limiter \cup {None} /\ out \in Limiter \cup {None}
    BY <1>1, <1>2, <1>3, <1>4, AfterConsumeType, AfterRefillType DEF PeerConfig
  <2>2. peers' = [peers EXCEPT ![eid] = [peer EXCEPT !.outbound_rate_limiter = out,
                                                     !.inbound_rate_limiter = in]]
    BY <1>2
  <2> HIDE DEF in, out, peer
  <2>3. [peer EXCEPT !.outbound_rate_limiter = out, !.inbound_rate_limiter = in] \in PeerConfig
    BY <1>3, <2>1 DEF PeerConfig
  <2> QED
    BY <1>1, <2>2, <2>3 DEF PeersTyped
<1>7. packet \in SentPacket
  <2> HIDE DEF sd
  <2>1. peer.peer_address \in RemoteOFTs \cup {NoAddress}
    BY <1>3 DEF PeerConfig
  <2> HIDE DEF peer
  <2> QED
    BY <1>3, <1>4, <2>1 DEF SentPacket
<1> HIDE DEF packet, peer, sd
<1>8. StoreTyped'
  BY <1>1, <1>2, <1>5 DEF StoreTyped, kindVars, roleVars, configVars
<1>9. MessagesTyped'
  BY <1>1, <1>2, <1>7 DEF MessagesTyped
<1>10. FinitePackets'
  BY <1>1, <1>2 DEF FinitePackets
<1>11. now' \in Nat /\ remote_sd' \in Int
  BY <1>1, <1>2, <1>4
<1> QED
  BY <1>5, <1>6, <1>8, <1>9, <1>10, <1>11 DEF IInv, TypeOK

-----------------------------------------------------------------------------
(* The theorems.                                                           *)

LEMMA IInvStep == IInv /\ [Next]_vars => IInv'
<1> SUFFICES ASSUME IInv, [Next]_vars
             PROVE  IInv'
  OBVIOUS
<1>1. CASE UNCHANGED vars
  BY <1>1, StutterStep
<1>2. CASE Administer
  <2>1. CASE \E t \in OFTTypes, d \in SharedDecimals, k \in Keys : InitOFT(t, d, k)
    BY <2>1, InitOFTStep
  <2>2. ASSUME NEW signer \in Keys, SettingOfStore(signer)
        PROVE  IInv'
    BY <2>2, SettingOfStoreStep
  <2>3. ASSUME NEW signer \in Keys, SettingOfPeer(signer)
        PROVE  IInv'
    BY <2>3, SettingOfPeerStep
  <2>4. ASSUME NEW signer \in Keys,
               \E w \in Wallets, fee_ld \in Withdrawals : WithdrawFee(signer, w, fee_ld)
        PROVE  IInv'
    BY <2>4, WithdrawFeeStep
  <2> QED
    BY <1>2, <2>1, <2>2, <2>3, <2>4 DEF Administer, SettingOfStore, SettingOfPeer
<1>3. CASE Transfer
  <2>1. CASE \E w \in Wallets, eid \in Eids, a \in SendAmounts, m \in MinAmounts,
                c \in ComposeChoices : Send(w, eid, a, m, c)
    BY <2>1, SendStep
  <2>2. CASE \E packet \in verified : LzReceiveTypes(packet)
    BY <2>2, LzReceiveTypesStep
  <2>3. CASE \E plan \in plans : LzReceive(plan)
    BY <2>3, LzReceiveStep
  <2> QED
    BY <1>3, <2>1, <2>2, <2>3 DEF Transfer
<1>4. CASE Environment
  <2>1. CASE \E w \in Wallets, a \in Donations : Donate(w, a)
    BY <2>1, DonateStep
  <2>2. CASE \E eid \in Eids, s \in RemoteOFTs, w \in Wallets, a \in RemoteAmounts,
                c \in ComposeChoices : Verify(eid, s, w, a, c)
    BY <2>2, VerifyStep
  <2> QED
    BY <1>4, <2>1, <2>2, ClockAndMintStep DEF Environment
<1> QED
  BY <1>1, <1>2, <1>3, <1>4 DEF Next

(***************************************************************************)
(* The inductive invariant holds in every reachable state.                 *)
(***************************************************************************)
THEOREM Inductive == Spec => []IInv
  BY IInvInit, IInvStep, PTL DEF Spec

(***************************************************************************)
(* Every variable of the OFT, the endpoint and the mint keeps its type:    *)
(* in particular no amount leaves the range of u64 and no fee reaches 100% *)
(* (state/oft.rs, state/peer_config.rs).                                   *)
(***************************************************************************)
THEOREM TypeCorrect == Spec => []TypeOK
<1>1. IInv => TypeOK
  BY DEF IInv
<1> QED
  BY <1>1, Inductive, PTL

(***************************************************************************)
(* Solvency, for every mint, fee and order of instructions: the escrow     *)
(* holds the TVL and the fees, to the unit (send.rs, lz_receive.rs,        *)
(* withdraw_fee.rs).                                                       *)
(***************************************************************************)
THEOREM Solvency == Spec => []EscrowHoldsTvlAndFees
<1>1. IInv => EscrowHoldsTvlAndFees
  BY DEF IInv
<1> QED
  BY <1>1, Inductive, PTL

(***************************************************************************)
(* The tokens remote holders may claim are backed to the unit, by the TVL  *)
(* of an Adapter or by the burned supply of a Native OFT (send.rs,         *)
(* lz_receive.rs).                                                         *)
(***************************************************************************)
THEOREM Backing == Spec => []RemoteIsBacked
<1>1. IInv => RemoteIsBacked
  BY DEF IInv
<1> QED
  BY <1>1, Inductive, PTL

-----------------------------------------------------------------------------
(* What a step may never do.                                               *)

\* Only a send touches the outbox, and only a delivery queues a compose message.
LEMMA OthersSendNothing ==
  ASSUME [Next]_vars,
         ~ \E w \in Wallets, eid \in Eids, a \in SendAmounts, m \in MinAmounts,
             c \in ComposeChoices : Send(w, eid, a, m, c)
  PROVE  outbox' = outbox
<1>1. Administer => outbox' = outbox
  BY DEF Administer, InitOFT, SetAdmin, SetDelegate, SetPauser, SetUnpauser, SetDefaultFee,
         SetPausedByAdmin, SetPause, SetPeerAddress, SetPeerFee, SetOutboundRateLimit,
         SetInboundRateLimit, SetPeer, WithdrawFee, messageVars
<1>2. Environment => outbox' = outbox
  BY DEF Environment, Tick, NewEpoch, SetMintAuthority, Donate, Verify, messageVars
<1>3. Transfer => outbox' = outbox
  BY DEF Transfer, LzReceiveTypes, LzReceive
<1> QED
  BY <1>1, <1>2, <1>3 DEF Next, vars, messageVars

LEMMA OthersComposeNothing ==
  ASSUME [Next]_vars, ~ \E plan \in plans : LzReceive(plan)
  PROVE  composed' = composed
<1>1. Administer => composed' = composed
  BY DEF Administer, InitOFT, SetAdmin, SetDelegate, SetPauser, SetUnpauser, SetDefaultFee,
         SetPausedByAdmin, SetPause, SetPeerAddress, SetPeerFee, SetOutboundRateLimit,
         SetInboundRateLimit, SetPeer, WithdrawFee, messageVars
<1>2. Environment => composed' = composed
  BY DEF Environment, Tick, NewEpoch, SetMintAuthority, Donate, Verify, messageVars
<1>3. Transfer => composed' = composed
  <2>1. ASSUME NEW w \in Wallets, NEW eid \in Eids, NEW a \in SendAmounts,
               NEW m \in MinAmounts, NEW c \in ComposeChoices, Send(w, eid, a, m, c)
        PROVE  composed' = composed
    BY <2>1 DEF Send
  <2> QED
    BY <2>1 DEF Transfer, LzReceiveTypes
<1> QED
  BY <1>1, <1>2, <1>3 DEF Next, vars, messageVars

\* A step that does not transfer leaves what was delivered, the supply and the TVL
\* alone once the OFT exists, and leaves the TVL covered.
LEMMA OthersKeepBacking ==
  ASSUME IInv, Exists, [Next]_vars,
         ~ \E plan \in plans : LzReceive(plan),
         ~ \E w \in Wallets, eid \in Eids, a \in SendAmounts, m \in MinAmounts,
             c \in ComposeChoices : Send(w, eid, a, m, c)
  PROVE  UNCHANGED <<delivered, supply, tvl_ld>> /\ escrow' >= tvl_ld
<1>1. /\ escrow \in Nat /\ tvl_ld \in Nat /\ escrow >= tvl_ld /\ TokensTyped
  BY AmountType DEF IInv, TypeOK, TokensTyped, StoreTyped, EscrowHoldsTvlAndFees
<1>2. ASSUME NEW signer \in Keys, NEW w \in Wallets, NEW fee_ld \in Withdrawals,
             WithdrawFee(signer, w, fee_ld)
      PROVE  UNCHANGED <<delivered, supply, tvl_ld>> /\ escrow' >= tvl_ld
  <2>1. fee_ld \in Nat
    BY OFTAssumption, AmountType
  <2> QED
    BY <1>1, <1>2, <2>1 DEF WithdrawFee, Withdrawable, messageVars
<1>3. ASSUME NEW w \in Wallets, NEW a \in Donations, Donate(w, a)
      PROVE  UNCHANGED <<delivered, supply, tvl_ld>> /\ escrow' >= tvl_ld
  <2>1. Arrives(a) \in Nat
    BY <1>1, OFTAssumption, AmountType, ArrivesType
  <2> QED
    BY <1>1, <1>3, <2>1 DEF Donate, messageVars
<1>4. ASSUME \/ \E signer \in Keys : SettingOfStore(signer) \/ SettingOfPeer(signer)
             \/ \E packet \in verified : LzReceiveTypes(packet)
             \/ Tick
             \/ \E fee \in TransferFees : NewEpoch(fee)
             \/ \E a \in NewAuthorities : SetMintAuthority(a)
             \/ \E eid \in Eids, s \in RemoteOFTs, w \in Wallets, a \in RemoteAmounts,
                  c \in ComposeChoices : Verify(eid, s, w, a, c)
             \/ UNCHANGED vars
      PROVE  UNCHANGED <<delivered, supply, tvl_ld, escrow>>
  BY <1>4 DEF SettingOfStore, SettingOfPeer, SetAdmin, SetDelegate, SetPauser, SetUnpauser,
              SetDefaultFee, SetPausedByAdmin, SetPause, SetPeerAddress, SetPeerFee,
              SetOutboundRateLimit, SetInboundRateLimit, SetPeer, LzReceiveTypes, Tick,
              NewEpoch, SetMintAuthority, Verify, vars, tokenVars, messageVars
<1>5. ~ \E t \in OFTTypes, d \in SharedDecimals, k \in Keys : InitOFT(t, d, k)
  BY DEF InitOFT
<1> QED
  BY <1>1, <1>2, <1>3, <1>4, <1>5
     DEF Next, Administer, Transfer, Environment, SettingOfStore, SettingOfPeer

(***************************************************************************)
(* While the OFT is paused nothing crosses the bridge and nothing that     *)
(* backs the remote side moves, whatever anybody calls (the checks of      *)
(* paused in send.rs and lz_receive.rs).                                   *)
(***************************************************************************)
THEOREM PauseHolds == Spec => PauseStopsBridging
<1>1. ASSUME IInv, [Next]_vars, paused
      PROVE  /\ UNCHANGED <<outbox, delivered, composed, supply, tvl_ld>>
             /\ escrow' >= tvl_ld
  <2>1. Exists
    BY <1>1 DEF IInv, Blank
  <2>2. /\ ~ \E plan \in plans : LzReceive(plan)
        /\ ~ \E w \in Wallets, eid \in Eids, a \in SendAmounts, m \in MinAmounts,
               c \in ComposeChoices : Send(w, eid, a, m, c)
    BY <1>1 DEF LzReceive, Send, Open
  <2> QED
    BY <1>1, <2>1, <2>2, OthersSendNothing, OthersComposeNothing, OthersKeepBacking
<1>2. IInv /\ [Next]_vars =>
        [paused => /\ UNCHANGED <<outbox, delivered, composed, supply, tvl_ld>>
                   /\ escrow' >= tvl_ld]_vars
  BY <1>1
<1> QED
  BY <1>2, Inductive, PTL DEF Spec, PauseStopsBridging

(***************************************************************************)
(* A send debits no more than was asked for and tells the remote chain to  *)
(* credit at least the minimum, for every fee, rate and amount (send.rs).  *)
(***************************************************************************)
THEOREM SendsAreFair == Spec => SendIsFair
<1> DEFINE Fair == LET p == outbox'[Len(outbox')]
                   IN  /\ balance[p.from] - balance'[p.from] <= p.asked_ld
                       /\ Sd2Ld(ld2sd_rate, p.amount_sd) >= p.min_ld
<1>1. ASSUME IInv, NEW w \in Wallets, NEW eid \in Eids, NEW a \in SendAmounts,
             NEW m \in MinAmounts, NEW c \in ComposeChoices, Send(w, eid, a, m, c)
      PROVE  Fair
  <2> DEFINE peer == peers[eid]
             r == ReceiptOf(peer, a)
             sd == Ld2Sd(ld2sd_rate, r.received)
             packet == [dst_eid |-> eid, receiver |-> peer.peer_address, amount_sd |-> sd,
                        compose |-> c, from |-> w, asked_ld |-> a, min_ld |-> m]
  <2>1. /\ TokensTyped /\ StoreTyped /\ PeersTyped /\ outbox \in Seq(SentPacket)
    BY <1>1 DEF IInv, TypeOK, MessagesTyped
  <2>2. /\ peer # None
        /\ r.received >= m
        /\ \/ oft_type = "Adapter" /\ DebitAdapter(w, r)
           \/ oft_type = "Native" /\ DebitNative(w, r)
        /\ outbox' = Append(outbox, packet)
    BY <1>1 DEF Send, Open, ReceiptOf, WithinSlippage
  <2>3. peer \in PeerConfig /\ a \in Amount /\ a \in Nat
    BY <2>1, <2>2, OFTAssumption, AmountType DEF PeersTyped
  <2>4. /\ r.sent \in Nat /\ r.fee \in Nat /\ r.sent <= a
        /\ Sd2Ld(ld2sd_rate, sd) = r.received
    BY <2>1, <2>3, ReceiptOfSound
  <2> HIDE DEF peer, r, sd
  <2>5. outbox'[Len(outbox')] = packet
    BY <2>1, <2>2
  <2>6. balance[w] \in Nat
    BY <2>1, AmountType DEF TokensTyped
  <2>7. balance'[w] = balance[w] - r.sent
    <3>1. BurnedAmount(r) + r.fee = r.sent
      BY <2>4 DEF BurnedAmount
    <3> QED
      BY <2>1, <2>2, <3>1 DEF DebitAdapter, DebitNative, TokensTyped
  <2> QED
    BY <2>2, <2>3, <2>4, <2>5, <2>6, <2>7
<1>2. IInv /\ [Next]_vars => [outbox' # outbox => Fair]_vars
  BY <1>1, OthersSendNothing
<1> QED
  BY <1>2, Inductive, PTL DEF Spec, SendIsFair

(***************************************************************************)
(* A compose message carries what its receiver is credited in the same     *)
(* step (lz_receive.rs).                                                   *)
(***************************************************************************)
THEOREM ComposeIsExact == Spec => ComposeCarriesCredit
<1> DEFINE Exact == \A m \in composed' \ composed :
                      LET to == m.packet.to IN m.amount_ld = balance'[to] - balance[to]
<1>1. ASSUME IInv, NEW plan \in plans, LzReceive(plan)
      PROVE  Exact
  <2> DEFINE packet == plan.packet
             x == Sd2Ld(ld2sd_rate, packet.amount_sd)
             credit == CreditOf(packet)
  <2>1. /\ TokensTyped /\ packet.to \in Wallets
    BY <1>1 DEF IInv, TypeOK, MessagesTyped, Plan, Packet
  <2>2. /\ x \in Amount
        /\ \A m \in composed' \ composed : m = [packet |-> packet, amount_ld |-> credit]
        /\ \/ oft_type = "Adapter" /\ CreditAdapter(packet, x)
           \/ oft_type = "Native" /\ CreditNative(packet, x, plan.mint_authority)
    BY <1>1 DEF LzReceive
  <2>3. credit = IF oft_type = "Adapter" THEN Arrives(x) ELSE x
    BY DEF CreditOf
  <2> HIDE DEF x, credit
  <2>4. /\ balance[packet.to] \in Nat /\ x \in Nat /\ Arrives(x) \in Nat
    BY <2>1, <2>2, AmountType, ArrivesType DEF TokensTyped
  <2>5. credit \in Nat /\ balance'[packet.to] = balance[packet.to] + credit
    BY <2>1, <2>2, <2>3, <2>4 DEF CreditAdapter, CreditNative, TokensTyped
  <2> HIDE DEF packet
  <2> QED
    BY <2>2, <2>4, <2>5
<1>2. IInv /\ [Next]_vars => [Exact]_vars
  <2>1. composed' = composed => Exact
    OBVIOUS
  <2> QED
    BY <1>1, <2>1, OthersComposeNothing
<1> QED
  BY <1>2, Inductive, PTL DEF Spec, ComposeCarriesCredit

-----------------------------------------------------------------------------
(* Every packet counts once.                                               *)

PathOf(p) == {q \in verified \cup delivered : q.src_eid = p.src_eid /\ q.sender = p.sender}

(***************************************************************************)
(* The net flow and the two sets do not determine each other: that a new   *)
(* packet is none of the delivered ones rests on its nonce, which is above *)
(* those of its path.                                                      *)
(***************************************************************************)
Numbered == \A p \in verified \cup delivered : p.nonce <= Cardinality(PathOf(p))

FlowInv == /\ Numbered
           /\ verified \cap delivered = {}
           /\ remote_sd = UnitsOut(outbox) - UnitsIn(delivered)

LEMMA FlowCountsOnce == FlowInv => EveryPacketCountsOnce
<1>1. /\ UnitsOut(outbox) = MapThenSumSet(LAMBDA i : outbox[i].amount_sd, DOMAIN outbox)
      /\ UnitsIn(delivered) = MapThenSumSet(LAMBDA p : p.amount_sd, delivered)
  BY Zenon DEF UnitsOut, UnitsIn
<1> QED
  BY <1>1, Zenon DEF FlowInv, EveryPacketCountsOnce

LEMMA FlowInit == Init => FlowInv
  BY UnitsEmpty DEF Init, FlowInv, Numbered

LEMMA FlowKept ==
  ASSUME FlowInv, UNCHANGED <<outbox, verified, delivered, remote_sd>>
  PROVE  FlowInv'
  BY DEF FlowInv, Numbered, PathOf

\* What is verified next is new to its path.
LEMMA VerifyFlow ==
  ASSUME IInv, FlowInv, NEW eid \in Eids, NEW s \in RemoteOFTs, NEW w \in Wallets,
         NEW a \in RemoteAmounts, NEW c \in ComposeChoices, Verify(eid, s, w, a, c)
  PROVE  FlowInv'
<1> DEFINE seen == verified \cup delivered
           known == {p \in seen : p.src_eid = eid /\ p.sender = s}
           packet == [src_eid |-> eid, nonce |-> Cardinality(known) + 1, sender |-> s,
                      to |-> w, amount_sd |-> a, compose |-> c]
<1>1. /\ verified' = verified \cup {packet}
      /\ UNCHANGED <<outbox, delivered, remote_sd>>
  BY DEF Verify, historyVars
<1>2. IsFiniteSet(seen) /\ IsFiniteSet(known) /\ Cardinality(known) \in Nat
  <2>1. IsFiniteSet(seen)
    BY FS_Union DEF IInv, FinitePackets
  <2>2. IsFiniteSet(known)
    BY <2>1, FS_Subset, known \subseteq seen
  <2> QED
    BY <2>1, <2>2, FS_CardinalityType
<1>3. packet \notin seen
  <2>1. SUFFICES ASSUME packet \in seen
                 PROVE  FALSE
    OBVIOUS
  <2>2. PathOf(packet) = known
    BY DEF PathOf
  <2>3. packet.nonce <= Cardinality(known)
    BY <2>1, <2>2 DEF FlowInv, Numbered
  <2> QED
    BY <1>2, <2>3
<1>4. ASSUME NEW p \in (verified \cup delivered)'
      PROVE  p.nonce <= Cardinality({q \in seen \cup {packet} :
                                       q.src_eid = p.src_eid /\ q.sender = p.sender})
  <2> DEFINE path == {q \in seen \cup {packet} : q.src_eid = p.src_eid /\ q.sender = p.sender}
  <2> SUFFICES p.nonce <= Cardinality(path)
    OBVIOUS
  <2>1. IsFiniteSet(path) /\ Cardinality(path) \in Nat
    <3>1. IsFiniteSet(seen \cup {packet})
      BY <1>2, FS_AddElement
    <3>2. IsFiniteSet(path)
      BY <3>1, FS_Subset, path \subseteq seen \cup {packet}
    <3> QED
      BY <3>2, FS_CardinalityType
  <2>2. CASE p \in seen
    <3>1. PathOf(p) \subseteq path
      BY DEF PathOf
    <3>2. Cardinality(PathOf(p)) <= Cardinality(path) /\ Cardinality(PathOf(p)) \in Nat
      BY <2>1, <3>1, FS_Subset, FS_CardinalityType
    <3>3. p.nonce <= Cardinality(PathOf(p)) /\ p.nonce \in Nat
      BY <2>2 DEF FlowInv, Numbered, IInv, TypeOK, MessagesTyped, Packet
    <3> HIDE DEF path
    <3> QED
      BY <2>1, <3>2, <3>3
  <2>3. CASE p = packet
    <3>1. path = known \cup {packet}
      BY <2>3
    <3>2. packet \notin known
      BY <1>3
    <3>3. Cardinality(known \cup {packet}) = Cardinality(known) + 1
      <4> HIDE DEF known, packet
      <4> QED
        BY <1>2, <3>2, FS_AddElement
    <3>4. p.nonce = Cardinality(known) + 1
      BY <2>3
    <3> HIDE DEF path, known, packet
    <3> QED
      BY <1>2, <3>1, <3>3, <3>4
  <2> QED
    BY <1>1, <2>2, <2>3
<1>5. Numbered'
  <2>1. (verified \cup delivered)' = seen \cup {packet}
    BY <1>1
  <2> HIDE DEF seen, packet
  <2> QED
    BY <1>4, <2>1 DEF Numbered, PathOf
<1> HIDE DEF packet
<1> QED
  BY <1>1, <1>3, <1>5 DEF FlowInv

\* What is delivered was verified and not delivered before, and leaves the flow.
LEMMA LzReceiveFlow ==
  ASSUME IInv, FlowInv, NEW plan \in plans, LzReceive(plan)
  PROVE  FlowInv'
<1> DEFINE packet == plan.packet
<1>1. /\ packet \in verified
      /\ verified' = verified \ {packet} /\ delivered' = delivered \cup {packet}
      /\ remote_sd' = remote_sd - packet.amount_sd
      /\ outbox' = outbox
  BY DEF LzReceive, ClearedOf
<1>2. packet \notin delivered /\ (verified \cup delivered)' = verified \cup delivered
  BY <1>1 DEF FlowInv
<1>3. /\ outbox \in Seq(SentPacket) /\ IsFiniteSet(delivered) /\ remote_sd \in Int
      /\ \A p \in delivered \cup {packet} : p.amount_sd \in Int
  BY <1>1, AmountType DEF IInv, TypeOK, MessagesTyped, FinitePackets, Packet
<1> HIDE DEF packet
<1>4. /\ UnitsIn(delivered) \in Int
      /\ UnitsIn(delivered \cup {packet}) = UnitsIn(delivered) + packet.amount_sd
  BY <1>2, <1>3, UnitsInAdd
<1>5. UnitsOut(outbox) \in Int /\ packet.amount_sd \in Int
  <2>1. \A p \in SentPacket : p.amount_sd \in Int
    BY AmountType DEF SentPacket
  <2> QED
    BY <1>3, <2>1, UnitsOutType
<1>6. Numbered'
  BY <1>2 DEF FlowInv, Numbered, PathOf
<1> QED
  BY <1>1, <1>3, <1>4, <1>5, <1>6 DEF FlowInv

\* What is sent joins the flow.
LEMMA SendFlow ==
  ASSUME IInv, IInv', FlowInv, NEW w \in Wallets, NEW eid \in Eids, NEW a \in SendAmounts,
         NEW m \in MinAmounts, NEW c \in ComposeChoices, Send(w, eid, a, m, c)
  PROVE  FlowInv'
<1> DEFINE peer == peers[eid]
           sd == Ld2Sd(ld2sd_rate, ReceiptOf(peer, a).received)
           packet == [dst_eid |-> eid, receiver |-> peer.peer_address, amount_sd |-> sd,
                      compose |-> c, from |-> w, asked_ld |-> a, min_ld |-> m]
<1>1. /\ outbox' = Append(outbox, packet) /\ remote_sd' = remote_sd + sd
      /\ UNCHANGED <<verified, delivered>>
  BY DEF Send, ReceiptOf
<1> HIDE DEF peer, sd
<1>2. packet.amount_sd = sd
  OBVIOUS
<1> HIDE DEF packet
<1>3. /\ outbox \in Seq(SentPacket) /\ outbox' \in Seq(SentPacket)
      /\ IsFiniteSet(delivered) /\ \A p \in delivered : p.amount_sd \in Int
      /\ remote_sd \in Int
  BY AmountType DEF IInv, TypeOK, MessagesTyped, FinitePackets, Packet
<1>4. packet \in SentPacket
  BY <1>1, <1>3
<1>5. \A p \in SentPacket : p.amount_sd \in Int
  BY AmountType DEF SentPacket
<1>6. UnitsOut(outbox) \in Int /\ UnitsOut(outbox') = UnitsOut(outbox) + sd
  BY <1>1, <1>2, <1>3, <1>4, <1>5, UnitsOutAppend
<1>7. UnitsIn(delivered) \in Int
  BY <1>3, UnitsInType
<1>8. sd \in Int
  BY <1>2, <1>4, <1>5
<1>9. Numbered' /\ (verified \cap delivered = {})'
  BY <1>1 DEF FlowInv, Numbered, PathOf
<1> QED
  BY <1>1, <1>3, <1>6, <1>7, <1>8, <1>9 DEF FlowInv

LEMMA FlowStep == IInv /\ IInv' /\ FlowInv /\ [Next]_vars => FlowInv'
<1> SUFFICES ASSUME IInv, IInv', FlowInv, [Next]_vars
             PROVE  FlowInv'
  OBVIOUS
<1>1. CASE \E w \in Wallets, eid \in Eids, a \in SendAmounts, m \in MinAmounts,
              c \in ComposeChoices : Send(w, eid, a, m, c)
  BY <1>1, SendFlow
<1>2. CASE \E plan \in plans : LzReceive(plan)
  BY <1>2, LzReceiveFlow
<1>3. CASE \E eid \in Eids, s \in RemoteOFTs, w \in Wallets, a \in RemoteAmounts,
              c \in ComposeChoices : Verify(eid, s, w, a, c)
  BY <1>3, VerifyFlow
<1>4. CASE \/ Administer
           \/ \E packet \in verified : LzReceiveTypes(packet)
           \/ Tick
           \/ \E fee \in TransferFees : NewEpoch(fee)
           \/ \E a \in NewAuthorities : SetMintAuthority(a)
           \/ \E w \in Wallets, a \in Donations : Donate(w, a)
           \/ UNCHANGED vars
  <2>1. UNCHANGED <<outbox, verified, delivered, remote_sd>>
    <3>1. Administer => UNCHANGED <<outbox, verified, delivered, remote_sd>>
      BY DEF Administer, InitOFT, SetAdmin, SetDelegate, SetPauser, SetUnpauser,
             SetDefaultFee, SetPausedByAdmin, SetPause, SetPeerAddress, SetPeerFee,
             SetOutboundRateLimit, SetInboundRateLimit, SetPeer, WithdrawFee, messageVars,
             historyVars
    <3> QED
      BY <1>4, <3>1 DEF LzReceiveTypes, Tick, NewEpoch, SetMintAuthority, Donate, vars,
                        messageVars, historyVars
  <2> QED
    BY <2>1, FlowKept
<1> QED
  BY <1>1, <1>2, <1>3, <1>4 DEF Next, Transfer, Environment

(***************************************************************************)
(* Every packet counts once, for any number of paths, packets and amounts: *)
(* the net flow is the sum over what was sent less the sum over what was   *)
(* delivered, and nothing is delivered again (send.rs; clear, in           *)
(* lz_receive.rs).                                                         *)
(***************************************************************************)
THEOREM CountsOnce == Spec => []EveryPacketCountsOnce
<1>1. Spec => []FlowInv
  <2>1. Init => FlowInv
    BY FlowInit
  <2>2. IInv /\ IInv' /\ FlowInv /\ [Next]_vars => FlowInv'
    BY FlowStep
  <2> QED
    BY <2>1, <2>2, Inductive, PTL DEF Spec
<1> QED
  BY <1>1, FlowCountsOnce, PTL

-----------------------------------------------------------------------------
(* Tokens are moved, burned and minted, and never lost.                    *)

HeldBy(accounts) == MapThenSumSet(LAMBDA w : accounts[w], DOMAIN accounts)

LEMMA HeldIsSum ==
  ASSUME NEW b, IsFiniteSet(DOMAIN b), \A w \in DOMAIN b : b[w] \in Int
  PROVE  \E g : IsSum(g, [w \in DOMAIN b |-> b[w]], DOMAIN b) /\ HeldBy(b) = g[DOMAIN b]
<1> DEFINE D == DOMAIN b
           f == [w \in D |-> b[w]]
           pick == [s \in SUBSET D |-> CHOOSE x \in s : TRUE]
           Rec(g) == g = [s \in SUBSET D |->
                            IF s = {} THEN 0
                            ELSE LET x == CHOOSE x \in s : TRUE
                                 IN  b[x] + g[s \ {x}]]
           iter == CHOOSE g : Rec(g)
<1>1. \A s \in SUBSET D : s # {} => pick[s] \in s
  OBVIOUS
<1>2. ASSUME NEW g PROVE Rec(g) <=> Sums(g, f, pick, D)
  <2>1. ASSUME NEW s \in SUBSET D, s # {}
        PROVE  LET x == CHOOSE x \in s : TRUE IN b[x] + g[s \ {x}]
                 = f[pick[s]] + g[s \ {pick[s]}]
    <3>1. pick[s] = (CHOOSE x \in s : TRUE) /\ pick[s] \in D
      BY <1>1, <2>1
    <3>2. f[pick[s]] = b[pick[s]]
      BY <3>1
    <3> HIDE DEF pick, f
    <3> QED BY <3>1, <3>2
  <2> HIDE DEF pick, f
  <2> QED BY <2>1 DEF Sums
<1>3. \E g : Sums(g, f, pick, D)
  <2>1. f \in [D -> Int]
    OBVIOUS
  <2> HIDE DEF f, pick
  <2> QED BY <1>1, <2>1, SumsExist
<1>4. Rec(iter)
  <2>1. \E g : Rec(g)
    <3>1. PICK g : Sums(g, f, pick, D)
      BY <1>3
    <3> HIDE DEF Rec, f, pick, D
    <3>2. Rec(g)
      BY <1>2, <3>1
    <3> QED BY <3>2
  <2> QED BY <2>1
<1>5. HeldBy(b) = iter[D]
  BY DEF HeldBy, MapThenSumSet, MapThenFoldSet
<1>6. IsSum(iter, f, D)
  <2>1. Sums(iter, f, pick, D)
    BY <1>2, <1>4
  <2> HIDE DEF iter, f, pick
  <2> QED BY <1>1, <2>1, SumsIsSum
<1> HIDE DEF iter
<1> QED BY <1>5, <1>6

LEMMA HeldNat ==
  ASSUME NEW W, IsFiniteSet(W), NEW b \in [W -> Nat]
  PROVE  HeldBy(b) \in Nat
<1>1. DOMAIN b = W /\ [v \in W |-> b[v]] = b /\ \A v \in W : b[v] \in Int
  OBVIOUS
<1>2. PICK g : IsSum(g, b, W) /\ HeldBy(b) = g[W]
  BY <1>1, HeldIsSum
<1> QED
  BY <1>2, SumNat

\* An account that changes changes what all of them hold by as much.
LEMMA HeldChange ==
  ASSUME NEW W, IsFiniteSet(W), NEW b \in [W -> Int], NEW w \in W, NEW x \in Int
  PROVE  /\ HeldBy(b) \in Int
         /\ HeldBy([b EXCEPT ![w] = x]) = HeldBy(b) - b[w] + x
<1> DEFINE c == [b EXCEPT ![w] = x]
           D == W \ {w}
           f == [v \in D |-> b[v]]
<1>1. /\ DOMAIN b = W /\ [v \in W |-> b[v]] = b /\ \A v \in W : b[v] \in Int
      /\ DOMAIN c = W /\ [v \in W |-> c[v]] = c /\ \A v \in W : c[v] \in Int
      /\ c \in [W -> Int] /\ f \in [D -> Int] /\ c[w] = x
      /\ \A v \in D : f[v] = b[v]
      /\ \A v \in D : f[v] = c[v]
  OBVIOUS
<1> HIDE DEF c, f
<1>2. PICK g : IsSum(g, b, W) /\ HeldBy(b) = g[W]
  BY <1>1, HeldIsSum
<1>3. PICK h : IsSum(h, c, W) /\ HeldBy(c) = h[W]
  BY <1>1, HeldIsSum
<1>4. IsSum(g, f, D)
  BY <1>1, <1>2 DEF IsSum
<1> HIDE DEF D
<1>5. g[D] \in Int /\ g[W] = g[D] + b[w]
  BY <1>1, <1>2, <1>4, SumAdd DEF D
<1>6. h[W] = g[D] + c[w]
  BY <1>1, <1>3, <1>4, SumAdd DEF D
<1> QED
  BY <1>1, <1>2, <1>3, <1>5, <1>6 DEF c

(***************************************************************************)
(* The tokens that came into existence or were burned are those that the   *)
(* wallets, the escrow and the withheld fees gained or lost.               *)
(***************************************************************************)
SupplyAccounted ==
  supply - InitialSupply = HeldBy(balance) - HeldBy(InitialBalance) + escrow + withheld

LEMMA AccountedInit == Init => SupplyAccounted
<1> SUFFICES ASSUME Init
             PROVE  SupplyAccounted
  OBVIOUS
<1>1. HeldBy(InitialBalance) \in Int /\ InitialSupply \in Int
  <2>1. InitialBalance \in [Wallets -> Int] /\ InitialSupply \in Int
    BY OFTAssumption, AmountType
  <2>2. PICK g : IsSum(g, InitialBalance, Wallets) /\ HeldBy(InitialBalance) = g[Wallets]
    <3>1. /\ DOMAIN InitialBalance = Wallets
          /\ InitialBalance = [w \in Wallets |-> InitialBalance[w]]
          /\ \A w \in Wallets : InitialBalance[w] \in Int
      BY <2>1
    <3>2. IsFiniteSet(Wallets)
      BY WalletsAssumption, Zenon
    <3> QED
      BY <3>1, <3>2, HeldIsSum
  <2>3. IsFiniteSet(Wallets)
    BY WalletsAssumption, Zenon
  <2>4. g[Wallets] \in Int
    BY <2>1, <2>2, <2>3, SumType
  <2> QED
    BY <2>1, <2>2, <2>4
<1> QED
  BY <1>1 DEF Init, SupplyAccounted

\* What an account gains comes from the supply, the escrow or the withheld fees.
LEMMA AccountStep ==
  ASSUME TokensTyped, SupplyAccounted, NEW w \in Wallets, NEW x \in Int,
         balance' = [balance EXCEPT ![w] = balance[w] + x],
         supply' \in Int, escrow' \in Int, withheld' \in Int,
         supply' - supply = x + (escrow' - escrow) + (withheld' - withheld)
  PROVE  SupplyAccounted'
<1>1. /\ balance \in [Wallets -> Int] /\ balance[w] \in Int /\ balance[w] + x \in Int
      /\ supply \in Int /\ escrow \in Int /\ withheld \in Int /\ InitialSupply \in Int
  BY AmountType, OFTAssumption DEF TokensTyped
<1>2. IsFiniteSet(Wallets)
  BY WalletsAssumption, Zenon
<1>3. /\ HeldBy(balance) \in Int
      /\ HeldBy(balance') = HeldBy(balance) - balance[w] + (balance[w] + x)
  BY <1>1, <1>2, HeldChange
<1>4. HeldBy(InitialBalance) \in Int
  <2>1. InitialBalance \in [Wallets -> Int] /\ InitialBalance[w] \in Int
    BY OFTAssumption, AmountType
  <2> QED
    BY <1>2, <2>1, HeldChange
<1> QED
  BY <1>1, <1>3, <1>4 DEF SupplyAccounted

LEMMA AccountedKept ==
  ASSUME SupplyAccounted, UNCHANGED <<supply, balance, escrow, withheld>>
  PROVE  SupplyAccounted'
  BY DEF SupplyAccounted

\* What the OFT holds is a part of the supply, in every state that is accounted for.
LEMMA EscrowWithinSupply ==
  ASSUME NEW accounts \in [Wallets -> Amount], NEW s \in Nat, NEW e \in Nat, NEW h \in Nat,
         s - InitialSupply = HeldBy(accounts) - HeldBy(InitialBalance) + e + h
  PROVE  e + h <= s
<1>1. IsFiniteSet(Wallets)
  BY WalletsAssumption, Zenon
<1>2. HeldBy(InitialBalance) <= InitialSupply
  BY WalletsAssumption, Zenon DEF HeldBy
<1>3. accounts \in [Wallets -> Nat] /\ InitialBalance \in [Wallets -> Nat]
  BY AmountType, OFTAssumption
<1>4. HeldBy(accounts) \in Nat /\ HeldBy(InitialBalance) \in Nat
  BY <1>1, <1>3, HeldNat
<1>5. InitialSupply \in Nat
  BY AmountType, OFTAssumption
<1> QED
  BY <1>2, <1>4, <1>5

LEMMA WithdrawFeeAccounted ==
  ASSUME IInv, IInv', SupplyAccounted, NEW signer \in Keys, NEW w \in Wallets,
         NEW fee_ld \in Withdrawals, WithdrawFee(signer, w, fee_ld)
  PROVE  SupplyAccounted'
<1>1. /\ escrow' = escrow - fee_ld
      /\ balance' = [balance EXCEPT ![w] = @ + Arrives(fee_ld)]
      /\ withheld' = withheld + WithheldOf(fee_ld)
      /\ supply' = supply
  BY DEF WithdrawFee
<1>2. /\ TokensTyped /\ supply \in Int /\ escrow \in Int /\ withheld \in Int
      /\ supply' \in Int /\ escrow' \in Int /\ withheld' \in Int
  BY AmountType DEF IInv, TypeOK, TokensTyped
<1>3. /\ fee_ld \in Nat /\ Arrives(fee_ld) \in Int
      /\ WithheldOf(fee_ld) = fee_ld - Arrives(fee_ld)
  BY <1>2, OFTAssumption, AmountType, ArrivesType DEF WithheldOf
<1>4. supply' - supply = Arrives(fee_ld) + (escrow' - escrow) + (withheld' - withheld)
  BY <1>1, <1>2, <1>3
<1> QED
  BY <1>1, <1>2, <1>3, <1>4, AccountStep

LEMMA DonateAccounted ==
  ASSUME IInv, IInv', SupplyAccounted, NEW w \in Wallets, NEW a \in Donations, Donate(w, a)
  PROVE  SupplyAccounted'
<1>1. /\ escrow' = escrow + Arrives(a)
      /\ balance' = [balance EXCEPT ![w] = @ - a]
      /\ withheld' = withheld + WithheldOf(a)
      /\ supply' = supply
  BY DEF Donate
<1>2. /\ TokensTyped /\ supply \in Int /\ escrow \in Int /\ withheld \in Int
      /\ supply' \in Int /\ escrow' \in Int /\ withheld' \in Int
      /\ balance[w] \in Int
  BY AmountType DEF IInv, TypeOK, TokensTyped
<1>3. /\ a \in Int /\ a \in Nat /\ Arrives(a) \in Int /\ WithheldOf(a) = a - Arrives(a)
  BY <1>2, OFTAssumption, AmountType, ArrivesType DEF WithheldOf
<1>4. /\ supply' - supply = (0 - a) + (escrow' - escrow) + (withheld' - withheld)
      /\ balance[w] - a = balance[w] + (0 - a) /\ 0 - a \in Int
  BY <1>1, <1>2, <1>3
<1>5. balance' = [balance EXCEPT ![w] = balance[w] + (0 - a)]
  BY <1>1, <1>4
<1> QED
  BY <1>2, <1>4, <1>5, AccountStep

LEMMA LzReceiveAccounted ==
  ASSUME IInv, IInv', SupplyAccounted, NEW plan \in plans, LzReceive(plan)
  PROVE  SupplyAccounted'
<1> DEFINE packet == plan.packet
           x == Sd2Ld(ld2sd_rate, packet.amount_sd)
<1>1. /\ \/ CreditAdapter(packet, x)
         \/ CreditNative(packet, x, plan.mint_authority)
      /\ x \in Amount
  BY DEF LzReceive
<1>2. packet.to \in Wallets
  BY DEF IInv, TypeOK, MessagesTyped, Plan, Packet
<1>3. /\ TokensTyped /\ supply \in Int /\ escrow \in Int /\ withheld \in Int
      /\ supply' \in Int /\ escrow' \in Int /\ withheld' \in Int
  BY AmountType DEF IInv, TypeOK, TokensTyped
<1> HIDE DEF packet, x
<1>4. /\ x \in Int /\ x \in Nat /\ Arrives(x) \in Int /\ WithheldOf(x) = x - Arrives(x)
  BY <1>1, <1>3, AmountType, ArrivesType DEF WithheldOf
<1>5. CASE CreditAdapter(packet, x)
  <2>1. /\ escrow' = escrow - x /\ supply' = supply
        /\ balance' = [balance EXCEPT ![packet.to] = @ + Arrives(x)]
        /\ withheld' = withheld + WithheldOf(x)
    BY <1>5 DEF CreditAdapter
  <2>2. supply' - supply = Arrives(x) + (escrow' - escrow) + (withheld' - withheld)
    BY <1>3, <1>4, <2>1
  <2> QED
    BY <1>2, <1>3, <1>4, <2>1, <2>2, AccountStep
<1>6. CASE CreditNative(packet, x, plan.mint_authority)
  <2>1. /\ escrow' = escrow /\ supply' = supply + x /\ withheld' = withheld
        /\ balance' = [balance EXCEPT ![packet.to] = @ + x]
    BY <1>6 DEF CreditNative
  <2>2. supply' - supply = x + (escrow' - escrow) + (withheld' - withheld)
    BY <1>3, <1>4, <2>1
  <2> QED
    BY <1>2, <1>3, <1>4, <2>1, <2>2, AccountStep
<1> QED
  BY <1>1, <1>5, <1>6

LEMMA SendAccounted ==
  ASSUME IInv, IInv', SupplyAccounted, NEW w \in Wallets, NEW eid \in Eids,
         NEW a \in SendAmounts, NEW m \in MinAmounts, NEW c \in ComposeChoices,
         Send(w, eid, a, m, c)
  PROVE  SupplyAccounted'
<1> DEFINE peer == peers[eid]
           r == ReceiptOf(peer, a)
           burned == BurnedAmount(r)
           fee == r.fee
           sent == r.sent
<1>1. peer # None /\ (DebitAdapter(w, r) \/ DebitNative(w, r))
  BY DEF Send, ReceiptOf
<1>2. /\ TokensTyped /\ StoreTyped
      /\ supply \in Int /\ escrow \in Int /\ withheld \in Int
      /\ supply' \in Int /\ escrow' \in Int /\ withheld' \in Int
      /\ balance[w] \in Int
  BY AmountType DEF IInv, TypeOK, TokensTyped
<1>3. peer \in PeerConfig /\ a \in Amount
  BY <1>1, OFTAssumption DEF IInv, TypeOK, PeersTyped
<1>4. sent \in Nat /\ fee \in Nat
  BY <1>2, <1>3, ReceiptOfSound
<1>5. /\ Arrives(sent) \in Int /\ WithheldOf(sent) = sent - Arrives(sent)
      /\ Arrives(fee) \in Int /\ WithheldOf(fee) = fee - Arrives(fee)
      /\ burned \in Int
  BY <1>2, <1>4, ArrivesType DEF WithheldOf, BurnedAmount
<1>6. CASE DebitAdapter(w, r)
  <2>1. /\ escrow' = escrow + Arrives(sent) /\ supply' = supply
        /\ balance' = [balance EXCEPT ![w] = @ - sent]
        /\ withheld' = withheld + WithheldOf(sent)
    BY <1>6 DEF DebitAdapter
  <2> HIDE DEF sent, fee, burned, r
  <2>2. /\ supply' - supply = (0 - sent) + (escrow' - escrow) + (withheld' - withheld)
        /\ balance[w] - sent = balance[w] + (0 - sent) /\ 0 - sent \in Int
    BY <1>2, <1>4, <1>5, <2>1
  <2>3. balance' = [balance EXCEPT ![w] = balance[w] + (0 - sent)]
    BY <2>1, <2>2
  <2> QED
    BY <1>2, <2>2, <2>3, AccountStep
<1>7. CASE DebitNative(w, r)
  <2>1. /\ escrow' = escrow + Arrives(fee) /\ supply' = supply - burned
        /\ balance' = [balance EXCEPT ![w] = @ - (burned + fee)]
        /\ withheld' = withheld + WithheldOf(fee)
    BY <1>7 DEF DebitNative
  <2> DEFINE x == 0 - (burned + fee)
  <2> HIDE DEF sent, fee, burned, r
  <2>2. /\ supply' - supply = x + (escrow' - escrow) + (withheld' - withheld)
        /\ balance[w] - (burned + fee) = balance[w] + x /\ x \in Int
    BY <1>2, <1>4, <1>5, <2>1
  <2>3. balance' = [balance EXCEPT ![w] = balance[w] + x]
    BY <2>1, <2>2
  <2> QED
    BY <1>2, <2>2, <2>3, AccountStep
<1> QED
  BY <1>1, <1>6, <1>7

LEMMA AccountedStep == IInv /\ IInv' /\ SupplyAccounted /\ [Next]_vars => SupplyAccounted'
<1> SUFFICES ASSUME IInv, IInv', SupplyAccounted, [Next]_vars
             PROVE  SupplyAccounted'
  OBVIOUS
<1>1. CASE Transfer
  BY <1>1, SendAccounted, LzReceiveAccounted, AccountedKept
     DEF Transfer, LzReceiveTypes, tokenVars
<1>2. CASE \E signer \in Keys, w \in Wallets, fee_ld \in Withdrawals :
             WithdrawFee(signer, w, fee_ld)
  BY <1>2, WithdrawFeeAccounted
<1>3. CASE \E w \in Wallets, a \in Donations : Donate(w, a)
  BY <1>3, DonateAccounted
<1>4. CASE \/ \E t \in OFTTypes, d \in SharedDecimals, k \in Keys : InitOFT(t, d, k)
           \/ \E signer \in Keys : SettingOfStore(signer) \/ SettingOfPeer(signer)
           \/ Tick
           \/ \E fee \in TransferFees : NewEpoch(fee)
           \/ \E a \in NewAuthorities : SetMintAuthority(a)
           \/ \E eid \in Eids, s \in RemoteOFTs, w \in Wallets, a \in RemoteAmounts,
                c \in ComposeChoices : Verify(eid, s, w, a, c)
           \/ UNCHANGED vars
  <2>1. UNCHANGED tokenVars
    BY <1>4 DEF InitOFT, SettingOfStore, SettingOfPeer, SetAdmin, SetDelegate, SetPauser,
                SetUnpauser, SetDefaultFee, SetPausedByAdmin, SetPause, SetPeerAddress,
                SetPeerFee, SetOutboundRateLimit, SetInboundRateLimit, SetPeer, Tick,
                NewEpoch, SetMintAuthority, Verify, vars
  <2> QED
    BY <2>1, AccountedKept DEF tokenVars
<1> QED
  BY <1>1, <1>2, <1>3, <1>4
     DEF Next, Administer, Environment, SettingOfStore, SettingOfPeer

(***************************************************************************)
(* Tokens are conserved: whatever is sent, delivered, donated, withdrawn   *)
(* or withheld, the supply, the wallets, the escrow and the withheld fees  *)
(* agree to the unit, and so the escrow never exceeds the supply (send.rs, *)
(* lz_receive.rs, withdraw_fee.rs).                                        *)
(***************************************************************************)
THEOREM TokensConserved == Spec => [](SupplyAccounted /\ escrow + withheld <= supply)
<1>1. Init => SupplyAccounted
  BY AccountedInit
<1>2. IInv /\ IInv' /\ SupplyAccounted /\ [Next]_vars => SupplyAccounted'
  BY AccountedStep
<1>3. IInv /\ SupplyAccounted => escrow + withheld <= supply
  BY AmountType, EscrowWithinSupply DEF IInv, TypeOK, TokensTyped, SupplyAccounted
<1> QED
  BY <1>1, <1>2, <1>3, Inductive, PTL DEF Spec
=============================================================================
