---------------------------- MODULE BridgeProofs ----------------------------
(***************************************************************************)
(* The two programs of the bridge implement the ledger, for every choice   *)
(* of the constants.  What holds of the OFT by itself (OFTProofs) holds of *)
(* it in the bridge too; the rest is about the packets: those that arrive  *)
(* on Solana are exactly those that MyOFT sent, numbered as it sent them.  *)
(***************************************************************************)
EXTENDS Bridge, OFTProofs

USE DEF Exists

-----------------------------------------------------------------------------
(* The rate between the token and the shared decimals.                     *)

LEMMA RateType ==
  /\ Rate \in Nat \ {0}
  /\ \A d \in SharedDecimals : Rate = Radix ^ (MintDecimals - d)
<1>1. PICK d \in 0 .. MintDecimals : SharedDecimals = {d}
  BY BridgeAssumption
<1>2. (CHOOSE c \in SharedDecimals : TRUE) = d
  BY <1>1
<1>3. MintDecimals - d \in 0 .. MintDecimals
  BY <1>1, OFTAssumption
<1> QED
  BY <1>1, <1>2, <1>3, OFTAssumption DEF Rate

LEMMA Worth ==
  ASSUME NEW a \in Int, NEW b \in Int
  PROVE  /\ Rate * a \in Int /\ a * Rate = Rate * a
         /\ Rate * (a + b) = Rate * a + Rate * b
         /\ Rate * (a - b) = Rate * a - Rate * b
         /\ a <= b => Rate * a <= Rate * b
         /\ a >= 0 => Rate * a >= 0
<1> DEFINE r == Rate
<1>1. r \in Nat
  BY RateType
<1> HIDE DEF r
<1>2. /\ r * a \in Int /\ a * r = r * a
      /\ r * (a + b) = r * a + r * b
      /\ r * (a - b) = r * a - r * b
  BY <1>1
<1>3. ASSUME a <= b PROVE r * a <= r * b
  <2>1. r * b - r * a = r * (b - a) /\ b - a \in Nat
    BY <1>1, <1>3
  <2> DEFINE n == b - a
  <2>2. r * n >= 0
    <3> HIDE DEF n
    <3> QED BY <1>1, <2>1 DEF n
  <2> QED
    BY <1>1, <2>1, <2>2
<1>4. ASSUME a >= 0 PROVE r * a >= 0
  BY <1>1, <1>4
<1> QED
  BY <1>2, <1>3, <1>4 DEF r

-----------------------------------------------------------------------------
(* The inductive invariant.                                                *)

EvmPacket == [to : Wallets, amount_sd : RemoteAmounts, compose : ComposeChoices]

EvmTyped ==
  /\ evm_supply \in Nat
  /\ evm_sent \in Seq(EvmPacket)
  /\ evm_received \subseteq DOMAIN outbox

\* The rate is fixed when the OFT is created.
RateKept == Exists => ld2sd_rate = Rate

\* The n-th packet of MyOFT, as the endpoint of Solana knows it.
PacketOf(sent, n) ==
  [src_eid |-> eth, nonce |-> n, sender |-> myOFT, to |-> sent[n].to,
   amount_sd |-> sent[n].amount_sd, compose |-> sent[n].compose]

(***************************************************************************)
(* The endpoint has verified the first packets of MyOFT and nothing else.  *)
(***************************************************************************)
FirstPackets(sent, k) == {PacketOf(sent, n) : n \in 1 .. k}

Sequenced ==
  \E k \in Nat : /\ k = Cardinality(verified \cup delivered)
                 /\ k <= Len(evm_sent)
                 /\ verified \cup delivered = FirstPackets(evm_sent, k)

BridgeInv == /\ IInv /\ FlowInv /\ SupplyAccounted
             /\ EvmTyped /\ RateKept /\ Sequenced

LEMMA BridgeInvInit == BridgeInit => BridgeInv
<1> SUFFICES ASSUME BridgeInit
             PROVE  BridgeInv
  OBVIOUS
<1>1. IInv /\ FlowInv /\ SupplyAccounted
  BY IInvInit, FlowInit, AccountedInit DEF BridgeInit
<1>2. EvmTyped
  <2>1. InitialMint \in Nat
    BY BridgeAssumption, AmountType
  <2>2. evm_supply \in Nat /\ evm_sent \in Seq(EvmPacket)
    BY <2>1 DEF BridgeInit
  <2>3. evm_received \subseteq DOMAIN outbox
    BY Zenon DEF BridgeInit
  <2> QED
    BY <2>2, <2>3 DEF EvmTyped
<1>3. RateKept
  BY DEF BridgeInit, Init, RateKept
<1>4. Sequenced
  <2>1. /\ verified \cup delivered = {} /\ evm_sent = <<>>
    BY DEF BridgeInit, Init
  <2>2. Cardinality(verified \cup delivered) = 0 /\ 1 .. 0 = {}
    BY <2>1, FS_EmptySet
  <2>3. 0 <= Len(evm_sent) /\ FirstPackets(evm_sent, 0) = {}
    BY <2>1, <2>2 DEF FirstPackets
  <2> QED
    BY <2>1, <2>2, <2>3 DEF Sequenced
<1> QED
  BY <1>1, <1>2, <1>3, <1>4 DEF BridgeInv

-----------------------------------------------------------------------------
(* The steps of the OFT.                                                   *)

\* A limiter that has aged is a limiter.
LEMMA AgedType ==
  ASSUME NEW l \in Limiter \cup {None}
  PROVE  Aged(l) \in Limiter \cup {None}
  BY LimiterAssumption DEF Aged, Limiter

LEMMA ElapseStep ==
  ASSUME BridgeInv, Elapse
  PROVE  IInv' /\ FlowInv' /\ SupplyAccounted'
<1>1. UNCHANGED <<now, tokenVars, mintVars, kindVars, tvl_ld, roleVars, configVars,
                  messageVars, historyVars>>
  BY DEF Elapse
<1>2. PeersTyped'
  <2>1. ASSUME NEW p \in PeerConfig
        PROVE  [p EXCEPT !.outbound_rate_limiter = Aged(@),
                         !.inbound_rate_limiter = Aged(@)] \in PeerConfig
    <3>1. /\ Aged(p.outbound_rate_limiter) \in Limiter \cup {None}
          /\ Aged(p.inbound_rate_limiter) \in Limiter \cup {None}
      BY AgedType DEF PeerConfig
    <3> DEFINE out == Aged(p.outbound_rate_limiter)
               in == Aged(p.inbound_rate_limiter)
    <3> HIDE DEF out, in
    <3>2. [p EXCEPT !.outbound_rate_limiter = out, !.inbound_rate_limiter = in] \in PeerConfig
      BY <3>1 DEF PeerConfig, out, in
    <3> QED
      BY <3>2 DEF out, in
  <2>2. peers \in [Eids -> PeerConfig \cup {None}]
    BY DEF BridgeInv, IInv, TypeOK, PeersTyped
  <2>3. ASSUME NEW e \in Eids
        PROVE  (IF peers[e] = None THEN None
                ELSE [peers[e] EXCEPT !.outbound_rate_limiter = Aged(@),
                                      !.inbound_rate_limiter = Aged(@)])
                 \in PeerConfig \cup {None}
    BY <2>1, <2>2
  <2> QED
    BY <2>3 DEF Elapse, PeersTyped
<1>3. IInv'
  <2>1. IInv
    BY DEF BridgeInv
  <2>2. TokensTyped' /\ StoreTyped' /\ MessagesTyped' /\ FinitePackets'
    BY <1>1, <2>1 DEF IInv, TypeOK, TokensTyped, StoreTyped, MessagesTyped, FinitePackets,
         tokenVars, mintVars, kindVars, roleVars, configVars, messageVars
  <2>3. Blank' /\ EscrowHoldsTvlAndFees' /\ RemoteIsBacked'
    BY <1>1, <2>1 DEF IInv, Exists, Blank, EscrowHoldsTvlAndFees, RemoteIsBacked, tokenVars,
         kindVars, configVars, historyVars
  <2> QED
    BY <1>1, <1>2, <2>1, <2>2, <2>3 DEF IInv, TypeOK, historyVars
<1>4. FlowInv' /\ SupplyAccounted'
  BY <1>1, FlowKept, AccountedKept DEF BridgeInv, tokenVars, messageVars, historyVars
<1> QED
  BY <1>3, <1>4

\* Whatever else happens is a step of the OFT, or none.
LEMMA BridgeStepIsOFTStep ==
  ASSUME BridgeInv, [BridgeNext]_bridgeVars, ~Elapse
  PROVE  [Next]_vars
<1>1. OnSolana => Next
  BY DEF OnSolana, Next, Environment
<1>2. ASSUME VerifySent PROVE Next
  <2> DEFINE p == evm_sent[NextNonce]
  <2>1. Verify(eth, myOFT, p.to, p.amount_sd, p.compose)
    BY <1>2 DEF VerifySent
  <2>2. NextNonce \in 1 .. Len(evm_sent)
    BY <1>2 DEF VerifySent, NextNonce, BridgeInv, Sequenced
  <2>3. p \in EvmPacket
    BY <2>2 DEF BridgeInv, EvmTyped
  <2>4. p.to \in Wallets /\ p.amount_sd \in RemoteAmounts /\ p.compose \in ComposeChoices
    BY <2>3 DEF EvmPacket
  <2>5. eth \in Eids /\ myOFT \in RemoteOFTs
    BY BridgeAssumption
  <2> HIDE DEF p
  <2> QED
    BY <2>1, <2>4, <2>5 DEF Next, Environment
<1>3. ASSUME \/ \E w \in Wallets, a \in RemoteAmounts, c \in ComposeChoices : EvmSend(w, a, c)
             \/ \E i \in DOMAIN outbox : EvmReceive(i)
             \/ UNCHANGED bridgeVars
      PROVE  UNCHANGED vars
  BY <1>3 DEF EvmSend, EvmReceive, bridgeVars
<1> QED
  BY <1>1, <1>2, <1>3 DEF BridgeNext

LEMMA OFTInvStep ==
  ASSUME BridgeInv, [BridgeNext]_bridgeVars
  PROVE  IInv' /\ FlowInv' /\ SupplyAccounted'
<1>1. CASE Elapse
  BY <1>1, ElapseStep
<1>2. CASE ~Elapse
  <2>1. [Next]_vars
    BY <1>2, BridgeStepIsOFTStep
  <2>2. IInv'
    BY <2>1, IInvStep DEF BridgeInv
  <2> QED
    BY <2>1, <2>2, FlowStep, AccountedStep DEF BridgeInv
<1> QED
  BY <1>1, <1>2

-----------------------------------------------------------------------------
(* The packets of MyOFT.                                                   *)

\* Only the creation of the OFT sets its kind and its rate.
LEMMA RateStep ==
  ASSUME BridgeInv, [BridgeNext]_bridgeVars
  PROVE  RateKept' /\ (Exists => UNCHANGED kindVars)
<1>1. ASSUME NEW t \in OFTTypes, NEW d \in SharedDecimals, NEW k \in Keys, InitOFT(t, d, k)
      PROVE  RateKept' /\ ~Exists
  <2>1. ld2sd_rate' = Radix ^ (MintDecimals - d) /\ ~Exists
    BY <1>1 DEF InitOFT
  <2>2. Rate = Radix ^ (MintDecimals - d)
    BY RateType
  <2> QED
    BY <2>1, <2>2 DEF RateKept
<1>2. ASSUME UNCHANGED kindVars PROVE RateKept'
  BY <1>2 DEF BridgeInv, RateKept, kindVars
<1>3. ASSUME NEW signer \in Keys, SettingOfStore(signer) \/ SettingOfPeer(signer)
      PROVE  UNCHANGED kindVars
  BY <1>3 DEF SettingOfStore, SettingOfPeer, SetAdmin, SetDelegate, SetPauser,
              SetUnpauser, SetDefaultFee, SetPausedByAdmin, SetPause, SetPeerAddress,
              SetPeerFee, SetOutboundRateLimit, SetInboundRateLimit, SetPeer
<1>4. ASSUME NEW signer \in Keys, NEW w \in Wallets, NEW fee_ld \in Withdrawals,
             WithdrawFee(signer, w, fee_ld)
      PROVE  UNCHANGED kindVars
  BY <1>4 DEF WithdrawFee
<1>5. Transfer => UNCHANGED kindVars
  <2>1. ASSUME NEW w \in Wallets, NEW eid \in Eids, NEW a \in SendAmounts,
               NEW m \in MinAmounts, NEW c \in ComposeChoices, Send(w, eid, a, m, c)
        PROVE  UNCHANGED kindVars
    BY <2>1 DEF Send
  <2>2. ASSUME NEW plan \in plans, LzReceive(plan)
        PROVE  UNCHANGED kindVars
    BY <2>2 DEF LzReceive
  <2> QED
    BY <2>1, <2>2 DEF Transfer, LzReceiveTypes
<1>6. ASSUME \/ Tick \/ Elapse \/ VerifySent \/ UNCHANGED bridgeVars
             \/ \E a \in NewAuthorities : SetMintAuthority(a)
             \/ \E w \in Wallets, a \in RemoteAmounts, c \in ComposeChoices : EvmSend(w, a, c)
             \/ \E i \in DOMAIN outbox : EvmReceive(i)
      PROVE  UNCHANGED kindVars
  BY <1>6 DEF Tick, Elapse, VerifySent, Verify, SetMintAuthority, EvmSend, EvmReceive,
              bridgeVars, vars
<1> QED
  BY <1>1, <1>2, <1>3, <1>4, <1>5, <1>6
     DEF BridgeNext, OnSolana, Administer, SettingOfStore, SettingOfPeer

\* Nothing but a send of the OFT changes the outbox, and a send appends to it.
LEMMA OutboxGrows ==
  ASSUME BridgeInv, [BridgeNext]_bridgeVars
  PROVE  /\ outbox' = outbox \/ \E p \in SentPacket : outbox' = Append(outbox, p)
         /\ DOMAIN outbox \subseteq DOMAIN outbox'
<1>1. outbox \in Seq(SentPacket) /\ outbox' \in Seq(SentPacket)
  BY OFTInvStep DEF BridgeInv, IInv, TypeOK, MessagesTyped
<1>2. outbox' = outbox \/ \E p \in SentPacket : outbox' = Append(outbox, p)
  <2>1. CASE Elapse
    BY <2>1 DEF Elapse, messageVars
  <2>2. CASE \E w \in Wallets, eid \in Eids, a \in SendAmounts, m \in MinAmounts,
                c \in ComposeChoices : Send(w, eid, a, m, c)
    <3>1. PICK p : outbox' = Append(outbox, p)
      BY <2>2 DEF Send
    <3>2. p \in SentPacket
      BY <1>1, <3>1
    <3> QED
      BY <3>1, <3>2
  <2>3. CASE ~Elapse /\ ~ \E w \in Wallets, eid \in Eids, a \in SendAmounts,
                m \in MinAmounts, c \in ComposeChoices : Send(w, eid, a, m, c)
    BY <2>3, BridgeStepIsOFTStep, OthersSendNothing
  <2> QED
    BY <2>1, <2>2, <2>3
<1>3. ASSUME NEW p \in SentPacket, outbox' = Append(outbox, p)
      PROVE  DOMAIN outbox \subseteq DOMAIN outbox'
  BY <1>1, <1>3
<1> QED
  BY <1>2, <1>3

LEMMA EvmTypedStep ==
  ASSUME BridgeInv, [BridgeNext]_bridgeVars
  PROVE  EvmTyped'
<1>1. EvmTyped /\ DOMAIN outbox \subseteq DOMAIN outbox'
  BY OutboxGrows DEF BridgeInv
<1>2. CASE UNCHANGED evmVars
  BY <1>1, <1>2 DEF EvmTyped, evmVars
<1>3. ASSUME NEW w \in Wallets, NEW a \in RemoteAmounts, NEW c \in ComposeChoices,
             EvmSend(w, a, c)
      PROVE  EvmTyped'
  <2> DEFINE p == [to |-> w, amount_sd |-> a, compose |-> c]
  <2>1. /\ evm_supply' = evm_supply - a /\ a <= evm_supply
        /\ evm_sent' = Append(evm_sent, p)
        /\ evm_received' = evm_received
    BY <1>3 DEF EvmSend
  <2>2. a \in Nat /\ evm_supply \in Nat
    BY <1>1, OFTAssumption, AmountType DEF EvmTyped
  <2>3. evm_supply' \in Nat
    BY <2>1, <2>2
  <2>4. p \in EvmPacket
    BY DEF EvmPacket
  <2> HIDE DEF p
  <2>5. evm_sent' \in Seq(EvmPacket)
    BY <1>1, <2>1, <2>4 DEF EvmTyped
  <2> QED
    BY <1>1, <2>1, <2>3, <2>5 DEF EvmTyped
<1>4. ASSUME NEW i \in DOMAIN outbox, EvmReceive(i)
      PROVE  EvmTyped'
  <2>1. outbox[i].amount_sd \in Nat
    <3>1. outbox \in Seq(SentPacket)
      BY DEF BridgeInv, IInv, TypeOK, MessagesTyped
    <3>2. outbox[i] \in SentPacket
      BY <3>1
    <3> QED
      BY <3>2, AmountType DEF SentPacket
  <2>2. /\ evm_received' = evm_received \cup {i} /\ evm_sent' = evm_sent
        /\ evm_supply' = evm_supply + outbox[i].amount_sd
    BY <1>4 DEF EvmReceive
  <2>3. evm_supply' \in Nat
    BY <1>1, <2>1, <2>2 DEF EvmTyped
  <2> QED
    BY <1>1, <2>2, <2>3 DEF EvmTyped
<1>5. UNCHANGED evmVars
      \/ (\E w \in Wallets, a \in RemoteAmounts, c \in ComposeChoices : EvmSend(w, a, c))
      \/ (\E i \in DOMAIN outbox : EvmReceive(i))
  BY DEF BridgeNext, bridgeVars, OnSolana, Elapse, VerifySent
<1> QED
  BY <1>2, <1>3, <1>4, <1>5

\* Every packet on Solana comes from the one path there is.
LEMMA OnePath ==
  ASSUME BridgeInv
  PROVE  \A p \in verified \cup delivered : p.src_eid = eth /\ p.sender = myOFT
  BY DEF BridgeInv, Sequenced, FirstPackets, PacketOf

LEMMA SequencedStep ==
  ASSUME BridgeInv, [BridgeNext]_bridgeVars
  PROVE  Sequenced'
<1> DEFINE seen == verified \cup delivered
<1>1. PICK k \in Nat : /\ k = Cardinality(seen)
                       /\ k <= Len(evm_sent)
                       /\ seen = FirstPackets(evm_sent, k)
  BY DEF BridgeInv, Sequenced
<1>2. evm_sent \in Seq(EvmPacket) /\ Len(evm_sent) \in Nat
  BY DEF BridgeInv, EvmTyped
<1>3. CASE verified' \cup delivered' = seen /\ evm_sent' = evm_sent
  BY <1>1, <1>3 DEF Sequenced
<1>4. ASSUME NEW w \in Wallets, NEW a \in RemoteAmounts, NEW c \in ComposeChoices,
             EvmSend(w, a, c)
      PROVE  Sequenced'
  <2>1. /\ \A n \in 1 .. k : evm_sent'[n] = evm_sent[n]
        /\ Len(evm_sent') = Len(evm_sent) + 1
    BY <1>1, <1>2, <1>4 DEF EvmSend
  <2>2. verified' \cup delivered' = seen
    BY <1>4 DEF EvmSend, vars, messageVars
  <2>3. FirstPackets(evm_sent', k) = FirstPackets(evm_sent, k)
    <3>1. \A n \in 1 .. k : PacketOf(evm_sent', n) = PacketOf(evm_sent, n)
      BY <2>1 DEF PacketOf
    <3> QED
      BY <3>1 DEF FirstPackets
  <2>4. k <= Len(evm_sent')
    BY <1>1, <1>2, <2>1
  <2> QED
    BY <1>1, <2>2, <2>3, <2>4 DEF Sequenced
<1>5. ASSUME VerifySent
      PROVE  Sequenced'
  <2> DEFINE sent == evm_sent[k + 1]
             known == {p \in seen : p.src_eid = eth /\ p.sender = myOFT}
             packet == [src_eid |-> eth, nonce |-> Cardinality(known) + 1,
                        sender |-> myOFT, to |-> sent.to, amount_sd |-> sent.amount_sd,
                        compose |-> sent.compose]
  <2>1. /\ verified' = verified \cup {packet} /\ delivered' = delivered
        /\ evm_sent' = evm_sent /\ k + 1 <= Len(evm_sent)
    BY <1>1, <1>5 DEF VerifySent, Verify, NextNonce, evmVars
  <2>2. known = seen
    BY OnePath
  <2>3. packet = PacketOf(evm_sent, k + 1)
    BY <1>1, <2>2 DEF PacketOf
  <2>4. packet \notin seen
    <3>1. \A n \in 1 .. k : PacketOf(evm_sent, n).nonce = n
      BY DEF PacketOf
    <3>2. PacketOf(evm_sent, k + 1).nonce = k + 1
      BY DEF PacketOf
    <3> HIDE DEF packet, seen
    <3> SUFFICES ASSUME packet \in seen
                 PROVE  FALSE
      OBVIOUS
    <3>3. PICK n \in 1 .. k : packet = PacketOf(evm_sent, n)
      BY <1>1 DEF FirstPackets
    <3>4. k + 1 = n
      BY <2>3, <3>1, <3>2, <3>3
    <3> QED
      BY <1>1, <3>4
  <2>5. IsFiniteSet(seen)
    BY FS_Union DEF BridgeInv, IInv, FinitePackets
  <2> HIDE DEF packet
  <2>6. verified' \cup delivered' = seen \cup {packet}
    BY <2>1
  <2> HIDE DEF seen
  <2>7. Cardinality(seen \cup {packet}) = k + 1
    BY <1>1, <2>4, <2>5, FS_AddElement
  <2>8. FirstPackets(evm_sent, k + 1) = FirstPackets(evm_sent, k) \cup {packet}
    <3>1. 1 .. (k + 1) = (1 .. k) \cup {k + 1}
      BY <1>1
    <3> QED
      BY <2>3, <3>1 DEF FirstPackets
  <2>9. /\ k + 1 \in Nat
        /\ k + 1 = Cardinality(verified' \cup delivered')
        /\ k + 1 <= Len(evm_sent')
        /\ verified' \cup delivered' = FirstPackets(evm_sent', k + 1)
    <3>1. seen = FirstPackets(evm_sent, k)
      BY <1>1
    <3>2. verified' \cup delivered' = FirstPackets(evm_sent, k + 1)
      BY ONLY <2>6, <2>8, <3>1
    <3>3. evm_sent' = evm_sent /\ k + 1 <= Len(evm_sent) /\ k + 1 \in Nat
      BY <1>1, <2>1
    <3> QED
      BY ONLY <2>6, <2>7, <3>2, <3>3
  <2> QED
    BY <2>9 DEF Sequenced
<1>6. ASSUME OnSolana \/ Elapse \/ UNCHANGED bridgeVars \/ \E i \in DOMAIN outbox : EvmReceive(i)
      PROVE  verified' \cup delivered' = seen /\ evm_sent' = evm_sent
  <2>1. evm_sent' = evm_sent
    BY <1>6 DEF OnSolana, Elapse, bridgeVars, evmVars, EvmReceive
  <2>2. ASSUME NEW plan \in plans, LzReceive(plan)
        PROVE  verified' \cup delivered' = seen
    BY <2>2 DEF LzReceive, ClearedOf
  <2>3. ASSUME NEW w \in Wallets, NEW eid \in Eids, NEW a \in SendAmounts,
               NEW m \in MinAmounts, NEW c \in ComposeChoices, Send(w, eid, a, m, c)
        PROVE  verified' \cup delivered' = seen
    BY <2>3 DEF Send
  <2>4. ASSUME \/ Administer \/ \E packet \in verified : LzReceiveTypes(packet)
               \/ Tick \/ \E a \in NewAuthorities : SetMintAuthority(a)
        PROVE  verified' \cup delivered' = seen
    BY <2>4 DEF Administer, InitOFT, SetAdmin, SetDelegate, SetPauser, SetUnpauser,
           SetDefaultFee, SetPausedByAdmin, SetPause, SetPeerAddress, SetPeerFee,
           SetOutboundRateLimit, SetInboundRateLimit, SetPeer, WithdrawFee,
           LzReceiveTypes, Tick, SetMintAuthority, messageVars
  <2>5. ASSUME Elapse \/ UNCHANGED bridgeVars \/ \E i \in DOMAIN outbox : EvmReceive(i)
        PROVE  verified' \cup delivered' = seen
    BY <2>5 DEF Elapse, EvmReceive, bridgeVars, vars, messageVars
  <2> QED
    BY <1>6, <2>1, <2>2, <2>3, <2>4, <2>5 DEF OnSolana, Transfer
<1> QED
  BY <1>3, <1>4, <1>5, <1>6 DEF BridgeNext

LEMMA BridgeInvStep == BridgeInv /\ [BridgeNext]_bridgeVars => BridgeInv'
  BY OFTInvStep, RateStep, EvmTypedStep, SequencedStep DEF BridgeInv

(***************************************************************************)
(* The inductive invariant of the bridge.                                  *)
(***************************************************************************)
THEOREM BridgeInductive == BridgeSpec => []BridgeInv
  BY BridgeInvInit, BridgeInvStep, PTL DEF BridgeSpec

-----------------------------------------------------------------------------
(* The ledger that the two programs keep.                                  *)

Held == [solana |-> IF oft_type = "Adapter" THEN supply - tvl_ld ELSE supply,
         evm |-> Rate * evm_supply]

Departed == [solana |-> Len(evm_sent), evm |-> Len(outbox)]

ToEvm == {[to |-> "evm", number |-> i, amount |-> Rate * outbox[i].amount_sd] :
            i \in DOMAIN outbox \ evm_received}

ToSolana == {[to |-> "solana", number |-> n, amount |-> Rate * evm_sent[n].amount_sd] :
               n \in Undelivered}

Flight == ToEvm \cup ToSolana

Whole == {Rate * amount_sd : amount_sd \in Amount}

LEMMA OtherSide == Ledger!Other("evm") = "solana" /\ Ledger!Other("solana") = "evm"
  BY DEF Ledger!Other, Ledger!Sides

\* A step of the ledger, in the terms of the bridge.
LEMMA DepartToEvm ==
  ASSUME NEW n \in Whole, n <= Held.solana,
         Held' = [solana |-> Held.solana - n, evm |-> Held.evm],
         Departed' = [solana |-> Departed.solana, evm |-> Departed.evm + 1],
         Flight' = Flight \cup {[to |-> "evm", number |-> Departed.evm + 1, amount |-> n]}
  PROVE  Ledger!Next
<1>1. Ledger!Depart("evm", n)
  <2>1. n <= Held[Ledger!Other("evm")]
    BY OtherSide
  <2>2. Held' = [Held EXCEPT ![Ledger!Other("evm")] = @ - n]
    BY OtherSide DEF Held
  <2>3. Departed' = [Departed EXCEPT !["evm"] = @ + 1]
    BY DEF Departed
  <2>4. Flight' = Flight \cup {[to |-> "evm", number |-> Departed'["evm"], amount |-> n]}
    OBVIOUS
  <2> QED
    BY ONLY <2>1, <2>2, <2>3, <2>4, Zenon
       DEF Ledger!Depart, Held, Departed, Flight, ToEvm, ToSolana
<1> QED
  BY <1>1 DEF Ledger!Next, Ledger!Sides, Whole

LEMMA DepartToSolana ==
  ASSUME NEW n \in Whole, n <= Held.evm,
         Held' = [solana |-> Held.solana, evm |-> Held.evm - n],
         Departed' = [solana |-> Departed.solana + 1, evm |-> Departed.evm],
         Flight' = Flight \cup {[to |-> "solana", number |-> Departed.solana + 1, amount |-> n]}
  PROVE  Ledger!Next
<1>1. Ledger!Depart("solana", n)
  <2>1. n <= Held[Ledger!Other("solana")]
    BY OtherSide
  <2>2. Held' = [Held EXCEPT ![Ledger!Other("solana")] = @ - n]
    BY OtherSide DEF Held
  <2>3. Departed' = [Departed EXCEPT !["solana"] = @ + 1]
    BY DEF Departed
  <2>4. Flight' = Flight \cup {[to |-> "solana", number |-> Departed'["solana"], amount |-> n]}
    OBVIOUS
  <2> QED
    BY ONLY <2>1, <2>2, <2>3, <2>4, Zenon
       DEF Ledger!Depart, Held, Departed, Flight, ToEvm, ToSolana
<1> QED
  BY <1>1 DEF Ledger!Next, Ledger!Sides, Whole

LEMMA ArriveOnEvm ==
  ASSUME NEW t \in Flight, t.to = "evm", Flight' = Flight \ {t}, Departed' = Departed,
         Held' = [solana |-> Held.solana, evm |-> Held.evm + t.amount]
  PROVE  Ledger!Next
<1>1. Ledger!Arrive(t)
  BY DEF Ledger!Arrive, Held, Departed, Flight, ToEvm, ToSolana
<1> QED
  BY <1>1 DEF Ledger!Next, Flight, ToEvm, ToSolana

LEMMA ArriveOnSolana ==
  ASSUME NEW t \in Flight, t.to = "solana", Flight' = Flight \ {t}, Departed' = Departed,
         Held' = [solana |-> Held.solana + t.amount, evm |-> Held.evm]
  PROVE  Ledger!Next
<1>1. Ledger!Arrive(t)
  BY DEF Ledger!Arrive, Held, Departed, Flight, ToEvm, ToSolana
<1> QED
  BY <1>1 DEF Ledger!Next, Flight, ToEvm, ToSolana

LEMMA LedgerRests ==
  ASSUME UNCHANGED <<Held, Departed, Flight>>
  PROVE  UNCHANGED Ledger!vars
  BY DEF Ledger!vars, Held, Departed, Flight, ToEvm, ToSolana

-----------------------------------------------------------------------------
(* Each step of the bridge is one of the ledger, or leaves it alone.       *)

LEMMA BridgeTypes ==
  ASSUME BridgeInv
  PROVE  /\ TokensTyped /\ StoreTyped /\ PeersTyped
         /\ outbox \in Seq(SentPacket) /\ Len(outbox) \in Nat
         /\ DOMAIN outbox = 1 .. Len(outbox)
         /\ \A i \in DOMAIN outbox : outbox[i].amount_sd \in Amount
         /\ evm_sent \in Seq(EvmPacket) /\ Len(evm_sent) \in Nat
         /\ DOMAIN evm_sent = 1 .. Len(evm_sent)
         /\ \A n \in DOMAIN evm_sent : evm_sent[n].amount_sd \in Amount
         /\ evm_received \subseteq DOMAIN outbox
         /\ supply \in Nat /\ tvl_ld \in Nat /\ evm_supply \in Nat
<1>1. /\ TokensTyped /\ StoreTyped /\ PeersTyped /\ outbox \in Seq(SentPacket)
      /\ evm_sent \in Seq(EvmPacket) /\ evm_received \subseteq DOMAIN outbox
      /\ evm_supply \in Nat
  BY DEF BridgeInv, IInv, TypeOK, MessagesTyped, EvmTyped
<1>2. supply \in Nat /\ tvl_ld \in Nat
  BY <1>1, AmountType DEF TokensTyped, StoreTyped
<1>3. \A i \in DOMAIN outbox : outbox[i].amount_sd \in Amount
  <2>1. \A p \in SentPacket : p.amount_sd \in Amount
    BY DEF SentPacket
  <2> QED
    BY <1>1, <2>1
<1>4. \A n \in DOMAIN evm_sent : evm_sent[n].amount_sd \in Amount
  <2>1. \A p \in EvmPacket : p.amount_sd \in Amount
    BY OFTAssumption DEF EvmPacket
  <2> QED
    BY <1>1, <2>1
<1> QED
  BY <1>1, <1>2, <1>3, <1>4

LEMMA PartOfWhole ==
  ASSUME NEW e \in Int, NEW t \in Int, NEW f \in Int, NEW h \in Nat, NEW s \in Int,
         e = t + f, f >= 0, e + h <= s
  PROVE  t <= s
  OBVIOUS

\* No step makes the TVL exceed the supply that it is a part of.
LEMMA TvlWithinSupply ==
  ASSUME BridgeInv', Exists'
  PROVE  tvl_ld' <= supply'
<1>1. /\ IInv' /\ TokensTyped' /\ StoreTyped' /\ fees_ld' \in Int
      /\ escrow' = tvl_ld' + fees_ld' /\ fees_ld' >= 0
  BY DEF BridgeInv, IInv, TypeOK, EscrowHoldsTvlAndFees
<1>2. escrow' \in Nat /\ withheld' \in Nat /\ supply' \in Nat /\ tvl_ld' \in Nat
  BY <1>1, AmountType DEF TokensTyped, StoreTyped
<1>3. balance' \in [Wallets -> Amount]
  BY <1>1 DEF TokensTyped
<1>4. supply' - InitialSupply = HeldBy(balance') - HeldBy(InitialBalance) + escrow' + withheld'
  BY DEF BridgeInv, SupplyAccounted
<1>5. escrow' + withheld' <= supply'
  BY ONLY <1>2, <1>3, <1>4, EscrowWithinSupply
<1>6. escrow' = tvl_ld' + fees_ld' /\ fees_ld' \in Int /\ fees_ld' >= 0
  BY <1>1
<1>7. escrow' \in Int /\ tvl_ld' \in Int /\ withheld' \in Nat /\ supply' \in Int
  BY ONLY <1>2
<1>8. escrow' = tvl_ld' + fees_ld'
  BY ONLY <1>6
<1>9. fees_ld' \in Int /\ fees_ld' >= 0
  BY ONLY <1>6
<1> QED
  BY ONLY <1>7, <1>8, <1>9, <1>5, PartOfWhole

LEMMA SendDeparts ==
  ASSUME BridgeInv, BridgeInv', UNCHANGED evmVars, NEW w \in Wallets, NEW eid \in Eids,
         NEW a \in SendAmounts, NEW m \in MinAmounts, NEW c \in ComposeChoices,
         Send(w, eid, a, m, c)
  PROVE  Ledger!Next
<1> DEFINE peer == peers[eid]
           r == ReceiptOf(peer, a)
           sd == Ld2Sd(ld2sd_rate, r.received)
           packet == [dst_eid |-> eid, receiver |-> peer.peer_address, amount_sd |-> sd,
                      compose |-> c, from |-> w, asked_ld |-> a, min_ld |-> m]
           n == Rate * sd
           next == Len(outbox) + 1
<1>1. /\ Exists /\ peer # None
      /\ \/ oft_type = "Adapter" /\ DebitAdapter(w, r)
         \/ oft_type = "Native" /\ DebitNative(w, r)
      /\ outbox' = Append(outbox, packet)
      /\ UNCHANGED <<kindVars, delivered>>
  BY DEF Send, Open, ReceiptOf
<1>2. peer \in PeerConfig /\ a \in Amount
  BY <1>1, BridgeTypes, OFTAssumption DEF PeersTyped
<1>3. /\ r.sent \in Nat /\ r.received \in Nat /\ r.fee \in Nat
      /\ sd \in Amount
      /\ Sd2Ld(ld2sd_rate, sd) = r.received
      /\ oft_type # "Adapter" => r.sent = r.received + r.fee
  BY <1>2, BridgeTypes, ReceiptOfSound
<1>4. r.received = n
  <2>1. ld2sd_rate = Rate
    BY <1>1 DEF BridgeInv, RateKept
  <2> HIDE DEF sd, r
  <2>2. sd \in Int /\ Rate \in Int
    BY <1>3, AmountType, RateType
  <2> QED
    BY <1>3, <2>1, <2>2 DEF Sd2Ld
<1>5. n \in Whole
  BY <1>3 DEF Whole
<1>6. packet.amount_sd = sd
  OBVIOUS
<1> HIDE DEF sd, n, packet
<1>7. /\ n <= Held.solana
      /\ Held' = [solana |-> Held.solana - n, evm |-> Held.evm]
  <2>1. evm_supply' = evm_supply /\ oft_type' = oft_type
    BY <1>1 DEF evmVars, kindVars
  <2>2. CASE oft_type = "Adapter" /\ DebitAdapter(w, r)
    <3>1. tvl_ld' = tvl_ld + n /\ supply' = supply
      BY <1>4, <2>2 DEF DebitAdapter, LockedAmount
    <3>2. tvl_ld' <= supply'
      BY <1>1, <2>1, TvlWithinSupply
    <3>3. n \in Nat
      BY <1>3, <1>4
    <3>4. supply \in Nat /\ tvl_ld \in Nat
      BY BridgeTypes
    <3> HIDE DEF r
    <3> QED
      BY <2>1, <2>2, <3>1, <3>2, <3>3, <3>4 DEF Held
  <2>3. CASE oft_type = "Native" /\ DebitNative(w, r)
    <3>1. BurnedAmount(r) = n
      BY <1>3, <1>4, <2>3 DEF BurnedAmount
    <3>2. supply' = supply - n /\ supply >= n /\ tvl_ld' = tvl_ld
      BY <2>3, <3>1 DEF DebitNative
    <3> HIDE DEF r
    <3> QED
      BY <2>1, <2>3, <3>2 DEF Held
  <2> QED
    BY <1>1, <2>2, <2>3
<1>8. Departed' = [solana |-> Departed.solana, evm |-> Departed.evm + 1]
  BY <1>1, BridgeTypes DEF Departed, evmVars
<1>9. Flight' = Flight \cup {[to |-> "evm", number |-> Departed.evm + 1, amount |-> n]}
  <2>1. ToSolana' = ToSolana
    BY <1>1 DEF ToSolana, Undelivered, evmVars
  <2>2. /\ DOMAIN outbox' = DOMAIN outbox \cup {next}
        /\ next \notin DOMAIN outbox /\ next \notin evm_received
        /\ \A i \in DOMAIN outbox : outbox'[i] = outbox[i]
        /\ outbox'[next] = packet
    BY <1>1, BridgeTypes
  <2>3. ToEvm' = ToEvm \cup {[to |-> "evm", number |-> next, amount |-> n]}
    <3>1. evm_received' = evm_received
      BY DEF evmVars
    <3>2. Rate * outbox'[next].amount_sd = n
      BY <1>6, <2>2 DEF n
    <3> HIDE DEF next
    <3> QED
      BY <2>2, <3>1, <3>2 DEF ToEvm
  <2>4. Departed.evm + 1 = next
    BY DEF Departed
  <2> HIDE DEF next
  <2> QED
    BY <2>1, <2>3, <2>4 DEF Flight
<1> QED
  BY <1>5, <1>7, <1>8, <1>9, DepartToEvm

LEMMA EvmSendDeparts ==
  ASSUME BridgeInv, NEW w \in Wallets, NEW a \in RemoteAmounts, NEW c \in ComposeChoices,
         EvmSend(w, a, c)
  PROVE  Ledger!Next
<1> DEFINE packet == [to |-> w, amount_sd |-> a, compose |-> c]
           n == Rate * a
           next == Len(evm_sent) + 1
<1>1. /\ a <= evm_supply /\ evm_supply' = evm_supply - a
      /\ evm_sent' = Append(evm_sent, packet)
      /\ UNCHANGED <<supply, tvl_ld, oft_type, outbox, delivered, evm_received>>
  BY DEF EvmSend, vars, tokenVars, kindVars, messageVars
<1>2. a \in Amount /\ a \in Nat /\ evm_supply \in Nat
  BY OFTAssumption, AmountType, BridgeTypes
<1>3. n \in Whole
  BY <1>2 DEF Whole
<1>4. n <= Held.evm /\ Held' = [solana |-> Held.solana, evm |-> Held.evm - n]
  <2>1. Rate * (evm_supply - a) = Rate * evm_supply - n /\ n <= Rate * evm_supply
    <3>1. a \in Int /\ evm_supply \in Int /\ a <= evm_supply
      BY <1>1, <1>2
    <3> QED
      BY ONLY <3>1, Worth
  <2> HIDE DEF n
  <2> QED
    BY <1>1, <2>1 DEF Held
<1>5. Departed' = [solana |-> Departed.solana + 1, evm |-> Departed.evm]
  BY <1>1, BridgeTypes DEF Departed
<1>6. packet.amount_sd = a
  OBVIOUS
<1> HIDE DEF packet
<1>7. Flight' = Flight \cup {[to |-> "solana", number |-> Departed.solana + 1, amount |-> n]}
  <2>1. ToEvm' = ToEvm
    BY <1>1 DEF ToEvm
  <2>2. /\ DOMAIN evm_sent' = DOMAIN evm_sent \cup {next}
        /\ next \notin DOMAIN evm_sent
        /\ \A i \in DOMAIN evm_sent : evm_sent'[i] = evm_sent[i]
        /\ evm_sent'[next] = packet
    BY <1>1, BridgeTypes
  <2>3. \A p \in delivered : p.nonce # next
    <3>1. PICK k \in Nat : /\ k <= Len(evm_sent)
                           /\ verified \cup delivered = FirstPackets(evm_sent, k)
      BY DEF BridgeInv, Sequenced
    <3>2. Len(evm_sent) \in Nat
      BY BridgeTypes
    <3>3. ASSUME NEW p \in delivered PROVE p.nonce # next
      <4>1. PICK i \in 1 .. k : p = PacketOf(evm_sent, i)
        BY <3>1 DEF FirstPackets
      <4>2. p.nonce = i
        BY <4>1 DEF PacketOf
      <4> QED
        BY <3>1, <3>2, <4>2
    <3> QED
      BY <3>3
  <2> HIDE DEF next
  <2>4. Undelivered' = Undelivered \cup {next}
    BY <1>1, <2>2, <2>3 DEF Undelivered
  <2>5. Rate * evm_sent'[next].amount_sd = n
    BY <1>6, <2>2
  <2>6. ToSolana' = ToSolana \cup {[to |-> "solana", number |-> next, amount |-> n]}
    <3>1. Undelivered \subseteq DOMAIN evm_sent
      BY DEF Undelivered
    <3> QED
      BY <2>2, <2>4, <2>5, <3>1 DEF ToSolana
  <2>7. Departed.solana + 1 = next
    BY DEF Departed, next
  <2> QED
    BY <2>1, <2>6, <2>7 DEF Flight
<1> QED
  BY <1>3, <1>4, <1>5, <1>7, DepartToSolana

LEMMA EvmReceiveArrives ==
  ASSUME BridgeInv, NEW i \in DOMAIN outbox, EvmReceive(i)
  PROVE  Ledger!Next
<1> DEFINE x == outbox[i].amount_sd
           t == [to |-> "evm", number |-> i, amount |-> Rate * x]
<1>1. /\ i \notin evm_received /\ evm_received' = evm_received \cup {i}
      /\ evm_supply' = evm_supply + x
      /\ UNCHANGED <<supply, tvl_ld, oft_type, outbox, delivered, evm_sent>>
  BY DEF EvmReceive, vars, tokenVars, kindVars, messageVars
<1>2. x \in Nat /\ evm_supply \in Nat
  BY BridgeTypes, AmountType
<1>3. t \in Flight
  BY <1>1 DEF Flight, ToEvm
<1>4. Held' = [solana |-> Held.solana, evm |-> Held.evm + t.amount]
  <2>1. Rate * (evm_supply + x) = Rate * evm_supply + Rate * x
    <3> HIDE DEF x
    <3>1. x \in Int /\ evm_supply \in Int
      BY <1>2
    <3> QED
      BY ONLY <3>1, Worth
  <2> HIDE DEF x
  <2> QED
    BY <1>1, <2>1 DEF Held
<1>5. Departed' = Departed
  BY <1>1 DEF Departed
<1>6. Flight' = Flight \ {t}
  <2>1. ToSolana' = ToSolana /\ t \notin ToSolana
    BY <1>1 DEF ToSolana, Undelivered
  <2>2. ToEvm' = ToEvm \ {t}
    <3>1. ToEvm' = {[to |-> "evm", number |-> j, amount |-> Rate * outbox[j].amount_sd] :
                      j \in (DOMAIN outbox \ evm_received) \ {i}}
      BY <1>1 DEF ToEvm
    <3> QED
      BY <3>1 DEF ToEvm
  <2> HIDE DEF t
  <2> QED
    BY <2>1, <2>2 DEF Flight
<1> QED
  BY <1>3, <1>4, <1>5, <1>6, ArriveOnEvm

LEMMA LzReceiveArrives ==
  ASSUME BridgeInv, UNCHANGED evmVars, NEW plan \in plans, LzReceive(plan)
  PROVE  Ledger!Next
<1> DEFINE packet == plan.packet
           n == packet.nonce
           x == packet.amount_sd
           t == [to |-> "solana", number |-> n, amount |-> Rate * x]
<1>1. /\ Exists /\ packet \in verified
      /\ delivered' = delivered \cup {packet}
      /\ \/ oft_type = "Adapter" /\ CreditAdapter(packet, Sd2Ld(ld2sd_rate, x))
         \/ oft_type = "Native" /\ CreditNative(packet, Sd2Ld(ld2sd_rate, x),
                                                plan.mint_authority)
      /\ UNCHANGED <<oft_type, outbox>>
  BY DEF LzReceive, Open, kindVars
<1> HIDE DEF packet
<1>2. PICK k \in Nat : /\ k <= Len(evm_sent)
                       /\ verified \cup delivered = FirstPackets(evm_sent, k)
  BY DEF BridgeInv, Sequenced
<1>3. /\ n \in 1 .. k /\ packet = PacketOf(evm_sent, n)
      /\ \A p \in delivered : p = PacketOf(evm_sent, p.nonce)
  <2>1. \A p \in verified \cup delivered : p.nonce \in 1 .. k /\ p = PacketOf(evm_sent, p.nonce)
    <3>1. ASSUME NEW p \in verified \cup delivered
          PROVE  p.nonce \in 1 .. k /\ p = PacketOf(evm_sent, p.nonce)
      <4>1. PICK j \in 1 .. k : p = PacketOf(evm_sent, j)
        BY <1>2, <3>1 DEF FirstPackets
      <4>2. p.nonce = j
        BY <4>1 DEF PacketOf
      <4> QED
        BY <4>1, <4>2
    <3> QED
      BY <3>1
  <2> QED
    BY <1>1, <2>1
<1>4. n \in DOMAIN evm_sent /\ x = evm_sent[n].amount_sd /\ x \in Amount /\ x \in Nat
  <2>1. n \in DOMAIN evm_sent
    BY <1>2, <1>3, BridgeTypes
  <2>2. x = evm_sent[n].amount_sd
    BY <1>3 DEF PacketOf
  <2> QED
    BY <2>1, <2>2, BridgeTypes, AmountType
<1>5. \A p \in delivered : p.nonce # n
  BY <1>1, <1>3 DEF BridgeInv, FlowInv
<1>6. n \in Undelivered /\ Undelivered' = Undelivered \ {n}
  BY <1>1, <1>4, <1>5 DEF Undelivered, evmVars
<1>7. t \in Flight
  BY <1>4, <1>6 DEF Flight, ToSolana
<1>8. Sd2Ld(ld2sd_rate, x) = Rate * x
  <2>1. ld2sd_rate = Rate /\ x \in Int
    BY <1>1, <1>4 DEF BridgeInv, RateKept
  <2> HIDE DEF x
  <2>2. x * Rate = Rate * x
    BY ONLY <2>1, Worth
  <2> QED
    BY <2>1, <2>2 DEF Sd2Ld
<1>9. Held' = [solana |-> Held.solana + t.amount, evm |-> Held.evm]
  <2> DEFINE amount == Rate * x
  <2>1. supply \in Nat /\ tvl_ld \in Nat /\ amount \in Int
    <3>1. supply \in Nat /\ tvl_ld \in Nat
      BY BridgeTypes
    <3>2. x \in Int
      BY <1>4
    <3> HIDE DEF x
    <3>3. amount \in Int
      BY ONLY <3>2, Worth DEF amount
    <3> QED
      BY <3>1, <3>3
  <2>2. \/ oft_type = "Adapter" /\ tvl_ld' = tvl_ld - amount /\ supply' = supply
        \/ oft_type = "Native" /\ supply' = supply + amount /\ tvl_ld' = tvl_ld
    BY <1>1, <1>8 DEF CreditAdapter, CreditNative
  <2>3. evm_supply' = evm_supply /\ oft_type' = oft_type
    BY <1>1 DEF evmVars
  <2>4. t.amount = amount
    OBVIOUS
  <2> HIDE DEF amount, t
  <2> QED
    BY <2>1, <2>2, <2>3, <2>4 DEF Held
<1>10. Departed' = Departed
  BY <1>1 DEF Departed, evmVars
<1>11. Flight' = Flight \ {t}
  <2>1. ToEvm' = ToEvm /\ t \notin ToEvm
    BY <1>1 DEF ToEvm, evmVars
  <2>2. ToSolana' = ToSolana \ {t}
    <3>1. ToSolana' = {[to |-> "solana", number |-> j, amount |-> Rate * evm_sent[j].amount_sd] :
                         j \in Undelivered \ {n}}
      BY <1>6 DEF ToSolana, evmVars
    <3> HIDE DEF n, x
    <3> QED
      BY <1>4, <3>1 DEF ToSolana
  <2> HIDE DEF t
  <2> QED
    BY <2>1, <2>2 DEF Flight
<1> QED
  BY <1>7, <1>9, <1>10, <1>11, ArriveOnSolana

\* What neither sends nor delivers leaves the ledger as it is.
LEMMA InitOFTRests ==
  ASSUME BridgeInv, UNCHANGED evmVars, NEW type, NEW d, NEW k, InitOFT(type, d, k)
  PROVE  UNCHANGED <<Held, Departed, Flight>>
<1>1. /\ oft_type = None /\ supply' = supply /\ tvl_ld' = 0
      /\ UNCHANGED <<outbox, delivered, evm_supply, evm_sent, evm_received>>
  BY DEF InitOFT, tokenVars, messageVars, evmVars
<1>2. supply \in Int /\ supply - 0 = supply
  BY BridgeTypes
<1>3. None # "Adapter"
  BY OFTAssumption
<1>4. Held' = Held
  BY <1>1, <1>2, <1>3 DEF Held
<1>5. Departed' = Departed /\ Flight' = Flight
  BY <1>1 DEF Departed, Flight, ToEvm, ToSolana, Undelivered
<1> QED
  BY <1>4, <1>5

LEMMA OthersRest ==
  ASSUME BridgeInv,
         \/ /\ \/ Administer \/ Tick
               \/ \E p \in verified : LzReceiveTypes(p)
               \/ \E a \in NewAuthorities : SetMintAuthority(a)
            /\ UNCHANGED evmVars
         \/ Elapse \/ VerifySent \/ UNCHANGED bridgeVars
  PROVE  UNCHANGED <<Held, Departed, Flight>>
<1>1. CASE \E type \in OFTTypes, d \in SharedDecimals, k \in Keys :
             InitOFT(type, d, k) /\ UNCHANGED evmVars
  BY <1>1, InitOFTRests
<1>2. CASE UNCHANGED <<supply, tvl_ld, oft_type, outbox, delivered, evmVars>>
  <2>1. UNCHANGED <<supply, tvl_ld, oft_type, outbox, delivered,
                    evm_supply, evm_sent, evm_received>>
    BY <1>2 DEF evmVars
  <2> QED
    BY <2>1 DEF Held, Departed, Flight, ToEvm, ToSolana, Undelivered
<1>3. ASSUME Administer,
             ~ \E type \in OFTTypes, d \in SharedDecimals, k \in Keys : InitOFT(type, d, k)
      PROVE  UNCHANGED <<supply, tvl_ld, oft_type, outbox, delivered>>
  BY <1>3 DEF Administer, SetAdmin, SetDelegate, SetPauser, SetUnpauser, SetDefaultFee,
         SetPausedByAdmin, SetPause, SetPeerAddress, SetPeerFee, SetOutboundRateLimit,
         SetInboundRateLimit, SetPeer, WithdrawFee, tokenVars, kindVars, messageVars
<1>4. ASSUME Tick \/ (\E p \in verified : LzReceiveTypes(p))
                  \/ (\E a \in NewAuthorities : SetMintAuthority(a))
      PROVE  UNCHANGED <<supply, tvl_ld, oft_type, outbox, delivered>>
  BY <1>4 DEF Tick, LzReceiveTypes, SetMintAuthority, tokenVars, kindVars, messageVars
<1>5. ASSUME Elapse \/ VerifySent \/ UNCHANGED bridgeVars
      PROVE  UNCHANGED <<supply, tvl_ld, oft_type, outbox, delivered, evmVars>>
  BY <1>5 DEF Elapse, VerifySent, Verify, bridgeVars, vars, tokenVars, kindVars, messageVars
<1> QED
  BY <1>1, <1>2, <1>3, <1>4, <1>5

LEMMA LedgerStep ==
  ASSUME BridgeInv, BridgeInv', [BridgeNext]_bridgeVars
  PROVE  [Ledger!Next]_(Ledger!vars)
<1>1. ASSUME UNCHANGED evmVars,
             NEW w \in Wallets, NEW eid \in Eids, NEW a \in SendAmounts,
             NEW m \in MinAmounts, NEW c \in ComposeChoices, Send(w, eid, a, m, c)
      PROVE  Ledger!Next
  BY <1>1, SendDeparts
<1>2. ASSUME UNCHANGED evmVars, NEW plan \in plans, LzReceive(plan)
      PROVE  Ledger!Next
  BY <1>2, LzReceiveArrives
<1>3. ASSUME NEW w \in Wallets, NEW a \in RemoteAmounts, NEW c \in ComposeChoices,
             EvmSend(w, a, c)
      PROVE  Ledger!Next
  BY <1>3, EvmSendDeparts
<1>4. ASSUME NEW i \in DOMAIN outbox, EvmReceive(i)
      PROVE  Ledger!Next
  BY <1>4, EvmReceiveArrives
<1>5. ASSUME \/ /\ \/ Administer \/ Tick
                   \/ \E p \in verified : LzReceiveTypes(p)
                   \/ \E a \in NewAuthorities : SetMintAuthority(a)
                /\ UNCHANGED evmVars
             \/ Elapse \/ VerifySent \/ UNCHANGED bridgeVars
      PROVE  UNCHANGED Ledger!vars
  BY <1>5, OthersRest, LedgerRests
<1> QED
  BY <1>1, <1>2, <1>3, <1>4, <1>5 DEF BridgeNext, OnSolana, Transfer

LEMMA LedgerInit == BridgeInit => Ledger!Init
<1> SUFFICES ASSUME BridgeInit
             PROVE  Ledger!Init
  OBVIOUS
<1>1. /\ oft_type = None /\ supply = InitialSupply /\ outbox = <<>> /\ delivered = {}
      /\ evm_supply = InitialMint /\ evm_sent = <<>> /\ evm_received = {}
  BY DEF BridgeInit, Init
<1>2. None # "Adapter"
  BY OFTAssumption
<1>3. Held = [solana |-> InitialSupply, evm |-> Rate * InitialMint]
  BY <1>1, <1>2 DEF Held
<1>4. Departed = [s \in Ledger!Sides |-> 0]
  BY <1>1 DEF Departed, Ledger!Sides
<1>5. Flight = {}
  BY <1>1 DEF Flight, ToEvm, ToSolana, Undelivered
<1> QED
  BY <1>3, <1>4, <1>5, Zenon
     DEF Ledger!Init, Held, Departed, Flight, ToEvm, ToSolana

(***************************************************************************)
(* The two programs implement the ledger of a bridge: whatever either side *)
(* burns or locks is in flight until the other side mints or unlocks it,   *)
(* once and in full, whatever is administered meanwhile (send.rs,          *)
(* lz_receive.rs and the inherited OFT of MyOFT.sol).                      *)
(***************************************************************************)
THEOREM Refinement == BridgeSpec => BridgeIsLedger
<1>1. BridgeInv /\ BridgeInv' /\ [BridgeNext]_bridgeVars => [Ledger!Next]_(Ledger!vars)
  BY LedgerStep
<1> QED
  BY <1>1, LedgerInit, BridgeInductive, PTL DEF BridgeSpec, BridgeIsLedger, Ledger!Spec
=============================================================================
