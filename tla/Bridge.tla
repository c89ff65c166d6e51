------------------------------- MODULE Bridge -------------------------------
(***************************************************************************)
(* The OFT program on Solana together with MyOFT on an EVM chain.  The     *)
(* packets that arrive on Solana are those that MyOFT sent: the endpoint   *)
(* verifies them in their order and the executor delivers them in any.     *)
(* MyOFT inherits everything but its constructor; of what it inherits this *)
(* module has the burning of a send and the minting of a delivery, in      *)
(* units of the shared decimals.                                           *)
(***************************************************************************)
EXTENDS OFT

CONSTANTS
  eth, myOFT,   \* the EVM chain and the address of MyOFT
  InitialMint   \* what its constructor mints

ASSUME BridgeAssumption ==
  /\ Eids = {eth} /\ myOFT \in RemoteOFTs
  /\ InitialMint \in Amount
  \* MyOFT's decimals are given, and init_oft refuses more than the mint has.
  /\ \E d \in 0 .. MintDecimals : SharedDecimals = {d}
  \* A bucket is full after MaxTime seconds, which Elapse relies upon.
  /\ \A l, r \in RateLimits \ {None} :
       None \notin {l.capacity, r.refill_per_second} /\ r.refill_per_second > 0 =>
         l.capacity <= MaxTime * r.refill_per_second

VARIABLES
  evm_supply,   \* MyOFT's supply
  evm_sent,     \* the packets that MyOFT sent, in order
  evm_received  \* the packets of outbox that it received

evmVars == <<evm_supply, evm_sent, evm_received>>
bridgeVars == <<vars, evmVars>>

BridgeInit ==
  /\ Init
  /\ evm_supply = InitialMint /\ evm_sent = <<>> /\ evm_received = {}

-----------------------------------------------------------------------------
(* MyOFT.                                                                  *)

EvmSend(to, amount_sd, compose) ==
  /\ Len(evm_sent) < MaxVerified
  /\ amount_sd <= evm_supply
  /\ evm_supply' = evm_supply - amount_sd
  /\ evm_sent' = Append(evm_sent, [to |-> to, amount_sd |-> amount_sd, compose |-> compose])
  /\ UNCHANGED <<vars, evm_received>>

\* A packet for another address is not MyOFT's to receive.
EvmReceive(i) ==
  /\ i \notin evm_received /\ outbox[i].receiver = myOFT
  /\ evm_received' = evm_received \cup {i}
  /\ evm_supply' = evm_supply + outbox[i].amount_sd
  /\ UNCHANGED <<vars, evm_sent>>

-----------------------------------------------------------------------------
(* The endpoint and the clock of Solana.                                   *)

NextNonce == Cardinality(verified \cup delivered) + 1

VerifySent ==
  /\ NextNonce <= Len(evm_sent)
  /\ LET p == evm_sent[NextNonce] IN Verify(eth, myOFT, p.to, p.amount_sd, p.compose)
  /\ UNCHANGED evmVars

(***************************************************************************)
(* Time goes on when the clock has reached its bound: the refills of the   *)
(* past recede instead.  A limiter only looks at the difference.           *)
(***************************************************************************)
Aged(l) ==
  IF l = None \/ l.last_refill_time = 0 THEN l ELSE [l EXCEPT !.last_refill_time = @ - 1]

Elapse ==
  /\ now = MaxTime
  /\ peers' = [e \in Eids |->
       IF peers[e] = None THEN None
       ELSE [peers[e] EXCEPT !.outbound_rate_limiter = Aged(@),
                             !.inbound_rate_limiter = Aged(@)]]
  /\ UNCHANGED <<now, tokenVars, mintVars, kindVars, tvl_ld, roleVars, configVars,
                 messageVars, historyVars, evmVars>>

OnSolana ==
  /\ \/ Administer \/ Transfer \/ Tick
     \/ \E a \in NewAuthorities : SetMintAuthority(a)
  /\ UNCHANGED evmVars

BridgeNext ==
  \/ OnSolana \/ Elapse \/ VerifySent
  \/ \E w \in Wallets, a \in RemoteAmounts, c \in ComposeChoices : EvmSend(w, a, c)
  \/ \E i \in DOMAIN outbox : EvmReceive(i)

BridgeSpec == BridgeInit /\ [][BridgeNext]_bridgeVars

-----------------------------------------------------------------------------
(***************************************************************************)
(* Fairness: time passes; the executor asks again for the accounts of a    *)
(* packet that it has not delivered; and whoever may deliver it, which     *)
(* anybody may, tries again until it succeeds.                             *)
(***************************************************************************)
TimePasses == (Tick \/ Elapse) /\ UNCHANGED evmVars

PlanFor(n) == \E p \in verified : p.nonce = n /\ LzReceiveTypes(p) /\ UNCHANGED evmVars

Deliver(n) == \E plan \in plans : plan.packet.nonce = n /\ LzReceive(plan) /\ UNCHANGED evmVars

Nonces == 1 .. MaxVerified

FairBridgeSpec ==
  /\ BridgeSpec
  /\ WF_bridgeVars(TimePasses)
  /\ \A n \in Nonces : WF_bridgeVars(PlanFor(n)) /\ SF_bridgeVars(Deliver(n))

-----------------------------------------------------------------------------
Rate == Radix ^ (MintDecimals - (CHOOSE d \in SharedDecimals : TRUE))

Undelivered == {n \in DOMAIN evm_sent : \A p \in delivered : p.nonce # n}

Ledger == INSTANCE Ledger WITH
  Amounts  <- {Rate * amount_sd : amount_sd \in Amount},
  Issued   <- [solana |-> InitialSupply, evm |-> Rate * InitialMint],
  held     <- [solana |-> IF oft_type = "Adapter" THEN supply - tvl_ld ELSE supply,
               evm |-> Rate * evm_supply],
  departed <- [solana |-> Len(evm_sent), evm |-> Len(outbox)],
  flight   <-
    {[to |-> "evm", number |-> i, amount |-> Rate * outbox[i].amount_sd] :
       i \in DOMAIN outbox \ evm_received}
    \cup {[to |-> "solana", number |-> n, amount |-> Rate * evm_sent[n].amount_sd] :
            n \in Undelivered}

(***************************************************************************)
(* The two programs implement the ledger, whatever is administered: what   *)
(* is burned or locked on one side is what the packet carries and what the *)
(* other side mints or unlocks, once (send.rs, lz_receive.rs).             *)
(***************************************************************************)
BridgeIsLedger == Ledger!Spec

\* What a delivery of p needs, its accounts apart: the mint authority may change.
LimiterAllows(l, amount_ld) ==
  \/ l = None
  \/ l.capacity >= amount_ld /\ l.refill_per_second > 0

Receivable(p) ==
  LET peer == peers[p.src_eid]
      amount_ld == Sd2Ld(ld2sd_rate, p.amount_sd)
  IN  /\ Open
      /\ peer # None /\ peer.peer_address = p.sender
      /\ LimiterAllows(peer.inbound_rate_limiter, amount_ld)
      /\ oft_type = "Adapter" => tvl_ld >= amount_ld
      /\ oft_type = "Native" => mint_authority \in StoreSigned

Awaits(n) == \E p \in verified : p.nonce = n
Delivered(n) == \E p \in delivered : p.nonce = n
CanArrive(n) == \A p \in verified : p.nonce = n => Receivable(p)

(***************************************************************************)
(* A packet that was refused, by a limiter that was empty, a pause, a peer *)
(* address, a plan that was stale or a TVL too small, is not lost: once it *)
(* stays receivable it is delivered, although the limiter serves others,   *)
(* limits are changed and the mint authority moves between keys that the   *)
(* store can sign for (lz_receive.rs, lz_receive_types.rs).                *)
(***************************************************************************)
EveryPacketIsDelivered ==
  \A n \in Nonces : <>[]CanArrive(n) /\ <>Awaits(n) => <>Delivered(n)
=============================================================================
