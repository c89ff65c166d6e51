-------------------------------- MODULE OFT --------------------------------
(***************************************************************************)
(* The OFT program on Solana (programs/oft): one token, bridged with peers *)
(* on other chains.  An instruction is one transaction, so it is one       *)
(* action; an instruction that fails has no effect and is no step.         *)
(*                                                                         *)
(* The token program, the LayerZero endpoint and its executor are modelled *)
(* as far as the program uses them: balances and the transfer fee of a     *)
(* Token-2022 mint; packets that are verified and then cleared, in any     *)
(* order; an executor that asks lz_receive_types for the accounts of a     *)
(* delivery and delivers later.                                            *)
(***************************************************************************)
EXTENDS OFTMath, RateLimiter, Sequences, FiniteSetsExt

CONSTANTS
  Wallets,          \* owners of tokens
  Keys,             \* keys that may hold a role
  Eids,             \* endpoint ids of the remote chains
  RemoteOFTs,       \* addresses of OFTs on remote chains
  NoAddress,        \* the zero bytes32 of a peer whose address was never set
  Authorities,      \* keys that may be the mint's authority
  StoreSigned,      \* those the oft_store can sign for: itself, a 1-of-n multisig
  Radix,            \* 10 in the program
  MintDecimals,     \* decimals of the token
  InitialBalance,   \* what each wallet holds before the OFT exists
  InitialSupply,    \* the tokens in existence then, theirs and others'
  InitialAuthority, \* the mint's authority at first
  InitialFee        \* the mint's transfer fee at first, None without the extension

\* Inputs that clients, admins and remote chains choose from.
CONSTANTS
  OFTTypes, SharedDecimals, SendAmounts, MinAmounts, ComposeChoices, RemoteAmounts,
  NewKeys, Pauses, DefaultFees, PeerFees, TransferFees, RateLimits, Withdrawals,
  Donations, NewAuthorities

\* Bounds: seconds of the clock, packets sent, packets verified.
CONSTANTS MaxTime, MaxSent, MaxVerified

ASSUME OFTAssumption ==
  /\ None \notin Keys /\ None \notin Authorities /\ None \notin TransferFee
  /\ None \notin {"Native", "Adapter"}
  /\ NoAddress \notin RemoteOFTs
  /\ StoreSigned \subseteq Authorities
  /\ \A d \in 0 .. MintDecimals : Radix ^ d \in Nat \ {0}
  /\ MintDecimals \in Nat
  /\ InitialBalance \in [Wallets -> Amount]
  /\ InitialSupply \in Amount
  /\ InitialAuthority \in Authorities \cup {None}
  /\ InitialFee \in TransferFee \cup {None}
  /\ OFTTypes \subseteq {"Native", "Adapter"}
  /\ SharedDecimals \subseteq Nat
  /\ UNION {SendAmounts, MinAmounts, RemoteAmounts, Withdrawals, Donations} \subseteq Amount
  /\ ComposeChoices \subseteq BOOLEAN
  /\ NewKeys \subseteq Keys \cup {None} /\ Pauses \subseteq BOOLEAN
  /\ DefaultFees \subseteq Nat /\ PeerFees \subseteq Nat \cup {None}
  /\ TransferFees \subseteq TransferFee
  /\ RateLimits \subseteq RateLimitParams \cup {None}
  /\ NewAuthorities \subseteq Authorities \cup {None}
  /\ MaxTime \in Nat /\ MaxSent \in Nat /\ MaxVerified \in Nat

\* What the wallets hold at first is a part of the supply.
ASSUME WalletsAssumption ==
  /\ IsFiniteSet(Wallets)
  /\ MapThenSumSet(LAMBDA w : InitialBalance[w], DOMAIN InitialBalance) <= InitialSupply

VARIABLES
  now,            \* the Unix time of the chain
  \* The token program.
  supply,         \* tokens of the mint in existence
  balance,        \* token account of each wallet
  escrow,         \* token_escrow: amount of the OFT's own account
  withheld,       \* transfer fees withheld on all accounts
  mint_authority, \* COption of the mint
  transfer_fee,   \* the transfer fee of the current epoch, or None
  \* OFTStore; before init_oft its type is None.
  oft_type, ld2sd_rate, tvl_ld, admin, default_fee_bps, paused, pauser, unpauser,
  \* PeerConfig of each eid, None where the account does not exist.
  peers,
  \* The endpoint.
  delegate,       \* the delegate of the OFT
  outbox,         \* packets that were sent, in order
  verified,       \* inbound packets that are verified and not cleared
  delivered,      \* inbound packets that were cleared
  composed,       \* compose messages that were queued
  \* The executor.
  plans,          \* accounts that lz_receive_types computed for a packet
  \* History.
  remote_sd,      \* units that left for the remote chains, less those that came back
  fees_ld         \* fees and donations in the escrow that were not withdrawn

tokenVars == <<supply, balance, escrow, withheld>>
mintVars == <<mint_authority, transfer_fee>>
kindVars == <<oft_type, ld2sd_rate>>
roleVars == <<admin, pauser, unpauser, delegate>>
configVars == <<default_fee_bps, paused>>
messageVars == <<outbox, verified, delivered, composed, plans>>
historyVars == <<remote_sd, fees_ld>>

vars == <<now, tokenVars, mintVars, kindVars, tvl_ld, roleVars, configVars, peers,
          messageVars, historyVars>>

-----------------------------------------------------------------------------
(* Types.                                                                  *)

Bps == 0 .. (OneInBasisPoints - 1)

PeerConfig == [peer_address : RemoteOFTs \cup {NoAddress},
               fee_bps : Bps \cup {None},
               outbound_rate_limiter : Limiter \cup {None},
               inbound_rate_limiter : Limiter \cup {None}]

\* What the endpoint is asked to send.  asked_ld, min_ld and from are the
\* arguments of the send that the packet comes from.
SentPacket == [dst_eid : Eids, receiver : RemoteOFTs \cup {NoAddress},
               amount_sd : Amount, compose : BOOLEAN,
               from : Wallets, asked_ld : Amount, min_ld : Amount]

Packet == [src_eid : Eids, nonce : Nat, sender : RemoteOFTs, to : Wallets,
           amount_sd : Amount, compose : BOOLEAN]

Plan == [packet : Packet, mint_authority : Authorities \cup {None},
         compose_ld : Amount \cup {None}]

ComposeMsg == [packet : Packet, amount_ld : Amount]

TokensTyped ==
  /\ supply \in Amount /\ balance \in [Wallets -> Amount]
  /\ escrow \in Amount /\ withheld \in Nat
  /\ mint_authority \in Authorities \cup {None}
  /\ transfer_fee \in TransferFee \cup {None}

StoreTyped ==
  /\ oft_type \in {"Native", "Adapter", None}
  /\ ld2sd_rate \in Amount \ {0} /\ tvl_ld \in Amount
  /\ admin \in Keys \cup {None} /\ pauser \in Keys \cup {None}
  /\ unpauser \in Keys \cup {None} /\ delegate \in Keys \cup {None}
  /\ default_fee_bps \in Bps /\ paused \in BOOLEAN

PeersTyped == peers \in [Eids -> PeerConfig \cup {None}]

MessagesTyped ==
  /\ outbox \in Seq(SentPacket)
  /\ verified \subseteq Packet /\ delivered \subseteq Packet
  /\ composed \subseteq ComposeMsg /\ plans \subseteq Plan

TypeOK ==
  /\ TokensTyped /\ StoreTyped /\ PeersTyped /\ MessagesTyped
  /\ now \in Nat /\ remote_sd \in Int /\ fees_ld \in Int

Init ==
  /\ now = 0
  /\ supply = InitialSupply /\ balance = InitialBalance
  /\ escrow = 0 /\ withheld = 0
  /\ mint_authority = InitialAuthority /\ transfer_fee = InitialFee
  /\ oft_type = None /\ ld2sd_rate = 1 /\ tvl_ld = 0
  /\ admin = None /\ pauser = None /\ unpauser = None /\ delegate = None
  /\ default_fee_bps = 0 /\ paused = FALSE
  /\ peers = [e \in Eids |-> None]
  /\ outbox = <<>> /\ verified = {} /\ delivered = {} /\ composed = {} /\ plans = {}
  /\ remote_sd = 0 /\ fees_ld = 0

-----------------------------------------------------------------------------
(* Administration.                                                         *)

Exists == oft_type # None

\* init_oft.rs: once, since the accounts are created by it.
InitOFT(type, shared_decimals, k) ==
  /\ ~Exists
  /\ MintDecimals >= shared_decimals
  /\ Radix ^ (MintDecimals - shared_decimals) \in Amount
  /\ oft_type' = type
  /\ ld2sd_rate' = Radix ^ (MintDecimals - shared_decimals)
  /\ tvl_ld' = 0
  /\ admin' = k /\ delegate' = k
  /\ default_fee_bps' = 0 /\ paused' = FALSE
  /\ pauser' = None /\ unpauser' = None
  /\ UNCHANGED <<now, tokenVars, mintVars, peers, messageVars, historyVars>>

\* set_oft_config.rs, one action for each parameter.
SetAdmin(signer, k) ==
  /\ Exists /\ signer = admin
  /\ admin' = k
  /\ UNCHANGED <<now, tokenVars, mintVars, kindVars, tvl_ld, pauser, unpauser, delegate,
                 configVars, peers, messageVars, historyVars>>

SetDelegate(signer, k) ==
  /\ Exists /\ signer = admin
  /\ delegate' = k
  /\ UNCHANGED <<now, tokenVars, mintVars, kindVars, tvl_ld, admin, pauser, unpauser,
                 configVars, peers, messageVars, historyVars>>

SetDefaultFee(signer, fee_bps) ==
  /\ Exists /\ signer = admin
  /\ fee_bps < OneInBasisPoints
  /\ default_fee_bps' = fee_bps
  /\ UNCHANGED <<now, tokenVars, mintVars, kindVars, tvl_ld, roleVars, paused, peers,
                 messageVars, historyVars>>

SetPausedByAdmin(signer, p) ==
  /\ Exists /\ signer = admin
  /\ paused' = p
  /\ UNCHANGED <<now, tokenVars, mintVars, kindVars, tvl_ld, roleVars, default_fee_bps,
                 peers, messageVars, historyVars>>

SetPauser(signer, k) ==
  /\ Exists /\ signer = admin
  /\ pauser' = k
  /\ UNCHANGED <<now, tokenVars, mintVars, kindVars, tvl_ld, admin, unpauser, delegate,
                 configVars, peers, messageVars, historyVars>>

SetUnpauser(signer, k) ==
  /\ Exists /\ signer = admin
  /\ unpauser' = k
  /\ UNCHANGED <<now, tokenVars, mintVars, kindVars, tvl_ld, admin, pauser, delegate,
                 configVars, peers, messageVars, historyVars>>

\* set_pause.rs: the pauser pauses, the unpauser resumes.
SetPause(signer, p) ==
  /\ Exists
  /\ signer = IF p THEN pauser ELSE unpauser
  /\ paused' = p
  /\ UNCHANGED <<now, tokenVars, mintVars, kindVars, tvl_ld, roleVars, default_fee_bps,
                 peers, messageVars, historyVars>>

\* set_peer_config.rs: the account is created on first use.
DefaultPeer == [peer_address |-> NoAddress, fee_bps |-> None,
                outbound_rate_limiter |-> None, inbound_rate_limiter |-> None]

PeerOrNew(eid) == IF peers[eid] = None THEN DefaultPeer ELSE peers[eid]

SetPeer(signer, eid, peer) ==
  /\ Exists /\ signer = admin
  /\ peers' = [peers EXCEPT ![eid] = peer]
  /\ UNCHANGED <<now, tokenVars, mintVars, kindVars, tvl_ld, roleVars, configVars,
                 messageVars, historyVars>>

SetPeerAddress(signer, eid, address) ==
  SetPeer(signer, eid, [PeerOrNew(eid) EXCEPT !.peer_address = address])

SetPeerFee(signer, eid, fee_bps) ==
  /\ fee_bps # None => fee_bps < OneInBasisPoints
  /\ SetPeer(signer, eid, [PeerOrNew(eid) EXCEPT !.fee_bps = fee_bps])

SetOutboundRateLimit(signer, eid, params) ==
  SetPeer(signer, eid, [PeerOrNew(eid) EXCEPT !.outbound_rate_limiter =
                          UpdateLimiter(@, params, now)])

SetInboundRateLimit(signer, eid, params) ==
  SetPeer(signer, eid, [PeerOrNew(eid) EXCEPT !.inbound_rate_limiter =
                          UpdateLimiter(@, params, now)])

-----------------------------------------------------------------------------
(* Tokens.                                                                 *)

\* A transfer of amount into an account holding held: what arrives, and what is
\* withheld on the way.
Arrives(amount) == PostFeeAmount(transfer_fee, amount)
WithheldOf(amount) == amount - Arrives(amount)

\* A bug: the fee may be paid out of the whole escrow.
WithdrawableAll == escrow

\* What withdraw_fee may take; the subtraction is checked.
Withdrawable == escrow - tvl_ld

\* withdraw_fee.rs.  A pause does not prevent it.
WithdrawFee(signer, dest, fee_ld) ==
  /\ Exists /\ signer = admin
  /\ Withdrawable \in Amount
  /\ Withdrawable >= fee_ld
  /\ escrow' = escrow - fee_ld
  /\ balance[dest] + Arrives(fee_ld) \in Amount
  /\ balance' = [balance EXCEPT ![dest] = @ + Arrives(fee_ld)]
  /\ withheld' = withheld + WithheldOf(fee_ld)
  /\ fees_ld' = fees_ld - fee_ld
  /\ UNCHANGED <<now, supply, mintVars, kindVars, tvl_ld, roleVars, configVars, peers,
                 messageVars, remote_sd>>

-----------------------------------------------------------------------------
(* send.rs                                                                 *)

\* A bug: an instruction that moves tokens does not look at the pause flag.
OpenAlways == Exists
Open == Exists /\ ~paused

\* A bug: slippage is checked against the debit.
SlippageOfDebit(receipt, min_amount_ld) == receipt.sent >= min_amount_ld
WithinSlippage(receipt, min_amount_ld) == receipt.received >= min_amount_ld

LockedAmount(receipt) == receipt.received

\* An Adapter takes the debit into the escrow, fee included.
DebitAdapter(w, receipt) ==
  /\ tvl_ld + LockedAmount(receipt) \in Amount
  /\ tvl_ld' = tvl_ld + LockedAmount(receipt)
  /\ balance[w] >= receipt.sent
  /\ balance' = [balance EXCEPT ![w] = @ - receipt.sent]
  /\ escrow + Arrives(receipt.sent) \in Amount
  /\ escrow' = escrow + Arrives(receipt.sent)
  /\ withheld' = withheld + WithheldOf(receipt.sent)
  /\ fees_ld' = fees_ld + receipt.fee
  /\ UNCHANGED supply

\* A bug: the fee is burned too.
BurnedWithFee(receipt) == receipt.sent
BurnedAmount(receipt) == receipt.sent - receipt.fee

\* A Native OFT burns what leaves and moves the fee to the escrow.
DebitNative(w, receipt) ==
  /\ balance[w] >= BurnedAmount(receipt) + receipt.fee
  /\ balance' = [balance EXCEPT ![w] = @ - (BurnedAmount(receipt) + receipt.fee)]
  /\ supply >= BurnedAmount(receipt)
  /\ supply' = supply - BurnedAmount(receipt)
  /\ escrow + Arrives(receipt.fee) \in Amount
  /\ escrow' = escrow + Arrives(receipt.fee)
  /\ withheld' = withheld + WithheldOf(receipt.fee)
  /\ fees_ld' = fees_ld + Arrives(receipt.fee)
  /\ UNCHANGED tvl_ld

Send(w, eid, amount_ld, min_amount_ld, compose) ==
  /\ Open
  /\ peers[eid] # None
  /\ Len(outbox) < MaxSent
  /\ LET peer    == peers[eid]
         bps     == FinalFeeBps(default_fee_bps, peer.fee_bps)
         receipt == ComputeFeeAndAdjustAmount(oft_type, ld2sd_rate, transfer_fee, bps,
                                              amount_ld)
         sd      == Ld2Sd(ld2sd_rate, receipt.received)
     IN  /\ receipt.sent \in Amount
         /\ WithinSlippage(receipt, min_amount_ld)
         /\ Admits(peer.outbound_rate_limiter, receipt.received, now)
         /\ peers' = [peers EXCEPT ![eid] =
              [peer EXCEPT !.outbound_rate_limiter = AfterConsume(@, receipt.received, now),
                           !.inbound_rate_limiter = AfterRefill(@, receipt.received, now)]]
         /\ \/ oft_type = "Adapter" /\ DebitAdapter(w, receipt)
            \/ oft_type = "Native" /\ DebitNative(w, receipt)
         /\ outbox' = Append(outbox,
              [dst_eid |-> eid, receiver |-> peer.peer_address, amount_sd |-> sd,
               compose |-> compose, from |-> w,
               asked_ld |-> amount_ld, min_ld |-> min_amount_ld])
         /\ remote_sd' = remote_sd + sd
  /\ UNCHANGED <<now, mintVars, kindVars, roleVars, configVars,
                 verified, delivered, composed, plans>>

-----------------------------------------------------------------------------
(* lz_receive_types.rs and lz_receive.rs                                   *)

\* A bug: the compose message carries the amount before the transfer fee.
CreditBeforeFee(packet) == Sd2Ld(ld2sd_rate, packet.amount_sd)

\* What the receiver of a packet gets on its account.
CreditOf(packet) ==
  IF oft_type = "Adapter" THEN Arrives(Sd2Ld(ld2sd_rate, packet.amount_sd))
                          ELSE Sd2Ld(ld2sd_rate, packet.amount_sd)

\* The executor asks for the accounts: the mint authority of this moment, and the
\* account of a compose message, which is derived from the amount it carries.
LzReceiveTypes(packet) ==
  /\ Exists
  /\ packet \in verified
  /\ packet.compose => Sd2Ld(ld2sd_rate, packet.amount_sd) \in Amount
  /\ plans' = {plan \in plans : plan.packet # packet} \cup
        {[packet |-> packet, mint_authority |-> mint_authority,
          compose_ld |-> IF packet.compose THEN CreditOf(packet) ELSE None]}
  /\ UNCHANGED <<now, tokenVars, mintVars, kindVars, tvl_ld, roleVars, configVars, peers,
                 outbox, verified, delivered, composed, historyVars>>

\* Unlock from the escrow; the subtraction from the TVL is checked.
CreditAdapter(packet, amount_ld) ==
  /\ tvl_ld >= amount_ld
  /\ tvl_ld' = tvl_ld - amount_ld
  /\ escrow >= amount_ld
  /\ escrow' = escrow - amount_ld
  /\ balance[packet.to] + Arrives(amount_ld) \in Amount
  /\ balance' = [balance EXCEPT ![packet.to] = @ + Arrives(amount_ld)]
  /\ withheld' = withheld + WithheldOf(amount_ld)
  /\ UNCHANGED supply

\* Mint with an authority that the store can sign for.
CreditNative(packet, amount_ld, authority) ==
  /\ authority # None /\ authority \in StoreSigned
  /\ supply + amount_ld \in Amount
  /\ supply' = supply + amount_ld
  /\ balance[packet.to] + amount_ld \in Amount
  /\ balance' = [balance EXCEPT ![packet.to] = @ + amount_ld]
  /\ UNCHANGED <<tvl_ld, escrow, withheld>>

\* A bug: the payload is not cleared.
NotCleared(packet) == verified
ClearedOf(packet) == verified \ {packet}

LzReceive(plan) ==
  LET packet    == plan.packet
      eid       == packet.src_eid
      peer      == peers[eid]
      amount_ld == Sd2Ld(ld2sd_rate, packet.amount_sd)
  IN  /\ Open
      /\ peer # None
      /\ peer.peer_address = packet.sender
      /\ plan.mint_authority # None => plan.mint_authority = mint_authority
      /\ packet \in verified
      /\ verified' = ClearedOf(packet)
      /\ delivered' = delivered \cup {packet}
      /\ amount_ld \in Amount
      /\ Admits(peer.inbound_rate_limiter, amount_ld, now)
      /\ peers' = [peers EXCEPT ![eid] =
           [peer EXCEPT !.inbound_rate_limiter = AfterConsume(@, amount_ld, now),
                        !.outbound_rate_limiter = AfterRefill(@, amount_ld, now)]]
      /\ \/ oft_type = "Adapter" /\ CreditAdapter(packet, amount_ld)
         \/ oft_type = "Native" /\ CreditNative(packet, amount_ld, plan.mint_authority)
      /\ IF packet.compose
         THEN /\ plan.compose_ld = CreditOf(packet)
              /\ composed' = composed \cup
                   {[packet |-> packet, amount_ld |-> CreditOf(packet)]}
         ELSE UNCHANGED composed
      /\ remote_sd' = remote_sd - packet.amount_sd
      /\ UNCHANGED <<now, mintVars, kindVars, roleVars, configVars, outbox, plans, fees_ld>>

-----------------------------------------------------------------------------
(* What happens around the program.                                        *)

Tick == /\ now < MaxTime
        /\ now' = now + 1
        /\ UNCHANGED <<tokenVars, mintVars, kindVars, tvl_ld, roleVars, configVars, peers,
                       messageVars, historyVars>>

\* An epoch begins in which another transfer fee is in force.
NewEpoch(fee) ==
  /\ transfer_fee # None /\ fee # transfer_fee
  /\ transfer_fee' = fee
  /\ UNCHANGED <<now, tokenVars, mint_authority, kindVars, tvl_ld, roleVars, configVars,
                 peers, messageVars, historyVars>>

\* The mint authority gives up its role (spl-token set-authority).
SetMintAuthority(authority) ==
  /\ mint_authority # None /\ authority # mint_authority
  /\ mint_authority' = authority
  /\ UNCHANGED <<now, tokenVars, transfer_fee, kindVars, tvl_ld, roleVars, configVars,
                 peers, messageVars, historyVars>>

\* Anyone may transfer tokens to the escrow account.
Donate(w, amount) ==
  /\ Exists
  /\ balance[w] >= amount
  /\ balance' = [balance EXCEPT ![w] = @ - amount]
  /\ escrow + Arrives(amount) \in Amount
  /\ escrow' = escrow + Arrives(amount)
  /\ withheld' = withheld + WithheldOf(amount)
  /\ fees_ld' = fees_ld + Arrives(amount)
  /\ UNCHANGED <<now, supply, mintVars, kindVars, tvl_ld, roleVars, configVars, peers,
                 messageVars, remote_sd>>

\* The endpoint verifies the next packet of a path.  What remote chains send is
\* not assumed to match what they received.
Verify(eid, sender, to, amount_sd, compose) ==
  LET known == {p \in verified \cup delivered : p.src_eid = eid /\ p.sender = sender}
  IN  /\ Exists
      /\ Cardinality(verified \cup delivered) < MaxVerified
      /\ verified' = verified \cup
           {[src_eid |-> eid, nonce |-> Cardinality(known) + 1, sender |-> sender,
             to |-> to, amount_sd |-> amount_sd, compose |-> compose]}
      /\ UNCHANGED <<now, tokenVars, mintVars, kindVars, tvl_ld, roleVars, configVars,
                     peers, outbox, delivered, composed, plans, historyVars>>

Administer ==
  \/ \E t \in OFTTypes, d \in SharedDecimals, k \in Keys : InitOFT(t, d, k)
  \/ \E signer \in Keys :
       \/ \E k \in NewKeys \ {None} : SetAdmin(signer, k) \/ SetDelegate(signer, k)
       \/ \E k \in NewKeys : SetPauser(signer, k) \/ SetUnpauser(signer, k)
       \/ \E bps \in DefaultFees : SetDefaultFee(signer, bps)
       \/ \E p \in Pauses : SetPausedByAdmin(signer, p) \/ SetPause(signer, p)
       \/ \E eid \in Eids, a \in RemoteOFTs : SetPeerAddress(signer, eid, a)
       \/ \E eid \in Eids, bps \in PeerFees : SetPeerFee(signer, eid, bps)
       \/ \E eid \in Eids, l \in RateLimits :
            SetOutboundRateLimit(signer, eid, l) \/ SetInboundRateLimit(signer, eid, l)
       \/ \E w \in Wallets, fee_ld \in Withdrawals : WithdrawFee(signer, w, fee_ld)

Transfer ==
  \/ \E w \in Wallets, eid \in Eids, a \in SendAmounts, m \in MinAmounts,
        c \in ComposeChoices : Send(w, eid, a, m, c)
  \/ \E packet \in verified : LzReceiveTypes(packet)
  \/ \E plan \in plans : LzReceive(plan)

Environment ==
  \/ Tick
  \/ \E fee \in TransferFees : NewEpoch(fee)
  \/ \E a \in NewAuthorities : SetMintAuthority(a)
  \/ \E w \in Wallets, a \in Donations : Donate(w, a)
  \/ \E eid \in Eids, s \in RemoteOFTs, w \in Wallets, a \in RemoteAmounts,
        c \in ComposeChoices : Verify(eid, s, w, a, c)

Next == Administer \/ Transfer \/ Environment

Spec == Init /\ [][Next]_vars

-----------------------------------------------------------------------------
(* Properties.                                                             *)

(***************************************************************************)
(* The escrow account holds the TVL and the fees, to the unit (the comment *)
(* on token_escrow, state/oft.rs): no rounding of a fee, transfer fee,     *)
(* withdrawal or change of fees lets the escrow fall short of the tokens   *)
(* that remote holders may claim.                                          *)
(***************************************************************************)
EscrowHoldsTvlAndFees ==
  Exists => /\ escrow = tvl_ld + fees_ld
            /\ fees_ld >= 0

(***************************************************************************)
(* What remote chains were told to credit, less what they sent back, is    *)
(* backed exactly: by the TVL of an Adapter, by the tokens missing from    *)
(* the supply of a Native OFT, whose TVL is always 0 (state/oft.rs).       *)
(***************************************************************************)
RemoteIsBacked ==
  Exists => IF oft_type = "Adapter"
            THEN tvl_ld = Sd2Ld(ld2sd_rate, remote_sd) /\ supply = InitialSupply
            ELSE tvl_ld = 0 /\ supply = InitialSupply - Sd2Ld(ld2sd_rate, remote_sd)

(***************************************************************************)
(* Every packet counts once: the net flow is the sum of the packets sent   *)
(* less the sum of the packets delivered, and a packet that was delivered  *)
(* can not be delivered again (clear, in lz_receive.rs).                   *)
(***************************************************************************)
EveryPacketCountsOnce ==
  /\ verified \cap delivered = {}
  /\ remote_sd = MapThenSumSet(LAMBDA i : outbox[i].amount_sd, DOMAIN outbox)
                 - MapThenSumSet(LAMBDA p : p.amount_sd, delivered)

(***************************************************************************)
(* A send takes no more from the sender than was asked for, and the remote *)
(* side is told to credit at least the minimum, whatever fees were changed *)
(* since the sender asked for a quote (send.rs).                           *)
(***************************************************************************)
SendIsFair ==
  [][outbox' # outbox =>
       LET p == outbox'[Len(outbox')]
       IN  /\ balance[p.from] - balance'[p.from] <= p.asked_ld
           /\ Sd2Ld(ld2sd_rate, p.amount_sd) >= p.min_ld]_vars

(***************************************************************************)
(* A compose message carries what its receiver was credited in the same    *)
(* step, after the transfer fee of that epoch (lz_receive.rs).             *)
(***************************************************************************)
ComposeCarriesCredit ==
  [][\A m \in composed' \ composed :
       LET to == m.packet.to IN m.amount_ld = balance'[to] - balance[to]]_vars

(***************************************************************************)
(* While the OFT is paused no token crosses the bridge in either direction *)
(* and nothing that backs the remote side moves (require!(!paused)).       *)
(***************************************************************************)
PauseStopsBridging ==
  [][paused => /\ UNCHANGED <<outbox, delivered, composed, supply, tvl_ld>>
               /\ escrow' >= tvl_ld]_vars
=============================================================================
