# Verification of the OFT bridge

This directory holds TLA+ models of the bridge in this repository, the TLC
runs that check them on small instances, and proofs that TLAPS checks for every
value of the constants.

Paths below are relative to `my-lz-oapp/` unless they start with `fe-poc/`.

## 1. The system

A token lives on Solana and on an EVM chain. The Solana program
`programs/oft` and the contract `contracts/MyOFT.sol` exchange LayerZero
messages, each of which says "credit this amount to this receiver". An OFT of
type *Adapter* locks tokens of an existing mint in an escrow account and unlocks
them again; one of type *Native* burns and mints.

| Component | State | Operations | Correct when |
|---|---|---|---|
| OFT store (`state/oft.rs`, `init_oft.rs`, `set_oft_config.rs`, `set_pause.rs`, `withdraw_fee.rs`) | type, decimal rate, TVL, default fee, pause flag, admin, pauser, unpauser; the escrow account | init, six settings, pause/unpause, fee withdrawal | the escrow always holds the TVL and the fees; a pause stops both directions |
| Peers (`state/peer_config.rs`, `set_peer_config.rs`) | per remote chain: address, fee, two rate limiters, enforced options | five settings | only the peer is believed; settings take effect from the moment they are made |
| Rate limiters (`RateLimiter`) | capacity, tokens, rate, last refill time | refill, try_consume, set_rate, set_capacity | in every window at most capacity + rate x time + opposite flow gets through |
| Amounts (`quote_send.rs`, `state/oft.rs`) | none | dust removal, OFT fee, Token-2022 transfer fee and its inversion | nothing is lost or created by rounding; the sender pays the least amount that suffices |
| Transfers (`send.rs`, `lz_receive_types.rs`, `lz_receive.rs`, codecs) | TVL, balances, supply, packets, compose messages | send, plan a delivery, deliver | what remote holders may claim is backed exactly; every packet counts once |
| Quotes (`quote_oft.rs`, `quote_send.rs`) | none | quote | a quote says what the send will do |
| EVM contract (`contracts/MyOFT.sol`) | ERC-20 balances; the constructor mints an initial supply | inherited send and lzReceive | total supply over both chains is constant, beyond that initial supply |
| Creation and handover (`tasks/solana/createOFT.ts`, `createOFTAdapter.ts`, `multisig.ts`, `setAuthority.ts`) | mints, multisigs and stores on chain; `OFT.json` | sequences of transactions | wherever a run stops, no token is left without a store that may mint it |
| Metadata (`updateMetadata.ts`, `setUpdateAuthority.ts`) | the metadata account | update, hand over, renounce | frozen only on purpose; an update is undone by nothing but another update |
| Wiring (`tasks/common/wire.ts`, `tasks/solana/initConfig.ts`, `layerzero.config.ts`) | endpoint configuration, peers, delegate, owner | init-config, wire, transfer-ownership | the graph gets applied completely, in an order the endpoint accepts |
| Operator tasks (`sendOFT.ts`, `evm/send.ts`, the limit tasks, `retryPayload.ts`, the keypair and the compute budget of `solana/index.ts`, `utils/getFee.ts`) | the wallet, the keys, recent fees | send, set and show limits, retry | what is asked for arrives; the right key signs; transactions get scheduled |
| Inspection (`debug.ts`, `common/config.get.ts`) | what was read so far | fetch and print | a report does not contradict itself, nor the chain |
| Bridge form (`fe-poc/src/app/components/BridgeForm.tsx`) | React state: inputs, quoted fee, feedback, flags | quote, approve and send; effects on change | what is sent and reported is what was quoted and done |
| The rest: page shell, wallet adapters, ABIs, base58, endpoint mock, tests | - | - | presentation and tools |

**Interactions.** `send` debits the sender, refills and consumes the limiters
of the peer and hands a packet to the endpoint, all in one transaction. The
endpoint of the other chain verifies the packet; anyone (usually the executor)
then asks `lz_receive_types` which accounts a delivery needs and submits
`lz_receive`, possibly much later. `lz_receive` first clears the packet at the
endpoint, then consumes the limiter, credits the receiver and queues a compose
message. Admin instructions come at any time between those steps.

**Hard behaviour.** Solana transactions are atomic, so there are no
interleavings inside an instruction. Everything that is difficult happens
between instructions: fees, limits, roles and the peer address change while
quotes are open and packets are in flight; a plan of `lz_receive_types` is stale
when it is used; the mint's transfer fee changes at an epoch boundary; packets
are verified and delivered in any order and deliveries are retried; limiters
are filled lazily over time. On the client side, React effects start
quotes, prompts of the wallet and receipts that come when they like; deployments
are sequences of transactions that may stop half way; several operators run
tasks at once, on readings that others have made stale. The full list, each item at
its line, is under `hazards` in `PROJECT.json`.

## 2. Modules

| Module | What it is | Code |
|---|---|---|
| `U64` | u64 amounts, saturating operations, `None` | `overflow-checks = true` in `Cargo.toml` |
| `RateLimiter` | the lazy limiter, as operators on a record | `state/peer_config.rs`, `update_rate_limiter` |
| `TokenBucket` | abstract specification: a bucket filled eagerly every second | - |
| `PeerLimits` | state machine of the two limiters of a peer | limiter steps of `send.rs`, `lz_receive.rs`, `set_peer_config.rs` |
| `PeerLimitsProofs` | theorems about `PeerLimits` | |
| `OFTMath` | decimals and fees | `state/oft.rs`, `quote_send.rs` |
| `OFTMathProofs` | theorems about `OFTMath`, and lemmas on division, least elements and sums over sets | |
| `QuoteOFT` | `quote_oft` against what a quote should be | `quote_oft.rs` |
| `QuoteOFTProofs` | theorems about `QuoteOFT` | |
| `OFT` | the program: every instruction that changes state, with the token program, endpoint and executor as far as it uses them | `instructions/*.rs` |
| `OFTProofs` | theorems about `OFT` | |
| `Ledger` | abstract specification: tokens leave one side, are in flight, and arrive once | - |
| `Bridge` | `OFT` composed with MyOFT, the endpoint between them and time that does not end | `contracts/MyOFT.sol`; the contract it inherits is external |
| `BridgeProofs` | theorems about `Bridge`, the refinement of `Ledger` among them | |
| `CreateOFT` | creation of OFTs and Adapters, handover of their authorities | `createOFT.ts`, `createOFTAdapter.ts`, `multisig.ts`, `setAuthority.ts`, `saveSolanaDeployment` |
| `Metadata` | update, handover and renouncement of the metadata, by several runs at once | `updateMetadata.ts`, `setUpdateAuthority.ts`, and what `createOFT.ts` creates |
| `Wire` | init-config, wire and transfer-ownership by several operators | `wire.ts`, `initConfig.ts`, `utils.ts`, `layerzero.config.ts` |
| `Deployment` | `CreateOFT`, `Metadata` and `Wire`, side by side | |
| `DeploymentProofs` | theorems about the three and about `Deployment` | |
| `ConfigGet` | the report of the configuration, in series or in parallel | `config.get.ts`, `taskHelper.ts`, `common/utils.ts` |
| `Debug` | the report of a store, its token and its peers | `debug.ts` |
| `ComputeBudget` | priority fee, simulation, estimates, compute limit | `solana/index.ts`, `getFee.ts` |
| `SendTasks` | the send tasks of both chains, and what the programs make of their transactions | `sendOFT.ts`, `evm/send.ts`, the guards of `send.rs` and `quote_send.rs` |
| `SignedTasks` | choice of the keypair, limits, retry | `solana/index.ts`, `set*RateLimit.ts`, `getRateLimits.ts`, `retryPayload.ts` |
| `Tasks` | `SendTasks`, `SignedTasks`, `ComputeBudget`, `Debug` and `ConfigGet`, side by side | |
| `TasksProofs` | theorems about the five and about `Tasks` | |
| `BridgeForm` | the form, the wallet and the transactions it sends | `BridgeForm.tsx` |
| `BridgeFormProofs` | theorems about `BridgeForm` | |
| `MCPeerLimits`, `MCQuoteOFT`, `MCOFT`, `MCBridge`, `MCDeployment`, `MCWire`, `MCTasks`, `MCBridgeForm` | small instances for TLC | |

`OFT` extends `OFTMath` and `RateLimiter`; `PeerLimits` extends `RateLimiter`
and instantiates `TokenBucket` twice, once for each direction. Operators whose
comment begins "A bug" are mistakes that the code could have had; each run
must notice them when they take the place of the definition that follows.

The parts of `Deployment` and of `Tasks` share no state in the code: each works
on accounts and files of its own. A behaviour therefore chooses one part at first
(`part`) and takes its steps only, with the others at rest; every behaviour of
every part is there, and for TLC the numbers of states add up instead of being
multiplied. The two modules have constants like any other, so that the theorems
hold of every choice of them, and state each property again by name, with the
code it is about. `MCDeployment` and `MCTasks` give the constants their values and
take fewer initial states, with `MCInit` in the place of `Init`: one state for each
part at rest (its initial choice concerns nobody else). In `MCTasks` a send begins
with an OFT that is open and has neither fee nor limiter, and with ten local units in
a shared one if it is Native; `debug` begins with one of two keys that it treats alike
as the admin and with endpoints of different configs; and of the pathways those of
Sepolia and Solana have settings of their own. Fees, limiters,
pauses and settings beyond these come with the changes that others make.

### How state and actions correspond to the code

* An instruction is one action. A `require!`, an account constraint
  (`has_one = admin`, `peer_address == params.sender`, the mint authority) or a
  failing call is a guard, because a failing transaction changes nothing. The
  build checks overflow, so "the result is in `Amount`" is a guard as well.
* A field of `OFTStore` is a variable. `oft_type = None` stands for an account
  that does not exist yet. `peers[eid]` is `None` until `set_peer_config`
  creates the account (`init_if_needed`).
* `signer` is a parameter of the admin actions, compared with `admin`, `pauser`
  or `unpauser` in the guard.
* `SetPeer` is the part that the settings of a peer share.
* `escrow` is `token_escrow.amount`. `balance` is one token account for each
  wallet. `withheld` collects the transfer fees that Token-2022 keeps back.
  `Arrives` is what an account is credited with for a transfer.
* `outbox` is what the endpoint was asked to send, with the arguments of the
  `send` (`asked_ld`, `min_ld`, `from`) added for the properties. `verified` and
  `delivered` are the inbound packets before and after `clear`. A compose
  message is identified by its packet.
* `plans` are the answers of `lz_receive_types`: of the accounts it lists, only
  the mint authority and the compose account depend on state that can change.
  The compose account is derived from a hash of the message, so a delivery
  succeeds only if it carries the planned amount.
* `remote_sd` and `fees_ld` are history variables: no guard reads them.
  `PeerLimits` has two more, the accounts of an auditor.
* `LzReceiveTypes` and `LzReceive` convert shared decimals with the rate of the
  store; an amount that does not fit u64 is a panic, so no step.

`Bridge` keeps all of `OFT`, replaces its free `Verify` by `VerifySent`, which
verifies what MyOFT sent, in order, and adds three variables: MyOFT's supply, the
packets it sent and those it received. Amounts on the EVM side are in units of
the shared decimals, since MyOFT removes the dust as the program does. `Elapse`
lets time go on when the clock has reached its bound: instead of the clock
moving, the last refills recede, which is all that a limiter looks at.

The modules of the tasks follow these conventions:

* A task is a record with its arguments, what it has read, and its next step (or
  the steps it has left). An `await` ends a step, so others act between two of
  them. A transaction on chain is one step; that it fails, is never confirmed, or
  that the operator stops the task is `Stop`, `Fail`, `RequestFails` or a choice
  of the step itself. What a task did on chain before stays.
* `CreateOFT` names the keys of a run (mint, escrow, store) by its number.
  `deployment` is `OFT.json`. `steps` are the transactions in the order in which
  the code sends them.
* `Metadata` reads, decides, perhaps asks, and writes. A token may be created with
  metadata that is immutable at once (`--token-metadata-is-mutable false`). The token
  metadata program accepts a write of the authority of that moment and, of immutable
  metadata, only a renouncement. `createdMutable`, `renounced` and `overtaken` (the
  tasks since whose reading an update of another landed) are history variables.
* `Wire` has the connections of `layerzero.config.ts` in their order. A task
  computes what is missing when it starts and then sends it chain by chain; what
  it computed may be stale when it is sent. The configurators and the signing
  subtask belong to the LayerZero devtools and are external.
* `SendTasks` keeps a transaction (`tx`) apart from the task that waits for it:
  it lands or expires whether or not the task has given up. On Solana its receipt is
  that of `OFTMath` for an OFT of either type with a transfer fee or none, and its
  guards are those of `send.rs` (pause, minimum, outbound limiter); `ChangeOFT` is
  what others change of these between quote and block. MyOFT keeps no fee.
* `SignedTasks` keeps the three places of a keypair (`env`) and, for each peer
  and direction, the limit. The outbound task sets the limit of the peer that is
  written into the code, as the code does.
* `ComputeBudget` counts scale factors in tenths, since the code multiplies by a
  float that it rounds down first.
* `Debug` and `ConfigGet` keep what was read when, and the chain that changes
  meanwhile; `report` and `configs` are what they print and return.
* `ConfigGet` answers one library or one config at a time: fifteen requests for a
  pathway of an EVM chain, five for one of Solana. A pathway has, for each side, a
  library and configs of its own or none, and each library its own default configs;
  all of them, the defaults too, may be changed between two requests. A config is
  asked of the library that was answered before. How `getReceiveConfig` and
  `getSendConfig` split into requests is not in this repository; the order is the
  one in which their results are destructured.
* `BridgeForm` has the React state by its names. An effect is part of the action
  that changes its dependencies when it runs in the same render, and an action of
  its own when it waits for an answer. `call` is `handleBridge` between its two
  prompts, with the values captured at the submit.

External parts, modelled from how the program uses them: the fee of
Token-2022, the clock and epochs, `SetAuthority` of the token program, plain
transfers to the escrow, and the endpoint (`Verify`). `Verify` does not assume
that remote chains send back only what they received: `MyOFT.sol` mints a
supply of its own.

## 3. Runs

| Run | Question | Bounds |
|---|---|---|
| `peer_limits` | Do the lazy limiters enforce the limit in every window, and implement the eager bucket, under every change of the configuration? | amounts up to 3 (so additions and products saturate), 3 seconds, flows of 1 and 2, all four shapes of the parameters (both, capacity only, rate only, none) |
| `quotes` | Are the quoted amounts right? | every transfer fee in tenths from 0 to 100%, four caps, four OFT fees, rates 1, 3 and 4, every amount up to 24 |
| `quotes_native_fee` | Is there no transfer fee of a Native OFT? There is one: see section 5 | as above |
| `oft_adapter` | Is the escrow solvent and the remote side backed when fees of both kinds, donations and withdrawals mix? | two sends and two deliveries, a capped and an uncapped transfer fee |
| `oft_native` | The same for burn and mint, with a mint authority that changes hands | as above, and a packet whose amount overflows |
| `oft_settings` | Does a pause stop everything, whoever set it, while roles and rate limits change, time passes and a foreign remote address sends? Does a limiter stay within its capacity inside the program? | two keys, two remote addresses, two sends, one second, a limit, a change of the rate alone, and removal |
| `bridge` | Do both programs together implement the ledger, and does every packet that stays receivable get delivered? | both types, one packet to the EVM chain and two from it, of two and three units, of which a limiter, once it is installed, holds two (the larger packet then waits and must not block the other), pauses, two peer addresses, two mint authorities |
| `deployment` | Can creation, handover, metadata tasks and wiring be stopped, repeated and interleaved at any step? | two creations, three multisigs, three lists of minters; two metadata tasks, two wallets, two names, two fees, metadata created mutable and immutable; two keys that run tasks, two pathways |
| `create_oft_only_store` | Is the OFT store alone able to mint with `--only-oft-store`? No: see section 5 | as above |
| `wire_live` | Do operators who repeat their tasks complete the wiring and the handover? | one pathway, two keys |
| `tasks` | Do the operators' tasks do and report what they say while everything changes under them? | two sends of nothing, one unit or 25, with one or ten local units in a shared one, either type, two fees, two transfer fees, a limiter or none and two changes between quote and block; two keys, two peers and two limits; samples of at most four slots; two changes of the accounts that `debug` reads; one change of any library, config or default of four connections while `config:get` asks |
| `bridge_form` | Is what is sent what was quoted and shown, and does the form always unlock and report? | amounts up to 2, a whole recipient and one with characters missing, two transactions |

What each property says is written above its definition. In short:

* `OutboundWithinAllowance`, `InboundWithinAllowance`: an auditor may begin to
  measure at any moment; it grants one capacity plus the rate for each second
  plus the opposite flow, and is never overdrawn. `OpenWindow` makes this a
  statement about every window, not only those that start with the limiter.
* `OutboundIsTokenBucket`, `InboundIsTokenBucket`: refinement of `TokenBucket`
  with the level a lazy limiter stands for at the current time. The auditor's
  account is part of the abstract specification, so the amounts of both agree:
  lazy filling loses and adds nothing.
* `SentIsLeastDebit`, `OnlyDustIsLeft`, `SharedDecimalsLossless`,
  `FeeDetailsAreCharged`, `RequotingIsStable`: a quote debits the least amount
  that suffices, leaves less than one shared unit, converts without loss, names
  every fee, and may be quoted again. Of a Native OFT the token program may withhold
  from the fee that goes to the escrow: `FeeDetailsAreCharged` says that this never
  exceeds the "Cross Chain Fee" and costs neither the sender nor the remote side.
* `EscrowHoldsTvlAndFees`: the comment on `token_escrow`, as an equation.
* `RemoteIsBacked`: net outflow equals TVL, or the tokens missing from the
  supply; "if oft_type is Native, it is always 0" included. This is the one property
  of `oft_native`.
* `EveryPacketCountsOnce`, `SendIsFair`, `ComposeCarriesCredit`,
  `PauseStopsBridging`: action properties and invariants of the transfers; `oft_settings`
  checks the last with the type invariant of `OFT`, which bounds the limiters.

* `BridgeIsLedger`: refinement of `Ledger`. Tokens on Solana are the supply of a
  Native OFT, or the supply less the TVL of an Adapter; in flight is what one
  side sent and the other has not received. A double delivery, a lost unit or
  one that is locked and not sent would be no step of the ledger.
* `EveryPacketIsDelivered`: liveness, for each nonce. `Receivable` is everything
  that a delivery needs apart from its plan, with "the limiter could ever hold
  the amount" in place of "it holds it now".
* `AuthoritiesStayUsable` (`NoOrphanedToken`, `SavedTokenIsOperable` and
  `SplitOnlyByHandover` of `CreateOFT`) and `MintingIsNeverLost`: relations between
  mints, multisigs, stores and the saved file at every moment at which a task may
  stop.
* `FrozenOnPurpose`, `UpdatesUndoneByUpdates`: what stale readings may not do to the
  metadata. It is frozen exactly when it was created so or an operator who was asked
  renounced the authority. Two updates may undo each other, since each writes back the
  fields it was not given; the second property says that this is the only way in
  which an update gets lost.
* `NothingOpensUninitialised`, and `WiringCompletes` (`PathwaysGetWired` and
  `HandoverCompletes`): order and completion of the wiring.
* `SendsAsPromised` (`NothingEmptyLeavesSolana`, `ReportedIsInBlock`),
  `SignsAsChosen` (`DefaultIsAgreed`, `ConflictIsRefused`, `PayerSigns`,
  `InboundShowsWhatItSet`), `BudgetSuffices` (`MedianIsMiddle`, `PaysForPriority`,
  `LimitLeavesMargin`, `EstimateCoversSamples`), `DebugIsTrue` (`QuietReportIsTrue`,
  `ChecksFollow`, `EveryPathwayPrinted`) and `ConfigsAreTrue` (`EveryPathwayReturned`,
  `ReportedWasInForce`): one for each kind of task, a conjunction of parts that are
  defined in its module. `NothingEmptyLeavesSolana` has one exception, which the code
  has: a single unit of an Adapter without dust, when the transfer fee changes between
  the quote and the block, since the minimum of such a send is nothing.
* `ColumnsAgree`: in the table of a pathway that nobody reconfigures the active column
  follows from the other two. A config that is not the pathway's own is that of the
  library in use, which need not be the default library, so the columns may differ
  there and the property says so.
* `QuoteIsForShown`, `SentAsShown`, `ConfirmedIsMined`, `FormUnlocks`,
  `ConfirmationArrives`: the fee and the transaction belong to the texts shown,
  what is confirmed was mined, and no path through the form leaves it locked.

**Why the bounds suffice.** The arithmetic depends on a few comparisons
(saturated or not, capped or not, dust or none, fee rounded or exact), and the
constants are chosen so that each outcome occurs. Two sends and two deliveries
are the least with which packets overtake each other and fees change between
them. In `quotes` a basis point is a tenth, so every shape of the fee occurs.
For amounts of any size there are the proofs.

In `bridge` two packets compete for one limiter and one TVL and overtake each
other, and one of them may be more than the limiter holds; a bucket is full after one second, so `MaxTime` of one, with `Elapse`,
has every difference of times that matters. Two tasks at once are the least with
which one writes what the other has made stale, and two creations the least with
which a second run meets the accounts of the first.

**Symmetry** is used where two values are treated alike: the runs of the
metadata tasks and of the send tasks, and the two EVM chains of `MCDeployment`. No
liveness is checked under symmetry.

**Bounds, named.** `MaxTime` (clock), `MaxSent` (packets sent), `MaxVerified`
(packets verified, or sent by MyOFT), `MaxAllowance` (how much the auditor lets
one direction earn before it stops watching), `MaxRuns` and `MaxMultisigs`
(creations and multisigs), `MaxChanges` (changes while a report is made),
`MaxReconfigurations` (the same for `config:get`), `MaxSettings` (changes of the OFT
and of the price of a message), `MaxAmount` and `MaxTxs` (texts and transactions of the form). They appear only
in guards.

**Deadlock** is checked in the runs of `PeerLimits`, `QuoteOFT` and `OFT`. Tasks
and forms really end, and a bridge with nothing left to send really rests, so it
is not checked in the other runs.

**Fairness.**

* `Bridge`: weak fairness of time; weak fairness of the executor asking again for
  the accounts of each packet; strong fairness of the delivery of each packet.
  Anyone may deliver and nothing is lost by trying, `retry-payload` is one way to
  do it, and strong fairness says that among those who try somebody meets the
  moments at which the delivery would succeed. No fairness of admins or senders.
* `Wire`: the operators run each task again and again with each key (strong
  fairness of `Run`), each task ends (weak fairness of `Fail`), and on no chain do
  transactions fail for ever (strong fairness of `SendsOn`). No fairness of the
  edits of the file.
* `BridgeForm`: the wallet answers its prompts, if only with a refusal, and the
  receipt of a mined transaction is found (`useWaitForTransactionReceipt` polls).
  Nothing is assumed of the user, of mining or of balances.

## 4. Proofs

`PeerLimitsProofs`:

* `Inductive`, `TypeCorrect`, `WithinAllowance`, `InboundHolds`. `OutboundWithinAllowance` is
  not inductive: that an account is not overdrawn now does not bound what the
  next transfer takes. The invariant `IInv` strengthens it: the *level* of each
  limiter, that is the tokens it would have if it were refilled now, is at most
  the account of its auditor. Since a transfer takes at most the level and both
  sides lose the same, and a second or the opposite flow adds to the account at
  least what it adds to the level, `IInv` is inductive. The lemmas
  `RefillIsExact` (a refill with saturating arithmetic yields exactly the level)
  and `SetRateKeepsLevel` carry the argument.
* `OutboundRefinement`, `InboundRefinement`: `Spec` implements `TokenBucket`
  under the mapping of the runs; each action maps to a step of the bucket or to
  a stutter.

`OFTMathProofs`:

* `PostOfPre`: what arrives of `PreFeeAmount(fee, net)` is exactly `net`.
* `PreWithinGross`: if `net` arrives of some amount, the inverted amount is not
  larger; so an Adapter never debits more than was asked for.
* `ReceiptSound`: the receipt of `compute_fee_and_adjust_amount` is whole in
  shared decimals, its debit is at most the amount asked for, and what arrives
  in the escrow is exactly the received amount plus the fee.
* Lemmas about sums (`SumsExist`, `SumsIsSum` and those after them):
  `MapThenSumSet` takes one element after the other, in an order that a `CHOOSE`
  fixes. That the sum is the same in any order, and what adding, removing or
  changing an element does to it, is shown without an induction theorem: if a claim
  failed for a subset of a finite set it would fail for a smallest one
  (`MinimalSubset`), and that one has a smaller subset for which it fails.

`QuoteOFTProofs`: `Inductive`, and from it `LeastDebit`, `OnlyDust`, `Lossless`,
`FeesAreCharged` and `Requoting`. The invariant says that a quote is the receipt
that the program would compute now for the amount asked for; the five properties
are then arithmetic of receipts, for fees and amounts of any size.

`OFTProofs`:

* `TypeCorrect`, `Solvency`, `Backing`. Neither equation of the ledger is
  inductive alone: before `init_oft` they say nothing, and a step needs the
  types of every amount it adds. `IInv` joins the types, the finiteness of the
  packet sets (the next nonce is one more than a cardinality), `Blank` (before
  `init_oft` nothing is escrowed, burned or paused) and both equations
  (`EscrowHoldsTvlAndFees`, `RemoteIsBacked`). One lemma per action shows that it
  keeps `IInv`. The step that carries the weight is `Send`: `ReceiptSound` gives
  that what arrives of the debit is the amount received plus the fee and that the
  amount received is a whole number of units; `DebitKeepsLedger` and
  `CreditKeepsLedger` turn that into the equations.
* `PauseHolds`, `SendsAreFair`, `ComposeIsExact`: the three action properties,
  from `IInv`. The lemmas `OthersSendNothing`, `OthersComposeNothing` and
  `OthersKeepBacking` say which actions cannot matter.
* `CountsOnce`: the net flow is the sum over what was sent less the sum over what
  was delivered. It is not inductive, because a packet that is verified could be
  one that was delivered already; `FlowInv` adds that every nonce is at most the
  number of packets of its path (`Numbered`), so a new one is above all of them.
* `TokensConserved`: supply, wallets, escrow and withheld fees agree to the unit
  (`SupplyAccounted`), so the escrow never exceeds the supply. No run checks it;
  `Bridge` needs it.

`BridgeProofs`:

* `BridgeInductive`: every step of the bridge is a step of the OFT, or leaves it
  alone, or is `Elapse`; so `IInv`, `FlowInv` and `SupplyAccounted` hold of it as
  well. `Sequenced` is new: the packets verified or delivered on Solana are exactly
  the first k that MyOFT sent, numbered as it sent them, where the free `Verify`
  of `OFT` allows any packet.
* `Refinement`: `BridgeSpec` implements `Ledger`. A send of either side is a
  `Depart`, a delivery an `Arrive` of a transfer that is in flight, everything else
  a stutter. That a send of Solana adds a transfer that was not in flight, and that
  a delivery takes the one it should, rest on `Sequenced`; that the amounts agree on
  both sides rests on the receipts being whole in shared decimals.

`DeploymentProofs`, for any lists of minters and number of runs, creations,
multisigs, keys and pathways:

* Metadata: `Inductive`, `TypeCorrect`, `FrozenTogether`, `UpdatesUndone`.
  `FrozenOnPurpose` is not inductive: a task that read the metadata before may write
  after it was changed, and what it writes depends on what it read. `Inv` adds what a
  task that has read still knows when it writes: to hand over it has read a mutable
  metadata (`Prepared`), to renounce it was told to (`Agreed`), and what it read of
  the text is still so unless an update of another has landed (`ReadingsCurrent`).
  From the last, `UpdatesUndone` follows step by step: `WrittenText` says what a write
  makes of the fields. `WrittenFrozen` carries the weight of the first.
* Creation: `AuthoritiesUsable`, `MintingStays`. Both speak of accounts between
  two transactions, so `CreationInv` has to say what the steps that are left know of
  those that were taken: which steps may still come (`StepsLeft`), that the mint,
  the store or the multisig they use exists, that the store is a signer of the
  multisig that is about to become an authority, and that `OFT.json` names a mint
  and a store of the same run.
* Wiring: `NothingOpens`. `WiringInv` says that the connections are declared with
  their opposites, and that a transaction that is still to be sent, however old the
  plan, is one whose Solana side was initialised when the checks passed and remains
  so.
* `DeploymentInductive`, `PartsBehave`, `DeploymentTyped`: a step of `Deployment` is
  a step of one part and a stutter of the others.

`TasksProofs`, for any number of runs, slots, endpoints, keys and connections:

* `TasksInductive` joins one invariant for each part, and `TasksTyped`,
  `SendsHold`, `SignsHold`, `BudgetHolds`, `DebugHolds`, `ConfigsHold` and
  `ColumnsHold` follow from it.
* `SendInv`: at the transfer fee that was quoted something is left of the amount
  (`Worth`), and that fee is kept until the block, where the fee of the OFT may be
  another. That an empty message has only the one exception needs arithmetic
  (`SomethingArrives`, `OneArrives`): the fee of the OFT never takes the last unit of
  an amount without dust, and nine tenths of two or more are something.
* `SignedInv`: who was asked and which key was loaded, at each step; and that
  between the limit a task set and the limit it shows only others can have come.
* `BudgetInv`: where units and instructions come from. The average needs that a sum
  of positive fees is at least their number (`SumAtLeast`); the median needs that
  the fees can be put in order at all (`OrderExists`), and that a set with the first
  half of an order has as many elements (`ManySlots`, by the pigeonhole principle).
* `DebugInv`: which lines were printed from what was read, and that the rows are in
  the order of the endpoints (`InOrder`), each for the first one without a row.
* `ConfigInv`: every answer was given of settings that the pathway had at some moment
  of the task, a config of the library that was answered before it (`AnswersOf`), and
  the entry of a printed pathway stays as its answers were, because no other pathway
  has its two networks. When the settings were the same at every moment, all answers
  are of one state, and `ColumnsOfOne` compares them.

`BridgeFormProofs`: `Inductive`, `TypeCorrect`, `QuoteHolds`, `ConfirmedHolds`,
`SentHolds`. `SentAsShown` is about a transaction whose parameters and fee were
captured two prompts earlier; so the invariant ties the fee, the call between its
two prompts and the transaction shown to the texts of a filled form, at every
moment in between, and what is confirmed to the status of its transaction.

**Assumptions.** The theorems assume what the modules' `ASSUME`s say, and TLC
evaluates those on the values of the runs. In short: `MaxU64` and
`OneInBasisPoints` are positive and powers of the radix are numbers; `None` is no
key, amount or record; the sets of inputs have their types; there are finitely many
wallets, which own no more than the supply (`WalletsAssumption`); MyOFT has one
number of decimals, not above the mint's (`BridgeAssumption`), and a bucket is full
after `MaxTime` seconds, so that `Elapse` loses nothing; the System Program is no
wallet; endpoints of Solana and of EVM chains differ; no two pathways of the graph
have the same pair of networks; the recent fees are numbers.

**Only model-checked:** the liveness properties (`EveryPacketIsDelivered`,
`WiringCompletes`, `FormUnlocks`, `ConfirmationArrives`), since liveness under
fairness is beyond the prover. Every other property of a passing run is a theorem.
No theorem rests on a recursive operator.

## 5. Where the code and its texts differ

Two differences have a run. `createOFT.ts:190` tells the operator of
`--only-oft-store` that only the OFT store will be able to mint, and asks for a
confirmation; with `--additional-minters` as well, line 201 makes a multisig that
includes the additional minters the mint authority. Run `create_oft_only_store`
finds it.

`quote_send.rs:94` says of a Native OFT that there is no transfer fee. Of the amount
that is burned there is none; but the fee of the OFT goes to the escrow by
`transfer_checked` (`send.rs:107`), and of a Token-2022 mint with a transfer fee less
arrives than was charged. Run `quotes_native_fee` finds it.

Others were met while modelling. The models do what the code does:

* `createOFT.ts:199`: without additional minters the mint authority is the store
  itself; README line 200 says it is set to a multisig.
* `setAuthority.ts:136`: a new multisig is not saved, so `OFT.json` names the
  former one, from which README line 297 takes the mint authority.
* `solana/utils.ts:70`: the search returns after the first connection with a
  Solana endpoint, so the error of line 64 about several is only raised within
  one connection.
* `taskHelper.ts:28`: the config of a Solana pathway is read from ULN302 whatever
  library the pathway uses.
* `solana/index.ts:384`: a price scale factor of 1.5, declared a float, is 1.
* `sendOFT.ts:149`: the result of the transaction is dropped, so one that the
  chain refused is reported as sent.
* `setOutboundRateLimit.ts:70`: the limit is set for Sepolia whatever `dstEid`
  says.
* `retryPayload.ts:78`: compute units and lamports are cut to a byte each.
* `BridgeForm.tsx:222`: a recipient that lost characters is filled up with zeros.
* `BridgeForm.tsx:140`: a balance of zero is taken for none, so the former one
  stays.

### Not modelled

* Messaging fees and options (`EnforcedOptions`, `combine_options`): opaque bytes
  that the endpoint prices. The byte layout of messages; a message is a record.
* `quote_send` beyond its arithmetic; it encodes the amount in local decimals
  where `send` encodes shared ones, which leaves the length of the message, and
  with it the price, the same. The limits that a quote names are constants.
* A fee withdrawal whose destination is the escrow itself.
* The OFT contract that MyOFT inherits, the LayerZero devtools, the Squads
  multisig and the token programs: external, as far as the code uses them.
* The branches of the form for a transfer from Solana: `BridgeUI` returns (lines
  49 to 53) before it sets another source chain, and nothing calls
  `BridgeTokensFromSolanaToEvm`.
* `fe-poc/src/app/config/layerzero.ts` (an ABI), wallet adapters, navigation and
  layout; the base58 converters and the printing of fees, which keep no state; the
  endpoint mock, which records one delegate; registration of tasks and networks.
* The tests, which were read for what they promise.

## 6. Plan

Done: the program, the bridge, the deployment, the tasks and the form, each
checked by TLC, and every safety and action property and every refinement that a
run checks proved for all values of the constants. Left, in this order:

1. `QuoteOFT` and `OFT` agree: a send after a quote with the same settings has the
   receipt that was quoted, as a theorem that relates the two modules.
2. The refinement of `Ledger` says what is kept step by step. That the tokens of both
   sides and those in flight always add up to the initial ones is a theorem about
   `Ledger` alone, which `Refinement` carries over to the bridge.
3. The parts of the liveness arguments that are not temporal: that a receivable
   packet stays so unless an administrator acts, and that in every locked state of
   the form one of its answers is possible.
