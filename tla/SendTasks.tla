------------------------------ MODULE SendTasks ------------------------------
(***************************************************************************)
(* The operators' tasks that send tokens: lz:oft:solana:send and, for an   *)
(* EVM chain, send.  A task checks, quotes, submits one transaction and    *)
(* waits for it; between its steps other tasks spend from the same wallet, *)
(* the admin changes or pauses the OFT, its limiter is used and filled, an *)
(* epoch brings another transfer fee and the price of a message moves.     *)
(* A request may fail and a transaction on Solana may expire.              *)
(***************************************************************************)
EXTENDS OFTMath, FiniteSets

CONSTANTS
  Runs,         \* the runs of the tasks, each of which sends once
  Amounts,      \* the amounts that are asked for
  InitBalances, \* what the wallet may own on either chain at first
  Rates,        \* local units in a shared one, of the mint on Solana
  evmRate,      \*   and of MyOFT
  FeeBps,       \* the fees that the admin sets on Solana
  TransferFees, \* the transfer fees of the mint
  Allowances,   \* what the outbound limiter holds, None without a limiter
  MessageFees,  \* the prices of a message
  MaxSettings   \* bounds how often the OFT or the price changes

Steps == {"check", "quote", "submit", "confirm", "reported", "threw"}

SendTasksAssumption ==
  /\ Amounts \cup InitBalances \subseteq Amount
  /\ Rates \cup {evmRate} \subseteq Amount \ {0}
  /\ FeeBps \subseteq 0 .. (OneInBasisPoints - 1)
  /\ TransferFees \subseteq TransferFee \cup {None}
  /\ Allowances \subseteq Amount \cup {None}
  /\ MessageFees \subseteq Nat
  /\ None \notin Steps

VARIABLES
  balance,    \* what the wallet owns on each chain
  oft,        \* the OFT on Solana: its type, rate, fees, pause and limiter
  messageFee, \* what the endpoints charge for a message
  settings,   \* how often oft or messageFee was changed
  run,        \* each run: its chain, amount, next step, and what the quote found
  tx          \* its transaction: its status, what the receiver is due, and the
              \*   transfer fee of its block

world == <<balance, oft, messageFee, settings>>
vars == <<world, run, tx>>

Chains == {"solana", "evm"}
NotRun ==
  [chain |-> None, amount |-> 0, next |-> None, nativeFee |-> None, transferFee |-> None]
NoTx == [status |-> "none", received |-> 0, transferFee |-> None]

OFTs == [type : {"Native", "Adapter"}, rate : Rates, feeBps : FeeBps,
         transferFee : TransferFees, paused : BOOLEAN, allowance : Amount \cup {None}]

Init ==
  /\ balance \in [Chains -> InitBalances]
  /\ oft \in OFTs /\ oft.allowance \in Allowances
  /\ messageFee \in MessageFees
  /\ settings = 0
  /\ run = [r \in Runs |-> NotRun]
  /\ tx = [r \in Runs |-> NoTx]

-----------------------------------------------------------------------------
\* What the OFT makes of a send: MyOFT keeps no fee.
Receipt(chain, amount) ==
  IF chain = "solana"
  THEN ComputeFeeAndAdjustAmount(oft.type, oft.rate, oft.transferFee, oft.feeBps, amount)
  ELSE NativeReceipt(evmRate, 0, amount)

\* The OFT on Solana refuses while it is paused.
Open(chain) == chain = "solana" => ~oft.paused

\* minAmountLd of the send: nine tenths.
MinAmount(amount) == (amount * 9) \div 10

\* A bug: the quote asks for the minimum of the send.
QuotedMinimumOfSend(chain, amount) == (amount * 9) \div 10

\* minAmountLd of the quote: one, or on an EVM chain that of the send.
QuotedMinimum(chain, amount) == IF chain = "solana" THEN 1 ELSE MinAmount(amount)

\* The limiter of the peer has the tokens, and what it has left.
Admits(chain, received) ==
  chain = "solana" /\ oft.allowance # None => received <= oft.allowance

Left(chain, received) ==
  IF chain = "solana" /\ oft.allowance # None THEN oft.allowance - received ELSE oft.allowance

\* The OFT and the endpoint accept the transaction of a run.
Accepts(r) ==
  LET chain == run[r].chain
      receipt == Receipt(chain, run[r].amount)
  IN  /\ Open(chain)
      /\ receipt.received >= MinAmount(run[r].amount)
      /\ Admits(chain, receipt.received)
      /\ receipt.sent <= balance[chain]
      /\ messageFee <= run[r].nativeFee

-----------------------------------------------------------------------------
(* The tasks. *)

\* The task on an EVM chain does not look at the balance.
FirstStep(chain) == IF chain = "solana" THEN "check" ELSE "quote"

Start(r, chain, amount) ==
  /\ run[r] = NotRun
  /\ run' = [run EXCEPT ![r] = [NotRun EXCEPT !.chain = chain, !.amount = amount,
                                              !.next = FirstStep(chain)]]
  /\ UNCHANGED <<world, tx>>

\* run r goes on to another step.
Goes(r, step) == run' = [run EXCEPT ![r].next = step]

CheckBalance(r) ==
  /\ run[r].next = "check"
  /\ Goes(r, IF run[r].amount = 0 \/ run[r].amount > balance.solana THEN "threw" ELSE "quote")
  /\ UNCHANGED <<world, tx>>

Quotes(chain, amount) ==
  Open(chain) /\ Receipt(chain, amount).received >= QuotedMinimum(chain, amount)

QuoteSend(r) ==
  /\ run[r].next = "quote"
  /\ IF Quotes(run[r].chain, run[r].amount)
     THEN run' = [run EXCEPT ![r].next = "submit", ![r].nativeFee = messageFee,
                             ![r].transferFee = oft.transferFee]
     ELSE Goes(r, "threw")
  /\ UNCHANGED <<world, tx>>

\* On Solana a transaction is simulated before it is submitted; on an EVM chain
\* the task gives the gas limit, and it is not.
Submit(r) ==
  /\ run[r].next = "submit"
  /\ IF run[r].chain = "solana" /\ ~Accepts(r)
     THEN Goes(r, "threw") /\ UNCHANGED tx
     ELSE Goes(r, "confirm") /\ tx' = [tx EXCEPT ![r].status = "pending"]
  /\ UNCHANGED world

\* Any request of the task may fail; its transaction has a life of its own.
RequestFails(r) ==
  /\ run[r].next \in {"check", "quote", "submit", "confirm"}
  /\ Goes(r, "threw")
  /\ UNCHANGED <<world, tx>>

\* The transaction is in a block, where it may be refused.
Land(r) ==
  LET chain == run[r].chain
      receipt == Receipt(chain, run[r].amount)
  IN
  /\ tx[r].status = "pending"
  /\ IF Accepts(r)
     THEN /\ tx' = [tx EXCEPT ![r] = [status |-> "landed", received |-> receipt.received,
                                      transferFee |-> oft.transferFee]]
          /\ balance' = [balance EXCEPT ![chain] = @ - receipt.sent]
          /\ oft' = [oft EXCEPT !.allowance = Left(chain, receipt.received)]
     ELSE /\ tx' = [tx EXCEPT ![r].status = "refused"]
          /\ UNCHANGED <<balance, oft>>
  /\ UNCHANGED <<messageFee, settings, run>>

\* The blockhash of a transaction on Solana expires.
Expire(r) ==
  /\ tx[r].status = "pending" /\ run[r].chain = "solana"
  /\ tx' = [tx EXCEPT ![r].status = "expired"]
  /\ UNCHANGED <<world, run>>

\* wait throws for a transaction that was refused.  sendAndConfirm throws for
\* one that expired; for one that was refused it returns a result with the
\* error, which the task drops.
Throws(r) ==
  \/ tx[r].status = "expired"
  \/ tx[r].status = "refused" /\ run[r].chain = "evm"

Confirms(r) == tx[r].status \in {"landed", "refused", "expired"}

Confirm(r) ==
  /\ run[r].next = "confirm" /\ Confirms(r)
  /\ Goes(r, IF Throws(r) THEN "threw" ELSE "reported")
  /\ UNCHANGED <<world, tx>>

\* The admin changes the fee, somebody pauses or resumes the OFT, an epoch begins,
\* or time and other senders move the limiter.
ChangeOFT ==
  /\ settings < MaxSettings /\ settings' = settings + 1
  /\ \/ \E bps \in FeeBps \ {oft.feeBps} : oft' = [oft EXCEPT !.feeBps = bps]
     \/ \E fee \in TransferFees \ {oft.transferFee} : oft' = [oft EXCEPT !.transferFee = fee]
     \/ oft' = [oft EXCEPT !.paused = ~oft.paused]
     \/ \E left \in Allowances \ {oft.allowance} : oft' = [oft EXCEPT !.allowance = left]
  /\ UNCHANGED <<balance, messageFee, run, tx>>

SetMessageFee ==
  /\ settings < MaxSettings /\ settings' = settings + 1
  /\ messageFee' \in MessageFees \ {messageFee}
  /\ UNCHANGED <<balance, oft, run, tx>>

Next ==
  \/ \E r \in Runs, chain \in Chains, amount \in Amounts : Start(r, chain, amount)
  \/ \E r \in Runs : CheckBalance(r) \/ QuoteSend(r) \/ Submit(r) \/ RequestFails(r)
                       \/ Land(r) \/ Expire(r) \/ Confirm(r)
  \/ ChangeOFT \/ SetMessageFee

Spec == Init /\ [][Next]_vars

-----------------------------------------------------------------------------
\* No balance or limiter is overdrawn, and no transaction goes out without a quote.
TypeOK ==
  /\ balance \in [Chains -> Amount]
  /\ oft \in OFTs /\ messageFee \in MessageFees
  /\ \A r \in Runs :
       run[r] = NotRun \/
         /\ run[r].chain \in Chains /\ run[r].amount \in Amounts /\ run[r].next \in Steps
         /\ run[r].next \in {"submit", "confirm", "reported"} => run[r].nativeFee \in MessageFees
  /\ \A r \in Runs : tx[r].status \in {"none", "pending", "landed", "refused", "expired"}

Landed(r) == tx[r].status = "landed"

\* The minimum of the send is nothing for an amount of one, and only the quote asks
\* for something to arrive.  Whatever fee, limiter and pause become between the
\* quote and the block, an empty message leaves Solana in one case only: a single
\* unit of an Adapter without dust, whose transfer fee has changed since the quote
\* (quote_send.rs:82, send.rs:65).
NothingEmptyLeavesSolana ==
  \A r \in Runs :
    Landed(r) /\ run[r].chain = "solana" /\ tx[r].received = 0 =>
      /\ run[r].amount = 1
      /\ oft.type = "Adapter" /\ oft.rate = 1
      /\ tx[r].transferFee # run[r].transferFee

\* What a task reports is in a block, and on an EVM chain it has taken place.
ReportedIsInBlock ==
  \A r \in Runs :
    run[r].next = "reported" =>
      Landed(r) \/ (tx[r].status = "refused" /\ run[r].chain = "solana")
=============================================================================
