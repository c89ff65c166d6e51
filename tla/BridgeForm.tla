----------------------------- MODULE BridgeForm -----------------------------
(***************************************************************************)
(* The bridge form of the web application, in the only direction that the  *)
(* page can reach: from Sepolia to Solana.  Editing a field quotes the fee *)
(* in the effect of the same render; submitting asks the wallet to approve *)
(* and then to send, with values captured at the submit; meanwhile the     *)
(* user may change the account or the chain in the wallet, transactions    *)
(* are mined or reverted, and receipts and balances arrive when they like. *)
(***************************************************************************)
EXTENDS Naturals, Sequences

CONSTANTS
  Accounts,    \* the EVM accounts of the wallet
  Recipients,  \* what is typed or pasted as a recipient
  Bytes,       \* how many bytes a recipient decodes to; None if it is not base58
  MaxAmount,   \* bound: the largest amount that is typed
  MaxTxs,      \* bound: how many transactions are sent
  Funds,       \* the balance every account starts with
  None, Empty, \* null and ''
  NotPositive, \* an amount that parseFloat finds NaN or not above zero: '.', '0'
  Malformed    \* one that parseFloat accepts and parseUnits does not: '1.2.3'

ASSUME BridgeFormAssumption ==
  /\ \A r \in Recipients : r \in DOMAIN Bytes /\ Bytes[r] \in Nat \cup {None}
  /\ {MaxAmount, MaxTxs, Funds} \subseteq Nat
  /\ {None, Empty} \cap (Accounts \cup Recipients) = {}

VARIABLES
  evmAddress,    \* the account of the wallet, None when not connected
  onSepolia,     \* evmChainId === EVM_CHAIN_ID
  amount,        \* the two fields
  recipientAddress,
  quotedFee,     \* None, or the parameters that the fee was quoted for
  call,          \* None, or handleBridge between its two prompts
  feedback,
  bridgeTxHash,  \* the transaction the form shows
  evmSendTxHash, \* the data of the send mutation
  evmTxReceipt,  \* the data of useWaitForTransactionReceipt
  txs,           \* the transactions sent, by hash
  holdings,      \* the token balance of each account on Sepolia
  balance,       \* the data of the balanceOf read, None while there is none
  ethBalance     \* the balance that the form shows

fields == <<amount, recipientAddress>>
shownTx == <<bridgeTxHash, evmSendTxHash, evmTxReceipt>>
wallet == <<evmAddress, onSepolia>>
tokens == <<txs, holdings, balance, ethBalance>>
vars == <<wallet, fields, quotedFee, call, feedback, shownTx, tokens>>

NumericAmounts == 1..MaxAmount
AmountTexts == NumericAmounts \cup {Empty, NotPositive, Malformed}
RecipientTexts == Recipients \cup {Empty}

Feedbacks == {"none", "invalid amount", "connect to Sepolia", "quote failed",
              "invalid recipient", "approving", "approved", "approval failed",
              "waiting for confirmation", "bridging failed", "confirmed"}

\* bs58.decode, bytesToHex and pad: too many bytes throw, too few are filled
\* up with zeros in front.
Decodes(r) == Bytes[r] # None /\ Bytes[r] <= 32
ToBytes32(r) == [address |-> r, zeros |-> 32 - Bytes[r]]

SendParam(a, r) == [amountLD |-> a, to |-> ToBytes32(r)]
SendParams == [amountLD : NumericAmounts,
               to : [address : Recipients, zeros : 0..32]]

Init ==
  /\ evmAddress = None /\ onSepolia = FALSE
  /\ amount = Empty /\ recipientAddress = Empty
  /\ quotedFee = None /\ call = None /\ feedback = "none"
  /\ bridgeTxHash = None /\ evmSendTxHash = None /\ evmTxReceipt = None
  /\ txs = <<>> /\ holdings = [a \in Accounts |-> Funds]
  /\ balance = None /\ ethBalance = 0

isCorrectEvmChain == evmAddress # None /\ onSepolia
isLoading == call # None

(* The wallet: connect, disconnect, another account, another chain. *)
SetWallet(a, sepolia) ==
  /\ <<a, sepolia>> # wallet
  /\ evmAddress' = a /\ onSepolia' = sepolia
  /\ balance' = IF a = evmAddress THEN balance ELSE None
  /\ UNCHANGED <<fields, quotedFee, call, feedback, shownTx, txs, holdings, ethBalance>>

\* What handleQuoteFee reports of the two texts, "none" if it quotes a fee.
QuoteFeedback(a, r) ==
  IF a = NotPositive THEN "invalid amount"
  ELSE IF ~isCorrectEvmChain THEN "connect to Sepolia"
  ELSE IF a = Malformed THEN "quote failed"
  ELSE IF ~Decodes(r) THEN "invalid recipient"
  ELSE "none"

\* The answer of simulateEVMQuoteSend, a constant for now, named for the question.
QuotedFee(a, r) == IF QuoteFeedback(a, r) = "none" THEN SendParam(a, r) ELSE None

\* A bug: the quote does not clear what the form shows of the last transaction.
QuoteKeepsFeedback(a, r) ==
  /\ quotedFee' = QuotedFee(a, r)
  /\ UNCHANGED <<feedback, bridgeTxHash>>

(***************************************************************************)
(* The quote of a rendered pair of texts.  It awaits no network, so that   *)
(* nothing comes between question and answer.                              *)
(***************************************************************************)
HandleQuoteFee(a, r) ==
  /\ feedback' = QuoteFeedback(a, r)
  /\ quotedFee' = QuotedFee(a, r)
  /\ bridgeTxHash' = None

\* A bug: the effect depends on [amount] only.
QuoteEffectOnAmount(a, r) ==
  IF a # Empty /\ r # Empty /\ a # amount
  THEN HandleQuoteFee(a, r) ELSE UNCHANGED <<feedback, quotedFee, bridgeTxHash>>

\* The effect on [amount, recipientAddress].
QuoteEffect(a, r) ==
  IF a # Empty /\ r # Empty THEN HandleQuoteFee(a, r)
                            ELSE UNCHANGED <<feedback, quotedFee, bridgeTxHash>>

\* A bug: the inputs are not disabled while the form waits for the wallet.
AlwaysEditable == TRUE

\* disabled={isLoading || !sourceChain}
Editable == ~isLoading

EditFields(a, r) ==
  /\ Editable
  /\ <<a, r>> # fields
  /\ a = amount \/ r = recipientAddress
  /\ amount' = a /\ recipientAddress' = r
  /\ QuoteEffect(a, r)
  /\ UNCHANGED <<wallet, call, evmSendTxHash, evmTxReceipt, tokens>>

\* The button is not disabled and the required fields are filled.
Submittable ==
  /\ ~isLoading /\ quotedFee # None /\ isCorrectEvmChain
  /\ amount # Empty /\ recipientAddress # Empty

(***************************************************************************)
(* handleBridge, up to the prompt for the approval.  Texts that do not     *)
(* parse end in its catch.                                                 *)
(***************************************************************************)
HandleBridge ==
  /\ Submittable
  /\ bridgeTxHash' = None
  /\ IF amount \in NumericAmounts /\ Decodes(recipientAddress)
     THEN /\ call' = [step |-> "approve", fee |-> quotedFee, refund |-> evmAddress,
                      param |-> SendParam(amount, recipientAddress)]
          /\ feedback' = "approving"
     ELSE call' = call /\ feedback' = "bridging failed"
  /\ UNCHANGED <<wallet, fields, quotedFee, evmSendTxHash, evmTxReceipt, tokens>>

Awaits(step) == call # None /\ call.step = step

\* approveAsync resolves and the send mutation starts, which forgets the hash
\* and with it the receipt of the transaction before.
Approved ==
  /\ Awaits("approve") /\ isCorrectEvmChain
  /\ call' = [call EXCEPT !.step = "send"]
  /\ feedback' = "approved"
  /\ evmSendTxHash' = None /\ evmTxReceipt' = None
  /\ UNCHANGED <<wallet, fields, quotedFee, bridgeTxHash, tokens>>

\* A bug: the inner catch returns without setIsBridging(false) or a finally.
ApprovalFailedStaysBridging ==
  /\ Awaits("approve")
  /\ call' = [call EXCEPT !.step = "returned"]
  /\ feedback' = "approval failed"
  /\ UNCHANGED <<wallet, fields, quotedFee, shownTx, tokens>>

ApprovalFailed ==
  /\ Awaits("approve")
  /\ call' = None
  /\ feedback' = "approval failed"
  /\ UNCHANGED <<wallet, fields, quotedFee, shownTx, tokens>>

\* writeContractAsync resolves: the wallet has sent, from its account of now.
Sent ==
  /\ Awaits("send") /\ isCorrectEvmChain /\ Len(txs) < MaxTxs
  /\ txs' = Append(txs, [param |-> call.param, fee |-> call.fee, refund |-> call.refund,
                         from |-> evmAddress, status |-> "pending"])
  /\ evmSendTxHash' = Len(txs') /\ bridgeTxHash' = Len(txs')
  /\ call' = None
  /\ feedback' = "waiting for confirmation"
  /\ UNCHANGED <<wallet, fields, quotedFee, evmTxReceipt, holdings, balance, ethBalance>>

SendFailed ==
  /\ Awaits("send")
  /\ call' = None
  /\ feedback' = "bridging failed"
  /\ bridgeTxHash' = None
  /\ UNCHANGED <<wallet, fields, quotedFee, evmSendTxHash, evmTxReceipt, tokens>>

(* Sepolia includes a transaction; it reverts at will, and if it must. *)
Mine(t) ==
  /\ txs[t].status = "pending"
  /\ holdings[txs[t].from] >= txs[t].param.amountLD
  /\ txs' = [txs EXCEPT ![t].status = "success"]
  /\ holdings' = [holdings EXCEPT ![txs[t].from] = @ - txs[t].param.amountLD]
  /\ UNCHANGED <<wallet, fields, quotedFee, call, feedback, shownTx, balance, ethBalance>>

Revert(t) ==
  /\ txs[t].status = "pending"
  /\ txs' = [txs EXCEPT ![t].status = "reverted"]
  /\ UNCHANGED <<wallet, fields, quotedFee, call, feedback, shownTx,
                 holdings, balance, ethBalance>>

\* useWaitForTransactionReceipt answers; it throws for a reverted transaction.
HasReceipt(t) == txs[t].status = "success"

\* A bug: the effect compares with the hash of an earlier render.
ShowsStaleHash(t) == bridgeTxHash = t /\ t = 1

\* The comparison in the effect on [evmTxReceipt, evmSendError, bridgeTxHash].
ShowsHash(t) == bridgeTxHash = t

Receipt ==
  /\ evmSendTxHash # None /\ evmTxReceipt = None
  /\ HasReceipt(evmSendTxHash)
  /\ evmTxReceipt' = evmSendTxHash
  /\ feedback' = IF ShowsHash(evmSendTxHash) THEN "confirmed" ELSE feedback
  /\ UNCHANGED <<wallet, fields, quotedFee, call, bridgeTxHash, evmSendTxHash, tokens>>

(***************************************************************************)
(* balanceOf answers: after a change of account, after each new feedback,  *)
(* whenever the window regains the focus.  The effect takes a balance of   *)
(* zero for one that has not arrived.                                      *)
(***************************************************************************)
BalanceAnswer ==
  /\ evmAddress # None
  /\ balance' = holdings[evmAddress]
  /\ ethBalance' = IF balance' # 0 THEN balance' ELSE ethBalance
  /\ <<balance', ethBalance'>> # <<balance, ethBalance>>
  /\ UNCHANGED <<wallet, fields, quotedFee, call, feedback, shownTx, txs, holdings>>

Answer == Approved \/ ApprovalFailed \/ Sent \/ SendFailed

Next ==
  \/ \E a \in Accounts \cup {None}, sepolia \in BOOLEAN : SetWallet(a, sepolia)
  \/ \E a \in AmountTexts, r \in RecipientTexts : EditFields(a, r)
  \/ HandleBridge
  \/ Approved
  \/ ApprovalFailed
  \/ Sent
  \/ SendFailed
  \/ \E t \in DOMAIN txs : Mine(t) \/ Revert(t)
  \/ Receipt
  \/ BalanceAnswer

Spec == Init /\ [][Next]_vars

\* The wallet answers each prompt, if only with a refusal, and the receipt of
\* a mined transaction is found.
FairSpec == Spec /\ WF_vars(Answer) /\ WF_vars(Receipt)

-----------------------------------------------------------------------------
Tx == [param : SendParams, fee : SendParams, refund : Accounts, from : Accounts,
       status : {"pending", "success", "reverted"}]

\* The variables stay in their domains.
TypeOK ==
  /\ evmAddress \in Accounts \cup {None} /\ onSepolia \in BOOLEAN
  /\ amount \in AmountTexts /\ recipientAddress \in RecipientTexts
  /\ quotedFee \in SendParams \cup {None}
  /\ call \in [step : {"approve", "send"}, fee : SendParams, refund : Accounts,
               param : SendParams] \cup {None}
  /\ feedback \in Feedbacks
  /\ {bridgeTxHash, evmSendTxHash, evmTxReceipt} \subseteq DOMAIN txs \cup {None}
  /\ txs \in Seq(Tx) /\ Len(txs) <= MaxTxs
  /\ holdings \in [Accounts -> 0..Funds]
  /\ balance \in 0..Funds \cup {None} /\ ethBalance \in 0..Funds

\* The texts of the form, as the parameters they stand for.
Shown(param) == amount = param.amountLD /\ recipientAddress = param.to.address

Filled == amount # Empty /\ recipientAddress # Empty

\* Whatever was typed, cleared and typed again, and whatever failed between:
\* a fee on a filled form is the fee of the texts the form shows, so that no
\* submit pays a quote of another amount or recipient.
QuoteIsForShown == quotedFee # None /\ Filled => Shown(quotedFee)

\* A transaction leaves only for what the form shows at that moment, although
\* its parameters and its fee were captured two prompts earlier.
SentAsShown ==
  [][Len(txs') > Len(txs) =>
       LET tx == txs'[Len(txs')] IN Shown(tx.param) /\ tx.fee = tx.param]_vars

\* "Confirmed" is only ever shown of a transaction that was mined without a
\* revert, together with its hash and, on a filled form, with its own texts.
ConfirmedIsMined ==
  feedback = "confirmed" =>
    /\ bridgeTxHash # None
    /\ txs[bridgeTxHash].status = "success"
    /\ Filled => Shown(txs[bridgeTxHash].param)

\* No outcome of a prompt leaves the form locked.
FormUnlocks == isLoading ~> ~isLoading

\* A mined transaction that the form shows is eventually reported, unless the
\* form has moved on to another one.
ConfirmationArrives ==
  \A t \in 1..MaxTxs :
    (bridgeTxHash = t /\ txs[t].status = "success")
      ~> (feedback = "confirmed" \/ bridgeTxHash # t)
=============================================================================
