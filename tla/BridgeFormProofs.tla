-------------------------- MODULE BridgeFormProofs --------------------------
(***************************************************************************)
(* Proofs about the bridge form, for any accounts, recipients, amounts and *)
(* number of transactions.  The invariant ties the three things that are   *)
(* captured at different renders (the quoted fee, the call between its two *)
(* prompts, and the transaction that is shown) to the texts of the form.   *)
(***************************************************************************)
EXTENDS BridgeForm, TLAPS

\* A fee on a filled form was quoted for exactly its texts.
QuoteIsExact ==
  quotedFee # None /\ Filled => quotedFee = SendParam(amount, recipientAddress)

\* While the wallet is asked, the form shows what it is asked for.
CallIsForShown ==
  call # None => Filled /\ Shown(call.param) /\ call.fee = call.param

\* The transaction that a filled form shows is one for its texts.
TxIsForShown ==
  bridgeTxHash # None /\ Filled => Shown(txs[bridgeTxHash].param)

\* What is confirmed was mined.
ConfirmedSucceeded ==
  feedback = "confirmed" =>
    bridgeTxHash # None /\ txs[bridgeTxHash].status = "success"

IInv ==
  /\ TypeOK
  /\ QuoteIsExact
  /\ CallIsForShown
  /\ TxIsForShown
  /\ ConfirmedSucceeded

-----------------------------------------------------------------------------
\* The parameters of a filled form whose recipient decodes are parameters of send.
LEMMA SendParamType ==
  ASSUME NEW a \in NumericAmounts, NEW r \in Recipients, Decodes(r)
  PROVE  SendParam(a, r) \in SendParams
<1>1. Bytes[r] \in Nat /\ Bytes[r] <= 32
  BY BridgeFormAssumption DEF Decodes
<1>2. 32 - Bytes[r] \in 0 .. 32
  BY <1>1
<1> QED
  BY <1>2 DEF SendParam, SendParams, ToBytes32

\* A quote of a filled form is none, or one for its texts.
LEMMA QuotedFeeType ==
  ASSUME NEW a \in AmountTexts, NEW r \in RecipientTexts, a # Empty, r # Empty
  PROVE  /\ QuotedFee(a, r) \in SendParams \cup {None}
         /\ QuotedFee(a, r) # None => QuotedFee(a, r) = SendParam(a, r)
<1>1. QuoteFeedback(a, r) = "none" => a \in NumericAmounts /\ r \in Recipients /\ Decodes(r)
  BY DEF QuoteFeedback, AmountTexts, RecipientTexts
<1> QED
  BY <1>1, SendParamType DEF QuotedFee

LEMMA QuoteFeedbackType ==
  ASSUME NEW a, NEW r
  PROVE  QuoteFeedback(a, r) \in Feedbacks /\ QuoteFeedback(a, r) # "confirmed"
BY DEF QuoteFeedback, Feedbacks

-----------------------------------------------------------------------------
LEMMA InitStep == Init => IInv
<1> SUFFICES ASSUME Init PROVE IInv
  OBVIOUS
<1>1. TypeOK
  <2>1. Funds \in 0 .. Funds /\ 0 \in 0 .. Funds /\ 0 <= MaxTxs
    BY BridgeFormAssumption
  <2>2. <<>> \in Seq(Tx) /\ Len(<<>>) = 0
    OBVIOUS
  <2> QED
    BY <2>1, <2>2 DEF Init, TypeOK, AmountTexts, RecipientTexts, Feedbacks
<1> QED
  BY <1>1 DEF Init, IInv, QuoteIsExact, CallIsForShown, TxIsForShown,
              ConfirmedSucceeded, Filled

LEMMA SetWalletStep ==
  ASSUME IInv, NEW a \in Accounts \cup {None}, NEW sepolia \in BOOLEAN,
         SetWallet(a, sepolia)
  PROVE  IInv'
<1>1. TypeOK'
  BY DEF IInv, TypeOK, SetWallet, wallet, fields, shownTx
<1> QED
  BY <1>1 DEF IInv, SetWallet, fields, shownTx, QuoteIsExact, CallIsForShown,
              TxIsForShown, ConfirmedSucceeded, Filled, Shown

LEMMA EditFieldsStep ==
  ASSUME IInv, NEW a \in AmountTexts, NEW r \in RecipientTexts, EditFields(a, r)
  PROVE  IInv'
<1>1. /\ amount' = a /\ recipientAddress' = r /\ call = None
      /\ UNCHANGED <<wallet, call, evmSendTxHash, evmTxReceipt, tokens>>
  BY DEF EditFields, Editable, isLoading
<1>2. CASE a # Empty /\ r # Empty
  <2>1. /\ feedback' = QuoteFeedback(a, r) /\ quotedFee' = QuotedFee(a, r)
        /\ bridgeTxHash' = None
    BY <1>2 DEF EditFields, QuoteEffect, HandleQuoteFee
  <2>2. /\ quotedFee' \in SendParams \cup {None}
        /\ quotedFee' # None => quotedFee' = SendParam(a, r)
        /\ feedback' \in Feedbacks /\ feedback' # "confirmed"
    BY <1>2, <2>1, QuotedFeeType, QuoteFeedbackType
  <2>3. TypeOK'
    BY <1>1, <2>1, <2>2 DEF IInv, TypeOK, wallet, tokens
  <2> QED
    BY <1>1, <2>1, <2>2, <2>3
    DEF IInv, QuoteIsExact, CallIsForShown, TxIsForShown, ConfirmedSucceeded
<1>3. CASE ~(a # Empty /\ r # Empty)
  <2>1. UNCHANGED <<feedback, quotedFee, bridgeTxHash>>
    BY <1>3 DEF EditFields, QuoteEffect
  <2>2. TypeOK'
    BY <1>1, <2>1 DEF IInv, TypeOK, wallet, tokens
  <2>3. ~Filled'
    BY <1>1, <1>3 DEF Filled
  <2> QED
    BY <1>1, <2>1, <2>2, <2>3
    DEF IInv, QuoteIsExact, CallIsForShown, TxIsForShown, ConfirmedSucceeded, tokens
<1> QED
  BY <1>2, <1>3

LEMMA HandleBridgeStep ==
  ASSUME IInv, HandleBridge
  PROVE  IInv'
<1>1. /\ call = None /\ quotedFee # None /\ Filled
      /\ quotedFee = SendParam(amount, recipientAddress)
      /\ evmAddress \in Accounts
      /\ quotedFee \in SendParams
  BY DEF HandleBridge, Submittable, isLoading, isCorrectEvmChain, IInv, QuoteIsExact,
         Filled, TypeOK
<1>2. /\ bridgeTxHash' = None
      /\ UNCHANGED <<wallet, fields, quotedFee, evmSendTxHash, evmTxReceipt, tokens>>
  BY DEF HandleBridge
<1>3. \/ /\ call' = [step |-> "approve", fee |-> quotedFee, refund |-> evmAddress,
                     param |-> SendParam(amount, recipientAddress)]
         /\ feedback' = "approving"
      \/ call' = None /\ feedback' = "bridging failed"
  BY <1>1 DEF HandleBridge
<1>4. /\ call' \in [step : {"approve", "send"}, fee : SendParams,
                    refund : Accounts, param : SendParams] \cup {None}
      /\ feedback' \in Feedbacks /\ feedback' # "confirmed"
  <2>1. CASE call' = None /\ feedback' = "bridging failed"
    BY <2>1 DEF Feedbacks
  <2>2. CASE call' = [step |-> "approve", fee |-> quotedFee, refund |-> evmAddress,
                      param |-> quotedFee] /\ feedback' = "approving"
    BY <1>1, <2>2 DEF Feedbacks
  <2> QED
    BY <1>1, <1>3, <2>1, <2>2
<1>5. TypeOK'
  BY <1>2, <1>4 DEF IInv, TypeOK, wallet, fields, tokens
<1>6. call' # None => call'.param = quotedFee /\ call'.fee = quotedFee
  <2>1. CASE call' = None
    BY <2>1
  <2>2. CASE call' = [step |-> "approve", fee |-> quotedFee, refund |-> evmAddress,
                      param |-> quotedFee]
    BY <2>2
  <2> QED
    BY <1>1, <1>3, <2>1, <2>2
<1>7. Shown(quotedFee)
  BY <1>1 DEF Shown, SendParam, ToBytes32
<1>8. CallIsForShown'
  BY <1>1, <1>2, <1>6, <1>7 DEF CallIsForShown, fields, Filled, Shown
<1> QED
  BY <1>2, <1>4, <1>5, <1>8
  DEF IInv, QuoteIsExact, TxIsForShown, ConfirmedSucceeded, fields, Filled

\* The answers of the wallet that send nothing.
LEMMA ApprovedStep ==
  ASSUME IInv, Approved
  PROVE  IInv'
<1>1. /\ call # None /\ call \in [step : {"approve", "send"}, fee : SendParams,
                                  refund : Accounts, param : SendParams]
  BY DEF Approved, Awaits, IInv, TypeOK
<1>2. /\ call' = [call EXCEPT !.step = "send"] /\ feedback' = "approved"
      /\ evmSendTxHash' = None /\ evmTxReceipt' = None
      /\ UNCHANGED <<wallet, fields, quotedFee, bridgeTxHash, tokens>>
  BY DEF Approved
<1>3. TypeOK'
  BY <1>1, <1>2 DEF IInv, TypeOK, wallet, fields, tokens, Feedbacks
<1>4. call'.param = call.param /\ call'.fee = call.fee
  BY <1>1, <1>2
<1> QED
  BY <1>1, <1>2, <1>3, <1>4
  DEF IInv, QuoteIsExact, CallIsForShown, TxIsForShown, ConfirmedSucceeded, fields,
      tokens, Filled, Shown

LEMMA FailureStep ==
  ASSUME IInv, ApprovalFailed \/ SendFailed
  PROVE  IInv'
<1>1. /\ call' = None /\ feedback' \in {"approval failed", "bridging failed"}
      /\ bridgeTxHash' \in {bridgeTxHash, None}
      /\ UNCHANGED <<wallet, fields, quotedFee, evmSendTxHash, evmTxReceipt, tokens>>
  BY DEF ApprovalFailed, SendFailed, shownTx
<1>2. TypeOK'
  BY <1>1 DEF IInv, TypeOK, wallet, fields, tokens, Feedbacks
<1> QED
  BY <1>1, <1>2
  DEF IInv, QuoteIsExact, CallIsForShown, TxIsForShown, ConfirmedSucceeded, fields,
      tokens, Filled, Shown

\* What Append makes of the transactions.
LEMMA Appended ==
  ASSUME NEW s \in Seq(Tx), NEW tx \in Tx
  PROVE  /\ Append(s, tx) \in Seq(Tx)
         /\ Len(Append(s, tx)) = Len(s) + 1
         /\ DOMAIN s \subseteq DOMAIN Append(s, tx)
         /\ Len(s) + 1 \in DOMAIN Append(s, tx)
         /\ Append(s, tx)[Len(s) + 1] = tx
OBVIOUS

LEMMA SentStep ==
  ASSUME IInv, Sent
  PROVE  /\ IInv'
         /\ Len(txs') = Len(txs) + 1
         /\ LET tx == txs'[Len(txs')] IN Shown(tx.param) /\ tx.fee = tx.param
<1> DEFINE tx == [param |-> call.param, fee |-> call.fee, refund |-> call.refund,
                  from |-> evmAddress, status |-> "pending"]
<1>1. /\ call # None
      /\ call \in [step : {"approve", "send"}, fee : SendParams,
                   refund : Accounts, param : SendParams]
      /\ evmAddress \in Accounts
      /\ Filled /\ Shown(call.param) /\ call.fee = call.param
  BY DEF Sent, Awaits, isCorrectEvmChain, IInv, TypeOK, CallIsForShown
<1>2. /\ Len(txs) < MaxTxs
      /\ txs' = Append(txs, tx)
      /\ evmSendTxHash' = Len(txs') /\ bridgeTxHash' = Len(txs')
      /\ call' = None
      /\ feedback' = "waiting for confirmation"
      /\ UNCHANGED <<wallet, fields, quotedFee, evmTxReceipt, holdings, balance, ethBalance>>
  BY DEF Sent
<1>3. tx \in Tx /\ tx.param = call.param /\ tx.fee = call.fee
  BY <1>1 DEF Tx
<1> HIDE DEF tx
<1>4. txs \in Seq(Tx) /\ Len(txs) \in Nat /\ MaxTxs \in Nat
  BY BridgeFormAssumption DEF IInv, TypeOK
<1>5. /\ txs' \in Seq(Tx) /\ Len(txs') = Len(txs) + 1
      /\ DOMAIN txs \subseteq DOMAIN txs' /\ Len(txs') \in DOMAIN txs'
      /\ txs'[Len(txs')] = tx
  BY <1>2, <1>3, <1>4, Appended
<1>6. TypeOK'
  <2>1. Len(txs) < MaxTxs /\ feedback' \in Feedbacks
    BY <1>2 DEF Feedbacks
  <2>2. {bridgeTxHash', evmSendTxHash', evmTxReceipt'} \subseteq DOMAIN txs' \cup {None}
    BY <1>2, <1>5 DEF IInv, TypeOK
  <2> QED
    <3>1. Len(txs') <= MaxTxs
      BY ONLY <1>4, <1>5, <2>1
    <3> QED
      BY <1>2, <1>5, <2>1, <2>2, <3>1 DEF IInv, TypeOK, wallet, fields
<1>7. Shown(txs'[Len(txs')].param) /\ txs'[Len(txs')].fee = txs'[Len(txs')].param
  BY <1>1, <1>3, <1>5
<1>8. TxIsForShown'
  BY <1>2, <1>5, <1>7 DEF TxIsForShown, Shown, fields
<1> QED
  BY <1>2, <1>5, <1>6, <1>7, <1>8
  DEF IInv, QuoteIsExact, CallIsForShown, ConfirmedSucceeded, fields, Filled

\* Sepolia settles a pending transaction: the transactions stay as many, with
\* their parameters, and one that succeeded has succeeded.
LEMMA Settled ==
  ASSUME txs \in Seq(Tx), NEW t \in DOMAIN txs, txs[t].status = "pending",
         NEW outcome \in {"success", "reverted"},
         txs' = [txs EXCEPT ![t].status = outcome]
  PROVE  /\ txs' \in Seq(Tx) /\ Len(txs') = Len(txs) /\ DOMAIN txs' = DOMAIN txs
         /\ \A u \in DOMAIN txs :
              /\ txs'[u].param = txs[u].param
              /\ txs[u].status = "success" => txs'[u].status = "success"
<1>1. txs[t] \in Tx
  OBVIOUS
<1>2. [txs[t] EXCEPT !.status = outcome] \in Tx
  BY <1>1 DEF Tx
<1>3. /\ txs' \in Seq(Tx) /\ Len(txs') = Len(txs) /\ DOMAIN txs' = DOMAIN txs
  BY <1>2
<1>4. ASSUME NEW u \in DOMAIN txs
      PROVE  /\ txs'[u].param = txs[u].param
             /\ txs[u].status = "success" => txs'[u].status = "success"
  <2>1. CASE u = t
    <3>1. txs'[u] = [txs[t] EXCEPT !.status = outcome]
      BY <2>1
    <3> QED
      BY <1>1, <2>1, <3>1 DEF Tx
  <2>2. CASE u # t
    BY <2>2
  <2> QED
    BY <2>1, <2>2
<1> QED
  BY <1>3, <1>4

LEMMA SettleStep ==
  ASSUME IInv, NEW t \in DOMAIN txs, Mine(t) \/ Revert(t)
  PROVE  IInv'
<1>1. PICK outcome \in {"success", "reverted"} :
        /\ txs[t].status = "pending"
        /\ txs' = [txs EXCEPT ![t].status = outcome]
        /\ UNCHANGED <<wallet, fields, quotedFee, call, feedback, shownTx, balance, ethBalance>>
  BY DEF Mine, Revert
<1>2. txs \in Seq(Tx)
  BY DEF IInv, TypeOK
<1>3. /\ txs' \in Seq(Tx) /\ Len(txs') = Len(txs) /\ DOMAIN txs' = DOMAIN txs
      /\ \A u \in DOMAIN txs :
           /\ txs'[u].param = txs[u].param
           /\ txs[u].status = "success" => txs'[u].status = "success"
  BY <1>1, <1>2, Settled
<1>4. holdings' \in [Accounts -> 0..Funds]
  <2>1. CASE Mine(t)
    <3>1. /\ holdings[txs[t].from] >= txs[t].param.amountLD
          /\ holdings' = [holdings EXCEPT ![txs[t].from] = @ - txs[t].param.amountLD]
      BY <2>1 DEF Mine
    <3>2. txs[t] \in Tx /\ holdings \in [Accounts -> 0..Funds]
      BY <1>2 DEF IInv, TypeOK
    <3>3. txs[t].from \in Accounts /\ txs[t].param.amountLD \in Nat
      BY <3>2 DEF Tx, SendParams, NumericAmounts
    <3>4. holdings[txs[t].from] \in 0..Funds
      BY <3>2, <3>3
    <3>5. holdings[txs[t].from] - txs[t].param.amountLD \in 0..Funds
      BY <3>1, <3>3, <3>4, BridgeFormAssumption
    <3> QED
      BY <3>1, <3>2, <3>5
  <2>2. CASE Revert(t)
    BY <2>2 DEF Revert, IInv, TypeOK
  <2> QED
    BY <2>1, <2>2
<1> HIDE DEF Tx
<1>5. TypeOK'
  BY <1>1, <1>3, <1>4 DEF IInv, TypeOK, wallet, fields, shownTx
<1>6. bridgeTxHash # None => bridgeTxHash \in DOMAIN txs
  BY DEF IInv, TypeOK
<1>7. TxIsForShown' /\ ConfirmedSucceeded'
  BY <1>1, <1>3, <1>6
  DEF IInv, TxIsForShown, ConfirmedSucceeded, shownTx, fields, Shown, Filled
<1> QED
  BY <1>1, <1>5, <1>7 DEF IInv, QuoteIsExact, CallIsForShown, fields, Shown, Filled

LEMMA ReceiptStep ==
  ASSUME IInv, Receipt
  PROVE  IInv'
<1>1. /\ evmSendTxHash # None /\ txs[evmSendTxHash].status = "success"
      /\ evmTxReceipt' = evmSendTxHash
      /\ feedback' = IF bridgeTxHash = evmSendTxHash THEN "confirmed" ELSE feedback
      /\ UNCHANGED <<wallet, fields, quotedFee, call, bridgeTxHash, evmSendTxHash, tokens>>
  BY DEF Receipt, HasReceipt, ShowsHash
<1>2. TypeOK'
  BY <1>1 DEF IInv, TypeOK, wallet, fields, tokens, Feedbacks
<1>3. ConfirmedSucceeded'
  BY <1>1 DEF IInv, ConfirmedSucceeded, tokens
<1> QED
  BY <1>1, <1>2, <1>3
  DEF IInv, QuoteIsExact, CallIsForShown, TxIsForShown, fields, tokens, Filled, Shown

LEMMA BalanceStep ==
  ASSUME IInv, BalanceAnswer
  PROVE  IInv'
<1>1. /\ UNCHANGED <<wallet, fields, quotedFee, call, feedback, shownTx, txs, holdings>>
      /\ balance' = holdings[evmAddress]
      /\ ethBalance' \in {balance', ethBalance}
      /\ evmAddress \in Accounts
  BY DEF BalanceAnswer, IInv, TypeOK
<1>2. balance' \in 0..Funds
  BY <1>1 DEF IInv, TypeOK
<1>3. TypeOK'
  BY <1>1, <1>2 DEF IInv, TypeOK, wallet, fields, shownTx
<1> QED
  BY <1>1, <1>3
  DEF IInv, QuoteIsExact, CallIsForShown, TxIsForShown, ConfirmedSucceeded, fields,
      shownTx, Filled, Shown

THEOREM Inductive == Spec => []IInv
<1>1. IInv /\ [Next]_vars => IInv'
  <2> SUFFICES ASSUME IInv, [Next]_vars PROVE IInv'
    OBVIOUS
  <2>1. CASE UNCHANGED vars
    <3>1. TypeOK'
      BY <2>1 DEF IInv, TypeOK, vars, wallet, fields, shownTx, tokens
    <3> QED
      BY <2>1, <3>1
      DEF IInv, QuoteIsExact, CallIsForShown, TxIsForShown, ConfirmedSucceeded, vars,
          fields, shownTx, tokens, Filled, Shown
  <2>2. CASE Next
    BY <2>2, SetWalletStep, EditFieldsStep, HandleBridgeStep, ApprovedStep, FailureStep,
       SentStep, SettleStep, ReceiptStep, BalanceStep DEF Next
  <2> QED
    BY <2>1, <2>2
<1> QED
  BY <1>1, InitStep, PTL DEF Spec

-----------------------------------------------------------------------------
(***************************************************************************)
(* The state of the form stays in its domains: every hash that it holds is *)
(* one of a transaction, and nobody spends more than he has.               *)
(***************************************************************************)
THEOREM TypeCorrect == Spec => []TypeOK
<1>1. IInv => TypeOK
  BY DEF IInv
<1> QED
  BY <1>1, Inductive, PTL

(***************************************************************************)
(* The fee of a filled form was quoted for the texts that it shows, since  *)
(* every edit that leaves both fields filled quotes again (the effect on   *)
(* [amount, recipientAddress] in BridgeForm.tsx).                          *)
(***************************************************************************)
THEOREM QuoteHolds == Spec => []QuoteIsForShown
<1>1. IInv => QuoteIsForShown
  BY DEF IInv, QuoteIsExact, QuoteIsForShown, Shown, SendParam, ToBytes32
<1> QED
  BY <1>1, Inductive, PTL

(***************************************************************************)
(* What is reported as confirmed was mined without a revert, and is what a *)
(* filled form shows (the effect on [evmTxReceipt, bridgeTxHash]).         *)
(***************************************************************************)
THEOREM ConfirmedHolds == Spec => []ConfirmedIsMined
<1>1. IInv => ConfirmedIsMined
  BY DEF IInv, TxIsForShown, ConfirmedSucceeded, ConfirmedIsMined
<1> QED
  BY <1>1, Inductive, PTL

(***************************************************************************)
(* A transaction that is sent has the texts shown at that moment, and the  *)
(* fee that was quoted for them, although both were captured before the    *)
(* two prompts (handleBridge).                                             *)
(***************************************************************************)
THEOREM SentHolds == Spec => SentAsShown
<1> DEFINE A == Len(txs') > Len(txs) =>
                  LET tx == txs'[Len(txs')] IN Shown(tx.param) /\ tx.fee = tx.param
<1>1. IInv /\ [Next]_vars => [A]_vars
  <2> SUFFICES ASSUME IInv, Next PROVE A
    OBVIOUS
  <2>1. txs \in Seq(Tx) /\ Len(txs) \in Nat
    BY DEF IInv, TypeOK
  <2>2. CASE Sent
    <3> HIDE DEF A
    <3>1. LET tx == txs'[Len(txs')] IN Shown(tx.param) /\ tx.fee = tx.param
      BY <2>2, SentStep
    <3> QED
      BY <3>1 DEF A
  <2>3. ASSUME NEW t \in DOMAIN txs, Mine(t) \/ Revert(t)
        PROVE  A
    <3>1. Len(txs') = Len(txs)
      BY <2>1, <2>3, Settled DEF Mine, Revert
    <3> QED
      BY <2>1, <3>1
  <2>4. CASE UNCHANGED txs
    BY <2>1, <2>4
  <2> HIDE DEF A
  <2> QED
    BY <2>2, <2>3, <2>4
    DEF Next, SetWallet, EditFields, HandleBridge, Approved, ApprovalFailed, SendFailed,
        Receipt, BalanceAnswer, tokens
<1> QED
  BY <1>1, Inductive, PTL DEF Spec, SentAsShown

=============================================================================
