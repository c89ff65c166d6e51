----------------------------- MODULE TasksProofs -----------------------------
(***************************************************************************)
(* Proofs about the tasks that operate a deployed OFT, for any number of   *)
(* runs, amounts, fees, keys, endpoints, slots and pathways.  Each part    *)
(* has an inductive invariant of its own; a step of one leaves the         *)
(* invariants of the others as they are.                                   *)
(***************************************************************************)
EXTENDS Tasks, OFTMathProofs, SequenceTheorems

-----------------------------------------------------------------------------
(***************************************************************************)
(* Sending.  What the quote showed of an amount is kept until its block:   *)
(* at the transfer fee of the quote it is worth something.                 *)
(***************************************************************************)
\* The instance brings the arithmetic of the OFT under names of its own.
LEMMA SendArithmetic ==
  /\ Send!Amount = Amount /\ Send!TransferFee = TransferFee
  /\ \A ty, rt, fee, bps, a :
       Send!ComputeFeeAndAdjustAmount(ty, rt, fee, bps, a)
         = ComputeFeeAndAdjustAmount(ty, rt, fee, bps, a)
  /\ \A rt, bps, a : Send!NativeReceipt(rt, bps, a) = NativeReceipt(rt, bps, a)
<1>1. Send!Amount = Amount
  BY DEF Send!Amount, Amount
<1>2. Send!TransferFee = TransferFee
  BY <1>1 DEF Send!TransferFee, TransferFee
<1>3. \A rt, a : Send!RemoveDust(rt, a) = RemoveDust(rt, a)
  BY DEF Send!RemoveDust, RemoveDust
<1>4. \A bps, a : Send!CalculateFee(bps, a) = CalculateFee(bps, a)
  BY DEF Send!CalculateFee, CalculateFee
<1>5. \A n, d : Send!CeilDiv(n, d) = CeilDiv(n, d) /\ Send!Least(n, d) = Least(n, d)
  BY DEF Send!CeilDiv, CeilDiv, Send!Least, Least
<1>6. \A fee, a : Send!PostFeeAmount(fee, a) = PostFeeAmount(fee, a)
  BY <1>5 DEF Send!PostFeeAmount, PostFeeAmount, Send!WithheldFee, WithheldFee
<1>7. \A fee, a : Send!PreFeeAmount(fee, a) = PreFeeAmount(fee, a)
  BY <1>5 DEF Send!PreFeeAmount, PreFeeAmount
<1>8. \A rt, bps, a : Send!NativeReceipt(rt, bps, a) = NativeReceipt(rt, bps, a)
  BY <1>3, <1>4 DEF Send!NativeReceipt, NativeReceipt
<1>9. \A rt, fee, bps, a : Send!AdapterReceipt(rt, fee, bps, a) = AdapterReceipt(rt, fee, bps, a)
  BY <1>3, <1>4, <1>6, <1>7 DEF Send!AdapterReceipt, AdapterReceipt
<1> QED
  BY <1>1, <1>2, <1>8, <1>9 DEF Send!ComputeFeeAndAdjustAmount, ComputeFeeAndAdjustAmount

LEMMA SendConstants ==
  /\ Amounts \subseteq Amount /\ InitBalances \subseteq Amount /\ Amount \subseteq Nat
  /\ Rates \subseteq Nat \ {0} /\ evmRate \in Nat \ {0}
  /\ 0 \in 0 .. (OneInBasisPoints - 1) /\ FeeBps \subseteq 0 .. (OneInBasisPoints - 1)
  /\ TransferFees \subseteq TransferFee \cup {None} /\ Allowances \subseteq Amount \cup {None}
  /\ None \notin Send!Steps
<1>1. Send!SendTasksAssumption
  BY TasksAssumption
<1> QED
  BY <1>1, SendArithmetic, OFTMathAssumption, U64Assumption DEF Send!SendTasksAssumption, Amount

RunRecords == [chain : Send!Chains, amount : Amounts, next : Send!Steps,
               nativeFee : MessageFees \cup {None}, transferFee : TransferFees \cup {None}]

TxRecords == [status : {"none", "pending", "landed", "refused", "expired"}, received : Nat,
              transferFee : TransferFees \cup {None}]

OFTRecords == [type : {"Native", "Adapter"}, rate : Rates, feeBps : FeeBps,
               transferFee : TransferFees, paused : BOOLEAN, allowance : Amount \cup {None}]

\* What a transfer of an amount is worth before the fee of the OFT.
Worth(ty, rt, fee, a) == RemoveDust(rt, IF ty = "Adapter" THEN PostFeeAmount(fee, a) ELSE a)

\* A run and its transaction.
SendOf(ty, rt, t, x) ==
  /\ t = Send!NotRun => x.status = "none"
  /\ t # Send!NotRun =>
       /\ t.next \in {"check", "quote", "submit"} => x.status = "none"
       /\ t.next \in {"submit", "confirm", "reported"} => t.nativeFee \in MessageFees
       /\ t.chain = "solana" /\ (t.next \in {"submit", "confirm", "reported"} \/ x.status # "none")
            => Worth(ty, rt, t.transferFee, t.amount) >= 1
       /\ x.status = "landed" /\ t.chain = "solana" /\ x.received = 0
            => t.amount = 1 /\ ty = "Adapter" /\ rt = 1 /\ x.transferFee # t.transferFee
       /\ t.next = "reported"
            => x.status = "landed" \/ (x.status = "refused" /\ t.chain = "solana")

SendInv ==
  /\ balance \in [Send!Chains -> Amount]
  /\ oft \in OFTRecords /\ messageFee \in MessageFees
  /\ run \in [Runs -> RunRecords \cup {Send!NotRun}]
  /\ tx \in [Runs -> TxRecords]
  /\ \A r \in Runs : SendOf(oft.type, oft.rate, run[r], tx[r])

LEMMA SameOFTs == Send!OFTs = OFTRecords
BY SendArithmetic DEF Send!OFTs, OFTRecords

LEMMA WorthTyped ==
  ASSUME NEW ty, NEW rt \in Nat \ {0}, NEW fee \in TransferFee \cup {None}, NEW a \in Nat
  PROVE  /\ Worth(ty, rt, fee, a) \in Nat /\ Worth(ty, rt, fee, a) <= a
         /\ Worth(ty, rt, fee, a) = 1 => rt = 1
<1> DEFINE p == IF ty = "Adapter" THEN PostFeeAmount(fee, a) ELSE a
<1>1. p \in Nat /\ p <= a
  BY PostFeeType
<1> HIDE DEF p
<1>2. RemoveDust(rt, p) \in Nat /\ RemoveDust(rt, p) <= p
      /\ Ld2Sd(rt, p) \in Nat /\ RemoveDust(rt, p) = rt * Ld2Sd(rt, p)
  BY <1>1, DustRemoved
<1>3. Worth(ty, rt, fee, a) = RemoveDust(rt, p)
  BY DEF Worth, p
<1>4. RemoveDust(rt, p) = 1 => rt = 1
  <2> SUFFICES ASSUME RemoveDust(rt, p) = 1 PROVE rt = 1
    OBVIOUS
  <2> DEFINE k == Ld2Sd(rt, p)
  <2>1. k \in Nat /\ rt * k = 1
    BY <1>2
  <2> HIDE DEF k
  <2>2. k # 0
    BY <2>1
  <2>3. rt <= rt * k
    BY <2>1, <2>2
  <2> QED BY <2>1, <2>3
<1> QED BY <1>1, <1>2, <1>3, <1>4

\* The fee of the OFT never takes the smallest unit.
LEMMA NoFeeOnOne ==
  ASSUME NEW rt \in Nat \ {0}, NEW bps \in 0 .. (OneInBasisPoints - 1)
  PROVE  RemoveDust(rt, CalculateFee(bps, 1)) = 0
<1>1. bps \in Int /\ OneInBasisPoints * 0 <= bps /\ bps < OneInBasisPoints * 0 + OneInBasisPoints
  BY OFTMathAssumption
<1>2. bps \div OneInBasisPoints = 0
  BY <1>1, DivUnique, OFTMathAssumption
<1>3. CalculateFee(bps, 1) = 0
  BY <1>1, <1>2 DEF CalculateFee
<1> QED
  BY <1>3 DEF RemoveDust

\* What the receiver is due of a transfer's worth.
LEMMA ReceivedOfWorth ==
  ASSUME NEW ty \in {"Native", "Adapter"}, NEW rt \in Nat \ {0},
         NEW fee \in TransferFee \cup {None},
         NEW bps \in 0 .. (OneInBasisPoints - 1), NEW a \in Nat
  PROVE  LET w == Worth(ty, rt, fee, a)
             receipt == ComputeFeeAndAdjustAmount(ty, rt, fee, bps, a)
         IN  /\ receipt.sent \in Nat /\ receipt.received \in Nat
             /\ receipt.received <= w
<1> DEFINE p == IF ty = "Adapter" THEN PostFeeAmount(fee, a) ELSE a
           w == RemoveDust(rt, p)
           f == RemoveDust(rt, CalculateFee(bps, w))
           receipt == ComputeFeeAndAdjustAmount(ty, rt, fee, bps, a)
<1>1. receipt.sent \in Nat /\ receipt.received \in Nat
  BY ReceiptSound
<1>2. p \in Nat
  BY PostFeeType
<1>3. receipt.received = w - f
  BY DEF ComputeFeeAndAdjustAmount, AdapterReceipt, NativeReceipt
<1>4. Worth(ty, rt, fee, a) = w
  BY DEF Worth
<1> HIDE DEF p
<1>5. f \in Nat /\ f <= w /\ w \in Nat
  BY <1>2, FeeInUnits, DustRemoved
<1> HIDE DEF w, f, receipt
<1>6. receipt.received <= w
  BY <1>3, <1>5
<1> QED
  BY <1>1, <1>4, <1>6 DEF receipt

LEMMA OneArrives ==
  ASSUME NEW ty \in {"Native", "Adapter"}, NEW rt \in Nat \ {0}, NEW fee,
         NEW bps \in 0 .. (OneInBasisPoints - 1), NEW a, Worth(ty, rt, fee, a) = 1
  PROVE  ComputeFeeAndAdjustAmount(ty, rt, fee, bps, a).received = 1
<1> DEFINE w == RemoveDust(rt, IF ty = "Adapter" THEN PostFeeAmount(fee, a) ELSE a)
<1>1. w = 1
  BY DEF Worth
<1>2. ComputeFeeAndAdjustAmount(ty, rt, fee, bps, a).received
        = w - RemoveDust(rt, CalculateFee(bps, w))
  BY DEF ComputeFeeAndAdjustAmount, AdapterReceipt, NativeReceipt
<1> HIDE DEF w
<1>3. RemoveDust(rt, CalculateFee(bps, w)) = 0
  BY <1>1, NoFeeOnOne
<1> QED
  BY <1>1, <1>2, <1>3

\* Nine tenths of two or more are something; of one the receiver is due nothing
\* only if an Adapter without dust withholds another transfer fee than it quoted.
LEMMA SomethingArrives ==
  ASSUME NEW ty \in {"Native", "Adapter"}, NEW rt \in Nat \ {0},
         NEW fee \in TransferFee \cup {None}, NEW quoted \in TransferFee \cup {None},
         NEW bps \in 0 .. (OneInBasisPoints - 1), NEW a \in Nat,
         Worth(ty, rt, quoted, a) >= 1,
         ComputeFeeAndAdjustAmount(ty, rt, fee, bps, a).received >= Send!MinAmount(a),
         ComputeFeeAndAdjustAmount(ty, rt, fee, bps, a).received = 0
  PROVE  a = 1 /\ ty = "Adapter" /\ rt = 1 /\ fee # quoted
<1> DEFINE w == Worth(ty, rt, fee, a)
           q == Worth(ty, rt, quoted, a)
<1>1. a < 2
  <2>1. a >= 2 => (a * 9) \div 10 >= 1
    OBVIOUS
  <2>2. (a * 9) \div 10 <= 0
    BY DEF Send!MinAmount
  <2>3. (a * 9) \div 10 \in Int
    OBVIOUS
  <2> QED BY <2>1, <2>2, <2>3
<1>2. q \in Nat /\ q <= a /\ q >= 1
  BY WorthTyped
<1>3. a = 1 /\ q = 1
  BY <1>1, <1>2
<1>4. rt = 1
  BY <1>3, WorthTyped
<1>5. w # 1
  BY OneArrives
<1>6. ty # "Adapter" => w = q
  BY DEF Worth
<1>7. fee = quoted => w = q
  OBVIOUS
<1> QED
  BY <1>3, <1>4, <1>5, <1>6, <1>7

LEMMA SendStarts ==
  ASSUME Send!Init
  PROVE  SendInv
<1>1. balance \in [Send!Chains -> Amount] /\ oft \in OFTRecords /\ messageFee \in MessageFees
  <2>1. balance \in [Send!Chains -> InitBalances] /\ oft \in Send!OFTs /\ messageFee \in MessageFees
    BY DEF Send!Init
  <2> QED BY <2>1, SendConstants, SameOFTs
<1>2. Send!NoTx \in TxRecords
  BY DEF Send!NoTx, TxRecords
<1>3. run \in [Runs -> RunRecords \cup {Send!NotRun}] /\ tx \in [Runs -> TxRecords]
  BY <1>2 DEF Send!Init
<1>4. ASSUME NEW r \in Runs PROVE SendOf(oft.type, oft.rate, run[r], tx[r])
  BY DEF Send!Init, SendOf, Send!NoTx
<1> QED
  BY <1>1, <1>3, <1>4 DEF SendInv

\* An action changes one run and its transaction.
LEMMA SendStep ==
  ASSUME SendInv, NEW r \in Runs, NEW t \in RunRecords, NEW x \in TxRecords,
         run' = [run EXCEPT ![r] = t], tx' = [tx EXCEPT ![r] = x],
         balance' \in [Send!Chains -> Amount], messageFee' = messageFee,
         oft' \in OFTRecords, oft'.type = oft.type, oft'.rate = oft.rate,
         SendOf(oft.type, oft.rate, t, x)
  PROVE  SendInv'
<1>1. run' \in [Runs -> RunRecords \cup {Send!NotRun}] /\ tx' \in [Runs -> TxRecords]
  BY DEF SendInv
<1>2. ASSUME NEW q \in Runs PROVE SendOf(oft.type, oft.rate, run'[q], tx'[q])
  <2>1. CASE q = r
    <3>1. run'[q] = t /\ tx'[q] = x
      BY <2>1 DEF SendInv
    <3> QED BY <3>1
  <2>2. CASE q # r
    <3>1. run'[q] = run[q] /\ tx'[q] = tx[q]
      BY <2>2 DEF SendInv
    <3> QED BY <3>1 DEF SendInv
  <2> QED BY <2>1, <2>2
<1>3. messageFee' \in MessageFees
  BY DEF SendInv
<1> QED
  BY <1>1, <1>2, <1>3 DEF SendInv

LEMMA RunTyped ==
  ASSUME SendInv, NEW r \in Runs
  PROVE  /\ tx[r] \in TxRecords
         /\ run[r].next \in Send!Steps => run[r] \in RunRecords /\ run[r] # Send!NotRun
         /\ tx[r].status # "none" => run[r] \in RunRecords /\ run[r] # Send!NotRun
         /\ tx' = tx => tx' = [tx EXCEPT ![r] = tx[r]]
         /\ run' = run => run' = [run EXCEPT ![r] = run[r]]
<1>1. /\ tx[r] \in TxRecords /\ run[r] \in RunRecords \cup {Send!NotRun}
      /\ SendOf(oft.type, oft.rate, run[r], tx[r])
  BY DEF SendInv
<1>2. None \notin Send!Steps
  BY SendConstants
<1>3. Send!NotRun.next = None
  BY DEF Send!NotRun
<1>4. tx[r].status # "none" => run[r] # Send!NotRun
  BY <1>1 DEF SendOf
<1>5. tx' = tx => tx' = [tx EXCEPT ![r] = tx[r]]
  BY DEF SendInv
<1>6. run' = run => run' = [run EXCEPT ![r] = run[r]]
  BY DEF SendInv
<1> QED
  BY <1>1, <1>2, <1>3, <1>4, <1>5, <1>6

\* What the OFT makes of a run's amount.
LEMMA ReceiptTyped ==
  ASSUME SendInv, NEW r \in Runs, run[r] \in RunRecords
  PROVE  LET receipt == Send!Receipt(run[r].chain, run[r].amount) IN
         /\ receipt.sent \in Nat /\ receipt.received \in Nat
         /\ run[r].chain = "solana" =>
              receipt = ComputeFeeAndAdjustAmount(oft.type, oft.rate, oft.transferFee,
                                                  oft.feeBps, run[r].amount)
<1> DEFINE a == run[r].amount
<1>1. a \in Nat /\ oft.rate \in Nat \ {0} /\ oft.transferFee \in TransferFee \cup {None}
      /\ oft.feeBps \in 0 .. (OneInBasisPoints - 1) /\ oft.type \in {"Native", "Adapter"}
  <2>1. a \in Amounts /\ oft \in OFTRecords
    BY DEF SendInv, RunRecords
  <2> QED BY <2>1, SendConstants DEF OFTRecords
<1> HIDE DEF a
<1>2. CASE run[r].chain = "solana"
  <2>1. Send!Receipt(run[r].chain, a)
          = ComputeFeeAndAdjustAmount(oft.type, oft.rate, oft.transferFee, oft.feeBps, a)
    BY <1>2, SendArithmetic DEF Send!Receipt
  <2> QED BY <1>1, <2>1, ReceivedOfWorth DEF a
<1>3. CASE run[r].chain # "solana"
  <2>1. Send!Receipt(run[r].chain, a) = NativeReceipt(evmRate, 0, a)
    BY <1>3, SendArithmetic DEF Send!Receipt
  <2>2. NativeReceipt(evmRate, 0, a) = ComputeFeeAndAdjustAmount("Native", evmRate, None, 0, a)
    BY DEF ComputeFeeAndAdjustAmount
  <2>3. /\ ComputeFeeAndAdjustAmount("Native", evmRate, None, 0, a).sent \in Nat
        /\ ComputeFeeAndAdjustAmount("Native", evmRate, None, 0, a).received \in Nat
    BY <1>1, SendConstants, ReceivedOfWorth
  <2> QED BY <1>3, <2>1, <2>2, <2>3 DEF a
<1> QED
  BY <1>2, <1>3

LEMMA SendStartKeeps ==
  ASSUME SendInv, NEW r \in Runs, NEW chain_ \in Send!Chains, NEW amount \in Amounts,
         Send!Start(r, chain_, amount)
  PROVE  SendInv'
<1> DEFINE t == [Send!NotRun EXCEPT !.chain = chain_, !.amount = amount,
                                    !.next = Send!FirstStep(chain_)]
<1>1. t \in RunRecords /\ t.next \in {"check", "quote"}
  BY DEF RunRecords, Send!FirstStep, Send!Steps, Send!NotRun
<1>2. t # Send!NotRun
  <2>1. Send!NotRun.next = None BY DEF Send!NotRun
  <2> QED BY <1>1, <2>1, SendConstants DEF Send!Steps
<1>3. tx[r] \in TxRecords /\ tx[r].status = "none"
  BY DEF SendInv, SendOf, Send!Start
<1>4. SendOf(oft.type, oft.rate, t, tx[r])
  <2> HIDE DEF t
  <2> QED BY <1>1, <1>2, <1>3 DEF SendOf
<1>5. run' = [run EXCEPT ![r] = t] /\ tx' = [tx EXCEPT ![r] = tx[r]]
  BY RunTyped DEF Send!Start
<1>6. balance' \in [Send!Chains -> Amount] /\ oft' = oft /\ messageFee' = messageFee
      /\ oft \in OFTRecords
  BY DEF Send!Start, Send!world, SendInv
<1> HIDE DEF t
<1> QED
  BY <1>1, <1>3, <1>4, <1>5, <1>6, SendStep

\* A run goes on, and its transaction stays as it is.
LEMMA SendGoes ==
  ASSUME SendInv, NEW r \in Runs, run[r].next \in Send!Steps,
         NEW step \in Send!Steps, Send!Goes(r, step),
         UNCHANGED <<balance, oft, messageFee, tx>>,
         SendOf(oft.type, oft.rate, [run[r] EXCEPT !.next = step], tx[r])
  PROVE  SendInv'
<1> DEFINE t == [run[r] EXCEPT !.next = step]
<1>1. run[r] \in RunRecords /\ tx[r] \in TxRecords /\ tx' = [tx EXCEPT ![r] = tx[r]]
  BY RunTyped
<1>2. t \in RunRecords
  BY <1>1 DEF RunRecords
<1>3. run' = [run EXCEPT ![r] = t]
  BY DEF Send!Goes
<1>4. balance' \in [Send!Chains -> Amount] /\ oft' = oft /\ messageFee' = messageFee
      /\ oft \in OFTRecords
  BY DEF SendInv
<1> HIDE DEF t
<1>5. SendOf(oft.type, oft.rate, t, tx[r])
  BY DEF t
<1> QED
  BY <1>1, <1>2, <1>3, <1>4, <1>5, SendStep

\* What is said of a run and its transaction when the run has gone on.
LEMMA SendOfNext ==
  ASSUME NEW ty, NEW rt, NEW t \in RunRecords, t # Send!NotRun, NEW x \in TxRecords,
         SendOf(ty, rt, t, x), NEW step \in Send!Steps
  PROVE  LET u == [t EXCEPT !.next = step] IN
         /\ step = "threw" => SendOf(ty, rt, u, x)
         /\ step = "quote" /\ t.next = "check" => SendOf(ty, rt, u, x)
         /\ step = "reported" /\ t.next = "confirm"
              /\ (x.status = "landed" \/ (x.status = "refused" /\ t.chain = "solana"))
              => SendOf(ty, rt, u, x)
<1> DEFINE u == [t EXCEPT !.next = step]
<1>1. /\ u \in RunRecords /\ u.next = step /\ u.chain = t.chain /\ u.amount = t.amount
      /\ u.nativeFee = t.nativeFee /\ u.transferFee = t.transferFee
  BY DEF RunRecords
<1>2. u # Send!NotRun
  <2>1. Send!NotRun.next = None BY DEF Send!NotRun
  <2> QED BY <1>1, <2>1, SendConstants
<1> HIDE DEF u
<1>3. step = "threw" => SendOf(ty, rt, u, x)
  BY <1>1, <1>2 DEF SendOf
<1>4. step = "quote" /\ t.next = "check" => SendOf(ty, rt, u, x)
  BY <1>1, <1>2 DEF SendOf
<1>5. step = "reported" /\ t.next = "confirm"
        /\ (x.status = "landed" \/ (x.status = "refused" /\ t.chain = "solana"))
        => SendOf(ty, rt, u, x)
  BY <1>1, <1>2 DEF SendOf
<1> QED
  BY <1>3, <1>4, <1>5 DEF u

LEMMA SendRunKeeps ==
  ASSUME SendInv, NEW r \in Runs,
         Send!CheckBalance(r) \/ Send!RequestFails(r) \/ Send!Confirm(r)
  PROVE  SendInv'
<1>1. run[r].next \in Send!Steps /\ UNCHANGED <<balance, oft, messageFee, tx>>
  BY DEF Send!CheckBalance, Send!RequestFails, Send!Confirm, Send!Steps, Send!world
<1>2. run[r] \in RunRecords /\ run[r] # Send!NotRun /\ tx[r] \in TxRecords
      /\ SendOf(oft.type, oft.rate, run[r], tx[r])
  BY <1>1, RunTyped DEF SendInv
<1>3. CASE Send!CheckBalance(r)
  <2>1. PICK step \in {"threw", "quote"} : Send!Goes(r, step) /\ run[r].next = "check"
    BY <1>3 DEF Send!CheckBalance
  <2>2. step \in Send!Steps
    BY <2>1 DEF Send!Steps
  <2>3. SendOf(oft.type, oft.rate, [run[r] EXCEPT !.next = step], tx[r])
    BY <1>2, <2>1, <2>2, SendOfNext
  <2> QED BY <1>1, <2>1, <2>2, <2>3, SendGoes
<1>4. CASE Send!RequestFails(r)
  <2>1. Send!Goes(r, "threw") /\ "threw" \in Send!Steps
    BY <1>4 DEF Send!RequestFails, Send!Steps
  <2>2. SendOf(oft.type, oft.rate, [run[r] EXCEPT !.next = "threw"], tx[r])
    BY <1>2, <2>1, SendOfNext
  <2> QED BY <1>1, <2>1, <2>2, SendGoes
<1>5. CASE Send!Confirm(r)
  <2>1. PICK step \in {"threw", "reported"} :
          Send!Goes(r, step) /\ run[r].next = "confirm" /\ Send!Confirms(r)
            /\ (step = "reported" => ~Send!Throws(r))
    BY <1>5 DEF Send!Confirm
  <2>2. step \in Send!Steps
    BY <2>1 DEF Send!Steps
  <2>3. step = "reported" =>
          tx[r].status = "landed" \/ (tx[r].status = "refused" /\ run[r].chain = "solana")
    <3>1. run[r].chain \in {"solana", "evm"}
      BY <1>2 DEF RunRecords, Send!Chains
    <3> QED BY <2>1, <3>1 DEF Send!Throws, Send!Confirms
  <2>4. SendOf(oft.type, oft.rate, [run[r] EXCEPT !.next = step], tx[r])
    BY <1>2, <2>1, <2>2, <2>3, SendOfNext
  <2> QED BY <1>1, <2>1, <2>2, <2>4, SendGoes
<1> QED
  BY <1>3, <1>4, <1>5

LEMMA SendQuoteKeeps ==
  ASSUME SendInv, NEW r \in Runs, Send!QuoteSend(r)
  PROVE  SendInv'
<1>1. run[r].next = "quote" /\ UNCHANGED <<balance, oft, messageFee, tx>>
  BY DEF Send!QuoteSend, Send!world
<1>2. run[r] \in RunRecords /\ run[r] # Send!NotRun /\ tx[r] \in TxRecords
      /\ SendOf(oft.type, oft.rate, run[r], tx[r])
  BY <1>1, RunTyped DEF SendInv, Send!Steps
<1>3. CASE Send!Goes(r, "threw")
  <2>1. run[r].next \in Send!Steps /\ "threw" \in Send!Steps
    BY <1>1 DEF Send!Steps
  <2>2. SendOf(oft.type, oft.rate, [run[r] EXCEPT !.next = "threw"], tx[r])
    BY <1>2, <2>1, SendOfNext
  <2> QED BY <1>1, <1>3, <2>1, <2>2, SendGoes
<1>4. CASE ~Send!Goes(r, "threw")
  <2> DEFINE t == [run[r] EXCEPT !.next = "submit", !.nativeFee = messageFee,
                                 !.transferFee = oft.transferFee]
             receipt == Send!Receipt(run[r].chain, run[r].amount)
  <2>1. /\ receipt.received >= Send!QuotedMinimum(run[r].chain, run[r].amount)
        /\ run' = [run EXCEPT ![r] = t]
    BY <1>4 DEF Send!QuoteSend, Send!Quotes
  <2>2. oft \in OFTRecords /\ messageFee \in MessageFees
    BY DEF SendInv
  <2>3. t \in RunRecords /\ t.next = "submit" /\ t.nativeFee \in MessageFees
        /\ t.chain = run[r].chain /\ t.amount = run[r].amount /\ t.transferFee = oft.transferFee
    BY <1>2, <2>2 DEF RunRecords, Send!Steps, OFTRecords
  <2>4. t.chain = "solana" => Worth(oft.type, oft.rate, t.transferFee, t.amount) >= 1
    <3> SUFFICES ASSUME run[r].chain = "solana"
                 PROVE  Worth(oft.type, oft.rate, oft.transferFee, run[r].amount) >= 1
      BY <2>3
    <3> DEFINE w == Worth(oft.type, oft.rate, oft.transferFee, run[r].amount)
    <3>1. /\ run[r].amount \in Nat /\ oft.rate \in Nat \ {0}
          /\ oft.transferFee \in TransferFee \cup {None}
          /\ oft.feeBps \in 0 .. (OneInBasisPoints - 1) /\ oft.type \in {"Native", "Adapter"}
      BY <1>2, <2>2, SendConstants DEF RunRecords, OFTRecords
    <3>2. receipt = ComputeFeeAndAdjustAmount(oft.type, oft.rate, oft.transferFee,
                                              oft.feeBps, run[r].amount)
      BY <1>2, ReceiptTyped
    <3> DEFINE other == ComputeFeeAndAdjustAmount(oft.type, oft.rate, oft.transferFee,
                                                  oft.feeBps, run[r].amount)
    <3>3. receipt.received \in Nat /\ receipt.received <= w
      <4>1. other.received \in Nat /\ other.received <= w
        BY <3>1, ReceivedOfWorth
      <4> HIDE DEF receipt, other
      <4>2. receipt = other
        BY <3>2 DEF other
      <4> QED BY <4>1, <4>2
    <3>4. w \in Nat
      BY <3>1, WorthTyped
    <3>5. receipt.received >= 1
      BY <2>1 DEF Send!QuotedMinimum
    <3> HIDE DEF receipt, w
    <3>6. w >= 1
      BY <3>3, <3>4, <3>5
    <3> QED BY <3>6 DEF w
  <2>5. t # Send!NotRun
    <3>1. Send!NotRun.next = None BY DEF Send!NotRun
    <3> QED BY <2>3, <3>1, SendConstants DEF RunRecords
  <2>6. tx[r].status = "none"
    BY <1>1, <1>2 DEF SendOf
  <2>7. tx' = [tx EXCEPT ![r] = tx[r]]
    BY <1>1, RunTyped
  <2>8. balance' \in [Send!Chains -> Amount] /\ oft' = oft /\ messageFee' = messageFee
    BY <1>1 DEF SendInv
  <2> HIDE DEF t
  <2>9. SendOf(oft.type, oft.rate, t, tx[r])
    BY <2>3, <2>4, <2>5, <2>6 DEF SendOf
  <2> QED BY <1>2, <2>1, <2>2, <2>3, <2>7, <2>8, <2>9, SendStep
<1> QED
  BY <1>3, <1>4

LEMMA SendSubmitKeeps ==
  ASSUME SendInv, NEW r \in Runs, Send!Submit(r)
  PROVE  SendInv'
<1>1. run[r].next = "submit" /\ UNCHANGED <<balance, oft, messageFee>>
  BY DEF Send!Submit, Send!world
<1>2. run[r] \in RunRecords /\ run[r] # Send!NotRun /\ tx[r] \in TxRecords
      /\ SendOf(oft.type, oft.rate, run[r], tx[r])
  BY <1>1, RunTyped DEF SendInv, Send!Steps
<1>3. CASE Send!Goes(r, "threw") /\ UNCHANGED tx
  <2>1. run[r].next \in Send!Steps /\ "threw" \in Send!Steps
    BY <1>1 DEF Send!Steps
  <2>2. SendOf(oft.type, oft.rate, [run[r] EXCEPT !.next = "threw"], tx[r])
    BY <1>2, <2>1, SendOfNext
  <2> QED BY <1>1, <1>3, <2>1, <2>2, SendGoes
<1>4. CASE Send!Goes(r, "confirm") /\ tx' = [tx EXCEPT ![r].status = "pending"]
  <2> DEFINE t == [run[r] EXCEPT !.next = "confirm"]
             x == [tx[r] EXCEPT !.status = "pending"]
  <2>1. t \in RunRecords /\ t.next = "confirm" /\ t.chain = run[r].chain
        /\ t.amount = run[r].amount /\ t.nativeFee = run[r].nativeFee
        /\ t.transferFee = run[r].transferFee
    BY <1>2 DEF RunRecords, Send!Steps
  <2>2. x \in TxRecords /\ x.status = "pending"
    BY <1>2 DEF TxRecords
  <2>3. t # Send!NotRun
    <3>1. Send!NotRun.next = None BY DEF Send!NotRun
    <3> QED BY <2>1, <3>1, SendConstants DEF RunRecords
  <2>4. run' = [run EXCEPT ![r] = t] /\ tx' = [tx EXCEPT ![r] = x]
    BY <1>4 DEF Send!Goes
  <2>5. balance' \in [Send!Chains -> Amount] /\ oft' = oft /\ messageFee' = messageFee
        /\ oft \in OFTRecords
    BY <1>1 DEF SendInv
  <2> HIDE DEF t, x
  <2>6. SendOf(oft.type, oft.rate, t, x)
    BY <1>1, <1>2, <2>1, <2>2, <2>3 DEF SendOf
  <2> QED BY <2>1, <2>2, <2>4, <2>5, <2>6, SendStep
<1> QED
  BY <1>3, <1>4 DEF Send!Submit

\* The transaction of a run has a life of its own.
LEMMA SendTxKeeps ==
  ASSUME SendInv, NEW r \in Runs, Send!Land(r) \/ Send!Expire(r)
  PROVE  SendInv'
<1>1. tx[r].status = "pending" /\ UNCHANGED <<messageFee, run>>
  BY DEF Send!Land, Send!Expire, Send!world
<1>2. run[r] \in RunRecords /\ run[r] # Send!NotRun /\ tx[r] \in TxRecords
      /\ SendOf(oft.type, oft.rate, run[r], tx[r])
  BY <1>1, RunTyped DEF SendInv
<1>3. run' = [run EXCEPT ![r] = run[r]]
  BY <1>1, RunTyped
<1>4. run[r].next \notin {"check", "quote", "submit", "reported"}
  BY <1>1, <1>2 DEF SendOf
<1>5. oft \in OFTRecords
  BY DEF SendInv
<1>6. CASE \E s \in {"refused", "expired"} :
             tx' = [tx EXCEPT ![r].status = s] /\ UNCHANGED <<balance, oft>>
  <2>1. PICK s \in {"refused", "expired"} :
          tx' = [tx EXCEPT ![r].status = s] /\ UNCHANGED <<balance, oft>>
    BY <1>6
  <2> DEFINE x == [tx[r] EXCEPT !.status = s]
  <2>2. tx' = [tx EXCEPT ![r] = x]
    BY <2>1
  <2>3. x \in TxRecords /\ x.status = s
    BY <1>2 DEF TxRecords
  <2>4. balance' \in [Send!Chains -> Amount] /\ oft' = oft /\ messageFee' = messageFee
    BY <1>1, <2>1 DEF SendInv
  <2> HIDE DEF x
  <2>5. SendOf(oft.type, oft.rate, run[r], x)
    BY <1>1, <1>2, <1>4, <2>3 DEF SendOf
  <2> QED BY <1>2, <1>3, <1>5, <2>2, <2>3, <2>4, <2>5, SendStep
<1>7. CASE Send!Land(r) /\ Send!Accepts(r)
  <2> DEFINE receipt == Send!Receipt(run[r].chain, run[r].amount)
             x == [status |-> "landed", received |-> receipt.received,
                   transferFee |-> oft.transferFee]
             left == Send!Left(run[r].chain, receipt.received)
  <2>1. /\ tx' = [tx EXCEPT ![r] = x]
        /\ balance' = [balance EXCEPT ![run[r].chain] = balance[run[r].chain] - receipt.sent]
        /\ oft' = [oft EXCEPT !.allowance = left]
    BY <1>7 DEF Send!Land
  <2>2. /\ receipt.sent <= balance[run[r].chain]
        /\ receipt.received >= Send!MinAmount(run[r].amount)
        /\ Send!Admits(run[r].chain, receipt.received)
    BY <1>7 DEF Send!Accepts
  <2>3. receipt.sent \in Nat /\ receipt.received \in Nat
    BY <1>2, ReceiptTyped
  <2>4. balance' \in [Send!Chains -> Amount]
    <3> HIDE DEF receipt
    <3>1. run[r].chain \in Send!Chains BY <1>2 DEF RunRecords
    <3>2. balance[run[r].chain] \in Amount BY <3>1 DEF SendInv
    <3>3. balance[run[r].chain] - receipt.sent \in Amount
      BY <2>2, <2>3, <3>2, U64Assumption DEF Amount
    <3> QED BY <2>1, <3>3 DEF SendInv
  <2>5. left \in Amount \cup {None}
    <3>1. oft.allowance \in Amount \cup {None}
      BY <1>5 DEF OFTRecords
    <3> HIDE DEF receipt
    <3> QED BY <2>2, <2>3, <3>1, U64Assumption DEF Send!Left, Send!Admits, Amount
  <2>6. oft' \in OFTRecords /\ oft'.type = oft.type /\ oft'.rate = oft.rate
    <3> HIDE DEF left
    <3> QED BY <1>5, <2>1, <2>5 DEF OFTRecords
  <2>7. run[r].chain = "solana" /\ receipt.received = 0
          => /\ run[r].amount = 1 /\ oft.type = "Adapter" /\ oft.rate = 1
             /\ oft.transferFee # run[r].transferFee
    <3> SUFFICES ASSUME run[r].chain = "solana", receipt.received = 0
                 PROVE  /\ run[r].amount = 1 /\ oft.type = "Adapter" /\ oft.rate = 1
                        /\ oft.transferFee # run[r].transferFee
      OBVIOUS
    <3>1. Worth(oft.type, oft.rate, run[r].transferFee, run[r].amount) >= 1
      BY <1>1, <1>2 DEF SendOf
    <3>2. /\ run[r].amount \in Nat /\ oft.rate \in Nat \ {0}
          /\ oft.transferFee \in TransferFee \cup {None}
          /\ run[r].transferFee \in TransferFee \cup {None}
          /\ oft.feeBps \in 0 .. (OneInBasisPoints - 1) /\ oft.type \in {"Native", "Adapter"}
      BY <1>2, <1>5, SendConstants DEF RunRecords, OFTRecords
    <3>3. receipt = ComputeFeeAndAdjustAmount(oft.type, oft.rate, oft.transferFee,
                                              oft.feeBps, run[r].amount)
      BY <1>2, ReceiptTyped
    <3> QED BY <2>2, <3>1, <3>2, <3>3, SomethingArrives
  <2>8. x \in TxRecords /\ x.status = "landed" /\ x.received = receipt.received
        /\ x.transferFee = oft.transferFee
    <3> HIDE DEF receipt
    <3> QED BY <1>5, <2>3 DEF TxRecords, OFTRecords
  <2> HIDE DEF x, receipt
  <2>9. SendOf(oft.type, oft.rate, run[r], x)
    BY <1>1, <1>2, <1>4, <2>7, <2>8 DEF SendOf
  <2> QED BY <1>1, <1>2, <1>3, <2>1, <2>4, <2>6, <2>8, <2>9, SendStep
<1>8. CASE Send!Land(r) /\ ~Send!Accepts(r)
  BY <1>6, <1>8 DEF Send!Land
<1>9. CASE Send!Expire(r)
  BY <1>6, <1>9 DEF Send!Expire, Send!world
<1> QED
  BY <1>7, <1>8, <1>9

\* Whatever is changed of the OFT, its type and its decimals stay.
LEMMA SendOFTKeeps ==
  ASSUME SendInv, Send!ChangeOFT
  PROVE  SendInv'
<1>1. oft \in OFTRecords /\ UNCHANGED <<balance, messageFee, run, tx>>
  BY DEF SendInv, Send!ChangeOFT
<1>2. oft' \in OFTRecords /\ oft'.type = oft.type /\ oft'.rate = oft.rate
  <2>1. ASSUME NEW bps \in FeeBps, oft' = [oft EXCEPT !.feeBps = bps]
        PROVE  oft' \in OFTRecords /\ oft'.type = oft.type /\ oft'.rate = oft.rate
    BY <1>1, <2>1 DEF OFTRecords
  <2>2. ASSUME NEW fee \in TransferFees, oft' = [oft EXCEPT !.transferFee = fee]
        PROVE  oft' \in OFTRecords /\ oft'.type = oft.type /\ oft'.rate = oft.rate
    BY <1>1, <2>2 DEF OFTRecords
  <2>3. ASSUME oft' = [oft EXCEPT !.paused = ~oft.paused]
        PROVE  oft' \in OFTRecords /\ oft'.type = oft.type /\ oft'.rate = oft.rate
    BY <1>1, <2>3 DEF OFTRecords
  <2>4. ASSUME NEW left \in Allowances, oft' = [oft EXCEPT !.allowance = left]
        PROVE  oft' \in OFTRecords /\ oft'.type = oft.type /\ oft'.rate = oft.rate
    BY <1>1, <2>4, SendConstants DEF OFTRecords
  <2> QED BY <2>1, <2>2, <2>3, <2>4 DEF Send!ChangeOFT
<1> QED
  BY <1>1, <1>2 DEF SendInv

LEMMA SendKept == SendInv /\ UNCHANGED sendVars => SendInv'
BY DEF SendInv, sendVars

LEMMA SendSteps == SendInv /\ Send!Next => SendInv'
<1> SUFFICES ASSUME SendInv, Send!Next PROVE SendInv'
  OBVIOUS
<1>1. CASE Send!SetMessageFee
  BY <1>1 DEF Send!SetMessageFee, SendInv
<1> QED
  BY <1>1, SendOFTKeeps, SendStartKeeps, SendRunKeeps, SendQuoteKeeps, SendSubmitKeeps, SendTxKeeps
  DEF Send!Next

LEMMA SendPromises ==
  ASSUME SendInv
  PROVE  Send!TypeOK /\ SendsAsPromised
<1>1. ASSUME NEW r \in Runs
      PROVE  /\ tx[r] \in TxRecords /\ SendOf(oft.type, oft.rate, run[r], tx[r])
             /\ run[r] = Send!NotRun \/ run[r] \in RunRecords
             /\ run[r] = Send!NotRun => tx[r].status = "none" /\ run[r].next = None
  BY DEF SendInv, SendOf, Send!NotRun
<1>2. Send!TypeOK
  BY <1>1, SendArithmetic, SameOFTs DEF SendInv, SendOf, Send!TypeOK, RunRecords, TxRecords
<1>3. Send!NothingEmptyLeavesSolana
  BY <1>1 DEF SendOf, Send!NothingEmptyLeavesSolana, Send!Landed
<1>4. Send!ReportedIsInBlock
  <2>1. "reported" # None BY SendConstants DEF Send!Steps
  <2> QED BY <1>1, <2>1 DEF SendOf, Send!ReportedIsInBlock, Send!Landed
<1> QED
  BY <1>2, <1>3, <1>4 DEF SendsAsPromised

-----------------------------------------------------------------------------
(***************************************************************************)
(* Signing.  Nothing is signed before a key is loaded, the operator is     *)
(* asked about a key of the file only, and between the limit that a task   *)
(* has set and the limit that it shows only others can have come.          *)
(***************************************************************************)
Env == [{"private", "path", "file"} -> Keys \cup {None}]
LimitsOfPeer == [Signed!Directions -> Limits \cup {None}]
Signers == Keys \cup {ephemeral, None}

Args == Limits \cup Units \cup {None}

TaskRecords ==
  [kind : Signed!Kinds \cup {None}, eid : Eids \cup {None}, arg : Args,
   next : {"start", "key", "prompt", "send", "show", "done", "threw"},
   payer : Signers, signer : Signers, agreed : BOOLEAN,
   shown : LimitsOfPeer \cup {None}, extra : 0..255 \cup {None}]

\* The arguments of a task are those of its kind.
Asked(t, e) ==
  t.next \notin {"start", "done", "threw"} =>
    /\ t.kind \in Signed!Directions => t.eid \in Eids /\ t.arg \in Limits
    /\ t.kind = "retry" => t.arg \in Units
    /\ t.next = "show" => t.eid \in Eids
    /\ t.next = "prompt" => t.kind \in {"derive", "retry"} /\ Signed!IsDefault(e)

SignatureOf(t, e) ==
  /\ t.next \in {"start", "key", "prompt"} => t.signer = None
  /\ t.signer \notin {None, ephemeral, e.private, e.path} => t.agreed
  /\ None \notin {e.private, e.path} /\ e.private # e.path
       /\ t.kind \in {"derive", "retry"} => t.signer = None
  /\ t.signer # None /\ t.kind = "retry" => t.payer = t.signer

\* What the inbound task t has set and shows of limits l, c being changed and o
\* being others.
Inbound(t, l, c, o) ==
  t.kind = "inbound" =>
    /\ c \subseteq {<<t.eid, "inbound">>}
    /\ t.next = "show" /\ ~o => l[t.eid]["inbound"] = t.arg
    /\ t.next = "done" /\ ~o => t.shown["inbound"] = t.arg

SignedInv ==
  /\ env \in Env
  /\ limits \in [Eids -> LimitsOfPeer]
  /\ task \in TaskRecords
  /\ changed \subseteq Eids \X Signed!Directions
  /\ Asked(task, env)
  /\ SignatureOf(task, env)
  /\ Inbound(task, limits, changed, others)

LEMMA SignedConstants ==
  /\ sepolia \in Eids /\ Units \subseteq Nat
  /\ ephemeral \notin Keys /\ None \notin Keys /\ None # ephemeral
<1>1. Signed!SignedTasksAssumption
  BY TasksAssumption
<1> QED
  BY <1>1 DEF Signed!SignedTasksAssumption

LEMMA SignedStarts == Signed!Init => SignedInv
<1> SUFFICES ASSUME Signed!Init PROVE SignedInv
  OBVIOUS
<1>1. task \in TaskRecords
  BY DEF Signed!Init, Signed!Idle, TaskRecords, Signers, Args
<1>2. limits \in [Eids -> LimitsOfPeer]
  BY DEF Signed!Init, LimitsOfPeer
<1>3. Asked(task, env) /\ SignatureOf(task, env) /\ Inbound(task, limits, changed, others)
  BY DEF Signed!Init, Signed!Idle, Asked, SignatureOf, Inbound
<1> QED
  BY <1>1, <1>2, <1>3 DEF Signed!Init, SignedInv, Env

LEMMA SignedStep ==
  ASSUME SignedInv, env' = env, limits' \in [Eids -> LimitsOfPeer], task' \in TaskRecords,
         changed' \subseteq Eids \X Signed!Directions,
         Asked(task', env), SignatureOf(task', env), Inbound(task', limits', changed', others')
  PROVE  SignedInv'
BY DEF SignedInv

LEMMA SignedStartKeeps ==
  ASSUME SignedInv, NEW kind \in Signed!Kinds, Signed!Start(kind)
  PROVE  SignedInv'
<1>1. PICK e \in (IF kind \in Signed!Directions \cup {"get"} THEN Eids ELSE {None}),
           a \in Signed!Arguments(kind) :
        task' = [Signed!Idle EXCEPT !.kind = kind, !.eid = e, !.arg = a,
                                    !.next = IF kind = "get" THEN "show" ELSE "key"]
  BY DEF Signed!Start
<1>2. /\ kind \in Signed!Directions => a \in Limits
      /\ kind = "retry" => a \in Units
      /\ a \in Limits \cup Units \cup {None}
  <2>1. CASE kind \in Signed!Directions
    <3>1. Signed!Arguments(kind) = Limits
      BY <2>1 DEF Signed!Arguments, Signed!Directions
    <3> QED BY <2>1, <3>1 DEF Signed!Directions
  <2>2. CASE kind = "retry"
    <3>1. Signed!Arguments(kind) = Units
      BY <2>2 DEF Signed!Arguments, Signed!Directions
    <3> QED BY <2>2, <3>1 DEF Signed!Directions
  <2>3. CASE kind \notin Signed!Directions /\ kind # "retry"
    <3>1. Signed!Arguments(kind) = {None}
      BY <2>3 DEF Signed!Arguments
    <3> QED BY <2>3, <3>1
  <2> QED BY <2>1, <2>2, <2>3
<1>3. /\ task'.kind = kind /\ task'.eid = e /\ task'.arg = a
      /\ task'.next = (IF kind = "get" THEN "show" ELSE "key")
      /\ task'.payer = None /\ task'.signer = None
  BY <1>1 DEF Signed!Idle
<1>4. task' \in TaskRecords
  BY <1>1, <1>2 DEF Signed!Idle, TaskRecords, Signers, Args
<1>5. Asked(task', env)
  BY <1>1, <1>2, <1>3 DEF Asked, Signed!Directions
<1>6. SignatureOf(task', env)
  BY <1>3 DEF SignatureOf
<1>7. env' = env /\ limits' = limits /\ changed' = {}
  BY DEF Signed!Start
<1>8. Inbound(task', limits', changed', others')
  BY <1>3, <1>7 DEF Inbound, Signed!Directions
<1> QED
  BY <1>4, <1>5, <1>6, <1>7, <1>8, SignedStep DEF SignedInv

LEMMA TaskTyped == SignedInv => task \in TaskRecords
BY DEF SignedInv

LEMMA TaskGoesOn ==
  ASSUME NEW t \in TaskRecords, NEW p \in Signers, NEW s \in Signers,
         NEW n \in {"start", "key", "prompt", "send", "show", "done", "threw"}
  PROVE  /\ [t EXCEPT !.next = n, !.signer = s] \in TaskRecords
         /\ [t EXCEPT !.next = n, !.payer = p, !.signer = s] \in TaskRecords
         /\ [t EXCEPT !.next = n, !.agreed = TRUE, !.payer = p, !.signer = s] \in TaskRecords
<1>1. [t EXCEPT !.next = n, !.signer = s] \in TaskRecords
  BY DEF TaskRecords
<1>2. [t EXCEPT !.next = n, !.payer = p, !.signer = s] \in TaskRecords
  BY DEF TaskRecords
<1>3. [t EXCEPT !.next = n, !.agreed = TRUE, !.payer = p, !.signer = s] \in TaskRecords
  BY DEF TaskRecords
<1> QED
  BY <1>1, <1>2, <1>3

\* A task that is in its course becomes another, and nothing else changes.
LEMMA SignedBecomes ==
  ASSUME SignedInv, NEW t \in TaskRecords, Signed!Becomes(t),
         Asked(t, env), SignatureOf(t, env), Inbound(t, limits, changed, others)
  PROVE  SignedInv'
BY SignedStep DEF SignedInv, Signed!Becomes

LEMMA SignedThrows ==
  ASSUME SignedInv, Signed!Throws
  PROVE  SignedInv'
<1> DEFINE t == [task EXCEPT !.next = "threw"]
<1>1. /\ t \in TaskRecords /\ t.next = "threw"
      /\ t.kind = task.kind /\ t.eid = task.eid /\ t.payer = task.payer
      /\ t.signer = task.signer /\ t.agreed = task.agreed
  BY TaskTyped DEF TaskRecords
<1>2. Signed!Becomes(t)
  BY DEF Signed!Throws, Signed!Becomes
<1> HIDE DEF t
<1>3. Asked(t, env)
  BY <1>1 DEF Asked
<1>4. SignatureOf(t, env)
  BY <1>1 DEF SignatureOf, SignedInv
<1>5. Inbound(t, limits, changed, others)
  BY <1>1 DEF Inbound, SignedInv
<1> QED
  BY <1>1, <1>2, <1>3, <1>4, <1>5, SignedBecomes

LEMMA SignedKeyKeeps ==
  ASSUME SignedInv, Signed!LoadPrivateKey \/ Signed!DeriveConnection \/ \E yes \in BOOLEAN : Signed!Prompt(yes)
  PROVE  SignedInv'
<1>1. CASE Signed!Throws
  BY <1>1, SignedThrows
<1>2. CASE Signed!LoadPrivateKey /\ ~Signed!Throws
  <2> DEFINE t == [task EXCEPT !.next = "send", !.payer = env.private, !.signer = env.private]
  <2>1. /\ task.kind \in Signed!Directions /\ task.next = "key" /\ env.private # None
        /\ Signed!Becomes(t)
    BY <1>2 DEF Signed!LoadPrivateKey
  <2>2. env.private \in Signers
    BY DEF SignedInv, Env, Signers
  <2>3. /\ t \in TaskRecords /\ t.next = "send" /\ t.kind = task.kind /\ t.eid = task.eid
        /\ t.arg = task.arg /\ t.payer = env.private /\ t.signer = env.private
    <3>0. task \in TaskRecords
      BY TaskTyped
    <3>1. t \in TaskRecords
      BY <3>0, <2>2, TaskGoesOn
    <3>2. t.kind = task.kind /\ t.eid = task.eid /\ t.arg = task.arg
      BY <2>2, TaskTyped DEF TaskRecords
    <3>3. t.next = "send"
      BY <2>2, TaskTyped DEF TaskRecords
    <3>4. t.payer = env.private
      BY <2>2, TaskTyped DEF TaskRecords
    <3>5. t.signer = env.private
      BY <2>2, TaskTyped DEF TaskRecords
    <3> QED BY <3>1, <3>2, <3>3, <3>4, <3>5
  <2> HIDE DEF t
  <2>4. Asked(t, env)
    BY <2>1, <2>3 DEF Asked, SignedInv
  <2>5. SignatureOf(t, env)
    BY <2>1, <2>3 DEF SignatureOf, Signed!Directions
  <2>6. Inbound(t, limits, changed, others)
    BY <2>1, <2>3 DEF Inbound, SignedInv
  <2> QED BY <2>1, <2>3, <2>4, <2>5, <2>6, SignedBecomes
<1>3. CASE Signed!DeriveConnection /\ task.kind = "read-only"
  <2> DEFINE t == [task EXCEPT !.next = "done", !.signer = ephemeral]
  <2>1. Signed!Becomes(t)
    BY <1>3 DEF Signed!DeriveConnection
  <2>2. /\ t \in TaskRecords /\ t.next = "done" /\ t.kind = "read-only" /\ t.signer = ephemeral
    <3>0. ephemeral \in Signers /\ task \in TaskRecords
      BY TaskTyped DEF Signers
    <3>1. t \in TaskRecords
      BY <3>0, TaskGoesOn
    <3>2. t.kind = task.kind
      BY <3>0 DEF TaskRecords
    <3>3. t.next = "done"
      BY <3>0 DEF TaskRecords
    <3>4. t.signer = ephemeral
      BY <3>0 DEF TaskRecords
    <3> QED BY <1>3, <3>1, <3>2, <3>3, <3>4
  <2> HIDE DEF t
  <2>3. Asked(t, env) /\ SignatureOf(t, env) /\ Inbound(t, limits, changed, others)
    BY <2>2 DEF Asked, SignatureOf, Inbound
  <2> QED BY <2>1, <2>2, <2>3, SignedBecomes
<1>4. CASE Signed!DeriveConnection /\ task.kind # "read-only" /\ ~Signed!Throws
  <2>1. /\ task.kind \in {"derive", "retry"} /\ task.next = "key"
        /\ Signed!SolanaKeypair(env) # None
        /\ task.kind = "retry" => env.private # None
    BY <1>4 DEF Signed!DeriveConnection
  <2>2. task.signer = None
    BY <2>1 DEF SignedInv, SignatureOf
  <2>3. CASE Signed!IsDefault(env)
    <3> DEFINE t == [task EXCEPT !.next = "prompt"]
    <3>1. Signed!Becomes(t)
      BY <1>4, <2>1, <2>3 DEF Signed!DeriveConnection
    <3>2. /\ t \in TaskRecords /\ t.next = "prompt" /\ t.kind = task.kind /\ t.arg = task.arg
          /\ t.signer = None
      BY <2>2, TaskTyped DEF TaskRecords
    <3> HIDE DEF t
    <3>3. Asked(t, env)
      BY <2>1, <2>3, <3>2 DEF Asked, SignedInv, Signed!Directions
    <3>4. SignatureOf(t, env) /\ Inbound(t, limits, changed, others)
      BY <2>1, <3>2 DEF SignatureOf, Inbound
    <3> QED BY <3>1, <3>2, <3>3, <3>4, SignedBecomes
  <2>4. CASE ~Signed!IsDefault(env)
    <3> DEFINE t == [task EXCEPT !.next = IF task.kind = "retry" THEN "send" ELSE "done",
                                 !.payer = Signed!SolanaKeypair(env),
                                 !.signer = IF task.kind = "retry" THEN env.private
                                            ELSE Signed!SolanaKeypair(env)]
    <3>1. Signed!Becomes(t)
      BY <1>4, <2>1, <2>4 DEF Signed!DeriveConnection
    <3>2. Signed!SolanaKeypair(env) \in {env.private, env.path}
          /\ (env.private # None =>
                Signed!SolanaKeypair(env) = env.private /\ env.path \in {None, env.private})
      BY <2>1, <2>4 DEF Signed!SolanaKeypair, Signed!IsDefault
    <3>3. env.private \in Signers /\ env.path \in Signers
      BY DEF SignedInv, Env, Signers
    <3>4. /\ t \in TaskRecords /\ t.kind = task.kind /\ t.arg = task.arg
          /\ t.next = (IF task.kind = "retry" THEN "send" ELSE "done")
          /\ t.payer = Signed!SolanaKeypair(env)
          /\ t.signer = (IF task.kind = "retry" THEN env.private ELSE Signed!SolanaKeypair(env))
      <4>0. task \in TaskRecords
        BY TaskTyped
      <4>1. t \in TaskRecords
        BY <4>0, <3>2, <3>3, TaskGoesOn
      <4>2. t.kind = task.kind /\ t.arg = task.arg
        BY <3>2, <3>3, TaskTyped DEF TaskRecords
      <4>3. t.next = (IF task.kind = "retry" THEN "send" ELSE "done")
        BY <3>2, <3>3, TaskTyped DEF TaskRecords
      <4>4. t.payer = Signed!SolanaKeypair(env)
        BY <3>2, <3>3, TaskTyped DEF TaskRecords
      <4>5. t.signer = (IF task.kind = "retry" THEN env.private ELSE Signed!SolanaKeypair(env))
        BY <3>2, <3>3, TaskTyped DEF TaskRecords
      <4> QED BY <4>1, <4>2, <4>3, <4>4, <4>5
    <3> HIDE DEF t
    <3>5. Asked(t, env)
      BY <2>1, <3>4 DEF Asked, SignedInv, Signed!Directions
    <3>6. SignatureOf(t, env)
      BY <2>1, <3>2, <3>4 DEF SignatureOf
    <3>7. Inbound(t, limits, changed, others)
      BY <2>1, <3>4 DEF Inbound
    <3> QED BY <3>1, <3>4, <3>5, <3>6, <3>7, SignedBecomes
  <2> QED BY <2>3, <2>4
<1>5. CASE (\E yes \in BOOLEAN : Signed!Prompt(yes)) /\ ~Signed!Throws
  <2> DEFINE t == [task EXCEPT !.next = "done", !.agreed = TRUE, !.payer = env.file, !.signer = env.file]
  <2>1. task.next = "prompt" /\ Signed!Becomes(t)
    BY <1>5 DEF Signed!Prompt
  <2>2. task.kind \in {"derive", "retry"} /\ env.private = None
    BY <2>1 DEF SignedInv, Asked, Signed!IsDefault
  <2>3. env.file \in Signers
    BY DEF SignedInv, Env, Signers
  <2>4. /\ t \in TaskRecords /\ t.kind = task.kind /\ t.next = "done" /\ t.agreed = TRUE
        /\ t.payer = env.file /\ t.signer = env.file
    <3>0. task \in TaskRecords
      BY TaskTyped
    <3>1. t \in TaskRecords
      BY <3>0, <2>3, TaskGoesOn
    <3>2. t.kind = task.kind
      BY <2>3, TaskTyped DEF TaskRecords
    <3>3. t.next = "done"
      BY <2>3, TaskTyped DEF TaskRecords
    <3>4. t.agreed = TRUE
      BY <2>3, TaskTyped DEF TaskRecords
    <3>5. t.payer = env.file
      BY <2>3, TaskTyped DEF TaskRecords
    <3>6. t.signer = env.file
      BY <2>3, TaskTyped DEF TaskRecords
    <3> QED BY <3>1, <3>2, <3>3, <3>4, <3>5, <3>6
  <2> HIDE DEF t
  <2>5. Asked(t, env) /\ SignatureOf(t, env) /\ Inbound(t, limits, changed, others)
    BY <2>2, <2>4 DEF Asked, SignatureOf, Inbound
  <2> QED BY <2>1, <2>4, <2>5, SignedBecomes
<1> QED
  BY <1>1, <1>2, <1>3, <1>4, <1>5

LEMMA SignedSetKeeps ==
  ASSUME SignedInv, NEW confirmed \in BOOLEAN, Signed!SetRateLimit(confirmed)
  PROVE  SignedInv'
<1>1. CASE Signed!Throws
  BY <1>1, SignedThrows
<1>2. CASE ~Signed!Throws
  <2> DEFINE peer == Signed!LimitedPeer(task.kind, task.eid)
             next == IF confirmed THEN "show" ELSE "threw"
  <2>1. /\ task.kind \in Signed!Directions /\ task.next = "send"
        /\ limits' = [limits EXCEPT ![peer][task.kind] = task.arg]
        /\ changed' = {<<peer, task.kind>>}
        /\ task' = [task EXCEPT !.next = next]
        /\ env' = env /\ others' = others
    BY <1>2 DEF Signed!SetRateLimit
  <2>2. task.eid \in Eids /\ task.arg \in Limits
    BY <2>1 DEF SignedInv, Asked
  <2>3. peer \in Eids /\ (task.kind = "inbound" => peer = task.eid)
    BY <2>2, SignedConstants DEF Signed!LimitedPeer
  <2>4. /\ task' \in TaskRecords /\ task'.kind = task.kind /\ task'.eid = task.eid
        /\ task'.arg = task.arg /\ task'.next = next /\ task'.signer = task.signer
        /\ task'.agreed = task.agreed /\ task'.payer = task.payer
    BY <2>1, TaskTyped DEF TaskRecords
  <2> HIDE DEF peer
  <2>5. limits' \in [Eids -> LimitsOfPeer]
    BY <2>1, <2>2, <2>3 DEF SignedInv, LimitsOfPeer
  <2>6. task.kind = "inbound" => limits'[task.eid]["inbound"] = task.arg
    BY <2>1, <2>2, <2>3 DEF SignedInv, LimitsOfPeer, Signed!Directions
  <2>7. changed' \subseteq Eids \X Signed!Directions
    BY <2>1, <2>3
  <2>8. Asked(task', env)
    BY <2>1, <2>2, <2>4 DEF Asked, Signed!Directions
  <2>9. SignatureOf(task', env)
    BY <2>1, <2>4 DEF SignatureOf, SignedInv
  <2>10. Inbound(task', limits', changed', others')
    BY <2>1, <2>3, <2>4, <2>6 DEF Inbound
  <2> QED BY <2>1, <2>4, <2>5, <2>7, <2>8, <2>9, <2>10, SignedStep
<1> QED
  BY <1>1, <1>2

LEMMA SignedEndKeeps ==
  ASSUME SignedInv, Signed!ShowPeer \/ Signed!RetryPayload \/ Signed!Finish
  PROVE  SignedInv'
<1>1. CASE Signed!Throws
  BY <1>1, SignedThrows
<1>2. CASE Signed!ShowPeer /\ ~Signed!Throws
  <2> DEFINE t == [task EXCEPT !.next = "done", !.shown = limits[task.eid]]
  <2>1. task.next = "show" /\ Signed!Becomes(t)
    BY <1>2 DEF Signed!ShowPeer
  <2>2. limits[task.eid] \in LimitsOfPeer
    BY <2>1 DEF SignedInv, Asked
  <2>3. /\ t \in TaskRecords /\ t.kind = task.kind /\ t.eid = task.eid /\ t.arg = task.arg
        /\ t.next = "done" /\ t.shown = limits[task.eid] /\ t.signer = task.signer
        /\ t.agreed = task.agreed /\ t.payer = task.payer
    <3>0. task \in TaskRecords
      BY TaskTyped
    <3>1. t \in TaskRecords
      BY <3>0, <2>2 DEF TaskRecords
    <3>2. t.kind = task.kind /\ t.eid = task.eid /\ t.arg = task.arg
      BY <2>2, TaskTyped DEF TaskRecords
    <3>3. t.next = "done"
      BY <2>2, TaskTyped DEF TaskRecords
    <3>4. t.shown = limits[task.eid]
      BY <2>2, TaskTyped DEF TaskRecords
    <3>5. t.signer = task.signer /\ t.agreed = task.agreed /\ t.payer = task.payer
      BY <2>2, TaskTyped DEF TaskRecords
    <3> QED BY <3>1, <3>2, <3>3, <3>4, <3>5
  <2> HIDE DEF t
  <2>4. Asked(t, env)
    BY <2>3 DEF Asked
  <2>5. SignatureOf(t, env)
    BY <2>3 DEF SignatureOf, SignedInv
  <2>6. Inbound(t, limits, changed, others)
    BY <2>1, <2>3 DEF Inbound, SignedInv
  <2> QED BY <2>1, <2>3, <2>4, <2>5, <2>6, SignedBecomes
<1>3. CASE Signed!RetryPayload
  <2> DEFINE t == [task EXCEPT !.next = "done", !.extra = Signed!ExtraData(task.arg)]
  <2>1. task.kind = "retry" /\ task.next = "send" /\ Signed!Becomes(t)
    BY <1>3 DEF Signed!RetryPayload
  <2>2. Signed!ExtraData(task.arg) \in 0..255
    <3>1. task.arg \in Nat
      BY <2>1, SignedConstants DEF SignedInv, Asked
    <3> QED BY <3>1 DEF Signed!ExtraData
  <2>3. /\ t \in TaskRecords /\ t.kind = "retry" /\ t.next = "done" /\ t.signer = task.signer
        /\ t.agreed = task.agreed /\ t.payer = task.payer
    <3>0. task \in TaskRecords
      BY TaskTyped
    <3>1. t \in TaskRecords
      BY <3>0, <2>2 DEF TaskRecords
    <3>2. t.kind = task.kind
      BY <2>2, TaskTyped DEF TaskRecords
    <3>3. t.next = "done"
      BY <2>2, TaskTyped DEF TaskRecords
    <3>4. t.signer = task.signer /\ t.agreed = task.agreed /\ t.payer = task.payer
      BY <2>2, TaskTyped DEF TaskRecords
    <3> QED BY <3>1, <3>2, <3>3, <3>4, <2>1
  <2> HIDE DEF t
  <2>4. Asked(t, env) /\ Inbound(t, limits, changed, others)
    BY <2>3 DEF Asked, Inbound
  <2>5. SignatureOf(t, env)
    BY <2>1, <2>3 DEF SignatureOf, SignedInv
  <2> QED BY <2>1, <2>3, <2>4, <2>5, SignedBecomes
<1>4. CASE Signed!Finish
  <2>1. task' = Signed!Idle /\ changed' = {} /\ env' = env /\ limits' = limits
    BY <1>4 DEF Signed!Finish
  <2>2. task' \in TaskRecords /\ task'.next = "start" /\ task'.signer = None
    BY <2>1 DEF Signed!Idle, TaskRecords, Signers, Args
  <2>3. Asked(task', env) /\ SignatureOf(task', env) /\ Inbound(task', limits', changed', others')
    BY <2>1, <2>2 DEF Asked, SignatureOf, Inbound
  <2> QED BY <2>1, <2>2, <2>3, SignedStep DEF SignedInv
<1> QED
  BY <1>1, <1>2, <1>3, <1>4

LEMMA SignedOthersKeep ==
  ASSUME SignedInv, NEW e \in Eids, NEW d \in Signed!Directions, NEW l \in Limits,
         Signed!OthersSet(e, d, l)
  PROVE  SignedInv'
<1>1. /\ limits' = [limits EXCEPT ![e][d] = l] /\ others' = TRUE
      /\ env' = env /\ task' = task /\ changed' = changed
  BY DEF Signed!OthersSet
<1>2. limits' \in [Eids -> LimitsOfPeer]
  BY <1>1 DEF SignedInv, LimitsOfPeer
<1>3. Inbound(task', limits', changed', others')
  BY <1>1 DEF Inbound, SignedInv
<1> QED
  BY <1>1, <1>2, <1>3, SignedStep DEF SignedInv

LEMMA SignedKept == SignedInv /\ UNCHANGED signedVars => SignedInv'
BY DEF SignedInv, signedVars

LEMMA SignedSteps == SignedInv /\ Signed!Next => SignedInv'
BY SignedStartKeeps, SignedKeyKeeps, SignedSetKeeps, SignedEndKeeps, SignedOthersKeep
DEF Signed!Next

LEMMA SignedPromises ==
  ASSUME SignedInv
  PROVE  Signed!TypeOK /\ SignsAsChosen
<1>1. Signed!TypeOK
  BY DEF SignedInv, Signed!TypeOK, Env, LimitsOfPeer, TaskRecords, Signers, Args
<1>2. Signed!DefaultIsAgreed /\ Signed!ConflictIsRefused /\ Signed!PayerSigns
  BY DEF SignedInv, SignatureOf, Signed!DefaultIsAgreed, Signed!ConflictIsRefused, Signed!PayerSigns
<1>3. Signed!InboundShowsWhatItSet
  BY DEF SignedInv, Inbound, Signed!InboundShowsWhatItSet
<1> QED
  BY <1>1, <1>2, <1>3 DEF SignsAsChosen

-----------------------------------------------------------------------------
(***************************************************************************)
(* The report of debug.  No line is printed before the store, the mint and *)
(* the registry are fetched, and no row before the peers are, so that what *)
(* a line says was read stays read; a row is appended for the first        *)
(* endpoint that has none.                                                 *)
(***************************************************************************)
Whats == {"owner", "admin", "delegate", "mintAuthority", "sameAsDelegate",
          "mintAuthorityIsStore", "peer"}
Shown == Keys \cup {oftStore, program, None} \cup BOOLEAN
           \cup [eid : Report!Destinations, peer : PeerAddresses \cup {None}, config : Configs \cup {None}]
LineRecords == [what : Whats, value : Shown]

\* What line l says is what was read.
LineFollows(l, r) ==
  /\ l.what = "admin" => l.value = r.admin
  /\ l.what = "delegate" => l.value = r.delegate
  /\ l.what = "mintAuthority" => l.value = r.mintAuthority
  /\ l.what = "sameAsDelegate" => l.value = (r.admin = r.delegate)
  /\ l.what = "mintAuthorityIsStore" => l.value = (r.mintAuthority = oftStore)
  /\ l.what = "peer" => l.value.eid \in Report!Destinations /\ l.value.peer = r.peer[l.value.eid]

ConfigFollows(l, c) ==
  l.what = "peer" /\ l.value.peer # None => l.value.config = c.config[l.value.eid]

\* The rows among the first n lines of rep, and their order.
RowsOf(rep, n) == {k \in 1..n : rep[k].what = "peer"}
RowCount(rep) == Cardinality(RowsOf(rep, Len(rep)))

InOrder(rep) ==
  /\ RowCount(rep) <= Len(dstEids)
  /\ \A i \in 1..RowCount(rep) : \E k \in RowsOf(rep, Len(rep)) :
       Cardinality(RowsOf(rep, k)) = i /\ rep[k].value.eid = dstEids[i]

DebugInv ==
  /\ chain \in Report!Chains /\ read \in Report!Chains /\ changes \in 0..MaxChanges
  /\ action \in Report!Actions \cup {None}
  /\ fetched \subseteq {"store", "mint", "registry", "peers"}
  /\ "peers" \in fetched => {"store", "mint", "registry"} \subseteq fetched
  /\ todo \in Seq(Report!Actions) /\ report \in Seq(LineRecords)
  /\ changes = 0 => read = chain
  /\ \A i \in 1..Len(report) :
       /\ LineFollows(report[i], read)
       /\ changes = 0 => ConfigFollows(report[i], chain)
       /\ {"store", "mint", "registry"} \subseteq fetched
       /\ report[i].what = "peer" => "peers" \in fetched
  /\ InOrder(report)
  /\ "peers" \in Report!Range(Report!Sections(action)) /\ "peers" \notin Report!Range(todo)
       => RowCount(report) = Len(dstEids)

\* The instance brings finite sets under names of its own.
LEMMA DebugCardinality == \A S : Report!Cardinality(S) = Cardinality(S)
BY DEF Report!Cardinality, Cardinality

LEMMA DebugConstants ==
  /\ dstEids \in Seq(Report!Destinations)
  /\ Len(dstEids) \in Nat /\ DOMAIN dstEids = 1..Len(dstEids)
  /\ MaxChanges \in Nat
<1>1. Report!DebugAssumption
  BY TasksAssumption
<1>2. dstEids \in Seq(Report!Destinations) /\ MaxChanges \in Nat
  BY <1>1 DEF Report!DebugAssumption, Report!Destinations
<1> QED
  BY <1>2

LEMMA RowsFinite ==
  ASSUME NEW rep, NEW n \in Nat
  PROVE  IsFiniteSet(RowsOf(rep, n)) /\ Cardinality(RowsOf(rep, n)) \in Nat
<1>1. RowsOf(rep, n) \subseteq 1..n /\ IsFiniteSet(1..n)
  BY FS_Interval DEF RowsOf
<1> QED
  BY <1>1, FS_Subset, FS_CardinalityType

\* Lines that are no rows leave the rows as they are.
LEMMA PlainLines ==
  ASSUME NEW rep \in Seq(LineRecords), NEW lines \in Seq(LineRecords), InOrder(rep),
         \A j \in 1..Len(lines) : lines[j].what # "peer"
  PROVE  InOrder(rep \o lines) /\ RowCount(rep \o lines) = RowCount(rep)
<1> DEFINE all == rep \o lines
<1>1. Len(all) = Len(rep) + Len(lines) /\ Len(rep) \in Nat /\ Len(lines) \in Nat
  OBVIOUS
<1>2. \A k \in 1..Len(rep) : all[k] = rep[k]
  OBVIOUS
<1>3. \A k \in 1..Len(all) : k > Len(rep) => all[k].what # "peer"
  <2> SUFFICES ASSUME NEW k \in 1..Len(all), k > Len(rep) PROVE all[k].what # "peer"
    OBVIOUS
  <2>1. all[k] = lines[k - Len(rep)] /\ k - Len(rep) \in 1..Len(lines)
    BY <1>1
  <2> QED BY <2>1
<1> HIDE DEF all
<1>4. \A n \in 1..Len(rep) : RowsOf(all, n) = RowsOf(rep, n)
  BY <1>1, <1>2 DEF RowsOf
<1>5. RowsOf(all, Len(all)) = RowsOf(rep, Len(rep))
  BY <1>1, <1>2, <1>3 DEF RowsOf
<1>6. RowCount(all) = RowCount(rep)
  BY <1>5 DEF RowCount
<1>7. ASSUME NEW i \in 1..RowCount(all)
      PROVE  \E k \in RowsOf(all, Len(all)) :
               Cardinality(RowsOf(all, k)) = i /\ all[k].value.eid = dstEids[i]
  <2>1. PICK k \in RowsOf(rep, Len(rep)) :
          Cardinality(RowsOf(rep, k)) = i /\ rep[k].value.eid = dstEids[i]
    BY <1>6 DEF InOrder
  <2>2. k \in 1..Len(rep)
    BY DEF RowsOf
  <2>3. k \in RowsOf(all, Len(all)) /\ RowsOf(all, k) = RowsOf(rep, k) /\ all[k] = rep[k]
    BY <1>2, <1>4, <1>5, <2>2
  <2> QED BY <2>1, <2>3
<1>8. InOrder(all) /\ RowCount(all) = RowCount(rep)
  BY <1>6, <1>7 DEF InOrder
<1> QED
  BY <1>8 DEF all

\* The row of the first endpoint that has none.
LEMMA NextRow ==
  ASSUME NEW rep \in Seq(LineRecords), NEW row \in LineRecords, InOrder(rep),
         row.what = "peer", RowCount(rep) + 1 <= Len(dstEids),
         row.value.eid = dstEids[RowCount(rep) + 1]
  PROVE  InOrder(rep \o <<row>>) /\ RowCount(rep \o <<row>>) = RowCount(rep) + 1
<1> DEFINE all == rep \o <<row>>
           n == Len(rep) + 1
<1>1. Len(all) = n /\ Len(rep) \in Nat /\ all[n] = row
  OBVIOUS
<1>2. \A k \in 1..Len(rep) : all[k] = rep[k]
  OBVIOUS
<1> HIDE DEF all
<1>3. \A m \in 1..Len(rep) : RowsOf(all, m) = RowsOf(rep, m)
  BY <1>1, <1>2 DEF RowsOf
<1>4. RowsOf(all, n) = RowsOf(rep, Len(rep)) \cup {n} /\ n \notin RowsOf(rep, Len(rep))
  BY <1>1, <1>2 DEF RowsOf
<1>5. Cardinality(RowsOf(all, n)) = RowCount(rep) + 1 /\ RowCount(rep) \in Nat
  BY <1>1, <1>4, RowsFinite, FS_AddElement DEF RowCount
<1>6. RowCount(all) = RowCount(rep) + 1
  BY <1>1, <1>5 DEF RowCount
<1>7. ASSUME NEW i \in 1..RowCount(all)
      PROVE  \E k \in RowsOf(all, Len(all)) :
               Cardinality(RowsOf(all, k)) = i /\ all[k].value.eid = dstEids[i]
  <2>1. CASE i = RowCount(rep) + 1
    <3>1. n \in RowsOf(all, Len(all)) /\ all[n].value.eid = dstEids[i]
      BY <1>1, <1>4, <2>1
    <3> QED BY <1>5, <2>1, <3>1
  <2>2. CASE i # RowCount(rep) + 1
    <3>0. i \in 1..RowCount(rep)
      BY <1>5, <1>6, <2>2
    <3>1. PICK k \in RowsOf(rep, Len(rep)) :
            Cardinality(RowsOf(rep, k)) = i /\ rep[k].value.eid = dstEids[i]
      BY <3>0 DEF InOrder
    <3>2. k \in 1..Len(rep)
      BY DEF RowsOf
    <3>3. k \in RowsOf(all, Len(all)) /\ RowsOf(all, k) = RowsOf(rep, k) /\ all[k] = rep[k]
      BY <1>1, <1>2, <1>3, <1>4, <3>2
    <3> QED BY <3>1, <3>3
  <2> QED BY <2>1, <2>2
<1>8. InOrder(all) /\ RowCount(all) = RowCount(rep) + 1
  BY <1>6, <1>7 DEF InOrder
<1> QED
  BY <1>8 DEF all

LEMMA SectionsTyped ==
  ASSUME NEW a \in Report!Actions \cup {None}
  PROVE  Report!Sections(a) \in Seq(Report!Actions)
<1>1. CASE a # None
  BY <1>1 DEF Report!Sections
<1>2. CASE a = None
  <2> DEFINE middle == IF dstEids = <<>> THEN <<>> ELSE <<"peers">>
  <2>0. <<"peers">> \in Seq(Report!Actions)
    BY DEF Report!Actions
  <2>1. middle \in Seq(Report!Actions)
    BY <2>0
  <2>2. <<"oft-store", "delegate", "token">> \in Seq(Report!Actions)
    BY DEF Report!Actions
  <2>3. <<"checks">> \in Seq(Report!Actions)
    BY DEF Report!Actions
  <2> HIDE DEF middle
  <2>4. <<"oft-store", "delegate", "token">> \o middle \o <<"checks">> \in Seq(Report!Actions)
    BY <2>1, <2>2, <2>3, ConcatProperties
  <2> QED BY <1>2, <2>4 DEF Report!Sections, middle
<1> QED
  BY <1>1, <1>2

LEMMA DebugStarts == Report!Init => DebugInv
<1> SUFFICES ASSUME Report!Init PROVE DebugInv
  OBVIOUS
<1>1. todo \in Seq(Report!Actions)
  BY SectionsTyped DEF Report!Init
<1>2. report = <<>> /\ report \in Seq(LineRecords) /\ Len(report) = 0
  BY DEF Report!Init
<1>3. RowCount(report) = 0
  <2>1. RowsOf(report, Len(report)) = {}
    BY <1>2 DEF RowsOf
  <2> QED BY <2>1, FS_EmptySet DEF RowCount
<1>4. InOrder(report)
  BY <1>3, DebugConstants DEF InOrder
<1>5. 0 \in 0..MaxChanges
  BY DebugConstants
<1> QED
  BY <1>1, <1>2, <1>4, <1>5 DEF Report!Init, DebugInv

\* Somebody changes an account: from then on the chain need not be what was read.
LEMMA DebugChangeKeeps ==
  ASSUME DebugInv, Report!Change
  PROVE  DebugInv'
<1>1. changes' \in 0..MaxChanges /\ changes' # 0
  BY DebugConstants DEF DebugInv, Report!Change
<1>2. chain' \in Report!Chains
  <2>1. chain \in Report!Chains
    BY DEF DebugInv
  <2>2. ASSUME NEW k \in Keys, NEW f \in {"admin", "delegate"}, chain' = [chain EXCEPT ![f] = k]
        PROVE  chain' \in Report!Chains
    BY <2>1, <2>2 DEF Report!Chains
  <2>3. ASSUME NEW k \in Keys, chain' = [chain EXCEPT !.mintAuthority = k]
        PROVE  chain' \in Report!Chains
    BY <2>1, <2>3 DEF Report!Chains
  <2>4. ASSUME NEW e \in Report!Destinations, NEW p \in PeerAddresses, chain' = [chain EXCEPT !.peer[e] = p]
        PROVE  chain' \in Report!Chains
    <3>1. chain.peer \in [Report!Destinations -> PeerAddresses \cup {None}]
      BY <2>1 DEF Report!Chains
    <3>2. [chain.peer EXCEPT ![e] = p] \in [Report!Destinations -> PeerAddresses \cup {None}]
      BY <3>1
    <3>3. chain' = [chain EXCEPT !.peer = [chain.peer EXCEPT ![e] = p]]
      BY <2>4
    <3> QED BY <2>1, <3>2, <3>3 DEF Report!Chains
  <2>5. ASSUME NEW e \in Report!Destinations, NEW c \in Configs, chain' = [chain EXCEPT !.config[e] = c]
        PROVE  chain' \in Report!Chains
    <3>1. chain.config \in [Report!Destinations -> Configs]
      BY <2>1 DEF Report!Chains
    <3>2. [chain.config EXCEPT ![e] = c] \in [Report!Destinations -> Configs]
      BY <3>1
    <3>3. chain' = [chain EXCEPT !.config = [chain.config EXCEPT ![e] = c]]
      BY <2>5
    <3> QED BY <2>1, <3>2, <3>3 DEF Report!Chains
  <2> QED BY <2>2, <2>3, <2>4, <2>5 DEF Report!Change
<1>3. UNCHANGED <<action, fetched, read, todo, report>>
  BY DEF Report!Change
<1> QED
  BY <1>1, <1>2, <1>3 DEF DebugInv

\* Something is fetched of which no line has been printed.
LEMMA DebugFetchKeeps ==
  ASSUME DebugInv, Report!FetchStore \/ Report!FetchMint \/ Report!FetchRegistry \/ Report!FetchPeers
  PROVE  DebugInv'
<1>1. /\ fetched \subseteq fetched' /\ fetched' \subseteq {"store", "mint", "registry", "peers"}
      /\ "peers" \in fetched' => {"store", "mint", "registry"} \subseteq fetched'
      /\ UNCHANGED <<chain, changes, action, todo, report>>
  BY DEF DebugInv, Report!FetchStore, Report!FetchMint, Report!FetchRegistry, Report!FetchPeers,
         Report!Fetched
<1>2. read \in Report!Chains /\ chain \in Report!Chains
  BY DEF DebugInv
<1>3. read' \in Report!Chains /\ (read = chain => read' = chain)
  <2>1. CASE read' = [read EXCEPT !.admin = chain.admin]
    BY <1>2, <2>1 DEF Report!Chains
  <2>2. CASE read' = [read EXCEPT !.mintAuthority = chain.mintAuthority]
    BY <1>2, <2>2 DEF Report!Chains
  <2>3. CASE read' = [read EXCEPT !.delegate = chain.delegate]
    BY <1>2, <2>3 DEF Report!Chains
  <2>4. CASE read' = [read EXCEPT !.peer = chain.peer]
    BY <1>2, <2>4 DEF Report!Chains
  <2> QED
    BY <2>1, <2>2, <2>3, <2>4
    DEF Report!FetchStore, Report!FetchMint, Report!FetchRegistry, Report!FetchPeers
<1>4. ASSUME NEW i \in 1..Len(report) PROVE LineFollows(report[i], read')
  <2>1. /\ LineFollows(report[i], read) /\ {"store", "mint", "registry"} \subseteq fetched
        /\ report[i].what = "peer" => "peers" \in fetched
    BY DEF DebugInv
  <2>2. Report!FetchPeers /\ "peers" \notin fetched
    BY <2>1 DEF Report!FetchStore, Report!FetchMint, Report!FetchRegistry, Report!FetchPeers,
                Report!Fetched
  <2>3. read'.admin = read.admin /\ read'.delegate = read.delegate
        /\ read'.mintAuthority = read.mintAuthority
    BY <1>2, <2>2 DEF Report!FetchPeers, Report!Chains
  <2>4. report[i].what # "peer"
    BY <2>1, <2>2
  <2> QED BY <2>1, <2>3, <2>4 DEF LineFollows
<1> QED
  BY <1>1, <1>3, <1>4 DEF DebugInv

\* What the task prints follows from what it read, and is true of a chain at rest.
LEMMA DebugLinesFollow ==
  ASSUME DebugInv, NEW section \in Report!Actions, section # "peers"
  PROVE  /\ Report!Lines(section) \in Seq(LineRecords)
         /\ \A j \in 1..Len(Report!Lines(section)) :
              /\ LineFollows(Report!Lines(section)[j], read)
              /\ Report!Lines(section)[j].what # "peer"
<1>1. read.admin \in Shown /\ read.delegate \in Shown /\ read.mintAuthority \in Shown /\ program \in Shown
  BY DEF DebugInv, Report!Chains, Shown
<1>2. (read.admin = read.delegate) \in Shown /\ (read.mintAuthority = oftStore) \in Shown
  <2>1. (read.admin = read.delegate) \in BOOLEAN /\ (read.mintAuthority = oftStore) \in BOOLEAN
    OBVIOUS
  <2> QED BY <2>1, Zenon DEF Shown
<1> DEFINE owner == Report!Line("owner", program)
           admin_ == Report!Line("admin", read.admin)
           delegate == Report!Line("delegate", read.delegate)
           mintAuthority == Report!Line("mintAuthority", read.mintAuthority)
           same == Report!Line("sameAsDelegate", read.admin = read.delegate)
           store == Report!Line("mintAuthorityIsStore", read.mintAuthority = oftStore)
           Good(l) == l \in LineRecords /\ LineFollows(l, read) /\ l.what # "peer"
<1>3. Good(owner) /\ Good(admin_) /\ Good(delegate) /\ Good(mintAuthority)
  BY <1>1 DEF LineRecords, Whats, LineFollows, Report!Line
<1>4. Good(same) /\ Good(store)
  <2>1. same \in LineRecords /\ store \in LineRecords
    BY <1>2, Zenon DEF LineRecords, Whats, Report!Line
  <2>2. same.what = "sameAsDelegate" /\ same.value = (read.admin = read.delegate)
    BY Zenon DEF Report!Line
  <2>3. store.what = "mintAuthorityIsStore" /\ store.value = (read.mintAuthority = oftStore)
    BY Zenon DEF Report!Line
  <2> HIDE DEF same, store
  <2>4. LineFollows(same, read) /\ same.what # "peer"
    BY <2>2 DEF LineFollows
  <2>5. LineFollows(store, read) /\ store.what # "peer"
    BY <2>3 DEF LineFollows
  <2> QED BY <2>1, <2>4, <2>5
<1> DEFINE AllGood(s) == s \in Seq(LineRecords)
                           /\ \A j \in 1..Len(s) : LineFollows(s[j], read) /\ s[j].what # "peer"
<1> HIDE DEF owner, admin_, delegate, mintAuthority, same, store
<1>5. AllGood(<<owner, admin_>>) /\ AllGood(<<admin_>>) /\ AllGood(<<delegate>>)
      /\ AllGood(<<mintAuthority>>) /\ AllGood(<<same, store>>)
  BY <1>3, <1>4
<1>6. Report!Lines(section) \in {<<owner, admin_>>, <<admin_>>, <<delegate>>, <<mintAuthority>>, <<same, store>>}
  BY DEF Report!Lines, Report!Actions, Report!Checks, owner, admin_, delegate, mintAuthority, same, store
<1>7. AllGood(Report!Lines(section))
  BY <1>5, <1>6
<1> QED
  BY <1>7

\* Without its head a sequence lacks that, if anything.
LEMMA TailLacks ==
  ASSUME NEW S, NEW s \in Seq(S), s # <<>>, NEW x, x \notin Report!Range(Tail(s)), Head(s) # x
  PROVE  x \notin Report!Range(s)
<1> SUFFICES ASSUME x \in Report!Range(s) PROVE FALSE
  OBVIOUS
<1>1. PICK i \in 1..Len(s) : s[i] = x
  BY DEF Report!Range
<1>2. i # 1
  BY <1>1
<1>3. i - 1 \in DOMAIN Tail(s) /\ Tail(s)[i - 1] = x
  BY <1>1, <1>2
<1> QED
  BY <1>3 DEF Report!Range

LEMMA DebugPrintKeeps ==
  ASSUME DebugInv, Report!PrintSection
  PROVE  DebugInv'
<1> DEFINE lines == Report!Lines(Head(todo))
<1>1. /\ todo # <<>> /\ Head(todo) # "peers" /\ {"store", "mint", "registry"} \subseteq fetched
      /\ report' = report \o lines /\ todo' = Tail(todo)
      /\ UNCHANGED <<chain, changes, action, fetched, read>>
  BY DEF Report!PrintSection, Report!Prints
<1>2. todo \in Seq(Report!Actions) /\ report \in Seq(LineRecords) /\ InOrder(report)
  BY DEF DebugInv
<1>3. Head(todo) \in Report!Actions /\ Tail(todo) \in Seq(Report!Actions)
  BY <1>1, <1>2
<1>4. /\ lines \in Seq(LineRecords)
      /\ \A j \in 1..Len(lines) : LineFollows(lines[j], read) /\ lines[j].what # "peer"
  BY <1>1, <1>3, DebugLinesFollow
<1> HIDE DEF lines
<1>5. InOrder(report') /\ RowCount(report') = RowCount(report) /\ report' \in Seq(LineRecords)
  BY <1>1, <1>2, <1>4, PlainLines
<1>6. ASSUME NEW i \in 1..Len(report')
      PROVE  /\ LineFollows(report'[i], read)
             /\ changes = 0 => ConfigFollows(report'[i], chain)
             /\ report'[i].what = "peer" => "peers" \in fetched
  <2>1. CASE i \in 1..Len(report)
    <3>1. report'[i] = report[i]
      BY <1>1, <1>2, <1>4, <2>1
    <3> QED BY <2>1, <3>1 DEF DebugInv
  <2>2. CASE i \notin 1..Len(report)
    <3>1. i - Len(report) \in 1..Len(lines) /\ report'[i] = lines[i - Len(report)]
      BY <1>1, <1>2, <1>4, <2>2
    <3>2. LineFollows(report'[i], read) /\ report'[i].what # "peer"
      BY <1>4, <3>1
    <3> QED BY <3>2 DEF ConfigFollows
  <2> QED BY <2>1, <2>2
<1>7. "peers" \notin Report!Range(todo') => "peers" \notin Report!Range(todo)
  BY <1>1, <1>2, TailLacks
<1> QED
  BY <1>1, <1>3, <1>5, <1>6, <1>7 DEF DebugInv

LEMMA DebugRowKeeps ==
  ASSUME DebugInv, Report!PrintPeer
  PROVE  DebugInv'
<1> DEFINE e == dstEids[Report!NextPathway]
           value == [eid |-> e, peer |-> read.peer[e],
                     config |-> IF read.peer[e] = None THEN None ELSE chain.config[e]]
           row == Report!Line("peer", value)
<1>1. /\ "peers" \in fetched /\ Report!NextPathway \in DOMAIN dstEids
      /\ report' = report \o <<row>>
      /\ UNCHANGED <<chain, changes, action, fetched, read, todo>>
  BY DEF Report!PrintPeer, Report!Prints
<1>2. /\ report \in Seq(LineRecords) /\ InOrder(report)
      /\ read \in Report!Chains /\ chain \in Report!Chains
  BY DEF DebugInv
<1>3. Report!NextPathway = RowCount(report) + 1
  BY DebugCardinality DEF Report!NextPathway, Report!Rows, RowCount, RowsOf
<1>4. RowCount(report) \in Nat
  BY <1>2, RowsFinite DEF RowCount
<1>5. e \in Report!Destinations /\ RowCount(report) + 1 <= Len(dstEids)
  BY <1>1, <1>3, <1>4, DebugConstants
<1>6. e = dstEids[RowCount(report) + 1]
  BY <1>3
<1> HIDE DEF e
<1>7. read.peer[e] \in PeerAddresses \cup {None} /\ chain.config[e] \in Configs
  BY <1>2, <1>5 DEF Report!Chains
<1>8. value \in Shown /\ value.eid = e /\ value.peer = read.peer[e]
      /\ (value.peer # None => value.config = chain.config[e])
  BY <1>5, <1>7 DEF Shown
<1> HIDE DEF value
<1>9. row \in LineRecords /\ row.what = "peer" /\ row.value = value
  BY <1>8 DEF LineRecords, Whats, Report!Line
<1> HIDE DEF row
<1>10. InOrder(report') /\ RowCount(report') = RowCount(report) + 1 /\ report' \in Seq(LineRecords)
  BY <1>1, <1>2, <1>5, <1>6, <1>8, <1>9, NextRow
<1>11. LineFollows(row, read) /\ (changes = 0 => ConfigFollows(row, chain))
  BY <1>5, <1>8, <1>9 DEF LineFollows, ConfigFollows
<1>12. {"store", "mint", "registry"} \subseteq fetched
  BY <1>1 DEF DebugInv
<1>13. ASSUME NEW i \in 1..Len(report')
       PROVE  /\ LineFollows(report'[i], read)
              /\ changes = 0 => ConfigFollows(report'[i], chain)
  <2>1. CASE i \in 1..Len(report)
    <3>1. report'[i] = report[i]
      BY <1>1, <1>2, <2>1
    <3> QED BY <2>1, <3>1 DEF DebugInv
  <2>2. CASE i \notin 1..Len(report)
    <3>1. report'[i] = row
      BY <1>1, <1>2, <2>2
    <3> QED BY <1>11, <3>1
  <2> QED BY <2>1, <2>2
\* Some endpoint has no row, so that the section is still to be ended.
<1>14. ~("peers" \in Report!Range(Report!Sections(action)) /\ "peers" \notin Report!Range(todo))
  BY <1>4, <1>5, DebugConstants DEF DebugInv
<1> QED
  BY <1>1, <1>10, <1>12, <1>13, <1>14 DEF DebugInv

LEMMA DebugEndKeeps ==
  ASSUME DebugInv, Report!EndPeers \/ Report!End \/ Report!FetchFails
  PROVE  DebugInv'
<1>1. UNCHANGED <<chain, changes, action, fetched, read, report>>
  BY DEF Report!EndPeers, Report!End, Report!FetchFails
<1>2. CASE Report!EndPeers
  <2>1. todo # <<>> /\ todo' = Tail(todo) /\ Report!NextPathway \notin DOMAIN dstEids
    BY <1>2 DEF Report!EndPeers
  <2>2. todo' \in Seq(Report!Actions)
    BY <2>1 DEF DebugInv
  <2>3. RowCount(report) \in Nat /\ RowCount(report) <= Len(dstEids)
    BY RowsFinite DEF RowCount, DebugInv, InOrder
  <2>4. Report!NextPathway = RowCount(report) + 1
    BY DebugCardinality DEF Report!NextPathway, Report!Rows, RowCount, RowsOf
  <2>5. RowCount(report) = Len(dstEids)
    BY <2>1, <2>3, <2>4, DebugConstants
  <2> QED BY <1>1, <2>2, <2>5 DEF DebugInv
<1>3. CASE UNCHANGED todo
  BY <1>1, <1>3 DEF DebugInv
<1> QED
  BY <1>2, <1>3 DEF Report!End, Report!FetchFails

LEMMA DebugKept == DebugInv /\ UNCHANGED debugVars => DebugInv'
BY DEF DebugInv, debugVars

LEMMA DebugSteps == DebugInv /\ Report!Next => DebugInv'
BY DebugChangeKeeps, DebugFetchKeeps, DebugPrintKeeps, DebugRowKeeps, DebugEndKeeps
DEF Report!Next

LEMMA DebugPromises ==
  ASSUME DebugInv
  PROVE  /\ Report!TypeOK /\ Report!QuietReportIsTrue /\ Report!ChecksFollow
         /\ Report!EveryPathwayPrinted
<1>1. ASSUME NEW l \in Report!Range(report)
      PROVE  l \in LineRecords /\ LineFollows(l, read) /\ (changes = 0 => ConfigFollows(l, chain))
  BY DEF DebugInv, Report!Range
<1>2. Report!TypeOK
  <2>1. Report!Range(todo) \subseteq Report!Actions
    BY DEF DebugInv, Report!Range
  <2>2. \A l \in Report!Range(report) : l.what = "peer" => l.value.eid \in Report!Destinations
    BY <1>1 DEF LineFollows
  <2> QED BY <2>1, <2>2 DEF DebugInv, Report!TypeOK
<1>3. Report!QuietReportIsTrue
  <2> SUFFICES ASSUME changes = 0, NEW l \in Report!Range(report)
               PROVE  CASE l.what = "sameAsDelegate" -> l.value = (chain.admin = chain.delegate)
                        [] l.what = "mintAuthorityIsStore" -> l.value = (chain.mintAuthority = oftStore)
                        [] l.what = "peer" ->
                             /\ l.value.peer = chain.peer[l.value.eid]
                             /\ l.value.peer # None => l.value.config = chain.config[l.value.eid]
                        [] l.what \in {"admin", "delegate", "mintAuthority"} -> l.value = chain[l.what]
                        [] OTHER -> TRUE
    BY DEF Report!QuietReportIsTrue
  <2>1. LineFollows(l, chain) /\ ConfigFollows(l, chain) /\ l.what \in Whats
    BY <1>1 DEF DebugInv, LineRecords
  <2>2. CASE l.what = "sameAsDelegate"
    BY <2>1, <2>2 DEF LineFollows
  <2>3. CASE l.what = "mintAuthorityIsStore"
    BY <2>1, <2>3 DEF LineFollows
  <2>4. CASE l.what = "peer"
    BY <2>1, <2>4 DEF LineFollows, ConfigFollows
  <2>5. CASE l.what \in {"admin", "delegate", "mintAuthority"}
    <3>1. l.value = chain[l.what]
      BY <2>1, <2>5 DEF LineFollows
    <3> QED BY <2>5, <3>1
  <2>6. CASE l.what = "owner"
    BY <2>6
  <2> QED BY <2>1, <2>2, <2>3, <2>4, <2>5, <2>6 DEF Whats
<1>4. Report!ChecksFollow
  <2>1. ASSUME NEW what, NEW v, Report!Printed(what, v)
        PROVE  /\ what = "admin" => v = read.admin
               /\ what = "delegate" => v = read.delegate
               /\ what = "mintAuthority" => v = read.mintAuthority
               /\ what = "sameAsDelegate" => v = (read.admin = read.delegate)
               /\ what = "mintAuthorityIsStore" => v = (read.mintAuthority = oftStore)
    <3> DEFINE l == Report!Line(what, v)
    <3>1. l.what = what /\ l.value = v
      BY Zenon DEF Report!Line
    <3>2. LineFollows(l, read)
      BY <1>1, <2>1 DEF Report!Printed
    <3> HIDE DEF l
    <3> QED BY <3>1, <3>2 DEF LineFollows
  <2>2. ASSUME NEW a \in Keys, NEW d \in Keys, NEW b \in BOOLEAN, Report!Printed("admin", a),
               Report!Printed("delegate", d), Report!Printed("sameAsDelegate", b)
        PROVE  b = (a = d)
    <3>1. a = read.admin
      BY <2>1, <2>2
    <3>2. d = read.delegate
      BY <2>1, <2>2
    <3>3. b = (read.admin = read.delegate)
      BY <2>1, <2>2, Zenon
    <3> QED BY <3>1, <3>2, <3>3
  <2>3. ASSUME NEW m \in Keys \cup {oftStore, None}, NEW b \in BOOLEAN,
               Report!Printed("mintAuthority", m), Report!Printed("mintAuthorityIsStore", b)
        PROVE  b = (m = oftStore)
    <3>1. m = read.mintAuthority
      BY <2>1, <2>3
    <3>2. b = (read.mintAuthority = oftStore)
      BY <2>1, <2>3, Zenon
    <3> QED BY <3>1, <3>2
  <2> QED BY <2>2, <2>3 DEF Report!ChecksFollow
<1>5. Report!EveryPathwayPrinted
  <2> SUFFICES ASSUME todo = <<>>, "peers" \in Report!Range(Report!Sections(action)),
                      NEW i \in DOMAIN dstEids
               PROVE  \E k \in Report!Rows(Len(report)) :
                        Report!Cardinality(Report!Rows(k)) = i /\ report[k].value.eid = dstEids[i]
    BY DEF Report!EveryPathwayPrinted
  <2>1. "peers" \notin Report!Range(todo)
    BY DEF Report!Range
  <2>2. i \in 1..RowCount(report)
    BY <2>1, DebugConstants DEF DebugInv
  <2>3. PICK k \in RowsOf(report, Len(report)) :
          Cardinality(RowsOf(report, k)) = i /\ report[k].value.eid = dstEids[i]
    BY <2>2 DEF DebugInv, InOrder
  <2>4. Report!Rows(Len(report)) = RowsOf(report, Len(report)) /\ Report!Rows(k) = RowsOf(report, k)
    BY DEF Report!Rows, RowsOf
  <2> QED BY <2>3, <2>4, DebugCardinality
<1> QED
  BY <1>2, <1>3, <1>4, <1>5

-----------------------------------------------------------------------------
(***************************************************************************)
(* The report of config:get.  Each answer was true of the pathway at some  *)
(* moment of the task, a config of the library that was answered before    *)
(* it, and the entry of a pathway that is printed stays as its answers     *)
(* are, since every other pathway has an entry of its own.                 *)
(***************************************************************************)
Columns == {"custom", "default", "active"}
RequestRecords ==
  [column : Columns, side : Config!Sides, what : {"library"} \cup Config!Kinds]

\* The request for the library whose config is asked for.
LibraryOf(q) == Config!Request(q.column, q.side, "library")

\* The library that a config is asked of, when lib was answered before.
AskedOf(c, lib, p, what) ==
  IF Config!IsSolana(c.from) /\ what = "uln" THEN uln ELSE Config!Or(lib, p.default.library)

\* The answer to request q of a pathway whose settings are o, after the answers s.
Given(s, c, o, q) ==
  IF q.what = "library"
  THEN Config!LibraryRead(c, o[q.side], q.column)
  ELSE Config!ConfigRead(o[q.side], q.column,
                         AskedOf(c, s[LibraryOf(q)], o[q.side], q.what), q.what)

\* The answers s of pathway c were given of the settings in all.
AnswersOf(s, c, all) ==
  /\ DOMAIN s \subseteq RequestRecords
  /\ DOMAIN s \subseteq Config!Range(Config!Requests(c))
  /\ \A q \in DOMAIN s :
       /\ q.what # "library" => LibraryOf(q) \in DOMAIN s
       /\ \E o \in all : s[q] = Given(s, c, o, q)

Found(s, column, side, what) == s[Config!Request(column, side, what)]

FoundEntry(s) ==
  [defaultSendLibrary    |-> Found(s, "active", "send", "library"),
   defaultReceiveLibrary |-> Found(s, "active", "receive", "library"),
   sendUlnConfig         |-> Found(s, "active", "send", "uln"),
   sendExecutorConfig    |-> Found(s, "active", "send", "executor"),
   receiveUlnConfig      |-> Found(s, "active", "receive", "uln")]

AllAnswered(s, c) == DOMAIN s = Config!Range(Config!Requests(c))

\* Result r has the entry of pathway c.
Returned(r, s, c) ==
  /\ networkName[c.from] \in DOMAIN r
  /\ networkName[c.to] \in DOMAIN r[networkName[c.from]]
  /\ r[networkName[c.from]][networkName[c.to]] = FoundEntry(s)

ConfigInv ==
  /\ pathway \in [Config!Connections -> Config!Settings]
  /\ seen \in [Config!Connections -> SUBSET Config!Settings]
  /\ DOMAIN answers = Config!Connections
  /\ answers = [c \in Config!Connections |-> answers[c]]
  /\ reconfigured \in 0..MaxReconfigurations
  /\ stage \in {"evm", "solana", "returned", "failed"}
  /\ printed \subseteq Config!Connections
  /\ \A c \in Config!Connections :
       /\ pathway[c] \in seen[c] /\ IsFiniteSet(seen[c])
       /\ AnswersOf(answers[c], c, seen[c])
  /\ \A c \in printed : AllAnswered(answers[c], c) /\ Returned(configs, answers[c], c)
  /\ \A local \in DOMAIN configs : \A remote \in DOMAIN configs[local] :
       configs[local][remote] \in Config!Rows
  /\ stage = "solana" => Config!Group("evm") \subseteq printed
  /\ stage = "returned" => Config!Connections \subseteq printed

LEMMA ConfigConstants ==
  /\ uln \in Libraries
  /\ None \notin Libraries /\ None \notin Configs
  /\ MaxReconfigurations \in Nat
  /\ \A c, d \in Config!Connections :
       networkName[c.from] = networkName[d.from] /\ networkName[c.to] = networkName[d.to] => c = d
  /\ earlierSettings \subseteq Config!Settings
<1>1. Config!ConfigGetAssumption
  BY TasksAssumption
<1>2. \A c, d \in Config!Connections :
        networkName[c.from] = networkName[d.from] /\ networkName[c.to] = networkName[d.to] => c = d
  BY <1>1 DEF Config!ConfigGetAssumption, Config!Connections
<1> QED
  BY <1>1, <1>2 DEF Config!ConfigGetAssumption

\* A library is asked for before its configs.
LEMMA RequestsInOrder ==
  ASSUME NEW c, NEW i \in DOMAIN Config!Requests(c)
  PROVE  /\ i \in Nat
         /\ Config!Requests(c)[i] \in RequestRecords
         /\ Config!Requests(c)[i].what # "library" =>
              \E j \in 1 .. (i - 1) :
                j \in DOMAIN Config!Requests(c)
                  /\ Config!Requests(c)[j] = LibraryOf(Config!Requests(c)[i])
<1>1. CASE Config!IsSolana(c.from)
  <2>1. Config!Requests(c) = Config!SolanaRequests /\ i \in 1..5
    BY <1>1 DEF Config!Requests, Config!SolanaRequests
  <2>2. CASE i \in {1, 3}
    BY <2>1, <2>2 DEF Config!SolanaRequests, Config!Request, RequestRecords, Columns,
       Config!Sides, Config!Kinds
  <2>3. CASE i = 2
    <3>1. 1 \in 1 .. (i - 1)
      BY <2>3
    <3> QED BY <2>1, <2>3, <3>1 DEF Config!SolanaRequests, Config!Request, RequestRecords, Columns,
       Config!Sides, Config!Kinds, LibraryOf
  <2>4. CASE i \in {4, 5}
    <3>1. 3 \in 1 .. (i - 1)
      BY <2>4
    <3> QED BY <2>1, <2>4, <3>1 DEF Config!SolanaRequests, Config!Request, RequestRecords, Columns,
       Config!Sides, Config!Kinds, LibraryOf
  <2> QED BY <2>1, <2>2, <2>3, <2>4
<1>2. CASE ~Config!IsSolana(c.from)
  <2>1. Config!Requests(c) = Config!EvmRequests /\ i \in 1..15
    BY <1>2 DEF Config!Requests, Config!EvmRequests
  <2>2. CASE i \in {1, 3, 6, 8, 11, 13}
    BY <2>1, <2>2 DEF Config!EvmRequests, Config!Request, RequestRecords, Columns,
       Config!Sides, Config!Kinds
  <2>3. ASSUME NEW j \in {1, 6, 11}, i = j + 1
        PROVE  /\ Config!EvmRequests[i] \in RequestRecords
               /\ Config!EvmRequests[j] = LibraryOf(Config!EvmRequests[i])
               /\ j \in 1 .. (i - 1) /\ j \in 1..15
    BY <2>3 DEF Config!EvmRequests, Config!Request, RequestRecords, Columns,
       Config!Sides, Config!Kinds, LibraryOf
  <2>4. ASSUME NEW j \in {3, 8, 13}, i \in {j + 1, j + 2}
        PROVE  /\ Config!EvmRequests[i] \in RequestRecords
               /\ Config!EvmRequests[j] = LibraryOf(Config!EvmRequests[i])
               /\ j \in 1 .. (i - 1) /\ j \in 1..15
    BY <2>4 DEF Config!EvmRequests, Config!Request, RequestRecords, Columns,
       Config!Sides, Config!Kinds, LibraryOf
  <2>5. DOMAIN Config!EvmRequests = 1..15
    BY DEF Config!EvmRequests
  <2>6. CASE i \in {2, 7, 12}
    <3>1. PICK j \in {1, 6, 11} : i = j + 1
      BY <2>6
    <3> QED BY <2>1, <2>3, <2>5, <3>1
  <2>7. CASE i \in {4, 5, 9, 10, 14, 15}
    <3>1. PICK j \in {3, 8, 13} : i \in {j + 1, j + 2}
      BY <2>7
    <3> QED BY <2>1, <2>4, <2>5, <3>1
  <2> QED BY <2>1, <2>2, <2>6, <2>7
<1> QED
  BY <1>1, <1>2

KindsOf(side) == IF side = "send" THEN Config!Kinds ELSE {"uln"}

\* What a row and the table are made of is asked for.
LEMMA RequestsThere ==
  ASSUME NEW c, NEW column \in Columns, NEW side \in Config!Sides,
         NEW what \in {"library"} \cup KindsOf(side),
         column = "active" \/ ~Config!IsSolana(c.from)
  PROVE  Config!Request(column, side, what) \in Config!Range(Config!Requests(c))
<1>1. CASE Config!IsSolana(c.from)
  <2>1. \E i \in 1..5 : Config!SolanaRequests[i] = Config!Request(column, side, what)
    BY <1>1 DEF Config!SolanaRequests, Config!Sides, KindsOf, Config!Kinds
  <2>2. DOMAIN Config!SolanaRequests = 1..5
    BY DEF Config!SolanaRequests
  <2> QED BY <1>1, <2>1, <2>2 DEF Config!Requests, Config!Range
<1>2. CASE ~Config!IsSolana(c.from)
  <2>1. \E i \in 1..15 : Config!EvmRequests[i] = Config!Request(column, side, what)
    BY DEF Config!EvmRequests, Config!Sides, KindsOf, Config!Kinds, Columns
  <2>2. DOMAIN Config!EvmRequests = 1..15
    BY DEF Config!EvmRequests
  <2> QED BY <1>2, <2>1, <2>2 DEF Config!Requests, Config!Range
<1> QED
  BY <1>1, <1>2

\* Complete answers hold the libraries and configs that the settings gave.
LEMMA FoundLibrary ==
  ASSUME NEW c, NEW s, NEW all, AnswersOf(s, c, all), AllAnswered(s, c),
         NEW column \in Columns, NEW side \in Config!Sides,
         column = "active" \/ ~Config!IsSolana(c.from)
  PROVE  \E o \in all :
           Found(s, column, side, "library") = Config!LibraryRead(c, o[side], column)
<1> DEFINE q == Config!Request(column, side, "library")
<1>1. q \in DOMAIN s
  BY RequestsThere DEF AllAnswered
<1>2. q.column = column /\ q.side = side /\ q.what = "library"
  BY DEF Config!Request
<1> HIDE DEF q
<1>3. PICK o \in all : s[q] = Given(s, c, o, q)
  BY <1>1 DEF AnswersOf
<1>4. s[q] = Found(s, column, side, "library")
  BY DEF Found, q
<1> QED
  BY <1>2, <1>3, <1>4 DEF Given

LEMMA FoundConfig ==
  ASSUME NEW c, NEW s, NEW all, AnswersOf(s, c, all), AllAnswered(s, c),
         NEW column \in Columns, NEW side \in Config!Sides, NEW what \in KindsOf(side),
         column = "active" \/ ~Config!IsSolana(c.from)
  PROVE  \E o \in all :
           Found(s, column, side, what) =
             Config!ConfigRead(o[side], column,
               AskedOf(c, Found(s, column, side, "library"), o[side], what), what)
<1> DEFINE q == Config!Request(column, side, what)
<1>1. q \in DOMAIN s
  BY RequestsThere DEF AllAnswered
<1>2. q.column = column /\ q.side = side /\ q.what = what /\ what # "library"
      /\ LibraryOf(q) = Config!Request(column, side, "library")
  BY DEF Config!Request, LibraryOf, KindsOf, Config!Kinds
<1> HIDE DEF q
<1>3. PICK o \in all : s[q] = Given(s, c, o, q)
  BY <1>1 DEF AnswersOf
<1>4. s[q] = Found(s, column, side, what)
  BY DEF Found, q
<1> QED
  BY <1>2, <1>3, <1>4 DEF Given, Found

LEMMA SettingTyped ==
  ASSUME NEW o \in Config!Settings, NEW side \in Config!Sides
  PROVE  /\ o[side].own \in Config!Own /\ o[side].default \in Config!Defaults
         /\ o[side].own.library \in Libraries \cup {None}
         /\ o[side].default.library \in Libraries
         /\ \A l \in Libraries, k \in Config!Kinds :
              /\ o[side].own.config[l][k] \in Configs \cup {None}
              /\ o[side].default.config[l][k] \in Configs
<1>1. o[side].own \in Config!Own /\ o[side].default \in Config!Defaults
  BY DEF Config!Settings
<1>2. /\ o[side].own.library \in Libraries \cup {None}
      /\ o[side].own.config \in [Libraries -> [Config!Kinds -> Configs \cup {None}]]
  BY <1>1 DEF Config!Own
<1>3. /\ o[side].default.library \in Libraries
      /\ o[side].default.config \in [Libraries -> [Config!Kinds -> Configs]]
  BY <1>1 DEF Config!Defaults
<1> QED
  BY <1>1, <1>2, <1>3

LEMMA ActiveTyped ==
  ASSUME NEW c, NEW o \in Config!Settings, NEW side \in Config!Sides
  PROVE  /\ Config!LibraryRead(c, o[side], "active") \in Libraries
         /\ \A l \in Libraries \cup {None}, what \in Config!Kinds :
              /\ AskedOf(c, l, o[side], what) \in Libraries
              /\ Config!ConfigRead(o[side], "active", AskedOf(c, l, o[side], what), what) \in Configs
<1>1. Config!LibraryRead(c, o[side], "active") \in Libraries
  BY SettingTyped, ConfigConstants DEF Config!LibraryRead, Config!LibraryInUse, Config!Or
<1>2. \A l \in Libraries \cup {None}, what \in Config!Kinds : AskedOf(c, l, o[side], what) \in Libraries
  BY SettingTyped, ConfigConstants DEF AskedOf, Config!Or
<1>3. \A l \in Libraries, what \in Config!Kinds :
        Config!ConfigRead(o[side], "active", l, what) \in Configs
  <2> SUFFICES ASSUME NEW l \in Libraries, NEW what \in Config!Kinds
               PROVE  Config!ConfigRead(o[side], "active", l, what) \in Configs
    OBVIOUS
  <2>1. Config!ConfigRead(o[side], "active", l, what)
          = Config!Or(o[side].own.config[l][what], o[side].default.config[l][what])
    BY DEF Config!ConfigRead, Config!ConfigInUse
  <2> QED BY <2>1, SettingTyped DEF Config!Or
<1> QED
  BY <1>1, <1>2, <1>3

LEMMA EntryTyped ==
  ASSUME NEW c, NEW s, NEW all \in SUBSET Config!Settings, AnswersOf(s, c, all), AllAnswered(s, c)
  PROVE  FoundEntry(s) \in Config!Rows
<1>0. "active" \in Columns /\ \A side \in Config!Sides : KindsOf(side) \subseteq Config!Kinds
  BY DEF Columns, KindsOf, Config!Kinds
<1>1. ASSUME NEW side \in Config!Sides
      PROVE  Found(s, "active", side, "library") \in Libraries
  <2>1. PICK o \in all :
          Found(s, "active", side, "library") = Config!LibraryRead(c, o[side], "active")
    BY <1>0, FoundLibrary
  <2> QED BY <2>1, ActiveTyped
<1>2. ASSUME NEW side \in Config!Sides, NEW what \in KindsOf(side)
      PROVE  Found(s, "active", side, what) \in Configs
  <2>2. PICK o \in all :
          Found(s, "active", side, what) =
            Config!ConfigRead(o[side], "active",
              AskedOf(c, Found(s, "active", side, "library"), o[side], what), what)
    BY <1>0, FoundConfig
  <2>3. Found(s, "active", side, "library") \in Libraries
    BY <1>1
  <2> QED BY <1>0, <2>2, <2>3, ActiveTyped
<1>3. "send" \in Config!Sides /\ "receive" \in Config!Sides
      /\ KindsOf("send") = {"uln", "executor"} /\ KindsOf("receive") = {"uln"}
  BY DEF Config!Sides, KindsOf, Config!Kinds
<1>4. /\ Found(s, "active", "send", "library") \in Libraries
      /\ Found(s, "active", "receive", "library") \in Libraries
      /\ Found(s, "active", "send", "uln") \in Configs
      /\ Found(s, "active", "send", "executor") \in Configs
      /\ Found(s, "active", "receive", "uln") \in Configs
  BY <1>1, <1>2, <1>3
<1> QED
  BY <1>4 DEF FoundEntry, Config!Rows

LEMMA ConfigStarts == Config!Init => ConfigInv
<1> SUFFICES ASSUME Config!Init PROVE ConfigInv
  OBVIOUS
<1>1. pathway \in [Config!Connections -> Config!Settings]
  BY ConfigConstants DEF Config!Init
<1>2. seen = [c \in Config!Connections |-> {pathway[c]}]
      /\ seen \in [Config!Connections -> SUBSET Config!Settings]
  BY <1>1 DEF Config!Init
<1>3. answers = [c \in Config!Connections |-> <<>>]
  BY DEF Config!Init
<1>4. ASSUME NEW c \in Config!Connections
      PROVE  pathway[c] \in seen[c] /\ IsFiniteSet(seen[c]) /\ AnswersOf(answers[c], c, seen[c])
  <2>1. seen[c] = {pathway[c]} /\ DOMAIN answers[c] = {}
    BY <1>2, <1>3
  <2>2. IsFiniteSet(seen[c])
    BY <2>1, FS_Singleton
  <2>3. AnswersOf(answers[c], c, seen[c])
    BY <2>1 DEF AnswersOf
  <2> QED BY <2>1, <2>2, <2>3
<1>5. DOMAIN configs = {} /\ printed = {} /\ stage = "evm" /\ reconfigured = 0
  BY DEF Config!Init
<1> QED
  BY <1>1, <1>2, <1>3, <1>4, <1>5, ConfigConstants DEF ConfigInv

\* A reconfiguration is of one side of a pathway and leaves settings.
LEMMA SettingsKept ==
  ASSUME NEW o \in Config!Settings, NEW side \in Config!Sides, NEW who \in {"own", "default"},
         NEW set, set \in (IF who = "own" THEN Config!Own ELSE Config!Defaults)
  PROVE  [o EXCEPT ![side][who] = set] \in Config!Settings
<1> DEFINE p == [o[side] EXCEPT ![who] = set]
<1>1. o[side] \in [own : Config!Own, default : Config!Defaults]
  BY DEF Config!Settings
<1>2. p \in [own : Config!Own, default : Config!Defaults]
  <2>1. CASE who = "own"
    BY <1>1, <2>1
  <2>2. CASE who = "default"
    BY <1>1, <2>2
  <2> QED BY <2>1, <2>2
<1>3. [o EXCEPT ![side][who] = set] = [o EXCEPT ![side] = p]
  BY DEF Config!Settings
<1> HIDE DEF p
<1> QED
  BY <1>2, <1>3 DEF Config!Settings

\* A reconfiguration adds to the settings that the task may have seen.
LEMMA ConfigChangeKeeps ==
  ASSUME ConfigInv, NEW c \in Config!Connections, NEW side \in Config!Sides,
         NEW who \in {"own", "default"},
         Config!SetLibrary(c, side, who) \/ Config!SetConfig(c, side, who)
  PROVE  ConfigInv'
<1> DEFINE set == pathway[c][side][who]
           Typed == IF who = "own" THEN Config!Own ELSE Config!Defaults
           V(S) == IF who = "own" THEN S \cup {None} ELSE S
<1>1. pathway[c] \in Config!Settings
  BY DEF ConfigInv
<1>2. /\ set \in [library : V(Libraries), config : [Libraries -> [Config!Kinds -> V(Configs)]]]
      /\ Typed = [library : V(Libraries), config : [Libraries -> [Config!Kinds -> V(Configs)]]]
  <2>1. CASE who = "own"
    BY <1>1, <2>1, SettingTyped DEF Config!Own
  <2>2. CASE who = "default"
    BY <1>1, <2>2, SettingTyped DEF Config!Defaults
  <2> QED BY <2>1, <2>2
<1>3. \A S : Config!SetTo(who, S) = V(S)
  BY DEF Config!SetTo
<1> HIDE DEF set, Typed, V
<1>4. PICK new \in Typed : Config!Reconfigure(c, side, who, new)
  <2>1. ASSUME NEW l \in V(Libraries)
        PROVE  [set EXCEPT !.library = l] \in Typed
    BY <1>2
  <2>2. ASSUME NEW l \in Libraries, NEW k \in Config!Kinds, NEW v \in V(Configs)
        PROVE  [set EXCEPT !.config[l][k] = v] \in Typed
    <3> DEFINE f == [set.config EXCEPT ![l][k] = v]
    <3>1. set.config \in [Libraries -> [Config!Kinds -> V(Configs)]]
      BY <1>2
    <3>2. [set.config[l] EXCEPT ![k] = v] \in [Config!Kinds -> V(Configs)]
      BY <3>1
    <3>3. f \in [Libraries -> [Config!Kinds -> V(Configs)]]
      BY <3>1, <3>2
    <3>4. [set EXCEPT !.config[l][k] = v] = [set EXCEPT !.config = f]
      BY <1>2
    <3> HIDE DEF f
    <3> QED BY <1>2, <3>3, <3>4
  <2>3. CASE Config!SetLibrary(c, side, who)
    BY <1>3, <2>1, <2>3 DEF Config!SetLibrary, set
  <2>4. CASE Config!SetConfig(c, side, who)
    <3>1. PICK l \in Libraries, k \in Config!Kinds, v \in V(Configs) :
            Config!Reconfigure(c, side, who, [set EXCEPT !.config[l][k] = v])
      BY <1>3, <2>4 DEF Config!SetConfig, set, Config!Kinds
    <3> QED BY <2>2, <3>1
  <2> QED BY <2>3, <2>4
<1>5. /\ reconfigured' \in 0..MaxReconfigurations
      /\ pathway' = [pathway EXCEPT ![c][side][who] = new]
      /\ seen' = [seen EXCEPT ![c] = seen[c] \cup {pathway'[c]}]
      /\ UNCHANGED <<parallel, stage, answers, printed, configs>>
  BY <1>4, ConfigConstants DEF ConfigInv, Config!Reconfigure
<1>6. pathway' \in [Config!Connections -> Config!Settings]
      /\ \A d \in Config!Connections : d # c => pathway'[d] = pathway[d]
  <2> DEFINE o == [pathway[c] EXCEPT ![side][who] = new]
  <2>1. o \in Config!Settings
    BY <1>1, SettingsKept DEF Typed
  <2>2. pathway' = [pathway EXCEPT ![c] = o]
    BY <1>5
  <2> HIDE DEF o
  <2> QED BY <2>1, <2>2 DEF ConfigInv
<1>7. seen' \in [Config!Connections -> SUBSET Config!Settings]
  <2>1. seen[c] \cup {pathway'[c]} \in SUBSET Config!Settings
    BY <1>6 DEF ConfigInv
  <2>2. seen' = [seen EXCEPT ![c] = seen[c] \cup {pathway'[c]}]
    BY <1>5
  <2> QED BY <2>1, <2>2 DEF ConfigInv
<1>8. ASSUME NEW d \in Config!Connections
      PROVE  pathway'[d] \in seen'[d] /\ IsFiniteSet(seen'[d]) /\ AnswersOf(answers[d], d, seen'[d])
  <2>1. pathway[d] \in seen[d] /\ IsFiniteSet(seen[d]) /\ AnswersOf(answers[d], d, seen[d])
    BY DEF ConfigInv
  <2>2. CASE d = c
    <3>1. seen'[d] = seen[d] \cup {pathway'[d]}
      BY <1>5, <2>2 DEF ConfigInv
    <3>2. IsFiniteSet(seen'[d])
      BY <2>1, <3>1, FS_AddElement
    <3> QED BY <2>1, <3>1, <3>2 DEF AnswersOf
  <2>3. CASE d # c
    <3>1. seen'[d] = seen[d] /\ pathway'[d] = pathway[d]
      BY <1>5, <1>6, <2>3 DEF ConfigInv
    <3> QED BY <2>1, <3>1
  <2> QED BY <2>2, <2>3
<1> QED
  BY <1>5, <1>6, <1>7, <1>8 DEF ConfigInv

\* An answer joins those there are and is given of the library among them.
LEMMA AnswerJoins ==
  ASSUME NEW s, NEW c, NEW all, AnswersOf(s, c, all), NEW o \in all,
         NEW q \in RequestRecords, q \in Config!Range(Config!Requests(c)), q \notin DOMAIN s,
         q.what # "library" => LibraryOf(q) \in DOMAIN s
  PROVE  AnswersOf(Config!Updated(s, q, Given(s, c, o, q)), c, all)
<1> DEFINE g == Given(s, c, o, q)
           t == Config!Updated(s, q, g)
<1>1. DOMAIN t = DOMAIN s \cup {q} /\ t[q] = g /\ \A r \in DOMAIN s : t[r] = s[r]
  <2> HIDE DEF g
  <2>1. t = [k \in DOMAIN s \cup {q} |-> IF k = q THEN g ELSE s[k]]
    BY DEF Config!Updated
  <2> HIDE DEF t
  <2> QED BY <2>1
<1> HIDE DEF t
<1>2. ASSUME NEW r \in DOMAIN s \cup {q}, NEW p,
             r.what # "library" => LibraryOf(r) \in DOMAIN s
      PROVE  Given(t, c, p, r) = Given(s, c, p, r)
  BY <1>1, <1>2 DEF Given
<1>3. ASSUME NEW r \in DOMAIN t
      PROVE  /\ r.what # "library" => LibraryOf(r) \in DOMAIN t
             /\ \E p \in all : t[r] = Given(t, c, p, r)
  <2>1. CASE r = q
    <3>1. t[r] = Given(t, c, o, r)
      BY <1>1, <1>2, <2>1 DEF g
    <3> QED BY <1>1, <2>1, <3>1
  <2>2. CASE r # q
    <3>1. r \in DOMAIN s
      BY <1>1, <2>2
    <3>2. r.what # "library" => LibraryOf(r) \in DOMAIN s
      BY <3>1 DEF AnswersOf
    <3>3. PICK p \in all : s[r] = Given(s, c, p, r)
      BY <3>1 DEF AnswersOf
    <3>4. t[r] = Given(t, c, p, r)
      BY <1>1, <1>2, <3>1, <3>2, <3>3
    <3> QED BY <1>1, <3>2, <3>4
  <2> QED BY <2>1, <2>2
<1>4. DOMAIN t \subseteq RequestRecords /\ DOMAIN t \subseteq Config!Range(Config!Requests(c))
  BY <1>1 DEF AnswersOf
<1>5. AnswersOf(t, c, all)
  BY <1>3, <1>4 DEF AnswersOf
<1> QED
  BY <1>5 DEF t

LEMMA ConfigAskKeeps ==
  ASSUME ConfigInv, NEW c \in Config!Connections, Config!Ask(c)
  PROVE  ConfigInv'
<1>1. PICK i \in DOMAIN Config!Requests(c) :
        /\ Config!IsNext(c, i)
        /\ answers' = [answers EXCEPT ![c] =
             Config!Updated(answers[c], Config!Requests(c)[i], Config!Answer(c, Config!Requests(c)[i]))]
  BY DEF Config!Ask
<1>2. c \notin printed
      /\ UNCHANGED <<pathway, reconfigured, seen, parallel, stage, printed, configs>>
  BY DEF Config!Ask, Config!Turn, Config!chain
<1> DEFINE q == Config!Requests(c)[i]
           s == Config!Updated(answers[c], q, Config!Answer(c, q))
<1>3. AnswersOf(answers[c], c, seen[c]) /\ pathway[c] \in seen[c]
  BY DEF ConfigInv
<1>4. /\ q \in RequestRecords /\ q \in Config!Range(Config!Requests(c)) /\ q \notin DOMAIN answers[c]
      /\ q.what # "library" => LibraryOf(q) \in DOMAIN answers[c]
  <2>1. q \in RequestRecords /\ q \in Config!Range(Config!Requests(c)) /\ q \notin DOMAIN answers[c]
    BY <1>1, RequestsInOrder DEF Config!IsNext, Config!Range
  <2>2. q.what # "library" => LibraryOf(q) \in DOMAIN answers[c]
    <3> SUFFICES ASSUME q.what # "library" PROVE LibraryOf(q) \in DOMAIN answers[c]
      OBVIOUS
    <3>1. PICK j \in 1 .. (i - 1) : Config!Requests(c)[j] = LibraryOf(q)
      BY RequestsInOrder
    <3> QED BY <1>1, <3>1 DEF Config!IsNext
  <2> QED BY <2>1, <2>2
<1>5. Config!Answer(c, q) = Given(answers[c], c, pathway[c], q)
  <2> HIDE DEF q
  <2>1. Config!Asked(c, pathway[c][q.side], q)
          = AskedOf(c, answers[c][LibraryOf(q)], pathway[c][q.side], q.what)
    BY DEF Config!Asked, AskedOf, Config!Cell, LibraryOf
  <2> QED BY <2>1 DEF Config!Answer, Given
<1> HIDE DEF q
<1>6. AnswersOf(s, c, seen[c])
  BY <1>3, <1>4, <1>5, AnswerJoins
<1>7. answers' = [answers EXCEPT ![c] = s]
  BY <1>1 DEF q
<1> HIDE DEF s
<1>8. DOMAIN answers' = Config!Connections
      /\ answers' = [d \in Config!Connections |-> answers'[d]]
      /\ answers'[c] = s /\ \A d \in Config!Connections : d # c => answers'[d] = answers[d]
  BY <1>7 DEF ConfigInv
<1>9. ASSUME NEW d \in Config!Connections PROVE AnswersOf(answers'[d], d, seen[d])
  BY <1>6, <1>8 DEF ConfigInv
<1>10. ASSUME NEW d \in printed PROVE answers'[d] = answers[d]
  BY <1>2, <1>8 DEF ConfigInv
<1> QED
  BY <1>2, <1>8, <1>9, <1>10 DEF ConfigInv

\* The entry of another pathway is left as it is, since its names are others.
LEMMA ConfigReportKeeps ==
  ASSUME ConfigInv, NEW c \in Config!Connections, Config!Report(c)
  PROVE  ConfigInv'
<1> DEFINE local == networkName[c.from]
           remote == networkName[c.to]
           others_ == IF local \in DOMAIN configs THEN configs[local] ELSE <<>>
           inner == Config!Updated(others_, remote, Config!Entry(c))
<1>1. /\ AllAnswered(answers[c], c)
      /\ configs' = Config!Updated(configs, local, inner)
      /\ printed' = printed \cup {c}
      /\ UNCHANGED <<pathway, reconfigured, seen, parallel, stage, answers>>
  BY DEF Config!Report, Config!Complete, Config!Merged, Config!chain, AllAnswered
<1>2. Config!Entry(c) = FoundEntry(answers[c])
  BY DEF Config!Entry, Config!Cell, FoundEntry, Found
<1>3. AnswersOf(answers[c], c, seen[c]) /\ seen[c] \in SUBSET Config!Settings
  BY DEF ConfigInv
<1>4. Config!Entry(c) \in Config!Rows
  BY <1>1, <1>2, <1>3, EntryTyped
<1>5. /\ DOMAIN inner = DOMAIN others_ \cup {remote}
      /\ inner[remote] = Config!Entry(c)
      /\ \A r \in DOMAIN others_ : r # remote => inner[r] = others_[r]
  <2> DEFINE entry == Config!Entry(c)
  <2> HIDE DEF others_, remote, entry
  <2>1. inner = [k \in DOMAIN others_ \cup {remote} |-> IF k = remote THEN entry ELSE others_[k]]
    BY DEF Config!Updated, inner, entry
  <2> HIDE DEF inner
  <2>2. DOMAIN inner = DOMAIN others_ \cup {remote} /\ inner[remote] = entry
        /\ \A r \in DOMAIN others_ : r # remote => inner[r] = others_[r]
    BY <2>1
  <2> QED BY <2>2 DEF entry
<1> HIDE DEF inner
<1>6. /\ DOMAIN configs' = DOMAIN configs \cup {local}
      /\ configs'[local] = inner
      /\ \A l \in DOMAIN configs : l # local => configs'[l] = configs[l]
  <2> HIDE DEF local
  <2>1. configs' = [k \in DOMAIN configs \cup {local} |-> IF k = local THEN inner ELSE configs[k]]
    BY <1>1 DEF Config!Updated
  <2> QED BY <2>1
<1>7. /\ local \in DOMAIN configs => others_ = configs[local]
      /\ local \notin DOMAIN configs => DOMAIN others_ = {}
  OBVIOUS
<1> HIDE DEF others_
<1>8. Returned(configs', answers[c], c)
  BY <1>2, <1>5, <1>6 DEF Returned
<1>9. ASSUME NEW d \in printed, d # c
      PROVE  Returned(configs', answers[d], d)
  <2> DEFINE l == networkName[d.from]
             r == networkName[d.to]
  <2>1. d \in Config!Connections /\ l \in DOMAIN configs /\ r \in DOMAIN configs[l]
        /\ configs[l][r] = FoundEntry(answers[d])
    BY DEF ConfigInv, Returned
  <2>2. ~(l = local /\ r = remote)
    BY <1>9, <2>1, ConfigConstants
  <2>3. CASE l = local
    <3>1. r \in DOMAIN inner /\ inner[r] = configs[l][r]
      BY <1>5, <1>7, <2>1, <2>2, <2>3
    <3> QED BY <1>6, <2>1, <2>3, <3>1 DEF Returned
  <2>4. CASE l # local
    <3>1. l \in DOMAIN configs' /\ configs'[l] = configs[l]
      BY <1>6, <2>1, <2>4
    <3> QED BY <2>1, <3>1 DEF Returned
  <2> QED BY <2>3, <2>4
<1>10. ASSUME NEW l \in DOMAIN configs', NEW r \in DOMAIN configs'[l]
       PROVE  configs'[l][r] \in Config!Rows
  <2>1. CASE l = local
    <3>1. CASE r = remote
      BY <1>4, <1>5, <1>6, <2>1, <3>1
    <3>2. CASE r # remote
      <4>1. r \in DOMAIN others_ /\ configs'[l][r] = others_[r]
        BY <1>5, <1>6, <2>1, <3>2
      <4>2. local \in DOMAIN configs /\ others_ = configs[local]
        BY <1>7, <4>1
      <4> QED BY <4>1, <4>2 DEF ConfigInv
    <3> QED BY <3>1, <3>2
  <2>2. CASE l # local
    <3>1. l \in DOMAIN configs /\ configs'[l] = configs[l]
      BY <1>6, <2>2
    <3> QED BY <3>1 DEF ConfigInv
  <2> QED BY <2>1, <2>2
<1>11. \A d \in printed' : Returned(configs', answers[d], d)
                             /\ AllAnswered(answers[d], d)
  BY <1>1, <1>8, <1>9 DEF ConfigInv
<1>12. printed' \subseteq Config!Connections
  BY <1>1 DEF ConfigInv
<1>13. /\ stage' = "solana" => Config!Group("evm") \subseteq printed'
       /\ stage' = "returned" => Config!Connections \subseteq printed'
  BY <1>1 DEF ConfigInv
<1> QED
  BY <1>1, <1>10, <1>11, <1>12, <1>13 DEF ConfigInv

LEMMA ConfigEndKeeps ==
  ASSUME ConfigInv, Config!Proceed \/ \E c \in Config!Connections : Config!Reject(c)
  PROVE  ConfigInv'
<1>1. UNCHANGED <<pathway, reconfigured, seen, parallel, answers, printed, configs>>
  BY DEF Config!Proceed, Config!Reject, Config!chain
<1>2. CASE Config!Proceed
  <2>1. /\ stage \in {"evm", "solana"} /\ Config!Group(stage) \subseteq printed
        /\ stage' = (IF stage = "evm" THEN "solana" ELSE "returned")
    BY <1>2 DEF Config!Proceed
  <2>2. CASE stage = "evm"
    BY <1>1, <2>1, <2>2 DEF ConfigInv
  <2>3. CASE stage = "solana"
    <3>1. Config!Group("evm") \subseteq printed /\ Config!Group("solana") \subseteq printed
      BY <2>1, <2>3 DEF ConfigInv
    <3>2. Config!Connections \subseteq printed
      BY <3>1 DEF Config!Group, Config!Phase
    <3> QED BY <1>1, <2>1, <2>3, <3>2 DEF ConfigInv
  <2> QED BY <2>1, <2>2, <2>3
<1>3. CASE stage' = "failed"
  BY <1>1, <1>3 DEF ConfigInv
<1> QED
  BY <1>2, <1>3 DEF Config!Reject

LEMMA ConfigKept == ConfigInv /\ UNCHANGED configVars => ConfigInv'
BY DEF ConfigInv, configVars

LEMMA ConfigSteps == ConfigInv /\ Config!Next => ConfigInv'
BY ConfigChangeKeeps, ConfigAskKeeps, ConfigReportKeeps, ConfigEndKeeps DEF Config!Next

\* A printed pathway has its entry, made of its answers.
LEMMA PrintedAnswers ==
  ASSUME ConfigInv, NEW c \in printed
  PROVE  /\ c \in Config!Connections /\ seen[c] \in SUBSET Config!Settings /\ IsFiniteSet(seen[c])
         /\ AnswersOf(answers[c], c, seen[c]) /\ AllAnswered(answers[c], c)
         /\ configs[networkName[c.from]][networkName[c.to]] = FoundEntry(answers[c])
BY DEF ConfigInv, Returned

\* A row that is made of the answers was in force, each config for its library.
LEMMA RowInForce ==
  ASSUME NEW c, NEW s, NEW all \in SUBSET Config!Settings, AnswersOf(s, c, all), AllAnswered(s, c),
         NEW side \in Config!Sides
  PROVE  LET library == Found(s, "active", side, "library")
             of == IF Config!IsSolana(c.from) THEN uln ELSE library
         IN  /\ \E o \in all : library = Config!LibraryRead(c, o[side], "active")
             /\ \E o \in all : Found(s, "active", side, "uln") = Config!ConfigInUse(o[side], of, "uln")
             /\ side = "send" => \E o \in all :
                  Found(s, "active", side, "executor")
                    = Config!ConfigInUse(o[side], library, "executor")
<1> DEFINE library == Found(s, "active", side, "library")
           of == IF Config!IsSolana(c.from) THEN uln ELSE library
<1>1. PICK o1 \in all : library = Config!LibraryRead(c, o1[side], "active")
  BY FoundLibrary DEF Columns
<1>2. library \in Libraries
  BY <1>1, ActiveTyped
<1>3. library # None
  BY <1>2, ConfigConstants
<1> HIDE DEF library
<1>4. \A p : AskedOf(c, library, p, "uln") = of /\ AskedOf(c, library, p, "executor") = library
  BY <1>3 DEF AskedOf, Config!Or
<1>5. \A p, l, what : Config!ConfigRead(p, "active", l, what) = Config!ConfigInUse(p, l, what)
  BY DEF Config!ConfigRead
<1>6. \E o \in all : Found(s, "active", side, "uln") = Config!ConfigInUse(o[side], of, "uln")
  <2>1. "uln" \in KindsOf(side) /\ "active" \in Columns
    BY DEF KindsOf, Config!Kinds, Columns
  <2>2. PICK o \in all :
          Found(s, "active", side, "uln")
            = Config!ConfigRead(o[side], "active", AskedOf(c, library, o[side], "uln"), "uln")
    BY <2>1, FoundConfig DEF library
  <2>3. Found(s, "active", side, "uln") = Config!ConfigInUse(o[side], of, "uln")
    BY <1>4, <1>5, <2>2
  <2> QED BY <2>3
<1>7. side = "send" => \E o \in all :
        Found(s, "active", side, "executor") = Config!ConfigInUse(o[side], library, "executor")
  <2> SUFFICES ASSUME side = "send"
               PROVE  \E o \in all : Found(s, "active", side, "executor")
                                       = Config!ConfigInUse(o[side], library, "executor")
    OBVIOUS
  <2>1. "executor" \in KindsOf(side) /\ "active" \in Columns
    BY DEF KindsOf, Config!Kinds, Columns
  <2>2. PICK o \in all :
          Found(s, "active", side, "executor")
            = Config!ConfigRead(o[side], "active", AskedOf(c, library, o[side], "executor"), "executor")
    BY <2>1, FoundConfig DEF library
  <2>3. Found(s, "active", side, "executor") = Config!ConfigInUse(o[side], library, "executor")
    BY <1>4, <1>5, <2>2
  <2> QED BY <2>3
<1> QED
  BY <1>1, <1>6, <1>7 DEF library

\* Answers given of one setting agree in the three columns.
LEMMA ColumnsOfOne ==
  ASSUME NEW c, ~Config!IsSolana(c.from), NEW s, NEW o \in Config!Settings,
         AnswersOf(s, c, {o}), AllAnswered(s, c), NEW side \in Config!Sides
  PROVE  LET active(what) == Found(s, "active", side, what)
             custom(what) == Found(s, "custom", side, what)
             default(what) == Found(s, "default", side, what)
         IN  /\ active("library") = Config!Or(custom("library"), default("library"))
             /\ \A kind \in KindsOf(side) :
                  \/ active(kind) = Config!Or(custom(kind), default(kind))
                  \/ custom(kind) = None /\ active("library") # default("library")
<1> DEFINE p == o[side]
           lib == Config!LibraryInUse(p)
           dl == p.default.library
<1>0. "active" \in Columns /\ "custom" \in Columns /\ "default" \in Columns
  BY DEF Columns
<1>1. p.own.library \in Libraries \cup {None} /\ dl \in Libraries
  BY SettingTyped
<1>2. /\ Found(s, "active", side, "library") = lib
      /\ Found(s, "custom", side, "library") = p.own.library
      /\ Found(s, "default", side, "library") = dl
  <2>1. \A column \in Columns :
          Found(s, column, side, "library") = Config!LibraryRead(c, p, column)
    <3> TAKE column \in Columns
    <3>1. \E q \in {o} : Found(s, column, side, "library") = Config!LibraryRead(c, q[side], column)
      BY FoundLibrary
    <3> QED BY <3>1
  <2> QED BY <1>0, <2>1 DEF Config!LibraryRead
<1>3. lib \in Libraries /\ lib = Config!Or(p.own.library, dl)
  BY <1>1 DEF Config!LibraryInUse, Config!Or
<1>4. lib # None /\ dl # None
  BY <1>1, <1>3, ConfigConstants
<1> HIDE DEF lib, dl
<1>5. ASSUME NEW kind \in KindsOf(side)
      PROVE  /\ Found(s, "active", side, kind)
                  = Config!Or(p.own.config[lib][kind], p.default.config[lib][kind])
             /\ Found(s, "custom", side, kind) = p.own.config[lib][kind]
             /\ Found(s, "default", side, kind) = p.default.config[dl][kind]
  <2>2. \A column \in Columns :
          Found(s, column, side, kind) =
            Config!ConfigRead(p, column, AskedOf(c, Found(s, column, side, "library"), p, kind), kind)
    <3> TAKE column \in Columns
    <3>1. \E q \in {o} :
            Found(s, column, side, kind) =
              Config!ConfigRead(q[side], column,
                AskedOf(c, Found(s, column, side, "library"), q[side], kind), kind)
      BY FoundConfig
    <3> QED BY <3>1
  <2>3. \A l : AskedOf(c, l, p, kind) = Config!Or(l, dl)
    BY DEF AskedOf, dl
  <2>4. /\ AskedOf(c, Found(s, "active", side, "library"), p, kind) = lib
        /\ AskedOf(c, Found(s, "custom", side, "library"), p, kind) = lib
        /\ AskedOf(c, Found(s, "default", side, "library"), p, kind) = dl
    BY <1>2, <1>3, <1>4, <2>3 DEF Config!Or
  <2> HIDE DEF p
  <2>5. /\ Found(s, "active", side, kind) = Config!ConfigRead(p, "active", lib, kind)
        /\ Found(s, "custom", side, kind) = Config!ConfigRead(p, "custom", lib, kind)
        /\ Found(s, "default", side, kind) = Config!ConfigRead(p, "default", dl, kind)
    BY <1>0, <2>2, <2>4
  <2> QED BY <2>5 DEF Config!ConfigRead, Config!ConfigInUse
<1>6. ASSUME NEW kind \in KindsOf(side)
      PROVE  \/ Found(s, "active", side, kind)
                  = Config!Or(Found(s, "custom", side, kind), Found(s, "default", side, kind))
             \/ /\ Found(s, "custom", side, kind) = None
                /\ Found(s, "active", side, "library") # Found(s, "default", side, "library")
  <2> HIDE DEF p
  <2> QED BY <1>2, <1>5 DEF Config!Or
<1> QED
  BY <1>2, <1>3, <1>6

LEMMA ConfigPromises ==
  ASSUME ConfigInv
  PROVE  /\ Config!TypeOK /\ Config!EveryPathwayReturned /\ Config!ReportedWasInForce
         /\ Config!ColumnsAgree
<1>1. Config!TypeOK
  BY DEF ConfigInv, AnswersOf, Config!TypeOK
<1>2. Config!EveryPathwayReturned
  BY DEF ConfigInv, Returned, Config!EveryPathwayReturned, Config!Returned
<1>3. Config!ReportedWasInForce
  <2> SUFFICES ASSUME NEW c \in printed
               PROVE  Config!RowWasInForce(c, configs[networkName[c.from]][networkName[c.to]])
    BY DEF Config!ReportedWasInForce
  <2> DEFINE s == answers[c]
             all == seen[c]
             row == configs[networkName[c.from]][networkName[c.to]]
  <2>1. AnswersOf(s, c, all) /\ AllAnswered(s, c) /\ all \in SUBSET Config!Settings
        /\ row = FoundEntry(s)
    BY PrintedAnswers
  <2>2. "send" \in Config!Sides /\ "receive" \in Config!Sides
    BY DEF Config!Sides
  <2>3. /\ row.defaultSendLibrary = Found(s, "active", "send", "library")
        /\ row.defaultReceiveLibrary = Found(s, "active", "receive", "library")
        /\ row.sendUlnConfig = Found(s, "active", "send", "uln")
        /\ row.sendExecutorConfig = Found(s, "active", "send", "executor")
        /\ row.receiveUlnConfig = Found(s, "active", "receive", "uln")
    BY <2>1 DEF FoundEntry
  <2> DEFINE of(library) == IF Config!IsSolana(c.from) THEN uln ELSE library
             sl == Found(s, "active", "send", "library")
             rl == Found(s, "active", "receive", "library")
  <2> HIDE DEF s, all, row
  <2>4. /\ \E o \in all : sl = Config!LibraryRead(c, o["send"], "active")
        /\ \E o \in all :
             Found(s, "active", "send", "uln") = Config!ConfigInUse(o["send"], of(sl), "uln")
        /\ \E o \in all :
             Found(s, "active", "send", "executor") = Config!ConfigInUse(o["send"], sl, "executor")
    BY <2>1, <2>2, RowInForce
  <2>5. /\ \E o \in all : rl = Config!LibraryRead(c, o["receive"], "active")
        /\ \E o \in all :
             Found(s, "active", "receive", "uln") = Config!ConfigInUse(o["receive"], of(rl), "uln")
    BY <2>1, <2>2, RowInForce
  <2>6. Config!RowWasInForce(c, row)
    BY <2>3, <2>4, <2>5 DEF Config!RowWasInForce, all
  <2> QED BY <2>6 DEF row
<1>4. Config!ColumnsAgree
  <2>1. ASSUME NEW c \in printed, ~Config!IsSolana(c.from),
               Config!Cardinality(seen[c]) = 1, NEW side \in Config!Sides
        PROVE  /\ Config!Cell(c, "active", side, "library")
                    = Config!Or(Config!Cell(c, "custom", side, "library"),
                                Config!Cell(c, "default", side, "library"))
               /\ \A kind \in KindsOf(side) :
                    \/ Config!Cell(c, "active", side, kind)
                         = Config!Or(Config!Cell(c, "custom", side, kind),
                                     Config!Cell(c, "default", side, kind))
                    \/ /\ Config!Cell(c, "custom", side, kind) = None
                       /\ Config!Cell(c, "active", side, "library")
                            # Config!Cell(c, "default", side, "library")
    <3>1. PICK o : seen[c] = {o}
      <4>1. Config!Cardinality(seen[c]) = Cardinality(seen[c])
        BY DEF Config!Cardinality, Cardinality
      <4>2. IsFiniteSet(seen[c])
        BY PrintedAnswers
      <4> QED BY <2>1, <4>1, <4>2, FS_Singleton
    <3> DEFINE s == answers[c]
    <3>2. AnswersOf(s, c, {o}) /\ AllAnswered(s, c) /\ o \in Config!Settings
      BY <3>1, PrintedAnswers
    <3>3. \A column, what : Config!Cell(c, column, side, what) = Found(s, column, side, what)
      BY DEF Config!Cell, Found
    <3> HIDE DEF s
    <3> QED BY <2>1, <3>2, <3>3, ColumnsOfOne
  <2> QED BY <2>1 DEF Config!ColumnsAgree, KindsOf
<1> QED
  BY <1>1, <1>2, <1>3, <1>4

-----------------------------------------------------------------------------
(***************************************************************************)
(* The compute budget.  The fees that were paid can be put into an order   *)
(* in which they do not fall, and their sum is at least their number.      *)
(***************************************************************************)
BudgetTypes == {"CreateToken", "CreateMultisig", "InitOft", "SetAuthority", "InitConfig", "SendOFT"}

BudgetInv ==
  /\ type \in BudgetTypes /\ scale \in Scales
  /\ phase \in {"lookup", "fees", "simulate", "prompt", "ready", "built", "failed"}
  /\ sample \in Samples \cup {<<>>}
  /\ attempts \in 0..3 /\ agreed \in BOOLEAN /\ units \in Nat
  /\ budget \in [price : Nat, limit : Nat]
  /\ phase \in {"lookup", "fees", "simulate"} => attempts \in 0..2
  /\ phase \in {"lookup", "fees", "simulate", "prompt"} => agreed = FALSE
  /\ phase \in {"ready", "built"} /\ agreed => units = Budget!TransactionCuEstimates[type]
  /\ phase = "built" =>
       budget.price = Budget!Price(sample, scale) /\ budget.limit = Budget!Limit(units)

LEMMA BudgetConstants ==
  /\ \A s \in Samples : s \in Seq(Nat)
  /\ Scales \subseteq Nat /\ Usages \subseteq Nat
  /\ Budget!TransactionType = BudgetTypes
<1>1. Budget!ComputeBudgetAssumption
  BY TasksAssumption
<1> QED
  BY <1>1 DEF Budget!ComputeBudgetAssumption, Budget!TransactionType, Budget!TransactionCuEstimates,
              BudgetTypes

LEMMA BudgetCardinality == \A S : Budget!Cardinality(S) = Cardinality(S)
BY DEF Budget!Cardinality, Cardinality

\* The estimates are numbers, and above what was ever used.
LEMMA Estimates ==
  ASSUME NEW t \in BudgetTypes
  PROVE  /\ Budget!TransactionCuEstimates[t] \in Nat /\ Budget!ActualSamples[t] \in Nat
         /\ Budget!ActualSamples[t] <= Budget!TransactionCuEstimates[t]
BY DEF Budget!TransactionCuEstimates, Budget!ActualSamples, BudgetTypes

-----------------------------------------------------------------------------
(* Sums of fees. *)
LEMMA FeesAreSum ==
  ASSUME NEW s, NEW D, IsFiniteSet(D), \A i \in D : s[i] \in Int
  PROVE  \E g : IsSum(g, [i \in D |-> s[i]], D) /\ Budget!Sum(s, D) = g[D]
<1> DEFINE f == [i \in D |-> s[i]]
           pick == [t \in SUBSET D |-> CHOOSE x \in t : TRUE]
           Rec(g) == g = [t \in SUBSET D |->
                            IF t = {} THEN 0
                            ELSE LET x == CHOOSE x \in t : TRUE
                                 IN  s[x] + g[t \ {x}]]
           iter == CHOOSE g : Rec(g)
<1>1. \A t \in SUBSET D : t # {} => pick[t] \in t
  OBVIOUS
<1>2. ASSUME NEW g PROVE Rec(g) <=> Sums(g, f, pick, D)
  <2>1. ASSUME NEW t \in SUBSET D, t # {}
        PROVE  LET x == CHOOSE x \in t : TRUE IN s[x] + g[t \ {x}]
                 = f[pick[t]] + g[t \ {pick[t]}]
    <3>1. pick[t] = (CHOOSE x \in t : TRUE) /\ pick[t] \in D
      BY <1>1, <2>1
    <3>2. f[pick[t]] = s[pick[t]]
      BY <3>1
    <3> HIDE DEF pick, f
    <3> QED BY <3>1, <3>2
  <2> HIDE DEF pick, f
  <2> QED BY <2>1 DEF Sums
<1>3. \E g : Sums(g, f, pick, D)
  <2>1. f \in [D -> Int]
    OBVIOUS
  <2> HIDE DEF f, pick
  <2> QED BY <1>1, <2>1, SumsExist
<1>4. Rec(iter)
  <2>1. \E g : Rec(g)
    <3>1. PICK g : Sums(g, f, pick, D)
      BY <1>3
    <3> HIDE DEF Rec, f, pick
    <3>2. Rec(g)
      BY <1>2, <3>1
    <3> QED BY <3>2
  <2> QED BY <2>1
<1>5. Budget!Sum(s, D) = iter[D]
  BY DEF Budget!Sum, Budget!MapThenSumSet, Budget!MapThenFoldSet
<1>6. IsSum(iter, f, D)
  <2>1. Sums(iter, f, pick, D)
    BY <1>2, <1>4
  <2> HIDE DEF iter, f, pick
  <2> QED BY <1>1, <2>1, SumsIsSum
<1> HIDE DEF iter
<1> QED BY <1>5, <1>6

\* A sum of numbers of one or more is at least their number.
LEMMA SumAtLeast ==
  ASSUME NEW S, IsFiniteSet(S), NEW f \in [S -> Nat \ {0}], NEW g, IsSum(g, f, S)
  PROVE  \A s \in SUBSET S : g[s] \in Nat /\ g[s] >= Cardinality(s)
<1> DEFINE B == {s \in SUBSET S : ~(g[s] \in Nat /\ g[s] >= Cardinality(s))}
<1> SUFFICES ASSUME B # {} PROVE FALSE
  OBVIOUS
<1>1. PICK s \in B : \A t \in SUBSET s : t # s => t \notin B
  <2> B \subseteq SUBSET S OBVIOUS
  <2> HIDE DEF B
  <2> QED BY MinimalSubset
<1>2. s # {}
  <2>1. g[{}] = 0 /\ Cardinality({}) = 0
    BY FS_EmptySet DEF IsSum
  <2> QED BY <2>1
<1>3. PICK x \in s : g[s] = f[x] + g[s \ {x}]
  BY <1>2 DEF IsSum
<1>4. s \ {x} \in SUBSET s /\ s \ {x} # s
  BY <1>3
<1>5. g[s \ {x}] \in Nat /\ g[s \ {x}] >= Cardinality(s \ {x})
  BY <1>1, <1>4
<1>6. Cardinality(s \ {x}) = Cardinality(s) - 1 /\ Cardinality(s) \in Nat
  <2>1. IsFiniteSet(s)
    BY FS_Subset
  <2> QED BY <1>3, <2>1, FS_RemoveElement, FS_CardinalityType
<1>7. f[x] \in Nat /\ f[x] >= 1
  BY <1>3
<1>8. g[s] \in Nat /\ g[s] >= Cardinality(s)
  BY <1>3, <1>5, <1>6, <1>7
<1> QED
  BY <1>8

LEMMA PaidSlots ==
  ASSUME NEW s \in Seq(Nat)
  PROVE  /\ IsFiniteSet(Budget!Paid(s)) /\ Cardinality(Budget!Paid(s)) \in Nat
         /\ \A i \in Budget!Paid(s) : s[i] \in Nat \ {0}
<1>1. Budget!Paid(s) \subseteq 1..Len(s) /\ IsFiniteSet(1..Len(s))
  <2>1. Len(s) \in Nat /\ DOMAIN s = 1..Len(s)
    OBVIOUS
  <2>2. IsFiniteSet(1..Len(s))
    BY <2>1, FS_Interval
  <2> QED BY <2>1, <2>2 DEF Budget!Paid
<1>2. IsFiniteSet(Budget!Paid(s)) /\ Cardinality(Budget!Paid(s)) \in Nat
  BY <1>1, FS_Subset, FS_CardinalityType
<1>3. \A i \in Budget!Paid(s) : s[i] \in Nat \ {0}
  BY DEF Budget!Paid
<1> QED
  BY <1>2, <1>3

\* The average of the fees that were paid is no fraction of a lamport.
LEMMA AverageFee ==
  ASSUME NEW s \in Seq(Nat)
  PROVE  /\ Budget!AverageFeeExcludingZeros(s) \in Nat
         /\ Budget!Paid(s) # {} => Budget!AverageFeeExcludingZeros(s) >= 1
<1> DEFINE P == Budget!Paid(s)
           f == [i \in P |-> s[i]]
<1>1. CASE P = {}
  BY <1>1 DEF Budget!AverageFeeExcludingZeros, Budget!Average
<1>2. CASE P # {}
  <2>1. IsFiniteSet(P) /\ f \in [P -> Nat \ {0}] /\ Cardinality(P) \in Nat /\ \A i \in P : s[i] \in Int
    BY PaidSlots
  <2> HIDE DEF P
  <2>2. PICK g : IsSum(g, f, P) /\ Budget!Sum(s, P) = g[P]
    BY <2>1, FeesAreSum
  <2> HIDE DEF f
  <2>3. g[P] \in Nat /\ g[P] >= Cardinality(P)
    BY <2>1, <2>2, SumAtLeast
  <2>4. Cardinality(P) # 0
    BY <1>2, <2>1, FS_EmptySet
  <2> DEFINE total == Budget!Sum(s, P)
             n == Cardinality(P)
  <2>5. total \in Nat /\ n \in Nat \ {0} /\ total >= n
    BY <2>1, <2>2, <2>3, <2>4
  <2>6. Budget!Average(s, P) = total \div n
    BY <1>2, BudgetCardinality DEF Budget!Average
  <2> HIDE DEF total, n
  <2>7. total \div n \in Nat /\ total \div n >= 1
    <3>1. /\ total \div n \in Int
          /\ n * (total \div n) <= total
          /\ total < n * (total \div n) + n
      BY <2>5, DivBounds
    <3>2. n * 0 < n * ((total \div n) + 1)
      BY <2>5, <3>1
    <3>3. n * 1 < n * ((total \div n) + 1)
      BY <2>5, <3>1
    <3>4. 1 < (total \div n) + 1
      BY <2>5, <3>1, <3>3, MulCancels
    <3> QED BY <3>1, <3>4
  <2> QED BY <2>6, <2>7 DEF Budget!AverageFeeExcludingZeros, P
<1> QED
  BY <1>1, <1>2

-----------------------------------------------------------------------------
(* Sorted fees. *)

\* The first n slots of order p are different slots of P, and their fees do not fall.
Ordered(p, P, n, s) ==
  /\ p \in [1..n -> P]
  /\ \A i, j \in 1..n : i < j => p[i] # p[j] /\ s[p[i]] <= s[p[j]]

LEMMA OrderExists ==
  ASSUME NEW P, IsFiniteSet(P), NEW s, \A i \in P : s[i] \in Nat
  PROVE  \E p : Ordered(p, P, Cardinality(P), s)
<1> DEFINE B == {t \in SUBSET P : \A p : ~Ordered(p, t, Cardinality(t), s)}
<1> SUFFICES ASSUME B # {} PROVE FALSE
  OBVIOUS
<1>1. PICK t \in B : \A u \in SUBSET t : u # t => u \notin B
  <2> B \subseteq SUBSET P OBVIOUS
  <2> HIDE DEF B
  <2> QED BY MinimalSubset
<1>2. IsFiniteSet(t) /\ Cardinality(t) \in Nat
  BY FS_Subset, FS_CardinalityType
<1>3. CASE t = {}
  <2>1. Cardinality(t) = 0
    BY <1>3, FS_EmptySet
  <2>2. Ordered(<<>>, t, 0, s)
    BY DEF Ordered
  <2> QED BY <2>1, <2>2
<1>4. CASE t # {}
  <2>1. PICK x \in t : \A y \in t : s[x] <= s[y]
    <3> DEFINE T == {s[y] : y \in t}
    <3>1. T \subseteq Nat /\ T # {}
      BY <1>4
    <3> HIDE DEF T
    <3>2. PICK m \in T : \A y \in T : m <= y
      BY <3>1, LeastNat
    <3> QED BY <3>2 DEF T
  <2> DEFINE u == t \ {x}
             n == Cardinality(u)
  <2>2. u \in SUBSET P /\ u \in SUBSET t /\ u # t
    OBVIOUS
  <2>3. Cardinality(t) = n + 1 /\ n \in Nat
    <3>1. IsFiniteSet(u)
      BY <1>2, <2>2, FS_Subset
    <3>2. Cardinality(u) = Cardinality(t) - 1 /\ Cardinality(u) \in Nat
      BY <1>2, <2>1, <3>1, FS_RemoveElement, FS_CardinalityType
    <3> QED BY <1>2, <3>2
  <2>4. PICK p : Ordered(p, u, n, s)
    BY <1>1, <2>2
  <2> HIDE DEF n
  <2> DEFINE q == [k \in 1..(n + 1) |-> IF k = 1 THEN x ELSE p[k - 1]]
  <2>5. \A k \in 1..n : p[k] \in u
    BY <2>4 DEF Ordered
  <2>6. q \in [1..(n + 1) -> t]
    BY <2>3, <2>5
  <2>7. ASSUME NEW i \in 1..(n + 1), NEW j \in 1..(n + 1), i < j
        PROVE  q[i] # q[j] /\ s[q[i]] <= s[q[j]]
    <3>1. j - 1 \in 1..n /\ q[j] = p[j - 1]
      BY <2>3, <2>7
    <3>2. CASE i = 1
      BY <2>1, <2>5, <3>1, <3>2
    <3>3. CASE i # 1
      <4>1. i - 1 \in 1..n /\ q[i] = p[i - 1] /\ i - 1 < j - 1
        BY <2>3, <2>7, <3>3
      <4> QED BY <2>4, <3>1, <4>1 DEF Ordered
    <3> QED BY <3>2, <3>3
  <2> HIDE DEF q
  <2>8. Ordered(q, t, Cardinality(t), s)
    BY <2>3, <2>6, <2>7 DEF Ordered
  <2> QED BY <2>8
<1> QED
  BY <1>3, <1>4

\* A set that has the slots from a to b of an order has as many of them.
LEMMA ManySlots ==
  ASSUME NEW P, NEW n \in Nat, NEW s, NEW p, Ordered(p, P, n, s), NEW T, IsFiniteSet(T),
         NEW a \in 1..n, NEW b \in 1..n, a <= b, \A k \in a..b : p[k] \in T
  PROVE  Cardinality(T) \in Nat /\ Cardinality(T) >= b - a + 1
<1>1. IsFiniteSet(a..b) /\ Cardinality(a..b) = b - a + 1
  BY FS_Interval
<1>2. Cardinality(T) \in Nat
  BY FS_CardinalityType
<1>3. ASSUME Cardinality(T) < b - a + 1 PROVE FALSE
  <2> DEFINE q == [k \in a..b |-> p[k]]
  <2>1. q \in [a..b -> T]
    OBVIOUS
  <2> HIDE DEF q
  <2>2. PICK i \in a..b, j \in a..b : i # j /\ q[i] = q[j]
    BY <1>1, <1>3, <2>1, FS_PigeonHole
  <2>3. p[i] = p[j] /\ i \in 1..n /\ j \in 1..n
    BY <2>2 DEF q
  <2>4. i < j \/ j < i
    BY <2>2, <2>3
  <2> QED BY <2>3, <2>4 DEF Ordered
<1> QED
  BY <1>2, <1>3

\* What sort() returns is in such an order.
LEMMA SortedIsOrdered ==
  ASSUME NEW s \in Seq(Nat)
  PROVE  \E p : /\ Ordered(p, Budget!Paid(s), Cardinality(Budget!Paid(s)), s)
               /\ Budget!SortedFees(s) = [k \in 1..Cardinality(Budget!Paid(s)) |-> s[p[k]]]
<1> DEFINE P == Budget!Paid(s)
           n == Cardinality(P)
           order == CHOOSE p \in [1..n -> P] :
                      \A i, j \in 1..n : i < j => p[i] # p[j] /\ s[p[i]] <= s[p[j]]
<1>1. Budget!SortedFees(s) = [k \in 1..n |-> s[order[k]]]
  <2> DEFINE In(x) == CHOOSE p \in [1..x -> P] :
                        \A i, j \in 1..x : i < j => p[i] # p[j] /\ s[p[i]] <= s[p[j]]
             Out(x) == [k \in 1..x |-> s[In(x)[k]]]
  <2>1. Budget!SortedFees(s) = Out(Budget!Cardinality(P))
    BY DEF Budget!SortedFees
  <2>2. Budget!Cardinality(P) = n
    BY BudgetCardinality
  <2>3. Out(n) = [k \in 1..n |-> s[order[k]]]
    OBVIOUS
  <2> HIDE DEF Out, P, order
  <2> QED BY <2>1, <2>2, <2>3
<1>2. \E p \in [1..n -> P] : \A i, j \in 1..n : i < j => p[i] # p[j] /\ s[p[i]] <= s[p[j]]
  <2>1. IsFiniteSet(P) /\ \A i \in P : s[i] \in Nat
    BY PaidSlots
  <2> HIDE DEF P
  <2>2. PICK p : Ordered(p, P, n, s)
    BY <2>1, OrderExists
  <2> QED BY <2>2 DEF Ordered
<1>3. Ordered(order, P, n, s)
  <2> DEFINE Rises(p) == \A i, j \in 1..n : i < j => p[i] # p[j] /\ s[p[i]] <= s[p[j]]
             S == [1..n -> P]
  <2>1. order = CHOOSE p \in S : Rises(p)
    OBVIOUS
  <2>2. \E p \in S : Rises(p)
    BY <1>2
  <2>3. order \in S /\ Rises(order)
    <3> HIDE DEF order, S, Rises
    <3> QED BY <2>1, <2>2
  <2> HIDE DEF order, n
  <2> QED BY <2>3, Zenon DEF Ordered
<1>4. \E p : Ordered(p, P, n, s) /\ Budget!SortedFees(s) = [k \in 1..n |-> s[p[k]]]
  <2> HIDE DEF order, P, n
  <2> QED BY <1>1, <1>3
<1> QED
  BY <1>4

\* Of n slots, half have a fee of at most m, and half one of at least m.
InMiddle(m, P, n, s) ==
  /\ 2 * Cardinality({i \in P : s[i] <= m}) >= n
  /\ 2 * Cardinality({i \in P : s[i] >= m}) >= n

\* A number between the fees before and after the middle of an order is in the
\* middle of the slots.
LEMMA MiddleOfOrder ==
  ASSUME NEW P, IsFiniteSet(P), NEW s, \A i \in P : s[i] \in Nat,
         NEW n \in Nat, NEW p, Ordered(p, P, n, s),
         NEW a \in 1..n, NEW b \in 1..n, b <= a + 1, 2 * a >= n, 2 * (n - b + 1) >= n,
         NEW m \in Nat, s[p[a]] <= m, m <= s[p[b]]
  PROVE  InMiddle(m, P, n, s)
<1>1. \A k \in 1..n : p[k] \in P /\ s[p[k]] \in Nat
  BY DEF Ordered
<1>2. 2 * Cardinality({i \in P : s[i] <= m}) >= n
  <2> DEFINE T == {i \in P : s[i] <= m}
  <2>1. ASSUME NEW k \in 1..a PROVE p[k] \in T
    <3>1. k \in 1..n /\ (k = a \/ k < a)
      OBVIOUS
    <3>2. s[p[k]] <= s[p[a]]
      BY <1>1, <3>1 DEF Ordered
    <3>3. s[p[k]] <= m
      BY <1>1, <3>1, <3>2
    <3> QED BY <1>1, <3>1, <3>3
  <2>2. IsFiniteSet(T)
    BY FS_Subset
  <2>3. 1 \in 1..n /\ 1 <= a
    OBVIOUS
  <2> HIDE DEF T
  <2>4. Cardinality(T) \in Nat /\ Cardinality(T) >= a - 1 + 1
    BY <2>1, <2>2, <2>3, ManySlots
  <2>5. 2 * Cardinality(T) >= n
    BY <2>4
  <2> QED BY <2>5 DEF T
<1>3. 2 * Cardinality({i \in P : s[i] >= m}) >= n
  <2> DEFINE T == {i \in P : s[i] >= m}
  <2>1. ASSUME NEW k \in b..n PROVE p[k] \in T
    <3>1. k \in 1..n /\ (k = b \/ b < k)
      OBVIOUS
    <3>2. s[p[b]] <= s[p[k]]
      BY <1>1, <3>1 DEF Ordered
    <3>3. s[p[k]] >= m
      BY <1>1, <3>1, <3>2
    <3> QED BY <1>1, <3>1, <3>3
  <2>2. IsFiniteSet(T)
    BY FS_Subset
  <2>3. n \in 1..n /\ b <= n
    OBVIOUS
  <2> HIDE DEF T
  <2>4. Cardinality(T) \in Nat /\ Cardinality(T) >= n - b + 1
    BY <2>1, <2>2, <2>3, ManySlots
  <2>5. 2 * Cardinality(T) >= n
    BY <2>4
  <2> QED BY <2>5 DEF T
<1> QED
  BY <1>2, <1>3 DEF InMiddle

LEMMA MedianInMiddle ==
  ASSUME NEW s \in Seq(Nat)
  PROVE  InMiddle(Budget!MedianFee(s), Budget!Paid(s), Cardinality(Budget!Paid(s)), s)
<1> DEFINE P == Budget!Paid(s)
           n == Cardinality(P)
           m == Budget!MedianFee(s)
           mid == n \div 2
<1>1. IsFiniteSet(P) /\ n \in Nat /\ \A i \in P : s[i] \in Nat
  BY PaidSlots
<1>2. PICK p : /\ Ordered(p, P, n, s)
               /\ Budget!SortedFees(s) = [k \in 1..n |-> s[p[k]]]
  BY SortedIsOrdered
<1>3. m = IF n = 0 THEN 0
          ELSE IF n % 2 # 0 THEN Budget!SortedFees(s)[mid + 1]
          ELSE (Budget!SortedFees(s)[mid] + Budget!SortedFees(s)[mid + 1]) \div 2
  BY BudgetCardinality DEF Budget!MedianFee
<1> HIDE DEF P, m, n
<1>4. CASE n = 0
  <2>1. IsFiniteSet({i \in P : s[i] <= m}) /\ IsFiniteSet({i \in P : s[i] >= m})
    BY <1>1, FS_Subset
  <2>2. Cardinality({i \in P : s[i] <= m}) \in Nat /\ Cardinality({i \in P : s[i] >= m}) \in Nat
    BY <2>1, FS_CardinalityType
  <2>3. InMiddle(m, P, n, s)
    BY <1>4, <2>2 DEF InMiddle
  <2> QED BY <2>3 DEF P, n, m
<1>5. CASE n # 0 /\ n % 2 # 0
  <2>1. mid \in Nat /\ n = 2 * mid + 1
    BY <1>1, <1>5
  <2>2. mid + 1 \in 1..n
    BY <2>1
  <2>3. m = s[p[mid + 1]] /\ m \in Nat
    BY <1>1, <1>2, <1>3, <1>5, <2>2 DEF Ordered
  <2> HIDE DEF mid
  <2>4. InMiddle(m, P, n, s)
    <3> DEFINE a == mid + 1
    <3>1. a \in 1..n /\ a <= a + 1 /\ 2 * a >= n /\ 2 * (n - a + 1) >= n
      BY <1>1, <2>1, <2>2
    <3>2. m \in Nat /\ s[p[a]] <= m /\ m <= s[p[a]]
      BY <2>3
    <3> HIDE DEF a
    <3> QED BY <1>1, <1>2, <3>1, <3>2, MiddleOfOrder
  <2> QED BY <2>4 DEF P, n, m
<1>6. CASE n # 0 /\ ~(n % 2 # 0)
  <2>1. mid \in Nat /\ n = 2 * mid /\ mid # 0
    BY <1>1, <1>6
  <2>2. mid \in 1..n /\ mid + 1 \in 1..n
    BY <2>1
  <2>3. m = (s[p[mid]] + s[p[mid + 1]]) \div 2
    BY <1>1, <1>2, <1>3, <1>6, <2>2
  <2> HIDE DEF mid
  <2> DEFINE a == mid
             b == mid + 1
             x == s[p[a]]
             y == s[p[b]]
  <2>4. x \in Nat /\ y \in Nat /\ x <= y
    BY <1>1, <1>2, <2>1, <2>2 DEF Ordered
  <2>5. m \in Nat /\ x <= m /\ m <= y
    <3>1. m = (x + y) \div 2
      BY <2>3
    <3> HIDE DEF x, y
    <3> QED BY <2>4, <3>1
  <2>6. a \in 1..n /\ b \in 1..n /\ b <= a + 1 /\ 2 * a >= n /\ 2 * (n - b + 1) >= n
    BY <1>1, <2>1, <2>2
  <2>7. InMiddle(m, P, n, s)
    <3>1. s[p[a]] <= m /\ m <= s[p[b]]
      BY <2>5
    <3> HIDE DEF a, b
    <3> QED BY <1>1, <1>2, <2>5, <2>6, <3>1, MiddleOfOrder
  <2> QED BY <2>7 DEF P, n, m
<1> QED
  BY <1>4, <1>5, <1>6

-----------------------------------------------------------------------------
(* What the task of the compute budget keeps. *)
LEMMA SampleTyped ==
  ASSUME BudgetInv
  PROVE  sample \in Seq(Nat)
<1>1. <<>> \in Seq(Nat)
  OBVIOUS
<1> QED
  BY <1>1, BudgetConstants DEF BudgetInv

\* The instructions carry numbers.
LEMMA BudgetTyped ==
  ASSUME NEW s \in Seq(Nat), NEW u \in Nat, NEW x \in Nat
  PROVE  Budget!Price(s, x) \in Nat /\ Budget!Limit(u) \in Nat
<1> DEFINE fee == Budget!AverageFeeExcludingZeros(s)
           times == x \div 10
<1>1. fee \in Nat /\ times \in Nat
  BY AverageFee
<1>2. Budget!Limit(u) \in Nat
  BY DEF Budget!Limit
<1>3. Budget!Price(s, x) = fee * times
  BY DEF Budget!Price
<1> HIDE DEF fee, times
<1>4. fee * times \in Nat
  BY <1>1
<1> QED
  BY <1>2, <1>3, <1>4

LEMMA BudgetStarts == Budget!Init => BudgetInv
<1> SUFFICES ASSUME Budget!Init PROVE BudgetInv
  OBVIOUS
<1>1. <<>> \in Samples \cup {<<>>} /\ agreed = FALSE
  BY DEF Budget!Init
<1>2. budget \in [price : Nat, limit : Nat]
  BY DEF Budget!Init
<1>3. /\ type \in BudgetTypes /\ scale \in Scales
      /\ phase = "lookup" /\ sample = <<>> /\ attempts = 0 /\ units = 0
  BY BudgetConstants DEF Budget!Init
<1>4. /\ phase # "built" /\ phase # "ready"
      /\ attempts \in 0..3 /\ attempts \in 0..2 /\ units \in Nat
  BY <1>3
<1>5. agreed \in BOOLEAN
  BY <1>1, Zenon
<1> QED
  BY <1>1, <1>2, <1>3, <1>4, <1>5, Zenon DEF BudgetInv

LEMMA BudgetSteps == BudgetInv /\ Budget!Next => BudgetInv'
<1> SUFFICES ASSUME BudgetInv, Budget!Next PROVE BudgetInv'
  OBVIOUS
<1> USE DEF BudgetInv
<1>1. ASSUME NEW found \in BOOLEAN, Budget!FindLookupTable(found) PROVE BudgetInv'
  BY <1>1 DEF Budget!FindLookupTable
<1>2. ASSUME NEW s \in Samples, Budget!GetFee(s) PROVE BudgetInv'
  BY <1>2 DEF Budget!GetFee
<1>3. ASSUME NEW u \in Usages, Budget!Simulate(u) PROVE BudgetInv'
  <2>1. u \in Nat
    BY BudgetConstants
  <2>2. agreed' = agreed
    BY <1>3 DEF Budget!Simulate
  <2> QED BY <1>3, <2>1, <2>2 DEF Budget!Simulate
<1>4. CASE Budget!SimulationFails
  BY <1>4 DEF Budget!SimulationFails, Budget!numOfAttempts
<1>5. ASSUME NEW yes \in BOOLEAN, Budget!Prompt(yes) PROVE BudgetInv'
  BY <1>5, Estimates DEF Budget!Prompt
<1>6. CASE Budget!AddInstructions
  <2>1. Budget!Price(sample, scale) \in Nat /\ Budget!Limit(units) \in Nat
    BY SampleTyped, BudgetConstants, BudgetTyped
  <2> QED BY <1>6, <2>1 DEF Budget!AddInstructions
<1> QED
  BY <1>1, <1>2, <1>3, <1>4, <1>5, <1>6 DEF Budget!Next

LEMMA BudgetKept == BudgetInv /\ UNCHANGED budgetVars => BudgetInv'
BY DEF BudgetInv, budgetVars

LEMMA BudgetPromises == BudgetInv => Budget!TypeOK /\ BudgetSuffices
<1> SUFFICES ASSUME BudgetInv PROVE Budget!TypeOK /\ BudgetSuffices
  OBVIOUS
<1>1. Budget!TypeOK
  BY BudgetConstants, Zenon DEF BudgetInv, Budget!TypeOK
<1>2. Budget!MedianIsMiddle
  <2> DEFINE n == Cardinality(Budget!Paid(sample))
             m == Budget!MedianFee(sample)
             AtMost == {i \in Budget!Paid(sample) : sample[i] <= m}
             AtLeast == {i \in Budget!Paid(sample) : sample[i] >= m}
  <2>1. 2 * Cardinality(AtMost) >= n /\ 2 * Cardinality(AtLeast) >= n
    BY SampleTyped, MedianInMiddle DEF InMiddle
  <2>2. /\ Budget!Cardinality(AtMost) = Cardinality(AtMost)
        /\ Budget!Cardinality(AtLeast) = Cardinality(AtLeast)
        /\ Budget!Cardinality(Budget!Paid(sample)) = n
    BY BudgetCardinality, Zenon
  <2>3. Budget!MedianIsMiddle <=>
          /\ 2 * Budget!Cardinality(AtMost) >= Budget!Cardinality(Budget!Paid(sample))
          /\ 2 * Budget!Cardinality(AtLeast) >= Budget!Cardinality(Budget!Paid(sample))
    BY DEF Budget!MedianIsMiddle
  <2> HIDE DEF AtMost, AtLeast, n
  <2> QED BY <2>1, <2>2, <2>3
<1>3. Budget!PaysForPriority
  <2> SUFFICES ASSUME phase = "built", Budget!Paid(sample) # {}, scale >= 10
               PROVE  budget.price > 0
    BY DEF Budget!PaysForPriority
  <2> DEFINE fee == Budget!AverageFeeExcludingZeros(sample)
             times == scale \div 10
  <2>1. fee \in Nat /\ fee >= 1
    BY SampleTyped, AverageFee
  <2>2. scale \in Nat
    BY BudgetConstants DEF BudgetInv
  <2>3. times \in Nat /\ times >= 1
    BY <2>2
  <2>4. budget.price = fee * times
    BY DEF BudgetInv, Budget!Price
  <2> HIDE DEF fee, times
  <2>5. fee * times >= 1
    <3>1. PICK a \in Nat : fee = 1 + a
      <4>1. fee - 1 \in Nat /\ fee = 1 + (fee - 1)
        BY <2>1
      <4> QED BY <4>1
    <3>2. fee * times = times + a * times
      BY <2>3, <3>1
    <3>3. a * times \in Nat
      BY <2>3, <3>1
    <3> QED BY <2>3, <3>2, <3>3
  <2>6. fee * times \in Nat
    BY <2>1, <2>3
  <2> QED BY <2>4, <2>5, <2>6
<1>4. Budget!LimitLeavesMargin
  <2> SUFFICES ASSUME phase = "built", ~agreed, NEW more \in 0..(units \div 10)
               PROVE  budget.limit >= units + more
    BY DEF Budget!LimitLeavesMargin
  <2>1. units \in Nat /\ budget.limit = (units * 11) \div 10
    BY DEF BudgetInv, Budget!Limit
  <2> QED BY <2>1
<1>5. Budget!EstimateCoversSamples
  <2> SUFFICES ASSUME phase = "built", agreed
               PROVE  budget.limit >= Budget!ActualSamples[type]
    BY DEF Budget!EstimateCoversSamples
  <2> DEFINE used == Budget!ActualSamples[type]
  <2>1. units = Budget!TransactionCuEstimates[type] /\ type \in BudgetTypes
    BY Zenon DEF BudgetInv
  <2>2. budget.limit = (units * 11) \div 10 /\ units \in Nat
    BY DEF BudgetInv, Budget!Limit
  <2>3. used \in Nat /\ used <= units
    BY <2>1, Estimates
  <2> HIDE DEF used
  <2>4. (units * 11) \div 10 >= used
    BY <2>2, <2>3
  <2> QED BY <2>2, <2>4 DEF used
<1> QED
  BY <1>1, <1>2, <1>3, <1>4, <1>5 DEF BudgetSuffices

-----------------------------------------------------------------------------
(***************************************************************************)
(* The tasks together.  A step is one of the part that was chosen, and the *)
(* others keep what they have.                                             *)
(***************************************************************************)
TasksInv == SendInv /\ SignedInv /\ BudgetInv /\ DebugInv /\ ConfigInv

\* Each task, from its start to its end, keeps what its reports and transactions
\* rest on: the signers chosen, the amounts quoted, the units that were simulated,
\* the rows that were printed and the configurations that were in force.
THEOREM TasksInductive == TasksSpec => []TasksInv
<1>1. TasksInit => TasksInv
  BY SendStarts, SignedStarts, BudgetStarts, DebugStarts, ConfigStarts DEF TasksInit, TasksInv
<1>2. TasksInv /\ [TasksNext]_taskVars => TasksInv'
  <2> SUFFICES ASSUME TasksInv, [TasksNext]_taskVars PROVE TasksInv'
    OBVIOUS
  <2>1. SendInv'
    <3>1. CASE Send!Next
      BY <3>1, SendSteps DEF TasksInv
    <3>2. CASE UNCHANGED sendVars
      BY <3>2, SendKept DEF TasksInv
    <3> QED BY <3>1, <3>2 DEF TasksNext, taskVars
  <2>2. SignedInv'
    <3>1. CASE Signed!Next
      BY <3>1, SignedSteps DEF TasksInv
    <3>2. CASE UNCHANGED signedVars
      BY <3>2, SignedKept DEF TasksInv
    <3> QED BY <3>1, <3>2 DEF TasksNext, taskVars
  <2>3. BudgetInv'
    <3>1. CASE Budget!Next
      BY <3>1, BudgetSteps DEF TasksInv
    <3>2. CASE UNCHANGED budgetVars
      BY <3>2, BudgetKept DEF TasksInv
    <3> QED BY <3>1, <3>2 DEF TasksNext, taskVars
  <2>4. DebugInv'
    <3>1. CASE Report!Next
      BY <3>1, DebugSteps DEF TasksInv
    <3>2. CASE UNCHANGED debugVars
      BY <3>2, DebugKept DEF TasksInv
    <3> QED BY <3>1, <3>2 DEF TasksNext, taskVars
  <2>5. ConfigInv'
    <3>1. CASE Config!Next
      BY <3>1, ConfigSteps DEF TasksInv
    <3>2. CASE UNCHANGED configVars
      BY <3>2, ConfigKept DEF TasksInv
    <3> QED BY <3>1, <3>2 DEF TasksNext, taskVars
  <2> QED BY <2>1, <2>2, <2>3, <2>4, <2>5 DEF TasksInv
<1> QED
  BY <1>1, <1>2, PTL DEF TasksSpec

\* The states of the tasks are of their types.
THEOREM TasksTyped == TasksSpec => []TypeOK
<1>1. TasksInv => TypeOK
  BY SendPromises, SignedPromises, BudgetPromises, DebugPromises, ConfigPromises
  DEF TasksInv, TypeOK
<1> QED
  BY <1>1, TasksInductive, PTL

\* lz:oft:solana:send and send: no empty message leaves Solana but for a single unit
\* of an Adapter without dust whose transfer fee changed after the quote, and what is
\* reported is in a block.
THEOREM SendsHold == TasksSpec => []SendsAsPromised
<1>1. TasksInv => SendsAsPromised
  BY SendPromises DEF TasksInv
<1> QED
  BY <1>1, TasksInductive, PTL

\* The default keypair signs only when the operator agreed, two different keys of
\* the environment are refused, the payer signs, and the inbound limit is shown as set.
THEOREM SignsHold == TasksSpec => []SignsAsChosen
<1>1. TasksInv => SignsAsChosen
  BY SignedPromises DEF TasksInv
<1> QED
  BY <1>1, TasksInductive, PTL

\* For every sequence of recent fees and every simulation: the median is in the
\* middle, a fee is paid where a recent slot paid one, and the limit of units
\* covers the simulation with a margin, or what such transactions ever used.
THEOREM BudgetHolds == TasksSpec => []BudgetSuffices
<1>1. TasksInv => BudgetSuffices
  BY BudgetPromises DEF TasksInv
<1> QED
  BY <1>1, TasksInductive, PTL

\* The report of debug is complete, true of a chain at rest, and never contradicts
\* itself.
THEOREM DebugHolds == TasksSpec => []DebugIsTrue
<1>1. TasksInv => DebugIsTrue
  BY DebugPromises DEF TasksInv, DebugIsTrue
<1> QED
  BY <1>1, TasksInductive, PTL

\* config:get returns every pathway of the graph, and of each what was in force on it
\* at some moment of the task, every config for the library beside it.
THEOREM ConfigsHold == TasksSpec => []ConfigsAreTrue
<1>1. TasksInv => ConfigsAreTrue
  BY ConfigPromises DEF TasksInv, ConfigsAreTrue
<1> QED
  BY <1>1, TasksInductive, PTL

\* The three columns of config:get agree on a pathway that nobody reconfigures.
THEOREM ColumnsHold == TasksSpec => []ColumnsAgree
<1>1. TasksInv => ColumnsAgree
  BY ConfigPromises DEF TasksInv, ColumnsAgree
<1> QED
  BY <1>1, TasksInductive, PTL
=============================================================================
