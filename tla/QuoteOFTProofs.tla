--------------------------- MODULE QuoteOFTProofs ---------------------------
(***************************************************************************)
(* Proofs about the quotes, for every rate, fee, cap and amount.  The      *)
(* invariant says what a quote is: the receipt that the program would      *)
(* compute now for the amount that was asked.  Everything else follows     *)
(* from what OFTMathProofs proves of receipts.                             *)
(***************************************************************************)
EXTENDS QuoteOFT, OFTMathProofs

Receipt(amount_ld) ==
  ComputeFeeAndAdjustAmount(oft_type, ld2sd_rate, transfer_fee, fee_bps, amount_ld)

\* The fields of the quote are those of a receipt.
QuotesReceipt ==
  quote # None =>
    LET r == Receipt(quote.asked) IN
    /\ quote.asked \in Nat
    /\ quote.sent = r.sent
    /\ quote.received = r.received
    /\ quote.cross_chain_fee = r.fee
    /\ quote.token2022_fee = IF r.received + r.fee < r.sent
                             THEN r.sent - r.fee - r.received ELSE 0

IInv ==
  /\ oft_type \in {"Native", "Adapter"}
  /\ ld2sd_rate \in Nat \ {0}
  /\ fee_bps \in 0 .. (OneInBasisPoints - 1)
  /\ transfer_fee \in TransferFee \cup {None}
  /\ QuotesReceipt

THEOREM Inductive == Spec => []IInv
<1>1. Init => IInv
  <2> SUFFICES ASSUME Init PROVE IInv
    OBVIOUS
  <2>1. ld2sd_rate \in Nat \ {0} /\ fee_bps \in 0 .. (OneInBasisPoints - 1)
    BY QuoteAssumption, U64Assumption DEF Init, Amount
  <2>2. transfer_fee \in TransferFee \cup {None}
    BY QuoteAssumption DEF Init, TransferFee
  <2> QED
    BY <2>1, <2>2 DEF Init, IInv, QuotesReceipt
<1>2. IInv /\ [Next]_vars => IInv'
  <2> SUFFICES ASSUME IInv, [Next]_vars PROVE IInv'
    OBVIOUS
  <2>1. ASSUME NEW amount_ld \in Asked, NEW min_amount_ld \in Minimums,
               Quote(amount_ld, min_amount_ld)
        PROVE  IInv'
    <3>1. amount_ld \in Nat
      BY QuoteAssumption, U64Assumption DEF Amount
    <3>2. UNCHANGED <<oft_type, ld2sd_rate, fee_bps, transfer_fee>>
      BY <2>1 DEF Quote
    <3>3. Receipt(amount_ld)' = Receipt(amount_ld)
      BY <3>2 DEF Receipt
    <3>4. LET r == Receipt(amount_ld) IN
          quote' = [asked |-> amount_ld, sent |-> r.sent, received |-> r.received,
                    cross_chain_fee |-> r.fee,
                    token2022_fee |-> IF r.received + r.fee < r.sent
                                      THEN r.sent - r.fee - r.received ELSE 0]
      BY <2>1 DEF Quote, Receipt
    <3>5. QuotesReceipt'
      BY <3>1, <3>3, <3>4 DEF QuotesReceipt
    <3> QED
      BY <3>2, <3>5 DEF IInv
  <2>2. ASSUME NEW p \in BOOLEAN, SetPause(p)
        PROVE  IInv'
    BY <2>2 DEF SetPause, IInv, QuotesReceipt, Receipt
  <2>3. CASE UNCHANGED vars
    BY <2>3 DEF vars, IInv, QuotesReceipt, Receipt
  <2> QED
    BY <2>1, <2>2, <2>3 DEF Next
<1> QED
  BY <1>1, <1>2, PTL DEF Spec

-----------------------------------------------------------------------------
(***************************************************************************)
(* What the proofs below know of a quote: its debit is what its net amount *)
(* costs, and its net amount is a whole number of units.                   *)
(***************************************************************************)
LEMMA QuoteSound ==
  ASSUME IInv, quote # None
  PROVE  /\ quote.asked \in Nat /\ quote.sent \in Nat
         /\ quote.received \in Nat /\ quote.cross_chain_fee \in Nat
         /\ quote.sent <= quote.asked
         /\ Sd2Ld(ld2sd_rate, Ld2Sd(ld2sd_rate, quote.received)) = quote.received
         /\ Distributable(quote.sent) = quote.received + quote.cross_chain_fee
         /\ quote.token2022_fee = IF quote.received + quote.cross_chain_fee < quote.sent
                                  THEN quote.sent - quote.cross_chain_fee - quote.received
                                  ELSE 0
<1>1. quote.asked \in Nat
  BY DEF IInv, QuotesReceipt
<1> DEFINE r == Receipt(quote.asked)
<1>2. /\ r.sent \in Nat /\ r.received \in Nat /\ r.fee \in Nat
      /\ r.sent <= quote.asked
      /\ Sd2Ld(ld2sd_rate, Ld2Sd(ld2sd_rate, r.received)) = r.received
      /\ oft_type = "Adapter" => PostFeeAmount(transfer_fee, r.sent) = r.received + r.fee
      /\ oft_type # "Adapter" => r.sent = r.received + r.fee
  BY <1>1, ReceiptSound DEF IInv, Receipt
<1>3. /\ quote.sent = r.sent /\ quote.received = r.received
      /\ quote.cross_chain_fee = r.fee
      /\ quote.token2022_fee = IF r.received + r.fee < r.sent
                               THEN r.sent - r.fee - r.received ELSE 0
  BY DEF IInv, QuotesReceipt
<1> HIDE DEF r
<1> QED
  BY <1>1, <1>2, <1>3 DEF Distributable

\* The net amount of a quote is what the debit asked for leaves, without dust.
LEMMA NetOfQuote ==
  ASSUME IInv, quote # None
  PROVE  /\ Distributable(quote.asked) \in Nat
         /\ Distributable(quote.sent) = RemoveDust(ld2sd_rate, Distributable(quote.asked))
<1>1. quote.asked \in Nat /\ ld2sd_rate \in Nat \ {0} /\ transfer_fee \in TransferFee \cup {None}
  BY DEF IInv, QuotesReceipt
<1>2. Distributable(quote.asked) \in Nat
  BY <1>1, PostFeeType DEF Distributable
<1> DEFINE net == RemoveDust(ld2sd_rate, Distributable(quote.asked))
<1>3. net \in Nat
  BY <1>1, <1>2, DustRemoved
<1>4. quote.sent = IF oft_type = "Adapter" THEN PreFeeAmount(transfer_fee, net) ELSE net
  BY DEF IInv, QuotesReceipt, Receipt, ComputeFeeAndAdjustAmount, AdapterReceipt,
         NativeReceipt, Distributable
<1> HIDE DEF net
<1>5. Distributable(quote.sent) = net
  BY <1>1, <1>3, <1>4, PostOfPre DEF Distributable
<1> QED
  BY <1>2, <1>5 DEF net

(***************************************************************************)
(* A quoted debit is within what was asked for, covers what the remote     *)
(* side gets and the OFT's fee, and no smaller debit does: what            *)
(* calculate_pre_fee_amount answers is the inverse of the transfer fee     *)
(* that costs the caller least.                                            *)
(***************************************************************************)
THEOREM LeastDebit == Spec => []SentIsLeastDebit
<1>1. IInv => SentIsLeastDebit
  <2> SUFFICES ASSUME IInv, quote # None PROVE SentIsLeastDebit
    BY DEF SentIsLeastDebit
  <2> DEFINE net == RemoveDust(ld2sd_rate, Distributable(quote.asked))
  <2>1. ld2sd_rate \in Nat \ {0} /\ transfer_fee \in TransferFee \cup {None}
    BY DEF IInv
  <2>2. net \in Nat /\ Distributable(quote.sent) = net
    BY <2>1, NetOfQuote, DustRemoved
  <2>3. quote.sent = IF oft_type = "Adapter" THEN PreFeeAmount(transfer_fee, net) ELSE net
    BY DEF IInv, QuotesReceipt, Receipt, ComputeFeeAndAdjustAmount, AdapterReceipt,
           NativeReceipt, Distributable
  <2> HIDE DEF net
  <2>4. ASSUME NEW less \in 0 .. quote.sent - 1
        PROVE  Distributable(less) < net
    <3>1. less \in Nat /\ less < quote.sent
      BY <2>4, QuoteSound
    <3>2. CASE oft_type = "Adapter"
      <4>1. PostFeeAmount(transfer_fee, less) \in Nat
        BY <2>1, <3>1, PostFeeType
      <4>2. net <= PostFeeAmount(transfer_fee, less) => quote.sent <= less
        BY <2>1, <2>2, <2>3, <3>1, <3>2, PreWithinGross
      <4> QED
        BY <2>2, <3>1, <3>2, <4>1, <4>2, QuoteSound DEF Distributable
    <3> QED
      BY <2>3, <3>1, <3>2 DEF Distributable
  <2> QED
    BY <2>2, <2>4, QuoteSound DEF SentIsLeastDebit
<1> QED
  BY <1>1, Inductive, PTL

(***************************************************************************)
(* What the quoted debit leaves of the amount asked for is worth less than *)
(* one unit of shared decimals, whatever the transfer fee of the mint      *)
(* (remove_dust after get_post_fee_amount_ld).                             *)
(***************************************************************************)
THEOREM OnlyDust == Spec => []OnlyDustIsLeft
<1>1. IInv => OnlyDustIsLeft
  <2> SUFFICES ASSUME IInv, quote # None
               PROVE  Distributable(quote.asked) - Distributable(quote.sent) < ld2sd_rate
    BY DEF OnlyDustIsLeft
  <2>1. ld2sd_rate \in Nat \ {0}
    BY DEF IInv
  <2>2. Distributable(quote.asked) \in Nat
    BY NetOfQuote
  <2>3. Distributable(quote.asked) % ld2sd_rate \in 0 .. ld2sd_rate - 1
    BY <2>1, <2>2
  <2> QED
    BY <2>1, <2>2, <2>3, NetOfQuote DEF RemoveDust
<1> QED
  BY <1>1, Inductive, PTL

(***************************************************************************)
(* The shared decimals of the message are worth what was quoted to arrive. *)
(***************************************************************************)
THEOREM Lossless == Spec => []SharedDecimalsLossless
<1>1. IInv => SharedDecimalsLossless
  BY QuoteSound DEF SharedDecimalsLossless
<1> QED
  BY <1>1, Inductive, PTL

(***************************************************************************)
(* The fee details of a quote name every unit that the sender pays and the *)
(* receiver does not get.  The transfer fee of an Adapter is the one that  *)
(* the token program withholds from the debit; what it withholds from the  *)
(* fee of a Native OFT is never more than that fee.                        *)
(***************************************************************************)
THEOREM FeesAreCharged == Spec => []FeeDetailsAreCharged
<1>1. IInv => FeeDetailsAreCharged
  <2> SUFFICES ASSUME IInv, quote # None PROVE FeeDetailsAreCharged
    BY DEF FeeDetailsAreCharged
  <2>1. oft_type \in {"Native", "Adapter"} /\ transfer_fee \in TransferFee \cup {None}
    BY DEF IInv
  <2>2. CASE oft_type = "Adapter"
    <3>1. PostFeeAmount(transfer_fee, quote.sent) <= quote.sent
      BY <2>1, QuoteSound, PostFeeType
    <3>2. PostFeeAmount(transfer_fee, quote.sent) = quote.received + quote.cross_chain_fee
      BY <2>2, QuoteSound DEF Distributable
    <3>3. Withheld(quote) = quote.sent - PostFeeAmount(transfer_fee, quote.sent)
      BY <2>2 DEF Withheld, Transferred
    <3> QED
      BY <2>2, <3>1, <3>2, <3>3, QuoteSound DEF FeeDetailsAreCharged
  <2>3. CASE oft_type # "Adapter"
    <3>1. /\ PostFeeAmount(transfer_fee, quote.cross_chain_fee) \in Nat
          /\ PostFeeAmount(transfer_fee, quote.cross_chain_fee) <= quote.cross_chain_fee
      BY <2>1, QuoteSound, PostFeeType
    <3>2. quote.sent = quote.received + quote.cross_chain_fee
      BY <2>3, QuoteSound DEF Distributable
    <3>3. Withheld(quote) = quote.cross_chain_fee
                              - PostFeeAmount(transfer_fee, quote.cross_chain_fee)
      BY <2>3 DEF Withheld, Transferred
    <3> QED
      BY <2>3, <3>1, <3>2, <3>3, QuoteSound DEF FeeDetailsAreCharged
  <2> QED
    BY <2>2, <2>3
<1> QED
  BY <1>1, Inductive, PTL

-----------------------------------------------------------------------------
\* Dust is removed once: a whole number of units has none.
LEMMA NoDustTwice ==
  ASSUME NEW rate \in Nat \ {0}, NEW a \in Nat
  PROVE  RemoveDust(rate, RemoveDust(rate, a)) = RemoveDust(rate, a)
<1> DEFINE n == Ld2Sd(rate, a)
           net == RemoveDust(rate, a)
<1>1. n \in Nat /\ net \in Nat /\ net = rate * n
  BY DustRemoved
<1>2. RemoveDust(rate, net) = rate * Ld2Sd(rate, net)
  BY <1>1, DustRemoved
<1> HIDE DEF n, net
<1>3. Sd2Ld(rate, Ld2Sd(rate, rate * n)) = rate * n
  BY <1>1, UnitsLossless
<1>4. Ld2Sd(rate, net) \in Nat
  BY <1>1, DustRemoved
<1>5. RemoveDust(rate, net) = net
  BY <1>1, <1>2, <1>3, <1>4 DEF Sd2Ld
<1> QED
  BY <1>5 DEF net

(***************************************************************************)
(* Asking again for the debit that was quoted gives the same receipt: the  *)
(* inverse of the transfer fee and the removal of dust are stable, so that *)
(* a send of the quoted amount is what was quoted.                         *)
(***************************************************************************)
THEOREM Requoting == Spec => []RequotingIsStable
<1>1. IInv => RequotingIsStable
  <2> SUFFICES ASSUME IInv, quote # None
               PROVE  Receipt(quote.sent) =
                        [sent |-> quote.sent, received |-> quote.received,
                         fee |-> quote.cross_chain_fee]
    BY DEF RequotingIsStable, Receipt
  <2> DEFINE net == RemoveDust(ld2sd_rate, Distributable(quote.asked))
             f == RemoveDust(ld2sd_rate, CalculateFee(fee_bps, net))
             sent == IF oft_type = "Adapter" THEN PreFeeAmount(transfer_fee, net) ELSE net
  <2>1. ld2sd_rate \in Nat \ {0} /\ Distributable(quote.asked) \in Nat
    BY NetOfQuote DEF IInv
  <2>2. Distributable(quote.sent) = net /\ RemoveDust(ld2sd_rate, net) = net
    BY <2>1, NetOfQuote, NoDustTwice
  <2>3. Receipt(quote.asked) = [sent |-> sent, received |-> net - f, fee |-> f]
    BY DEF Receipt, ComputeFeeAndAdjustAmount, AdapterReceipt, NativeReceipt, Distributable
  <2>4. Receipt(quote.sent) =
          LET net2 == RemoveDust(ld2sd_rate, Distributable(quote.sent))
              f2 == RemoveDust(ld2sd_rate, CalculateFee(fee_bps, net2))
          IN  [sent |-> IF oft_type = "Adapter" THEN PreFeeAmount(transfer_fee, net2)
                        ELSE net2,
               received |-> net2 - f2, fee |-> f2]
    BY DEF Receipt, ComputeFeeAndAdjustAmount, AdapterReceipt, NativeReceipt, Distributable
  <2>5. Receipt(quote.sent) = Receipt(quote.asked)
    BY <2>2, <2>3, <2>4
  <2>6. /\ quote.sent = Receipt(quote.asked).sent
        /\ quote.received = Receipt(quote.asked).received
        /\ quote.cross_chain_fee = Receipt(quote.asked).fee
    BY DEF IInv, QuotesReceipt
  <2> HIDE DEF net, f, sent
  <2> QED
    BY <2>3, <2>5, <2>6
<1> QED
  BY <1>1, Inductive, PTL

=============================================================================
