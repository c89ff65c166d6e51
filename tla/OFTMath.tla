------------------------------ MODULE OFTMath ------------------------------
(***************************************************************************)
(* The arithmetic of the OFT program: local and shared decimals            *)
(* (state/oft.rs), the fee that the OFT keeps and the transfer fee that    *)
(* Token-2022 withholds (instructions/quote_send.rs).  The u128            *)
(* intermediates of the code do not overflow, so integers stand for them.  *)
(***************************************************************************)
EXTENDS U64

CONSTANT OneInBasisPoints       \* 10_000 in the program

ASSUME OFTMathAssumption == OneInBasisPoints \in Nat \ {0}

(***************************************************************************)
(* The fee of Token-2022's TransferFee extension in force, or None for a   *)
(* mint without the extension.                                             *)
(***************************************************************************)
TransferFee == [transfer_fee_basis_points : 0 .. OneInBasisPoints,
                maximum_fee : Amount]

-----------------------------------------------------------------------------
(* Decimals.                                                               *)

Ld2Sd(rate, amount_ld) == amount_ld \div rate
Sd2Ld(rate, amount_sd) == amount_sd * rate
RemoveDust(rate, amount_ld) == amount_ld - (amount_ld % rate)

-----------------------------------------------------------------------------
(* Token-2022's transfer fee.                                              *)

CeilDiv(n, d) == (n + d - 1) \div d

\* TransferFee::calculate_fee of spl-token-2022, rounded up and capped.
WithheldFee(fee, amount) ==
  Least(CeilDiv(amount * fee.transfer_fee_basis_points, OneInBasisPoints),
        fee.maximum_fee)

PostFeeAmount(fee, amount) ==
  IF fee = None THEN amount ELSE amount - WithheldFee(fee, amount)

\* Bugs: the gross amount rounded down, and the fee added to the net amount.
PreFeeRoundedDown(fee, net) ==
  IF fee = None \/ net = 0 THEN net
  ELSE IF fee.transfer_fee_basis_points = OneInBasisPoints THEN net + fee.maximum_fee
  ELSE Least(net + fee.maximum_fee,
         (net * OneInBasisPoints) \div (OneInBasisPoints - fee.transfer_fee_basis_points))
PreFeeUncapped(fee, net) ==
  IF fee = None \/ net = 0 THEN net
  ELSE IF fee.transfer_fee_basis_points = OneInBasisPoints THEN net + fee.maximum_fee
  ELSE CeilDiv(net * OneInBasisPoints, OneInBasisPoints - fee.transfer_fee_basis_points)

\* calculate_pre_fee_amount.  The code answers None, and the instruction fails,
\* when the result is no u64; callers test that.
PreFeeAmount(fee, net) ==
  IF fee = None \/ net = 0 THEN net
  ELSE IF fee.transfer_fee_basis_points = 0 THEN net
  ELSE IF fee.transfer_fee_basis_points = OneInBasisPoints THEN net + fee.maximum_fee
  ELSE LET raw == CeilDiv(net * OneInBasisPoints,
                          OneInBasisPoints - fee.transfer_fee_basis_points)
       IN  IF raw - net >= fee.maximum_fee THEN net + fee.maximum_fee ELSE raw

-----------------------------------------------------------------------------
(* The OFT's own fee, and what a transfer of amount_ld comes to.           *)

FinalFeeBps(default_fee_bps, fee_bps) ==
  IF fee_bps # None THEN fee_bps ELSE default_fee_bps

CalculateFee(bps, amount) == (amount * bps) \div OneInBasisPoints

\* A bug: the fee is not rounded to shared decimals.
ReceiptFeeWithDust(rate, fee, bps, amount_ld) ==
  LET net     == RemoveDust(rate, PostFeeAmount(fee, amount_ld))
      oft_fee == CalculateFee(bps, net)
  IN  [sent |-> PreFeeAmount(fee, net), received |-> net - oft_fee, fee |-> oft_fee]
\* A bug: the amount asked for is debited, dust included.
ReceiptKeepsDust(rate, fee, bps, amount_ld) ==
  LET net     == RemoveDust(rate, PostFeeAmount(fee, amount_ld))
      oft_fee == RemoveDust(rate, CalculateFee(bps, net))
  IN  [sent |-> amount_ld, received |-> net - oft_fee, fee |-> oft_fee]

\* OFTType::Adapter: what arrives in the escrow after the transfer fee, without
\* dust, is what the transfer is worth.
AdapterReceipt(rate, fee, bps, amount_ld) ==
  LET net     == RemoveDust(rate, PostFeeAmount(fee, amount_ld))
      oft_fee == RemoveDust(rate, CalculateFee(bps, net))
  IN  [sent |-> PreFeeAmount(fee, net), received |-> net - oft_fee, fee |-> oft_fee]

\* OFTType::Native: tokens are burned, no transfer fee is due on them.
NativeReceipt(rate, bps, amount_ld) ==
  LET sent    == RemoveDust(rate, amount_ld)
      oft_fee == RemoveDust(rate, CalculateFee(bps, sent))
  IN  [sent |-> sent, received |-> sent - oft_fee, fee |-> oft_fee]

\* compute_fee_and_adjust_amount
ComputeFeeAndAdjustAmount(oft_type, rate, fee, bps, amount_ld) ==
  IF oft_type = "Adapter" THEN AdapterReceipt(rate, fee, bps, amount_ld)
                          ELSE NativeReceipt(rate, bps, amount_ld)
=============================================================================
