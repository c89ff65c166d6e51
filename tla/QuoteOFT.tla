------------------------------ MODULE QuoteOFT ------------------------------
(***************************************************************************)
(* The read-only instruction quote_oft against the definition of what a    *)
(* quote should be, over every deployment of a small instance: an OFT of   *)
(* either type, with its decimals, its fees and the transfer fee of its    *)
(* mint.                                                                   *)
(***************************************************************************)
EXTENDS OFTMath

CONSTANTS
  Rates,        \* the values of ld2sd_rate
  FeeBps,       \* the fees of the OFT, in basis points
  MaximumFees,  \* the caps of the mint's transfer fee
  Asked,        \* the amount_ld's that are quoted
  Minimums      \* and the min_amount_ld's

ASSUME QuoteAssumption ==
  /\ Rates \subseteq Amount \ {0}
  /\ FeeBps \subseteq 0 .. (OneInBasisPoints - 1)
  /\ MaximumFees \subseteq Amount
  /\ Asked \subseteq Amount
  /\ Minimums \subseteq Amount

VARIABLES
  oft_type, ld2sd_rate, fee_bps,   \* the OFTStore, with the fee that applies
  paused,
  transfer_fee,                    \* the mint's fee for this epoch, or None
  quote                            \* the last answer, or None

vars == <<oft_type, ld2sd_rate, fee_bps, paused, transfer_fee, quote>>

Init ==
  /\ oft_type \in {"Native", "Adapter"}
  /\ ld2sd_rate \in Rates
  /\ fee_bps \in FeeBps
  /\ transfer_fee \in {None} \cup
       [transfer_fee_basis_points : 0 .. OneInBasisPoints, maximum_fee : MaximumFees]
  /\ paused = FALSE
  /\ quote = None

\* quote_oft.rs.  The fee details are listed when they are not zero; a detail
\* that is not listed is zero here.
Quote(amount_ld, min_amount_ld) ==
  LET r == ComputeFeeAndAdjustAmount(oft_type, ld2sd_rate, transfer_fee, fee_bps, amount_ld)
  IN  /\ ~paused
      /\ r.sent \in Amount
      /\ r.received >= min_amount_ld
      /\ quote' = [asked |-> amount_ld, sent |-> r.sent, received |-> r.received,
                   cross_chain_fee |-> r.fee,
                   token2022_fee |-> IF r.received + r.fee < r.sent
                                     THEN r.sent - r.fee - r.received ELSE 0]
      /\ UNCHANGED <<oft_type, ld2sd_rate, fee_bps, paused, transfer_fee>>

\* The OFT is paused or resumed (set_pause.rs, set_oft_config.rs); an answer that
\* was given stays with the client.
SetPause(p) ==
  /\ paused' = p
  /\ UNCHANGED <<oft_type, ld2sd_rate, fee_bps, transfer_fee, quote>>

Next == \/ \E amount_ld \in Asked, min_amount_ld \in Minimums : Quote(amount_ld, min_amount_ld)
        \/ \E p \in BOOLEAN : SetPause(p)

Spec == Init /\ [][Next]_vars

-----------------------------------------------------------------------------
(* What send.rs does with a debit that was quoted.                         *)

\* What a debit leaves for the remote side and the OFT's fee together: of an
\* Adapter's, what arrives in the escrow; a Native one is burned and paid in full.
Distributable(amount_ld) ==
  IF oft_type = "Adapter" THEN PostFeeAmount(transfer_fee, amount_ld) ELSE amount_ld

\* The amount that goes to the escrow by transfer_checked: the debit of an Adapter,
\* the fee of a Native OFT, which burns the rest.
Transferred(q) == IF oft_type = "Adapter" THEN q.sent ELSE q.cross_chain_fee

\* What the token program withholds from that transfer.
Withheld(q) == Transferred(q) - PostFeeAmount(transfer_fee, Transferred(q))

(***************************************************************************)
(* The quoted amount_sent_ld is never more than the caller asked for, and  *)
(* it is the least debit of which enough is left for what the remote side  *)
(* gets and the OFT's fee: inverting the transfer fee loses and gains      *)
(* nothing (calculate_pre_fee_amount, get_post_fee_amount_ld).             *)
(***************************************************************************)
SentIsLeastDebit ==
  quote # None =>
    /\ quote.sent <= quote.asked
    /\ Distributable(quote.sent) >= quote.received + quote.cross_chain_fee
    /\ \A less \in 0 .. quote.sent - 1 :
          Distributable(less) < quote.received + quote.cross_chain_fee

(***************************************************************************)
(* Only dust stays with the caller: what the debit leaves of the amount    *)
(* asked for is worth less than one unit of shared decimals.               *)
(***************************************************************************)
OnlyDustIsLeft ==
  quote # None => Distributable(quote.asked) - Distributable(quote.sent) < ld2sd_rate

(***************************************************************************)
(* The amount that the message carries in shared decimals is worth exactly *)
(* the amount_received_ld that was quoted (remove_dust, ld2sd, sd2ld).     *)
(***************************************************************************)
SharedDecimalsLossless ==
  quote # None =>
    Sd2Ld(ld2sd_rate, Ld2Sd(ld2sd_rate, quote.received)) = quote.received

(***************************************************************************)
(* The details of a quote name every unit that the sender pays and the     *)
(* remote side does not get.  Of an Adapter, the "Token2022 Transfer Fee"  *)
(* is what the token program withholds when send.rs moves the debit.  Of a *)
(* Native OFT there is no such detail although a mint may withhold from    *)
(* the OFT's fee: that comes out of the "Cross Chain Fee", so the escrow   *)
(* bears it and never the sender or the remote side.                       *)
(***************************************************************************)
FeeDetailsAreCharged ==
  quote # None =>
    /\ quote.sent = quote.received + quote.cross_chain_fee + quote.token2022_fee
    /\ IF oft_type = "Adapter" THEN quote.token2022_fee = Withheld(quote)
       ELSE quote.token2022_fee = 0 /\ Withheld(quote) <= quote.cross_chain_fee

(***************************************************************************)
(* quote_send.rs, line 94: "if it is Native OFT, there is no transfer fee" *)
(***************************************************************************)
NativeHasNoTransferFee ==
  quote # None /\ oft_type = "Native" => Withheld(quote) = 0

(***************************************************************************)
(* Asking again for exactly the debit that was quoted gives the same       *)
(* receipt, so a client may send the quoted amount.                        *)
(***************************************************************************)
RequotingIsStable ==
  quote # None =>
    LET again == ComputeFeeAndAdjustAmount(oft_type, ld2sd_rate, transfer_fee, fee_bps,
                                           quote.sent)
    IN  again = [sent |-> quote.sent, received |-> quote.received,
                 fee |-> quote.cross_chain_fee]
=============================================================================
