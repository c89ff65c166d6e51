----------------------------- MODULE MCQuoteOFT -----------------------------
(***************************************************************************)
(* Quotes over every fee in tenths, caps from nothing to more than any fee *)
(* and three decimal rates.                                                *)
(***************************************************************************)
EXTENDS QuoteOFT

MCRates == {1, 3, 4}
MCFeeBps == {0, 1, 3, 9}
MCMaximumFees == {0, 1, 3, 30}
MCAsked == 0 .. 24
MCMinimums == {0, 6}
=============================================================================
