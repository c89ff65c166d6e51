CONSTANTS
  None = None
  MaxU64 = 31
  OneInBasisPoints = 10
  Rates <- MCRates
  FeeBps <- MCFeeBps
  MaximumFees <- MCMaximumFees
  Asked <- MCAsked
  Minimums <- MCMinimums
SPECIFICATION Spec
INVARIANT NativeHasNoTransferFee
