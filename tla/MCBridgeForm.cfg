CONSTANTS
  None = None
  Empty = Empty
  NotPositive = NotPositive
  Malformed = Malformed
  whole = whole
  cut = cut
  long = long
  hex = hex
  alice = alice
  bob = bob
  Accounts = {alice}
  Recipients = {whole, cut}
  Bytes <- MCBytes
  MaxAmount = 2
  MaxTxs = 2
  Funds = 1
SPECIFICATION FairSpec
INVARIANTS
  TypeOK
  QuoteIsForShown
  ConfirmedIsMined
PROPERTIES
  SentAsShown
  FormUnlocks
  ConfirmationArrives
CHECK_DEADLOCK FALSE
