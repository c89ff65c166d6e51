CONSTANTS
  None = None
  alice = alice
  dev = dev
  ops = ops
  eth = eth
  remote = remote
  impostor = impostor
  oftStore = oftStore
  multisig = multisig
  foundation = foundation
  MaxU64 = 31
  OneInBasisPoints = 10
  NoAddress = NoAddress
  Radix = 2
  MintDecimals = 1
  Wallets = {alice}
  InitialBalance <- AliceHas
  InitialSupply = 12
  Authorities = {oftStore, multisig, foundation}
  StoreSigned = {oftStore, multisig}
  Keys = {dev}
  Eids = {eth}
  RemoteOFTs = {remote}
  InitialAuthority = None
  InitialFee <- CappedFee
  OFTTypes = {"Adapter"}
  SharedDecimals = {0}
  SendAmounts = {5, 8}
  MinAmounts = {0, 4}
  ComposeChoices = {FALSE, TRUE}
  RemoteAmounts = {1, 3}
  NewKeys = {}
  Pauses = {}
  DefaultFees = {5}
  PeerFees = {2}
  TransferFees <- TwoFees
  RateLimits = {}
  Withdrawals = {2}
  Donations = {3}
  NewAuthorities = {}
  MaxTime = 0
  MaxSent = 2
  MaxVerified = 2
SPECIFICATION Spec
INVARIANTS
  EscrowHoldsTvlAndFees
  RemoteIsBacked
  EveryPacketCountsOnce
PROPERTIES
  SendIsFair
  ComposeCarriesCredit
