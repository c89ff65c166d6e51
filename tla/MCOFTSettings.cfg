CONSTANTS
  None = None
  alice = alice
  dev = dev
  ops = ops
  eth = eth
  remote = remote
  impostor = impostor
  oftStore = oftStore
  multisig = multisig
  foundation = foundation
  MaxU64 = 31
  OneInBasisPoints = 10
  NoAddress = NoAddress
  Radix = 2
  MintDecimals = 1
  Wallets = {alice}
  InitialBalance <- AliceHas
  InitialSupply = 12
  Authorities = {oftStore, multisig, foundation}
  StoreSigned = {oftStore, multisig}
  Keys = {dev, ops}
  Eids = {eth}
  RemoteOFTs = {remote, impostor}
  InitialAuthority = None
  InitialFee = None
  OFTTypes = {"Adapter"}
  SharedDecimals = {0}
  SendAmounts = {5}
  MinAmounts = {0}
  ComposeChoices = {FALSE}
  RemoteAmounts = {1}
  NewKeys = {ops, None}
  Pauses = {FALSE, TRUE}
  DefaultFees = {}
  PeerFees = {}
  TransferFees = {}
  RateLimits <- Limits
  Withdrawals = {}
  Donations = {}
  NewAuthorities = {}
  MaxTime = 1
  MaxSent = 2
  MaxVerified = 1
SPECIFICATION Spec
INVARIANT TypeOK
PROPERTIES
  PauseStopsBridging
