CONSTANTS
  None = None
  alice = alice
  dev = dev
  eth = eth
  myOFT = myOFT
  moved = moved
  oftStore = oftStore
  multisig = multisig
  MaxU64 = 31
  OneInBasisPoints = 10
  NoAddress = NoAddress
  Radix = 2
  MintDecimals = 1
  Wallets = {alice}
  InitialBalance <- AliceHas
  InitialSupply = 6
  InitialMint = 5
  Authorities = {oftStore, multisig}
  StoreSigned = {oftStore, multisig}
  Keys = {dev}
  Eids = {eth}
  RemoteOFTs = {myOFT, moved}
  InitialAuthority = oftStore
  InitialFee = None
  OFTTypes = {"Native", "Adapter"}
  SharedDecimals = {0}
  SendAmounts = {5}
  MinAmounts = {0}
  ComposeChoices = {FALSE}
  RemoteAmounts = {2, 3}
  NewKeys = {}
  Pauses = {TRUE, FALSE}
  DefaultFees = {}
  PeerFees = {}
  TransferFees = {}
  RateLimits <- Limits
  Withdrawals = {}
  Donations = {}
  NewAuthorities = {oftStore, multisig}
  MaxTime = 1
  MaxSent = 1
  MaxVerified = 2
SPECIFICATION FairBridgeSpec
PROPERTIES
  BridgeIsLedger
  EveryPacketIsDelivered
CHECK_DEADLOCK FALSE
