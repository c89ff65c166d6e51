CONSTANTS
  None = None
  wallet = wallet
  sepolia = sepolia
  amoy = amoy
  solanaTestnet = solanaTestnet
  firstRun = firstRun
  secondRun = secondRun
  ephemeral = ephemeral
  oftStore = oftStore
  program = program
  uln = uln
  simple = simple
  defaultConfig = defaultConfig
  ours = ours
  Keys = {wallet, squads}
  Configs = {defaultConfig, ours}
  MaxU64 = 100
  OneInBasisPoints = 10
  Runs = {firstRun, secondRun}
  Amounts = {0, 1, 25}
  InitBalances = {30}
  Rates = {1, 10}
  evmRate = 10
  FeeBps = {0, 2}
  TransferFees <- MCTransferFees
  Allowances = {None, 20}
  MessageFees = {1, 2}
  MaxSettings = 2
  admin = wallet
  Eids = {sepolia, amoy}
  Limits = {low, high}
  Units = {255, 256}
  Samples <- MCSamples
  Scales = {5, 10, 40}
  Usages = {0, 1, 19, 3230}
  dstEids <- MCEids
  PeerAddresses = {myOFT}
  MaxChanges = 2
  connections <- MCGraph
  SolanaEids = {solanaTestnet}
  networkName <- MCNames
  Libraries = {uln, simple}
  earlierSettings <- MCSettings
  MaxReconfigurations = 1
SPECIFICATION MCSpec
SYMMETRY Symmetry
INVARIANTS
  TypeOK
  SendsAsPromised
  SignsAsChosen
  BudgetSuffices
  DebugIsTrue
  ConfigsAreTrue
  ColumnsAgree
CHECK_DEADLOCK FALSE
