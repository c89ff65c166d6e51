CONSTANTS
  deployer = deployer
  squads = squads
  old = old
  new = new
  None = None
  system = system
  firstRun = firstRun
  secondRun = secondRun
  Runs = {firstRun, secondRun}
  Keys = {deployer, squads}
  creator = deployer
  Names = {old, new}
  Fees = {0, 5}
  wallet = wallet
  ops = ops
  given = given
  MaxRuns = 2
  MaxMultisigs = 3
  sepolia = sepolia
  amoy = amoy
  solanaTestnet = solanaTestnet
  MinterLists <- MCMinterLists
  SolanaEids = {solanaTestnet}
  EvmEids = {sepolia, amoy}
  pathways <- MCPathways
  bareLibrary = {}
SPECIFICATION MCSpec
SYMMETRY Symmetry
INVARIANTS
  TypesOK
  AuthoritiesStayUsable
  NothingOpensUninitialised
  FrozenOnPurpose
PROPERTIES
  MintingIsNeverLost
  UpdatesUndoneByUpdates
CHECK_DEADLOCK FALSE
