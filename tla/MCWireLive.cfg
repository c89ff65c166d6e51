CONSTANTS
  None = None
  sepolia = sepolia
  amoy = amoy
  solanaTestnet = solanaTestnet
  solanaMainnet = solanaMainnet
  wallet = wallet
  squads = squads
  SolanaEids = {solanaTestnet}
  EvmEids = {sepolia, amoy}
  Keys = {wallet, squads}
  deployer = wallet
  pathways <- OnlySepolia
  bareLibrary = {}
SPECIFICATION FairSpec
PROPERTIES
  WiringCompletes
CHECK_DEADLOCK FALSE
