------------------------------- MODULE MCWire -------------------------------
(***************************************************************************)
(* Small instances of Wire: Sepolia and Amoy on the EVM side, the testnet  *)
(* and, to be refused, the mainnet of Solana.                              *)
(***************************************************************************)
EXTENDS Wire

CONSTANTS sepolia, amoy, solanaTestnet, solanaMainnet, wallet, squads

BothTestnets == {<<sepolia, solanaTestnet>>, <<amoy, solanaTestnet>>}
AmoyToTestnet == {<<amoy, solanaTestnet>>}
OnlySepolia == {<<sepolia, solanaTestnet>>}
TwoSolanas == {<<sepolia, solanaTestnet>>, <<amoy, solanaMainnet>>}
=============================================================================
