---------------------------- MODULE MCDeployment ----------------------------
(***************************************************************************)
(* Small instances of Deployment: three lists of additional minters, one   *)
(* metadata while the other parts run, and two pathways.                   *)
(***************************************************************************)
EXTENDS Deployment, TLC

CONSTANTS squads, old, new, firstRun, secondRun, ops, sepolia, amoy, solanaTestnet

\* Lists of additional minters with and without the operator, and no list at all.
MCMinterLists == {None, {ops}, {wallet, ops}}

MCPathways == {<<sepolia, solanaTestnet>>, <<amoy, solanaTestnet>>}

\* The states of the parts are added up instead of multiplied.
MCInit ==
  /\ DeploymentInit
  /\ part # "metadata" => metadata.name = old /\ metadata.fee = 0 /\ createdMutable

MCSpec ==
  MCInit /\ [][DeploymentNext]_<<part, vars, creationVars, wiringVars>>

\* The runs of the metadata tasks are alike, and so are the two EVM chains.
Symmetry == Permutations(Runs) \cup Permutations({sepolia, amoy})
=============================================================================
