----------------------------- MODULE MCDashboard -----------------------------
(***************************************************************************)
(* Small instances of Dashboard for TLC: SOL is collateral, USDC is lent.  *)
(***************************************************************************)
EXTENDS Dashboard, TLC

CONSTANTS SOL, USDC

JustSOL  == <<SOL>>
JustUSDC == <<USDC>>
MCPrice  == [m \in Mints |-> IF m = SOL THEN 2 ELSE 1]
MCLtv    == [m \in Mints |-> IF m = SOL THEN 75 ELSE 0]

Symmetry == Permutations(Users)
=============================================================================
