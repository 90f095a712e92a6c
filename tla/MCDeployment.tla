---------------------------- MODULE MCDeployment ----------------------------
(***************************************************************************)
(* Small instances of Deployment for TLC.                                  *)
(***************************************************************************)
EXTENDS Deployment

CONSTANTS k1, k2, m1, m2

TwoAssets == <<m1, m2>>
=============================================================================
