---------------------------- MODULE MCTableAccess ----------------------------
(***************************************************************************)
(* Instances of TableAccess for TLC.                                       *)
(***************************************************************************)
EXTENDS TableAccess, TLC

CONSTANTS k1, k2, k3, c1, c2

(* k1 and k2 share a bucket until the table has grown to two, k1 and k3    *)
(* until it has grown to four.                                             *)
Spread == (k1 :> 0) @@ (k2 :> 1) @@ (k3 :> 2)
=============================================================================
