----------------------------- MODULE MCMigration -----------------------------
(***************************************************************************)
(* Instances of Migration for TLC.                                         *)
(***************************************************************************)
EXTENDS Migration

CONSTANTS p1, p2, k1, k2, u1, u2

AllAddresses == {"client", "server", "oldBox", "newBox"}
AllPorts     == {"5001", "high"}
===============================================================================
