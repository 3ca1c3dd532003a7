------------------------------ MODULE MCEmulator ------------------------------
(***************************************************************************)
(* An instance of Emulator for TLC.                                        *)
(***************************************************************************)
EXTENDS Emulator, TLC

CONSTANTS r1, r2

(* What the network may lose.                                              *)
SynAckLoss == [SYN |-> 0, SYNACK |-> 1, ACK |-> 0]

(* Whatever the other run does, a run that was started is acknowledged at  *)
(* every hop and its handlers end, with the exceptions of RunCompletes.    *)
(* The runs are alike: one of them stands for all.                         *)
Completes == RunCompletes(r1)
=============================================================================
