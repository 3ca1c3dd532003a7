--------------------------- MODULE MCUpdateProtocol ---------------------------
(***************************************************************************)
(* Instances of UpdateProtocol for TLC.                                    *)
(***************************************************************************)
EXTENDS UpdateProtocol, TLC

CONSTANTS r1, r2, f1, f2

(* One run with updateNotify's sequence number.                            *)
OneRunSeq   == (r1 :> 100)
OneRunFlow  == (r1 :> f1)

(* Two runs that update the same flow one after the other.                 *)
TwoRunsSeq  == (r1 :> 100) @@ (r2 :> 101)
TwoRunsFlow == (r1 :> f1) @@ (r2 :> f1)

(* The program is run twice without a change.                              *)
SameSeq     == (r1 :> 100) @@ (r2 :> 100)

(* What the network may lose.                                              *)
NoLoss  == [t \in Types |-> 0]
AnyLoss == [SYN |-> 1, SYNACK |-> 2, ACK |-> 1]
SynLoss == [NoLoss EXCEPT !["SYN"] = 1]
=============================================================================
