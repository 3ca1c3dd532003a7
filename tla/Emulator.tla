------------------------------- MODULE Emulator -------------------------------
(***************************************************************************)
(* The emulator: the runs of its client, the chain of its servers and the  *)
(* network between them.                                                   *)
(***************************************************************************)
EXTENDS EmulatorClient

vars == <<netVars, serverVars, client>>

Init == ServerInit /\ ClientInit

Next ==
  \/ \E r \in Runs : ClientStep(r) \/ Keepalive(r)
  \/ \E h \in Hops, r \in Runs : MainStep(h, r) /\ UNCHANGED client
  \/ \E h \in Hops, r \in Runs : HandlerStep(h, r) /\ UNCHANGED client
  \/ Lose /\ UNCHANGED <<serverVars, client>>

Spec == Init /\ [][Next]_vars

(* Threads that can move do, and a server reads the datagrams in its       *)
(* socket's queue in turn, so each of them some time.  Nothing obliges a   *)
(* run to start, a keep-alive to be sent, or a datagram to be lost.        *)
Fairness ==
  /\ \A r \in Runs : WF_vars(Confirm(r) /\ UNCHANGED serverVars)
  /\ \A h \in Hops, r \in Runs :
       /\ WF_vars(AcceptSyn(h, r) /\ UNCHANGED client)
       /\ WF_vars(OnAck(h, r) /\ UNCHANGED client)
       /\ WF_vars(HandlerStep(h, r) /\ UNCHANGED client)

FairSpec == Spec /\ Fairness

(* Every variable stays in its set.                                        *)
TypeOK == ServerTypeOK /\ ClientTypeOK

-------------------------------------------------------------------------------
(* The acknowledgement goes down the chain: a record is marked acked only  *)
(* when the handler of the previous hop has ended on its own record's      *)
(* acked, and the first only when the client has confirmed.  In particular *)
(* the hops beyond a handler that timed out are never acknowledged, and    *)
(* runs that share servers never end each other's handlers.                *)
AckedInOrder ==
  \A r \in Runs :
    /\ r \in acked[1] => client[r] = "confirmed"
    /\ \A h \in Hops \ {N} :
         r \in acked[h + 1] => r \in acked[h] /\ pc[h][r] = "done"

(* hashport counts the responses that took a port, or falls short of them: *)
(* then an increment was lost between two handlers, and stays lost.  As    *)
(* long as it counts right, no two responses name the same port.           *)
Numbered == {r \in Runs : pc[N][r] \in {"reply", "loop", "done", "gaveUp"}}

PortsCounted ==
  /\ hashport <= FirstPort + Cardinality(Numbered)
  /\ hashport = FirstPort + Cardinality(Numbered) =>
       \A r, s \in Numbered : port[r] = port[s] => r = s

-------------------------------------------------------------------------------
(* The emulator implements the commit that the agents implement: prepared  *)
(* at a hop is a run whose SYN it accepted, committed one whose ACK it     *)
(* took.                                                                   *)
Commit == INSTANCE UpdateCommit WITH
            Updates   <- Runs,
            prepared  <- records,
            committed <- acked

ImplementsCommit == Commit!Spec

-------------------------------------------------------------------------------
(* A run that was started is acknowledged at every hop and its handlers    *)
(* end, whatever SYN-ACKs the network loses: every handler repeats its     *)
(* own.  It may fail to only because a SYN or ACK was lost, which nobody   *)
(* sends twice, a server ended, a handler before the last hop gave up (it  *)
(* had no socket, or the ACK was slow), or the last one stopped repeating  *)
(* when a SYN-ACK was lost.                                                *)
Completed(r) ==
  /\ \A h \in Hops : r \in acked[h]
  /\ \A h \in Hops : pc[h][r] = "done" \/ (h = N /\ pc[h][r] = "gaveUp")

Disturbed(r) ==
  \/ lost["SYN"] > 0 \/ lost["ACK"] > 0
  \/ \E h \in Hops : ~alive[h]
  \/ \E h \in Hops \ {N} : pc[h][r] = "gaveUp"
  \/ (pc[N][r] = "gaveUp" /\ lost["SYNACK"] > 0)

RunCompletes(r) == client[r] = "waiting" ~> Completed(r) \/ Disturbed(r)
=============================================================================
