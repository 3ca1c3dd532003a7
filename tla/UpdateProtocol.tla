---------------------------- MODULE UpdateProtocol ----------------------------
(***************************************************************************)
(* The session-update protocol: the runs of updateNotify, the chain of     *)
(* agents and the network between them.                                    *)
(***************************************************************************)
EXTENDS UpdateNotify, MiddleboxAgent

vars == <<netVars, notifier, agentVars>>

Init == NetInit /\ NotifierInit /\ AgentInit

Next ==
  \/ \E r \in Runs : NotifierStep(r) /\ UNCHANGED agentVars
  \/ \E h \in Hops : AgentStep(h) /\ UNCHANGED notifier
  \/ Lose /\ UNCHANGED <<notifier, agentVars>>

Spec == Init /\ [][Next]_vars

(* Every run updates the flow that settingAck names, as updateNotify does: *)
(* it names the same one.  An assumption of the theorems, not of the runs. *)
SingleFlow == \A r \in Runs : FlowOf[r] = AckFlow

(* The processes and threads that can move do.  A thread that wants the    *)
(* mutex gets it if it is free again and again: whoever holds it gives it  *)
(* up at once, then sleeps a millisecond or waits for a datagram.  Nothing *)
(* obliges a run to start, a datagram to be lost, or an agent to be        *)
(* started again.                                                          *)
Fairness ==
  /\ \A r \in Runs : WF_vars(NotifyConfirm(r) /\ UNCHANGED agentVars)
  /\ \A h \in Hops : WF_vars(MainStep(h) /\ UNCHANGED notifier)
  /\ \A h \in Hops : SF_vars(MainLock(h) /\ UNCHANGED notifier)
  /\ \A h \in Hops, r \in Runs : WF_vars(HandlerStep(h, r) /\ UNCHANGED notifier)
  /\ \A h \in Hops, r \in Runs : SF_vars(HandlerLock(h, r) /\ UNCHANGED notifier)

FairSpec == Spec /\ Fairness

(* Every variable stays in its set.                                        *)
TypeOK == NetTypeOK /\ NotifierTypeOK /\ AgentTypeOK

-------------------------------------------------------------------------------
(* Safety.                                                                 *)

(* Make before break: no kernel is told to switch to the new path ("ACK")  *)
(* before the kernels of all hops can translate the packets of that path   *)
(* ("SYN").  Holds across lost, duplicated and reordered datagrams,        *)
(* several runs, stale update_ack flags, and restarts of agents.           *)
MakeBeforeBreak ==
  \A h, g \in Hops : activated[h] \subseteq Installed(g)

(* One incarnation of an agent passes an update's "SYN" to its kernel at   *)
(* most once, however often the UPDATE-SYN arrives and however many runs   *)
(* use the same sequence number: the kernels add a rule for every "SYN"    *)
(* and the client's does so without looking for one it has.                *)
SynOncePerIncarnation ==
  \A h \in Hops, u \in Updates : syns[h][u] <= 1 + epoch[h]

(* While no handler of an agent has timed out, the mutex protects          *)
(* update_ack: at most one of the receive loop and the handlers is inside. *)
(* Only updateBack, at the last hop, has a time-out.                       *)
HoldsMutex(h, r) == pc[h][r] \in {"test", "leave", "acked", "unlock"}
MainHoldsMutex(h) == mpc[h] \in {"set", "unlock"}
TimedOut(h, r)   == pc[h][r] \in {"timeout", "timeoutUnlock", "gaveUp"}

MutualExclusion ==
  \A h \in Hops : (\A r \in Runs : ~TimedOut(h, r)) =>
    /\ \A r, s \in Runs : HoldsMutex(h, r) /\ HoldsMutex(h, s) => r = s
    /\ \A r \in Runs : ~(HoldsMutex(h, r) /\ MainHoldsMutex(h))

(* A handler that leaves its loop because "Packet is been acked"           *)
(* does so for its own update: the agent has received that UPDATE-ACK.     *)
AckedItself(h, r) == UpdateOf(r) \in activated[h] \cup {mack[h]}

ExitsOnOwnAck ==
  \A h \in Hops, r \in Runs : pc[h][r] \in {"acked", "unlock"} => AckedItself(h, r)

(* The switch goes down the chain from the initiator: when a hop's kernel  *)
(* has switched, the previous hop has at least received the UPDATE-ACK.    *)
UpstreamFirst ==
  \A h \in Hops \ {N}, r \in Runs :
    UpdateOf(r) \in activated[h + 1] => AckedItself(h, r)

(* No agent looks up a flow for an UPDATE-ACK in vain and then             *)
(* dereferences the NULL it got.                                           *)
NoNullDereference == \A h \in Hops : alive[h] # "crashed"

-------------------------------------------------------------------------------
(* What the agents promise together is a commit in two phases: an update   *)
(* is prepared at a hop when its kernel has the "SYN", and committed when  *)
(* it has the "ACK".                                                       *)
Commit == INSTANCE UpdateCommit WITH
            prepared  <- [h \in Hops |-> Installed(h)],
            committed <- activated

(* The protocol implements UpdateCommit: updates are prepared down the     *)
(* chain in order, and committed only when every hop has prepared.         *)
ImplementsCommit == Commit!Spec

-------------------------------------------------------------------------------
(* Liveness.                                                               *)

(* An update that was started is switched to at every hop, and every       *)
(* handler of it ends, whatever UPDATE-SYN-ACKs the network loses:         *)
(* updateBack repeats those and the others relay them.  It may fail to     *)
(* only because an UPDATE-SYN or UPDATE-ACK was lost, which nobody sends   *)
(* twice, or because the last hop timed out: then what it sent may have    *)
(* been lost, or a hop is stranded, which has been acknowledged and has    *)
(* switched, but will not look at its update_ack, and so pass the          *)
(* UPDATE-ACK on, until another UPDATE-SYN-ACK comes by.                   *)
Completed(r) ==
  /\ \A h \in Hops : UpdateOf(r) \in activated[h]
  /\ \A h \in Hops : pc[h][r] = "done" \/ (h = N /\ pc[h][r] = "gaveUp")

Stranded(h, r) == UpdateOf(r) \in activated[h] /\ pc[h][r] = "wait"

Disturbed(r) ==
  \/ lost["SYN"] > 0 \/ lost["ACK"] > 0
  \/ /\ TimedOut(N, r)
     /\ lost["SYNACK"] > 0 \/ \E h \in Hops : Stranded(h, r)

Completes ==
  \A r \in Runs : notifier[r] = "waiting" ~> Completed(r) \/ Disturbed(r)

(* The receive loop always gets the mutex, sets update_ack and goes back   *)
(* to receiving: no handler leaves with the mutex locked for good.         *)
MainNeverStuck == \A h \in Hops : mpc[h] = "lock" ~> mpc[h] = "recv"

(* The handler of the last hop always ends.                                *)
BackEnds ==
  \A r \in Runs : pc[N][r] # "none" ~> pc[N][r] \in {"done", "gaveUp"}

(* "it sends to the next hop infinitely": an UPDATE-SYN that a handler     *)
(* forwards reaches the next hop in spite of a lost datagram.              *)
ForwardsUntilReceived ==
  \A h \in Hops \ {N}, r \in Runs :
    pc[h][r] = "wait" ~> UpdateOf(r) \in Installed(h + 1)
=============================================================================
