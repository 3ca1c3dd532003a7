---------------------------- MODULE UpdateNetwork ----------------------------
(***************************************************************************)
(* The UDP datagrams of the session-update protocol, and the network that  *)
(* carries them from the update initiator (updateNotify) along the chain   *)
(* of agents (MiddleboxAgent) and back.                                    *)
(*                                                                         *)
(* The hops 1..N are the entries of the address list that updateNotify     *)
(* puts in its UPDATE-SYN; hop 0 is the initiator.  A run is one execution *)
(* of updateNotify: it updates one flow, under one sequence number.        *)
(*                                                                         *)
(* The set "net" holds the datagrams in flight, so they are delivered in   *)
(* any order.  Of each type a bounded number is lost.  A datagram of a     *)
(* type in Duplicable stays in the set when it is delivered and may be     *)
(* delivered again; one that never is again is a datagram that was not     *)
(* duplicated, so this covers every safety behaviour of a network that     *)
(* duplicates some datagrams.                                              *)
(***************************************************************************)
EXTENDS Integers

CONSTANTS
  N,            \* number of hops in the address list of the update
  Runs,         \* executions of updateNotify
  Flows,        \* the flows an update can be about
  SeqOf,        \* the sequence number of each run
  FlowOf,       \* the flow of each run
  AckFlow,      \* the flow settingAck writes into every forwarded UPDATE-ACK
  MaxRestarts,  \* bound: how often the agent of one hop is started again
  MaxLoss,      \* bound: how many datagrams of each type the network loses
  Duplicable    \* the types of datagram the network may deliver more than once

Hops == 1..N

(* The datagrams of an update: UPDATE-SYN, UPDATE-SYN-ACK, UPDATE-ACK.    *)
Types == {"SYN", "SYNACK", "ACK"}

ASSUME NAssumption == N \in Nat \ {0}
ASSUME RunsAssumption ==
  /\ SeqOf \in [Runs -> Nat]
  /\ FlowOf \in [Runs -> Flows]
  /\ AckFlow \in Flows
ASSUME BoundsAssumption ==
  /\ MaxRestarts \in Nat
  /\ MaxLoss \in [Types -> Nat]
  /\ Duplicable \subseteq Types

(* An update is what the agents and the kernels act on: a flow and the    *)
(* sequence number under which it is updated.                             *)
UpdateOf(r) == <<FlowOf[r], SeqOf[r]>>
Updates     == {UpdateOf(r) : r \in Runs} \cup {<<AckFlow, SeqOf[r]>> : r \in Runs}

Epochs == 0..MaxRestarts

(* An UPDATE-SYN for hop "to".  Its flow, sequence number and remaining   *)
(* address list are those of the run.  It comes from the socket that hop  *)
(* to - 1 opened for the run, in that agent's given epoch (incarnation);  *)
(* the receiver keeps that socket's address as cliAddr.                   *)
Syn(to, r, e) == [type |-> "SYN", to |-> to, run |-> r, epoch |-> e]

(* An UPDATE-SYN-ACK, sent to such a socket.                              *)
SynAck(to, r, e) == [type |-> "SYNACK", to |-> to, run |-> r, epoch |-> e]

(* An UPDATE-ACK for the main socket of hop "to".                         *)
Ack(to, u) == [type |-> "ACK", to |-> to, update |-> u]

Messages ==
       [type : {"SYN"}, to : Hops, run : Runs, epoch : Epochs]
  \cup [type : {"SYNACK"}, to : 0..N-1, run : Runs, epoch : Epochs]
  \cup [type : {"ACK"}, to : Hops, update : Updates]

VARIABLES
  net,          \* the datagrams in flight
  lost          \* how many of each type were lost so far

netVars == <<net, lost>>

NetTypeOK ==
  /\ net \subseteq Messages
  /\ lost \in [Types -> Nat]
  /\ \A t \in Types : lost[t] <= MaxLoss[t]

NetInit ==
  /\ net = {}
  /\ lost = [t \in Types |-> 0]

(* recvfrom returns m, and the handler sends the messages of "out".       *)
(* Another copy of m may still be to come.                                *)
ReceiveAndSend(m, out) ==
  /\ m \in net
  /\ net' = (IF m.type \in Duplicable THEN net ELSE net \ {m}) \cup out
  /\ UNCHANGED lost

Receive(m) == ReceiveAndSend(m, {})

Send(m) ==
  /\ net' = net \cup {m}
  /\ UNCHANGED lost

(* The network drops a datagram.                                          *)
Lose ==
  \E m \in net :
    /\ lost[m.type] < MaxLoss[m.type]
    /\ lost' = [lost EXCEPT ![m.type] = @ + 1]
    /\ net' = net \ {m}
=============================================================================
