---------------------------- MODULE EmulatorServer ----------------------------
(***************************************************************************)
(* The emulator's form of the handshake, emulator_code/serverUDP.c: the    *)
(* servers of the hops 1..N, and the datagrams between them and the        *)
(* clients (EmulatorClient).                                               *)
(*                                                                         *)
(* A server keeps a record per flow, and a flow is its own port and the    *)
(* socket it hears from.  Each run of the client has a socket of its own,  *)
(* and so has each handler that forwards; so at every hop a flow belongs   *)
(* to one run, and since all runs use the sequence number SEQUENCENUM, the *)
(* tests of sequence numbers come down to whether there is a record.       *)
(*                                                                         *)
(* A handler repeats its SYN-ACK until its own record is acknowledged.     *)
(* It shares no flag and takes no mutex: the receive loop and all handlers *)
(* use the records and hashport as they are.                               *)
(***************************************************************************)
EXTENDS Integers, FiniteSets

CONSTANTS
  N,            \* number of hops, servers, in the address list
  Runs,         \* executions of clientUDP
  FirstPort,    \* the first value of hashport
  MaxSent,      \* bound of the code: how often a handler sends its SYN-ACK
  MaxSockets,   \* sockets a server can open for its handlers
  MaxLeaked,    \* bound: sockets of earlier handlers, still open at the start
  CanExpire,    \* may a server's 600 seconds run out?
  MaxLoss,      \* bound: how many datagrams of each type the network loses
  Duplicable    \* the types of datagram it may deliver more than once

Hops == 1..N

Types == {"SYN", "SYNACK", "ACK"}

ASSUME NAssumption == N \in Nat \ {0}
ASSUME LimitsAssumption ==
  /\ FirstPort \in Nat
  /\ MaxSent \in Nat \ {0}
  /\ MaxSockets \in Nat
  /\ MaxLeaked \in Nat
  /\ CanExpire \in BOOLEAN
ASSUME NetworkAssumption ==
  /\ MaxLoss \in [Types -> Nat]
  /\ Duplicable \subseteq Types

(* A SYN or an ACK goes to the main socket of hop "to", and comes from the *)
(* socket of hop to - 1 for the run; a SYN-ACK goes to that socket.  Hop 0 *)
(* is the client.                                                          *)
Message(type, to, r) == [type |-> type, to |-> to, run |-> r]
Messages == [type : Types, to : 0..N, run : Runs]

VARIABLES
  net,          \* the datagrams in flight
  lost,         \* how many of each type were lost
  alive,        \* is the server of the hop running?
  records,      \* the flows, by their runs, that have a record at the hop
  acked,        \* those whose record is marked acked
  pc,           \* where the handler of each run is at each hop
  sent,         \* how often it sent its SYN-ACK
  sockets,      \* the runs for which the hop has opened a socket
  leaked,       \* how many it had opened for handlers that have ended
  hashport,     \* the next port of the last hop
  port          \* the port it put into the response to each run

netVars     == <<net, lost>>
recordVars  == <<records, acked>>
portVars    == <<hashport, port>>
handlerVars == <<pc, sent, sockets, portVars>>
serverVars  == <<alive, leaked, recordVars, handlerVars>>

HandlerStates ==
  {"none",
   "send", "await",      \* sendForward before its loop
   "take", "store",      \* hashport++ in sendBack
   "reply", "loop",      \* in either loop, before the SYN-ACK or the test of acked
   "done", "gaveUp"}     \* the loop ended: acked, or timed out

ServerTypeOK ==
  /\ net \subseteq Messages
  /\ lost \in [Types -> Nat]
  /\ alive \in [Hops -> BOOLEAN]
  /\ records \in [Hops -> SUBSET Runs]
  /\ acked \in [Hops -> SUBSET Runs]
  /\ pc \in [Hops -> [Runs -> HandlerStates]]
  /\ sent \in [Hops -> [Runs -> 0..MaxSent]]
  /\ sockets \in [Hops -> SUBSET Runs]
  /\ leaked \in [Hops -> Nat]
  /\ hashport \in Nat
  /\ port \in [Runs -> Nat]

ServerInit ==
  /\ net = {}
  /\ lost = [t \in Types |-> 0]
  /\ alive = [h \in Hops |-> TRUE]
  /\ records = [h \in Hops |-> {}]
  /\ acked = [h \in Hops |-> {}]
  /\ pc = [h \in Hops |-> [r \in Runs |-> "none"]]
  /\ sent = [h \in Hops |-> [r \in Runs |-> 0]]
  /\ sockets = [h \in Hops |-> {}]
  /\ leaked \in {l \in [Hops -> {0, MaxLeaked}] : l[N] = 0}
  /\ hashport = FirstPort
  /\ port = [r \in Runs |-> 0]

-------------------------------------------------------------------------------
(* The network.                                                            *)

ReceiveAndSend(m, out) ==
  /\ m \in net
  /\ net' = (IF m.type \in Duplicable THEN net ELSE net \ {m}) \cup out
  /\ UNCHANGED lost

Receive(m) == ReceiveAndSend(m, {})

Send(out) ==
  /\ net' = net \cup out
  /\ UNCHANGED lost

Lose ==
  \E m \in net :
    /\ lost[m.type] < MaxLoss[m.type]
    /\ lost' = [lost EXCEPT ![m.type] = @ + 1]
    /\ net' = net \ {m}

-------------------------------------------------------------------------------
(* The receive loop of main: one datagram per step.  The handlers look at  *)
(* nothing of what it does but the record's acked, which one assignment    *)
(* sets.                                                                   *)

(* After each datagram: 600 seconds after the last accepted SYN the        *)
(* process ends, and its handlers with it.                                 *)
TimeCheck(h) ==
  \/ UNCHANGED alive
  \/ CanExpire /\ alive' = [alive EXCEPT ![h] = FALSE]

(* Where handleRequest starts: sendForward unless one address is left.    *)
FirstStep(h) == IF h < N THEN "send" ELSE "take"

(* A SYN of a flow without a record: addItem, a handler, and a new t1.    *)
AcceptSyn(h, r) ==
  /\ alive[h] /\ r \notin records[h]
  /\ Receive(Message("SYN", h, r))
  /\ records' = [records EXCEPT ![h] = @ \cup {r}]
  /\ acked' = [acked EXCEPT ![h] = @ \ {r}]
  /\ pc' = [pc EXCEPT ![h][r] = FirstStep(h)]
  /\ UNCHANGED <<alive, leaked, sent, sockets, portVars>>

(* A SYN that is not newer than the record is ignored.                    *)
IgnoreSyn(h, r) ==
  /\ alive[h] /\ r \in records[h]
  /\ Receive(Message("SYN", h, r))
  /\ TimeCheck(h)
  /\ UNCHANGED <<leaked, recordVars, handlerVars>>

(* An ACK marks the record, if there is one.                              *)
OnAck(h, r) ==
  /\ alive[h]
  /\ Receive(Message("ACK", h, r))
  /\ acked' = [acked EXCEPT ![h] = @ \cup ({r} \cap records[h])]
  /\ TimeCheck(h)
  /\ UNCHANGED <<leaked, records, handlerVars>>

MainStep(h, r) ==
  AcceptSyn(h, r) \/ IgnoreSyn(h, r) \/ OnAck(h, r)

-------------------------------------------------------------------------------
(* The handlers.  Both loops test the record in every round, and in every  *)
(* 40th, from the first, they send the SYN-ACK before the test; after 1000 *)
(* they time out.  What others see of a round that sends nothing is        *)
(* nothing, so "sent" counts the rounds that do, 25 at most; a test that   *)
(* fails is followed by the next SYN-ACK.                                  *)

HandlerGoes(h, r, here, there) ==
  /\ alive[h]
  /\ pc[h][r] = here
  /\ pc' = [pc EXCEPT ![h][r] = there]
  /\ UNCHANGED <<alive, leaked, recordVars>>

(* A handler that forwards has something to send only with a socket.      *)
CanSend(h, r) == h = N \/ r \in sockets[h]

(* The SYN-ACK to cliAddr: the client, or the handler of the last hop.    *)
Reply(h, r) == IF CanSend(h, r) THEN {Message("SYNACK", h - 1, r)} ELSE {}

(* socket finds a free descriptor: of those it gave out none came back.   *)
HasDescriptor(h) == leaked[h] + Cardinality(sockets[h]) < MaxSockets

(* Slip: it does not wait for the response of the next hop.                *)
ForwardSynOnly(h, r) ==
  /\ HandlerGoes(h, r, "send", "reply")
  /\ HasDescriptor(h)
  /\ sockets' = [sockets EXCEPT ![h] = @ \cup {r}]
  /\ Send({Message("SYN", h + 1, r)})
  /\ UNCHANGED <<sent, portVars>>

(* sendForward opens a socket, which it never closes, and sends the SYN    *)
(* without its first address on, once.                                     *)
ForwardSyn(h, r) ==
  /\ HandlerGoes(h, r, "send", "await")
  /\ HasDescriptor(h)
  /\ sockets' = [sockets EXCEPT ![h] = @ \cup {r}]
  /\ Send({Message("SYN", h + 1, r)})
  /\ UNCHANGED <<sent, portVars>>

(* No descriptor is left: socket, sendto and recvfrom fail untested, and   *)
(* the loop starts with a response of negative length, which is not sent.  *)
ForwardNoSocket(h, r) ==
  /\ HandlerGoes(h, r, "send", "reply")
  /\ ~HasDescriptor(h)
  /\ UNCHANGED <<netVars, sent, sockets, portVars>>

(* recvfrom without a time-out; what comes is taken for the SYN-ACK, which *)
(* the loop relays.                                                        *)
ForwardReceive(h, r) ==
  /\ HandlerGoes(h, r, "await", "reply")
  /\ Receive(Message("SYNACK", h, r))
  /\ UNCHANGED <<sent, sockets, portVars>>

(* sendBack reads hashport for its response ...                            *)
TakePort(h, r) ==
  /\ HandlerGoes(h, r, "take", "store")
  /\ port' = [port EXCEPT ![r] = hashport]
  /\ UNCHANGED <<netVars, sent, sockets, hashport>>

(* Slip: the response takes hashport in one statement, and another         *)
(* increments it.                                                          *)
StorePortApart(h, r) ==
  /\ HandlerGoes(h, r, "store", "reply")
  /\ hashport' = hashport + 1
  /\ UNCHANGED <<netVars, sent, sockets, port>>

(* ... and stores its successor, which no lock makes one step.             *)
StorePort(h, r) ==
  /\ HandlerGoes(h, r, "store", "reply")
  /\ hashport' = port[r] + 1
  /\ UNCHANGED <<netVars, sent, sockets, port>>

(* A round that sends: the SYN-ACK goes out before the test of acked.      *)
SendReply(h, r) ==
  /\ HandlerGoes(h, r, "reply", "loop")
  /\ sent' = [sent EXCEPT ![h][r] = @ + 1]
  /\ Send(Reply(h, r))
  /\ UNCHANGED <<sockets, portVars>>

(* Slip: any record will do.                                               *)
HasRecord(h, r) == r \in records[h]

(* What a handler tests in each round.                                    *)
IsAcked(h, r) == r \in acked[h]

(* Slip: one SYN-ACK too many.                                               *)
AfterOneMore(h, r) == sent[h][r] > MaxSent

SentLast(h, r) == sent[h][r] >= MaxSent

(* Slip: the handler ends without passing the ACK on.                      *)
PassNothingOn(h, r) ==
  /\ HandlerGoes(h, r, "loop", "done")
  /\ IsAcked(h, r)
  /\ UNCHANGED <<netVars, sent, sockets, portVars>>

(* The record is acknowledged: sendForward tells the next hop.            *)
PassAckOn(h, r) ==
  /\ HandlerGoes(h, r, "loop", "done")
  /\ IsAcked(h, r)
  /\ IF h < N /\ CanSend(h, r) THEN Send({Message("ACK", h + 1, r)})
                               ELSE UNCHANGED netVars
  /\ UNCHANGED <<sent, sockets, portVars>>

(* It is not, and it was the last round.                                 *)
GiveUp(h, r) ==
  /\ HandlerGoes(h, r, "loop", "gaveUp")
  /\ ~IsAcked(h, r) /\ SentLast(h, r)
  /\ UNCHANGED <<netVars, sent, sockets, portVars>>

(* It is not, in any of the 40 tests before the next SYN-ACK.              *)
GoOn(h, r) ==
  /\ HandlerGoes(h, r, "loop", "reply")
  /\ ~IsAcked(h, r) /\ ~SentLast(h, r)
  /\ UNCHANGED <<netVars, sent, sockets, portVars>>

HandlerStep(h, r) ==
  \/ ForwardSyn(h, r) \/ ForwardNoSocket(h, r) \/ ForwardReceive(h, r)
  \/ TakePort(h, r) \/ StorePort(h, r) \/ SendReply(h, r)
  \/ PassAckOn(h, r) \/ GiveUp(h, r) \/ GoOn(h, r)
=============================================================================
