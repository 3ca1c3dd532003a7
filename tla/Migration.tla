------------------------------ MODULE Migration ------------------------------
(***************************************************************************)
(* A session migrates from one middlebox to another while its packets      *)
(* flow: the kernel modules of the client, the middleboxes and the server, *)
(* the packets between them, and the agents, of whom only what             *)
(* UpdateProtocol is shown to implement is kept: UpdateCommit.             *)
(***************************************************************************)
EXTENDS NetlinkUser

CONSTANTS
  Updates,      \* the updates the agents run, all to the new middlebox
  MaxRepeats    \* bound: how often restarted agents repeat a "SYN"

RepeatsAssumption == MaxRepeats \in Nat
ASSUME RepeatsAssumption

(* The hosts whose agents an update visits, in the order of MBox.          *)
Chain == <<Server, NewBox, Client>>

VARIABLES
  prepared,     \* the updates each agent has passed as "SYN" to its kernel
  committed,    \* ... and as "ACK"
  repeats       \* how often a restarted agent has repeated a "SYN"

kernelVars == <<clientVars, serverRecords, tool>>
agentVars  == <<prepared, committed, repeats>>
vars == <<skb, kernelVars, agentVars>>

Agents == INSTANCE UpdateCommit WITH N <- Len(Chain)

Init ==
  /\ PacketsInit
  /\ ClientInit
  /\ ServerInit
  /\ ToolInit
  /\ Agents!Init
  /\ repeats = 0

(* send_netlink: the handler of the host's kernel runs before it returns.  *)
(* An agent passes an update's "SYN" on once in the life of its process    *)
(* (UpdateProtocol's SynOncePerIncarnation); one that was started again    *)
(* has forgotten that it did.                                              *)
AgentSyn(h, u) ==
  /\ \/ u \notin prepared[h] /\ UNCHANGED repeats
     \/ u \in prepared[h] /\ repeats < MaxRepeats /\ repeats' = repeats + 1
  /\ Agents!Prepare(h, u)
  /\ \/ Chain[h] = Client /\ ClientSyn /\ UNCHANGED <<skb, serverRecords, tool>>
     \/ Chain[h] = Server /\ ServerSyn /\ UNCHANGED <<skb, clientVars, tool>>
     \/ Chain[h] \in Boxes /\ UNCHANGED <<skb, kernelVars>>

AgentAck(h, u) ==
  /\ Agents!CommitTo(h, u)
  /\ UNCHANGED repeats
  /\ \/ Chain[h] = Client /\ ClientAck /\ UNCHANGED <<skb, serverRecords, tool>>
     \/ Chain[h] = Server /\ ServerAck /\ UNCHANGED <<skb, clientVars, tool>>
     \/ Chain[h] \in Boxes /\ UNCHANGED <<skb, kernelVars>>

Agent == \E h \in 1..Len(Chain), u \in Updates : AgentSyn(h, u) \/ AgentAck(h, u)

(* The runs of netlink_user; an operator chooses the host.                 *)
Operator(k) ==
  /\ \/ ClientCommand(k) /\ UNCHANGED serverRecords
     \/ ServerCommand(k) /\ UNCHANGED clientVars
     \/ BoxCommand(k) /\ UNCHANGED <<clientVars, serverRecords>>
  /\ UNCHANGED <<skb, agentVars>>

(* Both ends send TCP segments of the session; datagrams between the same  *)
(* ports are not for the modules.                                          *)
Talk(pk) ==
  \E proto \in {"TCP", "UDP"} :
    \/ Emit(pk, Client, Server, Ephemeral, Service, proto)
    \/ Emit(pk, Server, Client, Service, Ephemeral, proto)

Travel(pk) ==
  \/ ClientOutgoing(pk)
  \/ ClientIncoming(pk)
  \/ ServerOutgoing(pk)
  \/ ServerIncoming(pk)
  \/ \E box \in Boxes : Forward(pk, box)
  \/ Arrive(pk)

Traffic ==
  \E pk \in Packets :
    (Talk(pk) \/ Travel(pk) \/ Consume(pk)) /\ UNCHANGED <<kernelVars, agentVars>>

Next == Agent \/ (\E k \in Resetters : Operator(k)) \/ Traffic

Spec == Init /\ [][Next]_vars

(* A packet that can move does: the hooks run to their end and the wire    *)
(* delivers.  Nobody has to send, and no agent has to finish an update.    *)
Fairness ==
  \A pk \in Packets : WF_vars(Travel(pk) /\ UNCHANGED <<kernelVars, agentVars>>)

FairSpec == Spec /\ Fairness

TypeOK ==
  /\ PacketsOK
  /\ ClientTypeOK
  /\ ServerTypeOK
  /\ ToolTypeOK
  /\ prepared \in [1..Len(Chain) -> SUBSET Updates]
  /\ committed \in [1..Len(Chain) -> SUBSET Updates]
  /\ repeats \in 0..MaxRepeats

-------------------------------------------------------------------------------
(* Safety.                                                                 *)

(* "Loss-free migration": whatever rules are in force on the hosts a       *)
(* packet passes, and whenever they change on its way, it reaches the end  *)
(* it was sent to, which finds in it the addresses the other end wrote.    *)
LossFree ==
  \A pk \in Packets :
    /\ skb[pk].at # "dropped"
    /\ skb[pk].at = "delivered" =>
         [src |-> skb[pk].src, dst |-> skb[pk].dst] = skb[pk].sent
         /\ skb[pk].host = skb[pk].sent.dst

(* Every segment of the session goes through a middlebox, and through only *)
(* one, also when the rules change while it travels; nothing else does.    *)
ThroughOneBox ==
  \A pk \in Packets : skb[pk].at = "delivered" =>
    \/ skb[pk].proto = "TCP" /\ \E box \in Boxes : skb[pk].via = {box}
    \/ skb[pk].proto = "UDP" /\ skb[pk].via = {}

(* A segment on the wire has a checksum that covers its addresses: the     *)
(* hooks that rewrite what is sent or forwarded correct it.  (Those that   *)
(* rewrite what is received do not.)                                       *)
WireChecksum ==
  \A pk \in Packets : skb[pk].at = "wire" => CsumCovers(skb[pk])

(* A packet is on the new path only when both ends have a rule for what    *)
(* comes out of the new middlebox: the agents' "SYN" phase was in time.    *)
OnNewPath(pk) ==
  skb[pk].at \in {"wire", "input"} /\ NewBox \in {skb[pk].src, skb[pk].dst}

NewPathReady ==
  (\E pk \in Packets : OnNewPath(pk)) =>
    /\ HashFind(clientRecords, FromNewBox.key) # Null
    /\ HashFind(serverRecords, CallsFromNewBox.key) # Null

(* Records that share a key rewrite alike: which of them a hook finds, and *)
(* which of them "ACK" changes or "RESET" deletes, makes no difference.    *)
RulesAgree ==
  \A t \in {clientRecords, serverRecords} : \A i, j \in DOMAIN t :
    t[i].key = t[j].key => t[i] = t[j]

(* "RESET" takes back what "ACK" did at the client, but not what it did at *)
(* the server: the two directions of the session may take different        *)
(* middleboxes from then on.  That works because the client keeps what     *)
(* "SYN" added: but for the moment in which a "RESET" has deleted a rule   *)
(* and not added it again, the client has one for whatever middlebox the   *)
(* server answers through.                                                 *)
AnswersAccepted ==
  (\A k \in Resetters : resetPc[k] # "addFrom") =>
    LET box == serverRecords[HashFind(serverRecords, AnswersToOldBox.key)].dst
    IN HashFind(clientRecords, FromSource(box, Service)) # Null

(* Nor is the other direction ever without a middlebox, however "RESET"s   *)
(* interleave with each other and with the agents' commands: but for such  *)
(* a moment, all that the client sends is led to a middlebox, and to one   *)
(* whose answers the client accepts.  (So every "RESET" adds what it has   *)
(* deleted, and an "ACK" that comes between is not half done.)             *)
CallsRedirected ==
  (\A k \in Resetters : resetPc[k] \notin {"addTo", "addFrom"}) =>
    LET i == HashFind(clientRecords, ToOldBox.key)
    IN /\ i # Null
       /\ clientRecords[i].dst \in Boxes
       /\ HashFind(clientRecords, FromSource(clientRecords[i].dst, Service)) # Null

-------------------------------------------------------------------------------
(* Liveness.                                                               *)

(* When both ends have switched, the old middlebox is soon out of use for  *)
(* good, and can be taken down.                                            *)
Switched == \E u \in Updates : u \in committed[1] /\ u \in committed[3]
UsesOldBox(pk) ==
  skb[pk].at \in {"wire", "input"} /\ OldBox \in {skb[pk].src, skb[pk].dst}

OldPathDrains ==
  Switched ~> [](\A pk \in Packets : ~UsesOldBox(pk))
===============================================================================
