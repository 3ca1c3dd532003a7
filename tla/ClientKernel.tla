----------------------------- MODULE ClientKernel -----------------------------
(***************************************************************************)
(* The client's kernel module: it sends the packets of the session to a    *)
(* middlebox instead of the server and gives those that come back from a   *)
(* middlebox the server's address.  The agent on the host tells it through *)
(* netlink to prepare for a new middlebox ("SYN") and to switch to it      *)
(* ("ACK"), an operator to return to the old one ("RESET").                *)
(***************************************************************************)
EXTENDS PacketPath

CONSTANT Resetters    \* the commands operators may give: runs of netlink_user

VARIABLES
  clientRecords,      \* records of the client's module
  resetPc             \* where the handler of each "RESET" is

clientVars == <<clientRecords, resetPc>>

ToOldBox   == Record(ToAddress(Server, Service), Zero, OldBox)
FromOldBox == Record(FromSource(OldBox, Service), Server, Zero)
FromNewBox == Record(FromSource(NewBox, Service), Server, Zero)

ClientInit ==
  /\ clientRecords = HashAdd(HashAdd(<<>>, ToOldBox), FromOldBox)
  /\ resetPc = [k \in Resetters |-> "idle"]

ClientTypeOK ==
  /\ TableOK(clientRecords)
  /\ resetPc \in [Resetters -> {"idle", "addTo", "deleteFrom", "addFrom", "done"}]

(* netlink_agent runs in the process that sends the command; each "SYN"    *)
(* adds a record, whether there is one with its key or not.                *)
ClientSyn == clientRecords' = HashAdd(clientRecords, FromNewBox) /\ UNCHANGED resetPc

ClientAck ==
  /\ clientRecords' = SetDst(clientRecords, ToAddress(Server, Service), NewBox)
  /\ UNCHANGED resetPc

(* "RESET" is four sections under the write lock, with packets and other   *)
(* commands between them.                                                  *)
ResetSection(k, from, to, table) ==
  /\ resetPc[k] = from
  /\ resetPc' = [resetPc EXCEPT ![k] = to]
  /\ clientRecords' = table

(* Slip: what comes from the new middlebox is not accepted any longer.     *)
ClientResetDropsNewBox(k) ==
  \/ ResetSection(k, "idle", "addTo", DeleteHash(clientRecords, ToOldBox))
  \/ ResetSection(k, "addTo", "deleteFrom", AddHash(clientRecords, ToOldBox))
  \/ ResetSection(k, "deleteFrom", "addFrom", DeleteHash(clientRecords, FromNewBox))
  \/ ResetSection(k, "addFrom", "done", AddHash(clientRecords, FromOldBox))

(* Slip: each rule is added before it is deleted.                          *)
ClientResetAddsFirst(k) ==
  \/ ResetSection(k, "idle", "addTo", AddHash(clientRecords, ToOldBox))
  \/ ResetSection(k, "addTo", "deleteFrom", DeleteHash(clientRecords, ToOldBox))
  \/ ResetSection(k, "deleteFrom", "addFrom", AddHash(clientRecords, FromOldBox))
  \/ ResetSection(k, "addFrom", "done", DeleteHash(clientRecords, FromOldBox))

ClientReset(k) ==
  \/ ResetSection(k, "idle", "addTo", DeleteHash(clientRecords, ToOldBox))
  \/ ResetSection(k, "addTo", "deleteFrom", AddHash(clientRecords, ToOldBox))
  \/ ResetSection(k, "deleteFrom", "addFrom", DeleteHash(clientRecords, FromOldBox))
  \/ ResetSection(k, "addFrom", "done", AddHash(clientRecords, FromOldBox))

(* Slip: the packet's own port is looked up instead of the service's.      *)
ClientOutgoingBySource(pk) ==
  \/ Lookup(pk, "output", "foundOut", Client, clientRecords,
            ToAddress(skb[pk].dst, skb[pk].sport))
  \/ RewriteDst(pk, Client, clientRecords)

(* outgoing_begin and incoming_begin.                                      *)
ClientOutgoing(pk) ==
  \/ Lookup(pk, "output", "foundOut", Client, clientRecords,
            ToAddress(skb[pk].dst, skb[pk].dport))
  \/ RewriteDst(pk, Client, clientRecords)

ClientIncoming(pk) ==
  \/ Lookup(pk, "input", "foundIn", Client, clientRecords,
            FromSource(skb[pk].src, skb[pk].sport))
  \/ RewriteSrc(pk, Client, clientRecords)
===============================================================================
