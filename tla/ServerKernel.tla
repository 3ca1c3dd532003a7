----------------------------- MODULE ServerKernel -----------------------------
(***************************************************************************)
(* The server's kernel module: it gives the packets that come from a       *)
(* middlebox the client's address and sends the answers to a middlebox     *)
(* instead of the client.                                                  *)
(***************************************************************************)
EXTENDS PacketPath

CONSTANT MayFailAlloc    \* TRUE: the allocation of a netlink reply may fail

VARIABLE serverRecords   \* records of the server's module

AnswersToOldBox == Record(BackTo(Client, Service), Zero, OldBox)
CallsFromOldBox == Record(ToService(OldBox, Service), Client, Zero)
(* Slip: the key has the port as the source port.                          *)
CallsFromNewBoxBySource == Record(FromSource(NewBox, Service), Client, Zero)

CallsFromNewBox == Record(ToService(NewBox, Service), Client, Zero)

ServerInit ==
  serverRecords = HashAdd(HashAdd(<<>>, AnswersToOldBox), CallsFromOldBox)

ServerTypeOK == TableOK(serverRecords)

(* hello_nl_recv_msg allocates its reply before it looks at the command,   *)
(* and returns at once when it cannot.                                     *)
ReplyNotAllocated == MayFailAlloc /\ UNCHANGED serverRecords

(* Slip: the commands "SYN" and "ACK" are mixed up.                        *)
ServerSynSwitches ==
  serverRecords' = SetDst(serverRecords, BackTo(Client, Service), NewBox)

ServerSyn ==
  \/ serverRecords' = AddHash(serverRecords, CallsFromNewBox)
  \/ ReplyNotAllocated

(* Slip: the key is that of the client's records.                          *)
ServerAckByDport ==
  serverRecords' = SetDst(serverRecords, ToAddress(Client, Service), NewBox)

ServerAck ==
  \/ serverRecords' = SetDst(serverRecords, BackTo(Client, Service), NewBox)
  \/ ReplyNotAllocated

(* "RESET" adds the record of the old middlebox if there is none with its  *)
(* key: it does not take back what "ACK" has written into it.              *)
ServerReset == serverRecords' = AddHash(serverRecords, AnswersToOldBox)

(* outgoing_begin and incoming_begin.                                      *)
ServerOutgoing(pk) ==
  \/ Lookup(pk, "output", "foundOut", Server, serverRecords,
            BackTo(skb[pk].dst, skb[pk].sport))
  \/ RewriteDst(pk, Server, serverRecords)

ServerIncoming(pk) ==
  \/ Lookup(pk, "input", "foundIn", Server, serverRecords,
            ToService(skb[pk].src, skb[pk].dport))
  \/ RewriteSrc(pk, Server, serverRecords)
===============================================================================
