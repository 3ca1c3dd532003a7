----------------------------- MODULE NetlinkUser -----------------------------
(***************************************************************************)
(* netlink_user.c: an operator types a command for the kernel module of a  *)
(* host and waits for its answer.  The command is "RESET" here: "SYN" and  *)
(* "ACK" are the agents', and no handler does anything for another word.   *)
(* sendmsg runs the module's handler; when it returns the answer is in the *)
(* socket, where recvmsg finds it and the program ends, unless the handler *)
(* could not allocate one: then recvmsg waits for ever.  A handler always  *)
(* gets its lock here; that it may wait for it for ever is in TableAccess  *)
(* (HooksReturn).                                                          *)
(***************************************************************************)
EXTENDS ClientKernel, ServerKernel, MiddleboxKernel

VARIABLE tool    \* where each run of the program is

ToolTypeOK == tool \in [Resetters -> {"idle", "answered", "starved"}]

ToolInit == tool = [k \in Resetters |-> "idle"]

(* The handler returns with an answer sent, or without memory for one.     *)
Answered(k) == tool' = [tool EXCEPT ![k] = "answered"]
Starved(k)  == MayFailAlloc /\ tool' = [tool EXCEPT ![k] = "starved"]

Unused(k) == tool[k] = "idle" /\ resetPc[k] = "idle"

(* "RESET" at the client: its four sections, and then the answer.          *)
ClientCommand(k) ==
  \/ ClientReset(k) /\ UNCHANGED tool
  \/ /\ tool[k] = "idle" /\ resetPc[k] = "done"
     /\ Answered(k) \/ Starved(k)
     /\ UNCHANGED clientVars

(* At the server the answer is allocated first, and without one the        *)
(* command is not looked at.                                               *)
ServerCommand(k) ==
  /\ Unused(k)
  /\ \/ ServerReset /\ Answered(k)
     \/ Starved(k) /\ UNCHANGED serverRecords

(* A middlebox's handler answers whatever it is told.                      *)
BoxCommand(k) ==
  /\ Unused(k)
  /\ Answered(k) \/ Starved(k)
===============================================================================
