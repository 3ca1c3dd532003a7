----------------------------- MODULE UpdateNotify -----------------------------
(***************************************************************************)
(* The initiator of a session update, UserAgent/updateNotify.c.  Each run  *)
(* of the program sends one UPDATE-SYN to the first hop, blocks in         *)
(* recvfrom until a datagram comes back, answers the UPDATE-SYN-ACK of its *)
(* own sequence number with one UPDATE-ACK, and exits.  It neither times   *)
(* out nor sends anything twice.                                           *)
(***************************************************************************)
EXTENDS UpdateNetwork

VARIABLE notifier   \* where each run of the program is

NotifierTypeOK == notifier \in [Runs -> {"idle", "waiting", "confirmed"}]

NotifierInit == notifier = [r \in Runs |-> "idle"]

(* sync_packet: the UPDATE-SYN goes to the first hop.                     *)
NotifySyn(r) ==
  /\ notifier[r] = "idle"
  /\ notifier' = [notifier EXCEPT ![r] = "waiting"]
  /\ Send(Syn(1, r, 0))

(* recvfrom returns an UPDATE-SYN-ACK and it is answered with one         *)
(* UPDATE-ACK.  The test of action and sequence number does not fail here: *)
(* the run's socket is written only by the first hop, which copies both   *)
(* from the run's own UPDATE-SYN.                                         *)
NotifyConfirm(r) ==
  \E m \in net :
    /\ m.type = "SYNACK" /\ m.to = 0 /\ m.run = r
    /\ notifier[r] = "waiting"
    /\ notifier' = [notifier EXCEPT ![r] = "confirmed"]
    /\ ReceiveAndSend(m, {Ack(1, UpdateOf(r))})

NotifierStep(r) == NotifySyn(r) \/ NotifyConfirm(r)
=============================================================================
