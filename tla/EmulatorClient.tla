---------------------------- MODULE EmulatorClient ----------------------------
(***************************************************************************)
(* The client of the emulator, emulator_code/clientUDP.c.  Each run of the *)
(* program sends one SYN to the first hop, blocks in recvfrom, takes       *)
(* whatever comes for the SYN-ACK, sends one ACK, and then a keep-alive    *)
(* every five seconds until it is killed.                                  *)
(***************************************************************************)
EXTENDS EmulatorServer

VARIABLE client   \* where each run of the client is

ClientTypeOK == client \in [Runs -> {"idle", "waiting", "confirmed"}]

ClientInit == client = [r \in Runs |-> "idle"]

(* sync_packet.                                                            *)
SyncPacket(r) ==
  /\ client[r] = "idle"
  /\ client' = [client EXCEPT ![r] = "waiting"]
  /\ Send({Message("SYN", 1, r)})

(* A test of the SYN-ACK follows recvfrom, but both its branches lead to   *)
(* "confirmed".                                                            *)
Confirm(r) ==
  /\ client[r] = "waiting"
  /\ client' = [client EXCEPT ![r] = "confirmed"]
  /\ ReceiveAndSend(Message("SYNACK", 0, r), {Message("ACK", 1, r)})

(* keepalive: a datagram of another kind, sent to the first hop every five *)
(* seconds for as long as the client runs.  It is received some time, and  *)
(* all it does is to wake the receive loop, which looks at the time.       *)
Keepalive(r) ==
  /\ client[r] = "confirmed"
  /\ alive[1]
  /\ TimeCheck(1)
  /\ UNCHANGED <<netVars, leaked, recordVars, handlerVars, client>>

ClientStep(r) == (SyncPacket(r) \/ Confirm(r)) /\ UNCHANGED serverVars
=============================================================================
