---------------------------- MODULE EmulatorProofs ----------------------------
(***************************************************************************)
(* Proofs about the emulator for every number of hops, every set of runs,  *)
(* any loss and duplication, and however many sockets and seconds the      *)
(* servers have.                                                           *)
(***************************************************************************)
EXTENDS Emulator, FiniteSetTheorems, TLAPS

USE NAssumption, LimitsAssumption, NetworkAssumption DEF Hops

-------------------------------------------------------------------------------
(* Type correctness, with where a handler of which hop can be.             *)

PlaceInv ==
  \A h \in Hops, r \in Runs :
    /\ pc[h][r] \in {"send", "await"} => h < N
    /\ pc[h][r] \in {"take", "store"} => h = N
    /\ pc[h][r] \in {"none", "send"} => r \notin sockets[h]
    /\ r \notin records[h] => pc[h][r] = "none"
    /\ acked[h] \subseteq records[h]

(* A SYN-ACK is sent only below the limit.                                 *)
RoundsInv ==
  \A h \in Hops, r \in Runs :
    /\ pc[h][r] \in {"none", "send", "await", "take", "store"} => sent[h][r] = 0
    /\ pc[h][r] = "reply" => sent[h][r] < MaxSent

TypeInv == TypeOK /\ PlaceInv /\ RoundsInv

LEMMA MessageTypes ==
  ASSUME NEW type \in Types, NEW to \in 0..N, NEW r \in Runs
  PROVE  /\ Message(type, to, r) \in Messages
         /\ Message(type, to, r).type = type
         /\ Message(type, to, r).to = to
         /\ Message(type, to, r).run = r
  BY DEF Messages, Message

LEMMA TypeInvInit == Init => TypeInv
<1> SUFFICES ASSUME Init PROVE TypeInv
  OBVIOUS
<1>1. TypeOK
  <2>1. leaked \in [Hops -> Nat]
    <3>1. leaked \in [Hops -> {0, MaxLeaked}]
      BY DEF Init, ServerInit
    <3>2. {0, MaxLeaked} \subseteq Nat
      OBVIOUS
    <3> QED
      BY <3>1, <3>2
  <2>2. sent \in [Hops -> [Runs -> 0..MaxSent]]
    BY DEF Init, ServerInit
  <2>3. pc \in [Hops -> [Runs -> HandlerStates]]
    BY DEF Init, ServerInit, HandlerStates
  <2>4. /\ net \subseteq Messages
        /\ lost \in [Types -> Nat]
        /\ alive \in [Hops -> BOOLEAN]
    BY DEF Init, ServerInit
  <2>5. /\ records \in [Hops -> SUBSET Runs]
        /\ acked \in [Hops -> SUBSET Runs]
        /\ sockets \in [Hops -> SUBSET Runs]
    BY DEF Init, ServerInit
  <2>6. /\ hashport \in Nat
        /\ port \in [Runs -> Nat]
        /\ ClientTypeOK
    BY DEF Init, ServerInit, ClientInit, ClientTypeOK
  <2> QED
    BY <2>1, <2>2, <2>3, <2>4, <2>5, <2>6 DEF TypeOK, ServerTypeOK
<1>2. PlaceInv
  BY DEF Init, ServerInit, PlaceInv
<1>3. RoundsInv
  BY DEF Init, ServerInit, RoundsInv
<1> QED
  BY <1>1, <1>2, <1>3 DEF TypeInv

(* What the steps do to where the handler of a run is.                     *)
Moved(h, r, here, there) ==
  /\ pc[h][r] = here
  /\ pc' \in [Hops -> [Runs -> HandlerStates]]
  /\ \A g \in Hops, s \in Runs :
       pc'[g][s] = IF g = h /\ s = r THEN there ELSE pc[g][s]

LEMMA HandlerMoves ==
  ASSUME TypeOK, NEW h \in Hops, NEW r \in Runs,
         NEW here, NEW there \in HandlerStates, HandlerGoes(h, r, here, there)
  PROVE  Moved(h, r, here, there) /\ UNCHANGED <<alive, leaked, records, acked>>
  BY DEF TypeOK, ServerTypeOK, HandlerGoes, Moved, recordVars

(* The handler's steps by the points they connect, with what each sends.   *)
LEMMA HandlerSteps ==
  ASSUME TypeOK, NEW h \in Hops, NEW r \in Runs
  PROVE  /\ ForwardSyn(h, r) => Moved(h, r, "send", "await")
         /\ ForwardNoSocket(h, r) => Moved(h, r, "send", "reply")
         /\ ForwardReceive(h, r) => Moved(h, r, "await", "reply")
         /\ TakePort(h, r) => Moved(h, r, "take", "store")
         /\ StorePort(h, r) => Moved(h, r, "store", "reply")
         /\ SendReply(h, r) => Moved(h, r, "reply", "loop")
         /\ PassAckOn(h, r) => Moved(h, r, "loop", "done")
         /\ GiveUp(h, r) => Moved(h, r, "loop", "gaveUp")
         /\ GoOn(h, r) => Moved(h, r, "loop", "reply")
         /\ HandlerStep(h, r) => UNCHANGED <<alive, leaked, records, acked>>
<1> /\ "send" \in HandlerStates /\ "await" \in HandlerStates /\ "take" \in HandlerStates
    /\ "store" \in HandlerStates /\ "loop" \in HandlerStates /\ "done" \in HandlerStates
    /\ "gaveUp" \in HandlerStates /\ "reply" \in HandlerStates
  BY DEF HandlerStates
<1>1. ForwardSyn(h, r) => HandlerGoes(h, r, "send", "await")
  BY DEF ForwardSyn
<1>2. ForwardNoSocket(h, r) => HandlerGoes(h, r, "send", "reply")
  BY DEF ForwardNoSocket
<1>3. ForwardReceive(h, r) => HandlerGoes(h, r, "await", "reply")
  BY DEF ForwardReceive
<1>4. TakePort(h, r) => HandlerGoes(h, r, "take", "store")
  BY DEF TakePort
<1>5. StorePort(h, r) => HandlerGoes(h, r, "store", "reply")
  BY DEF StorePort
<1>6. PassAckOn(h, r) => HandlerGoes(h, r, "loop", "done")
  BY DEF PassAckOn
<1>7. GiveUp(h, r) => HandlerGoes(h, r, "loop", "gaveUp")
  BY DEF GiveUp
<1>8. GoOn(h, r) => HandlerGoes(h, r, "loop", "reply")
  BY DEF GoOn
<1>9. SendReply(h, r) => HandlerGoes(h, r, "reply", "loop")
  BY DEF SendReply
<1> QED
  BY <1>1, <1>2, <1>3, <1>4, <1>5, <1>6, <1>7, <1>8, <1>9, HandlerMoves DEF HandlerStep

(* A SYN that is accepted starts a handler; no other step of the receive   *)
(* loop moves one.                                                         *)
LEMMA AcceptSteps ==
  ASSUME TypeInv, NEW h \in Hops, NEW r \in Runs, AcceptSyn(h, r)
  PROVE  /\ Moved(h, r, "none", FirstStep(h))
         /\ FirstStep(h) = IF h < N THEN "send" ELSE "take"
         /\ records' = [records EXCEPT ![h] = @ \cup {r}]
         /\ UNCHANGED <<acked, sockets, sent, leaked, hashport, port>>
<1>0. TypeOK /\ PlaceInv
  BY DEF TypeInv
<1>1. pc[h][r] = "none" /\ r \notin acked[h]
  BY <1>0 DEF AcceptSyn, PlaceInv
<1>2. FirstStep(h) \in HandlerStates
  BY DEF FirstStep, HandlerStates
<1>3. Moved(h, r, "none", FirstStep(h))
  BY <1>0, <1>1, <1>2 DEF AcceptSyn, Moved, TypeOK, ServerTypeOK
<1>4. UNCHANGED acked
  BY <1>0, <1>1 DEF AcceptSyn, TypeOK, ServerTypeOK
<1> QED
  BY <1>3, <1>4 DEF AcceptSyn, FirstStep, portVars

LEMMA PlaceStep ==
  ASSUME TypeInv, [Next]_vars
  PROVE  PlaceInv'
<1>0. TypeOK /\ PlaceInv
  BY DEF TypeInv
<1>1. ASSUME UNCHANGED <<pc, sockets, records, acked>> PROVE PlaceInv'
  BY <1>0, <1>1 DEF PlaceInv
<1>2. ASSUME NEW h \in Hops, NEW r \in Runs, AcceptSyn(h, r) PROVE PlaceInv'
  <2>1. /\ Moved(h, r, "none", IF h < N THEN "send" ELSE "take")
        /\ UNCHANGED <<acked, sockets>>
    BY <1>2, AcceptSteps
  <2>2. /\ records' = [records EXCEPT ![h] = @ \cup {r}]
        /\ records \in [Hops -> SUBSET Runs]
    BY <1>0, <1>2, AcceptSteps DEF TypeOK, ServerTypeOK
  <2>3. \A g \in Hops : records[g] \subseteq records'[g]
                      /\ (g # h => records'[g] = records[g])
                      /\ (g = h => records'[g] = records[g] \cup {r})
    BY <2>2
  <2>4. PICK there \in {"send", "take"} :
           /\ Moved(h, r, "none", there)
           /\ there = "send" => h < N
           /\ there = "take" => h = N
    BY <2>1
  <2> SUFFICES ASSUME NEW g \in Hops, NEW s \in Runs
               PROVE  /\ pc'[g][s] \in {"send", "await"} => g < N
                      /\ pc'[g][s] \in {"take", "store"} => g = N
                      /\ pc'[g][s] \in {"none", "send"} => s \notin sockets[g]
                      /\ s \notin records'[g] => pc'[g][s] = "none"
                      /\ acked[g] \subseteq records'[g]
    BY <2>1 DEF PlaceInv
  <2>5. CASE g = h /\ s = r
    BY <1>0, <2>1, <2>3, <2>4, <2>5 DEF PlaceInv, Moved
  <2>6. CASE ~(g = h /\ s = r)
    <3>1. pc'[g][s] = pc[g][s]
      BY <2>4, <2>6 DEF Moved
    <3>2. records[g] \subseteq records'[g]
      BY <2>3
    <3> QED
      BY <1>0, <3>1, <3>2 DEF PlaceInv
  <2> QED
    BY <2>5, <2>6
<1>3. ASSUME NEW h \in Hops, NEW r \in Runs, OnAck(h, r) PROVE PlaceInv'
  BY <1>0, <1>3 DEF PlaceInv, OnAck, handlerVars, TypeOK, ServerTypeOK
<1>4. ASSUME NEW h \in Hops, NEW r \in Runs, HandlerStep(h, r) PROVE PlaceInv'
  <2>1. UNCHANGED <<records, acked>>
    BY <1>0, <1>4, HandlerSteps
  <2>2. CASE ForwardSyn(h, r)
    <3>1. Moved(h, r, "send", "await") /\ sockets' = [sockets EXCEPT ![h] = @ \cup {r}]
      BY <1>0, <2>2, HandlerSteps DEF ForwardSyn
    <3>2. \A g \in Hops, s \in Runs :
            s \in sockets'[g] <=> s \in sockets[g] \/ (g = h /\ s = r)
      BY <1>0, <3>1 DEF TypeOK, ServerTypeOK
    <3> SUFFICES ASSUME NEW g \in Hops, NEW s \in Runs
                 PROVE  /\ pc'[g][s] \in {"send", "await"} => g < N
                        /\ pc'[g][s] \in {"take", "store"} => g = N
                        /\ pc'[g][s] \in {"none", "send"} => s \notin sockets'[g]
                        /\ s \notin records[g] => pc'[g][s] = "none"
                        /\ acked[g] \subseteq records[g]
      BY <2>1 DEF PlaceInv
    <3>3. CASE g = h /\ s = r
      BY <1>0, <3>1, <3>3 DEF PlaceInv, Moved
    <3>4. CASE ~(g = h /\ s = r)
      <4>1. pc'[g][s] = pc[g][s]
        BY <3>1, <3>4 DEF Moved
      <4> QED BY <1>0, <3>2, <3>4, <4>1 DEF PlaceInv
    <3> QED BY <3>3, <3>4
  <2>3. ASSUME UNCHANGED sockets, NEW here, NEW there, Moved(h, r, here, there),
               here # "none", there \notin {"send", "await", "take", "none"},
               there = "store" => here = "take"
        PROVE  PlaceInv'
    <3> SUFFICES ASSUME NEW g \in Hops, NEW s \in Runs
                 PROVE  /\ pc'[g][s] \in {"send", "await"} => g < N
                        /\ pc'[g][s] \in {"take", "store"} => g = N
                        /\ pc'[g][s] \in {"none", "send"} => s \notin sockets[g]
                        /\ s \notin records[g] => pc'[g][s] = "none"
                        /\ acked[g] \subseteq records[g]
      BY <2>1, <2>3 DEF PlaceInv
    <3>1. CASE g = h /\ s = r
      BY <1>0, <2>3, <3>1 DEF PlaceInv, Moved
    <3>2. CASE ~(g = h /\ s = r)
      <4>1. pc'[g][s] = pc[g][s]
        BY <2>3, <3>2 DEF Moved
      <4> QED BY <1>0, <4>1 DEF PlaceInv
    <3> QED BY <3>1, <3>2
  <2>4. CASE TakePort(h, r)
    BY <1>0, <2>3, <2>4, HandlerSteps DEF TakePort
  <2>5. CASE ForwardNoSocket(h, r) \/ ForwardReceive(h, r) \/ StorePort(h, r)
    BY <1>0, <2>3, <2>5, HandlerSteps DEF ForwardNoSocket, ForwardReceive, StorePort
  <2>6. CASE SendReply(h, r) \/ PassAckOn(h, r) \/ GiveUp(h, r) \/ GoOn(h, r)
    BY <1>0, <2>3, <2>6, HandlerSteps DEF SendReply, PassAckOn, GiveUp, GoOn
  <2> QED
    BY <1>4, <2>2, <2>4, <2>5, <2>6 DEF HandlerStep
<1>5. ASSUME NEW h \in Hops, NEW r \in Runs, IgnoreSyn(h, r) PROVE PlaceInv'
  BY <1>1, <1>5 DEF IgnoreSyn, recordVars, handlerVars
<1> QED
  BY <1>1, <1>2, <1>3, <1>4, <1>5
     DEF Next, MainStep, ClientStep, Keepalive, vars, serverVars, recordVars, handlerVars

LEMMA RoundsStep ==
  ASSUME TypeInv, [Next]_vars
  PROVE  RoundsInv'
<1>0. /\ TypeOK /\ PlaceInv /\ RoundsInv
      /\ sent \in [Hops -> [Runs -> 0..MaxSent]]
  BY DEF TypeInv, TypeOK, ServerTypeOK
<1>1. ASSUME UNCHANGED <<pc, sent>> PROVE RoundsInv'
  BY <1>0, <1>1 DEF RoundsInv
<1>2. ASSUME UNCHANGED sent, NEW h \in Hops, NEW r \in Runs, NEW here, NEW there,
             Moved(h, r, here, there),
             \/ here \in {"none", "send", "await", "take", "store"}
             \/ there \in {"done", "gaveUp"}
             \/ there = "reply" /\ sent[h][r] < MaxSent
      PROVE  RoundsInv'
  <2> SUFFICES ASSUME NEW g \in Hops, NEW s \in Runs
               PROVE  /\ pc'[g][s] \in {"none", "send", "await", "take", "store"} =>
                            sent[g][s] = 0
                      /\ pc'[g][s] = "reply" => sent[g][s] < MaxSent
    BY <1>2 DEF RoundsInv
  <2>1. CASE g = h /\ s = r
    BY <1>0, <1>2, <2>1 DEF RoundsInv, Moved
  <2>2. CASE ~(g = h /\ s = r)
    BY <1>0, <1>2, <2>2 DEF RoundsInv, Moved
  <2> QED
    BY <2>1, <2>2
<1>3. ASSUME NEW h \in Hops, NEW r \in Runs, AcceptSyn(h, r) PROVE RoundsInv'
  BY <1>2, <1>3, AcceptSteps
<1>4. ASSUME NEW h \in Hops, NEW r \in Runs, HandlerStep(h, r) PROVE RoundsInv'
  <2>1. CASE ForwardSyn(h, r) \/ ForwardNoSocket(h, r) \/ ForwardReceive(h, r)
    BY <1>0, <1>2, <2>1, HandlerSteps DEF ForwardSyn, ForwardNoSocket, ForwardReceive
  <2>2. CASE TakePort(h, r) \/ StorePort(h, r)
    BY <1>0, <1>2, <2>2, HandlerSteps DEF TakePort, StorePort
  <2>3. CASE PassAckOn(h, r) \/ GiveUp(h, r)
    BY <1>0, <1>2, <2>3, HandlerSteps DEF PassAckOn, GiveUp
  <2>4. CASE GoOn(h, r)
    <3>1. sent[h][r] < MaxSent
      BY <1>0, <2>4 DEF GoOn, SentLast
    <3> QED
      BY <1>0, <1>2, <2>4, <3>1, HandlerSteps DEF GoOn
  <2>5. CASE SendReply(h, r)
    <3>1. Moved(h, r, "reply", "loop") /\ sent' = [sent EXCEPT ![h][r] = @ + 1]
      BY <1>0, <2>5, HandlerSteps DEF SendReply
    <3>2. \A g \in Hops, s \in Runs : ~(g = h /\ s = r) =>
             sent'[g][s] = sent[g][s] /\ pc'[g][s] = pc[g][s]
      BY <1>0, <3>1 DEF Moved
    <3>3. pc'[h][r] = "loop"
      BY <3>1 DEF Moved
    <3> SUFFICES ASSUME NEW g \in Hops, NEW s \in Runs
                 PROVE  /\ pc'[g][s] \in {"none", "send", "await", "take", "store"} =>
                              sent'[g][s] = 0
                        /\ pc'[g][s] = "reply" => sent'[g][s] < MaxSent
      BY DEF RoundsInv
    <3>4. CASE g = h /\ s = r
      BY <3>3, <3>4
    <3>5. CASE ~(g = h /\ s = r)
      BY <1>0, <3>2, <3>5 DEF RoundsInv
    <3> QED
      BY <3>4, <3>5
  <2> QED
    BY <1>4, <2>1, <2>2, <2>3, <2>4, <2>5 DEF HandlerStep
<1> QED
  BY <1>1, <1>3, <1>4
     DEF Next, MainStep, IgnoreSyn, OnAck, ClientStep, Keepalive, vars, serverVars,
         recordVars, handlerVars

LEMMA TypeStep ==
  ASSUME TypeInv, [Next]_vars
  PROVE  TypeOK'
<1>0. /\ PlaceInv /\ client \in [Runs -> {"idle", "waiting", "confirmed"}]
      /\ net \subseteq Messages /\ lost \in [Types -> Nat]
      /\ alive \in [Hops -> BOOLEAN] /\ leaked \in [Hops -> Nat]
      /\ records \in [Hops -> SUBSET Runs] /\ acked \in [Hops -> SUBSET Runs]
      /\ pc \in [Hops -> [Runs -> HandlerStates]]
      /\ sent \in [Hops -> [Runs -> 0..MaxSent]]
      /\ sockets \in [Hops -> SUBSET Runs]
      /\ hashport \in Nat /\ port \in [Runs -> Nat]
  BY DEF TypeInv, TypeOK, ServerTypeOK, ClientTypeOK
<1>1. TypeOK
  BY DEF TypeInv
<1>2. CASE UNCHANGED vars
  BY <1>1, <1>2 DEF vars, netVars, serverVars, recordVars, handlerVars, portVars, TypeOK,
                    ServerTypeOK, ClientTypeOK
<1>3. ASSUME NEW r \in Runs, ClientStep(r) \/ Keepalive(r) PROVE TypeOK'
  <2>1. client' \in [Runs -> {"idle", "waiting", "confirmed"}]
    BY <1>0, <1>3 DEF ClientStep, SyncPacket, Confirm, Keepalive
  <2>2. net' \subseteq Messages /\ lost' = lost
    <3>1. Message("SYN", 1, r) \in Messages /\ Message("ACK", 1, r) \in Messages
      BY MessageTypes DEF Types
    <3> QED
      BY <1>0, <1>3, <3>1
         DEF ClientStep, SyncPacket, Confirm, Keepalive, Send, ReceiveAndSend, netVars
  <2>3. alive' \in [Hops -> BOOLEAN]
    BY <1>0, <1>3 DEF ClientStep, Keepalive, TimeCheck, serverVars
  <2>4. UNCHANGED <<leaked, recordVars, handlerVars>>
    BY <1>3 DEF ClientStep, Keepalive, serverVars
  <2> QED
    BY <1>0, <2>1, <2>2, <2>3, <2>4
       DEF recordVars, handlerVars, portVars, TypeOK, ServerTypeOK, ClientTypeOK
<1>4. ASSUME NEW h \in Hops, NEW r \in Runs, AcceptSyn(h, r), UNCHANGED client PROVE TypeOK'
  <2>1. /\ pc' \in [Hops -> [Runs -> HandlerStates]]
        /\ UNCHANGED <<acked, sockets, sent, leaked, hashport, port>>
    BY <1>4, AcceptSteps DEF Moved
  <2>2. records' \in [Hops -> SUBSET Runs] /\ alive' = alive
    BY <1>0, <1>4 DEF AcceptSyn
  <2>3. net' \subseteq Messages /\ lost' = lost
    BY <1>0, <1>4 DEF AcceptSyn, Receive, ReceiveAndSend
  <2> QED
    BY <1>0, <1>4, <2>1, <2>2, <2>3 DEF TypeOK, ServerTypeOK, ClientTypeOK
<1>5. ASSUME NEW h \in Hops, NEW r \in Runs, IgnoreSyn(h, r) \/ OnAck(h, r),
             UNCHANGED client
      PROVE  TypeOK'
  <2>1. net' \subseteq Messages /\ lost' = lost
    BY <1>0, <1>5 DEF IgnoreSyn, OnAck, Receive, ReceiveAndSend
  <2>2. alive' \in [Hops -> BOOLEAN]
    BY <1>0, <1>5 DEF IgnoreSyn, OnAck, TimeCheck
  <2>3. /\ acked' \in [Hops -> SUBSET Runs]
        /\ UNCHANGED <<leaked, records, handlerVars>>
    <3>1. acked[h] \cup ({r} \cap records[h]) \in SUBSET Runs
      BY <1>0
    <3>2. CASE OnAck(h, r)
      BY <1>0, <3>1, <3>2 DEF OnAck
    <3>3. CASE IgnoreSyn(h, r)
      BY <1>0, <3>3 DEF IgnoreSyn, recordVars
    <3> QED
      BY <1>5, <3>2, <3>3
  <2> QED
    BY <1>0, <1>5, <2>1, <2>2, <2>3
       DEF handlerVars, portVars, TypeOK, ServerTypeOK, ClientTypeOK
<1>6. ASSUME NEW h \in Hops, NEW r \in Runs, HandlerStep(h, r), UNCHANGED client
      PROVE  TypeOK'
  <2>1. /\ UNCHANGED <<alive, leaked, records, acked>>
        /\ pc' \in [Hops -> [Runs -> HandlerStates]]
    BY <1>1, <1>6, HandlerSteps DEF HandlerStep, Moved
  <2>2. /\ Message("SYNACK", h - 1, r) \in Messages
        /\ h < N => /\ Message("SYN", h + 1, r) \in Messages
                    /\ Message("ACK", h + 1, r) \in Messages
    <3>1. h - 1 \in 0..N /\ (h < N => h + 1 \in 0..N)
      OBVIOUS
    <3> QED
      BY <3>1, MessageTypes DEF Types
  <2>3. Reply(h, r) \subseteq Messages
    BY <2>2 DEF Reply
  <2>4. net' \subseteq Messages /\ lost' = lost
    <3>1. CASE ForwardSyn(h, r)
      <4>1. h < N
        BY <1>0, <3>1 DEF ForwardSyn, HandlerGoes, PlaceInv
      <4> QED
        BY <1>0, <2>2, <3>1, <4>1 DEF ForwardSyn, Send
    <3>2. CASE ForwardReceive(h, r) \/ SendReply(h, r)
      BY <1>0, <2>3, <3>2 DEF ForwardReceive, SendReply, Send, Receive, ReceiveAndSend
    <3>3. CASE \/ ForwardNoSocket(h, r) \/ TakePort(h, r) \/ StorePort(h, r)
               \/ GiveUp(h, r) \/ GoOn(h, r)
      BY <1>0, <3>3 DEF ForwardNoSocket, TakePort, StorePort, GiveUp, GoOn, netVars
    <3>4. CASE PassAckOn(h, r)
      BY <1>0, <2>2, <3>4 DEF PassAckOn, Send, netVars
    <3> QED
      BY <1>6, <3>1, <3>2, <3>3, <3>4 DEF HandlerStep
  <2>5. sent' \in [Hops -> [Runs -> 0..MaxSent]]
    <3>1. CASE SendReply(h, r)
      <4>1. sent[h][r] + 1 \in 0..MaxSent
        BY <1>0, <3>1 DEF SendReply, HandlerGoes, TypeInv, RoundsInv
      <4> QED
        BY <1>0, <3>1, <4>1 DEF SendReply
    <3> QED
      BY <1>0, <1>6, <3>1
         DEF HandlerStep, ForwardSyn, ForwardNoSocket, ForwardReceive, TakePort, StorePort,
             PassAckOn, GiveUp, GoOn
  <2>6. sockets' \in [Hops -> SUBSET Runs] /\ hashport' \in Nat /\ port' \in [Runs -> Nat]
    <3>1. CASE ForwardSyn(h, r)
      BY <1>0, <3>1 DEF ForwardSyn, portVars
    <3>2. CASE TakePort(h, r)
      BY <1>0, <3>2 DEF TakePort
    <3>3. CASE StorePort(h, r)
      BY <1>0, <3>3 DEF StorePort
    <3> QED
      BY <1>0, <1>6, <3>1, <3>2, <3>3
         DEF HandlerStep, ForwardNoSocket, ForwardReceive, SendReply, PassAckOn, GiveUp, GoOn,
             portVars
  <2> QED
    BY <1>0, <1>6, <2>1, <2>4, <2>5, <2>6 DEF TypeOK, ServerTypeOK, ClientTypeOK
<1>7. ASSUME Lose, UNCHANGED <<serverVars, client>> PROVE TypeOK'
  <2>1. net' \subseteq Messages /\ lost' \in [Types -> Nat]
    <3>1. PICK m \in net : /\ lost' = [lost EXCEPT ![m.type] = @ + 1]
                           /\ net' = net \ {m}
      BY <1>7 DEF Lose
    <3> QED
      BY <1>0, <3>1 DEF Messages
  <2> QED
    BY <1>0, <1>7, <2>1 DEF serverVars, recordVars, handlerVars, portVars, TypeOK,
                            ServerTypeOK, ClientTypeOK
<1> QED
  BY <1>2, <1>3, <1>4, <1>5, <1>6, <1>7 DEF Next, MainStep

LEMMA TypeInvStep == TypeInv /\ [Next]_vars => TypeInv'
  BY TypeStep, PlaceStep, RoundsStep DEF TypeInv

(* Every variable of the emulator stays in its set.                        *)
THEOREM EmulatorTypes == Spec => []TypeOK
<1>1. TypeInv => TypeOK
  BY DEF TypeInv
<1> QED
  BY <1>1, TypeInvInit, TypeInvStep, PTL DEF Spec

-------------------------------------------------------------------------------
(* What is never taken back: records, acknowledgements, a handler's end    *)
(* and the client's confirmation.                                          *)
LEMMA Kept ==
  ASSUME TypeInv, [Next]_vars
  PROVE  /\ \A h \in Hops : records[h] \subseteq records'[h]
         /\ \A h \in Hops : acked[h] \subseteq acked'[h]
         /\ \A h \in Hops, r \in Runs : pc[h][r] = "done" => pc'[h][r] = "done"
         /\ \A r \in Runs : client[r] = "confirmed" => client'[r] = "confirmed"
<1> DEFINE KeptAll ==
      /\ \A h \in Hops : records[h] \subseteq records'[h]
      /\ \A h \in Hops : acked[h] \subseteq acked'[h]
      /\ \A h \in Hops, r \in Runs : pc[h][r] = "done" => pc'[h][r] = "done"
      /\ \A r \in Runs : client[r] = "confirmed" => client'[r] = "confirmed"
<1>0. /\ TypeOK
      /\ client \in [Runs -> {"idle", "waiting", "confirmed"}]
      /\ records \in [Hops -> SUBSET Runs] /\ acked \in [Hops -> SUBSET Runs]
  BY DEF TypeInv, TypeOK, ServerTypeOK, ClientTypeOK
<1>1. ASSUME UNCHANGED <<records, acked, pc, client>> PROVE KeptAll
  BY <1>1
<1>2. ASSUME NEW r \in Runs, ClientStep(r) PROVE KeptAll
  BY <1>0, <1>2
     DEF ClientStep, SyncPacket, Confirm, serverVars, recordVars, handlerVars
<1>3. ASSUME NEW h \in Hops, NEW r \in Runs, AcceptSyn(h, r), UNCHANGED client PROVE KeptAll
  <2>1. /\ Moved(h, r, "none", FirstStep(h)) /\ UNCHANGED acked
        /\ records' = [records EXCEPT ![h] = @ \cup {r}]
    BY <1>3, AcceptSteps
  <2> QED
    BY <1>0, <1>3, <2>1 DEF Moved
<1>4. ASSUME NEW h \in Hops, NEW r \in Runs, OnAck(h, r), UNCHANGED client PROVE KeptAll
  BY <1>0, <1>4 DEF OnAck, handlerVars
<1>5. ASSUME NEW h \in Hops, NEW r \in Runs, HandlerStep(h, r), UNCHANGED client PROVE KeptAll
  <2>1. \E here, there : Moved(h, r, here, there) /\ here # "done"
    BY <1>0, <1>5, HandlerSteps DEF HandlerStep
  <2> QED
    BY <1>0, <1>5, <2>1, HandlerSteps DEF Moved
<1>6. KeptAll
  BY <1>1, <1>2, <1>3, <1>4, <1>5
     DEF Next, MainStep, IgnoreSyn, Keepalive, vars, serverVars, recordVars, handlerVars
<1> QED
  BY <1>6

-------------------------------------------------------------------------------
(* Acknowledgements go down the chain: an ACK to hop h is sent by the end  *)
(* of the handler of the hop before, or by the client.                     *)

PassedOn(h, r) ==
  IF h = 1 THEN client[r] = "confirmed"
           ELSE r \in acked[h - 1] /\ pc[h - 1][r] = "done"

OrderInv ==
  /\ \A m \in net : m.type = "ACK" => m.to \in Hops /\ PassedOn(m.to, m.run)
  /\ \A h \in Hops : \A r \in acked[h] : PassedOn(h, r)

LEMMA PassedOnKept ==
  ASSUME TypeInv, [Next]_vars, NEW h \in Hops, NEW r \in Runs, PassedOn(h, r)
  PROVE  PassedOn(h, r)'
<1>1. h # 1 => h - 1 \in Hops
  OBVIOUS
<1> QED
  BY <1>1, Kept DEF PassedOn

LEMMA OrderStep ==
  ASSUME TypeInv, OrderInv, [Next]_vars
  PROVE  OrderInv'
<1>0. /\ TypeOK /\ net \subseteq Messages
      /\ client \in [Runs -> {"idle", "waiting", "confirmed"}]
      /\ acked \in [Hops -> SUBSET Runs]
  BY DEF TypeInv, TypeOK, ServerTypeOK, ClientTypeOK
<1>1. \A m \in net : m.type = "ACK" => m.to \in Hops /\ PassedOn(m.to, m.run)'
  BY <1>0, PassedOnKept DEF OrderInv, Messages
<1>2. \A h \in Hops : \A r \in acked[h] : PassedOn(h, r)'
  BY <1>0, PassedOnKept DEF OrderInv
<1>3. ASSUME UNCHANGED acked,
             \A m \in net' : m \in net \/ m.type # "ACK"
                             \/ (m.to \in Hops /\ PassedOn(m.to, m.run)')
      PROVE  OrderInv'
  BY <1>1, <1>2, <1>3 DEF OrderInv
<1>4. \A type \in Types, to \in 0..N, r \in Runs :
        /\ Message(type, to, r).type = type
        /\ Message(type, to, r).to = to
        /\ Message(type, to, r).run = r
  BY MessageTypes
<1>5. ASSUME NEW r \in Runs, ClientStep(r) PROVE OrderInv'
  <2>1. UNCHANGED acked
    BY <1>5 DEF ClientStep, serverVars, recordVars
  <2>2. CASE SyncPacket(r)
    BY <1>3, <1>4, <2>1, <2>2 DEF SyncPacket, Send, Types
  <2>3. CASE Confirm(r)
    <3>1. PassedOn(1, r)'
      BY <1>0, <2>3 DEF Confirm, PassedOn
    <3>2. net' \subseteq net \cup {Message("ACK", 1, r)}
      BY <2>3 DEF Confirm, ReceiveAndSend
    <3> QED
      BY <1>3, <1>4, <2>1, <3>1, <3>2 DEF Types
  <2> QED
    BY <1>5, <2>2, <2>3 DEF ClientStep
<1>6. ASSUME NEW h \in Hops, NEW r \in Runs, AcceptSyn(h, r) PROVE OrderInv'
  BY <1>3, <1>6, AcceptSteps DEF AcceptSyn, Receive, ReceiveAndSend
<1>7. ASSUME NEW h \in Hops, NEW r \in Runs, OnAck(h, r) PROVE OrderInv'
  <2>1. Message("ACK", h, r) \in net /\ net' \subseteq net
    BY <1>7 DEF OnAck, Receive, ReceiveAndSend
  <2>2. PassedOn(h, r)'
    BY <1>1, <1>4, <2>1 DEF Types
  <2>3. \A g \in Hops : \A s \in acked'[g] : s \in acked[g] \/ (g = h /\ s = r)
    BY <1>0, <1>7 DEF OnAck
  <2> QED
    BY <1>1, <1>2, <2>1, <2>2, <2>3 DEF OrderInv
<1>8. ASSUME NEW h \in Hops, NEW r \in Runs, HandlerStep(h, r) PROVE OrderInv'
  <2>1. UNCHANGED acked
    BY <1>0, <1>8, HandlerSteps
  <2>2. \A m \in Reply(h, r) : m.type # "ACK"
    BY <1>4 DEF Reply, Types
  <2>3. CASE ForwardSyn(h, r)
    <3>1. h < N
      BY <2>3 DEF ForwardSyn, HandlerGoes, TypeInv, PlaceInv
    <3>2. net' = net \cup {Message("SYN", h + 1, r)}
      BY <2>3 DEF ForwardSyn, Send
    <3>3. Message("SYN", h + 1, r).type # "ACK"
      BY <3>1, <1>4 DEF Types
    <3> QED
      BY <1>3, <2>1, <3>2, <3>3
  <2>4. CASE ForwardReceive(h, r) \/ SendReply(h, r)
    <3>1. net' \subseteq net \cup Reply(h, r)
      BY <2>4 DEF ForwardReceive, SendReply, Send, Receive, ReceiveAndSend
    <3> QED
      BY <1>3, <2>1, <2>2, <3>1
  <2>5. CASE \/ ForwardNoSocket(h, r) \/ TakePort(h, r) \/ StorePort(h, r)
             \/ GiveUp(h, r) \/ GoOn(h, r)
    BY <1>3, <2>1, <2>5 DEF ForwardNoSocket, TakePort, StorePort, GiveUp, GoOn, netVars
  <2>6. CASE PassAckOn(h, r)
    <3>1. CASE net' = net
      BY <1>3, <2>1, <3>1
    <3>2. CASE h < N /\ net' = net \cup {Message("ACK", h + 1, r)}
      <4>1. r \in acked'[h] /\ pc'[h][r] = "done"
        BY <1>0, <2>1, <2>6, HandlerSteps DEF PassAckOn, IsAcked, Moved
      <4>2. PassedOn(h + 1, r)' /\ h + 1 \in Hops
        BY <3>2, <4>1 DEF PassedOn
      <4> QED
        BY <1>3, <1>4, <2>1, <3>2, <4>2 DEF Types
    <3> QED
      BY <2>6, <3>1, <3>2 DEF PassAckOn, Send, netVars
  <2> QED
    BY <1>8, <2>3, <2>4, <2>5, <2>6 DEF HandlerStep
<1>9. ASSUME UNCHANGED acked, net' \subseteq net PROVE OrderInv'
  BY <1>3, <1>9
<1>10. ASSUME NEW h \in Hops, NEW r \in Runs, IgnoreSyn(h, r) PROVE OrderInv'
  BY <1>9, <1>10 DEF IgnoreSyn, Receive, ReceiveAndSend, recordVars
<1>11. ASSUME NEW r \in Runs, Keepalive(r) PROVE OrderInv'
  BY <1>9, <1>11 DEF Keepalive, netVars, recordVars
<1>12. ASSUME Lose, UNCHANGED serverVars PROVE OrderInv'
  BY <1>9, <1>12 DEF Lose, serverVars, recordVars
<1>13. CASE UNCHANGED vars
  BY <1>9, <1>13 DEF vars, netVars, serverVars, recordVars
<1> QED
  BY <1>5, <1>6, <1>7, <1>8, <1>10, <1>11, <1>12, <1>13 DEF Next, MainStep

(* A record is marked acked only when the handler of the previous hop has  *)
(* ended on its own record's acked, and the first only when the client has *)
(* confirmed.                                                              *)
THEOREM AckOrderCorrect == Spec => []AckedInOrder
<1>1. Init => TypeInv /\ OrderInv
  BY TypeInvInit DEF Init, ServerInit, OrderInv
<1>2. TypeInv /\ OrderInv /\ [Next]_vars => (TypeInv /\ OrderInv)'
  BY TypeInvStep, OrderStep
<1>3. TypeInv /\ OrderInv => AckedInOrder
  <2> SUFFICES ASSUME TypeInv, OrderInv, NEW r \in Runs
               PROVE  /\ r \in acked[1] => client[r] = "confirmed"
                      /\ \A h \in Hops \ {N} :
                           r \in acked[h + 1] => r \in acked[h] /\ pc[h][r] = "done"
    BY DEF AckedInOrder
  <2>1. 1 \in Hops /\ \A h \in Hops \ {N} : h + 1 \in Hops /\ h + 1 # 1 /\ h + 1 - 1 = h
    OBVIOUS
  <2> QED
    BY <2>1 DEF OrderInv, PassedOn
<1> QED
  BY <1>1, <1>2, <1>3, PTL DEF Spec

-------------------------------------------------------------------------------
(* The commit.  A SYN to hop h has passed the hops before it; a SYN-ACK    *)
(* comes from the end of the chain; and nothing is acknowledged before     *)
(* that.  A handler in its loop knows of the end of the chain if it has a  *)
(* response to send: one that got no socket has none.                      *)

Everywhere(r) == \A g \in Hops : r \in records[g]

Chained(m) ==
  /\ m.type = "SYN" => \A g \in Hops : g < m.to => m.run \in records[g]
  /\ m.type # "SYN" => Everywhere(m.run)

ChainInv ==
  /\ \A m \in net : Chained(m)
  /\ \A h \in Hops, r \in Runs :
       /\ pc[h][r] # "none" => \A g \in Hops : g <= h => r \in records[g]
       /\ pc[h][r] \in {"reply", "loop"} /\ CanSend(h, r) => Everywhere(r)
  /\ \A h \in Hops : \A r \in acked[h] : Everywhere(r)

LEMMA ChainStep ==
  ASSUME TypeInv, ChainInv, [Next]_vars
  PROVE  ChainInv'
<1>0. /\ TypeOK /\ PlaceInv /\ net \subseteq Messages
      /\ acked \in [Hops -> SUBSET Runs] /\ records \in [Hops -> SUBSET Runs]
      /\ sockets \in [Hops -> SUBSET Runs]
  BY DEF TypeInv, TypeOK, ServerTypeOK
<1>1. /\ \A h \in Hops : records[h] \subseteq records'[h]
      /\ \A r : Everywhere(r) => Everywhere(r)'
      /\ \A m : Chained(m) => Chained(m)'
  BY Kept DEF Everywhere, Chained
<1>2. \A type \in Types, to \in 0..N, r \in Runs :
        /\ Message(type, to, r).type = type
        /\ Message(type, to, r).to = to
        /\ Message(type, to, r).run = r
  BY MessageTypes
<1> DEFINE NetOK   == \A m \in net : Chained(m)
           AckedOK == \A h \in Hops : \A r \in acked[h] : Everywhere(r)
           PlacesOK == \A h \in Hops, r \in Runs :
             /\ pc[h][r] # "none" => \A g \in Hops : g <= h => r \in records[g]
             /\ pc[h][r] \in {"reply", "loop"} /\ CanSend(h, r) => Everywhere(r)
<1>3. ASSUME \A m \in net' : m \in net \/ Chained(m)' PROVE NetOK'
  BY <1>1, <1>3 DEF ChainInv
<1>4. ASSUME UNCHANGED acked PROVE AckedOK'
  BY <1>1, <1>4 DEF ChainInv
<1>5. ASSUME UNCHANGED <<pc, sockets>> PROVE PlacesOK'
  BY <1>1, <1>5 DEF ChainInv, CanSend
<1>6. ASSUME NetOK', AckedOK', PlacesOK' PROVE ChainInv'
  BY <1>6 DEF ChainInv
<1>7. ASSUME net' \subseteq net, UNCHANGED <<acked, pc, sockets>> PROVE ChainInv'
  BY <1>3, <1>4, <1>5, <1>6, <1>7
<1>8. ASSUME NEW r \in Runs, ClientStep(r) PROVE ChainInv'
  <2>1. UNCHANGED <<acked, pc, sockets>>
    BY <1>8 DEF ClientStep, serverVars, recordVars, handlerVars
  <2>2. CASE SyncPacket(r)
    <3>1. net' = net \cup {Message("SYN", 1, r)}
      BY <2>2 DEF SyncPacket, Send
    <3>2. Chained(Message("SYN", 1, r))'
      BY <1>2 DEF Chained, Types
    <3> QED
      BY <1>3, <1>4, <1>5, <1>6, <2>1, <3>1, <3>2
  <2>3. CASE Confirm(r)
    <3>1. /\ Message("SYNACK", 0, r) \in net
          /\ net' \subseteq net \cup {Message("ACK", 1, r)}
      BY <2>3 DEF Confirm, ReceiveAndSend
    <3>2. Everywhere(r)'
      BY <1>1, <1>2, <3>1 DEF ChainInv, Chained, Types
    <3>3. Chained(Message("ACK", 1, r))'
      BY <1>2, <3>2 DEF Chained, Types
    <3> QED
      BY <1>3, <1>4, <1>5, <1>6, <2>1, <3>1, <3>3
  <2> QED
    BY <1>8, <2>2, <2>3 DEF ClientStep
<1>9. ASSUME NEW h \in Hops, NEW r \in Runs, AcceptSyn(h, r) PROVE ChainInv'
  <2>1. /\ Message("SYN", h, r) \in net /\ net' \subseteq net
        /\ records' = [records EXCEPT ![h] = @ \cup {r}]
        /\ UNCHANGED <<acked, sockets>>
    BY <1>9, AcceptSteps DEF AcceptSyn, Receive, ReceiveAndSend
  <2>2. \A g \in Hops : g < h => r \in records[g]
    BY <1>2, <2>1 DEF ChainInv, Chained, Types
  <2>3. \A g \in Hops : g <= h => r \in records'[g]
    BY <1>0, <1>1, <2>1, <2>2
  <2>4. \A g \in Hops, s \in Runs :
          (g = h /\ s = r /\ pc'[g][s] \notin {"reply", "loop"}) \/ pc'[g][s] = pc[g][s]
    BY <1>9, AcceptSteps DEF Moved
  <2>5. PlacesOK'
    BY <1>1, <2>1, <2>3, <2>4 DEF ChainInv, CanSend
  <2> QED
    BY <1>3, <1>4, <1>6, <2>1, <2>5
<1>10. ASSUME NEW h \in Hops, NEW r \in Runs, OnAck(h, r) PROVE ChainInv'
  <2>1. /\ Message("ACK", h, r) \in net /\ net' \subseteq net
        /\ UNCHANGED <<pc, sockets>>
    BY <1>10 DEF OnAck, Receive, ReceiveAndSend, handlerVars
  <2>2. Everywhere(r)'
    BY <1>1, <1>2, <2>1 DEF ChainInv, Chained, Types
  <2>3. \A g \in Hops : \A s \in acked'[g] : s \in acked[g] \/ s = r
    BY <1>0, <1>10 DEF OnAck
  <2>4. AckedOK'
    BY <1>1, <2>2, <2>3 DEF ChainInv
  <2> QED
    BY <1>3, <1>5, <1>6, <2>1, <2>4
<1>11. ASSUME NEW h \in Hops, NEW r \in Runs, HandlerStep(h, r) PROVE ChainInv'
  <2>1. UNCHANGED acked
    BY <1>0, <1>11, HandlerSteps
  (* A handler that moves on knows what it knew.                          *)
  <2>2. ASSUME NEW here, here # "none", NEW there, Moved(h, r, here, there),
               \A g \in Hops, s \in Runs : ~(g = h /\ s = r) =>
                 (s \in sockets'[g] <=> s \in sockets[g]),
               there \notin {"reply", "loop"} \/ ~CanSend(h, r)' \/ Everywhere(r)
        PROVE  PlacesOK'
    <3>1. \A g \in Hops : g <= h => r \in records'[g]
      BY <1>1, <2>2 DEF Moved, ChainInv
    <3>2. there \in {"reply", "loop"} /\ CanSend(h, r)' => Everywhere(r)'
      BY <1>1, <2>2
    <3> SUFFICES ASSUME NEW g \in Hops, NEW s \in Runs
                 PROVE  /\ pc'[g][s] # "none" => \A f \in Hops : f <= g => s \in records'[f]
                        /\ pc'[g][s] \in {"reply", "loop"} /\ CanSend(g, s)' => Everywhere(s)'
      OBVIOUS
    <3>3. CASE g = h /\ s = r
      BY <2>2, <3>1, <3>2, <3>3 DEF Moved
    <3>4. CASE ~(g = h /\ s = r)
      BY <1>1, <2>2, <3>4 DEF Moved, ChainInv, CanSend
    <3> QED
      BY <3>3, <3>4
  <2>3. h - 1 \in 0..N /\ (h < N => h + 1 \in 0..N)
    OBVIOUS
  <2>4. ASSUME Everywhere(r) PROVE \A m \in Reply(h, r) : Chained(m)'
    BY <1>1, <1>2, <2>3, <2>4 DEF Reply, Chained, Types
  <2>5. CASE ForwardSyn(h, r)
    <3>1. /\ net' = net \cup {Message("SYN", h + 1, r)} /\ h < N
          /\ sockets' = [sockets EXCEPT ![h] = @ \cup {r}]
      BY <1>0, <2>5 DEF ForwardSyn, Send, HandlerGoes, PlaceInv
    <3>2. Moved(h, r, "send", "await")
      BY <1>0, <2>5, HandlerSteps
    <3>3. PlacesOK'
      BY <1>0, <2>2, <3>1, <3>2
    <3>4. \A g \in Hops : g < h + 1 => r \in records'[g]
      <4>1. pc[h][r] # "none"
        BY <3>2 DEF Moved
      <4>2. \A g \in Hops : g <= h => r \in records[g]
        BY <4>1 DEF ChainInv
      <4> QED
        BY <1>1, <4>2
    <3>5. Chained(Message("SYN", h + 1, r))'
      BY <1>2, <2>3, <3>1, <3>4 DEF Chained, Types
    <3> QED
      BY <1>3, <1>4, <1>6, <2>1, <3>1, <3>3, <3>5
  <2>6. CASE ForwardNoSocket(h, r)
    <3>1. Moved(h, r, "send", "reply") /\ UNCHANGED <<net, sockets>>
      BY <1>0, <2>6, HandlerSteps DEF ForwardNoSocket, netVars
    <3>2. h # N /\ r \notin sockets[h]
      <4>1. pc[h][r] = "send"
        BY <3>1 DEF Moved
      <4> QED
        BY <1>0, <4>1 DEF PlaceInv
    <3>3. ~CanSend(h, r)'
      BY <3>1, <3>2 DEF CanSend
    <3> QED
      BY <1>3, <1>4, <1>6, <2>1, <2>2, <3>1, <3>3
  <2>7. CASE ForwardReceive(h, r)
    <3>1. /\ Moved(h, r, "await", "reply") /\ UNCHANGED sockets
          /\ Message("SYNACK", h, r) \in net /\ net' \subseteq net
      BY <1>0, <2>7, HandlerSteps DEF ForwardReceive, Receive, ReceiveAndSend
    <3>2. Everywhere(r)
      BY <1>2, <3>1 DEF ChainInv, Chained, Types
    <3> QED
      BY <1>3, <1>4, <1>6, <2>1, <2>2, <2>4, <3>1, <3>2
  <2>8. CASE TakePort(h, r)
    BY <1>0, <1>3, <1>4, <1>6, <2>1, <2>2, <2>8, HandlerSteps DEF TakePort, netVars
  (* At the end of the chain having a record is being prepared everywhere. *)
  <2>9. ASSUME h = N, pc[h][r] # "none" PROVE Everywhere(r)
    BY <2>9 DEF ChainInv, Everywhere
  <2>10. CASE StorePort(h, r)
    <3>1. Moved(h, r, "store", "reply") /\ UNCHANGED <<net, sockets>>
      BY <1>0, <2>10, HandlerSteps DEF StorePort, netVars
    <3>2. Everywhere(r)
      BY <1>0, <2>9, <3>1 DEF Moved, PlaceInv
    <3> QED
      BY <1>3, <1>4, <1>6, <2>1, <2>2, <2>4, <3>1, <3>2
  <2>11. CASE PassAckOn(h, r)
    <3>1. Moved(h, r, "loop", "done") /\ UNCHANGED sockets /\ r \in acked[h]
      BY <1>0, <2>11, HandlerSteps DEF PassAckOn, IsAcked
    <3>2. Everywhere(r)'
      BY <1>1, <3>1 DEF ChainInv
    <3>3. net' = net \/ (h < N /\ net' = net \cup {Message("ACK", h + 1, r)})
      BY <2>11 DEF PassAckOn, Send, netVars
    <3>4. h < N => Chained(Message("ACK", h + 1, r))'
      BY <1>2, <2>3, <3>2 DEF Chained, Types
    <3>5. PlacesOK'
      BY <2>2, <3>1
    <3>6. NetOK'
      BY <1>3, <3>3, <3>4
    <3> QED
      BY <1>4, <1>6, <2>1, <3>5, <3>6
  <2>12. CASE GiveUp(h, r)
    BY <1>0, <1>3, <1>4, <1>6, <2>1, <2>2, <2>12, HandlerSteps DEF GiveUp, netVars
  <2>13. CASE SendReply(h, r)
    <3>1. /\ Moved(h, r, "reply", "loop") /\ UNCHANGED sockets
          /\ net' = net \cup Reply(h, r)
      BY <1>0, <2>13, HandlerSteps DEF SendReply, Send
    <3>2. CASE CanSend(h, r)
      <4>1. Everywhere(r)
        BY <3>1, <3>2 DEF Moved, ChainInv
      <4> QED
        BY <1>3, <1>4, <1>6, <2>1, <2>2, <2>4, <3>1, <4>1
    <3>3. CASE ~CanSend(h, r)
      <4>1. Reply(h, r) = {} /\ ~CanSend(h, r)'
        BY <3>1, <3>3 DEF Reply, CanSend
      <4> QED
        BY <1>3, <1>4, <1>6, <2>1, <2>2, <3>1, <4>1
    <3> QED
      BY <3>2, <3>3
  <2>14. CASE GoOn(h, r)
    <3>1. Moved(h, r, "loop", "reply") /\ UNCHANGED <<net, sockets>>
      BY <1>0, <2>14, HandlerSteps DEF GoOn, netVars
    <3>2. CanSend(h, r)' => Everywhere(r)
      BY <3>1 DEF Moved, ChainInv, CanSend
    <3> QED
      BY <1>3, <1>4, <1>6, <2>1, <2>2, <3>1, <3>2
  <2> QED
    BY <1>11, <2>5, <2>6, <2>7, <2>8, <2>10, <2>11, <2>12, <2>13, <2>14
    DEF HandlerStep
<1>12. ASSUME NEW h \in Hops, NEW r \in Runs, IgnoreSyn(h, r) PROVE ChainInv'
  BY <1>7, <1>12 DEF IgnoreSyn, Receive, ReceiveAndSend, recordVars, handlerVars
<1>13. ASSUME NEW r \in Runs, Keepalive(r) PROVE ChainInv'
  BY <1>7, <1>13 DEF Keepalive, netVars, recordVars, handlerVars
<1>14. ASSUME Lose, UNCHANGED serverVars PROVE ChainInv'
  BY <1>7, <1>14 DEF Lose, serverVars, recordVars, handlerVars
<1>15. CASE UNCHANGED vars
  BY <1>7, <1>15 DEF vars, netVars, serverVars, recordVars, handlerVars
<1> QED
  BY <1>8, <1>9, <1>10, <1>11, <1>12, <1>13, <1>14, <1>15 DEF Next, MainStep

(* The emulator implements the two-phase commit of UpdateCommit: a SYN     *)
(* that is accepted prepares, an ACK that is taken commits, and every      *)
(* other step is invisible.                                                *)
THEOREM EmulatorRefinement == Spec => ImplementsCommit
<1>1. Init => Commit!Init
  BY DEF Init, ServerInit, Commit!Init, Commit!Hops
<1>2. TypeInv /\ ChainInv /\ [Next]_vars => [Commit!Next]_(Commit!vars)
  <2> SUFFICES ASSUME TypeInv, ChainInv, [Next]_vars PROVE [Commit!Next]_(Commit!vars)
    OBVIOUS
  <2> USE DEF Commit!Next, Commit!vars, Commit!Hops, Commit!Prepare, Commit!CommitTo
  <2>1. ASSUME NEW h \in Hops, NEW r \in Runs, AcceptSyn(h, r) PROVE Commit!Next
    <3>1. /\ Message("SYN", h, r) \in net /\ UNCHANGED acked
          /\ records' = [records EXCEPT ![h] = @ \cup {r}]
      BY <2>1, AcceptSteps DEF AcceptSyn, Receive, ReceiveAndSend
    <3>2. Message("SYN", h, r).type = "SYN" /\ Message("SYN", h, r).to = h
          /\ Message("SYN", h, r).run = r
      BY DEF Message
    <3>3. \A g \in 1..h-1 : r \in records[g]
      BY <3>1, <3>2 DEF ChainInv, Chained
    <3>4. Commit!Prepare(h, r)
      BY <3>1, <3>3
    <3> QED
      BY <3>4
  <2>2. ASSUME NEW h \in Hops, NEW r \in Runs, OnAck(h, r) PROVE Commit!Next
    <3>1. /\ Message("ACK", h, r) \in net /\ UNCHANGED records
          /\ acked' = [acked EXCEPT ![h] = @ \cup ({r} \cap records[h])]
      BY <2>2 DEF OnAck, Receive, ReceiveAndSend
    <3>2. Message("ACK", h, r).type = "ACK" /\ Message("ACK", h, r).run = r
      BY DEF Message
    <3>3. Everywhere(r)
      BY <3>1, <3>2 DEF ChainInv, Chained
    <3>4. {r} \cap records[h] = {r}
      BY <3>3 DEF Everywhere
    <3>5. Commit!CommitTo(h, r)
      BY <3>1, <3>3, <3>4 DEF Everywhere
    <3> QED
      BY <3>5
  <2>3. \/ UNCHANGED <<records, acked>>
        \/ \E h \in Hops, r \in Runs : AcceptSyn(h, r) \/ OnAck(h, r)
    <3>1. ASSUME NEW h \in Hops, NEW r \in Runs, HandlerStep(h, r)
          PROVE  UNCHANGED <<records, acked>>
      BY <3>1, HandlerSteps DEF TypeInv
    <3> QED
      BY <3>1 DEF Next, MainStep, IgnoreSyn, ClientStep, Keepalive, vars, serverVars, recordVars
  <2> QED
    BY <2>1, <2>2, <2>3
<1>3. Init => TypeInv /\ ChainInv
  BY TypeInvInit DEF Init, ServerInit, ChainInv
<1>4. TypeInv /\ ChainInv /\ [Next]_vars => (TypeInv /\ ChainInv)'
  BY TypeInvStep, ChainStep
<1> QED
  BY <1>1, <1>2, <1>3, <1>4, PTL DEF Spec, ImplementsCommit, Commit!Spec

-------------------------------------------------------------------------------
(* The ports.  hashport reaches the highest value it can have, Highest,    *)
(* only if no increment was lost.  A handler between its read and its      *)
(* write can bring it there only if it is there already, since any other   *)
(* handler that wrote meanwhile has raised Highest.                        *)

Highest == FirstPort + Cardinality(Numbered)

PortsInv ==
  /\ IsFiniteSet(Numbered)
  /\ hashport <= Highest
  /\ \A r \in Runs : pc[N][r] = "store" =>
       /\ port[r] <= Highest
       /\ port[r] = Highest => hashport = Highest
  /\ hashport = Highest =>
       /\ \A r \in Numbered : port[r] < hashport
       /\ \A r, s \in Numbered : port[r] = port[s] => r = s

LEMMA PortsStep ==
  ASSUME TypeInv, PortsInv, [Next]_vars
  PROVE  PortsInv'
<1>0. /\ TypeOK /\ PlaceInv /\ N \in Hops
      /\ hashport \in Nat /\ port \in [Runs -> Nat]
  BY DEF TypeInv, TypeOK, ServerTypeOK
<1>1. Cardinality(Numbered) \in Nat
  BY FS_CardinalityType DEF PortsInv
<1>2. ASSUME UNCHANGED <<hashport, port>>,
             \A r \in Runs : /\ r \in Numbered' <=> r \in Numbered
                             /\ pc'[N][r] = "store" => pc[N][r] = "store"
      PROVE  PortsInv'
  <2>1. Numbered' = Numbered
    BY <1>2 DEF Numbered
  <2>2. Highest' = Highest
    BY <2>1 DEF Highest
  <2> QED
    BY <1>2, <2>1, <2>2 DEF PortsInv
<1>3. ASSUME UNCHANGED <<hashport, port, pc>> PROVE PortsInv'
  BY <1>2, <1>3 DEF Numbered
<1>4. ASSUME NEW h \in Hops, NEW r \in Runs, AcceptSyn(h, r) PROVE PortsInv'
  <2>1. /\ Moved(h, r, "none", IF h < N THEN "send" ELSE "take")
        /\ UNCHANGED <<hashport, port>>
    BY <1>4, AcceptSteps
  <2>2. PICK there \in {"send", "take"} : Moved(h, r, "none", there)
    BY <2>1
  <2> QED
    BY <1>0, <1>2, <2>1, <2>2 DEF Moved, Numbered
<1>5. ASSUME NEW h \in Hops, NEW r \in Runs, HandlerStep(h, r) PROVE PortsInv'
  <2>1. CASE ForwardSyn(h, r) \/ ForwardNoSocket(h, r) \/ ForwardReceive(h, r)
    <3>1. PICK here \in {"send", "await"}, there \in {"await", "reply"} :
            Moved(h, r, here, there)
      BY <1>0, <2>1, HandlerSteps
    <3>2. h # N /\ UNCHANGED <<hashport, port>>
      BY <1>0, <2>1, <3>1
         DEF Moved, PlaceInv, ForwardSyn, ForwardNoSocket, ForwardReceive, portVars
    <3>3. \A s \in Runs : pc'[N][s] = pc[N][s]
      BY <1>0, <3>1, <3>2 DEF Moved
    <3> QED
      BY <1>2, <3>2, <3>3 DEF Numbered
  <2>2. CASE SendReply(h, r) \/ PassAckOn(h, r) \/ GiveUp(h, r) \/ GoOn(h, r)
    <3>1. PICK here \in {"reply", "loop"}, there \in {"done", "gaveUp", "reply", "loop"} :
            Moved(h, r, here, there)
      BY <1>0, <2>2, HandlerSteps
    <3>2. UNCHANGED <<hashport, port>>
      BY <2>2 DEF SendReply, PassAckOn, GiveUp, GoOn, portVars
    <3>3. \A s \in Runs : /\ s \in Numbered' <=> s \in Numbered
                          /\ pc'[N][s] = "store" => pc[N][s] = "store"
      BY <1>0, <3>1 DEF Moved, Numbered
    <3> QED
      BY <1>2, <3>2, <3>3
  <2>3. CASE TakePort(h, r)
    <3>1. /\ Moved(h, r, "take", "store") /\ h = N
          /\ port' = [port EXCEPT ![r] = hashport] /\ UNCHANGED hashport
      BY <1>0, <2>3, HandlerSteps DEF TakePort, Moved, PlaceInv
    <3>2. /\ r \notin Numbered
          /\ \A s \in Runs : s \in Numbered' <=> s \in Numbered
      BY <1>0, <3>1 DEF Moved, Numbered
    <3>3. Numbered' = Numbered
      BY <3>2 DEF Numbered
    <3>4. Highest' = Highest
      BY <3>3 DEF Highest
    <3>5. \A s \in Numbered : port'[s] = port[s]
      BY <1>0, <3>1, <3>2 DEF Numbered
    <3>6. \A s \in Runs : pc'[N][s] = "store" =>
            \/ s = r /\ port'[s] = hashport
            \/ pc[N][s] = "store" /\ port'[s] = port[s]
      BY <1>0, <3>1 DEF Moved
    <3> QED
      BY <3>1, <3>3, <3>4, <3>5, <3>6 DEF PortsInv
  <2>4. CASE StorePort(h, r)
    <3>1. /\ Moved(h, r, "store", "reply") /\ h = N
          /\ hashport' = port[r] + 1 /\ UNCHANGED port
      BY <1>0, <2>4, HandlerSteps DEF StorePort, Moved, PlaceInv
    <3>2. r \notin Numbered /\ \A s \in Runs : s \in Numbered' <=> s \in Numbered \cup {r}
      BY <1>0, <3>1 DEF Moved, Numbered
    <3>3. Numbered' = Numbered \cup {r}
      BY <3>2 DEF Numbered
    <3>4. IsFiniteSet(Numbered') /\ Cardinality(Numbered') = Cardinality(Numbered) + 1
      BY <3>2, <3>3, FS_AddElement DEF PortsInv
    <3>5. Highest' = Highest + 1 /\ Highest \in Nat
      BY <1>1, <3>4 DEF Highest
    <3>6. port[r] <= Highest /\ (port[r] = Highest => hashport = Highest)
      BY <3>1 DEF PortsInv, Moved
    <3>7. \A s \in Runs : pc'[N][s] = "store" => pc[N][s] = "store" /\ port'[s] < Highest'
      <4>1. \A s \in Runs : pc'[N][s] = "store" => pc[N][s] = "store"
        BY <1>0, <3>1 DEF Moved
      <4> QED
        BY <1>0, <3>1, <3>5, <4>1 DEF PortsInv
    <3>8. ASSUME hashport' = Highest'
          PROVE  /\ \A s \in Numbered' : port'[s] < hashport'
                 /\ \A s, t \in Numbered' : port'[s] = port'[t] => s = t
      <4>1. port[r] = Highest /\ hashport = Highest
        BY <1>0, <3>1, <3>5, <3>6, <3>8
      <4>2. /\ \A s \in Numbered : port[s] < port[r]
            /\ \A s, t \in Numbered : port[s] = port[t] => s = t
        BY <4>1 DEF PortsInv
      <4>3. \A s \in Numbered : s \in Runs
        BY DEF Numbered
      <4> QED
        BY <1>0, <3>1, <3>3, <4>2, <4>3
    <3>9. hashport' <= Highest'
      BY <1>0, <3>1, <3>5, <3>6
    <3>10. \A s \in Runs : pc'[N][s] = "store" =>
             port'[s] <= Highest' /\ port'[s] # Highest'
      BY <1>0, <3>1, <3>5, <3>7
    <3> QED
      BY <3>4, <3>8, <3>9, <3>10 DEF PortsInv
  <2> QED
    BY <1>5, <2>1, <2>2, <2>3, <2>4 DEF HandlerStep
<1> QED
  BY <1>3, <1>4, <1>5
     DEF Next, MainStep, IgnoreSyn, OnAck, ClientStep, Keepalive, vars, serverVars,
         handlerVars, portVars

(* hashport never exceeds the responses that took a port; when it equals   *)
(* them, no two responses name the same port.                              *)
THEOREM PortsCorrect == Spec => []PortsCounted
<1>1. Init => PortsInv
  <2> SUFFICES ASSUME Init PROVE PortsInv
    OBVIOUS
  <2>1. Numbered = {}
    BY DEF Init, ServerInit, Numbered
  <2>2. IsFiniteSet(Numbered) /\ Highest = FirstPort
    BY <2>1, FS_EmptySet DEF Highest
  <2>3. \A r \in Runs : pc[N][r] # "store"
    BY DEF Init, ServerInit
  <2> QED
    BY <2>1, <2>2, <2>3 DEF Init, ServerInit, PortsInv
<1>2. TypeInv /\ PortsInv /\ [Next]_vars => (TypeInv /\ PortsInv)'
  BY TypeInvStep, PortsStep
<1>3. PortsInv => PortsCounted
  BY DEF PortsInv, PortsCounted, Highest
<1> QED
  BY <1>1, <1>2, <1>3, TypeInvInit, PTL DEF Spec
=============================================================================
