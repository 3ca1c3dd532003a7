------------------------- MODULE UpdateProtocolProofs -------------------------
(***************************************************************************)
(* Proofs about UpdateProtocol for every number of hops, every set of      *)
(* runs and every bound.                                                   *)
(***************************************************************************)
EXTENDS UpdateProtocol, TLAPS

USE NAssumption, RunsAssumption, BoundsAssumption, AgentAssumption DEF Hops, Epochs

-------------------------------------------------------------------------------
(* Type correctness.  TypeOK is inductive once it is known that updateBack *)
(* starts a round only below its limit, that only a hop with a successor   *)
(* forwards an UPDATE-SYN, and that the receive loop has an update in hand *)
(* while it handles an UPDATE-ACK.                                         *)

RoundsInv ==
  /\ \A h \in Hops, r \in Runs :
       /\ pc[h][r] = "lock" /\ h = N /\ MayTimeOut => tries[h][r] < MaxTries
       /\ pc[h][r] = "send" => h < N
  /\ \A h \in Hops : mpc[h] # "recv" => mack[h] \in Updates

TypeInv == TypeOK /\ RoundsInv

LEMMA UpdateTypes ==
  \A r \in Runs : /\ UpdateOf(r) \in Updates
                  /\ <<AckFlow, SeqOf[r]>> \in Updates
                  /\ UpdateOf(r)[1] \in Flows
                  /\ UpdateOf(r)[2] \in Nat
  BY DEF UpdateOf, Updates

LEMMA MessageTypes ==
  /\ \A m \in Messages : m.type = "SYN" =>
       m.to \in Hops /\ m.run \in Runs /\ m.epoch \in Epochs
  /\ \A m \in Messages : m.type = "SYNACK" =>
       m.to \in 0..N-1 /\ m.run \in Runs /\ m.epoch \in Epochs
  /\ \A m \in Messages : m.type = "ACK" =>
       m.to \in Hops /\ m.update \in Updates
  BY DEF Messages

LEMMA MessageConstructors ==
  /\ \A h \in Hops, r \in Runs, e \in Epochs : Syn(h, r, e) \in Messages
  /\ \A h \in 0..N-1, r \in Runs, e \in Epochs : SynAck(h, r, e) \in Messages
  /\ \A h \in Hops, u \in Updates : Ack(h, u) \in Messages
  BY DEF Messages, Syn, SynAck, Ack

(* A step of a handler moves it, and leaves alone what no handler touches. *)
Moved(h, r, here, there) ==
  /\ alive[h] = "up"
  /\ pc[h][r] = here
  /\ pc' \in [Hops -> [Runs -> HandlerStates]]
  /\ \A g \in Hops, s \in Runs :
       pc'[g][s] = IF g = h /\ s = r THEN there ELSE pc[g][s]
  /\ UNCHANGED <<alive, epoch, records, mpc, mack, cliEpoch, syns, activated>>

LEMMA HandlerMoves ==
  ASSUME AgentTypeOK, NEW h \in Hops, NEW r \in Runs,
         NEW here, NEW there \in HandlerStates, HandlerGoes(h, r, here, there)
  PROVE  Moved(h, r, here, there)
  BY DEF AgentTypeOK, Moved, HandlerGoes, processVars, mainVars, kernelVars

(* The same for every action of a handler.                                *)
LEMMA HandlerSteps ==
  ASSUME AgentTypeOK, NEW h \in Hops, NEW r \in Runs
  PROVE  /\ ForwardSyn(h, r) => Moved(h, r, "send", "wait")
         /\ ForwardReceive(h, r) => Moved(h, r, "wait", "lock")
         /\ HandlerLock(h, r) => Moved(h, r, "lock", "test")
         /\ HandlerRelay(h, r) => Moved(h, r, "test", "leave")
         /\ HandlerAcked(h, r) => Moved(h, r, "test", "acked")
         /\ HandlerLeave(h, r) => Moved(h, r, "leave", IF h < N THEN "wait" ELSE "reply")
         /\ BackReply(h, r) =>
              Moved(h, r, "reply", IF TriesExhausted(h, r) THEN "timeout" ELSE "lock")
         /\ ClearAck(h, r) => \/ Moved(h, r, "acked", "unlock")
                              \/ Moved(h, r, "timeout", "timeoutUnlock")
         /\ FinalUnlock(h, r) => \/ Moved(h, r, "unlock", "done")
                                 \/ Moved(h, r, "timeoutUnlock", "gaveUp")
<1> DEFINE Goes(here, there) == HandlerGoes(h, r, here, there)
<1>1. \A here, there : there \in HandlerStates /\ Goes(here, there) => Moved(h, r, here, there)
  BY HandlerMoves
<1>2. {"wait", "lock", "test", "leave", "acked", "reply", "timeout", "unlock",
       "timeoutUnlock", "done", "gaveUp"} \subseteq HandlerStates
  BY DEF HandlerStates
<1> HIDE DEF Goes
<1>3. /\ ForwardSyn(h, r) => Goes("send", "wait")
      /\ ForwardReceive(h, r) => Goes("wait", "lock")
      /\ HandlerLock(h, r) => Goes("lock", "test")
      /\ HandlerRelay(h, r) => Goes("test", "leave")
      /\ HandlerAcked(h, r) => Goes("test", "acked")
  BY DEF Goes, ForwardSyn, ForwardReceive, HandlerLock, HandlerRelay, HandlerAcked
<1>4. /\ HandlerLeave(h, r) => Goes("leave", IF h < N THEN "wait" ELSE "reply")
      /\ BackReply(h, r) => Goes("reply", IF TriesExhausted(h, r) THEN "timeout" ELSE "lock")
      /\ ClearAck(h, r) => Goes("acked", "unlock") \/ Goes("timeout", "timeoutUnlock")
      /\ FinalUnlock(h, r) => Goes("unlock", "done") \/ Goes("timeoutUnlock", "gaveUp")
  BY DEF Goes, HandlerLeave, BackReply, ClearAck, FinalUnlock
<1> QED
  BY <1>1, <1>2, <1>3, <1>4

LEMMA TypeInvInit == Init => TypeInv
  BY UpdateTypes
  DEF Init, NetInit, NotifierInit, AgentInit, TypeInv, TypeOK, RoundsInv,
      NetTypeOK, NotifierTypeOK, AgentTypeOK, HandlerStates, MainStates,
      NoRecord, NoUpdate

(* One step per action of the initiator, the network and the agent, and   *)
(* under it one per part of the invariant that it can disturb.            *)
LEMMA TypeInvStep == TypeInv /\ [Next]_vars => TypeInv'
<1> SUFFICES ASSUME NetTypeOK, NotifierTypeOK, AgentTypeOK, RoundsInv, [Next]_vars
             PROVE  NetTypeOK' /\ NotifierTypeOK' /\ AgentTypeOK' /\ RoundsInv'
  BY DEF TypeInv, TypeOK
<1> USE DEF netVars, agentVars, processVars, mainVars, handlerVars, mutexVars, kernelVars
<1> DEFINE Goal == NetTypeOK' /\ NotifierTypeOK' /\ AgentTypeOK' /\ RoundsInv'
<1>0. ASSUME UNCHANGED agentVars PROVE AgentTypeOK' /\ RoundsInv'
  BY <1>0 DEF AgentTypeOK, RoundsInv
<1>1. ASSUME NEW r \in Runs, NotifySyn(r), UNCHANGED agentVars PROVE Goal
  <2>1. Syn(1, r, 0) \in Messages
    BY MessageConstructors
  <2> QED
    BY <1>0, <1>1, <2>1 DEF NotifySyn, Send, NetTypeOK, NotifierTypeOK
<1>2. ASSUME NEW r \in Runs, NotifyConfirm(r), UNCHANGED agentVars PROVE Goal
  <2>a. 1 \in Hops
    OBVIOUS
  <2>b. UpdateOf(r) \in Updates
    BY UpdateTypes
  <2>1. Ack(1, UpdateOf(r)) \in Messages
    BY <2>a, <2>b, MessageConstructors
  <2> QED
    BY <1>0, <1>2, <2>1 DEF NotifyConfirm, ReceiveAndSend, NetTypeOK, NotifierTypeOK
<1>3. ASSUME Lose, UNCHANGED <<notifier, agentVars>> PROVE Goal
  <2>1. PICK m \in net :
          /\ lost[m.type] < MaxLoss[m.type]
          /\ lost' = [lost EXCEPT ![m.type] = @ + 1]
          /\ net' = net \ {m}
    BY <1>3 DEF Lose
  <2>2. m.type \in Types
    BY MessageTypes DEF NetTypeOK, Messages, Types
  <2>3. MaxLoss \in [Types -> Nat] /\ lost \in [Types -> Nat]
    BY BoundsAssumption DEF NetTypeOK
  <2>4. lost' \in [Types -> Nat]
    BY <2>1, <2>2, <2>3
  <2>5. ASSUME NEW t \in Types PROVE lost'[t] <= MaxLoss[t]
    <3>1. lost[m.type] \in Nat /\ MaxLoss[m.type] \in Nat /\ lost[t] <= MaxLoss[t]
      BY <2>2, <2>3 DEF NetTypeOK
    <3> QED
      BY <2>1, <2>2, <2>3, <3>1
  <2>6. NetTypeOK'
    BY <2>1, <2>4, <2>5 DEF NetTypeOK
  <2> QED
    BY <1>0, <1>3, <2>6 DEF NotifierTypeOK
<1>4. ASSUME UNCHANGED vars PROVE Goal
  BY <1>0, <1>4 DEF vars, NetTypeOK, NotifierTypeOK
<1>5. ASSUME NEW h \in Hops, AgentStep(h), UNCHANGED notifier PROVE Goal
  <2> USE DEF Receive, ReceiveAndSend
  <2>0. NotifierTypeOK'
    BY <1>5 DEF NotifierTypeOK
  <2>1. CASE IgnoreSyn(h) \/ IgnoreAck(h) \/ AckWithoutRecord(h)
    <3>1. NetTypeOK'
      BY <2>1 DEF IgnoreSyn, IgnoreAck, AckWithoutRecord, NetTypeOK
    <3>2. alive' \in [Hops -> {"up", "exited", "crashed"}]
      BY <2>1 DEF IgnoreSyn, IgnoreAck, AckWithoutRecord, TimeCheck, AgentTypeOK
    <3>3. UNCHANGED <<epoch, mainVars, handlerVars, mutexVars, kernelVars>>
      BY <2>1 DEF IgnoreSyn, IgnoreAck, AckWithoutRecord
    <3> QED
      BY <2>0, <3>1, <3>2, <3>3 DEF AgentTypeOK, RoundsInv
  <2>2. CASE AcceptSyn(h)
    <3>1. PICK m \in net :
            /\ m.type = "SYN"
            /\ Receive(m)
            /\ syns' = [syns EXCEPT ![h][UpdateOf(m.run)] = @ + 1]
            /\ AddItem(h, UpdateOf(m.run))
            /\ pc' = [pc EXCEPT ![h][m.run] = FirstStep(h, m.run)]
            /\ tries' = [tries EXCEPT ![h][m.run] = 0]
            /\ cliEpoch' = [cliEpoch EXCEPT ![h][m.run] = m.epoch]
            /\ UNCHANGED <<processVars, mpc, mack, mutexVars, activated>>
      BY <2>2 DEF AcceptSyn, Receiving
    <3>2. m.run \in Runs /\ m.epoch \in Epochs
      BY <3>1, MessageTypes DEF NetTypeOK
    <3>3. /\ UpdateOf(m.run) \in Updates
          /\ UpdateOf(m.run)[1] \in Flows /\ UpdateOf(m.run)[2] \in Nat
      BY <3>2, UpdateTypes
    <3>4. NetTypeOK'
      BY <3>1 DEF NetTypeOK
    <3>5. records' \in [Hops -> [Flows -> Nat \cup {NoRecord}]]
      BY <3>1, <3>3 DEF AddItem, AgentTypeOK
    <3>6. syns' \in [Hops -> [Updates -> Nat]]
      BY <3>1, <3>3, SMTT(30) DEF AgentTypeOK
    <3>7. FirstStep(h, m.run) \in {"done", "lock"} \/ (FirstStep(h, m.run) = "send" /\ h < N)
      BY <3>2 DEF FirstStep
    <3>8. /\ pc' \in [Hops -> [Runs -> HandlerStates]]
          /\ tries' \in [Hops -> [Runs -> 0..MaxTries]]
          /\ cliEpoch' \in [Hops -> [Runs -> Epochs]]
      <4>1. FirstStep(h, m.run) \in HandlerStates
        BY <3>7 DEF HandlerStates
      <4>2. pc' \in [Hops -> [Runs -> HandlerStates]]
        BY <3>1, <3>2, <4>1 DEF AgentTypeOK
      <4>a. 0 \in 0..MaxTries
        OBVIOUS
      <4>3. tries' \in [Hops -> [Runs -> 0..MaxTries]]
        BY <3>1, <3>2, <4>a DEF AgentTypeOK
      <4>4. cliEpoch' \in [Hops -> [Runs -> Epochs]]
        BY <3>1, <3>2 DEF AgentTypeOK
      <4> QED
        BY <4>2, <4>3, <4>4
    <3>9. AgentTypeOK'
      BY <3>1, <3>5, <3>6, <3>8 DEF AgentTypeOK
    <3>10. \A g \in Hops, r \in Runs :
             /\ pc'[g][r] = IF g = h /\ r = m.run THEN FirstStep(h, m.run) ELSE pc[g][r]
             /\ tries'[g][r] = IF g = h /\ r = m.run THEN 0 ELSE tries[g][r]
      BY <3>1, <3>2 DEF AgentTypeOK
    <3>11. RoundsInv'
      BY <3>1, <3>7, <3>10 DEF RoundsInv
    <3> QED
      BY <2>0, <3>4, <3>9, <3>11
  <2>3. CASE AcceptAck(h)
    <3>1. PICK m \in net :
            /\ m.type = "ACK"
            /\ Receive(m)
            /\ mpc' = [mpc EXCEPT ![h] = "lock"]
            /\ mack' = [mack EXCEPT ![h] = m.update]
            /\ UNCHANGED <<processVars, records, handlerVars, mutexVars, kernelVars>>
      BY <2>3 DEF AcceptAck, Receiving
    <3>2. m.update \in Updates
      BY <3>1, MessageTypes DEF NetTypeOK
    <3>3. NetTypeOK'
      BY <3>1 DEF NetTypeOK
    <3>4. AgentTypeOK'
      BY <3>1, <3>2 DEF AgentTypeOK, MainStates
    <3>5. RoundsInv'
      BY <3>1, <3>2 DEF AgentTypeOK, RoundsInv
    <3> QED
      BY <2>0, <3>3, <3>4, <3>5
  <2>4. CASE MainLock(h) \/ MainSetAck(h) \/ MainUnlock(h)
    <3>1. NetTypeOK' /\ AgentTypeOK'
      BY <2>4, ZenonT(60) DEF MainLock, MainSetAck, MainUnlock, NetTypeOK, AgentTypeOK, MainStates
    <3>2. mpc[h] # "recv" /\ UNCHANGED <<handlerVars, mack>>
      BY <2>4 DEF MainLock, MainSetAck, MainUnlock, MainAt
    <3>3. \A g \in Hops \ {h} : mpc'[g] = mpc[g]
      BY <2>4 DEF MainLock, MainSetAck, MainUnlock, AgentTypeOK
    <3>4. RoundsInv'
      BY <3>2, <3>3 DEF RoundsInv
    <3> QED
      BY <2>0, <3>1, <3>4
  <2>5. CASE MainNetlinkAck(h)
    <3>1. mack[h] \in Updates
      BY <2>5 DEF MainNetlinkAck, MainAt, RoundsInv
    <3>2. alive' \in [Hops -> {"up", "exited", "crashed"}]
      BY <2>5 DEF MainNetlinkAck, TimeCheck, AgentTypeOK
    <3>3. NetTypeOK' /\ AgentTypeOK'
      BY <2>5, <3>1, <3>2 DEF MainNetlinkAck, NetTypeOK, AgentTypeOK, MainStates
    <3>4. RoundsInv'
      BY <2>5 DEF MainNetlinkAck, AgentTypeOK, RoundsInv
    <3> QED
      BY <2>0, <3>3, <3>4
  <2>6. CASE Restart(h)
    <3>1. UNCHANGED <<net, lost, syns, activated>>
      BY <2>6 DEF Restart
    <3>2. /\ alive' \in [Hops -> {"up", "exited", "crashed"}]
          /\ epoch' \in [Hops -> Epochs]
          /\ records' \in [Hops -> [Flows -> Nat \cup {NoRecord}]]
          /\ update_ack' \in [Hops -> {0, 1}]
          /\ locked' \in [Hops -> BOOLEAN]
      BY <2>6 DEF Restart, AgentTypeOK
    <3>3. /\ mpc' \in [Hops -> MainStates]
          /\ mack' \in [Hops -> Updates \cup {NoUpdate}]
          /\ \A g \in Hops : mpc'[g] = IF g = h THEN "recv" ELSE mpc[g]
          /\ \A g \in Hops : g # h => mack'[g] = mack[g]
      BY <2>6 DEF Restart, AgentTypeOK, MainStates
    <3>4. /\ pc' \in [Hops -> [Runs -> HandlerStates]]
          /\ tries' \in [Hops -> [Runs -> 0..MaxTries]]
          /\ cliEpoch' \in [Hops -> [Runs -> Epochs]]
          /\ \A g \in Hops, r \in Runs : pc'[g][r] = IF g = h THEN "none" ELSE pc[g][r]
          /\ \A g \in Hops, r \in Runs : g # h => tries'[g][r] = tries[g][r]
      BY <2>6, SMTT(30) DEF Restart, AgentTypeOK, HandlerStates
    <3>5. AgentTypeOK'
      BY <3>1, <3>2, <3>3, <3>4 DEF AgentTypeOK
    <3>6. RoundsInv'
      <4>1. \A g \in Hops, r \in Runs :
              /\ pc'[g][r] = "lock" /\ g = N /\ MayTimeOut => tries'[g][r] < MaxTries
              /\ pc'[g][r] = "send" => g < N
        BY <3>4, ZenonT(60) DEF RoundsInv
      <4>2. \A g \in Hops : mpc'[g] # "recv" => mack'[g] \in Updates
        BY <3>3 DEF RoundsInv
      <4> QED
        BY <4>1, <4>2 DEF RoundsInv
    <3> QED
      BY <2>0, <3>1, <3>5, <3>6 DEF NetTypeOK
  <2>7. ASSUME NEW r \in Runs, HandlerStep(h, r) PROVE Goal
    <3>1. CASE ForwardSyn(h, r)
      <4>1. Moved(h, r, "send", "wait") /\ UNCHANGED <<tries, mutexVars>>
        BY <3>1, HandlerSteps DEF ForwardSyn
      <4>2. Syn(h + 1, r, epoch[h]) \in Messages
        BY <4>1, MessageConstructors DEF RoundsInv, AgentTypeOK, Moved
      <4>3. NetTypeOK'
        BY <3>1, <4>2 DEF ForwardSyn, Send, NetTypeOK
      <4>4. AgentTypeOK'
        BY <4>1 DEF AgentTypeOK, Moved
      <4>5. RoundsInv'
        BY <4>1, ZenonT(60) DEF RoundsInv, Moved
      <4> QED
        BY <2>0, <4>3, <4>4, <4>5
    <3>2. CASE ForwardReceive(h, r)
      <4>1. Moved(h, r, "wait", "lock") /\ UNCHANGED <<tries, mutexVars>>
        BY <3>2, HandlerSteps DEF ForwardReceive
      <4>b. SynAck(h, r, epoch[h]) \in Messages
        BY <3>2 DEF ForwardReceive, NetTypeOK
      <4>c. SynAck(h, r, epoch[h]).type = "SYNACK" /\ SynAck(h, r, epoch[h]).to = h
        BY DEF SynAck
      <4>d. h \in 0..N-1
        BY <4>b, <4>c, MessageTypes
      <4>2. h < N
        BY <4>d, NAssumption
      <4>3. NetTypeOK'
        BY <3>2 DEF ForwardReceive, NetTypeOK
      <4>4. AgentTypeOK'
        BY <4>1, <4>2 DEF AgentTypeOK, Moved
      <4>e. tries' = tries
        BY <4>1 DEF mutexVars
      <4>f. ASSUME NEW g \in Hops, NEW s \in Runs
            PROVE  /\ pc'[g][s] = "lock" /\ g = N /\ MayTimeOut => tries'[g][s] < MaxTries
                   /\ pc'[g][s] = "send" => g < N
        <5>1. CASE g = h /\ s = r
          BY <5>1, <4>1, <4>2 DEF Moved
        <5>2. CASE g # h \/ s # r
          BY <5>2, <4>1, <4>e DEF Moved, RoundsInv
        <5> QED
          BY <5>1, <5>2
      <4>g. \A g \in Hops : mpc'[g] # "recv" => mack'[g] \in Updates
        BY <4>1 DEF Moved, RoundsInv
      <4>5. RoundsInv'
        BY <4>f, <4>g DEF RoundsInv
      <4> QED
        BY <2>0, <4>3, <4>4, <4>5
    <3>3. CASE HandlerLock(h, r)
      <4>1. Moved(h, r, "lock", "test") /\ UNCHANGED <<net, lost, update_ack>>
        BY <3>3, HandlerSteps DEF HandlerLock
      <4>2. locked' \in [Hops -> BOOLEAN]
        BY <3>3 DEF HandlerLock, AgentTypeOK
      <4>a. h = N /\ MayTimeOut => tries[h][r] + 1 \in 0..MaxTries
        BY <4>1 DEF RoundsInv, AgentTypeOK, Moved
      <4>3. /\ tries' \in [Hops -> [Runs -> 0..MaxTries]]
            /\ \A g \in Hops, s \in Runs : g # h \/ s # r => tries'[g][s] = tries[g][s]
        BY <3>3, <4>a DEF HandlerLock, CountRound, AgentTypeOK
      <4>4. AgentTypeOK'
        BY <4>1, <4>2, <4>3 DEF AgentTypeOK, Moved
      <4>5. RoundsInv'
        BY <4>1, <4>3, ZenonT(60) DEF RoundsInv, Moved
      <4> QED
        BY <2>0, <4>1, <4>4, <4>5 DEF NetTypeOK
    <3>4. CASE HandlerRelay(h, r)
      <4>1. Moved(h, r, "test", "leave") /\ UNCHANGED <<tries, mutexVars>>
        BY <3>4, HandlerSteps DEF HandlerRelay
      <4>2. Reply(h, r) \in Messages
        BY MessageConstructors DEF Reply, AgentTypeOK
      <4>3. NetTypeOK'
        BY <3>4, <4>2 DEF HandlerRelay, Send, NetTypeOK
      <4>4. AgentTypeOK'
        BY <4>1 DEF AgentTypeOK, Moved
      <4>5. RoundsInv'
        BY <4>1 DEF RoundsInv, Moved
      <4> QED
        BY <2>0, <4>3, <4>4, <4>5
    <3>5. CASE HandlerAcked(h, r)
      <4>1. Moved(h, r, "test", "acked") /\ UNCHANGED <<tries, mutexVars>>
        BY <3>5, HandlerSteps DEF HandlerAcked
      <4>2. h < N => h + 1 \in Hops
        OBVIOUS
      <4>3. h < N => Ack(h + 1, <<AckFlow, SeqOf[r]>>) \in Messages
        BY <4>2, UpdateTypes, MessageConstructors
      <4>4. NetTypeOK'
        BY <3>5, <4>3 DEF HandlerAcked, Send, NetTypeOK
      <4>5. AgentTypeOK'
        BY <4>1 DEF AgentTypeOK, Moved
      <4>6. RoundsInv'
        BY <4>1 DEF RoundsInv, Moved
      <4> QED
        BY <2>0, <4>4, <4>5, <4>6
    <3>6. CASE HandlerLeave(h, r)
      <4>1. /\ Moved(h, r, "leave", "wait") \/ Moved(h, r, "leave", "reply")
            /\ UNCHANGED <<net, lost, tries, update_ack>>
        BY <3>6, HandlerSteps DEF HandlerLeave
      <4>2. locked' \in [Hops -> BOOLEAN]
        BY <3>6 DEF HandlerLeave, AgentTypeOK
      <4>3. AgentTypeOK'
        BY <4>1, <4>2 DEF AgentTypeOK, Moved
      <4>4. RoundsInv'
        BY <4>1, <4>2, ZenonT(60) DEF RoundsInv, Moved
      <4> QED
        BY <2>0, <4>1, <4>3, <4>4 DEF NetTypeOK
    <3>7. CASE BackReply(h, r)
      <4>1. /\ \/ Moved(h, r, "reply", "timeout")
               \/ Moved(h, r, "reply", "lock") /\ ~TriesExhausted(h, r)
            /\ UNCHANGED <<tries, mutexVars>>
        BY <3>7, HandlerSteps DEF BackReply
      <4>2. Reply(h, r) \in Messages
        BY MessageConstructors DEF Reply, AgentTypeOK
      <4>3. NetTypeOK'
        BY <3>7, <4>2 DEF BackReply, Send, NetTypeOK
      <4>4. AgentTypeOK'
        BY <4>1 DEF AgentTypeOK, Moved
      <4>a. ~TriesExhausted(h, r) /\ MayTimeOut => tries[h][r] < MaxTries
        BY DEF TriesExhausted, AgentTypeOK
      <4>5. RoundsInv'
        BY <4>1, <4>a, ZenonT(60) DEF RoundsInv, Moved
      <4> QED
        BY <2>0, <4>3, <4>4, <4>5
    <3>8. CASE ClearAck(h, r)
      <4>1. /\ \/ Moved(h, r, "acked", "unlock")
               \/ Moved(h, r, "timeout", "timeoutUnlock")
            /\ UNCHANGED <<net, lost, tries, locked>>
        BY <3>8, HandlerSteps DEF ClearAck
      <4>2. update_ack' \in [Hops -> {0, 1}]
        BY <3>8 DEF ClearAck, AgentTypeOK
      <4>3. AgentTypeOK'
        BY <4>1, <4>2 DEF AgentTypeOK, Moved
      <4>4. RoundsInv'
        BY <4>1, <4>2, ZenonT(60) DEF RoundsInv, Moved
      <4> QED
        BY <2>0, <4>1, <4>3, <4>4 DEF NetTypeOK
    <3>9. CASE FinalUnlock(h, r)
      <4>1. /\ \/ Moved(h, r, "unlock", "done")
               \/ Moved(h, r, "timeoutUnlock", "gaveUp")
            /\ UNCHANGED <<net, lost, tries, update_ack>>
        BY <3>9, HandlerSteps DEF FinalUnlock
      <4>2. locked' \in [Hops -> BOOLEAN]
        BY <3>9 DEF FinalUnlock, AgentTypeOK
      <4>3. AgentTypeOK'
        BY <4>1, <4>2 DEF AgentTypeOK, Moved
      <4>4. RoundsInv'
        BY <4>1, <4>2, ZenonT(60) DEF RoundsInv, Moved
      <4> QED
        BY <2>0, <4>1, <4>3, <4>4 DEF NetTypeOK
    <3> QED
      BY <2>7, <3>1, <3>2, <3>3, <3>4, <3>5, <3>6, <3>7, <3>8, <3>9 DEF HandlerStep
  <2> QED
    BY <1>5, <2>1, <2>2, <2>3, <2>4, <2>5, <2>6, <2>7 DEF AgentStep, MainStep
<1> QED
  BY <1>1, <1>2, <1>3, <1>4, <1>5 DEF Next, NotifierStep

(* Every variable stays in its set, whatever the hops, runs and bounds.   *)
THEOREM TypeCorrect == Spec => []TypeOK
<1>1. TypeInv => TypeOK
  BY DEF TypeInv
<1> QED
  BY <1>1, TypeInvInit, TypeInvStep, PTL DEF Spec
=============================================================================
