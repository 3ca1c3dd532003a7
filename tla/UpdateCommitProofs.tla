-------------------------- MODULE UpdateCommitProofs --------------------------
(***************************************************************************)
(* UpdateProtocol makes before it breaks, and implements UpdateCommit: for *)
(* any number of hops and runs of one flow, any loss and duplication, any  *)
(* number of time-outs and restarts.                                       *)
(***************************************************************************)
EXTENDS UpdateProtocolProofs

USE NAssumption, RunsAssumption, BoundsAssumption, AgentAssumption DEF Hops, Epochs

(* The kernels of all hops have the update's "SYN".                        *)
Everywhere(u) == \A g \in Hops : syns[g][u] > 0

(* What a datagram in flight says of the kernels: an UPDATE-SYN has passed *)
(* the hops before its destination; an UPDATE-SYN-ACK comes from the end   *)
(* of the chain; and an UPDATE-ACK is sent by who saw an UPDATE-SYN-ACK.   *)
Chained(m) ==
  /\ m.type = "SYN" => \A g \in Hops : g < m.to => syns[g][UpdateOf(m.run)] > 0
  /\ m.type = "SYNACK" => Everywhere(UpdateOf(m.run))
  /\ m.type = "ACK" => Everywhere(m.update)

NetChain == \A m \in net : Chained(m)

(* The same for the handlers.                                              *)
HandlerChain ==
  \A h \in Hops, r \in Runs :
    /\ pc[h][r] # "none" => \A g \in Hops : g <= h => syns[g][UpdateOf(r)] > 0
    /\ pc[h][r] \in {"lock", "test"} => Everywhere(UpdateOf(r))
    /\ pc[h][r] = "reply" => h = N

(* And for the receive loops and the kernels.                              *)
MainChain ==
  \A h \in Hops :
    /\ mpc[h] # "recv" => Everywhere(mack[h])
    /\ \A u \in activated[h] : Everywhere(u)

ChainInv == NetChain /\ HandlerChain /\ MainChain

LEMMA ChainInit == Init => ChainInv
  BY DEF Init, NetInit, AgentInit, ChainInv, NetChain, HandlerChain, MainChain

(* A kernel never loses a "SYN": what is known of the kernels stays true.  *)
LEMMA SynsGrow ==
  TypeInv /\ [Next]_vars =>
    \A g \in Hops, u \in Updates : syns'[g][u] >= syns[g][u]
<1> SUFFICES ASSUME TypeInv, [Next]_vars
             PROVE  \A g \in Hops, u \in Updates : syns'[g][u] >= syns[g][u]
  OBVIOUS
<1>0. AgentTypeOK /\ NetTypeOK
  BY DEF TypeInv, TypeOK
<1>1. ASSUME UNCHANGED syns PROVE \A g \in Hops, u \in Updates : syns'[g][u] >= syns[g][u]
  BY <1>0, <1>1 DEF AgentTypeOK
<1>2. ASSUME NEW h \in Hops, AcceptSyn(h)
      PROVE  \A g \in Hops, u \in Updates : syns'[g][u] >= syns[g][u]
  <2>1. PICK m \in net : /\ m.type = "SYN"
                         /\ syns' = [syns EXCEPT ![h][UpdateOf(m.run)] = @ + 1]
    BY <1>2 DEF AcceptSyn, Receiving
  <2>2. UpdateOf(m.run) \in Updates
    BY <1>0, <2>1, MessageTypes, UpdateTypes DEF NetTypeOK
  <2> QED
    BY <1>0, <2>1, <2>2, SMTT(30) DEF AgentTypeOK
<1>3. UNCHANGED syns \/ \E h \in Hops : AcceptSyn(h)
  <2>1. ASSUME NEW h \in Hops, AgentStep(h) PROVE UNCHANGED syns \/ AcceptSyn(h)
    <3>1. ASSUME NEW r \in Runs, HandlerStep(h, r) PROVE UNCHANGED syns
      BY <3>1, <1>0, HandlerSteps DEF HandlerStep, Moved
    <3>2. MainStep(h) => UNCHANGED syns \/ AcceptSyn(h)
      BY DEF MainStep, IgnoreSyn, AckWithoutRecord, IgnoreAck, AcceptAck, MainLock,
             MainSetAck, MainUnlock, MainNetlinkAck, kernelVars
    <3> QED
      BY <2>1, <3>1, <3>2 DEF AgentStep, Restart, kernelVars
  <2> QED
    BY <2>1 DEF Next, vars, agentVars, kernelVars
<1> QED
  BY <1>1, <1>2, <1>3

LEMMA ChainGrows ==
  ASSUME TypeInv, [Next]_vars
  PROVE  /\ \A g \in Hops, u \in Updates : syns[g][u] > 0 => syns'[g][u] > 0
         /\ \A u \in Updates : Everywhere(u) => Everywhere(u)'
         /\ \A m \in net : Chained(m) => Chained(m)'
<1>0. /\ syns \in [Hops -> [Updates -> Nat]] /\ syns' \in [Hops -> [Updates -> Nat]]
      /\ net \subseteq Messages
  BY TypeInvStep DEF TypeInv, TypeOK, NetTypeOK, AgentTypeOK
<1>1. \A g \in Hops, u \in Updates : syns[g][u] > 0 => syns'[g][u] > 0
  BY <1>0, SynsGrow
<1>2. \A u \in Updates : Everywhere(u) => Everywhere(u)'
  BY <1>1 DEF Everywhere
<1>3. ASSUME NEW m \in net, Chained(m) PROVE Chained(m)'
  <2>1. CASE m.type = "SYN"
    <3>1. UpdateOf(m.run) \in Updates
      BY <1>0, <2>1, MessageTypes, UpdateTypes
    <3> QED
      BY <1>1, <1>3, <2>1, <3>1 DEF Chained
  <2>2. CASE m.type = "SYNACK"
    <3>1. UpdateOf(m.run) \in Updates
      BY <1>0, <2>2, MessageTypes, UpdateTypes
    <3> QED
      BY <1>2, <1>3, <2>2, <3>1 DEF Chained
  <2>3. CASE m.type = "ACK"
    <3>1. m.update \in Updates
      BY <1>0, <2>3, MessageTypes
    <3> QED
      BY <1>2, <1>3, <2>3, <3>1 DEF Chained
  <2> QED
    BY <2>1, <2>2, <2>3 DEF Chained
<1> QED
  BY <1>1, <1>2, <1>3

LEMMA ChainStep ==
  ASSUME SingleFlow, TypeInv, ChainInv, [Next]_vars
  PROVE  ChainInv'
<1>0. AgentTypeOK /\ NetTypeOK
  BY DEF TypeInv, TypeOK
<1>1. NetChain /\ HandlerChain /\ MainChain
  BY DEF ChainInv
<1>2. \A r \in Runs : UpdateOf(r) \in Updates
  BY UpdateTypes
(* How the parts of the invariant survive steps that say nothing new.     *)
<1>3. ASSUME net' \subseteq net PROVE NetChain'
  BY <1>1, <1>3, ChainGrows DEF NetChain
<1>4. ASSUME NEW x, net' \subseteq net \cup {x}, Chained(x)' PROVE NetChain'
  BY <1>1, <1>4, ChainGrows DEF NetChain
<1>5. ASSUME UNCHANGED pc PROVE HandlerChain'
  <2>1. \A g \in Hops, u \in Updates : syns[g][u] > 0 => syns'[g][u] > 0
    BY ChainGrows
  <2> QED
    BY <1>1, <1>2, <1>5, <2>1, ChainGrows DEF HandlerChain
<1>6. ASSUME UNCHANGED activated,
             \A g \in Hops : mpc'[g] = "recv" \/ (mpc[g] # "recv" /\ mack'[g] = mack[g])
      PROVE  MainChain'
  <2>1. \A g \in Hops : mpc[g] # "recv" => mack[g] \in Updates
    BY DEF TypeInv, RoundsInv
  <2>2. \A g \in Hops : activated[g] \subseteq Updates
    BY <1>0 DEF AgentTypeOK
  <2> QED
    BY <1>1, <1>6, <2>1, <2>2, ChainGrows DEF MainChain
<1>7. ASSUME NEW h \in Hops, NEW r \in Runs, NEW here, NEW there, here # "none",
             Moved(h, r, here, there),
             there \in {"lock", "test"} => Everywhere(UpdateOf(r)),
             there = "reply" => h = N
      PROVE  HandlerChain' /\ MainChain'
  <2>1. \A g \in Hops, u \in Updates : syns[g][u] > 0 => syns'[g][u] > 0
    BY ChainGrows
  <2>2. Everywhere(UpdateOf(r)) => Everywhere(UpdateOf(r))'
    BY <1>2, ChainGrows
  <2>3. ASSUME NEW g \in Hops, NEW s \in Runs
        PROVE  /\ pc'[g][s] # "none" => \A k \in Hops : k <= g => syns'[k][UpdateOf(s)] > 0
               /\ pc'[g][s] \in {"lock", "test"} => Everywhere(UpdateOf(s))'
               /\ pc'[g][s] = "reply" => g = N
    <3>1. CASE g = h /\ s = r
      BY <1>1, <1>2, <1>7, <2>1, <2>2, <3>1 DEF HandlerChain, Moved
    <3>2. CASE g # h \/ s # r
      <4>1. pc'[g][s] = pc[g][s]
        BY <1>7, <3>2 DEF Moved
      <4> QED
        BY <1>1, <1>2, <2>1, <4>1, ChainGrows DEF HandlerChain
    <3> QED
      BY <3>1, <3>2
  <2>4. MainChain'
    BY <1>6, <1>7 DEF Moved
  <2> QED
    BY <2>3, <2>4 DEF HandlerChain
<1>10. CASE UNCHANGED vars
  BY <1>10, <1>3, <1>5, <1>6
  DEF vars, netVars, agentVars, mainVars, handlerVars, kernelVars, ChainInv
<1>11. CASE Lose /\ UNCHANGED <<notifier, agentVars>>
  <2>1. net' \subseteq net
    BY <1>11 DEF Lose
  <2> QED
    BY <1>11, <2>1, <1>3, <1>5, <1>6 DEF agentVars, mainVars, handlerVars, kernelVars, ChainInv
(* The initiator: hop 1 has no hop before it; the UPDATE-SYN-ACK that is  *)
(* answered came from the end of the chain.                               *)
<1>12. ASSUME NEW r \in Runs, NotifierStep(r), UNCHANGED agentVars PROVE ChainInv'
  <2>1. HandlerChain' /\ MainChain'
    BY <1>12, <1>5, <1>6 DEF agentVars, mainVars, handlerVars, kernelVars
  <2>2. CASE NotifySyn(r)
    <3>1. Chained(Syn(1, r, 0))'
      BY DEF Chained, Syn
    <3> QED
      BY <2>1, <2>2, <3>1, <1>4 DEF NotifySyn, Send, ChainInv
  <2>3. CASE NotifyConfirm(r)
    <3>1. PICK m \in net : /\ m.type = "SYNACK" /\ m.run = r
                           /\ ReceiveAndSend(m, {Ack(1, UpdateOf(r))})
      BY <2>3 DEF NotifyConfirm
    <3>2. Everywhere(UpdateOf(r))'
      BY <1>1, <1>2, <3>1, ChainGrows DEF NetChain, Chained
    <3>3. Chained(Ack(1, UpdateOf(r)))'
      BY <3>2 DEF Chained, Ack
    <3> QED
      BY <2>1, <3>1, <3>3, <1>4 DEF ReceiveAndSend, ChainInv
  <2> QED
    BY <1>12, <2>2, <2>3 DEF NotifierStep
<1>13. ASSUME NEW h \in Hops, MainStep(h) PROVE ChainInv'
  <2> USE DEF Receive, ReceiveAndSend, mainVars, handlerVars, kernelVars
  <2>1. CASE IgnoreSyn(h) \/ IgnoreAck(h) \/ AckWithoutRecord(h)
    <3>1. net' \subseteq net /\ UNCHANGED <<mainVars, handlerVars, kernelVars>>
      BY <2>1 DEF IgnoreSyn, IgnoreAck, AckWithoutRecord
    <3> QED
      BY <3>1, <1>3, <1>5, <1>6 DEF ChainInv
  (* The new handler: the hops before have the "SYN", and now this one.   *)
  <2>2. CASE AcceptSyn(h)
    <3>1. PICK m \in net :
            /\ m.type = "SYN" /\ m.to = h
            /\ Receive(m)
            /\ syns' = [syns EXCEPT ![h][UpdateOf(m.run)] = @ + 1]
            /\ pc' = [pc EXCEPT ![h][m.run] = FirstStep(h, m.run)]
            /\ UNCHANGED <<mpc, mack, activated>>
      BY <2>2 DEF AcceptSyn, Receiving
    <3>2. m.run \in Runs
      BY <1>0, <3>1, MessageTypes DEF NetTypeOK
    <3>3. \A g \in Hops, u \in Updates : syns[g][u] > 0 => syns'[g][u] > 0
      BY ChainGrows
    <3>4. syns'[h][UpdateOf(m.run)] > 0
      BY <1>0, <1>2, <3>1, <3>2, SMTT(30) DEF AgentTypeOK
    <3>5. \A g \in Hops : g <= h => syns'[g][UpdateOf(m.run)] > 0
      <4>1. ASSUME NEW g \in Hops, g < h PROVE syns'[g][UpdateOf(m.run)] > 0
        BY <1>1, <1>2, <3>1, <3>2, <3>3, <4>1 DEF NetChain, Chained
      <4> QED
        BY <3>4, <4>1
    <3>6. h = N => Everywhere(UpdateOf(m.run))'
      BY <3>5 DEF Everywhere
    <3>7. /\ FirstStep(h, m.run) \in {"done", "send", "lock"}
          /\ FirstStep(h, m.run) = "lock" => h = N
      BY DEF FirstStep
    <3>8. ASSUME NEW g \in Hops, NEW s \in Runs
          PROVE  /\ pc'[g][s] # "none" => \A k \in Hops : k <= g => syns'[k][UpdateOf(s)] > 0
                 /\ pc'[g][s] \in {"lock", "test"} => Everywhere(UpdateOf(s))'
                 /\ pc'[g][s] = "reply" => g = N
      <4>1. CASE g = h /\ s = m.run
        <5>1. pc'[g][s] = FirstStep(h, m.run)
          BY <1>0, <3>1, <3>2, <4>1 DEF AgentTypeOK
        <5> QED
          BY <3>5, <3>6, <3>7, <4>1, <5>1
      <4>2. CASE g # h \/ s # m.run
        <5>1. pc'[g][s] = pc[g][s]
          BY <1>0, <3>1, <3>2, <4>2 DEF AgentTypeOK
        <5> QED
          BY <1>1, <1>2, <3>3, <5>1, ChainGrows DEF HandlerChain
      <4> QED
        BY <4>1, <4>2
    <3> QED
      BY <3>1, <3>8, <1>3, <1>6 DEF ChainInv, HandlerChain
  <2>3. CASE AcceptAck(h)
    <3>1. PICK m \in net :
            /\ m.type = "ACK"
            /\ Receive(m)
            /\ mack' = [mack EXCEPT ![h] = m.update]
            /\ mpc' = [mpc EXCEPT ![h] = "lock"]
            /\ UNCHANGED <<activated, handlerVars>>
      BY <2>3 DEF AcceptAck, Receiving
    <3>2. m.update \in Updates /\ Everywhere(m.update)
      BY <1>0, <1>1, <3>1, MessageTypes DEF NetTypeOK, NetChain, Chained
    <3>3. Everywhere(m.update)'
      BY <3>2, ChainGrows
    <3>4. \A g \in Hops : mack'[g] = IF g = h THEN m.update ELSE mack[g]
      BY <1>0, <3>1 DEF AgentTypeOK
    <3>5. \A g \in Hops : g # h => mpc'[g] = mpc[g]
      BY <1>0, <3>1 DEF AgentTypeOK
    <3>6. \A g \in Hops : mpc'[g] # "recv" => \A k \in Hops : syns'[k][mack'[g]] > 0
      <4>1. ASSUME NEW g \in Hops, g # h, mpc'[g] # "recv"
             PROVE  \A k \in Hops : syns'[k][mack'[g]] > 0
        <5>1. mack[g] \in Updates /\ Everywhere(mack[g]) /\ mack'[g] = mack[g]
          BY <1>1, <3>4, <3>5, <4>1 DEF MainChain, TypeInv, RoundsInv
        <5> QED
          BY <5>1, ChainGrows DEF Everywhere
      <4> QED
        BY <3>3, <3>4, <4>1 DEF Everywhere
    <3>7. \A g \in Hops : \A u \in activated'[g] : Everywhere(u)'
      BY <1>0, <1>1, <3>1, ChainGrows DEF MainChain, AgentTypeOK
    <3> QED
      BY <3>1, <3>6, <3>7, <1>3, <1>5 DEF ChainInv, MainChain, Everywhere
  <2>4. CASE MainLock(h) \/ MainSetAck(h) \/ MainUnlock(h)
    <3>1. mpc[h] # "recv" /\ UNCHANGED <<net, handlerVars, mack, activated>>
      BY <2>4 DEF MainLock, MainSetAck, MainUnlock, MainAt, netVars
    <3>2. \A g \in Hops : g # h => mpc'[g] = mpc[g]
      BY <1>0, <2>4 DEF MainLock, MainSetAck, MainUnlock, AgentTypeOK
    <3> QED
      BY <3>1, <3>2, <1>3, <1>5, <1>6 DEF ChainInv
  <2>5. CASE MainNetlinkAck(h)
    <3>1. mack[h] \in Updates /\ Everywhere(mack[h])
      BY <1>1, <2>5 DEF MainNetlinkAck, MainAt, MainChain, TypeInv, RoundsInv
    <3>2. \A g \in Hops : \A u \in activated'[g] : u \in activated[g] \/ u = mack[h]
      BY <1>0, <2>5 DEF MainNetlinkAck, AgentTypeOK
    <3>3. \A g \in Hops : \A u \in activated'[g] : u \in Updates /\ Everywhere(u)
      BY <1>0, <1>1, <3>1, <3>2 DEF MainChain, AgentTypeOK
    <3>4. \A g \in Hops : mpc'[g] # "recv" => g # h /\ mpc[g] # "recv" /\ mack'[g] = mack[g]
      BY <1>0, <2>5 DEF MainNetlinkAck, AgentTypeOK
    <3>5. \A g \in Hops : mpc'[g] # "recv" => mack'[g] \in Updates /\ Everywhere(mack'[g])
      BY <1>1, <3>4 DEF MainChain, TypeInv, RoundsInv
    <3>6. MainChain'
      BY <3>3, <3>5, ChainGrows DEF MainChain
    <3> QED
      BY <2>5, <3>6, <1>3, <1>5 DEF MainNetlinkAck, netVars, ChainInv
  <2> QED
    BY <1>13, <2>1, <2>2, <2>3, <2>4, <2>5 DEF MainStep
<1>14. ASSUME NEW h \in Hops, NEW r \in Runs, HandlerStep(h, r) PROVE ChainInv'
  <2> USE DEF Send
  <2>1. CASE ForwardSyn(h, r)
    <3>1. Moved(h, r, "send", "wait")
      BY <1>0, <2>1, HandlerSteps
    <3>2. HandlerChain' /\ MainChain'
      BY <3>1, <1>7
    <3>3. \A g \in Hops : g < h + 1 => syns'[g][UpdateOf(r)] > 0
      BY <3>1, <3>2, SMTT(30) DEF HandlerChain, Moved
    <3>4. PICK e \in Epochs : e = epoch[h]
      BY <1>0 DEF AgentTypeOK
    <3>5. Chained(Syn(h + 1, r, e))'
      BY <3>3 DEF Chained, Syn
    <3>6. net' = net \cup {Syn(h + 1, r, e)}
      BY <2>1, <3>4 DEF ForwardSyn
    <3> QED
      BY <3>2, <3>5, <3>6, <1>4 DEF ChainInv
  <2>2. CASE ForwardReceive(h, r)
    <3>1. Moved(h, r, "wait", "lock")
      BY <1>0, <2>2, HandlerSteps
    <3>2. SynAck(h, r, epoch[h]) \in net /\ net' \subseteq net
      BY <2>2 DEF ForwardReceive, Receive, ReceiveAndSend
    <3>3. Everywhere(UpdateOf(r))
      BY <1>1, <3>2 DEF NetChain, Chained, SynAck
    <3> QED
      BY <3>1, <3>2, <3>3, <1>3, <1>7 DEF ChainInv
  <2>3. CASE HandlerLock(h, r)
    <3>1. Moved(h, r, "lock", "test") /\ net' \subseteq net
      BY <1>0, <2>3, HandlerSteps DEF HandlerLock, netVars
    <3>2. Everywhere(UpdateOf(r))
      BY <1>1, <3>1 DEF HandlerChain, Moved
    <3> QED
      BY <3>1, <3>2, <1>3, <1>7 DEF ChainInv
  (* updateForward relays, or acknowledges, what came from the end.       *)
  <2>4. CASE HandlerRelay(h, r)
    <3>1. Moved(h, r, "test", "leave")
      BY <1>0, <2>4, HandlerSteps
    <3>2. Everywhere(UpdateOf(r))'
      BY <1>1, <1>2, <3>1, ChainGrows DEF HandlerChain, Moved
    <3>3. PICK e \in Epochs : e = cliEpoch[h][r]
      BY <1>0 DEF AgentTypeOK
    <3>4. Chained(SynAck(h - 1, r, e))'
      BY <3>2 DEF Chained, SynAck
    <3>5. net' = net \cup {SynAck(h - 1, r, e)} \/ net' = net
      BY <2>4, <3>3 DEF HandlerRelay, Reply, netVars
    <3>6. NetChain'
      BY <3>4, <3>5, <1>3, <1>4
    <3> QED
      BY <3>1, <3>6, <1>7 DEF ChainInv
  <2>5. CASE HandlerAcked(h, r)
    <3>1. Moved(h, r, "test", "acked")
      BY <1>0, <2>5, HandlerSteps
    <3>2. Everywhere(UpdateOf(r))'
      BY <1>1, <1>2, <3>1, ChainGrows DEF HandlerChain, Moved
    <3>3. <<AckFlow, SeqOf[r]>> = UpdateOf(r)
      BY DEF SingleFlow, UpdateOf
    <3>4. Chained(Ack(h + 1, <<AckFlow, SeqOf[r]>>))'
      BY <3>2, <3>3 DEF Chained, Ack
    <3>5. NetChain'
      BY <2>5, <3>4, <1>3, <1>4 DEF HandlerAcked, netVars
    <3> QED
      BY <3>1, <3>5, <1>7 DEF ChainInv
  <2>6. CASE HandlerLeave(h, r)
    <3>1. /\ Moved(h, r, "leave", "wait") \/ (Moved(h, r, "leave", "reply") /\ h = N)
          /\ net' \subseteq net
      <4>1. Moved(h, r, "leave", IF h < N THEN "wait" ELSE "reply")
        BY <1>0, <2>6, HandlerSteps
      <4>2. net' \subseteq net
        BY <2>6 DEF HandlerLeave, netVars
      <4>3. CASE h < N
        BY <4>1, <4>2, <4>3
      <4>4. CASE h = N
        BY <4>1, <4>2, <4>4
      <4> QED
        BY <4>3, <4>4
    <3> QED
      BY <3>1, <1>3, <1>7 DEF ChainInv
  (* updateBack runs at the end.                                          *)
  <2>7. CASE BackReply(h, r)
    <3>1. Moved(h, r, "reply", "timeout") \/ Moved(h, r, "reply", "lock")
      BY <1>0, <2>7, HandlerSteps
    <3>2. h = N
      BY <1>1, <3>1 DEF HandlerChain, Moved
    <3>3. Everywhere(UpdateOf(r))
      <4>1. pc[h][r] = "reply"
        BY <3>1 DEF Moved
      <4>2. \A g \in Hops : g <= h => syns[g][UpdateOf(r)] > 0
        BY <1>1, <4>1 DEF HandlerChain
      <4>3. \A g \in Hops : g <= h
        BY <3>2, NAssumption DEF Hops
      <4> QED
        BY <4>2, <4>3 DEF Everywhere
    <3>4. HandlerChain' /\ MainChain'
      BY <3>1, <3>3, <1>7
    <3>5. Everywhere(UpdateOf(r))'
      BY <1>2, <3>3, ChainGrows
    <3>6. PICK e \in Epochs : e = cliEpoch[h][r]
      BY <1>0 DEF AgentTypeOK
    <3>7. Chained(SynAck(h - 1, r, e))'
      BY <3>5 DEF Chained, SynAck
    <3>8. net' = net \cup {SynAck(h - 1, r, e)}
      BY <2>7, <3>6 DEF BackReply, Reply
    <3> QED
      BY <3>4, <3>7, <3>8, <1>4 DEF ChainInv
  <2>8. CASE ClearAck(h, r) \/ FinalUnlock(h, r)
    <3>1. \/ Moved(h, r, "acked", "unlock") \/ Moved(h, r, "timeout", "timeoutUnlock")
          \/ Moved(h, r, "unlock", "done") \/ Moved(h, r, "timeoutUnlock", "gaveUp")
      BY <1>0, <2>8, HandlerSteps
    <3>2. net' \subseteq net
      BY <2>8 DEF ClearAck, FinalUnlock, netVars
    <3> QED
      BY <3>1, <3>2, <1>3, <1>7 DEF ChainInv
  <2> QED
    BY <1>14, <2>1, <2>2, <2>3, <2>4, <2>5, <2>6, <2>7, <2>8 DEF HandlerStep
<1>15. ASSUME NEW h \in Hops, Restart(h) PROVE ChainInv'
  <2>1. UNCHANGED <<net, syns, activated>>
    BY <1>15 DEF Restart, netVars, kernelVars
  <2>2. /\ \A g \in Hops, s \in Runs : pc'[g][s] \in {pc[g][s], "none"}
        /\ \A g \in Hops : mpc'[g] = "recv" \/ (mpc'[g] = mpc[g] /\ mack'[g] = mack[g])
    BY <1>0, <1>15 DEF Restart, AgentTypeOK
  <2>3. HandlerChain'
    BY <1>1, <2>1, <2>2 DEF HandlerChain, Everywhere
  <2> QED
    BY <2>1, <2>2, <2>3, <1>3, <1>6 DEF ChainInv
<1> QED
  BY <1>10, <1>11, <1>12, <1>13, <1>14, <1>15 DEF Next, AgentStep

-------------------------------------------------------------------------------
(* Make before break, for runs that all update the flow settingAck names.  *)
THEOREM ChainCorrect == SingleFlow /\ Spec => []MakeBeforeBreak
<1> SUFFICES ASSUME SingleFlow PROVE Spec => []MakeBeforeBreak
  OBVIOUS
<1>1. Init => TypeInv /\ ChainInv
  BY TypeInvInit, ChainInit
<1>2. TypeInv /\ ChainInv /\ [Next]_vars => (TypeInv /\ ChainInv)'
  BY TypeInvStep, ChainStep
<1>3. TypeInv /\ ChainInv => MakeBeforeBreak
  BY DEF TypeInv, TypeOK, AgentTypeOK, ChainInv, MainChain, Everywhere, MakeBeforeBreak, Installed
<1> QED
  BY <1>1, <1>2, <1>3, PTL DEF Spec

(* The protocol implements the two-phase commit of UpdateCommit: accepting *)
(* an UPDATE-SYN prepares, passing "ACK" to the kernel commits, and every  *)
(* other step is invisible.                                                *)
THEOREM CommitRefinement == SingleFlow /\ Spec => ImplementsCommit
<1> SUFFICES ASSUME SingleFlow PROVE Spec => ImplementsCommit
  OBVIOUS
<1>1. Init => Commit!Init
  BY DEF Init, AgentInit, Commit!Init, Commit!Hops, Installed
<1>2. TypeInv /\ ChainInv /\ [Next]_vars => [Commit!Next]_(Commit!vars)
  <2> SUFFICES ASSUME TypeInv, ChainInv, [Next]_vars PROVE [Commit!Next]_(Commit!vars)
    OBVIOUS
  <2>0. AgentTypeOK /\ NetTypeOK /\ NetChain /\ MainChain
    BY DEF TypeInv, TypeOK, ChainInv
  <2> USE DEF Commit!Next, Commit!vars, Commit!Hops, Commit!Prepare, Commit!CommitTo
  <2>1. ASSUME UNCHANGED <<syns, activated>> PROVE UNCHANGED Commit!vars
    BY <2>1 DEF Installed
  <2>2. ASSUME NEW h \in Hops, AcceptSyn(h) PROVE Commit!Next
    <3>1. PICK m \in net :
            /\ m.type = "SYN" /\ m.to = h
            /\ syns' = [syns EXCEPT ![h][UpdateOf(m.run)] = @ + 1]
            /\ UNCHANGED activated
      BY <2>2 DEF AcceptSyn, Receiving
    <3>2. UpdateOf(m.run) \in Updates
      BY <2>0, <3>1, MessageTypes, UpdateTypes DEF NetTypeOK
    <3>3. \A g \in 1..h-1 : UpdateOf(m.run) \in Installed(g)
      BY <2>0, <3>1, <3>2 DEF NetChain, Chained, Installed
    <3>4. \A g \in Hops : Installed(g)' =
            IF g = h THEN Installed(g) \cup {UpdateOf(m.run)} ELSE Installed(g)
      BY <2>0, <3>1, <3>2 DEF Installed, AgentTypeOK
    <3>5. [g \in Hops |-> Installed(g)]' =
            [[g \in Hops |-> Installed(g)] EXCEPT ![h] = @ \cup {UpdateOf(m.run)}]
      BY <3>4
    <3>6. Commit!Prepare(h, UpdateOf(m.run))
      BY <3>1, <3>3, <3>5
    <3> QED
      BY <3>2, <3>6
  <2>3. ASSUME NEW h \in Hops, MainNetlinkAck(h) PROVE Commit!Next
    <3>1. /\ activated' = [activated EXCEPT ![h] = @ \cup {mack[h]}]
          /\ UNCHANGED syns /\ mpc[h] # "recv"
      BY <2>3 DEF MainNetlinkAck, MainAt
    <3>2. mack[h] \in Updates /\ Everywhere(mack[h])
      BY <2>0, <3>1 DEF MainChain, TypeInv, RoundsInv
    <3>3. \A g \in Hops : mack[h] \in Installed(g)
      BY <3>2 DEF Everywhere, Installed
    <3>4. Commit!CommitTo(h, mack[h])
      BY <3>1, <3>3 DEF Installed
    <3> QED
      BY <3>2, <3>4
  <2>4. \/ UNCHANGED <<syns, activated>>
        \/ \E h \in Hops : AcceptSyn(h) \/ MainNetlinkAck(h)
    <3>1. ASSUME NEW h \in Hops, AgentStep(h)
          PROVE  UNCHANGED <<syns, activated>> \/ AcceptSyn(h) \/ MainNetlinkAck(h)
      <4>1. ASSUME NEW r \in Runs, HandlerStep(h, r) PROVE UNCHANGED <<syns, activated>>
        BY <4>1, <2>0, HandlerSteps DEF HandlerStep, Moved
      <4>2. MainStep(h) => UNCHANGED <<syns, activated>> \/ AcceptSyn(h) \/ MainNetlinkAck(h)
        BY DEF MainStep, IgnoreSyn, AckWithoutRecord, IgnoreAck, AcceptAck, MainLock,
               MainSetAck, MainUnlock, kernelVars
      <4> QED
        BY <3>1, <4>1, <4>2 DEF AgentStep, Restart, kernelVars
    <3> QED
      BY <3>1 DEF Next, vars, agentVars, kernelVars
  <2> QED
    BY <2>1, <2>2, <2>3, <2>4
<1>3. Init => TypeInv /\ ChainInv
  BY TypeInvInit, ChainInit
<1>4. TypeInv /\ ChainInv /\ [Next]_vars => (TypeInv /\ ChainInv)'
  BY TypeInvStep, ChainStep
<1> QED
  BY <1>1, <1>2, <1>3, <1>4, PTL DEF Spec, ImplementsCommit, Commit!Spec
=============================================================================
