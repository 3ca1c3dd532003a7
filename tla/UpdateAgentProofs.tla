-------------------------- MODULE UpdateAgentProofs --------------------------
(***************************************************************************)
(* What each agent of UpdateProtocol guarantees by itself: its mutex, its  *)
(* flow table, and the "SYN"s it passes to its kernel.                     *)
(***************************************************************************)
EXTENDS UpdateCommitProofs

USE NAssumption, RunsAssumption, BoundsAssumption, AgentAssumption DEF Hops, Epochs

LEMMA UpdateParts == \A u \in Updates : u[1] \in Flows /\ u[2] \in Nat
  BY DEF Updates, UpdateOf

-------------------------------------------------------------------------------
(* The flow table and the "SYN"s.  Every incarnation before this one may   *)
(* have passed one "SYN" for the update, and this one has only if its flow *)
(* table is as new as the update.                                          *)
SynInv ==
  \A h \in Hops, u \in Updates :
    syns[h][u] <= epoch[h] + (IF records[h][u[1]] >= u[2] THEN 1 ELSE 0)

(* A handler's update is in the flow table of its agent.                   *)
RecordInv ==
  \A h \in Hops, r \in Runs :
    pc[h][r] # "none" => records[h][FlowOf[r]] >= SeqOf[r]

LEMMA TableInit == Init => SynInv /\ RecordInv
<1> SUFFICES ASSUME Init PROVE SynInv /\ RecordInv
  OBVIOUS
<1>1. SynInv
  BY UpdateParts DEF Init, AgentInit, SynInv, NoRecord
<1> QED
  BY <1>1 DEF Init, AgentInit, RecordInv

(* Only accepting an UPDATE-SYN and a restart touch what these are about.  *)
LEMMA TableSteps ==
  ASSUME TypeInv, [Next]_vars
  PROVE  \/ \E h \in Hops : AcceptSyn(h) \/ Restart(h)
         \/ /\ UNCHANGED <<syns, epoch, records>>
            /\ \A h \in Hops, r \in Runs : pc'[h][r] # "none" => pc[h][r] # "none"
<1> DEFINE Same == /\ UNCHANGED <<syns, epoch, records>>
                   /\ \A h \in Hops, r \in Runs : pc'[h][r] # "none" => pc[h][r] # "none"
<1>0. AgentTypeOK
  BY DEF TypeInv, TypeOK
<1>1. ASSUME NEW h \in Hops, NEW r \in Runs, HandlerStep(h, r) PROVE Same
  <2>1. PICK here, there : here # "none" /\ Moved(h, r, here, there)
    BY <1>0, <1>1, HandlerSteps DEF HandlerStep
  <2> QED
    BY <2>1 DEF Moved
<1>2. ASSUME NEW h \in Hops, MainStep(h) PROVE Same \/ AcceptSyn(h)
  BY <1>2 DEF MainStep, IgnoreSyn, AckWithoutRecord, IgnoreAck, AcceptAck, MainLock,
         MainSetAck, MainUnlock, MainNetlinkAck, mainVars, kernelVars, handlerVars, processVars
<1>3. ASSUME UNCHANGED agentVars PROVE Same
  BY <1>3 DEF agentVars, mainVars, kernelVars, handlerVars, processVars
<1> QED
  BY <1>1, <1>2, <1>3 DEF Next, vars, AgentStep

LEMMA TableStep ==
  ASSUME TypeInv, SynInv, RecordInv, [Next]_vars
  PROVE  SynInv' /\ RecordInv'
<1>0. AgentTypeOK /\ NetTypeOK
  BY DEF TypeInv, TypeOK
<1>1. ASSUME NEW h \in Hops, AcceptSyn(h) PROVE SynInv' /\ RecordInv'
  <2>1. PICK m \in net :
          /\ m.type = "SYN"
          /\ IsNew(h, UpdateOf(m.run))
          /\ syns' = [syns EXCEPT ![h][UpdateOf(m.run)] = @ + 1]
          /\ AddItem(h, UpdateOf(m.run))
          /\ pc' = [pc EXCEPT ![h][m.run] = FirstStep(h, m.run)]
          /\ UNCHANGED epoch
    BY <1>1 DEF AcceptSyn, Receiving, processVars
  <2>2. PICK w \in Updates : w = UpdateOf(m.run)
    BY <1>0, <2>1, MessageTypes, UpdateTypes DEF NetTypeOK
  <2>3. m.run \in Runs /\ w[1] = FlowOf[m.run] /\ w[2] = SeqOf[m.run]
    BY <1>0, <2>1, <2>2, MessageTypes DEF NetTypeOK, UpdateOf
  <2>4. \A g \in Hops, f \in Flows :
          records'[g][f] = IF g = h /\ f = w[1] THEN w[2] ELSE records[g][f]
    BY <1>0, <2>1, <2>2, UpdateParts DEF AddItem, AgentTypeOK
  <2>5. records[h][w[1]] < w[2]
    BY <2>1, <2>2 DEF IsNew
  <2>6. \A g \in Hops, f \in Flows : records[g][f] \in Int /\ records'[g][f] \in Int
                                     /\ records'[g][f] >= records[g][f]
    <3>1. \A g \in Hops, f \in Flows : records[g][f] \in Int
      BY <1>0 DEF AgentTypeOK, NoRecord
    <3>2. w[1] \in Flows /\ w[2] \in Nat
      BY UpdateParts
    <3> QED
      BY <2>4, <2>5, <3>1, <3>2
  <2>7. \A g \in Hops, u \in Updates :
          syns'[g][u] = IF g = h /\ u = w THEN syns[g][u] + 1 ELSE syns[g][u]
    BY <1>0, <2>1, <2>2 DEF AgentTypeOK
  <2>8. SynInv'
    <3> SUFFICES ASSUME NEW g \in Hops, NEW u \in Updates
                 PROVE  syns'[g][u] <= epoch[g] + (IF records'[g][u[1]] >= u[2] THEN 1 ELSE 0)
      BY <2>1 DEF SynInv
    <3>1. u[1] \in Flows /\ u[2] \in Nat /\ syns[g][u] \in Nat /\ epoch[g] \in Nat
      BY <1>0, UpdateParts DEF AgentTypeOK
    <3>2. syns[g][u] <= epoch[g] + (IF records[g][u[1]] >= u[2] THEN 1 ELSE 0)
      BY DEF SynInv
    <3>3. CASE g = h /\ u = w
      BY <2>4, <2>5, <2>6, <2>7, <3>1, <3>2, <3>3
    <3>4. CASE g # h \/ u # w
      BY <2>6, <2>7, <3>1, <3>2, <3>4
    <3> QED
      BY <3>3, <3>4
  <2>9. RecordInv'
    <3> SUFFICES ASSUME NEW g \in Hops, NEW r \in Runs, pc'[g][r] # "none"
                 PROVE  records'[g][FlowOf[r]] >= SeqOf[r]
      BY DEF RecordInv
    <3>1. CASE g = h /\ r = m.run
      BY <2>2, <2>3, <2>4, <3>1, UpdateParts
    <3>2. CASE g # h \/ r # m.run
      <4>1. pc'[g][r] = pc[g][r]
        BY <1>0, <2>1, <2>3, <3>2 DEF AgentTypeOK
      <4> QED
        BY <2>6, <4>1 DEF RecordInv
    <3> QED
      BY <3>1, <3>2
  <2> QED
    BY <2>8, <2>9
<1>2. ASSUME NEW h \in Hops, Restart(h) PROVE SynInv' /\ RecordInv'
  <2>1. /\ \A g \in Hops : epoch'[g] = IF g = h THEN epoch[g] + 1 ELSE epoch[g]
        /\ \A g \in Hops, f \in Flows : records'[g][f] = IF g = h THEN NoRecord ELSE records[g][f]
        /\ \A g \in Hops, r \in Runs : pc'[g][r] = IF g = h THEN "none" ELSE pc[g][r]
        /\ UNCHANGED syns
    BY <1>0, <1>2 DEF Restart, AgentTypeOK, kernelVars
  <2>2. SynInv'
    <3> SUFFICES ASSUME NEW g \in Hops, NEW u \in Updates
                 PROVE  syns[g][u] <= epoch'[g] + (IF records'[g][u[1]] >= u[2] THEN 1 ELSE 0)
      BY <2>1 DEF SynInv
    <3>1. u[1] \in Flows /\ u[2] \in Nat /\ syns[g][u] \in Nat /\ epoch[g] \in Nat
      BY <1>0, UpdateParts DEF AgentTypeOK
    <3> QED
      BY <2>1, <3>1 DEF SynInv, NoRecord
  <2>3. RecordInv'
    BY <2>1 DEF RecordInv
  <2> QED
    BY <2>2, <2>3
<1>3. ASSUME UNCHANGED <<syns, epoch, records>>,
             \A h \in Hops, r \in Runs : pc'[h][r] # "none" => pc[h][r] # "none"
      PROVE  SynInv' /\ RecordInv'
  BY <1>3 DEF SynInv, RecordInv
<1> QED
  BY <1>1, <1>2, <1>3, TableSteps

(* However often an UPDATE-SYN arrives, and however many runs share its    *)
(* sequence number, an incarnation passes one "SYN" to the kernel.         *)
THEOREM SynOnceCorrect == Spec => []SynOncePerIncarnation
<1>1. Init => TypeInv /\ SynInv /\ RecordInv
  BY TypeInvInit, TableInit
<1>2. TypeInv /\ SynInv /\ RecordInv /\ [Next]_vars => (TypeInv /\ SynInv /\ RecordInv)'
  BY TypeInvStep, TableStep
<1>3. TypeInv /\ SynInv => SynOncePerIncarnation
  <2> SUFFICES ASSUME TypeInv, SynInv, NEW h \in Hops, NEW u \in Updates
               PROVE  syns[h][u] <= 1 + epoch[h]
    BY DEF SynOncePerIncarnation
  <2>1. syns[h][u] \in Nat /\ epoch[h] \in Nat
    BY DEF TypeInv, TypeOK, AgentTypeOK
  <2> QED
    BY <2>1 DEF SynInv
<1> QED
  BY <1>1, <1>2, <1>3, PTL DEF Spec

-------------------------------------------------------------------------------
(* Without restarts, no UPDATE-ACK finds its flow without a record: who    *)
(* sends one knows that every kernel has the update's "SYN", and then the  *)
(* agent's flow table has the update too.                                  *)
THEOREM NoNullDereferenceCorrect ==
  SingleFlow /\ MaxRestarts = 0 /\ Spec => []NoNullDereference
<1> SUFFICES ASSUME SingleFlow, MaxRestarts = 0 PROVE Spec => []NoNullDereference
  OBVIOUS
<1> DEFINE Inv == TypeInv /\ ChainInv /\ SynInv /\ RecordInv
<1>1. Init => Inv /\ NoNullDereference
  BY TypeInvInit, ChainInit, TableInit DEF Init, AgentInit, NoNullDereference
<1>2. Inv /\ [Next]_vars => Inv'
  BY TypeInvStep, ChainStep, TableStep
<1>3. Inv /\ NoNullDereference /\ [Next]_vars => NoNullDereference'
  <2> SUFFICES ASSUME Inv, NoNullDereference, [Next]_vars PROVE NoNullDereference'
    OBVIOUS
  <2>0. AgentTypeOK /\ NetTypeOK /\ NetChain /\ SynInv
    BY DEF TypeInv, TypeOK, ChainInv
  <2>1. ASSUME NEW h \in Hops, AckWithoutRecord(h) PROVE FALSE
    <3>1. PICK m \in net : /\ m.type = "ACK" /\ m.to = h
                           /\ records[h][m.update[1]] = NoRecord
      BY <2>1 DEF AckWithoutRecord, Receiving
    <3>2. PICK u \in Updates : u = m.update
      BY <2>0, <3>1, MessageTypes DEF NetTypeOK
    <3>3. syns[h][u] > 0
      BY <2>0, <3>1, <3>2 DEF NetChain, Chained, Everywhere
    <3>4. epoch[h] = 0 /\ syns[h][u] \in Nat /\ u[2] \in Nat
      BY <2>0, UpdateParts DEF AgentTypeOK
    <3>5. records[h][u[1]] >= u[2]
      BY <2>0, <3>3, <3>4 DEF SynInv
    <3> QED
      BY <3>1, <3>2, <3>4, <3>5 DEF NoRecord
  <2>2. UNCHANGED alive \/ \E h \in Hops : alive' = [alive EXCEPT ![h] = "up"]
                         \/ alive' = [alive EXCEPT ![h] = "exited"]
    <3>1. ASSUME NEW h \in Hops, NEW r \in Runs, HandlerStep(h, r) PROVE UNCHANGED alive
      BY <2>0, <3>1, HandlerSteps DEF HandlerStep, Moved
    <3>2. ASSUME NEW h \in Hops, MainStep(h)
          PROVE  UNCHANGED alive \/ alive' = [alive EXCEPT ![h] = "exited"]
      BY <2>1, <3>2 DEF MainStep, IgnoreSyn, AcceptSyn, IgnoreAck, AcceptAck, MainLock,
             MainSetAck, MainUnlock, MainNetlinkAck, TimeCheck, processVars
    <3>3. UNCHANGED agentVars => UNCHANGED alive
      BY DEF agentVars, processVars
    <3> QED
      BY <3>1, <3>2, <3>3 DEF Next, vars, AgentStep, Restart
  <2> QED
    BY <2>0, <2>2 DEF NoNullDereference, AgentTypeOK
<1> QED
  BY <1>1, <1>2, <1>3, PTL DEF Spec

-------------------------------------------------------------------------------
(* The mutex, while no handler of the agent has timed out.  If it is free  *)
(* nobody is inside, which is what makes mutual exclusion inductive.       *)
NoTimeOut(h) == \A r \in Runs : ~TimedOut(h, r)

MutexAt(h) ==
  /\ ~locked[h] => (\A r \in Runs : ~HoldsMutex(h, r)) /\ ~MainHoldsMutex(h)
  /\ \A r, s \in Runs : HoldsMutex(h, r) /\ HoldsMutex(h, s) => r = s
  /\ \A r \in Runs : ~(HoldsMutex(h, r) /\ MainHoldsMutex(h))

MutexInv == \A h \in Hops : NoTimeOut(h) => MutexAt(h)

LEMMA MutexInit == Init => MutexInv
  BY DEF Init, AgentInit, MutexInv, MutexAt, HoldsMutex, MainHoldsMutex

LEMMA MutexStep ==
  ASSUME TypeInv, RecordInv, MutexInv, [Next]_vars
  PROVE  MutexInv'
<1> USE DEF HoldsMutex, MainHoldsMutex, TimedOut, NoTimeOut
<1>0. AgentTypeOK /\ NetTypeOK
  BY DEF TypeInv, TypeOK
(* Steps at another hop.                                                  *)
<1>1. ASSUME NEW h \in Hops, pc'[h] = pc[h], mpc'[h] = mpc[h], locked'[h] = locked[h]
      PROVE  (NoTimeOut(h) => MutexAt(h))'
  BY <1>1 DEF MutexInv, MutexAt
<1>2. ASSUME NEW h \in Hops, AgentStep(h), NEW g \in Hops, g # h
      PROVE  pc'[g] = pc[g] /\ mpc'[g] = mpc[g] /\ locked'[g] = locked[g]
  <2> USE <1>0, <1>2 DEF AgentTypeOK, mainVars, handlerVars, mutexVars
  <2>1. ASSUME NEW r \in Runs, HandlerStep(h, r)
        PROVE  pc'[g] = pc[g] /\ mpc'[g] = mpc[g] /\ locked'[g] = locked[g]
    BY <2>1 DEF HandlerStep, HandlerGoes, ForwardSyn, ForwardReceive, HandlerLock, HandlerRelay,
           HandlerAcked, HandlerLeave, BackReply, ClearAck, FinalUnlock
  <2>2. CASE MainStep(h)
    BY <2>2 DEF MainStep, IgnoreSyn, AcceptSyn, AckWithoutRecord, IgnoreAck, AcceptAck,
           MainLock, MainSetAck, MainUnlock, MainNetlinkAck
  <2>3. CASE Restart(h)
    BY <2>3 DEF Restart
  <2> QED
    BY <2>1, <2>2, <2>3 DEF AgentStep
<1>3. ASSUME NEW h \in Hops, AgentStep(h) PROVE (NoTimeOut(h) => MutexAt(h))'
  <2>0. NoTimeOut(h) => MutexAt(h)
    BY DEF MutexInv
  <2>1. ASSUME NEW r \in Runs, HandlerStep(h, r) PROVE (NoTimeOut(h) => MutexAt(h))'
    <3>1. CASE ForwardSyn(h, r) \/ ForwardReceive(h, r) \/ BackReply(h, r)
      <4>1. \E here, there : /\ Moved(h, r, here, there)
                            /\ here \in {"send", "wait", "reply"}
                            /\ there \in {"wait", "lock", "timeout"}
        BY <1>0, <3>1, HandlerSteps
      <4>2. locked'[h] = locked[h]
        BY <3>1 DEF ForwardSyn, ForwardReceive, BackReply, mutexVars
      <4> QED
        BY <2>0, <4>1, <4>2, ZenonT(60) DEF MutexAt, Moved
    <3>2. CASE HandlerRelay(h, r) \/ HandlerAcked(h, r) \/ ClearAck(h, r)
      <4>1. \/ Moved(h, r, "test", "leave") \/ Moved(h, r, "test", "acked")
            \/ Moved(h, r, "acked", "unlock") \/ Moved(h, r, "timeout", "timeoutUnlock")
        BY <1>0, <3>2, HandlerSteps
      <4>2. locked'[h] = locked[h]
        BY <3>2 DEF HandlerRelay, HandlerAcked, ClearAck, mutexVars
      <4> QED
        BY <2>0, <4>1, <4>2, ZenonT(60) DEF MutexAt, Moved
    <3>3. CASE HandlerLock(h, r)
      <4>1. Moved(h, r, "lock", "test")
        BY <1>0, <3>3, HandlerSteps
      <4>2. ~locked[h] /\ locked'[h]
        BY <1>0, <3>3 DEF HandlerLock, AgentTypeOK
      <4> QED
        BY <2>0, <4>1, <4>2, ZenonT(60) DEF MutexAt, Moved
    <3>4. CASE HandlerLeave(h, r) \/ FinalUnlock(h, r)
      <4>1. \/ \E there \in {"wait", "reply"} : Moved(h, r, "leave", there)
            \/ Moved(h, r, "unlock", "done") \/ Moved(h, r, "timeoutUnlock", "gaveUp")
        BY <1>0, <3>4, HandlerSteps
      <4> QED
        BY <2>0, <4>1, ZenonT(60) DEF MutexAt, Moved
    <3> QED
      BY <2>1, <3>1, <3>2, <3>3, <3>4 DEF HandlerStep
  (* A new handler: there was none for the run, since the flow table would *)
  (* have had its update.                                                 *)
  <2>2. CASE AcceptSyn(h)
    <3>1. PICK m \in net :
            /\ m.type = "SYN"
            /\ IsNew(h, UpdateOf(m.run))
            /\ pc' = [pc EXCEPT ![h][m.run] = FirstStep(h, m.run)]
            /\ UNCHANGED <<mpc, locked>>
      BY <2>2 DEF AcceptSyn, Receiving, mutexVars
    <3>2. m.run \in Runs
      BY <1>0, <3>1, MessageTypes DEF NetTypeOK
    <3>3. records[h][FlowOf[m.run]] \in Int /\ SeqOf[m.run] \in Nat
      BY <1>0, <3>2 DEF AgentTypeOK, NoRecord
    <3>4. pc[h][m.run] = "none"
      BY <3>1, <3>2, <3>3 DEF RecordInv, IsNew, UpdateOf
    <3>5. \A s \in Runs : pc'[h][s] = IF s = m.run THEN FirstStep(h, m.run) ELSE pc[h][s]
      BY <1>0, <3>1, <3>2 DEF AgentTypeOK
    <3>6. FirstStep(h, m.run) \in {"done", "send", "lock"}
      BY DEF FirstStep
    <3> QED
      BY <2>0, <3>1, <3>4, <3>5, <3>6 DEF MutexAt
  <2>3. CASE MainStep(h) /\ ~AcceptSyn(h)
    <3>1. pc'[h] = pc[h]
      BY <2>3 DEF MainStep, IgnoreSyn, AckWithoutRecord, IgnoreAck, AcceptAck, MainLock,
             MainSetAck, MainUnlock, MainNetlinkAck, handlerVars
    <3>2. \/ /\ locked'[h] = locked[h]
             /\ MainHoldsMutex(h)' => MainHoldsMutex(h)
          \/ ~locked[h] /\ locked'[h]
          \/ MainHoldsMutex(h) /\ ~MainHoldsMutex(h)'
      BY <1>0, <2>3 DEF MainStep, IgnoreSyn, AckWithoutRecord, IgnoreAck, AcceptAck, MainLock,
             MainSetAck, MainUnlock, MainNetlinkAck, MainAt, mainVars, mutexVars, AgentTypeOK
    <3> QED
      BY <2>0, <3>1, <3>2 DEF MutexAt
  <2>4. CASE Restart(h)
    BY <1>0, <2>4 DEF Restart, AgentTypeOK, MutexAt
  <2> QED
    BY <1>3, <2>1, <2>2, <2>3, <2>4 DEF AgentStep, MainStep
<1>4. CASE \E h \in Hops : AgentStep(h)
  BY <1>1, <1>2, <1>3, <1>4 DEF MutexInv
<1>5. CASE UNCHANGED agentVars
  BY <1>1, <1>5 DEF agentVars, mainVars, handlerVars, mutexVars, MutexInv
<1> QED
  BY <1>4, <1>5 DEF Next, vars

(* While no handler of an agent has timed out, its mutex is one.           *)
THEOREM MutexCorrect == Spec => []MutualExclusion
<1>1. Init => TypeInv /\ SynInv /\ RecordInv /\ MutexInv
  BY TypeInvInit, TableInit, MutexInit
<1>2. /\ TypeInv /\ SynInv /\ RecordInv /\ MutexInv /\ [Next]_vars
      => (TypeInv /\ SynInv /\ RecordInv /\ MutexInv)'
  BY TypeInvStep, TableStep, MutexStep
<1>3. MutexInv => MutualExclusion
  BY DEF MutexInv, MutexAt, NoTimeOut, MutualExclusion
<1> QED
  BY <1>1, <1>2, <1>3, PTL DEF Spec

-------------------------------------------------------------------------------
(* Acknowledgements, when all runs are about one update, as all runs of    *)
(* updateNotify are: it has one flow and one sequence number.  Whoever     *)
(* acts on an acknowledgement then acts on that of the update; so it is    *)
(* enough to know that there was one, which holds for any updates.         *)
OneUpdate == \A u, v \in Updates : u = v

(* The agent has received an UPDATE-ACK, with whatever update.             *)
Got(h) == mpc[h] # "recv" \/ activated[h] # {}

(* A process ends only where it has passed on to its kernel what it got,   *)
(* which is why a restart does not forget that it got it.                  *)
AckInv ==
  /\ \A h \in Hops : alive[h] # "up" => mpc[h] = "recv"
  /\ \A h \in Hops : update_ack[h] = 1 => Got(h)
  /\ \A h \in Hops, r \in Runs : pc[h][r] \in {"acked", "unlock"} => Got(h)
  /\ \A h \in Hops \ {N} : Got(h + 1) => Got(h)
  /\ \A m \in net : m.type = "ACK" /\ m.to > 1 => Got(m.to - 1)

LEMMA AckInit == Init => AckInv
  BY DEF Init, NetInit, AgentInit, AckInv, Got

LEMMA AckHandler ==
  ASSUME TypeInv, AckInv, NEW h \in Hops, NEW r \in Runs, HandlerStep(h, r)
  PROVE  AckInv'
<1>0. AgentTypeOK /\ NetTypeOK
  BY DEF TypeInv, TypeOK
<1>1. PICK here, there :
        /\ Moved(h, r, here, there)
        /\ there \in {"acked", "unlock"} => here \in {"test", "acked"}
        /\ here = "test" /\ there = "acked" => update_ack[h] = 1
        /\ here = "test" => there \notin {"unlock"}
  <2>1. HandlerAcked(h, r) => update_ack[h] = 1
    BY DEF HandlerAcked, IsAcked
  <2> QED BY <1>0, <2>1, HandlerSteps DEF HandlerStep
<1>2. \A g \in Hops : Got(g)' = Got(g)
  BY <1>1 DEF Moved, Got
<1>3. \A g \in Hops : update_ack'[g] = 1 => update_ack[g] = 1
  BY <1>0 DEF HandlerStep, ForwardSyn, ForwardReceive, HandlerLock, HandlerRelay,
         HandlerAcked, HandlerLeave, BackReply, ClearAck, FinalUnlock, mutexVars, AgentTypeOK
<1>4. \A m \in net' : m.type = "ACK" =>
        m \in net \/ (h < N /\ m.to = h + 1 /\ update_ack[h] = 1)
  BY DEF HandlerStep, ForwardSyn, ForwardReceive, HandlerLock, HandlerRelay,
         HandlerAcked, HandlerLeave, BackReply, ClearAck, FinalUnlock, netVars, IsAcked,
         Send, Receive, ReceiveAndSend, Syn, SynAck, Ack, Reply
<1>5. \A m \in net' : m.type = "ACK" /\ m.to > 1 => Got(m.to - 1)
  <2> SUFFICES ASSUME NEW m \in net', m.type = "ACK", m.to > 1 PROVE Got(m.to - 1)
    OBVIOUS
  <2>1. CASE m \in net
    BY <2>1 DEF AckInv
  <2>2. CASE m.to = h + 1 /\ update_ack[h] = 1
    <3>1. m.to - 1 = h
      BY <2>2
    <3> QED BY <2>2, <3>1 DEF AckInv
  <2> QED BY <1>4, <2>1, <2>2
<1>6. \A m \in net' : m.type = "ACK" /\ m.to > 1 => m.to - 1 \in Hops
  <2>1. \A m \in net : m.type = "ACK" => m.to \in Hops
    BY <1>0, MessageTypes DEF NetTypeOK
  <2> QED BY <1>4, <2>1
<1>7. \A g \in Hops, s \in Runs : pc'[g][s] \in {"acked", "unlock"} => Got(g)
  <2> SUFFICES ASSUME NEW g \in Hops, NEW s \in Runs, pc'[g][s] \in {"acked", "unlock"}
               PROVE  Got(g)
    OBVIOUS
  <2>1. CASE g = h /\ s = r
    <3>1. there \in {"acked", "unlock"} /\ pc[h][r] = here
      BY <1>1, <2>1 DEF Moved
    <3>2. here = "acked" \/ update_ack[h] = 1
      BY <1>1, <3>1
    <3> QED BY <2>1, <3>1, <3>2 DEF AckInv
  <2>2. CASE g # h \/ s # r
    <3>1. pc'[g][s] = pc[g][s]
      BY <1>1, <2>2 DEF Moved
    <3> QED BY <3>1 DEF AckInv
  <2> QED BY <2>1, <2>2
<1>8. alive' = alive /\ mpc' = mpc
  BY <1>1 DEF Moved
<1>9. /\ \A g \in Hops : alive'[g] # "up" => mpc'[g] = "recv"
      /\ \A g \in Hops : update_ack'[g] = 1 => Got(g)'
      /\ \A g \in Hops, s \in Runs : pc'[g][s] \in {"acked", "unlock"} => Got(g)'
  BY <1>2, <1>3, <1>7, <1>8 DEF AckInv
<1>10. \A g \in Hops \ {N} : Got(g + 1)' => Got(g)'
  <2>1. \A g \in Hops \ {N} : g \in Hops /\ g + 1 \in Hops
    OBVIOUS
  <2>2. \A g \in Hops \ {N} : Got(g + 1) => Got(g)
    BY DEF AckInv
  <2> QED BY ONLY <1>2, <2>1, <2>2
<1>11. \A m \in net' : m.type = "ACK" /\ m.to > 1 => Got(m.to - 1)'
  BY <1>2, <1>5, <1>6
<1> QED BY <1>9, <1>10, <1>11 DEF AckInv

(* The receive loop and a restart.  Only AcceptAck gives an agent its      *)
(* first acknowledgement, and the datagram tells that the previous agent   *)
(* has its own.                                                            *)
LEMMA AckMain ==
  ASSUME TypeInv, AckInv, NEW h \in Hops, MainStep(h) \/ Restart(h)
  PROVE  AckInv'
<1>0. AgentTypeOK /\ NetTypeOK
  BY DEF TypeInv, TypeOK
<1>1. net' \subseteq net
  BY DEF MainStep, IgnoreSyn, AcceptSyn, AckWithoutRecord, IgnoreAck, AcceptAck, MainLock,
         MainSetAck, MainUnlock, MainNetlinkAck, Restart, Receive, ReceiveAndSend, netVars
<1>2. /\ \A g \in Hops : g # h => Got(g)' = Got(g)
      /\ \A g \in Hops : g # h => alive'[g] = alive[g] /\ mpc'[g] = mpc[g]
                                  /\ update_ack'[g] = update_ack[g] /\ pc'[g] = pc[g]
  <2> USE <1>0 DEF AgentTypeOK
  <2>1. \A g \in Hops : g # h => alive'[g] = alive[g]
    BY DEF MainStep, IgnoreSyn, AcceptSyn, AckWithoutRecord, IgnoreAck, AcceptAck, MainLock,
       MainSetAck, MainUnlock, MainNetlinkAck, Restart, TimeCheck, processVars
  <2>2. \A g \in Hops : g # h => mpc'[g] = mpc[g] /\ activated'[g] = activated[g]
    BY DEF MainStep, IgnoreSyn, AcceptSyn, AckWithoutRecord, IgnoreAck, AcceptAck, MainLock,
       MainSetAck, MainUnlock, MainNetlinkAck, Restart, mainVars, kernelVars
  <2>3. \A g \in Hops : g # h => update_ack'[g] = update_ack[g] /\ pc'[g] = pc[g]
    BY DEF MainStep, IgnoreSyn, AcceptSyn, AckWithoutRecord, IgnoreAck, AcceptAck, MainLock,
       MainSetAck, MainUnlock, MainNetlinkAck, Restart, handlerVars, mutexVars
  <2> QED BY <2>1, <2>2, <2>3 DEF Got
<1>3. Got(h) => Got(h)'
  <2>1. CASE MainNetlinkAck(h)
    BY <1>0, <2>1 DEF MainNetlinkAck, Got, AgentTypeOK
  <2>2. CASE Restart(h)
    BY <2>2 DEF Restart, Got, AckInv, kernelVars
  <2>3. CASE UNCHANGED activated /\ (mpc[h] # "recv" => mpc'[h] # "recv")
    BY <2>3 DEF Got
  <2>4. ASSUME MainStep(h), ~MainNetlinkAck(h)
        PROVE  UNCHANGED activated /\ (mpc[h] # "recv" => mpc'[h] # "recv")
    BY <1>0, <2>4 DEF MainStep, IgnoreSyn, AcceptSyn, AckWithoutRecord, IgnoreAck, AcceptAck,
       MainLock, MainSetAck, MainUnlock, MainAt, Receiving, AgentTypeOK,
       mainVars, kernelVars
  <2> QED BY <2>1, <2>2, <2>3, <2>4
<1>4. Got(h)' /\ ~Got(h) => \E m \in net : m.type = "ACK" /\ m.to = h
  BY <1>0 DEF MainStep, IgnoreSyn, AcceptSyn, AckWithoutRecord, IgnoreAck, AcceptAck, MainLock,
         MainSetAck, MainUnlock, MainNetlinkAck, MainAt, Receiving, Restart, Got, AgentTypeOK,
         AckInv, processVars, mainVars, handlerVars, mutexVars, kernelVars
<1>5. alive'[h] # "up" => mpc'[h] = "recv"
  BY <1>0 DEF MainStep, IgnoreSyn, AcceptSyn, AckWithoutRecord, IgnoreAck, AcceptAck, MainLock,
         MainSetAck, MainUnlock, MainNetlinkAck, MainAt, Receiving, Restart, TimeCheck,
         AgentTypeOK, AckInv, processVars, mainVars, mutexVars
<1>6. update_ack'[h] = 1 => update_ack[h] = 1 \/ Got(h)
  BY <1>0 DEF MainStep, IgnoreSyn, AcceptSyn, AckWithoutRecord, IgnoreAck, AcceptAck, MainLock,
         MainSetAck, MainUnlock, MainNetlinkAck, MainAt, Restart, Got, AgentTypeOK, mutexVars
<1>7. \A r \in Runs : pc'[h][r] \in {"acked", "unlock"} => pc[h][r] = pc'[h][r]
  <2>1. CASE AcceptSyn(h)
    <3>1. PICK m \in net : m.type = "SYN" /\ pc' = [pc EXCEPT ![h][m.run] = FirstStep(h, m.run)]
      BY <2>1 DEF AcceptSyn, Receiving
    <3>2. FirstStep(h, m.run) \notin {"acked", "unlock"}
      BY DEF FirstStep
    <3>3. \A r \in Runs : pc'[h][r] \in {pc[h][r], FirstStep(h, m.run)}
      BY <1>0, <3>1 DEF AgentTypeOK
    <3> QED BY <3>2, <3>3
  <2>2. CASE UNCHANGED pc
    BY <2>2
  <2>3. CASE Restart(h)
    <3>1. pc'[h] = [r \in Runs |-> "none"]
      BY <1>0, <2>3 DEF Restart, AgentTypeOK
    <3> QED BY <3>1
  <2>4. AcceptSyn(h) \/ UNCHANGED pc \/ Restart(h)
    BY DEF MainStep, IgnoreSyn, AckWithoutRecord, IgnoreAck, AcceptAck,
       MainLock, MainSetAck, MainUnlock, MainNetlinkAck, handlerVars
  <2> QED BY <2>1, <2>2, <2>3, <2>4
<1>8. \A g \in Hops : Got(g) => Got(g)'
  BY <1>2, <1>3
<1>9. \A g \in Hops \ {N} : Got(g + 1)' => Got(g)'
  <2> SUFFICES ASSUME NEW g \in Hops \ {N}, Got(g + 1)' PROVE Got(g)
    BY <1>8
  <2>1. CASE Got(g + 1)
    BY <2>1 DEF AckInv
  <2>2. CASE ~Got(g + 1)
    <3>1. g + 1 \in Hops
      OBVIOUS
    <3>2. h = g + 1
      BY <1>2, <2>2, <3>1
    <3>3. PICK m \in net : m.type = "ACK" /\ m.to = g + 1
      BY <1>4, <2>2, <3>2
    <3>4. m.to > 1 /\ m.to - 1 = g
      BY <3>3
    <3> QED BY <3>3, <3>4 DEF AckInv
  <2> QED BY <2>1, <2>2
<1>10. \A m \in net : m.type = "ACK" /\ m.to > 1 => m.to - 1 \in Hops
  BY <1>0, MessageTypes DEF NetTypeOK
<1>11. \A g \in Hops : alive'[g] # "up" => mpc'[g] = "recv"
  BY <1>2, <1>5 DEF AckInv
<1>12. \A g \in Hops : update_ack'[g] = 1 => Got(g)'
  BY <1>2, <1>6, <1>8 DEF AckInv
<1>13. \A g \in Hops, r \in Runs : pc'[g][r] \in {"acked", "unlock"} => Got(g)'
  BY <1>2, <1>7, <1>8 DEF AckInv
<1>14. \A m \in net' : m.type = "ACK" /\ m.to > 1 => Got(m.to - 1)'
  BY <1>1, <1>8, <1>10 DEF AckInv
<1> QED BY <1>9, <1>11, <1>12, <1>13, <1>14 DEF AckInv

LEMMA AckStep ==
  ASSUME TypeInv, AckInv, [Next]_vars
  PROVE  AckInv'
<1>1. CASE UNCHANGED agentVars /\ \A m \in net' : m \in net \/ m.type # "ACK" \/ m.to = 1
  <2>1. /\ UNCHANGED <<alive, mpc, pc, update_ack, activated>>
        /\ \A g \in Int : Got(g)' = Got(g)
    BY <1>1 DEF agentVars, processVars, mainVars, handlerVars, mutexVars, kernelVars, Got
  <2>2. \A m \in net' : m.type = "ACK" /\ m.to > 1 => m \in net
    BY <1>1
  <2>3. \A m \in net : m.type = "ACK" => m.to \in Hops
    BY MessageTypes DEF TypeInv, TypeOK, NetTypeOK
  <2> QED BY <2>1, <2>2, <2>3 DEF AckInv
<1>2. ASSUME NEW r \in Runs, NotifierStep(r)
      PROVE  \A m \in net' : m \in net \/ m.type # "ACK" \/ m.to = 1
  BY <1>2 DEF NotifierStep, NotifySyn, NotifyConfirm, Send, ReceiveAndSend, Syn, Ack
<1>3. Lose \/ UNCHANGED vars => \A m \in net' : m \in net
  BY DEF Lose, vars, netVars
<1> QED BY <1>1, <1>2, <1>3, AckHandler, AckMain DEF Next, AgentStep, vars

(* An agent that got an acknowledgement got that of the one update.        *)
LEMMA GotItself ==
  ASSUME OneUpdate, TypeInv, NEW h \in Hops, NEW r \in Runs, Got(h)
  PROVE  AckedItself(h, r)
<1>1. UpdateOf(r) \in Updates
  BY UpdateTypes
<1>2. mpc[h] # "recv" => mack[h] \in Updates
  BY DEF TypeInv, RoundsInv
<1>3. activated[h] \subseteq Updates
  BY DEF TypeInv, TypeOK, AgentTypeOK
<1> QED BY <1>1, <1>2, <1>3 DEF OneUpdate, Got, AckedItself

(* A handler ends on its own acknowledgement, also when agents end and are *)
(* started again, as long as all runs are about one update.                *)
THEOREM OwnAckCorrect == OneUpdate /\ Spec => []ExitsOnOwnAck
<1> SUFFICES ASSUME OneUpdate PROVE Spec => []ExitsOnOwnAck
  OBVIOUS
<1>1. Init => TypeInv /\ AckInv
  BY TypeInvInit, AckInit
<1>2. TypeInv /\ AckInv /\ [Next]_vars => (TypeInv /\ AckInv)'
  BY TypeInvStep, AckStep
<1>3. TypeInv /\ AckInv => ExitsOnOwnAck
  BY GotItself DEF AckInv, ExitsOnOwnAck
<1> QED
  BY <1>1, <1>2, <1>3, PTL DEF Spec

(* The switch goes down the chain from the initiator, under the same       *)
(* condition.                                                              *)
THEOREM UpstreamCorrect == OneUpdate /\ Spec => []UpstreamFirst
<1> SUFFICES ASSUME OneUpdate PROVE Spec => []UpstreamFirst
  OBVIOUS
<1>1. Init => TypeInv /\ AckInv
  BY TypeInvInit, AckInit
<1>2. TypeInv /\ AckInv /\ [Next]_vars => (TypeInv /\ AckInv)'
  BY TypeInvStep, AckStep
<1>3. TypeInv /\ AckInv => UpstreamFirst
  <2> SUFFICES ASSUME TypeInv, AckInv, NEW h \in Hops \ {N}, NEW r \in Runs,
                      UpdateOf(r) \in activated[h + 1]
               PROVE  AckedItself(h, r)
    BY DEF UpstreamFirst
  <2>1. Got(h)
    BY DEF AckInv, Got
  <2> QED BY <2>1, GotItself
<1> QED
  BY <1>1, <1>2, <1>3, PTL DEF Spec
=============================================================================
