---------------------------- MODULE MiddleboxAgent ----------------------------
(***************************************************************************)
(* The user-level agent of a hop, UserAgent/MiddleboxAgent.c: the receive  *)
(* loop of main, and the handleUpdate thread it creates for every          *)
(* UPDATE-SYN it accepts.  The two share update_ack, one flag for all the  *)
(* updates of the agent, guarded by one mutex.                             *)
(*                                                                         *)
(* The handler of hop N runs updateBack: it repeats an UPDATE-SYN-ACK to   *)
(* the previous hop until update_ack is set or it has tried MaxTries times *)
(* (1000 in the code).  The handler of any other hop runs updateForward:   *)
(* it passes the UPDATE-SYN on, then relays every UPDATE-SYN-ACK that      *)
(* comes back until one finds update_ack set; that one it answers with an  *)
(* UPDATE-ACK to the next hop.                                             *)
(*                                                                         *)
(* The mutex is a plain pthread mutex: unlocking it frees it whoever holds *)
(* it.  Time appears as two choices: the receive loop may find that 60     *)
(* seconds passed since t1 (if CanExpire), and MaxTries is the time-out.   *)
(***************************************************************************)
EXTENDS UpdateNetwork

CONSTANTS
  MaxTries,     \* how many UPDATE-SYN-ACKs updateBack sends before it gives up
  MayTimeOut,   \* may updateBack reach MaxTries before its UPDATE-ACK comes?
  CanExpire     \* may 60 seconds pass without an accepted UPDATE-SYN?

ASSUME AgentAssumption ==
  /\ MaxTries \in Nat \ {0}
  /\ MayTimeOut \in BOOLEAN
  /\ CanExpire \in BOOLEAN

VARIABLES
  alive,        \* is the agent process "up", "exited" or "crashed"
  epoch,        \* how often the agent was started again
  records,      \* flow table: the sequence number accepted last, per flow
  update_ack,   \* the flag shared by all handlers of the agent
  locked,       \* is the mutex "lock" taken?
  mpc, mack,    \* receive loop: where it is, and the ACK it is handling
  pc,           \* where the handler of each run is
  tries,        \* updateBack's count
  cliEpoch,     \* the handler's cliAddr: the epoch of the socket to reply to
  syns,         \* how often it passed "SYN" to its kernel for each update
  activated     \* the updates whose "ACK" the agent passed to its kernel

processVars == <<alive, epoch>>
mainVars    == <<records, mpc, mack>>
handlerVars == <<pc, tries, cliEpoch>>
mutexVars   == <<update_ack, locked>>
kernelVars  == <<syns, activated>>
agentVars   == <<processVars, mainVars, handlerVars, mutexVars, kernelVars>>

NoRecord == -1    \* findItem returns NULL
NoUpdate == <<>>  \* the receive loop is not handling an UPDATE-ACK

(* The updates whose "SYN" has reached the kernel of hop h.               *)
Installed(h) == {u \in Updates : syns[h][u] > 0}

MainStates == {"recv", "lock", "set", "unlock", "netlink"}
HandlerStates ==
  {"none",                                \* no such thread
   "send", "wait",                        \* updateForward outside the mutex
   "reply",                               \* updateBack outside the mutex
   "lock", "test", "leave",               \* one round of either loop
   "acked", "unlock", "done",             \* the loop ended on update_ack = 1
   "timeout", "timeoutUnlock", "gaveUp"}  \* the loop of updateBack timed out

AgentTypeOK ==
  /\ alive \in [Hops -> {"up", "exited", "crashed"}]
  /\ epoch \in [Hops -> Epochs]
  /\ records \in [Hops -> [Flows -> Nat \cup {NoRecord}]]
  /\ update_ack \in [Hops -> {0, 1}]
  /\ locked \in [Hops -> BOOLEAN]
  /\ mpc \in [Hops -> MainStates]
  /\ mack \in [Hops -> Updates \cup {NoUpdate}]
  /\ pc \in [Hops -> [Runs -> HandlerStates]]
  /\ tries \in [Hops -> [Runs -> 0..MaxTries]]
  /\ cliEpoch \in [Hops -> [Runs -> Epochs]]
  /\ syns \in [Hops -> [Updates -> Nat]]
  /\ activated \in [Hops -> SUBSET Updates]

AgentInit ==
  /\ alive = [h \in Hops |-> "up"]
  /\ epoch = [h \in Hops |-> 0]
  /\ records = [h \in Hops |-> [f \in Flows |-> NoRecord]]
  /\ update_ack = [h \in Hops |-> 0]
  /\ locked = [h \in Hops |-> FALSE]
  /\ mpc = [h \in Hops |-> "recv"]
  /\ mack = [h \in Hops |-> NoUpdate]
  /\ pc = [h \in Hops |-> [r \in Runs |-> "none"]]
  /\ tries = [h \in Hops |-> [r \in Runs |-> 0]]
  /\ cliEpoch = [h \in Hops |-> [r \in Runs |-> 0]]
  /\ syns = [h \in Hops |-> [u \in Updates |-> 0]]
  /\ activated = [h \in Hops |-> {}]

-------------------------------------------------------------------------------
(* The receive loop of main.                                              *)

(* Slip: the test of the sequence number is off by one.                    *)
IsNewOrSame(h, u) == records[h][u[1]] <= u[2]

(* The flow has no record yet, or an older one.                           *)
IsNew(h, u) == records[h][u[1]] < u[2]

(* Slip: only the branch "update item" is there.                           *)
AddItemExisting(h, u) ==
  records' = IF records[h][u[1]] = NoRecord THEN records
             ELSE [records EXCEPT ![h][u[1]] = u[2]]

(* addItem: the record of the flow is added, or brought up to date.       *)
AddItem(h, u) == records' = [records EXCEPT ![h][u[1]] = u[2]]

(* The test at the end of the loop's body: 60 seconds after t1 the        *)
(* process ends, and its threads with it.  After an ignored UPDATE-SYN    *)
(* its buffers are freed a second time on the way out: whatever comes of  *)
(* that, the process ends.                                                *)
TimeCheck(h) ==
  \/ UNCHANGED alive
  \/ CanExpire /\ alive' = [alive EXCEPT ![h] = "exited"]

Receiving(h, m, type) ==
  /\ alive[h] = "up" /\ mpc[h] = "recv"
  /\ m.type = type /\ m.to = h

(* An UPDATE-SYN that is not newer than the flow's record is ignored.     *)
IgnoreSyn(h) ==
  \E m \in net :
    /\ Receiving(h, m, "SYN")
    /\ ~IsNew(h, UpdateOf(m.run))
    /\ Receive(m)
    /\ TimeCheck(h)
    /\ UNCHANGED <<epoch, mainVars, handlerVars, mutexVars, kernelVars>>

(* Any other is accepted: "SYN" to the kernel, addItem, and a handler,    *)
(* which returns at once if the sequence number is not above the global   *)
(* sequenceNumber, always 0.  t1 is reset, so the loop goes on.           *)
FirstStep(h, r) ==
  IF SeqOf[r] <= 0 THEN "done" ELSE IF h < N THEN "send" ELSE "lock"

AcceptSyn(h) ==
  \E m \in net :
    /\ Receiving(h, m, "SYN")
    /\ IsNew(h, UpdateOf(m.run))
    /\ Receive(m)
    /\ syns' = [syns EXCEPT ![h][UpdateOf(m.run)] = @ + 1]
    /\ AddItem(h, UpdateOf(m.run))
    /\ pc' = [pc EXCEPT ![h][m.run] = FirstStep(h, m.run)]
    /\ tries' = [tries EXCEPT ![h][m.run] = 0]
    /\ cliEpoch' = [cliEpoch EXCEPT ![h][m.run] = m.epoch]
    /\ UNCHANGED <<processVars, mpc, mack, mutexVars, activated>>

(* An UPDATE-ACK for a flow without a record: retv is NULL and is         *)
(* dereferenced.                                                          *)
AckWithoutRecord(h) ==
  \E m \in net :
    /\ Receiving(h, m, "ACK")
    /\ records[h][m.update[1]] = NoRecord
    /\ Receive(m)
    /\ alive' = [alive EXCEPT ![h] = "crashed"]
    /\ UNCHANGED <<epoch, mainVars, handlerVars, mutexVars, kernelVars>>

(* An UPDATE-ACK of another sequence number than the flow's record.       *)
IgnoreAck(h) ==
  \E m \in net :
    /\ Receiving(h, m, "ACK")
    /\ records[h][m.update[1]] \notin {NoRecord, m.update[2]}
    /\ Receive(m)
    /\ TimeCheck(h)
    /\ UNCHANGED <<epoch, mainVars, handlerVars, mutexVars, kernelVars>>

(* An UPDATE-ACK of the flow's record: set update_ack under the mutex,    *)
(* then pass "ACK" to the kernel.                                         *)
AcceptAck(h) ==
  \E m \in net :
    /\ Receiving(h, m, "ACK")
    /\ records[h][m.update[1]] = m.update[2]
    /\ Receive(m)
    /\ mpc' = [mpc EXCEPT ![h] = "lock"]
    /\ mack' = [mack EXCEPT ![h] = m.update]
    /\ UNCHANGED <<processVars, records, handlerVars, mutexVars, kernelVars>>

MainAt(h, here) == alive[h] = "up" /\ mpc[h] = here

MainLock(h) ==
  /\ MainAt(h, "lock")
  /\ ~locked[h]
  /\ locked' = [locked EXCEPT ![h] = TRUE]
  /\ mpc' = [mpc EXCEPT ![h] = "set"]
  /\ UNCHANGED <<netVars, processVars, records, mack, handlerVars, update_ack, kernelVars>>

MainSetAck(h) ==
  /\ MainAt(h, "set")
  /\ update_ack' = [update_ack EXCEPT ![h] = 1]
  /\ mpc' = [mpc EXCEPT ![h] = "unlock"]
  /\ UNCHANGED <<netVars, processVars, records, mack, handlerVars, locked, kernelVars>>

MainUnlock(h) ==
  /\ MainAt(h, "unlock")
  /\ locked' = [locked EXCEPT ![h] = FALSE]
  /\ mpc' = [mpc EXCEPT ![h] = "netlink"]
  /\ UNCHANGED <<netVars, processVars, records, mack, handlerVars, update_ack, kernelVars>>

MainNetlinkAck(h) ==
  /\ MainAt(h, "netlink")
  /\ activated' = [activated EXCEPT ![h] = @ \cup {mack[h]}]
  /\ mpc' = [mpc EXCEPT ![h] = "recv"]
  /\ mack' = [mack EXCEPT ![h] = NoUpdate]
  /\ TimeCheck(h)
  /\ UNCHANGED <<netVars, epoch, records, handlerVars, mutexVars, syns>>

MainStep(h) ==
  \/ IgnoreSyn(h) \/ AcceptSyn(h)
  \/ AckWithoutRecord(h) \/ IgnoreAck(h) \/ AcceptAck(h)
  \/ MainLock(h) \/ MainSetAck(h) \/ MainUnlock(h) \/ MainNetlinkAck(h)

-------------------------------------------------------------------------------
(* The handlers.                                                          *)

HandlerGoes(h, r, here, there) ==
  /\ alive[h] = "up"
  /\ pc[h][r] = here
  /\ pc' = [pc EXCEPT ![h][r] = there]
  /\ UNCHANGED <<processVars, mainVars, cliEpoch, kernelVars>>

(* The UPDATE-SYN-ACK to cliAddr: the previous hop's socket for the run.  *)
Reply(h, r) == SynAck(h - 1, r, cliEpoch[h][r])

(* Slip: it answers the previous hop before the next hop has answered.     *)
ForwardSynAndReply(h, r) ==
  /\ HandlerGoes(h, r, "send", "wait")
  /\ net' = net \cup {Syn(h + 1, r, epoch[h]), Reply(h, r)}
  /\ UNCHANGED <<lost, tries, mutexVars>>

(* updateForward sends the shortened UPDATE-SYN on, once.                 *)
ForwardSyn(h, r) ==
  /\ HandlerGoes(h, r, "send", "wait")
  /\ Send(Syn(h + 1, r, epoch[h]))
  /\ UNCHANGED <<tries, mutexVars>>

(* poll and recvfrom on the handler's own socket.                         *)
ForwardReceive(h, r) ==
  /\ HandlerGoes(h, r, "wait", "lock")
  /\ Receive(SynAck(h, r, epoch[h]))
  /\ UNCHANGED <<tries, mutexVars>>

(* updateBack counts its rounds.                                          *)
CountRound(h, r) ==
  tries' = IF h = N /\ MayTimeOut THEN [tries EXCEPT ![h][r] = @ + 1] ELSE tries

(* Slip: one UPDATE-SYN-ACK too many.                                      *)
TriesExhaustedLate(h, r) == MayTimeOut /\ tries[h][r] > MaxTries

TriesExhausted(h, r) == MayTimeOut /\ tries[h][r] >= MaxTries

(* Slip: the mutex is not taken before the test.                           *)
HandlerLockAnyway(h, r) ==
  /\ HandlerGoes(h, r, "lock", "test")
  /\ locked' = [locked EXCEPT ![h] = TRUE]
  /\ CountRound(h, r)
  /\ UNCHANGED <<netVars, update_ack>>

(* Both loops take the mutex.                                             *)
HandlerLock(h, r) ==
  /\ HandlerGoes(h, r, "lock", "test")
  /\ ~locked[h]
  /\ locked' = [locked EXCEPT ![h] = TRUE]
  /\ CountRound(h, r)
  /\ UNCHANGED <<netVars, update_ack>>

(* What both loops test with the mutex held.                              *)
IsAcked(h) == update_ack[h] = 1

(* update_ack is not set: updateForward relays what it received.          *)
HandlerRelay(h, r) ==
  /\ HandlerGoes(h, r, "test", "leave")
  /\ ~IsAcked(h)
  /\ IF h < N THEN Send(Reply(h, r)) ELSE UNCHANGED netVars
  /\ UNCHANGED <<tries, mutexVars>>

(* Slip: the handler ends without passing the UPDATE-ACK on.               *)
HandlerAckedSilently(h, r) ==
  /\ HandlerGoes(h, r, "test", "acked")
  /\ IsAcked(h)
  /\ UNCHANGED <<netVars, tries, mutexVars>>

(* Slip: updateForward does not wait for its own acknowledgement.          *)
HandlerAckedEarly(h, r) ==
  /\ HandlerGoes(h, r, "test", "acked")
  /\ h < N \/ IsAcked(h)
  /\ IF h < N THEN Send(Ack(h + 1, <<AckFlow, SeqOf[r]>>)) ELSE UNCHANGED netVars
  /\ UNCHANGED <<tries, mutexVars>>

(* It is set: updateForward sends the UPDATE-ACK to the next hop, for the *)
(* flow that settingAck names, and either loop ends with the mutex held.  *)
HandlerAcked(h, r) ==
  /\ HandlerGoes(h, r, "test", "acked")
  /\ IsAcked(h)
  /\ IF h < N THEN Send(Ack(h + 1, <<AckFlow, SeqOf[r]>>)) ELSE UNCHANGED netVars
  /\ UNCHANGED <<tries, mutexVars>>

(* Slip: updateBack polls for an answer, as updateForward does.            *)
HandlerLeaveWaits(h, r) ==
  /\ HandlerGoes(h, r, "leave", "wait")
  /\ locked' = [locked EXCEPT ![h] = FALSE]
  /\ UNCHANGED <<netVars, tries, update_ack>>

(* The round ends: unlock, and poll again or send the UPDATE-SYN-ACK.     *)
HandlerLeave(h, r) ==
  /\ HandlerGoes(h, r, "leave", IF h < N THEN "wait" ELSE "reply")
  /\ locked' = [locked EXCEPT ![h] = FALSE]
  /\ UNCHANGED <<netVars, tries, update_ack>>

(* updateBack sends its UPDATE-SYN-ACK and sleeps, or has sent its last.  *)
BackReply(h, r) ==
  /\ HandlerGoes(h, r, "reply", IF TriesExhausted(h, r) THEN "timeout" ELSE "lock")
  /\ Send(Reply(h, r))
  /\ UNCHANGED <<tries, mutexVars>>

(* After the loop both functions clear update_ack and unlock the mutex.   *)
(* A handler that timed out does so too, though it does not hold it.      *)
ClearAck(h, r) ==
  /\ \/ HandlerGoes(h, r, "acked", "unlock")
     \/ HandlerGoes(h, r, "timeout", "timeoutUnlock")
  /\ update_ack' = [update_ack EXCEPT ![h] = 0]
  /\ UNCHANGED <<netVars, tries, locked>>

(* Slip: the break leaves the mutex locked.                                *)
FinalUnlockForgotten(h, r) ==
  /\ \/ HandlerGoes(h, r, "unlock", "done")
     \/ HandlerGoes(h, r, "timeoutUnlock", "gaveUp")
  /\ UNCHANGED <<netVars, tries, mutexVars>>

FinalUnlock(h, r) ==
  /\ \/ HandlerGoes(h, r, "unlock", "done")
     \/ HandlerGoes(h, r, "timeoutUnlock", "gaveUp")
  /\ locked' = [locked EXCEPT ![h] = FALSE]
  /\ UNCHANGED <<netVars, tries, update_ack>>

HandlerStep(h, r) ==
  \/ ForwardSyn(h, r) \/ ForwardReceive(h, r) \/ HandlerLock(h, r)
  \/ HandlerRelay(h, r) \/ HandlerAcked(h, r) \/ HandlerLeave(h, r)
  \/ BackReply(h, r) \/ ClearAck(h, r) \/ FinalUnlock(h, r)

-------------------------------------------------------------------------------
(* The agent of hop h is started again: a process with fresh globals and  *)
(* no handlers, beside a kernel that kept its rules.                      *)
Restart(h) ==
  /\ alive[h] # "up"
  /\ epoch[h] < MaxRestarts
  /\ alive' = [alive EXCEPT ![h] = "up"]
  /\ epoch' = [epoch EXCEPT ![h] = @ + 1]
  /\ records' = [records EXCEPT ![h] = [f \in Flows |-> NoRecord]]
  /\ update_ack' = [update_ack EXCEPT ![h] = 0]
  /\ locked' = [locked EXCEPT ![h] = FALSE]
  /\ mpc' = [mpc EXCEPT ![h] = "recv"]
  /\ mack' = [mack EXCEPT ![h] = NoUpdate]
  /\ pc' = [pc EXCEPT ![h] = [r \in Runs |-> "none"]]
  /\ tries' = [tries EXCEPT ![h] = [r \in Runs |-> 0]]
  /\ cliEpoch' = [cliEpoch EXCEPT ![h] = [r \in Runs |-> 0]]
  /\ UNCHANGED <<netVars, kernelVars>>

AgentStep(h) ==
  \/ MainStep(h)
  \/ \E r \in Runs : HandlerStep(h, r)
  \/ Restart(h)
=============================================================================
