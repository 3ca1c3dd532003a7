--------------------------- MODULE MigrationProofs ---------------------------
(***************************************************************************)
(* Proofs about the migration of a session, for any number of packets,     *)
(* updates and commands of operators.                                      *)
(***************************************************************************)
EXTENDS Migration, RecordTableProofs

USE PathAssumption

-------------------------------------------------------------------------------
(* The records that the tables of the two ends can hold.                   *)

ToNewBox        == Record(ToAddress(Server, Service), Zero, NewBox)
AnswersToNewBox == Record(BackTo(Client, Service), Zero, NewBox)

ClientRules == {ToOldBox, ToNewBox, FromOldBox, FromNewBox}
ServerRules == {AnswersToOldBox, AnswersToNewBox, CallsFromOldBox, CallsFromNewBox}

Has(t, rule) == \E i \in 1..Len(t) : t[i] = rule

LEMMA RulesAreRecords ==
  /\ ClientRules \subseteq Records
  /\ ServerRules \subseteq Records
<1> USE DEF Records, Keys, Record, ZeroKey, Zero, Ends, Boxes,
            Client, Server, OldBox, NewBox, Service, Ephemeral
<1>1. Client \in Addresses /\ Server \in Addresses /\ OldBox \in Addresses
      /\ NewBox \in Addresses /\ Service \in Ports
  BY DEF PathAssumption
<1>2. ASSUME NEW a \in Addresses
      PROVE  /\ FromSource(a, Service) \in Keys
             /\ ToService(a, Service) \in Keys
             /\ ToAddress(a, Service) \in Keys
             /\ BackTo(a, Service) \in Keys
  BY <1>1, <1>2 DEF FromSource, ToService, ToAddress, BackTo
<1> QED
  BY <1>1, <1>2 DEF ClientRules, ServerRules, ToOldBox, ToNewBox, FromOldBox, FromNewBox,
       AnswersToOldBox, AnswersToNewBox, CallsFromOldBox, CallsFromNewBox

LEMMA KeysDiffer ==
  /\ FromSource(OldBox, Service) # FromSource(NewBox, Service)
  /\ ToService(OldBox, Service) # ToService(NewBox, Service)
  /\ \A box \in Boxes : /\ FromSource(box, Service) # ToAddress(Server, Service)
                        /\ ToService(box, Service) # BackTo(Client, Service)
  BY DEF FromSource, ToService, ToAddress, BackTo, ZeroKey, Zero, Boxes,
       Client, Server, OldBox, NewBox, Service

LEMMA FreedIsNoRule ==
  /\ \A key \in Keys : Freed.key # key
  /\ \A r \in Records : r # Freed
  /\ \A r \in ClientRules \cup ServerRules : r.key # Freed.key
<1>1. ASSUME NEW key \in Keys PROVE Freed.key # key
  <2>1. "src" \in DOMAIN key /\ DOMAIN Freed.key = {"freed"}
    BY <1>1 DEF Keys, Freed
  <2> QED BY <2>1
<1>2. ASSUME NEW r \in Records PROVE r.key \in Keys
  BY <1>2 DEF Records
<1> QED BY <1>1, <1>2, RulesAreRecords

LEMMA ClientRuleKeys ==
  /\ ToOldBox.key = ToAddress(Server, Service) /\ ToNewBox.key = ToAddress(Server, Service)
  /\ FromOldBox.key = FromSource(OldBox, Service)
  /\ FromNewBox.key = FromSource(NewBox, Service)
  /\ [ToOldBox EXCEPT !.dst = NewBox] = ToNewBox
  /\ [ToNewBox EXCEPT !.dst = NewBox] = ToNewBox
  /\ ToOldBox.dst = OldBox /\ ToNewBox.dst = NewBox
  /\ FromOldBox.src = Server /\ FromNewBox.src = Server
  BY DEF ToOldBox, ToNewBox, FromOldBox, FromNewBox, Record

LEMMA ServerRuleKeys ==
  /\ AnswersToOldBox.key = BackTo(Client, Service)
  /\ AnswersToNewBox.key = BackTo(Client, Service)
  /\ CallsFromOldBox.key = ToService(OldBox, Service)
  /\ CallsFromNewBox.key = ToService(NewBox, Service)
  /\ [AnswersToOldBox EXCEPT !.dst = NewBox] = AnswersToNewBox
  /\ [AnswersToNewBox EXCEPT !.dst = NewBox] = AnswersToNewBox
  /\ AnswersToOldBox.dst = OldBox /\ AnswersToNewBox.dst = NewBox
  /\ CallsFromOldBox.src = Client /\ CallsFromNewBox.src = Client
  BY DEF AnswersToOldBox, AnswersToNewBox, CallsFromOldBox, CallsFromNewBox, Record

-------------------------------------------------------------------------------
(* The tables: the client's has at most one rule for what it sends, the    *)
(* server's has exactly one, the first.                                    *)

ClientTable(t) ==
  /\ t \in Seq(ClientRules \cup {Freed})
  /\ \A i, j \in 1..Len(t) :
       t[i].key = ToOldBox.key /\ t[j].key = ToOldBox.key => i = j

ServerTable(t) ==
  /\ t \in Seq(ServerRules)
  /\ Len(t) # 0
  /\ \A i \in 1..Len(t) : t[i].key = AnswersToOldBox.key <=> i = 1

(* What "SYN", "ACK" and the adding half of "RESET" make of a table: every *)
(* record stays in its place, and only one with the key may be rewritten.  *)
Keeps(t, key, rule, after) ==
  /\ Len(t) <= Len(after)
  /\ \A i \in 1..Len(t) :
       after[i] = t[i] \/ (t[i].key = key /\ after[i] = rule)

(* The client has a rule for what it sends.                                *)
Sends(t) == \E i \in 1..Len(t) : t[i].key = ToOldBox.key

NoneFreed(t) == \A i \in 1..Len(t) : t[i] # Freed

LEMMA ClientRuleKinds ==
  ASSUME NEW r \in ClientRules \cup {Freed}
  PROVE  /\ r.key = ToOldBox.key <=> r \in {ToOldBox, ToNewBox}
         /\ r.key = FromOldBox.key <=> r = FromOldBox
         /\ r.key = FromNewBox.key <=> r = FromNewBox
<1>1. /\ Freed.key # ToOldBox.key /\ Freed.key # FromOldBox.key
      /\ Freed.key # FromNewBox.key
  BY FreedIsNoRule DEF ClientRules
<1> QED BY <1>1, KeysDiffer, ClientRuleKeys DEF ClientRules, Boxes

LEMMA ServerRuleKinds ==
  ASSUME NEW r \in ServerRules
  PROVE  /\ r.key = AnswersToOldBox.key <=> r \in {AnswersToOldBox, AnswersToNewBox}
         /\ r.key = CallsFromOldBox.key <=> r = CallsFromOldBox
         /\ r.key = CallsFromNewBox.key <=> r = CallsFromNewBox
  BY KeysDiffer, ServerRuleKeys DEF ServerRules, Boxes

LEMMA ClientSynTable ==
  ASSUME NEW t, ClientTable(t)
  PROVE  LET after == HashAdd(t, FromNewBox)
         IN /\ ClientTable(after)
            /\ Keeps(t, ToOldBox.key, ToNewBox, after)
            /\ NoneFreed(t) => NoneFreed(after)
            /\ Has(after, FromNewBox)
            /\ \A i \in 1..Len(t) : after[i] = t[i]
            /\ \A r : Has(t, r) => Has(after, r)
            /\ Sends(t) => Sends(after)
<1> DEFINE after == HashAdd(t, FromNewBox)
<1>1. /\ after \in Seq(ClientRules \cup {Freed})
      /\ Len(after) = Len(t) + 1
      /\ \A i \in 1..Len(t) : after[i] = t[i]
      /\ after[Len(t) + 1] = FromNewBox
  <2> DEFINE S == ClientRules \cup {Freed}
  <2>1. t \in Seq(S) /\ FromNewBox \in S
    BY DEF ClientTable, ClientRules
  <2> HIDE DEF S, after
  <2>2. t \in Seq(S) => after \in Seq(S)
    BY <2>1, AddCorrect DEF after
  <2>3. /\ Len(after) = Len(t) + 1
        /\ \A i \in 1..Len(t) : after[i] = t[i]
        /\ after[Len(t) + 1] = FromNewBox
    BY <2>1, AddCorrect DEF after
  <2> QED BY <2>1, <2>2, <2>3 DEF S
<1>2. Len(t) \in Nat
  BY LenProperties DEF ClientTable
<1>3. FromNewBox.key # ToOldBox.key
  BY ClientRuleKeys, KeysDiffer DEF Boxes
<1> HIDE DEF after
<1>4. ClientTable(after)
  BY <1>1, <1>2, <1>3 DEF ClientTable
<1>5. Has(after, FromNewBox) /\ \A r : Has(t, r) => Has(after, r)
  BY <1>1, <1>2 DEF Has
<1>6. Keeps(t, ToOldBox.key, ToNewBox, after)
  BY <1>1, <1>2 DEF Keeps
<1>7. NoneFreed(t) => NoneFreed(after)
  <2>1. FromNewBox # Freed
    BY FreedIsNoRule, RulesAreRecords DEF ClientRules
  <2> QED BY <1>1, <1>2, <2>1 DEF NoneFreed
<1>8. Sends(t) => Sends(after)
  BY <1>1, <1>2 DEF Sends
<1> QED BY <1>1, <1>4, <1>5, <1>6, <1>7, <1>8 DEF after

LEMMA ClientAckTable ==
  ASSUME NEW t, ClientTable(t)
  PROVE  LET after == SetDst(t, ToAddress(Server, Service), NewBox)
         IN /\ ClientTable(after)
            /\ Keeps(t, ToOldBox.key, ToNewBox, after)
            /\ NoneFreed(t) => NoneFreed(after)
            /\ \A r \in {FromOldBox, FromNewBox} : Has(t, r) => Has(after, r)
            /\ Sends(t) => Sends(after)
<1> DEFINE after == SetDst(t, ToAddress(Server, Service), NewBox)
<1>1. ASSUME NEW i \in 1..Len(t), t[i].key = ToAddress(Server, Service)
      PROVE  [t[i] EXCEPT !.dst = NewBox] = ToNewBox
  <2>1. t[i] \in ClientRules \cup {Freed}
    BY ElementOfSeq DEF ClientTable
  <2> QED BY <1>1, <2>1, ClientRuleKinds, ClientRuleKeys
<1>2. /\ after \in Seq(ClientRules \cup {Freed})
      /\ Len(after) = Len(t)
      /\ \A i \in 1..Len(t) :
           \/ after[i] = t[i]
           \/ t[i].key = ToAddress(Server, Service) /\ after[i] = ToNewBox
  <2> DEFINE S == ClientRules \cup {Freed}
  <2>1. t \in Seq(S) /\ ToNewBox \in S
    BY DEF ClientTable, ClientRules
  <2> HIDE DEF S, after
  <2> QED BY <1>1, <2>1, SetDstCorrect DEF S, after
<1> HIDE DEF after
<1>3. ClientTable(after)
  BY <1>2, ClientRuleKeys DEF ClientTable
<1>4. ASSUME NEW r \in {FromOldBox, FromNewBox}, Has(t, r) PROVE Has(after, r)
  <2>1. r.key # ToAddress(Server, Service)
    BY <1>4, ClientRuleKeys, KeysDiffer DEF Boxes
  <2> QED BY <1>2, <1>4, <2>1 DEF Has
<1>5. Len(t) \in Nat
  BY LenProperties DEF ClientTable
<1>6. Keeps(t, ToOldBox.key, ToNewBox, after)
  BY <1>2, <1>5, ClientRuleKeys DEF Keeps
<1>7. NoneFreed(t) => NoneFreed(after)
  <2>1. ToNewBox # Freed
    BY FreedIsNoRule, RulesAreRecords DEF ClientRules
  <2> QED BY <1>2, <1>5, <2>1 DEF NoneFreed
<1>8. Sends(t) => Sends(after)
  BY <1>2, <1>5, ClientRuleKeys DEF Sends
<1> QED BY <1>3, <1>4, <1>6, <1>7, <1>8 DEF after

LEMMA ClientDeleteTable ==
  ASSUME NEW t, ClientTable(t), NEW item \in {ToOldBox, FromOldBox}
  PROVE  LET after == DeleteHash(t, item)
         IN /\ ClientTable(after)
            /\ Len(after) = Len(t)
            /\ Has(t, FromNewBox) => Has(after, FromNewBox)
            /\ item = ToOldBox /\ Has(t, FromOldBox) => Has(after, FromOldBox)
            /\ item = FromOldBox /\ Sends(t) => Sends(after)
            /\ Has(after, ToNewBox) => Has(t, ToNewBox)
<1> DEFINE after == DeleteHash(t, item)
<1>1. /\ after \in Seq(ClientRules \cup {Freed})
      /\ Len(after) = Len(t)
      /\ \A i \in 1..Len(t) :
           \/ after[i] = t[i]
           \/ t[i].key = item.key /\ after[i] = Freed
  <2> DEFINE S == ClientRules \cup {Freed}
  <2>1. t \in Seq(S) /\ Freed \in S
    BY DEF ClientTable
  <2> HIDE DEF S
  <2>2. /\ DeleteHash(t, item) \in Seq(S)
        /\ Len(DeleteHash(t, item)) = Len(t)
        /\ \A i \in 1..Len(t) :
             \/ DeleteHash(t, item)[i] = t[i]
             \/ t[i].key = item.key /\ DeleteHash(t, item)[i] = Freed
    BY <2>1, DeleteHashCorrect, Zenon
  <2> QED BY <2>2 DEF S
<1>2. Freed.key # ToOldBox.key
  BY FreedIsNoRule DEF ClientRules
<1>3. FromNewBox.key # item.key /\ FromOldBox.key # ToOldBox.key
  BY ClientRuleKeys, KeysDiffer DEF Boxes
<1> HIDE DEF after
<1>4. ClientTable(after)
  BY <1>1, <1>2 DEF ClientTable
<1>5. Has(t, FromNewBox) => Has(after, FromNewBox)
  BY <1>1, <1>3 DEF Has
<1>6. item = ToOldBox /\ Has(t, FromOldBox) => Has(after, FromOldBox)
  BY <1>1, <1>3 DEF Has
<1>7. item = FromOldBox /\ Sends(t) => Sends(after)
  BY <1>1, <1>3 DEF Sends
<1>8. Has(after, ToNewBox) => Has(t, ToNewBox)
  <2>1. ToNewBox # Freed
    BY FreedIsNoRule, RulesAreRecords DEF ClientRules
  <2> QED BY <1>1, <2>1 DEF Has
<1> QED BY <1>1, <1>4, <1>5, <1>6, <1>7, <1>8 DEF after

LEMMA ClientAddTable ==
  ASSUME NEW t, ClientTable(t), NEW item \in {ToOldBox, FromOldBox}
  PROVE  LET after == AddHash(t, item)
         IN /\ ClientTable(after)
            /\ Keeps(t, ToOldBox.key, ToNewBox, after)
            /\ \A r : Has(t, r) => Has(after, r)
            /\ item = FromOldBox => Has(after, FromOldBox)
            /\ Sends(t) \/ item = ToOldBox => Sends(after)
            /\ Has(after, ToNewBox) => Has(t, ToNewBox)
<1> DEFINE after == AddHash(t, item)
<1>1. after \in Seq(ClientRules \cup {Freed}) /\ Added(t, item, after)
  <2> DEFINE S == ClientRules \cup {Freed}
  <2>1. t \in Seq(S) /\ item \in S
    BY DEF ClientTable, ClientRules
  <2> HIDE DEF S, after
  <2> QED BY <2>1, AddHashCorrect, Zenon DEF S, after
<1>2. Len(t) \in Nat
  BY LenProperties DEF ClientTable
<1>3. FromOldBox.key # ToOldBox.key
  BY ClientRuleKeys, KeysDiffer DEF Boxes
<1>4. \A i \in 1..Len(t) : t[i].key = FromOldBox.key => t[i] = FromOldBox
  BY ElementOfSeq, ClientRuleKinds DEF ClientTable
<1> HIDE DEF after
<1>5. ClientTable(after)
  BY <1>1, <1>2, <1>3 DEF ClientTable, Added
<1>6. \A r : Has(t, r) => Has(after, r)
  BY <1>1, <1>2 DEF Has, Added
<1>7. item = FromOldBox => Has(after, FromOldBox)
  BY <1>1, <1>2, <1>4 DEF Has, Added
<1>8. Keeps(t, ToOldBox.key, ToNewBox, after)
  BY <1>1, <1>2 DEF Keeps, Added
<1>9. Sends(t) \/ item = ToOldBox => Sends(after)
  BY <1>1, <1>2 DEF Sends, Added
<1>10. Has(after, ToNewBox) => Has(t, ToNewBox)
  <2>1. ToNewBox # ToOldBox /\ ToNewBox # FromOldBox
    BY ClientRuleKeys, KeysDiffer DEF Boxes, OldBox, NewBox
  <2> QED BY <1>1, <1>2, <2>1 DEF Has, Added
<1> QED BY <1>5, <1>6, <1>7, <1>8, <1>9, <1>10 DEF after

LEMMA ServerAddTable ==
  ASSUME NEW t, ServerTable(t), NEW item \in {AnswersToOldBox, CallsFromNewBox}
  PROVE  LET after == AddHash(t, item)
         IN /\ ServerTable(after)
            /\ Keeps(t, AnswersToOldBox.key, AnswersToNewBox, after)
            /\ after[1] = t[1]
            /\ \A r : Has(t, r) => Has(after, r)
            /\ item = CallsFromNewBox => Has(after, CallsFromNewBox)
<1> DEFINE after == AddHash(t, item)
<1>1. after \in Seq(ServerRules) /\ Added(t, item, after)
  <2> DEFINE S == ServerRules
  <2>1. t \in Seq(S) /\ item \in S
    BY DEF ServerTable, ServerRules
  <2> HIDE DEF S, after
  <2> QED BY <2>1, AddHashCorrect, Zenon DEF S, after
<1>2. Len(t) \in Nat \ {0}
  BY LenProperties DEF ServerTable
<1>3. CallsFromNewBox.key # AnswersToOldBox.key
  BY ServerRuleKeys, KeysDiffer DEF Boxes
<1>4. \A i \in 1..Len(t) : t[i].key = CallsFromNewBox.key => t[i] = CallsFromNewBox
  BY ElementOfSeq, ServerRuleKinds DEF ServerTable
<1> HIDE DEF after
<1>5. ServerTable(after)
  BY <1>1, <1>2, <1>3 DEF ServerTable, Added
<1>6. after[1] = t[1] /\ \A r : Has(t, r) => Has(after, r)
  BY <1>1, <1>2 DEF Has, Added
<1>7. item = CallsFromNewBox => Has(after, CallsFromNewBox)
  BY <1>1, <1>2, <1>4 DEF Has, Added
<1>8. Keeps(t, AnswersToOldBox.key, AnswersToNewBox, after)
  BY <1>1, <1>2 DEF Keeps, Added
<1> QED BY <1>5, <1>6, <1>7, <1>8 DEF after

LEMMA ServerAckTable ==
  ASSUME NEW t, ServerTable(t)
  PROVE  LET after == SetDst(t, BackTo(Client, Service), NewBox)
         IN /\ ServerTable(after)
            /\ Keeps(t, AnswersToOldBox.key, AnswersToNewBox, after)
            /\ \A r \in {CallsFromOldBox, CallsFromNewBox} : Has(t, r) => Has(after, r)
<1> DEFINE after == SetDst(t, BackTo(Client, Service), NewBox)
<1>1. ASSUME NEW i \in 1..Len(t), t[i].key = BackTo(Client, Service)
      PROVE  [t[i] EXCEPT !.dst = NewBox] = AnswersToNewBox
  <2>1. t[i] \in ServerRules
    BY ElementOfSeq DEF ServerTable
  <2> QED BY <1>1, <2>1, ServerRuleKinds, ServerRuleKeys
<1>2. /\ after \in Seq(ServerRules)
      /\ Len(after) = Len(t)
      /\ \A i \in 1..Len(t) :
           \/ after[i] = t[i]
           \/ t[i].key = BackTo(Client, Service) /\ after[i] = AnswersToNewBox
  <2> DEFINE S == ServerRules
  <2>1. t \in Seq(S) /\ AnswersToNewBox \in S
    BY DEF ServerTable, ServerRules
  <2> HIDE DEF S, after
  <2>2. after \in Seq(S) /\ Len(after) = Len(t)
    BY <1>1, <2>1, SetDstCorrect DEF after
  <2>3. \A i \in 1..Len(t) :
          \/ after[i] = t[i]
          \/ t[i].key = BackTo(Client, Service) /\ after[i] = AnswersToNewBox
    BY <1>1, <2>1, SetDstCorrect DEF after
  <2> QED BY <2>2, <2>3 DEF S
<1> HIDE DEF after
<1>3. ServerTable(after)
  BY <1>2, ServerRuleKeys DEF ServerTable
<1>4. ASSUME NEW r \in {CallsFromOldBox, CallsFromNewBox}, Has(t, r) PROVE Has(after, r)
  <2>1. r.key # BackTo(Client, Service)
    BY <1>4, ServerRuleKeys, KeysDiffer DEF Boxes
  <2> QED BY <1>2, <1>4, <2>1 DEF Has
<1>5. Len(t) \in Nat
  BY LenProperties DEF ServerTable
<1>6. Keeps(t, AnswersToOldBox.key, AnswersToNewBox, after)
  BY <1>2, <1>5, ServerRuleKeys DEF Keeps
<1> QED BY <1>3, <1>4, <1>6 DEF after

-------------------------------------------------------------------------------
(* The rules through updates and resets.  The client loses the rule for    *)
(* what it sends, or for what comes from the old middlebox, only in the    *)
(* middle of a reset, and the one for the new middlebox never; client and  *)
(* server have the new middlebox in their rules only after the client has  *)
(* prepared for it.                                                        *)

ControlOK ==
  /\ resetPc \in [Resetters -> {"idle", "addTo", "deleteFrom", "addFrom", "done"}]
  /\ ToolTypeOK
  /\ prepared \in [1..3 -> SUBSET Updates]
  /\ committed \in [1..3 -> SUBSET Updates]
  /\ repeats \in 0..MaxRepeats

RulesInv ==
  /\ ClientTable(clientRecords)
  /\ ServerTable(serverRecords)
  /\ (\A k \in Resetters : resetPc[k] # "addFrom") => Has(clientRecords, FromOldBox)
  /\ (\A k \in Resetters : resetPc[k] # "addTo") => Sends(clientRecords)
  /\ Has(clientRecords, ToNewBox) => Has(clientRecords, FromNewBox)
  /\ \A u \in Updates : u \in prepared[3] => Has(clientRecords, FromNewBox)
  /\ serverRecords[1] # AnswersToOldBox => Has(clientRecords, FromNewBox)

TablesInv == ControlOK /\ RulesInv

LEMMA ChainHosts ==
  /\ Len(Chain) = 3 /\ 1..Len(Chain) = {1, 2, 3} /\ 1..3 = {1, 2, 3}
  /\ Chain[1] = Server /\ Chain[2] = NewBox /\ Chain[3] = Client
  /\ Client # Server /\ Client \notin Boxes /\ Server \notin Boxes /\ NewBox \in Boxes
  BY DEF Chain, Client, Server, Boxes, OldBox, NewBox

LEMMA TablesInit ==
  ASSUME Init
  PROVE  /\ TablesInv
         /\ clientRecords = <<ToOldBox, FromOldBox>>
         /\ serverRecords = <<AnswersToOldBox, CallsFromOldBox>>
<1>1. /\ clientRecords = <<ToOldBox, FromOldBox>>
      /\ serverRecords = <<AnswersToOldBox, CallsFromOldBox>>
  <2>1. ASSUME NEW a, NEW b PROVE HashAdd(HashAdd(<<>>, a), b) = <<a, b>>
    BY TwoAdded
  <2> QED BY <2>1 DEF Init, ClientInit, ServerInit
<1>2. ControlOK
  BY ChainHosts, RepeatsAssumption
  DEF RepeatsAssumption, Init, ClientInit, ToolInit, ToolTypeOK, Agents!Init, Agents!Hops, ControlOK
<1>3. /\ ClientTable(clientRecords) /\ Has(clientRecords, FromOldBox)
      /\ Sends(clientRecords) /\ ~Has(clientRecords, ToNewBox)
  <2>1. clientRecords \in Seq(ClientRules \cup {Freed}) /\ Len(clientRecords) = 2
    BY <1>1 DEF ClientRules
  <2>2. clientRecords[1] = ToOldBox /\ clientRecords[2] = FromOldBox
    BY <1>1
  <2>3. FromOldBox.key # ToOldBox.key
    BY ClientRuleKeys, KeysDiffer DEF Boxes
  <2>4. ToNewBox # ToOldBox /\ ToNewBox # FromOldBox
    BY ClientRuleKeys, KeysDiffer DEF Boxes, OldBox, NewBox
  <2> QED BY <2>1, <2>2, <2>3, <2>4 DEF ClientTable, Has, Sends
<1>4. ServerTable(serverRecords) /\ serverRecords[1] = AnswersToOldBox
  <2>1. serverRecords \in Seq(ServerRules) /\ Len(serverRecords) = 2
    BY <1>1 DEF ServerRules
  <2>2. serverRecords[1] = AnswersToOldBox /\ serverRecords[2] = CallsFromOldBox
    BY <1>1
  <2>3. CallsFromOldBox.key # AnswersToOldBox.key
    BY ServerRuleKeys, KeysDiffer DEF Boxes
  <2> QED BY <2>1, <2>2, <2>3 DEF ServerTable
<1>5. \A u \in Updates : u \notin prepared[3]
  BY ChainHosts DEF Init, Agents!Init, Agents!Hops
<1> QED BY <1>1, <1>2, <1>3, <1>4, <1>5 DEF TablesInv, RulesInv

LEMMA ControlNext ==
  ASSUME ControlOK, [Next]_vars
  PROVE  ControlOK'
<1> USE ChainHosts DEF ControlOK, ToolTypeOK
<1>1. CASE Agent
  <2> SUFFICES ASSUME NEW h \in {1, 2, 3}, NEW u \in Updates,
                      AgentSyn(h, u) \/ AgentAck(h, u)
               PROVE  ControlOK'
    BY <1>1 DEF Agent
  <2>1. UNCHANGED <<resetPc, tool>>
    BY DEF AgentSyn, AgentAck, ClientSyn, ClientAck, kernelVars, clientVars
  <2>2. /\ prepared' \in [1..3 -> SUBSET Updates]
        /\ committed' \in [1..3 -> SUBSET Updates]
    BY DEF AgentSyn, AgentAck, Agents!Prepare, Agents!CommitTo
  <2>3. repeats' \in 0..MaxRepeats
    BY RepeatsAssumption DEF RepeatsAssumption, AgentSyn, AgentAck
  <2> QED BY <2>1, <2>2, <2>3
<1>2. CASE \E k \in Resetters : Operator(k)
  <2> SUFFICES ASSUME NEW k \in Resetters, Operator(k)
               PROVE  ControlOK'
    BY <1>2
  <2>1. resetPc' \in [Resetters -> {"idle", "addTo", "deleteFrom", "addFrom", "done"}]
    BY DEF Operator, ClientCommand, ServerCommand, BoxCommand, ClientReset, ResetSection,
           clientVars
  <2>2. tool' \in [Resetters -> {"idle", "answered", "starved"}]
    BY DEF Operator, ClientCommand, ServerCommand, BoxCommand, Answered, Starved
  <2> QED BY <2>1, <2>2 DEF Operator, agentVars
<1>3. CASE Traffic \/ UNCHANGED vars
  BY <1>3 DEF Traffic, vars, kernelVars, clientVars, agentVars
<1> QED BY <1>1, <1>2, <1>3 DEF Next

LEMMA RulesAgent ==
  ASSUME TablesInv, NEW h \in {1, 2, 3}, NEW u \in Updates,
         AgentSyn(h, u) \/ AgentAck(h, u)
  PROVE  RulesInv'
<1> USE ChainHosts DEF TablesInv, RulesInv
<1>1. UNCHANGED resetPc
  BY DEF AgentSyn, AgentAck, ClientSyn, ClientAck, kernelVars, clientVars
<1>2. CASE AgentSyn(h, u)
  <2>1. prepared' = [prepared EXCEPT ![h] = @ \cup {u}]
    BY <1>2 DEF AgentSyn, Agents!Prepare
  <2>2. CASE h = 3
    <3>1. clientRecords' = HashAdd(clientRecords, FromNewBox) /\ UNCHANGED serverRecords
      BY <1>2, <2>2 DEF AgentSyn, ClientSyn
    <3> QED BY <1>1, <3>1, ClientSynTable
  <2>3. CASE h = 1
    <3>1. /\ UNCHANGED clientRecords
          /\ \/ serverRecords' = AddHash(serverRecords, CallsFromNewBox)
             \/ UNCHANGED serverRecords
      BY <1>2, <2>3 DEF AgentSyn, ServerSyn, ReplyNotAllocated, clientVars
    <3>2. UNCHANGED prepared[3]
      BY <2>1, <2>3 DEF ControlOK
    <3> QED BY <1>1, <3>1, <3>2, ServerAddTable
  <2>4. CASE h = 2
    <3>1. UNCHANGED <<clientRecords, serverRecords>>
      BY <1>2, <2>4 DEF AgentSyn, kernelVars, clientVars
    <3>2. UNCHANGED prepared[3]
      BY <2>1, <2>4 DEF ControlOK
    <3> QED BY <1>1, <3>1, <3>2
  <2> QED BY <2>2, <2>3, <2>4
<1>3. CASE AgentAck(h, u)
  <2>1. UNCHANGED prepared /\ u \in prepared[3]
    BY <1>3 DEF AgentAck, Agents!CommitTo, Agents!Hops
  <2>2. CASE h = 3
    <3>1. /\ clientRecords' = SetDst(clientRecords, ToAddress(Server, Service), NewBox)
          /\ UNCHANGED serverRecords
      BY <1>3, <2>2 DEF AgentAck, ClientAck
    <3> QED BY <1>1, <2>1, <3>1, ClientAckTable
  <2>3. CASE h = 1
    <3>1. /\ UNCHANGED clientRecords
          /\ \/ serverRecords' = SetDst(serverRecords, BackTo(Client, Service), NewBox)
             \/ UNCHANGED serverRecords
      BY <1>3, <2>3 DEF AgentAck, ServerAck, ReplyNotAllocated, clientVars
    <3> QED BY <1>1, <2>1, <3>1, ServerAckTable
  <2>4. CASE h = 2
    <3>1. UNCHANGED <<clientRecords, serverRecords>>
      BY <1>3, <2>4 DEF AgentAck, kernelVars, clientVars
    <3> QED BY <1>1, <2>1, <3>1
  <2> QED BY <2>2, <2>3, <2>4
<1> QED BY <1>2, <1>3

LEMMA RulesOperator ==
  ASSUME TablesInv, NEW k \in Resetters, Operator(k)
  PROVE  RulesInv'
<1> USE DEF TablesInv, RulesInv
<1>1. UNCHANGED prepared
  BY DEF Operator, agentVars
<1>2. CASE ClientReset(k) /\ UNCHANGED serverRecords
  <2>1. CASE ResetSection(k, "idle", "addTo", DeleteHash(clientRecords, ToOldBox))
    <3>1. clientRecords' = DeleteHash(clientRecords, ToOldBox)
      BY <2>1 DEF ResetSection
    <3>2. (\A j \in Resetters : resetPc'[j] # "addFrom") =>
            (\A j \in Resetters : resetPc[j] # "addFrom")
      BY <2>1 DEF ResetSection, ControlOK
    <3>3. resetPc'[k] = "addTo"
      BY <2>1 DEF ResetSection, ControlOK
    <3> QED BY <1>1, <1>2, <3>1, <3>2, <3>3, ClientDeleteTable
  <2>2. CASE ResetSection(k, "addTo", "deleteFrom", AddHash(clientRecords, ToOldBox))
    <3>1. clientRecords' = AddHash(clientRecords, ToOldBox)
      BY <2>2 DEF ResetSection
    <3>2. (\A j \in Resetters : resetPc'[j] # "addFrom") =>
            (\A j \in Resetters : resetPc[j] # "addFrom")
      BY <2>2 DEF ResetSection, ControlOK
    <3> QED BY <1>1, <1>2, <3>1, <3>2, ClientAddTable
  <2>3. CASE ResetSection(k, "deleteFrom", "addFrom", DeleteHash(clientRecords, FromOldBox))
    <3>1. clientRecords' = DeleteHash(clientRecords, FromOldBox)
      BY <2>3 DEF ResetSection
    <3>2. resetPc'[k] = "addFrom"
      BY <2>3 DEF ResetSection, ControlOK
    <3>3. (\A j \in Resetters : resetPc'[j] # "addTo") =>
            (\A j \in Resetters : resetPc[j] # "addTo")
      BY <2>3 DEF ResetSection, ControlOK
    <3> QED BY <1>1, <1>2, <3>1, <3>2, <3>3, ClientDeleteTable
  <2>4. CASE ResetSection(k, "addFrom", "done", AddHash(clientRecords, FromOldBox))
    <3>1. clientRecords' = AddHash(clientRecords, FromOldBox)
      BY <2>4 DEF ResetSection
    <3>2. (\A j \in Resetters : resetPc'[j] # "addTo") =>
            (\A j \in Resetters : resetPc[j] # "addTo")
      BY <2>4 DEF ResetSection, ControlOK
    <3> QED BY <1>1, <1>2, <3>1, <3>2, ClientAddTable
  <2> QED BY <1>2, <2>1, <2>2, <2>3, <2>4 DEF ClientReset
<1>3. CASE ServerReset /\ UNCHANGED clientVars
  BY <1>1, <1>3, ServerAddTable DEF ServerReset, clientVars
<1>4. CASE UNCHANGED <<clientVars, serverRecords>>
  BY <1>1, <1>4 DEF clientVars
<1> QED BY <1>2, <1>3, <1>4 DEF Operator, ClientCommand, ServerCommand

LEMMA TablesNext ==
  ASSUME TablesInv, [Next]_vars
  PROVE  TablesInv'
<1>1. ControlOK'
  BY ControlNext DEF TablesInv
<1>2. CASE Agent
  BY <1>1, <1>2, RulesAgent, ChainHosts DEF Agent, TablesInv
<1>3. CASE \E k \in Resetters : Operator(k)
  BY <1>1, <1>3, RulesOperator DEF TablesInv
<1>4. CASE Traffic \/ UNCHANGED vars
  <2>1. UNCHANGED <<clientRecords, resetPc, serverRecords, prepared>>
    BY <1>4 DEF Traffic, vars, kernelVars, clientVars, agentVars
  <2> QED BY <1>1, <2>1 DEF TablesInv, RulesInv
<1> QED BY <1>2, <1>3, <1>4 DEF Next

(* The commands keep the tables as RulesInv says, whoever gives them and   *)
(* in whatever order.                                                      *)
THEOREM TablesCorrect == Spec => []TablesInv
<1>1. TablesInv /\ [Next]_vars => TablesInv'
  BY TablesNext
<1> QED BY <1>1, TablesInit, PTL DEF Spec

(* A rule that a table has is found under its key.                         *)
LEMMA HasFound ==
  ASSUME NEW S, NEW t \in Seq(S), NEW r, Has(t, r)
  PROVE  HashFind(t, r.key) # Null
<1>1. PICK i \in 1..Len(t) : t[i] = r
  BY DEF Has
<1> QED BY <1>1, FindSucceeds

LEMMA ServerAnswers ==
  ASSUME NEW t, ServerTable(t)
  PROVE  /\ HashFind(t, BackTo(Client, Service)) = 1
         /\ 1 \in 1..Len(t)
         /\ t[1] \in {AnswersToOldBox, AnswersToNewBox}
<1>1. t \in Seq(ServerRules) /\ Len(t) \in Nat \ {0}
  BY LenProperties DEF ServerTable
<1>2. t[1] \in ServerRules /\ t[1].key = AnswersToOldBox.key
  BY <1>1, ElementOfSeq DEF ServerTable
<1>3. HashFind(t, BackTo(Client, Service)) # Null
  BY <1>1, <1>2, ServerRuleKeys, FindCorrect
<1>4. /\ HashFind(t, BackTo(Client, Service)) \in 1..Len(t)
      /\ t[HashFind(t, BackTo(Client, Service))].key = BackTo(Client, Service)
  BY <1>1, <1>3, FindCorrect, Zenon
<1>5. HashFind(t, BackTo(Client, Service)) = 1
  BY <1>4, ServerRuleKeys DEF ServerTable
<1> QED BY <1>1, <1>2, <1>5, ServerRuleKinds

(* Records that share a key rewrite alike, whatever commands the agents    *)
(* and the operators give (RulesAgree), for any number of them.            *)
THEOREM RulesAgreeCorrect == Spec => []RulesAgree
<1>1. ASSUME TablesInv PROVE RulesAgree
  <2>1. ASSUME NEW i \in DOMAIN clientRecords, NEW j \in DOMAIN clientRecords,
               clientRecords[i].key = clientRecords[j].key
        PROVE  clientRecords[i] = clientRecords[j]
    <3>1. i \in 1..Len(clientRecords) /\ j \in 1..Len(clientRecords)
      BY <1>1, LenProperties DEF TablesInv, RulesInv, ClientTable
    <3>2. /\ clientRecords[i] \in ClientRules \cup {Freed}
          /\ clientRecords[j] \in ClientRules \cup {Freed}
      BY <1>1, <3>1, ElementOfSeq DEF TablesInv, RulesInv, ClientTable
    <3>3. CASE clientRecords[i].key = ToOldBox.key
      BY <1>1, <2>1, <3>1, <3>3 DEF TablesInv, RulesInv, ClientTable
    <3>4. CASE clientRecords[i].key # ToOldBox.key
      <4>1. /\ clientRecords[i] \in {FromOldBox, FromNewBox, Freed}
            /\ clientRecords[j] \in {FromOldBox, FromNewBox, Freed}
        BY <2>1, <3>2, <3>4, ClientRuleKeys DEF ClientRules
      <4>2. /\ FromOldBox.key # FromNewBox.key
            /\ FromOldBox.key # Freed.key /\ FromNewBox.key # Freed.key
        BY ClientRuleKeys, KeysDiffer, FreedIsNoRule DEF ClientRules
      <4> QED BY <2>1, <4>1, <4>2
    <3> QED BY <3>3, <3>4
  <2>2. ASSUME NEW i \in DOMAIN serverRecords, NEW j \in DOMAIN serverRecords,
               serverRecords[i].key = serverRecords[j].key
        PROVE  serverRecords[i] = serverRecords[j]
    <3>1. i \in 1..Len(serverRecords) /\ j \in 1..Len(serverRecords)
      BY <1>1, LenProperties DEF TablesInv, RulesInv, ServerTable
    <3>2. serverRecords[i] \in ServerRules /\ serverRecords[j] \in ServerRules
      BY <1>1, <3>1, ElementOfSeq DEF TablesInv, RulesInv, ServerTable
    <3>3. CASE serverRecords[i].key = AnswersToOldBox.key
      BY <1>1, <2>2, <3>1, <3>3 DEF TablesInv, RulesInv, ServerTable
    <3>4. CASE serverRecords[i].key # AnswersToOldBox.key
      <4>1. /\ serverRecords[i] \in {CallsFromOldBox, CallsFromNewBox}
            /\ serverRecords[j] \in {CallsFromOldBox, CallsFromNewBox}
        BY <2>2, <3>2, <3>4, ServerRuleKeys DEF ServerRules
      <4>2. CallsFromOldBox.key # CallsFromNewBox.key
        BY ServerRuleKeys, KeysDiffer
      <4> QED BY <2>2, <4>1, <4>2
    <3> QED BY <3>3, <3>4
  <2>3. ASSUME NEW t \in {clientRecords, serverRecords}, NEW i \in DOMAIN t, NEW j \in DOMAIN t,
               t[i].key = t[j].key
        PROVE  t[i] = t[j]
    <3>1. CASE t = clientRecords
      BY <2>1, <2>3, <3>1
    <3>2. CASE t = serverRecords
      BY <2>2, <2>3, <3>2
    <3> QED BY <3>1, <3>2
  <2> QED BY <2>3, Zenon DEF RulesAgree
<1> QED BY <1>1, TablesCorrect, PTL

(* Whatever middlebox the server answers through, the client has a rule    *)
(* for it, but in the middle of a reset (AnswersAccepted).                 *)
THEOREM AnswersCorrect == Spec => []AnswersAccepted
<1>1. ASSUME TablesInv, \A k \in Resetters : resetPc[k] # "addFrom"
      PROVE  HashFind(clientRecords, FromSource(serverRecords[1].dst, Service)) # Null
  <2> DEFINE S == ClientRules \cup {Freed}
  <2>1. clientRecords \in Seq(S)
    BY <1>1 DEF TablesInv, RulesInv, ClientTable
  <2> HIDE DEF S
  <2>2. CASE serverRecords[1] = AnswersToOldBox
    <3>1. Has(clientRecords, FromOldBox)
      BY <1>1 DEF TablesInv, RulesInv
    <3>2. HashFind(clientRecords, FromOldBox.key) # Null
      BY <2>1, <3>1, HasFound
    <3> QED BY <2>2, <3>2, ServerRuleKeys, ClientRuleKeys
  <2>3. CASE serverRecords[1] = AnswersToNewBox
    <3>1. AnswersToNewBox # AnswersToOldBox
      BY ServerRuleKeys DEF OldBox, NewBox
    <3>2. Has(clientRecords, FromNewBox)
      BY <1>1, <2>3, <3>1 DEF TablesInv, RulesInv
    <3>3. HashFind(clientRecords, FromNewBox.key) # Null
      BY <2>1, <3>2, HasFound
    <3> QED BY <2>3, <3>3, ServerRuleKeys, ClientRuleKeys
  <2> QED BY <1>1, <2>2, <2>3, ServerAnswers DEF TablesInv, RulesInv
<1>2. TablesInv => HashFind(serverRecords, AnswersToOldBox.key) = 1
  BY ServerAnswers, ServerRuleKeys DEF TablesInv, RulesInv
<1>3. TablesInv => AnswersAccepted
  BY <1>1, <1>2 DEF AnswersAccepted
<1> QED BY <1>3, TablesCorrect, PTL

(* But in the middle of a reset the client leads all it sends to a         *)
(* middlebox whose answers it accepts, whatever commands the agents and    *)
(* the operators give (CallsRedirected).                                   *)
THEOREM CallsCorrect == Spec => []CallsRedirected
<1>1. ASSUME TablesInv, \A k \in Resetters : resetPc[k] \notin {"addTo", "addFrom"}
      PROVE  LET i == HashFind(clientRecords, ToOldBox.key)
             IN /\ i # Null
                /\ clientRecords[i].dst \in Boxes
                /\ HashFind(clientRecords, FromSource(clientRecords[i].dst, Service)) # Null
  <2> DEFINE S == ClientRules \cup {Freed}
             i == HashFind(clientRecords, ToOldBox.key)
  <2>1. clientRecords \in Seq(S)
    BY <1>1 DEF TablesInv, RulesInv, ClientTable
  <2>2. PICK j \in 1..Len(clientRecords) : clientRecords[j].key = ToOldBox.key
    BY <1>1 DEF TablesInv, RulesInv, Sends
  <2> HIDE DEF S
  <2>3. i # Null
    BY <2>1, <2>2, FindSucceeds
  <2>4. i \in 1..Len(clientRecords) /\ clientRecords[i].key = ToOldBox.key
    BY <2>1, <2>3, FindCorrect, Zenon
  <2> HIDE DEF i
  <2>5. clientRecords[i] \in {ToOldBox, ToNewBox}
    BY <2>1, <2>4, ElementOfSeq, ClientRuleKinds DEF S
  <2>6. CASE clientRecords[i] = ToOldBox
    <3>1. Has(clientRecords, FromOldBox)
      BY <1>1 DEF TablesInv, RulesInv
    <3>2. HashFind(clientRecords, FromOldBox.key) # Null
      BY <2>1, <3>1, HasFound
    <3> QED BY <2>3, <2>6, <3>2, ClientRuleKeys DEF Boxes, i
  <2>7. CASE clientRecords[i] = ToNewBox
    <3>1. Has(clientRecords, FromNewBox)
      BY <1>1, <2>4, <2>7 DEF TablesInv, RulesInv, Has
    <3>2. HashFind(clientRecords, FromNewBox.key) # Null
      BY <2>1, <3>1, HasFound
    <3> QED BY <2>3, <2>7, <3>2, ClientRuleKeys DEF Boxes, i
  <2> QED BY <2>5, <2>6, <2>7 DEF i
<1>2. TablesInv => CallsRedirected
  BY <1>1 DEF CallsRedirected
<1> QED BY <1>2, TablesCorrect, PTL
===============================================================================
