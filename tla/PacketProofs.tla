----------------------------- MODULE PacketProofs -----------------------------
(***************************************************************************)
(* Proofs about the packets of a session that migrates: their types in     *)
(* general, and that none is lost when no operator resets a rule.          *)
(***************************************************************************)
EXTENDS MigrationProofs

-------------------------------------------------------------------------------
(* Types.  A hook that holds a record holds one of its host's table.       *)

TableOf(host) == IF host = Client THEN clientRecords ELSE serverRecords

HeldInv ==
  \A pk \in Packets : skb[pk].at \in {"foundOut", "foundIn"} =>
    skb[pk].held \in 0..Len(TableOf(skb[pk].host))

PacketTypes == PacketsOK /\ HeldInv

LEMMA HostsOK ==
  /\ Ends \cup Boxes = Addresses
  /\ Client \in Addresses /\ Server \in Addresses /\ OldBox \in Addresses /\ NewBox \in Addresses
  /\ Ends = {Client, Server} /\ Boxes = {OldBox, NewBox}
  /\ Client # Server /\ OldBox # NewBox
  /\ Client \notin Boxes /\ Server \notin Boxes
  /\ Service \in Ports /\ Ephemeral \in Ports
  /\ Zero \notin Addresses
<1>1. Ends \cup Boxes = Addresses /\ {Service, Ephemeral} = Ports
  BY PathAssumption DEF PathAssumption
<1>2. Client # Server /\ OldBox # NewBox /\ Client \notin Boxes /\ Server \notin Boxes
  BY DEF Boxes, Client, Server, OldBox, NewBox
<1>3. Zero \notin Ends \cup Boxes
  BY DEF Ends, Boxes, Client, Server, OldBox, NewBox, Zero
<1> QED BY <1>1, <1>2, <1>3 DEF Ends, Boxes

LEMMA SkbOfStage ==
  ASSUME PacketsOK, NEW pk \in Packets, skb[pk].at \in Stages
  PROVE  skb[pk] \in Skbs
<1>1. skb[pk] \in Skbs \cup {None}
  BY DEF PacketsOK
<1>2. None.at \notin Stages
  BY DEF None, Stages
<1> QED BY <1>1, <1>2

LEMMA SkbFields ==
  ASSUME NEW p \in Skbs
  PROVE  /\ p.at \in Stages /\ p.host \in Ends \cup Boxes \cup {"-"}
         /\ p.proto \in {"TCP", "UDP"}
         /\ p.src \in Addresses \cup {Zero} /\ p.dst \in Addresses \cup {Zero}
         /\ p.sport \in Ports /\ p.dport \in Ports
         /\ p.csum \in [src: Addresses \cup {Zero, "?"}, dst: Addresses \cup {Zero, "?"}]
         /\ p.verified \in BOOLEAN /\ p.sent \in [src: Ends, dst: Ends]
         /\ p.via \in SUBSET Boxes /\ p.held \in Nat
  BY DEF Skbs

(* What a packet is after one of its addresses was replaced.               *)
SrcReplaced(p, new, q) ==
  /\ q.at = p.at /\ q.host = p.host /\ q.proto = p.proto
  /\ q.src = new /\ q.dst = p.dst /\ q.sport = p.sport /\ q.dport = p.dport
  /\ q.csum.src = (IF p.csum.src = p.src THEN new ELSE "?") /\ q.csum.dst = p.csum.dst
  /\ q.verified = p.verified /\ q.sent = p.sent /\ q.via = p.via /\ q.held = p.held

DstReplaced(p, new, q) ==
  /\ q.at = p.at /\ q.host = p.host /\ q.proto = p.proto
  /\ q.src = p.src /\ q.dst = new /\ q.sport = p.sport /\ q.dport = p.dport
  /\ q.csum.src = p.csum.src /\ q.csum.dst = (IF p.csum.dst = p.dst THEN new ELSE "?")
  /\ q.verified = p.verified /\ q.sent = p.sent /\ q.via = p.via /\ q.held = p.held

LEMMA CsumReplaceFields ==
  ASSUME NEW p \in Skbs, NEW new \in Addresses \cup {Zero}
  PROVE  /\ CsumReplace(p, "src", new) \in Skbs
         /\ SrcReplaced(p, new, CsumReplace(p, "src", new))
         /\ CsumReplace(p, "dst", new) \in Skbs
         /\ DstReplaced(p, new, CsumReplace(p, "dst", new))
<1> DEFINE Covered == Addresses \cup {Zero, "?"}
           srcCsum == [p.csum EXCEPT !.src = IF p.csum.src = p.src THEN new ELSE "?"]
           dstCsum == [p.csum EXCEPT !.dst = IF p.csum.dst = p.dst THEN new ELSE "?"]
<1>1. CsumReplace(p, "src", new) = [p EXCEPT !.csum = srcCsum, !.src = new]
  BY DEF CsumReplace, Skbs
<1>2. CsumReplace(p, "dst", new) = [p EXCEPT !.csum = dstCsum, !.dst = new]
  BY DEF CsumReplace, Skbs
<1>3. p.csum \in [src: Covered, dst: Covered] /\ new \in Covered /\ "?" \in Covered
  BY SkbFields
<1> HIDE DEF Covered
<1>4. /\ srcCsum \in [src: Covered, dst: Covered]
      /\ srcCsum.src = (IF p.csum.src = p.src THEN new ELSE "?") /\ srcCsum.dst = p.csum.dst
  BY <1>3
<1>5. /\ dstCsum \in [src: Covered, dst: Covered]
      /\ dstCsum.src = p.csum.src /\ dstCsum.dst = (IF p.csum.dst = p.dst THEN new ELSE "?")
  BY <1>3
<1> HIDE DEF srcCsum, dstCsum
<1>6. CsumReplace(p, "src", new) \in Skbs /\ CsumReplace(p, "dst", new) \in Skbs
  <2>1. CsumReplace(p, "src", new) \in Skbs
    BY <1>1, <1>4 DEF Skbs, Covered
  <2>2. CsumReplace(p, "dst", new) \in Skbs
    BY <1>2, <1>5 DEF Skbs, Covered
  <2> QED BY <2>1, <2>2
<1>7. SrcReplaced(p, new, CsumReplace(p, "src", new))
  BY <1>1, <1>4 DEF Skbs, SrcReplaced
<1>8. DstReplaced(p, new, CsumReplace(p, "dst", new))
  BY <1>2, <1>5 DEF Skbs, DstReplaced
<1> QED BY <1>6, <1>7, <1>8

(* What the commands make of the tables.                                   *)
LEMMA AgentTables ==
  ASSUME NEW h \in {1, 2, 3}, NEW u \in Updates, AgentSyn(h, u) \/ AgentAck(h, u)
  PROVE  \/ UNCHANGED <<clientRecords, serverRecords>>
         \/ /\ clientRecords' \in {HashAdd(clientRecords, FromNewBox),
                                   SetDst(clientRecords, ToAddress(Server, Service), NewBox)}
            /\ UNCHANGED serverRecords
         \/ /\ UNCHANGED clientRecords
            /\ serverRecords' \in {AddHash(serverRecords, CallsFromNewBox),
                                   SetDst(serverRecords, BackTo(Client, Service), NewBox)}
<1>1. CASE AgentSyn(h, u)
  BY <1>1 DEF AgentSyn, ClientSyn, ServerSyn, ReplyNotAllocated, clientVars, kernelVars
<1>2. CASE AgentAck(h, u)
  BY <1>2 DEF AgentAck, ClientAck, ServerAck, ReplyNotAllocated, clientVars, kernelVars
<1> QED BY <1>1, <1>2

LEMMA OperatorTables ==
  ASSUME NEW k \in Resetters, Operator(k)
  PROVE  \/ UNCHANGED <<clientRecords, serverRecords>>
         \/ /\ \E item \in {ToOldBox, FromOldBox} :
                 clientRecords' \in {DeleteHash(clientRecords, item),
                                     AddHash(clientRecords, item)}
            /\ UNCHANGED serverRecords
         \/ /\ UNCHANGED clientRecords
            /\ serverRecords' = AddHash(serverRecords, AnswersToOldBox)
<1>1. CASE ClientCommand(k) /\ UNCHANGED serverRecords
  BY <1>1 DEF ClientCommand, ClientReset, ResetSection, clientVars
<1>2. CASE ServerCommand(k) /\ UNCHANGED clientVars
  BY <1>2 DEF ServerCommand, ServerReset, clientVars
<1>3. CASE UNCHANGED <<clientVars, serverRecords>>
  BY <1>3 DEF clientVars
<1> QED BY <1>1, <1>2, <1>3 DEF Operator

LEMMA TablesTyped ==
  ASSUME TablesInv, NEW host \in Ends
  PROVE  TableOf(host) \in Seq(Records \cup {Freed}) /\ Len(TableOf(host)) \in Nat
<1>1. clientRecords \in Seq(Records \cup {Freed})
  <2>1. clientRecords \in Seq(ClientRules \cup {Freed})
    BY DEF TablesInv, RulesInv, ClientTable
  <2>2. ClientRules \cup {Freed} \subseteq Records \cup {Freed}
    BY RulesAreRecords
  <2> QED BY <2>1, <2>2, SeqMonotonic
<1>2. serverRecords \in Seq(Records \cup {Freed})
  <2>1. serverRecords \in Seq(ServerRules)
    BY DEF TablesInv, RulesInv, ServerTable
  <2>2. ServerRules \subseteq Records \cup {Freed}
    BY RulesAreRecords
  <2> QED BY <2>1, <2>2, SeqMonotonic
<1> QED BY <1>1, <1>2, LenProperties DEF TableOf

LEMMA TablesGrow ==
  ASSUME TablesInv, [Next]_vars, NEW host
  PROVE  Len(TableOf(host)) <= Len(TableOf(host)')
<1> USE ChainHosts DEF TablesInv, RulesInv
<1>1. Len(clientRecords) \in Nat /\ Len(serverRecords) \in Nat
  BY TablesTyped, HostsOK DEF TableOf
<1>2. Len(clientRecords) <= Len(clientRecords') /\ Len(serverRecords) <= Len(serverRecords')
  <2>1. CASE Agent
    BY <1>1, <2>1, AgentTables, ClientSynTable, ClientAckTable, ServerAddTable,
       ServerAckTable DEF Agent, Keeps
  <2>2. CASE \E k \in Resetters : Operator(k)
    <3>1. PICK k \in Resetters : Operator(k)
      BY <2>2
    <3>2. \A item \in {ToOldBox, FromOldBox} :
            /\ Len(clientRecords) <= Len(DeleteHash(clientRecords, item))
            /\ Len(clientRecords) <= Len(AddHash(clientRecords, item))
      BY <1>1, ClientDeleteTable, ClientAddTable DEF Keeps
    <3>3. Len(serverRecords) <= Len(AddHash(serverRecords, AnswersToOldBox))
      BY ServerAddTable DEF Keeps
    <3> QED BY <1>1, <3>1, <3>2, <3>3, OperatorTables
  <2>3. CASE Traffic \/ UNCHANGED vars
    BY <1>1, <2>3 DEF Traffic, vars, kernelVars, clientVars
  <2> QED BY <2>1, <2>2, <2>3 DEF Next
<1> QED BY <1>2 DEF TableOf

LEMMA DerefTyped ==
  ASSUME NEW t \in Seq(Records \cup {Freed}), NEW i \in 1..Len(t), NEW field \in {"src", "dst"}
  PROVE  Deref(t, i, field) \subseteq Addresses \cup {Zero}
<1>1. t[i] \in Records \cup {Freed}
  BY ElementOfSeq
<1> QED BY <1>1 DEF Deref, Records

(* A packet that moves to what it may be leaves all of them typed.         *)
LEMMA MovesTyped ==
  ASSUME PacketTypes, NEW pk \in Packets, NEW q \in Skbs \cup {None}, Moves(pk, q),
         UNCHANGED <<clientRecords, serverRecords>>,
         q.at \in {"foundOut", "foundIn"} => q.held \in 0..Len(TableOf(q.host))
  PROVE  PacketTypes'
<1>1. skb' = [skb EXCEPT ![pk] = q]
  BY DEF Moves
<1>2. PacketsOK'
  BY <1>1 DEF PacketTypes, PacketsOK
<1>3. HeldInv'
  <2> SUFFICES ASSUME NEW j \in Packets, skb'[j].at \in {"foundOut", "foundIn"}
               PROVE  skb'[j].held \in 0..Len(TableOf(skb'[j].host))
    BY DEF HeldInv, TableOf
  <2>1. skb'[j] = IF j = pk THEN q ELSE skb[j]
    BY <1>1 DEF PacketTypes, PacketsOK
  <2> QED BY <2>1 DEF PacketTypes, HeldInv
<1> QED BY <1>2, <1>3 DEF PacketTypes

LEMMA LookupTyped ==
  ASSUME PacketTypes, TablesInv, UNCHANGED <<clientRecords, serverRecords>>,
         NEW pk \in Packets, NEW host \in Ends, NEW key,
         NEW stage \in Stages, NEW found \in {"foundOut", "foundIn"},
         Lookup(pk, stage, found, host, TableOf(host), key)
  PROVE  PacketTypes'
<1> DEFINE i == HashFind(TableOf(host), key)
           held == IF skb[pk].proto = "TCP" THEN i ELSE Null
           q == [skb[pk] EXCEPT !.at = found, !.held = held]
<1>1. skb[pk] \in Skbs /\ skb[pk].host = host /\ Moves(pk, q)
  BY SkbOfStage DEF Lookup, At, PacketTypes
<1>2. i \in 0..Len(TableOf(host)) /\ Len(TableOf(host)) \in Nat
  <2>1. TableOf(host) \in Seq(Records \cup {Freed}) /\ Len(TableOf(host)) \in Nat
    BY TablesTyped
  <2>2. i # Null => i \in 1..Len(TableOf(host))
    BY <2>1, FindCorrect
  <2> QED BY <2>1, <2>2 DEF Null
<1>3. held \in 0..Len(TableOf(host)) /\ held \in Nat
  BY <1>2 DEF Null
<1> HIDE DEF i, held
<1>4. q \in Skbs /\ q.host = host /\ q.held = held
  BY <1>1, <1>3 DEF Skbs, Stages
<1> QED BY <1>1, <1>3, <1>4, MovesTyped

LEMMA RewriteDstTyped ==
  ASSUME PacketTypes, TablesInv, UNCHANGED <<clientRecords, serverRecords>>,
         NEW pk \in Packets, NEW host \in Ends, RewriteDst(pk, host, TableOf(host))
  PROVE  PacketTypes'
<1> DEFINE p == [skb[pk] EXCEPT !.at = "wire", !.host = "-", !.held = Null]
<1>1. skb[pk] \in Skbs /\ skb[pk].host = host /\ skb[pk].at = "foundOut"
  BY SkbOfStage DEF RewriteDst, At, PacketTypes, Stages
<1>2. p \in Skbs /\ p.at = "wire"
  BY <1>1 DEF Skbs, Stages, Null
<1>3. CASE Moves(pk, p)
  BY <1>2, <1>3, MovesTyped
<1>4. ASSUME skb[pk].held # Null,
             NEW a \in Deref(TableOf(host), skb[pk].held, "dst"),
             Moves(pk, CsumReplace(p, "dst", a))
      PROVE  PacketTypes'
  <2>1. skb[pk].held \in 1..Len(TableOf(host))
    BY <1>1, <1>4, TablesTyped DEF PacketTypes, HeldInv, Null
  <2>2. a \in Addresses \cup {Zero}
    BY <2>1, TablesTyped, DerefTyped
  <2> HIDE DEF p
  <2>3. CsumReplace(p, "dst", a) \in Skbs /\ CsumReplace(p, "dst", a).at = "wire"
    BY <1>2, <2>2, CsumReplaceFields DEF DstReplaced
  <2> QED BY <1>4, <2>3, MovesTyped
<1> QED BY <1>3, <1>4 DEF RewriteDst

LEMMA HandUpTyped ==
  ASSUME NEW p \in Skbs
  PROVE  HandUp(p) \in Skbs /\ HandUp(p).at \in {"delivered", "dropped"}
  BY DEF HandUp, Skbs, Stages, Null

LEMMA RewriteSrcTyped ==
  ASSUME PacketTypes, TablesInv, UNCHANGED <<clientRecords, serverRecords>>,
         NEW pk \in Packets, NEW host \in Ends, RewriteSrc(pk, host, TableOf(host))
  PROVE  PacketTypes'
<1>1. skb[pk] \in Skbs /\ skb[pk].host = host /\ skb[pk].at = "foundIn"
  BY SkbOfStage DEF RewriteSrc, At, PacketTypes, Stages
<1>2. CASE Moves(pk, HandUp(skb[pk]))
  BY <1>1, <1>2, HandUpTyped, MovesTyped
<1>3. ASSUME skb[pk].held # Null,
             NEW a \in Deref(TableOf(host), skb[pk].held, "src"),
             Moves(pk, HandUp([skb[pk] EXCEPT !.src = a]))
      PROVE  PacketTypes'
  <2>1. skb[pk].held \in 1..Len(TableOf(host))
    BY <1>1, <1>3, TablesTyped DEF PacketTypes, HeldInv, Null
  <2>2. a \in Addresses \cup {Zero}
    BY <2>1, TablesTyped, DerefTyped
  <2>3. [skb[pk] EXCEPT !.src = a] \in Skbs
    BY <1>1, <2>2 DEF Skbs
  <2> QED BY <1>3, <2>3, HandUpTyped, MovesTyped
<1> QED BY <1>2, <1>3 DEF RewriteSrc

(* The two rules of a middlebox: for what comes from the client and for    *)
(* what comes from the server.                                             *)
CallsRule(box)   == Record(ToService(Client, Service), box, Server)
AnswersRule(box) == Record(FromSource(Server, Service), box, Client)

LEMMA BoxRules ==
  ASSUME NEW box \in Boxes
  PROVE  /\ BoxRecords(box) = <<CallsRule(box), AnswersRule(box)>>
         /\ BoxRecords(box) \in Seq({CallsRule(box), AnswersRule(box)})
         /\ Len(BoxRecords(box)) = 2
         /\ BoxRecords(box)[1] = CallsRule(box) /\ BoxRecords(box)[2] = AnswersRule(box)
<1> DEFINE a == CallsRule(box)
           b == AnswersRule(box)
<1>1. BoxRecords(box) = <<a, b>>
  BY TwoAdded DEF BoxRecords, CallsRule, AnswersRule
<1> HIDE DEF a, b
<1>2. /\ <<a, b>> \in Seq({a, b}) /\ Len(<<a, b>>) = 2
      /\ <<a, b>>[1] = a /\ <<a, b>>[2] = b
  OBVIOUS
<1> QED BY <1>1, <1>2 DEF a, b

(* A lookup at a middlebox finds none of its rules, or one of the two.     *)
LEMMA BoxLookup ==
  ASSUME NEW box \in Boxes, NEW first, NEW second
  PROVE  LET i == FindEither(BoxRecords(box), first, second)
         IN i # Null => /\ i \in 1..2
                        /\ BoxRecords(box)[i].src = box
                        /\ BoxRecords(box)[i].dst \in Ends
<1>1. \A key : HashFind(BoxRecords(box), key) # Null => HashFind(BoxRecords(box), key) \in 1..2
  BY BoxRules, FindCorrect
<1>2. \A i \in 1..2 : BoxRecords(box)[i].src = box /\ BoxRecords(box)[i].dst \in Ends
  <2>1. CallsRule(box).src = box /\ CallsRule(box).dst = Server
    BY DEF CallsRule, Record
  <2>2. AnswersRule(box).src = box /\ AnswersRule(box).dst = Client
    BY DEF AnswersRule, Record
  <2> QED BY <2>1, <2>2, BoxRules, HostsOK
<1> QED BY <1>1, <1>2 DEF FindEither

LEMMA ForwardTyped ==
  ASSUME PacketTypes, UNCHANGED <<clientRecords, serverRecords>>,
         NEW pk \in Packets, NEW box \in Boxes, Forward(pk, box)
  PROVE  PacketTypes'
<1> DEFINE t == BoxRecords(box)
           p == skb[pk]
           q == IF p.proto = "TCP" THEN PreRouting(p, t) ELSE p
           r == IF p.proto = "TCP" THEN PostRouting(q, t) ELSE q
           sent == [r EXCEPT !.at = "wire", !.host = "-", !.via = @ \cup {box}]
<1>1. p \in Skbs
  BY SkbOfStage DEF Forward, At, PacketTypes, Stages
<1>2. q \in Skbs
  <2>1. PreRouting(p, t) \in Skbs
    <3> DEFINE i == FindEither(t, FromSource(p.src, p.sport), ToService(p.src, p.dport))
    <3>1. PreRouting(p, t) = IF i = Null THEN p ELSE CsumReplace(p, "dst", t[i].dst)
      BY DEF PreRouting
    <3>2. i # Null => t[i].dst \in Addresses \cup {Zero}
      BY BoxLookup, HostsOK
    <3> HIDE DEF i, t, p
    <3> QED BY <1>1, <3>1, <3>2, CsumReplaceFields
  <2> QED BY <1>1, <2>1
<1> HIDE DEF q
<1>3. r \in Skbs
  <2>1. PostRouting(q, t) \in Skbs
    <3> DEFINE i == FindEither(t, ToService(q.src, q.dport), FromSource(q.src, q.sport))
    <3>1. PostRouting(q, t) = IF i = Null THEN q ELSE CsumReplace(q, "src", t[i].src)
      BY DEF PostRouting
    <3>2. i # Null => t[i].src \in Addresses \cup {Zero}
      BY BoxLookup, HostsOK
    <3> HIDE DEF i, t, p
    <3> QED BY <1>2, <3>1, <3>2, CsumReplaceFields
  <2> QED BY <1>2, <2>1
<1>4. Moves(pk, IF q.dst = box THEN [q EXCEPT !.at = "dropped"] ELSE sent)
  BY DEF Forward, q
<1> HIDE DEF r
<1>5. sent \in Skbs /\ sent.at = "wire"
  BY <1>3 DEF Skbs, Stages
<1>6. [q EXCEPT !.at = "dropped"] \in Skbs /\ [q EXCEPT !.at = "dropped"].at = "dropped"
  BY <1>2 DEF Skbs, Stages
<1> HIDE DEF sent
<1> QED BY <1>4, <1>5, <1>6, MovesTyped

LEMMA ArriveTyped ==
  ASSUME PacketTypes, UNCHANGED <<clientRecords, serverRecords>>,
         NEW pk \in Packets, Arrive(pk)
  PROVE  PacketTypes'
<1> DEFINE p == skb[pk]
           sound == ReceiveOffload /\ CsumCovers(p)
           in == [p EXCEPT !.at = "input", !.host = p.dst, !.verified = sound]
<1>1. p \in Skbs
  BY SkbOfStage DEF Arrive, PacketTypes, Stages
<1>2. ASSUME p.dst \in Addresses PROVE in \in Skbs /\ in.at = "input"
  <2>1. sound \in BOOLEAN
    BY DEF CsumCovers
  <2>2. p.dst \in Ends \cup Boxes
    BY <1>2, HostsOK
  <2> HIDE DEF sound, p
  <2> QED BY <1>1, <2>1, <2>2 DEF Skbs, Stages
<1>3. [p EXCEPT !.at = "dropped"] \in Skbs /\ [p EXCEPT !.at = "dropped"].at = "dropped"
  BY <1>1 DEF Skbs, Stages
<1>4. Moves(pk, IF p.dst \in Addresses THEN in ELSE [p EXCEPT !.at = "dropped"])
  BY DEF Arrive
<1> HIDE DEF in, p
<1> QED BY <1>2, <1>3, <1>4, MovesTyped

LEMMA EmitTyped ==
  ASSUME PacketTypes, UNCHANGED <<clientRecords, serverRecords>>,
         NEW pk \in Packets, NEW from \in Ends, NEW to \in Ends,
         NEW sport \in Ports, NEW dport \in Ports, NEW proto \in {"TCP", "UDP"},
         Emit(pk, from, to, sport, dport, proto)
  PROVE  PacketTypes'
<1> DEFINE c == [src |-> from, dst |-> to]
           q == [at |-> "output", host |-> from, proto |-> proto,
                 src |-> from, dst |-> to, sport |-> sport, dport |-> dport,
                 csum |-> c, verified |-> FALSE, sent |-> c, via |-> {}, held |-> Null]
<1>1. Moves(pk, q)
  BY DEF Emit
<1>2. from \in Addresses /\ to \in Addresses
  BY HostsOK
<1>3. /\ c \in [src: Addresses \cup {Zero, "?"}, dst: Addresses \cup {Zero, "?"}]
      /\ c \in [src: Ends, dst: Ends]
  BY <1>2
<1> HIDE DEF c
<1>4. q \in Skbs /\ q.at = "output"
  BY <1>2, <1>3 DEF Skbs, Stages, Null
<1> HIDE DEF q
<1> QED BY <1>1, <1>4, MovesTyped

LEMMA TrafficTyped ==
  ASSUME PacketTypes, TablesInv, Traffic
  PROVE  PacketTypes'
<1>1. PICK pk \in Packets : Talk(pk) \/ Travel(pk) \/ Consume(pk)
  BY DEF Traffic
<1>2. UNCHANGED <<clientRecords, serverRecords>>
  BY DEF Traffic, kernelVars, clientVars
<1>3. /\ Client \in Ends /\ Server \in Ends
      /\ TableOf(Client) = clientRecords /\ TableOf(Server) = serverRecords
  BY HostsOK DEF TableOf
<1>4. /\ "output" \in Stages /\ "input" \in Stages
      /\ "foundOut" \in {"foundOut", "foundIn"} /\ "foundIn" \in {"foundOut", "foundIn"}
  BY DEF Stages
<1>5. CASE Talk(pk)
  <2>1. PICK proto \in {"TCP", "UDP"} :
          \/ Emit(pk, Client, Server, Ephemeral, Service, proto)
          \/ Emit(pk, Server, Client, Service, Ephemeral, proto)
    BY <1>5 DEF Talk
  <2> QED BY <1>2, <1>3, <2>1, HostsOK, EmitTyped
<1>6. CASE ClientOutgoing(pk)
  <2>1. PICK key : \/ Lookup(pk, "output", "foundOut", Client, TableOf(Client), key)
                   \/ RewriteDst(pk, Client, TableOf(Client))
    BY <1>3, <1>6 DEF ClientOutgoing
  <2> QED BY <1>2, <1>3, <1>4, <2>1, LookupTyped, RewriteDstTyped
<1>7. CASE ClientIncoming(pk)
  <2>1. PICK key : \/ Lookup(pk, "input", "foundIn", Client, TableOf(Client), key)
                   \/ RewriteSrc(pk, Client, TableOf(Client))
    BY <1>3, <1>7 DEF ClientIncoming
  <2> QED BY <1>2, <1>3, <1>4, <2>1, LookupTyped, RewriteSrcTyped
<1>8. CASE ServerOutgoing(pk)
  <2>1. PICK key : \/ Lookup(pk, "output", "foundOut", Server, TableOf(Server), key)
                   \/ RewriteDst(pk, Server, TableOf(Server))
    BY <1>3, <1>8 DEF ServerOutgoing
  <2> QED BY <1>2, <1>3, <1>4, <2>1, LookupTyped, RewriteDstTyped
<1>9. CASE ServerIncoming(pk)
  <2>1. PICK key : \/ Lookup(pk, "input", "foundIn", Server, TableOf(Server), key)
                   \/ RewriteSrc(pk, Server, TableOf(Server))
    BY <1>3, <1>9 DEF ServerIncoming
  <2> QED BY <1>2, <1>3, <1>4, <2>1, LookupTyped, RewriteSrcTyped
<1>10. CASE \E box \in Boxes : Forward(pk, box)
  BY <1>2, <1>10, ForwardTyped
<1>11. CASE Arrive(pk)
  BY <1>2, <1>11, ArriveTyped
<1>12. CASE Consume(pk)
  <2>1. Moves(pk, None) /\ None \in Skbs \cup {None} /\ None.at = "none"
    BY <1>12 DEF Consume, None
  <2> HIDE DEF None
  <2> QED BY <1>2, <2>1, MovesTyped
<1> QED BY <1>1, <1>5, <1>6, <1>7, <1>8, <1>9, <1>10, <1>11, <1>12 DEF Travel

LEMMA OthersTyped ==
  ASSUME PacketTypes, TablesInv, [Next]_vars, UNCHANGED skb
  PROVE  PacketTypes'
<1>1. PacketsOK'
  BY DEF PacketTypes, PacketsOK
<1>2. HeldInv'
  <2> SUFFICES ASSUME NEW j \in Packets, skb[j].at \in {"foundOut", "foundIn"}
               PROVE  skb[j].held \in 0..Len(TableOf(skb[j].host)')
    BY DEF HeldInv, TableOf
  <2>1. skb[j].held \in 0..Len(TableOf(skb[j].host))
    BY DEF PacketTypes, HeldInv
  <2>2. Len(TableOf(skb[j].host)) <= Len(TableOf(skb[j].host)')
    BY TablesGrow
  <2>3. Len(TableOf(skb[j].host)) \in Nat /\ Len(TableOf(skb[j].host)') \in Nat
    <3>1. TablesInv'
      BY TablesNext
    <3>2. /\ Len(clientRecords) \in Nat /\ Len(serverRecords) \in Nat
          /\ Len(clientRecords') \in Nat /\ Len(serverRecords') \in Nat
      BY <3>1, LenProperties DEF TablesInv, RulesInv, ClientTable, ServerTable
    <3> QED BY <3>2 DEF TableOf
  <2> QED BY <2>1, <2>2, <2>3
<1> QED BY <1>1, <1>2 DEF PacketTypes

(* Every reachable state of the migration is type-correct, for any number  *)
(* of packets, updates and commands, and in the middle of resets too.      *)
THEOREM MigrationTypes == Spec => []TypeOK
<1>1. Init => PacketTypes
  BY DEF Init, PacketsInit, PacketTypes, PacketsOK, HeldInv, None
<1>2. ASSUME PacketTypes, TablesInv, [Next]_vars PROVE PacketTypes'
  <2>1. CASE Traffic
    BY <1>2, <2>1, TrafficTyped
  <2>2. CASE UNCHANGED skb
    BY <1>2, <2>2, OthersTyped
  <2>3. ASSUME Agent \/ (\E k \in Resetters : Operator(k)) PROVE UNCHANGED skb
    <3>1. ASSUME Agent PROVE UNCHANGED skb
      BY <3>1 DEF Agent, AgentSyn, AgentAck
    <3> QED BY <2>3, <3>1 DEF Operator
  <2> QED BY <1>2, <2>1, <2>2, <2>3 DEF Next, vars
<1>3. ASSUME PacketTypes, TablesInv PROVE TypeOK
  <2>1. TableOK(clientRecords) /\ TableOK(serverRecords)
    BY <1>3, TablesTyped, HostsOK DEF TableOf, TableOK
  <2> QED BY <1>3, <2>1, ChainHosts DEF TypeOK, PacketTypes, TablesInv, ControlOK,
       ClientTypeOK, ServerTypeOK
<1> QED BY <1>1, <1>2, <1>3, TablesCorrect, PTL DEF Spec

-------------------------------------------------------------------------------
(* The tables when no operator resets a rule and no host runs out of       *)
(* memory: nothing is freed, and nobody sends along the new path before    *)
(* both ends have rules for what comes out of the new middlebox.           *)

Quiet == Resetters = {} /\ MayFailAlloc = FALSE

(* Both ends, with the tables c and s, have rules for the new path.        *)
PathReady(c, s) == Has(c, FromNewBox) /\ Has(s, CallsFromNewBox)

QuietInv ==
  /\ NoneFreed(clientRecords)
  /\ Len(clientRecords) # 0
  /\ clientRecords[1] \in {ToOldBox, ToNewBox}
  /\ Has(serverRecords, CallsFromOldBox)
  /\ \A u \in Updates : u \in prepared[1] => Has(serverRecords, CallsFromNewBox)
  /\ clientRecords[1] # ToOldBox \/ serverRecords[1] # AnswersToOldBox =>
       PathReady(clientRecords, serverRecords)

LEMMA QuietInit ==
  ASSUME Init
  PROVE  QuietInv
<1>1. clientRecords = <<ToOldBox, FromOldBox>>
  BY TablesInit
<1>2. serverRecords = <<AnswersToOldBox, CallsFromOldBox>>
  BY TablesInit
<1>3. Len(clientRecords) = 2 /\ clientRecords[1] = ToOldBox /\ clientRecords[2] = FromOldBox
  BY <1>1
<1>4. /\ Len(serverRecords) = 2
      /\ serverRecords[1] = AnswersToOldBox /\ serverRecords[2] = CallsFromOldBox
  BY <1>2
<1>5. ToOldBox # Freed /\ FromOldBox # Freed
  BY FreedIsNoRule, RulesAreRecords DEF ClientRules
<1>6. \A u \in Updates : u \notin prepared[1]
  BY ChainHosts DEF Init, Agents!Init, Agents!Hops
<1> QED BY <1>3, <1>4, <1>5, <1>6 DEF QuietInv, NoneFreed, Has

LEMMA QuietAgent ==
  ASSUME Quiet, TablesInv, QuietInv,
         NEW h \in {1, 2, 3}, NEW u \in Updates, AgentSyn(h, u) \/ AgentAck(h, u)
  PROVE  QuietInv'
<1> DEFINE c == clientRecords
           s == serverRecords
<1> USE ChainHosts DEF QuietInv
<1>1. ClientTable(c) /\ ServerTable(s) /\ Len(c) \in Nat /\ Len(s) \in Nat
      /\ prepared \in [1..3 -> SUBSET Updates]
  BY LenProperties DEF TablesInv, RulesInv, ClientTable, ServerTable, ControlOK
<1>2. 1 \in 1..Len(c) /\ 1 \in 1..Len(s)
  BY <1>1 DEF ServerTable
<1>3. CASE AgentSyn(h, u)
  <2>1. prepared' = [prepared EXCEPT ![h] = @ \cup {u}]
    BY <1>3 DEF AgentSyn, Agents!Prepare
  <2>2. CASE h = 3
    <3>1. c' = HashAdd(c, FromNewBox) /\ s' = s
      BY <1>3, <2>2 DEF AgentSyn, ClientSyn
    <3>2. UNCHANGED prepared[1]
      BY <1>1, <2>1, <2>2
    <3>3. /\ Keeps(c, ToOldBox.key, ToNewBox, c') /\ NoneFreed(c')
          /\ Has(c', FromNewBox) /\ ClientTable(c')
          /\ \A i \in 1..Len(c) : c'[i] = c[i]
      BY <1>1, <3>1, ClientSynTable
    <3>4. c'[1] = c[1] /\ Len(c') # 0
      BY <1>1, <1>2, <3>3, LenProperties DEF Keeps, ClientTable
    <3> QED BY <3>1, <3>2, <3>3, <3>4 DEF PathReady
  <2>3. CASE h = 1
    <3>1. c' = c /\ s' = AddHash(s, CallsFromNewBox)
      BY <1>3, <2>3 DEF AgentSyn, ServerSyn, ReplyNotAllocated, clientVars, Quiet
    <3>2. /\ s'[1] = s[1] /\ Has(s', CallsFromNewBox)
          /\ Has(s', CallsFromOldBox)
      BY <1>1, <3>1, ServerAddTable
    <3> QED BY <3>1, <3>2 DEF PathReady
  <2>4. CASE h = 2
    <3>1. c' = c /\ s' = s
      BY <1>3, <2>4 DEF AgentSyn, kernelVars, clientVars
    <3>2. UNCHANGED prepared[1]
      BY <1>1, <2>1, <2>4
    <3> QED BY <3>1, <3>2
  <2> QED BY <2>2, <2>3, <2>4
<1>4. CASE AgentAck(h, u)
  <2>1. UNCHANGED prepared /\ u \in prepared[3] /\ u \in prepared[1]
    BY <1>4 DEF AgentAck, Agents!CommitTo, Agents!Hops
  <2>2. PathReady(c, s)
    BY <2>1 DEF PathReady, TablesInv, RulesInv
  <2>3. CASE h = 3
    <3>1. c' = SetDst(c, ToAddress(Server, Service), NewBox) /\ s' = s
      BY <1>4, <2>3 DEF AgentAck, ClientAck
    <3>2. /\ Keeps(c, ToOldBox.key, ToNewBox, c') /\ NoneFreed(c')
          /\ Has(c', FromNewBox) /\ ClientTable(c')
      BY <1>1, <2>2, <3>1, ClientAckTable DEF PathReady
    <3>3. c'[1] \in {ToOldBox, ToNewBox}
      BY <1>2, <3>2 DEF Keeps
    <3>4. Len(c') # 0
      BY <1>1, <3>2, LenProperties DEF Keeps, ClientTable
    <3> QED BY <2>1, <2>2, <3>1, <3>2, <3>3, <3>4 DEF PathReady
  <2>4. CASE h = 1
    <3>1. c' = c /\ s' \in {s, SetDst(s, BackTo(Client, Service), NewBox)}
      BY <1>4, <2>4 DEF AgentAck, ServerAck, ReplyNotAllocated, clientVars
    <3>2. Has(s', CallsFromNewBox) /\ Has(s', CallsFromOldBox)
      BY <1>1, <2>2, <3>1, ServerAckTable DEF PathReady
    <3> QED BY <2>1, <2>2, <3>1, <3>2 DEF PathReady
  <2>5. CASE h = 2
    <3>1. c' = c /\ s' = s
      BY <1>4, <2>5 DEF AgentAck, kernelVars, clientVars
    <3> QED BY <2>1, <3>1
  <2> QED BY <2>3, <2>4, <2>5
<1> QED BY <1>3, <1>4

LEMMA QuietNext ==
  ASSUME Quiet, TablesInv, QuietInv, [Next]_vars
  PROVE  QuietInv'
<1>1. CASE Agent
  BY <1>1, QuietAgent, ChainHosts DEF Agent
<1>2. CASE Traffic \/ UNCHANGED vars
  <2>1. UNCHANGED <<clientRecords, serverRecords, prepared>>
    BY <1>2 DEF Traffic, vars, kernelVars, clientVars, agentVars
  <2> QED BY <2>1 DEF QuietInv
<1> QED BY <1>1, <1>2 DEF Next, Quiet

-------------------------------------------------------------------------------
(* Where a packet that an end e has sent can be, and what it then looks    *)
(* like, with the tables c and s of the client and the server.             *)

Peer(e)   == IF e = Client THEN Server ELSE Client
PortOf(e) == IF e = Client THEN Ephemeral ELSE Service

Table(e, c, s) == IF e = Client THEN c ELSE s

(* The keys under which e looks up what it sends, and what comes to it out *)
(* of a middlebox, and its rule for the latter.                            *)
OutKey(e)     == IF e = Client THEN ToAddress(Server, Service) ELSE BackTo(Client, Service)
InKey(e, box) == IF e = Client THEN FromSource(box, Service) ELSE ToService(box, Service)
InRule(e, box) == Record(InKey(e, box), Peer(e), Zero)

SentBy(p, e) ==
  /\ p.sent = [src |-> e, dst |-> Peer(e)]
  /\ p.sport = PortOf(e) /\ p.dport = PortOf(Peer(e))

Covers(p, src, dst) ==
  p.src = src /\ p.dst = dst /\ p.csum.src = src /\ p.csum.dst = dst

(* A segment on the leg from e to the middlebox, or from there to the peer.*)
FirstLeg(p, e, box)  == Covers(p, e, box) /\ p.via = {}
SecondLeg(p, e, box) == Covers(p, box, Peer(e)) /\ p.via = {box}

Usable(box, c, s) == box = NewBox => PathReady(c, s)

(* Only without the cards' verification is a segment dropped at its end:   *)
(* the hook that gives it its source back leaves the checksum as it is.    *)
Verified(p) == ReceiveOffload = TRUE => p.verified

Segment(p, e, c, s) ==
  \/ p.at = "output" /\ p.host = e /\ Covers(p, e, Peer(e)) /\ p.via = {}
  \/ p.at = "foundOut" /\ p.host = e /\ Covers(p, e, Peer(e)) /\ p.via = {} /\ p.held = 1
  \/ \E box \in Boxes :
       /\ Usable(box, c, s)
       /\ \/ p.at = "wire" /\ FirstLeg(p, e, box)
          \/ p.at = "input" /\ p.host = box /\ FirstLeg(p, e, box)
          \/ p.at = "wire" /\ SecondLeg(p, e, box)
          \/ p.at = "input" /\ p.host = Peer(e) /\ SecondLeg(p, e, box) /\ Verified(p)
          \/ /\ p.at = "foundIn" /\ p.host = Peer(e) /\ SecondLeg(p, e, box) /\ Verified(p)
             /\ p.held \in 1..Len(Table(Peer(e), c, s))
             /\ Table(Peer(e), c, s)[p.held] = InRule(Peer(e), box)
          \/ /\ p.at = "delivered" /\ p.host = Peer(e)
             /\ p.src = e /\ p.dst = Peer(e) /\ p.via = {box}
          \/ p.at = "dropped" /\ ReceiveOffload # TRUE

Datagram(p, e) ==
  /\ Covers(p, e, Peer(e)) /\ p.via = {}
  /\ \/ p.at \in {"output", "foundOut"} /\ p.host = e
     \/ p.at = "wire"
     \/ p.at \in {"input", "foundIn", "delivered"} /\ p.host = Peer(e)
  /\ p.at \in {"foundOut", "foundIn"} => p.held = Null

Travels(p, e, c, s) ==
  /\ p \in Skbs /\ SentBy(p, e)
  /\ \/ p.proto = "TCP" /\ Segment(p, e, c, s)
     \/ p.proto = "UDP" /\ Datagram(p, e)

Good(p, c, s) == p = None \/ \E e \in Ends : Travels(p, e, c, s)

GoodInv == \A pk \in Packets : Good(skb[pk], clientRecords, serverRecords)

LEMMA EndFacts ==
  ASSUME NEW e \in Ends
  PROVE  /\ Peer(e) \in Ends /\ Peer(e) # e /\ Peer(Peer(e)) = e
         /\ e \notin Boxes /\ PortOf(e) \in Ports
         /\ \A f \in Ends : f = e \/ f = Peer(e)
  BY HostsOK DEF Peer, PortOf

LEMMA TableIsTableOf ==
  ASSUME NEW e
  PROVE  Table(e, clientRecords, serverRecords) = TableOf(e)
  BY DEF Table, TableOf

(* An end finds the rule for what it sends, which names a middlebox that   *)
(* is in use.                                                              *)
LEMMA OutFound ==
  ASSUME TablesInv, QuietInv, NEW e \in Ends
  PROVE  /\ HashFind(TableOf(e), OutKey(e)) = 1
         /\ TableOf(e)[1] # Freed
         /\ TableOf(e)[1].dst \in Boxes
         /\ Usable(TableOf(e)[1].dst, clientRecords, serverRecords)
<1> USE DEF TableOf, OutKey, Usable
<1>1. CASE e = Client
  <2> DEFINE c == clientRecords
  <2>1. c \in Seq(ClientRules \cup {Freed}) /\ Len(c) \in Nat /\ 1 \in 1..Len(c)
    BY LenProperties DEF TablesInv, RulesInv, ClientTable, QuietInv
  <2>2. c[1] \in {ToOldBox, ToNewBox} /\ c[1] # Freed
    BY <2>1 DEF QuietInv, NoneFreed
  <2>3. c[1].key = ToAddress(Server, Service)
    BY <2>2, ClientRuleKeys
  <2>4. HashFind(c, ToAddress(Server, Service)) # Null
    BY <2>1, <2>3, FindCorrect
  <2>5. /\ HashFind(c, ToAddress(Server, Service)) \in 1..Len(c)
        /\ c[HashFind(c, ToAddress(Server, Service))].key = ToAddress(Server, Service)
    BY <2>1, <2>4, FindCorrect, Zenon
  <2>6. HashFind(c, ToAddress(Server, Service)) = 1
    BY <2>1, <2>3, <2>5, ClientRuleKeys DEF TablesInv, RulesInv, ClientTable
  <2>7. c[1].dst \in Boxes /\ (c[1].dst = NewBox => c[1] # ToOldBox)
    BY <2>2, ClientRuleKeys, HostsOK
  <2> QED BY <1>1, <2>2, <2>6, <2>7 DEF QuietInv
<1>2. CASE e = Server
  <2> DEFINE s == serverRecords
  <2>1. /\ HashFind(s, BackTo(Client, Service)) = 1
        /\ s[1] \in {AnswersToOldBox, AnswersToNewBox}
    BY ServerAnswers DEF TablesInv, RulesInv
  <2>2. s[1] # Freed
    BY <2>1, FreedIsNoRule, RulesAreRecords DEF ServerRules
  <2>3. s[1].dst \in Boxes /\ (s[1].dst = NewBox => s[1] # AnswersToOldBox)
    BY <2>1, ServerRuleKeys, HostsOK
  <2> QED BY <1>2, <2>1, <2>2, <2>3, HostsOK DEF QuietInv
<1> QED BY <1>1, <1>2, HostsOK

LEMMA InRules ==
  /\ InRule(Client, OldBox) = FromOldBox /\ InRule(Client, NewBox) = FromNewBox
  /\ InRule(Server, OldBox) = CallsFromOldBox /\ InRule(Server, NewBox) = CallsFromNewBox
  /\ \A e \in Ends, box \in Boxes : /\ InRule(e, box).key = InKey(e, box)
                                    /\ InRule(e, box).src = Peer(e)
                                    /\ InRule(e, box) # Freed
<1>1. /\ InRule(Client, OldBox) = FromOldBox /\ InRule(Client, NewBox) = FromNewBox
      /\ InRule(Server, OldBox) = CallsFromOldBox /\ InRule(Server, NewBox) = CallsFromNewBox
  BY HostsOK DEF InRule, InKey, Peer, FromOldBox, FromNewBox, CallsFromOldBox, CallsFromNewBox
<1>2. \A e \in Ends, box \in Boxes :
        InRule(e, box).key = InKey(e, box) /\ InRule(e, box).src = Peer(e)
  BY DEF InRule, Record
<1>3. \A e \in Ends, box \in Boxes : InRule(e, box) # Freed
  BY <1>1, FreedIsNoRule, RulesAreRecords, HostsOK DEF ClientRules, ServerRules
<1> QED BY <1>1, <1>2, <1>3

(* An end finds its rule for what comes out of a middlebox that is in use. *)
LEMMA InFound ==
  ASSUME Quiet, TablesInv, QuietInv, NEW e \in Ends, NEW box \in Boxes,
         Usable(box, clientRecords, serverRecords)
  PROVE  LET i == HashFind(TableOf(e), InKey(e, box))
         IN /\ i \in 1..Len(TableOf(e))
            /\ TableOf(e)[i] = InRule(e, box)
<1> DEFINE i == HashFind(TableOf(e), InKey(e, box))
<1>1. Has(TableOf(e), InRule(e, box))
  <2>1. Has(clientRecords, FromOldBox)
    BY DEF TablesInv, RulesInv, Quiet
  <2> QED BY <2>1, InRules, HostsOK DEF TableOf, QuietInv, Usable, PathReady
<1>2. TableOf(e) \in Seq(Records \cup {Freed})
  BY TablesTyped
<1>3. i # Null
  BY <1>1, <1>2, HasFound, InRules
<1>4. i \in 1..Len(TableOf(e)) /\ TableOf(e)[i].key = InKey(e, box)
  BY <1>2, <1>3, FindCorrect, Zenon
<1>5. TableOf(e)[i] = InRule(e, box)
  <2>1. CASE e = Client
    <3>1. TableOf(e)[i] \in ClientRules \cup {Freed}
      BY <1>4, <2>1, ElementOfSeq DEF TablesInv, RulesInv, ClientTable, TableOf
    <3> QED BY <1>4, <2>1, <3>1, ClientRuleKinds, InRules, HostsOK
  <2>2. CASE e = Server
    <3>1. TableOf(e)[i] \in ServerRules
      BY <1>4, <2>2, HostsOK, ElementOfSeq DEF TablesInv, RulesInv, ServerTable, TableOf
    <3> QED BY <1>4, <2>2, <3>1, ServerRuleKinds, InRules, HostsOK
  <2> QED BY <2>1, <2>2, HostsOK
<1> QED BY <1>4, <1>5

-------------------------------------------------------------------------------
(* Each step of a packet leaves it as it may be.                           *)

Calm == Quiet /\ TablesInv /\ QuietInv /\ GoodInv /\ UNCHANGED <<clientRecords, serverRecords>>

Now(q)  == Good(q, clientRecords, serverRecords)

LEMMA MovesGood ==
  ASSUME Calm, NEW pk \in Packets, NEW q, Moves(pk, q), Now(q), PacketsOK
  PROVE  GoodInv'
<1>1. skb' = [skb EXCEPT ![pk] = q]
  BY DEF Moves
<1> SUFFICES ASSUME NEW j \in Packets
             PROVE  Good(skb'[j], clientRecords, serverRecords)
  BY DEF GoodInv, Calm
<1>2. skb'[j] = IF j = pk THEN q ELSE skb[j]
  BY <1>1 DEF PacketsOK
<1> QED BY <1>2 DEF Calm, GoodInv, Now

(* Who sent a packet that is at an end, and which leg it is on.            *)
LEMMA SentFrom ==
  ASSUME Calm, NEW pk \in Packets, skb[pk].at \in Stages
  PROVE  \E e \in Ends : Travels(skb[pk], e, clientRecords, serverRecords)
<1>1. skb[pk] # None
  BY DEF None, Stages
<1> QED BY <1>1 DEF Calm, GoodInv, Good

LEMMA AtOutput ==
  ASSUME NEW p, NEW e \in Ends, NEW host \in Ends, NEW c, NEW s,
         Travels(p, e, c, s), p.at \in {"output", "foundOut"}, p.host = host
  PROVE  /\ e = host /\ Covers(p, e, Peer(e)) /\ p.via = {}
         /\ p.at = "foundOut" => p.held = IF p.proto = "TCP" THEN 1 ELSE Null
  BY EndFacts DEF Travels, Segment, Datagram

LEMMA OutputLookupGood ==
  ASSUME Calm, PacketsOK, NEW pk \in Packets, NEW host \in Ends, NEW key,
         Lookup(pk, "output", "foundOut", host, TableOf(host), key),
         SentBy(skb[pk], host) /\ skb[pk].dst = Peer(host) => key = OutKey(host)
  PROVE  GoodInv'
<1> DEFINE p == skb[pk]
           held == IF p.proto = "TCP" THEN HashFind(TableOf(host), key) ELSE Null
           q == [p EXCEPT !.at = "foundOut", !.held = held]
<1>1. p.at = "output" /\ p.host = host /\ Moves(pk, q)
  BY DEF Lookup, At
<1>2. PICK e \in Ends : Travels(p, e, clientRecords, serverRecords)
  BY <1>1, SentFrom DEF Stages
<1>3. e = host /\ Covers(p, e, Peer(e)) /\ p.via = {} /\ p \in Skbs /\ SentBy(p, e)
  BY <1>1, <1>2, AtOutput DEF Travels
<1>4. held = IF p.proto = "TCP" THEN 1 ELSE Null
  BY <1>3, OutFound DEF Calm, Covers
<1> HIDE DEF held
<1>5. /\ q \in Skbs /\ q.at = "foundOut" /\ q.host = e /\ q.held = held
      /\ q.proto = p.proto /\ q.via = p.via
  BY <1>1, <1>3, <1>4 DEF Skbs, Stages, Null
<1>6. SentBy(q, e) /\ Covers(q, e, Peer(e))
  BY <1>3 DEF SentBy, Covers, Skbs
<1> HIDE DEF q, p
<1>7. q.proto \in {"TCP", "UDP"}
  BY <1>5, SkbFields
<1>8. Travels(q, e, clientRecords, serverRecords)
  BY <1>3, <1>4, <1>5, <1>6, <1>7 DEF Travels, Segment, Datagram
<1> QED BY <1>1, <1>8, MovesGood DEF Now, Good

LEMMA OutputRewriteGood ==
  ASSUME Calm, PacketsOK, NEW pk \in Packets, NEW host \in Ends,
         RewriteDst(pk, host, TableOf(host))
  PROVE  GoodInv'
<1> DEFINE p == skb[pk]
           q == [p EXCEPT !.at = "wire", !.host = "-", !.held = Null]
<1>1. p.at = "foundOut" /\ p.host = host
  BY DEF RewriteDst, At
<1>2. PICK e \in Ends : Travels(p, e, clientRecords, serverRecords)
  BY <1>1, SentFrom DEF Stages
<1>3. /\ e = host /\ Covers(p, e, Peer(e)) /\ p.via = {} /\ p \in Skbs /\ SentBy(p, e)
      /\ p.held = IF p.proto = "TCP" THEN 1 ELSE Null
  BY <1>1, <1>2, AtOutput DEF Travels
<1>4. q \in Skbs /\ q.at = "wire" /\ q.proto = p.proto /\ q.via = {}
  BY <1>3 DEF Skbs, Stages, Null
<1>5. SentBy(q, e) /\ Covers(q, e, Peer(e))
  BY <1>3 DEF SentBy, Covers, Skbs
<1>6. CASE p.proto = "UDP"
  <2>1. Moves(pk, q)
    BY <1>3, <1>6 DEF RewriteDst
  <2> HIDE DEF q, p
  <2>2. Travels(q, e, clientRecords, serverRecords)
    BY <1>4, <1>5, <1>6 DEF Travels, Datagram
  <2> QED BY <2>1, <2>2, MovesGood DEF Now, Good
<1>7. CASE p.proto = "TCP"
  <2> DEFINE box == TableOf(host)[1].dst
             r == CsumReplace(q, "dst", box)
  <2>1. Moves(pk, r)
    <3>1. p.held = 1 /\ p.held # Null
      BY <1>3, <1>7 DEF Null
    <3>2. Deref(TableOf(host), 1, "dst") = {box}
      BY OutFound DEF Deref, Calm
    <3> QED BY <3>1, <3>2 DEF RewriteDst
  <2>2. box \in Boxes /\ Usable(box, clientRecords, serverRecords)
    BY OutFound DEF Calm
  <2> HIDE DEF box, q, p
  <2>3. r \in Skbs /\ DstReplaced(q, box, r)
    BY <1>4, <2>2, HostsOK, CsumReplaceFields
  <2> HIDE DEF r
  <2>4. SentBy(r, e) /\ FirstLeg(r, e, box) /\ r.at = "wire" /\ r.proto = "TCP"
    BY <1>4, <1>5, <1>7, <2>3 DEF DstReplaced, SentBy, FirstLeg, Covers
  <2>5. Travels(r, e, clientRecords, serverRecords)
    BY <2>2, <2>3, <2>4 DEF Travels, Segment
  <2> QED BY <2>1, <2>5, MovesGood DEF Now, Good
<1> QED BY <1>3, <1>6, <1>7, SkbFields

LEMMA AtInput ==
  ASSUME NEW p, NEW e \in Ends, NEW host \in Ends, NEW c, NEW s,
         Travels(p, e, c, s), p.at = "input", p.host = host
  PROVE  /\ host = Peer(e)
         /\ p.proto = "UDP" => Covers(p, e, host) /\ p.via = {}
         /\ p.proto = "TCP" => \E box \in Boxes :
              Usable(box, c, s) /\ SecondLeg(p, e, box) /\ Verified(p)
  BY EndFacts DEF Travels, Segment, Datagram

LEMMA InputLookupGood ==
  ASSUME Calm, PacketsOK, NEW pk \in Packets, NEW host \in Ends, NEW key,
         Lookup(pk, "input", "foundIn", host, TableOf(host), key),
         \A box \in Boxes :
           SentBy(skb[pk], Peer(host)) /\ skb[pk].src = box => key = InKey(host, box)
  PROVE  GoodInv'
<1> DEFINE p == skb[pk]
           held == IF p.proto = "TCP" THEN HashFind(TableOf(host), key) ELSE Null
           q == [p EXCEPT !.at = "foundIn", !.held = held]
<1>1. p.at = "input" /\ p.host = host /\ Moves(pk, q)
  BY DEF Lookup, At
<1>2. PICK e \in Ends : Travels(p, e, clientRecords, serverRecords)
  BY <1>1, SentFrom DEF Stages
<1>3. p \in Skbs /\ SentBy(p, e) /\ host = Peer(e) /\ Peer(host) = e
  BY <1>1, <1>2, AtInput, EndFacts DEF Travels
<1>4. held \in Nat
  <2>1. TableOf(host) \in Seq(Records \cup {Freed}) /\ Len(TableOf(host)) \in Nat
    BY TablesTyped DEF Calm
  <2>2. HashFind(TableOf(host), key) # Null =>
          HashFind(TableOf(host), key) \in 1..Len(TableOf(host))
    BY <2>1, FindCorrect
  <2> QED BY <2>1, <2>2 DEF Null
<1>5. CASE p.proto = "UDP"
  <2>1. Covers(p, e, host) /\ p.via = {}
    BY <1>1, <1>2, <1>5, AtInput
  <2>2. held = Null
    BY <1>5
  <2> HIDE DEF held
  <2>3. /\ q \in Skbs /\ q.at = "foundIn" /\ q.host = host /\ q.held = Null
        /\ q.proto = "UDP" /\ q.via = {}
    BY <1>1, <1>3, <1>4, <1>5, <2>1, <2>2 DEF Skbs, Stages
  <2>4. SentBy(q, e) /\ Covers(q, e, host)
    BY <1>3, <2>1 DEF SentBy, Covers, Skbs
  <2> HIDE DEF q, p
  <2>5. Travels(q, e, clientRecords, serverRecords)
    BY <1>3, <2>3, <2>4 DEF Travels, Datagram
  <2> QED BY <1>1, <2>5, MovesGood DEF Now, Good
<1>6. CASE p.proto = "TCP"
  <2>1. PICK box \in Boxes : /\ Usable(box, clientRecords, serverRecords)
                             /\ SecondLeg(p, e, box) /\ Verified(p)
    BY <1>1, <1>2, <1>6, AtInput
  <2>2. key = InKey(host, box)
    BY <1>3, <2>1 DEF SecondLeg, Covers
  <2>3. held \in 1..Len(TableOf(host)) /\ TableOf(host)[held] = InRule(host, box)
    BY <1>6, <2>1, <2>2, InFound DEF Calm
  <2> HIDE DEF held
  <2>4. /\ q \in Skbs /\ q.at = "foundIn" /\ q.host = host /\ q.held = held
        /\ q.proto = "TCP" /\ q.via = {box} /\ q.verified = p.verified
    BY <1>1, <1>3, <1>4, <1>6, <2>1 DEF Skbs, Stages, SecondLeg
  <2>5. SentBy(q, e) /\ SecondLeg(q, e, box)
    BY <1>3, <2>1 DEF SentBy, SecondLeg, Covers, Skbs
  <2> HIDE DEF q, p
  <2>6. /\ q.held \in 1..Len(Table(Peer(e), clientRecords, serverRecords))
        /\ Table(Peer(e), clientRecords, serverRecords)[q.held] = InRule(Peer(e), box)
    BY <1>3, <2>3, <2>4, TableIsTableOf
  <2>7. Segment(q, e, clientRecords, serverRecords)
    BY <1>3, <2>1, <2>4, <2>5, <2>6 DEF Segment, Verified
  <2>8. Travels(q, e, clientRecords, serverRecords)
    BY <2>4, <2>5, <2>7 DEF Travels
  <2> QED BY <1>1, <2>8, MovesGood DEF Now, Good
<1> QED BY <1>3, <1>5, <1>6, SkbFields

HoldsRule(p, e, host, c, s) ==
  \E box \in Boxes :
    /\ Usable(box, c, s) /\ SecondLeg(p, e, box) /\ Verified(p)
    /\ p.held \in 1..Len(Table(host, c, s))
    /\ Table(host, c, s)[p.held] = InRule(host, box)

LEMMA AtFoundIn ==
  ASSUME NEW p, NEW e \in Ends, NEW host \in Ends, NEW c, NEW s,
         Travels(p, e, c, s), p.at = "foundIn", p.host = host
  PROVE  /\ host = Peer(e)
         /\ p.proto = "UDP" => Covers(p, e, host) /\ p.via = {} /\ p.held = Null
         /\ p.proto = "TCP" => HoldsRule(p, e, host, c, s)
  BY EndFacts DEF Travels, Segment, Datagram, HoldsRule

LEMMA InputRewriteGood ==
  ASSUME Calm, PacketsOK, NEW pk \in Packets, NEW host \in Ends,
         RewriteSrc(pk, host, TableOf(host))
  PROVE  GoodInv'
<1> DEFINE p == skb[pk]
<1>1. p.at = "foundIn" /\ p.host = host
  BY DEF RewriteSrc, At
<1>2. PICK e \in Ends : Travels(p, e, clientRecords, serverRecords)
  BY <1>1, SentFrom DEF Stages
<1>3. p \in Skbs /\ SentBy(p, e) /\ host = Peer(e) /\ Peer(host) = e
  BY <1>1, <1>2, AtFoundIn, EndFacts DEF Travels
<1>4. CASE p.proto = "UDP"
  <2>1. Covers(p, e, host) /\ p.via = {} /\ p.held = Null
    BY <1>1, <1>2, <1>4, AtFoundIn
  <2>2. Moves(pk, HandUp(p))
    BY <2>1 DEF RewriteSrc
  <2>3. CsumCovers(p)
    BY <1>3, <2>1 DEF CsumCovers, Covers, Skbs
  <2>4. HandUp(p) = [p EXCEPT !.at = "delivered", !.held = Null]
    BY <2>3 DEF HandUp
  <2> DEFINE q == [p EXCEPT !.at = "delivered", !.held = Null]
  <2>5. /\ q \in Skbs /\ q.at = "delivered" /\ q.host = host /\ q.proto = "UDP"
        /\ q.via = {}
    BY <1>1, <1>3, <1>4, <2>1 DEF Skbs, Stages, Null
  <2>6. SentBy(q, e) /\ Covers(q, e, host)
    BY <1>3, <2>1 DEF SentBy, Covers, Skbs
  <2> HIDE DEF q, p
  <2>7. Travels(q, e, clientRecords, serverRecords)
    BY <1>3, <2>5, <2>6 DEF Travels, Datagram
  <2> QED BY <2>2, <2>4, <2>7, MovesGood DEF Now, Good, q
<1>5. CASE p.proto = "TCP"
  <2>1. PICK box \in Boxes :
          /\ Usable(box, clientRecords, serverRecords)
          /\ SecondLeg(p, e, box) /\ Verified(p)
          /\ p.held \in 1..Len(TableOf(host))
          /\ TableOf(host)[p.held] = InRule(host, box)
    <3>1. Table(host, clientRecords, serverRecords) = TableOf(host)
      BY TableIsTableOf
    <3>2. HoldsRule(p, e, host, clientRecords, serverRecords)
      BY <1>1, <1>2, <1>5, AtFoundIn
    <3> QED BY <3>1, <3>2 DEF HoldsRule
  <2> DEFINE r == [p EXCEPT !.src = e]
             q == HandUp(r)
  <2>2. Moves(pk, HandUp(r))
    <3>1. p.held # Null
      BY <2>1, TablesTyped DEF Null, Calm
    <3>2. Deref(TableOf(host), p.held, "src") = {e}
      BY <1>3, <2>1, InRules DEF Deref
    <3> QED BY <3>1, <3>2 DEF RewriteSrc
  <2>3. r \in Skbs /\ Verified(r)
    BY <1>3, <2>1, HostsOK DEF Skbs, Verified
  <2>4. /\ q \in Skbs
        /\ q.at \in {"delivered", "dropped"}
        /\ q.at = "dropped" => ReceiveOffload # TRUE
    <3>1. q.at \in {"delivered", "dropped"} /\ (q.at = "dropped" => ~r.verified)
      BY <2>3 DEF HandUp, Skbs
    <3> QED BY <2>3, <3>1, HandUpTyped DEF Verified
  <2>5. /\ q.host = host /\ q.proto = "TCP"
        /\ q.via = {box} /\ q.src = e /\ q.dst = host
    BY <1>1, <1>3, <1>5, <2>1, <2>3 DEF HandUp, Skbs, SecondLeg, Covers
  <2>6. SentBy(q, e)
    BY <1>3, <2>3 DEF HandUp, SentBy, Skbs
  <2> HIDE DEF q, r, p
  <2>7. Segment(q, e, clientRecords, serverRecords)
    BY <1>3, <2>1, <2>4, <2>5 DEF Segment
  <2>8. Travels(q, e, clientRecords, serverRecords)
    BY <2>4, <2>5, <2>6, <2>7 DEF Travels
  <2>9. Moves(pk, q)
    BY <2>2 DEF q
  <2>10. Now(q)
    BY <2>8 DEF Now, Good
  <2> QED BY <2>9, <2>10, MovesGood
<1> QED BY <1>3, <1>4, <1>5, SkbFields

(* A middlebox finds its rule for what an end sends, in whichever order it *)
(* looks the two keys up.                                                  *)
LEMMA BoxFound ==
  ASSUME NEW box \in Boxes, NEW e \in Ends
  PROVE  LET t      == BoxRecords(box)
             bySource == FromSource(e, PortOf(e))
             byService == ToService(e, PortOf(Peer(e)))
         IN /\ FindEither(t, bySource, byService) # Null
            /\ FindEither(t, byService, bySource) # Null
            /\ t[FindEither(t, bySource, byService)].dst = Peer(e)
            /\ t[FindEither(t, byService, bySource)].src = box
<1> DEFINE t == BoxRecords(box)
           bySource == FromSource(e, PortOf(e))
           byService == ToService(e, PortOf(Peer(e)))
<1>1. /\ t \in Seq({CallsRule(box), AnswersRule(box)}) /\ Len(t) = 2
      /\ t[1] = CallsRule(box) /\ t[2] = AnswersRule(box)
  BY BoxRules
<1>2. /\ t[1].key = ToService(Client, Service) /\ t[1].src = box /\ t[1].dst = Server
      /\ t[2].key = FromSource(Server, Service) /\ t[2].src = box /\ t[2].dst = Client
  BY <1>1 DEF CallsRule, AnswersRule, Record
<1> HIDE DEF t
<1>3. ASSUME NEW key
      PROVE  /\ key = t[1].key /\ key # t[2].key => HashFind(t, key) = 1
             /\ key = t[2].key /\ key # t[1].key => HashFind(t, key) = 2
             /\ key # t[1].key /\ key # t[2].key => HashFind(t, key) = Null
  <2> DEFINE i == HashFind(t, key)
  <2>1. t \in Seq({CallsRule(box), AnswersRule(box)})
    BY <1>1
  <2>2. /\ i = Null => \A j \in 1..Len(t) : t[j].key # key
        /\ i # Null => i \in 1..Len(t) /\ t[i].key = key
    BY ONLY <2>1, FindCorrect
  <2> HIDE DEF i
  <2>3. Len(t) = 2
    BY <1>1
  <2>4. /\ i = Null => t[1].key # key /\ t[2].key # key
        /\ i # Null => i \in {1, 2} /\ t[i].key = key
    BY ONLY <2>2, <2>3
  <2> QED BY <2>4 DEF i
<1>4. ToService(Client, Service) # FromSource(Server, Service)
  BY DEF ToService, FromSource, ZeroKey, Zero, Client, Server, Service
<1>5. CASE e = Client
  <2>1. byService = t[1].key /\ byService # t[2].key
    BY <1>2, <1>4, <1>5, HostsOK DEF PortOf, Peer
  <2>2. bySource # t[1].key /\ bySource # t[2].key
    BY <1>2, <1>5 DEF PortOf, FromSource, ToService, ZeroKey, Zero, Client, Server,
       Service, Ephemeral
  <2>3. HashFind(t, byService) = 1 /\ HashFind(t, bySource) = Null
    BY <1>3, <2>1, <2>2
  <2> QED BY <1>2, <1>5, <2>3 DEF FindEither, Null, Peer, t
<1>6. CASE e = Server
  <2>1. bySource = t[2].key /\ bySource # t[1].key
    BY <1>2, <1>4, <1>6, HostsOK DEF PortOf, Peer
  <2>2. byService # t[1].key /\ byService # t[2].key
    BY <1>2, <1>6 DEF PortOf, Peer, FromSource, ToService, ZeroKey, Zero, Client, Server,
       Service, Ephemeral
  <2>3. HashFind(t, bySource) = 2 /\ HashFind(t, byService) = Null
    BY <1>3, <2>1, <2>2
  <2> QED BY <1>2, <1>6, <2>3, HostsOK DEF FindEither, Null, Peer, t
<1> QED BY <1>5, <1>6, HostsOK DEF t

LEMMA ForwardGood ==
  ASSUME Calm, PacketsOK, NEW pk \in Packets, NEW box \in Boxes, Forward(pk, box)
  PROVE  GoodInv'
<1> DEFINE t == BoxRecords(box)
           p == skb[pk]
           q == PreRouting(p, t)
           r == PostRouting(q, t)
           on == [r EXCEPT !.at = "wire", !.host = "-", !.via = @ \cup {box}]
<1>1. p.at = "input" /\ p.host = box
  BY DEF Forward, At
<1>2. PICK e \in Ends : Travels(p, e, clientRecords, serverRecords)
  BY <1>1, SentFrom DEF Stages
<1>3. /\ p \in Skbs /\ SentBy(p, e) /\ p.proto = "TCP"
      /\ FirstLeg(p, e, box) /\ Usable(box, clientRecords, serverRecords)
  BY <1>1, <1>2, EndFacts, HostsOK DEF Travels, Segment, Datagram
<1>4. Moves(pk, IF q.dst = box THEN [q EXCEPT !.at = "dropped"] ELSE on)
  BY <1>3 DEF Forward
<1>5. q = CsumReplace(p, "dst", Peer(e))
  <2> DEFINE i == FindEither(t, FromSource(p.src, p.sport), ToService(p.src, p.dport))
  <2>1. i # Null /\ t[i].dst = Peer(e)
    BY <1>3, BoxFound DEF SentBy, FirstLeg, Covers
  <2>2. q = IF i = Null THEN p ELSE CsumReplace(p, "dst", t[i].dst)
    BY DEF PreRouting
  <2> HIDE DEF i, q, p, t
  <2> QED BY <2>1, <2>2
<1>6. Peer(e) \in Addresses \cup {Zero} /\ box \in Addresses \cup {Zero} /\ Peer(e) # box
  BY EndFacts, HostsOK
<1>7. q \in Skbs /\ DstReplaced(p, Peer(e), q)
  BY <1>3, <1>5, <1>6, CsumReplaceFields
<1> HIDE DEF q
<1>8. Covers(q, e, Peer(e)) /\ q.via = {} /\ q.proto = "TCP" /\ SentBy(q, e)
  BY <1>3, <1>7 DEF DstReplaced, FirstLeg, Covers, SentBy
<1>9. r = CsumReplace(q, "src", box)
  <2> DEFINE i == FindEither(t, ToService(q.src, q.dport), FromSource(q.src, q.sport))
  <2>1. i # Null /\ t[i].src = box
    BY <1>8, BoxFound DEF SentBy, Covers
  <2>2. r = IF i = Null THEN q ELSE CsumReplace(q, "src", t[i].src)
    BY DEF PostRouting
  <2> HIDE DEF i, t
  <2> QED BY <2>1, <2>2
<1>10. r \in Skbs /\ SrcReplaced(q, box, r)
  BY <1>6, <1>7, <1>9, CsumReplaceFields
<1> HIDE DEF r
<1>11. Covers(r, box, Peer(e)) /\ r.via = {} /\ r.proto = "TCP" /\ SentBy(r, e)
  BY <1>8, <1>10 DEF SrcReplaced, Covers, SentBy
<1>12. on \in Skbs /\ on.at = "wire" /\ on.proto = "TCP" /\ on.via = {box}
  BY <1>10, <1>11 DEF Skbs, Stages
<1>13. SentBy(on, e) /\ Covers(on, box, Peer(e))
  BY <1>10, <1>11 DEF SentBy, Covers, Skbs
<1>14. Moves(pk, on)
  BY <1>4, <1>6, <1>8 DEF Covers
<1> HIDE DEF on, p
<1>15. Segment(on, e, clientRecords, serverRecords)
  BY <1>3, <1>12, <1>13 DEF Segment, SecondLeg
<1>16. Travels(on, e, clientRecords, serverRecords)
  BY <1>12, <1>13, <1>15 DEF Travels
<1> QED BY <1>14, <1>16, MovesGood DEF Now, Good

(* A network card verifies what arrives, if it has a sound checksum.       *)
LEMMA ArriveGood ==
  ASSUME Calm, PacketsOK, NEW pk \in Packets, Arrive(pk)
  PROVE  GoodInv'
<1> DEFINE p == skb[pk]
           q == [p EXCEPT !.at = "input", !.host = p.dst,
                          !.verified = ReceiveOffload /\ CsumCovers(p)]
<1>1. p.at = "wire"
  BY DEF Arrive
<1>2. PICK e \in Ends : Travels(p, e, clientRecords, serverRecords)
  BY <1>1, SentFrom DEF Stages
<1>3. p \in Skbs /\ SentBy(p, e)
  BY <1>2 DEF Travels
<1>4. \E dst \in Ends \cup Boxes : Covers(p, p.src, dst)
  BY <1>1, <1>2, EndFacts DEF Travels, Segment, Datagram, FirstLeg, SecondLeg, Covers
<1>5. p.dst \in Ends \cup Boxes /\ p.dst \in Addresses /\ CsumCovers(p)
  BY <1>3, <1>4, HostsOK DEF Covers, CsumCovers, Skbs
<1>6. Moves(pk, q)
  BY <1>5 DEF Arrive
<1>7. /\ q \in Skbs /\ q.at = "input" /\ q.host = p.dst /\ q.proto = p.proto
      /\ q.via = p.via /\ Verified(q)
  <2> DEFINE sound == ReceiveOffload /\ CsumCovers(p)
  <2>1. sound \in BOOLEAN /\ (ReceiveOffload = TRUE => sound)
    BY <1>5 DEF CsumCovers
  <2>2. q = [p EXCEPT !.at = "input", !.host = p.dst, !.verified = sound]
    OBVIOUS
  <2> HIDE DEF q, sound
  <2> QED BY <1>3, <1>5, <2>1, <2>2 DEF Skbs, Stages, Verified
<1>8. SentBy(q, e) /\ (\A src, dst : Covers(p, src, dst) => Covers(q, src, dst))
  BY <1>3 DEF SentBy, Covers, Skbs
<1> HIDE DEF q, p
<1>9. CASE p.proto = "UDP"
  <2>1. Covers(p, e, Peer(e)) /\ p.via = {} /\ p.dst = Peer(e)
    BY <1>2, <1>9 DEF Travels, Datagram, Covers
  <2>2. Datagram(q, e)
    BY <1>7, <1>8, <2>1 DEF Datagram
  <2> QED BY <1>6, <1>7, <1>8, <1>9, <2>2, MovesGood DEF Travels, Now, Good
<1>10. CASE p.proto = "TCP"
  <2>1. PICK box \in Boxes : /\ Usable(box, clientRecords, serverRecords)
                             /\ FirstLeg(p, e, box) \/ SecondLeg(p, e, box)
    BY <1>1, <1>2, <1>10 DEF Travels, Segment
  <2>2. CASE FirstLeg(p, e, box)
    <3>1. FirstLeg(q, e, box) /\ q.host = box
      BY <1>7, <1>8, <2>2 DEF FirstLeg, Covers
    <3> QED BY <1>6, <1>7, <1>8, <1>10, <2>1, <3>1, MovesGood DEF Segment, Travels, Now, Good
  <2>3. CASE SecondLeg(p, e, box)
    <3>1. SecondLeg(q, e, box) /\ q.host = Peer(e)
      BY <1>7, <1>8, <2>3 DEF SecondLeg, Covers
    <3> QED BY <1>6, <1>7, <1>8, <1>10, <2>1, <3>1, MovesGood DEF Segment, Travels, Now, Good
  <2> QED BY <2>1, <2>2, <2>3
<1> QED BY <1>3, <1>9, <1>10, SkbFields

LEMMA EmitGood ==
  ASSUME Calm, PacketsOK, NEW pk \in Packets, NEW e \in Ends, NEW proto \in {"TCP", "UDP"},
         Emit(pk, e, Peer(e), PortOf(e), PortOf(Peer(e)), proto)
  PROVE  GoodInv'
<1> DEFINE c == [src |-> e, dst |-> Peer(e)]
           q == [at |-> "output", host |-> e, proto |-> proto,
                 src |-> e, dst |-> Peer(e), sport |-> PortOf(e), dport |-> PortOf(Peer(e)),
                 csum |-> c, verified |-> FALSE, sent |-> c, via |-> {}, held |-> Null]
<1>1. Moves(pk, q)
  BY DEF Emit
<1>2. /\ e \in Addresses /\ Peer(e) \in Addresses /\ Peer(e) \in Ends
      /\ PortOf(e) \in Ports /\ PortOf(Peer(e)) \in Ports
  BY HostsOK, EndFacts
<1>3. /\ c \in [src: Addresses \cup {Zero, "?"}, dst: Addresses \cup {Zero, "?"}]
      /\ c \in [src: Ends, dst: Ends] /\ c.src = e /\ c.dst = Peer(e)
  BY <1>2
<1>4. SentBy(q, e) /\ Covers(q, e, Peer(e))
  BY <1>3 DEF SentBy, Covers
<1> HIDE DEF c
<1>5. q \in Skbs /\ q.at = "output" /\ q.host = e /\ q.via = {} /\ q.proto = proto
  BY <1>2, <1>3 DEF Skbs, Stages, Null
<1> HIDE DEF q
<1>6. Travels(q, e, clientRecords, serverRecords)
  BY <1>4, <1>5 DEF Travels, Segment, Datagram
<1> QED BY <1>1, <1>6, MovesGood DEF Now, Good

LEMMA TrafficGood ==
  ASSUME Quiet, TablesInv, QuietInv, GoodInv, PacketsOK, Traffic
  PROVE  GoodInv'
<1>1. PICK pk \in Packets : Talk(pk) \/ Travel(pk) \/ Consume(pk)
  BY DEF Traffic
<1>2. Calm
  BY DEF Traffic, kernelVars, clientVars, Calm
<1>3. /\ Client \in Ends /\ Server \in Ends /\ Client # Server
      /\ TableOf(Client) = clientRecords /\ TableOf(Server) = serverRecords
      /\ Peer(Client) = Server /\ Peer(Server) = Client
      /\ PortOf(Client) = Ephemeral /\ PortOf(Server) = Service
  BY HostsOK DEF TableOf, Peer, PortOf
<1>4. CASE Talk(pk)
  <2>1. PICK proto \in {"TCP", "UDP"} :
          \/ Emit(pk, Client, Peer(Client), PortOf(Client), PortOf(Peer(Client)), proto)
          \/ Emit(pk, Server, Peer(Server), PortOf(Server), PortOf(Peer(Server)), proto)
    BY <1>3, <1>4 DEF Talk
  <2> QED BY <1>2, <1>3, <2>1, EmitGood
<1>5. CASE ClientOutgoing(pk)
  <2> DEFINE key == ToAddress(skb[pk].dst, skb[pk].dport)
  <2>1. SentBy(skb[pk], Client) /\ skb[pk].dst = Peer(Client) => key = OutKey(Client)
    BY <1>3 DEF SentBy, OutKey
  <2>2. \/ Lookup(pk, "output", "foundOut", Client, TableOf(Client), key)
        \/ RewriteDst(pk, Client, TableOf(Client))
    BY <1>3, <1>5 DEF ClientOutgoing
  <2> HIDE DEF key
  <2> QED BY <1>2, <1>3, <2>1, <2>2, OutputLookupGood, OutputRewriteGood
<1>6. CASE ServerOutgoing(pk)
  <2> DEFINE key == BackTo(skb[pk].dst, skb[pk].sport)
  <2>1. SentBy(skb[pk], Server) /\ skb[pk].dst = Peer(Server) => key = OutKey(Server)
    BY <1>3 DEF SentBy, OutKey
  <2>2. \/ Lookup(pk, "output", "foundOut", Server, TableOf(Server), key)
        \/ RewriteDst(pk, Server, TableOf(Server))
    BY <1>3, <1>6 DEF ServerOutgoing
  <2> HIDE DEF key
  <2> QED BY <1>2, <1>3, <2>1, <2>2, OutputLookupGood, OutputRewriteGood
<1>7. CASE ClientIncoming(pk)
  <2> DEFINE key == FromSource(skb[pk].src, skb[pk].sport)
  <2>1. \A box \in Boxes :
          SentBy(skb[pk], Peer(Client)) /\ skb[pk].src = box => key = InKey(Client, box)
    BY <1>3 DEF SentBy, InKey
  <2>2. \/ Lookup(pk, "input", "foundIn", Client, TableOf(Client), key)
        \/ RewriteSrc(pk, Client, TableOf(Client))
    BY <1>3, <1>7 DEF ClientIncoming
  <2> HIDE DEF key
  <2> QED BY <1>2, <1>3, <2>1, <2>2, InputLookupGood, InputRewriteGood
<1>8. CASE ServerIncoming(pk)
  <2> DEFINE key == ToService(skb[pk].src, skb[pk].dport)
  <2>1. \A box \in Boxes :
          SentBy(skb[pk], Peer(Server)) /\ skb[pk].src = box => key = InKey(Server, box)
    BY <1>3 DEF SentBy, InKey
  <2>2. \/ Lookup(pk, "input", "foundIn", Server, TableOf(Server), key)
        \/ RewriteSrc(pk, Server, TableOf(Server))
    BY <1>3, <1>8 DEF ServerIncoming
  <2> HIDE DEF key
  <2> QED BY <1>2, <1>3, <2>1, <2>2, InputLookupGood, InputRewriteGood
<1>9. CASE (\E box \in Boxes : Forward(pk, box)) \/ Arrive(pk)
  BY <1>2, <1>9, ForwardGood, ArriveGood
<1>10. CASE Consume(pk)
  <2>1. Moves(pk, None) /\ Now(None)
    BY <1>10 DEF Consume, Now, Good
  <2> QED BY <1>2, <2>1, MovesGood
<1> QED BY <1>1, <1>4, <1>5, <1>6, <1>7, <1>8, <1>9, <1>10 DEF Travel

(* Without resets, the rules of the tables stay in their places, but for   *)
(* those of which "ACK" makes ones to the new middlebox.                   *)
LEMMA QuietKeeps ==
  ASSUME Quiet, TablesInv, [Next]_vars
  PROVE  /\ Keeps(clientRecords, ToOldBox.key, ToNewBox, clientRecords')
         /\ Keeps(serverRecords, AnswersToOldBox.key, AnswersToNewBox, serverRecords')
<1>1. /\ ClientTable(clientRecords) /\ ServerTable(serverRecords)
      /\ Len(clientRecords) \in Nat /\ Len(serverRecords) \in Nat
  BY LenProperties DEF TablesInv, RulesInv, ClientTable, ServerTable
<1>2. /\ Keeps(clientRecords, ToOldBox.key, ToNewBox, clientRecords)
      /\ Keeps(serverRecords, AnswersToOldBox.key, AnswersToNewBox, serverRecords)
  BY <1>1 DEF Keeps
<1>3. CASE Agent
  <2>1. PICK h \in {1, 2, 3}, u \in Updates : AgentSyn(h, u) \/ AgentAck(h, u)
    BY <1>3, ChainHosts DEF Agent
  <2> QED BY <1>1, <1>2, <2>1, AgentTables, ClientSynTable, ClientAckTable,
       ServerAddTable, ServerAckTable
<1>4. CASE UNCHANGED <<clientRecords, serverRecords>>
  BY <1>2, <1>4
<1> QED BY <1>3, <1>4 DEF Next, Quiet, Traffic, vars, kernelVars, clientVars

LEMMA RulesKept ==
  ASSUME Quiet, TablesInv, [Next]_vars, NEW e \in Ends, NEW box \in Boxes
  PROVE  LET t     == Table(e, clientRecords, serverRecords)
             after == Table(e, clientRecords', serverRecords')
         IN \A i \in 1..Len(t) : t[i] = InRule(e, box) =>
              i \in 1..Len(after) /\ after[i] = InRule(e, box)
<1>1. /\ Len(clientRecords) \in Nat /\ Len(serverRecords) \in Nat
      /\ Len(clientRecords') \in Nat /\ Len(serverRecords') \in Nat
  BY TablesNext, LenProperties DEF TablesInv, RulesInv, ClientTable, ServerTable
<1>2. CASE e = Client
  <2>1. InRule(e, box).key # ToOldBox.key
    BY <1>2, InRules, HostsOK, KeysDiffer, ClientRuleKeys
  <2> QED BY <1>1, <1>2, <2>1, QuietKeeps DEF Keeps, Table
<1>3. CASE e = Server
  <2>1. InRule(e, box).key # AnswersToOldBox.key
    BY <1>3, InRules, HostsOK, KeysDiffer, ServerRuleKeys
  <2> QED BY <1>1, <1>3, <2>1, QuietKeeps, HostsOK DEF Keeps, Table
<1> QED BY <1>2, <1>3, HostsOK

LEMMA OthersGood ==
  ASSUME Quiet, TablesInv, GoodInv, [Next]_vars, UNCHANGED skb
  PROVE  GoodInv'
<1> DEFINE c == clientRecords
           s == serverRecords
<1>1. PathReady(c, s) => PathReady(c', s')
  <2>1. Has(c, FromNewBox) => Has(c', FromNewBox)
    BY RulesKept, InRules, HostsOK DEF Has, Table
  <2>2. Has(s, CallsFromNewBox) => Has(s', CallsFromNewBox)
    BY RulesKept, InRules, HostsOK DEF Has, Table
  <2> QED BY <2>1, <2>2 DEF PathReady
<1>2. ASSUME NEW p, NEW e \in Ends, Travels(p, e, c, s)
      PROVE  Travels(p, e, c', s')
  <2>1. \A box \in Boxes : Usable(box, c, s) => Usable(box, c', s')
    BY <1>1 DEF Usable
  <2>2. \A box \in Boxes :
          /\ p.held \in 1..Len(Table(Peer(e), c, s))
          /\ Table(Peer(e), c, s)[p.held] = InRule(Peer(e), box)
          => /\ p.held \in 1..Len(Table(Peer(e), c', s'))
             /\ Table(Peer(e), c', s')[p.held] = InRule(Peer(e), box)
    BY RulesKept, EndFacts
  <2>3. Segment(p, e, c, s) => Segment(p, e, c', s')
    BY <2>1, <2>2 DEF Segment
  <2> QED BY <1>2, <2>3 DEF Travels
<1> QED BY <1>2 DEF GoodInv, Good

-------------------------------------------------------------------------------
(* What follows for a migration without resets.                            *)

LossFreeInv == TablesInv /\ PacketTypes /\ QuietInv /\ GoodInv

(* Every packet is where Travels says, through any number of updates.      *)
THEOREM PacketsCorrect ==
  ASSUME Quiet
  PROVE  Spec => []LossFreeInv
<1>1. ASSUME Init PROVE LossFreeInv
  <2>1. \A pk \in Packets : skb[pk] = None /\ None.at = "none"
    BY <1>1 DEF Init, PacketsInit, None
  <2>2. PacketTypes /\ GoodInv
    BY <1>1, <2>1 DEF Init, PacketsInit, PacketTypes, PacketsOK, HeldInv, GoodInv, Good
  <2> QED BY <1>1, <2>2, TablesInit, QuietInit DEF LossFreeInv
<1>2. ASSUME LossFreeInv, [Next]_vars PROVE LossFreeInv'
  <2>1. TablesInv' /\ QuietInv'
    BY <1>2, TablesNext, QuietNext DEF LossFreeInv
  <2>2. CASE Traffic
    BY <1>2, <2>1, <2>2, TrafficTyped, TrafficGood DEF LossFreeInv, PacketTypes
  <2>3. CASE UNCHANGED skb
    BY <1>2, <2>1, <2>3, OthersTyped, OthersGood DEF LossFreeInv
  <2>4. Agent => UNCHANGED skb
    BY DEF Agent, AgentSyn, AgentAck
  <2> QED BY <1>2, <2>2, <2>3, <2>4 DEF Next, vars, Quiet
<1> QED BY <1>1, <1>2, PTL DEF Spec

(* Where network cards verify checksums, no packet of the session is lost  *)
(* or reaches anybody but the end it was sent to, whose process finds in   *)
(* it the addresses the other end wrote (LossFree).                        *)
THEOREM LossFreeCorrect ==
  ASSUME Quiet, ReceiveOffload = TRUE
  PROVE  Spec => []LossFree
<1>1. ASSUME LossFreeInv PROVE LossFree
  <2> SUFFICES ASSUME NEW pk \in Packets
               PROVE  /\ skb[pk].at # "dropped"
                      /\ skb[pk].at = "delivered" =>
                           /\ [src |-> skb[pk].src, dst |-> skb[pk].dst] = skb[pk].sent
                           /\ skb[pk].host = skb[pk].sent.dst
    BY DEF LossFree
  <2>1. CASE skb[pk] = None
    BY <2>1 DEF None
  <2>2. CASE skb[pk].at \in Stages
    <3>1. PICK e \in Ends : Travels(skb[pk], e, clientRecords, serverRecords)
      BY <1>1, <2>2 DEF LossFreeInv, GoodInv, Good, None, Stages
    <3>2. skb[pk].sent.src = e /\ skb[pk].sent.dst = Peer(e) /\ skb[pk] \in Skbs
      BY <3>1 DEF Travels, SentBy
    <3>3. skb[pk].sent = [src |-> e, dst |-> Peer(e)]
      BY <3>2 DEF Skbs
    <3>4. skb[pk].at # "dropped"
      BY <3>1 DEF Travels, Segment, Datagram
    <3>5. skb[pk].at = "delivered" =>
            skb[pk].src = e /\ skb[pk].dst = Peer(e) /\ skb[pk].host = Peer(e)
      BY <3>1 DEF Travels, Segment, Datagram, Covers
    <3> QED BY <3>2, <3>3, <3>4, <3>5
  <2> QED BY <1>1, <2>1, <2>2, SkbFields DEF LossFreeInv, PacketTypes, PacketsOK
<1> QED BY <1>1, PacketsCorrect, PTL

(* A segment goes through one middlebox only (ThroughOneBox).              *)
THEOREM OneBoxCorrect ==
  ASSUME Quiet
  PROVE  Spec => []ThroughOneBox
<1>1. ASSUME LossFreeInv, NEW pk \in Packets, skb[pk].at = "delivered"
      PROVE  \/ skb[pk].proto = "TCP" /\ \E box \in Boxes : skb[pk].via = {box}
             \/ skb[pk].proto = "UDP" /\ skb[pk].via = {}
  <2>1. PICK e \in Ends : Travels(skb[pk], e, clientRecords, serverRecords)
    BY <1>1 DEF LossFreeInv, GoodInv, Good, None
  <2> QED BY <1>1, <2>1 DEF Travels, Segment, Datagram
<1>2. LossFreeInv => ThroughOneBox
  BY <1>1 DEF ThroughOneBox
<1> QED BY <1>2, PacketsCorrect, PTL

(* The wire carries sound checksums (WireChecksum).                        *)
THEOREM WireChecksumCorrect ==
  ASSUME Quiet
  PROVE  Spec => []WireChecksum
<1>1. ASSUME LossFreeInv, NEW pk \in Packets, skb[pk].at = "wire"
      PROVE  CsumCovers(skb[pk])
  <2>1. PICK e \in Ends : Travels(skb[pk], e, clientRecords, serverRecords)
    BY <1>1 DEF LossFreeInv, GoodInv, Good, None
  <2>2. skb[pk] \in Skbs /\ \E src, dst : Covers(skb[pk], src, dst)
    BY <1>1, <2>1 DEF Travels, Segment, Datagram, FirstLeg, SecondLeg
  <2> QED BY <2>2 DEF Covers, CsumCovers, Skbs
<1>2. LossFreeInv => WireChecksum
  BY <1>1 DEF WireChecksum
<1> QED BY <1>2, PacketsCorrect, PTL

(* Both ends are prepared before a packet takes the new path               *)
(* (NewPathReady).                                                         *)
THEOREM NewPathCorrect ==
  ASSUME Quiet
  PROVE  Spec => []NewPathReady
<1>1. ASSUME LossFreeInv, NEW pk \in Packets, OnNewPath(pk)
      PROVE  PathReady(clientRecords, serverRecords)
  <2>1. PICK e \in Ends : Travels(skb[pk], e, clientRecords, serverRecords)
    BY <1>1 DEF LossFreeInv, GoodInv, Good, None, OnNewPath
  <2>2. NewBox # e /\ NewBox # Peer(e)
    BY HostsOK, EndFacts
  <2>3. PICK box \in Boxes : /\ Usable(box, clientRecords, serverRecords)
                             /\ FirstLeg(skb[pk], e, box) \/ SecondLeg(skb[pk], e, box)
    BY <1>1, <2>1, <2>2 DEF Travels, Segment, Datagram, Covers, OnNewPath
  <2>4. box = NewBox
    BY <1>1, <2>2, <2>3 DEF FirstLeg, SecondLeg, Covers, OnNewPath
  <2> QED BY <2>3, <2>4 DEF Usable
<1>2. ASSUME LossFreeInv, PathReady(clientRecords, serverRecords)
      PROVE  /\ HashFind(clientRecords, FromNewBox.key) # Null
             /\ HashFind(serverRecords, CallsFromNewBox.key) # Null
  <2>1. /\ clientRecords \in Seq(Records \cup {Freed})
        /\ serverRecords \in Seq(Records \cup {Freed})
    BY <1>2, TablesTyped, HostsOK DEF LossFreeInv, TableOf
  <2> QED BY <1>2, <2>1, HasFound DEF PathReady
<1>3. LossFreeInv => NewPathReady
  BY <1>1, <1>2 DEF NewPathReady
<1> QED BY <1>3, PacketsCorrect, PTL
===============================================================================
