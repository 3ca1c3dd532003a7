------------------------------ MODULE PacketPath ------------------------------
(***************************************************************************)
(* The packets of a TCP session between the client and the server, from    *)
(* the sender's socket to the receiver's, and the wire between the hosts.  *)
(* A packet keeps its addresses, its ports and what the checksum of its    *)
(* segment covers: the addresses it was computed or updated for.           *)
(* Packets is a set of slots: a delivered packet leaves its slot to a new  *)
(* one, so a behaviour may carry any number of them.                       *)
(* The wire neither loses nor orders packets.                              *)
(***************************************************************************)
EXTENDS RecordTable

CONSTANTS
  Packets,          \* the packets in flight at a time
  ReceiveOffload    \* TRUE: network cards verify the checksums of what arrives

Client == "client"
Server == "server"
OldBox == "oldBox"  \* the middlebox the session uses at first
NewBox == "newBox"  \* the one it migrates to
Ends   == {Client, Server}
Boxes  == {OldBox, NewBox}

Service == "5001"       \* the port of the session's server
Ephemeral == "high"     \* the port of its client

PathAssumption == Ends \cup Boxes = Addresses /\ {Service, Ephemeral} = Ports
ASSUME PathAssumption

VARIABLE skb

Stages == {"output", "foundOut", "wire", "input", "foundIn", "delivered", "dropped"}
None   == [at |-> "none"]
Skbs   == [at: Stages, host: Ends \cup Boxes \cup {"-"}, proto: {"TCP", "UDP"},
           src: Addresses \cup {Zero}, dst: Addresses \cup {Zero},
           sport: Ports, dport: Ports,
           csum: [src: Addresses \cup {Zero, "?"}, dst: Addresses \cup {Zero, "?"}],
           verified: BOOLEAN, sent: [src: Ends, dst: Ends],
           via: SUBSET Boxes, held: Nat]

PacketsOK == skb \in [Packets -> Skbs \cup {None}]
PacketsInit == skb = [pk \in Packets |-> None]

At(pk, stage, host) == skb[pk].at = stage /\ skb[pk].host = host
Moves(pk, packet)   == skb' = [skb EXCEPT ![pk] = packet]

(* inet_proto_csum_replace4 and csum_replace4: the checksum is corrected   *)
(* by the difference of the two addresses, which is right only if it       *)
(* covered the old one.                                                    *)
CsumReplace(p, field, new) ==
  [p EXCEPT !.csum[field] = IF @ = p[field] THEN new ELSE "?", ![field] = new]

CsumCovers(p) == p.csum = [src |-> p.src, dst |-> p.dst]

(* A process of the sender writes to its socket; TCP builds the segment.   *)
Emit(pk, from, to, sport, dport, proto) ==
  /\ skb[pk] = None
  /\ Moves(pk, [at |-> "output", host |-> from, proto |-> proto,
                src |-> from, dst |-> to, sport |-> sport, dport |-> dport,
                csum |-> [src |-> from, dst |-> to], verified |-> FALSE,
                sent |-> [src |-> from, dst |-> to], via |-> {}, held |-> Null])

(* The first half of a hook: the table is searched under the read lock;    *)
(* only TCP is looked at.                                                  *)
Lookup(pk, stage, found, host, t, key) ==
  /\ At(pk, stage, host)
  /\ Moves(pk, [skb[pk] EXCEPT !.at = found,
                               !.held = IF skb[pk].proto = "TCP"
                                        THEN HashFind(t, key) ELSE Null])

(* Slip: the address is written and the checksum forgotten.                *)
RewriteDstOnly(pk, host, t) ==
  /\ At(pk, "foundOut", host)
  /\ \E a \in IF skb[pk].held = Null THEN {skb[pk].dst}
               ELSE Deref(t, skb[pk].held, "dst") :
       Moves(pk, [skb[pk] EXCEPT !.at = "wire", !.host = "-", !.held = Null, !.dst = a])

(* The second half of an output hook: with the lock released, the          *)
(* destination is read from the record that was found and written.         *)
RewriteDst(pk, host, t) ==
  /\ At(pk, "foundOut", host)
  /\ LET p == [skb[pk] EXCEPT !.at = "wire", !.host = "-", !.held = Null]
     IN \/ skb[pk].held = Null /\ Moves(pk, p)
        \/ /\ skb[pk].held # Null
           /\ \E a \in Deref(t, skb[pk].held, "dst") :
                Moves(pk, CsumReplace(p, "dst", a))

(* The stack above the input hooks takes a segment whose checksum the card *)
(* has verified, or verifies it against the addresses it now has.          *)
HandUp(p) ==
  [p EXCEPT !.at = IF p.verified \/ CsumCovers(p) THEN "delivered" ELSE "dropped",
            !.held = Null]

(* The second half of an input hook: the source is read from the record    *)
(* that was found and written, and the checksum left as it is.             *)
RewriteSrc(pk, host, t) ==
  /\ At(pk, "foundIn", host)
  /\ \/ skb[pk].held = Null /\ Moves(pk, HandUp(skb[pk]))
     \/ /\ skb[pk].held # Null
        /\ \E a \in Deref(t, skb[pk].held, "src") :
             Moves(pk, HandUp([skb[pk] EXCEPT !.src = a]))

(* The wire delivers a packet to the host its destination names.           *)
Arrive(pk) ==
  LET p == skb[pk]
  IN /\ p.at = "wire"
     /\ Moves(pk, IF p.dst \in Addresses
                  THEN [p EXCEPT !.at = "input", !.host = p.dst,
                                 !.verified = ReceiveOffload /\ CsumCovers(p)]
                  ELSE [p EXCEPT !.at = "dropped"])

(* The receiver's process reads the packet.                                *)
Consume(pk) == skb[pk].at = "delivered" /\ Moves(pk, None)
===============================================================================
