---------------------------- MODULE MiddleboxKernel ----------------------------
(***************************************************************************)
(* The kernel module of a middlebox: it turns a packet that is addressed   *)
(* to the middlebox into one for the other end of the session, with the    *)
(* middlebox as its source.  Its two records are written once, when it is  *)
(* loaded, and its netlink handler only answers.                           *)
(*                                                                         *)
(* The source names the old middlebox.  A new one runs the same module     *)
(* with its own address in its records: that is what the "SYN" records of  *)
(* the client and the server expect.                                       *)
(***************************************************************************)
EXTENDS PacketPath

BoxRecords(box) ==
  HashAdd(HashAdd(<<>>, Record(ToService(Client, Service), box, Server)),
          Record(FromSource(Server, Service), box, Client))

(* The record with the first key, or else with the second.                 *)
FindEither(t, first, second) ==
  IF HashFind(t, first) # Null THEN HashFind(t, first) ELSE HashFind(t, second)

(* tcp_header_write_prerouting and tcp_header_rewrite.                     *)
PreRouting(p, t) ==
  LET i == FindEither(t, FromSource(p.src, p.sport), ToService(p.src, p.dport))
  IN IF i = Null THEN p ELSE CsumReplace(p, "dst", t[i].dst)

PostRouting(p, t) ==
  LET i == FindEither(t, ToService(p.src, p.dport), FromSource(p.src, p.sport))
  IN IF i = Null THEN p ELSE CsumReplace(p, "src", t[i].src)

(* A packet that still names the middlebox when it is routed has nobody to *)
(* take it there; any other leaves through the post-routing hook.          *)
Forward(pk, box) ==
  /\ At(pk, "input", box)
  /\ LET p == skb[pk]
         q == IF p.proto = "TCP" THEN PreRouting(p, BoxRecords(box)) ELSE p
         r == IF p.proto = "TCP" THEN PostRouting(q, BoxRecords(box)) ELSE q
     IN Moves(pk, IF q.dst = box
                  THEN [q EXCEPT !.at = "dropped"]
                  ELSE [r EXCEPT !.at = "wire", !.host = "-", !.via = @ \cup {box}])
===============================================================================
