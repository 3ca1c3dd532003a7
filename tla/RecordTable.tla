----------------------------- MODULE RecordTable -----------------------------
(***************************************************************************)
(* The rewriting rules of a kernel module: records with a key of addresses *)
(* and ports, where zero means "not part of the key", in a hash table that *)
(* allows several records with one key and finds the newest of them.       *)
(*                                                                         *)
(* A table is the sequence of the records that were ever allocated for it; *)
(* a pointer to a record is its index, and kfree leaves Freed in its place.*)
(* What the code does between a lock and its unlock is one operator here.  *)
(* Hashing, buckets and their growth, and the lookups beside a writer are  *)
(* in HashTable and TableAccess, where NewestFound is what HashFind says.  *)
(***************************************************************************)
EXTENDS Integers, Sequences, FiniteSetsExt

CONSTANTS Addresses, Ports

Zero == "0"
Null == 0

ZeroKey == [src |-> Zero, dst |-> Zero, sport |-> Zero, dport |-> Zero]
Keys    == [src: Addresses \cup {Zero}, dst: Addresses \cup {Zero},
            sport: Ports \cup {Zero}, dport: Ports \cup {Zero}]

(* The four keys the modules use.                                          *)
FromSource(a, port) == [ZeroKey EXCEPT !.src = a, !.sport = port]
ToService(a, port)  == [ZeroKey EXCEPT !.src = a, !.dport = port]
ToAddress(a, port)  == [ZeroKey EXCEPT !.dst = a, !.dport = port]
BackTo(a, port)     == [ZeroKey EXCEPT !.dst = a, !.sport = port]

(* Slip: the record is not cleared before its fields are set.              *)
RecordUncleared(key, src, dst) ==
  [key |-> key, src |-> IF src = Zero THEN "?" ELSE src,
   dst |-> IF dst = Zero THEN "?" ELSE dst]

Record(key, src, dst) == [key |-> key, src |-> src, dst |-> dst]
Records == [key: Keys, src: Addresses \cup {Zero}, dst: Addresses \cup {Zero}]
Freed   == [key |-> [freed |-> TRUE]]

TableOK(t) == t \in Seq(Records \cup {Freed})

(* The records of table t with the key, by their indices.                  *)
Holding(t, key) == {i \in DOMAIN t : t[i].key = key}

HashFind(t, key) ==
  IF Holding(t, key) = {} THEN Null ELSE Max(Holding(t, key))

HashAdd(t, item) == Append(t, item)

HashDel(t, i) == [t EXCEPT ![i] = Freed]

(* Slip: addHash adds without having looked.                               *)
AddHashAlways(t, item) == HashAdd(t, item)

(* addHash and deleteHash: look the key up and change the table, in one    *)
(* section under the write lock.                                           *)
AddHash(t, item) ==
  IF HashFind(t, item.key) = Null THEN HashAdd(t, item) ELSE t

DeleteHash(t, item) ==
  IF HashFind(t, item.key) = Null THEN t ELSE HashDel(t, HashFind(t, item.key))

(* "ACK": the record with the key, if there is one, gets a new destination *)
(* in place.                                                               *)
SetDst(t, key, a) ==
  IF HashFind(t, key) = Null THEN t ELSE [t EXCEPT ![HashFind(t, key)].dst = a]

(* What a hook can read through its pointer i after the lock is released:  *)
(* the field of the record, or anything at all where the record was freed. *)
Deref(t, i, field) ==
  IF t[i] = Freed THEN Addresses \cup {Zero} ELSE {t[i][field]}
=============================================================================
