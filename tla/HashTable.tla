------------------------------ MODULE HashTable ------------------------------
(***************************************************************************)
(* uthash.h, the hash table that all programs of the repository keep their *)
(* flows and rules in: one writer, which adds, deletes and iterates, and   *)
(* lookups on several processors at the same time.                         *)
(*                                                                         *)
(* A step of the writer or of a lookup reads or writes at most one thing   *)
(* the other can see.  What a lookup cannot see is done in one step: the   *)
(* list in order of addition (next, prev, tail), the counters, and all of  *)
(* a deletion, since whoever deletes has a lock.  TableAccess says who     *)
(* uses the table and with which lock.                                     *)
(*                                                                         *)
(* The macros name head.hh_head and hh_next twice, for the test and for    *)
(* the assignment, and the lookups here read them twice; a compiler may    *)
(* read once, which is the case of two equal reads.  The stores of the     *)
(* writer are seen in the order of the program: an assumption where there  *)
(* is no lock, since an optimising compiler need not keep it.  The key     *)
(* comparison and the hash function are left out: keys are equal or not,   *)
(* and Hash gives the hash values.                                         *)
(***************************************************************************)
EXTENDS Integers, Sequences, FiniteSets, FiniteSetsExt

CONSTANTS
  Keys,            \* the keys of records and lookups
  Hash,            \* their hash values
  MaxRecords,      \* bound: how many records are ever allocated
  InitialBuckets,  \* HASH_INITIAL_NUM_BUCKETS: 32 in the code
  Capacity,        \* HASH_BKT_CAPACITY_THRESH: 10 in the code
  Cpus             \* processors, or threads, that look keys up

ASSUME KeysAssumption == Keys # {}
ASSUME HashAssumption == Hash \in [Keys -> Nat]
ASSUME SizesAssumption ==
  /\ MaxRecords \in Nat
  /\ InitialBuckets \in Nat \ {0}
  /\ Capacity \in Nat \ {0}

Null == 0
Items == 1..MaxRecords
Pointers == {Null} \cup Items

(* What a stray read yields: a fault, or nothing of this table.            *)
Wild == MaxRecords + 1

NoTable == [num_buckets |-> 0]

VARIABLES
  head,         \* the program's pointer to the table: its first record
  hh,           \* the UT_hash_handles of the records, and their keys
  freed,        \* the records given back
  tbl,          \* the UT_hash_table
  grown,        \* the bucket array of an expansion under way
  writer,       \* where the writer is, and the record it handles
  rd            \* the lookup of each processor

tableVars == <<head, hh, freed, tbl, grown, writer>>

(* The records that were allocated and not given back.                     *)
Live == DOMAIN hh \ freed

EmptyBucket == [hh_head |-> Null, count |-> 0, expand_mult |-> 0]

BucketSet == [hh_head : Pointers, count : Nat, expand_mult : Nat]
HandleSet == [key : Keys, prev : Pointers, next : Pointers,
              hh_prev : Pointers, hh_next : Pointers]

TableTypeOK ==
  /\ head \in Pointers
  /\ Len(hh) <= MaxRecords /\ \A r \in DOMAIN hh : hh[r] \in HandleSet
  /\ freed \subseteq Items
  /\ \/ tbl = NoTable
     \/ /\ tbl.num_buckets \in Nat
        /\ tbl.num_items \in 0..MaxRecords
        /\ tbl.tail \in Items
        /\ tbl.ineff_expands \in Nat /\ tbl.noexpand \in BOOLEAN
        /\ tbl.expands \in Nat
        /\ \A b \in DOMAIN tbl.buckets : tbl.buckets[b] \in BucketSet
  /\ \A b \in DOMAIN grown : grown[b] \in BucketSet
  /\ writer \in [pc : {"idle", "make", "link", "move", "double",
                       "install", "iterate"},
                 at : Pointers, tmp : Pointers]
  /\ rd \in [Cpus -> [pc : {"idle", "lock", "head", "num", "first", "take",
                            "test", "next", "done"},
                      key : Keys, num : Nat, at : Pointers \cup {Wild},
                      must : BOOLEAN, calm : BOOLEAN]]

NoLookup == [pc |-> "idle", key |-> CHOOSE k \in Keys : TRUE, num |-> 0,
             at |-> Null, must |-> FALSE, calm |-> TRUE]
WriterIdle == [pc |-> "idle", at |-> Null, tmp |-> Null]

TableInit ==
  /\ head = Null
  /\ hh = <<>>
  /\ freed = {}
  /\ tbl = NoTable
  /\ grown = <<>>
  /\ writer = WriterIdle
  /\ rd = [c \in Cpus |-> NoLookup]

-------------------------------------------------------------------------------
(* Buckets.                                                                *)

(* HASH_TO_BKT, with the number of buckets a power of two.                 *)
ToBkt(key, n) == Hash[key] % n

(* A record put in front of bucket b: the handles and the array after it.  *)
PushHandles(h, array, b, r) ==
  [i \in DOMAIN h |->
     IF i = r THEN [h[i] EXCEPT !.hh_next = array[b].hh_head, !.hh_prev = Null]
     ELSE IF i = array[b].hh_head THEN [h[i] EXCEPT !.hh_prev = r]
     ELSE h[i]]

PushBucket(array, b, r) ==
  [array EXCEPT ![b].hh_head = r, ![b].count = @ + 1]

(* The first record at or after bucket b of an array.                      *)
FirstFrom(array, b) ==
  LET full == {i \in DOMAIN array : i >= b /\ array[i].hh_head # Null}
  IN IF full = {} THEN Null ELSE array[Min(full)].hh_head

-------------------------------------------------------------------------------
(* HASH_ADD.                                                               *)

WriterGoes(here, there) ==
  /\ writer.pc = here
  /\ writer' = [writer EXCEPT !.pc = there]

(* The lookups under way can see that the table is being made or grows:    *)
(* a variable of the properties, not of the code.                          *)
Disturb == rd' = [c \in Cpus |-> [rd[c] EXCEPT !.calm = rd[c].pc = "idle"]]

(* HASH_ADD_KEYPTR of a new record: it becomes the head, before there is a *)
(* table to be found through it, or the last of the list.                  *)
AddKeyptr(key) ==
  LET r == Len(hh) + 1
      new == [key |-> key, prev |-> IF head = Null THEN Null ELSE tbl.tail,
              next |-> Null, hh_prev |-> Null, hh_next |-> Null]
  IN /\ writer.pc = "idle" /\ r \in Items
     /\ \/ /\ head = Null
           /\ head' = r
           /\ hh' = Append(hh, new)
           /\ writer' = [writer EXCEPT !.at = r, !.pc = "make"]
           /\ Disturb
           /\ UNCHANGED tbl
        \/ /\ head # Null
           /\ hh' = Append([hh EXCEPT ![tbl.tail].next = r], new)
           /\ tbl' = [tbl EXCEPT !.tail = r]
           /\ writer' = [writer EXCEPT !.at = r, !.pc = "link"]
           /\ UNCHANGED <<head, rd>>
     /\ UNCHANGED <<freed, grown>>

(* Slip: the first record is counted here and again when it is linked.     *)
MakeTableCounted ==
  /\ WriterGoes("make", "link")
  /\ tbl' = [num_buckets |-> InitialBuckets, num_items |-> 1, tail |-> head,
             ineff_expands |-> 0, noexpand |-> FALSE, expands |-> 0,
             buckets |-> [b \in 0..(InitialBuckets - 1) |-> EmptyBucket]]
  /\ Disturb
  /\ UNCHANGED <<head, hh, freed, grown>>

(* HASH_MAKE_TABLE: ready when its buckets are cleared.                    *)
MakeTable ==
  /\ WriterGoes("make", "link")
  /\ tbl' = [num_buckets |-> InitialBuckets, num_items |-> 0, tail |-> head,
             ineff_expands |-> 0, noexpand |-> FALSE, expands |-> 0,
             buckets |-> [b \in 0..(InitialBuckets - 1) |-> EmptyBucket]]
  /\ Disturb
  /\ UNCHANGED <<head, hh, freed, grown>>

(* When HASH_ADD_TO_BKT expands: the bucket holds a multiple of Capacity.  *)
Overfull(bucket) == bucket.count >= (bucket.expand_mult + 1) * Capacity

(* Slip: the record becomes the last of its bucket.                        *)
AddToBktLast ==
  LET r     == writer.at
      b     == ToBkt(hh[r].key, tbl.num_buckets)
      array == PushBucket(tbl.buckets, b, r)
      last(s) == s \in Live \ {r} /\ hh[s].hh_next = Null
                   /\ ToBkt(hh[s].key, tbl.num_buckets) = b
  IN /\ WriterGoes("link", "idle")
     /\ hh' = [i \in DOMAIN hh |-> IF last(i) THEN [hh[i] EXCEPT !.hh_next = r]
                                               ELSE hh[i]]
     /\ tbl' = [tbl EXCEPT !.num_items = @ + 1,
                           !.buckets = IF tbl.buckets[b].hh_head = Null THEN array ELSE @]
     /\ UNCHANGED <<head, freed, grown, rd>>

(* HASH_ADD_TO_BKT: the record becomes the first of its bucket, and if     *)
(* that is overfull HASH_EXPAND_BUCKETS begins.                            *)
AddToBkt ==
  LET b     == ToBkt(hh[writer.at].key, tbl.num_buckets)
      array == PushBucket(tbl.buckets, b, writer.at)
      expand == Overfull(array[b]) /\ ~tbl.noexpand
  IN /\ writer.pc = "link"
     /\ hh' = PushHandles(hh, tbl.buckets, b, writer.at)
     /\ tbl' = [tbl EXCEPT !.buckets = array, !.num_items = @ + 1]
     /\ IF expand
        THEN /\ writer' = [writer EXCEPT !.pc = "move", !.at = FirstFrom(array, 0)]
             /\ grown' = [i \in 0..(2 * tbl.num_buckets - 1) |-> EmptyBucket]
             /\ Disturb
        ELSE /\ writer' = WriterIdle
             /\ UNCHANGED <<grown, rd>>
     /\ UNCHANGED <<head, freed>>

-------------------------------------------------------------------------------
(* HASH_EXPAND_BUCKETS.                                                    *)

(* ideal_chain_maxlen: the items over the new buckets, rounded up.         *)
IdealChain == (tbl.num_items + 2 * tbl.num_buckets - 1) \div (2 * tbl.num_buckets)

(* expand_mult of a new bucket that holds more than that.                  *)
Multiplied(bucket) ==
  IF bucket.count > IdealChain
  THEN [bucket EXCEPT !.expand_mult = bucket.count \div IdealChain]
  ELSE bucket

(* Slip: the new bucket's head is set before the record's hh_next is.      *)
MoveItemHeadFirst ==
  LET r == writer.at
      b == ToBkt(hh[r].key, 2 * tbl.num_buckets)
      array == PushBucket(grown, b, r)
      later == IF hh[r].hh_next # Null THEN hh[r].hh_next
               ELSE FirstFrom(tbl.buckets, ToBkt(hh[r].key, tbl.num_buckets) + 1)
  IN /\ writer.pc = "move" /\ r # Null
     /\ hh' = PushHandles(hh, array, b, r)
     /\ grown' = [array EXCEPT ![b] = Multiplied(@)]
     /\ writer' = [writer EXCEPT !.at = later]
     /\ Disturb
     /\ UNCHANGED <<head, freed, tbl>>

(* One record goes from its old bucket to the front of its new one.  The   *)
(* old buckets are left as they are, so the next to move is the one its    *)
(* hh_next named, or the first of the next bucket.                         *)
MoveItem ==
  LET r == writer.at
      b == ToBkt(hh[r].key, 2 * tbl.num_buckets)
      later == IF hh[r].hh_next # Null THEN hh[r].hh_next
               ELSE FirstFrom(tbl.buckets, ToBkt(hh[r].key, tbl.num_buckets) + 1)
  IN /\ writer.pc = "move" /\ r # Null
     /\ hh' = PushHandles(hh, grown, b, r)
     /\ grown' = [PushBucket(grown, b, r) EXCEPT ![b] = Multiplied(@)]
     /\ writer' = [writer EXCEPT !.at = later]
     /\ Disturb
     /\ UNCHANGED <<head, freed, tbl>>

(* All are moved: the old array is freed, then the number of buckets       *)
(* doubled, then the new array installed.                                  *)
FreeBuckets ==
  /\ writer.at = Null
  /\ WriterGoes("move", "double")
  /\ Disturb
  /\ UNCHANGED <<head, hh, freed, tbl, grown>>

(* Slip: the number of buckets is not doubled.                             *)
DoubleForgotten ==
  /\ WriterGoes("double", "install")
  /\ Disturb
  /\ UNCHANGED <<head, hh, freed, tbl, grown>>

DoubleBuckets ==
  /\ WriterGoes("double", "install")
  /\ tbl' = [tbl EXCEPT !.num_buckets = 2 * @]
  /\ Disturb
  /\ UNCHANGED <<head, hh, freed, grown>>

(* nonideal_items: how many moves made a chain longer than the ideal.      *)
Nonideal ==
  LET ideal == (tbl.num_items + tbl.num_buckets - 1) \div tbl.num_buckets
  IN Cardinality({move \in (DOMAIN grown) \X Items :
                    move[2] > ideal /\ move[2] <= grown[move[1]].count})

(* After two expansions in a row that did not help, there are no more.     *)
InstallBuckets ==
  LET ineff == IF Nonideal > tbl.num_items \div 2 THEN tbl.ineff_expands + 1 ELSE 0
  IN /\ writer.pc = "install"
     /\ writer' = WriterIdle
     /\ tbl' = [tbl EXCEPT !.buckets = grown, !.expands = @ + 1,
                           !.ineff_expands = ineff,
                           !.noexpand = @ \/ ineff > 1]
     /\ grown' = <<>>
     /\ Disturb
     /\ UNCHANGED <<head, hh, freed>>

-------------------------------------------------------------------------------
(* HASH_DELETE, and the kfree that always follows it.                      *)

(* Slip: the successor in the bucket is not told of its new predecessor.   *)
UnlinkOneWay(h, r) ==
  [i \in DOMAIN h |->
     [h[i] EXCEPT
        !.next    = IF i = h[r].prev THEN h[r].next ELSE @,
        !.prev    = IF i = h[r].next THEN h[r].prev ELSE @,
        !.hh_next = IF i = h[r].hh_prev THEN h[r].hh_next ELSE @]]

(* Record r taken out of the list and, by HASH_DEL_IN_BKT, of its chain.   *)
Unlink(h, r) ==
  [i \in DOMAIN h |->
     [h[i] EXCEPT
        !.next    = IF i = h[r].prev THEN h[r].next ELSE @,
        !.prev    = IF i = h[r].next THEN h[r].prev ELSE @,
        !.hh_next = IF i = h[r].hh_prev THEN h[r].hh_next ELSE @,
        !.hh_prev = IF i = h[r].hh_next THEN h[r].hh_prev ELSE @]]

BucketWithout(bucket, r) ==
  [bucket EXCEPT !.count = @ - 1,
                 !.hh_head = IF @ = r THEN hh[r].hh_next ELSE @]

(* The last record takes the table with it.                                *)
Delete(r) ==
  /\ freed' = freed \cup {r}
  /\ \/ /\ hh[r].prev = Null /\ hh[r].next = Null
        /\ head' = Null
        /\ tbl' = NoTable
        /\ UNCHANGED hh
     \/ /\ hh[r].prev # Null \/ hh[r].next # Null
        /\ head' = IF hh[r].prev = Null THEN hh[r].next ELSE head
        /\ tbl' = [tbl EXCEPT
                     !.tail = IF @ = r THEN hh[r].prev ELSE @,
                     !.num_items = @ - 1,
                     !.buckets[ToBkt(hh[r].key, tbl.num_buckets)] =
                       BucketWithout(@, r)]
        /\ hh' = Unlink(hh, r)
  /\ UNCHANGED <<grown, rd>>

(* HASH_ITER with HASH_DEL of each record: p is deleted when its successor *)
(* is already in tmp.                                                      *)
After(r) == IF r = Null THEN Null ELSE hh[r].next

IterStart ==
  \/ head = Null /\ UNCHANGED writer
  \/ head # Null /\ writer' = [pc |-> "iterate", at |-> head, tmp |-> After(head)]

(* Slip: the iteration goes on from the successor of tmp.                  *)
IterDeleteSkipping ==
  LET p == After(writer.tmp)
  IN /\ writer.pc = "iterate"
     /\ writer' = IF p = Null THEN WriterIdle
                  ELSE [writer EXCEPT !.at = p, !.tmp = After(p)]
     /\ Delete(writer.at)

IterDelete ==
  /\ writer.pc = "iterate"
  /\ writer' = IF writer.tmp = Null THEN WriterIdle
               ELSE [writer EXCEPT !.at = writer.tmp, !.tmp = After(writer.tmp)]
  /\ Delete(writer.at)

WriterStep ==
  \/ MakeTable \/ AddToBkt \/ MoveItem
  \/ FreeBuckets \/ DoubleBuckets \/ InstallBuckets
  \/ IterDelete

-------------------------------------------------------------------------------
(* HASH_FIND.                                                              *)

(* The records in chains: the one the writer adds is not yet among them.   *)
Linked == Live \ (IF writer.pc \in {"make", "link"} THEN {writer.at} ELSE {})

(* The records that a lookup of the key can find.                          *)
Holding(key) == {r \in Linked : hh[r].key = key}

(* What the writer's state lets a lookup see that starts now.              *)
Growing == writer.pc \notin {"idle", "link", "iterate"}

LookupGoes(c, here, new) ==
  /\ rd[c].pc = here
  /\ rd' = [rd EXCEPT ![c] = new]
  /\ UNCHANGED tableVars

BeginAt(c, pc, key) ==
  LookupGoes(c, "idle",
    [NoLookup EXCEPT !.pc = pc, !.key = key, !.must = Holding(key) # {},
                     !.calm = ~Growing])

Found(c, r) == [rd[c] EXCEPT !.pc = "done", !.at = r]

(* if (head) ...                                                           *)
FindHead(c) ==
  LookupGoes(c, "head",
             IF head = Null THEN Found(c, Null) ELSE [rd[c] EXCEPT !.pc = "num"])

(* ... HASH_FCN with the head's tbl->num_buckets ...                       *)
FindNum(c) ==
  LookupGoes(c, "num",
             IF tbl = NoTable THEN Found(c, Wild)
             ELSE [rd[c] EXCEPT !.pc = "first", !.num = tbl.num_buckets])

(* An array that is freed: the table's own, until the new one is           *)
(* installed, and afterwards the one of a lookup that began before, which  *)
(* may have read tbl->buckets already.                                     *)
MayReadFreed(c) ==
  writer.pc \in {"double", "install"} \/ (~rd[c].calm /\ tbl.expands > 0)

(* ... and the head of its bucket.  From an array that is freed it reads   *)
(* anything: a head that was there, nothing, or what is not of this table. *)
BucketHeads(c) ==
  LET b == ToBkt(rd[c].key, rd[c].num)
  IN (IF b \in DOMAIN tbl.buckets THEN {tbl.buckets[b].hh_head} ELSE {})
       \cup (IF MayReadFreed(c) THEN Linked \cup {Null, Wild} ELSE {})

(* HASH_FIND_IN_BKT: if (head.hh_head) ...                                 *)
FindFirst(c) ==
  /\ rd[c].pc = "first"
  /\ \E r \in BucketHeads(c) :
       LookupGoes(c, "first", IF r \in Items THEN [rd[c] EXCEPT !.pc = "take"]
                                             ELSE Found(c, r))

(* ... out = head.hh_head.                                                 *)
FindTake(c) ==
  /\ rd[c].pc = "take"
  /\ \E r \in BucketHeads(c) :
       LookupGoes(c, "take", IF r \in Items THEN [rd[c] EXCEPT !.pc = "test", !.at = r]
                                            ELSE Found(c, Wild))

(* The key is compared, and if it differs, if (hh_next) ...                *)
FindTest(c) ==
  LET r == rd[c].at
  IN LookupGoes(c, "test",
                IF hh[r].key = rd[c].key THEN Found(c, r)
                ELSE IF hh[r].hh_next = Null THEN Found(c, Null)
                ELSE [rd[c] EXCEPT !.pc = "next"])

(* ... out = hh_next.                                                      *)
FindNext(c) ==
  LET r == hh[rd[c].at].hh_next
  IN LookupGoes(c, "next",
                IF r = Null THEN Found(c, Wild)
                ELSE [rd[c] EXCEPT !.pc = "test", !.at = r])

FindStep(c) ==
  \/ FindHead(c) \/ FindNum(c) \/ FindFirst(c) \/ FindTake(c)
  \/ FindTest(c) \/ FindNext(c)

FindEnd(c) == LookupGoes(c, "done", NoLookup)
=============================================================================
