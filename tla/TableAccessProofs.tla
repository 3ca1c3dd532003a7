-------------------------- MODULE TableAccessProofs --------------------------
(***************************************************************************)
(* The hash table keeps what it holds and its lookups are right, for every *)
(* number of records, buckets and processors and every hash function.      *)
(*                                                                         *)
(* HASH_FSCK follows the chains from record to record.  What a chain is    *)
(* can be said without following it: there is an order of the records,     *)
(* pos, such that the head of a bucket is the highest of the records that  *)
(* belong there and hh_next and hh_prev name the neighbours in that order. *)
(* A record put in front becomes the highest of all; a record taken out    *)
(* leaves the order of the others as it was.  While HASH_EXPAND_BUCKETS    *)
(* moves the records one by one, U holds those that are still in the       *)
(* chains of the old buckets.                                              *)
(***************************************************************************)
EXTENDS TableAccess, FiniteSetTheorems, SequenceTheorems, TLAPS

-------------------------------------------------------------------------------
(* Orders.                                                                 *)

(* The highest member of S is top, which is Null if there is none.         *)
Top(S, top, pos) ==
  /\ top = Null => S = {}
  /\ top # Null => top \in S /\ \A s \in S : pos[s] <= pos[top]

(* nx gives each member of S the next lower one, or Null.                  *)
Down(S, nx, pos) ==
  \A r \in S :
    /\ nx[r] = Null => \A s \in S : pos[r] <= pos[s]
    /\ nx[r] # Null => /\ nx[r] \in S /\ pos[nx[r]] < pos[r]
                       /\ \A s \in S : pos[s] <= pos[nx[r]] \/ pos[r] <= pos[s]

(* pv gives each member of S the next higher one, or Null.                 *)
Up(S, pv, pos) ==
  \A r \in S :
    /\ pv[r] = Null => \A s \in S : pos[s] <= pos[r]
    /\ pv[r] # Null => /\ pv[r] \in S /\ pos[r] < pos[pv[r]]
                       /\ \A s \in S : pos[s] <= pos[r] \/ pos[pv[r]] <= pos[s]

(* A list that is linked both ways, in the order pos.                      *)
Linkage(S, top, nx, pv, pos) == Top(S, top, pos) /\ Down(S, nx, pos) /\ Up(S, pv, pos)

(* No two records have the same place, and m is above all of them.         *)
Order(pos, m) ==
  /\ pos \in [Items -> Nat] /\ m \in Nat
  /\ \A r \in Items : pos[r] < m
  /\ \A r, s \in Items : pos[r] = pos[s] => r = s

-------------------------------------------------------------------------------
(* The inductive invariant.                                                *)

HhNext(h)    == [r \in DOMAIN h |-> h[r].hh_next]
HhPrev(h)    == [r \in DOMAIN h |-> h[r].hh_prev]
AddedNext(h) == [r \in DOMAIN h |-> h[r].next]
AddedPrev(h) == [r \in DOMAIN h |-> h[r].prev]

(* The records of S that belong in bucket b of n.                          *)
Members(h, S, n, b) == {r \in S : ToBkt(h[r].key, n) = b}

(* The chains of an array of n buckets hold the records S.                 *)
Chained(h, array, S, n, pos) ==
  /\ array \in [0..(n - 1) -> BucketSet]
  /\ \A b \in 0..(n - 1) :
       /\ Linkage(Members(h, S, n, b), array[b].hh_head, HhNext(h), HhPrev(h), pos)
       /\ array[b].count = Cardinality(Members(h, S, n, b))

(* The oldest record is the highest in the list in order of addition.      *)
Age == [r \in Items |-> MaxRecords - r]

TableSet == [num_buckets : Nat \ {0}, num_items : 0..MaxRecords, tail : Items,
             ineff_expands : Nat, noexpand : BOOLEAN, expands : Nat,
             buckets : UNION {[0..(n - 1) -> BucketSet] : n \in Nat}]
WriterSet == [pc : {"idle", "make", "link", "move", "double", "install", "iterate"},
              at : Pointers, tmp : Pointers]
LookupSet == [pc : {"idle", "lock", "head", "num", "first", "take", "test",
                    "next", "done"},
              key : Keys, num : Nat, at : Pointers \cup {Wild},
              must : BOOLEAN, calm : BOOLEAN]

Typed ==
  /\ head \in Pointers
  /\ hh \in Seq(HandleSet) /\ Len(hh) <= MaxRecords
  /\ freed \subseteq DOMAIN hh
  /\ tbl \in TableSet \cup {NoTable}
  /\ \A b \in DOMAIN grown : grown[b] \in BucketSet
  /\ writer \in WriterSet
  /\ rd \in [Cpus -> LookupSet]
  /\ user \in {"locked", "middlebox", "emulator"}
  /\ loaded \in BOOLEAN

(* What the writer's place says of the table, and of the hooks.            *)
Control ==
  /\ tbl = NoTable <=> head = Null \/ writer.pc = "make"
  /\ writer.pc \in {"make", "link"} => writer.at = Len(hh) /\ writer.at \in Live
  /\ writer.pc = "make" => Live = {writer.at}
  /\ writer.pc # "idle" => head # Null
  /\ writer.pc = "iterate" =>
       writer.at = head /\ writer.tmp = hh[head].next /\ ~loaded
  /\ ~loaded => /\ writer.pc \in {"idle", "iterate"}
                /\ writer.pc = "idle" => head = Null
                /\ \A c \in Cpus : rd[c].pc = "idle"

(* The list in order of addition, and the counter.                         *)
ListInv ==
  /\ Linkage(Live, head, AddedNext(hh), AddedPrev(hh), Age)
  /\ tbl # NoTable => /\ tbl.tail \in Live /\ \A s \in Live : s <= tbl.tail
                      /\ tbl.num_items = Cardinality(Linked)

(* What is still to be moved, U: the rest of the chain the writer is in,   *)
(* which begins with the record it moves next, and the buckets after it.   *)
StillFirst(h, array, n, at, b) ==
  IF at = Null \/ b < ToBkt(h[at].key, n) THEN Null
  ELSE IF b = ToBkt(h[at].key, n) THEN at ELSE array[b].hh_head

Moving(at, h, array, n, U, pos) ==
  /\ at \in U \cup {Null}
  /\ \A b \in 0..(n - 1) : /\ Top(Members(h, U, n, b), StillFirst(h, array, n, at, b), pos)
                          /\ Down(Members(h, U, n, b), HhNext(h), pos)

Settled == writer.pc \in {"idle", "link", "iterate"} /\ tbl # NoTable

ChainInv(pos, U) ==
  /\ Settled => Chained(hh, tbl.buckets, Linked, tbl.num_buckets, pos)
  /\ writer.pc = "move" =>
       /\ U \subseteq Live
       /\ tbl.buckets \in [0..(tbl.num_buckets - 1) -> BucketSet]
       /\ Moving(writer.at, hh, tbl.buckets, tbl.num_buckets, U, pos)
       /\ Chained(hh, grown, Live \ U, 2 * tbl.num_buckets, pos)
  /\ writer.pc = "double" => Chained(hh, grown, Live, 2 * tbl.num_buckets, pos)
  /\ writer.pc = "install" => Chained(hh, grown, Live, tbl.num_buckets, pos)
  /\ tbl # NoTable =>
       \A b \in DOMAIN tbl.buckets : tbl.buckets[b].hh_head \in Linked \cup {Null}

(* Before the first expansion a chain has the newest record first.         *)
NewestFirst(pos) ==
  Settled /\ tbl.expands = 0 => \A r, s \in Linked : r < s => pos[r] < pos[s]

(* A lookup has not yet passed r, and a lookup that is done found it or    *)
(* something above it.                                                     *)
Ahead(c, r, pos) ==
  /\ rd[c].pc \in {"test", "done"} => rd[c].at \in Items /\ pos[r] <= pos[rd[c].at]
  /\ rd[c].pc = "next" => pos[r] < pos[rd[c].at]

(* Where a lookup is, whatever the writer does.                            *)
Underway(c) ==
  /\ rd[c].pc \in {"first", "take", "test", "next"} => tbl # NoTable
  /\ rd[c].pc \in {"test", "next"} => rd[c].at \in Linked
  /\ rd[c].pc = "done" /\ rd[c].at \in Items =>
       rd[c].at \in Linked /\ hh[rd[c].at].key = rd[c].key

(* Where it is when no making or expansion of the table overlaps it.       *)
Undisturbed(c, pos) ==
  (Reading(c) /\ rd[c].calm) =>
    /\ ~Growing
    /\ rd[c].pc = "num" => tbl # NoTable
    /\ rd[c].pc \in {"first", "take"} => rd[c].num = tbl.num_buckets
    /\ rd[c].pc = "take" =>
         tbl.buckets[ToBkt(rd[c].key, tbl.num_buckets)].hh_head # Null
    /\ rd[c].pc \in {"test", "next"} =>
         ToBkt(hh[rd[c].at].key, tbl.num_buckets) = ToBkt(rd[c].key, tbl.num_buckets)
    /\ rd[c].pc = "next" => hh[rd[c].at].hh_next # Null
    /\ rd[c].pc = "done" => rd[c].at # Wild
    /\ rd[c].must => \E r \in Holding(rd[c].key) : Ahead(c, r, pos)

(* Under the lock it has passed none of the records of its key.            *)
Excluded(c, pos) ==
  (Locked /\ Reading(c)) =>
    /\ writer.pc = "idle" /\ rd[c].calm
    /\ \A r \in Holding(rd[c].key) : Ahead(c, r, pos)

LookupInv(pos) ==
  \A c \in Cpus : Underway(c) /\ Undisturbed(c, pos) /\ Excluded(c, pos)

Inner(pos, m, U) ==
  /\ Order(pos, m)
  /\ Typed /\ Control /\ ListInv
  /\ ChainInv(pos, U) /\ NewestFirst(pos) /\ LookupInv(pos)

IInv == \E pos \in [Items -> Nat], m \in Nat, U \in SUBSET Items : Inner(pos, m, U)

-------------------------------------------------------------------------------
(* Lists that are linked both ways.                                        *)

(* A linkage says nothing of the links of other records.                   *)
LEMMA LinkageSame ==
  ASSUME NEW S, NEW top, NEW nx, NEW pv, NEW pos,
         NEW nx2, NEW pv2, NEW pos2,
         \A s \in S : nx2[s] = nx[s] /\ pv2[s] = pv[s] /\ pos2[s] = pos[s],
         Linkage(S, top, nx, pv, pos)
  PROVE  Linkage(S, top, nx2, pv2, pos2)
<1>1. Top(S, top, pos2)
  BY DEF Linkage, Top
<1>2. Down(S, nx2, pos2)
  BY DEF Linkage, Down
<1>3. Up(S, pv2, pos2)
  BY DEF Linkage, Up
<1> QED BY <1>1, <1>2, <1>3 DEF Linkage

(* A new record above all others is put in front.                          *)
LEMMA LinkagePush ==
  ASSUME NEW pos, NEW m, Order(pos, m),
         NEW S, S \subseteq Items, NEW top, NEW nx, NEW pv, Linkage(S, top, nx, pv, pos),
         NEW r \in Items \ S, NEW nx2, NEW pv2,
         nx2[r] = top, pv2[r] = Null,
         \A s \in S : nx2[s] = nx[s] /\ pv2[s] = IF s = top THEN r ELSE pv[s]
  PROVE  Linkage(S \cup {r}, r, nx2, pv2, [pos EXCEPT ![r] = m])
<1> DEFINE T == S \cup {r}
           pos2 == [pos EXCEPT ![r] = m]
<1>1. /\ pos2[r] = m /\ m \in Nat
      /\ \A s \in S : pos2[s] = pos[s] /\ pos[s] \in Nat /\ pos[s] < m /\ s # r
  BY DEF Order
<1>2. Null \notin T
  BY DEF Items, Null
<1> HIDE DEF pos2
<1>3. Top(T, r, pos2)
  BY <1>1, <1>2 DEF Top
<1>4. Down(T, nx2, pos2)
  <2> SUFFICES ASSUME NEW q \in T
               PROVE  /\ nx2[q] = Null => \A s \in T : pos2[q] <= pos2[s]
                      /\ nx2[q] # Null =>
                           /\ nx2[q] \in T /\ pos2[nx2[q]] < pos2[q]
                           /\ \A s \in T : pos2[s] <= pos2[nx2[q]] \/ pos2[q] <= pos2[s]
    BY Zenon DEF Down
  <2>1. CASE q = r
    BY <2>1, <1>1, <1>2 DEF Linkage, Top
  <2>2. CASE q \in S
    BY <2>2, <1>1, <1>2 DEF Linkage, Down
  <2> QED BY <2>1, <2>2
<1>5. Up(T, pv2, pos2)
  <2> SUFFICES ASSUME NEW q \in T
               PROVE  /\ pv2[q] = Null => \A s \in T : pos2[s] <= pos2[q]
                      /\ pv2[q] # Null =>
                           /\ pv2[q] \in T /\ pos2[q] < pos2[pv2[q]]
                           /\ \A s \in T : pos2[s] <= pos2[q] \/ pos2[pv2[q]] <= pos2[s]
    BY Zenon DEF Up
  <2>1. CASE q = r
    BY <2>1, <1>1, <1>2
  <2>2. CASE q \in S /\ q = top
    BY <2>2, <1>1, <1>2 DEF Linkage, Top
  <2>3. CASE q \in S /\ q # top
    <3>1. top \in S /\ pos[q] < pos[top]
      BY <2>3, <1>1, <1>2 DEF Linkage, Top, Order
    <3> QED BY <2>3, <3>1, <1>1, <1>2 DEF Linkage, Up
  <2> QED BY <2>1, <2>2, <2>3
<1> QED BY <1>3, <1>4, <1>5 DEF Linkage, pos2

(* The two links of neighbours agree, and the highest is the first.        *)
LEMMA LinkageNext ==
  ASSUME NEW pos, NEW m, Order(pos, m), NEW S, S \subseteq Items,
         NEW top, NEW nx, NEW pv, Linkage(S, top, nx, pv, pos), NEW r \in S
  PROVE  nx[r] # Null => nx[r] \in S /\ pv[nx[r]] = r
<1>1. /\ \A s \in S : s \in Items /\ pos[s] \in Nat /\ s # Null
      /\ \A s, t \in S : pos[s] = pos[t] => s = t
  BY DEF Order, Items, Null
<1> QED BY <1>1 DEF Linkage, Down, Up

(* A record's predecessor has it as its successor.                         *)
LEMMA LinkagePrev ==
  ASSUME NEW pos, NEW m, Order(pos, m), NEW S, S \subseteq Items,
         NEW top, NEW nx, NEW pv, Linkage(S, top, nx, pv, pos), NEW r \in S
  PROVE  pv[r] # Null => pv[r] \in S /\ nx[pv[r]] = r
<1>1. /\ \A s \in S : s \in Items /\ pos[s] \in Nat /\ s # Null
      /\ \A s, t \in S : pos[s] = pos[t] => s = t
  BY DEF Order, Items, Null
<1> QED BY <1>1 DEF Linkage, Down, Up

(* Only the first record has no predecessor.                               *)
LEMMA LinkageFirst ==
  ASSUME NEW pos, NEW m, Order(pos, m), NEW S, S \subseteq Items,
         NEW top, NEW nx, NEW pv, Linkage(S, top, nx, pv, pos), NEW r \in S
  PROVE  pv[r] = Null <=> top = r
<1>1. /\ \A s \in S : s \in Items /\ pos[s] \in Nat /\ s # Null
      /\ \A s, t \in S : pos[s] = pos[t] => s = t
  BY DEF Order, Items, Null
<1> QED BY <1>1 DEF Linkage, Top, Up

(* A record is taken out, and its neighbours are told.                     *)
Bypass(S, r, nx, pv, nx2, pv2) ==
  \A s \in S \ {r} : /\ nx2[s] = IF s = pv[r] THEN nx[r] ELSE nx[s]
                     /\ pv2[s] = IF s = nx[r] THEN pv[r] ELSE pv[s]

(* A list without one of its records is a list in the same order.          *)
LEMMA LinkageRemove ==
  ASSUME NEW pos, NEW m, Order(pos, m),
         NEW S, S \subseteq Items, NEW top, NEW nx, NEW pv, Linkage(S, top, nx, pv, pos),
         NEW r \in S, NEW top2, top2 = (IF top = r THEN nx[r] ELSE top),
         NEW nx2, NEW pv2, Bypass(S, r, nx, pv, nx2, pv2)
  PROVE  Linkage(S \ {r}, top2, nx2, pv2, pos)
<1> DEFINE T == S \ {r}
<1>1. \A s \in S : s \in Items /\ pos[s] \in Nat /\ s # Null
  BY DEF Order, Items, Null
<1>2. \A s, t \in S : pos[s] = pos[t] => s = t
  BY DEF Order
<1>3. \A s \in S : /\ nx[s] # Null => nx[s] \in S /\ pv[nx[s]] = s
                   /\ pv[s] # Null => pv[s] \in S /\ nx[pv[s]] = s
                   /\ pv[s] = Null <=> top = s
  <2> SUFFICES ASSUME NEW s \in S
               PROVE  /\ nx[s] # Null => nx[s] \in S /\ pv[nx[s]] = s
                      /\ pv[s] # Null => pv[s] \in S /\ nx[pv[s]] = s
                      /\ pv[s] = Null <=> top = s
    OBVIOUS
  <2>1. nx[s] # Null => nx[s] \in S /\ pv[nx[s]] = s
    BY LinkageNext
  <2>2. pv[s] # Null => pv[s] \in S /\ nx[pv[s]] = s
    BY LinkagePrev
  <2>3. pv[s] = Null <=> top = s
    BY LinkageFirst
  <2> QED BY <2>1, <2>2, <2>3
<1>4. Top(T, top2, pos)
  BY <1>1, <1>2 DEF Linkage, Top, Down
<1>5. Down(T, nx2, pos)
  <2> SUFFICES ASSUME NEW q \in T
               PROVE  /\ nx2[q] = Null => \A s \in T : pos[q] <= pos[s]
                      /\ nx2[q] # Null =>
                           /\ nx2[q] \in T /\ pos[nx2[q]] < pos[q]
                           /\ \A s \in T : pos[s] <= pos[nx2[q]] \/ pos[q] <= pos[s]
    BY Zenon DEF Down
  <2>1. CASE q = pv[r]
    <3>1. nx2[q] = nx[r] /\ nx[q] = r
      BY <2>1, <1>1, <1>3 DEF Bypass
    <3> QED BY <2>1, <3>1, <1>1, <1>2 DEF Linkage, Down
  <2>2. CASE q # pv[r]
    <3>1. nx2[q] = nx[q] /\ nx[q] # r
      BY <2>2, <1>1, <1>3 DEF Bypass
    <3> QED BY <3>1, <1>1 DEF Linkage, Down
  <2> QED BY <2>1, <2>2
<1>6. Up(T, pv2, pos)
  <2> SUFFICES ASSUME NEW q \in T
               PROVE  /\ pv2[q] = Null => \A s \in T : pos[s] <= pos[q]
                      /\ pv2[q] # Null =>
                           /\ pv2[q] \in T /\ pos[q] < pos[pv2[q]]
                           /\ \A s \in T : pos[s] <= pos[q] \/ pos[pv2[q]] <= pos[s]
    BY Zenon DEF Up
  <2>1. CASE q = nx[r]
    <3>1. pv2[q] = pv[r] /\ pv[q] = r
      BY <2>1, <1>1, <1>3 DEF Bypass
    <3> QED BY <2>1, <3>1, <1>1, <1>2 DEF Linkage, Up
  <2>2. CASE q # nx[r]
    <3>1. pv2[q] = pv[q] /\ pv[q] # r
      BY <2>2, <1>1, <1>3 DEF Bypass
    <3> QED BY <3>1, <1>1 DEF Linkage, Up
  <2> QED BY <2>1, <2>2
<1> QED BY <1>4, <1>5, <1>6 DEF Linkage

(* A record below all others is put behind the last one, tail.             *)
LEMMA LinkageAppend ==
  ASSUME NEW pos, NEW m, Order(pos, m),
         NEW S, S \subseteq Items, NEW top, NEW nx, NEW pv, Linkage(S, top, nx, pv, pos),
         NEW tail \in S, \A s \in S : pos[tail] <= pos[s],
         NEW r \in Items \ S, \A s \in S : pos[r] < pos[s], NEW nx2, NEW pv2,
         nx2[r] = Null, pv2[r] = tail,
         \A s \in S : nx2[s] = (IF s = tail THEN r ELSE nx[s]) /\ pv2[s] = pv[s]
  PROVE  Linkage(S \cup {r}, top, nx2, pv2, pos)
<1> DEFINE T == S \cup {r}
<1>1. /\ \A s \in T : s \in Items /\ pos[s] \in Nat /\ s # Null
      /\ \A s, t \in T : pos[s] = pos[t] => s = t
  BY DEF Order, Items, Null
<1>2. Top(T, top, pos)
  BY <1>1 DEF Linkage, Top
<1>3. Down(T, nx2, pos)
  <2> SUFFICES ASSUME NEW q \in T
               PROVE  /\ nx2[q] = Null => \A s \in T : pos[q] <= pos[s]
                      /\ nx2[q] # Null =>
                           /\ nx2[q] \in T /\ pos[nx2[q]] < pos[q]
                           /\ \A s \in T : pos[s] <= pos[nx2[q]] \/ pos[q] <= pos[s]
    BY Zenon DEF Down
  <2>1. CASE q = r
    BY <2>1, <1>1
  <2>2. CASE q \in S /\ q = tail
    BY <2>2, <1>1
  <2>3. CASE q \in S /\ q # tail
    <3>1. nx2[q] = nx[q] /\ nx[q] # Null
      BY <2>3, <1>1 DEF Linkage, Down
    <3> QED BY <2>3, <3>1, <1>1 DEF Linkage, Down
  <2> QED BY <2>1, <2>2, <2>3
<1>4. Up(T, pv2, pos)
  <2> SUFFICES ASSUME NEW q \in T
               PROVE  /\ pv2[q] = Null => \A s \in T : pos[s] <= pos[q]
                      /\ pv2[q] # Null =>
                           /\ pv2[q] \in T /\ pos[q] < pos[pv2[q]]
                           /\ \A s \in T : pos[s] <= pos[q] \/ pos[pv2[q]] <= pos[s]
    BY Zenon DEF Up
  <2>1. CASE q = r
    BY <2>1, <1>1
  <2>2. CASE q \in S
    BY <2>2, <1>1 DEF Linkage, Up
  <2> QED BY <2>1, <2>2
<1> QED BY <1>2, <1>3, <1>4 DEF Linkage

(* A record that becomes the highest leaves an order.                      *)
LEMMA OrderRaise ==
  ASSUME NEW pos, NEW m, Order(pos, m), NEW r \in Items
  PROVE  Order([pos EXCEPT ![r] = m], m + 1)
  BY DEF Order

(* The list of added records is in the order of their age.                 *)
LEMMA AgeOrder == Order(Age, MaxRecords)
  BY SizesAssumption DEF Order, Age, Items

-------------------------------------------------------------------------------
(* Buckets.                                                                *)

(* The mask of n - 1 leaves a bucket's number.                             *)
LEMMA ToBktType ==
  ASSUME NEW key \in Keys, NEW n \in Nat \ {0}
  PROVE  ToBkt(key, n) \in 0..(n - 1)
  BY HashAssumption DEF ToBkt

(* Sets of records are finite.                                             *)
LEMMA RecordsFinite ==
  ASSUME NEW S \in SUBSET Items
  PROVE  /\ IsFiniteSet(S) /\ Cardinality(S) \in 0..MaxRecords
         /\ Cardinality(S) = 0 <=> S = {}
<1>1. IsFiniteSet(Items) /\ Cardinality(Items) = MaxRecords
  BY SizesAssumption, FS_Interval DEF Items
<1>2. IsFiniteSet(S) /\ Cardinality(S) <= MaxRecords
  BY <1>1, FS_Subset
<1>3. Cardinality(S) \in Nat /\ (Cardinality(S) = 0 <=> S = {})
  BY <1>2, FS_CardinalityType, FS_EmptySet
<1> QED BY <1>2, <1>3, SizesAssumption

(* The fields of the handles.                                              *)
LEMMA HandlesType ==
  ASSUME NEW h \in Seq(HandleSet), Len(h) <= MaxRecords
  PROVE  /\ DOMAIN h = 1..Len(h) /\ Len(h) \in Nat /\ DOMAIN h \subseteq Items
         /\ \A i \in DOMAIN h :
              /\ h[i] \in HandleSet /\ h[i].key \in Keys
              /\ h[i].next \in Pointers /\ h[i].prev \in Pointers
              /\ h[i].hh_next \in Pointers /\ h[i].hh_prev \in Pointers
<1>1. DOMAIN h = 1..Len(h) /\ Len(h) \in Nat /\ \A i \in DOMAIN h : h[i] \in HandleSet
  BY LenProperties
<1>2. DOMAIN h \subseteq Items
  BY <1>1, SizesAssumption DEF Items
<1> QED BY <1>1, <1>2 DEF HandleSet

(* Nothing but the links of the members matters to the chains.             *)
LEMMA ChainedSame ==
  ASSUME NEW h \in Seq(HandleSet), NEW h2 \in Seq(HandleSet),
         NEW n, NEW array, NEW S, NEW pos, NEW pos2,
         S \subseteq DOMAIN h, DOMAIN h \subseteq DOMAIN h2,
         \A s \in S : /\ h2[s].key = h[s].key /\ pos2[s] = pos[s]
                      /\ h2[s].hh_next = h[s].hh_next /\ h2[s].hh_prev = h[s].hh_prev,
         Chained(h, array, S, n, pos)
  PROVE  Chained(h2, array, S, n, pos2)
<1> SUFFICES ASSUME NEW b \in 0..(n - 1)
             PROVE  /\ Linkage(Members(h2, S, n, b), array[b].hh_head,
                               HhNext(h2), HhPrev(h2), pos2)
                    /\ array[b].count = Cardinality(Members(h2, S, n, b))
  BY DEF Chained
<1> DEFINE M == Members(h, S, n, b)
<1>1. Members(h2, S, n, b) = M
  BY DEF Members
<1>2. Linkage(M, array[b].hh_head, HhNext(h), HhPrev(h), pos)
      /\ array[b].count = Cardinality(M)
  BY DEF Chained
<1>3. \A s \in M : /\ HhNext(h2)[s] = HhNext(h)[s] /\ HhPrev(h2)[s] = HhPrev(h)[s]
                   /\ pos2[s] = pos[s]
  BY DEF Members, HhNext, HhPrev
<1> QED BY <1>1, <1>2, <1>3, LinkageSame

(* Empty buckets hold no records.                                          *)
LEMMA ChainedNone ==
  ASSUME NEW h, NEW n \in Nat, NEW array, array = [b \in 0..(n - 1) |-> EmptyBucket], NEW pos
  PROVE  Chained(h, array, {}, n, pos)
<1>1. array \in [0..(n - 1) -> BucketSet]
  BY DEF EmptyBucket, BucketSet, Pointers
<1> SUFFICES ASSUME NEW b \in 0..(n - 1)
             PROVE  /\ Linkage(Members(h, {}, n, b), array[b].hh_head,
                               HhNext(h), HhPrev(h), pos)
                    /\ array[b].count = Cardinality(Members(h, {}, n, b))
  BY <1>1 DEF Chained
<1>2. Members(h, {}, n, b) = {} /\ Cardinality({}) = 0
  BY FS_EmptySet DEF Members
<1> QED BY <1>2 DEF EmptyBucket, Linkage, Top, Down, Up

(* What PushHandles does to the handles.                                   *)
LEMMA PushHandlesFacts ==
  ASSUME NEW h \in Seq(HandleSet), Len(h) <= MaxRecords, NEW array, NEW b,
         array[b] \in BucketSet, NEW r \in DOMAIN h, array[b].hh_head # r
  PROVE  LET h2 == PushHandles(h, array, b, r)
         IN /\ h2 \in Seq(HandleSet) /\ Len(h2) = Len(h) /\ DOMAIN h2 = DOMAIN h
            /\ \A i \in DOMAIN h :
                 /\ h2[i].key = h[i].key
                 /\ h2[i].next = h[i].next /\ h2[i].prev = h[i].prev
                 /\ h2[i].hh_next = IF i = r THEN array[b].hh_head ELSE h[i].hh_next
                 /\ h2[i].hh_prev = IF i = r THEN Null
                                    ELSE IF i = array[b].hh_head THEN r ELSE h[i].hh_prev
<1> DEFINE h2 == PushHandles(h, array, b, r)
           top == array[b].hh_head
<1>1. DOMAIN h = 1..Len(h) /\ Len(h) \in Nat /\ \A i \in DOMAIN h : h[i] \in HandleSet
  BY LenProperties
<1>2. r \in Pointers /\ top \in Pointers /\ Null \in Pointers
  BY <1>1, SizesAssumption DEF BucketSet, Pointers, Items
<1>3. DOMAIN h2 = DOMAIN h
  BY DEF PushHandles
<1>4. ASSUME NEW i \in DOMAIN h
      PROVE  /\ h2[i] \in HandleSet /\ h2[i].key = h[i].key
             /\ h2[i].next = h[i].next /\ h2[i].prev = h[i].prev
             /\ h2[i].hh_next = IF i = r THEN top ELSE h[i].hh_next
             /\ h2[i].hh_prev = IF i = r THEN Null
                                ELSE IF i = top THEN r ELSE h[i].hh_prev
  <2>1. h[i] \in HandleSet
    BY <1>1
  <2>2. CASE i = r
    <3>1. h2[i] = [h[i] EXCEPT !.hh_next = top, !.hh_prev = Null]
      BY <2>2 DEF PushHandles
    <3> QED BY <3>1, <2>1, <2>2, <1>2 DEF HandleSet
  <2>3. CASE i # r /\ i = top
    <3>1. h2[i] = [h[i] EXCEPT !.hh_prev = r]
      BY <2>3 DEF PushHandles
    <3> QED BY <3>1, <2>1, <2>3, <1>2 DEF HandleSet
  <2>4. CASE i # r /\ i # top
    <3>1. h2[i] = h[i]
      BY <2>4 DEF PushHandles
    <3> QED BY <3>1, <2>1, <2>4
  <2> QED BY <2>2, <2>3, <2>4
<1>5. h2 \in Seq(HandleSet) /\ Len(h2) = Len(h)
  <2>1. h2 = [i \in 1..Len(h) |-> h2[i]]
    BY <1>1 DEF PushHandles
  <2>2. \A i \in 1..Len(h) : h2[i] \in HandleSet
    BY <1>1, <1>4
  <2> HIDE DEF h2
  <2>3. h2 \in [1..Len(h) -> HandleSet]
    BY <2>1, <2>2
  <2>4. h2 \in Seq(HandleSet)
    BY <2>3, <1>1, SeqDef
  <2> QED BY <2>3, <2>4, <1>1, LenProperties
<1> QED BY <1>3, <1>4, <1>5

(* Record r, above all others, is put in front of its bucket.              *)
LEMMA ChainedPush ==
  ASSUME NEW pos, NEW m, Order(pos, m),
         NEW h \in Seq(HandleSet), Len(h) <= MaxRecords, NEW n \in Nat \ {0},
         NEW array, NEW S, S \subseteq DOMAIN h, Chained(h, array, S, n, pos),
         NEW r \in DOMAIN h \ S, NEW array2 \in [0..(n - 1) -> BucketSet],
         NEW b, b = ToBkt(h[r].key, n),
         array2[b].hh_head = r, array2[b].count = array[b].count + 1,
         \A i \in 0..(n - 1) : i # b => array2[i] = array[i]
  PROVE  Chained(PushHandles(h, array, b, r), array2, S \cup {r}, n, [pos EXCEPT ![r] = m])
<1> DEFINE h2 == PushHandles(h, array, b, r)
           pos2 == [pos EXCEPT ![r] = m]
           T == S \cup {r}
           top == array[b].hh_head
<1>1. /\ DOMAIN h = 1..Len(h) /\ Len(h) \in Nat /\ h[r].key \in Keys
      /\ S \in SUBSET Items /\ r \in Items
  BY HandlesType
<1>2. b \in 0..(n - 1) /\ array[b] \in BucketSet
  BY <1>1, ToBktType DEF Chained
<1>3. \A i \in 0..(n - 1) :
        /\ Linkage(Members(h, S, n, i), array[i].hh_head, HhNext(h), HhPrev(h), pos)
        /\ array[i].count = Cardinality(Members(h, S, n, i))
  BY DEF Chained
<1>4. top # r
  <2>1. Top(Members(h, S, n, b), top, pos)
    BY <1>2, <1>3 DEF Linkage
  <2> QED BY <1>1, <2>1 DEF Top, Members, Null, Items
<1>5. /\ h2 \in Seq(HandleSet) /\ DOMAIN h2 = DOMAIN h
      /\ \A i \in DOMAIN h :
           /\ h2[i].key = h[i].key
           /\ h2[i].hh_next = IF i = r THEN top ELSE h[i].hh_next
           /\ h2[i].hh_prev = IF i = r THEN Null
                              ELSE IF i = top THEN r ELSE h[i].hh_prev
  <2>1. array[b] \in BucketSet /\ r \in DOMAIN h
    BY <1>2
  <2> QED BY <2>1, <1>4, PushHandlesFacts, SMTT(30)
<1> HIDE DEF h2
<1>6. /\ \A i \in S : HhNext(h2)[i] = HhNext(h)[i]
                     /\ HhPrev(h2)[i] = IF i = top THEN r ELSE HhPrev(h)[i]
      /\ HhNext(h2)[r] = top /\ HhPrev(h2)[r] = Null
  BY <1>5 DEF HhNext, HhPrev
<1> SUFFICES ASSUME NEW i \in 0..(n - 1)
             PROVE  /\ Linkage(Members(h2, T, n, i), array2[i].hh_head,
                               HhNext(h2), HhPrev(h2), pos2)
                    /\ array2[i].count = Cardinality(Members(h2, T, n, i))
  BY Zenon DEF Chained, h2
<1> DEFINE M == Members(h, S, n, i)
<1>7. M \in SUBSET Items /\ r \notin M /\ M \subseteq S
  BY <1>1 DEF Members
<1>8. CASE i = b
  <2>1. Members(h2, T, n, i) = M \cup {r}
    BY <1>5, <1>8 DEF Members
  <2>2. Linkage(M, top, HhNext(h), HhPrev(h), pos) /\ array[i].count = Cardinality(M)
    BY <1>3, <1>8
  <2>3. Linkage(M \cup {r}, r, HhNext(h2), HhPrev(h2), pos2)
    <3>1. r \in Items \ M
      BY <1>1, <1>7
    <3>2. \A s \in M : HhNext(h2)[s] = HhNext(h)[s]
                       /\ HhPrev(h2)[s] = IF s = top THEN r ELSE HhPrev(h)[s]
      BY <1>6, <1>7
    <3> HIDE DEF M, top
    <3> QED BY <3>1, <3>2, <2>2, <1>6, <1>7, LinkagePush
  <2>4. Cardinality(M \cup {r}) = Cardinality(M) + 1
    BY <1>7, RecordsFinite, FS_AddElement
  <2> QED BY <2>1, <2>2, <2>3, <2>4, <1>8
<1>9. CASE i # b
  <2>1. Members(h2, T, n, i) = M
    BY <1>5, <1>9 DEF Members
  <2>2. Linkage(M, array[i].hh_head, HhNext(h), HhPrev(h), pos)
        /\ array2[i] = array[i] /\ array[i].count = Cardinality(M)
    BY <1>3, <1>9
  <2>3. top \notin M
    <3>1. top = Null \/ top \in Members(h, S, n, b)
      BY <1>2, <1>3 DEF Linkage, Top
    <3> QED BY <3>1, <1>7, <1>9 DEF Members, Null, Items
  <2>4. \A s \in M : /\ HhNext(h2)[s] = HhNext(h)[s] /\ HhPrev(h2)[s] = HhPrev(h)[s]
                     /\ pos2[s] = pos[s]
    BY <1>6, <1>7, <2>3 DEF Order
  <2> HIDE DEF M, pos2
  <2>5. Linkage(M, array[i].hh_head, HhNext(h2), HhPrev(h2), pos2)
    BY <2>2, <2>4, LinkageSame
  <2> QED BY <2>1, <2>2, <2>5
<1> QED BY <1>8, <1>9

(* What Unlink does to the handles.                                        *)
LEMMA UnlinkFacts ==
  ASSUME NEW h \in Seq(HandleSet), NEW r \in DOMAIN h
  PROVE  LET h2 == Unlink(h, r)
         IN /\ h2 \in Seq(HandleSet) /\ Len(h2) = Len(h) /\ DOMAIN h2 = DOMAIN h
            /\ \A i \in DOMAIN h :
                 /\ h2[i].key = h[i].key
                 /\ h2[i].next = IF i = h[r].prev THEN h[r].next ELSE h[i].next
                 /\ h2[i].prev = IF i = h[r].next THEN h[r].prev ELSE h[i].prev
                 /\ h2[i].hh_next = IF i = h[r].hh_prev THEN h[r].hh_next
                                    ELSE h[i].hh_next
                 /\ h2[i].hh_prev = IF i = h[r].hh_next THEN h[r].hh_prev
                                    ELSE h[i].hh_prev
<1> DEFINE h2 == Unlink(h, r)
<1>1. DOMAIN h = 1..Len(h) /\ Len(h) \in Nat /\ \A i \in DOMAIN h : h[i] \in HandleSet
  BY LenProperties
<1>2. DOMAIN h2 = DOMAIN h
  BY DEF Unlink
<1>3. ASSUME NEW i \in DOMAIN h
      PROVE  /\ h2[i] \in HandleSet /\ h2[i].key = h[i].key
             /\ h2[i].next = IF i = h[r].prev THEN h[r].next ELSE h[i].next
             /\ h2[i].prev = IF i = h[r].next THEN h[r].prev ELSE h[i].prev
             /\ h2[i].hh_next = IF i = h[r].hh_prev THEN h[r].hh_next ELSE h[i].hh_next
             /\ h2[i].hh_prev = IF i = h[r].hh_next THEN h[r].hh_prev ELSE h[i].hh_prev
  <2>1. h[i] \in HandleSet /\ h[r] \in HandleSet
    BY <1>1
  <2>2. h2[i] = [h[i] EXCEPT
        !.next    = IF i = h[r].prev THEN h[r].next ELSE @,
        !.prev    = IF i = h[r].next THEN h[r].prev ELSE @,
        !.hh_next = IF i = h[r].hh_prev THEN h[r].hh_next ELSE @,
        !.hh_prev = IF i = h[r].hh_next THEN h[r].hh_prev ELSE @]
    BY DEF Unlink
  <2> HIDE DEF h2
  <2> QED BY <2>1, <2>2 DEF HandleSet
<1>4. h2 \in Seq(HandleSet) /\ Len(h2) = Len(h)
  <2>1. h2 = [i \in 1..Len(h) |-> h2[i]]
    BY <1>1 DEF Unlink
  <2>2. \A i \in 1..Len(h) : h2[i] \in HandleSet
    BY <1>1, <1>3
  <2> HIDE DEF h2
  <2>3. h2 \in [1..Len(h) -> HandleSet]
    BY <2>1, <2>2
  <2>4. h2 \in Seq(HandleSet)
    BY <2>3, <1>1, SeqDef
  <2> QED BY <2>3, <2>4, <1>1, LenProperties
<1> QED BY <1>2, <1>3, <1>4

(* The array array2 is array without record r in the bucket of its key.    *)
TakenOut(r, h, array, array2, n) ==
  LET b == ToBkt(h[r].key, n)
  IN /\ array2[b].hh_head = IF array[b].hh_head = r THEN h[r].hh_next ELSE array[b].hh_head
     /\ array2[b].count = array[b].count - 1
     /\ \A i \in 0..(n - 1) : i # b => array2[i] = array[i]

(* Record r is taken out of its bucket.                                    *)
LEMMA ChainedUnlink ==
  ASSUME NEW pos, NEW m, Order(pos, m),
         NEW h \in Seq(HandleSet), Len(h) <= MaxRecords, NEW n \in Nat \ {0},
         NEW array, NEW S, S \subseteq DOMAIN h, Chained(h, array, S, n, pos),
         NEW r \in S, NEW array2 \in [0..(n - 1) -> BucketSet],
         TakenOut(r, h, array, array2, n)
  PROVE  Chained(Unlink(h, r), array2, S \ {r}, n, pos)
<1> DEFINE b == ToBkt(h[r].key, n)
           h2 == Unlink(h, r)
           T == S \ {r}
           B == Members(h, S, n, b)
           nx == HhNext(h)
           pv == HhPrev(h)
           nx2 == HhNext(h2)
           pv2 == HhPrev(h2)
<1>1. /\ DOMAIN h = 1..Len(h) /\ Len(h) \in Nat /\ h[r].key \in Keys
      /\ S \in SUBSET Items /\ r \in Items
  BY HandlesType
<1>2. b \in 0..(n - 1) /\ B \in SUBSET Items /\ r \in B
  BY <1>1, ToBktType DEF Members
<1>3. /\ \A i \in 0..(n - 1) :
           /\ Linkage(Members(h, S, n, i), array[i].hh_head, nx, pv, pos)
           /\ array[i].count = Cardinality(Members(h, S, n, i))
      /\ array2[b].hh_head = IF array[b].hh_head = r THEN h[r].hh_next ELSE array[b].hh_head
      /\ array2[b].count = array[b].count - 1
      /\ \A i \in 0..(n - 1) : i # b => array2[i] = array[i]
  BY DEF Chained, TakenOut
<1>4. /\ h2 \in Seq(HandleSet) /\ DOMAIN h2 = DOMAIN h
      /\ \A i \in DOMAIN h :
           /\ h2[i].key = h[i].key
           /\ h2[i].hh_next = IF i = h[r].hh_prev THEN h[r].hh_next ELSE h[i].hh_next
           /\ h2[i].hh_prev = IF i = h[r].hh_next THEN h[r].hh_prev ELSE h[i].hh_prev
  <2>1. r \in DOMAIN h
    OBVIOUS
  <2> QED BY <2>1, UnlinkFacts
<1> HIDE DEF h2
<1>5. \A i \in S : /\ nx2[i] = IF i = pv[r] THEN nx[r] ELSE nx[i]
                   /\ pv2[i] = IF i = nx[r] THEN pv[r] ELSE pv[i]
  BY <1>4 DEF HhNext, HhPrev
<1>6. nx[r] = h[r].hh_next
  BY DEF HhNext
<1> SUFFICES ASSUME NEW i \in 0..(n - 1)
             PROVE  /\ Linkage(Members(h2, T, n, i), array2[i].hh_head, nx2, pv2, pos)
                    /\ array2[i].count = Cardinality(Members(h2, T, n, i))
  BY Zenon DEF Chained, h2
<1> HIDE DEF nx, pv, nx2, pv2
<1>7. CASE i = b
  <2>1. Members(h2, T, n, i) = B \ {r}
    BY <1>4, <1>7 DEF Members
  <2>2. Linkage(B, array[b].hh_head, nx, pv, pos) /\ array[b].count = Cardinality(B)
    BY <1>2, <1>3
  <2>3. Linkage(B \ {r}, array2[b].hh_head, nx2, pv2, pos)
    <3>1. Bypass(B, r, nx, pv, nx2, pv2)
      BY <1>5 DEF Members, Bypass
    <3> DEFINE top == array[b].hh_head
    <3>2. Linkage(B, top, nx, pv, pos)
      BY <2>2
    <3>3. array2[b].hh_head = IF top = r THEN nx[r] ELSE top
      BY <1>3, <1>6
    <3> HIDE DEF B, top
    <3>4. B \subseteq Items /\ r \in B
      BY <1>2
    <3> QED BY <3>1, <3>2, <3>3, <3>4, LinkageRemove
  <2>4. Cardinality(B \ {r}) = Cardinality(B) - 1
    BY <1>2, RecordsFinite, FS_RemoveElement
  <2> QED BY <2>1, <2>2, <2>3, <2>4, <1>3, <1>7
<1>8. CASE i # b
  <2> DEFINE M == Members(h, S, n, i)
  <2>1. Members(h2, T, n, i) = M
    BY <1>4, <1>8 DEF Members
  <2>2. Linkage(M, array[i].hh_head, nx, pv, pos)
        /\ array2[i] = array[i] /\ array[i].count = Cardinality(M)
    BY <1>3, <1>8
  <2>3. \A s \in M : s # pv[r] /\ s # nx[r]
    <3>1. /\ nx[r] # Null => nx[r] \in B
          /\ pv[r] # Null => pv[r] \in B
      <4> DEFINE top == array[b].hh_head
      <4>1. Linkage(B, top, nx, pv, pos) /\ B \subseteq Items /\ r \in B
        BY <1>2, <1>3
      <4> HIDE DEF B, top
      <4>2. nx[r] # Null => nx[r] \in B
        BY <4>1, LinkageNext
      <4>3. pv[r] # Null => pv[r] \in B
        BY <4>1, LinkagePrev
      <4> QED BY <4>2, <4>3
    <3> QED BY <3>1, <1>1, <1>8 DEF Members, Null, Items
  <2>4. \A s \in M : nx2[s] = nx[s] /\ pv2[s] = pv[s] /\ pos[s] = pos[s]
    BY <1>5, <2>3 DEF Members
  <2> HIDE DEF M
  <2>5. Linkage(M, array[i].hh_head, nx2, pv2, pos)
    BY <2>2, <2>4, LinkageSame
  <2> QED BY <2>1, <2>2, <2>5
<1> QED BY <1>7, <1>8

-------------------------------------------------------------------------------
(* States of the table.                                                    *)

(* What the types say of the records and of the pointers.                  *)
LEMMA StateFacts ==
  ASSUME Typed
  PROVE  /\ DOMAIN hh = 1..Len(hh) /\ Len(hh) \in Nat /\ DOMAIN hh \subseteq Items
         /\ \A i \in DOMAIN hh :
              /\ hh[i] \in HandleSet /\ hh[i].key \in Keys
              /\ hh[i].next \in Pointers /\ hh[i].prev \in Pointers
              /\ hh[i].hh_next \in Pointers /\ hh[i].hh_prev \in Pointers
         /\ Live \subseteq DOMAIN hh /\ Linked \subseteq Live
         /\ Live \in SUBSET Items /\ Linked \in SUBSET Items
         /\ Null \notin Items /\ Wild \notin Items /\ Wild # Null
<1>1. hh \in Seq(HandleSet) /\ Len(hh) <= MaxRecords
  BY DEF Typed
<1>2. Live \subseteq DOMAIN hh /\ Linked \subseteq Live
  BY DEF Live, Linked
<1>3. Null \notin Items /\ Wild \notin Items /\ Wild # Null
  BY SizesAssumption DEF Null, Items, Wild
<1> QED BY <1>1, <1>2, <1>3, HandlesType

(* What the types say of the table.                                        *)
LEMMA TableFacts ==
  ASSUME Typed, tbl # NoTable
  PROVE  /\ tbl \in TableSet /\ tbl.num_buckets \in Nat \ {0}
         /\ tbl.num_items \in 0..MaxRecords /\ tbl.tail \in Items
         /\ tbl.ineff_expands \in Nat /\ tbl.noexpand \in BOOLEAN /\ tbl.expands \in Nat
         /\ \A b \in DOMAIN tbl.buckets : tbl.buckets[b] \in BucketSet
<1>1. tbl \in TableSet
  BY DEF Typed
<1>2. PICK n \in Nat : tbl.buckets \in [0..(n - 1) -> BucketSet]
  BY <1>1 DEF TableSet
<1> QED BY <1>1, <1>2 DEF TableSet

(* No table has the shape of a table.                                      *)
LEMMA NoTableType == NoTable \notin TableSet
  BY DEF NoTable, TableSet

(* A state with an order is a state of the invariant.                      *)
LEMMA IInvIntro ==
  ASSUME NEW pos, NEW m, NEW U \in SUBSET Items, Order(pos, m),
         Typed', Control', ListInv', ChainInv(pos, U)', NewestFirst(pos)', LookupInv(pos)'
  PROVE  IInv'
<1>1. pos \in [Items -> Nat] /\ m \in Nat
  BY DEF Order
<1>2. Inner(pos, m, U)'
  BY Zenon DEF Inner, Order
<1> QED BY <1>1, <1>2, Zenon DEF IInv

(* A lookup that has not begun is in no place.                             *)
LEMMA LookupsNone ==
  ASSUME NEW pos, \A c \in Cpus : ~Reading(c)
  PROVE  LookupInv(pos)
  BY DEF LookupInv, Reading, Underway, Undisturbed, Excluded

(* Disturb leaves the lookups what they are.                               *)
LEMMA DisturbType ==
  ASSUME rd \in [Cpus -> LookupSet], Disturb
  PROVE  rd' \in [Cpus -> LookupSet]
<1> DEFINE new(c) == [rd[c] EXCEPT !.calm = rd[c].pc = "idle"]
<1>1. ASSUME NEW c \in Cpus PROVE new(c) \in LookupSet
  <2>1. rd[c] \in LookupSet
    OBVIOUS
  <2> PICK calm \in BOOLEAN : calm = (rd[c].pc = "idle")
    OBVIOUS
  <2>2. new(c) = [rd[c] EXCEPT !.calm = calm]
    OBVIOUS
  <2> QED BY <2>1, <2>2 DEF LookupSet
<1>2. rd' = [c \in Cpus |-> new(c)]
  BY DEF Disturb
<1> HIDE DEF new
<1> QED BY <1>1, <1>2

(* A lookup that sees the table made or grow keeps its place.              *)
LEMMA LookupsDisturbed ==
  ASSUME NEW pos, NEW pos2, Typed, LookupInv(pos), Disturb,
         Locked => \A c \in Cpus : ~Reading(c), user' = user,
         tbl # NoTable => tbl' # NoTable,
         Linked \subseteq Linked', \A r \in Linked : hh'[r].key = hh[r].key
  PROVE  LookupInv(pos2)'
<1> SUFFICES ASSUME NEW c \in Cpus
             PROVE  (Underway(c) /\ Undisturbed(c, pos2) /\ Excluded(c, pos2))'
  BY Zenon DEF LookupInv
<1>1. rd[c] \in LookupSet /\ rd'[c] = [rd[c] EXCEPT !.calm = rd[c].pc = "idle"]
  BY DEF Typed, Disturb
<1>2. /\ rd'[c].pc = rd[c].pc /\ rd'[c].key = rd[c].key /\ rd'[c].at = rd[c].at
      /\ rd'[c].calm = (rd[c].pc = "idle")
  BY <1>1 DEF LookupSet
<1>3. Underway(c)'
  BY <1>2 DEF LookupInv, Underway
<1>4. Undisturbed(c, pos2)'
  BY <1>2 DEF Undisturbed, Reading
<1>5. Excluded(c, pos2)'
  BY <1>2 DEF Excluded, Reading, Locked
<1> QED BY <1>3, <1>4, <1>5

(* A lookup keeps its place while a record is added.                       *)
LEMMA LookupsKept ==
  ASSUME NEW pos, NEW pos2, Typed, LookupInv(pos), rd' = rd, user' = user,
         Locked => \A c \in Cpus : ~Reading(c),
         ~Growing', tbl # NoTable, tbl' # NoTable, tbl'.num_buckets = tbl.num_buckets,
         Linked \subseteq Linked',
         \A r \in Linked : /\ hh'[r].key = hh[r].key /\ hh'[r].hh_next = hh[r].hh_next
                           /\ pos2[r] = pos[r],
         \A key : Holding(key) \subseteq Linked /\ Holding(key) \subseteq Holding(key)',
         \A b \in 0..(tbl.num_buckets - 1) :
           tbl.buckets[b].hh_head # Null => tbl'.buckets[b].hh_head # Null
  PROVE  LookupInv(pos2)'
<1> SUFFICES ASSUME NEW c \in Cpus
             PROVE  (Underway(c) /\ Undisturbed(c, pos2) /\ Excluded(c, pos2))'
  BY Zenon DEF LookupInv
<1>1. Underway(c) /\ Undisturbed(c, pos) /\ Excluded(c, pos)
  BY DEF LookupInv
<1>2. Underway(c)'
  BY <1>1 DEF Underway
<1>3. Undisturbed(c, pos2)'
  <2> SUFFICES ASSUME Reading(c), rd[c].calm
               PROVE  Undisturbed(c, pos2)'
    BY DEF Undisturbed, Reading
  <2>1. /\ rd[c].pc \in {"first", "take"} => rd[c].num = tbl.num_buckets
        /\ rd[c].pc = "take" =>
             tbl.buckets[ToBkt(rd[c].key, tbl.num_buckets)].hh_head # Null
        /\ rd[c].pc \in {"test", "next"} =>
             /\ rd[c].at \in Linked
             /\ ToBkt(hh[rd[c].at].key, tbl.num_buckets) =
                  ToBkt(rd[c].key, tbl.num_buckets)
        /\ rd[c].pc = "next" => hh[rd[c].at].hh_next # Null
        /\ rd[c].pc = "done" => rd[c].at # Wild
        /\ ToBkt(rd[c].key, tbl.num_buckets) \in 0..(tbl.num_buckets - 1)
    BY <1>1, TableFacts, ToBktType DEF Undisturbed, Underway, Typed, LookupSet
  <2>2. ASSUME rd[c].must
        PROVE  \E r \in Holding(rd[c].key)' : Ahead(c, r, pos2)'
    <3>1. PICK r \in Holding(rd[c].key) : Ahead(c, r, pos)
      BY <1>1, <2>2 DEF Undisturbed
    <3>2. r \in Holding(rd[c].key)' /\ r \in Linked
      BY <3>1
    <3>3. rd[c].pc = "done" /\ rd[c].at \in Items => rd[c].at \in Linked
      BY <1>1 DEF Underway
    <3>4. Ahead(c, r, pos2)'
      BY <2>1, <3>1, <3>2, <3>3 DEF Ahead
    <3> QED BY <3>2, <3>4
  <2> QED BY <2>1, <2>2 DEF Undisturbed
<1>4. Excluded(c, pos2)'
  BY DEF Excluded, Reading, Locked
<1> QED BY <1>2, <1>3, <1>4

-------------------------------------------------------------------------------
(* The initial state.                                                      *)

(* The module starts with no record and no table.                          *)
LEMMA InitInv ==
  ASSUME Init
  PROVE  IInv
<1> DEFINE pos == [r \in Items |-> r]
           m == MaxRecords + 1
<1> USE DEF Init, TableInit
<1>1. Order(pos, m)
  BY SizesAssumption DEF Order, Items
<1>2. NoLookup \in LookupSet
  BY KeysAssumption DEF NoLookup, LookupSet, Pointers
<1>3. Live = {} /\ Linked = {} /\ ~Settled
  BY DEF Live, Linked, Settled
<1>4. hh \in Seq(HandleSet) /\ Len(hh) = 0 /\ DOMAIN hh = {} /\ DOMAIN grown = {}
  BY EmptySeq
<1>5. Typed
  BY <1>2, <1>4, SizesAssumption
     DEF Typed, WriterIdle, WriterSet, Pointers, Null
<1>6. Control
  BY DEF Control, WriterIdle
<1>7. ListInv
  BY <1>3 DEF ListInv, Linkage, Top, Down, Up
<1>8. ChainInv(pos, {})
  BY <1>3 DEF ChainInv, WriterIdle
<1>9. NewestFirst(pos)
  BY <1>3 DEF NewestFirst
<1>10. LookupInv(pos)
  <2>1. \A c \in Cpus : ~Reading(c)
    BY DEF Reading, NoLookup
  <2> HIDE DEF pos
  <2> QED BY <2>1, LookupsNone
<1> HIDE DEF pos, m
<1>11. Inner(pos, m, {})
  BY <1>1, <1>5, <1>6, <1>7, <1>8, <1>9, <1>10 DEF Inner
<1> QED BY <1>1, <1>11 DEF IInv, Order

-------------------------------------------------------------------------------
(* Lookups: what they leave alone.                                         *)

(* A step of the lookup on processor c, to the state new.                  *)
LEMMA LookupStep ==
  ASSUME NEW pos, NEW m, NEW U \in SUBSET Items, Inner(pos, m, U),
         NEW c \in Cpus, NEW pc, NEW new \in LookupSet, LookupGoes(c, pc, new),
         UNCHANGED <<user, loaded>>, loaded,
         (Underway(c) /\ Undisturbed(c, pos) /\ Excluded(c, pos))'
  PROVE  IInv'
<1>1. /\ Order(pos, m) /\ Typed /\ Control /\ ListInv
      /\ ChainInv(pos, U) /\ NewestFirst(pos) /\ LookupInv(pos)
  BY DEF Inner
<1>2. /\ UNCHANGED <<head, hh, freed, tbl, grown, writer, user, loaded>>
      /\ rd' = [rd EXCEPT ![c] = new]
  BY DEF LookupGoes, tableVars
<1>3. UNCHANGED <<Live, Linked, Settled>>
  BY <1>2 DEF Live, Linked, Settled
<1>4. Typed'
  BY <1>1, <1>2 DEF Typed
<1>5. Control'
  BY <1>1, <1>2, <1>3 DEF Control
<1>6. ListInv'
  BY <1>1, <1>2, <1>3 DEF ListInv
<1>7. ChainInv(pos, U)'
  BY <1>1, <1>2, <1>3 DEF ChainInv, Moving, StillFirst
<1>8. NewestFirst(pos)'
  BY <1>1, <1>2, <1>3 DEF NewestFirst
<1>9. LookupInv(pos)'
  <2> SUFFICES ASSUME NEW d \in Cpus, d # c
               PROVE  (Underway(d) /\ Undisturbed(d, pos) /\ Excluded(d, pos))'
    BY DEF LookupInv
  <2>1. Underway(d) /\ Undisturbed(d, pos) /\ Excluded(d, pos)
    BY <1>1 DEF LookupInv
  <2>2. rd'[d] = rd[d]
    BY <1>1, <1>2 DEF Typed
  <2>3. Underway(d)'
    BY <2>1, <2>2, <1>2, <1>3 DEF Underway
  <2>4. \A r : Ahead(d, r, pos)' <=> Ahead(d, r, pos)
    BY <2>2 DEF Ahead
  <2>5. Holding(rd[d].key)' = Holding(rd[d].key)
    BY <1>2, <1>3, <2>2 DEF Holding
  <2>6. Undisturbed(d, pos)'
    BY <2>1, <2>2, <2>4, <2>5, <1>2 DEF Undisturbed, Growing, Reading
  <2>7. Excluded(d, pos)'
    BY <2>1, <2>2, <2>4, <2>5, <1>2 DEF Excluded, Reading, Locked
  <2> QED BY <2>3, <2>6, <2>7
<1> QED BY <1>1, <1>4, <1>5, <1>6, <1>7, <1>8, <1>9, IInvIntro

-------------------------------------------------------------------------------
(* Lookups: where they go.                                                 *)

(* A record of a chain and the next one.                                   *)
LEMMA ChainedNext ==
  ASSUME NEW h \in Seq(HandleSet), Len(h) <= MaxRecords, NEW n \in Nat \ {0}, NEW array,
         NEW S, S \subseteq DOMAIN h, NEW pos, Chained(h, array, S, n, pos), NEW r \in S
  PROVE  LET later == h[r].hh_next
         IN /\ later = Null =>
                 \A s \in S : ToBkt(h[s].key, n) = ToBkt(h[r].key, n) => pos[r] <= pos[s]
            /\ later # Null =>
                 /\ later \in S /\ ToBkt(h[later].key, n) = ToBkt(h[r].key, n)
                 /\ pos[later] < pos[r]
                 /\ \A s \in S : ToBkt(h[s].key, n) = ToBkt(h[r].key, n) =>
                      pos[s] <= pos[later] \/ pos[r] <= pos[s]
<1> DEFINE b == ToBkt(h[r].key, n)
           M == Members(h, S, n, b)
<1>1. b \in 0..(n - 1) /\ r \in DOMAIN h
  BY HandlesType, ToBktType
<1>2. Down(M, HhNext(h), pos)
  BY <1>1 DEF Chained, Linkage
<1>3. r \in M /\ HhNext(h)[r] = h[r].hh_next
  BY <1>1 DEF Members, HhNext
<1> QED BY <1>2, <1>3 DEF Down, Members

(* The head of a bucket.                                                   *)
LEMMA ChainedHead ==
  ASSUME NEW n \in Nat \ {0}, NEW h, NEW array, NEW S, NEW pos,
         Chained(h, array, S, n, pos), NEW key \in Keys
  PROVE  LET b == ToBkt(key, n)
             first == array[b].hh_head
         IN /\ b \in DOMAIN array
            /\ first = Null => \A s \in S : ToBkt(h[s].key, n) # b
            /\ first # Null =>
                 /\ first \in S /\ ToBkt(h[first].key, n) = b
                 /\ \A s \in S : ToBkt(h[s].key, n) = b => pos[s] <= pos[first]
<1>1. ToBkt(key, n) \in 0..(n - 1)
  BY ToBktType
<1> QED BY <1>1 DEF Chained, Linkage, Top, Members

(* What follows a record in a chain is in a chain.                         *)
LEMMA NextLinked ==
  ASSUME NEW pos, NEW U, Typed, Control, ChainInv(pos, U), tbl # NoTable, NEW r \in Linked
  PROVE  hh[r].hh_next \in Linked \cup {Null}
<1> DEFINE n == tbl.num_buckets
<1>1. hh \in Seq(HandleSet) /\ Len(hh) <= MaxRecords /\ n \in Nat \ {0} /\ 2 * n \in Nat \ {0}
  BY TableFacts DEF Typed
<1>2. Live \subseteq DOMAIN hh /\ Linked \subseteq Live /\ r \in DOMAIN hh /\ hh[r].key \in Keys
  BY StateFacts
<1>3. CASE Settled
  <2>1. Chained(hh, tbl.buckets, Linked, n, pos)
    BY <1>3 DEF ChainInv
  <2> QED BY <2>1, <1>1, <1>2, ChainedNext
<1>4. CASE writer.pc \in {"move", "double", "install"}
  <2>1. Linked = Live
    BY <1>4 DEF Linked
  <2>2. CASE writer.pc = "double"
    <3>1. Chained(hh, grown, Live, 2 * n, pos)
      BY <2>2 DEF ChainInv
    <3> QED BY <3>1, <2>1, <1>1, <1>2, ChainedNext
  <2>3. CASE writer.pc = "install"
    <3>1. Chained(hh, grown, Live, n, pos)
      BY <2>3 DEF ChainInv
    <3> QED BY <3>1, <2>1, <1>1, <1>2, ChainedNext
  <2>4. CASE writer.pc = "move" /\ r \notin U
    <3>1. Chained(hh, grown, Live \ U, 2 * n, pos) /\ r \in Live \ U
      BY <2>1, <2>4 DEF ChainInv
    <3> DEFINE S == Live \ U
    <3>2. S \subseteq DOMAIN hh /\ r \in S /\ Chained(hh, grown, S, 2 * n, pos)
      BY <1>2, <3>1
    <3> HIDE DEF S
    <3>3. hh[r].hh_next # Null => hh[r].hh_next \in S
      BY <3>2, <1>1, ChainedNext
    <3> QED BY <3>3, <2>1 DEF S
  <2>5. CASE writer.pc = "move" /\ r \in U
    <3>1. ToBkt(hh[r].key, n) \in 0..(n - 1)
      BY <1>1, <1>2, ToBktType
    <3>2. Down(Members(hh, U, n, ToBkt(hh[r].key, n)), HhNext(hh), pos) /\ U \subseteq Live
      BY <2>5, <3>1 DEF ChainInv, Moving
    <3>3. r \in Members(hh, U, n, ToBkt(hh[r].key, n)) /\ HhNext(hh)[r] = hh[r].hh_next
      BY <2>5, <1>2 DEF Members, HhNext
    <3> QED BY <3>2, <3>3, <2>1 DEF Down, Members
  <2> QED BY <1>4, <2>2, <2>3, <2>4, <2>5
<1>5. writer.pc # "make"
  BY DEF Control
<1> QED BY <1>3, <1>4, <1>5 DEF Settled, Typed, WriterSet

(* The records a lookup can find are in chains.                            *)
LEMMA HoldingLinked ==
  ASSUME NEW key
  PROVE  Holding(key) = {r \in Linked : hh[r].key = key}
  BY DEF Holding, Linked

(* A lookup that nothing disturbed meets a table with its chains in order. *)
LEMMA CalmSettled ==
  ASSUME Typed, ~Growing, tbl # NoTable
  PROVE  Settled
  BY DEF Growing, Settled, Typed, WriterSet

(* What the invariant says to a lookup.                                    *)
LEMMA LookupFacts ==
  ASSUME NEW pos, NEW m, NEW U, Inner(pos, m, U), NEW c \in Cpus
  PROVE  /\ Typed /\ Control /\ rd[c] \in LookupSet
         /\ Underway(c) /\ Undisturbed(c, pos) /\ Excluded(c, pos)
         /\ rd[c].pc # "idle" => loaded
  BY DEF Inner, Typed, Control, LookupInv

(* The step gives the lookup its new state and changes nothing else.       *)
LEMMA LookupGoesFacts ==
  ASSUME Typed, NEW c \in Cpus, NEW pc, NEW new, LookupGoes(c, pc, new),
         UNCHANGED <<user, loaded>>
  PROVE  /\ rd[c].pc = pc /\ rd'[c] = new
         /\ UNCHANGED <<head, hh, freed, tbl, grown, writer, user, loaded>>
         /\ UNCHANGED <<Live, Linked, Growing, Settled, Locked>>
         /\ \A key : Holding(key)' = Holding(key)
         /\ new.key = rd[c].key => Holding(rd[c].key)' = Holding(rd[c].key)
<1>1. /\ rd[c].pc = pc /\ rd'[c] = new
      /\ UNCHANGED <<head, hh, freed, tbl, grown, writer, user, loaded>>
  BY DEF Typed, LookupGoes, tableVars
<1>2. UNCHANGED <<Live, Linked, Growing, Settled, Locked>>
  BY <1>1 DEF Live, Linked, Growing, Settled, Locked
<1> QED BY <1>1, <1>2 DEF Holding

(* A hook takes a packet and comes to the lookup.                          *)
LEMMA BeginInv ==
  ASSUME NEW pos, NEW m, NEW U \in SUBSET Items, Inner(pos, m, U),
         NEW c \in Cpus, NEW key \in Keys, Begin(c, key)
  PROVE  IInv'
<1> DEFINE pc == IF Locked THEN "lock" ELSE "head"
           new == [NoLookup EXCEPT !.pc = pc, !.key = key, !.must = Holding(key) # {},
                                   !.calm = ~Growing]
<1>1. LookupGoes(c, "idle", new) /\ loaded /\ UNCHANGED <<user, loaded>>
  BY DEF Begin, BeginAt
<1>2. /\ new \in LookupSet /\ new.pc = pc /\ new.key = key
      /\ new.must = (Holding(key) # {}) /\ new.calm = ~Growing
  BY KeysAssumption DEF NoLookup, LookupSet, Pointers, Growing
<1>3. Typed
  BY LookupFacts
<1> HIDE DEF new
<1>4. /\ rd'[c] = new /\ UNCHANGED <<tbl, Growing, Locked>>
      /\ Holding(key)' = Holding(key)
  BY <1>1, <1>3, LookupGoesFacts
<1>5. Underway(c)'
  BY <1>2, <1>4 DEF Underway
<1>6. Undisturbed(c, pos)'
  BY <1>2, <1>4 DEF Undisturbed, Ahead
<1>7. Excluded(c, pos)'
  BY <1>2, <1>4 DEF Excluded, Reading
<1> QED BY <1>1, <1>2, <1>5, <1>6, <1>7, LookupStep

(* The hook takes the read lock.                                           *)
LEMMA ReadLockInv ==
  ASSUME NEW pos, NEW m, NEW U \in SUBSET Items, Inner(pos, m, U),
         NEW c \in Cpus, ReadLock(c)
  PROVE  IInv'
<1> DEFINE new == [rd[c] EXCEPT !.pc = "head", !.must = Holding(rd[c].key) # {},
                                !.calm = ~Growing]
<1>1. LookupGoes(c, "lock", new) /\ writer.pc = "idle" /\ UNCHANGED <<user, loaded>>
  BY DEF ReadLock, WriterBusy
<1>2. Typed /\ rd[c] \in LookupSet /\ (rd[c].pc # "idle" => loaded)
  BY LookupFacts
<1>3. /\ new \in LookupSet /\ new.pc = "head" /\ new.key = rd[c].key
      /\ new.must = (Holding(rd[c].key) # {}) /\ new.calm = ~Growing /\ ~Growing
  BY <1>1, <1>2 DEF LookupSet, Growing
<1> HIDE DEF new
<1>4. /\ rd[c].pc = "lock" /\ rd'[c] = new /\ UNCHANGED <<tbl, writer, Growing, Locked>>
      /\ Holding(rd[c].key)' = Holding(rd[c].key)
  BY <1>1, <1>2, <1>3, LookupGoesFacts
<1>5. Underway(c)'
  BY <1>3, <1>4 DEF Underway
<1>6. Undisturbed(c, pos)'
  BY <1>3, <1>4 DEF Undisturbed, Ahead
<1>7. Excluded(c, pos)'
  BY <1>1, <1>3, <1>4 DEF Excluded, Ahead
<1> QED BY <1>1, <1>2, <1>3, <1>4, <1>5, <1>6, <1>7, LookupStep

(* The lookup is over and the lock is given back.                          *)
LEMMA FindEndInv ==
  ASSUME NEW pos, NEW m, NEW U \in SUBSET Items, Inner(pos, m, U),
         NEW c \in Cpus, FindEnd(c), UNCHANGED <<user, loaded>>
  PROVE  IInv'
<1>1. LookupGoes(c, "done", NoLookup)
  BY DEF FindEnd
<1>2. Typed /\ (rd[c].pc # "idle" => loaded)
  BY LookupFacts
<1>3. NoLookup \in LookupSet /\ NoLookup.pc = "idle"
  BY KeysAssumption DEF NoLookup, LookupSet, Pointers
<1>4. rd[c].pc = "done" /\ rd'[c] = NoLookup
  BY <1>1, <1>2, LookupGoesFacts
<1>5. (Underway(c) /\ Undisturbed(c, pos) /\ Excluded(c, pos))'
  BY <1>3, <1>4 DEF Underway, Undisturbed, Excluded, Reading
<1> QED BY <1>1, <1>2, <1>3, <1>4, <1>5, LookupStep

(* HASH_FIND looks whether there is a table.                               *)
LEMMA FindHeadInv ==
  ASSUME NEW pos, NEW m, NEW U \in SUBSET Items, Inner(pos, m, U),
         NEW c \in Cpus, FindHead(c), UNCHANGED <<user, loaded>>
  PROVE  IInv'
<1> DEFINE new == IF head = Null THEN Found(c, Null) ELSE [rd[c] EXCEPT !.pc = "num"]
<1>1. LookupGoes(c, "head", new)
  BY DEF FindHead
<1>2. /\ Typed /\ Control /\ rd[c] \in LookupSet /\ (rd[c].pc # "idle" => loaded)
      /\ Undisturbed(c, pos) /\ Excluded(c, pos)
  BY LookupFacts
<1>3. /\ new \in LookupSet /\ new.key = rd[c].key
      /\ new.must = rd[c].must /\ new.calm = rd[c].calm
      /\ head = Null => new.pc = "done" /\ new.at = Null
      /\ head # Null => new.pc = "num"
  BY <1>2 DEF LookupSet, Found, Pointers
<1> HIDE DEF new
<1>4. /\ rd[c].pc = "head" /\ rd'[c] = new
      /\ UNCHANGED <<head, tbl, writer, Growing, Locked>>
      /\ Holding(rd[c].key)' = Holding(rd[c].key)
  BY <1>1, <1>2, <1>3, LookupGoesFacts
<1>5. head = Null => Holding(rd[c].key) = {}
  BY DEF Inner, ListInv, Linkage, Top, Holding, Linked
<1>6. Null \notin Items /\ Wild # Null
  BY <1>2, StateFacts
<1>7. Underway(c)'
  BY <1>3, <1>4, <1>6 DEF Underway
<1>8. Undisturbed(c, pos)'
  <2>1. ~Growing /\ head # Null => tbl # NoTable
    BY <1>2 DEF Growing, Control
  <2> QED BY <1>2, <1>3, <1>4, <1>5, <1>6, <2>1 DEF Undisturbed, Ahead, Reading
<1>9. Excluded(c, pos)'
  BY <1>2, <1>3, <1>4, <1>5 DEF Excluded, Ahead, Reading
<1> QED BY <1>1, <1>2, <1>3, <1>4, <1>7, <1>8, <1>9, LookupStep

(* It reads the number of the buckets and finds the bucket of its key.     *)
LEMMA FindNumInv ==
  ASSUME NEW pos, NEW m, NEW U \in SUBSET Items, Inner(pos, m, U),
         NEW c \in Cpus, FindNum(c), UNCHANGED <<user, loaded>>
  PROVE  IInv'
<1> DEFINE new == IF tbl = NoTable THEN Found(c, Wild)
                  ELSE [rd[c] EXCEPT !.pc = "first", !.num = tbl.num_buckets]
<1>1. LookupGoes(c, "num", new)
  BY DEF FindNum
<1>2. /\ Typed /\ rd[c] \in LookupSet /\ (rd[c].pc # "idle" => loaded)
      /\ Undisturbed(c, pos) /\ Excluded(c, pos)
  BY LookupFacts
<1>3. /\ new \in LookupSet /\ new.key = rd[c].key
      /\ new.must = rd[c].must /\ new.calm = rd[c].calm
      /\ tbl = NoTable => new.pc = "done" /\ new.at = Wild
      /\ tbl # NoTable => new.pc = "first" /\ new.num = tbl.num_buckets
  BY <1>2, TableFacts DEF LookupSet, Found
<1> HIDE DEF new
<1>4. /\ rd[c].pc = "num" /\ rd'[c] = new
      /\ UNCHANGED <<tbl, writer, Growing, Locked>>
      /\ Holding(rd[c].key)' = Holding(rd[c].key)
  BY <1>1, <1>2, <1>3, LookupGoesFacts
<1>5. Wild \notin Items
  BY <1>2, StateFacts
<1>6. Underway(c)'
  BY <1>3, <1>4, <1>5 DEF Underway
<1>7. Undisturbed(c, pos)'
  BY <1>2, <1>3, <1>4 DEF Undisturbed, Ahead, Reading
<1>8. Excluded(c, pos)'
  BY <1>2, <1>3, <1>4 DEF Excluded, Ahead, Reading, Undisturbed
<1> QED BY <1>1, <1>2, <1>3, <1>4, <1>6, <1>7, <1>8, LookupStep

(* What a lookup that nothing disturbed reads from the array of buckets.   *)
LEMMA BucketHeadsFacts ==
  ASSUME NEW pos, NEW m, NEW U, Inner(pos, m, U), NEW c \in Cpus,
         rd[c].pc \in {"first", "take"}, NEW first \in BucketHeads(c)
  PROVE  /\ tbl # NoTable /\ first \in Linked \cup {Null, Wild}
         /\ rd[c].calm =>
              /\ rd[c].num = tbl.num_buckets
              /\ first = tbl.buckets[ToBkt(rd[c].key, tbl.num_buckets)].hh_head
              /\ first = Null => Holding(rd[c].key) = {}
              /\ first # Null =>
                   /\ first \in Linked
                   /\ ToBkt(hh[first].key, tbl.num_buckets) =
                        ToBkt(rd[c].key, tbl.num_buckets)
                   /\ \A r \in Holding(rd[c].key) : pos[r] <= pos[first]
<1>1. /\ Typed /\ Control /\ rd[c] \in LookupSet /\ rd[c].key \in Keys
      /\ Underway(c) /\ Undisturbed(c, pos)
  BY LookupFacts DEF LookupSet
<1>2. tbl # NoTable
  BY <1>1 DEF Underway
<1>3. \A b \in DOMAIN tbl.buckets : tbl.buckets[b].hh_head \in Linked \cup {Null}
  BY <1>2 DEF Inner, ChainInv
<1>4. first \in Linked \cup {Null, Wild}
  BY <1>3 DEF BucketHeads
<1>5. ASSUME rd[c].calm
      PROVE  /\ rd[c].num = tbl.num_buckets
             /\ first = tbl.buckets[ToBkt(rd[c].key, tbl.num_buckets)].hh_head
             /\ first = Null => Holding(rd[c].key) = {}
             /\ first # Null =>
                  /\ first \in Linked
                  /\ ToBkt(hh[first].key, tbl.num_buckets) =
                       ToBkt(rd[c].key, tbl.num_buckets)
                  /\ \A r \in Holding(rd[c].key) : pos[r] <= pos[first]
  <2>1. ~Growing /\ rd[c].num = tbl.num_buckets
    BY <1>1, <1>5 DEF Undisturbed, Reading
  <2>2. first = tbl.buckets[ToBkt(rd[c].key, tbl.num_buckets)].hh_head
    BY <2>1, <1>5 DEF BucketHeads, MayReadFreed, Growing
  <2>3. Chained(hh, tbl.buckets, Linked, tbl.num_buckets, pos)
    BY <1>1, <1>2, <2>1, CalmSettled DEF Inner, ChainInv
  <2>4. tbl.num_buckets \in Nat \ {0}
    BY <1>1, <1>2, TableFacts
  <2>5. /\ first = Null => \A s \in Linked : ToBkt(hh[s].key, tbl.num_buckets) #
                                              ToBkt(rd[c].key, tbl.num_buckets)
        /\ first # Null =>
             /\ first \in Linked
             /\ ToBkt(hh[first].key, tbl.num_buckets) =
                  ToBkt(rd[c].key, tbl.num_buckets)
             /\ \A s \in Linked :
                  ToBkt(hh[s].key, tbl.num_buckets) = ToBkt(rd[c].key, tbl.num_buckets)
                    => pos[s] <= pos[first]
    BY <1>1, <2>2, <2>3, <2>4, ChainedHead
  <2> QED BY <2>1, <2>2, <2>5, HoldingLinked
<1> QED BY <1>2, <1>4, <1>5

(* It reads whether its chain has a head.                                  *)
LEMMA FindFirstInv ==
  ASSUME NEW pos, NEW m, NEW U \in SUBSET Items, Inner(pos, m, U),
         NEW c \in Cpus, FindFirst(c), UNCHANGED <<user, loaded>>
  PROVE  IInv'
<1>1. PICK r \in BucketHeads(c) :
        LookupGoes(c, "first", IF r \in Items THEN [rd[c] EXCEPT !.pc = "take"]
                               ELSE Found(c, r))
  BY DEF FindFirst
<1> DEFINE new == IF r \in Items THEN [rd[c] EXCEPT !.pc = "take"] ELSE Found(c, r)
<1>2. /\ Typed /\ rd[c] \in LookupSet /\ (rd[c].pc # "idle" => loaded)
      /\ Undisturbed(c, pos) /\ Excluded(c, pos)
      /\ rd[c].pc = "first" /\ LookupGoes(c, "first", new)
  BY <1>1, LookupFacts DEF LookupGoes
<1>3. /\ tbl # NoTable /\ r \in Linked \cup {Null, Wild}
      /\ rd[c].calm =>
           /\ rd[c].num = tbl.num_buckets
           /\ r = tbl.buckets[ToBkt(rd[c].key, tbl.num_buckets)].hh_head
           /\ r = Null => Holding(rd[c].key) = {}
           /\ r # Null => r \in Linked
  BY <1>2, BucketHeadsFacts
<1>4. Linked \subseteq Items /\ Null \notin Items /\ Wild \notin Items /\ Wild # Null
  BY <1>2, StateFacts
<1>5. /\ new \in LookupSet /\ new.key = rd[c].key
      /\ new.must = rd[c].must /\ new.calm = rd[c].calm
      /\ r \in Items => new.pc = "take" /\ new.num = rd[c].num
      /\ r \notin Items => new.pc = "done" /\ new.at = r
  BY <1>2, <1>3, <1>4 DEF LookupSet, Found, Pointers
<1> HIDE DEF new
<1>6. /\ rd'[c] = new /\ UNCHANGED <<hh, tbl, writer, Growing, Locked>>
      /\ Holding(rd[c].key)' = Holding(rd[c].key)
  BY <1>2, <1>5, LookupGoesFacts
<1>7. Underway(c)'
  BY <1>3, <1>5, <1>6 DEF Underway
<1>8. Undisturbed(c, pos)'
  BY <1>2, <1>3, <1>4, <1>5, <1>6 DEF Undisturbed, Ahead, Reading
<1>9. Excluded(c, pos)'
  BY <1>2, <1>3, <1>4, <1>5, <1>6 DEF Excluded, Ahead, Reading
<1> QED BY <1>2, <1>5, <1>7, <1>8, <1>9, LookupStep

(* It reads the head again, for the record to look at.                     *)
LEMMA FindTakeInv ==
  ASSUME NEW pos, NEW m, NEW U \in SUBSET Items, Inner(pos, m, U),
         NEW c \in Cpus, FindTake(c), UNCHANGED <<user, loaded>>
  PROVE  IInv'
<1>1. PICK r \in BucketHeads(c) :
        LookupGoes(c, "take", IF r \in Items
                              THEN [rd[c] EXCEPT !.pc = "test", !.at = r]
                              ELSE Found(c, Wild))
  BY DEF FindTake
<1> DEFINE new == IF r \in Items THEN [rd[c] EXCEPT !.pc = "test", !.at = r]
                  ELSE Found(c, Wild)
<1>2. /\ Typed /\ rd[c] \in LookupSet /\ (rd[c].pc # "idle" => loaded)
      /\ Undisturbed(c, pos) /\ Excluded(c, pos)
      /\ rd[c].pc = "take" /\ LookupGoes(c, "take", new)
  BY <1>1, LookupFacts DEF LookupGoes
<1>3. /\ tbl # NoTable /\ r \in Linked \cup {Null, Wild}
      /\ rd[c].calm =>
           /\ r = tbl.buckets[ToBkt(rd[c].key, tbl.num_buckets)].hh_head
           /\ r # Null =>
                /\ r \in Linked
                /\ ToBkt(hh[r].key, tbl.num_buckets) = ToBkt(rd[c].key, tbl.num_buckets)
                /\ \A s \in Holding(rd[c].key) : pos[s] <= pos[r]
  BY <1>2, BucketHeadsFacts
<1>4. Linked \subseteq Items /\ Null \notin Items /\ Wild \notin Items
  BY <1>2, StateFacts
<1>5. /\ new \in LookupSet /\ new.key = rd[c].key
      /\ new.must = rd[c].must /\ new.calm = rd[c].calm
      /\ r \in Items => new.pc = "test" /\ new.at = r
      /\ r \notin Items => new.pc = "done" /\ new.at = Wild
  BY <1>2, <1>3, <1>4 DEF LookupSet, Found, Pointers
<1> HIDE DEF new
<1>6. /\ rd'[c] = new /\ UNCHANGED <<hh, tbl, writer, Linked, Growing, Locked>>
      /\ Holding(rd[c].key)' = Holding(rd[c].key)
  BY <1>2, <1>5, LookupGoesFacts
<1>7. Underway(c)'
  BY <1>3, <1>4, <1>5, <1>6 DEF Underway
<1>8. rd[c].calm => r \in Items
  <2>1. rd[c].calm => r # Null
    BY <1>2, <1>3 DEF Undisturbed, Reading
  <2> QED BY <2>1, <1>3, <1>4
<1>9. Undisturbed(c, pos)'
  BY <1>2, <1>3, <1>4, <1>5, <1>6, <1>8 DEF Undisturbed, Ahead, Reading
<1>10. Excluded(c, pos)'
  BY <1>2, <1>3, <1>4, <1>5, <1>6, <1>8 DEF Excluded, Ahead, Reading
<1> QED BY <1>2, <1>5, <1>7, <1>9, <1>10, LookupStep

(* It compares the key of the record it points at.                         *)
LEMMA FindTestInv ==
  ASSUME NEW pos, NEW m, NEW U \in SUBSET Items, Inner(pos, m, U),
         NEW c \in Cpus, FindTest(c), UNCHANGED <<user, loaded>>
  PROVE  IInv'
<1> DEFINE r == rd[c].at
           n == tbl.num_buckets
           new == IF hh[r].key = rd[c].key THEN Found(c, r)
                  ELSE IF hh[r].hh_next = Null THEN Found(c, Null)
                  ELSE [rd[c] EXCEPT !.pc = "next"]
<1>1. LookupGoes(c, "test", new) /\ rd[c].pc = "test"
  BY DEF FindTest, LookupGoes
<1>2. /\ Typed /\ Control /\ rd[c] \in LookupSet /\ (rd[c].pc # "idle" => loaded)
      /\ Underway(c) /\ Undisturbed(c, pos) /\ Excluded(c, pos)
  BY LookupFacts
<1>3. /\ Linked \subseteq Items /\ Null \notin Items /\ Wild \notin Items /\ Wild # Null
      /\ tbl # NoTable /\ r \in Linked /\ Order(pos, m)
  BY <1>1, <1>2, StateFacts DEF Underway, Inner
<1>4. /\ new \in LookupSet /\ new.key = rd[c].key
      /\ new.must = rd[c].must /\ new.calm = rd[c].calm
      /\ hh[r].key = rd[c].key => new.pc = "done" /\ new.at = r
      /\ hh[r].key # rd[c].key =>
           /\ hh[r].hh_next = Null => new.pc = "done" /\ new.at = Null
           /\ hh[r].hh_next # Null => new.pc = "next" /\ new.at = r
  BY <1>2, <1>3 DEF LookupSet, Found, Pointers
<1> HIDE DEF new
<1>5. /\ rd'[c] = new /\ UNCHANGED <<hh, tbl, writer, Linked, Growing, Locked>>
      /\ Holding(rd[c].key)' = Holding(rd[c].key)
  BY <1>1, <1>2, <1>4, LookupGoesFacts
<1>6. Underway(c)'
  BY <1>3, <1>4, <1>5 DEF Underway
<1>7. ASSUME hh[r].key # rd[c].key, Reading(c), rd[c].calm,
             NEW s \in Holding(rd[c].key), pos[s] <= pos[r]
      PROVE  pos[s] < pos[r] /\ hh[r].hh_next # Null
  <2>1. s \in Linked /\ hh[s].key = rd[c].key /\ s # r
    BY <1>7, HoldingLinked
  <2>2. pos[s] < pos[r]
    BY <2>1, <1>3, <1>7 DEF Order
  <2>3. ToBkt(hh[r].key, n) = ToBkt(hh[s].key, n) /\ ~Growing
    BY <1>1, <1>2, <1>7, <2>1 DEF Undisturbed
  <2>4. Chained(hh, tbl.buckets, Linked, n, pos)
    BY <1>2, <1>3, <2>3, CalmSettled DEF Inner, ChainInv
  <2>5. /\ n \in Nat \ {0} /\ hh \in Seq(HandleSet) /\ Len(hh) <= MaxRecords
        /\ Linked \subseteq DOMAIN hh
    BY <1>2, <1>3, TableFacts, StateFacts DEF Typed
  <2> HIDE DEF n, r
  <2>6. hh[r].hh_next = Null => pos[r] <= pos[s]
    BY <1>3, <2>1, <2>3, <2>4, <2>5, ChainedNext
  <2> QED BY <1>3, <2>1, <2>2, <2>6 DEF Order
<1>8. Undisturbed(c, pos)'
  BY <1>1, <1>2, <1>3, <1>4, <1>5, <1>7 DEF Undisturbed, Ahead, Reading
<1>9. Excluded(c, pos)'
  BY <1>1, <1>2, <1>3, <1>4, <1>5, <1>7 DEF Excluded, Ahead, Reading
<1> QED BY <1>1, <1>2, <1>4, <1>6, <1>8, <1>9, LookupStep

(* It goes on to the next record of the chain.                             *)
LEMMA FindNextInv ==
  ASSUME NEW pos, NEW m, NEW U \in SUBSET Items, Inner(pos, m, U),
         NEW c \in Cpus, FindNext(c), UNCHANGED <<user, loaded>>
  PROVE  IInv'
<1> DEFINE p == rd[c].at
           r == hh[p].hh_next
           n == tbl.num_buckets
           new == IF r = Null THEN Found(c, Wild)
                  ELSE [rd[c] EXCEPT !.pc = "test", !.at = r]
<1>1. LookupGoes(c, "next", new) /\ rd[c].pc = "next"
  BY DEF FindNext, LookupGoes
<1>2. /\ Typed /\ Control /\ rd[c] \in LookupSet /\ (rd[c].pc # "idle" => loaded)
      /\ Underway(c) /\ Undisturbed(c, pos) /\ Excluded(c, pos)
  BY LookupFacts
<1>3. /\ Linked \subseteq Items /\ Null \notin Items /\ Wild \notin Items /\ Wild # Null
      /\ tbl # NoTable /\ p \in Linked /\ Order(pos, m)
  BY <1>1, <1>2, StateFacts DEF Underway, Inner
<1>4. r \in Linked \cup {Null}
  BY <1>2, <1>3, NextLinked DEF Inner
<1>5. /\ new \in LookupSet /\ new.key = rd[c].key
      /\ new.must = rd[c].must /\ new.calm = rd[c].calm
      /\ r = Null => new.pc = "done" /\ new.at = Wild
      /\ r # Null => new.pc = "test" /\ new.at = r
  BY <1>2, <1>3, <1>4 DEF LookupSet, Found, Pointers
<1> HIDE DEF new
<1>6. /\ rd'[c] = new /\ UNCHANGED <<hh, tbl, writer, Linked, Growing, Locked>>
      /\ Holding(rd[c].key)' = Holding(rd[c].key)
  BY <1>1, <1>2, <1>5, LookupGoesFacts
<1>7. Underway(c)'
  BY <1>3, <1>4, <1>5, <1>6 DEF Underway
<1>8. ASSUME Reading(c), rd[c].calm
      PROVE  /\ r # Null /\ ToBkt(hh[r].key, n) = ToBkt(rd[c].key, n)
             /\ \A s \in Holding(rd[c].key) : pos[s] < pos[p] => pos[s] <= pos[r]
  <2>1. ToBkt(hh[p].key, n) = ToBkt(rd[c].key, n) /\ r # Null /\ ~Growing
    BY <1>1, <1>2, <1>8 DEF Undisturbed
  <2>2. Chained(hh, tbl.buckets, Linked, n, pos)
    BY <1>2, <1>3, <2>1, CalmSettled DEF Inner, ChainInv
  <2>3. /\ n \in Nat \ {0} /\ hh \in Seq(HandleSet) /\ Len(hh) <= MaxRecords
        /\ Linked \subseteq DOMAIN hh
    BY <1>2, <1>3, TableFacts, StateFacts DEF Typed
  <2> HIDE DEF n, p
  <2>4. /\ ToBkt(hh[r].key, n) = ToBkt(hh[p].key, n)
        /\ \A s \in Linked : ToBkt(hh[s].key, n) = ToBkt(hh[p].key, n) =>
             pos[s] <= pos[r] \/ pos[p] <= pos[s]
    <3>1. LET later == hh[p].hh_next
          IN later # Null =>
               /\ later \in Linked /\ ToBkt(hh[later].key, n) = ToBkt(hh[p].key, n)
               /\ pos[later] < pos[p]
               /\ \A s \in Linked : ToBkt(hh[s].key, n) = ToBkt(hh[p].key, n) =>
                    pos[s] <= pos[later] \/ pos[p] <= pos[s]
      BY <1>3, <2>2, <2>3, ChainedNext
    <3> QED BY <3>1, <2>1
  <2> QED BY <2>1, <2>4, <1>3, HoldingLinked DEF Order
<1>9. Undisturbed(c, pos)'
  BY <1>1, <1>2, <1>3, <1>4, <1>5, <1>6, <1>8 DEF Undisturbed, Ahead, Reading
<1>10. Excluded(c, pos)'
  BY <1>1, <1>2, <1>3, <1>4, <1>5, <1>6, <1>8 DEF Excluded, Ahead, Reading
<1> QED BY <1>1, <1>2, <1>5, <1>7, <1>9, <1>10, LookupStep

-------------------------------------------------------------------------------
(* HASH_ADD.                                                               *)

(* A handle behind the others.                                             *)
LEMMA AppendFacts ==
  ASSUME NEW h \in Seq(HandleSet), NEW new \in HandleSet
  PROVE  LET h2 == Append(h, new)
         IN /\ h2 \in Seq(HandleSet) /\ Len(h2) = Len(h) + 1
            /\ DOMAIN h2 = DOMAIN h \cup {Len(h) + 1}
            /\ \A i \in DOMAIN h : h2[i] = h[i]
            /\ h2[Len(h) + 1] = new
<1>1. DOMAIN h = 1..Len(h) /\ Len(h) \in Nat
  BY LenProperties
<1> DEFINE h2 == Append(h, new)
<1>2. /\ h2 \in Seq(HandleSet) /\ Len(h2) = Len(h) + 1
      /\ \A i \in 1..Len(h) : h2[i] = h[i]
      /\ h2[Len(h) + 1] = new
  BY AppendProperties
<1> HIDE DEF h2
<1>3. DOMAIN h2 = 1..(Len(h) + 1)
  BY <1>2, LenProperties
<1>4. DOMAIN h2 = DOMAIN h \cup {Len(h) + 1}
  BY <1>1, <1>3
<1> QED BY <1>1, <1>2, <1>4 DEF h2

(* The last of the list is told of its successor.                          *)
LEMMA TellFacts ==
  ASSUME NEW h \in Seq(HandleSet), NEW tail \in DOMAIN h, NEW r \in Pointers
  PROVE  LET h2 == [h EXCEPT ![tail].next = r]
         IN /\ h2 \in Seq(HandleSet) /\ Len(h2) = Len(h) /\ DOMAIN h2 = DOMAIN h
            /\ \A i \in DOMAIN h :
                 /\ h2[i].key = h[i].key /\ h2[i].prev = h[i].prev
                 /\ h2[i].next = IF i = tail THEN r ELSE h[i].next
                 /\ h2[i].hh_next = h[i].hh_next /\ h2[i].hh_prev = h[i].hh_prev
<1>1. DOMAIN h = 1..Len(h) /\ Len(h) \in Nat /\ \A i \in DOMAIN h : h[i] \in HandleSet
  BY LenProperties
<1> DEFINE e == [h[tail] EXCEPT !.next = r]
           h2 == [h EXCEPT ![tail] = e]
<1>2. /\ e \in HandleSet /\ e.key = h[tail].key /\ e.prev = h[tail].prev /\ e.next = r
      /\ e.hh_next = h[tail].hh_next /\ e.hh_prev = h[tail].hh_prev
  BY <1>1 DEF HandleSet
<1>3. h2 = [h EXCEPT ![tail].next = r]
  OBVIOUS
<1> HIDE DEF e
<1>4. h2 \in Seq(HandleSet) /\ Len(h2) = Len(h)
  BY <1>1, <1>2, ExceptSeq
<1>5. DOMAIN h2 = DOMAIN h /\ \A i \in DOMAIN h : h2[i] = IF i = tail THEN e ELSE h[i]
  BY <1>1
<1> HIDE DEF h2
<1>6. /\ h2 \in Seq(HandleSet) /\ Len(h2) = Len(h) /\ DOMAIN h2 = DOMAIN h
      /\ \A i \in DOMAIN h :
           /\ h2[i].key = h[i].key /\ h2[i].prev = h[i].prev
           /\ h2[i].next = IF i = tail THEN r ELSE h[i].next
           /\ h2[i].hh_next = h[i].hh_next /\ h2[i].hh_prev = h[i].hh_prev
  BY <1>2, <1>4, <1>5
<1> QED BY <1>3, <1>6

(* The first record.                                                       *)
LEMMA AddFirstInv ==
  ASSUME NEW pos, NEW m, NEW U \in SUBSET Items, Inner(pos, m, U),
         NEW key \in Keys, Add(key), head = Null
  PROVE  IInv'
<1> DEFINE r == Len(hh) + 1
           new == [key |-> key, prev |-> Null, next |-> Null,
                   hh_prev |-> Null, hh_next |-> Null]
<1>1. /\ Order(pos, m) /\ Typed /\ Control /\ ListInv /\ LookupInv(pos)
  BY DEF Inner
<1>2. /\ loaded /\ (Locked => \A c \in Cpus : ~Reading(c))
      /\ writer.pc = "idle" /\ r \in Items
      /\ head' = r /\ hh' = Append(hh, new)
      /\ writer' = [writer EXCEPT !.at = r, !.pc = "make"]
      /\ Disturb /\ UNCHANGED <<tbl, freed, grown, user, loaded>>
  BY DEF Add, WriteLock, AddKeyptr
<1>3. new \in HandleSet
  BY DEF HandleSet, Pointers
<1>4. /\ hh \in Seq(HandleSet) /\ DOMAIN hh = 1..Len(hh) /\ Len(hh) \in Nat
      /\ freed \subseteq DOMAIN hh
  BY <1>1, StateFacts DEF Typed
<1>5. /\ hh' \in Seq(HandleSet) /\ Len(hh') = r /\ DOMAIN hh' = DOMAIN hh \cup {r}
      /\ hh'[r] = new
  BY <1>2, <1>3, <1>4, AppendFacts
<1>6. writer'.pc = "make" /\ writer'.at = r /\ writer' \in WriterSet
  BY <1>1, <1>2 DEF Typed, WriterSet, Pointers
<1>7. Live = {} /\ tbl = NoTable /\ tbl' = NoTable
  BY <1>1, <1>2 DEF ListInv, Linkage, Top, Control
<1>8. Live' = {r} /\ Linked' = {} /\ Linked = {}
  <2>1. r \notin freed
    BY <1>4
  <2> QED BY <2>1, <1>2, <1>4, <1>5, <1>6, <1>7 DEF Live, Linked
<1>9. rd' \in [Cpus -> LookupSet]
  BY <1>1, <1>2, DisturbType DEF Typed
<1>10. Typed'
  BY <1>1, <1>2, <1>5, <1>6, <1>9 DEF Typed, Items, Pointers
<1>11. Control'
  BY <1>2, <1>5, <1>6, <1>7, <1>8 DEF Control, Items, Null
<1>12. ListInv'
  <2>1. AddedNext(hh')[r] = Null /\ AddedPrev(hh')[r] = Null
    BY <1>5 DEF AddedNext, AddedPrev
  <2> HIDE DEF r
  <2>2. Linkage({r}, r, AddedNext(hh'), AddedPrev(hh'), Age)
    BY <2>1, <1>2, SizesAssumption DEF Linkage, Top, Down, Up, Age, Items, Null
  <2> QED BY <2>2, <1>2, <1>7, <1>8 DEF ListInv
<1>13. ChainInv(pos, {})' /\ NewestFirst(pos)'
  BY <1>6, <1>7 DEF ChainInv, NewestFirst, Settled
<1>14. LookupInv(pos)'
  BY <1>1, <1>2, <1>7, <1>8, LookupsDisturbed
<1> QED BY <1>1, <1>10, <1>11, <1>12, <1>13, <1>14, IInvIntro

(* Another record.                                                         *)
LEMMA AddNextInv ==
  ASSUME NEW pos, NEW m, NEW U \in SUBSET Items, Inner(pos, m, U),
         NEW key \in Keys, Add(key), head # Null
  PROVE  IInv'
<1> DEFINE r == Len(hh) + 1
           new == [key |-> key, prev |-> tbl.tail, next |-> Null,
                   hh_prev |-> Null, hh_next |-> Null]
           told == [hh EXCEPT ![tbl.tail].next = r]
<1>1. /\ Order(pos, m) /\ Typed /\ Control /\ ListInv /\ LookupInv(pos)
      /\ ChainInv(pos, U) /\ NewestFirst(pos)
  BY DEF Inner
<1>2. /\ loaded /\ (Locked => \A c \in Cpus : ~Reading(c))
      /\ writer.pc = "idle" /\ r \in Items
      /\ hh' = Append(told, new) /\ tbl' = [tbl EXCEPT !.tail = r]
      /\ writer' = [writer EXCEPT !.at = r, !.pc = "link"]
      /\ UNCHANGED <<head, rd, freed, grown, user, loaded>>
  BY DEF Add, WriteLock, AddKeyptr
<1>3. /\ tbl # NoTable /\ tbl \in TableSet /\ tbl.tail \in Items /\ tbl.tail \in Live
      /\ tbl.num_items = Cardinality(Linked) /\ \A s \in Live : s <= tbl.tail
  BY <1>1, <1>2, TableFacts DEF Control, ListInv
<1>4. /\ DOMAIN hh = 1..Len(hh) /\ Len(hh) \in Nat /\ hh \in Seq(HandleSet)
      /\ DOMAIN hh \subseteq Items /\ Live \subseteq DOMAIN hh /\ freed \subseteq DOMAIN hh
      /\ Null \notin Items
  BY <1>1, StateFacts DEF Typed
<1>5. new \in HandleSet
  BY <1>3 DEF HandleSet, Pointers
<1>6. /\ told \in Seq(HandleSet) /\ Len(told) = Len(hh) /\ DOMAIN told = DOMAIN hh
      /\ \A i \in DOMAIN hh :
           /\ told[i].key = hh[i].key /\ told[i].prev = hh[i].prev
           /\ told[i].next = IF i = tbl.tail THEN r ELSE hh[i].next
           /\ told[i].hh_next = hh[i].hh_next /\ told[i].hh_prev = hh[i].hh_prev
  <2>1. r \in Pointers /\ tbl.tail \in DOMAIN hh
    BY <1>2, <1>3, <1>4 DEF Pointers
  <2> HIDE DEF r
  <2> QED BY <2>1, <1>4, TellFacts
<1> HIDE DEF told, new
<1>7. /\ hh' \in Seq(HandleSet) /\ Len(hh') = r /\ DOMAIN hh' = DOMAIN hh \cup {r}
      /\ \A i \in DOMAIN hh : hh'[i] = told[i]
      /\ hh'[r] = new
  BY <1>2, <1>5, <1>6, AppendFacts
<1>8. writer'.pc = "link" /\ writer'.at = r /\ writer' \in WriterSet
  BY <1>1, <1>2 DEF Typed, WriterSet, Pointers
<1>9. /\ tbl' \in TableSet /\ tbl' # NoTable /\ tbl'.tail = r
      /\ tbl'.num_buckets = tbl.num_buckets /\ tbl'.buckets = tbl.buckets
      /\ tbl'.expands = tbl.expands /\ tbl'.num_items = tbl.num_items
  BY <1>2, <1>3, NoTableType DEF TableSet
<1>10. r \notin DOMAIN hh /\ r \notin freed
  BY <1>4
<1> HIDE DEF r
<1>11. /\ Live' = Live \cup {r} /\ Linked' = Live /\ Linked = Live
       /\ \A k : Holding(k)' = Holding(k) /\ Holding(k) \subseteq Live
  <2>1. Live' = Live \cup {r}
    BY <1>2, <1>4, <1>7, <1>10 DEF Live
  <2>2. Linked' = Live /\ Linked = Live
    BY <2>1, <1>2, <1>4, <1>8, <1>10 DEF Linked
  <2>3. \A i \in Live : hh'[i].key = hh[i].key
    BY <1>4, <1>6, <1>7
  <2> QED BY <2>1, <2>2, <2>3, <1>2, <1>4, <1>8, <1>10 DEF Holding
<1>12. Typed'
  BY <1>1, <1>2, <1>4, <1>7, <1>8, <1>9 DEF Typed, Items
<1>13. Control'
  BY <1>1, <1>2, <1>3, <1>7, <1>8, <1>9, <1>11 DEF Control
<1>14. ListInv'
  <2> DEFINE S == Live
             tail == tbl.tail
             nx == AddedNext(hh)
             pv == AddedPrev(hh)
             nx2 == AddedNext(hh')
             pv2 == AddedPrev(hh')
  <2>1. Linkage(S, head, nx, pv, Age)
    BY <1>1 DEF ListInv
  <2>2. S \subseteq Items /\ tail \in S /\ r \in Items \ S
    BY <1>2, <1>3, <1>4, <1>10
  <2>3. \A s \in S : Age[tail] <= Age[s] /\ Age[r] < Age[s] /\ s < r
    <3>1. \A s \in S : s < r
      BY <1>4 DEF r
    <3> QED BY <3>1, <2>2, <1>3, SizesAssumption DEF Age, Items
  <2>4. nx2[r] = Null /\ pv2[r] = tail
    BY <1>7 DEF AddedNext, AddedPrev, new
  <2>5. \A s \in S : nx2[s] = (IF s = tail THEN r ELSE nx[s]) /\ pv2[s] = pv[s]
    BY <1>4, <1>6, <1>7 DEF AddedNext, AddedPrev
  <2> HIDE DEF S, tail, nx, pv, nx2, pv2
  <2>6. Linkage(S \cup {r}, head, nx2, pv2, Age)
    BY <2>1, <2>2, <2>3, <2>4, <2>5, AgeOrder, LinkageAppend
  <2> USE DEF S, tail, nx2, pv2
  <2>7. tbl'.tail \in Live' /\ \A s \in Live' : s <= tbl'.tail
    BY <1>9, <1>11, <2>2, <2>3 DEF Items
  <2>8. tbl'.num_items = Cardinality(Linked')
    BY <1>3, <1>9, <1>11
  <2> QED BY <2>6, <2>7, <2>8, <1>2, <1>11 DEF ListInv
<1>15. ChainInv(pos, {})'
  <2>1. Chained(hh, tbl.buckets, Live, tbl.num_buckets, pos)
    BY <1>1, <1>2, <1>3, <1>11 DEF ChainInv, Settled
  <2>2. \A s \in Live : /\ hh'[s].key = hh[s].key /\ pos[s] = pos[s]
                        /\ hh'[s].hh_next = hh[s].hh_next
                        /\ hh'[s].hh_prev = hh[s].hh_prev
    BY <1>4, <1>6, <1>7
  <2>3. Chained(hh', tbl.buckets, Live, tbl.num_buckets, pos)
    BY <2>1, <2>2, <1>4, <1>7, ChainedSame
  <2>4. \A b \in DOMAIN tbl.buckets : tbl.buckets[b].hh_head \in Live \cup {Null}
    BY <1>1, <1>3, <1>11 DEF ChainInv
  <2> QED BY <2>3, <2>4, <1>8, <1>9, <1>11 DEF ChainInv
<1>16. NewestFirst(pos)'
  BY <1>1, <1>2, <1>3, <1>8, <1>9, <1>11 DEF NewestFirst, Settled
<1>17. LookupInv(pos)'
  <2>1. \A s \in Linked : /\ hh'[s].key = hh[s].key /\ hh'[s].hh_next = hh[s].hh_next
                          /\ pos[s] = pos[s]
    BY <1>4, <1>6, <1>7, <1>11
  <2>2. ~Growing'
    BY <1>8 DEF Growing
  <2> QED BY <1>1, <1>2, <1>3, <1>9, <1>11, <2>1, <2>2, LookupsKept
<1> QED BY <1>1, <1>12, <1>13, <1>14, <1>15, <1>16, <1>17, IInvIntro

(* HASH_MAKE_TABLE: the first record brings a table of empty buckets.      *)
LEMMA MakeTableInv ==
  ASSUME NEW pos, NEW m, NEW U \in SUBSET Items, Inner(pos, m, U),
         MakeTable, UNCHANGED <<user, loaded>>
  PROVE  IInv'
<1> DEFINE array == [b \in 0..(InitialBuckets - 1) |-> EmptyBucket]
<1>1. /\ Order(pos, m) /\ Typed /\ Control /\ ListInv /\ LookupInv(pos)
  BY DEF Inner
<1>2. /\ writer.pc = "make" /\ writer' = [writer EXCEPT !.pc = "link"]
      /\ tbl' = [num_buckets |-> InitialBuckets, num_items |-> 0, tail |-> head,
                 ineff_expands |-> 0, noexpand |-> FALSE, expands |-> 0,
                 buckets |-> array]
      /\ Disturb /\ UNCHANGED <<head, hh, freed, grown, user, loaded>>
  BY DEF MakeTable, WriterGoes
<1>3. /\ Live = {writer.at} /\ head # Null /\ writer.at = Len(hh) /\ loaded /\ tbl = NoTable
      /\ Live \in SUBSET Items
  BY <1>1, <1>2, StateFacts DEF Control
<1>4. head = writer.at /\ head \in Items
  BY <1>1, <1>3 DEF ListInv, Linkage, Top
<1>5. array \in [0..(InitialBuckets - 1) -> BucketSet]
      /\ \A b \in 0..(InitialBuckets - 1) : array[b].hh_head = Null /\ array[b].count = 0
  BY DEF EmptyBucket, BucketSet, Pointers
<1> HIDE DEF array
<1>6. /\ tbl' \in TableSet /\ tbl' # NoTable /\ tbl'.num_buckets = InitialBuckets
      /\ tbl'.num_items = 0 /\ tbl'.tail = head /\ tbl'.buckets = array
  <2>1. tbl' \in TableSet
    BY <1>2, <1>4, <1>5, SizesAssumption DEF TableSet
  <2> QED BY <2>1, <1>2, NoTableType
<1>7. writer'.pc = "link" /\ writer'.at = writer.at /\ writer' \in WriterSet
  BY <1>1, <1>2 DEF Typed, WriterSet
<1>8. Live' = Live /\ Linked = {} /\ Linked' = {}
  BY <1>2, <1>3, <1>7 DEF Live, Linked
<1>9. rd' \in [Cpus -> LookupSet]
  BY <1>1, <1>2, DisturbType DEF Typed
<1>10. Typed'
  BY <1>1, <1>2, <1>6, <1>7, <1>9 DEF Typed
<1>11. Control'
  BY <1>1, <1>2, <1>3, <1>6, <1>7, <1>8 DEF Control
<1>12. ListInv'
  <2>1. Cardinality({}) = 0
    BY FS_EmptySet
  <2>2. tbl'.tail \in Live' /\ \A s \in Live' : s <= tbl'.tail
    BY <1>3, <1>4, <1>6, <1>8, SizesAssumption DEF Items
  <2>3. tbl'.num_items = Cardinality(Linked')
    BY <2>1, <1>6, <1>8
  <2> QED BY <2>2, <2>3, <1>1, <1>2, <1>8 DEF ListInv
<1>13. ChainInv(pos, {})'
  <2>1. Chained(hh', array, {}, InitialBuckets, pos)
    BY SizesAssumption, ChainedNone DEF array
  <2> QED BY <2>1, <1>5, <1>6, <1>7, <1>8 DEF ChainInv
<1>14. NewestFirst(pos)'
  BY <1>8 DEF NewestFirst
<1>15. LookupInv(pos)'
  <2>1. Locked => \A c \in Cpus : ~Reading(c)
    BY <1>1, <1>2 DEF LookupInv, Excluded
  <2> QED BY <2>1, <1>1, <1>2, <1>3, <1>8, LookupsDisturbed
<1> QED BY <1>1, <1>10, <1>11, <1>12, <1>13, <1>14, <1>15, IInvIntro

-------------------------------------------------------------------------------
(* HASH_ADD_TO_BKT.                                                        *)

(* A set of numbers that is not empty has a least one.                     *)
LEMMA LeastIndex ==
  ASSUME NEW S \in SUBSET Nat, S # {}
  PROVE  Min(S) \in S /\ \A y \in S : Min(S) <= y
<1>1. PICK x \in S : \A y \in S : ~ (<<y, x>> \in OpToRel(<, Nat))
  BY NatLessThanWellFounded, WFMin
<1>2. \A y \in S : ~(y < x)
  BY <1>1 DEF OpToRel
<1>3. \A y \in S : x <= y
  BY <1>2
<1> QED BY <1>3 DEF Min

(* The first full bucket at or after b.                                    *)
LEMMA FirstFromFacts ==
  ASSUME NEW n \in Nat, NEW array, DOMAIN array = 0..(n - 1), NEW b \in Nat
  PROVE  \/ /\ FirstFrom(array, b) = Null
            /\ \A i \in 0..(n - 1) : b <= i => array[i].hh_head = Null
         \/ \E j \in 0..(n - 1) :
              /\ b <= j /\ FirstFrom(array, b) = array[j].hh_head
              /\ array[j].hh_head # Null
              /\ \A i \in 0..(n - 1) : b <= i /\ i < j => array[i].hh_head = Null
<1> DEFINE full == {i \in DOMAIN array : i >= b /\ array[i].hh_head # Null}
<1>1. CASE full = {}
  BY <1>1 DEF FirstFrom
<1>2. CASE full # {}
  <2>1. full \in SUBSET Nat
    OBVIOUS
  <2>2. FirstFrom(array, b) = array[Min(full)].hh_head
    BY <1>2 DEF FirstFrom
  <2> HIDE DEF full
  <2>3. Min(full) \in full /\ \A i \in full : Min(full) <= i
    BY <1>2, <2>1, LeastIndex
  <2> DEFINE j == Min(full)
  <2>4. j \in full /\ (\A i \in full : j <= i) /\ FirstFrom(array, b) = array[j].hh_head
    BY <2>2, <2>3
  <2> HIDE DEF j
  <2> QED BY <2>4 DEF full
<1> QED BY <1>1, <1>2

(* The records U that are not yet moved are those of the buckets from      *)
(* first on.                                                               *)
LeftFrom(first, h, array, n, U, pos) ==
  \A b \in 0..(n - 1) :
    /\ b < first => Members(h, U, n, b) = {}
    /\ first <= b => Top(Members(h, U, n, b), array[b].hh_head, pos)

(* The writer goes to the first full bucket at or after first, when        *)
(* everything before it is moved.                                          *)
LEMMA MovingOn ==
  ASSUME NEW h, NEW n \in Nat \ {0}, NEW array, DOMAIN array = 0..(n - 1),
         NEW U, U \subseteq Items, NEW pos, NEW first \in Nat,
         LeftFrom(first, h, array, n, U, pos),
         NEW at, at = FirstFrom(array, first)
  PROVE  /\ at \in U \cup {Null}
         /\ \A b \in 0..(n - 1) :
              Top(Members(h, U, n, b), StillFirst(h, array, n, at, b), pos)
<1>0. Null \notin Items
  BY SizesAssumption DEF Null, Items
<1>1. CASE at = Null /\ \A i \in 0..(n - 1) : first <= i => array[i].hh_head = Null
  <2> SUFFICES ASSUME NEW b \in 0..(n - 1)
               PROVE  Top(Members(h, U, n, b), Null, pos)
    BY <1>1 DEF StillFirst
  <2> QED BY <1>1 DEF Top, LeftFrom
<1>2. ASSUME NEW j \in 0..(n - 1), first <= j, at = array[j].hh_head, at # Null,
             \A i \in 0..(n - 1) : first <= i /\ i < j => array[i].hh_head = Null
      PROVE  /\ at \in U
             /\ \A b \in 0..(n - 1) :
                  Top(Members(h, U, n, b), StillFirst(h, array, n, at, b), pos)
  <2>1. at \in U /\ ToBkt(h[at].key, n) = j
    BY <1>2 DEF Top, Members, LeftFrom
  <2> SUFFICES ASSUME NEW b \in 0..(n - 1)
               PROVE  Top(Members(h, U, n, b), StillFirst(h, array, n, at, b), pos)
    BY <2>1
  <2>2. CASE b < j
    <3>1. StillFirst(h, array, n, at, b) = Null
      BY <2>1, <2>2 DEF StillFirst
    <3>2. Members(h, U, n, b) = {}
      BY <1>2, <2>2 DEF Top, LeftFrom
    <3> QED BY <3>1, <3>2 DEF Top
  <2>3. CASE b >= j
    <3>1. StillFirst(h, array, n, at, b) = array[b].hh_head
      BY <1>2, <2>1, <2>3 DEF StillFirst
    <3> QED BY <3>1, <1>2, <2>3 DEF LeftFrom
  <2> QED BY <2>2, <2>3
<1>3. \/ at = Null /\ \A i \in 0..(n - 1) : first <= i => array[i].hh_head = Null
      \/ \E j \in 0..(n - 1) :
           /\ first <= j /\ at = array[j].hh_head /\ at # Null
           /\ \A i \in 0..(n - 1) : first <= i /\ i < j => array[i].hh_head = Null
  BY FirstFromFacts
<1> QED BY <1>1, <1>2, <1>3

(* What PushBucket does to the array.                                      *)
LEMMA PushBucketFacts ==
  ASSUME NEW n, NEW array \in [0..(n - 1) -> BucketSet], NEW b \in 0..(n - 1),
         NEW r \in Pointers
  PROVE  LET array2 == PushBucket(array, b, r)
         IN /\ array2 \in [0..(n - 1) -> BucketSet]
            /\ array2[b].hh_head = r /\ array2[b].count = array[b].count + 1
            /\ \A i \in 0..(n - 1) : i # b => array2[i] = array[i]
<1>1. /\ array[b] \in BucketSet /\ array[b].count + 1 \in Nat
      /\ array[b].expand_mult \in Nat
  BY DEF BucketSet
<1> DEFINE bucket == [array[b] EXCEPT !.hh_head = r, !.count = @ + 1]
<1>2. bucket \in BucketSet /\ bucket.hh_head = r /\ bucket.count = array[b].count + 1
  BY <1>1 DEF BucketSet
<1>3. PushBucket(array, b, r) = [array EXCEPT ![b] = bucket]
  BY DEF PushBucket
<1> HIDE DEF bucket
<1> QED BY <1>2, <1>3

(* A record is put in its bucket, and perhaps an expansion begins.         *)
LEMMA AddToBktInv ==
  ASSUME NEW pos, NEW m, NEW U \in SUBSET Items, Inner(pos, m, U),
         AddToBkt, UNCHANGED <<user, loaded>>
  PROVE  IInv'
<1> DEFINE n == tbl.num_buckets
           r == writer.at
           b == ToBkt(hh[r].key, n)
           array == PushBucket(tbl.buckets, b, r)
<1>1. /\ Order(pos, m) /\ Typed /\ Control /\ ListInv /\ LookupInv(pos)
      /\ ChainInv(pos, U) /\ NewestFirst(pos)
  BY DEF Inner
<1>2. /\ writer.pc = "link" /\ hh' = PushHandles(hh, tbl.buckets, b, r)
      /\ tbl' = [tbl EXCEPT !.buckets = array, !.num_items = @ + 1]
      /\ UNCHANGED <<head, freed, user, loaded>>
  BY DEF AddToBkt
<1>3. \/ writer' = WriterIdle /\ UNCHANGED <<grown, rd>>
      \/ /\ writer' = [writer EXCEPT !.pc = "move", !.at = FirstFrom(array, 0)]
         /\ grown' = [i \in 0..(2 * n - 1) |-> EmptyBucket]
         /\ Disturb
  BY DEF AddToBkt
<1>4. r = Len(hh) /\ r \in Live /\ loaded /\ tbl # NoTable /\ head # Null
  BY <1>1, <1>2 DEF Control
<1>5. /\ tbl \in TableSet /\ n \in Nat \ {0} /\ tbl.num_items = Cardinality(Linked)
      /\ tbl.tail \in Live /\ \A s \in Live : s <= tbl.tail
  BY <1>1, <1>4, TableFacts DEF ListInv
<1>6. /\ hh \in Seq(HandleSet) /\ Len(hh) <= MaxRecords /\ DOMAIN hh = 1..Len(hh)
      /\ DOMAIN hh \subseteq Items /\ Live \subseteq DOMAIN hh /\ Null \notin Items
      /\ r \in DOMAIN hh /\ r \in Items /\ hh[r].key \in Keys
  BY <1>1, <1>4, StateFacts DEF Typed
<1>7. Linked = Live \ {r}
  BY <1>2 DEF Linked
<1>8. Chained(hh, tbl.buckets, Linked, n, pos) /\ tbl.buckets \in [0..(n - 1) -> BucketSet]
  BY <1>1, <1>2, <1>4 DEF ChainInv, Settled, Chained
<1>9. \A i \in 0..(n - 1) : tbl.buckets[i].hh_head \in Linked \cup {Null}
  BY <1>1, <1>4, <1>8 DEF ChainInv
<1>10. b \in 0..(n - 1) /\ tbl.buckets[b] \in BucketSet /\ tbl.buckets[b].hh_head # r
  <2>1. b \in 0..(n - 1)
    BY <1>5, <1>6, ToBktType
  <2> QED BY <2>1, <1>6, <1>7, <1>8, <1>9
<1>11. /\ array \in [0..(n - 1) -> BucketSet]
       /\ array[b].hh_head = r /\ array[b].count = tbl.buckets[b].count + 1
       /\ \A i \in 0..(n - 1) : i # b => array[i] = tbl.buckets[i]
  <2>1. r \in Pointers
    BY <1>6 DEF Pointers
  <2> HIDE DEF b, n, r
  <2> QED BY <2>1, <1>8, <1>10, PushBucketFacts
<1> PICK pos2 : pos2 = [pos EXCEPT ![r] = m]
  OBVIOUS
<1>12. Order(pos2, m + 1) /\ pos2[r] = m /\ \A s \in Linked : pos2[s] = pos[s] /\ pos[s] < m
  BY <1>1, <1>6, <1>7, OrderRaise DEF Order
<1> HIDE DEF array
<1>13. /\ hh' \in Seq(HandleSet) /\ Len(hh') = Len(hh) /\ DOMAIN hh' = DOMAIN hh
       /\ \A i \in DOMAIN hh :
            /\ hh'[i].key = hh[i].key
            /\ hh'[i].next = hh[i].next /\ hh'[i].prev = hh[i].prev
            /\ i # r => hh'[i].hh_next = hh[i].hh_next
  <2> DEFINE h2 == PushHandles(hh, tbl.buckets, b, r)
  <2>1. /\ h2 \in Seq(HandleSet) /\ Len(h2) = Len(hh) /\ DOMAIN h2 = DOMAIN hh
        /\ \A i \in DOMAIN hh :
             /\ h2[i].key = hh[i].key
             /\ h2[i].next = hh[i].next /\ h2[i].prev = hh[i].prev
             /\ h2[i].hh_next = IF i = r THEN tbl.buckets[b].hh_head ELSE hh[i].hh_next
    <3> HIDE DEF b, r
    <3> QED BY <1>6, <1>10, PushHandlesFacts
  <2> HIDE DEF h2
  <2> QED BY <2>1, <1>2 DEF h2
<1>14. Chained(hh', array, Live, n, pos2)
  <2>1. Chained(PushHandles(hh, tbl.buckets, b, r), array, Linked \cup {r}, n, pos2)
    <3>1. Linked \subseteq DOMAIN hh /\ r \in DOMAIN hh \ Linked /\ b = ToBkt(hh[r].key, n)
      BY <1>6, <1>7
    <3> HIDE DEF b, n, r
    <3> QED BY <3>1, <1>1, <1>5, <1>6, <1>8, <1>11, ChainedPush
  <2>2. Linked \cup {r} = Live
    BY <1>4, <1>7
  <2> QED BY <2>1, <2>2, <1>2
<1>15. Live' = Live /\ Cardinality(Live) = tbl.num_items + 1 /\ Cardinality(Live) \in 0..MaxRecords
  <2>1. Linked \in SUBSET Items /\ Live \in SUBSET Items /\ Live = Linked \cup {r}
    BY <1>4, <1>6, <1>7
  <2>2. Cardinality(Linked \cup {r}) = Cardinality(Linked) + 1
    BY <2>1, <1>7, RecordsFinite, FS_AddElement
  <2>3. Cardinality(Live) \in 0..MaxRecords
    BY <2>1, RecordsFinite
  <2> QED BY <2>1, <2>2, <2>3, <1>2, <1>5, <1>13 DEF Live
<1>16. /\ tbl' \in TableSet /\ tbl' # NoTable /\ tbl'.num_buckets = n
       /\ tbl'.num_items = Cardinality(Live) /\ tbl'.tail = tbl.tail
       /\ tbl'.buckets = array /\ tbl'.expands = tbl.expands
  <2>1. /\ tbl'.num_buckets = n /\ tbl'.num_items = tbl.num_items + 1
        /\ tbl'.tail = tbl.tail /\ tbl'.buckets = array /\ tbl'.expands = tbl.expands
    BY <1>2, <1>5 DEF TableSet
  <2>3. /\ array \in UNION {[0..(k - 1) -> BucketSet] : k \in Nat}
        /\ tbl.num_items + 1 \in 0..MaxRecords
    BY <1>5, <1>11, <1>15
  <2>2. tbl' \in TableSet
    <3> HIDE DEF n
    <3> QED BY <2>3, <1>2, <1>5 DEF TableSet
  <2> QED BY <2>1, <2>2, <1>15, NoTableType
<1>17. writer'.pc \in {"idle", "move"} => Linked' = Live
  BY <1>15 DEF Linked
<1>18. writer'.pc \in {"idle", "move"} => ListInv'
  <2>1. AddedNext(hh') = AddedNext(hh) /\ AddedPrev(hh') = AddedPrev(hh)
    BY <1>13 DEF AddedNext, AddedPrev
  <2> QED BY <2>1, <1>1, <1>2, <1>5, <1>15, <1>16, <1>17 DEF ListInv
<1>19. \A i \in DOMAIN array : array[i].hh_head \in Live \cup {Null}
  BY <1>4, <1>7, <1>9, <1>11
<1>20. Locked => \A c \in Cpus : ~Reading(c)
  BY <1>1, <1>2 DEF LookupInv, Excluded
<1>21. \A i \in Linked : hh'[i].key = hh[i].key /\ hh'[i].hh_next = hh[i].hh_next
  BY <1>6, <1>7, <1>13
<1>22. CASE writer' = WriterIdle /\ UNCHANGED <<grown, rd>>
  <2>1. writer'.pc = "idle" /\ writer' \in WriterSet
    BY <1>22 DEF WriterIdle, WriterSet, Pointers
  <2>2. Typed'
    BY <1>1, <1>2, <1>6, <1>13, <1>16, <1>22, <2>1 DEF Typed
  <2>3. Control'
    BY <1>1, <1>2, <1>4, <1>16, <2>1 DEF Control
  <2>4. ChainInv(pos2, {})'
    BY <1>14, <1>16, <1>17, <1>19, <2>1 DEF ChainInv
  <2>5. NewestFirst(pos2)'
    <3>1. Settled /\ (Settled' /\ tbl'.expands = 0 => tbl.expands = 0)
      BY <1>2, <1>4, <1>16 DEF Settled
    <3>2. \A s \in Live : s \in Nat /\ r \in Nat /\ (s # r => s < r)
      BY <1>4, <1>6
    <3> HIDE DEF r
    <3>3. \A s, q \in Linked : tbl'.expands = 0 /\ Settled' /\ s < q => pos[s] < pos[q]
      BY <3>1, <1>1 DEF NewestFirst
    <3>4. \A s, q \in Live : tbl'.expands = 0 /\ Settled' /\ s < q => pos2[s] < pos2[q]
      BY <3>2, <3>3, <1>7, <1>12
    <3> QED BY <3>4, <1>17, <2>1 DEF NewestFirst
  <2>6. LookupInv(pos2)'
    <3>1. \A key : Holding(key) \subseteq Linked /\ Holding(key) \subseteq Holding(key)'
      BY <1>2, <1>6, <1>7, <1>13, <1>15, <2>1 DEF Holding, Linked
    <3>2. \A i \in 0..(n - 1) : tbl.buckets[i].hh_head # Null => tbl'.buckets[i].hh_head # Null
      BY <1>6, <1>11, <1>16
    <3>3. ~Growing' /\ Linked \subseteq Linked' /\ rd' = rd /\ user' = user
      BY <1>2, <1>7, <1>17, <1>22, <2>1 DEF Growing
    <3>4. \A i \in Linked : /\ hh'[i].key = hh[i].key /\ hh'[i].hh_next = hh[i].hh_next
                            /\ pos2[i] = pos[i]
      BY <1>12, <1>21
    <3> HIDE DEF array, r
    <3> QED BY <3>1, <3>2, <3>3, <3>4, <1>1, <1>4, <1>16, <1>20, LookupsKept
  <2> QED BY <1>12, <1>18, <2>1, <2>2, <2>3, <2>4, <2>5, <2>6, IInvIntro
<1>23. CASE /\ writer' = [writer EXCEPT !.pc = "move", !.at = FirstFrom(array, 0)]
            /\ grown' = [i \in 0..(2 * n - 1) |-> EmptyBucket]
            /\ Disturb
  <2> PICK V : V = Live
    OBVIOUS
  <2>1. /\ FirstFrom(array, 0) \in Live \cup {Null}
        /\ \A i \in 0..(n - 1) :
             Top(Members(hh', Live, n, i), StillFirst(hh', array, n, FirstFrom(array, 0), i),
                 pos2)
    <3>1. \A i \in 0..(n - 1) : Top(Members(hh', Live, n, i), array[i].hh_head, pos2)
      BY <1>14 DEF Chained, Linkage
    <3> HIDE DEF n, array, r
    <3> PICK first \in Nat : first = 0
      OBVIOUS
    <3>5. \A i \in 0..(n - 1) : i \in Nat /\ ~(i < first)
      BY <1>5
    <3>2. LeftFrom(first, hh', array, n, Live, pos2)
      BY <3>1, <3>5 DEF LeftFrom
    <3>3. DOMAIN array = 0..(n - 1) /\ Live \subseteq Items
      BY <1>6, <1>11
    <3>4. FirstFrom(array, 0) = FirstFrom(array, first)
      OBVIOUS
    <3>6. PICK at : at = FirstFrom(array, first)
      OBVIOUS
    <3>7. /\ at \in Live \cup {Null}
          /\ \A i \in 0..(n - 1) :
               Top(Members(hh', Live, n, i), StillFirst(hh', array, n, at, i), pos2)
      BY <3>2, <3>3, <3>6, <1>5, MovingOn
    <3> QED BY <3>4, <3>6, <3>7
  <2>2. /\ writer'.pc = "move" /\ writer'.at = FirstFrom(array, 0) /\ writer' \in WriterSet
    BY <1>1, <1>6, <1>23, <2>1 DEF Typed, WriterSet, Pointers
  <2>3. rd' \in [Cpus -> LookupSet]
    BY <1>1, <1>23, DisturbType DEF Typed
  <2>4. \A i \in DOMAIN grown' : grown'[i] \in BucketSet
    BY <1>23 DEF EmptyBucket, BucketSet, Pointers
  <2>5. Typed'
    BY <1>1, <1>2, <1>6, <1>13, <1>16, <2>2, <2>3, <2>4 DEF Typed
  <2>6. Control'
    BY <1>1, <1>2, <1>4, <1>16, <2>2 DEF Control
  <2>7. ChainInv(pos2, V)'
    <3>1. Chained(hh', grown', {}, 2 * n, pos2)
      <4>1. 2 * n \in Nat
        BY <1>5
      <4> QED BY <4>1, <1>23, ChainedNone
    <3>2. \A i \in 0..(n - 1) : Down(Members(hh', Live, n, i), HhNext(hh'), pos2)
      BY <1>14 DEF Chained, Linkage
    <3>3. Moving(writer.at, hh, tbl.buckets, tbl.num_buckets, V, pos2)'
      BY <2>1, <2>2, <3>2, <1>15, <1>16 DEF Moving
    <3>4. V \subseteq Live' /\ Live' \ V = {}
      BY <1>15
    <3>5. (\A i \in DOMAIN tbl.buckets : tbl.buckets[i].hh_head \in Linked \cup {Null})'
      BY <1>16, <1>17, <1>19, <2>2
    <3>6. ~Settled'
      BY <2>2 DEF Settled
    <3> QED BY <3>1, <3>3, <3>4, <3>5, <3>6, <2>2, <1>11, <1>15, <1>16 DEF ChainInv
  <2>8. NewestFirst(pos2)'
    BY <2>2 DEF NewestFirst, Settled
  <2>9. LookupInv(pos2)'
    BY <1>1, <1>2, <1>4, <1>7, <1>16, <1>17, <1>20, <1>21, <1>23, <2>2, LookupsDisturbed
  <2>10. V \in SUBSET Items
    BY <1>6
  <2> QED BY <1>12, <1>15, <1>18, <2>2, <2>5, <2>6, <2>7, <2>8, <2>9, <2>10, IInvIntro
<1> QED BY <1>3, <1>22, <1>23

-------------------------------------------------------------------------------
(* HASH_EXPAND_BUCKETS.                                                    *)

(* The records S keep their place and what follows them.                   *)
SameNext(S, h, h2, pos, pos2) ==
  \A s \in S : /\ h2[s].key = h[s].key /\ h2[s].hh_next = h[s].hh_next
              /\ pos2[s] = pos[s]

(* The record that was first of those to be moved is moved: the next is    *)
(* its successor in the old chain, or the first of a later bucket.         *)
LEMMA MovingNext ==
  ASSUME NEW pos, NEW m, Order(pos, m), NEW h \in Seq(HandleSet), Len(h) <= MaxRecords,
         NEW n \in Nat \ {0}, NEW array, DOMAIN array = 0..(n - 1), NEW U, U \subseteq DOMAIN h,
         NEW r \in U, Moving(r, h, array, n, U, pos),
         NEW h2 \in Seq(HandleSet), NEW pos2,
         SameNext(U \ {r}, h, h2, pos, pos2), DOMAIN h2 = DOMAIN h, NEW at,
         at = (IF h[r].hh_next # Null THEN h[r].hh_next
               ELSE FirstFrom(array, ToBkt(h[r].key, n) + 1))
  PROVE  Moving(at, h2, array, n, U \ {r}, pos2)
<1> DEFINE V == U \ {r}
           old == ToBkt(h[r].key, n)
           M == Members(h, U, n, old)
<1>1. /\ DOMAIN h \subseteq Items /\ h[r].key \in Keys /\ Null \notin Items
      /\ \A s \in U : s \in Items /\ pos[s] \in Nat /\ s # Null
      /\ \A s, t \in U : pos[s] = pos[t] => s = t
  <2>1. DOMAIN h \subseteq Items /\ h[r].key \in Keys
    BY HandlesType
  <2>2. Null \notin Items
    BY SizesAssumption DEF Null, Items
  <2> QED BY <2>1, <2>2 DEF Order
<1>2. old \in 0..(n - 1) /\ r # Null
  BY <1>1, ToBktType
<1>3. \A i \in 0..(n - 1) :
        /\ Top(Members(h, U, n, i), StillFirst(h, array, n, r, i), pos)
        /\ Down(Members(h, U, n, i), HhNext(h), pos)
  BY DEF Moving
<1>4. \A i \in 0..(n - 1) : Members(h2, V, n, i) = Members(h, U, n, i) \ {r}
  BY DEF Members, SameNext
<1>5. r \in M /\ \A s \in M : s \in U /\ pos[s] <= pos[r]
  <2>1. Top(M, r, pos)
    BY <1>2, <1>3 DEF StillFirst
  <2> QED BY <2>1, <1>2 DEF Top, Members
<1>6. HhNext(h)[r] = h[r].hh_next
  BY DEF HhNext
<1>7. Down(M, HhNext(h), pos)
  BY <1>2, <1>3
<1>8. \A i \in 0..(n - 1) : Down(Members(h2, V, n, i), HhNext(h2), pos2)
  <2> SUFFICES ASSUME NEW i \in 0..(n - 1)
               PROVE  Down(Members(h2, V, n, i), HhNext(h2), pos2)
    OBVIOUS
  <2> DEFINE N == Members(h, U, n, i)
  <2>1. Members(h2, V, n, i) = N \ {r} /\ Down(N, HhNext(h), pos) /\ N \subseteq U
    BY <1>3, <1>4 DEF Members
  <2>2. r \in N => \A s \in N : pos[s] <= pos[r]
    BY <1>5 DEF Members
  <2>3. \A s \in N \ {r} : HhNext(h2)[s] = HhNext(h)[s] /\ pos2[s] = pos[s]
    BY DEF HhNext, Members, SameNext
  <2> HIDE DEF N
  <2>4. \A s \in N \ {r} : HhNext(h)[s] # r
    <3> SUFFICES ASSUME NEW s \in N \ {r}, HhNext(h)[s] = r
                 PROVE  FALSE
      OBVIOUS
    <3>1. r \in N /\ pos[r] < pos[s]
      BY <2>1, <1>2 DEF Down
    <3> QED BY <3>1, <2>1, <2>2, <1>1
  <2>5. Down(N \ {r}, HhNext(h2), pos2)
    BY <2>1, <2>3, <2>4 DEF Down
  <2> QED BY <2>1, <2>5
<1>9. CASE h[r].hh_next # Null
  <2>1. at = h[r].hh_next /\ at # Null /\ at \in M /\ at # r
        /\ \A s \in M : s # r => pos[s] <= pos[at]
    <3>1. /\ at = h[r].hh_next /\ at # Null /\ at \in M /\ pos[at] < pos[r]
          /\ \A s \in M : pos[s] <= pos[at] \/ pos[r] <= pos[s]
      BY <1>5, <1>6, <1>7, <1>9 DEF Down
    <3>2. \A s \in M : s # r => ~(pos[r] <= pos[s])
      BY <1>1, <1>5
    <3> QED BY <3>1, <3>2, <1>1, <1>5
  <2>2. at \in V /\ ToBkt(h2[at].key, n) = old
    BY <2>1 DEF Members, SameNext
  <2>3. ASSUME NEW i \in 0..(n - 1)
        PROVE  Top(Members(h2, V, n, i), StillFirst(h2, array, n, at, i), pos2)
    <3>1. CASE i < old
      <4>1. StillFirst(h, array, n, r, i) = Null /\ StillFirst(h2, array, n, at, i) = Null
        BY <2>2, <3>1 DEF StillFirst
      <4>2. Members(h, U, n, i) = {}
        BY <4>1, <1>3 DEF Top
      <4> QED BY <4>1, <4>2, <1>4 DEF Top
    <3>2. CASE i = old
      <4>0. Members(h2, V, n, i) = Members(h, U, n, i) \ {r}
        BY <1>4
      <4>3. Members(h, U, n, i) = M
        BY <3>2
      <4>4. ToBkt(h2[at].key, n) = i /\ ~(i < i)
        BY <2>2, <3>2
      <4>5. StillFirst(h2, array, n, at, i) = at
        BY <4>4 DEF StillFirst
      <4>1. StillFirst(h2, array, n, at, i) = at /\ Members(h2, V, n, i) = M \ {r}
        BY <4>0, <4>3, <4>5
      <4>2. \A s \in M \ {r} : pos2[s] = pos[s]
        BY <1>5 DEF SameNext
      <4> QED BY <4>1, <4>2, <2>1 DEF Top
    <3>3. CASE i > old
      <4>1. StillFirst(h, array, n, r, i) = StillFirst(h2, array, n, at, i)
        BY <2>1, <2>2, <3>3, <1>2 DEF StillFirst
      <4>2. Members(h2, V, n, i) = Members(h, U, n, i)
            /\ \A s \in Members(h, U, n, i) : pos2[s] = pos[s]
        BY <3>3, <1>2 DEF Members, SameNext
      <4> QED BY <4>1, <4>2, <1>3 DEF Top
    <3> QED BY <3>1, <3>2, <3>3, <1>2
  <2> QED BY <2>2, <2>3, <1>8 DEF Moving
<1>10. CASE h[r].hh_next = Null
  <2>1. M = {r}
    BY <1>1, <1>5, <1>6, <1>7, <1>10 DEF Down
  <2>2. LeftFrom(old + 1, h2, array, n, V, pos2)
    <3> SUFFICES ASSUME NEW i \in 0..(n - 1)
                 PROVE  /\ i < old + 1 => Members(h2, V, n, i) = {}
                        /\ old + 1 <= i => Top(Members(h2, V, n, i), array[i].hh_head, pos2)
      BY DEF LeftFrom
    <3>4. (i < old \/ i = old \/ i > old) /\ (i <= old => ~(old + 1 <= i))
      <4> HIDE DEF old
      <4> QED BY <1>2
    <3>6. Members(h2, V, n, i) = Members(h, U, n, i) \ {r}
      BY <1>4
    <3>1. CASE i < old
      <4>1. StillFirst(h, array, n, r, i) = Null
        BY <3>1 DEF StillFirst
      <4>2. Members(h, U, n, i) = {}
        BY <4>1, <1>3 DEF Top
      <4>3. i <= old /\ Members(h2, V, n, i) = {}
        <5>1. i <= old
          <6> HIDE DEF old
          <6> QED BY <3>1, <1>2
        <5> QED BY <5>1, <4>2, <3>6
      <4> QED BY <4>3, <3>4
    <3>2. CASE i = old
      <4>1. i <= old /\ Members(h2, V, n, i) = {}
        <5>1. i <= old /\ Members(h, U, n, i) = M
          BY <3>2, <1>2
        <5> HIDE DEF M, old
        <5> QED BY <5>1, <2>1, <3>6
      <4> QED BY <4>1, <3>4
    <3>3. CASE i > old
      <4>1. StillFirst(h, array, n, r, i) = array[i].hh_head
        BY <3>3, <1>2 DEF StillFirst
      <4>2. Members(h2, V, n, i) = Members(h, U, n, i)
            /\ \A s \in Members(h, U, n, i) : pos2[s] = pos[s]
        BY <3>3, <1>2 DEF Members, SameNext
      <4>3. Top(Members(h2, V, n, i), array[i].hh_head, pos2)
        BY <4>1, <4>2, <1>3 DEF Top
      <4>4. ~(i < old + 1)
        <5> HIDE DEF old
        <5> QED BY <3>3, <1>2
      <4> QED BY <4>3, <4>4
    <3> QED BY <3>1, <3>2, <3>3, <3>4
  <2>3. /\ V \subseteq Items /\ old + 1 \in Nat /\ at = FirstFrom(array, old + 1)
    BY <1>1, <1>2, <1>10
  <2> HIDE DEF V, old
  <2>4. /\ at \in V \cup {Null}
        /\ \A i \in 0..(n - 1) :
             Top(Members(h2, V, n, i), StillFirst(h2, array, n, at, i), pos2)
    BY <2>2, <2>3, MovingOn
  <2>5. Moving(at, h2, array, n, V, pos2)
    BY <2>4, <1>8 DEF Moving
  <2> QED BY <2>5 DEF V
<1> QED BY <1>9, <1>10

(* The ideal length of a chain is at least one.                            *)
LEMMA IdealType ==
  ASSUME Typed, tbl # NoTable, tbl.num_items >= 1
  PROVE  IdealChain \in Nat \ {0}
<1>1. tbl.num_items \in Nat /\ tbl.num_buckets \in Nat \ {0}
  BY TableFacts, SizesAssumption
<1>2. \A a, c \in Nat : c > 0 /\ a >= c => a \div c \in Nat \ {0}
  OBVIOUS
<1> DEFINE a == tbl.num_items + 2 * tbl.num_buckets - 1
           c == 2 * tbl.num_buckets
<1>3. a \in Nat /\ c \in Nat /\ c > 0 /\ a >= c
  BY <1>1
<1>4. IdealChain = a \div c
  BY DEF IdealChain
<1> HIDE DEF a, c
<1> QED BY <1>2, <1>3, <1>4

(* expand_mult is all that Multiplied changes.                             *)
LEMMA MultipliedFacts ==
  ASSUME IdealChain \in Nat \ {0}, NEW bucket \in BucketSet
  PROVE  /\ Multiplied(bucket) \in BucketSet
         /\ Multiplied(bucket).hh_head = bucket.hh_head
         /\ Multiplied(bucket).count = bucket.count
<1> DEFINE mult == bucket.count \div IdealChain
           bucket2 == [bucket EXCEPT !.expand_mult = mult]
<1>1. \A a, c \in Nat : c > 0 => a \div c \in Nat
  OBVIOUS
<1>2. bucket.count \in Nat /\ mult \in Nat
  BY <1>1 DEF BucketSet
<1> HIDE DEF mult
<1>3. /\ bucket2 \in BucketSet /\ bucket2.hh_head = bucket.hh_head
      /\ bucket2.count = bucket.count
  BY <1>2 DEF BucketSet
<1>4. Multiplied(bucket) = bucket \/ Multiplied(bucket) = bucket2
  BY DEF Multiplied, mult
<1> HIDE DEF bucket2
<1> QED BY <1>3, <1>4

(* A record goes to its new bucket.                                        *)
LEMMA MoveItemInv ==
  ASSUME NEW pos, NEW m, NEW U \in SUBSET Items, Inner(pos, m, U),
         MoveItem, UNCHANGED <<user, loaded>>
  PROVE  IInv'
<1> DEFINE n == tbl.num_buckets
           r == writer.at
           b == ToBkt(hh[r].key, 2 * n)
           pushed == PushBucket(grown, b, r)
           later == IF hh[r].hh_next # Null THEN hh[r].hh_next
                    ELSE FirstFrom(tbl.buckets, ToBkt(hh[r].key, n) + 1)
<1>1. /\ Order(pos, m) /\ Typed /\ Control /\ ListInv /\ LookupInv(pos)
      /\ ChainInv(pos, U) /\ NewestFirst(pos)
  BY DEF Inner
<1>2. /\ writer.pc = "move" /\ r # Null /\ hh' = PushHandles(hh, grown, b, r)
      /\ grown' = [pushed EXCEPT ![b] = Multiplied(@)]
      /\ writer' = [writer EXCEPT !.at = later]
      /\ Disturb /\ UNCHANGED <<head, freed, tbl, user, loaded>>
  BY DEF MoveItem
<1>3. tbl # NoTable /\ head # Null /\ Linked = Live
  BY <1>1, <1>2 DEF Control, Linked
<1>4. /\ tbl \in TableSet /\ n \in Nat \ {0} /\ 2 * n \in Nat \ {0}
      /\ tbl.num_items = Cardinality(Live)
      /\ tbl.tail \in Live /\ \A s \in Live : s <= tbl.tail
  BY <1>1, <1>3, TableFacts DEF ListInv
<1>5. /\ U \subseteq Live /\ tbl.buckets \in [0..(n - 1) -> BucketSet]
      /\ Moving(r, hh, tbl.buckets, n, U, pos)
      /\ Chained(hh, grown, Live \ U, 2 * n, pos)
      /\ \A i \in DOMAIN tbl.buckets : tbl.buckets[i].hh_head \in Live \cup {Null}
  BY <1>1, <1>2, <1>3 DEF ChainInv
<1>6. r \in U
  BY <1>2, <1>5 DEF Moving
<1>7. /\ hh \in Seq(HandleSet) /\ Len(hh) <= MaxRecords /\ DOMAIN hh = 1..Len(hh)
      /\ DOMAIN hh \subseteq Items /\ Live \subseteq DOMAIN hh /\ Null \notin Items
      /\ r \in DOMAIN hh /\ r \in Items /\ hh[r].key \in Keys
      /\ U \subseteq DOMAIN hh
  BY <1>1, <1>5, <1>6, StateFacts DEF Typed
<1>8. IdealChain \in Nat \ {0}
  <2>1. Cardinality(Live) \in 0..MaxRecords /\ (Cardinality(Live) = 0 <=> Live = {})
    BY <1>1, StateFacts, RecordsFinite
  <2>2. tbl.num_items >= 1
    BY <2>1, <1>4, SizesAssumption
  <2> QED BY <2>2, <1>1, <1>3, IdealType
<1>9. b \in 0..(2 * n - 1) /\ grown \in [0..(2 * n - 1) -> BucketSet]
      /\ grown[b] \in BucketSet
  <2>1. b \in 0..(2 * n - 1)
    <3> HIDE DEF n
    <3> QED BY <1>4, <1>7, ToBktType
  <2>2. grown \in [0..(2 * n - 1) -> BucketSet]
    BY <1>5 DEF Chained
  <2> HIDE DEF b, n
  <2> QED BY <2>1, <2>2
<1>10. grown[b].hh_head # r
  <2>1. Top(Members(hh, Live \ U, 2 * n, b), grown[b].hh_head, pos)
    BY <1>5, <1>9 DEF Chained, Linkage
  <2> QED BY <2>1, <1>2, <1>6 DEF Top, Members
<1>11. /\ pushed \in [0..(2 * n - 1) -> BucketSet]
       /\ pushed[b].hh_head = r /\ pushed[b].count = grown[b].count + 1
       /\ \A i \in 0..(2 * n - 1) : i # b => pushed[i] = grown[i]
  <2>1. r \in Pointers
    BY <1>7 DEF Pointers
  <2> PICK n2 : n2 = 2 * n
    OBVIOUS
  <2> HIDE DEF b, n, r
  <2> QED BY <2>1, <1>9, PushBucketFacts
<1>12. /\ grown' \in [0..(2 * n - 1) -> BucketSet]
       /\ grown'[b].hh_head = r /\ grown'[b].count = grown[b].count + 1
       /\ \A i \in 0..(2 * n - 1) : i # b => grown'[i] = grown[i]
  <2>1. pushed[b] \in BucketSet
    BY <1>9, <1>11
  <2>2. /\ Multiplied(pushed[b]) \in BucketSet
        /\ Multiplied(pushed[b]).hh_head = pushed[b].hh_head
        /\ Multiplied(pushed[b]).count = pushed[b].count
    BY <2>1, <1>8, MultipliedFacts
  <2>3. grown' = [pushed EXCEPT ![b] = Multiplied(pushed[b])]
    BY <1>2
  <2> HIDE DEF pushed, b, n, r
  <2> QED BY <2>2, <2>3, <1>9, <1>11
<1> PICK pos2 : pos2 = [pos EXCEPT ![r] = m]
  OBVIOUS
<1> PICK V : V = U \ {r}
  OBVIOUS
<1>13. Order(pos2, m + 1) /\ \A s \in Items \ {r} : pos2[s] = pos[s]
  BY <1>1, <1>7, OrderRaise DEF Order
<1> HIDE DEF pushed
<1>14. /\ hh' \in Seq(HandleSet) /\ Len(hh') = Len(hh) /\ DOMAIN hh' = DOMAIN hh
       /\ \A i \in DOMAIN hh :
            /\ hh'[i].key = hh[i].key
            /\ hh'[i].next = hh[i].next /\ hh'[i].prev = hh[i].prev
            /\ i # r => hh'[i].hh_next = hh[i].hh_next
  <2> DEFINE h2 == PushHandles(hh, grown, b, r)
  <2>1. /\ h2 \in Seq(HandleSet) /\ Len(h2) = Len(hh) /\ DOMAIN h2 = DOMAIN hh
        /\ \A i \in DOMAIN hh :
             /\ h2[i].key = hh[i].key
             /\ h2[i].next = hh[i].next /\ h2[i].prev = hh[i].prev
             /\ h2[i].hh_next = IF i = r THEN grown[b].hh_head ELSE hh[i].hh_next
    <3>1. grown[b] \in BucketSet
      BY <1>9
    <3> HIDE DEF b, n, r
    <3> QED BY <3>1, <1>7, <1>10, PushHandlesFacts
  <2> HIDE DEF h2
  <2> QED BY <2>1, <1>2 DEF h2
<1>15. Live' = Live /\ Linked' = Live /\ writer'.pc = "move" /\ writer'.at = later
  <2>1. writer'.pc = "move" /\ writer'.at = later
    BY <1>1, <1>2 DEF Typed, WriterSet
  <2> QED BY <2>1, <1>2, <1>14 DEF Live, Linked
<1>16. Chained(hh', grown', Live \ V, 2 * n, pos2)
  <2>1. Chained(PushHandles(hh, grown, b, r), grown', (Live \ U) \cup {r}, 2 * n, pos2)
    <3> DEFINE S == Live \ U
               n2 == 2 * n
    <3>1. S \subseteq DOMAIN hh /\ r \in DOMAIN hh \ S /\ b = ToBkt(hh[r].key, n2)
      BY <1>6, <1>7
    <3>2. n2 \in Nat \ {0} /\ Chained(hh, grown, S, n2, pos)
      BY <1>4, <1>5
    <3>3. /\ grown' \in [0..(n2 - 1) -> BucketSet]
          /\ \A i \in 0..(n2 - 1) : i # b => grown'[i] = grown[i]
      BY <1>12
    <3> PICK array2 : array2 = grown'
      OBVIOUS
    <3> HIDE DEF b, n, n2, r, S
    <3>4. Chained(PushHandles(hh, grown, b, r), array2, S \cup {r}, n2, pos2)
      BY <3>1, <3>2, <3>3, <1>1, <1>7, <1>12, ChainedPush
    <3> QED BY <3>4 DEF n2, S
  <2>2. (Live \ U) \cup {r} = Live \ V
    BY <1>5, <1>6
  <2> QED BY <2>1, <2>2, <1>2
<1>17. Moving(later, hh', tbl.buckets, n, V, pos2)
  <2>1. SameNext(U \ {r}, hh, hh', pos, pos2)
    BY <1>7, <1>13, <1>14 DEF SameNext
  <2>2. DOMAIN tbl.buckets = 0..(n - 1)
    BY <1>5
  <2> PICK at : at = later
    OBVIOUS
  <2>3. Moving(at, hh', tbl.buckets, n, U \ {r}, pos2)
    <3>1. /\ Order(pos, m) /\ n \in Nat \ {0} /\ U \subseteq DOMAIN hh
          /\ hh \in Seq(HandleSet) /\ Len(hh) <= MaxRecords
          /\ Moving(r, hh, tbl.buckets, n, U, pos)
          /\ hh' \in Seq(HandleSet) /\ DOMAIN hh' = DOMAIN hh
      BY <1>1, <1>4, <1>5, <1>7, <1>14
    <3> HIDE DEF n, r
    <3> QED BY <2>1, <2>2, <3>1, <1>6, MovingNext
  <2> HIDE DEF later
  <2> QED BY <2>3
<1>18. writer' \in WriterSet
  <2>1. later \in Pointers
    BY <1>17 DEF Moving, Pointers
  <2> QED BY <2>1, <1>1, <1>2 DEF Typed, WriterSet
<1>19. rd' \in [Cpus -> LookupSet]
  BY <1>1, <1>2, DisturbType DEF Typed
<1>20. Typed'
  <2>1. \A i \in DOMAIN grown' : grown'[i] \in BucketSet
    BY <1>12
  <2> QED BY <2>1, <1>1, <1>2, <1>14, <1>18, <1>19 DEF Typed
<1>21. Control'
  BY <1>1, <1>2, <1>3, <1>15 DEF Control
<1>22. ListInv'
  <2>1. AddedNext(hh') = AddedNext(hh) /\ AddedPrev(hh') = AddedPrev(hh)
    BY <1>14 DEF AddedNext, AddedPrev
  <2> QED BY <2>1, <1>1, <1>2, <1>4, <1>15 DEF ListInv
<1>23. ChainInv(pos2, V)'
  <2>1. Moving(writer.at, hh, tbl.buckets, tbl.num_buckets, V, pos2)'
    BY <1>2, <1>15, <1>17
  <2>2. V \subseteq Live' /\ ~Settled' /\ tbl' = tbl
    BY <1>2, <1>5, <1>15 DEF Settled
  <2>3. Chained(hh, grown, Live \ V, 2 * tbl.num_buckets, pos2)'
    BY <2>2, <1>15, <1>16
  <2> QED BY <2>1, <2>2, <2>3, <1>5, <1>15 DEF ChainInv
<1>24. NewestFirst(pos2)'
  BY <1>15 DEF NewestFirst, Settled
<1>25. LookupInv(pos2)'
  <2>1. Locked => \A c \in Cpus : ~Reading(c)
    BY <1>1, <1>2 DEF LookupInv, Excluded
  <2>2. /\ Linked \subseteq Linked' /\ \A s \in Linked : hh'[s].key = hh[s].key
        /\ tbl # NoTable => tbl' # NoTable
    BY <1>2, <1>3, <1>7, <1>14, <1>15
  <2> QED BY <2>1, <2>2, <1>1, <1>2, LookupsDisturbed
<1> QED BY <1>13, <1>20, <1>21, <1>22, <1>23, <1>24, <1>25, IInvIntro

(* When nothing is left to be moved, nothing is unmoved.                   *)
LEMMA MovedAll ==
  ASSUME NEW h, NEW n \in Nat \ {0}, NEW array, NEW U, NEW pos,
         Moving(Null, h, array, n, U, pos), \A s \in U : h[s].key \in Keys
  PROVE  U = {}
<1> SUFFICES ASSUME NEW s \in U PROVE FALSE
  OBVIOUS
<1> DEFINE b == ToBkt(h[s].key, n)
<1>1. b \in 0..(n - 1)
  BY ToBktType
<1>2. StillFirst(h, array, n, Null, b) = Null
  BY DEF StillFirst
<1>3. Members(h, U, n, b) = {}
  BY <1>1, <1>2 DEF Moving, Top
<1> QED BY <1>3 DEF Members

(* What the steps that only replace the array have in common.              *)
LEMMA GrowthFacts ==
  ASSUME NEW pos, NEW m, NEW U \in SUBSET Items, Inner(pos, m, U),
         writer.pc \in {"move", "double", "install"},
         writer'.pc \in {"double", "install", "idle"}, writer' \in WriterSet, Disturb,
         UNCHANGED <<head, hh, freed, user, loaded>>,
         tbl' \in TableSet, tbl'.num_items = tbl.num_items, tbl'.tail = tbl.tail
  PROVE  /\ tbl # NoTable /\ tbl' # NoTable /\ tbl \in TableSet
         /\ Live' = Live /\ Linked = Live /\ Linked' = Live
         /\ (\A b \in DOMAIN grown' : grown'[b] \in BucketSet) => Typed'
         /\ Control' /\ ListInv' /\ LookupInv(pos)'
<1>1. /\ Order(pos, m) /\ Typed /\ Control /\ ListInv /\ LookupInv(pos)
  BY DEF Inner
<1>2. tbl # NoTable /\ tbl' # NoTable /\ tbl \in TableSet /\ head # Null
  BY <1>1, NoTableType, TableFacts DEF Control
<1>3. Live' = Live /\ Linked = Live /\ Linked' = Live
  BY DEF Live, Linked
<1>4. rd' \in [Cpus -> LookupSet]
  BY <1>1, DisturbType DEF Typed
<1>5. (\A b \in DOMAIN grown' : grown'[b] \in BucketSet) => Typed'
  BY <1>1, <1>4 DEF Typed
<1>6. Control'
  BY <1>1, <1>2, <1>3 DEF Control
<1>7. ListInv'
  BY <1>1, <1>2, <1>3 DEF ListInv
<1>8. LookupInv(pos)'
  <2>1. Locked => \A c \in Cpus : ~Reading(c)
    BY <1>1 DEF LookupInv, Excluded
  <2>2. Linked \subseteq Linked' /\ \A r \in Linked : hh'[r].key = hh[r].key
    BY <1>3
  <2> QED BY <2>1, <2>2, <1>1, <1>2, LookupsDisturbed
<1> QED BY <1>2, <1>3, <1>5, <1>6, <1>7, <1>8

(* The old array is freed.                                                 *)
LEMMA FreeBucketsInv ==
  ASSUME NEW pos, NEW m, NEW U \in SUBSET Items, Inner(pos, m, U),
         FreeBuckets, UNCHANGED <<user, loaded>>
  PROVE  IInv'
<1>1. Order(pos, m) /\ Typed /\ Control /\ ChainInv(pos, U)
  BY DEF Inner
<1>2. /\ writer.pc = "move" /\ writer.at = Null /\ writer' = [writer EXCEPT !.pc = "double"]
      /\ Disturb /\ UNCHANGED <<head, hh, freed, tbl, grown, user, loaded>>
  BY DEF FreeBuckets, WriterGoes
<1>3. writer'.pc = "double" /\ writer' \in WriterSet
  BY <1>1, <1>2 DEF Typed, WriterSet
<1>4. tbl # NoTable
  BY <1>1, <1>2 DEF Control
<1>5. tbl' \in TableSet
  BY <1>1, <1>2, <1>4, TableFacts
<1>6. /\ Live' = Live /\ Linked = Live /\ Linked' = Live
      /\ (\A b \in DOMAIN grown' : grown'[b] \in BucketSet) => Typed'
      /\ Control' /\ ListInv' /\ LookupInv(pos)'
  BY <1>2, <1>3, <1>5, GrowthFacts
<1>7. Typed'
  BY <1>1, <1>2, <1>6 DEF Typed
<1>8. U = {}
  <2>1. Moving(Null, hh, tbl.buckets, tbl.num_buckets, U, pos) /\ U \subseteq Live
    BY <1>1, <1>2 DEF ChainInv
  <2>2. \A s \in U : hh[s].key \in Keys
    BY <2>1, <1>1, StateFacts
  <2>3. tbl.num_buckets \in Nat \ {0}
    BY <1>1, <1>4, TableFacts
  <2> QED BY <2>1, <2>2, <2>3, MovedAll
<1>9. ChainInv(pos, {})'
  <2>1. Live \ U = Live
    BY <1>8
  <2>2. Chained(hh, grown, Live, 2 * tbl.num_buckets, pos)
    BY <2>1, <1>1, <1>2 DEF ChainInv
  <2> QED BY <2>2, <1>1, <1>2, <1>3, <1>6 DEF ChainInv, Settled
<1>10. NewestFirst(pos)'
  BY <1>3 DEF NewestFirst, Settled
<1> QED BY <1>1, <1>6, <1>7, <1>9, <1>10, IInvIntro

(* The number of buckets doubles.                                          *)
LEMMA DoubleBucketsInv ==
  ASSUME NEW pos, NEW m, NEW U \in SUBSET Items, Inner(pos, m, U),
         DoubleBuckets, UNCHANGED <<user, loaded>>
  PROVE  IInv'
<1>1. Order(pos, m) /\ Typed /\ Control /\ ChainInv(pos, U)
  BY DEF Inner
<1>2. /\ writer.pc = "double" /\ writer' = [writer EXCEPT !.pc = "install"]
      /\ tbl' = [tbl EXCEPT !.num_buckets = 2 * @]
      /\ Disturb /\ UNCHANGED <<head, hh, freed, grown, user, loaded>>
  BY DEF DoubleBuckets, WriterGoes
<1>3. writer'.pc = "install" /\ writer' \in WriterSet
  BY <1>1, <1>2 DEF Typed, WriterSet
<1>4. tbl # NoTable
  BY <1>1, <1>2 DEF Control
<1>5. /\ tbl' \in TableSet /\ tbl'.num_buckets = 2 * tbl.num_buckets
      /\ tbl'.num_items = tbl.num_items /\ tbl'.tail = tbl.tail
      /\ tbl'.buckets = tbl.buckets
  <2>1. tbl \in TableSet
    BY <1>1, <1>4, TableFacts
  <2> QED BY <2>1, <1>2 DEF TableSet
<1>6. /\ Live' = Live /\ Linked = Live /\ Linked' = Live
      /\ (\A b \in DOMAIN grown' : grown'[b] \in BucketSet) => Typed'
      /\ Control' /\ ListInv' /\ LookupInv(pos)'
  BY <1>2, <1>3, <1>5, GrowthFacts
<1>7. Typed'
  BY <1>1, <1>2, <1>6 DEF Typed
<1>8. ChainInv(pos, {})'
  <2>1. Chained(hh, grown, Live, 2 * tbl.num_buckets, pos)
    BY <1>1, <1>2 DEF ChainInv
  <2> QED BY <2>1, <1>1, <1>2, <1>3, <1>4, <1>5, <1>6 DEF ChainInv, Settled
<1>9. NewestFirst(pos)'
  BY <1>3 DEF NewestFirst, Settled
<1> QED BY <1>1, <1>6, <1>7, <1>8, <1>9, IInvIntro

(* The new array is installed.                                             *)
LEMMA InstallBucketsInv ==
  ASSUME NEW pos, NEW m, NEW U \in SUBSET Items, Inner(pos, m, U),
         InstallBuckets, UNCHANGED <<user, loaded>>
  PROVE  IInv'
<1> DEFINE ineff == IF Nonideal > tbl.num_items \div 2 THEN tbl.ineff_expands + 1 ELSE 0
<1>1. Order(pos, m) /\ Typed /\ Control /\ ChainInv(pos, U)
  BY DEF Inner
<1>2. /\ writer.pc = "install" /\ writer' = WriterIdle /\ grown' = <<>>
      /\ tbl' = [tbl EXCEPT !.buckets = grown, !.expands = @ + 1,
                            !.ineff_expands = ineff, !.noexpand = @ \/ ineff > 1]
      /\ Disturb /\ UNCHANGED <<head, hh, freed, user, loaded>>
  BY DEF InstallBuckets
<1>3. writer'.pc = "idle" /\ writer' \in WriterSet
  BY <1>1, <1>2 DEF WriterIdle, WriterSet, Pointers
<1>4. tbl # NoTable
  BY <1>1, <1>2 DEF Control
<1>5. Chained(hh, grown, Live, tbl.num_buckets, pos)
      /\ grown \in [0..(tbl.num_buckets - 1) -> BucketSet]
  BY <1>1, <1>2 DEF ChainInv, Chained
<1>6. /\ tbl' \in TableSet /\ tbl'.num_buckets = tbl.num_buckets
      /\ tbl'.num_items = tbl.num_items /\ tbl'.tail = tbl.tail
      /\ tbl'.buckets = grown /\ tbl'.expands = tbl.expands + 1 /\ tbl.expands \in Nat
  <2>1. tbl \in TableSet /\ tbl.ineff_expands \in Nat /\ tbl.num_buckets \in Nat
    BY <1>1, <1>4, TableFacts
  <2>2. ineff \in Nat
    BY <2>1
  <2> HIDE DEF ineff
  <2>3. /\ tbl'.num_buckets = tbl.num_buckets /\ tbl'.num_items = tbl.num_items
        /\ tbl'.tail = tbl.tail /\ tbl'.buckets = grown /\ tbl'.expands = tbl.expands + 1
    BY <2>1, <1>2 DEF TableSet
  <2> PICK noexpand \in BOOLEAN : noexpand = (tbl.noexpand \/ ineff > 1)
    OBVIOUS
  <2>4. tbl' = [tbl EXCEPT !.buckets = grown, !.expands = tbl.expands + 1,
                            !.ineff_expands = ineff, !.noexpand = noexpand]
    BY <1>2
  <2>6. grown \in UNION {[0..(n - 1) -> BucketSet] : n \in Nat} /\ tbl.expands + 1 \in Nat
    BY <2>1, <1>5 DEF TableSet
  <2>5. tbl' \in TableSet
    BY <2>1, <2>2, <2>4, <2>6 DEF TableSet
  <2> QED BY <2>1, <2>3, <2>5 DEF TableSet
<1>7. /\ Live' = Live /\ Linked = Live /\ Linked' = Live
      /\ (\A b \in DOMAIN grown' : grown'[b] \in BucketSet) => Typed'
      /\ Control' /\ ListInv' /\ LookupInv(pos)'
  BY <1>2, <1>3, <1>6, GrowthFacts
<1>8. Typed'
  <2>1. DOMAIN grown' = {}
    BY <1>2
  <2> QED BY <2>1, <1>7
<1>9. ChainInv(pos, {})'
  <2>1. Chained(hh', tbl'.buckets, Linked', tbl'.num_buckets, pos)
    BY <1>2, <1>5, <1>6, <1>7
  <2>2. \A b \in DOMAIN tbl'.buckets : tbl'.buckets[b].hh_head \in Linked' \cup {Null}
    BY <1>5, <1>6, <1>7 DEF Chained, Linkage, Top, Members
  <2> QED BY <2>1, <2>2, <1>3 DEF ChainInv
<1>10. NewestFirst(pos)'
  BY <1>6 DEF NewestFirst
<1> QED BY <1>1, <1>7, <1>8, <1>9, <1>10, IInvIntro

-------------------------------------------------------------------------------
(* HASH_DELETE.                                                            *)

(* A deletion keeps the two lists, whoever asks for it.                    *)
Kept(pos) ==
  /\ Typed /\ ListInv /\ ChainInv(pos, {}) /\ NewestFirst(pos) /\ LookupInv(pos)
  /\ tbl = NoTable <=> head = Null

(* The first and only record is the first, and so the last.                *)
LEMMA OnlyRecord ==
  ASSUME Typed, ListInv, NEW r \in Live
  PROVE  /\ hh[r].prev = Null <=> head = r
         /\ hh[r].prev = Null /\ hh[r].next = Null => Live = {r}
<1>1. /\ DOMAIN hh \subseteq Items /\ Live \subseteq DOMAIN hh /\ Null \notin Items
  BY StateFacts
<1>2. Linkage(Live, head, AddedNext(hh), AddedPrev(hh), Age)
  BY DEF ListInv
<1>3. AddedNext(hh)[r] = hh[r].next /\ AddedPrev(hh)[r] = hh[r].prev
  BY <1>1 DEF AddedNext, AddedPrev
<1>4. \A s, t \in Live : Age[s] \in Nat /\ (Age[s] = Age[t] => s = t)
  BY <1>1, AgeOrder DEF Order
<1>5. hh[r].prev = Null <=> head = r
  <2> DEFINE S == Live
             nx == AddedNext(hh)
             pv == AddedPrev(hh)
  <2>1. Linkage(S, head, nx, pv, Age) /\ S \subseteq Items /\ r \in S
    BY <1>1, <1>2
  <2> HIDE DEF S, nx, pv
  <2>2. pv[r] = Null <=> head = r
    BY <2>1, AgeOrder, LinkageFirst
  <2> QED BY <2>2, <1>3 DEF pv
<1>6. ASSUME hh[r].prev = Null, hh[r].next = Null
      PROVE  Live = {r}
  <2>1. \A s \in Live : Age[s] <= Age[r] /\ Age[r] <= Age[s]
    BY <1>2, <1>3, <1>6 DEF Linkage, Up, Down
  <2>2. \A s \in Live : s = r
    BY <2>1, <1>4
  <2> QED BY <2>2
<1> QED BY <1>5, <1>6

(* HASH_DELETE of the only record frees the table with it.                 *)
LEMMA DeleteLast ==
  ASSUME NEW pos, NEW m, NEW U \in SUBSET Items, Inner(pos, m, U),
         writer.pc \in {"idle", "iterate"}, \A c \in Cpus : ~Reading(c),
         NEW r \in Live, Delete(r), hh[r].prev = Null, hh[r].next = Null,
         UNCHANGED <<user, loaded>>, writer' \in WriterSet,
         writer'.pc \in {"idle", "iterate"}
  PROVE  Kept(pos)' /\ head' = Null
<1>1. Typed /\ ListInv
  BY DEF Inner
<1>2. /\ freed' = freed \cup {r} /\ head' = Null /\ tbl' = NoTable
      /\ UNCHANGED <<hh, grown, rd>>
  BY DEF Delete
<1>3. Live = {r} /\ r \in DOMAIN hh
  BY <1>1, OnlyRecord DEF Live
<1>4. Live' = {} /\ Linked' = {}
  BY <1>2, <1>3 DEF Live, Linked
<1>5. Typed'
  BY <1>1, <1>2, <1>3 DEF Typed, Pointers
<1>6. ListInv'
  BY <1>2, <1>4 DEF ListInv, Linkage, Top, Down, Up
<1>7. ChainInv(pos, {})' /\ NewestFirst(pos)'
  BY <1>2 DEF ChainInv, NewestFirst, Settled
<1>8. LookupInv(pos)'
  <2>1. (\A c \in Cpus : ~Reading(c))'
    BY <1>2 DEF Reading
  <2> QED BY <2>1 DEF LookupInv, Reading, Underway, Undisturbed, Excluded
<1> QED BY <1>2, <1>5, <1>6, <1>7, <1>8 DEF Kept

(* HASH_DELETE of one record of several takes it out of its list and chain. *)
LEMMA DeleteOther ==
  ASSUME NEW pos, NEW m, NEW U \in SUBSET Items, Inner(pos, m, U),
         writer.pc \in {"idle", "iterate"}, \A c \in Cpus : ~Reading(c),
         NEW r \in Live, Delete(r), hh[r].prev # Null \/ hh[r].next # Null,
         UNCHANGED <<user, loaded>>, writer' \in WriterSet,
         writer'.pc \in {"idle", "iterate"}
  PROVE  /\ Kept(pos)' /\ head' = (IF head = r THEN hh[r].next ELSE head)
         /\ head' # Null /\ hh' = Unlink(hh, r)
<1> DEFINE n == tbl.num_buckets
           b == ToBkt(hh[r].key, n)
           bucket == tbl.buckets[b]
           bucket2 == BucketWithout(bucket, r)
           array == [tbl.buckets EXCEPT ![b] = bucket2]
           tail == IF tbl.tail = r THEN hh[r].prev ELSE tbl.tail
           S == Live \ {r}
<1>1. /\ Order(pos, m) /\ Typed /\ Control /\ ListInv
      /\ ChainInv(pos, U) /\ NewestFirst(pos)
  BY DEF Inner
<1>2. hh[r].prev = Null <=> head = r
  BY <1>1, OnlyRecord
<1>3. /\ freed' = freed \cup {r} /\ hh' = Unlink(hh, r)
      /\ head' = IF head = r THEN hh[r].next ELSE head
      /\ tbl' = [tbl EXCEPT !.tail = tail, !.num_items = @ - 1, !.buckets = array]
      /\ UNCHANGED <<grown, rd>>
  BY <1>2 DEF Delete
<1>4. tbl # NoTable /\ head # Null /\ Linked = Live
  <2>1. head # Null
    BY <1>1 DEF ListInv, Linkage, Top
  <2> QED BY <2>1, <1>1 DEF Control, Linked
<1>5. /\ tbl \in TableSet /\ n \in Nat \ {0} /\ tbl.num_items = Cardinality(Live)
      /\ tbl.tail \in Live /\ \A s \in Live : s <= tbl.tail
  BY <1>1, <1>4, TableFacts DEF ListInv
<1>6. /\ hh \in Seq(HandleSet) /\ Len(hh) <= MaxRecords /\ DOMAIN hh = 1..Len(hh)
      /\ DOMAIN hh \subseteq Items /\ Live \subseteq DOMAIN hh /\ Null \notin Items
      /\ r \in DOMAIN hh /\ r \in Items /\ hh[r].key \in Keys /\ freed \subseteq DOMAIN hh
      /\ hh[r].next \in Pointers /\ hh[r].hh_next \in Pointers
  BY <1>1, StateFacts DEF Typed
<1>7. Chained(hh, tbl.buckets, Live, n, pos) /\ tbl.buckets \in [0..(n - 1) -> BucketSet]
  BY <1>1, <1>4 DEF ChainInv, Settled, Chained
<1>8. /\ b \in 0..(n - 1) /\ bucket \in BucketSet
      /\ bucket.count = Cardinality(Members(hh, Live, n, b))
  <2>1. b \in 0..(n - 1)
    <3> HIDE DEF n
    <3> QED BY <1>5, <1>6, ToBktType
  <2> QED BY <2>1, <1>7 DEF Chained
<1>9. bucket.count - 1 \in Nat
  <2>1. r \in Members(hh, Live, n, b) /\ Members(hh, Live, n, b) \in SUBSET Items
    BY <1>6 DEF Members
  <2>2. /\ Cardinality(Members(hh, Live, n, b)) \in 0..MaxRecords
        /\ Cardinality(Members(hh, Live, n, b)) = 0 <=> Members(hh, Live, n, b) = {}
    <3> HIDE DEF b, n
    <3> QED BY <2>1, RecordsFinite
  <2> HIDE DEF bucket, b, n
  <2> QED BY <2>1, <2>2, <1>8, SizesAssumption
<1>10. /\ bucket2 \in BucketSet /\ bucket2.count = bucket.count - 1
       /\ bucket2.hh_head = IF bucket.hh_head = r THEN hh[r].hh_next ELSE bucket.hh_head
  <2> HIDE DEF bucket
  <2> QED BY <1>6, <1>8, <1>9 DEF BucketWithout, BucketSet
<1>11. /\ array \in [0..(n - 1) -> BucketSet] /\ array[b] = bucket2
       /\ \A i \in 0..(n - 1) : i # b => array[i] = tbl.buckets[i]
  <2> HIDE DEF bucket2, b, n
  <2> QED BY <1>7, <1>8, <1>10
<1> HIDE DEF bucket2
<1>12. /\ hh' \in Seq(HandleSet) /\ Len(hh') = Len(hh) /\ DOMAIN hh' = DOMAIN hh
       /\ \A i \in DOMAIN hh :
            /\ hh'[i].key = hh[i].key
            /\ hh'[i].next = IF i = hh[r].prev THEN hh[r].next ELSE hh[i].next
            /\ hh'[i].prev = IF i = hh[r].next THEN hh[r].prev ELSE hh[i].prev
  <2> DEFINE h2 == Unlink(hh, r)
  <2>1. /\ h2 \in Seq(HandleSet) /\ Len(h2) = Len(hh) /\ DOMAIN h2 = DOMAIN hh
        /\ \A i \in DOMAIN hh :
             /\ h2[i].key = hh[i].key
             /\ h2[i].next = IF i = hh[r].prev THEN hh[r].next ELSE hh[i].next
             /\ h2[i].prev = IF i = hh[r].next THEN hh[r].prev ELSE hh[i].prev
    <3>1. hh \in Seq(HandleSet) /\ r \in DOMAIN hh
      BY <1>6
    <3> QED BY <3>1, UnlinkFacts
  <2> HIDE DEF h2
  <2> QED BY <2>1, <1>3 DEF h2
<1>13. Live' = S /\ Linked' = S
  BY <1>3, <1>12 DEF Live, Linked
<1>14. Chained(hh', array, S, n, pos)
  <2>1. Chained(Unlink(hh, r), array, S, n, pos)
    <3> HIDE DEF array
    <3>1. TakenOut(r, hh, tbl.buckets, array, n)
      BY <1>10, <1>11 DEF TakenOut
    <3>2. /\ Order(pos, m) /\ hh \in Seq(HandleSet) /\ Len(hh) <= MaxRecords
          /\ n \in Nat \ {0} /\ r \in Live /\ Live \subseteq DOMAIN hh
          /\ Chained(hh, tbl.buckets, Live, n, pos)
          /\ array \in [0..(n - 1) -> BucketSet]
      BY <1>1, <1>5, <1>6, <1>7, <1>11
    <3> HIDE DEF n
    <3> QED BY <3>1, <3>2, ChainedUnlink
  <2> QED BY <2>1, <1>3
<1>15. Linkage(S, head', AddedNext(hh'), AddedPrev(hh'), Age)
  <2> DEFINE L == Live
             nx == AddedNext(hh)
             pv == AddedPrev(hh)
             nx2 == AddedNext(hh')
             pv2 == AddedPrev(hh')
  <2>1. Linkage(L, head, nx, pv, Age) /\ L \subseteq Items /\ r \in L
    BY <1>1, <1>6 DEF ListInv
  <2>2. Bypass(L, r, nx, pv, nx2, pv2)
    BY <1>6, <1>12 DEF Bypass, AddedNext, AddedPrev
  <2>3. head' = IF head = r THEN nx[r] ELSE head
    BY <1>3, <1>6 DEF AddedNext
  <2> PICK top : top = head'
    OBVIOUS
  <2> HIDE DEF L, nx, pv, nx2, pv2
  <2>4. Linkage(L \ {r}, top, nx2, pv2, Age)
    BY <2>1, <2>2, <2>3, AgeOrder, LinkageRemove
  <2> QED BY <2>4 DEF L, nx2, pv2
<1>16. head' # Null
  BY <1>2, <1>3, <1>4
<1>17. tail \in S /\ \A s \in S : s <= tail
  <2>1. CASE tbl.tail # r
    BY <2>1, <1>5
  <2>2. CASE tbl.tail = r
    <3>1. Linkage(Live, head, AddedNext(hh), AddedPrev(hh), Age)
      BY <1>1 DEF ListInv
    <3>2. AddedNext(hh)[r] = hh[r].next /\ AddedPrev(hh)[r] = hh[r].prev
      BY <1>6 DEF AddedNext, AddedPrev
    <3>3. \A s \in Live : Age[s] = MaxRecords - s /\ s \in Nat /\ s <= MaxRecords
      BY <1>6, SizesAssumption DEF Age, Items
    <3>4. hh[r].next = Null
      <4> SUFFICES ASSUME hh[r].next # Null PROVE FALSE
        OBVIOUS
      <4>1. hh[r].next \in Live /\ Age[hh[r].next] < Age[r]
        BY <3>1, <3>2 DEF Linkage, Down
      <4>2. hh[r].next <= r
        BY <4>1, <2>2, <1>5
      <4> QED BY <4>1, <4>2, <3>3, SizesAssumption
    <3> PICK p : p = hh[r].prev
      OBVIOUS
    <3>5. /\ p # Null /\ p \in Live /\ Age[r] < Age[p]
          /\ \A s \in Live : Age[s] <= Age[r] \/ Age[p] <= Age[s]
      BY <3>1, <3>2, <3>4 DEF Linkage, Up
    <3>6. p \in S /\ \A s \in S : s <= p
      <4>1. p # r
        BY <3>3, <3>5, SizesAssumption
      <4>2. ASSUME NEW s \in S PROVE s <= p
        <5>1. s \in Live /\ s <= r /\ s # r
          BY <1>5, <2>2
        <5> QED BY <5>1, <3>3, <3>5, SizesAssumption
      <4> QED BY <4>1, <4>2, <3>5
    <3> QED BY <3>6, <2>2
  <2> QED BY <2>1, <2>2
<1>18. tbl.num_items - 1 = Cardinality(S) /\ Cardinality(S) \in 0..MaxRecords
  <2>1. Live \in SUBSET Items /\ S \in SUBSET Items
    BY <1>6
  <2>2. IsFiniteSet(Live) /\ Cardinality(Live) \in 0..MaxRecords
        /\ Cardinality(S) \in 0..MaxRecords
    BY <2>1, RecordsFinite
  <2>3. Cardinality(S) = Cardinality(Live) - 1
    BY <2>2, FS_RemoveElement
  <2> QED BY <2>2, <2>3, <1>5
<1> HIDE DEF array, tail, S
<1>19. /\ tbl' \in TableSet /\ tbl' # NoTable /\ tbl'.num_buckets = n
       /\ tbl'.num_items = Cardinality(S) /\ tbl'.tail = tail
       /\ tbl'.buckets = array /\ tbl'.expands = tbl.expands
  <2>1. tail \in Items
    BY <1>6, <1>17 DEF S
  <2>2. array \in UNION {[0..(k - 1) -> BucketSet] : k \in Nat}
    BY <1>5, <1>11
  <2>3. tbl' \in TableSet
    BY <2>1, <2>2, <1>3, <1>5, <1>18 DEF TableSet
  <2>4. /\ tbl'.num_buckets = n /\ tbl'.num_items = tbl.num_items - 1 /\ tbl'.tail = tail
        /\ tbl'.buckets = array /\ tbl'.expands = tbl.expands
    BY <1>3, <1>5 DEF TableSet
  <2> QED BY <2>3, <2>4, <1>18, NoTableType
<1>20. Typed'
  <2>1. head' \in Pointers /\ freed' \subseteq DOMAIN hh'
    BY <1>1, <1>3, <1>6, <1>12 DEF Typed
  <2> QED BY <2>1, <1>1, <1>3, <1>6, <1>12, <1>19 DEF Typed
<1>21. ListInv'
  BY <1>13, <1>15, <1>17, <1>18, <1>19 DEF ListInv
<1>22. ChainInv(pos, {})'
  <2>1. \A i \in 0..(n - 1) : array[i].hh_head \in S \cup {Null}
    BY <1>14 DEF Chained, Linkage, Top, Members
  <2> QED BY <2>1, <1>11, <1>13, <1>14, <1>19 DEF ChainInv
<1>23. NewestFirst(pos)'
  <2>1. Settled
    BY <1>4 DEF Settled
  <2> QED BY <2>1, <1>1, <1>4, <1>13, <1>19 DEF NewestFirst, S
<1>24. LookupInv(pos)'
  <2>1. (\A c \in Cpus : ~Reading(c))'
    BY <1>3 DEF Reading
  <2> QED BY <2>1 DEF LookupInv, Reading, Underway, Undisturbed, Excluded
<1> QED BY <1>3, <1>16, <1>19, <1>20, <1>21, <1>22, <1>23, <1>24 DEF Kept

(* deleteHash.                                                             *)
LEMMA DeleteHashInv ==
  ASSUME NEW pos, NEW m, NEW U \in SUBSET Items, Inner(pos, m, U),
         NEW key, DeleteHash(key)
  PROVE  IInv'
<1> PICK r : r = WriterFinds(key)
  OBVIOUS
<1>1. Order(pos, m) /\ Typed /\ Control /\ ListInv
  BY DEF Inner
<1>2. /\ loaded /\ writer.pc = "idle" /\ Delete(r) /\ r # Null
      /\ UNCHANGED <<writer, user, loaded>> /\ \A c \in Cpus : ~Reading(c)
  BY DEF DeleteHash, WriteLock, WriterBusy
<1>3. r \in Live
  BY <1>2 DEF WriterFinds
<1>4. writer' = writer /\ writer' \in WriterSet
  BY <1>1, <1>2 DEF Typed
<1>5. Kept(pos)'
  <2>1. CASE hh[r].prev = Null /\ hh[r].next = Null
    BY <2>1, <1>2, <1>3, <1>4, DeleteLast
  <2>2. CASE hh[r].prev # Null \/ hh[r].next # Null
    BY <2>2, <1>2, <1>3, <1>4, DeleteOther
  <2> QED BY <2>1, <2>2
<1>6. Control'
  BY <1>2, <1>4, <1>5 DEF Control, Kept
<1> QED BY <1>1, <1>5, <1>6, IInvIntro DEF Kept

(* The iteration that deletes all records.                                 *)
LEMMA IterDeleteInv ==
  ASSUME NEW pos, NEW m, NEW U \in SUBSET Items, Inner(pos, m, U),
         IterDelete, UNCHANGED <<user, loaded>>
  PROVE  IInv'
<1> PICK r : r = writer.at
  OBVIOUS
<1>1. Order(pos, m) /\ Typed /\ Control /\ ListInv
  BY DEF Inner
<1>2. /\ writer.pc = "iterate" /\ Delete(r)
      /\ writer' = IF writer.tmp = Null THEN WriterIdle
                   ELSE [writer EXCEPT !.at = writer.tmp, !.tmp = hh[writer.tmp].next]
  BY DEF IterDelete, After
<1>3. r = head /\ head # Null /\ writer.tmp = hh[r].next /\ ~loaded
      /\ \A c \in Cpus : rd[c].pc = "idle"
  BY <1>1, <1>2 DEF Control
<1>4. r \in Live
  BY <1>1, <1>3 DEF ListInv, Linkage, Top
<1>5. hh[r].prev = Null
  BY <1>1, <1>3, <1>4, OnlyRecord
<1>6. UNCHANGED rd /\ \A c \in Cpus : ~Reading(c)
  BY <1>2, <1>3 DEF Delete, Reading
<1>7. CASE hh[r].next = Null
  <2>1. writer' = WriterIdle /\ writer'.pc = "idle" /\ writer' \in WriterSet
    BY <1>2, <1>3, <1>7 DEF WriterIdle, WriterSet, Pointers
  <2>2. Kept(pos)' /\ head' = Null
    BY <2>1, <1>2, <1>4, <1>5, <1>6, <1>7, DeleteLast
  <2>3. Control'
    BY <2>1, <2>2, <1>3, <1>6 DEF Control, Kept
  <2> QED BY <2>2, <2>3, <1>1, IInvIntro DEF Kept
<1>8. CASE hh[r].next # Null
  <2> PICK q : q = hh[r].next
    OBVIOUS
  <2>1. q \in Live /\ q # Null
    <3>1. AddedNext(hh)[r] = hh[r].next
      BY <1>1, <1>4, StateFacts DEF AddedNext
    <3>2. Down(Live, AddedNext(hh), Age)
      BY <1>1 DEF ListInv, Linkage
    <3> QED BY <3>1, <3>2, <1>4, <1>8 DEF Down
  <2>2. /\ hh \in Seq(HandleSet) /\ r \in DOMAIN hh /\ q \in DOMAIN hh /\ q \in Pointers
        /\ hh[q].next \in Pointers
    <3>1. /\ Live \subseteq DOMAIN hh /\ hh[q].next \in Pointers /\ DOMAIN hh \subseteq Items
      BY <2>1, <1>1, StateFacts
    <3> QED BY <3>1, <2>1, <1>1, <1>4 DEF Typed, Pointers
  <2>3. /\ writer'.pc = "iterate" /\ writer'.at = q /\ writer'.tmp = hh[q].next
        /\ writer' \in WriterSet
    BY <2>1, <2>2, <1>1, <1>2, <1>3, <1>8 DEF Typed, WriterSet
  <2>4. /\ Kept(pos)' /\ head' = q /\ hh' = Unlink(hh, r)
    <3>1. /\ Kept(pos)' /\ head' = (IF head = r THEN hh[r].next ELSE head)
          /\ head' # Null /\ hh' = Unlink(hh, r)
      BY <2>3, <1>2, <1>4, <1>6, <1>8, DeleteOther
    <3> QED BY <3>1, <1>3
  <2>5. hh'[q].next = hh[q].next
    <3> DEFINE h2 == Unlink(hh, r)
    <3>1. h2[q].next = IF q = hh[r].prev THEN hh[r].next ELSE hh[q].next
      BY <2>2, UnlinkFacts
    <3> HIDE DEF h2
    <3> QED BY <3>1, <2>1, <2>4, <1>5 DEF h2
  <2>6. Control'
    BY <2>1, <2>3, <2>4, <2>5, <1>3, <1>6 DEF Control, Kept
  <2> QED BY <2>4, <2>6, <1>1, IInvIntro DEF Kept
<1> QED BY <1>7, <1>8

(* The hooks are unregistered, and the iteration starts.                   *)
LEMMA UnloadInv ==
  ASSUME NEW pos, NEW m, NEW U \in SUBSET Items, Inner(pos, m, U), Unload
  PROVE  IInv'
<1>1. /\ Order(pos, m) /\ Typed /\ Control /\ ListInv
      /\ ChainInv(pos, U) /\ NewestFirst(pos)
  BY DEF Inner
<1>2. /\ writer.pc = "idle" /\ \A c \in Cpus : rd[c].pc = "idle"
      /\ loaded' = FALSE /\ UNCHANGED <<head, hh, freed, tbl, grown, rd, user>>
      /\ \/ head = Null /\ writer' = writer
         \/ head # Null /\ writer' = [pc |-> "iterate", at |-> head, tmp |-> hh[head].next]
  BY DEF Unload, WriterBusy, IterStart, After
<1>3. head # Null => hh[head].next \in Pointers /\ head \in Pointers
  <2>1. head # Null => head \in Live
    BY <1>1 DEF ListInv, Linkage, Top
  <2> QED BY <2>1, <1>1, StateFacts DEF Pointers
<1>4. /\ writer' \in WriterSet /\ writer'.pc \in {"idle", "iterate"}
      /\ writer'.pc = "idle" => head = Null
      /\ writer'.pc = "iterate" =>
           head # Null /\ writer'.at = head /\ writer'.tmp = hh[head].next
  BY <1>1, <1>2, <1>3 DEF Typed, WriterSet
<1>5. Live' = Live /\ Linked = Live /\ Linked' = Live
  BY <1>2, <1>4 DEF Live, Linked
<1>6. Typed'
  BY <1>1, <1>2, <1>4 DEF Typed
<1>7. Control'
  BY <1>1, <1>2, <1>4 DEF Control
<1>8. ListInv'
  BY <1>1, <1>2, <1>5 DEF ListInv
<1>9. Settled' = Settled
  BY <1>2, <1>4 DEF Settled
<1>10. ChainInv(pos, {})'
  BY <1>1, <1>2, <1>4, <1>5, <1>9 DEF ChainInv
<1>11. NewestFirst(pos)'
  BY <1>1, <1>2, <1>5, <1>9 DEF NewestFirst
<1>12. LookupInv(pos)'
  BY <1>2 DEF LookupInv, Reading, Underway, Undisturbed, Excluded
<1> QED BY <1>1, <1>6, <1>7, <1>8, <1>10, <1>11, <1>12, IInvIntro

-------------------------------------------------------------------------------
(* The invariant.                                                          *)

(* A step that changes nothing.                                            *)
LEMMA StutterInv ==
  ASSUME NEW pos, NEW m, NEW U \in SUBSET Items, Inner(pos, m, U), UNCHANGED vars
  PROVE  IInv'
<1>1. /\ Order(pos, m) /\ Typed /\ Control /\ ListInv
      /\ ChainInv(pos, U) /\ NewestFirst(pos) /\ LookupInv(pos)
  BY DEF Inner
<1>2. UNCHANGED <<head, hh, freed, tbl, grown, writer, rd, user, loaded>>
  BY DEF vars, tableVars
<1>3. UNCHANGED <<Live, Linked, Settled>>
  BY <1>2 DEF Live, Linked, Settled
<1>4. Typed' /\ Control'
  BY <1>1, <1>2, <1>3 DEF Typed, Control
<1>5. ListInv' /\ ChainInv(pos, U)' /\ NewestFirst(pos)'
  BY <1>1, <1>2, <1>3 DEF ListInv, ChainInv, NewestFirst
<1>6. LookupInv(pos)'
  <2>1. \A key : Holding(key)' = Holding(key)
    BY <1>2, <1>3 DEF Holding
  <2> QED BY <2>1, <1>1, <1>2, <1>3
          DEF LookupInv, Underway, Undisturbed, Excluded, Ahead, Reading, Growing, Locked
<1> QED BY <1>1, <1>4, <1>5, <1>6, IInvIntro

(* Every step keeps the invariant.                                         *)
LEMMA StepInv ==
  ASSUME IInv, [Next]_vars
  PROVE  IInv'
<1>1. PICK pos \in [Items -> Nat], m \in Nat, U \in SUBSET Items : Inner(pos, m, U)
  BY DEF IInv
<1>2. ASSUME NEW key \in Keys, Add(key) PROVE IInv'
  BY <1>1, <1>2, AddFirstInv, AddNextInv
<1>3. ASSUME NEW key \in Keys, DeleteHash(key) PROVE IInv'
  BY <1>1, <1>3, DeleteHashInv
<1>4. ASSUME Continue PROVE IInv'
  <2>1. WriterStep /\ UNCHANGED <<user, loaded>>
    BY <1>4 DEF Continue
  <2>2. CASE MakeTable
    BY <2>1, <2>2, <1>1, MakeTableInv
  <2>3. CASE AddToBkt
    BY <2>1, <2>3, <1>1, AddToBktInv
  <2>4. CASE MoveItem
    BY <2>1, <2>4, <1>1, MoveItemInv
  <2>5. CASE FreeBuckets
    BY <2>1, <2>5, <1>1, FreeBucketsInv
  <2>6. CASE DoubleBuckets
    BY <2>1, <2>6, <1>1, DoubleBucketsInv
  <2>7. CASE InstallBuckets
    BY <2>1, <2>7, <1>1, InstallBucketsInv
  <2>8. CASE IterDelete
    BY <2>1, <2>8, <1>1, IterDeleteInv
  <2> QED BY <2>1, <2>2, <2>3, <2>4, <2>5, <2>6, <2>7, <2>8 DEF WriterStep
<1>5. CASE Unload
  BY <1>1, <1>5, UnloadInv
<1>6. ASSUME NEW c \in Cpus, NEW key \in Keys, Begin(c, key) PROVE IInv'
  BY <1>1, <1>6, BeginInv
<1>7. ASSUME NEW c \in Cpus, Lookup(c) PROVE IInv'
  <2>1. CASE ReadLock(c)
    BY <2>1, <1>1, ReadLockInv
  <2>2. ASSUME FindStep(c), UNCHANGED <<user, loaded>> PROVE IInv'
    BY <2>2, <1>1, FindHeadInv, FindNumInv, FindFirstInv, FindTakeInv, FindTestInv,
       FindNextInv DEF FindStep
  <2>3. ASSUME FindEnd(c), UNCHANGED <<user, loaded>> PROVE IInv'
    BY <2>3, <1>1, FindEndInv
  <2> QED BY <2>1, <2>2, <2>3, <1>7 DEF Lookup
<1>8. CASE UNCHANGED vars
  BY <1>1, <1>8, StutterInv
<1> QED BY <1>2, <1>3, <1>4, <1>5, <1>6, <1>7, <1>8 DEF Next

(* In every reachable state there is an order of the records in which the  *)
(* chains, the records not yet moved and the lookups are where they should *)
(* be.                                                                     *)
THEOREM Inductive == Spec => []IInv
<1>1. Init => IInv
  BY InitInv
<1>2. IInv /\ [Next]_vars => IInv'
  BY StepInv
<1> QED BY <1>1, <1>2, PTL DEF Spec

-------------------------------------------------------------------------------
(* What follows from it.                                                   *)

(* The parts of the invariant give every variable its type.                *)
LEMMA TypeFollows ==
  ASSUME IInv
  PROVE  TypeOK
<1>1. Typed
  BY DEF IInv, Inner
<1>2. DOMAIN hh \subseteq Items /\ \A r \in DOMAIN hh : hh[r] \in HandleSet
  BY <1>1, StateFacts
<1>3. tbl # NoTable => /\ tbl.num_buckets \in Nat
                       /\ tbl.num_items \in 0..MaxRecords
                       /\ tbl.tail \in Items
                       /\ tbl.ineff_expands \in Nat /\ tbl.noexpand \in BOOLEAN
                       /\ tbl.expands \in Nat
                       /\ \A b \in DOMAIN tbl.buckets : tbl.buckets[b] \in BucketSet
  BY <1>1, TableFacts
<1>4. TableTypeOK
  BY <1>1, <1>2, <1>3 DEF Typed, TableTypeOK, WriterSet, LookupSet
<1> QED BY <1>1, <1>4 DEF Typed, TypeOK

(* The variables have their types; in particular num_items and the         *)
(* counters of the buckets never go below zero, and no link of a record    *)
(* names anything but a record.                                            *)
THEOREM TypeCorrect == Spec => []TypeOK
  BY Inductive, TypeFollows, PTL

(* A set of records that is not empty has a highest one.                   *)
LEMMA HighestOf ==
  ASSUME NEW pos, NEW m, Order(pos, m), NEW S \in SUBSET Items, S # {}
  PROVE  \E x \in S : \A y \in S : pos[y] <= pos[x]
<1> DEFINE depths == {m - pos[x] : x \in S}
<1>1. m \in Nat /\ \A x \in S : pos[x] \in Nat /\ pos[x] < m /\ m - pos[x] \in depths
  BY DEF Order
<1>2. depths \in SUBSET Nat /\ depths # {}
  BY <1>1
<1>3. \A d \in depths : \E x \in S : d = m - pos[x]
  OBVIOUS
<1> HIDE DEF depths
<1>4. Min(depths) \in depths /\ \A d \in depths : Min(depths) <= d
  BY <1>2, LeastIndex
<1>5. PICK x \in S : Min(depths) = m - pos[x]
  BY <1>3, <1>4
<1>6. \A y \in S : m - pos[x] <= m - pos[y]
  BY <1>1, <1>4, <1>5
<1>7. \A y \in S : pos[y] <= pos[x]
  BY <1>1, <1>6
<1> QED BY <1>7

(* Following a list from its top meets all of it: of what is not met, the  *)
(* highest would have no predecessor, and so be the top.                   *)
LEMMA LinkageMet ==
  ASSUME NEW pos, NEW m, Order(pos, m), NEW S \in SUBSET Items,
         NEW top, NEW nx, NEW pv, Linkage(S, top, nx, pv, pos),
         NEW met \in SUBSET S, top \in met, \A r \in met : nx[r] \in met \cup {Null}
  PROVE  met = S
<1> SUFFICES ASSUME S \ met # {} PROVE FALSE
  OBVIOUS
<1>1. PICK x \in S \ met : \A y \in S \ met : pos[y] <= pos[x]
  BY HighestOf
<1>2. pv[x] # Null
  BY <1>1, LinkageFirst
<1>3. pv[x] \in S /\ nx[pv[x]] = x
  BY <1>1, <1>2, LinkagePrev
<1>4. pos[x] < pos[pv[x]] /\ pos[x] \in Nat /\ pos[pv[x]] \in Nat
  BY <1>1, <1>2, <1>3 DEF Linkage, Up, Order
<1>5. pv[x] \in met
  BY <1>1, <1>3, <1>4
<1>6. x # Null
  BY <1>1 DEF Items, Null
<1> QED BY <1>1, <1>3, <1>5, <1>6

(* A chain that holds its members is a chain that HASH_FSCK accepts.       *)
LEMMA ChainFollows ==
  ASSUME NEW pos, NEW m, Order(pos, m), Typed, tbl # NoTable,
         Chained(hh, tbl.buckets, Live, tbl.num_buckets, pos),
         NEW b \in 0..(tbl.num_buckets - 1)
  PROVE  ChainOK(b)
<1> DEFINE n == tbl.num_buckets
           S == Members(hh, Live, n, b)
           top == tbl.buckets[b].hh_head
           nx == HhNext(hh)
           pv == HhPrev(hh)
<1>1. /\ Linkage(S, top, nx, pv, pos) /\ tbl.buckets[b].count = Cardinality(S)
  BY DEF Chained
<1>2. Live \subseteq DOMAIN hh /\ S \subseteq Live /\ S \subseteq Items /\ Null \notin Items
  BY StateFacts DEF Members
<1>3. S = {r \in Live : ToBkt(hh[r].key, n) = b}
  BY DEF Members
<1>4. \A r \in S : nx[r] = hh[r].hh_next /\ pv[r] = hh[r].hh_prev
  BY <1>2 DEF HhNext, HhPrev
<1> HIDE DEF S, top, nx, pv
<1>5. ASSUME NEW r \in S
      PROVE  /\ pv[r] = Null <=> top = r
             /\ nx[r] # Null => nx[r] \in S /\ pv[nx[r]] = r
             /\ pv[r] # Null => pv[r] \in S /\ nx[pv[r]] = r
  <2>0. Linkage(S, top, nx, pv, pos) /\ S \subseteq Items
    BY <1>1, <1>2
  <2>1. pv[r] = Null <=> top = r
    BY <2>0, LinkageFirst
  <2>2. nx[r] # Null => nx[r] \in S /\ pv[nx[r]] = r
    BY <2>0, LinkageNext
  <2>3. pv[r] # Null => pv[r] \in S /\ nx[pv[r]] = r
    BY <2>0, LinkagePrev
  <2> QED BY <2>1, <2>2, <2>3
<1>6. (top = Null <=> S = {}) /\ (top # Null => top \in S)
  BY <1>1, <1>2 DEF Linkage, Top
<1>7. /\ tbl.buckets[b].count = Cardinality(S)
      /\ tbl.buckets[b].hh_head = Null <=> S = {}
      /\ tbl.buckets[b].hh_head # Null =>
           tbl.buckets[b].hh_head \in S /\ hh[tbl.buckets[b].hh_head].hh_prev = Null
  BY <1>1, <1>4, <1>5, <1>6 DEF top
<1>8. \A r \in S :
        /\ hh[r].hh_prev = Null => tbl.buckets[b].hh_head = r
        /\ hh[r].hh_next # Null => /\ hh[r].hh_next \in S
                                   /\ hh[hh[r].hh_next].hh_prev = r
        /\ hh[r].hh_prev # Null => /\ hh[r].hh_prev \in S
                                   /\ hh[hh[r].hh_prev].hh_next = r
  BY <1>4, <1>5 DEF top
<1>9. MetAlong(tbl.buckets[b].hh_head, S)
  <2> SUFFICES ASSUME NEW met \in SUBSET S, tbl.buckets[b].hh_head \in met,
                      \A r \in met : hh[r].hh_next \in met \cup {Null}
               PROVE  met = S
    BY DEF MetAlong
  <2>1. top \in met /\ \A r \in met : nx[r] \in met \cup {Null}
    BY <1>4 DEF top
  <2> QED BY <2>1, <1>1, <1>2, LinkageMet
<1> QED BY <1>3, <1>7, <1>8, <1>9 DEF ChainOK

(* The least and the greatest of a set of records.                         *)
LEMMA LeastIs ==
  ASSUME NEW S, S \subseteq Nat, NEW x \in S, \A y \in S : x <= y
  PROVE  Min(S) = x
<1>1. \A z \in S : (\A y \in S : z <= y) => z = x
  OBVIOUS
<1> QED BY <1>1 DEF Min

(* What Max chooses, if there is a greatest number.                        *)
LEMMA GreatestIs ==
  ASSUME NEW S, S \subseteq Nat, NEW x \in S, \A y \in S : x >= y
  PROVE  Max(S) = x
<1>1. \A z \in S : (\A y \in S : z >= y) => z = x
  OBVIOUS
<1> QED BY <1>1 DEF Max

(* And so with the list in order of addition.                              *)
LEMMA ListFollows ==
  ASSUME Typed, ListInv, tbl # NoTable, head # Null
  PROVE  ListOK
<1> DEFINE S == Live
           nx == AddedNext(hh)
           pv == AddedPrev(hh)
<1>1. Linkage(S, head, nx, pv, Age) /\ tbl.tail \in S /\ \A s \in S : s <= tbl.tail
  BY DEF ListInv
<1>2. /\ S \subseteq DOMAIN hh /\ S \subseteq Items /\ Null \notin Items /\ Wild # Null
      /\ Wild \notin Items
  BY StateFacts
<1>3. /\ \A s \in S : s \in Nat /\ s < Wild /\ Age[s] = MaxRecords - s /\ s # Wild
      /\ Wild \in Nat /\ MaxRecords \in Nat
  BY <1>2, SizesAssumption DEF Items, Age, Wild
<1>4. \A r \in S : nx[r] = hh[r].next /\ pv[r] = hh[r].prev
  BY <1>2 DEF AddedNext, AddedPrev
<1> HIDE DEF S, nx, pv
<1>5. head \in S /\ \A s \in S : head <= s
  <2>1. head \in S /\ \A s \in S : Age[s] <= Age[head]
    BY <1>1 DEF Linkage, Top
  <2> QED BY <2>1, <1>3
<1>6. head = OrNull(Min(S \cup {Wild}))
  <2>1. \A y \in S \cup {Wild} : head <= y
    BY <1>3, <1>5
  <2>2. S \cup {Wild} \subseteq Nat
    BY <1>3
  <2>3. Min(S \cup {Wild}) = head
    BY <2>1, <2>2, <1>5, LeastIs
  <2> QED BY <2>3, <1>3, <1>5 DEF OrNull
<1>7. tbl.tail = Max(S)
  <2>1. S \subseteq Nat /\ \A y \in S : tbl.tail >= y
    BY <1>1, <1>3
  <2> QED BY <2>1, <1>1, GreatestIs
<1>8. ASSUME NEW r \in S
      PROVE  nx[r] = OrNull(NextAdded(r))
  <2> DEFINE T == {s \in S : s > r} \cup {Wild}
  <2>1. NextAdded(r) = Min(T)
    BY DEF NextAdded, S
  <2>2. T \subseteq Nat
    BY <1>3
  <2>3. CASE nx[r] = Null
    <3>1. \A s \in S : Age[r] <= Age[s]
      BY <2>3, <1>1 DEF Linkage, Down
    <3>2. \A s \in S : s <= r
      BY <3>1, <1>3
    <3>3. T = {Wild}
      BY <3>2, <1>3
    <3>4. Wild \in T /\ \A y \in T : Wild <= y
      BY <3>3, <1>3
    <3> HIDE DEF T
    <3>5. Min(T) = Wild
      BY <3>4, <2>2, LeastIs
    <3> QED BY <3>5, <2>1, <2>3 DEF OrNull
  <2>4. CASE nx[r] # Null
    <3> PICK q : q = nx[r]
      OBVIOUS
    <3>1. /\ q \in S /\ Age[q] < Age[r]
          /\ \A s \in S : Age[s] <= Age[q] \/ Age[r] <= Age[s]
      BY <2>4, <1>1 DEF Linkage, Down
    <3>2. q > r /\ \A s \in S : s > r => q <= s
      BY <3>1, <1>3
    <3>3. q \in T /\ \A y \in T : q <= y
      BY <3>1, <3>2, <1>3
    <3> HIDE DEF T
    <3>4. Min(T) = q
      BY <3>3, <2>2, LeastIs
    <3> QED BY <3>1, <3>4, <2>1, <1>3 DEF OrNull
  <2> QED BY <2>3, <2>4
<1>9. \A r \in S : nx[r] # Null => nx[r] \in S /\ pv[nx[r]] = r
  BY <1>1, <1>2, AgeOrder, LinkageNext
<1>10. pv[head] = Null
  BY <1>1, <1>2, <1>5, AgeOrder, LinkageFirst
<1>11. \A r \in S : /\ hh[r].next = OrNull(NextAdded(r))
                    /\ hh[r].next # Null => hh[hh[r].next].prev = r
  BY <1>4, <1>8, <1>9
<1>12. hh[head].prev = Null
  BY <1>4, <1>5, <1>10
<1> QED BY <1>6, <1>7, <1>11, <1>12 DEF ListOK, S

(* Following the pointers from the heads meets what the order says is there. *)
LEMMA FsckFollows ==
  ASSUME IInv
  PROVE  Fsck
<1>1. PICK pos \in [Items -> Nat], m \in Nat, U \in SUBSET Items : Inner(pos, m, U)
  BY DEF IInv
<1>2. Order(pos, m) /\ Typed /\ Control /\ ListInv /\ ChainInv(pos, U)
  BY <1>1 DEF Inner
<1> SUFFICES ASSUME writer.pc \in {"idle", "iterate"}
             PROVE  /\ head = Null <=> Live = {}
                    /\ head = Null <=> tbl = NoTable
                    /\ head # Null =>
                         /\ DOMAIN tbl.buckets = 0..(tbl.num_buckets - 1)
                         /\ tbl.num_items = Cardinality(Live)
                         /\ \A b \in DOMAIN tbl.buckets : ChainOK(b)
                         /\ ListOK
  BY DEF Fsck
<1>3. head = Null <=> Live = {}
  BY <1>2 DEF ListInv, Linkage, Top
<1>4. head = Null <=> tbl = NoTable
  BY <1>2 DEF Control
<1>5. Linked = Live
  BY DEF Linked
<1>6. ASSUME head # Null
      PROVE  /\ DOMAIN tbl.buckets = 0..(tbl.num_buckets - 1)
             /\ tbl.num_items = Cardinality(Live)
             /\ \A b \in DOMAIN tbl.buckets : ChainOK(b)
             /\ ListOK
  <2>1. tbl # NoTable /\ tbl.num_items = Cardinality(Live)
    BY <1>2, <1>4, <1>5, <1>6 DEF ListInv
  <2>2. Chained(hh, tbl.buckets, Live, tbl.num_buckets, pos)
    BY <2>1, <1>2, <1>5 DEF ChainInv, Settled
  <2>3. DOMAIN tbl.buckets = 0..(tbl.num_buckets - 1)
    BY <2>2 DEF Chained
  <2>4. \A b \in DOMAIN tbl.buckets : ChainOK(b)
    BY <2>1, <2>2, <2>3, <1>2, ChainFollows
  <2> QED BY <2>1, <2>3, <2>4, <1>2, <1>6, ListFollows
<1> QED BY <1>3, <1>4, <1>6

(* HASH_FSCK finds nothing wrong between the changes of the writer, for    *)
(* any number of buckets and records, after any number of expansions.      *)
THEOREM FsckHolds == Spec => []Fsck
  BY Inductive, FsckFollows, PTL

(* A lookup that is over has been right.                                   *)
LEMMA LookupsFollow ==
  ASSUME IInv
  PROVE  LookupsRight
<1>1. PICK pos \in [Items -> Nat], m \in Nat, U \in SUBSET Items : Inner(pos, m, U)
  BY DEF IInv
<1>2. Typed /\ LookupInv(pos)
  BY <1>1 DEF Inner
<1>3. Live \in SUBSET Items /\ Linked \subseteq Live /\ Null \notin Items /\ Wild \notin Items
  BY <1>2, StateFacts
<1> SUFFICES ASSUME NEW c \in Cpus, rd[c].pc = "done"
             PROVE  /\ rd[c].at \in Items => rd[c].at \in Live /\ hh[rd[c].at].key = rd[c].key
                    /\ rd[c].calm \/ Locked => /\ rd[c].at # Wild
                                               /\ rd[c].must => rd[c].at # Null
  BY DEF LookupsRight
<1>4. Underway(c) /\ Undisturbed(c, pos) /\ Excluded(c, pos) /\ Reading(c)
  BY <1>2 DEF LookupInv, Reading
<1>5. rd[c].at \in Items => rd[c].at \in Live /\ hh[rd[c].at].key = rd[c].key
  BY <1>3, <1>4 DEF Underway
<1>6. ASSUME rd[c].calm
      PROVE  rd[c].at # Wild /\ (rd[c].must => rd[c].at # Null)
  BY <1>3, <1>4, <1>6 DEF Undisturbed, Ahead
<1>7. Locked => rd[c].calm
  BY <1>4 DEF Excluded
<1> QED BY <1>5, <1>6, <1>7

(* A lookup that no making or expansion of the table overlapped is right,  *)
(* and all lookups under the lock are.                                     *)
THEOREM LookupsCorrect == Spec => []LookupsRight
  BY Inductive, LookupsFollow, PTL

(* A lookup of a table that never grew has found the newest record.        *)
LEMMA NewestFollows ==
  ASSUME IInv
  PROVE  NewestFound
<1>1. PICK pos \in [Items -> Nat], m \in Nat, U \in SUBSET Items : Inner(pos, m, U)
  BY DEF IInv
<1>2. Order(pos, m) /\ Typed /\ Control /\ ListInv /\ NewestFirst(pos) /\ LookupInv(pos)
  BY <1>1 DEF Inner
<1> SUFFICES ASSUME NEW c \in Cpus, Locked, rd[c].pc = "done", rd[c].at \in Items,
                    tbl.expands = 0
             PROVE  rd[c].at = Max(Holding(rd[c].key))
  BY DEF NewestFound
<1> DEFINE H == Holding(rd[c].key)
           found == rd[c].at
<1>3. writer.pc = "idle" /\ \A r \in H : pos[r] <= pos[found]
  BY <1>2 DEF LookupInv, Excluded, Reading, Ahead
<1>4. found \in Linked /\ hh[found].key = rd[c].key
  BY <1>2 DEF LookupInv, Underway
<1>5. Linked = Live /\ H = {r \in Live : hh[r].key = rd[c].key} /\ Live \in SUBSET Items
  BY <1>2, <1>3, StateFacts DEF Linked, Holding
<1>6. found \in H /\ H \subseteq Live
  BY <1>4, <1>5
<1>7. tbl # NoTable
  <2>1. head # Null
    BY <1>2, <1>6 DEF ListInv, Linkage, Top
  <2> QED BY <2>1, <1>2, <1>3 DEF Control
<1>8. \A r, s \in Live : r < s => pos[r] < pos[s]
  BY <1>2, <1>3, <1>5, <1>7 DEF NewestFirst, Settled
<1>9. \A r \in Live : r \in Nat /\ pos[r] \in Nat
  BY <1>2, <1>5 DEF Order, Items
<1> HIDE DEF H, found
<1>10. H \subseteq Nat /\ \A r \in H : found >= r
  <2>1. \A r \in H : ~(found < r)
    BY <1>3, <1>6, <1>8, <1>9
  <2> QED BY <2>1, <1>6, <1>9
<1>11. Max(H) = found
  BY <1>6, <1>10, GreatestIs
<1> QED BY <1>11 DEF H, found

(* Under the lock, a lookup finds the newest record of its key, for as     *)
(* long as no bucket has filled up.                                        *)
THEOREM FindsNewest == Spec => []NewestFound
  BY Inductive, NewestFollows, PTL

(* An unloaded module has freed what it added.                             *)
LEMMA ReclaimsFollows ==
  ASSUME IInv
  PROVE  Reclaims
<1>1. Typed /\ Control /\ ListInv
  BY DEF IInv, Inner
<1> SUFFICES ASSUME ~loaded, writer.pc = "idle"
             PROVE  freed = DOMAIN hh /\ tbl = NoTable
  BY DEF Reclaims, WriterBusy
<1>2. head = Null
  BY <1>1 DEF Control
<1>3. Live = {}
  BY <1>1, <1>2 DEF ListInv, Linkage, Top
<1> QED BY <1>1, <1>2, <1>3 DEF Typed, Control, Live

(* Unloading the module gives every record back, and the table.            *)
THEOREM ReclaimsAll == Spec => []Reclaims
  BY Inductive, ReclaimsFollows, PTL

(* Where there is a lock, no hook is inside HASH_FIND while the writer is  *)
(* inside a macro that changes the table.                                  *)
Exclusion == Locked => \A c \in Cpus : Reading(c) => ~WriterBusy

(* The lock keeps the writer and the hooks apart: while a hook looks a key *)
(* up, nobody adds, deletes or expands.                                    *)
THEOREM LockExcludes == Spec => []Exclusion
<1>1. IInv => Exclusion
  BY DEF IInv, Inner, LookupInv, Excluded, Exclusion, WriterBusy
<1> QED BY <1>1, Inductive, PTL

-------------------------------------------------------------------------------
(* A HASH_FIND of the writer.                                              *)

(* One step of it: it stops at the end or at a record of its key.          *)
Onward(p, key) == IF p = Null \/ hh[p].key = key THEN p ELSE hh[p].hh_next

Walk(g, r, key, n) ==
  g = [i \in 0..n |-> IF i = 0 THEN r ELSE Onward(g[i - 1], key)]

(* The function that Along defines by recursion exists.                    *)
LEMMA WalkExists ==
  ASSUME NEW r, NEW key, NEW n \in Nat
  PROVE  \E g : Walk(g, r, key, n)
<1> DEFINE S == {k \in Nat : ~ \E g : Walk(g, r, key, k)}
<1> SUFFICES ASSUME S # {} PROVE FALSE
  OBVIOUS
<1>1. PICK k \in S : \A j \in S : k <= j
  <2> HIDE DEF S
  <2>1. S \in SUBSET Nat
    BY DEF S
  <2> QED BY <2>1, LeastIndex
<1>2. k \in Nat /\ ~ \E g : Walk(g, r, key, k)
  BY <1>1
<1>3. CASE k = 0
  <2>1. Walk([i \in 0..k |-> r], r, key, k)
    BY <1>3 DEF Walk
  <2> QED BY <2>1, <1>2
<1>4. CASE k # 0
  <2>1. k - 1 \in Nat /\ ~(k <= k - 1)
    BY <1>2, <1>4
  <2>2. PICK g : Walk(g, r, key, k - 1)
    BY <2>1, <1>1
  <2> DEFINE g2 == [i \in 0..k |-> IF i < k THEN g[i] ELSE Onward(g[k - 1], key)]
  <2>3. \A i \in 0..k : g2[i] = IF i = 0 THEN r ELSE Onward(g2[i - 1], key)
    <3> SUFFICES ASSUME NEW i \in 0..k
                 PROVE  g2[i] = IF i = 0 THEN r ELSE Onward(g2[i - 1], key)
      OBVIOUS
    <3>1. \A j \in 0..(k - 1) : g[j] = IF j = 0 THEN r ELSE Onward(g[j - 1], key)
      BY <2>2 DEF Walk
    <3>2. CASE i = 0
      BY <3>1, <3>2, <1>2, <1>4
    <3>3. CASE i # 0 /\ i < k
      <4>1. g2[i] = g[i] /\ g2[i - 1] = g[i - 1] /\ i \in 0..(k - 1)
        BY <3>3, <1>2
      <4> QED BY <4>1, <3>1, <3>3
    <3>4. CASE i = k
      <4>1. g2[i] = Onward(g[k - 1], key) /\ g2[i - 1] = g[k - 1]
        BY <3>4, <1>2, <1>4
      <4> QED BY <4>1, <3>4, <1>4
    <3> QED BY <3>2, <3>3, <3>4, <1>2
  <2>4. g2 = [i \in 0..k |-> g2[i]]
    OBVIOUS
  <2> HIDE DEF g2
  <2>5. Walk(g2, r, key, k)
    BY <2>3, <2>4 DEF Walk
  <2> QED BY <2>5, <1>2
<1> QED BY <1>3, <1>4

(* Along is the last step of a walk.                                       *)
LEMMA AlongWalks ==
  ASSUME NEW r, NEW key
  PROVE  \E g : Walk(g, r, key, MaxRecords) /\ Along(r, key) = g[MaxRecords]
<1> DEFINE g == CHOOSE g : Walk(g, r, key, MaxRecords)
<1>1. Walk(g, r, key, MaxRecords)
  BY SizesAssumption, WalkExists
<1>2. Along(r, key) = g[MaxRecords]
  BY DEF Along, Walk, Onward
<1> QED BY <1>1, <1>2

(* Where it is after i steps in the chain M: no record of the key is       *)
(* behind it, and if it has not stopped there are at least i.              *)
Passed(p, i, M, key, pos) ==
  /\ p = Null => \A s \in M : hh[s].key # key
  /\ p # Null => p \in M /\ \A s \in M : hh[s].key = key => pos[s] <= pos[p]
  /\ p # Null /\ hh[p].key # key => Cardinality({s \in M : pos[p] < pos[s]}) >= i

(* One step of a walk passes the record it leaves.                         *)
LEMMA OnwardPassed ==
  ASSUME NEW pos, NEW m, Order(pos, m), NEW M \in SUBSET Items, Down(M, HhNext(hh), pos),
         M \subseteq DOMAIN hh, NEW key, NEW p, NEW i \in Nat, Passed(p, i, M, key, pos)
  PROVE  Passed(Onward(p, key), i + 1, M, key, pos)
<1>1. CASE p = Null \/ hh[p].key = key
  <2>1. Onward(p, key) = p
    BY <1>1 DEF Onward
  <2> QED BY <2>1, <1>1 DEF Passed
<1>2. CASE p # Null /\ hh[p].key # key
  <2> DEFINE q == hh[p].hh_next
             above == {s \in M : pos[p] < pos[s]}
  <2>1. Onward(p, key) = q
    BY <1>2 DEF Onward
  <2>2. /\ p \in M /\ \A s \in M : hh[s].key = key => pos[s] <= pos[p]
        /\ Cardinality(above) >= i
    BY <1>2 DEF Passed
  <2>3. \A s \in M : pos[s] \in Nat /\ (pos[s] = pos[p] => s = p)
    BY <2>2 DEF Order
  <2>4. \A s \in M : hh[s].key = key => pos[s] < pos[p]
    BY <2>2, <2>3, <1>2
  <2>5. /\ q = Null => \A s \in M : pos[p] <= pos[s]
        /\ q # Null => /\ q \in M /\ pos[q] < pos[p]
                       /\ \A s \in M : pos[s] <= pos[q] \/ pos[p] <= pos[s]
    BY <2>2 DEF Down, HhNext
  <2> HIDE DEF q, above
  <2>6. q = Null => \A s \in M : hh[s].key # key
    BY <2>2, <2>3, <2>4, <2>5
  <2>7. q # Null => q \in M /\ \A s \in M : hh[s].key = key => pos[s] <= pos[q]
    BY <2>2, <2>3, <2>4, <2>5
  <2>8. ASSUME q # Null
        PROVE  Cardinality({s \in M : pos[q] < pos[s]}) >= i + 1
    <3> DEFINE above2 == {s \in M : pos[q] < pos[s]}
    <3>1. above \in SUBSET Items /\ above2 \in SUBSET Items /\ p \notin above
      BY <2>2, <2>3 DEF above
    <3>2. above \cup {p} \subseteq above2
      BY <2>2, <2>3, <2>5, <2>8 DEF above
    <3> HIDE DEF above2
    <3>3. /\ IsFiniteSet(above) /\ Cardinality(above) \in 0..MaxRecords
          /\ IsFiniteSet(above2) /\ Cardinality(above2) \in 0..MaxRecords
      BY <3>1, RecordsFinite
    <3>4. Cardinality(above \cup {p}) = Cardinality(above) + 1
      BY <3>1, <3>3, FS_AddElement
    <3>5. Cardinality(above \cup {p}) <= Cardinality(above2)
      BY <3>2, <3>3, FS_Subset
    <3>6. Cardinality(above2) >= i + 1
      BY <3>3, <3>4, <3>5, <2>2, SizesAssumption
    <3> QED BY <3>6 DEF above2
  <2> QED BY <2>1, <2>6, <2>7, <2>8 DEF Passed
<1> QED BY <1>1, <1>2

(* A walk has passed at least as many records as it took steps.            *)
LEMMA WalkPassed ==
  ASSUME NEW pos, NEW m, Order(pos, m), NEW M \in SUBSET Items, Down(M, HhNext(hh), pos),
         M \subseteq DOMAIN hh, NEW key, NEW top, Top(M, top, pos),
         NEW g, NEW n \in Nat, Walk(g, top, key, n)
  PROVE  Passed(g[n], n, M, key, pos)
<1> DEFINE S == {k \in 0..n : ~Passed(g[k], k, M, key, pos)}
<1> SUFFICES ASSUME S # {} PROVE FALSE
  OBVIOUS
<1>1. PICK k \in S : \A j \in S : k <= j
  <2> HIDE DEF S
  <2>1. S \in SUBSET Nat
    BY DEF S
  <2> QED BY <2>1, LeastIndex
<1>2. k \in 0..n /\ ~Passed(g[k], k, M, key, pos)
  BY <1>1
<1>3. g[k] = IF k = 0 THEN top ELSE Onward(g[k - 1], key)
  BY <1>2 DEF Walk
<1>4. CASE k = 0
  <2>1. \A s \in M : pos[s] \in Nat /\ s \in Items
    BY DEF Order
  <2>2. Cardinality({s \in M : pos[top] < pos[s]}) >= 0
    <3>1. {s \in M : pos[top] < pos[s]} \in SUBSET Items
      OBVIOUS
    <3>2. Cardinality({s \in M : pos[top] < pos[s]}) \in 0..MaxRecords
      BY <3>1, RecordsFinite
    <3> QED BY <3>2, SizesAssumption
  <2>3. Passed(top, 0, M, key, pos)
    BY <2>1, <2>2 DEF Top, Passed
  <2> QED BY <2>3, <1>2, <1>3, <1>4
<1>5. CASE k # 0
  <2>1. k - 1 \in 0..n /\ k - 1 \in Nat /\ ~(k <= k - 1) /\ (k - 1) + 1 = k
    BY <1>2, <1>5
  <2>2. Passed(g[k - 1], k - 1, M, key, pos)
    BY <2>1, <1>1
  <2> PICK i \in Nat : i = k - 1
    BY <2>1
  <2>3. Passed(Onward(g[i], key), i + 1, M, key, pos)
    BY <2>2, OnwardPassed
  <2> QED BY <2>1, <2>3, <1>2, <1>3, <1>5
<1> QED BY <1>4, <1>5

(* It finds the first record of the key in its chain, if there is one.     *)
LEMMA AlongFinds ==
  ASSUME NEW pos, NEW m, Order(pos, m), Typed, NEW n \in Nat \ {0}, NEW array,
         Chained(hh, array, Live, n, pos), NEW key \in Keys,
         NEW r, r = Along(array[ToBkt(key, n)].hh_head, key)
  PROVE  /\ r = Null => \A s \in Live : hh[s].key # key
         /\ r # Null => /\ r \in Live /\ hh[r].key = key
                        /\ \A s \in Live : hh[s].key = key => pos[s] <= pos[r]
<1> DEFINE b == ToBkt(key, n)
           M == Members(hh, Live, n, b)
           top == array[b].hh_head
<1>1. Live \subseteq DOMAIN hh /\ Live \in SUBSET Items
  BY StateFacts
<1>2. b \in 0..(n - 1)
  BY ToBktType
<1>3. Top(M, top, pos) /\ Down(M, HhNext(hh), pos)
  BY <1>2 DEF Chained, Linkage
<1>4. M \in SUBSET Items /\ M \subseteq DOMAIN hh /\ M \subseteq Live
  BY <1>1 DEF Members
<1>5. \A s \in Live : hh[s].key = key => s \in M
  BY DEF Members
<1>6. PICK g : Walk(g, top, key, MaxRecords) /\ r = g[MaxRecords]
  BY AlongWalks
<1> HIDE DEF M, top, b
<1>7. Passed(r, MaxRecords, M, key, pos)
  BY <1>3, <1>4, <1>6, SizesAssumption, WalkPassed
<1>8. r # Null => hh[r].key = key
  <2> SUFFICES ASSUME r # Null, hh[r].key # key PROVE FALSE
    OBVIOUS
  <2> DEFINE above == {s \in M : pos[r] < pos[s]}
  <2>1. Cardinality(above) >= MaxRecords /\ r \in M
    BY <1>7 DEF Passed
  <2>2. pos[r] \in Nat
    BY <2>1, <1>4 DEF Order
  <2>3. above \in SUBSET Items /\ above \cup {r} \in SUBSET Items /\ r \notin above
    BY <2>1, <2>2, <1>4
  <2> HIDE DEF above
  <2>4. /\ IsFiniteSet(above) /\ Cardinality(above) \in 0..MaxRecords
        /\ Cardinality(above \cup {r}) \in 0..MaxRecords
    BY <2>3, RecordsFinite
  <2>5. Cardinality(above \cup {r}) = Cardinality(above) + 1
    BY <2>3, <2>4, FS_AddElement
  <2> QED BY <2>1, <2>4, <2>5, SizesAssumption
<1> QED BY <1>4, <1>5, <1>7, <1>8 DEF Passed

(* What addHash and deleteHash find: a record of the key if there is one,  *)
(* and the newest for as long as no bucket has filled up.                  *)
WriterFindsRight ==
  ~WriterBusy =>
    \A key \in Keys :
      LET r == WriterFinds(key)
          found == {s \in Live : hh[s].key = key}
      IN /\ r = Null => found = {}
         /\ r # Null => r \in found
         /\ r # Null /\ tbl.expands = 0 => r = Max(found)

(* The walk from the head of its key's bucket finds the first of the key.  *)
LEMMA WriterFindsFollows ==
  ASSUME IInv
  PROVE  WriterFindsRight
<1>1. PICK pos \in [Items -> Nat], m \in Nat, U \in SUBSET Items : Inner(pos, m, U)
  BY DEF IInv
<1>2. /\ Order(pos, m) /\ Typed /\ Control /\ ListInv /\ ChainInv(pos, U)
      /\ NewestFirst(pos)
  BY <1>1 DEF Inner
<1> SUFFICES ASSUME writer.pc = "idle", NEW key \in Keys
             PROVE  LET r == WriterFinds(key)
                        found == {s \in Live : hh[s].key = key}
                    IN /\ r = Null => found = {}
                       /\ r # Null => r \in found
                       /\ r # Null /\ tbl.expands = 0 => r = Max(found)
  BY DEF WriterFindsRight, WriterBusy
<1> DEFINE r == WriterFinds(key)
           found == {s \in Live : hh[s].key = key}
<1>3. CASE head = Null
  <2>1. Live = {}
    BY <1>2, <1>3 DEF ListInv, Linkage, Top
  <2> QED BY <2>1, <1>3 DEF WriterFinds
<1>4. CASE head # Null
  <2> PICK a : a = Along(tbl.buckets[ToBkt(key, tbl.num_buckets)].hh_head, key)
    OBVIOUS
  <2>1. tbl # NoTable /\ Linked = Live
    BY <1>2, <1>4 DEF Control, Linked
  <2>2. Chained(hh, tbl.buckets, Live, tbl.num_buckets, pos) /\ Settled
    BY <2>1, <1>2 DEF ChainInv, Settled
  <2>3. tbl.num_buckets \in Nat \ {0}
    BY <2>1, <1>2, TableFacts
  <2>4. /\ a = Null => \A s \in Live : hh[s].key # key
        /\ a # Null => /\ a \in Live /\ hh[a].key = key
                       /\ \A s \in Live : hh[s].key = key => pos[s] <= pos[a]
    BY <2>2, <2>3, <1>2, AlongFinds
  <2>5. Live \in SUBSET Items /\ Null \notin Items
    BY <1>2, StateFacts
  <2>6. r = a
    BY <2>4, <2>5, <1>4 DEF WriterFinds
  <2>7. ASSUME a # Null, tbl.expands = 0
        PROVE  a = Max(found)
    <3>1. \A s \in Live : s \in Nat /\ pos[s] \in Nat
      BY <2>5, <1>2 DEF Order, Items
    <3>2. \A s, t \in Live : s < t => pos[s] < pos[t]
      BY <2>1, <2>2, <2>7, <1>2 DEF NewestFirst
    <3>3. \A s \in found : ~(a < s)
      BY <3>1, <3>2, <2>4, <2>7
    <3>4. a \in found /\ found \subseteq Nat
      BY <3>1, <2>4, <2>7
    <3> HIDE DEF found
    <3>5. \A s \in found : a >= s
      BY <3>3, <3>4
    <3> QED BY <3>4, <3>5, GreatestIs
  <2> HIDE DEF r
  <2> QED BY <2>4, <2>6, <2>7 DEF r
<1> QED BY <1>3, <1>4

(* The HASH_FIND before a rule is added or deleted misses no record: a     *)
(* deleteHash of a rule that exists deletes one of its key.                *)
THEOREM WriterFindsAll == Spec => []WriterFindsRight
  BY Inductive, WriterFindsFollows, PTL
=============================================================================
