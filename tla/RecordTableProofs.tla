-------------------------- MODULE RecordTableProofs --------------------------
(***************************************************************************)
(* What the operations on a table of records return, for every table.      *)
(***************************************************************************)
EXTENDS RecordTable, SequenceTheorems, WellFoundedInduction, TLAPS

-------------------------------------------------------------------------------
(* Lookups.                                                                *)

LEMMA LargestIndex ==
  ASSUME NEW n \in Nat, NEW S \in SUBSET (1..n), S # {}
  PROVE  \E x \in S : \A y \in S : x >= y
<1> DEFINE Distances == {d \in Nat : n - d \in S}
<1>1. \A y \in S : y \in 1..n /\ n - y \in Distances
  BY SMT
<1>2. PICK m \in Distances : \A k \in Distances : ~ (<<k, m>> \in OpToRel(<, Nat))
  BY <1>1, NatLessThanWellFounded, WFMin
<1>3. \A k \in Distances : ~(k < m)
  BY <1>2 DEF OpToRel
<1> HIDE DEF Distances
<1>4. n - m \in S /\ m \in Nat
  BY DEF Distances
<1>5. ASSUME NEW y \in S PROVE n - m >= y
  <2>1. y \in 1..n /\ ~(n - y < m)
    BY <1>1, <1>3
  <2> QED BY <2>1, <1>4
<1> QED BY <1>4, <1>5

LEMMA FindCorrect ==
  ASSUME NEW S, NEW t \in Seq(S), NEW key
  PROVE  /\ HashFind(t, key) = Null =>
              \A i \in 1..Len(t) : t[i].key # key
         /\ HashFind(t, key) # Null =>
              /\ HashFind(t, key) \in 1..Len(t)
              /\ t[HashFind(t, key)].key = key
              /\ \A i \in 1..Len(t) : t[i].key = key => i <= HashFind(t, key)
<1>1. DOMAIN t = 1..Len(t) /\ Len(t) \in Nat
  BY LenProperties
<1>2. Holding(t, key) \in SUBSET (1..Len(t))
  BY <1>1 DEF Holding
<1>3. CASE Holding(t, key) = {}
  BY <1>1, <1>3 DEF Holding, HashFind
<1>4. CASE Holding(t, key) # {}
  <2>1. Max(Holding(t, key)) \in Holding(t, key)
        /\ \A y \in Holding(t, key) : Max(Holding(t, key)) >= y
    BY <1>1, <1>2, <1>4, LargestIndex DEF Max
  <2>2. HashFind(t, key) = Max(Holding(t, key))
    BY <1>4 DEF HashFind
  <2>3. HashFind(t, key) \in 1..Len(t) /\ t[HashFind(t, key)].key = key
    BY <2>1, <2>2, <1>2 DEF Holding
  <2>4. ASSUME NEW i \in 1..Len(t), t[i].key = key PROVE i <= HashFind(t, key)
    <3>1. i \in Holding(t, key)
      BY <1>1, <2>4 DEF Holding
    <3> QED BY <3>1, <2>1, <2>2, <2>3, <1>1
  <2> QED BY <2>3, <2>4, <1>1 DEF Null
<1> QED BY <1>3, <1>4

(* One record is enough for a lookup to succeed.                           *)
LEMMA FindSucceeds ==
  ASSUME NEW S, NEW t \in Seq(S), NEW i \in 1..Len(t)
  PROVE  HashFind(t, t[i].key) # Null
  BY FindCorrect

-------------------------------------------------------------------------------
(* Changes.                                                                *)

LEMMA AddCorrect ==
  ASSUME NEW S, NEW t \in Seq(S), NEW item \in S
  PROVE  /\ HashAdd(t, item) \in Seq(S)
         /\ Len(HashAdd(t, item)) = Len(t) + 1
         /\ \A i \in 1..Len(t) : HashAdd(t, item)[i] = t[i]
         /\ HashAdd(t, item)[Len(t) + 1] = item
  BY LenProperties DEF HashAdd

LEMMA TwoAdded ==
  ASSUME NEW a, NEW b
  PROVE  HashAdd(HashAdd(<<>>, a), b) = <<a, b>>
<1> DEFINE S == {a, b}
           none == <<>>
           one == HashAdd(none, a)
           two == HashAdd(one, b)
           pair == <<a, b>>
<1>1. none \in Seq(S) /\ Len(none) = 0 /\ a \in S /\ b \in S
  BY EmptySeq
<1>2. pair \in Seq(S) /\ Len(pair) = 2 /\ pair[1] = a /\ pair[2] = b
  BY <1>1
<1> HIDE DEF S, none, pair
<1>3. one \in Seq(S) /\ Len(one) = 1 /\ one[1] = a
  <2>1. /\ one \in Seq(S)
        /\ Len(one) = Len(none) + 1
        /\ one[Len(none) + 1] = a
    BY <1>1, AddCorrect, Zenon
  <2> QED BY <1>1, <2>1
<1> HIDE DEF one
<1>4. two \in Seq(S) /\ Len(two) = 2 /\ two[1] = a /\ two[2] = b
  <2>1. /\ two \in Seq(S)
        /\ Len(two) = Len(one) + 1
        /\ \A i \in 1..Len(one) : two[i] = one[i]
        /\ two[Len(one) + 1] = b
    BY <1>1, <1>3, AddCorrect, Zenon
  <2> QED BY <1>3, <2>1
<1> HIDE DEF two
<1>5. two = pair
  BY <1>2, <1>4, SeqEqual
<1> QED BY <1>5 DEF none, one, two, pair

LEMMA DelCorrect ==
  ASSUME NEW S, Freed \in S, NEW t \in Seq(S), NEW n \in 1..Len(t)
  PROVE  /\ HashDel(t, n) \in Seq(S)
         /\ Len(HashDel(t, n)) = Len(t)
         /\ \A i \in 1..Len(t) : HashDel(t, n)[i] = IF i = n THEN Freed ELSE t[i]
  BY ExceptSeq, LenProperties DEF HashDel

(* What addHash makes of a table t.                                        *)
Added(t, item, after) ==
  /\ Len(after) \in {Len(t), Len(t) + 1}
  /\ \A i \in 1..Len(t) : after[i] = t[i]
  /\ Len(after) = Len(t) + 1 =>
       (\A i \in 1..Len(t) : t[i].key # item.key) /\ after[Len(t) + 1] = item
  /\ Len(after) = Len(t) => \E i \in 1..Len(t) : t[i].key = item.key

LEMMA AddHashCorrect ==
  ASSUME NEW S, NEW t \in Seq(S), NEW item \in S
  PROVE  AddHash(t, item) \in Seq(S) /\ Added(t, item, AddHash(t, item))
<1>1. Len(t) \in Nat
  BY LenProperties
<1>2. CASE HashFind(t, item.key) = Null
  <2>1. AddHash(t, item) = HashAdd(t, item)
    BY <1>2 DEF AddHash
  <2>2. \A i \in 1..Len(t) : t[i].key # item.key
    BY <1>2, FindCorrect
  <2>3. HashAdd(t, item) \in Seq(S) /\ Len(HashAdd(t, item)) = Len(t) + 1
    BY AddCorrect
  <2>4. /\ \A i \in 1..Len(t) : HashAdd(t, item)[i] = t[i]
        /\ HashAdd(t, item)[Len(t) + 1] = item
    BY AddCorrect
  <2> QED BY <1>1, <2>1, <2>2, <2>3, <2>4 DEF Added
<1>3. CASE HashFind(t, item.key) # Null
  <2>1. AddHash(t, item) = t
    BY <1>3 DEF AddHash
  <2> QED BY <1>1, <1>3, <2>1, FindCorrect DEF Added
<1> QED BY <1>2, <1>3

LEMMA DeleteHashCorrect ==
  ASSUME NEW S, Freed \in S, NEW t \in Seq(S), NEW item
  PROVE  /\ DeleteHash(t, item) \in Seq(S)
         /\ Len(DeleteHash(t, item)) = Len(t)
         /\ \A i \in 1..Len(t) :
              \/ DeleteHash(t, item)[i] = t[i]
              \/ t[i].key = item.key /\ DeleteHash(t, item)[i] = Freed
<1>1. CASE HashFind(t, item.key) = Null
  BY <1>1 DEF DeleteHash
<1>2. CASE HashFind(t, item.key) # Null
  <2>1. DeleteHash(t, item) = HashDel(t, HashFind(t, item.key))
    BY <1>2 DEF DeleteHash
  <2> QED BY <1>2, <2>1, DelCorrect, FindCorrect
<1> QED BY <1>1, <1>2

(* "ACK" makes the record r of whatever record has the key.                *)
LEMMA SetDstCorrect ==
  ASSUME NEW S, NEW t \in Seq(S), NEW key, NEW a, NEW r \in S,
         \A i \in 1..Len(t) : t[i].key = key => [t[i] EXCEPT !.dst = a] = r
  PROVE  /\ SetDst(t, key, a) \in Seq(S)
         /\ Len(SetDst(t, key, a)) = Len(t)
         /\ \A i \in 1..Len(t) :
              \/ SetDst(t, key, a)[i] = t[i]
              \/ t[i].key = key /\ SetDst(t, key, a)[i] = r
<1>1. CASE HashFind(t, key) = Null
  BY <1>1 DEF SetDst
<1>2. CASE HashFind(t, key) # Null
  <2> DEFINE n == HashFind(t, key)
  <2>1. n \in 1..Len(t) /\ t[n].key = key
    BY <1>2, FindCorrect
  <2>2. SetDst(t, key, a) = [t EXCEPT ![n] = r]
    BY <1>2, <2>1 DEF SetDst
  <2> HIDE DEF n
  <2> QED BY <2>1, <2>2, ExceptSeq
<1> QED BY <1>1, <1>2
===============================================================================
