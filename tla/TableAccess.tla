----------------------------- MODULE TableAccess -----------------------------
(***************************************************************************)
(* Who uses the hash table, and how they are kept apart.                   *)
(*                                                                         *)
(*   "locked"     the kernel modules of client and server: the hooks look  *)
(*                keys up under the read lock; loading the module and the  *)
(*                netlink commands change the table under the write lock   *)
(*   "middlebox"  the middlebox's kernel module: the hooks are registered  *)
(*                first and two rules added afterwards, without a lock     *)
(*   "emulator"   serverUDP: the receive loop adds a flow that it has not  *)
(*                found, while the handlers look theirs up, without a lock *)
(*                                                                         *)
(* A kernel's hooks run in softirqs: one that starts on the writer's       *)
(* processor runs before the writer goes on.                               *)
(***************************************************************************)
EXTENDS HashTable

CONSTANT
  WriterCpu      \* where the writer runs: one of Cpus, or one without hooks

VARIABLES
  user,          \* which of the programs this is
  loaded         \* are the hooks registered, or the threads running?

vars == <<tableVars, rd, user, loaded>>

Locked == user = "locked"

WriterBusy == writer.pc # "idle"
Reading(c) == rd[c].pc \notin {"idle", "lock"}

TypeOK ==
  /\ TableTypeOK
  /\ user \in {"locked", "middlebox", "emulator"}
  /\ loaded \in BOOLEAN

Init ==
  /\ TableInit
  /\ user \in {"locked", "middlebox", "emulator"}
  /\ loaded = TRUE

(* The writer's processor is not running a hook instead.                   *)
Scheduled ==
  user # "emulator" /\ WriterCpu \in Cpus => rd[WriterCpu].pc = "idle"

(* write_lock.                                                             *)
WriteLock == Locked => \A c \in Cpus : ~Reading(c)

(* The change the writer begins: a "SYN" adds without looking, and so does *)
(* loading the modules, for keys of its own; addHash and addItem look.     *)
Add(key) ==
  /\ loaded /\ Scheduled /\ WriteLock
  /\ user # "locked" => Holding(key) = {}
  /\ user = "middlebox" => Len(hh) < 2
  /\ AddKeyptr(key)
  /\ UNCHANGED <<user, loaded>>

(* What HASH_FIND gives a writer, whom nobody disturbs.                    *)
Along(r, key) ==
  LET at[n \in 0..MaxRecords] ==
        IF n = 0 THEN r
        ELSE IF at[n - 1] = Null \/ hh[at[n - 1]].key = key THEN at[n - 1]
        ELSE hh[at[n - 1]].hh_next
  IN at[MaxRecords]

WriterFinds(key) ==
  IF head = Null THEN Null
  ELSE LET r == Along(tbl.buckets[ToBkt(key, tbl.num_buckets)].hh_head, key)
       IN IF r \in Live /\ hh[r].key = key THEN r ELSE Null

(* deleteHash.                                                             *)
DeleteHash(key) ==
  /\ loaded /\ Scheduled /\ Locked /\ WriteLock
  /\ ~WriterBusy
  /\ WriterFinds(key) # Null
  /\ Delete(WriterFinds(key))
  /\ UNCHANGED <<writer, user, loaded>>

(* pkt_mangle_exit: the hooks are unregistered, which waits for those that *)
(* run, and then all records are deleted.                                  *)
Unload ==
  /\ loaded /\ user # "emulator"
  /\ ~WriterBusy /\ \A c \in Cpus : rd[c].pc = "idle"
  /\ loaded' = FALSE
  /\ IterStart
  /\ UNCHANGED <<head, hh, freed, tbl, grown, rd, user>>

Continue ==
  /\ Scheduled
  /\ WriterStep
  /\ UNCHANGED <<user, loaded>>

(* A hook or a handler looks a key up: a hook takes the read lock first.   *)
Begin(c, key) ==
  /\ loaded
  /\ BeginAt(c, IF Locked THEN "lock" ELSE "head", key)
  /\ UNCHANGED <<user, loaded>>

(* read_lock.                                                              *)
ReadLock(c) ==
  /\ ~WriterBusy
  /\ LookupGoes(c, "lock",
                [rd[c] EXCEPT !.pc = "head", !.must = Holding(rd[c].key) # {},
                              !.calm = ~Growing])
  /\ UNCHANGED <<user, loaded>>

Lookup(c) ==
  \/ ReadLock(c)
  \/ (FindStep(c) \/ FindEnd(c)) /\ UNCHANGED <<user, loaded>>

Next ==
  \/ \E key \in Keys : Add(key) \/ DeleteHash(key)
  \/ Continue \/ Unload
  \/ \E c \in Cpus, key \in Keys : Begin(c, key)
  \/ \E c \in Cpus : Lookup(c)

Spec == Init /\ [][Next]_vars

(* A writer that is scheduled goes on, and so does a lookup.  A free lock  *)
(* is taken some time: a hook that waits sees the last of the changes.     *)
Fairness ==
  /\ WF_vars(Continue)
  /\ \A c \in Cpus : WF_vars(Lookup(c))

FairSpec == Spec /\ Fairness

-------------------------------------------------------------------------------
(* What hh_next leads to from the head of a bucket is all of its members.  *)
MetAlong(first, members) ==
  \A met \in SUBSET members :
    (first \in met /\ \A r \in met : hh[r].hh_next \in met \cup {Null})
      => met = members

(* HASH_FSCK "checks hash integrity on every add/delete": between the      *)
(* writer's changes, those of the loop that deletes everything included,   *)
(* each bucket's chain is linked both ways and as long as its count says,  *)
(* every live record is met along the chain of its bucket and no other is, *)
(* and so it is with the list in order of addition.                        *)
ChainOK(b) ==
  LET bucket  == tbl.buckets[b]
      members == {r \in Live : ToBkt(hh[r].key, tbl.num_buckets) = b}
  IN /\ bucket.count = Cardinality(members)
     /\ bucket.hh_head = Null <=> members = {}
     /\ bucket.hh_head # Null => /\ bucket.hh_head \in members
                                /\ hh[bucket.hh_head].hh_prev = Null
                                /\ MetAlong(bucket.hh_head, members)
     /\ \A r \in members :
          /\ hh[r].hh_prev = Null => bucket.hh_head = r
          /\ hh[r].hh_next # Null => /\ hh[r].hh_next \in members
                                     /\ hh[hh[r].hh_next].hh_prev = r
          /\ hh[r].hh_prev # Null => /\ hh[r].hh_prev \in members
                                     /\ hh[hh[r].hh_prev].hh_next = r

NextAdded(r) == Min({s \in Live : s > r} \cup {Wild})
OrNull(r) == IF r = Wild THEN Null ELSE r

ListOK ==
  /\ head = OrNull(Min(Live \cup {Wild}))
  /\ tbl.tail = Max(Live)
  /\ \A r \in Live : /\ hh[r].next = OrNull(NextAdded(r))
                     /\ hh[r].next # Null => hh[hh[r].next].prev = r
  /\ hh[head].prev = Null

Fsck ==
  writer.pc \in {"idle", "iterate"} =>
    /\ head = Null <=> Live = {}
    /\ head = Null <=> tbl = NoTable
    /\ head # Null =>
         /\ DOMAIN tbl.buckets = 0..(tbl.num_buckets - 1)
         /\ tbl.num_items = Cardinality(Live)
         /\ \A b \in DOMAIN tbl.buckets : ChainOK(b)
         /\ ListOK

(* A lookup that no making or expansion of the table overlapped is right,  *)
(* whatever was added meanwhile: it finds a record of its key, if there    *)
(* was one when it began, and never strays.  In particular all lookups     *)
(* under the lock are right.                                               *)
LookupsRight ==
  \A c \in Cpus : rd[c].pc = "done" =>
    /\ rd[c].at \in Items => rd[c].at \in Live /\ hh[rd[c].at].key = rd[c].key
    /\ rd[c].calm \/ Locked =>
         /\ rd[c].at # Wild
         /\ rd[c].must => rd[c].at # Null

(* As long as no bucket has filled up, the record found is the newest of   *)
(* its key, which is what RecordTable builds on: the modules never hold    *)
(* enough rules.  An expansion turns each chain round.                     *)
NewestFound ==
  \A c \in Cpus :
    (Locked /\ rd[c].pc = "done" /\ rd[c].at \in Items /\ tbl.expands = 0) =>
      rd[c].at = Max(Holding(rd[c].key))

(* Unloading gives every record back, and the table.                       *)
Reclaims == (~loaded /\ ~WriterBusy) => freed = DOMAIN hh /\ tbl = NoTable

(* Every lookup that started ends: no chain is ever closed to a ring, not  *)
(* even for a lookup in the middle of an expansion, and the lock becomes   *)
(* free, if no hook runs on the writer's processor.                        *)
LookupsEnd == \A c \in Cpus : rd[c].pc # "idle" ~> rd[c].pc = "idle"

(* "The master branch works now with loss-free migration": a packet that a *)
(* hook of client or server takes is passed on, so its lookup ends.        *)
HooksReturn ==
  \A c \in Cpus : Locked /\ rd[c].pc # "idle" ~> rd[c].pc = "idle"
=============================================================================
