----------------------------- MODULE UpdateCommit -----------------------------
(***************************************************************************)
(* What the session-update protocol promises the kernels of the hops 1..N: *)
(* each update is prepared down the chain, hop after hop, and a hop may    *)
(* commit to it (send its packets along the new path) only when every hop  *)
(* has prepared for it (can translate the packets of the new path).        *)
(* Nothing is said of which hop commits first, or that all do.             *)
(***************************************************************************)
EXTENDS Integers

CONSTANTS N, Updates

Hops == 1..N

VARIABLES
  prepared,     \* the updates each hop has prepared for
  committed     \* the updates each hop has committed to

vars == <<prepared, committed>>

Init ==
  /\ prepared = [h \in Hops |-> {}]
  /\ committed = [h \in Hops |-> {}]

Prepare(h, u) ==
  /\ \A g \in 1..h-1 : u \in prepared[g]
  /\ prepared' = [prepared EXCEPT ![h] = @ \cup {u}]
  /\ UNCHANGED committed

CommitTo(h, u) ==
  /\ \A g \in Hops : u \in prepared[g]
  /\ committed' = [committed EXCEPT ![h] = @ \cup {u}]
  /\ UNCHANGED prepared

Next == \E h \in Hops, u \in Updates : Prepare(h, u) \/ CommitTo(h, u)

Spec == Init /\ [][Next]_vars
=============================================================================
