---------------------------- MODULE MerkleChecks ----------------------------
(* Which proofs the verifiers accept, over all small trees and all proofs  *)
(* put together from their nodes.                                          *)
EXTENDS Merkle, FiniteSets

CONSTANTS
  MaxSize,   \* trees that honest proofs are made for
  MaxForged  \* trees that forged proofs are made for

Counted(n) == [i \in 1 .. n |-> i]

(* The logs of m entries that differ from Counted(m) at any places. *)
Variants(m) == {l \in [1 .. m -> 0 .. m] : \A i \in 1 .. m : l[i] \in {0, i}}

(* The nodes of a tree. *)
Nodes(hashes) ==
  LET below[lo, hi \in 1 .. Len(hashes)] ==
        {Subtree(hashes, lo, hi)}
          \cup IF lo = hi THEN {} ELSE below[lo, Split(lo, hi) - 1] \cup below[Split(lo, hi), hi]
  IN below[1, Len(hashes)]

ProofsOf(nodes, n) == UNION {[1 .. k -> nodes] : k \in 0 .. n}

(* Honest proofs that are refused. *)
RefusedProofs ==
  {<<m, n>> \in (1 .. MaxSize) \X (1 .. MaxSize) : m <= n /\
     LET all == Leaves(Counted(n)) IN
       ~ /\ VerifyConsistency(m, n, MTH(SubSeq(all, 1, m)), MTH(all), ConsistencyPath(m, all))
         /\ VerifyInclusion(m - 1, n, all[m], InclusionPath(m - 1, all), MTH(all))}

(* Proofs of inclusion accepted for another leaf, or not the honest one. *)
ForgedInclusion ==
  {<<n, i, leaf>> \in (1 .. MaxForged) \X (0 .. MaxForged) \X (0 .. MaxForged) :
     LET all == Leaves(Counted(n))  root == MTH(all)  due == InclusionPath(i, all) IN
       \E proof \in ProofsOf(Nodes(all) \cup {LeafHash(0)}, 3) :
         VerifyInclusion(i, n, LeafHash(leaf), proof, root) /\ ~ (leaf = i + 1 /\ proof = due)}

(* Proofs of consistency accepted for a log that is no prefix, or not the  *)
(* honest one.                                                             *)
ForgedConsistency ==
  {<<n, old>> \in (1 .. MaxForged) \X UNION {Variants(m) : m \in 1 .. MaxForged} : Len(old) <= n /\
     LET all == Leaves(Counted(n))  before == Leaves(old)  root == MTH(all)  oldRoot == MTH(before)
         due == ConsistencyPath(Len(old), all)
     IN \E proof \in ProofsOf(Nodes(all) \cup Nodes(before), 4) :
          VerifyConsistency(Len(old), n, oldRoot, root, proof) /\ ~ (old = Counted(Len(old)) /\ proof = due)}

=============================================================================
