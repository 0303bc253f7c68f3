------------------------------- MODULE Merkle -------------------------------
(***************************************************************************)
(* The Merkle tree of T's log (ts/merkle.py).  A hash is a term: it has    *)
(* one preimage, and a leaf is never a node.                               *)
(***************************************************************************)
EXTENDS Naturals, Sequences, FiniteSetsExt

LeafHash(data) == <<"leaf", data>>
NodeHash(left, right) == <<"node", left, right>>
Leaves(log) == [i \in DOMAIN log |-> LeafHash(log[i])]

(* The largest power of two below n. *)
LargestPow2(n) == Max({k \in {2 ^ j : j \in 0 .. n} : k < n})

Split(lo, hi) == lo + LargestPow2(hi - lo + 1)

(* mth of hashes[lo .. hi], and of all of them. *)
Subtree(hashes, from, to) ==
  LET mth[lo \in 1 .. to, hi \in 1 .. to] ==
        IF lo = hi THEN hashes[lo] ELSE NodeHash(mth[lo, Split(lo, hi) - 1], mth[Split(lo, hi), hi])
  IN mth[from, to]

MTH(hashes) == IF hashes = <<>> THEN <<"empty">> ELSE Subtree(hashes, 1, Len(hashes))

InclusionPath(m, hashes) ==
  LET path[lo, hi \in 1 .. Len(hashes)] ==
        LET k == Split(lo, hi) IN
        IF lo = hi THEN <<>>
        ELSE IF m + 1 < k THEN Append(path[lo, k - 1], Subtree(hashes, k, hi))
        ELSE Append(path[k, hi], Subtree(hashes, lo, k - 1))
  IN path[1, Len(hashes)]

(* _subproof; the verifier has the root of hashes[1 .. m] already. *)
Subproof(m, hashes) ==
  LET path[lo, hi \in 1 .. Len(hashes)] ==
        LET k == Split(lo, hi) IN
        IF m = hi THEN IF lo = 1 THEN <<>> ELSE <<Subtree(hashes, lo, hi)>>
        ELSE IF m < k THEN Append(path[lo, k - 1], Subtree(hashes, k, hi))
        ELSE Append(path[k, hi], Subtree(hashes, lo, k - 1))
  IN path[1, Len(hashes)]

ConsistencyPath(m, hashes) == IF m \in {0, Len(hashes)} THEN <<>> ELSE Subproof(m, hashes)

-----------------------------------------------------------------------------
(* A verifier walks up from node fn of a level whose last node is sn.      *)

(* How often n can be halved. *)
Halvings(n) == Max({j \in 0 .. n : n % 2 ^ j = 0})

(* The loop that shifts while the node is a left child at the edge. *)
Raise(fn, sn) == IF fn = 0 THEN <<fn, sn>> ELSE <<fn \div 2 ^ Halvings(fn), sn \div 2 ^ Halvings(fn)>>

Joined(v, fromLeft, fn, sn, c) ==
  IF ~ v.ok \/ v.sn = 0 THEN [v EXCEPT !.ok = FALSE]
  ELSE [ ok |-> TRUE, fn |-> fn \div 2, sn |-> sn \div 2,
         older |-> IF fromLeft THEN NodeHash(c, v.older) ELSE v.older,
         newer |-> IF fromLeft THEN NodeHash(c, v.newer) ELSE NodeHash(v.newer, c) ]

(* Mutant: the last node of a level is joined like any other. *)
ClimbBlindly(v, c) == Joined(v, v.fn % 2 = 1, v.fn, v.sn, c)

(* One element of a proof: a left sibling is in both trees, a right one    *)
(* only in the newer.                                                      *)
Climb(v, c) ==
  LET fromLeft == v.fn % 2 = 1 \/ v.fn = v.sn
      at == IF fromLeft /\ v.fn % 2 = 0 THEN Raise(v.fn, v.sn) ELSE <<v.fn, v.sn>>
  IN Joined(v, fromLeft, at[1], at[2], c)

Climbed(fn, sn, hash, proof) ==
  LET after[n \in 0 .. Len(proof)] ==
        IF n = 0 THEN [fn |-> fn, sn |-> sn, older |-> hash, newer |-> hash, ok |-> TRUE]
        ELSE Climb(after[n - 1], proof[n])
  IN after[Len(proof)]

VerifyInclusion(index, size, leaf, proof, root) ==
  /\ index < size
  /\ LET end == Climbed(index, size - 1, leaf, proof)
     IN end.ok /\ end.sn = 0 /\ end.newer = root

(* The first node of the proof: the subtree that `first' leaves fill. *)
Filled(fn, sn) == <<fn \div 2 ^ Halvings(fn + 1), sn \div 2 ^ Halvings(fn + 1)>>

IsPow2(n) == n \in {2 ^ j : j \in 0 .. n}

VerifyConsistency(first, second, firstRoot, secondRoot, proof) ==
  IF first > second THEN FALSE
  ELSE IF first = second THEN firstRoot = secondRoot /\ proof = <<>>
  ELSE IF first = 0 THEN proof = <<>>
  ELSE /\ proof # <<>>
       /\ LET path == IF IsPow2(first) THEN <<firstRoot>> \o proof ELSE proof
              start == Filled(first - 1, second - 1)
              end == Climbed(start[1], start[2], path[1], Tail(path))
          IN end.ok /\ end.sn = 0 /\ end.older = firstRoot /\ end.newer = secondRoot

=============================================================================
