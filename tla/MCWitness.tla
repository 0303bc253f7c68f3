----------------------------- MODULE MCWitness -----------------------------
EXTENDS Witness, MerkleChecks

CONSTANTS
  Entry,   \* what may be in a log
  MaxTree  \* entries of the largest log that T shows

(* T forks after the first entry, or after the second. *)
ShownLogs ==
  LET First == CHOOSE e \in Entry : TRUE
  IN {l \in UNION {[1 .. n -> Entry] : n \in 1 .. MaxTree} : l[1] = First}
TreeRoot(l) == MTH(Leaves(l))
TreePath(m, l) == ConsistencyPath(m, Leaves(l))

(* Any honest proof about any log, given for another. *)
Given == {TreePath(m, l) : m \in 1 .. MaxTree - 1, l \in {k \in ShownLogs : Len(k) > 1}}

(* The verifiers accept the honest proof for a log that extends the other, *)
(* or for the leaf that is there, and no other proof for any other, for    *)
(* every size up to five and every proof put together from nodes of the    *)
(* trees; and they accept every honest proof up to size nine.  A fact      *)
(* about constants, read off the first state (merkle.py:38-116).           *)
ProofsExact ==
  Init /\ ~ honest =>
    RefusedProofs = {} /\ ForgedInclusion = {} /\ ForgedConsistency = {}

=============================================================================
