--------------------------- MODULE StreamingGate ---------------------------
(***************************************************************************)
(* The verifier of a streamed answer (enforce/streaming_gate.py) as a      *)
(* function of the calls made on it.  A digest is the sequence of what was *)
(* hashed: h_0 is the request hash and the nonce joined, h_i adds the      *)
(* index and the chunk to h_(i-1).                                         *)
(***************************************************************************)
EXTENDS Naturals, Sequences

CONSTANTS
  MaxIndex,  \* 0xFFFFFFFF, the last index four bytes can hold
  NULL

(* __init__ *)
Opened(root, requestHash, nonce) ==
  [root |-> root, chain |-> <<requestHash \o nonce>>, next |-> 1, state |-> "open"]

Abort(g) == [g EXCEPT !.state = "failed"]
Digest(g, index, chunk) == Append(g.chain, <<index, chunk>>)

(* Mutant: a chunk that does not fit is refused and the stream goes on. *)
FeedForgiving(g, index, chunk, expected) ==
  IF g.state # "open" \/ index # g.next \/ (expected # NULL /\ expected # Digest(g, index, chunk)) THEN g
  ELSE [g EXCEPT !.chain = Digest(g, index, chunk), !.next = index + 1]

(* feed_chunk: a refusal is for good. *)
Feed(g, index, chunk, expected) ==
  IF g.state # "open" THEN g
  ELSE IF \/ index \notin 1 .. MaxIndex \/ index # g.next
          \/ expected # NULL /\ expected # Digest(g, index, chunk) THEN Abort(g)
  ELSE [g EXCEPT !.chain = Digest(g, index, chunk), !.next = index + 1]

Finalize(g, final) ==
  IF g.state # "open" THEN g
  ELSE IF final = g.root /\ g.chain = final THEN [g EXCEPT !.state = "finalized"]
  ELSE Abort(g)

(* A sequence of calls, in any order. *)
Call(g, c) == IF c.op = "feed" THEN Feed(g, c.index, c.chunk, c.expected) ELSE Finalize(g, c.final)
Stream(g, calls) ==
  LET after[n \in 0 .. Len(calls)] == IF n = 0 THEN g ELSE Call(after[n - 1], calls[n])
  IN after[Len(calls)]

=============================================================================
