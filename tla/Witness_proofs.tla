--------------------------- MODULE Witness_proofs ---------------------------
(***************************************************************************)
(* For all logs, every T and every bound: what W countersigns is one       *)
(* history, what U holds is one as far as it has no gap or W was not put   *)
(* back, and nobody is accused while T is honest and W intact.             *)
(*                                                                         *)
(* U never sees W's store, so what it holds is tied together by the        *)
(* receipts themselves: each names the one before it, whose log it extends *)
(* (Linked), and a run of receipts without a gap is a chain of such steps  *)
(* (HeldRuns).  Of an honest T every head is a prefix of its log, and none *)
(* that W has seen is longer than the one U waits for (Straight).          *)
(***************************************************************************)
EXTENDS Witness, SequenceTheorems, TLAPS

Asked == waiting \cup (IF call = NULL THEN {} ELSE {call.head})
Countersigned == {ledger[i] : i \in DOMAIN ledger}

TypeOK ==
  /\ honest \in BOOLEAN
  /\ log \in Logs
  /\ ledger \in Seq(Countersigned)
  /\ waiting \subseteq Logs
  /\ call # NULL => call = [head |-> call.head, answer |-> call.answer] /\ call.head \in Logs
  /\ restores \in Nat

Linked(r) ==
  /\ r.sequence \in Nat \ {0} /\ r.head \in Logs
  /\ r.sequence > 1 =>
       r.previous.sequence = r.sequence - 1 /\ Prefix(r.previous.head, r.head)

OneChain ==
  \A i \in 1 .. Len(ledger) :
    /\ ledger[i].sequence = i /\ Linked(ledger[i])
    /\ i > 1 => ledger[i].previous = ledger[i - 1]

History ==
  \A i, j \in 1 .. Len(ledger) : i <= j => Prefix(ledger[i].head, ledger[j].head)

Answered ==
  call # NULL /\ call.answer # NULL =>
    Linked(call.answer) /\ call.answer.head = call.head

HeldChain ==
  /\ \A r \in held : Linked(r)
  /\ held # {} => \E r \in held : \A q \in held : q.sequence <= r.sequence
  /\ \A q, r \in held :
       /\ q.sequence = r.sequence => q = r
       /\ r.sequence = q.sequence + 1 => r.previous = q

Unbroken(q, r) ==
  \A s \in held : q.sequence < s.sequence /\ s.sequence <= r.sequence =>
    \E p \in held : p.sequence = s.sequence - 1

HeldRuns ==
  \A q, r \in held : q.sequence <= r.sequence /\ Unbroken(q, r) => Prefix(q.head, r.head)

NeverPutBack ==
  restores = 0 =>
    /\ \A r \in held : \E i \in 1 .. Len(ledger) : r = ledger[i]
    /\ call # NULL /\ call.answer # NULL =>
         \E i \in 1 .. Len(ledger) :
           call.answer = ledger[i] /\ \A r \in held : r.sequence <= i

Straight ==
  honest =>
    /\ \A h \in Asked : Prefix(h, log)
    /\ \A i \in 1 .. Len(ledger) : Prefix(ledger[i].head, log)
    /\ call # NULL =>
         /\ \A h \in waiting : Len(h) <= Len(call.head)
         /\ \A i \in 1 .. Len(ledger) : Len(ledger[i].head) <= Len(call.head)

WitnessInv ==
  /\ TypeOK /\ OneChain /\ History /\ Answered /\ HeldChain /\ HeldRuns
  /\ NeverPutBack /\ Straight /\ NoFalseRefusal

-----------------------------------------------------------------------------
(* Logs. *)

LEMMA LogFacts ==
  ASSUME NEW l \in Logs
  PROVE  /\ l \in Seq(UNION {{k[i] : i \in DOMAIN k} : k \in Logs})
         /\ Len(l) \in Nat /\ DOMAIN l = 1 .. Len(l)
  BY WitnessAssumption DEF WitnessAssumption

LEMMA PrefixReflexive ==
  ASSUME NEW a \in Logs
  PROVE  Prefix(a, a)
  BY LogFacts DEF Prefix

LEMMA PrefixTransitive ==
  ASSUME NEW a \in Logs, NEW b \in Logs, NEW c \in Logs, Prefix(a, b), Prefix(b, c)
  PROVE  Prefix(a, c)
  BY LogFacts DEF Prefix

LEMMA PrefixesOfOne ==
  ASSUME NEW a \in Logs, NEW b \in Logs, NEW c \in Logs, Prefix(a, c), Prefix(b, c),
         Len(a) <= Len(b)
  PROVE  Prefix(a, b)
  BY LogFacts DEF Prefix

LEMMA PrefixSameLength ==
  ASSUME NEW a \in Logs, NEW b \in Logs, Prefix(a, b), Len(a) = Len(b)
  PROVE  a = b
  <1> DEFINE S == UNION {{k[i] : i \in DOMAIN k} : k \in Logs}
  <1>1. a \in Seq(S) /\ b \in Seq(S)
    BY LogFacts
  <1>2. \A i \in 1 .. Len(a) : a[i] = b[i]
    BY DEF Prefix
  <1> HIDE DEF S
  <1> QED BY <1>1, <1>2, SeqEqual

LEMMA FunctionIsSeq ==
  ASSUME NEW S, NEW n \in Nat, NEW s \in [1 .. n -> S]
  PROVE  s \in Seq(S)
  <1>1. [i \in 1 .. n |-> s[i]] \in Seq(S)
    OBVIOUS
  <1> QED BY <1>1

(* The ledger is a sequence, whatever its receipts look like. *)
LEMMA AppendLedger ==
  ASSUME TypeOK, NEW r, ledger' = Append(ledger, r)
  PROVE  /\ ledger' \in Seq(Countersigned)'
         /\ Len(ledger) \in Nat /\ Len(ledger') = Len(ledger) + 1
         /\ ledger'[Len(ledger) + 1] = r
         /\ \A i \in 1 .. Len(ledger) : ledger'[i] = ledger[i]
  <1> DEFINE S == Countersigned \cup {r}
  <1>1. ledger \in Seq(S) /\ r \in S /\ ledger \in Seq(Countersigned)
    <2>1. ledger \in Seq(Countersigned)
      BY DEF TypeOK
    <2> QED BY <2>1, SeqMonotonic
  <1> HIDE DEF S
  <1>2. /\ Append(ledger, r) \in Seq(S)
        /\ Len(Append(ledger, r)) = Len(ledger) + 1
        /\ \A i \in 1 .. Len(ledger) : Append(ledger, r)[i] = ledger[i]
        /\ Append(ledger, r)[Len(ledger) + 1] = r
    BY <1>1, AppendProperties
  <1>3. Len(ledger) \in Nat
    BY <1>1, LenProperties
  <1>4. ledger' \in Seq(Countersigned')
    <2>1. ledger' \in Seq(S)
      BY <1>2
    <2>2. DOMAIN ledger' = 1 .. Len(ledger') /\ Len(ledger') \in Nat
          /\ ledger' \in [1 .. Len(ledger') -> S]
      BY <2>1, LenProperties
    <2>3. \A i \in 1 .. Len(ledger') : ledger'[i] \in Countersigned'
      BY <2>2 DEF Countersigned
    <2>4. ledger' \in [1 .. Len(ledger') -> Countersigned']
      BY <2>2, <2>3
    <2> QED BY <2>2, <2>4, FunctionIsSeq
  <1> QED BY <1>2, <1>3, <1>4

LEMMA SubLedger ==
  ASSUME TypeOK, NEW n \in Nat, n < Len(ledger), ledger' = SubSeq(ledger, 1, n)
  PROVE  /\ ledger' \in Seq(Countersigned)' /\ Len(ledger') = n
         /\ \A i \in 1 .. n : ledger'[i] = ledger[i]
  <1>1. ledger \in Seq(Countersigned) /\ Len(ledger) \in Nat
    BY LenProperties DEF TypeOK
  <1>0. \A i \in 1 .. n : ledger[i] \in Countersigned
    BY <1>1, ElementOfSeq
  <1>2. /\ SubSeq(ledger, 1, n) \in Seq(Countersigned) /\ Len(SubSeq(ledger, 1, n)) = n
        /\ \A i \in 1 .. n : SubSeq(ledger, 1, n)[i] = ledger[i]
    BY <1>0, SubSeqProperties
  <1>3. ledger' \in Seq(Countersigned)
    BY <1>2
  <1>4. DOMAIN ledger' = 1 .. Len(ledger') /\ Len(ledger') \in Nat
        /\ ledger' \in [1 .. Len(ledger') -> Countersigned]
    BY <1>3, LenProperties
  <1>5. \A i \in 1 .. Len(ledger') : ledger'[i] \in Countersigned'
    BY <1>4 DEF Countersigned
  <1>6. ledger' \in [1 .. Len(ledger') -> Countersigned']
    BY <1>4, <1>5
  <1>7. ledger' \in Seq(Countersigned')
    BY <1>4, <1>6, FunctionIsSeq
  <1> QED BY <1>2, <1>7

LEMMA LedgerFacts ==
  ASSUME TypeOK
  PROVE  /\ Len(ledger) \in Nat /\ DOMAIN ledger = 1 .. Len(ledger)
         /\ ledger # <<>> => Len(ledger) \in 1 .. Len(ledger)
         /\ ledger = <<>> => Len(ledger) = 0
  <1>1. ledger \in Seq(Countersigned)
    BY DEF TypeOK
  <1> QED BY <1>1, LenProperties, EmptySeq

-----------------------------------------------------------------------------
(* What a step does to U's call. *)

LEMMA AnswerFacts ==
  ASSUME TypeOK, NEW head, NEW receipt, Answer(head, receipt)
  PROVE  /\ refused' = refused
         /\ \/ call' = call
            \/ /\ call # NULL /\ call.head = head
               /\ call' = [head |-> head, answer |-> receipt]
  BY DEF TypeOK, Answer, Awaited

LEMMA RejectFacts ==
  ASSUME NEW head, Reject(head)
  PROVE  \/ call' = call /\ refused' = refused
         \/ call # NULL /\ call.head = head /\ call' = NULL /\ refused' = TRUE
  BY DEF Reject, Awaited

LEMMA NewestFacts ==
  ASSUME HeldChain, held # {}
  PROVE  Newest \in held /\ \A q \in held : q.sequence <= Newest.sequence
  BY DEF HeldChain, Newest

LEMMA LatestFacts ==
  ASSUME TypeOK, OneChain, ledger # <<>>
  PROVE  /\ Len(ledger) \in 1 .. Len(ledger) /\ Latest = ledger[Len(ledger)]
         /\ Latest.sequence = Len(ledger) /\ Linked(Latest) /\ Latest.head \in Logs
  BY LedgerFacts DEF OneChain, Latest, Linked

-----------------------------------------------------------------------------
(* One lemma for each action. *)

LEMMA InitEstablishes == Init => WitnessInv
  <1> SUFFICES ASSUME Init PROVE WitnessInv
    OBVIOUS
  <1>1. ledger \in Seq(Countersigned) /\ Len(ledger) = 0
    BY EmptySeq DEF Init
  <1>2. TypeOK
    BY <1>1 DEF Init, TypeOK
  <1>3. OneChain /\ History
    BY <1>1 DEF Init, OneChain, History
  <1>4. Answered /\ HeldChain /\ HeldRuns /\ NoFalseRefusal
    BY DEF Init, Answered, HeldChain, HeldRuns, NoFalseRefusal
  <1>5. NeverPutBack /\ Straight
    BY <1>1 DEF Init, NeverPutBack, Straight, Asked
  <1> QED BY <1>2, <1>3, <1>4, <1>5 DEF WitnessInv

LEMMA GrowKeeps ==
  ASSUME WitnessInv, Grow
  PROVE  WitnessInv'
  <1>1. /\ log' \in Logs /\ Prefix(log, log') /\ log \in Logs
        /\ UNCHANGED <<honest, ledger, waiting, call, held, refused, restores>>
    BY DEF Grow, WitnessInv, TypeOK
  <1>2. TypeOK'
    BY <1>1 DEF WitnessInv, TypeOK, Countersigned
  <1>3. Straight'
    <2> SUFFICES ASSUME honest PROVE Straight'
      BY <1>1 DEF Straight
    <2>1. \A h \in Asked : h \in Logs /\ Prefix(h, log)
      BY DEF WitnessInv, TypeOK, Straight, Asked
    <2>2. \A h \in Asked : Prefix(h, log')
      BY <1>1, <2>1, PrefixTransitive
    <2>3. \A i \in 1 .. Len(ledger) : ledger[i].head \in Logs /\ Prefix(ledger[i].head, log)
      BY DEF WitnessInv, OneChain, Linked, Straight
    <2>4. \A i \in 1 .. Len(ledger) : Prefix(ledger[i].head, log')
      BY <1>1, <2>3, PrefixTransitive
    <2> QED BY <1>1, <2>2, <2>4 DEF WitnessInv, Straight, Asked
  <1>4. (OneChain /\ History /\ Answered /\ HeldChain /\ HeldRuns /\ NeverPutBack /\ NoFalseRefusal)'
    BY <1>1 DEF WitnessInv, OneChain, History, Answered, HeldChain, HeldRuns, Unbroken,
                NeverPutBack, NoFalseRefusal
  <1> QED BY <1>2, <1>3, <1>4 DEF WitnessInv

(* U's next call: every head W has seen of an honest T is a prefix of it. *)
LEMMA AskKeeps ==
  ASSUME WitnessInv, Ask
  PROVE  WitnessInv'
  <1>1. PICK head \in Shown :
          /\ waiting' = waiting \cup {head}
          /\ call' = [head |-> head, answer |-> NULL]
    BY DEF Ask
  <1>2. call = NULL /\ UNCHANGED <<honest, log, ledger, held, refused, restores>>
    BY DEF Ask
  <1>3. head \in Logs /\ (honest => head = log)
    BY DEF Shown, WitnessInv, TypeOK
  <1>4. TypeOK'
    BY <1>1, <1>2, <1>3 DEF WitnessInv, TypeOK, Countersigned
  <1>5. (Answered /\ NeverPutBack)'
    BY <1>1, <1>2 DEF WitnessInv, Answered, NeverPutBack
  <1>6. Straight'
    <2> SUFFICES ASSUME honest PROVE Straight'
      BY <1>2 DEF Straight
    <2>1. head = log /\ Prefix(log, log)
      BY <1>3, PrefixReflexive
    <2>2. \A h \in waiting' : Prefix(h, log)
      BY <1>1, <2>1 DEF WitnessInv, Straight, Asked
    <2>3. \A h \in waiting' : Len(h) <= Len(head)
      BY <2>1, <2>2 DEF Prefix
    <2>4. \A i \in 1 .. Len(ledger) : Prefix(ledger[i].head, log)
      BY DEF WitnessInv, Straight
    <2>5. \A i \in 1 .. Len(ledger) : Len(ledger[i].head) <= Len(head)
      BY <2>1, <2>4 DEF Prefix
    <2>6. call'.head = head
      BY <1>1
    <2> QED BY <1>2, <2>1, <2>2, <2>3, <2>4, <2>5, <2>6 DEF Straight, Asked
  <1>7. (OneChain /\ History /\ HeldChain /\ HeldRuns /\ NoFalseRefusal)'
    BY <1>2 DEF WitnessInv, OneChain, History, HeldChain, HeldRuns, Unbroken, NoFalseRefusal
  <1> QED BY <1>4, <1>5, <1>6, <1>7 DEF WitnessInv

(* Calls that end without an answer. *)
LEMMA DropKeeps ==
  ASSUME WitnessInv, waiting' \subseteq waiting, call' = call \/ call' = NULL,
         UNCHANGED <<honest, log, ledger, held, restores>>, NoFalseRefusal'
  PROVE  WitnessInv'
  <1>1. TypeOK'
    BY DEF WitnessInv, TypeOK, Countersigned
  <1>2. (Answered /\ NeverPutBack)'
    BY DEF WitnessInv, Answered, NeverPutBack
  <1>3. Straight'
    BY DEF WitnessInv, Straight, Asked
  <1>4. (OneChain /\ History /\ HeldChain /\ HeldRuns)'
    BY DEF WitnessInv, OneChain, History, HeldChain, HeldRuns, Unbroken
  <1> QED BY <1>1, <1>2, <1>3, <1>4 DEF WitnessInv

(* W answers a head with a receipt of its ledger about it. *)
LEMMA AnsweredKeeps ==
  ASSUME WitnessInv, NEW head \in waiting, NEW i \in 1 .. Len(ledger)',
         Answer(head, ledger[i]'), waiting' = waiting \ {head},
         UNCHANGED <<honest, log, held, restores>>,
         ledger' \in Seq(Countersigned'), OneChain', History',
         Linked(ledger[i]'), ledger[i]'.head = head, Len(ledger)' \in Nat,
         restores = 0 =>
           /\ \A k \in 1 .. Len(ledger) : k \in 1 .. Len(ledger)' /\ ledger[k]' = ledger[k]
           /\ \A r \in held : r.sequence <= i,
         \A k \in 1 .. Len(ledger)' :
           ledger[k]'.head = head \/ \E j \in 1 .. Len(ledger) : ledger[k]' = ledger[j],
         Len(ledger) <= Len(ledger)'
  PROVE  WitnessInv'
  <1>1. refused' = refused /\ head \in Logs
    BY AnswerFacts DEF WitnessInv, TypeOK
  <1>2. \/ call' = call
        \/ call # NULL /\ call.head = head /\ call' = [head |-> head, answer |-> ledger[i]']
    BY AnswerFacts DEF WitnessInv
  <1>3. TypeOK'
    BY <1>1, <1>2 DEF WitnessInv, TypeOK
  <1>4. Answered'
    BY <1>2 DEF WitnessInv, Answered
  <1>5. NeverPutBack'
    BY <1>2 DEF WitnessInv, NeverPutBack
  <1>6. Straight'
    <2> SUFFICES ASSUME honest PROVE Straight'
      BY DEF Straight
    <2>1. (call' # NULL => call # NULL /\ call'.head = call.head) \/ call' = NULL
      BY <1>2
    <2>2. Prefix(head, log) /\ (call # NULL => Len(head) <= Len(call.head))
      BY DEF WitnessInv, Straight, Asked
    <2>3. \A h \in Asked' : Prefix(h, log)
      BY <2>1 DEF WitnessInv, Straight, Asked
    <2>4. \A k \in 1 .. Len(ledger)' : Prefix(ledger[k]'.head, log)
      BY <2>2 DEF WitnessInv, Straight
    <2>5. call # NULL => \A k \in 1 .. Len(ledger)' : Len(ledger[k]'.head) <= Len(call.head)
      BY <2>2 DEF WitnessInv, Straight
    <2>6. call # NULL => \A h \in waiting' : Len(h) <= Len(call.head)
      BY DEF WitnessInv, Straight
    <2>7. call' # NULL =>
            /\ \A h \in waiting' : Len(h) <= Len(call'.head)
            /\ \A k \in 1 .. Len(ledger') : Len(ledger'[k].head) <= Len(call'.head)
      BY <2>1, <2>5, <2>6
    <2>8. (\A h \in Asked : Prefix(h, log))'
      BY <2>3 DEF Prefix
    <2>9. (\A k \in 1 .. Len(ledger) : Prefix(ledger[k].head, log))'
      BY <2>4 DEF Prefix
    <2> QED BY <2>7, <2>8, <2>9 DEF Straight
  <1>7. (HeldChain /\ HeldRuns)'
    BY DEF WitnessInv, HeldChain, HeldRuns, Unbroken
  <1>8. NoFalseRefusal'
    BY <1>1, LedgerFacts, WitnessAssumption DEF WitnessInv, NoFalseRefusal, WitnessAssumption
  <1> QED BY <1>3, <1>4, <1>5, <1>6, <1>7, <1>8 DEF WitnessInv

LEMMA RepeatKeeps ==
  ASSUME WitnessInv, NEW head \in waiting, waiting' = waiting \ {head}, Repeat(head),
         UNCHANGED <<honest, log, held, restores>>
  PROVE  WitnessInv'
  <1> DEFINE n == Len(ledger)
  <1>1. ledger # <<>> /\ Answer(head, Latest) /\ UNCHANGED ledger
    BY DEF Repeat
  <1>2. n \in 1 .. n /\ n \in Nat /\ Latest = ledger[n] /\ Linked(ledger[n]) /\ Latest.head \in Logs
    BY <1>1, LatestFacts, LedgerFacts DEF WitnessInv
  <1>3. head = Latest.head
    <2>1. head \in Logs /\ Len(head) = Len(Latest.head) /\ Root(head) = Root(Latest.head)
      BY DEF WitnessInv, TypeOK, Repeat, SameRoot
    <2> QED BY <1>2, <2>1, ProofsAssumption
  <1>4. restores = 0 => \A r \in held : r.sequence <= n
    BY <1>2 DEF WitnessInv, NeverPutBack, OneChain
  <1>5. ledger' \in Seq(Countersigned') /\ OneChain' /\ History'
    BY <1>1 DEF WitnessInv, TypeOK, Countersigned, OneChain, History
  <1>6. Answer(head, ledger'[n]) /\ Linked(ledger'[n]) /\ ledger'[n].head = head
    BY <1>1, <1>2, <1>3
  <1> HIDE DEF n
  <1>7. /\ Len(ledger)' \in Nat /\ n \in 1 .. Len(ledger)' /\ Len(ledger) <= Len(ledger)'
        /\ \A k \in 1 .. Len(ledger) : k \in 1 .. Len(ledger)' /\ ledger[k]' = ledger[k]
        /\ \A k \in 1 .. Len(ledger)' : \E j \in 1 .. Len(ledger) : ledger[k]' = ledger[j]
    BY <1>1, <1>2 DEF n
  <1> QED BY <1>4, <1>5, <1>6, <1>7, AnsweredKeeps

(* A receipt is added only for a head that extends the latest one, and so *)
(* all before it.                                                          *)
LEMMA CountersignKeeps ==
  ASSUME WitnessInv, NEW head \in waiting, waiting' = waiting \ {head}, Countersign(head),
         UNCHANGED <<honest, log, held, restores>>
  PROVE  WitnessInv'
  <1> DEFINE n == Len(ledger)
             r == Receipt(head)
  <1>1. /\ ledger' = Append(ledger, r) /\ Answer(head, r) /\ head \in Logs
        /\ ledger # <<>> => Larger(head) /\ \E proof \in Proof(head) : Extends(head, proof)
    BY DEF Countersign, WitnessInv, TypeOK
  <1>2. /\ n \in Nat /\ Len(ledger') = n + 1 /\ ledger'[n + 1] = r
        /\ \A i \in 1 .. n : ledger'[i] = ledger[i]
        /\ ledger' \in Seq(Countersigned')
    BY <1>1, AppendLedger DEF WitnessInv
  <1>3. r.sequence = n + 1 /\ r.head = head /\ (n > 0 => r.previous = ledger[n])
    BY <1>2, LedgerFacts DEF Receipt, Latest, WitnessInv
  <1>4. n > 0 => Prefix(ledger[n].head, head)
    <2> SUFFICES ASSUME n > 0 PROVE Prefix(ledger[n].head, head)
      OBVIOUS
    <2>1. ledger # <<>>
      BY LedgerFacts DEF WitnessInv
    <2>2. Latest = ledger[n] /\ Latest.head \in Logs
      BY <2>1, LatestFacts DEF WitnessInv
    <2>3. PICK proof \in Proof(head) : Extends(head, proof)
      BY <1>1, <2>1
    <2>4. Len(Latest.head) < Len(head)
      BY <1>1, <2>1, <2>2, LogFacts DEF Larger
    <2>5. CASE honest
      <3>1. Prefix(Latest.head, log) /\ Prefix(head, log) /\ log \in Logs
        BY <1>2, <2>2, <2>5 DEF WitnessInv, TypeOK, Straight, Asked
      <3> QED BY <1>1, <2>2, <2>4, <3>1, PrefixesOfOne, LogFacts
    <2>6. CASE ~ honest
      <3>1. proof \in Proofs /\ Proves(Len(Latest.head), Len(head), Root(Latest.head), Root(head), proof)
        BY <2>3, <2>6 DEF Proof, Extends
      <3> QED BY <1>1, <2>2, <2>4, <3>1, ProofsAssumption
    <2> QED BY <2>5, <2>6
  <1> HIDE DEF r, n
  <1>5. Linked(r)
    <2>1. n > 0 => ledger[n].sequence = n
      BY <1>2 DEF WitnessInv, OneChain, n
    <2> QED BY <1>1, <1>2, <1>3, <1>4, <2>1 DEF Linked
  <1>6. OneChain'
    <2> SUFFICES ASSUME NEW i \in 1 .. n + 1
                 PROVE  /\ ledger'[i].sequence = i /\ Linked(ledger'[i])
                        /\ i > 1 => ledger'[i].previous = ledger'[i - 1]
      BY <1>2 DEF OneChain, Linked, Prefix
    <2>1. CASE i \in 1 .. n
      BY <1>2, <2>1 DEF WitnessInv, OneChain, n
    <2>2. CASE i = n + 1
      BY <1>2, <1>3, <1>5, <2>2
    <2> QED BY <1>2, <2>1, <2>2
  <1>7. History'
    <2> SUFFICES ASSUME NEW i \in 1 .. n + 1, NEW j \in 1 .. n + 1, i <= j
                 PROVE  Prefix(ledger'[i].head, ledger'[j].head)
      BY <1>2 DEF History, Prefix
    <2>1. CASE j \in 1 .. n
      BY <1>2, <2>1 DEF WitnessInv, History, n
    <2>2. CASE i = n + 1 /\ j = n + 1
      BY <1>1, <1>2, <1>3, <2>2, PrefixReflexive
    <2>3. CASE i \in 1 .. n /\ j = n + 1
      <3>1. Prefix(ledger[i].head, ledger[n].head) /\ n > 0 /\ n \in 1 .. n
        BY <1>2, <2>3 DEF WitnessInv, History, n
      <3>2. ledger[i].head \in Logs /\ ledger[n].head \in Logs
        BY <2>3, <3>1 DEF WitnessInv, OneChain, Linked, n
      <3>3. Prefix(ledger[i].head, head)
        BY <1>1, <1>4, <3>1, <3>2, PrefixTransitive
      <3> QED BY <1>2, <1>3, <2>3, <3>3
    <2> QED BY <1>2, <2>1, <2>2, <2>3
  <1>8. restores = 0 => \A x \in held : x.sequence <= n + 1
    BY <1>2 DEF WitnessInv, NeverPutBack, OneChain, n
  <1>9. /\ Len(ledger)' \in Nat /\ n + 1 \in 1 .. Len(ledger)' /\ Len(ledger) <= Len(ledger)'
        /\ \A k \in 1 .. Len(ledger) : k \in 1 .. Len(ledger)' /\ ledger[k]' = ledger[k]
        /\ \A k \in 1 .. Len(ledger)' :
             ledger[k]'.head = head \/ \E j \in 1 .. Len(ledger) : ledger[k]' = ledger[j]
    BY <1>2, <1>3 DEF n
  <1>10. Answer(head, ledger'[n + 1]) /\ Linked(ledger'[n + 1]) /\ ledger'[n + 1].head = head
    BY <1>1, <1>2, <1>3, <1>5
  <1> QED BY <1>2, <1>6, <1>7, <1>8, <1>9, <1>10, AnsweredKeeps

(* What an honest T shows never looks like a fork or a rollback. *)
LEMMA RefuseKeeps ==
  ASSUME WitnessInv, NEW head \in waiting, waiting' = waiting \ {head}, Refuse(head),
         UNCHANGED <<honest, log, held, restores>>
  PROVE  WitnessInv'
  <1>1. ledger # <<>> /\ UNCHANGED ledger /\ Reject(head)
    BY DEF Refuse
  <1>2. \/ call' = call /\ refused' = refused
        \/ call # NULL /\ call.head = head /\ call' = NULL
    BY <1>1, RejectFacts
  <1>3. NoFalseRefusal'
    <2> SUFFICES ASSUME refused', ~ refused, honest, ~ restores > 0, ~ Len(ledger) >= MaxLogEntries
                 PROVE  FALSE
      BY <1>1 DEF WitnessInv, NoFalseRefusal
    <2>1. call # NULL /\ call.head = head
      BY <1>1, RejectFacts
    <2>2. /\ Latest = ledger[Len(ledger)] /\ Len(ledger) \in 1 .. Len(ledger)
          /\ Latest.head \in Logs /\ head \in Logs /\ log \in Logs
      BY <1>1, LatestFacts DEF WitnessInv, TypeOK
    <2>3. Prefix(Latest.head, log) /\ Prefix(head, log) /\ Len(Latest.head) <= Len(head)
      BY <2>1, <2>2 DEF WitnessInv, Straight, Asked
    <2>4. Prefix(Latest.head, head)
      BY <2>2, <2>3, PrefixesOfOne
    <2>5. Len(head) \in Nat /\ Len(Latest.head) \in Nat
      BY <2>2, LogFacts
    <2>6. CASE Len(head) < Len(Latest.head)
      BY <2>3, <2>5, <2>6
    <2>7. CASE Len(head) = Len(Latest.head) /\ ~ SameRoot(head)
      BY <2>2, <2>4, <2>7, PrefixSameLength DEF SameRoot
    <2>8. CASE Larger(head) /\ \E proof \in Proof(head) : ~ Extends(head, proof)
      <3>1. ~ Extends(head, Path(Len(Latest.head), head))
        BY <2>8 DEF Proof
      <3>2. Len(Latest.head) < Len(head)
        BY <2>5, <2>8 DEF Larger
      <3> QED BY <2>2, <2>4, <3>1, <3>2, ProofsAssumption DEF Extends
    <2>9. CASE Larger(head) /\ Len(ledger) >= MaxLogEntries
      BY <2>9
    <2> QED BY <2>6, <2>7, <2>8, <2>9 DEF Refuse
  <1> QED BY <1>1, <1>2, <1>3, DropKeeps

LEMMA HandleKeeps ==
  ASSUME WitnessInv, NEW head \in waiting, Handle(head)
  PROVE  WitnessInv'
  BY RepeatKeeps, CountersignKeeps, RefuseKeeps DEF Handle

(* A receipt that continues what U holds joins it at its end. *)
LEMMA Joins ==
  ASSUME WitnessInv, NEW r, Linked(r), Acceptable(r), held' = held \cup {r}
  PROVE  HeldChain' /\ HeldRuns'
  <1>1. /\ \A q \in held : Linked(q) /\ q.sequence \in Nat
        /\ r.sequence \in Nat /\ r.head \in Logs
    BY DEF WitnessInv, HeldChain, Linked
  <1>2. CASE r \in held
    <2>1. held' = held
      BY <1>2
    <2> QED BY <2>1 DEF WitnessInv, HeldChain, HeldRuns, Unbroken
  <1>3. CASE held = {}
    <2>1. held' = {r}
      BY <1>3
    <2>2. Prefix(r.head, r.head)
      BY <1>1, PrefixReflexive
    <2>3. HeldChain'
      BY <1>1, <2>1 DEF HeldChain, Linked, Prefix
    <2>4. HeldRuns'
      BY <2>1, <2>2 DEF HeldRuns, Prefix
    <2> QED BY <2>3, <2>4
  <1>4. CASE held # {} /\ r \notin held
    <2>1. Newest \in held /\ \A q \in held : q.sequence <= Newest.sequence
      BY <1>4, NewestFacts DEF WitnessInv
    <2>2. /\ r.sequence > Newest.sequence
          /\ r.sequence = Newest.sequence + 1 => r.previous = Newest
      BY <1>4, <2>1 DEF Acceptable
    <2> DEFINE new == Newest
    <2>3. new \in held /\ new.sequence \in Nat
      BY <1>1, <2>1
    <2>4. \A q \in held : q.sequence <= new.sequence /\ q.sequence < r.sequence
      BY <1>1, <2>1, <2>2, <2>3
    <2>5. r.sequence = new.sequence + 1 => r.previous = new
      BY <2>2
    <2> HIDE DEF new
    <2>6. \A q \in held : r.sequence = q.sequence + 1 => q = new
      BY <1>1, <2>3, <2>4 DEF WitnessInv, HeldChain
    <2>7. (\A q \in held : Linked(q))'
      BY <1>1 DEF Linked, Prefix
    <2>8. \A q, s \in held' :
            /\ q.sequence = s.sequence => q = s
            /\ s.sequence = q.sequence + 1 => s.previous = q
      BY <1>1, <2>4, <2>5, <2>6 DEF WitnessInv, HeldChain
    <2>9. \E s \in held' : \A q \in held' : q.sequence <= s.sequence
      BY <1>1, <2>4
    <2>10. HeldChain'
      BY <2>7, <2>8, <2>9 DEF HeldChain
    <2>11. HeldRuns'
      <3> SUFFICES ASSUME NEW q \in held', NEW s \in held', q.sequence <= s.sequence, Unbroken(q, s)'
                   PROVE  Prefix(q.head, s.head)
        BY DEF HeldRuns, Prefix
      <3>1. CASE s \in held
        <4>1. q \in held
          BY <1>1, <2>4, <3>1
        <4>2. Unbroken(q, s)
          BY <1>1, <2>4, <3>1, <4>1 DEF Unbroken
        <4> QED BY <3>1, <4>1, <4>2 DEF WitnessInv, HeldRuns
      <3>2. CASE s = r /\ q = r
        BY <1>1, <3>2, PrefixReflexive
      <3>3. CASE s = r /\ q \in held
        <4>1. q.sequence < r.sequence
          BY <2>4, <3>3
        <4>2. \E p \in held' : p.sequence = r.sequence - 1
          BY <1>1, <3>3, <4>1 DEF Unbroken
        <4>3. r.sequence = new.sequence + 1
          BY <1>1, <2>3, <2>4, <4>2
        <4>4. r.sequence > 1 /\ r.previous = new
          BY <1>1, <2>3, <2>5, <4>3 DEF Linked
        <4>5. Unbroken(q, new)
          BY <1>1, <2>3, <2>4, <3>3 DEF Unbroken
        <4>6. Prefix(q.head, new.head)
          BY <2>3, <2>4, <3>3, <4>5 DEF WitnessInv, HeldRuns
        <4>7. Prefix(new.head, r.head)
          BY <4>4 DEF Linked
        <4> QED BY <1>1, <2>3, <3>3, <4>6, <4>7, PrefixTransitive DEF Linked
      <3> QED BY <3>1, <3>2, <3>3
    <2> QED BY <2>10, <2>11
  <1> QED BY <1>2, <1>3, <1>4

LEMMA AcceptKeeps ==
  ASSUME WitnessInv, Accept
  PROVE  WitnessInv'
  <1> DEFINE r == call.answer
  <1>1. /\ call # NULL /\ r # NULL /\ call' = NULL
        /\ UNCHANGED <<honest, log, ledger, waiting, restores>>
        /\ Linked(r) /\ r.head = call.head
    BY DEF Accept, WitnessInv, Answered
  <1>2. CASE ~ Acceptable(r)
    <2>1. refused' = TRUE /\ UNCHANGED held
      BY <1>2 DEF Accept
    <2>2. restores > 0
      <3> SUFFICES ASSUME restores = 0 PROVE FALSE
        BY DEF WitnessInv, TypeOK
      <3>1. PICK i \in 1 .. Len(ledger) : r = ledger[i] /\ \A q \in held : q.sequence <= i
        BY <1>1 DEF WitnessInv, NeverPutBack
      <3>2. held # {} /\ ~ (/\ r.sequence > Newest.sequence \/ r = Newest
                            /\ r.sequence = Newest.sequence + 1 => r.previous = Newest)
        BY <1>1, <1>2 DEF Acceptable
      <3>3. Newest \in held
        BY <3>2, NewestFacts DEF WitnessInv
      <3>4. PICK j \in 1 .. Len(ledger) : Newest = ledger[j]
        BY <3>3 DEF WitnessInv, NeverPutBack
      <3>5. r.sequence = i /\ Newest.sequence = j /\ j <= i
        BY <3>1, <3>3, <3>4 DEF WitnessInv, OneChain
      <3>6. CASE i = j
        BY <3>1, <3>2, <3>4, <3>5, <3>6
      <3>7. CASE i > j
        BY <3>1, <3>2, <3>4, <3>5, <3>7 DEF WitnessInv, OneChain
      <3> QED BY <3>5, <3>6, <3>7
    <2>3. NoFalseRefusal'
      BY <1>1, <2>2 DEF NoFalseRefusal
    <2> QED BY <1>1, <2>1, <2>3, DropKeeps
  <1>3. CASE Acceptable(r)
    <2>1. held' = held \cup {r} /\ UNCHANGED refused
      BY <1>3 DEF Accept
    <2>2. HeldChain' /\ HeldRuns'
      BY <1>1, <1>3, <2>1, Joins
    <2>3. TypeOK' /\ Answered'
      BY <1>1 DEF WitnessInv, TypeOK, Countersigned, Answered
    <2>4. OneChain' /\ History' /\ Straight' /\ NoFalseRefusal'
      BY <1>1, <2>1 DEF WitnessInv, OneChain, History, Straight, Asked, NoFalseRefusal
    <2>5. NeverPutBack'
      BY <1>1, <2>1 DEF WitnessInv, NeverPutBack
    <2> QED BY <2>2, <2>3, <2>4, <2>5 DEF WitnessInv
  <1> QED BY <1>2, <1>3

LEMMA RestoreKeeps ==
  ASSUME WitnessInv, NEW n \in 0 .. Len(ledger), Restore(n)
  PROVE  WitnessInv'
  <1>1. /\ ledger' = SubSeq(ledger, 1, n) /\ n < Len(ledger) /\ n \in Nat
        /\ restores' = restores + 1 /\ restores' > 0 /\ restores' \in Nat
        /\ UNCHANGED <<honest, log, waiting, call, held, refused>>
    BY DEF Restore, WitnessInv, TypeOK
  <1>2. /\ ledger' \in Seq(Countersigned') /\ Len(ledger') = n /\ Len(ledger) \in Nat
        /\ \A i \in 1 .. n : ledger'[i] = ledger[i] /\ i \in 1 .. Len(ledger)
    BY <1>1, SubLedger, LedgerFacts DEF WitnessInv
  <1>3. TypeOK'
    BY <1>1, <1>2 DEF WitnessInv, TypeOK
  <1>4. OneChain' /\ History'
    BY <1>1, <1>2 DEF WitnessInv, OneChain, History
  <1>5. Straight'
    BY <1>1, <1>2 DEF WitnessInv, Straight, Asked
  <1>6. Answered' /\ HeldChain' /\ HeldRuns' /\ NeverPutBack' /\ NoFalseRefusal'
    BY <1>1 DEF WitnessInv, Answered, HeldChain, HeldRuns, Unbroken, NeverPutBack, NoFalseRefusal
  <1> QED BY <1>3, <1>4, <1>5, <1>6 DEF WitnessInv

(* Every reachable state has one history, at W and in what U holds.        *)
THEOREM WitnessInvariant == Spec => []WitnessInv
  <1>1. WitnessInv /\ [Next]_vars => WitnessInv'
    <2> SUFFICES ASSUME WitnessInv, [Next]_vars PROVE WitnessInv'
      OBVIOUS
    <2>1. CASE Grow
      BY <2>1, GrowKeeps
    <2>2. CASE Ask
      BY <2>2, AskKeeps
    <2>3. CASE GiveUp
      <3>1. NoFalseRefusal'
        BY <2>3 DEF GiveUp, WitnessInv, NoFalseRefusal
      <3> QED BY <2>3, <3>1, DropKeeps DEF GiveUp
    <2>4. CASE Accept
      BY <2>4, AcceptKeeps
    <2>5. CASE \E head \in waiting : Handle(head)
      BY <2>5, HandleKeeps
    <2>6. CASE \E head \in waiting : Drop(head)
      <3>1. NoFalseRefusal'
        BY <2>6 DEF Drop, WitnessInv, NoFalseRefusal
      <3> QED BY <2>6, <3>1, DropKeeps DEF Drop
    <2>7. CASE \E n \in 0 .. Len(ledger) : Restore(n)
      BY <2>7, RestoreKeeps
    <2>8. CASE UNCHANGED vars
      <3>1. NoFalseRefusal'
        BY <2>8 DEF vars, WitnessInv, NoFalseRefusal
      <3> QED BY <2>8, <3>1, DropKeeps DEF vars
    <2> QED BY <2>1, <2>2, <2>3, <2>4, <2>5, <2>6, <2>7, <2>8 DEF Next
  <1> QED BY InitEstablishes, <1>1, PTL DEF Spec

(* However often T forks and forges, each head that W countersigned is of  *)
(* a log that extends those of all heads before (witness.py:40-50).        *)
THEOREM WitnessedOnce == Spec => []OneHistory
  <1>1. WitnessInv => OneHistory
    BY LedgerFacts DEF WitnessInv, History, OneHistory
  <1> QED BY <1>1, WitnessInvariant, PTL

(* What U holds is of one history: always, while W's store is never put    *)
(* back, and otherwise as far as U missed no receipt (agent.py:182-190).   *)
THEOREM HeldOnce == Spec => []HeldOneHistory
  <1>1. WitnessInv => HeldOneHistory
    <2> SUFFICES ASSUME WitnessInv, restores = 0 \/ Gapless, NEW q \in held, NEW r \in held,
                        q.sequence <= r.sequence
                 PROVE  Prefix(q.head, r.head)
      BY DEF HeldOneHistory
    <2>1. CASE restores = 0
      <3>1. PICK i \in 1 .. Len(ledger) : q = ledger[i]
        BY <2>1 DEF WitnessInv, NeverPutBack
      <3>2. PICK j \in 1 .. Len(ledger) : r = ledger[j]
        BY <2>1 DEF WitnessInv, NeverPutBack
      <3>3. i <= j
        BY <3>1, <3>2 DEF WitnessInv, OneChain
      <3> QED BY <3>1, <3>2, <3>3 DEF WitnessInv, History
    <2>2. CASE Gapless
      <3>1. Unbroken(q, r)
        BY <2>2 DEF Gapless, Unbroken, WitnessInv, HeldChain, Linked
      <3> QED BY <3>1 DEF WitnessInv, HeldRuns
    <2> QED BY <2>1, <2>2
  <1> QED BY <1>1, WitnessInvariant, PTL

(* U hears of a conflict only if T forked, W was put back or W is full,    *)
(* whatever calls it gave up (witness.py:38-47).                           *)
THEOREM RefusalsAreTrue == Spec => []NoFalseRefusal
  <1>1. WitnessInv => NoFalseRefusal
    BY DEF WitnessInv
  <1> QED BY <1>1, WitnessInvariant, PTL

=============================================================================
