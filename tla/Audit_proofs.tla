---------------------------- MODULE Audit_proofs ----------------------------
(***************************************************************************)
(* For all requests, logs and page sizes and however often T leaves        *)
(* something out: an audit that is in order leaves no promise behind and   *)
(* lets no wrong verdict pass, an honest T is accused of nothing, and      *)
(* U's checkpoints are one history.                                        *)
(*                                                                         *)
(* An audit lasts many calls and T's log changes meanwhile, so nothing     *)
(* about the log at the end can be used: what counts is that the pages U   *)
(* has are those of the head (Copied), and, as long as T left nothing out, *)
(* that head, receipts and checkpoint are prefixes of one growing log      *)
(* (NothingOmitted).                                                       *)
(***************************************************************************)
EXTENDS Audit, SequenceTheorems, TLAPS

Entries == [stmt : Statement, at : Nat]
Receipts == [stmt : Statement, size : Nat, root : Seq(Statement), at : Nat]
Audits ==
  [size : Nat, root : Seq(Statement), time : Nat,
   entries : Seq(Entries), asked : SUBSET Holder, heard : SUBSET Receipts]

TypeOK ==
  /\ clock \in Nat /\ omitted \in Nat
  /\ log \in Seq(Entries)
  /\ held \in [Holder -> SUBSET Receipts]
  /\ audit # NULL => audit \in Audits
  /\ checkpoint # NULL => checkpoint \in [size : Nat, root : Seq(Statement)]

(* A verdict comes after evidence about its request. *)
Founded(stmts) ==
  \A i \in 1 .. Len(stmts) : stmts[i].ct = "verdict" =>
    \E j \in 1 .. i : stmts[j].ct = "evidence" /\ stmts[j].sub = stmts[i].sub

Copied(a) ==
  /\ Len(a.root) = a.size /\ Founded(a.root) /\ Len(a.entries) <= a.size
  /\ \A i \in 1 .. Len(a.entries) : a.entries[i].stmt = a.root[i]
  /\ a.time <= clock

OfLog(root) == Len(root) <= Len(log) /\ \A i \in 1 .. Len(root) : root[i] = log[i].stmt

Promised(rc) ==
  /\ rc.size \in 1 .. Len(log) /\ rc.stmt = log[rc.size].stmt /\ rc.at = log[rc.size].at
  /\ Len(rc.root) = rc.size /\ OfLog(rc.root)

LogFounded ==
  \A i \in 1 .. Len(log) : log[i].stmt.ct = "verdict" =>
    \E j \in 1 .. i : log[j].stmt.ct = "evidence" /\ log[j].stmt.sub = log[i].stmt.sub

AuditCopied == audit # NULL => Copied(audit)

(* Receipts are asked for when the export is there. *)
AuditWhole == audit # NULL /\ audit.asked # {} => Len(audit.entries) = audit.size

CheckpointWhole == checkpoint # NULL => Len(checkpoint.root) = checkpoint.size

NothingOmitted ==
  omitted = 0 =>
    /\ \A p \in Holder : \A rc \in held[p] : Promised(rc)
    /\ checkpoint # NULL => OfLog(checkpoint.root)
    /\ audit # NULL =>
         /\ OfLog(audit.root) /\ (checkpoint # NULL => checkpoint.size <= audit.size)
         /\ \A rc \in audit.heard : Promised(rc)
         /\ \A i \in 1 .. Len(log) : i > audit.size => log[i].at >= audit.time

AuditInv ==
  /\ TypeOK /\ LogFounded /\ AuditCopied /\ AuditWhole /\ CheckpointWhole /\ NothingOmitted
  /\ OmissionCaught /\ NoWrongVerdictPasses /\ NoFalseAlarm

-----------------------------------------------------------------------------
(* Entries, receipts and what U has of an audit. *)

LEMMA StatementFields ==
  ASSUME NEW st \in Statement
  PROVE  /\ st.ct = "verdict" \/ (st.ct = "evidence" /\ st.right)
         /\ st.right \in BOOLEAN
  BY DEF Statement, Evidence, Verdicts

LEMMA LogEntry ==
  ASSUME NEW entries \in Seq(Entries)
  PROVE  /\ Len(entries) \in Nat /\ DOMAIN entries = 1 .. Len(entries)
         /\ \A i \in 1 .. Len(entries) : entries[i].stmt \in Statement /\ entries[i].at \in Nat
  <1>1. /\ Len(entries) \in Nat /\ DOMAIN entries = 1 .. Len(entries)
        /\ \A i \in 1 .. Len(entries) : entries[i] \in Entries
    BY LenProperties, ElementOfSeq
  <1> QED BY <1>1 DEF Entries

LEMMA FunctionIsSeq ==
  ASSUME NEW S, NEW n \in Nat, NEW s \in [1 .. n -> S]
  PROVE  s \in Seq(S) /\ Len(s) = n
  <1>1. [i \in 1 .. n |-> s[i]] \in Seq(S)
    OBVIOUS
  <1>2. s \in Seq(S)
    BY <1>1
  <1>3. DOMAIN s = 1 .. Len(s) /\ Len(s) \in Nat
    BY <1>2, LenProperties
  <1> QED BY <1>2, <1>3

LEMMA StatementsFacts ==
  ASSUME NEW entries \in Seq(Entries)
  PROVE  /\ Statements(entries) \in Seq(Statement) /\ Len(Statements(entries)) = Len(entries)
         /\ \A i \in 1 .. Len(entries) : Statements(entries)[i] = entries[i].stmt
  <1>1. Statements(entries) = [i \in 1 .. Len(entries) |-> entries[i].stmt]
    BY LogEntry DEF Statements
  <1>2. Statements(entries) \in [1 .. Len(entries) -> Statement]
    BY <1>1, LogEntry
  <1> QED BY <1>1, <1>2, FunctionIsSeq, LogEntry

LEMMA UnderFacts ==
  ASSUME NEW entries \in Seq(Entries), NEW n \in 0 .. Len(entries)
  PROVE  /\ Under(entries, n) \in Seq(Statement) /\ Len(Under(entries, n)) = n
         /\ \A i \in 1 .. n : Under(entries, n)[i] = entries[i].stmt
  <1>1. Len(entries) \in Nat
    BY LogEntry
  <1>2. \A i \in 1 .. n : Statements(entries)[i] \in Statement /\ Statements(entries)[i] = entries[i].stmt
    BY <1>1, StatementsFacts, LogEntry
  <1>3. /\ SubSeq(Statements(entries), 1, n) \in Seq(Statement)
        /\ Len(SubSeq(Statements(entries), 1, n)) = n
        /\ \A i \in 1 .. n : SubSeq(Statements(entries), 1, n)[i] = Statements(entries)[i]
    BY <1>1, <1>2, SubSeqProperties
  <1> QED BY <1>2, <1>3 DEF Under

LEMMA Pasted ==
  ASSUME NEW s \in Seq(Entries), NEW t \in Seq(Entries)
  PROVE  /\ s \o t \in Seq(Entries) /\ Len(s \o t) = Len(s) + Len(t)
         /\ \A k \in 1 .. Len(s) : (s \o t)[k] = s[k]
         /\ \A k \in 1 .. Len(t) : (s \o t)[Len(s) + k] = t[k]
  <1>1. Len(s) \in Nat /\ Len(t) \in Nat
    BY LenProperties
  <1>2. /\ s \o t \in Seq(Entries) /\ Len(s \o t) = Len(s) + Len(t)
        /\ \A k \in 1 .. Len(s) + Len(t) :
             (s \o t)[k] = IF k <= Len(s) THEN s[k] ELSE t[k - Len(s)]
    BY ConcatProperties
  <1>3. ASSUME NEW k \in 1 .. Len(s) PROVE (s \o t)[k] = s[k]
    BY <1>1, <1>2
  <1>4. ASSUME NEW k \in 1 .. Len(t) PROVE (s \o t)[Len(s) + k] = t[k]
    <2>1. Len(s) + k \in 1 .. Len(s) + Len(t) /\ ~ (Len(s) + k <= Len(s)) /\ (Len(s) + k) - Len(s) = k
      BY <1>1
    <2> QED BY <1>2, <2>1
  <1> QED BY <1>2, <1>3, <1>4

LEMMA FirstOf ==
  ASSUME NEW s \in Seq(Statement), NEW n \in 0 .. Len(s)
  PROVE  /\ SubSeq(s, 1, n) \in Seq(Statement) /\ Len(SubSeq(s, 1, n)) = n
         /\ \A i \in 1 .. n : SubSeq(s, 1, n)[i] = s[i]
  <1>1. Len(s) \in Nat /\ \A i \in 1 .. n : s[i] \in Statement
    BY LenProperties, ElementOfSeq
  <1> QED BY <1>1, SubSeqProperties

(* Two ways of saying that a shorter tree is under a longer one. *)
LEMMA SameFirst ==
  ASSUME NEW s \in Seq(Statement), NEW t \in Seq(Statement), Len(t) <= Len(s)
  PROVE  SubSeq(s, 1, Len(t)) = t <=> \A i \in 1 .. Len(t) : t[i] = s[i]
  <1>1. Len(t) \in Nat /\ Len(s) \in Nat /\ Len(t) \in 0 .. Len(s)
    BY LenProperties
  <1>2. /\ SubSeq(s, 1, Len(t)) \in Seq(Statement) /\ Len(SubSeq(s, 1, Len(t))) = Len(t)
        /\ \A i \in 1 .. Len(t) : SubSeq(s, 1, Len(t))[i] = s[i]
    BY <1>1, FirstOf
  <1>3. ASSUME \A i \in 1 .. Len(t) : t[i] = s[i]
        PROVE  SubSeq(s, 1, Len(t)) = t
    <2> DEFINE h == SubSeq(s, 1, Len(t))
    <2>1. h \in Seq(Statement) /\ Len(h) = Len(t) /\ \A i \in 1 .. Len(h) : h[i] = t[i]
      BY <1>2, <1>3
    <2> HIDE DEF h
    <2>2. h = t
      BY <2>1, SeqEqual
    <2> QED BY <2>2 DEF h
  <1> QED BY <1>2, <1>3

LEMMA AuditFields ==
  ASSUME NEW a \in Audits
  PROVE  /\ a.size \in Nat /\ a.root \in Seq(Statement) /\ a.time \in Nat
         /\ a.entries \in Seq(Entries) /\ a.asked \subseteq Holder /\ a.heard \subseteq Receipts
  BY DEF Audits

LEMMA AuditPaged ==
  ASSUME NEW a \in Audits, NEW es \in Seq(Entries)
  PROVE  /\ [a EXCEPT !.entries = es] \in Audits
         /\ [a EXCEPT !.entries = es].entries = es /\ [a EXCEPT !.entries = es].asked = a.asked
         /\ [a EXCEPT !.entries = es].size = a.size /\ [a EXCEPT !.entries = es].root = a.root
         /\ [a EXCEPT !.entries = es].time = a.time /\ [a EXCEPT !.entries = es].heard = a.heard
  BY DEF Audits

LEMMA AuditTold ==
  ASSUME NEW a \in Audits, NEW p \in Holder, NEW rcs \in SUBSET Receipts
  PROVE  /\ Told(a, p, rcs) \in Audits /\ Told(a, p, rcs).heard = a.heard \cup rcs
         /\ Told(a, p, rcs).size = a.size /\ Told(a, p, rcs).root = a.root
         /\ Told(a, p, rcs).time = a.time /\ Told(a, p, rcs).entries = a.entries
  BY DEF Audits, Told

-----------------------------------------------------------------------------
(* The parties and T: the report stays. *)

LEMMA ReportStays ==
  ASSUME AuditInv, UNCHANGED report, omitted' = omitted \/ omitted' = omitted + 1
  PROVE  OmissionCaught' /\ NoWrongVerdictPasses' /\ NoFalseAlarm'
  <1>1. omitted > 0 => omitted' > 0
    BY DEF AuditInv, TypeOK
  <1>2. OmissionCaught'
    BY DEF AuditInv, OmissionCaught
  <1>3. NoWrongVerdictPasses'
    BY DEF AuditInv, NoWrongVerdictPasses
  <1>4. NoFalseAlarm'
    BY <1>1 DEF AuditInv, NoFalseAlarm
  <1> QED BY <1>2, <1>3, <1>4

LEMMA InitEstablishes == Init => AuditInv
  <1> SUFFICES ASSUME Init PROVE AuditInv
    OBVIOUS
  <1>1. log \in Seq(Entries) /\ Len(log) = 0
    BY EmptySeq DEF Init
  <1>2. TypeOK
    BY <1>1 DEF Init, TypeOK
  <1>3. LogFounded
    BY <1>1 DEF LogFounded
  <1>4. AuditCopied /\ AuditWhole /\ CheckpointWhole /\ NothingOmitted
    BY <1>1 DEF Init, AuditCopied, AuditWhole, CheckpointWhole, NothingOmitted
  <1>5. OmissionCaught /\ NoWrongVerdictPasses /\ NoFalseAlarm
    BY DEF Init, OmissionCaught, NoWrongVerdictPasses, NoFalseAlarm
  <1> QED BY <1>2, <1>3, <1>4, <1>5 DEF AuditInv

LEMMA TickKeeps ==
  ASSUME AuditInv, Tick
  PROVE  AuditInv'
  <1>1. clock' = clock + 1 /\ UNCHANGED <<log, held, audit, checkpoint, report, omitted>>
    BY DEF Tick
  <1>2. TypeOK'
    BY <1>1 DEF AuditInv, TypeOK
  <1>3. AuditCopied'
    BY <1>1, AuditFields DEF AuditInv, AuditCopied, Copied, Founded, TypeOK
  <1>4. LogFounded' /\ CheckpointWhole' /\ AuditWhole'
    BY <1>1 DEF AuditInv, LogFounded, CheckpointWhole, AuditWhole
  <1>5. NothingOmitted'
    BY <1>1 DEF AuditInv, NothingOmitted, Promised, OfLog
  <1> QED BY <1>1, <1>2, <1>3, <1>4, <1>5, ReportStays DEF AuditInv

(* A new entry comes after all that heads, receipts and checkpoints cover. *)
LEMMA RegisterKeeps ==
  ASSUME AuditInv, NEW st \in Statement, Register(st)
  PROVE  AuditInv'
  <1> DEFINE n == Len(log)
             e == [stmt |-> st, at |-> clock]
  <1>1. /\ log' = Append(log, e) /\ UNCHANGED <<clock, held, audit, checkpoint, report, omitted>>
        /\ st.ct = "verdict" =>
             \E i \in DOMAIN log : log[i].stmt.sub = st.sub /\ log[i].stmt.ct = "evidence"
    BY DEF Register
  <1>2. log \in Seq(Entries) /\ e \in Entries /\ n \in Nat /\ DOMAIN log = 1 .. n
    BY LogEntry DEF AuditInv, TypeOK, Entries
  <1>3. /\ log' \in Seq(Entries) /\ Len(log') = n + 1 /\ log'[n + 1] = e
        /\ \A i \in 1 .. n : log'[i] = log[i]
    BY <1>1, <1>2, AppendProperties
  <1>4. log'[n + 1].stmt = st /\ log'[n + 1].at = clock
    BY <1>3
  <1> HIDE DEF e, n
  <1>5. TypeOK'
    BY <1>1, <1>3 DEF AuditInv, TypeOK
  <1>6. LogFounded'
    <2> SUFFICES ASSUME NEW i \in 1 .. n + 1, log'[i].stmt.ct = "verdict"
                 PROVE  \E j \in 1 .. i : log'[j].stmt.ct = "evidence" /\ log'[j].stmt.sub = log'[i].stmt.sub
      BY <1>2, <1>3 DEF LogFounded
    <2>4. CASE i \in 1 .. n
      BY <1>2, <1>3, <2>4 DEF AuditInv, LogFounded, n
    <2>5. CASE i = n + 1
      BY <1>1, <1>2, <1>3, <1>4, <2>5
    <2> QED BY <1>2, <2>4, <2>5
  <1>7. AuditCopied' /\ AuditWhole' /\ CheckpointWhole'
    BY <1>1 DEF AuditInv, AuditCopied, AuditWhole, Copied, Founded, CheckpointWhole
  <1>8. NothingOmitted'
    <2> SUFFICES ASSUME omitted = 0 PROVE NothingOmitted'
      BY <1>1 DEF NothingOmitted
    <2>1. /\ \A root : OfLog(root) => Len(root) <= n /\ \A i \in 1 .. Len(root) : root[i] = log[i].stmt
          /\ \A rc : Promised(rc) =>
               /\ rc.size \in 1 .. n /\ rc.stmt = log[rc.size].stmt /\ rc.at = log[rc.size].at
               /\ Len(rc.root) = rc.size /\ OfLog(rc.root)
      BY DEF OfLog, Promised, n
    <2>2. ASSUME NEW root \in Seq(Statement), OfLog(root) PROVE OfLog(root)'
      <3>1. Len(root) \in Nat
        BY LenProperties
      <3> QED BY <1>2, <1>3, <2>1, <2>2, <3>1 DEF OfLog
    <2>3. ASSUME NEW rc \in Receipts, Promised(rc) PROVE Promised(rc)'
      BY <1>2, <1>3, <2>1, <2>2, <2>3 DEF Promised, Receipts
    <2>4. \A p \in Holder : \A rc \in held'[p] : Promised(rc)'
      BY <1>1, <2>3 DEF AuditInv, TypeOK, NothingOmitted
    <2>5. checkpoint' # NULL => OfLog(checkpoint.root)'
      <3>1. checkpoint # NULL => checkpoint.root \in Seq(Statement) /\ OfLog(checkpoint.root)
        BY DEF AuditInv, TypeOK, NothingOmitted
      <3> QED BY <1>1, <2>2, <3>1 DEF OfLog
    <2>6. ASSUME audit # NULL
          PROVE  /\ OfLog(audit.root)' /\ (checkpoint # NULL => checkpoint.size <= audit.size)
                 /\ \A rc \in audit.heard : Promised(rc)'
                 /\ \A i \in 1 .. n + 1 : i > audit.size => log'[i].at >= audit.time
      <3>1. /\ audit \in Audits /\ OfLog(audit.root) /\ Copied(audit)
            /\ checkpoint # NULL => checkpoint.size <= audit.size
            /\ \A rc \in audit.heard : Promised(rc)
            /\ \A i \in 1 .. n : i > audit.size => log[i].at >= audit.time
        BY <2>6 DEF AuditInv, TypeOK, NothingOmitted, AuditCopied, n
      <3>2. OfLog(audit.root)'
        BY <1>1, <2>2, <3>1, AuditFields DEF OfLog
      <3>3. \A rc \in audit.heard : Promised(rc)'
        BY <2>3, <3>1, AuditFields
      <3>4. \A i \in 1 .. n + 1 : i > audit.size => log'[i].at >= audit.time
        BY <1>2, <1>3, <1>4, <3>1 DEF Copied, AuditInv, TypeOK
      <3> QED BY <3>1, <3>2, <3>3, <3>4
    <2> QED BY <1>1, <1>3, <2>4, <2>5, <2>6 DEF NothingOmitted
  <1> QED BY <1>1, <1>5, <1>6, <1>7, <1>8, ReportStays DEF AuditInv

LEMMA ReceiptIsPromise ==
  ASSUME TypeOK, NEW i \in 1 .. Len(log)
  PROVE  ReceiptOf(i) \in Receipts /\ Promised(ReceiptOf(i))
  <1> DEFINE root == Under(log, i)
  <1>1. Len(log) \in Nat /\ i \in 0 .. Len(log) /\ log \in Seq(Entries)
        /\ log[i].stmt \in Statement /\ log[i].at \in Nat
    BY LogEntry DEF TypeOK
  <1>2. /\ root \in Seq(Statement) /\ Len(root) = i
        /\ \A k \in 1 .. i : root[k] = log[k].stmt
    BY <1>1, UnderFacts
  <1>3. ReceiptOf(i) = [stmt |-> log[i].stmt, size |-> i, root |-> root, at |-> log[i].at]
    BY DEF ReceiptOf
  <1> HIDE DEF root
  <1>4. ReceiptOf(i) \in Receipts
    BY <1>1, <1>2, <1>3 DEF Receipts
  <1>5. Promised(ReceiptOf(i))
    BY <1>1, <1>2, <1>3 DEF Promised, OfLog
  <1> QED BY <1>4, <1>5

LEMMA KeepKeeps ==
  ASSUME AuditInv, NEW p \in Holder, NEW i \in DOMAIN log, Keep(p, i)
  PROVE  AuditInv'
  <1>1. /\ held' = [held EXCEPT ![p] = Replaced(held[p], ReceiptOf(i))]
        /\ UNCHANGED <<clock, log, audit, checkpoint, report, omitted>>
    BY DEF Keep
  <1>2. ReceiptOf(i) \in Receipts /\ Promised(ReceiptOf(i))
    BY ReceiptIsPromise, LogEntry DEF AuditInv, TypeOK
  <1>3. \A rc \in Replaced(held[p], ReceiptOf(i)) : rc \in held[p] \/ rc = ReceiptOf(i)
    BY DEF Replaced
  <1>4. held \in [Holder -> SUBSET Receipts]
    BY DEF AuditInv, TypeOK
  <1>5. Replaced(held[p], ReceiptOf(i)) \in SUBSET Receipts
    BY <1>2, <1>3, <1>4
  <1>6. held' \in [Holder -> SUBSET Receipts]
    BY <1>1, <1>4, <1>5
  <1>7. \A q \in Holder : \A rc \in held'[q] : rc \in held[q] \/ rc = ReceiptOf(i)
    BY <1>1, <1>3, <1>4
  <1>8. TypeOK'
    BY <1>1, <1>6 DEF AuditInv, TypeOK
  <1>9. LogFounded' /\ CheckpointWhole' /\ AuditCopied' /\ AuditWhole'
    BY <1>1 DEF AuditInv, LogFounded, CheckpointWhole, AuditWhole, AuditCopied, Copied, Founded
  <1>10. NothingOmitted'
    <2>1. omitted = 0 => \A q \in Holder : \A rc \in held'[q] : Promised(rc)
      BY <1>2, <1>7 DEF AuditInv, NothingOmitted
    <2> QED BY <1>1, <2>1 DEF AuditInv, NothingOmitted, Promised, OfLog
  <1> QED BY <1>1, <1>8, <1>9, <1>10, ReportStays DEF AuditInv

(* T's log changes as it likes, but verdicts stay behind their evidence. *)
LEMMA OmitKeeps ==
  ASSUME AuditInv, NEW u \in Sub, Omit(u)
  PROVE  AuditInv'
  <1>1. omitted' = omitted + 1 /\ UNCHANGED <<clock, held, audit, checkpoint, report>>
    BY DEF Omit
  <1>2. PICK n \in 0 .. Len(log) : \E at \in [1 .. n -> DOMAIN log] :
          Rest(at, u) /\ log' = [k \in 1 .. n |-> log[at[k]]]
    BY DEF Omit
  <1>3. PICK at \in [1 .. n -> DOMAIN log] : Rest(at, u) /\ log' = [k \in 1 .. n |-> log[at[k]]]
    BY <1>2
  <1>4. log \in Seq(Entries) /\ Len(log) \in Nat /\ DOMAIN log = 1 .. Len(log) /\ n \in Nat
        /\ \A i \in 1 .. Len(log) : log[i] \in Entries
    BY LogEntry, ElementOfSeq DEF AuditInv, TypeOK
  <1>5. \A k \in 1 .. n : at[k] \in 1 .. Len(log) /\ log'[k] = log[at[k]]
    BY <1>3, <1>4
  <1>6. log' \in Seq(Entries) /\ Len(log') = n
    <2>1. log' \in [1 .. n -> Entries]
      BY <1>3, <1>4, <1>5
    <2> QED BY <1>4, <2>1, FunctionIsSeq
  <1>7. TypeOK'
    BY <1>1, <1>6 DEF AuditInv, TypeOK
  <1>8. LogFounded'
    <2> SUFFICES ASSUME NEW k \in 1 .. n, log'[k].stmt.ct = "verdict"
                 PROVE  \E j \in 1 .. k : log'[j].stmt.ct = "evidence" /\ log'[j].stmt.sub = log'[k].stmt.sub
      BY <1>6 DEF LogFounded
    <2>1. PICK i \in 1 .. at[k] :
            log[i].stmt.ct = "evidence" /\ log[i].stmt.sub = log[at[k]].stmt.sub
      BY <1>4, <1>5 DEF AuditInv, LogFounded
    <2>2. log[at[k]].stmt.sub # u
      BY <1>3, <1>4, <1>5 DEF Rest
    <2>3. i \in DOMAIN log /\ i \in Nat /\ i <= at[k]
      BY <1>4, <1>5
    <2>4. PICK j \in 1 .. n : at[j] = i
      BY <1>3, <2>1, <2>2, <2>3 DEF Rest
    <2>5. j <= k
      <3>1. SUFFICES ASSUME k < j PROVE FALSE
        BY <1>4
      <3>2. at[k] < at[j]
        BY <1>3, <3>1 DEF Rest
      <3> QED BY <1>4, <1>5, <2>3, <2>4, <3>2
    <2> QED BY <1>4, <1>5, <2>1, <2>4, <2>5
  <1>9. CheckpointWhole' /\ AuditCopied' /\ AuditWhole' /\ NothingOmitted'
    BY <1>1 DEF AuditInv, TypeOK, CheckpointWhole, AuditWhole, AuditCopied, Copied, Founded, NothingOmitted
  <1> QED BY <1>1, <1>7, <1>8, <1>9, ReportStays DEF AuditInv

-----------------------------------------------------------------------------
(* One audit. *)

LEMMA TakeHeadKeeps ==
  ASSUME AuditInv, TakeHead
  PROVE  AuditInv'
  <1> DEFINE n == Len(log)
             root == Statements(log)
             a == [size |-> n, root |-> root, time |-> clock,
                   entries |-> <<>>, asked |-> {}, heard |-> {}]
  <1>1. audit' = a /\ UNCHANGED <<clock, log, held, checkpoint, report, omitted>>
    BY DEF TakeHead, TreeHead
  <1>2. log \in Seq(Entries) /\ n \in Nat
    BY LogEntry DEF AuditInv, TypeOK
  <1>3. root \in Seq(Statement) /\ Len(root) = n /\ \A i \in 1 .. n : root[i] = log[i].stmt
    BY <1>2, StatementsFacts
  <1>4. <<>> \in Seq(Entries) /\ Len(<<>>) = 0 /\ clock \in Nat
    BY EmptySeq DEF AuditInv, TypeOK
  <1> HIDE DEF root, n
  <1>5. a \in Audits
    BY <1>2, <1>3, <1>4 DEF Audits
  <1>6. TypeOK'
    BY <1>1, <1>5 DEF AuditInv, TypeOK
  <1>7. Founded(root)
    BY <1>2, <1>3 DEF AuditInv, LogFounded, Founded, n
  <1>8. Copied(a)
    BY <1>2, <1>3, <1>4, <1>7 DEF Copied
  <1>9. LogFounded' /\ CheckpointWhole'
    BY <1>1 DEF AuditInv, LogFounded, CheckpointWhole
  <1>12. AuditWhole'
    BY <1>1 DEF AuditWhole
  <1>10. AuditCopied'
    <2> HIDE DEF a
    <2> QED BY <1>1, <1>8 DEF AuditCopied, Copied, Founded
  <1>11. NothingOmitted'
    <2> SUFFICES ASSUME omitted = 0 PROVE NothingOmitted'
      BY <1>1 DEF NothingOmitted
    <2>1. OfLog(root) /\ a.root = root /\ a.size = n /\ a.heard = {}
      BY <1>2, <1>3 DEF OfLog, n
    <2>2. checkpoint # NULL => checkpoint.size <= n
      BY DEF AuditInv, NothingOmitted, CheckpointWhole, OfLog, n
    <2>3. \A p \in Holder : \A rc \in held[p] : Promised(rc)
      BY DEF AuditInv, NothingOmitted
    <2>4. checkpoint # NULL => OfLog(checkpoint.root)
      BY DEF AuditInv, NothingOmitted
    <2> HIDE DEF a
    <2> QED BY <1>1, <1>2, <2>1, <2>2, <2>3, <2>4 DEF NothingOmitted, Promised, OfLog, n
  <1> QED BY <1>1, <1>6, <1>9, <1>10, <1>11, <1>12, ReportStays DEF AuditInv

LEMMA AbortKeeps ==
  ASSUME AuditInv, Abort
  PROVE  AuditInv'
  <1>1. audit' = NULL /\ UNCHANGED <<clock, log, held, checkpoint, report, omitted>>
    BY DEF Abort
  <1>2. TypeOK'
    BY <1>1 DEF AuditInv, TypeOK
  <1>3. LogFounded' /\ CheckpointWhole' /\ AuditCopied' /\ AuditWhole'
    BY <1>1 DEF AuditInv, LogFounded, CheckpointWhole, AuditWhole, AuditCopied
  <1>4. NothingOmitted'
    BY <1>1 DEF AuditInv, NothingOmitted, Promised, OfLog
  <1> QED BY <1>1, <1>2, <1>3, <1>4, ReportStays DEF AuditInv

(* A page is of the tree the head is of, whatever T did since. *)
LEMMA PageKeeps ==
  ASSUME AuditInv, Page
  PROVE  AuditInv'
  <1> DEFINE m == Len(audit.entries)
  <1>1. /\ audit # NULL /\ audit.size <= Len(log) /\ Under(log, audit.size) = audit.root
        /\ UNCHANGED <<clock, log, held, checkpoint, report, omitted>>
    BY DEF Page
  <1>2. PICK n \in 1 .. PageSize :
          m + n <= audit.size /\ audit' = Paged(audit, n)
    BY DEF Page
  <1> DEFINE page == SubSeq(log, m + 1, m + n)
             es == audit.entries \o page
  <1>3. /\ audit \in Audits /\ audit.size \in Nat /\ audit.entries \in Seq(Entries) /\ m \in Nat
        /\ log \in Seq(Entries) /\ Len(log) \in Nat /\ n \in Nat \ {0}
    BY <1>1, AuditFields, LogEntry, AuditAssumption DEF AuditInv, TypeOK, AuditAssumption
  <1>4. \A i \in m + 1 .. m + n : log[i] \in Entries
    BY <1>1, <1>2, <1>3, ElementOfSeq
  <1>5. /\ page \in Seq(Entries) /\ Len(page) = n
        /\ \A k \in 1 .. n : page[k] = log[m + k]
    <2>1. m + 1 \in Int /\ m + n \in Int /\ m + 1 <= m + n
      BY <1>3
    <2> HIDE DEF m
    <2>2. /\ page \in Seq(Entries)
          /\ Len(page) = (IF m + 1 <= m + n THEN (m + n) - (m + 1) + 1 ELSE 0)
          /\ \A k \in 1 .. (m + n) - (m + 1) + 1 : page[k] = log[(m + 1) + k - 1]
      BY <1>4, <2>1, SubSeqProperties
    <2>3. (m + n) - (m + 1) + 1 = n /\ \A k \in 1 .. n : (m + 1) + k - 1 = m + k
      BY <1>3 DEF m
    <2> QED BY <2>1, <2>2, <2>3
  <1>6. /\ es \in Seq(Entries) /\ Len(es) = m + n
        /\ \A k \in 1 .. m : es[k] = audit.entries[k]
        /\ \A k \in m + 1 .. m + n : es[k] = log[k]
    <2> HIDE DEF page
    <2>1. /\ es \in Seq(Entries) /\ Len(es) = m + n
          /\ \A k \in 1 .. m : es[k] = audit.entries[k]
          /\ \A k \in 1 .. n : es[m + k] = page[k]
      BY <1>3, <1>5, Pasted
    <2> HIDE DEF es, m
    <2>2. ASSUME NEW k \in m + 1 .. m + n PROVE es[k] = log[k]
      <3>1. k - m \in 1 .. n /\ m + (k - m) = k
        BY <1>3
      <3> QED BY <1>5, <2>1, <3>1
    <2> QED BY <2>1, <2>2
  <1>7. \A k \in 1 .. audit.size : audit.root[k] = log[k].stmt
    BY <1>1, <1>3, UnderFacts
  <1>8. Copied(audit)
    BY <1>1 DEF AuditInv, AuditCopied
  <1>9. \A k \in 1 .. m + n : es[k].stmt = audit.root[k]
    <2> HIDE DEF es, m
    <2> SUFFICES ASSUME NEW k \in 1 .. m + n PROVE es[k].stmt = audit.root[k]
      OBVIOUS
    <2>1. CASE k \in 1 .. m
      BY <1>6, <1>8, <2>1 DEF Copied, m
    <2>2. CASE k \in m + 1 .. m + n
      <3>1. k \in 1 .. audit.size
        BY <1>2, <1>3, <2>2
      <3> QED BY <1>6, <1>7, <2>2, <3>1
    <2> QED BY <1>3, <2>1, <2>2
  <1>0. audit' = [audit EXCEPT !.entries = es]
    BY <1>2 DEF Paged
  <1> HIDE DEF es, page, m
  <1>10. /\ audit' \in Audits /\ audit'.entries = es /\ audit'.asked = audit.asked
         /\ audit'.size = audit.size /\ audit'.root = audit.root
         /\ audit'.time = audit.time /\ audit'.heard = audit.heard
    BY <1>0, <1>3, <1>6, AuditPaged
  <1>11. TypeOK'
    BY <1>1, <1>10 DEF AuditInv, TypeOK
  <1>12. AuditCopied'
    BY <1>1, <1>2, <1>6, <1>8, <1>9, <1>10 DEF AuditCopied, Copied, Founded
  <1>13. LogFounded' /\ CheckpointWhole'
    BY <1>1 DEF AuditInv, LogFounded, CheckpointWhole
  <1>15. AuditWhole'
    BY <1>3, <1>10 DEF AuditInv, AuditWhole, Page, m
  <1>14. NothingOmitted'
    BY <1>1, <1>10 DEF AuditInv, NothingOmitted, Promised, OfLog
  <1> QED BY <1>1, <1>11, <1>12, <1>13, <1>14, <1>15, ReportStays DEF AuditInv

LEMMA CollectKeeps ==
  ASSUME AuditInv, NEW p \in Holder, Collect(p)
  PROVE  AuditInv'
  <1>1. /\ audit # NULL
        /\ UNCHANGED <<clock, log, held, checkpoint, report, omitted>>
    BY DEF Collect
  <1>2. PICK reached \in BOOLEAN :
          audit' = Told(audit, p, IF reached THEN held[p] ELSE {})
    BY DEF Collect
  <1> DEFINE rcs == IF reached THEN held[p] ELSE {}
  <1>3. audit \in Audits /\ rcs \in SUBSET Receipts /\ rcs \subseteq held[p]
    BY <1>1 DEF AuditInv, TypeOK
  <1> HIDE DEF rcs
  <1>6. /\ audit' \in Audits /\ audit'.heard = audit.heard \cup rcs
        /\ audit'.size = audit.size /\ audit'.root = audit.root
        /\ audit'.time = audit.time /\ audit'.entries = audit.entries
    BY <1>2, <1>3, AuditTold DEF rcs
  <1>7. TypeOK'
    BY <1>1, <1>6 DEF AuditInv, TypeOK
  <1>8. AuditCopied'
    BY <1>1, <1>6 DEF AuditInv, AuditCopied, Copied, Founded
  <1>9. LogFounded' /\ CheckpointWhole'
    BY <1>1 DEF AuditInv, LogFounded, CheckpointWhole
  <1>11. AuditWhole'
    BY <1>1, <1>6 DEF AuditWhole, Collect
  <1>10. NothingOmitted'
    <2>1. omitted = 0 => \A rc \in rcs : Promised(rc)
      BY <1>3 DEF AuditInv, NothingOmitted
    <2> QED BY <1>1, <1>6, <2>1 DEF AuditInv, NothingOmitted, Promised, OfLog
  <1> QED BY <1>1, <1>7, <1>8, <1>9, <1>10, <1>11, ReportStays DEF AuditInv

(* What an audit that is in order has established. *)
LEMMA InOrderMeans ==
  ASSUME AuditInv, audit # NULL, audit.asked # {}, InOrder(audit)
  PROVE  /\ Len(audit.entries) = audit.size /\ Len(audit.root) = audit.size
         /\ \A rc \in audit.heard : rc.at <= audit.time =>
              rc.size <= audit.size /\ SubSeq(audit.root, 1, rc.size) = rc.root
         /\ \A i \in 1 .. audit.size : audit.root[i].right
         /\ checkpoint # NULL =>
              checkpoint.size <= audit.size /\ SubSeq(audit.root, 1, checkpoint.size) = checkpoint.root
  <1> DEFINE a == audit
  <1>1. /\ a \in Audits /\ Copied(a) /\ a.size \in Nat /\ a.root \in Seq(Statement) /\ a.time \in Nat
        /\ a.entries \in Seq(Entries) /\ Len(a.entries) \in Nat
    BY AuditFields, LogEntry DEF AuditInv, TypeOK, AuditCopied
  <1>2. Len(a.root) = a.size
    BY <1>1 DEF Copied
  <1>3. Under(a.entries, a.size) = a.root
    BY DEF InOrder
  <1>4. Len(a.entries) = a.size
    BY DEF AuditInv, AuditWhole
  <1>5. \A i \in 1 .. a.size : a.root[i] = a.entries[i].stmt
    BY <1>1, <1>4 DEF Copied
  <1> HIDE DEF a
  <1>6. ASSUME NEW size \in Nat, NEW root \in Seq(Statement), Extends(a, size, root)
        PROVE  size <= a.size /\ SubSeq(a.root, 1, size) = root
    <2>1. size <= a.size /\ size \in 0 .. a.size /\ Under(a.entries, size) = root
      BY <1>1, <1>4, <1>6 DEF Extends
    <2>0. size \in 0 .. Len(a.entries) /\ a.entries \in Seq(Entries)
      BY <1>1, <1>4, <2>1
    <2>2. Len(root) = size /\ \A i \in 1 .. size : root[i] = a.entries[i].stmt
      <3>1. /\ Len(Under(a.entries, size)) = size
            /\ \A i \in 1 .. size : Under(a.entries, size)[i] = a.entries[i].stmt
        BY <2>0, UnderFacts
      <3> QED BY <2>1, <3>1
    <2>3. \A i \in 1 .. size : root[i] = a.root[i]
      <3>1. a.size \in Nat
        BY <1>1
      <3>2. \A i \in 1 .. size : i \in 1 .. a.size
        BY <2>1, <3>1
      <3> QED BY <1>5, <2>2, <3>2
    <2>4. Len(root) <= Len(a.root)
      BY <1>2, <2>1, <2>2
    <2>5. SubSeq(a.root, 1, Len(root)) = root
      BY <1>1, <2>2, <2>3, <2>4, SameFirst
    <2> QED BY <2>1, <2>2, <2>5
  <1>7. ASSUME NEW rc \in a.heard, rc.at <= a.time
        PROVE  rc.size <= a.size /\ SubSeq(a.root, 1, rc.size) = rc.root
    <2>1. rc.size \in Nat /\ rc.root \in Seq(Statement) /\ rc.at \in Nat
      BY <1>1, AuditFields DEF Receipts
    <2>2. Extends(a, rc.size, rc.root)
      BY <1>1, <1>7, <2>1 DEF InOrder, ReceiptsInOrder, Asked, AfterSnapshot, a
    <2> QED BY <1>6, <2>1, <2>2
  <1>8. ASSUME NEW i \in 1 .. a.size
        PROVE  a.root[i].right
    <2>1. a.root[i] \in Statement
      BY <1>1, <1>2, ElementOfSeq
    <2>2. CASE a.root[i].ct = "evidence"
      BY <2>1, <2>2, StatementFields
    <2>3. CASE a.root[i].ct = "verdict"
      <3>1. PICK j \in 1 .. i : a.root[j].ct = "evidence" /\ a.root[j].sub = a.root[i].sub
        BY <1>1, <1>2, <2>3 DEF Copied, Founded
      <3>2. j \in DOMAIN a.entries /\ i \in DOMAIN a.entries
        BY <1>1, <1>4, LogEntry
      <3>3. a.root[i].sub \in Exported(a)
        BY <1>1, <1>5, <3>1, <3>2 DEF Exported
      <3>4. Replayed(a, a.root[i].sub)
        BY <3>3 DEF InOrder, a
      <3>5. i \in Judgements(a, a.root[i].sub)
        BY <1>5, <2>3, <3>2 DEF Judgements
      <3> QED BY <1>5, <3>4, <3>5 DEF Replayed
    <2> QED BY <2>1, <2>2, <2>3, StatementFields
  <1>9. checkpoint # NULL =>
          checkpoint.size <= a.size /\ SubSeq(a.root, 1, checkpoint.size) = checkpoint.root
    BY <1>6 DEF InOrder, AuditInv, TypeOK, a
  <1> QED BY <1>2, <1>4, <1>7, <1>8, <1>9 DEF a

(* Why an audit of a T that left nothing out may fail all the same. *)
LEMMA FailureMeans ==
  ASSUME AuditInv, audit # NULL, audit.asked # {}, omitted = 0, ~ InOrder(audit)
  PROVE  \/ \E i \in 1 .. audit.size : ~ audit.root[i].right
         \/ \E u \in Exported(audit) : Judgements(audit, u) = {}
         \/ SameInstant(audit)
  <1> DEFINE a == audit
  <1>1. /\ a \in Audits /\ Copied(a) /\ a.size \in Nat /\ a.root \in Seq(Statement) /\ a.time \in Nat
        /\ a.entries \in Seq(Entries) /\ Len(a.entries) \in Nat
    BY AuditFields, LogEntry DEF AuditInv, TypeOK, AuditCopied
  <1>2. Len(a.root) = a.size /\ Len(a.entries) = a.size
    BY <1>1 DEF Copied, AuditInv, AuditWhole
  <1>3. \A i \in 1 .. a.size : a.root[i] = a.entries[i].stmt
    BY <1>1, <1>2 DEF Copied
  <1>4. /\ OfLog(a.root) /\ (checkpoint # NULL => checkpoint.size <= a.size /\ OfLog(checkpoint.root))
        /\ \A rc \in a.heard : Promised(rc)
        /\ \A i \in 1 .. Len(log) : i > a.size => log[i].at >= a.time
    BY DEF AuditInv, NothingOmitted
  <1>5. Under(a.entries, a.size) = a.root
    <2>1. /\ Under(a.entries, a.size) \in Seq(Statement) /\ Len(Under(a.entries, a.size)) = a.size
          /\ \A i \in 1 .. a.size : Under(a.entries, a.size)[i] = a.entries[i].stmt
      BY <1>1, <1>2, UnderFacts
    <2> DEFINE h == Under(a.entries, a.size)
    <2>2. h \in Seq(Statement) /\ Len(h) = Len(a.root) /\ \A i \in 1 .. Len(h) : h[i] = a.root[i]
      BY <1>2, <1>3, <2>1
    <2> HIDE DEF h
    <2>3. h = a.root
      BY <1>1, <2>2, SeqEqual
    <2> QED BY <2>3 DEF h
  <1>6. ASSUME NEW size \in Nat, NEW root \in Seq(Statement), Len(root) = size, size <= a.size, OfLog(root)
        PROVE  Extends(a, size, root)
    <2> DEFINE h == Under(a.entries, size)
    <2>1. size \in 0 .. Len(a.entries)
      BY <1>1, <1>2, <1>6
    <2>2. h \in Seq(Statement) /\ Len(h) = size /\ \A i \in 1 .. size : h[i] = a.entries[i].stmt
      BY <1>1, <2>1, UnderFacts
    <2>3. \A i \in 1 .. size : h[i] = root[i]
      BY <1>1, <1>2, <1>3, <1>4, <1>6, <2>2 DEF OfLog
    <2> HIDE DEF h
    <2>4. h = root
      BY <1>6, <2>2, <2>3, SeqEqual
    <2> QED BY <1>2, <1>6, <2>4 DEF Extends, h
  <1>7. checkpoint # NULL => Extends(a, checkpoint.size, checkpoint.root)
    BY <1>4, <1>6 DEF AuditInv, TypeOK, CheckpointWhole
  <1>8. CASE ~ ReceiptsInOrder(a)
    <2>1. PICK rc \in a.heard : /\ ~ AfterSnapshot(a, rc)
                                /\ \/ ~ (rc.size \in DOMAIN a.entries /\ a.entries[rc.size].stmt = rc.stmt)
                                   \/ ~ Extends(a, rc.size, rc.root)
      BY <1>8 DEF ReceiptsInOrder, Missing, Asked
    <2>2. /\ rc.size \in Nat /\ rc.root \in Seq(Statement) /\ rc.at \in Nat /\ rc \in Receipts
      BY <1>1, AuditFields DEF Receipts
    <2>3. /\ rc.size \in 1 .. Len(log) /\ rc.stmt = log[rc.size].stmt /\ rc.at = log[rc.size].at
          /\ Len(rc.root) = rc.size /\ OfLog(rc.root)
      BY <1>4 DEF Promised
    <2>4. rc.size > a.size
      <3>1. SUFFICES ASSUME rc.size <= a.size PROVE FALSE
        BY <1>1, <2>2
      <3>2. Extends(a, rc.size, rc.root)
        BY <1>6, <2>2, <2>3, <3>1
      <3>3. rc.size \in 1 .. a.size /\ DOMAIN a.entries = 1 .. a.size
        BY <1>1, <1>2, <2>2, <2>3, <3>1, LogEntry
      <3>4. a.entries[rc.size].stmt = rc.stmt
        BY <1>2, <1>3, <1>4, <2>3, <3>3 DEF OfLog
      <3> QED BY <2>1, <3>2, <3>3, <3>4
    <2>5. rc.at >= a.time /\ ~ (rc.at > a.time)
      BY <1>4, <2>1, <2>3, <2>4 DEF AfterSnapshot
    <2>6. rc.at = a.time
      BY <1>1, <2>2, <2>5
    <2> QED BY <2>4, <2>6 DEF SameInstant
  <1>9. CASE \E u \in Exported(a) : ~ Replayed(a, u)
    <2>1. PICK u \in Exported(a) : ~ Replayed(a, u)
      BY <1>9
    <2>2. CASE Judgements(a, u) = {}
      BY <2>1, <2>2
    <2>3. CASE \E i \in Judgements(a, u) : ~ a.entries[i].stmt.right
      <3>1. PICK i \in Judgements(a, u) : ~ a.entries[i].stmt.right
        BY <2>3
      <3>2. i \in 1 .. a.size
        BY <1>1, <1>2, <3>1, LogEntry DEF Judgements
      <3> QED BY <1>3, <3>1, <3>2
    <2> QED BY <2>1, <2>2, <2>3 DEF Replayed
  <1> QED BY <1>5, <1>7, <1>8, <1>9 DEF InOrder

LEMMA VerifyKeeps ==
  ASSUME AuditInv, Verify
  PROVE  AuditInv'
  <1>1. /\ audit # NULL /\ audit.asked # {} /\ audit' = NULL
        /\ report' = Report(audit)
        /\ UNCHANGED <<clock, log, held, omitted>>
    BY DEF Verify, Holder
  <1>2. report'.ok <=> InOrder(audit)
    BY <1>1 DEF Report, InOrder
  <1>3. report'.of = audit
    BY <1>1 DEF Report
  <1>4. checkpoint' = IF report'.ok THEN [size |-> audit.size, root |-> audit.root] ELSE checkpoint
    BY DEF Verify
  <1>5. audit \in Audits /\ audit.size \in Nat /\ audit.root \in Seq(Statement)
    BY <1>1, AuditFields DEF AuditInv, TypeOK
  <1>6. TypeOK'
    BY <1>1, <1>4, <1>5 DEF AuditInv, TypeOK
  <1>7. LogFounded' /\ AuditCopied' /\ AuditWhole'
    BY <1>1 DEF AuditInv, LogFounded, AuditCopied, AuditWhole
  <1>8. CheckpointWhole'
    BY <1>1, <1>4 DEF AuditInv, CheckpointWhole, AuditCopied, Copied
  <1>9. NothingOmitted'
    BY <1>1, <1>4 DEF AuditInv, NothingOmitted, Promised, OfLog
  <1>10. OmissionCaught'
    BY <1>1, <1>2, <1>3, InOrderMeans DEF OmissionCaught
  <1>11. NoWrongVerdictPasses'
    BY <1>1, <1>2, <1>3, InOrderMeans DEF NoWrongVerdictPasses
  <1>12. NoFalseAlarm'
    <2>1. omitted \in Nat
      BY DEF AuditInv, TypeOK
    <2> QED BY <1>1, <1>2, <1>3, <2>1, FailureMeans DEF NoFalseAlarm
  <1> QED BY <1>6, <1>7, <1>8, <1>9, <1>10, <1>11, <1>12 DEF AuditInv

(* What the audit relies on holds at every step of it.                     *)
THEOREM AuditInvariant == Spec => []AuditInv
  <1>1. AuditInv /\ [Next]_vars => AuditInv'
    <2> SUFFICES ASSUME AuditInv, [Next]_vars PROVE AuditInv'
      OBVIOUS
    <2>1. CASE Tick
      BY <2>1, TickKeeps
    <2>2. CASE \E st \in Statement : Register(st)
      BY <2>2, RegisterKeeps
    <2>3. CASE \E p \in Holder, i \in DOMAIN log : Keep(p, i)
      BY <2>3, KeepKeeps
    <2>4. CASE \E u \in Sub : Omit(u)
      BY <2>4, OmitKeeps
    <2>5. CASE TakeHead
      BY <2>5, TakeHeadKeeps
    <2>6. CASE Page
      BY <2>6, PageKeeps
    <2>7. CASE Abort
      BY <2>7, AbortKeeps
    <2>8. CASE Verify
      BY <2>8, VerifyKeeps
    <2>9. CASE \E p \in Holder : Collect(p)
      BY <2>9, CollectKeeps
    <2>10. CASE UNCHANGED vars
      <3>1. UNCHANGED <<clock, log, held, audit, checkpoint, report, omitted>>
        BY <2>10 DEF vars
      <3>2. TypeOK' /\ LogFounded' /\ AuditCopied' /\ AuditWhole' /\ CheckpointWhole'
        BY <3>1 DEF AuditInv, TypeOK, LogFounded, AuditCopied, Copied, Founded, AuditWhole, CheckpointWhole
      <3>3. NothingOmitted'
        BY <3>1 DEF AuditInv, NothingOmitted, Promised, OfLog
      <3> QED BY <3>1, <3>2, <3>3, ReportStays DEF AuditInv
    <2> QED BY <2>1, <2>2, <2>3, <2>4, <2>5, <2>6, <2>7, <2>8, <2>9, <2>10 DEF Next
  <1> QED BY InitEstablishes, <1>1, PTL DEF Spec

(* An audit that is in order extends the tree of every receipt collected:  *)
(* no omission, whenever it happened, gets past it (replay.py:85-112).     *)
THEOREM OmissionsAreCaught == Spec => []OmissionCaught
  <1>1. AuditInv => OmissionCaught
    BY DEF AuditInv
  <1> QED BY <1>1, AuditInvariant, PTL

(* No audit that is in order covers a wrong verdict (replay.py:253-256).   *)
THEOREM WrongVerdictsFail == Spec => []NoWrongVerdictPasses
  <1>1. AuditInv => NoWrongVerdictPasses
    BY DEF AuditInv
  <1> QED BY <1>1, AuditInvariant, PTL

(* An honest T fails an audit only for a missing verdict, or a receipt of  *)
(* the same millisecond (replay.py:104).                                   *)
THEOREM AlarmsAreTrue == Spec => []NoFalseAlarm
  <1>1. AuditInv => NoFalseAlarm
    BY DEF AuditInv
  <1> QED BY <1>1, AuditInvariant, PTL

(* Each checkpoint that U keeps extends the one before                     *)
(* (agent.py:369-379).                                                     *)
THEOREM CheckpointsAreOneHistory == Spec => CheckpointsExtend
  <1> DEFINE Extended ==
        checkpoint # NULL =>
          /\ checkpoint'.size >= checkpoint.size
          /\ SubSeq(checkpoint'.root, 1, checkpoint.size) = checkpoint.root
  <1>1. ASSUME AuditInv, UNCHANGED checkpoint PROVE Extended
    <2>1. checkpoint # NULL =>
            /\ checkpoint.size \in Nat /\ checkpoint.root \in Seq(Statement)
            /\ Len(checkpoint.root) = checkpoint.size
      BY <1>1 DEF AuditInv, TypeOK, CheckpointWhole
    <2>2. checkpoint # NULL => SubSeq(checkpoint.root, 1, Len(checkpoint.root)) = checkpoint.root
      BY <2>1, SameFirst
    <2> QED BY <1>1, <2>1, <2>2
  <1>2. ASSUME AuditInv, Verify PROVE Extended
    <2>1. CASE InOrder(audit)
      <3>1. checkpoint' = [size |-> audit.size, root |-> audit.root]
        BY <1>2, <2>1 DEF Verify, Report
      <3>2. checkpoint # NULL =>
              checkpoint.size <= audit.size /\ SubSeq(audit.root, 1, checkpoint.size) = checkpoint.root
        BY <1>2, <2>1, InOrderMeans DEF Verify, Holder
      <3> QED BY <3>1, <3>2
    <2>2. CASE ~ InOrder(audit)
      BY <1>1, <1>2, <2>2 DEF Verify, Report
    <2> QED BY <2>1, <2>2
  <1>3. AuditInv /\ [Next]_vars => [Extended]_vars
    BY <1>1, <1>2 DEF Next, Tick, Register, Keep, Omit, TakeHead, Page, Abort, Collect
  <1> QED BY <1>3, AuditInvariant, PTL DEF Spec, CheckpointsExtend

=============================================================================
