-------------------------------- MODULE Audit --------------------------------
(***************************************************************************)
(* The audit of T by U: a signed head, the entries under it in pages, the  *)
(* receipts U holds and those R and M hand over, the replay                *)
(* (Agent.audit, runtime/auditing.py, audit/replay.py), and the checkpoint *)
(* U keeps for the next time.                                              *)
(*                                                                         *)
(* T goes on registering while an audit runs.  It may also do what the     *)
(* audit is there to find: leave out a request and number the rest anew    *)
(* (TransparencyLog.drop_sub), or register a verdict that does not follow  *)
(* from the evidence.  A root hash stands for the statements under it.     *)
(* Signatures, the policy entry and private evidence are left out, and so  *)
(* are the receipts T exports with its entries: it signs them itself.      *)
(***************************************************************************)
EXTENDS Naturals, Sequences, FiniteSets

CONSTANTS
  Sub,
  Issuers,     \* the parties whose statements are of interest
  MaxEntries,  \* bound on the log
  MaxTime,     \* bound on the clock
  MaxAudits,   \* bound on the audits
  PageSize,    \* entries per page (64)
  MaxOmissions, \* how often T may leave out a request
  MayMisjudge, \* whether T may register a wrong verdict
  NULL

ASSUME AuditAssumption ==
  /\ Issuers \subseteq {"U", "R", "M"}
  /\ MaxEntries \in Nat /\ MaxTime \in Nat /\ MaxAudits \in Nat /\ PageSize \in Nat \ {0}
  /\ MaxOmissions \in Nat /\ MayMisjudge \in BOOLEAN

Holder == {"U", "R", "M"}

VARIABLES
  clock,       \* now_ms() of T
  log,         \* T's entries
  held,        \* receipt:<hash> records of each holder
  audit,       \* the audit under way, NULL when there is none
  checkpoint,  \* the head of the last audit that was in order
  report,      \* the report of the last audit
  audits,      \* history: how many audits were begun
  omitted      \* history: how often T has left something out

vars == <<clock, log, held, audit, checkpoint, report, audits, omitted>>

-----------------------------------------------------------------------------
(* Entries and receipts. *)

Evidence == [iss : Issuers, ct : {"evidence"}, sub : Sub, right : {TRUE}]
Verdicts == [iss : {"T"}, ct : {"verdict"}, sub : Sub, right : BOOLEAN]
Statement == Evidence \cup Verdicts

Statements(entries) == [i \in DOMAIN entries |-> entries[i].stmt]

(* tree_head: what the log is at this moment. *)
TreeHead == [size |-> Len(log), root |-> Statements(log), time |-> clock]

Under(entries, size) == SubSeq(Statements(entries), 1, size)

ReceiptOf(i) == [stmt |-> log[i].stmt, size |-> i, root |-> Under(log, i), at |-> log[i].at]

-----------------------------------------------------------------------------
(* T and the parties, for as long as there is an audit to come. *)

Ongoing == audit # NULL \/ audits < MaxAudits

Tick ==
  /\ Ongoing
  /\ clock < MaxTime
  /\ clock' = clock + 1
  /\ UNCHANGED <<log, held, audit, checkpoint, report, audits, omitted>>

(* A party's statement, or a verdict.  A verdict follows from the evidence *)
(* T has, so there must be some.  The log has each statement once; one     *)
(* right and one wrong verdict on a request are told apart.                *)
Register(st) ==
  /\ Ongoing
  /\ Len(log) < MaxEntries
  /\ \A i \in DOMAIN log : log[i].stmt # st
  /\ st.ct = "verdict" =>
       /\ st.right \/ MayMisjudge
       /\ \E i \in DOMAIN log : log[i].stmt.sub = st.sub /\ log[i].stmt.ct = "evidence"
  /\ log' = Append(log, [stmt |-> st, at |-> clock])
  /\ UNCHANGED <<clock, held, audit, checkpoint, report, audits, omitted>>

(* The receipt reaches its party at once or after a retry, and takes the   *)
(* place of an earlier one for the same statement.                         *)
Replaced(receipts, rc) == {old \in receipts : old.stmt # rc.stmt} \cup {rc}

Keep(p, i) ==
  /\ Ongoing
  /\ log[i].stmt.iss = p \/ (p = "U" /\ log[i].stmt.iss = "T")
  /\ held' = [held EXCEPT ![p] = Replaced(@, ReceiptOf(i))]
  /\ UNCHANGED <<clock, log, audit, checkpoint, report, audits, omitted>>

(* The entries that are not about u, in order: the k-th is entries[at[k]]. *)
Rest(at, u) ==
  /\ \A i \in DOMAIN at, j \in DOMAIN at : i < j => at[i] < at[j]
  /\ {at[k] : k \in DOMAIN at} = {i \in DOMAIN log : log[i].stmt.sub # u}

Omit(u) ==
  /\ Ongoing
  /\ omitted < MaxOmissions
  /\ \E i \in DOMAIN log : log[i].stmt.sub = u
  /\ \E n \in 0 .. Len(log) : \E at \in [1 .. n -> DOMAIN log] :
       Rest(at, u) /\ log' = [k \in 1 .. n |-> log[at[k]]]
  /\ omitted' = omitted + 1
  /\ UNCHANGED <<clock, held, audit, checkpoint, report, audits>>

-----------------------------------------------------------------------------
(* One audit. *)

TakeHead ==
  /\ audit = NULL
  /\ audits < MaxAudits
  /\ log # <<>>
  /\ audits' = audits + 1
  /\ audit' = [size |-> TreeHead.size, root |-> TreeHead.root, time |-> TreeHead.time,
                entries |-> <<>>, asked |-> {}, heard |-> {}]
  /\ UNCHANGED <<clock, log, held, checkpoint, report, omitted>>

(* T serves a page only while its log still has the root of the head. *)
Paged(a, n) ==
  [a EXCEPT !.entries = a.entries \o SubSeq(log, Len(a.entries) + 1, Len(a.entries) + n)]

Page ==
  /\ audit # NULL
  /\ Len(audit.entries) < audit.size
  /\ audit.size <= Len(log) /\ Under(log, audit.size) = audit.root
  /\ \E n \in 1 .. PageSize :
       /\ Len(audit.entries) + n <= audit.size
       /\ audit' = Paged(audit, n)
  /\ UNCHANGED <<clock, log, held, checkpoint, report, audits, omitted>>

(* A page is refused or does not come, and audit() raises. *)
Abort ==
  /\ audit # NULL
  /\ audit' = NULL
  /\ UNCHANGED <<clock, log, held, checkpoint, report, audits, omitted>>

(* U's own receipts are read after the export, then those of R and of M. *)
Told(a, p, receipts) ==
  [a EXCEPT !.asked = a.asked \cup {p}, !.heard = a.heard \cup receipts]

Collect(p) ==
  /\ audit # NULL
  /\ Len(audit.entries) = audit.size
  /\ p \notin audit.asked
  /\ p # "U" => "U" \in audit.asked
  /\ p = "M" => "R" \in audit.asked
  /\ \E reached \in (IF p = "U" THEN {TRUE} ELSE BOOLEAN) :
       audit' = Told(audit, p, IF reached THEN held[p] ELSE {})
  /\ UNCHANGED <<clock, log, held, checkpoint, report, audits, omitted>>

(* Mutant: a receipt for a place past the end is not asked about. *)
AfterSnapshotBySize(a, rc) == rc.size > a.size

(* Mutant: every receipt has to be answered for. *)
AfterSnapshotNever(a, rc) == FALSE

(* Registered after the head was taken: not for this snapshot to answer. *)
AfterSnapshot(a, rc) == rc.at > a.time /\ rc.size > a.size

Asked(a) == {rc \in a.heard : ~ AfterSnapshot(a, rc)}

Missing(a) ==
  {rc \in Asked(a) : ~ (rc.size \in DOMAIN a.entries /\ a.entries[rc.size].stmt = rc.stmt)}

(* CheckpointAnchor.verify_tree: the export extends an earlier tree. *)
Extends(a, size, root) == size <= Len(a.entries) /\ Under(a.entries, size) = root

ReceiptsInOrder(a) == Missing(a) = {} /\ \A rc \in Asked(a) : Extends(a, rc.size, rc.root)

(* Every request in the export has a verdict, and every verdict on it is   *)
(* the one the replay comes to.                                            *)
Judgements(a, u) ==
  {i \in DOMAIN a.entries : a.entries[i].stmt.ct = "verdict" /\ a.entries[i].stmt.sub = u}

(* Mutant: only the last verdict on a request is replayed. *)
ReplayedLatest(a, u) ==
  \E i \in Judgements(a, u) : a.entries[i].stmt.right /\ \A j \in Judgements(a, u) : j <= i

Replayed(a, u) == Judgements(a, u) # {} /\ \A i \in Judgements(a, u) : a.entries[i].stmt.right

Exported(a) ==
  {a.entries[i].stmt.sub : i \in {j \in DOMAIN a.entries : a.entries[j].stmt.ct = "evidence"}}

InOrder(a) ==
  /\ Under(a.entries, a.size) = a.root
  /\ checkpoint # NULL => Extends(a, checkpoint.size, checkpoint.root)
  /\ ReceiptsInOrder(a)
  /\ \A u \in Exported(a) : Replayed(a, u)

(* verify_export: the export is whole and what the replay says of it. *)
Report(a) == [ok |-> InOrder(a), of |-> a, missing |-> Missing(a)]

(* Mutant: the checkpoint moves whatever the report says. *)
VerifyMoving ==
  /\ audit # NULL
  /\ audit.asked = Holder
  /\ report' = Report(audit)
  /\ checkpoint' = [size |-> audit.size, root |-> audit.root]
  /\ audit' = NULL
  /\ UNCHANGED <<clock, log, held, audits, omitted>>

(* The report is kept, and the head too if everything is in order. *)
Verify ==
  /\ audit # NULL
  /\ audit.asked = Holder
  /\ report' = Report(audit)
  /\ checkpoint' = IF report'.ok THEN [size |-> audit.size, root |-> audit.root] ELSE checkpoint
  /\ audit' = NULL
  /\ UNCHANGED <<clock, log, held, audits, omitted>>

-----------------------------------------------------------------------------

Init ==
  /\ clock = 0
  /\ log = <<>>
  /\ held = [p \in Holder |-> {}]
  /\ audit = NULL
  /\ checkpoint = NULL
  /\ report = NULL
  /\ audits = 0
  /\ omitted = 0

Next ==
  \/ Tick
  \/ \E st \in Statement : Register(st)
  \/ \E p \in Holder, i \in DOMAIN log : Keep(p, i)
  \/ \E u \in Sub : Omit(u)
  \/ TakeHead \/ Page \/ Abort \/ Verify
  \/ \E p \in Holder : Collect(p)

Spec == Init /\ [][Next]_vars

-----------------------------------------------------------------------------
(* Properties. *)

(* An audit that is in order leaves nothing a holder was promised behind:  *)
(* whatever T left out or rearranged, before the first audit or between    *)
(* two, the export extends the very tree each collected receipt was given  *)
(* for ("an auditor who threw the receipts away sees nothing",             *)
(* tests/test_runtime.py:172).                                             *)
OmissionCaught ==
  report # NULL /\ report.ok =>
    \A rc \in report.of.heard : rc.at <= report.of.time =>
      rc.size <= report.of.size /\ SubSeq(report.of.root, 1, rc.size) = rc.root

(* One wrong verdict fails the audit, however many right ones follow       *)
(* (replay.py:253-256; "a right answer later does not hide a past wrong    *)
(* verdict", docs/desktop-runtime-v0.3.md:63).                             *)
NoWrongVerdictPasses ==
  report # NULL /\ report.ok => \A i \in 1 .. report.of.size : report.of.root[i].right

(* No false alarm: an audit of a T that left nothing out and misjudged     *)
(* nothing fails only for a request without a verdict in the export, or    *)
(* for a receipt of the very millisecond the head was taken in.            *)
SameInstant(a) == \E rc \in a.heard : rc.at = a.time /\ rc.size > a.size

NoFalseAlarm ==
  report # NULL /\ ~ report.ok =>
    \/ omitted > 0
    \/ \E i \in 1 .. report.of.size : ~ report.of.root[i].right
    \/ \E u \in Exported(report.of) : Judgements(report.of, u) = {}
    \/ SameInstant(report.of)

(* The checkpoints U keeps form one history: each extends the one before,  *)
(* whatever T does to its log in between (agent.py:369-379).               *)
CheckpointsExtend ==
  [][checkpoint # NULL =>
       checkpoint'.size >= checkpoint.size /\ SubSeq(checkpoint'.root, 1, checkpoint.size) = checkpoint.root]_vars

(* What is registered after the head was taken is not counted as missing:  *)
(* "a receipt registered after the audit head was taken is not for this    *)
(* snapshot; counting it as missing would fail an ordinary deployment      *)
(* every time" (tests/test_audit.py:143).                                  *)
HonestNeverMissing == report # NULL /\ omitted = 0 => report.missing = {}

=============================================================================
