------------------------------ MODULE Registry ------------------------------
(***************************************************************************)
(* The third party T (Service with role "T" in runtime/service.py).        *)
(*                                                                         *)
(* T keeps the log twice: in memory, where it decides (self.log), and in a *)
(* SQLite table, which survives (journal).  A registration appends to the  *)
(* memory first and inserts the row second; when the insert fails T        *)
(* rebuilds the memory from the rows, and that can fail as well.           *)
(* Every operation runs under the service lock and is one action here.     *)
(* What varies is the outcome of the insert, given by the action taken.    *)
(***************************************************************************)
EXTENDS Naturals, Sequences, FiniteSets

CONSTANTS
  Sub,            \* request identifiers
  Request,        \* the part of private evidence that binds a request
  MaxLogEntries,  \* config max_log_entries, 100000 by default
  NoSub,          \* the subject of the policy statement
  NULL

ASSUME RegistryAssumption ==
  /\ MaxLogEntries \in Nat
  /\ NoSub \notin Sub
  /\ NULL \notin [request : Request, response : BOOLEAN]

VARIABLES
  log,       \* self.log.entries: what T answers from
  journal,   \* the journal table: position i holds seq i - 1
  private,   \* private:<sub> records, NULL when there is none
  receipts,  \* history: every receipt T has returned
  retired    \* whether T's retirement.json exists

registryVars == <<log, journal, private, receipts, retired>>

-----------------------------------------------------------------------------
(* Statements.  ver tells apart different statements of one issuer, type   *)
(* and request; basis is the private evidence a submission carries or a    *)
(* verdict was computed from; cut is how many entries a verdict had before *)
(* it.                                                                     *)

Private == [request : Request, response : BOOLEAN]

StatementTypes == {"policy", "contract", "observation", "relay", "receipt", "verdict"}

Item == [iss : {"U", "R", "M", "T"}, ct : StatementTypes \cup {"private"},
         sub : Sub \cup {NoSub}, ver : Nat, basis : Private \cup {NULL}, cut : Nat]

Statement(iss, ct, sub, ver) ==
  [iss |-> iss, ct |-> ct, sub |-> sub, ver |-> ver, basis |-> NULL, cut |-> 0]

PrivateItem(sub, p) ==
  [iss |-> "U", ct |-> "private", sub |-> sub, ver |-> 0, basis |-> p, cut |-> 0]

Policy == Statement("T", "policy", NoSub, 1)

(* TYPES in runtime/common/primitives.py: who may submit what. *)
Types == [U |-> {"contract", "observation"}, R |-> {"relay"}, M |-> {"receipt"}, T |-> {"verdict"}]

Receipt == [stmt : Item, index : Nat]

-----------------------------------------------------------------------------
(* register(stmt): the row with this hash, or the end of the log. *)

Known(st) == \E i \in DOMAIN journal : journal[i] = st

InLog(sub, ct) == \E i \in DOMAIN log : log[i].sub = sub /\ log[i].ct = ct

Admissible(st) ==
  /\ ~ Known(st)
  /\ Len(log) < MaxLogEntries
  /\ st.ct # "verdict" => ~ InLog(st.sub, st.ct)

(* Mutant: INSERT OR REPLACE, so that a short memory copy overwrites rows. *)
RegisterReplacing(st, i) ==
  /\ \/ /\ i \in DOMAIN journal
        /\ journal[i] = st
        /\ UNCHANGED <<log, journal>>
     \/ /\ Admissible(st)
        /\ i = Len(log) + 1
        /\ log' = Append(log, st)
        /\ journal' = IF i \in DOMAIN journal THEN [journal EXCEPT ![i] = st] ELSE Append(journal, st)
  /\ receipts' = receipts \cup {[stmt |-> st, index |-> i]}

(* The statement is registered at place i: it already was, or both copies  *)
(* grow.  The row's key is the place in the memory copy, so the insert can *)
(* only succeed where the table ends.                                      *)
Register(st, i) ==
  /\ \/ /\ i \in DOMAIN journal
        /\ journal[i] = st
        /\ UNCHANGED <<log, journal>>
     \/ /\ Admissible(st)
        /\ i = Len(log) + 1
        /\ i = Len(journal) + 1
        /\ log' = Append(log, st)
        /\ journal' = Append(journal, st)
  /\ receipts' = receipts \cup {[stmt |-> st, index |-> i]}

(* Mutant: the memory copy is left as it is when the insert raises. *)
RegisterFailsUnrepaired(st, kept) ==
  /\ Admissible(st)
  /\ log' = Append(log, st)
  /\ UNCHANGED <<journal, receipts>>

(* The insert raises, and the memory copy is rebuilt from the rows.  When  *)
(* reading them fails too, the new copy stops after the rows it has read:  *)
(* after the policy, which the constructor puts there, or later.           *)
RegisterFails(st, kept) ==
  /\ Admissible(st)
  /\ kept \in 1 .. Len(journal)
  /\ log' = SubSeq(journal, 1, kept)
  /\ UNCHANGED <<journal, receipts>>

RegisterRefused(st) ==
  /\ ~ Known(st)
  /\ ~ Admissible(st)
  /\ UNCHANGED <<log, journal, receipts>>

-----------------------------------------------------------------------------
(* third_party: submit *)

MayRegister(actor, st) ==
  /\ st.ct = "contract" => ~ retired
  /\ st.ct \in Types[actor]
  /\ st.iss = actor

SubmitAccepted(actor, st, i) ==
  /\ MayRegister(actor, st)
  /\ Register(st, i)
  /\ UNCHANGED <<private, retired>>

SubmitFails(actor, st, kept) ==
  /\ MayRegister(actor, st)
  /\ RegisterFails(st, kept)
  /\ UNCHANGED <<private, retired>>

SubmitRefused(actor, st) ==
  /\ \/ /\ ~ MayRegister(actor, st)
        /\ UNCHANGED <<log, journal, receipts>>
     \/ /\ MayRegister(actor, st)
        /\ RegisterRefused(st)
  /\ UNCHANGED <<private, retired>>

(* Private evidence needs the contract, and may only complete what is      *)
(* stored: the request part is fixed by the first submission.              *)
MayStore(sub, p) ==
  /\ InLog(sub, "contract")
  /\ private[sub] # NULL => private[sub].request = p.request

StoreAccepted(sub, p) ==
  /\ MayStore(sub, p)
  /\ private' = [private EXCEPT ![sub] = p]
  /\ UNCHANGED <<log, journal, receipts, retired>>

StoreRefused(sub, p) ==
  /\ ~ MayStore(sub, p)
  /\ UNCHANGED registryVars

-----------------------------------------------------------------------------
(* third_party: verdict.  Every call signs and registers a new verdict on  *)
(* the entries and the private evidence T has at that moment.              *)

MayJudge(sub) == private[sub] # NULL /\ InLog(sub, "contract")

VerdictOn(sub) ==
  [iss |-> "T", ct |-> "verdict", sub |-> sub, ver |-> 1, basis |-> private[sub], cut |-> Len(log)]

Verdict(sub, i) ==
  /\ MayJudge(sub)
  /\ Register(VerdictOn(sub), i)
  /\ UNCHANGED <<private, retired>>

VerdictFails(sub, kept) ==
  /\ MayJudge(sub)
  /\ RegisterFails(VerdictOn(sub), kept)
  /\ UNCHANGED <<private, retired>>

(* The process dies and starts again: _reload_log rebuilds the memory from *)
(* the rows, and a start that cannot read them does not serve.             *)
Restart ==
  /\ log' = journal
  /\ UNCHANGED <<journal, private, receipts, retired>>

(* The operator activates a successor epoch in T's directory. *)
Retire ==
  /\ ~ retired
  /\ retired' = TRUE
  /\ UNCHANGED <<log, journal, private, receipts>>

-----------------------------------------------------------------------------
(* T on its own: any party submits any statement it can sign, in any order *)
(* and any number of times.                                                *)

Submission ==
  {Statement(a, ct, u, v) : a \in {"U", "R", "M"},
     ct \in {"contract", "observation", "relay", "receipt"}, u \in Sub, v \in {1, 2}}

RegistryInit ==
  /\ log = <<Policy>>
  /\ journal = <<Policy>>
  /\ private = [u \in Sub |-> NULL]
  /\ receipts = {}
  /\ retired = FALSE

Submit ==
  \E st \in Submission :
    \/ \E i \in 1 .. MaxLogEntries : SubmitAccepted(st.iss, st, i)
    \/ \E kept \in 1 .. Len(journal) : SubmitFails(st.iss, st, kept)
    \/ SubmitRefused(st.iss, st)

Store == \E u \in Sub, p \in Private : StoreAccepted(u, p) \/ StoreRefused(u, p)

Judge ==
  \E u \in Sub :
    \/ \E i \in 1 .. MaxLogEntries : Verdict(u, i)
    \/ \E kept \in 1 .. Len(journal) : VerdictFails(u, kept)

RegistryNext == Submit \/ Store \/ Judge \/ Restart \/ Retire

RegistrySpec == RegistryInit /\ [][RegistryNext]_registryVars

-----------------------------------------------------------------------------
(* Properties. *)

RegistryTypeOK ==
  /\ log \in Seq(Item)
  /\ journal \in Seq(Item)
  /\ private \in [Sub -> Private \cup {NULL}]
  /\ receipts \subseteq Receipt
  /\ retired \in BOOLEAN

(* What T answers from is never ahead of, or different from, what it would *)
(* find after a restart, also between a failed insert, a failed rebuild    *)
(* and the next attempt (service.py:85-93).                                *)
MemoryFollowsJournal ==
  /\ 1 <= Len(log) /\ Len(log) <= Len(journal)
  /\ \A i \in 1 .. Len(log) : log[i] = journal[i]

(* Every receipt T ever returned names an entry that is still in place.    *)
ReceiptsBacked ==
  \A rc \in receipts : rc.index \in 1 .. Len(journal) /\ journal[rc.index] = rc.stmt

(* One observation per type and request (service.py:81), even though the   *)
(* check reads the memory copy, which may be short.                        *)
OneOfAType ==
  \A i, j \in 1 .. Len(journal) :
    /\ journal[i].sub = journal[j].sub
    /\ journal[i].ct = journal[j].ct
    /\ journal[i].ct # "verdict"
    => i = j

(* All verdicts on a request were computed from the same request evidence, *)
(* after its contract, and from exactly the entries before them            *)
(* (service.py:157-166, 171-180).                                          *)
VerdictsConsistent ==
  \A i \in 1 .. Len(journal) : journal[i].ct = "verdict" =>
    /\ journal[i].cut = i - 1
    /\ \E j \in 1 .. i - 1 : journal[j].sub = journal[i].sub /\ journal[j].ct = "contract"
    /\ private[journal[i].sub] # NULL
    /\ private[journal[i].sub].request = journal[i].basis.request

AOL == INSTANCE AppendOnlyLog WITH Entry <- Item, ledger <- journal, promised <- receipts

(* T keeps the promise of an append-only log with receipts. *)
KeepsPromise == AOL!Spec

=============================================================================
