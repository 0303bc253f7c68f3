--------------------------- MODULE Registry_proofs ---------------------------
(***************************************************************************)
(* The invariants of T's registry hold for every set of requests, every    *)
(* log capacity and every pattern of failed inserts, failed rebuilds and   *)
(* restarts, and the registry implements an append-only log.               *)
(*                                                                         *)
(* The inductive invariant is the conjunction of the checked properties.   *)
(* Not all are inductive alone: an insert keeps types unique only because  *)
(* the memory copy, where the check is made, is the whole journal whenever *)
(* the insert can succeed; a verdict's cut is its place for that reason.   *)
(***************************************************************************)
EXTENDS Registry, TLAPS

RegistryInv ==
  /\ RegistryTypeOK
  /\ MemoryFollowsJournal
  /\ ReceiptsBacked
  /\ OneOfAType
  /\ VerdictsConsistent

(* Every operation of T, on any item: what a module that composes T with   *)
(* the parties can do to T's state.                                        *)
RegistryStep ==
  \/ \E st \in Item, a \in {"U", "R", "M", "T"} :
       \/ \E i \in Nat : SubmitAccepted(a, st, i) /\ a # "T"
       \/ \E kept \in Nat : SubmitFails(a, st, kept)
       \/ SubmitRefused(a, st)
  \/ \E u \in Sub, p \in Private : StoreAccepted(u, p) \/ StoreRefused(u, p)
  \/ \E u \in Sub : \/ \E i \in Nat : Verdict(u, i)
                    \/ \E kept \in Nat : VerdictFails(u, kept)
  \/ Restart
  \/ Retire

-----------------------------------------------------------------------------

(* The assumption on NULL, with the set of private records by its name. *)
LEMMA NullOutside == NULL \notin Private
  BY RegistryAssumption DEF RegistryAssumption, Private

(* The policy statement of T is an item of the log. *)
LEMMA PolicyTyped == Policy \in Item
  BY DEF Policy, Statement, Item, StatementTypes

(* A verdict of T is an item of the log. *)
LEMMA VerdictTyped ==
  ASSUME RegistryTypeOK, NEW u \in Sub, MayJudge(u)
  PROVE  VerdictOn(u) \in Item
  BY DEF RegistryTypeOK, MayJudge, VerdictOn, Item, StatementTypes

(* The log starts with the policy statement, and the invariant holds. *)
LEMMA InitInv == RegistryInit => RegistryInv
  <1> SUFFICES ASSUME RegistryInit PROVE RegistryInv
    OBVIOUS
  <1>1. RegistryTypeOK
    <2>1. <<Policy>> \in Seq(Item)
      BY PolicyTyped
    <2> QED BY <2>1 DEF RegistryInit, RegistryTypeOK
  <1>2. MemoryFollowsJournal /\ ReceiptsBacked /\ OneOfAType
    BY DEF RegistryInit, MemoryFollowsJournal, ReceiptsBacked, OneOfAType
  <1>3. VerdictsConsistent
    BY DEF RegistryInit, VerdictsConsistent, Policy, Statement
  <1> QED BY <1>1, <1>2, <1>3 DEF RegistryInv

(* Neither copy changes, or only the memory copy is rebuilt. *)
LEMMA RebuildPreserves ==
  ASSUME RegistryInv, UNCHANGED <<journal, private, receipts>>, retired' \in BOOLEAN,
         \/ log' = log
         \/ log' = journal
         \/ \E kept \in 1 .. Len(journal) : log' = SubSeq(journal, 1, kept)
  PROVE  RegistryInv'
  <1> USE DEF RegistryInv, RegistryTypeOK
  <1>1. ASSUME NEW kept \in 1 .. Len(journal), log' = SubSeq(journal, 1, kept)
        PROVE  log' \in Seq(Item) /\ Len(log') = kept /\ \A i \in 1 .. kept : log'[i] = journal[i]
    BY <1>1
  <1>2. RegistryTypeOK' /\ MemoryFollowsJournal'
    BY <1>1 DEF MemoryFollowsJournal
  <1>3. ReceiptsBacked' /\ OneOfAType' /\ VerdictsConsistent'
    BY DEF RegistryInv, ReceiptsBacked, OneOfAType, VerdictsConsistent
  <1> QED BY <1>2, <1>3 DEF RegistryInv

(* A successful registration extends both copies, which then agree. *)
LEMMA RegisterPreserves ==
  ASSUME RegistryInv, NEW st \in Item, NEW i \in Nat, Register(st, i),
         UNCHANGED <<private, retired>>,
         st.ct = "verdict" => st.sub \in Sub /\ MayJudge(st.sub) /\ st = VerdictOn(st.sub)
  PROVE  RegistryInv'
  <1>1. CASE i \in DOMAIN journal /\ journal[i] = st /\ UNCHANGED <<log, journal>>
    <2>1. receipts' = receipts \cup {[stmt |-> st, index |-> i]}
      BY DEF Register
    <2>2. RegistryTypeOK' /\ MemoryFollowsJournal' /\ OneOfAType'
      BY <1>1, <2>1 DEF RegistryInv, RegistryTypeOK, MemoryFollowsJournal, OneOfAType, Receipt
    <2>3. ReceiptsBacked'
      BY <1>1, <2>1 DEF RegistryInv, RegistryTypeOK, ReceiptsBacked
    <2>4. VerdictsConsistent'
      BY <1>1 DEF RegistryInv, VerdictsConsistent
    <2> QED BY <2>2, <2>3, <2>4 DEF RegistryInv
  <1>2. CASE /\ Admissible(st)
             /\ i = Len(log) + 1 /\ i = Len(journal) + 1
             /\ log' = Append(log, st) /\ journal' = Append(journal, st)
    <2>1. receipts' = receipts \cup {[stmt |-> st, index |-> i]}
      BY DEF Register
    <2>2. /\ Len(journal') = Len(journal) + 1 /\ journal'[i] = st
          /\ \A k \in 1 .. Len(journal) : journal'[k] = journal[k]
          /\ Len(log') = Len(log) + 1 /\ log'[i] = st
          /\ \A k \in 1 .. Len(log) : log'[k] = log[k]
      BY <1>2 DEF RegistryInv, RegistryTypeOK
    <2>3. RegistryTypeOK'
      BY <1>2, <2>1 DEF RegistryInv, RegistryTypeOK, Receipt
    <2>4. MemoryFollowsJournal' /\ ReceiptsBacked'
      BY <1>2, <2>1, <2>2 DEF RegistryInv, RegistryTypeOK, MemoryFollowsJournal, ReceiptsBacked
    <2>5. \A k \in 1 .. Len(journal) : log[k] = journal[k]
      BY <1>2 DEF RegistryInv, RegistryTypeOK, MemoryFollowsJournal
    <2>6. OneOfAType'
      <3>1. st.ct # "verdict" =>
              \A k \in 1 .. Len(journal) : ~ (journal[k].sub = st.sub /\ journal[k].ct = st.ct)
        <4> SUFFICES ASSUME st.ct # "verdict", NEW k \in 1 .. Len(journal),
                            journal[k].sub = st.sub, journal[k].ct = st.ct
                     PROVE  FALSE
          OBVIOUS
        <4>1. ~ InLog(st.sub, st.ct)
          BY <1>2 DEF Admissible
        <4>2. Len(log) = Len(journal) /\ log \in Seq(Item)
          BY <1>2 DEF RegistryInv, RegistryTypeOK
        <4>3. k \in DOMAIN log
          BY <4>2
        <4>4. log[k] = journal[k]
          BY <2>5
        <4> QED
          BY <4>1, <4>3, <4>4 DEF InLog
      <3> QED
        BY <1>2, <2>2, <3>1 DEF RegistryInv, RegistryTypeOK, OneOfAType
    <2>7. VerdictsConsistent'
      <3> SUFFICES ASSUME NEW k \in 1 .. Len(journal'), journal'[k].ct = "verdict"
                   PROVE  /\ journal'[k].cut = k - 1
                          /\ \E j \in 1 .. k - 1 : journal'[j].sub = journal'[k].sub /\ journal'[j].ct = "contract"
                          /\ private'[journal'[k].sub] # NULL
                          /\ private'[journal'[k].sub].request = journal'[k].basis.request
        BY DEF VerdictsConsistent
      <3>1. CASE k \in 1 .. Len(journal)
        <4>1. journal'[k] = journal[k]
          BY <3>1, <2>2
        <4>2. PICK j \in 1 .. k - 1 : journal[j].sub = journal[k].sub /\ journal[j].ct = "contract"
          BY <3>1, <4>1 DEF RegistryInv, VerdictsConsistent
        <4>3. journal'[j] = journal[j]
          BY <2>2, <3>1, <4>2 DEF RegistryInv, RegistryTypeOK
        <4> QED
          BY <3>1, <4>1, <4>2, <4>3 DEF RegistryInv, VerdictsConsistent
      <3>2. CASE k = i
        <4>1. st.ct = "verdict" /\ journal'[k] = st
          BY <3>2, <2>2
        <4>2. st.sub \in Sub /\ MayJudge(st.sub) /\ st = VerdictOn(st.sub)
          BY <4>1
        <4>3. st.cut = Len(log) /\ st.basis = private[st.sub]
          BY <4>2 DEF VerdictOn
        <4>4. PICK j \in 1 .. Len(log) : log[j].sub = st.sub /\ log[j].ct = "contract"
          BY <4>2 DEF MayJudge, InLog, RegistryInv, RegistryTypeOK
        <4>5. j \in 1 .. k - 1 /\ journal'[j] = log[j]
          BY <1>2, <2>2, <2>5, <3>2, <4>4 DEF RegistryInv, RegistryTypeOK
        <4> QED
          BY <1>2, <3>2, <4>1, <4>2, <4>3, <4>4, <4>5 DEF MayJudge, RegistryInv, RegistryTypeOK
      <3> QED
        BY <3>1, <3>2, <2>2, <1>2 DEF RegistryInv, RegistryTypeOK
    <2> QED BY <2>3, <2>4, <2>6, <2>7 DEF RegistryInv
  <1> QED BY <1>1, <1>2 DEF Register

(* Private evidence is stored, or refused, and the invariant stays. *)
LEMMA StorePreserves ==
  ASSUME RegistryInv, NEW u \in Sub, NEW p \in Private, StoreAccepted(u, p)
  PROVE  RegistryInv'
  <1>1. RegistryTypeOK' /\ MemoryFollowsJournal' /\ ReceiptsBacked' /\ OneOfAType'
    BY DEF StoreAccepted, RegistryInv, RegistryTypeOK, MemoryFollowsJournal,
           ReceiptsBacked, OneOfAType
  <1>2. VerdictsConsistent'
    <2> SUFFICES ASSUME NEW k \in 1 .. Len(journal), journal[k].ct = "verdict"
                 PROVE  private'[journal[k].sub] # NULL /\ private'[journal[k].sub].request = journal[k].basis.request
      BY DEF StoreAccepted, RegistryInv, VerdictsConsistent
    <2>1. private[journal[k].sub] # NULL /\ private[journal[k].sub].request = journal[k].basis.request
      BY DEF RegistryInv, VerdictsConsistent
    <2>2. CASE journal[k].sub = u
      BY <2>1, <2>2, NullOutside DEF StoreAccepted, MayStore, RegistryInv, RegistryTypeOK
    <2>3. CASE journal[k].sub # u
      BY <2>1, <2>3 DEF StoreAccepted, RegistryInv, RegistryTypeOK
    <2> QED BY <2>2, <2>3
  <1> QED BY <1>1, <1>2 DEF RegistryInv

(* Every operation of T preserves the invariant. *)
THEOREM StepPreserves ==
  ASSUME RegistryInv, [RegistryStep]_registryVars
  PROVE  RegistryInv'
  <1> USE DEF registryVars
  <1>1. ASSUME NEW st \in Item, NEW a \in {"U", "R", "M"}, NEW i \in Nat, SubmitAccepted(a, st, i)
        PROVE  RegistryInv'
    <2>1. st.ct # "verdict"
      BY <1>1 DEF SubmitAccepted, MayRegister, Types
    <2> QED BY <1>1, <2>1, RegisterPreserves DEF SubmitAccepted
  <1>2. ASSUME NEW st \in Item, NEW a \in {"U", "R", "M", "T"}, NEW kept \in Nat, SubmitFails(a, st, kept)
        PROVE  RegistryInv'
    BY <1>2, RebuildPreserves DEF SubmitFails, RegisterFails, RegistryInv, RegistryTypeOK
  <1>3. ASSUME NEW st \in Item, NEW a \in {"U", "R", "M", "T"}, SubmitRefused(a, st)
        PROVE  RegistryInv'
    BY <1>3, RebuildPreserves DEF SubmitRefused, RegisterRefused, RegistryInv, RegistryTypeOK
  <1>4. ASSUME NEW u \in Sub, NEW p \in Private, StoreAccepted(u, p) \/ StoreRefused(u, p)
        PROVE  RegistryInv'
    <2>1. CASE StoreRefused(u, p)
      BY <2>1, RebuildPreserves DEF StoreRefused, RegistryInv, RegistryTypeOK
    <2> QED BY <1>4, <2>1, StorePreserves
  <1>5. ASSUME NEW u \in Sub, NEW i \in Nat, Verdict(u, i)
        PROVE  RegistryInv'
    <2>1. VerdictOn(u) \in Item /\ VerdictOn(u).sub = u
      BY <1>5, VerdictTyped DEF Verdict, RegistryInv, VerdictOn
    <2> QED BY <1>5, <2>1, RegisterPreserves DEF Verdict
  <1>6. ASSUME NEW u \in Sub, NEW kept \in Nat, VerdictFails(u, kept)
        PROVE  RegistryInv'
    BY <1>6, RebuildPreserves DEF VerdictFails, RegisterFails, RegistryInv, RegistryTypeOK
  <1>7. CASE Restart \/ Retire \/ UNCHANGED registryVars
    BY <1>7, RebuildPreserves DEF Restart, Retire, RegistryInv, RegistryTypeOK
  <1> QED
    BY <1>1, <1>2, <1>3, <1>4, <1>5, <1>6, <1>7 DEF RegistryStep

(* No entry is ever taken back or changed, and what private evidence binds *)
(* of a request stays, whatever version of it a later call puts in place.  *)
LEMMA NothingTakenBack ==
  ASSUME RegistryInv, [RegistryStep]_registryVars
  PROVE  /\ \A i \in 1 .. Len(journal) : i \in 1 .. Len(journal') /\ journal'[i] = journal[i]
         /\ \A u \in Sub :
              private[u] # NULL => private'[u] # NULL /\ private'[u].request = private[u].request
  <1> USE DEF registryVars, RegistryInv, RegistryTypeOK
  <1>1. ASSUME NEW st \in Item, NEW i \in Nat, Register(st, i)
        PROVE  \A j \in 1 .. Len(journal) : j \in 1 .. Len(journal') /\ journal'[j] = journal[j]
    BY <1>1 DEF Register
  <1>2. ASSUME NEW u \in Sub, MayJudge(u)
        PROVE  VerdictOn(u) \in Item
    BY <1>2, VerdictTyped DEF RegistryInv
  <1>3. \A i \in 1 .. Len(journal) : i \in 1 .. Len(journal') /\ journal'[i] = journal[i]
    BY <1>1, <1>2 DEF RegistryStep, SubmitAccepted, SubmitFails, SubmitRefused, RegisterFails, RegisterRefused,
                      StoreAccepted, StoreRefused, Verdict, VerdictFails, Restart, Retire
  <1>4. ASSUME NEW u \in Sub, private[u] # NULL
        PROVE  private'[u] # NULL /\ private'[u].request = private[u].request
    <2>1. CASE \E v \in Sub, p \in Private : StoreAccepted(v, p)
      BY <1>4, <2>1, NullOutside DEF StoreAccepted, MayStore
    <2>2. CASE private' = private
      BY <1>4, <2>2
    <2> QED
      BY <2>1, <2>2 DEF RegistryStep, SubmitAccepted, SubmitFails, SubmitRefused, StoreRefused, Verdict,
                        VerdictFails, Restart, Retire
  <1> QED BY <1>3, <1>4

-----------------------------------------------------------------------------
(* T on its own.                                                           *)

LEMMA SubmissionTyped == Submission \subseteq Item
  BY DEF Submission, Statement, Item, StatementTypes

(* Every disjunct of the next-state relation is one of the named steps. *)
LEMMA NextIsStep ==
  ASSUME RegistryNext
  PROVE  RegistryStep
  <1>1. ASSUME Submit PROVE RegistryStep
    <2>1. PICK st \in Submission :
            \/ \E i \in 1 .. MaxLogEntries : SubmitAccepted(st.iss, st, i)
            \/ \E kept \in 1 .. Len(journal) : SubmitFails(st.iss, st, kept)
            \/ SubmitRefused(st.iss, st)
      BY <1>1 DEF Submit
    <2>2. st \in Item /\ st.iss \in {"U", "R", "M"}
      BY SubmissionTyped DEF Submission, Statement
    <2> DEFINE a == st.iss
    <2>3. \/ \E i \in 1 .. MaxLogEntries : SubmitAccepted(a, st, i)
          \/ \E kept \in 1 .. Len(journal) : SubmitFails(a, st, kept)
          \/ SubmitRefused(a, st)
      BY <2>1
    <2>4. a \in {"U", "R", "M", "T"} /\ a # "T"
      BY <2>2
    <2> HIDE DEF a
    <2>5. \A i \in 1 .. MaxLogEntries : i \in Nat
      BY RegistryAssumption DEF RegistryAssumption
    <2> QED
      BY <2>2, <2>3, <2>4, <2>5 DEF RegistryStep
  <1>2. ASSUME Store PROVE RegistryStep
    BY <1>2 DEF Store, RegistryStep
  <1>3. ASSUME Judge PROVE RegistryStep
    <2>1. \A i \in 1 .. MaxLogEntries : i \in Nat
      BY RegistryAssumption DEF RegistryAssumption
    <2> QED
      BY <1>3, <2>1 DEF Judge, RegistryStep
  <1> QED
    BY <1>1, <1>2, <1>3 DEF RegistryNext, RegistryStep

(* The inductive invariant holds in every state T can reach. *)
THEOREM Invariance == RegistrySpec => []RegistryInv
  <1>1. RegistryInit => RegistryInv
    BY InitInv
  <1>2. RegistryInv /\ [RegistryNext]_registryVars => RegistryInv'
    BY NextIsStep, StepPreserves
  <1> QED
    BY <1>1, <1>2, PTL DEF RegistrySpec

(* Every variable of T keeps its type. *)
THEOREM RegistryTypes == RegistrySpec => []RegistryTypeOK
  <1>1. RegistryInv => RegistryTypeOK
    BY DEF RegistryInv
  <1> QED
    BY <1>1, Invariance, PTL

(* What T answers from is a prefix of what a restart would find, also      *)
(* after a failed insert and a failed rebuild (service.py:85-93).          *)
THEOREM MemoryIsPrefix == RegistrySpec => []MemoryFollowsJournal
  <1>1. RegistryInv => MemoryFollowsJournal
    BY DEF RegistryInv
  <1> QED
    BY <1>1, Invariance, PTL

(* No receipt T has returned ever loses its entry. *)
THEOREM ReceiptsStayBacked == RegistrySpec => []ReceiptsBacked
  <1>1. RegistryInv => ReceiptsBacked
    BY DEF RegistryInv
  <1> QED
    BY <1>1, Invariance, PTL

(* A request never gets two statements of one type into the log, although  *)
(* the check reads a memory copy that may be short (service.py:81).        *)
THEOREM UniqueTypes == RegistrySpec => []OneOfAType
  <1>1. RegistryInv => OneOfAType
    BY DEF RegistryInv
  <1> QED
    BY <1>1, Invariance, PTL

(* All verdicts on a request rest on one request evidence, its contract    *)
(* and exactly the entries before them (service.py:157-185).               *)
THEOREM ConsistentVerdicts == RegistrySpec => []VerdictsConsistent
  <1>1. RegistryInv => VerdictsConsistent
    BY DEF RegistryInv
  <1> QED
    BY <1>1, Invariance, PTL

-----------------------------------------------------------------------------
(* The registry implements an append-only log with receipts.               *)

LEMMA RegisterImplements ==
  ASSUME RegistryInv, NEW st \in Item, NEW i \in Nat, Register(st, i)
  PROVE  AOL!Next
  <1> USE DEF RegistryInv, RegistryTypeOK
  <1>1. receipts' = receipts \cup {[stmt |-> st, index |-> i]}
    BY DEF Register
  <1>2. CASE i \in DOMAIN journal /\ journal[i] = st /\ journal' = journal
    <2>1. AOL!Repeat(i)
      BY <1>1, <1>2 DEF AOL!Repeat
    <2> QED BY <1>2, <2>1 DEF AOL!Next
  <1>3. CASE i = Len(journal) + 1 /\ journal' = Append(journal, st)
    <2>1. Len(journal') = Len(journal) + 1 /\ journal'[Len(journal) + 1] = st
      BY <1>3
    <2>2. AOL!Add
      BY <1>1, <1>3, <2>1 DEF AOL!Add
    <2> QED BY <2>2 DEF AOL!Next
  <1> QED BY <1>2, <1>3 DEF Register

(* Every operation of T is a step of the abstract log, or none. *)
THEOREM StepImplements ==
  ASSUME RegistryInv, [RegistryStep]_registryVars
  PROVE  [AOL!Next]_AOL!vars
  <1> USE DEF registryVars
  <1>1. ASSUME NEW st \in Item, NEW a \in {"U", "R", "M"}, NEW i \in Nat, SubmitAccepted(a, st, i)
        PROVE  AOL!Next
    BY <1>1, RegisterImplements DEF SubmitAccepted
  <1>2. ASSUME NEW u \in Sub, NEW i \in Nat, Verdict(u, i)
        PROVE  AOL!Next
    <2>1. VerdictOn(u) \in Item
      BY <1>2, VerdictTyped DEF Verdict, RegistryInv
    <2> QED BY <1>2, <2>1, RegisterImplements DEF Verdict
  <1>3. ASSUME NEW st \in Item, NEW a \in {"U", "R", "M", "T"}, NEW kept \in Nat,
               SubmitFails(a, st, kept) \/ SubmitRefused(a, st)
        PROVE  UNCHANGED AOL!vars
    BY <1>3 DEF SubmitFails, SubmitRefused, RegisterFails, RegisterRefused, AOL!vars
  <1>4. ASSUME NEW u \in Sub, NEW p \in Private, StoreAccepted(u, p) \/ StoreRefused(u, p)
        PROVE  UNCHANGED AOL!vars
    BY <1>4 DEF StoreAccepted, StoreRefused, AOL!vars
  <1>5. ASSUME NEW u \in Sub, NEW kept \in Nat, VerdictFails(u, kept)
        PROVE  UNCHANGED AOL!vars
    BY <1>5 DEF VerdictFails, RegisterFails, AOL!vars
  <1>6. ASSUME Restart \/ Retire \/ UNCHANGED registryVars
        PROVE  UNCHANGED AOL!vars
    BY <1>6 DEF Restart, Retire, AOL!vars
  <1> QED
    BY <1>1, <1>2, <1>3, <1>4, <1>5, <1>6 DEF RegistryStep

(* T keeps the promise of an append-only log: every receipt names an entry *)
(* that stays where it is, through failed writes and restarts.             *)
THEOREM Implements == RegistrySpec => KeepsPromise
  <1>1. RegistryInit => AOL!Init
    BY DEF RegistryInit, AOL!Init
  <1>2. RegistryInv /\ [RegistryNext]_registryVars => [AOL!Next]_AOL!vars
    BY NextIsStep, StepImplements
  <1> QED
    BY <1>1, <1>2, Invariance, PTL DEF RegistrySpec, KeepsPromise, AOL!Spec

=============================================================================
