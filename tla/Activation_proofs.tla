-------------------------- MODULE Activation_proofs --------------------------
(***************************************************************************)
(* For every set of parties, epochs and directories and however often a    *)
(* process stops: an opened epoch is whole, and one opened in order has    *)
(* the one before it retired to it alone; active.json never goes back, and *)
(* a retirement only with the directory of an epoch that never opened.     *)
(*                                                                         *)
(* What active.json names was checked some files earlier, so the inductive *)
(* invariant says what an activation in progress has on disk already: its  *)
(* files stay, since the operator cleans up only between activations.      *)
(* And an epoch opened in order follows one that was opened, which is why  *)
(* no later clean-up takes its retirement away.                            *)
(***************************************************************************)
EXTENDS Activation, TLAPS

Places == {"directory", "configuration", "retirement", "unfinished"}
Activations == [epoch : Epochs, at : Places] \cup {NULL}

(* active.tmp only holds an activation back. *)
TypeOK ==
  /\ made \in [Roles -> SUBSET Epochs]
  /\ complete \in [Roles -> SUBSET Epochs]
  /\ successor \in [Roles -> [Epochs -> Epochs \cup {NULL, Torn}]]
  /\ active \in [Roles -> [Directories -> Epochs \cup {NULL}]]
  /\ opened \in [Roles -> SUBSET Epochs]
  /\ inOrder \in [Roles -> SUBSET Epochs]
  /\ running \in [Roles -> Activations]

(* How far an activation has come is on the disk. *)
Grounded(r) ==
  running[r] # NULL =>
    LET e == running[r].epoch  at == running[r].at IN
      /\ active[r][Directory(e)] \in {NULL, Previous(e)}
      /\ at \in {"configuration", "retirement", "unfinished"} => e \in complete[r]
      /\ at \in {"retirement", "unfinished"} /\ Previous(e) # NULL => successor[r][Previous(e)] = e

Ready(r) ==
  /\ opened[r] \subseteq complete[r] /\ inOrder[r] \subseteq opened[r]
  /\ \A e \in inOrder[r] :
       Previous(e) # NULL => Previous(e) \in opened[r] /\ successor[r][Previous(e)] = e

ActivationInv == TypeOK /\ \A r \in Roles : Grounded(r) /\ Ready(r)

-----------------------------------------------------------------------------

LEMMA ActivationTypes ==
  NULL \in Activations
    /\ \A e \in Epochs, at \in Places : [epoch |-> e, at |-> at] \in Activations
  BY DEF Activations

(* What the file-by-file steps of one party leave alone. *)
LEMMA Elsewhere ==
  ASSUME ActivationInv, NEW r \in Roles, TypeOK',
         \A x \in Roles \ {r} :
           /\ complete'[x] = complete[x] /\ successor'[x] = successor[x] /\ active'[x] = active[x]
           /\ opened'[x] = opened[x] /\ inOrder'[x] = inOrder[x] /\ running'[x] = running[x],
         Grounded(r)', Ready(r)'
  PROVE  ActivationInv'
  BY DEF ActivationInv, Grounded, Ready

LEMMA BeginKeeps ==
  ASSUME ActivationInv, NEW r \in Roles, NEW e \in Epochs, Begin(r, e)
  PROVE  ActivationInv'
  <1>1. /\ running' = [running EXCEPT ![r] = [epoch |-> e, at |-> "directory"]]
        /\ UNCHANGED <<complete, successor, active, opened, inOrder>>
        /\ made' = [made EXCEPT ![r] = @ \cup {e}] /\ active[r][Directory(e)] \in {NULL, Previous(e)}
    BY DEF Begin, At, MayFollow
  <1>2. TypeOK'
    BY ActivationTypes, <1>1 DEF ActivationInv, TypeOK, Places
  <1>3. running'[r] = [epoch |-> e, at |-> "directory"]
    BY <1>1 DEF ActivationInv, TypeOK
  <1>4. Grounded(r)'
    BY <1>1, <1>3 DEF Grounded
  <1>5. Ready(r)'
    BY <1>1 DEF ActivationInv, Ready
  <1> QED BY <1>1, <1>2, <1>4, <1>5, Elsewhere DEF ActivationInv, TypeOK

LEMMA WriteConfigurationKeeps ==
  ASSUME ActivationInv, NEW r \in Roles, WriteConfiguration(r)
  PROVE  ActivationInv'
  <1> DEFINE e == running[r].epoch
  <1>1. e \in Epochs /\ active[r][Directory(e)] \in {NULL, Previous(e)}
    BY DEF ActivationInv, TypeOK, Activations, WriteConfiguration, Going, Grounded
  <1>2. /\ complete' = [complete EXCEPT ![r] = @ \cup {e}]
        /\ running' = [running EXCEPT ![r] = [epoch |-> e, at |-> "configuration"]]
        /\ UNCHANGED <<made, successor, unfinished, active, opened, inOrder>>
    BY DEF WriteConfiguration, At
  <1> HIDE DEF e
  <1>3. TypeOK'
    BY ActivationTypes, <1>1, <1>2 DEF ActivationInv, TypeOK, Places
  <1>4. running'[r] = [epoch |-> e, at |-> "configuration"] /\ complete'[r] = complete[r] \cup {e}
    BY <1>2 DEF ActivationInv, TypeOK
  <1>5. Grounded(r)'
    BY <1>1, <1>2, <1>4 DEF Grounded
  <1>6. Ready(r)'
    BY <1>2, <1>4 DEF ActivationInv, Ready
  <1> QED BY <1>2, <1>3, <1>5, <1>6, Elsewhere DEF ActivationInv, TypeOK

LEMMA RetireKeeps ==
  ASSUME ActivationInv, NEW r \in Roles, Retire(r)
  PROVE  ActivationInv'
  <1> DEFINE e == running[r].epoch
             p == Previous(e)
  <1>1. /\ e \in Epochs /\ p \in Epochs \cup {NULL} /\ e # NULL
        /\ active[r][Directory(e)] \in {NULL, p} /\ e \in complete[r]
    BY ActivationAssumption DEF ActivationAssumption, ActivationInv, TypeOK, Activations, Retire, Going, Grounded
  <1>2. UNCHANGED <<made, complete, unfinished, active, opened, inOrder>>
    BY DEF Retire
  <1>3. \/ /\ p = NULL /\ UNCHANGED successor
           /\ running' = [running EXCEPT ![r] = [epoch |-> e, at |-> "retirement"]]
        \/ /\ p # NULL /\ successor[r][p] \in {NULL, e}
           /\ successor' = [successor EXCEPT ![r][p] = IF @ = NULL THEN e ELSE @]
           /\ running' = [running EXCEPT ![r] = [epoch |-> e, at |-> "retirement"]]
        \/ running' = [running EXCEPT ![r] = NULL] /\ UNCHANGED successor
    BY DEF Retire, Retires, At
  <1> HIDE DEF e, p
  <1>4. CASE p = NULL /\ UNCHANGED successor /\ running' = [running EXCEPT ![r] = [epoch |-> e, at |-> "retirement"]]
    <2>1. TypeOK'
      BY ActivationTypes, <1>1, <1>2, <1>4 DEF ActivationInv, TypeOK, Places
    <2>2. running'[r] = [epoch |-> e, at |-> "retirement"]
      BY <1>4 DEF ActivationInv, TypeOK
    <2>3. Grounded(r)'
      BY <1>1, <1>2, <1>4, <2>2 DEF Grounded, p
    <2>4. Ready(r)'
      BY <1>2, <1>4 DEF ActivationInv, Ready
    <2> QED BY <1>2, <1>4, <2>1, <2>3, <2>4, Elsewhere DEF ActivationInv, TypeOK
  <1>5. CASE /\ p # NULL /\ successor[r][p] \in {NULL, e}
             /\ successor' = [successor EXCEPT ![r][p] = IF @ = NULL THEN e ELSE @]
             /\ running' = [running EXCEPT ![r] = [epoch |-> e, at |-> "retirement"]]
    <2>1. TypeOK'
      BY ActivationTypes, <1>1, <1>2, <1>5 DEF ActivationInv, TypeOK, Places
    <2>2. running'[r] = [epoch |-> e, at |-> "retirement"]
      BY <1>5 DEF ActivationInv, TypeOK
    <2>3. successor'[r][p] = e /\ \A x \in Epochs : successor[r][x] # NULL => successor'[r][x] = successor[r][x]
      BY <1>1, <1>5 DEF ActivationInv, TypeOK
    <2>4. Grounded(r)'
      BY <1>1, <1>2, <2>2, <2>3 DEF Grounded, p
    <2>5. Ready(r)'
      <3>1. \A x \in opened[r] : x \in Epochs /\ Previous(x) \in Epochs \cup {NULL} /\ x # NULL
        BY ActivationAssumption DEF ActivationAssumption, ActivationInv, TypeOK
      <3> QED BY <1>2, <2>3, <3>1 DEF ActivationInv, Ready
    <2>6. \A x \in Roles \ {r} : successor'[x] = successor[x] /\ running'[x] = running[x]
      BY <1>5 DEF ActivationInv, TypeOK
    <2> QED BY <1>2, <2>1, <2>4, <2>5, <2>6, Elsewhere
  <1>6. CASE running' = [running EXCEPT ![r] = NULL] /\ UNCHANGED successor
    <2>1. TypeOK' /\ Grounded(r)' /\ Ready(r)'
      BY ActivationTypes, <1>2, <1>6 DEF ActivationInv, TypeOK, Places, Grounded, Ready
    <2> QED BY <1>2, <1>6, <2>1, Elsewhere DEF ActivationInv, TypeOK
  <1> QED BY <1>3, <1>4, <1>5, <1>6

LEMMA WriteUnfinishedKeeps ==
  ASSUME ActivationInv, NEW r \in Roles, WriteUnfinished(r)
  PROVE  ActivationInv'
  <1> DEFINE e == running[r].epoch
  <1>1. /\ running[r] # NULL /\ running[r].at = "retirement" /\ e \in Epochs
        /\ UNCHANGED <<made, complete, successor, active, opened, inOrder>>
    BY DEF ActivationInv, TypeOK, Activations, WriteUnfinished, Going
  <1>2. \/ running' = [running EXCEPT ![r] = [epoch |-> e, at |-> "unfinished"]]
        \/ running' = [running EXCEPT ![r] = NULL]
    BY DEF WriteUnfinished, At
  <1>3. TypeOK'
    <2> HIDE DEF e
    <2>1. running' \in [Roles -> Activations]
      BY ActivationTypes, <1>1, <1>2 DEF ActivationInv, TypeOK, Places
    <2> QED BY <1>1, <2>1 DEF ActivationInv, TypeOK
  <1>4. running'[r] = [epoch |-> e, at |-> "unfinished"] \/ running'[r] = NULL
    BY <1>2 DEF ActivationInv, TypeOK
  <1>5. Grounded(r)'
    BY <1>1, <1>4 DEF ActivationInv, Grounded
  <1>6. Ready(r)'
    BY <1>1 DEF ActivationInv, Ready
  <1>7. \A x \in Roles \ {r} : running'[x] = running[x]
    BY <1>2 DEF ActivationInv, TypeOK
  <1> QED BY <1>1, <1>3, <1>5, <1>6, <1>7, Elsewhere

(* What Replace opens is ready, and active.json moves one epoch on. *)
LEMMA ReplaceOpens ==
  ASSUME ActivationInv, NEW r \in Roles, Replace(r)
  PROVE  \E e \in Epochs :
           /\ e \in complete[r] /\ (Previous(e) # NULL => successor[r][Previous(e)] = e)
           /\ active[r][Directory(e)] \in {NULL, Previous(e)}
           /\ active' = [active EXCEPT ![r][Directory(e)] = e]
           /\ unfinished' = [unfinished EXCEPT ![r][Directory(e)] = NULL]
           /\ opened' = [opened EXCEPT ![r] = @ \cup {e}]
           /\ inOrder' = IF Previous(e) \in opened[r] \cup {NULL}
                         THEN [inOrder EXCEPT ![r] = @ \cup {e}] ELSE inOrder
           /\ running' = [running EXCEPT ![r] = NULL]
           /\ UNCHANGED <<made, complete, successor>>
  <1> DEFINE e == running[r].epoch
  <1>1. e \in Epochs /\ Grounded(r) /\ Going(r, "unfinished")
    BY DEF ActivationInv, TypeOK, Activations, Replace, Going
  <1>2. /\ e \in complete[r] /\ (Previous(e) # NULL => successor[r][Previous(e)] = e)
        /\ active[r][Directory(e)] \in {NULL, Previous(e)}
    BY <1>1 DEF Grounded, Going
  <1>3. /\ active' = [active EXCEPT ![r][Directory(e)] = e]
        /\ unfinished' = [unfinished EXCEPT ![r][Directory(e)] = NULL]
        /\ opened' = [opened EXCEPT ![r] = @ \cup {e}]
        /\ inOrder' = IF Previous(e) \in opened[r] \cup {NULL}
                      THEN [inOrder EXCEPT ![r] = @ \cup {e}] ELSE inOrder
        /\ running' = [running EXCEPT ![r] = NULL]
        /\ UNCHANGED <<made, complete, successor>>
    BY DEF Replace
  <1> QED BY <1>1, <1>2, <1>3

LEMMA ReplaceKeeps ==
  ASSUME ActivationInv, NEW r \in Roles, Replace(r)
  PROVE  ActivationInv'
  <1>1. PICK e \in Epochs :
           /\ e \in complete[r] /\ (Previous(e) # NULL => successor[r][Previous(e)] = e)
           /\ active' = [active EXCEPT ![r][Directory(e)] = e]
           /\ unfinished' = [unfinished EXCEPT ![r][Directory(e)] = NULL]
           /\ opened' = [opened EXCEPT ![r] = @ \cup {e}]
           /\ inOrder' = IF Previous(e) \in opened[r] \cup {NULL}
                         THEN [inOrder EXCEPT ![r] = @ \cup {e}] ELSE inOrder
           /\ running' = [running EXCEPT ![r] = NULL]
           /\ UNCHANGED <<made, complete, successor>>
    BY ReplaceOpens
  <1>2. TypeOK'
    BY ActivationTypes, <1>1, ActivationAssumption DEF ActivationAssumption, ActivationInv, TypeOK, Places
  <1>3. /\ running'[r] = NULL /\ opened'[r] = opened[r] \cup {e}
        /\ inOrder'[r] = inOrder[r] \/ (inOrder'[r] = inOrder[r] \cup {e} /\ Previous(e) \in opened[r] \cup {NULL})
        /\ \A x \in Roles \ {r} :
             active'[x] = active[x] /\ opened'[x] = opened[x] /\ inOrder'[x] = inOrder[x] /\ running'[x] = running[x]
    <2>1. running'[r] = NULL /\ \A x \in Roles \ {r} : active'[x] = active[x] /\ running'[x] = running[x]
      BY <1>1 DEF ActivationInv, TypeOK
    <2>2. opened'[r] = opened[r] \cup {e} /\ \A x \in Roles \ {r} : opened'[x] = opened[x]
      BY <1>1 DEF ActivationInv, TypeOK
    <2>3. /\ inOrder'[r] = inOrder[r] \/ (inOrder'[r] = inOrder[r] \cup {e} /\ Previous(e) \in opened[r] \cup {NULL})
          /\ \A x \in Roles \ {r} : inOrder'[x] = inOrder[x]
      <3>1. inOrder \in [Roles -> SUBSET Epochs]
        BY DEF ActivationInv, TypeOK
      <3>2. CASE Previous(e) \in opened[r] \cup {NULL} /\ inOrder' = [inOrder EXCEPT ![r] = @ \cup {e}]
        BY <3>1, <3>2
      <3>3. CASE inOrder' = inOrder
        BY <3>3
      <3> QED BY <1>1, <3>2, <3>3
    <2> QED BY <2>1, <2>2, <2>3
  <1>4. Grounded(r)' /\ Ready(r)'
    BY <1>1, <1>3 DEF ActivationInv, Grounded, Ready
  <1> QED BY <1>1, <1>2, <1>3, <1>4, Elsewhere

LEMMA StopKeeps ==
  ASSUME ActivationInv, NEW r \in Roles, Stop(r)
  PROVE  ActivationInv'
  <1>1. /\ running' = [running EXCEPT ![r] = NULL]
        /\ UNCHANGED <<made, complete, unfinished, active, opened, inOrder>>
    BY DEF Stop
  <1>2. \/ UNCHANGED successor
        \/ \E p \in Epochs : successor[r][p] = NULL /\ successor' = [successor EXCEPT ![r][p] = Torn]
    BY ActivationAssumption DEF ActivationAssumption, Stop, Going, ActivationInv, TypeOK, Activations
  <1>3. TypeOK'
    <2>1. running' \in [Roles -> Activations]
      BY ActivationTypes, <1>1 DEF ActivationInv, TypeOK
    <2>2. ASSUME NEW p \in Epochs, successor' = [successor EXCEPT ![r][p] = Torn]
          PROVE  successor' \in [Roles -> [Epochs -> Epochs \cup {NULL, Torn}]]
      <3>1. [successor[r] EXCEPT ![p] = Torn] \in [Epochs -> Epochs \cup {NULL, Torn}]
        BY DEF ActivationInv, TypeOK
      <3> QED BY <2>2, <3>1 DEF ActivationInv, TypeOK
    <2> QED BY <1>1, <1>2, <2>1, <2>2 DEF ActivationInv, TypeOK
  <1>4. /\ \A x \in Epochs : successor[r][x] # NULL => successor'[r][x] = successor[r][x]
        /\ \A x \in Roles \ {r} : successor'[x] = successor[x]
    BY <1>2 DEF ActivationInv, TypeOK
  <1>5. Grounded(r)'
    BY <1>1 DEF ActivationInv, TypeOK, Grounded
  <1>6. Ready(r)'
    <2>1. \A x \in opened[r] : x \in Epochs /\ Previous(x) \in Epochs \cup {NULL} /\ x # NULL
      BY ActivationAssumption DEF ActivationAssumption, ActivationInv, TypeOK
    <2> QED BY <1>1, <1>4, <2>1 DEF ActivationInv, Ready
  <1> QED BY <1>1, <1>3, <1>4, <1>5, <1>6, Elsewhere DEF ActivationInv, TypeOK

(* What the operator removes was never opened, and its retirement goes too. *)
LEMMA CleanUpRemoves ==
  ASSUME ActivationInv, NEW r \in Roles, CleanUp(r)
  PROVE  /\ running[r] = NULL /\ UNCHANGED <<active, opened, inOrder, running>>
         /\ \/ UNCHANGED <<made, complete, successor>>
            \/ \E e \in Epochs \ opened[r] :
                 /\ made' = [made EXCEPT ![r] = @ \ {e}]
                 /\ complete' = [complete EXCEPT ![r] = @ \ {e}]
                 /\ successor' = [successor EXCEPT ![r][e] = NULL]
  BY DEF CleanUp, ActivationInv, TypeOK

LEMMA CleanUpKeeps ==
  ASSUME ActivationInv, NEW r \in Roles, CleanUp(r)
  PROVE  ActivationInv'
  <1>1. running[r] = NULL /\ UNCHANGED <<active, opened, inOrder, running>>
    BY CleanUpRemoves
  <1>2. CASE UNCHANGED <<made, complete, successor>>
    BY <1>1, <1>2 DEF ActivationInv, TypeOK, Grounded, Ready
  <1>3. ASSUME NEW e \in Epochs \ opened[r],
               made' = [made EXCEPT ![r] = @ \ {e}],
               complete' = [complete EXCEPT ![r] = @ \ {e}],
               successor' = [successor EXCEPT ![r][e] = NULL]
        PROVE  ActivationInv'
    <2>1. TypeOK'
      <3>1. made' \in [Roles -> SUBSET Epochs] /\ complete' \in [Roles -> SUBSET Epochs]
        BY <1>3 DEF ActivationInv, TypeOK
      <3>2. successor' \in [Roles -> [Epochs -> Epochs \cup {NULL, Torn}]]
        BY <1>3 DEF ActivationInv, TypeOK
      <3> QED BY <1>1, <3>1, <3>2 DEF ActivationInv, TypeOK
    <2>2. /\ complete'[r] = complete[r] \ {e}
          /\ \A x \in Epochs \ {e} : successor'[r][x] = successor[r][x]
          /\ \A x \in Roles \ {r} : complete'[x] = complete[x] /\ successor'[x] = successor[x]
      BY <1>3 DEF ActivationInv, TypeOK
    <2>3. Grounded(r)'
      BY <1>1 DEF Grounded
    <2>4. Ready(r)'
      <3>1. opened[r] \subseteq Epochs
        BY DEF ActivationInv, TypeOK
      <3> QED BY <1>1, <1>3, <2>2, <3>1 DEF ActivationInv, Ready
    <2> QED BY <1>1, <2>1, <2>2, <2>3, <2>4, Elsewhere
  <1> QED BY <1>2, <1>3, CleanUpRemoves

-----------------------------------------------------------------------------

LEMMA ActivationInitInv == Init => ActivationInv
  BY ActivationTypes DEF Init, ActivationInv, TypeOK, Grounded, Ready

LEMMA ActivationStep ==
  ASSUME ActivationInv, [Next]_vars
  PROVE  ActivationInv'
  <1>1. ASSUME UNCHANGED <<disk, running>> PROVE ActivationInv'
    BY <1>1 DEF disk, ActivationInv, TypeOK, Grounded, Ready
  <1>2. ASSUME NEW e \in Epochs, Propose(e) PROVE UNCHANGED <<disk, running>>
    BY <1>2 DEF Propose
  <1>3. ASSUME NEW r \in Roles, NEW d \in Directories, Prepare(r, d) PROVE UNCHANGED <<disk, running>>
    BY <1>3 DEF Prepare
  <1>4. ASSUME NEW r \in Roles, NEW e \in Epochs, Endorse(r, e) PROVE UNCHANGED <<disk, running>>
    BY <1>4 DEF Endorse
  <1>5. CASE UNCHANGED vars
    BY <1>1, <1>5 DEF vars
  <1> QED BY <1>1, <1>2, <1>3, <1>4, <1>5, BeginKeeps, WriteConfigurationKeeps, RetireKeeps, WriteUnfinishedKeeps,
             ReplaceKeeps, StopKeeps, CleanUpKeeps DEF Next

THEOREM ActivationInvariance == Spec => []ActivationInv
  <1> QED BY ActivationInitInv, ActivationStep, PTL DEF Spec

(* Whatever stopped in between and whatever was cleaned up, an epoch that  *)
(* active.json names or named is whole; and if it was opened after the one *)
(* it follows, that one is retired to it and to no other.                  *)
THEOREM OpenedStaysReady == Spec => []OpenedIsReady
  <1>1. ActivationInv => OpenedIsReady
    BY DEF ActivationInv, Ready, OpenedIsReady
  <1> QED BY <1>1, ActivationInvariance, PTL

(* active.json only ever moves to the epoch that follows, and a retirement *)
(* is never rewritten: it only goes with the directory of an epoch that    *)
(* was never opened.                                                       *)
THEOREM LineageStaysFixed == Spec => LineageFixed
  <1> DEFINE Fixed ==
        \A r \in Roles :
          /\ \A d \in Directories :
               active[r][d] # NULL /\ active'[r][d] # active[r][d]
                 => active'[r][d] # NULL /\ Previous(active'[r][d]) = active[r][d]
          /\ \A e \in Epochs :
               successor[r][e] # NULL /\ successor'[r][e] # successor[r][e]
                 => e \notin opened[r] /\ e \notin made'[r]
  <1>1. ActivationInv /\ [Next]_vars => [Fixed]_vars
    <2> SUFFICES ASSUME ActivationInv, Next PROVE Fixed
      OBVIOUS
    <2>1. ASSUME UNCHANGED <<active, successor>> PROVE Fixed
      BY <2>1
    <2>2. ASSUME NEW r \in Roles, Replace(r) PROVE Fixed
      <3>1. PICK e \in Epochs : /\ active[r][Directory(e)] \in {NULL, Previous(e)}
                                /\ active' = [active EXCEPT ![r][Directory(e)] = e]
                                /\ UNCHANGED successor
        BY <2>2, ReplaceOpens
      <3>2. e # NULL
        BY ActivationAssumption DEF ActivationAssumption
      <3>3. \A x \in Roles, d \in Directories :
              active'[x][d] # active[x][d] => x = r /\ d = Directory(e) /\ active'[x][d] = e
        BY <3>1 DEF ActivationInv, TypeOK
      <3> QED BY <3>1, <3>2, <3>3
    <2>3. ASSUME NEW r \in Roles, Retire(r) \/ Stop(r) PROVE Fixed
      <3>1. /\ UNCHANGED active
            /\ \/ UNCHANGED successor
               \/ \E p \in Epochs : \E v : successor' = [successor EXCEPT ![r][p] = IF @ = NULL THEN v ELSE @]
        <4>1. CASE Retire(r)
          BY <4>1, ActivationAssumption DEF ActivationAssumption, ActivationInv, TypeOK, Activations, Retire, Going
        <4>2. CASE Stop(r)
          BY <4>2, ActivationAssumption DEF ActivationAssumption, ActivationInv, TypeOK, Activations, Stop, Going
        <4> QED BY <2>3, <4>1, <4>2
      <3>2. \A x \in Roles, e \in Epochs : successor[x][e] # NULL => successor'[x][e] = successor[x][e]
        <4>1. successor \in [Roles -> [Epochs -> Epochs \cup {NULL, Torn}]]
          BY DEF ActivationInv, TypeOK
        <4> QED BY <3>1, <4>1
      <3>3. UNCHANGED active
        BY <3>1
      <3> QED BY <3>2, <3>3
    <2>4. ASSUME NEW r \in Roles, CleanUp(r) PROVE Fixed
      <3>1. UNCHANGED active /\ (UNCHANGED successor \/ \E x \in Epochs \ opened[r] :
              made' = [made EXCEPT ![r] = @ \ {x}] /\ successor' = [successor EXCEPT ![r][x] = NULL])
        BY <2>4, CleanUpRemoves
      <3>2. ASSUME NEW x \in Epochs \ opened[r],
                   made' = [made EXCEPT ![r] = @ \ {x}], successor' = [successor EXCEPT ![r][x] = NULL]
            PROVE  \A q \in Roles, e \in Epochs :
                     successor'[q][e] # successor[q][e] => q = r /\ e = x /\ e \notin made'[q]
        BY <3>2 DEF ActivationInv, TypeOK
      <3>3. UNCHANGED active
        BY <3>1
      <3> QED BY <3>1, <3>2, <3>3
    <2> QED BY <2>1, <2>2, <2>3, <2>4
      DEF Next, Propose, Prepare, Endorse, Begin, WriteConfiguration, WriteUnfinished, disk
  <1> QED BY <1>1, ActivationInvariance, PTL DEF Spec, LineageFixed

-----------------------------------------------------------------------------
(* An epoch is of its own lineage, with what each member follows; and each *)
(* other member is what a member follows.                                  *)
LEMMA LineageNested ==
  ASSUME NEW e \in Epochs
  PROVE  /\ Lineage[e] \subseteq Epochs /\ e \in Lineage[e] /\ Nested(Lineage[e])
         /\ \A S \in SUBSET Epochs : e \in S /\ Nested(S) => Lineage[e] \subseteq S
         /\ \A x \in Lineage[e] \ {e} : \E g \in Lineage[e] : Previous(g) = x
  <1>1. /\ Lineage[e] \subseteq Epochs /\ e \in Lineage[e]
        /\ \A S \in SUBSET Epochs : e \in S /\ Nested(S) => Lineage[e] \subseteq S
    BY DEF Lineage
  <1>2. Nested(Lineage[e])
    BY ActivationAssumption DEF Lineage, Nested
  <1>3. ASSUME NEW x \in Lineage[e] \ {e}, \A g \in Lineage[e] : Previous(g) # x
        PROVE  FALSE
    <2> DEFINE S == Lineage[e] \ {x}
    <2>1. S \in SUBSET Epochs /\ e \in S /\ Nested(S)
      BY <1>1, <1>2, <1>3 DEF Nested
    <2> QED BY <1>1, <2>1
  <1> QED BY <1>1, <1>2, <1>3

(* A party that opened its epochs one by one has at most one of a lineage  *)
(* open, also when keys and directories change (enrollment.py:286-300,     *)
(* 342-345).  Two open epochs are on no common line, since what an open    *)
(* epoch would be followed by is retired; and where two lines part, the    *)
(* epoch before would be retired to both.                                  *)
THEOREM OneStaysOpen == Spec => []OneOpen
  <1>1. ASSUME ActivationInv, NEW r \in Roles, NEW e \in opened[r], NEW f \in opened[r],
               Stepwise(r, e), Open(r, e), Stepwise(r, f), Open(r, f), Lineage[e] \cap Lineage[f] # {}
        PROVE  e = f
    <2>1. e \in Epochs /\ f \in Epochs
      BY <1>1 DEF ActivationInv, TypeOK
    <2>2. /\ Lineage[e] \subseteq inOrder[r] /\ Lineage[f] \subseteq inOrder[r]
          /\ \A g \in inOrder[r] : Previous(g) # NULL => successor[r][Previous(g)] = g
      BY <1>1 DEF Stepwise, ActivationInv, Ready
    <2>3. ASSUME NEW x \in Epochs, NEW y \in Epochs, Lineage[y] \subseteq inOrder[r], x \in Lineage[y], x # y
          PROVE  ~ Open(r, x)
      <3>1. PICK g \in Lineage[y] : Previous(g) = x
        BY <2>3, LineageNested
      <3>2. x # NULL /\ g # NULL
        BY <2>3, <3>1, LineageNested, ActivationAssumption
      <3> QED BY <2>2, <2>3, <3>1, <3>2 DEF Open
    <2> SUFFICES ASSUME e # f PROVE FALSE
      OBVIOUS
    <2>4. e \notin Lineage[f] /\ f \notin Lineage[e]
      BY <1>1, <2>1, <2>2, <2>3
    <2> DEFINE S == Lineage[e] \ Lineage[f]
    <2>5. Nested(S)
      <3>1. SUFFICES ASSUME NEW y \in S, Previous(y) # NULL, Previous(y) \in Lineage[f] PROVE FALSE
        BY <2>1, LineageNested DEF Nested
      <3>2. Previous(y) \in Lineage[e]
        BY <2>1, <3>1, LineageNested DEF Nested
      <3>3. PICK g \in Lineage[f] : Previous(g) = Previous(y)
        BY <2>1, <2>4, <3>1, <3>2, LineageNested
      <3>4. y = g
        BY <2>2, <3>1, <3>3
      <3> QED BY <3>1, <3>3, <3>4
    <2>6. Lineage[e] \subseteq S
      BY <2>1, <2>4, <2>5, LineageNested
    <2> QED BY <1>1, <2>6
  <1>2. ActivationInv => OneOpen
    BY <1>1 DEF OneOpen
  <1> QED BY ActivationInvariance, <1>2, PTL
==============================================================================
