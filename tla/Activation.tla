----------------------------- MODULE Activation -----------------------------
(***************************************************************************)
(* Deployment epochs (runtime/enrollment.py, desktop/provisioning.py).     *)
(* Operators make identities, propose an epoch from their cards, endorse   *)
(* it with the new key and the key of the epoch it follows, and each       *)
(* activates it on its own disk, one file after the other.  The process    *)
(* may stop between any two files; the operator then cleans up by hand.    *)
(*                                                                         *)
(* Signatures are not forged, so what a bundle may hold is the set of      *)
(* endorsements made.  Cards, models, limits and expiry are not told       *)
(* apart: an action that fails on them changes nothing.  An operator runs  *)
(* one activation at a time.                                               *)
(***************************************************************************)
EXTENDS Naturals, FiniteSets

CONSTANTS
  Roles,         \* the parties
  Epochs,        \* the proposals that may be made
  Previous(_),   \* the epoch whose hash a proposal names, or NULL
  Directories,   \* identity directories of an operator
  Directory(_),  \* the one whose card an epoch holds
  MaxStops,      \* times a process stops
  NULL, Torn

ASSUME ActivationAssumption ==
  /\ \A e \in Epochs : Previous(e) \in Epochs \cup {NULL} /\ Directory(e) \in Directories
  /\ NULL \notin Epochs \cup {Torn} /\ Torn \notin Epochs

VARIABLES
  prepared,  \* identity directories with a key and a card, of each role
  proposed,  \* proposals that were made
  endorsed,  \* <<role, epoch>>: signed with the new and the previous key
  made,      \* epochs/<hash> exists
  complete,  \* ... and has all files, config.json last
  successor, \* retirement.json of an epoch: NULL, the successor, or cut short
  unfinished, \* active.tmp of an identity directory
  active,    \* active.json of an identity directory
  opened,    \* the epochs that active.json has named
  inOrder,   \* ... those named after the epoch they follow (history only)
  running,   \* the activation in progress, or NULL
  stops
disk == <<made, complete, successor, unfinished, active, opened, inOrder>>
agreement == <<prepared, proposed, endorsed>>
vars == <<agreement, disk, running, stops>>

At(r, e, where) == [running EXCEPT ![r] = [epoch |-> e, at |-> where]]

Init ==
  /\ prepared = [r \in Roles |-> {}] /\ proposed = {} /\ endorsed = {}
  /\ made = [r \in Roles |-> {}] /\ complete = [r \in Roles |-> {}]
  /\ successor = [r \in Roles |-> [e \in Epochs |-> NULL]]
  /\ unfinished = [r \in Roles |-> [d \in Directories |-> NULL]]
  /\ active = [r \in Roles |-> [d \in Directories |-> NULL]]
  /\ opened = [r \in Roles |-> {}] /\ inOrder = [r \in Roles |-> {}]
  /\ running = [r \in Roles |-> NULL] /\ stops = 0

-----------------------------------------------------------------------------
(* An epoch and the ones before it, as they are nested in its bundle: the  *)
(* least set that has it and what each of its members follows.             *)
Nested(S) == \A x \in S : Previous(x) # NULL => Previous(x) \in S

Lineage ==
  [e \in Epochs |-> {x \in Epochs : \A S \in SUBSET Epochs : e \in S /\ Nested(S) => x \in S}]

(* verify_deployment: every party endorsed every epoch of the bundle. *)
Verified(e) == \A x \in Lineage[e] : \A r \in Roles : <<r, x>> \in endorsed

(* load_config: the files are there and agree with the endorsed bundle. *)
Loads(r, e) == e \in complete[r]

(* prepare_operator, in an empty directory. *)
Prepare(r, d) ==
  /\ d \notin prepared[r]
  /\ prepared' = [prepared EXCEPT ![r] = @ \cup {d}]
  /\ UNCHANGED <<proposed, endorsed, disk, running, stops>>

(* propose: one card of each role, and a verified epoch to follow. *)
Propose(e) ==
  /\ e \notin proposed
  /\ \A r \in Roles : Directory(e) \in prepared[r]
  /\ Previous(e) # NULL => Verified(Previous(e))
  /\ proposed' = proposed \cup {e}
  /\ UNCHANGED <<prepared, endorsed, disk, running, stops>>

(* endorse: signed with the card's key and with the pinned previous one. *)
Endorse(r, e) ==
  /\ e \in proposed /\ <<r, e>> \notin endorsed
  /\ Previous(e) # NULL => Loads(r, Previous(e))
  /\ endorsed' = endorsed \cup {<<r, e>>}
  /\ UNCHANGED <<prepared, proposed, disk, running, stops>>

-----------------------------------------------------------------------------
(* activate, file by file. *)

(* Mutant: any established lineage may be replaced. *)
MayFollowAny(r, e) == active[r][Directory(e)] # e

(* active.json names nothing, or the epoch that e follows. *)
MayFollow(r, e) == active[r][Directory(e)] \in {NULL, Previous(e)}

Begin(r, e) ==
  /\ running[r] = NULL
  /\ Verified(e)
  /\ Previous(e) # NULL => Loads(r, Previous(e))
  /\ MayFollow(r, e)
  /\ e \notin made[r]
  /\ made' = [made EXCEPT ![r] = @ \cup {e}]
  /\ running' = At(r, e, "directory")
  /\ UNCHANGED <<agreement, complete, successor, unfinished, active, opened, inOrder, stops>>

Going(r, where) == running[r] # NULL /\ running[r].at = where

WriteConfiguration(r) ==
  /\ Going(r, "directory")
  /\ complete' = [complete EXCEPT ![r] = @ \cup {running[r].epoch}]
  /\ running' = At(r, running[r].epoch, "configuration")
  /\ UNCHANGED <<agreement, made, successor, unfinished, active, opened, inOrder, stops>>

(* Mutant: a retirement that is there is enough. *)
RetiresAny(r, p, e) == TRUE

(* Mutant: one that cannot be read is passed over. *)
RetiresTorn(r, p, e) == successor[r][p] \in {NULL, e, Torn}

(* retirement.json is written once; one that is there must name e. *)
Retires(r, p, e) == successor[r][p] \in {NULL, e}

Retire(r) ==
  /\ Going(r, "configuration")
  /\ LET e == running[r].epoch  p == Previous(e) IN
       \/ /\ p = NULL
          /\ running' = At(r, e, "retirement") /\ UNCHANGED successor
       \/ /\ p # NULL /\ Retires(r, p, e)
          /\ successor' = [successor EXCEPT ![r][p] = IF @ = NULL THEN e ELSE @]
          /\ running' = At(r, e, "retirement")
       \/ /\ p # NULL /\ ~ Retires(r, p, e)
          /\ running' = [running EXCEPT ![r] = NULL] /\ UNCHANGED successor
  /\ UNCHANGED <<agreement, made, complete, unfinished, active, opened, inOrder, stops>>

WriteUnfinished(r) ==
  /\ Going(r, "retirement")
  /\ LET e == running[r].epoch  d == Directory(e) IN
       \/ /\ unfinished[r][d] = NULL
          /\ unfinished' = [unfinished EXCEPT ![r][d] = e]
          /\ running' = At(r, e, "unfinished")
       \/ /\ unfinished[r][d] # NULL
          /\ running' = [running EXCEPT ![r] = NULL] /\ UNCHANGED unfinished
  /\ UNCHANGED <<agreement, made, complete, successor, active, opened, inOrder, stops>>

Replace(r) ==
  /\ Going(r, "unfinished")
  /\ LET e == running[r].epoch  d == Directory(e) IN
       /\ active' = [active EXCEPT ![r][d] = e]
       /\ unfinished' = [unfinished EXCEPT ![r][d] = NULL]
       /\ opened' = [opened EXCEPT ![r] = @ \cup {e}]
       /\ inOrder' = IF Previous(e) \in opened[r] \cup {NULL}
                     THEN [inOrder EXCEPT ![r] = @ \cup {e}] ELSE inOrder
  /\ running' = [running EXCEPT ![r] = NULL]
  /\ UNCHANGED <<agreement, made, complete, successor, stops>>

(* The process ends; retirement.json may have been cut short. *)
Stop(r) ==
  /\ running[r] # NULL /\ stops < MaxStops
  /\ stops' = stops + 1
  /\ running' = [running EXCEPT ![r] = NULL]
  /\ \/ UNCHANGED successor
     \/ /\ Going(r, "configuration")
        /\ LET p == Previous(running[r].epoch) IN
             /\ p # NULL /\ successor[r][p] = NULL
             /\ successor' = [successor EXCEPT ![r][p] = Torn]
  /\ UNCHANGED <<agreement, made, complete, unfinished, active, opened, inOrder>>

(* The operator inspects an interrupted activation: active.tmp goes, or a  *)
(* whole epoch directory, with the retirement.json that may lie in it.     *)
(* Only the directory of an epoch that active.json never named is in the   *)
(* way: for one that it names, or has moved on from, activate returns or   *)
(* refuses before it looks (enrollment.py:293-302).                        *)
CleanUp(r) ==
  /\ running[r] = NULL
  /\ \/ \E d \in Directories :
          /\ unfinished[r][d] # NULL
          /\ unfinished' = [unfinished EXCEPT ![r][d] = NULL]
          /\ UNCHANGED <<made, complete, successor>>
     \/ \E e \in made[r] \ opened[r] :
          /\ made' = [made EXCEPT ![r] = @ \ {e}]
          /\ complete' = [complete EXCEPT ![r] = @ \ {e}]
          /\ successor' = [successor EXCEPT ![r][e] = NULL]
          /\ UNCHANGED unfinished
  /\ UNCHANGED <<agreement, active, opened, inOrder, running, stops>>

Next ==
  \/ \E e \in Epochs : Propose(e)
  \/ \E r \in Roles :
       \/ \E d \in Directories : Prepare(r, d)
       \/ \E e \in Epochs : Endorse(r, e) \/ Begin(r, e)
       \/ WriteConfiguration(r) \/ Retire(r) \/ WriteUnfinished(r) \/ Replace(r)
       \/ Stop(r) \/ CleanUp(r)

Spec == Init /\ [][Next]_vars

-----------------------------------------------------------------------------
(* assert_active: no retirement.json, whatever is in it. *)
Open(r, e) == successor[r][e] = NULL

(* An epoch that active.json names, or named, is whole; and if it was      *)
(* opened after the one it follows, that one is retired to it and to no    *)
(* other, wherever activations stopped and whatever the operator cleaned   *)
(* up: so a party opens at most one successor of an epoch it has opened    *)
(* (enrollment.py:293-302, 320-338).                                       *)
OpenedIsReady ==
  \A r \in Roles : \A e \in opened[r] :
    /\ e \in complete[r]
    /\ e \in inOrder[r] /\ Previous(e) # NULL => successor[r][Previous(e)] = e

(* A party that opened its epochs one by one has one of a lineage open,    *)
(* also when keys, and with them directories, change                       *)
(* (enrollment.py:286-300, 342-345).  An epoch that was opened before the  *)
(* one it follows keeps no such promise: see PreviousRefuses.              *)
Stepwise(r, e) == Lineage[e] \subseteq inOrder[r]

OneOpen ==
  \A r \in Roles : \A e, f \in opened[r] :
    /\ Stepwise(r, e) /\ Open(r, e)
    /\ Stepwise(r, f) /\ Open(r, f)
    /\ Lineage[e] \cap Lineage[f] # {}
    => e = f

(* active.json only ever moves to the epoch that follows, and a            *)
(* retirement, once there, is never rewritten: it only goes with the       *)
(* directory of an epoch that was never opened                             *)
(* (enrollment.py:293-302, 327-332).                                       *)
LineageFixed ==
  [][\A r \in Roles :
       /\ \A d \in Directories :
            active[r][d] # NULL /\ active'[r][d] # active[r][d]
              => active'[r][d] # NULL /\ Previous(active'[r][d]) = active[r][d]
       /\ \A e \in Epochs :
            successor[r][e] # NULL /\ successor'[r][e] # successor[r][e]
              => e \notin opened[r] /\ e \notin made'[r]
    ]_vars

(* docs/operator-deployment.md:126: once an epoch is active, the           *)
(* configuration before it refuses new requests.  Not so when the earlier  *)
(* activation was interrupted and its directory removed afterwards.        *)
PreviousRefuses ==
  \A r \in Roles : \A e \in opened[r] : Previous(e) \in opened[r] => ~ Open(r, Previous(e))

=============================================================================
