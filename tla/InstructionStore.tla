-------------------------- MODULE InstructionStore --------------------------
(***************************************************************************)
(* The tables instruction_sets and instruction_versions                    *)
(* (models/instruction.py) and what every writer of them does: find or     *)
(* create the set of a slot, number a new version, point the set at the    *)
(* version in force.  A slot is what identifies a set: level, owner and    *)
(* thread type.  The database has no constraint that makes a slot's set or *)
(* a set's version numbers unique.                                         *)
(*                                                                         *)
(* A row's id is the request that inserted it, or the slot it was seeded   *)
(* for.  A request reads, and commits what it decided in a later step.     *)
(***************************************************************************)
EXTENDS Integers, FiniteSets, FiniteSetsExt

CONSTANTS
  Requests, \* write requests, each served once
  Slots,    \* level, owner and thread type of an instruction set
  Seeded,   \* the slots whose set the seed scripts filled
  Users,    \* who may ask
  Seeder,   \* the user the seeds are attributed to
  Contents, \* instruction texts, normalised
  SeedText, \* the text of the seeds
  None      \* no version

ASSUME StoreAssumption ==
  /\ Seeded \subseteq Slots /\ Requests \cap Slots = {}
  /\ Seeder \in Users /\ SeedText \in Contents
  /\ None \notin Requests \cup Slots
  /\ IsFiniteSet(Requests)

VARIABLES
  sets,     \* instruction_sets: [id, slot]
  versions, \* instruction_versions: [id, set, number, content, by]
  active    \* active_version_id of each set

storeVars == <<sets, versions, active>>

Ids == Requests \cup Seeded
SetRow(id, slot) == [id |-> id, slot |-> slot]
VersionRow(id, set, number, content, by) ==
  [id |-> id, set |-> set, number |-> number, content |-> content, by |-> by]

StoreInit ==
  /\ sets = {SetRow(s, s) : s \in Seeded}
  /\ versions = {VersionRow(s, s, 1, SeedText, Seeder) : s \in Seeded}
  /\ active = [i \in Ids |-> IF i \in Seeded THEN i ELSE None]

(* query.limit(1) has no ORDER BY: any set of the slot may be the first. *)
SetsOf(slot) == {s.id : s \in {t \in sets : t.slot = slot}}
SlotOf(set) == (CHOOSE s \in sets : s.id = set).slot
VersionsOf(set) == {v \in versions : v.set = set}

(* The set a get-or-create returns: one that is there, or a row the        *)
(* request itself inserts. *)
Candidates(r, slot) == IF SetsOf(slot) = {} THEN {r} ELSE SetsOf(slot)

NextNumber(set) ==
  IF VersionsOf(set) = {} THEN 1
  ELSE Max({v.number : v \in VersionsOf(set)}) + 1

StoreTypeOK ==
  /\ sets \subseteq [id : Ids, slot : Slots]
  /\ versions \subseteq [id : Ids, set : Ids, number : 1..(Cardinality(Requests) + 1),
                         content : Contents, by : Users]
  /\ active \in [Ids -> Ids \cup {None}]

(***************************************************************************)
(* Properties every writer has to keep.                                    *)
(***************************************************************************)
(* A set is never pointed at a version of another set, nor at one that     *)
(* does not exist: the text of one owner's layer never shows up in         *)
(* another's. *)
ActiveBelongs ==
  \A s \in sets :
    active[s.id] # None => \E v \in versions : v.id = active[s.id] /\ v.set = s.id

(* Version numbers of a set run from 1 without a gap, even when two saves  *)
(* took the same number. *)
NumbersHaveNoGaps ==
  \A s \in sets :
    LET numbers == {v.number : v \in VersionsOf(s.id)}
    IN numbers = 1..Cardinality(numbers)

(* Every version belongs to a set that exists. *)
VersionsHaveSets == \A v \in versions : \E s \in sets : s.id = v.set

(* "Immutable version of instruction content": a version, once committed,  *)
(* is never changed or removed, and a set in force stays in force. *)
KeepsVersions ==
  /\ versions \subseteq versions' /\ sets \subseteq sets'
  /\ \A i \in Ids : active[i] # None => active'[i] # None
VersionsImmutable == [][KeepsVersions]_storeVars

=============================================================================
