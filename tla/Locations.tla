-------------------------------- MODULE Locations --------------------------------
(***************************************************************************)
(* Where an organization works: states, regions and branches, in three     *)
(* levels or two, as the branches section of its settings holds them       *)
(* (validateSection in organizations.service.ts), and the branches whose   *)
(* records the activity of a location shows (locationActivity).  Names,    *)
(* addresses, status and managers are taken to be right.  That two         *)
(* branches have ids of their own nobody checks.                           *)
(***************************************************************************)
EXTENDS Integers, Sequences, FiniteSets

CONSTANTS
  Ids,
  MaxOfKind     \* bound on the entries of a kind

VARIABLE hierarchy  \* [levels, states, regions, branches], the section as stored
vars == <<hierarchy>>

Lists(S) == UNION {[1..n -> S] : n \in 0..MaxOfKind}
Entries(list) == {list[i] : i \in DOMAIN list}
Distinct(list) == Cardinality(Entries(list)) = Len(list)
IdsOf(list) == [i \in DOMAIN list |-> list[i].id]

(* Whatever a client may send.                                              *)
Submissions ==
  [levels : {2, 3}, states : Lists([id : Ids]), regions : Lists([id : Ids, stateId : Ids]),
   branches : Lists([id : Ids, regionId : Ids])]

Empty == [levels |-> 3, states |-> << >>, regions |-> << >>, branches |-> << >>]

Init == hierarchy = Empty

Hierarchical(h) == Len(h.states) > 0 \/ Len(h.regions) > 0

ParentIds_Regions(h) == Entries(IdsOf(h.regions))
ParentIds(h) == Entries(IdsOf(IF h.levels = 2 THEN h.states ELSE h.regions))

Valid(h) ==
  Hierarchical(h) =>
    /\ Distinct(IdsOf(h.states)) /\ Distinct(IdsOf(h.regions))
    /\ h.levels = 3 => \A r \in Entries(h.regions) : r.stateId \in Entries(IdsOf(h.states))
    /\ \A b \in Entries(h.branches) : b.regionId \in ParentIds(h)

UpdateSection(h) == Valid(h) /\ hierarchy' = h

Next == \E h \in Submissions : UpdateSection(h)

Spec == Init /\ [][Next]_vars

--------------------------------------------------------------------------------
(* locationActivity: the regions a location stands for, and their branches. *)

RegionIds(type, id) ==
  CASE type = "state" /\ hierarchy.levels = 2 -> {id}
    [] type = "state" /\ hierarchy.levels # 2 ->
         {r.id : r \in {r \in Entries(hierarchy.regions) : r.stateId = id}}
    [] type = "region" -> {id}
    [] type = "branch" -> {}

BranchIds(type, id) ==
  IF type = "branch" THEN {id}
  ELSE {b.id : b \in {b \in Entries(hierarchy.branches) : b.regionId \in RegionIds(type, id)}}

(* Of the stored kinds, those that branches hang from.                      *)
StateIds == Entries(IdsOf(hierarchy.states))

--------------------------------------------------------------------------------
(* Properties. *)

(* In a hierarchy that was accepted, with three levels or two, every branch *)
(* that is listed hangs from one state and no other, and its records show   *)
(* under that state alone unless another listed branch has its id           *)
(* (validateSection, which checks the ids of states and of regions, against *)
(* locationActivity, which selects records by the ids of branches).         *)
EveryBranchUnderOneState ==
  Hierarchical(hierarchy) =>
    \A b \in Entries(hierarchy.branches) :
      /\ Cardinality({s \in StateIds : b.regionId \in RegionIds("state", s)}) = 1
      /\ (\A c \in Entries(hierarchy.branches) : c.id = b.id => c = b) =>
           Cardinality({s \in StateIds : b.id \in BranchIds("state", s)}) = 1
================================================================================
