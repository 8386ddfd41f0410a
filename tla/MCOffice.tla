-------------------------------- MODULE MCOffice --------------------------------
(***************************************************************************)
(* Small instances of SignIn, Workflow, Teardown, DeletionCode, Staff,     *)
(* Settings and Locations, side by side, as MCTrade has those of Inventory *)
(* and Receivables.                                                        *)
(***************************************************************************)
EXTENDS Requests, TLC

CONSTANTS
  One, Two,             \* workers of a scene
  large, small,         \* two invoices
  always, over, tell,   \* workflow rules
  org1, org2,           \* organizations
  mail1, mail2,         \* addresses, and ids of locations
  custom                \* a custom role

VARIABLES
  scene,                                          \* the name of the scene
  user, sessions,                                 \* see SignIn
  records, matched, rules, approvals, notices,    \* see Workflow
  rows, plan, next, status, late,                 \* see Teardown
  latest, entries,                                \* see DeletionCode
  users, members, roles,                          \* see Staff
  data,                                           \* see Settings
  hierarchy,                                      \* see Locations
  org                                             \* of DeletionCode and Settings

signing == <<user, sessions>>
ruling == <<records, matched, rules, approvals, notices>>
removing == <<rows, plan, next, status, late>>
coding == <<latest, entries>>
staffing == <<users, members, roles>>
vars ==
  <<scene, signing, ruling, removing, coding, staffing, data, hierarchy, org, requestVars>>

MCSymmetry ==
  Permutations(Two) \union Permutations({org1, org2}) \union Permutations({mail1, mail2})

--------------------------------------------------------------------------------

SignScenes ==
  [sessions_serial |-> [workers |-> One, invited |-> TRUE, sessions |-> 4, changes |-> 2],
   sessions_races  |-> [workers |-> Two, invited |-> FALSE, sessions |-> 3, changes |-> 2]]
Sign(s) ==
  INSTANCE SignIn WITH
    Workers <- s.workers, Invited <- s.invited, MaxSessions <- s.sessions,
    MaxChanges <- s.changes

(* Two invoices, one above the threshold of a rule; two rules that ask for *)
(* approval and one that only tells.                                       *)
MCEvents ==
  [r \in {large, small} |-> [event |-> "INVOICE_CREATED", amount |-> IF r = large THEN 9 ELSE 1]]
MCRules ==
  [u \in {always, over, tell} |->
     [event |-> "INVOICE_CREATED", over |-> IF u = over THEN 5 ELSE -1,
      action |-> IF u = tell THEN "SEND_NOTIFICATION" ELSE "CREATE_APPROVAL"]]

RuleScenes ==
  [workflow_events |->
     [workers |-> Two, steady |-> FALSE, records |-> {large}, rules |-> {always, over, tell},
      roles |-> {}, deleting |-> TRUE, byHand |-> 0],
   workflow_counts |->
     [workers |-> Two, steady |-> TRUE, records |-> {large, small}, rules |-> {over, tell},
      roles |-> {"APPROVER"}, deleting |-> FALSE, byHand |-> 0],
   workflow_serial |->
     [workers |-> One, steady |-> TRUE, records |-> {large}, rules |-> {always, tell},
      roles |-> {"APPROVER", "MEMBER"}, deleting |-> TRUE, byHand |-> 3]]
Rule(s) ==
  INSTANCE Workflow WITH
    Workers <- s.workers, Records <- s.records, EventOf <- [r \in s.records |-> MCEvents[r]],
    Rules <- s.rules, RuleOf <- [u \in s.rules |-> MCRules[u]], Roles <- s.roles,
    Deleting <- s.deleting, MaxByHand <- s.byHand

(* Without commerce channels, whose organization is never deleted.         *)
RemoveScenes ==
  [teardown |-> [without |-> {"CommerceChannel"}, plans |-> {"organization"}, late |-> 1]]
Remove(s) ==
  INSTANCE Teardown WITH Without <- s.without, Plans <- s.plans, MaxLate <- s.late

CodeScenes ==
  [deletion_serial |-> [workers |-> One, allowed |-> 2, wrong |-> 6],
   deletion_races  |-> [workers |-> Two, allowed |-> 2, wrong |-> 0]]
Code(s) ==
  INSTANCE DeletionCode WITH Workers <- s.workers, Allowed <- s.allowed, MaxWrong <- s.wrong

StaffScenes ==
  [staff_races |->
     [workers |-> Two, steady |-> FALSE, orgs |-> {org1, org2}, emails |-> {mail1},
      roles |-> {}, bases |-> {"MEMBER"}, invited |-> 2],
   staff_invited |->
     [workers |-> Two, steady |-> TRUE, orgs |-> {org1, org2}, emails |-> {mail1},
      roles |-> {}, bases |-> {"MEMBER"}, invited |-> 3],
   roles_serial |->
     [workers |-> One, steady |-> FALSE, orgs |-> {org1}, emails |-> {mail1, mail2},
      roles |-> {custom}, bases |-> {"ADMIN", "MEMBER"}, invited |-> 2]]
People(s) ==
  INSTANCE Staff WITH
    Workers <- s.workers, Orgs <- s.orgs, Emails <- s.emails, Roles <- s.roles,
    Bases <- s.bases, MaxInvited <- s.invited

SetupScenes ==
  [settings |-> [workers |-> One, currencies |-> {"NGN", "USD"}, sections |-> {"profile", "currencies"}]]
Setup(s) ==
  INSTANCE Settings WITH Workers <- s.workers, Currencies <- s.currencies, Sections <- s.sections

PlaceScenes == [locations |-> [ids |-> {mail1, mail2}, most |-> 2]]
Place(s) == INSTANCE Locations WITH Ids <- s.ids, MaxOfKind <- s.most

ASSUME OfficeAssumption ==
  /\ \E w \in Workers : One = {w}
  /\ Cardinality(Two) = 2 /\ One \union Two = Workers
  /\ \A n \in DOMAIN SignScenes : Sign(SignScenes[n])!SignInAssumption
  /\ \A n \in DOMAIN RuleScenes : Rule(RuleScenes[n])!WorkflowAssumption
  /\ \A n \in DOMAIN CodeScenes : Code(CodeScenes[n])!DeletionCodeAssumption
  /\ \A n \in DOMAIN StaffScenes : People(StaffScenes[n])!StaffAssumption
  /\ \A n \in DOMAIN RemoveScenes : Remove(RemoveScenes[n])!TeardownAssumption
  /\ \A n \in DOMAIN SetupScenes : Setup(SetupScenes[n])!SettingsAssumption

--------------------------------------------------------------------------------

NoSigning == user = None /\ sessions = None
NoRuling == records = None /\ matched = None /\ rules = None /\ approvals = None /\ notices = None
NoRemoving == rows = None /\ plan = None /\ next = None /\ status = None /\ late = None
NoCoding == latest = None /\ entries = None
NoStaffing == users = None /\ members = None /\ roles = None
NoSetup == data = None

Init ==
  \/ /\ \E n \in DOMAIN SignScenes : scene = n /\ Sign(SignScenes[n])!Init
     /\ NoRuling /\ NoRemoving /\ NoCoding /\ NoStaffing /\ NoSetup
     /\ hierarchy = None /\ org = None
  \/ /\ \E n \in DOMAIN RuleScenes : scene = n /\ Rule(RuleScenes[n])!Init
     /\ NoSigning /\ NoRemoving /\ NoCoding /\ NoStaffing /\ NoSetup
     /\ hierarchy = None /\ org = None
  \/ /\ \E n \in DOMAIN RemoveScenes : scene = n /\ Remove(RemoveScenes[n])!Init /\ NoRequests
     /\ NoSigning /\ NoRuling /\ NoCoding /\ NoStaffing /\ NoSetup
     /\ hierarchy = None /\ org = None
  \/ /\ \E n \in DOMAIN CodeScenes : scene = n /\ Code(CodeScenes[n])!Init
     /\ NoSigning /\ NoRuling /\ NoRemoving /\ NoStaffing /\ NoSetup /\ hierarchy = None
  \/ /\ \E n \in DOMAIN StaffScenes : scene = n /\ People(StaffScenes[n])!Init
     /\ NoSigning /\ NoRuling /\ NoRemoving /\ NoCoding /\ NoSetup
     /\ hierarchy = None /\ org = None
  \/ /\ \E n \in DOMAIN SetupScenes : scene = n /\ Setup(SetupScenes[n])!Init
     /\ NoSigning /\ NoRuling /\ NoRemoving /\ NoCoding /\ NoStaffing /\ hierarchy = None
  \/ /\ \E n \in DOMAIN PlaceScenes : scene = n /\ Place(PlaceScenes[n])!Init /\ NoRequests
     /\ NoSigning /\ NoRuling /\ NoRemoving /\ NoCoding /\ NoStaffing /\ NoSetup /\ org = None

RuleNext(s) == IF s.steady THEN Rule(s)!Step ELSE Rule(s)!Next
PeopleNext(s) == IF s.steady THEN People(s)!SteadyNext ELSE People(s)!Next

Next ==
  /\ \/ /\ \E n \in DOMAIN SignScenes : scene = n /\ Sign(SignScenes[n])!Next
        /\ UNCHANGED <<ruling, removing, coding, staffing, data, hierarchy, org>>
     \/ /\ \E n \in DOMAIN RuleScenes : scene = n /\ RuleNext(RuleScenes[n])
        /\ UNCHANGED <<signing, removing, coding, staffing, data, hierarchy, org>>
     \/ /\ \E n \in DOMAIN RemoveScenes : scene = n /\ Remove(RemoveScenes[n])!Next
        /\ UNCHANGED <<signing, ruling, coding, staffing, data, hierarchy, org, requestVars>>
     \/ /\ \E n \in DOMAIN CodeScenes : scene = n /\ Code(CodeScenes[n])!Next
        /\ UNCHANGED <<signing, ruling, removing, staffing, data, hierarchy>>
     \/ /\ \E n \in DOMAIN StaffScenes : scene = n /\ PeopleNext(StaffScenes[n])
        /\ UNCHANGED <<signing, ruling, removing, coding, data, hierarchy, org>>
     \/ /\ \E n \in DOMAIN SetupScenes : scene = n /\ Setup(SetupScenes[n])!Next
        /\ UNCHANGED <<signing, ruling, removing, coding, staffing, hierarchy>>
     \/ /\ \E n \in DOMAIN PlaceScenes : scene = n /\ Place(PlaceScenes[n])!Next
        /\ UNCHANGED <<signing, ruling, removing, coding, staffing, data, org, requestVars>>
  /\ UNCHANGED scene

Spec == Init /\ [][Next]_vars

--------------------------------------------------------------------------------
(* The modules' properties, in the scenes where the code keeps them. *)

(* In every interleaving no session older than the last change of the      *)
(* password is live; one at a time, a sign-in has one live session         *)
(* (changePassword, refresh).                                              *)
SessionsEnd ==
  \A n \in DOMAIN SignScenes : scene = n =>
    /\ Sign(SignScenes[n])!OldSessionsEnd
    /\ n = "sessions_serial" => Sign(SignScenes[n])!OneLivePerSignIn

(* A record whose rules have run was passed over by none of those it       *)
(* matched, whatever fails or is deleted; while none is deleted every run  *)
(* or failure is counted; one at a time, every approval and every decision *)
(* is announced (executeEvent, decide).                                    *)
RulesRun ==
  /\ \A n \in {"workflow_events", "workflow_counts"} :
       scene = n => Rule(RuleScenes[n])!NoRulePassedOver
  /\ \A n \in {"workflow_counts"} : scene = n => Rule(RuleScenes[n])!EveryRuleCounted
  /\ \A n \in {"workflow_serial"} : scene = n => Rule(RuleScenes[n])!EveryApprovalAnnounced

(* An organization is removed unless rows are added while that runs, and   *)
(* nothing of it is left (deleteOrganization against the foreign keys).    *)
RemovedWhole ==
  \A n \in DOMAIN RemoveScenes : scene = n =>
    Remove(RemoveScenes[n])!RefusedOnlyByLateRows /\ Remove(RemoveScenes[n])!NothingLeft

(* A code that has come is accepted: mails of other codes that fail do not *)
(* withdraw it, and one at a time no wrong entry that came before does.    *)
CodeThatCameCounts ==
  \A n \in DOMAIN CodeScenes : scene = n => Code(CodeScenes[n])!CodeThatCameCounts

(* In every interleaving an account has one organization, and once         *)
(* invitations are over, everyone with an account has been sent its        *)
(* password (inviteUser); one at a time, members have the base role of     *)
(* their custom role (updateRole, deleteRole).                             *)
StaffKept ==
  \A n \in DOMAIN StaffScenes : scene = n =>
    /\ People(StaffScenes[n])!OneMembership
    /\ n = "staff_invited" => People(StaffScenes[n])!NoInaccessibleAccount
    /\ n = "roles_serial" => People(StaffScenes[n])!RoleIsBase

(* One at a time: a decision stands, a custom role that somebody bears is  *)
(* not deleted, and who saves one part of the document of an organization  *)
(* keeps the others (decide, deleteRole, updateSection).                   *)
NothingTakenBack ==
  [][/\ \A n \in {"workflow_serial"} : scene = n => Rule(RuleScenes[n])!DecisionsStand
     /\ \A n \in {"roles_serial"} : scene = n => People(StaffScenes[n])!RoleDeletedUnborne
     /\ \A n \in DOMAIN SetupScenes : scene = n => Setup(SetupScenes[n])!PartsKept]_vars

(* One at a time, onboarding that is complete has all its steps; every     *)
(* branch of an accepted hierarchy hangs from one state, and its records   *)
(* show under that one unless another branch has its id.                   *)
SetupAgrees ==
  /\ \A n \in DOMAIN SetupScenes : scene = n => Setup(SetupScenes[n])!CompletedHasAll
  /\ \A n \in DOMAIN PlaceScenes : scene = n => Place(PlaceScenes[n])!EveryBranchUnderOneState
================================================================================
