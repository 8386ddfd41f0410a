---------------------------------- MODULE Staff ----------------------------------
(***************************************************************************)
(* The staff of organizations and their custom roles (inviteUser,          *)
(* updateUser, deleteUser, createRole, updateRole and deleteRole in        *)
(* src/src/modules/organizations/organizations.service.ts).  An invitation *)
(* commits an account and its membership, then mails the password, and     *)
(* takes both back when the mail fails.  What a handler checks, it reads   *)
(* before its transaction.  A membership keeps its number, so that a       *)
(* request never takes a later one for it.                                 *)
(***************************************************************************)
EXTENDS Requests

CONSTANTS
  Orgs, Emails,
  Roles,        \* custom roles, of any organization
  Bases,        \* base roles of staff (never OWNER)
  MaxInvited    \* bound on the memberships created

(* What a Membership row says; an absent one is none. *)
Membership == [org : Orgs, email : Emails, role : Bases, custom : Roles \union {None}]

StaffAssumption ==
  None \notin Roles \union Orgs \union Bases \union Membership /\ MaxInvited \in Nat

VARIABLES
  users,      \* users[e]: [exists, active, told], the User row of an address
  members,    \* Membership rows by number: [org, email, role, custom] or None
  roles       \* roles[c]: the base role of a custom role, or None
  \* told is auxiliary: the invitation's mail has come

rowVars == <<users, members, roles>>
vars == <<rowVars, requestVars>>

NoUser == [exists |-> FALSE, active |-> FALSE, told |-> FALSE]

Init ==
  /\ users = [e \in Emails |-> NoUser]
  /\ members = << >>
  /\ roles = [c \in Roles |-> None]
  /\ NoRequests

Standing == {m \in DOMAIN members : members[m] # None}
Of(e) == {m \in Standing : members[m].email = e}

--------------------------------------------------------------------------------
(* Invitations. *)

(* An account without membership does not come about (OneMembership), so    *)
(* the invitation of one is left out.                                       *)
MayInvite(e) == Of(e) = {} /\ ~users[e].exists

InviteRead(w, o, e, c, base) ==
  /\ Idle(w) /\ Len(members) < MaxInvited /\ MayInvite(e)
  /\ c # None => roles[c] # None
  /\ Turn(w, "inviting",
          [org |-> o, email |-> e, custom |-> c, role |-> IF c = None THEN base ELSE roles[c]])
  /\ UNCHANGED rowVars

(* The address is unique, the role still there.                             *)
Accepted_Any(e) == TRUE
Accepted(e) == ~users[e].exists

InviteCommit(w) ==
  /\ At(w, "inviting")
  /\ LET j == job[w]
     IN  /\ Accepted(j.email) /\ (j.custom # None => roles[j.custom] # None)
         /\ users' = [users EXCEPT ![j.email] = [NoUser EXCEPT !.exists = TRUE, !.active = TRUE]]
         /\ members' = Append(members, j)
         /\ Turn(w, "mailing", [member |-> Len(members) + 1, email |-> j.email])
  /\ UNCHANGED roles

MailInvitation(w) ==
  /\ At(w, "mailing")
  /\ users' = [users EXCEPT ![job[w].email].told = @ \/ job[w].member \in Standing]
  /\ Done(w)
  /\ UNCHANGED <<members, roles>>

MailFails(w) ==
  /\ At(w, "mailing")
  /\ Turn(w, "withdrawing", job[w])
  /\ UNCHANGED rowVars

WithdrawnUsers_Kept(e) == users
WithdrawnUsers(e) == [users EXCEPT ![e] = NoUser]

(* Nothing is taken back when the member was removed meanwhile.             *)
Withdraw(w) ==
  /\ At(w, "withdrawing")
  /\ IF job[w].member \in Standing
     THEN /\ members' = [members EXCEPT ![job[w].member] = None]
          /\ users' = WithdrawnUsers(job[w].email)
     ELSE UNCHANGED <<members, users>>
  /\ Done(w)
  /\ UNCHANGED roles

--------------------------------------------------------------------------------
(* Members. *)

(* A change of role: the base role asked for, or a custom role's own, read  *)
(* in the transaction.                                                      *)
AssignRead(w, m, c, base) ==
  /\ Idle(w) /\ m \in Standing
  /\ c # None => roles[c] # None
  /\ Turn(w, "assigning", [member |-> m, custom |-> c, role |-> base])
  /\ UNCHANGED rowVars

AssignedRole(j) == IF j.custom = None THEN j.role ELSE roles[j.custom]

AssignCommit(w) ==
  /\ At(w, "assigning") /\ job[w].member \in Standing
  /\ job[w].custom # None => roles[job[w].custom] # None
  /\ members' = [members EXCEPT ![job[w].member].role = AssignedRole(job[w]),
                                ![job[w].member].custom = job[w].custom]
  /\ Done(w)
  /\ UNCHANGED <<users, roles>>

(* Deactivating closes the account for every organization, so it is        *)
(* refused to one who belongs to several.                                   *)
ActivateRead(w, m, active) ==
  /\ Idle(w) /\ m \in Standing
  /\ active \/ Cardinality(Of(members[m].email)) <= 1
  /\ Turn(w, "activating", [member |-> m, email |-> members[m].email, active |-> active])
  /\ UNCHANGED rowVars

ActivateCommit(w) ==
  /\ At(w, "activating") /\ job[w].member \in Standing
  /\ users' = [users EXCEPT ![job[w].email].active = job[w].active]
  /\ Done(w)
  /\ UNCHANGED <<members, roles>>

RemoveRead(w, m) ==
  /\ Idle(w) /\ m \in Standing
  /\ Turn(w, "removing", [member |-> m, email |-> members[m].email])
  /\ UNCHANGED rowVars

RemoveCommit(w) ==
  /\ At(w, "removing") /\ job[w].member \in Standing
  /\ members' = [members EXCEPT ![job[w].member] = None]
  /\ users' = IF Of(job[w].email) = {job[w].member}
              THEN [users EXCEPT ![job[w].email] = NoUser]
              ELSE users
  /\ Done(w)
  /\ UNCHANGED roles

--------------------------------------------------------------------------------
(* Custom roles. *)

Bearing(c) == {m \in Standing : members[m].custom = c}

CreateRole(c, base) ==
  /\ roles[c] = None
  /\ roles' = [roles EXCEPT ![c] = base]
  /\ UNCHANGED <<users, members, requestVars>>

RoleRead(w, c, base) ==
  /\ Idle(w) /\ roles[c] # None
  /\ Turn(w, "redefining", [custom |-> c, was |-> roles[c], role |-> base])
  /\ UNCHANGED rowVars

Rebased_Kept(c, base) == members
Rebased(c, base) ==
  [m \in DOMAIN members |->
     IF m \in Bearing(c) THEN [members[m] EXCEPT !.role = base] ELSE members[m]]

RoleCommit(w) ==
  /\ At(w, "redefining") /\ roles[job[w].custom] # None
  /\ roles' = [roles EXCEPT ![job[w].custom] = job[w].role]
  /\ members' = IF job[w].was # job[w].role THEN Rebased(job[w].custom, job[w].role) ELSE members
  /\ Done(w)
  /\ UNCHANGED users

MayDelete_Any(c) == TRUE
MayDelete(c) == Bearing(c) = {}

DeleteRoleRead(w, c) ==
  /\ Idle(w) /\ roles[c] # None /\ MayDelete(c)
  /\ Turn(w, "deleting", [custom |-> c])
  /\ UNCHANGED rowVars

(* A member who bears it by now is left with its base role and no custom    *)
(* one (ON DELETE SET NULL).                                                *)
DeleteRoleCommit(w) ==
  /\ At(w, "deleting") /\ roles[job[w].custom] # None
  /\ roles' = [roles EXCEPT ![job[w].custom] = None]
  /\ members' = [m \in DOMAIN members |->
                   IF m \in Bearing(job[w].custom) THEN [members[m] EXCEPT !.custom = None]
                   ELSE members[m]]
  /\ Done(w)
  /\ UNCHANGED users

Abort(w) == GiveUp(w) /\ UNCHANGED rowVars

--------------------------------------------------------------------------------

Invite(w) ==
  \/ \E o \in Orgs, e \in Emails, c \in Roles \union {None}, base \in Bases :
       InviteRead(w, o, e, c, base)
  \/ InviteCommit(w) \/ MailInvitation(w) \/ MailFails(w) \/ Withdraw(w)

Members(w) ==
  \/ \E m \in DOMAIN members :
       \/ \E c \in Roles \union {None}, base \in Bases : AssignRead(w, m, c, base)
       \/ \E active \in BOOLEAN : ActivateRead(w, m, active)
       \/ RemoveRead(w, m)
  \/ AssignCommit(w) \/ ActivateCommit(w) \/ RemoveCommit(w)

CustomRoles(w) ==
  \/ \E c \in Roles :
       (\E base \in Bases : CreateRole(c, base) \/ RoleRead(w, c, base)) \/ DeleteRoleRead(w, c)
  \/ RoleCommit(w) \/ DeleteRoleCommit(w)

Refused(w) ==
  \/ At(w, "inviting") /\ ~(Accepted(job[w].email)
                            /\ (job[w].custom # None => roles[job[w].custom] # None))
  \/ pc[w] \in {"assigning", "activating", "removing"} /\ job[w].member \notin Standing
  \/ At(w, "assigning") /\ job[w].custom # None /\ roles[job[w].custom] = None
  \/ pc[w] \in {"redefining", "deleting"} /\ roles[job[w].custom] = None

Step == \E w \in Workers : Invite(w) \/ Members(w) \/ CustomRoles(w)

Next == Step \/ \E w \in Workers : Abort(w)

Spec == Init /\ [][Next]_vars

(* No handler is cut off between its writes: a request ends early only     *)
(* when the database refuses what it was about to write.                    *)
SteadyNext == Step \/ \E w \in Workers : Refused(w) /\ Abort(w)

--------------------------------------------------------------------------------
(* Properties. *)

(* With two organizations inviting, removing and taking invitations back   *)
(* at once, an account belongs to one organization exactly: an address      *)
(* invited by one is refused to the other, and no one is left without       *)
(* membership (what deactivation and removal rely on).                      *)
OneMembership ==
  \A e \in Emails : Cardinality(Of(e)) = IF users[e].exists THEN 1 ELSE 0

(* No inaccessible account stays behind when a mail fails: once no request  *)
(* runs, everyone who has an account has been sent its password             *)
(* (inviteUser, whoever changed the member meanwhile).                      *)
NoInaccessibleAccount ==
  AllIdle => \A e \in Emails : users[e].exists => users[e].told

(* One request at a time: a member with a custom role has its base role     *)
(* (inviteUser, updateUser, updateRole, deleteRole), and the custom role is *)
(* there.                                                                   *)
RoleIsBase ==
  \A m \in Standing : members[m].custom # None => members[m].role = roles[members[m].custom]

(* A custom role is not taken from anyone but by assigning another: users   *)
(* are reassigned before it is deleted (deleteRole).                        *)
RoleDeletedUnborne ==
  \A c \in Roles : roles[c] # None /\ roles'[c] = None => Bearing(c) = {}
================================================================================
