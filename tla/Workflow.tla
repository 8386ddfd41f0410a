-------------------------------- MODULE Workflow --------------------------------
(***************************************************************************)
(* Approvals, the rules that ask for them, and what is announced           *)
(* (WorkflowService in src/src/modules/workflow/workflow.service.ts).  An  *)
(* invoice, bill or expense is committed first; its event then runs the    *)
(* rules one after the other, outside any transaction: the effect of a     *)
(* rule, its announcement and the count of its runs are writes of their    *)
(* own, and a rule that fails must not keep the others from running.       *)
(***************************************************************************)
EXTENDS Requests

CONSTANTS
  Records, EventOf,   \* business records and the event of each: [event, amount]
  Rules, RuleOf,      \* rules and what each says: [event, over, action]
  Roles,              \* roles of the people who decide
  Deleting,           \* whether rules are deleted
  MaxByHand           \* bound on what is asked for, run and announced by hand

CreatesApproval(u) == RuleOf[u].action = "CREATE_APPROVAL"

WorkflowAssumption ==
  /\ EventOf \in [Records -> [event : STRING, amount : Nat]]
  /\ RuleOf \in [Rules -> [event : STRING, over : Nat \union {-1}, action : STRING]]
  /\ Deleting \in BOOLEAN /\ MaxByHand \in Nat

VARIABLES
  records,    \* records[r]: "none", then "new", "done" once its rules have run, or
              \* "cut" when that ended with an exception; auxiliary but for "none"
  matched,    \* matched[r]: the rules its event found (auxiliary)
  rules,      \* WorkflowRule rows: [status, runs, failures]
  approvals,  \* ApprovalRequest rows in order: [record, role, status, by]
  notices     \* AppNotification rows in order: [kind, about]

rowVars == <<records, matched, rules, approvals, notices>>
vars == <<rowVars, requestVars>>

Init ==
  /\ records = [r \in Records |-> "none"]
  /\ matched = [r \in Records |-> {}]
  /\ rules = [u \in Rules |-> [status |-> "unborn", runs |-> 0, failures |-> 0]]
  /\ approvals = << >>
  /\ notices = << >>
  /\ NoRequests

--------------------------------------------------------------------------------
(* Approvals.  The manual runs of a rule ask for approval of no record.     *)

Asked(r) == \E a \in DOMAIN approvals : approvals[a].record = r
Unique(r) == r = None \/ ~Asked(r)     \* @@unique: entity type and reference

Request(r, role, by) ==
  approvals' = Append(approvals, [record |-> r, role |-> role, status |-> "PENDING", by |-> by])

Announce(kind, about) == notices' = Append(notices, [kind |-> kind, about |-> about])

MoreByHand == Len(approvals) + Len(notices) < MaxByHand

CreateApproval(w, r, role) ==
  /\ Idle(w) /\ MoreByHand
  /\ records[r] # "none" /\ Unique(r)
  /\ Request(r, role, None)
  /\ Turn(w, "asking", [approval |-> Len(approvals) + 1])
  /\ UNCHANGED <<records, matched, rules, notices>>

AnnounceApproval(w) ==
  /\ At(w, "asking")
  /\ Announce("asked", job[w].approval)
  /\ Done(w)
  /\ UNCHANGED <<records, matched, rules, approvals>>

MayDecide_Any(a, role) == role \in {"OWNER", "ADMIN", approvals[a].role}
MayDecide(a, role) ==
  approvals[a].status = "PENDING" /\ role \in {"OWNER", "ADMIN", approvals[a].role}

Decisions == {"APPROVED", "REJECTED", "CANCELLED"}

DecideRead(w, a, role, status) ==
  /\ Idle(w) /\ MayDecide(a, role)
  /\ Turn(w, "deciding", [approval |-> a, status |-> status])
  /\ UNCHANGED rowVars

DecideCommit(w) ==
  /\ At(w, "deciding")
  /\ approvals' = [approvals EXCEPT ![job[w].approval].status = job[w].status]
  /\ Turn(w, "telling", job[w])
  /\ UNCHANGED <<records, matched, rules, notices>>

Told_Read(w) == "PENDING"
Told(w) == job[w].status

AnnounceDecision(w) ==
  /\ At(w, "telling")
  /\ Announce(Told(w), job[w].approval)
  /\ Done(w)
  /\ UNCHANGED <<records, matched, rules, approvals>>

--------------------------------------------------------------------------------
(* Rules.  A rule whose row has gone cannot be counted.                     *)

Stored(u) == rules[u].status \in {"ACTIVE", "PAUSED"}

CreateRule(u) ==
  /\ rules[u].status = "unborn"
  /\ rules' = [rules EXCEPT ![u].status = "ACTIVE"]
  /\ UNCHANGED <<records, matched, approvals, notices, requestVars>>

RuleStatus(u, status) ==
  /\ Stored(u)
  /\ rules' = [rules EXCEPT ![u].status = status]
  /\ UNCHANGED <<records, matched, approvals, notices, requestVars>>

DeleteRule(u) ==
  /\ Deleting /\ Stored(u)
  /\ rules' = [rules EXCEPT ![u].status = "deleted"]
  /\ UNCHANGED <<records, matched, approvals, notices, requestVars>>

(* A run by hand: the approval, its announcement, the count, the report.    *)
RunRule(w, u) ==
  /\ Idle(w) /\ rules[u].status = "ACTIVE"
  /\ MoreByHand /\ rules[u].runs < MaxByHand
  /\ IF CreatesApproval(u)
     THEN /\ Request(None, "APPROVER", u)
          /\ Turn(w, "hand_asking", [rule |-> u, approval |-> Len(approvals) + 1])
     ELSE UNCHANGED approvals /\ Turn(w, "hand_counting", [rule |-> u])
  /\ UNCHANGED <<records, matched, rules, notices>>

AnnounceByHand(w) ==
  /\ At(w, "hand_asking")
  /\ Announce("asked", job[w].approval)
  /\ Turn(w, "hand_counting", job[w])
  /\ UNCHANGED <<records, matched, rules, approvals>>

CountedRun_Read(w, u) == [rules EXCEPT ![u].runs = 1]
CountedRun(w, u) == [rules EXCEPT ![u].runs = @ + 1]

CountByHand(w) ==
  /\ At(w, "hand_counting") /\ Stored(job[w].rule)
  /\ rules' = CountedRun(w, job[w].rule)
  /\ Turn(w, "reporting", job[w])
  /\ UNCHANGED <<records, matched, approvals, notices>>

ReportByHand(w) ==
  /\ At(w, "reporting")
  /\ Announce("ran", job[w].rule)
  /\ Done(w)
  /\ UNCHANGED <<records, matched, rules, approvals>>

--------------------------------------------------------------------------------
(* An event: the rules that are active then and whose condition holds.      *)

Matches(u, r) ==
  /\ rules[u].status = "ACTIVE" /\ RuleOf[u].event = EventOf[r].event
  /\ EventOf[r].amount > RuleOf[u].over

CreateRecord(w, r) ==
  /\ Idle(w) /\ records[r] = "none"
  /\ records' = [records EXCEPT ![r] = "new"]
  /\ Turn(w, "listing", [record |-> r])
  /\ UNCHANGED <<matched, rules, approvals, notices>>

ListRules(w) ==
  /\ At(w, "listing")
  /\ LET found == {u \in Rules : Matches(u, job[w].record)}
     IN  /\ matched' = [matched EXCEPT ![job[w].record] = found]
         /\ Turn(w, "running", [record |-> job[w].record, left |-> found])
  /\ UNCHANGED <<records, rules, approvals, notices>>

(* The turn of a rule comes: what it does for the record, or the failure    *)
(* of asking a second time for approval of one.                             *)
RunApproval(w, u) ==
  /\ At(w, "running") /\ u \in job[w].left /\ CreatesApproval(u)
  /\ LET r == job[w].record
         next == [record |-> r, left |-> job[w].left \ {u}, rule |-> u,
                  approval |-> Len(approvals) + 1]
     IN  IF Unique(r)
         THEN Request(r, "APPROVER", u) /\ Turn(w, "event_asking", next)
         ELSE UNCHANGED approvals /\ Turn(w, "failing", next)
  /\ UNCHANGED <<records, matched, rules, notices>>

AnnounceInEvent(w) ==
  /\ At(w, "event_asking")
  /\ Announce("asked", job[w].approval)
  /\ Turn(w, "counting", job[w])
  /\ UNCHANGED <<records, matched, rules, approvals>>

RunNotice(w, u) ==
  /\ At(w, "running") /\ u \in job[w].left /\ ~CreatesApproval(u)
  /\ Announce("rule", [rule |-> u, record |-> job[w].record])
  /\ Turn(w, "counting", [record |-> job[w].record, left |-> job[w].left \ {u}, rule |-> u])
  /\ UNCHANGED <<records, matched, rules, approvals>>

CountRun(w) ==
  /\ At(w, "counting")
  /\ IF Stored(job[w].rule)
     THEN rules' = CountedRun(w, job[w].rule) /\ Turn(w, "running", job[w])
     ELSE UNCHANGED rules /\ Turn(w, "failing", job[w])
  /\ UNCHANGED <<records, matched, approvals, notices>>

AfterFailure_Stop(w) == {}
AfterFailure(w) == job[w].left

(* The count of a failure is itself outside the try: it ends the event when *)
(* the rule has been deleted meanwhile.                                     *)
CountFailure(w) ==
  /\ At(w, "failing")
  /\ IF Stored(job[w].rule)
     THEN /\ rules' = [rules EXCEPT ![job[w].rule].failures = @ + 1]
          /\ Turn(w, "running", [job[w] EXCEPT !.left = AfterFailure(w)])
          /\ UNCHANGED records
     ELSE /\ records' = [records EXCEPT ![job[w].record] = "cut"]
          /\ Done(w)
          /\ UNCHANGED rules
  /\ UNCHANGED <<matched, approvals, notices>>

FinishEvent(w) ==
  /\ At(w, "running") /\ job[w].left = {}
  /\ records' = [records EXCEPT ![job[w].record] = "done"]
  /\ Done(w)
  /\ UNCHANGED <<matched, rules, approvals, notices>>

Abort(w) == GiveUp(w) /\ UNCHANGED rowVars

--------------------------------------------------------------------------------

ByHand(w) ==
  \/ \E r \in Records, role \in Roles : CreateApproval(w, r, role)
  \/ AnnounceApproval(w)
  \/ \E a \in DOMAIN approvals, role \in Roles, status \in Decisions :
       DecideRead(w, a, role, status)
  \/ DecideCommit(w) \/ AnnounceDecision(w)
  \/ \E u \in Rules : RunRule(w, u)
  \/ AnnounceByHand(w) \/ CountByHand(w) \/ ReportByHand(w)

Event(w) ==
  \/ \E r \in Records : CreateRecord(w, r)
  \/ ListRules(w)
  \/ \E u \in Rules : RunApproval(w, u) \/ RunNotice(w, u)
  \/ AnnounceInEvent(w) \/ CountRun(w) \/ CountFailure(w) \/ FinishEvent(w)

Administer(u) ==
  CreateRule(u) \/ DeleteRule(u) \/ \E status \in {"ACTIVE", "PAUSED"} : RuleStatus(u, status)

(* A step in which no handler is cut off between its writes.                *)
Step ==
  \/ \E w \in Workers : ByHand(w) \/ Event(w)
  \/ \E u \in Rules : Administer(u)

Next == Step \/ \E w \in Workers : Abort(w)

Spec == Init /\ [][Next]_vars

--------------------------------------------------------------------------------
(* Properties. *)

(* Whatever fails, is deleted or is asked for meanwhile: a record whose     *)
(* event ran to its end has an approval request if it matched a rule that   *)
(* asks for one, and the notice of every rule it matched that tells         *)
(* (executeEvent, the failure of one rule before another).                  *)
NoRulePassedOver ==
  \A r \in Records : \A u \in matched[r] :
    records[r] = "done" =>
      IF CreatesApproval(u) THEN Asked(r)
      ELSE \E n \in DOMAIN notices :
             notices[n] = [kind |-> "rule", about |-> [rule |-> u, record |-> r]]

(* No rule that the event matched is passed over because of another: its    *)
(* run or its failure is counted, by as many events as matched it.  The     *)
(* rows of two events are changed side by side (executeEvent); where no     *)
(* rule is deleted and none is run by hand.                                 *)
EveryRuleCounted ==
  AllIdle =>
    \A u \in Rules :
      rules[u].runs + rules[u].failures = Cardinality({r \in Records : u \in matched[r]})

(* Without a restart every approval is announced once as asked for, and     *)
(* once for each decision written; a pending one has had none.              *)
EveryApprovalAnnounced ==
  AllIdle =>
    \A a \in DOMAIN approvals :
      LET Said(kind) == {n \in DOMAIN notices : notices[n] = [kind |-> kind, about |-> a]}
      IN  /\ Cardinality(Said("asked")) = 1
          /\ approvals[a].status # "PENDING" => Said(approvals[a].status) # {}
          /\ approvals[a].status = "PENDING" => \A status \in Decisions : Said(status) = {}

(* A decision stands: only pending requests are decided (decide).           *)
DecisionsStand ==
  \A a \in DOMAIN approvals :
    approvals[a].status # "PENDING" => approvals'[a].status = approvals[a].status
================================================================================
