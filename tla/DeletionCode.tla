------------------------------ MODULE DeletionCode ------------------------------
(***************************************************************************)
(* The code that confirms the deletion of an organization                  *)
(* (requestDeletionCode and deleteOrganization in                          *)
(* src/src/modules/organizations/organizations.service.ts).  A code is     *)
(* stored before it is mailed, and withdrawn when the mail fails; wrong    *)
(* entries are counted and the last one allowed withdraws it too.  A code  *)
(* is named by the request that made it.  What the deletion does to the    *)
(* rows is in Teardown.                                                    *)
(***************************************************************************)
EXTENDS Requests

CONSTANTS
  Allowed,      \* wrong entries that withdraw a code (5 in the code)
  MaxWrong      \* bound on the wrong entries begun

DeletionCodeAssumption == Allowed \in Nat \ {0} /\ MaxWrong \in Nat

VARIABLES
  org,        \* [exists, code, fresh, recent, attempts], the Organization row
  latest,     \* auxiliary: the code stored last, whether it has come, how
              \* many wrong entries were begun since: [code, came, wrong]
  entries     \* auxiliary: wrong entries begun

rowVars == <<org, latest, entries>>
vars == <<rowVars, requestVars>>

NoCode == [exists |-> TRUE, code |-> None, fresh |-> FALSE, recent |-> FALSE, attempts |-> 0]

Init ==
  /\ org = NoCode
  /\ latest = [code |-> None, came |-> FALSE, wrong |-> 0]
  /\ entries = 0
  /\ NoRequests

--------------------------------------------------------------------------------

MayAsk_Once == org.code = None
MayAsk == ~org.recent

AskRead(w) ==
  /\ Idle(w) /\ org.exists /\ MayAsk
  /\ Turn(w, "storing", None)
  /\ UNCHANGED rowVars

StoreCode(w) ==
  /\ At(w, "storing") /\ org.exists
  /\ org' = [NoCode EXCEPT !.code = w, !.fresh = TRUE, !.recent = TRUE]
  /\ latest' = [code |-> w, came |-> FALSE, wrong |-> 0]
  /\ Turn(w, "mailing", None)
  /\ UNCHANGED entries

MailCode(w) ==
  /\ At(w, "mailing")
  /\ latest' = [latest EXCEPT !.came = @ \/ latest.code = w]
  /\ Done(w)
  /\ UNCHANGED <<org, entries>>

MailFails(w) ==
  /\ At(w, "mailing")
  /\ Turn(w, "withdrawing", None)
  /\ UNCHANGED rowVars

(* updateMany where the hash is still that of this code.                    *)
Withdrawn_Any(w) == NoCode
Withdrawn(w) == IF org.code = w THEN NoCode ELSE org

Withdraw(w) ==
  /\ At(w, "withdrawing")
  /\ org' = IF org.exists THEN Withdrawn(w) ELSE org
  /\ Done(w)
  /\ UNCHANGED <<latest, entries>>

CodeExpires ==
  /\ org.exists /\ org.fresh
  /\ org' = [org EXCEPT !.fresh = FALSE]
  /\ latest' = [latest EXCEPT !.code = None]
  /\ UNCHANGED <<entries, requestVars>>

MinutePasses ==
  /\ org.recent /\ org' = [org EXCEPT !.recent = FALSE]
  /\ UNCHANGED <<latest, entries, requestVars>>

EnterRight(w) ==
  /\ Idle(w) /\ org.exists /\ org.code # None /\ org.fresh
  /\ latest.code = org.code /\ latest.came
  /\ Turn(w, "deleting", None)
  /\ UNCHANGED rowVars

EnterWrong(w) ==
  /\ Idle(w) /\ org.exists /\ entries < MaxWrong
  /\ entries' = entries + 1
  /\ latest' = [latest EXCEPT !.wrong = @ + 1]
  /\ Turn(w, "counting", [attempts |-> org.attempts + 1])
  /\ UNCHANGED org

Exhausted_Early(n) == n + 1 >= Allowed
Exhausted(n) == n >= Allowed

(* The count read before is written, and decides.                           *)
CountWrong(w) ==
  /\ At(w, "counting") /\ org.exists
  /\ org' = IF Exhausted(job[w].attempts)
            THEN [org EXCEPT !.attempts = job[w].attempts, !.code = None, !.fresh = FALSE]
            ELSE [org EXCEPT !.attempts = job[w].attempts]
  /\ Done(w)
  /\ UNCHANGED <<latest, entries>>

DeleteCommit(w) ==
  /\ At(w, "deleting") /\ org.exists
  /\ org' = [NoCode EXCEPT !.exists = FALSE]
  /\ Done(w)
  /\ UNCHANGED <<latest, entries>>

Abort(w) == GiveUp(w) /\ UNCHANGED rowVars

--------------------------------------------------------------------------------

Next ==
  \/ \E w \in Workers :
       \/ AskRead(w) \/ StoreCode(w) \/ MailCode(w) \/ MailFails(w) \/ Withdraw(w)
       \/ EnterRight(w) \/ EnterWrong(w) \/ CountWrong(w) \/ DeleteCommit(w) \/ Abort(w)
  \/ CodeExpires \/ MinutePasses

Spec == Init /\ [][Next]_vars

--------------------------------------------------------------------------------
(* Properties. *)

(* A code that has come, is the last one stored and has not expired is     *)
(* accepted, unless as many wrong entries as are allowed were begun since:  *)
(* however mails of other codes fail, no one withdraws it                   *)
(* (requestDeletionCode's compensation, deleteOrganization's count).        *)
CodeThatCameCounts ==
  org.exists /\ latest.code # None /\ latest.came /\ latest.wrong < Allowed =>
    org.code = latest.code /\ org.fresh
================================================================================
