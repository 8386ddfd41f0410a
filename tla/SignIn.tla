--------------------------------- MODULE SignIn ---------------------------------
(***************************************************************************)
(* One account: its verification by a mailed code, and its sessions        *)
(* (AuthService in src/src/modules/auth/auth.service.ts).  A code is       *)
(* stored, mailed and marked as sent in three steps, any of which may be   *)
(* the last; a session is created, then given its token.  A code is named  *)
(* by the request that made it; a session keeps, as auxiliary information, *)
(* the sign-in it descends from.  Tokens and passwords are taken to be     *)
(* right: what is modelled is what the rows allow.                         *)
(***************************************************************************)
EXTENDS Requests

CONSTANTS
  Invited,      \* whether the account exists already, by an invitation
  MaxSessions, MaxChanges  \* bounds on sessions and password changes

SignInAssumption == Invited \in BOOLEAN /\ MaxSessions \in Nat

VARIABLES
  user,       \* the User row: see NewUser
  sessions    \* Session rows, in order: [line, since, ready, revoked]

rowVars == <<user, sessions>>
vars == <<rowVars, requestVars>>

(* code: the request whose code is stored; mailed: that code has reached   *)
(* the user; fresh: it has not expired; recent: one was marked as sent     *)
(* less than a minute ago; changes: which password it is (passwordChangedAt).*)
NewUser(exists) ==
  [exists |-> exists, temporary |-> exists, verified |-> FALSE,
   code |-> None, mailed |-> FALSE, fresh |-> FALSE, recent |-> FALSE, changes |-> 0]

Init ==
  /\ user = NewUser(Invited)
  /\ sessions = << >>
  /\ NoRequests

--------------------------------------------------------------------------------
(* Verification. *)

Register(w) ==
  /\ Idle(w) /\ ~user.exists
  /\ user' = [NewUser(TRUE) EXCEPT !.temporary = FALSE]
  /\ Turn(w, "coding", None)
  /\ UNCHANGED sessions

MayResend_Once == ~user.recent /\ user.code = None
MayResend == ~user.recent

(* Requests are not limited: one is always left to enter a code.           *)
Resend(w) ==
  /\ Idle(w) /\ user.exists /\ ~user.verified /\ MayResend
  /\ \E v \in Workers \ {w} : Idle(v)
  /\ Turn(w, "coding", None)
  /\ UNCHANGED rowVars

StoreCode(w) ==
  /\ At(w, "coding")
  /\ user' = [user EXCEPT !.code = w, !.mailed = FALSE, !.fresh = TRUE]
  /\ Turn(w, "mailing", None)
  /\ UNCHANGED sessions

(* A code overtaken by a later one is mailed all the same.                 *)
MailCode(w) ==
  /\ At(w, "mailing")
  /\ user' = [user EXCEPT !.mailed = @ \/ user.code = w]
  /\ Turn(w, "marking", None)
  /\ UNCHANGED sessions

MarkSent(w) ==
  /\ At(w, "marking")
  /\ user' = [user EXCEPT !.recent = TRUE]
  /\ Done(w)
  /\ UNCHANGED sessions

(* A code is stored and mailed within the minute, and lives for ten.        *)
CodeExpires ==
  /\ user.fresh /\ Doing("mailing") = {} /\ user' = [user EXCEPT !.fresh = FALSE]
  /\ UNCHANGED <<sessions, requestVars>>

MinutePasses ==
  /\ user.recent /\ Doing("mailing") = {}
  /\ user' = [user EXCEPT !.recent = FALSE]
  /\ UNCHANGED <<sessions, requestVars>>

VerifyRead(w) ==
  /\ Idle(w) /\ user.code # None /\ user.mailed /\ user.fresh
  /\ Turn(w, "verifying", None)
  /\ UNCHANGED rowVars

(* The account is verified whatever has become of the code meanwhile; the  *)
(* mail that tells so may fail.                                            *)
VerifyCommit(w) ==
  /\ At(w, "verifying")
  /\ user' = [user EXCEPT !.verified = TRUE, !.code = None, !.mailed = FALSE, !.fresh = FALSE]
  /\ Turn(w, "issuing", [line |-> 0])
  /\ UNCHANGED sessions

--------------------------------------------------------------------------------
(* Sessions. *)

LogIn(w) ==
  /\ Idle(w) /\ user.exists /\ (user.verified \/ user.temporary)
  /\ user' = [user EXCEPT !.verified = TRUE]
  /\ Turn(w, "issuing", [line |-> 0])
  /\ UNCHANGED sessions

CreateSession(w) ==
  /\ At(w, "issuing") /\ Len(sessions) < MaxSessions
  /\ LET s == Len(sessions) + 1
         line == IF job[w].line = 0 THEN s ELSE job[w].line
     IN  /\ sessions' = Append(sessions, [line |-> line, since |-> user.changes,
                                          ready |-> FALSE, revoked |-> FALSE])
         /\ Turn(w, "signing", [session |-> s])
  /\ UNCHANGED user

SignSession(w) ==
  /\ At(w, "signing")
  /\ sessions' = [sessions EXCEPT ![job[w].session].ready = TRUE]
  /\ Done(w)
  /\ UNCHANGED user

Live(s) == sessions[s].ready /\ ~sessions[s].revoked

RefreshRead(w, s) ==
  /\ Idle(w) /\ Live(s)
  /\ Turn(w, "rotating", [session |-> s])
  /\ UNCHANGED rowVars

Rotated_Kept(s) == sessions
Rotated(s) == [sessions EXCEPT ![s].revoked = TRUE]

RefreshRevoke(w) ==
  /\ At(w, "rotating")
  /\ sessions' = Rotated(job[w].session)
  /\ Turn(w, "issuing", [line |-> sessions[job[w].session].line])
  /\ UNCHANGED user

LogOut(s) ==
  /\ sessions' = [sessions EXCEPT ![s].revoked = TRUE]
  /\ UNCHANGED <<user, requestVars>>

ChangeRead(w) ==
  /\ Idle(w) /\ user.changes < MaxChanges /\ \E s \in DOMAIN sessions : Live(s)
  /\ Turn(w, "changing", None)
  /\ UNCHANGED rowVars

Ended_Ready(s) == sessions[s].ready
Ended(s) == TRUE

ChangeCommit(w) ==
  /\ At(w, "changing")
  /\ sessions' = [s \in DOMAIN sessions |-> [sessions[s] EXCEPT !.revoked = @ \/ Ended(s)]]
  /\ user' = [user EXCEPT !.temporary = FALSE, !.changes = @ + 1]
  /\ Done(w)

(* A mail that fails or a crash ends the request where it is.              *)
Abort(w) == GiveUp(w) /\ UNCHANGED rowVars

--------------------------------------------------------------------------------

Verify(w) ==
  \/ Register(w) \/ Resend(w) \/ StoreCode(w) \/ MailCode(w) \/ MarkSent(w)
  \/ VerifyRead(w) \/ VerifyCommit(w)

Sessions(w) ==
  \/ LogIn(w) \/ CreateSession(w) \/ SignSession(w)
  \/ \E s \in DOMAIN sessions : RefreshRead(w, s)
  \/ RefreshRevoke(w) \/ ChangeRead(w) \/ ChangeCommit(w)

Time == CodeExpires \/ MinutePasses

Next ==
  \/ \E w \in Workers : Verify(w) \/ Sessions(w) \/ Abort(w)
  \/ \E s \in DOMAIN sessions : LogOut(s)
  \/ Time

Spec == Init /\ [][Next]_vars

--------------------------------------------------------------------------------
(* Properties. *)

(* One request at a time: a sign-in has one session that can be refreshed  *)
(* at most, and none when its last was refreshed and the new one is not    *)
(* there yet (refresh).                                                    *)
OneLivePerSignIn ==
  \A s, t \in DOMAIN sessions :
    s # t /\ sessions[s].line = sessions[t].line => ~(Live(s) /\ Live(t))

(* In every interleaving no session that is older than the last change of  *)
(* the password is live, even one that was waiting for its token then      *)
(* (changePassword against issueTokens).                                   *)
OldSessionsEnd == \A s \in DOMAIN sessions : sessions[s].since < user.changes => ~Live(s)
================================================================================
