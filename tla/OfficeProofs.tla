------------------------------ MODULE OfficeProofs ------------------------------
(***************************************************************************)
(* The properties of MCOffice.  What a module promises is proved for every *)
(* scene s of it, that is for every value of its constants, from an        *)
(* inductive invariant of the module; the theorems then collect the scenes.*)
(***************************************************************************)
EXTENDS MCOffice, FiniteSetTheorems, TLAPS

--------------------------------------------------------------------------------
(* DeletionCode.  A code stands from when it is stored until it expires or *)
(* too many wrong entries were begun.  It has not come as long as its mail *)
(* is under way or being taken back, so only a code that never comes is    *)
(* withdrawn.  An entry counts from what was there when it was begun, which *)
(* is bounded by the entries begun since the code, if none began before it: *)
(* a request is served at a time, or nobody is wrong.                       *)

CodeAssumed(s) ==
  /\ None \notin s.workers
  /\ Code(s)!DeletionCodeAssumption
  /\ s.wrong = 0 \/ \A v, w \in s.workers : v = w

CodeLabels ==
  {"idle", "storing", "mailing", "withdrawing", "deleting", "counting"}

CodeTypes(s) ==
  /\ pc \in [s.workers -> CodeLabels]
  /\ job = [w \in s.workers |-> job[w]]
  /\ org \in [exists : BOOLEAN, code : s.workers \union {None}, fresh : BOOLEAN,
              recent : BOOLEAN, attempts : Nat]
  /\ latest \in [code : s.workers \union {None}, came : BOOLEAN, wrong : Nat]
  /\ entries \in Nat

Underway == {"mailing", "withdrawing"}

NotCome(s) == \A w \in s.workers : pc[w] \in Underway /\ latest.code = w => ~latest.came

CodeStands(s) ==
  /\ org.exists /\ latest.code # None /\ latest.wrong < s.allowed
  /\ latest.came \/ pc[latest.code] \in Underway
  => org.code = latest.code /\ org.fresh

Counts(s) ==
  /\ org.attempts <= latest.wrong
  /\ \A w \in s.workers : pc[w] = "counting" =>
       /\ s.wrong # 0
       /\ job[w].attempts \in Nat /\ job[w].attempts <= latest.wrong

CodeInv(s) == CodeTypes(s) /\ NotCome(s) /\ CodeStands(s) /\ Counts(s)

LEMMA CodeInit ==
  ASSUME NEW s, CodeAssumed(s), Code(s)!Init
  PROVE  CodeInv(s)
<1> USE DEF Code!Init, Code!NoCode, Code!NoRequests
<1>1. CodeTypes(s)
  BY DEF CodeTypes, CodeLabels
<1>2. NotCome(s) /\ CodeStands(s) /\ Counts(s)
  BY DEF NotCome, CodeStands, Counts
<1> QED
  BY <1>1, <1>2 DEF CodeInv

LEMMA CodeStep ==
  ASSUME NEW s, CodeAssumed(s), CodeInv(s), Code(s)!Next
  PROVE  CodeInv(s)'
<1> USE DEF CodeAssumed, CodeInv, CodeTypes, CodeLabels, Underway, Code!DeletionCodeAssumption,
            Code!Turn, Code!Done, Code!Idle, Code!At, Code!GiveUp, Code!rowVars, Code!requestVars,
            Code!NoCode
<1>1. ASSUME NEW w \in s.workers, Code(s)!AskRead(w)
      PROVE  CodeInv(s)'
  <2>1. CodeTypes(s)'
    BY <1>1 DEF Code!AskRead
  <2>2. NotCome(s)' /\ CodeStands(s)' /\ Counts(s)'
    BY <1>1 DEF Code!AskRead, NotCome, CodeStands, Counts
  <2> QED
    BY <2>1, <2>2
<1>2. ASSUME NEW w \in s.workers, Code(s)!StoreCode(w)
      PROVE  CodeInv(s)'
  <2>1. CodeTypes(s)'
    BY <1>2 DEF Code!StoreCode
  <2>2. NotCome(s)' /\ CodeStands(s)'
    BY <1>2 DEF Code!StoreCode, NotCome, CodeStands
  <2>3. Counts(s)'
    BY <1>2 DEF Code!StoreCode, Counts
  <2> QED
    BY <2>1, <2>2, <2>3
<1>3. ASSUME NEW w \in s.workers, Code(s)!MailCode(w)
      PROVE  CodeInv(s)'
  <2>1. CodeTypes(s)'
    BY <1>3 DEF Code!MailCode
  <2>2. NotCome(s)' /\ CodeStands(s)'
    BY <1>3 DEF Code!MailCode, NotCome, CodeStands
  <2>3. Counts(s)'
    BY <1>3 DEF Code!MailCode, Counts
  <2> QED
    BY <2>1, <2>2, <2>3
<1>4. ASSUME NEW w \in s.workers, Code(s)!MailFails(w)
      PROVE  CodeInv(s)'
  <2>1. CodeTypes(s)'
    BY <1>4 DEF Code!MailFails
  <2>2. NotCome(s)' /\ CodeStands(s)' /\ Counts(s)'
    BY <1>4 DEF Code!MailFails, NotCome, CodeStands, Counts
  <2> QED
    BY <2>1, <2>2
<1>5. ASSUME NEW w \in s.workers, Code(s)!Withdraw(w)
      PROVE  CodeInv(s)'
  <2>1. CodeTypes(s)'
    BY <1>5 DEF Code!Withdraw, Code!Withdrawn
  <2>2. NotCome(s)' /\ CodeStands(s)'
    BY <1>5 DEF Code!Withdraw, Code!Withdrawn, NotCome, CodeStands
  <2>3. Counts(s)'
    BY <1>5 DEF Code!Withdraw, Code!Withdrawn, Counts
  <2> QED
    BY <2>1, <2>2, <2>3
<1>6. ASSUME NEW w \in s.workers, Code(s)!EnterRight(w)
      PROVE  CodeInv(s)'
  <2>1. CodeTypes(s)'
    BY <1>6 DEF Code!EnterRight
  <2>2. NotCome(s)' /\ CodeStands(s)' /\ Counts(s)'
    BY <1>6 DEF Code!EnterRight, NotCome, CodeStands, Counts
  <2> QED
    BY <2>1, <2>2
<1>7. ASSUME NEW w \in s.workers, Code(s)!EnterWrong(w)
      PROVE  CodeInv(s)'
  <2>1. CodeTypes(s)'
    BY <1>7 DEF Code!EnterWrong
  <2>2. NotCome(s)' /\ CodeStands(s)'
    BY <1>7 DEF Code!EnterWrong, NotCome, CodeStands
  <2>3. Counts(s)'
    BY <1>7 DEF Code!EnterWrong, Counts
  <2> QED
    BY <2>1, <2>2, <2>3
<1>8. ASSUME NEW w \in s.workers, Code(s)!CountWrong(w)
      PROVE  CodeInv(s)'
  <2>0. job[w].attempts \in Nat /\ job[w].attempts <= latest.wrong
    BY <1>8 DEF Code!CountWrong, Counts
  <2>1. CodeTypes(s)'
    BY <1>8, <2>0 DEF Code!CountWrong
  <2>2. NotCome(s)' /\ CodeStands(s)'
    BY <1>8, <2>0 DEF Code!CountWrong, Code!Exhausted, NotCome, CodeStands
  <2>3. Counts(s)'
    BY <1>8, <2>0 DEF Code!CountWrong, Counts
  <2> QED
    BY <2>1, <2>2, <2>3
<1>9. ASSUME NEW w \in s.workers, Code(s)!DeleteCommit(w)
      PROVE  CodeInv(s)'
  <2>1. CodeTypes(s)'
    BY <1>9 DEF Code!DeleteCommit
  <2>2. NotCome(s)' /\ CodeStands(s)' /\ Counts(s)'
    BY <1>9 DEF Code!DeleteCommit, NotCome, CodeStands, Counts
  <2> QED
    BY <2>1, <2>2
<1>10. ASSUME NEW w \in s.workers, Code(s)!Abort(w)
       PROVE  CodeInv(s)'
  <2>1. CodeTypes(s)'
    BY <1>10 DEF Code!Abort
  <2>2. NotCome(s)' /\ CodeStands(s)' /\ Counts(s)'
    BY <1>10 DEF Code!Abort, NotCome, CodeStands, Counts
  <2> QED
    BY <2>1, <2>2
<1>11. ASSUME Code(s)!CodeExpires \/ Code(s)!MinutePasses
       PROVE  CodeInv(s)'
  <2>1. CodeTypes(s)'
    BY <1>11 DEF Code!CodeExpires, Code!MinutePasses
  <2>2. NotCome(s)' /\ CodeStands(s)' /\ Counts(s)'
    BY <1>11 DEF Code!CodeExpires, Code!MinutePasses, NotCome, CodeStands, Counts
  <2> QED
    BY <2>1, <2>2
<1> QED
  BY <1>1, <1>2, <1>3, <1>4, <1>5, <1>6, <1>7, <1>8, <1>9, <1>10, <1>11 DEF Code!Next

--------------------------------------------------------------------------------
(* SignIn.  Every session was made under a password there has been, and    *)
(* the change of a password ends all there are: what is made later is made *)
(* under the new one.                                                      *)

SignAssumed(s) == None \notin s.workers /\ s.invited \in BOOLEAN

SignLabels ==
  {"idle", "coding", "mailing", "marking", "verifying", "issuing", "signing", "rotating", "changing"}

SessionRow == [line : Nat, since : Nat, ready : BOOLEAN, revoked : BOOLEAN]

UserRow(s) ==
  [exists : BOOLEAN, temporary : BOOLEAN, verified : BOOLEAN,
   code : s.workers \union {None}, mailed : BOOLEAN, fresh : BOOLEAN,
   recent : BOOLEAN, changes : Nat]

SignTypes(s) ==
  /\ pc \in [s.workers -> SignLabels]
  /\ job = [w \in s.workers |-> job[w]]
  /\ user \in UserRow(s)
  /\ sessions \in Seq(SessionRow)
  /\ \A w \in s.workers :
       /\ pc[w] \in {"signing", "rotating"} => job[w].session \in DOMAIN sessions
       /\ pc[w] = "issuing" => job[w].line \in Nat

Outdated(s) ==
  \A i \in DOMAIN sessions :
    /\ sessions[i].since <= user.changes
    /\ sessions[i].since < user.changes => sessions[i].revoked

(* Nothing goes on before there is an account. *)
Unregistered(s) ==
  ~user.exists =>
    sessions = << >> /\ user.code = None /\ \A w \in s.workers : pc[w] = "idle"

SignInv(s) == SignTypes(s) /\ Outdated(s) /\ Unregistered(s)

(* One request at a time: no other session of a sign-in is live while one  *)
(* of it gets its token or is replaced, none once it was replaced, and a   *)
(* new sign-in is numbered as none was.                                    *)
NoneLive(s, line, but) ==
  \A i \in DOMAIN sessions : i # but /\ sessions[i].line = line => ~Sign(s)!Live(i)

OneLine(s) ==
  /\ \A i \in DOMAIN sessions : sessions[i].line \in 1 .. i
  /\ \A i \in DOMAIN sessions : Sign(s)!Live(i) => NoneLive(s, sessions[i].line, i)
  /\ \A w \in s.workers :
       /\ pc[w] \in {"signing", "rotating"} =>
            NoneLive(s, sessions[job[w].session].line, job[w].session)
       /\ pc[w] = "issuing" /\ job[w].line # 0 =>
            /\ job[w].line <= Len(sessions)
            /\ NoneLive(s, job[w].line, 0)

LEMMA SignInit ==
  ASSUME NEW s, SignAssumed(s), Sign(s)!Init
  PROVE  SignInv(s) /\ OneLine(s)
<1> USE DEF SignAssumed, Sign!Init, Sign!NewUser, Sign!NoRequests
<1>1. SignTypes(s)
  BY DEF SignTypes, UserRow, SignLabels, SessionRow
<1>2. Outdated(s) /\ OneLine(s)
  BY DEF Outdated, OneLine
<1>3. Unregistered(s)
  BY DEF Unregistered
<1> QED
  BY <1>1, <1>2, <1>3 DEF SignInv

LEMMA SessionChanged ==
  ASSUME NEW q \in Seq(SessionRow), NEW i \in DOMAIN q, NEW b \in BOOLEAN
  PROVE  /\ [q EXCEPT ![i].ready = b] \in Seq(SessionRow)
         /\ [q EXCEPT ![i].revoked = b] \in Seq(SessionRow)
         /\ DOMAIN [q EXCEPT ![i].ready = b] = DOMAIN q
         /\ DOMAIN [q EXCEPT ![i].revoked = b] = DOMAIN q
<1>1. q[i] \in SessionRow
  OBVIOUS
<1>2. [q[i] EXCEPT !.ready = b] \in SessionRow /\ [q[i] EXCEPT !.revoked = b] \in SessionRow
  BY <1>1 DEF SessionRow
<1> QED
  BY <1>2

(* The steps of a verification, and of the clock, leave the sessions and   *)
(* the password alone.                                                     *)
LEMMA SignQuiet ==
  ASSUME NEW s, SignAssumed(s), SignInv(s),
         UNCHANGED sessions, user'.changes = user.changes, user'.exists = user.exists,
         user.exists, SignTypes(s)'
  PROVE  SignInv(s)'
BY DEF SignInv, Outdated, Unregistered

LEMMA SignVerify ==
  ASSUME NEW s, SignAssumed(s), SignInv(s),
         (\E w \in s.workers : Sign(s)!Verify(w)) \/ Sign(s)!Time
  PROVE  SignInv(s)'
<1> USE DEF SignAssumed, SignInv, SignTypes, UserRow, SignLabels, Sign!Turn, Sign!Done, Sign!Idle, Sign!At,
            Sign!rowVars, Sign!requestVars, Sign!NewUser
<1>1. ASSUME NEW w \in s.workers, Sign(s)!Register(w)
      PROVE  SignInv(s)'
  <2>1. SignTypes(s)' /\ UNCHANGED sessions
    BY <1>1 DEF Sign!Register
  <2>2. Outdated(s)' /\ Unregistered(s)'
    BY <1>1 DEF Sign!Register, Outdated, Unregistered
  <2> QED
    BY <2>1, <2>2
<1>2. ASSUME NEW w \in s.workers, Sign(s)!Resend(w)
      PROVE  SignInv(s)'
  BY <1>2 DEF Sign!Resend, Outdated, Unregistered
<1>3. ASSUME NEW w \in s.workers, Sign(s)!StoreCode(w)
      PROVE  SignInv(s)'
  <2>1. /\ SignTypes(s)' /\ UNCHANGED sessions /\ user'.changes = user.changes
        /\ user'.exists = user.exists /\ user.exists
    BY <1>3 DEF Sign!StoreCode, Unregistered
  <2> QED
    BY <2>1, SignQuiet
<1>4. ASSUME NEW w \in s.workers, Sign(s)!MailCode(w)
      PROVE  SignInv(s)'
  <2>1. /\ SignTypes(s)' /\ UNCHANGED sessions /\ user'.changes = user.changes
        /\ user'.exists = user.exists /\ user.exists
    BY <1>4 DEF Sign!MailCode, Unregistered
  <2> QED
    BY <2>1, SignQuiet
<1>5. ASSUME NEW w \in s.workers, Sign(s)!MarkSent(w)
      PROVE  SignInv(s)'
  <2>1. /\ SignTypes(s)' /\ UNCHANGED sessions /\ user'.changes = user.changes
        /\ user'.exists = user.exists /\ user.exists
    BY <1>5 DEF Sign!MarkSent, Unregistered
  <2> QED
    BY <2>1, SignQuiet
<1>6. ASSUME NEW w \in s.workers, Sign(s)!VerifyRead(w)
      PROVE  SignInv(s)'
  BY <1>6 DEF Sign!VerifyRead, Outdated, Unregistered
<1>7. ASSUME NEW w \in s.workers, Sign(s)!VerifyCommit(w)
      PROVE  SignInv(s)'
  <2>1. /\ SignTypes(s)' /\ UNCHANGED sessions /\ user'.changes = user.changes
        /\ user'.exists = user.exists /\ user.exists
    BY <1>7 DEF Sign!VerifyCommit, Unregistered
  <2> QED
    BY <2>1, SignQuiet
<1>8. ASSUME Sign(s)!Time
      PROVE  SignInv(s)'
  <2>1. SignTypes(s)' /\ UNCHANGED sessions
    BY <1>8 DEF Sign!Time, Sign!CodeExpires, Sign!MinutePasses
  <2>2. Outdated(s)' /\ Unregistered(s)'
    BY <1>8 DEF Sign!Time, Sign!CodeExpires, Sign!MinutePasses, Outdated, Unregistered
  <2> QED
    BY <2>1, <2>2
<1> QED
  BY <1>1, <1>2, <1>3, <1>4, <1>5, <1>6, <1>7, <1>8 DEF Sign!Verify

LEMMA SignStep ==
  ASSUME NEW s, SignAssumed(s), SignInv(s), Sign(s)!Next
  PROVE  SignInv(s)'
<1> USE DEF SignAssumed, SignInv, SignTypes, UserRow, SignLabels, Sign!Turn, Sign!Done, Sign!Idle, Sign!At,
            Sign!GiveUp, Sign!rowVars, Sign!requestVars
<1>1. ASSUME NEW w \in s.workers, Sign(s)!LogIn(w)
      PROVE  SignInv(s)'
  <2>1. /\ SignTypes(s)' /\ UNCHANGED sessions /\ user'.changes = user.changes
        /\ user'.exists = user.exists /\ user.exists
    BY <1>1 DEF Sign!LogIn
  <2> QED
    BY <2>1, SignQuiet
<1>2. ASSUME NEW w \in s.workers, Sign(s)!CreateSession(w)
      PROVE  SignInv(s)'
  <2> DEFINE line == IF job[w].line = 0 THEN Len(sessions) + 1 ELSE job[w].line
             row == [line |-> line, since |-> user.changes, ready |-> FALSE, revoked |-> FALSE]
  <2>1. /\ sessions' = Append(sessions, row)
        /\ pc' = [pc EXCEPT ![w] = "signing"]
        /\ job' = [job EXCEPT ![w] = [session |-> Len(sessions) + 1]]
        /\ user.exists /\ UNCHANGED user
    BY <1>2 DEF Sign!CreateSession, Unregistered
  <2>2. line \in Nat /\ user.changes \in Nat
    BY <1>2 DEF Sign!CreateSession
  <2> HIDE DEF line
  <2>3. row \in SessionRow /\ row.since = user.changes
    BY <2>2 DEF SessionRow
  <2> HIDE DEF row
  <2>4. sessions' \in Seq(SessionRow) /\ Len(sessions') = Len(sessions) + 1
    BY <2>1, <2>3
  <2>5. SignTypes(s)'
    <3>1. DOMAIN sessions' = 1 .. Len(sessions) + 1 /\ DOMAIN sessions = 1 .. Len(sessions)
      BY <2>4
    <3>2. /\ pc' \in [s.workers -> SignLabels] /\ job' = [v \in s.workers |-> job'[v]]
          /\ user' = user
      BY <2>1
    <3>3. ASSUME NEW v \in s.workers
          PROVE  /\ pc'[v] \in {"signing", "rotating"} => job'[v].session \in DOMAIN sessions'
                 /\ pc'[v] = "issuing" => job'[v].line \in Nat
      <4>1. CASE v = w
        BY <2>1, <3>1, <4>1
      <4>2. CASE v # w
        <5>1. pc'[v] = pc[v] /\ job'[v] = job[v]
          BY <2>1, <4>2
        <5> QED
          BY <3>1, <5>1
      <4> QED
        BY <4>1, <4>2
    <3> QED
      BY <2>4, <3>2, <3>3
  <2>6. Outdated(s)' /\ Unregistered(s)'
    BY <2>1, <2>3, <2>4 DEF Outdated, Unregistered
  <2> QED
    BY <2>5, <2>6
<1>3. ASSUME NEW w \in s.workers, Sign(s)!SignSession(w)
      PROVE  SignInv(s)'
  <2>1. SignTypes(s)'
    BY <1>3, SessionChanged, TRUE \in BOOLEAN DEF Sign!SignSession
  <2>2. Outdated(s)' /\ Unregistered(s)'
    BY <1>3 DEF Sign!SignSession, Outdated, Unregistered, SessionRow
  <2> QED
    BY <2>1, <2>2
<1>4. ASSUME NEW w \in s.workers, NEW i \in DOMAIN sessions, Sign(s)!RefreshRead(w, i)
      PROVE  SignInv(s)'
  <2>1. /\ UNCHANGED <<user, sessions>> /\ user.exists /\ pc[w] = "idle"
        /\ pc' = [pc EXCEPT ![w] = "rotating"]
        /\ job' = [job EXCEPT ![w] = [session |-> i]]
    BY <1>4 DEF Sign!RefreshRead, Unregistered
  <2>2. SignTypes(s)'
    BY <2>1
  <2> QED
    BY <2>1, <2>2 DEF Outdated, Unregistered
<1>5. ASSUME NEW w \in s.workers, Sign(s)!RefreshRevoke(w)
      PROVE  SignInv(s)'
  <2>1. SignTypes(s)'
    <3>1. sessions[job[w].session] \in SessionRow
      <4>1. job[w].session \in DOMAIN sessions
        BY <1>5 DEF Sign!RefreshRevoke
      <4> QED
        BY <4>1
    <3>2. sessions[job[w].session].line \in Nat
      BY <3>1 DEF SessionRow
    <3>3. sessions' \in Seq(SessionRow) /\ DOMAIN sessions' = DOMAIN sessions
      BY <1>5, SessionChanged, TRUE \in BOOLEAN DEF Sign!RefreshRevoke, Sign!Rotated
    <3> QED
      BY <1>5, <3>2, <3>3 DEF Sign!RefreshRevoke
  <2>2. Outdated(s)' /\ Unregistered(s)'
    BY <1>5 DEF Sign!RefreshRevoke, Sign!Rotated, Outdated, Unregistered, SessionRow
  <2> QED
    BY <2>1, <2>2
<1>6. ASSUME NEW w \in s.workers, Sign(s)!ChangeRead(w)
      PROVE  SignInv(s)'
  <2>1. /\ UNCHANGED <<user, sessions>> /\ user.exists /\ pc[w] = "idle"
        /\ pc' = [pc EXCEPT ![w] = "changing"]
        /\ job' = [job EXCEPT ![w] = None]
    BY <1>6 DEF Sign!ChangeRead, Unregistered
  <2>2. SignTypes(s)'
    BY <2>1
  <2> QED
    BY <2>1, <2>2 DEF Outdated, Unregistered
<1>7. ASSUME NEW w \in s.workers, Sign(s)!ChangeCommit(w)
      PROVE  SignInv(s)'
  <2>1. sessions' \in Seq(SessionRow) /\ Len(sessions') = Len(sessions)
    <3>1. \A i \in DOMAIN sessions : sessions[i] \in SessionRow
      OBVIOUS
    <3>2. \A i \in DOMAIN sessions : sessions'[i] \in SessionRow
      BY <1>7, <3>1 DEF Sign!ChangeCommit, Sign!Ended, SessionRow
    <3>3. sessions' \in [1 .. Len(sessions) -> SessionRow]
      BY <1>7, <3>2 DEF Sign!ChangeCommit
    <3> QED
      BY <3>3
  <2>2. SignTypes(s)'
    <3>1. pc' = [pc EXCEPT ![w] = "idle"] /\ job' = [job EXCEPT ![w] = None]
      BY <1>7 DEF Sign!ChangeCommit
    <3>2. DOMAIN sessions' = DOMAIN sessions
      BY <2>1
    <3>3. user' = [user EXCEPT !.temporary = FALSE, !.changes = @ + 1]
      BY <1>7 DEF Sign!ChangeCommit
    <3>4. user' \in UserRow(s)
      <4> DEFINE u == [user EXCEPT !.temporary = FALSE]
      <4>0. user \in UserRow(s)
        OBVIOUS
      <4>1. u \in UserRow(s)
        BY ONLY <4>0 DEF UserRow
      <4>3. user.changes + 1 \in Nat
        BY ONLY <4>0 DEF UserRow
      <4>2. user' = [u EXCEPT !.changes = user.changes + 1]
        BY <3>3
      <4> HIDE DEF u
      <4> QED
        BY <4>1, <4>2, <4>3
    <3>5. pc' \in [s.workers -> SignLabels] /\ job' = [v \in s.workers |-> job'[v]]
      BY <3>1
    <3>6. \A v \in s.workers : pc'[v] # "idle" => pc'[v] = pc[v] /\ job'[v] = job[v]
      BY <3>1
    <3> QED
      BY <2>1, <3>2, <3>4, <3>5, <3>6
  <2>3. Outdated(s)' /\ Unregistered(s)'
    <3>1. \A i \in DOMAIN sessions' :
            i \in DOMAIN sessions /\ sessions'[i].since = sessions[i].since /\ sessions'[i].revoked
      <4>1. \A i \in DOMAIN sessions : sessions[i] \in SessionRow
        OBVIOUS
      <4>2. sessions' = [i \in DOMAIN sessions |-> [sessions[i] EXCEPT !.revoked = @ \/ TRUE]]
        BY <1>7 DEF Sign!ChangeCommit, Sign!Ended
      <4> QED
        BY <4>1, <4>2 DEF SessionRow
    <3>2. user'.changes = user.changes + 1 /\ user.changes \in Nat
      BY <1>7 DEF Sign!ChangeCommit
    <3>3. \A i \in DOMAIN sessions : sessions[i].since <= user.changes /\ sessions[i].since \in Nat
      <4>1. \A i \in DOMAIN sessions : sessions[i] \in SessionRow
        OBVIOUS
      <4> QED
        BY <4>1 DEF Outdated, SessionRow
    <3> QED
      BY <1>7, <3>1, <3>2, <3>3 DEF Sign!ChangeCommit, Outdated, Unregistered
  <2> QED
    BY <2>2, <2>3
<1>8. ASSUME NEW w \in s.workers, Sign(s)!Abort(w)
      PROVE  SignInv(s)'
  BY <1>8 DEF Sign!Abort, Outdated, Unregistered
<1>9. ASSUME NEW i \in DOMAIN sessions, Sign(s)!LogOut(i)
      PROVE  SignInv(s)'
  <2>1. SignTypes(s)'
    BY <1>9, SessionChanged, TRUE \in BOOLEAN DEF Sign!LogOut
  <2>2. Outdated(s)' /\ Unregistered(s)'
    BY <1>9 DEF Sign!LogOut, Outdated, Unregistered, SessionRow
  <2> QED
    BY <2>1, <2>2
<1>10. (\E w \in s.workers : Sign(s)!Verify(w)) \/ Sign(s)!Time => SignInv(s)'
  BY SignVerify
<1> QED
  BY <1>1, <1>2, <1>3, <1>4, <1>5, <1>6, <1>7, <1>8, <1>9, <1>10 DEF Sign!Next, Sign!Sessions

LEMMA OneLineStep ==
  ASSUME NEW s, SignAssumed(s), \A v, w \in s.workers : v = w,
         SignInv(s), OneLine(s), Sign(s)!Next
  PROVE  OneLine(s)'
<1> USE DEF SignAssumed, SignInv, SignTypes, OneLine, NoneLive, Sign!Live, Sign!Turn, Sign!Done,
            Sign!Idle, Sign!At, Sign!GiveUp, Sign!rowVars, Sign!requestVars
<1>0. \A i \in DOMAIN sessions : sessions[i] \in SessionRow /\ i \in Nat \ {0}
  OBVIOUS
<1>1. ASSUME NEW w \in s.workers,
             UNCHANGED sessions,
             \/ pc' = [pc EXCEPT ![w] = "idle"] \/ pc' = [pc EXCEPT ![w] = "changing"]
             \/ pc' = [pc EXCEPT ![w] = "coding"] \/ pc' = [pc EXCEPT ![w] = "mailing"]
             \/ pc' = [pc EXCEPT ![w] = "marking"] \/ pc' = [pc EXCEPT ![w] = "verifying"]
             \/ pc' = [pc EXCEPT ![w] = "issuing"] /\ job' = [job EXCEPT ![w] = [line |-> 0]]
      PROVE  OneLine(s)'
  BY <1>1
<1>2. ASSUME NEW w \in s.workers, Sign(s)!Verify(w)
      PROVE  OneLine(s)'
  BY <1>1, <1>2 DEF Sign!Verify, Sign!Register, Sign!Resend, Sign!StoreCode, Sign!MailCode,
                    Sign!MarkSent, Sign!VerifyRead, Sign!VerifyCommit
<1>3. ASSUME NEW w \in s.workers,
             Sign(s)!LogIn(w) \/ Sign(s)!ChangeRead(w) \/ Sign(s)!Abort(w)
      PROVE  OneLine(s)'
  BY <1>1, <1>3 DEF Sign!LogIn, Sign!ChangeRead, Sign!Abort
<1>4. ASSUME NEW w \in s.workers, Sign(s)!CreateSession(w)
      PROVE  OneLine(s)'
  <2> DEFINE line == IF job[w].line = 0 THEN Len(sessions) + 1 ELSE job[w].line
             row == [line |-> line, since |-> user.changes, ready |-> FALSE, revoked |-> FALSE]
  <2>1. /\ sessions' = Append(sessions, row)
        /\ pc' = [pc EXCEPT ![w] = "signing"]
        /\ job' = [job EXCEPT ![w] = [session |-> Len(sessions) + 1]]
        /\ pc[w] = "issuing" /\ job[w].line \in Nat
    BY <1>4 DEF Sign!CreateSession
  <2>2. row.line = line /\ row.ready = FALSE
    OBVIOUS
  <2>3. line \in 1 .. Len(sessions) + 1 /\ NoneLive(s, line, 0)
    <3>1. CASE job[w].line = 0
      <4>1. line = Len(sessions) + 1 /\ DOMAIN sessions = 1 .. Len(sessions)
        BY <3>1
      <4>2. \A i \in DOMAIN sessions : sessions[i].line \in 1 .. i
        OBVIOUS
      <4>3. Len(sessions) \in Nat
        OBVIOUS
      <4> HIDE DEF line
      <4>4. line \in 1 .. Len(sessions) + 1
        BY ONLY <4>1, <4>3
      <4>5. ASSUME NEW i \in DOMAIN sessions
            PROVE  sessions[i].line # line
        <5>1. i \in 1 .. Len(sessions) /\ sessions[i].line \in 1 .. i
          BY <4>1, <4>2
        <5> QED
          BY ONLY <4>1, <4>3, <5>1
      <4> QED
        BY <4>4, <4>5
    <3>2. CASE job[w].line # 0
      <4>1. job[w].line <= Len(sessions) /\ NoneLive(s, job[w].line, 0)
        BY <2>1, <3>2
      <4>2. line = job[w].line /\ Len(sessions) \in Nat
        BY <3>2
      <4> HIDE DEF line
      <4> QED
        BY <2>1, <3>2, <4>1, <4>2
    <3> QED
      BY <3>1, <3>2
  <2> HIDE DEF row, line
  <2>4. /\ DOMAIN sessions' = 1 .. Len(sessions) + 1 /\ DOMAIN sessions = 1 .. Len(sessions)
        /\ \A i \in DOMAIN sessions : sessions'[i] = sessions[i]
        /\ sessions'[Len(sessions) + 1] = row
    BY <2>1
  <2>5. \A v \in s.workers : v = w /\ pc'[v] = "signing" /\ job'[v].session = Len(sessions) + 1
    BY <2>1
  <2>6. \A i \in DOMAIN sessions' : sessions'[i].line \in 1 .. i
    BY <2>2, <2>3, <2>4
  <2>7. \A i \in DOMAIN sessions' : Sign(s)!Live(i)' =>
          i \in DOMAIN sessions /\ Sign(s)!Live(i) /\ sessions'[i] = sessions[i]
    BY <2>2, <2>4
  <2>8. \A i \in DOMAIN sessions' : Sign(s)!Live(i)' =>
          \A k \in DOMAIN sessions' :
            k # i /\ sessions'[k].line = sessions'[i].line => ~Sign(s)!Live(k)'
    BY <2>7
  <2>9. \A k \in DOMAIN sessions' : sessions'[k].line = line => ~Sign(s)!Live(k)'
    BY <1>0, <2>3, <2>7
  <2> QED
    BY <2>2, <2>4, <2>5, <2>6, <2>8, <2>9
<1>5. ASSUME NEW w \in s.workers, Sign(s)!SignSession(w)
      PROVE  OneLine(s)'
  <2> DEFINE t == job[w].session
  <2>1. /\ sessions' = [sessions EXCEPT ![t].ready = TRUE]
        /\ t \in DOMAIN sessions /\ NoneLive(s, sessions[t].line, t)
        /\ pc' = [pc EXCEPT ![w] = "idle"]
    BY <1>5 DEF Sign!SignSession
  <2> HIDE DEF t
  <2>2. /\ DOMAIN sessions' = DOMAIN sessions
        /\ \A i \in DOMAIN sessions : sessions'[i].line = sessions[i].line
        /\ \A i \in DOMAIN sessions : i # t => sessions'[i] = sessions[i]
    BY <1>0, <2>1 DEF SessionRow
  <2>3. \A v \in s.workers : pc'[v] = "idle"
    BY <2>1
  <2>4. ASSUME NEW i \in DOMAIN sessions, Sign(s)!Live(i)', NEW k \in DOMAIN sessions,
               k # i, sessions[k].line = sessions[i].line
        PROVE  ~Sign(s)!Live(k)'
    <3>1. CASE i = t
      BY <2>1, <2>2, <2>4, <3>1
    <3>2. CASE i # t /\ k = t
      <4>1. ~Sign(s)!Live(i)
        BY <2>1, <2>4, <3>2
      <4> QED
        BY <2>2, <2>4, <3>2, <4>1
    <3>3. CASE i # t /\ k # t
      BY <2>2, <2>4, <3>3
    <3> QED
      BY <3>1, <3>2, <3>3
  <2> QED
    BY <2>2, <2>3, <2>4
<1>6. ASSUME NEW w \in s.workers, NEW i \in DOMAIN sessions, Sign(s)!RefreshRead(w, i)
      PROVE  OneLine(s)'
  <2>1. /\ UNCHANGED sessions /\ Sign(s)!Live(i)
        /\ pc' = [pc EXCEPT ![w] = "rotating"] /\ job' = [job EXCEPT ![w] = [session |-> i]]
    BY <1>6 DEF Sign!RefreshRead
  <2>2. \A v \in s.workers : v = w /\ pc'[v] = "rotating" /\ job'[v].session = i
    BY <2>1
  <2> QED
    BY <2>1, <2>2
<1>7. ASSUME NEW w \in s.workers, Sign(s)!RefreshRevoke(w)
      PROVE  OneLine(s)'
  <2> DEFINE t == job[w].session
  <2>1. /\ sessions' = [sessions EXCEPT ![t].revoked = TRUE]
        /\ t \in DOMAIN sessions /\ NoneLive(s, sessions[t].line, t)
        /\ pc' = [pc EXCEPT ![w] = "issuing"]
        /\ job' = [job EXCEPT ![w] = [line |-> sessions[t].line]]
    BY <1>7 DEF Sign!RefreshRevoke, Sign!Rotated
  <2> HIDE DEF t
  <2>2. /\ DOMAIN sessions' = DOMAIN sessions /\ Len(sessions') = Len(sessions)
        /\ \A i \in DOMAIN sessions : sessions'[i].line = sessions[i].line
        /\ \A i \in DOMAIN sessions : Sign(s)!Live(i)' => i # t /\ Sign(s)!Live(i)
    BY <1>0, <2>1 DEF SessionRow
  <2>3. \A v \in s.workers : v = w /\ pc'[v] = "issuing" /\ job'[v].line = sessions[t].line
    BY <2>1
  <2>4. sessions[t].line \in 1 .. Len(sessions)
    BY <2>1
  <2> QED
    BY <2>1, <2>2, <2>3, <2>4
<1>8. ASSUME NEW w \in s.workers, Sign(s)!ChangeCommit(w)
      PROVE  OneLine(s)'
  <2>1. /\ DOMAIN sessions' = DOMAIN sessions
        /\ \A i \in DOMAIN sessions : sessions'[i].line = sessions[i].line /\ sessions'[i].revoked
        /\ pc' = [pc EXCEPT ![w] = "idle"]
    BY <1>0, <1>8 DEF Sign!ChangeCommit, Sign!Ended, SessionRow
  <2> QED
    BY <2>1
<1>9. ASSUME NEW i \in DOMAIN sessions, Sign(s)!LogOut(i)
      PROVE  OneLine(s)'
  <2>1. /\ DOMAIN sessions' = DOMAIN sessions /\ Len(sessions') = Len(sessions)
        /\ \A k \in DOMAIN sessions : sessions'[k].line = sessions[k].line
        /\ \A k \in DOMAIN sessions : Sign(s)!Live(k)' => Sign(s)!Live(k)
    BY <1>0, <1>9 DEF Sign!LogOut, SessionRow
  <2>2. pc' = pc /\ job' = job
    BY <1>9 DEF Sign!LogOut
  <2>3. /\ \A k \in DOMAIN sessions' : sessions'[k].line \in 1 .. k
        /\ \A k \in DOMAIN sessions' : Sign(s)!Live(k)' => NoneLive(s, sessions[k].line, k)
        /\ \A line, but : NoneLive(s, line, but) => NoneLive(s, line, but)'
    BY <2>1
  <2>4. ASSUME NEW v \in s.workers
        PROVE  /\ pc'[v] \in {"signing", "rotating"} =>
                    NoneLive(s, sessions[job[v].session].line, job[v].session)
               /\ pc'[v] = "issuing" /\ job'[v].line # 0 =>
                    job[v].line <= Len(sessions) /\ NoneLive(s, job[v].line, 0)
    BY <2>2
  <2>5. \A v \in s.workers : pc'[v] \in {"signing", "rotating"} =>
          sessions'[job'[v].session].line = sessions[job[v].session].line
    BY <2>1, <2>2
  <2>6. \A k \in DOMAIN sessions' : sessions'[k].line = sessions[k].line
    BY <2>1
  <2> QED
    BY ONLY <2>1, <2>2, <2>3, <2>4, <2>5, <2>6 DEF OneLine
<1>10. Sign(s)!Time => OneLine(s)'
  <2>1. OneLine(s) /\ Sign(s)!Time => pc' = pc /\ job' = job /\ sessions' = sessions
    BY DEF Sign!Time, Sign!CodeExpires, Sign!MinutePasses
  <2>2. OneLine(s) /\ pc' = pc /\ job' = job /\ sessions' = sessions => OneLine(s)'
    BY ONLY DEF OneLine, NoneLive, Sign!Live
  <2> QED
    BY <2>1, <2>2
<1> QED
  BY <1>2, <1>3, <1>4, <1>5, <1>6, <1>7, <1>8, <1>9, <1>10 DEF Sign!Next, Sign!Sessions

--------------------------------------------------------------------------------
(* Staff.  A membership keeps its number and its address, so what a        *)
(* request knows of a member that is still there is right; an account      *)
(* comes and goes with its one membership.                                 *)

StaffAssumed(s) ==
  /\ None \notin s.workers
  /\ People(s)!StaffAssumption

StaffLabels ==
  {"idle", "inviting", "mailing", "withdrawing", "assigning", "activating", "removing",
   "redefining", "deleting"}

StaffTypes(s) ==
  /\ pc \in [s.workers -> StaffLabels]
  /\ job = [w \in s.workers |-> job[w]]
  /\ users \in [s.emails -> [exists : BOOLEAN, active : BOOLEAN, told : BOOLEAN]]
  /\ members \in Seq(People(s)!Membership \union {None})
  /\ roles \in [s.roles -> s.bases \union {None}]

StaffJob(s, w) ==
  /\ pc[w] = "inviting" => job[w] \in People(s)!Membership
  /\ pc[w] = "assigning" => job[w].custom \in s.roles \union {None} /\ job[w].role \in s.bases
  /\ pc[w] \in {"mailing", "withdrawing", "assigning", "activating", "removing"} =>
       job[w].member \in DOMAIN members
  /\ pc[w] \in {"mailing", "withdrawing", "activating", "removing"} =>
       /\ job[w].email \in s.emails
       /\ job[w].member \in People(s)!Standing => members[job[w].member].email = job[w].email
  /\ pc[w] = "activating" => job[w].active \in BOOLEAN
  /\ pc[w] \in {"redefining", "deleting"} => job[w].custom \in s.roles
  /\ pc[w] = "redefining" => job[w].role \in s.bases

StaffJobs(s) == \A w \in s.workers : StaffJob(s, w)

OneEach(s) ==
  \A e \in s.emails :
    IF users[e].exists THEN \E m \in DOMAIN members : People(s)!Of(e) = {m}
                       ELSE People(s)!Of(e) = {}

StaffInv(s) == StaffTypes(s) /\ StaffJobs(s) /\ OneEach(s)

(* Who has not been sent the password yet is somebody's business, as long  *)
(* as no request is cut off.                                               *)
Pending(s) ==
  \A e \in s.emails : users[e].exists /\ ~users[e].told =>
    \E w \in s.workers :
      /\ pc[w] \in {"mailing", "withdrawing"}
      /\ job[w].member \in People(s)!Standing /\ job[w].email = e

(* One request at a time: what was read of a custom role still holds.      *)
RolesRead(s) ==
  /\ \A m \in People(s)!Standing : members[m].custom # None =>
       members[m].role = roles[members[m].custom]
  /\ \A w \in s.workers :
       /\ pc[w] = "inviting" /\ job[w].custom # None => job[w].role = roles[job[w].custom]
       /\ pc[w] = "redefining" => job[w].was = roles[job[w].custom] /\ job[w].was # None
       /\ pc[w] = "deleting" => People(s)!Bearing(job[w].custom) = {}

LEMMA StaffInit ==
  ASSUME NEW s, StaffAssumed(s), People(s)!Init
  PROVE  StaffInv(s) /\ Pending(s) /\ RolesRead(s)
<1> USE DEF StaffAssumed, People!Init, People!NoUser, People!NoRequests, People!Standing, People!Of
<1>1. StaffTypes(s)
  BY DEF StaffTypes, StaffLabels
<1>2. StaffJobs(s) /\ OneEach(s) /\ Pending(s) /\ RolesRead(s)
  BY DEF StaffJobs, StaffJob, OneEach, Pending, RolesRead
<1> QED
  BY <1>1, <1>2 DEF StaffInv

(* What requests know of members, and what accounts have of them, rests on *)
(* which members there are and on their addresses.                         *)
LEMMA SameMembers ==
  ASSUME NEW s,
         DOMAIN members' = DOMAIN members,
         \A m \in DOMAIN members :
           /\ members'[m] = None <=> members[m] = None
           /\ members[m] # None => members'[m].email = members[m].email
  PROVE  /\ People(s)!Standing' = People(s)!Standing
         /\ \A e \in s.emails : People(s)!Of(e)' = People(s)!Of(e)
<1>1. People(s)!Standing' = People(s)!Standing
  BY DEF People!Standing
<1> QED
  BY <1>1 DEF People!Of, People!Standing

LEMMA OneMemberLess ==
  ASSUME NEW s, NEW m \in DOMAIN members, members' = [members EXCEPT ![m] = None]
  PROVE  /\ DOMAIN members' = DOMAIN members
         /\ People(s)!Standing' = People(s)!Standing \ {m}
         /\ \A e \in s.emails : People(s)!Of(e)' = People(s)!Of(e) \ {m}
<1>1. People(s)!Standing' = People(s)!Standing \ {m}
  BY DEF People!Standing
<1>2. \A k \in People(s)!Standing' : members'[k] = members[k]
  BY <1>1
<1> QED
  BY <1>1, <1>2 DEF People!Of

LEMMA OneMemberMore ==
  ASSUME NEW s, StaffAssumed(s), StaffTypes(s), NEW j \in People(s)!Membership,
         members' = Append(members, j)
  PROVE  /\ DOMAIN members' = DOMAIN members \union {Len(members) + 1}
         /\ People(s)!Standing' = People(s)!Standing \union {Len(members) + 1}
         /\ \A m \in DOMAIN members : members'[m] = members[m]
         /\ members'[Len(members) + 1] = j
         /\ \A e \in s.emails :
              People(s)!Of(e)' =
                IF e = j.email THEN People(s)!Of(e) \union {Len(members) + 1} ELSE People(s)!Of(e)
<1>1. /\ DOMAIN members' = DOMAIN members \union {Len(members) + 1}
      /\ \A m \in DOMAIN members : members'[m] = members[m]
      /\ members'[Len(members) + 1] = j /\ Len(members) + 1 \notin DOMAIN members
  BY DEF StaffTypes
<1>2. j # None
  BY DEF StaffAssumed, People!StaffAssumption
<1>3. People(s)!Standing' = People(s)!Standing \union {Len(members) + 1}
  BY <1>1, <1>2 DEF People!Standing
<1>4. \A e \in s.emails :
        People(s)!Of(e)' =
          IF e = j.email THEN People(s)!Of(e) \union {Len(members) + 1} ELSE People(s)!Of(e)
  BY <1>1, <1>3 DEF People!Of, People!Standing
<1> QED
  BY <1>1, <1>3, <1>4

LEMMA RowChanged ==
  ASSUME NEW S, NEW q \in Seq(S), NEW i \in DOMAIN q, NEW r \in S
  PROVE  [q EXCEPT ![i] = r] \in Seq(S) /\ DOMAIN [q EXCEPT ![i] = r] = DOMAIN q
OBVIOUS

LEMMA JobsKept ==
  ASSUME NEW s, StaffTypes(s), StaffJobs(s), NEW w \in s.workers,
         \A v \in s.workers : v # w => pc'[v] = pc[v] /\ job'[v] = job[v],
         DOMAIN members \subseteq DOMAIN members',
         \A m \in DOMAIN members : m \in People(s)!Standing' =>
           m \in People(s)!Standing /\ members'[m].email = members[m].email,
         StaffJob(s, w)'
  PROVE  StaffJobs(s)'
<1>1. ASSUME NEW v \in s.workers, v # w
      PROVE  StaffJob(s, v)'
  <2>1. StaffJob(s, v) /\ pc'[v] = pc[v] /\ job'[v] = job[v]
    BY <1>1 DEF StaffJobs
  <2> QED
    BY <2>1 DEF StaffJob
<1> QED
  BY <1>1 DEF StaffJobs

LEMMA RowsKept ==
  ASSUME NEW s, StaffInv(s), NEW w \in s.workers, UNCHANGED <<users, members, roles>>,
         NEW l \in StaffLabels, NEW j,
         pc' = [pc EXCEPT ![w] = l], job' = [job EXCEPT ![w] = j], StaffJob(s, w)'
  PROVE  StaffInv(s)'
<1>1. People(s)!Standing' = People(s)!Standing
      /\ \A e \in s.emails : People(s)!Of(e)' = People(s)!Of(e)
  BY SameMembers
<1>2. StaffTypes(s)'
  BY DEF StaffInv, StaffTypes
<1>3. StaffJobs(s)'
  <2>1. \A v \in s.workers : v # w => pc'[v] = pc[v] /\ job'[v] = job[v]
    BY DEF StaffInv, StaffTypes
  <2> QED
    BY <1>1, <2>1, JobsKept DEF StaffInv
<1>4. OneEach(s)'
  BY <1>1 DEF StaffInv, OneEach
<1> QED
  BY <1>2, <1>3, <1>4 DEF StaffInv

(* Reads: a request finds rows and changes none. *)
LEMMA StaffReads ==
  ASSUME NEW s, StaffAssumed(s), StaffInv(s), NEW w \in s.workers,
         \/ \E o \in s.orgs, e \in s.emails, c \in s.roles \union {None}, base \in s.bases :
              People(s)!InviteRead(w, o, e, c, base)
         \/ People(s)!MailFails(w)
         \/ \E m \in DOMAIN members :
              \/ \E c \in s.roles \union {None}, base \in s.bases :
                   People(s)!AssignRead(w, m, c, base)
              \/ \E active \in BOOLEAN : People(s)!ActivateRead(w, m, active)
              \/ People(s)!RemoveRead(w, m)
         \/ \E c \in s.roles :
              (\E base \in s.bases : People(s)!RoleRead(w, c, base)) \/ People(s)!DeleteRoleRead(w, c)
         \/ People(s)!Abort(w)
  PROVE  StaffInv(s)'
<1> USE DEF People!Turn, People!Done, People!Idle, People!At, People!GiveUp, People!rowVars,
            People!requestVars
<1>0. /\ pc \in [s.workers -> StaffLabels] /\ job = [v \in s.workers |-> job[v]]
      /\ members \in Seq(People(s)!Membership \union {None}) /\ roles \in [s.roles -> s.bases \union {None}]
      /\ StaffJob(s, w)
  BY DEF StaffInv, StaffTypes, StaffJobs
<1>1. \A m \in People(s)!Standing : m \in DOMAIN members /\ members[m].email \in s.emails
  <2>1. \A m \in DOMAIN members : members[m] \in People(s)!Membership \union {None}
    BY <1>0
  <2> QED
    BY <2>1 DEF People!Standing, People!Membership
<1>2. ASSUME NEW o \in s.orgs, NEW e \in s.emails, NEW c \in s.roles \union {None},
             NEW base \in s.bases, People(s)!InviteRead(w, o, e, c, base)
      PROVE  StaffInv(s)'
  <2> DEFINE role == IF c = None THEN base ELSE roles[c]
             j == [org |-> o, email |-> e, custom |-> c, role |-> role]
  <2>1. /\ UNCHANGED <<users, members, roles>> /\ pc' = [pc EXCEPT ![w] = "inviting"]
        /\ job' = [job EXCEPT ![w] = j] /\ role \in s.bases
    BY <1>0, <1>2 DEF People!InviteRead
  <2> HIDE DEF role
  <2>2. j \in People(s)!Membership
    BY <2>1 DEF People!Membership
  <2> HIDE DEF j
  <2>3. pc'[w] = "inviting" /\ job'[w] = j
    BY <1>0, <2>1
  <2>4. StaffJob(s, w)'
    BY <2>1, <2>2, <2>3 DEF StaffJob, People!Membership
  <2> QED
    BY <2>1, <2>4, RowsKept DEF StaffLabels
<1>3. ASSUME People(s)!MailFails(w)
      PROVE  StaffInv(s)'
  <2>1. /\ UNCHANGED <<users, members, roles>> /\ pc' = [pc EXCEPT ![w] = "withdrawing"]
        /\ job' = [job EXCEPT ![w] = job[w]] /\ pc[w] = "mailing"
    BY <1>3 DEF People!MailFails
  <2>2. StaffJob(s, w)'
    BY <1>0, <2>1 DEF StaffJob, People!Standing
  <2> QED
    BY <2>1, <2>2, RowsKept DEF StaffLabels
<1>4. ASSUME NEW m \in DOMAIN members, NEW c \in s.roles \union {None}, NEW base \in s.bases,
             People(s)!AssignRead(w, m, c, base)
      PROVE  StaffInv(s)'
  <2>1. /\ UNCHANGED <<users, members, roles>> /\ pc' = [pc EXCEPT ![w] = "assigning"]
        /\ job' = [job EXCEPT ![w] = [member |-> m, custom |-> c, role |-> base]]
    BY <1>4 DEF People!AssignRead
  <2>2. StaffJob(s, w)'
    BY <1>0, <2>1 DEF StaffJob
  <2> QED
    BY <2>1, <2>2, RowsKept DEF StaffLabels
<1>5. ASSUME NEW m \in DOMAIN members, NEW active \in BOOLEAN, People(s)!ActivateRead(w, m, active)
      PROVE  StaffInv(s)'
  <2>1. /\ UNCHANGED <<users, members, roles>> /\ pc' = [pc EXCEPT ![w] = "activating"]
        /\ job' = [job EXCEPT ![w] = [member |-> m, email |-> members[m].email, active |-> active]]
        /\ m \in People(s)!Standing
    BY <1>5 DEF People!ActivateRead
  <2>2. StaffJob(s, w)'
    BY <1>0, <1>1, <2>1 DEF StaffJob
  <2> QED
    BY <2>1, <2>2, RowsKept DEF StaffLabels
<1>6. ASSUME NEW m \in DOMAIN members, People(s)!RemoveRead(w, m)
      PROVE  StaffInv(s)'
  <2>1. /\ UNCHANGED <<users, members, roles>> /\ pc' = [pc EXCEPT ![w] = "removing"]
        /\ job' = [job EXCEPT ![w] = [member |-> m, email |-> members[m].email]]
        /\ m \in People(s)!Standing
    BY <1>6 DEF People!RemoveRead
  <2>2. StaffJob(s, w)'
    BY <1>0, <1>1, <2>1 DEF StaffJob
  <2> QED
    BY <2>1, <2>2, RowsKept DEF StaffLabels
<1>7. ASSUME NEW c \in s.roles, NEW base \in s.bases, People(s)!RoleRead(w, c, base)
      PROVE  StaffInv(s)'
  <2>1. /\ UNCHANGED <<users, members, roles>> /\ pc' = [pc EXCEPT ![w] = "redefining"]
        /\ job' = [job EXCEPT ![w] = [custom |-> c, was |-> roles[c], role |-> base]]
    BY <1>7 DEF People!RoleRead
  <2>2. StaffJob(s, w)'
    BY <1>0, <2>1 DEF StaffJob
  <2> QED
    BY <2>1, <2>2, RowsKept DEF StaffLabels
<1>8. ASSUME NEW c \in s.roles, People(s)!DeleteRoleRead(w, c)
      PROVE  StaffInv(s)'
  <2>1. /\ UNCHANGED <<users, members, roles>> /\ pc' = [pc EXCEPT ![w] = "deleting"]
        /\ job' = [job EXCEPT ![w] = [custom |-> c]]
    BY <1>8 DEF People!DeleteRoleRead
  <2>2. StaffJob(s, w)'
    BY <1>0, <2>1 DEF StaffJob
  <2> QED
    BY <2>1, <2>2, RowsKept DEF StaffLabels
<1>9. ASSUME People(s)!Abort(w)
      PROVE  StaffInv(s)'
  <2>1. /\ UNCHANGED <<users, members, roles>> /\ pc' = [pc EXCEPT ![w] = "idle"]
        /\ job' = [job EXCEPT ![w] = None]
    BY <1>9 DEF People!Abort
  <2>2. StaffJob(s, w)'
    BY <1>0, <2>1 DEF StaffJob
  <2> QED
    BY <2>1, <2>2, RowsKept DEF StaffLabels
<1> QED
  BY <1>2, <1>3, <1>4, <1>5, <1>6, <1>7, <1>8, <1>9

(* A commit that ends the request: what the others know of members holds,  *)
(* if members only go or keep their address.                               *)
LEMMA CommitEnds ==
  ASSUME NEW s, StaffInv(s), NEW w \in s.workers,
         pc' = [pc EXCEPT ![w] = "idle"], job' = [job EXCEPT ![w] = None],
         users' \in [s.emails -> [exists : BOOLEAN, active : BOOLEAN, told : BOOLEAN]],
         members' \in Seq(People(s)!Membership \union {None}),
         roles' \in [s.roles -> s.bases \union {None}],
         DOMAIN members' = DOMAIN members,
         \A m \in DOMAIN members : m \in People(s)!Standing' =>
           m \in People(s)!Standing /\ members'[m].email = members[m].email,
         OneEach(s)'
  PROVE  StaffInv(s)'
<1>1. pc \in [s.workers -> StaffLabels] /\ job = [v \in s.workers |-> job[v]]
  BY DEF StaffInv, StaffTypes
<1>2. StaffTypes(s)'
  BY <1>1 DEF StaffTypes, StaffLabels
<1>3. pc'[w] = "idle" /\ \A v \in s.workers : v # w => pc'[v] = pc[v] /\ job'[v] = job[v]
  BY <1>1
<1>4. StaffJob(s, w)'
  BY <1>3 DEF StaffJob
<1>5. StaffJobs(s)'
  BY <1>3, <1>4, JobsKept DEF StaffInv
<1> QED
  BY <1>2, <1>5 DEF StaffInv

LEMMA NewAccount ==
  ASSUME NEW r,
         r = [[exists |-> FALSE, active |-> FALSE, told |-> FALSE] EXCEPT !.exists = TRUE,
                                                                         !.active = TRUE]
  PROVE  r = [exists |-> TRUE, active |-> TRUE, told |-> FALSE]
BY Zenon

LEMMA StaffInvite ==
  ASSUME NEW s, StaffAssumed(s), StaffInv(s), NEW w \in s.workers, People(s)!InviteCommit(w)
  PROVE  /\ StaffInv(s)'
         /\ members' = Append(members, job[w]) /\ job[w] \in People(s)!Membership
         /\ users' = [users EXCEPT ![job[w].email] =
                        [exists |-> TRUE, active |-> TRUE, told |-> FALSE]]
         /\ pc' = [pc EXCEPT ![w] = "mailing"]
         /\ job' = [job EXCEPT ![w] = [member |-> Len(members) + 1, email |-> job[w].email]]
         /\ UNCHANGED roles
<1> USE DEF People!Turn, People!At
<1>j. PICK j : j = job[w]
  OBVIOUS
<1>0. /\ pc \in [s.workers -> StaffLabels] /\ job = [v \in s.workers |-> job[v]]
      /\ users \in [s.emails -> [exists : BOOLEAN, active : BOOLEAN, told : BOOLEAN]]
      /\ members \in Seq(People(s)!Membership \union {None})
      /\ roles \in [s.roles -> s.bases \union {None}]
      /\ StaffJob(s, w) /\ StaffTypes(s) /\ StaffJobs(s)
  BY DEF StaffInv, StaffTypes, StaffJobs
<1>1. /\ j \in People(s)!Membership /\ j.email \in s.emails
      /\ ~users[j.email].exists
      /\ users' = [users EXCEPT ![j.email] = [exists |-> TRUE, active |-> TRUE, told |-> FALSE]]
      /\ members' = Append(members, j) /\ UNCHANGED roles
      /\ pc' = [pc EXCEPT ![w] = "mailing"]
      /\ job' = [job EXCEPT ![w] = [member |-> Len(members) + 1, email |-> j.email]]
  <2>1. [People(s)!NoUser EXCEPT !.exists = TRUE, !.active = TRUE]
          = [exists |-> TRUE, active |-> TRUE, told |-> FALSE]
    BY NewAccount DEF People!NoUser
  <2>2. j \in People(s)!Membership
    BY <1>j, <1>0 DEF People!InviteCommit, StaffJob
  <2>3. j.email \in s.emails
    BY <2>2 DEF People!Membership
  <2> QED
    BY <1>j, <2>1, <2>2, <2>3 DEF People!InviteCommit, People!Accepted
<1>2. /\ DOMAIN members' = DOMAIN members \union {Len(members) + 1}
      /\ People(s)!Standing' = People(s)!Standing \union {Len(members) + 1}
      /\ \A m \in DOMAIN members : members'[m] = members[m]
      /\ members'[Len(members) + 1] = j
      /\ \A e \in s.emails :
           People(s)!Of(e)' =
             IF e = j.email THEN People(s)!Of(e) \union {Len(members) + 1} ELSE People(s)!Of(e)
      /\ Len(members) + 1 \notin DOMAIN members
  BY <1>0, <1>1, OneMemberMore
<1>3. StaffTypes(s)'
  BY <1>0, <1>1 DEF StaffTypes, StaffLabels
<1>4. StaffJobs(s)'
  <2>1. /\ pc'[w] = "mailing" /\ job'[w] = [member |-> Len(members) + 1, email |-> j.email]
        /\ \A v \in s.workers : v # w => pc'[v] = pc[v] /\ job'[v] = job[v]
    BY <1>0, <1>1
  <2>2. StaffJob(s, w)'
    BY <1>1, <1>2, <2>1 DEF StaffJob
  <2>3. /\ DOMAIN members \subseteq DOMAIN members'
        /\ \A m \in DOMAIN members : m \in People(s)!Standing' =>
             m \in People(s)!Standing /\ members'[m].email = members[m].email
    BY <1>2
  <2> QED
    BY <1>0, <2>1, <2>2, <2>3, JobsKept
<1>5. OneEach(s)'
  <2>1. ASSUME NEW e \in s.emails, e = j.email
        PROVE  users'[e].exists /\ People(s)!Of(e)' = {Len(members) + 1}
    BY <1>0, <1>1, <1>2, <2>1 DEF StaffInv, OneEach
  <2>2. ASSUME NEW e \in s.emails, e # j.email
        PROVE  users'[e] = users[e] /\ People(s)!Of(e)' = People(s)!Of(e)
    BY <1>0, <1>1, <1>2, <2>2
  <2>3. ASSUME NEW e \in s.emails
        PROVE  IF users'[e].exists THEN \E m \in DOMAIN members' : People(s)!Of(e)' = {m}
                                   ELSE People(s)!Of(e)' = {}
    BY <1>2, <2>1, <2>2 DEF StaffInv, OneEach
  <2> QED
    BY <2>3 DEF OneEach
<1> QED
  BY <1>j, <1>1, <1>3, <1>4, <1>5 DEF StaffInv

(* Taking back an invitation, or removing a member: the account goes with  *)
(* its one membership.                                                     *)
LEMMA AccountGoes ==
  ASSUME NEW s, StaffAssumed(s), StaffInv(s), NEW w \in s.workers,
         pc[w] \in {"withdrawing", "removing"}, job[w].member \in People(s)!Standing
  PROVE  /\ job[w].email \in s.emails
         /\ People(s)!Of(job[w].email) = {job[w].member}
<1>1. /\ job[w].email \in s.emails /\ job[w].member \in DOMAIN members
      /\ members[job[w].member].email = job[w].email
  BY DEF StaffInv, StaffJobs, StaffJob
<1>2. job[w].member \in People(s)!Of(job[w].email)
  BY <1>1 DEF People!Of
<1> QED
  BY <1>1, <1>2 DEF StaffInv, OneEach

LEMMA StaffGone ==
  ASSUME NEW s, StaffAssumed(s), StaffInv(s), NEW w \in s.workers,
         pc[w] \in {"withdrawing", "removing"}, job[w].member \in People(s)!Standing,
         members' = [members EXCEPT ![job[w].member] = None],
         users' = [users EXCEPT ![job[w].email] = People(s)!NoUser],
         UNCHANGED roles, pc' = [pc EXCEPT ![w] = "idle"], job' = [job EXCEPT ![w] = None]
  PROVE  StaffInv(s)'
<1>0. PICK k, f : k = job[w].member /\ f = job[w].email
  OBVIOUS
<1>1. f \in s.emails /\ People(s)!Of(f) = {k} /\ k \in DOMAIN members
  BY <1>0, AccountGoes DEF People!Standing
<1>2. members' = [members EXCEPT ![k] = None] /\ users' = [users EXCEPT ![f] = People(s)!NoUser]
  BY <1>0
<1>3. /\ DOMAIN members' = DOMAIN members
      /\ People(s)!Standing' = People(s)!Standing \ {k}
      /\ \A e \in s.emails : People(s)!Of(e)' = People(s)!Of(e) \ {k}
  BY <1>1, <1>2, OneMemberLess
<1>4. /\ users \in [s.emails -> [exists : BOOLEAN, active : BOOLEAN, told : BOOLEAN]]
      /\ members \in Seq(People(s)!Membership \union {None})
      /\ roles \in [s.roles -> s.bases \union {None}]
  BY DEF StaffInv, StaffTypes
<1>5. /\ users' \in [s.emails -> [exists : BOOLEAN, active : BOOLEAN, told : BOOLEAN]]
      /\ members' \in Seq(People(s)!Membership \union {None})
  <2>1. People(s)!NoUser \in [exists : BOOLEAN, active : BOOLEAN, told : BOOLEAN]
    BY DEF People!NoUser
  <2>2. users' \in [s.emails -> [exists : BOOLEAN, active : BOOLEAN, told : BOOLEAN]]
    BY <1>1, <1>2, <1>4, <2>1
  <2> QED
    <3> DEFINE S == People(s)!Membership \union {None}
    <3>1. None \in S /\ members \in Seq(S)
      BY <1>4
    <3> HIDE DEF S
    <3>3. k \in DOMAIN members
      BY <1>1
    <3>4. [members EXCEPT ![k] = None] \in Seq(S)
      BY ONLY <3>1, <3>3, RowChanged
    <3>2. members' \in Seq(S)
      BY <1>2, <3>4
    <3> QED
      BY <2>2, <3>2 DEF S
<1>6. \A m \in DOMAIN members : m \in People(s)!Standing' =>
        m \in People(s)!Standing /\ members'[m].email = members[m].email
  BY <1>1, <1>2, <1>3, <1>4
<1>7. \A e, d \in s.emails : e # d => People(s)!Of(e) \intersect People(s)!Of(d) = {}
  BY DEF People!Of
<1>8. OneEach(s)'
  <2>0. users'[f] = People(s)!NoUser /\ ~People(s)!NoUser.exists
    BY <1>1, <1>2, <1>4 DEF People!NoUser
  <2>1. ~users'[f].exists /\ People(s)!Of(f)' = {}
    BY <1>1, <1>3, <2>0
  <2>2. ASSUME NEW e \in s.emails, e # f
        PROVE  users'[e] = users[e] /\ People(s)!Of(e)' = People(s)!Of(e)
    <3>1. k \notin People(s)!Of(e)
      BY <1>1, <1>7, <2>2
    <3>2. People(s)!Of(e)' = People(s)!Of(e)
      BY <1>3, <3>1
    <3> QED
      BY <1>1, <1>2, <1>4, <2>2, <3>2
  <2>3. ASSUME NEW e \in s.emails
        PROVE  IF users'[e].exists THEN \E m \in DOMAIN members' : People(s)!Of(e)' = {m}
                                   ELSE People(s)!Of(e)' = {}
    <3>1. CASE e = f
      BY <2>1, <3>1
    <3>2. CASE e # f
      <4>1. IF users[e].exists THEN \E m \in DOMAIN members : People(s)!Of(e) = {m}
                               ELSE People(s)!Of(e) = {}
        BY DEF StaffInv, OneEach
      <4> QED
        BY <1>3, <2>2, <3>2, <4>1
    <3> QED
      BY <3>1, <3>2
  <2> QED
    BY <2>3 DEF OneEach
<1> QED
  BY <1>3, <1>4, <1>5, <1>6, <1>8, CommitEnds

(* Changes to what members may do leave them and their addresses.          *)
LEMMA Reassigned ==
  ASSUME NEW s, StaffAssumed(s), StaffInv(s), NEW w \in s.workers,
         People(s)!AssignCommit(w) \/ People(s)!RoleCommit(w) \/ People(s)!DeleteRoleCommit(w)
  PROVE  /\ pc' = [pc EXCEPT ![w] = "idle"] /\ job' = [job EXCEPT ![w] = None]
         /\ UNCHANGED users
         /\ roles' \in [s.roles -> s.bases \union {None}]
         /\ members' \in Seq(People(s)!Membership \union {None})
         /\ DOMAIN members' = DOMAIN members
         /\ \A m \in DOMAIN members :
              IF members[m] = None THEN members'[m] = None
              ELSE /\ members'[m] \in People(s)!Membership
                   /\ members'[m].email = members[m].email
<1> USE DEF People!Turn, People!Done, People!At
<1> DEFINE Account == [exists : BOOLEAN, active : BOOLEAN, told : BOOLEAN]
           Row == People(s)!Membership
<1>0. /\ pc \in [s.workers -> StaffLabels] /\ job = [v \in s.workers |-> job[v]]
      /\ users \in [s.emails -> Account]
      /\ members \in Seq(Row \union {None})
      /\ roles \in [s.roles -> s.bases \union {None}]
      /\ \A v \in s.workers : StaffJob(s, v)
      /\ OneEach(s)
  BY DEF StaffInv, StaffTypes, StaffJobs
<1>1. \A m \in DOMAIN members : members[m] \in Row \union {None}
  BY <1>0
<1>2. None \notin Row /\ None \notin s.roles /\ None \notin s.bases
  BY DEF StaffAssumed, People!StaffAssumption
<1>3. CASE People(s)!AssignCommit(w)
  <2>1. PICK m, c, role :
          m = job[w].member /\ c = job[w].custom /\ role = People(s)!AssignedRole(job[w])
    OBVIOUS
  <2>2. /\ m \in People(s)!Standing /\ m \in DOMAIN members
        /\ c \in s.roles \union {None} /\ role \in s.bases
    BY <1>0, <1>3, <2>1 DEF People!AssignCommit, People!AssignedRole, People!Standing, StaffJob
  <2>3. members[m] \in Row
    BY <1>1, <2>2 DEF People!Standing
  <2>4. PICK r : r = [members[m] EXCEPT !.role = role, !.custom = c]
    OBVIOUS
  <2>5. r \in Row /\ r.email = members[m].email
    <3>1. members[m] \in People(s)!Membership /\ role \in s.bases /\ c \in s.roles \union {None}
      BY <2>2, <2>3
    <3> QED
      <4>1. PICK t : t = [members[m] EXCEPT !.role = role]
        OBVIOUS
      <4>2. t \in People(s)!Membership /\ t.email = members[m].email
        BY <3>1, <4>1 DEF People!Membership
      <4>3. r = [t EXCEPT !.custom = c]
        BY <2>4, <3>1, <4>1 DEF People!Membership
      <4> QED
        BY <3>1, <4>2, <4>3 DEF People!Membership
  <2>6. members' = [members EXCEPT ![m] = r]
    <3>1. members' = [members EXCEPT ![m].role = role, ![m].custom = c]
      BY <1>3, <2>1 DEF People!AssignCommit
    <3>2. [members EXCEPT ![m].role = role, ![m].custom = c] = [members EXCEPT ![m] = r]
      BY <1>0, <2>2, <2>4
    <3> QED
      BY <3>1, <3>2
  <2>7. members' \in Seq(Row \union {None}) /\ DOMAIN members' = DOMAIN members
    <3> DEFINE S == Row \union {None}
    <3>1. r \in S /\ members \in Seq(S) /\ m \in DOMAIN members
      BY <1>0, <2>2, <2>5
    <3> HIDE DEF S
    <3>2. [members EXCEPT ![m] = r] \in Seq(S) /\ DOMAIN [members EXCEPT ![m] = r] = DOMAIN members
      BY ONLY <3>1, RowChanged
    <3> QED
      BY <2>6, <3>2 DEF S
  <2>8. \A k \in DOMAIN members :
          IF members[k] = None THEN members'[k] = None
          ELSE members'[k] \in Row /\ members'[k].email = members[k].email
    BY <1>0, <1>1, <1>2, <2>2, <2>3, <2>5, <2>6
  <2>9. /\ pc' = [pc EXCEPT ![w] = "idle"] /\ job' = [job EXCEPT ![w] = None]
        /\ UNCHANGED <<users, roles>>
    BY <1>3 DEF People!AssignCommit
  <2> QED
    BY <1>0, <2>7, <2>8, <2>9
<1>4. CASE People(s)!RoleCommit(w)
  <2>1. PICK c, role, B : c = job[w].custom /\ role = job[w].role /\ B = People(s)!Bearing(c)
    OBVIOUS
  <2>2. c \in s.roles /\ role \in s.bases /\ B \subseteq People(s)!Standing
    BY <1>0, <1>4, <2>1 DEF People!RoleCommit, StaffJob, People!Bearing
  <2>3. /\ roles' = [roles EXCEPT ![c] = role]
        /\ \/ members' = [m \in DOMAIN members |->
                            IF m \in B THEN [members[m] EXCEPT !.role = role] ELSE members[m]]
           \/ members' = members
        /\ pc' = [pc EXCEPT ![w] = "idle"] /\ job' = [job EXCEPT ![w] = None]
        /\ UNCHANGED users
    BY <1>4, <2>1 DEF People!RoleCommit, People!Rebased
  <2>4. \A m \in DOMAIN members :
          IF members[m] = None THEN members'[m] = None
          ELSE members'[m] \in Row /\ members'[m].email = members[m].email
    <3>1. ASSUME NEW m \in DOMAIN members, members[m] # None
          PROVE  [members[m] EXCEPT !.role = role] \in Row
                 /\ [members[m] EXCEPT !.role = role].email = members[m].email
      <4>1. members[m] \in People(s)!Membership /\ role \in s.bases
        BY <1>1, <2>2, <3>1
      <4> QED
        BY <4>1 DEF People!Membership
    <3> QED
      BY <1>1, <2>2, <2>3, <3>1 DEF People!Standing
  <2>5. members' \in Seq(Row \union {None}) /\ DOMAIN members' = DOMAIN members
    <3>1. \A m \in DOMAIN members : members'[m] \in Row \union {None}
      BY <2>4
    <3> HIDE DEF Row
    <3>2. members' = [m \in 1 .. Len(members) |-> members'[m]]
      BY <1>0, <2>3
    <3> QED
      BY <1>0, <3>1, <3>2
  <2>6. roles' \in [s.roles -> s.bases \union {None}]
    BY <1>0, <2>2, <2>3
  <2> QED
    BY <2>3, <2>4, <2>5, <2>6
<1>5. CASE People(s)!DeleteRoleCommit(w)
  <2>1. PICK c, B : c = job[w].custom /\ B = People(s)!Bearing(c)
    OBVIOUS
  <2>2. c \in s.roles /\ B \subseteq People(s)!Standing
    BY <1>0, <1>5, <2>1 DEF People!DeleteRoleCommit, StaffJob, People!Bearing
  <2>3. /\ roles' = [roles EXCEPT ![c] = None]
        /\ members' = [m \in DOMAIN members |->
                         IF m \in B THEN [members[m] EXCEPT !.custom = None] ELSE members[m]]
        /\ pc' = [pc EXCEPT ![w] = "idle"] /\ job' = [job EXCEPT ![w] = None]
        /\ UNCHANGED users
    BY <1>5, <2>1 DEF People!DeleteRoleCommit
  <2>4. \A m \in DOMAIN members :
          IF members[m] = None THEN members'[m] = None
          ELSE members'[m] \in Row /\ members'[m].email = members[m].email
    <3>1. ASSUME NEW m \in DOMAIN members, members[m] # None
          PROVE  [members[m] EXCEPT !.custom = None] \in Row
                 /\ [members[m] EXCEPT !.custom = None].email = members[m].email
      <4>1. members[m] \in Row
        BY <1>1, <3>1
      <4> QED
        BY <4>1 DEF People!Membership
    <3> QED
      BY <1>1, <2>2, <2>3, <3>1 DEF People!Standing
  <2>5. members' \in Seq(Row \union {None}) /\ DOMAIN members' = DOMAIN members
    <3>1. \A m \in DOMAIN members : members'[m] \in Row \union {None}
      BY <2>4
    <3> HIDE DEF Row
    <3>2. members' = [m \in 1 .. Len(members) |-> members'[m]]
      BY <1>0, <2>3
    <3> QED
      BY <1>0, <3>1, <3>2
  <2>6. roles' \in [s.roles -> s.bases \union {None}]
    BY <1>0, <2>2, <2>3
  <2> QED
    BY <2>3, <2>4, <2>5, <2>6
<1> QED
  BY <1>3, <1>4, <1>5

LEMMA StaffStep ==
  ASSUME NEW s, StaffAssumed(s), StaffInv(s), People(s)!Next
  PROVE  StaffInv(s)'
<1> USE DEF People!Turn, People!Done, People!At
<1> DEFINE Account == [exists : BOOLEAN, active : BOOLEAN, told : BOOLEAN]
           Row == People(s)!Membership
<1>0. /\ pc \in [s.workers -> StaffLabels] /\ job = [v \in s.workers |-> job[v]]
      /\ users \in [s.emails -> Account]
      /\ members \in Seq(Row \union {None})
      /\ roles \in [s.roles -> s.bases \union {None}]
      /\ \A v \in s.workers : StaffJob(s, v)
      /\ OneEach(s)
  BY DEF StaffInv, StaffTypes, StaffJobs
<1>1. \A m \in DOMAIN members : members[m] \in Row \union {None}
  BY <1>0
<1>2. None \notin Row /\ None \notin s.roles /\ None \notin s.bases
  BY DEF StaffAssumed, People!StaffAssumption
<1>3. ASSUME NEW w \in s.workers, People(s)!MailInvitation(w)
      PROVE  StaffInv(s)'
  <2>1. /\ job[w].email \in s.emails /\ job[w].member \in DOMAIN members
        /\ users' = [users EXCEPT ![job[w].email].told = @ \/ job[w].member \in People(s)!Standing]
        /\ pc' = [pc EXCEPT ![w] = "idle"] /\ job' = [job EXCEPT ![w] = None]
        /\ UNCHANGED <<members, roles>>
    BY <1>0, <1>3 DEF People!MailInvitation, StaffJob
  <2>2. /\ users' \in [s.emails -> Account]
        /\ \A e \in s.emails : users'[e].exists = users[e].exists
    <3>1. PICK e \in s.emails, b \in BOOLEAN :
            users' = [users EXCEPT ![e].told = users[e].told \/ b]
      BY <2>1
    <3>2. users[e] \in Account
      BY <1>0
    <3>3. PICK r : r = [users[e] EXCEPT !.told = users[e].told \/ b]
      OBVIOUS
    <3>4. r \in Account /\ r.exists = users[e].exists
      BY <3>2, <3>3
    <3>5. users' = [users EXCEPT ![e] = r]
      BY <3>1, <3>3
    <3> QED
      BY <1>0, <3>4, <3>5
  <2>3. People(s)!Standing' = People(s)!Standing
        /\ \A e \in s.emails : People(s)!Of(e)' = People(s)!Of(e)
    BY <2>1, SameMembers
  <2>4. OneEach(s)'
    <3>1. ASSUME NEW e \in s.emails
          PROVE  IF users'[e].exists THEN \E m \in DOMAIN members' : People(s)!Of(e)' = {m}
                                     ELSE People(s)!Of(e)' = {}
      <4>1. IF users[e].exists THEN \E m \in DOMAIN members : People(s)!Of(e) = {m}
                               ELSE People(s)!Of(e) = {}
        BY <1>0 DEF OneEach
      <4>2. members' = members /\ users'[e].exists = users[e].exists
            /\ People(s)!Of(e)' = People(s)!Of(e)
        BY <2>1, <2>2, <2>3
      <4> QED
        BY ONLY <4>1, <4>2
    <3> QED
      BY <3>1 DEF OneEach
  <2> QED
    BY <1>0, <2>1, <2>2, <2>3, <2>4, CommitEnds
<1>4. ASSUME NEW w \in s.workers, People(s)!Withdraw(w)
      PROVE  StaffInv(s)'
  <2>1. CASE job[w].member \in People(s)!Standing
    BY <1>4, <2>1, StaffGone DEF People!Withdraw, People!WithdrawnUsers
  <2>2. CASE job[w].member \notin People(s)!Standing
    <3>1. /\ UNCHANGED <<users, members, roles>> /\ pc' = [pc EXCEPT ![w] = "idle"]
          /\ job' = [job EXCEPT ![w] = None]
      BY <1>4, <2>2 DEF People!Withdraw
    <3>2. StaffJob(s, w)'
      BY <1>0, <3>1 DEF StaffJob
    <3> QED
      BY <3>1, <3>2, RowsKept DEF StaffLabels
  <2> QED
    BY <2>1, <2>2
<1>5. ASSUME NEW w \in s.workers, People(s)!RemoveCommit(w)
      PROVE  StaffInv(s)'
  <2>1. pc[w] = "removing" /\ job[w].member \in People(s)!Standing
    BY <1>5 DEF People!RemoveCommit
  <2>2. People(s)!Of(job[w].email) = {job[w].member}
    BY <2>1, AccountGoes
  <2> QED
    BY <1>5, <2>1, <2>2, StaffGone DEF People!RemoveCommit
(* Changes to the rows of members that leave the members and addresses.    *)
<1>6. ASSUME NEW w \in s.workers,
             pc' = [pc EXCEPT ![w] = "idle"], job' = [job EXCEPT ![w] = None],
             users' \in [s.emails -> Account],
             \A e \in s.emails : users'[e].exists = users[e].exists,
             roles' \in [s.roles -> s.bases \union {None}],
             members' \in Seq(Row \union {None}), DOMAIN members' = DOMAIN members,
             \A m \in DOMAIN members :
               IF members[m] = None THEN members'[m] = None
               ELSE members'[m] \in Row /\ members'[m].email = members[m].email
      PROVE  StaffInv(s)'
  <2>1. \A m \in DOMAIN members :
          /\ members'[m] = None <=> members[m] = None
          /\ members[m] # None => members'[m].email = members[m].email
    BY <1>2, <1>6
  <2>2. People(s)!Standing' = People(s)!Standing
        /\ \A e \in s.emails : People(s)!Of(e)' = People(s)!Of(e)
    BY <1>6, <2>1, SameMembers
  <2>3. OneEach(s)'
    BY <1>0, <1>6, <2>2 DEF OneEach
  <2>4. \A m \in DOMAIN members : m \in People(s)!Standing' =>
          m \in People(s)!Standing /\ members'[m].email = members[m].email
    BY <2>1, <2>2 DEF People!Standing
  <2> HIDE DEF Row
  <2> QED
    BY <1>6, <2>3, <2>4, CommitEnds DEF Row
<1>7. ASSUME NEW w \in s.workers,
             People(s)!AssignCommit(w) \/ People(s)!RoleCommit(w) \/ People(s)!DeleteRoleCommit(w)
      PROVE  StaffInv(s)'
  <2> HIDE DEF Account
  <2> QED
    BY <1>0, <1>6, <1>7, Reassigned
<1>8. ASSUME NEW w \in s.workers, People(s)!ActivateCommit(w)
      PROVE  StaffInv(s)'
  <2>1. /\ job[w].email \in s.emails /\ job[w].active \in BOOLEAN
        /\ users' = [users EXCEPT ![job[w].email].active = job[w].active]
        /\ pc' = [pc EXCEPT ![w] = "idle"] /\ job' = [job EXCEPT ![w] = None]
        /\ UNCHANGED <<members, roles>>
    BY <1>0, <1>8 DEF People!ActivateCommit, StaffJob
  <2>2. /\ users' \in [s.emails -> Account]
        /\ \A e \in s.emails : users'[e].exists = users[e].exists
    BY <1>0, <2>1
  <2> HIDE DEF Row, Account
  <2> QED
    BY <1>0, <1>1, <1>6, <2>1, <2>2
<1>9. ASSUME NEW c \in s.roles, NEW base \in s.bases, People(s)!CreateRole(c, base)
      PROVE  StaffInv(s)'
  <2>1. /\ roles' = [roles EXCEPT ![c] = base]
        /\ UNCHANGED <<users, members, pc, job>>
    BY <1>9 DEF People!CreateRole, People!requestVars
  <2>2. People(s)!Standing' = People(s)!Standing
        /\ \A e \in s.emails : People(s)!Of(e)' = People(s)!Of(e)
    BY <2>1, SameMembers
  <2>3. \A v \in s.workers : StaffJob(s, v)'
    BY <1>0, <2>1, <2>2 DEF StaffJob
  <2> QED
    BY <1>0, <2>1, <2>2, <2>3 DEF StaffInv, StaffTypes, StaffJobs, OneEach
<1> QED
  BY <1>3, <1>4, <1>5, <1>7, <1>8, <1>9, StaffReads, StaffInvite
  DEF People!Next, People!Step, People!Invite, People!Members, People!CustomRoles

LEMMA PendingOthers ==
  ASSUME NEW s, NEW w \in s.workers, Pending(s),
         \A v \in s.workers : v # w => pc'[v] = pc[v] /\ job'[v] = job[v],
         pc[w] \notin {"mailing", "withdrawing"},
         People(s)!Standing \subseteq People(s)!Standing',
         \A e \in s.emails : users'[e].exists /\ ~users'[e].told =>
           users[e].exists /\ ~users[e].told
  PROVE  Pending(s)'
<1>1. ASSUME NEW e \in s.emails, users'[e].exists /\ ~users'[e].told
      PROVE  \E v \in s.workers :
               /\ pc'[v] \in {"mailing", "withdrawing"}
               /\ job'[v].member \in People(s)!Standing' /\ job'[v].email = e
  <2>1. PICK v \in s.workers :
          /\ pc[v] \in {"mailing", "withdrawing"}
          /\ job[v].member \in People(s)!Standing /\ job[v].email = e
    BY <1>1 DEF Pending
  <2> QED
    BY <2>1
<1> QED
  BY <1>1 DEF Pending

(* Who leaves, by a mail that failed or by being removed, leaves the others *)
(* with whoever sees to them.                                               *)
LEMMA PendingGone ==
  ASSUME NEW s, StaffAssumed(s), StaffInv(s), Pending(s), NEW w \in s.workers,
         pc[w] \in {"withdrawing", "removing"}, job[w].member \in People(s)!Standing,
         members' = [members EXCEPT ![job[w].member] = None],
         users' = [users EXCEPT ![job[w].email] = People(s)!NoUser],
         pc' = [pc EXCEPT ![w] = "idle"], job' = [job EXCEPT ![w] = None]
  PROVE  Pending(s)'
<1>0. PICK k, f : k = job[w].member /\ f = job[w].email
  OBVIOUS
<1>1. /\ f \in s.emails /\ k \in DOMAIN members /\ k \in People(s)!Standing
      /\ members[k].email = f
      /\ pc \in [s.workers -> StaffLabels] /\ job = [v \in s.workers |-> job[v]]
      /\ users \in [s.emails -> [exists : BOOLEAN, active : BOOLEAN, told : BOOLEAN]]
      /\ \A v \in s.workers : StaffJob(s, v)
  BY <1>0 DEF StaffInv, StaffTypes, StaffJobs, StaffJob
<1>2. members' = [members EXCEPT ![k] = None] /\ users' = [users EXCEPT ![f] = People(s)!NoUser]
  BY <1>0
<1>3. People(s)!Standing' = People(s)!Standing \ {k}
  BY <1>1, <1>2, OneMemberLess
<1>4. ASSUME NEW e \in s.emails, users'[e].exists /\ ~users'[e].told
      PROVE  \E v \in s.workers :
               /\ pc'[v] \in {"mailing", "withdrawing"}
               /\ job'[v].member \in People(s)!Standing' /\ job'[v].email = e
  <2>0. users'[f] = People(s)!NoUser /\ ~People(s)!NoUser.exists
    BY <1>1, <1>2 DEF People!NoUser
  <2>1. e # f
    BY <1>4, <2>0
  <2>2. users'[e] = users[e]
    BY <1>1, <1>2, <2>1
  <2>3. PICK v \in s.workers :
          /\ pc[v] \in {"mailing", "withdrawing"}
          /\ job[v].member \in People(s)!Standing /\ job[v].email = e
    BY <1>4, <2>2 DEF Pending
  <2>4. v # w /\ job[v].member # k
    BY <1>0, <1>1, <2>1, <2>3 DEF StaffJob
  <2> QED
    BY <1>1, <1>3, <2>3, <2>4
<1> QED
  BY <1>4 DEF Pending

LEMMA PendingStep ==
  ASSUME NEW s, StaffAssumed(s), StaffInv(s), Pending(s), People(s)!SteadyNext
  PROVE  Pending(s)'
<1> USE DEF People!Turn, People!Done, People!At, People!Idle, People!GiveUp, People!rowVars,
            People!requestVars
<1> DEFINE Account == [exists : BOOLEAN, active : BOOLEAN, told : BOOLEAN]
<1>0. /\ pc \in [s.workers -> StaffLabels] /\ job = [v \in s.workers |-> job[v]]
      /\ users \in [s.emails -> Account]
      /\ \A v \in s.workers : StaffJob(s, v)
  BY DEF StaffInv, StaffTypes, StaffJobs
(* A step of a request with no mail to see to, or that nobody needs.        *)
<1>1. ASSUME NEW w \in s.workers, pc[w] \notin {"mailing", "withdrawing"},
             NEW l, NEW j, pc' = [pc EXCEPT ![w] = l], job' = [job EXCEPT ![w] = j],
             UNCHANGED <<users, members>>
      PROVE  Pending(s)'
  <2>1. \A v \in s.workers : v # w => pc'[v] = pc[v] /\ job'[v] = job[v]
    BY <1>0, <1>1
  <2>2. People(s)!Standing' = People(s)!Standing
    BY <1>1 DEF People!Standing
  <2> QED
    BY <1>1, <2>1, <2>2, PendingOthers
<1>2. ASSUME NEW w \in s.workers,
             \/ \E o \in s.orgs, e \in s.emails, c \in s.roles \union {None}, base \in s.bases :
                  People(s)!InviteRead(w, o, e, c, base)
             \/ \E m \in DOMAIN members :
                  \/ \E c \in s.roles \union {None}, base \in s.bases :
                       People(s)!AssignRead(w, m, c, base)
                  \/ \E active \in BOOLEAN : People(s)!ActivateRead(w, m, active)
                  \/ People(s)!RemoveRead(w, m)
             \/ \E c \in s.roles :
                  \/ \E base \in s.bases : People(s)!RoleRead(w, c, base)
                  \/ People(s)!DeleteRoleRead(w, c)
             \/ People(s)!Refused(w) /\ People(s)!Abort(w)
      PROVE  Pending(s)'
  <2>1. /\ pc[w] \notin {"mailing", "withdrawing"} /\ UNCHANGED <<users, members>>
        /\ \E l, j : pc' = [pc EXCEPT ![w] = l] /\ job' = [job EXCEPT ![w] = j]
    BY <1>2 DEF People!InviteRead, People!AssignRead, People!ActivateRead, People!RemoveRead,
                People!RoleRead, People!DeleteRoleRead, People!Refused, People!Abort
  <2> QED
    BY <1>1, <2>1
<1>3. ASSUME NEW w \in s.workers, People(s)!InviteCommit(w)
      PROVE  Pending(s)'
  <2>1. PICK k : /\ members' = Append(members, k) /\ k \in People(s)!Membership
                 /\ users' = [users EXCEPT ![k.email] =
                                [exists |-> TRUE, active |-> TRUE, told |-> FALSE]]
                 /\ pc' = [pc EXCEPT ![w] = "mailing"] /\ pc[w] = "inviting"
                 /\ job' = [job EXCEPT ![w] = [member |-> Len(members) + 1, email |-> k.email]]
    BY <1>3, StaffInvite DEF People!InviteCommit
  <2>2. k.email \in s.emails
    BY <2>1 DEF People!Membership
  <2>3. People(s)!Standing' = People(s)!Standing \union {Len(members) + 1}
    BY <2>1, OneMemberMore DEF StaffInv
  <2>4. ASSUME NEW e \in s.emails, users'[e].exists /\ ~users'[e].told
        PROVE  \E v \in s.workers :
                 /\ pc'[v] \in {"mailing", "withdrawing"}
                 /\ job'[v].member \in People(s)!Standing' /\ job'[v].email = e
    <3>1. CASE e = k.email
      BY <1>0, <2>1, <2>3, <3>1
    <3>2. CASE e # k.email
      <4>1. users'[e] = users[e]
        BY <1>0, <2>1, <2>2, <3>2
      <4>2. PICK v \in s.workers :
              /\ pc[v] \in {"mailing", "withdrawing"}
              /\ job[v].member \in People(s)!Standing /\ job[v].email = e
        BY <2>4, <4>1 DEF Pending
      <4> QED
        BY <1>0, <2>1, <2>3, <4>2
    <3> QED
      BY <3>1, <3>2
  <2> QED
    BY <2>4 DEF Pending
<1>4. ASSUME NEW w \in s.workers, People(s)!MailInvitation(w)
      PROVE  Pending(s)'
  <2>1. PICK k, f : k = job[w].member /\ f = job[w].email
    OBVIOUS
  <2>2. /\ f \in s.emails
        /\ users' = [users EXCEPT ![f].told = @ \/ k \in People(s)!Standing]
        /\ pc' = [pc EXCEPT ![w] = "idle"] /\ job' = [job EXCEPT ![w] = None]
        /\ UNCHANGED members
    BY <1>0, <1>4, <2>1 DEF People!MailInvitation, StaffJob
  <2>3. People(s)!Standing' = People(s)!Standing
    BY <2>2 DEF People!Standing
  <2>4. ASSUME NEW e \in s.emails, users'[e].exists /\ ~users'[e].told
        PROVE  \E v \in s.workers :
                 /\ pc'[v] \in {"mailing", "withdrawing"}
                 /\ job'[v].member \in People(s)!Standing' /\ job'[v].email = e
    <3>1. users[e].exists /\ ~users[e].told /\ (e = f => k \notin People(s)!Standing)
      BY <1>0, <2>2, <2>4
    <3>2. PICK v \in s.workers :
            /\ pc[v] \in {"mailing", "withdrawing"}
            /\ job[v].member \in People(s)!Standing /\ job[v].email = e
      BY <3>1 DEF Pending
    <3>3. v # w
      BY <2>1, <3>1, <3>2
    <3> QED
      BY <1>0, <2>2, <2>3, <3>2, <3>3
  <2> QED
    BY <2>4 DEF Pending
<1>5. ASSUME NEW w \in s.workers, People(s)!MailFails(w)
      PROVE  Pending(s)'
  <2>1. /\ UNCHANGED <<users, members>> /\ pc' = [pc EXCEPT ![w] = "withdrawing"]
        /\ job' = [job EXCEPT ![w] = job[w]]
    BY <1>5 DEF People!MailFails
  <2>2. People(s)!Standing' = People(s)!Standing
    BY <2>1 DEF People!Standing
  <2>3. /\ job' = job
        /\ \A v \in s.workers : pc[v] \in {"mailing", "withdrawing"} =>
             pc'[v] \in {"mailing", "withdrawing"}
    BY <1>0, <2>1
  <2> QED
    BY <2>1, <2>2, <2>3 DEF Pending
<1>6. ASSUME NEW w \in s.workers, People(s)!Withdraw(w)
      PROVE  Pending(s)'
  <2>1. CASE job[w].member \in People(s)!Standing
    BY <1>6, <2>1, PendingGone DEF People!Withdraw, People!WithdrawnUsers
  <2>2. CASE job[w].member \notin People(s)!Standing
    <3>1. /\ UNCHANGED <<users, members>> /\ pc' = [pc EXCEPT ![w] = "idle"]
          /\ job' = [job EXCEPT ![w] = None]
      BY <1>6, <2>2 DEF People!Withdraw
    <3>2. People(s)!Standing' = People(s)!Standing
      BY <3>1 DEF People!Standing
    <3>3. \A v \in s.workers : job[v].member \in People(s)!Standing =>
            pc'[v] = pc[v] /\ job'[v] = job[v]
      BY <1>0, <2>2, <3>1
    <3> QED
      BY <3>1, <3>2, <3>3 DEF Pending
  <2> QED
    BY <2>1, <2>2
<1>7. ASSUME NEW w \in s.workers, People(s)!RemoveCommit(w)
      PROVE  Pending(s)'
  <2>1. pc[w] = "removing" /\ job[w].member \in People(s)!Standing
    BY <1>7 DEF People!RemoveCommit
  <2>2. People(s)!Of(job[w].email) = {job[w].member}
    BY <2>1, AccountGoes
  <2> QED
    BY <1>7, <2>1, <2>2, PendingGone DEF People!RemoveCommit
<1>8. ASSUME NEW w \in s.workers,
             People(s)!AssignCommit(w) \/ People(s)!RoleCommit(w) \/ People(s)!DeleteRoleCommit(w)
      PROVE  Pending(s)'
  <2>1. /\ pc' = [pc EXCEPT ![w] = "idle"] /\ job' = [job EXCEPT ![w] = None]
        /\ UNCHANGED users
        /\ DOMAIN members' = DOMAIN members
        /\ \A m \in DOMAIN members :
             IF members[m] = None THEN members'[m] = None
             ELSE /\ members'[m] \in People(s)!Membership
                  /\ members'[m].email = members[m].email
    BY <1>8, Reassigned
  <2>2. People(s)!Standing' = People(s)!Standing
    BY <2>1, SameMembers DEF StaffAssumed, People!StaffAssumption
  <2>3. \A v \in s.workers : v # w => pc'[v] = pc[v] /\ job'[v] = job[v]
    BY <1>0, <2>1
  <2>4. pc[w] \notin {"mailing", "withdrawing"}
    BY <1>8 DEF People!AssignCommit, People!RoleCommit, People!DeleteRoleCommit
  <2> QED
    BY <2>1, <2>2, <2>3, <2>4, PendingOthers
<1>9. ASSUME NEW w \in s.workers, People(s)!ActivateCommit(w)
      PROVE  Pending(s)'
  <2>1. /\ job[w].email \in s.emails /\ pc[w] = "activating"
        /\ users' = [users EXCEPT ![job[w].email].active = job[w].active]
        /\ pc' = [pc EXCEPT ![w] = "idle"] /\ job' = [job EXCEPT ![w] = None]
        /\ UNCHANGED members
    BY <1>0, <1>9 DEF People!ActivateCommit, StaffJob
  <2>2. People(s)!Standing' = People(s)!Standing
    BY <2>1 DEF People!Standing
  <2>3. \A e \in s.emails : users'[e].exists = users[e].exists /\ users'[e].told = users[e].told
    BY <1>0, <2>1
  <2>4. \A v \in s.workers : v # w => pc'[v] = pc[v] /\ job'[v] = job[v]
    BY <1>0, <2>1
  <2> QED
    BY <2>1, <2>2, <2>3, <2>4, PendingOthers
<1>10. ASSUME NEW c \in s.roles, NEW base \in s.bases, People(s)!CreateRole(c, base)
       PROVE  Pending(s)'
  <2>1. UNCHANGED <<users, members, pc, job>>
    BY <1>10 DEF People!CreateRole
  <2>2. People(s)!Standing' = People(s)!Standing
    BY <2>1 DEF People!Standing
  <2> QED
    BY <2>1, <2>2 DEF Pending
<1> QED
  BY <1>2, <1>3, <1>4, <1>5, <1>6, <1>7, <1>8, <1>9, <1>10
  DEF People!SteadyNext, People!Step, People!Invite, People!Members, People!CustomRoles

LEMMA RolesReadStep ==
  ASSUME NEW s, StaffAssumed(s), \A v, w \in s.workers : v = w,
         StaffInv(s), RolesRead(s), People(s)!Next
  PROVE  RolesRead(s)'
<1> USE DEF People!Turn, People!Done, People!At, People!Idle, People!GiveUp, People!rowVars,
            People!requestVars
<1> DEFINE Row == People(s)!Membership
           Agrees(m) == members[m].custom # None => members[m].role = roles[members[m].custom]
           Read(w) ==
             /\ pc[w] = "inviting" /\ job[w].custom # None => job[w].role = roles[job[w].custom]
             /\ pc[w] = "redefining" => job[w].was = roles[job[w].custom] /\ job[w].was # None
             /\ pc[w] = "deleting" => People(s)!Bearing(job[w].custom) = {}
<1>0. /\ pc \in [s.workers -> StaffLabels] /\ job = [v \in s.workers |-> job[v]]
      /\ members \in Seq(Row \union {None})
      /\ roles \in [s.roles -> s.bases \union {None}]
      /\ \A v \in s.workers : StaffJob(s, v)
      /\ \A m \in People(s)!Standing : Agrees(m)
      /\ \A v \in s.workers : Read(v)
  BY DEF StaffInv, StaffTypes, StaffJobs, RolesRead
<1>1. \A m \in People(s)!Standing : m \in DOMAIN members /\ members[m] \in Row
  <2>1. \A m \in DOMAIN members : members[m] \in Row \union {None}
    BY <1>0
  <2> QED
    BY <2>1 DEF People!Standing
<1>2. None \notin Row /\ None \notin s.roles /\ None \notin s.bases
  BY DEF StaffAssumed, People!StaffAssumption
<1>3. \A m \in People(s)!Standing :
        members[m].role \in s.bases /\ members[m].custom \in s.roles \union {None}
  BY <1>1 DEF People!Membership
<1>4. ASSUME \A m \in People(s)!Standing' : Agrees(m)', \A v \in s.workers : Read(v)'
      PROVE  RolesRead(s)'
  BY <1>4 DEF RolesRead
<1>5. ASSUME NEW w \in s.workers, UNCHANGED <<members, roles>>, Read(w)'
      PROVE  RolesRead(s)'
  <2>1. \A m \in People(s)!Standing' : Agrees(m)'
    BY <1>0, <1>5 DEF People!Standing
  <2>2. \A v \in s.workers : Read(v)'
    BY <1>5
  <2> HIDE DEF Agrees, Read
  <2> QED
    BY <1>4, <2>1, <2>2
<1>6. ASSUME NEW w \in s.workers, UNCHANGED <<members, roles>>,
             pc'[w] \notin {"inviting", "redefining", "deleting"}
      PROVE  RolesRead(s)'
  <2>1. Read(w)'
    BY <1>6
  <2> HIDE DEF Agrees, Read
  <2> QED
    BY <1>5, <1>6, <2>1
<1>7. ASSUME NEW w \in s.workers,
             \/ People(s)!MailInvitation(w) \/ People(s)!MailFails(w)
             \/ People(s)!ActivateCommit(w) \/ People(s)!Abort(w)
             \/ \E m \in DOMAIN members :
                  \/ \E c \in s.roles \union {None}, base \in s.bases :
                       People(s)!AssignRead(w, m, c, base)
                  \/ \E active \in BOOLEAN : People(s)!ActivateRead(w, m, active)
                  \/ People(s)!RemoveRead(w, m)
      PROVE  RolesRead(s)'
  <2>1. UNCHANGED <<members, roles>> /\ pc'[w] \notin {"inviting", "redefining", "deleting"}
    BY <1>0, <1>7 DEF People!MailInvitation, People!MailFails, People!ActivateCommit, People!Abort,
                      People!AssignRead, People!ActivateRead, People!RemoveRead
  <2> HIDE DEF Agrees, Read
  <2> QED
    BY <1>6, <2>1
<1>8. ASSUME NEW w \in s.workers, NEW o \in s.orgs, NEW e \in s.emails,
             NEW c \in s.roles \union {None}, NEW base \in s.bases,
             People(s)!InviteRead(w, o, e, c, base)
      PROVE  RolesRead(s)'
  <2>1. /\ UNCHANGED <<members, roles>> /\ pc'[w] = "inviting"
        /\ job'[w].custom = c /\ job'[w].role = IF c = None THEN base ELSE roles[c]
    BY <1>0, <1>8 DEF People!InviteRead
  <2>2. Read(w)'
    BY <2>1
  <2> HIDE DEF Agrees, Read
  <2> QED
    BY <1>5, <2>1, <2>2
<1>9. ASSUME NEW w \in s.workers, NEW c \in s.roles, NEW base \in s.bases,
             People(s)!RoleRead(w, c, base)
      PROVE  RolesRead(s)'
  <2>1. /\ UNCHANGED <<members, roles>> /\ pc'[w] = "redefining"
        /\ job'[w].custom = c /\ job'[w].was = roles[c] /\ roles[c] # None
    BY <1>0, <1>9 DEF People!RoleRead
  <2>2. Read(w)'
    BY <2>1
  <2> HIDE DEF Agrees, Read
  <2> QED
    BY <1>5, <2>1, <2>2
<1>10. ASSUME NEW w \in s.workers, NEW c \in s.roles, People(s)!DeleteRoleRead(w, c)
       PROVE  RolesRead(s)'
  <2>1. /\ UNCHANGED <<members, roles>> /\ pc'[w] = "deleting"
        /\ job'[w].custom = c /\ People(s)!Bearing(c) = {}
    BY <1>0, <1>10 DEF People!DeleteRoleRead, People!MayDelete
  <2>2. Read(w)'
    BY <2>1 DEF People!Bearing, People!Standing
  <2> HIDE DEF Agrees, Read
  <2> QED
    BY <1>5, <2>1, <2>2
(* The commits: the request is over, and the rows agree.                    *)
<1>11. ASSUME NEW w \in s.workers, pc'[w] \notin {"inviting", "redefining", "deleting"},
              \A m \in People(s)!Standing' : Agrees(m)'
       PROVE  RolesRead(s)'
  <2>1. \A v \in s.workers : Read(v)'
    BY <1>11
  <2> HIDE DEF Agrees, Read
  <2> QED
    BY <1>4, <1>11, <2>1
<1>12. ASSUME NEW w \in s.workers, People(s)!InviteCommit(w)
       PROVE  RolesRead(s)'
  <2>1. PICK k : /\ members' = Append(members, k) /\ k \in Row
                 /\ k.custom # None => k.role = roles[k.custom]
                 /\ pc'[w] = "mailing" /\ UNCHANGED roles
    BY <1>0, <1>12, StaffInvite DEF People!InviteCommit
  <2>2. /\ People(s)!Standing' = People(s)!Standing \union {Len(members) + 1}
        /\ \A m \in DOMAIN members : members'[m] = members[m]
        /\ members'[Len(members) + 1] = k
    BY <2>1, OneMemberMore DEF StaffInv
  <2>3. \A m \in People(s)!Standing' : Agrees(m)'
    BY <1>0, <1>1, <2>1, <2>2
  <2> HIDE DEF Agrees, Read
  <2> QED
    BY <1>11, <2>1, <2>3
<1>13. ASSUME NEW w \in s.workers, NEW k \in DOMAIN members,
              members' = [members EXCEPT ![k] = None], pc'[w] = "idle", UNCHANGED roles
       PROVE  RolesRead(s)'
  <2>1. People(s)!Standing' = People(s)!Standing \ {k}
    BY <1>13, OneMemberLess
  <2>2. \A m \in People(s)!Standing' : Agrees(m)'
    BY <1>0, <1>1, <1>13, <2>1
  <2> HIDE DEF Agrees, Read
  <2> QED
    BY <1>11, <1>13, <2>2
<1>14. ASSUME NEW w \in s.workers, People(s)!Withdraw(w) \/ People(s)!RemoveCommit(w)
       PROVE  RolesRead(s)'
  <2>1. pc'[w] = "idle" /\ UNCHANGED roles
    BY <1>0, <1>14 DEF People!Withdraw, People!RemoveCommit
  <2>2. CASE job[w].member \in People(s)!Standing
    <3>1. members' = [members EXCEPT ![job[w].member] = None]
      BY <1>14, <2>2 DEF People!Withdraw, People!RemoveCommit
    <3> HIDE DEF Agrees, Read
    <3> QED
      BY <1>1, <1>13, <2>1, <2>2, <3>1
  <2>3. CASE job[w].member \notin People(s)!Standing
    <3>1. UNCHANGED members
      BY <1>14, <2>3 DEF People!Withdraw, People!RemoveCommit
    <3> HIDE DEF Agrees, Read
    <3> QED
      BY <1>6, <2>1, <3>1
  <2> QED
    BY <2>2, <2>3
<1>15. ASSUME NEW w \in s.workers,
              People(s)!AssignCommit(w) \/ People(s)!RoleCommit(w) \/ People(s)!DeleteRoleCommit(w)
       PROVE  /\ pc'[w] = "idle" /\ People(s)!Standing' = People(s)!Standing
  <2>1. /\ pc' = [pc EXCEPT ![w] = "idle"]
        /\ DOMAIN members' = DOMAIN members
        /\ \A m \in DOMAIN members :
             IF members[m] = None THEN members'[m] = None
             ELSE /\ members'[m] \in Row
                  /\ members'[m].email = members[m].email
    BY <1>15, Reassigned
  <2> QED
    BY <1>0, <1>2, <2>1, SameMembers
<1>16. ASSUME NEW w \in s.workers, People(s)!AssignCommit(w)
       PROVE  RolesRead(s)'
  <2>1. PICK k, c, role :
          k = job[w].member /\ c = job[w].custom /\ role = People(s)!AssignedRole(job[w])
    OBVIOUS
  <2>2. /\ k \in People(s)!Standing /\ UNCHANGED roles
        /\ members' = [members EXCEPT ![k].role = role, ![k].custom = c]
        /\ c # None => role = roles[c]
    BY <1>16, <2>1 DEF People!AssignCommit, People!AssignedRole
  <2>3. members'[k].role = role /\ members'[k].custom = c
    BY <1>1, <2>2 DEF People!Membership
  <2>4. \A m \in People(s)!Standing : m # k => members'[m] = members[m]
    BY <1>1, <2>2
  <2>5. \A m \in People(s)!Standing' : Agrees(m)'
    BY <1>0, <1>15, <1>16, <2>2, <2>3, <2>4
  <2> HIDE DEF Agrees, Read
  <2> QED
    BY <1>11, <1>15, <1>16, <2>5
<1>17. ASSUME NEW w \in s.workers, People(s)!RoleCommit(w)
       PROVE  RolesRead(s)'
  <2>1. PICK c, role, B : c = job[w].custom /\ role = job[w].role /\ B = People(s)!Bearing(c)
    OBVIOUS
  <2>2. /\ c \in s.roles /\ B = {m \in People(s)!Standing : members[m].custom = c}
        /\ roles' = [roles EXCEPT ![c] = role]
        /\ \/ members' = [m \in DOMAIN members |->
                            IF m \in B THEN [members[m] EXCEPT !.role = role] ELSE members[m]]
           \/ members' = members /\ roles[c] = role
    BY <1>0, <1>17, <2>1 DEF People!RoleCommit, People!Rebased, People!Bearing, StaffJob
  <2> DEFINE rebased == [m \in DOMAIN members |->
                           IF m \in B THEN [members[m] EXCEPT !.role = role] ELSE members[m]]
  <2>3. ASSUME NEW m \in People(s)!Standing
        PROVE  Agrees(m)'
    <3>1. CASE members' = members /\ roles[c] = role
      BY <1>0, <1>3, <2>2, <3>1
    <3>2. CASE m \in B /\ members' = rebased
      <4>1. members'[m] = [members[m] EXCEPT !.role = role]
        BY <1>1, <2>2, <3>2
      <4>2. members'[m].role = role /\ members'[m].custom = c
        BY <1>1, <2>2, <3>2, <4>1 DEF People!Membership
      <4> QED
        BY <1>0, <2>2, <4>2
    <3>3. CASE m \notin B /\ members' = rebased
      <4>1. members'[m] = members[m] /\ members[m].custom # c
        BY <1>1, <2>2, <3>3
      <4> QED
        BY <1>0, <1>3, <2>2, <4>1
    <3> QED
      BY <2>2, <3>1, <3>2, <3>3
  <2> HIDE DEF Agrees, Read
  <2> QED
    BY <1>11, <1>15, <1>17, <2>3
<1>18. ASSUME NEW w \in s.workers, People(s)!DeleteRoleCommit(w)
       PROVE  RolesRead(s)'
  <2>1. PICK c, B : c = job[w].custom /\ B = People(s)!Bearing(c)
    OBVIOUS
  <2>2. /\ c \in s.roles /\ B = {m \in People(s)!Standing : members[m].custom = c}
        /\ roles' = [roles EXCEPT ![c] = None]
        /\ members' = [m \in DOMAIN members |->
                         IF m \in B THEN [members[m] EXCEPT !.custom = None] ELSE members[m]]
    BY <1>0, <1>18, <2>1 DEF People!DeleteRoleCommit, People!Bearing, StaffJob
  <2>3. ASSUME NEW m \in People(s)!Standing
        PROVE  Agrees(m)'
    <3>1. CASE m \in B
      <4>1. members'[m] = [members[m] EXCEPT !.custom = None]
        BY <1>1, <2>2, <3>1
      <4>2. members'[m].custom = None
        BY <1>1, <4>1 DEF People!Membership
      <4> QED
        BY <4>2
    <3>2. CASE m \notin B
      <4>1. members'[m] = members[m] /\ members[m].custom # c
        BY <1>1, <2>2, <3>2
      <4> QED
        BY <1>0, <1>3, <2>2, <4>1
    <3> QED
      BY <3>1, <3>2
  <2> HIDE DEF Agrees, Read
  <2> QED
    BY <1>11, <1>15, <1>18, <2>3
<1>19. ASSUME NEW c \in s.roles, NEW base \in s.bases, People(s)!CreateRole(c, base)
       PROVE  RolesRead(s)'
  <2>1. /\ UNCHANGED <<members, pc, job>> /\ roles[c] = None
        /\ roles' = [roles EXCEPT ![c] = base]
    BY <1>19 DEF People!CreateRole
  <2>2. ASSUME NEW m \in People(s)!Standing'
        PROVE  Agrees(m)'
    <3>1. m \in People(s)!Standing /\ members'[m] = members[m]
      BY <2>1 DEF People!Standing
    <3> QED
      BY <1>0, <1>2, <1>3, <2>1, <3>1
  <2>3. ASSUME NEW v \in s.workers
        PROVE  Read(v)'
    <3>1. People(s)!Bearing(job[v].custom)' = People(s)!Bearing(job[v].custom)
      BY <2>1 DEF People!Bearing, People!Standing
    <3>2. pc[v] = "inviting" /\ job[v].custom # None =>
            job[v].role \in s.bases /\ job[v].custom \in s.roles /\ job[v].custom # c
      BY <1>0, <1>2, <2>1 DEF StaffJob, People!Membership
    <3>3. pc[v] = "redefining" => job[v].custom \in s.roles /\ job[v].custom # c
      BY <1>0, <2>1 DEF StaffJob
    <3> QED
      BY <1>0, <2>1, <3>1, <3>2, <3>3
  <2> HIDE DEF Agrees, Read
  <2> QED
    BY <1>4, <2>2, <2>3
<1> QED
  BY <1>7, <1>8, <1>9, <1>10, <1>12, <1>14, <1>16, <1>17, <1>18, <1>19
  DEF People!Next, People!Step, People!Invite, People!Members, People!CustomRoles

--------------------------------------------------------------------------------
(* The scenes.  Every one has a module of its own: a step of MCOffice is a *)
(* step of the module whose scene it is.                                   *)

LEMMA SceneNames ==
  /\ DOMAIN SignScenes = {"sessions_serial", "sessions_races"}
  /\ DOMAIN RuleScenes = {"workflow_events", "workflow_counts", "workflow_serial"}
  /\ DOMAIN RemoveScenes = {"teardown"}
  /\ DOMAIN CodeScenes = {"deletion_serial", "deletion_races"}
  /\ DOMAIN StaffScenes = {"staff_races", "staff_invited", "roles_serial"}
  /\ DOMAIN SetupScenes = {"settings"}
  /\ DOMAIN PlaceScenes = {"locations"}
  BY DEF SignScenes, RuleScenes, RemoveScenes, CodeScenes, StaffScenes, SetupScenes, PlaceScenes

(* One request at a time, or two. *)
LEMMA SceneWorkers ==
  /\ None \notin One /\ None \notin Two
  /\ \A v, w \in One : v = w
  BY RequestsAssumption, OfficeAssumption

LEMMA CodeScene ==
  ASSUME NEW n \in DOMAIN CodeScenes
  PROVE  CodeAssumed(CodeScenes[n])
<1> DEFINE s == CodeScenes[n]
<1>1. n = "deletion_serial" \/ n = "deletion_races"
  BY SceneNames
<1>2. None \notin s.workers
  BY <1>1, SceneWorkers DEF CodeScenes
<1>3. s.wrong = 0 \/ \A v, w \in s.workers : v = w
  BY <1>1, SceneWorkers DEF CodeScenes
<1>4. Code(s)!DeletionCodeAssumption
  BY OfficeAssumption
<1> QED
  BY <1>2, <1>3, <1>4 DEF CodeAssumed

LEMMA CodeTurn ==
  ASSUME NEW n \in DOMAIN CodeScenes, scene = n, [Next]_vars
  PROVE  /\ scene' = n
         /\ Code(CodeScenes[n])!Next \/ UNCHANGED <<coding, org, requestVars>>
<1>1. CASE Next
  BY <1>1, SceneNames DEF Next
<1>2. CASE UNCHANGED vars
  BY <1>2 DEF vars
<1> QED
  BY <1>1, <1>2

CodesInv == \A n \in DOMAIN CodeScenes : scene = n => CodeInv(CodeScenes[n])

LEMMA CodeMeans ==
  ASSUME NEW s, CodeInv(s)
  PROVE  Code(s)!CodeThatCameCounts
  BY DEF CodeInv, CodeStands, Code!CodeThatCameCounts

(* A code that has come is accepted, in every interleaving if nobody enters *)
(* wrong ones, one request at a time if somebody does                       *)
(* (requestOrganizationDeletion, deleteOrganization): for any requests and  *)
(* any number of entries allowed.                                           *)
THEOREM CodeCounts ==
  ASSUME NEW s, CodeAssumed(s)
  PROVE  Code(s)!Spec => []Code(s)!CodeThatCameCounts
<1>1. Code(s)!Init => CodeInv(s)
  BY CodeInit
<1>2. CodeInv(s) /\ [Code(s)!Next]_(Code(s)!vars) => CodeInv(s)'
  <2>1. CASE Code(s)!Next
    BY <2>1, CodeStep
  <2>2. CASE UNCHANGED Code(s)!vars
    BY <2>2
    DEF CodeInv, CodeTypes, NotCome, CodeStands, Counts, Code!vars, Code!rowVars, Code!requestVars
  <2> QED
    BY <2>1, <2>2
<1>3. CodeInv(s) => Code(s)!CodeThatCameCounts
  BY CodeMeans
<1> QED
  BY <1>1, <1>2, <1>3, PTL DEF Code!Spec

(* The same in the scenes of MCOffice. *)
THEOREM CodesCount == Spec => []CodeThatCameCounts
<1>1. Init => CodesInv
  <2> SUFFICES ASSUME Init, NEW n \in DOMAIN CodeScenes, scene = n
               PROVE  CodeInv(CodeScenes[n])
    BY DEF CodesInv
  <2>1. Code(CodeScenes[n])!Init
    BY SceneNames DEF Init
  <2> QED
    BY <2>1, CodeScene, CodeInit
<1>2. CodesInv /\ [Next]_vars => CodesInv'
  <2> SUFFICES ASSUME CodesInv, [Next]_vars, NEW n \in DOMAIN CodeScenes, scene' = n
               PROVE  CodeInv(CodeScenes[n])'
    BY DEF CodesInv
  <2>1. scene = n
    BY DEF Next, vars
  <2>2. CodeInv(CodeScenes[n])
    BY <2>1 DEF CodesInv
  <2>3. CASE Code(CodeScenes[n])!Next
    BY <2>2, <2>3, CodeScene, CodeStep
  <2>4. CASE UNCHANGED <<coding, org, requestVars>>
    BY <2>2, <2>4 DEF CodeInv, CodeTypes, NotCome, CodeStands, Counts, coding, requestVars
  <2> QED
    BY <2>1, <2>3, <2>4, CodeTurn
<1>3. CodesInv => CodeThatCameCounts
  BY CodeMeans DEF CodesInv, CodeThatCameCounts
<1> QED
  BY <1>1, <1>2, <1>3, PTL DEF Spec

LEMMA SignScene ==
  ASSUME NEW n \in DOMAIN SignScenes
  PROVE  /\ SignAssumed(SignScenes[n])
         /\ n = "sessions_serial" => \A v, w \in SignScenes[n].workers : v = w
<1>1. CASE n = "sessions_serial"
  <2>1. SignScenes[n].workers = One /\ SignScenes[n].invited = TRUE
    BY <1>1 DEF SignScenes
  <2> QED
    BY <2>1, SceneWorkers DEF SignAssumed
<1>2. CASE n = "sessions_races"
  <2>1. SignScenes[n].workers = Two /\ SignScenes[n].invited = FALSE
    BY <1>2 DEF SignScenes
  <2> QED
    BY <1>2, <2>1, SceneWorkers DEF SignAssumed
<1> QED
  BY <1>1, <1>2, SceneNames

LEMMA SignTurn ==
  ASSUME NEW n \in DOMAIN SignScenes, scene = n, [Next]_vars
  PROVE  /\ scene' = n
         /\ Sign(SignScenes[n])!Next \/ UNCHANGED <<signing, requestVars>>
<1>1. CASE Next
  BY <1>1, SceneNames DEF Next
<1>2. CASE UNCHANGED vars
  BY <1>2 DEF vars
<1> QED
  BY <1>1, <1>2

LEMMA SignMeans ==
  ASSUME NEW s, SignInv(s)
  PROVE  /\ Sign(s)!OldSessionsEnd
         /\ OneLine(s) => Sign(s)!OneLivePerSignIn
<1>1. Sign(s)!OldSessionsEnd
  BY DEF SignInv, Outdated, Sign!OldSessionsEnd, Sign!Live
<1>2. OneLine(s) => Sign(s)!OneLivePerSignIn
  BY DEF OneLine, NoneLive, Sign!OneLivePerSignIn
<1> QED
  BY <1>1, <1>2

LEMMA SignStays ==
  ASSUME NEW s, UNCHANGED <<signing, requestVars>>
  PROVE  /\ SignInv(s) => SignInv(s)'
         /\ OneLine(s) => OneLine(s)'
<1> USE DEF signing, requestVars
<1>1. SignInv(s) => SignInv(s)'
  BY DEF SignInv, SignTypes, Outdated, Unregistered
<1>2. OneLine(s) => OneLine(s)'
  BY DEF OneLine, NoneLive, Sign!Live
<1> QED
  BY <1>1, <1>2

(* In every interleaving no session older than the last change of the       *)
(* password is live (changePassword against issueTokens): for any number of *)
(* requests, of sessions and of changes.                                    *)
THEOREM OldSessionsAreEnded ==
  ASSUME NEW s, SignAssumed(s)
  PROVE  Sign(s)!Spec => []Sign(s)!OldSessionsEnd
<1>1. Sign(s)!Init => SignInv(s)
  BY SignInit
<1>2. SignInv(s) /\ [Sign(s)!Next]_(Sign(s)!vars) => SignInv(s)'
  <2>1. CASE Sign(s)!Next
    BY <2>1, SignStep
  <2>2. CASE UNCHANGED Sign(s)!vars
    BY <2>2, SignStays DEF Sign!vars, Sign!rowVars, Sign!requestVars, signing, requestVars
  <2> QED
    BY <2>1, <2>2
<1>3. SignInv(s) => Sign(s)!OldSessionsEnd
  BY SignMeans
<1> QED
  BY <1>1, <1>2, <1>3, PTL DEF Sign!Spec

(* One request at a time, a sign-in has one live session (refresh).         *)
THEOREM OneSessionLives ==
  ASSUME NEW s, SignAssumed(s), \A v, w \in s.workers : v = w
  PROVE  Sign(s)!Spec => []Sign(s)!OneLivePerSignIn
<1>1. Sign(s)!Init => SignInv(s) /\ OneLine(s)
  BY SignInit
<1>2. SignInv(s) /\ OneLine(s) /\ [Sign(s)!Next]_(Sign(s)!vars) => SignInv(s)' /\ OneLine(s)'
  <2>1. CASE Sign(s)!Next
    BY <2>1, SignStep, OneLineStep
  <2>2. CASE UNCHANGED Sign(s)!vars
    BY <2>2, SignStays DEF Sign!vars, Sign!rowVars, Sign!requestVars, signing, requestVars
  <2> QED
    BY <2>1, <2>2
<1>3. SignInv(s) /\ OneLine(s) => Sign(s)!OneLivePerSignIn
  BY SignMeans
<1> QED
  BY <1>1, <1>2, <1>3, PTL DEF Sign!Spec

SignsInv ==
  \A n \in DOMAIN SignScenes : scene = n =>
    SignInv(SignScenes[n]) /\ (n = "sessions_serial" => OneLine(SignScenes[n]))

(* Both in the scenes of MCOffice. *)
THEOREM SessionsDoEnd == Spec => []SessionsEnd
<1>1. Init => SignsInv
  <2> SUFFICES ASSUME Init, NEW n \in DOMAIN SignScenes, scene = n
               PROVE  SignInv(SignScenes[n]) /\ OneLine(SignScenes[n])
    BY DEF SignsInv
  <2>1. Sign(SignScenes[n])!Init
    BY SceneNames DEF Init
  <2> QED
    BY <2>1, SignScene, SignInit
<1>2. SignsInv /\ [Next]_vars => SignsInv'
  <2> SUFFICES ASSUME SignsInv, [Next]_vars, NEW n \in DOMAIN SignScenes, scene' = n
               PROVE  SignInv(SignScenes[n])' /\ (n = "sessions_serial" => OneLine(SignScenes[n])')
    BY DEF SignsInv
  <2>1. scene = n
    BY DEF Next, vars
  <2>2. SignInv(SignScenes[n]) /\ (n = "sessions_serial" => OneLine(SignScenes[n]))
    BY <2>1 DEF SignsInv
  <2>3. CASE Sign(SignScenes[n])!Next
    BY <2>2, <2>3, SignScene, SignStep, OneLineStep
  <2>4. CASE UNCHANGED <<signing, requestVars>>
    BY <2>2, <2>4, SignStays
  <2> QED
    BY <2>1, <2>3, <2>4, SignTurn
<1>3. SignsInv => SessionsEnd
  BY SignMeans DEF SignsInv, SessionsEnd
<1> QED
  BY <1>1, <1>2, <1>3, PTL DEF Spec

LEMMA StaffScene ==
  ASSUME NEW n \in DOMAIN StaffScenes
  PROVE  /\ StaffAssumed(StaffScenes[n])
         /\ n = "roles_serial" => \A v, w \in StaffScenes[n].workers : v = w
<1>1. n = "staff_races" \/ n = "staff_invited" \/ n = "roles_serial"
  BY SceneNames
<1>2. People(StaffScenes[n])!StaffAssumption
  BY OfficeAssumption
<1>3. None \notin StaffScenes[n].workers
  BY <1>1, SceneWorkers DEF StaffScenes
<1>4. n = "roles_serial" => \A v, w \in StaffScenes[n].workers : v = w
  BY <1>1, SceneWorkers DEF StaffScenes
<1> QED
  BY <1>2, <1>3, <1>4 DEF StaffAssumed

LEMMA StaffTurn ==
  ASSUME NEW n \in DOMAIN StaffScenes, scene = n, [Next]_vars
  PROVE  /\ scene' = n
         /\ PeopleNext(StaffScenes[n]) \/ UNCHANGED <<staffing, requestVars>>
<1>1. CASE Next
  BY <1>1, SceneNames DEF Next
<1>2. CASE UNCHANGED vars
  BY <1>2 DEF vars
<1> QED
  BY <1>1, <1>2

(* The instance has a Cardinality of its own. *)
LEMMA StaffCardinality ==
  ASSUME NEW s, NEW S
  PROVE  People(s)!Cardinality(S) = Cardinality(S)
  BY Zenon DEF Cardinality, People!Cardinality

LEMMA StaffMeans ==
  ASSUME NEW s, StaffAssumed(s), StaffInv(s)
  PROVE  /\ People(s)!OneMembership
         /\ Pending(s) => People(s)!NoInaccessibleAccount
         /\ RolesRead(s) => People(s)!RoleIsBase
<1>1. ASSUME NEW e \in s.emails
      PROVE  Cardinality(People(s)!Of(e)) = IF users[e].exists THEN 1 ELSE 0
  <2>1. CASE users[e].exists
    <3>1. PICK m : People(s)!Of(e) = {m}
      BY <2>1 DEF StaffInv, OneEach
    <3> QED
      BY <2>1, <3>1, FS_Singleton
  <2>2. CASE ~users[e].exists
    <3>1. People(s)!Of(e) = {}
      BY <2>2 DEF StaffInv, OneEach
    <3> QED
      BY <2>2, <3>1, FS_EmptySet
  <2> QED
    BY <2>1, <2>2
<1>2. People(s)!OneMembership
  BY <1>1, StaffCardinality DEF People!OneMembership
<1>3. Pending(s) => People(s)!NoInaccessibleAccount
  BY DEF Pending, People!NoInaccessibleAccount, People!AllIdle, People!Idle
<1>4. RolesRead(s) => People(s)!RoleIsBase
  BY DEF RolesRead, People!RoleIsBase
<1> QED
  BY <1>2, <1>3, <1>4

LEMMA StaffStays ==
  ASSUME NEW s, UNCHANGED <<staffing, requestVars>>
  PROVE  /\ StaffInv(s) => StaffInv(s)'
         /\ Pending(s) => Pending(s)'
         /\ RolesRead(s) => RolesRead(s)'
<1>0. UNCHANGED <<users, members, roles, pc, job>>
  BY DEF staffing, requestVars
<1>1. People(s)!Standing' = People(s)!Standing
  BY <1>0 DEF People!Standing
<1>2. \A e \in s.emails : People(s)!Of(e)' = People(s)!Of(e)
  BY <1>0, <1>1 DEF People!Of
<1>3. StaffInv(s) => StaffInv(s)'
  <2>1. StaffTypes(s) => StaffTypes(s)'
    BY <1>0 DEF StaffTypes
  <2>2. StaffJobs(s) => StaffJobs(s)'
    BY <1>0, <1>1 DEF StaffJobs, StaffJob
  <2>3. OneEach(s) => OneEach(s)'
    BY <1>0, <1>2 DEF OneEach
  <2> QED
    BY <2>1, <2>2, <2>3 DEF StaffInv
<1>4. Pending(s) => Pending(s)'
  BY <1>0, <1>1 DEF Pending
<1>5. RolesRead(s) => RolesRead(s)'
  BY <1>0, <1>1 DEF RolesRead, People!Bearing
<1> QED
  BY <1>3, <1>4, <1>5

(* In every interleaving an account has one membership exactly, whoever is  *)
(* invited, removed or deactivated meanwhile (inviteUser, deleteUser,       *)
(* updateUser): for any number of requests, organizations, addresses and    *)
(* roles.                                                                   *)
THEOREM OneMembershipEach ==
  ASSUME NEW s, StaffAssumed(s)
  PROVE  People(s)!Spec => []People(s)!OneMembership
<1>1. People(s)!Init => StaffInv(s)
  BY StaffInit
<1>2. StaffInv(s) /\ [People(s)!Next]_(People(s)!vars) => StaffInv(s)'
  <2>1. CASE People(s)!Next
    BY <2>1, StaffStep
  <2>2. CASE UNCHANGED People(s)!vars
    BY <2>2, StaffStays DEF People!vars, People!rowVars, People!requestVars, staffing, requestVars
  <2> QED
    BY <2>1, <2>2
<1>3. StaffInv(s) => People(s)!OneMembership
  BY StaffMeans
<1> QED
  BY <1>1, <1>2, <1>3, PTL DEF People!Spec

(* One request at a time, a member has the base role of its custom role     *)
(* (inviteUser, updateUser, updateRole, deleteRole).                        *)
THEOREM RolesAreBases ==
  ASSUME NEW s, StaffAssumed(s), \A v, w \in s.workers : v = w
  PROVE  People(s)!Spec => []People(s)!RoleIsBase
<1>1. People(s)!Init => StaffInv(s) /\ RolesRead(s)
  BY StaffInit
<1>2. StaffInv(s) /\ RolesRead(s) /\ [People(s)!Next]_(People(s)!vars)
        => StaffInv(s)' /\ RolesRead(s)'
  <2>1. CASE People(s)!Next
    BY <2>1, StaffStep, RolesReadStep
  <2>2. CASE UNCHANGED People(s)!vars
    BY <2>2, StaffStays DEF People!vars, People!rowVars, People!requestVars, staffing, requestVars
  <2> QED
    BY <2>1, <2>2
<1>3. StaffInv(s) /\ RolesRead(s) => People(s)!RoleIsBase
  BY StaffMeans
<1> QED
  BY <1>1, <1>2, <1>3, PTL DEF People!Spec

StaffsInv ==
  \A n \in DOMAIN StaffScenes : scene = n =>
    /\ StaffInv(StaffScenes[n])
    /\ n = "staff_invited" => Pending(StaffScenes[n])
    /\ n = "roles_serial" => RolesRead(StaffScenes[n])

(* A step without a crash is one of those the module may take.              *)
LEMMA SteadyIsNext ==
  ASSUME NEW s, PeopleNext(s)
  PROVE  People(s)!Next /\ (s.steady => People(s)!SteadyNext)
  BY DEF PeopleNext, People!SteadyNext, People!Next

LEMMA StaffsStart == Init => StaffsInv
<1> SUFFICES ASSUME Init, NEW n \in DOMAIN StaffScenes, scene = n
             PROVE  /\ StaffInv(StaffScenes[n])
                    /\ Pending(StaffScenes[n])
                    /\ RolesRead(StaffScenes[n])
  BY DEF StaffsInv
<1>1. People(StaffScenes[n])!Init
  BY SceneNames DEF Init
<1> QED
  BY <1>1, StaffScene, StaffInit

LEMMA StaffsStep == StaffsInv /\ [Next]_vars => StaffsInv'
<1> SUFFICES ASSUME StaffsInv, [Next]_vars, NEW n \in DOMAIN StaffScenes, scene' = n
             PROVE  /\ StaffInv(StaffScenes[n])'
                    /\ n = "staff_invited" => Pending(StaffScenes[n])'
                    /\ n = "roles_serial" => RolesRead(StaffScenes[n])'
  BY DEF StaffsInv
<1>1. scene = n
  BY DEF Next, vars
<1>2. /\ StaffInv(StaffScenes[n])
      /\ n = "staff_invited" => Pending(StaffScenes[n])
      /\ n = "roles_serial" => RolesRead(StaffScenes[n])
  BY <1>1 DEF StaffsInv
<1>3. CASE PeopleNext(StaffScenes[n])
  <2>1. People(StaffScenes[n])!Next
    BY <1>3, SteadyIsNext
  <2>2. n = "staff_invited" => People(StaffScenes[n])!SteadyNext
    BY <1>3, SteadyIsNext DEF StaffScenes
  <2> QED
    BY <1>2, <2>1, <2>2, StaffScene, StaffStep, PendingStep, RolesReadStep
<1>4. CASE UNCHANGED <<staffing, requestVars>>
  BY <1>2, <1>4, StaffStays
<1> QED
  BY <1>1, <1>3, <1>4, StaffTurn

(* Both in the scenes of MCOffice; and, where no request is cut off,        *)
(* everyone with an account has been sent its password once invitations are *)
(* over.                                                                    *)
THEOREM StaffIsKept == Spec => []StaffKept
<1>1. StaffsInv => StaffKept
  BY StaffScene, StaffMeans DEF StaffsInv, StaffKept
<1> QED
  BY <1>1, StaffsStart, StaffsStep, PTL DEF Spec

(* One request at a time, a custom role that somebody bears is not deleted  *)
(* (deleteRole).                                                            *)
LEMMA RoleDeletion ==
  ASSUME NEW s, StaffAssumed(s), \A v, w \in s.workers : v = w,
         StaffInv(s), RolesRead(s), People(s)!Next
  PROVE  People(s)!RoleDeletedUnborne
<1> USE DEF People!At, People!Idle, People!Turn, People!Done, People!GiveUp
<1> DEFINE Kept == \A c \in s.roles : roles[c] # None => roles'[c] # None
<1>0. /\ roles \in [s.roles -> s.bases \union {None}]
      /\ None \notin s.bases
      /\ \A w \in s.workers : StaffJob(s, w)
  BY DEF StaffInv, StaffTypes, StaffJobs, StaffAssumed, People!StaffAssumption
<1>1. ASSUME Kept
      PROVE  People(s)!RoleDeletedUnborne
  BY <1>1 DEF People!RoleDeletedUnborne
<1>2. ASSUME NEW w \in s.workers, People(s)!Invite(w)
      PROVE  UNCHANGED roles
  BY <1>2 DEF People!Invite, People!InviteRead, People!InviteCommit, People!MailInvitation,
              People!MailFails, People!Withdraw, People!rowVars
<1>3. ASSUME NEW w \in s.workers, People(s)!Members(w) \/ People(s)!Abort(w)
      PROVE  UNCHANGED roles
  BY <1>3 DEF People!Members, People!AssignRead, People!AssignCommit, People!ActivateRead,
              People!ActivateCommit, People!RemoveRead, People!RemoveCommit, People!Abort, People!rowVars
<1>4. ASSUME NEW w \in s.workers, People(s)!CustomRoles(w)
      PROVE  People(s)!RoleDeletedUnborne
  <2>1. CASE \E c \in s.roles : \E base \in s.bases : People(s)!CreateRole(c, base)
    <3>1. Kept
      BY <1>0, <2>1 DEF People!CreateRole
    <3> QED
      BY <1>1, <3>1
  <2>2. CASE \E c \in s.roles : \/ \E base \in s.bases : People(s)!RoleRead(w, c, base)
                                \/ People(s)!DeleteRoleRead(w, c)
    <3>1. UNCHANGED roles
      BY <2>2 DEF People!RoleRead, People!DeleteRoleRead, People!rowVars
    <3> QED
      BY <1>1, <3>1
  <2>3. CASE People(s)!RoleCommit(w)
    <3>1. PICK c, role : c = job[w].custom /\ role = job[w].role
      OBVIOUS
    <3>2. role \in s.bases /\ roles' = [roles EXCEPT ![c] = role]
      BY <1>0, <2>3, <3>1 DEF People!RoleCommit, StaffJob
    <3>3. Kept
      BY <1>0, <3>2
    <3> QED
      BY <1>1, <3>3
  <2>4. CASE People(s)!DeleteRoleCommit(w)
    <3>1. PICK c : c = job[w].custom
      OBVIOUS
    <3>2. /\ roles' = [roles EXCEPT ![c] = None]
          /\ People(s)!Bearing(c) = {}
      BY <2>4, <3>1 DEF People!DeleteRoleCommit, RolesRead
    <3>3. \A d \in s.roles : roles[d] # None /\ roles'[d] = None => d = c
      BY <1>0, <3>2
    <3> QED
      BY <3>2, <3>3 DEF People!RoleDeletedUnborne
  <2> QED
    BY <1>4, <2>1, <2>2, <2>3, <2>4 DEF People!CustomRoles
<1> QED
  BY <1>1, <1>2, <1>3, <1>4 DEF People!Next, People!Step

--------------------------------------------------------------------------------
(* Settings.  One request at a time, the document is as it was read.        *)

SetupAssumed(s) == \A v, w \in s.workers : v = w

SetupInv(s) ==
  /\ pc \in [s.workers -> {"idle", "saving", "completing", "updating"}]
  /\ job = [w \in s.workers |-> job[w]]
  /\ DOMAIN org = {"currency", "step", "completed"}
  /\ org.completed => Setup(s)!Steps \subseteq DOMAIN data
  /\ \A w \in s.workers :
       /\ pc[w] = "saving" => job[w].read = data
       /\ pc[w] = "completing" => Setup(s)!Steps \subseteq DOMAIN data

LEMMA SetupInit ==
  ASSUME NEW s, Setup(s)!Init
  PROVE  SetupInv(s)
  BY DEF Setup!Init, Setup!NoRequests, SetupInv

LEMMA SetupStep ==
  ASSUME NEW s, SetupAssumed(s), SetupInv(s), Setup(s)!Next
  PROVE  SetupInv(s)' /\ Setup(s)!PartsKept
<1> USE DEF Setup!Turn, Setup!Done, Setup!At, Setup!Idle, Setup!GiveUp, Setup!rowVars,
            Setup!PartsKept, SetupAssumed
<1>1. ASSUME NEW w \in s.workers, NEW part, NEW value, Setup(s)!SaveRead(w, part, value)
      PROVE  SetupInv(s)' /\ Setup(s)!PartsKept
  BY <1>1 DEF SetupInv, Setup!SaveRead
<1>2. ASSUME NEW w \in s.workers, Setup(s)!CompleteRead(w) \/ Setup(s)!UpdateRead(w)
      PROVE  SetupInv(s)' /\ Setup(s)!PartsKept
  BY <1>2 DEF SetupInv, Setup!CompleteRead, Setup!UpdateRead, Setup!Missing
<1>3. ASSUME NEW w \in s.workers, Setup(s)!Abort(w)
      PROVE  SetupInv(s)' /\ Setup(s)!PartsKept
  BY <1>3 DEF SetupInv, Setup!Abort
<1>4. ASSUME NEW w \in s.workers, Setup(s)!StepCommit(w) \/ Setup(s)!SectionCommit(w)
      PROVE  SetupInv(s)' /\ Setup(s)!PartsKept
  <2>1. /\ pc' = [pc EXCEPT ![w] = "idle"] /\ job' = [job EXCEPT ![w] = None]
        /\ DOMAIN org' = DOMAIN org /\ org'.completed = org.completed
    BY <1>4 DEF SetupInv, Setup!StepCommit, Setup!SectionCommit
  <2>2. DOMAIN data' = {job[w].part} \union DOMAIN data
    BY <1>4 DEF SetupInv, Setup!StepCommit, Setup!SectionCommit, Setup!With
  <2> QED
    BY <2>1, <2>2 DEF SetupInv
<1>5. ASSUME NEW w \in s.workers, Setup(s)!CompleteCommit(w) \/ Setup(s)!UpdateCommit(w)
      PROVE  SetupInv(s)' /\ Setup(s)!PartsKept
  <2>1. /\ pc' = [pc EXCEPT ![w] = "idle"] /\ job' = [job EXCEPT ![w] = None]
        /\ DOMAIN org' = DOMAIN org /\ UNCHANGED data
        /\ pc[w] = "completing" \/ org'.completed = org.completed
    BY <1>5 DEF SetupInv, Setup!CompleteCommit, Setup!UpdateCommit
  <2> QED
    BY <2>1 DEF SetupInv
<1> QED
  BY <1>1, <1>2, <1>3, <1>4, <1>5 DEF Setup!Next

--------------------------------------------------------------------------------
(* Locations.  What is stored was accepted. *)

PlaceInv(s) ==
  \/ hierarchy = Place(s)!Empty
  \/ hierarchy \in Place(s)!Submissions /\ Place(s)!Valid(hierarchy)

(* A list whose values number as many as its places has none of them twice. *)
LEMMA AllDifferent ==
  ASSUME NEW n \in Nat, NEW f, DOMAIN f = 1..n, Cardinality({f[i] : i \in 1..n}) = n
  PROVE  \A i, j \in 1..n : f[i] = f[j] => i = j
<1> DEFINE T == {f[i] : i \in 1..n}
           g == [i \in 1..n |-> f[i]]
<1>1. g \in Surjection(1..n, T)
  BY DEF Surjection
<1>2. IsFiniteSet(1..n) /\ Cardinality(1..n) = n
  BY FS_Interval
<1> HIDE DEF g
<1>3. g \in Injection(1..n, T)
  BY <1>1, <1>2, FS_Surjection
<1>4. \A i, j \in 1..n : g[i] = g[j] => i = j
  BY <1>3 DEF Injection, IsInjective
<1> USE DEF g
<1> QED
  BY <1>4

(* The instance has a Cardinality of its own. *)
LEMMA PlaceCardinality ==
  ASSUME NEW s, NEW S
  PROVE  Place(s)!Cardinality(S) = Cardinality(S)
  BY Zenon DEF Cardinality, Place!Cardinality

LEMMA Listed ==
  ASSUME NEW s, NEW S, NEW list \in Place(s)!Lists(S), s.most \in Nat
  PROVE  \E n \in Nat : list \in [1..n -> S]
  BY DEF Place!Lists

LEMMA DifferentIds ==
  ASSUME NEW s, NEW n \in Nat, NEW S, NEW list \in [1..n -> S],
         Place(s)!Distinct(Place(s)!IdsOf(list))
  PROVE  \A a, b \in Place(s)!Entries(list) : a.id = b.id => a = b
<1> DEFINE f == [i \in 1..n |-> list[i].id]
<1>1. Place(s)!IdsOf(list) = f
  BY DEF Place!IdsOf
<1>2. Cardinality({f[i] : i \in 1..n}) = Len(f)
  BY <1>1, PlaceCardinality DEF Place!Distinct, Place!Entries
<1>3. DOMAIN f = 1..n /\ Len(f) = n
  OBVIOUS
<1> HIDE DEF f
<1>4. \A i, j \in 1..n : f[i] = f[j] => i = j
  BY <1>2, <1>3, AllDifferent
<1> USE DEF f
<1>5. \A i, j \in 1..n : list[i].id = list[j].id => list[i] = list[j]
  BY <1>4
<1> QED
  BY <1>5 DEF Place!Entries

(* Every branch hangs from one state: it is under a region that is one of a *)
(* state, or under the state itself.                                        *)
LEMMA OneStateEach ==
  ASSUME NEW s, s.most \in Nat, PlaceInv(s), Place(s)!Hierarchical(hierarchy),
         NEW b \in Place(s)!Entries(hierarchy.branches)
  PROVE  \E t : {u \in Place(s)!StateIds : b.regionId \in Place(s)!RegionIds("state", u)} = {t}
<1>1. hierarchy \in Place(s)!Submissions /\ Place(s)!Valid(hierarchy)
  BY DEF PlaceInv, Place!Hierarchical, Place!Empty
<1>2. /\ hierarchy.levels \in {2, 3}
      /\ hierarchy.regions \in Place(s)!Lists([id : s.ids, stateId : s.ids])
  BY <1>1 DEF Place!Submissions
<1>3. /\ Place(s)!Distinct(Place(s)!IdsOf(hierarchy.regions))
      /\ hierarchy.levels = 3 =>
           \A r \in Place(s)!Entries(hierarchy.regions) : r.stateId \in Place(s)!StateIds
      /\ b.regionId \in Place(s)!ParentIds(hierarchy)
  BY <1>1 DEF Place!Valid, Place!StateIds
<1>4. CASE hierarchy.levels = 2
  <2>1. b.regionId \in Place(s)!StateIds
    BY <1>3, <1>4 DEF Place!ParentIds, Place!StateIds
  <2>2. \A u : Place(s)!RegionIds("state", u) = {u}
    BY <1>4 DEF Place!RegionIds
  <2>3. {u \in Place(s)!StateIds : b.regionId \in Place(s)!RegionIds("state", u)} = {b.regionId}
    BY <2>1, <2>2
  <2> QED
    BY <2>3
<1>5. CASE hierarchy.levels = 3
  <2>1. PICK r \in Place(s)!Entries(hierarchy.regions) : r.id = b.regionId
    BY <1>3, <1>5 DEF Place!ParentIds, Place!IdsOf, Place!Entries
  <2>2. \A a \in Place(s)!Entries(hierarchy.regions) : a.id = r.id => a = r
    <3>0. PICK S, list : S = [id : s.ids, stateId : s.ids] /\ list = hierarchy.regions
      OBVIOUS
    <3>1. list \in Place(s)!Lists(S) /\ Place(s)!Distinct(Place(s)!IdsOf(list))
      BY <1>2, <1>3, <3>0
    <3>2. PICK n \in Nat : list \in [1..n -> S]
      BY <3>1, Listed
    <3>3. \A a, c \in Place(s)!Entries(list) : a.id = c.id => a = c
      BY <3>1, <3>2, DifferentIds
    <3> QED
      BY <3>0, <3>3
  <2>3. \A u : b.regionId \in Place(s)!RegionIds("state", u) <=> u = r.stateId
    BY <1>5, <2>1, <2>2 DEF Place!RegionIds
  <2>4. {u \in Place(s)!StateIds : b.regionId \in Place(s)!RegionIds("state", u)} = {r.stateId}
    BY <1>3, <1>5, <2>1, <2>3
  <2> QED
    BY <2>4
<1> QED
  BY <1>2, <1>4, <1>5

(* A branch that shares its id with no other shows under the states it      *)
(* hangs from.                                                              *)
LEMMA ShownWhereItHangs ==
  ASSUME NEW s, NEW b \in Place(s)!Entries(hierarchy.branches),
         \A c \in Place(s)!Entries(hierarchy.branches) : c.id = b.id => c = b, NEW u
  PROVE  b.id \in Place(s)!BranchIds("state", u) <=> b.regionId \in Place(s)!RegionIds("state", u)
  BY DEF Place!BranchIds

(* In an accepted hierarchy every branch hangs from one state and no other, *)
(* and shows under that one unless another has its id (validateSection      *)
(* against locationActivity): whatever the ids and however many entries.    *)
LEMMA PlaceMeans ==
  ASSUME NEW s, s.most \in Nat, PlaceInv(s)
  PROVE  Place(s)!EveryBranchUnderOneState
<1>1. ASSUME Place(s)!Hierarchical(hierarchy), NEW b \in Place(s)!Entries(hierarchy.branches)
      PROVE  /\ Place(s)!Cardinality({u \in Place(s)!StateIds :
                   b.regionId \in Place(s)!RegionIds("state", u)}) = 1
             /\ (\A c \in Place(s)!Entries(hierarchy.branches) : c.id = b.id => c = b) =>
                  Place(s)!Cardinality({u \in Place(s)!StateIds :
                    b.id \in Place(s)!BranchIds("state", u)}) = 1
  <2>1. PICK t : {u \in Place(s)!StateIds : b.regionId \in Place(s)!RegionIds("state", u)} = {t}
    BY <1>1, OneStateEach
  <2>2. ASSUME \A c \in Place(s)!Entries(hierarchy.branches) : c.id = b.id => c = b
        PROVE  {u \in Place(s)!StateIds : b.id \in Place(s)!BranchIds("state", u)} = {t}
    BY <1>1, <2>1, <2>2, ShownWhereItHangs
  <2>3. Place(s)!Cardinality({t}) = 1
    BY FS_Singleton, PlaceCardinality
  <2> QED
    BY <2>1, <2>2, <2>3
<1> QED
  BY <1>1 DEF Place!EveryBranchUnderOneState

LEMMA PlaceStep ==
  ASSUME NEW s, Place(s)!Next
  PROVE  PlaceInv(s)'
  BY DEF Place!Next, Place!UpdateSection, PlaceInv

--------------------------------------------------------------------------------
(* Teardown.  An organization is removed table after table, a table after   *)
(* those that refer to it; only its commerce channels are in the way.  What *)
(* is left are the tables whose turn is yet to come, unless rows were added *)
(* meanwhile; those are in the way of the row of the organization itself,   *)
(* without which none can be added.                                         *)

RemoveAssumed(s) == s.plans = {"organization"} /\ "CommerceChannel" \in s.without

Coming(s, n) == {Remove(s)!OrganizationPlan[i] : i \in n..29}

RemoveInv(s) ==
  /\ plan = "organization" /\ next \in 1..30
  /\ status \in {"running", "done", "refused"}
  /\ rows \subseteq Remove(s)!AllTables \ {"CommerceChannel"}
  /\ next <= 28 /\ late = {} => rows \subseteq Coming(s, next) \union {"Membership"}
  /\ next = 29 => rows \subseteq {"User"}
  /\ next = 30 => rows = {}
  /\ status = "refused" => late # {}
  /\ status = "done" => next = 30

LEMMA RemoveInit ==
  ASSUME NEW s, RemoveAssumed(s), Remove(s)!Init
  PROVE  RemoveInv(s)
<1> DEFINE All == Remove(s)!AllTables \ {"CommerceChannel"}
<1>1. /\ {"Organization", "Membership", "User"} \subseteq All
      /\ \A t \in Remove(s)!AllTables : Remove(s)!Parents[t] \subseteq All
  BY DEF Remove!AllTables, Remove!Parents
<1>2. Remove(s)!Tables \subseteq All
  BY DEF RemoveAssumed, Remove!Tables
<1>3. ASSUME NEW S, S \subseteq All
      PROVE  Remove(s)!WithParents(S) \subseteq All
  <2> HIDE DEF All
  <2>1. All \subseteq Remove(s)!AllTables
    BY DEF All
  <2>2. ASSUME NEW T, T \subseteq All
        PROVE  T \union UNION {Remove(s)!Parents[t] : t \in T} \subseteq All
    BY <1>1, <2>1, <2>2
  <2> QED
    BY <1>1, <1>3, <2>2 DEF Remove!WithParents
<1>4. rows \subseteq All
  <2>1. \A t, u \in Remove(s)!Tables : {t, u} \subseteq All
    BY <1>2
  <2> HIDE DEF All
  <2> QED
    BY <1>2, <1>3, <2>1 DEF Remove!Init
<1>5. Remove(s)!AllTables \ {"CommerceChannel"} \subseteq Coming(s, 1) \union {"Membership"}
  BY DEF Remove!AllTables, Remove!Parents, Coming, Remove!OrganizationPlan
<1> QED
  BY <1>4, <1>5 DEF RemoveInv, Remove!Init, RemoveAssumed

(* No table refers to one whose turn came before its own.                   *)
LEMMA ChildrenFirst ==
  ASSUME NEW s, NEW n \in 1..27, NEW c \in Coming(s, n) \union {"Membership"}
  PROVE  Remove(s)!OrganizationPlan[n] \notin Remove(s)!Parents[c]
<1>1. CASE c = "Membership"
  BY <1>1 DEF Remove!Parents
<1>2. ASSUME NEW i \in n..29
      PROVE  Remove(s)!OrganizationPlan[n] \notin Remove(s)!Parents[Remove(s)!OrganizationPlan[i]]
  BY <1>2 DEF Remove!Parents, Remove!OrganizationPlan
<1> QED
  BY <1>1, <1>2 DEF Coming

LEMMA RemoveStep ==
  ASSUME NEW s, RemoveAssumed(s), RemoveInv(s), Remove(s)!Next
  PROVE  RemoveInv(s)'
<1> DEFINE All == Remove(s)!AllTables \ {"CommerceChannel"}
           Row(n) == Remove(s)!OrganizationPlan[n]
<1>0. /\ plan = "organization" /\ next \in 1..30 /\ status \in {"running", "done", "refused"}
      /\ rows \subseteq All
      /\ next <= 28 /\ late = {} => rows \subseteq Coming(s, next) \union {"Membership"}
      /\ next = 29 => rows \subseteq {"User"}
      /\ next = 30 => rows = {}
  BY DEF RemoveInv
<1>1. /\ Remove(s)!Steps = Remove(s)!OrganizationPlan
      /\ Len(Remove(s)!OrganizationPlan) = 29
      /\ Row(28) = "Organization" /\ Row(29) = "User"
      /\ \A n \in 1..27 : Row(n) \notin {"Organization", "User"}
  BY <1>0 DEF Remove!Steps, Remove!OrganizationPlan
<1>2. \A n \in 1..29 : Coming(s, n) \ {Row(n)} \subseteq Coming(s, n + 1)
  BY DEF Coming
<1>3. \A n \in 1..27 :
        Remove(s)!RestrictedBy(Row(n)) = {c \in Remove(s)!AllTables : Row(n) \in Remove(s)!Parents[c]}
  BY <1>1 DEF Remove!RestrictedBy
<1>4. /\ Remove(s)!RestrictedBy("Organization") \subseteq Remove(s)!AllTables
      /\ All \ Remove(s)!RestrictedBy("Organization") \subseteq {"Organization", "User", "Membership"}
      /\ Remove(s)!RestrictedBy("Organization") \intersect (Coming(s, 28) \union {"Membership"}) = {}
  BY DEF Remove!RestrictedBy, Remove!Cascades, Coming, Remove!OrganizationPlan
<1>5. "User" \notin Remove(s)!RestrictedBy("User")
  BY DEF Remove!RestrictedBy, Remove!Parents
<1>6. /\ \A t : t \in Remove(s)!Belonging(t)
      /\ Remove(s)!Belonging("Organization") = {"Organization", "CommerceChannel", "Membership"}
  BY DEF Remove!Belonging, Remove!Cascades
<1> HIDE DEF Row, All
<1>7. CASE Remove(s)!Delete
  <2>1. /\ status = "running" /\ next \in 1..29
        /\ Remove(s)!RestrictedBy(Row(next)) \intersect rows = {}
        /\ rows' = rows \ Remove(s)!Belonging(Row(next)) /\ next' = next + 1
        /\ UNCHANGED <<plan, status, late>>
    BY <1>0, <1>1, <1>7 DEF Remove!Delete, Row
  <2>2. rows' \subseteq All
    BY <1>0, <2>1
  <2>3. next' <= 28 /\ late' = {} => rows' \subseteq Coming(s, next') \union {"Membership"}
    BY <1>0, <1>2, <1>6, <2>1
  <2>4. next' = 29 => rows' \subseteq {"User"}
    BY <1>0, <1>1, <1>4, <1>6, <2>1
  <2>5. next' = 30 => rows' = {}
    BY <1>0, <1>1, <1>6, <2>1
  <2> QED
    BY <1>0, <2>1, <2>2, <2>3, <2>4, <2>5 DEF RemoveInv, Coming, All
<1>8. CASE Remove(s)!Refuse
  <2>1. /\ status = "running" /\ next \in 1..29
        /\ Remove(s)!RestrictedBy(Row(next)) \intersect rows # {}
        /\ status' = "refused" /\ UNCHANGED <<rows, plan, next, late>>
    BY <1>0, <1>1, <1>8 DEF Remove!Refuse, Row
  <2>2. late # {}
    <3>1. CASE next \in 1..27 /\ late = {}
      <4>1. \A c \in rows : Row(next) \notin Remove(s)!Parents[c]
        BY <1>0, <3>1, ChildrenFirst DEF Row
      <4> QED
        BY <1>3, <2>1, <3>1, <4>1
    <3>2. CASE next = 28 /\ late = {}
      BY <1>0, <1>1, <1>4, <2>1, <3>2
    <3>3. CASE next = 29
      BY <1>0, <1>1, <1>5, <2>1, <3>3
    <3> QED
      BY <2>1, <3>1, <3>2, <3>3
  <2> QED
    BY <1>0, <2>1, <2>2 DEF RemoveInv, Coming, All
<1>9. CASE Remove(s)!Finish
  <2>1. /\ status = "running" /\ next = 30
        /\ status' = "done" /\ UNCHANGED <<rows, plan, next, late>>
    BY <1>0, <1>1, <1>9 DEF Remove!Finish
  <2> QED
    BY <1>0, <2>1 DEF RemoveInv, Coming, All
<1>10. ASSUME NEW t \in Remove(s)!Tables, Remove(s)!Insert(t)
       PROVE  RemoveInv(s)'
  <2>1. /\ status = "running" /\ "Organization" \in rows
        /\ rows' = rows \union {t} /\ late' = late \union {t}
        /\ UNCHANGED <<plan, next, status>>
    BY <1>10 DEF Remove!Insert
  <2>2. t \in All
    BY DEF RemoveAssumed, Remove!Tables, All
  <2>3. next <= 28
    BY <1>0, <2>1
  <2> QED
    BY <1>0, <2>1, <2>2, <2>3 DEF RemoveInv, All
<1> QED
  BY <1>7, <1>8, <1>9, <1>10 DEF Remove!Next

(* An organization without commerce channels is removed unless rows are     *)
(* added while that runs, and whenever it is, nothing of it is left         *)
(* (deleteOrganization against the foreign keys of schema.prisma), however  *)
(* many rows are added.                                                     *)
LEMMA RemoveMeans ==
  ASSUME NEW s, RemoveInv(s)
  PROVE  Remove(s)!RefusedOnlyByLateRows /\ Remove(s)!NothingLeft
  BY DEF RemoveInv, Remove!RefusedOnlyByLateRows, Remove!NothingLeft

--------------------------------------------------------------------------------
(* Workflow.  A record has one event at most, which has its effects for the *)
(* rules it is through with.                                                *)

RuleAssumed(s) == None \notin s.workers /\ Rule(s)!WorkflowAssumption

AskLabels == {"asking", "hand_asking", "event_asking"}
HandLabels == {"asking", "deciding", "telling", "hand_asking", "hand_counting", "reporting"}
TurnLabels == {"event_asking", "counting", "failing"}
RunLabels == {"running"} \union TurnLabels
EventLabels == {"listing"} \union RunLabels

RuleLabels == {"idle"} \union HandLabels \union EventLabels

Decisions == {"APPROVED", "REJECTED", "CANCELLED"}

RuleRow == [status : {"unborn", "ACTIVE", "PAUSED", "deleted"}, runs : Nat, failures : Nat]

Approval(s) ==
  [record : s.records \union {None}, role : {"APPROVER"} \union s.roles,
   status : {"PENDING"} \union Decisions, by : s.rules \union {None}]

Notice(s) ==
  [kind : {"asked", "rule", "ran"} \union Decisions,
   about : Nat \union s.rules \union [rule : s.rules, record : s.records]]

JobFits(s, label, j) ==
  /\ label \in EventLabels => j.record \in s.records
  /\ label \in RunLabels => {"record", "left"} \subseteq DOMAIN j /\ j.left \subseteq matched[j.record]
  /\ label \in TurnLabels => j.rule \in matched[j.record] \ j.left
  /\ label \in AskLabels \union {"deciding", "telling"} => j.approval \in DOMAIN approvals
  /\ label \in {"deciding", "telling"} => j.status \in Decisions
  /\ label \in {"hand_asking", "hand_counting", "reporting"} => j.rule \in s.rules

RuleTypes(s) ==
  /\ pc \in [s.workers -> RuleLabels]
  /\ job = [w \in s.workers |-> job[w]]
  /\ records \in [s.records -> {"none", "new", "done", "cut"}]
  /\ matched \in [s.records -> SUBSET s.rules]
  /\ rules \in [s.rules -> RuleRow]
  /\ approvals \in Seq(Approval(s))
  /\ notices \in Seq(Notice(s))

RuleInv(s) == RuleTypes(s) /\ \A w \in s.workers : JobFits(s, pc[w], job[w])

(* A record is at the event of one worker from the time it is new.          *)
OneEvent(s) ==
  /\ \A w \in s.workers : pc[w] \in EventLabels => records[job[w].record] = "new"
  /\ \A v, w \in s.workers : pc[v] \in EventLabels /\ pc[w] \in EventLabels /\ v # w =>
       job[v].record # job[w].record
  /\ \A r \in s.records : records[r] = "none" => matched[r] = {}
  /\ \A w \in s.workers : pc[w] = "listing" => matched[job[w].record] = {}

Effect(s, r, u) ==
  IF Rule(s)!CreatesApproval(u) THEN Rule(s)!Asked(r)
  ELSE \E n \in DOMAIN notices :
         notices[n] = [kind |-> "rule", about |-> [rule |-> u, record |-> r]]

Effects(s) ==
  /\ \A w \in s.workers : pc[w] \in RunLabels =>
       \A u \in matched[job[w].record] \ job[w].left : Effect(s, job[w].record, u)
  /\ \A r \in s.records : records[r] = "done" => \A u \in matched[r] : Effect(s, r, u)

(* What was asked and announced stays so. *)
RowsStay ==
  /\ \A a \in DOMAIN approvals :
       a \in DOMAIN approvals' /\ approvals'[a].record = approvals[a].record
  /\ \A n \in DOMAIN notices : n \in DOMAIN notices' /\ notices'[n] = notices[n]

LEMMA RuleInit ==
  ASSUME NEW s, RuleAssumed(s), Rule(s)!Init
  PROVE  RuleInv(s) /\ OneEvent(s) /\ Effects(s)
<1> USE DEF Rule!Init, Rule!NoRequests, RuleAssumed, RuleLabels, HandLabels, EventLabels, RunLabels, TurnLabels,
            AskLabels
<1>1. RuleTypes(s)
  BY DEF RuleTypes, RuleRow
<1>2. \A w \in s.workers : JobFits(s, pc[w], job[w])
  BY DEF JobFits
<1>3. OneEvent(s) /\ Effects(s)
  BY DEF OneEvent, Effects
<1> QED
  BY <1>1, <1>2, <1>3 DEF RuleInv

(* A request for approval, and what becomes of the jobs that know others.   *)
LEMMA Requested ==
  ASSUME NEW s, RuleTypes(s), NEW r \in s.records \union {None},
         NEW role \in {"APPROVER"} \union s.roles, NEW by \in s.rules \union {None},
         Rule(s)!Request(r, role, by)
  PROVE  /\ approvals' \in Seq(Approval(s))
         /\ Len(approvals') = Len(approvals) + 1
         /\ \A a \in DOMAIN approvals :
              a \in DOMAIN approvals' /\ approvals'[a] = approvals[a]
         /\ Len(approvals) + 1 \in DOMAIN approvals'
         /\ approvals'[Len(approvals) + 1] =
              [record |-> r, role |-> role, status |-> "PENDING", by |-> by]
<1>1. [record |-> r, role |-> role, status |-> "PENDING", by |-> by] \in Approval(s)
  BY DEF Approval
<1> DEFINE S == Approval(s)
<1>2. approvals \in Seq(S)
  BY DEF RuleTypes
<1> HIDE DEF S
<1> QED
  BY <1>1, <1>2 DEF Rule!Request, S

LEMMA Announced ==
  ASSUME NEW s, RuleTypes(s), NEW kind, NEW about, [kind |-> kind, about |-> about] \in Notice(s),
         Rule(s)!Announce(kind, about)
  PROVE  /\ notices' \in Seq(Notice(s))
         /\ Len(notices') = Len(notices) + 1
         /\ \A n \in DOMAIN notices : n \in DOMAIN notices' /\ notices'[n] = notices[n]
         /\ Len(notices) + 1 \in DOMAIN notices'
         /\ notices'[Len(notices) + 1] = [kind |-> kind, about |-> about]
<1> DEFINE S == Notice(s)
<1>1. notices \in Seq(S)
  BY DEF RuleTypes
<1> HIDE DEF S
<1> QED
  BY <1>1 DEF Rule!Announce, S

(* Decisions change the status of a request alone. *)
LEMMA Decided ==
  ASSUME NEW s, RuleInv(s), NEW w \in s.workers, Rule(s)!DecideCommit(w)
  PROVE  /\ approvals' \in Seq(Approval(s))
         /\ DOMAIN approvals' = DOMAIN approvals
         /\ job[w].approval \in DOMAIN approvals /\ job[w].status \in Decisions
         /\ \A a \in DOMAIN approvals :
              /\ approvals'[a].record = approvals[a].record
              /\ approvals'[a].status =
                   IF a = job[w].approval THEN job[w].status ELSE approvals[a].status
<1>1. PICK k, st : k = job[w].approval /\ st = job[w].status
  OBVIOUS
<1>2. k \in DOMAIN approvals /\ st \in Decisions /\ approvals \in Seq(Approval(s))
  BY <1>1 DEF RuleInv, RuleTypes, JobFits, Rule!DecideCommit, Rule!At
<1>3. PICK r : r = [approvals[k] EXCEPT !.status = st]
  OBVIOUS
<1>4. approvals' = [approvals EXCEPT ![k] = r]
  BY <1>1, <1>3 DEF Rule!DecideCommit
<1>5. approvals[k] \in Approval(s)
  BY <1>2
<1>6. r \in Approval(s) /\ r.record = approvals[k].record /\ r.status = st
  BY <1>2, <1>3, <1>5 DEF Approval
<1>7. approvals' \in Seq(Approval(s)) /\ DOMAIN approvals' = DOMAIN approvals
  <2> DEFINE S == Approval(s)
  <2>1. approvals \in Seq(S) /\ r \in S /\ k \in DOMAIN approvals
    BY <1>2, <1>6
  <2> HIDE DEF S
  <2>2. [approvals EXCEPT ![k] = r] \in Seq(S)
    BY ONLY <2>1, RowChanged
  <2> QED
    BY <1>4, <2>2 DEF S
<1>8. \A a \in DOMAIN approvals : approvals'[a] = IF a = k THEN r ELSE approvals[a]
  BY <1>4
<1> QED
  BY <1>1, <1>2, <1>6, <1>7, <1>8

(* A turn of a worker: the others' jobs stay as they were. *)
LEMMA RuleTurn ==
  ASSUME NEW s, RuleInv(s), NEW w \in s.workers, NEW label \in RuleLabels, NEW j,
         Rule(s)!Turn(w, label, j), JobFits(s, label, j)',
         records' \in [s.records -> {"none", "new", "done", "cut"}],
         matched' \in [s.records -> SUBSET s.rules],
         rules' \in [s.rules -> RuleRow],
         approvals' \in Seq(Approval(s)), DOMAIN approvals \subseteq DOMAIN approvals',
         notices' \in Seq(Notice(s)),
         \A v \in s.workers \ {w} : pc[v] \in RunLabels =>
           matched'[job[v].record] = matched[job[v].record]
  PROVE  /\ RuleInv(s)'
         /\ pc'[w] = label /\ job'[w] = j
         /\ \A v \in s.workers \ {w} : pc'[v] = pc[v] /\ job'[v] = job[v]
<1>1. /\ pc \in [s.workers -> RuleLabels] /\ job = [v \in s.workers |-> job[v]]
      /\ \A v \in s.workers : JobFits(s, pc[v], job[v])
  BY DEF RuleInv, RuleTypes
<1>2. /\ pc' \in [s.workers -> RuleLabels] /\ job' = [v \in s.workers |-> job'[v]]
      /\ pc'[w] = label /\ job'[w] = j
      /\ \A v \in s.workers \ {w} : pc'[v] = pc[v] /\ job'[v] = job[v]
  BY <1>1 DEF Rule!Turn
<1>3. RuleTypes(s)'
  BY <1>2 DEF RuleTypes, Approval, Notice, RuleRow
<1>4. ASSUME NEW v \in s.workers \ {w}
      PROVE  JobFits(s, pc[v], job[v])'
  <2>1. PICK l, k : l = pc[v] /\ k = job[v]
    OBVIOUS
  <2>2. JobFits(s, l, k)
    BY <1>1, <2>1
  <2>3. l \in RunLabels => matched'[k.record] = matched[k.record]
    BY <2>1
  <2>4. JobFits(s, l, k)'
    BY <2>2, <2>3 DEF JobFits, RunLabels, TurnLabels
  <2> QED
    BY <1>2, <2>1, <2>4
<1>5. JobFits(s, pc[w], job[w])'
  BY <1>2
<1> QED
  BY <1>2, <1>3, <1>4, <1>5 DEF RuleInv

(* One more run, or failure, of a rule. *)
LEMMA RuleRowChanged ==
  ASSUME NEW s, NEW f \in [s.rules -> RuleRow], NEW u \in s.rules, NEW r \in RuleRow
  PROVE  [f EXCEPT ![u] = r] \in [s.rules -> RuleRow]
OBVIOUS

LEMMA RunCounted ==
  ASSUME NEW s, rules \in [s.rules -> RuleRow], NEW w, NEW u \in s.rules
  PROVE  LET f == Rule(s)!CountedRun(w, u)
         IN  /\ f \in [s.rules -> RuleRow]
             /\ \A v \in s.rules :
                  /\ f[v].status = rules[v].status /\ f[v].failures = rules[v].failures
                  /\ f[v].runs = IF v = u THEN rules[v].runs + 1 ELSE rules[v].runs
<1>1. PICK r : r = [rules[u] EXCEPT !.runs = @ + 1]
  OBVIOUS
<1>2. /\ r \in RuleRow
      /\ r.status = rules[u].status /\ r.failures = rules[u].failures /\ r.runs = rules[u].runs + 1
  BY <1>1 DEF RuleRow
<1>3. Rule(s)!CountedRun(w, u) = [rules EXCEPT ![u] = r]
  BY <1>1 DEF Rule!CountedRun
<1>4. [rules EXCEPT ![u] = r] \in [s.rules -> RuleRow]
  BY <1>2, RuleRowChanged
<1>5. \A v \in s.rules : [rules EXCEPT ![u] = r][v] = IF v = u THEN r ELSE rules[v]
  OBVIOUS
<1> QED
  BY <1>2, <1>3, <1>4, <1>5

LEMMA FailureCounted ==
  ASSUME NEW s, rules \in [s.rules -> RuleRow], NEW u \in s.rules,
         rules' = [rules EXCEPT ![u].failures = @ + 1]
  PROVE  /\ rules' \in [s.rules -> RuleRow]
         /\ \A v \in s.rules :
              /\ rules'[v].status = rules[v].status /\ rules'[v].runs = rules[v].runs
              /\ rules'[v].failures = IF v = u THEN rules[v].failures + 1 ELSE rules[v].failures
<1>1. PICK r : r = [rules[u] EXCEPT !.failures = @ + 1]
  OBVIOUS
<1>2. /\ r \in RuleRow
      /\ r.status = rules[u].status /\ r.runs = rules[u].runs /\ r.failures = rules[u].failures + 1
  BY <1>1 DEF RuleRow
<1>3. rules' = [rules EXCEPT ![u] = r]
  BY <1>1
<1>4. [rules EXCEPT ![u] = r] \in [s.rules -> RuleRow]
  BY <1>2, RuleRowChanged
<1>5. \A v \in s.rules : [rules EXCEPT ![u] = r][v] = IF v = u THEN r ELSE rules[v]
  OBVIOUS
<1> QED
  BY <1>2, <1>3, <1>4, <1>5

(* What is done by hand is no part of an event. *)
HandMove(s, w) ==
  /\ RuleInv(s)' /\ RowsStay
  /\ UNCHANGED <<records, matched>> /\ pc[w] \notin EventLabels /\ pc'[w] \notin EventLabels
  /\ \A v \in s.workers \ {w} : pc'[v] = pc[v] /\ job'[v] = job[v]

LEMMA ByHandStep ==
  ASSUME NEW s, RuleInv(s), NEW w \in s.workers, Rule(s)!ByHand(w)
  PROVE  HandMove(s, w)
<1> USE DEF RuleLabels, HandLabels, EventLabels, RunLabels, TurnLabels, AskLabels,
            Rule!At, Rule!Idle, Rule!Done, RowsStay, HandMove
<1>0. /\ RuleTypes(s) /\ JobFits(s, pc[w], job[w])
      /\ records \in [s.records -> {"none", "new", "done", "cut"}]
      /\ matched \in [s.records -> SUBSET s.rules]
      /\ rules \in [s.rules -> RuleRow]
      /\ approvals \in Seq(Approval(s))
      /\ notices \in Seq(Notice(s))
  BY DEF RuleInv, RuleTypes
<1>1. ASSUME NEW r \in s.records, NEW role \in s.roles, Rule(s)!CreateApproval(w, r, role)
      PROVE  HandMove(s, w)
  <2>1. PICK j : j = [approval |-> Len(approvals) + 1]
    OBVIOUS
  <2>2. /\ Rule(s)!Request(r, role, None) /\ Rule(s)!Turn(w, "asking", j) /\ pc[w] = "idle"
        /\ UNCHANGED <<records, matched, rules, notices>>
    BY <1>1, <2>1 DEF Rule!CreateApproval
  <2>3. /\ approvals' \in Seq(Approval(s)) /\ j.approval \in DOMAIN approvals'
        /\ \A a \in DOMAIN approvals : a \in DOMAIN approvals' /\ approvals'[a] = approvals[a]
    BY <1>0, <2>1, <2>2, Requested
  <2>4. JobFits(s, "asking", j)'
    BY <2>3 DEF JobFits
  <2>5. DOMAIN approvals \subseteq DOMAIN approvals'
    BY <2>3
  <2>6. /\ RuleInv(s)' /\ pc'[w] = "asking"
        /\ \A v \in s.workers \ {w} : pc'[v] = pc[v] /\ job'[v] = job[v]
    BY <1>0, <2>2, <2>3, <2>4, <2>5, RuleTurn
  <2>7. RowsStay
    BY <2>2, <2>3
  <2> QED
    BY <2>2, <2>6, <2>7
<1>2. CASE Rule(s)!AnnounceApproval(w)
  <2>1. /\ Rule(s)!Announce("asked", job[w].approval) /\ Rule(s)!Turn(w, "idle", None)
        /\ pc[w] = "asking" /\ UNCHANGED <<records, matched, rules, approvals>>
    BY <1>2 DEF Rule!AnnounceApproval
  <2>2. [kind |-> "asked", about |-> job[w].approval] \in Notice(s)
    BY <1>0, <2>1 DEF JobFits, Notice
  <2>3. /\ notices' \in Seq(Notice(s))
        /\ \A n \in DOMAIN notices : n \in DOMAIN notices' /\ notices'[n] = notices[n]
    BY <1>0, <2>1, <2>2, Announced
  <2>4. JobFits(s, "idle", None)'
    BY DEF JobFits
  <2> QED
    BY <1>0, <2>1, <2>3, <2>4, RuleTurn
<1>3. ASSUME NEW a \in DOMAIN approvals, NEW role \in s.roles, NEW st \in Decisions,
             Rule(s)!DecideRead(w, a, role, st)
      PROVE  HandMove(s, w)
  <2>1. PICK j : j = [approval |-> a, status |-> st]
    OBVIOUS
  <2>2. /\ Rule(s)!Turn(w, "deciding", j) /\ pc[w] = "idle"
        /\ UNCHANGED <<records, matched, rules, approvals, notices>>
    BY <1>3, <2>1 DEF Rule!DecideRead, Rule!rowVars
  <2>3. JobFits(s, "deciding", j)'
    BY <2>1, <2>2 DEF JobFits
  <2> QED
    BY <1>0, <2>2, <2>3, RuleTurn
<1>4. CASE Rule(s)!DecideCommit(w)
  <2>1. PICK j : j = job[w]
    OBVIOUS
  <2>2. /\ Rule(s)!Turn(w, "telling", j) /\ pc[w] = "deciding"
        /\ UNCHANGED <<records, matched, rules, notices>>
    BY <1>4, <2>1 DEF Rule!DecideCommit
  <2>3. /\ approvals' \in Seq(Approval(s)) /\ DOMAIN approvals' = DOMAIN approvals
        /\ \A a \in DOMAIN approvals : approvals'[a].record = approvals[a].record
    BY <1>4, Decided
  <2>4. JobFits(s, "telling", j)'
    BY <1>0, <2>1, <2>2, <2>3 DEF JobFits
  <2> QED
    BY <1>0, <2>2, <2>3, <2>4, RuleTurn
<1>5. CASE Rule(s)!AnnounceDecision(w)
  <2>1. /\ Rule(s)!Announce(job[w].status, job[w].approval) /\ Rule(s)!Turn(w, "idle", None)
        /\ pc[w] = "telling" /\ UNCHANGED <<records, matched, rules, approvals>>
    BY <1>5 DEF Rule!AnnounceDecision, Rule!Told
  <2>2. [kind |-> job[w].status, about |-> job[w].approval] \in Notice(s)
    BY <1>0, <2>1 DEF JobFits, Notice
  <2>3. /\ notices' \in Seq(Notice(s))
        /\ \A n \in DOMAIN notices : n \in DOMAIN notices' /\ notices'[n] = notices[n]
    BY <1>0, <2>1, <2>2, Announced
  <2>4. JobFits(s, "idle", None)'
    BY DEF JobFits
  <2> QED
    BY <1>0, <2>1, <2>3, <2>4, RuleTurn
<1>6. ASSUME NEW u \in s.rules, Rule(s)!RunRule(w, u)
      PROVE  HandMove(s, w)
  <2>1. CASE Rule(s)!CreatesApproval(u)
    <3>1. PICK j : j = [rule |-> u, approval |-> Len(approvals) + 1]
      OBVIOUS
    <3>2. /\ Rule(s)!Request(None, "APPROVER", u) /\ Rule(s)!Turn(w, "hand_asking", j)
          /\ pc[w] = "idle" /\ UNCHANGED <<records, matched, rules, notices>>
      BY <1>6, <2>1, <3>1 DEF Rule!RunRule
    <3>3. /\ approvals' \in Seq(Approval(s)) /\ j.approval \in DOMAIN approvals'
          /\ \A a \in DOMAIN approvals : a \in DOMAIN approvals' /\ approvals'[a] = approvals[a]
      BY <1>0, <3>1, <3>2, Requested
    <3>4. JobFits(s, "hand_asking", j)'
      BY <3>1, <3>3 DEF JobFits
    <3>5. DOMAIN approvals \subseteq DOMAIN approvals'
      BY <3>3
    <3>6. /\ RuleInv(s)' /\ pc'[w] = "hand_asking"
          /\ \A v \in s.workers \ {w} : pc'[v] = pc[v] /\ job'[v] = job[v]
      BY <1>0, <3>2, <3>3, <3>4, <3>5, RuleTurn
    <3>7. RowsStay
      BY <3>2, <3>3
    <3> QED
      BY <3>2, <3>6, <3>7
  <2>2. CASE ~Rule(s)!CreatesApproval(u)
    <3>1. PICK j : j = [rule |-> u]
      OBVIOUS
    <3>2. /\ Rule(s)!Turn(w, "hand_counting", j)
          /\ pc[w] = "idle" /\ UNCHANGED <<records, matched, rules, approvals, notices>>
      BY <1>6, <2>2, <3>1 DEF Rule!RunRule
    <3>3. JobFits(s, "hand_counting", j)'
      BY <3>1, <3>2 DEF JobFits
    <3> QED
      BY <1>0, <3>2, <3>3, RuleTurn
  <2> QED
    BY <2>1, <2>2
<1>7. CASE Rule(s)!AnnounceByHand(w)
  <2>1. PICK j : j = job[w]
    OBVIOUS
  <2>2. /\ Rule(s)!Announce("asked", j.approval) /\ Rule(s)!Turn(w, "hand_counting", j)
        /\ pc[w] = "hand_asking" /\ UNCHANGED <<records, matched, rules, approvals>>
    BY <1>7, <2>1 DEF Rule!AnnounceByHand
  <2>3. [kind |-> "asked", about |-> j.approval] \in Notice(s)
    BY <1>0, <2>1, <2>2 DEF JobFits, Notice
  <2>4. /\ notices' \in Seq(Notice(s))
        /\ \A n \in DOMAIN notices : n \in DOMAIN notices' /\ notices'[n] = notices[n]
    BY <1>0, <2>2, <2>3, Announced
  <2>5. JobFits(s, "hand_counting", j)'
    BY <1>0, <2>1, <2>2 DEF JobFits
  <2> QED
    BY <1>0, <2>2, <2>4, <2>5, RuleTurn
<1>8. CASE Rule(s)!CountByHand(w)
  <2>1. PICK j : j = job[w]
    OBVIOUS
  <2>2. /\ rules' = Rule(s)!CountedRun(w, j.rule) /\ Rule(s)!Turn(w, "reporting", j)
        /\ pc[w] = "hand_counting" /\ UNCHANGED <<records, matched, approvals, notices>>
    BY <1>8, <2>1 DEF Rule!CountByHand
  <2>3. j.rule \in s.rules
    BY <1>0, <2>1, <2>2 DEF JobFits
  <2>4. rules' \in [s.rules -> RuleRow]
    BY <1>0, <2>2, <2>3, RunCounted
  <2>5. JobFits(s, "reporting", j)'
    BY <2>3 DEF JobFits
  <2> QED
    BY <1>0, <2>2, <2>4, <2>5, RuleTurn
<1>9. CASE Rule(s)!ReportByHand(w)
  <2>1. /\ Rule(s)!Announce("ran", job[w].rule) /\ Rule(s)!Turn(w, "idle", None)
        /\ pc[w] = "reporting" /\ UNCHANGED <<records, matched, rules, approvals>>
    BY <1>9 DEF Rule!ReportByHand
  <2>2. [kind |-> "ran", about |-> job[w].rule] \in Notice(s)
    BY <1>0, <2>1 DEF JobFits, Notice
  <2>3. /\ notices' \in Seq(Notice(s))
        /\ \A n \in DOMAIN notices : n \in DOMAIN notices' /\ notices'[n] = notices[n]
    BY <1>0, <2>1, <2>2, Announced
  <2>4. JobFits(s, "idle", None)'
    BY DEF JobFits
  <2> QED
    BY <1>0, <2>1, <2>3, <2>4, RuleTurn
<1> HIDE DEF HandMove
<1>10. HandMove(s, w)
  <2>1. ASSUME \E r \in s.records, role \in s.roles : Rule(s)!CreateApproval(w, r, role)
        PROVE  HandMove(s, w)
    BY <1>1, <2>1
  <2>2. ASSUME \E a \in DOMAIN approvals, role \in s.roles, st \in Decisions :
                 Rule(s)!DecideRead(w, a, role, st)
        PROVE  HandMove(s, w)
    BY <1>3, <2>2
  <2>3. ASSUME \E u \in s.rules : Rule(s)!RunRule(w, u)
        PROVE  HandMove(s, w)
    BY <1>6, <2>3
  <2>4. \/ \E r \in s.records, role \in s.roles : Rule(s)!CreateApproval(w, r, role)
        \/ Rule(s)!AnnounceApproval(w)
        \/ \E a \in DOMAIN approvals, role \in s.roles, st \in Decisions :
             Rule(s)!DecideRead(w, a, role, st)
        \/ Rule(s)!DecideCommit(w) \/ Rule(s)!AnnounceDecision(w)
        \/ \E u \in s.rules : Rule(s)!RunRule(w, u)
        \/ Rule(s)!AnnounceByHand(w) \/ Rule(s)!CountByHand(w) \/ Rule(s)!ReportByHand(w)
    BY DEF Rule!ByHand, Rule!Decisions, Decisions
  <2> QED
    BY <1>2, <1>4, <1>5, <1>7, <1>8, <1>9, <2>1, <2>2, <2>3, <2>4
<1> QED
  BY <1>10

LEMMA AbortStep ==
  ASSUME NEW s, RuleInv(s), NEW w \in s.workers, Rule(s)!Abort(w)
  PROVE  /\ RuleInv(s)' /\ UNCHANGED <<records, matched, rules, approvals, notices>>
         /\ pc'[w] = "idle"
         /\ \A v \in s.workers \ {w} : pc'[v] = pc[v] /\ job'[v] = job[v]
<1>1. /\ Rule(s)!Turn(w, "idle", None) /\ UNCHANGED <<records, matched, rules, approvals, notices>>
  BY DEF Rule!Abort, Rule!GiveUp, Rule!Done, Rule!rowVars
<1>2. JobFits(s, "idle", None)' /\ "idle" \in RuleLabels
  BY DEF JobFits, RuleLabels, HandLabels, EventLabels, RunLabels, TurnLabels, AskLabels
<1>3. /\ records' \in [s.records -> {"none", "new", "done", "cut"}]
      /\ matched' \in [s.records -> SUBSET s.rules]
      /\ rules' \in [s.rules -> RuleRow]
      /\ approvals' \in Seq(Approval(s)) /\ DOMAIN approvals \subseteq DOMAIN approvals'
      /\ notices' \in Seq(Notice(s))
  BY <1>1 DEF RuleInv, RuleTypes
<1> QED
  BY <1>1, <1>2, <1>3, RuleTurn

LEMMA AdministerStep ==
  ASSUME NEW s, RuleInv(s), NEW u \in s.rules, Rule(s)!Administer(u)
  PROVE  /\ RuleInv(s)' /\ UNCHANGED <<records, matched, approvals, notices, pc, job>>
         /\ \A v \in s.rules :
              /\ rules'[v].runs = rules[v].runs /\ rules'[v].failures = rules[v].failures
              /\ Rule(s)!Stored(v) => Rule(s)!Stored(v)' \/ s.deleting
<1>1. PICK st \in {"ACTIVE", "PAUSED", "deleted"} :
        /\ rules' = [rules EXCEPT ![u].status = st]
        /\ st = "deleted" => s.deleting
        /\ UNCHANGED <<records, matched, approvals, notices, pc, job>>
  BY DEF Rule!Administer, Rule!CreateRule, Rule!RuleStatus, Rule!DeleteRule, Rule!requestVars
<1>2. rules \in [s.rules -> RuleRow]
  BY DEF RuleInv, RuleTypes
<1>3. PICK r : r = [rules[u] EXCEPT !.status = st]
  OBVIOUS
<1>4. r \in RuleRow /\ r.status = st /\ r.runs = rules[u].runs /\ r.failures = rules[u].failures
  BY <1>2, <1>3 DEF RuleRow
<1>5. rules' = [rules EXCEPT ![u] = r]
  BY <1>1, <1>3
<1>6. rules' \in [s.rules -> RuleRow]
  BY <1>2, <1>4, <1>5, RuleRowChanged
<1>7. \A v \in s.rules : rules'[v] = IF v = u THEN r ELSE rules[v]
  BY <1>2, <1>5
<1>8. \A v \in s.rules :
        /\ rules'[v].runs = rules[v].runs /\ rules'[v].failures = rules[v].failures
        /\ Rule(s)!Stored(v) => Rule(s)!Stored(v)' \/ s.deleting
  BY <1>1, <1>4, <1>7 DEF Rule!Stored
<1>9. RuleInv(s)'
  BY <1>1, <1>6 DEF RuleInv, RuleTypes, JobFits, Approval, Notice
<1> QED
  BY <1>1, <1>8, <1>9

LEMMA EffectStays ==
  ASSUME NEW s, NEW r, NEW u, RowsStay, Effect(s, r, u)
  PROVE  Effect(s, r, u)'
  BY DEF RowsStay, Effect, Rule!Asked, Rule!CreatesApproval

EventInv(s) == OneEvent(s) /\ Effects(s)

OthersStay(s, w) == \A v \in s.workers \ {w} : pc'[v] = pc[v] /\ job'[v] = job[v]

(* No event, or one no more. *)
LEMMA EventQuiet ==
  ASSUME NEW s, RuleInv(s), RuleInv(s)', EventInv(s), RowsStay, NEW w \in s.workers,
         OthersStay(s, w), pc'[w] \notin EventLabels, UNCHANGED <<records, matched>>
  PROVE  EventInv(s)'
<1>1. \A v \in s.workers : pc'[v] \in EventLabels => pc[v] = pc'[v] /\ job[v] = job'[v]
  BY DEF OthersStay
<1>2. OneEvent(s)'
  BY <1>1 DEF EventInv, OneEvent, EventLabels
<1>3. Effects(s)'
  BY <1>1, EffectStays DEF EventInv, Effects, EventLabels
<1> QED
  BY <1>2, <1>3 DEF EventInv

(* A rule has its turn: it had its effect when it is over. *)
LEMMA EventGoesOn ==
  ASSUME NEW s, RuleInv(s), RuleInv(s)', EventInv(s), RowsStay, NEW w \in s.workers,
         OthersStay(s, w), pc[w] \in RunLabels, pc'[w] \in RunLabels,
         NEW r, job[w].record = r, job'[w].record = r, UNCHANGED <<records, matched>>,
         \A u \in job[w].left \ job'[w].left : Effect(s, r, u)'
  PROVE  EventInv(s)'
<1>1. OneEvent(s)'
  BY DEF OthersStay, EventInv, OneEvent, EventLabels, RunLabels, TurnLabels
<1>2. \A q, u : Effect(s, q, u) => Effect(s, q, u)'
  BY EffectStays
<1>3. ASSUME NEW v \in s.workers, pc'[v] \in RunLabels,
             NEW q, q = job'[v].record, NEW u \in matched'[q] \ job'[v].left
      PROVE  Effect(s, q, u)'
  <2>1. CASE v = w /\ u \in job[w].left
    BY <1>3, <2>1
  <2>2. CASE v = w /\ u \notin job[w].left
    BY <1>2, <1>3, <2>2 DEF EventInv, Effects
  <2>3. CASE v # w
    BY <1>2, <1>3, <2>3 DEF EventInv, Effects, OthersStay
  <2> QED
    BY <2>1, <2>2, <2>3
<1>4. \A q \in s.records : records'[q] = "done" => \A u \in matched'[q] : Effect(s, q, u)'
  BY <1>2 DEF EventInv, Effects
<1>5. Effects(s)'
  BY <1>3, <1>4 DEF Effects
<1> QED
  BY <1>1, <1>5 DEF EventInv

(* An event is over, in the end or before. *)
LEMMA EventEnds ==
  ASSUME NEW s, RuleInv(s), RuleInv(s)', EventInv(s), RowsStay, NEW w \in s.workers,
         OthersStay(s, w), pc[w] \in RunLabels, pc'[w] = "idle", UNCHANGED matched,
         NEW st \in {"done", "cut"}, st = "done" => job[w].left = {},
         records' = [records EXCEPT ![job[w].record] = st]
  PROVE  EventInv(s)'
<1>1. PICK r : r = job[w].record
  OBVIOUS
<1>2. /\ r \in s.records /\ records \in [s.records -> {"none", "new", "done", "cut"}]
      /\ \A v \in s.workers : pc[v] \in EventLabels => job[v].record \in s.records
  BY <1>1 DEF RuleInv, RuleTypes, JobFits, EventLabels
<1>3. /\ records'[r] = st
      /\ \A q \in s.records : q # r => records'[q] = records[q]
  BY <1>1, <1>2
<1>4. \A v \in s.workers : pc'[v] \in EventLabels =>
        v # w /\ pc[v] = pc'[v] /\ job[v] = job'[v] /\ job[v].record # r
  BY <1>1 DEF OthersStay, EventInv, OneEvent, EventLabels, RunLabels, TurnLabels
<1>5. OneEvent(s)'
  BY <1>2, <1>3, <1>4 DEF EventInv, OneEvent, EventLabels
<1>6. \A q, u : Effect(s, q, u) => Effect(s, q, u)'
  BY EffectStays
<1>7. ASSUME NEW q \in s.records, records'[q] = "done", NEW u \in matched'[q]
      PROVE  Effect(s, q, u)'
  <2>1. CASE q = r
    BY <1>1, <1>3, <1>6, <1>7, <2>1 DEF EventInv, Effects
  <2>2. CASE q # r
    BY <1>3, <1>6, <1>7, <2>2 DEF EventInv, Effects
  <2> QED
    BY <2>1, <2>2
<1>8. ASSUME NEW v \in s.workers, pc'[v] \in RunLabels,
             NEW q, q = job'[v].record, NEW u \in matched'[q] \ job'[v].left
      PROVE  Effect(s, q, u)'
  <2>1. pc[v] = pc'[v] /\ job[v] = job'[v]
    BY <1>4, <1>8 DEF EventLabels
  <2> QED
    BY <1>6, <1>8, <2>1 DEF EventInv, Effects
<1>9. Effects(s)'
  BY <1>7, <1>8 DEF Effects
<1> QED
  BY <1>5, <1>9 DEF EventInv

(* A step of an event. *)
EventMove(s) == RuleInv(s)' /\ EventInv(s)' /\ RowsStay

LEMMA CreateRecordStep ==
  ASSUME NEW s, RuleInv(s), EventInv(s), NEW w \in s.workers, NEW r \in s.records,
         Rule(s)!CreateRecord(w, r)
  PROVE  EventMove(s)
<1>1. PICK j : j = [record |-> r]
  OBVIOUS
<1>2. /\ pc[w] = "idle" /\ records[r] = "none" /\ records' = [records EXCEPT ![r] = "new"]
      /\ Rule(s)!Turn(w, "listing", j) /\ UNCHANGED <<matched, rules, approvals, notices>>
  BY <1>1 DEF Rule!CreateRecord, Rule!Idle
<1>3. /\ records \in [s.records -> {"none", "new", "done", "cut"}]
      /\ records' \in [s.records -> {"none", "new", "done", "cut"}]
      /\ matched' \in [s.records -> SUBSET s.rules] /\ rules' \in [s.rules -> RuleRow]
      /\ approvals' \in Seq(Approval(s)) /\ DOMAIN approvals \subseteq DOMAIN approvals'
      /\ notices' \in Seq(Notice(s))
  BY <1>2 DEF RuleInv, RuleTypes
<1>4. JobFits(s, "listing", j)' /\ "listing" \in RuleLabels
  BY <1>1 DEF JobFits, RuleLabels, HandLabels, EventLabels, RunLabels, TurnLabels, AskLabels
<1>5. RuleInv(s)' /\ pc'[w] = "listing" /\ job'[w] = j /\ OthersStay(s, w)
  BY <1>2, <1>3, <1>4, RuleTurn DEF OthersStay
<1>6. RowsStay
  BY <1>2 DEF RowsStay
<1>7. \A v \in s.workers : pc[v] \in EventLabels => job[v].record # r
  BY <1>2 DEF EventInv, OneEvent
<1>8. /\ records'[r] = "new" /\ \A q \in s.records \ {r} : records'[q] = records[q]
      /\ matched[r] = {}
  BY <1>2, <1>3 DEF EventInv, OneEvent
<1>9. OneEvent(s)'
  <2>1. \A v \in s.workers : pc[v] \in EventLabels => job[v].record \in s.records
    BY DEF RuleInv, JobFits
  <2> QED
    BY <1>1, <1>2, <1>5, <1>7, <1>8, <2>1 DEF EventInv, OneEvent, OthersStay, EventLabels
<1>10. \A q, u : Effect(s, q, u) => Effect(s, q, u)'
  BY <1>6, EffectStays
<1>11. Effects(s)'
  <2>1. ASSUME NEW v \in s.workers, pc'[v] \in RunLabels,
               NEW q, q = job'[v].record, NEW u \in matched'[q] \ job'[v].left
        PROVE  Effect(s, q, u)'
    <3>1. v # w
      BY <1>5, <2>1 DEF RunLabels, TurnLabels
    <3> QED
      BY <1>2, <1>5, <1>10, <2>1, <3>1 DEF EventInv, Effects, OthersStay
  <2>2. \A q \in s.records : records'[q] = "done" => \A u \in matched'[q] : Effect(s, q, u)'
    BY <1>2, <1>8, <1>10 DEF EventInv, Effects
  <2> QED
    BY <2>1, <2>2 DEF Effects
<1> QED
  BY <1>5, <1>6, <1>9, <1>11 DEF EventMove, EventInv

LEMMA ListRulesStep ==
  ASSUME NEW s, RuleInv(s), EventInv(s), NEW w \in s.workers, Rule(s)!ListRules(w)
  PROVE  EventMove(s)
<1>1. PICK r, found, j :
        /\ r = job[w].record /\ found = {u \in s.rules : Rule(s)!Matches(u, r)}
        /\ j = [record |-> r, left |-> found]
  OBVIOUS
<1>2. /\ pc[w] = "listing" /\ matched' = [matched EXCEPT ![r] = found]
      /\ Rule(s)!Turn(w, "running", j) /\ UNCHANGED <<records, rules, approvals, notices>>
  BY <1>1 DEF Rule!ListRules, Rule!At
<1>3. /\ r \in s.records /\ records[r] = "new"
      /\ matched \in [s.records -> SUBSET s.rules]
      /\ \A v \in s.workers \ {w} : pc[v] \in EventLabels =>
           job[v].record \in s.records \ {r}
  BY <1>1, <1>2 DEF RuleInv, RuleTypes, JobFits, EventInv, OneEvent, EventLabels
<1>4. matched'[r] = found /\ \A q \in s.records \ {r} : matched'[q] = matched[q]
  BY <1>2, <1>3
<1>5. /\ records' \in [s.records -> {"none", "new", "done", "cut"}]
      /\ matched' \in [s.records -> SUBSET s.rules] /\ rules' \in [s.rules -> RuleRow]
      /\ approvals' \in Seq(Approval(s)) /\ DOMAIN approvals \subseteq DOMAIN approvals'
      /\ notices' \in Seq(Notice(s))
  BY <1>1, <1>2, <1>3 DEF RuleInv, RuleTypes
<1>6. JobFits(s, "running", j)' /\ "running" \in RuleLabels
  BY <1>1, <1>3, <1>4
  DEF JobFits, RuleLabels, HandLabels, EventLabels, RunLabels, TurnLabels, AskLabels
<1>7. \A v \in s.workers \ {w} : pc[v] \in RunLabels => matched'[job[v].record] = matched[job[v].record]
  BY <1>3, <1>4 DEF EventLabels
<1>8. RuleInv(s)' /\ pc'[w] = "running" /\ job'[w] = j /\ OthersStay(s, w)
  BY <1>2, <1>5, <1>6, <1>7, RuleTurn DEF OthersStay
<1>9. RowsStay
  BY <1>2 DEF RowsStay
<1>10. OneEvent(s)'
  <2>1. j.record = r
    BY <1>1
  <2>2. \A v \in s.workers : pc'[v] \in EventLabels =>
          pc[v] \in EventLabels /\ job'[v].record = job[v].record
    BY <1>1, <1>2, <1>8, <2>1 DEF OthersStay, EventLabels
  <2>3. \A v \in s.workers : pc'[v] \in EventLabels => records'[job'[v].record] = "new"
    BY <1>2, <2>2 DEF EventInv, OneEvent
  <2>4. \A u, v \in s.workers : pc'[u] \in EventLabels /\ pc'[v] \in EventLabels /\ u # v =>
          job'[u].record # job'[v].record
    BY <2>2 DEF EventInv, OneEvent
  <2>5. \A q \in s.records : records'[q] = "none" => matched'[q] = {}
    BY <1>2, <1>3, <1>4 DEF EventInv, OneEvent
  <2>6. \A v \in s.workers : pc'[v] = "listing" => matched'[job'[v].record] = {}
    <3>1. ASSUME NEW v \in s.workers, pc'[v] = "listing"
          PROVE  v # w /\ pc[v] = "listing" /\ job'[v] = job[v] /\ job[v].record \in s.records \ {r}
      BY <1>3, <1>8, <3>1 DEF OthersStay, EventLabels
    <3> QED
      BY <1>4, <3>1 DEF EventInv, OneEvent
  <2> QED
    BY <2>3, <2>4, <2>5, <2>6 DEF OneEvent
<1>11. \A q, u : Effect(s, q, u) => Effect(s, q, u)'
  BY <1>9, EffectStays
<1>12. Effects(s)'
  <2>1. ASSUME NEW v \in s.workers, pc'[v] \in RunLabels,
               NEW q, q = job'[v].record, NEW u \in matched'[q] \ job'[v].left
        PROVE  Effect(s, q, u)'
    <3>1. v # w
      BY <1>1, <1>4, <1>8, <2>1
    <3>2. pc[v] = pc'[v] /\ job[v] = job'[v] /\ matched'[q] = matched[q]
      BY <1>7, <1>8, <2>1, <3>1 DEF OthersStay
    <3> QED
      BY <1>11, <2>1, <3>2 DEF EventInv, Effects
  <2>2. \A q \in s.records : records'[q] = "done" => \A u \in matched'[q] : Effect(s, q, u)'
    BY <1>2, <1>3, <1>4, <1>11 DEF EventInv, Effects
  <2> QED
    BY <2>1, <2>2 DEF Effects
<1> QED
  BY <1>8, <1>9, <1>10, <1>12 DEF EventMove, EventInv

LEMMA RunApprovalStep ==
  ASSUME NEW s, RuleInv(s), EventInv(s), NEW w \in s.workers, NEW u \in s.rules,
         Rule(s)!RunApproval(w, u)
  PROVE  EventMove(s)
<1> USE DEF RuleLabels, HandLabels, EventLabels, RunLabels, TurnLabels, AskLabels
<1>1. PICK r, left, j :
        /\ r = job[w].record /\ left = job[w].left
        /\ j = [record |-> r, left |-> left \ {u}, rule |-> u, approval |-> Len(approvals) + 1]
  OBVIOUS
<1>2. /\ pc[w] = "running" /\ u \in left /\ Rule(s)!CreatesApproval(u)
      /\ \/ Rule(s)!Request(r, "APPROVER", u) /\ Rule(s)!Turn(w, "event_asking", j)
         \/ Rule(s)!Asked(r) /\ UNCHANGED approvals /\ Rule(s)!Turn(w, "failing", j)
      /\ UNCHANGED <<records, matched, rules, notices>>
  BY <1>1 DEF Rule!RunApproval, Rule!At, Rule!Unique
<1>3. /\ r \in s.records /\ left \subseteq matched[r] /\ u \in matched[r]
      /\ RuleTypes(s)
  BY <1>1, <1>2 DEF RuleInv, JobFits
<1>4. /\ records' \in [s.records -> {"none", "new", "done", "cut"}]
      /\ matched' \in [s.records -> SUBSET s.rules] /\ rules' \in [s.rules -> RuleRow]
      /\ notices' \in Seq(Notice(s))
  BY <1>2, <1>3 DEF RuleTypes
<1>5. /\ j.record = r /\ j.left = left \ {u} /\ j.rule = u /\ j.approval = Len(approvals) + 1
      /\ {"record", "left"} \subseteq DOMAIN j
  BY <1>1
<1>6. CASE Rule(s)!Request(r, "APPROVER", u) /\ Rule(s)!Turn(w, "event_asking", j)
  <2>1. /\ approvals' \in Seq(Approval(s)) /\ Len(approvals) + 1 \in DOMAIN approvals'
        /\ \A a \in DOMAIN approvals : a \in DOMAIN approvals' /\ approvals'[a] = approvals[a]
        /\ approvals'[Len(approvals) + 1] =
             [record |-> r, role |-> "APPROVER", status |-> "PENDING", by |-> u]
    BY <1>3, <1>6, Requested
  <2>2. JobFits(s, "event_asking", j)'
    BY <1>2, <1>3, <1>5, <2>1 DEF JobFits
  <2>3. DOMAIN approvals \subseteq DOMAIN approvals'
    BY <2>1
  <2>4. RuleInv(s)' /\ pc'[w] = "event_asking" /\ job'[w] = j /\ OthersStay(s, w)
    BY <1>2, <1>4, <1>6, <2>1, <2>2, <2>3, RuleTurn DEF OthersStay
  <2>5. RowsStay
    BY <1>2, <2>1 DEF RowsStay
  <2>6. approvals'[Len(approvals) + 1].record = r
    BY <2>1
  <2>7. Effect(s, r, u)'
    BY <1>2, <2>1, <2>6 DEF Effect, Rule!Asked, Rule!CreatesApproval
  <2>8. EventInv(s)'
    BY <1>1, <1>2, <1>5, <2>4, <2>5, <2>7, EventGoesOn
  <2> QED
    BY <2>4, <2>5, <2>8 DEF EventMove
<1>7. CASE Rule(s)!Asked(r) /\ UNCHANGED approvals /\ Rule(s)!Turn(w, "failing", j)
  <2>1. JobFits(s, "failing", j)'
    BY <1>2, <1>3, <1>5 DEF JobFits
  <2>2. approvals' \in Seq(Approval(s)) /\ DOMAIN approvals \subseteq DOMAIN approvals'
    BY <1>3, <1>7 DEF RuleTypes
  <2>3. RuleInv(s)' /\ pc'[w] = "failing" /\ job'[w] = j /\ OthersStay(s, w)
    BY <1>2, <1>4, <1>7, <2>1, <2>2, RuleTurn DEF OthersStay
  <2>4. RowsStay
    BY <1>2, <1>7 DEF RowsStay
  <2>5. Effect(s, r, u)
    BY <1>2, <1>7 DEF Effect
  <2>6. Effect(s, r, u)'
    BY <2>4, <2>5, EffectStays
  <2>7. EventInv(s)'
    BY <1>1, <1>2, <1>5, <2>3, <2>4, <2>6, EventGoesOn
  <2> QED
    BY <2>3, <2>4, <2>7 DEF EventMove
<1> QED
  BY <1>2, <1>6, <1>7

LEMMA AnnounceInEventStep ==
  ASSUME NEW s, RuleInv(s), EventInv(s), NEW w \in s.workers, Rule(s)!AnnounceInEvent(w)
  PROVE  EventMove(s)
<1> USE DEF RuleLabels, HandLabels, EventLabels, RunLabels, TurnLabels, AskLabels
<1>1. PICK j, r : j = job[w] /\ r = job[w].record
  OBVIOUS
<1>2. /\ Rule(s)!Announce("asked", j.approval) /\ Rule(s)!Turn(w, "counting", j)
      /\ pc[w] = "event_asking" /\ UNCHANGED <<records, matched, rules, approvals>>
  BY <1>1 DEF Rule!AnnounceInEvent, Rule!At
<1>3. RuleTypes(s) /\ JobFits(s, "event_asking", j)
  BY <1>1, <1>2 DEF RuleInv
<1>4. [kind |-> "asked", about |-> j.approval] \in Notice(s)
  <2>1. j.approval \in Nat
    BY <1>3 DEF JobFits, RuleTypes
  <2> QED
    BY <2>1 DEF Notice
<1>5. /\ notices' \in Seq(Notice(s))
      /\ \A n \in DOMAIN notices : n \in DOMAIN notices' /\ notices'[n] = notices[n]
  BY <1>2, <1>3, <1>4, Announced
<1>6. JobFits(s, "counting", j)'
  BY <1>2, <1>3 DEF JobFits
<1>7. /\ records' \in [s.records -> {"none", "new", "done", "cut"}]
      /\ matched' \in [s.records -> SUBSET s.rules] /\ rules' \in [s.rules -> RuleRow]
      /\ approvals' \in Seq(Approval(s)) /\ DOMAIN approvals \subseteq DOMAIN approvals'
  BY <1>2, <1>3 DEF RuleTypes
<1>8. RuleInv(s)' /\ pc'[w] = "counting" /\ job'[w] = j /\ OthersStay(s, w)
  BY <1>2, <1>5, <1>6, <1>7, RuleTurn DEF OthersStay
<1>9. RowsStay
  BY <1>2, <1>5 DEF RowsStay
<1>10. EventInv(s)'
  BY <1>1, <1>2, <1>8, <1>9, EventGoesOn
<1> QED
  BY <1>8, <1>9, <1>10 DEF EventMove

LEMMA RunNoticeStep ==
  ASSUME NEW s, RuleInv(s), EventInv(s), NEW w \in s.workers, NEW u \in s.rules,
         Rule(s)!RunNotice(w, u)
  PROVE  EventMove(s)
<1> USE DEF RuleLabels, HandLabels, EventLabels, RunLabels, TurnLabels, AskLabels
<1>1. PICK r, left, j, about :
        /\ r = job[w].record /\ left = job[w].left
        /\ j = [record |-> r, left |-> left \ {u}, rule |-> u]
        /\ about = [rule |-> u, record |-> r]
  OBVIOUS
<1>2. /\ pc[w] = "running" /\ u \in left /\ ~Rule(s)!CreatesApproval(u)
      /\ Rule(s)!Announce("rule", about) /\ Rule(s)!Turn(w, "counting", j)
      /\ UNCHANGED <<records, matched, rules, approvals>>
  BY <1>1 DEF Rule!RunNotice, Rule!At
<1>3. r \in s.records /\ left \subseteq matched[r] /\ u \in matched[r] /\ RuleTypes(s)
  BY <1>1, <1>2 DEF RuleInv, JobFits
<1>4. j.record = r /\ j.left = left \ {u} /\ j.rule = u /\ {"record", "left"} \subseteq DOMAIN j
  BY <1>1
<1>5. [kind |-> "rule", about |-> about] \in Notice(s)
  <2>1. about \in [rule : s.rules, record : s.records]
    BY <1>1, <1>3
  <2> QED
    BY <2>1 DEF Notice
<1>6. /\ notices' \in Seq(Notice(s)) /\ Len(notices) + 1 \in DOMAIN notices'
      /\ \A n \in DOMAIN notices : n \in DOMAIN notices' /\ notices'[n] = notices[n]
      /\ notices'[Len(notices) + 1] = [kind |-> "rule", about |-> about]
  BY <1>2, <1>3, <1>5, Announced
<1>7. JobFits(s, "counting", j)'
  BY <1>2, <1>3, <1>4 DEF JobFits
<1>8. /\ records' \in [s.records -> {"none", "new", "done", "cut"}]
      /\ matched' \in [s.records -> SUBSET s.rules] /\ rules' \in [s.rules -> RuleRow]
      /\ approvals' \in Seq(Approval(s)) /\ DOMAIN approvals \subseteq DOMAIN approvals'
  BY <1>2, <1>3 DEF RuleTypes
<1>9. RuleInv(s)' /\ pc'[w] = "counting" /\ job'[w] = j /\ OthersStay(s, w)
  BY <1>2, <1>6, <1>7, <1>8, RuleTurn DEF OthersStay
<1>10. RowsStay
  BY <1>2, <1>6 DEF RowsStay
<1>11. Effect(s, r, u)'
  BY <1>1, <1>2, <1>6 DEF Effect, Rule!CreatesApproval
<1>12. EventInv(s)'
  BY <1>1, <1>2, <1>4, <1>9, <1>10, <1>11, EventGoesOn
<1> QED
  BY <1>9, <1>10, <1>12 DEF EventMove

(* The counts of runs and failures, which a deleted rule has no more; the   *)
(* failure of a failure ends the event.                                     *)
LEMMA CountStep ==
  ASSUME NEW s, RuleInv(s), EventInv(s), NEW w \in s.workers,
         Rule(s)!CountRun(w) \/ Rule(s)!CountFailure(w)
  PROVE  EventMove(s)
<1> USE DEF RuleLabels, HandLabels, EventLabels, RunLabels, TurnLabels, AskLabels
<1>1. PICK j, r, k : j = job[w] /\ r = job[w].record /\ k = [job[w] EXCEPT !.left = job[w].left]
  OBVIOUS
<1>2. /\ pc[w] \in {"counting", "failing"} /\ UNCHANGED <<matched, approvals, notices>>
      /\ RuleTypes(s) /\ JobFits(s, pc[w], j)
  BY <1>1 DEF Rule!CountRun, Rule!CountFailure, Rule!At, RuleInv
<1>3. j.rule \in s.rules /\ j.left \subseteq matched[r] /\ r \in s.records /\ j.record = r
  BY <1>1, <1>2 DEF JobFits, RuleTypes
<1>4. PICK label, i :
        /\ label \in {"running", "failing", "idle"}
        /\ Rule(s)!Turn(w, label, i)
        /\ label # "idle" => i \in {j, k} /\ UNCHANGED records
        /\ label = "failing" => i = j /\ pc[w] = "counting"
        /\ label = "idle" => records' = [records EXCEPT ![r] = "cut"]
        /\ \/ UNCHANGED rules
           \/ rules' = Rule(s)!CountedRun(w, j.rule)
           \/ rules' = [rules EXCEPT ![j.rule].failures = @ + 1]
  <2>1. CASE Rule(s)!CountRun(w) /\ Rule(s)!Stored(j.rule)
    <3>1. /\ Rule(s)!Turn(w, "running", j) /\ UNCHANGED records
          /\ rules' = Rule(s)!CountedRun(w, j.rule)
      BY <1>1, <2>1 DEF Rule!CountRun
    <3> QED
      BY <3>1
  <2>2. CASE Rule(s)!CountRun(w) /\ ~Rule(s)!Stored(j.rule)
    <3>1. /\ pc[w] = "counting" /\ Rule(s)!Turn(w, "failing", j)
          /\ UNCHANGED <<records, rules>>
      BY <1>1, <2>2 DEF Rule!CountRun, Rule!At
    <3> QED
      BY <3>1
  <2>3. CASE Rule(s)!CountFailure(w) /\ Rule(s)!Stored(j.rule)
    <3>1. /\ Rule(s)!Turn(w, "running", k) /\ UNCHANGED records
          /\ rules' = [rules EXCEPT ![j.rule].failures = @ + 1]
      BY <1>1, <2>3 DEF Rule!CountFailure, Rule!AfterFailure
    <3> QED
      BY <3>1
  <2>4. CASE Rule(s)!CountFailure(w) /\ ~Rule(s)!Stored(j.rule)
    <3>1. /\ Rule(s)!Turn(w, "idle", None) /\ UNCHANGED rules
          /\ records' = [records EXCEPT ![r] = "cut"]
      BY <1>1, <2>4 DEF Rule!CountFailure, Rule!Done
    <3> QED
      BY <3>1
  <2> QED
    BY <2>1, <2>2, <2>3, <2>4
<1>5. /\ records' \in [s.records -> {"none", "new", "done", "cut"}]
      /\ matched' \in [s.records -> SUBSET s.rules]
      /\ approvals' \in Seq(Approval(s)) /\ DOMAIN approvals \subseteq DOMAIN approvals'
      /\ notices' \in Seq(Notice(s)) /\ rules \in [s.rules -> RuleRow]
  BY <1>2, <1>4 DEF RuleTypes
<1>6. rules' \in [s.rules -> RuleRow]
  BY <1>3, <1>4, <1>5, RunCounted, FailureCounted
<1>7. label # "idle" =>
        i.record = r /\ i.left = j.left /\ {"record", "left"} \subseteq DOMAIN i
  <2>1. {"record", "left"} \subseteq DOMAIN j
    BY <1>2 DEF JobFits
  <2>2. k.record = r /\ k.left = j.left /\ DOMAIN k = DOMAIN j
    BY <1>1, <2>1
  <2> QED
    BY <1>3, <1>4, <2>1, <2>2
<1>8. JobFits(s, label, i)'
  <2>1. CASE label = "idle"
    BY <2>1 DEF JobFits
  <2>2. CASE label = "running"
    BY <1>2, <1>3, <1>7, <2>2 DEF JobFits
  <2>3. CASE label = "failing"
    BY <1>2, <1>3, <1>4, <2>3 DEF JobFits
  <2>4. label = "idle" \/ label = "running" \/ label = "failing"
    BY <1>4
  <2> QED
    BY <2>1, <2>2, <2>3, <2>4
<1>9. RuleInv(s)' /\ pc'[w] = label /\ job'[w] = i /\ OthersStay(s, w)
  <2>1. /\ label \in RuleLabels /\ Rule(s)!Turn(w, label, i)
        /\ \A v \in s.workers \ {w} : pc[v] \in RunLabels => matched'[job[v].record] = matched[job[v].record]
    <3>1. label \in RuleLabels
      BY <1>4
    <3>2. UNCHANGED matched
      BY <1>2
    <3> QED
      BY <1>4, <3>1, <3>2
  <2> HIDE DEF RuleLabels, RunLabels
  <2>2. /\ RuleInv(s)' /\ pc'[w] = label /\ job'[w] = i
        /\ \A v \in s.workers \ {w} : pc'[v] = pc[v] /\ job'[v] = job[v]
    BY <1>5, <1>6, <1>8, <2>1, RuleTurn
  <2> QED
    BY <2>2 DEF OthersStay
<1>10. RowsStay
  BY <1>2 DEF RowsStay
<1>11. CASE label = "idle"
  BY <1>1, <1>2, <1>4, <1>9, <1>10, <1>11, EventEnds DEF EventMove
<1>12. CASE label # "idle"
  BY <1>1, <1>2, <1>4, <1>7, <1>9, <1>10, <1>12, EventGoesOn DEF EventMove
<1> QED
  BY <1>11, <1>12

LEMMA FinishEventStep ==
  ASSUME NEW s, RuleInv(s), EventInv(s), NEW w \in s.workers, Rule(s)!FinishEvent(w)
  PROVE  EventMove(s)
<1> USE DEF RuleLabels, HandLabels, EventLabels, RunLabels, TurnLabels, AskLabels
<1>1. PICK r : r = job[w].record
  OBVIOUS
<1>2. /\ pc[w] = "running" /\ job[w].left = {} /\ records' = [records EXCEPT ![r] = "done"]
      /\ Rule(s)!Turn(w, "idle", None) /\ UNCHANGED <<matched, rules, approvals, notices>>
  BY <1>1 DEF Rule!FinishEvent, Rule!At, Rule!Done
<1>3. /\ records' \in [s.records -> {"none", "new", "done", "cut"}]
      /\ matched' \in [s.records -> SUBSET s.rules] /\ rules' \in [s.rules -> RuleRow]
      /\ approvals' \in Seq(Approval(s)) /\ DOMAIN approvals \subseteq DOMAIN approvals'
      /\ notices' \in Seq(Notice(s))
  BY <1>2 DEF RuleInv, RuleTypes
<1>4. JobFits(s, "idle", None)'
  BY DEF JobFits
<1>5. RuleInv(s)' /\ pc'[w] = "idle" /\ OthersStay(s, w)
  BY <1>2, <1>3, <1>4, RuleTurn DEF OthersStay
<1>6. RowsStay
  BY <1>2 DEF RowsStay
<1> QED
  BY <1>1, <1>2, <1>5, <1>6, EventEnds DEF EventMove

LEMMA EventStep ==
  ASSUME NEW s, RuleInv(s), EventInv(s), NEW w \in s.workers, Rule(s)!Event(w)
  PROVE  EventMove(s)
<1>1. CASE \E r \in s.records : Rule(s)!CreateRecord(w, r)
  BY <1>1, CreateRecordStep
<1>2. CASE Rule(s)!ListRules(w)
  BY <1>2, ListRulesStep
<1>3. ASSUME NEW u \in s.rules, Rule(s)!RunApproval(w, u)
      PROVE  EventMove(s)
  BY <1>3, RunApprovalStep
<1>4. ASSUME NEW u \in s.rules, Rule(s)!RunNotice(w, u)
      PROVE  EventMove(s)
  BY <1>4, RunNoticeStep
<1>5. CASE Rule(s)!AnnounceInEvent(w) \/ Rule(s)!CountRun(w) \/ Rule(s)!CountFailure(w)
           \/ Rule(s)!FinishEvent(w)
  BY <1>5, AnnounceInEventStep, CountStep, FinishEventStep
<1> QED
  BY <1>1, <1>2, <1>3, <1>4, <1>5 DEF Rule!Event

LEMMA RulesUnmoved ==
  ASSUME NEW s, EventInv(s), UNCHANGED <<records, matched, approvals, notices, pc, job>>
  PROVE  EventInv(s)'
<1>1. OneEvent(s)'
  BY DEF EventInv, OneEvent
<1>2. \A r, u : Effect(s, r, u) => Effect(s, r, u)'
  BY DEF Effect, Rule!Asked
<1>3. Effects(s)'
  BY <1>2 DEF EventInv, Effects
<1> QED
  BY <1>1, <1>3 DEF EventInv

LEMMA RuleStep ==
  ASSUME NEW s, RuleInv(s), EventInv(s), Rule(s)!Next
  PROVE  RuleInv(s)' /\ EventInv(s)'
<1>1. ASSUME NEW w \in s.workers, Rule(s)!ByHand(w)
      PROVE  RuleInv(s)' /\ EventInv(s)'
  <2>1. /\ RuleInv(s)' /\ RowsStay /\ UNCHANGED <<records, matched>>
        /\ pc'[w] \notin EventLabels /\ OthersStay(s, w)
    BY <1>1, ByHandStep DEF HandMove, OthersStay
  <2> QED
    BY <2>1, EventQuiet
<1>2. ASSUME NEW w \in s.workers, Rule(s)!Event(w)
      PROVE  RuleInv(s)' /\ EventInv(s)'
  BY <1>2, EventStep DEF EventMove
<1>3. ASSUME NEW u \in s.rules, Rule(s)!Administer(u)
      PROVE  RuleInv(s)' /\ EventInv(s)'
  BY <1>3, AdministerStep, RulesUnmoved
<1>4. ASSUME NEW w \in s.workers, Rule(s)!Abort(w)
      PROVE  RuleInv(s)' /\ EventInv(s)'
  <2>1. /\ RuleInv(s)' /\ UNCHANGED <<records, matched, approvals, notices>>
        /\ pc'[w] = "idle" /\ OthersStay(s, w)
    BY <1>4, AbortStep DEF OthersStay
  <2>2. RowsStay
    BY <2>1 DEF RowsStay
  <2>3. pc'[w] \notin EventLabels
    BY <2>1 DEF EventLabels, RunLabels, TurnLabels
  <2> QED
    BY <2>1, <2>2, <2>3, EventQuiet
<1> QED
  BY <1>1, <1>2, <1>3, <1>4 DEF Rule!Next, Rule!Step

LEMMA RuleStays ==
  ASSUME NEW s, RuleInv(s), EventInv(s), UNCHANGED <<ruling, requestVars>>
  PROVE  RuleInv(s)' /\ EventInv(s)'
<1>1. UNCHANGED <<records, matched, rules, approvals, notices, pc, job>>
  BY DEF ruling, requestVars
<1>2. RuleInv(s)'
  BY <1>1 DEF RuleInv, RuleTypes, JobFits, Approval, Notice
<1> QED
  BY <1>1, <1>2, RulesUnmoved

LEMMA EventMeans ==
  ASSUME NEW s, RuleInv(s), EventInv(s)
  PROVE  Rule(s)!NoRulePassedOver
<1>1. ASSUME NEW r \in s.records, NEW u \in matched[r], records[r] = "done"
      PROVE  Effect(s, r, u)
  BY <1>1 DEF EventInv, Effects
<1> QED
  BY <1>1 DEF Rule!NoRulePassedOver, Effect

(* A record whose event ran to its end was passed over by no rule it        *)
(* matched, whatever fails, is deleted, asked for by hand or cut off        *)
(* meanwhile (executeEvent): for any requests, records and rules.           *)
THEOREM NoRuleIsPassedOver ==
  ASSUME NEW s, RuleAssumed(s)
  PROVE  Rule(s)!Spec => []Rule(s)!NoRulePassedOver
<1>1. Rule(s)!Init => RuleInv(s) /\ EventInv(s)
  BY RuleInit DEF EventInv
<1>2. RuleInv(s) /\ EventInv(s) /\ [Rule(s)!Next]_(Rule(s)!vars) => RuleInv(s)' /\ EventInv(s)'
  <2>1. CASE Rule(s)!Next
    BY <2>1, RuleStep
  <2>2. CASE UNCHANGED Rule(s)!vars
    BY <2>2, RuleStays DEF Rule!vars, Rule!rowVars, Rule!requestVars, ruling, requestVars
  <2> QED
    BY <2>1, <2>2
<1>3. RuleInv(s) /\ EventInv(s) => Rule(s)!NoRulePassedOver
  BY EventMeans
<1> QED
  BY <1>1, <1>2, <1>3, PTL DEF Rule!Spec

(* Counts.  While no rule is deleted or run by hand, a rule's runs and      *)
(* failures number the records it matched, but for those that it is yet to  *)
(* be counted for.                                                          *)
Due(s, w, r, u) ==
  /\ pc[w] \in RunLabels /\ job[w].record = r
  /\ \/ u \in job[w].left
     \/ pc[w] \in TurnLabels /\ job[w].rule = u

CountedFor(s, u) ==
  {r \in s.records : u \in matched[r] /\ \A w \in s.workers : ~Due(s, w, r, u)}

ByHandLabels == {"asking", "hand_asking", "hand_counting", "reporting"}

CountInv(s) ==
  /\ \A w \in s.workers : pc[w] \notin ByHandLabels
  /\ \A r \in s.records : \A u \in matched[r] : Rule(s)!Stored(u)
  /\ \A u \in s.rules : rules[u].runs + rules[u].failures = Cardinality(CountedFor(s, u))

CountAssumed(s) ==
  RuleAssumed(s) /\ ~s.deleting /\ s.byHand = 0 /\ IsFiniteSet(s.records)

LEMMA TurnIs ==
  ASSUME NEW s, RuleInv(s), NEW w \in s.workers, NEW label, NEW j, Rule(s)!Turn(w, label, j)
  PROVE  pc'[w] = label /\ job'[w] = j /\ OthersStay(s, w)
  BY DEF RuleInv, RuleTypes, Rule!Turn, OthersStay

LEMMA CountInit ==
  ASSUME NEW s, CountAssumed(s), Rule(s)!Init
  PROVE  CountInv(s)
<1>1. \A u \in s.rules : CountedFor(s, u) = {}
  BY DEF CountedFor, Rule!Init
<1>2. \A u \in s.rules : rules[u].runs + rules[u].failures = 0
  BY DEF Rule!Init
<1>3. \A u \in s.rules : rules[u].runs + rules[u].failures = Cardinality(CountedFor(s, u))
  BY <1>1, <1>2, FS_EmptySet
<1> QED
  BY <1>3 DEF CountInv, Rule!Init, Rule!NoRequests, ByHandLabels

(* The turn of a rule is as due as before. *)
LEMMA CountQuiet ==
  ASSUME NEW s, CountInv(s), NEW w \in s.workers, OthersStay(s, w), pc'[w] \notin ByHandLabels,
         UNCHANGED <<matched, rules>>,
         \A r \in s.records, u \in s.rules : Due(s, w, r, u)' <=> Due(s, w, r, u)
  PROVE  CountInv(s)'
<1>1. \A v \in s.workers, r \in s.records, u \in s.rules : Due(s, v, r, u)' <=> Due(s, v, r, u)
  BY DEF Due, OthersStay
<1>2. \A u \in s.rules : CountedFor(s, u)' = CountedFor(s, u)
  BY <1>1 DEF CountedFor
<1>3. \A u \in s.rules : rules'[u].runs + rules'[u].failures = Cardinality(CountedFor(s, u)')
  BY <1>2 DEF CountInv
<1> QED
  BY <1>3 DEF CountInv, OthersStay, Rule!Stored

LEMMA DueInTurn ==
  ASSUME NEW s, NEW w, pc[w] \in TurnLabels
  PROVE  \A r, u : Due(s, w, r, u) <=> r = job[w].record /\ (u \in job[w].left \/ u = job[w].rule)
  BY DEF Due, RunLabels

LEMMA DueBetween ==
  ASSUME NEW s, NEW w, pc[w] = "running"
  PROVE  \A r, u : Due(s, w, r, u) <=> r = job[w].record /\ u \in job[w].left
  BY DEF Due, RunLabels, TurnLabels

LEMMA DueAfter ==
  ASSUME NEW s, NEW w, pc'[w] = "running"
  PROVE  \A r, u : Due(s, w, r, u)' <=> r = job'[w].record /\ u \in job'[w].left
  BY DEF Due, RunLabels, TurnLabels

(* A rule's turn is over: one more record counted. *)
LEMMA CountOne ==
  ASSUME NEW s, CountAssumed(s), RuleInv(s), OneEvent(s), CountInv(s), NEW w \in s.workers,
         OthersStay(s, w), pc[w] \in TurnLabels, pc'[w] = "running", UNCHANGED matched,
         NEW r, r = job[w].record, job'[w].record = r, job'[w].left = job[w].left,
         NEW u, u = job[w].rule,
         \A x \in s.rules :
           /\ rules'[x].status = rules[x].status
           /\ rules'[x].runs + rules'[x].failures =
                rules[x].runs + rules[x].failures + (IF x = u THEN 1 ELSE 0)
  PROVE  CountInv(s)'
<1>1. /\ r \in s.records /\ u \in matched[r] /\ u \notin job[w].left /\ u \in s.rules
      /\ matched \in [s.records -> SUBSET s.rules]
  BY DEF RuleInv, RuleTypes, JobFits, EventLabels, RunLabels
<1>2. \A v \in s.workers \ {w} : pc[v] \in RunLabels => job[v].record # r
  BY DEF OneEvent, EventLabels, RunLabels
<1>3. /\ Due(s, w, r, u) /\ \A v \in s.workers : ~Due(s, v, r, u)'
      /\ \A v \in s.workers, q \in s.records, x \in s.rules :
           q # r \/ x # u => (Due(s, v, q, x)' <=> Due(s, v, q, x))
  <2>1. /\ Due(s, w, r, u) /\ ~Due(s, w, r, u)'
        /\ \A q, x : q # r \/ x # u => (Due(s, w, q, x)' <=> Due(s, w, q, x))
    <3>1. \A q, x : Due(s, w, q, x) <=> q = r /\ (x \in job[w].left \/ x = u)
      BY DueInTurn
    <3>2. \A q, x : Due(s, w, q, x)' <=> q = r /\ x \in job[w].left
      BY DueAfter
    <3> QED
      BY <1>1, <3>1, <3>2
  <2>2. ASSUME NEW v \in s.workers \ {w}
        PROVE  ~Due(s, v, r, u)' /\ \A q, x : Due(s, v, q, x)' <=> Due(s, v, q, x)
    BY <1>2 DEF Due, OthersStay
  <2> QED
    BY <2>1, <2>2
<1>4. CountedFor(s, u)' = CountedFor(s, u) \union {r} /\ r \notin CountedFor(s, u)
  BY <1>1, <1>3 DEF CountedFor
<1>5. \A x \in s.rules \ {u} : CountedFor(s, x)' = CountedFor(s, x)
  BY <1>3 DEF CountedFor
<1>6. IsFiniteSet(CountedFor(s, u))
  <2>1. CountedFor(s, u) \subseteq s.records
    BY DEF CountedFor
  <2> QED
    BY <2>1, FS_Subset DEF CountAssumed
<1>7. Cardinality(CountedFor(s, u)') = Cardinality(CountedFor(s, u)) + 1
  BY <1>4, <1>6, FS_AddElement
<1>8. \A x \in s.rules : rules'[x].runs + rules'[x].failures = Cardinality(CountedFor(s, x)')
  <2>1. rules'[u].runs + rules'[u].failures = Cardinality(CountedFor(s, u)')
    BY <1>1, <1>7 DEF CountInv
  <2>2. ASSUME NEW x \in s.rules \ {u}
        PROVE  rules'[x].runs + rules'[x].failures = Cardinality(CountedFor(s, x)')
    <3>1. rules[x].runs + rules[x].failures = Cardinality(CountedFor(s, x))
      <4>1. \A y \in s.rules : rules[y].runs + rules[y].failures = Cardinality(CountedFor(s, y))
        BY Zenon DEF CountInv
      <4> QED
        BY Zenon, <4>1
    <3>2. Cardinality(CountedFor(s, x)') = Cardinality(CountedFor(s, x))
      BY <1>5
    <3>3. rules'[x].runs + rules'[x].failures = rules[x].runs + rules[x].failures
      BY DEF RuleInv, RuleTypes, RuleRow
    <3> QED
      BY <3>1, <3>2, <3>3
  <2> QED
    BY <2>1, <2>2
<1>9. \A q \in s.records : \A x \in matched'[q] : Rule(s)!Stored(x)'
  BY <1>1 DEF CountInv, Rule!Stored
<1>10. \A v \in s.workers : pc'[v] \notin ByHandLabels
  BY DEF CountInv, OthersStay, ByHandLabels
<1> QED
  BY <1>8, <1>9, <1>10 DEF CountInv

LEMMA DueTurning ==
  ASSUME NEW s, NEW w, pc'[w] \in TurnLabels
  PROVE  \A r, u :
           Due(s, w, r, u)' <=> r = job'[w].record /\ (u \in job'[w].left \/ u = job'[w].rule)
  BY DEF Due, RunLabels

LEMMA DueByNone ==
  ASSUME NEW s, NEW w
  PROVE  /\ pc[w] \notin RunLabels => \A r, u : ~Due(s, w, r, u)
         /\ pc'[w] \notin RunLabels => \A r, u : ~Due(s, w, r, u)'
  BY DEF Due

LEMMA CountListed ==
  ASSUME NEW s, CountAssumed(s), RuleInv(s), EventInv(s), CountInv(s), NEW w \in s.workers,
         Rule(s)!ListRules(w)
  PROVE  CountInv(s)'
<1>1. PICK r, found, j :
        /\ r = job[w].record /\ found = {u \in s.rules : Rule(s)!Matches(u, r)}
        /\ j = [record |-> r, left |-> found]
  OBVIOUS
<1>2. /\ pc[w] = "listing" /\ matched' = [matched EXCEPT ![r] = found]
      /\ Rule(s)!Turn(w, "running", j) /\ UNCHANGED <<records, rules, approvals, notices>>
  BY <1>1 DEF Rule!ListRules, Rule!At
<1>3. pc'[w] = "running" /\ job'[w] = j /\ OthersStay(s, w)
  BY <1>2, TurnIs
<1>4. /\ r \in s.records /\ matched \in [s.records -> SUBSET s.rules] /\ matched[r] = {}
  BY <1>1, <1>2 DEF RuleInv, RuleTypes, JobFits, EventInv, OneEvent, EventLabels
<1>5. /\ matched'[r] = found
      /\ \A q \in s.records : q # r => matched'[q] = matched[q]
  BY <1>2, <1>4
<1>6. \A q, x : ~Due(s, w, q, x) /\ (Due(s, w, q, x)' <=> q = r /\ x \in found)
  <2>1. \A q, x : ~Due(s, w, q, x)
    BY <1>2, DueByNone DEF RunLabels, TurnLabels
  <2>2. \A q, x : Due(s, w, q, x)' <=> q = j.record /\ x \in j.left
    BY <1>3, DueAfter
  <2>3. j.record = r /\ j.left = found
    BY <1>1
  <2> QED
    BY <2>1, <2>2, <2>3
<1>7. \A v \in s.workers \ {w} : \A q, x : Due(s, v, q, x)' <=> Due(s, v, q, x)
  BY <1>3 DEF Due, OthersStay
<1>8. ASSUME NEW x \in s.rules
      PROVE  CountedFor(s, x)' = CountedFor(s, x)
  <2>1. ASSUME NEW q \in s.records
        PROVE  q \in CountedFor(s, x)' <=> q \in CountedFor(s, x)
    <3>1. CASE q = r
      <4>1. q \notin CountedFor(s, x)
        BY <1>4, <3>1 DEF CountedFor
      <4>2. q \notin CountedFor(s, x)'
        BY <1>5, <1>6, <3>1 DEF CountedFor
      <4> QED
        BY <4>1, <4>2
    <3>2. CASE q # r
      <4>1. \A v \in s.workers : Due(s, v, q, x)' <=> Due(s, v, q, x)
        BY <1>6, <1>7, <3>2
      <4> QED
        BY <1>5, <3>2, <4>1 DEF CountedFor
    <3> QED
      BY <3>1, <3>2
  <2>2. CountedFor(s, x) \subseteq s.records /\ CountedFor(s, x)' \subseteq s.records
    BY DEF CountedFor
  <2> QED
    BY <2>1, <2>2
<1>9. \A x \in s.rules : rules'[x].runs + rules'[x].failures = Cardinality(CountedFor(s, x)')
  BY <1>2, <1>8 DEF CountInv
<1>10. \A q \in s.records : \A x \in matched'[q] : Rule(s)!Stored(x)'
  <2>1. \A x \in found : Rule(s)!Stored(x)'
    BY <1>1, <1>2 DEF Rule!Matches, Rule!Stored
  <2>2. \A q \in s.records : \A x \in matched[q] : Rule(s)!Stored(x)'
    BY <1>2 DEF CountInv, Rule!Stored
  <2> QED
    BY <1>5, <2>1, <2>2
<1>11. \A v \in s.workers : pc'[v] \notin ByHandLabels
  BY <1>3 DEF CountInv, OthersStay, ByHandLabels
<1> QED
  BY <1>9, <1>10, <1>11 DEF CountInv

(* A rule's turn begins, or goes on. *)
LEMMA CountTurn ==
  ASSUME NEW s, CountAssumed(s), RuleInv(s), CountInv(s), NEW w \in s.workers,
         \/ \E u \in s.rules : Rule(s)!RunApproval(w, u) \/ Rule(s)!RunNotice(w, u)
         \/ Rule(s)!AnnounceInEvent(w)
  PROVE  CountInv(s)'
<1>1. PICK r, left : r = job[w].record /\ left = job[w].left
  OBVIOUS
<1>2. ASSUME NEW u \in s.rules, Rule(s)!RunApproval(w, u) \/ Rule(s)!RunNotice(w, u)
      PROVE  CountInv(s)'
  <2>1. PICK i, k :
          /\ i = [record |-> r, left |-> left \ {u}, rule |-> u, approval |-> Len(approvals) + 1]
          /\ k = [record |-> r, left |-> left \ {u}, rule |-> u]
    OBVIOUS
  <2>2. PICK label, j :
          /\ label \in TurnLabels /\ Rule(s)!Turn(w, label, j) /\ j \in {i, k}
          /\ pc[w] = "running" /\ u \in left /\ UNCHANGED <<matched, rules>>
    <3>1. CASE Rule(s)!RunApproval(w, u) /\ Rule(s)!Unique(r)
      <4>1. /\ Rule(s)!Turn(w, "event_asking", i)
            /\ pc[w] = "running" /\ u \in left /\ UNCHANGED <<matched, rules>>
        BY <1>1, <2>1, <3>1 DEF Rule!RunApproval, Rule!At
      <4> QED
        BY <4>1 DEF TurnLabels
    <3>2. CASE Rule(s)!RunApproval(w, u) /\ ~Rule(s)!Unique(r)
      <4>1. /\ Rule(s)!Turn(w, "failing", i)
            /\ pc[w] = "running" /\ u \in left /\ UNCHANGED <<matched, rules>>
        BY <1>1, <2>1, <3>2 DEF Rule!RunApproval, Rule!At
      <4> QED
        BY <4>1 DEF TurnLabels
    <3>3. CASE Rule(s)!RunNotice(w, u)
      <4>1. /\ Rule(s)!Turn(w, "counting", k)
            /\ pc[w] = "running" /\ u \in left /\ UNCHANGED <<matched, rules>>
        BY <1>1, <2>1, <3>3 DEF Rule!RunNotice, Rule!At
      <4> QED
        BY <4>1 DEF TurnLabels
    <3> QED
      BY <1>2, <3>1, <3>2, <3>3
  <2>3. pc'[w] = label /\ job'[w] = j /\ OthersStay(s, w)
    BY <2>2, TurnIs
  <2>4. j.record = r /\ j.left = left \ {u} /\ j.rule = u
    BY <2>1, <2>2
  <2>5. \A q, x : Due(s, w, q, x) <=> q = r /\ x \in left
    BY <1>1, <2>2, DueBetween
  <2>6. \A q, x : Due(s, w, q, x)' <=> q = r /\ (x \in left \ {u} \/ x = u)
    BY <2>2, <2>3, <2>4, DueTurning
  <2>7. pc'[w] \notin ByHandLabels
    BY <2>2, <2>3 DEF TurnLabels, ByHandLabels
  <2>8. \A q \in s.records, x \in s.rules : Due(s, w, q, x)' <=> Due(s, w, q, x)
    BY <2>2, <2>5, <2>6
  <2> QED
    BY <2>2, <2>3, <2>7, <2>8, CountQuiet
<1>3. CASE Rule(s)!AnnounceInEvent(w)
  <2>1. PICK j : j = job[w]
    OBVIOUS
  <2>2. /\ pc[w] = "event_asking" /\ Rule(s)!Turn(w, "counting", j) /\ UNCHANGED <<matched, rules>>
    BY <1>3, <2>1 DEF Rule!AnnounceInEvent, Rule!At
  <2>3. pc'[w] = "counting" /\ job'[w] = job[w] /\ OthersStay(s, w)
    BY <2>1, <2>2, TurnIs
  <2>4. \A q, x : Due(s, w, q, x) <=> q = r /\ (x \in left \/ x = job[w].rule)
    BY <1>1, <2>2, DueInTurn DEF TurnLabels
  <2>5. \A q, x : Due(s, w, q, x)' <=> q = r /\ (x \in left \/ x = job[w].rule)
    BY <1>1, <2>3, DueTurning DEF TurnLabels
  <2>6. pc'[w] \notin ByHandLabels
    BY <2>3 DEF ByHandLabels
  <2>7. \A q \in s.records, x \in s.rules : Due(s, w, q, x)' <=> Due(s, w, q, x)
    BY <2>4, <2>5
  <2> QED
    BY <2>2, <2>3, <2>6, <2>7, CountQuiet
<1> QED
  BY <1>2, <1>3

LEMMA CountTurnEnds ==
  ASSUME NEW s, CountAssumed(s), RuleInv(s), EventInv(s), CountInv(s), NEW w \in s.workers,
         Rule(s)!CountRun(w) \/ Rule(s)!CountFailure(w)
  PROVE  CountInv(s)'
<1>1. PICK r, u, j, k :
        r = job[w].record /\ u = job[w].rule /\ j = job[w] /\ k = [job[w] EXCEPT !.left = job[w].left]
  OBVIOUS
<1>2. /\ pc[w] \in TurnLabels /\ UNCHANGED matched /\ JobFits(s, pc[w], job[w])
      /\ rules \in [s.rules -> RuleRow] /\ matched \in [s.records -> SUBSET s.rules]
  BY DEF Rule!CountRun, Rule!CountFailure, Rule!At, TurnLabels, RuleInv, RuleTypes
<1>3. /\ r \in s.records /\ u \in matched[r] /\ u \in s.rules
      /\ {"record", "left"} \subseteq DOMAIN job[w]
  BY <1>1, <1>2 DEF JobFits, EventLabels, RunLabels
<1>4. Rule(s)!Stored(u)
  BY <1>3 DEF CountInv
<1>5. PICK i :
        /\ i \in {j, k} /\ Rule(s)!Turn(w, "running", i)
        /\ \/ rules' = Rule(s)!CountedRun(w, u)
           \/ rules' = [rules EXCEPT ![u].failures = @ + 1]
  <2>1. CASE Rule(s)!CountRun(w)
    <3>1. Rule(s)!Turn(w, "running", j) /\ rules' = Rule(s)!CountedRun(w, u)
      BY <1>1, <1>4, <2>1 DEF Rule!CountRun
    <3> QED
      BY <3>1
  <2>2. CASE Rule(s)!CountFailure(w)
    <3>1. Rule(s)!Turn(w, "running", k) /\ rules' = [rules EXCEPT ![u].failures = @ + 1]
      BY <1>1, <1>4, <2>2 DEF Rule!CountFailure, Rule!AfterFailure
    <3> QED
      BY <3>1
  <2> QED
    BY <2>1, <2>2
<1>6. pc'[w] = "running" /\ job'[w] = i /\ OthersStay(s, w)
  BY <1>5, TurnIs
<1>7. job'[w].record = r /\ job'[w].left = job[w].left
  BY <1>1, <1>3, <1>5, <1>6
<1>8. \A x \in s.rules :
        /\ rules'[x].status = rules[x].status
        /\ rules'[x].runs + rules'[x].failures =
             rules[x].runs + rules[x].failures + (IF x = u THEN 1 ELSE 0)
  <2>1. \A x \in s.rules : rules[x].runs \in Nat /\ rules[x].failures \in Nat
    BY <1>2 DEF RuleRow
  <2>2. CASE rules' = Rule(s)!CountedRun(w, u)
    BY <1>2, <1>3, <2>1, <2>2, RunCounted
  <2>3. CASE rules' = [rules EXCEPT ![u].failures = @ + 1]
    BY <1>2, <1>3, <2>1, <2>3, FailureCounted
  <2> QED
    BY <1>5, <2>2, <2>3
<1> QED
  BY <1>1, <1>2, <1>6, <1>7, <1>8, CountOne DEF EventInv

LEMMA CountByHandQuiet ==
  ASSUME NEW s, CountAssumed(s), RuleInv(s), CountInv(s), NEW w \in s.workers, Rule(s)!ByHand(w)
  PROVE  CountInv(s)'
<1>1. ~Rule(s)!MoreByHand
  <2>1. approvals \in Seq(Approval(s)) /\ notices \in Seq(Notice(s)) /\ s.byHand = 0
    BY DEF RuleInv, RuleTypes, CountAssumed
  <2>2. Len(approvals) \in Nat /\ Len(notices) \in Nat
    BY <2>1
  <2> QED
    BY <2>1, <2>2 DEF Rule!MoreByHand
<1>2. pc[w] \notin ByHandLabels
  BY DEF CountInv
<1>3. \/ \E a, role, st : Rule(s)!DecideRead(w, a, role, st)
      \/ Rule(s)!DecideCommit(w) \/ Rule(s)!AnnounceDecision(w)
  BY <1>1, <1>2
  DEF Rule!ByHand, Rule!CreateApproval, Rule!RunRule, Rule!AnnounceApproval, Rule!AnnounceByHand,
      Rule!CountByHand, Rule!ReportByHand, Rule!At, ByHandLabels
<1>4. PICK label, j :
        /\ label \in {"deciding", "telling", "idle"} /\ Rule(s)!Turn(w, label, j)
        /\ pc[w] \in {"idle", "deciding", "telling"} /\ UNCHANGED <<matched, rules>>
  <2>1. ASSUME NEW a, NEW role, NEW st, Rule(s)!DecideRead(w, a, role, st)
        PROVE  \E j : Rule(s)!Turn(w, "deciding", j) /\ pc[w] = "idle" /\ UNCHANGED <<matched, rules>>
    BY <2>1 DEF Rule!DecideRead, Rule!Idle, Rule!At, Rule!rowVars
  <2>2. CASE Rule(s)!DecideCommit(w)
    BY <2>2 DEF Rule!DecideCommit, Rule!At
  <2>3. CASE Rule(s)!AnnounceDecision(w)
    BY <2>3 DEF Rule!AnnounceDecision, Rule!At, Rule!Done
  <2> QED
    BY <1>3, <2>1, <2>2, <2>3
<1>5. pc'[w] = label /\ OthersStay(s, w)
  BY <1>4, TurnIs
<1>6. pc'[w] \notin ByHandLabels /\ pc[w] \notin RunLabels /\ pc'[w] \notin RunLabels
  BY <1>4, <1>5 DEF ByHandLabels, RunLabels, TurnLabels
<1>7. \A q \in s.records, x \in s.rules : Due(s, w, q, x)' <=> Due(s, w, q, x)
  BY <1>6, DueByNone
<1> QED
  BY <1>4, <1>5, <1>6, <1>7, CountQuiet

LEMMA CountingStep ==
  ASSUME NEW s, CountAssumed(s), RuleInv(s), EventInv(s), CountInv(s), Rule(s)!Step
  PROVE  CountInv(s)'
<1>1. ASSUME NEW w \in s.workers, Rule(s)!ByHand(w)
      PROVE  CountInv(s)'
  BY <1>1, CountByHandQuiet
<1>2. ASSUME NEW w \in s.workers, NEW r \in s.records, Rule(s)!CreateRecord(w, r)
      PROVE  CountInv(s)'
  <2>1. PICK j : j = [record |-> r]
    OBVIOUS
  <2>2. pc[w] = "idle" /\ Rule(s)!Turn(w, "listing", j) /\ UNCHANGED <<matched, rules>>
    BY <1>2, <2>1 DEF Rule!CreateRecord, Rule!Idle, Rule!At
  <2>3. pc'[w] = "listing" /\ OthersStay(s, w)
    BY <2>2, TurnIs
  <2>4. pc'[w] \notin ByHandLabels /\ pc[w] \notin RunLabels /\ pc'[w] \notin RunLabels
    BY <2>2, <2>3 DEF ByHandLabels, RunLabels, TurnLabels
  <2>5. \A q \in s.records, x \in s.rules : Due(s, w, q, x)' <=> Due(s, w, q, x)
    BY <2>4, DueByNone
  <2> QED
    BY <2>2, <2>3, <2>4, <2>5, CountQuiet
<1>3. ASSUME NEW w \in s.workers, Rule(s)!FinishEvent(w)
      PROVE  CountInv(s)'
  <2>1. /\ pc[w] = "running" /\ job[w].left = {} /\ Rule(s)!Turn(w, "idle", None)
        /\ UNCHANGED <<matched, rules>>
    BY <1>3 DEF Rule!FinishEvent, Rule!At, Rule!Done
  <2>2. pc'[w] = "idle" /\ OthersStay(s, w)
    BY <2>1, TurnIs
  <2>3. pc'[w] \notin ByHandLabels /\ pc'[w] \notin RunLabels
    BY <2>2 DEF ByHandLabels, RunLabels, TurnLabels
  <2>4. \A q, x : Due(s, w, q, x) <=> q = job[w].record /\ x \in job[w].left
    BY <2>1, DueBetween
  <2>5. \A q \in s.records, x \in s.rules : Due(s, w, q, x)' <=> Due(s, w, q, x)
    BY <2>1, <2>3, <2>4, DueByNone
  <2> QED
    BY <2>1, <2>2, <2>3, <2>5, CountQuiet
<1>4. ASSUME NEW u \in s.rules, Rule(s)!Administer(u)
      PROVE  CountInv(s)'
  <2>1. /\ UNCHANGED <<matched, pc, job>>
        /\ \A v \in s.rules :
             /\ rules'[v].runs = rules[v].runs /\ rules'[v].failures = rules[v].failures
             /\ Rule(s)!Stored(v) => Rule(s)!Stored(v)' \/ s.deleting
    BY <1>4, AdministerStep
  <2>2. \A x \in s.rules : CountedFor(s, x)' = CountedFor(s, x)
    BY <2>1 DEF CountedFor, Due
  <2>3. \A x \in s.rules : rules'[x].runs + rules'[x].failures = Cardinality(CountedFor(s, x)')
    BY <2>1, <2>2 DEF CountInv
  <2>4. \A q \in s.records : \A x \in matched'[q] : Rule(s)!Stored(x)'
    BY <2>1 DEF CountInv, CountAssumed, RuleInv, RuleTypes
  <2> QED
    BY <2>1, <2>3, <2>4 DEF CountInv
<1> QED
  BY <1>1, <1>2, <1>3, <1>4, CountListed, CountTurn, CountTurnEnds DEF Rule!Step, Rule!Event

LEMMA RuleCardinality ==
  ASSUME NEW s, NEW S
  PROVE  Rule(s)!Cardinality(S) = Cardinality(S)
  BY Zenon DEF Cardinality, Rule!Cardinality

LEMMA CountMeans ==
  ASSUME NEW s, CountInv(s)
  PROVE  Rule(s)!EveryRuleCounted
<1>1. ASSUME Rule(s)!AllIdle, NEW u \in s.rules
      PROVE  rules[u].runs + rules[u].failures
               = Rule(s)!Cardinality({r \in s.records : u \in matched[r]})
  <2>1. \A r \in s.records, w \in s.workers : ~Due(s, w, r, u)
    BY <1>1 DEF Rule!AllIdle, Rule!Idle, Rule!At, Due, RunLabels, TurnLabels
  <2>2. CountedFor(s, u) = {r \in s.records : u \in matched[r]}
    BY <2>1 DEF CountedFor
  <2>3. rules[u].runs + rules[u].failures = Cardinality(CountedFor(s, u))
    BY DEF CountInv
  <2> QED
    BY <2>2, <2>3, RuleCardinality
<1> QED
  BY <1>1 DEF Rule!EveryRuleCounted

(* Announcements, one request at a time: every approval is announced once,  *)
(* but for the one about to be; a decision is announced once it is written. *)
TalkLabels == AskLabels \union {"deciding", "telling"}
Talk == {"asked"} \union Decisions

Said(kind, a) == {n \in DOMAIN notices : notices[n] = [kind |-> kind, about |-> a]}

AskedOnce(s, a) ==
  LET asking == \E w \in s.workers : pc[w] \in AskLabels /\ job[w].approval = a
  IN  /\ asking => Said("asked", a) = {}
      /\ ~asking => \E n : Said("asked", a) = {n}

DecisionTold(s, a) ==
  /\ approvals[a].status = "PENDING" => \A k \in Decisions : Said(k, a) = {}
  /\ approvals[a].status # "PENDING" =>
       \/ Said(approvals[a].status, a) # {}
       \/ \E w \in s.workers : pc[w] = "telling" /\ job[w].approval = a

AnnounceInv(s) ==
  /\ \A a \in DOMAIN approvals : AskedOnce(s, a) /\ DecisionTold(s, a)
  /\ \A n \in DOMAIN notices : notices[n].kind \in Talk => notices[n].about \in DOMAIN approvals
  /\ \A w \in s.workers :
       /\ pc[w] = "deciding" => approvals[job[w].approval].status = "PENDING"
       /\ pc[w] = "telling" => approvals[job[w].approval].status = job[w].status

AnnounceAssumed(s) == RuleAssumed(s) /\ \A v, w \in s.workers : v = w

AnnounceMove(s) == AnnounceInv(s)' /\ Rule(s)!DecisionsStand

LEMMA AnnounceInit ==
  ASSUME NEW s, AnnounceAssumed(s), Rule(s)!Init
  PROVE  AnnounceInv(s)
  BY DEF Rule!Init, Rule!NoRequests, AnnounceInv

LEMMA SaidMore ==
  ASSUME NEW s, RuleTypes(s), NEW kind, NEW about, [kind |-> kind, about |-> about] \in Notice(s),
         Rule(s)!Announce(kind, about)
  PROVE  \A k, a :
           /\ Said(k, a)' = Said(k, a) \union
                (IF k = kind /\ a = about THEN {Len(notices) + 1} ELSE {})
           /\ Len(notices) + 1 \notin Said(k, a)
<1>1. /\ notices \in Seq(Notice(s)) /\ notices' \in Seq(Notice(s))
      /\ Len(notices') = Len(notices) + 1
      /\ \A n \in DOMAIN notices : n \in DOMAIN notices' /\ notices'[n] = notices[n]
      /\ notices'[Len(notices) + 1] = [kind |-> kind, about |-> about]
  BY Announced DEF RuleTypes
<1>2. DOMAIN notices' = DOMAIN notices \union {Len(notices) + 1}
  <2>1. DOMAIN notices = 1..Len(notices) /\ DOMAIN notices' = 1..Len(notices')
    BY <1>1
  <2>2. Len(notices) \in Nat
    BY <1>1
  <2> QED
    BY <1>1, <2>1, <2>2
<1>3. Len(notices) + 1 \notin DOMAIN notices
  BY <1>1
<1>4. \A k, a : [kind |-> kind, about |-> about] = [kind |-> k, about |-> a] <=> k = kind /\ a = about
  <2>1. \A k, a : [kind |-> k, about |-> a].kind = k /\ [kind |-> k, about |-> a].about = a
    OBVIOUS
  <2> QED
    BY Zenon, <2>1
<1>5. ASSUME NEW k, NEW a
      PROVE  /\ Said(k, a)' = Said(k, a) \union
                  (IF k = kind /\ a = about THEN {Len(notices) + 1} ELSE {})
             /\ Len(notices) + 1 \notin Said(k, a)
  <2>1. Len(notices) + 1 \in Said(k, a)' <=> k = kind /\ a = about
    BY <1>1, <1>2, <1>4 DEF Said
  <2>2. \A n \in DOMAIN notices : n \in Said(k, a)' <=> n \in Said(k, a)
    BY <1>1, <1>2 DEF Said
  <2>3. Said(k, a) \subseteq DOMAIN notices /\ Said(k, a)' \subseteq DOMAIN notices'
    BY DEF Said
  <2> QED
    BY <1>2, <1>3, <2>1, <2>2, <2>3
<1> QED
  BY <1>5

LEMMA StatusKnown ==
  ASSUME NEW s, RuleInv(s), NEW a \in DOMAIN approvals
  PROVE  approvals[a].status \in {"PENDING"} \union Decisions
<1>1. approvals \in Seq(Approval(s))
  BY DEF RuleInv, RuleTypes
<1>2. approvals[a] \in Approval(s)
  BY <1>1
<1> QED
  BY <1>2 DEF Approval

(* Nothing is asked for, decided or told of either. *)
LEMMA AnnounceQuiet ==
  ASSUME NEW s, AnnounceAssumed(s), RuleInv(s), AnnounceInv(s), NEW w \in s.workers,
         UNCHANGED approvals, pc[w] \notin TalkLabels, pc'[w] \notin TalkLabels,
         \A k \in Talk : \A a : Said(k, a)' = Said(k, a),
         \A n \in DOMAIN notices' :
           (n \in DOMAIN notices /\ notices'[n] = notices[n]) \/ notices'[n].kind \notin Talk
  PROVE  AnnounceMove(s)
<1>1. \A v \in s.workers : pc[v] \notin TalkLabels /\ pc'[v] \notin TalkLabels
  BY DEF AnnounceAssumed
<1>2. ASSUME NEW a \in DOMAIN approvals
      PROVE  AskedOnce(s, a)'
  <2>1. AskedOnce(s, a)
    BY DEF AnnounceInv
  <2> QED
    BY <1>1, <2>1 DEF AskedOnce, TalkLabels, Talk
<1>3. ASSUME NEW a \in DOMAIN approvals
      PROVE  DecisionTold(s, a)'
  <2>1. DecisionTold(s, a) /\ approvals[a].status \in {"PENDING"} \union Decisions
    BY StatusKnown DEF AnnounceInv
  <2>2. approvals[a].status = "PENDING" \/ approvals[a].status \in Talk
    BY <2>1 DEF Talk
  <2> QED
    BY <1>1, <2>1, <2>2 DEF DecisionTold, TalkLabels, Talk, Decisions
<1>4. AnnounceInv(s)'
  BY <1>1, <1>2, <1>3 DEF AnnounceInv, TalkLabels
<1> QED
  BY <1>4 DEF AnnounceMove, Rule!DecisionsStand

LEMMA AnnounceSilent ==
  ASSUME NEW s, AnnounceAssumed(s), RuleInv(s), AnnounceInv(s), NEW w \in s.workers,
         UNCHANGED <<approvals, notices>>, NEW label, NEW j, Rule(s)!Turn(w, label, j),
         pc[w] \notin TalkLabels, label \notin TalkLabels
  PROVE  AnnounceMove(s)
<1>1. pc'[w] = label
  BY TurnIs
<1>2. \A k \in Talk : \A a : Said(k, a)' = Said(k, a)
  BY DEF Said
<1> QED
  BY <1>1, <1>2, AnnounceQuiet

LEMMA AnnounceElse ==
  ASSUME NEW s, AnnounceAssumed(s), RuleInv(s), AnnounceInv(s), NEW w \in s.workers,
         UNCHANGED approvals, NEW label, NEW j, Rule(s)!Turn(w, label, j),
         pc[w] \notin TalkLabels, label \notin TalkLabels,
         NEW kind \in {"rule", "ran"}, NEW about, [kind |-> kind, about |-> about] \in Notice(s),
         Rule(s)!Announce(kind, about)
  PROVE  AnnounceMove(s)
<1>1. pc'[w] = label
  BY TurnIs
<1>2. RuleTypes(s) /\ kind \notin Talk
  BY DEF RuleInv, Talk, Decisions
<1>3. \A k \in Talk : \A a : Said(k, a)' = Said(k, a)
  <2>1. \A k, a : Said(k, a)' = Said(k, a) \union
          (IF k = kind /\ a = about THEN {Len(notices) + 1} ELSE {})
    BY <1>2, SaidMore
  <2>2. \A k \in Talk : k # kind
    BY <1>2
  <2> QED
    BY <2>1, <2>2
<1>4. \A n \in DOMAIN notices' :
        (n \in DOMAIN notices /\ notices'[n] = notices[n]) \/ notices'[n].kind \notin Talk
  <2>1. /\ notices' \in Seq(Notice(s)) /\ Len(notices') = Len(notices) + 1
        /\ \A n \in DOMAIN notices : n \in DOMAIN notices' /\ notices'[n] = notices[n]
        /\ notices'[Len(notices) + 1] = [kind |-> kind, about |-> about]
    BY <1>2, Announced
  <2>2. notices \in Seq(Notice(s))
    BY <1>2 DEF RuleTypes
  <2>3. \A n \in DOMAIN notices' : n \in DOMAIN notices \/ n = Len(notices) + 1
    BY <2>1, <2>2
  <2>4. notices'[Len(notices) + 1].kind = kind
    BY <2>1
  <2> QED
    BY <1>2, <2>1, <2>3, <2>4
<1> QED
  BY <1>1, <1>3, <1>4, AnnounceQuiet

(* A request for approval is stored. *)
LEMMA AnnounceAsks ==
  ASSUME NEW s, AnnounceAssumed(s), RuleInv(s), AnnounceInv(s), NEW w \in s.workers,
         UNCHANGED notices, NEW label, NEW j, Rule(s)!Turn(w, label, j),
         pc[w] \notin TalkLabels, label \in AskLabels, j.approval = Len(approvals) + 1,
         NEW r \in s.records \union {None}, NEW role \in {"APPROVER"} \union s.roles,
         NEW by \in s.rules \union {None}, Rule(s)!Request(r, role, by)
  PROVE  AnnounceMove(s)
<1>1. pc'[w] = label /\ job'[w] = j
  BY TurnIs
<1>2. RuleTypes(s) /\ approvals \in Seq(Approval(s))
  BY DEF RuleInv, RuleTypes
<1>3. PICK new : new = Len(approvals) + 1
  OBVIOUS
<1>4. /\ approvals' \in Seq(Approval(s)) /\ Len(approvals') = new
      /\ \A a \in DOMAIN approvals : a \in DOMAIN approvals' /\ approvals'[a] = approvals[a]
      /\ approvals'[new].status = "PENDING"
  <2>1. PICK row : row = [record |-> r, role |-> role, status |-> "PENDING", by |-> by]
    OBVIOUS
  <2>2. /\ approvals' \in Seq(Approval(s)) /\ Len(approvals') = new
        /\ \A a \in DOMAIN approvals : a \in DOMAIN approvals' /\ approvals'[a] = approvals[a]
        /\ approvals'[new] = row
    BY <1>2, <1>3, <2>1, Requested
  <2> QED
    BY <2>1, <2>2
<1>5. DOMAIN approvals' = DOMAIN approvals \union {new} /\ new \notin DOMAIN approvals
  <2>1. DOMAIN approvals = 1..Len(approvals) /\ DOMAIN approvals' = 1..Len(approvals')
        /\ Len(approvals) \in Nat
    BY <1>2, <1>4
  <2> QED
    BY <1>3, <1>4, <2>1
<1>6. \A k, a : Said(k, a)' = Said(k, a)
  BY DEF Said
<1>7. \A k \in Talk : Said(k, new) = {}
  <2>1. \A n \in DOMAIN notices : notices[n].kind \in Talk => notices[n].about \in DOMAIN approvals
    BY DEF AnnounceInv
  <2>2. \A k, n : n \in Said(k, new) =>
          n \in DOMAIN notices /\ notices[n].kind = k /\ notices[n].about = new
    BY DEF Said
  <2> QED
    BY <1>5, <2>1, <2>2
<1>8. \A v \in s.workers :
        /\ pc[v] \notin TalkLabels /\ pc'[v] \in AskLabels /\ job'[v].approval = new
        /\ pc'[v] \notin {"deciding", "telling"}
  BY <1>1, <1>3 DEF AnnounceAssumed, AskLabels
<1>9. ASSUME NEW a \in DOMAIN approvals'
      PROVE  AskedOnce(s, a)'
  <2>1. CASE a = new
    BY <1>6, <1>7, <1>8, <2>1 DEF AskedOnce, Talk
  <2>2. CASE a \in DOMAIN approvals
    <3>1. a # new /\ AskedOnce(s, a)
      BY <1>5, <2>2 DEF AnnounceInv
    <3> QED
      BY <1>6, <1>8, <3>1 DEF AskedOnce, TalkLabels
  <2> QED
    BY <1>5, <2>1, <2>2
<1>10. ASSUME NEW a \in DOMAIN approvals'
       PROVE  DecisionTold(s, a)'
  <2>1. CASE a = new
    BY <1>4, <1>6, <1>7, <2>1 DEF DecisionTold, Talk, Decisions
  <2>2. CASE a \in DOMAIN approvals
    <3>1. approvals'[a] = approvals[a] /\ DecisionTold(s, a)
      BY <1>4, <2>2 DEF AnnounceInv
    <3> QED
      BY <1>6, <1>8, <3>1 DEF DecisionTold, TalkLabels
  <2> QED
    BY <1>5, <2>1, <2>2
<1>11. \A n \in DOMAIN notices' : notices'[n].kind \in Talk => notices'[n].about \in DOMAIN approvals'
  BY <1>5 DEF AnnounceInv
<1>12. AnnounceInv(s)'
  BY <1>8, <1>9, <1>10, <1>11 DEF AnnounceInv
<1> QED
  BY <1>4, <1>12 DEF AnnounceMove, Rule!DecisionsStand

(* It is announced. *)
LEMMA AnnounceAsked ==
  ASSUME NEW s, AnnounceAssumed(s), RuleInv(s), AnnounceInv(s), NEW w \in s.workers,
         UNCHANGED approvals, NEW label, NEW j, Rule(s)!Turn(w, label, j),
         pc[w] \in AskLabels, label \notin TalkLabels,
         Rule(s)!Announce("asked", job[w].approval)
  PROVE  AnnounceMove(s)
<1>1. pc'[w] = label
  BY TurnIs
<1>2. PICK b : b = job[w].approval
  OBVIOUS
<1>3. RuleTypes(s) /\ JobFits(s, pc[w], job[w])
  BY DEF RuleInv
<1>4. b \in DOMAIN approvals /\ [kind |-> "asked", about |-> b] \in Notice(s)
  <2>1. b \in DOMAIN approvals
    BY <1>2, <1>3 DEF JobFits
  <2>2. b \in Nat
    BY <1>3, <2>1 DEF RuleTypes
  <2> QED
    BY <2>1, <2>2 DEF Notice
<1>5. PICK m : m = Len(notices) + 1
  OBVIOUS
<1>6. /\ \A k, a : k # "asked" \/ a # b => Said(k, a)' = Said(k, a)
      /\ Said("asked", b)' = Said("asked", b) \union {m}
  <2>1. \A k, a : Said(k, a)' = Said(k, a) \union
          (IF k = "asked" /\ a = b THEN {m} ELSE {})
    BY <1>2, <1>3, <1>4, <1>5, SaidMore
  <2> QED
    BY <2>1
<1>7. \A v \in s.workers : v = w /\ pc'[v] \notin TalkLabels
  BY <1>1 DEF AnnounceAssumed
<1>8. ASSUME NEW a \in DOMAIN approvals
      PROVE  AskedOnce(s, a)'
  <2>1. AskedOnce(s, a)
    BY DEF AnnounceInv
  <2>2. CASE a = b
    <3>1. Said("asked", b) = {}
      BY <1>2, <2>1, <2>2 DEF AskedOnce
    <3>2. Said("asked", b)' = {m}
      BY <1>6, <3>1
    <3> QED
      BY <1>7, <2>2, <3>2 DEF AskedOnce, TalkLabels
  <2>3. CASE a # b
    <3>1. \E n : Said("asked", a) = {n}
      BY <1>2, <1>7, <2>1, <2>3 DEF AskedOnce
    <3>2. \E n : Said("asked", a)' = {n}
      BY <1>6, <2>3, <3>1
    <3> QED
      BY <1>7, <3>2 DEF AskedOnce, TalkLabels
  <2> QED
    BY <2>2, <2>3
<1>9. ASSUME NEW a \in DOMAIN approvals
      PROVE  DecisionTold(s, a)'
  <2>1. DecisionTold(s, a) /\ approvals[a].status \in {"PENDING"} \union Decisions
    BY StatusKnown DEF AnnounceInv
  <2>2. \A k \in Decisions : Said(k, a)' = Said(k, a)
    BY <1>6 DEF Decisions
  <2>3. pc[w] # "telling"
    BY DEF AskLabels
  <2> QED
    BY <1>7, <2>1, <2>2, <2>3 DEF DecisionTold, Decisions
<1>10. \A n \in DOMAIN notices' : notices'[n].kind \in Talk => notices'[n].about \in DOMAIN approvals'
  <2>1. /\ notices' \in Seq(Notice(s)) /\ Len(notices') = m
        /\ \A n \in DOMAIN notices : n \in DOMAIN notices' /\ notices'[n] = notices[n]
        /\ notices'[m].about = b
    BY <1>2, <1>3, <1>4, <1>5, Announced
  <2>2. notices \in Seq(Notice(s))
    BY <1>3 DEF RuleTypes
  <2>3. \A n \in DOMAIN notices' : n \in DOMAIN notices \/ n = m
    BY <1>5, <2>1, <2>2
  <2> QED
    BY <1>4, <2>1, <2>3 DEF AnnounceInv
<1>11. AnnounceInv(s)'
  BY <1>7, <1>8, <1>9, <1>10 DEF AnnounceInv, TalkLabels
<1> QED
  BY <1>11 DEF AnnounceMove, Rule!DecisionsStand

(* A decision: its request is read, it is written, it is told. *)
LEMMA AnnounceDecides ==
  ASSUME NEW s, AnnounceAssumed(s), RuleInv(s), AnnounceInv(s), NEW w \in s.workers,
         \/ \E a \in DOMAIN approvals, role \in s.roles, st \in Decisions :
              Rule(s)!DecideRead(w, a, role, st)
         \/ Rule(s)!DecideCommit(w)
  PROVE  AnnounceMove(s)
<1>1. ASSUME NEW b \in DOMAIN approvals, NEW role, NEW st \in Decisions,
             Rule(s)!DecideRead(w, b, role, st)
      PROVE  AnnounceMove(s)
  <2>1. PICK j : j = [approval |-> b, status |-> st]
    OBVIOUS
  <2>2. /\ pc[w] = "idle" /\ approvals[b].status = "PENDING" /\ Rule(s)!Turn(w, "deciding", j)
        /\ UNCHANGED <<approvals, notices>>
    BY <1>1, <2>1 DEF Rule!DecideRead, Rule!Idle, Rule!MayDecide, Rule!rowVars
  <2>3. pc'[w] = "deciding" /\ job'[w] = j
    BY <2>2, TurnIs
  <2>4. \A v \in s.workers : v = w
    BY DEF AnnounceAssumed
  <2>5. \A k, a : Said(k, a)' = Said(k, a)
    BY <2>2 DEF Said
  <2>6. \A a \in DOMAIN approvals : AskedOnce(s, a)' /\ DecisionTold(s, a)'
    BY <2>2, <2>3, <2>4, <2>5 DEF AnnounceInv, AskedOnce, DecisionTold, AskLabels
  <2>7. \A v \in s.workers :
          pc'[v] # "telling" /\ approvals'[job'[v].approval].status = "PENDING"
    BY <2>1, <2>2, <2>3, <2>4
  <2>8. AnnounceInv(s)'
    BY <2>2, <2>6, <2>7 DEF AnnounceInv
  <2> QED
    BY <2>2, <2>8 DEF AnnounceMove, Rule!DecisionsStand
<1>2. CASE Rule(s)!DecideCommit(w)
  <2>1. PICK b, st : b = job[w].approval /\ st = job[w].status
    OBVIOUS
  <2>2. /\ pc[w] = "deciding" /\ Rule(s)!Turn(w, "telling", job[w])
        /\ UNCHANGED notices
    BY <1>2 DEF Rule!DecideCommit, Rule!At
  <2>3. /\ DOMAIN approvals' = DOMAIN approvals /\ b \in DOMAIN approvals /\ st \in Decisions
        /\ \A a \in DOMAIN approvals :
             approvals'[a].status = IF a = b THEN st ELSE approvals[a].status
    BY <1>2, <2>1, Decided
  <2>4. pc'[w] = "telling" /\ job'[w] = job[w]
    BY <2>2, TurnIs
  <2>5. \A v \in s.workers : v = w
    BY DEF AnnounceAssumed
  <2>6. \A k, a : Said(k, a)' = Said(k, a)
    BY <2>2 DEF Said
  <2>7. approvals[b].status = "PENDING"
    BY <2>1, <2>2 DEF AnnounceInv
  <2>8. \A a \in DOMAIN approvals : AskedOnce(s, a)'
    BY <2>2, <2>4, <2>5, <2>6 DEF AnnounceInv, AskedOnce, AskLabels
  <2>9. ASSUME NEW a \in DOMAIN approvals
        PROVE  DecisionTold(s, a)'
    <3>1. CASE a = b
      <4>1. approvals'[a].status # "PENDING"
        BY <2>3, <3>1 DEF Decisions
      <4> QED
        BY <2>1, <2>4, <3>1, <4>1 DEF DecisionTold
    <3>2. CASE a # b
      <4>1. approvals'[a].status = approvals[a].status /\ DecisionTold(s, a)
        BY <2>3, <3>2 DEF AnnounceInv
      <4> QED
        BY <2>1, <2>2, <2>5, <2>6, <3>2, <4>1 DEF DecisionTold
    <3> QED
      BY <3>1, <3>2
  <2>10. \A v \in s.workers :
           pc'[v] # "deciding" /\ approvals'[job'[v].approval].status = job'[v].status
    BY <2>1, <2>3, <2>4, <2>5
  <2>11. AnnounceInv(s)'
    BY <2>2, <2>3, <2>8, <2>9, <2>10 DEF AnnounceInv
  <2> QED
    BY <2>3, <2>7, <2>11 DEF AnnounceMove, Rule!DecisionsStand
<1> QED
  BY <1>1, <1>2

LEMMA AnnounceTold ==
  ASSUME NEW s, AnnounceAssumed(s), RuleInv(s), AnnounceInv(s), NEW w \in s.workers,
         Rule(s)!AnnounceDecision(w)
  PROVE  AnnounceMove(s)
<1>1. PICK b, st : b = job[w].approval /\ st = job[w].status
  OBVIOUS
<1>2. /\ pc[w] = "telling" /\ Rule(s)!Turn(w, "idle", None) /\ UNCHANGED approvals
      /\ Rule(s)!Announce(st, b)
  BY <1>1 DEF Rule!AnnounceDecision, Rule!At, Rule!Done, Rule!Told
<1>3. RuleTypes(s) /\ JobFits(s, pc[w], job[w])
  BY DEF RuleInv
<1>4. b \in DOMAIN approvals /\ st \in Decisions /\ [kind |-> st, about |-> b] \in Notice(s)
  <2>1. b \in DOMAIN approvals /\ st \in Decisions
    BY <1>1, <1>2, <1>3 DEF JobFits
  <2>2. b \in Nat
    BY <1>3, <2>1 DEF RuleTypes
  <2> QED
    BY <2>1, <2>2 DEF Notice
<1>5. PICK m : m = Len(notices) + 1
  OBVIOUS
<1>6. /\ \A k, a : k # st \/ a # b => Said(k, a)' = Said(k, a)
      /\ Said(st, b)' = Said(st, b) \union {m}
  <2>1. \A k, a : Said(k, a)' = Said(k, a) \union (IF k = st /\ a = b THEN {m} ELSE {})
    BY <1>2, <1>3, <1>4, <1>5, SaidMore
  <2> QED
    BY <2>1
<1>7. \A v \in s.workers : v = w /\ pc'[v] = "idle"
  <2>1. pc'[w] = "idle"
    BY <1>2, TurnIs
  <2> QED
    BY <2>1 DEF AnnounceAssumed
<1>8. approvals[b].status = st /\ st # "PENDING" /\ st # "asked"
  BY <1>1, <1>2, <1>4 DEF AnnounceInv, Decisions
<1>9. ASSUME NEW a \in DOMAIN approvals
      PROVE  AskedOnce(s, a)'
  <2>1. AskedOnce(s, a)
    BY DEF AnnounceInv
  <2>2. Said("asked", a)' = Said("asked", a)
    BY <1>6, <1>8
  <2> QED
    BY <1>2, <1>7, <2>1, <2>2 DEF AskedOnce, AskLabels
<1>10. ASSUME NEW a \in DOMAIN approvals
       PROVE  DecisionTold(s, a)'
  <2>1. DecisionTold(s, a)
    BY DEF AnnounceInv
  <2>2. CASE a = b
    <3>1. approvals'[a].status = st
      BY <1>2, <1>8, <2>2
    <3>2. Said(st, a)' # {}
      BY <1>6, <2>2
    <3> QED
      BY <1>8, <3>1, <3>2 DEF DecisionTold
  <2>3. CASE a # b
    <3>1. \A k : Said(k, a)' = Said(k, a)
      BY <1>6, <2>3
    <3>2. ~\E v \in s.workers : pc[v] = "telling" /\ job[v].approval = a
      BY <1>1, <1>7, <2>3
    <3> QED
      BY <1>2, <2>1, <3>1, <3>2 DEF DecisionTold
  <2> QED
    BY <2>2, <2>3
<1>11. \A n \in DOMAIN notices' : notices'[n].kind \in Talk => notices'[n].about \in DOMAIN approvals'
  <2>1. /\ notices' \in Seq(Notice(s)) /\ Len(notices') = m
        /\ \A n \in DOMAIN notices : n \in DOMAIN notices' /\ notices'[n] = notices[n]
        /\ notices'[m].about = b
    BY <1>2, <1>3, <1>4, <1>5, Announced
  <2>2. notices \in Seq(Notice(s))
    BY <1>3 DEF RuleTypes
  <2>3. \A n \in DOMAIN notices' : n \in DOMAIN notices \/ n = m
    BY <1>5, <2>1, <2>2
  <2> QED
    BY <1>2, <1>4, <2>1, <2>3 DEF AnnounceInv
<1>12. AnnounceInv(s)'
  BY <1>7, <1>9, <1>10, <1>11, <1>2 DEF AnnounceInv
<1> QED
  BY <1>2, <1>12 DEF AnnounceMove, Rule!DecisionsStand

LEMMA AnnounceByHandStep ==
  ASSUME NEW s, AnnounceAssumed(s), RuleInv(s), AnnounceInv(s), NEW w \in s.workers,
         Rule(s)!ByHand(w)
  PROVE  AnnounceMove(s)
<1>1. ASSUME NEW r \in s.records, NEW role \in s.roles, Rule(s)!CreateApproval(w, r, role)
      PROVE  AnnounceMove(s)
  <2>1. PICK j : j = [approval |-> Len(approvals) + 1]
    OBVIOUS
  <2>2. /\ pc[w] = "idle" /\ UNCHANGED notices /\ Rule(s)!Turn(w, "asking", j)
        /\ Rule(s)!Request(r, role, None)
    BY <1>1, <2>1 DEF Rule!CreateApproval, Rule!Idle
  <2>3. j.approval = Len(approvals) + 1 /\ pc[w] \notin TalkLabels /\ "asking" \in AskLabels
    BY <2>1, <2>2 DEF TalkLabels, AskLabels
  <2> QED
    BY <2>2, <2>3, AnnounceAsks
<1>2. CASE Rule(s)!AnnounceApproval(w)
  <2>1. /\ pc[w] = "asking" /\ UNCHANGED approvals /\ Rule(s)!Turn(w, "idle", None)
        /\ Rule(s)!Announce("asked", job[w].approval)
    BY <1>2 DEF Rule!AnnounceApproval, Rule!At, Rule!Done
  <2>2. pc[w] \in AskLabels /\ "idle" \notin TalkLabels
    BY <2>1 DEF TalkLabels, AskLabels
  <2> QED
    BY <2>1, <2>2, AnnounceAsked
<1>3. ASSUME NEW u \in s.rules, Rule(s)!RunRule(w, u)
      PROVE  AnnounceMove(s)
  <2>1. CASE Rule(s)!CreatesApproval(u)
    <3>1. PICK j : j = [rule |-> u, approval |-> Len(approvals) + 1]
      OBVIOUS
    <3>2. /\ pc[w] = "idle" /\ UNCHANGED notices /\ Rule(s)!Turn(w, "hand_asking", j)
          /\ Rule(s)!Request(None, "APPROVER", u)
      BY <1>3, <2>1, <3>1 DEF Rule!RunRule, Rule!Idle
    <3>3. j.approval = Len(approvals) + 1 /\ pc[w] \notin TalkLabels /\ "hand_asking" \in AskLabels
      BY <3>1, <3>2 DEF TalkLabels, AskLabels
    <3> QED
      BY <3>2, <3>3, AnnounceAsks
  <2>2. CASE ~Rule(s)!CreatesApproval(u)
    <3>1. PICK j : j = [rule |-> u]
      OBVIOUS
    <3>2. /\ pc[w] = "idle" /\ UNCHANGED <<approvals, notices>> /\ Rule(s)!Turn(w, "hand_counting", j)
      BY <1>3, <2>2, <3>1 DEF Rule!RunRule, Rule!Idle
    <3>3. pc[w] \notin TalkLabels /\ "hand_counting" \notin TalkLabels
      BY <3>2 DEF TalkLabels, AskLabels
    <3> QED
      BY <3>2, <3>3, AnnounceSilent
  <2> QED
    BY <2>1, <2>2
<1>4. CASE Rule(s)!AnnounceByHand(w)
  <2>1. /\ pc[w] = "hand_asking" /\ UNCHANGED approvals /\ Rule(s)!Turn(w, "hand_counting", job[w])
        /\ Rule(s)!Announce("asked", job[w].approval)
    BY <1>4 DEF Rule!AnnounceByHand, Rule!At
  <2>2. pc[w] \in AskLabels /\ "hand_counting" \notin TalkLabels
    BY <2>1 DEF TalkLabels, AskLabels
  <2> QED
    BY <2>1, <2>2, AnnounceAsked
<1>5. CASE Rule(s)!CountByHand(w)
  <2>1. /\ pc[w] = "hand_counting" /\ UNCHANGED <<approvals, notices>>
        /\ Rule(s)!Turn(w, "reporting", job[w])
    BY <1>5 DEF Rule!CountByHand, Rule!At
  <2>2. pc[w] \notin TalkLabels /\ "reporting" \notin TalkLabels
    BY <2>1 DEF TalkLabels, AskLabels
  <2> QED
    BY <2>1, <2>2, AnnounceSilent
<1>6. CASE Rule(s)!ReportByHand(w)
  <2>1. /\ pc[w] = "reporting" /\ UNCHANGED approvals /\ Rule(s)!Turn(w, "idle", None)
        /\ Rule(s)!Announce("ran", job[w].rule)
    BY <1>6 DEF Rule!ReportByHand, Rule!At, Rule!Done
  <2>2. pc[w] \notin TalkLabels /\ "idle" \notin TalkLabels
    BY <2>1 DEF TalkLabels, AskLabels
  <2>3. job[w].rule \in s.rules
    BY <2>1 DEF RuleInv, JobFits
  <2>4. [kind |-> "ran", about |-> job[w].rule] \in Notice(s)
    BY <2>3 DEF Notice
  <2> QED
    BY <2>1, <2>2, <2>4, AnnounceElse
<1>7. \/ \E r \in s.records, role \in s.roles : Rule(s)!CreateApproval(w, r, role)
      \/ Rule(s)!AnnounceApproval(w)
      \/ \E a \in DOMAIN approvals, role \in s.roles, st \in Decisions :
           Rule(s)!DecideRead(w, a, role, st)
      \/ Rule(s)!DecideCommit(w) \/ Rule(s)!AnnounceDecision(w)
      \/ \E u \in s.rules : Rule(s)!RunRule(w, u)
      \/ Rule(s)!AnnounceByHand(w) \/ Rule(s)!CountByHand(w) \/ Rule(s)!ReportByHand(w)
  BY DEF Rule!ByHand, Rule!Decisions, Decisions
<1> QED
  BY <1>1, <1>2, <1>3, <1>4, <1>5, <1>6, <1>7, AnnounceDecides, AnnounceTold

LEMMA AnnounceEventStep ==
  ASSUME NEW s, AnnounceAssumed(s), RuleInv(s), AnnounceInv(s), NEW w \in s.workers,
         Rule(s)!Event(w)
  PROVE  AnnounceMove(s)
<1>1. ASSUME NEW u \in s.rules, Rule(s)!RunApproval(w, u)
      PROVE  AnnounceMove(s)
  <2>1. PICK r, j :
          /\ r = job[w].record
          /\ j = [record |-> r, left |-> job[w].left \ {u}, rule |-> u,
                  approval |-> Len(approvals) + 1]
    OBVIOUS
  <2>2. pc[w] = "running" /\ UNCHANGED notices
    BY <1>1 DEF Rule!RunApproval, Rule!At
  <2>3. pc[w] \notin TalkLabels /\ "failing" \notin TalkLabels /\ "event_asking" \in AskLabels
    BY <2>2 DEF TalkLabels, AskLabels
  <2>4. CASE Rule(s)!Unique(r)
    <3>1. Rule(s)!Request(r, "APPROVER", u) /\ Rule(s)!Turn(w, "event_asking", j)
      BY <1>1, <2>1, <2>4 DEF Rule!RunApproval
    <3>2. j.approval = Len(approvals) + 1
      BY <2>1
    <3>3. r \in s.records
      BY <2>1, <2>2 DEF RuleInv, JobFits, EventLabels, RunLabels
    <3> QED
      BY <2>2, <2>3, <3>1, <3>2, <3>3, AnnounceAsks
  <2>5. CASE ~Rule(s)!Unique(r)
    <3>1. UNCHANGED approvals /\ Rule(s)!Turn(w, "failing", j)
      BY <1>1, <2>1, <2>5 DEF Rule!RunApproval
    <3> QED
      BY <2>2, <2>3, <3>1, AnnounceSilent
  <2> QED
    BY <2>4, <2>5
<1>2. ASSUME NEW u \in s.rules, Rule(s)!RunNotice(w, u)
      PROVE  AnnounceMove(s)
  <2>1. PICK j, about :
          /\ j = [record |-> job[w].record, left |-> job[w].left \ {u}, rule |-> u]
          /\ about = [rule |-> u, record |-> job[w].record]
    OBVIOUS
  <2>2. /\ pc[w] = "running" /\ UNCHANGED approvals /\ Rule(s)!Turn(w, "counting", j)
        /\ Rule(s)!Announce("rule", about)
    BY <1>2, <2>1 DEF Rule!RunNotice, Rule!At
  <2>3. pc[w] \notin TalkLabels /\ "counting" \notin TalkLabels
    BY <2>2 DEF TalkLabels, AskLabels
  <2>4. job[w].record \in s.records
    BY <2>2 DEF RuleInv, JobFits, EventLabels, RunLabels
  <2>5. [kind |-> "rule", about |-> about] \in Notice(s)
    BY <2>1, <2>4 DEF Notice
  <2> QED
    BY <2>2, <2>3, <2>5, AnnounceElse
<1>3. CASE Rule(s)!AnnounceInEvent(w)
  <2>1. /\ pc[w] = "event_asking" /\ UNCHANGED approvals /\ Rule(s)!Turn(w, "counting", job[w])
        /\ Rule(s)!Announce("asked", job[w].approval)
    BY <1>3 DEF Rule!AnnounceInEvent, Rule!At
  <2>2. pc[w] \in AskLabels /\ "counting" \notin TalkLabels
    BY <2>1 DEF TalkLabels, AskLabels
  <2> QED
    BY <2>1, <2>2, AnnounceAsked
<1>4. ASSUME \/ \E r \in s.records : Rule(s)!CreateRecord(w, r)
             \/ Rule(s)!ListRules(w) \/ Rule(s)!CountRun(w) \/ Rule(s)!CountFailure(w)
             \/ Rule(s)!FinishEvent(w)
      PROVE  AnnounceMove(s)
  <2>1. PICK label, j :
          /\ label \in {"listing", "running", "failing", "idle"} /\ Rule(s)!Turn(w, label, j)
          /\ pc[w] \in {"idle", "listing", "running", "counting", "failing"}
          /\ UNCHANGED <<approvals, notices>>
    <3>1. ASSUME NEW r, Rule(s)!CreateRecord(w, r)
          PROVE  \E j : /\ Rule(s)!Turn(w, "listing", j) /\ pc[w] = "idle"
                        /\ UNCHANGED <<approvals, notices>>
      BY <3>1 DEF Rule!CreateRecord, Rule!Idle
    <3>2. ASSUME Rule(s)!ListRules(w)
          PROVE  \E j : /\ Rule(s)!Turn(w, "running", j) /\ pc[w] = "listing"
                        /\ UNCHANGED <<approvals, notices>>
      BY <3>2 DEF Rule!ListRules, Rule!At
    <3>3. ASSUME Rule(s)!CountRun(w)
          PROVE  \E j : /\ Rule(s)!Turn(w, "running", j) \/ Rule(s)!Turn(w, "failing", j)
                        /\ pc[w] = "counting" /\ UNCHANGED <<approvals, notices>>
      BY <3>3 DEF Rule!CountRun, Rule!At
    <3>4. ASSUME Rule(s)!CountFailure(w)
          PROVE  \E j : /\ Rule(s)!Turn(w, "running", j) \/ Rule(s)!Turn(w, "idle", j)
                        /\ pc[w] = "failing" /\ UNCHANGED <<approvals, notices>>
      BY <3>4 DEF Rule!CountFailure, Rule!At, Rule!Done
    <3>5. ASSUME Rule(s)!FinishEvent(w)
          PROVE  /\ Rule(s)!Turn(w, "idle", None) /\ pc[w] = "running"
                 /\ UNCHANGED <<approvals, notices>>
      BY <3>5 DEF Rule!FinishEvent, Rule!At, Rule!Done
    <3> QED
      BY <1>4, <3>1, <3>2, <3>3, <3>4, <3>5
  <2>2. pc[w] \notin TalkLabels /\ label \notin TalkLabels
    BY <2>1 DEF TalkLabels, AskLabels
  <2> QED
    BY <2>1, <2>2, AnnounceSilent
<1> QED
  BY <1>1, <1>2, <1>3, <1>4 DEF Rule!Event

LEMMA AnnounceStays ==
  ASSUME NEW s, AnnounceInv(s), UNCHANGED <<approvals, notices, pc, job>>
  PROVE  AnnounceMove(s)
<1>1. \A k, a : Said(k, a)' = Said(k, a)
  BY DEF Said
<1>2. \A a \in DOMAIN approvals : AskedOnce(s, a)' /\ DecisionTold(s, a)'
  BY <1>1 DEF AnnounceInv, AskedOnce, DecisionTold
<1>3. AnnounceInv(s)'
  BY <1>2 DEF AnnounceInv
<1> QED
  BY <1>3 DEF AnnounceMove, Rule!DecisionsStand

LEMMA AnnounceStep ==
  ASSUME NEW s, AnnounceAssumed(s), RuleInv(s), AnnounceInv(s), Rule(s)!Step
  PROVE  AnnounceMove(s)
<1>1. ASSUME NEW u \in s.rules, Rule(s)!Administer(u)
      PROVE  AnnounceMove(s)
  BY <1>1, AdministerStep, AnnounceStays
<1> QED
  BY <1>1, AnnounceByHandStep, AnnounceEventStep DEF Rule!Step

LEMMA AnnounceMeans ==
  ASSUME NEW s, AnnounceInv(s)
  PROVE  Rule(s)!EveryApprovalAnnounced
<1>1. ASSUME Rule(s)!AllIdle, NEW a \in DOMAIN approvals
      PROVE  /\ Rule(s)!Cardinality(Said("asked", a)) = 1
             /\ approvals[a].status # "PENDING" => Said(approvals[a].status, a) # {}
             /\ approvals[a].status = "PENDING" => \A k \in Decisions : Said(k, a) = {}
  <2>1. \A w \in s.workers : pc[w] = "idle"
    BY <1>1 DEF Rule!AllIdle, Rule!Idle
  <2>2. AskedOnce(s, a) /\ DecisionTold(s, a)
    BY DEF AnnounceInv
  <2>3. \E n : Said("asked", a) = {n}
    BY <2>1, <2>2 DEF AskedOnce, AskLabels
  <2>4. Cardinality(Said("asked", a)) = 1
    BY <2>3, FS_Singleton
  <2> QED
    BY <2>1, <2>2, <2>4, RuleCardinality DEF DecisionTold
<1> QED
  BY <1>1 DEF Rule!EveryApprovalAnnounced, Rule!Decisions, Decisions, Said

LEMMA CountStays ==
  ASSUME NEW s, CountInv(s), UNCHANGED <<ruling, requestVars>>
  PROVE  CountInv(s)'
<1>1. UNCHANGED <<matched, rules, pc, job>>
  BY DEF ruling, requestVars
<1>2. \A u : CountedFor(s, u)' = CountedFor(s, u)
  BY <1>1 DEF CountedFor, Due
<1>3. \A u \in s.rules : rules'[u].runs + rules'[u].failures = Cardinality(CountedFor(s, u)')
  BY <1>1, <1>2 DEF CountInv
<1> QED
  BY <1>1, <1>3 DEF CountInv, Rule!Stored

(* No rule of a record is passed over because of another: its run or its    *)
(* failure is counted by as many events as matched it, in whatever order    *)
(* they take their turns (executeEvent); while no handler is cut off, none  *)
(* is deleted and none is run by hand.                                      *)
THEOREM EveryRuleIsCounted ==
  ASSUME NEW s, CountAssumed(s)
  PROVE  Rule(s)!Init /\ [][Rule(s)!Step]_(Rule(s)!vars) => []Rule(s)!EveryRuleCounted
<1> DEFINE Inv == RuleInv(s) /\ EventInv(s) /\ CountInv(s)
<1>1. RuleAssumed(s)
  BY DEF CountAssumed
<1>2. Rule(s)!Init => Inv
  BY <1>1, RuleInit, CountInit DEF EventInv
<1>3. Inv /\ [Rule(s)!Step]_(Rule(s)!vars) => Inv'
  <2>1. CASE Inv /\ Rule(s)!Step
    <3>1. RuleInv(s)' /\ EventInv(s)'
      BY <1>1, <2>1, RuleStep DEF Rule!Next
    <3>2. CountInv(s)'
      BY <2>1, CountingStep
    <3> QED
      BY <3>1, <3>2
  <2>2. CASE Inv /\ UNCHANGED Rule(s)!vars
    <3>1. UNCHANGED <<ruling, requestVars>>
      BY <2>2 DEF Rule!vars, Rule!rowVars, Rule!requestVars, ruling, requestVars
    <3> QED
      BY <2>2, <3>1, RuleStays, CountStays
  <2> QED
    BY <2>1, <2>2
<1>4. Inv => Rule(s)!EveryRuleCounted
  BY CountMeans
<1> HIDE DEF Inv
<1> QED
  BY <1>2, <1>3, <1>4, PTL

(* One request at a time, and none cut off: every approval is announced     *)
(* once as asked for, one decided as decided (createApproval, decide,       *)
(* executeEvent).                                                           *)
THEOREM ApprovalsAreAnnounced ==
  ASSUME NEW s, AnnounceAssumed(s)
  PROVE  Rule(s)!Init /\ [][Rule(s)!Step]_(Rule(s)!vars)
           => []Rule(s)!EveryApprovalAnnounced /\ [][Rule(s)!DecisionsStand]_(Rule(s)!vars)
<1> DEFINE Inv == RuleInv(s) /\ EventInv(s) /\ AnnounceInv(s)
<1>1. RuleAssumed(s)
  BY DEF AnnounceAssumed
<1>2. Rule(s)!Init => Inv
  BY <1>1, RuleInit, AnnounceInit DEF EventInv
<1>3. Inv /\ [Rule(s)!Step]_(Rule(s)!vars) => Inv' /\ [Rule(s)!DecisionsStand]_(Rule(s)!vars)
  <2>1. CASE Inv /\ Rule(s)!Step
    <3>1. RuleInv(s)' /\ EventInv(s)'
      BY <1>1, <2>1, RuleStep DEF Rule!Next
    <3>2. AnnounceInv(s)' /\ Rule(s)!DecisionsStand
      BY <2>1, AnnounceStep DEF AnnounceMove
    <3> QED
      BY <3>1, <3>2
  <2>2. CASE Inv /\ UNCHANGED Rule(s)!vars
    <3>1. UNCHANGED <<ruling, requestVars>>
      BY <2>2 DEF Rule!vars, Rule!rowVars, Rule!requestVars, ruling, requestVars
    <3>2. UNCHANGED <<approvals, notices, pc, job>>
      BY <3>1 DEF ruling, requestVars
    <3>3. AnnounceInv(s)'
      BY <2>2, <3>2, AnnounceStays DEF AnnounceMove
    <3> QED
      BY <2>2, <3>1, <3>3, RuleStays
  <2> QED
    BY <2>1, <2>2
<1>4. Inv => Rule(s)!EveryApprovalAnnounced
  BY AnnounceMeans
<1> HIDE DEF Inv
<1> QED
  BY <1>2, <1>3, <1>4, PTL

--------------------------------------------------------------------------------
(* The scenes of Workflow. *)

LEMMA RuleScene ==
  ASSUME NEW n \in DOMAIN RuleScenes
  PROVE  /\ RuleAssumed(RuleScenes[n])
         /\ n = "workflow_counts" => CountAssumed(RuleScenes[n]) /\ RuleScenes[n].steady
         /\ n = "workflow_serial" => AnnounceAssumed(RuleScenes[n]) /\ RuleScenes[n].steady
<1>1. n = "workflow_events" \/ n = "workflow_counts" \/ n = "workflow_serial"
  BY SceneNames
<1>2. Rule(RuleScenes[n])!WorkflowAssumption
  BY OfficeAssumption
<1>3. None \notin RuleScenes[n].workers
  BY <1>1, SceneWorkers DEF RuleScenes
<1>4. RuleAssumed(RuleScenes[n])
  BY <1>2, <1>3 DEF RuleAssumed
<1>5. n = "workflow_counts" => CountAssumed(RuleScenes[n]) /\ RuleScenes[n].steady
  <2> SUFFICES ASSUME n = "workflow_counts"
               PROVE  CountAssumed(RuleScenes[n]) /\ RuleScenes[n].steady
    OBVIOUS
  <2>1. /\ RuleScenes[n].records = {large, small} /\ RuleScenes[n].steady = TRUE
        /\ RuleScenes[n].deleting = FALSE /\ RuleScenes[n].byHand = 0
    BY DEF RuleScenes
  <2>2. IsFiniteSet({large, small})
    <3>1. IsFiniteSet({large}) /\ IsFiniteSet({small})
      BY FS_Singleton
    <3>2. {large, small} = {large} \union {small}
      OBVIOUS
    <3> QED
      BY <3>1, <3>2, FS_Union
  <2> QED
    BY <1>4, <2>1, <2>2 DEF CountAssumed
<1>6. n = "workflow_serial" => AnnounceAssumed(RuleScenes[n]) /\ RuleScenes[n].steady
  <2> SUFFICES ASSUME n = "workflow_serial"
               PROVE  AnnounceAssumed(RuleScenes[n]) /\ RuleScenes[n].steady
    OBVIOUS
  <2>1. RuleScenes[n].workers = One /\ RuleScenes[n].steady = TRUE
    BY DEF RuleScenes
  <2> QED
    BY <1>4, <2>1, SceneWorkers DEF AnnounceAssumed
<1> QED
  BY <1>4, <1>5, <1>6

LEMMA RuleSceneTurn ==
  ASSUME NEW n \in DOMAIN RuleScenes, scene = n, [Next]_vars
  PROVE  /\ scene' = n
         /\ RuleNext(RuleScenes[n]) \/ UNCHANGED <<ruling, requestVars>>
<1>1. CASE Next
  BY <1>1, SceneNames DEF Next
<1>2. CASE UNCHANGED vars
  BY <1>2 DEF vars
<1> QED
  BY <1>1, <1>2

LEMMA SteadyRule ==
  ASSUME NEW s, RuleNext(s)
  PROVE  Rule(s)!Next /\ (s.steady => Rule(s)!Step)
  BY DEF RuleNext, Rule!Next

RulesInv ==
  \A n \in DOMAIN RuleScenes : scene = n =>
    /\ RuleInv(RuleScenes[n]) /\ EventInv(RuleScenes[n])
    /\ n = "workflow_counts" => CountInv(RuleScenes[n])
    /\ n = "workflow_serial" => AnnounceInv(RuleScenes[n])

LEMMA RulesStart == Init => RulesInv
<1> SUFFICES ASSUME Init, NEW n \in DOMAIN RuleScenes, scene = n
             PROVE  /\ RuleInv(RuleScenes[n]) /\ EventInv(RuleScenes[n])
                    /\ n = "workflow_counts" => CountInv(RuleScenes[n])
                    /\ n = "workflow_serial" => AnnounceInv(RuleScenes[n])
  BY DEF RulesInv
<1>1. Rule(RuleScenes[n])!Init
  BY SceneNames DEF Init
<1> QED
  BY <1>1, RuleScene, RuleInit, CountInit, AnnounceInit DEF EventInv

LEMMA RulesStep ==
  ASSUME RulesInv, [Next]_vars
  PROVE  /\ RulesInv'
         /\ scene = "workflow_serial" => Rule(RuleScenes["workflow_serial"])!DecisionsStand
<1>1. ASSUME NEW n \in DOMAIN RuleScenes, scene = n
      PROVE  /\ scene' = n
             /\ RuleInv(RuleScenes[n])' /\ EventInv(RuleScenes[n])'
             /\ n = "workflow_counts" => CountInv(RuleScenes[n])'
             /\ n = "workflow_serial" =>
                  AnnounceInv(RuleScenes[n])' /\ Rule(RuleScenes[n])!DecisionsStand
  <2> DEFINE s == RuleScenes[n]
  <2>1. /\ RuleInv(s) /\ EventInv(s)
        /\ n = "workflow_counts" => CountInv(s)
        /\ n = "workflow_serial" => AnnounceInv(s)
    BY <1>1 DEF RulesInv
  <2>2. /\ RuleAssumed(s)
        /\ n = "workflow_counts" => CountAssumed(s) /\ s.steady
        /\ n = "workflow_serial" => AnnounceAssumed(s) /\ s.steady
    BY RuleScene
  <2>3. scene' = n /\ (RuleNext(s) \/ UNCHANGED <<ruling, requestVars>>)
    BY <1>1, RuleSceneTurn
  <2> HIDE DEF s
  <2>4. CASE RuleNext(s)
    <3>1. Rule(s)!Next /\ (s.steady => Rule(s)!Step)
      BY <2>4, SteadyRule
    <3>2. RuleInv(s)' /\ EventInv(s)'
      BY <2>1, <2>2, <3>1, RuleStep
    <3>3. n = "workflow_counts" => CountInv(s)'
      BY <2>1, <2>2, <3>1, CountingStep
    <3>4. n = "workflow_serial" => AnnounceInv(s)' /\ Rule(s)!DecisionsStand
      BY <2>1, <2>2, <3>1, AnnounceStep DEF AnnounceMove
    <3> QED
      BY <2>3, <3>2, <3>3, <3>4 DEF s
  <2>5. CASE UNCHANGED <<ruling, requestVars>>
    <3>1. RuleInv(s)' /\ EventInv(s)'
      BY <2>1, <2>5, RuleStays
    <3>2. n = "workflow_counts" => CountInv(s)'
      BY <2>1, <2>5, CountStays
    <3>3. n = "workflow_serial" => AnnounceInv(s)' /\ Rule(s)!DecisionsStand
      BY <2>1, <2>5, AnnounceStays DEF AnnounceMove, ruling, requestVars
    <3> QED
      BY <2>3, <3>1, <3>2, <3>3 DEF s
  <2> QED
    BY <2>3, <2>4, <2>5
<1>2. scene' = scene
  BY DEF Next, vars
<1>3. RulesInv'
  BY <1>1, <1>2 DEF RulesInv
<1>4. "workflow_serial" \in DOMAIN RuleScenes
  BY SceneNames
<1> QED
  BY <1>1, <1>3, <1>4

(* Both in the scenes of MCOffice; and a record whose event ran to its end  *)
(* was passed over by no rule.                                              *)
THEOREM RulesDoRun == Spec => []RulesRun
<1>1. RulesInv /\ [Next]_vars => RulesInv'
  BY RulesStep
<1>2. RulesInv => RulesRun
  <2> SUFFICES ASSUME RulesInv
               PROVE  RulesRun
    OBVIOUS
  <2>1. \A n \in {"workflow_events", "workflow_counts"} :
          scene = n => Rule(RuleScenes[n])!NoRulePassedOver
    BY SceneNames, EventMeans DEF RulesInv
  <2>2. \A n \in {"workflow_counts"} : scene = n => Rule(RuleScenes[n])!EveryRuleCounted
    BY SceneNames, CountMeans DEF RulesInv
  <2>3. \A n \in {"workflow_serial"} : scene = n => Rule(RuleScenes[n])!EveryApprovalAnnounced
    BY SceneNames, AnnounceMeans DEF RulesInv
  <2> QED
    BY <2>1, <2>2, <2>3 DEF RulesRun
<1> QED
  BY <1>1, <1>2, RulesStart, PTL DEF Spec

--------------------------------------------------------------------------------
(* The scenes of Teardown, Settings and Locations. *)

RemovesInv == \A n \in DOMAIN RemoveScenes : scene = n => RemoveInv(RemoveScenes[n])

(* An organization without commerce channels is removed unless rows are     *)
(* added meanwhile, and then nothing of it is left (deleteOrganization      *)
(* against the foreign keys).                                               *)
THEOREM OrganizationIsRemoved == Spec => []RemovedWhole
<1>1. ASSUME NEW n \in DOMAIN RemoveScenes
      PROVE  RemoveAssumed(RemoveScenes[n])
  BY SceneNames DEF RemoveScenes, RemoveAssumed
<1>2. Init => RemovesInv
  <2> SUFFICES ASSUME Init, NEW n \in DOMAIN RemoveScenes, scene = n
               PROVE  RemoveInv(RemoveScenes[n])
    BY DEF RemovesInv
  <2>1. Remove(RemoveScenes[n])!Init
    BY SceneNames DEF Init
  <2> QED
    BY <1>1, <2>1, RemoveInit
<1>3. RemovesInv /\ [Next]_vars => RemovesInv'
  <2> SUFFICES ASSUME RemovesInv, [Next]_vars, NEW n \in DOMAIN RemoveScenes, scene' = n
               PROVE  RemoveInv(RemoveScenes[n])'
    BY DEF RemovesInv
  <2>1. scene = n
    BY DEF Next, vars
  <2>2. RemoveInv(RemoveScenes[n])
    BY <2>1 DEF RemovesInv
  <2>3. Remove(RemoveScenes[n])!Next \/ UNCHANGED removing
    <3>1. CASE Next
      BY <2>1, <3>1, SceneNames DEF Next
    <3>2. CASE UNCHANGED vars
      BY <3>2 DEF vars
    <3> QED
      BY <3>1, <3>2
  <2>4. CASE Remove(RemoveScenes[n])!Next
    BY <1>1, <2>2, <2>4, RemoveStep
  <2>5. CASE UNCHANGED removing
    BY <2>2, <2>5 DEF removing, RemoveInv
  <2> QED
    BY <2>3, <2>4, <2>5
<1>4. RemovesInv => RemovedWhole
  BY RemoveMeans DEF RemovesInv, RemovedWhole
<1> QED
  BY <1>2, <1>3, <1>4, PTL DEF Spec

SetupsInv == \A n \in DOMAIN SetupScenes : scene = n => SetupInv(SetupScenes[n])

LEMMA SetupScene ==
  ASSUME NEW n \in DOMAIN SetupScenes
  PROVE  SetupAssumed(SetupScenes[n])
<1>1. SetupScenes[n].workers = One
  BY SceneNames DEF SetupScenes
<1> QED
  BY <1>1, SceneWorkers DEF SetupAssumed

LEMMA SetupsStart == Init => SetupsInv
<1> SUFFICES ASSUME Init, NEW n \in DOMAIN SetupScenes, scene = n
             PROVE  SetupInv(SetupScenes[n])
  BY DEF SetupsInv
<1>1. Setup(SetupScenes[n])!Init
  BY SceneNames DEF Init
<1> QED
  BY <1>1, SetupInit

LEMMA SetupsStep ==
  ASSUME SetupsInv, [Next]_vars
  PROVE  /\ SetupsInv'
         /\ \A n \in DOMAIN SetupScenes : scene = n =>
              Setup(SetupScenes[n])!PartsKept \/ UNCHANGED <<data, org, requestVars>>
<1>1. ASSUME NEW n \in DOMAIN SetupScenes, scene = n
      PROVE  /\ SetupInv(SetupScenes[n])'
             /\ Setup(SetupScenes[n])!PartsKept \/ UNCHANGED <<data, org, requestVars>>
  <2>1. SetupInv(SetupScenes[n]) /\ SetupAssumed(SetupScenes[n])
    BY <1>1, SetupScene DEF SetupsInv
  <2>2. Setup(SetupScenes[n])!Next \/ UNCHANGED <<data, org, requestVars>>
    <3>1. CASE Next
      BY <1>1, <3>1, SceneNames DEF Next
    <3>2. CASE UNCHANGED vars
      BY <3>2 DEF vars
    <3> QED
      BY <3>1, <3>2
  <2>3. CASE Setup(SetupScenes[n])!Next
    BY <2>1, <2>3, SetupStep
  <2>4. CASE UNCHANGED <<data, org, requestVars>>
    <3>1. UNCHANGED <<data, org, pc, job>>
      BY <2>4 DEF requestVars
    <3> QED
      BY <2>1, <2>4, <3>1 DEF SetupInv
  <2> QED
    BY <2>2, <2>3, <2>4
<1>2. scene' = scene
  BY DEF Next, vars
<1> QED
  BY <1>1, <1>2 DEF SetupsInv

PlacesInv == \A n \in DOMAIN PlaceScenes : scene = n => PlaceInv(PlaceScenes[n])

(* Onboarding that is complete has all its steps, one request at a time;    *)
(* every branch of an accepted hierarchy hangs from one state and shows     *)
(* under it alone, unless another branch was given its id                   *)
(* (completeOnboarding, validateSection, locationActivity).                 *)
THEOREM SetupDoesAgree == Spec => []SetupAgrees
<1>1. SetupsInv /\ [Next]_vars => SetupsInv'
  BY SetupsStep
<1>2. Init => PlacesInv
  <2> SUFFICES ASSUME Init, NEW n \in DOMAIN PlaceScenes, scene = n
               PROVE  PlaceInv(PlaceScenes[n])
    BY DEF PlacesInv
  <2>1. Place(PlaceScenes[n])!Init
    BY SceneNames DEF Init
  <2> QED
    BY <2>1 DEF Place!Init, PlaceInv
<1>3. PlacesInv /\ [Next]_vars => PlacesInv'
  <2> SUFFICES ASSUME PlacesInv, [Next]_vars, NEW n \in DOMAIN PlaceScenes, scene' = n
               PROVE  PlaceInv(PlaceScenes[n])'
    BY DEF PlacesInv
  <2>1. scene = n
    BY DEF Next, vars
  <2>2. PlaceInv(PlaceScenes[n])
    BY <2>1 DEF PlacesInv
  <2>3. Place(PlaceScenes[n])!Next \/ UNCHANGED hierarchy
    <3>1. CASE Next
      BY <2>1, <3>1, SceneNames DEF Next
    <3>2. CASE UNCHANGED vars
      BY <3>2 DEF vars
    <3> QED
      BY <3>1, <3>2
  <2>4. CASE Place(PlaceScenes[n])!Next
    BY <2>4, PlaceStep
  <2>5. CASE UNCHANGED hierarchy
    BY <2>2, <2>5 DEF PlaceInv
  <2> QED
    BY <2>3, <2>4, <2>5
<1>4. SetupsInv /\ PlacesInv => SetupAgrees
  <2> SUFFICES ASSUME SetupsInv, PlacesInv
               PROVE  SetupAgrees
    OBVIOUS
  <2>1. \A n \in DOMAIN SetupScenes : scene = n => Setup(SetupScenes[n])!CompletedHasAll
    BY DEF SetupsInv, SetupInv, Setup!CompletedHasAll
  <2>2. \A n \in DOMAIN PlaceScenes : PlaceScenes[n].most \in Nat
    BY SceneNames DEF PlaceScenes
  <2>3. \A n \in DOMAIN PlaceScenes : scene = n => Place(PlaceScenes[n])!EveryBranchUnderOneState
    BY <2>2, PlaceMeans DEF PlacesInv
  <2> QED
    BY <2>1, <2>3 DEF SetupAgrees
<1> QED
  BY <1>1, <1>2, <1>3, <1>4, SetupsStart, PTL DEF Spec

(* One request at a time: a decision stands, a custom role that somebody    *)
(* bears is not deleted, and who saves one part of the document of an       *)
(* organization keeps the others (decide, deleteRole, updateSection).       *)
THEOREM NothingIsTakenBack == Spec => NothingTakenBack
<1> DEFINE Inv == RulesInv /\ StaffsInv /\ SetupsInv
           Kept ==
             /\ \A n \in {"workflow_serial"} : scene = n => Rule(RuleScenes[n])!DecisionsStand
             /\ \A n \in {"roles_serial"} : scene = n => People(StaffScenes[n])!RoleDeletedUnborne
             /\ \A n \in DOMAIN SetupScenes : scene = n => Setup(SetupScenes[n])!PartsKept
<1>1. Init => Inv
  BY RulesStart, StaffsStart, SetupsStart
<1>2. Inv /\ [Next]_vars => Inv'
  BY RulesStep, StaffsStep, SetupsStep
<1>3. Inv /\ Next => Kept
  <2> SUFFICES ASSUME Inv, Next
               PROVE  Kept
    OBVIOUS
  <2>1. \A n \in {"workflow_serial"} : scene = n => Rule(RuleScenes[n])!DecisionsStand
    BY RulesStep
  <2>2. ASSUME NEW n \in {"roles_serial"}, scene = n
        PROVE  People(StaffScenes[n])!RoleDeletedUnborne
    <3>1. n \in DOMAIN StaffScenes
      BY SceneNames
    <3>2. PeopleNext(StaffScenes[n])
      BY <2>2, SceneNames DEF Next
    <3>3. People(StaffScenes[n])!Next
      BY <3>2, SteadyIsNext
    <3>4. StaffInv(StaffScenes[n]) /\ RolesRead(StaffScenes[n])
      BY <2>2, <3>1 DEF StaffsInv
    <3>5. StaffAssumed(StaffScenes[n]) /\ \A v, w \in StaffScenes[n].workers : v = w
      BY <3>1, StaffScene
    <3>6. PICK s : s = StaffScenes[n]
      OBVIOUS
    <3>7. People(s)!RoleDeletedUnborne
      BY ONLY <3>3, <3>4, <3>5, <3>6, RoleDeletion
    <3> QED
      BY <3>6, <3>7
  <2>3. ASSUME NEW n \in DOMAIN SetupScenes, scene = n
        PROVE  Setup(SetupScenes[n])!PartsKept
    <3>1. SetupInv(SetupScenes[n]) /\ SetupAssumed(SetupScenes[n])
      BY <2>3, SetupScene DEF SetupsInv
    <3>2. Setup(SetupScenes[n])!Next
      BY <2>3, SceneNames DEF Next
    <3> QED
      BY <3>1, <3>2, SetupStep
  <2> QED
    BY <2>1, <2>2, <2>3
<1> HIDE DEF Inv
<1>4. Inv /\ [Next]_vars => [Kept]_vars
  BY <1>3
<1>5. Spec => [][Kept]_vars
  <2> HIDE DEF Kept
  <2> QED
    BY <1>1, <1>2, <1>4, PTL DEF Spec
<1> QED
  BY <1>5 DEF NothingTakenBack
================================================================================
