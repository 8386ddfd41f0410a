--------------------------------- MODULE MCEnds ---------------------------------
(***************************************************************************)
(* What must end, and what users get in the end: ConnectionPool, SignIn,   *)
(* DeletionCode and Banking under the fairness that their scheduling       *)
(* justifies, side by side as in MCTrade.  The pool is extended and idle   *)
(* in the scenes of the others, whose requests have step in place of pc.   *)
(***************************************************************************)
EXTENDS ConnectionPool

CONSTANTS Three, savings

VARIABLES
  scene,                      \* "pool", "sign_in", "deletion" or "banking"
  step, job,                  \* see Requests
  user, sessions,             \* see SignIn
  org, latest, entries,       \* see DeletionCode
  accounts, rows, journals    \* see Banking

signing == <<user, sessions>>
coding == <<org, latest, entries>>
banking == <<accounts, rows, journals>>
handling == <<step, job>>
endsVars == <<scene, vars, signing, coding, banking, handling>>

Sign ==
  INSTANCE SignIn WITH
    Workers <- Three, pc <- step, Invited <- FALSE, MaxSessions <- 0, MaxChanges <- 0
Code == INSTANCE DeletionCode WITH pc <- step, Allowed <- 2, MaxWrong <- 0

(* A withdrawal twice at most, and a purchase that draws on the account.   *)
Bank ==
  INSTANCE Banking WITH
    pc <- step, Accounts <- {savings}, Openings <- {0}, Batches <- {<<-2>>},
    Statements <- {}, Transfers <- {}, Edits <- {}, Legacy <- {}, Drawn <- {1},
    MaxAttempts <- 3, MaxRows <- 2

ASSUME EndsAssumption ==
  /\ Cardinality(Three) = 3 /\ Workers \subseteq Three /\ Cardinality(Workers) = 2
  /\ PoolAssumption

NoSigning == user = None /\ sessions = None
NoCoding == org = None /\ latest = None /\ entries = None
NoBanking == accounts = None /\ rows = None /\ journals = None

EndsInit ==
  /\ Init
  /\ \/ scene = "pool" /\ NoSigning /\ NoCoding /\ NoBanking /\ step = None /\ job = None
     \/ scene = "sign_in" /\ Sign!Init /\ NoCoding /\ NoBanking
     \/ scene = "deletion" /\ Code!Init /\ NoSigning /\ NoBanking
     \/ scene = "banking" /\ Bank!Init /\ NoSigning /\ NoCoding

InPool(A) == scene = "pool" /\ A /\ UNCHANGED <<scene, signing, coding, banking, handling>>
InSign(A) == scene = "sign_in" /\ A /\ UNCHANGED <<scene, vars, coding, banking>>
InCode(A) == scene = "deletion" /\ A /\ UNCHANGED <<scene, vars, signing, banking>>
InBank(A) == scene = "banking" /\ A /\ UNCHANGED <<scene, vars, signing, coding>>

EndsNext == InPool(Next) \/ InSign(Sign!Next) \/ InCode(Code!Next) \/ InBank(Bank!Next)

(* A user who is not verified registers and asks for codes, an owner whose *)
(* organization is there asks for one, again and again; they enter a code  *)
(* that has come, and do not for ever ask for another before the last has  *)
(* come.  Mails and the server do not fail for ever; time passes; a        *)
(* request to the tills or the bank that was taken up is served to its     *)
(* end, that to the tills without a time limit having to end it.  Of the   *)
(* actions under one SF or WF only that of the scene is ever enabled.      *)
SomeSign(A(_)) == \E w \in Three : InSign(A(w))
SomeCode(A(_)) == \E w \in Workers : InCode(A(w))

FairSpec ==
  /\ EndsInit /\ [][EndsNext]_endsVars
  /\ WF_endsVars(InSign(Sign!MinutePasses) \/ InCode(Code!MinutePasses))
  /\ SF_endsVars(SomeSign(Sign!Register) \/ SomeCode(Code!AskRead))
  /\ SF_endsVars(SomeSign(Sign!Resend))
  /\ SF_endsVars(SomeSign(Sign!VerifyRead) \/ SomeCode(Code!EnterRight))
  /\ SF_endsVars(SomeSign(Sign!StoreCode) \/ SomeCode(Code!StoreCode))
  /\ SF_endsVars(\/ \E w \in Three : InSign(Sign!MailCode(w) /\ user.code = w)
                 \/ \E w \in Workers : InCode(Code!MailCode(w) /\ latest.code = w))
  /\ SF_endsVars(SomeSign(Sign!VerifyCommit) \/ SomeCode(Code!DeleteCommit))
  /\ \A w \in Three :
       /\ WF_endsVars(\/ InSign(Sign!MailCode(w))
                      \/ w \in Workers /\ InCode(Code!MailCode(w) \/ Code!MailFails(w)))
       /\ WF_endsVars(InSign(Sign!MarkSent(w)) \/ (w \in Workers /\ InCode(Code!Withdraw(w))))
       /\ WF_endsVars(w \in Workers /\ (InBank(Bank!Serve(w)) \/ InPool(Serve(w))))

--------------------------------------------------------------------------------
(* Properties. *)

(* Whatever fails between storing, mailing and marking a code, and however *)
(* codes overtake each other and expire, the account is verified in the    *)
(* end, and stays so (register, resendVerification, verifyEmail).          *)
EventuallyVerified == <>[](scene = "sign_in" => user.verified)

(* Whatever mails fail or codes expire, the owner gets the organization    *)
(* deleted in the end (requestDeletionCode, deleteOrganization).           *)
EventuallyDeleted == <>(scene = "deletion" => ~org.exists)

(* Every request to the bank ends: collisions of serializable transactions *)
(* are not retried for ever (serializable).  With a connection more than   *)
(* requests so does every request to the tills, whatever it asks for       *)
(* beside its transaction (complete, voidSale, returnItem).                *)
EveryRequestEnds ==
  \A w \in Workers :
    /\ (scene = "banking" /\ step[w] # "idle") ~> (scene = "banking" /\ step[w] = "idle")
    /\ pc[w] # "idle" ~> pc[w] = "idle"
================================================================================
