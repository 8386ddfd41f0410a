------------------------------ MODULE CheckThenAct ------------------------------
(***************************************************************************)
(* What the program promises of a limit that a request reads before it     *)
(* writes, with nothing held in between: a credit limit, the quantity      *)
(* sold on a receipt line, one open shift per register.  Under READ        *)
(* COMMITTED every request that passed the check may still act on it, so   *)
(* the limit itself is not kept.  What is kept is one limit per request in *)
(* flight, and that is the abstract specification the detailed modules are *)
(* shown to implement.                                                     *)
(***************************************************************************)
EXTENDS Integers, FiniteSets

CONSTANTS
  Workers,   \* the requests that can be in flight together
  Limit      \* what may be used

ASSUME CheckThenActAssumption ==
  /\ IsFiniteSet(Workers)
  /\ Limit \in Nat

VARIABLES
  used,      \* what the committed rows add up to
  pend       \* pend[w]: what w has been cleared to add, 0 if nothing

vars == <<used, pend>>

Pending == {w \in Workers : pend[w] > 0}

Init ==
  /\ used = 0
  /\ pend = [w \in Workers |-> 0]

Check_Unread(w, c) ==
  /\ pend[w] = 0
  /\ pend' = [pend EXCEPT ![w] = c]
  /\ UNCHANGED used

(* The check sees the committed rows only, never another request's c. *)
Check(w, c) ==
  /\ pend[w] = 0
  /\ used + c <= Limit
  /\ pend' = [pend EXCEPT ![w] = c]
  /\ UNCHANGED used

Commit_Repeated(w) ==
  /\ pend[w] > 0
  /\ used' = used + pend[w]
  /\ UNCHANGED pend
Commit(w) ==
  /\ pend[w] > 0
  /\ used' = used + pend[w]
  /\ pend' = [pend EXCEPT ![w] = 0]

Abort(w) ==
  /\ pend[w] > 0
  /\ pend' = [pend EXCEPT ![w] = 0]
  /\ UNCHANGED used

(* A void or a close gives some of what is used back. *)
Release(k) ==
  /\ k <= used
  /\ used' = used - k
  /\ UNCHANGED pend

Next ==
  \/ \E w \in Workers, c \in 1 .. Limit : Check(w, c)
  \/ \E w \in Workers : Commit(w)
  \/ \E w \in Workers : Abort(w)
  \/ \E k \in 1 .. used : Release(k)

Spec == Init /\ [][Next]_vars

--------------------------------------------------------------------------------

TypeOK ==
  /\ used \in Nat
  /\ pend \in [Workers -> 0 .. Limit]

(* However the requests interleave, the rows never add up to more than one *)
(* limit per request in flight (posPayment CREDIT rows of a customer,      *)
(* PosReturn rows of a line, OPEN PosShift rows of a register).            *)
OneLimitEach == used <= Limit * Cardinality(Workers)

(* The strengthening that is inductive: either every cleared request would *)
(* still fit were it to add a whole limit, or one of them, the last to be  *)
(* cleared, accounts for what is used and the others add a limit each.     *)
Headroom ==
  \/ used + Limit * Cardinality(Pending) <= Limit * Cardinality(Workers)
  \/ \E p \in Pending :
       used + pend[p] + Limit * (Cardinality(Pending) - 1)
         <= Limit * Cardinality(Workers)

Inv == TypeOK /\ Headroom
================================================================================
