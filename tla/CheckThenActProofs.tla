--------------------------- MODULE CheckThenActProofs ---------------------------
(***************************************************************************)
(* For any number of requests and any limit, CheckThenAct never uses more  *)
(* than one limit per request in flight.                                   *)
(***************************************************************************)
EXTENDS CheckThenAct, FiniteSetTheorems, TLAPS

Full == Limit * Cardinality(Workers)

LEMMA PendingFinite ==
  /\ IsFiniteSet(Pending)
  /\ Cardinality(Pending) \in Nat
  /\ Cardinality(Workers) \in Nat
  /\ Cardinality(Pending) <= Cardinality(Workers)
BY CheckThenActAssumption, FS_Subset, FS_CardinalityType DEF Pending

(* One request more or less in flight is one limit more or less. *)
LEMMA OneMore ==
  ASSUME NEW L \in Nat, NEW m \in Nat
  PROVE  L * (m + 1) = L * m + L
BY SMT

LEMMA Monotone ==
  ASSUME NEW L \in Nat, NEW m \in Nat, NEW n \in Nat, m <= n
  PROVE  L * m <= L * n
<1>1. PICK d \in Nat : n = m + d
  BY n - m \in Nat
<1>2. L * n = L * m + L * d
  BY <1>1, SMT
<1>3. L * d \in Nat /\ L * m \in Nat
  BY SMT
<1> QED
  BY <1>2, <1>3

LEMMA InitInv == Init => Inv
<1> SUFFICES ASSUME Init PROVE Inv
  OBVIOUS
<1> USE CheckThenActAssumption
<1>1. TypeOK
  BY DEF Init, TypeOK
<1>2. Pending = {}
  BY DEF Init, Pending
<1>3. Cardinality(Pending) = 0
  BY <1>2, FS_EmptySet
<1>4. used + Limit * 0 <= Limit * Cardinality(Workers)
  BY Monotone, PendingFinite, 0 \in Nat DEF Init
<1> QED
  BY <1>1, <1>3, <1>4 DEF Inv, Headroom

LEMMA CheckInv ==
  ASSUME Inv, NEW w \in Workers, NEW c \in 1 .. Limit, Check(w, c)
  PROVE  Inv'
<1> USE CheckThenActAssumption
<1> DEFINE m == Cardinality(Pending)
<1>1. TypeOK'
  BY DEF Inv, TypeOK, Check
<1>2. Pending' = Pending \union {w} /\ w \notin Pending
  BY DEF Check, Pending, Inv, TypeOK
<1>3. Cardinality(Pending') = m + 1
  BY <1>2, PendingFinite, FS_AddElement
<1>4. m + 1 <= Cardinality(Workers)
  <2>1. Pending' \subseteq Workers
    BY DEF Pending
  <2> QED
    BY <1>3, <2>1, FS_Subset
<1>5. used' + pend'[w] <= Limit
  BY DEF Check, Inv, TypeOK
<1>6. Limit * (m + 1) <= Limit * Cardinality(Workers)
  BY <1>4, PendingFinite, Monotone
<1>7. Limit * (m + 1) = Limit * m + Limit /\ Limit * m \in Nat
  BY PendingFinite, OneMore
<1>8. used' + pend'[w] + Limit * m <= Limit * Cardinality(Workers)
  <2>1. used' \in Nat /\ pend'[w] \in Nat
    BY <1>1 DEF TypeOK
  <2>2. Limit * Cardinality(Workers) \in Nat
    BY PendingFinite
  <2> QED
    BY <1>5, <1>6, <1>7, <2>1, <2>2
<1>9. Headroom'
  <2>1. Cardinality(Pending') - 1 = m
    BY <1>3, PendingFinite
  <2>2. w \in Pending'
    BY <1>2
  <2> QED
    BY <1>8, <2>1, <2>2 DEF Headroom
<1> QED
  BY <1>1, <1>9 DEF Inv

(* What leaves the set of cleared requests when w is done. *)
LEMMA OneLess ==
  ASSUME Inv, NEW w \in Workers, pend[w] > 0, pend' = [pend EXCEPT ![w] = 0]
  PROVE  /\ Pending' = Pending \ {w}
         /\ w \in Pending
         /\ Cardinality(Pending) - 1 \in Nat
         /\ Cardinality(Pending') = Cardinality(Pending) - 1
         /\ Limit * Cardinality(Pending) = Limit * (Cardinality(Pending) - 1) + Limit
         /\ \A p \in Pending' :
              /\ Cardinality(Pending') - 1 \in Nat
              /\ Limit * Cardinality(Pending')
                   = Limit * (Cardinality(Pending') - 1) + Limit
<1> USE CheckThenActAssumption
<1>1. Pending' = Pending \ {w} /\ w \in Pending
  BY DEF Pending, Inv, TypeOK
<1>2. Cardinality(Pending') = Cardinality(Pending) - 1
  BY <1>1, PendingFinite, FS_RemoveElement
<1>3. IsFiniteSet(Pending')
  BY <1>1, PendingFinite, FS_Subset
<1>4. Cardinality(Pending') \in Nat
  BY <1>3, FS_CardinalityType
<1>5. Limit * (Cardinality(Pending') + 1) = Limit * Cardinality(Pending') + Limit
  BY <1>4, OneMore
<1>6. ASSUME NEW p \in Pending'
      PROVE  /\ Cardinality(Pending') - 1 \in Nat
             /\ Limit * Cardinality(Pending')
                  = Limit * (Cardinality(Pending') - 1) + Limit
  <2>1. Cardinality(Pending') # 0
    BY <1>3, <1>6, FS_EmptySet
  <2>2. Cardinality(Pending') - 1 \in Nat
    BY <1>4, <2>1
  <2>3. Limit * ((Cardinality(Pending') - 1) + 1)
          = Limit * (Cardinality(Pending') - 1) + Limit
    BY <2>2, OneMore
  <2>4. (Cardinality(Pending') - 1) + 1 = Cardinality(Pending')
    BY <1>4
  <2> QED
    BY <2>2, <2>3, <2>4
<1>7. Cardinality(Pending') + 1 = Cardinality(Pending)
  BY <1>2, <1>4, PendingFinite
<1> QED
  BY <1>1, <1>2, <1>4, <1>5, <1>6, <1>7

(* A request that is done gives its place back, whether it used what it    *)
(* was cleared for (added = pend[w]) or nothing (added = 0).               *)
LEMMA DoneInv ==
  ASSUME Inv, NEW w \in Workers, pend[w] > 0, pend' = [pend EXCEPT ![w] = 0],
         NEW added \in 0 .. pend[w], used' = used + added
  PROVE  Inv'
<1> USE CheckThenActAssumption
<1> DEFINE n == Cardinality(Workers)
           m == Cardinality(Pending)
<1>1. TypeOK'
  BY DEF Inv, TypeOK
<1>2. used \in Nat /\ pend[w] \in 0 .. Limit /\ \A p \in Pending : pend[p] \in 0 .. Limit
  BY DEF Inv, TypeOK, Pending
<1>3. n \in Nat /\ m \in Nat /\ Limit * n \in Nat /\ Limit * m \in Nat
  BY PendingFinite
<1>4. /\ Pending' = Pending \ {w}
      /\ Cardinality(Pending') = m - 1
      /\ m - 1 \in Nat
      /\ Limit * m = Limit * (m - 1) + Limit
  BY OneLess
<1>5. Limit * (m - 1) \in Nat
  BY <1>4
<1> HIDE DEF n, m
<1>6. CASE used + Limit * m <= Limit * n
  <2>1. used' + Limit * (m - 1) <= Limit * n
    BY <1>2, <1>3, <1>4, <1>5, <1>6
  <2> QED
    BY <1>1, <1>4, <2>1 DEF Inv, Headroom, n
<1>7. CASE used + pend[w] + Limit * (m - 1) <= Limit * n
  <2>1. used' + Limit * (m - 1) <= Limit * n
    BY <1>2, <1>3, <1>4, <1>5, <1>7
  <2> QED
    BY <1>1, <1>4, <2>1 DEF Inv, Headroom, n
<1>8. ASSUME NEW p \in Pending, p # w,
             used + pend[p] + Limit * (m - 1) <= Limit * n
      PROVE  Inv'
  <2>1. p \in Pending' /\ pend'[p] = pend[p]
    BY <1>4, <1>8 DEF Pending
  <2>2. /\ (m - 1) - 1 \in Nat
        /\ Limit * (m - 1) = Limit * ((m - 1) - 1) + Limit
    BY <1>4, <2>1, OneLess
  <2>3. Limit * ((m - 1) - 1) \in Nat
    BY <2>2
  <2>4. pend[p] \in Nat
    BY <1>2
  <2>5. used' + pend'[p] + Limit * ((m - 1) - 1) <= Limit * n
    BY <1>2, <1>3, <1>5, <1>8, <2>1, <2>2, <2>3, <2>4
  <2> QED
    BY <1>1, <1>4, <2>1, <2>5 DEF Inv, Headroom, n
<1> QED
  BY <1>6, <1>7, <1>8 DEF Inv, Headroom, n, m

LEMMA ReleaseInv ==
  ASSUME Inv, NEW k \in 1 .. used, Release(k)
  PROVE  Inv'
<1> USE CheckThenActAssumption
<1>1. TypeOK' /\ Pending' = Pending /\ pend' = pend /\ used' \in Nat /\ used' <= used
  BY DEF Inv, TypeOK, Release, Pending
<1>2. used \in Nat /\ \A p \in Pending : pend[p] \in Nat
  BY DEF Inv, TypeOK, Pending
<1>3. Cardinality(Pending) \in Nat /\ Cardinality(Workers) \in Nat
  BY PendingFinite
<1>4. Limit * Cardinality(Pending) \in Int /\ Limit * (Cardinality(Pending) - 1) \in Int
      /\ Limit * Cardinality(Workers) \in Int
  BY <1>3
<1> QED
  BY <1>1, <1>2, <1>4 DEF Inv, Headroom

LEMMA NextInv == Inv /\ [Next]_vars => Inv'
<1> SUFFICES ASSUME Inv, [Next]_vars PROVE Inv'
  OBVIOUS
<1>1. ASSUME NEW w \in Workers, NEW c \in 1 .. Limit, Check(w, c) PROVE Inv'
  BY <1>1, CheckInv
<1>2. ASSUME NEW w \in Workers, Commit(w) PROVE Inv'
  <2>1. pend[w] \in 0 .. pend[w]
    BY DEF Inv, TypeOK
  <2> QED
    BY <1>2, <2>1, DoneInv DEF Commit
<1>3. ASSUME NEW w \in Workers, Abort(w) PROVE Inv'
  <2>1. 0 \in 0 .. pend[w] /\ used + 0 = used
    BY CheckThenActAssumption DEF Inv, TypeOK
  <2> QED
    BY <1>3, <2>1, DoneInv DEF Abort
<1>4. ASSUME NEW k \in 1 .. used, Release(k) PROVE Inv'
  BY <1>4, ReleaseInv
<1>5. CASE UNCHANGED vars
  BY <1>5 DEF vars, Inv, TypeOK, Headroom, Pending
<1> QED
  BY <1>1, <1>2, <1>3, <1>4, <1>5 DEF Next

LEMMA InvBound == Inv => OneLimitEach
<1> SUFFICES ASSUME Inv PROVE OneLimitEach
  OBVIOUS
<1> USE CheckThenActAssumption
<1>1. /\ used \in Nat
      /\ \A p \in Pending : pend[p] \in Nat
  BY DEF Inv, TypeOK, Pending
<1>2. Cardinality(Pending) \in Nat /\ Cardinality(Workers) \in Nat
  BY PendingFinite
<1>3. CASE used + Limit * Cardinality(Pending) <= Limit * Cardinality(Workers)
  BY <1>1, <1>2, <1>3 DEF OneLimitEach
<1>4. ASSUME NEW p \in Pending,
             used + pend[p] + Limit * (Cardinality(Pending) - 1) <= Limit * Cardinality(Workers)
      PROVE  OneLimitEach
  <2>1. Cardinality(Pending) # 0
    BY PendingFinite, FS_EmptySet
  <2>2. Cardinality(Pending) - 1 \in Nat
    BY <1>2, <2>1
  <2>3. Limit * (Cardinality(Pending) - 1) \in Nat
    BY <2>2
  <2> QED
    BY <1>1, <1>2, <1>4, <2>3 DEF OneLimitEach
<1> QED
  BY <1>3, <1>4 DEF Inv, Headroom

(* What is used and what is still in flight fit below one limit for each   *)
(* request: the invariant that every check and every write keeps.          *)
THEOREM InvHolds == Spec => []Inv
<1>1. Init => Inv
  BY InitInv
<1>2. Inv /\ [Next]_vars => Inv'
  BY NextInv
<1> QED
  BY <1>1, <1>2, PTL DEF Spec

(* However the requests interleave, what is used never exceeds one limit   *)
(* for each request that can be in flight.  The detailed modules implement *)
(* this specification with a customer's credit, a receipt line's returns   *)
(* and a register's open shifts.                                           *)
THEOREM OneLimitEachHolds == Spec => []OneLimitEach
<1>1. Inv => OneLimitEach
  BY InvBound
<1> QED
  BY <1>1, InvHolds, PTL
================================================================================
