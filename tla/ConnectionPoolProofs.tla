-------------------------- MODULE ConnectionPoolProofs --------------------------
(***************************************************************************)
(* For any number of requests and connections: a request never has two     *)
(* transactions open, and while there are fewer requests than connections  *)
(* they do not all wait for each other's connections.                      *)
(***************************************************************************)
EXTENDS ConnectionPool, FiniteSetTheorems, TLAPS

LEMMA Owners ==
  ASSUME PoolAssumption, NEW v \in Workers, NEW w \in Workers
  PROVE  /\ None # Tx(v) /\ None # Query(v) /\ Tx(v) # Query(w)
         /\ Tx(v) = Tx(w) <=> v = w
         /\ Query(v) = Query(w) <=> v = w
BY DEF PoolAssumption, Tx, Query

LEMMA InitPool == ASSUME PoolAssumption, Init PROVE PoolInv
BY DEF PoolAssumption, Init, PoolInv, TypeOK, Labels, OneTxEach, TxWhileRunning,
       QueryWhileReading, Tx, Query

(* Connections given back: to TxWhileRunning and QueryWhileReading, w may  *)
(* then be anywhere that what it keeps allows.                             *)
LEMMA ReturnedAll ==
  ASSUME PoolAssumption, PoolInv, NEW w \in Workers, NEW label \in Labels,
         ReturnAll(w), Goto(w, label)
  PROVE  PoolInv'
<1>1. TypeOK'
  BY DEF PoolInv, TypeOK, ReturnAll, Goto
<1>2. \A c \in Conns : owner'[c] = None \/ (owner'[c] = owner[c] /\ ~Freed(w, c))
  BY DEF PoolInv, TypeOK, ReturnAll
<1>3. \A v \in Workers \ {w} : pc'[v] = pc[v]
  BY DEF PoolInv, TypeOK, Goto
<1>7. OneTxEach'
  BY <1>2, Owners DEF PoolInv, OneTxEach
<1>8. TxWhileRunning'
  BY <1>2, <1>3, Owners DEF PoolInv, TxWhileRunning, Freed
<1>9. QueryWhileReading'
  BY <1>2, <1>3, Owners DEF PoolInv, QueryWhileReading, Freed
<1> QED
  BY <1>1, <1>7, <1>8, <1>9 DEF PoolInv

LEMMA ReturnedQuery ==
  ASSUME PoolAssumption, PoolInv, NEW w \in Workers, Answer(w)
  PROVE  PoolInv'
<1>1. TypeOK'
  BY DEF PoolInv, TypeOK, Labels, Answer, ReturnQuery, Goto
<1>2. \A c \in Conns : owner'[c] = None \/ (owner'[c] = owner[c] /\ ~Answered(w, c))
  BY DEF PoolInv, TypeOK, Answer, ReturnQuery
<1>3. \A v \in Workers \ {w} : pc'[v] = pc[v]
  BY DEF PoolInv, TypeOK, Answer, Goto
<1>4. pc'[w] = IF pc[w] = "reading" THEN "running" ELSE "idle"
  BY DEF PoolInv, TypeOK, Answer, Goto
<1>7. OneTxEach'
  BY <1>2, Owners DEF PoolInv, OneTxEach
<1>8. TxWhileRunning'
  <2> SUFFICES ASSUME NEW c \in Conns, NEW v \in Workers, owner'[c] = Tx(v)
               PROVE  pc'[v] \in {"running", "asking", "reading", "selling"}
    BY DEF TxWhileRunning
  <2>1. owner[c] = Tx(v)
    BY <1>2, Owners
  <2>2. pc[v] \in {"running", "asking", "reading", "selling"}
    BY <2>1 DEF PoolInv, TxWhileRunning
  <2>3. CASE v = w
    BY <1>4, <2>2, <2>3 DEF Answer
  <2>4. CASE v # w
    BY <2>2, <2>4, <1>3
  <2> QED
    BY <2>3, <2>4
<1>9. QueryWhileReading'
  <2> SUFFICES ASSUME NEW c \in Conns, NEW v \in Workers, owner'[c] = Query(v)
               PROVE  pc'[v] \in {"reading", "reading late"}
    BY DEF QueryWhileReading
  <2>1. owner[c] = Query(v) /\ v # w
    BY <1>2, Owners DEF Answered
  <2>2. pc[v] \in {"reading", "reading late"}
    BY <2>1 DEF PoolInv, QueryWhileReading
  <2>3. CASE v = w
    BY <2>1, <2>3
  <2>4. CASE v # w
    BY <2>2, <2>4, <1>3
  <2> QED
    BY <2>3, <2>4
<1> QED
  BY <1>1, <1>7, <1>8, <1>9 DEF PoolInv

LEMMA ReturnedTx ==
  ASSUME PoolAssumption, PoolInv, NEW w \in Workers, Expire(w)
  PROVE  PoolInv'
<1>1. TypeOK'
  BY DEF PoolInv, TypeOK, Labels, Expire, ReturnTx, Goto
<1>2. \A c \in Conns : owner'[c] = None \/ (owner'[c] = owner[c] /\ owner[c] # Tx(w))
  BY DEF PoolInv, TypeOK, Expire, ReturnTx
<1>3. \A v \in Workers \ {w} : pc'[v] = pc[v]
  BY DEF PoolInv, TypeOK, Expire, Goto
<1>4. pc[w] = "reading" => pc'[w] = "reading late"
  BY DEF PoolInv, TypeOK, Expire, Goto
<1>5. pc[w] # "reading late"
  BY DEF Expire
<1>7. OneTxEach'
  BY <1>2, Owners DEF PoolInv, OneTxEach
<1>8. TxWhileRunning'
  BY <1>2, <1>3, Owners DEF PoolInv, TxWhileRunning
<1>9. QueryWhileReading'
  <2> SUFFICES ASSUME NEW c \in Conns, NEW v \in Workers, owner'[c] = Query(v)
               PROVE  pc'[v] \in {"reading", "reading late"}
    BY DEF QueryWhileReading
  <2>1. owner[c] = Query(v)
    BY <1>2, Owners
  <2>2. pc[v] \in {"reading", "reading late"}
    BY <2>1 DEF PoolInv, QueryWhileReading
  <2>3. CASE v = w
    BY <1>4, <1>5, <2>2, <2>3
  <2>4. CASE v # w
    BY <2>2, <2>4, <1>3
  <2> QED
    BY <2>3, <2>4
<1> QED
  BY <1>1, <1>7, <1>8, <1>9 DEF PoolInv

LEMMA Moved ==
  ASSUME PoolInv, NEW w \in Workers, NEW label \in Labels, Goto(w, label), owner' = owner,
         pc[w] \in {"idle", "running"},
         pc[w] = "running" => label \in {"asking", "selling"}
  PROVE  PoolInv'
<1>1. TypeOK'
  BY DEF PoolInv, TypeOK, Goto
<1>2. \A v \in Workers \ {w} : pc'[v] = pc[v]
  BY DEF PoolInv, TypeOK, Goto
<1>3. pc'[w] = label
  BY DEF PoolInv, TypeOK, Goto
<1>4. OneTxEach'
  BY DEF PoolInv, OneTxEach
<1>5. TxWhileRunning'
  <2> SUFFICES ASSUME NEW c \in Conns, NEW v \in Workers, owner'[c] = Tx(v)
               PROVE  pc'[v] \in {"running", "asking", "reading", "selling"}
    BY DEF TxWhileRunning
  <2>1. owner[c] = Tx(v)
    OBVIOUS
  <2>2. pc[v] \in {"running", "asking", "reading", "selling"}
    BY <2>1 DEF PoolInv, TxWhileRunning
  <2>3. CASE v = w
    BY <1>3, <2>2, <2>3
  <2>4. CASE v # w
    BY <2>2, <2>4, <1>2
  <2> QED
    BY <2>3, <2>4
<1>6. QueryWhileReading'
  <2> SUFFICES ASSUME NEW c \in Conns, NEW v \in Workers, owner'[c] = Query(v)
               PROVE  pc'[v] \in {"reading", "reading late"}
    BY DEF QueryWhileReading
  <2>1. owner[c] = Query(v)
    OBVIOUS
  <2>2. pc[v] \in {"reading", "reading late"}
    BY <2>1 DEF PoolInv, QueryWhileReading
  <2>3. CASE v = w
    BY <2>2, <2>3
  <2>4. CASE v # w
    BY <2>2, <2>4, <1>2
  <2> QED
    BY <2>3, <2>4
<1> QED
  BY <1>1, <1>4, <1>5, <1>6 DEF PoolInv

LEMMA Lent ==
  ASSUME PoolInv, NEW w \in Workers, NEW c \in Conns, Lend(w, c)
  PROVE  PoolInv'
<1> DEFINE what == IF pc[w] = "arriving" THEN Tx(w) ELSE Query(w)
<1>1. what \in Workers \X {"tx", "query"}
  BY DEF Tx, Query
<1>2. TypeOK'
  BY <1>1 DEF PoolInv, TypeOK, Labels, Lend, Reached, Goto
<1>3. owner'[c] = what /\ \A d \in Conns \ {c} : owner'[d] = owner[d]
  BY DEF PoolInv, TypeOK, Lend
<1>4. \A v \in Workers \ {w} : pc'[v] = pc[v]
  BY DEF PoolInv, TypeOK, Lend, Goto
<1>5. pc'[w] = Reached(pc[w])
  BY DEF PoolInv, TypeOK, Lend, Goto
<1>6. pc[w] \in {"arriving", "asking", "late"}
  BY DEF Lend, Waits
<1>7. OneTxEach'
  BY <1>3, <1>6 DEF PoolInv, OneTxEach, TxWhileRunning, Tx, Query
<1>8. TxWhileRunning'
  <2> SUFFICES ASSUME NEW d \in Conns, NEW v \in Workers, owner'[d] = Tx(v)
               PROVE  pc'[v] \in {"running", "asking", "reading", "selling"}
    BY DEF TxWhileRunning
  <2>1. CASE d = c
    <3>1. v = w /\ pc[w] = "arriving"
      BY <1>3, <2>1 DEF Tx, Query
    <3> QED
      BY <1>5, <3>1 DEF Reached
  <2>2. CASE d # c
    <3>1. pc[v] \in {"running", "asking", "reading", "selling"}
      BY <1>3, <2>2 DEF PoolInv, TxWhileRunning
    <3>2. CASE v = w
      BY <1>5, <1>6, <3>1, <3>2 DEF Reached
    <3>3. CASE v # w
      BY <1>4, <3>1, <3>3
    <3> QED
      BY <3>2, <3>3
  <2> QED
    BY <2>1, <2>2
<1>9. QueryWhileReading'
  <2> SUFFICES ASSUME NEW d \in Conns, NEW v \in Workers, owner'[d] = Query(v)
               PROVE  pc'[v] \in {"reading", "reading late"}
    BY DEF QueryWhileReading
  <2>1. CASE d = c
    <3>1. v = w /\ pc[w] # "arriving"
      BY <1>3, <2>1 DEF Tx, Query
    <3> QED
      BY <1>5, <1>6, <3>1 DEF Reached
  <2>2. CASE d # c
    <3>1. pc[v] \in {"reading", "reading late"}
      BY <1>3, <2>2 DEF PoolInv, QueryWhileReading
    <3>2. v # w
      BY <1>6, <3>1
    <3> QED
      BY <1>4, <3>1, <3>2
  <2> QED
    BY <2>1, <2>2
<1> QED
  BY <1>2, <1>7, <1>8, <1>9 DEF PoolInv

LEMMA NextPool == ASSUME PoolAssumption, PoolInv, [Next]_vars PROVE PoolInv'
<1>1. ASSUME NEW w \in Workers, Arrive(w) PROVE PoolInv'
  BY <1>1, Moved, "arriving" \in Labels DEF Arrive, Labels
<1>2. ASSUME NEW w \in Workers, NEW c \in Conns, Lend(w, c) PROVE PoolInv'
  BY <1>2, Lent
<1>3. ASSUME NEW w \in Workers, Ask(w) PROVE PoolInv'
  BY <1>3, Moved, "asking" \in Labels DEF Ask, Labels
<1>4. ASSUME NEW w \in Workers, Answer(w) PROVE PoolInv'
  BY <1>4, ReturnedQuery
<1>5. ASSUME NEW w \in Workers, Lock(w) PROVE PoolInv'
  BY <1>5, Moved, "selling" \in Labels DEF Lock, Labels
<1>6. ASSUME NEW w \in Workers, Commit(w) \/ Leave(w) \/ WaitedTooLong(w) PROVE PoolInv'
  BY <1>6, ReturnedAll, "idle" \in Labels DEF Commit, Leave, WaitedTooLong, Labels
<1>7. ASSUME NEW w \in Workers, Expire(w) PROVE PoolInv'
  BY <1>7, ReturnedTx
<1>8. CASE UNCHANGED vars
  BY <1>8 DEF vars, PoolInv, TypeOK, OneTxEach, TxWhileRunning, QueryWhileReading
<1> QED
  BY <1>1, <1>2, <1>3, <1>4, <1>5, <1>6, <1>7, <1>8 DEF Next, Serve

(* In a standstill every connection would have a request of its own.       *)
LEMMA FewWait == ASSUME PoolInv PROVE NoStandstill
<1> SUFFICES ASSUME Ample, Standstill PROVE FALSE
  BY DEF NoStandstill
<1> DEFINE holder == [c \in Conns |-> CHOOSE w \in Workers : owner[c] = Tx(w)]
<1>1. \A c \in Conns : holder[c] \in Workers /\ owner[c] = Tx(holder[c])
  BY DEF Standstill
<1>2. holder \in [Conns -> Workers]
  BY <1>1
<1>3. PICK c, d \in Conns : c # d /\ holder[c] = holder[d]
  <2>1. \A f \in [Conns -> Workers] : \E c, d \in Conns : c # d /\ f[c] = f[d]
    BY FS_PigeonHole DEF Ample
  <2> QED
    BY <1>2, <2>1
<1> QED
  BY <1>1, <1>3 DEF PoolInv, OneTxEach

(* complete, voidSale, returnItem: a request has one transaction open at   *)
(* most, and only while it runs; a connection for a query beside it only   *)
(* while that is answered.                                                 *)
THEOREM PoolInvariant == ASSUME PoolAssumption PROVE Spec => []PoolInv
<1>1. Init => PoolInv
  BY InitPool
<1>2. PoolInv /\ [Next]_vars => PoolInv'
  BY NextPool
<1> QED
  BY <1>1, <1>2, PTL DEF Spec

(* With fewer requests in flight than connections, however queries beside  *)
(* transactions, locks and time limits interleave, the tills do not come   *)
(* to a standstill.                                                        *)
THEOREM TillsGoOn == ASSUME PoolAssumption PROVE Spec => []NoStandstill
<1>1. Spec => []PoolInv
  BY PoolInvariant
<1>2. PoolInv => NoStandstill
  BY FewWait
<1> QED
  BY <1>1, <1>2, PTL
================================================================================
