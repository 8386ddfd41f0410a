------------------------------ MODULE LedgersProofs ------------------------------
(***************************************************************************)
(* What Purchasing, Banking and Books keep, for any number of requests,    *)
(* orders, bills, accounts, transactions, journals and records, and any    *)
(* amounts: a scene s is any record of parameters that meets the           *)
(* assumption of its module, and the scenes of MCLedgers are some.         *)
(***************************************************************************)
EXTENDS MCLedgers, Sums, SequenceTheorems

--------------------------------------------------------------------------------
(* Purchasing: the shape of the rows, and of what a request has read.      *)

RequestStatuses == {"PENDING", "APPROVED", "REJECTED", "CANCELLED", "CONVERTED"}
OrderStatuses == {"DRAFT", "ISSUED", "PARTIALLY_RECEIVED", "RECEIVED", "BILLED", "CANCELLED"}
Billables == {"ISSUED", "PARTIALLY_RECEIVED", "RECEIVED"}
OrderRow == [request : Nat \union {None}, status : OrderStatuses]

OneOrderEach(os) ==
  \A o, p \in DOMAIN os : o # p /\ os[o].request # None => os[o].request # os[p].request

OrderJob(l, x, rs, os) ==
  /\ l \in {"idle", "deciding", "ordering", "updating", "converting", "billing"}
  /\ l = "deciding" => x.request \in DOMAIN rs /\ x.status \in RequestStatuses \ {"CONVERTED"}
  /\ l = "ordering" => x.request \in DOMAIN rs \union {None}
  /\ l = "updating" => x.order \in DOMAIN os /\ x.status \in OrderStatuses \ {"BILLED"}
  /\ l = "converting" => x.order \in DOMAIN os
  /\ l = "billing" => x.order \in DOMAIN os \union {None}

OrderInv(s) ==
  /\ requests \in Seq(RequestStatuses) /\ orders \in Seq(OrderRow)
  /\ OneOrderEach(orders)
  /\ DOMAIN pc = s.workers /\ DOMAIN job = s.workers
  /\ \A w \in s.workers : OrderJob(pc[w], job[w], requests, orders)

LEMMA OrderDecisions ==
  ASSUME NEW s
  PROVE  /\ DOMAIN Order(s)!RequestAllows = RequestStatuses
         /\ DOMAIN Order(s)!OrderAllows = OrderStatuses
         /\ \A c \in RequestStatuses : \A d \in Order(s)!RequestAllows[c] :
              c # "CONVERTED" /\ d \in RequestStatuses \ {"CONVERTED"}
         /\ \A c \in OrderStatuses : \A d \in Order(s)!OrderAllows[c] :
              c # "BILLED" /\ d \in OrderStatuses \ {"BILLED"}
BY DEF Order!RequestAllows, Order!OrderAllows, RequestStatuses, OrderStatuses

LEMMA OrderTurn ==
  ASSUME NEW s, NEW w \in s.workers, NEW l, NEW x, OrderInv(s), Order(s)!Turn(w, l, x)
  PROVE  /\ DOMAIN pc' = s.workers /\ DOMAIN job' = s.workers
         /\ pc'[w] = l /\ job'[w] = x
         /\ \A v \in s.workers \ {w} : pc'[v] = pc[v] /\ job'[v] = job[v]
BY DEF Order!Turn, OrderInv

LEMMA OrderDone ==
  ASSUME NEW s, NEW w \in s.workers, OrderInv(s), Order(s)!Done(w)
  PROVE  /\ DOMAIN pc' = s.workers /\ DOMAIN job' = s.workers
         /\ pc'[w] = "idle"
         /\ \A v \in s.workers \ {w} : pc'[v] = pc[v] /\ job'[v] = job[v]
BY OrderTurn DEF Order!Done

LEMMA OrderTables ==
  ASSUME NEW s, NEW w \in s.workers, NEW l, NEW x, OrderInv(s), Order(s)!Turn(w, l, x),
         requests' \in Seq(RequestStatuses), orders' \in Seq(OrderRow), OneOrderEach(orders'),
         DOMAIN requests \subseteq DOMAIN requests', DOMAIN orders \subseteq DOMAIN orders',
         OrderJob(l, x, requests', orders')
  PROVE  OrderInv(s)'
<1>1. ASSUME NEW v \in s.workers PROVE OrderJob(pc'[v], job'[v], requests', orders')
  <2>1. CASE v = w
    BY <2>1, OrderTurn
  <2>2. CASE v # w
    <3>1. OrderJob(pc'[v], job'[v], requests, orders)
      BY <2>2, OrderTurn DEF OrderInv
    <3> QED
      BY <3>1 DEF OrderJob
  <2> QED
    BY <2>1, <2>2
<1>2. DOMAIN pc' = s.workers /\ DOMAIN job' = s.workers
  BY OrderTurn
<1> QED
  BY <1>1, <1>2 DEF OrderInv

LEMMA OrderReads ==
  ASSUME NEW s, NEW w \in s.workers, OrderInv(s),
         \/ \E r \in DOMAIN requests, c \in DOMAIN Order(s)!RequestAllows : Order(s)!RequestRead(w, r, c)
         \/ \E r \in DOMAIN requests \union {None} : Order(s)!OrderRead(w, r)
         \/ \E o \in DOMAIN orders, c \in DOMAIN Order(s)!OrderAllows : Order(s)!StatusRead(w, o, c)
         \/ \E o \in DOMAIN orders : Order(s)!ToBillRead(w, o)
         \/ \E o \in DOMAIN orders \union {None}, n \in 1 .. s.bills : Order(s)!BillRead(w, o, n)
         \/ Order(s)!ToBillCheck(w) \/ Order(s)!Abort(w)
  PROVE  OrderInv(s)' /\ UNCHANGED <<requests, orders, bills>>
<1>1. ASSUME UNCHANGED <<requests, orders, bills>>, NEW l, NEW x, Order(s)!Turn(w, l, x),
             OrderJob(l, x, requests, orders)
      PROVE  OrderInv(s)' /\ UNCHANGED <<requests, orders, bills>>
  BY <1>1, OrderTables DEF OrderInv
<1>2. CASE \E r \in DOMAIN requests, c \in DOMAIN Order(s)!RequestAllows : Order(s)!RequestRead(w, r, c)
  <2>1. PICK r \in DOMAIN requests, c \in DOMAIN Order(s)!RequestAllows : Order(s)!RequestRead(w, r, c)
    BY <1>2
  <2>2. requests[r] \in RequestStatuses
    BY <2>1 DEF OrderInv
  <2>3. PICK x : x = [request |-> r, status |-> c]
    OBVIOUS
  <2>4. x.request = r /\ x.status = c
    BY <2>3
  <2>5. c \in RequestStatuses \ {"CONVERTED"}
    BY <2>1, <2>2, OrderDecisions DEF Order!RequestRead
  <2>6. OrderJob("deciding", x, requests, orders)
    BY <2>4, <2>5 DEF OrderJob
  <2> QED
    BY <1>1, <2>1, <2>3, <2>6 DEF Order!RequestRead, Order!rowVars
<1>3. CASE \E r \in DOMAIN requests \union {None} : Order(s)!OrderRead(w, r)
  <2>1. PICK r \in DOMAIN requests \union {None} : Order(s)!OrderRead(w, r)
    BY <1>3
  <2>2. PICK x : x = [request |-> r]
    OBVIOUS
  <2>3. OrderJob("ordering", x, requests, orders)
    BY <2>2 DEF OrderJob
  <2> QED
    BY <1>1, <2>1, <2>2, <2>3 DEF Order!OrderRead, Order!rowVars
<1>4. CASE \E o \in DOMAIN orders, c \in DOMAIN Order(s)!OrderAllows : Order(s)!StatusRead(w, o, c)
  <2>1. PICK o \in DOMAIN orders, c \in DOMAIN Order(s)!OrderAllows : Order(s)!StatusRead(w, o, c)
    BY <1>4
  <2>2. orders[o].status \in OrderStatuses
    <3>1. orders[o] \in OrderRow
      BY DEF OrderInv
    <3> QED
      BY <3>1 DEF OrderRow
  <2>3. PICK x : x = [order |-> o, status |-> c]
    OBVIOUS
  <2>4. x.order = o /\ x.status = c
    BY <2>3
  <2>5. c \in OrderStatuses \ {"BILLED"}
    BY <2>1, <2>2, OrderDecisions DEF Order!StatusRead
  <2>6. OrderJob("updating", x, requests, orders)
    BY <2>4, <2>5 DEF OrderJob
  <2> QED
    BY <1>1, <2>1, <2>3, <2>6 DEF Order!StatusRead, Order!rowVars
<1>5. CASE \E o \in DOMAIN orders : Order(s)!ToBillRead(w, o)
  <2>1. PICK o \in DOMAIN orders : Order(s)!ToBillRead(w, o)
    BY <1>5
  <2>2. PICK x : x = [order |-> o, number |-> Order(s)!NextBillNumber]
    OBVIOUS
  <2>3. OrderJob("converting", x, requests, orders)
    BY <2>2 DEF OrderJob
  <2> QED
    BY <1>1, <2>1, <2>2, <2>3 DEF Order!ToBillRead, Order!rowVars
<1>6. CASE \E o \in DOMAIN orders \union {None}, n \in 1 .. s.bills : Order(s)!BillRead(w, o, n)
  <2>1. PICK o \in DOMAIN orders \union {None}, n \in 1 .. s.bills : Order(s)!BillRead(w, o, n)
    BY <1>6
  <2>2. PICK x : x = [order |-> o, number |-> n]
    OBVIOUS
  <2>3. OrderJob("billing", x, requests, orders)
    BY <2>2 DEF OrderJob
  <2> QED
    BY <1>1, <2>1, <2>2, <2>3 DEF Order!BillRead, Order!rowVars
<1>7. CASE Order(s)!ToBillCheck(w)
  <2>1. OrderJob("billing", job[w], requests, orders)
    BY <1>7 DEF Order!ToBillCheck, Order!At, OrderInv, OrderJob
  <2> QED
    BY <1>1, <1>7, <2>1 DEF Order!ToBillCheck, Order!rowVars
<1>8. CASE Order(s)!Abort(w)
  <2>1. OrderJob("idle", None, requests, orders)
    BY DEF OrderJob
  <2> QED
    BY <1>1, <1>8, <2>1 DEF Order!Abort, Order!GiveUp, Order!Done, Order!rowVars
<1> QED
  BY <1>2, <1>3, <1>4, <1>5, <1>6, <1>7, <1>8

LEMMA OrderRows ==
  ASSUME NEW os \in Seq(OrderRow)
  PROVE  /\ DOMAIN os = 1 .. Len(os) /\ Len(os) \in Nat
         /\ \A o \in DOMAIN os : /\ os[o].request \in Nat \union {None}
                                 /\ os[o].status \in OrderStatuses
<1>1. \A o \in DOMAIN os : os[o] \in OrderRow
  OBVIOUS
<1> QED
  BY <1>1 DEF OrderRow

LEMMA RowAppended ==
  ASSUME NEW T, NEW q \in Seq(T), NEW e \in T
  PROVE  /\ Append(q, e) \in Seq(T) /\ Len(q) \in Nat /\ Len(q) + 1 \notin DOMAIN q
         /\ DOMAIN Append(q, e) = DOMAIN q \union {Len(q) + 1}
         /\ Append(q, e)[Len(q) + 1] = e
         /\ \A i \in DOMAIN q : Append(q, e)[i] = q[i]
  OBVIOUS

StatusSet(os, o, c) == [os EXCEPT ![o].status = c]
LEMMA OrderStatusSet ==
  ASSUME NEW os \in Seq(OrderRow), NEW o \in DOMAIN os, NEW c \in OrderStatuses, NEW k,
         k = StatusSet(os, o, c)
  PROVE  /\ k \in Seq(OrderRow) /\ DOMAIN k = DOMAIN os
         /\ \A p \in DOMAIN os :
              k[p].request = os[p].request /\ k[p].status = IF p = o THEN c ELSE os[p].status
<1>1. DOMAIN k = DOMAIN os /\ Len(os) \in Nat /\ DOMAIN os = 1 .. Len(os)
  BY DEF StatusSet
<1>2. ASSUME NEW p \in DOMAIN os
      PROVE  /\ k[p] \in OrderRow /\ k[p].request = os[p].request
             /\ k[p].status = IF p = o THEN c ELSE os[p].status
  <2>1. os[p] \in OrderRow
    OBVIOUS
  <2> QED
    BY <2>1 DEF OrderRow, StatusSet
<1>3. k \in [1 .. Len(os) -> OrderRow]
  BY <1>1, <1>2 DEF StatusSet
<1> QED
  BY <1>1, <1>2, <1>3

(* What the commits write. *)
StatusWas(t, u, k, c) ==
  DOMAIN u = DOMAIN t /\ \A i \in DOMAIN t : u[i] = IF i = k THEN c ELSE t[i]
OrderNow(os, ps, k, c) ==
  /\ DOMAIN ps = DOMAIN os
  /\ \A o \in DOMAIN os :
       ps[o].request = os[o].request /\ ps[o].status = IF o = k THEN c ELSE os[o].status
OrderMore(os, ps, n, x) ==
  /\ n \notin DOMAIN os /\ DOMAIN ps = DOMAIN os \union {n} /\ n \in Nat
  /\ ps[n].request = x /\ ps[n].status = "DRAFT"
  /\ \A o \in DOMAIN os : ps[o] = os[o]

LEMMA RequestCreated ==
  ASSUME NEW s, OrderInv(s), Order(s)!CreateRequest
  PROVE  /\ OrderInv(s)' /\ UNCHANGED <<orders, bills, pc, job>>
         /\ \E n \in Nat \ DOMAIN requests :
              /\ DOMAIN requests' = DOMAIN requests \union {n} /\ requests'[n] = "PENDING"
              /\ \A r \in DOMAIN requests : requests'[r] = requests[r]
<1>1. requests \in Seq(RequestStatuses) /\ requests' = Append(requests, "PENDING")
  BY DEF OrderInv, Order!CreateRequest
<1>2. "PENDING" \in RequestStatuses
  BY DEF RequestStatuses
<1>3. /\ requests' \in Seq(RequestStatuses) /\ Len(requests) + 1 \in Nat \ DOMAIN requests
      /\ DOMAIN requests' = DOMAIN requests \union {Len(requests) + 1}
      /\ requests'[Len(requests) + 1] = "PENDING"
      /\ \A r \in DOMAIN requests : requests'[r] = requests[r]
  BY <1>1, <1>2, RowAppended
<1>4. UNCHANGED <<orders, bills, pc, job>>
  BY DEF Order!CreateRequest, Order!requestVars
<1>5. OrderInv(s)'
  BY <1>3, <1>4 DEF OrderInv, OrderJob
<1> QED
  BY <1>3, <1>4, <1>5

LEMMA RequestDecided ==
  ASSUME NEW s, NEW w \in s.workers, OrderInv(s), Order(s)!RequestCommit(w)
  PROVE  /\ OrderInv(s)' /\ UNCHANGED <<orders, bills>> /\ Order(s)!Done(w)
         /\ pc[w] = "deciding" /\ StatusWas(requests, requests', job[w].request, job[w].status)
<1>1. /\ requests' = [requests EXCEPT ![job[w].request] = job[w].status]
      /\ UNCHANGED <<orders, bills>> /\ pc[w] = "deciding"
      /\ Order(s)!Done(w) /\ Order(s)!Turn(w, "idle", None)
  BY DEF Order!RequestCommit, Order!Done, Order!At
<1>2. job[w].request \in DOMAIN requests /\ job[w].status \in RequestStatuses
  BY <1>1 DEF OrderInv, OrderJob
<1>3. requests \in Seq(RequestStatuses)
  BY DEF OrderInv
<1>4. requests' \in Seq(RequestStatuses) /\ DOMAIN requests' = DOMAIN requests
  BY <1>1, <1>2, <1>3
<1>5. OrderJob("idle", None, requests', orders')
  BY DEF OrderJob
<1>6. OrderInv(s)'
  BY <1>1, <1>4, <1>5, OrderTables DEF OrderInv
<1>7. StatusWas(requests, requests', job[w].request, job[w].status)
  BY <1>1 DEF StatusWas
<1> QED
  BY <1>1, <1>6, <1>7

LEMMA OrderMade ==
  ASSUME NEW s, NEW w \in s.workers, OrderInv(s), Order(s)!OrderCommit(w)
  PROVE  /\ OrderInv(s)' /\ UNCHANGED bills /\ Order(s)!Done(w)
         /\ pc[w] = "ordering" /\ Order(s)!Unordered(job[w].request)
         /\ \E n : OrderMore(orders, orders', n, job[w].request)
         /\ \/ job[w].request = None /\ requests' = requests
            \/ job[w].request # None /\ StatusWas(requests, requests', job[w].request, "CONVERTED")
<1>1. /\ orders' = Append(orders, [request |-> job[w].request, status |-> "DRAFT"])
      /\ requests' = Order(s)!Converted(job[w].request)
      /\ UNCHANGED bills /\ pc[w] = "ordering"
      /\ Order(s)!Done(w) /\ Order(s)!Turn(w, "idle", None)
      /\ Order(s)!Unordered(job[w].request)
  BY DEF Order!OrderCommit, Order!Done, Order!At
<1>2. PICK x : x = job[w].request
  OBVIOUS
<1>3. x \in DOMAIN requests \union {None}
  BY <1>1, <1>2 DEF OrderInv, OrderJob
<1>4. requests \in Seq(RequestStatuses) /\ orders \in Seq(OrderRow)
  BY DEF OrderInv
<1>5. PICK e : e = [request |-> x, status |-> "DRAFT"]
  OBVIOUS
<1>6. e \in OrderRow /\ e.request = x /\ e.status = "DRAFT"
  <2>1. x \in Nat \union {None}
    BY <1>3, <1>4
  <2> QED
    BY <1>5, <2>1 DEF OrderRow, OrderStatuses
<1>7. /\ orders' \in Seq(OrderRow) /\ Len(orders) + 1 \in Nat \ DOMAIN orders
      /\ DOMAIN orders' = DOMAIN orders \union {Len(orders) + 1}
      /\ orders'[Len(orders) + 1] = e
      /\ \A o \in DOMAIN orders : orders'[o] = orders[o]
  BY <1>1, <1>2, <1>4, <1>5, <1>6, RowAppended
<1>8. OrderMore(orders, orders', Len(orders) + 1, x)
  BY <1>6, <1>7 DEF OrderMore
<1>9. \/ x = None /\ requests' = requests
      \/ x # None /\ requests' = [requests EXCEPT ![x] = "CONVERTED"]
  BY <1>1, <1>2 DEF Order!Converted
<1>10. requests' \in Seq(RequestStatuses) /\ DOMAIN requests' = DOMAIN requests
  BY <1>3, <1>4, <1>9 DEF RequestStatuses
<1>11. OneOrderEach(orders')
  <2>1. x # None => \A o \in DOMAIN orders : orders[o].request # x
    BY <1>1, <1>2 DEF Order!Unordered
  <2>2. OneOrderEach(orders)
    BY DEF OrderInv
  <2> QED
    BY <1>8, <2>1, <2>2 DEF OneOrderEach, OrderMore
<1>12. OrderJob("idle", None, requests', orders')
  BY DEF OrderJob
<1>13. OrderInv(s)'
  BY <1>1, <1>7, <1>10, <1>11, <1>12, OrderTables
<1> QED
  BY <1>1, <1>2, <1>8, <1>9, <1>13 DEF StatusWas

LEMMA StatusUpdated ==
  ASSUME NEW s, NEW w \in s.workers, NEW k, NEW c,
         OrderInv(s), k \in DOMAIN orders, c \in OrderStatuses,
         orders' = StatusSet(orders, k, c), requests' = requests, Order(s)!Done(w)
  PROVE  OrderInv(s)' /\ OrderNow(orders, orders', k, c)
<1>1. orders \in Seq(OrderRow) /\ OneOrderEach(orders)
  BY DEF OrderInv
<1>2. orders' \in Seq(OrderRow) /\ OrderNow(orders, orders', k, c)
  BY <1>1, OrderStatusSet DEF OrderNow
<1>3. OneOrderEach(orders')
  BY <1>1, <1>2 DEF OneOrderEach, OrderNow
<1>4. OrderJob("idle", None, requests', orders') /\ Order(s)!Turn(w, "idle", None)
  BY DEF OrderJob, Order!Done
<1>5. OrderInv(s)'
  BY <1>2, <1>3, <1>4, OrderTables DEF OrderInv, OrderNow
<1> QED
  BY <1>2, <1>5

LEMMA OrderUpdated ==
  ASSUME NEW s, NEW w \in s.workers, OrderInv(s), Order(s)!StatusCommit(w)
  PROVE  /\ OrderInv(s)' /\ UNCHANGED <<requests, bills>> /\ Order(s)!Done(w)
         /\ pc[w] = "updating" /\ OrderNow(orders, orders', job[w].order, job[w].status)
<1>1. /\ orders' = StatusSet(orders, job[w].order, job[w].status) /\ Order(s)!Done(w)
      /\ UNCHANGED <<requests, bills>> /\ pc[w] = "updating"
  BY DEF Order!StatusCommit, Order!At, StatusSet
<1>2. job[w].order \in DOMAIN orders /\ job[w].status \in OrderStatuses
  BY <1>1 DEF OrderInv, OrderJob
<1> QED
  BY <1>1, <1>2, StatusUpdated

LEMMA OrderBilled ==
  ASSUME NEW s, NEW w \in s.workers, OrderInv(s), Order(s)!BillCommit(w)
  PROVE  /\ OrderInv(s)' /\ UNCHANGED requests /\ Order(s)!Done(w) /\ pc[w] = "billing"
         /\ job[w].number \notin DOMAIN bills
         /\ DOMAIN bills' = DOMAIN bills \union {job[w].number}
         /\ bills'[job[w].number] = job[w].order
         /\ \A n \in DOMAIN bills : bills'[n] = bills[n]
         /\ \/ job[w].order = None /\ orders' = orders
            \/ job[w].order # None /\ OrderNow(orders, orders', job[w].order, "BILLED")
<1>1. /\ orders' = IF job[w].order = None THEN orders ELSE StatusSet(orders, job[w].order, "BILLED")
      /\ UNCHANGED requests /\ pc[w] = "billing" /\ Order(s)!Done(w)
      /\ job[w].number \notin DOMAIN bills
      /\ bills' = Order(s)!Entered(bills, job[w].number, job[w].order)
  BY DEF Order!BillCommit, Order!FreeNumber, Order!At, StatusSet
<1>2. job[w].order \in DOMAIN orders \union {None} /\ "BILLED" \in OrderStatuses
  BY <1>1 DEF OrderInv, OrderJob, OrderStatuses
<1>3. /\ DOMAIN bills' = DOMAIN bills \union {job[w].number}
      /\ bills'[job[w].number] = job[w].order
      /\ \A n \in DOMAIN bills : bills'[n] = bills[n]
  BY <1>1 DEF Order!Entered
<1>4. CASE job[w].order = None
  <2>1. orders' = orders /\ Order(s)!Turn(w, "idle", None) /\ OrderJob("idle", None, requests', orders')
    BY <1>1, <1>4 DEF Order!Done, OrderJob
  <2>2. OrderInv(s)'
    BY <1>1, <2>1, OrderTables DEF OrderInv
  <2> QED
    BY <1>1, <1>3, <1>4, <2>1, <2>2
<1>5. CASE job[w].order # None
  <2>1. OrderInv(s)' /\ OrderNow(orders, orders', job[w].order, "BILLED")
    BY <1>1, <1>2, <1>5, StatusUpdated
  <2> QED
    BY <1>1, <1>3, <1>5, <2>1
<1> QED
  BY <1>4, <1>5

LEMMA OrderStep ==
  ASSUME NEW s, OrderInv(s), Order(s)!Next
  PROVE  OrderInv(s)'
<1>1. CASE Order(s)!CreateRequest
  BY <1>1, RequestCreated
<1>2. ASSUME NEW w \in s.workers,
             Order(s)!Requesting(w) \/ Order(s)!Ordering(w) \/ Order(s)!Billing(w) \/ Order(s)!Abort(w)
      PROVE  OrderInv(s)'
  BY <1>2, OrderReads, RequestDecided, OrderMade, OrderUpdated, OrderBilled
     DEF Order!Requesting, Order!Ordering, Order!Billing
<1> QED
  BY <1>1, <1>2 DEF Order!Next

LEMMA OrderStart ==
  ASSUME NEW s, Order(s)!Init
  PROVE  OrderInv(s) /\ DOMAIN bills = {} /\ \A w \in s.workers : pc[w] = "idle"
<1>1. /\ requests = << >> /\ orders = << >> /\ bills = << >>
      /\ pc = [w \in s.workers |-> "idle"] /\ job = [w \in s.workers |-> None]
  BY DEF Order!Init, Order!NoRequests
<1>2. /\ requests \in Seq(RequestStatuses) /\ orders \in Seq(OrderRow)
      /\ DOMAIN orders = {} /\ DOMAIN bills = {}
  BY <1>1
<1>3. \A w \in s.workers : OrderJob(pc[w], job[w], requests, orders)
  BY <1>1 DEF OrderJob
<1> QED
  BY <1>1, <1>2, <1>3 DEF OrderInv, OneOrderEach

LEMMA OrderMeans ==
  ASSUME NEW s, OrderInv(s)
  PROVE  Order(s)!OneOrderPerRequest
BY DEF OrderInv, OneOrderEach, Order!OneOrderPerRequest

--------------------------------------------------------------------------------
(* Purchasing, one request at a time.                                      *)

Chain(rs, os, bs) ==
  /\ \A r \in DOMAIN rs : rs[r] = "CONVERTED" <=> \E o \in DOMAIN os : os[o].request = r
  /\ \A o \in DOMAIN os :
       /\ os[o].request \in DOMAIN rs \union {None}
       /\ os[o].status = "BILLED" <=> \E n \in DOMAIN bs : bs[n] = o
  /\ \A n \in DOMAIN bs : bs[n] \in DOMAIN os \union {None}
  /\ \A n, m \in DOMAIN bs : bs[n] = bs[m] /\ bs[n] # None => n = m

(* What was read is still so. *)
ChainJob(l, x, rs, os) ==
  /\ l = "deciding" => rs[x.request] # "CONVERTED"
  /\ l = "ordering" /\ x.request # None => rs[x.request] = "APPROVED"
  /\ l = "updating" => os[x.order].status # "BILLED"
  /\ l = "billing" /\ x.order # None => os[x.order].status \in Billables

ChainInv(s) ==
  /\ OrderInv(s) /\ Chain(requests, orders, bills)
  /\ \A w \in s.workers : ChainJob(pc[w], job[w], requests, orders)

OneByOne(s) == \A v, w \in s.workers : v = w

LEMMA ChainTurn ==
  ASSUME NEW s, NEW w \in s.workers, NEW l, NEW x, OneByOne(s), OrderInv(s), OrderInv(s)',
         Order(s)!Turn(w, l, x), ChainJob(l, x, requests', orders'), Chain(requests', orders', bills')
  PROVE  ChainInv(s)'
<1>1. ASSUME NEW v \in s.workers PROVE ChainJob(pc'[v], job'[v], requests', orders')
  BY OrderTurn DEF OneByOne
<1> QED
  BY <1>1 DEF ChainInv

LEMMA ChainReads ==
  ASSUME NEW s, NEW w \in s.workers, OneByOne(s), ChainInv(s),
         \/ \E r \in DOMAIN requests, c \in DOMAIN Order(s)!RequestAllows : Order(s)!RequestRead(w, r, c)
         \/ \E r \in DOMAIN requests \union {None} : Order(s)!OrderRead(w, r)
         \/ \E o \in DOMAIN orders, c \in DOMAIN Order(s)!OrderAllows : Order(s)!StatusRead(w, o, c)
         \/ \E o \in DOMAIN orders : Order(s)!ToBillRead(w, o)
         \/ \E o \in DOMAIN orders \union {None}, n \in 1 .. s.bills : Order(s)!BillRead(w, o, n)
         \/ Order(s)!ToBillCheck(w) \/ Order(s)!Abort(w)
  PROVE  ChainInv(s)'
<1>0. OrderInv(s)' /\ UNCHANGED <<requests, orders, bills>> /\ OrderInv(s)
  BY OrderReads DEF ChainInv
<1>1. ASSUME NEW l, NEW x, Order(s)!Turn(w, l, x), ChainJob(l, x, requests, orders)
      PROVE  ChainInv(s)'
  BY <1>0, <1>1, ChainTurn DEF ChainInv
<1>2. CASE \E r \in DOMAIN requests, c \in DOMAIN Order(s)!RequestAllows : Order(s)!RequestRead(w, r, c)
  <2>1. PICK r \in DOMAIN requests, c \in DOMAIN Order(s)!RequestAllows : Order(s)!RequestRead(w, r, c)
    BY <1>2
  <2>2. requests[r] \in RequestStatuses
    BY <1>0, <2>1 DEF OrderInv
  <2>3. PICK x : x = [request |-> r, status |-> c]
    OBVIOUS
  <2>4. x.request = r
    BY <2>3
  <2>5. requests[r] # "CONVERTED"
    BY <2>1, <2>2, OrderDecisions DEF Order!RequestRead
  <2>6. ChainJob("deciding", x, requests, orders)
    BY <2>4, <2>5 DEF ChainJob
  <2> QED
    BY <1>1, <2>1, <2>3, <2>6 DEF Order!RequestRead
<1>3. CASE \E r \in DOMAIN requests \union {None} : Order(s)!OrderRead(w, r)
  <2>1. PICK r \in DOMAIN requests \union {None} : Order(s)!OrderRead(w, r)
    BY <1>3
  <2>2. PICK x : x = [request |-> r]
    OBVIOUS
  <2>3. x.request = r /\ (r # None => requests[r] = "APPROVED")
    BY <2>1, <2>2 DEF Order!OrderRead
  <2>4. ChainJob("ordering", x, requests, orders)
    BY <2>3 DEF ChainJob
  <2> QED
    BY <1>1, <2>1, <2>2, <2>4 DEF Order!OrderRead
<1>4. CASE \E o \in DOMAIN orders, c \in DOMAIN Order(s)!OrderAllows : Order(s)!StatusRead(w, o, c)
  <2>1. PICK o \in DOMAIN orders, c \in DOMAIN Order(s)!OrderAllows : Order(s)!StatusRead(w, o, c)
    BY <1>4
  <2>2. orders[o].status \in OrderStatuses
    BY <1>0, <2>1, OrderRows DEF OrderInv
  <2>3. PICK x : x = [order |-> o, status |-> c]
    OBVIOUS
  <2>4. x.order = o
    BY <2>3
  <2>5. orders[o].status # "BILLED"
    BY <2>1, <2>2, OrderDecisions DEF Order!StatusRead
  <2>6. ChainJob("updating", x, requests, orders)
    BY <2>4, <2>5 DEF ChainJob
  <2> QED
    BY <1>1, <2>1, <2>3, <2>6 DEF Order!StatusRead
<1>5. CASE \E o \in DOMAIN orders : Order(s)!ToBillRead(w, o)
  <2>1. PICK o \in DOMAIN orders : Order(s)!ToBillRead(w, o)
    BY <1>5
  <2>2. PICK x : x = [order |-> o, number |-> Order(s)!NextBillNumber]
    OBVIOUS
  <2>3. ChainJob("converting", x, requests, orders)
    BY DEF ChainJob
  <2> QED
    BY <1>1, <2>1, <2>2, <2>3 DEF Order!ToBillRead
<1>6. CASE \E o \in DOMAIN orders \union {None}, n \in 1 .. s.bills : Order(s)!BillRead(w, o, n)
  <2>1. PICK o \in DOMAIN orders \union {None}, n \in 1 .. s.bills : Order(s)!BillRead(w, o, n)
    BY <1>6
  <2>2. PICK x : x = [order |-> o, number |-> n]
    OBVIOUS
  <2>3. x.order = o /\ (o # None => orders[o].status \in Billables)
    BY <2>1, <2>2 DEF Order!BillRead, Order!Billable, Billables
  <2>4. ChainJob("billing", x, requests, orders)
    BY <2>3 DEF ChainJob
  <2> QED
    BY <1>1, <2>1, <2>2, <2>4 DEF Order!BillRead
<1>7. CASE Order(s)!ToBillCheck(w)
  <2>1. ChainJob("billing", job[w], requests, orders)
    BY <1>7 DEF Order!ToBillCheck, Order!Billable, Billables, ChainJob
  <2> QED
    BY <1>1, <1>7, <2>1 DEF Order!ToBillCheck
<1>8. CASE Order(s)!Abort(w)
  <2>1. ChainJob("idle", None, requests, orders)
    BY DEF ChainJob
  <2> QED
    BY <1>1, <1>8, <2>1 DEF Order!Abort, Order!GiveUp, Order!Done
<1> QED
  BY <1>2, <1>3, <1>4, <1>5, <1>6, <1>7, <1>8

LEMMA ChainCommits ==
  ASSUME NEW s, NEW w \in s.workers, OneByOne(s), ChainInv(s), None \notin Nat,
         \/ Order(s)!RequestCommit(w) \/ Order(s)!OrderCommit(w)
         \/ Order(s)!StatusCommit(w) \/ Order(s)!BillCommit(w)
  PROVE  ChainInv(s)'
<1>0. OrderInv(s) /\ Chain(requests, orders, bills) /\ ChainJob(pc[w], job[w], requests, orders)
  BY DEF ChainInv
<1>1. ASSUME OrderInv(s)', Order(s)!Done(w), Chain(requests', orders', bills') PROVE ChainInv(s)'
  <2>1. Order(s)!Turn(w, "idle", None) /\ ChainJob("idle", None, requests', orders')
    BY <1>1 DEF Order!Done, ChainJob
  <2> QED
    BY <1>0, <1>1, <2>1, ChainTurn
<1>2. DOMAIN requests \subseteq Nat /\ DOMAIN orders \subseteq Nat
  BY <1>0 DEF OrderInv
<1>3. CASE Order(s)!RequestCommit(w)
  <2>1. /\ OrderInv(s)' /\ UNCHANGED <<orders, bills>> /\ Order(s)!Done(w) /\ pc[w] = "deciding"
        /\ StatusWas(requests, requests', job[w].request, job[w].status)
    BY <1>0, <1>3, RequestDecided
  <2>2. requests[job[w].request] # "CONVERTED" /\ job[w].status # "CONVERTED"
    BY <1>0, <2>1 DEF ChainJob, OrderInv, OrderJob
  <2>3. Chain(requests', orders', bills')
    BY <1>0, <2>1, <2>2 DEF Chain, StatusWas
  <2> QED
    BY <1>1, <2>1, <2>3
<1>4. CASE Order(s)!OrderCommit(w)
  <2>1. /\ OrderInv(s)' /\ UNCHANGED bills /\ Order(s)!Done(w) /\ pc[w] = "ordering"
        /\ \/ job[w].request = None /\ requests' = requests
           \/ job[w].request # None /\ StatusWas(requests, requests', job[w].request, "CONVERTED")
    BY <1>0, <1>4, OrderMade
  <2>2. PICK n : OrderMore(orders, orders', n, job[w].request)
    BY <1>0, <1>4, OrderMade
  <2>3. PICK x : x = job[w].request
    OBVIOUS
  <2>4. x \in DOMAIN requests \union {None}
    BY <1>0, <2>1, <2>3 DEF OrderInv, OrderJob
  <2>5. /\ n \in Nat /\ n \notin DOMAIN orders /\ DOMAIN orders' = DOMAIN orders \union {n}
        /\ orders'[n].request = x /\ orders'[n].status = "DRAFT"
        /\ \A o \in DOMAIN orders : orders'[o] = orders[o]
    BY <2>2, <2>3 DEF OrderMore
  <2>6. DOMAIN requests' = DOMAIN requests
    BY <2>1 DEF StatusWas
  <2>7. ASSUME NEW r \in DOMAIN requests'
        PROVE  requests'[r] = "CONVERTED" <=> \E o \in DOMAIN orders' : orders'[o].request = r
    <3>1. requests[r] = "CONVERTED" <=> \E o \in DOMAIN orders : orders[o].request = r
      BY <1>0, <2>6 DEF Chain
    <3>2. r # None
      BY <1>2, <2>6
    <3>3. requests'[r] = IF r = x THEN "CONVERTED" ELSE requests[r]
      BY <2>1, <2>3, <2>6, <3>2 DEF StatusWas
    <3>4. (\E o \in DOMAIN orders' : orders'[o].request = r)
            <=> (r = x \/ \E o \in DOMAIN orders : orders[o].request = r)
      BY <2>5
    <3> QED
      BY <3>1, <3>3, <3>4
  <2>8. ASSUME NEW o \in DOMAIN orders'
        PROVE  /\ orders'[o].request \in DOMAIN requests' \union {None}
               /\ orders'[o].status = "BILLED" <=> \E m \in DOMAIN bills : bills[m] = o
    <3>1. CASE o = n
      <4>1. \A m \in DOMAIN bills : bills[m] # n
        BY <1>0, <2>5 DEF Chain
      <4> QED
        BY <2>4, <2>5, <2>6, <3>1, <4>1
    <3>2. CASE o \in DOMAIN orders
      BY <1>0, <2>5, <2>6, <3>2 DEF Chain
    <3> QED
      BY <2>5, <3>1, <3>2
  <2>9. Chain(requests', orders', bills')
    <3>1. bills' = bills /\ \A m \in DOMAIN bills : bills[m] \in DOMAIN orders' \union {None}
      BY <1>0, <2>1, <2>5 DEF Chain
    <3> QED
      BY <1>0, <2>7, <2>8, <3>1 DEF Chain
  <2> QED
    BY <1>1, <2>1, <2>9
<1>5. CASE Order(s)!StatusCommit(w)
  <2>1. /\ OrderInv(s)' /\ UNCHANGED <<requests, bills>> /\ Order(s)!Done(w) /\ pc[w] = "updating"
        /\ OrderNow(orders, orders', job[w].order, job[w].status)
    BY <1>0, <1>5, OrderUpdated
  <2>2. orders[job[w].order].status # "BILLED" /\ job[w].status # "BILLED"
    BY <1>0, <2>1 DEF ChainJob, OrderInv, OrderJob
  <2>3. Chain(requests', orders', bills')
    BY <1>0, <2>1, <2>2 DEF Chain, OrderNow
  <2> QED
    BY <1>1, <2>1, <2>3
<1>6. CASE Order(s)!BillCommit(w)
  <2>1. PICK n, x : n = job[w].number /\ x = job[w].order
    OBVIOUS
  <2>2. /\ OrderInv(s)' /\ UNCHANGED requests /\ Order(s)!Done(w) /\ pc[w] = "billing"
        /\ n \notin DOMAIN bills /\ DOMAIN bills' = DOMAIN bills \union {n} /\ bills'[n] = x
        /\ \A m \in DOMAIN bills : bills'[m] = bills[m]
        /\ \/ x = None /\ orders' = orders
           \/ x # None /\ OrderNow(orders, orders', x, "BILLED")
    BY <1>0, <1>6, <2>1, OrderBilled
  <2>3. x \in DOMAIN orders \union {None}
    BY <1>0, <2>1, <2>2 DEF OrderInv, OrderJob
  <2>4. x # None => \A m \in DOMAIN bills : bills[m] # x
    <3>1. x # None => orders[x].status \in Billables
      BY <1>0, <2>1, <2>2 DEF ChainJob
    <3> QED
      BY <1>0, <2>3, <3>1 DEF Chain, Billables
  <2>5. /\ DOMAIN orders' = DOMAIN orders
        /\ \A o \in DOMAIN orders :
             /\ orders'[o].request = orders[o].request
             /\ orders'[o].status = IF o = x THEN "BILLED" ELSE orders[o].status
    BY <1>2, <2>2 DEF OrderNow
  <2>6. \A r \in DOMAIN requests' :
          requests'[r] = "CONVERTED" <=> \E o \in DOMAIN orders' : orders'[o].request = r
    BY <1>0, <2>2, <2>5 DEF Chain
  <2>7. ASSUME NEW o \in DOMAIN orders'
        PROVE  /\ orders'[o].request \in DOMAIN requests' \union {None}
               /\ orders'[o].status = "BILLED" <=> \E m \in DOMAIN bills' : bills'[m] = o
    <3>1. (\E m \in DOMAIN bills' : bills'[m] = o) <=> (o = x \/ \E m \in DOMAIN bills : bills[m] = o)
      BY <2>2
    <3> QED
      BY <1>0, <2>2, <2>5, <3>1 DEF Chain
  <2>8. /\ \A m \in DOMAIN bills' : bills'[m] \in DOMAIN orders' \union {None}
        /\ \A k, m \in DOMAIN bills' : bills'[k] = bills'[m] /\ bills'[k] # None => k = m
    BY <1>0, <2>2, <2>3, <2>4, <2>5 DEF Chain
  <2>9. Chain(requests', orders', bills')
    BY <2>6, <2>7, <2>8 DEF Chain
  <2> QED
    BY <1>1, <2>2, <2>9
<1> QED
  BY <1>3, <1>4, <1>5, <1>6

LEMMA ChainStep ==
  ASSUME NEW s, OneByOne(s), ChainInv(s), None \notin Nat, Order(s)!Next
  PROVE  ChainInv(s)'
<1>0. OrderInv(s) /\ Chain(requests, orders, bills)
  BY DEF ChainInv
<1>1. CASE Order(s)!CreateRequest
  <2>1. OrderInv(s)' /\ UNCHANGED <<orders, bills, pc, job>>
    BY <1>0, <1>1, RequestCreated
  <2>2. PICK n \in Nat \ DOMAIN requests :
          /\ DOMAIN requests' = DOMAIN requests \union {n} /\ requests'[n] = "PENDING"
          /\ \A r \in DOMAIN requests : requests'[r] = requests[r]
    BY <1>0, <1>1, RequestCreated
  <2>3. \A o \in DOMAIN orders : orders[o].request # n
    BY <1>0, <2>2 DEF Chain
  <2>4. Chain(requests', orders', bills')
    BY <1>0, <2>1, <2>2, <2>3 DEF Chain
  <2>5. ASSUME NEW w \in s.workers PROVE ChainJob(pc[w], job[w], requests', orders')
    <3>1. OrderJob(pc[w], job[w], requests, orders) /\ ChainJob(pc[w], job[w], requests, orders)
      BY DEF ChainInv, OrderInv
    <3>2. pc[w] = "ordering" /\ job[w].request # None => job[w].request \in DOMAIN requests
      BY <3>1 DEF OrderJob
    <3>3. pc[w] = "deciding" => job[w].request \in DOMAIN requests
      BY <3>1 DEF OrderJob
    <3> QED
      BY <2>1, <2>2, <3>1, <3>2, <3>3 DEF ChainJob
  <2> QED
    BY <2>1, <2>4, <2>5 DEF ChainInv
<1>2. ASSUME NEW w \in s.workers,
             Order(s)!Requesting(w) \/ Order(s)!Ordering(w) \/ Order(s)!Billing(w) \/ Order(s)!Abort(w)
      PROVE  ChainInv(s)'
  BY <1>2, ChainReads, ChainCommits DEF Order!Requesting, Order!Ordering, Order!Billing
<1> QED
  BY <1>1, <1>2 DEF Order!Next

LEMMA ChainStart ==
  ASSUME NEW s, Order(s)!Init
  PROVE  ChainInv(s)
<1>1. requests = << >> /\ orders = << >> /\ bills = << >>
  BY DEF Order!Init
<1>2. DOMAIN requests = {} /\ DOMAIN orders = {} /\ DOMAIN bills = {}
  BY <1>1
<1> QED
  BY <1>2, OrderStart DEF ChainInv, Chain, ChainJob

LEMMA ChainMeans ==
  ASSUME NEW s, ChainInv(s), None \notin Nat
  PROVE  Order(s)!ChainAgrees
<1>1. Chain(requests, orders, bills) /\ DOMAIN orders \subseteq Nat
  BY DEF ChainInv, OrderInv
<1>2. ASSUME NEW o \in DOMAIN orders
      PROVE  /\ orders[o].status = "BILLED" <=> Order(s)!BillsOf(o) # {}
             /\ Cardinality(Order(s)!BillsOf(o)) <= 1
  <2>1. Order(s)!BillsOf(o) = {n \in DOMAIN bills : bills[n] = o}
    BY DEF Order!BillsOf
  <2>2. o # None
    BY <1>1
  <2>3. orders[o].status = "BILLED" <=> Order(s)!BillsOf(o) # {}
    BY <1>1, <2>1 DEF Chain
  <2>4. Order(s)!BillsOf(o) = {} \/ \E n : Order(s)!BillsOf(o) = {n}
    BY <1>1, <2>1, <2>2 DEF Chain
  <2>5. Cardinality(Order(s)!BillsOf(o)) <= 1
    <3>1. Cardinality({}) = 0 /\ \A n : Cardinality({n}) = 1
      BY FS_EmptySet, FS_Singleton
    <3>2. Cardinality(Order(s)!BillsOf(o)) \in {0, 1}
      BY Zenon, <2>4, <3>1
    <3> QED
      BY <3>2
  <2> QED
    BY <2>3, <2>5
<1>3. Order(s)!ChainAgrees <=>
        /\ \A r \in DOMAIN requests :
             requests[r] = "CONVERTED" <=> \E o \in DOMAIN orders : orders[o].request = r
        /\ \A o \in DOMAIN orders :
             /\ orders[o].status = "BILLED" <=> Order(s)!BillsOf(o) # {}
             /\ Cardinality(Order(s)!BillsOf(o)) <= 1
  BY Zenon DEF Order!ChainAgrees, Order!Cardinality, Cardinality
<1> QED
  BY <1>1, <1>2, <1>3 DEF Chain

(* For any number of requests, orders and bills there may be, in every     *)
(* interleaving: a purchase request becomes one order at most (createOrder,*)
(* the unique requestId).                                                  *)
THEOREM OneOrderInAnyScene ==
  ASSUME NEW s
  PROVE  Order(s)!Spec => []Order(s)!OneOrderPerRequest
<1> DEFINE Inv == OrderInv(s)
           Aim == Order(s)!OneOrderPerRequest
<1>1. Order(s)!Init => Inv
  BY OrderStart
<1>2. Inv /\ [Order(s)!Next]_(Order(s)!vars) => Inv'
  <2>1. ASSUME Inv, Order(s)!Next PROVE Inv'
    BY <2>1, OrderStep
  <2>2. ASSUME Inv, UNCHANGED Order(s)!vars PROVE Inv'
    BY <2>2 DEF Order!vars, Order!rowVars, Order!requestVars, OrderInv
  <2> QED
    BY <2>1, <2>2
<1>3. Inv => Aim
  BY OrderMeans
<1> HIDE DEF Inv, Aim
<1>4. Order(s)!Spec => []Aim
  BY <1>1, <1>2, <1>3, PTL DEF Order!Spec
<1> QED
  BY <1>4 DEF Aim

(* One request at a time, for any number of them: request, order and bill  *)
(* agree about what came of what (createOrder, convertOrder, createBill).  *)
THEOREM ChainOneAtATime ==
  ASSUME NEW s, OneByOne(s), Order(s)!PurchasingAssumption
  PROVE  Order(s)!Spec => []Order(s)!ChainAgrees
<1> DEFINE Inv == ChainInv(s)
           Aim == Order(s)!ChainAgrees
<1>0. None \notin Nat
  BY DEF Order!PurchasingAssumption
<1>1. Order(s)!Init => Inv
  BY ChainStart
<1>2. Inv /\ [Order(s)!Next]_(Order(s)!vars) => Inv'
  <2>1. ASSUME Inv, Order(s)!Next PROVE Inv'
    BY <1>0, <2>1, ChainStep
  <2>2. ASSUME Inv, UNCHANGED Order(s)!vars PROVE Inv'
    BY <2>2 DEF Order!vars, Order!rowVars, Order!requestVars, OrderInv, ChainInv
  <2> QED
    BY <2>1, <2>2
<1>3. Inv => Aim
  BY <1>0, ChainMeans
<1> HIDE DEF Inv, Aim
<1>4. Order(s)!Spec => []Aim
  BY <1>1, <1>2, <1>3, PTL DEF Order!Spec
<1> QED
  BY <1>4 DEF Aim

--------------------------------------------------------------------------------
(* Books: what a journal moves, account by account, comes to nothing, and  *)
(* therefore what any of them move together.                               *)

Levels(j, C) == SumFunction([c \in C |-> Movement(j, c)]) = 0

PartOf(v, T, c)  == SumFunctionOnSet(v, {l \in T : l.account = c})
PartsOf(v, T, C) == [c \in C |-> PartOf(v, T, c)]
Differences(L)   == [l \in L |-> l.debit - l.credit]

Integers(v, R) == \A l \in R : v[l] \in Int
PartAdded(v, R, T, x, c) ==
  /\ PartOf(v, T, c) \in Int
  /\ PartOf(v, R, c) = PartOf(v, T, c) + (IF x.account = c THEN v[x] ELSE 0)
PartsAdded(v, R, T, x, C) == SumFunction(PartsOf(v, R, C)) = SumFunction(PartsOf(v, T, C)) + v[x]

LEMMA PartGrows ==
  ASSUME NEW v, NEW T, NEW R, NEW x, NEW c, IsFiniteSet(T), OneMore(R, T, x), Integers(v, R)
  PROVE  PartAdded(v, R, T, x, c)
<1> USE DEF OneMore, Integers, PartAdded
<1> DEFINE S == {l \in T : l.account = c}
           U == {l \in R : l.account = c}
<1>1. IsFiniteSet(S) /\ \A l \in S : v[l] \in Int
  BY FS_Subset
<1>2. SumFunctionOnSet(v, S) \in Int
  BY <1>1, SumType
<1>a. PartOf(v, T, c) = SumFunctionOnSet(v, S) /\ PartOf(v, R, c) = SumFunctionOnSet(v, U)
  BY DEF PartOf
<1>b. v[x] \in Int
  OBVIOUS
<1>3. CASE x.account = c
  <2>1. U = S \union {x} /\ x \notin S /\ \A l \in S \union {x} : v[l] \in Int
    BY <1>3
  <2> HIDE DEF S, U
  <2>2. SumFunctionOnSet(v, S \union {x}) = v[x] + SumFunctionOnSet(v, S)
    BY <1>1, <2>1, SumAdd
  <2> QED
    BY <1>2, <1>3, <1>a, <1>b, <2>1, <2>2
<1>4. CASE x.account # c
  <2>1. U = S
    BY <1>4
  <2> HIDE DEF S, U
  <2> QED
    BY <1>2, <1>4, <1>a, <2>1
<1> QED
  BY <1>3, <1>4

LEMMA PartsGrow ==
  ASSUME NEW v, NEW T, NEW R, NEW x, NEW C, IsFiniteSet(T), OneMore(R, T, x),
         Integers(v, R), IsFiniteSet(C), NEW a \in C, a = x.account
  PROVE  PartsAdded(v, R, T, x, C)
<1> DEFINE f == PartsOf(v, T, C)
           e == PartsOf(v, R, C)
<1>1. a = x.account
  OBVIOUS
<1>2. \A c : /\ PartOf(v, T, c) \in Int
             /\ PartOf(v, R, c) = PartOf(v, T, c) + (IF x.account = c THEN v[x] ELSE 0)
  <2>1. \A c : PartAdded(v, R, T, x, c)
    BY PartGrows
  <2> QED
    BY <2>1 DEF PartAdded
<1>3. /\ DOMAIN f = C /\ DOMAIN e = C
      /\ \A c \in C : f[c] = PartOf(v, T, c) /\ e[c] = PartOf(v, R, c)
  BY DEF PartsOf
<1>4. v[x] \in Int
  BY DEF OneMore, Integers
<1> HIDE DEF f, e
<1>5. \A c \in C : f[c] \in Int /\ e[c] = f[c] + (IF a = c THEN v[x] ELSE 0)
  BY ONLY <1>1, <1>2, <1>3
<1>6. /\ \A c \in C : e[c] \in Int /\ f[c] \in Int
      /\ \A c \in C \ {a} : e[c] = f[c]
      /\ a \in C /\ e[a] = f[a] + v[x]
  BY <1>1, <1>4, <1>5
<1>7. SumFunctionOnSet(e, C) = SumFunctionOnSet(f, C) - f[a] + e[a]
  BY <1>6, SumChange
<1>8. SumFunctionOnSet(f, C) \in Int
  BY <1>6, SumType
<1>9. SumFunction(e) = SumFunctionOnSet(e, C) /\ SumFunction(f) = SumFunctionOnSet(f, C)
  BY <1>3 DEF SumFunction
<1> QED
  BY <1>4, <1>6, <1>7, <1>8, <1>9 DEF e, f, PartsAdded

SumsLikeParts(v, T, C) == SumFunction(PartsOf(v, T, C)) = SumFunctionOnSet(v, T)

LEMMA PartsSum ==
  ASSUME NEW v, NEW L, NEW C, IsFiniteSet(L), IsFiniteSet(C),
         \A l \in L : v[l] \in Int /\ l.account \in C
  PROVE  SumFunction(PartsOf(v, L, C)) = SumFunctionOnSet(v, L)
<1> DEFINE P == {T \in SUBSET L : SumsLikeParts(v, T, C)}
<1>1. SumsLikeParts(v, {}, C)
  <2> DEFINE f == PartsOf(v, {}, C)
  <2>1. DOMAIN f = C /\ \A c \in C : f[c] = PartOf(v, {}, c)
    BY DEF PartsOf
  <2>2. \A c \in C : PartOf(v, {}, c) = 0
    <3>1. \A c : {l \in {} : l.account = c} = {}
      OBVIOUS
    <3> QED
      BY <3>1, SumEmpty DEF PartOf
  <2> HIDE DEF f
  <2>3. SumFunctionOnSet(f, C) = 0
    BY <2>1, <2>2, SumZero
  <2>4. SumFunction(f) = 0 /\ SumFunctionOnSet(v, {}) = 0
    BY <2>1, <2>3, SumEmpty DEF SumFunction
  <2> QED
    BY <2>4 DEF f, SumsLikeParts
<1>2. ASSUME NEW T \in SUBSET L, SumsLikeParts(v, T, C), NEW x \in L \ T
      PROVE  SumsLikeParts(v, T \union {x}, C)
  <2>1. PICK R : R = T \union {x}
    OBVIOUS
  <2>2. /\ OneMore(R, T, x) /\ Integers(v, R) /\ IsFiniteSet(T)
        /\ \A y \in T \union {x} : v[y] \in Int
    BY <2>1, FS_Subset DEF OneMore, Integers
  <2>3. SumFunction(PartsOf(v, R, C)) = SumFunction(PartsOf(v, T, C)) + v[x]
    <3>1. PICK a \in C : a = x.account
      OBVIOUS
    <3>2. PartsAdded(v, R, T, x, C)
      BY ONLY <2>2, <3>1, a \in C, IsFiniteSet(C), PartsGrow
    <3> QED
      BY <3>2 DEF PartsAdded
  <2>4. SumFunctionOnSet(v, T \union {x}) = v[x] + SumFunctionOnSet(v, T)
    BY <2>2, SumAdd
  <2>5. SumFunctionOnSet(v, T) \in Int /\ v[x] \in Int
    BY <2>2, SumType
  <2>6. SumFunctionOnSet(v, R) = v[x] + SumFunctionOnSet(v, T)
    BY ONLY <2>1, <2>4
  <2>7. SumsLikeParts(v, R, C)
    BY ONLY <2>3, <2>5, <2>6, SumsLikeParts(v, T, C) DEF SumsLikeParts
  <2> QED
    BY ONLY <2>1, <2>7
<1>3. P \in SUBSET (SUBSET L) /\ {} \in P
  BY <1>1
<1>4. \A T \in P : \A x \in L \ T : T \union {x} \in P
  BY <1>2
<1> HIDE DEF P
<1>5. L \in P
  BY <1>3, <1>4, SetInduct
<1>6. SumsLikeParts(v, L, C)
  BY <1>5 DEF P
<1> QED
  BY <1>6 DEF SumsLikeParts

LEMMA LevelLines ==
  ASSUME NEW j, NEW C, IsFiniteSet(C), LinesOK(j.lines), \A l \in j.lines : l.account \in C,
         TotalDebit(j.lines) = TotalCredit(j.lines)
  PROVE  Levels(j, C)
<1> DEFINE L == j.lines
           v == Differences(L)
           d == [l \in L |-> l.debit]
           k == [l \in L |-> l.credit]
<1>1. IsFiniteSet(L) /\ \A l \in L : l.debit \in Int /\ l.credit \in Int
  BY DEF LinesOK, LineOK
<1>2. \A c \in C : Movement(j, c) = PartOf(v, L, c)
  <2> SUFFICES ASSUME NEW c \in C PROVE Movement(j, c) = PartOf(v, L, c)
    OBVIOUS
  <2> DEFINE S == {l \in j.lines : l.account = c}
             f == [l \in S |-> l.debit - l.credit]
  <2>1. Movement(j, c) = SumFunctionOnSet(f, S)
    BY DEF Movement, SumFunction
  <2>2. IsFiniteSet(S) /\ \A l \in S : f[l] = v[l]
    BY <1>1, FS_Subset DEF Differences
  <2> HIDE DEF S, f, v
  <2>3. SumFunctionOnSet(f, S) = SumFunctionOnSet(v, S)
    BY <2>2, SumSame
  <2> QED
    BY <2>1, <2>3 DEF PartOf, S
<1>3. DOMAIN v = L /\ DOMAIN d = L /\ DOMAIN k = L
  BY DEF Differences
<1>4. \A l \in L : v[l] \in Int /\ k[l] \in Int /\ d[l] = v[l] + k[l]
  BY <1>1 DEF Differences
<1>5. SumFunction(d) = TotalDebit(L) /\ SumFunction(k) = TotalCredit(L)
  BY DEF TotalDebit, TotalCredit
<1> HIDE DEF v, d, k
<1>6. SumFunction(d) = SumFunction(v) + SumFunction(k)
  BY <1>1, <1>3, <1>4, TotalPlus
<1>7. SumFunction(v) \in Int /\ SumFunction(k) \in Int
  BY <1>1, <1>3, <1>4, TotalType
<1>8. SumFunctionOnSet(v, L) = 0
  BY <1>3, <1>5, <1>6, <1>7 DEF SumFunction
<1>9. SumFunction(PartsOf(v, L, C)) = 0
  BY <1>1, <1>4, <1>8, PartsSum
<1>10. PartsOf(v, L, C) = [c \in C |-> Movement(j, c)]
  BY <1>2 DEF PartsOf
<1> QED
  BY <1>9, <1>10 DEF Levels

(* Journals that are level one by one are level together, whichever of     *)
(* them are counted.                                                       *)
BooksLevel(js, C) == BooksFine(js) /\ \A n \in DOMAIN js : Levels(js[n], C)

SumsToNothing(js, N, C) == SumFunction([c \in C |-> BalanceOver(js, N, c)]) = 0

LEMMA NoJournals ==
  ASSUME NEW js, NEW C, IsFiniteSet(C)
  PROVE  SumsToNothing(js, {}, C)
<1> DEFINE f == [c \in C |-> BalanceOver(js, {}, c)]
<1>1. \A c : BalanceOver(js, {}, c) = 0
  <2> TAKE c
  <2> DEFINE g == [n \in {} |-> Movement(js[n], c)]
  <2>1. DOMAIN g = {} /\ BalanceOver(js, {}, c) = SumFunction(g)
    BY DEF BalanceOver
  <2> HIDE DEF g
  <2> QED
    BY <2>1, TotalType, FS_EmptySet
<1>2. DOMAIN f = C /\ \A c \in C : f[c] = 0
  BY <1>1
<1> HIDE DEF f
<1>3. SumFunction(f) = 0
  BY <1>2, SumZero DEF SumFunction
<1> QED
  BY <1>3 DEF SumsToNothing, f

LEMMA JournalMore ==
  ASSUME NEW js, NEW T, NEW R, NEW x, NEW c,
         BooksFine(js), R \subseteq DOMAIN js, OneMore(R, T, x)
  PROVE  /\ BalanceOver(js, T, c) \in Int /\ Movement(js[x], c) \in Int
         /\ BalanceOver(js, R, c) = BalanceOver(js, T, c) + Movement(js[x], c)
<1> DEFINE f == [n \in T |-> Movement(js[n], c)]
           g == [n \in R |-> Movement(js[n], c)]
<1>0. R = T \union {x} /\ x \notin T
  BY DEF OneMore
<1>1. \A n \in R : Movement(js[n], c) \in Int
  BY MoveType DEF BooksFine, JournalOK
<1>2. IsFiniteSet(T)
  BY <1>0, FS_Subset DEF BooksFine
<1>3. DOMAIN f = T /\ DOMAIN g = T \union {x} /\ \A y \in T : g[y] = f[y] /\ f[y] \in Int
  BY <1>0, <1>1
<1>4. g[x] = Movement(js[x], c) /\ g[x] \in Int
  BY <1>0, <1>1
<1>5. BalanceOver(js, T, c) = SumFunction(f) /\ BalanceOver(js, R, c) = SumFunction(g)
  BY DEF BalanceOver
<1> HIDE DEF f, g
<1>6. SumFunction(g) = SumFunction(f) + g[x]
  BY <1>0, <1>2, <1>3, <1>4, TotalAdd
<1>7. SumFunction(f) \in Int
  BY <1>2, <1>3, TotalType
<1> QED
  BY <1>4, <1>5, <1>6, <1>7

LEMMA StillNothing ==
  ASSUME NEW js, NEW T, NEW R, NEW x, NEW C,
         BooksLevel(js, C), R \subseteq DOMAIN js, OneMore(R, T, x), IsFiniteSet(C),
         SumsToNothing(js, T, C)
  PROVE  SumsToNothing(js, R, C)
<1> DEFINE f == [c \in C |-> BalanceOver(js, T, c)]
           m == [c \in C |-> Movement(js[x], c)]
           g == [c \in C |-> BalanceOver(js, R, c)]
<1>1. x \in DOMAIN js
  BY DEF OneMore
<1>2. \A c : /\ BalanceOver(js, T, c) \in Int /\ Movement(js[x], c) \in Int
             /\ BalanceOver(js, R, c) = BalanceOver(js, T, c) + Movement(js[x], c)
  BY JournalMore DEF BooksLevel
<1>3. /\ DOMAIN g = C /\ DOMAIN f = C /\ DOMAIN m = C
      /\ \A c \in C : f[c] \in Int /\ m[c] \in Int /\ g[c] = f[c] + m[c]
  BY <1>2
<1>4. SumFunction(m) = 0 /\ SumFunction(f) = 0
  BY <1>1 DEF BooksLevel, Levels, SumsToNothing
<1> HIDE DEF f, m, g
<1>5. SumFunction(g) = SumFunction(f) + SumFunction(m)
  BY <1>3, TotalPlus
<1>6. SumFunction(g) = 0
  BY <1>4, <1>5
<1> QED
  BY <1>6 DEF SumsToNothing, g

LEMMA LevelTogether ==
  ASSUME NEW js, NEW N, NEW C, BooksLevel(js, C), N \subseteq DOMAIN js, IsFiniteSet(C)
  PROVE  SumsToNothing(js, N, C)
<1> DEFINE P == {T \in SUBSET N : SumsToNothing(js, T, C)}
<1>1. P \in SUBSET (SUBSET N) /\ {} \in P
  BY NoJournals
<1>2. ASSUME NEW T \in SUBSET N, SumsToNothing(js, T, C), NEW x \in N \ T
      PROVE  SumsToNothing(js, T \union {x}, C)
  <2>1. PICK R : R = T \union {x}
    OBVIOUS
  <2>2. OneMore(R, T, x) /\ R \subseteq DOMAIN js
    BY <2>1 DEF OneMore
  <2>3. SumsToNothing(js, R, C)
    BY ONLY <1>2, <2>2, BooksLevel(js, C), IsFiniteSet(C), StillNothing
  <2> QED
    BY ONLY <2>1, <2>3
<1>3. \A T \in P : \A x \in N \ T : T \union {x} \in P
  BY <1>2
<1>4. IsFiniteSet(N)
  BY FS_Subset DEF BooksLevel, BooksFine
<1> HIDE DEF P
<1>5. N \in P
  BY <1>1, <1>3, <1>4, SetInduct
<1> QED
  BY <1>5 DEF P

(* A level journal turned round is level.                                  *)
LEMMA MirrorLevel ==
  ASSUME NEW j, NEW k, NEW C, LinesOK(j.lines), k.lines = Mirrored(j.lines),
         IsFiniteSet(C), Levels(j, C)
  PROVE  LinesOK(k.lines) /\ Levels(k, C)
<1> DEFINE f == [c \in C |-> Movement(j, c)]
           g == [c \in C |-> Movement(k, c)]
<1>1. LinesOK(k.lines) /\ \A c : Movement(k, c) = - Movement(j, c)
  BY MoveMirrored
<1>2. \A c : Movement(j, c) \in Int
  BY MoveType
<1>3. DOMAIN f = C /\ DOMAIN g = C
  OBVIOUS
<1>4. \A c \in C : f[c] \in Int /\ g[c] = (-1) * f[c]
  BY <1>1, <1>2
<1>5. SumFunction(f) = 0
  BY DEF Levels
<1> HIDE DEF f, g
<1>6. SumFunctionOnSet(g, C) = (-1) * SumFunctionOnSet(f, C)
  BY <1>4, SumTimes
<1>7. SumFunction(g) = 0
  BY <1>3, <1>5, <1>6 DEF SumFunction
<1> QED
  BY <1>1, <1>7 DEF Levels, g

(* What a journal moves is in its lines.                                   *)
SameLines(j, k) == k = [lines |-> j.lines, status |-> k.status]

LEMMA LinesMove ==
  ASSUME NEW j, NEW k, SameLines(j, k)
  PROVE  /\ k.lines = j.lines /\ \A a : Movement(k, a) = Movement(j, a)
         /\ JournalOK(j) => JournalOK(k)
         /\ \A C : Levels(j, C) => Levels(k, C)
<1>1. k.lines = j.lines
  BY DEF SameLines
<1>2. \A a : Movement(k, a) = Movement(j, a)
  BY <1>1 DEF Movement
<1>3. \A C : Levels(j, C) => Levels(k, C)
  BY <1>2 DEF Levels
<1>4. JournalOK(j) => JournalOK(k)
  BY <1>1 DEF JournalOK, SameLines
<1> QED
  BY ONLY <1>1, <1>2, <1>3, <1>4

(* A table whose journals are old ones, of whatever status, or level new   *)
(* ones.                                                                   *)
LevelJournal(j, C) == JournalOK(j) /\ Levels(j, C)
Follows(js, k, C) ==
  /\ DOMAIN js \subseteq DOMAIN k /\ IsFiniteSet(DOMAIN k)
  /\ \A n \in DOMAIN k : (n \in DOMAIN js /\ SameLines(js[n], k[n])) \/ LevelJournal(k[n], C)

LEMMA LevelKept ==
  ASSUME NEW js, NEW k, NEW C, BooksLevel(js, C), Follows(js, k, C)
  PROVE  BooksLevel(k, C)
<1>1. ASSUME NEW n \in DOMAIN k PROVE LevelJournal(k[n], C)
  <2>1. CASE n \in DOMAIN js /\ SameLines(js[n], k[n])
    <3>1. JournalOK(js[n]) /\ Levels(js[n], C)
      BY <2>1 DEF BooksLevel, BooksFine
    <3> QED
      BY <2>1, <3>1, LinesMove DEF LevelJournal
  <2> QED
    BY <2>1 DEF Follows
<1> QED
  BY <1>1 DEF BooksLevel, BooksFine, LevelJournal, Follows

(* The status of one journal.                                              *)
Restatus(js, k, n, t) ==
  /\ DOMAIN k = DOMAIN js
  /\ k[n] = [lines |-> js[n].lines, status |-> t]
  /\ \A m \in DOMAIN js : m # n => k[m] = js[m]

LEMMA JournalStatusSet ==
  ASSUME NEW js, BooksFine(js), NEW n \in DOMAIN js, NEW t
  PROVE  Restatus(js, [js EXCEPT ![n].status = t], n, t)
<1> DEFINE k == [js EXCEPT ![n].status = t]
<1>1. k[n] = [js[n] EXCEPT !.status = t]
  OBVIOUS
<1>2. PICK j : j = js[n]
  OBVIOUS
<1>3. j = [lines |-> j.lines, status |-> j.status]
  BY <1>2 DEF BooksFine, JournalOK
<1>4. [j EXCEPT !.status = t] = [lines |-> j.lines, status |-> t]
  BY <1>3
<1>5. k[n] = [lines |-> js[n].lines, status |-> t]
  BY <1>1, <1>2, <1>4
<1>6. DOMAIN k = DOMAIN js /\ \A m \in DOMAIN js : m # n => k[m] = js[m]
  OBVIOUS
<1> QED
  BY <1>5, <1>6 DEF Restatus

LEMMA RestatusFollows ==
  ASSUME NEW js, NEW k, NEW n \in DOMAIN js, NEW t, NEW C, BooksFine(js), Restatus(js, k, n, t)
  PROVE  Follows(js, k, C) /\ \A m \in DOMAIN js : SameLines(js[m], k[m])
<1>1. ASSUME NEW m \in DOMAIN js PROVE SameLines(js[m], k[m])
  <2>1. CASE m = n
    <3>1. k[n] = [lines |-> js[n].lines, status |-> t]
      BY DEF Restatus
    <3>2. k[n].status = t
      BY <3>1
    <3> QED
      BY <2>1, <3>1, <3>2 DEF SameLines
  <2>2. CASE m # n
    <3>1. k[m] = js[m] /\ js[m] = [lines |-> js[m].lines, status |-> js[m].status]
      BY <2>2 DEF Restatus, BooksFine, JournalOK
    <3> QED
      BY <3>1 DEF SameLines
  <2> QED
    BY <2>1, <2>2
<1>2. DOMAIN k = DOMAIN js /\ IsFiniteSet(DOMAIN js)
  BY DEF Restatus, BooksFine
<1> QED
  BY <1>1, <1>2 DEF Follows

(* One journal entered, over another of its number or as a new one.        *)
LEMMA EnteredFollows ==
  ASSUME NEW js, NEW n, NEW j, NEW C, BooksFine(js), LevelJournal(j, C)
  PROVE  Follows(js, Entered(js, n, j), C)
<1> DEFINE k == Entered(js, n, j)
<1>1. DOMAIN k = DOMAIN js \union {n}
  BY DEF Entered
<1>2. k[n] = j /\ \A m \in DOMAIN js : m # n => k[m] = js[m]
  BY DEF Entered
<1> HIDE DEF k
<1>3. IsFiniteSet(DOMAIN js \union {n})
  BY FS_AddElement DEF BooksFine
<1>4. ASSUME NEW m \in DOMAIN k, m # n
      PROVE  m \in DOMAIN js /\ SameLines(js[m], k[m])
  BY <1>1, <1>2, <1>4 DEF SameLines, BooksFine, JournalOK
<1>5. Follows(js, k, C)
  BY <1>1, <1>2, <1>3, <1>4 DEF Follows
<1> QED
  BY <1>5 DEF k

(* What a record posts.  A number of a posting names its record.           *)
LEMMA PairLevel ==
  ASSUME NEW d, NEW c, d # c, NEW v \in Nat, NEW C, d \in C, c \in C, IsFiniteSet(C),
         Postable(Pair(d, c, v))
  PROVE  LevelJournal(PairJournal(d, c, v), C)
<1>1. PICK j : j = PairJournal(d, c, v)
  OBVIOUS
<1>2. j.lines = Normalized(Pair(d, c, v)) /\ j = [lines |-> j.lines, status |-> j.status]
  BY <1>1 DEF PairJournal
<1>3. LinesOK(j.lines)
  BY <1>2, MoveOfPair
<1>4. \A l \in j.lines : l.account \in C
  <2>1. \A l \in Pair(d, c, v) : l.account \in {d, c}
    BY DEF Pair, Line
  <2>2. j.lines \subseteq Pair(d, c, v)
    BY <1>2 DEF Normalized
  <2> QED
    BY <2>1, <2>2
<1>5. TotalDebit(j.lines) = TotalCredit(j.lines)
  BY <1>2 DEF Postable
<1>6. Levels(j, C)
  BY ONLY <1>3, <1>4, <1>5, IsFiniteSet(C), LevelLines
<1> QED
  BY <1>1, <1>2, <1>3, <1>6 DEF LevelJournal, JournalOK

DueAs(kind, d, c) ==
  \/ kind = "ASSET" /\ d = "1200" /\ c = "1000"
  \/ kind = "DISPOSAL" /\ d = "5400" /\ c = "1200"
  \/ kind = "PAYROLL" /\ d = "5200" /\ c = "2000"
  \/ kind = "PAYMENT" /\ d = "2000" /\ c = "1000"

(* The kinds of the journals due for a record of a status.                 *)
KindsDue(r, t) ==
  {k \in {"ASSET", "DISPOSAL", "PAYROLL", "PAYMENT"} :
     \/ k = "ASSET" /\ r[1] = "ASSET" /\ t \in {"ACTIVE", "APPROVED", "PAID"}
     \/ k = "DISPOSAL" /\ r[1] = "ASSET" /\ t = "DISPOSED"
     \/ k = "PAYROLL" /\ r[1] = "PAYROLL" /\ t \in {"APPROVED", "PAID"}
     \/ k = "PAYMENT" /\ r[1] = "PAYROLL" /\ t = "PAID"}

NumbersDue(r, t) == {<<k, r>> : k \in KindsDue(r, t)}

PostedFor(j, k, v) ==
  \E d, c : DueAs(k, d, c) /\ j = PairJournal(d, c, v) /\ Postable(Pair(d, c, v))

(* Of old journals, and of those due and new, consists the next table.     *)
RecordPosted(js, k, r, v, t) ==
  /\ DOMAIN k = DOMAIN js \union NumbersDue(r, t)
  /\ \A n \in DOMAIN js : k[n] = js[n]
  /\ \A e \in KindsDue(r, t) : <<e, r>> \notin DOMAIN js => PostedFor(k[<<e, r>>], e, v)

(* The operators that the instance has of its own.                         *)
LEMMA BookSums ==
  ASSUME NEW s
  PROVE  /\ \A f : Book(s)!SumFunction(f) = SumFunction(f)
         /\ \A S : Book(s)!Cardinality(S) = Cardinality(S)
         /\ \A S : Book(s)!IsFiniteSet(S) <=> IsFiniteSet(S)
<1>1. ASSUME NEW f, NEW S PROVE Book(s)!SumFunctionOnSet(f, S) = SumFunctionOnSet(f, S)
  BY Zenon DEF Book!SumFunctionOnSet, Book!FoldFunctionOnSet, Book!MapThenFoldSet,
               SumFunctionOnSet, FoldFunctionOnSet, MapThenFoldSet
<1>2. \A f : Book(s)!SumFunction(f) = SumFunction(f)
  BY Zenon, <1>1 DEF Book!SumFunction, SumFunction
<1>3. \A S : Book(s)!Cardinality(S) = Cardinality(S)
  BY Zenon DEF Book!Cardinality, Cardinality
<1>4. \A S : Book(s)!IsFiniteSet(S) <=> IsFiniteSet(S)
  BY Zenon DEF Book!IsFiniteSet, IsFiniteSet
<1> QED
  BY <1>2, <1>3, <1>4

LEMMA BookBooks ==
  ASSUME NEW s
  PROVE  /\ \A js, N, a : Book(s)!BalanceOver(js, N, a) = BalanceOver(js, N, a)
         /\ \A j, a : Book(s)!Movement(j, a) = Movement(j, a)
         /\ \A js, n, j : Book(s)!Entered(js, n, j) = Entered(js, n, j)
         /\ \A js, n, l : Book(s)!Accepts(js, n, l) <=> Accepts(js, n, l)
         /\ \A d, c, v : Book(s)!Pair(d, c, v) = Pair(d, c, v)
         /\ \A l : /\ Book(s)!Normalized(l) = Normalized(l) /\ Book(s)!Mirrored(l) = Mirrored(l)
                   /\ Book(s)!TotalDebit(l) = TotalDebit(l)
                   /\ Book(s)!TotalCredit(l) = TotalCredit(l)
<1>1. \A j, a : Book(s)!Movement(j, a) = Movement(j, a)
  BY Zenon, BookSums DEF Book!Movement, Movement
<1>2. \A js, N, a : Book(s)!BalanceOver(js, N, a) = BalanceOver(js, N, a)
  BY Zenon, BookSums, <1>1 DEF Book!BalanceOver, BalanceOver
<1>3. \A js, n, j : Book(s)!Entered(js, n, j) = Entered(js, n, j)
  BY Zenon DEF Book!Entered, Entered
<1>4. \A d, c, v : Book(s)!Pair(d, c, v) = Pair(d, c, v)
  BY Zenon DEF Book!Pair, Book!Line, Pair, Line
<1>5. ASSUME NEW l
      PROVE  /\ Book(s)!Normalized(l) = Normalized(l) /\ Book(s)!Mirrored(l) = Mirrored(l)
             /\ Book(s)!TotalDebit(l) = TotalDebit(l) /\ Book(s)!TotalCredit(l) = TotalCredit(l)
  <2>1. Book(s)!Normalized(l) = Normalized(l)
    BY Zenon DEF Book!Normalized, Normalized
  <2>2. Book(s)!Mirrored(l) = Mirrored(l)
    BY Zenon DEF Book!Mirrored, Mirrored, Book!Line, Line
  <2>3. Book(s)!TotalDebit(l) = TotalDebit(l)
    BY Zenon, BookSums DEF Book!TotalDebit, TotalDebit
  <2>4. Book(s)!TotalCredit(l) = TotalCredit(l)
    BY Zenon, BookSums DEF Book!TotalCredit, TotalCredit
  <2> QED
    BY <2>1, <2>2, <2>3, <2>4
<1>6. \A l : Book(s)!Postable(l) <=> Postable(l)
  BY Zenon, <1>5 DEF Book!Postable, Postable
<1>7. \A js, n, l : Book(s)!Accepts(js, n, l) <=> Accepts(js, n, l)
  BY Zenon, <1>6 DEF Book!Accepts, Accepts
<1> QED
  BY ONLY <1>1, <1>2, <1>3, <1>4, <1>5, <1>7

LEMMA PostingsAre ==
  ASSUME NEW s, NEW r, NEW v, NEW t
  PROVE  /\ \A p \in Book(s)!Postings(r, v, t) :
              \E k \in KindsDue(r, t) : \E d, c :
                p.number = <<k, r>> /\ DueAs(k, d, c) /\ p.lines = Pair(d, c, v)
         /\ \A k \in KindsDue(r, t) : \E p \in Book(s)!Postings(r, v, t) : p.number = <<k, r>>
<1> DEFINE a == [number |-> <<"ASSET", r>>, due |-> r[1] = "ASSET" /\ t \in {"ACTIVE", "APPROVED", "PAID"},
                 lines |-> Pair("1200", "1000", v)]
           b == [number |-> <<"DISPOSAL", r>>, due |-> r[1] = "ASSET" /\ t = "DISPOSED",
                 lines |-> Pair("5400", "1200", v)]
           c == [number |-> <<"PAYROLL", r>>, due |-> r[1] = "PAYROLL" /\ t \in {"APPROVED", "PAID"},
                 lines |-> Pair("5200", "2000", v)]
           d == [number |-> <<"PAYMENT", r>>, due |-> r[1] = "PAYROLL" /\ t = "PAID",
                 lines |-> Pair("2000", "1000", v)]
<1>1. \A x, y : Book(s)!Pair(x, y, v) = Pair(x, y, v)
  BY BookBooks
<1>2. Book(s)!Postings(r, v, t) = {p \in {a, b, c, d} : p.due}
  BY Zenon, <1>1 DEF Book!Postings, Book!Accrues
<1>3. /\ a.number = <<"ASSET", r>> /\ a.lines = Pair("1200", "1000", v)
      /\ b.number = <<"DISPOSAL", r>> /\ b.lines = Pair("5400", "1200", v)
      /\ c.number = <<"PAYROLL", r>> /\ c.lines = Pair("5200", "2000", v)
      /\ d.number = <<"PAYMENT", r>> /\ d.lines = Pair("2000", "1000", v)
  OBVIOUS
<1>4. /\ a.due <=> "ASSET" \in KindsDue(r, t)
      /\ b.due <=> "DISPOSAL" \in KindsDue(r, t)
      /\ c.due <=> "PAYROLL" \in KindsDue(r, t)
      /\ d.due <=> "PAYMENT" \in KindsDue(r, t)
  BY DEF KindsDue
<1>5. KindsDue(r, t) \subseteq {"ASSET", "DISPOSAL", "PAYROLL", "PAYMENT"}
  BY DEF KindsDue
<1>6. /\ DueAs("ASSET", "1200", "1000") /\ DueAs("DISPOSAL", "5400", "1200")
      /\ DueAs("PAYROLL", "5200", "2000") /\ DueAs("PAYMENT", "2000", "1000")
  BY DEF DueAs
<1> HIDE DEF a, b, c, d
<1>7. ASSUME NEW p \in Book(s)!Postings(r, v, t)
      PROVE  \E k \in KindsDue(r, t) : \E x, y :
               p.number = <<k, r>> /\ DueAs(k, x, y) /\ p.lines = Pair(x, y, v)
  <2>1. p \in {a, b, c, d} /\ p.due
    BY <1>2
  <2>2. CASE p = a
    BY <2>1, <2>2, <1>3, <1>4, <1>6
  <2>3. CASE p = b
    BY <2>1, <2>3, <1>3, <1>4, <1>6
  <2>4. CASE p = c
    BY <2>1, <2>4, <1>3, <1>4, <1>6
  <2>5. CASE p = d
    BY <2>1, <2>5, <1>3, <1>4, <1>6
  <2> QED
    BY <2>1, <2>2, <2>3, <2>4, <2>5
<1>8. ASSUME NEW k \in KindsDue(r, t)
      PROVE  \E p \in Book(s)!Postings(r, v, t) : p.number = <<k, r>>
  <2>1. CASE k = "ASSET"
    <3>1. a \in Book(s)!Postings(r, v, t) /\ a.number = <<k, r>>
      BY <2>1, <1>2, <1>3, <1>4
    <3> QED
      BY ONLY <3>1
  <2>2. CASE k = "DISPOSAL"
    <3>1. b \in Book(s)!Postings(r, v, t) /\ b.number = <<k, r>>
      BY <2>2, <1>2, <1>3, <1>4
    <3> QED
      BY ONLY <3>1
  <2>3. CASE k = "PAYROLL"
    <3>1. c \in Book(s)!Postings(r, v, t) /\ c.number = <<k, r>>
      BY <2>3, <1>2, <1>3, <1>4
    <3> QED
      BY ONLY <3>1
  <2>4. CASE k = "PAYMENT"
    <3>1. d \in Book(s)!Postings(r, v, t) /\ d.number = <<k, r>>
      BY <2>4, <1>2, <1>3, <1>4
    <3> QED
      BY ONLY <3>1
  <2> QED
    BY <1>5, <2>1, <2>2, <2>3, <2>4
<1> QED
  BY ONLY <1>7, <1>8

LEMMA PostsDo ==
  ASSUME NEW s, NEW r, NEW v, NEW t, Book(s)!Posts(r, v, t)
  PROVE  RecordPosted(journals, journals', r, v, t)
<1> DEFINE P == Book(s)!Postings(r, v, t)
           numbers == {p.number : p \in P}
           Of(n) == (CHOOSE p \in P : p.number = n).lines
<1>1. /\ \A p \in P : Accepts(journals, p.number, p.lines)
      /\ journals' = [n \in DOMAIN journals \union numbers |->
                        IF n \in DOMAIN journals THEN journals[n]
                        ELSE [lines |-> Normalized(Of(n)), status |-> "POSTED"]]
  <2>1. /\ \A p \in P : Book(s)!Accepts(journals, p.number, p.lines)
        /\ journals' = [n \in DOMAIN journals \union numbers |->
                          IF n \in DOMAIN journals THEN journals[n]
                          ELSE [lines |-> Book(s)!Normalized(Of(n)), status |-> "POSTED"]]
    BY Zenon DEF Book!Posts
  <2> HIDE DEF P, numbers, Of
  <2>2. \A n : Book(s)!Normalized(Of(n)) = Normalized(Of(n))
    BY BookBooks
  <2>3. \A p : Book(s)!Accepts(journals, p.number, p.lines) <=> Accepts(journals, p.number, p.lines)
    BY Zenon, BookBooks
  <2> QED
    BY <2>1, <2>2, <2>3
<1>2. numbers = NumbersDue(r, t)
  <2>1. ASSUME NEW n \in numbers PROVE n \in NumbersDue(r, t)
    <3>1. PICK p \in P : n = p.number
      BY <2>1
    <3>2. PICK k \in KindsDue(r, t) : p.number = <<k, r>>
      BY PostingsAre
    <3> QED
      BY <3>1, <3>2 DEF NumbersDue
  <2>2. ASSUME NEW n \in NumbersDue(r, t) PROVE n \in numbers
    <3>1. PICK k \in KindsDue(r, t) : n = <<k, r>>
      BY <2>2 DEF NumbersDue
    <3>2. PICK p \in P : p.number = <<k, r>>
      BY PostingsAre
    <3> QED
      BY <3>1, <3>2
  <2> QED
    BY <2>1, <2>2
<1>3. ASSUME NEW n \in numbers PROVE \E p \in P : p.number = n /\ Of(n) = p.lines
  <2>1. \E p \in P : p.number = n
    OBVIOUS
  <2>2. (CHOOSE p \in P : p.number = n) \in P /\ (CHOOSE p \in P : p.number = n).number = n
    BY <2>1
  <2> QED
    BY <2>2
<1> HIDE DEF P, numbers, Of
<1>4. DOMAIN journals' = DOMAIN journals \union NumbersDue(r, t)
  BY <1>1, <1>2
<1>5. \A n \in DOMAIN journals : journals'[n] = journals[n]
  BY <1>1
<1>6. ASSUME NEW e \in KindsDue(r, t), <<e, r>> \notin DOMAIN journals
      PROVE  PostedFor(journals'[<<e, r>>], e, v)
  <2>1. PICK n : n = <<e, r>>
    OBVIOUS
  <2>2. n \in numbers /\ n \notin DOMAIN journals
    BY <1>2, <1>6, <2>1 DEF NumbersDue
  <2>3. journals'[n] = [lines |-> Normalized(Of(n)), status |-> "POSTED"]
    BY <1>1, <2>2
  <2>4. PICK p \in P : p.number = n /\ Of(n) = p.lines
    BY <1>3, <2>2
  <2>5. PICK k \in KindsDue(r, t) : \E d, c :
          p.number = <<k, r>> /\ DueAs(k, d, c) /\ p.lines = Pair(d, c, v)
    BY PostingsAre DEF P
  <2>6. k = e
    BY <2>1, <2>4, <2>5
  <2>7. PICK d, c : DueAs(e, d, c) /\ p.lines = Pair(d, c, v)
    BY <2>5, <2>6
  <2>8. Postable(Pair(d, c, v))
    BY <1>1, <2>2, <2>4, <2>7 DEF Accepts
  <2>9. journals'[n] = PairJournal(d, c, v)
    BY <2>3, <2>4, <2>7 DEF PairJournal
  <2> QED
    BY <2>1, <2>7, <2>8, <2>9 DEF PostedFor
<1> QED
  BY <1>4, <1>5, <1>6 DEF RecordPosted

LEMMA PostedLevel ==
  ASSUME NEW j, NEW k, NEW v \in Nat, NEW C, IsFiniteSet(C),
         {"1000", "1200", "2000", "5200", "5400"} \subseteq C, PostedFor(j, k, v)
  PROVE  LevelJournal(j, C) /\ j.status = "POSTED"
<1>1. PICK d, c : DueAs(k, d, c) /\ j = PairJournal(d, c, v) /\ Postable(Pair(d, c, v))
  BY DEF PostedFor
<1>2. d # c /\ d \in C /\ c \in C
  BY <1>1 DEF DueAs
<1>3. LevelJournal(PairJournal(d, c, v), C)
  BY ONLY <1>1, <1>2, v \in Nat, IsFiniteSet(C), PairLevel
<1>4. PairJournal(d, c, v).status = "POSTED"
  BY DEF PairJournal
<1> QED
  BY <1>1, <1>3, <1>4

LEMMA FourFinite ==
  ASSUME NEW a, NEW b, NEW c, NEW d
  PROVE  IsFiniteSet({a, b, c, d})
<1>1. IsFiniteSet({a})
  BY FS_Singleton
<1>2. IsFiniteSet({a} \union {b})
  BY <1>1, FS_AddElement
<1>3. PICK S : S = {a} \union {b}
  OBVIOUS
<1>4. IsFiniteSet(S \union {c})
  BY <1>2, <1>3, FS_AddElement
<1>5. PICK T : T = S \union {c}
  OBVIOUS
<1>6. IsFiniteSet(T \union {d})
  BY <1>4, <1>5, FS_AddElement
<1>7. T \union {d} = {a, b, c, d}
  BY <1>3, <1>5
<1> QED
  BY <1>6, <1>7

LEMMA PostedFollows ==
  ASSUME NEW js, NEW k, NEW r, NEW v \in Nat, NEW t, NEW C, IsFiniteSet(C),
         {"1000", "1200", "2000", "5200", "5400"} \subseteq C,
         BooksFine(js), RecordPosted(js, k, r, v, t)
  PROVE  Follows(js, k, C)
<1>1. IsFiniteSet(NumbersDue(r, t))
  <2>1. IsFiniteSet({"ASSET", "DISPOSAL", "PAYROLL", "PAYMENT"})
    BY FourFinite
  <2>2. KindsDue(r, t) \subseteq {"ASSET", "DISPOSAL", "PAYROLL", "PAYMENT"}
    BY DEF KindsDue
  <2>3. IsFiniteSet(KindsDue(r, t))
    BY <2>1, <2>2, FS_Subset
  <2> DEFINE g == [e \in KindsDue(r, t) |-> <<e, r>>]
  <2>4. NumbersDue(r, t) = {g[e] : e \in KindsDue(r, t)}
    BY DEF NumbersDue
  <2> HIDE DEF g
  <2> QED
    BY <2>3, <2>4, ImageFinite
<1>2. IsFiniteSet(DOMAIN k) /\ DOMAIN js \subseteq DOMAIN k
  <2>1. DOMAIN k = DOMAIN js \union NumbersDue(r, t)
    BY DEF RecordPosted
  <2> QED
    BY <1>1, <2>1, FS_Union DEF BooksFine
<1>3. ASSUME NEW n \in DOMAIN k
      PROVE  (n \in DOMAIN js /\ SameLines(js[n], k[n])) \/ LevelJournal(k[n], C)
  <2>1. CASE n \in DOMAIN js
    BY <2>1 DEF RecordPosted, SameLines, BooksFine, JournalOK
  <2>2. CASE n \notin DOMAIN js
    <3>1. PICK e \in KindsDue(r, t) : n = <<e, r>>
      BY <2>2 DEF RecordPosted, NumbersDue
    <3>2. PostedFor(k[n], e, v)
      BY <2>2, <3>1 DEF RecordPosted
    <3> QED
      BY <3>2, PostedLevel
  <2> QED
    BY <2>1, <2>2
<1> QED
  BY <1>2, <1>3 DEF Follows

--------------------------------------------------------------------------------
(* Books: the invariant of every interleaving.                             *)

RecordRowOK(x) == x = [amount |-> x.amount, status |-> x.status] /\ x.amount \in Nat
RecordsOK(rs) == IsFiniteSet(DOMAIN rs) /\ \A r \in DOMAIN rs : RecordRowOK(rs[r])
PaidAccrued(js) == \A r : <<"PAYMENT", r>> \in DOMAIN js => <<"PAYROLL", r>> \in DOMAIN js

BookJob(l, x, js, rs, C) ==
  /\ l = "drafting" => LinesOK(x.lines) /\ Levels(x, C)
  /\ l \in {"posting", "reversing"} => x.journal \in DOMAIN js
  /\ l = "moving" => x.record \in DOMAIN rs

BookTables(s, js, rs) == BooksLevel(js, Book(s)!Codes) /\ PaidAccrued(js) /\ RecordsOK(rs)

BookInv(s) ==
  /\ BookTables(s, journals, records)
  /\ DOMAIN pc = s.workers /\ DOMAIN job = s.workers
  /\ \A w \in s.workers : BookJob(pc[w], job[w], journals, records, Book(s)!Codes)

Grows(js, k, rs, qs) == DOMAIN js \subseteq DOMAIN k /\ DOMAIN rs \subseteq DOMAIN qs

LEMMA BookTurn ==
  ASSUME NEW s, NEW w \in s.workers, NEW l, NEW x, BookInv(s), Book(s)!Turn(w, l, x)
  PROVE  /\ DOMAIN pc' = s.workers /\ DOMAIN job' = s.workers
         /\ pc'[w] = l /\ job'[w] = x
         /\ \A v \in s.workers \ {w} : pc'[v] = pc[v] /\ job'[v] = job[v]
BY DEF Book!Turn, BookInv

LEMMA BookKept ==
  ASSUME NEW s, NEW w \in s.workers, NEW l, NEW x, BookInv(s), Book(s)!Turn(w, l, x),
         BookTables(s, journals', records'), Grows(journals, journals', records, records'),
         BookJob(l, x, journals', records', Book(s)!Codes)
  PROVE  BookInv(s)'
<1>0. Book(s)!Codes' = Book(s)!Codes
  BY DEF Book!Codes, Book!SystemAccounts
<1>1. ASSUME NEW v \in s.workers
      PROVE  BookJob(pc'[v], job'[v], journals', records', Book(s)!Codes)
  <2>1. CASE v = w
    BY <2>1, BookTurn
  <2>2. CASE v # w
    <3>1. BookJob(pc'[v], job'[v], journals, records, Book(s)!Codes)
      BY <2>2, BookTurn DEF BookInv
    <3> QED
      BY <3>1 DEF BookJob, Grows
  <2> QED
    BY <2>1, <2>2
<1>2. DOMAIN pc' = s.workers /\ DOMAIN job' = s.workers
  BY BookTurn
<1> QED
  BY <1>0, <1>1, <1>2 DEF BookInv, BookTables

LEMMA BookOutside ==
  ASSUME NEW s, BookInv(s), UNCHANGED <<pc, job>>,
         BookTables(s, journals', records'), Grows(journals, journals', records, records')
  PROVE  BookInv(s)'
<1>0. Book(s)!Codes' = Book(s)!Codes
  BY DEF Book!Codes, Book!SystemAccounts
<1>1. \A w \in s.workers : BookJob(pc[w], job[w], journals', records', Book(s)!Codes)
  BY DEF BookInv, BookJob, Grows
<1> QED
  BY <1>0, <1>1 DEF BookInv, BookTables

LEMMA BookCodes ==
  ASSUME NEW s, Book(s)!BooksAssumption
  PROVE  /\ IsFiniteSet(Book(s)!Codes)
         /\ {"1000", "1200", "2000", "5200", "5400"} \subseteq Book(s)!Codes
         /\ \A e \in s.entries : LinesOK(e.lines) /\ \A l \in e.lines : l.account \in Book(s)!Codes
         /\ \A rec \in s.records : rec.kind \in {"ASSET", "PAYROLL"} /\ rec.amount \in Nat
<1>1. Book(s)!Codes = {"1000", "1200", "2000", "5200", "5400"} \union s.custom
  BY DEF Book!Codes, Book!SystemAccounts
<1>2. IsFiniteSet(s.custom)
  BY BookSums DEF Book!BooksAssumption
<1>3. IsFiniteSet({"1000", "1200", "2000", "5200", "5400"})
  <2>1. PICK S : S = {"1000", "1200", "2000", "5200"}
    OBVIOUS
  <2>2. IsFiniteSet(S)
    BY <2>1, FourFinite
  <2>3. PICK x : x = "5400"
    OBVIOUS
  <2>4. IsFiniteSet(S \union {x})
    BY <2>2, FS_AddElement
  <2>5. S \union {x} = {"1000", "1200", "2000", "5200", "5400"}
    BY <2>1, <2>3
  <2> QED
    BY <2>4, <2>5
<1>4. IsFiniteSet(Book(s)!Codes)
  <2>1. PICK S : S = {"1000", "1200", "2000", "5200", "5400"}
    OBVIOUS
  <2>2. IsFiniteSet(S \union s.custom)
    BY <1>2, <1>3, <2>1, FS_Union
  <2> QED
    BY <1>1, <2>1, <2>2
<1>5. ASSUME NEW e \in s.entries
      PROVE  LinesOK(e.lines) /\ \A l \in e.lines : l.account \in Book(s)!Codes
  <2>1. IsFiniteSet(e.lines)
    BY BookSums DEF Book!BooksAssumption
  <2>2. ASSUME NEW l \in e.lines PROVE LineOK(l) /\ l.account \in Book(s)!Codes
    <3>1. /\ l = Book(s)!Line(l.account, l.debit, l.credit) /\ l.account \in Book(s)!Codes
          /\ l.debit \in Nat /\ l.credit \in Nat
      BY DEF Book!BooksAssumption
    <3>2. l = Line(l.account, l.debit, l.credit)
      BY <3>1 DEF Book!Line, Line
    <3> QED
      BY <3>1, <3>2 DEF LineOK
  <2> QED
    BY <2>1, <2>2 DEF LinesOK
<1>6. \A rec \in s.records : rec.kind \in {"ASSET", "PAYROLL"} /\ rec.amount \in Nat
  BY DEF Book!BooksAssumption
<1> QED
  BY ONLY <1>1, <1>4, <1>5, <1>6

BookReading(s, w) ==
  \/ \E e \in s.entries : Book(s)!DraftRead(w, e)
  \/ \E n \in DOMAIN journals : Book(s)!PostRead(w, n) \/ Book(s)!ReverseRead(w, n)
  \/ \E r \in DOMAIN records : \E t : Book(s)!RecordRead(w, r, t)
  \/ Book(s)!Abort(w)

LEMMA BookReads ==
  ASSUME NEW s, NEW w \in s.workers, Book(s)!BooksAssumption, BookInv(s), BookReading(s, w)
  PROVE  /\ BookInv(s)' /\ UNCHANGED <<journals, records>>
         /\ \/ \E e \in s.entries : Book(s)!DraftRead(w, e)
            \/ \E n \in DOMAIN journals :
                 \/ Book(s)!PostRead(w, n)
                 \/ /\ Book(s)!Turn(w, "reversing", [journal |-> n])
                    /\ journals[n].status = "POSTED"
            \/ \E r \in DOMAIN records : \E t :
                 /\ Book(s)!Turn(w, "moving", [record |-> r, status |-> t])
                 /\ t \in Book(s)!Allows(records[r].status)
            \/ Book(s)!Done(w)
<1> DEFINE C == Book(s)!Codes
<1>1. ASSUME UNCHANGED <<journals, records>>, NEW l, NEW x, Book(s)!Turn(w, l, x),
             BookJob(l, x, journals, records, C)
      PROVE  BookInv(s)' /\ UNCHANGED <<journals, records>>
  <2>1. BookTables(s, journals', records') /\ Grows(journals, journals', records, records')
    BY <1>1 DEF BookInv, Grows
  <2>2. BookJob(l, x, journals', records', C)
    BY <1>1
  <2> QED
    BY <1>1, <2>1, <2>2, BookKept
<1>2. CASE \E e \in s.entries : Book(s)!DraftRead(w, e)
  <2>1. PICK e \in s.entries : Book(s)!DraftRead(w, e)
    BY <1>2
  <2>2. Book(s)!Turn(w, "drafting", e) /\ UNCHANGED <<journals, records>> /\ Book(s)!Valid(e.lines)
    BY <2>1 DEF Book!DraftRead, Book!rowVars
  <2>3. TotalDebit(e.lines) = TotalCredit(e.lines)
    BY <2>2, BookBooks DEF Book!Valid
  <2>4. LinesOK(e.lines) /\ (\A l \in e.lines : l.account \in C) /\ IsFiniteSet(C)
    BY BookCodes
  <2>5. Levels(e, C)
    <3> HIDE DEF C
    <3> QED
      BY ONLY <2>3, <2>4, LevelLines
  <2>6. BookJob("drafting", e, journals, records, C)
    BY <2>4, <2>5 DEF BookJob
  <2> QED
    BY <1>1, <1>2, <2>2, <2>6
<1>3. CASE \E n \in DOMAIN journals : Book(s)!PostRead(w, n)
  <2>1. PICK n \in DOMAIN journals : Book(s)!PostRead(w, n)
    BY <1>3
  <2>2. PICK x : x = [journal |-> n]
    OBVIOUS
  <2>3. Book(s)!Turn(w, "posting", x) /\ UNCHANGED <<journals, records>>
    BY <2>1, <2>2 DEF Book!PostRead, Book!rowVars
  <2>4. BookJob("posting", x, journals, records, C)
    BY <2>2 DEF BookJob
  <2> QED
    BY <1>1, <1>3, <2>3, <2>4
<1>4. CASE \E n \in DOMAIN journals : Book(s)!ReverseRead(w, n)
  <2>1. PICK n \in DOMAIN journals : Book(s)!ReverseRead(w, n)
    BY <1>4
  <2>2. PICK x : x = [journal |-> n]
    OBVIOUS
  <2>3. Book(s)!Turn(w, "reversing", x) /\ UNCHANGED <<journals, records>> /\ journals[n].status = "POSTED"
    BY <2>1, <2>2 DEF Book!ReverseRead, Book!rowVars, Book!MayReverse
  <2>4. BookJob("reversing", x, journals, records, C)
    BY <2>2 DEF BookJob
  <2> QED
    BY <1>1, <2>2, <2>3, <2>4
<1>5. CASE \E r \in DOMAIN records : \E t : Book(s)!RecordRead(w, r, t)
  <2>a. PICK r \in DOMAIN records : \E t : Book(s)!RecordRead(w, r, t)
    BY <1>5
  <2>1. PICK t : Book(s)!RecordRead(w, r, t)
    BY <2>a
  <2>2. PICK x : x = [record |-> r, status |-> t]
    OBVIOUS
  <2>3. /\ Book(s)!Turn(w, "moving", x) /\ UNCHANGED <<journals, records>>
        /\ t \in Book(s)!Allows(records[r].status)
    BY <2>1, <2>2 DEF Book!RecordRead, Book!rowVars
  <2>4. BookJob("moving", x, journals, records, C)
    BY <2>2 DEF BookJob
  <2> QED
    BY <1>1, <2>2, <2>3, <2>4
<1>6. CASE Book(s)!Abort(w)
  <2>1. Book(s)!Turn(w, "idle", None) /\ Book(s)!Done(w) /\ UNCHANGED <<journals, records>>
    BY <1>6 DEF Book!Abort, Book!GiveUp, Book!Done, Book!rowVars
  <2>2. BookJob("idle", None, journals, records, C)
    BY DEF BookJob
  <2> QED
    BY <1>1, <2>1, <2>2
<1> QED
  BY <1>2, <1>3, <1>4, <1>5, <1>6 DEF BookReading

LEMMA PaidEntered ==
  ASSUME NEW js, NEW n, n[1] # "PAYMENT", NEW j, PaidAccrued(js)
  PROVE  PaidAccrued(Entered(js, n, j))
<1>1. DOMAIN Entered(js, n, j) = DOMAIN js \union {n}
  BY DEF Entered
<1>2. \A r : <<"PAYMENT", r>> # n
  BY <<"PAYMENT", n>>[1] = "PAYMENT"
<1> QED
  BY <1>1, <1>2 DEF PaidAccrued

LEMMA BookCommits ==
  ASSUME NEW s, NEW w \in s.workers, BookInv(s), Book(s)!Done(w),
         BookTables(s, journals', records'), Grows(journals, journals', records, records')
  PROVE  BookInv(s)'
<1>1. Book(s)!Turn(w, "idle", None)
  BY DEF Book!Done
<1>2. BookJob("idle", None, journals', records', Book(s)!Codes)
  BY DEF BookJob
<1> QED
  BY <1>1, <1>2, BookKept

ManualNumber(ref) == <<"MANUAL", ref>>
DraftOf(x) == [lines |-> x.lines, status |-> "DRAFT"]

LEMMA BookDrafted ==
  ASSUME NEW s, NEW w \in s.workers, BookInv(s), Book(s)!DraftCommit(w)
  PROVE  /\ BookInv(s)' /\ Book(s)!Done(w) /\ UNCHANGED records
         /\ ManualNumber(job[w].ref) \notin DOMAIN journals
         /\ journals' = Entered(journals, ManualNumber(job[w].ref), DraftOf(job[w]))
<1> DEFINE C == Book(s)!Codes
           n == ManualNumber(job[w].ref)
<1>1. /\ Book(s)!Done(w) /\ UNCHANGED records /\ pc[w] = "drafting"
      /\ n \notin DOMAIN journals /\ journals' = Entered(journals, n, DraftOf(job[w]))
  BY BookBooks DEF Book!DraftCommit, Book!At, ManualNumber, DraftOf
<1>2. LinesOK(job[w].lines) /\ Levels(job[w], C)
  <2>1. BookJob(pc[w], job[w], journals, records, C)
    BY DEF BookInv
  <2> QED
    BY <1>1, <2>1 DEF BookJob
<1>3. LevelJournal(DraftOf(job[w]), C)
  <2>1. PICK j : j = DraftOf(job[w])
    OBVIOUS
  <2>2. j.lines = job[w].lines /\ j = [lines |-> j.lines, status |-> j.status]
    BY <2>1 DEF DraftOf
  <2>3. SameLines(job[w], j)
    BY <2>2 DEF SameLines
  <2>4. Levels(j, C)
    BY <1>2, <2>3, LinesMove
  <2> QED
    BY <1>2, <2>1, <2>2, <2>4 DEF LevelJournal, JournalOK
<1>4. n[1] # "PAYMENT"
  BY DEF ManualNumber
<1>5. BooksLevel(journals, C) /\ PaidAccrued(journals) /\ RecordsOK(records)
  BY DEF BookInv, BookTables
<1> HIDE DEF C, n
<1>6. Follows(journals, journals', C)
  BY <1>1, <1>3, <1>5, EnteredFollows DEF BooksLevel
<1>7. BooksLevel(journals', C) /\ PaidAccrued(journals')
  BY <1>1, <1>4, <1>5, <1>6, LevelKept, PaidEntered
<1>8. BookTables(s, journals', records')
  BY <1>1, <1>5, <1>7 DEF BookTables, C
<1>9. Grows(journals, journals', records, records')
  BY <1>1, <1>6 DEF Follows, Grows
<1> QED
  BY <1>1, <1>8, <1>9, BookCommits DEF n

LEMMA BookPosted ==
  ASSUME NEW s, NEW w \in s.workers, BookInv(s), Book(s)!PostCommit(w)
  PROVE  /\ BookInv(s)' /\ Book(s)!Done(w) /\ UNCHANGED records
         /\ pc[w] = "posting" /\ job[w].journal \in DOMAIN journals
         /\ Restatus(journals, journals', job[w].journal, "POSTED")
<1> DEFINE C == Book(s)!Codes
           n == job[w].journal
<1>1. /\ Book(s)!Done(w) /\ UNCHANGED records /\ pc[w] = "posting"
      /\ journals' = [journals EXCEPT ![n].status = "POSTED"]
  BY DEF Book!PostCommit, Book!At
<1>2. n \in DOMAIN journals
  <2>1. BookJob(pc[w], job[w], journals, records, C)
    BY DEF BookInv
  <2> QED
    BY <1>1, <2>1 DEF BookJob
<1>5. BooksLevel(journals, C) /\ PaidAccrued(journals) /\ RecordsOK(records)
  BY DEF BookInv, BookTables
<1> HIDE DEF C, n
<1>6. Restatus(journals, journals', n, "POSTED")
  BY <1>1, <1>2, <1>5, JournalStatusSet DEF BooksLevel
<1>7. Follows(journals, journals', C)
  BY <1>2, <1>5, <1>6, RestatusFollows DEF BooksLevel
<1>8. BooksLevel(journals', C) /\ PaidAccrued(journals')
  BY <1>5, <1>6, <1>7, LevelKept DEF Restatus, PaidAccrued
<1>9. BookTables(s, journals', records')
  BY <1>1, <1>5, <1>8 DEF BookTables, C
<1>10. Grows(journals, journals', records, records')
  BY <1>1, <1>7 DEF Follows, Grows
<1> QED
  BY <1>1, <1>2, <1>6, <1>9, <1>10, BookCommits DEF n

ReversalNumber(n, k) == <<"REV", n, k>>
MirrorEntered(js, k, n, m) ==
  \E t : Restatus(js, t, n, "REVERSED") /\ k = Entered(t, m, MirrorOf(js[n]))

LEMMA BookReversed ==
  ASSUME NEW s, NEW w \in s.workers, Book(s)!BooksAssumption, BookInv(s), Book(s)!ReverseCommit(w)
  PROVE  /\ BookInv(s)' /\ Book(s)!Done(w) /\ UNCHANGED records
         /\ pc[w] = "reversing" /\ job[w].journal \in DOMAIN journals
         /\ Book(s)!Reversals < s.reversals
         /\ MirrorEntered(journals, journals', job[w].journal,
                          ReversalNumber(job[w].journal, Book(s)!Reversals + 1))
<1> DEFINE C == Book(s)!Codes
           n == job[w].journal
           m == ReversalNumber(n, Book(s)!Reversals + 1)
           t == [journals EXCEPT ![n].status = "REVERSED"]
           j == MirrorOf(journals[n])
<1>1. /\ Book(s)!Done(w) /\ UNCHANGED records /\ pc[w] = "reversing"
      /\ Book(s)!Reversals < s.reversals
      /\ journals' = Entered(t, m, j)
  BY BookBooks DEF Book!ReverseCommit, Book!At, ReversalNumber, MirrorOf
<1>2. n \in DOMAIN journals
  <2>1. BookJob(pc[w], job[w], journals, records, C)
    BY DEF BookInv
  <2> QED
    BY <1>1, <2>1 DEF BookJob
<1>3. m[1] # "PAYMENT"
  BY DEF ReversalNumber
<1>4. j.lines = Mirrored(journals[n].lines) /\ j = [lines |-> j.lines, status |-> j.status]
  BY DEF MirrorOf
<1>5. BooksLevel(journals, C) /\ PaidAccrued(journals) /\ RecordsOK(records) /\ IsFiniteSet(C)
  BY BookCodes DEF BookInv, BookTables
<1>6. Restatus(journals, t, n, "REVERSED")
  BY <1>2, <1>5, JournalStatusSet DEF BooksLevel
<1>7. MirrorEntered(journals, journals', n, m)
  BY <1>1, <1>6 DEF MirrorEntered
<1> HIDE DEF C, n, m, t, j
<1>8. Follows(journals, t, C)
  BY <1>2, <1>5, <1>6, RestatusFollows DEF BooksLevel
<1>9. BooksLevel(t, C) /\ PaidAccrued(t)
  BY <1>5, <1>6, <1>8, LevelKept DEF Restatus, PaidAccrued
<1>10. LevelJournal(j, C)
  <2>1. LinesOK(journals[n].lines) /\ Levels(journals[n], C)
    BY <1>2, <1>5 DEF BooksLevel, BooksFine, JournalOK
  <2>2. LinesOK(j.lines) /\ Levels(j, C)
    BY <1>4, <1>5, <2>1, MirrorLevel
  <2> QED
    BY <1>4, <2>2 DEF LevelJournal, JournalOK
<1>11. Follows(t, journals', C)
  BY <1>1, <1>9, <1>10, EnteredFollows DEF BooksLevel
<1>12. BooksLevel(journals', C) /\ PaidAccrued(journals')
  BY <1>1, <1>3, <1>9, <1>11, LevelKept, PaidEntered
<1>13. BookTables(s, journals', records')
  BY <1>1, <1>5, <1>12 DEF BookTables, C
<1>14. Grows(journals, journals', records, records')
  BY <1>1, <1>8, <1>11 DEF Follows, Grows
<1> QED
  BY <1>1, <1>2, <1>7, <1>13, <1>14, BookCommits DEF n, m

RecordMoved(rs, qs, r, t) ==
  /\ r \in DOMAIN rs /\ DOMAIN qs = DOMAIN rs
  /\ qs[r] = [amount |-> rs[r].amount, status |-> t]
  /\ \A q \in DOMAIN rs : q # r => qs[q] = rs[q]
RecordNew(rs, qs, r, v, t) ==
  /\ r \notin DOMAIN rs /\ DOMAIN qs = DOMAIN rs \union {r}
  /\ qs[r] = [amount |-> v, status |-> t]
  /\ \A q \in DOMAIN rs : qs[q] = rs[q]

LEMMA RecordsMove ==
  ASSUME NEW rs, RecordsOK(rs), NEW r \in DOMAIN rs, NEW t
  PROVE  RecordMoved(rs, [rs EXCEPT ![r].status = t], r, t)
<1> DEFINE qs == [rs EXCEPT ![r].status = t]
<1>1. qs[r] = [rs[r] EXCEPT !.status = t]
  OBVIOUS
<1>2. PICK x : x = rs[r]
  OBVIOUS
<1>3. x = [amount |-> x.amount, status |-> x.status]
  BY <1>2 DEF RecordsOK, RecordRowOK
<1>4. [x EXCEPT !.status = t] = [amount |-> x.amount, status |-> t]
  BY <1>3
<1>5. qs[r] = [amount |-> rs[r].amount, status |-> t]
  BY <1>1, <1>2, <1>4
<1>6. DOMAIN qs = DOMAIN rs /\ \A q \in DOMAIN rs : q # r => qs[q] = rs[q]
  OBVIOUS
<1> QED
  BY <1>5, <1>6 DEF RecordMoved

LEMMA RecordRows ==
  ASSUME NEW rs, NEW qs, NEW r, NEW v, NEW t, RecordsOK(rs),
         RecordMoved(rs, qs, r, t) \/ (RecordNew(rs, qs, r, v, t) /\ v \in Nat)
  PROVE  RecordsOK(qs) /\ DOMAIN rs \subseteq DOMAIN qs
<1>1. CASE RecordMoved(rs, qs, r, t)
  <2>1. rs[r].amount \in Nat /\ DOMAIN qs = DOMAIN rs
    BY <1>1 DEF RecordMoved, RecordsOK, RecordRowOK
  <2>2. ASSUME NEW q \in DOMAIN qs PROVE RecordRowOK(qs[q])
    <3>1. CASE q = r
      <4>1. PICK x : x = qs[r]
        OBVIOUS
      <4>2. x = [amount |-> rs[r].amount, status |-> t]
        BY <1>1, <4>1 DEF RecordMoved
      <4>3. x.amount = rs[r].amount /\ x.status = t
        BY <4>2
      <4> QED
        BY <2>1, <3>1, <4>1, <4>2, <4>3 DEF RecordRowOK
    <3>2. CASE q # r
      BY <1>1, <2>1, <3>2 DEF RecordMoved, RecordsOK
    <3> QED
      BY <3>1, <3>2
  <2> QED
    BY <2>1, <2>2 DEF RecordsOK
<1>2. CASE RecordNew(rs, qs, r, v, t) /\ v \in Nat
  <2>1. DOMAIN qs = DOMAIN rs \union {r}
    BY <1>2 DEF RecordNew
  <2>2. IsFiniteSet(DOMAIN qs)
    BY <2>1, FS_AddElement DEF RecordsOK
  <2>3. ASSUME NEW q \in DOMAIN qs PROVE RecordRowOK(qs[q])
    <3>1. CASE q = r
      <4>1. PICK x : x = qs[r]
        OBVIOUS
      <4>2. x = [amount |-> v, status |-> t]
        BY <1>2, <4>1 DEF RecordNew
      <4>3. x.amount = v /\ x.status = t
        BY <4>2
      <4> QED
        BY <1>2, <3>1, <4>1, <4>2, <4>3 DEF RecordRowOK
    <3>2. CASE q # r
      BY <1>2, <2>1, <3>2 DEF RecordNew, RecordsOK
    <3> QED
      BY <3>1, <3>2
  <2> QED
    BY <2>1, <2>2, <2>3 DEF RecordsOK
<1> QED
  BY <1>1, <1>2

LEMMA RecordTables ==
  ASSUME NEW s, NEW r, NEW v \in Nat, NEW t, Book(s)!BooksAssumption,
         BookTables(s, journals, records),
         RecordPosted(journals, journals', r, v, t),
         RecordMoved(records, records', r, t) \/ RecordNew(records, records', r, v, t)
  PROVE  BookTables(s, journals', records') /\ Grows(journals, journals', records, records')
<1> DEFINE C == Book(s)!Codes
<1>1. /\ BooksLevel(journals, C) /\ PaidAccrued(journals) /\ RecordsOK(records)
      /\ IsFiniteSet(C) /\ {"1000", "1200", "2000", "5200", "5400"} \subseteq C
  BY BookCodes DEF BookTables
<1>2. RecordsOK(records') /\ DOMAIN records \subseteq DOMAIN records'
  BY <1>1, RecordRows
<1> HIDE DEF C
<1>3. Follows(journals, journals', C)
  BY <1>1, PostedFollows DEF BooksLevel
<1>4. BooksLevel(journals', C)
  BY <1>1, <1>3, LevelKept
<1>5. PaidAccrued(journals')
  <2> SUFFICES ASSUME NEW q, <<"PAYMENT", q>> \in DOMAIN journals'
               PROVE  <<"PAYROLL", q>> \in DOMAIN journals'
    BY DEF PaidAccrued
  <2>1. CASE <<"PAYMENT", q>> \in DOMAIN journals
    BY <1>1, <1>3, <2>1 DEF PaidAccrued, Follows
  <2>2. CASE <<"PAYMENT", q>> \in NumbersDue(r, t)
    <3>1. PICK k \in KindsDue(r, t) : <<"PAYMENT", q>> = <<k, r>>
      BY <2>2 DEF NumbersDue
    <3>2. k = "PAYMENT" /\ q = r
      BY <3>1
    <3>3. "PAYROLL" \in KindsDue(r, t)
      BY <3>2 DEF KindsDue
    <3>4. <<"PAYROLL", q>> \in NumbersDue(r, t)
      BY <3>2, <3>3 DEF NumbersDue
    <3> QED
      BY <3>4 DEF RecordPosted
  <2> QED
    BY <2>1, <2>2 DEF RecordPosted
<1>6. BookTables(s, journals', records')
  BY <1>2, <1>4, <1>5 DEF BookTables, C
<1>7. Grows(journals, journals', records, records')
  BY <1>2, <1>3 DEF Grows, Follows
<1> QED
  BY <1>6, <1>7

LEMMA BookRecorded ==
  ASSUME NEW s, NEW w \in s.workers, Book(s)!BooksAssumption, BookInv(s), Book(s)!RecordCommit(w)
  PROVE  /\ BookInv(s)' /\ Book(s)!Done(w) /\ pc[w] = "moving"
         /\ RecordMoved(records, records', job[w].record, job[w].status)
         /\ RecordPosted(journals, journals', job[w].record, records[job[w].record].amount, job[w].status)
<1>1. PICK r, v, t : r = job[w].record /\ t = job[w].status /\ v = records[r].amount
  OBVIOUS
<1>2. /\ Book(s)!Done(w) /\ pc[w] = "moving"
      /\ records' = [records EXCEPT ![r].status = t]
      /\ Book(s)!Posts(r, v, t)
  BY <1>1 DEF Book!RecordCommit, Book!At
<1>3. r \in DOMAIN records
  <2>1. BookJob(pc[w], job[w], journals, records, Book(s)!Codes)
    BY DEF BookInv
  <2> QED
    BY <1>1, <1>2, <2>1 DEF BookJob
<1>4. BookTables(s, journals, records)
  BY DEF BookInv
<1>5. v \in Nat
  BY <1>1, <1>3, <1>4 DEF BookTables, RecordsOK, RecordRowOK
<1>6. RecordMoved(records, records', r, t)
  BY <1>2, <1>3, <1>4, RecordsMove DEF BookTables
<1>7. RecordPosted(journals, journals', r, v, t)
  BY <1>2, PostsDo
<1>8. BookTables(s, journals', records') /\ Grows(journals, journals', records, records')
  BY <1>4, <1>5, <1>6, <1>7, RecordTables
<1> QED
  BY <1>1, <1>2, <1>6, <1>7, <1>8, BookCommits

RecordKey(rec) == <<rec.kind, rec.ref>>

LEMMA BookCreated ==
  ASSUME NEW s, NEW rec \in s.records, Book(s)!BooksAssumption, BookInv(s),
         Book(s)!CreateRecord(rec)
  PROVE  /\ BookInv(s)' /\ UNCHANGED <<pc, job>> /\ rec.amount \in Nat
         /\ RecordNew(records, records', RecordKey(rec), rec.amount, rec.status)
         /\ RecordPosted(journals, journals', RecordKey(rec), rec.amount, rec.status)
<1>1. PICK r, v, t : r = RecordKey(rec) /\ v = rec.amount /\ t = rec.status
  OBVIOUS
<1>2. /\ UNCHANGED <<pc, job>> /\ r \notin DOMAIN records
      /\ records' = Entered(records, r, [amount |-> v, status |-> t])
      /\ Book(s)!Posts(r, v, t)
  BY <1>1, BookBooks DEF Book!CreateRecord, Book!requestVars, RecordKey
<1>3. v \in Nat
  BY <1>1, BookCodes
<1>4. BookTables(s, journals, records)
  BY DEF BookInv
<1>5. RecordNew(records, records', r, v, t)
  BY <1>2 DEF RecordNew, Entered
<1>6. RecordPosted(journals, journals', r, v, t)
  BY <1>2, PostsDo
<1>7. BookTables(s, journals', records') /\ Grows(journals, journals', records, records')
  BY <1>3, <1>4, <1>5, <1>6, RecordTables
<1> QED
  BY <1>1, <1>2, <1>3, <1>5, <1>6, <1>7, BookOutside

BookAccounting(s) ==
  \/ \E c \in s.custom : Book(s)!CreateAccount(c)
  \/ \E c \in Book(s)!Codes, state \in {"active", "archived"} : Book(s)!SetAccount(c, state)

LEMMA BookAccounts ==
  ASSUME NEW s, BookInv(s), BookAccounting(s)
  PROVE  BookInv(s)' /\ UNCHANGED <<journals, records, pc, job>>
<1>1. UNCHANGED <<journals, records, pc, job>>
  BY DEF BookAccounting, Book!CreateAccount, Book!SetAccount, Book!requestVars
<1>2. BookTables(s, journals, records)
  BY DEF BookInv
<1>3. BookTables(s, journals', records') /\ Grows(journals, journals', records, records')
  BY <1>1, <1>2 DEF Grows
<1> QED
  BY <1>1, <1>3, BookOutside

(* The steps, as the proofs go through them.                               *)
LEMMA BookSteps ==
  ASSUME NEW s, Book(s)!Next
  PROVE  \/ BookAccounting(s)
         \/ \E rec \in s.records : Book(s)!CreateRecord(rec)
         \/ \E w \in s.workers :
              \/ BookReading(s, w)
              \/ Book(s)!DraftCommit(w) \/ Book(s)!PostCommit(w)
              \/ Book(s)!ReverseCommit(w) \/ Book(s)!RecordCommit(w)
BY DEF Book!Next, Book!Keeping, BookReading, BookAccounting

LEMMA BookStep ==
  ASSUME NEW s, Book(s)!BooksAssumption, BookInv(s), Book(s)!Next
  PROVE  BookInv(s)'
BY BookSteps, BookAccounts, BookCreated, BookReads, BookDrafted, BookPosted, BookReversed,
   BookRecorded

LEMMA BookStart ==
  ASSUME NEW s, Book(s)!Init
  PROVE  /\ BookInv(s) /\ DOMAIN journals = {} /\ DOMAIN records = {}
         /\ \A w \in s.workers : pc[w] = "idle"
<1>1. /\ DOMAIN journals = {} /\ DOMAIN records = {}
      /\ pc = [w \in s.workers |-> "idle"] /\ job = [w \in s.workers |-> None]
  BY DEF Book!Init, Book!NoRequests
<1>2. BookTables(s, journals, records)
  BY <1>1, FS_EmptySet DEF BookTables, BooksLevel, BooksFine, PaidAccrued, RecordsOK
<1>3. \A w \in s.workers : BookJob(pc[w], job[w], journals, records, Book(s)!Codes)
  BY <1>1 DEF BookJob
<1> QED
  BY <1>1, <1>2, <1>3 DEF BookInv

LEMMA BookMeans ==
  ASSUME NEW s, Book(s)!BooksAssumption, BookInv(s)
  PROVE  Book(s)!BooksBalance /\ Book(s)!PaidIsAccrued
<1> DEFINE C == Book(s)!Codes
           N == Book(s)!Ledger
<1>1. BooksLevel(journals, C) /\ PaidAccrued(journals) /\ IsFiniteSet(C)
  BY BookCodes DEF BookInv, BookTables
<1>2. N \subseteq DOMAIN journals
  BY DEF Book!Ledger
<1>3. SumsToNothing(journals, N, C)
  <2> HIDE DEF N, C
  <2> QED
    BY <1>1, <1>2, LevelTogether
<1>4. Book(s)!BooksBalance
  <2>1. \A c : Book(s)!BalanceOver(journals, N, c) = BalanceOver(journals, N, c)
    BY BookBooks
  <2>2. [c \in C |-> Book(s)!BalanceOver(journals, N, c)] = [c \in C |-> BalanceOver(journals, N, c)]
    BY <2>1
  <2>3. SumFunction([c \in C |-> Book(s)!BalanceOver(journals, N, c)]) = 0
    BY <1>3, <2>2 DEF SumsToNothing
  <2>4. Book(s)!SumFunction([c \in C |-> Book(s)!BalanceOver(journals, N, c)]) = 0
    BY <2>3, BookSums
  <2> QED
    BY <2>4 DEF Book!BooksBalance
<1>5. Book(s)!PaidIsAccrued
  BY <1>1 DEF PaidAccrued, Book!PaidIsAccrued
<1> QED
  BY <1>4, <1>5

(* For any accounts, entries and records, in every interleaving of drafts, *)
(* postings, reversals and movements of records: the ledger's debits equal *)
(* its credits, and payroll that is paid has been accrued (postJournal,    *)
(* reverseJournal, postFinanceRecord).                                     *)
THEOREM BooksInAnyScene ==
  ASSUME NEW s, Book(s)!BooksAssumption
  PROVE  Book(s)!Spec => [](Book(s)!BooksBalance /\ Book(s)!PaidIsAccrued)
<1> DEFINE Inv == BookInv(s)
           Aim == Book(s)!BooksBalance /\ Book(s)!PaidIsAccrued
<1>1. Book(s)!Init => Inv
  BY BookStart
<1>2. Inv /\ [Book(s)!Next]_(Book(s)!vars) => Inv'
  <2>1. ASSUME Inv, Book(s)!Next PROVE Inv'
    BY <2>1, BookStep
  <2>2. ASSUME Inv, UNCHANGED Book(s)!vars PROVE Inv'
    <3>1. UNCHANGED <<journals, records, pc, job>>
      BY <2>2 DEF Book!vars, Book!rowVars, Book!requestVars
    <3>2. BookTables(s, journals', records') /\ Grows(journals, journals', records, records')
      BY <2>2, <3>1 DEF BookInv, Grows
    <3> QED
      BY <2>2, <3>1, <3>2, BookOutside
  <2> QED
    BY <2>1, <2>2
<1>3. Inv => Aim
  BY BookMeans
<1> HIDE DEF Inv, Aim
<1>4. Book(s)!Spec => []Aim
  BY <1>1, <1>2, <1>3, PTL DEF Book!Spec
<1> QED
  BY <1>4 DEF Aim

--------------------------------------------------------------------------------
(* Books, one request at a time: what is reversed is reversed once.        *)

TurnedOnce(js) ==
  /\ \A m \in DOMAIN js : m[1] = "REV" =>
       /\ m[2] \in DOMAIN js /\ js[m[2]].status = "REVERSED"
       /\ js[m].lines = Mirrored(js[m[2]].lines)
  /\ \A n \in DOMAIN js : js[n].status = "REVERSED" => \E m \in DOMAIN js : m[1] = "REV" /\ m[2] = n
  /\ \A m, o \in DOMAIN js : m[1] = "REV" /\ o[1] = "REV" /\ m[2] = o[2] => m = o

TurnJob(l, x, js) ==
  /\ l = "posting" => js[x.journal].status = "DRAFT"
  /\ l = "reversing" => js[x.journal].status = "POSTED"

TurnInv(s) ==
  /\ BookInv(s) /\ TurnedOnce(journals)
  /\ \A w \in s.workers : TurnJob(pc[w], job[w], journals)

LEMMA TurnedMore ==
  ASSUME NEW js, NEW k, TurnedOnce(js), DOMAIN js \subseteq DOMAIN k,
         \A n \in DOMAIN js : k[n] = js[n],
         \A n \in DOMAIN k \ DOMAIN js : n[1] # "REV" /\ k[n].status # "REVERSED"
  PROVE  TurnedOnce(k)
<1>1. ASSUME NEW m \in DOMAIN k, m[1] = "REV"
      PROVE  /\ m \in DOMAIN js /\ m[2] \in DOMAIN k /\ k[m[2]].status = "REVERSED"
             /\ k[m].lines = Mirrored(k[m[2]].lines)
  BY <1>1 DEF TurnedOnce
<1>2. ASSUME NEW n \in DOMAIN k, k[n].status = "REVERSED"
      PROVE  \E m \in DOMAIN k : m[1] = "REV" /\ m[2] = n
  BY <1>2 DEF TurnedOnce
<1>3. \A m, o \in DOMAIN k : m[1] = "REV" /\ o[1] = "REV" /\ m[2] = o[2] => m = o
  BY <1>1 DEF TurnedOnce
<1> QED
  BY <1>1, <1>2, <1>3 DEF TurnedOnce

LEMMA TurnedPosted ==
  ASSUME NEW js, NEW k, NEW n \in DOMAIN js, TurnedOnce(js), Restatus(js, k, n, "POSTED"),
         js[n].status = "DRAFT"
  PROVE  TurnedOnce(k)
<1>1. k[n].status = "POSTED" /\ k[n].lines = js[n].lines
  <2>1. k[n] = [lines |-> js[n].lines, status |-> "POSTED"]
    BY DEF Restatus
  <2> QED
    BY <2>1
<1>2. DOMAIN k = DOMAIN js /\ \A m \in DOMAIN js : m # n => k[m] = js[m]
  BY DEF Restatus
<1>3. \A m \in DOMAIN js : /\ k[m].lines = js[m].lines
                           /\ k[m].status = "REVERSED" <=> js[m].status = "REVERSED"
  BY <1>1, <1>2
<1> QED
  BY <1>2, <1>3 DEF TurnedOnce

LEMMA TurnedBack ==
  ASSUME NEW js, NEW k, NEW n \in DOMAIN js, NEW c, TurnedOnce(js),
         MirrorEntered(js, k, n, ReversalNumber(n, c)), js[n].status = "POSTED"
  PROVE  TurnedOnce(k)
<1>1. PICK m : m = ReversalNumber(n, c)
  OBVIOUS
<1>2. m[1] = "REV" /\ m[2] = n
  BY <1>1 DEF ReversalNumber
<1>3. m \notin DOMAIN js /\ m # n
  BY <1>2 DEF TurnedOnce
<1>4. PICK t : Restatus(js, t, n, "REVERSED") /\ k = Entered(t, m, MirrorOf(js[n]))
  BY <1>1 DEF MirrorEntered
<1>5. DOMAIN t = DOMAIN js /\ t[n] = [lines |-> js[n].lines, status |-> "REVERSED"]
      /\ \A o \in DOMAIN js : o # n => t[o] = js[o]
  BY <1>4 DEF Restatus
<1>6. t[n].lines = js[n].lines /\ t[n].status = "REVERSED"
  BY <1>5
<1>7. DOMAIN k = DOMAIN js \union {m} /\ k[m] = MirrorOf(js[n])
      /\ \A o \in DOMAIN js : k[o] = t[o]
  BY <1>3, <1>4, <1>5 DEF Entered
<1>8. k[m].lines = Mirrored(js[n].lines) /\ k[m].status = "POSTED"
  BY <1>7 DEF MirrorOf
<1>9. \A o \in DOMAIN js : /\ k[o].lines = js[o].lines
                           /\ k[o].status = "REVERSED" <=> js[o].status = "REVERSED" \/ o = n
  BY <1>5, <1>6, <1>7
<1>10. \A o \in DOMAIN js : o[1] = "REV" => o[2] # n
  BY DEF TurnedOnce
<1>11. ASSUME NEW o \in DOMAIN k, o[1] = "REV"
       PROVE  /\ o[2] \in DOMAIN k /\ k[o[2]].status = "REVERSED"
              /\ k[o].lines = Mirrored(k[o[2]].lines)
  <2>1. CASE o = m
    BY <1>2, <1>7, <1>8, <1>9, <2>1
  <2>2. CASE o \in DOMAIN js
    BY <1>7, <1>9, <1>11, <2>2 DEF TurnedOnce
  <2> QED
    BY <1>7, <2>1, <2>2
<1>12. ASSUME NEW o \in DOMAIN k, k[o].status = "REVERSED"
       PROVE  \E p \in DOMAIN k : p[1] = "REV" /\ p[2] = o
  <2>1. CASE o = n
    BY <1>2, <1>7, <2>1
  <2>2. CASE o # n
    <3>1. o \in DOMAIN js /\ js[o].status = "REVERSED"
      BY <1>7, <1>8, <1>9, <1>12, <2>2
    <3>2. PICK p \in DOMAIN js : p[1] = "REV" /\ p[2] = o
      BY <3>1 DEF TurnedOnce
    <3> QED
      BY <1>7, <3>2
  <2> QED
    BY <2>1, <2>2
<1>13. ASSUME NEW o \in DOMAIN k, NEW p \in DOMAIN k, o[1] = "REV", p[1] = "REV", o[2] = p[2]
       PROVE  o = p
  BY <1>2, <1>7, <1>10, <1>13 DEF TurnedOnce
<1> QED
  BY <1>11, <1>12, <1>13 DEF TurnedOnce

LEMMA RecordPostedMore ==
  ASSUME NEW js, NEW k, NEW r, NEW v \in Nat, NEW t, RecordPosted(js, k, r, v, t)
  PROVE  /\ DOMAIN js \subseteq DOMAIN k /\ \A n \in DOMAIN js : k[n] = js[n]
         /\ \A n \in DOMAIN k \ DOMAIN js : n[1] # "REV" /\ k[n].status # "REVERSED"
<1>1. ASSUME NEW n \in DOMAIN k \ DOMAIN js PROVE n[1] # "REV" /\ k[n].status # "REVERSED"
  <2>1. PICK e \in KindsDue(r, t) : n = <<e, r>>
    BY DEF RecordPosted, NumbersDue
  <2>2. PostedFor(k[n], e, v)
    BY <2>1 DEF RecordPosted
  <2>3. k[n].status = "POSTED"
    BY <2>2 DEF PostedFor, PairJournal
  <2>4. n[1] = e /\ e # "REV"
    BY <2>1 DEF KindsDue
  <2> QED
    BY <2>3, <2>4
<1> QED
  BY <1>1 DEF RecordPosted

LEMMA TurnKept ==
  ASSUME NEW s, NEW w \in s.workers, NEW l, NEW x, OneByOne(s), BookInv(s), BookInv(s)',
         Book(s)!Turn(w, l, x), TurnJob(l, x, journals'), TurnedOnce(journals')
  PROVE  TurnInv(s)'
<1>1. ASSUME NEW v \in s.workers PROVE TurnJob(pc'[v], job'[v], journals')
  BY BookTurn DEF OneByOne
<1> QED
  BY <1>1 DEF TurnInv

LEMMA TurnCommits ==
  ASSUME NEW s, NEW w \in s.workers, OneByOne(s), BookInv(s), BookInv(s)', Book(s)!Done(w),
         TurnedOnce(journals')
  PROVE  TurnInv(s)'
<1>1. Book(s)!Turn(w, "idle", None) /\ TurnJob("idle", None, journals')
  BY DEF Book!Done, TurnJob
<1> QED
  BY <1>1, TurnKept

LEMMA TurnOutside ==
  ASSUME NEW s, TurnInv(s), BookInv(s)', UNCHANGED <<pc, job>>, TurnedOnce(journals'),
         \A n \in DOMAIN journals : journals'[n] = journals[n]
  PROVE  TurnInv(s)'
<1>1. ASSUME NEW w \in s.workers PROVE TurnJob(pc'[w], job'[w], journals')
  <2>1. /\ TurnJob(pc[w], job[w], journals)
        /\ BookJob(pc[w], job[w], journals, records, Book(s)!Codes)
    BY DEF TurnInv, BookInv
  <2> QED
    BY <2>1 DEF TurnJob, BookJob
<1> QED
  BY <1>1 DEF TurnInv

LEMMA TurnReads ==
  ASSUME NEW s, NEW w \in s.workers, OneByOne(s), Book(s)!BooksAssumption, TurnInv(s),
         BookReading(s, w)
  PROVE  TurnInv(s)'
<1>0. /\ BookInv(s) /\ BookInv(s)' /\ UNCHANGED <<journals, records>>
      /\ TurnedOnce(journals)
  BY BookReads DEF TurnInv
<1>1. ASSUME NEW l, NEW x, Book(s)!Turn(w, l, x), TurnJob(l, x, journals)
      PROVE  TurnInv(s)'
  BY <1>0, <1>1, TurnKept
<1>2. CASE \E e \in s.entries : Book(s)!DraftRead(w, e)
  <2>1. PICK e \in s.entries : Book(s)!DraftRead(w, e)
    BY <1>2
  <2>2. Book(s)!Turn(w, "drafting", e) /\ TurnJob("drafting", e, journals)
    BY <2>1 DEF Book!DraftRead, TurnJob
  <2> QED
    BY <1>1, <2>2
<1>3. CASE \E n \in DOMAIN journals : Book(s)!PostRead(w, n)
  <2>1. PICK n \in DOMAIN journals : Book(s)!PostRead(w, n)
    BY <1>3
  <2>2. PICK x : x = [journal |-> n]
    OBVIOUS
  <2>3. Book(s)!Turn(w, "posting", x) /\ journals[n].status = "DRAFT" /\ x.journal = n
    BY <2>1, <2>2 DEF Book!PostRead
  <2>4. TurnJob("posting", x, journals)
    BY <2>3 DEF TurnJob
  <2> QED
    BY <1>1, <2>3, <2>4
<1>4. CASE \E n \in DOMAIN journals : /\ Book(s)!Turn(w, "reversing", [journal |-> n])
                                      /\ journals[n].status = "POSTED"
  <2>1. PICK n \in DOMAIN journals : /\ Book(s)!Turn(w, "reversing", [journal |-> n])
                                     /\ journals[n].status = "POSTED"
    BY <1>4
  <2>2. PICK x : x = [journal |-> n]
    OBVIOUS
  <2>3. Book(s)!Turn(w, "reversing", x) /\ x.journal = n
    BY <2>1, <2>2
  <2>4. TurnJob("reversing", x, journals)
    BY <2>1, <2>3 DEF TurnJob
  <2> QED
    BY <1>1, <2>3, <2>4
<1>5. CASE \E r \in DOMAIN records : \E t : Book(s)!Turn(w, "moving", [record |-> r, status |-> t])
  <2>1. PICK x : Book(s)!Turn(w, "moving", x)
    BY <1>5
  <2>2. TurnJob("moving", x, journals)
    BY DEF TurnJob
  <2> QED
    BY <1>1, <2>1, <2>2
<1>6. CASE Book(s)!Done(w)
  BY <1>0, <1>6, TurnCommits
<1>7. BookInv(s)
  BY <1>0
<1> QED
  BY <1>2, <1>3, <1>4, <1>5, <1>6, <1>7, BookReads

LEMMA TurnStep ==
  ASSUME NEW s, OneByOne(s), Book(s)!BooksAssumption, TurnInv(s), Book(s)!Next
  PROVE  TurnInv(s)'
<1>0. BookInv(s) /\ TurnedOnce(journals)
  BY DEF TurnInv
<1>1. CASE BookAccounting(s)
  BY <1>0, <1>1, BookAccounts, TurnOutside
<1>2. ASSUME NEW rec \in s.records, Book(s)!CreateRecord(rec) PROVE TurnInv(s)'
  <2>1. /\ BookInv(s)' /\ UNCHANGED <<pc, job>> /\ rec.amount \in Nat
        /\ RecordPosted(journals, journals', RecordKey(rec), rec.amount, rec.status)
    BY <1>0, <1>2, BookCreated
  <2>2. TurnedOnce(journals') /\ \A n \in DOMAIN journals : journals'[n] = journals[n]
    BY <1>0, <2>1, RecordPostedMore, TurnedMore
  <2> QED
    BY <2>1, <2>2, TurnOutside
<1>3. ASSUME NEW w \in s.workers,
             \/ BookReading(s, w)
             \/ Book(s)!DraftCommit(w) \/ Book(s)!PostCommit(w)
             \/ Book(s)!ReverseCommit(w) \/ Book(s)!RecordCommit(w)
      PROVE  TurnInv(s)'
  <2>0. TurnJob(pc[w], job[w], journals)
    BY DEF TurnInv
  <2>1. CASE BookReading(s, w)
    BY <2>1, TurnReads
  <2>2. CASE Book(s)!DraftCommit(w)
    <3>1. PICK n, j : n = ManualNumber(job[w].ref) /\ j = DraftOf(job[w])
      OBVIOUS
    <3>2. n[1] # "REV" /\ j.status = "DRAFT"
      BY <3>1 DEF ManualNumber, DraftOf
    <3>3. /\ BookInv(s)' /\ Book(s)!Done(w)
          /\ n \notin DOMAIN journals /\ journals' = Entered(journals, n, j)
      BY <1>0, <2>2, <3>1, BookDrafted
    <3>4. /\ DOMAIN journals' = DOMAIN journals \union {n} /\ journals'[n] = j
          /\ \A m \in DOMAIN journals : journals'[m] = journals[m]
      BY <3>3 DEF Entered
    <3>5. /\ DOMAIN journals \subseteq DOMAIN journals'
          /\ \A m \in DOMAIN journals' \ DOMAIN journals : m[1] # "REV" /\ journals'[m].status # "REVERSED"
      BY <3>2, <3>4
    <3>6. TurnedOnce(journals')
      BY <1>0, <3>4, <3>5, TurnedMore
    <3> QED
      BY <1>0, <3>3, <3>6, TurnCommits
  <2>3. CASE Book(s)!PostCommit(w)
    <3>1. /\ BookInv(s)' /\ Book(s)!Done(w) /\ pc[w] = "posting" /\ job[w].journal \in DOMAIN journals
          /\ Restatus(journals, journals', job[w].journal, "POSTED")
      BY <1>0, <2>3, BookPosted
    <3>2. journals[job[w].journal].status = "DRAFT"
      BY <2>0, <3>1 DEF TurnJob
    <3>3. TurnedOnce(journals')
      BY <1>0, <3>1, <3>2, TurnedPosted
    <3> QED
      BY <1>0, <3>1, <3>3, TurnCommits
  <2>4. CASE Book(s)!ReverseCommit(w)
    <3>1. PICK n, c : n = job[w].journal /\ c = Book(s)!Reversals + 1
      OBVIOUS
    <3>2. /\ BookInv(s)' /\ Book(s)!Done(w) /\ pc[w] = "reversing" /\ n \in DOMAIN journals
          /\ MirrorEntered(journals, journals', n, ReversalNumber(n, c))
      BY <1>0, <2>4, <3>1, BookReversed
    <3>3. journals[n].status = "POSTED"
      BY <2>0, <3>1, <3>2 DEF TurnJob
    <3>4. TurnedOnce(journals')
      BY <1>0, <3>2, <3>3, TurnedBack
    <3> QED
      BY <1>0, <3>2, <3>4, TurnCommits
  <2>5. CASE Book(s)!RecordCommit(w)
    <3>1. PICK r, v, t : r = job[w].record /\ t = job[w].status /\ v = records[r].amount
      OBVIOUS
    <3>2. /\ BookInv(s)' /\ Book(s)!Done(w)
          /\ RecordMoved(records, records', r, t) /\ RecordPosted(journals, journals', r, v, t)
      BY <1>0, <2>5, <3>1, BookRecorded
    <3>3. v \in Nat
      BY <1>0, <3>1, <3>2 DEF RecordMoved, BookInv, BookTables, RecordsOK, RecordRowOK
    <3>4. TurnedOnce(journals')
      BY <1>0, <3>2, <3>3, RecordPostedMore, TurnedMore
    <3> QED
      BY <1>0, <3>2, <3>4, TurnCommits
  <2> QED
    BY <1>3, <2>1, <2>2, <2>3, <2>4, <2>5
<1> QED
  BY <1>1, <1>2, <1>3, BookSteps

LEMMA TurnStart ==
  ASSUME NEW s, Book(s)!Init
  PROVE  TurnInv(s)
BY BookStart DEF TurnInv, TurnedOnce, TurnJob

LEMMA TurnMeans ==
  ASSUME NEW s, TurnInv(s)
  PROVE  Book(s)!ReversedOnceEach
<1> DEFINE Back(n) == {m \in DOMAIN journals : Book(s)!IsReversal(m) /\ m[2] = n}
<1>0. TurnedOnce(journals) /\ BooksFine(journals)
  BY DEF TurnInv, BookInv, BookTables, BooksLevel
<1>1. \A m : Book(s)!IsReversal(m) <=> m[1] = "REV"
  BY DEF Book!IsReversal
<1>2. ASSUME NEW n \in DOMAIN journals
      PROVE  Cardinality(Back(n)) = IF journals[n].status = "REVERSED" THEN 1 ELSE 0
  <2>1. CASE journals[n].status = "REVERSED"
    <3>1. PICK m \in DOMAIN journals : m[1] = "REV" /\ m[2] = n
      BY <1>0, <2>1 DEF TurnedOnce
    <3>2. Back(n) = {m}
      BY <1>0, <1>1, <3>1 DEF TurnedOnce
    <3> QED
      BY <2>1, <3>2, FS_Singleton
  <2>2. CASE journals[n].status # "REVERSED"
    <3>1. Back(n) = {}
      BY <1>0, <1>1, <2>2 DEF TurnedOnce
    <3> QED
      BY <2>2, <3>1, FS_EmptySet
  <2> QED
    BY <2>1, <2>2
<1>3. ASSUME NEW n \in DOMAIN journals, NEW m \in Back(n), NEW c
      PROVE  Movement(journals[m], c) = - Movement(journals[n], c)
  <2>1. m \in DOMAIN journals /\ journals[m].lines = Mirrored(journals[n].lines)
    BY <1>0, <1>1, <1>3 DEF TurnedOnce
  <2>2. LinesOK(journals[n].lines)
    BY <1>0 DEF BooksFine, JournalOK
  <2>3. PICK j, k : j = journals[n] /\ k = journals[m]
    OBVIOUS
  <2>4. Movement(k, c) = - Movement(j, c)
    BY ONLY <2>1, <2>2, <2>3, MoveMirrored
  <2> QED
    BY <2>3, <2>4
<1>4. \A n \in DOMAIN journals : Book(s)!Cardinality(Back(n)) = Cardinality(Back(n))
  BY BookSums
<1>5. \A j, c : Book(s)!Movement(j, c) = Movement(j, c)
  BY BookBooks
<1>6. Book(s)!ReversedOnceEach <=>
        \A n \in DOMAIN journals :
          /\ Book(s)!Cardinality(Back(n)) = IF journals[n].status = "REVERSED" THEN 1 ELSE 0
          /\ \A m \in Back(n), c \in Book(s)!Codes :
               Book(s)!Movement(journals[m], c) = - Book(s)!Movement(journals[n], c)
  BY Zenon DEF Book!ReversedOnceEach
<1> HIDE DEF Back
<1> QED
  BY ONLY <1>2, <1>3, <1>4, <1>5, <1>6

--------------------------------------------------------------------------------
(* Books, assets one at a time: account 1200 against the assets held.      *)

(* Some journals more move a balance by what they move together.           *)
ExtendedBy(js, k, U) ==
  /\ DOMAIN k = DOMAIN js \union U /\ U \intersect DOMAIN js = {}
  /\ \A n \in DOMAIN js : k[n] = js[n]

LEMMA BooksMore ==
  ASSUME NEW js, NEW k, NEW U, NEW a, BooksFine(js), BooksFine(k), ExtendedBy(js, k, U)
  PROVE  /\ Balance(js, a) \in Int /\ BalanceOver(k, U, a) \in Int
         /\ Balance(k, a) = Balance(js, a) + BalanceOver(k, U, a)
<1> DEFINE f == [n \in DOMAIN js |-> Movement(js[n], a)]
           g == [n \in DOMAIN k |-> Movement(k[n], a)]
           h == [n \in U |-> Movement(k[n], a)]
           D == DOMAIN js
<1>1. /\ Balance(js, a) = SumFunctionOnSet(f, D) /\ BalanceOver(k, U, a) = SumFunctionOnSet(h, U)
      /\ Balance(k, a) = SumFunctionOnSet(g, D \union U)
  BY DEF ExtendedBy, Balance, BalanceOver, SumFunction
<1> USE DEF ExtendedBy
<1>2. IsFiniteSet(D) /\ IsFiniteSet(U) /\ U \intersect D = {}
  BY FS_Subset DEF BooksFine
<1>3. \A n \in DOMAIN k : g[n] \in Int
  BY MoveType DEF BooksFine, JournalOK
<1>4. (\A n \in D : f[n] = g[n]) /\ \A n \in U : h[n] = g[n]
  OBVIOUS
<1>5. \A n \in D \union U : g[n] \in Int
  BY <1>3
<1> HIDE DEF f, g, h, D
<1>6. SumFunctionOnSet(g, D \union U) = SumFunctionOnSet(g, D) + SumFunctionOnSet(g, U)
  BY <1>2, <1>5, SumUnion
<1>7. SumFunctionOnSet(f, D) = SumFunctionOnSet(g, D) /\ SumFunctionOnSet(h, U) = SumFunctionOnSet(g, U)
  BY <1>2, <1>4, SumSame
<1>8. SumFunctionOnSet(g, D) \in Int /\ SumFunctionOnSet(g, U) \in Int
  BY <1>2, <1>5, SumType
<1> QED
  BY <1>1, <1>6, <1>7, <1>8

LEMMA PostedMoves ==
  ASSUME NEW j, NEW k, NEW v \in Nat, PostedFor(j, k, v)
  PROVE  /\ LinesOK(j.lines)
         /\ Movement(j, "1200") = IF k = "ASSET" THEN v ELSE IF k = "DISPOSAL" THEN - v ELSE 0
<1>1. PICK d, c : DueAs(k, d, c) /\ j = PairJournal(d, c, v)
  BY DEF PostedFor
<1>2. d # c
  BY <1>1 DEF DueAs
<1>3. j.lines = Normalized(Pair(d, c, v))
  BY <1>1 DEF PairJournal
<1>4. LinesOK(j.lines) /\ Movement(j, "1200") = PairMove(d, c, v, "1200")
  BY <1>2, <1>3, MoveOfPair
<1>5. PairMove(d, c, v, "1200") = IF k = "ASSET" THEN v ELSE IF k = "DISPOSAL" THEN - v ELSE 0
  BY <1>1 DEF DueAs, PairMove
<1> QED
  BY <1>4, <1>5

NumbersNew(js, r, t) == NumbersDue(r, t) \ DOMAIN js

(* What an asset's, or another's, new status does to account 1200.         *)
LEMMA AssetMoves ==
  ASSUME NEW js, NEW k, NEW r, NEW v \in Nat, NEW t, BooksFine(js), BooksFine(k),
         RecordPosted(js, k, r, v, t)
  PROVE  /\ Balance(js, "1200") \in Int
         /\ \/ /\ <<"ASSET", r>> \notin NumbersNew(js, r, t)
               /\ <<"DISPOSAL", r>> \notin NumbersNew(js, r, t)
               /\ Balance(k, "1200") = Balance(js, "1200")
            \/ /\ NumbersNew(js, r, t) = {<<"ASSET", r>>}
               /\ Balance(k, "1200") = Balance(js, "1200") + v
            \/ /\ NumbersNew(js, r, t) = {<<"DISPOSAL", r>>}
               /\ Balance(k, "1200") = Balance(js, "1200") - v
<1> DEFINE U == NumbersNew(js, r, t)
           h == [n \in U |-> Movement(k[n], "1200")]
<1>1. /\ Balance(js, "1200") \in Int /\ BalanceOver(k, U, "1200") \in Int
      /\ Balance(k, "1200") = Balance(js, "1200") + BalanceOver(k, U, "1200")
  <2>1. DOMAIN k = DOMAIN js \union U /\ U \intersect DOMAIN js = {}
    BY DEF RecordPosted, NumbersNew
  <2>2. \A n \in DOMAIN js : k[n] = js[n]
    BY DEF RecordPosted
  <2>3. ExtendedBy(js, k, U)
    BY <2>1, <2>2 DEF ExtendedBy
  <2> HIDE DEF U
  <2> QED
    BY <2>3, BooksMore
<1>2. BalanceOver(k, U, "1200") = SumFunctionOnSet(h, U)
  BY DEF BalanceOver, SumFunction
<1>3. ASSUME NEW e \in KindsDue(r, t), <<e, r>> \in U
      PROVE  h[<<e, r>>] = IF e = "ASSET" THEN v ELSE IF e = "DISPOSAL" THEN - v ELSE 0
  <2>1. PostedFor(k[<<e, r>>], e, v)
    BY <1>3 DEF RecordPosted, NumbersNew
  <2>2. PICK j : j = k[<<e, r>>]
    OBVIOUS
  <2>3. Movement(j, "1200") = IF e = "ASSET" THEN v ELSE IF e = "DISPOSAL" THEN - v ELSE 0
    BY <2>1, <2>2, PostedMoves
  <2> QED
    BY <1>3, <2>2, <2>3
<1>4. \A n \in U : \E e \in KindsDue(r, t) : n = <<e, r>>
  BY DEF NumbersNew, NumbersDue
<1>5. ASSUME NEW e \in {"ASSET", "DISPOSAL"}, <<e, r>> \in U
      PROVE  U = {<<e, r>>} /\ e \in KindsDue(r, t)
  <2>1. e \in KindsDue(r, t)
    BY <1>4, <1>5
  <2>2. \A d \in KindsDue(r, t) : d = e
    BY <2>1 DEF KindsDue
  <2> QED
    BY <1>4, <1>5, <2>1, <2>2
<1>6. ASSUME NEW e \in {"ASSET", "DISPOSAL"}, <<e, r>> \in U
      PROVE  /\ U = {<<e, r>>}
             /\ BalanceOver(k, U, "1200") = IF e = "ASSET" THEN v ELSE - v
  <2>1. U = {<<e, r>>} /\ e \in KindsDue(r, t)
    BY <1>5, <1>6
  <2>2. PICK n : n = <<e, r>>
    OBVIOUS
  <2>3. h[n] = (IF e = "ASSET" THEN v ELSE - v) /\ h[n] \in Int
    BY <1>3, <1>6, <2>1, <2>2
  <2> HIDE DEF h
  <2>4. SumFunctionOnSet(h, {} \union {n}) = h[n] + SumFunctionOnSet(h, {})
    <3>1. \A y \in {} \union {n} : h[y] \in Int
      BY <2>3
    <3> QED
      BY <3>1, SumAdd, FS_EmptySet
  <2>5. U = {} \union {n}
    BY <2>1, <2>2
  <2>6. SumFunctionOnSet(h, U) = h[n]
    BY <2>3, <2>4, <2>5, SumEmpty
  <2> QED
    BY <1>2, <2>1, <2>3, <2>6
<1>7. ASSUME <<"ASSET", r>> \notin U, <<"DISPOSAL", r>> \notin U
      PROVE  BalanceOver(k, U, "1200") = 0
  <2>1. ASSUME NEW n \in U PROVE h[n] = 0
    <3>1. PICK e \in KindsDue(r, t) : n = <<e, r>>
      BY <1>4
    <3>2. e # "ASSET" /\ e # "DISPOSAL"
      BY <1>7, <3>1
    <3> HIDE DEF h
    <3> QED
      BY <1>3, <3>1, <3>2
  <2>2. IsFiniteSet(U)
    <3>1. U \subseteq DOMAIN k /\ IsFiniteSet(DOMAIN k)
      BY DEF NumbersNew, RecordPosted, BooksFine
    <3> HIDE DEF U
    <3> QED
      BY <3>1, FS_Subset
  <2> HIDE DEF h, U
  <2> QED
    BY <1>2, <2>1, <2>2, SumZero
<1>8. CASE <<"ASSET", r>> \in U
  <2>1. U = {<<"ASSET", r>>} /\ BalanceOver(k, U, "1200") = v
    BY <1>6, <1>8
  <2> QED
    BY <1>1, <2>1
<1>9. CASE <<"DISPOSAL", r>> \in U
  <2>1. U = {<<"DISPOSAL", r>>} /\ BalanceOver(k, U, "1200") = - v
    BY <1>6, <1>9
  <2> QED
    BY <1>1, <2>1
<1>10. CASE <<"ASSET", r>> \notin U /\ <<"DISPOSAL", r>> \notin U
  BY <1>1, <1>7, <1>10
<1> QED
  BY <1>8, <1>9, <1>10

HeldStatuses == {"ACTIVE", "APPROVED", "PAID", "CLOSED"}
Held(rs) == {r \in DOMAIN rs : r[1] = "ASSET" /\ rs[r].status \in HeldStatuses}

AssetTables(js, rs) ==
  /\ \A n \in DOMAIN js : js[n].status = "POSTED"
  /\ \A r : \/ r \notin DOMAIN rs /\ <<"ASSET", r>> \notin DOMAIN js /\ <<"DISPOSAL", r>> \notin DOMAIN js
            \/ r \in DOMAIN rs /\ r[1] # "ASSET"
            \/ /\ r \in DOMAIN rs /\ r[1] = "ASSET"
               /\ <<"ASSET", r>> \in DOMAIN js <=> rs[r].status \in HeldStatuses \union {"DISPOSED"}
               /\ <<"DISPOSAL", r>> \in DOMAIN js <=> rs[r].status = "DISPOSED"
  /\ Balance(js, "1200") = RowSum(rs, Held(rs))

(* The moves of a status.                                                  *)
MayMove(c, t) ==
  \/ c \in {"DRAFT", "PENDING"} /\ t \in {"ACTIVE", "APPROVED", "CANCELLED", "REJECTED"}
  \/ c = "ACTIVE" /\ t \in {"CLOSED", "DISPOSED"}
  \/ c = "APPROVED" /\ t \in {"PAID", "CLOSED"}
  \/ c = "PAID" /\ t = "CLOSED"

LEMMA BookAllows ==
  ASSUME NEW s, NEW c, NEW t \in Book(s)!Allows(c)
  PROVE  MayMove(c, t)
BY DEF Book!Allows, MayMove

AssetJob(l, x, rs) ==
  /\ l # "drafting" /\ l # "posting"
  /\ l = "moving" => MayMove(rs[x.record].status, x.status)

AssetInv(s) ==
  /\ BookInv(s) /\ AssetTables(journals, records)
  /\ \A w \in s.workers : AssetJob(pc[w], job[w], records)

(* Nothing is posted or reversed by hand, and assets are entered before    *)
(* they are disposed of or closed.                                         *)
AssetScene(s) ==
  /\ OneByOne(s) /\ s.entries = {} /\ s.reversals = 0
  /\ \A rec \in s.records : rec.status \notin {"DISPOSED", "CLOSED"}

LEMMA HeldSum ==
  ASSUME NEW rs, RecordsOK(rs)
  PROVE  /\ IsFiniteSet(Held(rs)) /\ RowSum(rs, Held(rs)) \in Int
         /\ \A r \in DOMAIN rs : rs[r].amount \in Nat
<1>1. IsFiniteSet(DOMAIN rs) /\ Held(rs) \subseteq DOMAIN rs /\ \A r \in DOMAIN rs : rs[r].amount \in Nat
  BY DEF RecordsOK, RecordRowOK, Held
<1>2. IsFiniteSet(Held(rs))
  BY <1>1, FS_Subset
<1>3. \A r \in Held(rs) : rs[r].amount \in Int
  BY <1>1
<1> QED
  BY <1>1, <1>2, <1>3, RowsType

(* One record of another status, or a new one.                             *)
RecordSet(rs, qs, r, v, t) ==
  /\ DOMAIN qs = DOMAIN rs \union {r} /\ qs[r].status = t /\ qs[r].amount = v /\ v \in Nat
  /\ \A q \in DOMAIN rs : qs[q].amount = rs[q].amount
  /\ \A q \in DOMAIN rs : q # r => qs[q].status = rs[q].status

LEMMA RecordSets ==
  ASSUME NEW rs, NEW qs, NEW r, NEW v \in Nat, NEW t, RecordsOK(rs),
         (RecordMoved(rs, qs, r, t) /\ v = rs[r].amount) \/ RecordNew(rs, qs, r, v, t)
  PROVE  RecordSet(rs, qs, r, v, t)
<1>1. CASE RecordMoved(rs, qs, r, t) /\ v = rs[r].amount
  <2>1. qs[r] = [amount |-> v, status |-> t]
    BY <1>1 DEF RecordMoved
  <2>2. qs[r].amount = v /\ qs[r].status = t
    BY <2>1
  <2> QED
    BY <1>1, <2>2 DEF RecordMoved, RecordSet
<1>2. CASE RecordNew(rs, qs, r, v, t)
  <2>1. qs[r] = [amount |-> v, status |-> t]
    BY <1>2 DEF RecordNew
  <2>2. qs[r].amount = v /\ qs[r].status = t
    BY <2>1
  <2> QED
    BY <1>2, <2>2 DEF RecordNew, RecordSet
<1> QED
  BY <1>1, <1>2

LEMMA HeldMoves ==
  ASSUME NEW rs, NEW qs, NEW r, NEW v, NEW t, RecordsOK(rs), RecordSet(rs, qs, r, v, t)
  PROVE  /\ r \in Held(qs) /\ r \notin Held(rs) => RowSum(qs, Held(qs)) = RowSum(rs, Held(rs)) + v
         /\ r \notin Held(qs) /\ r \in Held(rs) => RowSum(qs, Held(qs)) = RowSum(rs, Held(rs)) - v
         /\ (r \in Held(qs) <=> r \in Held(rs)) => RowSum(qs, Held(qs)) = RowSum(rs, Held(rs))
<1>1. IsFiniteSet(Held(rs)) /\ \A q \in DOMAIN rs : rs[q].amount \in Nat
  BY HeldSum
<1>2. \A q : q # r => (q \in Held(qs) <=> q \in Held(rs))
  BY DEF Held, RecordSet
<1>3. SameRows(rs, qs, Held(rs)) /\ \A y \in Held(rs) : qs[y].amount = rs[y].amount
  <2>1. Held(rs) \subseteq DOMAIN rs
    BY DEF Held
  <2> QED
    BY <1>1, <2>1 DEF SameRows, RecordSet
<1>4. RowIs(qs, r, v)
  BY DEF RowIs, RecordSet
<1>5. ASSUME r \in Held(qs), r \notin Held(rs)
      PROVE  RowSum(qs, Held(qs)) = RowSum(rs, Held(rs)) + v
  <2>1. OneMore(Held(qs), Held(rs), r)
    BY <1>2, <1>5 DEF OneMore
  <2> QED
    BY <1>1, <1>3, <1>4, <2>1, RowsAdd
<1>6. ASSUME r \notin Held(qs), r \in Held(rs)
      PROVE  RowSum(qs, Held(qs)) = RowSum(rs, Held(rs)) - v
  <2>1. OneMore(Held(rs), Held(qs), r)
    BY <1>2, <1>6 DEF OneMore
  <2>2. SameRows(rs, qs, Held(qs))
    BY <1>3, <2>1 DEF SameRows, OneMore
  <2>3. RowIs(rs, r, v)
    BY <1>6 DEF RowIs, RecordSet, Held
  <2> QED
    BY <1>1, <2>1, <2>2, <2>3, RowsRemove
<1>7. ASSUME r \in Held(qs) <=> r \in Held(rs)
      PROVE  RowSum(qs, Held(qs)) = RowSum(rs, Held(rs))
  <2>1. Held(qs) = Held(rs)
    BY <1>2, <1>7
  <2> QED
    BY <1>3, <2>1, RowsSame
<1> QED
  BY <1>5, <1>6, <1>7

LEMMA AssetMoved ==
  ASSUME NEW js, NEW k, NEW rs, NEW qs, NEW r, NEW v, NEW t,
         AssetTables(js, rs), RecordsOK(rs), BooksFine(js), BooksFine(k), v \in Nat,
         RecordPosted(js, k, r, v, t), RecordSet(rs, qs, r, v, t),
         \/ r \in DOMAIN rs /\ MayMove(rs[r].status, t)
         \/ r \notin DOMAIN rs /\ t \notin {"DISPOSED", "CLOSED"}
  PROVE  AssetTables(k, qs)
<1> DEFINE A == {"ACTIVE", "APPROVED", "PAID"}
<1>1. \A n \in DOMAIN k : k[n].status = "POSTED"
  <2>1. ASSUME NEW n \in DOMAIN k, n \notin DOMAIN js PROVE k[n].status = "POSTED"
    <3>1. PICK e \in KindsDue(r, t) : n = <<e, r>>
      BY <2>1 DEF RecordPosted, NumbersDue
    <3>2. PostedFor(k[n], e, v)
      BY <2>1, <3>1 DEF RecordPosted
    <3> QED
      BY <3>2 DEF PostedFor, PairJournal
  <2> QED
    BY <2>1 DEF RecordPosted, AssetTables
<1>2. \A n : n \in DOMAIN k <=> n \in DOMAIN js \/ n \in NumbersDue(r, t)
  BY DEF RecordPosted
<1>3. ASSUME NEW q, q # r
      PROVE  /\ <<"ASSET", q>> \in DOMAIN k <=> <<"ASSET", q>> \in DOMAIN js
             /\ <<"DISPOSAL", q>> \in DOMAIN k <=> <<"DISPOSAL", q>> \in DOMAIN js
  <2>1. ASSUME NEW e PROVE <<e, q>> \notin NumbersDue(r, t)
    BY <1>3 DEF NumbersDue
  <2> QED
    BY <1>2, <2>1
<1>4. /\ <<"ASSET", r>> \in NumbersDue(r, t) <=> r[1] = "ASSET" /\ t \in A
      /\ <<"DISPOSAL", r>> \in NumbersDue(r, t) <=> r[1] = "ASSET" /\ t = "DISPOSED"
  <2>1. ASSUME NEW e PROVE <<e, r>> \in NumbersDue(r, t) <=> e \in KindsDue(r, t)
    BY DEF NumbersDue
  <2> QED
    BY <2>1 DEF KindsDue
<1>5. /\ r \in DOMAIN qs /\ qs[r].status = t
      /\ r \in Held(qs) <=> r[1] = "ASSET" /\ t \in HeldStatuses
      /\ r \in Held(rs) <=> r \in DOMAIN rs /\ r[1] = "ASSET" /\ rs[r].status \in HeldStatuses
  BY DEF Held, RecordSet
<1>6. \/ r \notin DOMAIN rs /\ <<"ASSET", r>> \notin DOMAIN js /\ <<"DISPOSAL", r>> \notin DOMAIN js
      \/ r \in DOMAIN rs /\ r[1] # "ASSET"
      \/ /\ r \in DOMAIN rs /\ r[1] = "ASSET"
         /\ <<"ASSET", r>> \in DOMAIN js <=> rs[r].status \in HeldStatuses \union {"DISPOSED"}
         /\ <<"DISPOSAL", r>> \in DOMAIN js <=> rs[r].status = "DISPOSED"
  BY DEF AssetTables
<1>7. ASSUME NEW q
      PROVE  \/ q \notin DOMAIN qs /\ <<"ASSET", q>> \notin DOMAIN k /\ <<"DISPOSAL", q>> \notin DOMAIN k
             \/ q \in DOMAIN qs /\ q[1] # "ASSET"
             \/ /\ q \in DOMAIN qs /\ q[1] = "ASSET"
                /\ <<"ASSET", q>> \in DOMAIN k <=> qs[q].status \in HeldStatuses \union {"DISPOSED"}
                /\ <<"DISPOSAL", q>> \in DOMAIN k <=> qs[q].status = "DISPOSED"
  <2>1. CASE q # r
    <3>1. q \in DOMAIN qs <=> q \in DOMAIN rs
      BY <2>1 DEF RecordSet
    <3>2. q \in DOMAIN rs => qs[q].status = rs[q].status
      BY <2>1 DEF RecordSet
    <3> QED
      BY <1>3, <2>1, <3>1, <3>2 DEF AssetTables
  <2>2. CASE q = r
    <3>1. CASE r[1] = "ASSET"
      <4>1. <<"ASSET", r>> \in DOMAIN k <=> <<"ASSET", r>> \in DOMAIN js \/ t \in A
        BY <1>2, <1>4, <3>1
      <4>2. <<"DISPOSAL", r>> \in DOMAIN k <=> <<"DISPOSAL", r>> \in DOMAIN js \/ t = "DISPOSED"
        BY <1>2, <1>4, <3>1
      <4> QED
        BY <1>5, <1>6, <2>2, <3>1, <4>1, <4>2 DEF MayMove, HeldStatuses
    <3>2. CASE r[1] # "ASSET"
      BY <1>5, <2>2, <3>2
    <3> QED
      BY <3>1, <3>2
  <2> QED
    BY <2>1, <2>2
<1>8. Balance(k, "1200") = RowSum(qs, Held(qs))
  <2>0. /\ Balance(js, "1200") = RowSum(rs, Held(rs))
        /\ RowSum(rs, Held(rs)) \in Int
    BY HeldSum DEF AssetTables
  <2>a. \/ /\ <<"ASSET", r>> \notin NumbersNew(js, r, t)
           /\ <<"DISPOSAL", r>> \notin NumbersNew(js, r, t)
           /\ Balance(k, "1200") = Balance(js, "1200")
        \/ /\ NumbersNew(js, r, t) = {<<"ASSET", r>>}
           /\ Balance(k, "1200") = Balance(js, "1200") + v
        \/ /\ NumbersNew(js, r, t) = {<<"DISPOSAL", r>>}
           /\ Balance(k, "1200") = Balance(js, "1200") - v
    BY AssetMoves
  <2>b. <<"ASSET", r>> # <<"DISPOSAL", r>>
    OBVIOUS
  <2>1. CASE <<"ASSET", r>> \in NumbersNew(js, r, t)
    <3>1. Balance(k, "1200") = Balance(js, "1200") + v
      BY ONLY <2>1, <2>a, <2>b
    <3>2. r[1] = "ASSET" /\ t \in A /\ <<"ASSET", r>> \notin DOMAIN js
      BY <1>4, <2>1 DEF NumbersNew
    <3>3. r \in Held(qs) /\ r \notin Held(rs)
      BY <1>5, <1>6, <3>2 DEF HeldStatuses
    <3>4. RowSum(qs, Held(qs)) = RowSum(rs, Held(rs)) + v
      BY <3>3, HeldMoves
    <3> QED
      BY <2>0, <3>1, <3>4
  <2>2. CASE <<"DISPOSAL", r>> \in NumbersNew(js, r, t)
    <3>1. Balance(k, "1200") = Balance(js, "1200") - v
      BY ONLY <2>2, <2>a, <2>b
    <3>2. r[1] = "ASSET" /\ t = "DISPOSED"
      BY <1>4, <2>2 DEF NumbersNew
    <3>3. r \notin Held(qs) /\ r \in Held(rs)
      BY <1>5, <3>2 DEF HeldStatuses, MayMove
    <3>4. RowSum(qs, Held(qs)) = RowSum(rs, Held(rs)) - v
      BY <3>3, HeldMoves
    <3> QED
      BY <2>0, <3>1, <3>4
  <2>3. CASE <<"ASSET", r>> \notin NumbersNew(js, r, t) /\ <<"DISPOSAL", r>> \notin NumbersNew(js, r, t)
    <3>1. Balance(k, "1200") = Balance(js, "1200")
      BY <2>3, <2>a
    <3>2. r[1] = "ASSET" => /\ t \in A => <<"ASSET", r>> \in DOMAIN js
                            /\ t = "DISPOSED" => <<"DISPOSAL", r>> \in DOMAIN js
      BY <1>4, <2>3 DEF NumbersNew
    <3>3. r \in Held(qs) <=> r \in Held(rs)
      BY <1>5, <1>6, <3>2 DEF HeldStatuses, MayMove
    <3>4. RowSum(qs, Held(qs)) = RowSum(rs, Held(rs))
      BY <3>3, HeldMoves
    <3> QED
      BY <2>0, <3>1, <3>4
  <2> QED
    BY <2>1, <2>2, <2>3
<1> QED
  BY <1>1, <1>7, <1>8 DEF AssetTables

LEMMA AssetKept ==
  ASSUME NEW s, NEW w \in s.workers, NEW l, NEW x, OneByOne(s), BookInv(s), BookInv(s)',
         Book(s)!Turn(w, l, x), AssetJob(l, x, records'), AssetTables(journals', records')
  PROVE  AssetInv(s)'
<1>1. ASSUME NEW v \in s.workers PROVE AssetJob(pc'[v], job'[v], records')
  BY BookTurn DEF OneByOne
<1> QED
  BY <1>1 DEF AssetInv

LEMMA AssetOutside ==
  ASSUME NEW s, AssetInv(s), BookInv(s)', UNCHANGED <<pc, job>>,
         AssetTables(journals', records'),
         \A r \in DOMAIN records : records'[r].status = records[r].status
  PROVE  AssetInv(s)'
<1>1. ASSUME NEW w \in s.workers PROVE AssetJob(pc'[w], job'[w], records')
  <2>1. /\ AssetJob(pc[w], job[w], records)
        /\ BookJob(pc[w], job[w], journals, records, Book(s)!Codes)
    BY DEF AssetInv, BookInv
  <2> QED
    BY <2>1 DEF AssetJob, BookJob
<1> QED
  BY <1>1 DEF AssetInv

LEMMA AssetReads ==
  ASSUME NEW s, NEW w \in s.workers, AssetScene(s), Book(s)!BooksAssumption, AssetInv(s),
         BookReading(s, w)
  PROVE  AssetInv(s)'
<1>0. /\ BookInv(s) /\ BookInv(s)' /\ UNCHANGED <<journals, records>>
      /\ AssetTables(journals, records) /\ OneByOne(s) /\ s.entries = {}
  BY BookReads DEF AssetInv, AssetScene
<1>1. ASSUME NEW l, NEW x, Book(s)!Turn(w, l, x), AssetJob(l, x, records)
      PROVE  AssetInv(s)'
  BY <1>0, <1>1, AssetKept
<1>2. \A n \in DOMAIN journals : ~ Book(s)!PostRead(w, n)
  <2>1. \A n \in DOMAIN journals : journals[n].status = "POSTED"
    BY <1>0 DEF AssetTables
  <2> QED
    BY <2>1 DEF Book!PostRead
<1>4. CASE \E n \in DOMAIN journals : Book(s)!Turn(w, "reversing", [journal |-> n])
  <2>1. PICK x : Book(s)!Turn(w, "reversing", x)
    BY <1>4
  <2>2. AssetJob("reversing", x, records)
    BY DEF AssetJob
  <2> QED
    BY <1>1, <2>1, <2>2
<1>5. CASE \E r \in DOMAIN records : \E t :
             /\ Book(s)!Turn(w, "moving", [record |-> r, status |-> t])
             /\ t \in Book(s)!Allows(records[r].status)
  <2>1. PICK r \in DOMAIN records : \E t :
          /\ Book(s)!Turn(w, "moving", [record |-> r, status |-> t])
          /\ t \in Book(s)!Allows(records[r].status)
    BY <1>5
  <2>2. PICK t : /\ Book(s)!Turn(w, "moving", [record |-> r, status |-> t])
                 /\ t \in Book(s)!Allows(records[r].status)
    BY <2>1
  <2>3. PICK x : x = [record |-> r, status |-> t]
    OBVIOUS
  <2>4. x.record = r /\ x.status = t /\ Book(s)!Turn(w, "moving", x)
    BY <2>2, <2>3
  <2>5. MayMove(records[r].status, t)
    BY <2>2, BookAllows
  <2>6. AssetJob("moving", x, records)
    BY <2>4, <2>5 DEF AssetJob
  <2> QED
    BY <1>1, <2>4, <2>6
<1>6. CASE Book(s)!Done(w)
  <2>1. Book(s)!Turn(w, "idle", None) /\ AssetJob("idle", None, records)
    BY <1>6 DEF Book!Done, AssetJob
  <2> QED
    BY <1>1, <2>1
<1>7. BookInv(s)
  BY <1>0
<1> QED
  BY <1>0, <1>2, <1>4, <1>5, <1>6, <1>7, BookReads

LEMMA AssetStep ==
  ASSUME NEW s, AssetScene(s), Book(s)!BooksAssumption, AssetInv(s), Book(s)!Next
  PROVE  AssetInv(s)'
<1>0. /\ BookInv(s) /\ AssetTables(journals, records) /\ OneByOne(s)
      /\ BooksFine(journals) /\ RecordsOK(records)
  BY DEF AssetInv, AssetScene, BookInv, BookTables, BooksLevel
<1>1. CASE BookAccounting(s)
  <2>1. BookInv(s)' /\ UNCHANGED <<journals, records, pc, job>>
    BY <1>0, <1>1, BookAccounts
  <2> QED
    BY <1>0, <2>1, AssetOutside
<1>2. ASSUME NEW rec \in s.records, Book(s)!CreateRecord(rec) PROVE AssetInv(s)'
  <2>1. PICK r, v, t : r = RecordKey(rec) /\ v = rec.amount /\ t = rec.status
    OBVIOUS
  <2>2. /\ BookInv(s)' /\ UNCHANGED <<pc, job>> /\ v \in Nat
        /\ RecordNew(records, records', r, v, t) /\ RecordPosted(journals, journals', r, v, t)
    BY <1>0, <1>2, <2>1, BookCreated
  <2>3. BooksFine(journals') /\ RecordSet(records, records', r, v, t)
    BY <1>0, <2>2, RecordSets DEF BookInv, BookTables, BooksLevel
  <2>4. r \notin DOMAIN records /\ t \notin {"DISPOSED", "CLOSED"}
    BY <2>1, <2>2 DEF RecordNew, AssetScene
  <2>5. AssetTables(journals', records')
    BY <1>0, <2>2, <2>3, <2>4, AssetMoved
  <2>6. \A q \in DOMAIN records : records'[q].status = records[q].status
    BY <2>2 DEF RecordNew
  <2> QED
    BY <2>2, <2>5, <2>6, AssetOutside
<1>3. ASSUME NEW w \in s.workers,
             \/ BookReading(s, w)
             \/ Book(s)!DraftCommit(w) \/ Book(s)!PostCommit(w)
             \/ Book(s)!ReverseCommit(w) \/ Book(s)!RecordCommit(w)
      PROVE  AssetInv(s)'
  <2>0. AssetJob(pc[w], job[w], records)
    BY DEF AssetInv
  <2>1. CASE BookReading(s, w)
    BY <2>1, AssetReads
  <2>2. CASE Book(s)!DraftCommit(w) \/ Book(s)!PostCommit(w)
    BY <2>0, <2>2 DEF AssetJob, Book!DraftCommit, Book!PostCommit, Book!At
  <2>4. CASE Book(s)!ReverseCommit(w)
    <3>1. Book(s)!Reversals < 0
      BY <2>4 DEF Book!ReverseCommit, AssetScene
    <3>2. PICK S : S = {n \in DOMAIN journals : Book(s)!IsReversal(n)}
      OBVIOUS
    <3>3. IsFiniteSet(S)
      BY <1>0, <3>2, FS_Subset DEF BooksFine
    <3>4. Book(s)!Reversals = Cardinality(S)
      BY <3>2, BookSums DEF Book!Reversals
    <3> QED
      BY <3>1, <3>3, <3>4, FS_CardinalityType
  <2>5. CASE Book(s)!RecordCommit(w)
    <3>1. PICK r, v, t : r = job[w].record /\ t = job[w].status /\ v = records[r].amount
      OBVIOUS
    <3>2. /\ BookInv(s)' /\ Book(s)!Done(w) /\ pc[w] = "moving"
          /\ RecordMoved(records, records', r, t) /\ RecordPosted(journals, journals', r, v, t)
      BY <1>0, <2>5, <3>1, BookRecorded
    <3>3. v \in Nat /\ r \in DOMAIN records
      BY <1>0, <3>1, <3>2 DEF RecordMoved, RecordsOK, RecordRowOK
    <3>4. BooksFine(journals') /\ RecordSet(records, records', r, v, t)
      BY <1>0, <3>1, <3>2, <3>3, RecordSets DEF BookInv, BookTables, BooksLevel
    <3>5. MayMove(records[r].status, t)
      BY <2>0, <3>1, <3>2 DEF AssetJob
    <3>6. AssetTables(journals', records')
      BY <1>0, <3>2, <3>3, <3>4, <3>5, AssetMoved
    <3>7. Book(s)!Turn(w, "idle", None) /\ AssetJob("idle", None, records')
      BY <3>2 DEF Book!Done, AssetJob
    <3> QED
      BY <1>0, <3>2, <3>6, <3>7, AssetKept
  <2> QED
    BY <1>3, <2>1, <2>2, <2>4, <2>5
<1> QED
  BY <1>1, <1>2, <1>3, BookSteps

LEMMA AssetStart ==
  ASSUME NEW s, Book(s)!Init
  PROVE  AssetInv(s)
<1>1. /\ BookInv(s) /\ DOMAIN journals = {} /\ DOMAIN records = {}
      /\ \A w \in s.workers : pc[w] = "idle"
  BY BookStart
<1>2. Balance(journals, "1200") = 0
  BY <1>1, BooksEmpty
<1>3. RowSum(records, Held(records)) = 0
  <2>1. PICK S : S = Held(records)
    OBVIOUS
  <2>2. S = {}
    BY <1>1, <2>1 DEF Held
  <2> DEFINE f == [r \in S |-> records[r].amount]
  <2>3. DOMAIN f = {} /\ RowSum(records, S) = SumFunction(f)
    BY <2>2 DEF RowSum
  <2> HIDE DEF f
  <2>4. SumFunction(f) = 0
    BY <2>3, TotalType, FS_EmptySet
  <2> QED
    BY <2>1, <2>3, <2>4
<1> QED
  BY <1>1, <1>2, <1>3 DEF AssetInv, AssetTables, AssetJob

LEMMA AssetMeans ==
  ASSUME NEW s, AssetInv(s)
  PROVE  Book(s)!AssetBooks
<1>0. AssetTables(journals, records)
  BY DEF AssetInv
<1>1. Book(s)!Ledger = DOMAIN journals
  BY <1>0 DEF AssetTables, Book!Ledger
<1>2. Book(s)!BalanceOver(journals, Book(s)!Ledger, "1200") = Balance(journals, "1200")
  BY <1>1, BookBooks DEF Balance
<1>3. {r \in DOMAIN records : /\ r[1] = "ASSET"
                              /\ records[r].status \in {"ACTIVE", "APPROVED", "PAID", "CLOSED"}}
        = Held(records)
  BY DEF Held, HeldStatuses
<1>4. Book(s)!SumFunction([r \in Held(records) |-> records[r].amount]) = RowSum(records, Held(records))
  BY BookSums DEF RowSum
<1> QED
  BY Zenon, <1>0, <1>2, <1>3, <1>4 DEF AssetTables, Book!AssetBooks

(* One request at a time, for any accounts, entries and records: a journal *)
(* is REVERSED exactly when one reversal, of its lines turned round, is in *)
(* the ledger with it (reverseJournal).                                    *)
THEOREM ReversalsOneAtATime ==
  ASSUME NEW s, OneByOne(s), Book(s)!BooksAssumption
  PROVE  Book(s)!Spec => []Book(s)!ReversedOnceEach
<1> DEFINE Inv == TurnInv(s)
           Aim == Book(s)!ReversedOnceEach
<1>1. Book(s)!Init => Inv
  BY TurnStart
<1>2. Inv /\ [Book(s)!Next]_(Book(s)!vars) => Inv'
  <2>1. ASSUME Inv, Book(s)!Next PROVE Inv'
    BY <2>1, TurnStep
  <2>2. ASSUME Inv, UNCHANGED Book(s)!vars PROVE Inv'
    BY <2>2 DEF Book!vars, Book!rowVars, Book!requestVars, TurnInv, BookInv, BookTables,
                Book!Codes, Book!SystemAccounts
  <2> QED
    BY <2>1, <2>2
<1>3. Inv => Aim
  BY TurnMeans
<1> HIDE DEF Inv, Aim
<1>4. Book(s)!Spec => []Aim
  BY <1>1, <1>2, <1>3, PTL DEF Book!Spec
<1> QED
  BY <1>4 DEF Aim

(* One request at a time, when nothing is posted by hand and assets are    *)
(* entered before they are disposed of or closed: the fixed assets of the  *)
(* ledger are those acquired and still held (postFinanceRecord).           *)
THEOREM AssetsOneAtATime ==
  ASSUME NEW s, AssetScene(s), Book(s)!BooksAssumption
  PROVE  Book(s)!Spec => []Book(s)!AssetBooks
<1> DEFINE Inv == AssetInv(s)
           Aim == Book(s)!AssetBooks
<1>1. Book(s)!Init => Inv
  BY AssetStart
<1>2. Inv /\ [Book(s)!Next]_(Book(s)!vars) => Inv'
  <2>1. ASSUME Inv, Book(s)!Next PROVE Inv'
    BY <2>1, AssetStep
  <2>2. ASSUME Inv, UNCHANGED Book(s)!vars PROVE Inv'
    BY <2>2 DEF Book!vars, Book!rowVars, Book!requestVars, AssetInv, BookInv, BookTables,
                Book!Codes, Book!SystemAccounts
  <2> QED
    BY <2>1, <2>2
<1>3. Inv => Aim
  BY AssetMeans
<1> HIDE DEF Inv, Aim
<1>4. Book(s)!Spec => []Aim
  BY <1>1, <1>2, <1>3, PTL DEF Book!Spec
<1> QED
  BY <1>4 DEF Aim

--------------------------------------------------------------------------------
(* Banking: the shape of the rows, and of what a request has read.         *)

States == {"absent", "open", "archived", "deleted"}
AccountOK(x) ==
  /\ x = [state |-> x.state, opening |-> x.opening, balance |-> x.balance]
  /\ x.state \in States /\ x.opening \in Int /\ x.balance \in Int
Here(x) == x.state \in {"open", "archived"}

BankRowShape(x) ==
  x = [account |-> x.account, amount |-> x.amount, group |-> x.group, print |-> x.print,
       linked |-> x.linked, by |-> x.by]
BankRowOK(x, W, as) ==
  /\ BankRowShape(x) /\ x.amount \in Int \ {0}
  /\ x.account \in DOMAIN as /\ Here(as[x.account])
  /\ x.by \in W \union {None} /\ x.group \in Nat \union {None}

IsSequence(t) == Len(t) \in Nat /\ t = [i \in 1 .. Len(t) |-> t[i]]

BankJob(l, x, rs, js, A, s) ==
  /\ l \in {"idle", "deleting", "recording", "importing", "editing", "transferring", "reversing",
            "drawing"}
  /\ l = "deleting" => x.account \in A
  /\ l = "recording" =>
       /\ x = [attempt |-> x.attempt, account |-> x.account, batch |-> x.batch]
       /\ x.account \in A /\ x.batch \in s.batches
  /\ l = "importing" =>
       /\ x = [attempt |-> x.attempt, account |-> x.account, statement |-> x.statement]
       /\ x.account \in A /\ x.statement \in s.statements
  /\ l = "editing" =>
       /\ x = [attempt |-> x.attempt, row |-> x.row, amount |-> x.amount]
       /\ x.row \in DOMAIN rs /\ x.amount \in s.edits
       /\ rs[x.row].group = None /\ ~rs[x.row].linked /\ <<"BANK", x.row>> \notin DOMAIN js
  /\ l = "transferring" =>
       /\ x = [attempt |-> x.attempt, from |-> x.from, to |-> x.to, amount |-> x.amount]
       /\ x.from \in A /\ x.to \in A /\ x.from # x.to /\ x.amount \in s.transfers
  /\ l = "reversing" =>
       /\ x = [attempt |-> x.attempt, row |-> x.row]
       /\ x.row \in DOMAIN rs /\ ~rs[x.row].linked
  /\ l = "drawing" =>
       /\ x.account \in A /\ x.amount \in s.drawn /\ x.balance \in Int

(* A sequence is one of its own values.                                    *)
ValuesOf(t) == {t[i] : i \in 1 .. Len(t)}
LEMMA OfItsValues ==
  ASSUME NEW t, IsSequence(t)
  PROVE  t \in Seq(ValuesOf(t))
<1>1. \A i \in 1 .. Len(t) : t[i] \in ValuesOf(t)
  BY DEF ValuesOf
<1> QED
  BY <1>1 DEF IsSequence

LEMMA SequenceOf ==
  ASSUME NEW S, NEW v \in Seq(S)
  PROVE  IsSequence(v) /\ DOMAIN v = 1 .. Len(v)
<1>1. Len(v) \in Nat /\ DOMAIN v = 1 .. Len(v)
  OBVIOUS
<1>2. v = [i \in DOMAIN v |-> v[i]]
  OBVIOUS
<1> QED
  BY <1>1, <1>2 DEF IsSequence

(* Some rows more.                                                         *)
AppendedTo(t, u, v) ==
  /\ IsSequence(v) /\ Len(v) = Len(t) + Len(u)
  /\ DOMAIN t = 1 .. Len(t) /\ DOMAIN v = 1 .. (Len(t) + Len(u))
  /\ \A i \in 1 .. Len(t) : v[i] = t[i]
  /\ \A i \in 1 .. Len(u) : v[Len(t) + i] = u[i]

LEMMA Appended ==
  ASSUME NEW t, NEW u, NEW v, IsSequence(t), IsSequence(u), v = t \o u
  PROVE  AppendedTo(t, u, v)
<1> DEFINE S == ValuesOf(t) \union ValuesOf(u)
<1>1. t \in Seq(ValuesOf(t)) /\ u \in Seq(ValuesOf(u))
  BY OfItsValues
<1>2. t \in Seq(S) /\ u \in Seq(S)
  BY <1>1
<1> HIDE DEF S
<1> QED
  <2>1. /\ t \o u \in Seq(S) /\ Len(t \o u) = Len(t) + Len(u)
        /\ \A i \in 1 .. Len(t) + Len(u) : (t \o u)[i] = IF i <= Len(t) THEN t[i] ELSE u[i - Len(t)]
    BY ONLY <1>2, ConcatProperties
  <2>2. v \in Seq(S) /\ Len(v) = Len(t) + Len(u) /\ Len(t) \in Nat /\ Len(u) \in Nat
    BY <1>2, <2>1
  <2>3. \A i \in 1 .. Len(t) + Len(u) : v[i] = IF i <= Len(t) THEN t[i] ELSE u[i - Len(t)]
    BY <2>1
  <2>4. DOMAIN t = 1 .. Len(t) /\ DOMAIN v = 1 .. Len(v) /\ IsSequence(v)
    BY ONLY <1>2, <2>2, SequenceOf
  <2>5. \A i \in 1 .. Len(t) : v[i] = t[i]
    BY <2>2, <2>3
  <2>6. \A i \in 1 .. Len(u) : v[Len(t) + i] = u[i]
    <3> TAKE i \in 1 .. Len(u)
    <3>1. /\ Len(t) + i \in 1 .. Len(t) + Len(u) /\ ~(Len(t) + i <= Len(t))
          /\ Len(t) + i - Len(t) = i
      BY <2>2
    <3> QED
      BY <2>3, <3>1
  <2>7. IsSequence(v)
    BY <2>4
  <2> QED
    BY ONLY <2>2, <2>4, <2>5, <2>6, <2>7 DEF AppendedTo

--------------------------------------------------------------------------------
(* Banking: the journals of entries, transfers and openings.               *)

LEMMA PairWhole ==
  ASSUME NEW d, NEW c, NEW v \in Int \ {0}
  PROVE  Normalized(Pair(d, c, v)) = Pair(d, c, v)
BY DEF Normalized, Pair, Line

(* A transfer moves the ledger's cash to where it was.                     *)
LEMMA MoveWithin ==
  ASSUME NEW a, NEW v \in Int \ {0}, NEW j, j.lines = Pair(a, a, v)
  PROVE  LinesOK(j.lines) /\ Movement(j, a) = 0
<1> DEFINE in == Line(a, v, 0)
           out == Line(a, 0, v)
           f == [l \in {in} \union {out} |-> l.debit - l.credit]
<1>1. j.lines = {in} \union {out}
  BY DEF Pair
<1>2. LineOK(in) /\ LineOK(out)
  BY DEF Line, LineOK
<1>3. /\ in.account = a /\ in.debit = v /\ in.credit = 0
      /\ out.account = a /\ out.debit = 0 /\ out.credit = v
  BY DEF Line
<1> HIDE DEF in, out
<1>4. {l \in j.lines : l.account = a} = {in} \union {out} /\ in # out
  BY <1>1, <1>3
<1>5. f[in] = v /\ f[out] = - v /\ DOMAIN f = {in} \union {out}
  BY <1>3
<1>6. Movement(j, a) = SumFunctionOnSet(f, {in} \union {out})
  BY <1>4 DEF Movement, SumFunction
<1> HIDE DEF f
<1>7. IsFiniteSet({in}) /\ IsFiniteSet({} \union {in})
  BY FS_Singleton, FS_EmptySet, FS_AddElement
<1>8. SumFunctionOnSet(f, {} \union {in}) = v
  <2>1. SumFunctionOnSet(f, {} \union {in}) = f[in] + SumFunctionOnSet(f, {})
    <3>1. \A y \in {} \union {in} : f[y] \in Int
      BY <1>5
    <3> QED
      BY <3>1, SumAdd, FS_EmptySet
  <2> QED
    BY <1>5, <2>1, SumEmpty
<1>9. SumFunctionOnSet(f, {in} \union {out}) = f[out] + SumFunctionOnSet(f, {in})
  <2>1. out \notin {in} /\ \A y \in {in} \union {out} : f[y] \in Int
    BY <1>4, <1>5
  <2> QED
    BY <1>7, <2>1, SumAdd
<1>10. SumFunctionOnSet(f, {in}) = v
  <2>1. {} \union {in} = {in}
    OBVIOUS
  <2> QED
    BY <1>8, <2>1
<1>11. LinesOK(j.lines)
  <2>1. IsFiniteSet({in} \union {out})
    BY <1>7, FS_AddElement
  <2> QED
    BY <1>1, <1>2, <2>1 DEF LinesOK
<1> QED
  BY <1>5, <1>6, <1>9, <1>10, <1>11

EntryIs(j, v) ==
  \/ v > 0 /\ j.lines = Normalized(Pair("1000", "9999", v))
  \/ v < 0 /\ j.lines = Normalized(Pair("9999", "1000", - v))

LEMMA EntryMoves ==
  ASSUME NEW j, NEW v \in Int \ {0}, EntryIs(j, v)
  PROVE  LinesOK(j.lines) /\ Movement(j, "1000") = v
<1>1. CASE v > 0
  <2>1. j.lines = Normalized(Pair("1000", "9999", v))
    BY <1>1 DEF EntryIs
  <2>2. LinesOK(j.lines) /\ Movement(j, "1000") = PairMove("1000", "9999", v, "1000")
    BY <2>1, MoveOfPair
  <2> QED
    BY <2>2 DEF PairMove
<1>2. CASE v < 0
  <2>1. PICK u \in Int : u = - v
    OBVIOUS
  <2>2. j.lines = Normalized(Pair("9999", "1000", u))
    BY <1>2, <2>1 DEF EntryIs
  <2>3. LinesOK(j.lines) /\ Movement(j, "1000") = PairMove("9999", "1000", u, "1000")
    BY <2>2, MoveOfPair
  <2> QED
    BY <2>1, <2>3 DEF PairMove
<1> QED
  BY <1>1, <1>2

(* Reversing a journal takes back what it moved.                           *)
ReversedTo(js, k, n, r) ==
  /\ Adds(k, js, r) /\ n \in DOMAIN js /\ n # r /\ k[n] = TakenBack(js[n]) /\ k[r] = MirrorOf(js[n])
  /\ \A m \in DOMAIN js : m # n => k[m] = js[m]

LEMMA ReversedIs ==
  ASSUME NEW js, NEW n, NEW r, NEW k, BooksFine(js), Reversible(js, n, r), k = Reversed(js, n, r)
  PROVE  ReversedTo(js, k, n, r)
<1> DEFINE t == [js EXCEPT ![n].status = "REVERSED"]
<1>1. n \in DOMAIN js /\ r \notin DOMAIN js /\ js[n].status = "POSTED" /\ n # r
  BY DEF Reversible
<1>2. js[n] = [lines |-> js[n].lines, status |-> "POSTED"]
  BY <1>1 DEF BooksFine, JournalOK
<1>3. /\ DOMAIN t = DOMAIN js /\ t[n] = TakenBack(js[n])
      /\ \A m \in DOMAIN js : m # n => t[m] = js[m]
  <2>1. t[n] = [js[n] EXCEPT !.status = "REVERSED"]
    BY <1>1
  <2>2. PICK j : j = js[n]
    OBVIOUS
  <2>3. [j EXCEPT !.status = "REVERSED"] = [lines |-> j.lines, status |-> "REVERSED"]
    BY <1>2, <2>2
  <2> QED
    BY <2>1, <2>2, <2>3 DEF TakenBack
<1> HIDE DEF t
<1>4. k = Entered(t, r, [lines |-> Mirrored(js[n].lines), status |-> "POSTED"])
  BY DEF Reversed, t
<1>5. /\ DOMAIN k = DOMAIN js \union {r}
      /\ k[r] = [lines |-> Mirrored(js[n].lines), status |-> "POSTED"]
      /\ \A m \in DOMAIN js : k[m] = t[m]
  BY <1>1, <1>3, <1>4 DEF Entered
<1> QED
  BY <1>1, <1>3, <1>5 DEF ReversedTo, Adds, MirrorOf

MovedBack(js, k, n) == BooksFine(k) /\ \A a : Balance(k, a) = Balance(js, a) - Movement(js[n], a)

LEMMA ReversedMoves ==
  ASSUME NEW js, NEW n, NEW r, NEW k, BooksFine(js), ReversedTo(js, k, n, r)
  PROVE  MovedBack(js, k, n)
<1>1. r \notin DOMAIN js /\ DOMAIN k = DOMAIN js \union {r} /\ n \in DOMAIN js
  BY DEF ReversedTo, Adds
<1>2. LinesOK(js[n].lines)
  BY <1>1 DEF BooksFine, JournalOK
<1>3. k[r].lines = Mirrored(js[n].lines) /\ k[r] = [lines |-> k[r].lines, status |-> k[r].status]
  BY DEF ReversedTo, MirrorOf
<1>4. JournalOK(k[r]) /\ \A a : Movement(k[r], a) = - Movement(js[n], a)
  BY <1>2, <1>3, MoveMirrored DEF JournalOK
<1>5. \A m \in DOMAIN js : k[m] = [lines |-> js[m].lines, status |-> k[m].status]
  <2> TAKE m \in DOMAIN js
  <2>1. CASE m = n
    BY <2>1 DEF ReversedTo, TakenBack
  <2>2. CASE m # n
    BY <2>2 DEF ReversedTo, BooksFine, JournalOK
  <2> QED
    BY <2>1, <2>2
<1>6. BooksFine(k) /\ \A a : Balance(k, a) = Balance(js, a) + Movement(k[r], a)
  BY ONLY <1>1, <1>4, <1>5, BooksFine(js), BooksAdd
<1>7. ASSUME NEW a PROVE Balance(k, a) = Balance(js, a) - Movement(js[n], a)
  <2>1. Balance(js, a) \in Int /\ Movement(js[n], a) \in Int
    BY <1>2, MoveType, BalanceType
  <2> QED
    BY <1>4, <1>6, <2>1
<1> QED
  BY <1>6, <1>7 DEF MovedBack

--------------------------------------------------------------------------------
(* Banking: what the tables keep, and what a change of the rows may do.    *)

AccountsFine(A, as) == DOMAIN as = A /\ \A a \in A : AccountOK(as[a])
RowsFine(W, as, rs) == IsSequence(rs) /\ \A r \in DOMAIN rs : BankRowOK(rs[r], W, as)

LegsAt(rs, g) ==
  /\ g \in DOMAIN rs /\ g + 1 \in DOMAIN rs /\ rs[g].group = g /\ rs[g + 1].group = g
  /\ rs[g + 1].amount = - rs[g].amount
  /\ rs[g].by = None <=> rs[g + 1].by = None
LegsWhole(rs) ==
  \A r \in DOMAIN rs : \A g \in Nat : rs[r].group = g => LegsAt(rs, g) /\ r \in {g, g + 1}

PrintsOnce(rs) ==
  \A l, r \in DOMAIN rs :
    l # r /\ rs[l].account = rs[r].account /\ rs[l].print # None => rs[l].print # rs[r].print

Stand(rs, a) == {r \in DOMAIN rs : rs[r].account = a /\ rs[r].by = None}
StandSum(rs, a) == RowSum(rs, Stand(rs, a))
AllRight(as, rs) == \A a \in DOMAIN as : as[a].balance = as[a].opening + StandSum(rs, a)

BookedAs(rs, js, r) ==
  /\ r \in DOMAIN rs /\ rs[r].group = None /\ ~rs[r].linked
  /\ EntryIs(js[<<"BANK", r>>], rs[r].amount)
  /\ js[<<"BANK", r>>].status = IF rs[r].by = None THEN "POSTED" ELSE "REVERSED"
Booked(rs, js) == {r \in DOMAIN rs : <<"BANK", r>> \in DOMAIN js /\ rs[r].by = None}
BookedSum(rs, js) == RowSum(rs, Booked(rs, js))
OpeningSum(as) == SumFunction([a \in DOMAIN as |-> as[a].opening])
Bookings(as, rs, js) ==
  /\ BooksFine(js)
  /\ \A r : <<"BANK", r>> \in DOMAIN js => BookedAs(rs, js, r)
  /\ \A r : <<"REV", <<"BANK", r>>>> \in DOMAIN js => r \in DOMAIN rs /\ rs[r].by # None
  /\ \A g : <<"TRANSFER", g>> \in DOMAIN js => Movement(js[<<"TRANSFER", g>>], "1000") = 0
  /\ \A a : <<"OPENING", a>> \in DOMAIN js => a \in DOMAIN as /\ as[a].state # "absent"
  /\ Balance(js, "1000") = OpeningSum(as) + BookedSum(rs, js)

BankTables(s, as, rs, js) ==
  /\ AccountsFine(s.accounts, as) /\ RowsFine(s.workers, as, rs)
  /\ LegsWhole(rs) /\ PrintsOnce(rs) /\ Bookings(as, rs, js)

(* Rows are added.                                                         *)
Longer(rs, qs) ==
  /\ IsSequence(qs) /\ DOMAIN rs \subseteq DOMAIN qs /\ \A r \in DOMAIN rs : qs[r] = rs[r]
(* Rows are corrected or struck.                                           *)
RowLike(x, y) ==
  /\ BankRowShape(y) /\ y.account = x.account /\ y.group = x.group /\ y.print = x.print
  /\ y.linked = x.linked
Altered(rs, qs) ==
  /\ IsSequence(qs) /\ DOMAIN qs = DOMAIN rs /\ \A r \in DOMAIN rs : RowLike(rs[r], qs[r])
(* No account goes.                                                        *)
StillHere(as, bs) ==
  DOMAIN bs = DOMAIN as /\ \A a \in DOMAIN as : Here(as[a]) => Here(bs[a])
NewRow(rs, qs, r) == r \in DOMAIN qs /\ r \notin DOMAIN rs

LEMMA RowsFinite ==
  ASSUME NEW rs, IsSequence(rs)
  PROVE  IsFiniteSet(DOMAIN rs) /\ DOMAIN rs = 1 .. Len(rs)
<1>1. DOMAIN rs = 1 .. Len(rs) /\ Len(rs) \in Nat
  BY DEF IsSequence
<1> QED
  BY <1>1, FS_Interval

LEMMA RowsLonger ==
  ASSUME NEW W, NEW as, NEW bs, NEW rs, NEW qs, RowsFine(W, as, rs), Longer(rs, qs),
         StillHere(as, bs), \A r : NewRow(rs, qs, r) => BankRowOK(qs[r], W, bs)
  PROVE  RowsFine(W, bs, qs)
<1>1. ASSUME NEW r \in DOMAIN rs PROVE BankRowOK(qs[r], W, bs)
  <2>1. PICK x : x = rs[r]
    OBVIOUS
  <2>2. BankRowOK(x, W, as) /\ qs[r] = x
    BY <2>1 DEF RowsFine, Longer
  <2>3. BankRowOK(x, W, bs)
    BY <2>2 DEF BankRowOK, StillHere
  <2> QED
    BY <2>2, <2>3
<1> QED
  BY <1>1 DEF RowsFine, Longer, NewRow

LEMMA LegsLonger ==
  ASSUME NEW rs, NEW qs, LegsWhole(rs), Longer(rs, qs), None \notin Nat,
         \A r : NewRow(rs, qs, r) => qs[r].group = None
  PROVE  LegsWhole(qs)
<1> SUFFICES ASSUME NEW r \in DOMAIN qs, NEW g \in Nat, qs[r].group = g
             PROVE  LegsAt(qs, g) /\ r \in {g, g + 1}
  BY DEF LegsWhole
<1>1. r \in DOMAIN rs /\ rs[r].group = g
  BY DEF Longer, NewRow
<1>2. LegsAt(rs, g) /\ r \in {g, g + 1}
  BY <1>1 DEF LegsWhole
<1>3. qs[g] = rs[g] /\ qs[g + 1] = rs[g + 1] /\ g \in DOMAIN qs /\ g + 1 \in DOMAIN qs
  BY <1>2 DEF LegsAt, Longer
<1> QED
  BY <1>2, <1>3 DEF LegsAt

LEMMA PrintsLonger ==
  ASSUME NEW rs, NEW qs, PrintsOnce(rs), Longer(rs, qs), \A r : NewRow(rs, qs, r) => qs[r].print = None
  PROVE  PrintsOnce(qs)
BY DEF PrintsOnce, Longer, NewRow

LEMMA StandLonger ==
  ASSUME NEW rs, NEW qs, NEW a, Longer(rs, qs), \A r : NewRow(rs, qs, r) => qs[r].account # a
  PROVE  StandSum(qs, a) = StandSum(rs, a)
<1>1. Stand(qs, a) = Stand(rs, a)
  BY DEF Stand, Longer, NewRow
<1>2. PICK S : S = Stand(rs, a)
  OBVIOUS
<1>3. \A y \in S : qs[y].amount = rs[y].amount
  BY <1>2 DEF Stand, Longer
<1> QED
  BY <1>1, <1>2, <1>3, RowsSame DEF StandSum

LEMMA StandType ==
  ASSUME NEW W, NEW as, NEW rs, NEW a, RowsFine(W, as, rs)
  PROVE  StandSum(rs, a) \in Int
<1>1. PICK S : S = Stand(rs, a)
  OBVIOUS
<1>2. IsFiniteSet(S) /\ \A y \in S : rs[y].amount \in Int
  <2>1. S \subseteq DOMAIN rs /\ IsFiniteSet(DOMAIN rs)
    BY <1>1, RowsFinite DEF Stand, RowsFine
  <2> QED
    BY <2>1, FS_Subset DEF RowsFine, BankRowOK
<1> QED
  BY <1>1, <1>2, RowsType DEF StandSum

LEMMA RowsAltered ==
  ASSUME NEW W, NEW as, NEW bs, NEW rs, NEW qs, RowsFine(W, as, rs), Altered(rs, qs),
         StillHere(as, bs),
         \A r \in DOMAIN rs : qs[r].amount \in Int \ {0} /\ qs[r].by \in W \union {None}
  PROVE  RowsFine(W, bs, qs)
<1>1. ASSUME NEW r \in DOMAIN rs PROVE BankRowOK(qs[r], W, bs)
  <2>1. PICK x, y : x = rs[r] /\ y = qs[r]
    OBVIOUS
  <2>2. BankRowOK(x, W, as) /\ RowLike(x, y) /\ y.amount \in Int \ {0} /\ y.by \in W \union {None}
    BY <2>1 DEF RowsFine, Altered
  <2>3. BankRowOK(y, W, bs)
    BY <2>2 DEF BankRowOK, RowLike, StillHere
  <2> QED
    BY <2>1, <2>3
<1> QED
  BY <1>1 DEF RowsFine, Altered

LEMMA LegsAltered ==
  ASSUME NEW rs, NEW qs, LegsWhole(rs), Altered(rs, qs),
         \A r \in DOMAIN rs : rs[r].group \in Nat => qs[r].amount = rs[r].amount,
         \A g \in Nat : LegsAt(rs, g) => (qs[g].by = None <=> qs[g + 1].by = None)
  PROVE  LegsWhole(qs)
<1> SUFFICES ASSUME NEW r \in DOMAIN qs, NEW g \in Nat, qs[r].group = g
             PROVE  LegsAt(qs, g) /\ r \in {g, g + 1}
  BY DEF LegsWhole
<1>1. r \in DOMAIN rs /\ rs[r].group = g
  BY DEF Altered, RowLike
<1>2. LegsAt(rs, g) /\ r \in {g, g + 1}
  BY <1>1 DEF LegsWhole
<1>3. /\ qs[g].group = g /\ qs[g + 1].group = g /\ g \in DOMAIN qs /\ g + 1 \in DOMAIN qs
      /\ qs[g].amount = rs[g].amount /\ qs[g + 1].amount = rs[g + 1].amount
  BY <1>2 DEF LegsAt, Altered, RowLike
<1> QED
  BY <1>2, <1>3 DEF LegsAt

LEMMA PrintsAltered ==
  ASSUME NEW rs, NEW qs, PrintsOnce(rs), Altered(rs, qs)
  PROVE  PrintsOnce(qs)
<1>1. DOMAIN qs = DOMAIN rs
  BY DEF Altered
<1>2. \A r \in DOMAIN rs : qs[r].account = rs[r].account /\ qs[r].print = rs[r].print
  BY DEF Altered, RowLike
<1> QED
  BY <1>1, <1>2 DEF PrintsOnce

SameStanding(rs, qs, r) ==
  qs[r].amount = rs[r].amount /\ (qs[r].by = None <=> rs[r].by = None)

LEMMA StandAltered ==
  ASSUME NEW rs, NEW qs, NEW a, Altered(rs, qs),
         \A r \in DOMAIN rs : rs[r].account = a => SameStanding(rs, qs, r)
  PROVE  StandSum(qs, a) = StandSum(rs, a)
<1>1. \A r \in DOMAIN rs : qs[r].account = rs[r].account
  BY DEF Altered, RowLike
<1>2. Stand(qs, a) = Stand(rs, a)
  BY <1>1 DEF Stand, Altered, SameStanding
<1>3. PICK S : S = Stand(rs, a)
  OBVIOUS
<1>4. \A y \in S : qs[y].amount = rs[y].amount
  BY <1>3 DEF Stand, SameStanding
<1> QED
  BY <1>2, <1>3, <1>4, RowsSame DEF StandSum

(* The openings stay what they are, and no account becomes absent.         *)
SameOpenings(as, bs) ==
  /\ DOMAIN bs = DOMAIN as
  /\ \A a \in DOMAIN as :
       bs[a].opening = as[a].opening /\ (as[a].state # "absent" => bs[a].state # "absent")

LEMMA OpeningsSame ==
  ASSUME NEW as, NEW bs, SameOpenings(as, bs)
  PROVE  OpeningSum(bs) = OpeningSum(as)
<1>1. [a \in DOMAIN bs |-> bs[a].opening] = [a \in DOMAIN as |-> as[a].opening]
  BY DEF SameOpenings
<1> QED
  BY <1>1 DEF OpeningSum

LEMMA BookedType ==
  ASSUME NEW W, NEW as, NEW rs, NEW js, RowsFine(W, as, rs)
  PROVE  /\ IsFiniteSet(Booked(rs, js)) /\ BookedSum(rs, js) \in Int
         /\ \A y \in DOMAIN rs : rs[y].amount \in Int \ {0}
<1>1. PICK S : S = Booked(rs, js)
  OBVIOUS
<1>2. \A y \in DOMAIN rs : rs[y].amount \in Int \ {0}
  BY DEF RowsFine, BankRowOK
<1>3. S \subseteq DOMAIN rs /\ IsFiniteSet(S)
  <2>1. S \subseteq DOMAIN rs /\ IsFiniteSet(DOMAIN rs)
    BY <1>1, RowsFinite DEF Booked, RowsFine
  <2> QED
    BY <2>1, FS_Subset
<1>4. \A y \in S : rs[y].amount \in Int
  BY <1>2, <1>3
<1> QED
  BY <1>1, <1>2, <1>3, <1>4, RowsType DEF BookedSum

LEMMA BookingsLonger ==
  ASSUME NEW as, NEW bs, NEW rs, NEW qs, NEW js, Bookings(as, rs, js), Longer(rs, qs),
         SameOpenings(as, bs)
  PROVE  Bookings(bs, qs, js)
<1>1. \A r \in DOMAIN rs : r \in DOMAIN qs /\ qs[r] = rs[r]
  BY DEF Longer
<1>2. \A r : <<"BANK", r>> \in DOMAIN js => BookedAs(rs, js, r)
  BY DEF Bookings
<1>3. \A r : BookedAs(rs, js, r) => BookedAs(qs, js, r)
  BY <1>1 DEF BookedAs
<1>4. Booked(qs, js) = Booked(rs, js)
  BY <1>1, <1>2 DEF Booked, BookedAs
<1>5. BookedSum(qs, js) = BookedSum(rs, js)
  <2>1. PICK S : S = Booked(rs, js)
    OBVIOUS
  <2>2. \A y \in S : qs[y].amount = rs[y].amount
    BY <1>1, <2>1 DEF Booked
  <2> QED
    BY <1>4, <2>1, <2>2, RowsSame DEF BookedSum
<1>6. \A r : <<"REV", <<"BANK", r>>>> \in DOMAIN js => r \in DOMAIN qs /\ qs[r].by # None
  BY <1>1 DEF Bookings
<1>7. \A a : <<"OPENING", a>> \in DOMAIN js => a \in DOMAIN bs /\ bs[a].state # "absent"
  BY DEF Bookings, SameOpenings
<1> QED
  BY <1>2, <1>3, <1>5, <1>6, <1>7, OpeningsSame DEF Bookings

(* The journals of k are those of js, and more that are no entry's.        *)
MoreBooks(js, k) ==
  /\ BooksFine(k) /\ DOMAIN js \subseteq DOMAIN k
  /\ \A n \in DOMAIN js : k[n] = js[n]
  /\ \A r : <<"BANK", r>> \in DOMAIN k => <<"BANK", r>> \in DOMAIN js
  /\ \A r : <<"REV", <<"BANK", r>>>> \in DOMAIN k => <<"REV", <<"BANK", r>>>> \in DOMAIN js

Entries(rs, k) ==
  /\ \A r : <<"BANK", r>> \in DOMAIN k => BookedAs(rs, k, r)
  /\ \A r : <<"REV", <<"BANK", r>>>> \in DOMAIN k => r \in DOMAIN rs /\ rs[r].by # None

EntriesAs(rs, js, k) == Entries(rs, k) /\ BookedSum(rs, k) = BookedSum(rs, js)

LEMMA EntriesStay ==
  ASSUME NEW as, NEW rs, NEW js, NEW k, Bookings(as, rs, js), MoreBooks(js, k)
  PROVE  EntriesAs(rs, js, k)
<1>1. ASSUME NEW r, <<"BANK", r>> \in DOMAIN k PROVE BookedAs(rs, k, r)
  <2>1. PICK n : n = <<"BANK", r>>
    OBVIOUS
  <2>2. n \in DOMAIN js /\ k[n] = js[n]
    BY <1>1, <2>1 DEF MoreBooks
  <2>3. BookedAs(rs, js, r)
    BY <2>1, <2>2 DEF Bookings
  <2> QED
    BY <2>1, <2>2, <2>3 DEF BookedAs
<1>2. \A r : <<"BANK", r>> \in DOMAIN k <=> <<"BANK", r>> \in DOMAIN js
  BY DEF MoreBooks
<1>3. Booked(rs, k) = Booked(rs, js)
  BY <1>2 DEF Booked
<1>4. \A r : <<"REV", <<"BANK", r>>>> \in DOMAIN k => r \in DOMAIN rs /\ rs[r].by # None
  BY DEF MoreBooks, Bookings
<1> QED
  BY <1>1, <1>3, <1>4 DEF Entries, EntriesAs, BookedSum

OpenedBy(js, k, acc, v) ==
  \/ v = 0 /\ k = js
  \/ v > 0 /\ k = Posted(js, <<"OPENING", acc>>, Pair("1000", "3900", v))
  \/ v < 0 /\ k = Posted(js, <<"OPENING", acc>>, Pair("3900", "1000", - v))
OpenedAs(as, bs, acc, v) ==
  /\ IsFiniteSet(DOMAIN as) /\ \A a \in DOMAIN as : as[a].opening \in Int
  /\ acc \in DOMAIN as /\ as[acc].state = "absent" /\ as[acc].opening = 0
  /\ DOMAIN bs = DOMAIN as /\ bs[acc].state = "open" /\ bs[acc].opening = v
  /\ \A a \in DOMAIN as : a # acc => bs[a] = as[a]

LEMMA OpeningsOpened ==
  ASSUME NEW as, NEW bs, NEW acc, NEW v \in Int, OpenedAs(as, bs, acc, v)
  PROVE  OpeningSum(bs) = OpeningSum(as) + v /\ OpeningSum(as) \in Int
<1> DEFINE f == [a \in DOMAIN as |-> as[a].opening]
           g == [a \in DOMAIN bs |-> bs[a].opening]
<1>1. /\ DOMAIN f = DOMAIN as /\ DOMAIN g = DOMAIN f /\ IsFiniteSet(DOMAIN f) /\ acc \in DOMAIN f
      /\ \A y \in DOMAIN f : f[y] \in Int /\ g[y] \in Int
      /\ \A y \in DOMAIN f \ {acc} : g[y] = f[y]
      /\ f[acc] = 0 /\ g[acc] = v
  BY DEF OpenedAs
<1>2. OpeningSum(as) = SumFunction(f) /\ OpeningSum(bs) = SumFunction(g)
  BY DEF OpeningSum
<1> HIDE DEF f, g
<1>3. SumFunction(g) = SumFunction(f) - f[acc] + g[acc] /\ SumFunction(f) \in Int
  BY <1>1, TotalChange, TotalType
<1> QED
  BY <1>1, <1>2, <1>3

LEMMA OpenedBooks ==
  ASSUME NEW js, NEW k, NEW acc, NEW v \in Int, BooksFine(js), <<"OPENING", acc>> \notin DOMAIN js,
         OpenedBy(js, k, acc, v)
  PROVE  /\ MoreBooks(js, k) /\ DOMAIN k \subseteq DOMAIN js \union {<<"OPENING", acc>>}
         /\ Balance(k, "1000") = Balance(js, "1000") + v
<1>0. Balance(js, "1000") \in Int
  BY BalanceType
<1>1. CASE v = 0 /\ k = js
  BY <1>0, <1>1 DEF MoreBooks
<1>2. ASSUME NEW d \in {"1000", "3900"}, NEW c \in {"1000", "3900"}, NEW u \in Nat, d # c,
             k = Posted(js, <<"OPENING", acc>>, Pair(d, c, u)), v = IF d = "1000" THEN u ELSE - u
      PROVE  /\ MoreBooks(js, k) /\ DOMAIN k \subseteq DOMAIN js \union {<<"OPENING", acc>>}
             /\ Balance(k, "1000") = Balance(js, "1000") + v
  <2>1. PICK n : n = <<"OPENING", acc>>
    OBVIOUS
  <2>2. k = Posted(js, n, Pair(d, c, u)) /\ n \notin DOMAIN js /\ u \in Int /\ d # c
    BY <1>2, <2>1
  <2>3. /\ BooksFine(k) /\ Adds(k, js, n) /\ \A m \in DOMAIN js : k[m] = js[m]
        /\ \A a : Balance(k, a) = Balance(js, a) + PairMove(d, c, u, a)
    BY ONLY BooksFine(js), <2>2, PostedPair
  <2>4. PairMove(d, c, u, "1000") = v
    BY <1>2 DEF PairMove
  <2>5. DOMAIN k = DOMAIN js \union {<<"OPENING", acc>>}
    BY <2>1, <2>3 DEF Adds
  <2>6. MoreBooks(js, k)
    BY <2>3, <2>5 DEF MoreBooks
  <2> QED
    BY <2>3, <2>4, <2>5, <2>6
<1>3. CASE v > 0 /\ k = Posted(js, <<"OPENING", acc>>, Pair("1000", "3900", v))
  BY <1>2, <1>3
<1>4. CASE v < 0 /\ k = Posted(js, <<"OPENING", acc>>, Pair("3900", "1000", - v))
  <2>1. PICK u \in Nat : u = - v
    BY <1>4
  <2>2. v = - u
    BY <2>1
  <2> QED
    BY <1>2, <1>4, <2>1, <2>2
<1> QED
  BY <1>1, <1>3, <1>4 DEF OpenedBy

LEMMA BookingsOpened ==
  ASSUME NEW W, NEW as, NEW bs, NEW rs, NEW js, NEW k, NEW acc, NEW v \in Int,
         RowsFine(W, as, rs), Bookings(as, rs, js), OpenedAs(as, bs, acc, v), OpenedBy(js, k, acc, v)
  PROVE  Bookings(bs, rs, k)
<1>1. BooksFine(js) /\ <<"OPENING", acc>> \notin DOMAIN js
  BY DEF Bookings, OpenedAs
<1>2. /\ MoreBooks(js, k) /\ DOMAIN k \subseteq DOMAIN js \union {<<"OPENING", acc>>}
      /\ Balance(k, "1000") = Balance(js, "1000") + v
  BY ONLY <1>1, v \in Int, OpenedBy(js, k, acc, v), OpenedBooks
<1>3. EntriesAs(rs, js, k)
  BY <1>2, EntriesStay
<1>4. ASSUME NEW g, <<"TRANSFER", g>> \in DOMAIN k PROVE Movement(k[<<"TRANSFER", g>>], "1000") = 0
  <2>1. <<"TRANSFER", g>> \in DOMAIN js
    BY <1>2, <1>4
  <2> QED
    BY <1>2, <2>1 DEF Bookings, MoreBooks
<1>5. ASSUME NEW a, <<"OPENING", a>> \in DOMAIN k PROVE a \in DOMAIN bs /\ bs[a].state # "absent"
  <2>1. a = acc \/ <<"OPENING", a>> \in DOMAIN js
    BY <1>2, <1>5
  <2> QED
    BY <2>1 DEF Bookings, OpenedAs
<1>6. Balance(k, "1000") = OpeningSum(bs) + BookedSum(rs, k)
  <2>1. OpeningSum(bs) = OpeningSum(as) + v /\ OpeningSum(as) \in Int
    BY OpeningsOpened
  <2>2. BookedSum(rs, js) \in Int
    BY BookedType
  <2>3. Balance(js, "1000") = OpeningSum(as) + BookedSum(rs, js)
    BY DEF Bookings
  <2>4. Balance(k, "1000") = Balance(js, "1000") + v
    BY <1>2
  <2>5. BookedSum(rs, k) = BookedSum(rs, js)
    BY <1>3 DEF EntriesAs
  <2> QED
    <3>1. PICK o \in Int, b \in Int : o = OpeningSum(as) /\ b = BookedSum(rs, js)
      BY <2>1, <2>2
    <3>2. /\ OpeningSum(bs) = o + v /\ BookedSum(rs, k) = b
          /\ Balance(k, "1000") = (o + b) + v
      BY <2>1, <2>3, <2>4, <2>5, <3>1
    <3>3. (o + b) + v = (o + v) + b
      OBVIOUS
    <3> QED
      BY <3>2, <3>3
<1> QED
  BY <1>2, <1>3, <1>4, <1>5, <1>6 DEF Bookings, MoreBooks, Entries, EntriesAs

(* New rows, each posted as an entry of its own.                           *)
NewRows(rs, qs) == DOMAIN qs \ DOMAIN rs
NewNumbers(rs, qs) == {<<"BANK", r>> : r \in NewRows(rs, qs)}
EntryPosted(j, v) == JournalOK(j) /\ EntryIs(j, v) /\ j.status = "POSTED"
EnteredAll(rs, qs, js, k) ==
  /\ DOMAIN k = DOMAIN js \union NewNumbers(rs, qs)
  /\ \A n \in DOMAIN js : k[n] = js[n]
  /\ \A r \in NewRows(rs, qs) : <<"BANK", r>> \notin DOMAIN js => EntryPosted(k[<<"BANK", r>>], qs[r].amount)

LEMMA NumbersAreNew ==
  ASSUME NEW as, NEW rs, NEW qs, NEW js, NEW k, Bookings(as, rs, js), EnteredAll(rs, qs, js, k)
  PROVE  /\ ExtendedBy(js, k, NewNumbers(rs, qs))
         /\ \A r \in NewRows(rs, qs) : EntryPosted(k[<<"BANK", r>>], qs[r].amount)
<1>1. \A r \in NewRows(rs, qs) : <<"BANK", r>> \notin DOMAIN js
  BY DEF Bookings, BookedAs, NewRows
<1>2. NewNumbers(rs, qs) \intersect DOMAIN js = {}
  BY <1>1 DEF NewNumbers
<1> QED
  BY <1>1, <1>2 DEF EnteredAll, ExtendedBy

EnteredSum(rs, qs, js, k) ==
  /\ BooksFine(k) /\ RowSum(qs, NewRows(rs, qs)) \in Int
  /\ Balance(k, "1000") = Balance(js, "1000") + RowSum(qs, NewRows(rs, qs))
NewStand(rs, qs) == \A r : NewRow(rs, qs, r) => qs[r].by = None
BookedGrows(rs, qs, js, k) ==
  BookedSum(qs, k) = BookedSum(rs, js) + RowSum(qs, NewRows(rs, qs))

LEMMA EnteredBooks ==
  ASSUME NEW W, NEW as, NEW bs, NEW rs, NEW qs, NEW js, NEW k, Bookings(as, rs, js),
         RowsFine(W, bs, qs), EnteredAll(rs, qs, js, k)
  PROVE  EnteredSum(rs, qs, js, k)
<1> DEFINE R == NewRows(rs, qs)
           U == NewNumbers(rs, qs)
           g == [r \in R |-> <<"BANK", r>>]
           e == [n \in U |-> Movement(k[n], "1000")]
           f == [r \in R |-> qs[r].amount]
<1>1. ExtendedBy(js, k, U) /\ \A r \in R : EntryPosted(k[<<"BANK", r>>], qs[r].amount)
  BY NumbersAreNew
<1>2. IsFiniteSet(R) /\ \A r \in R : qs[r].amount \in Int \ {0}
  <2>1. IsFiniteSet(DOMAIN qs) /\ R \subseteq DOMAIN qs
    BY RowsFinite DEF RowsFine, NewRows
  <2> QED
    BY <2>1, FS_Subset DEF RowsFine, BankRowOK
<1>3. U = {g[r] : r \in R}
  BY DEF NewNumbers
<1>4. \A x, y \in R : g[x] = g[y] => x = y
  OBVIOUS
<1>5. \A r \in R : f[r] \in Int /\ e[g[r]] = f[r]
  <2> TAKE r \in R
  <2>1. EntryPosted(k[<<"BANK", r>>], qs[r].amount) /\ qs[r].amount \in Int \ {0}
    BY <1>1, <1>2
  <2>2. PICK j, v : j = k[<<"BANK", r>>] /\ v = qs[r].amount
    OBVIOUS
  <2>3. Movement(j, "1000") = v
    BY <2>1, <2>2, EntryMoves DEF EntryPosted
  <2>4. g[r] \in U /\ e[g[r]] = Movement(j, "1000") /\ f[r] = v
    BY <1>3, <2>2
  <2> QED
    BY <2>1, <2>2, <2>3, <2>4
<1>6. IsFiniteSet(U) /\ SumFunctionOnSet(e, U) = SumFunctionOnSet(f, R)
  <2> HIDE DEF e, f, g, U, R
  <2>1. /\ IsFiniteSet({g[r] : r \in R})
        /\ SumFunctionOnSet(e, {g[r] : r \in R}) = SumFunctionOnSet(f, R)
    BY <1>2, <1>4, <1>5, SumImage
  <2> QED
    BY <1>3, <2>1
<1>7. RowSum(qs, R) = SumFunctionOnSet(f, R) /\ BalanceOver(k, U, "1000") = SumFunctionOnSet(e, U)
  BY DEF RowSum, SumFunction, BalanceOver
<1>8. RowSum(qs, R) \in Int
  <2>1. PICK S : S = R
    OBVIOUS
  <2> HIDE DEF R
  <2> QED
    BY <1>2, <2>1, RowsType
<1>9. BooksFine(js)
  BY DEF Bookings
<1>10. BooksFine(k)
  <2>1. IsFiniteSet(DOMAIN js \union U)
    <3> HIDE DEF U
    <3> QED
      BY <1>6, <1>9, FS_Union DEF BooksFine
  <2>2. DOMAIN k = DOMAIN js \union U /\ \A n \in DOMAIN js : k[n] = js[n]
    BY <1>1 DEF ExtendedBy
  <2>3. \A n \in U : JournalOK(k[n])
    BY <1>1 DEF EntryPosted, NewNumbers
  <2> QED
    BY <1>9, <2>1, <2>2, <2>3 DEF BooksFine
<1>11. Balance(k, "1000") = Balance(js, "1000") + BalanceOver(k, U, "1000")
  <2> HIDE DEF U
  <2> QED
    BY <1>1, <1>9, <1>10, BooksMore
<1> QED
  BY <1>6, <1>7, <1>8, <1>10, <1>11 DEF EnteredSum

LEMMA BookedMore ==
  ASSUME NEW W, NEW as, NEW bs, NEW rs, NEW qs, NEW js, NEW k, Bookings(as, rs, js),
         RowsFine(W, as, rs), RowsFine(W, bs, qs), Longer(rs, qs), EnteredAll(rs, qs, js, k),
         NewStand(rs, qs)
  PROVE  BookedGrows(rs, qs, js, k)
<1> DEFINE R == NewRows(rs, qs)
           B == Booked(rs, js)
           f == [r \in DOMAIN qs |-> qs[r].amount]
<1>1. /\ Booked(qs, k) = B \union R /\ B \intersect R = {} /\ B \subseteq DOMAIN qs /\ R \subseteq DOMAIN qs
      /\ \A r \in B : qs[r] = rs[r]
  <2>1. \A r \in R : <<"BANK", r>> \in DOMAIN k /\ qs[r].by = None
    BY DEF EnteredAll, NewNumbers, NewRows, NewRow, NewStand
  <2>2. \A r \in DOMAIN rs : <<"BANK", r>> \in DOMAIN k <=> <<"BANK", r>> \in DOMAIN js
    BY DEF EnteredAll, NewNumbers, NewRows
  <2>3. DOMAIN qs = DOMAIN rs \union R /\ DOMAIN rs \intersect R = {} /\ \A r \in DOMAIN rs : qs[r] = rs[r]
    BY DEF Longer, NewRows
  <2> QED
    BY <2>1, <2>2, <2>3 DEF Booked
<1>2. IsFiniteSet(B) /\ IsFiniteSet(R) /\ \A r \in B \union R : f[r] \in Int
  <2>1. IsFiniteSet(DOMAIN qs) /\ \A r \in DOMAIN qs : qs[r].amount \in Int
    BY RowsFinite DEF RowsFine, BankRowOK
  <2> QED
    BY <1>1, <2>1, FS_Subset
<1>3. /\ RowSum(qs, B \union R) = SumFunctionOnSet(f, B \union R)
      /\ RowSum(qs, R) = SumFunctionOnSet(f, R) /\ RowSum(qs, B) = SumFunctionOnSet(f, B)
  <2>1. ASSUME NEW S, IsFiniteSet(S), S \subseteq DOMAIN qs
        PROVE  RowSum(qs, S) = SumFunctionOnSet(f, S)
    <3> DEFINE h == [r \in S |-> qs[r].amount]
    <3>1. RowSum(qs, S) = SumFunctionOnSet(h, S) /\ \A x \in S : h[x] = f[x]
      BY <2>1 DEF RowSum, SumFunction
    <3> HIDE DEF h, f
    <3> QED
      BY <2>1, <3>1, SumSame
  <2>2. IsFiniteSet(B \union R)
    <3> HIDE DEF B, R
    <3> QED
      BY <1>2, FS_Union
  <2> HIDE DEF B, R, f
  <2> QED
    BY <1>1, <1>2, <2>1, <2>2
<1>4. RowSum(qs, B) = RowSum(rs, B)
  <2>1. PICK S : S = B
    OBVIOUS
  <2>2. \A y \in S : qs[y].amount = rs[y].amount
    BY <1>1, <2>1
  <2> QED
    BY <2>1, <2>2, RowsSame
<1>5. SumFunctionOnSet(f, B \union R) = SumFunctionOnSet(f, B) + SumFunctionOnSet(f, R)
  <2> HIDE DEF B, R, f
  <2> QED
    BY <1>1, <1>2, SumUnion
<1> QED
  BY <1>1, <1>3, <1>4, <1>5 DEF BookedSum, BookedGrows

LEMMA OpeningsType ==
  ASSUME NEW A, NEW as, AccountsFine(A, as), IsFiniteSet(A)
  PROVE  OpeningSum(as) \in Int
<1> DEFINE f == [a \in DOMAIN as |-> as[a].opening]
<1>1. DOMAIN f = A /\ \A a \in A : f[a] \in Int
  BY DEF AccountsFine, AccountOK
<1>2. OpeningSum(as) = SumFunctionOnSet(f, A)
  BY <1>1 DEF OpeningSum, SumFunction
<1> HIDE DEF f
<1> QED
  BY <1>1, <1>2, SumType

Plain(x) == x.by = None /\ x.group = None /\ ~x.linked

LEMMA BookingsEntered ==
  ASSUME NEW A, NEW W, NEW as, NEW bs, NEW rs, NEW qs, NEW js, NEW k, Bookings(as, rs, js),
         AccountsFine(A, as), IsFiniteSet(A),
         RowsFine(W, as, rs), RowsFine(W, bs, qs), Longer(rs, qs), EnteredAll(rs, qs, js, k),
         SameOpenings(as, bs), \A r : NewRow(rs, qs, r) => Plain(qs[r])
  PROVE  Bookings(bs, qs, k)
<1>1. /\ ExtendedBy(js, k, NewNumbers(rs, qs))
      /\ \A r \in NewRows(rs, qs) : EntryPosted(k[<<"BANK", r>>], qs[r].amount)
  BY NumbersAreNew
<1>2. DOMAIN k = DOMAIN js \union NewNumbers(rs, qs) /\ \A n \in DOMAIN js : k[n] = js[n]
  BY <1>1 DEF ExtendedBy
<1>3. /\ BooksFine(k) /\ RowSum(qs, NewRows(rs, qs)) \in Int
      /\ Balance(k, "1000") = Balance(js, "1000") + RowSum(qs, NewRows(rs, qs))
  <2>1. EnteredSum(rs, qs, js, k)
    BY EnteredBooks
  <2> QED
    BY <2>1 DEF EnteredSum
<1>4. BookedSum(qs, k) = BookedSum(rs, js) + RowSum(qs, NewRows(rs, qs))
  <2>1. NewStand(rs, qs)
    BY DEF Plain, NewStand
  <2>2. BookedGrows(rs, qs, js, k)
    BY <2>1, BookedMore
  <2> QED
    BY <2>2 DEF BookedGrows
<1>5. ASSUME NEW r, <<"BANK", r>> \in DOMAIN k PROVE BookedAs(qs, k, r)
  <2>1. CASE <<"BANK", r>> \in DOMAIN js
    <3>1. BookedAs(rs, js, r)
      BY <2>1 DEF Bookings
    <3>2. r \in DOMAIN qs /\ qs[r] = rs[r] /\ r \in DOMAIN rs
      BY <3>1 DEF BookedAs, Longer
    <3> QED
      BY <1>2, <2>1, <3>1, <3>2 DEF BookedAs
  <2>2. CASE <<"BANK", r>> \notin DOMAIN js
    <3>1. r \in NewRows(rs, qs)
      BY <1>2, <1>5, <2>2 DEF NewNumbers
    <3>2. Plain(qs[r]) /\ r \in DOMAIN qs
      BY <3>1 DEF NewRows, NewRow
    <3>3. EntryPosted(k[<<"BANK", r>>], qs[r].amount)
      BY <1>1, <3>1
    <3> QED
      BY <3>2, <3>3 DEF EntryPosted, Plain, BookedAs
  <2> QED
    BY <2>1, <2>2
<1>6. ASSUME NEW x, NEW y, <<x, y>> \in DOMAIN k, x # "BANK"
      PROVE  <<x, y>> \in DOMAIN js /\ k[<<x, y>>] = js[<<x, y>>]
  BY <1>2, <1>6 DEF NewNumbers
<1>7. ASSUME NEW r, <<"REV", <<"BANK", r>>>> \in DOMAIN k PROVE r \in DOMAIN qs /\ qs[r].by # None
  <2>1. r \in DOMAIN rs /\ rs[r].by # None
    BY <1>6, <1>7 DEF Bookings
  <2> QED
    BY <2>1 DEF Longer
<1>8. ASSUME NEW g, <<"TRANSFER", g>> \in DOMAIN k PROVE Movement(k[<<"TRANSFER", g>>], "1000") = 0
  BY <1>6, <1>8 DEF Bookings
<1>9. ASSUME NEW a, <<"OPENING", a>> \in DOMAIN k PROVE a \in DOMAIN bs /\ bs[a].state # "absent"
  BY <1>6, <1>9 DEF Bookings, SameOpenings
<1>10. Balance(k, "1000") = OpeningSum(bs) + BookedSum(qs, k)
  <2>1. OpeningSum(bs) = OpeningSum(as)
    BY OpeningsSame
  <2>2. Balance(js, "1000") = OpeningSum(as) + BookedSum(rs, js) /\ Balance(js, "1000") \in Int
    BY BalanceType DEF Bookings
  <2>3. BookedSum(rs, js) \in Int
    BY BookedType
  <2>4. OpeningSum(as) \in Int
    BY OpeningsType
  <2> QED
    <3>1. PICK o \in Int, b \in Int, d \in Int :
             o = OpeningSum(as) /\ b = BookedSum(rs, js) /\ d = RowSum(qs, NewRows(rs, qs))
      BY <1>3, <2>3, <2>4
    <3>2. OpeningSum(bs) = o /\ BookedSum(qs, k) = b + d /\ Balance(k, "1000") = (o + b) + d
      BY <1>3, <1>4, <2>1, <2>2, <3>1
    <3> QED
      BY <3>2
<1> QED
  BY <1>3, <1>5, <1>7, <1>8, <1>9, <1>10 DEF Bookings

(* Rows that were never booked are corrected or struck, or a struck row is *)
(* struck again.                                                           *)
BookedStay(rs, qs, js) ==
  \A r \in DOMAIN rs :
    /\ <<"BANK", r>> \in DOMAIN js => SameStanding(rs, qs, r)
    /\ rs[r].by # None => qs[r].by # None

LEMMA BookingsAltered ==
  ASSUME NEW as, NEW bs, NEW rs, NEW qs, NEW js, Bookings(as, rs, js), Altered(rs, qs),
         SameOpenings(as, bs), BookedStay(rs, qs, js)
  PROVE  Bookings(bs, qs, js)
<1>1. ASSUME NEW r, <<"BANK", r>> \in DOMAIN js PROVE BookedAs(qs, js, r)
  <2>1. BookedAs(rs, js, r)
    BY <1>1 DEF Bookings
  <2>2. r \in DOMAIN rs /\ RowLike(rs[r], qs[r]) /\ r \in DOMAIN qs
    BY <2>1 DEF BookedAs, Altered
  <2>3. SameStanding(rs, qs, r)
    BY <1>1, <2>2 DEF BookedStay
  <2> QED
    BY <2>1, <2>2, <2>3 DEF BookedAs, SameStanding, RowLike
<1>2. Booked(qs, js) = Booked(rs, js)
  BY DEF Booked, Altered, BookedStay, SameStanding
<1>3. BookedSum(qs, js) = BookedSum(rs, js)
  <2>1. PICK S : S = Booked(rs, js)
    OBVIOUS
  <2>2. \A y \in S : qs[y].amount = rs[y].amount
    BY <2>1 DEF Booked, BookedStay, SameStanding
  <2> QED
    BY <1>2, <2>1, <2>2, RowsSame DEF BookedSum
<1>4. ASSUME NEW r, <<"REV", <<"BANK", r>>>> \in DOMAIN js PROVE r \in DOMAIN qs /\ qs[r].by # None
  <2>1. r \in DOMAIN rs /\ rs[r].by # None
    BY <1>4 DEF Bookings
  <2> QED
    BY <2>1 DEF Altered, BookedStay
<1>5. \A a : <<"OPENING", a>> \in DOMAIN js => a \in DOMAIN bs /\ bs[a].state # "absent"
  BY DEF Bookings, SameOpenings
<1>6. OpeningSum(bs) = OpeningSum(as)
  BY OpeningsSame
<1> QED
  BY <1>1, <1>3, <1>4, <1>5, <1>6 DEF Bookings

(* A transfer is posted, or taken back: the ledger's cash stays.           *)
LEMMA TransferBooks ==
  ASSUME NEW as, NEW rs, NEW js, NEW k, NEW g, NEW v \in Int \ {0}, Bookings(as, rs, js),
         k = Posted(js, <<"TRANSFER", g>>, Pair("1000", "1000", v))
  PROVE  Bookings(as, rs, k)
<1>1. PICK n : n = <<"TRANSFER", g>>
  OBVIOUS
<1>2. CASE n \in DOMAIN js
  BY <1>1, <1>2 DEF Posted
<1>3. CASE n \notin DOMAIN js
  <2>1. k = Entered(js, n, [lines |-> Pair("1000", "1000", v), status |-> "POSTED"])
    BY <1>1, <1>3, PairWhole DEF Posted
  <2>2. DOMAIN k = DOMAIN js \union {n} /\ \A m \in DOMAIN js : k[m] = js[m]
    BY <1>3, <2>1 DEF Entered
  <2>3. k[n].lines = Pair("1000", "1000", v) /\ k[n] = [lines |-> k[n].lines, status |-> k[n].status]
    BY <2>1 DEF Entered
  <2>4. LinesOK(k[n].lines) /\ Movement(k[n], "1000") = 0
    BY <2>3, MoveWithin
  <2>5. BooksFine(k) /\ \A a : Balance(k, a) = Balance(js, a) + Movement(k[n], a)
    <3>1. JournalOK(k[n]) /\ BooksFine(js)
      BY <2>3, <2>4 DEF JournalOK, Bookings
    <3>2. \A m \in DOMAIN js : k[m] = [lines |-> js[m].lines, status |-> k[m].status]
      BY <2>2, <3>1 DEF BooksFine, JournalOK
    <3> QED
      BY ONLY <1>3, <2>2, <3>1, <3>2, BooksAdd
  <2>6. Balance(k, "1000") = Balance(js, "1000")
    <3>1. Balance(js, "1000") \in Int
      BY BalanceType DEF Bookings
    <3> QED
      BY <2>4, <2>5, <3>1
  <2>7. MoreBooks(js, k)
    BY <1>1, <2>2, <2>5 DEF MoreBooks
  <2>8. EntriesAs(rs, js, k)
    BY <2>7, EntriesStay
  <2>9. ASSUME NEW h, <<"TRANSFER", h>> \in DOMAIN k PROVE Movement(k[<<"TRANSFER", h>>], "1000") = 0
    <3>1. <<"TRANSFER", h>> \in DOMAIN js \/ <<"TRANSFER", h>> = n
      BY <2>2, <2>9
    <3> QED
      BY <2>2, <2>4, <3>1 DEF Bookings
  <2>10. ASSUME NEW a, <<"OPENING", a>> \in DOMAIN k PROVE a \in DOMAIN as /\ as[a].state # "absent"
    <3>1. <<"OPENING", a>> \in DOMAIN js
      BY <1>1, <2>2, <2>10
    <3> QED
      BY <3>1 DEF Bookings
  <2> QED
    BY <2>5, <2>6, <2>8, <2>9, <2>10 DEF Bookings, Entries, EntriesAs
<1> QED
  BY <1>2, <1>3

LEMMA TransferTaken ==
  ASSUME NEW as, NEW rs, NEW js, NEW k, NEW g, Bookings(as, rs, js),
         k = Reversed(js, <<"TRANSFER", g>>, <<"REV", <<"TRANSFER", g>>>>)
  PROVE  Bookings(as, rs, k)
<1>1. PICK n : n = <<"TRANSFER", g>>
  OBVIOUS
<1>2. PICK r : r = <<"REV", n>>
  OBVIOUS
<1>3. CASE ~Reversible(js, n, r)
  BY <1>1, <1>2, <1>3 DEF Reversed
<1>4. CASE Reversible(js, n, r)
  <2>1. BooksFine(js) /\ k = Reversed(js, n, r)
    BY <1>1, <1>2 DEF Bookings
  <2>2. ReversedTo(js, k, n, r)
    BY ONLY <1>4, <2>1, ReversedIs
  <2>3. /\ BooksFine(k) /\ \A a : Balance(k, a) = Balance(js, a) - Movement(js[n], a)
    <3>1. MovedBack(js, k, n)
      BY <2>1, <2>2, ReversedMoves
    <3> QED
      BY <3>1 DEF MovedBack
  <2>4. /\ DOMAIN k = DOMAIN js \union {r} /\ k[n].lines = js[n].lines /\ n \in DOMAIN js
        /\ \A m \in DOMAIN js : m # n => k[m] = js[m]
    BY <2>2 DEF ReversedTo, Adds, TakenBack
  <2>5. Movement(js[n], "1000") = 0
    BY <1>1, <2>4 DEF Bookings
  <2>6. Balance(k, "1000") = Balance(js, "1000")
    <3>1. Balance(js, "1000") \in Int
      BY <2>1, BalanceType
    <3> QED
      BY <2>3, <2>5, <3>1
  <2>7. ASSUME NEW x, NEW y, x \in {"BANK", "OPENING", "TRANSFER"}, <<x, y>> \in DOMAIN k
        PROVE  <<x, y>> \in DOMAIN js /\ (x # "TRANSFER" => k[<<x, y>>] = js[<<x, y>>])
    BY <1>1, <1>2, <2>4, <2>7
  <2>8. ASSUME NEW x, <<"BANK", x>> \in DOMAIN k PROVE BookedAs(rs, k, x)
    <3>1. <<"BANK", x>> \in DOMAIN js /\ k[<<"BANK", x>>] = js[<<"BANK", x>>]
      BY <2>7, <2>8
    <3> QED
      BY <3>1 DEF Bookings, BookedAs
  <2>9. Booked(rs, k) = Booked(rs, js)
    BY <2>4, <2>7 DEF Booked
  <2>10. ASSUME NEW x, <<"REV", <<"BANK", x>>>> \in DOMAIN k PROVE x \in DOMAIN rs /\ rs[x].by # None
    <3>1. <<"REV", <<"BANK", x>>>> # r
      BY <1>1, <1>2
    <3> QED
      BY <2>4, <2>10, <3>1 DEF Bookings
  <2>11. ASSUME NEW h, <<"TRANSFER", h>> \in DOMAIN k PROVE Movement(k[<<"TRANSFER", h>>], "1000") = 0
    <3>1. <<"TRANSFER", h>> \in DOMAIN js
      BY <2>7, <2>11
    <3>2. k[<<"TRANSFER", h>>].lines = js[<<"TRANSFER", h>>].lines
      BY <2>4, <3>1
    <3> QED
      BY <3>1, <3>2 DEF Bookings, Movement
  <2>12. ASSUME NEW a, <<"OPENING", a>> \in DOMAIN k PROVE a \in DOMAIN as /\ as[a].state # "absent"
    <3>1. <<"OPENING", a>> \in DOMAIN js
      BY <2>7, <2>12
    <3> QED
      BY <3>1 DEF Bookings
  <2> QED
    BY <2>3, <2>6, <2>8, <2>9, <2>10, <2>11, <2>12 DEF Bookings, BookedSum
<1> QED
  BY <1>3, <1>4

(* A row is struck, and its entry taken back.                              *)
StruckOne(rs, qs, r) ==
  /\ Altered(rs, qs) /\ r \in DOMAIN rs /\ qs[r].by # None /\ qs[r].amount = rs[r].amount
  /\ \A x \in DOMAIN rs : x # r => qs[x] = rs[x]

EntryTakenBack(js, k, r) == k = Reversed(js, <<"BANK", r>>, <<"REV", <<"BANK", r>>>>)

LEMMA EntryKept ==
  ASSUME NEW as, NEW bs, NEW rs, NEW qs, NEW js, NEW k, NEW r, Bookings(as, rs, js),
         SameOpenings(as, bs), StruckOne(rs, qs, r), EntryTakenBack(js, k, r),
         <<"BANK", r>> \notin DOMAIN js \/ rs[r].by # None
  PROVE  Bookings(bs, qs, k)
<1>1. PICK n : n = <<"BANK", r>>
  OBVIOUS
<1>2. PICK m : m = <<"REV", n>>
  OBVIOUS
<1>3. ~Reversible(js, n, m)
  <2>1. CASE n \in DOMAIN js
    <3>1. BookedAs(rs, js, r) /\ rs[r].by # None
      BY <1>1, <2>1 DEF Bookings
    <3>2. js[n].status # "POSTED"
      BY <1>1, <3>1 DEF BookedAs
    <3> QED
      BY <3>2 DEF Reversible
  <2>2. CASE n \notin DOMAIN js
    BY <2>2 DEF Reversible
  <2> QED
    BY <2>1, <2>2
<1>4. k = js
  BY <1>1, <1>2, <1>3 DEF EntryTakenBack, Reversed
<1>5. BookedStay(rs, qs, js)
  <2> SUFFICES ASSUME NEW x \in DOMAIN rs
               PROVE  /\ <<"BANK", x>> \in DOMAIN js => SameStanding(rs, qs, x)
                      /\ rs[x].by # None => qs[x].by # None
    BY DEF BookedStay
  <2>1. CASE x = r
    BY <2>1 DEF StruckOne, SameStanding
  <2>2. CASE x # r
    BY <2>2 DEF StruckOne, SameStanding
  <2> QED
    BY <2>1, <2>2
<1>6. Altered(rs, qs)
  BY DEF StruckOne
<1>7. Bookings(bs, qs, js)
  BY <1>5, <1>6, BookingsAltered
<1> QED
  BY <1>4, <1>7

SameEntries(js, k) == \A x : <<"BANK", x>> \in DOMAIN k <=> <<"BANK", x>> \in DOMAIN js
BookedLess(rs, qs, js, k, r) == BookedSum(qs, k) = BookedSum(rs, js) - rs[r].amount

LEMMA StandingTaken ==
  ASSUME NEW W, NEW as, NEW rs, NEW qs, NEW js, NEW k, NEW r, RowsFine(W, as, rs),
         StruckOne(rs, qs, r), <<"BANK", r>> \in DOMAIN js, rs[r].by = None,
         SameEntries(js, k)
  PROVE  BookedLess(rs, qs, js, k, r)
<1>1. PICK S, T : S = Booked(rs, js) /\ T = Booked(qs, k)
  OBVIOUS
<1>2. r \in S /\ r \notin T /\ \A x \in DOMAIN rs : x # r => (x \in S <=> x \in T)
  BY <1>1 DEF Booked, StruckOne, Altered, SameEntries
<1>3. S \subseteq DOMAIN rs /\ T \subseteq DOMAIN rs
  BY <1>1 DEF Booked, StruckOne, Altered, SameEntries
<1>4. OneMore(S, T, r)
  BY <1>2, <1>3 DEF OneMore
<1>5. IsFiniteSet(S) /\ \A y \in DOMAIN rs : rs[y].amount \in Int
  BY <1>1, BookedType
<1>6. PICK a \in Int : a = rs[r].amount
  BY <1>2, <1>3, <1>5
<1>7. SameRows(rs, qs, T)
  BY <1>2, <1>3, <1>5 DEF SameRows, StruckOne
<1>8. RowIs(rs, r, a)
  BY <1>6 DEF RowIs
<1>9. RowSum(qs, T) = RowSum(rs, S) - a
  BY <1>4, <1>5, <1>7, <1>8, RowsRemove
<1> QED
  BY <1>1, <1>6, <1>9 DEF BookedSum, BookedLess

LEMMA EntryReversed ==
  ASSUME NEW A, NEW W, NEW as, NEW bs, NEW rs, NEW qs, NEW js, NEW k, NEW r, Bookings(as, rs, js),
         AccountsFine(A, as), IsFiniteSet(A), RowsFine(W, as, rs),
         SameOpenings(as, bs), StruckOne(rs, qs, r), EntryTakenBack(js, k, r),
         <<"BANK", r>> \in DOMAIN js, rs[r].by = None
  PROVE  Bookings(bs, qs, k)
<1>1. PICK n : n = <<"BANK", r>>
  OBVIOUS
<1>2. PICK m : m = <<"REV", n>>
  OBVIOUS
<1>3. BookedAs(rs, js, r) /\ n \in DOMAIN js
  BY <1>1 DEF Bookings
<1>4. m \notin DOMAIN js
  BY <1>1, <1>2 DEF Bookings
<1>5. Reversible(js, n, m) /\ BooksFine(js)
  BY <1>1, <1>3, <1>4 DEF Reversible, BookedAs, Bookings
<1>6. k = Reversed(js, n, m)
  BY <1>1, <1>2 DEF EntryTakenBack
<1>7. ReversedTo(js, k, n, m)
  BY ONLY <1>5, <1>6, ReversedIs
<1>8. MovedBack(js, k, n)
  BY <1>5, <1>7, ReversedMoves
<1>9. /\ DOMAIN k = DOMAIN js \union {m} /\ k[n].lines = js[n].lines /\ k[n].status = "REVERSED"
      /\ \A x \in DOMAIN js : x # n => k[x] = js[x]
  BY <1>7 DEF ReversedTo, Adds, TakenBack
<1>10. PICK a \in Int \ {0} : a = rs[r].amount
  <2>1. rs[r].amount \in Int \ {0}
    BY <1>3 DEF BookedAs, RowsFine, BankRowOK
  <2> QED
    BY <2>1
<1>11. Movement(js[n], "1000") = a
  <2>1. PICK j : j = js[n]
    OBVIOUS
  <2>2. EntryIs(j, a)
    BY <1>1, <1>3, <1>10, <2>1 DEF BookedAs
  <2>3. Movement(j, "1000") = a
    BY <2>2, EntryMoves
  <2> QED
    BY <2>1, <2>3
<1>12. \A x : <<"BANK", x>> \in DOMAIN k <=> <<"BANK", x>> \in DOMAIN js
  BY <1>2, <1>9
<1>13. BookedSum(qs, k) = BookedSum(rs, js) - a
  <2>1. SameEntries(js, k)
    BY <1>12 DEF SameEntries
  <2>2. BookedLess(rs, qs, js, k, r)
    BY <2>1, StandingTaken
  <2> QED
    BY <1>10, <2>2 DEF BookedLess
<1>14. Balance(k, "1000") = OpeningSum(bs) + BookedSum(qs, k)
  <2>1. Balance(k, "1000") = Balance(js, "1000") - a
    BY <1>8, <1>11 DEF MovedBack
  <2>2. Balance(js, "1000") = OpeningSum(as) + BookedSum(rs, js) /\ OpeningSum(bs) = OpeningSum(as)
    BY OpeningsSame DEF Bookings
  <2>a. OpeningSum(as) \in Int
    BY OpeningsType
  <2>b. BookedSum(rs, js) \in Int
    BY BookedType
  <2>3. PICK o \in Int, b \in Int : o = OpeningSum(as) /\ b = BookedSum(rs, js)
    BY <2>a, <2>b
  <2>4. Balance(k, "1000") = (o + b) - a /\ OpeningSum(bs) = o /\ BookedSum(qs, k) = b - a
    BY <1>13, <2>1, <2>2, <2>3
  <2> QED
    BY <2>4
<1>15. ASSUME NEW x, <<"BANK", x>> \in DOMAIN k PROVE BookedAs(qs, k, x)
  <2>1. BookedAs(rs, js, x)
    BY <1>12, <1>15 DEF Bookings
  <2>2. x \in DOMAIN rs /\ x \in DOMAIN qs /\ RowLike(rs[x], qs[x])
    BY <2>1 DEF BookedAs, StruckOne, Altered
  <2>3. CASE x = r
    <3>1. qs[r].by # None /\ qs[r].amount = rs[r].amount
      BY DEF StruckOne
    <3>2. PICK i, j, y, z : i = js[n] /\ j = k[n] /\ y = rs[r] /\ z = qs[r]
      OBVIOUS
    <3>3. EntryIs(i, y.amount) /\ y.group = None /\ ~y.linked /\ RowLike(y, z)
      BY <1>1, <2>1, <2>2, <2>3, <3>2 DEF BookedAs
    <3>4. EntryIs(j, z.amount) /\ j.status = "REVERSED"
      BY <1>9, <3>1, <3>2, <3>3 DEF EntryIs
    <3> QED
      BY <1>1, <2>2, <2>3, <3>1, <3>2, <3>3, <3>4 DEF BookedAs, RowLike
  <2>4. CASE x # r
    <3>1. qs[x] = rs[x]
      BY <2>2, <2>4 DEF StruckOne
    <3>2. k[<<"BANK", x>>] = js[<<"BANK", x>>]
      BY <1>1, <1>9, <1>12, <1>15, <2>4
    <3> QED
      BY <2>1, <2>2, <3>1, <3>2 DEF BookedAs
  <2> QED
    BY <2>3, <2>4
<1>16. ASSUME NEW x, <<"REV", <<"BANK", x>>>> \in DOMAIN k PROVE x \in DOMAIN qs /\ qs[x].by # None
  <2>1. CASE x = r
    BY <2>1 DEF StruckOne, Altered
  <2>2. CASE x # r
    <3>1. <<"REV", <<"BANK", x>>>> \in DOMAIN js
      BY <1>1, <1>2, <1>9, <1>16, <2>2
    <3> QED
      BY <2>2, <3>1 DEF Bookings, StruckOne, Altered
  <2> QED
    BY <2>1, <2>2
<1>17. ASSUME NEW h, <<"TRANSFER", h>> \in DOMAIN k PROVE Movement(k[<<"TRANSFER", h>>], "1000") = 0
  <2>1. <<"TRANSFER", h>> \in DOMAIN js /\ k[<<"TRANSFER", h>>] = js[<<"TRANSFER", h>>]
    BY <1>1, <1>2, <1>9, <1>17
  <2> QED
    BY <2>1 DEF Bookings
<1>18. ASSUME NEW x, <<"OPENING", x>> \in DOMAIN k PROVE x \in DOMAIN bs /\ bs[x].state # "absent"
  <2>1. <<"OPENING", x>> \in DOMAIN js
    BY <1>1, <1>2, <1>9, <1>18
  <2> QED
    BY <2>1 DEF Bookings, SameOpenings
<1>19. BooksFine(k)
  BY <1>8 DEF MovedBack
<1> QED
  BY <1>14, <1>15, <1>16, <1>17, <1>18, <1>19 DEF Bookings

LEMMA EntryTaken ==
  ASSUME NEW A, NEW W, NEW as, NEW bs, NEW rs, NEW qs, NEW js, NEW k, NEW r, Bookings(as, rs, js),
         AccountsFine(A, as), IsFiniteSet(A), RowsFine(W, as, rs),
         SameOpenings(as, bs), StruckOne(rs, qs, r), EntryTakenBack(js, k, r)
  PROVE  Bookings(bs, qs, k)
BY EntryKept, EntryReversed

--------------------------------------------------------------------------------
(* Banking: the operators that the instance has of its own.                *)

LEMMA BankSums ==
  ASSUME NEW s
  PROVE  /\ \A f : Bank(s)!SumFunction(f) = SumFunction(f)
         /\ \A S : Bank(s)!IsFiniteSet(S) <=> IsFiniteSet(S)
<1>1. ASSUME NEW f, NEW S PROVE Bank(s)!SumFunctionOnSet(f, S) = SumFunctionOnSet(f, S)
  BY Zenon DEF Bank!SumFunctionOnSet, Bank!FoldFunctionOnSet, Bank!MapThenFoldSet,
               SumFunctionOnSet, FoldFunctionOnSet, MapThenFoldSet
<1>2. \A f : Bank(s)!SumFunction(f) = SumFunction(f)
  BY Zenon, <1>1 DEF Bank!SumFunction, SumFunction
<1>3. \A S : Bank(s)!IsFiniteSet(S) <=> IsFiniteSet(S)
  BY Zenon DEF Bank!IsFiniteSet, IsFiniteSet
<1> QED
  BY <1>2, <1>3

LEMMA BankBooks ==
  ASSUME NEW s
  PROVE  /\ \A js, a : Bank(s)!Balance(js, a) = Balance(js, a)
         /\ \A d, c, v : Bank(s)!Pair(d, c, v) = Pair(d, c, v)
         /\ \A l : Bank(s)!Normalized(l) = Normalized(l)
         /\ \A js, n, l : Bank(s)!Posted(js, n, l) = Posted(js, n, l)
         /\ \A js, n, r : Bank(s)!Reversed(js, n, r) = Reversed(js, n, r)
<1>1. \A j, a : Bank(s)!Movement(j, a) = Movement(j, a)
  BY Zenon, BankSums DEF Bank!Movement, Movement
<1>2. \A js, N, a : Bank(s)!BalanceOver(js, N, a) = BalanceOver(js, N, a)
  BY Zenon, BankSums, <1>1 DEF Bank!BalanceOver, BalanceOver
<1>3. \A js, a : Bank(s)!Balance(js, a) = Balance(js, a)
  BY Zenon, <1>2 DEF Bank!Balance, Balance
<1>4. \A js, n, j : Bank(s)!Entered(js, n, j) = Entered(js, n, j)
  BY Zenon DEF Bank!Entered, Entered
<1>5. \A d, c, v : Bank(s)!Pair(d, c, v) = Pair(d, c, v)
  BY Zenon DEF Bank!Pair, Bank!Line, Pair, Line
<1>6. \A l : Bank(s)!Normalized(l) = Normalized(l)
  BY Zenon DEF Bank!Normalized, Normalized
<1>7. \A l : Bank(s)!Mirrored(l) = Mirrored(l)
  BY Zenon DEF Bank!Mirrored, Mirrored, Bank!Line, Line
<1>8. \A js, n, l : Bank(s)!Posted(js, n, l) = Posted(js, n, l)
  BY Zenon, <1>4, <1>6 DEF Bank!Posted, Posted
<1>9. \A js, n, r : Bank(s)!Reversed(js, n, r) = Reversed(js, n, r)
  BY Zenon, <1>4, <1>7 DEF Bank!Reversed, Reversed, Bank!Reversible, Reversible
<1> QED
  BY <1>3, <1>5, <1>6, <1>8, <1>9

LEMMA BankStands ==
  ASSUME NEW s
  PROVE  /\ \A rs, a : Bank(s)!Standing(rs, a) = Stand(rs, a)
         /\ \A rs, a : Bank(s)!StandingSum(rs, a) = StandSum(rs, a)
<1>1. \A rs, a : Bank(s)!Standing(rs, a) = Stand(rs, a)
  BY Zenon DEF Bank!Standing, Stand
<1>2. \A rs, a : Bank(s)!StandingSum(rs, a) = StandSum(rs, a)
  BY Zenon, <1>1, BankSums DEF Bank!StandingSum, StandSum, RowSum
<1> QED
  BY <1>1, <1>2

(* What the assumption says of a scene's parameters.                       *)
BankScene(s) ==
  /\ IsFiniteSet(s.accounts) /\ None \notin s.workers \union Nat
  /\ s.openings \subseteq Int /\ s.edits \subseteq Int \ {0} /\ s.legacy \subseteq Int \ {0}
  /\ \A b \in s.batches : IsSequence(b) /\ \A i \in 1 .. Len(b) : b[i] \in Int \ {0}
  /\ \A t \in s.statements : IsSequence(t) /\ \A i \in 1 .. Len(t) : t[i].amount \in Int \ {0}
  /\ s.transfers \subseteq Nat \ {0} /\ s.drawn \subseteq Nat \ {0}

LEMMA BankParameters ==
  ASSUME NEW s, Bank(s)!BankingAssumption
  PROVE  BankScene(s)
<1>1. /\ IsFiniteSet(s.accounts) /\ None \notin s.workers \union Nat
      /\ s.openings \subseteq Int /\ s.edits \subseteq Int \ {0} /\ s.legacy \subseteq Int \ {0}
      /\ s.transfers \subseteq Nat \ {0} /\ s.drawn \subseteq Nat \ {0}
      /\ s.batches \subseteq Seq(Int \ {0})
      /\ \A t \in s.statements : /\ Len(t) \in Nat /\ t = [i \in 1 .. Len(t) |-> t[i]]
                                 /\ \A i \in DOMAIN t : t[i].amount \in Int \ {0}
  BY BankSums DEF Bank!BankingAssumption
<1>2. \A b \in s.batches : IsSequence(b) /\ \A i \in 1 .. Len(b) : b[i] \in Int \ {0}
  <2> TAKE b \in s.batches
  <2>1. PICK S : S = Int \ {0}
    OBVIOUS
  <2>2. b \in Seq(S)
    BY <1>1, <2>1
  <2>3. IsSequence(b) /\ DOMAIN b = 1 .. Len(b)
    BY <2>2, SequenceOf
  <2> QED
    BY <2>1, <2>2, <2>3
<1>3. \A t \in s.statements : IsSequence(t) /\ \A i \in 1 .. Len(t) : t[i].amount \in Int \ {0}
  <2> TAKE t \in s.statements
  <2>1. IsSequence(t)
    BY <1>1 DEF IsSequence
  <2>2. DOMAIN t = 1 .. Len(t)
    BY <2>1, RowsFinite
  <2> QED
    BY <1>1, <2>1, <2>2
<1> QED
  BY <1>1, <1>2, <1>3 DEF BankScene

--------------------------------------------------------------------------------
(* Banking: the invariant of every interleaving.                           *)

BankInv(s) ==
  /\ BankTables(s, accounts, rows, journals)
  /\ s.drawn = {} => AllRight(accounts, rows)
  /\ DOMAIN pc = s.workers /\ DOMAIN job = s.workers
  /\ \A w \in s.workers : BankJob(pc[w], job[w], rows, journals, s.accounts, s)

(* What a request has read of a row stays true.                            *)
Carries(rs, qs, js, k) ==
  /\ DOMAIN rs \subseteq DOMAIN qs
  /\ \A r \in DOMAIN rs : /\ qs[r].group = rs[r].group /\ qs[r].linked = rs[r].linked
                          /\ <<"BANK", r>> \in DOMAIN k => <<"BANK", r>> \in DOMAIN js

BankHolds(s) ==
  /\ BankTables(s, accounts', rows', journals')
  /\ s.drawn = {} => AllRight(accounts', rows')
  /\ Carries(rows, rows', journals, journals')

LEMMA JobCarries ==
  ASSUME NEW l, NEW x, NEW rs, NEW qs, NEW js, NEW k, NEW A, NEW s,
         BankJob(l, x, rs, js, A, s), Carries(rs, qs, js, k)
  PROVE  BankJob(l, x, qs, k, A, s)
<1>1. ASSUME l = "editing"
      PROVE  /\ x.row \in DOMAIN qs /\ qs[x.row].group = None /\ ~qs[x.row].linked
             /\ <<"BANK", x.row>> \notin DOMAIN k
  <2>1. /\ x.row \in DOMAIN rs /\ rs[x.row].group = None /\ ~rs[x.row].linked
        /\ <<"BANK", x.row>> \notin DOMAIN js
    BY <1>1 DEF BankJob
  <2> QED
    BY <2>1 DEF Carries
<1>2. ASSUME l = "reversing" PROVE x.row \in DOMAIN qs /\ ~qs[x.row].linked
  BY <1>2 DEF BankJob, Carries
<1> QED
  BY <1>1, <1>2 DEF BankJob

LEMMA BankTurn ==
  ASSUME NEW s, NEW w \in s.workers, NEW l, NEW x, BankInv(s), Bank(s)!Turn(w, l, x)
  PROVE  /\ DOMAIN pc' = s.workers /\ DOMAIN job' = s.workers
         /\ pc'[w] = l /\ job'[w] = x
         /\ \A v \in s.workers \ {w} : pc'[v] = pc[v] /\ job'[v] = job[v]
BY DEF Bank!Turn, BankInv

LEMMA BankKept ==
  ASSUME NEW s, NEW w \in s.workers, NEW l, NEW x, BankInv(s), Bank(s)!Turn(w, l, x), BankHolds(s),
         BankJob(l, x, rows', journals', s.accounts, s)
  PROVE  BankInv(s)'
<1>1. ASSUME NEW v \in s.workers
      PROVE  BankJob(pc'[v], job'[v], rows', journals', s.accounts, s)
  <2>1. CASE v = w
    BY <2>1, BankTurn
  <2>2. CASE v # w
    <3>1. BankJob(pc'[v], job'[v], rows, journals, s.accounts, s)
      BY <2>2, BankTurn DEF BankInv
    <3> QED
      BY <3>1, JobCarries DEF BankHolds
  <2> QED
    BY <2>1, <2>2
<1>2. DOMAIN pc' = s.workers /\ DOMAIN job' = s.workers
  BY BankTurn
<1> QED
  BY <1>1, <1>2 DEF BankInv, BankHolds

LEMMA BankOutside ==
  ASSUME NEW s, BankInv(s), UNCHANGED <<pc, job>>, BankHolds(s)
  PROVE  BankInv(s)'
<1>1. ASSUME NEW w \in s.workers PROVE BankJob(pc[w], job[w], rows', journals', s.accounts, s)
  <2>1. BankJob(pc[w], job[w], rows, journals, s.accounts, s)
    BY DEF BankInv
  <2> QED
    BY <2>1, JobCarries DEF BankHolds
<1> QED
  BY <1>1 DEF BankInv, BankHolds

LEMMA BankCommits ==
  ASSUME NEW s, NEW w \in s.workers, BankInv(s), Bank(s)!Done(w), BankHolds(s)
  PROVE  BankInv(s)'
<1>1. Bank(s)!Turn(w, "idle", None)
  BY DEF Bank!Done
<1>2. BankJob("idle", None, rows', journals', s.accounts, s)
  BY DEF BankJob
<1> QED
  BY <1>1, <1>2, BankKept

LEMMA BankTurns ==
  ASSUME NEW s, NEW w \in s.workers, NEW l, NEW x, BankInv(s), Bank(s)!Turn(w, l, x),
         UNCHANGED <<accounts, rows, journals>>, BankJob(l, x, rows, journals, s.accounts, s)
  PROVE  BankInv(s)'
<1>1. BankHolds(s)
  BY DEF BankInv, BankHolds, Carries
<1>2. BankJob(l, x, rows', journals', s.accounts, s)
  OBVIOUS
<1> QED
  BY <1>1, <1>2, BankKept

(* Requests that read, try again, or give up.                              *)
BankReading(s, w) ==
  \/ \E acc \in s.accounts : Bank(s)!DeleteRead(w, acc)
  \/ \E acc \in s.accounts : \E b \in s.batches : Bank(s)!RecordRead(w, acc, b)
  \/ \E acc \in s.accounts : \E t \in s.statements : Bank(s)!ImportRead(w, acc, t)
  \/ \E acc \in s.accounts, v \in s.drawn : Bank(s)!DrawRead(w, acc, v)
  \/ \E from, to \in s.accounts, v \in s.transfers : Bank(s)!TransferRead(w, from, to, v)
  \/ \E r \in DOMAIN rows : Bank(s)!ReverseRead(w, r) \/ \E v \in s.edits : Bank(s)!EditRead(w, r, v)
  \/ Bank(s)!Abort(w)

LEMMA NotPosted ==
  ASSUME NEW s, NEW r \in DOMAIN rows, BankInv(s), Bank(s)!Editable(r)
  PROVE  rows[r].group = None /\ ~rows[r].linked /\ <<"BANK", r>> \notin DOMAIN journals
<1>1. /\ rows[r].by = None /\ rows[r].group = None /\ ~rows[r].linked
      /\ ~(<<"BANK", r>> \in DOMAIN journals /\ journals[<<"BANK", r>>].status = "POSTED")
  BY DEF Bank!Editable
<1>2. <<"BANK", r>> \in DOMAIN journals => BookedAs(rows, journals, r)
  BY DEF BankInv, BankTables, Bookings
<1> QED
  BY <1>1, <1>2 DEF BookedAs

LEMMA BankReads ==
  ASSUME NEW s, NEW w \in s.workers, BankScene(s), BankInv(s), BankReading(s, w)
  PROVE  BankInv(s)' /\ UNCHANGED <<accounts, rows, journals>>
<1> DEFINE J(l, x) == BankJob(l, x, rows, journals, s.accounts, s)
<1>1. ASSUME NEW l, NEW x, Bank(s)!Turn(w, l, x), UNCHANGED <<accounts, rows, journals>>, J(l, x)
      PROVE  BankInv(s)' /\ UNCHANGED <<accounts, rows, journals>>
  BY <1>1, BankTurns
<1>2. CASE \E acc \in s.accounts : Bank(s)!DeleteRead(w, acc)
  <2>1. PICK acc \in s.accounts : Bank(s)!DeleteRead(w, acc)
    BY <1>2
  <2>2. PICK x : x = [account |-> acc]
    OBVIOUS
  <2>3. Bank(s)!Turn(w, "deleting", x) /\ UNCHANGED <<accounts, rows, journals>>
    BY <2>1, <2>2 DEF Bank!DeleteRead, Bank!rowVars
  <2>4. J("deleting", x)
    BY <2>2 DEF BankJob
  <2> QED
    BY <1>1, <2>3, <2>4
<1>3. CASE \E acc \in s.accounts : \E b \in s.batches : Bank(s)!RecordRead(w, acc, b)
  <2>1. PICK acc \in s.accounts : \E b \in s.batches : Bank(s)!RecordRead(w, acc, b)
    BY <1>3
  <2>2. PICK b \in s.batches : Bank(s)!RecordRead(w, acc, b)
    BY <2>1
  <2>3. PICK x : x = [attempt |-> 1, account |-> acc, batch |-> b]
    OBVIOUS
  <2>4. Bank(s)!Turn(w, "recording", x) /\ UNCHANGED <<accounts, rows, journals>>
    BY <2>2, <2>3 DEF Bank!RecordRead, Bank!Starts, Bank!rowVars
  <2>5. J("recording", x)
    BY <2>3 DEF BankJob
  <2> QED
    BY <1>1, <2>4, <2>5
<1>4. CASE \E acc \in s.accounts : \E t \in s.statements : Bank(s)!ImportRead(w, acc, t)
  <2>1. PICK acc \in s.accounts : \E t \in s.statements : Bank(s)!ImportRead(w, acc, t)
    BY <1>4
  <2>2. PICK t \in s.statements : Bank(s)!ImportRead(w, acc, t)
    BY <2>1
  <2>3. PICK x : x = [attempt |-> 1, account |-> acc, statement |-> t]
    OBVIOUS
  <2>4. Bank(s)!Turn(w, "importing", x) /\ UNCHANGED <<accounts, rows, journals>>
    BY <2>2, <2>3 DEF Bank!ImportRead, Bank!Starts, Bank!rowVars
  <2>5. J("importing", x)
    BY <2>3 DEF BankJob
  <2> QED
    BY <1>1, <2>4, <2>5
<1>5. CASE \E acc \in s.accounts, v \in s.drawn : Bank(s)!DrawRead(w, acc, v)
  <2>1. PICK acc \in s.accounts, v \in s.drawn : Bank(s)!DrawRead(w, acc, v)
    BY <1>5
  <2>2. PICK x : x = [account |-> acc, amount |-> v,
                      balance |-> accounts[acc].opening + StandSum(rows, acc) - v]
    OBVIOUS
  <2>3. Bank(s)!Turn(w, "drawing", x) /\ UNCHANGED <<accounts, rows, journals>>
    BY <2>1, <2>2, BankStands DEF Bank!DrawRead, Bank!rowVars
  <2>4. x.balance \in Int
    <3>1. accounts[acc].opening \in Int
      BY DEF BankInv, BankTables, AccountsFine, AccountOK
    <3>2. StandSum(rows, acc) \in Int
      BY StandType DEF BankInv, BankTables
    <3>3. v \in Int
      BY DEF BankScene
    <3> QED
      BY <2>2, <3>1, <3>2, <3>3
  <2>5. J("drawing", x)
    BY <2>2, <2>4 DEF BankJob
  <2> QED
    BY <1>1, <2>3, <2>5
<1>6. CASE \E from, to \in s.accounts, v \in s.transfers : Bank(s)!TransferRead(w, from, to, v)
  <2>1. PICK from, to \in s.accounts, v \in s.transfers : Bank(s)!TransferRead(w, from, to, v)
    BY <1>6
  <2>2. PICK x : x = [attempt |-> 1, from |-> from, to |-> to, amount |-> v]
    OBVIOUS
  <2>3. /\ Bank(s)!Turn(w, "transferring", x) /\ UNCHANGED <<accounts, rows, journals>>
        /\ from # to
    BY <2>1, <2>2 DEF Bank!TransferRead, Bank!Starts, Bank!rowVars
  <2>4. J("transferring", x)
    BY <2>2, <2>3 DEF BankJob
  <2> QED
    BY <1>1, <2>3, <2>4
<1>7. CASE \E r \in DOMAIN rows : Bank(s)!ReverseRead(w, r)
  <2>1. PICK r \in DOMAIN rows : Bank(s)!ReverseRead(w, r)
    BY <1>7
  <2>2. PICK x : x = [attempt |-> 1, row |-> r]
    OBVIOUS
  <2>3. /\ Bank(s)!Turn(w, "reversing", x) /\ UNCHANGED <<accounts, rows, journals>>
        /\ ~rows[r].linked
    BY <2>1, <2>2 DEF Bank!ReverseRead, Bank!Starts, Bank!rowVars
  <2>4. J("reversing", x)
    BY <2>2, <2>3 DEF BankJob
  <2> QED
    BY <1>1, <2>3, <2>4
<1>8. CASE \E r \in DOMAIN rows : \E v \in s.edits : Bank(s)!EditRead(w, r, v)
  <2>1. PICK r \in DOMAIN rows : \E v \in s.edits : Bank(s)!EditRead(w, r, v)
    BY <1>8
  <2>2. PICK v \in s.edits : Bank(s)!EditRead(w, r, v)
    BY <2>1
  <2>3. PICK x : x = [attempt |-> 1, row |-> r, amount |-> v]
    OBVIOUS
  <2>4. /\ Bank(s)!Turn(w, "editing", x) /\ UNCHANGED <<accounts, rows, journals>>
        /\ Bank(s)!Editable(r)
    BY <2>2, <2>3 DEF Bank!EditRead, Bank!Starts, Bank!rowVars
  <2>5. J("editing", x)
    BY <2>3, <2>4, NotPosted DEF BankJob
  <2> QED
    BY <1>1, <2>4, <2>5
<1>9. CASE Bank(s)!Abort(w)
  <2>1. Bank(s)!Turn(w, "idle", None) /\ UNCHANGED <<accounts, rows, journals>>
    BY <1>9 DEF Bank!Abort, Bank!GiveUp, Bank!Done, Bank!rowVars
  <2>2. J("idle", None)
    BY DEF BankJob
  <2> QED
    BY <1>1, <2>1, <2>2
<1> QED
  BY <1>2, <1>3, <1>4, <1>5, <1>6, <1>7, <1>8, <1>9 DEF BankReading

LEMMA BankRetries ==
  ASSUME NEW s, NEW w \in s.workers, BankInv(s), Bank(s)!Retry(w)
  PROVE  BankInv(s)' /\ UNCHANGED <<accounts, rows, journals, pc>>
<1>1. PICK next : job' = [job EXCEPT ![w].attempt = next]
  BY DEF Bank!Retry
<1>2. UNCHANGED <<accounts, rows, journals, pc>>
  BY DEF Bank!Retry, Bank!rowVars
<1>3. pc[w] \in {"recording", "importing", "transferring", "editing", "reversing"}
  BY DEF Bank!Retry, Bank!SerialLabels
<1>4. PICK x, y : x = job[w] /\ y = [x EXCEPT !.attempt = next]
  OBVIOUS
<1>5. DOMAIN job' = s.workers /\ job'[w] = y /\ \A v \in s.workers \ {w} : job'[v] = job[v]
  BY <1>1, <1>4 DEF BankInv
<1>6. BankJob(pc[w], y, rows, journals, s.accounts, s)
  <2>1. BankJob(pc[w], x, rows, journals, s.accounts, s)
    BY <1>4 DEF BankInv
  <2>2. CASE pc[w] = "recording"
    BY <1>4, <2>1, <2>2 DEF BankJob
  <2>3. CASE pc[w] = "importing"
    BY <1>4, <2>1, <2>3 DEF BankJob
  <2>4. CASE pc[w] = "transferring"
    BY <1>4, <2>1, <2>4 DEF BankJob
  <2>5. CASE pc[w] = "editing"
    BY <1>4, <2>1, <2>5 DEF BankJob
  <2>6. CASE pc[w] = "reversing"
    BY <1>4, <2>1, <2>6 DEF BankJob
  <2> QED
    BY <1>3, <2>2, <2>3, <2>4, <2>5, <2>6
<1>7. \A v \in s.workers : BankJob(pc'[v], job'[v], rows', journals', s.accounts, s)
  BY <1>2, <1>5, <1>6 DEF BankInv
<1> QED
  BY <1>2, <1>5, <1>7 DEF BankInv

--------------------------------------------------------------------------------
(* Banking: accounts recalculated.                                         *)

BalanceOf(as, rs, a) == as[a].opening + StandSum(rs, a)
AccountWith(x, v) == [state |-> x.state, opening |-> x.opening, balance |-> v]
Rebalanced(as, bs, rs, T) ==
  /\ DOMAIN bs = DOMAIN as
  /\ \A a \in DOMAIN as : bs[a] = IF a \in T THEN AccountWith(as[a], BalanceOf(as, rs, a)) ELSE as[a]
(* Only the accounts of T have their transactions changed.                 *)
Touches(rs, qs, A, T) == \A a \in A \ T : StandSum(qs, a) = StandSum(rs, a)
Healed(bs, rs, qs, A) ==
  \A a \in A : StandSum(qs, a) # StandSum(rs, a) => bs[a].balance = BalanceOf(bs, qs, a)

LEMMA RecalcMeans ==
  ASSUME NEW s, NEW rs, NEW T, AccountsFine(s.accounts, accounts),
         accounts' = Bank(s)!Recalculated(rs, T)
  PROVE  Rebalanced(accounts, accounts', rs, T)
<1>1. accounts' = [a \in s.accounts |->
                     IF a \in T THEN [accounts[a] EXCEPT !.balance = accounts[a].opening + StandSum(rs, a)]
                     ELSE accounts[a]]
  BY BankStands DEF Bank!Recalculated
<1>2. ASSUME NEW a \in s.accounts, a \in T
      PROVE  accounts'[a] = AccountWith(accounts[a], BalanceOf(accounts, rs, a))
  <2>1. PICK x, v : x = accounts[a] /\ v = accounts[a].opening + StandSum(rs, a)
    OBVIOUS
  <2>2. accounts'[a] = [x EXCEPT !.balance = v]
    BY <1>1, <1>2, <2>1
  <2>3. x = [state |-> x.state, opening |-> x.opening, balance |-> x.balance]
    BY <2>1 DEF AccountsFine, AccountOK
  <2>4. [x EXCEPT !.balance = v] = AccountWith(x, v)
    BY <2>3 DEF AccountWith
  <2> QED
    BY <2>1, <2>2, <2>4 DEF BalanceOf
<1>3. \A a \in s.accounts : a \notin T => accounts'[a] = accounts[a]
  BY <1>1
<1>4. DOMAIN accounts' = s.accounts /\ DOMAIN accounts = s.accounts
  BY <1>1 DEF AccountsFine
<1> QED
  BY <1>2, <1>3, <1>4 DEF Rebalanced

LEMMA Rebalances ==
  ASSUME NEW A, NEW W, NEW as, NEW bs, NEW rs, NEW qs, NEW T,
         AccountsFine(A, as), RowsFine(W, as, qs), Rebalanced(as, bs, qs, T), Touches(rs, qs, A, T)
  PROVE  /\ AccountsFine(A, bs) /\ StillHere(as, bs) /\ SameOpenings(as, bs) /\ RowsFine(W, bs, qs)
         /\ AllRight(as, rs) => AllRight(bs, qs)
         /\ Healed(bs, rs, qs, A)
<1>1. DOMAIN as = A /\ DOMAIN bs = A
  BY DEF AccountsFine, Rebalanced
<1>2. ASSUME NEW a \in A
      PROVE  /\ AccountOK(bs[a]) /\ bs[a].state = as[a].state /\ bs[a].opening = as[a].opening
             /\ bs[a].balance = IF a \in T THEN BalanceOf(bs, qs, a) ELSE as[a].balance
  <2>1. PICK x, y : x = as[a] /\ y = bs[a]
    OBVIOUS
  <2>2. PICK v \in Int : v = BalanceOf(as, qs, a)
    <3>1. StandSum(qs, a) \in Int
      BY StandType
    <3>2. as[a].opening \in Int
      BY DEF AccountsFine, AccountOK
    <3>3. PICK i \in Int, j \in Int : i = as[a].opening /\ j = StandSum(qs, a)
      BY <3>1, <3>2
    <3>4. BalanceOf(as, qs, a) = i + j
      BY <3>3 DEF BalanceOf
    <3> QED
      BY <3>4
  <2>3. AccountOK(x) /\ y = IF a \in T THEN AccountWith(x, v) ELSE x
    BY <1>1, <2>1, <2>2 DEF AccountsFine, Rebalanced
  <2>4. /\ AccountOK(y) /\ y.state = x.state /\ y.opening = x.opening
        /\ y.balance = IF a \in T THEN v ELSE x.balance
    BY <2>3 DEF AccountWith, AccountOK
  <2> QED
    BY <2>1, <2>2, <2>4 DEF BalanceOf
<1>3. AccountsFine(A, bs) /\ StillHere(as, bs) /\ SameOpenings(as, bs)
  BY <1>1, <1>2 DEF AccountsFine, StillHere, SameOpenings, Here
<1>4. RowsFine(W, bs, qs)
  <2>1. ASSUME NEW r \in DOMAIN qs PROVE BankRowOK(qs[r], W, bs)
    <3>1. PICK x : x = qs[r]
      OBVIOUS
    <3>2. BankRowOK(x, W, as)
      BY <3>1 DEF RowsFine
    <3> QED
      BY <1>3, <3>1, <3>2 DEF BankRowOK, StillHere
  <2> QED
    BY <2>1 DEF RowsFine
<1>5. ASSUME AllRight(as, rs) PROVE AllRight(bs, qs)
  <2>1. ASSUME NEW a \in A PROVE bs[a].balance = bs[a].opening + StandSum(qs, a)
    <3>1. CASE a \in T
      BY <1>2, <3>1 DEF BalanceOf
    <3>2. CASE a \notin T
      BY <1>1, <1>2, <1>5, <3>2 DEF AllRight, Touches
    <3> QED
      BY <3>1, <3>2
  <2> QED
    BY <1>1, <2>1 DEF AllRight
<1>6. Healed(bs, rs, qs, A)
  BY <1>2 DEF Healed, Touches
<1> QED
  BY <1>3, <1>4, <1>5, <1>6

--------------------------------------------------------------------------------
(* Banking: rows appended.                                                 *)

BankRow(acc, amount, group, print, linked) ==
  [account |-> acc, amount |-> amount, group |-> group, print |-> print,
   linked |-> linked, by |-> None]

LEMMA ListIs ==
  ASSUME NEW n \in Nat, NEW u, u = [i \in 1 .. n |-> u[i]]
  PROVE  IsSequence(u) /\ Len(u) = n
<1> DEFINE S == {u[i] : i \in 1 .. n}
<1>1. u \in [1 .. n -> S]
  OBVIOUS
<1>2. u \in Seq(S)
  <2> HIDE DEF S
  <2> QED
    BY <1>1, SeqDef
<1>3. IsSequence(u) /\ DOMAIN u = 1 .. Len(u)
  BY <1>2, SequenceOf
<1>4. DOMAIN u = 1 .. n
  BY <1>1
<1>5. Len(u) \in Nat
  BY <1>3 DEF IsSequence
<1>6. Len(u) = n
  BY <1>3, <1>4, <1>5
<1> QED
  BY <1>3, <1>6

RowOf(rs, u, r, i) == i \in 1 .. Len(u) /\ r = Len(rs) + i
Extended(rs, u, qs) ==
  /\ Longer(rs, qs) /\ Len(qs) = Len(rs) + Len(u)
  /\ NewRows(rs, qs) = (Len(rs) + 1) .. Len(qs)
  /\ \A r : NewRow(rs, qs, r) => \E i : RowOf(rs, u, r, i) /\ qs[r] = u[i]

LEMMA RowsExtended ==
  ASSUME NEW rs, NEW u, NEW qs, IsSequence(rs), IsSequence(u), qs = rs \o u
  PROVE  Extended(rs, u, qs)
<1>1. /\ IsSequence(qs) /\ Len(qs) = Len(rs) + Len(u)
      /\ DOMAIN rs = 1 .. Len(rs) /\ DOMAIN qs = 1 .. (Len(rs) + Len(u))
      /\ \A i \in 1 .. Len(rs) : qs[i] = rs[i]
      /\ \A i \in 1 .. Len(u) : qs[Len(rs) + i] = u[i]
  <2>1. AppendedTo(rs, u, qs)
    BY Appended
  <2> QED
    BY <2>1 DEF AppendedTo
<1>2. PICK m \in Nat, n \in Nat : m = Len(rs) /\ n = Len(u)
  BY DEF IsSequence
<1>3. Longer(rs, qs)
  BY <1>1, <1>2 DEF Longer
<1>4. NewRows(rs, qs) = (m + 1) .. (m + n)
  BY <1>1, <1>2 DEF NewRows
<1>5. ASSUME NEW r, NewRow(rs, qs, r) PROVE \E i : RowOf(rs, u, r, i) /\ qs[r] = u[i]
  <2>1. r \in (m + 1) .. (m + n)
    BY <1>4, <1>5 DEF NewRow, NewRows
  <2>2. PICK i \in 1 .. n : r = m + i
    <3>1. r - m \in 1 .. n /\ r = m + (r - m)
      BY <2>1
    <3> QED
      BY <3>1
  <2>3. RowOf(rs, u, r, i) /\ qs[r] = u[i]
    BY <1>1, <1>2, <2>2 DEF RowOf
  <2> QED
    BY <2>3
<1> QED
  BY <1>1, <1>2, <1>3, <1>4, <1>5 DEF Extended

(* The entries of new rows.                                                *)
LEMMA EntryLinesAre ==
  ASSUME NEW s, NEW v \in Int \ {0}, NEW j,
         j = [lines |-> Bank(s)!EntryLines(v), status |-> "POSTED"]
  PROVE  EntryPosted(j, v)
<1>1. ASSUME v > 0 PROVE EntryIs(j, v)
  <2>1. j.lines = Pair("1000", "9999", v)
    BY <1>1, BankBooks DEF Bank!EntryLines
  <2>2. Normalized(Pair("1000", "9999", v)) = Pair("1000", "9999", v)
    BY PairWhole
  <2> QED
    BY <1>1, <2>1, <2>2 DEF EntryIs
<1>2. ASSUME v < 0 PROVE EntryIs(j, v)
  <2>1. PICK u \in Int \ {0} : u = - v
    BY <1>2
  <2>2. j.lines = Pair("9999", "1000", u)
    BY <1>2, <2>1, BankBooks DEF Bank!EntryLines
  <2>3. Normalized(Pair("9999", "1000", u)) = Pair("9999", "1000", u)
    BY PairWhole
  <2> QED
    BY <1>2, <2>1, <2>2, <2>3 DEF EntryIs
<1>3. EntryIs(j, v)
  BY <1>1, <1>2
<1>4. LinesOK(j.lines)
  BY <1>3, EntryMoves
<1> QED
  BY <1>3, <1>4 DEF EntryPosted, JournalOK

LEMMA EntriesPosted ==
  ASSUME NEW s, NEW W, NEW as, NEW rs, NEW u, NEW qs, NEW js, NEW k, Extended(rs, u, qs),
         RowsFine(W, as, qs), k = Bank(s)!PostedEntries(js, Len(rs) + 1, qs)
  PROVE  EnteredAll(rs, qs, js, k)
<1> DEFINE N == {<<"BANK", r>> : r \in (Len(rs) + 1) .. Len(qs)}
<1>1. k = [n \in DOMAIN js \union N |->
             IF n \in DOMAIN js THEN js[n]
             ELSE [lines |-> Bank(s)!EntryLines(qs[n[2]].amount), status |-> "POSTED"]]
  BY DEF Bank!PostedEntries
<1>2. N = NewNumbers(rs, qs)
  BY DEF Extended, NewNumbers
<1> HIDE DEF N
<1>3. DOMAIN k = DOMAIN js \union NewNumbers(rs, qs) /\ \A n \in DOMAIN js : k[n] = js[n]
  BY <1>1, <1>2
<1>4. ASSUME NEW r \in NewRows(rs, qs), <<"BANK", r>> \notin DOMAIN js
      PROVE  EntryPosted(k[<<"BANK", r>>], qs[r].amount)
  <2>1. PICK n : n = <<"BANK", r>>
    OBVIOUS
  <2>2. n \in NewNumbers(rs, qs) /\ n[2] = r
    BY <2>1 DEF NewNumbers
  <2>3. k[n] = [lines |-> Bank(s)!EntryLines(qs[r].amount), status |-> "POSTED"]
    BY <1>1, <1>2, <1>4, <2>1, <2>2
  <2>4. PICK v \in Int \ {0} : v = qs[r].amount
    BY DEF RowsFine, BankRowOK, NewRows
  <2>5. PICK j : j = k[n]
    OBVIOUS
  <2>6. EntryPosted(j, v)
    BY <2>3, <2>4, <2>5, EntryLinesAre
  <2> QED
    BY <2>1, <2>4, <2>5, <2>6
<1> QED
  BY <1>3, <1>4 DEF EnteredAll

(* Transactions entered or imported.                                       *)
EntriesFine(es) == IsSequence(es) /\ \A i \in 1 .. Len(es) : es[i].amount \in Int \ {0}
PrintsFresh(rs, acc, es) ==
  \A i \in 1 .. Len(es) : es[i].print # None =>
    /\ \A r \in DOMAIN rs : rs[r].account = acc => rs[r].print # es[i].print
    /\ \A j \in 1 .. Len(es) : j # i => es[j].print # es[i].print

EntryRow(acc, x) == BankRow(acc, x.amount, None, x.print, FALSE)
EntryRows(acc, es) == [i \in 1 .. Len(es) |-> EntryRow(acc, es[i])]
NewEntries(rs, qs, acc, es) ==
  \A r : NewRow(rs, qs, r) => \E i \in 1 .. Len(es) : r = Len(rs) + i /\ qs[r] = EntryRow(acc, es[i])

LEMMA EntriesExtend ==
  ASSUME NEW rs, NEW qs, NEW acc, NEW es, IsSequence(rs), EntriesFine(es),
         qs = rs \o EntryRows(acc, es)
  PROVE  Extended(rs, EntryRows(acc, es), qs) /\ NewEntries(rs, qs, acc, es)
<1>1. PICK n \in Nat : n = Len(es)
  BY DEF EntriesFine, IsSequence
<1>2. PICK u : u = EntryRows(acc, es)
  OBVIOUS
<1>3. u = [i \in 1 .. n |-> EntryRow(acc, es[i])]
  BY <1>1, <1>2 DEF EntryRows
<1>4. u = [i \in 1 .. n |-> u[i]] /\ \A i \in 1 .. n : u[i] = EntryRow(acc, es[i])
  BY <1>3
<1>5. IsSequence(u) /\ Len(u) = n
  BY ONLY <1>1, <1>4, ListIs
<1>6. qs = rs \o u
  BY <1>2
<1>7. Extended(rs, u, qs)
  BY ONLY <1>5, <1>6, IsSequence(rs), RowsExtended
<1>8. NewEntries(rs, qs, acc, es)
  BY <1>1, <1>4, <1>5, <1>7 DEF NewEntries, Extended, RowOf
<1> QED
  BY <1>2, <1>7, <1>8

LEMMA EntryRowsFine ==
  ASSUME NEW s, NEW as, NEW rs, NEW qs, NEW acc, NEW es, EntriesFine(es),
         RowsFine(s.workers, as, rs), Longer(rs, qs), NewEntries(rs, qs, acc, es),
         acc \in DOMAIN as, Here(as[acc])
  PROVE  /\ RowsFine(s.workers, as, qs)
         /\ Touches(rs, qs, DOMAIN as, {acc})
         /\ \A r : NewRow(rs, qs, r) => Plain(qs[r])
<1>1. ASSUME NEW r, NewRow(rs, qs, r)
      PROVE  BankRowOK(qs[r], s.workers, as) /\ Plain(qs[r]) /\ qs[r].account = acc
  <2>1. PICK i \in 1 .. Len(es) : qs[r] = EntryRow(acc, es[i])
    BY <1>1 DEF NewEntries
  <2>2. PICK x, v : x = qs[r] /\ v = es[i].amount /\ v \in Int \ {0}
    BY DEF EntriesFine
  <2>3. x = BankRow(acc, v, None, es[i].print, FALSE)
    BY <2>1, <2>2 DEF EntryRow
  <2>4. /\ BankRowShape(x) /\ x.amount = v /\ x.account = acc /\ x.by = None /\ x.group = None
        /\ x.linked = FALSE
    BY <2>3 DEF BankRow, BankRowShape
  <2>5. BankRowOK(x, s.workers, as) /\ Plain(x)
    BY <2>2, <2>4 DEF BankRowOK, Plain
  <2> QED
    BY <2>2, <2>4, <2>5
<1>2. StillHere(as, as)
  BY DEF StillHere
<1>3. RowsFine(s.workers, as, qs)
  BY <1>1, <1>2, RowsLonger
<1>4. ASSUME NEW a \in DOMAIN as \ {acc} PROVE StandSum(qs, a) = StandSum(rs, a)
  <2>1. \A r : NewRow(rs, qs, r) => qs[r].account # a
    BY <1>1
  <2> QED
    BY <2>1, StandLonger
<1> QED
  BY <1>1, <1>3, <1>4 DEF Touches

LEMMA EntryPrints ==
  ASSUME NEW rs, NEW qs, NEW acc, NEW es, EntriesFine(es), IsSequence(rs), PrintsOnce(rs),
         Longer(rs, qs), NewEntries(rs, qs, acc, es), PrintsFresh(rs, acc, es)
  PROVE  PrintsOnce(qs)
<1>1. ASSUME NEW r, NewRow(rs, qs, r)
      PROVE  \E i \in 1 .. Len(es) : r = Len(rs) + i /\ qs[r].account = acc /\ qs[r].print = es[i].print
  <2>1. PICK i \in 1 .. Len(es) : r = Len(rs) + i /\ qs[r] = EntryRow(acc, es[i])
    BY <1>1 DEF NewEntries
  <2>2. EntryRow(acc, es[i]).account = acc /\ EntryRow(acc, es[i]).print = es[i].print
    BY DEF EntryRow, BankRow
  <2> QED
    BY <2>1, <2>2
<1> SUFFICES ASSUME NEW l \in DOMAIN qs, NEW r \in DOMAIN qs, l # r,
                    qs[l].account = qs[r].account, qs[l].print # None
             PROVE  qs[l].print # qs[r].print
  BY DEF PrintsOnce
<1>2. \A x \in DOMAIN rs : qs[x] = rs[x]
  BY DEF Longer
<1>3. CASE l \in DOMAIN rs /\ r \in DOMAIN rs
  BY <1>2, <1>3 DEF PrintsOnce
<1>4. CASE l \in DOMAIN rs /\ r \notin DOMAIN rs
  <2>1. PICK i \in 1 .. Len(es) : qs[r].account = acc /\ qs[r].print = es[i].print
    BY <1>1, <1>4 DEF NewRow
  <2> QED
    BY <1>2, <1>4, <2>1 DEF PrintsFresh
<1>5. CASE l \notin DOMAIN rs /\ r \in DOMAIN rs
  <2>1. PICK i \in 1 .. Len(es) : qs[l].account = acc /\ qs[l].print = es[i].print
    BY <1>1, <1>5 DEF NewRow
  <2> QED
    BY <1>2, <1>5, <2>1 DEF PrintsFresh
<1>6. CASE l \notin DOMAIN rs /\ r \notin DOMAIN rs
  <2>1. PICK i \in 1 .. Len(es) : l = Len(rs) + i /\ qs[l].print = es[i].print
    BY <1>1, <1>6 DEF NewRow
  <2>2. PICK j \in 1 .. Len(es) : r = Len(rs) + j /\ qs[r].print = es[j].print
    BY <1>1, <1>6 DEF NewRow
  <2> QED
    BY <2>1, <2>2 DEF PrintsFresh
<1> QED
  BY <1>3, <1>4, <1>5, <1>6

(* What a step of banking keeps, and that it puts right what it touches.   *)
BankChanges(s) == BankHolds(s) /\ Healed(accounts', rows, rows', s.accounts)

LEMMA EntriesAdded ==
  ASSUME NEW s, NEW acc \in s.accounts, NEW es, BankScene(s), BankInv(s), EntriesFine(es),
         PrintsFresh(rows, acc, es), Bank(s)!Records(acc, es)
  PROVE  BankChanges(s)
<1>1. DOMAIN es = 1 .. Len(es)
  BY RowsFinite DEF EntriesFine
<1>2. PICK qs : qs = rows \o EntryRows(acc, es)
  OBVIOUS
<1>3. rows \o [i \in DOMAIN es |-> Bank(s)!Row(acc, es[i].amount, None, es[i].print, FALSE)] = qs
  BY <1>1, <1>2 DEF EntryRows, EntryRow, BankRow, Bank!Row
<1>4. /\ Bank(s)!Exists(acc) /\ rows' = qs /\ accounts' = Bank(s)!Recalculated(qs, {acc})
      /\ journals' = Bank(s)!PostedEntries(journals, Len(rows) + 1, qs)
  BY <1>3 DEF Bank!Records
<1>5. /\ AccountsFine(s.accounts, accounts) /\ RowsFine(s.workers, accounts, rows) /\ IsSequence(rows)
      /\ LegsWhole(rows) /\ PrintsOnce(rows) /\ Bookings(accounts, rows, journals)
  BY DEF BankInv, BankTables, RowsFine
<1>6. Extended(rows, EntryRows(acc, es), qs) /\ NewEntries(rows, qs, acc, es) /\ Longer(rows, qs)
  <2>1. Extended(rows, EntryRows(acc, es), qs) /\ NewEntries(rows, qs, acc, es)
    BY <1>2, <1>5, EntriesExtend
  <2> QED
    BY <2>1 DEF Extended
<1>7. DOMAIN accounts = s.accounts /\ Here(accounts[acc])
  BY <1>4, <1>5 DEF AccountsFine, Bank!Exists, Here
<1>8. /\ RowsFine(s.workers, accounts, qs) /\ Touches(rows, qs, s.accounts, {acc})
      /\ \A r : NewRow(rows, qs, r) => Plain(qs[r])
  BY <1>5, <1>6, <1>7, EntryRowsFine
<1>9. PICK bs : bs = accounts'
  OBVIOUS
<1>10. Rebalanced(accounts, accounts', qs, {acc})
  BY <1>4, <1>5, RecalcMeans
<1>11. /\ AccountsFine(s.accounts, bs) /\ StillHere(accounts, bs) /\ SameOpenings(accounts, bs)
       /\ RowsFine(s.workers, bs, qs) /\ (AllRight(accounts, rows) => AllRight(bs, qs))
       /\ Healed(bs, rows, qs, s.accounts)
  <2>1. Rebalanced(accounts, bs, qs, {acc})
    BY <1>9, <1>10
  <2> QED
    BY <1>5, <1>8, <2>1, Rebalances
<1>12. PrintsOnce(qs)
  BY <1>5, <1>6, EntryPrints
<1>13. LegsWhole(qs)
  <2>1. \A r : NewRow(rows, qs, r) => qs[r].group = None
    BY <1>8 DEF Plain
  <2>2. None \notin Nat
    BY DEF BankScene
  <2> QED
    BY <1>5, <1>6, <2>1, <2>2, LegsLonger
<1>14. PICK k : k = journals'
  OBVIOUS
<1>15. EnteredAll(rows, qs, journals, k)
  BY <1>4, <1>6, <1>8, <1>14, EntriesPosted
<1>16. Bookings(bs, qs, k)
  BY <1>5, <1>6, <1>8, <1>11, <1>15, BookingsEntered DEF BankScene
<1>17. Carries(rows, qs, journals, k)
  <2>1. \A r \in DOMAIN rows : r \in DOMAIN qs /\ qs[r] = rows[r]
    BY <1>6 DEF Longer
  <2>2. ASSUME NEW r \in DOMAIN rows, <<"BANK", r>> \in DOMAIN k PROVE <<"BANK", r>> \in DOMAIN journals
    BY <1>15, <2>2 DEF EnteredAll, NewNumbers, NewRows
  <2> QED
    BY <2>1, <2>2 DEF Carries
<1>18. BankTables(s, accounts', rows', journals')
  BY <1>4, <1>9, <1>11, <1>12, <1>13, <1>14, <1>16 DEF BankTables
<1>19. s.drawn = {} => AllRight(accounts', rows')
  BY <1>4, <1>9, <1>11 DEF BankInv
<1> QED
  BY <1>4, <1>9, <1>11, <1>14, <1>17, <1>18, <1>19 DEF BankChanges, BankHolds

LEMMA BankRecorded ==
  ASSUME NEW s, NEW w \in s.workers, BankScene(s), BankInv(s), Bank(s)!RecordCommit(w)
  PROVE  BankInv(s)' /\ BankChanges(s)
<1>1. PICK acc, b : acc = job[w].account /\ b = job[w].batch
  OBVIOUS
<1>2. PICK es : es = [i \in DOMAIN b |-> [amount |-> b[i], print |-> None]]
  OBVIOUS
<1>3. pc[w] = "recording" /\ Bank(s)!Records(acc, es) /\ Bank(s)!Done(w)
  BY <1>1, <1>2 DEF Bank!RecordCommit, Bank!At
<1>4. acc \in s.accounts /\ b \in s.batches
  <2>1. BankJob(pc[w], job[w], rows, journals, s.accounts, s)
    BY DEF BankInv
  <2> QED
    BY <1>1, <1>3, <2>1 DEF BankJob
<1>5. IsSequence(b) /\ \A i \in 1 .. Len(b) : b[i] \in Int \ {0}
  BY <1>4 DEF BankScene
<1>6. PICK n \in Nat : n = Len(b)
  BY <1>5 DEF IsSequence
<1>7. DOMAIN b = 1 .. n
  BY <1>5, <1>6, RowsFinite
<1>8. /\ es = [i \in 1 .. n |-> es[i]]
      /\ \A i \in 1 .. n : es[i].amount = b[i] /\ es[i].print = None
  BY <1>2, <1>7
<1>9. IsSequence(es) /\ Len(es) = n
  BY ONLY <1>6, <1>8, ListIs
<1>10. EntriesFine(es)
  BY <1>5, <1>6, <1>8, <1>9 DEF EntriesFine
<1>11. PrintsFresh(rows, acc, es)
  BY <1>8, <1>9 DEF PrintsFresh
<1>12. BankChanges(s)
  BY ONLY <1>3, <1>4, <1>10, <1>11, BankScene(s), BankInv(s), EntriesAdded
<1> QED
  BY <1>3, <1>12, BankCommits DEF BankChanges

LEMMA BankImported ==
  ASSUME NEW s, NEW w \in s.workers, BankScene(s), BankInv(s), Bank(s)!ImportCommit(w)
  PROVE  BankInv(s)' /\ BankChanges(s)
<1>1. PICK acc, es : acc = job[w].account /\ es = job[w].statement
  OBVIOUS
<1>2. pc[w] = "importing" /\ Bank(s)!New(acc, es) /\ Bank(s)!Records(acc, es) /\ Bank(s)!Done(w)
  BY <1>1 DEF Bank!ImportCommit, Bank!At
<1>3. acc \in s.accounts /\ es \in s.statements
  <2>1. BankJob(pc[w], job[w], rows, journals, s.accounts, s)
    BY DEF BankInv
  <2> QED
    BY <1>1, <1>2, <2>1 DEF BankJob
<1>4. EntriesFine(es)
  BY <1>3 DEF BankScene, EntriesFine
<1>5. DOMAIN es = 1 .. Len(es)
  BY <1>4, RowsFinite DEF EntriesFine
<1>6. PrintsFresh(rows, acc, es)
  BY <1>2, <1>5 DEF PrintsFresh, Bank!New
<1>7. BankChanges(s)
  BY ONLY <1>2, <1>3, <1>4, <1>6, BankScene(s), BankInv(s), EntriesAdded
<1> QED
  BY <1>2, <1>7, BankCommits DEF BankChanges

--------------------------------------------------------------------------------
(* Banking: accounts opened, archived and deleted.                         *)

SameRest(as, bs, acc) ==
  DOMAIN bs = DOMAIN as /\ acc \in DOMAIN as /\ \A a \in DOMAIN as : a # acc => bs[a] = as[a]

(* Rows stay as they are.                                                  *)
LEMMA RowsStay ==
  ASSUME NEW s, UNCHANGED rows
  PROVE  Healed(accounts', rows, rows', s.accounts)
BY DEF Healed

LEMMA NothingStands ==
  ASSUME NEW W, NEW as, NEW rs, NEW a, RowsFine(W, as, rs), ~Here(as[a])
  PROVE  StandSum(rs, a) = 0
<1>1. Stand(rs, a) = {}
  BY DEF Stand, RowsFine, BankRowOK
<1>2. PICK f : f = [r \in {} |-> rs[r].amount]
  OBVIOUS
<1>3. DOMAIN f = {} /\ StandSum(rs, a) = SumFunction(f)
  BY <1>1, <1>2 DEF StandSum, RowSum
<1> QED
  BY <1>3, SumEmpty DEF SumFunction

LEMMA BankOpened ==
  ASSUME NEW s, NEW acc \in s.accounts, NEW v \in s.openings, BankScene(s), BankInv(s),
         Bank(s)!CreateAccount(acc, v)
  PROVE  BankInv(s)' /\ BankChanges(s)
<1>1. /\ accounts[acc] = [state |-> "absent", opening |-> 0, balance |-> 0]
      /\ accounts' = [accounts EXCEPT ![acc] = [state |-> "open", opening |-> v, balance |-> v]]
      /\ UNCHANGED <<rows, pc, job>>
  BY DEF Bank!CreateAccount, Bank!Absent, Bank!requestVars
<1>2. v \in Int
  BY DEF BankScene
<1>3. /\ AccountsFine(s.accounts, accounts) /\ RowsFine(s.workers, accounts, rows)
      /\ LegsWhole(rows) /\ PrintsOnce(rows) /\ Bookings(accounts, rows, journals)
  BY DEF BankInv, BankTables
<1>4. PICK as, bs, k : as = accounts /\ bs = accounts' /\ k = journals'
  OBVIOUS
<1>5. OpenedBy(journals, k, acc, v)
  <2>1. /\ v = 0 => k = journals
        /\ v > 0 => k = Posted(journals, <<"OPENING", acc>>, Pair("1000", "3900", v))
        /\ v < 0 => k = Posted(journals, <<"OPENING", acc>>, Pair("3900", "1000", - v))
    BY <1>2, <1>4, BankBooks DEF Bank!CreateAccount, Bank!OpeningLines
  <2> QED
    BY <1>2, <2>1 DEF OpenedBy
<1>6. PICK x : x = [state |-> "open", opening |-> v, balance |-> v]
  OBVIOUS
<1>7. SameRest(as, bs, acc) /\ bs[acc] = x /\ DOMAIN as = s.accounts
  BY <1>1, <1>3, <1>4, <1>6 DEF SameRest, AccountsFine
<1>8. x.state = "open" /\ x.opening = v /\ x.balance = v /\ AccountOK(x)
  BY <1>2, <1>6 DEF AccountOK, States
<1>9. as[acc].state = "absent" /\ as[acc].opening = 0
  BY <1>1, <1>4
<1>10. OpenedAs(as, bs, acc, v)
  BY <1>3, <1>4, <1>7, <1>8, <1>9 DEF OpenedAs, SameRest, BankScene, AccountsFine, AccountOK
<1>11. AccountsFine(s.accounts, bs) /\ StillHere(as, bs)
  BY <1>3, <1>4, <1>7, <1>8 DEF AccountsFine, SameRest, StillHere, Here
<1>12. RowsFine(s.workers, bs, rows)
  <2>1. Longer(rows, rows) /\ \A r : NewRow(rows, rows, r) => BankRowOK(rows[r], s.workers, bs)
    BY <1>3 DEF Longer, NewRow, RowsFine
  <2> QED
    BY <1>3, <1>4, <1>11, <2>1, RowsLonger
<1>13. Bookings(bs, rows, k)
  BY <1>2, <1>3, <1>4, <1>5, <1>10, BookingsOpened
<1>14. ASSUME AllRight(as, rows) PROVE AllRight(bs, rows)
  <2>1. StandSum(rows, acc) = 0
    <3>1. ~Here(as[acc])
      BY <1>9 DEF Here
    <3> QED
      BY <1>3, <1>4, <3>1, NothingStands
  <2>2. ASSUME NEW a \in DOMAIN bs PROVE bs[a].balance = bs[a].opening + StandSum(rows, a)
    <3>1. CASE a = acc
      <4>1. bs[a].balance = v /\ bs[a].opening = v /\ StandSum(rows, a) = 0
        BY <1>7, <1>8, <2>1, <3>1
      <4> QED
        BY <1>2, <4>1
    <3>2. CASE a # acc
      BY <1>7, <1>14, <2>2, <3>2 DEF AllRight, SameRest
    <3> QED
      BY <3>1, <3>2
  <2> QED
    BY <2>2 DEF AllRight
<1>15. Carries(rows, rows', journals, k)
  <2>1. ASSUME NEW r, <<"BANK", r>> \in DOMAIN k PROVE <<"BANK", r>> \in DOMAIN journals
    <3>1. BooksFine(journals) /\ <<"OPENING", acc>> \notin DOMAIN journals
      BY <1>3, <1>4, <1>9 DEF Bookings
    <3>2. DOMAIN k \subseteq DOMAIN journals \union {<<"OPENING", acc>>}
      BY ONLY <1>2, <1>5, <3>1, OpenedBooks
    <3> QED
      BY <2>1, <3>2
  <2> QED
    BY <1>1, <2>1 DEF Carries
<1>16. BankHolds(s)
  <2>1. s.drawn = {} => AllRight(accounts', rows')
    BY <1>1, <1>4, <1>14 DEF BankInv
  <2> QED
    BY <1>1, <1>3, <1>4, <1>11, <1>12, <1>13, <1>15, <2>1 DEF BankHolds, BankTables
<1> QED
  BY <1>1, <1>16, BankOutside, RowsStay DEF BankChanges

LEMMA BankRestated ==
  ASSUME NEW s, NEW acc \in s.accounts, NEW t \in {"open", "archived", "deleted"}, BankInv(s),
         Here(accounts[acc]), accounts' = [accounts EXCEPT ![acc].state = t],
         t = "deleted" => \A r \in DOMAIN rows : rows[r].account # acc,
         UNCHANGED <<rows, journals>>
  PROVE  BankChanges(s)
<1>1. /\ AccountsFine(s.accounts, accounts) /\ RowsFine(s.workers, accounts, rows)
      /\ LegsWhole(rows) /\ PrintsOnce(rows) /\ Bookings(accounts, rows, journals)
  BY DEF BankInv, BankTables
<1>2. PICK as, bs, x, y : as = accounts /\ bs = accounts' /\ x = accounts[acc] /\ y = accounts'[acc]
  OBVIOUS
<1>3. AccountOK(x) /\ y = [x EXCEPT !.state = t] /\ SameRest(as, bs, acc) /\ DOMAIN as = s.accounts
  BY <1>1, <1>2 DEF AccountsFine, SameRest
<1>4. AccountOK(y) /\ y.state = t /\ y.opening = x.opening /\ y.balance = x.balance
  BY <1>3 DEF AccountOK, States
<1>5. AccountsFine(s.accounts, bs)
  BY <1>1, <1>2, <1>3, <1>4 DEF AccountsFine, SameRest
<1>6. SameOpenings(as, bs)
  BY <1>2, <1>3, <1>4 DEF SameOpenings, SameRest
<1>7. RowsFine(s.workers, bs, rows)
  <2>1. ASSUME NEW r \in DOMAIN rows PROVE BankRowOK(rows[r], s.workers, bs)
    <3>1. PICK z : z = rows[r]
      OBVIOUS
    <3>2. BankRowOK(z, s.workers, as) /\ (t = "deleted" => z.account # acc)
      BY <1>1, <1>2, <3>1 DEF RowsFine
    <3>3. CASE z.account = acc
      <4>1. Here(bs[acc])
        BY <1>2, <1>4, <3>2, <3>3 DEF Here
      <4> QED
        BY <1>3, <3>1, <3>2, <3>3, <4>1 DEF BankRowOK, SameRest
    <3>4. CASE z.account # acc
      BY <1>3, <3>1, <3>2, <3>4 DEF BankRowOK, SameRest
    <3> QED
      BY <3>3, <3>4
  <2> QED
    BY <1>1, <2>1 DEF RowsFine
<1>8. Bookings(bs, rows, journals)
  <2>1. Longer(rows, rows)
    BY <1>1 DEF Longer, RowsFine
  <2> QED
    BY <1>1, <1>2, <1>6, <2>1, BookingsLonger
<1>9. AllRight(as, rows) => AllRight(bs, rows)
  <2>1. \A a \in DOMAIN as : bs[a].balance = as[a].balance /\ bs[a].opening = as[a].opening
    BY <1>2, <1>3, <1>4 DEF SameRest
  <2> QED
    BY <1>3, <2>1 DEF AllRight, SameRest
<1>10. Carries(rows, rows, journals, journals)
  BY DEF Carries
<1> QED
  BY <1>1, <1>2, <1>5, <1>7, <1>8, <1>9, <1>10, RowsStay DEF BankChanges, BankHolds, BankTables, BankInv

LEMMA BankUpdated ==
  ASSUME NEW s, NEW acc \in s.accounts, NEW t \in {"open", "archived"}, BankInv(s),
         Bank(s)!UpdateAccount(acc, t)
  PROVE  BankInv(s)' /\ BankChanges(s)
<1>1. /\ Here(accounts[acc]) /\ accounts' = [accounts EXCEPT ![acc].state = t]
      /\ UNCHANGED <<rows, journals, pc, job>>
  BY DEF Bank!UpdateAccount, Bank!Exists, Here, Bank!requestVars
<1>2. BankChanges(s)
  <2>1. t \in {"open", "archived", "deleted"} /\ t # "deleted"
    OBVIOUS
  <2> QED
    BY <1>1, <2>1, BankRestated
<1> QED
  BY <1>1, <1>2, BankOutside DEF BankChanges

LEMMA BankDeleted ==
  ASSUME NEW s, NEW w \in s.workers, BankInv(s), Bank(s)!DeleteCommit(w)
  PROVE  BankInv(s)' /\ BankChanges(s)
<1>1. PICK acc : acc = job[w].account
  OBVIOUS
<1>2. /\ Here(accounts[acc]) /\ accounts' = [accounts EXCEPT ![acc].state = "deleted"]
      /\ \A r \in DOMAIN rows : rows[r].account # acc
      /\ pc[w] = "deleting" /\ UNCHANGED <<rows, journals>> /\ Bank(s)!Done(w)
  BY <1>1 DEF Bank!DeleteCommit, Bank!At, Bank!Deletable, Bank!Exists, Bank!Used, Here
<1>3. acc \in s.accounts
  <2>1. BankJob(pc[w], job[w], rows, journals, s.accounts, s)
    BY DEF BankInv
  <2> QED
    BY <1>1, <1>2, <2>1 DEF BankJob
<1>4. BankChanges(s)
  BY <1>2, <1>3, BankRestated
<1> QED
  BY <1>2, <1>4, BankCommits DEF BankChanges

(* A transaction of before automatic posting.                              *)
LEMMA BankInherited ==
  ASSUME NEW s, NEW acc \in s.accounts, NEW v \in s.legacy, BankScene(s), BankInv(s),
         Bank(s)!Inherit(acc, v)
  PROVE  BankInv(s)' /\ BankChanges(s)
<1>1. PICK x, es, qs : /\ x = [amount |-> v, print |-> None] /\ es = <<x>>
                       /\ qs = <<BankRow(acc, v, None, None, FALSE)>>
  OBVIOUS
<1>2. /\ rows = << >> /\ Here(accounts[acc]) /\ rows' = qs
      /\ accounts' = Bank(s)!Recalculated(qs, {acc}) /\ UNCHANGED <<journals, pc, job>>
  BY <1>1 DEF Bank!Inherit, Bank!Open, Here, Bank!Row, BankRow, Bank!requestVars
<1>3. /\ AccountsFine(s.accounts, accounts) /\ RowsFine(s.workers, accounts, rows)
      /\ LegsWhole(rows) /\ PrintsOnce(rows) /\ Bookings(accounts, rows, journals)
  BY DEF BankInv, BankTables
<1>4. /\ IsSequence(es) /\ Len(es) = 1 /\ DOMAIN es = 1 .. 1 /\ es[1] = x
      /\ IsSequence(qs) /\ Len(qs) = 1 /\ DOMAIN qs = 1 .. 1
      /\ qs[1] = EntryRow(acc, x) /\ DOMAIN rows = {} /\ Len(rows) = 0
  BY <1>1, <1>2 DEF IsSequence, EntryRow
<1>5. EntriesFine(es)
  BY <1>1, <1>4 DEF EntriesFine, BankScene
<1>6. Longer(rows, qs) /\ NewEntries(rows, qs, acc, es)
  BY <1>4 DEF Longer, NewEntries, NewRow
<1>7. DOMAIN accounts = s.accounts
  BY <1>3 DEF AccountsFine
<1>8. /\ RowsFine(s.workers, accounts, qs) /\ Touches(rows, qs, s.accounts, {acc})
      /\ \A r : NewRow(rows, qs, r) => Plain(qs[r])
  BY <1>2, <1>3, <1>5, <1>6, <1>7, EntryRowsFine
<1>9. PICK bs : bs = accounts'
  OBVIOUS
<1>10. /\ AccountsFine(s.accounts, bs) /\ StillHere(accounts, bs) /\ SameOpenings(accounts, bs)
       /\ RowsFine(s.workers, bs, qs) /\ (AllRight(accounts, rows) => AllRight(bs, qs))
       /\ Healed(bs, rows, qs, s.accounts)
  <2>1. Rebalanced(accounts, bs, qs, {acc})
    BY <1>2, <1>3, <1>9, RecalcMeans
  <2> QED
    BY <1>3, <1>8, <2>1, Rebalances
<1>11. PrintsOnce(qs)
  BY <1>4 DEF PrintsOnce
<1>12. LegsWhole(qs)
  <2>1. \A r : NewRow(rows, qs, r) => qs[r].group = None
    BY <1>8 DEF Plain
  <2>2. None \notin Nat
    BY DEF BankScene
  <2> QED
    BY <1>3, <1>6, <2>1, <2>2, LegsLonger
<1>13. Bookings(bs, qs, journals)
  BY <1>3, <1>6, <1>10, BookingsLonger
<1>14. Carries(rows, qs, journals, journals)
  BY <1>4 DEF Carries
<1>15. BankHolds(s)
  <2>1. s.drawn = {} => AllRight(accounts', rows')
    BY <1>2, <1>9, <1>10 DEF BankInv
  <2> QED
    BY <1>2, <1>9, <1>10, <1>11, <1>12, <1>13, <1>14, <2>1 DEF BankHolds, BankTables
<1> QED
  BY <1>2, <1>9, <1>10, <1>15, BankOutside DEF BankChanges

--------------------------------------------------------------------------------
(* Banking: drawings and transfers.                                        *)

RowReads(x, W, as, acc, v, g) ==
  /\ BankRowOK(x, W, as) /\ x.account = acc /\ x.amount = v /\ x.group = g
  /\ x.print = None /\ x.by = None

LEMMA BankRowIs ==
  ASSUME NEW W, NEW as, NEW acc \in DOMAIN as, NEW v \in Int \ {0}, NEW g \in Nat \union {None},
         NEW linked, NEW x, x = BankRow(acc, v, g, None, linked), Here(as[acc])
  PROVE  RowReads(x, W, as, acc, v, g)
<1>1. /\ BankRowShape(x) /\ x.account = acc /\ x.amount = v /\ x.group = g
      /\ x.print = None /\ x.by = None
  BY DEF BankRow, BankRowShape
<1> QED
  BY <1>1 DEF BankRowOK, RowReads

LEMMA BankDrawn ==
  ASSUME NEW s, NEW w \in s.workers, BankScene(s), BankInv(s), Bank(s)!DrawCommit(w)
  PROVE  BankInv(s)' /\ pc[w] = "drawing"
<1>1. PICK acc, a, v : acc = job[w].account /\ a = job[w].amount /\ v = job[w].balance
  OBVIOUS
<1>2. PICK y, u : y = BankRow(acc, - a, None, None, TRUE) /\ u = <<y>>
  OBVIOUS
<1>3. /\ pc[w] = "drawing" /\ Here(accounts[acc]) /\ rows' = Append(rows, y)
      /\ accounts' = [accounts EXCEPT ![acc].balance = v]
      /\ Bank(s)!Done(w) /\ UNCHANGED journals
  BY <1>1, <1>2 DEF Bank!DrawCommit, Bank!At, Bank!Exists, Here, Bank!Row, BankRow
<1>4. acc \in s.accounts /\ a \in s.drawn /\ v \in Int
  <2>1. BankJob(pc[w], job[w], rows, journals, s.accounts, s)
    BY DEF BankInv
  <2> QED
    BY <1>1, <1>3, <2>1 DEF BankJob
<1>5. /\ AccountsFine(s.accounts, accounts) /\ RowsFine(s.workers, accounts, rows)
      /\ LegsWhole(rows) /\ PrintsOnce(rows) /\ Bookings(accounts, rows, journals)
      /\ IsSequence(rows)
  BY DEF BankInv, BankTables, RowsFine
<1>6. PICK b \in Int \ {0} : b = - a
  BY <1>4 DEF BankScene
<1>7. DOMAIN accounts = s.accounts
  BY <1>5 DEF AccountsFine
<1>8. BankRowOK(y, s.workers, accounts) /\ y.group = None /\ y.print = None
  <2>1. y = BankRow(acc, b, None, None, TRUE)
    BY <1>2, <1>6
  <2>2. PICK g, l : g = None /\ l = TRUE
    OBVIOUS
  <2>3. y = BankRow(acc, b, g, None, l) /\ g \in Nat \union {None} /\ acc \in DOMAIN accounts
    BY <1>4, <1>7, <2>1, <2>2
  <2>4. RowReads(y, s.workers, accounts, acc, b, g)
    BY <1>3, <2>3, BankRowIs
  <2> QED
    BY <2>2, <2>4 DEF RowReads
<1>9. PICK qs : qs = rows'
  OBVIOUS
<1>10. Longer(rows, qs) /\ \A r : NewRow(rows, qs, r) => qs[r] = y
  <2>1. rows \in Seq(ValuesOf(rows) \union {y})
    <3>1. rows \in Seq(ValuesOf(rows))
      BY <1>5, OfItsValues
    <3> QED
      BY <3>1
  <2>2. PICK S : S = ValuesOf(rows) \union {y}
    OBVIOUS
  <2>3. rows \in Seq(S) /\ y \in S /\ qs = Append(rows, y)
    BY <1>3, <1>9, <2>1, <2>2
  <2>4. /\ qs \in Seq(S) /\ DOMAIN rows = 1 .. Len(rows) /\ Len(rows) \in Nat
        /\ DOMAIN qs = 1 .. (Len(rows) + 1)
        /\ \A i \in 1 .. Len(rows) : qs[i] = rows[i]
        /\ qs[Len(rows) + 1] = y
    BY <2>3
  <2>5. IsSequence(qs)
    BY <2>4, SequenceOf
  <2> QED
    BY <2>4, <2>5 DEF Longer, NewRow
<1>11. PICK bs : bs = accounts'
  OBVIOUS
<1>12. AccountsFine(s.accounts, bs) /\ StillHere(accounts, bs) /\ SameOpenings(accounts, bs)
  <2>1. PICK x, z : x = accounts[acc] /\ z = bs[acc]
    OBVIOUS
  <2>2. AccountOK(x) /\ z = [x EXCEPT !.balance = v] /\ SameRest(accounts, bs, acc)
    BY <1>3, <1>4, <1>5, <1>7, <1>11, <2>1 DEF AccountsFine, SameRest
  <2>3. AccountOK(z) /\ z.state = x.state /\ z.opening = x.opening
    BY <1>4, <2>2 DEF AccountOK
  <2> QED
    BY <1>5, <1>7, <2>1, <2>2, <2>3 DEF AccountsFine, StillHere, SameOpenings, SameRest, Here
<1>13. RowsFine(s.workers, bs, qs)
  <2>1. \A r : NewRow(rows, qs, r) => BankRowOK(qs[r], s.workers, bs)
    <3>1. BankRowOK(y, s.workers, bs)
      BY <1>8, <1>12 DEF BankRowOK, StillHere
    <3> QED
      BY <1>10, <3>1
  <2> QED
    BY <1>5, <1>10, <1>12, <2>1, RowsLonger
<1>14. LegsWhole(qs) /\ PrintsOnce(qs)
  <2>1. \A r : NewRow(rows, qs, r) => qs[r].group = None
    BY <1>8, <1>10
  <2>2. \A r : NewRow(rows, qs, r) => qs[r].print = None
    BY <1>8, <1>10
  <2>3. None \notin Nat /\ Longer(rows, qs)
    BY <1>10 DEF BankScene
  <2>4. LegsWhole(qs)
    BY <1>5, <2>1, <2>3, LegsLonger
  <2>5. PrintsOnce(qs)
    BY <1>5, <2>2, <2>3, PrintsLonger
  <2> QED
    BY <2>4, <2>5
<1>15. Bookings(bs, qs, journals)
  BY <1>5, <1>10, <1>12, BookingsLonger
<1>16. Carries(rows, qs, journals, journals)
  BY <1>10 DEF Carries, Longer
<1>17. s.drawn # {}
  BY <1>4
<1>18. BankHolds(s)
  BY <1>3, <1>9, <1>11, <1>12, <1>13, <1>14, <1>15, <1>16, <1>17 DEF BankHolds, BankTables
<1> QED
  BY <1>3, <1>18, BankCommits

(* Two rows more, the legs of a transfer.                                  *)
LegsAdded(rs, qs, g, x, y) ==
  /\ Longer(rs, qs) /\ g = Len(rs) + 1 /\ NewRows(rs, qs) = {g, g + 1} /\ g \in Nat
  /\ qs[g] = x /\ qs[g + 1] = y

LEMMA LegsExtend ==
  ASSUME NEW rs, NEW qs, NEW x, NEW y, IsSequence(rs), qs = rs \o <<x, y>>
  PROVE  LegsAdded(rs, qs, Len(rs) + 1, x, y)
<1>1. PICK u : u = <<x, y>>
  OBVIOUS
<1>2. IsSequence(u) /\ Len(u) = 2 /\ u[1] = x /\ u[2] = y
  BY <1>1 DEF IsSequence
<1>3. AppendedTo(rs, u, qs)
  BY <1>1, <1>2, Appended
<1>4. PICK n \in Nat : n = Len(rs)
  BY DEF IsSequence
<1>5. /\ IsSequence(qs) /\ DOMAIN rs = 1 .. n /\ DOMAIN qs = 1 .. (n + 2)
      /\ (\A i \in 1 .. n : qs[i] = rs[i]) /\ qs[n + 1] = x /\ qs[n + 2] = y
  <2>1. /\ IsSequence(qs) /\ DOMAIN rs = 1 .. n /\ DOMAIN qs = 1 .. (n + 2)
        /\ (\A i \in 1 .. n : qs[i] = rs[i]) /\ \A i \in 1 .. 2 : qs[n + i] = u[i]
    BY <1>2, <1>3, <1>4 DEF AppendedTo
  <2> QED
    BY <1>2, <2>1
<1>6. NewRows(rs, qs) = {n + 1, n + 2} /\ (n + 1) + 1 = n + 2
  BY <1>5 DEF NewRows
<1>7. Longer(rs, qs)
  <2>1. \A i \in 1 .. n : i \in 1 .. (n + 2)
    OBVIOUS
  <2>2. \A i \in DOMAIN rs : i \in 1 .. n /\ i \in DOMAIN qs
    BY <1>5, <2>1
  <2>3. \A i \in DOMAIN rs : i \in DOMAIN qs /\ qs[i] = rs[i]
    BY <1>5, <2>2
  <2> QED
    BY <1>5, <2>3 DEF Longer
<1> QED
  <2>1. PICK g : g = n + 1
    OBVIOUS
  <2>2. g = Len(rs) + 1 /\ NewRows(rs, qs) = {g, g + 1} /\ g \in Nat /\ qs[g] = x /\ qs[g + 1] = y
    <3>1. g \in Nat /\ g + 1 = n + 2
      BY <2>1
    <3> QED
      BY <1>4, <1>5, <1>6, <2>1, <3>1
  <2>3. LegsAdded(rs, qs, g, x, y)
    BY ONLY <1>7, <2>2 DEF LegsAdded
  <2> QED
    BY <2>2, <2>3

LEMMA LegsWholeAdded ==
  ASSUME NEW rs, NEW qs, NEW g, NEW x, NEW y, LegsWhole(rs), LegsAdded(rs, qs, g, x, y),
         x.group = g, y.group = g, y.amount = - x.amount, x.by = None, y.by = None
  PROVE  LegsWhole(qs)
<1> SUFFICES ASSUME NEW r \in DOMAIN qs, NEW h \in Nat, qs[r].group = h
             PROVE  LegsAt(qs, h) /\ r \in {h, h + 1}
  BY DEF LegsWhole
<1>1. CASE r \in DOMAIN rs
  <2>1. rs[r].group = h
    BY <1>1 DEF LegsAdded, Longer
  <2>2. LegsAt(rs, h) /\ r \in {h, h + 1}
    BY <1>1, <2>1 DEF LegsWhole
  <2>3. qs[h] = rs[h] /\ qs[h + 1] = rs[h + 1] /\ h \in DOMAIN qs /\ h + 1 \in DOMAIN qs
    BY <2>2 DEF LegsAt, LegsAdded, Longer
  <2> QED
    BY <2>2, <2>3 DEF LegsAt
<1>2. CASE r \notin DOMAIN rs
  <2>1. r \in {g, g + 1} /\ g \in DOMAIN qs /\ g + 1 \in DOMAIN qs /\ qs[g] = x /\ qs[g + 1] = y
    BY <1>2 DEF LegsAdded, NewRows
  <2>2. h = g
    BY <2>1
  <2> QED
    BY <2>1, <2>2 DEF LegsAt
<1> QED
  BY <1>1, <1>2

LEMMA BankTransferred ==
  ASSUME NEW s, NEW w \in s.workers, BankScene(s), BankInv(s), Bank(s)!TransferCommit(w)
  PROVE  BankInv(s)' /\ BankChanges(s)
<1>1. PICK from, to, a, b, g : /\ from = job[w].from /\ to = job[w].to /\ a = job[w].amount
                               /\ b = - a /\ g = Len(rows) + 1
  OBVIOUS
<1>2. PICK x, y : x = BankRow(from, b, g, None, FALSE) /\ y = BankRow(to, a, g, None, FALSE)
  OBVIOUS
<1>3. PICK qs : qs = rows \o <<x, y>>
  OBVIOUS
<1>4. /\ pc[w] = "transferring" /\ Here(accounts[from]) /\ Here(accounts[to]) /\ rows' = qs
      /\ accounts' = Bank(s)!Recalculated(qs, {from, to})
      /\ journals' = Posted(journals, <<"TRANSFER", g>>, Pair("1000", "1000", a))
      /\ Bank(s)!Done(w)
  <2>1. /\ x = Bank(s)!Row(from, b, g, None, FALSE) /\ y = Bank(s)!Row(to, a, g, None, FALSE)
    BY <1>2 DEF Bank!Row, BankRow
  <2>2. /\ pc[w] = "transferring" /\ Here(accounts[from]) /\ Here(accounts[to]) /\ Bank(s)!Done(w)
        /\ journals' = Bank(s)!Posted(journals, <<"TRANSFER", g>>, Bank(s)!Pair("1000", "1000", a))
    BY <1>1 DEF Bank!TransferCommit, Bank!At, Bank!Exists, Here
  <2>3. rows' = qs /\ accounts' = Bank(s)!Recalculated(rows', {from, to})
    BY <1>1, <1>3, <2>1 DEF Bank!TransferCommit
  <2>4. Bank(s)!Posted(journals, <<"TRANSFER", g>>, Bank(s)!Pair("1000", "1000", a))
          = Posted(journals, <<"TRANSFER", g>>, Pair("1000", "1000", a))
    BY BankBooks
  <2> QED
    BY <2>2, <2>3, <2>4
<1>5. from \in s.accounts /\ to \in s.accounts /\ a \in s.transfers
  <2>1. BankJob(pc[w], job[w], rows, journals, s.accounts, s)
    BY DEF BankInv
  <2> QED
    BY <1>1, <1>4, <2>1 DEF BankJob
<1>6. /\ AccountsFine(s.accounts, accounts) /\ RowsFine(s.workers, accounts, rows)
      /\ LegsWhole(rows) /\ PrintsOnce(rows) /\ Bookings(accounts, rows, journals)
      /\ IsSequence(rows) /\ DOMAIN accounts = s.accounts
  BY DEF BankInv, BankTables, RowsFine, AccountsFine
<1>7. a \in Int \ {0} /\ b \in Int \ {0}
  BY <1>1, <1>5 DEF BankScene
<1>8. LegsAdded(rows, qs, g, x, y) /\ g \in Nat
  <2>1. LegsAdded(rows, qs, Len(rows) + 1, x, y)
    BY <1>3, <1>6, LegsExtend
  <2> QED
    BY <1>1, <2>1 DEF LegsAdded
<1>9. RowReads(x, s.workers, accounts, from, b, g) /\ RowReads(y, s.workers, accounts, to, a, g)
  <2>1. PICK l : l = FALSE
    OBVIOUS
  <2>2. g \in Nat \union {None} /\ from \in DOMAIN accounts /\ to \in DOMAIN accounts
    BY <1>5, <1>6, <1>8
  <2>3. x = BankRow(from, b, g, None, l) /\ y = BankRow(to, a, g, None, l)
    BY <1>2, <2>1
  <2> QED
    BY <1>4, <1>7, <2>2, <2>3, BankRowIs
<1>10. Longer(rows, qs) /\ \A r : NewRow(rows, qs, r) => qs[r] = x \/ qs[r] = y
  BY <1>8 DEF LegsAdded, NewRow, NewRows
<1>11. RowsFine(s.workers, accounts, qs)
  <2>1. \A r : NewRow(rows, qs, r) => BankRowOK(qs[r], s.workers, accounts)
    BY <1>9, <1>10 DEF RowReads
  <2>2. StillHere(accounts, accounts)
    BY DEF StillHere
  <2> QED
    BY <1>6, <1>10, <2>1, <2>2, RowsLonger
<1>12. Touches(rows, qs, s.accounts, {from, to})
  <2>1. ASSUME NEW c \in s.accounts \ {from, to} PROVE StandSum(qs, c) = StandSum(rows, c)
    <3>1. \A r : NewRow(rows, qs, r) => qs[r].account # c
      BY <1>9, <1>10 DEF RowReads
    <3> QED
      BY <1>10, <3>1, StandLonger
  <2> QED
    BY <2>1 DEF Touches
<1>13. PICK bs, T : bs = accounts' /\ T = {from, to}
  OBVIOUS
<1>14. /\ AccountsFine(s.accounts, bs) /\ StillHere(accounts, bs) /\ SameOpenings(accounts, bs)
       /\ RowsFine(s.workers, bs, qs) /\ (AllRight(accounts, rows) => AllRight(bs, qs))
       /\ Healed(bs, rows, qs, s.accounts)
  <2>1. accounts' = Bank(s)!Recalculated(qs, T) /\ Touches(rows, qs, s.accounts, T)
    BY <1>4, <1>12, <1>13
  <2>2. Rebalanced(accounts, bs, qs, T)
    BY <1>6, <1>13, <2>1, RecalcMeans
  <2> QED
    BY <1>6, <1>11, <2>1, <2>2, Rebalances
<1>15. LegsWhole(qs)
  <2>1. /\ x.group = g /\ y.group = g /\ x.amount = b /\ y.amount = a /\ x.by = None /\ y.by = None
    BY <1>9 DEF RowReads
  <2>2. y.amount = - x.amount
    BY <1>1, <1>7, <2>1
  <2> QED
    BY <1>6, <1>8, <2>1, <2>2, LegsWholeAdded
<1>16. PrintsOnce(qs)
  <2>1. \A r : NewRow(rows, qs, r) => qs[r].print = None
    BY <1>9, <1>10 DEF RowReads
  <2> QED
    BY <1>6, <1>10, <2>1, PrintsLonger
<1>17. PICK k : k = journals'
  OBVIOUS
<1>18. Bookings(bs, qs, k)
  <2>1. Bookings(bs, qs, journals)
    BY <1>6, <1>10, <1>14, BookingsLonger
  <2>2. k = Posted(journals, <<"TRANSFER", g>>, Pair("1000", "1000", a))
    BY <1>4, <1>17
  <2> QED
    BY ONLY <1>7, <2>1, <2>2, TransferBooks
<1>19. Carries(rows, qs, journals, k)
  <2>1. DOMAIN k \subseteq DOMAIN journals \union {<<"TRANSFER", g>>}
    BY <1>4, <1>17 DEF Posted, Entered
  <2>2. \A r : <<"BANK", r>> \in DOMAIN k => <<"BANK", r>> \in DOMAIN journals
    BY <2>1
  <2> QED
    BY <1>10, <2>2 DEF Carries, Longer
<1>20. BankHolds(s)
  <2>1. s.drawn = {} => AllRight(accounts', rows')
    BY <1>4, <1>13, <1>14 DEF BankInv
  <2> QED
    BY <1>4, <1>13, <1>14, <1>15, <1>16, <1>17, <1>18, <1>19, <2>1 DEF BankHolds, BankTables
<1> QED
  BY <1>4, <1>13, <1>14, <1>20, BankCommits DEF BankChanges

--------------------------------------------------------------------------------
(* Banking: rows that are corrected or reversed.                           *)

Rewrites(W, rs, qs, T) ==
  /\ Altered(rs, qs)
  /\ \A r \in DOMAIN rs : qs[r].amount \in Int \ {0} /\ qs[r].by \in W \union {None}
  /\ \A r \in DOMAIN rs : rs[r].account \notin T => SameStanding(rs, qs, r)
  /\ \A r \in DOMAIN rs : rs[r].group \in Nat => qs[r].amount = rs[r].amount
  /\ \A g \in Nat : LegsAt(rs, g) => (qs[g].by = None <=> qs[g + 1].by = None)

(* The tables but for the journals.                                        *)
Settles(s, as, bs, rs, qs) ==
  /\ AccountsFine(s.accounts, bs) /\ RowsFine(s.workers, bs, qs) /\ SameOpenings(as, bs)
  /\ LegsWhole(qs) /\ PrintsOnce(qs) /\ (AllRight(as, rs) => AllRight(bs, qs))
  /\ Healed(bs, rs, qs, s.accounts) /\ Altered(rs, qs)

LEMMA RowsRewritten ==
  ASSUME NEW s, NEW qs, NEW T, BankInv(s), Rewrites(s.workers, rows, qs, T),
         accounts' = Bank(s)!Recalculated(qs, T)
  PROVE  Settles(s, accounts, accounts', rows, qs)
<1>1. PICK bs : bs = accounts'
  OBVIOUS
<1>2. /\ AccountsFine(s.accounts, accounts) /\ RowsFine(s.workers, accounts, rows)
      /\ LegsWhole(rows) /\ PrintsOnce(rows)
  BY DEF BankInv, BankTables
<1>3. /\ Altered(rows, qs)
      /\ \A r \in DOMAIN rows : qs[r].amount \in Int \ {0} /\ qs[r].by \in s.workers \union {None}
      /\ \A r \in DOMAIN rows : rows[r].account \notin T => SameStanding(rows, qs, r)
      /\ \A r \in DOMAIN rows : rows[r].group \in Nat => qs[r].amount = rows[r].amount
      /\ \A g \in Nat : LegsAt(rows, g) => (qs[g].by = None <=> qs[g + 1].by = None)
  BY DEF Rewrites
<1>4. RowsFine(s.workers, accounts, qs)
  <2>1. StillHere(accounts, accounts)
    BY DEF StillHere
  <2> QED
    BY <1>2, <1>3, <2>1, RowsAltered
<1>5. Touches(rows, qs, s.accounts, T)
  <2>1. ASSUME NEW a \in s.accounts \ T PROVE StandSum(qs, a) = StandSum(rows, a)
    <3>1. \A r \in DOMAIN rows : rows[r].account = a => SameStanding(rows, qs, r)
      BY <1>3
    <3> QED
      BY <1>3, <3>1, StandAltered
  <2> QED
    BY <2>1 DEF Touches
<1>6. Rebalanced(accounts, bs, qs, T)
  BY <1>1, <1>2, RecalcMeans
<1>7. /\ AccountsFine(s.accounts, bs) /\ SameOpenings(accounts, bs) /\ RowsFine(s.workers, bs, qs)
      /\ (AllRight(accounts, rows) => AllRight(bs, qs)) /\ Healed(bs, rows, qs, s.accounts)
  BY <1>2, <1>4, <1>5, <1>6, Rebalances
<1>8. LegsWhole(qs) /\ PrintsOnce(qs)
  BY <1>2, <1>3, LegsAltered, PrintsAltered
<1> QED
  BY <1>1, <1>3, <1>7, <1>8 DEF Settles

LEMMA BankSettled ==
  ASSUME NEW s, NEW w \in s.workers, BankInv(s), Settles(s, accounts, accounts', rows, rows'),
         Bookings(accounts', rows', journals'),
         \A r : <<"BANK", r>> \in DOMAIN journals' => <<"BANK", r>> \in DOMAIN journals,
         Bank(s)!Done(w)
  PROVE  BankInv(s)' /\ BankChanges(s)
<1>1. /\ AccountsFine(s.accounts, accounts') /\ RowsFine(s.workers, accounts', rows')
      /\ LegsWhole(rows') /\ PrintsOnce(rows') /\ Altered(rows, rows')
      /\ (AllRight(accounts, rows) => AllRight(accounts', rows'))
      /\ Healed(accounts', rows, rows', s.accounts)
  BY DEF Settles
<1>2. Carries(rows, rows', journals, journals')
  BY <1>1 DEF Carries, Altered, RowLike
<1>3. BankTables(s, accounts', rows', journals')
  BY <1>1 DEF BankTables
<1>4. BankHolds(s)
  BY <1>1, <1>2, <1>3 DEF BankHolds, BankInv
<1> QED
  BY <1>1, <1>4, BankCommits DEF BankChanges

LEMMA BankEdited ==
  ASSUME NEW s, NEW w \in s.workers, BankScene(s), BankInv(s), Bank(s)!EditCommit(w)
  PROVE  BankInv(s)' /\ BankChanges(s)
<1>1. PICK r, a, x, y : r = job[w].row /\ a = job[w].amount /\ x = rows[r] /\ y = [x EXCEPT !.amount = a]
  OBVIOUS
<1>2. PICK qs : qs = [rows EXCEPT ![r] = y]
  OBVIOUS
<1>3. PICK T : T = {x.account}
  OBVIOUS
<1>4. /\ pc[w] = "editing" /\ rows' = qs /\ accounts' = Bank(s)!Recalculated(qs, T)
      /\ Bank(s)!Done(w) /\ UNCHANGED journals
  <2>1. qs = [rows EXCEPT ![r].amount = a]
    BY <1>1, <1>2
  <2>2. rows' = qs
    BY <1>1, <2>1 DEF Bank!EditCommit
  <2> QED
    BY <1>1, <1>3, <2>2 DEF Bank!EditCommit, Bank!At
<1>5. /\ r \in DOMAIN rows /\ a \in Int \ {0} /\ rows[r].group = None
      /\ <<"BANK", r>> \notin DOMAIN journals
  <2>1. BankJob(pc[w], job[w], rows, journals, s.accounts, s)
    BY DEF BankInv
  <2> QED
    BY <1>1, <1>4, <2>1 DEF BankJob, BankScene
<1>6. /\ RowsFine(s.workers, accounts, rows) /\ Bookings(accounts, rows, journals)
      /\ \A z \in DOMAIN rows : BankRowOK(rows[z], s.workers, accounts)
  BY DEF BankInv, BankTables, RowsFine
<1>7. RowLike(x, y) /\ y.amount = a /\ y.by = x.by
  BY <1>1, <1>5, <1>6 DEF BankRowOK, BankRowShape, RowLike
<1>8. /\ IsSequence(qs) /\ DOMAIN qs = DOMAIN rows /\ qs[r] = y
      /\ \A z \in DOMAIN rows \ {r} : qs[z] = rows[z]
  <2>1. DOMAIN rows = 1 .. Len(rows) /\ Len(rows) \in Nat
    BY <1>6 DEF RowsFine, IsSequence
  <2>2. /\ DOMAIN qs = DOMAIN rows /\ qs[r] = y /\ \A z \in DOMAIN rows \ {r} : qs[z] = rows[z]
        /\ qs = [z \in DOMAIN rows |-> qs[z]]
    BY <1>2, <1>5
  <2>3. PICK n \in Nat : n = Len(rows)
    BY <2>1
  <2>4. qs = [z \in 1 .. n |-> qs[z]]
    BY <2>1, <2>2, <2>3
  <2>5. IsSequence(qs)
    BY ONLY <2>4, ListIs
  <2> QED
    BY <2>2, <2>5
<1>9. Altered(rows, qs)
  <2>1. ASSUME NEW z \in DOMAIN rows PROVE RowLike(rows[z], qs[z])
    <3>1. CASE z = r
      BY <1>1, <1>7, <1>8, <3>1
    <3>2. CASE z # r
      BY <1>6, <1>8, <3>2 DEF RowLike, BankRowOK
    <3> QED
      BY <3>1, <3>2
  <2> QED
    BY <1>8, <2>1 DEF Altered
<1>10. Rewrites(s.workers, rows, qs, T)
  <2>1. \A z \in DOMAIN rows : qs[z].amount \in Int \ {0} /\ qs[z].by \in s.workers \union {None}
    <3> TAKE z \in DOMAIN rows
    <3>1. rows[z].amount \in Int \ {0} /\ rows[z].by \in s.workers \union {None}
      BY <1>6 DEF BankRowOK
    <3>2. qs[z].by = rows[z].by /\ (qs[z] = rows[z] \/ qs[z].amount = a)
      BY <1>1, <1>7, <1>8
    <3> QED
      BY <1>5, <3>1, <3>2
  <2>2. \A z \in DOMAIN rows : rows[z].account \notin T => SameStanding(rows, qs, z)
    BY <1>1, <1>3, <1>8 DEF SameStanding
  <2>3. None \notin Nat
    BY DEF BankScene
  <2>4. \A z \in DOMAIN rows : rows[z].group \in Nat => qs[z].amount = rows[z].amount
    BY <1>5, <1>8, <2>3
  <2>5. \A g \in Nat : LegsAt(rows, g) => (qs[g].by = None <=> qs[g + 1].by = None)
    <3>1. \A z \in DOMAIN rows : qs[z].by = rows[z].by
      BY <1>1, <1>7, <1>8
    <3> QED
      BY <3>1 DEF LegsAt
  <2> QED
    BY <1>9, <2>1, <2>2, <2>4, <2>5 DEF Rewrites
<1>11. Settles(s, accounts, accounts', rows, qs)
  BY <1>4, <1>10, RowsRewritten
<1>12. Bookings(accounts', qs, journals)
  <2>1. BookedStay(rows, qs, journals)
    BY <1>1, <1>5, <1>7, <1>8 DEF BookedStay, SameStanding
  <2> QED
    BY <1>6, <1>9, <1>11, <2>1, BookingsAltered DEF Settles
<1> QED
  BY <1>4, <1>11, <1>12, BankSettled

(* A transaction, or both legs of a transfer, is reversed.                 *)
StruckAs(w, rs, S, qs) ==
  /\ Altered(rs, qs)
  /\ \A r \in DOMAIN rs : qs[r].amount = rs[r].amount
  /\ \A r \in S : qs[r].by = w
  /\ \A r \in DOMAIN rs \ S : qs[r] = rs[r]

LEMMA RowsStruck ==
  ASSUME NEW W, NEW as, NEW w, NEW rs, NEW S \in SUBSET DOMAIN rs, NEW qs, RowsFine(W, as, rs),
         qs = [r \in DOMAIN rs |-> IF r \in S THEN [rs[r] EXCEPT !.by = w] ELSE rs[r]]
  PROVE  StruckAs(w, rs, S, qs)
<1>1. PICK n \in Nat : n = Len(rs)
  BY DEF RowsFine, IsSequence
<1>2. DOMAIN rs = 1 .. n
  BY <1>1 DEF RowsFine, IsSequence
<1>3. DOMAIN qs = DOMAIN rs
  OBVIOUS
<1>4. IsSequence(qs)
  <2>1. qs = [r \in 1 .. n |-> qs[r]]
    BY <1>2
  <2> QED
    BY ONLY <2>1, ListIs
<1>5. ASSUME NEW r \in DOMAIN rs
      PROVE  /\ RowLike(rs[r], qs[r]) /\ qs[r].amount = rs[r].amount
             /\ (r \in S => qs[r].by = w) /\ (r \notin S => qs[r] = rs[r])
  <2>1. PICK x, y : x = rs[r] /\ y = qs[r]
    OBVIOUS
  <2>2. BankRowShape(x)
    BY <2>1 DEF RowsFine, BankRowOK
  <2>3. y = IF r \in S THEN [x EXCEPT !.by = w] ELSE x
    BY <2>1
  <2>4. CASE r \in S
    BY <2>1, <2>2, <2>3, <2>4 DEF BankRowShape, RowLike
  <2>5. CASE r \notin S
    BY <2>1, <2>2, <2>3, <2>5 DEF RowLike
  <2> QED
    BY <2>4, <2>5
<1> QED
  BY <1>3, <1>4, <1>5 DEF StruckAs, Altered

LEMMA StruckRewrites ==
  ASSUME NEW W, NEW as, NEW w \in W, NEW rs, NEW S \in SUBSET DOMAIN rs, NEW qs, NEW T,
         RowsFine(W, as, rs), StruckAs(w, rs, S, qs), None \notin W,
         \A r \in S : rs[r].account \in T,
         \A g \in Nat : LegsAt(rs, g) => (qs[g].by = None <=> qs[g + 1].by = None)
  PROVE  Rewrites(W, rs, qs, T)
<1>1. ASSUME NEW r \in DOMAIN rs
      PROVE  /\ qs[r].amount \in Int \ {0} /\ qs[r].by \in W \union {None}
             /\ (rs[r].account \notin T => SameStanding(rs, qs, r))
  <2>1. rs[r].amount \in Int \ {0} /\ rs[r].by \in W \union {None}
    BY DEF RowsFine, BankRowOK
  <2>2. qs[r].amount = rs[r].amount /\ (r \in S => qs[r].by = w) /\ (r \notin S => qs[r] = rs[r])
    BY DEF StruckAs
  <2> QED
    BY <2>1, <2>2 DEF SameStanding
<1>2. Altered(rs, qs) /\ \A r \in DOMAIN rs : qs[r].amount = rs[r].amount
  BY DEF StruckAs
<1> QED
  BY <1>1, <1>2 DEF Rewrites

LEMMA ReversalNumbers ==
  ASSUME NEW js, NEW k, NEW n, k = Reversed(js, n, <<"REV", n>>)
  PROVE  \A r : <<"BANK", r>> \in DOMAIN k => <<"BANK", r>> \in DOMAIN js
<1>1. DOMAIN k \subseteq DOMAIN js \union {<<"REV", n>>}
  BY DEF Reversed, Entered
<1> QED
  BY <1>1

LEMMA EntryStruck ==
  ASSUME NEW s, NEW w \in s.workers, BankScene(s), BankInv(s), NEW r \in DOMAIN rows, NEW qs,
         rows[r].group = None, StruckAs(w, rows, {r}, qs),
         accounts' = Bank(s)!Recalculated(qs, {rows[r].account}),
         NEW k, EntryTakenBack(journals, k, r)
  PROVE  Settles(s, accounts, accounts', rows, qs) /\ Bookings(accounts', qs, k)
<1>1. PICK S, T : S = {r} /\ T = {rows[r].account}
  OBVIOUS
<1>2. /\ RowsFine(s.workers, accounts, rows) /\ Bookings(accounts, rows, journals)
      /\ AccountsFine(s.accounts, accounts) /\ IsFiniteSet(s.accounts)
  BY DEF BankInv, BankTables, BankScene
<1>3. None \notin s.workers /\ None \notin Nat
  BY DEF BankScene
<1>4. \A x \in DOMAIN rows \ {r} : qs[x] = rows[x]
  BY DEF StruckAs
<1>5. ASSUME NEW g \in Nat, LegsAt(rows, g) PROVE qs[g].by = None <=> qs[g + 1].by = None
  <2>1. /\ g \in DOMAIN rows /\ g + 1 \in DOMAIN rows /\ rows[g].group = g /\ rows[g + 1].group = g
        /\ rows[g].by = None <=> rows[g + 1].by = None
    BY <1>5 DEF LegsAt
  <2>2. g # r /\ g + 1 # r
    BY <1>3, <2>1
  <2> QED
    BY <1>4, <2>1, <2>2
<1>6. Rewrites(s.workers, rows, qs, T)
  <2>1. S \in SUBSET DOMAIN rows /\ \A x \in S : rows[x].account \in T
    BY <1>1
  <2>2. StruckAs(w, rows, S, qs)
    BY <1>1
  <2> QED
    BY <1>2, <1>3, <1>5, <2>1, <2>2, StruckRewrites
<1>7. Settles(s, accounts, accounts', rows, qs)
  BY <1>1, <1>6, RowsRewritten
<1>8. StruckOne(rows, qs, r)
  <2>1. Altered(rows, qs) /\ qs[r].by = w /\ qs[r].amount = rows[r].amount
    BY DEF StruckAs
  <2> QED
    BY <1>3, <1>4, <2>1 DEF StruckOne
<1>9. PICK bs, js, rs : bs = accounts' /\ js = journals /\ rs = rows
  OBVIOUS
<1>10. SameOpenings(accounts, bs)
  BY <1>7, <1>9 DEF Settles
<1>11. Bookings(bs, qs, k)
  BY <1>2, <1>8, <1>10, EntryTaken
<1> QED
  BY <1>7, <1>9, <1>11

LEMMA TransferStruck ==
  ASSUME NEW s, NEW w \in s.workers, BankScene(s), BankInv(s), NEW g \in Nat, NEW S, NEW T, NEW qs,
         S = {l \in DOMAIN rows : rows[l].group = g /\ rows[l].by = None},
         \A l \in S : rows[l].account \in T,
         StruckAs(w, rows, S, qs), accounts' = Bank(s)!Recalculated(qs, T),
         NEW k, k = Reversed(journals, <<"TRANSFER", g>>, <<"REV", <<"TRANSFER", g>>>>)
  PROVE  Settles(s, accounts, accounts', rows, qs) /\ Bookings(accounts', qs, k)
<1>1. RowsFine(s.workers, accounts, rows) /\ Bookings(accounts, rows, journals)
  BY DEF BankInv, BankTables
<1>2. None \notin s.workers /\ None \notin Nat
  BY DEF BankScene
<1>3. /\ Altered(rows, qs) /\ (\A l \in S : qs[l].by = w) /\ (\A l \in DOMAIN rows \ S : qs[l] = rows[l])
      /\ \A l \in DOMAIN rows : qs[l].amount = rows[l].amount
  BY DEF StruckAs
<1>4. ASSUME NEW h \in Nat, LegsAt(rows, h) PROVE qs[h].by = None <=> qs[h + 1].by = None
  <2>1. /\ h \in DOMAIN rows /\ h + 1 \in DOMAIN rows /\ rows[h].group = h /\ rows[h + 1].group = h
        /\ rows[h].by = None <=> rows[h + 1].by = None
    BY <1>4 DEF LegsAt
  <2>2. h \in S <=> h + 1 \in S
    BY <2>1
  <2>3. CASE h \in S
    BY <1>2, <1>3, <2>2, <2>3
  <2>4. CASE h \notin S
    BY <1>3, <2>1, <2>2, <2>4
  <2> QED
    BY <2>3, <2>4
<1>5. Rewrites(s.workers, rows, qs, T)
  <2>1. S \in SUBSET DOMAIN rows
    OBVIOUS
  <2> QED
    BY <1>1, <1>2, <1>4, <2>1, StruckRewrites
<1>6. Settles(s, accounts, accounts', rows, qs)
  BY <1>5, RowsRewritten
<1>7. BookedStay(rows, qs, journals)
  <2>1. ASSUME NEW r \in DOMAIN rows, <<"BANK", r>> \in DOMAIN journals PROVE SameStanding(rows, qs, r)
    <3>1. rows[r].group = None
      BY <1>1, <2>1 DEF Bookings, BookedAs
    <3>2. r \notin S
      BY <1>2, <3>1
    <3> QED
      BY <1>3, <3>2 DEF SameStanding
  <2>2. ASSUME NEW r \in DOMAIN rows, rows[r].by # None PROVE qs[r].by # None
    BY <1>2, <1>3, <2>2
  <2> QED
    BY <2>1, <2>2 DEF BookedStay
<1>8. PICK bs : bs = accounts'
  OBVIOUS
<1>9. Bookings(bs, qs, journals)
  BY <1>1, <1>3, <1>6, <1>7, <1>8, BookingsAltered DEF Settles
<1>10. Bookings(bs, qs, k)
  BY ONLY <1>9, k = Reversed(journals, <<"TRANSFER", g>>, <<"REV", <<"TRANSFER", g>>>>), TransferTaken
<1> QED
  BY <1>6, <1>8, <1>10

LEMMA BankReversed ==
  ASSUME NEW s, NEW w \in s.workers, BankScene(s), BankInv(s), Bank(s)!ReverseCommit(w)
  PROVE  BankInv(s)' /\ BankChanges(s)
<1>1. PICK r, g : r = job[w].row /\ g = rows[r].group
  OBVIOUS
<1>2. PICK S : S = Bank(s)!Struck(r)
  OBVIOUS
<1>3. PICK T : T = Bank(s)!Touched(r)
  OBVIOUS
<1>4. PICK n : n = Bank(s)!PostedAs(r)
  OBVIOUS
<1>5. PICK qs : qs = rows'
  OBVIOUS
<1>6. /\ pc[w] = "reversing" /\ rows' = qs /\ accounts' = Bank(s)!Recalculated(qs, T)
      /\ qs = [l \in DOMAIN rows |-> IF l \in S THEN [rows[l] EXCEPT !.by = w] ELSE rows[l]]
      /\ journals' = Reversed(journals, n, <<"REV", n>>) /\ Bank(s)!Done(w)
  BY <1>1, <1>2, <1>3, <1>4, <1>5, BankBooks DEF Bank!ReverseCommit, Bank!At
<1>7. r \in DOMAIN rows
  <2>1. BankJob(pc[w], job[w], rows, journals, s.accounts, s)
    BY DEF BankInv
  <2> QED
    BY <1>1, <1>6, <2>1 DEF BankJob
<1>8. RowsFine(s.workers, accounts, rows)
  BY DEF BankInv, BankTables
<1>9. g \in Nat \union {None}
  BY <1>1, <1>7, <1>8 DEF RowsFine, BankRowOK
<1>10. PICK k : k = journals'
  OBVIOUS
<1>11. Settles(s, accounts, accounts', rows, qs) /\ Bookings(accounts', qs, k)
  <2>1. CASE g = None
    <3>1. S = {r} /\ T = {rows[r].account} /\ n = <<"BANK", r>>
      BY <1>1, <1>2, <1>3, <1>4, <2>1 DEF Bank!Struck, Bank!Touched, Bank!PostedAs
    <3>2. S \in SUBSET DOMAIN rows
      BY <1>7, <3>1
    <3>3. StruckAs(w, rows, S, qs)
      BY <1>6, <1>8, <3>2, RowsStruck
    <3>4. EntryTakenBack(journals, k, r)
      BY <1>6, <1>10, <3>1 DEF EntryTakenBack
    <3>5. StruckAs(w, rows, {r}, qs) /\ accounts' = Bank(s)!Recalculated(qs, {rows[r].account})
      BY <1>6, <3>1, <3>3
    <3> QED
      BY <1>1, <1>7, <2>1, <3>4, <3>5, EntryStruck
  <2>2. CASE g \in Nat
    <3>1. g # None
      BY <2>2 DEF BankScene
    <3>2. /\ S = {l \in DOMAIN rows : rows[l].group = g /\ rows[l].by = None}
          /\ T = {rows[l].account : l \in {r2 \in DOMAIN rows : rows[r2].group = g}}
          /\ n = <<"TRANSFER", g>>
      BY <1>1, <1>2, <1>3, <1>4, <3>1 DEF Bank!Struck, Bank!Touched, Bank!PostedAs, Bank!Legs
    <3>3. \A l \in S : rows[l].account \in T
      BY <3>2
    <3>4. S \in SUBSET DOMAIN rows
      BY <3>2
    <3>5. StruckAs(w, rows, S, qs)
      BY <1>6, <1>8, <3>4, RowsStruck
    <3>6. k = Reversed(journals, <<"TRANSFER", g>>, <<"REV", <<"TRANSFER", g>>>>)
      BY <1>6, <1>10, <3>2
    <3> QED
      BY <1>6, <2>2, <3>2, <3>3, <3>5, <3>6, TransferStruck
  <2> QED
    BY <1>9, <2>1, <2>2
<1>12. \A x : <<"BANK", x>> \in DOMAIN k => <<"BANK", x>> \in DOMAIN journals
  <2>1. k = Reversed(journals, n, <<"REV", n>>)
    BY <1>6, <1>10
  <2> QED
    BY ONLY <2>1, ReversalNumbers
<1> QED
  BY <1>5, <1>6, <1>10, <1>11, <1>12, BankSettled

--------------------------------------------------------------------------------
(* Banking: every step.                                                    *)

Serially == {"recording", "importing", "transferring", "editing", "reversing"}
BankHealing(s) ==
  (\E w \in s.workers : pc[w] \in Serially /\ pc'[w] = "idle")
    => Healed(accounts', rows, rows', s.accounts)

LEMMA BankManaged ==
  ASSUME NEW s, BankScene(s), BankInv(s), Bank(s)!Manage
  PROVE  BankInv(s)' /\ BankHealing(s)
<1>1. BankInv(s)' /\ BankChanges(s)
  <2>1. CASE \E acc \in s.accounts, v \in s.openings : Bank(s)!CreateAccount(acc, v)
    BY <2>1, BankOpened
  <2>2. CASE \E acc \in s.accounts, t \in {"open", "archived"} : Bank(s)!UpdateAccount(acc, t)
    BY <2>2, BankUpdated
  <2>3. CASE \E acc \in s.accounts, v \in s.legacy : Bank(s)!Inherit(acc, v)
    BY <2>3, BankInherited
  <2> QED
    BY <2>1, <2>2, <2>3 DEF Bank!Manage
<1> QED
  BY <1>1 DEF BankHealing, BankChanges

LEMMA BankServes ==
  ASSUME NEW s, NEW w \in s.workers, BankScene(s), BankInv(s), Bank(s)!Arrive(w) \/ Bank(s)!Serve(w)
  PROVE  BankInv(s)' /\ BankHealing(s)
<1>1. CASE BankReading(s, w) \/ Bank(s)!Retry(w)
  <2>1. BankInv(s)' /\ UNCHANGED rows
    BY <1>1, BankReads, BankRetries
  <2> QED
    BY <2>1, RowsStay DEF BankHealing
<1>2. CASE \/ Bank(s)!DeleteCommit(w) \/ Bank(s)!RecordCommit(w) \/ Bank(s)!ImportCommit(w)
           \/ Bank(s)!EditCommit(w) \/ Bank(s)!TransferCommit(w) \/ Bank(s)!ReverseCommit(w)
  <2>1. BankInv(s)' /\ BankChanges(s)
    BY <1>2, BankDeleted, BankRecorded, BankImported, BankEdited, BankTransferred, BankReversed
  <2> QED
    BY <2>1 DEF BankHealing, BankChanges
<1>3. CASE Bank(s)!DrawCommit(w)
  <2>1. BankInv(s)' /\ pc[w] = "drawing"
    BY <1>3, BankDrawn
  <2>2. \A v \in s.workers \ {w} : pc'[v] = pc[v]
    BY <1>3, BankTurn DEF Bank!DrawCommit, Bank!Done
  <2> QED
    BY <2>1, <2>2 DEF BankHealing, Serially
<1>4. BankReading(s, w) \/ Bank(s)!Retry(w) \/ Bank(s)!DrawCommit(w)
      \/ \/ Bank(s)!DeleteCommit(w) \/ Bank(s)!RecordCommit(w) \/ Bank(s)!ImportCommit(w)
         \/ Bank(s)!EditCommit(w) \/ Bank(s)!TransferCommit(w) \/ Bank(s)!ReverseCommit(w)
  BY DEF Bank!Arrive, Bank!Serve, BankReading
<1> QED
  BY <1>1, <1>2, <1>3, <1>4

LEMMA BankStep ==
  ASSUME NEW s, BankScene(s), BankInv(s), Bank(s)!Next
  PROVE  BankInv(s)' /\ BankHealing(s)
BY BankManaged, BankServes DEF Bank!Next

LEMMA BankStill ==
  ASSUME NEW s, UNCHANGED <<accounts, rows, journals, pc, job>>
  PROVE  (BankInv(s) => BankInv(s)') /\ BankHealing(s)
<1>1. BankInv(s) => BankInv(s)'
  BY DEF BankInv
<1> QED
  BY <1>1, RowsStay DEF BankHealing

LEMMA BankStart ==
  ASSUME NEW s, BankScene(s), Bank(s)!Init
  PROVE  BankInv(s)
<1>1. PICK as, rs, js : as = accounts /\ rs = rows /\ js = journals
  OBVIOUS
<1>2. /\ as = [a \in s.accounts |-> [state |-> "absent", opening |-> 0, balance |-> 0]]
      /\ rs = << >> /\ DOMAIN js = {}
      /\ pc = [w \in s.workers |-> "idle"] /\ DOMAIN job = s.workers
  BY <1>1 DEF Bank!Init, Bank!Absent, Bank!NoRequests
<1>3. DOMAIN rs = {} /\ IsSequence(rs)
  <2>1. rs \in Seq({}) /\ Len(rs) = 0
    BY <1>2
  <2>2. IsSequence(rs) /\ DOMAIN rs = 1 .. Len(rs)
    BY <2>1, SequenceOf
  <2> QED
    BY <2>1, <2>2
<1>4. AccountsFine(s.accounts, as) /\ \A a \in s.accounts : as[a].opening = 0 /\ as[a].balance = 0
  BY <1>2 DEF AccountsFine, AccountOK, States
<1>5. RowsFine(s.workers, as, rs) /\ LegsWhole(rs) /\ PrintsOnce(rs)
  BY <1>3 DEF RowsFine, LegsWhole, PrintsOnce
<1>6. \A T : T \subseteq DOMAIN rs => RowSum(rs, T) = 0
  <2> TAKE T
  <2>1. PICK f : f = [x \in {} |-> rs[x].amount]
    OBVIOUS
  <2>2. DOMAIN f = {} /\ IsFiniteSet(DOMAIN f)
    BY <2>1, FS_EmptySet
  <2>3. SumFunction(f) = 0
    BY <2>2, TotalType
  <2> QED
    <3>1. T \subseteq DOMAIN rs => T = {}
      BY <1>3
    <3>2. RowSum(rs, {}) = 0
      BY <2>1, <2>3 DEF RowSum
    <3> QED
      BY <3>1, <3>2
<1>7. AllRight(as, rs)
  <2>1. \A a : StandSum(rs, a) = 0
    BY <1>6 DEF StandSum, Stand
  <2> QED
    <3>1. DOMAIN as = s.accounts /\ 0 + 0 = 0
      BY <1>4 DEF AccountsFine
    <3>2. \A a \in DOMAIN as : as[a].balance = 0 /\ as[a].opening = 0 /\ StandSum(rs, a) = 0
      BY <1>4, <2>1, <3>1
    <3> QED
      BY ONLY <3>1, <3>2 DEF AllRight
<1>8. OpeningSum(as) = 0
  <2>1. PICK f : f = [a \in s.accounts |-> as[a].opening]
    OBVIOUS
  <2>2. DOMAIN f = s.accounts /\ IsFiniteSet(s.accounts) /\ \A a \in s.accounts : f[a] = 0
    BY <1>4, <2>1 DEF BankScene
  <2>3. SumFunctionOnSet(f, s.accounts) = 0
    BY ONLY <2>2, SumZero
  <2> QED
    BY <1>4, <2>1, <2>2, <2>3 DEF OpeningSum, SumFunction, AccountsFine
<1>9. Bookings(as, rs, js)
  <2>1. BooksFine(js) /\ Balance(js, "1000") = 0
    BY <1>2, BooksEmpty
  <2>2. BookedSum(rs, js) = 0
    BY <1>6 DEF BookedSum, Booked
  <2> QED
    BY <1>2, <1>8, <2>1, <2>2 DEF Bookings
<1>10. \A w \in s.workers : BankJob(pc[w], job[w], rs, js, s.accounts, s)
  BY <1>2 DEF BankJob
<1>11. BankTables(s, as, rs, js)
  BY <1>4, <1>5, <1>9 DEF BankTables
<1> QED
  BY <1>1, <1>2, <1>7, <1>10, <1>11 DEF BankInv

--------------------------------------------------------------------------------
(* Banking: what the invariant says of a scene.                            *)

LEMMA BankTypes ==
  ASSUME NEW s, BankScene(s), BankInv(s)
  PROVE  Bank(s)!TypeOK /\ Bank(s)!TransferWhole
<1>1. /\ AccountsFine(s.accounts, accounts) /\ RowsFine(s.workers, accounts, rows) /\ LegsWhole(rows)
      /\ None \notin Nat
  BY DEF BankInv, BankTables, BankScene
<1>2. \A a \in s.accounts : accounts[a].state \in {"absent", "open", "archived", "deleted"}
  BY <1>1 DEF AccountsFine, AccountOK, States
<1>3. \A r \in DOMAIN rows :
        /\ accounts[rows[r].account].state \in {"open", "archived"} /\ rows[r].amount # 0
        /\ rows[r].by \in s.workers \union {None} /\ rows[r].group \in Nat \union {None}
  BY <1>1 DEF RowsFine, BankRowOK, Here
<1>4. ASSUME NEW l \in DOMAIN rows, NEW r \in DOMAIN rows, rows[l].group # None,
             rows[l].group = rows[r].group
      PROVE  rows[l].by = None <=> rows[r].by = None
  <2>1. PICK g \in Nat : g = rows[l].group
    BY <1>3, <1>4
  <2>2. LegsAt(rows, g) /\ l \in {g, g + 1} /\ r \in {g, g + 1}
    BY <1>1, <1>4, <2>1 DEF LegsWhole
  <2> QED
    BY <2>2 DEF LegsAt
<1>5. Bank(s)!TypeOK
  BY <1>2, <1>3 DEF Bank!TypeOK, Bank!Exists
<1>6. Bank(s)!TransferWhole
  BY <1>4 DEF Bank!TransferWhole
<1> QED
  BY <1>5, <1>6

LEMMA BankBalances ==
  ASSUME NEW s, BankInv(s), s.drawn = {}
  PROVE  Bank(s)!BalanceRight /\ Bank(s)!ImportedOnce
<1>1. /\ \A a \in s.accounts : accounts[a].balance = accounts[a].opening + StandSum(rows, a)
      /\ PrintsOnce(rows)
  BY DEF BankInv, BankTables, AllRight, AccountsFine
<1>2. \A a \in s.accounts : Bank(s)!StandingSum(rows, a) = StandSum(rows, a)
  BY BankStands
<1>3. \A a \in s.accounts : accounts[a].balance = accounts[a].opening + Bank(s)!StandingSum(rows, a)
  BY <1>1, <1>2
<1>4. Bank(s)!BalanceRight
  BY <1>3 DEF Bank!BalanceRight, Bank!Right
<1>5. Bank(s)!ImportedOnce
  BY <1>1 DEF PrintsOnce, Bank!ImportedOnce
<1> QED
  BY <1>4, <1>5

(* Sums over rows, as sums of one function of the rows.                    *)
AmountsOf(rs) == [r \in DOMAIN rs |-> rs[r].amount]
AmountsFine(rs) == IsFiniteSet(DOMAIN rs) /\ \A r \in DOMAIN rs : rs[r].amount \in Int

LEMMA AmountSum ==
  ASSUME NEW rs, NEW S \in SUBSET DOMAIN rs, AmountsFine(rs)
  PROVE  RowSum(rs, S) = SumFunctionOnSet(AmountsOf(rs), S) /\ RowSum(rs, S) \in Int /\ IsFiniteSet(S)
<1>1. IsFiniteSet(S) /\ \A r \in S : rs[r].amount \in Int
  BY FS_Subset DEF AmountsFine
<1>2. PICK f : f = [r \in S |-> rs[r].amount]
  OBVIOUS
<1>3. DOMAIN f = S /\ \A r \in S : f[r] = AmountsOf(rs)[r]
  BY <1>2 DEF AmountsOf
<1>4. SumFunctionOnSet(f, S) = SumFunctionOnSet(AmountsOf(rs), S)
  BY ONLY <1>1, <1>3, SumSame
<1>5. RowSum(rs, S) = SumFunctionOnSet(f, S)
  BY <1>2, <1>3 DEF RowSum, SumFunction
<1>6. RowSum(rs, S) \in Int
  BY <1>1, RowsType
<1> QED
  BY <1>1, <1>4, <1>5, <1>6

LEMMA AmountsOver ==
  ASSUME NEW rs, NEW S \in SUBSET DOMAIN rs, NEW U \in SUBSET DOMAIN rs, AmountsFine(rs),
         S \intersect U = {}
  PROVE  RowSum(rs, S \union U) = RowSum(rs, S) + RowSum(rs, U)
<1>1. PICK f : f = AmountsOf(rs)
  OBVIOUS
<1>2. \A r \in S \union U : f[r] \in Int
  BY <1>1 DEF AmountsOf, AmountsFine
<1>3. IsFiniteSet(S) /\ IsFiniteSet(U)
  BY AmountSum
<1>4. SumFunctionOnSet(f, S \union U) = SumFunctionOnSet(f, S) + SumFunctionOnSet(f, U)
  BY ONLY <1>2, <1>3, S \intersect U = {}, SumUnion
<1>5. S \union U \in SUBSET DOMAIN rs
  OBVIOUS
<1> QED
  BY <1>1, <1>4, <1>5, AmountSum

(* The rows that stand, account by account.                                *)
StandAll(rs) == {r \in DOMAIN rs : rs[r].by = None}
KeyOf(rs, r) == [account |-> rs[r].account, row |-> r]
KeysOf(rs, S) == {KeyOf(rs, r) : r \in S}
KeyAmounts(rs) == [k \in KeysOf(rs, StandAll(rs)) |-> rs[k.row].amount]

LEMMA KeySum ==
  ASSUME NEW rs, NEW S \in SUBSET StandAll(rs), AmountsFine(rs)
  PROVE  /\ SumFunctionOnSet(KeyAmounts(rs), KeysOf(rs, S)) = RowSum(rs, S)
         /\ IsFiniteSet(KeysOf(rs, S))
<1>1. PICK e, f, g : /\ e = KeyAmounts(rs) /\ f = AmountsOf(rs)
                     /\ g = [r \in DOMAIN rs |-> KeyOf(rs, r)]
  OBVIOUS
<1>2. S \in SUBSET DOMAIN rs
  BY DEF StandAll
<1>3. \A r \in S : f[r] \in Int /\ e[g[r]] = f[r]
  <2> TAKE r \in S
  <2>1. g[r] = KeyOf(rs, r) /\ f[r] = rs[r].amount /\ f[r] \in Int /\ KeyOf(rs, r).row = r
    BY <1>1, <1>2 DEF AmountsOf, AmountsFine, KeyOf
  <2>2. KeyOf(rs, r) \in KeysOf(rs, StandAll(rs))
    BY DEF KeysOf
  <2> QED
    BY <1>1, <2>1, <2>2 DEF KeyAmounts
<1>4. \A x, y \in S : g[x] = g[y] => x = y
  <2> TAKE x, y \in S
  <2>1. g[x].row = x /\ g[y].row = y
    BY <1>1, <1>2 DEF KeyOf
  <2> QED
    BY <2>1
<1>5. IsFiniteSet(S) /\ RowSum(rs, S) = SumFunctionOnSet(f, S)
  BY <1>1, <1>2, AmountSum
<1>6. /\ IsFiniteSet({g[x] : x \in S})
      /\ SumFunctionOnSet(e, {g[x] : x \in S}) = SumFunctionOnSet(f, S)
  BY ONLY <1>3, <1>4, <1>5, SumImage
<1>7. {g[x] : x \in S} = KeysOf(rs, S)
  BY <1>1, <1>2 DEF KeysOf
<1> QED
  BY <1>1, <1>5, <1>6, <1>7

LEMMA StandsByAccount ==
  ASSUME NEW rs, NEW A, IsFiniteSet(A), AmountsFine(rs), \A r \in DOMAIN rs : rs[r].account \in A
  PROVE  SumFunction([a \in A |-> StandSum(rs, a)]) = RowSum(rs, StandAll(rs))
<1>1. PICK v, L : v = KeyAmounts(rs) /\ L = KeysOf(rs, StandAll(rs))
  OBVIOUS
<1>2. SumFunctionOnSet(v, L) = RowSum(rs, StandAll(rs)) /\ IsFiniteSet(L)
  BY <1>1, KeySum
<1>3. \A l \in L : v[l] \in Int /\ l.account \in A
  BY <1>1 DEF KeyAmounts, KeysOf, KeyOf, StandAll, AmountsFine
<1>4. ASSUME NEW a \in A PROVE PartOf(v, L, a) = StandSum(rs, a)
  <2>1. Stand(rs, a) \in SUBSET StandAll(rs)
    BY DEF Stand, StandAll
  <2>2. {l \in L : l.account = a} = KeysOf(rs, Stand(rs, a))
    BY <1>1 DEF KeysOf, KeyOf, Stand, StandAll
  <2> QED
    BY <1>1, <2>1, <2>2, KeySum DEF PartOf, StandSum
<1>5. PartsOf(v, L, A) = [a \in A |-> StandSum(rs, a)]
  BY <1>4 DEF PartsOf
<1>6. SumFunction(PartsOf(v, L, A)) = SumFunctionOnSet(v, L)
  BY <1>2, <1>3, PartsSum
<1> QED
  BY <1>2, <1>5, <1>6

(* The legs that stand cancel out, two by two.                             *)
Grouped(rs) == {r \in DOMAIN rs : rs[r].by = None /\ rs[r].group \in Nat}
FirstLegs(rs) == {r \in Grouped(rs) : rs[r].group = r}
SecondLegs(rs) == {r \in Grouped(rs) : rs[r].group # r}

LEMMA LegsCancel ==
  ASSUME NEW rs, AmountsFine(rs), LegsWhole(rs), DOMAIN rs \in SUBSET Nat
  PROVE  RowSum(rs, Grouped(rs)) = 0
<1>1. PICK S, U : S = FirstLegs(rs) /\ U = SecondLegs(rs)
  OBVIOUS
<1>2. S \in SUBSET DOMAIN rs /\ U \in SUBSET DOMAIN rs /\ S \intersect U = {} /\ S \union U = Grouped(rs)
  BY <1>1 DEF FirstLegs, SecondLegs, Grouped
<1>3. RowSum(rs, Grouped(rs)) = RowSum(rs, S) + RowSum(rs, U)
  <2>1. RowSum(rs, S \union U) = RowSum(rs, S) + RowSum(rs, U)
    BY ONLY <1>2, AmountsFine(rs), AmountsOver
  <2> QED
    BY <1>2, <2>1
<1>4. PICK e, m, g : /\ e = AmountsOf(rs) /\ m = [r \in DOMAIN rs |-> (-1) * e[r]]
                     /\ g = [r \in DOMAIN rs |-> r + 1]
  OBVIOUS
<1>5. /\ \A r \in DOMAIN rs : e[r] \in Int /\ e[r] = rs[r].amount
      /\ \A r \in DOMAIN rs : m[r] = (-1) * e[r] /\ g[r] = r + 1
  BY <1>4 DEF AmountsOf, AmountsFine
<1>6. ASSUME NEW r \in S PROVE r \in DOMAIN rs /\ r + 1 \in U /\ e[r + 1] = - e[r]
  <2>1. r \in DOMAIN rs /\ r \in Nat /\ rs[r].group = r /\ rs[r].by = None
    BY <1>1 DEF FirstLegs, Grouped
  <2>2. LegsAt(rs, r)
    BY <2>1 DEF LegsWhole
  <2>3. /\ r + 1 \in DOMAIN rs /\ rs[r + 1].group = r /\ rs[r + 1].amount = - rs[r].amount
        /\ rs[r + 1].by = None
    BY <2>1, <2>2 DEF LegsAt
  <2>4. r + 1 \in Grouped(rs) /\ r # r + 1
    BY <2>1, <2>3 DEF Grouped
  <2> QED
    BY <1>1, <1>5, <2>1, <2>3, <2>4 DEF SecondLegs
<1>7. ASSUME NEW r \in U PROVE \E q \in S : r = q + 1
  <2>1. PICK q \in Nat : q = rs[r].group
    BY <1>1 DEF SecondLegs, Grouped
  <2>2. r \in DOMAIN rs /\ rs[r].by = None /\ r # q
    BY <1>1, <2>1 DEF SecondLegs, Grouped
  <2>3. LegsAt(rs, q) /\ r = q + 1
    BY <2>1, <2>2 DEF LegsWhole
  <2>4. q \in DOMAIN rs /\ rs[q].group = q /\ rs[q].by = None
    BY <2>2, <2>3 DEF LegsAt
  <2>5. q \in S
    BY <1>1, <2>4 DEF FirstLegs, Grouped
  <2> QED
    BY <2>3, <2>5
<1>8. {g[r] : r \in S} = U
  <2>1. \A r \in S : g[r] = r + 1 /\ g[r] \in U
    BY <1>5, <1>6
  <2>2. \A r \in U : \E q \in S : r = g[q]
    BY <1>7, <2>1
  <2> QED
    BY <2>1, <2>2
<1>9. /\ \A r \in S : m[r] \in Int /\ e[g[r]] = m[r]
      /\ \A x, y \in S : g[x] = g[y] => x = y
  <2>1. \A r \in S : m[r] \in Int /\ e[g[r]] = m[r]
    <3> TAKE r \in S
    <3>1. m[r] = (-1) * e[r] /\ g[r] = r + 1 /\ e[r] \in Int /\ e[r + 1] = - e[r]
      BY <1>5, <1>6
    <3> QED
      BY <3>1
  <2>2. \A x, y \in S : g[x] = g[y] => x = y
    <3> TAKE x, y \in S
    <3>1. x \in Int /\ y \in Int /\ g[x] = x + 1 /\ g[y] = y + 1
      BY <1>2, <1>5
    <3> QED
      BY <3>1
  <2> QED
    BY <2>1, <2>2
<1>10. IsFiniteSet(S) /\ RowSum(rs, S) = SumFunctionOnSet(e, S) /\ RowSum(rs, S) \in Int
  BY <1>2, <1>4, AmountSum
<1>11. RowSum(rs, U) = SumFunctionOnSet(e, U)
  BY <1>2, <1>4, AmountSum
<1>12. SumFunctionOnSet(e, {g[r] : r \in S}) = SumFunctionOnSet(m, S)
  BY ONLY <1>9, <1>10, SumImage
<1>13. SumFunctionOnSet(m, S) = (-1) * SumFunctionOnSet(e, S)
  <2>1. PICK k \in Int : k = -1
    OBVIOUS
  <2>2. \A r \in S : e[r] \in Int /\ m[r] = k * e[r]
    BY <1>2, <1>5, <2>1
  <2>3. SumFunctionOnSet(m, S) = k * SumFunctionOnSet(e, S)
    BY ONLY <1>10, <2>2, SumTimes
  <2> QED
    BY <2>1, <2>3
<1>14. PICK x \in Int : x = RowSum(rs, S)
  BY <1>10
<1>15. RowSum(rs, U) = (-1) * x
  BY <1>8, <1>10, <1>11, <1>12, <1>13, <1>14
<1> QED
  BY <1>3, <1>14, <1>15

(* The transactions of before automatic posting.                           *)
Unbooked(rs, js) == {r \in DOMAIN rs : /\ rs[r].by = None /\ rs[r].group = None
                                       /\ <<"BANK", r>> \notin DOMAIN js}

LEMMA StandsAre ==
  ASSUME NEW W, NEW as, NEW rs, NEW js, RowsFine(W, as, rs), LegsWhole(rs), Bookings(as, rs, js),
         None \notin Nat
  PROVE  /\ AmountsFine(rs)
         /\ RowSum(rs, StandAll(rs)) = BookedSum(rs, js) + RowSum(rs, Unbooked(rs, js))
<1>1. /\ \A r \in DOMAIN rs : rs[r].amount \in Int /\ rs[r].group \in Nat \union {None}
      /\ IsSequence(rs)
  BY DEF RowsFine, BankRowOK
<1>2. IsFiniteSet(DOMAIN rs) /\ DOMAIN rs \in SUBSET Nat
  BY <1>1, RowsFinite
<1>3. AmountsFine(rs)
  BY <1>1, <1>2 DEF AmountsFine
<1>4. PICK S, U, G : S = Booked(rs, js) /\ U = Unbooked(rs, js) /\ G = Grouped(rs)
  OBVIOUS
<1>5. /\ S \in SUBSET DOMAIN rs /\ U \in SUBSET DOMAIN rs /\ G \in SUBSET DOMAIN rs
      /\ S \union U \in SUBSET DOMAIN rs
  BY <1>4 DEF Booked, Unbooked, Grouped
<1>6. \A r \in S : rs[r].group = None
  BY <1>4 DEF Booked, Bookings, BookedAs
<1>7. S \intersect U = {} /\ (S \union U) \intersect G = {} /\ (S \union U) \union G = StandAll(rs)
  <2>1. S \intersect U = {}
    BY <1>4 DEF Booked, Unbooked
  <2>2. (S \union U) \intersect G = {}
    BY <1>4, <1>6 DEF Unbooked, Grouped
  <2>3. (S \union U) \union G = StandAll(rs)
    BY <1>1, <1>4 DEF Booked, Unbooked, Grouped, StandAll
  <2> QED
    BY <2>1, <2>2, <2>3
<1>8. RowSum(rs, S \union U) = RowSum(rs, S) + RowSum(rs, U)
  BY ONLY <1>3, <1>5, <1>7, AmountsOver
<1>9. RowSum(rs, (S \union U) \union G) = RowSum(rs, S \union U) + RowSum(rs, G)
  BY ONLY <1>3, <1>5, <1>7, AmountsOver
<1>10. RowSum(rs, G) = 0 /\ RowSum(rs, S \union U) \in Int
  BY <1>2, <1>3, <1>4, <1>5, LegsCancel, AmountSum
<1>11. RowSum(rs, StandAll(rs)) = RowSum(rs, S \union U)
  <2>1. PICK x \in Int : x = RowSum(rs, S \union U)
    BY <1>10
  <2>2. RowSum(rs, (S \union U) \union G) = x + 0
    BY <1>9, <1>10, <2>1
  <2>3. RowSum(rs, (S \union U) \union G) = x
    BY <2>1, <2>2
  <2>4. RowSum(rs, StandAll(rs)) = x
    BY ONLY <1>7, <2>3
  <2> QED
    BY <2>1, <2>4
<1> QED
  BY <1>3, <1>4, <1>8, <1>11 DEF BookedSum

LEMMA BankCash ==
  ASSUME NEW s, BankScene(s), BankInv(s), s.drawn = {}
  PROVE  Bank(s)!CashIsBanks
<1>1. PICK as, rs, js, A : as = accounts /\ rs = rows /\ js = journals /\ A = s.accounts
  OBVIOUS
<1>2. /\ AccountsFine(A, as) /\ RowsFine(s.workers, as, rs) /\ LegsWhole(rs) /\ Bookings(as, rs, js)
      /\ AllRight(as, rs) /\ IsFiniteSet(A) /\ None \notin Nat /\ DOMAIN as = A
  BY <1>1 DEF BankInv, BankTables, BankScene, AccountsFine
<1>3. /\ AmountsFine(rs)
      /\ RowSum(rs, StandAll(rs)) = BookedSum(rs, js) + RowSum(rs, Unbooked(rs, js))
  <2>1. PICK W : W = s.workers
    OBVIOUS
  <2>2. RowsFine(W, as, rs) /\ LegsWhole(rs) /\ Bookings(as, rs, js) /\ None \notin Nat
    BY <1>2, <2>1
  <2> QED
    BY ONLY <2>2, StandsAre
<1>4. \A r \in DOMAIN rs : rs[r].account \in A
  BY <1>2 DEF RowsFine, BankRowOK
<1>5. PICK b, o, t : /\ b = [a \in A |-> as[a].balance] /\ o = [a \in A |-> as[a].opening]
                     /\ t = [a \in A |-> StandSum(rs, a)]
  OBVIOUS
<1>6. SumFunction(b) = SumFunction(o) + SumFunction(t)
  <2>1. DOMAIN b = A /\ DOMAIN o = DOMAIN b /\ DOMAIN t = DOMAIN b
    BY <1>5
  <2>2. \A a \in A : o[a] \in Int /\ t[a] \in Int /\ b[a] = o[a] + t[a]
    <3> TAKE a \in A
    <3>1. b[a] = as[a].balance /\ o[a] = as[a].opening /\ t[a] = StandSum(rs, a)
      BY <1>5
    <3>2. as[a].balance = as[a].opening + StandSum(rs, a) /\ as[a].opening \in Int
      BY <1>2 DEF AllRight, AccountsFine, AccountOK
    <3>3. StandSum(rs, a) \in Int
      BY <1>2, StandType
    <3> QED
      BY <3>1, <3>2, <3>3
  <2>3. IsFiniteSet(DOMAIN b) /\ \A a \in DOMAIN b : o[a] \in Int /\ t[a] \in Int /\ b[a] = o[a] + t[a]
    BY <1>2, <2>1, <2>2
  <2> QED
    BY ONLY <2>1, <2>3, TotalPlus
<1>7. SumFunction(t) = RowSum(rs, StandAll(rs))
  BY <1>2, <1>3, <1>4, <1>5, StandsByAccount
<1>8. SumFunction(o) = OpeningSum(as)
  BY <1>2, <1>5 DEF OpeningSum
<1>9. Balance(js, "1000") = OpeningSum(as) + BookedSum(rs, js)
  BY <1>2 DEF Bookings
<1>10. /\ OpeningSum(as) \in Int /\ BookedSum(rs, js) \in Int
       /\ RowSum(rs, Unbooked(rs, js)) \in Int
  <2>1. Unbooked(rs, js) \in SUBSET DOMAIN rs
    BY DEF Unbooked
  <2> QED
    BY <1>2, <1>3, <2>1, OpeningsType, BookedType, AmountSum
<1>11. Balance(js, "1000") = SumFunction(b) - RowSum(rs, Unbooked(rs, js))
  <2>1. PICK x, y \in Int : x = BookedSum(rs, js) /\ y = RowSum(rs, Unbooked(rs, js))
    BY <1>10
  <2>2. PICK z \in Int : z = OpeningSum(as)
    BY <1>10
  <2>3. SumFunction(b) = z + (x + y) /\ Balance(js, "1000") = z + x
    BY <1>3, <1>6, <1>7, <1>8, <1>9, <2>1, <2>2
  <2> QED
    BY <2>1, <2>3
<1>12. PICK u : u = [r \in {r \in DOMAIN rows : rows[r].by = None /\ rows[r].group = None
                                                 /\ <<"BANK", r>> \notin DOMAIN journals} |->
                        rows[r].amount]
  OBVIOUS
<1>13. SumFunction(u) = RowSum(rs, Unbooked(rs, js))
  BY <1>1, <1>12 DEF RowSum, Unbooked
<1>14. b = [a \in s.accounts |-> accounts[a].balance]
  BY <1>1, <1>5
<1>15. Bank(s)!Balance(journals, "1000") = Bank(s)!SumFunction(b) - Bank(s)!SumFunction(u)
  <2>1. /\ Bank(s)!SumFunction(b) = SumFunction(b) /\ Bank(s)!SumFunction(u) = SumFunction(u)
        /\ Bank(s)!Balance(js, "1000") = Balance(js, "1000")
    BY BankSums, BankBooks
  <2> QED
    BY <1>1, <1>11, <1>13, <2>1
<1> QED
  BY <1>12, <1>14, <1>15 DEF Bank!CashIsBanks

LEMMA HealMeans ==
  ASSUME NEW s, BankHealing(s)
  PROVE  Bank(s)!BankingHeals
<1>1. PICK rs, qs, bs : rs = rows /\ qs = rows' /\ bs = accounts'
  OBVIOUS
<1>2. \A a : Bank(s)!StandingSum(rs, a) = StandSum(rs, a) /\ Bank(s)!StandingSum(qs, a) = StandSum(qs, a)
  BY BankStands
<1>3. ASSUME NEW a \in s.accounts, Bank(s)!StandingSum(qs, a) # Bank(s)!StandingSum(rs, a),
             NEW w \in s.workers, pc[w] \in Serially, pc'[w] = "idle"
      PROVE  bs[a].balance = bs[a].opening + Bank(s)!StandingSum(qs, a)
  <2>1. Healed(bs, rs, qs, s.accounts)
    BY <1>1, <1>3 DEF BankHealing
  <2> QED
    BY <1>2, <1>3, <2>1 DEF Healed, BalanceOf
<1>4. Bank(s)!SerialLabels = Serially
  BY DEF Bank!SerialLabels, Serially
<1>5. ASSUME NEW a \in s.accounts, Bank(s)!StandingSum(rows', a) # Bank(s)!StandingSum(rows, a),
             NEW w \in s.workers, pc[w] \in Bank(s)!SerialLabels, pc'[w] = "idle"
      PROVE  Bank(s)!Right(a)'
  <2>1. bs[a].balance = bs[a].opening + Bank(s)!StandingSum(qs, a)
    BY <1>1, <1>3, <1>4, <1>5
  <2> QED
    BY <1>1, <2>1 DEF Bank!Right
<1> QED
  BY <1>5 DEF Bank!BankingHeals

(* For any accounts, amounts, statements and requests there may be, in     *)
(* every interleaving: no transaction is without its account, the legs of  *)
(* a transfer are reversed together, and a committed transaction of        *)
(* banking leaves the balances it bears on right; without purchases,       *)
(* every balance is right, the ledger's cash account is the balances of    *)
(* the accounts, and a line of a statement is imported once                *)
(* (BankingService).                                                       *)
THEOREM BankingInAnyScene ==
  ASSUME NEW s, Bank(s)!BankingAssumption
  PROVE  Bank(s)!Spec =>
           /\ [](/\ Bank(s)!TypeOK /\ Bank(s)!TransferWhole
                 /\ s.drawn = {} => /\ Bank(s)!BalanceRight /\ Bank(s)!CashIsBanks
                                    /\ Bank(s)!ImportedOnce)
           /\ [][Bank(s)!BankingHeals]_(Bank(s)!vars)
<1> DEFINE Inv == BankInv(s)
           Agree == /\ Bank(s)!TypeOK /\ Bank(s)!TransferWhole
                    /\ s.drawn = {} => /\ Bank(s)!BalanceRight /\ Bank(s)!CashIsBanks
                                       /\ Bank(s)!ImportedOnce
           Heal == Bank(s)!BankingHeals
<1>0. BankScene(s)
  BY BankParameters
<1>1. Bank(s)!Init => Inv
  BY <1>0, BankStart
<1>2. Inv /\ [Bank(s)!Next]_(Bank(s)!vars) => Inv' /\ [Heal]_(Bank(s)!vars)
  <2>1. ASSUME Inv, Bank(s)!Next PROVE Inv' /\ Heal
    BY <1>0, <2>1, BankStep, HealMeans
  <2>2. ASSUME Inv, UNCHANGED Bank(s)!vars PROVE Inv'
    BY <2>2, BankStill DEF Bank!vars, Bank!rowVars, Bank!requestVars
  <2> QED
    BY <2>1, <2>2
<1>3. Inv => Agree
  BY <1>0, BankTypes, BankBalances, BankCash
<1> HIDE DEF Inv, Agree, Heal
<1>4. Bank(s)!Spec => []Agree /\ [][Heal]_(Bank(s)!vars)
  BY <1>1, <1>2, <1>3, PTL DEF Bank!Spec
<1> QED
  BY <1>4 DEF Agree, Heal

--------------------------------------------------------------------------------
(* The scenes.  A step of MCLedgers is a step of the scene that is on.     *)

LEMMA SceneNames ==
  /\ DOMAIN PayScenes = {"payables_races", "payables_serial"}
  /\ DOMAIN OrderScenes = {"orders_of_request", "bills_of_order", "purchasing_serial"}
  /\ DOMAIN BankScenes = {"banking_races", "banking_edits", "banking_imports", "banking_mixed"}
  /\ DOMAIN BookScenes = {"books_races", "books_serial", "books_records", "records_serial"}
  BY DEF PayScenes, OrderScenes, BankScenes, BookScenes

LEMMA OneAtATime ==
  /\ OneByOne(OrderScenes["purchasing_serial"])
  /\ OneByOne(BookScenes["books_serial"])
  /\ OneByOne(BookScenes["records_serial"])
<1>1. OrderScenes["purchasing_serial"].workers = One
  BY DEF OrderScenes
<1>2. BookScenes["books_serial"].workers = One
  BY DEF BookScenes, Kept
<1>3. BookScenes["records_serial"].workers = One
  BY DEF BookScenes, Recorded, Kept
<1> QED
  BY <1>1, <1>2, <1>3, LedgersAssumption DEF OneByOne

LEMMA OnlyRecords == AssetScene(BookScenes["records_serial"])
<1>1. PICK s : s = BookScenes["records_serial"]
  OBVIOUS
<1>2. s.entries = {} /\ s.reversals = 0 /\ s.records = Recorded.records
  BY <1>1 DEF BookScenes, Recorded, Kept
<1>3. \A rec \in Recorded.records :
        rec.status \in {"DRAFT", "ACTIVE", "PENDING", "APPROVED", "PAID"}
  BY DEF Recorded, Kept, Record
<1>4. OneByOne(s)
  BY <1>1, OneAtATime
<1> QED
  BY <1>1, <1>2, <1>3, <1>4 DEF AssetScene

(* The invariants of the scene that is on. *)
SceneOrders(n) ==
  /\ OrderInv(OrderScenes[n])
  /\ n = "purchasing_serial" => ChainInv(OrderScenes[n])
OrderingInv == \A n \in DOMAIN OrderScenes : scene = n => SceneOrders(n)

SceneBooks(n) ==
  /\ BookInv(BookScenes[n])
  /\ n = "books_serial" => TurnInv(BookScenes[n])
  /\ n = "records_serial" => AssetInv(BookScenes[n])
KeepingInv == \A n \in DOMAIN BookScenes : scene = n => SceneBooks(n)

LEMMA OrderingStart == Init => OrderingInv
<1> SUFFICES ASSUME Init, NEW n \in DOMAIN OrderScenes, scene = n
             PROVE  SceneOrders(n)
  BY DEF OrderingInv
<1>1. Order(OrderScenes[n])!Init
  BY SceneNames DEF Init
<1>2. PICK s : s = OrderScenes[n]
  OBVIOUS
<1>3. OrderInv(s) /\ ChainInv(s)
  BY ONLY <1>1, <1>2, OrderStart, ChainStart
<1> QED
  BY <1>2, <1>3 DEF SceneOrders

LEMMA KeepingStart == Init => KeepingInv
<1> SUFFICES ASSUME Init, NEW n \in DOMAIN BookScenes, scene = n
             PROVE  SceneBooks(n)
  BY DEF KeepingInv
<1>1. Book(BookScenes[n])!Init
  BY SceneNames DEF Init
<1>2. PICK s : s = BookScenes[n]
  OBVIOUS
<1>3. BookInv(s) /\ TurnInv(s) /\ AssetInv(s)
  BY ONLY <1>1, <1>2, BookStart, TurnStart, AssetStart
<1> QED
  BY <1>2, <1>3 DEF SceneBooks

LEMMA StillOrdering ==
  ASSUME NEW s, UNCHANGED vars
  PROVE  (OrderInv(s) => OrderInv(s)') /\ (ChainInv(s) => ChainInv(s)')
<1>1. UNCHANGED <<requests, orders, bills, pc, job>>
  BY DEF vars, ordering, requestVars
<1> QED
  BY <1>1 DEF OrderInv, ChainInv

LEMMA StillKeeping ==
  ASSUME NEW s, UNCHANGED vars
  PROVE  /\ BookInv(s) => BookInv(s)'
         /\ TurnInv(s) => TurnInv(s)'
         /\ AssetInv(s) => AssetInv(s)'
<1>1. UNCHANGED <<accounts, records, journals, pc, job>>
  BY DEF vars, requestVars
<1> QED
  BY <1>1 DEF BookInv, TurnInv, AssetInv

LEMMA OrderingStep ==
  ASSUME OrderingInv, [Next]_vars
  PROVE  OrderingInv'
<1>1. ASSUME NEW n \in DOMAIN OrderScenes, scene = n
      PROVE  SceneOrders(n)'
  <2>1. SceneOrders(n) /\ Order(OrderScenes[n])!PurchasingAssumption
    BY <1>1, LedgersAssumption DEF OrderingInv
  <2>2. Order(OrderScenes[n])!Next \/ UNCHANGED vars
    BY <1>1, SceneNames DEF Next
  <2>3. PICK s : s = OrderScenes[n]
    OBVIOUS
  <2>4. CASE UNCHANGED vars
    BY <2>1, <2>3, <2>4, StillOrdering DEF SceneOrders
  <2>5. CASE Order(OrderScenes[n])!Next
    <3>1. Order(s)!PurchasingAssumption /\ Order(s)!Next
      BY <2>1, <2>3, <2>5
    <3>2. OrderInv(s) /\ (n = "purchasing_serial" => ChainInv(s))
      BY <2>1, <2>3 DEF SceneOrders
    <3>3. OrderInv(s)'
      BY ONLY <3>1, <3>2, OrderStep
    <3>4. CASE n = "purchasing_serial"
      <4>1. OneByOne(s)
        BY <2>3, <3>4, OneAtATime
      <4>2. None \notin Nat
        BY <3>1 DEF Order!PurchasingAssumption
      <4>3. ChainInv(s)'
        BY ONLY <3>1, <3>2, <3>4, <4>1, <4>2, ChainStep
      <4> QED
        BY <2>3, <3>3, <4>3 DEF SceneOrders
    <3> QED
      BY <2>3, <3>3, <3>4 DEF SceneOrders
  <2> QED
    BY <2>2, <2>4, <2>5
<1>2. scene' = scene
  BY DEF Next, vars
<1> QED
  BY <1>1, <1>2 DEF OrderingInv

LEMMA KeepingStep ==
  ASSUME KeepingInv, [Next]_vars
  PROVE  KeepingInv'
<1>1. ASSUME NEW n \in DOMAIN BookScenes, scene = n
      PROVE  SceneBooks(n)'
  <2>1. SceneBooks(n) /\ Book(BookScenes[n])!BooksAssumption
    BY <1>1, LedgersAssumption DEF KeepingInv
  <2>2. Book(BookScenes[n])!Next \/ UNCHANGED vars
    BY <1>1, SceneNames DEF Next
  <2>3. PICK s : s = BookScenes[n]
    OBVIOUS
  <2>4. CASE UNCHANGED vars
    BY <2>1, <2>3, <2>4, StillKeeping DEF SceneBooks
  <2>5. CASE Book(BookScenes[n])!Next
    <3>1. Book(s)!BooksAssumption /\ Book(s)!Next
      BY <2>1, <2>3, <2>5
    <3>2. /\ BookInv(s)
          /\ n = "books_serial" => TurnInv(s)
          /\ n = "records_serial" => AssetInv(s)
      BY <2>1, <2>3 DEF SceneBooks
    <3>3. BookInv(s)'
      BY ONLY <3>1, <3>2, BookStep
    <3>4. CASE n = "books_serial"
      <4>1. OneByOne(s)
        BY <2>3, <3>4, OneAtATime
      <4>2. TurnInv(s)'
        BY ONLY <3>1, <3>2, <3>4, <4>1, TurnStep
      <4> QED
        BY <2>3, <3>3, <3>4, <4>2 DEF SceneBooks
    <3>5. CASE n = "records_serial"
      <4>1. AssetScene(s)
        BY <2>3, <3>5, OnlyRecords
      <4>2. AssetInv(s)'
        BY ONLY <3>1, <3>2, <3>5, <4>1, AssetStep
      <4> QED
        BY <2>3, <3>3, <3>5, <4>2 DEF SceneBooks
    <3> QED
      BY <2>3, <3>3, <3>4, <3>5 DEF SceneBooks
  <2> QED
    BY <2>2, <2>4, <2>5
<1>2. scene' = scene
  BY DEF Next, vars
<1> QED
  BY <1>1, <1>2 DEF KeepingInv

(* In every interleaving of decisions, conversions and billings a purchase *)
(* request becomes one order at most, and one request at a time the        *)
(* request, its order and the order's bill agree about what came of what   *)
(* (createOrder, convertOrder, createBill).                                *)
THEOREM OrdersDoAgree == Spec => []OrdersAgree
<1>1. OrderingInv /\ [Next]_vars => OrderingInv'
  BY OrderingStep
<1>2. OrderingInv => OrdersAgree
  <2> SUFFICES ASSUME OrderingInv, NEW n \in DOMAIN OrderScenes, scene = n
               PROVE  /\ Order(OrderScenes[n])!OneOrderPerRequest
                      /\ n = "purchasing_serial" => Order(OrderScenes[n])!ChainAgrees
    BY DEF OrdersAgree
  <2>1. PICK s : s = OrderScenes[n]
    OBVIOUS
  <2>2. /\ OrderInv(s) /\ (n = "purchasing_serial" => ChainInv(s))
        /\ Order(s)!PurchasingAssumption
    BY <2>1, LedgersAssumption DEF OrderingInv, SceneOrders
  <2>3. None \notin Nat
    BY <2>2 DEF Order!PurchasingAssumption
  <2> QED
    BY ONLY <2>1, <2>2, <2>3, OrderMeans, ChainMeans
<1> QED
  BY <1>1, <1>2, OrderingStart, PTL DEF Spec

(* In every interleaving of drafts, postings, reversals and movements of   *)
(* records, the ledger's debits equal its credits and payroll that is paid *)
(* has been accrued; one at a time, a reversed journal has one reversal    *)
(* and the ledger's assets are those acquired and still held (postJournal, *)
(* reverseJournal, postFinanceRecord).                                     *)
THEOREM BooksAreKept == Spec => []BooksKept
<1>1. KeepingInv /\ [Next]_vars => KeepingInv'
  BY KeepingStep
<1>2. KeepingInv => BooksKept
  <2> SUFFICES ASSUME KeepingInv, NEW n \in DOMAIN BookScenes, scene = n
               PROVE  /\ Book(BookScenes[n])!BooksBalance
                      /\ Book(BookScenes[n])!PaidIsAccrued
                      /\ n = "books_serial" => Book(BookScenes[n])!ReversedOnceEach
                      /\ n = "records_serial" => Book(BookScenes[n])!AssetBooks
    BY DEF BooksKept
  <2>1. PICK s : s = BookScenes[n]
    OBVIOUS
  <2>2. /\ BookInv(s) /\ (n = "books_serial" => TurnInv(s))
        /\ n = "records_serial" => AssetInv(s)
        /\ Book(s)!BooksAssumption
    BY <2>1, LedgersAssumption DEF KeepingInv, SceneBooks
  <2> QED
    BY ONLY <2>1, <2>2, BookMeans, TurnMeans, AssetMeans
<1> QED
  BY <1>1, <1>2, KeepingStart, PTL DEF Spec

--------------------------------------------------------------------------------
(* The scenes of banking.                                                  *)
LEMMA BankWithout ==
  /\ BankScenes["banking_races"].drawn = {} /\ BankScenes["banking_edits"].drawn = {}
  /\ BankScenes["banking_imports"].drawn = {}
<1>1. Banked.drawn = {} /\ "drawn" \in DOMAIN Banked
  BY DEF Banked
<1>2. BankScenes["banking_races"].drawn = Banked.drawn
  <2>1. PICK o, b, t : o = {2} /\ b = {<<3>>} /\ t = {2}
    OBVIOUS
  <2>2. BankScenes["banking_races"] = [Banked EXCEPT !.openings = o, !.batches = b, !.transfers = t]
    BY Zenon, <2>1 DEF BankScenes
  <2> QED
    BY <2>2 DEF Banked
<1>3. BankScenes["banking_edits"].drawn = Banked.drawn
  <2>1. PICK A, o, e, b, l : /\ A = {savings} /\ o = {0, 2, -2} /\ e = {-1} /\ b = {<<3>>, <<-1, 2>>}
                             /\ l = {1}
    OBVIOUS
  <2>2. BankScenes["banking_edits"] =
          [Banked EXCEPT !.accounts = A, !.openings = o, !.edits = e, !.batches = b, !.legacy = l]
    BY Zenon, <2>1 DEF BankScenes
  <2> QED
    BY <2>2 DEF Banked
<1>4. BankScenes["banking_imports"].drawn = Banked.drawn
  <2>1. PICK t : t = {<<StatementLine(prt1, 2)>>, <<StatementLine(prt1, 2), StatementLine(prt2, -1)>>,
                      <<StatementLine(prt2, -1), StatementLine(prt2, -1)>>}
    OBVIOUS
  <2>2. BankScenes["banking_imports"] = [Banked EXCEPT !.statements = t]
    BY Zenon, <2>1 DEF BankScenes
  <2> QED
    BY <2>2 DEF Banked
<1> QED
  BY <1>1, <1>2, <1>3, <1>4

BanksInv == \A n \in DOMAIN BankScenes : scene = n => BankInv(BankScenes[n])

LEMMA BanksStart == Init => BanksInv
<1> SUFFICES ASSUME Init, NEW n \in DOMAIN BankScenes, scene = n
             PROVE  BankInv(BankScenes[n])
  BY DEF BanksInv
<1>1. Bank(BankScenes[n])!Init
  BY SceneNames DEF Init
<1>2. Bank(BankScenes[n])!BankingAssumption
  BY LedgersAssumption
<1>3. PICK s : s = BankScenes[n]
  OBVIOUS
<1>4. BankScene(s) /\ BankInv(s)
  BY ONLY <1>1, <1>2, <1>3, BankStart, BankParameters
<1> QED
  BY <1>3, <1>4

LEMMA BanksStep ==
  ASSUME BanksInv, [Next]_vars
  PROVE  /\ BanksInv'
         /\ \A n \in DOMAIN BankScenes : scene = n => Bank(BankScenes[n])!BankingHeals
<1>1. ASSUME NEW n \in DOMAIN BankScenes, scene = n
      PROVE  BankInv(BankScenes[n])' /\ Bank(BankScenes[n])!BankingHeals
  <2>1. BankInv(BankScenes[n]) /\ Bank(BankScenes[n])!BankingAssumption
    BY <1>1, LedgersAssumption DEF BanksInv
  <2>2. Bank(BankScenes[n])!Next \/ UNCHANGED vars
    BY <1>1, SceneNames DEF Next
  <2>3. PICK s : s = BankScenes[n]
    OBVIOUS
  <2>4. BankInv(s) /\ Bank(s)!BankingAssumption /\ (Bank(s)!Next \/ UNCHANGED vars)
    BY <2>1, <2>2, <2>3
  <2>5. UNCHANGED vars => UNCHANGED <<accounts, rows, journals, pc, job>>
    BY DEF vars, requestVars
  <2>6. BankInv(s)' /\ BankHealing(s)
    BY ONLY <2>4, <2>5, BankParameters, BankStep, BankStill
  <2>7. Bank(s)!BankingHeals
    BY ONLY <2>6, HealMeans
  <2> QED
    BY <2>3, <2>6, <2>7
<1>2. scene' = scene
  BY DEF Next, vars
<1> QED
  BY <1>1, <1>2 DEF BanksInv

(* In every interleaving of entries, imports, corrections, transfers,      *)
(* reversals and deletions no bank transaction is without its account and  *)
(* the legs of a transfer are reversed together; without purchases, which  *)
(* write at READ COMMITTED, balances are right, the ledger's cash account  *)
(* is the balances of the accounts, and a line of a statement is imported  *)
(* to an account once (BankingService).                                    *)
THEOREM BankingIsKept == Spec => []BankingKept
<1>1. BanksInv /\ [Next]_vars => BanksInv'
  BY BanksStep
<1>2. BanksInv => BankingKept
  <2> SUFFICES ASSUME BanksInv, NEW n \in DOMAIN BankScenes, scene = n
               PROVE  /\ Bank(BankScenes[n])!TypeOK
                      /\ Bank(BankScenes[n])!TransferWhole
                      /\ n # "banking_mixed" =>
                           /\ Bank(BankScenes[n])!BalanceRight
                           /\ Bank(BankScenes[n])!CashIsBanks
                           /\ Bank(BankScenes[n])!ImportedOnce
    BY DEF BankingKept
  <2>1. PICK s : s = BankScenes[n]
    OBVIOUS
  <2>2. BankInv(s) /\ Bank(s)!BankingAssumption
    BY <2>1, LedgersAssumption DEF BanksInv
  <2>3. BankScene(s)
    BY ONLY <2>2, BankParameters
  <2>4. n # "banking_mixed" => s.drawn = {}
    BY <2>1, SceneNames, BankWithout
  <2> QED
    BY ONLY <2>1, <2>2, <2>3, <2>4, BankTypes, BankBalances, BankCash
<1> QED
  BY <1>1, <1>2, BanksStart, PTL DEF Spec

(* Whatever stale balance a purchase has written, a transaction that       *)
(* banking commits on the account leaves its balance right (recalc of      *)
(* BankingService, against postBank of PurchasesService).                  *)
THEOREM BankingDoesHeal == Spec => BankingHeals
<1> DEFINE Heal == \A n \in DOMAIN BankScenes : scene = n => Bank(BankScenes[n])!BankingHeals
<1>1. BanksInv /\ [Next]_vars => BanksInv' /\ [Heal]_vars
  <2> SUFFICES ASSUME BanksInv, [Next]_vars
               PROVE  BanksInv' /\ (Heal \/ UNCHANGED vars)
    OBVIOUS
  <2> QED
    BY BanksStep
<1>2. [][Heal]_vars <=> BankingHeals
  BY DEF BankingHeals
<1> HIDE DEF Heal
<1> QED
  BY <1>1, <1>2, BanksStart, PTL DEF Spec
================================================================================
