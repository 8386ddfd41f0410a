-------------------------------- MODULE PosProofs --------------------------------
(***************************************************************************)
(* What holds of the point of sale for any number of requests, registers,  *)
(* products and checkouts.  First the rows: their types, the receipt       *)
(* numbers, one sale per idempotency key, and no stock below zero.  Then   *)
(* the books: the cash, revenue and tax accounts agree with the sales and  *)
(* the returns, accounts receivable with what the customers owe, and the   *)
(* inventory account is off the stock by what voids revalue and by nothing *)
(* else.  Every balance is a sum over the journals, so a step changes it   *)
(* by the journals it adds (BalanceGrows); which those are, and that none  *)
(* of their numbers was taken, is the inductive part (JournalsStand).      *)
(* Then the limits: one request at a time keeps them all, any number of    *)
(* requests can pass one only by what a check that is not repeated lets    *)
(* through (the refinements of CheckThenAct).  Last the drawer: what a     *)
(* shift's count expects is what the books have for that shift.            *)
(***************************************************************************)
EXTENDS MCRegisters, SequenceTheorems, Sums

(* Every sequence is a sequence over its own elements. *)
LEMMA SeqIsSeq ==
  ASSUME NEW S, NEW s \in Seq(S)
  PROVE  IsSeq(s)
<1>1. s \in [1 .. Len(s) -> S] /\ Len(s) \in Nat
  BY ElementOfSeq, LenProperties
<1>2. s \in [1 .. Len(s) -> {s[i] : i \in DOMAIN s}]
  BY <1>1
<1> QED
  BY <1>1, <1>2, SeqDef DEF IsSeq

LEMMA IsSeqLen ==
  ASSUME NEW s, IsSeq(s)
  PROVE  Len(s) \in Nat /\ DOMAIN s = 1 .. Len(s)
BY LenProperties DEF IsSeq

LEMMA AppendIsSeq ==
  ASSUME NEW s, IsSeq(s), NEW e
  PROVE  IsSeq(Append(s, e))
<1> DEFINE S == {s[i] : i \in DOMAIN s} \union {e}
<1>1. {s[i] : i \in DOMAIN s} \subseteq S
  OBVIOUS
<1>2. s \in Seq(S)
  <2>1. s \in [1 .. Len(s) -> {s[i] : i \in DOMAIN s}] /\ Len(s) \in Nat
    BY ElementOfSeq, LenProperties DEF IsSeq
  <2>2. s \in [1 .. Len(s) -> S]
    BY <1>1, <2>1
  <2> QED
    BY <2>1, <2>2, SeqDef
<1> HIDE DEF S
<1>3. e \in S
  BY DEF S
<1>4. Append(s, e) \in Seq(S)
  BY <1>2, <1>3, AppendProperties
<1> QED
  BY <1>4, SeqIsSeq

(* A function over the same indices is a sequence too. *)
LEMMA SameDomainIsSeq ==
  ASSUME NEW s, IsSeq(s), NEW t, DOMAIN t = DOMAIN s, t = [i \in DOMAIN t |-> t[i]]
  PROVE  IsSeq(t)
<1>1. Len(s) \in Nat /\ DOMAIN t = 1 .. Len(s)
  BY IsSeqLen
<1> DEFINE S == {t[i] : i \in DOMAIN t}
<1>2. t \in [1 .. Len(s) -> S]
  BY <1>1
<1>3. t \in Seq(S)
  <2> HIDE DEF S
  <2> QED
    BY <1>1, <1>2, SeqDef
<1> QED
  BY <1>3 DEF IsSeq

(* What a sale appended to the sales does. *)
LEMMA AppendSale ==
  ASSUME sales \in Seq(Sale), NEW e \in Sale, sales' = Append(sales, e)
  PROVE  /\ sales' \in Seq(Sale)
         /\ Len(sales) \in Nat
         /\ Len(sales') = Len(sales) + 1
         /\ DOMAIN sales = 1 .. Len(sales)
         /\ DOMAIN sales' = 1 .. Len(sales) + 1
         /\ \A i \in DOMAIN sales : sales'[i] = sales[i]
         /\ sales'[Len(sales) + 1] = e
<1>1. sales' \in Seq(Sale) /\ Len(sales') = Len(sales) + 1
      /\ (\A i \in 1 .. Len(sales) : sales'[i] = sales[i])
      /\ sales'[Len(sales) + 1] = e
  BY AppendProperties
<1>2. Len(sales) \in Nat /\ DOMAIN sales = 1 .. Len(sales)
      /\ DOMAIN sales' = 1 .. Len(sales')
  BY <1>1, LenProperties
<1> QED
  BY <1>1, <1>2

LEMMA SaleType ==
  ASSUME TypeOK, NEW i \in DOMAIN sales
  PROVE  sales[i] \in Sale /\ i \in Nat \ {0} /\ i <= Len(sales) /\ Len(sales) \in Nat
<1>1. sales \in [1 .. Len(sales) -> Sale] /\ Len(sales) \in Nat
  BY ElementOfSeq, LenProperties DEF TypeOK, RowsOK
<1> QED
  BY <1>1

--------------------------------------------------------------------------------
(* The steps, by what they leave alone. *)

Safe ==
  /\ LockHeld
  /\ StockStays
  /\ ReceiptNumbers
  /\ OneSalePerKey
  /\ NoOversell

(* Stock may have been added to. *)
StockGrows ==
  \A h \in Warehouses, p \in Products : stock'[h][p] >= stock[h][p]

(* A checkout under the lock that nobody touches keeps the stock it found. *)
LEMMA StockStaysGrown ==
  ASSUME TypeOK, Safe, StockGrows, stock' \in [Warehouses -> [Products -> Int]],
         \A v \in Workers : pc'[v] = "locked" => pc[v] = "locked" /\ job'[v] = job[v]
  PROVE  StockStays'
<1> SUFFICES ASSUME NEW v \in Workers, pc'[v] = "locked", NEW p \in Goods
             PROVE  job'[v].req.cart[p] <= stock'[WarehouseOf[job'[v].req.register]][p]
  BY DEF StockStays, StockCovers
<1>1. pc[v] = "locked" /\ job'[v] = job[v]
  OBVIOUS
<1>2. job[v].req \in Checkout /\ p \in Products
  BY <1>1, PosAssumption DEF TypeOK, JobsOK, JobOK, CompleteJob
<1> DEFINE h == WarehouseOf[job[v].req.register]
<1>3. h \in Warehouses
  BY <1>2, PosAssumption DEF Checkout
<1>4. job[v].req.cart[p] \in Nat
  BY <1>2 DEF Checkout, Cart
<1>5. job[v].req.cart[p] <= stock[h][p]
  BY <1>1 DEF Safe, StockStays, StockCovers
<1>6. stock[h][p] \in Int /\ stock'[h][p] \in Int /\ stock'[h][p] >= stock[h][p]
  BY <1>2, <1>3 DEF TypeOK, RowsOK, StockGrows
<1> QED
  BY <1>1, <1>4, <1>5, <1>6

(* A step of a worker without the lock, to a place without the lock, that  *)
(* leaves the sales alone and takes no stock.                              *)
LEMMA UnlockedStep ==
  ASSUME TypeOK, RowsOK', Safe, sales' = sales, lock' = lock, StockGrows,
         NEW w \in Workers, NEW label, NEW j, Turn(w, label, j),
         pc[w] # "locked", label # "locked"
  PROVE  Safe'
<1>1. \A v \in Workers : pc'[v] = "locked" <=> pc[v] = "locked"
  BY DEF Turn, TypeOK, JobsOK
<1>2. \A v \in Workers : pc'[v] = "locked" => job'[v] = job[v]
  BY <1>1 DEF Turn, TypeOK, JobsOK
<1>3. LockHeld'
  BY <1>1 DEF Safe, LockHeld
<1>4. NoOversell'
  BY DEF Safe, NoOversell, StockGrows, TypeOK, RowsOK
<1>5. StockStays'
  <2>1. stock' \in [Warehouses -> [Products -> Int]]
    BY DEF RowsOK
  <2> QED
    BY <1>1, <1>2, <2>1, StockStaysGrown
<1>6. ReceiptNumbers'
  BY <1>1, <1>2 DEF Safe, ReceiptNumbers
<1>7. OneSalePerKey'
  BY DEF Safe, OneSalePerKey
<1> QED
  BY <1>3, <1>4, <1>5, <1>6, <1>7 DEF Safe

(* The jobs keep their types when one worker turns to a well-typed job and *)
(* no sale is taken away.                                                  *)
LEMMA TurnJobs ==
  ASSUME TypeOK, NEW w \in Workers, NEW label \in Labels, NEW j, Turn(w, label, j),
         DOMAIN sales \subseteq DOMAIN sales', JobOK(label, j)'
  PROVE  JobsOK'
<1>1. pc' \in [Workers -> Labels] /\ DOMAIN job' = Workers
  BY DEF Turn, TypeOK, JobsOK
<1>2. ASSUME NEW v \in Workers PROVE JobOK(pc[v], job[v])'
  <2>1. CASE v = w
    <3>1. pc'[v] = label /\ job'[v] = j
      BY <2>1 DEF Turn, TypeOK, JobsOK
    <3> QED
      BY <3>1 DEF JobOK
  <2>2. CASE v # w
    <3>1. pc'[v] = pc[v] /\ job'[v] = job[v]
      BY <2>2 DEF Turn, TypeOK, JobsOK
    <3>2. JobOK(pc[v], job[v])
      BY DEF TypeOK, JobsOK
    <3> QED
      BY <3>1, <3>2 DEF JobOK
  <2> QED
    BY <2>1, <2>2
<1> QED
  BY <1>1, <1>2 DEF JobsOK

(* A request that is over leaves nothing to type. *)
LEMMA DoneJobs ==
  ASSUME TypeOK, NEW w \in Workers, Done(w), DOMAIN sales \subseteq DOMAIN sales'
  PROVE  JobsOK'
<1>1. JobOK("idle", None)'
  BY DEF JobOK
<1> QED
  BY <1>1, TurnJobs DEF Done, Labels

(* A request that has only read. *)
LEMMA ReadStep ==
  ASSUME TypeOK, Safe, NEW w \in Workers, NEW label \in Labels, NEW j, Turn(w, label, j),
         UNCHANGED <<registers, shifts, sales, returns, stock, cost, lock>>,
         JobOK(label, j), pc[w] # "locked", label # "locked"
  PROVE  TypeOK' /\ Safe'
<1>1. RowsOK'
  BY DEF TypeOK, RowsOK, IsSeq
<1>2. JobOK(label, j)'
  BY DEF JobOK
<1>3. JobsOK'
  BY <1>2, TurnJobs
<1>4. StockGrows
  BY DEF StockGrows, TypeOK, RowsOK
<1> QED
  BY <1>1, <1>3, <1>4, UnlockedStep DEF TypeOK

--------------------------------------------------------------------------------
(* The reads. *)

LEMMA CompleteBeginInv ==
  ASSUME TypeOK, Safe, NEW w \in Workers, NEW r \in Checkouts, CompleteBegin(w, r)
  PROVE  TypeOK' /\ Safe'
<1> DEFINE branch == IF registers[r.register].branch # None
                       THEN registers[r.register].branch ELSE r.branch
           read(s) == [req |-> r, shift |-> s, cost |-> cost, seen |-> 0, branch |-> branch]
<1>1. PICK s \in DOMAIN shifts \union {0} : Turn(w, "priced", read(s))
  BY DEF CompleteBegin, OpenShifts
<1>2. s \in Nat
  BY IsSeqLen DEF TypeOK, RowsOK
<1>3. branch \in Branches \union {None}
  BY PosAssumption DEF TypeOK, RowsOK, Register, Checkout
<1>4. read(s) \in CompleteJob
  BY <1>2, <1>3 DEF CompleteJob, TypeOK, RowsOK
<1>5. JobOK("priced", read(s))
  BY <1>4 DEF JobOK
<1>6. /\ pc[w] # "locked"
      /\ UNCHANGED <<registers, shifts, sales, returns, stock, cost, lock>>
  BY DEF CompleteBegin, stockVars
<1> HIDE DEF read
<1> QED
  BY <1>1, <1>5, <1>6, ReadStep DEF Labels

LEMMA CompleteCreditInv ==
  ASSUME TypeOK, Safe, NEW w \in Workers, CompleteCredit(w)
  PROVE  TypeOK' /\ Safe'
<1>1. JobOK("cleared", job[w])
  BY DEF CompleteCredit, TypeOK, JobsOK, JobOK
<1>2. /\ pc[w] # "locked" /\ Turn(w, "cleared", job[w])
      /\ UNCHANGED <<registers, shifts, sales, returns, stock, cost, lock>>
  BY DEF CompleteCredit, stockVars
<1> QED
  BY <1>1, <1>2, ReadStep DEF Labels

LEMMA VoidReadInv ==
  ASSUME TypeOK, Safe, NEW w \in Workers, NEW a \in Staff, NEW i \in DOMAIN sales,
         VoidRead(w, a, i)
  PROVE  TypeOK' /\ Safe'
<1>1. JobOK("voiding", [sale |-> i, cost |-> cost])
  BY DEF JobOK, TypeOK, RowsOK
<1>2. /\ pc[w] # "locked" /\ Turn(w, "voiding", [sale |-> i, cost |-> cost])
      /\ UNCHANGED <<registers, shifts, sales, returns, stock, cost, lock>>
  BY DEF VoidRead, stockVars
<1> QED
  BY <1>1, <1>2, ReadStep DEF Labels

LEMMA VoidJournalsInv ==
  ASSUME TypeOK, Safe, NEW w \in Workers, VoidJournals(w)
  PROVE  TypeOK' /\ Safe'
<1>1. PICK posted : Turn(w, "reversing",
                         [sale |-> job[w].sale, cost |-> job[w].cost, posted |-> posted])
  BY DEF VoidJournals
<1>2. JobOK("reversing", [sale |-> job[w].sale, cost |-> job[w].cost, posted |-> posted])
  BY DEF VoidJournals, JobOK, TypeOK, JobsOK
<1>3. /\ pc[w] # "locked"
      /\ UNCHANGED <<registers, shifts, sales, returns, stock, cost, lock>>
  BY DEF VoidJournals, stockVars
<1> QED
  BY <1>1, <1>2, <1>3, ReadStep DEF Labels

LEMMA ReturnReadInv ==
  ASSUME TypeOK, Safe, NEW w \in Workers, NEW a \in Staff, NEW i \in DOMAIN sales,
         NEW p \in Products, NEW q \in 1 .. sales[i].cart[p], ReturnRead(w, a, i, p, q)
  PROVE  TypeOK' /\ Safe'
<1> DEFINE j == [sale |-> i, product |-> p, qty |-> q]
<1>1. DOMAIN sales = 1 .. Len(sales) /\ Len(sales) \in Nat
  BY LenProperties DEF TypeOK, RowsOK
<1>2. sales[i].cart[p] \in Nat
  BY SaleType DEF Sale, Cart
<1>3. j \in ReturnRow
  <2>1. i \in Nat \ {0} /\ q \in Nat
    BY <1>1, <1>2
  <2> QED
    BY <2>1 DEF ReturnRow
<1>4. JobOK("returning", j)
  BY <1>3 DEF JobOK
<1>5. /\ pc[w] # "locked" /\ Turn(w, "returning", j)
      /\ UNCHANGED <<registers, shifts, sales, returns, stock, cost, lock>>
  BY DEF ReturnRead, stockVars
<1> HIDE DEF j
<1> QED
  BY <1>4, <1>5, ReadStep DEF Labels

LEMMA OpenReadInv ==
  ASSUME TypeOK, Safe, NEW w \in Workers, NEW a \in Staff, NEW r \in Registers,
         NEW float \in Floats, OpenRead(w, a, r, float)
  PROVE  TypeOK' /\ Safe'
<1> DEFINE j == [register |-> r, cashier |-> a, opening |-> float,
                 status |-> "OPEN", expected |-> 0]
<1>1. JobOK("opening", j)
  BY DEF JobOK
<1>2. /\ pc[w] # "locked" /\ Turn(w, "opening", j)
      /\ UNCHANGED <<registers, shifts, sales, returns, stock, cost, lock>>
  BY DEF OpenRead, salesState, stockVars
<1> HIDE DEF j
<1> QED
  BY <1>1, <1>2, ReadStep DEF Labels

LEMMA CloseReadInv ==
  ASSUME TypeOK, Safe, NEW w \in Workers, NEW s \in DOMAIN shifts, NEW a, CloseRead(w, a, s)
  PROVE  TypeOK' /\ Safe'
<1> DEFINE j == [shift |-> s, sums |-> << >>]
<1>1. JobOK("closing", j)
  BY DEF JobOK
<1>2. /\ pc[w] # "locked" /\ Turn(w, "closing", j)
      /\ UNCHANGED <<registers, shifts, sales, returns, stock, cost, lock>>
  BY DEF CloseRead, salesState, stockVars
<1> HIDE DEF j
<1> QED
  BY <1>1, <1>2, ReadStep DEF Labels

LEMMA HandoverReadInv ==
  ASSUME TypeOK, Safe, NEW w \in Workers, NEW r \in Registers, NEW to \in Staff,
         NEW b \in Branches, HandoverRead(w, r, to, b)
  PROVE  TypeOK' /\ Safe'
<1> DEFINE j(s) == [register |-> r, to |-> to, branch |-> b, shift |-> s, sums |-> << >>]
<1>1. PICK s : Turn(w, "handing", j(s))
  BY DEF HandoverRead
<1>2. JobOK("handing", j(s))
  BY DEF JobOK
<1>3. /\ pc[w] # "locked"
      /\ UNCHANGED <<registers, shifts, sales, returns, stock, cost, lock>>
  BY DEF HandoverRead, salesState, stockVars
<1> HIDE DEF j
<1> QED
  BY <1>1, <1>2, <1>3, ReadStep DEF Labels

LEMMA ReadAggregateInv ==
  ASSUME TypeOK, Safe, NEW w \in Workers, NEW kind \in Aggregates, ReadAggregate(w, kind)
  PROVE  TypeOK' /\ Safe'
<1>1. PICK read : Turn(w, pc[w], [job[w] EXCEPT !.sums = read])
  BY DEF ReadAggregate
<1>2. pc[w] \in {"closing", "handing"}
  BY DEF ReadAggregate
<1>3. JobOK(pc[w], [job[w] EXCEPT !.sums = read])
  BY <1>2 DEF JobOK, TypeOK, JobsOK
<1>4. UNCHANGED <<registers, shifts, sales, returns, stock, cost, lock>>
  BY DEF ReadAggregate, salesState, stockVars
<1> QED
  BY <1>1, <1>2, <1>3, <1>4, ReadStep DEF Labels

(* A change that sends some fields and no others. *)
LEMMA UpdateReadInv ==
  ASSUME TypeOK, Safe, NEW w \in Workers, NEW r \in Registers, NEW change \in Changes,
         UpdateRead(w, r, change)
  PROVE  TypeOK' /\ Safe'
<1> DEFINE j == [register |-> r, change |-> change]
<1>1. change \in Change
  BY DEF Changes, Change, NoChange
<1>2. JobOK("configuring", j)
  BY <1>1 DEF JobOK
<1>3. /\ pc[w] # "locked" /\ Turn(w, "configuring", j)
      /\ UNCHANGED <<registers, shifts, sales, returns, stock, cost, lock>>
  BY DEF UpdateRead, salesState, stockVars
<1> HIDE DEF j
<1> QED
  BY <1>2, <1>3, ReadStep DEF Labels

LEMMA AssignReadInv ==
  ASSUME TypeOK, Safe, NEW w \in Workers, NEW r \in Registers, NEW a \in Staff,
         NEW b \in Branches, AssignRead(w, r, a, b)
  PROVE  TypeOK' /\ Safe'
<1> DEFINE change == [NoChange EXCEPT !.assigned = a, !.branch = b]
           j == [register |-> r, change |-> change]
<1>1. change \in Change
  BY DEF Change, NoChange
<1>2. JobOK("configuring", j)
  BY <1>1 DEF JobOK
<1>3. /\ pc[w] # "locked" /\ Turn(w, "configuring", j)
      /\ UNCHANGED <<registers, shifts, sales, returns, stock, cost, lock>>
  BY DEF AssignRead, salesState, stockVars
<1> HIDE DEF j
<1> QED
  BY <1>2, <1>3, ReadStep DEF Labels

--------------------------------------------------------------------------------
(* The writes. *)

(* Goods that enter a warehouse only add to its stock. *)
LEMMA MoveIn ==
  ASSUME TypeOK, NEW h \in Warehouses, NEW cart \in Cart, NEW c, Move(h, 1, cart, c)
  PROVE  stock' \in [Warehouses -> [Products -> Int]] /\ StockGrows
<1>1. stock' = [stock EXCEPT ![h] =
                  [p \in Products |-> IF p \in Goods THEN stock[h][p] + cart[p] ELSE stock[h][p]]]
  <2>1. ASSUME NEW p \in Products PROVE 1 * cart[p] = cart[p]
    BY DEF Cart
  <2> QED
    BY <2>1, PosAssumption DEF Move
<1> QED
  BY <1>1 DEF TypeOK, RowsOK, Cart, StockGrows

LEMMA TakeAway ==
  ASSUME NEW x \in Int, NEW y \in Nat
  PROVE  x + (-1) * y = x - y
OBVIOUS

LEMMA OnlyIsCart ==
  ASSUME NEW p \in Products, NEW q \in Nat
  PROVE  Only(p, q) \in Cart
BY DEF Only, Cart

(* A write that touches neither the sales nor the lock. *)
LEMMA QuietWrite ==
  ASSUME TypeOK, Safe, NEW w \in Workers, Done(w), pc[w] # "locked",
         UNCHANGED <<sales, lock, cost>>, StockGrows,
         registers' \in [Registers -> Register], IsSeq(shifts)',
         returns' \in Seq(ReturnRow), stock' \in [Warehouses -> [Products -> Int]]
  PROVE  TypeOK' /\ Safe'
<1>1. RowsOK'
  BY DEF TypeOK, RowsOK
<1>2. JobsOK'
  BY DoneJobs
<1> QED
  BY <1>1, <1>2, UnlockedStep DEF TypeOK, Done

LEMMA StockSame ==
  ASSUME TypeOK, UNCHANGED stock
  PROVE  StockGrows /\ stock' \in [Warehouses -> [Products -> Int]]
BY DEF TypeOK, RowsOK, StockGrows

LEMMA CompleteLockInv ==
  ASSUME TypeOK, Safe, NEW w \in Workers, CompleteLock(w)
  PROVE  TypeOK' /\ Safe'
<1> DEFINE j == [job[w] EXCEPT !.seen = Len(sales)]
<1>1. job[w] \in CompleteJob /\ Len(sales) \in Nat
  BY LenProperties DEF CompleteLock, TypeOK, RowsOK, JobsOK, JobOK
<1>2. j \in CompleteJob /\ j.seen = Len(sales) /\ j.req = job[w].req
  BY <1>1 DEF CompleteJob
<1>3. JobOK("locked", j)
  BY <1>2 DEF JobOK
<1>4. /\ Turn(w, "locked", j) /\ lock = None /\ lock' = w /\ StockCovers(j.req)
      /\ UNCHANGED <<registers, shifts, sales, returns, stock, cost>>
  BY <1>2 DEF CompleteLock, LockFree, stockVars
<1> HIDE DEF j
<1>5. JobsOK'
  <2>1. PICK k : k = j
    OBVIOUS
  <2>2. JobOK("locked", k)'
    BY <1>3, <1>4, <2>1 DEF JobOK
  <2>3. Turn(w, "locked", k)
    BY <1>4, <2>1
  <2> QED
    BY <1>4, <2>2, <2>3, TurnJobs DEF Labels
<1>6. RowsOK'
  BY <1>4 DEF TypeOK, RowsOK, IsSeq
<1>7. \A v \in Workers : pc[v] # "locked"
  BY <1>4, PosAssumption DEF Safe, LockHeld
<1>8. \A v \in Workers : pc'[v] = "locked" <=> v = w
  BY <1>4, <1>7 DEF Turn, TypeOK, JobsOK
<1>9. job'[w] = j
  BY <1>4 DEF Turn, TypeOK, JobsOK
<1>10. LockHeld'
  BY <1>4, <1>8 DEF LockHeld
<1>11. StockStays'
  BY <1>4, <1>8, <1>9 DEF StockStays, StockCovers
<1>12. ReceiptNumbers'
  BY <1>2, <1>4, <1>8, <1>9 DEF Safe, ReceiptNumbers
<1>13. OneSalePerKey' /\ NoOversell'
  BY <1>4 DEF Safe, OneSalePerKey, NoOversell
<1> QED
  BY <1>5, <1>6, <1>10, <1>11, <1>12, <1>13 DEF Safe, TypeOK

LEMMA CompleteCommitInv ==
  ASSUME TypeOK, Safe, NEW w \in Workers, CompleteCommit(w)
  PROVE  TypeOK' /\ Safe'
<1> DEFINE r == job[w].req
           n == job[w].seen + 1
           s == IF job[w].shift = 0 THEN Len(shifts) + 1 ELSE job[w].shift
           h == WarehouseOf[r.register]
           e == [receipt |-> n, key |-> r.key, register |-> r.register, shift |-> s,
                 cashier |-> r.cashier, branch |-> job[w].branch, customer |-> r.customer,
                 cart |-> r.cart, cost |-> job[w].cost, voidCost |-> job[w].cost,
                 cash |-> r.cash, card |-> r.card, credit |-> r.credit,
                 status |-> "COMPLETED"]
<1>1. pc[w] = "locked" /\ lock = w /\ lock' = None /\ Done(w)
      /\ UNCHANGED <<registers, returns, cost>>
  BY DEF CompleteCommit, Safe, LockHeld
<1>2. job[w] \in CompleteJob /\ r \in Checkout
  BY <1>1, PosAssumption DEF TypeOK, JobsOK, JobOK, CompleteJob
<1>3. Len(shifts) \in Nat
  BY IsSeqLen DEF TypeOK, RowsOK
<1>4. e \in Sale
  <2>1. n \in Nat \ {0} /\ s \in Nat \ {0}
    BY <1>2, <1>3 DEF CompleteJob
  <2> QED
    BY <1>2, <2>1 DEF Sale, CompleteJob, Checkout
<1>5. sales' = Append(sales, e) /\ IndexAdmits(r.key, n)
  BY DEF CompleteCommit
<1>6. sales \in Seq(Sale) /\ job[w].seen = Len(sales)
  BY <1>1 DEF TypeOK, RowsOK, Safe, ReceiptNumbers
<1>7. e.receipt = Len(sales) + 1 /\ e.key = r.key
  BY <1>6
<1>8. h \in Warehouses /\ r.cart \in Cart
  BY <1>2, PosAssumption DEF Checkout
<1>9. stock' = [stock EXCEPT ![h] =
         [p \in Products |-> IF p \in Goods THEN stock[h][p] - r.cart[p] ELSE stock[h][p]]]
  <2>1. ASSUME NEW p \in Goods PROVE stock[h][p] + (-1) * r.cart[p] = stock[h][p] - r.cart[p]
    <3>1. stock[h][p] \in Int /\ r.cart[p] \in Nat
      BY <1>8, PosAssumption DEF Cart, TypeOK, RowsOK
    <3> QED
      BY <3>1, TakeAway
  <2> DEFINE less == [p \in Products |-> IF p \in Goods THEN stock[h][p] + (-1) * r.cart[p]
                                         ELSE stock[h][p]]
  <2>2. stock' = [stock EXCEPT ![h] = less]
    BY DEF CompleteCommit, Move
  <2>3. less = [p \in Products |-> IF p \in Goods THEN stock[h][p] - r.cart[p]
                                  ELSE stock[h][p]]
    BY <2>1
  <2> HIDE DEF less
  <2> QED
    BY <2>2, <2>3
<1>10. \A p \in Goods : r.cart[p] <= stock[h][p]
  BY <1>1 DEF Safe, StockStays, StockCovers
<1> HIDE DEF e, h
<1>11. /\ sales' \in Seq(Sale)
       /\ Len(sales) \in Nat
       /\ Len(sales') = Len(sales) + 1
       /\ DOMAIN sales = 1 .. Len(sales)
       /\ DOMAIN sales' = 1 .. Len(sales) + 1
       /\ \A i \in DOMAIN sales : sales'[i] = sales[i]
       /\ sales'[Len(sales) + 1] = e
  BY <1>4, <1>5, <1>6, AppendSale
<1>12. RowsOK'
  <2>1. IsSeq(shifts)'
    <3>1. CASE job[w].shift # 0
      BY <3>1 DEF CompleteCommit, TypeOK, RowsOK, IsSeq
    <3>2. CASE job[w].shift = 0
      <4>1. shifts' = Append(shifts,
                 [register |-> r.register, cashier |-> r.cashier,
                  opening |-> 0, status |-> "OPEN", expected |-> 0])
        BY <3>2 DEF CompleteCommit
      <4>2. IsSeq(shifts)
        BY DEF TypeOK, RowsOK
      <4>3. IsSeq(Append(shifts,
                 [register |-> r.register, cashier |-> r.cashier,
                  opening |-> 0, status |-> "OPEN", expected |-> 0]))
        BY <4>2, AppendIsSeq
      <4> QED
        BY <4>1, <4>3 DEF IsSeq
    <3> QED
      BY <3>1, <3>2
  <2>2. stock' \in [Warehouses -> [Products -> Int]]
    BY <1>8, <1>9 DEF TypeOK, RowsOK, Cart
  <2> QED
    BY <1>1, <1>11, <2>1, <2>2 DEF TypeOK, RowsOK
<1>13. JobsOK'
  BY <1>1, <1>11, DoneJobs
<1>14. \A v \in Workers : pc'[v] # "locked"
  <2>1. \A v \in Workers : v # w => pc[v] # "locked"
    BY <1>1 DEF Safe, LockHeld
  <2> QED
    BY <1>1, <2>1 DEF Done, Turn, TypeOK, JobsOK
<1>15. LockHeld' /\ StockStays'
  BY <1>1, <1>14, PosAssumption DEF LockHeld, StockStays
<1>16. ReceiptNumbers'
  BY <1>7, <1>11, <1>14 DEF Safe, ReceiptNumbers
<1>17. OneSalePerKey'
  <2>1. r.key # None => \A i \in DOMAIN sales : sales[i].key # r.key
    BY <1>5 DEF IndexAdmits, Keys
  <2>2. \A i \in DOMAIN sales' : i \in DOMAIN sales \/ i = Len(sales) + 1
    BY <1>11
  <2> QED
    BY <1>7, <1>11, <2>1, <2>2 DEF Safe, OneSalePerKey
<1>18. NoOversell'
  <2>1. ASSUME NEW g \in Warehouses, NEW p \in Products PROVE stock'[g][p] >= 0
    <3>1. stock[g][p] \in Int /\ stock[g][p] >= 0
      BY DEF Safe, NoOversell, TypeOK, RowsOK
    <3>2. CASE g = h /\ p \in Goods
      BY <1>8, <1>9, <1>10, <3>1, <3>2 DEF TypeOK, RowsOK, Cart
    <3>3. CASE ~(g = h /\ p \in Goods)
      BY <1>8, <1>9, <3>1, <3>3 DEF TypeOK, RowsOK
    <3> QED
      BY <3>2, <3>3
  <2> QED
    BY <2>1 DEF NoOversell
<1> QED
  BY <1>12, <1>13, <1>15, <1>16, <1>17, <1>18 DEF Safe, TypeOK

LEMMA VoidCommitInv ==
  ASSUME TypeOK, Safe, NEW w \in Workers, VoidCommit(w)
  PROVE  TypeOK' /\ Safe'
<1> DEFINE i == job[w].sale
           c == job[w].cost
<1>1. pc[w] = "reversing" /\ Done(w)
      /\ UNCHANGED <<registers, shifts, returns, cost, lock>>
      /\ sales' = [sales EXCEPT ![i].status = "VOIDED", ![i].voidCost = c]
      /\ Move(WarehouseOf[sales[i].register], 1, sales[i].cart, c)
  BY DEF VoidCommit
<1>2. i \in DOMAIN sales /\ c \in [Products -> Nat]
  BY <1>1 DEF TypeOK, JobsOK, JobOK
<1>3. sales[i] \in Sale
  BY <1>2, SaleType
<1>4. WarehouseOf[sales[i].register] \in Warehouses /\ sales[i].cart \in Cart
  BY <1>3, PosAssumption DEF Sale
<1>5. stock' \in [Warehouses -> [Products -> Int]] /\ StockGrows
  BY <1>1, <1>4, MoveIn
<1> DEFINE e == [sales[i] EXCEPT !.status = "VOIDED", !.voidCost = c]
<1>6. e \in Sale /\ e.receipt = sales[i].receipt /\ e.key = sales[i].key
  BY <1>2, <1>3 DEF Sale
<1>7. sales' = [sales EXCEPT ![i] = e]
  BY <1>1, <1>2, <1>3 DEF Sale
<1> HIDE DEF i, c, e
<1>8. /\ sales' \in Seq(Sale)
      /\ DOMAIN sales' = DOMAIN sales
      /\ Len(sales') = Len(sales)
      /\ \A k \in DOMAIN sales :
           sales'[k].receipt = sales[k].receipt /\ sales'[k].key = sales[k].key
  <2>1. /\ sales' \in Seq(Sale) /\ Len(sales') = Len(sales)
        /\ \A k \in 1 .. Len(sales) : sales'[k] = IF k = i THEN e ELSE sales[k]
    <3>1. sales \in Seq(Sale) /\ i \in 1 .. Len(sales)
      BY <1>2, LenProperties DEF TypeOK, RowsOK
    <3> QED
      BY <1>6, <1>7, <3>1, ExceptSeq
  <2>2. DOMAIN sales = 1 .. Len(sales) /\ DOMAIN sales' = 1 .. Len(sales')
    BY <2>1, LenProperties DEF TypeOK, RowsOK
  <2> QED
    BY <1>6, <2>1, <2>2
<1>9. RowsOK'
  BY <1>1, <1>5, <1>8 DEF TypeOK, RowsOK, IsSeq
<1>10. JobsOK'
  BY <1>1, <1>8, DoneJobs
<1>11. /\ \A v \in Workers : pc'[v] = "locked" <=> pc[v] = "locked"
       /\ \A v \in Workers : pc'[v] = "locked" => job'[v] = job[v]
  BY <1>1 DEF Done, Turn, TypeOK, JobsOK
<1>12. LockHeld' /\ NoOversell'
  BY <1>1, <1>5, <1>11 DEF Safe, LockHeld, NoOversell, StockGrows, TypeOK, RowsOK
<1>13. StockStays'
  BY <1>5, <1>11, StockStaysGrown
<1>14. ReceiptNumbers' /\ OneSalePerKey'
  BY <1>8, <1>11 DEF Safe, ReceiptNumbers, OneSalePerKey
<1> QED
  BY <1>9, <1>10, <1>12, <1>13, <1>14 DEF Safe, TypeOK

LEMMA ReturnCommitInv ==
  ASSUME TypeOK, Safe, NEW w \in Workers, ReturnCommit(w)
  PROVE  TypeOK' /\ Safe'
<1> DEFINE i == job[w].sale
<1>1. pc[w] = "returning" /\ Done(w)
      /\ UNCHANGED <<registers, shifts, sales, cost, lock>>
      /\ returns' = Append(returns, job[w])
      /\ Move(WarehouseOf[sales[i].register], 1, Only(job[w].product, job[w].qty), sales[i].cost)
  BY DEF ReturnCommit
<1>2. job[w] \in ReturnRow /\ i \in DOMAIN sales
  BY <1>1 DEF TypeOK, JobsOK, JobOK
<1>3. WarehouseOf[sales[i].register] \in Warehouses
  BY <1>2, SaleType, PosAssumption DEF Sale
<1>4. Only(job[w].product, job[w].qty) \in Cart
  BY <1>2, OnlyIsCart DEF ReturnRow
<1>5. stock' \in [Warehouses -> [Products -> Int]] /\ StockGrows
  BY <1>1, <1>3, <1>4, MoveIn
<1>6. returns' \in Seq(ReturnRow)
  BY <1>1, <1>2, AppendProperties DEF TypeOK, RowsOK
<1>7. registers' \in [Registers -> Register] /\ IsSeq(shifts)'
  BY <1>1 DEF TypeOK, RowsOK, IsSeq
<1>8. pc[w] # "locked" /\ UNCHANGED <<sales, lock, cost>>
  BY <1>1
<1> QED
  BY <1>1, <1>5, <1>6, <1>7, <1>8, QuietWrite

LEMMA OpenCommitInv ==
  ASSUME TypeOK, Safe, NEW w \in Workers, OpenCommit(w)
  PROVE  TypeOK' /\ Safe'
<1>1. pc[w] # "locked" /\ Done(w) /\ shifts' = Append(shifts, job[w])
      /\ UNCHANGED <<registers, sales, returns, stock, cost, lock>>
  BY DEF OpenCommit, salesState, stockVars
<1>2. IsSeq(Append(shifts, job[w]))
  BY AppendIsSeq DEF TypeOK, RowsOK
<1>3. IsSeq(shifts)'
  BY <1>1, <1>2 DEF IsSeq
<1>4. registers' \in [Registers -> Register] /\ returns' \in Seq(ReturnRow)
  BY <1>1 DEF TypeOK, RowsOK
<1> QED
  BY <1>1, <1>3, <1>4, StockSame, QuietWrite

(* Closing a shift keeps the sequence of shifts a sequence. *)
LEMMA ClosedIsSeq ==
  ASSUME TypeOK, NEW s, NEW sums, shifts' = Closed(s, sums)
  PROVE  IsSeq(shifts)'
<1>1. IsSeq(shifts) /\ DOMAIN shifts' = DOMAIN shifts
      /\ shifts' = [i \in DOMAIN shifts' |-> shifts'[i]]
  BY DEF Closed, TypeOK, RowsOK
<1>2. PICK t : t = shifts'
  OBVIOUS
<1>3. IsSeq(t)
  BY <1>1, <1>2, SameDomainIsSeq
<1> QED
  BY <1>2, <1>3 DEF IsSeq

LEMMA CloseCommitInv ==
  ASSUME TypeOK, Safe, NEW w \in Workers, CloseCommit(w)
  PROVE  TypeOK' /\ Safe'
<1>1. pc[w] # "locked" /\ Done(w) /\ shifts' = Closed(job[w].shift, job[w].sums)
      /\ UNCHANGED <<registers, sales, returns, stock, cost, lock>>
  BY DEF CloseCommit, salesState, stockVars
<1>2. registers' \in [Registers -> Register] /\ returns' \in Seq(ReturnRow)
  BY <1>1 DEF TypeOK, RowsOK
<1> QED
  BY <1>1, <1>2, ClosedIsSeq, StockSame, QuietWrite

LEMMA HandoverCommitInv ==
  ASSUME TypeOK, Safe, NEW w \in Workers, HandoverCommit(w)
  PROVE  TypeOK' /\ Safe'
<1>1. pc[w] = "handing" /\ Done(w)
      /\ UNCHANGED <<sales, returns, stock, cost, lock>>
  BY DEF HandoverCommit, salesState, stockVars
<1>2. IsSeq(shifts)'
  <2>1. CASE job[w].shift = 0
    BY <2>1 DEF HandoverCommit, TypeOK, RowsOK, IsSeq
  <2>2. CASE job[w].shift # 0
    BY <2>2, ClosedIsSeq DEF HandoverCommit
  <2> QED
    BY <2>1, <2>2
<1>3. registers' \in [Registers -> Register]
  <2>1. job[w].register \in Registers /\ job[w].to \in Staff /\ job[w].branch \in Branches
    BY <1>1 DEF TypeOK, JobsOK, JobOK
  <2> QED
    BY <2>1 DEF HandoverCommit, TypeOK, RowsOK, Register
<1>4. returns' \in Seq(ReturnRow)
  BY <1>1 DEF TypeOK, RowsOK
<1> QED
  BY <1>1, <1>2, <1>3, <1>4, StockSame, QuietWrite

LEMMA ConfigureCommitInv ==
  ASSUME TypeOK, Safe, NEW w \in Workers, ConfigureCommit(w)
  PROVE  TypeOK' /\ Safe'
<1>1. pc[w] = "configuring" /\ Done(w)
      /\ UNCHANGED <<shifts, sales, returns, stock, cost, lock>>
  BY DEF ConfigureCommit, salesState, stockVars
<1>2. registers' \in [Registers -> Register]
  <2>1. job[w].register \in Registers /\ job[w].change \in Change
    BY <1>1 DEF TypeOK, JobsOK, JobOK
  <2> QED
    BY <2>1 DEF ConfigureCommit, TypeOK, RowsOK, Register, Change
<1>3. IsSeq(shifts)' /\ returns' \in Seq(ReturnRow)
  BY <1>1 DEF TypeOK, RowsOK, IsSeq
<1> QED
  BY <1>1, <1>2, <1>3, StockSame, QuietWrite

LEMMA AbortInv ==
  ASSUME TypeOK, Safe, NEW w \in Workers, Abort(w)
  PROVE  TypeOK' /\ Safe'
<1>1. Done(w) /\ lock' = IF lock = w THEN None ELSE lock
  BY DEF Abort, LockAfterAbort
<1>2. UNCHANGED <<registers, shifts, sales, returns, stock, cost>>
  BY DEF Abort, stockVars
<1>3. RowsOK'
  BY <1>1, <1>2 DEF TypeOK, RowsOK, IsSeq
<1>4. JobsOK'
  BY <1>1, <1>2, DoneJobs
<1>5. /\ \A v \in Workers : pc'[v] = "locked" <=> v # w /\ pc[v] = "locked"
      /\ \A v \in Workers : pc'[v] = "locked" => job'[v] = job[v]
  BY <1>1 DEF Done, Turn, TypeOK, JobsOK
<1>6. LockHeld'
  BY <1>1, <1>5, PosAssumption DEF Safe, LockHeld
<1>7. StockStays'
  BY <1>2, <1>5 DEF Safe, StockStays, StockCovers
<1>8. ReceiptNumbers' /\ OneSalePerKey' /\ NoOversell'
  BY <1>2, <1>5 DEF Safe, ReceiptNumbers, OneSalePerKey, NoOversell
<1> QED
  BY <1>3, <1>4, <1>6, <1>7, <1>8 DEF Safe, TypeOK

(* The stock handlers: no request is served by a worker here. *)
LEMMA InventoryInv ==
  ASSUME TypeOK, Safe, Inventory
  PROVE  TypeOK' /\ Safe'
<1>1. UNCHANGED <<registers, shifts, sales, returns, lock, pc, job>>
  BY DEF Inventory, RestockProduct, EditCostPrice
<1>2. ASSUME NEW h \in Warehouses, NEW p \in Goods, NEW q \in RestockQuantities,
             NEW c, RestockProduct(h, p, q, c)
      PROVE  StockGrows /\ stock' \in [Warehouses -> [Products -> Int]]
             /\ cost' \in [Products -> Nat]
  <2>1. Only(p, q) \in Cart
    BY OnlyIsCart, PosAssumption
  <2>2. Move(h, 1, Only(p, q), [x \in Products |-> c]) /\ cost' = cost
    BY <1>2 DEF RestockProduct
  <2> QED
    BY <2>1, <2>2, MoveIn DEF TypeOK, RowsOK
<1>3. ASSUME NEW p \in Products, NEW c \in Costs[p], EditCostPrice(p, c)
      PROVE  StockGrows /\ stock' \in [Warehouses -> [Products -> Int]]
             /\ cost' \in [Products -> Nat]
  <2>1. c \in Nat /\ UNCHANGED stock
    BY <1>3, PosAssumption DEF EditCostPrice, stockVars
  <2>2. cost' \in [Products -> Nat]
    BY <1>3, <2>1 DEF EditCostPrice, TypeOK, RowsOK
  <2> QED
    BY <2>1, <2>2, StockSame
<1>4. StockGrows /\ stock' \in [Warehouses -> [Products -> Int]] /\ cost' \in [Products -> Nat]
  BY <1>2, <1>3 DEF Inventory
<1>5. TypeOK'
  BY <1>1, <1>4 DEF TypeOK, RowsOK, JobsOK, JobOK, IsSeq
<1>6. StockStays'
  BY <1>1, <1>4, StockStaysGrown
<1>7. LockHeld' /\ ReceiptNumbers' /\ OneSalePerKey' /\ NoOversell'
  BY <1>1, <1>4 DEF Safe, LockHeld, ReceiptNumbers, OneSalePerKey, NoOversell, StockGrows,
                    TypeOK, RowsOK
<1> QED
  BY <1>5, <1>6, <1>7 DEF Safe

--------------------------------------------------------------------------------
(* The theorems. *)

LEMMA InitInv == Init => TypeOK /\ Safe
<1> SUFFICES ASSUME Init PROVE TypeOK /\ Safe
  OBVIOUS
<1>1. RowsOK
  <2>1. IsSeq(shifts) /\ sales \in Seq(Sale) /\ returns \in Seq(ReturnRow)
    BY EmptySeq DEF Init, IsSeq
  <2>2. stock \in [Warehouses -> [Products -> Int]]
    BY PosAssumption DEF Init
  <2> QED
    BY <2>1, <2>2, PosAssumption DEF Init, RowsOK
<1>2. JobsOK
  BY DEF Init, JobsOK, JobOK, Labels
<1>3. LockHeld /\ StockStays
  BY PosAssumption DEF Init, LockHeld, StockStays
<1>4. ReceiptNumbers /\ OneSalePerKey
  BY EmptySeq DEF Init, ReceiptNumbers, OneSalePerKey
<1>5. NoOversell
  BY PosAssumption DEF Init, NoOversell
<1> QED
  BY <1>1, <1>2, <1>3, <1>4, <1>5 DEF TypeOK, Safe

LEMMA StutterInv ==
  ASSUME TypeOK, Safe, UNCHANGED vars
  PROVE  TypeOK' /\ Safe'
BY DEF vars, stockVars, TypeOK, RowsOK, JobsOK, JobOK, IsSeq, Safe, LockHeld, StockStays,
       StockCovers, ReceiptNumbers, OneSalePerKey, NoOversell

LEMMA NextInv == TypeOK /\ Safe /\ [Next]_vars => TypeOK' /\ Safe'
<1> SUFFICES ASSUME TypeOK, Safe, [Next]_vars PROVE TypeOK' /\ Safe'
  OBVIOUS
<1>1. ASSUME NEW w \in Workers, Complete(w) PROVE TypeOK' /\ Safe'
  BY <1>1, CompleteBeginInv, CompleteCreditInv, CompleteLockInv, CompleteCommitInv DEF Complete
<1>2. ASSUME NEW w \in Workers, Void(w) PROVE TypeOK' /\ Safe'
  BY <1>2, VoidReadInv, VoidJournalsInv, VoidCommitInv DEF Void
<1>3. ASSUME NEW w \in Workers, Return(w) PROVE TypeOK' /\ Safe'
  BY <1>3, ReturnReadInv, ReturnCommitInv DEF Return
<1>4. ASSUME NEW w \in Workers, Open(w) PROVE TypeOK' /\ Safe'
  BY <1>4, OpenReadInv, OpenCommitInv DEF Open
<1>5. ASSUME NEW w \in Workers, Close(w) PROVE TypeOK' /\ Safe'
  BY <1>5, CloseReadInv, CloseCommitInv DEF Close
<1>6. ASSUME NEW w \in Workers, Handover(w) PROVE TypeOK' /\ Safe'
  BY <1>6, HandoverReadInv, HandoverCommitInv DEF Handover
<1>7. ASSUME NEW w \in Workers, Configure(w) PROVE TypeOK' /\ Safe'
  BY <1>7, UpdateReadInv, AssignReadInv, ConfigureCommitInv DEF Configure
<1>8. CASE SalesNext
  BY <1>1, <1>2, <1>3, <1>8, AbortInv, InventoryInv DEF SalesNext
<1>9. CASE ShiftNext
  BY <1>4, <1>5, <1>6, <1>7, <1>9, ReadAggregateInv DEF ShiftNext
<1>10. CASE UNCHANGED vars
  BY <1>10, StutterInv
<1> QED
  BY <1>8, <1>9, <1>10 DEF Next

(* The inductive invariant holds in every state: the advisory lock is held *)
(* by at most one checkout, from its count to its commit, so the count and *)
(* the stock it has read are still true when it writes.                    *)
THEOREM PosInvariant == Spec => []PosInv
<1>1. TypeOK /\ Safe <=> PosInv
  BY DEF Safe, PosInv
<1>2. (TypeOK /\ Safe)' <=> PosInv'
  BY DEF Safe, PosInv
<1>3. Init => PosInv
  BY <1>1, InitInv
<1>4. PosInv /\ [Next]_vars => PosInv'
  BY <1>1, <1>2, NextInv
<1> QED
  BY <1>3, <1>4, PTL DEF Spec

(* The rows of the point of sale have their types. *)
THEOREM TypeCorrect == Spec => []TypeOK
<1>1. PosInv => TypeOK
  BY DEF PosInv
<1> QED
  BY <1>1, PosInvariant, PTL

(* Receipt numbers are contiguous and never collide, for any number of     *)
(* tills, with requests that may be aborted at any moment.                 *)
THEOREM ReceiptsAreNumbered == Spec => []ReceiptNumbers
<1>1. PosInv => ReceiptNumbers
  BY DEF PosInv
<1> QED
  BY <1>1, PosInvariant, PTL

(* A checkout is sold once however often it is sent. *)
THEOREM CheckoutsAreIdempotent == Spec => []OneSalePerKey
<1>1. PosInv => OneSalePerKey
  BY DEF PosInv
<1> QED
  BY <1>1, PosInvariant, PTL

(* The tills never sell stock a warehouse does not have. *)
THEOREM TillsNeverOversell == Spec => []NoOversell
<1>1. PosInv => NoOversell
  BY DEF PosInv
<1> QED
  BY <1>1, PosInvariant, PTL

--------------------------------------------------------------------------------
(* Lines and journals. *)

Turned(l) == Line(l.account, l.credit, l.debit)

LEMMA LineFacts ==
  /\ \A a, d, c : /\ Line(a, d, c).account = a /\ Line(a, d, c).debit = d
                  /\ Line(a, d, c).credit = c
  /\ \A l \in LineRow : /\ l.account \in TillAccounts /\ l.debit \in Int /\ l.credit \in Int
                         /\ l = Line(l.account, l.debit, l.credit)
  /\ \A a \in TillAccounts, d, c \in Int : Line(a, d, c) \in LineRow
  /\ \A l \in LineRow : /\ Turned(l) \in LineRow /\ Turned(l).account = l.account
                         /\ Turned(l).debit = l.credit /\ Turned(l).credit = l.debit
                         /\ Turned(Turned(l)) = l
BY DEF Line, LineRow, Turned

LEMMA LineType ==
  ASSUME NEW a \in TillAccounts, NEW d \in Int, NEW c \in Int
  PROVE  Line(a, d, c) \in LineRow
BY LineFacts

LEMMA LinesFine ==
  ASSUME NEW lines, IsFiniteSet(lines), lines \subseteq LineRow
  PROVE  LinesOK(lines)
BY LineFacts DEF LinesOK, LineOK

LEMMA MovementType ==
  ASSUME NEW j, IsFiniteSet(j.lines), j.lines \subseteq LineRow, NEW a
  PROVE  Movement(j, a) \in Int
BY LinesFine, MoveType

(* The only line of its account makes the movement of the account.         *)
LEMMA OneLine ==
  ASSUME NEW lines, NEW l \in lines, l \in LineRow,
         \A x \in lines : x.account = l.account => x = l,
         NEW j, j.lines = Normalized(lines)
  PROVE  Movement(j, l.account) = l.debit - l.credit
BY LineFacts, MoveOfLine DEF LineOK

LEMMA NoLine ==
  ASSUME NEW lines, NEW a, \A x \in lines : x.account # a,
         NEW j, j.lines = Normalized(lines)
  PROVE  Movement(j, a) = 0
BY MoveOfNone

(* A reversal moves every account back.                                    *)
LEMMA MirroredMoves ==
  ASSUME NEW j, IsFiniteSet(j.lines), j.lines \subseteq LineRow,
         NEW k, k.lines = Mirrored(j.lines), NEW a
  PROVE  /\ IsFiniteSet(k.lines) /\ k.lines \subseteq LineRow
         /\ Movement(k, a) = - Movement(j, a)
<1>1. LinesOK(j.lines)
  BY LinesFine
<1>2. LinesOK(k.lines) /\ Movement(k, a) = - Movement(j, a)
  BY <1>1, MoveMirrored
<1>3. k.lines = {Turned(l) : l \in j.lines}
  BY Zenon DEF Mirrored, Turned
<1> QED
  BY <1>2, <1>3, LineFacts DEF LinesOK

--------------------------------------------------------------------------------
(* Balances. *)

LEMMA JournalFacts ==
  ASSUME NEW js, BooksOK(js), NEW n \in DOMAIN js
  PROVE  /\ IsFiniteSet(js[n].lines) /\ js[n].lines \subseteq LineRow
         /\ js[n] = [lines |-> js[n].lines, status |-> js[n].status]
BY DEF BooksOK, Journal

LEMMA PartialBalanceType ==
  ASSUME NEW js, BooksOK(js), NEW N \in SUBSET DOMAIN js, NEW a
  PROVE  BalanceOver(js, N, a) \in Int
<1> DEFINE f == [n \in N |-> Movement(js[n], a)]
<1>1. IsFiniteSet(N)
  BY FS_Subset DEF BooksOK
<1>2. \A n \in N : f[n] \in Int
  BY MovementType, JournalFacts
<1> QED
  BY <1>1, <1>2, TotalType DEF BalanceOver

LEMMA BalanceOfNone ==
  ASSUME NEW js, NEW a
  PROVE  BalanceOver(js, {}, a) = 0
BY FS_EmptySet, TotalType DEF BalanceOver

LEMMA BalanceOfOne ==
  ASSUME NEW js, BooksOK(js), NEW n \in DOMAIN js, NEW a
  PROVE  BalanceOver(js, {n}, a) = Movement(js[n], a)
<1> DEFINE f == [x \in {n} |-> Movement(js[x], a)]
<1>1. f[n] = Movement(js[n], a) /\ Movement(js[n], a) \in Int
  BY MovementType, JournalFacts
<1>2. BalanceOver(js, {n}, a) = SumFunctionOnSet(f, {} \union {n})
  BY {n} = {} \union {n} DEF BalanceOver, SumFunction
<1> HIDE DEF f
<1>3. SumFunctionOnSet(f, {} \union {n}) = f[n] + SumFunctionOnSet(f, {})
  <2>1. \A y \in {} \union {n} : f[y] \in Int
    BY <1>1
  <2> QED
    BY <2>1, SumAdd, FS_EmptySet
<1> QED
  BY <1>1, <1>2, <1>3, SumEmpty

LEMMA BalanceOfUnion ==
  ASSUME NEW js, BooksOK(js), NEW M \in SUBSET DOMAIN js, NEW N \in SUBSET DOMAIN js,
         M \intersect N = {}, NEW a
  PROVE  BalanceOver(js, M \union N, a) = BalanceOver(js, M, a) + BalanceOver(js, N, a)
<1> DEFINE f(S) == [n \in S |-> Movement(js[n], a)]
           g == f(M \union N)
<1>1. IsFiniteSet(M) /\ IsFiniteSet(N)
  BY FS_Subset DEF BooksOK
<1>2. \A n \in M \union N : g[n] \in Int
  BY MovementType, JournalFacts
<1>3. SumFunctionOnSet(g, M \union N) = SumFunctionOnSet(g, M) + SumFunctionOnSet(g, N)
  <2> HIDE DEF g
  <2> QED
    BY <1>1, <1>2, SumUnion
<1>4. SumFunctionOnSet(f(M), M) = SumFunctionOnSet(g, M)
  <2>1. \A n \in M : f(M)[n] = g[n]
    OBVIOUS
  <2> HIDE DEF f, g
  <2> QED
    BY <1>1, <2>1, SumSame
<1>5. SumFunctionOnSet(f(N), N) = SumFunctionOnSet(g, N)
  <2>1. \A n \in N : f(N)[n] = g[n]
    OBVIOUS
  <2> HIDE DEF f, g
  <2> QED
    BY <1>1, <2>1, SumSame
<1>6. /\ BalanceOver(js, M \union N, a) = SumFunctionOnSet(g, M \union N)
      /\ BalanceOver(js, M, a) = SumFunctionOnSet(f(M), M)
      /\ BalanceOver(js, N, a) = SumFunctionOnSet(f(N), N)
  BY DEF BalanceOver, SumFunction
<1> QED
  BY <1>3, <1>4, <1>5, <1>6

(* Statuses do not matter, lines do.                                       *)
LEMMA BalanceSame ==
  ASSUME NEW js, NEW k, NEW N, IsFiniteSet(N), \A n \in N : k[n].lines = js[n].lines, NEW a
  PROVE  BalanceOver(k, N, a) = BalanceOver(js, N, a)
<1> DEFINE f == [n \in N |-> Movement(js[n], a)]
           g == [n \in N |-> Movement(k[n], a)]
<1>1. ASSUME NEW n \in N PROVE g[n] = f[n]
  <2>1. k[n].lines = js[n].lines
    OBVIOUS
  <2> QED
    BY <2>1 DEF Movement
<1> QED
  BY <1>1, TotalSame DEF BalanceOver

(* A step that adds the journals N moves an account by what they move.     *)
LEMMA BalanceGrows ==
  ASSUME NEW js, BooksOK(js), NEW k, BooksOK(k),
         \A n \in DOMAIN js : k[n].lines = js[n].lines,
         NEW N, DOMAIN k = DOMAIN js \union N, N \intersect DOMAIN js = {}, NEW a
  PROVE  /\ Balance(k, a) = Balance(js, a) + BalanceOver(k, N, a)
         /\ Balance(js, a) \in Int /\ BalanceOver(k, N, a) \in Int
<1>1. Balance(k, a) = BalanceOver(k, DOMAIN js, a) + BalanceOver(k, N, a)
  BY BalanceOfUnion DEF Balance
<1>2. BalanceOver(k, DOMAIN js, a) = Balance(js, a)
  BY BalanceSame DEF Balance, BooksOK
<1> QED
  BY <1>1, <1>2, PartialBalanceType DEF Balance

--------------------------------------------------------------------------------
(* What each kind of journal moves. *)

LEMMA FewAreFinite ==
  ASSUME NEW a, NEW b, NEW c, NEW d, NEW e
  PROVE  IsFiniteSet({a, b, c, d, e})
<1>1. IsFiniteSet({a})
  BY FS_Singleton
<1>2. IsFiniteSet({a} \union {b})
  BY <1>1, FS_AddElement
<1>3. IsFiniteSet(({a} \union {b}) \union {c})
  BY <1>2, FS_AddElement
<1>4. IsFiniteSet((({a} \union {b}) \union {c}) \union {d})
  BY <1>3, FS_AddElement
<1>5. IsFiniteSet(((({a} \union {b}) \union {c}) \union {d}) \union {e})
  BY <1>4, FS_AddElement
<1>6. ((({a} \union {b}) \union {c}) \union {d}) \union {e} = {a, b, c, d, e}
  OBVIOUS
<1> QED
  BY <1>5, <1>6

LEMMA NormalizedFine ==
  ASSUME NEW lines, IsFiniteSet(lines), lines \subseteq LineRow
  PROVE  IsFiniteSet(Normalized(lines)) /\ Normalized(lines) \subseteq LineRow
BY FS_Subset DEF Normalized

LEMMA CartTotals ==
  ASSUME NEW cart \in Cart
  PROVE  Total(cart) \in Int /\ TaxTotal(cart) \in Int
<1> DEFINE f == [p \in Products |-> cart[p] * Gross(p)]
           g == [p \in Products |-> cart[p] * Tax[p]]
<1>1. ASSUME NEW p \in Products PROVE f[p] \in Int /\ g[p] \in Int
  <2>1. cart[p] \in Nat /\ Net[p] \in Int /\ Tax[p] \in Int
    BY PosAssumption DEF Cart
  <2> QED
    BY <2>1 DEF Gross
<1>2. IsFiniteSet(Products)
  BY PosAssumption
<1> QED
  BY <1>1, <1>2, TotalType DEF Total, TaxTotal

LEMMA CartCost ==
  ASSUME NEW cart \in Cart, NEW c \in [Products -> Nat]
  PROVE  CostOf(cart, c) \in Nat
<1> DEFINE f == [p \in Goods |-> cart[p] * c[p]]
<1>1. ASSUME NEW p \in Goods PROVE f[p] \in Nat
  <2>1. cart[p] \in Nat /\ c[p] \in Nat
    BY PosAssumption DEF Cart
  <2> QED
    BY <2>1
<1>2. IsFiniteSet(Goods)
  BY PosAssumption, FS_Subset
<1> QED
  BY <1>1, <1>2, TotalType DEF CostOf

LEMMA SaleMoves ==
  ASSUME NEW r, r.cart \in Cart, r.credit \in Nat,
         NEW j, j.lines = Normalized(SaleLines(r))
  PROVE  /\ IsFiniteSet(j.lines) /\ j.lines \subseteq LineRow
         /\ Movement(j, "1000") = Total(r.cart) - r.credit
         /\ Movement(j, "1100") = r.credit
         /\ Movement(j, "4000") = TaxTotal(r.cart) - Total(r.cart)
         /\ Movement(j, "2100") = - TaxTotal(r.cart)
         /\ Movement(j, "1300") = 0
<1> DEFINE cash == Line("1000", Total(r.cart) - r.credit, 0)
           owed == Line("1100", r.credit, 0)
           sold == Line("4000", 0, Total(r.cart) - TaxTotal(r.cart))
           tax  == Line("2100", 0, TaxTotal(r.cart))
<1>0. Total(r.cart) \in Int /\ TaxTotal(r.cart) \in Int
  BY CartTotals
<1>1. SaleLines(r) = {cash, owed, sold, tax, tax}
  BY DEF SaleLines
<1>2. cash \in LineRow /\ owed \in LineRow /\ sold \in LineRow /\ tax \in LineRow
  <2>1. /\ Total(r.cart) - r.credit \in Int /\ r.credit \in Int
        /\ Total(r.cart) - TaxTotal(r.cart) \in Int /\ 0 \in Int
    BY <1>0
  <2>2. cash \in LineRow
    BY <2>1, LineType DEF TillAccounts
  <2>3. owed \in LineRow
    BY <2>1, LineType DEF TillAccounts
  <2>4. sold \in LineRow
    BY <2>1, LineType DEF TillAccounts
  <2>5. tax \in LineRow
    BY <1>0, LineType DEF TillAccounts
  <2> QED
    BY <2>2, <2>3, <2>4, <2>5
<1>3. /\ cash.account = "1000" /\ cash.debit = Total(r.cart) - r.credit /\ cash.credit = 0
      /\ owed.account = "1100" /\ owed.debit = r.credit /\ owed.credit = 0
      /\ sold.account = "4000" /\ sold.debit = 0 /\ sold.credit = Total(r.cart) - TaxTotal(r.cart)
      /\ tax.account = "2100" /\ tax.debit = 0 /\ tax.credit = TaxTotal(r.cart)
  BY DEF Line
<1> HIDE DEF cash, owed, sold, tax
<1>4. IsFiniteSet(SaleLines(r)) /\ SaleLines(r) \subseteq LineRow
  <2>1. IsFiniteSet({cash, owed, sold, tax, tax})
    BY FewAreFinite
  <2> QED
    BY <1>1, <1>2, <2>1
<1>5. \A x, l \in SaleLines(r) : x.account = l.account => x = l
  BY <1>1, <1>3
<1>6. \A l \in SaleLines(r) : Movement(j, l.account) = l.debit - l.credit
  BY <1>4, <1>5, OneLine
<1>7. Movement(j, "1000") = Total(r.cart) - r.credit
  BY <1>0, <1>1, <1>3, <1>6
<1>8. Movement(j, "1100") = r.credit
  BY <1>1, <1>3, <1>6
<1>9. Movement(j, "4000") = TaxTotal(r.cart) - Total(r.cart)
  BY <1>0, <1>1, <1>3, <1>6
<1>10. Movement(j, "2100") = - TaxTotal(r.cart)
  BY <1>0, <1>1, <1>3, <1>6
<1>11. Movement(j, "1300") = 0
  <2>1. \A x \in SaleLines(r) : x.account # "1300"
    BY <1>1, <1>3
  <2> QED
    BY <2>1, NoLine
<1> QED
  BY <1>4, <1>7, <1>8, <1>9, <1>10, <1>11, NormalizedFine

(* A journal of goods at cost v, a debit and a credit.                     *)
LEMMA PairMoves ==
  ASSUME NEW debit \in TillAccounts, NEW credit \in TillAccounts, debit # credit, NEW v \in Int,
         NEW j, j.lines = Normalized({Line(debit, v, 0), Line(credit, 0, v)})
  PROVE  /\ IsFiniteSet(j.lines) /\ j.lines \subseteq LineRow
         /\ Movement(j, debit) = v /\ Movement(j, credit) = - v
         /\ \A a : a # debit /\ a # credit => Movement(j, a) = 0
<1>1. j.lines = Normalized(Pair(debit, credit, v))
  BY DEF Pair
<1>2. LinesOK(j.lines) /\ \A a : Movement(j, a) = PairMove(debit, credit, v, a)
  BY <1>1, MoveOfPair
<1>3. j.lines \subseteq LineRow
  BY LineType DEF Normalized
<1> QED
  BY <1>2, <1>3 DEF LinesOK, PairMove

(* The same, of a journal that is known to have these lines. *)
PairOf(j, debit, credit, v) == j.lines = Normalized({Line(debit, v, 0), Line(credit, 0, v)})

LEMMA PairOfMoves ==
  ASSUME NEW j, NEW debit, NEW credit, NEW v, PairOf(j, debit, credit, v),
         debit \in TillAccounts, credit \in TillAccounts, debit # credit, v \in Int
  PROVE  /\ IsFiniteSet(j.lines) /\ j.lines \subseteq LineRow
         /\ Movement(j, debit) = v /\ Movement(j, credit) = - v
         /\ \A a : a # debit /\ a # credit => Movement(j, a) = 0
BY PairMoves DEF PairOf

LEMMA ReturnMoves ==
  ASSUME NEW p \in Products, NEW q \in Nat, NEW v \in Int,
         NEW j, j.lines = Normalized(ReturnLines(p, q, v))
  PROVE  /\ IsFiniteSet(j.lines) /\ j.lines \subseteq LineRow
         /\ Movement(j, "1000") = - (q * Gross(p))
         /\ Movement(j, "1100") = 0
         /\ Movement(j, "4000") + Movement(j, "2100") = q * Gross(p)
         /\ Movement(j, "1300") = v
<1> DEFINE sold == Line("4000", q * Net[p], 0)
           tax  == Line("2100", q * Tax[p], 0)
           cash == Line("1000", 0, q * Gross(p))
           in   == Line("1300", v, 0)
           used == Line("5300", 0, v)
<1>0. /\ q * Net[p] \in Int /\ q * Tax[p] \in Int /\ q * Gross(p) \in Int
      /\ q * Net[p] + q * Tax[p] = q * Gross(p)
  <2>1. Net[p] \in Int /\ Tax[p] \in Int
    BY PosAssumption
  <2>2. \A k, x, y \in Int : k * x + k * y = k * (x + y) /\ k * x \in Int /\ k * y \in Int
    OBVIOUS
  <2> QED
    BY <2>1, <2>2 DEF Gross
<1>1. ReturnLines(p, q, v) = {sold, tax, cash, in, used}
  BY DEF ReturnLines
<1>2. /\ sold \in LineRow /\ tax \in LineRow /\ cash \in LineRow
      /\ in \in LineRow /\ used \in LineRow
  <2>1. sold \in LineRow
    BY <1>0, LineType DEF TillAccounts
  <2>2. tax \in LineRow
    BY <1>0, LineType DEF TillAccounts
  <2>3. cash \in LineRow
    BY <1>0, LineType DEF TillAccounts
  <2>4. in \in LineRow
    BY LineType DEF TillAccounts
  <2>5. used \in LineRow
    BY LineType DEF TillAccounts
  <2> QED
    BY <2>1, <2>2, <2>3, <2>4, <2>5
<1>3. /\ sold.account = "4000" /\ sold.debit = q * Net[p] /\ sold.credit = 0
      /\ tax.account = "2100" /\ tax.debit = q * Tax[p] /\ tax.credit = 0
      /\ cash.account = "1000" /\ cash.debit = 0 /\ cash.credit = q * Gross(p)
      /\ in.account = "1300" /\ in.debit = v /\ in.credit = 0
      /\ used.account = "5300"
  BY DEF Line
<1> HIDE DEF sold, tax, cash, in, used
<1>4. IsFiniteSet(ReturnLines(p, q, v)) /\ ReturnLines(p, q, v) \subseteq LineRow
  <2>1. IsFiniteSet({sold, tax, cash, in, used})
    BY FewAreFinite
  <2> QED
    BY <1>1, <1>2, <2>1
<1>5. \A x, l \in ReturnLines(p, q, v) : x.account = l.account => x = l
  BY <1>1, <1>3
<1>6. \A l \in ReturnLines(p, q, v) : Movement(j, l.account) = l.debit - l.credit
  BY <1>4, <1>5, OneLine
<1>7. Movement(j, "4000") = q * Net[p] /\ Movement(j, "2100") = q * Tax[p]
  BY <1>0, <1>1, <1>3, <1>6
<1>8. Movement(j, "1000") = - (q * Gross(p))
  BY <1>0, <1>1, <1>3, <1>6
<1>9. Movement(j, "1300") = v
  BY <1>1, <1>3, <1>6
<1>10. Movement(j, "1100") = 0
  <2>1. \A x \in ReturnLines(p, q, v) : x.account # "1100"
    BY <1>1, <1>3
  <2> QED
    BY <2>1, NoLine
<1> QED
  BY <1>0, <1>4, <1>7, <1>8, <1>9, <1>10, NormalizedFine

--------------------------------------------------------------------------------
(* Reversals. *)

LEMMA VoidNumbers ==
  ASSUME NEW i
  PROVE  /\ \A j \in JournalsOf(i) : VoidNumber(j)[2] = j[1] /\ VoidNumber(j)[3] = j[2]
         /\ \A j \in JournalsOf(i) : j = <<j[1], j[2]>>
         /\ \A j, k \in JournalsOf(i) : VoidNumber(j) = VoidNumber(k) => j = k
BY DEF VoidNumber, JournalsOf

(* The books with reversals: the old journals with their lines, those      *)
(* reversed marked, and one mirrored journal for each.                     *)
LEMMA ReversedJournals ==
  ASSUME NEW js, BooksOK(js), NEW i, NEW P \in SUBSET (JournalsOf(i) \intersect DOMAIN js),
         {VoidNumber(j) : j \in P} \intersect DOMAIN js = {}
  PROVE  LET k == WithReversals(js, P) IN
         /\ DOMAIN k = DOMAIN js \union {VoidNumber(j) : j \in P}
         /\ \A n \in DOMAIN js : k[n].lines = js[n].lines
         /\ \A n \in DOMAIN js \ P : k[n] = js[n]
         /\ \A j \in P : k[j] = [lines |-> js[j].lines, status |-> "REVERSED"]
         /\ \A j \in P : k[VoidNumber(j)] = [lines |-> Mirrored(js[j].lines), status |-> "POSTED"]
<1> DEFINE k == WithReversals(js, P)
           V == {VoidNumber(j) : j \in P}
<1>1. DOMAIN k = DOMAIN js \union V
  BY DEF WithReversals
<1>2. ASSUME NEW n \in DOMAIN js PROVE ~ \E j \in P : n = VoidNumber(j)
  OBVIOUS
<1>3. ASSUME NEW n \in DOMAIN js \ P PROVE k[n] = js[n]
  BY <1>2 DEF WithReversals
<1>4. ASSUME NEW n \in P PROVE k[n] = [lines |-> js[n].lines, status |-> "REVERSED"]
  BY <1>2, JournalFacts DEF WithReversals
<1>5. ASSUME NEW j \in P
      PROVE  k[VoidNumber(j)] = [lines |-> Mirrored(js[j].lines), status |-> "POSTED"]
  <2>1. VoidNumber(j) \in V
    OBVIOUS
  <2>2. <<VoidNumber(j)[2], VoidNumber(j)[3]>> = j
    BY VoidNumbers
  <2> HIDE DEF VoidNumber
  <2>3. k[VoidNumber(j)] =
          [lines |-> Mirrored(js[<<VoidNumber(j)[2], VoidNumber(j)[3]>>].lines),
           status |-> "POSTED"]
    BY <2>1, <1>1 DEF WithReversals
  <2> QED
    BY <2>2, <2>3
<1>6. ASSUME NEW n \in DOMAIN js PROVE k[n].lines = js[n].lines
  <2>1. CASE n \in P
    <3>1. k[n] = [lines |-> js[n].lines, status |-> "REVERSED"]
      BY <1>4, <2>1
    <3> QED
      BY <3>1
  <2>2. CASE n \notin P
    BY <1>3, <2>2
  <2> QED
    BY <2>1, <2>2
<1> QED
  BY <1>1, <1>3, <1>4, <1>5, <1>6

LEMMA ReversedBalance ==
  ASSUME NEW js, BooksOK(js), NEW i, NEW P \in SUBSET (JournalsOf(i) \intersect DOMAIN js),
         {VoidNumber(j) : j \in P} \intersect DOMAIN js = {}
  PROVE  /\ BooksOK(WithReversals(js, P))
         /\ \A a : Balance(WithReversals(js, P), a) = Balance(js, a) - BalanceOver(js, P, a)
<1> DEFINE k == WithReversals(js, P)
           g == [j \in P |-> VoidNumber(j)]
           V == {g[j] : j \in P}
<1>1. V = {VoidNumber(j) : j \in P}
  OBVIOUS
<1>2. /\ DOMAIN k = DOMAIN js \union V
      /\ \A n \in DOMAIN js : k[n].lines = js[n].lines
      /\ \A n \in DOMAIN js \ P : k[n] = js[n]
      /\ \A j \in P : k[j] = [lines |-> js[j].lines, status |-> "REVERSED"]
      /\ \A j \in P : k[g[j]] = [lines |-> Mirrored(js[j].lines), status |-> "POSTED"]
  <2>1. \A j \in P : g[j] = VoidNumber(j)
    OBVIOUS
  <2>4. /\ DOMAIN k = DOMAIN js \union {VoidNumber(j) : j \in P}
        /\ \A n \in DOMAIN js : k[n].lines = js[n].lines
        /\ \A n \in DOMAIN js \ P : k[n] = js[n]
        /\ \A j \in P : k[j] = [lines |-> js[j].lines, status |-> "REVERSED"]
        /\ \A j \in P : k[VoidNumber(j)] = [lines |-> Mirrored(js[j].lines), status |-> "POSTED"]
    BY ReversedJournals
  <2> HIDE DEF k, g
  <2>5. ASSUME NEW j \in P
        PROVE  k[g[j]] = [lines |-> Mirrored(js[j].lines), status |-> "POSTED"]
    <3>1. k[VoidNumber(j)] = [lines |-> Mirrored(js[j].lines), status |-> "POSTED"]
      BY <2>4
    <3>2. g[j] = VoidNumber(j)
      BY <2>1
    <3> QED
      BY <3>1, <3>2
  <2> QED
    BY <1>1, <2>4, <2>5
<1>3. IsFiniteSet(P) /\ \A j \in P : IsFiniteSet(js[j].lines) /\ js[j].lines \subseteq LineRow
  BY FS_Subset, JournalFacts DEF BooksOK
<1>4. \A j, m \in P : g[j] = g[m] => j = m
  BY VoidNumbers
<1>5. V \intersect DOMAIN js = {}
  BY <1>1
<1> HIDE DEF k, g
<1>6. IsFiniteSet(V)
  BY <1>3, ImageFinite
<1>7. ASSUME NEW j \in P, NEW a
      PROVE  /\ IsFiniteSet(k[g[j]].lines) /\ k[g[j]].lines \subseteq LineRow
             /\ Movement(k[g[j]], a) = - Movement(js[j], a)
  <2>1. k[g[j]] = [lines |-> Mirrored(js[j].lines), status |-> "POSTED"]
    BY <1>2
  <2>2. k[g[j]].lines = Mirrored(js[j].lines)
    BY <2>1
  <2> QED
    BY <1>3, <2>2, MirroredMoves
<1>8. BooksOK(k)
  <2>1. IsFiniteSet(DOMAIN js \union V)
    BY <1>6, FS_Union DEF BooksOK
  <2>2. ASSUME NEW n \in DOMAIN js PROVE k[n] \in Journal /\ IsFiniteSet(k[n].lines)
    <3>1. CASE n \in P
      <4>1. k[n] = [lines |-> js[n].lines, status |-> "REVERSED"]
        BY <1>2, <3>1
      <4> QED
        BY <4>1, JournalFacts DEF Journal
    <3>2. CASE n \notin P
      BY <1>2, <3>2 DEF BooksOK
    <3> QED
      BY <3>1, <3>2
  <2>3. ASSUME NEW j \in P PROVE k[g[j]] \in Journal /\ IsFiniteSet(k[g[j]].lines)
    <3>1. k[g[j]] = [lines |-> Mirrored(js[j].lines), status |-> "POSTED"]
      BY <1>2
    <3>2. IsFiniteSet(k[g[j]].lines) /\ k[g[j]].lines \subseteq LineRow
      BY <1>7
    <3> QED
      BY <3>1, <3>2 DEF Journal
  <2> QED
    BY <1>2, <2>1, <2>2, <2>3 DEF BooksOK
<1>9. ASSUME NEW a PROVE BalanceOver(k, V, a) = - BalanceOver(js, P, a)
  <2> DEFINE f == [j \in P |-> Movement(js[j], a)]
             b == [j \in P |-> Movement(k[g[j]], a)]
             e == [n \in V |-> Movement(k[n], a)]
  <2>1. \A j \in P : f[j] \in Int /\ b[j] \in Int /\ b[j] = (-1) * f[j] /\ e[g[j]] = b[j]
    BY <1>3, <1>7, MovementType
  <2>2. BalanceOver(k, V, a) = SumFunctionOnSet(e, V)
    BY DEF BalanceOver, SumFunction
  <2>3. BalanceOver(js, P, a) = SumFunctionOnSet(f, P)
    BY DEF BalanceOver, SumFunction
  <2> HIDE DEF f, b, e
  <2>4. SumFunctionOnSet(e, V) = SumFunctionOnSet(b, P)
    BY <1>3, <1>4, <2>1, SumImage
  <2>5. SumFunctionOnSet(b, P) = (-1) * SumFunctionOnSet(f, P)
    BY <1>3, <2>1, SumTimes
  <2>6. SumFunctionOnSet(f, P) \in Int
    BY <1>3, <2>1, SumType
  <2> QED
    BY <2>2, <2>3, <2>4, <2>5, <2>6
<1>10. ASSUME NEW a PROVE Balance(k, a) = Balance(js, a) - BalanceOver(js, P, a)
  <2>1. \A n \in DOMAIN js : k[n].lines = js[n].lines
    BY <1>2
  <2>3. DOMAIN k = DOMAIN js \union V
    BY <1>2
  <2>4. /\ Balance(k, a) = Balance(js, a) + BalanceOver(k, V, a)
        /\ Balance(js, a) \in Int
    BY <1>5, <1>8, <2>1, <2>3, BalanceGrows
  <2>2. BalanceOver(js, P, a) \in Int
    BY PartialBalanceType
  <2> QED
    BY <1>9, <2>2, <2>4
<1> QED
  BY <1>8, <1>10 DEF k

--------------------------------------------------------------------------------
(* The sums over the rows, and how the rows' changes change them. *)

TakenIn  == SumFunction([i \in Kept |-> Total(sales[i].cart) - sales[i].credit])
SoldFor  == SumFunction([i \in Kept |-> Total(sales[i].cart)])
Owed     == SumFunction([c \in Customers |-> Exposure(c)])
Held     == SumFunction([p \in Goods |-> worth[p]])
Revalued ==
  SumFunction([i \in Voided |-> CostOf(sales[i].cart, sales[i].cost)
                                 - CostOf(sales[i].cart, sales[i].voidCost)])

LEMMA SalesFinite ==
  ASSUME TypeOK
  PROVE  /\ IsFiniteSet(DOMAIN sales) /\ IsFiniteSet(Kept) /\ IsFiniteSet(Voided)
         /\ \A c : IsFiniteSet(Completed(SalesOf(c)))
<1>1. DOMAIN sales = 1 .. Len(sales) /\ Len(sales) \in Nat
  BY LenProperties DEF TypeOK, RowsOK
<1>2. IsFiniteSet(DOMAIN sales)
  BY <1>1, FS_Interval
<1> QED
  BY <1>2, FS_Subset DEF Kept, Voided, Completed, SalesOf

LEMMA SaleAmounts ==
  ASSUME TypeOK, NEW i \in DOMAIN sales
  PROVE  /\ sales[i].cart \in Cart /\ sales[i].credit \in Nat
         /\ Total(sales[i].cart) \in Int
         /\ CostOf(sales[i].cart, sales[i].cost) \in Nat
         /\ CostOf(sales[i].cart, sales[i].voidCost) \in Nat
<1>1. /\ sales[i].cart \in Cart /\ sales[i].credit \in Nat
      /\ sales[i].cost \in [Products -> Nat] /\ sales[i].voidCost \in [Products -> Nat]
  BY SaleType DEF Sale
<1> QED
  BY <1>1, CartTotals, CartCost

LEMMA ExposureType ==
  ASSUME TypeOK, NEW c
  PROVE  Exposure(c) \in Int
<1> DEFINE f == [i \in Completed(SalesOf(c)) |-> sales[i].credit]
<1>1. ASSUME NEW i \in Completed(SalesOf(c)) PROVE f[i] \in Int
  <2>1. i \in DOMAIN sales
    BY DEF Completed, SalesOf
  <2> QED
    BY <2>1, SaleAmounts
<1> QED
  BY <1>1, SalesFinite, TotalType DEF Exposure

LEMMA ReturnsFinite ==
  ASSUME TypeOK
  PROVE  /\ DOMAIN returns = 1 .. Len(returns) /\ Len(returns) \in Nat
         /\ IsFiniteSet(DOMAIN returns)
         /\ \A k \in DOMAIN returns :
              returns[k] \in ReturnRow /\ returns[k].qty * Gross(returns[k].product) \in Int
<1>1. DOMAIN returns = 1 .. Len(returns) /\ Len(returns) \in Nat
  BY LenProperties DEF TypeOK, RowsOK
<1>2. \A k \in DOMAIN returns : returns[k] \in ReturnRow
  BY <1>1, ElementOfSeq DEF TypeOK, RowsOK
<1>3. ASSUME NEW k \in DOMAIN returns
      PROVE  returns[k].qty * Gross(returns[k].product) \in Int
  <2>1. returns[k].qty \in Nat /\ returns[k].product \in Products
    BY <1>2 DEF ReturnRow
  <2>2. Gross(returns[k].product) \in Int
    BY <2>1, PosAssumption DEF Gross
  <2> QED
    BY <2>1, <2>2
<1> QED
  BY <1>1, <1>2, <1>3, FS_Interval

LEMMA RowSums ==
  ASSUME TypeOK, worth \in [Products -> Int]
  PROVE  /\ TakenIn \in Int /\ SoldFor \in Int /\ Owed \in Int /\ Held \in Int
         /\ Revalued \in Int /\ Refunds \in Int
<1> DEFINE taken == [i \in Kept |-> Total(sales[i].cart) - sales[i].credit]
           sold == [i \in Kept |-> Total(sales[i].cart)]
           owed == [c \in Customers |-> Exposure(c)]
           held == [p \in Goods |-> worth[p]]
           lost == [i \in Voided |-> CostOf(sales[i].cart, sales[i].cost)
                                       - CostOf(sales[i].cart, sales[i].voidCost)]
           back == [k \in DOMAIN returns |-> returns[k].qty * Gross(returns[k].product)]
<1>1. ASSUME NEW i \in Kept PROVE taken[i] \in Int /\ sold[i] \in Int
  BY SaleAmounts DEF Kept
<1>2. ASSUME NEW i \in Voided PROVE lost[i] \in Int
  BY SaleAmounts DEF Voided
<1>3. \A c \in Customers : owed[c] \in Int
  BY ExposureType
<1>4. \A p \in Goods : held[p] \in Int
  BY PosAssumption
<1>5. \A k \in DOMAIN returns : back[k] \in Int
  BY ReturnsFinite
<1>6. IsFiniteSet(Goods) /\ IsFiniteSet(Customers)
  BY PosAssumption, FS_Subset
<1>7. SumFunction(taken) \in Int /\ SumFunction(sold) \in Int
  BY <1>1, SalesFinite, TotalType
<1>8. SumFunction(lost) \in Int
  BY <1>2, SalesFinite, TotalType
<1>9. SumFunction(owed) \in Int /\ SumFunction(held) \in Int
  BY <1>3, <1>4, <1>6, TotalType
<1>10. SumFunction(back) \in Int
  BY <1>5, ReturnsFinite, TotalType
<1> QED
  BY <1>7, <1>8, <1>9, <1>10 DEF TakenIn, SoldFor, Owed, Held, Revalued, Refunds

(* What a customer owes, when a sale is added.                             *)
LEMMA SoldExposure ==
  ASSUME TypeOK, NEW e \in Sale, sales' = Append(sales, e), e.status = "COMPLETED", NEW c
  PROVE  Exposure(c)' = Exposure(c) + (IF c = e.customer THEN e.credit ELSE 0)
<1> DEFINE n == Len(sales) + 1
<1>1. /\ DOMAIN sales = 1 .. Len(sales) /\ Len(sales) \in Nat
      /\ DOMAIN sales' = 1 .. Len(sales) + 1
      /\ \A i \in DOMAIN sales : sales'[i] = sales[i]
      /\ sales'[n] = e
  BY AppendSale DEF TypeOK, RowsOK
<1>2. n \notin DOMAIN sales /\ DOMAIN sales' = DOMAIN sales \union {n}
  BY <1>1
<1>3. e.credit \in Nat
  BY DEF Sale
<1> HIDE DEF n
<1> DEFINE S == Completed(SalesOf(c))
           f == [i \in S |-> sales[i].credit]
           g == [i \in S' |-> sales'[i].credit]
<1>4. /\ Exposure(c) = SumFunction(f) /\ Exposure(c)' = SumFunction(g)
      /\ DOMAIN f = S /\ DOMAIN g = S'
  BY DEF Exposure
<1>5. \A i \in S : i \in DOMAIN sales /\ f[i] \in Int
  BY SaleAmounts DEF Completed, SalesOf
<1>6. \A i \in S : i \in S' /\ g[i] = f[i]
  BY <1>1, <1>2, <1>5 DEF Completed, SalesOf
<1>7. S' = IF c = e.customer THEN S \union {n} ELSE S
  BY <1>1, <1>2 DEF Completed, SalesOf
<1>8. c = e.customer => g[n] = e.credit
  BY <1>1, <1>7
<1>9. n \notin S
  BY <1>2 DEF Completed, SalesOf
<1>10. IsFiniteSet(S) /\ SumFunction(f) \in Int
  BY <1>4, ExposureType, SalesFinite
<1> HIDE DEF S, f, g
<1>11. CASE c = e.customer
  <2>1. DOMAIN g = DOMAIN f \union {n} /\ g[n] \in Int /\ n \notin DOMAIN f
    BY <1>3, <1>4, <1>7, <1>8, <1>9, <1>11
  <2>2. SumFunction(g) = SumFunction(f) + g[n]
    BY <1>4, <1>5, <1>6, <1>10, <2>1, TotalAdd
  <2> QED
    BY <1>4, <1>8, <1>11, <2>2
<1>12. CASE c # e.customer
  <2>1. SumFunction(g) = SumFunction(f)
    BY <1>4, <1>6, <1>7, <1>10, <1>12, TotalSame
  <2> QED
    BY <1>4, <1>10, <1>12, <2>1
<1> QED
  BY <1>11, <1>12

(* A sale is added.                                                        *)
LEMMA SoldRows ==
  ASSUME TypeOK, TypeOK', NEW e \in Sale, sales' = Append(sales, e),
         e.status = "COMPLETED", e.credit > 0 => e.customer # None
  PROVE  /\ TakenIn' = TakenIn + (Total(e.cart) - e.credit)
         /\ SoldFor' = SoldFor + Total(e.cart)
         /\ Owed' = Owed + e.credit
         /\ Revalued' = Revalued
<1> DEFINE n == Len(sales) + 1
<1>1. /\ DOMAIN sales = 1 .. Len(sales) /\ Len(sales) \in Nat
      /\ DOMAIN sales' = 1 .. Len(sales) + 1
      /\ \A i \in DOMAIN sales : sales'[i] = sales[i]
      /\ sales'[n] = e
  BY AppendSale DEF TypeOK, RowsOK
<1>2. n \notin DOMAIN sales /\ DOMAIN sales' = DOMAIN sales \union {n}
  BY <1>1
<1>3. e.cart \in Cart /\ e.credit \in Nat /\ Total(e.cart) \in Int
  BY CartTotals DEF Sale
<1> HIDE DEF n
<1>4. Kept' = Kept \union {n} /\ n \notin Kept /\ Voided' = Voided
  BY <1>1, <1>2 DEF Kept, Voided
<1>5. ASSUME NEW i \in Kept
      PROVE  /\ sales'[i] = sales[i] /\ Total(sales[i].cart) \in Int
             /\ Total(sales[i].cart) - sales[i].credit \in Int
  BY <1>1, SaleAmounts DEF Kept
<1>6. TakenIn' = TakenIn + (Total(e.cart) - e.credit)
  <2> DEFINE f == [i \in Kept |-> Total(sales[i].cart) - sales[i].credit]
             g == [i \in Kept' |-> Total(sales'[i].cart) - sales'[i].credit]
  <2>0. ASSUME NEW i \in Kept PROVE f[i] \in Int /\ g[i] = f[i]
    <3>1. sales'[i] = sales[i] /\ i \in Kept'
      BY <1>4, <1>5
    <3>2. g[i] = Total(sales'[i].cart) - sales'[i].credit
      BY <3>1
    <3> QED
      BY <1>5, <3>1, <3>2
  <2>4. g[n] = Total(e.cart) - e.credit
    <3>1. n \in Kept'
      BY <1>4
    <3>2. g[n] = Total(sales'[n].cart) - sales'[n].credit
      BY <3>1
    <3> QED
      BY <1>1, <3>2
  <2>5. DOMAIN f = Kept /\ DOMAIN g = Kept \union {n}
    BY <1>4
  <2>6. Total(e.cart) - e.credit \in Int
    BY <1>3
  <2> HIDE DEF f, g
  <2>1. /\ \A i \in Kept : f[i] \in Int /\ g[i] = f[i]
        /\ g[n] = Total(e.cart) - e.credit /\ g[n] \in Int
        /\ DOMAIN f = Kept /\ DOMAIN g = Kept \union {n}
    BY <2>0, <2>4, <2>5, <2>6
  <2>2. SumFunction(f) = TakenIn /\ SumFunction(g) = TakenIn'
    BY DEF TakenIn, f, g
  <2>3. SumFunction(g) = SumFunction(f) + g[n]
    BY <1>4, <2>1, SalesFinite, TotalAdd
  <2> QED
    BY <2>1, <2>2, <2>3
<1>7. SoldFor' = SoldFor + Total(e.cart)
  <2> DEFINE f == [i \in Kept |-> Total(sales[i].cart)]
             g == [i \in Kept' |-> Total(sales'[i].cart)]
  <2>1. /\ \A i \in Kept : f[i] \in Int /\ g[i] = f[i]
        /\ g[n] = Total(e.cart) /\ g[n] \in Int
        /\ DOMAIN f = Kept /\ DOMAIN g = Kept \union {n}
    BY <1>1, <1>3, <1>4, <1>5
  <2>2. SumFunction(f) = SoldFor /\ SumFunction(g) = SoldFor'
    BY DEF SoldFor
  <2> HIDE DEF f, g
  <2>3. SumFunction(g) = SumFunction(f) + g[n]
    BY <1>4, <2>1, SalesFinite, TotalAdd
  <2> QED
    BY <2>1, <2>2, <2>3
<1>8. ASSUME NEW c
      PROVE  Exposure(c)' = Exposure(c) + (IF c = e.customer THEN e.credit ELSE 0)
  BY SoldExposure
<1>9. Owed' = Owed + e.credit
  <2> DEFINE f == [c \in Customers |-> Exposure(c)]
             g == [c \in Customers |-> Exposure(c)']
  <2>1. Owed = SumFunction(f) /\ Owed' = SumFunction(g)
    BY DEF Owed
  <2>2. \A c \in Customers : f[c] \in Int /\ g[c] \in Int
    BY <1>3, <1>8, ExposureType
  <2>3. \A c \in Customers : g[c] = f[c] + (IF c = e.customer THEN e.credit ELSE 0)
    BY <1>8
  <2>4. IsFiniteSet(Customers) /\ DOMAIN f = Customers /\ DOMAIN g = Customers
    BY PosAssumption
  <2>5. SumFunction(f) \in Int
    BY <2>2, <2>4, TotalType
  <2> HIDE DEF f, g
  <2>6. CASE e.customer \in Customers
    <3>1. SumFunction(g) = SumFunction(f) - f[e.customer] + g[e.customer]
      BY <2>2, <2>3, <2>4, <2>6, TotalChange
    <3>2. f[e.customer] \in Int /\ g[e.customer] = f[e.customer] + e.credit
      BY <2>2, <2>3, <2>6
    <3> QED
      BY <1>3, <2>1, <2>5, <3>1, <3>2
  <2>7. CASE e.customer \notin Customers
    <3>1. e.credit = 0
      BY <1>3, <2>7 DEF Sale
    <3>2. \A c \in Customers : g[c] = f[c]
      BY <2>2, <2>3, <3>1
    <3>3. SumFunction(g) = SumFunction(f)
      BY <2>4, <3>2, TotalSame
    <3> QED
      BY <2>1, <2>5, <3>1, <3>3
  <2> QED
    BY <2>6, <2>7
<1>10. Revalued' = Revalued
  <2>1. \A i \in Voided : sales'[i] = sales[i]
    BY <1>1 DEF Voided
  <2> QED
    BY <1>4, <2>1 DEF Revalued
<1> QED
  BY <1>6, <1>7, <1>9, <1>10

(* What a customer owes, when a sale is voided.                            *)
LEMMA VoidedExposure ==
  ASSUME TypeOK, NEW i \in DOMAIN sales, sales[i].status = "COMPLETED",
         NEW e, sales' = [sales EXCEPT ![i] = e], e.status = "VOIDED",
         e.credit = sales[i].credit, e.customer = sales[i].customer, NEW c
  PROVE  Exposure(c)' = Exposure(c) - (IF c = e.customer THEN e.credit ELSE 0)
<1>1. /\ DOMAIN sales' = DOMAIN sales /\ sales'[i] = e
      /\ \A k \in DOMAIN sales \ {i} : sales'[k] = sales[k]
  OBVIOUS
<1> DEFINE S == Completed(SalesOf(c))
           f == [k \in S |-> sales[k].credit]
           g == [k \in S' |-> sales'[k].credit]
<1>2. /\ Exposure(c) = SumFunction(f) /\ Exposure(c)' = SumFunction(g)
      /\ DOMAIN f = S /\ DOMAIN g = S'
  BY DEF Exposure
<1>3. \A k \in S : k \in DOMAIN sales /\ f[k] \in Int
  BY SaleAmounts DEF Completed, SalesOf
<1>4. S' = S \ {i} /\ (i \in S <=> c = e.customer)
  BY <1>1 DEF Completed, SalesOf
<1>5. \A k \in S' : g[k] = f[k]
  BY <1>1, <1>3, <1>4
<1>6. i \in S => f[i] = e.credit
  OBVIOUS
<1>7. IsFiniteSet(S) /\ SumFunction(f) \in Int
  BY <1>2, ExposureType, SalesFinite
<1> HIDE DEF S, f, g
<1>8. CASE c = e.customer
  <2>1. SumFunction(g) = SumFunction(f) - f[i]
    BY <1>2, <1>3, <1>4, <1>5, <1>7, <1>8, TotalRemove
  <2> QED
    BY <1>2, <1>4, <1>6, <1>8, <2>1
<1>9. CASE c # e.customer
  <2>1. SumFunction(g) = SumFunction(f)
    BY <1>2, <1>4, <1>5, <1>7, <1>9, TotalSame
  <2> QED
    BY <1>2, <1>7, <1>9, <2>1
<1> QED
  BY <1>8, <1>9

(* A sale is voided.                                                       *)
LEMMA VoidedRows ==
  ASSUME TypeOK, TypeOK', NEW i \in DOMAIN sales, sales[i].status = "COMPLETED",
         NEW e \in Sale, sales' = [sales EXCEPT ![i] = e], e.status = "VOIDED",
         e.cart = sales[i].cart, e.cost = sales[i].cost, e.credit = sales[i].credit,
         e.customer = sales[i].customer, e.credit > 0 => e.customer # None
  PROVE  /\ TakenIn' = TakenIn - (Total(e.cart) - e.credit)
         /\ SoldFor' = SoldFor - Total(e.cart)
         /\ Owed' = Owed - e.credit
         /\ Revalued' = Revalued + (CostOf(e.cart, e.cost) - CostOf(e.cart, e.voidCost))
<1>1. /\ DOMAIN sales' = DOMAIN sales /\ sales'[i] = e
      /\ \A k \in DOMAIN sales \ {i} : sales'[k] = sales[k]
  OBVIOUS
<1>2. /\ i \in Kept /\ Kept' = Kept \ {i} /\ i \notin Voided /\ Voided' = Voided \union {i}
  BY <1>1 DEF Kept, Voided
<1>3. /\ e.cart \in Cart /\ e.credit \in Nat /\ Total(e.cart) \in Int
      /\ CostOf(e.cart, e.cost) \in Nat /\ CostOf(e.cart, e.voidCost) \in Nat
  BY CartTotals, CartCost DEF Sale
<1>4. ASSUME NEW k \in Kept
      PROVE  /\ k # i => sales'[k] = sales[k]
             /\ Total(sales[k].cart) \in Int
             /\ Total(sales[k].cart) - sales[k].credit \in Int
  BY <1>1, SaleAmounts DEF Kept
<1>5. TakenIn' = TakenIn - (Total(e.cart) - e.credit)
  <2> DEFINE f == [k \in Kept |-> Total(sales[k].cart) - sales[k].credit]
             g == [k \in Kept' |-> Total(sales'[k].cart) - sales'[k].credit]
  <2>1. ASSUME NEW k \in Kept' PROVE g[k] = f[k]
    <3>1. k \in Kept /\ sales'[k] = sales[k]
      BY <1>2, <1>4
    <3>2. g[k] = Total(sales'[k].cart) - sales'[k].credit
      OBVIOUS
    <3> QED
      BY <3>1, <3>2
  <2>2. \A k \in Kept : f[k] \in Int
    BY <1>4
  <2>3. DOMAIN f = Kept /\ DOMAIN g = Kept \ {i}
    BY <1>2
  <2>4. f[i] = Total(e.cart) - e.credit
    BY <1>2
  <2>5. SumFunction(f) = TakenIn /\ SumFunction(g) = TakenIn'
    BY DEF TakenIn
  <2> HIDE DEF f, g
  <2>6. SumFunction(g) = SumFunction(f) - f[i]
    BY <1>2, <2>1, <2>2, <2>3, SalesFinite, TotalRemove
  <2> QED
    BY <2>4, <2>5, <2>6
<1>6. SoldFor' = SoldFor - Total(e.cart)
  <2> DEFINE f == [k \in Kept |-> Total(sales[k].cart)]
             g == [k \in Kept' |-> Total(sales'[k].cart)]
  <2>1. \A k \in Kept' : g[k] = f[k]
    BY <1>2, <1>4
  <2>2. \A k \in Kept : f[k] \in Int
    BY <1>4
  <2>3. DOMAIN f = Kept /\ DOMAIN g = Kept \ {i}
    BY <1>2
  <2>4. f[i] = Total(e.cart)
    BY <1>2
  <2>5. SumFunction(f) = SoldFor /\ SumFunction(g) = SoldFor'
    BY DEF SoldFor
  <2> HIDE DEF f, g
  <2>6. SumFunction(g) = SumFunction(f) - f[i]
    BY <1>2, <2>1, <2>2, <2>3, SalesFinite, TotalRemove
  <2> QED
    BY <2>4, <2>5, <2>6
<1>7. ASSUME NEW c
      PROVE  Exposure(c)' = Exposure(c) - (IF c = e.customer THEN e.credit ELSE 0)
  BY VoidedExposure
<1>8. Owed' = Owed - e.credit
  <2> DEFINE f == [c \in Customers |-> Exposure(c)]
             g == [c \in Customers |-> Exposure(c)']
  <2>1. Owed = SumFunction(f) /\ Owed' = SumFunction(g)
    BY DEF Owed
  <2>2. \A c \in Customers : f[c] \in Int /\ g[c] \in Int
    BY <1>3, <1>7, ExposureType
  <2>3. \A c \in Customers : g[c] = f[c] - (IF c = e.customer THEN e.credit ELSE 0)
    BY <1>7
  <2>4. IsFiniteSet(Customers) /\ DOMAIN f = Customers /\ DOMAIN g = Customers
    BY PosAssumption
  <2>5. SumFunction(f) \in Int
    BY <2>2, <2>4, TotalType
  <2> HIDE DEF f, g
  <2>6. CASE e.customer \in Customers
    <3>1. SumFunction(g) = SumFunction(f) - f[e.customer] + g[e.customer]
      BY <2>2, <2>3, <2>4, <2>6, TotalChange
    <3>2. f[e.customer] \in Int /\ g[e.customer] = f[e.customer] - e.credit
      BY <2>2, <2>3, <2>6
    <3> QED
      BY <1>3, <2>1, <2>5, <3>1, <3>2
  <2>7. CASE e.customer \notin Customers
    <3>1. e.credit = 0
      BY <1>3, <2>7 DEF Sale
    <3>2. \A c \in Customers : g[c] = f[c]
      BY <2>2, <2>3, <3>1
    <3>3. SumFunction(g) = SumFunction(f)
      BY <2>4, <3>2, TotalSame
    <3> QED
      BY <2>1, <2>5, <3>1, <3>3
  <2> QED
    BY <2>6, <2>7
<1>9. Revalued' = Revalued + (CostOf(e.cart, e.cost) - CostOf(e.cart, e.voidCost))
  <2> DEFINE change(s) == CostOf(s.cart, s.cost) - CostOf(s.cart, s.voidCost)
             f == [k \in Voided |-> change(sales[k])]
             g == [k \in Voided' |-> change(sales'[k])]
  <2>1. SumFunction(f) = Revalued /\ SumFunction(g) = Revalued'
    BY DEF Revalued
  <2>2. ASSUME NEW k \in Voided PROVE f[k] \in Int
    <3>1. f[k] = CostOf(sales[k].cart, sales[k].cost) - CostOf(sales[k].cart, sales[k].voidCost)
      OBVIOUS
    <3>2. k \in DOMAIN sales
      BY DEF Voided
    <3> QED
      BY <3>1, <3>2, SaleAmounts
  <2>3. change(e) \in Int
    BY <1>3
  <2> HIDE DEF change
  <2>4. ASSUME NEW k \in Voided PROVE g[k] = f[k]
    <3>1. k \in Voided' /\ sales'[k] = sales[k]
      BY <1>1, <1>2 DEF Voided
    <3> QED
      BY <3>1
  <2>5. g[i] = change(e)
    BY <1>1, <1>2
  <2>6. DOMAIN f = Voided /\ DOMAIN g = Voided \union {i}
    BY <1>2
  <2> HIDE DEF f, g
  <2>7. SumFunction(g) = SumFunction(f) + g[i]
    BY <1>2, <2>2, <2>3, <2>4, <2>5, <2>6, SalesFinite, TotalAdd
  <2> QED
    BY <2>1, <2>5, <2>7 DEF change
<1> QED
  BY <1>5, <1>6, <1>8, <1>9

(* A return is added.                                                      *)
LEMMA ReturnedRows ==
  ASSUME TypeOK, TypeOK', NEW r \in ReturnRow, returns' = Append(returns, r)
  PROVE  Refunds' = Refunds + r.qty * Gross(r.product)
<1> DEFINE n == Len(returns) + 1
           f == [k \in DOMAIN returns |-> returns[k].qty * Gross(returns[k].product)]
           g == [k \in DOMAIN returns' |-> returns'[k].qty * Gross(returns'[k].product)]
<1>1. /\ returns' \in Seq(ReturnRow) /\ Len(returns') = n
      /\ \A k \in 1 .. Len(returns) : returns'[k] = returns[k]
      /\ returns'[n] = r
  BY AppendProperties DEF TypeOK, RowsOK
<1>2. DOMAIN returns = 1 .. Len(returns) /\ Len(returns) \in Nat
  BY ReturnsFinite
<1>3. DOMAIN returns' = 1 .. n
  BY <1>1, LenProperties
<1>4. n \notin DOMAIN returns /\ DOMAIN returns' = DOMAIN returns \union {n}
  BY <1>2, <1>3
<1> HIDE DEF n
<1>5. Refunds = SumFunction(f) /\ Refunds' = SumFunction(g)
  BY DEF Refunds
<1>6. ASSUME NEW k \in DOMAIN returns PROVE f[k] \in Int /\ g[k] = f[k]
  <2>1. returns'[k] = returns[k] /\ k \in DOMAIN returns'
    BY <1>1, <1>2, <1>4
  <2>2. g[k] = returns'[k].qty * Gross(returns'[k].product)
    BY <2>1
  <2>3. f[k] = returns[k].qty * Gross(returns[k].product)
    OBVIOUS
  <2> QED
    BY <2>1, <2>2, <2>3, ReturnsFinite
<1>7. g[n] = r.qty * Gross(r.product)
  <2>1. n \in DOMAIN returns'
    BY <1>4
  <2> QED
    BY <1>1, <2>1
<1>8. r.qty * Gross(r.product) \in Int
  <2>1. r.qty \in Nat /\ r.product \in Products
    BY DEF ReturnRow
  <2>2. Gross(r.product) \in Int
    BY <2>1, PosAssumption DEF Gross
  <2> QED
    BY <2>1, <2>2
<1>9. DOMAIN f = DOMAIN returns /\ DOMAIN g = DOMAIN returns \union {n}
  BY <1>4
<1>10. IsFiniteSet(DOMAIN returns)
  BY ReturnsFinite
<1> HIDE DEF f, g
<1>11. SumFunction(g) = SumFunction(f) + g[n]
  BY <1>4, <1>6, <1>7, <1>8, <1>9, <1>10, TotalAdd
<1> QED
  BY <1>5, <1>7, <1>11

(* Goods move in or out: the stock is worth their cost more or less.       *)
LEMMA MovedWorth ==
  ASSUME worth \in [Products -> Int], NEW h, NEW sign \in {1, -1}, NEW cart \in Cart,
         NEW c \in [Products -> Nat], Move(h, sign, cart, c)
  PROVE  worth' \in [Products -> Int] /\ Held' = Held + sign * CostOf(cart, c)
<1> DEFINE f == [p \in Goods |-> worth[p]]
           g == [p \in Goods |-> worth'[p]]
           b == [p \in Goods |-> cart[p] * c[p]]
           m == [p \in Goods |-> sign * b[p]]
<1>0. Goods \subseteq Products /\ IsFiniteSet(Goods)
  BY PosAssumption, FS_Subset
<1>1. ASSUME NEW p \in Products PROVE sign * cart[p] * c[p] = sign * (cart[p] * c[p])
                                      /\ cart[p] * c[p] \in Int
  <2>1. cart[p] \in Nat /\ c[p] \in Nat
    BY DEF Cart
  <2>2. \A x, y \in Nat : x * y \in Int /\ (-1) * x * y = (-1) * (x * y) /\ 1 * x * y = 1 * (x * y)
    OBVIOUS
  <2> QED
    BY <2>1, <2>2
<1>2. worth' = [p \in Products |-> IF p \in Goods THEN worth[p] + sign * cart[p] * c[p] ELSE worth[p]]
  BY DEF Move
<1>3. ASSUME NEW p \in Goods PROVE worth'[p] = worth[p] + sign * (cart[p] * c[p])
  BY <1>0, <1>1, <1>2
<1>4. ASSUME NEW p \in Products PROVE worth'[p] \in Int
  <2>1. CASE p \in Goods
    <3>1. sign * (cart[p] * c[p]) \in Int
      BY <1>1
    <3> QED
      BY <1>3, <2>1, <3>1
  <2>2. CASE p \notin Goods
    BY <1>2, <2>2
  <2> QED
    BY <2>1, <2>2
<1>5. worth' \in [Products -> Int]
  BY <1>2, <1>4
<1>6. ASSUME NEW p \in Goods
      PROVE  f[p] \in Int /\ b[p] \in Int /\ m[p] \in Int /\ m[p] = sign * b[p]
             /\ g[p] = f[p] + m[p]
  BY <1>0, <1>1, <1>3
<1>7. CostOf(cart, c) = SumFunctionOnSet(b, Goods)
  BY DEF CostOf, SumFunction
<1>8. Held = SumFunction(f) /\ Held' = SumFunction(g)
  BY DEF Held
<1>9. DOMAIN f = Goods /\ DOMAIN g = Goods /\ DOMAIN m = Goods
  OBVIOUS
<1> HIDE DEF f, g, b, m
<1>10. SumFunction(g) = SumFunction(f) + SumFunction(m)
  BY <1>0, <1>6, <1>9, TotalPlus
<1>11. SumFunctionOnSet(m, Goods) = sign * SumFunctionOnSet(b, Goods)
  BY <1>0, <1>6, SumTimes
<1> QED
  BY <1>5, <1>7, <1>8, <1>9, <1>10, <1>11 DEF SumFunction

(* One product in a cart costs what it costs.                              *)
LEMMA OnlyCosts ==
  ASSUME NEW p \in Products, NEW q \in Nat, NEW c \in [Products -> Nat]
  PROVE  CostOf(Only(p, q), c) = IF p \in Goods THEN q * c[p] ELSE 0
<1> DEFINE f == [x \in Goods |-> Only(p, q)[x] * c[x]]
<1>0. Goods \subseteq Products /\ IsFiniteSet(Goods)
  BY PosAssumption, FS_Subset
<1>1. CostOf(Only(p, q), c) = SumFunctionOnSet(f, Goods)
  BY DEF CostOf, SumFunction
<1>2. ASSUME NEW x \in Goods, x # p PROVE f[x] = 0
  <2>1. Only(p, q)[x] = 0 /\ c[x] \in Nat
    BY <1>0, <1>2 DEF Only
  <2>2. \A k \in Nat : 0 * k = 0
    OBVIOUS
  <2> QED
    BY <2>1, <2>2
<1>3. p \in Goods => f[p] = q * c[p]
  BY DEF Only
<1>4. q * c[p] \in Int
  OBVIOUS
<1> HIDE DEF f
<1>5. CASE p \in Goods
  <2>1. \A x \in Goods : f[x] \in Int
    BY <1>2, <1>3, <1>4
  <2>2. SumFunctionOnSet(f, Goods) = f[p] + SumFunctionOnSet(f, Goods \ {p})
    BY <1>0, <1>5, <2>1, SumTake
  <2>3. SumFunctionOnSet(f, Goods \ {p}) = 0
    BY <1>0, <1>2, FS_Subset, SumZero
  <2> QED
    BY <1>1, <1>3, <1>4, <1>5, <2>2, <2>3
<1>6. CASE p \notin Goods
  BY <1>0, <1>1, <1>2, <1>6, SumZero
<1> QED
  BY <1>5, <1>6

--------------------------------------------------------------------------------
(* A sale in the books. *)

(* What the journals of one sale move.                                     *)
LEMMA BookedSale ==
  ASSUME NEW js, BooksOK(js), NEW n, NEW r, r.cart \in Cart, r.credit \in Nat, NEW v \in Nat,
         <<"POS", n>> \in DOMAIN js, js[<<"POS", n>>].lines = Normalized(SaleLines(r)),
         v > 0 => /\ <<"COGS", n>> \in DOMAIN js
                  /\ js[<<"COGS", n>>].lines = Normalized(CostLines(v)),
         v = 0 => <<"COGS", n>> \notin DOMAIN js
  PROVE  LET moves(a) == BalanceOver(js, JournalsOf(n) \intersect DOMAIN js, a) IN
         /\ moves("1000") = Total(r.cart) - r.credit
         /\ moves("1100") = r.credit
         /\ moves("4000") + moves("2100") = - Total(r.cart)
         /\ moves("1300") = - v
<1> DEFINE moves(a) == BalanceOver(js, JournalsOf(n) \intersect DOMAIN js, a)
           pos == <<"POS", n>>
           cogs == <<"COGS", n>>
<1>1. pos # cogs /\ JournalsOf(n) = {pos} \union {cogs}
  BY DEF JournalsOf
<1> HIDE DEF pos, cogs
<1>2. /\ Movement(js[pos], "1000") = Total(r.cart) - r.credit
      /\ Movement(js[pos], "1100") = r.credit
      /\ Movement(js[pos], "4000") = TaxTotal(r.cart) - Total(r.cart)
      /\ Movement(js[pos], "2100") = - TaxTotal(r.cart)
      /\ Movement(js[pos], "1300") = 0
  BY SaleMoves DEF pos
<1>3. Total(r.cart) \in Int /\ TaxTotal(r.cart) \in Int
  BY CartTotals
<1>4. CASE v > 0
  <2>1. cogs \in DOMAIN js /\ js[cogs].lines = Normalized({Line("5300", v, 0), Line("1300", 0, v)})
    BY <1>4 DEF cogs, CostLines
  <2>2. "5300" \in TillAccounts /\ "1300" \in TillAccounts /\ "5300" # "1300"
    BY DEF TillAccounts
  <2>3. /\ Movement(js[cogs], "1300") = - v
        /\ \A a : a # "5300" /\ a # "1300" => Movement(js[cogs], a) = 0
    <3>1. PairOf(js[cogs], "5300", "1300", v) /\ v \in Int
      BY <2>1 DEF PairOf
    <3> QED
      BY <3>1, <2>2, PairOfMoves
  <2>4. \A a : moves(a) = Movement(js[pos], a) + Movement(js[cogs], a)
    <3>1. pos \in DOMAIN js
      BY DEF pos
    <3>2. JournalsOf(n) \intersect DOMAIN js = {pos} \union {cogs}
      BY <1>1, <2>1, <3>1
    <3>3. \A a : BalanceOver(js, {pos} \union {cogs}, a) =
                   BalanceOver(js, {pos}, a) + BalanceOver(js, {cogs}, a)
      BY <1>1, <2>1, <3>1, BalanceOfUnion
    <3> QED
      BY <2>1, <3>1, <3>2, <3>3, BalanceOfOne
  <2>5. /\ Movement(js[cogs], "1000") = 0 /\ Movement(js[cogs], "1100") = 0
        /\ Movement(js[cogs], "4000") = 0 /\ Movement(js[cogs], "2100") = 0
    BY <2>3
  <2> HIDE DEF moves
  <2>6. moves("1000") = Total(r.cart) - r.credit
    BY <1>2, <1>3, <2>4, <2>5
  <2>7. moves("1100") = r.credit
    BY <1>2, <1>3, <2>4, <2>5
  <2>8. moves("4000") = TaxTotal(r.cart) - Total(r.cart) /\ moves("2100") = - TaxTotal(r.cart)
    BY <1>2, <1>3, <2>4, <2>5
  <2>9. moves("1300") = - v
    BY <1>2, <2>3, <2>4
  <2> QED
    BY <1>3, <2>6, <2>7, <2>8, <2>9 DEF moves
<1>5. CASE v = 0
  <2>1. pos \in DOMAIN js /\ JournalsOf(n) \intersect DOMAIN js = {pos}
    BY <1>1, <1>5 DEF pos, cogs
  <2>2. \A a : moves(a) = Movement(js[pos], a)
    BY <2>1, BalanceOfOne
  <2> HIDE DEF moves
  <2>3. moves("4000") = TaxTotal(r.cart) - Total(r.cart) /\ moves("2100") = - TaxTotal(r.cart)
    BY <1>2, <2>2
  <2>4. moves("1000") = Total(r.cart) - r.credit /\ moves("1100") = r.credit /\ moves("1300") = - v
    BY <1>2, <1>5, <2>2
  <2> QED
    BY <1>3, <2>3, <2>4 DEF moves
<1> QED
  BY <1>4, <1>5

(* One journal more.                                                       *)
LEMMA EnteredOne ==
  ASSUME NEW js, BooksOK(js), NEW n, n \notin DOMAIN js,
         NEW j \in Journal, IsFiniteSet(j.lines)
  PROVE  LET k == Entered(js, n, j) IN
         /\ BooksOK(k)
         /\ DOMAIN k = DOMAIN js \union {n} /\ k[n] = j
         /\ \A m \in DOMAIN js : k[m] = js[m]
<1> DEFINE k == Entered(js, n, j)
<1>1. /\ DOMAIN k = DOMAIN js \union {n} /\ k[n] = j
      /\ \A m \in DOMAIN js : k[m] = js[m]
  BY DEF Entered
<1>2. IsFiniteSet(DOMAIN js \union {n})
  BY FS_AddElement DEF BooksOK
<1> HIDE DEF k
<1>3. ASSUME NEW m \in DOMAIN k PROVE k[m] \in Journal /\ IsFiniteSet(k[m].lines)
  <2>1. CASE m = n
    BY <1>1, <2>1
  <2>2. CASE m # n
    BY <1>1, <2>2 DEF BooksOK
  <2> QED
    BY <2>1, <2>2
<1>4. BooksOK(k)
  BY <1>1, <1>2, <1>3 DEF BooksOK
<1> QED
  BY <1>1, <1>4 DEF k

(* What a checkout adds to the books.                                      *)
LEMMA SaleEntered ==
  ASSUME NEW js, BooksOK(js), NEW n, JournalsOf(n) \intersect DOMAIN js = {},
         NEW r, r.cart \in Cart, r.credit \in Nat, NEW v \in Nat
  PROVE  LET k == SaleJournals(js, n, r, v) IN
         /\ BooksOK(k)
         /\ DOMAIN k = DOMAIN js \union (JournalsOf(n) \intersect DOMAIN k)
         /\ \A m \in DOMAIN js : k[m] = js[m]
         /\ <<"POS", n>> \in DOMAIN k
         /\ k[<<"POS", n>>] = [lines |-> Normalized(SaleLines(r)), status |-> "POSTED"]
         /\ v > 0 => /\ <<"COGS", n>> \in DOMAIN k
                     /\ k[<<"COGS", n>>] = [lines |-> Normalized(CostLines(v)), status |-> "POSTED"]
         /\ v = 0 => <<"COGS", n>> \notin DOMAIN k
<1> DEFINE k == SaleJournals(js, n, r, v)
           pos == <<"POS", n>>
           cogs == <<"COGS", n>>
           sale == [lines |-> Normalized(SaleLines(r)), status |-> "POSTED"]
           used == [lines |-> Normalized(CostLines(v)), status |-> "POSTED"]
           sold == Entered(js, pos, sale)
<1>1. pos # cogs /\ JournalsOf(n) = {pos, cogs} /\ pos \notin DOMAIN js /\ cogs \notin DOMAIN js
  BY DEF JournalsOf
<1>2. Posted(js, pos, SaleLines(r)) = sold
  BY <1>1 DEF Posted
<1>3. k = IF v > 0 THEN Posted(sold, cogs, CostLines(v)) ELSE sold
  BY <1>2 DEF SaleJournals
<1> HIDE DEF k, pos, cogs, sale, used
<1>4. /\ DOMAIN sold = DOMAIN js \union {pos} /\ sold[pos] = sale
      /\ \A m \in DOMAIN js : sold[m] = js[m]
  BY <1>1 DEF Entered
<1>5. sale \in Journal /\ IsFiniteSet(sale.lines)
  <2>1. sale.lines = Normalized(SaleLines(r))
    BY DEF sale
  <2>2. IsFiniteSet(sale.lines) /\ sale.lines \subseteq LineRow
    BY <2>1, SaleMoves
  <2> QED
    BY <2>2 DEF sale, Journal
<1>6. used \in Journal /\ IsFiniteSet(used.lines)
  <2>1. used.lines = Normalized({Line("5300", v, 0), Line("1300", 0, v)})
    BY DEF used, CostLines
  <2>2. "5300" \in TillAccounts /\ "1300" \in TillAccounts /\ "5300" # "1300"
    BY DEF TillAccounts
  <2>3. IsFiniteSet(used.lines) /\ used.lines \subseteq LineRow
    <3>1. PairOf(used, "5300", "1300", v) /\ v \in Int
      BY <2>1 DEF PairOf
    <3> QED
      BY <3>1, <2>2, PairOfMoves
  <2> QED
    BY <2>3 DEF used, Journal
<1>7. BooksOK(sold)
  BY <1>1, <1>5, EnteredOne
<1>8. CASE v > 0
  <2>1. k = Entered(sold, cogs, used)
    BY <1>1, <1>3, <1>4, <1>8 DEF Posted, used
  <2>2. cogs \notin DOMAIN sold
    BY <1>1, <1>4
  <2>3. /\ BooksOK(k)
        /\ DOMAIN k = DOMAIN sold \union {cogs} /\ k[cogs] = used
        /\ \A m \in DOMAIN sold : k[m] = sold[m]
    BY <1>6, <1>7, <2>1, <2>2, EnteredOne
  <2> QED
    BY <1>1, <1>4, <1>8, <2>3 DEF k, pos, cogs, sale, used
<1>9. CASE v = 0
  <2>1. k = sold
    BY <1>3, <1>9
  <2> QED
    BY <1>1, <1>4, <1>7, <1>9, <2>1 DEF k, pos, cogs, sale
<1> QED
  BY <1>8, <1>9

--------------------------------------------------------------------------------
(* The steps that leave the books alone. *)

Accounts == BooksAgree /\ ReceivablesAreExposure /\ InventoryOffByVoidRevaluation

LEMMA AccountsAre ==
  Accounts <=>
    /\ Balance(journals, "1000") = TakenIn - Refunds
    /\ Balance(journals, "4000") + Balance(journals, "2100") = Refunds - SoldFor
    /\ Balance(journals, "1100") = Owed
    /\ Balance(journals, "1300") - Held = Revalued
BY DEF Accounts, BooksAgree, ReceivablesAreExposure, InventoryOffByVoidRevaluation,
       TakenIn, SoldFor, Owed, Held, Revalued

LEMMA AccountsWillBe ==
  Accounts' <=>
    /\ Balance(journals', "1000") = TakenIn' - Refunds'
    /\ Balance(journals', "4000") + Balance(journals', "2100") = Refunds' - SoldFor'
    /\ Balance(journals', "1100") = Owed'
    /\ Balance(journals', "1300") - Held' = Revalued'
BY DEF Accounts, BooksAgree, ReceivablesAreExposure, InventoryOffByVoidRevaluation,
       TakenIn, SoldFor, Owed, Held, Revalued

(* What the other requests know of the books stays true when no sale gets  *)
(* or loses a journal.                                                     *)
LEMMA ReadsStay ==
  ASSUME TypeOK, NEW w \in Workers, NEW label, NEW j, Turn(w, label, j),
         \A v \in Workers : ReadFromBooks(v),
         \A i \in DOMAIN sales :
           JournalsOf(i) \intersect DOMAIN journals' = JournalsOf(i) \intersect DOMAIN journals,
         label \in {"priced", "cleared", "locked"} => Tendered(j.req),
         label = "reversing" => j.posted = JournalsOf(j.sale) \intersect DOMAIN journals'
  PROVE  \A v \in Workers : ReadFromBooks(v)'
<1> SUFFICES ASSUME NEW v \in Workers PROVE ReadFromBooks(v)'
  OBVIOUS
<1>1. CASE v = w
  <2>1. pc'[v] = label /\ job'[v] = j
    BY <1>1 DEF Turn, TypeOK, JobsOK
  <2> QED
    BY <2>1 DEF ReadFromBooks
<1>2. CASE v # w
  <2>1. pc'[v] = pc[v] /\ job'[v] = job[v] /\ ReadFromBooks(v)
    BY <1>2 DEF Turn, TypeOK, JobsOK
  <2>2. pc[v] = "reversing" => job[v].sale \in DOMAIN sales
    BY DEF TypeOK, JobsOK, JobOK
  <2> QED
    BY <2>1, <2>2 DEF ReadFromBooks
<1> QED
  BY <1>1, <1>2

LEMMA DoneReads ==
  ASSUME TypeOK, NEW w \in Workers, Done(w), \A v \in Workers : ReadFromBooks(v),
         \A i \in DOMAIN sales :
           JournalsOf(i) \intersect DOMAIN journals' = JournalsOf(i) \intersect DOMAIN journals
  PROVE  \A v \in Workers : ReadFromBooks(v)'
<1>1. Turn(w, "idle", None)
  BY DEF Done
<1> QED
  BY <1>1, ReadsStay

LEMMA SameBooks ==
  ASSUME JournalsStand, Accounts, UNCHANGED <<sales, returns, journals, restocks, worth>>
  PROVE  /\ Accounts'
         /\ (\A v \in Workers : ReadFromBooks(v)') => JournalsStand'
<1>1. Accounts'
  BY DEF Accounts, BooksAgree, ReceivablesAreExposure, InventoryOffByVoidRevaluation,
         Kept, Voided, Refunds, Exposure, Completed, SalesOf
<1>2. BooksOK(journals)' /\ BookedFromRows'
  BY DEF JournalsStand, BookedFromRows, FromRow, BooksOK, Voided
<1>3. \A i \in DOMAIN sales' : SaleBooked(i)'
  BY DEF JournalsStand, SaleBooked
<1> QED
  BY <1>1, <1>2, <1>3 DEF JournalsStand

LEMMA QuietBooks ==
  ASSUME TypeOK, JournalsStand, Accounts, UNCHANGED <<sales, returns, journals, restocks, worth>>,
         NEW w \in Workers, NEW label, NEW j, Turn(w, label, j),
         label \in {"priced", "cleared", "locked"} => Tendered(j.req),
         label = "reversing" => j.posted = JournalsOf(j.sale) \intersect DOMAIN journals
  PROVE  JournalsStand' /\ Accounts'
<1>1. \A v \in Workers : ReadFromBooks(v)'
  BY ReadsStay DEF JournalsStand
<1> QED
  BY <1>1, SameBooks

LEMMA CompleteBeginBooks ==
  ASSUME TypeOK, JournalsStand, Accounts, NEW w \in Workers, NEW r \in Checkouts,
         CompleteBegin(w, r)
  PROVE  JournalsStand' /\ Accounts'
<1> DEFINE branch == IF registers[r.register].branch # None
                       THEN registers[r.register].branch ELSE r.branch
           read(s) == [req |-> r, shift |-> s, cost |-> cost, seen |-> 0, branch |-> branch]
<1>1. PICK s \in DOMAIN shifts \union {0} : Turn(w, "priced", read(s))
  BY DEF CompleteBegin, OpenShifts
<1>2. UNCHANGED <<sales, returns, journals, restocks, worth>> /\ Tendered(r)
  BY DEF CompleteBegin, stockVars
<1>3. read(s).req = r
  OBVIOUS
<1> HIDE DEF read
<1>4. Tendered(read(s).req)
  BY <1>2, <1>3
<1> QED
  BY <1>1, <1>2, <1>4, QuietBooks

LEMMA CompleteReadsBooks ==
  ASSUME TypeOK, JournalsStand, Accounts, NEW w \in Workers,
         CompleteCredit(w) \/ CompleteLock(w)
  PROVE  JournalsStand' /\ Accounts'
<1>1. job[w] \in CompleteJob /\ Tendered(job[w].req)
  BY DEF CompleteCredit, CompleteLock, TypeOK, JobsOK, JobOK, JournalsStand, ReadFromBooks
<1>2. UNCHANGED <<sales, returns, journals, restocks, worth>>
  BY DEF CompleteCredit, CompleteLock, stockVars
<1>3. CASE CompleteCredit(w)
  <2>1. Turn(w, "cleared", job[w])
    BY <1>3 DEF CompleteCredit
  <2> QED
    BY <1>1, <1>2, <2>1, QuietBooks
<1>4. CASE CompleteLock(w)
  <2> DEFINE j == [job[w] EXCEPT !.seen = Len(sales)]
  <2>1. Turn(w, "locked", j) /\ j.req = job[w].req
    BY <1>1, <1>4 DEF CompleteLock, CompleteJob
  <2> HIDE DEF j
  <2>2. Tendered(j.req)
    BY <1>1, <2>1
  <2> QED
    BY <1>2, <2>1, <2>2, QuietBooks
<1> QED
  BY <1>3, <1>4

(* A void finds the journals of a sale that is not voided yet, all of them. *)
LEMMA VoidJournalsBooks ==
  ASSUME TypeOK, ReceiptNumbers, JournalsStand, Accounts, NEW w \in Workers, VoidJournals(w)
  PROVE  JournalsStand' /\ Accounts'
<1> DEFINE i == job[w].sale
           posted == {j \in JournalsOf(sales[i].receipt) \intersect DOMAIN journals :
                        journals[j].status = "POSTED"}
           j == [sale |-> i, cost |-> job[w].cost, posted |-> posted]
<1>1. /\ pc[w] = "voiding" /\ posted # {} /\ Turn(w, "reversing", j)
      /\ UNCHANGED <<sales, returns, journals, restocks, worth>>
  BY DEF VoidJournals, stockVars
<1>2. i \in DOMAIN sales
  BY <1>1 DEF TypeOK, JobsOK, JobOK
<1>3. sales[i].receipt = i /\ SaleBooked(i)
  BY <1>2 DEF ReceiptNumbers, JournalsStand
<1>4. \A m \in JournalsOf(i) \intersect DOMAIN journals :
        journals[m].status = IF sales[i].status = "VOIDED" THEN "REVERSED" ELSE "POSTED"
  BY <1>3 DEF SaleBooked, JournalsOf
<1>5. posted = JournalsOf(i) \intersect DOMAIN journals
  BY <1>1, <1>3, <1>4
<1>6. j.posted = JournalsOf(j.sale) \intersect DOMAIN journals
  BY <1>5
<1> HIDE DEF j
<1> QED
  BY <1>1, <1>6, QuietBooks

LEMMA OtherReadsBooks ==
  ASSUME TypeOK, JournalsStand, Accounts, NEW w \in Workers,
         \/ \E a \in Staff, i \in DOMAIN sales : VoidRead(w, a, i)
         \/ \E a \in Staff, i \in DOMAIN sales, p \in Products :
              \E q \in 1 .. sales[i].cart[p] : ReturnRead(w, a, i, p, q)
         \/ Abort(w)
  PROVE  JournalsStand' /\ Accounts'
<1>1. UNCHANGED <<sales, returns, journals, restocks, worth>>
  BY DEF VoidRead, ReturnRead, Abort, stockVars
<1>2. PICK label, j : Turn(w, label, j) /\ label \in {"voiding", "returning", "idle"}
  BY DEF VoidRead, ReturnRead, Abort, Done
<1> QED
  BY <1>1, <1>2, QuietBooks

LEMMA ShiftBooks ==
  ASSUME TypeOK, JournalsStand, Accounts, ShiftNext
  PROVE  JournalsStand' /\ Accounts'
<1>1. PICK w \in Workers :
        \/ Open(w) \/ Close(w) \/ Handover(w) \/ Configure(w)
        \/ \E kind \in Aggregates : ReadAggregate(w, kind)
  BY DEF ShiftNext
<1> DEFINE Labelled == \E label, j : /\ Turn(w, label, j)
                                     /\ label \in {"idle", "opening", "closing", "handing",
                                                   "configuring"}
           Same == UNCHANGED <<sales, returns, journals, restocks, worth>>
<1>2. CASE Open(w)
  <2>1. Same
    BY <1>2 DEF Open, OpenRead, OpenCommit, Done, salesState, stockVars
  <2>2. Labelled
    BY <1>2 DEF Open, OpenRead, OpenCommit, Done, salesState, stockVars
  <2> QED
    BY <2>1, <2>2, QuietBooks
<1>3. CASE Close(w)
  <2>1. Same
    BY <1>3 DEF Close, CloseRead, CloseCommit, Done, salesState, stockVars
  <2>2. Labelled
    BY <1>3 DEF Close, CloseRead, CloseCommit, Done, salesState, stockVars
  <2> QED
    BY <2>1, <2>2, QuietBooks
<1>4. CASE Handover(w)
  <2>1. Same
    BY <1>4 DEF Handover, HandoverRead, HandoverCommit, Done, salesState, stockVars
  <2>2. Labelled
    BY <1>4 DEF Handover, HandoverRead, HandoverCommit, Done, salesState, stockVars
  <2> QED
    BY <2>1, <2>2, QuietBooks
<1>5. CASE Configure(w)
  <2>1. Same
    BY <1>5 DEF Configure, UpdateRead, AssignRead, ConfigureCommit, Done, salesState, stockVars
  <2>2. Labelled
    BY <1>5 DEF Configure, UpdateRead, AssignRead, ConfigureCommit, Done, salesState, stockVars
  <2> QED
    BY <2>1, <2>2, QuietBooks
<1>6. CASE \E kind \in Aggregates : ReadAggregate(w, kind)
  <2>1. Same
    BY <1>6 DEF ReadAggregate, salesState, stockVars
  <2>2. Labelled
    BY <1>6 DEF ReadAggregate, salesState, stockVars
  <2> QED
    BY <2>1, <2>2, QuietBooks
<1> QED
  BY <1>1, <1>2, <1>3, <1>4, <1>5, <1>6

--------------------------------------------------------------------------------
(* The steps that post. *)

LEMMA FreshNumbers ==
  ASSUME TypeOK, JournalsStand
  PROVE  /\ JournalsOf(Len(sales) + 1) \intersect DOMAIN journals = {}
         /\ <<"RETURN", Len(returns) + 1>> \notin DOMAIN journals
         /\ <<"RESTOCK", restocks + 1>> \notin DOMAIN journals
<1>1. DOMAIN sales = 1 .. Len(sales) /\ Len(sales) \in Nat
  BY LenProperties DEF TypeOK, RowsOK
<1>2. DOMAIN returns = 1 .. Len(returns) /\ Len(returns) \in Nat
  BY ReturnsFinite
<1>3. restocks \in Nat /\ \A n \in DOMAIN journals : FromRow(n)
  BY DEF JournalsStand, BookedFromRows
<1>4. ASSUME NEW n \in DOMAIN journals, n \in JournalsOf(Len(sales) + 1) PROVE FALSE
  <2>1. \E i \in DOMAIN sales : n \in JournalsOf(i)
    BY <1>3, <1>4 DEF FromRow, JournalsOf, VoidNumber
  <2> QED
    BY <1>1, <1>4, <2>1 DEF JournalsOf
<1>5. <<"RETURN", Len(returns) + 1>> \notin DOMAIN journals
  <2> SUFFICES ASSUME <<"RETURN", Len(returns) + 1>> \in DOMAIN journals PROVE FALSE
    OBVIOUS
  <2>1. \E k \in DOMAIN returns : <<"RETURN", Len(returns) + 1>> = <<"RETURN", k>>
    BY <1>3 DEF FromRow, JournalsOf, VoidNumber
  <2> QED
    BY <1>2, <2>1
<1>6. <<"RESTOCK", restocks + 1>> \notin DOMAIN journals
  <2> SUFFICES ASSUME <<"RESTOCK", restocks + 1>> \in DOMAIN journals PROVE FALSE
    OBVIOUS
  <2>1. \E m \in 1 .. restocks : <<"RESTOCK", restocks + 1>> = <<"RESTOCK", m>>
    BY <1>3 DEF FromRow, JournalsOf, VoidNumber
  <2> QED
    BY <1>3, <2>1
<1> QED
  BY <1>4, <1>5, <1>6

(* The rows of a number do not go away.                                    *)
LEMMA FromRowStill ==
  ASSUME DOMAIN sales \subseteq DOMAIN sales', Voided \subseteq Voided',
         DOMAIN returns \subseteq DOMAIN returns',
         restocks \in Nat, restocks' \in Nat, restocks <= restocks', NEW n, FromRow(n)
  PROVE  FromRow(n)'
<1>1. 1 .. restocks \subseteq 1 .. restocks'
  OBVIOUS
<1> QED
  BY <1>1 DEF FromRow

(* A sale whose journals nobody touches stays booked.                      *)
LEMMA StillBooked ==
  ASSUME NEW i \in DOMAIN sales, SaleBooked(i), sales'[i] = sales[i],
         JournalsOf(i) \intersect DOMAIN journals' = JournalsOf(i) \intersect DOMAIN journals,
         \A n \in JournalsOf(i) \intersect DOMAIN journals : journals'[n] = journals[n],
         DOMAIN journals \subseteq DOMAIN journals'
  PROVE  SaleBooked(i)'
<1>1. \A n \in JournalsOf(i) :
        /\ n \in DOMAIN journals' <=> n \in DOMAIN journals
        /\ n \in DOMAIN journals => journals'[n] = journals[n]
  OBVIOUS
<1>2. <<"POS", i>> \in JournalsOf(i) /\ <<"COGS", i>> \in JournalsOf(i)
  BY DEF JournalsOf
<1> QED
  BY <1>1, <1>2 DEF SaleBooked

(* The journals of a sale that has just been posted.                       *)
LEMMA PostedSale ==
  ASSUME NEW n, NEW e, sales'[n] = e, e.status = "COMPLETED", e.credit > 0 => e.customer # None,
         NEW v \in Nat, CostOf(e.cart, e.cost) = v,
         <<"POS", n>> \in DOMAIN journals',
         journals'[<<"POS", n>>].lines = Normalized(SaleLines(e)),
         journals'[<<"POS", n>>].status = "POSTED",
         v > 0 => /\ <<"COGS", n>> \in DOMAIN journals'
                  /\ journals'[<<"COGS", n>>].lines = Normalized(CostLines(v))
                  /\ journals'[<<"COGS", n>>].status = "POSTED",
         v = 0 => <<"COGS", n>> \notin DOMAIN journals'
  PROVE  SaleBooked(n)'
<1>1. e.status # "VOIDED" /\ (v > 0 \/ v = 0) /\ ~(v = 0 /\ v > 0)
  OBVIOUS
<1> QED
  BY <1>1 DEF SaleBooked

LEMMA NewSale ==
  ASSUME TypeOK, Safe, NEW w \in Workers, CompleteCommit(w)
  PROVE  /\ job[w] \in CompleteJob /\ job[w].req \in Checkout
         /\ job[w].seen = Len(sales)
         /\ \E e \in Sale :
              /\ sales' = Append(sales, e)
              /\ e.cart = job[w].req.cart /\ e.credit = job[w].req.credit
              /\ e.customer = job[w].req.customer
              /\ e.cost = job[w].cost /\ e.status = "COMPLETED"
<1> DEFINE r == job[w].req
           n == job[w].seen + 1
           s == IF job[w].shift = 0 THEN Len(shifts) + 1 ELSE job[w].shift
           e == [receipt |-> n, key |-> r.key, register |-> r.register, shift |-> s,
                 cashier |-> r.cashier, branch |-> job[w].branch, customer |-> r.customer,
                 cart |-> r.cart, cost |-> job[w].cost, voidCost |-> job[w].cost,
                 cash |-> r.cash, card |-> r.card, credit |-> r.credit,
                 status |-> "COMPLETED"]
<1>1. pc[w] = "locked"
  BY DEF CompleteCommit
<1>2. job[w] \in CompleteJob /\ r \in Checkout
  BY <1>1, PosAssumption DEF TypeOK, JobsOK, JobOK, CompleteJob
<1>3. n \in Nat \ {0} /\ s \in Nat \ {0}
  BY <1>2, IsSeqLen DEF CompleteJob, TypeOK, RowsOK
<1>4. e \in Sale
  BY <1>2, <1>3 DEF Sale, CompleteJob, Checkout
<1>5. sales' = Append(sales, e)
  BY DEF CompleteCommit
<1>6. job[w].seen = Len(sales)
  BY <1>1 DEF Safe, ReceiptNumbers
<1> QED
  BY <1>2, <1>4, <1>5, <1>6

LEMMA BooksStand ==
  ASSUME BooksOK(journals'), restocks' \in Nat, worth' \in [Products -> Int], BookedFromRows',
         \A i \in DOMAIN sales' : SaleBooked(i)', \A u \in Workers : ReadFromBooks(u)'
  PROVE  JournalsStand'
BY DEF JournalsStand

LEMMA CompleteCommitBooks ==
  ASSUME TypeOK, Safe, TypeOK', JournalsStand, Accounts, NEW w \in Workers, CompleteCommit(w)
  PROVE  JournalsStand' /\ Accounts'
<1>0. PICK n, r, c, v, k :
        /\ n = Len(sales) + 1 /\ r = job[w].req /\ c = job[w].cost
        /\ v = CostOf(r.cart, c) /\ k = SaleJournals(journals, n, r, v)
  OBVIOUS
<1>1. PICK e \in Sale :
        /\ sales' = Append(sales, e) /\ e.cart = r.cart /\ e.credit = r.credit
        /\ e.customer = r.customer /\ e.cost = c /\ e.status = "COMPLETED"
  BY <1>0, NewSale
<1>2. /\ pc[w] = "locked" /\ Done(w) /\ journals' = k
      /\ Move(WarehouseOf[r.register], -1, r.cart, c)
      /\ UNCHANGED <<returns, restocks>>
  BY <1>0, NewSale DEF CompleteCommit
<1>3. r \in Checkout /\ r.cart \in Cart /\ r.credit \in Nat /\ c \in [Products -> Nat]
  BY <1>0, NewSale DEF CompleteJob, Checkout
<1>4. v \in Nat /\ Total(r.cart) \in Int
  BY <1>0, <1>3, CartCost, CartTotals
<1>5. Tendered(r)
  BY <1>0, <1>2 DEF JournalsStand, ReadFromBooks
<1>6. r.credit > 0 => r.customer # None
  BY <1>5 DEF Tendered
<1>7. /\ DOMAIN sales = 1 .. Len(sales) /\ Len(sales) \in Nat
      /\ DOMAIN sales' = DOMAIN sales \union {n}
      /\ \A i \in DOMAIN sales : sales'[i] = sales[i]
      /\ sales'[n] = e
  BY <1>0, <1>1, AppendSale DEF TypeOK, RowsOK
<1>8. BooksOK(journals) /\ JournalsOf(n) \intersect DOMAIN journals = {}
  BY <1>0, FreshNumbers DEF JournalsStand
<1>9. /\ BooksOK(k)
      /\ DOMAIN k = DOMAIN journals \union (JournalsOf(n) \intersect DOMAIN k)
      /\ \A m \in DOMAIN journals : k[m] = journals[m]
      /\ <<"POS", n>> \in DOMAIN k
      /\ k[<<"POS", n>>] = [lines |-> Normalized(SaleLines(r)), status |-> "POSTED"]
      /\ v > 0 => /\ <<"COGS", n>> \in DOMAIN k
                  /\ k[<<"COGS", n>>] = [lines |-> Normalized(CostLines(v)), status |-> "POSTED"]
      /\ v = 0 => <<"COGS", n>> \notin DOMAIN k
  <2> DEFINE b == SaleJournals(journals, n, r, v)
  <2>1. /\ BooksOK(b)
        /\ DOMAIN b = DOMAIN journals \union (JournalsOf(n) \intersect DOMAIN b)
        /\ \A m \in DOMAIN journals : b[m] = journals[m]
        /\ <<"POS", n>> \in DOMAIN b
        /\ b[<<"POS", n>>] = [lines |-> Normalized(SaleLines(r)), status |-> "POSTED"]
        /\ v > 0 => /\ <<"COGS", n>> \in DOMAIN b
                    /\ b[<<"COGS", n>>] = [lines |-> Normalized(CostLines(v)), status |-> "POSTED"]
        /\ v = 0 => <<"COGS", n>> \notin DOMAIN b
    BY <1>3, <1>4, <1>8, SaleEntered
  <2>2. b = k
    BY <1>0
  <2> HIDE DEF b
  <2> QED
    BY <2>1, <2>2
<1>10. \A i \in DOMAIN sales :
         JournalsOf(i) \intersect DOMAIN k = JournalsOf(i) \intersect DOMAIN journals
  <2>1. \A i \in DOMAIN sales : JournalsOf(i) \intersect JournalsOf(n) = {}
    BY <1>0, <1>7 DEF JournalsOf
  <2> QED
    BY <1>9, <2>1
<1>11. worth' \in [Products -> Int] /\ Held' = Held - v
  <2>1. worth \in [Products -> Int]
    BY DEF JournalsStand
  <2>2. worth' \in [Products -> Int] /\ Held' = Held + (-1) * CostOf(r.cart, c)
    BY <1>2, <1>3, <2>1, MovedWorth
  <2>3. Held \in Int
    BY <2>1, RowSums
  <2> QED
    BY <1>0, <1>4, <2>2, <2>3
<1>12. JournalsStand'
  <2>1. \A i \in DOMAIN sales : SaleBooked(i)'
    BY <1>2, <1>7, <1>9, <1>10, StillBooked DEF JournalsStand
  <2>2. SaleBooked(n)'
    <3>1. SaleLines(e) = SaleLines(r)
      BY <1>1 DEF SaleLines
    <3>2. CostOf(e.cart, e.cost) = v
      BY <1>0, <1>1
    <3>3. /\ k[<<"POS", n>>].lines = Normalized(SaleLines(r))
          /\ k[<<"POS", n>>].status = "POSTED"
      BY <1>9
    <3>4. v > 0 => /\ <<"COGS", n>> \in DOMAIN k
                   /\ k[<<"COGS", n>>].lines = Normalized(CostLines(v))
                   /\ k[<<"COGS", n>>].status = "POSTED"
      BY <1>9
    <3>5. v \in Nat /\ (v = 0 => <<"COGS", n>> \notin DOMAIN k) /\ <<"POS", n>> \in DOMAIN k
      BY <1>4, <1>9
    <3>6. e.credit > 0 => e.customer # None
      BY <1>1, <1>6
    <3>7. journals' = k
      BY <1>2
    <3>8. sales'[n] = e /\ e.status = "COMPLETED"
      BY <1>1, <1>7
    <3> QED
      BY <3>1, <3>2, <3>3, <3>4, <3>5, <3>6, <3>7, <3>8, PostedSale
  <2>3. Voided' = Voided
    BY <1>0, <1>1, <1>7 DEF Voided
  <2>4. BookedFromRows'
    <3> SUFFICES ASSUME NEW m \in DOMAIN k PROVE FromRow(m)'
      BY <1>2 DEF BookedFromRows
    <3>1. CASE m \in DOMAIN journals
      <4>1. /\ FromRow(m) /\ restocks \in Nat /\ restocks' \in Nat /\ restocks <= restocks'
            /\ DOMAIN returns \subseteq DOMAIN returns'
        BY <1>2, <3>1 DEF JournalsStand, BookedFromRows
      <4> QED
        BY <1>7, <2>3, <4>1, FromRowStill
    <3>2. CASE m \notin DOMAIN journals
      BY <1>7, <1>9, <3>2 DEF FromRow
    <3> QED
      BY <3>1, <3>2
  <2>5. \A u \in Workers : ReadFromBooks(u)'
    BY <1>2, <1>10, DoneReads DEF JournalsStand
  <2>6. BooksOK(journals')
    BY <1>2, <1>9
  <2>7. restocks' \in Nat
    BY <1>2 DEF JournalsStand
  <2>8. \A i \in DOMAIN sales' : SaleBooked(i)'
    BY <1>7, <2>1, <2>2
  <2> QED
    BY <1>11, <2>4, <2>5, <2>6, <2>7, <2>8, BooksStand
<1>13. Accounts'
  <2> DEFINE N == JournalsOf(n) \intersect DOMAIN k
  <2>1. \A m \in DOMAIN journals : k[m].lines = journals[m].lines
    BY <1>9
  <2>2. N \intersect DOMAIN journals = {} /\ DOMAIN k = DOMAIN journals \union N
    BY <1>8, <1>9
  <2>3. \A a : /\ Balance(k, a) = Balance(journals, a) + BalanceOver(k, N, a)
               /\ Balance(journals, a) \in Int /\ BalanceOver(k, N, a) \in Int
    BY <1>8, <1>9, <2>1, <2>2, BalanceGrows
  <2>4. /\ BalanceOver(k, N, "1000") = Total(r.cart) - r.credit
        /\ BalanceOver(k, N, "1100") = r.credit
        /\ BalanceOver(k, N, "4000") + BalanceOver(k, N, "2100") = - Total(r.cart)
        /\ BalanceOver(k, N, "1300") = - v
    <3>1. k[<<"POS", n>>].lines = Normalized(SaleLines(r))
      BY <1>9
    <3>2. v > 0 => /\ <<"COGS", n>> \in DOMAIN k
                   /\ k[<<"COGS", n>>].lines = Normalized(CostLines(v))
      BY <1>9
    <3> QED
      BY <1>3, <1>4, <1>9, <3>1, <3>2, BookedSale
  <2>5. /\ TakenIn' = TakenIn + (Total(r.cart) - r.credit)
        /\ SoldFor' = SoldFor + Total(r.cart)
        /\ Owed' = Owed + r.credit
        /\ Revalued' = Revalued
    BY <1>1, <1>6, SoldRows
  <2>6. Refunds' = Refunds
    BY <1>2 DEF Refunds
  <2>7. worth \in [Products -> Int]
    BY DEF JournalsStand
  <2>8. /\ TakenIn \in Int /\ SoldFor \in Int /\ Owed \in Int /\ Held \in Int
        /\ Revalued \in Int /\ Refunds \in Int
    BY <2>7, RowSums
  <2> HIDE DEF N
  <2>9. /\ Balance(journals, "1000") = TakenIn - Refunds
        /\ Balance(journals, "4000") + Balance(journals, "2100") = Refunds - SoldFor
        /\ Balance(journals, "1100") = Owed
        /\ Balance(journals, "1300") - Held = Revalued
    BY AccountsAre
  <2>10. Balance(k, "1000") = TakenIn' - Refunds'
    BY <1>3, <1>4, <2>3, <2>4, <2>5, <2>6, <2>8, <2>9
  <2>11. Balance(k, "4000") + Balance(k, "2100") = Refunds' - SoldFor'
    BY <1>3, <1>4, <2>3, <2>4, <2>5, <2>6, <2>8, <2>9
  <2>12. Balance(k, "1100") = Owed'
    BY <1>3, <2>3, <2>4, <2>5, <2>9
  <2>13. Balance(k, "1300") - Held' = Revalued'
    BY <1>4, <1>11, <2>3, <2>4, <2>5, <2>8, <2>9
  <2> QED
    BY <1>2, <2>10, <2>11, <2>12, <2>13, AccountsWillBe
<1> QED
  BY <1>12, <1>13

(* The journals of a sale that has just been voided.                       *)
LEMMA MarkedSale ==
  ASSUME NEW i \in DOMAIN sales, SaleBooked(i), NEW e, sales'[i] = e, e.status = "VOIDED",
         e.cart = sales[i].cart, e.cost = sales[i].cost, e.credit = sales[i].credit,
         e.customer = sales[i].customer, CostOf(e.cart, e.cost) \in Nat,
         \A n \in JournalsOf(i) : n \in DOMAIN journals' <=> n \in DOMAIN journals,
         \A n \in JournalsOf(i) \intersect DOMAIN journals :
           journals'[n] = [lines |-> journals[n].lines, status |-> "REVERSED"],
         VoidNumber(<<"POS", i>>) \in DOMAIN journals'
  PROVE  SaleBooked(i)'
<1> DEFINE v == CostOf(e.cart, e.cost)
           pos == <<"POS", i>>
           cogs == <<"COGS", i>>
<1>1. pos \in JournalsOf(i) /\ cogs \in JournalsOf(i)
  BY DEF JournalsOf
<1>2. SaleLines(e) = SaleLines(sales[i])
  BY DEF SaleLines
<1>3. /\ pos \in DOMAIN journals /\ journals[pos].lines = Normalized(SaleLines(e))
      /\ v > 0 => cogs \in DOMAIN journals /\ journals[cogs].lines = Normalized(CostLines(v))
      /\ ~(v > 0) => cogs \notin DOMAIN journals
      /\ e.credit > 0 => e.customer # None
  BY <1>2 DEF SaleBooked
<1>4. \A n \in JournalsOf(i) \intersect DOMAIN journals :
        journals'[n].lines = journals[n].lines /\ journals'[n].status = "REVERSED"
  <2> SUFFICES ASSUME NEW n \in JournalsOf(i) \intersect DOMAIN journals
               PROVE  journals'[n].lines = journals[n].lines /\ journals'[n].status = "REVERSED"
    OBVIOUS
  <2>1. journals'[n] = [lines |-> journals[n].lines, status |-> "REVERSED"]
    OBVIOUS
  <2> QED
    BY <2>1
<1> HIDE DEF v, pos, cogs
<1>5. /\ pos \in DOMAIN journals' /\ journals'[pos].lines = Normalized(SaleLines(e))
      /\ journals'[pos].status = "REVERSED"
  BY <1>1, <1>3, <1>4
<1>6. v > 0 => /\ cogs \in DOMAIN journals' /\ journals'[cogs].lines = Normalized(CostLines(v))
               /\ journals'[cogs].status = "REVERSED"
  BY <1>1, <1>3, <1>4
<1>7. ~(v > 0) => cogs \notin DOMAIN journals'
  BY <1>1, <1>3
<1> QED
  BY <1>3, <1>5, <1>6, <1>7 DEF SaleBooked, v, pos, cogs

LEMMA VoidCommitBooks ==
  ASSUME TypeOK, Safe, TypeOK', JournalsStand, Accounts, NEW w \in Workers, VoidCommit(w)
  PROVE  JournalsStand' /\ Accounts'
<1>0. PICK i, c, P, k, e, V :
        /\ i = job[w].sale /\ c = job[w].cost /\ P = job[w].posted
        /\ k = WithReversals(journals, P) /\ V = {VoidNumber(j) : j \in P}
        /\ e = [sales[i] EXCEPT !.status = "VOIDED", !.voidCost = c]
  OBVIOUS
<1>1. /\ pc[w] = "reversing" /\ Done(w) /\ journals' = k
      /\ V \intersect DOMAIN journals = {}
      /\ Move(WarehouseOf[sales[i].register], 1, sales[i].cart, c)
      /\ sales' = [sales EXCEPT ![i].status = "VOIDED", ![i].voidCost = c]
      /\ UNCHANGED <<returns, restocks>>
  BY <1>0 DEF VoidCommit, NumbersFree
<1>2. i \in DOMAIN sales /\ c \in [Products -> Nat] /\ P = JournalsOf(i) \intersect DOMAIN journals
  BY <1>0, <1>1 DEF TypeOK, JobsOK, JobOK, JournalsStand, ReadFromBooks
<1>3. sales[i] \in Sale /\ SaleBooked(i) /\ BooksOK(journals)
  BY <1>2, SaleType DEF JournalsStand
<1>4. <<"POS", i>> \in P /\ VoidNumber(<<"POS", i>>) \in V
  <2>1. <<"POS", i>> \in P
    BY <1>2, <1>3 DEF SaleBooked, JournalsOf
  <2> QED
    BY <1>0, <2>1
<1>5. sales[i].status = "COMPLETED"
  <2>1. sales[i].status # "VOIDED"
    BY <1>1, <1>3, <1>4 DEF SaleBooked
  <2> QED
    BY <1>3, <2>1 DEF Sale
<1>6. /\ e \in Sale /\ e.status = "VOIDED" /\ e.voidCost = c
      /\ e.cart = sales[i].cart /\ e.cost = sales[i].cost /\ e.credit = sales[i].credit
      /\ e.customer = sales[i].customer
  BY <1>0, <1>2, <1>3 DEF Sale
<1>7. sales' = [sales EXCEPT ![i] = e]
  BY <1>0, <1>1, <1>2
<1>8. /\ DOMAIN sales' = DOMAIN sales /\ sales'[i] = e
      /\ \A m \in DOMAIN sales \ {i} : sales'[m] = sales[m]
  BY <1>2, <1>7
<1>9. /\ sales[i].cart \in Cart /\ sales[i].credit \in Nat /\ Total(sales[i].cart) \in Int
      /\ CostOf(e.cart, e.cost) \in Nat /\ CostOf(e.cart, c) \in Nat
  BY <1>2, <1>6, SaleAmounts, CartCost DEF Sale
<1>10. e.credit > 0 => e.customer # None
  BY <1>3, <1>6 DEF SaleBooked
<1>11. /\ BooksOK(k) /\ \A a : Balance(k, a) = Balance(journals, a) - BalanceOver(journals, P, a)
  BY <1>0, <1>1, <1>2, <1>3, ReversedBalance
<1>12. /\ DOMAIN k = DOMAIN journals \union V
       /\ \A n \in DOMAIN journals \ P : k[n] = journals[n]
       /\ \A j \in P : k[j] = [lines |-> journals[j].lines, status |-> "REVERSED"]
  <2> DEFINE b == WithReversals(journals, P)
  <2>1. P \in SUBSET (JournalsOf(i) \intersect DOMAIN journals) /\ BooksOK(journals)
        /\ {VoidNumber(j) : j \in P} \intersect DOMAIN journals = {}
    BY <1>0, <1>1, <1>2, <1>3
  <2>2. /\ DOMAIN b = DOMAIN journals \union {VoidNumber(j) : j \in P}
        /\ \A n \in DOMAIN journals \ P : b[n] = journals[n]
        /\ \A j \in P : b[j] = [lines |-> journals[j].lines, status |-> "REVERSED"]
    BY <2>1, ReversedJournals
  <2>3. b = k
    BY <1>0
  <2> HIDE DEF b
  <2> QED
    BY <1>0, <2>2, <2>3
<1>13. \A m \in DOMAIN sales :
         JournalsOf(m) \intersect DOMAIN k = JournalsOf(m) \intersect DOMAIN journals
  <2>1. \A m : JournalsOf(m) \intersect V = {}
    BY <1>0 DEF JournalsOf, VoidNumber
  <2> QED
    BY <1>12, <2>1

<1>14. JournalsStand'
  <2>1. ASSUME NEW m \in DOMAIN sales PROVE SaleBooked(m)'
    <3>1. CASE m = i
      <4>1. \A n \in JournalsOf(m) : n \in DOMAIN journals' <=> n \in DOMAIN journals
        BY <1>1, <1>13
      <4>2. \A n \in JournalsOf(m) \intersect DOMAIN journals :
              journals'[n] = [lines |-> journals[n].lines, status |-> "REVERSED"]
        BY <1>1, <1>2, <1>12, <3>1
      <4>3. VoidNumber(<<"POS", m>>) \in DOMAIN journals'
        BY <1>1, <1>4, <1>12, <3>1
      <4>4. SaleBooked(m) /\ sales'[m] = e
        BY <1>3, <1>8, <3>1
      <4> QED
        BY <1>6, <1>9, <3>1, <4>1, <4>2, <4>3, <4>4, MarkedSale
    <3>2. CASE m # i
      <4>1. JournalsOf(m) \intersect P = {}
        BY <1>2, <3>2 DEF JournalsOf
      <4>2. \A n \in JournalsOf(m) \intersect DOMAIN journals : journals'[n] = journals[n]
        BY <1>1, <1>12, <4>1
      <4>3. SaleBooked(m) /\ sales'[m] = sales[m]
        BY <1>8, <3>2 DEF JournalsStand
      <4>4. /\ JournalsOf(m) \intersect DOMAIN journals' = JournalsOf(m) \intersect DOMAIN journals
            /\ DOMAIN journals \subseteq DOMAIN journals'
        BY <1>1, <1>12, <1>13
      <4> QED
        BY <4>2, <4>3, <4>4, StillBooked
    <3> QED
      BY <3>1, <3>2
  <2>2. \A m \in DOMAIN sales' : SaleBooked(m)'
    BY <1>8, <2>1
  <2>3. Voided \subseteq Voided' /\ i \in Voided'
    BY <1>2, <1>5, <1>6, <1>8 DEF Voided
  <2>4. BookedFromRows'
    <3> SUFFICES ASSUME NEW m \in DOMAIN k PROVE FromRow(m)'
      BY <1>1 DEF BookedFromRows
    <3>1. CASE m \in DOMAIN journals
      <4>1. /\ FromRow(m) /\ restocks \in Nat /\ restocks' \in Nat /\ restocks <= restocks'
            /\ DOMAIN returns \subseteq DOMAIN returns'
        BY <1>1, <3>1 DEF JournalsStand, BookedFromRows
      <4> QED
        BY <1>8, <2>3, <4>1, FromRowStill
    <3>2. CASE m \notin DOMAIN journals
      <4>1. \E j \in JournalsOf(i) : m = VoidNumber(j)
        BY <1>0, <1>2, <1>12, <3>2
      <4> QED
        BY <2>3, <4>1 DEF FromRow
    <3> QED
      BY <3>1, <3>2
  <2>5. \A u \in Workers : ReadFromBooks(u)'
    BY <1>1, <1>13, DoneReads DEF JournalsStand
  <2>6. BooksOK(journals') /\ restocks' \in Nat
    BY <1>1, <1>11 DEF JournalsStand
  <2>7. worth' \in [Products -> Int]
    BY <1>1, <1>2, <1>9, MovedWorth DEF JournalsStand
  <2> QED
    BY <2>2, <2>4, <2>5, <2>6, <2>7, BooksStand
<1>15. Accounts'
  <2>1. /\ BalanceOver(journals, P, "1000") = Total(e.cart) - e.credit
        /\ BalanceOver(journals, P, "1100") = e.credit
        /\ BalanceOver(journals, P, "4000") + BalanceOver(journals, P, "2100") = - Total(e.cart)
        /\ BalanceOver(journals, P, "1300") = - CostOf(e.cart, e.cost)
    <3> DEFINE v == CostOf(e.cart, e.cost)
               r == sales[i]
    <3>1. /\ <<"POS", i>> \in DOMAIN journals
          /\ journals[<<"POS", i>>].lines = Normalized(SaleLines(r))
          /\ v > 0 => /\ <<"COGS", i>> \in DOMAIN journals
                      /\ journals[<<"COGS", i>>].lines = Normalized(CostLines(v))
          /\ ~(v > 0) => <<"COGS", i>> \notin DOMAIN journals
      BY <1>3, <1>6 DEF SaleBooked
    <3>2. v \in Nat /\ r.cart \in Cart /\ r.credit \in Nat /\ (v = 0 => ~(v > 0))
      BY <1>9
    <3> HIDE DEF v, r
    <3>3. LET moves(a) == BalanceOver(journals, JournalsOf(i) \intersect DOMAIN journals, a) IN
            /\ moves("1000") = Total(r.cart) - r.credit
            /\ moves("1100") = r.credit
            /\ moves("4000") + moves("2100") = - Total(r.cart)
            /\ moves("1300") = - v
      BY <1>3, <3>1, <3>2, BookedSale
    <3>4. r.cart = e.cart /\ r.credit = e.credit
      BY <1>6 DEF r
    <3> QED
      BY <1>2, <3>3, <3>4 DEF v
  <2>2. /\ TakenIn' = TakenIn - (Total(e.cart) - e.credit)
        /\ SoldFor' = SoldFor - Total(e.cart)
        /\ Owed' = Owed - e.credit
        /\ Revalued' = Revalued + (CostOf(e.cart, e.cost) - CostOf(e.cart, e.voidCost))
    BY <1>2, <1>5, <1>6, <1>7, <1>10, VoidedRows
  <2>3. Refunds' = Refunds
    BY <1>1 DEF Refunds
  <2>4. worth \in [Products -> Int]
    BY DEF JournalsStand
  <2>5. /\ TakenIn \in Int /\ SoldFor \in Int /\ Owed \in Int /\ Held \in Int
        /\ Revalued \in Int /\ Refunds \in Int
    BY <2>4, RowSums
  <2>6. Held' = Held + 1 * CostOf(e.cart, c)
    BY <1>1, <1>2, <1>6, <1>9, <2>4, MovedWorth
  <2>7. /\ Balance(journals, "1000") = TakenIn - Refunds
        /\ Balance(journals, "4000") + Balance(journals, "2100") = Refunds - SoldFor
        /\ Balance(journals, "1100") = Owed
        /\ Balance(journals, "1300") - Held = Revalued
    BY AccountsAre
  <2>8. \A a : Balance(journals, a) \in Int /\ BalanceOver(journals, P, a) \in Int
    BY <1>2, <1>3, PartialBalanceType DEF Balance
  <2>9. Total(e.cart) \in Int /\ e.credit \in Int
    BY <1>6, <1>9
  <2>10. Balance(k, "1000") = TakenIn' - Refunds'
    BY <1>11, <2>1, <2>2, <2>3, <2>5, <2>7, <2>9
  <2>11. Balance(k, "4000") + Balance(k, "2100") = Refunds' - SoldFor'
    BY <1>11, <2>1, <2>2, <2>3, <2>5, <2>7, <2>8, <2>9
  <2>12. Balance(k, "1100") = Owed'
    BY <1>11, <2>1, <2>2, <2>7
  <2>13. Balance(k, "1300") - Held' = Revalued'
    BY <1>6, <1>9, <1>11, <2>1, <2>2, <2>5, <2>6, <2>7, <2>8
  <2> QED
    BY <1>1, <2>10, <2>11, <2>12, <2>13, AccountsWillBe
<1> QED
  BY <1>14, <1>15

(* A step that adds one journal, of a return or a restock, and no sale.    *)
LEMMA OneMoreBooks ==
  ASSUME TypeOK, JournalsStand, UNCHANGED sales, NEW n, n \notin DOMAIN journals,
         \A i : n \notin JournalsOf(i), NEW j \in Journal, IsFiniteSet(j.lines),
         journals' = Entered(journals, n, j), FromRow(n)',
         DOMAIN returns \subseteq DOMAIN returns', restocks' \in Nat, restocks <= restocks',
         worth' \in [Products -> Int]
  PROVE  /\ (\A u \in Workers : ReadFromBooks(u)') => JournalsStand'
         /\ \A i : JournalsOf(i) \intersect DOMAIN journals' = JournalsOf(i) \intersect DOMAIN journals
         /\ \A a : /\ Balance(journals', a) = Balance(journals, a) + Movement(j, a)
                   /\ Balance(journals, a) \in Int /\ Movement(j, a) \in Int
<1>1. /\ BooksOK(journals') /\ BooksOK(journals)
      /\ DOMAIN journals' = DOMAIN journals \union {n} /\ journals'[n] = j
      /\ \A m \in DOMAIN journals : journals'[m] = journals[m]
  <2> DEFINE k == Entered(journals, n, j)
  <2>1. BooksOK(journals)
    BY DEF JournalsStand
  <2>2. /\ BooksOK(k) /\ DOMAIN k = DOMAIN journals \union {n} /\ k[n] = j
        /\ \A m \in DOMAIN journals : k[m] = journals[m]
    BY ONLY <2>1, EnteredOne, n \notin DOMAIN journals, j \in Journal, IsFiniteSet(j.lines)
  <2>3. journals' = k
    OBVIOUS
  <2> HIDE DEF k
  <2> QED
    BY <2>1, <2>2, <2>3
<1>2. \A i : JournalsOf(i) \intersect DOMAIN journals' = JournalsOf(i) \intersect DOMAIN journals
  BY <1>1
<1>3. \A i \in DOMAIN sales' : SaleBooked(i)'
  BY <1>1, <1>2, StillBooked DEF JournalsStand
<1>4. BookedFromRows'
  <2> SUFFICES ASSUME NEW m \in DOMAIN journals' PROVE FromRow(m)'
    BY DEF BookedFromRows
  <2>1. CASE m \in DOMAIN journals
    <3>1. /\ FromRow(m) /\ restocks \in Nat /\ DOMAIN sales \subseteq DOMAIN sales'
          /\ Voided \subseteq Voided'
      BY <2>1 DEF JournalsStand, BookedFromRows, Voided
    <3> QED
      BY <3>1, FromRowStill
  <2>2. CASE m = n
    BY <2>2
  <2> QED
    BY <1>1, <2>1, <2>2
<1>5. (\A u \in Workers : ReadFromBooks(u)') => JournalsStand'
  BY <1>1, <1>3, <1>4, BooksStand
<1>6. ASSUME NEW a
      PROVE  /\ Balance(journals', a) = Balance(journals, a) + Movement(j, a)
             /\ Balance(journals, a) \in Int /\ Movement(j, a) \in Int
  <2> DEFINE k == journals'
             N == {n}
  <2>1. /\ \A m \in DOMAIN journals : k[m].lines = journals[m].lines
        /\ DOMAIN k = DOMAIN journals \union N /\ N \intersect DOMAIN journals = {}
    BY <1>1
  <2>2. BalanceOver(k, N, a) = Movement(j, a)
    BY <1>1, BalanceOfOne
  <2>3. BooksOK(k)
    BY <1>1
  <2> HIDE DEF k, N
  <2>4. /\ Balance(k, a) = Balance(journals, a) + BalanceOver(k, N, a)
        /\ Balance(journals, a) \in Int /\ BalanceOver(k, N, a) \in Int
    BY <1>1, <2>1, <2>3, BalanceGrows
  <2> QED
    BY <2>2, <2>4 DEF k
<1> QED
  BY <1>2, <1>5, <1>6

(* The rows of sales that do not change sum to what they did.              *)
LEMMA SameSales ==
  ASSUME UNCHANGED sales
  PROVE  TakenIn' = TakenIn /\ SoldFor' = SoldFor /\ Owed' = Owed /\ Revalued' = Revalued
BY DEF TakenIn, SoldFor, Owed, Revalued, Kept, Voided, Exposure, Completed, SalesOf

LEMMA ReturnCommitBooks ==
  ASSUME TypeOK, TypeOK', JournalsStand, Accounts, NEW w \in Workers, ReturnCommit(w)
  PROVE  JournalsStand' /\ Accounts'
<1>0. PICK i, p, q, n, v, j :
        /\ i = job[w].sale /\ p = job[w].product /\ q = job[w].qty
        /\ n = Len(returns) + 1
        /\ v = IF p \in Goods THEN q * sales[i].cost[p] ELSE 0
        /\ j = [lines |-> Normalized(ReturnLines(p, q, v)), status |-> "POSTED"]
  OBVIOUS
<1>1. /\ pc[w] = "returning" /\ Done(w)
      /\ returns' = Append(returns, job[w])
      /\ Move(WarehouseOf[sales[i].register], 1, Only(p, q), sales[i].cost)
      /\ journals' = Posted(journals, <<"RETURN", n>>, ReturnLines(p, q, v))
      /\ UNCHANGED <<sales, restocks>>
  BY <1>0 DEF ReturnCommit
<1>2. job[w] \in ReturnRow /\ p \in Products /\ q \in Nat /\ i \in DOMAIN sales
  BY <1>0, <1>1 DEF TypeOK, JobsOK, JobOK, ReturnRow
<1>3. sales[i].cost \in [Products -> Nat]
  BY <1>2, SaleType DEF Sale
<1>4. v = CostOf(Only(p, q), sales[i].cost) /\ v \in Nat
  <2>1. sales[i].cost[p] \in Nat
    BY <1>2, <1>3
  <2>2. q * sales[i].cost[p] \in Nat
    BY <1>2, <2>1
  <2> QED
    BY <1>0, <1>2, <1>3, <2>2, OnlyCosts
<1>5. <<"RETURN", n>> \notin DOMAIN journals
  BY <1>0, FreshNumbers
<1>6. journals' = Entered(journals, <<"RETURN", n>>, j)
  BY <1>0, <1>1, <1>5 DEF Posted
<1>7. j.lines = Normalized(ReturnLines(p, q, v)) /\ j.status = "POSTED"
  BY <1>0
<1>8. /\ IsFiniteSet(j.lines) /\ j.lines \subseteq LineRow
      /\ Movement(j, "1000") = - (q * Gross(p))
      /\ Movement(j, "1100") = 0
      /\ Movement(j, "4000") + Movement(j, "2100") = q * Gross(p)
      /\ Movement(j, "1300") = v
  BY <1>2, <1>4, <1>7, ReturnMoves
<1>9. j \in Journal
  BY <1>0, <1>8 DEF Journal
<1>10. DOMAIN returns' = DOMAIN returns \union {n}
  BY <1>0, <1>1, ReturnsFinite, <1>2, AppendProperties, LenProperties DEF TypeOK, RowsOK
<1>11. /\ worth \in [Products -> Int] /\ worth' \in [Products -> Int] /\ Held' = Held + v
  <2>1. worth \in [Products -> Int]
    BY DEF JournalsStand
  <2>2. Only(p, q) \in Cart
    BY <1>2 DEF Only, Cart
  <2>3. worth' \in [Products -> Int] /\ Held' = Held + 1 * CostOf(Only(p, q), sales[i].cost)
    BY <1>1, <1>3, <2>1, <2>2, MovedWorth
  <2>4. Held \in Int
    BY <2>1, RowSums
  <2> QED
    BY <1>4, <2>1, <2>3, <2>4
<1>12. /\ (\A u \in Workers : ReadFromBooks(u)') => JournalsStand'
       /\ \A m : JournalsOf(m) \intersect DOMAIN journals' = JournalsOf(m) \intersect DOMAIN journals
       /\ \A a : /\ Balance(journals', a) = Balance(journals, a) + Movement(j, a)
                 /\ Balance(journals, a) \in Int /\ Movement(j, a) \in Int
  <2>1. \A m : <<"RETURN", n>> \notin JournalsOf(m)
    BY DEF JournalsOf
  <2>2. n \in DOMAIN returns'
    BY <1>10
  <2>3. FromRow(<<"RETURN", n>>)'
    BY <2>2 DEF FromRow
  <2>4. restocks \in Nat /\ restocks' = restocks
    BY <1>1 DEF JournalsStand
  <2>5. DOMAIN returns \subseteq DOMAIN returns' /\ restocks' \in Nat /\ restocks <= restocks'
    BY <1>10, <2>4
  <2> QED
    BY <1>1, <1>5, <1>6, <1>8, <1>9, <1>11, <2>1, <2>3, <2>5, OneMoreBooks
<1>13. JournalsStand'
  <2>1. \A u \in Workers : ReadFromBooks(u)'
    BY <1>1, <1>12, DoneReads DEF JournalsStand
  <2> QED
    BY <1>12, <2>1
<1>14. Accounts'
  <2>1. /\ TakenIn' = TakenIn /\ SoldFor' = SoldFor /\ Owed' = Owed /\ Revalued' = Revalued
    BY <1>1, SameSales
  <2>2. Refunds' = Refunds + q * Gross(p)
    BY <1>0, <1>1, <1>2, ReturnedRows
  <2>3. /\ TakenIn \in Int /\ SoldFor \in Int /\ Owed \in Int /\ Held \in Int
        /\ Revalued \in Int /\ Refunds \in Int
    BY <1>11, RowSums
  <2>4. /\ Balance(journals, "1000") = TakenIn - Refunds
        /\ Balance(journals, "4000") + Balance(journals, "2100") = Refunds - SoldFor
        /\ Balance(journals, "1100") = Owed
        /\ Balance(journals, "1300") - Held = Revalued
    BY AccountsAre
  <2>5. PICK g \in Int : g = q * Gross(p)
    <3>1. Gross(p) \in Int
      BY <1>2, PosAssumption DEF Gross
    <3> QED
      BY <1>2, <3>1
  <2>6. Balance(journals', "1000") = TakenIn' - Refunds'
    BY <1>8, <1>12, <2>1, <2>2, <2>3, <2>4, <2>5
  <2>7. Balance(journals', "4000") + Balance(journals', "2100") = Refunds' - SoldFor'
    BY <1>8, <1>12, <2>1, <2>2, <2>3, <2>4, <2>5
  <2>8. Balance(journals', "1100") = Owed'
    BY <1>8, <1>12, <2>1, <2>4
  <2>9. Balance(journals', "1300") - Held' = Revalued'
    BY <1>4, <1>8, <1>11, <1>12, <2>1, <2>3, <2>4
  <2> QED
    BY <2>6, <2>7, <2>8, <2>9, AccountsWillBe
<1> QED
  BY <1>13, <1>14

LEMMA RestockBooks ==
  ASSUME TypeOK, TypeOK', JournalsStand, Accounts, NEW h \in Warehouses, NEW p \in Goods,
         NEW q \in RestockQuantities, NEW c \in Costs[p], RestockProduct(h, p, q, c)
  PROVE  JournalsStand' /\ Accounts'
<1>0. PICK n, v, cs, j :
        /\ n = restocks + 1 /\ v = q * c /\ cs = [x \in Products |-> c]
        /\ j = [lines |-> Normalized({Line("1300", v, 0), Line("2000", 0, v)}), status |-> "POSTED"]
  OBVIOUS
<1>1. /\ restocks' = n /\ Move(h, 1, Only(p, q), cs)
      /\ journals' = IF v > 0 THEN Posted(journals, <<"RESTOCK", n>>,
                                          {Line("1300", v, 0), Line("2000", 0, v)})
                     ELSE journals
      /\ UNCHANGED <<sales, returns, pc, job>>
  BY <1>0 DEF RestockProduct
<1>2. p \in Products /\ q \in Nat /\ c \in Nat /\ cs \in [Products -> Nat]
  BY <1>0, PosAssumption
<1>3. v \in Nat /\ CostOf(Only(p, q), cs) = v
  <2>1. q * c \in Nat /\ cs[p] = c
    BY <1>0, <1>2
  <2> QED
    BY <1>0, <1>2, <2>1, OnlyCosts
<1>4. restocks \in Nat /\ n \in Nat /\ restocks <= restocks' /\ worth \in [Products -> Int]
  BY <1>0, <1>1 DEF JournalsStand
<1>5. worth' \in [Products -> Int] /\ Held' = Held + v /\ Held \in Int
  <2>1. Only(p, q) \in Cart
    BY <1>2 DEF Only, Cart
  <2>2. worth' \in [Products -> Int] /\ Held' = Held + 1 * CostOf(Only(p, q), cs)
    BY <1>1, <1>2, <1>4, <2>1, MovedWorth
  <2> QED
    BY <1>3, <1>4, <2>2, RowSums
<1>6. <<"RESTOCK", n>> \notin DOMAIN journals
  BY <1>0, FreshNumbers
<1>7. /\ TakenIn' = TakenIn /\ SoldFor' = SoldFor /\ Owed' = Owed /\ Revalued' = Revalued
      /\ Refunds' = Refunds
  BY <1>1, SameSales DEF Refunds
<1>8. /\ Balance(journals, "1000") = TakenIn - Refunds
      /\ Balance(journals, "4000") + Balance(journals, "2100") = Refunds - SoldFor
      /\ Balance(journals, "1100") = Owed
      /\ Balance(journals, "1300") - Held = Revalued
  BY AccountsAre
<1>9. CASE v > 0
  <2>1. journals' = Entered(journals, <<"RESTOCK", n>>, j)
    BY <1>0, <1>1, <1>6, <1>9 DEF Posted
  <2>2. j.lines = Normalized({Line("1300", v, 0), Line("2000", 0, v)}) /\ j.status = "POSTED"
    BY <1>0
  <2>3. "1300" \in TillAccounts /\ "2000" \in TillAccounts /\ "1300" # "2000"
    BY DEF TillAccounts
  <2>4. /\ IsFiniteSet(j.lines) /\ j.lines \subseteq LineRow
        /\ Movement(j, "1300") = v
        /\ \A a : a # "1300" /\ a # "2000" => Movement(j, a) = 0
    <3>1. PairOf(j, "1300", "2000", v) /\ v \in Int
      BY <1>3, <2>2 DEF PairOf
    <3> QED
      BY <3>1, <2>3, PairOfMoves
  <2>5. j \in Journal
    BY <1>0, <2>4 DEF Journal
  <2>6. /\ (\A u \in Workers : ReadFromBooks(u)') => JournalsStand'
        /\ \A m : JournalsOf(m) \intersect DOMAIN journals' = JournalsOf(m) \intersect DOMAIN journals
        /\ \A a : /\ Balance(journals', a) = Balance(journals, a) + Movement(j, a)
                  /\ Balance(journals, a) \in Int /\ Movement(j, a) \in Int
    <3>1. \A m : <<"RESTOCK", n>> \notin JournalsOf(m)
      BY DEF JournalsOf
    <3>2. n \in 1 .. restocks'
      BY <1>0, <1>1, <1>4
    <3>3. FromRow(<<"RESTOCK", n>>)'
      BY <3>2 DEF FromRow
    <3>4. DOMAIN returns \subseteq DOMAIN returns' /\ restocks' \in Nat
      BY <1>1, <1>4
    <3> QED
      BY <1>1, <1>4, <1>5, <1>6, <2>1, <2>4, <2>5, <3>1, <3>3, <3>4, OneMoreBooks
  <2>7. \A u \in Workers : ReadFromBooks(u)'
    BY <1>1, <2>6 DEF JournalsStand, ReadFromBooks
  <2>8. Balance(journals', "1000") = TakenIn' - Refunds'
    BY <1>7, <1>8, <2>4, <2>6
  <2>9. Balance(journals', "4000") + Balance(journals', "2100") = Refunds' - SoldFor'
    BY <1>7, <1>8, <2>4, <2>6
  <2>10. Balance(journals', "1100") = Owed'
    BY <1>7, <1>8, <2>4, <2>6
  <2>11. Balance(journals', "1300") - Held' = Revalued'
    BY <1>3, <1>5, <1>7, <1>8, <2>4, <2>6
  <2> QED
    BY <2>6, <2>7, <2>8, <2>9, <2>10, <2>11, AccountsWillBe
<1>10. CASE v = 0
  <2>1. journals' = journals /\ Held' = Held
    BY <1>1, <1>5, <1>10
  <2>2. Accounts'
    BY <1>7, <1>8, <2>1, AccountsWillBe
  <2>3. \A u \in Workers : ReadFromBooks(u)'
    BY <1>1, <2>1 DEF JournalsStand, ReadFromBooks
  <2>4. \A i \in DOMAIN sales' : SaleBooked(i)'
    BY <1>1, <2>1 DEF JournalsStand, SaleBooked
  <2>5. BookedFromRows'
    <3> SUFFICES ASSUME NEW m \in DOMAIN journals PROVE FromRow(m)'
      BY <2>1 DEF BookedFromRows
    <3>1. FromRow(m) /\ Voided' = Voided
      BY <1>1 DEF JournalsStand, BookedFromRows, Voided
    <3> QED
      BY <1>1, <1>4, <3>1, FromRowStill
  <2>6. BooksOK(journals')
    BY <2>1 DEF JournalsStand
  <2> QED
    BY <1>1, <1>4, <1>5, <2>2, <2>3, <2>4, <2>5, <2>6, BooksStand
<1> QED
  BY <1>3, <1>9, <1>10

LEMMA EditCostPriceBooks ==
  ASSUME TypeOK, JournalsStand, Accounts, NEW p \in Products, NEW c \in Costs[p],
         EditCostPrice(p, c)
  PROVE  JournalsStand' /\ Accounts'
<1>1. UNCHANGED <<sales, returns, journals, restocks, worth, pc, job>>
  BY DEF EditCostPrice, stockVars
<1>2. \A u \in Workers : ReadFromBooks(u)'
  BY <1>1 DEF JournalsStand, ReadFromBooks
<1> QED
  BY <1>1, <1>2, SameBooks

LEMMA StutterBooks ==
  ASSUME JournalsStand, Accounts, UNCHANGED vars
  PROVE  JournalsStand' /\ Accounts'
<1>1. UNCHANGED <<sales, returns, journals, restocks, worth, pc, job>>
  BY DEF vars, stockVars
<1>2. \A u \in Workers : ReadFromBooks(u)'
  BY <1>1 DEF JournalsStand, ReadFromBooks
<1> QED
  BY <1>1, <1>2, SameBooks

--------------------------------------------------------------------------------
(* The start: the opening stock is in the books at its cost.               *)

OpeningValue(p) == OpeningStock[p] * OpeningCost[p]
Opened == {p \in Goods : OpeningValue(p) > 0}

LEMMA OpeningJournals ==
  ASSUME Init
  PROVE  /\ BooksOK(journals)
         /\ DOMAIN journals = {<<"OPENING", p>> : p \in Opened} /\ IsFiniteSet(Opened)
         /\ \A p \in Opened :
              /\ OpeningValue(p) \in Int
              /\ Movement(journals[<<"OPENING", p>>], "1300") = OpeningValue(p)
              /\ \A a \in {"1000", "1100", "2100", "4000"} :
                   Movement(journals[<<"OPENING", p>>], a) = 0
<1> DEFINE number == [p \in Opened |-> <<"OPENING", p>>]
           entry(p) == [lines |-> {Line("1300", OpeningValue(p), 0),
                                   Line("3900", 0, OpeningValue(p))},
                        status |-> "POSTED"]
<1>1. IsFiniteSet(Opened) /\ IsFiniteSet({number[p] : p \in Opened})
  <2>1. IsFiniteSet(Opened)
    BY PosAssumption, FS_Subset DEF Opened
  <2> HIDE DEF number
  <2> QED
    BY <2>1, ImageFinite
<1>2. DOMAIN journals = {<<"OPENING", p>> : p \in Opened}
  BY DEF Init, Opened, OpeningValue
<1>3. ASSUME NEW p \in Opened PROVE journals[<<"OPENING", p>>] = entry(p)
  <2>1. <<"OPENING", p>> \in {<<"OPENING", q>> : q \in Opened}
    OBVIOUS
  <2>2. <<"OPENING", p>>[2] = p
    OBVIOUS
  <2> QED
    BY <2>1, <2>2 DEF Init, Opened, OpeningValue
<1>4. ASSUME NEW p \in Opened PROVE OpeningValue(p) \in Int /\ OpeningValue(p) # 0
  <2>1. OpeningStock[p] \in Nat /\ OpeningCost[p] \in Nat /\ OpeningValue(p) > 0
    BY PosAssumption DEF Opened
  <2>2. OpeningValue(p) \in Nat
    BY <2>1 DEF OpeningValue
  <2> QED
    BY <2>1, <2>2
<1>5. ASSUME NEW p \in Opened
      PROVE  LET j == journals[<<"OPENING", p>>] IN
             /\ j \in Journal /\ IsFiniteSet(j.lines)
             /\ Movement(j, "1300") = OpeningValue(p)
             /\ \A a \in {"1000", "1100", "2100", "4000"} : Movement(j, a) = 0
  <2> DEFINE v == OpeningValue(p)
             j == journals[<<"OPENING", p>>]
             lines == {Line("1300", v, 0), Line("3900", 0, v)}
  <2>1. v \in Int /\ v # 0
    BY <1>4
  <2>2. j = [lines |-> lines, status |-> "POSTED"]
    BY <1>3
  <2>3. lines = Normalized(lines)
    <3>1. \A l \in lines : l.debit # 0 \/ l.credit # 0
      BY <2>1 DEF Line
    <3> QED
      BY <3>1 DEF Normalized
  <2>4. j.lines = lines
    BY <2>2
  <2>5. "1300" \in TillAccounts /\ "3900" \in TillAccounts /\ "1300" # "3900"
    BY DEF TillAccounts
  <2> HIDE DEF v, j
  <2>6. /\ IsFiniteSet(j.lines) /\ j.lines \subseteq LineRow
        /\ Movement(j, "1300") = v
        /\ \A a : a # "1300" /\ a # "3900" => Movement(j, a) = 0
    <3>1. PairOf(j, "1300", "3900", v) /\ v \in Int
      BY <2>1, <2>3, <2>4 DEF PairOf
    <3> QED
      BY <3>1, <2>5, PairOfMoves
  <2>7. j \in Journal
    BY <2>2, <2>4, <2>6 DEF Journal
  <2> QED
    BY <2>6, <2>7 DEF j, v
<1>6. BooksOK(journals)
  <2>1. {number[p] : p \in Opened} = DOMAIN journals
    BY <1>2
  <2>2. ASSUME NEW n \in DOMAIN journals PROVE journals[n] \in Journal /\ IsFiniteSet(journals[n].lines)
    <3>1. PICK p \in Opened : n = <<"OPENING", p>>
      BY <1>2
    <3> QED
      BY <1>5, <3>1
  <2> QED
    BY <1>1, <2>1, <2>2 DEF BooksOK
<1> QED
  BY <1>1, <1>2, <1>4, <1>5, <1>6

LEMMA OpeningBalances ==
  ASSUME Init
  PROVE  /\ Balance(journals, "1300") = Held /\ worth \in [Products -> Int] /\ Held \in Int
         /\ \A a \in {"1000", "1100", "2100", "4000"} : Balance(journals, a) = 0
<1> DEFINE number == [p \in Opened |-> <<"OPENING", p>>]
           value == [p \in Opened |-> OpeningValue(p)]
           moves(a) == [n \in DOMAIN journals |-> Movement(journals[n], a)]
           held == [p \in Goods |-> worth[p]]
           rest == Goods \ Opened
<1>1. /\ IsFiniteSet(Opened) /\ IsFiniteSet(Goods) /\ IsFiniteSet(rest)
      /\ Goods \subseteq Products /\ Opened \subseteq Goods
  BY OpeningJournals, PosAssumption, FS_Subset DEF Opened
<1>2. DOMAIN journals = {number[p] : p \in Opened} /\ IsFiniteSet(DOMAIN journals)
  BY OpeningJournals DEF BooksOK
<1>3. \A a : Balance(journals, a) = SumFunctionOnSet(moves(a), DOMAIN journals)
  BY DEF Balance, BalanceOver, SumFunction
<1>4. ASSUME NEW p \in Opened
      PROVE  value[p] \in Int /\ moves("1300")[number[p]] = value[p]
  <2>1. number[p] \in DOMAIN journals
    BY <1>2
  <2> QED
    BY <2>1, OpeningJournals
<1>5. ASSUME NEW a \in {"1000", "1100", "2100", "4000"} PROVE Balance(journals, a) = 0
  <2>1. ASSUME NEW n \in DOMAIN journals PROVE moves(a)[n] = 0
    <3>1. PICK p \in Opened : n = <<"OPENING", p>>
      BY OpeningJournals
    <3> QED
      BY <3>1, OpeningJournals
  <2> HIDE DEF moves
  <2> QED
    BY <1>2, <1>3, <2>1, SumZero
<1>6. \A p, q \in Opened : number[p] = number[q] => p = q
  OBVIOUS
<1>7. ASSUME NEW p \in Products PROVE OpeningValue(p) \in Nat
  <2>1. OpeningStock[p] \in Nat /\ OpeningCost[p] \in Nat
    BY PosAssumption
  <2> QED
    BY <2>1 DEF OpeningValue
<1>8. worth = [p \in Products |-> IF p \in Goods THEN OpeningValue(p) ELSE 0]
  BY DEF Init, OpeningValue
<1>9. worth \in [Products -> Int]
  BY <1>7, <1>8
<1>10. /\ \A p \in Opened : held[p] = value[p]
       /\ \A p \in rest : held[p] = 0
       /\ \A p \in Goods : held[p] \in Int
  <2>1. ASSUME NEW p \in Goods PROVE held[p] = OpeningValue(p) /\ OpeningValue(p) \in Nat
    BY <1>1, <1>7, <1>8
  <2>2. \A p \in rest : ~(OpeningValue(p) > 0)
    BY DEF Opened
  <2>3. \A p \in Opened : held[p] = value[p]
    BY <1>1, <2>1
  <2>4. ASSUME NEW p \in rest PROVE held[p] = 0
    BY <2>1, <2>2
  <2> QED
    BY <2>1, <2>3, <2>4
<1>11. Held = SumFunctionOnSet(held, Goods)
  BY DEF Held, SumFunction
<1>12. Goods = Opened \union rest /\ Opened \intersect rest = {}
  BY <1>1
<1>13. Held = SumFunctionOnSet(value, Opened) /\ Held \in Int
  <2> HIDE DEF held, value, rest
  <2>1. SumFunctionOnSet(held, Opened \union rest) =
          SumFunctionOnSet(held, Opened) + SumFunctionOnSet(held, rest)
    BY <1>1, <1>10, <1>12, SumUnion
  <2>2. SumFunctionOnSet(held, rest) = 0
    BY <1>1, <1>10, SumZero
  <2>3. SumFunctionOnSet(held, Opened) = SumFunctionOnSet(value, Opened)
    BY <1>1, <1>10, SumSame
  <2>4. SumFunctionOnSet(held, Opened) \in Int
    BY <1>1, <1>10, SumType
  <2> QED
    BY <1>11, <1>12, <2>1, <2>2, <2>3, <2>4
<1>14. Balance(journals, "1300") = SumFunctionOnSet(value, Opened)
  <2> DEFINE e == moves("1300")
  <2>1. \A p \in Opened : value[p] \in Int /\ e[number[p]] = value[p]
    BY <1>4
  <2>2. Balance(journals, "1300") = SumFunctionOnSet(e, {number[p] : p \in Opened})
    BY <1>2, <1>3
  <2> HIDE DEF number, value, e
  <2>3. SumFunctionOnSet(e, {number[p] : p \in Opened}) = SumFunctionOnSet(value, Opened)
    BY <1>1, <1>6, <2>1, SumImage
  <2> QED
    BY <2>2, <2>3
<1> QED
  BY <1>5, <1>9, <1>13, <1>14

LEMMA InitBooks ==
  ASSUME Init
  PROVE  JournalsStand /\ Accounts
<1>1. /\ BooksOK(journals)
      /\ DOMAIN journals = {<<"OPENING", p>> : p \in Opened}
  BY OpeningJournals
<1>2. /\ sales = <<>> /\ returns = <<>> /\ restocks = 0
      /\ \A w \in Workers : pc[w] = "idle"
  BY DEF Init
<1>3. DOMAIN sales = {} /\ DOMAIN returns = {}
  BY <1>2
<1>4. BookedFromRows
  <2>1. \A p \in Opened : p \in Goods
    BY DEF Opened
  <2> QED
    BY <1>1, <2>1 DEF BookedFromRows, FromRow
<1>5. JournalsStand
  <2>1. \A w \in Workers : ReadFromBooks(w)
    BY <1>2 DEF ReadFromBooks
  <2> QED
    BY <1>1, <1>2, <1>3, <1>4, <2>1, OpeningBalances DEF JournalsStand
<1>6. Kept = {} /\ Voided = {} /\ \A c : Completed(SalesOf(c)) = {}
  BY <1>3 DEF Kept, Voided, Completed, SalesOf
<1>7. \A f : DOMAIN f = {} => SumFunction(f) = 0
  BY TotalType, FS_EmptySet
<1>8. TakenIn = 0 /\ SoldFor = 0 /\ Revalued = 0 /\ Refunds = 0
  BY <1>3, <1>6, <1>7 DEF TakenIn, SoldFor, Revalued, Refunds
<1>9. Owed = 0
  <2> DEFINE f == [c \in Customers |-> Exposure(c)]
  <2>1. \A c \in Customers : f[c] = 0
    BY <1>6, <1>7 DEF Exposure
  <2>2. Owed = SumFunctionOnSet(f, Customers)
    BY DEF Owed, SumFunction
  <2> HIDE DEF f
  <2> QED
    BY <2>1, <2>2, PosAssumption, SumZero
<1>10. Accounts
  BY <1>8, <1>9, OpeningBalances, AccountsAre
<1> QED
  BY <1>5, <1>10

--------------------------------------------------------------------------------
(* The theorems. *)

BooksInv == PosInv /\ JournalsStand /\ Accounts

LEMMA InventoryBooks ==
  ASSUME TypeOK, TypeOK', JournalsStand, Accounts, Inventory
  PROVE  JournalsStand' /\ Accounts'
BY RestockBooks, EditCostPriceBooks DEF Inventory

LEMMA NextBooks ==
  ASSUME TypeOK, Safe, TypeOK', JournalsStand, Accounts, [Next]_vars
  PROVE  JournalsStand' /\ Accounts'
<1>1. ASSUME NEW w \in Workers, Complete(w) PROVE JournalsStand' /\ Accounts'
  BY <1>1, CompleteBeginBooks, CompleteReadsBooks, CompleteCommitBooks DEF Complete
<1>2. ASSUME NEW w \in Workers, Void(w) PROVE JournalsStand' /\ Accounts'
  BY <1>2, OtherReadsBooks, VoidJournalsBooks, VoidCommitBooks DEF Void, Safe
<1>3. ASSUME NEW w \in Workers, Return(w) PROVE JournalsStand' /\ Accounts'
  BY <1>3, OtherReadsBooks, ReturnCommitBooks DEF Return
<1>4. ASSUME NEW w \in Workers, Abort(w) PROVE JournalsStand' /\ Accounts'
  BY <1>4, OtherReadsBooks
<1>5. CASE SalesNext
  BY <1>1, <1>2, <1>3, <1>4, <1>5, InventoryBooks DEF SalesNext
<1>6. CASE ShiftNext
  BY <1>6, ShiftBooks
<1>7. CASE UNCHANGED vars
  BY <1>7, StutterBooks
<1> QED
  BY <1>5, <1>6, <1>7 DEF Next

(* Whatever sales, voids, returns, restocks and aborts interleave, every   *)
(* row has its journals, every journal its row, and the accounts agree     *)
(* with the rows (PosService, OperationsService).                          *)
THEOREM BooksInvariant == Spec => []BooksInv
<1>1. TypeOK /\ Safe <=> PosInv
  BY DEF Safe, PosInv
<1>2. (TypeOK /\ Safe)' <=> PosInv'
  BY DEF Safe, PosInv
<1>3. Init => BooksInv
  BY <1>1, InitInv, InitBooks DEF BooksInv
<1>4. BooksInv /\ [Next]_vars => BooksInv'
  <2> SUFFICES ASSUME BooksInv, [Next]_vars PROVE BooksInv'
    OBVIOUS
  <2>1. TypeOK /\ Safe /\ JournalsStand /\ Accounts
    BY <1>1 DEF BooksInv
  <2>2. TypeOK' /\ Safe'
    BY <2>1, NextInv
  <2>3. JournalsStand' /\ Accounts'
    BY <2>1, <2>2, NextBooks
  <2> QED
    BY <1>2, <2>2, <2>3 DEF BooksInv
<1> QED
  BY <1>3, <1>4, PTL DEF Spec

(* Every sale has its journals, reversed when it is voided, and nothing is *)
(* in the books but what a row was posted for (postSaleJournals, voidSale).*)
THEOREM EverySaleIsBooked == Spec => []JournalsStand
<1>1. BooksInv => JournalsStand
  BY DEF BooksInv
<1> QED
  BY <1>1, BooksInvariant, PTL

(* Cash, revenue and tax agree with the standing sales and the returns,    *)
(* for any carts, prices and payments the tills send.                      *)
THEOREM CashAndRevenueAgree == Spec => []BooksAgree
<1>1. BooksInv => BooksAgree
  BY DEF BooksInv, Accounts
<1> QED
  BY <1>1, BooksInvariant, PTL

(* Accounts receivable is what the credit check reads.                     *)
THEOREM ReceivablesMatchExposure == Spec => []ReceivablesAreExposure
<1>1. BooksInv => ReceivablesAreExposure
  BY DEF BooksInv, Accounts
<1> QED
  BY <1>1, BooksInvariant, PTL

(* Inventory is off the stock by the price changes of voids, exactly.      *)
THEOREM VoidsAloneRevalue == Spec => []InventoryOffByVoidRevaluation
<1>1. BooksInv => InventoryOffByVoidRevaluation
  BY DEF BooksInv, Accounts
<1> QED
  BY <1>1, BooksInvariant, PTL

--------------------------------------------------------------------------------
(* No step takes a record away. *)

LEMMA PostedKeeps ==
  ASSUME NEW js, NEW n, NEW lines
  PROVE  LET k == Posted(js, n, lines) IN
         DOMAIN js \subseteq DOMAIN k /\ \A m \in DOMAIN js : k[m] = js[m]
BY DEF Posted, Entered

LEMMA SameReverses ==
  ASSUME TypeOK, TypeOK', UNCHANGED <<sales, journals>>
  PROVE  Reversals
BY DEF Reversals

(* Journals are added and sales kept.                                      *)
LEMMA AddedReverses ==
  ASSUME DOMAIN journals \subseteq DOMAIN journals',
         \A n \in DOMAIN journals : journals'[n] = journals[n],
         \A i \in DOMAIN sales : i \in DOMAIN sales' /\ sales'[i] = sales[i]
  PROVE  Reversals
BY DEF Reversals

LEMMA CommitReverses ==
  ASSUME TypeOK, Safe, NEW w \in Workers, CompleteCommit(w) \/ ReturnCommit(w)
  PROVE  Reversals
<1>1. CASE CompleteCommit(w)
  <2> DEFINE n == job[w].seen + 1
             r == job[w].req
             v == CostOf(r.cart, job[w].cost)
             sold == Posted(journals, <<"POS", n>>, SaleLines(r))
  <2>1. journals' = IF v > 0 THEN Posted(sold, <<"COGS", n>>, CostLines(v)) ELSE sold
    BY <1>1 DEF CompleteCommit, SaleJournals
  <2>2. DOMAIN journals \subseteq DOMAIN sold /\ \A m \in DOMAIN journals : sold[m] = journals[m]
    BY PostedKeeps
  <2> HIDE DEF sold, v, n
  <2> DEFINE both == Posted(sold, <<"COGS", n>>, CostLines(v))
  <2>3. DOMAIN sold \subseteq DOMAIN both /\ \A m \in DOMAIN sold : both[m] = sold[m]
    BY PostedKeeps
  <2>4. journals' = both \/ journals' = sold
    BY <2>1
  <2> HIDE DEF both
  <2>5. /\ DOMAIN journals \subseteq DOMAIN journals'
        /\ \A m \in DOMAIN journals : journals'[m] = journals[m]
    BY <2>2, <2>3, <2>4
  <2>6. \A i \in DOMAIN sales : i \in DOMAIN sales' /\ sales'[i] = sales[i]
    <3>1. PICK e \in Sale : sales' = Append(sales, e)
      BY <1>1, NewSale
    <3> QED
      BY <3>1, AppendSale DEF TypeOK, RowsOK
  <2> QED
    BY <2>5, <2>6, AddedReverses
<1>2. CASE ReturnCommit(w)
  <2> DEFINE n == <<"RETURN", Len(returns) + 1>>
             i == job[w].sale
             p == job[w].product
             q == job[w].qty
             lines == ReturnLines(p, q, IF p \in Goods THEN q * sales[i].cost[p] ELSE 0)
             k == Posted(journals, n, lines)
  <2>1. journals' = k /\ sales' = sales
    BY <1>2 DEF ReturnCommit
  <2>2. DOMAIN journals \subseteq DOMAIN k /\ \A m \in DOMAIN journals : k[m] = journals[m]
    BY PostedKeeps
  <2> HIDE DEF k
  <2> QED
    BY <2>1, <2>2, AddedReverses
<1> QED
  BY <1>1, <1>2

LEMMA VoidReverses ==
  ASSUME TypeOK, JournalsStand, NEW w \in Workers, VoidCommit(w)
  PROVE  Reversals
<1> DEFINE i == job[w].sale
           c == job[w].cost
           P == job[w].posted
           k == WithReversals(journals, P)
           e == [sales[i] EXCEPT !.status = "VOIDED", !.voidCost = c]
<1>1. /\ pc[w] = "reversing" /\ journals' = k
      /\ {VoidNumber(j) : j \in P} \intersect DOMAIN journals = {}
      /\ sales' = [sales EXCEPT ![i].status = "VOIDED", ![i].voidCost = c]
  BY DEF VoidCommit, NumbersFree
<1>2. i \in DOMAIN sales /\ c \in [Products -> Nat] /\ P = JournalsOf(i) \intersect DOMAIN journals
  BY <1>1 DEF TypeOK, JobsOK, JobOK, JournalsStand, ReadFromBooks
<1>3. e \in Sale /\ e.status = "VOIDED" /\ e.cart = sales[i].cart
  <2>1. sales[i] \in Sale
    BY <1>2, SaleType
  <2> QED
    BY <1>2, <2>1 DEF Sale
<1>4. sales' = [sales EXCEPT ![i] = e]
  BY <1>1, <1>2
<1>5. BooksOK(journals)
  BY DEF JournalsStand
<1> HIDE DEF P, e
<1>6. /\ DOMAIN k = DOMAIN journals \union {VoidNumber(j) : j \in P}
      /\ \A n \in DOMAIN journals : k[n].lines = journals[n].lines
      /\ \A n \in DOMAIN journals \ P : k[n] = journals[n]
      /\ \A n \in P : k[n] = [lines |-> journals[n].lines, status |-> "REVERSED"]
  <2>1. P \in SUBSET (JournalsOf(i) \intersect DOMAIN journals)
    BY <1>2
  <2> QED
    BY <1>1, <1>5, <2>1, ReversedJournals
<1> HIDE DEF k, i
<1>7. ASSUME NEW n \in DOMAIN journals
      PROVE  journals'[n].status \in {journals[n].status, "REVERSED"}
  <2>1. CASE n \in P
    <3>1. k[n] = [lines |-> journals[n].lines, status |-> "REVERSED"]
      BY <1>6, <2>1
    <3> QED
      BY <1>1, <3>1
  <2>2. CASE n \notin P
    BY <1>1, <1>6, <2>2
  <2> QED
    BY <2>1, <2>2
<1>8. ASSUME NEW m \in DOMAIN sales
      PROVE  /\ m \in DOMAIN sales'
             /\ sales'[m].status \in {sales[m].status, "VOIDED"}
             /\ sales'[m].cart = sales[m].cart
  <2>1. m \in DOMAIN sales' /\ sales'[m] = IF m = i THEN e ELSE sales[m]
    BY <1>2, <1>4
  <2> QED
    BY <1>3, <2>1
<1>9. /\ DOMAIN journals \subseteq DOMAIN journals'
      /\ \A n \in DOMAIN journals : journals'[n].lines = journals[n].lines
  BY <1>1, <1>6
<1> QED
  BY <1>7, <1>8, <1>9 DEF Reversals

LEMMA InventoryReverses ==
  ASSUME Inventory
  PROVE  Reversals
<1>1. sales' = sales
  BY DEF Inventory, RestockProduct, EditCostPrice
<1>2. PICK n, lines : journals' = Posted(journals, n, lines) \/ journals' = journals
  BY DEF Inventory, RestockProduct, EditCostPrice
<1>3. /\ DOMAIN journals \subseteq DOMAIN journals'
      /\ \A m \in DOMAIN journals : journals'[m] = journals[m]
  BY <1>2, PostedKeeps
<1> QED
  BY <1>1, <1>3, AddedReverses

LEMMA QuietReverses ==
  ASSUME TypeOK, TypeOK', NEW w \in Workers,
         \/ Complete(w) /\ ~ CompleteCommit(w)
         \/ Void(w) /\ ~ VoidCommit(w)
         \/ Return(w) /\ ~ ReturnCommit(w)
         \/ Abort(w)
  PROVE  Reversals
<1>1. UNCHANGED <<sales, journals>>
  BY DEF Complete, CompleteBegin, CompleteCredit, CompleteLock, Void, VoidRead, VoidJournals,
         Return, ReturnRead, Abort
<1> QED
  BY <1>1, SameReverses

LEMMA ShiftReverses ==
  ASSUME TypeOK, TypeOK', ShiftNext \/ UNCHANGED vars
  PROVE  Reversals
<1>1. UNCHANGED <<sales, journals>>
  <2>1. CASE UNCHANGED vars
    BY <2>1 DEF vars
  <2>2. CASE ShiftNext
    <3>1. PICK w \in Workers :
            \/ Open(w) \/ Close(w) \/ Handover(w) \/ Configure(w)
            \/ \E kind \in Aggregates : ReadAggregate(w, kind)
      BY <2>2 DEF ShiftNext
    <3> QED
      BY <3>1 DEF Open, OpenRead, OpenCommit, Close, CloseRead, CloseCommit, Handover,
                  HandoverRead, HandoverCommit, Configure, UpdateRead, AssignRead,
                  ConfigureCommit, ReadAggregate, salesState
  <2> QED
    BY <2>1, <2>2
<1> QED
  BY <1>1, SameReverses

LEMMA NextReverses ==
  ASSUME BooksInv, BooksInv', [Next]_vars
  PROVE  Reversals
<1>1. TypeOK /\ Safe /\ JournalsStand
  BY DEF BooksInv, PosInv, Safe
<1>2. TypeOK'
  BY DEF BooksInv, PosInv
<1>3. CASE SalesNext
  <2>1. CASE Inventory
    BY <2>1, InventoryReverses
  <2>2. CASE \E w \in Workers : Complete(w) \/ Void(w) \/ Return(w) \/ Abort(w)
    BY <1>1, <1>2, <2>2, CommitReverses, VoidReverses, QuietReverses
  <2> QED
    BY <1>3, <2>1, <2>2 DEF SalesNext
<1>4. CASE ShiftNext \/ UNCHANGED vars
  BY <1>1, <1>2, <1>4, ShiftReverses
<1> QED
  BY <1>3, <1>4 DEF Next

(* No interleaving deletes a sale or a journal, or rewrites the lines of a *)
(* journal or the cart of a sale; a status moves only to REVERSED or VOIDED *)
(* (complete, voidSale, returnItem).                                       *)
THEOREM RecordsAreKept == Spec => NeverDeleted
<1>1. BooksInv /\ BooksInv' /\ [Next]_vars => [Reversals]_vars
  BY NextReverses
<1> QED
  BY <1>1, BooksInvariant, PTL DEF Spec, NeverDeleted

--------------------------------------------------------------------------------
(* The rows of the shifts, and what the rows say of one another.           *)

ShiftRow ==
  [register : Registers, cashier : Staff, opening : Nat, status : {"OPEN", "CLOSED"},
   expected : Int]

RowsKnown ==
  /\ shifts \in Seq(ShiftRow)
  /\ \A k \in DOMAIN returns : returns[k].sale \in DOMAIN sales
  /\ \A i \in DOMAIN sales : sales[i].shift \in DOMAIN shifts
  /\ \A i \in DOMAIN sales : \E r \in Checkouts : sales[i].cart = r.cart

(* What a request knows of the rows it is about.                           *)
KnownTo(label, j) ==
  /\ label \in {"priced", "cleared", "locked"} => j.shift \in DOMAIN shifts \union {0}
  /\ label = "returning" => j.qty \in 1 .. sales[j.sale].cart[j.product]
  /\ label = "opening" => j \in ShiftRow /\ j.status = "OPEN"
  /\ label \in {"closing", "handing"} =>
       /\ {"shift", "sums"} \subseteq DOMAIN j
       /\ j.shift \in DOMAIN shifts \union {0}
       /\ \A kind \in DOMAIN j.sums : j.sums[kind] \in Int

Known == RowsKnown /\ \A v \in Workers : KnownTo(pc[v], job[v])

(* Each kind of change of the rows.                                        *)
RowsStay == UNCHANGED <<sales, returns, shifts>>

LEMMA ShiftFacts ==
  ASSUME Known
  PROVE  /\ Len(shifts) \in Nat /\ DOMAIN shifts = 1 .. Len(shifts)
         /\ \A s \in DOMAIN shifts : shifts[s] \in ShiftRow /\ s \in Nat \ {0}
<1>1. shifts \in [1 .. Len(shifts) -> ShiftRow] /\ Len(shifts) \in Nat
  BY ElementOfSeq, LenProperties DEF Known, RowsKnown
<1> QED
  BY <1>1

(* What the others know lasts while no row is taken away and no cart is    *)
(* changed.                                                                *)
LEMMA KnownStays ==
  ASSUME TypeOK, Known, NEW w \in Workers, NEW label, NEW j, Turn(w, label, j),
         DOMAIN shifts \subseteq DOMAIN shifts',
         \A i \in DOMAIN sales : i \in DOMAIN sales' /\ sales'[i].cart = sales[i].cart,
         KnownTo(label, j)', RowsKnown'
  PROVE  Known'
<1> SUFFICES ASSUME NEW v \in Workers PROVE KnownTo(pc[v], job[v])'
  BY DEF Known
<1>1. CASE v = w
  <2>1. pc'[v] = label /\ job'[v] = j
    BY <1>1 DEF Turn, TypeOK, JobsOK
  <2> QED
    BY <2>1 DEF KnownTo
<1>2. CASE v # w
  <2>1. pc'[v] = pc[v] /\ job'[v] = job[v] /\ KnownTo(pc[v], job[v])
    BY <1>2 DEF Turn, TypeOK, JobsOK, Known
  <2>2. pc[v] = "returning" => job[v].sale \in DOMAIN sales
    BY DEF TypeOK, JobsOK, JobOK
  <2> QED
    BY <2>1, <2>2 DEF KnownTo
<1> QED
  BY <1>1, <1>2

LEMMA KnownRead ==
  ASSUME TypeOK, Known, NEW w \in Workers, NEW label, NEW j, Turn(w, label, j), RowsStay,
         KnownTo(label, j)
  PROVE  Known'
<1>1. RowsKnown'
  BY DEF Known, RowsKnown, RowsStay
<1>2. KnownTo(label, j)'
  BY DEF KnownTo, RowsStay
<1> QED
  BY <1>1, <1>2, KnownStays DEF RowsStay

LEMMA KnownDone ==
  ASSUME TypeOK, Known, NEW w \in Workers, Done(w),
         DOMAIN shifts \subseteq DOMAIN shifts',
         \A i \in DOMAIN sales : i \in DOMAIN sales' /\ sales'[i].cart = sales[i].cart,
         RowsKnown'
  PROVE  Known'
<1>1. KnownTo("idle", None)'
  BY DEF KnownTo
<1> QED
  BY <1>1, KnownStays DEF Done

--------------------------------------------------------------------------------
(* The writes, by what they do to the rows.                                *)

(* A checkout: its sale is the last one, on the shift it found or opened.  *)
Sells(w, r, s, e) ==
  /\ pc[w] = "locked" /\ Done(w) /\ r = job[w].req /\ r \in Checkouts
  /\ s = (IF job[w].shift = 0 THEN Len(shifts) + 1 ELSE job[w].shift)
  /\ e \in Sale /\ e.status = "COMPLETED" /\ e.cart = r.cart
  /\ e.customer = r.customer /\ e.credit = r.credit /\ e.shift = s
  /\ e.cash = r.cash /\ e.card = r.card
  /\ sales' = Append(sales, e)
  /\ shifts' = IF job[w].shift # 0 THEN shifts ELSE
       Append(shifts, [register |-> r.register, cashier |-> r.cashier,
                       opening |-> 0, status |-> "OPEN", expected |-> 0])
  /\ UNCHANGED returns

LEMMA CommitSells ==
  ASSUME TypeOK, Safe, Known, NEW w \in Workers, CompleteCommit(w)
  PROVE  \E r, s, e : Sells(w, r, s, e)
<1> DEFINE r == job[w].req
           n == job[w].seen + 1
           s == IF job[w].shift = 0 THEN Len(shifts) + 1 ELSE job[w].shift
           e == [receipt |-> n, key |-> r.key, register |-> r.register, shift |-> s,
                 cashier |-> r.cashier, branch |-> job[w].branch, customer |-> r.customer,
                 cart |-> r.cart, cost |-> job[w].cost, voidCost |-> job[w].cost,
                 cash |-> r.cash, card |-> r.card, credit |-> r.credit,
                 status |-> "COMPLETED"]
<1>1. pc[w] = "locked" /\ Done(w) /\ UNCHANGED returns
  BY DEF CompleteCommit
<1>2. job[w] \in CompleteJob /\ r \in Checkouts /\ r \in Checkout
  BY <1>1, PosAssumption DEF TypeOK, JobsOK, JobOK, CompleteJob
<1>3. e \in Sale
  <2>1. n \in Nat \ {0} /\ s \in Nat \ {0}
    BY <1>2, ShiftFacts DEF CompleteJob
  <2> QED
    BY <1>2, <2>1 DEF Sale, CompleteJob, Checkout
<1>4. sales' = Append(sales, e)
  BY DEF CompleteCommit
<1>5. shifts' = IF job[w].shift # 0 THEN shifts ELSE
        Append(shifts, [register |-> r.register, cashier |-> r.cashier,
                        opening |-> 0, status |-> "OPEN", expected |-> 0])
  BY DEF CompleteCommit
<1>6. /\ e.status = "COMPLETED" /\ e.cart = r.cart /\ e.customer = r.customer
      /\ e.credit = r.credit /\ e.shift = s /\ e.cash = r.cash /\ e.card = r.card
  OBVIOUS
<1>7. PICK rr, ss, ee : rr = r /\ ss = s /\ ee = e
  OBVIOUS
<1>8. Sells(w, rr, ss, ee)
  <2> HIDE DEF e
  <2> QED
    BY <1>1, <1>2, <1>3, <1>4, <1>5, <1>6, <1>7 DEF Sells
<1> QED
  BY <1>8

(* A void: the status of a completed sale and the cost it comes back at.   *)
Voids(w, i, e) ==
  /\ pc[w] = "reversing" /\ Done(w) /\ i = job[w].sale /\ i \in DOMAIN sales
  /\ sales[i].status = "COMPLETED"
  /\ e \in Sale /\ e.status = "VOIDED" /\ e.cart = sales[i].cart
  /\ e.credit = sales[i].credit /\ e.customer = sales[i].customer
  /\ e.shift = sales[i].shift
  /\ sales' = [sales EXCEPT ![i] = e]
  /\ UNCHANGED <<shifts, returns>>

LEMMA CommitVoids ==
  ASSUME TypeOK, JournalsStand, NEW w \in Workers, VoidCommit(w)
  PROVE  \E i, e : Voids(w, i, e)
<1>0. PICK i, c, P, e, V :
        /\ i = job[w].sale /\ c = job[w].cost /\ P = job[w].posted
        /\ V = {VoidNumber(j) : j \in P}
        /\ e = [sales[i] EXCEPT !.status = "VOIDED", !.voidCost = c]
  OBVIOUS
<1>1. /\ pc[w] = "reversing" /\ Done(w)
      /\ V \intersect DOMAIN journals = {}
      /\ sales' = [sales EXCEPT ![i].status = "VOIDED", ![i].voidCost = c]
      /\ UNCHANGED <<returns, shifts>>
  BY <1>0 DEF VoidCommit, NumbersFree
<1>2. i \in DOMAIN sales /\ c \in [Products -> Nat] /\ P = JournalsOf(i) \intersect DOMAIN journals
  BY <1>0, <1>1 DEF TypeOK, JobsOK, JobOK, JournalsStand, ReadFromBooks
<1>3. sales[i] \in Sale /\ SaleBooked(i)
  BY <1>2, SaleType DEF JournalsStand
<1>4. <<"POS", i>> \in P /\ VoidNumber(<<"POS", i>>) \in V
  <2>1. <<"POS", i>> \in P
    BY <1>2, <1>3 DEF SaleBooked, JournalsOf
  <2> QED
    BY <1>0, <2>1
<1>5. sales[i].status = "COMPLETED"
  <2>1. sales[i].status # "VOIDED"
    BY <1>1, <1>3, <1>4 DEF SaleBooked
  <2> QED
    BY <1>3, <2>1 DEF Sale
<1>6. /\ e \in Sale /\ e.status = "VOIDED" /\ e.cart = sales[i].cart
      /\ e.credit = sales[i].credit /\ e.customer = sales[i].customer
      /\ e.shift = sales[i].shift
  BY <1>0, <1>2, <1>3 DEF Sale
<1>7. sales' = [sales EXCEPT ![i] = e]
  BY <1>0, <1>1, <1>2
<1>8. Voids(w, i, e)
  BY <1>0, <1>1, <1>2, <1>5, <1>6, <1>7 DEF Voids
<1> QED
  BY <1>8

(* A return is the last one.                                               *)
Returns(w) ==
  /\ pc[w] = "returning" /\ Done(w)
  /\ returns' = Append(returns, job[w])
  /\ UNCHANGED <<sales, shifts>>

(* A shift is opened.                                                      *)
Opens(w) ==
  /\ pc[w] = "opening" /\ Done(w)
  /\ shifts' = Append(shifts, job[w])
  /\ UNCHANGED <<sales, returns>>

(* A shift is closed.                                                      *)
Closes(w, s, e) ==
  /\ pc[w] \in {"closing", "handing"} /\ Done(w)
  /\ s = job[w].shift /\ s \in DOMAIN shifts
  /\ DOMAIN job[w].sums = Aggregates
  /\ e \in ShiftRow /\ e.status = "CLOSED" /\ e.register = shifts[s].register
  /\ e.opening = shifts[s].opening /\ e.expected = Expected(s, job[w].sums)
  /\ shifts' = [shifts EXCEPT ![s] = e]
  /\ UNCHANGED <<sales, returns>>

LEMMA ClosedRow ==
  ASSUME Known, NEW s \in DOMAIN shifts, NEW sums, DOMAIN sums = Aggregates,
         \A kind \in DOMAIN sums : sums[kind] \in Int, shifts' = Closed(s, sums)
  PROVE  \E e : /\ e \in ShiftRow /\ e.status = "CLOSED" /\ e.register = shifts[s].register
                /\ e.opening = shifts[s].opening /\ e.expected = Expected(s, sums)
                /\ shifts' = [shifts EXCEPT ![s] = e]
<1> DEFINE x == Expected(s, sums)
<1>1. PICK e : e = [shifts[s] EXCEPT !.status = "CLOSED", !.expected = x]
  OBVIOUS
<1>2. shifts[s] \in ShiftRow
  BY ShiftFacts
<1>3. x \in Int
  <2>1. sums["cash"] \in Int /\ sums["change"] \in Int /\ sums["returned"] \in Int
    BY DEF Aggregates
  <2>2. shifts[s].opening \in Nat
    BY <1>2 DEF ShiftRow
  <2> QED
    BY <2>1, <2>2 DEF Expected
<1> HIDE DEF x
<1>4. /\ e \in ShiftRow /\ e.status = "CLOSED" /\ e.register = shifts[s].register
      /\ e.opening = shifts[s].opening /\ e.expected = x
  BY <1>1, <1>2, <1>3 DEF ShiftRow
<1>5. shifts' = [shifts EXCEPT ![s] = e]
  BY <1>1 DEF Closed, x
<1> QED
  BY <1>4, <1>5 DEF x

LEMMA CommitCloses ==
  ASSUME TypeOK, Known, NEW w \in Workers,
         CloseCommit(w) \/ (HandoverCommit(w) /\ job[w].shift # 0)
  PROVE  \/ \E s, e : Closes(w, s, e)
         \/ Done(w) /\ RowsStay
<1>1. /\ pc[w] \in {"closing", "handing"} /\ Done(w) /\ UNCHANGED <<sales, returns>>
      /\ DOMAIN job[w].sums = Aggregates
      /\ shifts' = Closed(job[w].shift, job[w].sums)
  BY DEF CloseCommit, HandoverCommit, salesState
<1>2. /\ job[w].shift \in DOMAIN shifts \union {0}
      /\ \A kind \in DOMAIN job[w].sums : job[w].sums[kind] \in Int
  BY <1>1 DEF Known, KnownTo
<1>3. CASE job[w].shift \in DOMAIN shifts
  <2>1. PICK s, sums : s = job[w].shift /\ sums = job[w].sums
    OBVIOUS
  <2>2. PICK e : /\ e \in ShiftRow /\ e.status = "CLOSED" /\ e.register = shifts[s].register
                 /\ e.opening = shifts[s].opening /\ e.expected = Expected(s, sums)
                 /\ shifts' = [shifts EXCEPT ![s] = e]
    <3>1. /\ s \in DOMAIN shifts /\ DOMAIN sums = Aggregates
          /\ \A kind \in DOMAIN sums : sums[kind] \in Int
          /\ shifts' = Closed(s, sums)
      BY <1>1, <1>2, <1>3, <2>1
    <3> QED
      BY <3>1, ClosedRow
  <2>3. Closes(w, s, e)
    BY <1>1, <1>3, <2>1, <2>2 DEF Closes
  <2> QED
    BY <2>3
<1>4. CASE job[w].shift = 0 /\ 0 \notin DOMAIN shifts
  <2>1. \A sums : Closed(0, sums) = shifts
    BY <1>4, ShiftFacts DEF Closed, Known, RowsKnown
  <2> QED
    BY <1>1, <1>4, <2>1 DEF RowsStay
<1> QED
  BY <1>2, <1>3, <1>4

--------------------------------------------------------------------------------
(* The reads, by what they find.                                           *)

(* The request starts: what it finds is so now.                            *)
Finds(label, j) ==
  \/ /\ label = "priced" /\ j.req \in Checkouts
     /\ \/ j.shift = 0 /\ NoOpenShift(j.req.register)
        \/ j.shift \in DOMAIN shifts
  \/ /\ label = "voiding" /\ j.sale \in DOMAIN sales
     /\ sales[j.sale].status = "COMPLETED" /\ ReturnsOf(j.sale) = {}
  \/ /\ label = "returning" /\ j.sale \in DOMAIN sales /\ j.product \in Products
     /\ j.qty \in 1 .. sales[j.sale].cart[j.product]
     /\ sales[j.sale].status = "COMPLETED" /\ LeftToReturn(j.sale, j.product, j.qty)
  \/ /\ label = "opening" /\ j \in ShiftRow /\ j.status = "OPEN" /\ NoOpenShift(j.register)
  \/ /\ label \in {"closing", "handing"} /\ {"shift", "sums"} \subseteq DOMAIN j
     /\ j.shift \in DOMAIN shifts \union {0} /\ j.sums = << >>
  \/ label = "configuring"

(* The request goes on with what it has.                                   *)
Advances(w, label, j) ==
  \/ pc[w] = "priced" /\ label = "cleared" /\ j = job[w] /\ CreditFits(j.req)
  \/ /\ pc[w] = "cleared" /\ label = "locked" /\ j.req = job[w].req /\ j.shift = job[w].shift
  \/ pc[w] = "voiding" /\ label = "reversing" /\ j.sale = job[w].sale
  \/ /\ pc[w] \in {"closing", "handing"} /\ label = pc[w]
     /\ {"shift", "sums"} \subseteq DOMAIN j /\ j.shift = job[w].shift /\ j.shift # 0
     /\ \A kind \in DOMAIN j.sums :
          \/ kind \in DOMAIN job[w].sums /\ j.sums[kind] = job[w].sums[kind]
          \/ kind \in Aggregates /\ j.sums[kind] = Aggregate(kind, j.shift)

Reads(w, label, j) ==
  /\ Turn(w, label, j) /\ RowsStay
  /\ \/ label = "idle" /\ j = None
     \/ pc[w] = "idle" /\ Finds(label, j)
     \/ Advances(w, label, j)

LEMMA BeginReads ==
  ASSUME TypeOK, Known, NEW w \in Workers, NEW r \in Checkouts, CompleteBegin(w, r)
  PROVE  \E label, j : Reads(w, label, j)
<1> DEFINE branch == IF registers[r.register].branch # None
                       THEN registers[r.register].branch ELSE r.branch
           read(s) == [req |-> r, shift |-> s, cost |-> cost, seen |-> 0, branch |-> branch]
<1>1. PICK s : /\ Turn(w, "priced", read(s))
               /\ (s = 0 /\ NoOpenShift(r.register)) \/ s \in DOMAIN shifts
  BY DEF CompleteBegin, OpenShifts
<1>2. pc[w] = "idle" /\ RowsStay
  BY DEF CompleteBegin, RowsStay
<1>3. PICK j : j = read(s)
  OBVIOUS
<1>4. j.req = r /\ j.shift = s
  BY <1>3
<1>5. Finds("priced", j)
  BY <1>1, <1>4 DEF Finds
<1>6. Reads(w, "priced", j)
  <2> HIDE DEF read
  <2> QED
    BY <1>1, <1>2, <1>3, <1>5 DEF Reads
<1> QED
  BY <1>6

LEMMA CheckoutReads ==
  ASSUME TypeOK, Known, NEW w \in Workers, CompleteCredit(w) \/ CompleteLock(w)
  PROVE  \E label, j : Reads(w, label, j)
<1>1. RowsStay
  BY DEF CompleteCredit, CompleteLock, RowsStay
<1>2. CASE CompleteCredit(w)
  <2>1. Turn(w, "cleared", job[w]) /\ Advances(w, "cleared", job[w])
    BY <1>2 DEF CompleteCredit, Advances
  <2>2. Reads(w, "cleared", job[w])
    BY <1>1, <2>1 DEF Reads
  <2> QED
    BY <2>2
<1>3. CASE CompleteLock(w)
  <2>1. PICK j : j = [job[w] EXCEPT !.seen = Len(sales)]
    OBVIOUS
  <2>2. pc[w] = "cleared" /\ Turn(w, "locked", j)
    BY <1>3, <2>1 DEF CompleteLock
  <2>3. job[w] \in CompleteJob
    BY <2>2 DEF TypeOK, JobsOK, JobOK
  <2>4. j.req = job[w].req /\ j.shift = job[w].shift
    BY <2>1, <2>3 DEF CompleteJob
  <2>5. Reads(w, "locked", j)
    BY <1>1, <2>2, <2>4 DEF Reads, Advances
  <2> QED
    BY <2>5
<1> QED
  BY <1>2, <1>3

LEMMA VoidReads ==
  ASSUME TypeOK, Known, NEW w \in Workers,
         (\E a \in Staff, i \in DOMAIN sales : VoidRead(w, a, i)) \/ VoidJournals(w)
  PROVE  \E label, j : Reads(w, label, j)
<1>1. CASE \E a \in Staff, i \in DOMAIN sales : VoidRead(w, a, i)
  <2>1. PICK i \in DOMAIN sales :
          /\ pc[w] = "idle" /\ sales[i].status = "COMPLETED" /\ ReturnsOf(i) = {}
          /\ Turn(w, "voiding", [sale |-> i, cost |-> cost]) /\ RowsStay
    BY <1>1 DEF VoidRead, RowsStay
  <2>2. PICK j : j = [sale |-> i, cost |-> cost]
    OBVIOUS
  <2>3. j.sale = i
    BY <2>2
  <2>4. Reads(w, "voiding", j)
    BY <2>1, <2>2, <2>3 DEF Reads, Finds
  <2> QED
    BY <2>4
<1>2. CASE VoidJournals(w)
  <2>1. PICK posted : Turn(w, "reversing",
                          [sale |-> job[w].sale, cost |-> job[w].cost, posted |-> posted])
    BY <1>2 DEF VoidJournals
  <2>2. PICK j : j = [sale |-> job[w].sale, cost |-> job[w].cost, posted |-> posted]
    OBVIOUS
  <2>3. j.sale = job[w].sale /\ pc[w] = "voiding" /\ RowsStay
    BY <1>2, <2>2 DEF VoidJournals, RowsStay
  <2>4. Reads(w, "reversing", j)
    BY <2>1, <2>2, <2>3 DEF Reads, Advances
  <2> QED
    BY <2>4
<1> QED
  BY <1>1, <1>2

LEMMA ReturnReads ==
  ASSUME NEW w \in Workers, NEW a, NEW i \in DOMAIN sales, NEW p \in Products,
         NEW q \in 1 .. sales[i].cart[p], ReturnRead(w, a, i, p, q)
  PROVE  \E label, j : Reads(w, label, j)
<1>1. PICK j : j = [sale |-> i, product |-> p, qty |-> q]
  OBVIOUS
<1>2. j.sale = i /\ j.product = p /\ j.qty = q
  BY <1>1
<1>3. /\ pc[w] = "idle" /\ RowsStay /\ Turn(w, "returning", j)
      /\ sales[i].status = "COMPLETED" /\ LeftToReturn(i, p, q)
  BY <1>1 DEF ReturnRead, RowsStay
<1>4. Finds("returning", j)
  BY <1>2, <1>3 DEF Finds
<1>5. Reads(w, "returning", j)
  BY <1>3, <1>4 DEF Reads
<1> QED
  BY <1>5

LEMMA OpenReads ==
  ASSUME NEW w \in Workers, NEW a \in Staff, NEW r \in Registers, NEW float \in Floats,
         OpenRead(w, a, r, float)
  PROVE  \E label, j : Reads(w, label, j)
<1>1. PICK j : j = [register |-> r, cashier |-> a, opening |-> float,
                    status |-> "OPEN", expected |-> 0]
  OBVIOUS
<1>2. j \in ShiftRow /\ j.status = "OPEN" /\ j.register = r
  BY <1>1, ShiftAssumption DEF ShiftRow
<1>3. pc[w] = "idle" /\ RowsStay /\ Turn(w, "opening", j) /\ NoOpenShift(r)
  BY <1>1 DEF OpenRead, RowsStay, salesState
<1>4. Reads(w, "opening", j)
  BY <1>2, <1>3 DEF Reads, Finds
<1> QED
  BY <1>4

LEMMA CloseReads ==
  ASSUME NEW w \in Workers, NEW s \in DOMAIN shifts, NEW a, CloseRead(w, a, s)
  PROVE  \E label, j : Reads(w, label, j)
<1>1. PICK j : j = [shift |-> s, sums |-> << >>]
  OBVIOUS
<1>2. {"shift", "sums"} \subseteq DOMAIN j /\ j.shift = s /\ j.sums = << >>
  BY <1>1
<1>3. pc[w] = "idle" /\ RowsStay /\ Turn(w, "closing", j)
  BY <1>1 DEF CloseRead, RowsStay, salesState
<1>4. Reads(w, "closing", j)
  BY <1>2, <1>3 DEF Reads, Finds
<1> QED
  BY <1>4

LEMMA HandoverReads ==
  ASSUME NEW w \in Workers, NEW r, NEW to, NEW b, HandoverRead(w, r, to, b)
  PROVE  \E label, j : Reads(w, label, j)
<1>1. PICK s \in DOMAIN shifts \union {0} :
        Turn(w, "handing", [register |-> r, to |-> to, branch |-> b, shift |-> s, sums |-> << >>])
  BY DEF HandoverRead, OpenShifts
<1>2. PICK j : j = [register |-> r, to |-> to, branch |-> b, shift |-> s, sums |-> << >>]
  OBVIOUS
<1>3. {"shift", "sums"} \subseteq DOMAIN j /\ j.shift = s /\ j.sums = << >>
  BY <1>2
<1>4. pc[w] = "idle" /\ RowsStay /\ Turn(w, "handing", j)
  BY <1>1, <1>2 DEF HandoverRead, RowsStay, salesState
<1>5. Reads(w, "handing", j)
  BY <1>3, <1>4 DEF Reads, Finds
<1> QED
  BY <1>5

LEMMA AggregateReads ==
  ASSUME Known, NEW w \in Workers, NEW kind \in Aggregates, ReadAggregate(w, kind)
  PROVE  \E label, j : Reads(w, label, j)
<1>1. PICK read :
        read = [k \in DOMAIN job[w].sums \union {kind} |->
                  IF k = kind THEN Aggregate(kind, job[w].shift) ELSE job[w].sums[k]]
  OBVIOUS
<1>2. PICK j : j = [job[w] EXCEPT !.sums = read]
  OBVIOUS
<1>3. /\ pc[w] \in {"closing", "handing"} /\ job[w].shift # 0 /\ RowsStay
      /\ Turn(w, pc[w], j)
  BY <1>1, <1>2 DEF ReadAggregate, RowsStay, salesState
<1>4. {"shift", "sums"} \subseteq DOMAIN job[w]
  BY <1>3 DEF Known, KnownTo
<1>5. {"shift", "sums"} \subseteq DOMAIN j /\ j.shift = job[w].shift /\ j.sums = read
  BY <1>2, <1>4
<1>6. \A k \in DOMAIN read :
        \/ k \in DOMAIN job[w].sums /\ read[k] = job[w].sums[k]
        \/ k \in Aggregates /\ read[k] = Aggregate(k, job[w].shift)
  BY <1>1
<1>7. Advances(w, pc[w], j)
  BY <1>3, <1>5, <1>6 DEF Advances
<1>8. Reads(w, pc[w], j)
  BY <1>3, <1>7 DEF Reads
<1> QED
  BY <1>8

LEMMA ConfigureReads ==
  ASSUME NEW w \in Workers, NEW r,
         (\E change : UpdateRead(w, r, change)) \/ (\E a, b : AssignRead(w, r, a, b))
  PROVE  \E label, j : Reads(w, label, j)
<1>1. PICK j : pc[w] = "idle" /\ RowsStay /\ Turn(w, "configuring", j)
  BY DEF UpdateRead, AssignRead, RowsStay, salesState
<1>2. Reads(w, "configuring", j)
  BY <1>1 DEF Reads, Finds
<1> QED
  BY <1>2

LEMMA EndReads ==
  ASSUME NEW w \in Workers, Done(w), RowsStay
  PROVE  \E label, j : Reads(w, label, j)
<1>1. Reads(w, "idle", None)
  BY DEF Reads, Done
<1> QED
  BY <1>1

(* Every step, as far as it concerns the rows of sales, returns and shifts. *)
RowStep(w) ==
  \/ \E label, j : Reads(w, label, j)
  \/ \E r, s, e : Sells(w, r, s, e)
  \/ \E i, e : Voids(w, i, e)
  \/ Returns(w)
  \/ Opens(w)
  \/ \E s, e : Closes(w, s, e)

LEMMA RowSteps ==
  ASSUME TypeOK, Safe, JournalsStand, Known, [Next]_vars
  PROVE  (\E w \in Workers : RowStep(w)) \/ UNCHANGED <<sales, returns, shifts, pc, job>>
<1> DEFINE Goal == (\E w \in Workers : RowStep(w)) \/ UNCHANGED <<sales, returns, shifts, pc, job>>
<1> SUFFICES Goal
  OBVIOUS
<1>1. ASSUME NEW w \in Workers, Complete(w) PROVE Goal
  BY <1>1, BeginReads, CheckoutReads, CommitSells DEF Complete, RowStep
<1>2. ASSUME NEW w \in Workers, Void(w) PROVE Goal
  BY <1>2, VoidReads, CommitVoids DEF Void, RowStep
<1>3. ASSUME NEW w \in Workers, Return(w) PROVE Goal
  <2>1. ReturnCommit(w) => Returns(w)
    BY DEF ReturnCommit, Returns
  <2> QED
    BY <1>3, <2>1, ReturnReads DEF Return, RowStep
<1>4. ASSUME NEW w \in Workers, Open(w) PROVE Goal
  <2>1. OpenCommit(w) => Opens(w)
    BY DEF OpenCommit, Opens, salesState
  <2> QED
    BY <1>4, <2>1, OpenReads DEF Open, RowStep
<1>5. ASSUME NEW w \in Workers, Close(w) PROVE Goal
  BY <1>5, CloseReads, CommitCloses, EndReads DEF Close, RowStep
<1>6. ASSUME NEW w \in Workers, Handover(w) PROVE Goal
  <2>1. HandoverCommit(w) /\ job[w].shift = 0 => Done(w) /\ RowsStay
    BY DEF HandoverCommit, RowsStay, salesState
  <2> QED
    BY <1>6, <2>1, HandoverReads, CommitCloses, EndReads DEF Handover, RowStep
<1>7. ASSUME NEW w \in Workers, Configure(w) PROVE Goal
  <2>1. ConfigureCommit(w) => Done(w) /\ RowsStay
    BY DEF ConfigureCommit, RowsStay, salesState
  <2> QED
    BY <1>7, <2>1, ConfigureReads, EndReads DEF Configure, RowStep
<1>8. CASE SalesNext
  <2>1. ASSUME NEW w \in Workers, Abort(w) PROVE Goal
    <3>1. Done(w) /\ RowsStay
      BY <2>1 DEF Abort, RowsStay
    <3> QED
      BY <3>1, EndReads DEF RowStep
  <2>2. Inventory => Goal
    BY DEF Inventory, RestockProduct, EditCostPrice
  <2> HIDE DEF Goal
  <2> QED
    BY <1>1, <1>2, <1>3, <1>8, <2>1, <2>2 DEF SalesNext
<1>9. CASE ShiftNext
  <2>1. ASSUME NEW w \in Workers, NEW kind \in Aggregates, ReadAggregate(w, kind) PROVE Goal
    BY <2>1, AggregateReads DEF RowStep
  <2> HIDE DEF Goal
  <2> QED
    BY <1>4, <1>5, <1>6, <1>7, <1>9, <2>1 DEF ShiftNext
<1>10. CASE UNCHANGED vars
  BY <1>10 DEF vars
<1> QED
  BY <1>8, <1>9, <1>10 DEF Next

--------------------------------------------------------------------------------
(* What is known stays known.                                              *)

LEMMA RowAppended ==
  ASSUME NEW T, NEW q \in Seq(T), NEW e \in T
  PROVE  /\ Append(q, e) \in Seq(T) /\ Len(q) \in Nat /\ Len(q) + 1 \notin DOMAIN q
         /\ DOMAIN Append(q, e) = DOMAIN q \union {Len(q) + 1}
         /\ Append(q, e)[Len(q) + 1] = e
         /\ \A i \in DOMAIN q : Append(q, e)[i] = q[i]
<1>1. /\ Append(q, e) \in Seq(T) /\ Len(Append(q, e)) = Len(q) + 1
      /\ \A i \in 1 .. Len(q) : Append(q, e)[i] = q[i]
      /\ Append(q, e)[Len(q) + 1] = e
  BY AppendProperties
<1>2. /\ Len(q) \in Nat /\ DOMAIN q = 1 .. Len(q)
      /\ DOMAIN Append(q, e) = 1 .. Len(Append(q, e))
  BY <1>1, LenProperties
<1> QED
  BY <1>1, <1>2

LEMMA AggregateType ==
  ASSUME TypeOK, NEW kind \in Aggregates, NEW s
  PROVE  Aggregate(kind, s) \in Int
<1> DEFINE S == SalesOn(s)
           R == {k \in DOMAIN returns : returns[k].sale \in S}
           cash == [i \in S |-> sales[i].cash]
           change == [i \in S |-> Paid(sales[i]) - Total(sales[i].cart)]
           back == [k \in R |-> returns[k].qty * Gross(returns[k].product)]
<1>1. S \subseteq DOMAIN sales /\ IsFiniteSet(S) /\ IsFiniteSet(R)
  <2>1. S \subseteq DOMAIN sales
    BY DEF SalesOn, Completed
  <2> QED
    BY <2>1, SalesFinite, ReturnsFinite, FS_Subset
<1>2. \A i \in S : cash[i] \in Int /\ change[i] \in Int
  <2> SUFFICES ASSUME NEW i \in S
               PROVE  sales[i].cash \in Int /\ Paid(sales[i]) - Total(sales[i].cart) \in Int
    OBVIOUS
  <2>1. sales[i].cash \in Nat /\ sales[i].card \in Nat /\ sales[i].credit \in Nat
    BY <1>1, SaleType DEF Sale
  <2>2. Total(sales[i].cart) \in Int
    BY <1>1, SaleAmounts
  <2> QED
    BY <2>1, <2>2 DEF Paid
<1>3. \A k \in R : back[k] \in Int
  BY ReturnsFinite
<1>4. /\ kind = "cash" => Aggregate(kind, s) = SumFunction(cash)
      /\ kind = "change" => Aggregate(kind, s) = SumFunction(change)
      /\ kind = "returned" => Aggregate(kind, s) = SumFunction(back)
  BY DEF Aggregate
<1>5. DOMAIN cash = S /\ DOMAIN change = S /\ DOMAIN back = R
  OBVIOUS
<1> HIDE DEF S, R, cash, change, back
<1>6. SumFunction(cash) \in Int /\ SumFunction(change) \in Int /\ SumFunction(back) \in Int
  BY <1>1, <1>2, <1>3, <1>5, TotalType
<1> QED
  BY <1>4, <1>6 DEF Aggregates

LEMMA ReadsKnown ==
  ASSUME TypeOK, Known, NEW w \in Workers, NEW label, NEW j, Reads(w, label, j)
  PROVE  Known'
<1>1. KnownTo(pc[w], job[w])
  BY DEF Known
<1>2. KnownTo(label, j)
  <2>1. CASE label = "idle"
    BY <2>1 DEF KnownTo
  <2>2. CASE Finds(label, j)
    BY <2>2 DEF Finds, KnownTo
  <2>3. CASE Advances(w, label, j)
    <3>1. CASE pc[w] \in {"closing", "handing"}
      <4>1. /\ label \in {"closing", "handing"} /\ {"shift", "sums"} \subseteq DOMAIN j
            /\ j.shift = job[w].shift /\ j.shift # 0
            /\ \A kind \in DOMAIN j.sums :
                 \/ kind \in DOMAIN job[w].sums /\ j.sums[kind] = job[w].sums[kind]
                 \/ kind \in Aggregates /\ j.sums[kind] = Aggregate(kind, j.shift)
        BY <2>3, <3>1 DEF Advances
      <4>2. /\ job[w].shift \in DOMAIN shifts \union {0}
            /\ \A kind \in DOMAIN job[w].sums : job[w].sums[kind] \in Int
        BY <1>1, <3>1 DEF KnownTo
      <4>3. \A kind \in DOMAIN j.sums : j.sums[kind] \in Int
        BY <4>1, <4>2, AggregateType
      <4> QED
        BY <4>1, <4>2, <4>3 DEF KnownTo
    <3>2. CASE pc[w] \notin {"closing", "handing"}
      BY <1>1, <2>3, <3>2 DEF Advances, KnownTo
    <3> QED
      BY <3>1, <3>2
  <2> QED
    BY <2>1, <2>2, <2>3 DEF Reads
<1> QED
  BY <1>2, KnownRead DEF Reads

LEMMA SellsKnown ==
  ASSUME TypeOK, Known, NEW w \in Workers, NEW r, NEW s, NEW e, Sells(w, r, s, e)
  PROVE  /\ Known'
         /\ Len(sales) + 1 \notin DOMAIN sales
         /\ DOMAIN sales' = DOMAIN sales \union {Len(sales) + 1}
         /\ sales'[Len(sales) + 1] = e /\ \A i \in DOMAIN sales : sales'[i] = sales[i]
<1>1. /\ e \in Sale /\ sales' = Append(sales, e) /\ UNCHANGED returns /\ Done(w)
      /\ r \in Checkouts /\ e.cart = r.cart /\ e.shift = s /\ pc[w] = "locked"
  BY DEF Sells
<1>2. /\ Len(sales) + 1 \notin DOMAIN sales
      /\ DOMAIN sales' = DOMAIN sales \union {Len(sales) + 1}
      /\ sales'[Len(sales) + 1] = e /\ \A i \in DOMAIN sales : sales'[i] = sales[i]
  BY <1>1, RowAppended DEF TypeOK, RowsOK
<1>3. /\ shifts' \in Seq(ShiftRow) /\ DOMAIN shifts \subseteq DOMAIN shifts'
      /\ s \in DOMAIN shifts'
  <2>1. CASE job[w].shift # 0
    BY <1>1, <2>1 DEF Sells, Known, RowsKnown, KnownTo
  <2>2. CASE job[w].shift = 0
    <3>1. PICK row : row = [register |-> r.register, cashier |-> r.cashier,
                            opening |-> 0, status |-> "OPEN", expected |-> 0]
      OBVIOUS
    <3>2. r \in Checkout
      BY <1>1, PosAssumption
    <3>3. row \in ShiftRow
      BY <3>1, <3>2 DEF ShiftRow, Checkout
    <3>4. shifts' = Append(shifts, row) /\ s = Len(shifts) + 1
      BY <2>2, <3>1 DEF Sells
    <3> QED
      BY <3>3, <3>4, RowAppended DEF Known, RowsKnown
  <2> QED
    BY <2>1, <2>2
<1>4. RowsKnown'
  BY <1>1, <1>2, <1>3 DEF Known, RowsKnown
<1>5. Known'
  BY <1>1, <1>2, <1>3, <1>4, KnownDone
<1> QED
  BY <1>2, <1>5

LEMMA VoidsKnown ==
  ASSUME TypeOK, Known, NEW w \in Workers, NEW i, NEW e, Voids(w, i, e)
  PROVE  Known'
<1>1. /\ Done(w) /\ i \in DOMAIN sales /\ sales' = [sales EXCEPT ![i] = e]
      /\ e.cart = sales[i].cart /\ e.shift = sales[i].shift /\ UNCHANGED <<shifts, returns>>
  BY DEF Voids
<1>2. /\ DOMAIN sales' = DOMAIN sales
      /\ \A k \in DOMAIN sales : sales'[k].cart = sales[k].cart /\ sales'[k].shift = sales[k].shift
  BY <1>1
<1>3. RowsKnown'
  BY <1>1, <1>2 DEF Known, RowsKnown
<1> QED
  BY <1>1, <1>2, <1>3, KnownDone

LEMMA ReturnsKnown ==
  ASSUME TypeOK, Known, NEW w \in Workers, Returns(w)
  PROVE  /\ Known'
         /\ Len(returns) + 1 \notin DOMAIN returns
         /\ DOMAIN returns' = DOMAIN returns \union {Len(returns) + 1}
         /\ returns'[Len(returns) + 1] = job[w]
         /\ \A k \in DOMAIN returns : returns'[k] = returns[k]
<1>1. /\ job[w] \in ReturnRow /\ job[w].sale \in DOMAIN sales
  BY DEF Returns, TypeOK, JobsOK, JobOK
<1>2. Done(w) /\ returns' = Append(returns, job[w]) /\ UNCHANGED <<sales, shifts>>
  BY DEF Returns
<1>3. /\ Len(returns) + 1 \notin DOMAIN returns
      /\ DOMAIN returns' = DOMAIN returns \union {Len(returns) + 1}
      /\ returns'[Len(returns) + 1] = job[w]
      /\ \A k \in DOMAIN returns : returns'[k] = returns[k]
  BY <1>1, <1>2, RowAppended DEF TypeOK, RowsOK
<1>4. RowsKnown'
  BY <1>1, <1>2, <1>3 DEF Known, RowsKnown
<1>5. Known'
  BY <1>2, <1>4, KnownDone
<1> QED
  BY <1>3, <1>5

LEMMA OpensKnown ==
  ASSUME TypeOK, Known, NEW w \in Workers, Opens(w)
  PROVE  Known'
<1>1. job[w] \in ShiftRow
  BY DEF Opens, Known, KnownTo
<1>2. Done(w) /\ shifts' = Append(shifts, job[w]) /\ UNCHANGED <<sales, returns>>
  BY DEF Opens
<1>3. shifts' \in Seq(ShiftRow) /\ DOMAIN shifts \subseteq DOMAIN shifts'
  BY <1>1, <1>2, RowAppended DEF Known, RowsKnown
<1>4. RowsKnown'
  BY <1>2, <1>3 DEF Known, RowsKnown
<1> QED
  BY <1>2, <1>3, <1>4, KnownDone

LEMMA ClosesKnown ==
  ASSUME TypeOK, Known, NEW w \in Workers, NEW s, NEW e, Closes(w, s, e)
  PROVE  Known'
<1>1. /\ Done(w) /\ s \in DOMAIN shifts /\ e \in ShiftRow /\ shifts' = [shifts EXCEPT ![s] = e]
      /\ UNCHANGED <<sales, returns>>
  BY DEF Closes
<1>2. shifts' \in Seq(ShiftRow) /\ DOMAIN shifts' = DOMAIN shifts
  <2>1. s \in 1 .. Len(shifts) /\ shifts \in Seq(ShiftRow)
    BY <1>1, ShiftFacts DEF Known, RowsKnown
  <2> QED
    BY <1>1, <2>1, ExceptSeq
<1>3. RowsKnown'
  BY <1>1, <1>2 DEF Known, RowsKnown
<1> QED
  BY <1>1, <1>2, <1>3, KnownDone

LEMMA NextKnown ==
  ASSUME TypeOK, Safe, JournalsStand, Known, [Next]_vars
  PROVE  Known'
<1>1. CASE \E w \in Workers : RowStep(w)
  BY <1>1, ReadsKnown, SellsKnown, VoidsKnown, ReturnsKnown, OpensKnown, ClosesKnown DEF RowStep
<1>2. CASE UNCHANGED <<sales, returns, shifts, pc, job>>
  BY <1>2 DEF Known, RowsKnown, KnownTo
<1> QED
  BY <1>1, <1>2, RowSteps

--------------------------------------------------------------------------------
(* What the writes do to the figures that the limits are about: open       *)
(* shifts, what a customer owes, what was given back of a line.            *)

LEMMA OpenShiftAdded ==
  ASSUME Known, NEW row \in ShiftRow, row.status = "OPEN", shifts' = Append(shifts, row), NEW r
  PROVE  /\ OpenShifts(r)' = OpenShifts(r) \union
                               (IF row.register = r THEN {Len(shifts) + 1} ELSE {})
         /\ Len(shifts) + 1 \notin OpenShifts(r)
<1>1. /\ Len(shifts) + 1 \notin DOMAIN shifts
      /\ DOMAIN shifts' = DOMAIN shifts \union {Len(shifts) + 1}
      /\ shifts'[Len(shifts) + 1] = row /\ \A s \in DOMAIN shifts : shifts'[s] = shifts[s]
  BY RowAppended DEF Known, RowsKnown
<1> QED
  BY <1>1 DEF OpenShifts

LEMMA OpenShiftClosed ==
  ASSUME NEW w, NEW s, NEW e, Closes(w, s, e), NEW r
  PROVE  OpenShifts(r)' = OpenShifts(r) \ {s}
<1>1. /\ s \in DOMAIN shifts /\ e.status = "CLOSED" /\ shifts' = [shifts EXCEPT ![s] = e]
  BY DEF Closes
<1>2. /\ DOMAIN shifts' = DOMAIN shifts /\ shifts'[s].status = "CLOSED"
      /\ \A x \in DOMAIN shifts \ {s} : shifts'[x] = shifts[x]
  BY <1>1
<1> QED
  BY <1>2 DEF OpenShifts

LEMMA ReturnedType ==
  ASSUME TypeOK, NEW i, NEW p
  PROVE  Returned(i, p) \in Nat
<1> DEFINE R == {k \in ReturnsOf(i) : returns[k].product = p}
           f == [k \in R |-> returns[k].qty]
<1>1. R \subseteq DOMAIN returns
  BY DEF ReturnsOf
<1>2. IsFiniteSet(R) /\ \A k \in R : f[k] \in Nat
  BY <1>1, ReturnsFinite, FS_Subset DEF ReturnRow
<1>3. Returned(i, p) = SumFunction(f) /\ DOMAIN f = R
  BY DEF Returned
<1> HIDE DEF R, f
<1> QED
  BY <1>2, <1>3, TotalType

LEMMA ReturnedMore ==
  ASSUME TypeOK, Known, NEW w \in Workers, Returns(w), NEW i, NEW p
  PROVE  Returned(i, p)' = Returned(i, p) + (IF job[w].sale = i /\ job[w].product = p
                                              THEN job[w].qty ELSE 0)
<1> DEFINE n == Len(returns) + 1
           R == {k \in ReturnsOf(i) : returns[k].product = p}
           f == [k \in R |-> returns[k].qty]
           g == [k \in R' |-> returns'[k].qty]
<1>1. /\ n \notin DOMAIN returns /\ DOMAIN returns' = DOMAIN returns \union {n}
      /\ returns'[n] = job[w] /\ \A k \in DOMAIN returns : returns'[k] = returns[k]
  BY ReturnsKnown
<1>2. job[w].qty \in Nat
  BY DEF Returns, TypeOK, JobsOK, JobOK, ReturnRow
<1> HIDE DEF n
<1>3. R \subseteq DOMAIN returns
  BY DEF ReturnsOf
<1>4. IsFiniteSet(R) /\ \A k \in R : f[k] \in Int
  BY <1>3, ReturnsFinite, FS_Subset DEF ReturnRow
<1>5. /\ Returned(i, p) = SumFunction(f) /\ DOMAIN f = R
      /\ Returned(i, p)' = SumFunction(g) /\ DOMAIN g = R'
  BY DEF Returned
<1>6. R' = R \union (IF job[w].sale = i /\ job[w].product = p THEN {n} ELSE {})
  BY <1>1 DEF ReturnsOf
<1>7. \A k \in R : k \in R' /\ g[k] = f[k]
  BY <1>1, <1>3, <1>6
<1>8. n \in R' => g[n] = job[w].qty
  BY <1>1
<1>9. n \notin R /\ Returned(i, p) \in Nat
  BY <1>1, <1>3, ReturnedType
<1> HIDE DEF R, f, g
<1>10. CASE job[w].sale = i /\ job[w].product = p
  <2>1. DOMAIN g = DOMAIN f \union {n} /\ g[n] = job[w].qty /\ g[n] \in Int
    BY <1>2, <1>5, <1>6, <1>8, <1>10
  <2>2. SumFunction(g) = SumFunction(f) + g[n]
    BY <1>4, <1>5, <1>7, <1>9, <2>1, TotalAdd
  <2> QED
    BY <1>5, <1>10, <2>1, <2>2
<1>11. CASE ~(job[w].sale = i /\ job[w].product = p)
  <2>1. R' = R
    BY <1>6, <1>11
  <2>2. SumFunction(g) = SumFunction(f)
    BY <1>4, <1>5, <1>7, <2>1, TotalSame
  <2> QED
    BY <1>5, <1>9, <1>11, <2>2
<1> QED
  BY <1>10, <1>11

LEMMA NothingReturned ==
  ASSUME NEW i, ReturnsOf(i) = {}, NEW p
  PROVE  Returned(i, p) = 0
<1> DEFINE R == {k \in ReturnsOf(i) : returns[k].product = p}
           f == [k \in R |-> returns[k].qty]
<1>1. R = {} /\ DOMAIN f = R /\ Returned(i, p) = SumFunction(f)
  BY DEF Returned
<1>2. IsFiniteSet(DOMAIN f) /\ DOMAIN f = {}
  BY <1>1, FS_EmptySet
<1> HIDE DEF R, f
<1> QED
  BY <1>1, <1>2, TotalType

LEMMA ReturnedSame ==
  ASSUME UNCHANGED returns, NEW i, NEW p
  PROVE  Returned(i, p)' = Returned(i, p)
BY DEF Returned, ReturnsOf

LEMMA SoldQuantity ==
  ASSUME TypeOK, NEW i \in DOMAIN sales, NEW p \in Products
  PROVE  sales[i].cart[p] \in Nat
BY SaleAmounts DEF Cart

LEMMA RestoredType ==
  ASSUME TypeOK, NEW i, NEW p \in Products
  PROVE  Restored(i, p) \in Nat
<1>1. i \in DOMAIN sales => sales[i].cart[p] \in Nat
  BY SoldQuantity
<1> QED
  BY <1>1, ReturnedType DEF Restored

LEMMA RestoredWhenSold ==
  ASSUME TypeOK, Known, NEW w \in Workers, NEW r, NEW s, NEW e, Sells(w, r, s, e),
         NEW i, NEW p \in Products
  PROVE  Restored(i, p)' = Restored(i, p)
<1>1. /\ Len(sales) + 1 \notin DOMAIN sales
      /\ DOMAIN sales' = DOMAIN sales \union {Len(sales) + 1}
      /\ sales'[Len(sales) + 1] = e /\ \A k \in DOMAIN sales : sales'[k] = sales[k]
  BY SellsKnown
<1>2. e.status = "COMPLETED" /\ UNCHANGED returns
  BY DEF Sells
<1>3. Returned(i, p)' = Returned(i, p) /\ Returned(i, p) \in Nat
  BY <1>2, ReturnedSame, ReturnedType
<1>4. CASE i \in DOMAIN sales
  BY <1>1, <1>3, <1>4 DEF Restored
<1>5. CASE i = Len(sales) + 1
  <2>1. ReturnsOf(i) = {}
    BY <1>1, <1>5 DEF ReturnsOf, Known, RowsKnown
  <2>2. Returned(i, p) = 0
    BY <2>1, NothingReturned
  <2>3. Restored(i, p)' = Returned(i, p)' + 0
    BY <1>1, <1>2, <1>5 DEF Restored
  <2>4. Restored(i, p) = 0
    BY <1>1, <1>5 DEF Restored
  <2> QED
    BY <1>3, <2>2, <2>3, <2>4
<1>6. CASE i \notin DOMAIN sales'
  BY <1>1, <1>6 DEF Restored
<1> QED
  BY <1>1, <1>4, <1>5, <1>6

LEMMA RestoredWhenVoided ==
  ASSUME TypeOK, NEW w, NEW k, NEW e, Voids(w, k, e), NEW i, NEW p \in Products
  PROVE  Restored(i, p)' = Restored(i, p) + (IF i = k THEN sales[k].cart[p] ELSE 0)
<1>1. /\ k \in DOMAIN sales /\ sales' = [sales EXCEPT ![k] = e] /\ UNCHANGED returns
      /\ sales[k].status = "COMPLETED" /\ e.status = "VOIDED" /\ e.cart = sales[k].cart
  BY DEF Voids
<1>2. /\ DOMAIN sales' = DOMAIN sales /\ sales'[k] = e
      /\ \A x \in DOMAIN sales \ {k} : sales'[x] = sales[x]
  BY <1>1
<1>3. Returned(i, p)' = Returned(i, p) /\ Returned(i, p) \in Nat
  BY <1>1, ReturnedSame, ReturnedType
<1>4. sales[k].cart[p] \in Nat /\ Restored(i, p) \in Nat
  BY <1>1, SoldQuantity, RestoredType
<1>5. CASE i = k
  BY <1>1, <1>2, <1>3, <1>4, <1>5 DEF Restored
<1>6. CASE i # k
  <2>1. Restored(i, p)' = Restored(i, p)
    BY <1>2, <1>3, <1>6 DEF Restored
  <2> QED
    BY <1>4, <1>6, <2>1
<1> QED
  BY <1>5, <1>6

LEMMA RestoredWhenReturned ==
  ASSUME TypeOK, Known, NEW w \in Workers, Returns(w), NEW i, NEW p \in Products
  PROVE  Restored(i, p)' = Restored(i, p) + (IF job[w].sale = i /\ job[w].product = p
                                              THEN job[w].qty ELSE 0)
<1>1. job[w].sale \in DOMAIN sales /\ job[w].qty \in Nat /\ UNCHANGED sales
  BY DEF Returns, TypeOK, JobsOK, JobOK, ReturnRow
<1>2. Returned(i, p)' = Returned(i, p) + (IF job[w].sale = i /\ job[w].product = p
                                           THEN job[w].qty ELSE 0)
  BY ReturnedMore
<1>3. Returned(i, p) \in Nat
  BY ReturnedType
<1>4. CASE i \in DOMAIN sales
  <2>1. sales[i].cart[p] \in Nat
    BY <1>4, SoldQuantity
  <2> QED
    BY <1>1, <1>2, <1>3, <1>4, <2>1 DEF Restored
<1>5. CASE i \notin DOMAIN sales
  BY <1>1, <1>5 DEF Restored
<1> QED
  BY <1>4, <1>5

(* Steps that leave the rows alone leave the figures alone.                *)
LEMMA FiguresStay ==
  ASSUME RowsStay
  PROVE  /\ \A c : Exposure(c)' = Exposure(c)
         /\ \A i, p : Restored(i, p)' = Restored(i, p)
         /\ \A r : OpenShifts(r)' = OpenShifts(r)
BY DEF RowsStay, Exposure, Completed, SalesOf, Restored, Returned, ReturnsOf, OpenShifts

--------------------------------------------------------------------------------
(* One request at a time: what it has read is still so when it writes.     *)

OneAtATime == \A v, w \in Workers : v = w

StillSo(label, j) ==
  /\ label \in {"priced", "cleared", "locked"} /\ j.shift = 0 => NoOpenShift(j.req.register)
  /\ label \in {"cleared", "locked"} => CreditFits(j.req)
  /\ label = "opening" => NoOpenShift(j.register)
  /\ label = "returning" =>
       sales[j.sale].status = "COMPLETED" /\ LeftToReturn(j.sale, j.product, j.qty)
  /\ label \in {"voiding", "reversing"} =>
       sales[j.sale].status = "COMPLETED" /\ ReturnsOf(j.sale) = {}

LimitsInv == LimitsKept /\ \A v \in Workers : StillSo(pc[v], job[v])

LEMMA OnlyOne ==
  ASSUME OneAtATime, TypeOK, NEW w \in Workers, NEW label, NEW j, Turn(w, label, j),
         StillSo(label, j)', LimitsKept'
  PROVE  LimitsInv'
<1> SUFFICES ASSUME NEW v \in Workers PROVE StillSo(pc[v], job[v])'
  BY DEF LimitsInv
<1>1. v = w /\ pc'[v] = label /\ job'[v] = j
  BY DEF OneAtATime, Turn, TypeOK, JobsOK
<1> QED
  BY <1>1 DEF StillSo

LEMMA OnlyOneDone ==
  ASSUME OneAtATime, TypeOK, NEW w \in Workers, Done(w), LimitsKept'
  PROVE  LimitsInv'
<1>1. StillSo("idle", None)'
  BY DEF StillSo
<1> QED
  BY <1>1, OnlyOne DEF Done

LEMMA LimitsRead ==
  ASSUME OneAtATime, TypeOK, Known, LimitsInv,
         NEW w \in Workers, NEW label, NEW j, Reads(w, label, j)
  PROVE  LimitsInv'
<1>1. RowsStay /\ Turn(w, label, j)
  BY DEF Reads
<1>2. LimitsKept'
  BY <1>1, FiguresStay DEF LimitsInv, LimitsKept, RowsStay
<1>3. StillSo(pc[w], job[w])
  BY DEF LimitsInv
<1>4. StillSo(label, j)
  <2>1. CASE label = "idle"
    BY <2>1 DEF StillSo
  <2>2. CASE pc[w] = "idle" /\ Finds(label, j)
    <3>1. 0 \notin DOMAIN shifts => StillSo(label, j)
      BY <2>2 DEF Finds, StillSo
    <3> QED
      BY <3>1, ShiftFacts
  <2>3. CASE Advances(w, label, j)
    BY <1>3, <2>3 DEF Advances, StillSo
  <2> QED
    BY <2>1, <2>2, <2>3 DEF Reads
<1>5. StillSo(label, j)'
  BY <1>1, <1>4, FiguresStay
     DEF StillSo, RowsStay, NoOpenShift, CreditFits, LeftToReturn, ReturnsOf, Returned
<1> QED
  BY <1>1, <1>2, <1>5, OnlyOne

LEMMA AtMostOne ==
  ASSUME NEW S, NEW x, S = {} \/ S = {x}
  PROVE  Cardinality(S) <= 1
<1>1. Cardinality(S) = 0 \/ Cardinality(S) = 1
  BY FS_EmptySet, FS_Singleton
<1> QED
  BY <1>1

LEMMA FewerStill ==
  ASSUME Known, NEW r, Cardinality(OpenShifts(r)) <= 1, NEW s
  PROVE  Cardinality(OpenShifts(r) \ {s}) <= 1
<1>1. IsFiniteSet(OpenShifts(r))
  <2>1. OpenShifts(r) \subseteq 1 .. Len(shifts) /\ IsFiniteSet(1 .. Len(shifts))
    BY ShiftFacts, FS_Interval DEF OpenShifts
  <2> QED
    BY <2>1, FS_Subset
<1>2. /\ Cardinality(OpenShifts(r) \ {s}) <= Cardinality(OpenShifts(r))
      /\ Cardinality(OpenShifts(r)) \in Nat /\ Cardinality(OpenShifts(r) \ {s}) \in Nat
  <2>1. OpenShifts(r) \ {s} \subseteq OpenShifts(r)
    OBVIOUS
  <2> QED
    BY <1>1, <2>1, FS_Subset, FS_CardinalityType
<1> QED
  BY <1>2

LEMMA LimitsSold ==
  ASSUME OneAtATime, TypeOK, Known, LimitsInv,
         NEW w \in Workers, NEW r, NEW s, NEW e, Sells(w, r, s, e)
  PROVE  LimitsInv'
<1>1. /\ pc[w] = "locked" /\ Done(w) /\ r = job[w].req /\ r \in Checkouts
      /\ e \in Sale /\ e.status = "COMPLETED" /\ sales' = Append(sales, e)
      /\ e.cart = r.cart /\ e.customer = r.customer /\ e.credit = r.credit
      /\ UNCHANGED returns
  BY DEF Sells
<1>2. /\ CreditFits(r) /\ LimitsKept
      /\ job[w].shift = 0 => NoOpenShift(r.register)
  BY <1>1 DEF LimitsInv, StillSo
<1>3. r \in Checkout
  BY <1>1, PosAssumption
<1>4. ASSUME NEW c \in Customers PROVE Exposure(c)' <= CreditLimit[c]
  <2>1. Exposure(c)' = Exposure(c) + (IF c = e.customer THEN e.credit ELSE 0)
    BY <1>1, SoldExposure
  <2>2. Exposure(c) <= CreditLimit[c] /\ Exposure(c) \in Int /\ CreditLimit[c] \in Nat
    BY <1>2, ExposureType, PosAssumption DEF LimitsKept
  <2>3. r.credit \in Nat
    BY <1>3 DEF Checkout
  <2>4. CASE c = r.customer /\ r.credit > 0
    BY <1>1, <1>2, <2>1, <2>2, <2>4 DEF CreditFits
  <2>5. CASE ~(c = r.customer /\ r.credit > 0)
    BY <1>1, <2>1, <2>2, <2>3, <2>5
  <2> QED
    BY <2>4, <2>5
<1>5. ASSUME NEW i \in DOMAIN sales', NEW p \in Products
      PROVE  Restored(i, p)' <= sales'[i].cart[p]
  <2>1. Restored(i, p)' = Restored(i, p)
    BY RestoredWhenSold
  <2>2. /\ DOMAIN sales' = DOMAIN sales \union {Len(sales) + 1}
        /\ Len(sales) + 1 \notin DOMAIN sales
        /\ sales'[Len(sales) + 1] = e /\ \A k \in DOMAIN sales : sales'[k] = sales[k]
    BY SellsKnown
  <2>3. CASE i \in DOMAIN sales
    BY <1>2, <2>1, <2>2, <2>3 DEF LimitsKept
  <2>4. CASE i = Len(sales) + 1
    <3>1. Restored(i, p) = 0
      BY <2>2, <2>4 DEF Restored
    <3>2. e.cart[p] \in Nat
      BY <1>1 DEF Sale, Cart
    <3> QED
      BY <2>1, <2>2, <2>4, <3>1, <3>2
  <2> QED
    BY <2>2, <2>3, <2>4
<1>6. ASSUME NEW q \in Registers PROVE Cardinality(OpenShifts(q)') <= 1
  <2>1. CASE job[w].shift # 0
    <3>1. shifts' = shifts
      BY <2>1 DEF Sells
    <3>2. OpenShifts(q)' = OpenShifts(q)
      BY <3>1 DEF OpenShifts
    <3> QED
      BY <1>2, <3>2 DEF LimitsKept
  <2>2. CASE job[w].shift = 0
    <3>1. PICK row : row = [register |-> r.register, cashier |-> r.cashier,
                            opening |-> 0, status |-> "OPEN", expected |-> 0]
      OBVIOUS
    <3>2. row \in ShiftRow /\ row.status = "OPEN" /\ row.register = r.register
      BY <1>3, <3>1 DEF ShiftRow, Checkout
    <3>3. shifts' = Append(shifts, row)
      BY <2>2, <3>1, <1>1 DEF Sells
    <3>4. OpenShifts(q)' = OpenShifts(q) \union
                             (IF row.register = q THEN {Len(shifts) + 1} ELSE {})
      BY <3>2, <3>3, OpenShiftAdded
    <3>5. CASE q = r.register
      <4>1. OpenShifts(q) = {}
        BY <1>2, <2>2, <3>5 DEF NoOpenShift
      <4>2. OpenShifts(q)' = {Len(shifts) + 1}
        BY <3>2, <3>4, <3>5, <4>1
      <4> QED
        BY <4>2, AtMostOne
    <3>6. CASE q # r.register
      <4>1. OpenShifts(q)' = OpenShifts(q)
        BY <3>2, <3>4, <3>6
      <4> QED
        BY <1>2, <4>1 DEF LimitsKept
    <3> QED
      BY <3>5, <3>6
  <2> QED
    BY <2>1, <2>2
<1>7. LimitsKept'
  BY <1>4, <1>5, <1>6 DEF LimitsKept
<1> QED
  BY <1>1, <1>7, OnlyOneDone

LEMMA LimitsVoided ==
  ASSUME OneAtATime, TypeOK, LimitsInv, NEW w \in Workers, NEW i, NEW e, Voids(w, i, e)
  PROVE  LimitsInv'
<1>1. /\ pc[w] = "reversing" /\ Done(w) /\ i = job[w].sale /\ i \in DOMAIN sales
      /\ sales[i].status = "COMPLETED" /\ e.status = "VOIDED" /\ e.cart = sales[i].cart
      /\ e.credit = sales[i].credit /\ e.customer = sales[i].customer
      /\ sales' = [sales EXCEPT ![i] = e] /\ UNCHANGED <<shifts, returns>>
  BY DEF Voids
<1>2. /\ DOMAIN sales' = DOMAIN sales /\ sales'[i] = e
      /\ \A x \in DOMAIN sales \ {i} : sales'[x] = sales[x]
  BY <1>1
<1>3. LimitsKept /\ ReturnsOf(i) = {}
  BY <1>1 DEF LimitsInv, StillSo
<1>4. ASSUME NEW c \in Customers PROVE Exposure(c)' <= CreditLimit[c]
  <2>1. Exposure(c)' = Exposure(c) - (IF c = e.customer THEN e.credit ELSE 0)
    BY <1>1, VoidedExposure
  <2>2. Exposure(c) <= CreditLimit[c] /\ Exposure(c) \in Int /\ CreditLimit[c] \in Nat
    BY <1>3, ExposureType, PosAssumption DEF LimitsKept
  <2>3. e.credit \in Nat
    BY <1>1, SaleAmounts
  <2> QED
    BY <2>1, <2>2, <2>3
<1>5. ASSUME NEW k \in DOMAIN sales', NEW p \in Products
      PROVE  Restored(k, p)' <= sales'[k].cart[p]
  <2>1. Restored(k, p)' = Restored(k, p) + (IF k = i THEN sales[i].cart[p] ELSE 0)
    BY RestoredWhenVoided
  <2>2. k \in DOMAIN sales /\ sales'[k].cart = sales[k].cart /\ sales[k].cart[p] \in Nat
    BY <1>1, <1>2, SoldQuantity
  <2>3. CASE k = i
    <3>1. Returned(i, p) = 0
      BY <1>3, NothingReturned
    <3>2. Restored(i, p) = 0
      BY <1>1, <3>1 DEF Restored
    <3> QED
      BY <2>1, <2>2, <2>3, <3>2
  <2>4. CASE k # i
    <3>1. Restored(k, p) <= sales[k].cart[p] /\ Restored(k, p) \in Nat
      BY <1>3, <2>2, RestoredType DEF LimitsKept
    <3> QED
      BY <2>1, <2>2, <2>4, <3>1
  <2> QED
    BY <2>3, <2>4
<1>6. ASSUME NEW q \in Registers PROVE Cardinality(OpenShifts(q)') <= 1
  <2>1. OpenShifts(q)' = OpenShifts(q)
    BY <1>1 DEF OpenShifts
  <2> QED
    BY <1>3, <2>1 DEF LimitsKept
<1>7. LimitsKept'
  BY <1>4, <1>5, <1>6 DEF LimitsKept
<1> QED
  BY <1>1, <1>7, OnlyOneDone

LEMMA LimitsReturned ==
  ASSUME OneAtATime, TypeOK, Known, LimitsInv, NEW w \in Workers, Returns(w)
  PROVE  LimitsInv'
<1>1. /\ pc[w] = "returning" /\ Done(w) /\ UNCHANGED <<sales, shifts>>
  BY DEF Returns
<1>2. /\ job[w].sale \in DOMAIN sales /\ job[w].product \in Products /\ job[w].qty \in Nat
  BY <1>1 DEF TypeOK, JobsOK, JobOK, ReturnRow
<1>3. /\ LimitsKept /\ sales[job[w].sale].status = "COMPLETED"
      /\ LeftToReturn(job[w].sale, job[w].product, job[w].qty)
  BY <1>1 DEF LimitsInv, StillSo
<1>4. \A c \in Customers : Exposure(c)' <= CreditLimit[c]
  BY <1>1, <1>3 DEF LimitsKept, Exposure, Completed, SalesOf
<1>5. ASSUME NEW i \in DOMAIN sales', NEW p \in Products
      PROVE  Restored(i, p)' <= sales'[i].cart[p]
  <2>1. Restored(i, p)' = Restored(i, p) + (IF job[w].sale = i /\ job[w].product = p
                                             THEN job[w].qty ELSE 0)
    BY RestoredWhenReturned
  <2>2. i \in DOMAIN sales /\ sales'[i] = sales[i] /\ sales[i].cart[p] \in Nat
        /\ Restored(i, p) \in Nat /\ Restored(i, p) <= sales[i].cart[p]
        /\ Returned(i, p) \in Nat
    BY <1>1, <1>3, SoldQuantity, RestoredType, ReturnedType DEF LimitsKept
  <2>3. CASE job[w].sale = i /\ job[w].product = p
    <3>1. Restored(i, p) = Returned(i, p)
      BY <1>3, <2>2, <2>3 DEF Restored
    <3>2. Returned(i, p) + job[w].qty <= sales[i].cart[p]
      BY <1>3, <2>3 DEF LeftToReturn
    <3> QED
      BY <2>1, <2>2, <2>3, <3>1, <3>2
  <2>4. CASE ~(job[w].sale = i /\ job[w].product = p)
    BY <2>1, <2>2, <2>4
  <2> QED
    BY <2>3, <2>4
<1>6. \A q \in Registers : Cardinality(OpenShifts(q)') <= 1
  <2>1. \A q : OpenShifts(q)' = OpenShifts(q)
    BY <1>1 DEF OpenShifts
  <2> QED
    BY <1>3, <2>1 DEF LimitsKept
<1>7. LimitsKept'
  BY <1>4, <1>5, <1>6 DEF LimitsKept
<1> QED
  BY <1>1, <1>7, OnlyOneDone

LEMMA LimitsShifts ==
  ASSUME OneAtATime, TypeOK, Known, LimitsInv, NEW w \in Workers,
         Opens(w) \/ \E s, e : Closes(w, s, e)
  PROVE  LimitsInv'
<1>1. Done(w) /\ UNCHANGED <<sales, returns>> /\ LimitsKept
  BY DEF Opens, Closes, LimitsInv
<1>2. ASSUME NEW q \in Registers PROVE Cardinality(OpenShifts(q)') <= 1
  <2>1. Cardinality(OpenShifts(q)) <= 1
    BY <1>1 DEF LimitsKept
  <2>2. CASE Opens(w)
    <3>1. /\ job[w] \in ShiftRow /\ job[w].status = "OPEN" /\ shifts' = Append(shifts, job[w])
          /\ NoOpenShift(job[w].register)
      BY <2>2 DEF Opens, Known, KnownTo, LimitsInv, StillSo
    <3>2. OpenShifts(q)' = OpenShifts(q) \union
                             (IF job[w].register = q THEN {Len(shifts) + 1} ELSE {})
      BY <3>1, OpenShiftAdded
    <3>3. CASE job[w].register = q
      <4>1. OpenShifts(q)' = {Len(shifts) + 1}
        BY <3>1, <3>2, <3>3 DEF NoOpenShift
      <4> QED
        BY <4>1, AtMostOne
    <3>4. CASE job[w].register # q
      <4>1. OpenShifts(q)' = OpenShifts(q)
        BY <3>2, <3>4
      <4> QED
        BY <2>1, <4>1
    <3> QED
      BY <3>3, <3>4
  <2>3. CASE \E s, e : Closes(w, s, e)
    <3>1. PICK s, e : Closes(w, s, e)
      BY <2>3
    <3>2. OpenShifts(q)' = OpenShifts(q) \ {s}
      BY <3>1, OpenShiftClosed
    <3> QED
      BY <2>1, <3>2, FewerStill
  <2> QED
    BY <2>2, <2>3
<1>3. \A c \in Customers : Exposure(c)' <= CreditLimit[c]
  BY <1>1 DEF LimitsKept, Exposure, Completed, SalesOf
<1>4. \A i \in DOMAIN sales', p \in Products : Restored(i, p)' <= sales'[i].cart[p]
  BY <1>1 DEF LimitsKept, Restored, Returned, ReturnsOf
<1>5. LimitsKept'
  BY <1>2, <1>3, <1>4 DEF LimitsKept
<1> QED
  BY <1>1, <1>5, OnlyOneDone

LEMMA LimitsStutter ==
  ASSUME LimitsInv, UNCHANGED <<sales, returns, shifts, pc, job>>
  PROVE  LimitsInv'
<1>1. RowsStay
  BY DEF RowsStay
<1>2. LimitsKept'
  BY <1>1, FiguresStay DEF LimitsInv, LimitsKept
<1>3. ASSUME NEW v \in Workers PROVE StillSo(pc[v], job[v])'
  <2>1. StillSo(pc[v], job[v])
    BY DEF LimitsInv
  <2> QED
    BY <1>1, <2>1, FiguresStay
       DEF StillSo, NoOpenShift, CreditFits, LeftToReturn, ReturnsOf, Returned
<1> QED
  BY <1>2, <1>3 DEF LimitsInv

LEMMA NextLimits ==
  ASSUME OneAtATime, TypeOK, Safe, JournalsStand, Known, LimitsInv, [Next]_vars
  PROVE  LimitsInv'
<1>1. CASE \E w \in Workers : RowStep(w)
  BY <1>1, LimitsRead, LimitsSold, LimitsVoided, LimitsReturned, LimitsShifts DEF RowStep
<1> QED
  BY <1>1, LimitsStutter, RowSteps

LEMMA InitKnown == Init => Known
<1> SUFFICES ASSUME Init PROVE Known
  OBVIOUS
<1>1. shifts = << >> /\ sales = << >> /\ returns = << >> /\ pc = [w \in Workers |-> "idle"]
  BY DEF Init
<1>2. << >> \in Seq(ShiftRow) /\ DOMAIN << >> = {}
  BY EmptySeq
<1>3. RowsKnown
  BY <1>1, <1>2 DEF RowsKnown
<1> QED
  BY <1>1, <1>3 DEF Known, KnownTo

LEMMA InitFigures ==
  ASSUME Init, TypeOK
  PROVE  /\ \A c : Exposure(c) = 0
         /\ \A i, p : Restored(i, p) = 0
         /\ \A r : OpenShifts(r) = {}
<1>1. shifts = << >> /\ sales = << >> /\ returns = << >>
  BY DEF Init
<1>2. ASSUME NEW c PROVE Exposure(c) = 0
  <2> DEFINE S == Completed(SalesOf(c))
             f == [i \in S |-> sales[i].credit]
  <2>1. DOMAIN f = {} /\ Exposure(c) = SumFunction(f)
    BY <1>1 DEF Exposure, Completed, SalesOf
  <2> HIDE DEF f
  <2> QED
    BY <2>1, FS_EmptySet, TotalType
<1>3. ASSUME NEW i, NEW p PROVE Restored(i, p) = 0
  BY <1>1 DEF Restored
<1>4. ASSUME NEW r PROVE OpenShifts(r) = {}
  BY <1>1 DEF OpenShifts
<1> QED
  BY <1>2, <1>3, <1>4

(* What is known of the rows holds in every state, whatever interleaves.   *)
LEMMA KnownAlways == Spec => []Known
<1>1. BooksInv /\ Known /\ [Next]_vars => Known'
  BY NextKnown DEF BooksInv, PosInv, Safe
<1> QED
  BY <1>1, InitKnown, BooksInvariant, PTL DEF Spec

LEMMA LimitsInvariant ==
  ASSUME OneAtATime
  PROVE  Spec => []LimitsInv
<1>1. Init => LimitsInv
  <2> SUFFICES ASSUME Init PROVE LimitsInv
    OBVIOUS
  <2>1. TypeOK
    BY InitInv
  <2>2. LimitsKept
    <3>1. \A c \in Customers : Exposure(c) <= CreditLimit[c]
      BY <2>1, InitFigures, PosAssumption
    <3>2. DOMAIN sales = {}
      BY DEF Init
    <3>3. \A r \in Registers : Cardinality(OpenShifts(r)) <= 1
      BY <2>1, InitFigures, AtMostOne
    <3> QED
      BY <3>1, <3>2, <3>3 DEF LimitsKept
  <2>3. \A v \in Workers : pc[v] = "idle"
    BY DEF Init
  <2> QED
    BY <2>2, <2>3 DEF LimitsInv, StillSo
<1>2. BooksInv /\ Known /\ LimitsInv /\ [Next]_vars => LimitsInv'
  BY OneAtATime, NextLimits DEF BooksInv, PosInv, Safe
<1> QED
  BY <1>1, <1>2, BooksInvariant, KnownAlways, PTL DEF Spec

(* With one request at a time every limit is kept as it is written: credit *)
(* exposure, the quantity a line gives back, one open shift a register.    *)
(* The request in flight finds at its commit what it has read.             *)
THEOREM LimitsAreKept ==
  ASSUME OneAtATime
  PROVE  Spec => []LimitsKept
<1>1. Spec => []LimitsInv
  BY OneAtATime, LimitsInvariant
<1>2. LimitsInv => LimitsKept
  BY DEF LimitsInv
<1> QED
  BY <1>1, <1>2, PTL

--------------------------------------------------------------------------------
(* The refinement of CheckThenAct.  A step of it as a relation of what is  *)
(* used, u before and v after, and of what is pending, p before and q      *)
(* after.                                                                  *)

QuotaStep(limit, u, v, p, q) ==
  \/ v = u /\ q = p
  \/ \E w \in Workers, k \in 1 .. limit :
       p[w] = 0 /\ u + k <= limit /\ q = [p EXCEPT ![w] = k] /\ v = u
  \/ \E w \in Workers : p[w] > 0 /\ (v = u \/ v = u + p[w]) /\ q = [p EXCEPT ![w] = 0]
  \/ \E k \in 1 .. u : v = u - k /\ q = p

(* The claim of one request goes from x to y.                              *)
ClaimStep(limit, u, v, x, y) ==
  \/ v = u /\ y = x
  \/ v = u /\ x = 0 /\ y \in Nat /\ u + y <= limit
  \/ y = 0 /\ (v = u \/ v = u + x)
  \/ y = x /\ \E k \in 0 .. u : v = u - k

Claiming(p) == p = [w \in Workers |-> p[w]] /\ \A w \in Workers : p[w] \in Nat

LEMMA ClaimMoves ==
  ASSUME NEW limit \in Nat, NEW u \in Nat, NEW v, NEW p, NEW q, Claiming(p),
         NEW w \in Workers, NEW y, q = [p EXCEPT ![w] = y], ClaimStep(limit, u, v, p[w], y)
  PROVE  QuotaStep(limit, u, v, p, q)
<1>1. p[w] \in Nat /\ p = [x \in Workers |-> p[x]]
  BY DEF Claiming
<1>2. y = p[w] => q = p
  BY <1>1
<1>3. CASE v = u /\ y = p[w]
  BY <1>2, <1>3 DEF QuotaStep
<1>4. CASE v = u /\ p[w] = 0 /\ y \in Nat /\ u + y <= limit
  <2>1. CASE y = 0
    BY <1>2, <1>4, <2>1 DEF QuotaStep
  <2>2. CASE y > 0
    <3>1. y \in 1 .. limit
      BY <1>4, <2>2
    <3> QED
      BY <1>4, <3>1 DEF QuotaStep
  <2> QED
    BY <1>4, <2>1, <2>2
<1>5. CASE y = 0 /\ (v = u \/ v = u + p[w])
  <2>1. CASE p[w] = 0
    BY <1>2, <1>5, <2>1 DEF QuotaStep
  <2>2. CASE p[w] > 0
    BY <1>5, <2>2 DEF QuotaStep
  <2> QED
    BY <1>1, <2>1, <2>2
<1>6. CASE y = p[w] /\ \E k \in 0 .. u : v = u - k
  <2>1. PICK k \in 0 .. u : v = u - k
    BY <1>6
  <2>2. CASE k = 0
    BY <1>2, <1>6, <2>1, <2>2 DEF QuotaStep
  <2>3. CASE k > 0
    <3>1. k \in 1 .. u
      BY <2>1, <2>3
    <3> QED
      BY <1>2, <1>6, <2>1, <3>1 DEF QuotaStep
  <2> QED
    BY <2>1, <2>2, <2>3
<1> QED
  BY <1>3, <1>4, <1>5, <1>6 DEF ClaimStep

--------------------------------------------------------------------------------
(* What a customer owes implements it, with the credit limit as the limit. *)

Credit(c) == INSTANCE CheckThenAct WITH
  Limit <- CreditLimit[c], used <- Exposure(c), pend <- CreditInFlight(c)

CreditClaim(c, label, j) ==
  IF label \in {"cleared", "locked"} /\ j.req.customer = c THEN j.req.credit ELSE 0

LEMMA ExposureNat ==
  ASSUME TypeOK, NEW c
  PROVE  Exposure(c) \in Nat
<1> DEFINE S == Completed(SalesOf(c))
           f == [i \in S |-> sales[i].credit]
<1>1. S \subseteq DOMAIN sales
  BY DEF Completed, SalesOf
<1>2. \A i \in S : f[i] \in Nat
  BY <1>1, SaleAmounts
<1>3. Exposure(c) = SumFunction(f) /\ DOMAIN f = S /\ IsFiniteSet(S)
  BY SalesFinite DEF Exposure
<1> HIDE DEF S, f
<1> QED
  BY <1>2, <1>3, TotalType

LEMMA StillOwed ==
  ASSUME TypeOK, NEW w, NEW i, NEW e, Voids(w, i, e), NEW c
  PROVE  Exposure(c)' \in Nat
<1> DEFINE S == Completed(SalesOf(c))
           g == [k \in S' |-> sales'[k].credit]
<1>1. /\ i \in DOMAIN sales /\ sales' = [sales EXCEPT ![i] = e]
      /\ e.credit = sales[i].credit
  BY DEF Voids
<1>2. DOMAIN sales' = DOMAIN sales /\ \A k \in DOMAIN sales : sales'[k].credit = sales[k].credit
  BY <1>1
<1>3. S' \subseteq DOMAIN sales
  BY <1>2 DEF Completed, SalesOf
<1>4. \A k \in S' : g[k] \in Nat
  BY <1>2, <1>3, SaleAmounts
<1>5. Exposure(c)' = SumFunction(g) /\ DOMAIN g = S' /\ IsFiniteSet(S')
  BY <1>3, SalesFinite, FS_Subset DEF Exposure
<1> HIDE DEF S, g
<1> QED
  BY <1>4, <1>5, TotalType

LEMMA CreditClaims ==
  ASSUME TypeOK, NEW c
  PROVE  /\ Claiming(CreditInFlight(c))
         /\ \A w \in Workers : CreditInFlight(c)[w] = CreditClaim(c, pc[w], job[w])
<1>1. ASSUME NEW w \in Workers PROVE CreditClaim(c, pc[w], job[w]) \in Nat
  <2>1. pc[w] \in {"cleared", "locked"} => job[w].req \in Checkout
    BY PosAssumption DEF TypeOK, JobsOK, JobOK, CompleteJob
  <2> QED
    BY <2>1 DEF CreditClaim, Checkout
<1>2. CreditInFlight(c) = [w \in Workers |-> CreditClaim(c, pc[w], job[w])]
  BY DEF CreditInFlight, CreditClaim
<1> QED
  BY <1>1, <1>2 DEF Claiming

LEMMA CreditTurn ==
  ASSUME TypeOK, NEW c, NEW w \in Workers, NEW label, NEW j, Turn(w, label, j)
  PROVE  CreditInFlight(c)' = [CreditInFlight(c) EXCEPT ![w] = CreditClaim(c, label, j)]
BY DEF Turn, TypeOK, JobsOK, CreditInFlight, CreditClaim

LEMMA CreditMoves ==
  ASSUME TypeOK, NEW c \in Customers, NEW w \in Workers, NEW label, NEW j, Turn(w, label, j),
         ClaimStep(CreditLimit[c], Exposure(c), Exposure(c)',
                   CreditClaim(c, pc[w], job[w]), CreditClaim(c, label, j))
  PROVE  QuotaStep(CreditLimit[c], Exposure(c), Exposure(c)',
                   CreditInFlight(c), CreditInFlight(c)')
<1>1. PICK p, q, u, v, y, limit :
        /\ p = CreditInFlight(c) /\ q = CreditInFlight(c)'
        /\ u = Exposure(c) /\ v = Exposure(c)' /\ y = CreditClaim(c, label, j)
        /\ limit = CreditLimit[c]
  OBVIOUS
<1>2. /\ limit \in Nat /\ u \in Nat /\ Claiming(p) /\ q = [p EXCEPT ![w] = y]
      /\ ClaimStep(limit, u, v, p[w], y)
  BY <1>1, PosAssumption, ExposureNat, CreditClaims, CreditTurn
<1>3. QuotaStep(limit, u, v, p, q)
  BY <1>2, ClaimMoves
<1> QED
  BY <1>1, <1>3

LEMMA CreditRead ==
  ASSUME TypeOK, NEW c \in Customers, NEW w \in Workers, NEW label, NEW j, Reads(w, label, j)
  PROVE  QuotaStep(CreditLimit[c], Exposure(c), Exposure(c)',
                   CreditInFlight(c), CreditInFlight(c)')
<1>1. Turn(w, label, j) /\ Exposure(c)' = Exposure(c)
  BY FiguresStay DEF Reads
<1> DEFINE x == CreditClaim(c, pc[w], job[w])
           y == CreditClaim(c, label, j)
<1>2. y = x \/ y = 0 \/ (x = 0 /\ y \in Nat /\ Exposure(c) + y <= CreditLimit[c])
  <2>1. CASE label \notin {"cleared", "locked"}
    BY <2>1 DEF CreditClaim
  <2>2. CASE label = "cleared"
    <3>1. pc[w] = "priced" /\ j = job[w] /\ CreditFits(j.req)
      BY <2>2 DEF Reads, Finds, Advances
    <3>2. j.req.credit \in Nat /\ Exposure(c) \in Nat
      <4>1. j.req \in Checkout
        BY <3>1, PosAssumption DEF TypeOK, JobsOK, JobOK, CompleteJob
      <4> QED
        BY <4>1, ExposureNat DEF Checkout
    <3> QED
      BY <2>2, <3>1, <3>2 DEF CreditClaim, CreditFits
  <2>3. CASE label = "locked"
    BY <2>3 DEF Reads, Finds, Advances, CreditClaim
  <2> QED
    BY <2>1, <2>2, <2>3
<1>3. ClaimStep(CreditLimit[c], Exposure(c), Exposure(c)', x, y)
  <2> HIDE DEF x, y
  <2> QED
    BY <1>1, <1>2 DEF ClaimStep
<1> QED
  BY <1>1, <1>3, CreditMoves

(* The request ends, and with it its claim.                                *)
LEMMA CreditEnds ==
  ASSUME TypeOK, NEW c \in Customers, NEW w \in Workers, Done(w),
         \/ Exposure(c)' = Exposure(c)
         \/ Exposure(c)' = Exposure(c) + CreditClaim(c, pc[w], job[w])
         \/ /\ CreditClaim(c, pc[w], job[w]) = 0
            /\ \E k \in 0 .. Exposure(c) : Exposure(c)' = Exposure(c) - k
  PROVE  QuotaStep(CreditLimit[c], Exposure(c), Exposure(c)',
                   CreditInFlight(c), CreditInFlight(c)')
<1>1. Turn(w, "idle", None) /\ CreditClaim(c, "idle", None) = 0
  BY DEF Done, CreditClaim
<1>2. ClaimStep(CreditLimit[c], Exposure(c), Exposure(c)',
                CreditClaim(c, pc[w], job[w]), CreditClaim(c, "idle", None))
  BY <1>1 DEF ClaimStep
<1> QED
  BY <1>1, <1>2, CreditMoves

LEMMA CreditNext ==
  ASSUME TypeOK, Safe, JournalsStand, Known, [Next]_vars, NEW c \in Customers
  PROVE  QuotaStep(CreditLimit[c], Exposure(c), Exposure(c)',
                   CreditInFlight(c), CreditInFlight(c)')
<1> DEFINE Goal == QuotaStep(CreditLimit[c], Exposure(c), Exposure(c)',
                             CreditInFlight(c), CreditInFlight(c)')
<1> SUFFICES Goal
  OBVIOUS
<1>1. ASSUME NEW w \in Workers, NEW r, NEW s, NEW e, Sells(w, r, s, e) PROVE Goal
  <2>1. /\ pc[w] = "locked" /\ Done(w) /\ r = job[w].req /\ e \in Sale
        /\ e.status = "COMPLETED" /\ sales' = Append(sales, e)
        /\ e.customer = r.customer /\ e.credit = r.credit
    BY <1>1 DEF Sells
  <2>2. Exposure(c)' = Exposure(c) + (IF c = e.customer THEN e.credit ELSE 0)
    BY <2>1, SoldExposure
  <2>3. CreditClaim(c, pc[w], job[w]) = IF c = e.customer THEN e.credit ELSE 0
    BY <2>1 DEF CreditClaim
  <2> QED
    BY <2>1, <2>2, <2>3, CreditEnds
<1>2. ASSUME NEW w \in Workers, NEW i, NEW e, Voids(w, i, e) PROVE Goal
  <2>1. /\ pc[w] = "reversing" /\ Done(w) /\ i \in DOMAIN sales /\ sales[i].status = "COMPLETED"
        /\ sales' = [sales EXCEPT ![i] = e] /\ e.status = "VOIDED"
        /\ e.credit = sales[i].credit /\ e.customer = sales[i].customer
    BY <1>2 DEF Voids
  <2>2. Exposure(c)' = Exposure(c) - (IF c = e.customer THEN e.credit ELSE 0)
    BY <2>1, VoidedExposure
  <2>3. e.credit \in Nat /\ Exposure(c) \in Nat /\ Exposure(c)' \in Nat
    BY <1>2, <2>1, SaleAmounts, ExposureNat, StillOwed
  <2>4. CreditClaim(c, pc[w], job[w]) = 0
    BY <2>1 DEF CreditClaim
  <2>5. \E k \in 0 .. Exposure(c) : Exposure(c)' = Exposure(c) - k
    <3>1. PICK k : k = IF c = e.customer THEN e.credit ELSE 0
      OBVIOUS
    <3>2. k \in 0 .. Exposure(c) /\ Exposure(c)' = Exposure(c) - k
      BY <2>2, <2>3, <3>1
    <3> QED
      BY <3>2
  <2> QED
    BY <2>1, <2>4, <2>5, CreditEnds
<1>3. ASSUME NEW w \in Workers, Returns(w) \/ Opens(w) \/ \E s, e : Closes(w, s, e) PROVE Goal
  <2>1. Done(w) /\ UNCHANGED sales
    BY <1>3 DEF Returns, Opens, Closes
  <2>2. Exposure(c)' = Exposure(c)
    BY <2>1 DEF Exposure, Completed, SalesOf
  <2> QED
    BY <2>1, <2>2, CreditEnds
<1>4. CASE UNCHANGED <<sales, returns, shifts, pc, job>>
  <2>1. Exposure(c)' = Exposure(c) /\ CreditInFlight(c)' = CreditInFlight(c)
    BY <1>4 DEF Exposure, Completed, SalesOf, CreditInFlight
  <2> QED
    BY <2>1 DEF QuotaStep
<1>5. ASSUME NEW w \in Workers, RowStep(w) PROVE Goal
  <2> HIDE DEF Goal
  <2>1. ASSUME NEW label, NEW j, Reads(w, label, j) PROVE Goal
    BY <2>1, CreditRead DEF Goal
  <2> QED
    BY <1>1, <1>2, <1>3, <1>5, <2>1 DEF RowStep
<1> QED
  <2> HIDE DEF Goal
  <2> QED
    BY <1>4, <1>5, RowSteps

LEMMA CreditSteps ==
  ASSUME NEW c, QuotaStep(CreditLimit[c], Exposure(c), Exposure(c)',
                          CreditInFlight(c), CreditInFlight(c)')
  PROVE  [Credit(c)!Next]_(Credit(c)!vars)
BY DEF QuotaStep, Credit!Next, Credit!vars, Credit!Check, Credit!Commit, Credit!Abort,
       Credit!Release

(* The credit sales of a customer implement the check-then-act             *)
(* specification, whatever interleaves: complete reads the exposure before *)
(* it takes the lock and never again.                                      *)
THEOREM CreditsCheckThenAct ==
  ASSUME NEW c \in Customers
  PROVE  Spec => Credit(c)!Spec
<1>1. Init => Credit(c)!Init
  <2> SUFFICES ASSUME Init PROVE Credit(c)!Init
    OBVIOUS
  <2>1. Exposure(c) = 0
    BY InitInv, InitFigures
  <2>2. CreditInFlight(c) = [w \in Workers |-> 0]
    BY DEF Init, CreditInFlight
  <2> QED
    BY <2>1, <2>2 DEF Credit!Init
<1>2. BooksInv /\ Known /\ [Next]_vars => [Credit(c)!Next]_(Credit(c)!vars)
  BY CreditNext, CreditSteps DEF BooksInv, PosInv, Safe
<1> QED
  BY <1>1, <1>2, BooksInvariant, KnownAlways, PTL DEF Spec, Credit!Spec

(* The same of the customer of the instances.                              *)
THEOREM CreditQuotaHolds ==
  ASSUME cus \in Customers
  PROVE  Spec => CreditQuota
<1>1. Credit(cus)!Spec <=> CreditQuota
  BY DEF CreditQuota, CreditOf!Spec, CreditOf!Init, CreditOf!Next, CreditOf!vars,
         CreditOf!Check, CreditOf!Commit, CreditOf!Abort, CreditOf!Release,
         Credit!Spec, Credit!Init, Credit!Next, Credit!vars,
         Credit!Check, Credit!Commit, Credit!Abort, Credit!Release
<1> QED
  BY <1>1, CreditsCheckThenAct

--------------------------------------------------------------------------------
(* What is given back of one line of one sale implements it, with any      *)
(* limit that no cart exceeds.                                             *)

ReceiptLine(i, p, limit) == INSTANCE CheckThenAct WITH
  Limit <- limit, used <- Restored(i, p), pend <- RestoreInFlight(i, p)

RestoreClaim(ss, i, p, label, j) ==
  IF label = "returning" /\ j.sale = i /\ j.product = p THEN j.qty
  ELSE IF label \in {"voiding", "reversing"} /\ j.sale = i THEN ss[i].cart[p]
  ELSE 0

LEMMA RestoreClaims ==
  ASSUME TypeOK, NEW i, NEW p \in Products
  PROVE  /\ Claiming(RestoreInFlight(i, p))
         /\ \A w \in Workers : RestoreInFlight(i, p)[w] = RestoreClaim(sales, i, p, pc[w], job[w])
<1>1. ASSUME NEW w \in Workers PROVE RestoreClaim(sales, i, p, pc[w], job[w]) \in Nat
  <2>1. pc[w] = "returning" => job[w].qty \in Nat
    BY DEF TypeOK, JobsOK, JobOK, ReturnRow
  <2>2. pc[w] \in {"voiding", "reversing"} => job[w].sale \in DOMAIN sales
    BY DEF TypeOK, JobsOK, JobOK
  <2> QED
    BY <2>1, <2>2, SoldQuantity DEF RestoreClaim
<1>2. RestoreInFlight(i, p) = [w \in Workers |-> RestoreClaim(sales, i, p, pc[w], job[w])]
  BY DEF RestoreInFlight, RestoreClaim
<1> QED
  BY <1>1, <1>2 DEF Claiming

LEMMA RestoreTurn ==
  ASSUME TypeOK, NEW i, NEW p \in Products, NEW w \in Workers, NEW label, NEW j,
         Turn(w, label, j), \A k \in DOMAIN sales : sales'[k].cart = sales[k].cart
  PROVE  RestoreInFlight(i, p)' =
           [RestoreInFlight(i, p) EXCEPT ![w] = RestoreClaim(sales', i, p, label, j)]
<1>1. RestoreInFlight(i, p)' = [v \in Workers |-> RestoreClaim(sales', i, p, pc'[v], job'[v])]
  BY DEF RestoreInFlight, RestoreClaim
<1>2. pc'[w] = label /\ job'[w] = j
  BY DEF Turn, TypeOK, JobsOK
<1>3. ASSUME NEW v \in Workers, v # w
      PROVE  RestoreClaim(sales', i, p, pc'[v], job'[v]) = RestoreInFlight(i, p)[v]
  <2>1. pc'[v] = pc[v] /\ job'[v] = job[v]
    BY <1>3 DEF Turn, TypeOK, JobsOK
  <2>2. pc[v] \in {"voiding", "reversing"} => job[v].sale \in DOMAIN sales
    BY DEF TypeOK, JobsOK, JobOK
  <2>3. RestoreClaim(sales', i, p, pc[v], job[v]) = RestoreClaim(sales, i, p, pc[v], job[v])
    BY <2>1, <2>2 DEF RestoreClaim
  <2> QED
    BY <2>1, <2>3, RestoreClaims
<1>4. RestoreInFlight(i, p) = [v \in Workers |-> RestoreInFlight(i, p)[v]]
  BY RestoreClaims DEF Claiming
<1>5. RestoreClaim(sales', i, p, pc'[w], job'[w]) = RestoreClaim(sales', i, p, label, j)
  BY <1>2 DEF RestoreClaim
<1> QED
  BY <1>1, <1>3, <1>4, <1>5

LEMMA RestoreMoves ==
  ASSUME TypeOK, NEW i, NEW p \in Products, NEW limit \in Nat,
         NEW w \in Workers, NEW label, NEW j, Turn(w, label, j),
         \A k \in DOMAIN sales : sales'[k].cart = sales[k].cart,
         ClaimStep(limit, Restored(i, p), Restored(i, p)',
                   RestoreClaim(sales, i, p, pc[w], job[w]), RestoreClaim(sales', i, p, label, j))
  PROVE  QuotaStep(limit, Restored(i, p), Restored(i, p)',
                   RestoreInFlight(i, p), RestoreInFlight(i, p)')
<1>1. PICK x, q, u, v, y :
        /\ x = RestoreInFlight(i, p) /\ q = RestoreInFlight(i, p)'
        /\ u = Restored(i, p) /\ v = Restored(i, p)' /\ y = RestoreClaim(sales', i, p, label, j)
  OBVIOUS
<1>2. q = [x EXCEPT ![w] = y]
  BY <1>1, RestoreTurn
<1>3. /\ u \in Nat /\ Claiming(x) /\ ClaimStep(limit, u, v, x[w], y)
  BY <1>1, RestoredType, RestoreClaims
<1>4. QuotaStep(limit, u, v, x, q)
  BY <1>2, <1>3, ClaimMoves
<1> QED
  BY <1>1, <1>4

(* No cart has more than the limit of the product.                         *)
CartsWithin(p, limit) == \A r \in Checkouts : r.cart[p] <= limit

LEMMA RestoreRead ==
  ASSUME TypeOK, Known, NEW i, NEW p \in Products, NEW limit \in Nat, CartsWithin(p, limit),
         NEW w \in Workers, NEW label, NEW j, Reads(w, label, j)
  PROVE  QuotaStep(limit, Restored(i, p), Restored(i, p)',
                   RestoreInFlight(i, p), RestoreInFlight(i, p)')
<1>1. Turn(w, label, j) /\ Restored(i, p)' = Restored(i, p) /\ UNCHANGED sales
  BY FiguresStay DEF Reads, RowsStay
<1> DEFINE x == RestoreClaim(sales, i, p, pc[w], job[w])
           y == RestoreClaim(sales, i, p, label, j)
<1>2. y = x \/ y = 0 \/ (x = 0 /\ y \in Nat /\ Restored(i, p) + y <= limit)
  <2>1. CASE label \notin {"returning", "voiding", "reversing"}
    BY <2>1 DEF RestoreClaim
  <2>2. CASE label = "reversing"
    BY <2>2 DEF Reads, Finds, Advances, RestoreClaim
  <2>3. CASE label = "voiding" /\ j.sale = i
    <3>1. /\ pc[w] = "idle" /\ i \in DOMAIN sales /\ sales[i].status = "COMPLETED"
          /\ ReturnsOf(i) = {}
      BY <2>3 DEF Reads, Finds, Advances
    <3>2. x = 0 /\ y = sales[i].cart[p] /\ sales[i].cart[p] \in Nat
      BY <2>3, <3>1, SoldQuantity DEF RestoreClaim
    <3>3. Restored(i, p) = 0
      BY <3>1, NothingReturned DEF Restored
    <3>4. sales[i].cart[p] <= limit
      BY <3>1 DEF Known, RowsKnown, CartsWithin
    <3> QED
      BY <3>2, <3>3, <3>4
  <2>4. CASE label = "returning" /\ j.sale = i /\ j.product = p
    <3>1. /\ pc[w] = "idle" /\ i \in DOMAIN sales /\ sales[i].status = "COMPLETED"
          /\ j.qty \in 1 .. sales[i].cart[p] /\ LeftToReturn(i, p, j.qty)
      BY <2>4 DEF Reads, Finds, Advances
    <3>2. x = 0 /\ y = j.qty /\ sales[i].cart[p] \in Nat /\ j.qty \in Nat
      BY <2>4, <3>1, SoldQuantity DEF RestoreClaim
    <3>3. Restored(i, p) = Returned(i, p) /\ Returned(i, p) \in Nat
      BY <3>1, ReturnedType DEF Restored
    <3>4. sales[i].cart[p] <= limit
      BY <3>1 DEF Known, RowsKnown, CartsWithin
    <3>5. Returned(i, p) + j.qty <= sales[i].cart[p]
      BY <3>1 DEF LeftToReturn
    <3> HIDE DEF x, y
    <3>6. Restored(i, p) + y <= limit
      <4>1. CartsWithin(p, limit) => limit \in Nat
        OBVIOUS
      <4> QED
        BY <3>2, <3>3, <3>4, <3>5
    <3> QED
      BY <3>2, <3>6
  <2>5. CASE label \in {"voiding", "returning"} /\ ~(label = "voiding" /\ j.sale = i)
             /\ ~(label = "returning" /\ j.sale = i /\ j.product = p)
    BY <2>5 DEF RestoreClaim
  <2> QED
    BY <2>1, <2>2, <2>3, <2>4, <2>5
<1>3. RestoreClaim(sales', i, p, label, j) = y
  BY <1>1 DEF RestoreClaim
<1>4. ClaimStep(limit, Restored(i, p), Restored(i, p)', x, y)
  <2> HIDE DEF x, y
  <2> QED
    BY <1>1, <1>2 DEF ClaimStep
<1> QED
  BY <1>1, <1>3, <1>4, RestoreMoves

LEMMA RestoreEnds ==
  ASSUME TypeOK, NEW i, NEW p \in Products, NEW limit \in Nat, NEW w \in Workers, Done(w),
         \A k \in DOMAIN sales : sales'[k].cart = sales[k].cart,
         \/ Restored(i, p)' = Restored(i, p)
         \/ Restored(i, p)' = Restored(i, p) + RestoreClaim(sales, i, p, pc[w], job[w])
  PROVE  QuotaStep(limit, Restored(i, p), Restored(i, p)',
                   RestoreInFlight(i, p), RestoreInFlight(i, p)')
<1>1. Turn(w, "idle", None) /\ RestoreClaim(sales', i, p, "idle", None) = 0
  BY DEF Done, RestoreClaim
<1>2. ClaimStep(limit, Restored(i, p), Restored(i, p)',
                RestoreClaim(sales, i, p, pc[w], job[w]), RestoreClaim(sales', i, p, "idle", None))
  BY <1>1 DEF ClaimStep
<1> QED
  BY <1>1, <1>2, RestoreMoves

LEMMA RestoreNext ==
  ASSUME TypeOK, Safe, JournalsStand, Known, [Next]_vars,
         NEW i, NEW p \in Products, NEW limit \in Nat, CartsWithin(p, limit)
  PROVE  QuotaStep(limit, Restored(i, p), Restored(i, p)',
                   RestoreInFlight(i, p), RestoreInFlight(i, p)')
<1> DEFINE Goal == QuotaStep(limit, Restored(i, p), Restored(i, p)',
                             RestoreInFlight(i, p), RestoreInFlight(i, p)')
<1> SUFFICES Goal
  OBVIOUS
<1>1. ASSUME NEW w \in Workers, NEW r, NEW s, NEW e, Sells(w, r, s, e) PROVE Goal
  <2>1. Done(w) /\ Restored(i, p)' = Restored(i, p)
    BY <1>1, RestoredWhenSold DEF Sells
  <2>2. \A k \in DOMAIN sales : sales'[k].cart = sales[k].cart
    BY <1>1, SellsKnown
  <2> QED
    BY <2>1, <2>2, RestoreEnds
<1>2. ASSUME NEW w \in Workers, NEW k, NEW e, Voids(w, k, e) PROVE Goal
  <2>1. /\ pc[w] = "reversing" /\ Done(w) /\ k = job[w].sale /\ k \in DOMAIN sales
        /\ sales' = [sales EXCEPT ![k] = e] /\ e.cart = sales[k].cart
    BY <1>2 DEF Voids
  <2>2. \A x \in DOMAIN sales : sales'[x].cart = sales[x].cart
    BY <2>1
  <2>3. Restored(i, p)' = Restored(i, p) + (IF i = k THEN sales[k].cart[p] ELSE 0)
    BY <1>2, RestoredWhenVoided
  <2>4. RestoreClaim(sales, i, p, pc[w], job[w]) = IF i = k THEN sales[k].cart[p] ELSE 0
    BY <2>1 DEF RestoreClaim
  <2> QED
    BY <2>1, <2>2, <2>3, <2>4, RestoreEnds
<1>3. ASSUME NEW w \in Workers, Returns(w) PROVE Goal
  <2>1. pc[w] = "returning" /\ Done(w) /\ UNCHANGED sales
    BY <1>3 DEF Returns
  <2>2. Restored(i, p)' = Restored(i, p) + (IF job[w].sale = i /\ job[w].product = p
                                             THEN job[w].qty ELSE 0)
    BY <1>3, RestoredWhenReturned
  <2>3. RestoreClaim(sales, i, p, pc[w], job[w]) =
          IF job[w].sale = i /\ job[w].product = p THEN job[w].qty ELSE 0
    BY <2>1 DEF RestoreClaim
  <2> QED
    BY <2>1, <2>2, <2>3, RestoreEnds
<1>4. ASSUME NEW w \in Workers, Opens(w) \/ \E s, e : Closes(w, s, e) PROVE Goal
  <2>1. Done(w) /\ UNCHANGED <<sales, returns>>
    BY <1>4 DEF Opens, Closes
  <2>2. Restored(i, p)' = Restored(i, p)
    BY <2>1 DEF Restored, Returned, ReturnsOf
  <2> QED
    BY <2>1, <2>2, RestoreEnds
<1>5. CASE UNCHANGED <<sales, returns, shifts, pc, job>>
  <2>1. Restored(i, p)' = Restored(i, p) /\ RestoreInFlight(i, p)' = RestoreInFlight(i, p)
    BY <1>5 DEF Restored, Returned, ReturnsOf, RestoreInFlight
  <2> QED
    BY <2>1 DEF QuotaStep
<1>6. ASSUME NEW w \in Workers, RowStep(w) PROVE Goal
  <2> HIDE DEF Goal
  <2>1. ASSUME NEW label, NEW j, Reads(w, label, j) PROVE Goal
    BY <2>1, RestoreRead DEF Goal
  <2> QED
    BY <1>1, <1>2, <1>3, <1>4, <1>6, <2>1 DEF RowStep
<1> QED
  <2> HIDE DEF Goal
  <2> QED
    BY <1>5, <1>6, RowSteps

LEMMA RestoreSteps ==
  ASSUME NEW i, NEW p, NEW limit,
         QuotaStep(limit, Restored(i, p), Restored(i, p)',
                   RestoreInFlight(i, p), RestoreInFlight(i, p)')
  PROVE  [ReceiptLine(i, p, limit)!Next]_(ReceiptLine(i, p, limit)!vars)
BY DEF QuotaStep, ReceiptLine!Next, ReceiptLine!vars, ReceiptLine!Check, ReceiptLine!Commit, ReceiptLine!Abort,
       ReceiptLine!Release

(* The returns and the void of a line together implement the               *)
(* check-then-act specification, whatever interleaves: neither returnItem  *)
(* nor voidSale looks at the sale again when it writes.                    *)
THEOREM ReturnsCheckThenAct ==
  ASSUME NEW i, NEW p \in Products, NEW limit \in Nat, CartsWithin(p, limit)
  PROVE  Spec => ReceiptLine(i, p, limit)!Spec
<1>1. Init => ReceiptLine(i, p, limit)!Init
  <2> SUFFICES ASSUME Init PROVE ReceiptLine(i, p, limit)!Init
    OBVIOUS
  <2>1. Restored(i, p) = 0
    BY InitInv, InitFigures
  <2>2. RestoreInFlight(i, p) = [w \in Workers |-> 0]
    BY DEF Init, RestoreInFlight
  <2> QED
    BY <2>1, <2>2 DEF ReceiptLine!Init
<1>2. BooksInv /\ Known /\ [Next]_vars
        => [ReceiptLine(i, p, limit)!Next]_(ReceiptLine(i, p, limit)!vars)
  BY CartsWithin(p, limit), RestoreNext, RestoreSteps DEF BooksInv, PosInv, Safe
<1> QED
  BY <1>1, <1>2, BooksInvariant, KnownAlways, PTL DEF Spec, ReceiptLine!Spec

(* The same of the first two sales of the instances, whose carts have two  *)
(* bags of rice at most.                                                   *)
THEOREM RestoreQuotaHolds ==
  ASSUME rice \in Products, CartsWithin(rice, 2)
  PROVE  Spec => RestoreQuota
<1>1. Spec => ReceiptLine(1, rice, 2)!Spec /\ ReceiptLine(2, rice, 2)!Spec
  BY ReturnsCheckThenAct
<1>2. ReceiptLine(1, rice, 2)!Spec <=> FirstLine!Spec
  BY DEF FirstLine!Spec, FirstLine!Init, FirstLine!Next, FirstLine!vars,
         FirstLine!Check, FirstLine!Commit, FirstLine!Abort, FirstLine!Release,
         ReceiptLine!Spec, ReceiptLine!Init, ReceiptLine!Next, ReceiptLine!vars,
         ReceiptLine!Check, ReceiptLine!Commit, ReceiptLine!Abort, ReceiptLine!Release
<1>3. ReceiptLine(2, rice, 2)!Spec <=> SecondLine!Spec
  BY DEF SecondLine!Spec, SecondLine!Init, SecondLine!Next, SecondLine!vars,
         SecondLine!Check, SecondLine!Commit, SecondLine!Abort, SecondLine!Release,
         ReceiptLine!Spec, ReceiptLine!Init, ReceiptLine!Next, ReceiptLine!vars,
         ReceiptLine!Check, ReceiptLine!Commit, ReceiptLine!Abort, ReceiptLine!Release
<1> QED
  BY <1>1, <1>2, <1>3 DEF RestoreQuota

--------------------------------------------------------------------------------
(* The open shifts of a register implement it, with limit 1.               *)

ShiftsAt(r) == INSTANCE CheckThenAct WITH
  Limit <- 1, used <- Cardinality(OpenShifts(r)), pend <- ShiftInFlight(r)

ShiftClaim(r, label, j) ==
  IF \/ label = "opening" /\ j.register = r
     \/ label \in {"priced", "cleared", "locked"} /\ j.shift = 0 /\ j.req.register = r
    THEN 1 ELSE 0

LEMMA OpenShiftCount ==
  ASSUME Known, NEW r
  PROVE  IsFiniteSet(OpenShifts(r)) /\ Cardinality(OpenShifts(r)) \in Nat
<1>1. OpenShifts(r) \subseteq 1 .. Len(shifts) /\ Len(shifts) \in Nat
  BY ShiftFacts DEF OpenShifts
<1>2. IsFiniteSet(1 .. Len(shifts))
  BY <1>1, FS_Interval
<1> QED
  BY <1>1, <1>2, FS_Subset, FS_CardinalityType

LEMMA ShiftClaims ==
  ASSUME NEW r
  PROVE  /\ Claiming(ShiftInFlight(r))
         /\ \A w \in Workers : ShiftInFlight(r)[w] = ShiftClaim(r, pc[w], job[w])
<1>1. ShiftInFlight(r) = [w \in Workers |-> ShiftClaim(r, pc[w], job[w])]
  BY DEF ShiftInFlight, ShiftClaim
<1>2. \A w \in Workers : ShiftClaim(r, pc[w], job[w]) \in Nat
  BY DEF ShiftClaim
<1> QED
  BY <1>1, <1>2 DEF Claiming

LEMMA ShiftTurn ==
  ASSUME TypeOK, NEW r, NEW w \in Workers, NEW label, NEW j, Turn(w, label, j)
  PROVE  ShiftInFlight(r)' = [ShiftInFlight(r) EXCEPT ![w] = ShiftClaim(r, label, j)]
<1>1. ShiftInFlight(r)' = [v \in Workers |-> ShiftClaim(r, pc'[v], job'[v])]
  BY DEF ShiftInFlight, ShiftClaim
<1>2. /\ pc'[w] = label /\ job'[w] = j
      /\ \A v \in Workers \ {w} : pc'[v] = pc[v] /\ job'[v] = job[v]
  BY DEF Turn, TypeOK, JobsOK
<1>3. ShiftInFlight(r) = [v \in Workers |-> ShiftClaim(r, pc[v], job[v])]
  BY DEF ShiftInFlight, ShiftClaim
<1> QED
  BY <1>1, <1>2, <1>3

LEMMA ShiftMoves ==
  ASSUME TypeOK, Known, NEW r, NEW w \in Workers, NEW label, NEW j, Turn(w, label, j),
         ClaimStep(1, Cardinality(OpenShifts(r)), Cardinality(OpenShifts(r)'),
                   ShiftClaim(r, pc[w], job[w]), ShiftClaim(r, label, j))
  PROVE  QuotaStep(1, Cardinality(OpenShifts(r)), Cardinality(OpenShifts(r)'),
                   ShiftInFlight(r), ShiftInFlight(r)')
<1>1. PICK p, q, u, v, y, limit :
        /\ p = ShiftInFlight(r) /\ q = ShiftInFlight(r)'
        /\ u = Cardinality(OpenShifts(r)) /\ v = Cardinality(OpenShifts(r)')
        /\ y = ShiftClaim(r, label, j) /\ limit = 1
  OBVIOUS
<1>2. /\ limit \in Nat /\ u \in Nat /\ Claiming(p) /\ q = [p EXCEPT ![w] = y]
      /\ ClaimStep(limit, u, v, p[w], y)
  BY <1>1, OpenShiftCount, ShiftClaims, ShiftTurn
<1>3. QuotaStep(limit, u, v, p, q)
  BY <1>2, ClaimMoves
<1> QED
  BY <1>1, <1>3

LEMMA ShiftRead ==
  ASSUME TypeOK, Known, NEW r, NEW w \in Workers, NEW label, NEW j, Reads(w, label, j)
  PROVE  QuotaStep(1, Cardinality(OpenShifts(r)), Cardinality(OpenShifts(r)'),
                   ShiftInFlight(r), ShiftInFlight(r)')
<1>1. Turn(w, label, j) /\ OpenShifts(r)' = OpenShifts(r)
  BY DEF Reads, RowsStay, OpenShifts
<1> DEFINE u == Cardinality(OpenShifts(r))
           x == ShiftClaim(r, pc[w], job[w])
           y == ShiftClaim(r, label, j)
<1>2. NoOpenShift(r) => u = 0
  BY FS_EmptySet DEF NoOpenShift
<1>3. y = x \/ y = 0 \/ (x = 0 /\ y = 1 /\ u = 0)
  <2>1. CASE label = "idle"
    BY <2>1 DEF ShiftClaim
  <2>2. CASE pc[w] = "idle" /\ Finds(label, j)
    <3>1. x = 0 /\ (y = 0 \/ y = 1)
      BY <2>2 DEF ShiftClaim
    <3>2. y # 0 => NoOpenShift(r)
      <4>1. y # 0 => \/ label = "opening" /\ j.register = r
                     \/ /\ label \in {"priced", "cleared", "locked"} /\ j.shift = 0
                        /\ j.req.register = r
        BY DEF ShiftClaim
      <4>2. 0 \notin DOMAIN shifts
        BY ShiftFacts
      <4> HIDE DEF y
      <4> QED
        BY <2>2, <4>1, <4>2 DEF Finds
    <3> QED
      BY <1>2, <3>1, <3>2
  <2>3. CASE Advances(w, label, j)
    BY <2>3 DEF Advances, ShiftClaim
  <2> QED
    BY <2>1, <2>2, <2>3 DEF Reads
<1>4. ClaimStep(1, u, Cardinality(OpenShifts(r)'), x, y)
  <2>1. Cardinality(OpenShifts(r)') = u
    BY <1>1
  <2> HIDE DEF x, y, u
  <2> QED
    BY <1>3, <2>1 DEF ClaimStep
<1> QED
  BY <1>1, <1>4, ShiftMoves

(* The request ends, and with it its claim.                                *)
LEMMA ShiftEnds ==
  ASSUME TypeOK, Known, NEW r, NEW w \in Workers, Done(w), NEW u, NEW v,
         u = Cardinality(OpenShifts(r)), v = Cardinality(OpenShifts(r)'),
         \/ v = u
         \/ v = u + ShiftClaim(r, pc[w], job[w])
         \/ ShiftClaim(r, pc[w], job[w]) = 0 /\ \E k \in 0 .. u : v = u - k
  PROVE  QuotaStep(1, Cardinality(OpenShifts(r)), Cardinality(OpenShifts(r)'),
                   ShiftInFlight(r), ShiftInFlight(r)')
<1>1. Turn(w, "idle", None) /\ ShiftClaim(r, "idle", None) = 0
  BY DEF Done, ShiftClaim
<1>2. ClaimStep(1, u, v, ShiftClaim(r, pc[w], job[w]), ShiftClaim(r, "idle", None))
  BY <1>1 DEF ClaimStep
<1> QED
  BY <1>1, <1>2, ShiftMoves

(* One more shift: at one register, which counts it.                       *)
LEMMA ShiftAdded ==
  ASSUME Known, NEW row \in ShiftRow, row.status = "OPEN", shifts' = Append(shifts, row), NEW r
  PROVE  Cardinality(OpenShifts(r)') =
           Cardinality(OpenShifts(r)) + (IF row.register = r THEN 1 ELSE 0)
<1>1. /\ OpenShifts(r)' = OpenShifts(r) \union
                            (IF row.register = r THEN {Len(shifts) + 1} ELSE {})
      /\ Len(shifts) + 1 \notin OpenShifts(r)
  BY OpenShiftAdded
<1>2. IsFiniteSet(OpenShifts(r)) /\ Cardinality(OpenShifts(r)) \in Nat
  BY OpenShiftCount
<1>3. Cardinality(OpenShifts(r) \union {Len(shifts) + 1}) = Cardinality(OpenShifts(r)) + 1
  BY <1>1, <1>2, FS_AddElement
<1>4. CASE row.register = r
  BY <1>1, <1>3, <1>4
<1>5. CASE row.register # r
  <2>1. OpenShifts(r)' = OpenShifts(r)
    BY <1>1, <1>5
  <2> QED
    BY <1>2, <1>5, <2>1
<1> QED
  BY <1>4, <1>5

LEMMA ShiftNextStep ==
  ASSUME TypeOK, Safe, JournalsStand, Known, [Next]_vars, NEW r
  PROVE  QuotaStep(1, Cardinality(OpenShifts(r)), Cardinality(OpenShifts(r)'),
                   ShiftInFlight(r), ShiftInFlight(r)')
<1> DEFINE Goal == QuotaStep(1, Cardinality(OpenShifts(r)), Cardinality(OpenShifts(r)'),
                             ShiftInFlight(r), ShiftInFlight(r)')
<1> SUFFICES Goal
  OBVIOUS
<1>0. PICK u, v : u = Cardinality(OpenShifts(r)) /\ v = Cardinality(OpenShifts(r)')
  OBVIOUS
<1>1. ASSUME NEW w \in Workers, NEW d, NEW s, NEW e, Sells(w, d, s, e) PROVE Goal
  <2>1. pc[w] = "locked" /\ Done(w) /\ d = job[w].req /\ d \in Checkout
    BY <1>1, PosAssumption DEF Sells
  <2>2. CASE job[w].shift # 0
    <3>1. OpenShifts(r)' = OpenShifts(r)
      BY <1>1, <2>2 DEF Sells, OpenShifts
    <3>2. v = u
      BY <1>0, <3>1
    <3> QED
      BY <1>0, <2>1, <3>2, ShiftEnds
  <2>3. CASE job[w].shift = 0
    <3>1. PICK row : row = [register |-> d.register, cashier |-> d.cashier,
                            opening |-> 0, status |-> "OPEN", expected |-> 0]
      OBVIOUS
    <3>2. row \in ShiftRow /\ row.status = "OPEN" /\ row.register = d.register
      BY <2>1, <3>1 DEF ShiftRow, Checkout
    <3>3. shifts' = Append(shifts, row)
      BY <1>1, <2>3, <3>1 DEF Sells
    <3>4. v = u + (IF row.register = r THEN 1 ELSE 0)
      BY <1>0, <3>2, <3>3, ShiftAdded
    <3>5. ShiftClaim(r, pc[w], job[w]) = IF row.register = r THEN 1 ELSE 0
      BY <2>1, <2>3, <3>2 DEF ShiftClaim
    <3>6. v = u + ShiftClaim(r, pc[w], job[w])
      BY <3>4, <3>5
    <3> QED
      BY <1>0, <2>1, <3>6, ShiftEnds
  <2> QED
    BY <2>2, <2>3
<1>2. ASSUME NEW w \in Workers, Returns(w) \/ \E k, e : Voids(w, k, e) PROVE Goal
  <2>1. Done(w) /\ UNCHANGED shifts
    BY <1>2 DEF Returns, Voids
  <2>2. v = u
    BY <1>0, <2>1 DEF OpenShifts
  <2> QED
    BY <1>0, <2>1, <2>2, ShiftEnds
<1>3. ASSUME NEW w \in Workers, Opens(w) PROVE Goal
  <2>1. pc[w] = "opening" /\ Done(w) /\ shifts' = Append(shifts, job[w])
    BY <1>3 DEF Opens
  <2>2. job[w] \in ShiftRow /\ job[w].status = "OPEN"
    BY <2>1 DEF Known, KnownTo
  <2>3. v = u + (IF job[w].register = r THEN 1 ELSE 0)
    BY <1>0, <2>1, <2>2, ShiftAdded
  <2>4. ShiftClaim(r, pc[w], job[w]) = IF job[w].register = r THEN 1 ELSE 0
    BY <2>1 DEF ShiftClaim
  <2>5. v = u + ShiftClaim(r, pc[w], job[w])
    BY <2>3, <2>4
  <2> QED
    BY <1>0, <2>1, <2>5, ShiftEnds
<1>4. ASSUME NEW w \in Workers, NEW s, NEW e, Closes(w, s, e) PROVE Goal
  <2>1. pc[w] \in {"closing", "handing"} /\ Done(w)
    BY <1>4 DEF Closes
  <2>2. ShiftClaim(r, pc[w], job[w]) = 0
    BY <2>1 DEF ShiftClaim
  <2>3. OpenShifts(r)' = OpenShifts(r) \ {s}
    BY <1>4, OpenShiftClosed
  <2>4. IsFiniteSet(OpenShifts(r)) /\ u \in Nat
    BY <1>0, OpenShiftCount
  <2>5. v = IF s \in OpenShifts(r) THEN u - 1 ELSE u
    <3>1. s \in OpenShifts(r) => Cardinality(OpenShifts(r) \ {s}) = u - 1
      BY <1>0, <2>4, FS_RemoveElement
    <3>2. s \notin OpenShifts(r) => OpenShifts(r) \ {s} = OpenShifts(r)
      OBVIOUS
    <3> QED
      BY <1>0, <2>3, <3>1, <3>2
  <2>6. s \in OpenShifts(r) => u # 0
    BY <1>0, <2>4, FS_EmptySet
  <2>7. \E k \in 0 .. u : v = u - k
    <3>1. PICK k : k = IF s \in OpenShifts(r) THEN 1 ELSE 0
      OBVIOUS
    <3>2. k \in 0 .. u /\ v = u - k
      BY <2>4, <2>5, <2>6, <3>1
    <3> QED
      BY <3>2
  <2> QED
    BY <1>0, <2>1, <2>2, <2>7, ShiftEnds
<1>5. CASE UNCHANGED <<sales, returns, shifts, pc, job>>
  <2>1. OpenShifts(r)' = OpenShifts(r) /\ ShiftInFlight(r)' = ShiftInFlight(r)
    BY <1>5 DEF OpenShifts, ShiftInFlight
  <2> QED
    BY <2>1 DEF QuotaStep
<1>6. ASSUME NEW w \in Workers, RowStep(w) PROVE Goal
  <2> HIDE DEF Goal
  <2>1. ASSUME NEW label, NEW j, Reads(w, label, j) PROVE Goal
    BY <2>1, ShiftRead DEF Goal
  <2> QED
    BY <1>1, <1>2, <1>3, <1>4, <1>6, <2>1 DEF RowStep
<1> QED
  <2> HIDE DEF Goal
  <2> QED
    BY <1>5, <1>6, RowSteps

LEMMA ShiftSteps ==
  ASSUME NEW r, QuotaStep(1, Cardinality(OpenShifts(r)), Cardinality(OpenShifts(r)'),
                          ShiftInFlight(r), ShiftInFlight(r)')
  PROVE  [ShiftsAt(r)!Next]_(ShiftsAt(r)!vars)
BY DEF QuotaStep, ShiftsAt!Next, ShiftsAt!vars, ShiftsAt!Check, ShiftsAt!Commit,
       ShiftsAt!Abort, ShiftsAt!Release

(* The open shifts of a register implement the check-then-act              *)
(* specification with limit 1, whatever interleaves: openShift and         *)
(* complete look for an open shift once, and a close, a handover or the    *)
(* failure of a request gives the place back.                              *)
THEOREM ShiftsCheckThenAct ==
  ASSUME NEW r
  PROVE  Spec => ShiftsAt(r)!Spec
<1>1. Init => ShiftsAt(r)!Init
  <2> SUFFICES ASSUME Init PROVE ShiftsAt(r)!Init
    OBVIOUS
  <2>1. Cardinality(OpenShifts(r)) = 0
    <3>1. OpenShifts(r) = {}
      BY DEF Init, OpenShifts
    <3> QED
      BY <3>1, FS_EmptySet
  <2>2. ShiftInFlight(r) = [w \in Workers |-> 0]
    BY DEF Init, ShiftInFlight
  <2> QED
    BY <2>1, <2>2 DEF ShiftsAt!Init
<1>2. BooksInv /\ Known /\ [Next]_vars => [ShiftsAt(r)!Next]_(ShiftsAt(r)!vars)
  BY ShiftNextStep, ShiftSteps DEF BooksInv, PosInv, Safe
<1> QED
  BY <1>1, <1>2, BooksInvariant, KnownAlways, PTL DEF Spec, ShiftsAt!Spec

(* The same of the register of the instances.                              *)
THEOREM ShiftQuotaHolds == Spec => ShiftQuota
<1>1. ShiftsAt(r1)!Spec <=> ShiftQuota
  BY DEF ShiftQuota, ShiftsOf!Spec, ShiftsOf!Init, ShiftsOf!Next, ShiftsOf!vars,
         ShiftsOf!Check, ShiftsOf!Commit, ShiftsOf!Abort, ShiftsOf!Release,
         ShiftsAt!Spec, ShiftsAt!Init, ShiftsAt!Next, ShiftsAt!vars,
         ShiftsAt!Check, ShiftsAt!Commit, ShiftsAt!Abort, ShiftsAt!Release
<1> QED
  BY <1>1, ShiftsCheckThenAct

--------------------------------------------------------------------------------
(* What CheckThenActProofs shows of the abstract specification, said of    *)
(* the rows.  cus and r1 are any customer and any register.                *)

CreditBound == INSTANCE CheckThenActProofs WITH
  Limit <- CreditLimit[cus], used <- Exposure(cus), pend <- CreditInFlight(cus)

ShiftBound == INSTANCE CheckThenActProofs WITH
  Limit <- 1, used <- Cardinality(OpenShifts(r1)), pend <- ShiftInFlight(r1)

(* However the requests interleave, a customer never owes more than one    *)
(* credit limit for each request in flight (complete, voidSale).           *)
THEOREM CreditOvershoot ==
  ASSUME cus \in Customers, IsFiniteSet(Workers)
  PROVE  Spec => [](Exposure(cus) <= CreditLimit[cus] * Cardinality(Workers))
<1>1. CreditLimit[cus] \in Nat
  BY PosAssumption
<1>2. CreditBound!CheckThenActAssumption
  BY <1>1 DEF CreditBound!CheckThenActAssumption, IsFiniteSet, CreditBound!IsFiniteSet
<1>3. CreditBound!Spec => []CreditBound!OneLimitEach
  BY <1>2, CreditBound!OneLimitEachHolds
<1>4. CreditBound!OneLimitEach <=> Exposure(cus) <= CreditLimit[cus] * Cardinality(Workers)
  BY DEF CreditBound!OneLimitEach, CreditBound!Cardinality, Cardinality
<1>5. Credit(cus)!Spec => CreditBound!Spec
  BY DEF CreditBound!Spec, CreditBound!Init, CreditBound!Next, CreditBound!vars,
         CreditBound!Check, CreditBound!Commit, CreditBound!Abort, CreditBound!Release,
         Credit!Spec, Credit!Init, Credit!Next, Credit!vars,
         Credit!Check, Credit!Commit, Credit!Abort, Credit!Release
<1>6. Spec => Credit(cus)!Spec
  BY CreditsCheckThenAct
<1> QED
  BY <1>3, <1>4, <1>5, <1>6, PTL

(* A register never has more open shifts than there are requests in flight *)
(* (openShift, complete, closeShift, handoverRegister).                    *)
THEOREM ShiftsOvershoot ==
  ASSUME IsFiniteSet(Workers)
  PROVE  Spec => [](Cardinality(OpenShifts(r1)) <= 1 * Cardinality(Workers))
<1>1. ShiftBound!CheckThenActAssumption
  BY DEF ShiftBound!CheckThenActAssumption, IsFiniteSet, ShiftBound!IsFiniteSet
<1>2. ShiftBound!Spec => []ShiftBound!OneLimitEach
  BY <1>1, ShiftBound!OneLimitEachHolds
<1>3. ShiftBound!OneLimitEach <=> Cardinality(OpenShifts(r1)) <= 1 * Cardinality(Workers)
  BY DEF ShiftBound!OneLimitEach, ShiftBound!Cardinality, Cardinality
<1>4. ShiftsAt(r1)!Spec => ShiftBound!Spec
  BY DEF ShiftBound!Spec, ShiftBound!Init, ShiftBound!Next, ShiftBound!vars,
         ShiftBound!Check, ShiftBound!Commit, ShiftBound!Abort, ShiftBound!Release,
         ShiftsAt!Spec, ShiftsAt!Init, ShiftsAt!Next, ShiftsAt!vars,
         ShiftsAt!Check, ShiftsAt!Commit, ShiftsAt!Abort, ShiftsAt!Release
<1>5. Spec => ShiftsAt(r1)!Spec
  BY ShiftsCheckThenAct
<1> QED
  BY <1>2, <1>3, <1>4, <1>5, PTL

--------------------------------------------------------------------------------
(* The drawer's side of the books.  A void has its reversal and a return   *)
(* its journal, and they move what they should.                            *)

VoidMoves(i) ==
  Movement(journals[<<"VOID", "POS", i>>], "1000") = sales[i].credit - Total(sales[i].cart)

ReturnBooked(k) ==
  /\ <<"RETURN", k>> \in DOMAIN journals
  /\ Movement(journals[<<"RETURN", k>>], "1000") = - (returns[k].qty * Gross(returns[k].product))

BookedMoves ==
  /\ \A i \in Voided : VoidMoves(i)
  /\ \A k \in DOMAIN returns : ReturnBooked(k)

LEMMA StillMoves ==
  ASSUME Reversals, NEW n \in DOMAIN journals, NEW a
  PROVE  n \in DOMAIN journals' /\ Movement(journals'[n], a) = Movement(journals[n], a)
BY DEF Reversals, Movement

LEMMA VoidStands ==
  ASSUME JournalsStand, NEW i \in Voided
  PROVE  <<"VOID", "POS", i>> \in DOMAIN journals
<1>1. i \in DOMAIN sales /\ sales[i].status = "VOIDED" /\ SaleBooked(i)
  BY DEF Voided, JournalsStand
<1> QED
  BY <1>1 DEF SaleBooked, VoidNumber

LEMMA VoidStillMoves ==
  ASSUME JournalsStand, Reversals, NEW i \in Voided, VoidMoves(i),
         sales'[i].cart = sales[i].cart, sales'[i].credit = sales[i].credit
  PROVE  VoidMoves(i)'
<1>1. Movement(journals'[<<"VOID", "POS", i>>], "1000") =
        Movement(journals[<<"VOID", "POS", i>>], "1000")
  BY VoidStands, StillMoves
<1> QED
  BY <1>1 DEF VoidMoves

LEMMA ReturnStillBooked ==
  ASSUME Reversals, NEW k \in DOMAIN returns, ReturnBooked(k), returns'[k] = returns[k]
  PROVE  ReturnBooked(k)'
<1>1. <<"RETURN", k>> \in DOMAIN journals
  BY DEF ReturnBooked
<1>2. /\ <<"RETURN", k>> \in DOMAIN journals'
      /\ Movement(journals'[<<"RETURN", k>>], "1000") = Movement(journals[<<"RETURN", k>>], "1000")
  BY <1>1, StillMoves
<1> QED
  BY <1>2 DEF ReturnBooked

LEMMA BookedWhenSold ==
  ASSUME TypeOK, JournalsStand, Known, Reversals, BookedMoves,
         NEW w \in Workers, NEW r, NEW s, NEW e, Sells(w, r, s, e)
  PROVE  BookedMoves'
<1>1. /\ Len(sales) + 1 \notin DOMAIN sales
      /\ DOMAIN sales' = DOMAIN sales \union {Len(sales) + 1}
      /\ sales'[Len(sales) + 1] = e /\ \A k \in DOMAIN sales : sales'[k] = sales[k]
  BY SellsKnown
<1>2. e.status = "COMPLETED" /\ returns' = returns
  BY DEF Sells
<1>3. ASSUME NEW i \in Voided' PROVE VoidMoves(i)'
  <2>1. i \in Voided /\ sales'[i] = sales[i]
    BY <1>1, <1>2 DEF Voided
  <2> QED
    BY <2>1, VoidStillMoves DEF BookedMoves
<1>4. ASSUME NEW k \in DOMAIN returns' PROVE ReturnBooked(k)'
  BY <1>2, ReturnStillBooked DEF BookedMoves
<1> QED
  BY <1>3, <1>4 DEF BookedMoves

LEMMA BookedWhenVoided ==
  ASSUME TypeOK, JournalsStand, Known, Reversals, BookedMoves,
         NEW w \in Workers, VoidCommit(w)
  PROVE  BookedMoves'
<1>1. PICK i, e : Voids(w, i, e)
  BY CommitVoids
<1>2. /\ pc[w] = "reversing" /\ i = job[w].sale /\ i \in DOMAIN sales
      /\ sales' = [sales EXCEPT ![i] = e] /\ e.cart = sales[i].cart
      /\ e.credit = sales[i].credit /\ returns' = returns
  BY <1>1 DEF Voids
<1>3. PICK P, n, v : P = job[w].posted /\ n = <<"POS", i>> /\ v = <<"VOID", "POS", i>>
  OBVIOUS
<1>4. /\ {VoidNumber(j) : j \in P} \intersect DOMAIN journals = {}
      /\ journals' = WithReversals(journals, P)
  BY <1>3 DEF VoidCommit, NumbersFree
<1>5. P = JournalsOf(i) \intersect DOMAIN journals /\ SaleBooked(i) /\ BooksOK(journals)
  BY <1>2, <1>3 DEF JournalsStand, ReadFromBooks
<1>6. n \in P /\ VoidNumber(n) = v /\ n \in DOMAIN journals
  BY <1>3, <1>5 DEF SaleBooked, JournalsOf, VoidNumber
<1>7. journals'[v] = [lines |-> Mirrored(journals[n].lines), status |-> "POSTED"]
  <2>1. P \in SUBSET (JournalsOf(i) \intersect DOMAIN journals)
    BY <1>5
  <2>2. {VoidNumber(j) : j \in P} \intersect DOMAIN journals = {} /\ BooksOK(journals)
    BY <1>4, <1>5
  <2>3. WithReversals(journals, P)[VoidNumber(n)] =
          [lines |-> Mirrored(journals[n].lines), status |-> "POSTED"]
    BY <1>6, <2>1, <2>2, ReversedJournals
  <2> QED
    BY <1>4, <1>6, <2>3, Zenon
<1>8. Movement(journals'[v], "1000") = - Movement(journals[n], "1000")
  <2>1. PICK k : k = journals'[v]
    OBVIOUS
  <2>2. k.lines = Mirrored(journals[n].lines)
    BY <1>7, <2>1
  <2>3. IsFiniteSet(journals[n].lines) /\ journals[n].lines \subseteq LineRow
    BY <1>5, <1>6, JournalFacts
  <2> QED
    BY <2>1, <2>2, <2>3, MirroredMoves
<1>9. Movement(journals[n], "1000") = Total(sales[i].cart) - sales[i].credit
  <2>1. journals[n].lines = Normalized(SaleLines(sales[i]))
    BY <1>3, <1>5 DEF SaleBooked
  <2>2. sales[i].cart \in Cart /\ sales[i].credit \in Nat
    BY <1>2, SaleAmounts
  <2> QED
    BY <2>1, <2>2, SaleMoves
<1>10. Total(sales[i].cart) \in Int /\ sales[i].credit \in Nat
  BY <1>2, SaleAmounts
<1>11. /\ DOMAIN sales' = DOMAIN sales /\ sales'[i] = e
       /\ \A k \in DOMAIN sales \ {i} : sales'[k] = sales[k]
  BY <1>2
<1>12. ASSUME NEW k \in Voided' PROVE VoidMoves(k)'
  <2>1. CASE k = i
    BY <1>2, <1>3, <1>8, <1>9, <1>10, <1>11, <2>1 DEF VoidMoves
  <2>2. CASE k # i
    <3>1. k \in Voided /\ sales'[k] = sales[k]
      BY <1>11, <2>2 DEF Voided
    <3> QED
      BY <3>1, VoidStillMoves DEF BookedMoves
  <2> QED
    BY <2>1, <2>2
<1>13. ASSUME NEW k \in DOMAIN returns' PROVE ReturnBooked(k)'
  BY <1>2, ReturnStillBooked DEF BookedMoves
<1> QED
  BY <1>12, <1>13 DEF BookedMoves

LEMMA BookedWhenReturned ==
  ASSUME TypeOK, JournalsStand, Known, Reversals, BookedMoves,
         NEW w \in Workers, ReturnCommit(w)
  PROVE  BookedMoves'
<1>0. PICK i, p, q, n, v :
        /\ i = job[w].sale /\ p = job[w].product /\ q = job[w].qty
        /\ n = Len(returns) + 1
        /\ v = IF p \in Goods THEN q * sales[i].cost[p] ELSE 0
  OBVIOUS
<1>1. /\ pc[w] = "returning" /\ UNCHANGED sales /\ Returns(w)
      /\ journals' = Posted(journals, <<"RETURN", n>>, ReturnLines(p, q, v))
  BY <1>0 DEF ReturnCommit, Returns
<1>2. job[w] \in ReturnRow /\ p \in Products /\ q \in Nat /\ i \in DOMAIN sales
  BY <1>0, <1>1 DEF TypeOK, JobsOK, JobOK, ReturnRow
<1>3. v \in Int
  <2>1. sales[i].cost \in [Products -> Nat]
    BY <1>2, SaleType DEF Sale
  <2>2. sales[i].cost[p] \in Nat
    BY <1>2, <2>1
  <2>3. q * sales[i].cost[p] \in Nat
    BY <1>2, <2>2
  <2> QED
    BY <1>0, <2>3
<1>4. <<"RETURN", n>> \notin DOMAIN journals
  BY <1>0, FreshNumbers
<1>5. PICK j : j = [lines |-> Normalized(ReturnLines(p, q, v)), status |-> "POSTED"]
  OBVIOUS
<1>6. <<"RETURN", n>> \in DOMAIN journals' /\ journals'[<<"RETURN", n>>] = j
  BY <1>1, <1>4, <1>5 DEF Posted, Entered
<1>7. Movement(j, "1000") = - (q * Gross(p))
  <2>1. j.lines = Normalized(ReturnLines(p, q, v))
    BY <1>5
  <2> QED
    BY <1>2, <1>3, <2>1, ReturnMoves
<1>8. /\ DOMAIN returns' = DOMAIN returns \union {n} /\ returns'[n] = job[w]
      /\ \A k \in DOMAIN returns : returns'[k] = returns[k]
  BY <1>0, <1>1, ReturnsKnown
<1>9. ASSUME NEW k \in DOMAIN returns' PROVE ReturnBooked(k)'
  <2>1. CASE k = n
    BY <1>0, <1>6, <1>7, <1>8, <2>1 DEF ReturnBooked
  <2>2. CASE k # n
    BY <1>8, <2>2, ReturnStillBooked DEF BookedMoves
  <2> QED
    BY <2>1, <2>2
<1>10. ASSUME NEW k \in Voided' PROVE VoidMoves(k)'
  <2>1. k \in Voided
    BY <1>1 DEF Voided
  <2> QED
    BY <1>1, <2>1, VoidStillMoves DEF BookedMoves
<1> QED
  BY <1>9, <1>10 DEF BookedMoves

LEMMA BookedOtherwise ==
  ASSUME JournalsStand, Reversals, BookedMoves, UNCHANGED <<sales, returns>>
  PROVE  BookedMoves'
<1>1. ASSUME NEW i \in Voided' PROVE VoidMoves(i)'
  <2>1. i \in Voided
    BY DEF Voided
  <2> QED
    BY <2>1, VoidStillMoves DEF BookedMoves
<1>2. ASSUME NEW k \in DOMAIN returns' PROVE ReturnBooked(k)'
  BY ReturnStillBooked DEF BookedMoves
<1> QED
  BY <1>1, <1>2 DEF BookedMoves

LEMMA NextMoves ==
  ASSUME BooksInv, BooksInv', Known, BookedMoves, [Next]_vars
  PROVE  BookedMoves'
<1>1. TypeOK /\ Safe /\ JournalsStand /\ Reversals
  BY NextReverses DEF BooksInv, PosInv, Safe
<1>2. ASSUME NEW w \in Workers, CompleteCommit(w) PROVE BookedMoves'
  BY <1>1, <1>2, CommitSells, BookedWhenSold
<1>3. ASSUME NEW w \in Workers, VoidCommit(w) \/ ReturnCommit(w) PROVE BookedMoves'
  BY <1>1, <1>3, BookedWhenVoided, BookedWhenReturned
<1>4. CASE SalesNext
  <2>1. ASSUME NEW w \in Workers, Complete(w), ~ CompleteCommit(w) PROVE BookedMoves'
    <3>1. UNCHANGED <<sales, returns>>
      BY <2>1 DEF Complete, CompleteBegin, CompleteCredit, CompleteLock
    <3> QED
      BY <1>1, <3>1, BookedOtherwise
  <2>2. ASSUME NEW w \in Workers, Void(w), ~ VoidCommit(w) PROVE BookedMoves'
    <3>1. UNCHANGED <<sales, returns>>
      BY <2>2 DEF Void, VoidRead, VoidJournals
    <3> QED
      BY <1>1, <3>1, BookedOtherwise
  <2>3. ASSUME NEW w \in Workers, Return(w), ~ ReturnCommit(w) PROVE BookedMoves'
    <3>1. UNCHANGED <<sales, returns>>
      BY <2>3 DEF Return, ReturnRead
    <3> QED
      BY <1>1, <3>1, BookedOtherwise
  <2>4. ASSUME NEW w \in Workers, Abort(w) PROVE BookedMoves'
    <3>1. UNCHANGED <<sales, returns>>
      BY <2>4 DEF Abort
    <3> QED
      BY <1>1, <3>1, BookedOtherwise
  <2>5. CASE Inventory
    <3>1. UNCHANGED <<sales, returns>>
      BY <2>5 DEF Inventory, RestockProduct, EditCostPrice
    <3> QED
      BY <1>1, <3>1, BookedOtherwise
  <2> QED
    BY <1>2, <1>3, <1>4, <2>1, <2>2, <2>3, <2>4, <2>5 DEF SalesNext
<1>5. CASE ShiftNext \/ UNCHANGED vars
  <2>1. CASE UNCHANGED vars
    <3>1. UNCHANGED <<sales, returns>>
      BY <2>1 DEF vars
    <3> QED
      BY <1>1, <3>1, BookedOtherwise
  <2>2. CASE ShiftNext
    <3>1. PICK w \in Workers :
            \/ Open(w) \/ Close(w) \/ Handover(w) \/ Configure(w)
            \/ \E kind \in Aggregates : ReadAggregate(w, kind)
      BY <2>2 DEF ShiftNext
    <3>2. UNCHANGED <<sales, returns>>
      BY <3>1 DEF Open, OpenRead, OpenCommit, Close, CloseRead, CloseCommit, Handover,
                  HandoverRead, HandoverCommit, Configure, UpdateRead, AssignRead,
                  ConfigureCommit, ReadAggregate, salesState
    <3> QED
      BY <1>1, <3>2, BookedOtherwise
  <2> QED
    BY <1>5, <2>1, <2>2
<1> QED
  BY <1>4, <1>5 DEF Next

LEMMA MovesAlways == Spec => []BookedMoves
<1>1. Init => BookedMoves
  <2> SUFFICES ASSUME Init PROVE BookedMoves
    OBVIOUS
  <2>1. DOMAIN sales = {} /\ DOMAIN returns = {}
    BY DEF Init
  <2> QED
    BY <2>1 DEF BookedMoves, Voided
<1>2. BooksInv /\ BooksInv' /\ Known /\ BookedMoves /\ [Next]_vars => BookedMoves'
  BY NextMoves
<1> QED
  BY <1>1, <1>2, BooksInvariant, KnownAlways, PTL DEF Spec

--------------------------------------------------------------------------------
(* The drawer's side of the books, counted over the rows.                  *)

BalanceNumbered(js, a, N, f, g) ==
  /\ IsFiniteSet(DOMAIN f) /\ N = {g[x] : x \in DOMAIN f}
  /\ \A x \in DOMAIN f : f[x] \in Int /\ Movement(js[g[x]], a) = f[x]
  /\ \A x, y \in DOMAIN f : g[x] = g[y] => x = y

LEMMA BalanceOfImage ==
  ASSUME NEW js, NEW a, NEW N, NEW f, NEW g, BalanceNumbered(js, a, N, f, g)
  PROVE  BalanceOver(js, N, a) = SumFunction(f)
<1> DEFINE e == [n \in N |-> Movement(js[n], a)]
<1> USE DEF BalanceNumbered
<1>1. PICK S : S = DOMAIN f
  OBVIOUS
<1>2. /\ IsFiniteSet(S) /\ N = {g[x] : x \in S}
      /\ \A x, y \in S : g[x] = g[y] => x = y
  BY <1>1
<1>3. \A x \in S : f[x] \in Int /\ e[g[x]] = f[x]
  <2> SUFFICES ASSUME NEW x \in S PROVE f[x] \in Int /\ e[g[x]] = f[x]
    OBVIOUS
  <2>1. g[x] \in N
    BY <1>2
  <2> QED
    BY <1>1, <2>1
<1>4. BalanceOver(js, N, a) = SumFunctionOnSet(e, N) /\ SumFunction(f) = SumFunctionOnSet(f, S)
  BY <1>1 DEF BalanceOver, SumFunction
<1> HIDE DEF e, BalanceNumbered
<1>5. SumFunctionOnSet(e, {g[x] : x \in S}) = SumFunctionOnSet(f, S)
  BY <1>2, <1>3, SumImage
<1> QED
  BY <1>2, <1>4, <1>5

SoldOn(s) == {i \in DOMAIN sales : sales[i].shift = s}
VoidedOn(s) == {i \in Voided : sales[i].shift = s}
BackOn(s) == {k \in DOMAIN returns : sales[returns[k].sale].shift = s}

LEMMA DrawerNumbers ==
  ASSUME JournalsStand, BookedMoves, NEW s
  PROVE  /\ BookedFor(s) = {<<"POS", i>> : i \in SoldOn(s)}
                             \union {<<"VOID", "POS", i>> : i \in VoidedOn(s)}
                             \union {<<"RETURN", k>> : k \in BackOn(s)}
         /\ BookedFor(s) \subseteq DOMAIN journals
<1>1. ASSUME NEW n \in BookedFor(s)
      PROVE  \/ \E i \in SoldOn(s) : n = <<"POS", i>>
             \/ \E i \in VoidedOn(s) : n = <<"VOID", "POS", i>>
             \/ \E k \in BackOn(s) : n = <<"RETURN", k>>
  <2>1. /\ n \in DOMAIN journals /\ FromRow(n)
        /\ \/ n[1] = "POS" /\ sales[n[2]].shift = s
           \/ n[1] = "VOID" /\ n[2] = "POS" /\ sales[n[3]].shift = s
           \/ n[1] = "RETURN" /\ sales[returns[n[2]].sale].shift = s
    BY DEF BookedFor, JournalsStand, BookedFromRows
  <2>2. CASE \E i \in DOMAIN sales : n \in JournalsOf(i)
    <3>1. PICK i \in DOMAIN sales : n = <<"POS", i>> \/ n = <<"COGS", i>>
      BY <2>2 DEF JournalsOf
    <3>2. CASE n = <<"POS", i>>
      BY <2>1, <3>2 DEF SoldOn
    <3>3. CASE n = <<"COGS", i>>
      BY <2>1, <3>3
    <3> QED
      BY <3>1, <3>2, <3>3
  <2>3. CASE \E i \in Voided : \E j \in JournalsOf(i) : n = VoidNumber(j)
    <3>1. PICK i \in Voided : n = <<"VOID", "POS", i>> \/ n = <<"VOID", "COGS", i>>
      BY <2>3 DEF JournalsOf, VoidNumber
    <3>2. CASE n = <<"VOID", "POS", i>>
      BY <2>1, <3>2 DEF VoidedOn
    <3>3. CASE n = <<"VOID", "COGS", i>>
      BY <2>1, <3>3
    <3> QED
      BY <3>1, <3>2, <3>3
  <2>4. CASE \E k \in DOMAIN returns : n = <<"RETURN", k>>
    <3>1. PICK k \in DOMAIN returns : n = <<"RETURN", k>>
      BY <2>4
    <3> QED
      BY <2>1, <3>1 DEF BackOn
  <2>5. CASE \E m : n = <<"RESTOCK", m>> \/ n = <<"OPENING", m>>
    BY <2>1, <2>5
  <2> QED
    BY <2>1, <2>2, <2>3, <2>4, <2>5 DEF FromRow
<1>2. ASSUME NEW i \in SoldOn(s) PROVE <<"POS", i>> \in BookedFor(s)
  <2>1. i \in DOMAIN sales /\ sales[i].shift = s /\ SaleBooked(i)
    BY DEF SoldOn, JournalsStand
  <2>2. <<"POS", i>> \in DOMAIN journals
    BY <2>1 DEF SaleBooked
  <2> QED
    BY <2>1, <2>2 DEF BookedFor
<1>3. ASSUME NEW i \in VoidedOn(s) PROVE <<"VOID", "POS", i>> \in BookedFor(s)
  <2>1. i \in Voided /\ sales[i].shift = s
    BY DEF VoidedOn
  <2> QED
    BY <2>1, VoidStands DEF BookedFor
<1>4. ASSUME NEW k \in BackOn(s) PROVE <<"RETURN", k>> \in BookedFor(s)
  <2>1. k \in DOMAIN returns /\ sales[returns[k].sale].shift = s /\ ReturnBooked(k)
    BY DEF BackOn, BookedMoves
  <2>2. <<"RETURN", k>> \in DOMAIN journals
    BY <2>1 DEF ReturnBooked
  <2> QED
    BY <2>1, <2>2 DEF BookedFor
<1>5. BookedFor(s) \subseteq DOMAIN journals
  BY DEF BookedFor
<1> QED
  BY <1>1, <1>2, <1>3, <1>4, <1>5

(* Whatever was sold on a shift, less what was voided and given back.      *)
LEMMA DrawerMoves ==
  ASSUME TypeOK, JournalsStand, BookedMoves, NEW s
  PROVE  BalanceOver(journals, BookedFor(s), "1000") =
           SumFunction([i \in SoldOn(s) |-> Total(sales[i].cart) - sales[i].credit])
           + SumFunction([i \in VoidedOn(s) |-> sales[i].credit - Total(sales[i].cart)])
           + SumFunction([k \in BackOn(s) |->
                            - (returns[k].qty * Gross(returns[k].product))])
<1> DEFINE sold == [i \in SoldOn(s) |-> Total(sales[i].cart) - sales[i].credit]
           void == [i \in VoidedOn(s) |-> sales[i].credit - Total(sales[i].cart)]
           back == [k \in BackOn(s) |-> - (returns[k].qty * Gross(returns[k].product))]
           P == {<<"POS", i>> : i \in SoldOn(s)}
           V == {<<"VOID", "POS", i>> : i \in VoidedOn(s)}
           R == {<<"RETURN", k>> : k \in BackOn(s)}
<1>1. /\ SoldOn(s) \subseteq DOMAIN sales /\ VoidedOn(s) \subseteq Voided
      /\ Voided \subseteq DOMAIN sales /\ BackOn(s) \subseteq DOMAIN returns
  BY DEF SoldOn, VoidedOn, Voided, BackOn
<1>2. IsFiniteSet(SoldOn(s)) /\ IsFiniteSet(VoidedOn(s)) /\ IsFiniteSet(BackOn(s))
  BY <1>1, SalesFinite, ReturnsFinite, FS_Subset
<1>3. BookedFor(s) = P \union V \union R /\ BookedFor(s) \subseteq DOMAIN journals
  BY DrawerNumbers
<1>4. \A i \in DOMAIN sales : Total(sales[i].cart) \in Int /\ sales[i].credit \in Int
  BY SaleAmounts
<1>5. BalanceOver(journals, P, "1000") = SumFunction(sold)
  <2>1. PICK g : g = [i \in SoldOn(s) |-> <<"POS", i>>]
    OBVIOUS
  <2>2. ASSUME NEW i \in SoldOn(s)
        PROVE  sold[i] \in Int /\ Movement(journals[g[i]], "1000") = sold[i]
    <3>1. /\ i \in DOMAIN sales /\ SaleBooked(i)
          /\ sales[i].cart \in Cart /\ sales[i].credit \in Nat
      BY <1>1, SaleAmounts DEF JournalsStand
    <3>2. PICK j : j = journals[<<"POS", i>>]
      OBVIOUS
    <3>3. j.lines = Normalized(SaleLines(sales[i]))
      BY <3>1, <3>2 DEF SaleBooked
    <3>4. Movement(j, "1000") = Total(sales[i].cart) - sales[i].credit
      BY <3>1, <3>3, SaleMoves
    <3> QED
      BY <1>4, <2>1, <3>1, <3>2, <3>4
  <2>3. P = {g[i] : i \in SoldOn(s)}
    BY <2>1
  <2>4. \A x, y \in SoldOn(s) : g[x] = g[y] => x = y
    BY <2>1
  <2>5. DOMAIN sold = SoldOn(s)
    OBVIOUS
  <2> HIDE DEF sold, P
  <2>6. BalanceNumbered(journals, "1000", P, sold, g)
    BY <1>2, <2>2, <2>3, <2>4, <2>5 DEF BalanceNumbered
  <2> QED
    BY <2>6, BalanceOfImage
<1>6. BalanceOver(journals, V, "1000") = SumFunction(void)
  <2>1. PICK g : g = [i \in VoidedOn(s) |-> <<"VOID", "POS", i>>]
    OBVIOUS
  <2>2. ASSUME NEW i \in VoidedOn(s)
        PROVE  void[i] \in Int /\ Movement(journals[g[i]], "1000") = void[i]
    <3>1. i \in DOMAIN sales /\ VoidMoves(i)
      BY <1>1 DEF BookedMoves
    <3> QED
      BY <1>4, <2>1, <3>1 DEF VoidMoves
  <2>3. V = {g[i] : i \in VoidedOn(s)}
    BY <2>1
  <2>4. \A x, y \in VoidedOn(s) : g[x] = g[y] => x = y
    BY <2>1
  <2>5. DOMAIN void = VoidedOn(s)
    OBVIOUS
  <2> HIDE DEF void, V
  <2>6. BalanceNumbered(journals, "1000", V, void, g)
    BY <1>2, <2>2, <2>3, <2>4, <2>5 DEF BalanceNumbered
  <2> QED
    BY <2>6, BalanceOfImage
<1>7. BalanceOver(journals, R, "1000") = SumFunction(back)
  <2>1. PICK g : g = [k \in BackOn(s) |-> <<"RETURN", k>>]
    OBVIOUS
  <2>2. ASSUME NEW k \in BackOn(s)
        PROVE  back[k] \in Int /\ Movement(journals[g[k]], "1000") = back[k]
    <3>1. k \in DOMAIN returns /\ ReturnBooked(k)
      BY <1>1 DEF BookedMoves
    <3>2. returns[k].qty * Gross(returns[k].product) \in Int
      BY <3>1, ReturnsFinite
    <3> QED
      BY <2>1, <3>1, <3>2 DEF ReturnBooked
  <2>3. R = {g[k] : k \in BackOn(s)}
    BY <2>1
  <2>4. \A x, y \in BackOn(s) : g[x] = g[y] => x = y
    BY <2>1
  <2>5. DOMAIN back = BackOn(s)
    OBVIOUS
  <2> HIDE DEF back, R
  <2>6. BalanceNumbered(journals, "1000", R, back, g)
    BY <1>2, <2>2, <2>3, <2>4, <2>5 DEF BalanceNumbered
  <2> QED
    BY <2>6, BalanceOfImage
<1>8. /\ P \intersect V = {} /\ (P \union V) \intersect R = {}
  <2>1. \A n \in P : n[1] = "POS"
    OBVIOUS
  <2>2. \A n \in V : n[1] = "VOID"
    OBVIOUS
  <2>3. \A n \in R : n[1] = "RETURN"
    OBVIOUS
  <2> HIDE DEF P, V, R
  <2> QED
    BY <2>1, <2>2, <2>3
<1>9. BooksOK(journals)
  BY DEF JournalsStand
<1> HIDE DEF P, V, R, sold, void, back
<1>10. BalanceOver(journals, P \union V, "1000") =
         BalanceOver(journals, P, "1000") + BalanceOver(journals, V, "1000")
  BY <1>3, <1>8, <1>9, BalanceOfUnion
<1>11. BalanceOver(journals, (P \union V) \union R, "1000") =
         BalanceOver(journals, P \union V, "1000") + BalanceOver(journals, R, "1000")
  <2>1. (P \union V) \in SUBSET DOMAIN journals /\ R \in SUBSET DOMAIN journals
    BY <1>3
  <2> QED
    BY <1>8, <1>9, <2>1, BalanceOfUnion
<1>12. BalanceOver(journals, BookedFor(s), "1000") =
         SumFunction(sold) + SumFunction(void) + SumFunction(back)
  BY <1>3, <1>5, <1>6, <1>7, <1>10, <1>11
<1> QED
  BY <1>12 DEF sold, void, back

(* Nothing was given back of a sale that was voided.                       *)
NoneBack == \A i \in Voided : ReturnsOf(i) = {}

(* The three aggregates of a shift come to what the books have for it.     *)
LEMMA DrawerCount ==
  ASSUME TypeOK, JournalsStand, Known, BookedMoves, NoneBack, NEW s
  PROVE  /\ \A kind \in Aggregates : Aggregate(kind, s) \in Int
         /\ Aggregate("cash", s) - Aggregate("change", s) - Aggregate("returned", s)
              = DrawerBooked(s)
<1> DEFINE S == SalesOn(s)
           V == VoidedOn(s)
           T == SoldOn(s)
           R == BackOn(s)
           net == [i \in T |-> Total(sales[i].cart) - sales[i].credit]
           kept == [i \in S |-> Total(sales[i].cart) - sales[i].credit]
           gone == [i \in V |-> Total(sales[i].cart) - sales[i].credit]
           void == [i \in V |-> sales[i].credit - Total(sales[i].cart)]
           cash == [i \in S |-> sales[i].cash]
           card == [i \in S |-> sales[i].card]
           change == [i \in S |-> Paid(sales[i]) - Total(sales[i].cart)]
           both == [i \in S |-> sales[i].cash + sales[i].card]
           refund == [k \in R |-> returns[k].qty * Gross(returns[k].product)]
           back == [k \in R |-> - (returns[k].qty * Gross(returns[k].product))]
<1>1. /\ T = S \union V /\ S \intersect V = {} /\ T \subseteq DOMAIN sales
      /\ S \subseteq DOMAIN sales /\ V \subseteq DOMAIN sales /\ R \subseteq DOMAIN returns
  <2>1. \A i \in DOMAIN sales : sales[i].status \in {"COMPLETED", "VOIDED"}
    BY SaleType DEF Sale
  <2> QED
    BY <2>1 DEF SalesOn, Completed, VoidedOn, Voided, SoldOn, BackOn
<1>2. IsFiniteSet(T) /\ IsFiniteSet(S) /\ IsFiniteSet(V) /\ IsFiniteSet(R)
  BY <1>1, SalesFinite, ReturnsFinite, FS_Subset
<1>3. \A i \in DOMAIN sales :
        /\ Total(sales[i].cart) \in Int /\ sales[i].cash \in Int /\ sales[i].card \in Int
        /\ sales[i].credit \in Int
        /\ Paid(sales[i]) = sales[i].cash + sales[i].card + sales[i].credit
  <2> SUFFICES ASSUME NEW i \in DOMAIN sales
               PROVE  /\ Total(sales[i].cart) \in Int /\ sales[i].cash \in Int
                      /\ sales[i].card \in Int /\ sales[i].credit \in Int
                      /\ Paid(sales[i]) = sales[i].cash + sales[i].card + sales[i].credit
    OBVIOUS
  <2>1. sales[i].cash \in Nat /\ sales[i].card \in Nat /\ sales[i].credit \in Nat
    BY SaleType DEF Sale
  <2> QED
    BY <2>1, SaleAmounts DEF Paid
<1>4. \A k \in R : returns[k].qty * Gross(returns[k].product) \in Int
  BY <1>1, ReturnsFinite
<1>5. {k \in DOMAIN returns : returns[k].sale \in S} = R
  <2>1. \A k \in DOMAIN returns : returns[k].sale \in DOMAIN sales /\ returns[k].sale \notin Voided
    BY DEF Known, RowsKnown, NoneBack, ReturnsOf
  <2>2. \A i \in DOMAIN sales : sales[i].status \in {"COMPLETED", "VOIDED"}
    BY SaleType DEF Sale
  <2> QED
    BY <2>1, <2>2 DEF SalesOn, Completed, Voided, BackOn
<1>6. /\ Aggregate("cash", s) = SumFunction(cash)
      /\ Aggregate("change", s) = SumFunction(change)
      /\ Aggregate("returned", s) = SumFunction(refund)
  BY <1>5 DEF Aggregate
<1>7. DrawerBooked(s) =
        (SumFunction(net) + SumFunction(void) + SumFunction(back)) - SumFunction(card)
  <2>1. {i \in Kept : sales[i].shift = s} = S
    BY DEF Kept, SalesOn, Completed
  <2> QED
    BY <2>1, DrawerMoves DEF DrawerBooked
<1>8. /\ DOMAIN net = T /\ DOMAIN kept = S /\ DOMAIN gone = V /\ DOMAIN void = V
      /\ DOMAIN cash = S /\ DOMAIN card = S /\ DOMAIN change = S /\ DOMAIN both = S
      /\ DOMAIN refund = R /\ DOMAIN back = R
  OBVIOUS
<1>9. /\ \A i \in S : /\ kept[i] \in Int /\ cash[i] \in Int /\ card[i] \in Int
                      /\ change[i] \in Int /\ both[i] \in Int
                      /\ both[i] = cash[i] + card[i] /\ both[i] = change[i] + kept[i]
                      /\ net[i] = kept[i]
      /\ \A i \in V : gone[i] \in Int /\ void[i] \in Int /\ void[i] = (-1) * gone[i]
                      /\ net[i] = gone[i]
      /\ \A i \in T : net[i] \in Int
      /\ \A k \in R : refund[k] \in Int /\ back[k] = (-1) * refund[k]
  <2>1. ASSUME NEW i \in S
        PROVE  /\ kept[i] \in Int /\ cash[i] \in Int /\ card[i] \in Int
               /\ change[i] \in Int /\ both[i] \in Int
               /\ both[i] = cash[i] + card[i] /\ both[i] = change[i] + kept[i]
               /\ net[i] = kept[i]
    BY <1>1, <1>3
  <2>2. ASSUME NEW i \in V
        PROVE  gone[i] \in Int /\ void[i] \in Int /\ void[i] = (-1) * gone[i] /\ net[i] = gone[i]
    BY <1>1, <1>3
  <2>3. ASSUME NEW i \in T PROVE net[i] \in Int
    BY <1>1, <1>3
  <2>4. ASSUME NEW k \in R PROVE refund[k] \in Int /\ back[k] = (-1) * refund[k]
    BY <1>4
  <2> QED
    BY <2>1, <2>2, <2>3, <2>4
<1> HIDE DEF S, V, T, R, net, kept, gone, void, cash, card, change, both, refund, back
<1>10. /\ SumFunction(cash) \in Int /\ SumFunction(card) \in Int /\ SumFunction(change) \in Int
       /\ SumFunction(kept) \in Int /\ SumFunction(gone) \in Int /\ SumFunction(refund) \in Int
  BY <1>2, <1>8, <1>9, TotalType
<1>11. SumFunction(both) = SumFunction(cash) + SumFunction(card)
  BY <1>2, <1>8, <1>9, TotalPlus
<1>12. SumFunction(both) = SumFunction(change) + SumFunction(kept)
  BY <1>2, <1>8, <1>9, TotalPlus
<1>13. SumFunction(net) = SumFunction(kept) + SumFunction(gone)
  <2>1. SumFunctionOnSet(net, S \union V) = SumFunctionOnSet(net, S) + SumFunctionOnSet(net, V)
    BY <1>1, <1>2, <1>9, SumUnion
  <2>2. SumFunctionOnSet(net, S) = SumFunctionOnSet(kept, S)
    BY <1>2, <1>9, SumSame
  <2>3. SumFunctionOnSet(net, V) = SumFunctionOnSet(gone, V)
    BY <1>2, <1>9, SumSame
  <2> QED
    BY <1>1, <1>8, <2>1, <2>2, <2>3 DEF SumFunction
<1>14. SumFunction(void) = (-1) * SumFunction(gone)
  BY <1>2, <1>8, <1>9, SumTimes DEF SumFunction
<1>15. SumFunction(back) = (-1) * SumFunction(refund)
  BY <1>2, <1>8, <1>9, SumTimes DEF SumFunction
<1>16. \A kind \in Aggregates : Aggregate(kind, s) \in Int
  BY AggregateType
<1> QED
  BY <1>6, <1>7, <1>10, <1>11, <1>12, <1>13, <1>14, <1>15, <1>16

--------------------------------------------------------------------------------
(* One request at a time: the aggregates it has are those there are.       *)

SumsStill(label, j) ==
  label \in {"closing", "handing"} =>
    \A kind \in DOMAIN j.sums : j.sums[kind] = Aggregate(kind, j.shift)

DrawerInv == NoneBack /\ \A v \in Workers : SumsStill(pc[v], job[v])

LEMMA DrawerTurn ==
  ASSUME OneAtATime, TypeOK, NEW w \in Workers, NEW label, NEW j, Turn(w, label, j),
         SumsStill(label, j)', NoneBack'
  PROVE  DrawerInv'
<1> SUFFICES ASSUME NEW v \in Workers PROVE SumsStill(pc[v], job[v])'
  BY DEF DrawerInv
<1>1. v = w /\ pc'[v] = label /\ job'[v] = j
  BY DEF OneAtATime, Turn, TypeOK, JobsOK
<1> QED
  BY <1>1 DEF SumsStill

LEMMA DrawerDone ==
  ASSUME OneAtATime, TypeOK, NEW w \in Workers, Done(w), NoneBack'
  PROVE  DrawerInv'
<1>1. SumsStill("idle", None)'
  BY DEF SumsStill
<1> QED
  BY <1>1, DrawerTurn DEF Done

LEMMA AggregatesStay ==
  ASSUME UNCHANGED <<sales, returns>>
  PROVE  /\ \A kind, s : Aggregate(kind, s)' = Aggregate(kind, s)
         /\ NoneBack => NoneBack'
BY DEF Aggregate, SalesOn, Completed, NoneBack, Voided, ReturnsOf

LEMMA DrawerReads ==
  ASSUME OneAtATime, TypeOK, DrawerInv, NEW w \in Workers, NEW label, NEW j, Reads(w, label, j)
  PROVE  DrawerInv'
<1>1. Turn(w, label, j) /\ UNCHANGED <<sales, returns>> /\ SumsStill(pc[w], job[w])
  BY DEF Reads, RowsStay, DrawerInv
<1>2. SumsStill(label, j)
  <2>1. CASE label = "idle"
    BY <2>1 DEF SumsStill
  <2>2. CASE Finds(label, j)
    <3>1. label \in {"closing", "handing"} => DOMAIN j.sums = {}
      BY <2>2 DEF Finds
    <3> QED
      BY <3>1 DEF SumsStill
  <2>3. CASE Advances(w, label, j)
    BY <1>1, <2>3 DEF Advances, SumsStill
  <2> QED
    BY <2>1, <2>2, <2>3 DEF Reads
<1>3. SumsStill(label, j)'
  BY <1>1, <1>2, AggregatesStay DEF SumsStill
<1>4. NoneBack'
  BY <1>1, AggregatesStay DEF DrawerInv
<1> QED
  BY <1>1, <1>3, <1>4, DrawerTurn

LEMMA NextDrawer ==
  ASSUME OneAtATime, TypeOK, Safe, JournalsStand, Known, LimitsInv, DrawerInv, [Next]_vars
  PROVE  DrawerInv'
<1>0. NoneBack /\ \A v \in Workers : StillSo(pc[v], job[v])
  BY DEF DrawerInv, LimitsInv
<1>1. ASSUME NEW w \in Workers, NEW r, NEW s, NEW e, Sells(w, r, s, e) PROVE DrawerInv'
  <2>1. /\ Len(sales) + 1 \notin DOMAIN sales
        /\ DOMAIN sales' = DOMAIN sales \union {Len(sales) + 1}
        /\ sales'[Len(sales) + 1] = e /\ \A k \in DOMAIN sales : sales'[k] = sales[k]
    BY <1>1, SellsKnown
  <2>2. Done(w) /\ e.status = "COMPLETED" /\ returns' = returns
    BY <1>1 DEF Sells
  <2>3. NoneBack'
    BY <1>0, <2>1, <2>2 DEF NoneBack, Voided, ReturnsOf
  <2> QED
    BY <2>2, <2>3, DrawerDone
<1>2. ASSUME NEW w \in Workers, NEW i, NEW e, Voids(w, i, e) PROVE DrawerInv'
  <2>1. /\ pc[w] = "reversing" /\ i = job[w].sale /\ i \in DOMAIN sales /\ Done(w)
        /\ sales' = [sales EXCEPT ![i] = e] /\ returns' = returns
    BY <1>2 DEF Voids
  <2>2. ReturnsOf(i) = {}
    BY <1>0, <2>1 DEF StillSo
  <2>3. /\ DOMAIN sales' = DOMAIN sales
        /\ \A k \in DOMAIN sales \ {i} : sales'[k] = sales[k]
    BY <2>1
  <2>4. NoneBack'
    BY <1>0, <2>1, <2>2, <2>3 DEF NoneBack, Voided, ReturnsOf
  <2> QED
    BY <2>1, <2>4, DrawerDone
<1>3. ASSUME NEW w \in Workers, Returns(w) PROVE DrawerInv'
  <2>1. pc[w] = "returning" /\ Done(w) /\ sales' = sales
    BY <1>3 DEF Returns
  <2>2. /\ DOMAIN returns' = DOMAIN returns \union {Len(returns) + 1}
        /\ returns'[Len(returns) + 1] = job[w]
        /\ \A k \in DOMAIN returns : returns'[k] = returns[k]
    BY <1>3, ReturnsKnown
  <2>3. job[w].sale \notin Voided
    BY <1>0, <2>1 DEF StillSo, Voided
  <2>4. NoneBack'
    BY <1>0, <2>1, <2>2, <2>3 DEF NoneBack, Voided, ReturnsOf
  <2> QED
    BY <2>1, <2>4, DrawerDone
<1>4. ASSUME NEW w \in Workers, Opens(w) \/ \E s, e : Closes(w, s, e) PROVE DrawerInv'
  <2>1. Done(w) /\ UNCHANGED <<sales, returns>>
    BY <1>4 DEF Opens, Closes
  <2>2. NoneBack'
    BY <1>0, <2>1, AggregatesStay
  <2> QED
    BY <2>1, <2>2, DrawerDone
<1>5. CASE UNCHANGED <<sales, returns, shifts, pc, job>>
  <2>1. ASSUME NEW v \in Workers PROVE SumsStill(pc[v], job[v])'
    <3>1. SumsStill(pc[v], job[v])
      BY DEF DrawerInv
    <3> QED
      BY <1>5, <3>1, AggregatesStay DEF SumsStill
  <2>2. NoneBack'
    BY <1>0, <1>5, AggregatesStay
  <2> QED
    BY <2>1, <2>2 DEF DrawerInv
<1>6. ASSUME NEW w \in Workers, RowStep(w) PROVE DrawerInv'
  BY <1>1, <1>2, <1>3, <1>4, <1>6, DrawerReads DEF RowStep
<1> QED
  BY <1>5, <1>6, RowSteps

LEMMA NextCounts ==
  ASSUME TypeOK, Safe, JournalsStand, Known, BookedMoves, DrawerInv, [Next]_vars
  PROVE  ClosingCount
<1> SUFFICES ASSUME NEW s \in DOMAIN shifts, shifts[s].status = "OPEN",
                    shifts'[s].status = "CLOSED"
             PROVE  shifts'[s].expected = shifts[s].opening + DrawerBooked(s)
  BY DEF ClosingCount
<1>1. PICK w \in Workers : \E x, e : Closes(w, x, e)
  <2>1. shifts' # shifts
    OBVIOUS
  <2>2. ASSUME NEW w \in Workers, Opens(w) PROVE FALSE
    <3>1. job[w] \in ShiftRow /\ shifts' = Append(shifts, job[w])
      BY <2>2 DEF Opens, Known, KnownTo
    <3>2. shifts'[s] = shifts[s]
      BY <3>1, RowAppended DEF Known, RowsKnown
    <3> QED
      BY <3>2
  <2>3. ASSUME NEW w \in Workers, NEW r, NEW x, NEW e, Sells(w, r, x, e) PROVE FALSE
    <3>1. PICK row : row = [register |-> r.register, cashier |-> r.cashier,
                            opening |-> 0, status |-> "OPEN", expected |-> 0]
      OBVIOUS
    <3>2. shifts' = Append(shifts, row)
      BY <2>1, <2>3, <3>1 DEF Sells
    <3>3. row \in ShiftRow
      <4>1. r \in Checkout
        BY <2>3, PosAssumption DEF Sells
      <4> QED
        BY <3>1, <4>1 DEF ShiftRow, Checkout
    <3>4. shifts'[s] = shifts[s]
      BY <3>2, <3>3, RowAppended DEF Known, RowsKnown
    <3> QED
      BY <3>4
  <2>4. ASSUME NEW w \in Workers, RowStep(w) PROVE \E x, e : Closes(w, x, e)
    <3>1. ~ (\E label, j : Reads(w, label, j))
      BY <2>1 DEF Reads, RowsStay
    <3>2. ~ (\E i, e : Voids(w, i, e)) /\ ~ Returns(w)
      BY <2>1 DEF Voids, Returns
    <3> QED
      BY <2>2, <2>3, <2>4, <3>1, <3>2 DEF RowStep
  <2> QED
    BY <2>1, <2>4, RowSteps
<1>2. PICK x, e : Closes(w, x, e)
  BY <1>1
<1>3. /\ pc[w] \in {"closing", "handing"} /\ x = job[w].shift /\ x \in DOMAIN shifts
      /\ DOMAIN job[w].sums = Aggregates /\ e.expected = Expected(x, job[w].sums)
      /\ shifts' = [shifts EXCEPT ![x] = e]
  BY <1>2 DEF Closes
<1>4. s = x /\ shifts'[s] = e
  BY <1>3
<1>5. \A kind \in Aggregates : job[w].sums[kind] = Aggregate(kind, s)
  <2>1. SumsStill(pc[w], job[w])
    BY DEF DrawerInv
  <2> QED
    BY <1>3, <1>4, <2>1 DEF SumsStill
<1>6. Expected(s, job[w].sums) =
        shifts[s].opening + Aggregate("cash", s) - Aggregate("change", s) - Aggregate("returned", s)
  BY <1>5 DEF Expected, Aggregates
<1>7. /\ Aggregate("cash", s) \in Int /\ Aggregate("change", s) \in Int
      /\ Aggregate("returned", s) \in Int
      /\ Aggregate("cash", s) - Aggregate("change", s) - Aggregate("returned", s) = DrawerBooked(s)
  BY DrawerCount DEF DrawerInv, Aggregates
<1>8. shifts[s].opening \in Int
  <2>1. shifts[s] \in ShiftRow
    BY ShiftFacts
  <2> QED
    BY <2>1 DEF ShiftRow
<1> QED
  BY <1>3, <1>4, <1>6, <1>7, <1>8

(* With one request at a time the cash a shift is closed with is its float *)
(* and what the books have for its drawer: every sale, void and return of  *)
(* the shift is in both (closeShift and handoverRegister against           *)
(* postSaleJournals, voidSale and returnItem).                             *)
THEOREM DrawersAgree ==
  ASSUME OneAtATime
  PROVE  Spec => DrawerAgreesWithLedger
<1>1. Init => DrawerInv
  <2> SUFFICES ASSUME Init PROVE DrawerInv
    OBVIOUS
  <2>1. DOMAIN sales = {} /\ \A v \in Workers : pc[v] = "idle"
    BY DEF Init
  <2> QED
    BY <2>1 DEF DrawerInv, NoneBack, Voided, SumsStill
<1>2. BooksInv /\ Known /\ LimitsInv /\ DrawerInv /\ [Next]_vars => DrawerInv'
  BY OneAtATime, NextDrawer DEF BooksInv, PosInv, Safe
<1>3. BooksInv /\ Known /\ BookedMoves /\ DrawerInv /\ [Next]_vars => [ClosingCount]_vars
  BY NextCounts DEF BooksInv, PosInv, Safe
<1>4. Spec => []LimitsInv
  BY OneAtATime, LimitsInvariant
<1> QED
  BY <1>1, <1>2, <1>3, <1>4, BooksInvariant, KnownAlways, MovesAlways, PTL
     DEF Spec, DrawerAgreesWithLedger

================================================================================
