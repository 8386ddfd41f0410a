-------------------------------- MODULE PosSales --------------------------------
(***************************************************************************)
(* The point of sale of one organization (PosService in                    *)
(* src/src/modules/pos/pos.service.ts): completing, voiding and returning  *)
(* sales, with the stock and the journals they write, and the two stock    *)
(* handlers of OperationsService the tills meet (restockProduct, and       *)
(* updateProduct when it changes a cost price).                            *)
(*                                                                         *)
(* A request is served by a worker.  Every statement of an interactive     *)
(* transaction runs at READ COMMITTED, so a transaction is a few read      *)
(* steps, each seeing what is committed by then, and one commit step that  *)
(* applies all of its writes, or none (Abort: an exception, the            *)
(* transaction timeout, a lost connection, a crash of the process).  A     *)
(* commit checks the unique indexes, which is where PostgreSQL refuses a   *)
(* duplicate.                                                              *)
(***************************************************************************)
EXTENDS AutoJournal, Sequences, FiniteSets

CONSTANTS
  Workers,        \* requests that can be in flight together
  Staff, Owners, Admins,
                  \* users; those with the role OWNER, and ADMIN
  Branches,       \* the active branches
  Manages,        \* Manages[s]: the branches s is listed as manager of
  Registers, InitialRegisters,
                  \* registers; [branch, assigned, active] of each at the start
  WarehouseOf,    \* the warehouse a register sells from
  Warehouses,
  Products, Goods,\* all that is sold; those of type PRODUCT, which have stock
  Net, Tax,       \* per unit: price after discount, and the tax on it
  Costs,          \* Costs[p]: the cost prices p may be given
  RestockQuantities, \* how much a restock may bring
  OpeningCost, OpeningHome, OpeningStock,
                  \* how createProduct entered each product
  Customers, CreditLimit,
  Checkouts,      \* the bodies of POST /pos/sales the tills send
  None,           \* an absent id
  MaxSales, MaxReturns, MaxRestocks
                  \* bounds: with so many rows no more requests begin

Cart == [Products -> Nat]

Register ==
  [branch : Branches \union {None}, assigned : Staff \union {None}, active : BOOLEAN]

Checkout ==
  [key : STRING \union {None}, cashier : Staff, register : Registers,
   branch : Branches \union {None}, customer : Customers \union {None},
   cart : Cart, cash : Nat, card : Nat, credit : Nat]

ASSUME PosAssumption ==
  /\ None \notin Workers
  /\ InitialRegisters \in [Registers -> Register]
  /\ WarehouseOf \in [Registers -> Warehouses]
  /\ IsFiniteSet(Products) /\ Goods \subseteq Products
  /\ Net \in [Products -> Int] /\ Tax \in [Products -> Int]
  /\ IsFiniteSet(Customers) /\ CreditLimit \in [Customers -> Nat]
  /\ OpeningCost \in [Products -> Nat]
  /\ OpeningStock \in [Products -> Nat]
  /\ OpeningHome \in [Products -> Warehouses]
  /\ \A p \in Products : Costs[p] \subseteq Nat
  /\ RestockQuantities \subseteq Nat
  /\ Checkouts \subseteq Checkout
  /\ {MaxSales, MaxReturns, MaxRestocks} \subseteq Nat

VARIABLES
  registers,  \* registers[r] = [branch, assigned, active]
  shifts,     \* PosShift rows: [register, cashier, opening, status, expected]
  sales,      \* PosSale rows, with their items and payments
  returns,    \* PosReturn rows: [sale, product, qty]
  stock,      \* stock[h][p]: the signed sum of the stock movements
  worth,      \* worth[p]: the same sum, each movement times its unitCost
  cost,       \* Product.costPrice
  journals,   \* the journal table, see AutoJournal
  restocks,   \* how many restocks there have been
  lock,       \* the worker that holds the organization's advisory lock
  pc,         \* pc[w]: how far w's handler has come
  job         \* job[w]: what it has read so far

stockVars == <<stock, worth>>
vars == <<registers, shifts, sales, returns, stockVars, cost, journals, restocks,
          lock, pc, job>>

--------------------------------------------------------------------------------
(* Money. *)

Gross(p)       == Net[p] + Tax[p]
Total(cart)    == SumFunction([p \in Products |-> cart[p] * Gross(p)])
TaxTotal(cart) == SumFunction([p \in Products |-> cart[p] * Tax[p]])
CostOf(cart, c) == SumFunction([p \in Goods |-> cart[p] * c[p]])
Paid(r)        == r.cash + r.card + r.credit

(* The conditions on the payments of a sale that need no read. *)
Tendered(r) ==
  /\ Paid(r) >= Total(r.cart)
  /\ r.card + r.credit <= Total(r.cart)
  /\ Paid(r) > Total(r.cart) => r.cash > 0
  /\ r.credit > 0 => r.customer # None

SaleLines(r) ==
  {Line("1000", Total(r.cart) - r.credit, 0),
   Line("1100", r.credit, 0),
   Line("4000", 0, Total(r.cart) - TaxTotal(r.cart)),
   Line("2100", 0, TaxTotal(r.cart))}

CostLines(v) == {Line("5300", v, 0), Line("1300", 0, v)}

(* A return refunds cash whatever the sale was paid with. *)
ReturnLines(p, q, v) ==
  {Line("4000", q * Net[p], 0), Line("2100", q * Tax[p], 0),
   Line("1000", 0, q * Gross(p)),
   Line("1300", v, 0), Line("5300", 0, v)}

SaleJournals(js, n, r, v) ==
  LET sold == Posted(js, <<"POS", n>>, SaleLines(r)) IN
    IF v > 0 THEN Posted(sold, <<"COGS", n>>, CostLines(v)) ELSE sold

--------------------------------------------------------------------------------
(* What the handlers read. *)

SalesOf(c)    == {i \in DOMAIN sales : sales[i].customer = c}
Completed_Any(S) == S
Completed(S)  == {i \in S : sales[i].status = "COMPLETED"}
Exposure(c)   == SumFunction([i \in Completed(SalesOf(c)) |-> sales[i].credit])
Keys          == {sales[i].key : i \in DOMAIN sales}
Receipts      == {sales[i].receipt : i \in DOMAIN sales}
OpenShifts(r) == {s \in DOMAIN shifts : shifts[s].register = r /\ shifts[s].status = "OPEN"}
NoOpenShift_Unread(r) == TRUE
NoOpenShift(r) == OpenShifts(r) = {}
ReturnsOf(i)  == {k \in DOMAIN returns : returns[k].sale = i}
Returned(i, p) ==
  SumFunction([k \in {k \in ReturnsOf(i) : returns[k].product = p} |-> returns[k].qty])

CreditFits_Unread(r) == r.credit <= CreditLimit[r.customer]
CreditFits(r) ==
  r.credit > 0 => Exposure(r.customer) + r.credit <= CreditLimit[r.customer]

LockFree_Unlocked == TRUE
LockFree == lock = None

StockCovers_InStock(r) ==
  \A p \in Goods : r.cart[p] > 0 => stock[WarehouseOf[r.register]][p] > 0
StockCovers(r) ==
  \A p \in Goods : r.cart[p] <= stock[WarehouseOf[r.register]][p]

(* The unique indexes (organization, idempotencyKey) and (organization,    *)
(* receiptNumber), looked up when the row is inserted.                     *)
IndexAdmits_Unindexed(k, n) == n \notin Receipts
IndexAdmits(k, n) ==
  /\ k # None => k \notin Keys
  /\ n \notin Receipts

LeftToReturn_SoldOnly(i, p, q) == q <= sales[i].cart[p]
LeftToReturn(i, p, q) == Returned(i, p) + q <= sales[i].cart[p]

CanUseRegister(staff, reg) ==
  IF reg.branch = None THEN reg.assigned = staff ELSE reg.branch \in Manages[staff]

(* Whose sales a user may void or take back. *)
MayTouch(staff, sale) ==
  \/ staff \in Owners
  \/ staff \in Admins /\ (sale.cashier = staff \/ sale.branch \in Manages[staff])

--------------------------------------------------------------------------------

Turn(w, label, j) ==
  /\ pc' = [pc EXCEPT ![w] = label]
  /\ job' = [job EXCEPT ![w] = j]

Done(w) == Turn(w, "idle", None)

(* Goods that enter (sign 1) or leave (sign -1) a warehouse at unit costs c. *)
Move(h, sign, cart, c) ==
  /\ stock' = [stock EXCEPT ![h] =
                 [p \in Products |-> IF p \in Goods THEN stock[h][p] + sign * cart[p] ELSE stock[h][p]]]
  /\ worth' = [p \in Products |->
                 IF p \in Goods THEN worth[p] + sign * cart[p] * c[p] ELSE worth[p]]

Only(p, q) == [x \in Products |-> IF x = p THEN q ELSE 0]

(* Products are created with their opening stock before the tills start. *)
Init ==
  /\ registers = InitialRegisters
  /\ shifts = <<>>
  /\ sales = <<>>
  /\ returns = <<>>
  /\ cost = OpeningCost
  /\ stock = [h \in Warehouses |-> [p \in Products |->
                IF p \in Goods /\ OpeningHome[p] = h THEN OpeningStock[p] ELSE 0]]
  /\ worth = [p \in Products |-> IF p \in Goods THEN OpeningStock[p] * OpeningCost[p] ELSE 0]
  /\ journals = [n \in {<<"OPENING", p>> : p \in {q \in Goods : OpeningStock[q] * OpeningCost[q] > 0}} |->
                  [lines |-> {Line("1300", OpeningStock[n[2]] * OpeningCost[n[2]], 0),
                              Line("3900", 0, OpeningStock[n[2]] * OpeningCost[n[2]])},
                   status |-> "POSTED"]]
  /\ restocks = 0
  /\ lock = None
  /\ pc = [w \in Workers |-> "idle"]
  /\ job = [w \in Workers |-> None]

--------------------------------------------------------------------------------
(* POST /pos/sales.  A key that has its sale already is answered with that *)
(* sale and changes nothing, so it is no action here.                      *)

(* Up to the totals: the prior sale, the shift or else the register and    *)
(* its other shifts, the branch access, the products.  shift = 0 is a      *)
(* shift to be opened by this transaction.                                 *)
CompleteBegin(w, r) ==
  /\ pc[w] = "idle"
  /\ Len(sales) < MaxSales
  /\ r.key \notin Keys \ {None}
  /\ registers[r.register].active
  /\ CanUseRegister(r.cashier, registers[r.register])
  /\ Tendered(r)
  /\ LET mine == {s \in OpenShifts(r.register) : shifts[s].cashier = r.cashier}
         read(s) == [req |-> r, shift |-> s, cost |-> cost, seen |-> 0,
                     branch |-> IF registers[r.register].branch # None
                                  THEN registers[r.register].branch
                                  ELSE r.branch]
     IN  \/ \E s \in mine : Turn(w, "priced", read(s))
         \/ /\ NoOpenShift(r.register)
            /\ Turn(w, "priced", read(0))
  /\ UNCHANGED <<registers, shifts, sales, returns, stockVars, cost, journals, restocks, lock>>

(* The customer's exposure is read before the lock is asked for. *)
CompleteCredit(w) ==
  /\ pc[w] = "priced"
  /\ CreditFits(job[w].req)
  /\ Turn(w, "cleared", job[w])
  /\ UNCHANGED <<registers, shifts, sales, returns, stockVars, cost, journals, restocks, lock>>

(* Take the advisory lock; count the receipts and the stock under it. *)
CompleteLock(w) ==
  /\ pc[w] = "cleared"
  /\ LockFree
  /\ StockCovers(job[w].req)
  /\ lock' = w
  /\ Turn(w, "locked", [job[w] EXCEPT !.seen = Len(sales)])
  /\ UNCHANGED <<registers, shifts, sales, returns, stockVars, cost, journals, restocks>>

(* The transaction's writes: the shift it opens, the sale with its items   *)
(* and payments, an ISSUE movement per product at the cost it read, the    *)
(* journals.  The two unique indexes of PosSale are checked here.          *)
CompleteCommit(w) ==
  /\ pc[w] = "locked"
  /\ LET r == job[w].req
         n == job[w].seen + 1
         v == CostOf(r.cart, job[w].cost)
         s == IF job[w].shift = 0 THEN Len(shifts) + 1 ELSE job[w].shift
     IN  /\ IndexAdmits(r.key, n)
         /\ Accepts(journals, <<"POS", n>>, SaleLines(r))
         /\ shifts' = IF job[w].shift # 0 THEN shifts ELSE
              Append(shifts, [register |-> r.register, cashier |-> r.cashier,
                              opening |-> 0, status |-> "OPEN", expected |-> 0])
         /\ sales' = Append(sales,
              [receipt |-> n, key |-> r.key, register |-> r.register, shift |-> s,
               cashier |-> r.cashier, branch |-> job[w].branch, customer |-> r.customer,
               cart |-> r.cart, cost |-> job[w].cost, voidCost |-> job[w].cost,
               cash |-> r.cash, card |-> r.card, credit |-> r.credit,
               status |-> "COMPLETED"])
         /\ Move(WarehouseOf[r.register], -1, r.cart, job[w].cost)
         /\ journals' = SaleJournals(journals, n, r, v)
  /\ lock' = None
  /\ Done(w)
  /\ UNCHANGED <<registers, returns, cost, restocks>>

--------------------------------------------------------------------------------
(* POST /pos/sales/:id/void. *)

JournalsOf(n) == {<<"POS", n>>, <<"COGS", n>>}
VoidNumber(j) == <<"VOID", j[1], j[2]>>

(* The unique index on (organization, number) of the journals. *)
NumbersFree_Unindexed(ns) == TRUE
NumbersFree(ns) == ns \intersect DOMAIN journals = {}

WithReversals_Erased(js, posted) ==
  [n \in DOMAIN js \ posted |-> js[n]]
WithReversals(js, posted) ==
  [n \in DOMAIN js \union {VoidNumber(j) : j \in posted} |->
     IF \E j \in posted : n = VoidNumber(j)
       THEN [lines |-> Mirrored(js[<<n[2], n[3]>>].lines), status |-> "POSTED"]
     ELSE IF n \in posted THEN [js[n] EXCEPT !.status = "REVERSED"]
     ELSE js[n]]

VoidRead(w, actor, i) ==
  /\ pc[w] = "idle"
  /\ sales[i].status = "COMPLETED"
  /\ MayTouch(actor, sales[i])
  /\ ReturnsOf(i) = {}
  /\ Turn(w, "voiding", [sale |-> i, cost |-> cost])
  /\ UNCHANGED <<registers, shifts, sales, returns, stockVars, cost, journals, restocks, lock>>

VoidJournals(w) ==
  /\ pc[w] = "voiding"
  /\ LET posted == {j \in JournalsOf(sales[job[w].sale].receipt) \intersect DOMAIN journals :
                      journals[j].status = "POSTED"}
     IN  /\ posted # {}
         /\ Turn(w, "reversing",
                 [sale |-> job[w].sale, cost |-> job[w].cost, posted |-> posted])
  /\ UNCHANGED <<registers, shifts, sales, returns, stockVars, cost, journals, restocks, lock>>

(* The reversals are created, not posted through the helper: a number that *)
(* is taken fails the transaction.  The goods come back at the cost price  *)
(* the product has now, not at the cost the sale was booked with.          *)
VoidCommit(w) ==
  /\ pc[w] = "reversing"
  /\ LET i == job[w].sale
         numbers == {VoidNumber(j) : j \in job[w].posted}
     IN  /\ NumbersFree(numbers)
         /\ journals' = WithReversals(journals, job[w].posted)
         /\ Move(WarehouseOf[sales[i].register], 1, sales[i].cart, job[w].cost)
         /\ sales' = [sales EXCEPT ![i].status = "VOIDED", ![i].voidCost = job[w].cost]
  /\ Done(w)
  /\ UNCHANGED <<registers, shifts, returns, cost, restocks, lock>>

--------------------------------------------------------------------------------
(* POST /pos/sales/:id/returns. *)

ReturnRead(w, actor, i, p, q) ==
  /\ pc[w] = "idle"
  /\ Len(returns) < MaxReturns
  /\ sales[i].status = "COMPLETED"
  /\ MayTouch(actor, sales[i])
  /\ sales[i].cart[p] > 0
  /\ LeftToReturn(i, p, q)
  /\ Turn(w, "returning", [sale |-> i, product |-> p, qty |-> q])
  /\ UNCHANGED <<registers, shifts, sales, returns, stockVars, cost, journals, restocks, lock>>

(* The goods come back at the cost of the movement that issued them. *)
ReturnCommit(w) ==
  /\ pc[w] = "returning"
  /\ LET i == job[w].sale
         p == job[w].product
         q == job[w].qty
         n == <<"RETURN", Len(returns) + 1>>
         lines == ReturnLines(p, q, IF p \in Goods THEN q * sales[i].cost[p] ELSE 0)
     IN  /\ Accepts(journals, n, lines)
         /\ returns' = Append(returns, job[w])
         /\ Move(WarehouseOf[sales[i].register], 1, Only(p, q), sales[i].cost)
         /\ journals' = Posted(journals, n, lines)
  /\ Done(w)
  /\ UNCHANGED <<registers, shifts, sales, cost, restocks, lock>>

--------------------------------------------------------------------------------
(* The stock handlers the tills meet, each one transaction of inserts or   *)
(* one update: nothing they read before it matters here.                   *)

RestockProduct(h, p, q, c) ==
  /\ restocks < MaxRestocks
  /\ restocks' = restocks + 1
  /\ Move(h, 1, Only(p, q), [x \in Products |-> c])
  /\ journals' =
       IF q * c > 0
         THEN Posted(journals, <<"RESTOCK", restocks + 1>>,
                     {Line("1300", q * c, 0), Line("2000", 0, q * c)})
         ELSE journals
  /\ UNCHANGED <<registers, shifts, sales, returns, cost, lock, pc, job>>

EditCostPrice(p, c) ==
  /\ c # cost[p]
  /\ cost' = [cost EXCEPT ![p] = c]
  /\ UNCHANGED <<registers, shifts, sales, returns, stockVars, journals, restocks, lock, pc, job>>

LockAfterAbort_Kept(w) == lock
LockAfterAbort(w) == IF lock = w THEN None ELSE lock

(* An exception, a timeout or a crash: the transaction is rolled back and  *)
(* the advisory lock, held to the transaction's end, goes with it.         *)
Abort(w) ==
  /\ pc[w] # "idle"
  /\ Done(w)
  /\ lock' = LockAfterAbort(w)
  /\ UNCHANGED <<registers, shifts, sales, returns, stockVars, cost, journals, restocks>>

--------------------------------------------------------------------------------

Complete(w) ==
  \/ \E r \in Checkouts : CompleteBegin(w, r)
  \/ CompleteCredit(w)
  \/ CompleteLock(w)
  \/ CompleteCommit(w)

Void(w) ==
  \/ \E a \in Staff, i \in DOMAIN sales : VoidRead(w, a, i)
  \/ VoidJournals(w)
  \/ VoidCommit(w)

Return(w) ==
  \/ \E a \in Staff, i \in DOMAIN sales, p \in Products :
       \E q \in 1 .. sales[i].cart[p] : ReturnRead(w, a, i, p, q)
  \/ ReturnCommit(w)

Inventory ==
  \/ \E h \in Warehouses, p \in Goods, q \in RestockQuantities :
       \E c \in Costs[p] : RestockProduct(h, p, q, c)
  \/ \E p \in Products : \E c \in Costs[p] : EditCostPrice(p, c)

SalesNext ==
  \/ \E w \in Workers : Complete(w) \/ Void(w) \/ Return(w) \/ Abort(w)
  \/ Inventory

SalesSpec == Init /\ [][SalesNext]_vars

(* A client that got no answer sends its checkout again, with the same     *)
(* key, and not every attempt of it times out.  A request is answered or   *)
(* rolled back: no worker stays where it is for ever.                      *)
Serving(r, w) == pc[w] \in {"priced", "cleared", "locked"} /\ job[w].req = r

Fairness ==
  /\ \A w \in Workers : WF_vars(Abort(w))
  /\ \A r \in Checkouts :
       /\ SF_vars(\E w \in Workers : CompleteBegin(w, r))
       /\ SF_vars(\E w \in Workers : Serving(r, w) /\ CompleteCredit(w))
       /\ SF_vars(\E w \in Workers : Serving(r, w) /\ CompleteLock(w))
       /\ SF_vars(\E w \in Workers : Serving(r, w) /\ CompleteCommit(w))

FairSalesSpec == SalesSpec /\ Fairness

--------------------------------------------------------------------------------
(* Properties. *)

Sale ==
  [receipt : Nat \ {0}, key : STRING \union {None}, register : Registers, shift : Nat \ {0},
   cashier : Staff, branch : Branches \union {None}, customer : Customers \union {None},
   cart : Cart, cost : [Products -> Nat], voidCost : [Products -> Nat],
   cash : Nat, card : Nat, credit : Nat, status : {"COMPLETED", "VOIDED"}]

Change ==
  [active : BOOLEAN \union {None}, assigned : Staff \union {None},
   branch : Branches \union {None}]

ReturnRow == [sale : Nat \ {0}, product : Products, qty : Nat]

CompleteJob ==
  [req : Checkouts, shift : Nat, cost : [Products -> Nat], seen : Nat,
   branch : Branches \union {None}]

IsSeq(s) == s \in Seq({s[i] : i \in DOMAIN s})

Labels ==
  {"idle", "priced", "cleared", "locked", "voiding", "reversing", "returning",
   "opening", "closing", "handing", "configuring"}

(* What a handler has read by the time it is where label says.             *)
JobOK(label, j) ==
  /\ label \in {"priced", "cleared", "locked"} => j \in CompleteJob
  /\ label \in {"voiding", "reversing"} => j.sale \in DOMAIN sales /\ j.cost \in [Products -> Nat]
  /\ label = "returning" => j \in ReturnRow /\ j.sale \in DOMAIN sales
  /\ label = "handing" =>
       /\ {"register", "to", "branch"} \subseteq DOMAIN j
       /\ j.register \in Registers /\ j.to \in Staff /\ j.branch \in Branches
  /\ label = "configuring" => j.register \in Registers /\ j.change \in Change

RowsOK ==
  /\ registers \in [Registers -> Register]
  /\ IsSeq(shifts)
  /\ sales \in Seq(Sale)
  /\ returns \in Seq(ReturnRow)
  /\ stock \in [Warehouses -> [Products -> Int]]
  /\ cost \in [Products -> Nat]
  /\ lock \in Workers \union {None}

JobsOK ==
  /\ pc \in [Workers -> Labels]
  /\ DOMAIN job = Workers
  /\ \A w \in Workers : JobOK(pc[w], job[w])

(* The shape of the rows, and of what the requests in flight have read.    *)
TypeOK == RowsOK /\ JobsOK

(* Receipts are numbered 1, 2, 3, ... without a gap, and whoever holds the *)
(* advisory lock is about to write the next one: counting under the lock   *)
(* never makes two tills collide on the unique index (complete).           *)
ReceiptNumbers ==
  /\ \A i \in DOMAIN sales : sales[i].receipt = i
  /\ \A w \in Workers : pc[w] = "locked" => job[w].seen = Len(sales)

(* A checkout sent twice, or retried after a lost answer, is one sale.     *)
(* Two copies in flight both find no prior sale; the unique index on the   *)
(* idempotency key stops the second one (complete).                        *)
OneSalePerKey ==
  \A i, j \in DOMAIN sales :
    i # j /\ sales[i].key # None => sales[i].key # sales[j].key

(* No warehouse ever goes below zero: tills on different registers that    *)
(* sell from it read the stock and issue it under one lock, and nothing    *)
(* else here takes stock out (complete).                                   *)
NoOversell == \A h \in Warehouses, p \in Products : stock[h][p] >= 0

Kept   == {i \in DOMAIN sales : sales[i].status = "COMPLETED"}
Voided == {i \in DOMAIN sales : sales[i].status = "VOIDED"}
Refunds == SumFunction([k \in DOMAIN returns |-> returns[k].qty * Gross(returns[k].product)])

(* The cash account is what the standing sales took less what returns paid *)
(* back, and revenue and tax together are what they sold for, whatever the *)
(* order of sales, voids and returns, a return of a sale being voided      *)
(* included (postSaleJournals, voidSale, returnItem).                      *)
BooksAgree ==
  /\ Balance(journals, "1000") =
       SumFunction([i \in Kept |-> Total(sales[i].cart) - sales[i].credit]) - Refunds
  /\ Balance(journals, "4000") + Balance(journals, "2100") =
       Refunds - SumFunction([i \in Kept |-> Total(sales[i].cart)])

(* Accounts receivable is the sum of the exposures the credit check reads: *)
(* the ledger and the check never disagree on what customers owe.          *)
ReceivablesAreExposure ==
  Balance(journals, "1100") = SumFunction([c \in Customers |-> Exposure(c)])

(* The inventory account is the stock at the costs of its movements, but   *)
(* for one thing: a void brings goods back at the product's cost price of  *)
(* the moment, while its journal reverses the cost of the sale.  The       *)
(* difference between the two is exactly the price change (voidSale).      *)
InventoryOffByVoidRevaluation ==
  Balance(journals, "1300") - SumFunction([p \in Goods |-> worth[p]]) =
    SumFunction([i \in Voided |-> CostOf(sales[i].cart, sales[i].cost)
                                 - CostOf(sales[i].cart, sales[i].voidCost)])

(* What a sale is in the books: its journals, reversed if it is voided.    *)
SaleBooked(i) ==
  LET r == sales[i]
      v == CostOf(r.cart, r.cost)
      Booked(n, lines) ==
        /\ n \in DOMAIN journals
        /\ journals[n].lines = Normalized(lines)
        /\ journals[n].status = IF r.status = "VOIDED" THEN "REVERSED" ELSE "POSTED"
  IN  /\ Booked(<<"POS", i>>, SaleLines(r))
      /\ IF v > 0 THEN Booked(<<"COGS", i>>, CostLines(v))
         ELSE <<"COGS", i>> \notin DOMAIN journals
      /\ r.status = "VOIDED" => VoidNumber(<<"POS", i>>) \in DOMAIN journals
      /\ r.credit > 0 => r.customer # None

(* Every number in the books is that of a row.                             *)
FromRow(n) ==
  \/ \E i \in DOMAIN sales : n \in JournalsOf(i)
  \/ \E i \in Voided : \E j \in JournalsOf(i) : n = VoidNumber(j)
  \/ \E k \in DOMAIN returns : n = <<"RETURN", k>>
  \/ \E m \in 1 .. restocks : n = <<"RESTOCK", m>>
  \/ \E p \in Goods : n = <<"OPENING", p>>
BookedFromRows == \A n \in DOMAIN journals : FromRow(n)

(* The accounts that tills, restocks and opening stock post to.            *)
TillAccounts == {"1000", "1100", "1300", "2000", "2100", "3900", "4000", "5300"}
LineRow == [account : TillAccounts, debit : Int, credit : Int]

Journal == [lines : SUBSET LineRow, status : {"POSTED", "REVERSED"}]

BooksOK(js) ==
  /\ IsFiniteSet(DOMAIN js)
  /\ \A n \in DOMAIN js : js[n] \in Journal /\ IsFiniteSet(js[n].lines)

(* What a request that will post or reverse still knows of the books: a    *)
(* void that has found its journals has found them all, and nobody takes   *)
(* them away without taking the numbers of their reversals too.            *)
ReadFromBooks(w) ==
  /\ pc[w] \in {"priced", "cleared", "locked"} => Tendered(job[w].req)
  /\ pc[w] = "reversing" => job[w].posted = JournalsOf(job[w].sale) \intersect DOMAIN journals

(* The books and the rows they were posted for, whatever order sales,      *)
(* voids, returns and restocks come in (postSaleJournals, voidSale,        *)
(* returnItem).                                                            *)
JournalsStand ==
  /\ BooksOK(journals)
  /\ restocks \in Nat /\ worth \in [Products -> Int]
  /\ BookedFromRows
  /\ \A i \in DOMAIN sales : SaleBooked(i)
  /\ \A w \in Workers : ReadFromBooks(w)

(* No step deletes or rewrites a financial record: journals and sales stay *)
(* with their lines, and a status moves only to REVERSED or VOIDED.        *)
Reversals ==
  /\ DOMAIN journals \subseteq DOMAIN journals'
  /\ \A n \in DOMAIN journals :
       /\ journals'[n].lines = journals[n].lines
       /\ journals'[n].status \in {journals[n].status, "REVERSED"}
  /\ \A i \in DOMAIN sales :
       /\ i \in DOMAIN sales'
       /\ sales'[i].status \in {sales[i].status, "VOIDED"}
       /\ sales'[i].cart = sales[i].cart
NeverDeleted == [][Reversals]_vars

(* The refinement of CheckThenAct by a customer's credit sales: what the   *)
(* exposure adds up to is used, a checkout past the credit check pends.    *)
CreditInFlight(c) ==
  [w \in Workers |->
     IF pc[w] \in {"cleared", "locked"} /\ job[w].req.customer = c
       THEN job[w].req.credit ELSE 0]

(* The refinement by one receipt line: what returns and the void of the    *)
(* sale have given back is used, a return or a void that has read the sale *)
(* pends, the limit is the quantity sold.                                  *)
Restored(i, p) ==
  IF i \notin DOMAIN sales THEN 0
  ELSE Returned(i, p) + (IF sales[i].status = "VOIDED" THEN sales[i].cart[p] ELSE 0)
RestoreInFlight(i, p) ==
  [w \in Workers |->
     IF pc[w] = "returning" /\ job[w].sale = i /\ job[w].product = p THEN job[w].qty
     ELSE IF pc[w] \in {"voiding", "reversing"} /\ job[w].sale = i THEN sales[i].cart[p]
     ELSE 0]

(* The client that retries gets its sale (FairSalesSpec).                  *)
EveryCheckoutIsSold == \A r \in Checkouts : <>(r.key \in Keys)
================================================================================
