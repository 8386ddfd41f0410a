-------------------------------- MODULE Inventory --------------------------------
(***************************************************************************)
(* Products, warehouses and stock of one organization (OperationsService   *)
(* in src/src/modules/operations/operations.service.ts), next to the tills *)
(* that sell from the same warehouses (PosService.complete).  The stock is *)
(* never stored: it is the signed sum of the movements, read before a      *)
(* withdrawal and, except by the tills, with nothing held until it is      *)
(* written.  Searches, projects and audit entries are left out.            *)
(***************************************************************************)
EXTENDS AutoJournal, Requests

CONSTANTS
  Products, Warehouses,
  InitialItems,      \* InitialItems[p]: "absent", "active" or "archived"
  InitialWarehouses, \* the warehouses there are: [active, default]
  Openings,          \* openings: [product, warehouse, qty, cost]
  Movements,         \* POST movements: [ref, type, product, warehouse, qty, cost]
  Transfers,         \* POST transfers: [ref, product, from, to, qty, cost]
  Adjustments,       \* POST adjustments: [ref, product, warehouse, delta, cost]
  Counts,            \* product edits: [product, warehouse, target, cost]
  TillSales,         \* carts of one product: [product, warehouse, qty, cost]
  MaxCounts, MaxSales \* bounds: how many corrections and sales there are

Manual == {"RECEIPT", "ISSUE", "ADJUSTMENT", "TRANSFER_IN", "TRANSFER_OUT"}

(* What the bodies may say: the rows they name are the organization's, and *)
(* the validators refuse other amounts.  Warehouses begin with one default *)
(* that is active, if there are any.                                       *)
Named(b) == b.product \in Products /\ b.cost \in Nat

InventoryAssumption ==
  /\ InitialItems \in [Products -> {"absent", "active", "archived"}]
  /\ DOMAIN InitialWarehouses \subseteq Warehouses
  /\ InitialWarehouses \in [DOMAIN InitialWarehouses -> [active : BOOLEAN, default : BOOLEAN]]
  /\ DOMAIN InitialWarehouses = {} \/
       \E h \in DOMAIN InitialWarehouses :
         /\ InitialWarehouses[h].active
         /\ {x \in DOMAIN InitialWarehouses : InitialWarehouses[x].default} = {h}
  /\ IsFiniteSet(Openings)
  /\ \A o \in Openings : Named(o) /\ o.warehouse \in Warehouses /\ o.qty \in Nat
  /\ \A m \in Movements :
       Named(m) /\ m.type \in Manual /\ m.warehouse \in Warehouses /\ m.qty \in Nat \ {0}
  /\ \A t \in Transfers :
       Named(t) /\ {t.from, t.to} \subseteq Warehouses /\ t.from # t.to /\ t.qty \in Nat \ {0}
  /\ \A a \in Adjustments : Named(a) /\ a.warehouse \in Warehouses /\ a.delta \in Int \ {0}
  /\ \A b \in Counts : Named(b) /\ b.warehouse \in Warehouses /\ b.target \in Nat
  /\ \A b \in TillSales : Named(b) /\ b.warehouse \in Warehouses /\ b.qty \in Nat \ {0}

VARIABLES
  items,        \* items[p]: "absent", "active" or "archived"
  warehouses,   \* Warehouse rows: [active, default]
  movements,    \* StockMovement rows, by their unique reference
  adjustments,  \* StockAdjustment rows, by their unique reference
  journals,     \* see AutoJournal
  tillLock      \* the worker that holds the tills' advisory lock

rowVars == <<items, warehouses, movements, adjustments, journals, tillLock>>
vars == <<rowVars, requestVars>>

--------------------------------------------------------------------------------
(* Sums over movements. *)

Row_Signed(type, p, h, q, c, paired) ==
  [type |-> type, product |-> p, warehouse |-> h, qty |-> IF type = "ISSUE" THEN -q ELSE q,
   cost |-> c, paired |-> paired]
Row(type, p, h, q, c, paired) ==
  [type |-> type, product |-> p, warehouse |-> h, qty |-> q, cost |-> c, paired |-> paired]

Signed(m) == IF m.type \in {"ISSUE", "TRANSFER_OUT"} THEN -m.qty ELSE m.qty

SumMoves(p, hs) ==
  SumFunction([r \in {r \in DOMAIN movements :
                       movements[r].product = p /\ movements[r].warehouse \in hs} |->
                 Signed(movements[r])])

StockIn(h, p) == SumMoves(p, {h})
OnHand(p) == SumMoves(p, Warehouses)

Covers_Nonempty(h, p, q) == StockIn(h, p) > 0
Covers(h, p, q) == q <= StockIn(h, p)
Open(h) == h \in DOMAIN warehouses /\ warehouses[h].active
Usable_Existing(h, p) == items[p] # "absent" /\ Open(h)
Usable(h, p) == items[p] = "active" /\ Open(h)

(* One movement inserted: its reference must be new, and its product still *)
(* there (the foreign key).                                                *)
Inserts_Overwriting(refs, p) == items[p] # "absent"
Inserts(refs, p) == items[p] # "absent" /\ refs \intersect DOMAIN movements = {}
With(ref, row) == [r \in DOMAIN movements \union {ref} |-> IF r = ref THEN row ELSE movements[r]]

GainOrLoss_Unsigned(js, number, delta, c) ==
  PostedIfAny(js, number, "1300", "4900", (IF delta < 0 THEN -delta ELSE delta) * c)
GainOrLoss(js, number, delta, c) ==
  IF delta > 0 THEN PostedIfAny(js, number, "1300", "4900", delta * c)
               ELSE PostedIfAny(js, number, "5900", "1300", (-delta) * c)

Opened(o) == <<"OPEN", o.product>>

Init ==
  /\ items = InitialItems
  /\ warehouses = InitialWarehouses
  /\ movements =
       LET old == {o \in Openings : InitialItems[o.product] # "absent" /\ o.qty > 0}
       IN  [r \in {Opened(o) : o \in old} |->
              LET o == CHOOSE x \in old : Opened(x) = r
              IN  Row("RECEIPT", o.product, o.warehouse, o.qty, o.cost, FALSE)]
  /\ journals = [r \in {r \in DOMAIN movements : movements[r].cost > 0} |->
       [lines |-> Pair("1300", "3900", movements[r].qty * movements[r].cost),
        status |-> "POSTED"]]
  /\ adjustments = [r \in {} |-> {}]
  /\ tillLock = None
  /\ NoRequests

--------------------------------------------------------------------------------
(* Products.  The default warehouse a product is created with is asked for *)
(* by its body or is the organization's; it must be active in the end.     *)

CreateProduct(o) ==
  /\ items[o.product] = "absent"
  /\ Open(o.warehouse)
  /\ items' = [items EXCEPT ![o.product] = "active"]
  /\ IF o.qty > 0
       THEN /\ Opened(o) \notin DOMAIN movements
            /\ movements' = With(Opened(o),
                 Row("RECEIPT", o.product, o.warehouse, o.qty, o.cost, FALSE))
            /\ journals' = PostedIfAny(journals, Opened(o), "1300", "3900", o.qty * o.cost)
       ELSE UNCHANGED <<movements, journals>>
  /\ UNCHANGED <<warehouses, adjustments, tillLock, requestVars>>

(* The transaction updates the product first, so that of two corrections   *)
(* of one product the second waits for the first to commit.                *)
RowFree_Unlocked(p) == TRUE
RowFree(p) == \A w \in Doing("counting") : job[w].product # p

CountRead(w, b) ==
  /\ Idle(w)
  /\ Cardinality({r \in DOMAIN movements : r[1] = "COUNT"}) < MaxCounts
  /\ items[b.product] # "absent"
  /\ Open(b.warehouse)
  /\ RowFree(b.product)
  /\ LET delta == b.target - OnHand(b.product) IN
       /\ delta # 0
       /\ delta < 0 => Covers(b.warehouse, b.product, -delta)
       /\ Turn(w, "counting", [product |-> b.product, warehouse |-> b.warehouse,
                               cost |-> b.cost, delta |-> delta])
  /\ UNCHANGED rowVars

CountCommit(w) ==
  /\ At(w, "counting")
  /\ LET n == <<"COUNT", Cardinality({r \in DOMAIN movements : r[1] = "COUNT"}) + 1>>
         j == job[w]
     IN  /\ movements' = With(n, Row("ADJUSTMENT", j.product, j.warehouse, j.delta, j.cost, FALSE))
         /\ journals' = GainOrLoss(journals, n, j.delta, j.cost)
  /\ Done(w)
  /\ UNCHANGED <<items, warehouses, adjustments, tillLock>>

MayArchive_InStock(p) == items[p] = "active"
MayArchive(p) == items[p] = "active" /\ OnHand(p) = 0

ArchiveRead(w, p) ==
  /\ Idle(w) /\ MayArchive(p)
  /\ Turn(w, "archiving", p)
  /\ UNCHANGED rowVars

ArchiveCommit(w) ==
  /\ At(w, "archiving")
  /\ items[job[w]] # "absent" /\ RowFree(job[w])
  /\ items' = [items EXCEPT ![job[w]] = "archived"]
  /\ Done(w)
  /\ UNCHANGED <<warehouses, movements, adjustments, journals, tillLock>>

RestoreProduct(p) ==
  /\ items[p] = "archived" /\ RowFree(p)
  /\ items' = [items EXCEPT ![p] = "active"]
  /\ UNCHANGED <<warehouses, movements, adjustments, journals, tillLock, requestVars>>

HasHistory_Adjusted(p) == \E r \in DOMAIN adjustments : adjustments[r].product = p
HasHistory(p) ==
  \/ \E r \in DOMAIN movements : movements[r].product = p
  \/ \E r \in DOMAIN adjustments : adjustments[r].product = p

DeleteRead(w, p) ==
  /\ Idle(w)
  /\ items[p] = "archived" /\ ~HasHistory(p)
  /\ Turn(w, "deleting", p)
  /\ UNCHANGED rowVars

(* The foreign keys of movements and adjustments restrict the delete.      *)
DeleteCommit(w) ==
  /\ At(w, "deleting")
  /\ items[job[w]] # "absent" /\ ~HasHistory(job[w]) /\ RowFree(job[w])
  /\ items' = [items EXCEPT ![job[w]] = "absent"]
  /\ Done(w)
  /\ UNCHANGED <<warehouses, movements, adjustments, journals, tillLock>>

--------------------------------------------------------------------------------
(* Warehouses.  Editing a code, name or address changes nothing here.      *)

Defaults == {h \in DOMAIN warehouses : warehouses[h].default}

WarehouseRead(w, h) ==
  /\ Idle(w)
  /\ Turn(w, "building", [warehouse |-> h, first |-> Defaults = {}])
  /\ UNCHANGED rowVars

WarehouseCreate(w) ==
  /\ At(w, "building")
  /\ job[w].warehouse \notin DOMAIN warehouses
  /\ warehouses' = [h \in DOMAIN warehouses \union {job[w].warehouse} |->
       IF h = job[w].warehouse THEN [active |-> TRUE, default |-> job[w].first]
                               ELSE warehouses[h]]
  /\ Done(w)
  /\ UNCHANGED <<items, movements, adjustments, journals, tillLock>>

MayClose_Default(h) == Open(h)
MayClose(h) == Open(h) /\ ~warehouses[h].default

CloseRead(w, h) ==
  /\ Idle(w) /\ MayClose(h)
  /\ \A p \in Products : StockIn(h, p) = 0
  /\ Turn(w, "closing", h)
  /\ UNCHANGED rowVars

CloseCommit(w) ==
  /\ At(w, "closing")
  /\ warehouses' = [warehouses EXCEPT ![job[w]].active = FALSE]
  /\ Done(w)
  /\ UNCHANGED <<items, movements, adjustments, journals, tillLock>>

ReopenWarehouse(h) ==
  /\ h \in DOMAIN warehouses /\ ~warehouses[h].active
  /\ warehouses' = [warehouses EXCEPT ![h].active = TRUE]
  /\ UNCHANGED <<items, movements, adjustments, journals, tillLock, requestVars>>

(* The active warehouse is read, and then the rows to clear: the update    *)
(* clears those its snapshot shows, whatever became default meanwhile.     *)
DefaultRead(w, h) ==
  /\ Idle(w) /\ Open(h)
  /\ Turn(w, "choosing", [warehouse |-> h, clear |-> Defaults])
  /\ UNCHANGED rowVars

DefaultOf_ClearLast(h, new, clear) ==
  IF h \in clear THEN FALSE ELSE h = new \/ warehouses[h].default
DefaultOf(h, new, clear) ==
  h = new \/ (h \notin clear /\ warehouses[h].default)

DefaultCommit(w) ==
  /\ At(w, "choosing")
  /\ warehouses' = [h \in DOMAIN warehouses |->
       [warehouses[h] EXCEPT !.default = DefaultOf(h, job[w].warehouse, job[w].clear)]]
  /\ Done(w)
  /\ UNCHANGED <<items, movements, adjustments, journals, tillLock>>

--------------------------------------------------------------------------------
(* Movements, restocks (a RECEIPT) and transfers. *)

Withdraws(b) == b.type \in {"ISSUE", "TRANSFER_OUT"}

MovementRead(w, b) ==
  /\ Idle(w)
  /\ Usable(b.warehouse, b.product)
  /\ Withdraws(b) => Covers(b.warehouse, b.product, b.qty)
  /\ Turn(w, "moving", b)
  /\ UNCHANGED rowVars

(* A movement of one leg of a transfer, entered by hand, posts nothing.    *)
MovementJournals(b, n) ==
  LET v == b.qty * b.cost IN
    CASE b.type = "RECEIPT"    -> PostedIfAny(journals, n, "1300", "2000", v)
      [] b.type = "ISSUE"      -> PostedIfAny(journals, n, "5300", "1300", v)
      [] b.type = "ADJUSTMENT" -> PostedIfAny(journals, n, "1300", "4900", v)
      [] OTHER                 -> journals

MovementCommit(w) ==
  /\ At(w, "moving")
  /\ LET b == job[w]
         n == <<"MOVE", b.ref>>
     IN  /\ Inserts({n}, b.product)
         /\ movements' = With(n, Row(b.type, b.product, b.warehouse, b.qty, b.cost, FALSE))
         /\ journals' = MovementJournals(b, n)
  /\ Done(w)
  /\ UNCHANGED <<items, warehouses, adjustments, tillLock>>

TransferRead(w, t) ==
  /\ Idle(w)
  /\ Usable(t.from, t.product) /\ Open(t.to)
  /\ Covers(t.from, t.product, t.qty)
  /\ Turn(w, "transferring", t)
  /\ UNCHANGED rowVars

TransferCommit(w) ==
  /\ At(w, "transferring")
  /\ LET t == job[w]
         legs == {<<"OUT", t.ref>>, <<"IN", t.ref>>}
     IN  /\ Inserts(legs, t.product)
         /\ movements' = [r \in DOMAIN movements \union legs |->
              IF r = <<"OUT", t.ref>> THEN Row("TRANSFER_OUT", t.product, t.from, t.qty, t.cost, TRUE)
              ELSE IF r = <<"IN", t.ref>> THEN Row("TRANSFER_IN", t.product, t.to, t.qty, t.cost, TRUE)
              ELSE movements[r]]
  /\ Done(w)
  /\ UNCHANGED <<items, warehouses, adjustments, journals, tillLock>>

--------------------------------------------------------------------------------
(* Adjustments. *)

CreateAdjustment(a) ==
  /\ Usable(a.warehouse, a.product)
  /\ a.ref \notin DOMAIN adjustments
  /\ adjustments' = [r \in DOMAIN adjustments \union {a.ref} |->
       IF r = a.ref THEN [product |-> a.product, warehouse |-> a.warehouse, delta |-> a.delta,
                          cost |-> a.cost, status |-> "DRAFT"]
                    ELSE adjustments[r]]
  /\ UNCHANGED <<items, warehouses, movements, journals, tillLock, requestVars>>

(* The status is read, and not looked at again when it is written.         *)
Undecided(r) == adjustments[r].status = "DRAFT"

DecideRead(w, r, status) ==
  /\ Idle(w)
  /\ Undecided(r)
  /\ status = "APPROVED" /\ adjustments[r].delta < 0 =>
       Covers(adjustments[r].warehouse, adjustments[r].product, -adjustments[r].delta)
  /\ Turn(w, "deciding", [ref |-> r, status |-> status])
  /\ UNCHANGED rowVars

DecideCommit(w) ==
  /\ At(w, "deciding")
  /\ LET a == adjustments[job[w].ref]
         n == <<"ADJ", job[w].ref>>
     IN  /\ adjustments' = [adjustments EXCEPT ![job[w].ref].status = job[w].status]
         /\ IF job[w].status = "APPROVED"
              THEN /\ Inserts({n}, a.product)
                   /\ movements' = With(n, Row("ADJUSTMENT", a.product, a.warehouse,
                                               a.delta, a.cost, FALSE))
                   /\ journals' = GainOrLoss(journals, n, a.delta, a.cost)
              ELSE UNCHANGED <<movements, journals>>
  /\ Done(w)
  /\ UNCHANGED <<items, warehouses, tillLock>>

--------------------------------------------------------------------------------
(* The tills: stock read and issued under the advisory lock (see PosSales).*)

TillRead(w, b) ==
  /\ Idle(w)
  /\ Cardinality({r \in DOMAIN movements : r[1] = "POS"}) < MaxSales
  /\ tillLock = None
  /\ Usable(b.warehouse, b.product) /\ Covers(b.warehouse, b.product, b.qty)
  /\ tillLock' = w
  /\ Turn(w, "selling", b)
  /\ UNCHANGED <<items, warehouses, movements, adjustments, journals>>

TillCommit(w) ==
  /\ At(w, "selling")
  /\ LET b == job[w]
         n == <<"POS", Cardinality({r \in DOMAIN movements : r[1] = "POS"}) + 1>>
     IN  /\ Inserts({n}, b.product)
         /\ movements' = With(n, Row("ISSUE", b.product, b.warehouse, b.qty, b.cost, FALSE))
         /\ journals' = PostedIfAny(journals, n, "5300", "1300", b.qty * b.cost)
  /\ tillLock' = None
  /\ Done(w)
  /\ UNCHANGED <<items, warehouses, adjustments>>

Abort(w) ==
  /\ GiveUp(w)
  /\ tillLock' = IF tillLock = w THEN None ELSE tillLock
  /\ UNCHANGED <<items, warehouses, movements, adjustments, journals>>

--------------------------------------------------------------------------------

Catalogue(w) ==
  \/ \E b \in Counts : CountRead(w, b)
  \/ CountCommit(w)
  \/ \E p \in Products : ArchiveRead(w, p) \/ DeleteRead(w, p)
  \/ ArchiveCommit(w) \/ DeleteCommit(w)
  \/ \E h \in Warehouses : WarehouseRead(w, h) \/ CloseRead(w, h) \/ DefaultRead(w, h)
  \/ WarehouseCreate(w) \/ CloseCommit(w) \/ DefaultCommit(w)

Stock(w) ==
  \/ \E b \in Movements : MovementRead(w, b)
  \/ MovementCommit(w)
  \/ \E t \in Transfers : TransferRead(w, t)
  \/ TransferCommit(w)
  \/ \E r \in DOMAIN adjustments, s \in {"APPROVED", "VOID"} : DecideRead(w, r, s)
  \/ DecideCommit(w)
  \/ \E b \in TillSales : TillRead(w, b)
  \/ TillCommit(w)
  \/ Abort(w)

AtOnce ==
  \/ \E o \in Openings : CreateProduct(o)
  \/ \E p \in Products : RestoreProduct(p)
  \/ \E h \in Warehouses : ReopenWarehouse(h)
  \/ \E a \in Adjustments : CreateAdjustment(a)

Next == AtOnce \/ \E w \in Workers : Catalogue(w) \/ Stock(w)

(* The stock alone: the catalogue stays as it is.                          *)
StockNext ==
  \/ \E a \in Adjustments : CreateAdjustment(a)
  \/ \E w \in Workers : Stock(w)

Spec == Init /\ [][Next]_vars
StockSpec == Init /\ [][StockNext]_vars

--------------------------------------------------------------------------------
(* Properties. *)

(* The shape of the rows: the sign of a movement is in its type, but for   *)
(* an adjustment, which has its own.                                       *)
TypeOK ==
  /\ items \in [Products -> {"absent", "active", "archived"}]
  /\ DOMAIN warehouses \subseteq Warehouses
  /\ \A h \in DOMAIN warehouses : warehouses[h] \in [active : BOOLEAN, default : BOOLEAN]
  /\ \A r \in DOMAIN movements :
       /\ movements[r] \in [type : Manual, product : Products, warehouse : Warehouses,
                          qty : Int, cost : Nat, paired : BOOLEAN]
       /\ movements[r].type # "ADJUSTMENT" => movements[r].qty > 0
  /\ \A r \in DOMAIN adjustments :
       adjustments[r] \in [product : Products, warehouse : Warehouses, delta : Int,
                          cost : Nat, status : {"DRAFT", "APPROVED", "VOID"}]
  /\ tillLock \in Workers \union {None}

(* Account 1300 is the stock at the cost of its movements, in every        *)
(* interleaving of receipts, issues, transfers, counts, approvals and      *)
(* voids, but for one thing: a leg of a transfer entered by hand through   *)
(* POST movements moves goods and posts nothing (createMovement).          *)
StockAccount ==
  Balance(journals, "1300") =
    SumFunction([r \in {r \in DOMAIN movements :
                         \/ movements[r].paired
                         \/ movements[r].type \notin {"TRANSFER_IN", "TRANSFER_OUT"}} |->
                   Signed(movements[r]) * movements[r].cost])

(* A movement stands for ever: a request sent twice with one reference, an *)
(* adjustment approved twice at once or a deleted product never replace or *)
(* remove it (the unique reference, the foreign keys).                     *)
MovementsStand ==
  \A r \in DOMAIN movements : r \in DOMAIN movements' /\ movements'[r] = movements[r]

(* Every movement and adjustment has its product: a delete that found no   *)
(* history loses against a movement committed after its count.             *)
HistoryHasProduct ==
  /\ \A r \in DOMAIN movements : items[movements[r].product] # "absent"
  /\ \A r \in DOMAIN adjustments : items[adjustments[r].product] # "absent"

(* Once there is a warehouse there is a default one: whatever requests to  *)
(* change it interleave, they leave two defaults at worst, never none      *)
(* (createWarehouse, makeDefaultWarehouse).                                *)
SomeDefault == DOMAIN warehouses # {} => Defaults # {}

(* One request at a time. *)

(* Nothing is taken out that is not there: each of the issue, the transfer,*)
(* the negative adjustment and the count checks the stock it takes from.   *)
NoOverdraw == \A h \in Warehouses, p \in Products : StockIn(h, p) >= 0

(* The default warehouse is one, and is active. *)
OneOpenDefault ==
  DOMAIN warehouses # {} => \E h \in DOMAIN warehouses : Defaults = {h} /\ Open(h)

(* Goods reach an archived product or an archived warehouse in two ways    *)
(* only: an adjustment drafted before it was archived is approved after    *)
(* (adjustmentStatus looks at neither), or a count of an archived product  *)
(* (updateProduct asks for an active warehouse only).                      *)
LateStock ==
  \A r \in DOMAIN movements' \ DOMAIN movements :
    \/ items[movements'[r].product] = "active" /\ Open(movements'[r].warehouse)
    \/ items'[movements'[r].product] = "active" /\ items[movements'[r].product] = "absent"
    \/ r[1] = "ADJ"
    \/ r[1] = "COUNT" /\ Open(movements'[r].warehouse)

(* An item is archived when there is none of it. *)
ArchivedEmpty ==
  \A p \in Products : items[p] # "archived" /\ items'[p] = "archived" => OnHand(p) = 0

(* Two corrections of one product never add up: the product's stock is the *)
(* opening or a counted quantity, less at most what the tills sold, however*)
(* the corrections and the sales interleave (updateProduct).               *)
SoldByTills(p) ==
  -SumFunction([r \in {r \in DOMAIN movements : r[1] = "POS" /\ movements[r].product = p} |->
                  Signed(movements[r])])
CountsDoNotAdd ==
  \A p \in Products :
    LET figures == {o.qty : o \in {x \in Openings : x.product = p}}
                     \union {b.target : b \in {x \in Counts : x.product = p}}
    IN  \E t \in figures : OnHand(p) \in (t - SoldByTills(p)) .. t

(* The refinement of CheckThenAct by the withdrawals from one warehouse.   *)
Withdrawn(h, p, opening) == opening - StockIn(h, p)
WithdrawalInFlight(h, p) ==
  [w \in Workers |->
     IF pc[w] \in {"moving", "selling"} /\ job[w].warehouse = h /\ job[w].product = p
       THEN job[w].qty
     ELSE IF pc[w] = "transferring" /\ job[w].from = h /\ job[w].product = p THEN job[w].qty
     ELSE IF pc[w] = "deciding" /\ job[w].status = "APPROVED"
             /\ adjustments[job[w].ref].warehouse = h /\ adjustments[job[w].ref].product = p
       THEN -adjustments[job[w].ref].delta
     ELSE 0]
================================================================================
