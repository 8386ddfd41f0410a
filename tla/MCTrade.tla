--------------------------------- MODULE MCTrade ---------------------------------
(***************************************************************************)
(* Small instances of Inventory and Receivables, side by side: a scene is  *)
(* one instance of one of them, chosen in the initial state.  The modules  *)
(* of a scene that is not on are still.  Scenes with one worker serve one  *)
(* request at a time, in every order; those with two or three interleave.  *)
(***************************************************************************)
EXTENDS Requests, TLC

CONSTANTS
  One, Two,            \* workers of a scene
  rice, depot, shop,   \* a product and two warehouses
  ref1, ref2             \* references

VARIABLES
  scene,                                            \* the name of the scene
  items, warehouses, movements, adjustments, tillLock,  \* see Inventory
  invoices, payments, notes, quotes,                \* see Receivables
  journals

stockVars == <<items, warehouses, movements, adjustments, tillLock>>
billVars == <<invoices, payments, notes, quotes>>
vars == <<scene, stockVars, billVars, journals, requestVars>>

MCSymmetry == Permutations(Two) \union Permutations({ref1, ref2})

--------------------------------------------------------------------------------
(* Inventory: one product, a depot and a shop. *)

Body(ref, type, h, q, c) ==
  [ref |-> ref, type |-> type, product |-> rice, warehouse |-> h, qty |-> q, cost |-> c]
Draft(ref, h, d) == [ref |-> ref, product |-> rice, warehouse |-> h, delta |-> d, cost |-> 2]
Carry(ref, q) ==
  [ref |-> ref, product |-> rice, from |-> depot, to |-> shop, qty |-> q, cost |-> 1]
Amount(q) == [product |-> rice, warehouse |-> depot, qty |-> q, cost |-> 2]
Counted(n) == [product |-> rice, warehouse |-> depot, target |-> n, cost |-> 2]
Drafts == {Draft("x", depot, -2), Draft("y", shop, 1)}

(* A stocked depot, and nothing yet there. *)
Stocked ==
  [workers |-> Two, catalogue |-> FALSE,
   items |-> [p \in {rice} |-> "active"], houses |-> {depot, shop},
   places |-> [h \in {depot, shop} |-> [active |-> TRUE, default |-> h = depot]],
   openings |-> {Amount(3)}, movements |-> {}, transfers |-> {}, adjustments |-> {},
   counts |-> {}, sales |-> {}, maxCounts |-> 0, maxSales |-> 1]
Bare ==
  [Stocked EXCEPT !.catalogue = TRUE, !.items = [p \in {rice} |-> "absent"],
                  !.places = [h \in {} |-> {}], !.openings = {Amount(0), Amount(1)}]

(* The receipt and the issue of stock_races share a reference, as of a     *)
(* request whose answer was lost and that was then edited.                 *)
StockScenes ==
  [stock_races |->
     [Stocked EXCEPT !.transfers = {Carry("t", 2)}, !.adjustments = Drafts, !.sales = {Amount(2)},
        !.movements = {Body("a", "RECEIPT", depot, 1, 3), Body("a", "ISSUE", depot, 2, 2),
                       Body("b", "TRANSFER_IN", shop, 1, 2)}],
   stock_issues |->
     [Stocked EXCEPT !.workers = Workers, !.transfers = {Carry("t", 2)},
        !.adjustments = {Draft("x", depot, -2)}, !.sales = {Amount(2)},
        !.movements = {Body("a", "ISSUE", depot, 2, 2), Body("b", "ISSUE", depot, 3, 2)}],
   stock_counts |->
     [Stocked EXCEPT !.catalogue = TRUE, !.counts = {Counted(2), Counted(5)},
        !.sales = {Amount(1)}, !.maxCounts = 2, !.maxSales = 2],
   catalogue |->
     [Bare EXCEPT !.movements = {Body("a", "RECEIPT", depot, 1, 2)},
        !.adjustments = {Draft("y", shop, 1)}, !.maxSales = 0],
   stock_serial |->
     [Bare EXCEPT !.workers = One, !.transfers = {Carry("t", 2)}, !.adjustments = Drafts,
        !.counts = {Counted(1)}, !.maxCounts = 1, !.sales = {Amount(1)},
        !.movements = {Body("a", "RECEIPT", shop, 1, 3), Body("b", "ISSUE", depot, 2, 2),
                       Body("c", "ADJUSTMENT", shop, 1, 1), Body("d", "TRANSFER_OUT", depot, 1, 1)}]]

Stock(s) ==
  INSTANCE Inventory WITH
    Workers <- s.workers, Products <- DOMAIN s.items, Warehouses <- s.houses,
    InitialItems <- s.items, InitialWarehouses <- s.places, Openings <- s.openings,
    Movements <- s.movements, Transfers <- s.transfers, Adjustments <- s.adjustments,
    Counts <- s.counts, TillSales <- s.sales, MaxCounts <- s.maxCounts, MaxSales <- s.maxSales

--------------------------------------------------------------------------------
(* Receivables. *)

Bill(total, status) == [total |-> total, status |-> status]
Quotation(total, status) == [total |-> total, status |-> status]

Billed ==
  [workers |-> Two, forward |-> FALSE, bills |-> {Bill(4, "SENT")}, amounts |-> {},
   references |-> {ref1, ref2}, estimates |-> {}, asks |-> {},
   maxInvoices |-> 1, maxReceipts |-> 2, maxQuotes |-> 0]

BillScenes ==
  [receivables_races |->
     [Billed EXCEPT !.bills = {Bill(4, "DRAFT"), Bill(4, "PAID")}, !.amounts = {2}],
   receivables_forward |-> [Billed EXCEPT !.forward = TRUE, !.amounts = {1, 2}],
   receivables_serial |->
     [Billed EXCEPT !.workers = One, !.amounts = {1, 3},
        !.bills = {Bill(4, "DRAFT"), Bill(4, "SENT"), Bill(4, "PARTIALLY_PAID"),
                   Bill(4, "PAID"), Bill(4, "OVERDUE"), Bill(0, "DRAFT"), Bill(0, "SENT")}],
   quotations |->
     [Billed EXCEPT !.bills = {}, !.references = {}, !.asks = {"SENT"},
        !.estimates = {Quotation(4, None), Quotation(5, "CONVERTED")},
        !.maxInvoices = 2, !.maxReceipts = 0, !.maxQuotes = 1],
   quotations_serial |->
     [Billed EXCEPT !.workers = One, !.amounts = {4}, !.references = {ref1},
        !.estimates = {Quotation(4, None), Quotation(5, "SENT"), Quotation(4, "CONVERTED")},
        !.bills = {Bill(4, "DRAFT"), Bill(4, "SENT"), Bill(2, "VOID")},
        !.asks = {"SENT", "CONVERTED", "VOID"},
        !.maxInvoices = 2, !.maxReceipts = 1, !.maxQuotes = 1]]

Sales(s) ==
  INSTANCE Receivables WITH
    Workers <- s.workers, Bills <- s.bills, Amounts <- s.amounts, References <- s.references,
    Estimates <- s.estimates, QuoteStatuses <- s.asks,
    MaxInvoices <- s.maxInvoices, MaxReceipts <- s.maxReceipts, MaxQuotes <- s.maxQuotes

ASSUME TradeAssumption ==
  /\ \E w \in Workers : One = {w}
  /\ Cardinality(Two) = 2 /\ Two \subseteq Workers
  /\ \A n \in DOMAIN StockScenes : Stock(StockScenes[n])!InventoryAssumption
  /\ \A n \in DOMAIN BillScenes : Sales(BillScenes[n])!ReceivablesAssumption

--------------------------------------------------------------------------------

Init ==
  \/ \E n \in DOMAIN StockScenes :
       /\ scene = n /\ Stock(StockScenes[n])!Init
       /\ invoices = None /\ payments = None /\ notes = None /\ quotes = None
  \/ \E n \in DOMAIN BillScenes :
       /\ scene = n /\ Sales(BillScenes[n])!Init
       /\ items = None /\ warehouses = None /\ movements = None /\ adjustments = None
       /\ tillLock = None

StockNext(s) == IF s.catalogue THEN Stock(s)!Next ELSE Stock(s)!StockNext
SalesNext(s) == IF s.forward THEN Sales(s)!ForwardNext ELSE Sales(s)!Next

Next ==
  /\ \/ \E n \in DOMAIN StockScenes : scene = n /\ StockNext(StockScenes[n]) /\ UNCHANGED billVars
     \/ \E n \in DOMAIN BillScenes : scene = n /\ SalesNext(BillScenes[n]) /\ UNCHANGED stockVars
  /\ UNCHANGED scene

Spec == Init /\ [][Next]_vars

--------------------------------------------------------------------------------
(* Inventory's properties, in the scenes where the code keeps them. *)

(* In every interleaving account 1300 is the stock at cost, every movement *)
(* and adjustment has its product, and a default warehouse is never lost;  *)
(* one request at a time, no warehouse is below zero and one active        *)
(* warehouse is the default (createMovement, createTransfer, updateProduct,*)
(* adjustmentStatus, deleteProduct, makeDefaultWarehouse).                 *)
StockKept ==
  \A n \in DOMAIN StockScenes : scene = n =>
    /\ Stock(StockScenes[n])!TypeOK
    /\ Stock(StockScenes[n])!StockAccount
    /\ Stock(StockScenes[n])!HistoryHasProduct
    /\ Stock(StockScenes[n])!SomeDefault
    /\ n = "stock_serial" =>
         Stock(StockScenes[n])!NoOverdraw /\ Stock(StockScenes[n])!OneOpenDefault

(* Two counts of one product never add up (updateProduct against tills).   *)
CountsDoNotAdd ==
  \A n \in {"stock_counts"} : scene = n => Stock(StockScenes[n])!CountsDoNotAdd

(* Three withdrawals in flight take the depot below zero by less than what *)
(* it opened with for each of them: they implement CheckThenAct            *)
(* (requireStock without the tills' lock, complete).                       *)
FromDepot == INSTANCE CheckThenAct WITH
  Limit <- 3,
  used <- IF scene = "stock_issues"
          THEN Stock(StockScenes["stock_issues"])!Withdrawn(depot, rice, 3) ELSE 0,
  pend <- IF scene = "stock_issues"
          THEN Stock(StockScenes["stock_issues"])!WithdrawalInFlight(depot, rice)
          ELSE [w \in Workers |-> 0]
DepotQuota == FromDepot!Spec

--------------------------------------------------------------------------------
(* Those of Receivables, and of both. *)

(* In every interleaving accounts receivable is what was billed, less the  *)
(* payments there are and the credit notes that stand, and an invoice past *)
(* being a draft is billed, or was credited as a draft.                    *)
ReceivablesKept ==
  \A n \in DOMAIN BillScenes : scene = n =>
    /\ Sales(BillScenes[n])!TypeOK
    /\ Sales(BillScenes[n])!ReceivablesLedger
    /\ Sales(BillScenes[n])!BilledUnlessCredited

(* One request at a time, the amounts of an invoice are what its payments  *)
(* and credit notes say, and so is its status once there are any, whatever *)
(* status it was created with.  In every interleaving in which nothing is  *)
(* taken back, credit notes add up and payments never count twice.         *)
AmountsAgree ==
  /\ \A n \in {"receivables_serial", "quotations_serial"} : scene = n =>
       Sales(BillScenes[n])!SettlementAgrees
  /\ \A n \in {"receivables_forward"} : scene = n => Sales(BillScenes[n])!ForwardSums

(* In every interleaving no movement is replaced or removed, and no        *)
(* invoice replaced by another of its number (the unique indexes); one     *)
(* request at a time, only drafted adjustments and counts reach archived   *)
(* items, only an item with no stock is archived, an invoice that changes  *)
(* gets the status its amounts call for, a CONVERTED quotation keeps its   *)
(* total and an open one is converted into an invoice made out for it.     *)
RowsStand ==
  [][/\ \A n \in DOMAIN StockScenes : scene = n => Stock(StockScenes[n])!MovementsStand
     /\ \A n \in DOMAIN BillScenes : scene = n => Sales(BillScenes[n])!InvoicesStand
     /\ \A n \in {"stock_serial"} : scene = n =>
          Stock(StockScenes[n])!LateStock /\ Stock(StockScenes[n])!ArchivedEmpty
     /\ \A n \in {"receivables_serial", "quotations_serial"} : scene = n =>
          /\ Sales(BillScenes[n])!StatusFollows
          /\ Sales(BillScenes[n])!QuotationsStand]_vars
================================================================================
