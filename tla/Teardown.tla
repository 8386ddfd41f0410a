-------------------------------- MODULE Teardown --------------------------------
(***************************************************************************)
(* Removing an organization, or a member of its staff, with all rows that  *)
(* belong to it: one transaction that deletes table after table            *)
(* (deleteOrganization and deleteUser in organizations.service.ts) against *)
(* the foreign keys of src/prisma/schema.prisma.  A table either has rows  *)
(* or has none, and a row uses every reference its table has, optional     *)
(* ones too.  Other requests may commit rows meanwhile, as long as those   *)
(* refer to rows that are still there (a deleted parent blocks them).      *)
(* Audit rows, whose references are set to NULL, are left out.             *)
(***************************************************************************)
EXTENDS Integers, Sequences, FiniteSets

CONSTANTS
  Without,    \* tables that have no rows
  Plans,      \* which removals to look at: "organization", "user"
  MaxLate     \* bound on the tables that gain rows meanwhile

(* References with ON DELETE RESTRICT, but for those to Organization.       *)
Parents ==
  [PosReturn |-> {"PosSale", "Product"},
   PosSale |-> {"Customer", "PosRegister", "PosShift", "Warehouse"},
   PosShift |-> {"PosRegister", "User"},
   PosRegister |-> {"Warehouse"},
   PosIdempotencyKey |-> {}, PosAuditLog |-> {},
   StockMovement |-> {"Product", "Warehouse"},
   StockAdjustment |-> {"Product", "Warehouse"},
   Product |-> {}, Warehouse |-> {},
   PaymentReceived |-> {"Customer", "Invoice"},
   CreditNote |-> {"Customer", "Invoice"},
   Quotation |-> {"Customer"}, Invoice |-> {"Customer"}, Customer |-> {},
   SupplierPayment |-> {"Supplier", "Bill"},
   Bill |-> {"Supplier", "PurchaseOrder"},
   PurchaseOrder |-> {"Supplier", "PurchaseRequest"},
   Expense |-> {"Supplier"}, PurchaseRequest |-> {}, Supplier |-> {},
   BankTransaction |-> {"BankAccount"}, BankAccount |-> {},
   LedgerAccount |-> {}, Journal |-> {}, FinanceRecord |-> {}, Project |-> {},
   CommerceChannel |-> {"Warehouse"}, Membership |-> {},
   Organization |-> {}, User |-> {}]

AllTables == DOMAIN Parents
Tables == AllTables \ Without

(* Rows that go with the one they belong to (ON DELETE CASCADE).            *)
Cascades ==
  [Organization |-> {"CommerceChannel", "Membership"}, User |-> {"Membership"}]

TeardownAssumption ==
  Without \subseteq AllTables /\ Plans \subseteq {"organization", "user"} /\ MaxLate \in Nat

(* The order of deleteOrganization; of a shift before the sales on it.      *)
OrganizationPlan_ShiftsFirst ==
  <<"PosReturn", "PosShift", "PosSale", "PosRegister", "PosIdempotencyKey", "PosAuditLog",
    "StockMovement", "StockAdjustment", "Product", "Warehouse",
    "PaymentReceived", "CreditNote", "Quotation", "Invoice", "Customer",
    "SupplierPayment", "Bill", "PurchaseOrder", "Expense", "PurchaseRequest", "Supplier",
    "BankTransaction", "BankAccount", "LedgerAccount", "Journal", "FinanceRecord", "Project",
    "Organization", "User">>
OrganizationPlan ==
  <<"PosReturn", "PosSale", "PosShift", "PosRegister", "PosIdempotencyKey", "PosAuditLog",
    "StockMovement", "StockAdjustment", "Product", "Warehouse",
    "PaymentReceived", "CreditNote", "Quotation", "Invoice", "Customer",
    "SupplierPayment", "Bill", "PurchaseOrder", "Expense", "PurchaseRequest", "Supplier",
    "BankTransaction", "BankAccount", "LedgerAccount", "Journal", "FinanceRecord", "Project",
    "Organization", "User">>

UserPlan == <<"Membership", "User">>

VARIABLES
  rows,       \* the tables that have rows, as the transaction sees them
  plan,       \* the removal under way
  next,       \* the place in it
  status,     \* "running", "done" or "refused"
  late        \* tables that gained rows meanwhile (auxiliary)

vars == <<rows, plan, next, status, late>>

Steps == IF plan = "organization" THEN OrganizationPlan ELSE UserPlan

RestrictedBy(t) ==
  IF t = "Organization" THEN AllTables \ ({"Organization", "User"} \union Cascades.Organization)
  ELSE {c \in AllTables : t \in Parents[c]}

Belonging_Only(t) == {t}
Belonging(t) == {t} \union (IF t \in DOMAIN Cascades THEN Cascades[t] ELSE {})

(* A set of tables with every table they refer to.                          *)
WithParents(S) ==
  LET Up(T) == T \union UNION {Parents[t] : t \in T}
  IN  Up(Up(Up(S))) \union {"Organization", "Membership", "User"}

Init ==
  /\ \E t, u \in Tables : rows = WithParents({t, u}) \/ rows = WithParents(Tables)
  /\ plan \in Plans
  /\ next = 1
  /\ status = "running"
  /\ late = {}

Delete ==
  /\ status = "running" /\ next <= Len(Steps)
  /\ RestrictedBy(Steps[next]) \intersect rows = {}
  /\ rows' = rows \ Belonging(Steps[next])
  /\ next' = next + 1
  /\ UNCHANGED <<plan, status, late>>

(* The database refuses the statement; the transaction is rolled back.      *)
Refuse ==
  /\ status = "running" /\ next <= Len(Steps)
  /\ RestrictedBy(Steps[next]) \intersect rows # {}
  /\ status' = "refused"
  /\ UNCHANGED <<rows, plan, next, late>>

Finish ==
  /\ status = "running" /\ next > Len(Steps)
  /\ status' = "done"
  /\ UNCHANGED <<rows, plan, next, late>>

Insert(t) ==
  /\ status = "running" /\ Cardinality(late) < MaxLate
  /\ t \notin rows /\ Parents[t] \union {"Organization"} \subseteq rows
  /\ rows' = rows \union {t}
  /\ late' = late \union {t}
  /\ UNCHANGED <<plan, next, status>>

Next == Delete \/ Refuse \/ Finish \/ \E t \in Tables : Insert(t)

Spec == Init /\ [][Next]_vars

--------------------------------------------------------------------------------
(* Properties. *)

(* Whatever an organization (or a member) owns, its removal goes through    *)
(* unless another request adds rows while it runs (the order of deletion    *)
(* against the foreign keys).                                               *)
RefusedOnlyByLateRows == status = "refused" => late # {}

(* What was removed leaves nothing behind, late rows included: they are     *)
(* refused, or deleted, or make the removal fail.                           *)
NothingLeft ==
  status = "done" =>
    IF plan = "organization" THEN rows = {} ELSE {"Membership", "User"} \intersect rows = {}
================================================================================
