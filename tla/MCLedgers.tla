-------------------------------- MODULE MCLedgers --------------------------------
(***************************************************************************)
(* Small instances of Payables, Purchasing, Banking and Books, side by     *)
(* side, as MCTrade has those of Inventory and Receivables.                *)
(***************************************************************************)
EXTENDS Requests, TLC

CONSTANTS
  One, Two,     \* workers of a scene
  ref1, ref2,   \* references of payments
  savings, till,  \* bank accounts
  prt1, prt2    \* fingerprints of statement lines

VARIABLES
  scene,                                        \* the name of the scene
  payments, expenses, bank, balance,            \* see Payables
  requests, orders,                             \* see Purchasing
  rows,                                         \* see Banking
  records,                                      \* see Books
  bills,                                        \* of Payables and Purchasing
  accounts,                                     \* of Banking and Books
  journals

paying == <<payments, expenses, bank, balance>>
ordering == <<requests, orders>>
vars == <<scene, paying, ordering, rows, records, bills, accounts, journals, requestVars>>

MCSymmetry ==
  Permutations(Two) \union Permutations({ref1, ref2}) \union Permutations({savings, till})

--------------------------------------------------------------------------------
(* Payables. *)

Owing ==
  [workers |-> Two, totals |-> {4}, asks |-> {"APPROVED", "VOID"}, amounts |-> {2},
   references |-> {ref1, ref2}, banked |-> {TRUE, FALSE}, spendings |-> {}, opening |-> 5,
   maxBills |-> 1, maxExpenses |-> 0]
PayScenes ==
  [payables_races |-> Owing,
   payables_serial |->
     [Owing EXCEPT !.workers = One, !.asks = {"PENDING_APPROVAL", "DRAFT", "APPROVED", "VOID"},
        !.amounts = {1, 3}, !.maxExpenses = 1,
        !.spendings = {[amount |-> 3, bank |-> TRUE], [amount |-> 2, bank |-> FALSE]}]]

Pay(s) ==
  INSTANCE Payables WITH
    Workers <- s.workers, BillTotals <- s.totals, BillStatuses <- s.asks, Amounts <- s.amounts,
    References <- s.references, Banked <- s.banked, Spendings <- s.spendings,
    Opening <- s.opening, MaxBills <- s.maxBills, MaxExpenses <- s.maxExpenses

--------------------------------------------------------------------------------
(* Purchasing. *)

OrderScenes ==
  [orders_of_request |-> [workers |-> Two, requests |-> 1, orders |-> 2, bills |-> 0],
   bills_of_order    |-> [workers |-> Two, requests |-> 0, orders |-> 2, bills |-> 2],
   purchasing_serial |-> [workers |-> One, requests |-> 2, orders |-> 2, bills |-> 2]]

Order(s) ==
  INSTANCE Purchasing WITH
    Workers <- s.workers, MaxRequests <- s.requests, MaxOrders <- s.orders, MaxBills <- s.bills

--------------------------------------------------------------------------------
(* Banking. *)

StatementLine(p, v) == [print |-> p, amount |-> v]

Banked ==
  [workers |-> Two, accounts |-> {savings, till}, openings |-> {0}, batches |-> {},
   statements |-> {}, transfers |-> {}, edits |-> {}, legacy |-> {}, drawn |-> {},
   attempts |-> 1, maxRows |-> 3]
BankScenes ==
  [banking_races |->
     [Banked EXCEPT !.openings = {2}, !.batches = {<<3>>}, !.transfers = {2}],
   banking_edits |->
     [Banked EXCEPT !.accounts = {savings}, !.openings = {0, 2, -2}, !.edits = {-1},
                    !.batches = {<<3>>, <<-1, 2>>}, !.legacy = {1}],
   banking_imports |->
     [Banked EXCEPT !.statements =
        {<<StatementLine(prt1, 2)>>, <<StatementLine(prt1, 2), StatementLine(prt2, -1)>>,
         <<StatementLine(prt2, -1), StatementLine(prt2, -1)>>}],
   banking_mixed |-> [Banked EXCEPT !.batches = {<<3>>}, !.transfers = {2}, !.drawn = {1}]]

Bank(s) ==
  INSTANCE Banking WITH
    Workers <- s.workers, Accounts <- s.accounts, Openings <- s.openings,
    Batches <- s.batches, Statements <- s.statements, Transfers <- s.transfers,
    Edits <- s.edits, Legacy <- s.legacy, Drawn <- s.drawn, MaxAttempts <- s.attempts,
    MaxRows <- s.maxRows

--------------------------------------------------------------------------------
(* Books. *)

Side(account, debit, credit) == [account |-> account, debit |-> debit, credit |-> credit]
Even(ref) == [ref |-> ref, lines |-> {Side("1000", 2, 0), Side("6000", 0, 2)}]
Odd(ref) == [ref |-> ref, lines |-> {Side("1000", 3, 0), Side("6000", 0, 2)}]
Record(kind, amount, status) ==
  [kind |-> kind, ref |-> "r", amount |-> amount, status |-> status]

Kept ==
  [workers |-> Two, custom |-> {"6000"}, entries |-> {}, records |-> {}, reversals |-> 0]
Recorded ==
  [Kept EXCEPT !.custom = {}, !.records =
     {Record("ASSET", 4, "DRAFT"), Record("ASSET", 4, "ACTIVE"), Record("ASSET", 0, "PENDING"),
      Record("PAYROLL", 3, "APPROVED"), Record("PAYROLL", 3, "PENDING"),
      Record("PAYROLL", 3, "PAID")}]
BookScenes ==
  [books_races    |-> [Kept EXCEPT !.entries = {Even("j"), Odd("k")}, !.reversals = 3],
   books_serial   |-> [Kept EXCEPT !.workers = One, !.entries = {Even("j"), Even("k")},
                                   !.reversals = 4],
   books_records  |-> [Recorded EXCEPT !.reversals = 1],
   records_serial |-> [Recorded EXCEPT !.workers = One]]

Book(s) ==
  INSTANCE Books WITH
    Workers <- s.workers, Custom <- s.custom, Entries <- s.entries, Records <- s.records,
    Asks <- {"ACTIVE", "APPROVED", "PAID", "CLOSED", "DISPOSED", "CANCELLED", "REJECTED"},
    MaxReversals <- s.reversals

ASSUME LedgersAssumption ==
  /\ \E w \in Workers : One = {w}
  /\ Cardinality(Two) = 2 /\ One \union Two = Workers
  /\ \A n \in DOMAIN PayScenes : Pay(PayScenes[n])!PayablesAssumption
  /\ \A n \in DOMAIN OrderScenes : Order(OrderScenes[n])!PurchasingAssumption
  /\ \A n \in DOMAIN BankScenes : Bank(BankScenes[n])!BankingAssumption
  /\ \A n \in DOMAIN BookScenes : Book(BookScenes[n])!BooksAssumption

--------------------------------------------------------------------------------

NoPaying == payments = None /\ expenses = None /\ bank = None /\ balance = None
NoOrdering == requests = None /\ orders = None

Init ==
  \/ \E n \in DOMAIN PayScenes :
       /\ scene = n /\ Pay(PayScenes[n])!Init
       /\ NoOrdering /\ rows = None /\ records = None /\ accounts = None
  \/ \E n \in DOMAIN OrderScenes :
       /\ scene = n /\ Order(OrderScenes[n])!Init
       /\ NoPaying /\ rows = None /\ records = None /\ accounts = None /\ journals = None
  \/ \E n \in DOMAIN BankScenes :
       /\ scene = n /\ Bank(BankScenes[n])!Init
       /\ NoPaying /\ NoOrdering /\ records = None /\ bills = None
  \/ \E n \in DOMAIN BookScenes :
       /\ scene = n /\ Book(BookScenes[n])!Init
       /\ NoPaying /\ NoOrdering /\ rows = None /\ bills = None

Next ==
  /\ \/ /\ \E n \in DOMAIN PayScenes : scene = n /\ Pay(PayScenes[n])!Next
        /\ UNCHANGED <<ordering, rows, records, accounts>>
     \/ /\ \E n \in DOMAIN OrderScenes : scene = n /\ Order(OrderScenes[n])!Next
        /\ UNCHANGED <<paying, rows, records, accounts, journals>>
     \/ /\ \E n \in DOMAIN BankScenes : scene = n /\ Bank(BankScenes[n])!Next
        /\ UNCHANGED <<paying, ordering, records, bills>>
     \/ /\ \E n \in DOMAIN BookScenes : scene = n /\ Book(BookScenes[n])!Next
        /\ UNCHANGED <<paying, ordering, rows, bills>>
  /\ UNCHANGED scene

Spec == Init /\ [][Next]_vars

--------------------------------------------------------------------------------
(* The modules' properties, in the scenes where the code keeps them. *)

(* In every interleaving accounts payable is what is posted less the       *)
(* payments that stand, and a payment from the bank has one row there      *)
(* while it stands (createPayment, reversePayment, billStatus).            *)
PayablesKept ==
  \A n \in DOMAIN PayScenes : scene = n =>
    /\ Pay(PayScenes[n])!TypeOK
    /\ Pay(PayScenes[n])!PayablesLedger
    /\ Pay(PayScenes[n])!BankRowPerPayment

(* One request at a time: a bill is what its payments make of it, an       *)
(* expense is booked and drawn while it is approved, and the bank account  *)
(* loses what the ledger's cash account loses (recalc, expenseStatus).     *)
PaymentsAgree ==
  \A n \in {"payables_serial"} : scene = n =>
    /\ Pay(PayScenes[n])!BillAgrees
    /\ Pay(PayScenes[n])!ExpenseAgrees
    /\ Pay(PayScenes[n])!CashAgrees

(* A request becomes one order at most, in every interleaving; one at a    *)
(* time, request, order and bill agree about what came of what             *)
(* (createOrder, createBill).                                              *)
OrdersAgree ==
  \A n \in DOMAIN OrderScenes : scene = n =>
    /\ Order(OrderScenes[n])!OneOrderPerRequest
    /\ n = "purchasing_serial" => Order(OrderScenes[n])!ChainAgrees

(* In every interleaving no bank transaction is without its account, and   *)
(* the legs of a transfer are reversed together; without purchases, which  *)
(* write at READ COMMITTED, balances are right, the ledger's cash is the   *)
(* banks', and a line of a statement is imported to an account once.       *)
BankingKept ==
  \A n \in DOMAIN BankScenes : scene = n =>
    /\ Bank(BankScenes[n])!TypeOK
    /\ Bank(BankScenes[n])!TransferWhole
    /\ n # "banking_mixed" =>
         /\ Bank(BankScenes[n])!BalanceRight
         /\ Bank(BankScenes[n])!CashIsBanks
         /\ Bank(BankScenes[n])!ImportedOnce

(* A balance that a purchase left wrong is right after the next            *)
(* transaction of banking (recalc here and there).                         *)
BankingHeals ==
  [][\A n \in DOMAIN BankScenes : scene = n => Bank(BankScenes[n])!BankingHeals]_vars

(* In every interleaving debits equal credits, and payroll paid is payroll *)
(* accrued; one at a time, a reversed journal has one reversal, and the    *)
(* ledger's assets are those acquired and still held (postJournal,         *)
(* reverseJournal, postFinanceRecord).                                     *)
BooksKept ==
  \A n \in DOMAIN BookScenes : scene = n =>
    /\ Book(BookScenes[n])!BooksBalance
    /\ Book(BookScenes[n])!PaidIsAccrued
    /\ n = "books_serial" => Book(BookScenes[n])!ReversedOnceEach
    /\ n = "records_serial" => Book(BookScenes[n])!AssetBooks
================================================================================
