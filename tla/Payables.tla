-------------------------------- MODULE Payables --------------------------------
(***************************************************************************)
(* What is owed to suppliers and paid (PurchasesService in                 *)
(* src/src/modules/purchases/purchases.service.ts): bills, supplier        *)
(* payments and expenses, their journals, and the transactions they write  *)
(* on a bank account, one account here.  Transactions run at READ          *)
(* COMMITTED: the paid amount of a bill and the running balance of the     *)
(* account are computed from what was read and written back.  Expense and  *)
(* tax accounts are one, "5000"; suppliers, dates, branches, currencies    *)
(* and line items are left out.                                            *)
(***************************************************************************)
EXTENDS AutoJournal, Requests

CONSTANTS
  BillTotals,     \* totals of the bills entered
  BillStatuses,   \* what PATCH bills/:id/status may ask for
  Amounts,        \* amounts of supplier payments
  References,     \* their references
  Banked,         \* whether a bank account is named: a set of booleans
  Spendings,      \* POST expenses: [amount, bank]
  Opening,        \* the opening balance of the bank account
  MaxBills, MaxExpenses  \* bounds on the rows ever written

PayablesAssumption ==
  /\ BillTotals \subseteq Nat \ {0} /\ Amounts \subseteq Nat \ {0}
  /\ Banked \subseteq BOOLEAN /\ Opening \in Int
  /\ \A s \in Spendings : s.amount \in Nat \ {0} /\ s.bank \in BOOLEAN

VARIABLES
  bills,      \* Bill rows: [total, status, paid]
  payments,   \* SupplierPayment rows by reference: [bill, amount, bank, reversed]
  expenses,   \* Expense rows: [amount, bank, status]
  bank,       \* BankTransaction rows: [kind, source, ref, amount, reversed]
  balance,    \* currentBalance of the account
  journals    \* see AutoJournal

rowVars == <<bills, payments, expenses, bank, balance, journals>>
vars == <<rowVars, requestVars>>

EmptyTable == [k \in {} |-> {}]
Next1(table) == Cardinality(DOMAIN table) + 1

Init ==
  /\ bills = EmptyTable /\ payments = EmptyTable /\ expenses = EmptyTable
  /\ bank = EmptyTable /\ balance = Opening /\ journals = EmptyTable
  /\ NoRequests

--------------------------------------------------------------------------------
(* The bank account: a document posts a row, and the balance is computed   *)
(* again from all the rows that stand.                                     *)

Outgoing_All == DOMAIN bank
Outgoing == {r \in DOMAIN bank : ~bank[r].reversed}
Recalculated(rows) == Opening - SumFunction([r \in rows |-> bank[r].amount])

RowsOf(kind, id) ==
  {r \in DOMAIN bank : bank[r].kind = kind /\ bank[r].source = id /\ ~bank[r].reversed}

BankRow(kind, source, ref, amount) ==
  [kind |-> kind, source |-> source, ref |-> ref, amount |-> amount, reversed |-> FALSE]

(* A payment's row is written before the payment has an id, and linked to  *)
(* it by its reference afterwards.                                         *)
Linked_Not(rows, ref) == rows
Linked(rows, ref) ==
  [r \in DOMAIN rows |->
     IF rows[r].kind = "PAYMENT" /\ rows[r].source = None /\ rows[r].ref = ref
       THEN [rows[r] EXCEPT !.source = ref] ELSE rows[r]]

Struck_Left(rows) == bank
Struck(rows) == [r \in DOMAIN bank |-> [bank[r] EXCEPT !.reversed = @ \/ r \in rows]]

(* A reversal found to be due is written under a unique number: it fails   *)
(* when another request has written it first.                              *)
Due(number) == Reversible(journals, number, <<"REV", number>>)
Undone(number) == Reversed(journals, number, <<"REV", number>>)
StillDue(due, number) == due => Due(number)

--------------------------------------------------------------------------------
(* Bills. *)

CreateBill(t) ==
  /\ Cardinality(DOMAIN bills) < MaxBills
  /\ bills' = Entered(bills, Next1(bills), [total |-> t, status |-> "DRAFT", paid |-> 0])
  /\ UNCHANGED <<payments, expenses, bank, balance, journals, requestVars>>

(* Reading bills marks those past their due date; which ones are is left   *)
(* open.                                                                   *)
MarkOverdue(late) ==
  /\ late # {}
  /\ \A n \in late : bills[n].status \in {"APPROVED", "PARTIALLY_PAID"}
  /\ bills' = [n \in DOMAIN bills |-> IF n \in late THEN [bills[n] EXCEPT !.status = "OVERDUE"] ELSE bills[n]]
  /\ UNCHANGED <<payments, expenses, bank, balance, journals, requestVars>>

BillAllows == [s \in {"DRAFT", "PENDING_APPROVAL", "APPROVED", "OVERDUE", "PARTIALLY_PAID", "PAID", "VOID"} |->
  CASE s = "DRAFT" -> {"PENDING_APPROVAL", "APPROVED", "VOID"}
    [] s = "PENDING_APPROVAL" -> {"APPROVED", "DRAFT", "VOID"}
    [] s \in {"APPROVED", "OVERDUE"} -> {"VOID"}
    [] OTHER -> {}]

MayMove_Paid(b, s) == s \in BillAllows[b.status]
MayMove(b, s) ==
  /\ b.paid > 0 => s \notin {"DRAFT", "PENDING_APPROVAL", "VOID"}
  /\ s \in BillAllows[b.status]

BillRead(w, n, s) ==
  /\ Idle(w) /\ MayMove(bills[n], s)
  /\ Turn(w, "deciding", [bill |-> n, status |-> s])
  /\ UNCHANGED rowVars

BillCommit(w) ==
  /\ At(w, "deciding")
  /\ LET n == job[w].bill
         s == job[w].status
     IN  /\ bills' = [bills EXCEPT ![n].status = s]
         /\ journals' = CASE s = "APPROVED" -> Posted(journals, <<"BILL", n>>, Pair("5000", "2000", bills[n].total))
                          [] s = "VOID" -> Undone(<<"BILL", n>>)
                          [] OTHER -> journals
  /\ Done(w)
  /\ UNCHANGED <<payments, expenses, bank, balance>>

--------------------------------------------------------------------------------
(* Supplier payments. *)

Fits(b, a) == a <= b.total - b.paid

PayRead(w, n, a, ref, b) ==
  /\ Idle(w)
  /\ bills[n].status \in {"APPROVED", "PARTIALLY_PAID", "OVERDUE"}
  /\ Fits(bills[n], a)
  /\ Turn(w, IF b THEN "paying" ELSE "paid",
          [bill |-> n, amount |-> a, ref |-> ref, bank |-> b, seen |-> bills[n], balance |-> None])
  /\ UNCHANGED rowVars

(* The row is written and the balance computed, over the rows committed.   *)
PayBank(w) ==
  /\ At(w, "paying")
  /\ Turn(w, "paid", [job[w] EXCEPT !.balance = Recalculated(Outgoing) - job[w].amount])
  /\ UNCHANGED rowVars

PayCommit(w) ==
  /\ At(w, "paid") /\ job[w].ref \notin DOMAIN payments
  /\ LET j == job[w]
         paid == j.seen.paid + j.amount
     IN  /\ payments' = Entered(payments, j.ref,
              [bill |-> j.bill, amount |-> j.amount, bank |-> j.bank, reversed |-> FALSE])
         /\ IF j.bank
              THEN /\ bank' = Linked(Entered(bank, Next1(bank), BankRow("PAYMENT", None, j.ref, j.amount)), j.ref)
                   /\ balance' = j.balance
              ELSE UNCHANGED <<bank, balance>>
         /\ bills' = [bills EXCEPT ![j.bill].paid = paid,
              ![j.bill].status = IF paid >= bills[j.bill].total THEN "PAID" ELSE "PARTIALLY_PAID"]
         /\ journals' = Posted(journals, <<"PAYMENT", j.ref>>, Pair("2000", "1000", j.amount))
  /\ Done(w)
  /\ UNCHANGED expenses

UnpayRead(w, p) ==
  /\ Idle(w) /\ ~payments[p].reversed
  /\ Turn(w, "reversing", [payment |-> p])
  /\ UNCHANGED rowVars

UnpayBill(w) ==
  /\ At(w, "reversing")
  /\ LET p == job[w].payment IN
       Turn(w, "unpaying", [payment |-> p, due |-> Due(<<"PAYMENT", p>>),
                            paid |-> bills[payments[p].bill].paid - payments[p].amount,
                            rows |-> {}, balance |-> balance])
  /\ UNCHANGED rowVars

UnpayBank(w) ==
  /\ At(w, "unpaying")
  /\ LET rows == RowsOf("PAYMENT", job[w].payment) IN
       Turn(w, "unpaid", [job[w] EXCEPT !.rows = rows, !.balance = Recalculated(Outgoing \ rows)])
  /\ UNCHANGED rowVars

UnpayCommit(w) ==
  /\ At(w, "unpaid") /\ StillDue(job[w].due, <<"PAYMENT", job[w].payment>>)
  /\ LET j == job[w]
         n == payments[j.payment].bill
     IN  /\ payments' = [payments EXCEPT ![j.payment].reversed = TRUE]
         /\ bills' = [bills EXCEPT ![n].paid = j.paid,
              ![n].status = IF j.paid > 0 THEN "PARTIALLY_PAID" ELSE "APPROVED"]
         /\ bank' = Struck(j.rows)
         /\ balance' = IF j.rows = {} THEN balance ELSE j.balance
         /\ journals' = Undone(<<"PAYMENT", j.payment>>)
  /\ Done(w)
  /\ UNCHANGED expenses

--------------------------------------------------------------------------------
(* Expenses. *)

CreateExpense(s) ==
  /\ Cardinality(DOMAIN expenses) < MaxExpenses
  /\ expenses' = Entered(expenses, Next1(expenses), [amount |-> s.amount, bank |-> s.bank, status |-> "PENDING"])
  /\ UNCHANGED <<bills, payments, bank, balance, journals, requestVars>>

ExpenseAllows == [s \in {"PENDING", "APPROVED", "REJECTED", "VOID"} |->
  CASE s = "PENDING" -> {"APPROVED", "REJECTED"} [] s = "APPROVED" -> {"VOID"} [] OTHER -> {}]

ExpenseRead(w, e, s) ==
  /\ Idle(w) /\ s \in ExpenseAllows[expenses[e].status]
  /\ Turn(w, "spending", [expense |-> e, status |-> s])
  /\ UNCHANGED rowVars

Draws(j) == j.status = "APPROVED" /\ expenses[j.expense].bank

ExpenseBank(w) ==
  /\ At(w, "spending")
  /\ LET j == job[w]
         rows == IF j.status = "VOID" THEN RowsOf("EXPENSE", j.expense) ELSE {}
         drawn == IF Draws(j) THEN expenses[j.expense].amount ELSE 0
     IN  Turn(w, "spent", [expense |-> j.expense, status |-> j.status, rows |-> rows,
                           due |-> Due(<<"EXPENSE", j.expense>>),
                           balance |-> Recalculated(Outgoing \ rows) - drawn])
  /\ UNCHANGED rowVars

ExpenseCommit(w) ==
  /\ At(w, "spent")
  /\ LET j == job[w]
         e == expenses[j.expense]
         credit == IF e.bank THEN "1000" ELSE "2000"
     IN  /\ j.status = "VOID" => StillDue(j.due, <<"EXPENSE", j.expense>>)
         /\ expenses' = [expenses EXCEPT ![j.expense].status = j.status]
         /\ bank' = IF Draws(j) THEN Entered(bank, Next1(bank), BankRow("EXPENSE", j.expense, None, e.amount))
                    ELSE Struck(j.rows)
         /\ balance' = IF Draws(j) \/ j.rows # {} THEN j.balance ELSE balance
         /\ journals' = CASE j.status = "APPROVED" -> Posted(journals, <<"EXPENSE", j.expense>>, Pair("5000", credit, e.amount))
                          [] j.status = "VOID" -> Undone(<<"EXPENSE", j.expense>>)
                          [] OTHER -> journals
  /\ Done(w)
  /\ UNCHANGED <<bills, payments>>

Abort(w) == GiveUp(w) /\ UNCHANGED rowVars

--------------------------------------------------------------------------------

Billing(w) ==
  \/ \E n \in DOMAIN bills, s \in BillStatuses : BillRead(w, n, s)
  \/ BillCommit(w)

Paying(w) ==
  \/ \E n \in DOMAIN bills, a \in Amounts, r \in References, b \in Banked : PayRead(w, n, a, r, b)
  \/ PayBank(w) \/ PayCommit(w)
  \/ \E p \in DOMAIN payments : UnpayRead(w, p)
  \/ UnpayBill(w) \/ UnpayBank(w) \/ UnpayCommit(w)

Spending(w) ==
  \/ \E e \in DOMAIN expenses, s \in {"APPROVED", "REJECTED", "VOID"} : ExpenseRead(w, e, s)
  \/ ExpenseBank(w) \/ ExpenseCommit(w)

Arriving ==
  \/ \E t \in BillTotals : CreateBill(t)
  \/ \E late \in SUBSET DOMAIN bills : MarkOverdue(late)
  \/ \E s \in Spendings : CreateExpense(s)

Next ==
  \/ \E w \in Workers : Billing(w) \/ Paying(w) \/ Spending(w) \/ Abort(w)
  \/ Arriving

Spec == Init /\ [][Next]_vars

--------------------------------------------------------------------------------
(* Properties. *)

(* The shape of the rows; every bank row that a committed document wrote   *)
(* names its source (createPayment).                                       *)
TypeOK ==
  /\ \A n \in DOMAIN bills : bills[n].status \in DOMAIN BillAllows /\ bills[n].paid \in Int
  /\ \A p \in DOMAIN payments : payments[p].bill \in DOMAIN bills /\ payments[p].amount > 0
  /\ \A e \in DOMAIN expenses : expenses[e].status \in DOMAIN ExpenseAllows
  /\ \A r \in DOMAIN bank : bank[r].source \in DOMAIN payments \union DOMAIN expenses
  /\ balance \in Int

IsPosted(number) == number \in DOMAIN journals /\ journals[number].status = "POSTED"
PostedBills == {n \in DOMAIN bills : IsPosted(<<"BILL", n>>)}
Standing == {p \in DOMAIN payments : ~payments[p].reversed}
Owed == {e \in DOMAIN expenses : ~expenses[e].bank /\ IsPosted(<<"EXPENSE", e>>)}

(* In every interleaving accounts payable is the bills and the unpaid      *)
(* expenses that are posted, less the payments that stand.                 *)
PayablesLedger ==
  Balance(journals, "2000") =
    SumFunction([p \in Standing |-> payments[p].amount])
    - SumFunction([n \in PostedBills |-> bills[n].total])
    - SumFunction([e \in Owed |-> expenses[e].amount])

(* In every interleaving a payment from the bank account has one standing  *)
(* row there exactly while it stands itself, so that reversing it gives    *)
(* the money back once (createPayment's link by reference, reversePayment).*)
BankRowPerPayment ==
  \A p \in DOMAIN payments :
    Cardinality(RowsOf("PAYMENT", p)) = IF payments[p].bank /\ p \in Standing THEN 1 ELSE 0

PaidOn(n) ==
  SumFunction([p \in {p \in Standing : payments[p].bill = n} |-> payments[p].amount])

(* One request at a time, in every order: a bill's paid amount is its      *)
(* standing payments, within its total; its status says which; and it is   *)
(* in the ledger from its approval to its voiding.                         *)
BillAgrees ==
  \A n \in DOMAIN bills :
    LET b == bills[n] IN
      /\ b.paid = PaidOn(n) /\ b.paid <= b.total
      /\ b.status = "PAID" <=> b.paid = b.total
      /\ b.paid > 0 => b.status \in {"PARTIALLY_PAID", "OVERDUE", "PAID"}
      /\ IsPosted(<<"BILL", n>>) <=> b.status \notin {"DRAFT", "PENDING_APPROVAL", "VOID"}

(* One request at a time: an expense is in the ledger, and on the bank     *)
(* account once if it names one, exactly while it is approved.             *)
ExpenseAgrees ==
  \A e \in DOMAIN expenses :
    LET x == expenses[e] IN
      /\ IsPosted(<<"EXPENSE", e>>) <=> x.status = "APPROVED"
      /\ Cardinality(RowsOf("EXPENSE", e)) = IF x.bank /\ x.status = "APPROVED" THEN 1 ELSE 0

(* One request at a time: what the account lost since its opening is what  *)
(* the ledger's cash account lost, but for payments that name no account.  *)
CashAgrees ==
  balance - Opening =
    Balance(journals, "1000")
    + SumFunction([p \in {p \in Standing : ~payments[p].bank} |-> payments[p].amount])
================================================================================
