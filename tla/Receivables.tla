------------------------------- MODULE Receivables -------------------------------
(***************************************************************************)
(* What customers are billed and pay (InvoicesService in                   *)
(* src/src/modules/invoices/invoices.service.ts and SalesService in        *)
(* src/src/modules/sales/sales.service.ts): invoices, payments received,   *)
(* credit notes and quotations, with the journals they post.  An invoice   *)
(* carries two running amounts, paid and credited, that the handlers read, *)
(* compute with and write back.  Revenue and tax are one account, 4000;    *)
(* line items, dates, branches and currencies are left out.                *)
(***************************************************************************)
EXTENDS AutoJournal, Requests, FiniteSetsExt

CONSTANTS
  Bills,          \* POST invoices: [total, status]
  Amounts,        \* what is paid or credited at a time
  References,     \* references of payments, numbers of credit notes
  Estimates,      \* POST and PUT quotations: [total, status], the status may be left out
  QuoteStatuses,  \* what PATCH quotations/:id/status may ask for
  MaxInvoices, MaxReceipts, MaxQuotes  \* bounds on the rows ever written

InvoiceStatuses == {"DRAFT", "SENT", "PARTIALLY_PAID", "PAID", "OVERDUE", "VOID"}
QuotationStatuses ==
  {"DRAFT", "SENT", "ACCEPTED", "DECLINED", "EXPIRED", "CONVERTED", "VOID"}

(* What the endpoints accept: any status, and lines that come to nothing.  *)
ReceivablesAssumption ==
  /\ \A b \in Bills : b.total \in Nat /\ b.status \in InvoiceStatuses
  /\ \A e \in Estimates : e.total \in Nat /\ e.status \in QuotationStatuses \union {None}
  /\ QuoteStatuses \subseteq QuotationStatuses
  /\ Amounts \subseteq Nat \ {0}

VARIABLES
  invoices,   \* Invoice rows by number: [total, status, paid, credited, quote]
  payments,   \* PaymentReceived rows by id: [invoice, amount, ref]
  notes,      \* CreditNote rows by number: [invoice, amount, void]
  quotes,     \* Quotation rows by number: [total, status, invoice]
  journals    \* see AutoJournal

rowVars == <<invoices, payments, notes, quotes, journals>>
vars == <<rowVars, requestVars>>

EmptyTable == [k \in {} |-> {}]

Init ==
  /\ invoices = EmptyTable /\ payments = EmptyTable /\ notes = EmptyTable
  /\ quotes = EmptyTable /\ journals = EmptyTable
  /\ NoRequests

--------------------------------------------------------------------------------
(* Numbers are one more than the highest that is read; the unique index    *)
(* (organizationId, number) refuses a second row.                          *)

NextNumber_Count(table) == Cardinality(DOMAIN table)
NextNumber(table) == IF table = EmptyTable THEN 1 ELSE 1 + Max(DOMAIN table)
Free_Taken(table, number) == TRUE
Free(table, number) == number \notin DOMAIN table

Outstanding(i) == i.total - i.paid - i.credited

(* The status that goes with the amounts, when something is settled and    *)
(* when something is taken back.                                           *)
Settled(i, paid, credited) ==
  IF paid + credited >= i.total THEN "PAID" ELSE "PARTIALLY_PAID"
Unsettled(i, paid, credited) ==
  IF paid + credited < i.total /\ paid <= 0 /\ credited <= 0
    THEN "SENT" ELSE Settled(i, paid, credited)

Billed_Unposted(js, n) == js
Billed(js, n) == Posted(js, <<"INVOICE", n>>, Pair("1100", "4000", invoices[n].total))

(* An invoice for nothing cannot be billed: its transaction is refused.    *)
Billable(n, total) == Accepts(journals, <<"INVOICE", n>>, Pair("1100", "4000", total))

--------------------------------------------------------------------------------
(* Invoices. *)

CreateRead(w, b) ==
  /\ Idle(w) /\ Cardinality(DOMAIN invoices) < MaxInvoices
  /\ Turn(w, "issuing", [total |-> b.total, status |-> b.status, number |-> NextNumber(invoices)])
  /\ UNCHANGED rowVars

Invoice(total, status, quote) ==
  [total |-> total, status |-> status, paid |-> 0, credited |-> 0, quote |-> quote]

CreateCommit(w) ==
  /\ At(w, "issuing")
  /\ LET n == job[w].number IN
       /\ Free(invoices, n)
       /\ invoices' = Entered(invoices, n, Invoice(job[w].total, job[w].status, None))
       /\ \/ job[w].status \in {"DRAFT", "VOID"} /\ UNCHANGED journals
          \/ /\ job[w].status \notin {"DRAFT", "VOID"} /\ Billable(n, job[w].total)
             /\ journals' = Posted(journals, <<"INVOICE", n>>, Pair("1100", "4000", job[w].total))
  /\ Done(w)
  /\ UNCHANGED <<payments, notes, quotes>>

(* The invoice is read, the mail goes out, and a draft becomes SENT: by    *)
(* then it may be something else.                                          *)
SendRead(w, n) ==
  /\ Idle(w)
  /\ Turn(w, "mailing", [number |-> n, status |-> invoices[n].status])
  /\ UNCHANGED rowVars

MayMark_Any(status) == status # "VOID"
MayMark(status) == status = "DRAFT"

SendCommit(w) ==
  /\ At(w, "mailing")
  /\ IF MayMark(job[w].status)
       THEN /\ Billable(job[w].number, invoices[job[w].number].total)
            /\ invoices' = [invoices EXCEPT ![job[w].number].status = "SENT"]
            /\ journals' = Billed(journals, job[w].number)
       ELSE UNCHANGED <<invoices, journals>>
  /\ Done(w)
  /\ UNCHANGED <<payments, notes, quotes>>

--------------------------------------------------------------------------------
(* Payments.  What is paid is written as the figure that was read plus the *)
(* amount; an invoice that was never billed is billed by its first payment.*)

PayRead(w, n, a, ref) ==
  /\ Idle(w)
  /\ invoices[n].status # "VOID"
  /\ a <= Outstanding(invoices[n])
  /\ Turn(w, "paying", [number |-> n, amount |-> a, ref |-> ref, seen |-> invoices[n]])
  /\ UNCHANGED rowVars

Receipts == Cardinality({n \in DOMAIN journals : n[1] = "RECEIPT"})

PayCommit(w) ==
  /\ At(w, "paying")
  /\ Receipts < MaxReceipts
  /\ LET j == job[w]
         id == Receipts + 1
         paid == j.seen.paid + j.amount
     IN  /\ \A p \in DOMAIN payments : payments[p].ref # j.ref
         /\ payments' = Entered(payments, id, [invoice |-> j.number, amount |-> j.amount, ref |-> j.ref])
         /\ invoices' = [invoices EXCEPT ![j.number].paid = paid,
              ![j.number].status = Settled(j.seen, paid, j.seen.credited)]
         /\ journals' = Posted(Billed(journals, j.number), <<"RECEIPT", id>>,
                               Pair("1000", "1100", j.amount))
  /\ Done(w)
  /\ UNCHANGED <<notes, quotes>>

(* The payment row is deleted first, which locks it: a second reversal of  *)
(* it waits, and fails when the row is gone.                               *)
UnpayRead(w, p) ==
  /\ Idle(w)
  /\ Turn(w, "refunding", [payment |-> p, row |-> payments[p]])
  /\ UNCHANGED rowVars

UnpayDelete(w) ==
  /\ At(w, "refunding")
  /\ job[w].payment \in DOMAIN payments
  /\ \A v \in Doing("unpaying") : job[v].payment # job[w].payment
  /\ Turn(w, "unpaying", [payment |-> job[w].payment, row |-> job[w].row,
                          seen |-> invoices[job[w].row.invoice]])
  /\ UNCHANGED rowVars

UnpayCommit(w) ==
  /\ At(w, "unpaying")
  /\ LET j == job[w]
         paid == j.seen.paid - j.row.amount
     IN  /\ payments' = [p \in DOMAIN payments \ {j.payment} |-> payments[p]]
         /\ invoices' = [invoices EXCEPT ![j.row.invoice].paid = paid,
              ![j.row.invoice].status = Unsettled(j.seen, paid, j.seen.credited)]
         /\ journals' = Reversed(journals, <<"RECEIPT", j.payment>>, <<"REV-RECEIPT", j.payment>>)
  /\ Done(w)
  /\ UNCHANGED <<notes, quotes>>

--------------------------------------------------------------------------------
(* Credit notes.  Giving one increments what is credited; taking it back   *)
(* writes the figure that was read less the amount.                        *)

CreditRead(w, n, a, number) ==
  /\ Idle(w)
  /\ invoices[n].status # "VOID"
  /\ a <= Outstanding(invoices[n])
  /\ Turn(w, "crediting", [number |-> n, amount |-> a, note |-> number, seen |-> invoices[n]])
  /\ UNCHANGED rowVars

Credited_Absolute(j) == j.seen.credited + j.amount
Credited(j) == invoices[j.number].credited + j.amount

CreditCommit(w) ==
  /\ At(w, "crediting")
  /\ LET j == job[w] IN
       /\ Free(notes, j.note)
       /\ notes' = Entered(notes, j.note, [invoice |-> j.number, amount |-> j.amount, void |-> FALSE])
       /\ invoices' = [invoices EXCEPT ![j.number].credited = Credited(j),
            ![j.number].status = Settled(j.seen, j.seen.paid, j.seen.credited + j.amount)]
       /\ journals' = Posted(journals, <<"CREDIT", j.note>>, Pair("4000", "1100", j.amount))
  /\ Done(w)
  /\ UNCHANGED <<payments, quotes>>

UncreditRead(w, k) ==
  /\ Idle(w)
  /\ ~notes[k].void
  /\ Turn(w, "voiding", [note |-> k])
  /\ UNCHANGED rowVars

(* The note is updated first, which locks it, and then the invoice is read:*)
(* a second void of one note waits here, and goes on.                      *)
UncreditMark(w) ==
  /\ At(w, "voiding")
  /\ \A v \in Doing("uncrediting") : job[v].note # job[w].note
  /\ Turn(w, "uncrediting", [note |-> job[w].note, seen |-> invoices[notes[job[w].note].invoice]])
  /\ UNCHANGED rowVars

UncreditCommit(w) ==
  /\ At(w, "uncrediting")
  /\ LET k == job[w].note
         seen == job[w].seen
         credited == seen.credited - notes[k].amount
     IN  /\ notes' = [notes EXCEPT ![k].void = TRUE]
         /\ invoices' = [invoices EXCEPT ![notes[k].invoice].credited = credited,
              ![notes[k].invoice].status = Unsettled(seen, seen.paid, credited)]
         /\ journals' = Reversed(journals, <<"CREDIT", k>>, <<"REV-CREDIT", k>>)
  /\ Done(w)
  /\ UNCHANGED <<payments, quotes>>

--------------------------------------------------------------------------------
(* Quotations.  Editing and converting read the status and write later.    *)

QuoteRead(w, e) ==
  /\ Idle(w) /\ Cardinality(DOMAIN quotes) < MaxQuotes
  /\ Turn(w, "quoting", [total |-> e.total, status |-> e.status, number |-> NextNumber(quotes)])
  /\ UNCHANGED rowVars

QuoteCommit(w) ==
  /\ At(w, "quoting")
  /\ Free(quotes, job[w].number)
  /\ quotes' = Entered(quotes, job[w].number,
                       [total |-> job[w].total, invoice |-> None,
                        status |-> IF job[w].status = None THEN "DRAFT" ELSE job[w].status])
  /\ Done(w)
  /\ UNCHANGED <<invoices, payments, notes, journals>>

MayEdit_Unread(q) == TRUE
MayEdit(q) == quotes[q].status # "CONVERTED"

EditRead(w, q, e) ==
  /\ Idle(w) /\ MayEdit(q)
  /\ Turn(w, "editing", [quote |-> q, total |-> e.total, status |-> e.status])
  /\ UNCHANGED rowVars

EditCommit(w) ==
  /\ At(w, "editing")
  /\ quotes' = [quotes EXCEPT ![job[w].quote].total = job[w].total,
                 ![job[w].quote].status = IF job[w].status = None THEN @ ELSE job[w].status]
  /\ Done(w)
  /\ UNCHANGED <<invoices, payments, notes, journals>>

SetQuoteStatus(w, q, s) ==
  /\ Idle(w)
  /\ quotes' = [quotes EXCEPT ![q].status = s]
  /\ UNCHANGED <<invoices, payments, notes, journals, requestVars>>

ConvertRead(w, q) ==
  /\ Idle(w) /\ Cardinality(DOMAIN invoices) < MaxInvoices
  /\ quotes[q].status \notin {"CONVERTED", "VOID"}
  /\ Turn(w, "converting", [quote |-> q, total |-> quotes[q].total])
  /\ UNCHANGED rowVars

ConvertNumber(w) ==
  /\ At(w, "converting")
  /\ Turn(w, "converted", [quote |-> job[w].quote, total |-> job[w].total,
                           number |-> NextNumber(invoices)])
  /\ UNCHANGED rowVars

ConvertCommit(w) ==
  /\ At(w, "converted")
  /\ LET j == job[w] IN
       /\ Free(invoices, j.number)
       /\ invoices' = Entered(invoices, j.number, Invoice(j.total, "DRAFT", j.quote))
       /\ quotes' = [quotes EXCEPT ![j.quote].status = "CONVERTED", ![j.quote].invoice = j.number]
  /\ Done(w)
  /\ UNCHANGED <<payments, notes, journals>>

Abort(w) == GiveUp(w) /\ UNCHANGED rowVars

--------------------------------------------------------------------------------

Invoicing(w) ==
  \/ \E b \in Bills : CreateRead(w, b)
  \/ \E n \in DOMAIN invoices : SendRead(w, n)
  \/ CreateCommit(w) \/ SendCommit(w)

Paying(w) ==
  \/ \E n \in DOMAIN invoices, a \in Amounts, r \in References : PayRead(w, n, a, r)
  \/ PayCommit(w)
  \/ \E p \in DOMAIN payments : UnpayRead(w, p)
  \/ UnpayDelete(w) \/ UnpayCommit(w)

Crediting(w) ==
  \/ \E n \in DOMAIN invoices, a \in Amounts, r \in References : CreditRead(w, n, a, r)
  \/ CreditCommit(w)
  \/ \E k \in DOMAIN notes : UncreditRead(w, k)
  \/ UncreditMark(w) \/ UncreditCommit(w)

Quoting(w) ==
  \/ \E e \in Estimates : QuoteRead(w, e)
  \/ \E q \in DOMAIN quotes :
       \/ \E e \in Estimates : EditRead(w, q, e)
       \/ \E s \in QuoteStatuses : SetQuoteStatus(w, q, s)
       \/ ConvertRead(w, q)
  \/ QuoteCommit(w) \/ EditCommit(w) \/ ConvertNumber(w) \/ ConvertCommit(w)

Next ==
  \E w \in Workers : Invoicing(w) \/ Paying(w) \/ Crediting(w) \/ Quoting(w) \/ Abort(w)

(* Nothing is taken back: payments and credit notes are only given.        *)
ForwardNext ==
  \E w \in Workers :
    \/ Invoicing(w) \/ Abort(w)
    \/ \E n \in DOMAIN invoices, a \in Amounts, r \in References :
         PayRead(w, n, a, r) \/ CreditRead(w, n, a, r)
    \/ PayCommit(w) \/ CreditCommit(w)

Spec == Init /\ [][Next]_vars
ForwardSpec == Init /\ [][ForwardNext]_vars

--------------------------------------------------------------------------------
(* Properties. *)

(* The shape of the rows, and that invoices are numbered 1, 2, 3, ...      *)
TypeOK ==
  /\ DOMAIN invoices = 1 .. Cardinality(DOMAIN invoices)
  /\ \A n \in DOMAIN invoices :
       /\ invoices[n].status \in InvoiceStatuses
       /\ invoices[n].total \in Nat /\ {invoices[n].paid, invoices[n].credited} \subseteq Int
       /\ invoices[n].quote \in DOMAIN quotes \union {None}
  /\ \A p \in DOMAIN payments : payments[p].invoice \in DOMAIN invoices
  /\ \A k \in DOMAIN notes : notes[k].invoice \in DOMAIN invoices /\ notes[k].void \in BOOLEAN
  /\ \A q \in DOMAIN quotes :
       /\ quotes[q].status \in QuotationStatuses
       /\ quotes[q].invoice \in DOMAIN invoices \union {None}

SumRows(table, rows) == SumFunction([r \in rows |-> table[r].amount])
PaymentsOf(n) == {p \in DOMAIN payments : payments[p].invoice = n}
NotesOf(n)    == {k \in DOMAIN notes : notes[k].invoice = n /\ ~notes[k].void}

(* In every interleaving accounts receivable is what was billed less the   *)
(* payments and the credit notes that stand, although the amounts on the   *)
(* invoices may be wrong: the ledger is right where they are not.          *)
ReceivablesLedger ==
  Balance(journals, "1100") =
    SumFunction([n \in {n \in DOMAIN invoices : <<"INVOICE", n>> \in DOMAIN journals} |->
                   invoices[n].total])
    - SumRows(payments, DOMAIN payments)
    - SumRows(notes, {k \in DOMAIN notes : ~notes[k].void})

(* An invoice that is past being a draft is in the ledger, unless a credit *)
(* note was given on it as a draft, which moves it on without billing it   *)
(* (createCreditNote, voidCredit).                                         *)
BilledUnlessCredited ==
  \A n \in DOMAIN invoices :
    invoices[n].status \notin {"DRAFT", "VOID"} =>
      \/ <<"INVOICE", n>> \in DOMAIN journals
      \/ \E k \in DOMAIN notes : notes[k].invoice = n

(* No invoice is replaced by another of its number: of two requests that   *)
(* read the same highest number the unique index lets one through.         *)
InvoicesStand ==
  \A n \in DOMAIN invoices : n \in DOMAIN invoices'
    /\ invoices'[n].total = invoices[n].total /\ invoices'[n].quote = invoices[n].quote

(* When nothing is taken back: credit notes, being increments, add up in   *)
(* every interleaving; a payment may be lost from the figure, never        *)
(* counted twice.                                                          *)
ForwardSums ==
  \A n \in DOMAIN invoices :
    /\ invoices[n].credited = SumRows(notes, NotesOf(n))
    /\ invoices[n].paid <= SumRows(payments, PaymentsOf(n))

(* One request at a time: the amounts on an invoice are its payments and   *)
(* its standing credit notes, never more than its total, and once either   *)
(* is there the status says what they amount to, in every order of         *)
(* payments, credit notes, their reversals and sending, whatever status    *)
(* the invoice was created with.                                           *)
StatusFor(i) ==
  IF i.paid + i.credited = i.total THEN "PAID" ELSE "PARTIALLY_PAID"

SettlementAgrees ==
  \A n \in DOMAIN invoices :
    LET i == invoices[n] IN
      /\ i.paid = SumRows(payments, PaymentsOf(n))
      /\ i.credited = SumRows(notes, NotesOf(n))
      /\ i.paid + i.credited <= i.total
      /\ i.paid + i.credited > 0 => i.status = StatusFor(i)

(* One request at a time, a status that a client gave is kept only until   *)
(* something happens to the invoice: any change leaves it SENT with        *)
(* nothing settled, or with the status its amounts call for.               *)
StatusFollows ==
  \A n \in DOMAIN invoices :
    LET i == invoices'[n] IN
      i # invoices[n] => i.status = IF i.paid + i.credited = 0 THEN "SENT" ELSE StatusFor(i)

(* One request at a time, whatever statuses are asked for: a quotation     *)
(* that is CONVERTED keeps its total, and one that gets an invoice was     *)
(* open, becomes CONVERTED and gets one of its own, made out for its total.*)
ConvertedFrom(q, n) ==
  /\ quotes[q].status \notin {"CONVERTED", "VOID"} /\ quotes'[q].status = "CONVERTED"
  /\ n \in DOMAIN invoices' \ DOMAIN invoices
  /\ invoices'[n].quote = q
  /\ invoices'[n].total = quotes[q].total /\ quotes'[q].total = quotes[q].total

QuotationsStand ==
  \A q \in DOMAIN quotes :
    /\ q \in DOMAIN quotes'
    /\ quotes[q].status = "CONVERTED" => quotes'[q].total = quotes[q].total
    /\ quotes'[q].invoice # quotes[q].invoice => ConvertedFrom(q, quotes'[q].invoice)
================================================================================
