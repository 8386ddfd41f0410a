---------------------------------- MODULE Books ----------------------------------
(***************************************************************************)
(* The books that are kept by hand (AccountingService in                   *)
(* src/src/modules/accounting/accounting.service.ts): ledger accounts,     *)
(* journals drafted, posted and reversed by users, and finance records,    *)
(* assets and payroll, which post journals as their status moves.  Each    *)
(* handler reads a status in one statement and writes it in another.       *)
(***************************************************************************)
EXTENDS AutoJournal, Requests

CONSTANTS
  Custom,        \* codes of accounts users may create
  Entries,       \* POST journals: [ref, lines]
  Records,       \* POST records: [kind, ref, amount, status]
  Asks,          \* statuses PATCH records/:id/status may ask for
  MaxReversals   \* bound on the reversals ever written

(* The accounts every organization has, which cannot be archived.          *)
SystemAccounts == {"1000", "1200", "2000", "5200", "5400"}
Codes == SystemAccounts \union Custom

(* The lines of an entry name accounts that were looked up.                *)
BooksAssumption ==
  /\ IsFiniteSet(Custom)
  /\ \A e \in Entries :
       /\ IsFiniteSet(e.lines)
       /\ \A l \in e.lines : /\ l = Line(l.account, l.debit, l.credit) /\ l.account \in Codes
                            /\ l.debit \in Nat /\ l.credit \in Nat
  /\ \A r \in Records : r.kind \in {"ASSET", "PAYROLL"} /\ r.amount \in Nat

VARIABLES
  accounts,   \* LedgerAccount rows by code: "absent", "active" or "archived"
  journals,   \* Journal rows by number, see AutoJournal; a status may be DRAFT
  records     \* FinanceRecord rows by <<kind, reference>>: [amount, status]

rowVars == <<accounts, journals, records>>
vars == <<rowVars, requestVars>>

Init ==
  /\ accounts = [c \in Codes |-> IF c \in Custom THEN "absent" ELSE "active"]
  /\ journals = [k \in {} |-> {}]
  /\ records = [k \in {} |-> {}]
  /\ NoRequests

--------------------------------------------------------------------------------
(* Accounts. *)

CreateAccount(c) ==
  /\ accounts[c] = "absent"
  /\ accounts' = [accounts EXCEPT ![c] = "active"]
  /\ UNCHANGED <<journals, records, requestVars>>

SetAccount(c, state) ==
  /\ accounts[c] # "absent"
  /\ c \in SystemAccounts => state = "active"
  /\ accounts' = [accounts EXCEPT ![c] = state]
  /\ UNCHANGED <<journals, records, requestVars>>

--------------------------------------------------------------------------------
(* Journals. *)

Valid_Unequal(lines) == TotalDebit(lines) > 0
Valid(lines) ==
  /\ TotalDebit(lines) > 0 /\ TotalDebit(lines) = TotalCredit(lines)
  /\ \A l \in lines : l.debit > 0 <=> l.credit = 0

Active(lines) == \A l \in lines : accounts[l.account] = "active"

DraftRead(w, e) ==
  /\ Idle(w) /\ Active(e.lines) /\ Valid(e.lines)
  /\ Turn(w, "drafting", e)
  /\ UNCHANGED rowVars

DraftCommit(w) ==
  /\ At(w, "drafting") /\ <<"MANUAL", job[w].ref>> \notin DOMAIN journals
  /\ journals' = Entered(journals, <<"MANUAL", job[w].ref>>, [lines |-> job[w].lines, status |-> "DRAFT"])
  /\ Done(w)
  /\ UNCHANGED <<accounts, records>>

PostRead(w, n) ==
  /\ Idle(w) /\ journals[n].status = "DRAFT"
  /\ Valid(journals[n].lines) /\ Active(journals[n].lines)
  /\ Turn(w, "posting", [journal |-> n])
  /\ UNCHANGED rowVars

PostCommit(w) ==
  /\ At(w, "posting")
  /\ journals' = [journals EXCEPT ![job[w].journal].status = "POSTED"]
  /\ Done(w)
  /\ UNCHANGED <<accounts, records>>

MayReverse_Draft(n) == journals[n].status # "DRAFT"
MayReverse(n) == journals[n].status = "POSTED"

ReverseRead(w, n) ==
  /\ Idle(w) /\ MayReverse(n)
  /\ Turn(w, "reversing", [journal |-> n])
  /\ UNCHANGED rowVars

IsReversal(n) == n[1] = "REV"
Reversals == Cardinality({n \in DOMAIN journals : IsReversal(n)})

(* The number of the reversal carries the time: none is taken.             *)
ReverseCommit(w) ==
  /\ At(w, "reversing") /\ Reversals < MaxReversals
  /\ LET n == job[w].journal IN
       journals' = Entered([journals EXCEPT ![n].status = "REVERSED"], <<"REV", n, Reversals + 1>>,
                           [lines |-> Mirrored(journals[n].lines), status |-> "POSTED"])
  /\ Done(w)
  /\ UNCHANGED <<accounts, records>>

--------------------------------------------------------------------------------
(* Finance records: what a record of a status posts, once each.            *)

Accrues_Approved(s) == s = "APPROVED"
Accrues(s) == s \in {"APPROVED", "PAID"}

Postings(r, amount, s) ==
  {p \in {[number |-> <<"ASSET", r>>,    due |-> r[1] = "ASSET" /\ s \in {"ACTIVE", "APPROVED", "PAID"},
           lines |-> Pair("1200", "1000", amount)],
          [number |-> <<"DISPOSAL", r>>, due |-> r[1] = "ASSET" /\ s = "DISPOSED",
           lines |-> Pair("5400", "1200", amount)],
          [number |-> <<"PAYROLL", r>>,  due |-> r[1] = "PAYROLL" /\ Accrues(s),
           lines |-> Pair("5200", "2000", amount)],
          [number |-> <<"PAYMENT", r>>,  due |-> r[1] = "PAYROLL" /\ s = "PAID",
           lines |-> Pair("2000", "1000", amount)]} : p.due}

(* All of them are accepted, or the transaction fails.                     *)
Posts(r, amount, s) ==
  LET due == Postings(r, amount, s)
      numbers == {p.number : p \in due}
      Of(n) == (CHOOSE p \in due : p.number = n).lines
  IN  /\ \A p \in due : Accepts(journals, p.number, p.lines)
      /\ journals' = [n \in DOMAIN journals \union numbers |->
                        IF n \in DOMAIN journals THEN journals[n]
                        ELSE [lines |-> Normalized(Of(n)), status |-> "POSTED"]]

CreateRecord(rec) ==
  LET r == <<rec.kind, rec.ref>> IN
    /\ r \notin DOMAIN records
    /\ records' = Entered(records, r, [amount |-> rec.amount, status |-> rec.status])
    /\ Posts(r, rec.amount, rec.status)
    /\ UNCHANGED <<accounts, requestVars>>

Allows_Cancel(s) ==
  CASE s = "DRAFT" -> {"ACTIVE", "APPROVED", "CANCELLED"} [] s = "PENDING" -> {"APPROVED", "REJECTED"}
    [] s = "ACTIVE" -> {"CLOSED", "DISPOSED", "CANCELLED"} [] s = "APPROVED" -> {"PAID", "CLOSED"}
    [] s = "PAID" -> {"CLOSED"} [] OTHER -> {}
Allows(s) ==
  CASE s = "DRAFT" -> {"ACTIVE", "APPROVED", "CANCELLED"} [] s = "PENDING" -> {"APPROVED", "REJECTED"}
    [] s = "ACTIVE" -> {"CLOSED", "DISPOSED"} [] s = "APPROVED" -> {"PAID", "CLOSED"}
    [] s = "PAID" -> {"CLOSED"} [] OTHER -> {}

RecordRead(w, r, s) ==
  /\ Idle(w) /\ s \in Allows(records[r].status)
  /\ Turn(w, "moving", [record |-> r, status |-> s])
  /\ UNCHANGED rowVars

RecordCommit(w) ==
  /\ At(w, "moving")
  /\ LET r == job[w].record IN
       /\ records' = [records EXCEPT ![r].status = job[w].status]
       /\ Posts(r, records[r].amount, job[w].status)
  /\ Done(w)
  /\ UNCHANGED accounts

Abort(w) == GiveUp(w) /\ UNCHANGED rowVars

--------------------------------------------------------------------------------

Keeping(w) ==
  \/ \E e \in Entries : DraftRead(w, e)
  \/ \E n \in DOMAIN journals : PostRead(w, n) \/ ReverseRead(w, n)
  \/ \E r \in DOMAIN records, s \in Asks : RecordRead(w, r, s)
  \/ DraftCommit(w) \/ PostCommit(w) \/ ReverseCommit(w) \/ RecordCommit(w) \/ Abort(w)

Next ==
  \/ \E w \in Workers : Keeping(w)
  \/ \E c \in Custom : CreateAccount(c)
  \/ \E c \in Codes, s \in {"active", "archived"} : SetAccount(c, s)
  \/ \E rec \in Records : CreateRecord(rec)

Spec == Init /\ [][Next]_vars

--------------------------------------------------------------------------------
(* Properties. *)

(* In the ledger are the journals that are, or once were, posted.          *)
Ledger == {n \in DOMAIN journals : journals[n].status # "DRAFT"}

(* In every interleaving, whatever is reversed twice or posted again, the  *)
(* ledger's debits equal its credits.                                      *)
BooksBalance == SumFunction([c \in Codes |-> BalanceOver(journals, Ledger, c)]) = 0

(* One request at a time: a journal is REVERSED exactly when one reversal, *)
(* of the same lines turned round, is in the ledger with it.               *)
ReversedOnceEach ==
  \A n \in DOMAIN journals :
    LET back == {m \in DOMAIN journals : IsReversal(m) /\ m[2] = n} IN
      /\ Cardinality(back) = IF journals[n].status = "REVERSED" THEN 1 ELSE 0
      /\ \A m \in back, c \in Codes : Movement(journals[m], c) = -Movement(journals[n], c)

(* In every interleaving payroll that was paid has been accrued, even when *)
(* the record was entered as PAID: payables are not left with the payment  *)
(* alone (postFinanceRecord).                                              *)
PaidIsAccrued ==
  \A r \in DOMAIN records : <<"PAYMENT", r>> \in DOMAIN journals => <<"PAYROLL", r>> \in DOMAIN journals

(* One record request at a time, for assets entered before they are        *)
(* disposed of or closed: the fixed assets of the ledger are those acquired*)
(* and not disposed of, and nothing is left of one that was cancelled.     *)
AssetBooks ==
  BalanceOver(journals, Ledger, "1200") =
    SumFunction([r \in {r \in DOMAIN records :
                         /\ r[1] = "ASSET"
                         /\ records[r].status \in {"ACTIVE", "APPROVED", "PAID", "CLOSED"}} |->
                   records[r].amount])
================================================================================
