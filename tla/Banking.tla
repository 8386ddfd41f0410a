--------------------------------- MODULE Banking ---------------------------------
(***************************************************************************)
(* Bank accounts and their transactions (BankingService in                 *)
(* src/src/modules/banking/banking.service.ts).  A request checks what it  *)
(* was sent, and then runs one SERIALIZABLE transaction, up to MaxAttempts *)
(* times when it collides with another: such a transaction is one step     *)
(* here, but what was checked before it is old by then, and older at each  *)
(* attempt.  Purchases posts to the same accounts at READ COMMITTED (see   *)
(* Payables).  Amounts are signed: money in is positive.  Descriptions,    *)
(* dates, currencies, branches and reconciliation marks are left out.      *)
(***************************************************************************)
EXTENDS AutoJournal, Requests

CONSTANTS
  Accounts,     \* ids of bank accounts
  Openings,     \* opening balances
  Batches,      \* POST transactions: sequences of amounts, one or several
  Statements,   \* POST import: sequences of [print, amount], print a fingerprint
  Transfers,    \* amounts of transfers
  Edits,        \* amounts a transaction is corrected to
  Legacy,       \* amounts of transactions older than automatic posting
  Drawn,        \* amounts Purchases draws from an account
  MaxAttempts,  \* attempts of a serializable transaction
  MaxRows       \* bound on the transactions ever written

BankingAssumption ==
  /\ IsFiniteSet(Accounts) /\ None \notin Workers \union Nat
  /\ Openings \subseteq Int /\ Edits \subseteq Int \ {0} /\ Legacy \subseteq Int \ {0}
  /\ Batches \subseteq Seq(Int \ {0})
  /\ \A t \in Statements : /\ Len(t) \in Nat /\ t = [i \in 1 .. Len(t) |-> t[i]]
                           /\ \A i \in DOMAIN t : t[i].amount \in Int \ {0}
  /\ Transfers \subseteq Nat \ {0} /\ Drawn \subseteq Nat \ {0}
  /\ MaxAttempts \in Nat \ {0}

VARIABLES
  accounts,   \* BankAccount rows: [state, opening, balance]
  rows,       \* BankTransaction rows, in order: see Row
  journals    \* see AutoJournal

rowVars == <<accounts, rows, journals>>
vars == <<rowVars, requestVars>>

Absent == [state |-> "absent", opening |-> 0, balance |-> 0]

(* A row: the account, the amount, the transfer it is a leg of, the        *)
(* fingerprint of the statement line it was imported from, whether a       *)
(* purchase posted it, and who has reversed it.                            *)
Row(acc, amount, group, print, linked) ==
  [account |-> acc, amount |-> amount, group |-> group, print |-> print,
   linked |-> linked, by |-> None]

Init ==
  /\ accounts = [acc \in Accounts |-> Absent]
  /\ rows = << >>
  /\ journals = [k \in {} |-> {}]
  /\ NoRequests

Exists(acc) == accounts[acc].state \in {"open", "archived"}
Open(acc) == accounts[acc].state = "open"

Standing(rs, acc) == {r \in DOMAIN rs : rs[r].account = acc /\ rs[r].by = None}
StandingSum(rs, acc) == SumFunction([r \in Standing(rs, acc) |-> rs[r].amount])

(* recalculateAccount, for the accounts of accs.                           *)
Recalculated(rs, accs) ==
  [acc \in Accounts |->
     IF acc \in accs THEN [accounts[acc] EXCEPT !.balance = accounts[acc].opening + StandingSum(rs, acc)]
     ELSE accounts[acc]]

--------------------------------------------------------------------------------
(* The serializable transaction: it commits, or collides and is tried      *)
(* again, or fails.                                                        *)

SerialLabels == {"recording", "importing", "transferring", "editing", "reversing"}

Starts(w, label, j) ==
  /\ Turn(w, label, j)
  /\ UNCHANGED rowVars

Attempts_Endless(attempt) == {IF attempt < MaxAttempts THEN attempt + 1 ELSE 1}
Attempts(attempt) == IF attempt < MaxAttempts THEN {attempt + 1} ELSE {}

Retry(w) ==
  /\ pc[w] \in SerialLabels
  /\ \E next \in Attempts(job[w].attempt) : job' = [job EXCEPT ![w].attempt = next]
  /\ UNCHANGED <<rowVars, pc>>

--------------------------------------------------------------------------------
(* Accounts. *)

OpeningLines(v) == IF v > 0 THEN Pair("1000", "3900", v) ELSE Pair("3900", "1000", -v)

CreateAccount(acc, v) ==
  /\ accounts[acc] = Absent
  /\ accounts' = [accounts EXCEPT ![acc] = [state |-> "open", opening |-> v, balance |-> v]]
  /\ journals' = IF v = 0 THEN journals ELSE Posted(journals, <<"OPENING", acc>>, OpeningLines(v))
  /\ UNCHANGED <<rows, requestVars>>

UpdateAccount(acc, state) ==
  /\ Exists(acc)
  /\ accounts' = [accounts EXCEPT ![acc].state = state]
  /\ UNCHANGED <<rows, journals, requestVars>>

Used(acc) == \E r \in DOMAIN rows : rows[r].account = acc

DeleteRead(w, acc) ==
  /\ Idle(w) /\ accounts[acc].state = "archived" /\ ~Used(acc)
  /\ Turn(w, "deleting", [account |-> acc])
  /\ UNCHANGED rowVars

(* The foreign key keeps an account that a row refers to by now.           *)
Deletable_Counted(acc) == TRUE
Deletable(acc) == Exists(acc) /\ ~Used(acc)

DeleteCommit(w) ==
  /\ At(w, "deleting") /\ Deletable(job[w].account)
  /\ accounts' = [accounts EXCEPT ![job[w].account].state = "deleted"]
  /\ Done(w)
  /\ UNCHANGED <<rows, journals>>

--------------------------------------------------------------------------------
(* Transactions entered and imported: each is posted against the           *)
(* uncategorized account.                                                  *)

EntryLines(v) == IF v > 0 THEN Pair("1000", "9999", v) ELSE Pair("9999", "1000", -v)

PostedEntries(js, first, rs) ==
  [k \in DOMAIN js \union {<<"BANK", r>> : r \in first .. Len(rs)} |->
     IF k \in DOMAIN js THEN js[k]
     ELSE [lines |-> EntryLines(rs[k[2]].amount), status |-> "POSTED"]]

Records(acc, entries) ==
  LET rs == rows \o [i \in DOMAIN entries |-> Row(acc, entries[i].amount, None, entries[i].print, FALSE)] IN
    /\ Len(rs) <= MaxRows /\ Exists(acc)
    /\ rows' = rs
    /\ accounts' = Recalculated(rs, {acc})
    /\ journals' = PostedEntries(journals, Len(rows) + 1, rs)

RecordRead(w, acc, batch) ==
  /\ Idle(w) /\ Open(acc)
  /\ Starts(w, "recording", [attempt |-> 1, account |-> acc, batch |-> batch])

RecordCommit(w) ==
  /\ At(w, "recording")
  /\ Records(job[w].account, [i \in DOMAIN job[w].batch |-> [amount |-> job[w].batch[i], print |-> None]])
  /\ Done(w)

ImportRead(w, acc, statement) ==
  /\ Idle(w) /\ Exists(acc)
  /\ Starts(w, "importing", [attempt |-> 1, account |-> acc, statement |-> statement])

(* No line was imported before, to this account, nor comes twice.          *)
New_Standing(acc, statement) ==
  \A i \in DOMAIN statement : \A r \in Standing(rows, acc) : rows[r].print # statement[i].print
New(acc, statement) ==
  \A i \in DOMAIN statement :
    /\ \A r \in DOMAIN rows : rows[r].account = acc => rows[r].print # statement[i].print
    /\ \A k \in DOMAIN statement \ {i} : statement[k].print # statement[i].print

ImportCommit(w) ==
  /\ At(w, "importing")
  /\ New(job[w].account, job[w].statement)
  /\ Records(job[w].account, job[w].statement)
  /\ Done(w)

(* Only a transaction that was never posted may be corrected.              *)
Editable_Posted(r) == rows[r].by = None /\ rows[r].group = None /\ ~rows[r].linked
Editable(r) ==
  /\ rows[r].by = None /\ rows[r].group = None /\ ~rows[r].linked
  /\ ~(<<"BANK", r>> \in DOMAIN journals /\ journals[<<"BANK", r>>].status = "POSTED")

EditRead(w, r, v) ==
  /\ Idle(w) /\ Editable(r)
  /\ Starts(w, "editing", [attempt |-> 1, row |-> r, amount |-> v])

EditCommit(w) ==
  /\ At(w, "editing")
  /\ LET r == job[w].row IN
       /\ rows' = [rows EXCEPT ![r].amount = job[w].amount]
       /\ accounts' = Recalculated(rows', {rows[r].account})
  /\ Done(w)
  /\ UNCHANGED journals

(* A transaction of before automatic posting.                              *)
Inherit(acc, v) ==
  /\ rows = << >> /\ AllIdle /\ Open(acc)
  /\ rows' = <<Row(acc, v, None, None, FALSE)>>
  /\ accounts' = Recalculated(rows', {acc})
  /\ UNCHANGED <<journals, requestVars>>

--------------------------------------------------------------------------------
(* Transfers and reversals. *)

TransferRead(w, from, to, v) ==
  /\ Idle(w) /\ from # to /\ Open(from) /\ Open(to)
  /\ Starts(w, "transferring", [attempt |-> 1, from |-> from, to |-> to, amount |-> v])

TransferCommit(w) ==
  /\ At(w, "transferring") /\ Len(rows) + 2 <= MaxRows
  /\ LET j == job[w]
         g == Len(rows) + 1
     IN  /\ Exists(j.from) /\ Exists(j.to)
         /\ rows' = rows \o <<Row(j.from, -j.amount, g, None, FALSE), Row(j.to, j.amount, g, None, FALSE)>>
         /\ accounts' = Recalculated(rows', {j.from, j.to})
         /\ journals' = Posted(journals, <<"TRANSFER", g>>, Pair("1000", "1000", j.amount))
  /\ Done(w)

ReverseRead(w, r) ==
  /\ Idle(w) /\ rows[r].by = None /\ ~rows[r].linked
  /\ Starts(w, "reversing", [attempt |-> 1, row |-> r])

Legs(g) == {r \in DOMAIN rows : rows[r].group = g}
Struck_One(r) == {r}
Struck(r) ==
  IF rows[r].group = None THEN {r} ELSE {l \in Legs(rows[r].group) : rows[l].by = None}
Touched_One(r) == {rows[r].account}
Touched(r) ==
  IF rows[r].group = None THEN {rows[r].account}
  ELSE {rows[l].account : l \in Legs(rows[r].group)}
PostedAs(r) == IF rows[r].group = None THEN <<"BANK", r>> ELSE <<"TRANSFER", rows[r].group>>

ReverseCommit(w) ==
  /\ At(w, "reversing")
  /\ LET r == job[w].row IN
       /\ rows' = [l \in DOMAIN rows |-> IF l \in Struck(r) THEN [rows[l] EXCEPT !.by = w] ELSE rows[l]]
       /\ accounts' = Recalculated(rows', Touched(r))
       /\ journals' = Reversed(journals, PostedAs(r), <<"REV", PostedAs(r)>>)
  /\ Done(w)

--------------------------------------------------------------------------------
(* What Purchases does to an account (postBank, recalc): it computes the   *)
(* balance from the rows it finds committed, and writes it when its own    *)
(* transaction commits.                                                    *)

DrawRead(w, acc, v) ==
  /\ Idle(w) /\ Open(acc)
  /\ Turn(w, "drawing", [account |-> acc, amount |-> v,
                         balance |-> accounts[acc].opening + StandingSum(rows, acc) - v])
  /\ UNCHANGED rowVars

DrawCommit(w) ==
  /\ At(w, "drawing") /\ Len(rows) < MaxRows /\ Exists(job[w].account)
  /\ rows' = Append(rows, Row(job[w].account, -job[w].amount, None, None, TRUE))
  /\ accounts' = [accounts EXCEPT ![job[w].account].balance = job[w].balance]
  /\ Done(w)
  /\ UNCHANGED journals

Abort(w) == GiveUp(w) /\ UNCHANGED rowVars

--------------------------------------------------------------------------------

Arrive(w) ==
  \/ \E acc \in Accounts : DeleteRead(w, acc)
  \/ \E acc \in Accounts : \E b \in Batches : RecordRead(w, acc, b)
  \/ \E acc \in Accounts : \E s \in Statements : ImportRead(w, acc, s)
  \/ \E acc \in Accounts, v \in Drawn : DrawRead(w, acc, v)
  \/ \E from, to \in Accounts, v \in Transfers : TransferRead(w, from, to, v)
  \/ \E r \in DOMAIN rows : ReverseRead(w, r) \/ \E v \in Edits : EditRead(w, r, v)

Serve(w) ==
  \/ DeleteCommit(w) \/ RecordCommit(w) \/ ImportCommit(w) \/ EditCommit(w)
  \/ TransferCommit(w) \/ ReverseCommit(w) \/ DrawCommit(w)
  \/ Retry(w) \/ Abort(w)

Manage ==
  \/ \E acc \in Accounts, v \in Openings : CreateAccount(acc, v)
  \/ \E acc \in Accounts, s \in {"open", "archived"} : UpdateAccount(acc, s)
  \/ \E acc \in Accounts, v \in Legacy : Inherit(acc, v)

Next == Manage \/ \E w \in Workers : Arrive(w) \/ Serve(w)

Spec == Init /\ [][Next]_vars

--------------------------------------------------------------------------------
(* Properties. *)

(* The shape of the rows; a row never belongs to an account that is not    *)
(* there (deleteAccount against every request in flight).                  *)
TypeOK ==
  /\ \A acc \in Accounts : accounts[acc].state \in {"absent", "open", "archived", "deleted"}
  /\ \A r \in DOMAIN rows :
       /\ Exists(rows[r].account) /\ rows[r].amount # 0
       /\ rows[r].by \in Workers \union {None}

Right(acc) == accounts[acc].balance = accounts[acc].opening + StandingSum(rows, acc)

(* Banking alone, in every interleaving: an account's balance is its       *)
(* opening balance and the transactions that stand.                        *)
BalanceRight == \A acc \in Accounts : Right(acc)

(* In every interleaving the two legs of a transfer are reversed together. *)
TransferWhole ==
  \A l, r \in DOMAIN rows :
    rows[l].group # None /\ rows[l].group = rows[r].group => (rows[l].by = None <=> rows[r].by = None)

(* Banking alone, in every interleaving: the ledger's cash account is the  *)
(* balances of the accounts, but for the transactions older than posting,  *)
(* and the opening balances of accounts that were deleted, which stay.     *)
CashIsBanks ==
  Balance(journals, "1000") =
    SumFunction([acc \in Accounts |-> accounts[acc].balance])
    - SumFunction([r \in {r \in DOMAIN rows : rows[r].by = None /\ rows[r].group = None
                                         /\ <<"BANK", r>> \notin DOMAIN journals} |->
                     rows[r].amount])

(* In every interleaving, and after reversals, a line of a statement is    *)
(* imported to an account once.                                            *)
ImportedOnce ==
  \A l, r \in DOMAIN rows :
    l # r /\ rows[l].account = rows[r].account /\ rows[l].print # None => rows[l].print # rows[r].print

(* Whatever stale balance a purchase has written, the next transaction     *)
(* that banking commits on the account puts it right.                      *)
BankingHeals ==
  \A acc \in Accounts :
    (\E w \in Workers : pc[w] \in SerialLabels /\ pc'[w] = "idle")
    /\ StandingSum(rows', acc) # StandingSum(rows, acc) => Right(acc)'
================================================================================
