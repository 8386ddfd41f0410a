# CephasBooks-BE: a verification development

TLA+ models of the CephasBooks back end, model-checked with TLC and proved about
with TLAPS. Source paths are relative to the repository, which is mounted as `src/`
(so `src/src/modules/pos/pos.service.ts` is the repository's
`src/modules/pos/pos.service.ts`).

## 1. The system

One NestJS process (or several) serves HTTP requests of many organizations over one
PostgreSQL database through Prisma. There is no queue, no cache and no background
job: all state is in the database, and everything hard about the program comes from
requests that interleave there, from requests that fail halfway, and from clients
that retry. A handler is one of

* a single statement (atomic);
* reads through `this.db`, then a single write or a `$transaction` that does not
  look at what was read again;
* an interactive `$transaction(async tx => ...)` at PostgreSQL's default level READ
  COMMITTED: every statement sees what is committed when it starts, and the writes
  become visible together at the end. Reads inside are no more stable than reads
  outside;
* in Banking, an interactive transaction at SERIALIZABLE, tried up to three times.

Three mechanisms protect anything: the advisory lock of `PosService.complete`, held
to the end of its transaction; the unique indexes of the schema; and the row locks
of UPDATE. No `SELECT ... FOR UPDATE`, no version column, no conditional update.

### Components

| component | state | operations | interacts with | what makes it correct |
|---|---|---|---|---|
| POS sales (`modules/pos`) | `PosSale` with items and payments, `PosReturn` | complete, voidSale, returnItem, receipt by mail or link, signatures | stock movements, journals, customers' credit limits, shifts | receipt numbers, idempotency, stock, credit limit, books that agree with the rows, goods given back once |
| POS registers and shifts (`modules/pos`) | `PosRegister`, `PosShift` | createRegister, updateRegister, assignRegisterStaff, handoverRegister, openShift, closeShift | sales (the shift opened by a sale; the cash expected in a drawer) | one open shift a register, closing figures, no open shift on a register out of use |
| Automatic journals (`common/automatic-accounting.ts`) | `Journal`, `LedgerAccount` | postAutomaticJournal, reverseAutomaticJournal | called by nine services | balanced, posted once per number, reversed once |
| Inventory (`modules/operations`) | `Product`, `Warehouse`, `StockMovement`, `StockAdjustment`, `Project` | create, update, restock, movement, transfer, adjustment and its approval | tills (same movements), journals | stock never negative, an adjustment applied once, account 1300 against the movements |
| Sales documents (`modules/sales`), invoices (`modules/invoices`) | `Quotation`, `Invoice`, `PaymentReceived`, `CreditNote` | convert, send, recordPayment, reversePayment, createCreditNote, voidCredit | journals, mail, workflow rules | paid and credited amounts are the sums of their rows; account 1100 against the invoices |
| Purchases (`modules/purchases`) | `PurchaseRequest`, `PurchaseOrder`, `Bill`, `SupplierPayment`, `Expense` | status machines, payments and their reversal | bank transactions, journals, workflow rules | as above, for bills; a bank row for each payment |
| Banking (`modules/banking`) | `BankAccount`, `BankTransaction` | transactions, transfers, import, reversal, reconciliation | written by purchases too | running balances are the sums of the rows |
| Accounting (`modules/accounting`) | `LedgerAccount`, `Journal`, `FinanceRecord` | create, post and reverse journals; finance records; trial balance | all posting modules | one reversal a journal, trial balance balances |
| Authentication (`modules/auth`) | `User`, `Session` | register, verify, login, refresh, logout, changePassword | mail | a session rotates, a changed password ends the others |
| Workflow (`modules/workflow`) | `ApprovalRequest`, `WorkflowRule`, notifications, documents | decide, runRule, executeEvent | called after invoices, bills and expenses are committed | one decision a request |
| Organizations (`modules/organizations`) | `Organization` with branches and staff in one JSON document, `Membership` | onboarding, branches, staff, roles, deletion | POS reads branches | no lost update of the document |
| Database client (`database/prisma.service.ts`) | the pool of connections | lend, give back, time out | a transaction of the tills holds one connection and asks for another (`pos.service.ts:734`) | requests do not wait for each other for ever |
| Customers, commerce, insights, mail, health, guards, configuration | single rows, or none | single statements, reports | | not modelled, see section 7 |

### What is hard

Every place is listed with its line under `hazards` in `PROJECT.json`. The kinds
that recur: **check then act** (a limit, a status, an open shift read in one
statement and relied upon in a later one); **absolute writes of what was read**
(`paidAmount`, `currentBalance`); **aggregates of several statements** that no
snapshot holds together; **a JSON document that every handler reads and writes
whole**; **effects after the commit** (mails, workflow rules); **retries** of clients that got no answer; **failure** of a
request at any statement, with the lock in hand or not.

## 2. Modules

| module | models | source |
|---|---|---|
| `AutoJournal` | posting and reversing through `postAutomaticJournal`, `reverseAutomaticJournal`; the trial balance | `common/automatic-accounting.ts`, `modules/accounting` |
| `CheckThenAct` | abstract: a limit that requests read before they write | implemented by tills, returns, shifts, withdrawals |
| `PosSales`, `PosRegisters` | the tills; registers and shifts on top of them | `modules/pos` |
| `Requests` | a request in flight, for all modules below | |
| `Inventory` | products, warehouses, movements, transfers, adjustments, counts, and the tills that sell from the same warehouses | `modules/operations` |
| `Receivables` | invoices, payments, credit notes, quotations | `modules/invoices`, `modules/sales` |
| `Payables` | bills, supplier payments, expenses, their bank rows | `modules/purchases` |
| `Purchasing` | request to order to bill | `modules/purchases` |
| `Banking` | accounts, transactions, imports, transfers, the serializable transaction with its retries, purchases' writes beside it | `modules/banking` |
| `Books` | ledger accounts, journals by hand, finance records | `modules/accounting` |
| `SignIn` | verification by a mailed code, sessions, the password | `modules/auth` |
| `Workflow` | approvals, rules, events of new records, announcements | `modules/workflow` |
| `Teardown` | an organization's or member's deletion against the foreign keys | `modules/organizations`, `prisma/schema.prisma` |
| `DeletionCode` | the mailed code that confirms the deletion | `modules/organizations` |
| `Staff` | invitations, members, custom roles | `modules/organizations` |
| `Settings`, `Locations` | the settings document with onboarding; the hierarchy of locations | `modules/organizations` |
| `ConnectionPool` | connections under the tills' transactions | `modules/pos`, `common/branch-scope.ts` |
| `MCSales`, `MCRegisters` | instances of the tills and the refinements of `CheckThenAct` | |
| `MCTrade`, `MCLedgers`, `MCOffice`, `MCEnds` | instances of the others, side by side | |
| `Sums` | lemmas: induction, sums over finite sets, the general journal | `common/automatic-accounting.ts` |
| `PosProofs`, `CheckThenActProofs`, `ConnectionPoolProofs`, `OfficeProofs`, `TradeProofs`, `LedgersProofs`, `PayablesProofs` | theorems and proofs, section 4 | |

### How state and steps correspond to the code

* Tables are functions from keys to rows, or sequences in commit order; a row keeps
  the columns that some handler looks at. Ledger entries are in `journals`, keyed by
  the number of the journal as a tuple in place of the formatted string: `<<"POS", 3>>`
  for `POS-POS-000003`.
* In the point of sale `sales[i]` has its items as `cart` and its payments as `cash`,
  `card` and `credit`; `stock[h][p]` is the signed sum of `StockMovement.quantity`,
  `worth[p]` the same with each movement times its `unitCost`; `lock` is the advisory
  lock of line 828. In `Inventory` the movements themselves are kept and the stock is
  their sum (`StockIn`), as in `requireStock`.
* `pc[w]` and `job[w]` are a request: how far the handler has come, and what it has
  read. A handler is its read steps and one commit step (`PayRead`, `PayCommit`); what
  it read is in `job` and is old by the commit. Where it writes a row that others read
  in the middle of a transaction, or where the row lock of an UPDATE orders it against
  another, that is a step of its own (`UncreditMark`, `UnpayBank`). Handlers of one
  statement, or whose later statements no other can influence, are one step
  (`CreateBill`).
* Under READ COMMITTED nobody sees the writes of a transaction before it commits, so
  grouping them in the commit step loses no behaviour; unique indexes and foreign keys
  refuse a row in that step.
* `Banking`'s transactions are SERIALIZABLE: one step each. That a transaction collides
  is a step too (`Retry`): another attempt, with what was checked before the first, and
  none after the third (`MaxAttempts`). `recalc` in `Payables`, and purchases inside
  `Banking` (`DrawRead`, `DrawCommit`), are at READ COMMITTED and two steps.
* A mail is a step between two statements: it goes out, fails, or the server stops
  before. `SignIn` and `DeletionCode` store a code, mail it and mark or withdraw it.
* A rule of `Workflow` that fails goes to the next one (`AfterFailure`); the count of its
  failure is a statement outside the `try`, and throws for a rule deleted meanwhile.
* `Teardown` takes the order of `deleteOrganization` (`OrganizationPlan`) and the
  references of the schema (`Parents`, `Cascades`), and deletes table by table while
  others insert rows that refer to what is still there.
* `ConnectionPool` counts connections only: one for the transaction, one for each query
  that `canUseRegister`, `branches` and `assertBranch` run through the service's client
  and not through the transaction. The pool's order, its time limit and that of
  transactions are Prisma's, and external.
* `Abort`, `GiveUp` is every failure: an exception after the reads, the 5 s limit of an
  interactive transaction, a lost connection, a crash of the process. All roll the
  transaction back, and locks go with it; what was committed before stays. A crash
  needs no more, as no state lives outside the database.
* A condition that throws is a guard: the request never comes to the next label and may
  abort. A retry of a checkout that finds its key sold gets the prior sale: no action.

### What is abstracted

Names, descriptions, dates, audit rows, e-mail texts, listings. Amounts are small
integers; the code's sums are exact in `Decimal`, and the conversion `toNumber` of
journal lines is not modelled. Revenue and tax are one account in `Receivables`, expense
and tax in `Payables`. The system accounts exist and are active. One organization,
except in `Staff`: every query is scoped by `organizationId`. In `PosSales` products,
customers and warehouses stay active and memberships do not change.

## 3. Runs

Two TLC workers, seconds of one machine. All configurations say `CHECK_DEADLOCK FALSE`:
requests come from outside, and a bounded day ends.

**Scenes.** `MCTrade`, `MCLedgers`, `MCOffice` and `MCEnds` check many small instances in one
run. A module is instantiated with a record of parameters, `Stock(s) == INSTANCE Inventory
WITH Workers <- s.workers, ...`, the variable `scene` names the record and is chosen in the
initial state, and the variables of the modules that are not on stay `None`. The state
spaces are disjoint; the run explores their union. Scenes whose name ends in `_serial`
serve one request at a time, in every order of requests; the others interleave two or
three. A property says in which scenes it holds, and that is part of what it shows: what
the code keeps in every interleaving, and what it keeps only while requests do not
overlap.

| run | instance | states | s | what it shows |
|---|---|---|---|---|
| `check_then_act` | 3 requests, limit 3 | 301 | 1 | `OneLimitEach` and its inductive strengthening `Inv` |
| `sales_tills` | 2 requests, 2 tills on 1 warehouse with 3 units, 4 checkouts (one underpaid, one without key), 3 sales, voids, 1 restock | 138k | 26 | `ReceiptNumbers`, `OneSalePerKey`, `NoOversell`, `NeverDeleted` |
| `sales_books` | 2 requests, 2 sales of two units partly on one customer's credit, voids, 2 returns, cost price 2 or 3 | 60k | 60 | `BooksAgree`, `ReceivablesAreExposure`, `InventoryOffByVoidRevaluation`, `RestoreQuota`, `CreditQuota` |
| `sales_retry` | 2 requests, 2 checkouts, fair | 131 | 3 | `EveryCheckoutIsSold` |
| `registers_serial` | 1 request at a time, 1 register, 2 shifts, 2 sales, 2 returns, hand-over and configuration | 1.4M | 72 | `LimitsKept`, `DrawerAgreesWithLedger` |
| `registers_shifts` | 2 requests, 1 register, 2 cashiers, shifts opened, closed, handed over, configured, 1 sale | 659k | 63 | `PosInv`, `ShiftQuota` |
| `registers_inactive` | 2 requests, 1 register | violated | 1 | finding, section 6 |
| `trade` | `Inventory` in five scenes, `Receivables` in five | 226k | 35 | `StockKept`, `CountsDoNotAdd`, `DepotQuota`, `ReceivablesKept`, `AmountsAgree`, `RowsStand` |
| `ledgers` | `Payables` in two scenes, `Purchasing` in three, `Banking` in four, `Books` in four | 485k | 60 | `PayablesKept`, `PaymentsAgree`, `OrdersAgree`, `BankingKept`, `BankingHeals`, `BooksKept` |
| `office` | `SignIn`, `Workflow`, `Teardown`, `DeletionCode`, `Staff`, `Settings`, `Locations` in thirteen scenes | 237k | 30 | `SessionsEnd`, `RulesRun`, `RemovedWhole`, `CodeThatCameCounts`, `StaffKept`, `SetupAgrees`, `NothingTakenBack` |
| `ends` | `ConnectionPool`, `SignIn`, `DeletionCode`, `Banking`, fair | 8k | 20 | `PoolInv`, `NoStandstill`, `EventuallyVerified`, `EventuallyDeleted`, `EveryRequestEnds` |
| `channels_keep_organization` | `Teardown` with all tables | violated | 1 | finding, section 6 |

### What the suites show

*Stock.* In every interleaving account 1300 is the stock at the cost of its movements,
every movement keeps its product although `deleteProduct` counts before it deletes, a
default warehouse is never lost, and two corrections of one product's quantity never add
up, with tills selling meanwhile (`updateProduct` has the row lock, the tills do not take
it). `requireStock` is a check before the transaction, so a warehouse goes below zero:
`DepotQuota` shows by how little, as an implementation of `CheckThenAct` by three
withdrawals, tills included; with one request at a time it never does.

*Receivables and payables.* The ledger is right in every interleaving, because every
posting and its reversal are keyed by a unique number: account 1100 is what was billed
less payments and credit notes that stand, accounts payable is what is posted less
payments that stand. The amounts on the documents (`paidAmount`, `creditedAmount`, the
status), which are written as absolute values of an earlier read, agree with their rows
one request at a time only (`AmountsAgree`, `PaymentsAgree`). While nothing is taken back,
credit notes, being increments, add up and a payment is never counted twice.

Invoices and quotations are created with any status of their enumeration and with any
total, nothing included, because `CreateInvoiceDto` and `CreateQuotationDto` accept them
(`ReceivablesAssumption`); an invoice may be PAID with nothing paid. Its status therefore
says what was settled only once something is (`SettlementAgrees`), and every handler that
changes an invoice puts it right (`StatusFollows`, in `RowsStand`): SENT with nothing
settled, PARTIALLY_PAID or PAID by its amounts. An invoice for nothing cannot be billed,
its creation as anything but DRAFT or VOID is refused. Quotations are CONVERTED not only by
`convertQuotation` but by whoever asks for that status, so that it promises no invoice;
`QuotationsStand` says what it does promise: no edit changes the total of a CONVERTED
quotation, and an invoice is made of an open quotation only, for the total it then has.
Both hold one request at a time, as a conversion works with the quotation it read before
its transaction, and an edit with the status it read.

*Banking.* Among themselves the serializable handlers keep every balance, the ledger's
cash account, the legs of transfers and the fingerprints of imported lines, although
their checks are before the transaction. A purchase may leave a balance wrong;
`BankingHeals` says that the next transaction of banking puts it right.

*Books.* Debits equal credits; payroll is paid only if accrued, even if entered as PAID.

*Sign-in, staff, workflow.* A changed password ends every older session, also one
that was waiting for its token; an address has one membership with two organizations
inviting it, and no account without a sent password stays behind a failed mail; a record
is passed over by no rule that matched it, whatever rule fails. One request at a time every
approval asked for is announced, and every decision, a cancellation too.

*Locations.* In an accepted hierarchy every listed branch hangs from exactly one state,
with two levels or three. `locationActivity` selects records by the ids of branches, and
`validateSection` checks the ids of states and regions but not those of branches: two
branches of one id under two states are accepted, and then the records of both show under
both. `EveryBranchUnderOneState` is stated for that: a branch shows under one state alone
unless another listed branch has its id.

*Removal.* The order of the deletions respects every foreign key, and nothing is left
(but see the second finding). A withdrawn code is the one whose mail failed.

### Bounds

`Max...` constants stop new requests once a table has that many rows. Two requests in
flight are enough for a race of two handlers; three for withdrawals and for codes, so
that a limit is passed by more than one request and a code overtakes another while a
third is checked. Three units of stock against carts of two make the second sale fail
unless something went wrong. A credit limit of 12 with sales of 7 and 6 has sums on both
sides of it. One invoice or bill with two payments and references suffices for lost
updates; two documents for numbering; two accounts for transfers; three rows for a
transfer and an entry; two organizations and one address for invitations. `Allowed <- 2`
wrong entries stand for the code's five. `Attempts` are three in `ends`, as in the code,
and one in `ledgers`, where a retry repeats a step that is there already. Locations have up
to two entries a kind, enough for a duplicate, two branches of one id under two states, and
a dangling parent. Invoices of the serial scene start in any status, VOID in the scene of
quotations.

### Fairness

* `sales_retry`. `WF(Abort)`: no request stays in a label for ever; PostgreSQL or the
  transaction timeout ends it. `SF` for the steps of one checkout: the client retries
  until it is answered, and of infinitely many attempts not all time out at the same
  statement. What the run shows is that nothing else stands in the way: with a lock that
  survived a failed holder it fails (its mutant).
* `ends`. Time passes (weakly fair). A user who is not verified, or an owner whose
  organization is there, asks for codes again and again and enters one that has come;
  mails and the server do not fail for ever (strongly fair, over all requests of a kind
  together, and for the mail of the code stored last: a user does not for ever ask for
  another before the last has come). A request of `Banking` or of the tills that was taken
  up goes on (weakly fair for each): no handler waits for anything but the database.
  `Expire` and `WaitedTooLong` are not fair: `EveryRequestEnds` does not need the time
  limits when there is a connection more than requests. The code retries nothing by
  itself but a serialization failure, so the rest is an assumption about users; what the
  run shows is that the code never makes their retries useless, which it would if asking
  again were refused once a code was stored (the mutants).

### Properties worth reading first

`InventoryOffByVoidRevaluation` does not say that the inventory account is the value of
the stock, because it is not: it says that the difference is exactly what voids after a
price change add. `CreditQuota`, `RestoreQuota`, `ShiftQuota` and `DepotQuota` say what
remains of four limits that are checked without a lock, as refinements of `CheckThenAct`,
and `LimitsKept` and `StockKept` that the limits themselves hold with one request at a
time. `ReceivablesLedger` (in `ReceivablesKept`) against `SettlementAgrees` (in
`AmountsAgree`) separates what the unique numbers protect from what nothing does.

## 4. Proofs

Every theorem holds for all values of the constants, or of the parameters of a scene, that
meet the named assumption of its module: sorts of the parameters, and no bound on any set.
`PosAssumption` and `ShiftAssumption` for the tills; `CheckThenActAssumption` (finitely many
requests, a natural limit); `PoolAssumption` (no request is `None`); `StaffAssumption`,
`OfficeAssumption`, `InventoryAssumption`, `ReceivablesAssumption` and `TradeAssumption`;
`TradeAssumption` has TLC evaluate the two before it on every scene.

### The tills (`PosProofs`)

`PosInvariant`: `Spec => []PosInv`, where `PosInv` is

* `TypeOK`: the rows, and for each label what its handler has read;
* `LockHeld`: a request is between its count and its commit exactly if it holds the
  lock. Without it two requests could both have counted;
* `StockStays`: the stock found under the lock is still there. The steps of others
  only add goods, because issuing needs the lock;
* `ReceiptNumbers`: the rows are numbered 1, 2, 3, ... and the holder of the lock has
  counted them all;
* `OneSalePerKey`, `NoOversell`.

`ReceiptNumbers` is inductive only with `LockHeld`, `NoOversell` only with `StockStays`.
The proof has one step per action; steps that leave the sales tables alone share one
lemma. `TypeCorrect`, `ReceiptsAreNumbered`, `CheckoutsAreIdempotent` and
`TillsNeverOversell` follow.

### Sums and journals (`Sums`)

The library's induction theorems take an operator as a parameter, which the provers here
cannot instantiate. `NatInduct` and `SetInduct` are stated for a *set* of numbers, or of
finite subsets, and follow from the least-element theorem of well-founded sets; a step of
an induction is then a fact about membership. From it: `SumFunctionOnSet` of nothing, of
one more, of one fewer, of a changed value, of two functions that agree. The general
journal is proved of once for all modules: a balance after a posting, a posting with a
number that is there, a reversal, a second reversal, and the lines a journal has then.

### The tills' books (`PosProofs`)

`BooksInvariant`: `Spec => []BooksInv`. A balance is a sum over the journals, a sum over the
rows is what the property compares it with; neither says which journal belongs to which
row. `BooksInv` does: it is `PosInv` and `JournalsStand`, that is, each sale has its journals
under their numbers with exactly the lines its row calls for, a voided one has their
reversals, likewise for returns, nothing else is in the table, and what a void has read of
a sale's journals is by its commit still all there is. With it each balance moves by what
one row adds. `CashAndRevenueAgree` (`BooksAgree`), `ReceivablesMatchExposure`
(`ReceivablesAreExposure`), `VoidsAloneRevalue` (`InventoryOffByVoidRevaluation`),
`RecordsAreKept` (`NeverDeleted`) and `EverySaleIsBooked` follow.

### The tills' limits (`PosProofs`)

`LimitsAreKept`, for one request at a time: exposure stays within the credit limit, a line
gives back what was sold at most, and a register has one open shift. `Known` says what the
rows say of one another and what a request knows of its rows, in every interleaving;
`StillSo` that what the request in flight has read is still so, which two requests break
(section 6). `LimitsInv` is the property with it.

What remains of the limits when requests overlap is the refinement of `CheckThenAct`, proved
for every customer (`CreditsCheckThenAct`), every line (`ReturnsCheckThenAct`), every
register (`ShiftsCheckThenAct`) and any number of requests; `CreditQuotaHolds`,
`RestoreQuotaHolds` and `ShiftQuotaHolds` are those that the runs check. A step of the tills is first cut
down to what it does to the rows (`RowSteps`). What a request claims is then a function of
its label and what it has read, so that a step changes the claims of one request
(`ClaimStep`) and is a check, a commit, an abort, a release or a stutter of the abstract
module (`QuotaStep`). A void and the returns of a line share one quota, because a void
gives back the whole line. The steps that only read keep both.

`CreditOvershoot` and `ShiftsOvershoot` carry `OneLimitEachHolds` of `CheckThenActProofs` over:
finitely many requests owe one limit each at most, and open one shift each. `PosAssumption`
has credit limits that are natural numbers, as `CreateCustomerDto` asks (`@Min(0)`,
`modules/customers/dto/create-customer.dto.ts:14`): of a negative limit nothing would follow.

### The drawer (`PosProofs`)

`DrawersAgree` (`DrawerAgreesWithLedger`), for one request at a time: closing and handing over
count the drawer from the rows (`Aggregate`), the ledger has it as movements of account
1000 under the shift's journals. `BookedMoves`, which holds in every interleaving, says that
the reversal of a void moves cash by what the sale moved, with the opposite sign, and the
journal of a return by what it gives back. The journals of a shift are then its
sales, its voids and its returns, each once (`DrawerNumbers`); sums over them join to the
three aggregates (`DrawerMoves`, `DrawerCount`) only if nothing was given back of a voided
sale (`NoneBack`), since the count leaves those out and the ledger does not. `SumsStill` has the
sums that the closing request has read still be right when it writes. Both need one
request at a time: a return that overlaps a void of its sale breaks the first, a sale that
overlaps a close the second.

### The offices (`OfficeProofs`)

For every parameter, in the module; and, with what the scene needs, in the scenes of
`MCOffice`.

* `NoRuleIsPassedOver`, `EveryRuleIsCounted`, `RulesDoRun`. `EventInv`: what an event has
  left to do, what it has done and what it has passed are the rules that matched it;
  `CountInv`: a rule's counters are the events that are past it; the update of a count is
  atomic in the database, and that is what the sum needs.
* `OldSessionsAreEnded`, `SessionsDoEnd`. A session is of the present password or revoked,
  also one whose request waits for its token, and without an account nothing is on its way
  (`SignInv`).
* `OneMembershipEach`, `StaffIsKept`. An account has one membership, and a request that mails,
  withdraws or removes knows the member of its own address (`StaffInv`).
* `CodeCounts`, `CodesCount`. As long as the code stored last has come or is on its way it is
  the one in the row, and no request has counted more wrong entries than there were
  (`CodeInv`).
* `OrganizationIsRemoved`. The walk through a fixed order of tables: nothing refers to what
  is already empty, unless inserted meanwhile (`RemoveInv`).
* `SetupDoesAgree`, `NothingIsTakenBack`. The first by what onboarding stores (`SetupInv`) and
  the hierarchy that is accepted (`PlaceInv`: each branch's parent is one region or state,
  whose id no other has; ids of branches may repeat); the second for one request at a time, where
  what was read is still so at the commit.

### Inventory (`TradeProofs`)

The stock is a sum over the movements, so the lemmas say first what one movement more,
and the two legs of a transfer, do to the stock of a warehouse, to the stock of all and to
account 1300, of any table of movements (`FigureAdd`). Then four invariants.

* `StockInAnyScene`, `StockIsKept` (`StockInv`), in every interleaving. Account 1300 is the
  value of the movements that post, and each journal number in use belongs to a movement,
  so that a new reference always finds its number free. That history keeps its products
  needs that a request in flight can only insert where the foreign key still finds the
  product; that a default is never lost, that a request that takes one away gives one in
  the same transaction. Movements are only ever added, one or the two legs of a transfer
  (`StepMoves`), hence `MovementsStand`.
* `StockOneAtATime` (`SerialStock`), for one request at a time: what the request in flight
  checked is still so when it commits (`SerialJob`), and so nothing goes below zero, one
  active warehouse is the default, and archived products and warehouses are reached in the
  two ways `LateStock` names.
* `CountsNeverAdd` (`CountsInv`), in every interleaving of counts and sales of the tills. A
  count in flight knows what the stock was when it locked the row of the product; the tills
  only lower it meanwhile, and no second count of the product is in flight. Stock plus the
  correction therefore lies between the counted quantity less what tills sold and the
  counted quantity, before and after it is written.
* `WithdrawalsCheckThenAct`, `DepotIsDrained` (`DrainInv`), in every interleaving, where goods
  only leave a warehouse (`Draining`: every movement takes, no transfer arrives, every
  correction is negative) that opened with one stock (`OpensWith`). What a request was cleared
  to take at its read is the pending amount of `CheckThenAct`; it fitted into the stock then,
  which never exceeds the opening, and its commit takes that amount or nothing. Movements by
  hand, transfers, approvals and sales of the tills are all withdrawals. `Draining` is the
  condition under which there is a limit to speak of: a receipt raises the stock, and nothing
  bounds it. A draft keeps its product, warehouse and amount (`SameDeltas`), so that an
  approval takes what was checked. The catalogue is at rest here (`StockSpec`): a count may
  raise the stock as well.

### Receivables (`TradeProofs`)

* `ReceivablesInAnyScene`, `ReceivablesAreKept`. `BillInv`: `BillBooks` (each invoice, payment
  and credit note has its journal under its number with the lines its row calls for, undone
  ones their reversals, and nothing else is there), `BillRows` (references and numbers),
  `BillJob` (what each request knows), and the row lock of a payment that is being taken
  back, without which two reversals could both delete it. Each action is a composition
  of a few changes (a posting, a reversal, an amount written), which are proved about once.
  Also that no invoice is replaced by another of its number, whatever interleaves
  (`InvoicesStand`).
* `SettlementOneAtATime` (`SettleInv`), for invoices created with any status and total: with
  one request at a time their amounts are those of their payments and credit notes, because
  what the request in flight has read is still so, and with anything settled so is the
  status. A step that changes an invoice leaves it with the status that its amounts call for
  (`Follows`). The same theorem has what holds of quotations in any status (`QuoteInv`): a
  request that converts or edits one has read it as it still is, so that a conversion is of
  an open quotation and its invoice is made out for its total. `ForwardAddsUp`
  (`ForwardInv`): while nothing is taken back, credit notes add up in every interleaving,
  being increments, and the paid amount is never more than the payments there are, because
  what a request saw of it was not. `AmountsDoAgree` joins them in the scenes.
* `RowsDoStand` (`RowsStand`) joins what stands of both modules in the scenes of `MCTrade`,
  `StatusFollows` and `QuotationsStand` included.

### Purchasing, banking and the books (`LedgersProofs`)

* `OneOrderInAnyScene` (`OrderInv`): what a request in flight has read is a row that is
  there, and different orders have different requests, which the unique `requestId` of the
  commit keeps however many conversions passed the check before it. `ChainOneAtATime`
  (`ChainInv`): with one HTTP request at a time the statuses CONVERTED and BILLED also say
  so, because the status that the check has read is still the status when the write
  commits. It needs `PurchasingAssumption`: the absent reference is no number.
  `OrdersDoAgree` joins them in the scenes.
* `BooksInAnyScene` (`BookInv`). That the trial balance is level is not inductive, a sum
  over all accounts of sums over all journals: `BooksLevel` is, which has every journal of
  the ledger level in itself over the accounts there are, drafts as well, and what a
  drafting request has accepted too. `StillNothing` and `PartsSum` change the order of
  summation. A reversal has the sides exchanged (`MirrorLevel`), an automatic posting has
  two lines of one amount (`PairLevel`). `PaidAccrued`: each PAYMENT journal of a payroll
  has the PAYROLL journal beside it, since `postFinanceRecord` posts the accrual, unless
  it is there, in the transaction that posts the payment. `BooksAssumption` says what the inputs are: finitely many lines,
  each one debit and credit in whole units on an account of the chart.
* `ReversalsOneAtATime` (`TurnInv`): each REVERSED journal has its reversal, no two
  reversals are of one journal, and the journal in the hands of the reversing request is
  still POSTED. Two requests break the last part (section 6), nothing else.
* `AssetsOneAtATime` (`AssetInv`): account 1200 is the sum of the assets whose status
  is past approval and before disposal, and an asset has its ASSET and DISPOSAL journals
  exactly as its status calls for. Three hypotheses: one request at a time; nothing posted
  or reversed by hand, which could touch the account at will; and no record created as
  CLOSED, which posts nothing, or as DISPOSED, which posts a disposal of what was never
  acquired.
* `BankingInAnyScene` (`BankInv`), in every interleaving. Five things about the tables: the
  accounts; the rows, each of an account that is there; the two legs of a transfer beside
  each other, of opposite amounts and both struck or neither (`LegsWhole`), which is why
  a reversal must strike what is left of the group; fingerprints once per account
  (`PrintsOnce`); and `Bookings`, which has the ledger's cash account as openings plus the
  booked rows that stand: a row has a journal under its number with the lines of its
  amount, POSTED exactly while it stands, and a transfer moves the cash account by nothing.
  A request in flight knows little, but what it knows stays: that a row to be corrected was
  never posted (nothing posts an old row), that a row to be reversed is not linked
  (`BankJob`, `Carries`). Without purchases every balance is right (`AllRight`), since each
  handler recalculates all accounts whose rows it changed (`Touches`, `Rebalances`).
  `CashIsBanks` then is a rearrangement: rows account by account, and booked, older than
  posting, and in transfers, whose legs cancel (`StandsByAccount`, `LegsCancel`).
  `BankingHeals` needs no right balance before the step. `BankingIsKept` and
  `BankingDoesHeal` are the scenes. `BankingAssumption` asks for finitely many accounts and
  for amounts that are not zero, which the services check.
* `BooksAreKept` joins `BookInv`, `TurnInv` and `AssetInv` in the scenes;
  `LedgersAssumption` says that those of one request at a time have one worker.

### Payables (`PayablesProofs`)

* `PayablesInAnyScene`, `PayablesAreKept` (`PayInv`), in every interleaving. `OwingBooks`
  ties the ledger to the rows: a bill, a payment and an expense have their journal under
  their number with the lines their row calls for, what was undone has its reversal, the
  journal of a payment is POSTED exactly while the payment stands, and nothing else is in
  the table; account 2000 is then a sum over the rows. `DrawnRows` and `OneRow` have one bank
  row for each payment from the bank that stands and none for any other; a payment's row
  and its journal are written and struck in the same transactions. What each
  request in flight has read stays good for it (`PayJob`) because the tables only go
  `Onward`: rows are added and not removed, a reversal is never taken back, and no payment
  gets a second bank row.
* `PaymentsOneAtATime`, `PaymentsDoAgree` (`RightInv`), for one request at a time. Paid amount
  and status of a bill, the status of an expense, and the bank account are all written
  from what was read before. `RightTables` says how they agree, `RightJob` that what the
  request in flight has read is still so, because nobody else writes (`OneAtOnce`). Two
  requests break `RightJob` (section 6) and nothing else of it.
  `PayablesAssumption` gives the sorts of the parameters, `LedgersAssumption` has TLC
  evaluate it on every scene.

### The abstract modules

* `OneLimitEachHolds`: `OneLimitEach` is not inductive. `Inv` is (`InvHolds`): either all
  that are cleared could still add a whole limit each, or one of them, the last to be
  cleared, saw what is used now and the others add at most a limit each.
* `PoolInvariant`, `TillsGoOn`: no standstill is not inductive either. `PoolInv` says that
  a request has one transaction open at most, and only while it runs, and a connection
  for a query only while that is answered. In a standstill every connection would be the
  transaction of a request that waits; different connections have different requests
  (`OneTxEach`), and by the pigeonhole principle there are not fewer requests than
  connections.

### Only model-checked

Liveness, and what rests on ENABLED, which is out of the prover's reach. Every other
invariant and action property of the passing runs, every refinement included, is stated
by a theorem.

## 5. Mutants

Each property of a passing run has mutants in `PROJECT.json`, and a property of the
suites, which joins several named parts, has one for most of them: a definition with the same name and a suffix
(`LockFree_Unlocked`, `CreditFits_Unread`, ...) that changes one guard or effect as a slip
in the code would, under which the run fails. One result deserves a note: without the
advisory lock the tills do not oversell in this instance, because two checkouts that
counted together write the same receipt number and the index refuses the second. The
lock is what makes the second one succeed.

## 6. Findings, and what the code does not promise

* **A register can be deactivated under a shift that is opening** (`registers_inactive`).
  The test "prevents deactivating a register with an open shift"
  (`src/src/modules/pos/pos.service.spec.ts:192`) and the message of `updateRegister`
  say it cannot. `updateRegister` looks for an open shift (line 413) and updates later
  (445), `openShift` looks at `isActive` (598) and inserts later (609); neither looks
  again and no constraint ties the two tables.
* **An organization with a commerce channel cannot be deleted**
  (`channels_keep_organization`). `deleteOrganization` deletes the warehouses and leaves
  the channels to the cascade from the organization, which comes last; a channel refers
  to its warehouse with ON DELETE RESTRICT.

Other behaviours met while modelling contradict no text of the repository, so they are no
findings. The models contain them, and the properties above are stated around them. Two
requests that overlap can

* pay an invoice or a bill beyond its total, since each finds the same amount left;
* convert a quotation twice, draw an expense from the bank twice, bill an order twice;
* reverse a journal entered by hand twice (the number of the reversal has the time in
  it), or a bank transaction twice, the second overwriting who did it and why;
* decide an approval, or an adjustment, twice: the later decision stands, both are
  announced;
* void a bill that was paid meanwhile, reopen a purchase request that was converted, post
  to an account that was archived, post an asset that was cancelled;
* delete a custom role that is being assigned, lose a part of the settings document, and
  leave members with another base role than their custom role's;
* close a shift that a hand-over has closed, and sell into a shift that was closed.

And one at a time: an invoice is created as PAID with nothing paid, a quotation as CONVERTED
with no invoice; two branches share an id and with it their records; a reversed payment is deleted as a row, while its journals stay; a
deleted bank account leaves its opening journal; a cashier who ever had a shift cannot be
deleted; goods reach an archived item when an adjustment drafted before is approved;
voids after a price change leave the inventory account off the stock; onboarding saved
again changes the base currency under the exchange rates.

## 7. Not modelled

* *Customers, commerce channels, insights and workbooks*: rows created, changed and
  deleted by single statements, and reports. Nothing to race but the foreign keys, which
  `Teardown` has.
* *Mail*: output through an HTTP service; that it fails or is late is in `SignIn`,
  `DeletionCode` and `Staff`.
* *Request pipeline*: guards, filters, validation, configuration; no state.
* Left out of components that are modelled in part: receipts by mail or link and their
  signatures (POS); creation of registers, which is the initial state; projects and
  categories (Inventory); suppliers' records (Purchases); the reconciliation mark
  (Banking); expiry of sessions, profile and the tokens themselves (Authentication);
  documents and the receipts of notifications (Workflow); the audit trail and the
  validation of settings other than locations (Organizations); the start and end of the
  database client.

What would come next: an abstract, sequential till that `PosSales` implements
but for the limits; and the point of sale against the deletion of products and customers.
