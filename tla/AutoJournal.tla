------------------------------ MODULE AutoJournal ------------------------------
(***************************************************************************)
(* The journal table of one organization and the helper through which      *)
(* every automatic posting of the program goes (postAutomaticJournal in    *)
(* src/src/common/automatic-accounting.ts).                                *)
(*                                                                         *)
(* A journal table is a function from journal numbers to journals: the     *)
(* unique index (organizationId, number) makes it one.  A journal is the   *)
(* set of its lines and its status.  Descriptions, dates and memos are     *)
(* left out; a line names its account by the account code, so the upsert   *)
(* of the system accounts has nothing left to do here.                     *)
(***************************************************************************)
EXTENDS Integers, FiniteSets, Functions

Line(account, debit, credit) ==
  [account |-> account, debit |-> debit, credit |-> credit]

(* The lines that are kept: a line with neither side is dropped. *)
Normalized(lines) == {l \in lines : l.debit # 0 \/ l.credit # 0}

TotalDebit(lines)  == SumFunction([l \in lines |-> l.debit])
TotalCredit(lines) == SumFunction([l \in lines |-> l.credit])

(* What the helper accepts; anything else is a BadRequestException, which  *)
(* rolls the caller's transaction back.                                    *)
Postable(lines) ==
  LET kept == Normalized(lines) IN
    /\ kept # {}
    /\ TotalDebit(kept) > 0
    /\ TotalDebit(kept) = TotalCredit(kept)
    /\ \A l \in kept : (l.debit > 0) # (l.credit > 0)

Entered(js, number, journal) ==
  [n \in DOMAIN js \union {number} |-> IF n = number THEN journal ELSE js[n]]

(* A number already used is answered with the journal that has it, before  *)
(* the lines are looked at.                                                *)
Accepts(js, number, lines) == number \in DOMAIN js \/ Postable(lines)

Posted(js, number, lines) ==
  IF number \in DOMAIN js
    THEN js
    ELSE Entered(js, number, [lines |-> Normalized(lines), status |-> "POSTED"])

Mirrored_Same(lines) == lines
Mirrored(lines) == {Line(l.account, l.credit, l.debit) : l \in lines}

(* reverseAutomaticJournal: a journal that is missing or not POSTED is left *)
(* alone, and so is one whose reversal number is taken.                    *)
Reversible(js, number, reversal) ==
  /\ number \in DOMAIN js /\ js[number].status = "POSTED"
  /\ reversal \notin DOMAIN js

Reversed(js, number, reversal) ==
  IF Reversible(js, number, reversal)
    THEN Entered([js EXCEPT ![number].status = "REVERSED"], reversal,
                 [lines |-> Mirrored(js[number].lines), status |-> "POSTED"])
    ELSE js

(* The two lines most postings have; nothing is posted for no value.       *)
Pair(debit, credit, v) == {Line(debit, v, 0), Line(credit, 0, v)}
PostedIfAny(js, number, debit, credit, v) ==
  IF v > 0 THEN Posted(js, number, Pair(debit, credit, v)) ELSE js

(* An account's balance as the ledger shows it: debits minus credits over  *)
(* the POSTED and the REVERSED journals, the only two statuses a journal   *)
(* of this table has.                                                      *)
Movement(journal, account) ==
  SumFunction([l \in {l \in journal.lines : l.account = account} |-> l.debit - l.credit])

BalanceOver(js, numbers, account) ==
  SumFunction([n \in numbers |-> Movement(js[n], account)])

Balance(js, account) == BalanceOver(js, DOMAIN js, account)
================================================================================
