----------------------------- MODULE PayablesProofs -----------------------------
(***************************************************************************)
(* What Payables keeps, for any number of requests, bills, payments and    *)
(* expenses, and any amounts: a scene s is any record of parameters that   *)
(* meets PayablesAssumption, and the scenes of MCLedgers are some.         *)
(*                                                                         *)
(* The ledger comes first: what a posting or a reversal does to it is      *)
(* proved of any tables (OwingBooks), then what a row of the bank account  *)
(* is (DrawnRows), and the actions are compositions of such changes.  The  *)
(* last part is about one request at a time.                               *)
(***************************************************************************)
EXTENDS MCLedgers, Sums

--------------------------------------------------------------------------------
(* The operators that an instance has of its own are those of Sums.        *)

LEMMA PaySums ==
  ASSUME NEW s
  PROVE  /\ \A f, S : Pay(s)!SumFunctionOnSet(f, S) = SumFunctionOnSet(f, S)
         /\ \A f : Pay(s)!SumFunction(f) = SumFunction(f)
<1>1. ASSUME NEW f, NEW S PROVE Pay(s)!SumFunctionOnSet(f, S) = SumFunctionOnSet(f, S)
  BY Zenon DEF Pay!SumFunctionOnSet, Pay!FoldFunctionOnSet, Pay!MapThenFoldSet,
               SumFunctionOnSet, FoldFunctionOnSet, MapThenFoldSet
<1> QED
  BY Zenon, <1>1 DEF Pay!SumFunction, SumFunction

LEMMA PayBooks ==
  ASSUME NEW s, NEW js
  PROVE  /\ \A a : Pay(s)!Balance(js, a) = Balance(js, a)
         /\ \A n, l : Pay(s)!Posted(js, n, l) = Posted(js, n, l)
         /\ \A n, r : /\ Pay(s)!Reversible(js, n, r) = Reversible(js, n, r)
                      /\ Pay(s)!Reversed(js, n, r) = Reversed(js, n, r)
         /\ \A n, j : Pay(s)!Entered(js, n, j) = Entered(js, n, j)
         /\ \A d, c, v : Pay(s)!Pair(d, c, v) = Pair(d, c, v)
<1>1. ASSUME NEW a PROVE Pay(s)!Balance(js, a) = Balance(js, a)
  BY Zenon, PaySums DEF Pay!Balance, Pay!BalanceOver, Pay!Movement,
                        Balance, BalanceOver, Movement
<1>2. ASSUME NEW n, NEW l PROVE Pay(s)!Posted(js, n, l) = Posted(js, n, l)
  BY Zenon DEF Pay!Posted, Pay!Entered, Pay!Normalized, Posted, Entered, Normalized
<1>3. ASSUME NEW n, NEW r PROVE Pay(s)!Reversed(js, n, r) = Reversed(js, n, r)
  BY Zenon DEF Pay!Reversed, Pay!Reversible, Pay!Entered, Pay!Mirrored, Pay!Line,
               Reversed, Reversible, Entered, Mirrored, Line
<1>4. ASSUME NEW n, NEW r PROVE Pay(s)!Reversible(js, n, r) = Reversible(js, n, r)
  BY Zenon DEF Pay!Reversible, Reversible
<1>5. ASSUME NEW n, NEW j PROVE Pay(s)!Entered(js, n, j) = Entered(js, n, j)
  BY Zenon DEF Pay!Entered, Entered
<1>6. ASSUME NEW d, NEW c, NEW v PROVE Pay(s)!Pair(d, c, v) = Pair(d, c, v)
  BY Zenon DEF Pay!Pair, Pay!Line, Pair, Line
<1> QED
  BY <1>1, <1>2, <1>3, <1>4, <1>5, <1>6

LEMMA PayCounts ==
  ASSUME NEW s
  PROVE  /\ \A S : Pay(s)!Cardinality(S) = Cardinality(S)
         /\ \A t : Pay(s)!Next1(t) = Cardinality(DOMAIN t) + 1
<1>1. ASSUME NEW S PROVE Pay(s)!Cardinality(S) = Cardinality(S)
  BY Zenon DEF Pay!Cardinality, Cardinality
<1> QED
  BY Zenon, <1>1 DEF Pay!Next1

--------------------------------------------------------------------------------
(* The ledger against the rows, of any bills bs (their amounts due), of    *)
(* any payments ps, expenses es and journals js.                           *)

BillNo(n) == <<"BILL", n>>
PaymentNo(p) == <<"PAYMENT", p>>
ExpenseNo(e) == <<"EXPENSE", e>>
UndoNo(m) == <<"REV", m>>

LEMMA PayNumbers ==
  \A m, n : /\ BillNo(m) = BillNo(n) <=> m = n
            /\ PaymentNo(m) = PaymentNo(n) <=> m = n
            /\ ExpenseNo(m) = ExpenseNo(n) <=> m = n
            /\ UndoNo(m) = UndoNo(n) <=> m = n
            /\ BillNo(m) \notin {PaymentNo(n), ExpenseNo(n), UndoNo(n)}
            /\ PaymentNo(m) \notin {ExpenseNo(n), UndoNo(n)}
            /\ ExpenseNo(m) # UndoNo(n)
BY DEF BillNo, PaymentNo, ExpenseNo, UndoNo

CreditOf(e) == IF e.bank THEN "1000" ELSE "2000"

(* A journal j under the number n is that of a row, or takes one back.     *)
OfBill(bs, n, j) ==
  \E b \in DOMAIN bs : n = BillNo(b) /\ j.lines = Normalized(Pair("5000", "2000", bs[b].amount))
OfPayment(ps, n, j) ==
  \E p \in DOMAIN ps : n = PaymentNo(p) /\ j.lines = Normalized(Pair("2000", "1000", ps[p].amount))
OfExpense(es, n, j) ==
  \E e \in DOMAIN es :
    n = ExpenseNo(e) /\ j.lines = Normalized(Pair("5000", CreditOf(es[e]), es[e].amount))
Accounted(bs, ps, es, n, j) ==
  \/ OfBill(bs, n, j) \/ OfPayment(ps, n, j) \/ OfExpense(es, n, j)
  \/ \E m : n = UndoNo(m)

Stands(js, n) == n \in DOMAIN js /\ js[n].status = "POSTED"

Followed(bs, ps, es, js) ==
  /\ \A n \in DOMAIN js : Accounted(bs, ps, es, n, js[n])
  /\ \A m : UndoNo(m) \in DOMAIN js <=> m \in DOMAIN js /\ js[m].status # "POSTED"
PaymentsIn(ps, js) ==
  \A p \in DOMAIN ps :
    PaymentNo(p) \in DOMAIN js /\ (Stands(js, PaymentNo(p)) <=> ~ps[p].reversed)

Priced(t) == IsFiniteSet(DOMAIN t) /\ \A x \in DOMAIN t : t[x].amount \in Nat \ {0}

StandingIn(ps) == {p \in DOMAIN ps : ~ps[p].reversed}
BillsIn(bs, js) == {b \in DOMAIN bs : Stands(js, BillNo(b))}
OwedIn(es, js) == {e \in DOMAIN es : ~es[e].bank /\ Stands(js, ExpenseNo(e))}
DrawnIn(es, js) == {e \in DOMAIN es : es[e].bank /\ Stands(js, ExpenseNo(e))}

OwingBooks(bs, ps, es, js) ==
  /\ BooksFine(js) /\ Priced(bs) /\ Priced(ps) /\ Priced(es)
  /\ \A e \in DOMAIN es : es[e].bank \in BOOLEAN
  /\ \A p \in DOMAIN ps : ps[p].reversed \in BOOLEAN
  /\ Followed(bs, ps, es, js) /\ PaymentsIn(ps, js)
  /\ Balance(js, "2000") =
       RowSum(ps, StandingIn(ps)) - RowSum(bs, BillsIn(bs, js)) - RowSum(es, OwedIn(es, js))
  /\ Balance(js, "1000") =
       - RowSum(ps, StandingIn(ps)) - RowSum(es, DrawnIn(es, js))

LEMMA PayTotals ==
  ASSUME NEW t, Priced(t), NEW S, S \subseteq DOMAIN t
  PROVE  IsFiniteSet(S) /\ RowSum(t, S) \in Int
<1>1. IsFiniteSet(S) /\ \A x \in S : t[x].amount \in Int
  BY FS_Subset DEF Priced
<1> QED
  BY <1>1, RowsType

LEMMA OwingTotals ==
  ASSUME NEW bs, NEW ps, NEW es, NEW js, OwingBooks(bs, ps, es, js)
  PROVE  /\ RowSum(ps, StandingIn(ps)) \in Int /\ RowSum(bs, BillsIn(bs, js)) \in Int
         /\ RowSum(es, OwedIn(es, js)) \in Int /\ RowSum(es, DrawnIn(es, js)) \in Int
         /\ Balance(js, "1000") \in Int /\ Balance(js, "2000") \in Int
<1>1. /\ StandingIn(ps) \subseteq DOMAIN ps /\ BillsIn(bs, js) \subseteq DOMAIN bs
      /\ OwedIn(es, js) \subseteq DOMAIN es /\ DrawnIn(es, js) \subseteq DOMAIN es
  BY DEF StandingIn, BillsIn, OwedIn, DrawnIn
<1>2. Balance(js, "1000") \in Int /\ Balance(js, "2000") \in Int
  BY BalanceType DEF OwingBooks
<1> QED
  BY <1>1, <1>2, PayTotals DEF OwingBooks

(* A row t[x] more or less among those that count.                         *)
LEMMA PayTotalMore ==
  ASSUME NEW t, Priced(t), NEW u, NEW S, NEW T, NEW x, S \subseteq DOMAIN t, OneMore(T, S, x),
         \A y \in S : u[y].amount = t[y].amount, u[x].amount \in Int
  PROVE  RowSum(u, T) = RowSum(t, S) + u[x].amount
<1>1. IsFiniteSet(S)
  BY PayTotals
<1>2. SameRows(t, u, S) /\ RowIs(u, x, u[x].amount)
  BY DEF SameRows, RowIs, Priced
<1> QED
  BY <1>1, <1>2, RowsAdd

LEMMA PayTotalLess ==
  ASSUME NEW t, Priced(t), NEW u, NEW S, NEW T, NEW x, S \subseteq DOMAIN t, OneMore(S, T, x),
         \A y \in T : u[y].amount = t[y].amount
  PROVE  RowSum(u, T) = RowSum(t, S) - t[x].amount
<1>1. IsFiniteSet(S) /\ x \in DOMAIN t /\ T \subseteq DOMAIN t
  BY PayTotals DEF OneMore
<1>2. SameRows(t, u, T) /\ RowIs(t, x, t[x].amount)
  BY <1>1 DEF SameRows, RowIs, Priced
<1> QED
  BY <1>1, <1>2, RowsRemove

(* Rows are only added, and keep their amounts and what they are paid from.*)
Wider(t, u) == DOMAIN t \subseteq DOMAIN u /\ \A x \in DOMAIN t : u[x].amount = t[x].amount
SpentAs(t, u) == Wider(t, u) /\ \A x \in DOMAIN t : u[x].bank = t[x].bank

LEMMA AccountedStill ==
  ASSUME NEW bs, NEW ps, NEW es, NEW bt, NEW pt, NEW et, NEW n, NEW j,
         Accounted(bs, ps, es, n, j), Wider(bs, bt), Wider(ps, pt), SpentAs(es, et)
  PROVE  Accounted(bt, pt, et, n, j)
<1>1. OfBill(bs, n, j) => OfBill(bt, n, j)
  BY DEF OfBill, Wider
<1>2. OfPayment(ps, n, j) => OfPayment(pt, n, j)
  BY DEF OfPayment, Wider
<1>3. OfExpense(es, n, j) => OfExpense(et, n, j)
  BY DEF OfExpense, SpentAs, Wider, CreditOf
<1> QED
  BY <1>1, <1>2, <1>3 DEF Accounted

(* What is under the number of a row.                                      *)
LEMMA AccountedRow ==
  ASSUME NEW bs, NEW ps, NEW es, NEW js, Followed(bs, ps, es, js), NEW x
  PROVE  /\ BillNo(x) \in DOMAIN js =>
              x \in DOMAIN bs /\ LinesAre(js, BillNo(x), "5000", "2000", bs[x].amount)
         /\ PaymentNo(x) \in DOMAIN js =>
              x \in DOMAIN ps /\ LinesAre(js, PaymentNo(x), "2000", "1000", ps[x].amount)
         /\ ExpenseNo(x) \in DOMAIN js =>
              x \in DOMAIN es /\ LinesAre(js, ExpenseNo(x), "5000", CreditOf(es[x]), es[x].amount)
<1>1. ASSUME BillNo(x) \in DOMAIN js
      PROVE  x \in DOMAIN bs /\ LinesAre(js, BillNo(x), "5000", "2000", bs[x].amount)
  <2>1. Accounted(bs, ps, es, BillNo(x), js[BillNo(x)])
    BY <1>1 DEF Followed
  <2> QED
    BY <2>1, PayNumbers DEF Accounted, OfBill, OfPayment, OfExpense, LinesAre
<1>2. ASSUME PaymentNo(x) \in DOMAIN js
      PROVE  x \in DOMAIN ps /\ LinesAre(js, PaymentNo(x), "2000", "1000", ps[x].amount)
  <2>1. Accounted(bs, ps, es, PaymentNo(x), js[PaymentNo(x)])
    BY <1>2 DEF Followed
  <2> QED
    BY <2>1, PayNumbers DEF Accounted, OfBill, OfPayment, OfExpense, LinesAre
<1>3. ASSUME ExpenseNo(x) \in DOMAIN js
      PROVE  /\ x \in DOMAIN es
             /\ LinesAre(js, ExpenseNo(x), "5000", CreditOf(es[x]), es[x].amount)
  <2>1. Accounted(bs, ps, es, ExpenseNo(x), js[ExpenseNo(x)])
    BY <1>3 DEF Followed
  <2> QED
    BY <2>1, PayNumbers DEF Accounted, OfBill, OfPayment, OfExpense, LinesAre
<1> QED
  BY <1>1, <1>2, <1>3

RowNumber(n) == \A m : n # UndoNo(m)

(* A row is posted under a number that is free.                            *)
LEMMA RowPosted ==
  ASSUME NEW bs, NEW ps, NEW es, NEW js, BooksFine(js), Followed(bs, ps, es, js),
         NEW bt, NEW pt, NEW et, Wider(bs, bt), Wider(ps, pt), SpentAs(es, et),
         NEW n, n \notin DOMAIN js, RowNumber(n),
         NEW d, NEW c, NEW v, d # c, v \in Int, Accounted(bt, pt, et, n, PairJournal(d, c, v)),
         NEW k, k = Posted(js, n, Pair(d, c, v))
  PROVE  /\ BooksFine(k) /\ Followed(bt, pt, et, k)
         /\ \A m : Stands(k, m) <=> m = n \/ Stands(js, m)
         /\ \A m : m \in DOMAIN k <=> m = n \/ m \in DOMAIN js
         /\ \A a : Balance(k, a) = Balance(js, a) + PairMove(d, c, v, a)
<1>1. /\ BooksFine(k) /\ Adds(k, js, n) /\ k[n] = PairJournal(d, c, v)
      /\ \A m \in DOMAIN js : k[m] = js[m]
      /\ \A a : Balance(k, a) = Balance(js, a) + PairMove(d, c, v, a)
  BY PostedPair
<1>2. \A m : m \in DOMAIN k <=> m = n \/ m \in DOMAIN js
  BY <1>1 DEF Adds
<1>3. k[n].status = "POSTED"
  BY <1>1 DEF PairJournal
<1>4. \A m : Stands(k, m) <=> m = n \/ Stands(js, m)
  BY <1>1, <1>2, <1>3 DEF Stands
<1>5. ASSUME NEW m \in DOMAIN k PROVE Accounted(bt, pt, et, m, k[m])
  <2>1. CASE m = n
    BY <2>1, <1>1
  <2>2. CASE m # n
    <3>1. m \in DOMAIN js /\ k[m] = js[m]
      BY <2>2, <1>1, <1>2
    <3>2. Accounted(bs, ps, es, m, k[m])
      BY <3>1 DEF Followed
    <3> QED
      BY <3>2, AccountedStill
  <2> QED
    BY <2>1, <2>2
<1>6. ASSUME NEW m PROVE UndoNo(m) \in DOMAIN k <=> m \in DOMAIN k /\ k[m].status # "POSTED"
  <2>1. UndoNo(m) \in DOMAIN k <=> UndoNo(m) \in DOMAIN js
    BY <1>2 DEF RowNumber
  <2>2. UndoNo(m) \in DOMAIN js <=> m \in DOMAIN js /\ js[m].status # "POSTED"
    BY DEF Followed
  <2> QED
    BY <2>1, <2>2, <1>1, <1>2, <1>3
<1>7. Followed(bt, pt, et, k)
  BY <1>5, <1>6 DEF Followed
<1> QED
  BY <1>1, <1>2, <1>4, <1>7

LEMMA UndoneIfDue ==
  ASSUME NEW bs, NEW ps, NEW es, NEW js, Followed(bs, ps, es, js), NEW n
  PROVE  /\ Reversible(js, n, UndoNo(n)) <=> Stands(js, n)
         /\ ~Stands(js, n) => Reversed(js, n, UndoNo(n)) = js
BY DEF Followed, Reversible, Stands, Reversed

(* A row that is posted is taken back.                                     *)
LEMMA RowUndone ==
  ASSUME NEW bs, NEW ps, NEW es, NEW js, BooksFine(js), Followed(bs, ps, es, js),
         NEW n, Stands(js, n), NEW d, NEW c, NEW v, d # c, v \in Int, LinesAre(js, n, d, c, v),
         RowNumber(n), NEW k, k = Reversed(js, n, UndoNo(n))
  PROVE  /\ BooksFine(k) /\ Followed(bs, ps, es, k)
         /\ \A m : RowNumber(m) => (Stands(k, m) <=> m # n /\ Stands(js, m))
         /\ \A m : RowNumber(m) => (m \in DOMAIN k <=> m \in DOMAIN js)
         /\ \A a : Balance(k, a) = Balance(js, a) - PairMove(d, c, v, a)
<1>0. Reversible(js, n, UndoNo(n)) /\ n \in DOMAIN js
  BY UndoneIfDue DEF Stands
<1>1. /\ BooksFine(k) /\ Adds(k, js, UndoNo(n))
      /\ k[n] = TakenBack(js[n]) /\ k[UndoNo(n)] = MirrorOf(js[n])
      /\ \A m \in DOMAIN js : m # n => k[m] = js[m]
      /\ \A a : Balance(k, a) = Balance(js, a) - PairMove(d, c, v, a)
  BY <1>0, ReversedPair
<1>2. \A m : m \in DOMAIN k <=> m = UndoNo(n) \/ m \in DOMAIN js
  BY <1>1 DEF Adds
<1>3. k[n].status = "REVERSED" /\ k[n].lines = js[n].lines /\ k[UndoNo(n)].status = "POSTED"
  BY <1>1 DEF TakenBack, MirrorOf
<1>4. \A m : RowNumber(m) => (m \in DOMAIN k <=> m \in DOMAIN js)
  BY <1>2 DEF RowNumber
<1>5. ASSUME NEW m, RowNumber(m) PROVE Stands(k, m) <=> m # n /\ Stands(js, m)
  BY <1>1, <1>3, <1>4, <1>5 DEF Stands
<1>6. ASSUME NEW m \in DOMAIN k PROVE Accounted(bs, ps, es, m, k[m])
  <2>1. CASE m = UndoNo(n)
    BY <2>1 DEF Accounted
  <2>2. CASE m # UndoNo(n)
    <3>1. m \in DOMAIN js /\ k[m].lines = js[m].lines
      BY <2>2, <1>1, <1>2, <1>3
    <3>2. Accounted(bs, ps, es, m, js[m])
      BY <3>1 DEF Followed
    <3> QED
      BY <3>1, <3>2 DEF Accounted, OfBill, OfPayment, OfExpense
  <2> QED
    BY <2>1, <2>2
<1>7. ASSUME NEW m PROVE UndoNo(m) \in DOMAIN k <=> m \in DOMAIN k /\ k[m].status # "POSTED"
  <2>0. UndoNo(m) \in DOMAIN js <=> m \in DOMAIN js /\ js[m].status # "POSTED"
    BY DEF Followed
  <2>1. CASE m = n
    BY <2>1, <1>0, <1>2, <1>3
  <2>2. CASE m = UndoNo(n)
    <3>1. m \notin DOMAIN js /\ m # n
      BY <2>2, <1>1 DEF Adds, RowNumber
    <3>2. UndoNo(m) # UndoNo(n)
      BY <3>1, PayNumbers
    <3> QED
      BY <2>0, <2>2, <3>1, <3>2, <1>2, <1>3
  <2>3. CASE m # n /\ m # UndoNo(n)
    <3>1. UndoNo(m) # UndoNo(n)
      BY <2>3, PayNumbers
    <3> QED
      BY <2>0, <2>3, <3>1, <1>1, <1>2
  <2> QED
    BY <2>1, <2>2, <2>3
<1> QED
  BY <1>1, <1>4, <1>5, <1>6, <1>7 DEF Followed

(* New rows are in the books of no journal yet.                            *)
LEMMA RowsCome ==
  ASSUME NEW bs, NEW ps, NEW es, NEW js, OwingBooks(bs, ps, es, js),
         NEW bt, NEW et, Wider(bs, bt), SpentAs(es, et), Priced(bt), Priced(et),
         \A e \in DOMAIN et : et[e].bank \in BOOLEAN
  PROVE  OwingBooks(bt, ps, et, js)
<1>1. Followed(bs, ps, es, js)
  BY DEF OwingBooks
<1>2. BillsIn(bt, js) = BillsIn(bs, js)
  BY <1>1, AccountedRow DEF BillsIn, Stands, Wider
<1>3. OwedIn(et, js) = OwedIn(es, js) /\ DrawnIn(et, js) = DrawnIn(es, js)
  BY <1>1, AccountedRow DEF OwedIn, DrawnIn, Stands, SpentAs, Wider
<1>4. RowSum(bt, BillsIn(bs, js)) = RowSum(bs, BillsIn(bs, js))
  BY RowsSame DEF BillsIn, Wider
<1>5. /\ RowSum(et, OwedIn(es, js)) = RowSum(es, OwedIn(es, js))
      /\ RowSum(et, DrawnIn(es, js)) = RowSum(es, DrawnIn(es, js))
  BY RowsSame DEF OwedIn, DrawnIn, SpentAs, Wider
<1>6. Followed(bt, ps, et, js)
  <2>1. ASSUME NEW n \in DOMAIN js PROVE Accounted(bt, ps, et, n, js[n])
    <3>1. Wider(ps, ps) /\ Accounted(bs, ps, es, n, js[n])
      BY <1>1 DEF Wider, Followed
    <3> QED
      BY <3>1, AccountedStill
  <2> QED
    BY <1>1, <2>1 DEF Followed
<1> QED
  BY <1>2, <1>3, <1>4, <1>5, <1>6 DEF OwingBooks

LEMMA BillBooked ==
  ASSUME NEW bs, NEW ps, NEW es, NEW js, OwingBooks(bs, ps, es, js), NEW b \in DOMAIN bs,
         NEW k, k = Posted(js, BillNo(b), Pair("5000", "2000", bs[b].amount))
  PROVE  OwingBooks(bs, ps, es, k)
<1>0. /\ BooksFine(js) /\ Followed(bs, ps, es, js) /\ bs[b].amount \in Int
      /\ Wider(bs, bs) /\ Wider(ps, ps) /\ SpentAs(es, es)
  BY DEF OwingBooks, Priced, Wider, SpentAs
<1>1. CASE BillNo(b) \in DOMAIN js
  BY <1>0, <1>1, PostedPair
<1>2. CASE BillNo(b) \notin DOMAIN js
  <2>1. Accounted(bs, ps, es, BillNo(b), PairJournal("5000", "2000", bs[b].amount))
    BY DEF Accounted, OfBill, PairJournal
  <2>2. RowNumber(BillNo(b))
    BY PayNumbers DEF RowNumber
  <2>3. /\ BooksFine(k) /\ Followed(bs, ps, es, k)
        /\ \A m : Stands(k, m) <=> m = BillNo(b) \/ Stands(js, m)
        /\ \A m : m \in DOMAIN k <=> m = BillNo(b) \/ m \in DOMAIN js
        /\ \A a : Balance(k, a) = Balance(js, a) + PairMove("5000", "2000", bs[b].amount, a)
    BY <1>0, <1>2, <2>1, <2>2, RowPosted
  <2>4. \A x : /\ Stands(k, BillNo(x)) <=> x = b \/ Stands(js, BillNo(x))
               /\ Stands(k, PaymentNo(x)) <=> Stands(js, PaymentNo(x))
               /\ Stands(k, ExpenseNo(x)) <=> Stands(js, ExpenseNo(x))
               /\ PaymentNo(x) \in DOMAIN k <=> PaymentNo(x) \in DOMAIN js
    BY <2>3, PayNumbers
  <2>5. OwedIn(es, k) = OwedIn(es, js) /\ DrawnIn(es, k) = DrawnIn(es, js)
    BY <2>4 DEF OwedIn, DrawnIn
  <2>6. OneMore(BillsIn(bs, k), BillsIn(bs, js), b)
    BY <1>2, <2>4 DEF OneMore, BillsIn, Stands
  <2>7. RowSum(bs, BillsIn(bs, k)) = RowSum(bs, BillsIn(bs, js)) + bs[b].amount
    <3>1. Priced(bs) /\ BillsIn(bs, js) \subseteq DOMAIN bs
      BY DEF OwingBooks, BillsIn
    <3>2. SameRows(bs, bs, BillsIn(bs, js)) /\ RowIs(bs, b, bs[b].amount)
      BY <3>1 DEF SameRows, RowIs, Priced
    <3>3. IsFiniteSet(BillsIn(bs, js))
      BY <3>1, PayTotals
    <3> QED
      BY <2>6, <3>2, <3>3, RowsAdd
  <2>8. PaymentsIn(ps, k)
    BY <2>4 DEF OwingBooks, PaymentsIn
  <2>9. /\ Balance(k, "2000") = Balance(js, "2000") - bs[b].amount
        /\ Balance(k, "1000") = Balance(js, "1000")
    BY <2>3, <1>0, OwingTotals DEF PairMove
  <2> QED
    BY <1>0, <2>3, <2>5, <2>7, <2>8, <2>9, OwingTotals DEF OwingBooks
<1> QED
  BY <1>1, <1>2

LEMMA BillUnbooked ==
  ASSUME NEW bs, NEW ps, NEW es, NEW js, OwingBooks(bs, ps, es, js), NEW b \in DOMAIN bs,
         NEW k, k = Reversed(js, BillNo(b), UndoNo(BillNo(b)))
  PROVE  OwingBooks(bs, ps, es, k)
<1>0. BooksFine(js) /\ Followed(bs, ps, es, js) /\ bs[b].amount \in Int
  BY DEF OwingBooks, Priced
<1>1. CASE ~Stands(js, BillNo(b))
  BY <1>0, <1>1, UndoneIfDue
<1>2. CASE Stands(js, BillNo(b))
  <2>1. LinesAre(js, BillNo(b), "5000", "2000", bs[b].amount)
    BY <1>0, <1>2, AccountedRow DEF Stands
  <2>2. \A x : RowNumber(BillNo(x)) /\ RowNumber(PaymentNo(x)) /\ RowNumber(ExpenseNo(x))
    BY PayNumbers DEF RowNumber
  <2>3. /\ BooksFine(k) /\ Followed(bs, ps, es, k)
        /\ \A m : RowNumber(m) => (Stands(k, m) <=> m # BillNo(b) /\ Stands(js, m))
        /\ \A m : RowNumber(m) => (m \in DOMAIN k <=> m \in DOMAIN js)
        /\ \A a : Balance(k, a) = Balance(js, a) - PairMove("5000", "2000", bs[b].amount, a)
    BY <1>0, <1>2, <2>1, <2>2, RowUndone
  <2>4. \A x : /\ Stands(k, BillNo(x)) <=> x # b /\ Stands(js, BillNo(x))
               /\ Stands(k, PaymentNo(x)) <=> Stands(js, PaymentNo(x))
               /\ Stands(k, ExpenseNo(x)) <=> Stands(js, ExpenseNo(x))
               /\ PaymentNo(x) \in DOMAIN k <=> PaymentNo(x) \in DOMAIN js
    BY <2>2, <2>3, PayNumbers
  <2>5. OwedIn(es, k) = OwedIn(es, js) /\ DrawnIn(es, k) = DrawnIn(es, js)
    BY <2>4 DEF OwedIn, DrawnIn
  <2>6. OneMore(BillsIn(bs, js), BillsIn(bs, k), b)
    BY <1>2, <2>4 DEF OneMore, BillsIn
  <2>7. RowSum(bs, BillsIn(bs, k)) = RowSum(bs, BillsIn(bs, js)) - bs[b].amount
    <3>1. Priced(bs) /\ BillsIn(bs, js) \subseteq DOMAIN bs
      BY DEF OwingBooks, BillsIn
    <3> QED
      BY <2>6, <3>1, PayTotalLess
  <2>8. PaymentsIn(ps, k)
    BY <2>4 DEF OwingBooks, PaymentsIn
  <2>9. /\ Balance(k, "2000") = Balance(js, "2000") + bs[b].amount
        /\ Balance(k, "1000") = Balance(js, "1000")
    BY <2>3, <1>0, OwingTotals DEF PairMove
  <2> QED
    BY <1>0, <2>3, <2>5, <2>7, <2>8, <2>9, OwingTotals DEF OwingBooks
<1> QED
  BY <1>1, <1>2

LEMMA PaymentBooked ==
  ASSUME NEW bs, NEW ps, NEW es, NEW js, OwingBooks(bs, ps, es, js),
         NEW p, p \notin DOMAIN ps, NEW pt, DOMAIN pt = DOMAIN ps \union {p},
         \A q \in DOMAIN ps : pt[q] = ps[q], pt[p].amount \in Nat \ {0}, pt[p].reversed = FALSE,
         NEW k, k = Posted(js, PaymentNo(p), Pair("2000", "1000", pt[p].amount))
  PROVE  OwingBooks(bs, pt, es, k)
<1>0. /\ BooksFine(js) /\ Followed(bs, ps, es, js) /\ pt[p].amount \in Int
      /\ Wider(bs, bs) /\ Wider(ps, pt) /\ SpentAs(es, es)
  BY DEF OwingBooks, Priced, Wider, SpentAs
<1>1. PaymentNo(p) \notin DOMAIN js
  BY <1>0, AccountedRow
<1>2. Accounted(bs, pt, es, PaymentNo(p), PairJournal("2000", "1000", pt[p].amount))
  BY DEF Accounted, OfPayment, PairJournal
<1>3. RowNumber(PaymentNo(p))
  BY PayNumbers DEF RowNumber
<1>4. /\ BooksFine(k) /\ Followed(bs, pt, es, k)
      /\ \A m : Stands(k, m) <=> m = PaymentNo(p) \/ Stands(js, m)
      /\ \A m : m \in DOMAIN k <=> m = PaymentNo(p) \/ m \in DOMAIN js
      /\ \A a : Balance(k, a) = Balance(js, a) + PairMove("2000", "1000", pt[p].amount, a)
  BY <1>0, <1>1, <1>2, <1>3, RowPosted
<1>5. \A x : /\ Stands(k, BillNo(x)) <=> Stands(js, BillNo(x))
             /\ Stands(k, PaymentNo(x)) <=> x = p \/ Stands(js, PaymentNo(x))
             /\ Stands(k, ExpenseNo(x)) <=> Stands(js, ExpenseNo(x))
             /\ PaymentNo(x) \in DOMAIN k <=> x = p \/ PaymentNo(x) \in DOMAIN js
  BY <1>4, PayNumbers
<1>6. /\ OwedIn(es, k) = OwedIn(es, js) /\ DrawnIn(es, k) = DrawnIn(es, js)
      /\ BillsIn(bs, k) = BillsIn(bs, js)
  BY <1>5 DEF OwedIn, DrawnIn, BillsIn
<1>7. OneMore(StandingIn(pt), StandingIn(ps), p)
  BY DEF OneMore, StandingIn
<1>8. RowSum(pt, StandingIn(pt)) = RowSum(ps, StandingIn(ps)) + pt[p].amount
  <2>1. Priced(ps) /\ StandingIn(ps) \subseteq DOMAIN ps
    BY DEF OwingBooks, StandingIn
  <2>2. \A q \in StandingIn(ps) : pt[q].amount = ps[q].amount
    BY DEF StandingIn
  <2> QED
    BY <1>0, <1>7, <2>1, <2>2, PayTotalMore
<1>9. PaymentsIn(pt, k)
  BY <1>5 DEF OwingBooks, PaymentsIn
<1>10. /\ Balance(k, "2000") = Balance(js, "2000") + pt[p].amount
       /\ Balance(k, "1000") = Balance(js, "1000") - pt[p].amount
  BY <1>4, <1>0, OwingTotals DEF PairMove
<1>11. Priced(pt) /\ \A q \in DOMAIN pt : pt[q].reversed \in BOOLEAN
  <2>1. IsFiniteSet(DOMAIN pt)
    BY FS_AddElement DEF OwingBooks, Priced
  <2> QED
    BY <2>1 DEF OwingBooks, Priced
<1> QED
  BY <1>0, <1>4, <1>6, <1>8, <1>9, <1>10, <1>11, OwingTotals DEF OwingBooks

(* A payment that is reversed, its journal with it if that is still due:   *)
(* it is not if, and only if, the payment has been reversed before.        *)
LEMMA PaymentUnbooked ==
  ASSUME NEW bs, NEW ps, NEW es, NEW js, OwingBooks(bs, ps, es, js), NEW p \in DOMAIN ps,
         NEW pt, DOMAIN pt = DOMAIN ps, \A q \in DOMAIN ps : pt[q].amount = ps[q].amount,
         \A q \in DOMAIN ps : pt[q].reversed = (ps[q].reversed \/ q = p),
         NEW k, k = Reversed(js, PaymentNo(p), UndoNo(PaymentNo(p)))
  PROVE  OwingBooks(bs, pt, es, k)
<1>0. /\ BooksFine(js) /\ Followed(bs, ps, es, js) /\ ps[p].amount \in Int /\ PaymentsIn(ps, js)
      /\ Wider(bs, bs) /\ Wider(ps, pt) /\ SpentAs(es, es) /\ Priced(pt)
  BY DEF OwingBooks, Priced, Wider, SpentAs
<1>b. \A q \in DOMAIN pt : pt[q].reversed \in BOOLEAN
  BY Zenon
<1>a. ASSUME NEW x, Followed(bs, ps, es, x) PROVE Followed(bs, pt, es, x)
  <2>1. \A n \in DOMAIN x : Accounted(bs, pt, es, n, x[n])
    BY <1>0, <1>a, AccountedStill DEF Followed
  <2> QED
    BY <1>a, <2>1 DEF Followed
<1>1. CASE ~Stands(js, PaymentNo(p))
  <2>1. k = js /\ ps[p].reversed
    BY <1>0, <1>1, UndoneIfDue DEF PaymentsIn, OwingBooks
  <2>2. \A q \in DOMAIN ps : pt[q].reversed = ps[q].reversed
    BY <2>1 DEF OwingBooks
  <2>3. StandingIn(pt) = StandingIn(ps)
    BY <2>2 DEF StandingIn
  <2>4. RowSum(pt, StandingIn(ps)) = RowSum(ps, StandingIn(ps))
    BY RowsSame DEF StandingIn
  <2>5. PaymentsIn(pt, js)
    BY <1>0, <2>2 DEF PaymentsIn
  <2> QED
    BY <1>0, <1>a, <1>b, <2>1, <2>3, <2>4, <2>5 DEF OwingBooks
<1>2. CASE Stands(js, PaymentNo(p))
  <2>1. LinesAre(js, PaymentNo(p), "2000", "1000", ps[p].amount)
    BY <1>0, <1>2, AccountedRow DEF Stands
  <2>2. \A x : RowNumber(BillNo(x)) /\ RowNumber(PaymentNo(x)) /\ RowNumber(ExpenseNo(x))
    BY PayNumbers DEF RowNumber
  <2>3. /\ BooksFine(k) /\ Followed(bs, ps, es, k)
        /\ \A m : RowNumber(m) => (Stands(k, m) <=> m # PaymentNo(p) /\ Stands(js, m))
        /\ \A m : RowNumber(m) => (m \in DOMAIN k <=> m \in DOMAIN js)
        /\ \A a : Balance(k, a) = Balance(js, a) - PairMove("2000", "1000", ps[p].amount, a)
    BY <1>0, <1>2, <2>1, <2>2, RowUndone
  <2>4. \A x : /\ Stands(k, BillNo(x)) <=> Stands(js, BillNo(x))
               /\ Stands(k, PaymentNo(x)) <=> x # p /\ Stands(js, PaymentNo(x))
               /\ Stands(k, ExpenseNo(x)) <=> Stands(js, ExpenseNo(x))
               /\ PaymentNo(x) \in DOMAIN k <=> PaymentNo(x) \in DOMAIN js
    BY <2>2, <2>3, PayNumbers
  <2>5. /\ OwedIn(es, k) = OwedIn(es, js) /\ DrawnIn(es, k) = DrawnIn(es, js)
        /\ BillsIn(bs, k) = BillsIn(bs, js)
    BY <2>4 DEF OwedIn, DrawnIn, BillsIn
  <2>6. OneMore(StandingIn(ps), StandingIn(pt), p)
    BY <1>0, <1>2 DEF OneMore, StandingIn, PaymentsIn
  <2>7. RowSum(pt, StandingIn(pt)) = RowSum(ps, StandingIn(ps)) - ps[p].amount
    <3>1. Priced(ps) /\ StandingIn(ps) \subseteq DOMAIN ps /\ StandingIn(pt) \subseteq DOMAIN ps
      BY DEF OwingBooks, StandingIn
    <3> QED
      BY <2>6, <3>1, PayTotalLess
  <2>8. PaymentsIn(pt, k)
    BY <1>0, <2>4 DEF PaymentsIn
  <2>9. /\ Balance(k, "2000") = Balance(js, "2000") - ps[p].amount
        /\ Balance(k, "1000") = Balance(js, "1000") + ps[p].amount
    BY <2>3, <1>0, OwingTotals DEF PairMove
  <2> QED
    BY <1>0, <1>a, <1>b, <2>3, <2>5, <2>7, <2>8, <2>9, OwingTotals DEF OwingBooks
<1> QED
  BY <1>1, <1>2

LEMMA ExpenseBooked ==
  ASSUME NEW bs, NEW ps, NEW es, NEW js, OwingBooks(bs, ps, es, js), NEW e \in DOMAIN es,
         NEW k, k = Posted(js, ExpenseNo(e), Pair("5000", CreditOf(es[e]), es[e].amount))
  PROVE  OwingBooks(bs, ps, es, k)
<1>0. /\ BooksFine(js) /\ Followed(bs, ps, es, js) /\ es[e].amount \in Int
      /\ Wider(bs, bs) /\ Wider(ps, ps) /\ SpentAs(es, es) /\ Priced(es)
      /\ "5000" # CreditOf(es[e])
  BY DEF OwingBooks, Priced, Wider, SpentAs, CreditOf
<1>1. CASE ExpenseNo(e) \in DOMAIN js
  BY <1>0, <1>1, PostedPair
<1>2. CASE ExpenseNo(e) \notin DOMAIN js
  <2>1. Accounted(bs, ps, es, ExpenseNo(e), PairJournal("5000", CreditOf(es[e]), es[e].amount))
    BY DEF Accounted, OfExpense, PairJournal
  <2>2. RowNumber(ExpenseNo(e))
    BY PayNumbers DEF RowNumber
  <2>3. /\ BooksFine(k) /\ Followed(bs, ps, es, k)
        /\ \A m : Stands(k, m) <=> m = ExpenseNo(e) \/ Stands(js, m)
        /\ \A m : m \in DOMAIN k <=> m = ExpenseNo(e) \/ m \in DOMAIN js
        /\ \A a : Balance(k, a)
                   = Balance(js, a) + PairMove("5000", CreditOf(es[e]), es[e].amount, a)
    BY <1>0, <1>2, <2>1, <2>2, RowPosted
  <2>4. \A x : /\ Stands(k, BillNo(x)) <=> Stands(js, BillNo(x))
               /\ Stands(k, PaymentNo(x)) <=> Stands(js, PaymentNo(x))
               /\ Stands(k, ExpenseNo(x)) <=> x = e \/ Stands(js, ExpenseNo(x))
               /\ PaymentNo(x) \in DOMAIN k <=> PaymentNo(x) \in DOMAIN js
    BY <2>3, PayNumbers
  <2>5. BillsIn(bs, k) = BillsIn(bs, js) /\ PaymentsIn(ps, k)
    BY <2>4 DEF BillsIn, OwingBooks, PaymentsIn
  <2>6. /\ OwedIn(es, js) \subseteq DOMAIN es /\ DrawnIn(es, js) \subseteq DOMAIN es
        /\ IsFiniteSet(OwedIn(es, js)) /\ IsFiniteSet(DrawnIn(es, js))
    <3>1. OwedIn(es, js) \subseteq DOMAIN es /\ DrawnIn(es, js) \subseteq DOMAIN es
      BY DEF OwedIn, DrawnIn
    <3> QED
      BY <1>0, <3>1, PayTotals
  <2>7. /\ SameRows(es, es, OwedIn(es, js)) /\ SameRows(es, es, DrawnIn(es, js))
        /\ RowIs(es, e, es[e].amount)
    BY <1>0, <2>6 DEF SameRows, RowIs, Priced
  <2>8. CASE es[e].bank
    <3>1. OwedIn(es, k) = OwedIn(es, js)
      BY <2>4, <2>8 DEF OwedIn
    <3>2. OneMore(DrawnIn(es, k), DrawnIn(es, js), e)
      BY <1>2, <2>4, <2>8 DEF OneMore, DrawnIn, Stands
    <3>3. RowSum(es, DrawnIn(es, k)) = RowSum(es, DrawnIn(es, js)) + es[e].amount
      BY <2>6, <2>7, <3>2, RowsAdd
    <3>4. /\ Balance(k, "1000") = Balance(js, "1000") - es[e].amount
          /\ Balance(k, "2000") = Balance(js, "2000")
      BY <2>3, <2>8, <1>0, OwingTotals DEF PairMove, CreditOf
    <3> QED
      BY <1>0, <2>3, <2>5, <3>1, <3>3, <3>4, OwingTotals DEF OwingBooks
  <2>9. CASE ~es[e].bank
    <3>1. DrawnIn(es, k) = DrawnIn(es, js)
      BY <2>4, <2>9 DEF DrawnIn
    <3>2. OneMore(OwedIn(es, k), OwedIn(es, js), e)
      BY <1>2, <2>4, <2>9 DEF OneMore, OwedIn, Stands
    <3>3. RowSum(es, OwedIn(es, k)) = RowSum(es, OwedIn(es, js)) + es[e].amount
      BY <2>6, <2>7, <3>2, RowsAdd
    <3>4. /\ Balance(k, "2000") = Balance(js, "2000") - es[e].amount
          /\ Balance(k, "1000") = Balance(js, "1000")
      BY <2>3, <2>9, <1>0, OwingTotals DEF PairMove, CreditOf
    <3> QED
      BY <1>0, <2>3, <2>5, <3>1, <3>3, <3>4, OwingTotals DEF OwingBooks
  <2> QED
    BY <2>8, <2>9
<1> QED
  BY <1>1, <1>2

LEMMA ExpenseUnbooked ==
  ASSUME NEW bs, NEW ps, NEW es, NEW js, OwingBooks(bs, ps, es, js), NEW e \in DOMAIN es,
         NEW k, k = Reversed(js, ExpenseNo(e), UndoNo(ExpenseNo(e)))
  PROVE  OwingBooks(bs, ps, es, k)
<1>0. /\ BooksFine(js) /\ Followed(bs, ps, es, js) /\ es[e].amount \in Int /\ Priced(es)
      /\ "5000" # CreditOf(es[e])
  BY DEF OwingBooks, Priced, CreditOf
<1>1. CASE ~Stands(js, ExpenseNo(e))
  BY <1>0, <1>1, UndoneIfDue
<1>2. CASE Stands(js, ExpenseNo(e))
  <2>1. LinesAre(js, ExpenseNo(e), "5000", CreditOf(es[e]), es[e].amount)
    BY <1>0, <1>2, AccountedRow DEF Stands
  <2>2. \A x : RowNumber(BillNo(x)) /\ RowNumber(PaymentNo(x)) /\ RowNumber(ExpenseNo(x))
    BY PayNumbers DEF RowNumber
  <2>3. /\ BooksFine(k) /\ Followed(bs, ps, es, k)
        /\ \A m : RowNumber(m) => (Stands(k, m) <=> m # ExpenseNo(e) /\ Stands(js, m))
        /\ \A m : RowNumber(m) => (m \in DOMAIN k <=> m \in DOMAIN js)
        /\ \A a : Balance(k, a)
                   = Balance(js, a) - PairMove("5000", CreditOf(es[e]), es[e].amount, a)
    BY <1>0, <1>2, <2>1, <2>2, RowUndone
  <2>4. \A x : /\ Stands(k, BillNo(x)) <=> Stands(js, BillNo(x))
               /\ Stands(k, PaymentNo(x)) <=> Stands(js, PaymentNo(x))
               /\ Stands(k, ExpenseNo(x)) <=> x # e /\ Stands(js, ExpenseNo(x))
               /\ PaymentNo(x) \in DOMAIN k <=> PaymentNo(x) \in DOMAIN js
    BY <2>2, <2>3, PayNumbers
  <2>5. BillsIn(bs, k) = BillsIn(bs, js) /\ PaymentsIn(ps, k)
    BY <2>4 DEF BillsIn, OwingBooks, PaymentsIn
  <2>6. OwedIn(es, js) \subseteq DOMAIN es /\ DrawnIn(es, js) \subseteq DOMAIN es
    BY DEF OwedIn, DrawnIn
  <2>7. CASE es[e].bank
    <3>1. OwedIn(es, k) = OwedIn(es, js)
      BY <2>4, <2>7 DEF OwedIn
    <3>2. OneMore(DrawnIn(es, js), DrawnIn(es, k), e)
      BY <1>2, <2>4, <2>7 DEF OneMore, DrawnIn
    <3>3. RowSum(es, DrawnIn(es, k)) = RowSum(es, DrawnIn(es, js)) - es[e].amount
      BY <1>0, <2>6, <3>2, PayTotalLess
    <3>4. /\ Balance(k, "1000") = Balance(js, "1000") + es[e].amount
          /\ Balance(k, "2000") = Balance(js, "2000")
      BY <2>3, <2>7, <1>0, OwingTotals DEF PairMove, CreditOf
    <3> QED
      BY <1>0, <2>3, <2>5, <3>1, <3>3, <3>4, OwingTotals DEF OwingBooks
  <2>8. CASE ~es[e].bank
    <3>1. DrawnIn(es, k) = DrawnIn(es, js)
      BY <2>4, <2>8 DEF DrawnIn
    <3>2. OneMore(OwedIn(es, js), OwedIn(es, k), e)
      BY <1>2, <2>4, <2>8 DEF OneMore, OwedIn
    <3>3. RowSum(es, OwedIn(es, k)) = RowSum(es, OwedIn(es, js)) - es[e].amount
      BY <1>0, <2>6, <3>2, PayTotalLess
    <3>4. /\ Balance(k, "2000") = Balance(js, "2000") + es[e].amount
          /\ Balance(k, "1000") = Balance(js, "1000")
      BY <2>3, <2>8, <1>0, OwingTotals DEF PairMove, CreditOf
    <3> QED
      BY <1>0, <2>3, <2>5, <3>1, <3>3, <3>4, OwingTotals DEF OwingBooks
  <2> QED
    BY <2>7, <2>8
<1> QED
  BY <1>1, <1>2

--------------------------------------------------------------------------------
(* The rows.  Bills, expenses and bank rows are numbered 1, 2, 3, ...       *)

Numbered(t) == IsFiniteSet(DOMAIN t) /\ DOMAIN t = 1 .. Cardinality(DOMAIN t)

Gains(t, u, n, x) ==
  /\ n \notin DOMAIN t /\ DOMAIN u = DOMAIN t \union {n} /\ u[n] = x
  /\ \A m \in DOMAIN t : u[m] = t[m]
EnteredNext(t, n, r, u) == n = Cardinality(DOMAIN t) + 1 /\ u = Entered(t, n, r)

LEMMA NumberEntered ==
  ASSUME NEW t, Numbered(t), NEW r, NEW n, NEW u, EnteredNext(t, n, r, u)
  PROVE  Numbered(u) /\ Gains(t, u, n, r)
<1> DEFINE c == Cardinality(DOMAIN t)
<1>1. c \in Nat /\ DOMAIN t = 1 .. c /\ IsFiniteSet(DOMAIN t)
  BY FS_CardinalityType DEF Numbered
<1>2. n \in Nat /\ n \notin DOMAIN t /\ n = c + 1
  BY <1>1 DEF EnteredNext
<1>3. DOMAIN u = DOMAIN t \union {n} /\ u[n] = r /\ \A m \in DOMAIN t : u[m] = t[m]
  BY <1>2 DEF Entered, EnteredNext
<1>4. Cardinality(DOMAIN u) = c + 1 /\ IsFiniteSet(DOMAIN u)
  BY <1>1, <1>2, <1>3, FS_AddElement
<1>5. DOMAIN u = 1 .. (c + 1)
  <2>1. 1 .. (c + 1) = 1 .. c \union {c + 1}
    BY <1>1
  <2> QED
    BY <1>1, <1>2, <1>3, <2>1
<1> HIDE DEF c
<1> QED
  BY <1>2, <1>3, <1>4, <1>5 DEF Numbered, Gains

BillStates == {"DRAFT", "PENDING_APPROVAL", "APPROVED", "OVERDUE", "PARTIALLY_PAID", "PAID", "VOID"}
ExpenseStates == {"PENDING", "APPROVED", "REJECTED", "VOID"}

BillOK(b) ==
  /\ b = [total |-> b.total, status |-> b.status, paid |-> b.paid]
  /\ b.total \in Nat \ {0} /\ b.status \in BillStates /\ b.paid \in Int
PaymentOK(p, bs) ==
  /\ p = [bill |-> p.bill, amount |-> p.amount, bank |-> p.bank, reversed |-> p.reversed]
  /\ p.bill \in DOMAIN bs /\ p.amount \in Nat \ {0}
  /\ p.bank \in BOOLEAN /\ p.reversed \in BOOLEAN
ExpenseOK(e) ==
  /\ e = [amount |-> e.amount, bank |-> e.bank, status |-> e.status]
  /\ e.amount \in Nat \ {0} /\ e.bank \in BOOLEAN /\ e.status \in ExpenseStates

(* A bank row is that of a payment or of an expense, at its amount.        *)
DrawnOK(r, ps, es) ==
  /\ r = [kind |-> r.kind, source |-> r.source, ref |-> r.ref, amount |-> r.amount,
          reversed |-> r.reversed]
  /\ r.reversed \in BOOLEAN
  /\ \/ /\ r.kind = "PAYMENT" /\ r.source = r.ref
        /\ r.source \in DOMAIN ps /\ r.amount = ps[r.source].amount
     \/ /\ r.kind = "EXPENSE"
        /\ r.source \in DOMAIN es /\ r.amount = es[r.source].amount

RowsFor(bk, kind, id) ==
  {r \in DOMAIN bk : bk[r].kind = kind /\ bk[r].source = id /\ ~bk[r].reversed}
Banks(p) == p.bank /\ ~p.reversed
OneRow(bk, ps, p) ==
  /\ Banks(ps[p]) => \E r : RowsFor(bk, "PAYMENT", p) = {r}
  /\ ~Banks(ps[p]) => RowsFor(bk, "PAYMENT", p) = {}

DrawnRows(bk, ps, es) ==
  /\ Numbered(bk)
  /\ \A r \in DOMAIN bk : DrawnOK(bk[r], ps, es)
  /\ \A p \in DOMAIN ps : OneRow(bk, ps, p)

Dues(bs) == [n \in DOMAIN bs |-> [amount |-> bs[n].total]]

PayTables(bs, ps, es, bk, js, v) ==
  /\ Numbered(bs) /\ Numbered(es)
  /\ \A n \in DOMAIN bs : BillOK(bs[n])
  /\ \A p \in DOMAIN ps : PaymentOK(ps[p], bs)
  /\ \A e \in DOMAIN es : ExpenseOK(es[e])
  /\ DrawnRows(bk, ps, es)
  /\ OwingBooks(Dues(bs), ps, es, js)
  /\ v \in Int

(* What a request has read.                                                *)
PayLabels ==
  {"idle", "deciding", "paying", "paid", "reversing", "unpaying", "unpaid", "spending", "spent"}
PaymentJob(x, bs) ==
  /\ x = [bill |-> x.bill, amount |-> x.amount, ref |-> x.ref, bank |-> x.bank, seen |-> x.seen,
          balance |-> x.balance]
  /\ x.bill \in DOMAIN bs /\ x.amount \in Nat \ {0} /\ x.bank \in BOOLEAN /\ x.seen.paid \in Int
ReversalJob(x, ps) ==
  /\ x = [payment |-> x.payment, due |-> x.due, paid |-> x.paid, rows |-> x.rows,
          balance |-> x.balance]
  /\ x.due \in BOOLEAN /\ x.paid \in Int /\ x.balance \in Int
  /\ x.due \/ ps[x.payment].reversed
FoundRows(x, bk) ==
  /\ x.rows \subseteq DOMAIN bk
  /\ \A r \in x.rows : bk[r].kind = "PAYMENT" /\ bk[r].source = x.payment
  /\ RowsFor(bk, "PAYMENT", x.payment) \subseteq x.rows
SpentRows(x, bk) ==
  /\ x.rows \subseteq DOMAIN bk
  /\ \A r \in x.rows : bk[r].kind = "EXPENSE" /\ bk[r].source = x.expense
PayJob(l, x, bs, ps, es, bk) ==
  /\ l \in PayLabels
  /\ l = "deciding" => x.bill \in DOMAIN bs /\ x.status \in BillStates
  /\ l \in {"paying", "paid"} => PaymentJob(x, bs)
  /\ l = "paying" => x.bank
  /\ l = "paid" => (x.bank => x.balance \in Int)
  /\ l \in {"reversing", "unpaying", "unpaid"} => x.payment \in DOMAIN ps
  /\ l \in {"unpaying", "unpaid"} => ReversalJob(x, ps)
  /\ l = "unpaid" => FoundRows(x, bk)
  /\ l \in {"spending", "spent"} =>
       x.expense \in DOMAIN es /\ x.status \in {"APPROVED", "REJECTED", "VOID"}
  /\ l = "spent" => SpentRows(x, bk) /\ x.balance \in Int

PayInv(s) ==
  /\ PayTables(bills, payments, expenses, bank, journals, balance)
  /\ DOMAIN pc = s.workers /\ DOMAIN job = s.workers
  /\ \A w \in s.workers : PayJob(pc[w], job[w], bills, payments, expenses, bank)

(* What a request has read of the rows stays true.                         *)
Onward(bs, ps, es, bk, bt, pt, et, bl) ==
  /\ DOMAIN bs \subseteq DOMAIN bt /\ DOMAIN ps \subseteq DOMAIN pt
  /\ DOMAIN es \subseteq DOMAIN et /\ DOMAIN bk \subseteq DOMAIN bl
  /\ \A p \in DOMAIN ps :
       /\ ps[p].reversed => pt[p].reversed
       /\ RowsFor(bl, "PAYMENT", p) \subseteq RowsFor(bk, "PAYMENT", p)
  /\ \A r \in DOMAIN bk : bl[r].kind = bk[r].kind /\ bl[r].source = bk[r].source

LEMMA PayJobOnward ==
  ASSUME NEW l, NEW x, NEW bs, NEW ps, NEW es, NEW bk, NEW bt, NEW pt, NEW et, NEW bl,
         PayJob(l, x, bs, ps, es, bk), Onward(bs, ps, es, bk, bt, pt, et, bl)
  PROVE  PayJob(l, x, bt, pt, et, bl)
<1>1. l \in {"paying", "paid"} => PaymentJob(x, bt)
  BY DEF PayJob, PaymentJob, Onward
<1>2. l \in {"unpaying", "unpaid"} => ReversalJob(x, pt)
  BY DEF PayJob, ReversalJob, Onward
<1>3. l = "unpaid" => FoundRows(x, bl)
  BY DEF PayJob, FoundRows, Onward
<1>4. l = "spent" => SpentRows(x, bl)
  BY DEF PayJob, SpentRows, Onward
<1> QED
  BY <1>1, <1>2, <1>3, <1>4 DEF PayJob, Onward

PayMoves ==
  /\ PayTables(bills', payments', expenses', bank', journals', balance')
  /\ Onward(bills, payments, expenses, bank, bills', payments', expenses', bank')

LEMMA PayTurn ==
  ASSUME NEW s, NEW w \in s.workers, NEW l, NEW x, PayInv(s), Pay(s)!Turn(w, l, x)
  PROVE  /\ DOMAIN pc' = s.workers /\ DOMAIN job' = s.workers
         /\ pc'[w] = l /\ job'[w] = x
         /\ \A v \in s.workers \ {w} : pc'[v] = pc[v] /\ job'[v] = job[v]
BY DEF Pay!Turn, PayInv

LEMMA PayKept ==
  ASSUME NEW s, NEW w \in s.workers, NEW l, NEW x, PayInv(s), Pay(s)!Turn(w, l, x), PayMoves,
         PayJob(l, x, bills', payments', expenses', bank')
  PROVE  PayInv(s)'
<1>1. ASSUME NEW v \in s.workers
      PROVE  PayJob(pc'[v], job'[v], bills', payments', expenses', bank')
  <2>1. CASE v = w
    BY <2>1, PayTurn
  <2>2. CASE v # w
    <3>1. PayJob(pc'[v], job'[v], bills, payments, expenses, bank)
      BY <2>2, PayTurn DEF PayInv
    <3> QED
      BY <3>1, PayJobOnward DEF PayMoves
  <2> QED
    BY <2>1, <2>2
<1>2. DOMAIN pc' = s.workers /\ DOMAIN job' = s.workers
  BY PayTurn
<1> QED
  BY <1>1, <1>2 DEF PayInv, PayMoves

LEMMA PayOutside ==
  ASSUME NEW s, PayInv(s), UNCHANGED <<pc, job>>, PayMoves
  PROVE  PayInv(s)'
<1>1. ASSUME NEW w \in s.workers PROVE PayJob(pc[w], job[w], bills', payments', expenses', bank')
  <2>1. PayJob(pc[w], job[w], bills, payments, expenses, bank)
    BY DEF PayInv
  <2> QED
    BY <2>1, PayJobOnward DEF PayMoves
<1> QED
  BY <1>1 DEF PayInv, PayMoves

LEMMA PayCommits ==
  ASSUME NEW s, NEW w \in s.workers, PayInv(s), Pay(s)!Done(w), PayMoves
  PROVE  PayInv(s)'
<1>1. Pay(s)!Turn(w, "idle", None)
  BY DEF Pay!Done
<1>2. PayJob("idle", None, bills', payments', expenses', bank')
  BY DEF PayJob, PayLabels
<1> QED
  BY <1>1, <1>2, PayKept

LEMMA PayTurns ==
  ASSUME NEW s, NEW w \in s.workers, NEW l, NEW x, PayInv(s), Pay(s)!Turn(w, l, x),
         UNCHANGED <<bills, payments, expenses, bank, balance, journals>>,
         PayJob(l, x, bills, payments, expenses, bank)
  PROVE  PayInv(s)'
<1>1. PayMoves
  BY DEF PayInv, PayMoves, Onward
<1>2. PayJob(l, x, bills', payments', expenses', bank')
  OBVIOUS
<1> QED
  BY <1>1, <1>2, PayKept

--------------------------------------------------------------------------------
(* Requests that read, or give up.                                         *)

PayScene(s) ==
  /\ s.totals \subseteq Nat \ {0} /\ s.amounts \subseteq Nat \ {0}
  /\ s.banked \subseteq BOOLEAN /\ s.opening \in Int
  /\ \A x \in s.spendings : x.amount \in Nat \ {0} /\ x.bank \in BOOLEAN

LEMMA PayParameters ==
  ASSUME NEW s, Pay(s)!PayablesAssumption
  PROVE  PayScene(s)
BY DEF Pay!PayablesAssumption, PayScene

LEMMA PayAllows ==
  ASSUME NEW s
  PROVE  /\ DOMAIN Pay(s)!BillAllows = BillStates
         /\ \A b \in BillStates : Pay(s)!BillAllows[b] \subseteq BillStates
         /\ DOMAIN Pay(s)!ExpenseAllows = ExpenseStates
BY DEF Pay!BillAllows, BillStates, Pay!ExpenseAllows, ExpenseStates

(* The rows of the bank account are amounts.                               *)
LEMMA BankPriced ==
  ASSUME NEW s, PayInv(s)
  PROVE  Priced(bank)
<1>1. PayTables(bills, payments, expenses, bank, journals, balance)
  BY DEF PayInv
<1>2. IsFiniteSet(DOMAIN bank)
  BY <1>1 DEF PayTables, DrawnRows, Numbered
<1>3. ASSUME NEW r \in DOMAIN bank PROVE bank[r].amount \in Nat \ {0}
  <2>1. DrawnOK(bank[r], payments, expenses)
    BY <1>1 DEF PayTables, DrawnRows
  <2>2. /\ \A p \in DOMAIN payments : payments[p].amount \in Nat \ {0}
        /\ \A e \in DOMAIN expenses : expenses[e].amount \in Nat \ {0}
    BY <1>1 DEF PayTables, PaymentOK, ExpenseOK
  <2> QED
    BY <2>1, <2>2 DEF DrawnOK
<1> QED
  BY <1>2, <1>3 DEF Priced

LEMMA RecalculatedIs ==
  ASSUME NEW s, NEW S
  PROVE  Pay(s)!Recalculated(S) = s.opening - RowSum(bank, S)
BY PaySums DEF Pay!Recalculated, RowSum

LEMMA RecalculatedType ==
  ASSUME NEW s, PayScene(s), PayInv(s), NEW S, S \subseteq DOMAIN bank
  PROVE  Pay(s)!Recalculated(S) \in Int
<1>1. RowSum(bank, S) \in Int
  BY BankPriced, PayTotals
<1> QED
  BY <1>1, RecalculatedIs DEF PayScene

PayReading(s, w) ==
  \/ \E n \in DOMAIN bills, y \in s.asks : Pay(s)!BillRead(w, n, y)
  \/ \E n \in DOMAIN bills, a \in s.amounts, r \in s.references, b \in s.banked :
       Pay(s)!PayRead(w, n, a, r, b)
  \/ Pay(s)!PayBank(w)
  \/ \E p \in DOMAIN payments : Pay(s)!UnpayRead(w, p)
  \/ Pay(s)!UnpayBill(w) \/ Pay(s)!UnpayBank(w)
  \/ \E e \in DOMAIN expenses, y \in {"APPROVED", "REJECTED", "VOID"} : Pay(s)!ExpenseRead(w, e, y)
  \/ Pay(s)!ExpenseBank(w)
  \/ Pay(s)!Abort(w)

LEMMA PayReads ==
  ASSUME NEW s, NEW w \in s.workers, PayScene(s), PayInv(s), PayReading(s, w)
  PROVE  PayInv(s)' /\ UNCHANGED <<bills, payments, expenses, bank, balance, journals>>
<1>0. UNCHANGED <<bills, payments, expenses, bank, balance, journals>>
  BY DEF PayReading, Pay!BillRead, Pay!PayRead, Pay!PayBank, Pay!UnpayRead, Pay!UnpayBill,
         Pay!UnpayBank, Pay!ExpenseRead, Pay!ExpenseBank, Pay!Abort, Pay!rowVars
<1> DEFINE Job(l, x) == PayJob(l, x, bills, payments, expenses, bank)
<1>a. /\ Job(pc[w], job[w])
      /\ PayTables(bills, payments, expenses, bank, journals, balance)
  BY DEF PayInv
<1>b. \A l, x : Pay(s)!Turn(w, l, x) /\ Job(l, x) => PayInv(s)'
  BY <1>0, PayTurns
<1>1. ASSUME NEW n \in DOMAIN bills, NEW y, Pay(s)!BillRead(w, n, y) PROVE PayInv(s)'
  <2>1. y \in BillStates
    BY <1>1, <1>a, PayAllows DEF Pay!BillRead, Pay!MayMove, PayTables, BillOK
  <2> DEFINE x == [bill |-> n, status |-> y]
  <2>2. Job("deciding", x)
    BY <2>1 DEF PayJob, PayLabels
  <2>3. Pay(s)!Turn(w, "deciding", x)
    BY <1>1 DEF Pay!BillRead
  <2> QED
    BY <2>2, <2>3, <1>b
<1>2. ASSUME NEW n \in DOMAIN bills, NEW a \in s.amounts, NEW r, NEW b \in s.banked,
             Pay(s)!PayRead(w, n, a, r, b)
      PROVE  PayInv(s)'
  <2> DEFINE x == [bill |-> n, amount |-> a, ref |-> r, bank |-> b, seen |-> bills[n],
                   balance |-> None]
  <2>1. a \in Nat \ {0} /\ b \in BOOLEAN /\ bills[n].paid \in Int
    BY <1>a DEF PayScene, PayTables, BillOK
  <2>2. PaymentJob(x, bills)
    BY <2>1 DEF PaymentJob
  <2>3. CASE b
    <3>1. Pay(s)!Turn(w, "paying", x)
      BY <1>2, <2>3 DEF Pay!PayRead
    <3>2. Job("paying", x)
      BY <2>2, <2>3 DEF PayJob, PayLabels
    <3> QED
      BY <3>1, <3>2, <1>b
  <2>4. CASE ~b
    <3>1. Pay(s)!Turn(w, "paid", x)
      BY <1>2, <2>4 DEF Pay!PayRead
    <3>2. Job("paid", x)
      BY <2>2, <2>4 DEF PayJob, PayLabels
    <3> QED
      BY <3>1, <3>2, <1>b
  <2> QED
    BY <2>1, <2>3, <2>4
<1>3. ASSUME Pay(s)!PayBank(w) PROVE PayInv(s)'
  <2>1. PICK j : j = job[w]
    OBVIOUS
  <2>2. PaymentJob(j, bills)
    BY <1>3, <1>a, <2>1 DEF Pay!PayBank, Pay!At, PayJob
  <2>3. PICK v : v = Pay(s)!Recalculated(Pay(s)!Outgoing) - j.amount
    OBVIOUS
  <2>4. v \in Int
    <3>1. Pay(s)!Outgoing \subseteq DOMAIN bank
      BY DEF Pay!Outgoing
    <3> QED
      BY <2>2, <2>3, <3>1, RecalculatedType DEF PaymentJob
  <2>5. PICK x : x = [j EXCEPT !.balance = v]
    OBVIOUS
  <2>6. Pay(s)!Turn(w, "paid", x)
    BY <1>3, <2>1, <2>3, <2>5 DEF Pay!PayBank
  <2>7. x = [bill |-> j.bill, amount |-> j.amount, ref |-> j.ref, bank |-> j.bank,
             seen |-> j.seen, balance |-> v]
    BY <2>2, <2>5 DEF PaymentJob
  <2>8. Job("paid", x)
    BY <2>2, <2>4, <2>7 DEF PayJob, PayLabels, PaymentJob
  <2> QED
    BY <2>6, <2>8, <1>b
<1>4. ASSUME NEW p \in DOMAIN payments, Pay(s)!UnpayRead(w, p) PROVE PayInv(s)'
  <2> DEFINE x == [payment |-> p]
  <2>1. Job("reversing", x)
    BY DEF PayJob, PayLabels
  <2>2. Pay(s)!Turn(w, "reversing", x)
    BY <1>4 DEF Pay!UnpayRead
  <2> QED
    BY <2>1, <2>2, <1>b
<1>5. ASSUME Pay(s)!UnpayBill(w) PROVE PayInv(s)'
  <2>1. PICK p : p = job[w].payment
    OBVIOUS
  <2>2. p \in DOMAIN payments
    BY <1>5, <1>a, <2>1 DEF Pay!UnpayBill, Pay!At, PayJob
  <2>3. PICK d, v : /\ d = Pay(s)!Due(<<"PAYMENT", p>>)
                    /\ v = bills[payments[p].bill].paid - payments[p].amount
    OBVIOUS
  <2>4. d <=> Stands(journals, PaymentNo(p))
    <3>1. Followed(Dues(bills), payments, expenses, journals)
      BY <1>a DEF PayTables, OwingBooks
    <3>2. Reversible(journals, PaymentNo(p), UndoNo(PaymentNo(p))) <=> Stands(journals, PaymentNo(p))
      BY <3>1, UndoneIfDue
    <3>3. d <=> Reversible(journals, PaymentNo(p), UndoNo(PaymentNo(p)))
      BY <2>3, PayBooks DEF Pay!Due, PaymentNo, UndoNo
    <3> QED
      BY <3>2, <3>3
  <2>5. d \in BOOLEAN
    BY Zenon, <2>3 DEF Pay!Due, Pay!Reversible
  <2>6. d \/ payments[p].reversed
    BY <2>2, <2>4, <1>a DEF PayTables, OwingBooks, PaymentsIn
  <2>7. v \in Int /\ balance \in Int
    BY <1>a, <2>2, <2>3 DEF PayTables, PaymentOK, BillOK
  <2>8. PICK x : x = [payment |-> p, due |-> d, paid |-> v, rows |-> {}, balance |-> balance]
    OBVIOUS
  <2>9. Pay(s)!Turn(w, "unpaying", x)
    BY <1>5, <2>1, <2>3, <2>8 DEF Pay!UnpayBill
  <2>10. ReversalJob(x, payments)
    BY <2>5, <2>6, <2>7, <2>8 DEF ReversalJob
  <2>11. Job("unpaying", x)
    BY <2>2, <2>8, <2>10 DEF PayJob, PayLabels
  <2> QED
    BY <2>9, <2>11, <1>b
<1>6. ASSUME Pay(s)!UnpayBank(w) PROVE PayInv(s)'
  <2>1. PICK j : j = job[w]
    OBVIOUS
  <2>2. j.payment \in DOMAIN payments /\ ReversalJob(j, payments)
    BY <1>6, <1>a, <2>1 DEF Pay!UnpayBank, Pay!At, PayJob
  <2>3. PICK R, v : /\ R = Pay(s)!RowsOf("PAYMENT", j.payment)
                    /\ v = Pay(s)!Recalculated(Pay(s)!Outgoing \ R)
    OBVIOUS
  <2>4. R = RowsFor(bank, "PAYMENT", j.payment) /\ R \subseteq DOMAIN bank
    BY <2>3 DEF Pay!RowsOf, RowsFor
  <2>5. v \in Int
    <3>1. Pay(s)!Outgoing \ R \subseteq DOMAIN bank
      BY DEF Pay!Outgoing
    <3> QED
      BY <2>3, <3>1, RecalculatedType
  <2>6. PICK x : x = [j EXCEPT !.rows = R, !.balance = v]
    OBVIOUS
  <2>7. Pay(s)!Turn(w, "unpaid", x)
    BY <1>6, <2>1, <2>3, <2>6 DEF Pay!UnpayBank
  <2>8. x = [payment |-> j.payment, due |-> j.due, paid |-> j.paid, rows |-> R, balance |-> v]
    BY <2>2, <2>6 DEF ReversalJob
  <2>9. ReversalJob(x, payments)
    BY <2>2, <2>5, <2>8 DEF ReversalJob
  <2>10. FoundRows(x, bank)
    BY <2>4, <2>8 DEF FoundRows, RowsFor
  <2>11. Job("unpaid", x)
    BY <2>2, <2>8, <2>9, <2>10 DEF PayJob, PayLabels
  <2> QED
    BY <2>7, <2>11, <1>b
<1>7. ASSUME NEW e \in DOMAIN expenses, NEW y \in {"APPROVED", "REJECTED", "VOID"},
             Pay(s)!ExpenseRead(w, e, y)
      PROVE  PayInv(s)'
  <2> DEFINE x == [expense |-> e, status |-> y]
  <2>1. Job("spending", x)
    BY DEF PayJob, PayLabels
  <2>2. Pay(s)!Turn(w, "spending", x)
    BY <1>7 DEF Pay!ExpenseRead
  <2> QED
    BY <2>1, <2>2, <1>b
<1>8. ASSUME Pay(s)!ExpenseBank(w) PROVE PayInv(s)'
  <2>1. PICK j : j = job[w]
    OBVIOUS
  <2>2. j.expense \in DOMAIN expenses /\ j.status \in {"APPROVED", "REJECTED", "VOID"}
    BY <1>8, <1>a, <2>1 DEF Pay!ExpenseBank, Pay!At, PayJob
  <2>3. PICK R : R = IF j.status = "VOID" THEN Pay(s)!RowsOf("EXPENSE", j.expense) ELSE {}
    OBVIOUS
  <2>4. PICK a : a = IF Pay(s)!Draws(j) THEN expenses[j.expense].amount ELSE 0
    OBVIOUS
  <2>5. PICK v : v = Pay(s)!Recalculated(Pay(s)!Outgoing \ R) - a
    OBVIOUS
  <2>6. v \in Int
    <3>1. Pay(s)!Outgoing \ R \subseteq DOMAIN bank
      BY DEF Pay!Outgoing
    <3>2. a \in Int
      BY <2>2, <2>4, <1>a DEF PayTables, ExpenseOK
    <3>3. Pay(s)!Recalculated(Pay(s)!Outgoing \ R) \in Int
      BY <3>1, RecalculatedType
    <3> QED
      BY <2>5, <3>2, <3>3
  <2>7. PICK x : x = [expense |-> j.expense, status |-> j.status, rows |-> R,
                      due |-> Pay(s)!Due(<<"EXPENSE", j.expense>>), balance |-> v]
    OBVIOUS
  <2>8. Pay(s)!Turn(w, "spent", x)
    BY <1>8, <2>1, <2>3, <2>4, <2>5, <2>7 DEF Pay!ExpenseBank
  <2>9. SpentRows(x, bank)
    BY <2>3, <2>7 DEF SpentRows, Pay!RowsOf
  <2>10. Job("spent", x)
    BY <2>2, <2>6, <2>7, <2>9 DEF PayJob, PayLabels
  <2> QED
    BY <2>8, <2>10, <1>b
<1>9. ASSUME Pay(s)!Abort(w) PROVE PayInv(s)'
  <2>1. Pay(s)!Turn(w, "idle", None)
    BY <1>9 DEF Pay!Abort, Pay!GiveUp, Pay!Done
  <2>2. Job("idle", None)
    BY DEF PayJob, PayLabels
  <2> QED
    BY <2>1, <2>2, <1>b
<1> HIDE DEF Job
<1> QED
  BY <1>0, <1>1, <1>2, <1>3, <1>4, <1>5, <1>6, <1>7, <1>8, <1>9 DEF PayReading

--------------------------------------------------------------------------------
(* What the commits write, table by table.                                 *)

Restated(bs, bt) ==
  /\ Numbered(bt) /\ DOMAIN bs \subseteq DOMAIN bt
  /\ \A n \in DOMAIN bt : BillOK(bt[n])
  /\ \A n \in DOMAIN bs : bt[n].total = bs[n].total

LEMMA BillsRestated ==
  ASSUME NEW bs, NEW ps, NEW es, NEW bk, NEW js, NEW v, PayTables(bs, ps, es, bk, js, v),
         NEW bt, Restated(bs, bt)
  PROVE  PayTables(bt, ps, es, bk, js, v)
<1>1. OwingBooks(Dues(bs), ps, es, js) /\ Numbered(bs)
  BY DEF PayTables
<1>2. Wider(Dues(bs), Dues(bt)) /\ Priced(Dues(bt)) /\ SpentAs(es, es) /\ Priced(es)
      /\ \A e \in DOMAIN es : es[e].bank \in BOOLEAN
  BY <1>1 DEF Restated, Dues, Wider, Priced, SpentAs, BillOK, Numbered, OwingBooks
<1>3. OwingBooks(Dues(bt), ps, es, js)
  BY <1>1, <1>2, RowsCome
<1>4. \A p \in DOMAIN ps : PaymentOK(ps[p], bt)
  BY DEF PayTables, PaymentOK, Restated
<1> QED
  BY <1>3, <1>4 DEF PayTables, Restated

BillRows(bs) == Numbered(bs) /\ \A n \in DOMAIN bs : BillOK(bs[n])

(* The status of a bill, and what is paid on it, are written.              *)
Decided(bs, bt, n, y, a) ==
  \/ bt = [bs EXCEPT ![n].paid = a, ![n].status = y]
  \/ bt = [bs EXCEPT ![n].status = y] /\ a = bs[n].paid

LEMMA BillWritten ==
  ASSUME NEW bs, BillRows(bs), NEW n, NEW y, NEW a, NEW bt, Decided(bs, bt, n, y, a),
         n \in DOMAIN bs, y \in BillStates, a \in Int
  PROVE  /\ Restated(bs, bt) /\ DOMAIN bt = DOMAIN bs
         /\ bt[n] = [total |-> bs[n].total, status |-> y, paid |-> a]
         /\ \A m \in DOMAIN bs \ {n} : bt[m] = bs[m]
<1>0. Numbered(bs) /\ \A m \in DOMAIN bs : BillOK(bs[m])
  BY DEF BillRows
<1>1. PICK b : b = bs[n]
  OBVIOUS
<1>2. b = [total |-> b.total, status |-> b.status, paid |-> b.paid] /\ BillOK(b)
  BY <1>0, <1>1 DEF BillOK
<1>3. bt[n] = [total |-> b.total, status |-> y, paid |-> a]
  <2>1. CASE bt = [bs EXCEPT ![n].paid = a, ![n].status = y]
    <3>1. bt[n] = [[b EXCEPT !.paid = a] EXCEPT !.status = y]
      BY <1>1, <2>1
    <3> QED
      BY <1>2, <3>1
  <2>2. CASE bt = [bs EXCEPT ![n].status = y] /\ a = bs[n].paid
    <3>1. bt[n] = [b EXCEPT !.status = y] /\ a = b.paid
      BY <1>1, <2>2
    <3> QED
      BY <1>2, <3>1
  <2> QED
    BY <2>1, <2>2 DEF Decided
<1>4. DOMAIN bt = DOMAIN bs /\ \A m \in DOMAIN bs \ {n} : bt[m] = bs[m]
  BY DEF Decided
<1>5. BillOK(bt[n])
  BY <1>2, <1>3 DEF BillOK
<1>6. \A m \in DOMAIN bt : BillOK(bt[m])
  BY <1>0, <1>4, <1>5
<1>7. Numbered(bt)
  BY <1>0, <1>4 DEF Numbered
<1>8. \A m \in DOMAIN bs : bt[m].total = bs[m].total
  BY <1>1, <1>3, <1>4
<1> QED
  BY <1>1, <1>3, <1>4, <1>6, <1>7, <1>8 DEF Restated

RespentAs(es, et) ==
  /\ Numbered(et) /\ DOMAIN es \subseteq DOMAIN et
  /\ \A e \in DOMAIN et : ExpenseOK(et[e])
  /\ \A e \in DOMAIN es : et[e].amount = es[e].amount /\ et[e].bank = es[e].bank

LEMMA ExpensesRestated ==
  ASSUME NEW bs, NEW ps, NEW es, NEW bk, NEW js, NEW v, PayTables(bs, ps, es, bk, js, v),
         NEW et, RespentAs(es, et)
  PROVE  PayTables(bs, ps, et, bk, js, v)
<1>1. OwingBooks(Dues(bs), ps, es, js)
  BY DEF PayTables
<1>2. /\ SpentAs(es, et) /\ Wider(Dues(bs), Dues(bs)) /\ Priced(et) /\ Priced(Dues(bs))
      /\ \A e \in DOMAIN et : et[e].bank \in BOOLEAN
  BY <1>1 DEF RespentAs, SpentAs, Wider, Priced, ExpenseOK, Numbered, OwingBooks
<1>3. OwingBooks(Dues(bs), ps, et, js)
  BY <1>1, <1>2, RowsCome
<1>4. DrawnRows(bk, ps, et)
  BY DEF PayTables, DrawnRows, DrawnOK, RespentAs
<1> QED
  BY <1>3, <1>4 DEF PayTables, RespentAs

(* A row is added to the bank account.                                     *)
LEMMA RowsForMore ==
  ASSUME NEW bk, NEW bl, NEW n, NEW x, Gains(bk, bl, n, x), NEW kind, NEW id
  PROVE  RowsFor(bl, kind, id) =
           IF x.kind = kind /\ x.source = id /\ ~x.reversed
             THEN RowsFor(bk, kind, id) \union {n} ELSE RowsFor(bk, kind, id)
BY DEF Gains, RowsFor

(* Rows R of the bank account are struck.                                  *)
StruckRows(bk, R) == [r \in DOMAIN bk |-> [bk[r] EXCEPT !.reversed = @ \/ r \in R]]

Strikes(bk, R, bl) == bl = StruckRows(bk, R)

LEMMA RowsAreStruck ==
  ASSUME NEW bk, NEW ps, NEW es, NEW R, NEW bl, DrawnRows(bk, ps, es), Strikes(bk, R, bl)
  PROVE  /\ DOMAIN bl = DOMAIN bk
         /\ \A r \in DOMAIN bk :
              /\ bl[r].kind = bk[r].kind /\ bl[r].source = bk[r].source
              /\ bl[r].amount = bk[r].amount
              /\ bl[r].reversed <=> bk[r].reversed \/ r \in R
              /\ DrawnOK(bl[r], ps, es)
         /\ \A kind, id : RowsFor(bl, kind, id) = RowsFor(bk, kind, id) \ R
<1>0. bl = StruckRows(bk, R) /\ \A r \in DOMAIN bk : DrawnOK(bk[r], ps, es)
  BY DEF Strikes, DrawnRows
<1>1. DOMAIN bl = DOMAIN bk
  BY <1>0 DEF StruckRows
<1>2. ASSUME NEW r \in DOMAIN bk
      PROVE  /\ bl[r].kind = bk[r].kind /\ bl[r].source = bk[r].source
             /\ bl[r].amount = bk[r].amount
             /\ bl[r].reversed <=> bk[r].reversed \/ r \in R
             /\ DrawnOK(bl[r], ps, es)
  <2>1. PICK x, y, b : x = bk[r] /\ y = bl[r] /\ b = (x.reversed \/ r \in R)
    OBVIOUS
  <2>2. b \in BOOLEAN
    BY Zenon, <2>1
  <2>3. DrawnOK(x, ps, es)
    BY <1>0, <2>1
  <2>4. y = [x EXCEPT !.reversed = b]
    BY Zenon, <1>0, <2>1 DEF StruckRows
  <2>5. y = [kind |-> x.kind, source |-> x.source, ref |-> x.ref, amount |-> x.amount,
             reversed |-> b]
    BY <2>3, <2>4 DEF DrawnOK
  <2>6. DrawnOK(y, ps, es)
    BY <2>2, <2>3, <2>5 DEF DrawnOK
  <2>7. y.reversed = b
    BY <2>5
  <2>8. y.reversed <=> x.reversed \/ r \in R
    BY Zenon, <2>1, <2>7
  <2>9. y.kind = x.kind /\ y.source = x.source /\ y.amount = x.amount
    BY <2>5
  <2> QED
    BY Zenon, <2>1, <2>6, <2>8, <2>9
<1>3. ASSUME NEW kind, NEW id PROVE RowsFor(bl, kind, id) = RowsFor(bk, kind, id) \ R
  BY <1>1, <1>2 DEF RowsFor
<1> QED
  BY <1>1, <1>2, <1>3

LEMMA DrawnStill ==
  ASSUME NEW r, NEW ps, NEW es, NEW pt, DrawnOK(r, ps, es), DOMAIN ps \subseteq DOMAIN pt,
         \A q \in DOMAIN ps : pt[q].amount = ps[q].amount
  PROVE  DrawnOK(r, pt, es)
BY DEF DrawnOK

(* An expense draws on the account.                                        *)
LEMMA ExpenseDrawn ==
  ASSUME NEW bk, NEW ps, NEW es, DrawnRows(bk, ps, es), NEW bl, Numbered(bl),
         NEW n, NEW y, Gains(bk, bl, n, y), DrawnOK(y, ps, es), y.kind = "EXPENSE"
  PROVE  /\ DrawnRows(bl, ps, es)
         /\ \A q : RowsFor(bl, "PAYMENT", q) = RowsFor(bk, "PAYMENT", q)
<1>1. \A q : RowsFor(bl, "PAYMENT", q) = RowsFor(bk, "PAYMENT", q)
  BY RowsForMore
<1>2. \A r \in DOMAIN bl : DrawnOK(bl[r], ps, es)
  BY DEF DrawnRows, Gains
<1>3. \A q \in DOMAIN ps : OneRow(bl, ps, q)
  BY <1>1 DEF DrawnRows, OneRow
<1> QED
  BY <1>1, <1>2, <1>3 DEF DrawnRows

(* The rows of an expense are struck.                                      *)
LEMMA ExpenseStruck ==
  ASSUME NEW bk, NEW ps, NEW es, DrawnRows(bk, ps, es), NEW R,
         \A r \in R : bk[r].kind = "EXPENSE", NEW bl, Strikes(bk, R, bl)
  PROVE  /\ DrawnRows(bl, ps, es)
         /\ \A q : RowsFor(bl, "PAYMENT", q) = RowsFor(bk, "PAYMENT", q)
         /\ DOMAIN bl = DOMAIN bk
         /\ \A r \in DOMAIN bk : bl[r].kind = bk[r].kind /\ bl[r].source = bk[r].source
<1>0. \A r \in DOMAIN bk : DrawnOK(bk[r], ps, es)
  BY DEF DrawnRows
<1>1. /\ DOMAIN bl = DOMAIN bk
      /\ \A r \in DOMAIN bk : /\ DrawnOK(bl[r], ps, es) /\ bl[r].kind = bk[r].kind
                              /\ bl[r].source = bk[r].source
      /\ \A q : RowsFor(bl, "PAYMENT", q) = RowsFor(bk, "PAYMENT", q) \ R
  BY RowsAreStruck
<1>2. \A q : RowsFor(bl, "PAYMENT", q) = RowsFor(bk, "PAYMENT", q)
  BY <1>1 DEF RowsFor
<1>3. Numbered(bl)
  BY <1>1 DEF DrawnRows, Numbered
<1>4. \A q \in DOMAIN ps : OneRow(bl, ps, q)
  BY <1>2 DEF DrawnRows, OneRow
<1> QED
  BY <1>1, <1>2, <1>3, <1>4 DEF DrawnRows

(* A payment comes, with a row of its own if it names the account.         *)
LinkedRow(p, a) ==
  [kind |-> "PAYMENT", source |-> p, ref |-> p, amount |-> a, reversed |-> FALSE]

PaymentComes(ps, pt, p) ==
  /\ p \notin DOMAIN ps /\ DOMAIN pt = DOMAIN ps \union {p}
  /\ \A q \in DOMAIN ps : pt[q] = ps[q]
  /\ pt[p].reversed = FALSE

RowComes(bk, bl, n, p, pt) ==
  \/ pt[p].bank /\ Gains(bk, bl, n, LinkedRow(p, pt[p].amount)) /\ Numbered(bl)
  \/ ~pt[p].bank /\ bl = bk

LEMMA PaymentDrawn ==
  ASSUME NEW bk, NEW ps, NEW es, DrawnRows(bk, ps, es), NEW p, NEW pt, PaymentComes(ps, pt, p),
         NEW bl, NEW n, RowComes(bk, bl, n, p, pt)
  PROVE  /\ DrawnRows(bl, pt, es)
         /\ \A q \in DOMAIN ps : RowsFor(bl, "PAYMENT", q) = RowsFor(bk, "PAYMENT", q)
<1>0. /\ p \notin DOMAIN ps /\ DOMAIN pt = DOMAIN ps \union {p} /\ pt[p].reversed = FALSE
      /\ \A q \in DOMAIN ps : pt[q] = ps[q]
  BY DEF PaymentComes
<1>1. \A r \in DOMAIN bk : DrawnOK(bk[r], pt, es)
  BY <1>0, DrawnStill DEF DrawnRows
<1>y. PICK y : y = LinkedRow(p, pt[p].amount)
  OBVIOUS
<1>2. DrawnOK(y, pt, es) /\ y.kind = "PAYMENT" /\ y.source = p /\ y.reversed = FALSE
  BY <1>0, <1>y DEF DrawnOK, LinkedRow
<1>3. RowsFor(bk, "PAYMENT", p) = {}
  BY <1>0 DEF DrawnRows, DrawnOK, RowsFor
<1>4. CASE pt[p].bank /\ Gains(bk, bl, n, y) /\ Numbered(bl)
  <2>1. /\ \A q \in DOMAIN ps : RowsFor(bl, "PAYMENT", q) = RowsFor(bk, "PAYMENT", q)
        /\ RowsFor(bl, "PAYMENT", p) = {n}
    BY <1>0, <1>2, <1>3, <1>4, RowsForMore
  <2>2. \A q \in DOMAIN pt : OneRow(bl, pt, q)
    BY <1>0, <1>4, <2>1 DEF DrawnRows, OneRow, Banks
  <2>3. \A r \in DOMAIN bl : DrawnOK(bl[r], pt, es)
    BY <1>1, <1>2, <1>4 DEF Gains
  <2> QED
    BY <1>4, <2>1, <2>2, <2>3 DEF DrawnRows
<1>5. CASE ~pt[p].bank /\ bl = bk
  <2>1. \A q \in DOMAIN pt : OneRow(bl, pt, q)
    BY <1>0, <1>3, <1>5 DEF DrawnRows, OneRow, Banks
  <2> QED
    BY <1>1, <1>5, <2>1 DEF DrawnRows
<1> QED
  BY <1>4, <1>5, <1>y DEF RowComes

(* A payment goes, and every row of it.                                    *)
PaymentGoes(ps, pt, p) ==
  /\ p \in DOMAIN ps /\ DOMAIN pt = DOMAIN ps
  /\ \A q \in DOMAIN ps \ {p} : pt[q] = ps[q]
  /\ pt[p].amount = ps[p].amount /\ pt[p].reversed = TRUE

RowsOfPayment(bk, R, p) ==
  /\ \A r \in R : bk[r].kind = "PAYMENT" /\ bk[r].source = p
  /\ RowsFor(bk, "PAYMENT", p) \subseteq R

LEMMA PaymentStruck ==
  ASSUME NEW bk, NEW ps, NEW es, DrawnRows(bk, ps, es), NEW p, NEW pt, PaymentGoes(ps, pt, p),
         NEW R, RowsOfPayment(bk, R, p), NEW bl, Strikes(bk, R, bl)
  PROVE  /\ DrawnRows(bl, pt, es) /\ DOMAIN bl = DOMAIN bk
         /\ \A q : RowsFor(bl, "PAYMENT", q) \subseteq RowsFor(bk, "PAYMENT", q)
         /\ \A r \in DOMAIN bk : bl[r].kind = bk[r].kind /\ bl[r].source = bk[r].source
<1>0. \A r \in DOMAIN bk : DrawnOK(bk[r], ps, es)
  BY DEF DrawnRows
<1>a. /\ p \in DOMAIN ps /\ DOMAIN pt = DOMAIN ps /\ pt[p].amount = ps[p].amount
      /\ pt[p].reversed = TRUE /\ \A q \in DOMAIN ps \ {p} : pt[q] = ps[q]
  BY DEF PaymentGoes
<1>b. /\ \A r \in R : bk[r].kind = "PAYMENT" /\ bk[r].source = p
      /\ RowsFor(bk, "PAYMENT", p) \subseteq R
  BY DEF RowsOfPayment
<1>1. /\ DOMAIN bl = DOMAIN bk
      /\ \A r \in DOMAIN bk : /\ DrawnOK(bl[r], ps, es) /\ bl[r].kind = bk[r].kind
                              /\ bl[r].source = bk[r].source
      /\ \A q : RowsFor(bl, "PAYMENT", q) = RowsFor(bk, "PAYMENT", q) \ R
  BY RowsAreStruck
<1>2. \A q : q # p => RowsFor(bl, "PAYMENT", q) = RowsFor(bk, "PAYMENT", q)
  BY <1>1, <1>b DEF RowsFor
<1>3. RowsFor(bl, "PAYMENT", p) = {}
  BY <1>1, <1>b
<1>4. Numbered(bl)
  BY <1>1 DEF DrawnRows, Numbered
<1>5. ASSUME NEW q \in DOMAIN pt PROVE OneRow(bl, pt, q)
  <2>1. CASE q = p
    BY <2>1, <1>3, <1>a DEF OneRow, Banks
  <2>2. CASE q # p
    BY <2>2, <1>2, <1>a DEF DrawnRows, OneRow
  <2> QED
    BY <2>1, <2>2
<1>6. \A r \in DOMAIN bl : DrawnOK(bl[r], pt, es)
  BY <1>1, <1>a, DrawnStill
<1> QED
  BY <1>1, <1>4, <1>5, <1>6 DEF DrawnRows

--------------------------------------------------------------------------------
(* Requests that write. *)

LEMMA PayCreateBill ==
  ASSUME NEW s, PayInv(s), NEW a, a \in Nat \ {0}, Pay(s)!CreateBill(a)
  PROVE  PayInv(s)'
<1>1. PICK row : row = [total |-> a, status |-> "DRAFT", paid |-> 0]
  OBVIOUS
<1>2. /\ bills' = Entered(bills, Cardinality(DOMAIN bills) + 1, row)
      /\ UNCHANGED <<payments, expenses, bank, balance, journals, pc, job>>
  <2>1. /\ bills' = Pay(s)!Entered(bills, Pay(s)!Next1(bills), row)
        /\ UNCHANGED <<payments, expenses, bank, balance, journals, pc, job>>
    BY <1>1 DEF Pay!CreateBill, Pay!requestVars
  <2> QED
    BY <2>1, PayCounts, PayBooks
<1>3. PayTables(bills, payments, expenses, bank, journals, balance)
  BY DEF PayInv
<1>4. Numbered(bills) /\ \A m \in DOMAIN bills : BillOK(bills[m])
  BY <1>3 DEF PayTables
<1>5. PICK n : n = Cardinality(DOMAIN bills) + 1
  OBVIOUS
<1>6. /\ n \notin DOMAIN bills /\ Numbered(bills')
      /\ DOMAIN bills' = DOMAIN bills \union {n} /\ bills'[n] = row
      /\ \A m \in DOMAIN bills : bills'[m] = bills[m]
  <2>1. EnteredNext(bills, n, row, bills')
    BY <1>2, <1>5 DEF EnteredNext
  <2>2. Numbered(bills') /\ Gains(bills, bills', n, row)
    BY <1>4, <2>1, NumberEntered
  <2> QED
    BY <2>2 DEF Gains
<1>7. BillOK(row)
  BY <1>1 DEF BillOK, BillStates
<1>8. Restated(bills, bills')
  BY <1>4, <1>6, <1>7 DEF Restated
<1>9. PayTables(bills', payments, expenses, bank, journals, balance)
  BY <1>3, <1>8, BillsRestated
<1>10. PayMoves
  BY <1>2, <1>6, <1>9 DEF PayMoves, Onward
<1> QED
  BY <1>2, <1>10, PayOutside

LEMMA PayMarkOverdue ==
  ASSUME NEW s, PayInv(s), NEW late, Pay(s)!MarkOverdue(late)
  PROVE  PayInv(s)'
<1>1. /\ bills' = [n \in DOMAIN bills |->
                     IF n \in late THEN [bills[n] EXCEPT !.status = "OVERDUE"] ELSE bills[n]]
      /\ UNCHANGED <<payments, expenses, bank, balance, journals, pc, job>>
  BY DEF Pay!MarkOverdue, Pay!requestVars
<1>2. PayTables(bills, payments, expenses, bank, journals, balance)
  BY DEF PayInv
<1>3. DOMAIN bills' = DOMAIN bills
  BY <1>1
<1>4. ASSUME NEW n \in DOMAIN bills
      PROVE  BillOK(bills'[n]) /\ bills'[n].total = bills[n].total
  <2>1. PICK b : b = bills[n]
    OBVIOUS
  <2>2. BillOK(b)
    BY <1>2, <2>1 DEF PayTables
  <2>3. CASE n \in late
    <3>1. bills'[n] = [b EXCEPT !.status = "OVERDUE"]
      BY <1>1, <2>1, <2>3
    <3>2. bills'[n] = [total |-> b.total, status |-> "OVERDUE", paid |-> b.paid]
      BY <2>2, <3>1 DEF BillOK
    <3> QED
      BY <2>1, <2>2, <3>2 DEF BillOK, BillStates
  <2>4. CASE n \notin late
    BY <1>1, <2>1, <2>2, <2>4
  <2> QED
    BY <2>3, <2>4
<1>5. Restated(bills, bills')
  BY <1>2, <1>3, <1>4 DEF Restated, PayTables, Numbered
<1>6. PayTables(bills', payments, expenses, bank, journals, balance)
  BY <1>2, <1>5, BillsRestated
<1>7. PayMoves
  BY <1>1, <1>3, <1>6 DEF PayMoves, Onward
<1> QED
  BY <1>1, <1>7, PayOutside

LEMMA PayBillCommit ==
  ASSUME NEW s, NEW w \in s.workers, PayInv(s), Pay(s)!BillCommit(w)
  PROVE  PayInv(s)'
<1>1. PICK n, y : n = job[w].bill /\ y = job[w].status
  OBVIOUS
<1>2. /\ Pay(s)!At(w, "deciding") /\ Pay(s)!Done(w)
      /\ bills' = [bills EXCEPT ![n].status = y]
      /\ UNCHANGED <<payments, expenses, bank, balance>>
  BY <1>1 DEF Pay!BillCommit
<1>3. /\ PayTables(bills, payments, expenses, bank, journals, balance)
      /\ n \in DOMAIN bills /\ y \in BillStates
  BY <1>1, <1>2 DEF PayInv, PayJob, Pay!At
<1>4. BillRows(bills) /\ bills[n].paid \in Int
  BY <1>3 DEF PayTables, BillOK, BillRows
<1>5. Restated(bills, bills') /\ DOMAIN bills' = DOMAIN bills
  <2>1. PICK a \in Int : a = bills[n].paid
    BY <1>4
  <2>2. Decided(bills, bills', n, y, a) /\ a \in Int /\ n \in DOMAIN bills /\ y \in BillStates
    BY <1>2, <1>3, <1>4, <2>1 DEF Decided
  <2> QED
    BY <1>4, <2>2, BillWritten
<1>6. PICK ds : ds = Dues(bills)
  OBVIOUS
<1>7. n \in DOMAIN ds /\ ds[n].amount = bills[n].total /\ OwingBooks(ds, payments, expenses, journals)
  BY <1>3, <1>6 DEF Dues, PayTables
<1>8. journals' = CASE y = "APPROVED" -> Posted(journals, BillNo(n), Pair("5000", "2000", ds[n].amount))
                    [] y = "VOID" -> Reversed(journals, BillNo(n), UndoNo(BillNo(n)))
                    [] OTHER -> journals
  BY <1>1, <1>7, PayBooks DEF Pay!BillCommit, Pay!Undone, BillNo, UndoNo
<1>9. OwingBooks(ds, payments, expenses, journals')
  <2>1. CASE y = "APPROVED"
    BY <1>7, <1>8, <2>1, BillBooked
  <2>2. CASE y = "VOID"
    <3>1. journals' = Reversed(journals, BillNo(n), UndoNo(BillNo(n)))
      BY <1>8, <2>2
    <3> QED
      BY <1>7, <3>1, BillUnbooked
  <2>3. CASE y \notin {"APPROVED", "VOID"}
    BY <1>7, <1>8, <2>3
  <2> QED
    BY <2>1, <2>2, <2>3
<1>10. PayTables(bills, payments, expenses, bank, journals', balance)
  BY <1>3, <1>6, <1>9 DEF PayTables
<1>11. PayTables(bills', payments, expenses, bank, journals', balance)
  BY <1>5, <1>10, BillsRestated
<1>12. PayMoves
  BY <1>2, <1>5, <1>11 DEF PayMoves, Onward
<1> QED
  BY <1>2, <1>12, PayCommits

(* The new row is the only one that the reference of the payment finds.    *)
LEMMA PayLinked ==
  ASSUME NEW s, NEW bk, NEW ps, NEW es, DrawnRows(bk, ps, es), NEW p, p \notin DOMAIN ps, NEW a,
         NEW n, n = Pay(s)!Next1(bk), NEW bl,
         bl = Pay(s)!Linked(Pay(s)!Entered(bk, n, Pay(s)!BankRow("PAYMENT", None, p, a)), p)
  PROVE  Gains(bk, bl, n, LinkedRow(p, a)) /\ Numbered(bl)
<1>1. PICK x : x = [kind |-> "PAYMENT", source |-> None, ref |-> p, amount |-> a, reversed |-> FALSE]
  OBVIOUS
<1>2. PICK bm : bm = Entered(bk, n, x)
  OBVIOUS
<1>3. n = Cardinality(DOMAIN bk) + 1 /\ Numbered(bk)
  BY PayCounts DEF DrawnRows
<1>4. /\ n \notin DOMAIN bk /\ Numbered(bm)
      /\ DOMAIN bm = DOMAIN bk \union {n} /\ bm[n] = x
      /\ \A m \in DOMAIN bk : bm[m] = bk[m]
  <2>1. EnteredNext(bk, n, x, bm)
    BY <1>2, <1>3 DEF EnteredNext
  <2>2. Numbered(bm) /\ Gains(bk, bm, n, x)
    BY <1>3, <2>1, NumberEntered
  <2> QED
    BY <2>2 DEF Gains
<1>5. bl = Pay(s)!Linked(bm, p)
  <2>1. Pay(s)!BankRow("PAYMENT", None, p, a) = x
    BY <1>1 DEF Pay!BankRow
  <2>2. Pay(s)!Entered(bk, n, x) = bm
    BY <1>2, PayBooks
  <2> QED
    BY <2>1, <2>2
<1>6. bl = [r \in DOMAIN bm |->
              IF bm[r].kind = "PAYMENT" /\ bm[r].source = None /\ bm[r].ref = p
                THEN [bm[r] EXCEPT !.source = p] ELSE bm[r]]
  BY <1>5 DEF Pay!Linked
<1>7. bl[n] = LinkedRow(p, a)
  <2>1. x.kind = "PAYMENT" /\ x.source = None /\ x.ref = p
    BY <1>1
  <2>2. bl[n] = [x EXCEPT !.source = p]
    BY <1>4, <1>6, <2>1
  <2> QED
    BY <1>1, <2>2 DEF LinkedRow
<1>8. ASSUME NEW r \in DOMAIN bk PROVE bl[r] = bk[r]
  <2>1. ~(bk[r].kind = "PAYMENT" /\ bk[r].ref = p)
    BY DEF DrawnRows, DrawnOK
  <2> QED
    BY <1>4, <1>6, <2>1
<1>9. DOMAIN bl = DOMAIN bm
  BY <1>6
<1> QED
  BY <1>4, <1>7, <1>8, <1>9 DEF Gains, Numbered

LEMMA PayPayCommit ==
  ASSUME NEW s, NEW w \in s.workers, PayInv(s), Pay(s)!PayCommit(w)
  PROVE  PayInv(s)'
<1>1. PICK j, p, v : j = job[w] /\ p = j.ref /\ v = j.seen.paid + j.amount
  OBVIOUS
<1>2. /\ Pay(s)!At(w, "paid") /\ Pay(s)!Done(w) /\ p \notin DOMAIN payments
      /\ expenses' = expenses
  BY <1>1 DEF Pay!PayCommit
<1>3. /\ PayTables(bills, payments, expenses, bank, journals, balance)
      /\ PaymentJob(j, bills) /\ (j.bank => j.balance \in Int)
  BY <1>1, <1>2 DEF PayInv, PayJob, Pay!At
<1>4. PICK n, y : n = j.bill /\ y = IF v >= bills[n].total THEN "PAID" ELSE "PARTIALLY_PAID"
  OBVIOUS
<1>5. /\ BillRows(bills) /\ n \in DOMAIN bills /\ y \in BillStates /\ v \in Int
      /\ DrawnRows(bank, payments, expenses)
  BY <1>1, <1>3, <1>4 DEF PayTables, PaymentJob, BillStates, BillRows
<1>6. Decided(bills, bills', n, y, v)
  BY <1>1, <1>4 DEF Decided, Pay!PayCommit
<1>7. Restated(bills, bills') /\ DOMAIN bills' = DOMAIN bills
  BY <1>5, <1>6, BillWritten
<1>8. PICK row : row = [bill |-> n, amount |-> j.amount, bank |-> j.bank, reversed |-> FALSE]
  OBVIOUS
<1>9. payments' = Entered(payments, p, row)
  <2>1. payments' = Pay(s)!Entered(payments, p, row)
    BY <1>1, <1>4, <1>8 DEF Pay!PayCommit
  <2> QED
    BY <2>1, PayBooks
<1>10. /\ DOMAIN payments' = DOMAIN payments \union {p} /\ payments'[p] = row
       /\ \A q \in DOMAIN payments : payments'[q] = payments[q]
  BY <1>2, <1>9 DEF Entered
<1>11. /\ row.amount = j.amount /\ row.bank = j.bank /\ row.reversed = FALSE
       /\ j.amount \in Nat \ {0} /\ j.bank \in BOOLEAN
       /\ PaymentOK(row, bills)
  BY <1>3, <1>4, <1>8 DEF PaymentJob, PaymentOK
<1>12. PICK c, x : c = Pay(s)!Next1(bank) /\ x = LinkedRow(p, j.amount)
  OBVIOUS
<1>13. /\ DrawnRows(bank', payments', expenses)
       /\ \A q \in DOMAIN payments : RowsFor(bank', "PAYMENT", q) = RowsFor(bank, "PAYMENT", q)
       /\ DOMAIN bank \subseteq DOMAIN bank' /\ \A r \in DOMAIN bank : bank'[r] = bank[r]
       /\ balance' \in Int
  <2>1. CASE j.bank
    <3>1. /\ bank' = Pay(s)!Linked(Pay(s)!Entered(bank, c, Pay(s)!BankRow("PAYMENT", None, p, j.amount)), p)
          /\ balance' = j.balance
      BY <1>1, <1>12, <2>1 DEF Pay!PayCommit
    <3>2. Gains(bank, bank', c, x) /\ Numbered(bank')
      BY <1>2, <1>5, <1>12, <3>1, PayLinked
    <3>3. /\ DrawnRows(bank', payments', expenses)
          /\ \A q \in DOMAIN payments : RowsFor(bank', "PAYMENT", q) = RowsFor(bank, "PAYMENT", q)
      <4>1. x = LinkedRow(p, payments'[p].amount) /\ payments'[p].bank = j.bank
        BY <1>10, <1>11, <1>12
      <4>2. RowComes(bank, bank', c, p, payments')
        BY <4>1, <2>1, <3>2 DEF RowComes
      <4>3. PaymentComes(payments, payments', p)
        BY <1>2, <1>10, <1>11 DEF PaymentComes
      <4> QED
        BY <1>5, <4>2, <4>3, PaymentDrawn
    <3> QED
      BY <1>3, <2>1, <3>1, <3>2, <3>3 DEF Gains
  <2>2. CASE ~j.bank
    <3>1. bank' = bank /\ balance' = balance
      BY <1>1, <2>2 DEF Pay!PayCommit
    <3>2. DrawnRows(bank', payments', expenses)
      <4>1. x = LinkedRow(p, payments'[p].amount) /\ payments'[p].bank = j.bank
        BY <1>10, <1>11, <1>12
      <4>2. RowComes(bank, bank', c, p, payments')
        BY <4>1, <2>2, <3>1 DEF RowComes
      <4>3. PaymentComes(payments, payments', p)
        BY <1>2, <1>10, <1>11 DEF PaymentComes
      <4> QED
        BY <1>5, <4>2, <4>3, PaymentDrawn
    <3> QED
      BY <1>3, <3>1, <3>2 DEF PayTables
  <2> QED
    BY <1>11, <2>1, <2>2
<1>14. PICK ds : ds = Dues(bills)
  OBVIOUS
<1>15. OwingBooks(ds, payments, expenses, journals)
  BY <1>3, <1>14 DEF PayTables
<1>16. journals' = Posted(journals, PaymentNo(p), Pair("2000", "1000", payments'[p].amount))
  <2>1. journals' = Pay(s)!Posted(journals, <<"PAYMENT", p>>, Pay(s)!Pair("2000", "1000", j.amount))
    BY <1>1 DEF Pay!PayCommit
  <2> QED
    BY <1>10, <1>11, <2>1, PayBooks DEF PaymentNo
<1>17. OwingBooks(ds, payments', expenses, journals')
  BY <1>2, <1>10, <1>11, <1>15, <1>16, PaymentBooked
<1>18. PayTables(bills, payments', expenses, bank', journals', balance')
  BY <1>3, <1>10, <1>11, <1>13, <1>14, <1>17 DEF PayTables
<1>19. PayTables(bills', payments', expenses, bank', journals', balance')
  BY <1>7, <1>18, BillsRestated
<1>20. PayMoves
  BY <1>2, <1>7, <1>10, <1>13, <1>19 DEF PayMoves, Onward
<1> QED
  BY <1>2, <1>20, PayCommits

LEMMA PayUnpayCommit ==
  ASSUME NEW s, NEW w \in s.workers, PayInv(s), Pay(s)!UnpayCommit(w)
  PROVE  PayInv(s)'
<1>1. PICK j, p, v : j = job[w] /\ p = j.payment /\ v = j.paid
  OBVIOUS
<1>2. /\ Pay(s)!At(w, "unpaid") /\ Pay(s)!Done(w) /\ expenses' = expenses
  BY DEF Pay!UnpayCommit
<1>3. /\ PayTables(bills, payments, expenses, bank, journals, balance)
      /\ p \in DOMAIN payments /\ ReversalJob(j, payments) /\ FoundRows(j, bank)
  BY <1>1, <1>2 DEF PayInv, PayJob, Pay!At
<1>4. PICK n, y : n = payments[p].bill /\ y = IF v > 0 THEN "PARTIALLY_PAID" ELSE "APPROVED"
  OBVIOUS
<1>5. /\ BillRows(bills) /\ n \in DOMAIN bills /\ y \in BillStates /\ v \in Int
      /\ DrawnRows(bank, payments, expenses)
  BY <1>1, <1>3, <1>4 DEF PayTables, ReversalJob, PaymentOK, BillStates, BillRows
<1>6. Decided(bills, bills', n, y, v)
  BY <1>1, <1>4 DEF Decided, Pay!UnpayCommit
<1>7. Restated(bills, bills') /\ DOMAIN bills' = DOMAIN bills
  BY <1>5, <1>6, BillWritten
<1>8. payments' = [payments EXCEPT ![p].reversed = TRUE]
  BY <1>1 DEF Pay!UnpayCommit
<1>9. /\ DOMAIN payments' = DOMAIN payments
      /\ \A q \in DOMAIN payments \ {p} : payments'[q] = payments[q]
      /\ payments'[p] = [bill |-> n, amount |-> payments[p].amount, bank |-> payments[p].bank,
                         reversed |-> TRUE]
  <2>1. PICK o : o = payments[p]
    OBVIOUS
  <2>2. o = [bill |-> o.bill, amount |-> o.amount, bank |-> o.bank, reversed |-> o.reversed]
    BY <1>3, <2>1 DEF PayTables, PaymentOK
  <2>3. payments'[p] = [o EXCEPT !.reversed = TRUE]
    BY <1>3, <1>8, <2>1
  <2>4. payments'[p] = [bill |-> o.bill, amount |-> o.amount, bank |-> o.bank, reversed |-> TRUE]
    BY <2>2, <2>3
  <2>5. /\ DOMAIN payments' = DOMAIN payments
        /\ \A q \in DOMAIN payments \ {p} : payments'[q] = payments[q]
    BY <1>8
  <2> QED
    BY <1>4, <2>1, <2>4, <2>5
<1>10. /\ payments'[p].amount = payments[p].amount /\ payments'[p].reversed = TRUE
       /\ payments'[p].bill = payments[p].bill /\ PaymentOK(payments'[p], bills)
  BY <1>3, <1>4, <1>9 DEF PayTables, PaymentOK
<1>11. bank' = StruckRows(bank, j.rows) /\ balance' \in Int
  <2>1. bank' = Pay(s)!Struck(j.rows) /\ balance' = IF j.rows = {} THEN balance ELSE j.balance
    BY <1>1 DEF Pay!UnpayCommit
  <2>2. bank' = StruckRows(bank, j.rows)
    BY Zenon, <2>1 DEF Pay!Struck, StruckRows
  <2> QED
    BY <1>3, <2>1, <2>2 DEF PayTables, ReversalJob
<1>12. /\ DrawnRows(bank', payments', expenses) /\ DOMAIN bank' = DOMAIN bank
       /\ \A q : RowsFor(bank', "PAYMENT", q) \subseteq RowsFor(bank, "PAYMENT", q)
       /\ \A r \in DOMAIN bank : bank'[r].kind = bank[r].kind /\ bank'[r].source = bank[r].source
  <2>1. /\ \A r \in j.rows : bank[r].kind = "PAYMENT" /\ bank[r].source = p
        /\ RowsFor(bank, "PAYMENT", p) \subseteq j.rows
    BY <1>1, <1>3 DEF FoundRows
  <2>2. PICK R : R = j.rows
    OBVIOUS
  <2>3. RowsOfPayment(bank, R, p) /\ Strikes(bank, R, bank')
    BY <1>11, <2>1, <2>2 DEF RowsOfPayment, Strikes
  <2>4. PaymentGoes(payments, payments', p)
    BY <1>3, <1>9, <1>10 DEF PaymentGoes
  <2> QED
    BY <1>5, <2>3, <2>4, PaymentStruck
<1>13. PICK ds : ds = Dues(bills)
  OBVIOUS
<1>14. OwingBooks(ds, payments, expenses, journals)
  BY <1>3, <1>13 DEF PayTables
<1>15. journals' = Reversed(journals, PaymentNo(p), UndoNo(PaymentNo(p)))
  BY <1>1, PayBooks DEF Pay!UnpayCommit, Pay!Undone, PaymentNo, UndoNo
<1>16. /\ \A q \in DOMAIN payments : payments'[q].amount = payments[q].amount
       /\ \A q \in DOMAIN payments : payments'[q].reversed = (payments[q].reversed \/ q = p)
  <2>1. \A q \in DOMAIN payments : payments[q].reversed \in BOOLEAN
    BY <1>14 DEF OwingBooks
  <2> QED
    BY <1>9, <1>10, <2>1
<1>17. OwingBooks(ds, payments', expenses, journals')
  BY ONLY <1>3, <1>9, <1>14, <1>15, <1>16, PaymentUnbooked
<1>18. PayTables(bills, payments', expenses, bank', journals', balance')
  BY <1>3, <1>9, <1>10, <1>11, <1>12, <1>13, <1>17 DEF PayTables
<1>19. PayTables(bills', payments', expenses, bank', journals', balance')
  BY <1>7, <1>18, BillsRestated
<1>20. PayMoves
  BY <1>2, <1>7, <1>9, <1>10, <1>12, <1>19 DEF PayMoves, Onward
<1> QED
  BY <1>2, <1>20, PayCommits

LEMMA PayCreateExpense ==
  ASSUME NEW s, PayInv(s), NEW a, a.amount \in Nat \ {0}, a.bank \in BOOLEAN,
         Pay(s)!CreateExpense(a)
  PROVE  PayInv(s)'
<1>1. PICK row : row = [amount |-> a.amount, bank |-> a.bank, status |-> "PENDING"]
  OBVIOUS
<1>2. /\ expenses' = Entered(expenses, Cardinality(DOMAIN expenses) + 1, row)
      /\ UNCHANGED <<bills, payments, bank, balance, journals, pc, job>>
  <2>1. /\ expenses' = Pay(s)!Entered(expenses, Pay(s)!Next1(expenses), row)
        /\ UNCHANGED <<bills, payments, bank, balance, journals, pc, job>>
    BY <1>1 DEF Pay!CreateExpense, Pay!requestVars
  <2> QED
    BY <2>1, PayCounts, PayBooks
<1>3. PayTables(bills, payments, expenses, bank, journals, balance)
  BY DEF PayInv
<1>4. Numbered(expenses) /\ \A m \in DOMAIN expenses : ExpenseOK(expenses[m])
  BY <1>3 DEF PayTables
<1>5. PICK n : n = Cardinality(DOMAIN expenses) + 1
  OBVIOUS
<1>6. Numbered(expenses') /\ Gains(expenses, expenses', n, row)
  <2>1. EnteredNext(expenses, n, row, expenses')
    BY <1>2, <1>5 DEF EnteredNext
  <2> QED
    BY <1>4, <2>1, NumberEntered
<1>7. ExpenseOK(row)
  BY <1>1 DEF ExpenseOK, ExpenseStates
<1>8. RespentAs(expenses, expenses')
  BY <1>4, <1>6, <1>7 DEF RespentAs, Gains
<1>9. PayTables(bills, payments, expenses', bank, journals, balance)
  BY <1>3, <1>8, ExpensesRestated
<1>10. PayMoves
  BY <1>2, <1>6, <1>9 DEF PayMoves, Onward, Gains
<1> QED
  BY <1>2, <1>10, PayOutside

LEMMA PayExpenseCommit ==
  ASSUME NEW s, NEW w \in s.workers, PayInv(s), Pay(s)!ExpenseCommit(w)
  PROVE  PayInv(s)'
<1>1. PICK j, e, x : j = job[w] /\ e = j.expense /\ x = expenses[e]
  OBVIOUS
<1>2. /\ Pay(s)!At(w, "spent") /\ Pay(s)!Done(w)
      /\ expenses' = [expenses EXCEPT ![e].status = j.status]
      /\ UNCHANGED <<bills, payments>>
  BY <1>1 DEF Pay!ExpenseCommit
<1>3. /\ PayTables(bills, payments, expenses, bank, journals, balance)
      /\ e \in DOMAIN expenses /\ j.status \in {"APPROVED", "REJECTED", "VOID"}
      /\ SpentRows(j, bank) /\ j.balance \in Int
  BY <1>1, <1>2 DEF PayInv, PayJob, Pay!At
<1>4. /\ ExpenseOK(x) /\ DrawnRows(bank, payments, expenses) /\ balance \in Int
      /\ OwingBooks(Dues(bills), payments, expenses, journals)
  BY <1>1, <1>3 DEF PayTables
<1>5. /\ DOMAIN expenses' = DOMAIN expenses
      /\ \A f \in DOMAIN expenses \ {e} : expenses'[f] = expenses[f]
      /\ expenses'[e] = [amount |-> x.amount, bank |-> x.bank, status |-> j.status]
  <2>1. expenses'[e] = [x EXCEPT !.status = j.status]
    BY <1>1, <1>2, <1>3
  <2>2. x = [amount |-> x.amount, bank |-> x.bank, status |-> x.status]
    BY <1>4 DEF ExpenseOK
  <2>3. expenses'[e] = [amount |-> x.amount, bank |-> x.bank, status |-> j.status]
    BY <2>1, <2>2
  <2> QED
    BY <1>2, <2>3
<1>6. RespentAs(expenses, expenses')
  <2>1. ExpenseOK(expenses'[e])
    BY <1>3, <1>4, <1>5 DEF ExpenseOK, ExpenseStates
  <2>2. Numbered(expenses')
    BY <1>3, <1>5 DEF PayTables, Numbered
  <2> QED
    BY <1>1, <1>3, <1>5, <2>1, <2>2 DEF RespentAs, PayTables
<1>7. /\ DrawnRows(bank', payments, expenses)
      /\ \A q : RowsFor(bank', "PAYMENT", q) = RowsFor(bank, "PAYMENT", q)
      /\ DOMAIN bank \subseteq DOMAIN bank'
      /\ \A r \in DOMAIN bank : bank'[r].kind = bank[r].kind /\ bank'[r].source = bank[r].source
  <2>1. CASE Pay(s)!Draws(j)
    <3>1. PICK c, y : /\ c = Cardinality(DOMAIN bank) + 1
                      /\ y = [kind |-> "EXPENSE", source |-> e, ref |-> None, amount |-> x.amount,
                              reversed |-> FALSE]
      OBVIOUS
    <3>2. bank' = Entered(bank, c, y)
      <4>1. bank' = Pay(s)!Entered(bank, Pay(s)!Next1(bank), y)
        BY <1>1, <2>1, <3>1 DEF Pay!ExpenseCommit, Pay!BankRow
      <4> QED
        BY <3>1, <4>1, PayCounts, PayBooks
    <3>3. Numbered(bank') /\ Gains(bank, bank', c, y)
      <4>1. EnteredNext(bank, c, y, bank') /\ Numbered(bank)
        BY <1>4, <3>1, <3>2 DEF EnteredNext, DrawnRows
      <4> QED
        BY <4>1, NumberEntered
    <3>4. DrawnOK(y, payments, expenses) /\ y.kind = "EXPENSE"
      BY <1>1, <1>3, <3>1 DEF DrawnOK
    <3> QED
      BY <1>4, <3>3, <3>4, ExpenseDrawn DEF Gains
  <2>2. CASE ~Pay(s)!Draws(j)
    <3>1. bank' = Pay(s)!Struck(j.rows)
      BY <1>1, <2>2 DEF Pay!ExpenseCommit
    <3>2. PICK R : R = j.rows
      OBVIOUS
    <3>3. Strikes(bank, R, bank')
      BY Zenon, <3>1, <3>2 DEF Pay!Struck, StruckRows, Strikes
    <3>4. \A r \in R : bank[r].kind = "EXPENSE"
      BY <1>3, <3>2 DEF SpentRows
    <3> QED
      BY <1>4, <3>3, <3>4, ExpenseStruck
  <2> QED
    BY <2>1, <2>2
<1>8. balance' \in Int
  BY <1>1, <1>3, <1>4 DEF Pay!ExpenseCommit
<1>9. PICK ds : ds = Dues(bills)
  OBVIOUS
<1>10. OwingBooks(ds, payments, expenses, journals')
  <2>1. CASE j.status = "APPROVED"
    <3>1. journals' = Posted(journals, ExpenseNo(e), Pair("5000", CreditOf(expenses[e]), expenses[e].amount))
      BY <1>1, <2>1, PayBooks DEF Pay!ExpenseCommit, ExpenseNo, CreditOf
    <3> QED
      BY <1>3, <1>4, <1>9, <3>1, ExpenseBooked
  <2>2. CASE j.status = "VOID"
    <3>1. journals' = Reversed(journals, ExpenseNo(e), UndoNo(ExpenseNo(e)))
      BY <1>1, <2>2, PayBooks DEF Pay!ExpenseCommit, Pay!Undone, ExpenseNo, UndoNo
    <3> QED
      BY <1>3, <1>4, <1>9, <3>1, ExpenseUnbooked
  <2>3. CASE j.status = "REJECTED"
    <3>1. journals' = journals
      BY <1>1, <2>3 DEF Pay!ExpenseCommit
    <3> QED
      BY <1>4, <1>9, <3>1
  <2> QED
    BY <1>3, <2>1, <2>2, <2>3
<1>11. PayTables(bills, payments, expenses, bank', journals', balance')
  BY <1>3, <1>7, <1>8, <1>9, <1>10 DEF PayTables
<1>12. PayTables(bills, payments, expenses', bank', journals', balance')
  BY <1>6, <1>11, ExpensesRestated
<1>13. PayMoves
  BY <1>2, <1>5, <1>7, <1>12 DEF PayMoves, Onward
<1> QED
  BY <1>2, <1>13, PayCommits

LEMMA PayStep ==
  ASSUME NEW s, PayScene(s), PayInv(s), Pay(s)!Next
  PROVE  PayInv(s)'
<1>1. ASSUME NEW w \in s.workers,
             Pay(s)!Billing(w) \/ Pay(s)!Paying(w) \/ Pay(s)!Spending(w) \/ Pay(s)!Abort(w)
      PROVE  PayInv(s)'
  <2>1. \/ PayReading(s, w)
        \/ Pay(s)!BillCommit(w) \/ Pay(s)!PayCommit(w) \/ Pay(s)!UnpayCommit(w)
        \/ Pay(s)!ExpenseCommit(w)
    BY <1>1 DEF Pay!Billing, Pay!Paying, Pay!Spending, PayReading
  <2> QED
    BY <2>1, PayReads, PayBillCommit, PayPayCommit, PayUnpayCommit, PayExpenseCommit
<1>2. CASE Pay(s)!Arriving
  <2>1. ASSUME NEW a \in s.totals, Pay(s)!CreateBill(a) PROVE PayInv(s)'
    BY <2>1, PayCreateBill DEF PayScene
  <2>2. ASSUME NEW late, Pay(s)!MarkOverdue(late) PROVE PayInv(s)'
    BY <2>2, PayMarkOverdue
  <2>3. ASSUME NEW a \in s.spendings, Pay(s)!CreateExpense(a) PROVE PayInv(s)'
    BY <2>3, PayCreateExpense DEF PayScene
  <2> QED
    BY <1>2, <2>1, <2>2, <2>3 DEF Pay!Arriving
<1> QED
  BY <1>1, <1>2 DEF Pay!Next

LEMMA PayStill ==
  ASSUME NEW s, PayInv(s),
         UNCHANGED <<bills, payments, expenses, bank, balance, journals, pc, job>>
  PROVE  PayInv(s)'
BY DEF PayInv

LEMMA RowsNone ==
  ASSUME NEW t
  PROVE  RowSum(t, {}) = 0
<1> DEFINE f == [r \in {} |-> t[r].amount]
<1>1. DOMAIN f = {} /\ IsFiniteSet(DOMAIN f)
  BY FS_EmptySet
<1> HIDE DEF f
<1>2. SumFunction(f) = 0
  BY <1>1, TotalType
<1> QED
  BY <1>2 DEF RowSum, f

LEMMA PayStart ==
  ASSUME NEW s, PayScene(s), Pay(s)!Init
  PROVE  PayInv(s)
<1>1. PICK t : t = Pay(s)!EmptyTable
  OBVIOUS
<1>2. DOMAIN t = {}
  BY <1>1 DEF Pay!EmptyTable
<1>3. /\ bills = t /\ payments = t /\ expenses = t /\ bank = t /\ journals = t
      /\ balance = s.opening
      /\ pc = [w \in s.workers |-> "idle"] /\ job = [w \in s.workers |-> None]
  BY <1>1 DEF Pay!Init, Pay!NoRequests
<1>4. Numbered(t) /\ IsFiniteSet({})
  BY <1>2, FS_EmptySet DEF Numbered
<1>5. DrawnRows(t, t, t)
  BY <1>2, <1>4 DEF DrawnRows
<1>6. OwingBooks(Dues(t), t, t, t)
  <2>1. BooksFine(t)
    BY <1>2, <1>4 DEF BooksFine
  <2>2. PICK d : d = Dues(t)
    OBVIOUS
  <2>3. DOMAIN d = {}
    BY <1>2, <2>2 DEF Dues
  <2>4. Followed(d, t, t, t) /\ PaymentsIn(t, t) /\ Priced(d) /\ Priced(t)
    BY <1>2, <1>4, <2>3 DEF Followed, PaymentsIn, Priced
  <2>5. StandingIn(t) = {} /\ BillsIn(d, t) = {} /\ OwedIn(t, t) = {} /\ DrawnIn(t, t) = {}
    BY <1>2, <2>3 DEF StandingIn, BillsIn, OwedIn, DrawnIn
  <2>6. RowSum(t, {}) = 0 /\ RowSum(d, {}) = 0
    BY RowsNone
  <2>7. \A a : Balance(t, a) = 0
    BY <1>2, BooksEmpty
  <2> QED
    BY <1>2, <2>1, <2>2, <2>4, <2>5, <2>6, <2>7 DEF OwingBooks
<1>7. PayTables(t, t, t, t, t, balance)
  BY <1>2, <1>3, <1>4, <1>5, <1>6 DEF PayTables, PayScene
<1>8. ASSUME NEW w \in s.workers PROVE PayJob(pc[w], job[w], t, t, t, t)
  <2>1. PayJob("idle", None, t, t, t, t)
    BY DEF PayJob, PayLabels
  <2> QED
    BY <1>3, <2>1
<1> QED
  BY <1>3, <1>7, <1>8 DEF PayInv

--------------------------------------------------------------------------------
(* What the invariant means.                                               *)

LEMMA PayTypes ==
  ASSUME NEW s, PayInv(s)
  PROVE  Pay(s)!TypeOK
<1>1. PayTables(bills, payments, expenses, bank, journals, balance)
  BY DEF PayInv
<1>2. \A n \in DOMAIN bills : bills[n].status \in DOMAIN Pay(s)!BillAllows /\ bills[n].paid \in Int
  BY <1>1, PayAllows DEF PayTables, BillOK
<1>3. \A p \in DOMAIN payments : payments[p].bill \in DOMAIN bills /\ payments[p].amount > 0
  BY <1>1 DEF PayTables, PaymentOK
<1>4. \A e \in DOMAIN expenses : expenses[e].status \in DOMAIN Pay(s)!ExpenseAllows
  BY <1>1, PayAllows DEF PayTables, ExpenseOK
<1>5. \A r \in DOMAIN bank : bank[r].source \in DOMAIN payments \union DOMAIN expenses
  BY <1>1 DEF PayTables, DrawnRows, DrawnOK
<1>6. balance \in Int
  BY <1>1 DEF PayTables
<1> QED
  BY <1>2, <1>3, <1>4, <1>5, <1>6 DEF Pay!TypeOK

LEMMA PaySets ==
  ASSUME NEW s
  PROVE  /\ Pay(s)!Standing = StandingIn(payments)
         /\ Pay(s)!PostedBills = BillsIn(Dues(bills), journals)
         /\ Pay(s)!Owed = OwedIn(expenses, journals)
         /\ \A n : Pay(s)!IsPosted(n) <=> Stands(journals, n)
<1>1. \A n : Pay(s)!IsPosted(n) <=> Stands(journals, n)
  BY DEF Pay!IsPosted, Stands
<1>2. Pay(s)!Standing = StandingIn(payments)
  BY DEF Pay!Standing, StandingIn
<1>3. Pay(s)!PostedBills = BillsIn(Dues(bills), journals)
  <2>1. DOMAIN Dues(bills) = DOMAIN bills
    BY DEF Dues
  <2> QED
    BY <1>1, <2>1 DEF Pay!PostedBills, BillsIn, BillNo
<1>4. Pay(s)!Owed = OwedIn(expenses, journals)
  BY <1>1 DEF Pay!Owed, OwedIn, ExpenseNo
<1> QED
  BY <1>1, <1>2, <1>3, <1>4

LEMMA PayLedger ==
  ASSUME NEW s, PayInv(s)
  PROVE  Pay(s)!PayablesLedger
<1>1. OwingBooks(Dues(bills), payments, expenses, journals)
  BY DEF PayInv, PayTables
<1>2. Balance(journals, "2000") =
        RowSum(payments, StandingIn(payments)) - RowSum(Dues(bills), BillsIn(Dues(bills), journals))
        - RowSum(expenses, OwedIn(expenses, journals))
  BY <1>1 DEF OwingBooks
<1>3. PICK ds, S : ds = Dues(bills) /\ S = BillsIn(Dues(bills), journals)
  OBVIOUS
<1>4. RowSum(ds, S) = SumFunction([n \in S |-> bills[n].total])
  <2>1. S \subseteq DOMAIN bills
    BY <1>3 DEF BillsIn, Dues
  <2>2. \A n \in DOMAIN bills : ds[n].amount = bills[n].total
    BY <1>3 DEF Dues
  <2>3. [n \in S |-> ds[n].amount] = [n \in S |-> bills[n].total]
    BY <2>1, <2>2
  <2> QED
    BY <2>3 DEF RowSum
<1>5. Pay(s)!PayablesLedger <=>
        Balance(journals, "2000") =
          SumFunction([p \in StandingIn(payments) |-> payments[p].amount])
          - SumFunction([n \in S |-> bills[n].total])
          - SumFunction([e \in OwedIn(expenses, journals) |-> expenses[e].amount])
  BY Zenon, <1>3, PaySets, PaySums, PayBooks DEF Pay!PayablesLedger
<1> QED
  BY <1>2, <1>3, <1>4, <1>5 DEF RowSum

LEMMA PayOneRow ==
  ASSUME NEW s, PayInv(s)
  PROVE  Pay(s)!BankRowPerPayment
<1> SUFFICES ASSUME NEW p \in DOMAIN payments
             PROVE  Pay(s)!Cardinality(Pay(s)!RowsOf("PAYMENT", p))
                      = IF payments[p].bank /\ p \in Pay(s)!Standing THEN 1 ELSE 0
  BY DEF Pay!BankRowPerPayment
<1>1. PayTables(bills, payments, expenses, bank, journals, balance)
  BY DEF PayInv
<1>2. OneRow(bank, payments, p) /\ PaymentOK(payments[p], bills)
  BY <1>1 DEF PayTables, DrawnRows
<1>3. PICK R : R = RowsFor(bank, "PAYMENT", p)
  OBVIOUS
<1>4. Pay(s)!RowsOf("PAYMENT", p) = R
  BY <1>3 DEF Pay!RowsOf, RowsFor
<1>5. payments[p].bank /\ p \in Pay(s)!Standing <=> Banks(payments[p])
  BY DEF Pay!Standing, Banks
<1>6. Cardinality(R) = IF Banks(payments[p]) THEN 1 ELSE 0
  <2>1. CASE Banks(payments[p])
    <3>1. PICK r : R = {r}
      BY <1>2, <1>3, <2>1 DEF OneRow
    <3> QED
      BY <2>1, <3>1, FS_Singleton
  <2>2. CASE ~Banks(payments[p])
    <3>1. R = {}
      BY <1>2, <1>3, <2>2 DEF OneRow
    <3> QED
      BY <2>2, <3>1, FS_EmptySet
  <2> QED
    BY <2>1, <2>2
<1> QED
  BY <1>4, <1>5, <1>6, PayCounts

(* Accounts payable is what is posted less the payments that stand, and a  *)
(* payment has a bank row while it stands, of any number of requests and   *)
(* any amounts (PurchasesService).                                         *)
THEOREM PayablesInAnyScene ==
  ASSUME NEW s, Pay(s)!PayablesAssumption
  PROVE  Pay(s)!Spec =>
           [](Pay(s)!TypeOK /\ Pay(s)!PayablesLedger /\ Pay(s)!BankRowPerPayment)
<1> DEFINE Agree == Pay(s)!TypeOK /\ Pay(s)!PayablesLedger /\ Pay(s)!BankRowPerPayment
<1>0. PayScene(s)
  BY PayParameters
<1>1. Pay(s)!Init => PayInv(s)
  BY <1>0, PayStart
<1>2. PayInv(s) /\ [Pay(s)!Next]_(Pay(s)!vars) => PayInv(s)'
  <2>1. UNCHANGED Pay(s)!vars =>
          UNCHANGED <<bills, payments, expenses, bank, balance, journals, pc, job>>
    BY DEF Pay!vars, Pay!rowVars, Pay!requestVars
  <2> QED
    BY <1>0, <2>1, PayStep, PayStill
<1>3. PayInv(s) => Agree
  BY PayTypes, PayLedger, PayOneRow
<1> HIDE DEF Agree
<1>4. Pay(s)!Spec => []Agree
  BY <1>1, <1>2, <1>3, PTL DEF Pay!Spec
<1> QED
  BY <1>4 DEF Agree

--------------------------------------------------------------------------------
(* The scenes.  A step of MCLedgers is a step of the scene that is on.     *)

LEMMA PaySceneNames ==
  /\ DOMAIN PayScenes = {"payables_races", "payables_serial"}
  /\ DOMAIN OrderScenes = {"orders_of_request", "bills_of_order", "purchasing_serial"}
  /\ DOMAIN BankScenes = {"banking_races", "banking_edits", "banking_imports", "banking_mixed"}
  /\ DOMAIN BookScenes = {"books_races", "books_serial", "books_records", "records_serial"}
  BY DEF PayScenes, OrderScenes, BankScenes, BookScenes

PayingInv == \A n \in DOMAIN PayScenes : scene = n => PayInv(PayScenes[n])

LEMMA PayingStart == Init => PayingInv
<1> SUFFICES ASSUME Init, NEW n \in DOMAIN PayScenes, scene = n
             PROVE  PayInv(PayScenes[n])
  BY DEF PayingInv
<1>1. Pay(PayScenes[n])!Init
  BY PaySceneNames DEF Init
<1>2. Pay(PayScenes[n])!PayablesAssumption
  BY LedgersAssumption
<1>3. PICK s : s = PayScenes[n]
  OBVIOUS
<1>4. PayInv(s)
  BY ONLY <1>1, <1>2, <1>3, PayStart, PayParameters
<1> QED
  BY <1>3, <1>4

LEMMA PayingStep ==
  ASSUME PayingInv, [Next]_vars
  PROVE  PayingInv'
<1>1. ASSUME NEW n \in DOMAIN PayScenes, scene = n
      PROVE  PayInv(PayScenes[n])'
  <2>1. PayInv(PayScenes[n]) /\ Pay(PayScenes[n])!PayablesAssumption
    BY <1>1, LedgersAssumption DEF PayingInv
  <2>2. Pay(PayScenes[n])!Next \/ UNCHANGED vars
    BY <1>1, PaySceneNames DEF Next
  <2>3. PICK s : s = PayScenes[n]
    OBVIOUS
  <2>4. PayInv(s) /\ Pay(s)!PayablesAssumption /\ (Pay(s)!Next \/ UNCHANGED vars)
    BY <2>1, <2>2, <2>3
  <2>5. UNCHANGED vars =>
          UNCHANGED <<bills, payments, expenses, bank, balance, journals, pc, job>>
    BY DEF vars, paying, requestVars
  <2>6. PayInv(s)'
    BY ONLY <2>4, <2>5, PayParameters, PayStep, PayStill
  <2> QED
    BY <2>3, <2>6
<1>2. scene' = scene
  BY DEF Next, vars
<1> QED
  BY <1>1, <1>2 DEF PayingInv

(* In every interleaving of approvals, payments, reversals and expenses    *)
(* accounts payable is what is posted less the payments that stand, and a  *)
(* payment from the bank account has one row there while it stands         *)
(* (createPayment, reversePayment, billStatus, expenseStatus).             *)
THEOREM PayablesAreKept == Spec => []PayablesKept
<1>1. PayingInv /\ [Next]_vars => PayingInv'
  BY PayingStep
<1>2. PayingInv => PayablesKept
  <2> SUFFICES ASSUME PayingInv, NEW n \in DOMAIN PayScenes, scene = n
               PROVE  /\ Pay(PayScenes[n])!TypeOK
                      /\ Pay(PayScenes[n])!PayablesLedger
                      /\ Pay(PayScenes[n])!BankRowPerPayment
    BY DEF PayablesKept
  <2>1. PICK s : s = PayScenes[n]
    OBVIOUS
  <2>2. PayInv(s)
    BY <2>1 DEF PayingInv
  <2> QED
    BY ONLY <2>1, <2>2, PayTypes, PayLedger, PayOneRow
<1> QED
  BY <1>1, <1>2, PayingStart, PTL DEF Spec

--------------------------------------------------------------------------------
(* One request at a time (OneAtOnce): nobody writes between what a request *)
(* reads and what it commits, so what it read is still so (RightJob), and  *)
(* the bills, the expenses and the account are right (RightTables).        *)
(* First, amounts of rows, none of them negative.                          *)

LEMMA RowsNat ==
  ASSUME NEW t, Priced(t), NEW S, S \subseteq DOMAIN t
  PROVE  IsFiniteSet(S) /\ RowSum(t, S) \in Nat
<1> DEFINE f == [x \in S |-> t[x].amount]
<1>1. IsFiniteSet(S)
  BY FS_Subset DEF Priced
<1>2. DOMAIN f = S /\ \A x \in DOMAIN f : f[x] \in Nat
  BY DEF Priced
<1>3. RowSum(t, S) = SumFunction(f)
  BY DEF RowSum
<1> HIDE DEF f
<1>4. SumFunction(f) \in Nat
  BY <1>1, <1>2, TotalType
<1> QED
  BY <1>1, <1>3, <1>4

LEMMA RowsSplit ==
  ASSUME NEW t, Priced(t), NEW S, NEW T, S \subseteq DOMAIN t, T \subseteq DOMAIN t,
         S \intersect T = {}
  PROVE  RowSum(t, S \union T) = RowSum(t, S) + RowSum(t, T)
<1> DEFINE f == [x \in S \union T |-> t[x].amount]
           g == [x \in S |-> t[x].amount]
           h == [x \in T |-> t[x].amount]
<1>1. IsFiniteSet(S) /\ IsFiniteSet(T)
  BY FS_Subset DEF Priced
<1>2. /\ DOMAIN f = S \union T /\ DOMAIN g = S /\ DOMAIN h = T
      /\ \A x \in S \union T : f[x] \in Int
      /\ \A x \in S : g[x] = f[x]
      /\ \A x \in T : h[x] = f[x]
  BY DEF Priced
<1>3. RowSum(t, S \union T) = SumFunction(f) /\ RowSum(t, S) = SumFunction(g) /\ RowSum(t, T) = SumFunction(h)
  BY DEF RowSum
<1> HIDE DEF f, g, h
<1>4. SumFunctionOnSet(f, S \union T) = SumFunctionOnSet(f, S) + SumFunctionOnSet(f, T)
  BY <1>1, <1>2, SumUnion
<1>5. SumFunctionOnSet(g, S) = SumFunctionOnSet(f, S) /\ SumFunctionOnSet(h, T) = SumFunctionOnSet(f, T)
  BY <1>1, <1>2, SumSame
<1> QED
  BY <1>2, <1>3, <1>4, <1>5 DEF SumFunction

LEMMA RowsPositive ==
  ASSUME NEW t, Priced(t), NEW S, S \subseteq DOMAIN t, NEW x \in S
  PROVE  RowSum(t, S) \in Nat \ {0}
<1>1. PICK T : T = S \ {x}
  OBVIOUS
<1>2. OneMore(S, T, x) /\ T \subseteq DOMAIN t
  BY <1>1 DEF OneMore
<1>3. RowSum(t, T) = RowSum(t, S) - t[x].amount
  BY <1>2, PayTotalLess
<1>4. RowSum(t, T) \in Nat /\ RowSum(t, S) \in Nat
  BY <1>2, RowsNat
<1>5. t[x].amount \in Nat \ {0}
  BY DEF Priced
<1> QED
  BY <1>3, <1>4, <1>5

(* Journals that are posted or taken back, under the number n of a row.    *)
PostsAt(js, n, k) == \E l : k = Posted(js, n, l)
TakesBack(js, n, k) == k = Reversed(js, n, UndoNo(n))
SameBut(js, k, n) ==
  \A m : RowNumber(m) /\ m # n =>
    /\ m \in DOMAIN k <=> m \in DOMAIN js
    /\ Stands(k, m) <=> Stands(js, m)

LEMMA NumbersOfRows ==
  \A x : RowNumber(BillNo(x)) /\ RowNumber(PaymentNo(x)) /\ RowNumber(ExpenseNo(x))
BY PayNumbers DEF RowNumber

LEMMA PostedStands ==
  ASSUME NEW js, NEW n, NEW k, PostsAt(js, n, k)
  PROVE  SameBut(js, k, n) /\ (n \notin DOMAIN js => Stands(k, n))
<1>1. PICK l : k = Posted(js, n, l)
  BY DEF PostsAt
<1>2. CASE n \in DOMAIN js
  BY <1>1, <1>2 DEF Posted, SameBut
<1>3. CASE n \notin DOMAIN js
  <2>1. k = Entered(js, n, [lines |-> Normalized(l), status |-> "POSTED"])
    BY <1>1, <1>3 DEF Posted
  <2>2. /\ DOMAIN k = DOMAIN js \union {n} /\ k[n].status = "POSTED"
        /\ \A m \in DOMAIN js : m # n => k[m] = js[m]
    BY <2>1 DEF Entered
  <2> QED
    BY <2>2 DEF SameBut, Stands
<1> QED
  BY <1>2, <1>3

LEMMA TakenBackStands ==
  ASSUME NEW bs, NEW ps, NEW es, NEW js, OwingBooks(bs, ps, es, js), NEW x, NEW n,
         n \in {BillNo(x), PaymentNo(x), ExpenseNo(x)}, NEW k, TakesBack(js, n, k)
  PROVE  SameBut(js, k, n) /\ ~Stands(k, n)
<1>0. /\ BooksFine(js) /\ Followed(bs, ps, es, js) /\ RowNumber(n)
      /\ k = Reversed(js, n, UndoNo(n))
      /\ \A b \in DOMAIN bs : bs[b].amount \in Int
      /\ \A p \in DOMAIN ps : ps[p].amount \in Int
      /\ \A e \in DOMAIN es : es[e].amount \in Int
  BY NumbersOfRows DEF OwingBooks, Priced, TakesBack
<1>1. CASE ~Stands(js, n)
  <2>1. k = js
    BY <1>0, <1>1, UndoneIfDue
  <2> QED
    BY <1>1, <2>1 DEF SameBut
<1>2. CASE Stands(js, n)
  <2>1. n \in DOMAIN js
    BY <1>2 DEF Stands
  <2>2. PICK d, c, v : d # c /\ v \in Int /\ LinesAre(js, n, d, c, v)
    <3>1. CASE n = BillNo(x)
      <4>1. x \in DOMAIN bs /\ LinesAre(js, n, "5000", "2000", bs[x].amount)
        BY <1>0, <2>1, <3>1, AccountedRow
      <4> QED
        BY <1>0, <4>1
    <3>2. CASE n = PaymentNo(x)
      <4>1. x \in DOMAIN ps /\ LinesAre(js, n, "2000", "1000", ps[x].amount)
        BY <1>0, <2>1, <3>2, AccountedRow
      <4> QED
        BY <1>0, <4>1
    <3>3. CASE n = ExpenseNo(x)
      <4>1. x \in DOMAIN es /\ LinesAre(js, n, "5000", CreditOf(es[x]), es[x].amount)
        BY <1>0, <2>1, <3>3, AccountedRow
      <4>2. "5000" # CreditOf(es[x])
        BY DEF CreditOf
      <4> QED
        BY <1>0, <4>1, <4>2
    <3> QED
      BY <3>1, <3>2, <3>3
  <2>3. /\ \A m : RowNumber(m) => (Stands(k, m) <=> m # n /\ Stands(js, m))
        /\ \A m : RowNumber(m) => (m \in DOMAIN k <=> m \in DOMAIN js)
    BY <1>0, <1>2, <2>2, RowUndone
  <2> QED
    BY <1>0, <2>3 DEF SameBut
<1> QED
  BY <1>1, <1>2

--------------------------------------------------------------------------------
(* Bills, expenses and the account as one request at a time leaves them.   *)

PaidIn(ps, n) == {p \in DOMAIN ps : ~ps[p].reversed /\ ps[p].bill = n}
BankedIn(ps) == {p \in DOMAIN ps : Banks(ps[p])}
OutIn(bk) == {r \in DOMAIN bk : ~bk[r].reversed}
Unposted == {"DRAFT", "PENDING_APPROVAL"}

PaidUp(b, v) ==
  /\ b.paid = v /\ b.paid <= b.total
  /\ b.status = "PAID" <=> b.paid = b.total
  /\ b.paid > 0 => b.status \in {"PARTIALLY_PAID", "OVERDUE", "PAID"}
BillPosted(n, b, js) ==
  /\ b.status \in Unposted => BillNo(n) \notin DOMAIN js
  /\ Stands(js, BillNo(n)) <=> b.status \notin Unposted \union {"VOID"}
BillsRight(bs, ps, js) ==
  \A n \in DOMAIN bs : PaidUp(bs[n], RowSum(ps, PaidIn(ps, n))) /\ BillPosted(n, bs[n], js)

ExpensePosted(e, x, js) ==
  /\ x.status = "PENDING" => ExpenseNo(e) \notin DOMAIN js
  /\ Stands(js, ExpenseNo(e)) <=> x.status = "APPROVED"
DrawnOnce(e, x, bk) ==
  /\ x.bank /\ x.status = "APPROVED" => \E r : RowsFor(bk, "EXPENSE", e) = {r}
  /\ ~(x.bank /\ x.status = "APPROVED") => RowsFor(bk, "EXPENSE", e) = {}
ExpensesRight(es, bk, js) ==
  \A e \in DOMAIN es : ExpensePosted(e, es[e], js) /\ DrawnOnce(e, es[e], bk)

CashRight(o, v, ps, es, bk, js) ==
  /\ v = o - RowSum(bk, OutIn(bk))
  /\ RowSum(bk, OutIn(bk)) = RowSum(ps, BankedIn(ps)) + RowSum(es, DrawnIn(es, js))

(* What a request has read is still so.                                    *)
DecidesOn(x, bs) ==
  /\ x.status \in Unposted \union {"APPROVED", "VOID"} /\ bs[x.bill].paid <= 0
  /\ x.status # "VOID" => bs[x.bill].status \in Unposted
StillFits(x, bs) ==
  /\ bs[x.bill].status \in {"APPROVED", "PARTIALLY_PAID", "OVERDUE"}
  /\ x.seen.paid = bs[x.bill].paid /\ x.amount <= bs[x.bill].total - bs[x.bill].paid
PaidLess(x, bs, ps) == x.paid = bs[ps[x.payment].bill].paid - ps[x.payment].amount
SpendsOn(x, es) ==
  /\ x.status = "VOID" => es[x.expense].status = "APPROVED"
  /\ x.status # "VOID" => es[x.expense].status = "PENDING"
Draw(x, es) == IF x.status = "APPROVED" /\ es[x.expense].bank THEN es[x.expense].amount ELSE 0
LeftIs(v, o, bk, R, a) == v = o - RowSum(bk, OutIn(bk) \ R) - a
RowsFound(x, bk) == x.rows = RowsFor(bk, "PAYMENT", x.payment)
RowsSpent(x, bk) == x.rows = IF x.status = "VOID" THEN RowsFor(bk, "EXPENSE", x.expense) ELSE {}

RightJob(l, x, o, bs, ps, es, bk) ==
  /\ l = "deciding" => DecidesOn(x, bs)
  /\ l \in {"paying", "paid"} => StillFits(x, bs)
  /\ l = "paid" => (x.bank => LeftIs(x.balance, o, bk, {}, x.amount))
  /\ l \in {"reversing", "unpaying", "unpaid"} => ~ps[x.payment].reversed
  /\ l \in {"unpaying", "unpaid"} => PaidLess(x, bs, ps)
  /\ l = "unpaid" => RowsFound(x, bk) /\ LeftIs(x.balance, o, bk, x.rows, 0)
  /\ l \in {"spending", "spent"} => SpendsOn(x, es)
  /\ l = "spent" => RowsSpent(x, bk) /\ LeftIs(x.balance, o, bk, x.rows, Draw(x, es))

RightTables(o, v, bs, ps, es, bk, js) ==
  BillsRight(bs, ps, js) /\ ExpensesRight(es, bk, js) /\ CashRight(o, v, ps, es, bk, js)

RightInv(s) ==
  /\ PayInv(s)
  /\ RightTables(s.opening, balance, bills, payments, expenses, bank, journals)
  /\ \A w \in s.workers : RightJob(pc[w], job[w], s.opening, bills, payments, expenses, bank)

OneAtOnce(s) == \A v, w \in s.workers : v = w

(* The journal of another row.                                             *)
LEMMA BillsElsewhere ==
  ASSUME NEW bs, NEW ps, NEW js, BillsRight(bs, ps, js), NEW n, NEW k, SameBut(js, k, n),
         \A x : n # BillNo(x)
  PROVE  BillsRight(bs, ps, k)
<1>1. \A x : /\ BillNo(x) \in DOMAIN k <=> BillNo(x) \in DOMAIN js
             /\ Stands(k, BillNo(x)) <=> Stands(js, BillNo(x))
  BY NumbersOfRows DEF SameBut
<1>2. \A x, b : BillPosted(x, b, js) => BillPosted(x, b, k)
  BY <1>1 DEF BillPosted
<1> QED
  BY <1>2 DEF BillsRight

LEMMA ExpensesElsewhere ==
  ASSUME NEW es, NEW bk, NEW js, ExpensesRight(es, bk, js), NEW n, NEW k, SameBut(js, k, n),
         \A x : n # ExpenseNo(x), NEW bl,
         \A e : RowsFor(bl, "EXPENSE", e) = RowsFor(bk, "EXPENSE", e)
  PROVE  ExpensesRight(es, bl, k) /\ DrawnIn(es, k) = DrawnIn(es, js)
<1>1. \A x : /\ ExpenseNo(x) \in DOMAIN k <=> ExpenseNo(x) \in DOMAIN js
             /\ Stands(k, ExpenseNo(x)) <=> Stands(js, ExpenseNo(x))
  BY NumbersOfRows DEF SameBut
<1>2. \A x, y : ExpensePosted(x, y, js) => ExpensePosted(x, y, k)
  BY <1>1 DEF ExpensePosted
<1>3. \A x, y : DrawnOnce(x, y, bk) => DrawnOnce(x, y, bl)
  BY DEF DrawnOnce
<1>4. DrawnIn(es, k) = DrawnIn(es, js)
  BY <1>1 DEF DrawnIn
<1> QED
  BY <1>2, <1>3, <1>4 DEF ExpensesRight

(* Rows that are not yet in the ledger come, and bills fall overdue.       *)
FallsDue(b, c) ==
  /\ c.paid = b.paid /\ c.total = b.total
  /\ \/ c.status = b.status
     \/ b.status \in {"APPROVED", "PARTIALLY_PAID"} /\ c.status = "OVERDUE"
Arrived(bs, es, bt, et) ==
  /\ \A n \in DOMAIN bs : n \in DOMAIN bt /\ FallsDue(bs[n], bt[n])
  /\ \A e \in DOMAIN es : e \in DOMAIN et /\ et[e] = es[e]

LEMMA RightOnward ==
  ASSUME NEW l, NEW x, NEW o, NEW bs, NEW ps, NEW es, NEW bk, NEW bt, NEW et,
         RightJob(l, x, o, bs, ps, es, bk), PayJob(l, x, bs, ps, es, bk),
         \A p \in DOMAIN ps : ps[p].bill \in DOMAIN bs, Arrived(bs, es, bt, et)
  PROVE  RightJob(l, x, o, bt, ps, et, bk)
<1>1. l = "deciding" => DecidesOn(x, bt)
  <2> SUFFICES ASSUME l = "deciding" PROVE DecidesOn(x, bt)
    OBVIOUS
  <2>1. DecidesOn(x, bs) /\ x.bill \in DOMAIN bs
    BY DEF RightJob, PayJob
  <2>2. FallsDue(bs[x.bill], bt[x.bill])
    BY <2>1 DEF Arrived
  <2> QED
    BY <2>1, <2>2 DEF DecidesOn, FallsDue, Unposted
<1>2. l \in {"paying", "paid"} => StillFits(x, bt)
  <2> SUFFICES ASSUME l \in {"paying", "paid"} PROVE StillFits(x, bt)
    OBVIOUS
  <2>1. StillFits(x, bs) /\ x.bill \in DOMAIN bs
    BY DEF RightJob, PayJob, PaymentJob
  <2>2. FallsDue(bs[x.bill], bt[x.bill])
    BY <2>1 DEF Arrived
  <2> QED
    BY <2>1, <2>2 DEF StillFits, FallsDue
<1>3. l \in {"unpaying", "unpaid"} => PaidLess(x, bt, ps)
  <2> SUFFICES ASSUME l \in {"unpaying", "unpaid"} PROVE PaidLess(x, bt, ps)
    OBVIOUS
  <2>1. PaidLess(x, bs, ps) /\ ps[x.payment].bill \in DOMAIN bs
    BY DEF RightJob, PayJob
  <2>2. FallsDue(bs[ps[x.payment].bill], bt[ps[x.payment].bill])
    BY <2>1 DEF Arrived
  <2> QED
    BY <2>1, <2>2 DEF PaidLess, FallsDue
<1>4. l \in {"spending", "spent"} => SpendsOn(x, et) /\ Draw(x, et) = Draw(x, es)
  <2> SUFFICES ASSUME l \in {"spending", "spent"} PROVE SpendsOn(x, et) /\ Draw(x, et) = Draw(x, es)
    OBVIOUS
  <2>1. SpendsOn(x, es) /\ x.expense \in DOMAIN es
    BY DEF RightJob, PayJob
  <2>2. et[x.expense] = es[x.expense]
    BY <2>1 DEF Arrived
  <2> QED
    BY <2>1, <2>2 DEF SpendsOn, Draw
<1> QED
  BY <1>1, <1>2, <1>3, <1>4 DEF RightJob

--------------------------------------------------------------------------------
(* A turn of the one request there is, and steps beside it.                *)

RightAfter(s) ==
  RightTables(s.opening, balance', bills', payments', expenses', bank', journals')

LEMMA RightTurn ==
  ASSUME NEW s, NEW w \in s.workers, NEW l, NEW x, OneAtOnce(s), PayInv(s), PayInv(s)',
         Pay(s)!Turn(w, l, x), RightAfter(s),
         RightJob(l, x, s.opening, bills', payments', expenses', bank')
  PROVE  RightInv(s)'
<1>1. ASSUME NEW v \in s.workers
      PROVE  RightJob(pc'[v], job'[v], s.opening, bills', payments', expenses', bank')
  BY PayTurn DEF OneAtOnce
<1> QED
  BY <1>1 DEF RightInv, RightAfter

LEMMA RightDone ==
  ASSUME NEW s, NEW w \in s.workers, OneAtOnce(s), PayInv(s), PayInv(s)', Pay(s)!Done(w),
         RightAfter(s)
  PROVE  RightInv(s)'
<1>1. Pay(s)!Turn(w, "idle", None)
  BY DEF Pay!Done
<1>2. RightJob("idle", None, s.opening, bills', payments', expenses', bank')
  BY DEF RightJob
<1> QED
  BY <1>1, <1>2, RightTurn

LEMMA RightOutside ==
  ASSUME NEW s, RightInv(s), PayInv(s)', UNCHANGED <<payments, bank, pc, job>>,
         Arrived(bills, expenses, bills', expenses'), RightAfter(s)
  PROVE  RightInv(s)'
<1>1. \A p \in DOMAIN payments : payments[p].bill \in DOMAIN bills
  BY DEF RightInv, PayInv, PayTables, PaymentOK
<1>2. ASSUME NEW w \in s.workers
      PROVE  RightJob(pc[w], job[w], s.opening, bills', payments, expenses', bank)
  <2>1. /\ RightJob(pc[w], job[w], s.opening, bills, payments, expenses, bank)
        /\ PayJob(pc[w], job[w], bills, payments, expenses, bank)
    BY DEF RightInv, PayInv
  <2> QED
    BY <1>1, <2>1, RightOnward
<1> QED
  BY <1>2 DEF RightInv, RightAfter

LEMMA RightCreateBill ==
  ASSUME NEW s, RightInv(s), NEW a, a \in Nat \ {0}, Pay(s)!CreateBill(a)
  PROVE  RightInv(s)'
<1>1. PICK row, n : /\ row = [total |-> a, status |-> "DRAFT", paid |-> 0]
                    /\ n = Cardinality(DOMAIN bills) + 1
  OBVIOUS
<1>2. /\ EnteredNext(bills, n, row, bills')
      /\ UNCHANGED <<payments, expenses, bank, balance, journals, pc, job>>
  <2>1. /\ bills' = Pay(s)!Entered(bills, Pay(s)!Next1(bills), row)
        /\ UNCHANGED <<payments, expenses, bank, balance, journals, pc, job>>
    BY <1>1 DEF Pay!CreateBill, Pay!requestVars
  <2> QED
    BY <1>1, <2>1, PayCounts, PayBooks DEF EnteredNext
<1>3. /\ PayInv(s) /\ PayTables(bills, payments, expenses, bank, journals, balance)
      /\ RightTables(s.opening, balance, bills, payments, expenses, bank, journals)
  BY DEF RightInv, PayInv
<1>4. Gains(bills, bills', n, row)
  BY <1>2, <1>3, NumberEntered DEF PayTables
<1>5. PaidUp(row, RowSum(payments, PaidIn(payments, n)))
  <2>1. PaidIn(payments, n) = {}
    BY <1>3, <1>4 DEF PaidIn, PayTables, PaymentOK, Gains
  <2> QED
    BY <1>1, <2>1, RowsNone DEF PaidUp
<1>6. BillPosted(n, row, journals)
  <2>1. Followed(Dues(bills), payments, expenses, journals) /\ n \notin DOMAIN Dues(bills)
    BY <1>3, <1>4 DEF PayTables, OwingBooks, Dues, Gains
  <2>2. BillNo(n) \notin DOMAIN journals
    BY <2>1, AccountedRow
  <2> QED
    BY <1>1, <2>2 DEF BillPosted, Unposted, Stands
<1>7. BillsRight(bills', payments, journals)
  BY <1>3, <1>4, <1>5, <1>6 DEF BillsRight, RightTables, Gains
<1>8. RightAfter(s)
  BY <1>2, <1>3, <1>7 DEF RightAfter, RightTables
<1>9. Arrived(bills, expenses, bills', expenses')
  BY <1>2, <1>4 DEF Arrived, FallsDue, Gains
<1>10. PayInv(s)'
  BY <1>3, PayCreateBill
<1> QED
  BY <1>2, <1>8, <1>9, <1>10, RightOutside

LEMMA RightMarkOverdue ==
  ASSUME NEW s, RightInv(s), NEW late, Pay(s)!MarkOverdue(late)
  PROVE  RightInv(s)'
<1>1. /\ bills' = [n \in DOMAIN bills |->
                     IF n \in late THEN [bills[n] EXCEPT !.status = "OVERDUE"] ELSE bills[n]]
      /\ \A n \in late : bills[n].status \in {"APPROVED", "PARTIALLY_PAID"}
      /\ UNCHANGED <<payments, expenses, bank, balance, journals, pc, job>>
  BY DEF Pay!MarkOverdue, Pay!requestVars
<1>2. /\ PayInv(s) /\ PayTables(bills, payments, expenses, bank, journals, balance)
      /\ RightTables(s.opening, balance, bills, payments, expenses, bank, journals)
  BY DEF RightInv, PayInv
<1>3. ASSUME NEW n \in DOMAIN bills PROVE FallsDue(bills[n], bills'[n])
  <2>1. PICK b : b = bills[n]
    OBVIOUS
  <2>2. BillOK(b)
    BY <1>2, <2>1 DEF PayTables
  <2>3. CASE n \in late
    <3>1. bills'[n] = [b EXCEPT !.status = "OVERDUE"]
      BY <1>1, <2>1, <2>3
    <3>2. bills'[n] = [total |-> b.total, status |-> "OVERDUE", paid |-> b.paid]
      BY <2>2, <3>1 DEF BillOK
    <3> QED
      BY <1>1, <2>1, <2>3, <3>2 DEF FallsDue
  <2>4. CASE n \notin late
    BY <1>1, <2>4 DEF FallsDue
  <2> QED
    BY <2>3, <2>4
<1>4. DOMAIN bills' = DOMAIN bills
  BY <1>1
<1>5. ASSUME NEW n, NEW b, NEW c, NEW v, FallsDue(b, c), PaidUp(b, v), BillPosted(n, b, journals)
      PROVE  PaidUp(c, v) /\ BillPosted(n, c, journals)
  BY <1>5 DEF FallsDue, PaidUp, BillPosted, Unposted
<1>6. BillsRight(bills', payments, journals)
  BY <1>2, <1>3, <1>4, <1>5 DEF BillsRight, RightTables
<1>7. RightAfter(s)
  BY <1>1, <1>2, <1>6 DEF RightAfter, RightTables
<1>8. Arrived(bills, expenses, bills', expenses')
  BY <1>1, <1>3, <1>4 DEF Arrived
<1>9. PayInv(s)'
  BY <1>2, PayMarkOverdue
<1> QED
  BY <1>1, <1>7, <1>8, <1>9, RightOutside

LEMMA RightCreateExpense ==
  ASSUME NEW s, RightInv(s), NEW a, a.amount \in Nat \ {0}, a.bank \in BOOLEAN,
         Pay(s)!CreateExpense(a)
  PROVE  RightInv(s)'
<1>1. PICK row, n : /\ row = [amount |-> a.amount, bank |-> a.bank, status |-> "PENDING"]
                    /\ n = Cardinality(DOMAIN expenses) + 1
  OBVIOUS
<1>2. /\ EnteredNext(expenses, n, row, expenses')
      /\ UNCHANGED <<bills, payments, bank, balance, journals, pc, job>>
  <2>1. /\ expenses' = Pay(s)!Entered(expenses, Pay(s)!Next1(expenses), row)
        /\ UNCHANGED <<bills, payments, bank, balance, journals, pc, job>>
    BY <1>1 DEF Pay!CreateExpense, Pay!requestVars
  <2> QED
    BY <1>1, <2>1, PayCounts, PayBooks DEF EnteredNext
<1>3. /\ PayInv(s) /\ PayTables(bills, payments, expenses, bank, journals, balance)
      /\ RightTables(s.opening, balance, bills, payments, expenses, bank, journals)
  BY DEF RightInv, PayInv
<1>4. Gains(expenses, expenses', n, row)
  BY <1>2, <1>3, NumberEntered DEF PayTables
<1>5. DrawnOnce(n, row, bank)
  <2>1. RowsFor(bank, "EXPENSE", n) = {}
    BY <1>3, <1>4 DEF RowsFor, PayTables, DrawnRows, DrawnOK, Gains
  <2> QED
    BY <1>1, <2>1 DEF DrawnOnce
<1>6. ExpensePosted(n, row, journals) /\ ~Stands(journals, ExpenseNo(n))
  <2>1. Followed(Dues(bills), payments, expenses, journals) /\ n \notin DOMAIN expenses
    BY <1>3, <1>4 DEF PayTables, OwingBooks, Gains
  <2>2. ExpenseNo(n) \notin DOMAIN journals
    BY <2>1, AccountedRow
  <2> QED
    BY <1>1, <2>2 DEF ExpensePosted, Stands
<1>7. ExpensesRight(expenses', bank, journals)
  BY <1>3, <1>4, <1>5, <1>6 DEF ExpensesRight, RightTables, Gains
<1>8. DrawnIn(expenses', journals) = DrawnIn(expenses, journals)
  BY <1>4, <1>6 DEF DrawnIn, Gains
<1>9. RowSum(expenses', DrawnIn(expenses, journals)) = RowSum(expenses, DrawnIn(expenses, journals))
  <2>1. \A e \in DrawnIn(expenses, journals) : expenses'[e].amount = expenses[e].amount
    BY <1>4 DEF DrawnIn, Gains
  <2> QED
    BY <2>1, RowsSame
<1>10. RightAfter(s)
  BY <1>2, <1>3, <1>7, <1>8, <1>9 DEF RightAfter, RightTables, CashRight
<1>11. Arrived(bills, expenses, bills', expenses')
  BY <1>2, <1>4 DEF Arrived, FallsDue, Gains
<1>12. PayInv(s)'
  BY <1>3, PayCreateExpense
<1> QED
  BY <1>2, <1>10, <1>11, <1>12, RightOutside

(* What a request reads is so when nobody else writes.                     *)
LEMMA RightBillRead ==
  ASSUME NEW s, RightInv(s), NEW n \in DOMAIN bills, NEW y,
         Pay(s)!MayMove(bills[n], y)
  PROVE  DecidesOn([bill |-> n, status |-> y], bills)
<1>1. PICK b, x : b = bills[n] /\ x = [bill |-> n, status |-> y]
  OBVIOUS
<1>2. BillOK(b) /\ PaidUp(b, RowSum(payments, PaidIn(payments, n)))
  BY <1>1 DEF RightInv, RightTables, BillsRight, PayInv, PayTables
<1>3. /\ b.paid > 0 => y \notin {"DRAFT", "PENDING_APPROVAL", "VOID"}
      /\ y \in Pay(s)!BillAllows[b.status]
  BY <1>1 DEF Pay!MayMove
<1>4. b.status \in BillStates /\ b.paid \in Int
  BY <1>2 DEF BillOK
<1>5. /\ y \in {"DRAFT", "PENDING_APPROVAL", "APPROVED", "VOID"}
      /\ y # "VOID" => b.status \in {"DRAFT", "PENDING_APPROVAL"}
  BY <1>3, <1>4 DEF Pay!BillAllows, BillStates
<1>6. b.paid <= 0
  BY <1>2, <1>3, <1>4, <1>5 DEF PaidUp
<1> QED
  BY <1>1, <1>5, <1>6 DEF DecidesOn, Unposted

LEMMA RightReads ==
  ASSUME NEW s, NEW w \in s.workers, PayScene(s), OneAtOnce(s), RightInv(s), PayReading(s, w)
  PROVE  RightInv(s)'
<1> DEFINE Job(l, x) == RightJob(l, x, s.opening, bills, payments, expenses, bank)
<1>0. /\ PayInv(s) /\ PayInv(s)'
      /\ UNCHANGED <<bills, payments, expenses, bank, balance, journals>>
  BY PayReads DEF RightInv
<1>a. /\ Job(pc[w], job[w])
      /\ PayJob(pc[w], job[w], bills, payments, expenses, bank)
      /\ PayTables(bills, payments, expenses, bank, journals, balance)
      /\ RightTables(s.opening, balance, bills, payments, expenses, bank, journals)
  BY DEF RightInv, PayInv
<1>b. ASSUME NEW l, NEW x, Pay(s)!Turn(w, l, x), Job(l, x) PROVE RightInv(s)'
  <2>1. RightAfter(s)
    BY <1>0, <1>a DEF RightAfter
  <2>2. RightJob(l, x, s.opening, bills', payments', expenses', bank')
    BY <1>0, <1>b
  <2> QED
    BY <1>0, <1>b, <2>1, <2>2, RightTurn
<1>1. ASSUME NEW n \in DOMAIN bills, NEW y, Pay(s)!BillRead(w, n, y) PROVE RightInv(s)'
  <2>1. PICK x : x = [bill |-> n, status |-> y]
    OBVIOUS
  <2>2. DecidesOn(x, bills)
    BY <1>1, <2>1, RightBillRead DEF Pay!BillRead
  <2>3. Job("deciding", x)
    BY <2>2 DEF RightJob
  <2>4. Pay(s)!Turn(w, "deciding", x)
    BY <1>1, <2>1 DEF Pay!BillRead
  <2> QED
    BY <2>3, <2>4, <1>b
<1>2. ASSUME NEW n \in DOMAIN bills, NEW a \in s.amounts, NEW r, NEW b \in s.banked,
             Pay(s)!PayRead(w, n, a, r, b)
      PROVE  RightInv(s)'
  <2>1. PICK x : x = [bill |-> n, amount |-> a, ref |-> r, bank |-> b, seen |-> bills[n],
                      balance |-> None]
    OBVIOUS
  <2>2. StillFits(x, bills)
    BY <1>2, <2>1 DEF Pay!PayRead, Pay!Fits, StillFits
  <2>3. CASE b
    <3>1. Pay(s)!Turn(w, "paying", x)
      BY <1>2, <2>1, <2>3 DEF Pay!PayRead
    <3>2. Job("paying", x)
      BY <2>2 DEF RightJob
    <3> QED
      BY <3>1, <3>2, <1>b
  <2>4. CASE ~b
    <3>1. Pay(s)!Turn(w, "paid", x)
      BY <1>2, <2>1, <2>4 DEF Pay!PayRead
    <3>2. Job("paid", x)
      BY <2>1, <2>2, <2>4 DEF RightJob
    <3> QED
      BY <3>1, <3>2, <1>b
  <2> QED
    BY <2>3, <2>4
<1>3. ASSUME Pay(s)!PayBank(w) PROVE RightInv(s)'
  <2>1. PICK j : j = job[w]
    OBVIOUS
  <2>2. PaymentJob(j, bills) /\ StillFits(j, bills)
    BY <1>3, <1>a, <2>1 DEF Pay!PayBank, Pay!At, PayJob, RightJob
  <2>3. PICK v : v = Pay(s)!Recalculated(Pay(s)!Outgoing) - j.amount
    OBVIOUS
  <2>4. LeftIs(v, s.opening, bank, {}, j.amount)
    <3>1. Pay(s)!Outgoing = OutIn(bank) /\ OutIn(bank) \ {} = OutIn(bank)
      BY DEF Pay!Outgoing, OutIn
    <3> QED
      BY <2>3, <3>1, RecalculatedIs DEF LeftIs
  <2>5. PICK x : x = [j EXCEPT !.balance = v]
    OBVIOUS
  <2>6. Pay(s)!Turn(w, "paid", x)
    BY <1>3, <2>1, <2>3, <2>5 DEF Pay!PayBank
  <2>7. x = [bill |-> j.bill, amount |-> j.amount, ref |-> j.ref, bank |-> j.bank,
             seen |-> j.seen, balance |-> v]
    BY <2>2, <2>5 DEF PaymentJob
  <2>8. StillFits(x, bills) /\ LeftIs(x.balance, s.opening, bank, {}, x.amount)
    BY <2>2, <2>4, <2>7 DEF StillFits
  <2>9. Job("paid", x)
    BY <2>8 DEF RightJob
  <2> QED
    BY <2>6, <2>9, <1>b
<1>4. ASSUME NEW p \in DOMAIN payments, Pay(s)!UnpayRead(w, p) PROVE RightInv(s)'
  <2>1. PICK x : x = [payment |-> p]
    OBVIOUS
  <2>2. Job("reversing", x)
    BY <1>4, <2>1 DEF RightJob, Pay!UnpayRead
  <2>3. Pay(s)!Turn(w, "reversing", x)
    BY <1>4, <2>1 DEF Pay!UnpayRead
  <2> QED
    BY <2>2, <2>3, <1>b
<1>5. ASSUME Pay(s)!UnpayBill(w) PROVE RightInv(s)'
  <2>1. PICK p : p = job[w].payment
    OBVIOUS
  <2>2. ~payments[p].reversed
    BY <1>5, <1>a, <2>1 DEF Pay!UnpayBill, Pay!At, RightJob
  <2>3. PICK x : x = [payment |-> p, due |-> Pay(s)!Due(<<"PAYMENT", p>>),
                      paid |-> bills[payments[p].bill].paid - payments[p].amount,
                      rows |-> {}, balance |-> balance]
    OBVIOUS
  <2>4. Pay(s)!Turn(w, "unpaying", x)
    BY <1>5, <2>1, <2>3 DEF Pay!UnpayBill
  <2>5. PaidLess(x, bills, payments) /\ x.payment = p
    BY <2>3 DEF PaidLess
  <2>6. Job("unpaying", x)
    BY <2>2, <2>5 DEF RightJob
  <2> QED
    BY <2>4, <2>6, <1>b
<1>6. ASSUME Pay(s)!UnpayBank(w) PROVE RightInv(s)'
  <2>1. PICK j : j = job[w]
    OBVIOUS
  <2>2. ReversalJob(j, payments) /\ ~payments[j.payment].reversed /\ PaidLess(j, bills, payments)
    BY <1>6, <1>a, <2>1 DEF Pay!UnpayBank, Pay!At, PayJob, RightJob
  <2>3. PICK R, v : /\ R = Pay(s)!RowsOf("PAYMENT", j.payment)
                    /\ v = Pay(s)!Recalculated(Pay(s)!Outgoing \ R)
    OBVIOUS
  <2>4. R = RowsFor(bank, "PAYMENT", j.payment)
    BY <2>3 DEF Pay!RowsOf, RowsFor
  <2>5. v = s.opening - RowSum(bank, OutIn(bank) \ R)
    <3>1. Pay(s)!Outgoing = OutIn(bank)
      BY DEF Pay!Outgoing, OutIn
    <3> QED
      BY <2>3, <3>1, RecalculatedIs
  <2>6. PICK x : x = [j EXCEPT !.rows = R, !.balance = v]
    OBVIOUS
  <2>7. Pay(s)!Turn(w, "unpaid", x)
    BY <1>6, <2>1, <2>3, <2>6 DEF Pay!UnpayBank
  <2>8. x = [payment |-> j.payment, due |-> j.due, paid |-> j.paid, rows |-> R, balance |-> v]
    BY <2>2, <2>6 DEF ReversalJob
  <2>9. RowsFound(x, bank) /\ PaidLess(x, bills, payments) /\ x.payment = j.payment
    BY <2>2, <2>4, <2>8 DEF RowsFound, PaidLess
  <2>10. LeftIs(x.balance, s.opening, bank, x.rows, 0)
    <3>1. v \in Int
      <4>1. Pay(s)!Outgoing \ R \subseteq DOMAIN bank
        BY DEF Pay!Outgoing
      <4> QED
        BY <1>0, <2>3, <4>1, RecalculatedType
    <3> QED
      BY <2>5, <2>8, <3>1 DEF LeftIs
  <2>11. Job("unpaid", x)
    BY <2>2, <2>9, <2>10 DEF RightJob
  <2> QED
    BY <2>7, <2>11, <1>b
<1>7. ASSUME NEW e \in DOMAIN expenses, NEW y \in {"APPROVED", "REJECTED", "VOID"},
             Pay(s)!ExpenseRead(w, e, y)
      PROVE  RightInv(s)'
  <2>1. PICK x : x = [expense |-> e, status |-> y]
    OBVIOUS
  <2>2. ExpenseOK(expenses[e])
    BY <1>a DEF PayTables
  <2>3. SpendsOn(x, expenses)
    BY <1>7, <2>1, <2>2 DEF Pay!ExpenseRead, Pay!ExpenseAllows, SpendsOn, ExpenseOK, ExpenseStates
  <2>4. Job("spending", x)
    BY <2>3 DEF RightJob
  <2>5. Pay(s)!Turn(w, "spending", x)
    BY <1>7, <2>1 DEF Pay!ExpenseRead
  <2> QED
    BY <2>4, <2>5, <1>b
<1>8. ASSUME Pay(s)!ExpenseBank(w) PROVE RightInv(s)'
  <2>1. PICK j : j = job[w]
    OBVIOUS
  <2>2. SpendsOn(j, expenses)
    BY <1>8, <1>a, <2>1 DEF Pay!ExpenseBank, Pay!At, RightJob
  <2>3. PICK R : R = IF j.status = "VOID" THEN Pay(s)!RowsOf("EXPENSE", j.expense) ELSE {}
    OBVIOUS
  <2>4. PICK a : a = IF Pay(s)!Draws(j) THEN expenses[j.expense].amount ELSE 0
    OBVIOUS
  <2>5. PICK v : v = Pay(s)!Recalculated(Pay(s)!Outgoing \ R) - a
    OBVIOUS
  <2>6. v = s.opening - RowSum(bank, OutIn(bank) \ R) - a
    <3>1. Pay(s)!Outgoing = OutIn(bank)
      BY DEF Pay!Outgoing, OutIn
    <3> QED
      BY <2>5, <3>1, RecalculatedIs
  <2>7. PICK x : x = [expense |-> j.expense, status |-> j.status, rows |-> R,
                      due |-> Pay(s)!Due(<<"EXPENSE", j.expense>>), balance |-> v]
    OBVIOUS
  <2>8. Pay(s)!Turn(w, "spent", x)
    BY <1>8, <2>1, <2>3, <2>4, <2>5, <2>7 DEF Pay!ExpenseBank
  <2>9. x.expense = j.expense /\ x.status = j.status /\ x.rows = R /\ x.balance = v
    BY <2>7
  <2>10. SpendsOn(x, expenses)
    BY <2>2, <2>9 DEF SpendsOn
  <2>11. RowsSpent(x, bank)
    BY <2>3, <2>9 DEF RowsSpent, RowsFor, Pay!RowsOf
  <2>12. a = Draw(x, expenses)
    BY <2>4, <2>9 DEF Pay!Draws, Draw
  <2>13. LeftIs(x.balance, s.opening, bank, x.rows, Draw(x, expenses))
    BY <2>6, <2>9, <2>12 DEF LeftIs
  <2>14. Job("spent", x)
    BY <2>10, <2>11, <2>13 DEF RightJob
  <2> QED
    BY <2>8, <2>14, <1>b
<1>9. ASSUME Pay(s)!Abort(w) PROVE RightInv(s)'
  <2>1. Pay(s)!Turn(w, "idle", None)
    BY <1>9 DEF Pay!Abort, Pay!GiveUp, Pay!Done
  <2>2. Job("idle", None)
    BY DEF RightJob
  <2> QED
    BY <2>1, <2>2, <1>b
<1> HIDE DEF Job
<1> QED
  BY <1>1, <1>2, <1>3, <1>4, <1>5, <1>6, <1>7, <1>8, <1>9 DEF PayReading

--------------------------------------------------------------------------------
(* What a commit leaves in the tables.                                     *)

BillSet(bs, bt, n, y, a) ==
  /\ DOMAIN bt = DOMAIN bs
  /\ bt[n] = [total |-> bs[n].total, status |-> y, paid |-> a]
  /\ \A m \in DOMAIN bs : m # n => bt[m] = bs[m]
SamePaid(ps, pt, n) ==
  \A m : m # n => RowSum(pt, PaidIn(pt, m)) = RowSum(ps, PaidIn(ps, m))
SameBill(js, k, n) ==
  /\ BillNo(n) \in DOMAIN k <=> BillNo(n) \in DOMAIN js
  /\ Stands(k, BillNo(n)) <=> Stands(js, BillNo(n))
SameBillsIn(js, k, n) == \A m : m # n => SameBill(js, k, m)

LEMMA OneBillSet ==
  ASSUME NEW bs, NEW ps, NEW js, BillsRight(bs, ps, js), NEW n, n \in DOMAIN bs,
         NEW bt, NEW y, NEW a, BillSet(bs, bt, n, y, a), NEW pt, SamePaid(ps, pt, n),
         NEW k, SameBillsIn(js, k, n),
         PaidUp(bt[n], RowSum(pt, PaidIn(pt, n))), BillPosted(n, bt[n], k)
  PROVE  BillsRight(bt, pt, k)
<1>1. ASSUME NEW m \in DOMAIN bt
      PROVE  PaidUp(bt[m], RowSum(pt, PaidIn(pt, m))) /\ BillPosted(m, bt[m], k)
  <2>1. CASE m = n
    BY <2>1
  <2>2. CASE m # n
    <3>1. m \in DOMAIN bs /\ bt[m] = bs[m]
      BY <2>2 DEF BillSet
    <3>2. RowSum(pt, PaidIn(pt, m)) = RowSum(ps, PaidIn(ps, m))
      BY <2>2 DEF SamePaid
    <3>3. PaidUp(bs[m], RowSum(ps, PaidIn(ps, m))) /\ BillPosted(m, bs[m], js)
      BY <3>1 DEF BillsRight
    <3>4. BillPosted(m, bs[m], k)
      BY <2>2, <3>3 DEF BillPosted, SameBillsIn, SameBill
    <3> QED
      BY <3>1, <3>2, <3>3, <3>4
  <2> QED
    BY <2>1, <2>2
<1> QED
  BY <1>1 DEF BillsRight

LEMMA BillsBeside ==
  ASSUME NEW js, NEW k, NEW m, SameBut(js, k, m)
  PROVE  \A n : BillNo(n) # m => SameBill(js, k, n)
BY NumbersOfRows DEF SameBut, SameBill

LEMMA CashTypes ==
  ASSUME NEW bs, NEW ps, NEW es, NEW bk, NEW js, NEW v, PayTables(bs, ps, es, bk, js, v)
  PROVE  /\ Priced(bk) /\ Priced(ps) /\ Priced(es)
         /\ RowSum(bk, OutIn(bk)) \in Int /\ RowSum(ps, BankedIn(ps)) \in Int
         /\ RowSum(es, DrawnIn(es, js)) \in Int
<1>1. Priced(ps) /\ Priced(es)
  BY DEF PayTables, OwingBooks
<1>2. Priced(bk)
  BY <1>1 DEF PayTables, DrawnRows, DrawnOK, Numbered, Priced
<1>3. OutIn(bk) \subseteq DOMAIN bk /\ BankedIn(ps) \subseteq DOMAIN ps /\ DrawnIn(es, js) \subseteq DOMAIN es
  BY DEF OutIn, BankedIn, DrawnIn
<1> QED
  BY <1>1, <1>2, <1>3, PayTotals

(* The rows that stand on the account.                                     *)
LEMMA OutGains ==
  ASSUME NEW bk, Priced(bk), NEW bl, NEW c, NEW y, Gains(bk, bl, c, y),
         y.reversed = FALSE, y.amount \in Int
  PROVE  RowSum(bl, OutIn(bl)) = RowSum(bk, OutIn(bk)) + y.amount
<1>1. PICK S, T : S = OutIn(bk) /\ T = OutIn(bl)
  OBVIOUS
<1>2. /\ DOMAIN bl = DOMAIN bk \union {c} /\ c \notin DOMAIN bk /\ bl[c] = y
      /\ \A r \in DOMAIN bk : bl[r] = bk[r]
  BY DEF Gains
<1>3. OneMore(T, S, c) /\ S \subseteq DOMAIN bk
  BY <1>1, <1>2 DEF OutIn, OneMore
<1>4. IsFiniteSet(S)
  BY <1>3, PayTotals
<1>5. SameRows(bk, bl, S) /\ RowIs(bl, c, y.amount)
  BY <1>2, <1>3 DEF SameRows, RowIs, Priced
<1>6. RowSum(bl, T) = RowSum(bk, S) + y.amount
  BY <1>3, <1>4, <1>5, RowsAdd
<1> QED
  BY <1>1, <1>6

LEMMA OutStruck ==
  ASSUME NEW bk, NEW ps, NEW es, DrawnRows(bk, ps, es), NEW R, NEW bl, Strikes(bk, R, bl)
  PROVE  /\ OutIn(bl) = OutIn(bk) \ R
         /\ RowSum(bl, OutIn(bl)) = RowSum(bk, OutIn(bk) \ R)
<1>1. /\ DOMAIN bl = DOMAIN bk
      /\ \A r \in DOMAIN bk : /\ bl[r].amount = bk[r].amount
                              /\ bl[r].reversed <=> bk[r].reversed \/ r \in R
  BY RowsAreStruck
<1>2. OutIn(bl) = OutIn(bk) \ R
  BY <1>1 DEF OutIn
<1>3. \A r \in OutIn(bk) \ R : bl[r].amount = bk[r].amount
  BY <1>1 DEF OutIn
<1> QED
  BY <1>2, <1>3, RowsSame

LEMMA OutLess ==
  ASSUME NEW bk, Priced(bk), NEW kind, NEW id, NEW r, RowsFor(bk, kind, id) = {r}
  PROVE  RowSum(bk, OutIn(bk) \ {r}) = RowSum(bk, OutIn(bk)) - bk[r].amount
<1>1. r \in OutIn(bk) /\ OutIn(bk) \subseteq DOMAIN bk
  BY DEF RowsFor, OutIn
<1>2. PICK T : T = OutIn(bk) \ {r}
  OBVIOUS
<1>3. OneMore(OutIn(bk), T, r)
  BY <1>1, <1>2 DEF OneMore
<1>4. RowSum(bk, T) = RowSum(bk, OutIn(bk)) - bk[r].amount
  BY <1>1, <1>3, PayTotalLess
<1> QED
  BY <1>2, <1>4

--------------------------------------------------------------------------------
(* A bill is decided. *)

BillWrites(j) ==
  /\ BillSet(bills, bills', j.bill, j.status, bills[j.bill].paid)
  /\ UNCHANGED <<payments, expenses, bank, balance>>
  /\ j.status = "APPROVED" => PostsAt(journals, BillNo(j.bill), journals')
  /\ j.status = "VOID" => TakesBack(journals, BillNo(j.bill), journals')
  /\ j.status \notin {"APPROVED", "VOID"} => journals' = journals

LEMMA BillCommitWrites ==
  ASSUME NEW s, NEW w \in s.workers, PayInv(s), Pay(s)!BillCommit(w)
  PROVE  BillWrites(job[w])
<1>1. PICK j, n, y : j = job[w] /\ n = j.bill /\ y = j.status
  OBVIOUS
<1>2. /\ bills' = [bills EXCEPT ![n].status = y]
      /\ UNCHANGED <<payments, expenses, bank, balance>>
      /\ Pay(s)!At(w, "deciding")
  BY <1>1 DEF Pay!BillCommit
<1>3. n \in DOMAIN bills /\ y \in BillStates /\ BillRows(bills)
  BY <1>1, <1>2 DEF PayInv, PayTables, PayJob, Pay!At, BillRows
<1>4. PICK a : a = bills[n].paid
  OBVIOUS
<1>5. Decided(bills, bills', n, y, a) /\ a \in Int
  BY <1>2, <1>3, <1>4 DEF Decided, BillRows, BillOK
<1>6. BillSet(bills, bills', n, y, a)
  BY <1>3, <1>5, BillWritten DEF BillSet
<1>7. /\ y = "APPROVED" => journals' = Posted(journals, BillNo(n), Pair("5000", "2000", bills[n].total))
      /\ y = "VOID" => journals' = Reversed(journals, BillNo(n), UndoNo(BillNo(n)))
      /\ y \notin {"APPROVED", "VOID"} => journals' = journals
  BY <1>1, PayBooks DEF Pay!BillCommit, Pay!Undone, BillNo, UndoNo
<1>8. BillWrites(j)
  BY <1>1, <1>2, <1>4, <1>6, <1>7 DEF BillWrites, PostsAt, TakesBack
<1> QED
  BY <1>1, <1>8

LEMMA RightBillCommit ==
  ASSUME NEW s, NEW w \in s.workers, OneAtOnce(s), RightInv(s), Pay(s)!BillCommit(w)
  PROVE  RightInv(s)'
<1>1. PICK j, n, y, b : j = job[w] /\ n = j.bill /\ y = j.status /\ b = bills[n]
  OBVIOUS
<1>2. PayInv(s) /\ PayInv(s)' /\ Pay(s)!Done(w) /\ Pay(s)!At(w, "deciding")
  BY PayBillCommit DEF RightInv, Pay!BillCommit
<1>3. /\ PayTables(bills, payments, expenses, bank, journals, balance)
      /\ RightTables(s.opening, balance, bills, payments, expenses, bank, journals)
      /\ n \in DOMAIN bills /\ DecidesOn(j, bills)
  BY <1>1, <1>2 DEF RightInv, PayInv, PayJob, RightJob, Pay!At
<1>4. /\ BillOK(b) /\ PaidUp(b, RowSum(payments, PaidIn(payments, n))) /\ BillPosted(n, b, journals)
      /\ OwingBooks(Dues(bills), payments, expenses, journals)
  BY <1>1, <1>3 DEF PayTables, RightTables, BillsRight
<1>5. BillWrites(j)
  BY <1>1, <1>2, BillCommitWrites
<1>6. /\ BillSet(bills, bills', n, y, b.paid)
      /\ UNCHANGED <<payments, expenses, bank, balance>>
  BY <1>1, <1>5 DEF BillWrites
<1>7. y \in Unposted \union {"APPROVED", "VOID"} /\ b.paid <= 0 /\ (y # "VOID" => b.status \in Unposted)
  BY <1>1, <1>3 DEF DecidesOn
<1>8. /\ SameBut(journals, journals', BillNo(n))
      /\ y \in Unposted => BillNo(n) \notin DOMAIN journals'
      /\ Stands(journals', BillNo(n)) <=> y \notin Unposted \union {"VOID"}
  <2>1. CASE y = "APPROVED"
    <3>1. PostsAt(journals, BillNo(n), journals')
      BY <1>1, <1>5, <2>1 DEF BillWrites
    <3>2. BillNo(n) \notin DOMAIN journals
      BY <1>4, <1>7, <2>1 DEF BillPosted
    <3>3. SameBut(journals, journals', BillNo(n)) /\ Stands(journals', BillNo(n))
      BY <3>1, <3>2, PostedStands
    <3> QED
      BY <2>1, <3>3 DEF Unposted
  <2>2. CASE y = "VOID"
    <3>1. TakesBack(journals, BillNo(n), journals')
      BY <1>1, <1>5, <2>2 DEF BillWrites
    <3>2. SameBut(journals, journals', BillNo(n)) /\ ~Stands(journals', BillNo(n))
      BY <1>4, <3>1, TakenBackStands
    <3> QED
      BY <2>2, <3>2 DEF Unposted
  <2>3. CASE y \in Unposted
    <3>1. journals' = journals
      BY <1>1, <1>5, <2>3 DEF BillWrites, Unposted
    <3>2. BillNo(n) \notin DOMAIN journals
      BY <1>4, <1>7, <2>3 DEF BillPosted, Unposted
    <3> QED
      BY <2>3, <3>1, <3>2 DEF SameBut, Stands
  <2> QED
    BY <1>7, <2>1, <2>2, <2>3
<1>9. BillsRight(bills', payments', journals')
  <2>1. PICK c : c = [total |-> b.total, status |-> y, paid |-> b.paid]
    OBVIOUS
  <2>2. bills'[n] = c /\ c.status = y /\ c.total = b.total /\ c.paid = b.paid
    BY <1>1, <1>6, <2>1 DEF BillSet
  <2>3. BillPosted(n, c, journals')
    BY <1>8, <2>2 DEF BillPosted
  <2>4. b.paid = 0
    <3>1. RowSum(payments, PaidIn(payments, n)) \in Nat
      <4>1. Priced(payments) /\ PaidIn(payments, n) \subseteq DOMAIN payments
        BY <1>4 DEF OwingBooks, PaidIn
      <4> QED
        BY <4>1, RowsNat
    <3> QED
      BY <1>4, <1>7, <3>1 DEF PaidUp
  <2>5. PaidUp(c, RowSum(payments, PaidIn(payments, n)))
    BY <1>4, <1>7, <2>2, <2>4 DEF PaidUp, BillOK, Unposted
  <2>6. SamePaid(payments, payments', n) /\ SameBillsIn(journals, journals', n)
    BY <1>6, <1>8, BillsBeside, PayNumbers DEF SamePaid, SameBillsIn
  <2>7. PaidUp(bills'[n], RowSum(payments', PaidIn(payments', n))) /\ BillPosted(n, bills'[n], journals')
    BY <1>6, <2>2, <2>3, <2>5
  <2> QED
    BY <1>3, <1>6, <2>6, <2>7, OneBillSet DEF RightTables
<1>10. ExpensesRight(expenses, bank, journals') /\ DrawnIn(expenses, journals') = DrawnIn(expenses, journals)
  <2>1. ExpensesRight(expenses, bank, journals) /\ \A e : BillNo(n) # ExpenseNo(e)
    BY <1>3, PayNumbers DEF RightTables
  <2> QED
    BY <1>8, <2>1, ExpensesElsewhere
<1>11. RightAfter(s)
  BY <1>3, <1>6, <1>9, <1>10 DEF RightAfter, RightTables, CashRight
<1> QED
  BY <1>2, <1>11, RightDone

--------------------------------------------------------------------------------
(* A payment is entered. *)

PaidState(v, t) == IF v >= t THEN "PAID" ELSE "PARTIALLY_PAID"
PaymentRow(j) == [bill |-> j.bill, amount |-> j.amount, bank |-> j.bank, reversed |-> FALSE]

PayWrites(j) ==
  /\ BillSet(bills, bills', j.bill, PaidState(j.seen.paid + j.amount, bills[j.bill].total),
             j.seen.paid + j.amount)
  /\ Gains(payments, payments', j.ref, PaymentRow(j))
  /\ j.bank => /\ \E c : Gains(bank, bank', c, LinkedRow(j.ref, j.amount))
               /\ balance' = j.balance
  /\ ~j.bank => UNCHANGED <<bank, balance>>
  /\ PostsAt(journals, PaymentNo(j.ref), journals')
  /\ expenses' = expenses

LEMMA PayCommitWrites ==
  ASSUME NEW s, NEW w \in s.workers, PayInv(s), Pay(s)!PayCommit(w)
  PROVE  PayWrites(job[w])
<1>1. PICK j, p, n, v : j = job[w] /\ p = j.ref /\ n = j.bill /\ v = j.seen.paid + j.amount
  OBVIOUS
<1>2. /\ Pay(s)!At(w, "paid") /\ p \notin DOMAIN payments /\ expenses' = expenses
  BY <1>1 DEF Pay!PayCommit
<1>3. /\ PayTables(bills, payments, expenses, bank, journals, balance)
      /\ PaymentJob(j, bills)
  BY <1>1, <1>2 DEF PayInv, PayJob, Pay!At
<1>4. PICK y : y = PaidState(v, bills[n].total)
  OBVIOUS
<1>5. /\ BillRows(bills) /\ n \in DOMAIN bills /\ y \in BillStates /\ v \in Int
      /\ DrawnRows(bank, payments, expenses)
  BY <1>1, <1>3, <1>4 DEF PayTables, PaymentJob, BillStates, BillRows, PaidState
<1>6. Decided(bills, bills', n, y, v)
  BY <1>1, <1>4 DEF Decided, PaidState, Pay!PayCommit
<1>7. BillSet(bills, bills', n, y, v)
  BY <1>5, <1>6, BillWritten DEF BillSet
<1>8. PICK row : row = PaymentRow(j)
  OBVIOUS
<1>9. Gains(payments, payments', p, row)
  <2>1. payments' = Pay(s)!Entered(payments, p, row)
    BY <1>1, <1>8 DEF Pay!PayCommit, PaymentRow
  <2>2. payments' = Entered(payments, p, row)
    BY <2>1, PayBooks
  <2> QED
    BY <1>2, <2>2 DEF Gains, Entered
<1>10. j.bank => (\E c : Gains(bank, bank', c, LinkedRow(p, j.amount))) /\ balance' = j.balance
  <2> SUFFICES ASSUME j.bank
               PROVE  (\E c : Gains(bank, bank', c, LinkedRow(p, j.amount))) /\ balance' = j.balance
    OBVIOUS
  <2>1. PICK c : c = Pay(s)!Next1(bank)
    OBVIOUS
  <2>2. /\ bank' = Pay(s)!Linked(Pay(s)!Entered(bank, c, Pay(s)!BankRow("PAYMENT", None, p, j.amount)), p)
        /\ balance' = j.balance
    BY <1>1, <2>1 DEF Pay!PayCommit
  <2>3. Gains(bank, bank', c, LinkedRow(p, j.amount))
    BY <1>2, <1>5, <2>1, <2>2, PayLinked
  <2> QED
    BY <2>2, <2>3
<1>11. ~j.bank => UNCHANGED <<bank, balance>>
  BY <1>1 DEF Pay!PayCommit
<1>12. PostsAt(journals, PaymentNo(p), journals')
  <2>1. journals' = Posted(journals, PaymentNo(p), Pair("2000", "1000", j.amount))
    BY <1>1, PayBooks DEF Pay!PayCommit, PaymentNo
  <2> QED
    BY <2>1 DEF PostsAt
<1>13. PayWrites(j)
  BY <1>1, <1>2, <1>4, <1>7, <1>8, <1>9, <1>10, <1>11, <1>12 DEF PayWrites
<1> QED
  BY <1>1, <1>13

(* What is paid, and drawn on the account, when a payment p comes.         *)
LEMMA PaidGains ==
  ASSUME NEW ps, Priced(ps), NEW pt, NEW p, NEW x, Gains(ps, pt, p, x),
         x.reversed = FALSE, x.amount \in Int, x.bank \in BOOLEAN
  PROVE  /\ RowSum(pt, PaidIn(pt, x.bill)) = RowSum(ps, PaidIn(ps, x.bill)) + x.amount
         /\ SamePaid(ps, pt, x.bill)
         /\ x.bank => RowSum(pt, BankedIn(pt)) = RowSum(ps, BankedIn(ps)) + x.amount
         /\ ~x.bank => RowSum(pt, BankedIn(pt)) = RowSum(ps, BankedIn(ps))
<1>0. /\ DOMAIN pt = DOMAIN ps \union {p} /\ p \notin DOMAIN ps /\ pt[p] = x
      /\ \A q \in DOMAIN ps : pt[q] = ps[q]
  BY DEF Gains
<1>1. ASSUME NEW S, NEW T, OneMore(T, S, p), S \subseteq DOMAIN ps
      PROVE  RowSum(pt, T) = RowSum(ps, S) + x.amount
  <2>1. IsFiniteSet(S)
    BY <1>1, PayTotals
  <2>2. SameRows(ps, pt, S) /\ RowIs(pt, p, x.amount)
    BY <1>0, <1>1 DEF SameRows, RowIs, Priced
  <2> QED
    BY <1>1, <2>1, <2>2, RowsAdd
<1>2. \A S : S \subseteq DOMAIN ps => RowSum(pt, S) = RowSum(ps, S)
  <2> SUFFICES ASSUME NEW S, S \subseteq DOMAIN ps PROVE RowSum(pt, S) = RowSum(ps, S)
    OBVIOUS
  <2>1. \A q \in S : pt[q].amount = ps[q].amount
    BY <1>0
  <2> QED
    BY <2>1, RowsSame
<1>3. PICK n : n = x.bill
  OBVIOUS
<1>4. RowSum(pt, PaidIn(pt, n)) = RowSum(ps, PaidIn(ps, n)) + x.amount
  <2>1. OneMore(PaidIn(pt, n), PaidIn(ps, n), p) /\ PaidIn(ps, n) \subseteq DOMAIN ps
    BY <1>0, <1>3 DEF PaidIn, OneMore
  <2> QED
    BY <1>1, <2>1
<1>5. SamePaid(ps, pt, n)
  <2> SUFFICES ASSUME NEW m, m # n
               PROVE  RowSum(pt, PaidIn(pt, m)) = RowSum(ps, PaidIn(ps, m))
    BY DEF SamePaid
  <2>1. PaidIn(pt, m) = PaidIn(ps, m) /\ PaidIn(ps, m) \subseteq DOMAIN ps
    BY <1>0, <1>3 DEF PaidIn
  <2> QED
    BY <1>2, <2>1
<1>6. x.bank => RowSum(pt, BankedIn(pt)) = RowSum(ps, BankedIn(ps)) + x.amount
  <2> SUFFICES ASSUME x.bank
               PROVE  RowSum(pt, BankedIn(pt)) = RowSum(ps, BankedIn(ps)) + x.amount
    OBVIOUS
  <2>1. OneMore(BankedIn(pt), BankedIn(ps), p) /\ BankedIn(ps) \subseteq DOMAIN ps
    BY <1>0 DEF BankedIn, Banks, OneMore
  <2> QED
    BY <1>1, <2>1
<1>7. ~x.bank => RowSum(pt, BankedIn(pt)) = RowSum(ps, BankedIn(ps))
  <2> SUFFICES ASSUME ~x.bank
               PROVE  RowSum(pt, BankedIn(pt)) = RowSum(ps, BankedIn(ps))
    OBVIOUS
  <2>1. BankedIn(pt) = BankedIn(ps) /\ BankedIn(ps) \subseteq DOMAIN ps
    BY <1>0 DEF BankedIn, Banks
  <2> QED
    BY <1>2, <2>1
<1> QED
  BY <1>3, <1>4, <1>5, <1>6, <1>7

LEMMA RightPayCommit ==
  ASSUME NEW s, NEW w \in s.workers, OneAtOnce(s), PayScene(s), RightInv(s), Pay(s)!PayCommit(w)
  PROVE  RightInv(s)'
<1>1. PICK j, n, p, b, v : /\ j = job[w] /\ n = j.bill /\ p = j.ref /\ b = bills[n]
                           /\ v = j.seen.paid + j.amount
  OBVIOUS
<1>2. PayInv(s) /\ PayInv(s)' /\ Pay(s)!Done(w) /\ Pay(s)!At(w, "paid")
  BY PayPayCommit DEF RightInv, Pay!PayCommit
<1>3. /\ PayTables(bills, payments, expenses, bank, journals, balance)
      /\ RightTables(s.opening, balance, bills, payments, expenses, bank, journals)
      /\ PaymentJob(j, bills) /\ StillFits(j, bills)
      /\ j.bank => LeftIs(j.balance, s.opening, bank, {}, j.amount)
  BY <1>1, <1>2 DEF RightInv, PayInv, PayJob, RightJob, Pay!At
<1>4. /\ n \in DOMAIN bills /\ j.amount \in Nat \ {0} /\ j.bank \in BOOLEAN
      /\ b.status \in {"APPROVED", "PARTIALLY_PAID", "OVERDUE"}
      /\ v = b.paid + j.amount /\ j.amount <= b.total - b.paid
  BY <1>1, <1>3 DEF PaymentJob, StillFits
<1>5. /\ BillOK(b) /\ PaidUp(b, RowSum(payments, PaidIn(payments, n))) /\ BillPosted(n, b, journals)
      /\ OwingBooks(Dues(bills), payments, expenses, journals)
  BY <1>1, <1>3, <1>4 DEF PayTables, RightTables, BillsRight
<1>6. PayWrites(j)
  BY <1>1, <1>2, PayCommitWrites
<1>7. PICK x, y : x = PaymentRow(j) /\ y = PaidState(v, b.total)
  OBVIOUS
<1>8. /\ BillSet(bills, bills', n, y, v) /\ Gains(payments, payments', p, x)
      /\ expenses' = expenses
      /\ PostsAt(journals, PaymentNo(p), journals')
  BY <1>1, <1>6, <1>7 DEF PayWrites
<1>9. /\ x.bill = n /\ x.amount = j.amount /\ x.bank = j.bank /\ x.reversed = FALSE
      /\ x.amount \in Int /\ x.bank \in BOOLEAN
  BY <1>1, <1>4, <1>7 DEF PaymentRow
<1>10. /\ RowSum(payments', PaidIn(payments', n)) = RowSum(payments, PaidIn(payments, n)) + j.amount
       /\ SamePaid(payments, payments', n)
       /\ j.bank => RowSum(payments', BankedIn(payments')) = RowSum(payments, BankedIn(payments)) + j.amount
       /\ ~j.bank => RowSum(payments', BankedIn(payments')) = RowSum(payments, BankedIn(payments))
  <2>1. Priced(payments)
    BY <1>5 DEF OwingBooks
  <2>2. /\ RowSum(payments', PaidIn(payments', x.bill)) =
             RowSum(payments, PaidIn(payments, x.bill)) + x.amount
        /\ SamePaid(payments, payments', x.bill)
        /\ x.bank => RowSum(payments', BankedIn(payments')) =
                       RowSum(payments, BankedIn(payments)) + x.amount
        /\ ~x.bank => RowSum(payments', BankedIn(payments')) =
                        RowSum(payments, BankedIn(payments))
    BY ONLY <1>8, <1>9, <2>1, PaidGains
  <2> QED
    BY <1>9, <2>2
<1>11. SameBut(journals, journals', PaymentNo(p))
  BY <1>8, PostedStands
<1>12. \A m : SameBill(journals, journals', m)
  BY <1>11, BillsBeside, PayNumbers
<1>13. BillsRight(bills', payments', journals')
  <2>1. PICK c : c = bills'[n]
    OBVIOUS
  <2>2. c.status = y /\ c.total = b.total /\ c.paid = v
    BY <1>1, <1>8, <2>1 DEF BillSet
  <2>3. PaidUp(c, RowSum(payments', PaidIn(payments', n)))
    BY <1>4, <1>5, <1>7, <1>10, <2>2 DEF PaidUp, PaidState, BillOK
  <2>4. BillPosted(n, c, journals')
    <3>1. Stands(journals, BillNo(n))
      BY <1>4, <1>5 DEF BillPosted, Unposted
    <3> QED
      BY <1>7, <1>12, <2>2, <3>1 DEF BillPosted, SameBill, Unposted, PaidState
  <2>5. SameBillsIn(journals, journals', n)
    BY <1>12 DEF SameBillsIn
  <2> QED
    BY <1>3, <1>4, <1>8, <1>10, <2>1, <2>3, <2>4, <2>5, OneBillSet DEF RightTables
<1>14. /\ \A e : RowsFor(bank', "EXPENSE", e) = RowsFor(bank, "EXPENSE", e)
       /\ balance' = s.opening - RowSum(bank', OutIn(bank'))
       /\ RowSum(bank', OutIn(bank')) - RowSum(bank, OutIn(bank))
            = RowSum(payments', BankedIn(payments')) - RowSum(payments, BankedIn(payments))
  <2>0. /\ balance = s.opening - RowSum(bank, OutIn(bank)) /\ s.opening \in Int
        /\ RowSum(bank, OutIn(bank)) \in Int /\ RowSum(payments, BankedIn(payments)) \in Int
    BY <1>3, CashTypes DEF RightTables, CashRight, PayScene
  <2>1. CASE j.bank
    <3>1. PICK z : z = LinkedRow(p, j.amount)
      OBVIOUS
    <3>2. PICK c : Gains(bank, bank', c, z)
      BY <1>1, <1>6, <2>1, <3>1 DEF PayWrites
    <3>3. z.kind = "PAYMENT" /\ z.reversed = FALSE /\ z.amount = j.amount /\ z.amount \in Int
      BY <1>4, <3>1 DEF LinkedRow
    <3>4. \A e : RowsFor(bank', "EXPENSE", e) = RowsFor(bank, "EXPENSE", e)
      BY <3>2, <3>3, RowsForMore
    <3>5. RowSum(bank', OutIn(bank')) = RowSum(bank, OutIn(bank)) + j.amount
      BY <1>2, <3>2, <3>3, BankPriced, OutGains
    <3>6. balance' = s.opening - RowSum(bank, OutIn(bank)) - j.amount
      <4>1. OutIn(bank) \ {} = OutIn(bank) /\ balance' = j.balance
        BY <1>1, <1>6, <2>1 DEF PayWrites
      <4> QED
        BY <1>3, <2>1, <4>1 DEF LeftIs
    <3> QED
      BY <1>4, <1>10, <2>0, <2>1, <3>4, <3>5, <3>6
  <2>2. CASE ~j.bank
    <3>1. bank' = bank /\ balance' = balance
      BY <1>6, <2>2 DEF PayWrites
    <3> QED
      BY <1>10, <2>0, <2>2, <3>1
  <2> QED
    BY <1>4, <2>1, <2>2
<1>15. /\ ExpensesRight(expenses, bank', journals')
       /\ DrawnIn(expenses, journals') = DrawnIn(expenses, journals)
  <2>1. ExpensesRight(expenses, bank, journals) /\ \A e : PaymentNo(p) # ExpenseNo(e)
    BY <1>3, PayNumbers DEF RightTables
  <2> QED
    BY <1>11, <1>14, <2>1, ExpensesElsewhere
<1>16. CashRight(s.opening, balance', payments', expenses, bank', journals')
  <2>1. RowSum(bank, OutIn(bank)) =
          RowSum(payments, BankedIn(payments)) + RowSum(expenses, DrawnIn(expenses, journals))
    BY <1>3 DEF RightTables, CashRight
  <2>2. PayTables(bills', payments', expenses', bank', journals', balance')
    BY <1>2 DEF PayInv
  <2>3. /\ RowSum(bank', OutIn(bank')) \in Int /\ RowSum(payments, BankedIn(payments)) \in Int
        /\ RowSum(expenses, DrawnIn(expenses, journals)) \in Int
        /\ RowSum(payments', BankedIn(payments')) \in Int
    BY <1>3, <2>2, CashTypes
  <2> QED
    BY <1>14, <1>15, <2>1, <2>3 DEF CashRight
<1>17. RightAfter(s)
  BY <1>8, <1>13, <1>15, <1>16 DEF RightAfter, RightTables
<1> QED
  BY <1>2, <1>17, RightDone

--------------------------------------------------------------------------------
(* A payment is reversed. *)

Withdrawn(ps, pt, p) ==
  /\ DOMAIN pt = DOMAIN ps /\ \A q \in DOMAIN ps : q # p => pt[q] = ps[q]
  /\ pt[p].amount = ps[p].amount /\ pt[p].reversed = TRUE

UnpayWrites(j) ==
  /\ BillSet(bills, bills', payments[j.payment].bill,
             IF j.paid > 0 THEN "PARTIALLY_PAID" ELSE "APPROVED", j.paid)
  /\ Withdrawn(payments, payments', j.payment)
  /\ Strikes(bank, j.rows, bank') /\ balance' = IF j.rows = {} THEN balance ELSE j.balance
  /\ TakesBack(journals, PaymentNo(j.payment), journals')
  /\ expenses' = expenses

LEMMA UnpayCommitWrites ==
  ASSUME NEW s, NEW w \in s.workers, PayInv(s), Pay(s)!UnpayCommit(w)
  PROVE  UnpayWrites(job[w])
<1>1. PICK j, p, n, v : j = job[w] /\ p = j.payment /\ n = payments[p].bill /\ v = j.paid
  OBVIOUS
<1>2. Pay(s)!At(w, "unpaid") /\ expenses' = expenses
  BY DEF Pay!UnpayCommit
<1>3. /\ PayTables(bills, payments, expenses, bank, journals, balance)
      /\ p \in DOMAIN payments /\ ReversalJob(j, payments)
  BY <1>1, <1>2 DEF PayInv, PayJob, Pay!At
<1>4. PICK y : y = IF v > 0 THEN "PARTIALLY_PAID" ELSE "APPROVED"
  OBVIOUS
<1>5. BillRows(bills) /\ n \in DOMAIN bills /\ y \in BillStates /\ v \in Int
  BY <1>1, <1>3, <1>4 DEF PayTables, ReversalJob, PaymentOK, BillStates, BillRows
<1>6. Decided(bills, bills', n, y, v)
  BY <1>1, <1>4 DEF Decided, Pay!UnpayCommit
<1>7. BillSet(bills, bills', n, y, v)
  BY <1>5, <1>6, BillWritten DEF BillSet
<1>8. Withdrawn(payments, payments', p)
  <2>1. PICK o : o = payments[p]
    OBVIOUS
  <2>2. o = [bill |-> o.bill, amount |-> o.amount, bank |-> o.bank, reversed |-> o.reversed]
    BY <1>3, <2>1 DEF PayTables, PaymentOK
  <2>3. payments' = [payments EXCEPT ![p].reversed = TRUE]
    BY <1>1 DEF Pay!UnpayCommit
  <2>4. payments'[p] = [o EXCEPT !.reversed = TRUE]
    BY <1>3, <2>1, <2>3
  <2>5. payments'[p] = [bill |-> o.bill, amount |-> o.amount, bank |-> o.bank, reversed |-> TRUE]
    BY <2>2, <2>4
  <2>6. /\ DOMAIN payments' = DOMAIN payments
        /\ \A q \in DOMAIN payments : q # p => payments'[q] = payments[q]
    BY <2>3
  <2> QED
    BY <2>1, <2>5, <2>6 DEF Withdrawn
<1>9. /\ Strikes(bank, j.rows, bank')
      /\ balance' = IF j.rows = {} THEN balance ELSE j.balance
  <2>1. bank' = Pay(s)!Struck(j.rows) /\ balance' = IF j.rows = {} THEN balance ELSE j.balance
    BY <1>1 DEF Pay!UnpayCommit
  <2>2. Strikes(bank, j.rows, bank')
    BY Zenon, <2>1 DEF Pay!Struck, StruckRows, Strikes
  <2> QED
    BY <2>1, <2>2
<1>10. TakesBack(journals, PaymentNo(p), journals')
  BY <1>1, PayBooks DEF Pay!UnpayCommit, Pay!Undone, PaymentNo, UndoNo, TakesBack
<1>11. UnpayWrites(j)
  BY <1>1, <1>2, <1>4, <1>7, <1>8, <1>9, <1>10 DEF UnpayWrites
<1> QED
  BY <1>1, <1>11

(* What is paid, and drawn on the account, when the payment p goes.        *)
LEMMA PaidLoses ==
  ASSUME NEW ps, Priced(ps), NEW p \in DOMAIN ps, ~ps[p].reversed, NEW pt, Withdrawn(ps, pt, p)
  PROVE  /\ RowSum(pt, PaidIn(pt, ps[p].bill)) = RowSum(ps, PaidIn(ps, ps[p].bill)) - ps[p].amount
         /\ SamePaid(ps, pt, ps[p].bill)
         /\ ps[p].bank => RowSum(pt, BankedIn(pt)) = RowSum(ps, BankedIn(ps)) - ps[p].amount
         /\ ~ps[p].bank => RowSum(pt, BankedIn(pt)) = RowSum(ps, BankedIn(ps))
<1>0. /\ DOMAIN pt = DOMAIN ps /\ \A q \in DOMAIN ps : q # p => pt[q] = ps[q]
      /\ pt[p].reversed = TRUE /\ \A q \in DOMAIN ps : pt[q].amount = ps[q].amount
  BY DEF Withdrawn
<1>1. ASSUME NEW S, NEW T, OneMore(S, T, p), S \subseteq DOMAIN ps
      PROVE  RowSum(pt, T) = RowSum(ps, S) - ps[p].amount
  <2>1. IsFiniteSet(S) /\ T \subseteq DOMAIN ps
    BY <1>1, PayTotals DEF OneMore
  <2>2. SameRows(ps, pt, T) /\ RowIs(ps, p, ps[p].amount)
    BY <1>0, <2>1 DEF SameRows, RowIs, Priced
  <2> QED
    BY <1>1, <2>1, <2>2, RowsRemove
<1>2. \A S : S \subseteq DOMAIN ps => RowSum(pt, S) = RowSum(ps, S)
  <2> SUFFICES ASSUME NEW S, S \subseteq DOMAIN ps PROVE RowSum(pt, S) = RowSum(ps, S)
    OBVIOUS
  <2>1. \A q \in S : pt[q].amount = ps[q].amount
    BY <1>0
  <2> QED
    BY <2>1, RowsSame
<1>3. PICK n : n = ps[p].bill
  OBVIOUS
<1>4. RowSum(pt, PaidIn(pt, n)) = RowSum(ps, PaidIn(ps, n)) - ps[p].amount
  <2>1. OneMore(PaidIn(ps, n), PaidIn(pt, n), p) /\ PaidIn(ps, n) \subseteq DOMAIN ps
    BY <1>0, <1>3 DEF PaidIn, OneMore
  <2> QED
    BY <1>1, <2>1
<1>5. SamePaid(ps, pt, n)
  <2> SUFFICES ASSUME NEW m, m # n
               PROVE  RowSum(pt, PaidIn(pt, m)) = RowSum(ps, PaidIn(ps, m))
    BY DEF SamePaid
  <2>1. PaidIn(pt, m) = PaidIn(ps, m) /\ PaidIn(ps, m) \subseteq DOMAIN ps
    BY <1>0, <1>3 DEF PaidIn
  <2> QED
    BY <1>2, <2>1
<1>6. ps[p].bank => RowSum(pt, BankedIn(pt)) = RowSum(ps, BankedIn(ps)) - ps[p].amount
  <2> SUFFICES ASSUME ps[p].bank
               PROVE  RowSum(pt, BankedIn(pt)) = RowSum(ps, BankedIn(ps)) - ps[p].amount
    OBVIOUS
  <2>1. OneMore(BankedIn(ps), BankedIn(pt), p) /\ BankedIn(ps) \subseteq DOMAIN ps
    BY <1>0 DEF BankedIn, Banks, OneMore
  <2> QED
    BY <1>1, <2>1
<1>7. ~ps[p].bank => RowSum(pt, BankedIn(pt)) = RowSum(ps, BankedIn(ps))
  <2> SUFFICES ASSUME ~ps[p].bank
               PROVE  RowSum(pt, BankedIn(pt)) = RowSum(ps, BankedIn(ps))
    OBVIOUS
  <2>1. BankedIn(pt) = BankedIn(ps) /\ BankedIn(ps) \subseteq DOMAIN ps
    BY <1>0 DEF BankedIn, Banks
  <2> QED
    BY <1>2, <2>1
<1> QED
  BY <1>3, <1>4, <1>5, <1>6, <1>7

LEMMA RightUnpayCommit ==
  ASSUME NEW s, NEW w \in s.workers, OneAtOnce(s), PayScene(s), RightInv(s), Pay(s)!UnpayCommit(w)
  PROVE  RightInv(s)'
<1>1. PICK j, p, x, n, b, v : /\ j = job[w] /\ p = j.payment /\ x = payments[p] /\ n = x.bill
                              /\ b = bills[n] /\ v = j.paid
  OBVIOUS
<1>2. PayInv(s) /\ PayInv(s)' /\ Pay(s)!Done(w) /\ Pay(s)!At(w, "unpaid")
  BY PayUnpayCommit DEF RightInv, Pay!UnpayCommit
<1>3. /\ PayTables(bills, payments, expenses, bank, journals, balance)
      /\ RightTables(s.opening, balance, bills, payments, expenses, bank, journals)
      /\ p \in DOMAIN payments /\ ~x.reversed
      /\ PaidLess(j, bills, payments)
      /\ RowsFound(j, bank) /\ LeftIs(j.balance, s.opening, bank, j.rows, 0)
  BY <1>1, <1>2 DEF RightInv, PayInv, PayJob, RightJob, Pay!At
<1>4. PaymentOK(x, bills)
  BY <1>1, <1>3 DEF PayTables
<1>5. n \in DOMAIN bills /\ x.amount \in Nat \ {0} /\ x.bank \in BOOLEAN
  BY <1>1, <1>4 DEF PaymentOK
<1>6. /\ BillOK(b) /\ PaidUp(b, RowSum(payments, PaidIn(payments, n))) /\ BillPosted(n, b, journals)
      /\ OwingBooks(Dues(bills), payments, expenses, journals)
      /\ Priced(payments)
  BY <1>1, <1>3, <1>5 DEF PayTables, RightTables, BillsRight, OwingBooks
<1>7. v = b.paid - x.amount /\ v \in Nat /\ b.paid > 0
  <2>1. PICK S, T : S = PaidIn(payments, n) /\ T = PaidIn(payments', n)
    OBVIOUS
  <2>2. p \in S /\ S \subseteq DOMAIN payments
    BY <1>1, <1>3, <2>1 DEF PaidIn
  <2>3. RowSum(payments, S) \in Nat \ {0}
    BY <1>6, <2>2, RowsPositive
  <2>4. PICK R : R = S \ {p}
    OBVIOUS
  <2>5. RowSum(payments, R) = RowSum(payments, S) - x.amount
    <3>1. OneMore(S, R, p)
      BY <2>2, <2>4 DEF OneMore
    <3>2. RowSum(payments, R) = RowSum(payments, S) - payments[p].amount
      BY <1>6, <2>2, <3>1, PayTotalLess
    <3> QED
      BY <1>1, <3>2
  <2>6. RowSum(payments, R) \in Nat
    BY <1>6, <2>2, <2>4, RowsNat
  <2>7. v = b.paid - x.amount
    BY <1>1, <1>3 DEF PaidLess
  <2>8. b.paid = RowSum(payments, S)
    BY <1>6, <2>1 DEF PaidUp
  <2> QED
    BY <2>3, <2>5, <2>6, <2>7, <2>8
<1>8. UnpayWrites(j)
  BY <1>1, <1>2, UnpayCommitWrites
<1>9. PICK y : y = IF v > 0 THEN "PARTIALLY_PAID" ELSE "APPROVED"
  OBVIOUS
<1>10. /\ BillSet(bills, bills', n, y, v) /\ Withdrawn(payments, payments', p)
       /\ expenses' = expenses
       /\ TakesBack(journals, PaymentNo(p), journals')
  BY <1>1, <1>8, <1>9 DEF UnpayWrites
<1>11. /\ RowSum(payments', PaidIn(payments', n)) = RowSum(payments, PaidIn(payments, n)) - x.amount
       /\ SamePaid(payments, payments', n)
       /\ x.bank => RowSum(payments', BankedIn(payments')) = RowSum(payments, BankedIn(payments)) - x.amount
       /\ ~x.bank => RowSum(payments', BankedIn(payments')) = RowSum(payments, BankedIn(payments))
  <2>1. ~payments[p].reversed
    BY <1>1, <1>3
  <2>2. /\ RowSum(payments', PaidIn(payments', payments[p].bill)) =
             RowSum(payments, PaidIn(payments, payments[p].bill)) - payments[p].amount
        /\ SamePaid(payments, payments', payments[p].bill)
        /\ payments[p].bank =>
             RowSum(payments', BankedIn(payments')) = RowSum(payments, BankedIn(payments)) - payments[p].amount
        /\ ~payments[p].bank =>
             RowSum(payments', BankedIn(payments')) = RowSum(payments, BankedIn(payments))
    BY ONLY <1>3, <1>6, <1>10, <2>1, PaidLoses
  <2> QED
    BY <1>1, <2>2
<1>12. SameBut(journals, journals', PaymentNo(p))
  BY <1>6, <1>10, TakenBackStands
<1>13. \A m : SameBill(journals, journals', m)
  BY <1>12, BillsBeside, PayNumbers
<1>14. BillsRight(bills', payments', journals')
  <2>1. PICK c : c = bills'[n]
    OBVIOUS
  <2>2. c.status = y /\ c.total = b.total /\ c.paid = v
    BY <1>1, <1>10, <2>1 DEF BillSet
  <2>3. PaidUp(c, RowSum(payments', PaidIn(payments', n)))
    BY <1>5, <1>6, <1>7, <1>9, <1>11, <2>2 DEF PaidUp, BillOK
  <2>4. BillPosted(n, c, journals')
    <3>1. Stands(journals, BillNo(n))
      BY <1>6, <1>7 DEF BillPosted, PaidUp, Unposted
    <3> QED
      BY <1>9, <1>13, <2>2, <3>1 DEF BillPosted, SameBill, Unposted
  <2>5. SameBillsIn(journals, journals', n)
    BY <1>13 DEF SameBillsIn
  <2> QED
    BY <1>3, <1>5, <1>10, <1>11, <2>1, <2>3, <2>4, <2>5, OneBillSet DEF RightTables
<1>15. PICK R : R = j.rows
  OBVIOUS
<1>16. /\ Strikes(bank, R, bank') /\ DrawnRows(bank, payments, expenses) /\ Priced(bank)
       /\ R = RowsFor(bank, "PAYMENT", p)
       /\ balance' = IF R = {} THEN balance ELSE j.balance
  <2>1. R = RowsFor(bank, "PAYMENT", p)
    BY <1>1, <1>3, <1>15 DEF RowsFound
  <2> QED
    BY <1>2, <1>3, <1>8, <1>15, <2>1, BankPriced DEF UnpayWrites, PayTables
<1>17. /\ OutIn(bank') = OutIn(bank) \ R
       /\ RowSum(bank', OutIn(bank')) = RowSum(bank, OutIn(bank) \ R)
       /\ \A kind, id : RowsFor(bank', kind, id) = RowsFor(bank, kind, id) \ R
  BY <1>16, OutStruck, RowsAreStruck
<1>18. \A e : RowsFor(bank', "EXPENSE", e) = RowsFor(bank, "EXPENSE", e)
  BY <1>16, <1>17 DEF RowsFor
<1>19. /\ balance = s.opening - RowSum(bank, OutIn(bank)) /\ s.opening \in Int
       /\ RowSum(bank, OutIn(bank)) \in Int /\ RowSum(payments, BankedIn(payments)) \in Int
       /\ RowSum(expenses, DrawnIn(expenses, journals)) \in Int
       /\ RowSum(bank, OutIn(bank)) =
            RowSum(payments, BankedIn(payments)) + RowSum(expenses, DrawnIn(expenses, journals))
  BY <1>3, CashTypes DEF RightTables, CashRight, PayScene
<1>20. /\ balance' = s.opening - RowSum(bank', OutIn(bank'))
       /\ RowSum(bank', OutIn(bank'))
            = RowSum(payments', BankedIn(payments')) + RowSum(expenses, DrawnIn(expenses, journals))
  <2>0. OneRow(bank, payments, p)
    BY <1>3, <1>16 DEF DrawnRows
  <2>1. CASE x.bank
    <3>1. PICK r : R = {r}
      BY <1>1, <1>3, <1>16, <2>0, <2>1 DEF OneRow, Banks
    <3>2. RowSum(bank, OutIn(bank) \ R) = RowSum(bank, OutIn(bank)) - bank[r].amount
      <4>1. RowsFor(bank, "PAYMENT", p) = {r}
        BY <1>16, <3>1
      <4> QED
        BY <1>16, <3>1, <4>1, OutLess
    <3>3. bank[r].amount = x.amount
      BY <1>1, <1>16, <3>1 DEF RowsFor, DrawnRows, DrawnOK
    <3>4. balance' = s.opening - RowSum(bank, OutIn(bank) \ R) - 0
      <4>1. R # {} /\ LeftIs(j.balance, s.opening, bank, R, 0)
        BY <1>3, <1>15, <3>1
      <4> QED
        BY <1>16, <4>1 DEF LeftIs
    <3> QED
      BY <1>5, <1>11, <1>17, <1>19, <2>1, <3>2, <3>3, <3>4
  <2>2. CASE ~x.bank
    <3>1. R = {}
      BY <1>1, <1>16, <2>0, <2>2 DEF OneRow, Banks
    <3>2. OutIn(bank) \ R = OutIn(bank) /\ balance' = balance
      BY <1>16, <3>1
    <3> QED
      BY <1>11, <1>17, <1>19, <2>2, <3>2
  <2> QED
    BY <1>5, <2>1, <2>2
<1>21. /\ ExpensesRight(expenses, bank', journals')
       /\ DrawnIn(expenses, journals') = DrawnIn(expenses, journals)
  <2>1. ExpensesRight(expenses, bank, journals) /\ \A e : PaymentNo(p) # ExpenseNo(e)
    BY <1>3, PayNumbers DEF RightTables
  <2> QED
    BY <1>12, <1>18, <2>1, ExpensesElsewhere
<1>22. RightAfter(s)
  BY <1>10, <1>14, <1>20, <1>21 DEF RightAfter, RightTables, CashRight
<1> QED
  BY <1>2, <1>22, RightDone

--------------------------------------------------------------------------------
(* An expense is decided. *)

ExpenseSet(es, et, e, y) ==
  /\ DOMAIN et = DOMAIN es /\ \A f \in DOMAIN es : f # e => et[f] = es[f]
  /\ et[e] = [amount |-> es[e].amount, bank |-> es[e].bank, status |-> y]
ExpenseRow(e, a) ==
  [kind |-> "EXPENSE", source |-> e, ref |-> None, amount |-> a, reversed |-> FALSE]
Drawing(j) == j.status = "APPROVED" /\ expenses[j.expense].bank

ExpenseWrites(j) ==
  /\ ExpenseSet(expenses, expenses', j.expense, j.status)
  /\ Drawing(j) => /\ \E c : Gains(bank, bank', c, ExpenseRow(j.expense, expenses[j.expense].amount))
                   /\ balance' = j.balance
  /\ ~Drawing(j) => /\ Strikes(bank, j.rows, bank')
                    /\ balance' = IF j.rows = {} THEN balance ELSE j.balance
  /\ j.status = "APPROVED" => PostsAt(journals, ExpenseNo(j.expense), journals')
  /\ j.status = "VOID" => TakesBack(journals, ExpenseNo(j.expense), journals')
  /\ j.status = "REJECTED" => journals' = journals
  /\ UNCHANGED <<bills, payments>>

LEMMA ExpenseCommitWrites ==
  ASSUME NEW s, NEW w \in s.workers, PayInv(s), Pay(s)!ExpenseCommit(w)
  PROVE  ExpenseWrites(job[w])
<1>1. PICK j, e, x : j = job[w] /\ e = j.expense /\ x = expenses[e]
  OBVIOUS
<1>2. /\ Pay(s)!At(w, "spent") /\ UNCHANGED <<bills, payments>>
      /\ expenses' = [expenses EXCEPT ![e].status = j.status]
  BY <1>1 DEF Pay!ExpenseCommit
<1>3. /\ PayTables(bills, payments, expenses, bank, journals, balance)
      /\ e \in DOMAIN expenses
  BY <1>1, <1>2 DEF PayInv, PayJob, Pay!At
<1>4. ExpenseOK(x) /\ DrawnRows(bank, payments, expenses)
  BY <1>1, <1>3 DEF PayTables
<1>5. ExpenseSet(expenses, expenses', e, j.status)
  <2>1. expenses'[e] = [x EXCEPT !.status = j.status]
    BY <1>1, <1>2, <1>3
  <2>2. x = [amount |-> x.amount, bank |-> x.bank, status |-> x.status]
    BY <1>4 DEF ExpenseOK
  <2>3. expenses'[e] = [amount |-> x.amount, bank |-> x.bank, status |-> j.status]
    BY <2>1, <2>2
  <2> QED
    BY <1>1, <1>2, <2>3 DEF ExpenseSet
<1>6. Pay(s)!Draws(j) <=> Drawing(j)
  BY DEF Pay!Draws, Drawing
<1>7. Drawing(j) => (\E c : Gains(bank, bank', c, ExpenseRow(e, x.amount))) /\ balance' = j.balance
  <2> SUFFICES ASSUME Drawing(j)
               PROVE  (\E c : Gains(bank, bank', c, ExpenseRow(e, x.amount))) /\ balance' = j.balance
    OBVIOUS
  <2>1. PICK c, y : c = Cardinality(DOMAIN bank) + 1 /\ y = ExpenseRow(e, x.amount)
    OBVIOUS
  <2>2. bank' = Entered(bank, c, y)
    <3>1. bank' = Pay(s)!Entered(bank, Pay(s)!Next1(bank), y)
      BY <1>1, <1>6, <2>1 DEF Pay!ExpenseCommit, Pay!BankRow, ExpenseRow
    <3> QED
      BY <2>1, <3>1, PayCounts, PayBooks
  <2>3. EnteredNext(bank, c, y, bank') /\ Numbered(bank)
    BY <1>4, <2>1, <2>2 DEF EnteredNext, DrawnRows
  <2>4. Gains(bank, bank', c, y)
    BY <2>3, NumberEntered
  <2>5. balance' = j.balance
    BY <1>1, <1>6 DEF Pay!ExpenseCommit
  <2> QED
    BY <2>1, <2>4, <2>5
<1>8. ~Drawing(j) => /\ Strikes(bank, j.rows, bank')
                     /\ balance' = IF j.rows = {} THEN balance ELSE j.balance
  <2> SUFFICES ASSUME ~Drawing(j)
               PROVE  /\ Strikes(bank, j.rows, bank')
                      /\ balance' = IF j.rows = {} THEN balance ELSE j.balance
    OBVIOUS
  <2>1. bank' = Pay(s)!Struck(j.rows) /\ balance' = IF j.rows = {} THEN balance ELSE j.balance
    BY <1>1, <1>6 DEF Pay!ExpenseCommit
  <2>2. Strikes(bank, j.rows, bank')
    BY Zenon, <2>1 DEF Pay!Struck, StruckRows, Strikes
  <2> QED
    BY <2>1, <2>2
<1>9. /\ j.status = "APPROVED" =>
           journals' = Posted(journals, ExpenseNo(e), Pair("5000", CreditOf(x), x.amount))
      /\ j.status = "VOID" => journals' = Reversed(journals, ExpenseNo(e), UndoNo(ExpenseNo(e)))
      /\ j.status = "REJECTED" => journals' = journals
  BY <1>1, PayBooks DEF Pay!ExpenseCommit, Pay!Undone, ExpenseNo, UndoNo, CreditOf
<1>10. ExpenseWrites(j)
  BY <1>1, <1>2, <1>5, <1>7, <1>8, <1>9 DEF ExpenseWrites, PostsAt, TakesBack
<1> QED
  BY <1>1, <1>10

SameExpense(js, k, e) ==
  /\ ExpenseNo(e) \in DOMAIN k <=> ExpenseNo(e) \in DOMAIN js
  /\ Stands(k, ExpenseNo(e)) <=> Stands(js, ExpenseNo(e))
SameExpensesIn(js, k, e) == \A f : f # e => SameExpense(js, k, f)
SameDrawn(bk, bl, e) == \A f : f # e => RowsFor(bl, "EXPENSE", f) = RowsFor(bk, "EXPENSE", f)

LEMMA OneExpenseSet ==
  ASSUME NEW es, NEW bk, NEW js, ExpensesRight(es, bk, js), NEW e, e \in DOMAIN es,
         NEW et, NEW y, ExpenseSet(es, et, e, y), NEW k, SameExpensesIn(js, k, e),
         NEW bl, SameDrawn(bk, bl, e), ExpensePosted(e, et[e], k), DrawnOnce(e, et[e], bl)
  PROVE  ExpensesRight(et, bl, k)
<1>1. ASSUME NEW f \in DOMAIN et PROVE ExpensePosted(f, et[f], k) /\ DrawnOnce(f, et[f], bl)
  <2>1. CASE f = e
    BY <2>1
  <2>2. CASE f # e
    <3>1. f \in DOMAIN es /\ et[f] = es[f]
      BY <2>2 DEF ExpenseSet
    <3>2. ExpensePosted(f, es[f], js) /\ DrawnOnce(f, es[f], bk)
      BY <3>1 DEF ExpensesRight
    <3>3. ExpensePosted(f, es[f], k) /\ DrawnOnce(f, es[f], bl)
      BY <2>2, <3>2 DEF ExpensePosted, DrawnOnce, SameExpensesIn, SameExpense, SameDrawn
    <3> QED
      BY <3>1, <3>3
  <2> QED
    BY <2>1, <2>2
<1> QED
  BY <1>1 DEF ExpensesRight

(* What expenses drew on the account, when one is posted or taken back.    *)
LEMMA DrawnMoves ==
  ASSUME NEW es, Priced(es), NEW e \in DOMAIN es, es[e].bank \in BOOLEAN, NEW et, NEW y,
         ExpenseSet(es, et, e, y), NEW js, NEW k, SameExpensesIn(js, k, e)
  PROVE  /\ es[e].bank /\ ~Stands(js, ExpenseNo(e)) /\ Stands(k, ExpenseNo(e)) =>
              RowSum(et, DrawnIn(et, k)) = RowSum(es, DrawnIn(es, js)) + es[e].amount
         /\ es[e].bank /\ Stands(js, ExpenseNo(e)) /\ ~Stands(k, ExpenseNo(e)) =>
              RowSum(et, DrawnIn(et, k)) = RowSum(es, DrawnIn(es, js)) - es[e].amount
         /\ ~es[e].bank \/ (Stands(js, ExpenseNo(e)) <=> Stands(k, ExpenseNo(e))) =>
              RowSum(et, DrawnIn(et, k)) = RowSum(es, DrawnIn(es, js))
<1>0. /\ DOMAIN et = DOMAIN es /\ \A f \in DOMAIN es : f # e => et[f] = es[f]
      /\ et[e].bank = es[e].bank /\ \A f \in DOMAIN es : et[f].amount = es[f].amount
  BY DEF ExpenseSet
<1>1. \A f : f # e => (Stands(k, ExpenseNo(f)) <=> Stands(js, ExpenseNo(f)))
  BY DEF SameExpensesIn, SameExpense
<1>2. PICK S, T : S = DrawnIn(es, js) /\ T = DrawnIn(et, k)
  OBVIOUS
<1>3. S \subseteq DOMAIN es /\ T \subseteq DOMAIN es /\ IsFiniteSet(S)
  <2>1. S \subseteq DOMAIN es /\ T \subseteq DOMAIN es
    BY <1>0, <1>2 DEF DrawnIn
  <2> QED
    BY <2>1, PayTotals
<1>4. /\ \A f : f # e => (f \in S <=> f \in T)
      /\ e \in S <=> es[e].bank /\ Stands(js, ExpenseNo(e))
      /\ e \in T <=> es[e].bank /\ Stands(k, ExpenseNo(e))
  BY <1>0, <1>1, <1>2 DEF DrawnIn
<1>5. CASE e \notin S /\ e \in T
  <2>1. OneMore(T, S, e)
    BY <1>4, <1>5 DEF OneMore
  <2>2. SameRows(es, et, S) /\ RowIs(et, e, es[e].amount)
    BY <1>0, <1>3 DEF SameRows, RowIs, Priced
  <2>3. RowSum(et, T) = RowSum(es, S) + es[e].amount
    BY <1>3, <2>1, <2>2, RowsAdd
  <2> QED
    BY <1>2, <1>4, <1>5, <2>3
<1>6. CASE e \in S /\ e \notin T
  <2>1. OneMore(S, T, e)
    BY <1>4, <1>6 DEF OneMore
  <2>2. SameRows(es, et, T) /\ RowIs(es, e, es[e].amount)
    BY <1>0, <1>3 DEF SameRows, RowIs, Priced
  <2>3. RowSum(et, T) = RowSum(es, S) - es[e].amount
    BY <1>3, <2>1, <2>2, RowsRemove
  <2> QED
    BY <1>2, <1>4, <1>6, <2>3
<1>7. CASE e \in S <=> e \in T
  <2>1. S = T
    BY <1>4, <1>7
  <2>2. \A f \in S : et[f].amount = es[f].amount
    BY <1>0, <1>3
  <2>3. RowSum(et, T) = RowSum(es, S)
    BY <2>1, <2>2, RowsSame
  <2> QED
    BY <1>2, <1>4, <1>7, <2>3
<1> QED
  BY <1>5, <1>6, <1>7

LEMMA RightExpenseCommit ==
  ASSUME NEW s, NEW w \in s.workers, OneAtOnce(s), PayScene(s), RightInv(s), Pay(s)!ExpenseCommit(w)
  PROVE  RightInv(s)'
<1>1. PICK j, e, x, y, R : j = job[w] /\ e = j.expense /\ x = expenses[e] /\ y = j.status /\ R = j.rows
  OBVIOUS
<1>2. PayInv(s) /\ PayInv(s)' /\ Pay(s)!Done(w) /\ Pay(s)!At(w, "spent")
  BY PayExpenseCommit DEF RightInv, Pay!ExpenseCommit
<1>3. /\ PayTables(bills, payments, expenses, bank, journals, balance)
      /\ RightTables(s.opening, balance, bills, payments, expenses, bank, journals)
      /\ e \in DOMAIN expenses /\ y \in {"APPROVED", "REJECTED", "VOID"}
      /\ SpendsOn(j, expenses) /\ RowsSpent(j, bank)
      /\ LeftIs(j.balance, s.opening, bank, j.rows, Draw(j, expenses))
  BY <1>1, <1>2 DEF RightInv, PayInv, PayJob, RightJob, Pay!At
<1>4. /\ y = "VOID" => x.status = "APPROVED"
      /\ y # "VOID" => x.status = "PENDING"
      /\ R = IF y = "VOID" THEN RowsFor(bank, "EXPENSE", e) ELSE {}
      /\ LeftIs(j.balance, s.opening, bank, R, IF y = "APPROVED" /\ x.bank THEN x.amount ELSE 0)
  BY <1>1, <1>3 DEF SpendsOn, RowsSpent, Draw
<1>5. /\ ExpenseOK(x) /\ ExpensePosted(e, x, journals) /\ DrawnOnce(e, x, bank)
      /\ OwingBooks(Dues(bills), payments, expenses, journals)
      /\ DrawnRows(bank, payments, expenses)
  BY <1>1, <1>3 DEF PayTables, RightTables, ExpensesRight
<1>6. x.amount \in Nat \ {0} /\ x.bank \in BOOLEAN
  BY <1>5 DEF ExpenseOK
<1>7. ExpenseWrites(j)
  BY <1>1, <1>2, ExpenseCommitWrites
<1>8. ExpenseSet(expenses, expenses', e, y) /\ UNCHANGED <<bills, payments>>
  BY <1>1, <1>7 DEF ExpenseWrites
<1>9. /\ SameBut(journals, journals', ExpenseNo(e))
      /\ Stands(journals', ExpenseNo(e)) <=> y = "APPROVED"
      /\ Stands(journals, ExpenseNo(e)) <=> y = "VOID"
  <2>0. Stands(journals, ExpenseNo(e)) <=> y = "VOID"
    BY <1>3, <1>4, <1>5 DEF ExpensePosted
  <2>1. CASE y = "APPROVED"
    <3>1. PostsAt(journals, ExpenseNo(e), journals')
      BY <1>1, <1>7, <2>1 DEF ExpenseWrites
    <3>2. ExpenseNo(e) \notin DOMAIN journals
      BY <1>4, <1>5, <2>1 DEF ExpensePosted
    <3> QED
      BY <2>0, <2>1, <3>1, <3>2, PostedStands
  <2>2. CASE y = "VOID"
    <3>1. TakesBack(journals, ExpenseNo(e), journals')
      BY <1>1, <1>7, <2>2 DEF ExpenseWrites
    <3>2. SameBut(journals, journals', ExpenseNo(e)) /\ ~Stands(journals', ExpenseNo(e))
      BY <1>5, <3>1, TakenBackStands
    <3> QED
      BY <2>0, <2>2, <3>2
  <2>3. CASE y = "REJECTED"
    <3>1. journals' = journals
      BY <1>1, <1>7, <2>3 DEF ExpenseWrites
    <3> QED
      BY <2>0, <2>3, <3>1 DEF SameBut
  <2> QED
    BY <1>3, <2>1, <2>2, <2>3
<1>10. BillsRight(bills, payments, journals')
  <2>1. BillsRight(bills, payments, journals) /\ \A n : ExpenseNo(e) # BillNo(n)
    BY <1>3, PayNumbers DEF RightTables
  <2> QED
    BY <1>9, <2>1, BillsElsewhere
<1>11. SameExpensesIn(journals, journals', e)
  BY <1>9, NumbersOfRows, PayNumbers DEF SameBut, SameExpensesIn, SameExpense
<1>12. /\ Priced(expenses) /\ Priced(bank) /\ s.opening \in Int
       /\ balance = s.opening - RowSum(bank, OutIn(bank))
       /\ RowSum(bank, OutIn(bank)) \in Int /\ RowSum(payments, BankedIn(payments)) \in Int
       /\ RowSum(expenses, DrawnIn(expenses, journals)) \in Int
       /\ RowSum(bank, OutIn(bank)) =
            RowSum(payments, BankedIn(payments)) + RowSum(expenses, DrawnIn(expenses, journals))
  BY <1>3, CashTypes DEF RightTables, CashRight, PayScene
<1>13. /\ x.bank /\ y = "APPROVED" =>
            RowSum(expenses', DrawnIn(expenses', journals'))
              = RowSum(expenses, DrawnIn(expenses, journals)) + x.amount
       /\ x.bank /\ y = "VOID" =>
            RowSum(expenses', DrawnIn(expenses', journals'))
              = RowSum(expenses, DrawnIn(expenses, journals)) - x.amount
       /\ ~x.bank \/ y = "REJECTED" =>
            RowSum(expenses', DrawnIn(expenses', journals'))
              = RowSum(expenses, DrawnIn(expenses, journals))
  <2>1. /\ expenses[e].bank /\ ~Stands(journals, ExpenseNo(e)) /\ Stands(journals', ExpenseNo(e)) =>
             RowSum(expenses', DrawnIn(expenses', journals')) =
               RowSum(expenses, DrawnIn(expenses, journals)) + expenses[e].amount
        /\ expenses[e].bank /\ Stands(journals, ExpenseNo(e)) /\ ~Stands(journals', ExpenseNo(e)) =>
             RowSum(expenses', DrawnIn(expenses', journals')) =
               RowSum(expenses, DrawnIn(expenses, journals)) - expenses[e].amount
        /\ ~expenses[e].bank \/ (Stands(journals, ExpenseNo(e)) <=> Stands(journals', ExpenseNo(e))) =>
             RowSum(expenses', DrawnIn(expenses', journals')) =
               RowSum(expenses, DrawnIn(expenses, journals))
    <3>1. expenses[e].bank \in BOOLEAN
      BY <1>1, <1>6
    <3> QED
      BY ONLY <1>3, <1>8, <1>11, <1>12, <3>1, DrawnMoves
  <2> QED
    BY <1>1, <1>9, <2>1
<1>14. PICK z : z = [amount |-> x.amount, bank |-> x.bank, status |-> y]
  OBVIOUS
<1>15. expenses'[e] = z /\ z.bank = x.bank /\ z.status = y
  BY <1>1, <1>8, <1>14 DEF ExpenseSet
<1>16. ExpensePosted(e, z, journals')
  BY <1>3, <1>9, <1>15 DEF ExpensePosted
<1>17. /\ SameDrawn(bank, bank', e) /\ DrawnOnce(e, z, bank')
       /\ balance' = s.opening - RowSum(bank', OutIn(bank'))
       /\ RowSum(bank', OutIn(bank'))
            = RowSum(payments, BankedIn(payments)) + RowSum(expenses', DrawnIn(expenses', journals'))
  <2>1. CASE y = "APPROVED" /\ x.bank
    <3>1. PICK q : q = ExpenseRow(e, x.amount)
      OBVIOUS
    <3>2. (\E c : Gains(bank, bank', c, q)) /\ balance' = j.balance
      BY <1>1, <1>7, <2>1, <3>1 DEF ExpenseWrites, Drawing
    <3>3. PICK c : Gains(bank, bank', c, q)
      BY <3>2
    <3>4. /\ q.kind = "EXPENSE" /\ q.source = e /\ q.reversed = FALSE /\ q.amount = x.amount
          /\ q.amount \in Int
      BY <1>6, <3>1 DEF ExpenseRow
    <3>5. SameDrawn(bank, bank', e) /\ RowsFor(bank', "EXPENSE", e) = RowsFor(bank, "EXPENSE", e) \union {c}
      BY <3>3, <3>4, RowsForMore DEF SameDrawn
    <3>6. RowsFor(bank', "EXPENSE", e) = {c}
      <4>1. RowsFor(bank, "EXPENSE", e) = {}
        BY <1>4, <1>5, <2>1 DEF DrawnOnce
      <4> QED
        BY <3>5, <4>1
    <3>7. RowSum(bank', OutIn(bank')) = RowSum(bank, OutIn(bank)) + x.amount
      BY <1>12, <3>3, <3>4, OutGains
    <3>8. balance' = s.opening - RowSum(bank, OutIn(bank)) - x.amount
      <4>1. R = {} /\ OutIn(bank) \ {} = OutIn(bank)
        BY <1>4, <2>1
      <4> QED
        BY <1>4, <2>1, <3>2, <4>1 DEF LeftIs
    <3>9. DrawnOnce(e, z, bank')
      BY <1>15, <2>1, <3>6 DEF DrawnOnce
    <3> QED
      BY <1>6, <1>12, <1>13, <2>1, <3>5, <3>7, <3>8, <3>9
  <2>2. CASE ~(y = "APPROVED" /\ x.bank)
    <3>1. Strikes(bank, R, bank') /\ balance' = IF R = {} THEN balance ELSE j.balance
      BY <1>1, <1>7, <2>2 DEF ExpenseWrites, Drawing
    <3>2. /\ RowSum(bank', OutIn(bank')) = RowSum(bank, OutIn(bank) \ R)
          /\ \A kind, id : RowsFor(bank', kind, id) = RowsFor(bank, kind, id) \ R
      BY <1>5, <3>1, OutStruck, RowsAreStruck
    <3>3. SameDrawn(bank, bank', e)
      BY <1>4, <3>2 DEF SameDrawn, RowsFor
    <3>4. DrawnOnce(e, z, bank')
      <4>1. RowsFor(bank', "EXPENSE", e) = {}
        BY <1>4, <1>5, <3>2 DEF DrawnOnce
      <4> QED
        BY <1>15, <2>2, <4>1 DEF DrawnOnce
    <3>5. CASE y = "VOID" /\ x.bank
      <4>1. PICK r : R = {r}
        BY <1>4, <1>5, <3>5 DEF DrawnOnce
      <4>2. RowsFor(bank, "EXPENSE", e) = {r}
        BY <1>4, <3>5, <4>1
      <4>3. RowSum(bank, OutIn(bank) \ R) = RowSum(bank, OutIn(bank)) - bank[r].amount
        BY <1>12, <4>1, <4>2, OutLess
      <4>4. bank[r].amount = x.amount
        BY <1>1, <1>5, <4>2 DEF RowsFor, DrawnRows, DrawnOK
      <4>5. balance' = s.opening - RowSum(bank, OutIn(bank) \ R) - 0
        <5>1. R # {} /\ balance' = j.balance
          BY <3>1, <4>1
        <5> QED
          BY <1>4, <3>5, <5>1 DEF LeftIs
      <4> QED
        BY <1>6, <1>12, <1>13, <3>2, <3>3, <3>4, <3>5, <4>3, <4>4, <4>5
    <3>6. CASE ~(y = "VOID" /\ x.bank)
      <4>1. R = {}
        BY <1>4, <1>5, <3>6 DEF DrawnOnce
      <4>2. OutIn(bank) \ R = OutIn(bank) /\ balance' = balance
        BY <3>1, <4>1
      <4>3. ~x.bank \/ y = "REJECTED"
        BY <1>3, <2>2, <3>6
      <4> QED
        BY <1>12, <1>13, <3>2, <3>3, <3>4, <4>2, <4>3
    <3> QED
      BY <3>5, <3>6
  <2> QED
    BY <2>1, <2>2
<1>18. ExpensesRight(expenses', bank', journals')
  <2>1. ExpensePosted(e, expenses'[e], journals') /\ DrawnOnce(e, expenses'[e], bank')
    BY <1>15, <1>16, <1>17
  <2>2. ExpensesRight(expenses, bank, journals)
    BY <1>3 DEF RightTables
  <2> QED
    BY <1>3, <1>8, <1>11, <1>17, <2>1, <2>2, OneExpenseSet
<1>19. RightAfter(s)
  BY <1>8, <1>10, <1>17, <1>18 DEF RightAfter, RightTables, CashRight
<1> QED
  BY <1>2, <1>19, RightDone

--------------------------------------------------------------------------------

LEMMA RightStep ==
  ASSUME NEW s, PayScene(s), OneAtOnce(s), RightInv(s), Pay(s)!Next
  PROVE  RightInv(s)'
<1>1. ASSUME NEW w \in s.workers,
             Pay(s)!Billing(w) \/ Pay(s)!Paying(w) \/ Pay(s)!Spending(w) \/ Pay(s)!Abort(w)
      PROVE  RightInv(s)'
  <2>1. \/ PayReading(s, w)
        \/ Pay(s)!BillCommit(w) \/ Pay(s)!PayCommit(w) \/ Pay(s)!UnpayCommit(w)
        \/ Pay(s)!ExpenseCommit(w)
    BY <1>1 DEF Pay!Billing, Pay!Paying, Pay!Spending, PayReading
  <2> QED
    BY <2>1, RightReads, RightBillCommit, RightPayCommit, RightUnpayCommit, RightExpenseCommit
<1>2. CASE Pay(s)!Arriving
  <2>1. ASSUME NEW a \in s.totals, Pay(s)!CreateBill(a) PROVE RightInv(s)'
    BY <2>1, RightCreateBill DEF PayScene
  <2>2. ASSUME NEW late, Pay(s)!MarkOverdue(late) PROVE RightInv(s)'
    BY <2>2, RightMarkOverdue
  <2>3. ASSUME NEW a \in s.spendings, Pay(s)!CreateExpense(a) PROVE RightInv(s)'
    BY <2>3, RightCreateExpense DEF PayScene
  <2> QED
    BY <1>2, <2>1, <2>2, <2>3 DEF Pay!Arriving
<1> QED
  BY <1>1, <1>2 DEF Pay!Next

LEMMA RightStill ==
  ASSUME NEW s, RightInv(s),
         UNCHANGED <<bills, payments, expenses, bank, balance, journals, pc, job>>
  PROVE  RightInv(s)'
<1>1. PayInv(s)'
  BY PayStill DEF RightInv
<1> QED
  BY <1>1 DEF RightInv

LEMMA RightStart ==
  ASSUME NEW s, PayScene(s), Pay(s)!Init
  PROVE  RightInv(s)
<1>0. PayInv(s)
  BY PayStart
<1>1. PICK t : t = Pay(s)!EmptyTable
  OBVIOUS
<1>2. DOMAIN t = {}
  BY <1>1 DEF Pay!EmptyTable
<1>3. /\ bills = t /\ payments = t /\ expenses = t /\ bank = t /\ journals = t
      /\ balance = s.opening
      /\ pc = [w \in s.workers |-> "idle"] /\ job = [w \in s.workers |-> None]
  BY <1>1 DEF Pay!Init, Pay!NoRequests
<1>4. BillsRight(t, t, t) /\ ExpensesRight(t, t, t)
  BY <1>2 DEF BillsRight, ExpensesRight
<1>5. CashRight(s.opening, s.opening, t, t, t, t)
  <2>1. OutIn(t) = {} /\ BankedIn(t) = {} /\ DrawnIn(t, t) = {}
    BY <1>2 DEF OutIn, BankedIn, DrawnIn
  <2>2. RowSum(t, {}) = 0
    BY RowsNone
  <2> QED
    BY <2>1, <2>2 DEF CashRight, PayScene
<1>6. ASSUME NEW w \in s.workers PROVE RightJob(pc[w], job[w], s.opening, t, t, t, t)
  <2>1. RightJob("idle", None, s.opening, t, t, t, t)
    BY DEF RightJob
  <2> QED
    BY <1>3, <2>1
<1> QED
  BY <1>0, <1>3, <1>4, <1>5, <1>6 DEF RightInv, RightTables

(* What the invariant means.                                               *)
LEMMA RightBills ==
  ASSUME NEW s, RightInv(s)
  PROVE  Pay(s)!BillAgrees
<1> SUFFICES ASSUME NEW n \in DOMAIN bills
             PROVE  /\ bills[n].paid = Pay(s)!PaidOn(n) /\ bills[n].paid <= bills[n].total
                    /\ bills[n].status = "PAID" <=> bills[n].paid = bills[n].total
                    /\ bills[n].paid > 0 =>
                         bills[n].status \in {"PARTIALLY_PAID", "OVERDUE", "PAID"}
                    /\ Pay(s)!IsPosted(<<"BILL", n>>) <=>
                         bills[n].status \notin {"DRAFT", "PENDING_APPROVAL", "VOID"}
  BY DEF Pay!BillAgrees
<1>1. PaidUp(bills[n], RowSum(payments, PaidIn(payments, n))) /\ BillPosted(n, bills[n], journals)
  BY DEF RightInv, RightTables, BillsRight
<1>2. Pay(s)!PaidOn(n) = RowSum(payments, PaidIn(payments, n))
  <2>1. PICK S : S = {p \in Pay(s)!Standing : payments[p].bill = n}
    OBVIOUS
  <2>2. S = PaidIn(payments, n)
    BY <2>1, PaySets DEF PaidIn, StandingIn
  <2>3. Pay(s)!PaidOn(n) = SumFunction([p \in S |-> payments[p].amount])
    BY <2>1, PaySums DEF Pay!PaidOn
  <2> QED
    BY <2>2, <2>3 DEF RowSum
<1>3. Pay(s)!IsPosted(<<"BILL", n>>) <=> bills[n].status \notin {"DRAFT", "PENDING_APPROVAL", "VOID"}
  BY <1>1, PaySets DEF BillPosted, BillNo, Unposted
<1> QED
  BY <1>1, <1>2, <1>3 DEF PaidUp

LEMMA RightExpenses ==
  ASSUME NEW s, RightInv(s)
  PROVE  Pay(s)!ExpenseAgrees
<1> SUFFICES ASSUME NEW e \in DOMAIN expenses
             PROVE  /\ Pay(s)!IsPosted(<<"EXPENSE", e>>) <=> expenses[e].status = "APPROVED"
                    /\ Pay(s)!Cardinality(Pay(s)!RowsOf("EXPENSE", e)) =
                         IF expenses[e].bank /\ expenses[e].status = "APPROVED" THEN 1 ELSE 0
  BY DEF Pay!ExpenseAgrees
<1>1. PICK x, R : x = expenses[e] /\ R = RowsFor(bank, "EXPENSE", e)
  OBVIOUS
<1>2. ExpensePosted(e, x, journals) /\ DrawnOnce(e, x, bank)
  BY <1>1 DEF RightInv, RightTables, ExpensesRight
<1>3. Pay(s)!RowsOf("EXPENSE", e) = R
  BY <1>1 DEF Pay!RowsOf, RowsFor
<1>4. Cardinality(R) = IF x.bank /\ x.status = "APPROVED" THEN 1 ELSE 0
  <2>1. CASE x.bank /\ x.status = "APPROVED"
    <3>1. PICK r : R = {r}
      BY <1>1, <1>2, <2>1 DEF DrawnOnce
    <3> QED
      BY <2>1, <3>1, FS_Singleton
  <2>2. CASE ~(x.bank /\ x.status = "APPROVED")
    <3>1. R = {}
      BY <1>1, <1>2, <2>2 DEF DrawnOnce
    <3> QED
      BY <2>2, <3>1, FS_EmptySet
  <2> QED
    BY <2>1, <2>2
<1>5. Pay(s)!IsPosted(<<"EXPENSE", e>>) <=> x.status = "APPROVED"
  BY <1>2, PaySets DEF ExpensePosted, ExpenseNo
<1> QED
  BY <1>1, <1>3, <1>4, <1>5, PayCounts

LEMMA RightCash ==
  ASSUME NEW s, PayScene(s), RightInv(s)
  PROVE  Pay(s)!CashAgrees
<1>1. /\ PayTables(bills, payments, expenses, bank, journals, balance)
      /\ CashRight(s.opening, balance, payments, expenses, bank, journals)
  BY DEF RightInv, RightTables, PayInv
<1>2. OwingBooks(Dues(bills), payments, expenses, journals)
  BY <1>1 DEF PayTables
<1>3. PICK U, A, B : /\ U = {p \in StandingIn(payments) : ~payments[p].bank}
                     /\ A = StandingIn(payments) /\ B = BankedIn(payments)
  OBVIOUS
<1>4. A = B \union U /\ B \intersect U = {} /\ B \subseteq DOMAIN payments /\ U \subseteq DOMAIN payments
  BY <1>3 DEF StandingIn, BankedIn, Banks
<1>5. Priced(payments)
  BY <1>2 DEF OwingBooks
<1>6. RowSum(payments, A) = RowSum(payments, B) + RowSum(payments, U)
  BY <1>4, <1>5, RowsSplit
<1>7. Balance(journals, "1000") = - RowSum(payments, A) - RowSum(expenses, DrawnIn(expenses, journals))
  BY <1>2, <1>3 DEF OwingBooks
<1>8. /\ balance = s.opening - RowSum(bank, OutIn(bank))
      /\ RowSum(bank, OutIn(bank)) = RowSum(payments, B) + RowSum(expenses, DrawnIn(expenses, journals))
  BY <1>1, <1>3 DEF CashRight
<1>9. /\ RowSum(payments, A) \in Int /\ RowSum(payments, B) \in Int /\ RowSum(payments, U) \in Int
      /\ RowSum(expenses, DrawnIn(expenses, journals)) \in Int /\ s.opening \in Int
      /\ RowSum(bank, OutIn(bank)) \in Int
  <2>1. A \subseteq DOMAIN payments
    BY <1>4
  <2> QED
    BY <1>1, <1>4, <1>5, <2>1, PayTotals, CashTypes DEF PayScene
<1>10. balance - s.opening = Balance(journals, "1000") + RowSum(payments, U)
  BY <1>6, <1>7, <1>8, <1>9
<1>11. Pay(s)!CashAgrees <=>
         balance - s.opening =
           Balance(journals, "1000") + SumFunction([p \in U |-> payments[p].amount])
  <2>1. {p \in Pay(s)!Standing : ~payments[p].bank} = U
    BY <1>3, PaySets
  <2> QED
    BY Zenon, <2>1, PaySums, PayBooks DEF Pay!CashAgrees
<1> QED
  BY <1>10, <1>11 DEF RowSum

(* One request at a time, of any bills, payments and expenses: a bill is   *)
(* what its payments make of it, an expense is booked and drawn while it   *)
(* is approved, and the account loses what the ledger's cash loses.        *)
THEOREM PaymentsOneAtATime ==
  ASSUME NEW s, Pay(s)!PayablesAssumption, OneAtOnce(s)
  PROVE  Pay(s)!Spec =>
           [](Pay(s)!BillAgrees /\ Pay(s)!ExpenseAgrees /\ Pay(s)!CashAgrees)
<1> DEFINE Agree == Pay(s)!BillAgrees /\ Pay(s)!ExpenseAgrees /\ Pay(s)!CashAgrees
<1>0. PayScene(s)
  BY PayParameters
<1>1. Pay(s)!Init => RightInv(s)
  BY <1>0, RightStart
<1>2. RightInv(s) /\ [Pay(s)!Next]_(Pay(s)!vars) => RightInv(s)'
  <2>1. UNCHANGED Pay(s)!vars =>
          UNCHANGED <<bills, payments, expenses, bank, balance, journals, pc, job>>
    BY DEF Pay!vars, Pay!rowVars, Pay!requestVars
  <2> QED
    BY <1>0, <2>1, RightStep, RightStill
<1>3. RightInv(s) => Agree
  BY <1>0, RightBills, RightExpenses, RightCash
<1> HIDE DEF Agree
<1>4. Pay(s)!Spec => []Agree
  BY <1>1, <1>2, <1>3, PTL DEF Pay!Spec
<1> QED
  BY <1>4 DEF Agree

RightNow == scene = "payables_serial" => RightInv(PayScenes["payables_serial"])

LEMMA SerialScene ==
  /\ OneAtOnce(PayScenes["payables_serial"]) /\ PayScene(PayScenes["payables_serial"])
  /\ "payables_serial" \in DOMAIN PayScenes
<1>1. "payables_serial" \in DOMAIN PayScenes
  BY PaySceneNames
<1>2. Pay(PayScenes["payables_serial"])!PayablesAssumption
  BY <1>1, LedgersAssumption
<1>3. PICK s : s = PayScenes["payables_serial"]
  OBVIOUS
<1>4. PayScene(s)
  BY ONLY <1>2, <1>3, PayParameters
<1>5. s.workers = One
  BY <1>3 DEF PayScenes, Owing
<1>6. OneAtOnce(s)
  BY <1>5, LedgersAssumption DEF OneAtOnce
<1> QED
  BY <1>1, <1>3, <1>4, <1>6

(* One request at a time: a bill is what its payments make of it, an       *)
(* expense is booked and drawn while it is approved, and the bank account  *)
(* loses what the ledger's cash account loses (recalc, expenseStatus).     *)
THEOREM PaymentsDoAgree == Spec => []PaymentsAgree
<1> DEFINE n == "payables_serial"
<1>0. PICK s : s = PayScenes[n]
  OBVIOUS
<1>a. OneAtOnce(s) /\ PayScene(s) /\ n \in DOMAIN PayScenes
  BY <1>0, SerialScene
<1>1. Init => RightNow
  <2> SUFFICES ASSUME Init, scene = n PROVE RightInv(s)
    BY <1>0 DEF RightNow
  <2>1. Pay(PayScenes[n])!Init
    BY PaySceneNames DEF Init
  <2> QED
    BY ONLY <1>0, <1>a, <2>1, RightStart
<1>2. RightNow /\ [Next]_vars => RightNow'
  <2> SUFFICES ASSUME RightNow, [Next]_vars, scene' = n PROVE RightInv(s)'
    BY <1>0 DEF RightNow
  <2>1. scene = n
    BY DEF Next, vars
  <2>2. RightInv(s)
    BY <1>0, <2>1 DEF RightNow
  <2>3. Pay(PayScenes[n])!Next \/ UNCHANGED vars
    BY <2>1, PaySceneNames DEF Next
  <2>4. UNCHANGED vars =>
          UNCHANGED <<bills, payments, expenses, bank, balance, journals, pc, job>>
    BY DEF vars, paying, requestVars
  <2> QED
    BY ONLY <1>0, <1>a, <2>2, <2>3, <2>4, RightStep, RightStill
<1>3. RightNow => PaymentsAgree
  <2> SUFFICES ASSUME RightNow, scene = n
               PROVE  /\ Pay(PayScenes[n])!BillAgrees
                      /\ Pay(PayScenes[n])!ExpenseAgrees
                      /\ Pay(PayScenes[n])!CashAgrees
    BY DEF PaymentsAgree
  <2>1. RightInv(s)
    BY <1>0 DEF RightNow
  <2> QED
    BY ONLY <1>0, <1>a, <2>1, RightBills, RightExpenses, RightCash
<1> QED
  BY <1>1, <1>2, <1>3, PTL DEF Spec
================================================================================
