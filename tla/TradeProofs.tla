------------------------------- MODULE TradeProofs -------------------------------
(***************************************************************************)
(* What Inventory and Receivables keep, for any number of requests, rows   *)
(* and amounts: a scene s is any record of parameters that meets the       *)
(* module's assumption, and the stock and sales scenes of MCTrade are      *)
(* some.                                                                   *)
(*                                                                         *)
(* Inventory first.  The stock and account 1300 are sums over the          *)
(* movements: what one movement more, or the two legs of a transfer, does  *)
(* to them, whatever the movements are.  Three invariants follow: StockInv *)
(* in every interleaving, SerialStock when one request is served at a      *)
(* time, and CountsInv when stock is corrected by counts and sold by       *)
(* tills.  Last in the module, DrainInv: where goods only leave, what      *)
(* they are taken by implements CheckThenAct.                              *)
(*                                                                         *)
(* Then Receivables.  The ledger comes first: what every posting and       *)
(* reversal does to it is proved of any tables (BillBooks), and the        *)
(* actions are then compositions of such changes.                          *)
(***************************************************************************)
EXTENDS MCTrade, Sums

--------------------------------------------------------------------------------
(* Inventory: the movements and their sums, of any products, warehouses,   *)
(* movements and journals.                                                 *)

Moved(m)  == IF m.type \in {"ISSUE", "TRANSFER_OUT"} THEN - m.qty ELSE m.qty
MoveRow(type, p, h, q, c, paired) ==
  [type |-> type, product |-> p, warehouse |-> h, qty |-> q, cost |-> c, paired |-> paired]
ByHand(m) == ~m.paired /\ m.type \in {"TRANSFER_IN", "TRANSFER_OUT"}

Types == {"RECEIPT", "ISSUE", "ADJUSTMENT", "TRANSFER_IN", "TRANSFER_OUT"}
MoveOK(m) ==
  /\ m = MoveRow(m.type, m.product, m.warehouse, m.qty, m.cost, m.paired)
  /\ m.type \in Types /\ m.qty \in Int /\ m.cost \in Nat /\ m.paired \in BOOLEAN
  /\ m.type # "ADJUSTMENT" => m.qty > 0
MovesOK(ms) == IsFiniteSet(DOMAIN ms) /\ \A r \in DOMAIN ms : MoveOK(ms[r])

(* A sum over some of the movements, of any figure that belongs to each.   *)
Figures(v, S) == SumFunction([r \in S |-> v[r]])
Quantities(ms) == [r \in DOMAIN ms |-> Moved(ms[r])]
Values(ms)     == [r \in DOMAIN ms |-> Moved(ms[r]) * ms[r].cost]

Booked(ms)        == {r \in DOMAIN ms : ~ByHand(ms[r])}
MovesOf(ms, p, H) == {r \in DOMAIN ms : ms[r].product = p /\ ms[r].warehouse \in H}
SalesOf(ms, p)    == {r \in DOMAIN ms : r[1] = "POS" /\ ms[r].product = p}

StockOf(ms, p, H) == Figures(Quantities(ms), MovesOf(ms, p, H))
SoldOf(ms, p)     == - Figures(Quantities(ms), SalesOf(ms, p))
ValueOf(ms)       == Figures(Values(ms), Booked(ms))

(* A movement more. *)
MoveAdded(ms, new, n, m) ==
  /\ n \notin DOMAIN ms /\ DOMAIN new = DOMAIN ms \union {n}
  /\ new[n] = m /\ MoveOK(m)
  /\ \A r \in DOMAIN ms : new[r] = ms[r]

GrowsBy(T, S, n) == n \notin S /\ (T = S \/ T = S \union {n})
FigureFor(v, u, S, n) == u[n] \in Int /\ \A r \in S : v[r] \in Int /\ u[r] = v[r]

LEMMA FigureAdd ==
  ASSUME NEW v, NEW u, NEW S, NEW T, NEW n,
         IsFiniteSet(S), GrowsBy(T, S, n), FigureFor(v, u, S, n)
  PROVE  Figures(u, T) = Figures(v, S) + (IF n \in T THEN u[n] ELSE 0)
<1>0. /\ n \notin S /\ (T = S \/ T = S \union {n})
      /\ u[n] \in Int /\ \A r \in S : v[r] \in Int /\ u[r] = v[r]
  BY DEF GrowsBy, FigureFor
<1> USE <1>0
<1> DEFINE f == [r \in S |-> v[r]]
           g == [r \in T |-> u[r]]
<1>1. DOMAIN f = S /\ DOMAIN g = T /\ \A r \in S : f[r] \in Int /\ g[r] = f[r]
  OBVIOUS
<1>2. SumFunction(f) \in Int
  BY <1>1, TotalType
<1>3. CASE T = S
  <2>1. g = f
    BY <1>3
  <2> QED
    BY <1>2, <1>3, <2>1 DEF Figures
<1>4. CASE T = S \union {n}
  <2>1. n \in T /\ g[n] = u[n]
    BY <1>4
  <2> HIDE DEF f, g
  <2>2. SumFunction(g) = SumFunction(f) + g[n]
    BY <1>1, <1>4, <2>1, TotalAdd
  <2> QED
    BY <2>1, <2>2 DEF Figures, f, g
<1> QED
  BY <1>3, <1>4

LEMMA MovedInt ==
  ASSUME NEW m, MoveOK(m)
  PROVE  Moved(m) \in Int /\ m.cost \in Nat /\ Moved(m) * m.cost \in Int
<1>1. PICK q, c : q = Moved(m) /\ c = m.cost
  OBVIOUS
<1>2. q \in Int /\ c \in Nat
  BY <1>1 DEF MoveOK, Moved
<1>3. q * c \in Int
  BY <1>2
<1> QED
  BY <1>1, <1>2, <1>3

LEMMA FigureTypes ==
  ASSUME NEW ms, MovesOK(ms)
  PROVE  /\ \A r \in DOMAIN ms : Quantities(ms)[r] = Moved(ms[r]) /\ Quantities(ms)[r] \in Int
         /\ \A r \in DOMAIN ms : Values(ms)[r] = Moved(ms[r]) * ms[r].cost /\ Values(ms)[r] \in Int
         /\ \A p, H : StockOf(ms, p, H) \in Int
         /\ \A p : SoldOf(ms, p) \in Int
         /\ ValueOf(ms) \in Int
<1>1. \A r \in DOMAIN ms : Quantities(ms)[r] = Moved(ms[r]) /\ Quantities(ms)[r] \in Int
  BY MovedInt DEF MovesOK, Quantities
<1>2. \A r \in DOMAIN ms : Values(ms)[r] = Moved(ms[r]) * ms[r].cost /\ Values(ms)[r] \in Int
  BY MovedInt DEF MovesOK, Values
<1>3. ASSUME NEW v, \A r \in DOMAIN ms : v[r] \in Int, NEW S, S \subseteq DOMAIN ms
      PROVE  Figures(v, S) \in Int
  <2> DEFINE f == [r \in S |-> v[r]]
  <2>1. DOMAIN f = S /\ IsFiniteSet(S) /\ \A r \in S : f[r] \in Int
    BY <1>3, FS_Subset DEF MovesOK
  <2> HIDE DEF f
  <2>2. SumFunction(f) \in Int
    BY <2>1, TotalType
  <2> QED
    BY <2>2 DEF Figures, f
<1>4. ASSUME NEW p, NEW H PROVE StockOf(ms, p, H) \in Int
  <2>1. MovesOf(ms, p, H) \subseteq DOMAIN ms
    BY DEF MovesOf
  <2> QED
    BY <1>1, <1>3, <2>1 DEF StockOf
<1>5. ASSUME NEW p PROVE SoldOf(ms, p) \in Int
  <2>1. SalesOf(ms, p) \subseteq DOMAIN ms
    BY DEF SalesOf
  <2> QED
    BY <1>1, <1>3, <2>1 DEF SoldOf
<1>6. ValueOf(ms) \in Int
  <2>1. Booked(ms) \subseteq DOMAIN ms
    BY DEF Booked
  <2> QED
    BY <1>2, <1>3, <2>1 DEF ValueOf
<1> QED
  BY <1>1, <1>2, <1>4, <1>5, <1>6

LEMMA MoveAdds ==
  ASSUME NEW ms, NEW new, NEW n, NEW m, MovesOK(ms), MoveAdded(ms, new, n, m)
  PROVE  /\ MovesOK(new)
         /\ \A p, H : StockOf(new, p, H) = StockOf(ms, p, H) +
              (IF m.product = p /\ m.warehouse \in H THEN Moved(m) ELSE 0)
         /\ \A p : SoldOf(new, p) = SoldOf(ms, p) -
              (IF n[1] = "POS" /\ m.product = p THEN Moved(m) ELSE 0)
         /\ ValueOf(new) = ValueOf(ms) + (IF ByHand(m) THEN 0 ELSE Moved(m) * m.cost)
<1>0. /\ n \notin DOMAIN ms /\ DOMAIN new = DOMAIN ms \union {n}
      /\ new[n] = m /\ MoveOK(m) /\ \A r \in DOMAIN ms : new[r] = ms[r]
      /\ IsFiniteSet(DOMAIN ms)
  BY DEF MoveAdded, MovesOK
<1>1. MovesOK(new)
  BY <1>0, FS_AddElement DEF MovesOK
<1>2. /\ \A r \in DOMAIN ms : Quantities(ms)[r] \in Int /\ Quantities(new)[r] = Quantities(ms)[r]
      /\ Quantities(new)[n] = Moved(m) /\ Moved(m) \in Int
  BY <1>0, <1>1, FigureTypes DEF Quantities
<1>3. /\ \A r \in DOMAIN ms : Values(ms)[r] \in Int /\ Values(new)[r] = Values(ms)[r]
      /\ Values(new)[n] = Moved(m) * m.cost /\ Values(new)[n] \in Int
  BY <1>0, <1>1, FigureTypes DEF Values
<1>4. ASSUME NEW p, NEW H
      PROVE  StockOf(new, p, H) = StockOf(ms, p, H) +
               (IF m.product = p /\ m.warehouse \in H THEN Moved(m) ELSE 0)
  <2> DEFINE S == MovesOf(ms, p, H)
             T == MovesOf(new, p, H)
  <2>1. /\ T = S \/ T = S \union {n}
        /\ n \in T <=> m.product = p /\ m.warehouse \in H
        /\ n \notin S /\ S \subseteq DOMAIN ms
    BY <1>0 DEF MovesOf
  <2>2. IsFiniteSet(S)
    BY <1>0, <2>1, FS_Subset
  <2>v. StockOf(new, p, H) = Figures(Quantities(new), T) /\ StockOf(ms, p, H) = Figures(Quantities(ms), S)
    BY DEF StockOf
  <2> HIDE DEF S, T
  <2>g. GrowsBy(T, S, n) /\ FigureFor(Quantities(ms), Quantities(new), S, n)
    BY <1>2, <2>1 DEF GrowsBy, FigureFor
  <2>3. Figures(Quantities(new), T) =
          Figures(Quantities(ms), S) + (IF n \in T THEN Quantities(new)[n] ELSE 0)
    BY <2>2, <2>g, FigureAdd
  <2>4. CASE n \in T
    BY ONLY <1>2, <2>1, <2>v, <2>3, <2>4
  <2>5. CASE n \notin T
    BY ONLY <1>2, <2>1, <2>v, <2>3, <2>5
  <2> QED
    BY ONLY <2>4, <2>5
<1>5. ASSUME NEW p
      PROVE  SoldOf(new, p) = SoldOf(ms, p) -
               (IF n[1] = "POS" /\ m.product = p THEN Moved(m) ELSE 0)
  <2> DEFINE S == SalesOf(ms, p)
             T == SalesOf(new, p)
  <2>1. /\ T = S \/ T = S \union {n}
        /\ n \in T <=> n[1] = "POS" /\ m.product = p
        /\ n \notin S /\ S \subseteq DOMAIN ms
    BY <1>0 DEF SalesOf
  <2>2. IsFiniteSet(S) /\ SoldOf(ms, p) \in Int
    BY <1>0, <2>1, FS_Subset, FigureTypes
  <2>v. PICK v, k : /\ v = Figures(Quantities(new), T) /\ k = Figures(Quantities(ms), S)
                    /\ SoldOf(new, p) = - v /\ SoldOf(ms, p) = - k
    BY DEF SoldOf
  <2>4. k \in Int
    <3> DEFINE f == [r \in S |-> Quantities(ms)[r]]
    <3>1. DOMAIN f = S /\ \A r \in S : f[r] \in Int
      BY <1>2, <2>1
    <3>2. k = SumFunction(f)
      BY <2>v DEF Figures
    <3> HIDE DEF f, S
    <3> QED
      BY <2>2, <3>1, <3>2, TotalType
  <2> HIDE DEF S, T
  <2>g. GrowsBy(T, S, n) /\ FigureFor(Quantities(ms), Quantities(new), S, n)
    BY <1>2, <2>1 DEF GrowsBy, FigureFor
  <2>3. Figures(Quantities(new), T) =
          Figures(Quantities(ms), S) + (IF n \in T THEN Quantities(new)[n] ELSE 0)
    BY <2>2, <2>g, FigureAdd
  <2> QED
    BY <1>2, <2>1, <2>3, <2>4, <2>v
<1>6. ValueOf(new) = ValueOf(ms) + (IF ByHand(m) THEN 0 ELSE Moved(m) * m.cost)
  <2> DEFINE S == Booked(ms)
             T == Booked(new)
  <2>1. /\ T = S \/ T = S \union {n}
        /\ n \in T <=> ~ByHand(m)
        /\ n \notin S /\ S \subseteq DOMAIN ms
    BY <1>0 DEF Booked
  <2>2. IsFiniteSet(S)
    BY <1>0, <2>1, FS_Subset
  <2>v. ValueOf(new) = Figures(Values(new), T) /\ ValueOf(ms) = Figures(Values(ms), S)
    BY DEF ValueOf
  <2> HIDE DEF S, T
  <2>g. GrowsBy(T, S, n) /\ FigureFor(Values(ms), Values(new), S, n)
    BY <1>3, <2>1 DEF GrowsBy, FigureFor
  <2>3. Figures(Values(new), T) =
          Figures(Values(ms), S) + (IF n \in T THEN Values(new)[n] ELSE 0)
    BY <2>2, <2>g, FigureAdd
  <2> QED
    BY <1>3, <2>1, <2>v, <2>3
<1> QED
  BY <1>1, <1>4, <1>5, <1>6

(* Corrections and sales are numbered 1, 2, 3, ... *)
TagRows(ms, t)     == {r \in DOMAIN ms : r[1] = t}
NextTag(ms, t)     == <<t, Cardinality(TagRows(ms, t)) + 1>>
TagNumbered(ms, t) == TagRows(ms, t) = {<<t, i>> : i \in 1 .. Cardinality(TagRows(ms, t))}
TagFits(ms, n, t)  == n[1] = t => n = NextTag(ms, t)

LEMMA TagFresh ==
  ASSUME NEW ms, NEW t, MovesOK(ms), TagNumbered(ms, t)
  PROVE  NextTag(ms, t) \notin DOMAIN ms
<1>1. PICK c : c = Cardinality(TagRows(ms, t))
  OBVIOUS
<1>2. c \in Nat
  BY <1>1, FS_Subset, FS_CardinalityType DEF MovesOK, TagRows
<1>3. <<t, c + 1>> \notin {<<t, i>> : i \in 1 .. c}
  BY <1>2
<1>4. <<t, c + 1>> \notin TagRows(ms, t)
  BY <1>1, <1>3 DEF TagNumbered
<1> QED
  BY <1>1, <1>4 DEF TagRows, NextTag

LEMMA TagAdd ==
  ASSUME NEW ms, NEW new, NEW n, NEW m, NEW t,
         MovesOK(ms), MoveAdded(ms, new, n, m), TagNumbered(ms, t), TagFits(ms, n, t)
  PROVE  TagNumbered(new, t)
<1>1. PICK c : c = Cardinality(TagRows(ms, t))
  OBVIOUS
<1>2. IsFiniteSet(TagRows(ms, t)) /\ c \in Nat
  BY <1>1, FS_Subset, FS_CardinalityType DEF MovesOK, TagRows
<1>3. TagRows(ms, t) = {<<t, i>> : i \in 1 .. c}
  BY <1>1 DEF TagNumbered
<1>4. CASE n[1] # t
  <2>1. TagRows(new, t) = TagRows(ms, t)
    BY <1>4 DEF MoveAdded, TagRows
  <2> QED
    BY <1>1, <1>3, <2>1 DEF TagNumbered
<1>5. CASE n[1] = t
  <2>1. n = <<t, c + 1>> /\ n \notin DOMAIN ms
    BY <1>1, <1>5 DEF TagFits, NextTag, MoveAdded
  <2>2. TagRows(new, t) = TagRows(ms, t) \union {n}
    BY <1>5 DEF MoveAdded, TagRows
  <2>3. n \notin TagRows(ms, t)
    BY <2>1 DEF TagRows
  <2>4. Cardinality(TagRows(new, t)) = c + 1
    BY <1>1, <1>2, <2>2, <2>3, FS_AddElement
  <2>5. 1 .. (c + 1) = 1 .. c \union {c + 1}
    BY <1>2
  <2>6. TagRows(new, t) = {<<t, i>> : i \in 1 .. (c + 1)}
    BY Zenon, <1>3, <2>1, <2>2, <2>5
  <2> QED
    BY <2>4, <2>6 DEF TagNumbered
<1> QED
  BY <1>4, <1>5

(* The movements and account 1300. *)
GoodsBooks(ms, js) ==
  /\ MovesOK(ms) /\ BooksFine(js) /\ DOMAIN js \subseteq DOMAIN ms
  /\ TagNumbered(ms, "COUNT") /\ TagNumbered(ms, "POS")
  /\ Balance(js, "1300") = ValueOf(ms)

GoodsPosted(js, k, n, v) ==
  /\ BooksFine(k) /\ DOMAIN k \subseteq DOMAIN js \union {n}
  /\ Balance(k, "1300") = Balance(js, "1300") + v

LEMMA PostsGoods ==
  ASSUME NEW js, NEW n, NEW d, NEW c, NEW v, NEW k,
         BooksFine(js), n \notin DOMAIN js, d # c, v \in Nat, k = PostedIfAny(js, n, d, c, v)
  PROVE  /\ d = "1300" => GoodsPosted(js, k, n, v)
         /\ c = "1300" => GoodsPosted(js, k, n, - v)
<1>0. Balance(js, "1300") \in Int
  BY BalanceType
<1>1. CASE v = 0
  <2>1. k = js
    BY <1>1 DEF PostedIfAny
  <2> QED
    BY <1>0, <1>1, <2>1 DEF GoodsPosted
<1>2. CASE v > 0
  <2>1. k = Posted(js, n, Pair(d, c, v))
    BY <1>2 DEF PostedIfAny
  <2>2. /\ BooksFine(k) /\ Adds(k, js, n)
        /\ Balance(k, "1300") = Balance(js, "1300") + PairMove(d, c, v, "1300")
    BY <2>1, PostedPair
  <2> QED
    BY <2>2 DEF GoodsPosted, Adds, PairMove
<1> QED
  BY <1>1, <1>2

LEMMA GoodsAdded ==
  ASSUME NEW ms, NEW js, NEW new, NEW k, NEW n, NEW m,
         GoodsBooks(ms, js), MoveAdded(ms, new, n, m),
         TagFits(ms, n, "COUNT"), TagFits(ms, n, "POS"),
         GoodsPosted(js, k, n, IF ByHand(m) THEN 0 ELSE Moved(m) * m.cost)
  PROVE  GoodsBooks(new, k)
<1>0. /\ MovesOK(ms) /\ BooksFine(js) /\ DOMAIN js \subseteq DOMAIN ms
      /\ TagNumbered(ms, "COUNT") /\ TagNumbered(ms, "POS")
      /\ Balance(js, "1300") = ValueOf(ms)
  BY DEF GoodsBooks
<1>1. /\ MovesOK(new)
      /\ ValueOf(new) = ValueOf(ms) + (IF ByHand(m) THEN 0 ELSE Moved(m) * m.cost)
  BY <1>0, MoveAdds
<1>2. TagNumbered(new, "COUNT") /\ TagNumbered(new, "POS")
  BY <1>0, TagAdd
<1>3. DOMAIN k \subseteq DOMAIN new
  BY <1>0 DEF GoodsPosted, MoveAdded
<1> QED
  BY <1>0, <1>1, <1>2, <1>3 DEF GoodsPosted, GoodsBooks

(* Two legs of a transfer. *)
LEMMA GoodsTransferred ==
  ASSUME NEW ms, NEW js, NEW mid, NEW new, NEW a, NEW b, NEW out, NEW in,
         GoodsBooks(ms, js), MoveAdded(ms, mid, a, out), MoveAdded(mid, new, b, in),
         a[1] \notin {"COUNT", "POS"}, b[1] \notin {"COUNT", "POS"},
         ~ByHand(out), ~ByHand(in), in.cost = out.cost, Moved(in) = - Moved(out)
  PROVE  GoodsBooks(new, js)
<1>0. /\ MovesOK(ms) /\ BooksFine(js) /\ DOMAIN js \subseteq DOMAIN ms
      /\ TagNumbered(ms, "COUNT") /\ TagNumbered(ms, "POS")
      /\ Balance(js, "1300") = ValueOf(ms)
  BY DEF GoodsBooks
<1>1. MovesOK(mid) /\ ValueOf(mid) = ValueOf(ms) + Moved(out) * out.cost
  BY <1>0, MoveAdds
<1>2. MovesOK(new) /\ ValueOf(new) = ValueOf(mid) + Moved(in) * in.cost
  BY <1>1, MoveAdds
<1>3. TagNumbered(mid, "COUNT") /\ TagNumbered(mid, "POS")
  BY <1>0, TagAdd DEF TagFits
<1>4. TagNumbered(new, "COUNT") /\ TagNumbered(new, "POS")
  BY <1>1, <1>3, TagAdd DEF TagFits
<1>5. ValueOf(new) = ValueOf(ms)
  <2>1. PICK q, c : q = Moved(out) /\ c = out.cost
    OBVIOUS
  <2>2. q \in Int /\ c \in Nat
    BY <2>1, MovedInt DEF MoveAdded
  <2>3. Moved(in) * in.cost = (- q) * c /\ Moved(out) * out.cost = q * c
    BY <2>1
  <2>4. (- q) * c = - (q * c) /\ q * c \in Int
    BY <2>2
  <2>5. ValueOf(ms) \in Int
    BY <1>0, FigureTypes
  <2> QED
    BY ONLY <1>1, <1>2, <2>3, <2>4, <2>5
<1>6. DOMAIN js \subseteq DOMAIN new
  BY <1>0 DEF MoveAdded
<1> QED
  BY <1>0, <1>2, <1>4, <1>5, <1>6 DEF GoodsBooks

--------------------------------------------------------------------------------
(* Inventory: the rows, the requests and what holds of them together. *)

LEMMA StockNames ==
  ASSUME NEW s
  PROVE  /\ \A f : Stock(s)!SumFunction(f) = SumFunction(f)
         /\ \A m : Stock(s)!Signed(m) = Moved(m)
         /\ \A t, p, h, q, c, d : Stock(s)!Row(t, p, h, q, c, d) = MoveRow(t, p, h, q, c, d)
<1>1. ASSUME NEW f, NEW S PROVE Stock(s)!SumFunctionOnSet(f, S) = SumFunctionOnSet(f, S)
  BY Zenon DEF Stock!SumFunctionOnSet, Stock!FoldFunctionOnSet, Stock!MapThenFoldSet,
               SumFunctionOnSet, FoldFunctionOnSet, MapThenFoldSet
<1>2. ASSUME NEW f PROVE Stock(s)!SumFunction(f) = SumFunction(f)
  BY Zenon, <1>1 DEF Stock!SumFunction, SumFunction
<1>3. ASSUME NEW m PROVE Stock(s)!Signed(m) = Moved(m)
  BY Zenon DEF Stock!Signed, Moved
<1>4. ASSUME NEW t, NEW p, NEW h, NEW q, NEW c, NEW d
      PROVE  Stock(s)!Row(t, p, h, q, c, d) = MoveRow(t, p, h, q, c, d)
  BY Zenon DEF Stock!Row, MoveRow
<1> QED
  BY <1>2, <1>3, <1>4

LEMMA StockBooks ==
  ASSUME NEW s, NEW js
  PROVE  /\ \A a : Stock(s)!Balance(js, a) = Balance(js, a)
         /\ \A n, d, c, v : Stock(s)!PostedIfAny(js, n, d, c, v) = PostedIfAny(js, n, d, c, v)
         /\ \A d, c, v : Stock(s)!Pair(d, c, v) = Pair(d, c, v)
<1>1. ASSUME NEW a PROVE Stock(s)!Balance(js, a) = Balance(js, a)
  BY Zenon, StockNames DEF Stock!Balance, Stock!BalanceOver, Stock!Movement,
                           Balance, BalanceOver, Movement
<1>2. ASSUME NEW n, NEW d, NEW c, NEW v
      PROVE  /\ Stock(s)!PostedIfAny(js, n, d, c, v) = PostedIfAny(js, n, d, c, v)
             /\ Stock(s)!Pair(d, c, v) = Pair(d, c, v)
  BY Zenon DEF Stock!PostedIfAny, Stock!Posted, Stock!Entered, Stock!Normalized, Stock!Pair, Stock!Line,
               PostedIfAny, Posted, Entered, Normalized, Pair, Line
<1> QED
  BY <1>1, <1>2

LEMMA StockSums ==
  ASSUME NEW s
  PROVE  /\ \A p, H : Stock(s)!SumMoves(p, H) = StockOf(movements, p, H)
         /\ \A p, h : Stock(s)!StockIn(h, p) = StockOf(movements, p, {h})
         /\ \A p : Stock(s)!OnHand(p) = StockOf(movements, p, s.houses)
         /\ \A p : Stock(s)!SoldByTills(p) = SoldOf(movements, p)
         /\ Stock(s)!StockAccount <=> Balance(journals, "1300") = ValueOf(movements)
<1>1. ASSUME NEW p, NEW H PROVE Stock(s)!SumMoves(p, H) = StockOf(movements, p, H)
  <2>1. [r \in MovesOf(movements, p, H) |-> Stock(s)!Signed(movements[r])] =
          [r \in MovesOf(movements, p, H) |-> Quantities(movements)[r]]
    BY StockNames DEF MovesOf, Quantities
  <2> QED
    BY Zenon, <2>1, StockNames DEF Stock!SumMoves, StockOf, Figures, MovesOf
<1>2. ASSUME NEW p PROVE Stock(s)!SoldByTills(p) = SoldOf(movements, p)
  <2>1. [r \in SalesOf(movements, p) |-> Stock(s)!Signed(movements[r])] =
          [r \in SalesOf(movements, p) |-> Quantities(movements)[r]]
    BY StockNames DEF SalesOf, Quantities
  <2> QED
    BY Zenon, <2>1, StockNames DEF Stock!SoldByTills, SoldOf, Figures, SalesOf
<1>3. Stock(s)!StockAccount <=> Balance(journals, "1300") = ValueOf(movements)
  <2>1. Booked(movements) = {r \in DOMAIN movements :
                              \/ movements[r].paired
                              \/ movements[r].type \notin {"TRANSFER_IN", "TRANSFER_OUT"}}
    BY DEF Booked, ByHand
  <2>2. [r \in Booked(movements) |-> Stock(s)!Signed(movements[r]) * movements[r].cost] =
          [r \in Booked(movements) |-> Values(movements)[r]]
    BY StockNames DEF Booked, Values
  <2>3. Stock(s)!StockAccount <=>
          Stock(s)!Balance(journals, "1300") =
            Stock(s)!SumFunction([r \in Booked(movements) |->
                                    Stock(s)!Signed(movements[r]) * movements[r].cost])
    BY Zenon, <2>1 DEF Stock!StockAccount
  <2> QED
    BY Zenon, <2>2, <2>3, StockNames, StockBooks DEF ValueOf, Figures
<1> QED
  BY <1>1, <1>2, <1>3 DEF Stock!StockIn, Stock!OnHand

ItemStates == {"absent", "active", "archived"}
PlaceRow   == [active : BOOLEAN, default : BOOLEAN]
DefaultsOf(hs) == {h \in DOMAIN hs : hs[h].default}
AdjustRow(p, h, d, c, y) ==
  [product |-> p, warehouse |-> h, delta |-> d, cost |-> c, status |-> y]

ItemsOK(s, it)  == it \in [DOMAIN s.items -> ItemStates]
PlacesOK(s, hs) ==
  /\ DOMAIN hs \subseteq s.houses /\ hs \in [DOMAIN hs -> PlaceRow]
  /\ DOMAIN hs # {} => DefaultsOf(hs) # {}
MovesAt(s, it, ms) ==
  \A r \in DOMAIN ms :
    /\ ms[r].product \in DOMAIN s.items /\ ms[r].warehouse \in s.houses
    /\ it[ms[r].product] # "absent"
AdjustOK(s, a) ==
  /\ a = AdjustRow(a.product, a.warehouse, a.delta, a.cost, a.status)
  /\ a.product \in DOMAIN s.items /\ a.warehouse \in s.houses
  /\ a.delta \in Int /\ a.cost \in Nat /\ a.status \in {"DRAFT", "APPROVED", "VOID"}
AdjustsOK(s, it, as) ==
  /\ as = [r \in DOMAIN as |-> as[r]]
  /\ \A r \in DOMAIN as : AdjustOK(s, as[r]) /\ it[as[r].product] # "absent"

StockRows(s, it, hs, ms, as) ==
  ItemsOK(s, it) /\ PlacesOK(s, hs) /\ MovesAt(s, it, ms) /\ AdjustsOK(s, it, as)

(* What a request has read, at each point it waits at.  The product of a   *)
(* correction is there: its row is locked.                                 *)
StockLabels ==
  {"idle", "counting", "archiving", "deleting", "building", "closing", "choosing", "moving",
   "transferring", "deciding", "selling"}
StockJob(s, l, x, it, hs, as) ==
  /\ l \in StockLabels
  /\ l = "counting" =>
       /\ x.product \in DOMAIN s.items /\ x.warehouse \in s.houses
       /\ x.cost \in Nat /\ x.delta \in Int /\ it[x.product] # "absent"
  /\ l \in {"archiving", "deleting"} => x \in DOMAIN s.items
  /\ l = "building" =>
       /\ x.warehouse \in s.houses /\ x.first \in BOOLEAN
       /\ ~x.first => DOMAIN hs # {}
  /\ l = "closing" => x \in DOMAIN hs
  /\ l = "choosing" => x.warehouse \in DOMAIN hs
  /\ l = "moving" => x \in s.movements
  /\ l = "transferring" => x \in s.transfers
  /\ l = "deciding" => x.ref \in DOMAIN as /\ x.status \in {"APPROVED", "VOID"}
  /\ l = "selling" => x \in s.sales

StockInv(s) ==
  /\ GoodsBooks(movements, journals)
  /\ StockRows(s, items, warehouses, movements, adjustments)
  /\ tillLock \in s.workers \union {None}
  /\ DOMAIN pc = s.workers /\ DOMAIN job = s.workers
  /\ \A w \in s.workers : StockJob(s, pc[w], job[w], items, warehouses, adjustments)

Grows == DOMAIN warehouses \subseteq DOMAIN warehouses' /\ DOMAIN adjustments \subseteq DOMAIN adjustments'

LEMMA StockJobLater ==
  ASSUME NEW s, NEW l, NEW x, Grows, StockJob(s, l, x, items, warehouses, adjustments),
         l = "counting" => items'[x.product] # "absent"
  PROVE  StockJob(s, l, x, items', warehouses', adjustments')
  BY DEF Grows, StockJob

LEMMA StockStep ==
  ASSUME NEW s, NEW w \in s.workers, NEW l, NEW x, StockInv(s), Grows,
         GoodsBooks(movements', journals'),
         StockRows(s, items', warehouses', movements', adjustments'),
         tillLock' \in s.workers \union {None},
         Stock(s)!Turn(w, l, x), StockJob(s, l, x, items', warehouses', adjustments'),
         \A v \in s.workers \ {w} : pc[v] = "counting" => items'[job[v].product] # "absent"
  PROVE  StockInv(s)'
<1>1. pc' = [pc EXCEPT ![w] = l] /\ job' = [job EXCEPT ![w] = x]
  BY DEF Stock!Turn
<1>2. /\ DOMAIN pc' = s.workers /\ DOMAIN job' = s.workers
      /\ pc'[w] = l /\ job'[w] = x
      /\ \A v \in s.workers \ {w} : pc'[v] = pc[v] /\ job'[v] = job[v]
  BY <1>1 DEF StockInv
<1>3. ASSUME NEW v \in s.workers
      PROVE  StockJob(s, pc'[v], job'[v], items', warehouses', adjustments')
  <2>1. CASE v = w
    BY <1>2, <2>1
  <2>2. CASE v # w
    <3>1. StockJob(s, pc[v], job[v], items, warehouses, adjustments)
      BY DEF StockInv
    <3>2. pc[v] = "counting" => items'[job[v].product] # "absent"
      BY <2>2
    <3>3. StockJob(s, pc[v], job[v], items', warehouses', adjustments')
      BY <3>1, <3>2, StockJobLater
    <3> QED
      BY <1>2, <2>2, <3>3
  <2> QED
    BY <2>1, <2>2
<1> QED
  BY <1>2, <1>3 DEF StockInv

LEMMA StockAtOnce ==
  ASSUME NEW s, StockInv(s), Grows, UNCHANGED <<pc, job, tillLock>>,
         GoodsBooks(movements', journals'),
         StockRows(s, items', warehouses', movements', adjustments'),
         \A v \in s.workers : pc[v] = "counting" => items'[job[v].product] # "absent"
  PROVE  StockInv(s)'
<1>1. ASSUME NEW v \in s.workers
      PROVE  StockJob(s, pc[v], job[v], items', warehouses', adjustments')
  <2>1. StockJob(s, pc[v], job[v], items, warehouses, adjustments)
    BY DEF StockInv
  <2> QED
    BY <2>1, StockJobLater
<1> QED
  BY <1>1 DEF StockInv

LEMMA StockRead ==
  ASSUME NEW s, NEW w \in s.workers, NEW l, NEW x, StockInv(s),
         UNCHANGED <<items, warehouses, movements, adjustments, journals>>,
         tillLock' \in s.workers \union {None},
         Stock(s)!Turn(w, l, x), StockJob(s, l, x, items, warehouses, adjustments)
  PROVE  StockInv(s)'
<1>1. \A v \in s.workers : pc[v] = "counting" => items[job[v].product] # "absent"
  BY DEF StockInv, StockJob
<1>2. Grows
  BY DEF Grows
<1>3. /\ GoodsBooks(movements', journals')
      /\ StockRows(s, items', warehouses', movements', adjustments')
      /\ StockJob(s, l, x, items', warehouses', adjustments')
  BY DEF StockInv
<1> QED
  BY <1>1, <1>2, <1>3, StockStep

--------------------------------------------------------------------------------
(* Inventory: the actions that move goods.  Each adds one movement, with   *)
(* what it posts, or the two legs of a transfer.                           *)

StockWorth(m) == IF ByHand(m) THEN 0 ELSE Moved(m) * m.cost

AddsMove(s, n, m) ==
  /\ MoveAdded(movements, movements', n, m)
  /\ GoodsPosted(journals, journals', n, StockWorth(m))
  /\ TagFits(movements, n, "COUNT") /\ TagFits(movements, n, "POS")
  /\ m.product \in DOMAIN s.items /\ m.warehouse \in s.houses /\ items'[m.product] # "absent"

LEMMA WithAdds ==
  ASSUME NEW s, NEW n, NEW m, n \notin DOMAIN movements, movements' = Stock(s)!With(n, m), MoveOK(m)
  PROVE  MoveAdded(movements, movements', n, m)
BY DEF Stock!With, MoveAdded

IsMove(m, t, p, h, q, c, d) == m = MoveRow(t, p, h, q, c, d)

LEMMA RowIsMove ==
  ASSUME NEW m, NEW t, NEW p, NEW h, NEW q, NEW c, NEW d, IsMove(m, t, p, h, q, c, d),
         t \in Types, q \in Int, c \in Nat, d \in BOOLEAN, t # "ADJUSTMENT" => q > 0
  PROVE  /\ MoveOK(m) /\ m.product = p /\ m.warehouse = h /\ m.cost = c
         /\ Moved(m) = IF t \in {"ISSUE", "TRANSFER_OUT"} THEN - q ELSE q
         /\ ByHand(m) <=> ~d /\ t \in {"TRANSFER_IN", "TRANSFER_OUT"}
BY DEF IsMove, MoveOK, MoveRow, Moved, ByHand

LEMMA Times ==
  ASSUME NEW q \in Int, NEW c \in Nat
  PROVE  /\ q * c \in Int /\ (- q) * c = - (q * c) /\ - (- (q * c)) = q * c
         /\ q >= 0 => q * c \in Nat
         /\ q < 0 => (- q) * c \in Nat
OBVIOUS

LEMMA NothingPosted ==
  ASSUME NEW n, BooksFine(journals), journals' = journals
  PROVE  GoodsPosted(journals, journals', n, 0)
BY BalanceType DEF GoodsPosted

LEMMA MovementAdds ==
  ASSUME NEW s, NEW w \in s.workers, NEW b, NEW m, Stock(s)!InventoryAssumption, StockInv(s),
         Stock(s)!MovementCommit(w), b = job[w],
         m = MoveRow(b.type, b.product, b.warehouse, b.qty, b.cost, FALSE)
  PROVE  AddsMove(s, <<"MOVE", b.ref>>, m) /\ b \in s.movements /\ items' = items
<1>1. PICK n, v : n = <<"MOVE", b.ref>> /\ v = b.qty * b.cost
  OBVIOUS
<1>2. b \in s.movements
  BY DEF StockInv, StockJob, Stock!MovementCommit, Stock!At
<1>3. /\ b.product \in DOMAIN s.items /\ b.cost \in Nat /\ b.type \in Types
      /\ b.warehouse \in s.houses /\ b.qty \in Nat \ {0}
  BY <1>2 DEF Stock!InventoryAssumption, Stock!Named, Stock!Manual, Types
<1>4. /\ n \notin DOMAIN movements /\ items[b.product] # "absent"
      /\ movements' = Stock(s)!With(n, m) /\ items' = items
      /\ journals' = Stock(s)!MovementJournals(b, n)
  <2>1. Stock(s)!Row(b.type, b.product, b.warehouse, b.qty, b.cost, FALSE) = m
    BY Zenon DEF Stock!Row, MoveRow
  <2> QED
    BY <1>1, <2>1 DEF Stock!MovementCommit, Stock!Inserts
<1>5. /\ MoveOK(m) /\ m.product = b.product /\ m.warehouse = b.warehouse /\ m.cost = b.cost
      /\ Moved(m) = IF b.type \in {"ISSUE", "TRANSFER_OUT"} THEN - b.qty ELSE b.qty
      /\ ByHand(m) <=> b.type \in {"TRANSFER_IN", "TRANSFER_OUT"}
  <2>1. PICK t, q, c : t = b.type /\ q = b.qty /\ c = b.cost
    OBVIOUS
  <2>2. IsMove(m, t, b.product, b.warehouse, q, c, FALSE)
    BY <2>1 DEF IsMove
  <2>3. t \in Types /\ q \in Int /\ q > 0 /\ c \in Nat /\ FALSE \in BOOLEAN
    BY <1>3, <2>1
  <2>4. /\ MoveOK(m) /\ m.product = b.product /\ m.warehouse = b.warehouse /\ m.cost = c
        /\ Moved(m) = IF t \in {"ISSUE", "TRANSFER_OUT"} THEN - q ELSE q
        /\ ByHand(m) <=> ~FALSE /\ t \in {"TRANSFER_IN", "TRANSFER_OUT"}
    BY ONLY <2>2, <2>3, RowIsMove
  <2> QED
    BY ONLY <2>1, <2>4
<1>6. MoveAdded(movements, movements', n, m)
  BY <1>4, <1>5, WithAdds
<1>7. BooksFine(journals) /\ n \notin DOMAIN journals
  BY <1>4 DEF StockInv, GoodsBooks
<1>8. v \in Nat /\ - v = (- b.qty) * b.cost
  BY <1>1, <1>3, Times
<1>9. GoodsPosted(journals, journals', n, StockWorth(m))
  <2>1. CASE b.type = "RECEIPT"
    <3>1. journals' = PostedIfAny(journals, n, "1300", "2000", v)
      BY <1>1, <1>4, <2>1, StockBooks DEF Stock!MovementJournals
    <3>2. StockWorth(m) = v
      BY <1>1, <1>5, <2>1 DEF StockWorth
    <3>3. "1300" # "2000"
      OBVIOUS
    <3> QED
      BY <1>7, <1>8, <3>1, <3>2, <3>3, PostsGoods
  <2>2. CASE b.type = "ISSUE"
    <3>1. journals' = PostedIfAny(journals, n, "5300", "1300", v)
      BY <1>1, <1>4, <2>2, StockBooks DEF Stock!MovementJournals
    <3>2. StockWorth(m) = - v
      BY <1>5, <1>8, <2>2 DEF StockWorth
    <3>3. "5300" # "1300"
      OBVIOUS
    <3> QED
      BY <1>7, <1>8, <3>1, <3>2, <3>3, PostsGoods
  <2>3. CASE b.type = "ADJUSTMENT"
    <3>1. journals' = PostedIfAny(journals, n, "1300", "4900", v)
      BY <1>1, <1>4, <2>3, StockBooks DEF Stock!MovementJournals
    <3>2. StockWorth(m) = v
      BY <1>1, <1>5, <2>3 DEF StockWorth
    <3>3. "1300" # "4900"
      OBVIOUS
    <3> QED
      BY <1>7, <1>8, <3>1, <3>2, <3>3, PostsGoods
  <2>4. CASE b.type \in {"TRANSFER_IN", "TRANSFER_OUT"}
    <3>1. journals' = journals
      BY <1>4, <2>4 DEF Stock!MovementJournals
    <3>2. StockWorth(m) = 0
      BY <1>5, <2>4 DEF StockWorth
    <3> QED
      BY <1>7, <3>1, <3>2, NothingPosted
  <2> QED
    BY <1>3, <2>1, <2>2, <2>3, <2>4 DEF Types
<1>10. TagFits(movements, n, "COUNT") /\ TagFits(movements, n, "POS")
  BY <1>1 DEF TagFits
<1> QED
  BY <1>1, <1>2, <1>3, <1>4, <1>5, <1>6, <1>9, <1>10 DEF AddsMove

LEMMA CorrectionAdds ==
  ASSUME NEW s, NEW n, NEW p, NEW h, NEW d, NEW c, NEW m, StockInv(s),
         n \notin DOMAIN movements, movements' = Stock(s)!With(n, m),
         m = MoveRow("ADJUSTMENT", p, h, d, c, FALSE), d \in Int, c \in Nat,
         journals' = Stock(s)!GainOrLoss(journals, n, d, c),
         TagFits(movements, n, "COUNT"), TagFits(movements, n, "POS"),
         p \in DOMAIN s.items, h \in s.houses, items'[p] # "absent"
  PROVE  AddsMove(s, n, m)
<1>1. /\ MoveOK(m) /\ m.product = p /\ m.warehouse = h /\ m.cost = c /\ Moved(m) = d /\ ~ByHand(m)
  <2>1. IsMove(m, "ADJUSTMENT", p, h, d, c, FALSE) /\ "ADJUSTMENT" \in Types
    BY DEF IsMove, Types
  <2> QED
    BY <2>1, RowIsMove
<1>2. MoveAdded(movements, movements', n, m)
  BY <1>1, WithAdds
<1>3. BooksFine(journals) /\ n \notin DOMAIN journals
  BY DEF StockInv, GoodsBooks
<1>4. StockWorth(m) = d * c
  BY <1>1 DEF StockWorth
<1>5. GoodsPosted(journals, journals', n, StockWorth(m))
  <2>1. CASE d > 0
    <3>1. PICK v : v = d * c
      OBVIOUS
    <3>2. v \in Nat
      BY <2>1, <3>1, Times
    <3>3. journals' = PostedIfAny(journals, n, "1300", "4900", v) /\ "1300" # "4900"
      BY <2>1, <3>1, StockBooks DEF Stock!GainOrLoss
    <3> QED
      BY <1>3, <1>4, <3>1, <3>2, <3>3, PostsGoods
  <2>2. CASE d <= 0
    <3>1. PICK v : v = (- d) * c
      OBVIOUS
    <3>2. v \in Nat /\ d * c = - v
      <4>1. - d \in Int /\ - d >= 0 /\ d = - (- d)
        BY <2>2
      <4>2. (- d) * c \in Nat
        BY <4>1, Times
      <4>3. d * c = - ((- d) * c)
        BY <4>1, Times
      <4> QED
        BY <3>1, <4>2, <4>3
    <3>3. journals' = PostedIfAny(journals, n, "5900", "1300", v) /\ "5900" # "1300"
      BY <2>2, <3>1, StockBooks DEF Stock!GainOrLoss
    <3> QED
      BY <1>3, <1>4, <3>2, <3>3, PostsGoods
  <2>3. d > 0 \/ d <= 0
    OBVIOUS
  <2> QED
    BY ONLY <2>1, <2>2, <2>3
<1> QED
  BY <1>1, <1>2, <1>5 DEF AddsMove

LEMMA TagNames ==
  ASSUME NEW s
  PROVE  \A t : <<t, Stock(s)!Cardinality({r \in DOMAIN movements : r[1] = t}) + 1>> = NextTag(movements, t)
BY Zenon DEF Stock!Cardinality, Cardinality, NextTag, TagRows

LEMMA CountAdds ==
  ASSUME NEW s, NEW w \in s.workers, NEW j, NEW m, StockInv(s), Stock(s)!CountCommit(w), j = job[w],
         m = MoveRow("ADJUSTMENT", j.product, j.warehouse, j.delta, j.cost, FALSE)
  PROVE  /\ AddsMove(s, NextTag(movements, "COUNT"), m) /\ items' = items
         /\ j.product \in DOMAIN s.items /\ j.delta \in Int
<1>1. /\ j.product \in DOMAIN s.items /\ j.warehouse \in s.houses
      /\ j.cost \in Nat /\ j.delta \in Int /\ items[j.product] # "absent"
  BY DEF StockInv, StockJob, Stock!CountCommit, Stock!At
<1>2. PICK n : n = NextTag(movements, "COUNT")
  OBVIOUS
<1>3. n = <<"COUNT", Stock(s)!Cardinality({r \in DOMAIN movements : r[1] = "COUNT"}) + 1>>
  BY ONLY <1>2, TagNames
<1>4. Stock(s)!Row("ADJUSTMENT", j.product, j.warehouse, j.delta, j.cost, FALSE) = m
  BY Zenon DEF Stock!Row, MoveRow
<1>5. /\ movements' = Stock(s)!With(n, m) /\ items' = items
      /\ journals' = Stock(s)!GainOrLoss(journals, n, j.delta, j.cost)
  BY Zenon, <1>3, <1>4 DEF Stock!CountCommit
<1>6. n \notin DOMAIN movements
  BY <1>2, TagFresh DEF StockInv, GoodsBooks
<1>7. TagFits(movements, n, "COUNT") /\ TagFits(movements, n, "POS")
  BY <1>2 DEF TagFits, NextTag
<1>8. AddsMove(s, n, m)
  BY <1>1, <1>5, <1>6, <1>7, CorrectionAdds
<1> QED
  BY ONLY <1>1, <1>2, <1>5, <1>8

Approves(s, w) == Stock(s)!DecideCommit(w) /\ job[w].status = "APPROVED"

LEMMA ApprovalAdds ==
  ASSUME NEW s, NEW w \in s.workers, NEW a, NEW m, StockInv(s), Approves(s, w),
         a = adjustments[job[w].ref],
         m = MoveRow("ADJUSTMENT", a.product, a.warehouse, a.delta, a.cost, FALSE)
  PROVE  AddsMove(s, <<"ADJ", job[w].ref>>, m) /\ items' = items /\ a.delta \in Int
<1>1. job[w].ref \in DOMAIN adjustments
  BY DEF StockInv, StockJob, Approves, Stock!DecideCommit, Stock!At
<1>2. /\ a.product \in DOMAIN s.items /\ a.warehouse \in s.houses
      /\ a.cost \in Nat /\ a.delta \in Int /\ items[a.product] # "absent"
  BY <1>1 DEF StockInv, StockRows, AdjustsOK, AdjustOK
<1>3. PICK n : n = <<"ADJ", job[w].ref>>
  OBVIOUS
<1>4. Stock(s)!Row("ADJUSTMENT", a.product, a.warehouse, a.delta, a.cost, FALSE) = m
  BY Zenon DEF Stock!Row, MoveRow
<1>5. /\ movements' = Stock(s)!With(n, m) /\ items' = items /\ n \notin DOMAIN movements
      /\ journals' = Stock(s)!GainOrLoss(journals, n, a.delta, a.cost)
  BY <1>3, <1>4 DEF Approves, Stock!DecideCommit, Stock!Inserts
<1>7. TagFits(movements, n, "COUNT") /\ TagFits(movements, n, "POS")
  BY <1>3 DEF TagFits
<1>8. AddsMove(s, n, m)
  BY <1>2, <1>5, <1>7, CorrectionAdds
<1> QED
  BY ONLY <1>2, <1>3, <1>5, <1>8

LEMMA TillAdds ==
  ASSUME NEW s, NEW w \in s.workers, NEW b, NEW m, Stock(s)!InventoryAssumption, StockInv(s),
         Stock(s)!TillCommit(w), b = job[w],
         m = MoveRow("ISSUE", b.product, b.warehouse, b.qty, b.cost, FALSE)
  PROVE  AddsMove(s, NextTag(movements, "POS"), m) /\ items' = items /\ b \in s.sales
<1>1. b \in s.sales
  BY DEF StockInv, StockJob, Stock!TillCommit, Stock!At
<1>2. /\ b.product \in DOMAIN s.items /\ b.cost \in Nat
      /\ b.warehouse \in s.houses /\ b.qty \in Nat \ {0}
  BY <1>1 DEF Stock!InventoryAssumption, Stock!Named
<1>3. PICK n, q, c, v : n = NextTag(movements, "POS") /\ q = b.qty /\ c = b.cost /\ v = b.qty * b.cost
  OBVIOUS
<1>4. n = <<"POS", Stock(s)!Cardinality({r \in DOMAIN movements : r[1] = "POS"}) + 1>>
  BY ONLY <1>3, TagNames
<1>5. Stock(s)!Row("ISSUE", b.product, b.warehouse, b.qty, b.cost, FALSE) = m
  BY Zenon DEF Stock!Row, MoveRow
<1>6. /\ movements' = Stock(s)!With(n, m) /\ items' = items /\ items[b.product] # "absent"
      /\ journals' = Stock(s)!PostedIfAny(journals, n, "5300", "1300", v)
  BY Zenon, <1>3, <1>4, <1>5 DEF Stock!TillCommit, Stock!Inserts
<1>7. n \notin DOMAIN movements
  BY <1>3, TagFresh DEF StockInv, GoodsBooks
<1>8. TagFits(movements, n, "COUNT") /\ TagFits(movements, n, "POS")
  BY <1>3 DEF TagFits, NextTag
<1>9. MoveOK(m) /\ m.product = b.product /\ m.warehouse = b.warehouse /\ m.cost = c /\ Moved(m) = - q /\ ~ByHand(m)
  <2>1. PICK t1 : t1 = "ISSUE"
    OBVIOUS
  <2>2. IsMove(m, t1, b.product, b.warehouse, q, c, FALSE)
    BY <1>3, <2>1 DEF IsMove
  <2>3. t1 \in Types /\ q \in Int /\ q > 0 /\ c \in Nat /\ FALSE \in BOOLEAN
    BY <1>2, <1>3, <2>1 DEF Types
  <2>4. /\ MoveOK(m) /\ m.product = b.product /\ m.warehouse = b.warehouse /\ m.cost = c
        /\ Moved(m) = IF t1 \in {"ISSUE", "TRANSFER_OUT"} THEN - q ELSE q
        /\ ByHand(m) <=> ~FALSE /\ t1 \in {"TRANSFER_IN", "TRANSFER_OUT"}
    BY ONLY <2>2, <2>3, RowIsMove
  <2> QED
    BY ONLY <2>1, <2>4
<1>10. v \in Nat /\ StockWorth(m) = - v
  <2>1. q \in Int /\ q >= 0 /\ c \in Nat /\ v = q * c
    BY <1>2, <1>3
  <2>2. v \in Nat /\ (- q) * c = - v
    BY ONLY <2>1, Times
  <2> QED
    BY <1>9, <2>2 DEF StockWorth
<1>11. GoodsPosted(journals, journals', n, StockWorth(m))
  <2>1. journals' = PostedIfAny(journals, n, "5300", "1300", v) /\ "5300" # "1300"
    BY <1>6, StockBooks
  <2>2. BooksFine(journals) /\ n \notin DOMAIN journals
    BY <1>7 DEF StockInv, GoodsBooks
  <2>3. GoodsPosted(journals, journals', n, - v)
    BY ONLY <1>10, <2>1, <2>2, PostsGoods
  <2> QED
    BY ONLY <1>10, <2>3
<1>12. MoveAdded(movements, movements', n, m)
  BY <1>6, <1>7, <1>9, WithAdds
<1> QED
  BY <1>1, <1>2, <1>3, <1>6, <1>8, <1>9, <1>11, <1>12 DEF AddsMove

Opens(s, o) == Stock(s)!CreateProduct(o) /\ o.qty > 0

LEMMA OpeningAdds ==
  ASSUME NEW s, NEW o \in s.openings, NEW m, Stock(s)!InventoryAssumption, StockInv(s),
         Opens(s, o), m = MoveRow("RECEIPT", o.product, o.warehouse, o.qty, o.cost, FALSE)
  PROVE  AddsMove(s, <<"OPEN", o.product>>, m)
<1>2. /\ o.product \in DOMAIN s.items /\ o.cost \in Nat
      /\ o.warehouse \in s.houses /\ o.qty \in Nat /\ o.qty > 0
  BY DEF Stock!InventoryAssumption, Stock!Named, Opens
<1>3. PICK n, q, c, v : n = <<"OPEN", o.product>> /\ q = o.qty /\ c = o.cost /\ v = o.qty * o.cost
  OBVIOUS
<1>5. Stock(s)!Row("RECEIPT", o.product, o.warehouse, o.qty, o.cost, FALSE) = m
  BY Zenon DEF Stock!Row, MoveRow
<1>6. /\ movements' = Stock(s)!With(n, m) /\ n \notin DOMAIN movements
      /\ journals' = Stock(s)!PostedIfAny(journals, n, "1300", "3900", v)
      /\ items' = [items EXCEPT ![o.product] = "active"]
  BY <1>2, <1>3, <1>5 DEF Opens, Stock!CreateProduct, Stock!Opened
<1>7. items'[o.product] # "absent"
  BY <1>2, <1>6 DEF StockInv, StockRows, ItemsOK
<1>8. TagFits(movements, n, "COUNT") /\ TagFits(movements, n, "POS")
  BY <1>3 DEF TagFits
<1>9. MoveOK(m) /\ m.product = o.product /\ m.warehouse = o.warehouse /\ m.cost = c /\ Moved(m) = q /\ ~ByHand(m)
  <2>1. PICK t1 : t1 = "RECEIPT"
    OBVIOUS
  <2>2. IsMove(m, t1, o.product, o.warehouse, q, c, FALSE)
    BY <1>3, <2>1 DEF IsMove
  <2>3. t1 \in Types /\ q \in Int /\ q > 0 /\ c \in Nat /\ FALSE \in BOOLEAN
    BY <1>2, <1>3, <2>1 DEF Types
  <2>4. /\ MoveOK(m) /\ m.product = o.product /\ m.warehouse = o.warehouse /\ m.cost = c
        /\ Moved(m) = IF t1 \in {"ISSUE", "TRANSFER_OUT"} THEN - q ELSE q
        /\ ByHand(m) <=> ~FALSE /\ t1 \in {"TRANSFER_IN", "TRANSFER_OUT"}
    BY ONLY <2>2, <2>3, RowIsMove
  <2> QED
    BY ONLY <2>1, <2>4
<1>10. v \in Nat /\ StockWorth(m) = v
  <2>1. q \in Int /\ q >= 0 /\ c \in Nat /\ v = q * c
    BY <1>2, <1>3
  <2>2. v \in Nat
    BY ONLY <2>1, Times
  <2> QED
    BY <1>9, <2>1, <2>2 DEF StockWorth
<1>11. GoodsPosted(journals, journals', n, StockWorth(m))
  <2>1. journals' = PostedIfAny(journals, n, "1300", "3900", v) /\ "1300" # "3900"
    BY <1>6, StockBooks
  <2>2. BooksFine(journals) /\ n \notin DOMAIN journals
    BY <1>6 DEF StockInv, GoodsBooks
  <2>3. GoodsPosted(journals, journals', n, v)
    BY ONLY <1>10, <2>1, <2>2, PostsGoods
  <2> QED
    BY ONLY <1>10, <2>3
<1>12. MoveAdded(movements, movements', n, m)
  BY <1>6, <1>9, WithAdds
<1> QED
  BY <1>2, <1>3, <1>7, <1>8, <1>9, <1>11, <1>12 DEF AddsMove

(* The legs of a transfer, one after the other. *)
Legs(s, mid, a, out, b, in) ==
  /\ MoveAdded(movements, mid, a, out) /\ MoveAdded(mid, movements', b, in)
  /\ a[1] \notin {"COUNT", "POS"} /\ b[1] \notin {"COUNT", "POS"}
  /\ ~ByHand(out) /\ ~ByHand(in) /\ in.cost = out.cost /\ Moved(in) = - Moved(out)
  /\ \A m \in {out, in} :
       /\ m.product \in DOMAIN s.items /\ m.warehouse \in s.houses /\ items'[m.product] # "absent"

Leg(s, t, type, h) == MoveRow(type, t.product, h, t.qty, t.cost, TRUE)

LEMMA TransferAdds ==
  ASSUME NEW s, NEW w \in s.workers, NEW t, NEW out, NEW in, Stock(s)!InventoryAssumption,
         StockInv(s), Stock(s)!TransferCommit(w), t = job[w],
         out = Leg(s, t, "TRANSFER_OUT", t.from), in = Leg(s, t, "TRANSFER_IN", t.to)
  PROVE  /\ \E mid : Legs(s, mid, <<"OUT", t.ref>>, out, <<"IN", t.ref>>, in)
         /\ t \in s.transfers /\ items' = items /\ journals' = journals
         /\ out.product = t.product /\ out.warehouse = t.from /\ Moved(out) = - t.qty
         /\ in.product = t.product /\ in.warehouse = t.to /\ Moved(in) = t.qty
<1>1. t \in s.transfers
  BY DEF StockInv, StockJob, Stock!TransferCommit, Stock!At
<1>2. /\ t.product \in DOMAIN s.items /\ t.cost \in Nat
      /\ t.from \in s.houses /\ t.to \in s.houses /\ t.qty \in Nat \ {0}
  BY <1>1 DEF Stock!InventoryAssumption, Stock!Named
<1>3. PICK a, b, q, c : a = <<"OUT", t.ref>> /\ b = <<"IN", t.ref>> /\ q = t.qty /\ c = t.cost
  OBVIOUS
<1>4. a # b /\ a[1] \notin {"COUNT", "POS"} /\ b[1] \notin {"COUNT", "POS"}
  BY <1>3
<1>5. /\ Stock(s)!Row("TRANSFER_OUT", t.product, t.from, t.qty, t.cost, TRUE) = out
      /\ Stock(s)!Row("TRANSFER_IN", t.product, t.to, t.qty, t.cost, TRUE) = in
  BY Zenon DEF Stock!Row, MoveRow, Leg
<1>6. /\ a \notin DOMAIN movements /\ b \notin DOMAIN movements
      /\ items[t.product] # "absent" /\ items' = items /\ journals' = journals
  BY <1>3 DEF Stock!TransferCommit, Stock!Inserts
<1>7. movements' = [r \in DOMAIN movements \union {a, b} |->
                      IF r = a THEN out ELSE IF r = b THEN in ELSE movements[r]]
  BY Zenon, <1>3, <1>5 DEF Stock!TransferCommit
<1>8. PICK mid : mid = [r \in DOMAIN movements \union {a} |-> IF r = a THEN out ELSE movements[r]]
  OBVIOUS
<1>9. /\ MoveOK(out) /\ out.product = t.product /\ out.warehouse = t.from /\ out.cost = c
      /\ Moved(out) = - q /\ ~ByHand(out)
  <2>1. PICK t1 : t1 = "TRANSFER_OUT"
    OBVIOUS
  <2>2. IsMove(out, t1, t.product, t.from, q, c, TRUE)
    BY <1>3, <2>1 DEF IsMove, Leg
  <2>3. t1 \in Types /\ q \in Int /\ q > 0 /\ c \in Nat /\ TRUE \in BOOLEAN
    BY <1>2, <1>3, <2>1 DEF Types
  <2>4. /\ MoveOK(out) /\ out.product = t.product /\ out.warehouse = t.from /\ out.cost = c
        /\ Moved(out) = IF t1 \in {"ISSUE", "TRANSFER_OUT"} THEN - q ELSE q
        /\ ByHand(out) <=> ~TRUE /\ t1 \in {"TRANSFER_IN", "TRANSFER_OUT"}
    BY ONLY <2>2, <2>3, RowIsMove
  <2> QED
    BY ONLY <2>1, <2>4
<1>10. /\ MoveOK(in) /\ in.product = t.product /\ in.warehouse = t.to /\ in.cost = c
       /\ Moved(in) = q /\ ~ByHand(in)
  <2>1. PICK t1 : t1 = "TRANSFER_IN"
    OBVIOUS
  <2>2. IsMove(in, t1, t.product, t.to, q, c, TRUE)
    BY <1>3, <2>1 DEF IsMove, Leg
  <2>3. t1 \in Types /\ q \in Int /\ q > 0 /\ c \in Nat /\ TRUE \in BOOLEAN
    BY <1>2, <1>3, <2>1 DEF Types
  <2>4. /\ MoveOK(in) /\ in.product = t.product /\ in.warehouse = t.to /\ in.cost = c
        /\ Moved(in) = IF t1 \in {"ISSUE", "TRANSFER_OUT"} THEN - q ELSE q
        /\ ByHand(in) <=> ~TRUE /\ t1 \in {"TRANSFER_IN", "TRANSFER_OUT"}
    BY ONLY <2>2, <2>3, RowIsMove
  <2> QED
    BY ONLY <2>1, <2>4
<1>11. MoveAdded(movements, mid, a, out)
  BY <1>6, <1>8, <1>9 DEF MoveAdded
<1>12. MoveAdded(mid, movements', b, in)
  BY <1>4, <1>6, <1>7, <1>8, <1>10 DEF MoveAdded
<1>13. Moved(in) = - Moved(out)
  BY <1>2, <1>3, <1>9, <1>10
<1>14. Legs(s, mid, a, out, b, in)
  BY <1>2, <1>4, <1>6, <1>9, <1>10, <1>11, <1>12, <1>13 DEF Legs
<1> QED
  BY ONLY <1>1, <1>3, <1>6, <1>9, <1>10, <1>14

--------------------------------------------------------------------------------
(* Inventory: every action keeps what holds. *)

(* No product goes. *)
Stays(s) == \A p \in DOMAIN s.items : items[p] # "absent" => items'[p] # "absent"

LEMMA AddsStep ==
  ASSUME NEW s, NEW n, NEW m, StockInv(s), AddsMove(s, n, m), Stays(s)
  PROVE  GoodsBooks(movements', journals') /\ MovesAt(s, items', movements')
<1>1. GoodsBooks(movements', journals')
  BY GoodsAdded DEF AddsMove, StockInv, StockWorth
<1>2. MovesAt(s, items', movements')
  BY DEF AddsMove, StockInv, StockRows, MovesAt, MoveAdded, Stays
<1> QED
  BY <1>1, <1>2

LEMMA LegsStep ==
  ASSUME NEW s, NEW mid, NEW a, NEW out, NEW b, NEW in,
         StockInv(s), Legs(s, mid, a, out, b, in), journals' = journals, Stays(s)
  PROVE  GoodsBooks(movements', journals') /\ MovesAt(s, items', movements')
<1>1. GoodsBooks(movements', journals')
  BY GoodsTransferred DEF Legs, StockInv
<1>2. MovesAt(s, items', movements')
  BY DEF Legs, StockInv, StockRows, MovesAt, MoveAdded, Stays
<1> QED
  BY <1>1, <1>2

(* A commit of a worker that leaves items and warehouses as they are.      *)
LEMMA StockDone ==
  ASSUME NEW s, NEW w \in s.workers, StockInv(s), Stock(s)!Done(w),
         items' = items, warehouses' = warehouses, adjustments' = adjustments,
         tillLock' \in s.workers \union {None},
         GoodsBooks(movements', journals'), MovesAt(s, items', movements')
  PROVE  StockInv(s)'
<1>1. Stock(s)!Turn(w, "idle", None)
  BY DEF Stock!Done
<1>2. StockJob(s, "idle", None, items', warehouses', adjustments')
  BY DEF StockJob, StockLabels
<1>3. StockRows(s, items', warehouses', movements', adjustments')
  BY DEF StockInv, StockRows
<1>4. \A v \in s.workers \ {w} : pc[v] = "counting" => items'[job[v].product] # "absent"
  BY DEF StockInv, StockJob
<1>5. Grows
  BY DEF Grows
<1> QED
  BY <1>1, <1>2, <1>3, <1>4, <1>5, StockStep

LEMMA StockMoves ==
  ASSUME NEW s, NEW w \in s.workers, Stock(s)!InventoryAssumption, StockInv(s),
         Stock(s)!MovementCommit(w) \/ Stock(s)!CountCommit(w)
  PROVE  StockInv(s)'
<1>1. /\ Stock(s)!Done(w) /\ items' = items /\ warehouses' = warehouses
      /\ adjustments' = adjustments /\ tillLock' \in s.workers \union {None}
  BY DEF Stock!MovementCommit, Stock!CountCommit, StockInv
<1>2. Stays(s)
  BY <1>1 DEF Stays
<1>3. \E n, m : AddsMove(s, n, m)
  <2>1. CASE Stock(s)!MovementCommit(w)
    <3>1. PICK b : b = job[w]
      OBVIOUS
    <3>2. PICK m : m = MoveRow(b.type, b.product, b.warehouse, b.qty, b.cost, FALSE)
      OBVIOUS
    <3> QED
      BY <2>1, <3>1, <3>2, MovementAdds
  <2>2. CASE Stock(s)!CountCommit(w)
    <3>1. PICK b : b = job[w]
      OBVIOUS
    <3>2. PICK m : m = MoveRow("ADJUSTMENT", b.product, b.warehouse, b.delta, b.cost, FALSE)
      OBVIOUS
    <3> QED
      BY <2>2, <3>1, <3>2, CountAdds
  <2> QED
    BY <2>1, <2>2
<1>4. GoodsBooks(movements', journals') /\ MovesAt(s, items', movements')
  BY <1>2, <1>3, AddsStep
<1> QED
  BY <1>1, <1>4, StockDone

LEMMA StockSells ==
  ASSUME NEW s, NEW w \in s.workers, Stock(s)!InventoryAssumption, StockInv(s),
         Stock(s)!TillCommit(w)
  PROVE  StockInv(s)'
<1>1. /\ Stock(s)!Done(w) /\ items' = items /\ warehouses' = warehouses
      /\ adjustments' = adjustments /\ tillLock' = None
  BY DEF Stock!TillCommit
<1>2. Stays(s)
  BY <1>1 DEF Stays
<1>3. \E n, m : AddsMove(s, n, m)
  <2>1. PICK b : b = job[w]
    OBVIOUS
  <2>2. PICK m : m = MoveRow("ISSUE", b.product, b.warehouse, b.qty, b.cost, FALSE)
    OBVIOUS
  <2> QED
    BY <2>1, <2>2, TillAdds
<1>4. GoodsBooks(movements', journals') /\ MovesAt(s, items', movements')
  BY <1>2, <1>3, AddsStep
<1> QED
  BY <1>1, <1>4, StockDone

LEMMA StockTransfers ==
  ASSUME NEW s, NEW w \in s.workers, Stock(s)!InventoryAssumption, StockInv(s),
         Stock(s)!TransferCommit(w)
  PROVE  StockInv(s)'
<1>1. /\ Stock(s)!Done(w) /\ items' = items /\ warehouses' = warehouses
      /\ adjustments' = adjustments /\ tillLock' \in s.workers \union {None} /\ journals' = journals
  BY DEF Stock!TransferCommit, StockInv
<1>2. Stays(s)
  BY <1>1 DEF Stays
<1>3. \E mid, a, out, b, in : Legs(s, mid, a, out, b, in)
  <2>1. PICK t : t = job[w]
    OBVIOUS
  <2>2. PICK out, in : out = Leg(s, t, "TRANSFER_OUT", t.from) /\ in = Leg(s, t, "TRANSFER_IN", t.to)
    OBVIOUS
  <2>3. \E mid : Legs(s, mid, <<"OUT", t.ref>>, out, <<"IN", t.ref>>, in)
    BY <2>1, <2>2, TransferAdds
  <2> QED
    BY <2>3
<1>4. GoodsBooks(movements', journals') /\ MovesAt(s, items', movements')
  BY <1>1, <1>2, <1>3, LegsStep
<1> QED
  BY <1>1, <1>4, StockDone

IsDecided(new, as, r, y) == new = [as EXCEPT ![r].status = y]

LEMMA AdjustDecided ==
  ASSUME NEW s, NEW as, NEW it, NEW r, NEW y, NEW new, AdjustsOK(s, it, as), r \in DOMAIN as,
         y \in {"APPROVED", "VOID"}, IsDecided(new, as, r, y)
  PROVE  AdjustsOK(s, it, new) /\ DOMAIN new = DOMAIN as
<1>1. DOMAIN new = DOMAIN as /\ \A x \in DOMAIN as \ {r} : new[x] = as[x]
  BY DEF AdjustsOK, IsDecided
<1>2. new[r] = [as[r] EXCEPT !.status = y]
  BY DEF AdjustsOK, IsDecided
<1>3. AdjustOK(s, as[r]) /\ it[as[r].product] # "absent"
  BY DEF AdjustsOK
<1>4. PICK a, b : a = as[r] /\ b = new[r]
  OBVIOUS
<1>5. AdjustOK(s, b) /\ it[b.product] # "absent"
  BY <1>2, <1>3, <1>4 DEF AdjustOK, AdjustRow
<1>6. new = [x \in DOMAIN new |-> new[x]]
  BY DEF AdjustsOK, IsDecided
<1> QED
  BY <1>1, <1>4, <1>5, <1>6 DEF AdjustsOK

LEMMA StockDecides ==
  ASSUME NEW s, NEW w \in s.workers, StockInv(s), Stock(s)!DecideCommit(w)
  PROVE  StockInv(s)'
<1>1. /\ Stock(s)!Turn(w, "idle", None) /\ items' = items /\ warehouses' = warehouses /\ tillLock' = tillLock
  BY DEF Stock!DecideCommit, Stock!Done
<1>2. job[w].ref \in DOMAIN adjustments /\ job[w].status \in {"APPROVED", "VOID"}
  BY DEF Stock!DecideCommit, Stock!At, StockInv, StockJob
<1>3. IsDecided(adjustments', adjustments, job[w].ref, job[w].status)
  BY DEF Stock!DecideCommit, IsDecided
<1>4. AdjustsOK(s, items', adjustments') /\ DOMAIN adjustments' = DOMAIN adjustments
  <2>1. AdjustsOK(s, items, adjustments)
    BY DEF StockInv, StockRows
  <2>2. PICK as, r, y : as = adjustments' /\ r = job[w].ref /\ y = job[w].status
    OBVIOUS
  <2>3. IsDecided(as, adjustments, r, y) /\ r \in DOMAIN adjustments /\ y \in {"APPROVED", "VOID"}
    BY <1>2, <1>3, <2>2
  <2>4. AdjustsOK(s, items, as) /\ DOMAIN as = DOMAIN adjustments
    BY ONLY <2>1, <2>3, AdjustDecided
  <2> QED
    BY <1>1, <2>2, <2>4
<1>5. Stays(s)
  BY <1>1 DEF Stays
<1>6. GoodsBooks(movements', journals') /\ MovesAt(s, items', movements')
  <2>1. CASE job[w].status = "APPROVED"
    <3>1. PICK a : a = adjustments[job[w].ref]
      OBVIOUS
    <3>2. PICK m : m = MoveRow("ADJUSTMENT", a.product, a.warehouse, a.delta, a.cost, FALSE)
      OBVIOUS
    <3>3. AddsMove(s, <<"ADJ", job[w].ref>>, m)
      BY <2>1, <3>1, <3>2, ApprovalAdds DEF Approves
    <3> QED
      BY <1>5, <3>3, AddsStep
  <2>2. CASE job[w].status # "APPROVED"
    <3>1. movements' = movements /\ journals' = journals
      BY <2>2 DEF Stock!DecideCommit
    <3> QED
      BY <1>1, <3>1 DEF StockInv, StockRows
  <2> QED
    BY <2>1, <2>2
<1>7. StockRows(s, items', warehouses', movements', adjustments')
  BY <1>1, <1>4, <1>6 DEF StockInv, StockRows
<1>8. StockJob(s, "idle", None, items', warehouses', adjustments')
  BY DEF StockJob, StockLabels
<1>9. \A v \in s.workers \ {w} : pc[v] = "counting" => items'[job[v].product] # "absent"
  BY <1>1 DEF StockInv, StockJob
<1>10. Grows /\ tillLock' \in s.workers \union {None}
  BY <1>1, <1>4 DEF Grows, StockInv
<1> QED
  BY <1>1, <1>6, <1>7, <1>8, <1>9, <1>10, StockStep

LEMMA StockAborts ==
  ASSUME NEW s, NEW w \in s.workers, StockInv(s), Stock(s)!Abort(w)
  PROVE  StockInv(s)'
<1>1. /\ Stock(s)!Turn(w, "idle", None) /\ tillLock' \in s.workers \union {None}
      /\ UNCHANGED <<items, warehouses, movements, adjustments, journals>>
  BY DEF Stock!Abort, Stock!GiveUp, Stock!Done, StockInv
<1>2. StockJob(s, "idle", None, items, warehouses, adjustments)
  BY DEF StockJob, StockLabels
<1> QED
  BY <1>1, <1>2, StockRead

(* What is read, of the stock and by the tills. *)
LEMMA StockReads ==
  ASSUME NEW s, NEW w \in s.workers, StockInv(s),
         \/ \E b \in s.movements : Stock(s)!MovementRead(w, b)
         \/ \E t \in s.transfers : Stock(s)!TransferRead(w, t)
         \/ \E r \in DOMAIN adjustments, y \in {"APPROVED", "VOID"} : Stock(s)!DecideRead(w, r, y)
         \/ \E b \in s.sales : Stock(s)!TillRead(w, b)
  PROVE  StockInv(s)'
<1>1. ASSUME NEW b \in s.movements, Stock(s)!MovementRead(w, b) PROVE StockInv(s)'
  <2>1. /\ Stock(s)!Turn(w, "moving", b) /\ tillLock' \in s.workers \union {None}
        /\ UNCHANGED <<items, warehouses, movements, adjustments, journals>>
    BY <1>1 DEF Stock!MovementRead, Stock!rowVars, StockInv
  <2>2. StockJob(s, "moving", b, items, warehouses, adjustments)
    BY DEF StockJob, StockLabels
  <2> QED
    BY <2>1, <2>2, StockRead
<1>2. ASSUME NEW t \in s.transfers, Stock(s)!TransferRead(w, t) PROVE StockInv(s)'
  <2>1. /\ Stock(s)!Turn(w, "transferring", t) /\ tillLock' \in s.workers \union {None}
        /\ UNCHANGED <<items, warehouses, movements, adjustments, journals>>
    BY <1>2 DEF Stock!TransferRead, Stock!rowVars, StockInv
  <2>2. StockJob(s, "transferring", t, items, warehouses, adjustments)
    BY DEF StockJob, StockLabels
  <2> QED
    BY <2>1, <2>2, StockRead
<1>3. ASSUME NEW r \in DOMAIN adjustments, NEW y \in {"APPROVED", "VOID"}, Stock(s)!DecideRead(w, r, y)
      PROVE  StockInv(s)'
  <2>1. PICK x : x = [ref |-> r, status |-> y]
    OBVIOUS
  <2>2. /\ Stock(s)!Turn(w, "deciding", x) /\ tillLock' \in s.workers \union {None}
        /\ UNCHANGED <<items, warehouses, movements, adjustments, journals>>
    BY <1>3, <2>1 DEF Stock!DecideRead, Stock!rowVars, StockInv
  <2>3. StockJob(s, "deciding", x, items, warehouses, adjustments)
    BY <2>1 DEF StockJob, StockLabels
  <2> QED
    BY <2>2, <2>3, StockRead
<1>4. ASSUME NEW b \in s.sales, Stock(s)!TillRead(w, b) PROVE StockInv(s)'
  <2>1. /\ Stock(s)!Turn(w, "selling", b) /\ tillLock' \in s.workers \union {None}
        /\ UNCHANGED <<items, warehouses, movements, adjustments, journals>>
    BY <1>4 DEF Stock!TillRead
  <2>2. StockJob(s, "selling", b, items, warehouses, adjustments)
    BY DEF StockJob, StockLabels
  <2> QED
    BY <2>1, <2>2, StockRead
<1> QED
  BY <1>1, <1>2, <1>3, <1>4

LEMMA StockDrafts ==
  ASSUME NEW s, NEW a \in s.adjustments, Stock(s)!InventoryAssumption, StockInv(s),
         Stock(s)!CreateAdjustment(a)
  PROVE  StockInv(s)'
<1>0. a.product \in DOMAIN s.items /\ a.warehouse \in s.houses /\ a.delta \in Int /\ a.cost \in Nat
  BY DEF Stock!InventoryAssumption, Stock!Named
<1>1. /\ UNCHANGED <<items, warehouses, movements, journals>> /\ UNCHANGED <<pc, job, tillLock>>
      /\ items[a.product] = "active" /\ a.ref \notin DOMAIN adjustments
      /\ DOMAIN adjustments' = DOMAIN adjustments \union {a.ref}
      /\ adjustments' = [r \in DOMAIN adjustments' |-> adjustments'[r]]
      /\ adjustments'[a.ref] = AdjustRow(a.product, a.warehouse, a.delta, a.cost, "DRAFT")
      /\ \A r \in DOMAIN adjustments : adjustments'[r] = adjustments[r]
  BY DEF Stock!CreateAdjustment, Stock!Usable, Stock!requestVars, AdjustRow
<1>2. AdjustOK(s, adjustments'[a.ref]) /\ items[adjustments'[a.ref].product] # "absent"
  <2>1. PICK x : x = adjustments'[a.ref]
    OBVIOUS
  <2>2. AdjustOK(s, x) /\ x.product = a.product
    BY <1>0, <1>1, <2>1 DEF AdjustOK, AdjustRow
  <2> QED
    BY <1>1, <2>1, <2>2
<1>3. AdjustsOK(s, items', adjustments')
  BY <1>1, <1>2 DEF StockInv, StockRows, AdjustsOK
<1>4. Grows
  BY <1>1 DEF Grows
<1>5. \A v \in s.workers : pc[v] = "counting" => items'[job[v].product] # "absent"
  BY <1>1 DEF StockInv, StockJob
<1>6. GoodsBooks(movements', journals')
  BY <1>1 DEF StockInv
<1>7. StockRows(s, items', warehouses', movements', adjustments')
  BY <1>1, <1>3 DEF StockInv, StockRows
<1> QED
  BY <1>1, <1>4, <1>5, <1>6, <1>7, StockAtOnce

(* Products. *)
ItemSet(it, p, y, new) == new = [it EXCEPT ![p] = y]

LEMMA ItemTypes ==
  ASSUME NEW s, NEW it, NEW p, NEW y, NEW new, ItemsOK(s, it), p \in DOMAIN s.items,
         y \in ItemStates, ItemSet(it, p, y, new)
  PROVE  /\ ItemsOK(s, new) /\ new[p] = y
         /\ \A x \in DOMAIN s.items : x # p => new[x] = it[x]
BY DEF ItemsOK, ItemSet

LEMMA StockCreates ==
  ASSUME NEW s, NEW o \in s.openings, Stock(s)!InventoryAssumption, StockInv(s),
         Stock(s)!CreateProduct(o)
  PROVE  StockInv(s)'
<1>0. o.product \in DOMAIN s.items
  BY DEF Stock!InventoryAssumption, Stock!Named
<1>1. /\ UNCHANGED <<warehouses, adjustments>> /\ UNCHANGED <<pc, job, tillLock>>
      /\ ItemSet(items, o.product, "active", items')
  BY DEF Stock!CreateProduct, Stock!requestVars, ItemSet
<1>2. /\ ItemsOK(s, items') /\ items'[o.product] = "active"
      /\ \A x \in DOMAIN s.items : x # o.product => items'[x] = items[x]
  <2>1. ItemsOK(s, items) /\ "active" \in ItemStates
    BY DEF StockInv, StockRows, ItemStates
  <2>2. PICK new, y : new = items' /\ y = "active"
    OBVIOUS
  <2>3. ItemSet(items, o.product, y, new) /\ y \in ItemStates /\ ItemsOK(s, items)
    BY <1>1, <2>1, <2>2
  <2>4. ItemsOK(s, new) /\ new[o.product] = y /\ \A x \in DOMAIN s.items : x # o.product => new[x] = items[x]
    BY ONLY <1>0, <2>3, ItemTypes
  <2> QED
    BY <2>2, <2>4
<1>3. Stays(s)
  BY <1>2 DEF Stays
<1>4. GoodsBooks(movements', journals') /\ MovesAt(s, items', movements')
  <2>1. CASE o.qty > 0
    <3>1. PICK m : m = MoveRow("RECEIPT", o.product, o.warehouse, o.qty, o.cost, FALSE)
      OBVIOUS
    <3>2. AddsMove(s, <<"OPEN", o.product>>, m)
      BY <2>1, <3>1, OpeningAdds DEF Opens
    <3> QED
      BY <1>3, <3>2, AddsStep
  <2>2. CASE ~(o.qty > 0)
    <3>1. movements' = movements /\ journals' = journals
      BY <2>2 DEF Stock!CreateProduct
    <3> QED
      BY <1>3, <3>1 DEF StockInv, StockRows, MovesAt, Stays
  <2> QED
    BY <2>1, <2>2
<1>5. AdjustsOK(s, items', adjustments')
  BY <1>1, <1>3 DEF StockInv, StockRows, AdjustsOK, AdjustOK, Stays
<1>6. StockRows(s, items', warehouses', movements', adjustments')
  BY <1>1, <1>2, <1>4, <1>5 DEF StockInv, StockRows
<1>7. \A v \in s.workers : pc[v] = "counting" => items'[job[v].product] # "absent"
  BY <1>3 DEF StockInv, StockJob, Stays
<1>8. Grows
  BY <1>1 DEF Grows
<1> QED
  BY <1>1, <1>4, <1>6, <1>7, <1>8, StockAtOnce

LEMMA StockCounts ==
  ASSUME NEW s, NEW w \in s.workers, NEW b \in s.counts, Stock(s)!InventoryAssumption, StockInv(s),
         Stock(s)!CountRead(w, b)
  PROVE  StockInv(s)'
<1>0. b.product \in DOMAIN s.items /\ b.warehouse \in s.houses /\ b.cost \in Nat /\ b.target \in Nat
  BY DEF Stock!InventoryAssumption, Stock!Named
<1>1. PICK d, x : /\ d = b.target - Stock(s)!OnHand(b.product)
                  /\ x = [product |-> b.product, warehouse |-> b.warehouse, cost |-> b.cost, delta |-> d]
  OBVIOUS
<1>2. d \in Int
  <2>1. PICK k : k = Stock(s)!OnHand(b.product)
    OBVIOUS
  <2>2. k \in Int
    BY <2>1, StockSums, FigureTypes DEF StockInv, GoodsBooks
  <2> QED
    BY <1>0, <1>1, <2>1, <2>2
<1>3. /\ Stock(s)!Turn(w, "counting", x) /\ tillLock' \in s.workers \union {None}
      /\ UNCHANGED <<items, warehouses, movements, adjustments, journals>>
      /\ items[b.product] # "absent"
  BY <1>1 DEF Stock!CountRead, Stock!rowVars, StockInv
<1>4. StockJob(s, "counting", x, items, warehouses, adjustments)
  BY <1>0, <1>1, <1>2, <1>3 DEF StockJob, StockLabels
<1> QED
  BY <1>3, <1>4, StockRead

LEMMA StockRetires ==
  ASSUME NEW s, NEW w \in s.workers, NEW p \in DOMAIN s.items, StockInv(s),
         Stock(s)!ArchiveRead(w, p) \/ Stock(s)!DeleteRead(w, p)
  PROVE  StockInv(s)'
<1>1. ASSUME NEW l \in {"archiving", "deleting"}, Stock(s)!Turn(w, l, p),
             tillLock' \in s.workers \union {None},
             UNCHANGED <<items, warehouses, movements, adjustments, journals>>
      PROVE  StockInv(s)'
  <2>1. StockJob(s, l, p, items, warehouses, adjustments)
    BY DEF StockJob, StockLabels
  <2> QED
    BY <1>1, <2>1, StockRead
<1>2. CASE Stock(s)!ArchiveRead(w, p)
  BY <1>1, <1>2 DEF Stock!ArchiveRead, Stock!rowVars, StockInv
<1>3. CASE Stock(s)!DeleteRead(w, p)
  BY <1>1, <1>3 DEF Stock!DeleteRead, Stock!rowVars, StockInv
<1> QED
  BY <1>2, <1>3

(* A product's state changes, to one in which what names it may stay.      *)
Named(s, p) ==
  \/ \E r \in DOMAIN movements : movements[r].product = p
  \/ \E r \in DOMAIN adjustments : adjustments[r].product = p
  \/ \E v \in s.workers : pc[v] = "counting" /\ job[v].product = p

LEMMA ItemChanges ==
  ASSUME NEW s, NEW p, NEW y, StockInv(s), p \in DOMAIN s.items, y \in ItemStates,
         ItemSet(items, p, y, items'), y = "absent" => ~Named(s, p),
         UNCHANGED <<warehouses, movements, adjustments, journals, tillLock>>
  PROVE  /\ StockRows(s, items', warehouses', movements', adjustments')
         /\ GoodsBooks(movements', journals') /\ Grows /\ tillLock' \in s.workers \union {None}
         /\ \A v \in s.workers : pc[v] = "counting" => items'[job[v].product] # "absent"
<1>1. ItemsOK(s, items)
  BY DEF StockInv, StockRows
<1>2. PICK new : new = items'
  OBVIOUS
<1>3. /\ ItemsOK(s, new) /\ new[p] = y
      /\ \A x \in DOMAIN s.items : x # p => new[x] = items[x]
  BY <1>1, <1>2, ItemTypes
<1>4. MovesAt(s, new, movements)
  BY <1>3 DEF StockInv, StockRows, MovesAt, Named
<1>5. AdjustsOK(s, new, adjustments)
  BY <1>3 DEF StockInv, StockRows, AdjustsOK, AdjustOK, Named
<1>6. \A v \in s.workers : pc[v] = "counting" => new[job[v].product] # "absent"
  BY <1>3 DEF StockInv, StockJob, Named
<1>7. Grows /\ tillLock' \in s.workers \union {None} /\ GoodsBooks(movements', journals')
  BY DEF Grows, StockInv
<1> QED
  BY <1>2, <1>3, <1>4, <1>5, <1>6, <1>7 DEF StockRows, StockInv

LEMMA StockArchives ==
  ASSUME NEW s, NEW w \in s.workers, StockInv(s),
         Stock(s)!ArchiveCommit(w) \/ Stock(s)!DeleteCommit(w)
  PROVE  StockInv(s)'
<1>1. PICK p : p = job[w]
  OBVIOUS
<1>2. /\ Stock(s)!Turn(w, "idle", None) /\ p \in DOMAIN s.items
      /\ UNCHANGED <<warehouses, movements, adjustments, journals, tillLock>>
  BY <1>1 DEF Stock!ArchiveCommit, Stock!DeleteCommit, Stock!At, Stock!Done, StockInv, StockJob
<1>3. \E y \in ItemStates : ItemSet(items, p, y, items') /\ (y = "absent" => ~Named(s, p))
  <2>1. CASE Stock(s)!ArchiveCommit(w)
    <3>1. ItemSet(items, p, "archived", items') /\ "archived" \in ItemStates /\ "archived" # "absent"
      BY <1>1, <2>1 DEF Stock!ArchiveCommit, ItemSet, ItemStates
    <3> QED
      BY <3>1
  <2>2. CASE Stock(s)!DeleteCommit(w)
    <3>1. ItemSet(items, p, "absent", items') /\ "absent" \in ItemStates
      BY <1>1, <2>2 DEF Stock!DeleteCommit, ItemSet, ItemStates
    <3>2. ~Named(s, p)
      BY <1>1, <2>2 DEF Stock!DeleteCommit, Stock!HasHistory, Stock!RowFree, Stock!Doing, Named
    <3> QED
      BY <3>1, <3>2
  <2> QED
    BY <2>1, <2>2
<1>4. /\ StockRows(s, items', warehouses', movements', adjustments')
      /\ GoodsBooks(movements', journals') /\ Grows /\ tillLock' \in s.workers \union {None}
      /\ \A v \in s.workers : pc[v] = "counting" => items'[job[v].product] # "absent"
  BY <1>2, <1>3, ItemChanges
<1>5. StockJob(s, "idle", None, items', warehouses', adjustments')
  BY DEF StockJob, StockLabels
<1> QED
  BY <1>2, <1>4, <1>5, StockStep

LEMMA StockRestores ==
  ASSUME NEW s, NEW p \in DOMAIN s.items, StockInv(s), Stock(s)!RestoreProduct(p)
  PROVE  StockInv(s)'
<1>1. /\ UNCHANGED <<pc, job, tillLock>>
      /\ UNCHANGED <<warehouses, movements, adjustments, journals, tillLock>>
  BY DEF Stock!RestoreProduct, Stock!requestVars
<1>2. ItemSet(items, p, "active", items') /\ "active" \in ItemStates /\ "active" # "absent"
  BY DEF Stock!RestoreProduct, ItemSet, ItemStates
<1>3. /\ StockRows(s, items', warehouses', movements', adjustments')
      /\ GoodsBooks(movements', journals') /\ Grows /\ tillLock' \in s.workers \union {None}
      /\ \A v \in s.workers : pc[v] = "counting" => items'[job[v].product] # "absent"
  BY <1>1, <1>2, ItemChanges
<1> QED
  BY <1>1, <1>3, StockAtOnce

(* Warehouses: a change of them that keeps a default, if there was one.    *)
LEMMA PlaceChanges ==
  ASSUME NEW s, StockInv(s), PlacesOK(s, warehouses'), DOMAIN warehouses \subseteq DOMAIN warehouses',
         UNCHANGED <<items, movements, adjustments, journals, tillLock>>
  PROVE  /\ StockRows(s, items', warehouses', movements', adjustments')
         /\ GoodsBooks(movements', journals') /\ Grows /\ tillLock' \in s.workers \union {None}
         /\ \A v \in s.workers : pc[v] = "counting" => items'[job[v].product] # "absent"
<1>1. \A v \in s.workers : pc[v] = "counting" => items[job[v].product] # "absent"
  BY DEF StockInv, StockJob
<1> QED
  BY <1>1 DEF StockInv, StockRows, Grows

LEMMA PlacesDone ==
  ASSUME NEW s, NEW w \in s.workers, StockInv(s), PlacesOK(s, warehouses'),
         DOMAIN warehouses \subseteq DOMAIN warehouses', Stock(s)!Done(w),
         UNCHANGED <<items, movements, adjustments, journals, tillLock>>
  PROVE  StockInv(s)'
<1>1. Stock(s)!Turn(w, "idle", None)
  BY DEF Stock!Done
<1>2. /\ StockRows(s, items', warehouses', movements', adjustments')
      /\ GoodsBooks(movements', journals') /\ Grows /\ tillLock' \in s.workers \union {None}
      /\ \A v \in s.workers : pc[v] = "counting" => items'[job[v].product] # "absent"
  BY PlaceChanges
<1>3. StockJob(s, "idle", None, items', warehouses', adjustments')
  BY DEF StockJob, StockLabels
<1> QED
  BY <1>1, <1>2, <1>3, StockStep

LEMMA DefaultNames ==
  ASSUME NEW s
  PROVE  Stock(s)!Defaults = DefaultsOf(warehouses)
BY DEF Stock!Defaults, DefaultsOf

LEMMA PlaceReads ==
  ASSUME NEW s, NEW w \in s.workers, NEW h \in s.houses, StockInv(s),
         Stock(s)!WarehouseRead(w, h) \/ Stock(s)!CloseRead(w, h) \/ Stock(s)!DefaultRead(w, h)
  PROVE  StockInv(s)'
<1>0. /\ tillLock' \in s.workers \union {None}
      /\ UNCHANGED <<items, warehouses, movements, adjustments, journals>>
  BY DEF Stock!WarehouseRead, Stock!CloseRead, Stock!DefaultRead, Stock!rowVars, StockInv
<1>1. CASE Stock(s)!WarehouseRead(w, h)
  <2>1. PICK f : f = (Stock(s)!Defaults = {})
    OBVIOUS
  <2>2. PICK x : x = [warehouse |-> h, first |-> Stock(s)!Defaults = {}]
    OBVIOUS
  <2>3. Stock(s)!Turn(w, "building", x)
    BY <1>1, <2>2 DEF Stock!WarehouseRead
  <2>4. x.warehouse \in s.houses /\ x.first \in BOOLEAN /\ (~x.first => DOMAIN warehouses # {})
    <3>1. x.first = (Stock(s)!Defaults = {}) /\ x.warehouse = h
      BY <2>2
    <3>2. Stock(s)!Defaults # {} => DOMAIN warehouses # {}
      BY DEF Stock!Defaults
    <3> QED
      BY <3>1, <3>2
  <2>5. StockJob(s, "building", x, items, warehouses, adjustments)
    BY <2>4 DEF StockJob, StockLabels
  <2> QED
    BY <1>0, <2>3, <2>5, StockRead
<1>2. CASE Stock(s)!CloseRead(w, h)
  <2>1. Stock(s)!Turn(w, "closing", h) /\ h \in DOMAIN warehouses
    BY <1>2 DEF Stock!CloseRead, Stock!MayClose, Stock!Open
  <2>2. StockJob(s, "closing", h, items, warehouses, adjustments)
    BY <2>1 DEF StockJob, StockLabels
  <2> QED
    BY <1>0, <2>1, <2>2, StockRead
<1>3. CASE Stock(s)!DefaultRead(w, h)
  <2>1. PICK x : x = [warehouse |-> h, clear |-> Stock(s)!Defaults]
    OBVIOUS
  <2>2. Stock(s)!Turn(w, "choosing", x) /\ h \in DOMAIN warehouses
    BY <1>3, <2>1 DEF Stock!DefaultRead, Stock!Open
  <2>3. StockJob(s, "choosing", x, items, warehouses, adjustments)
    BY <2>1, <2>2 DEF StockJob, StockLabels
  <2> QED
    BY <1>0, <2>2, <2>3, StockRead
<1> QED
  BY <1>1, <1>2, <1>3

LEMMA PlaceBuilds ==
  ASSUME NEW s, NEW w \in s.workers, StockInv(s), Stock(s)!WarehouseCreate(w)
  PROVE  StockInv(s)'
<1>1. PICK h, f : h = job[w].warehouse /\ f = job[w].first
  OBVIOUS
<1>2. h \in s.houses /\ f \in BOOLEAN /\ (~f => DOMAIN warehouses # {})
  BY <1>1 DEF Stock!WarehouseCreate, Stock!At, StockInv, StockJob
<1>3. /\ h \notin DOMAIN warehouses /\ DOMAIN warehouses' = DOMAIN warehouses \union {h}
      /\ warehouses' = [x \in DOMAIN warehouses' |-> warehouses'[x]]
      /\ warehouses'[h] = [active |-> TRUE, default |-> f]
      /\ \A x \in DOMAIN warehouses : warehouses'[x] = warehouses[x]
  BY <1>1 DEF Stock!WarehouseCreate
<1>4. PlacesOK(s, warehouses)
  BY DEF StockInv, StockRows
<1>5. warehouses'[h] \in PlaceRow /\ warehouses'[h].default = f
  <2>1. PICK g : g = f
    OBVIOUS
  <2>2. [active |-> TRUE, default |-> g] \in PlaceRow
    BY <1>2, <2>1 DEF PlaceRow
  <2> QED
    BY <1>3, <2>1, <2>2
<1>6. \A x \in DOMAIN warehouses' : warehouses'[x] \in PlaceRow
  BY <1>3, <1>4, <1>5 DEF PlacesOK
<1>7. warehouses' \in [DOMAIN warehouses' -> PlaceRow] /\ DOMAIN warehouses' \subseteq s.houses
  BY <1>2, <1>3, <1>4, <1>6 DEF PlacesOK
<1>8. DefaultsOf(warehouses') # {}
  <2>1. CASE f
    BY <1>3, <1>5, <2>1 DEF DefaultsOf
  <2>2. CASE ~f
    <3>1. PICK x \in DOMAIN warehouses : warehouses[x].default
      BY <1>2, <1>4, <2>2 DEF PlacesOK, DefaultsOf
    <3> QED
      BY <1>3, <3>1 DEF DefaultsOf
  <2> QED
    BY <2>1, <2>2
<1>9. PlacesOK(s, warehouses') /\ DOMAIN warehouses \subseteq DOMAIN warehouses'
  BY <1>3, <1>7, <1>8 DEF PlacesOK
<1>10. Stock(s)!Done(w) /\ UNCHANGED <<items, movements, adjustments, journals, tillLock>>
  BY DEF Stock!WarehouseCreate
<1> QED
  BY <1>9, <1>10, PlacesDone

(* A warehouse's rows keep their defaults, or another becomes it. *)
LEMMA PlaceActive ==
  ASSUME NEW s, NEW h, NEW b, StockInv(s), h \in DOMAIN warehouses, b \in BOOLEAN,
         warehouses' = [warehouses EXCEPT ![h].active = b]
  PROVE  PlacesOK(s, warehouses') /\ DOMAIN warehouses \subseteq DOMAIN warehouses'
<1>1. PlacesOK(s, warehouses)
  BY DEF StockInv, StockRows
<1>2. /\ warehouses' \in [DOMAIN warehouses -> PlaceRow] /\ DOMAIN warehouses' = DOMAIN warehouses
      /\ \A x \in DOMAIN warehouses : warehouses'[x].default = warehouses[x].default
  BY <1>1 DEF PlacesOK, PlaceRow
<1>3. DefaultsOf(warehouses') = DefaultsOf(warehouses)
  BY <1>2 DEF DefaultsOf
<1> QED
  BY <1>1, <1>2, <1>3 DEF PlacesOK

LEMMA PlaceCloses ==
  ASSUME NEW s, NEW w \in s.workers, StockInv(s), Stock(s)!CloseCommit(w)
  PROVE  StockInv(s)'
<1>1. job[w] \in DOMAIN warehouses
  BY DEF Stock!CloseCommit, Stock!At, StockInv, StockJob
<1>2. warehouses' = [warehouses EXCEPT ![job[w]].active = FALSE]
  BY DEF Stock!CloseCommit
<1>3. PlacesOK(s, warehouses') /\ DOMAIN warehouses \subseteq DOMAIN warehouses'
  BY <1>1, <1>2, PlaceActive
<1>4. Stock(s)!Done(w) /\ UNCHANGED <<items, movements, adjustments, journals, tillLock>>
  BY DEF Stock!CloseCommit
<1> QED
  BY <1>3, <1>4, PlacesDone

LEMMA PlaceReopens ==
  ASSUME NEW s, NEW h \in s.houses, StockInv(s), Stock(s)!ReopenWarehouse(h)
  PROVE  StockInv(s)'
<1>1. h \in DOMAIN warehouses /\ warehouses' = [warehouses EXCEPT ![h].active = TRUE]
  BY DEF Stock!ReopenWarehouse
<1>2. PlacesOK(s, warehouses') /\ DOMAIN warehouses \subseteq DOMAIN warehouses'
  BY <1>1, PlaceActive
<1>3. /\ UNCHANGED <<pc, job, tillLock>>
      /\ UNCHANGED <<items, movements, adjustments, journals, tillLock>>
  BY DEF Stock!ReopenWarehouse, Stock!requestVars
<1>4. /\ StockRows(s, items', warehouses', movements', adjustments')
      /\ GoodsBooks(movements', journals') /\ Grows /\ tillLock' \in s.workers \union {None}
      /\ \A v \in s.workers : pc[v] = "counting" => items'[job[v].product] # "absent"
  BY <1>2, <1>3, PlaceChanges
<1> QED
  BY <1>3, <1>4, StockAtOnce

LEMMA PlaceChooses ==
  ASSUME NEW s, NEW w \in s.workers, StockInv(s), Stock(s)!DefaultCommit(w)
  PROVE  StockInv(s)'
<1>1. PICK h, c : h = job[w].warehouse /\ c = job[w].clear
  OBVIOUS
<1>2. h \in DOMAIN warehouses
  BY <1>1 DEF Stock!DefaultCommit, Stock!At, StockInv, StockJob
<1>3. warehouses' = [x \in DOMAIN warehouses |->
         [warehouses[x] EXCEPT !.default = (x = h \/ (x \notin c /\ warehouses[x].default))]]
  BY <1>1 DEF Stock!DefaultCommit, Stock!DefaultOf
<1>4. PlacesOK(s, warehouses)
  BY DEF StockInv, StockRows
<1>5. \A x \in DOMAIN warehouses : /\ warehouses'[x] \in PlaceRow
                                   /\ warehouses'[x].default =
                                        (x = h \/ (x \notin c /\ warehouses[x].default))
  <2>1. ASSUME NEW x \in DOMAIN warehouses
        PROVE  /\ warehouses'[x] \in PlaceRow
               /\ warehouses'[x].default = (x = h \/ (x \notin c /\ warehouses[x].default))
    <3>1. PICK d \in BOOLEAN : d = (x = h \/ (x \notin c /\ warehouses[x].default))
      OBVIOUS
    <3>2. warehouses'[x] = [warehouses[x] EXCEPT !.default = d]
      BY <1>3, <3>1
    <3>3. warehouses[x] \in PlaceRow
      BY <1>4 DEF PlacesOK
    <3>4. warehouses'[x] \in PlaceRow /\ warehouses'[x].default = d
      BY <3>2, <3>3 DEF PlaceRow
    <3> QED
      BY <3>1, <3>4
  <2> QED
    BY <2>1
<1>6. DOMAIN warehouses' = DOMAIN warehouses /\ warehouses' \in [DOMAIN warehouses -> PlaceRow]
  <2>1. DOMAIN warehouses' = DOMAIN warehouses /\ warehouses' = [x \in DOMAIN warehouses |-> warehouses'[x]]
    BY <1>3
  <2> QED
    BY <1>5, <2>1
<1>7. h \in DefaultsOf(warehouses')
  BY <1>2, <1>5, <1>6 DEF DefaultsOf
<1>8. PlacesOK(s, warehouses') /\ DOMAIN warehouses \subseteq DOMAIN warehouses'
  BY <1>4, <1>6, <1>7 DEF PlacesOK
<1>9. Stock(s)!Done(w) /\ UNCHANGED <<items, movements, adjustments, journals, tillLock>>
  BY DEF Stock!DefaultCommit
<1> QED
  BY <1>8, <1>9, PlacesDone

--------------------------------------------------------------------------------
(* Inventory: the openings, each with its journal if it is worth anything. *)

Worth(ms) == {r \in DOMAIN ms : ms[r].cost > 0}

LEMMA OpeningBooks ==
  ASSUME NEW ms, NEW js, MovesOK(ms), \A r \in DOMAIN ms : ~ByHand(ms[r]),
         DOMAIN js = Worth(ms),
         \A r \in DOMAIN js : JournalOK(js[r]) /\ Movement(js[r], "1300") = Values(ms)[r]
  PROVE  BooksFine(js) /\ Balance(js, "1300") = ValueOf(ms)
<1> DEFINE v == Values(ms)
           J == Worth(ms)
           g == [r \in J |-> Movement(js[r], "1300")]
<1>1. IsFiniteSet(DOMAIN ms) /\ J \subseteq DOMAIN ms /\ IsFiniteSet(J) /\ IsFiniteSet(DOMAIN ms \ J)
  BY FS_Subset DEF Worth, MovesOK
<1>2. BooksFine(js)
  BY <1>1 DEF BooksFine
<1>3. \A r \in DOMAIN ms : v[r] \in Int
  BY FigureTypes
<1>4. \A r \in DOMAIN ms \ J : v[r] = 0
  <2>1. ASSUME NEW r \in DOMAIN ms, r \notin J PROVE v[r] = 0
    <3>1. PICK q, c : q = Moved(ms[r]) /\ c = ms[r].cost
      OBVIOUS
    <3>2. q \in Int /\ c \in Nat
      BY <3>1, MovedInt DEF MovesOK
    <3>3. c = 0
      BY <2>1, <3>1, <3>2 DEF Worth
    <3>4. q * c = 0
      BY <3>2, <3>3
    <3> QED
      BY <3>1, <3>4, FigureTypes
  <2> QED
    BY <2>1
<1>5. ValueOf(ms) = SumFunctionOnSet(v, DOMAIN ms)
  <2>1. Booked(ms) = DOMAIN ms
    BY DEF Booked
  <2> DEFINE f == [r \in DOMAIN ms |-> v[r]]
  <2>2. ValueOf(ms) = SumFunctionOnSet(f, DOMAIN f) /\ DOMAIN f = DOMAIN ms
    BY <2>1 DEF ValueOf, Figures, SumFunction
  <2>3. \A r \in DOMAIN ms : f[r] = v[r]
    OBVIOUS
  <2> HIDE DEF f, v
  <2>4. SumFunctionOnSet(f, DOMAIN ms) = SumFunctionOnSet(v, DOMAIN ms)
    BY <1>1, <2>3, SumSame
  <2> QED
    BY <2>2, <2>4
<1>6. Balance(js, "1300") = SumFunctionOnSet(v, J)
  <2>1. Balance(js, "1300") = SumFunctionOnSet(g, DOMAIN g) /\ DOMAIN g = J
    BY DEF Balance, BalanceOver, SumFunction
  <2>2. \A r \in J : g[r] = v[r]
    OBVIOUS
  <2> HIDE DEF g, v, J
  <2>3. SumFunctionOnSet(g, J) = SumFunctionOnSet(v, J)
    BY <1>1, <2>2, SumSame
  <2> QED
    BY <2>1, <2>3
<1> HIDE DEF v, g, J
<1>7. SumFunctionOnSet(v, DOMAIN ms \ J) = 0
  BY <1>1, <1>4, SumZero
<1>8. J \union (DOMAIN ms \ J) = DOMAIN ms /\ J \intersect (DOMAIN ms \ J) = {}
  BY <1>1
<1>9. PICK K : K = DOMAIN ms \ J
  OBVIOUS
<1>10. SumFunctionOnSet(v, J \union K) = SumFunctionOnSet(v, J) + SumFunctionOnSet(v, K)
  BY <1>1, <1>3, <1>8, <1>9, SumUnion
<1>11. SumFunctionOnSet(v, J) \in Int
  BY <1>1, <1>3, SumType
<1> QED
  BY <1>2, <1>5, <1>6, <1>7, <1>8, <1>9, <1>10, <1>11

OldOpenings(s) == {o \in s.openings : s.items[o.product] # "absent" /\ o.qty > 0}
OpeningTag(o)  == <<"OPEN", o.product>>
OpeningRow(o)  == MoveRow("RECEIPT", o.product, o.warehouse, o.qty, o.cost, FALSE)

LEMMA StockOpens ==
  ASSUME NEW s, Stock(s)!InventoryAssumption, Stock(s)!Init
  PROVE  /\ IsFiniteSet(DOMAIN movements)
         /\ \A r \in DOMAIN movements : \E o \in OldOpenings(s) :
              r = OpeningTag(o) /\ movements[r] = OpeningRow(o)
         /\ DOMAIN movements = {OpeningTag(o) : o \in OldOpenings(s)}
         /\ journals = [r \in Worth(movements) |->
              [lines |-> Pair("1300", "3900", movements[r].qty * movements[r].cost),
               status |-> "POSTED"]]
<1> DEFINE old == OldOpenings(s)
           D == {OpeningTag(o) : o \in old}
           first(r) == CHOOSE x \in old : OpeningTag(x) = r
<1>1. \A o : Stock(s)!Opened(o) = OpeningTag(o)
  BY DEF Stock!Opened, OpeningTag
<1>2. \A o : Stock(s)!Row("RECEIPT", o.product, o.warehouse, o.qty, o.cost, FALSE) = OpeningRow(o)
  BY Zenon DEF Stock!Row, OpeningRow, MoveRow
<1>3. movements = [r \in D |-> OpeningRow(first(r))]
  BY Zenon, <1>1, <1>2 DEF Stock!Init, OldOpenings
<1>4. IsFiniteSet(D)
  <2>0. IsFiniteSet(s.openings)
    BY Zenon DEF Stock!InventoryAssumption, Stock!IsFiniteSet, IsFiniteSet
  <2>1. IsFiniteSet(old)
    BY <2>0, FS_Subset DEF OldOpenings
  <2> DEFINE g == [o \in old |-> OpeningTag(o)]
  <2>2. D = {g[o] : o \in old}
    OBVIOUS
  <2> HIDE DEF g
  <2> QED
    BY <2>1, <2>2, ImageFinite
<1>5. DOMAIN movements = D /\ \A r \in D : movements[r] = OpeningRow(first(r))
  BY <1>3
<1>6. \A r \in D : first(r) \in old /\ OpeningTag(first(r)) = r
  OBVIOUS
<1>7. journals = [r \in Worth(movements) |->
              [lines |-> Pair("1300", "3900", movements[r].qty * movements[r].cost),
               status |-> "POSTED"]]
  <2>1. \A d, c, v : Stock(s)!Pair(d, c, v) = Pair(d, c, v)
    BY StockBooks
  <2>2. journals = [r \in Worth(movements) |->
              [lines |-> Stock(s)!Pair("1300", "3900", movements[r].qty * movements[r].cost),
               status |-> "POSTED"]]
    BY Zenon DEF Stock!Init, Worth
  <2> QED
    BY ONLY <2>1, <2>2
<1> QED
  BY <1>4, <1>5, <1>6, <1>7

LEMMA StockStart ==
  ASSUME NEW s, Stock(s)!InventoryAssumption, Stock(s)!Init
  PROVE  StockInv(s) /\ pc = [w \in s.workers |-> "idle"]
<1>1. /\ IsFiniteSet(DOMAIN movements)
      /\ \A r \in DOMAIN movements : \E o \in OldOpenings(s) :
           r = OpeningTag(o) /\ movements[r] = OpeningRow(o)
      /\ journals = [r \in Worth(movements) |->
           [lines |-> Pair("1300", "3900", movements[r].qty * movements[r].cost),
            status |-> "POSTED"]]
  BY StockOpens
<1>2. \A o \in OldOpenings(s) : /\ o.product \in DOMAIN s.items /\ o.warehouse \in s.houses
                                /\ o.qty \in Nat /\ o.qty > 0 /\ o.cost \in Nat
                                /\ s.items[o.product] # "absent"
  BY DEF OldOpenings, Stock!InventoryAssumption, Stock!Named
<1>3. ASSUME NEW o \in OldOpenings(s), NEW m, m = OpeningRow(o)
      PROVE  /\ MoveOK(m) /\ Moved(m) = o.qty /\ ~ByHand(m)
             /\ m.product = o.product /\ m.warehouse = o.warehouse
             /\ m.qty = o.qty /\ m.cost = o.cost
  <2>1. PICK t, q, c : t = "RECEIPT" /\ q = o.qty /\ c = o.cost
    OBVIOUS
  <2>2. IsMove(m, t, o.product, o.warehouse, q, c, FALSE)
    BY <1>3, <2>1 DEF IsMove, OpeningRow
  <2>3. t \in Types /\ q \in Int /\ q > 0 /\ c \in Nat /\ FALSE \in BOOLEAN
    BY <1>2, <2>1 DEF Types
  <2>4. /\ MoveOK(m) /\ m.product = o.product /\ m.warehouse = o.warehouse /\ m.cost = c
        /\ Moved(m) = IF t \in {"ISSUE", "TRANSFER_OUT"} THEN - q ELSE q
        /\ ByHand(m) <=> ~FALSE /\ t \in {"TRANSFER_IN", "TRANSFER_OUT"}
    BY ONLY <2>2, <2>3, RowIsMove
  <2>5. m.qty = o.qty
    BY <1>3 DEF OpeningRow, MoveRow
  <2> QED
    BY ONLY <2>1, <2>4, <2>5
<1>4. \A r \in DOMAIN movements :
        \E o \in OldOpenings(s) :
          /\ r = OpeningTag(o) /\ MoveOK(movements[r]) /\ ~ByHand(movements[r])
          /\ Moved(movements[r]) = movements[r].qty
          /\ movements[r].product = o.product /\ movements[r].warehouse = o.warehouse
          /\ movements[r].qty = o.qty /\ movements[r].cost = o.cost
  BY <1>1, <1>3
<1>5. MovesOK(movements) /\ \A r \in DOMAIN movements : ~ByHand(movements[r])
  BY <1>1, <1>4 DEF MovesOK
<1>6. /\ DOMAIN journals = Worth(movements)
      /\ \A r \in DOMAIN journals :
           JournalOK(journals[r]) /\ Movement(journals[r], "1300") = Values(movements)[r]
  <2>1. DOMAIN journals = Worth(movements)
    BY <1>1
  <2>2. ASSUME NEW r \in Worth(movements)
        PROVE  JournalOK(journals[r]) /\ Movement(journals[r], "1300") = Values(movements)[r]
    <3>1. PICK q, c, v : q = movements[r].qty /\ c = movements[r].cost /\ v = movements[r].qty * movements[r].cost
      OBVIOUS
    <3>2. q \in Nat /\ q > 0 /\ c \in Nat /\ c > 0
      BY <1>2, <1>4, <3>1 DEF Worth
    <3>3. v \in Nat /\ v # 0
      BY <3>1, <3>2
    <3>4. PICK j : j = journals[r]
      OBVIOUS
    <3>5. j = [lines |-> Pair("1300", "3900", v), status |-> "POSTED"]
      BY <1>1, <3>1, <3>4
    <3>6. Pair("1300", "3900", v) = Normalized(Pair("1300", "3900", v))
      BY <3>3 DEF Pair, Normalized, Line
    <3>7. j.lines = Normalized(Pair("1300", "3900", v)) /\ j = [lines |-> j.lines, status |-> j.status]
      BY <3>5, <3>6
    <3>8. "1300" # "3900"
      OBVIOUS
    <3>9. LinesOK(j.lines) /\ \A a : Movement(j, a) = PairMove("1300", "3900", v, a)
      BY <3>3, <3>7, <3>8, MoveOfPair
    <3>10. Movement(j, "1300") = v
      BY <3>9 DEF PairMove
    <3>11. Values(movements)[r] = v
      <4>1. Moved(movements[r]) = movements[r].qty /\ r \in DOMAIN movements
        BY <1>4 DEF Worth
      <4> QED
        BY <3>1, <4>1 DEF Values
    <3> QED
      BY <3>4, <3>7, <3>9, <3>10, <3>11 DEF JournalOK
  <2> QED
    BY <2>1, <2>2
<1>7. BooksFine(journals) /\ Balance(journals, "1300") = ValueOf(movements)
  BY <1>5, <1>6, OpeningBooks
<1>8. TagNumbered(movements, "COUNT") /\ TagNumbered(movements, "POS")
  <2>1. ASSUME NEW t \in {"COUNT", "POS"} PROVE TagNumbered(movements, t)
    <3>1. \A r \in DOMAIN movements : r[1] = "OPEN"
      BY <1>1 DEF OpeningTag
    <3>2. TagRows(movements, t) = {}
      BY <3>1 DEF TagRows
    <3>3. Cardinality(TagRows(movements, t)) = 0
      BY <3>2, FS_EmptySet
    <3>4. {<<t, i>> : i \in 1 .. 0} = {}
      OBVIOUS
    <3> QED
      BY <3>2, <3>3, <3>4 DEF TagNumbered
  <2> QED
    BY <2>1
<1>9. GoodsBooks(movements, journals)
  BY <1>5, <1>6, <1>7, <1>8 DEF GoodsBooks, Worth
<1>10. /\ items = s.items /\ warehouses = s.places /\ adjustments = [r \in {} |-> {}] /\ tillLock = None
       /\ pc = [w \in s.workers |-> "idle"] /\ job = [w \in s.workers |-> None]
  BY Zenon DEF Stock!Init, Stock!NoRequests
<1>11. ItemsOK(s, items)
  BY <1>10 DEF ItemsOK, ItemStates, Stock!InventoryAssumption
<1>12. PlacesOK(s, warehouses)
  BY <1>10 DEF PlacesOK, PlaceRow, DefaultsOf, Stock!InventoryAssumption
<1>13. MovesAt(s, items, movements)
  BY <1>2, <1>4, <1>10 DEF MovesAt
<1>14. AdjustsOK(s, items, adjustments)
  BY <1>10 DEF AdjustsOK
<1>15. \A w \in s.workers : StockJob(s, pc[w], job[w], items, warehouses, adjustments)
  BY <1>10 DEF StockJob, StockLabels
<1> QED
  BY <1>9, <1>10, <1>11, <1>12, <1>13, <1>14, <1>15 DEF StockInv, StockRows

LEMMA StockKeeps ==
  ASSUME NEW s, Stock(s)!InventoryAssumption, StockInv(s), Stock(s)!Next \/ Stock(s)!StockNext
  PROVE  StockInv(s)'
<1>1. ASSUME NEW w \in s.workers, Stock(s)!Catalogue(w) PROVE StockInv(s)'
  BY <1>1, StockCounts, StockMoves, StockRetires, StockArchives, PlaceReads, PlaceBuilds,
     PlaceCloses, PlaceChooses DEF Stock!Catalogue
<1>2. ASSUME NEW w \in s.workers, Stock(s)!Stock(w) PROVE StockInv(s)'
  BY <1>2, StockReads, StockMoves, StockTransfers, StockDecides, StockSells, StockAborts
     DEF Stock!Stock
<1>3. ASSUME Stock(s)!AtOnce PROVE StockInv(s)'
  BY <1>3, StockCreates, StockRestores, PlaceReopens, StockDrafts DEF Stock!AtOnce
<1>4. ASSUME NEW a \in s.adjustments, Stock(s)!CreateAdjustment(a) PROVE StockInv(s)'
  BY <1>4, StockDrafts
<1> QED
  BY <1>1, <1>2, <1>3, <1>4 DEF Stock!Next, Stock!StockNext

LEMMA StockMeans ==
  ASSUME NEW s, StockInv(s)
  PROVE  /\ Stock(s)!TypeOK /\ Stock(s)!StockAccount
         /\ Stock(s)!HistoryHasProduct /\ Stock(s)!SomeDefault
<1>1. Stock(s)!StockAccount
  BY StockSums DEF StockInv, GoodsBooks
<1>2. Stock(s)!HistoryHasProduct
  BY DEF StockInv, StockRows, MovesAt, AdjustsOK, Stock!HistoryHasProduct
<1>3. Stock(s)!SomeDefault
  BY DefaultNames DEF StockInv, StockRows, PlacesOK, Stock!SomeDefault
<1>4. Stock(s)!TypeOK
  <2>1. items \in [DOMAIN s.items -> {"absent", "active", "archived"}]
    BY DEF StockInv, StockRows, ItemsOK, ItemStates
  <2>2. /\ DOMAIN warehouses \subseteq s.houses
        /\ \A h \in DOMAIN warehouses : warehouses[h] \in [active : BOOLEAN, default : BOOLEAN]
    BY DEF StockInv, StockRows, PlacesOK, PlaceRow
  <2>3. \A r \in DOMAIN movements :
          /\ movements[r] \in [type : Stock(s)!Manual, product : DOMAIN s.items, warehouse : s.houses,
                               qty : Int, cost : Nat, paired : BOOLEAN]
          /\ movements[r].type # "ADJUSTMENT" => movements[r].qty > 0
    BY DEF StockInv, GoodsBooks, MovesOK, MoveOK, MoveRow, Types, StockRows, MovesAt, Stock!Manual
  <2>4. \A r \in DOMAIN adjustments :
          adjustments[r] \in [product : DOMAIN s.items, warehouse : s.houses, delta : Int,
                              cost : Nat, status : {"DRAFT", "APPROVED", "VOID"}]
    BY DEF StockInv, StockRows, AdjustsOK, AdjustOK, AdjustRow
  <2> QED
    BY <2>1, <2>2, <2>3, <2>4 DEF Stock!TypeOK, StockInv
<1> QED
  BY <1>1, <1>2, <1>3, <1>4

(* What a step of any actor does to the movements. *)
AddsOne(s)  == \E n, m : AddsMove(s, n, m)
AddsLegs(s) == \E mid, a, out, b, in : Legs(s, mid, a, out, b, in)

LEMMA StepMoves ==
  ASSUME NEW s, Stock(s)!InventoryAssumption, StockInv(s), Stock(s)!Next \/ Stock(s)!StockNext
  PROVE  UNCHANGED movements \/ AddsOne(s) \/ AddsLegs(s)
<1>1. ASSUME NEW w \in s.workers, Stock(s)!MovementCommit(w) PROVE AddsOne(s)
  <2>1. PICK b : b = job[w]
    OBVIOUS
  <2>2. PICK m : m = MoveRow(b.type, b.product, b.warehouse, b.qty, b.cost, FALSE)
    OBVIOUS
  <2> QED
    BY <1>1, <2>1, <2>2, MovementAdds DEF AddsOne
<1>2. ASSUME NEW w \in s.workers, Stock(s)!CountCommit(w) PROVE AddsOne(s)
  <2>1. PICK b : b = job[w]
    OBVIOUS
  <2>2. PICK m : m = MoveRow("ADJUSTMENT", b.product, b.warehouse, b.delta, b.cost, FALSE)
    OBVIOUS
  <2> QED
    BY <1>2, <2>1, <2>2, CountAdds DEF AddsOne
<1>3. ASSUME NEW w \in s.workers, Stock(s)!TillCommit(w) PROVE AddsOne(s)
  <2>1. PICK b : b = job[w]
    OBVIOUS
  <2>2. PICK m : m = MoveRow("ISSUE", b.product, b.warehouse, b.qty, b.cost, FALSE)
    OBVIOUS
  <2> QED
    BY <1>3, <2>1, <2>2, TillAdds DEF AddsOne
<1>4. ASSUME NEW w \in s.workers, Stock(s)!DecideCommit(w) PROVE UNCHANGED movements \/ AddsOne(s)
  <2>1. CASE job[w].status = "APPROVED"
    <3>1. PICK a : a = adjustments[job[w].ref]
      OBVIOUS
    <3>2. PICK m : m = MoveRow("ADJUSTMENT", a.product, a.warehouse, a.delta, a.cost, FALSE)
      OBVIOUS
    <3>3. AddsMove(s, <<"ADJ", job[w].ref>>, m)
      BY <1>4, <2>1, <3>1, <3>2, ApprovalAdds DEF Approves
    <3> QED
      BY <3>3 DEF AddsOne
  <2>2. CASE job[w].status # "APPROVED"
    BY <1>4, <2>2 DEF Stock!DecideCommit
  <2> QED
    BY <2>1, <2>2
<1>5. ASSUME NEW o \in s.openings, Stock(s)!CreateProduct(o) PROVE UNCHANGED movements \/ AddsOne(s)
  <2>1. CASE o.qty > 0
    <3>1. PICK m : m = MoveRow("RECEIPT", o.product, o.warehouse, o.qty, o.cost, FALSE)
      OBVIOUS
    <3>2. AddsMove(s, <<"OPEN", o.product>>, m)
      BY <1>5, <2>1, <3>1, OpeningAdds DEF Opens
    <3> QED
      BY <3>2 DEF AddsOne
  <2>2. CASE ~(o.qty > 0)
    BY <1>5, <2>2 DEF Stock!CreateProduct
  <2> QED
    BY <2>1, <2>2
<1>6. ASSUME NEW w \in s.workers, Stock(s)!TransferCommit(w) PROVE AddsLegs(s)
  <2>1. PICK t : t = job[w]
    OBVIOUS
  <2>2. PICK out, in : out = Leg(s, t, "TRANSFER_OUT", t.from) /\ in = Leg(s, t, "TRANSFER_IN", t.to)
    OBVIOUS
  <2>3. \E mid : Legs(s, mid, <<"OUT", t.ref>>, out, <<"IN", t.ref>>, in)
    BY <1>6, <2>1, <2>2, TransferAdds
  <2> QED
    BY <2>3 DEF AddsLegs
<1>7. ASSUME NEW w \in s.workers, Stock(s)!Catalogue(w)
      PROVE  UNCHANGED movements \/ Stock(s)!CountCommit(w)
  BY <1>7 DEF Stock!Catalogue, Stock!CountRead, Stock!ArchiveRead, Stock!DeleteRead,
              Stock!ArchiveCommit, Stock!DeleteCommit, Stock!WarehouseRead, Stock!CloseRead,
              Stock!DefaultRead, Stock!WarehouseCreate, Stock!CloseCommit, Stock!DefaultCommit,
              Stock!rowVars
<1>8. ASSUME NEW w \in s.workers, Stock(s)!Stock(w)
      PROVE  \/ UNCHANGED movements \/ Stock(s)!MovementCommit(w) \/ Stock(s)!TransferCommit(w)
             \/ Stock(s)!DecideCommit(w) \/ Stock(s)!TillCommit(w)
  BY <1>8 DEF Stock!Stock, Stock!MovementRead, Stock!TransferRead, Stock!DecideRead,
              Stock!TillRead, Stock!Abort, Stock!rowVars
<1>9. ASSUME Stock(s)!AtOnce
      PROVE  UNCHANGED movements \/ \E o \in s.openings : Stock(s)!CreateProduct(o)
  BY <1>9 DEF Stock!AtOnce, Stock!RestoreProduct, Stock!ReopenWarehouse, Stock!CreateAdjustment
<1>10. ASSUME NEW a \in s.adjustments, Stock(s)!CreateAdjustment(a) PROVE UNCHANGED movements
  BY <1>10 DEF Stock!CreateAdjustment
<1> QED
  BY <1>1, <1>2, <1>3, <1>4, <1>5, <1>6, <1>7, <1>8, <1>9, <1>10 DEF Stock!Next, Stock!StockNext

LEMMA MovesStand ==
  ASSUME NEW s, UNCHANGED movements \/ AddsOne(s) \/ AddsLegs(s)
  PROVE  Stock(s)!MovementsStand
<1>1. CASE UNCHANGED movements
  BY <1>1 DEF Stock!MovementsStand
<1>2. CASE AddsOne(s)
  BY <1>2 DEF AddsOne, AddsMove, MoveAdded, Stock!MovementsStand
<1>3. CASE AddsLegs(s)
  <2>1. PICK mid, a, out, b, in :
          MoveAdded(movements, mid, a, out) /\ MoveAdded(mid, movements', b, in)
    BY <1>3 DEF AddsLegs, Legs
  <2>2. \A r \in DOMAIN movements : r \in DOMAIN mid /\ mid[r] = movements[r]
    BY <2>1 DEF MoveAdded
  <2>3. \A r \in DOMAIN mid : r \in DOMAIN movements' /\ movements'[r] = mid[r]
    BY <2>1 DEF MoveAdded
  <2> QED
    BY ONLY <2>2, <2>3 DEF Stock!MovementsStand
<1> QED
  BY <1>1, <1>2, <1>3

--------------------------------------------------------------------------------
(* Inventory, one request at a time: what a request has read still holds   *)
(* when it commits, so nothing is taken out that is not there.             *)

OneWorker(s) == \A v, w \in s.workers : v = w

OpenAt(hs, h)     == h \in DOMAIN hs /\ hs[h].active
InStock(ms, p, h) == StockOf(ms, p, {h})
NoneBelow(s, ms)  == \A p \in DOMAIN s.items, h \in s.houses : InStock(ms, p, h) >= 0
OneDefault(hs) ==
  DOMAIN hs # {} => \E h \in DOMAIN hs : DefaultsOf(hs) = {h} /\ hs[h].active
Takes(b) == b.type \in {"ISSUE", "TRANSFER_OUT"}

SerialJob(s, l, x, it, hs, ms, as) ==
  /\ l \in {"moving", "selling"} => it[x.product] = "active" /\ OpenAt(hs, x.warehouse)
  /\ l = "moving" /\ Takes(x) => x.qty <= InStock(ms, x.product, x.warehouse)
  /\ l = "selling" => x.qty <= InStock(ms, x.product, x.warehouse)
  /\ l = "transferring" => /\ it[x.product] = "active" /\ OpenAt(hs, x.from) /\ OpenAt(hs, x.to)
                           /\ x.qty <= InStock(ms, x.product, x.from)
  /\ l = "deciding" /\ x.status = "APPROVED" /\ as[x.ref].delta < 0 =>
       - as[x.ref].delta <= InStock(ms, as[x.ref].product, as[x.ref].warehouse)
  /\ l = "counting" => /\ OpenAt(hs, x.warehouse)
                       /\ x.delta < 0 => - x.delta <= InStock(ms, x.product, x.warehouse)
  /\ l = "archiving" => it[x] = "active" /\ StockOf(ms, x, s.houses) = 0
  /\ l = "building" => (x.first <=> DefaultsOf(hs) = {})
  /\ l = "closing" => ~hs[x].default
  /\ l = "choosing" => x.clear = DefaultsOf(hs) /\ OpenAt(hs, x.warehouse)

SerialStock(s) ==
  /\ StockInv(s) /\ NoneBelow(s, movements) /\ OneDefault(warehouses)
  /\ \A w \in s.workers :
       SerialJob(s, pc[w], job[w], items, warehouses, movements, adjustments)

LEMMA SerialMeans ==
  ASSUME NEW s, SerialStock(s)
  PROVE  Stock(s)!NoOverdraw /\ Stock(s)!OneOpenDefault
<1>1. Stock(s)!NoOverdraw
  <2>1. \A p, h : Stock(s)!StockIn(h, p) = InStock(movements, p, h)
    BY StockSums DEF InStock
  <2>2. \A p \in DOMAIN s.items, h \in s.houses : InStock(movements, p, h) >= 0
    BY DEF SerialStock, NoneBelow
  <2> QED
    BY Zenon, <2>1, <2>2 DEF Stock!NoOverdraw
<1>2. Stock(s)!OneOpenDefault
  <2>1. CASE DOMAIN warehouses = {}
    BY <2>1 DEF Stock!OneOpenDefault
  <2>2. CASE DOMAIN warehouses # {}
    <3>1. PICK h \in DOMAIN warehouses : DefaultsOf(warehouses) = {h} /\ warehouses[h].active
      BY <2>2 DEF SerialStock, OneDefault
    <3>2. Stock(s)!Defaults = {h} /\ Stock(s)!Open(h)
      BY <3>1, DefaultNames DEF Stock!Open
    <3> QED
      BY Zenon, <3>2 DEF Stock!OneOpenDefault
  <2> QED
    BY <2>1, <2>2
<1> QED
  BY <1>1, <1>2

LEMMA SerialStep ==
  ASSUME NEW s, NEW w \in s.workers, NEW l, NEW x, OneWorker(s), SerialStock(s), StockInv(s)',
         Stock(s)!Turn(w, l, x), NoneBelow(s, movements'), OneDefault(warehouses'),
         SerialJob(s, l, x, items', warehouses', movements', adjustments')
  PROVE  SerialStock(s)'
<1>1. pc' = [pc EXCEPT ![w] = l] /\ job' = [job EXCEPT ![w] = x]
  BY DEF Stock!Turn
<1>2. pc'[w] = l /\ job'[w] = x
  BY <1>1 DEF SerialStock, StockInv
<1>3. \A v \in s.workers : v = w
  BY DEF OneWorker
<1> QED
  BY <1>2, <1>3 DEF SerialStock

LEMMA SerialIdle ==
  ASSUME NEW s, NEW it, NEW hs, NEW ms, NEW as
  PROVE  SerialJob(s, "idle", None, it, hs, ms, as)
BY DEF SerialJob

LEMMA SerialDone ==
  ASSUME NEW s, NEW w \in s.workers, OneWorker(s), SerialStock(s), StockInv(s)',
         Stock(s)!Done(w), NoneBelow(s, movements'), OneDefault(warehouses')
  PROVE  SerialStock(s)'
<1>1. Stock(s)!Turn(w, "idle", None)
  BY DEF Stock!Done
<1> QED
  BY <1>1, SerialIdle, SerialStep

LEMMA SerialRead ==
  ASSUME NEW s, NEW w \in s.workers, NEW l, NEW x, OneWorker(s), SerialStock(s), StockInv(s)',
         Stock(s)!Turn(w, l, x), UNCHANGED <<items, warehouses, movements, adjustments>>,
         SerialJob(s, l, x, items, warehouses, movements, adjustments)
  PROVE  SerialStock(s)'
<1>1. NoneBelow(s, movements') /\ OneDefault(warehouses')
  BY DEF SerialStock
<1> QED
  BY <1>1, SerialStep

(* A movement that takes no more than there is. *)
LEMMA NoneBelowAfter ==
  ASSUME NEW s, NEW ms, NEW new, NEW n, NEW m, MovesOK(ms), MoveAdded(ms, new, n, m),
         NoneBelow(s, ms), Moved(m) < 0 => - Moved(m) <= InStock(ms, m.product, m.warehouse)
  PROVE  MovesOK(new) /\ NoneBelow(s, new)
<1>1. /\ MovesOK(new)
      /\ \A p, H : StockOf(new, p, H) = StockOf(ms, p, H) +
           (IF m.product = p /\ m.warehouse \in H THEN Moved(m) ELSE 0)
  BY MoveAdds
<1>2. ASSUME NEW p \in DOMAIN s.items, NEW h \in s.houses PROVE InStock(new, p, h) >= 0
  <2>1. PICK a, b, q : a = InStock(ms, p, h) /\ b = InStock(new, p, h) /\ q = Moved(m)
    OBVIOUS
  <2>2. a \in Int /\ a >= 0 /\ q \in Int
    BY <2>1, FigureTypes, MovedInt DEF NoneBelow, InStock, MoveAdded
  <2>3. b = a + (IF m.product = p /\ m.warehouse = h THEN q ELSE 0)
    BY <1>1, <2>1 DEF InStock
  <2>4. m.product = p /\ m.warehouse = h => (q < 0 => - q <= a)
    BY <2>1
  <2>5. b >= 0
    BY <2>2, <2>3, <2>4
  <2> QED
    BY <2>1, <2>5
<1> QED
  BY <1>1, <1>2 DEF NoneBelow

Orderly(s) == Stock(s)!LateStock /\ Stock(s)!ArchivedEmpty

LEMMA LateOne ==
  ASSUME NEW s, NEW n, NEW m, MoveAdded(movements, movements', n, m),
         \/ items[m.product] = "active" /\ OpenAt(warehouses, m.warehouse)
         \/ items'[m.product] = "active" /\ items[m.product] = "absent"
         \/ n[1] = "ADJ"
         \/ n[1] = "COUNT" /\ OpenAt(warehouses, m.warehouse)
  PROVE  Stock(s)!LateStock
BY DEF MoveAdded, OpenAt, Stock!LateStock, Stock!Open

LEMMA LateLegs ==
  ASSUME NEW s, NEW mid, NEW a, NEW out, NEW b, NEW in, Legs(s, mid, a, out, b, in),
         \A m \in {out, in} : items[m.product] = "active" /\ OpenAt(warehouses, m.warehouse)
  PROVE  Stock(s)!LateStock
<1>1. \A r \in DOMAIN movements' \ DOMAIN movements : movements'[r] \in {out, in}
  BY DEF Legs, MoveAdded
<1>2. ASSUME NEW r \in DOMAIN movements' \ DOMAIN movements
      PROVE  items[movements'[r].product] = "active" /\ OpenAt(warehouses, movements'[r].warehouse)
  BY <1>1
<1> QED
  BY <1>2 DEF OpenAt, Stock!LateStock, Stock!Open

LEMMA StillOrderly ==
  ASSUME NEW s, movements' = movements, items' = items
  PROVE  Orderly(s)
<1>1. Stock(s)!LateStock
  BY DEF Stock!LateStock
<1>2. Stock(s)!ArchivedEmpty
  BY DEF Stock!ArchivedEmpty
<1> QED
  BY <1>1, <1>2 DEF Orderly

LEMMA SerialMoves ==
  ASSUME NEW s, NEW w \in s.workers, Stock(s)!InventoryAssumption, OneWorker(s), SerialStock(s),
         Stock(s)!MovementCommit(w)
  PROVE  SerialStock(s)' /\ Orderly(s)
<1>1. PICK b : b = job[w]
  OBVIOUS
<1>2. PICK m : m = MoveRow(b.type, b.product, b.warehouse, b.qty, b.cost, FALSE)
  OBVIOUS
<1>3. AddsMove(s, <<"MOVE", b.ref>>, m) /\ b \in s.movements /\ items' = items
  BY <1>1, <1>2, MovementAdds DEF SerialStock
<1>4. /\ items[b.product] = "active" /\ OpenAt(warehouses, b.warehouse)
      /\ Takes(b) => b.qty <= InStock(movements, b.product, b.warehouse)
  BY <1>1 DEF SerialStock, SerialJob, Stock!MovementCommit, Stock!At
<1>5. b.qty \in Nat
  BY <1>3 DEF Stock!InventoryAssumption
<1>6. m.product = b.product /\ m.warehouse = b.warehouse /\ (Moved(m) = IF Takes(b) THEN - b.qty ELSE b.qty)
  BY <1>2 DEF MoveRow, Moved, Takes
<1>7. Moved(m) < 0 => - Moved(m) <= InStock(movements, m.product, m.warehouse)
  BY <1>4, <1>5, <1>6
<1>8. NoneBelow(s, movements')
  BY <1>3, <1>7, NoneBelowAfter DEF AddsMove, SerialStock, StockInv, GoodsBooks
<1>9. Stock(s)!Done(w) /\ OneDefault(warehouses')
  BY DEF Stock!MovementCommit, SerialStock
<1>10. StockInv(s)'
  BY StockMoves DEF SerialStock
<1>11. Stock(s)!LateStock
  BY <1>3, <1>4, <1>6, LateOne DEF AddsMove
<1>12. Stock(s)!ArchivedEmpty
  BY <1>3 DEF Stock!ArchivedEmpty
<1> QED
  BY <1>8, <1>9, <1>10, <1>11, <1>12, SerialDone DEF Orderly

LEMMA SerialCounts ==
  ASSUME NEW s, NEW w \in s.workers, Stock(s)!InventoryAssumption, OneWorker(s), SerialStock(s),
         Stock(s)!CountCommit(w)
  PROVE  SerialStock(s)' /\ Orderly(s)
<1>1. PICK b : b = job[w]
  OBVIOUS
<1>2. PICK m : m = MoveRow("ADJUSTMENT", b.product, b.warehouse, b.delta, b.cost, FALSE)
  OBVIOUS
<1>3. AddsMove(s, NextTag(movements, "COUNT"), m) /\ b.delta \in Int /\ items' = items
  BY <1>1, <1>2, CountAdds DEF SerialStock
<1>4. /\ OpenAt(warehouses, b.warehouse)
      /\ b.delta < 0 => - b.delta <= InStock(movements, b.product, b.warehouse)
  BY <1>1 DEF SerialStock, SerialJob, Stock!CountCommit, Stock!At
<1>6. m.product = b.product /\ m.warehouse = b.warehouse /\ Moved(m) = b.delta
  BY <1>2 DEF MoveRow, Moved
<1>7. Moved(m) < 0 => - Moved(m) <= InStock(movements, m.product, m.warehouse)
  BY <1>4, <1>6
<1>8. NoneBelow(s, movements')
  BY <1>3, <1>7, NoneBelowAfter DEF AddsMove, SerialStock, StockInv, GoodsBooks
<1>9. Stock(s)!Done(w) /\ OneDefault(warehouses')
  BY DEF Stock!CountCommit, SerialStock
<1>10. StockInv(s)'
  BY StockMoves DEF SerialStock
<1>11. NextTag(movements, "COUNT")[1] = "COUNT"
  BY DEF NextTag
<1>12. Stock(s)!LateStock
  BY <1>3, <1>4, <1>6, <1>11, LateOne DEF AddsMove
<1>13. Stock(s)!ArchivedEmpty
  BY <1>3 DEF Stock!ArchivedEmpty
<1> QED
  BY <1>8, <1>9, <1>10, <1>12, <1>13, SerialDone DEF Orderly

LEMMA SerialSells ==
  ASSUME NEW s, NEW w \in s.workers, Stock(s)!InventoryAssumption, OneWorker(s), SerialStock(s),
         Stock(s)!TillCommit(w)
  PROVE  SerialStock(s)' /\ Orderly(s)
<1>1. PICK b : b = job[w]
  OBVIOUS
<1>2. PICK m : m = MoveRow("ISSUE", b.product, b.warehouse, b.qty, b.cost, FALSE)
  OBVIOUS
<1>3. AddsMove(s, NextTag(movements, "POS"), m) /\ b \in s.sales /\ items' = items
  BY <1>1, <1>2, TillAdds DEF SerialStock
<1>4. /\ items[b.product] = "active" /\ OpenAt(warehouses, b.warehouse)
      /\ b.qty <= InStock(movements, b.product, b.warehouse)
  BY <1>1 DEF SerialStock, SerialJob, Stock!TillCommit, Stock!At
<1>5. b.qty \in Nat
  BY <1>3 DEF Stock!InventoryAssumption
<1>6. m.product = b.product /\ m.warehouse = b.warehouse /\ Moved(m) = - b.qty
  BY <1>2 DEF MoveRow, Moved
<1>7. Moved(m) < 0 => - Moved(m) <= InStock(movements, m.product, m.warehouse)
  BY <1>4, <1>5, <1>6
<1>8. NoneBelow(s, movements')
  BY <1>3, <1>7, NoneBelowAfter DEF AddsMove, SerialStock, StockInv, GoodsBooks
<1>9. Stock(s)!Done(w) /\ OneDefault(warehouses')
  BY DEF Stock!TillCommit, SerialStock
<1>10. StockInv(s)'
  BY StockSells DEF SerialStock
<1>11. Stock(s)!LateStock
  BY <1>3, <1>4, <1>6, LateOne DEF AddsMove
<1>12. Stock(s)!ArchivedEmpty
  BY <1>3 DEF Stock!ArchivedEmpty
<1> QED
  BY <1>8, <1>9, <1>10, <1>11, <1>12, SerialDone DEF Orderly

LEMMA SerialDecides ==
  ASSUME NEW s, NEW w \in s.workers, OneWorker(s), SerialStock(s), Stock(s)!DecideCommit(w)
  PROVE  SerialStock(s)' /\ Orderly(s)
<1>1. Stock(s)!Done(w) /\ OneDefault(warehouses') /\ items' = items
  BY DEF Stock!DecideCommit, SerialStock
<1>2. StockInv(s)'
  BY StockDecides DEF SerialStock
<1>3. NoneBelow(s, movements') /\ Stock(s)!LateStock
  <2>1. CASE job[w].status = "APPROVED"
    <3>1. PICK a : a = adjustments[job[w].ref]
      OBVIOUS
    <3>2. PICK m : m = MoveRow("ADJUSTMENT", a.product, a.warehouse, a.delta, a.cost, FALSE)
      OBVIOUS
    <3>3. AddsMove(s, <<"ADJ", job[w].ref>>, m) /\ a.delta \in Int
      BY <2>1, <3>1, <3>2, ApprovalAdds DEF Approves, SerialStock
    <3>4. a.delta < 0 => - a.delta <= InStock(movements, a.product, a.warehouse)
      BY <2>1, <3>1 DEF SerialStock, SerialJob, Stock!DecideCommit, Stock!At
    <3>5. m.product = a.product /\ m.warehouse = a.warehouse /\ Moved(m) = a.delta
      BY <3>2 DEF MoveRow, Moved
    <3>6. Moved(m) < 0 => - Moved(m) <= InStock(movements, m.product, m.warehouse)
      BY <3>4, <3>5
    <3>7. NoneBelow(s, movements')
      BY <3>3, <3>6, NoneBelowAfter DEF AddsMove, SerialStock, StockInv, GoodsBooks
    <3>8. <<"ADJ", job[w].ref>>[1] = "ADJ"
      OBVIOUS
    <3>9. Stock(s)!LateStock
      BY <3>3, <3>8, LateOne DEF AddsMove
    <3> QED
      BY <3>7, <3>9
  <2>2. CASE job[w].status # "APPROVED"
    <3>1. movements' = movements
      BY <2>2 DEF Stock!DecideCommit
    <3> QED
      BY <1>1, <3>1, StillOrderly DEF SerialStock, Orderly
  <2> QED
    BY <2>1, <2>2
<1>4. Stock(s)!ArchivedEmpty
  BY <1>1 DEF Stock!ArchivedEmpty
<1> QED
  BY <1>1, <1>2, <1>3, <1>4, SerialDone DEF Orderly

LEMMA SerialTransfers ==
  ASSUME NEW s, NEW w \in s.workers, Stock(s)!InventoryAssumption, OneWorker(s), SerialStock(s),
         Stock(s)!TransferCommit(w)
  PROVE  SerialStock(s)' /\ Orderly(s)
<1>1. PICK t : t = job[w]
  OBVIOUS
<1>2. PICK out, in : out = Leg(s, t, "TRANSFER_OUT", t.from) /\ in = Leg(s, t, "TRANSFER_IN", t.to)
  OBVIOUS
<1>3. /\ \E mid : Legs(s, mid, <<"OUT", t.ref>>, out, <<"IN", t.ref>>, in)
      /\ t \in s.transfers /\ items' = items
      /\ out.product = t.product /\ out.warehouse = t.from /\ Moved(out) = - t.qty
      /\ in.product = t.product /\ in.warehouse = t.to /\ Moved(in) = t.qty
  BY <1>1, <1>2, TransferAdds DEF SerialStock
<1>4. /\ items[t.product] = "active" /\ OpenAt(warehouses, t.from) /\ OpenAt(warehouses, t.to)
      /\ t.qty <= InStock(movements, t.product, t.from)
  BY <1>1 DEF SerialStock, SerialJob, Stock!TransferCommit, Stock!At
<1>5. t.qty \in Nat
  BY <1>3 DEF Stock!InventoryAssumption
<1>6. PICK mid, a, b : Legs(s, mid, a, out, b, in)
  BY <1>3
<1>7. MovesOK(mid) /\ NoneBelow(s, mid)
  <2>1. Moved(out) < 0 => - Moved(out) <= InStock(movements, out.product, out.warehouse)
    BY <1>3, <1>4, <1>5
  <2> QED
    BY <1>6, <2>1, NoneBelowAfter DEF Legs, SerialStock, StockInv, GoodsBooks
<1>8. NoneBelow(s, movements')
  <2>1. ~(Moved(in) < 0)
    BY <1>3, <1>5
  <2> QED
    BY <1>6, <1>7, <2>1, NoneBelowAfter DEF Legs
<1>9. Stock(s)!Done(w) /\ OneDefault(warehouses')
  BY DEF Stock!TransferCommit, SerialStock
<1>10. StockInv(s)'
  BY StockTransfers DEF SerialStock
<1>11. Stock(s)!LateStock
  BY <1>3, <1>4, <1>6, LateLegs
<1>12. Stock(s)!ArchivedEmpty
  BY <1>3 DEF Stock!ArchivedEmpty
<1> QED
  BY <1>8, <1>9, <1>10, <1>11, <1>12, SerialDone DEF Orderly

LEMMA CheckNames ==
  ASSUME NEW s
  PROVE  /\ \A h : Stock(s)!Open(h) <=> OpenAt(warehouses, h)
         /\ \A h, p : Stock(s)!Usable(h, p) <=> items[p] = "active" /\ OpenAt(warehouses, h)
         /\ \A h, p, q : Stock(s)!Covers(h, p, q) <=> q <= InStock(movements, p, h)
<1>1. \A h : Stock(s)!Open(h) <=> OpenAt(warehouses, h)
  BY DEF Stock!Open, OpenAt
<1>2. ASSUME NEW h, NEW p, NEW q PROVE Stock(s)!Covers(h, p, q) <=> q <= InStock(movements, p, h)
  <2>1. Stock(s)!StockIn(h, p) = InStock(movements, p, h)
    BY StockSums DEF InStock
  <2> QED
    BY <2>1 DEF Stock!Covers
<1> QED
  BY <1>1, <1>2 DEF Stock!Usable

LEMMA SerialReads ==
  ASSUME NEW s, NEW w \in s.workers, OneWorker(s), SerialStock(s),
         \/ \E b \in s.movements : Stock(s)!MovementRead(w, b)
         \/ \E t \in s.transfers : Stock(s)!TransferRead(w, t)
         \/ \E r \in DOMAIN adjustments, y \in {"APPROVED", "VOID"} : Stock(s)!DecideRead(w, r, y)
         \/ \E b \in s.sales : Stock(s)!TillRead(w, b)
  PROVE  SerialStock(s)' /\ Orderly(s)
<1>0. StockInv(s)'
  BY StockReads DEF SerialStock
<1>1. ASSUME NEW b \in s.movements, Stock(s)!MovementRead(w, b) PROVE SerialStock(s)' /\ Orderly(s)
  <2>1. Stock(s)!Turn(w, "moving", b) /\ UNCHANGED <<items, warehouses, movements, adjustments>>
    BY <1>1 DEF Stock!MovementRead, Stock!rowVars
  <2>2. /\ items[b.product] = "active" /\ OpenAt(warehouses, b.warehouse)
        /\ Takes(b) => b.qty <= InStock(movements, b.product, b.warehouse)
    BY <1>1, CheckNames DEF Stock!MovementRead, Stock!Withdraws, Takes
  <2>3. SerialJob(s, "moving", b, items, warehouses, movements, adjustments)
    BY <2>2 DEF SerialJob
  <2> QED
    BY <1>0, <2>1, <2>3, SerialRead, StillOrderly
<1>2. ASSUME NEW t \in s.transfers, Stock(s)!TransferRead(w, t) PROVE SerialStock(s)' /\ Orderly(s)
  <2>1. Stock(s)!Turn(w, "transferring", t) /\ UNCHANGED <<items, warehouses, movements, adjustments>>
    BY <1>2 DEF Stock!TransferRead, Stock!rowVars
  <2>2. /\ items[t.product] = "active" /\ OpenAt(warehouses, t.from) /\ OpenAt(warehouses, t.to)
        /\ t.qty <= InStock(movements, t.product, t.from)
    BY <1>2, CheckNames DEF Stock!TransferRead
  <2>3. SerialJob(s, "transferring", t, items, warehouses, movements, adjustments)
    BY <2>2 DEF SerialJob
  <2> QED
    BY <1>0, <2>1, <2>3, SerialRead, StillOrderly
<1>3. ASSUME NEW r \in DOMAIN adjustments, NEW y \in {"APPROVED", "VOID"}, Stock(s)!DecideRead(w, r, y)
      PROVE  SerialStock(s)' /\ Orderly(s)
  <2>1. PICK x : x = [ref |-> r, status |-> y]
    OBVIOUS
  <2>2. Stock(s)!Turn(w, "deciding", x) /\ UNCHANGED <<items, warehouses, movements, adjustments>>
    BY <1>3, <2>1 DEF Stock!DecideRead, Stock!rowVars
  <2>3. y = "APPROVED" /\ adjustments[r].delta < 0 =>
          - adjustments[r].delta <= InStock(movements, adjustments[r].product, adjustments[r].warehouse)
    BY <1>3, CheckNames DEF Stock!DecideRead
  <2>4. x.ref = r /\ x.status = y
    BY <2>1
  <2>5. SerialJob(s, "deciding", x, items, warehouses, movements, adjustments)
    BY <2>3, <2>4 DEF SerialJob
  <2> QED
    BY <1>0, <2>2, <2>5, SerialRead, StillOrderly
<1>4. ASSUME NEW b \in s.sales, Stock(s)!TillRead(w, b) PROVE SerialStock(s)' /\ Orderly(s)
  <2>1. Stock(s)!Turn(w, "selling", b) /\ UNCHANGED <<items, warehouses, movements, adjustments>>
    BY <1>4 DEF Stock!TillRead
  <2>2. /\ items[b.product] = "active" /\ OpenAt(warehouses, b.warehouse)
        /\ b.qty <= InStock(movements, b.product, b.warehouse)
    BY <1>4, CheckNames DEF Stock!TillRead
  <2>3. SerialJob(s, "selling", b, items, warehouses, movements, adjustments)
    BY <2>2 DEF SerialJob
  <2> QED
    BY <1>0, <2>1, <2>3, SerialRead, StillOrderly
<1> QED
  BY <1>1, <1>2, <1>3, <1>4

LEMMA SerialAborts ==
  ASSUME NEW s, NEW w \in s.workers, OneWorker(s), SerialStock(s), Stock(s)!Abort(w)
  PROVE  SerialStock(s)' /\ Orderly(s)
<1>1. Stock(s)!Done(w) /\ UNCHANGED <<items, warehouses, movements, adjustments>>
  BY DEF Stock!Abort, Stock!GiveUp
<1>2. NoneBelow(s, movements') /\ OneDefault(warehouses')
  BY <1>1 DEF SerialStock
<1> QED
  BY <1>1, <1>2, StockAborts, SerialDone, StillOrderly DEF SerialStock

LEMMA SerialCountReads ==
  ASSUME NEW s, NEW w \in s.workers, NEW b \in s.counts, Stock(s)!InventoryAssumption,
         OneWorker(s), SerialStock(s), Stock(s)!CountRead(w, b)
  PROVE  SerialStock(s)' /\ Orderly(s)
<1>1. PICK d, x : /\ d = b.target - Stock(s)!OnHand(b.product)
                  /\ x = [product |-> b.product, warehouse |-> b.warehouse, cost |-> b.cost, delta |-> d]
  OBVIOUS
<1>2. Stock(s)!Turn(w, "counting", x) /\ UNCHANGED <<items, warehouses, movements, adjustments>>
  BY <1>1 DEF Stock!CountRead, Stock!rowVars
<1>3. OpenAt(warehouses, b.warehouse) /\ (d < 0 => - d <= InStock(movements, b.product, b.warehouse))
  BY <1>1, CheckNames DEF Stock!CountRead
<1>4. x.product = b.product /\ x.warehouse = b.warehouse /\ x.delta = d
  BY <1>1
<1>5. SerialJob(s, "counting", x, items, warehouses, movements, adjustments)
  BY <1>3, <1>4 DEF SerialJob
<1>6. StockInv(s)'
  BY StockCounts DEF SerialStock
<1> QED
  BY <1>2, <1>5, <1>6, SerialRead, StillOrderly

LEMMA SerialRetires ==
  ASSUME NEW s, NEW w \in s.workers, NEW p \in DOMAIN s.items, OneWorker(s), SerialStock(s),
         Stock(s)!ArchiveRead(w, p) \/ Stock(s)!DeleteRead(w, p)
  PROVE  SerialStock(s)' /\ Orderly(s)
<1>1. StockInv(s)' /\ UNCHANGED <<items, warehouses, movements, adjustments>>
  BY StockRetires DEF SerialStock, Stock!ArchiveRead, Stock!DeleteRead, Stock!rowVars
<1>2. CASE Stock(s)!ArchiveRead(w, p)
  <2>1. Stock(s)!Turn(w, "archiving", p) /\ items[p] = "active" /\ Stock(s)!OnHand(p) = 0
    BY <1>2 DEF Stock!ArchiveRead, Stock!MayArchive
  <2>2. StockOf(movements, p, s.houses) = 0
    BY <2>1, StockSums
  <2>3. SerialJob(s, "archiving", p, items, warehouses, movements, adjustments)
    BY <2>1, <2>2 DEF SerialJob
  <2> QED
    BY <1>1, <2>1, <2>3, SerialRead, StillOrderly
<1>3. CASE Stock(s)!DeleteRead(w, p)
  <2>1. Stock(s)!Turn(w, "deleting", p)
    BY <1>3 DEF Stock!DeleteRead
  <2>2. SerialJob(s, "deleting", p, items, warehouses, movements, adjustments)
    BY DEF SerialJob
  <2> QED
    BY <1>1, <2>1, <2>2, SerialRead, StillOrderly
<1> QED
  BY <1>2, <1>3

LEMMA SerialArchives ==
  ASSUME NEW s, NEW w \in s.workers, OneWorker(s), SerialStock(s),
         Stock(s)!ArchiveCommit(w) \/ Stock(s)!DeleteCommit(w)
  PROVE  SerialStock(s)' /\ Orderly(s)
<1>1. /\ StockInv(s)' /\ Stock(s)!Done(w) /\ movements' = movements /\ warehouses' = warehouses
  BY StockArchives DEF SerialStock, Stock!ArchiveCommit, Stock!DeleteCommit
<1>2. NoneBelow(s, movements') /\ OneDefault(warehouses')
  BY <1>1 DEF SerialStock
<1>3. Stock(s)!LateStock
  BY <1>1 DEF Stock!LateStock
<1>4. Stock(s)!ArchivedEmpty
  <2>1. CASE Stock(s)!ArchiveCommit(w)
    <3>1. PICK p : p = job[w]
      OBVIOUS
    <3>2. items' = [items EXCEPT ![p] = "archived"] /\ pc[w] = "archiving"
      BY <2>1, <3>1 DEF Stock!ArchiveCommit, Stock!At
    <3>3. StockOf(movements, p, s.houses) = 0
      BY <3>1, <3>2 DEF SerialStock, SerialJob
    <3>4. Stock(s)!OnHand(p) = 0
      BY <3>3, StockSums
    <3>5. \A x \in DOMAIN s.items : x # p => items'[x] = items[x]
      BY <3>2 DEF SerialStock, StockInv, StockRows, ItemsOK
    <3> QED
      BY <3>4, <3>5 DEF Stock!ArchivedEmpty
  <2>2. CASE Stock(s)!DeleteCommit(w)
    <3>1. PICK p : p = job[w]
      OBVIOUS
    <3>2. items' = [items EXCEPT ![p] = "absent"]
      BY <2>2, <3>1 DEF Stock!DeleteCommit
    <3>3. \A x \in DOMAIN s.items : items'[x] = "archived" => items[x] = "archived"
      BY <3>2 DEF SerialStock, StockInv, StockRows, ItemsOK
    <3> QED
      BY <3>3 DEF Stock!ArchivedEmpty
  <2> QED
    BY <2>1, <2>2
<1> QED
  BY <1>1, <1>2, <1>3, <1>4, SerialDone DEF Orderly

LEMMA SerialPlaceReads ==
  ASSUME NEW s, NEW w \in s.workers, NEW h \in s.houses, OneWorker(s), SerialStock(s),
         Stock(s)!WarehouseRead(w, h) \/ Stock(s)!CloseRead(w, h) \/ Stock(s)!DefaultRead(w, h)
  PROVE  SerialStock(s)' /\ Orderly(s)
<1>0. /\ StockInv(s)' /\ UNCHANGED <<items, warehouses, movements, adjustments>>
  BY PlaceReads DEF SerialStock, Stock!WarehouseRead, Stock!CloseRead, Stock!DefaultRead, Stock!rowVars
<1>1. CASE Stock(s)!WarehouseRead(w, h)
  <2>1. PICK x : x = [warehouse |-> h, first |-> Stock(s)!Defaults = {}]
    OBVIOUS
  <2>2. Stock(s)!Turn(w, "building", x)
    BY <1>1, <2>1 DEF Stock!WarehouseRead
  <2>3. x.first <=> DefaultsOf(warehouses) = {}
    BY <2>1, DefaultNames
  <2>4. SerialJob(s, "building", x, items, warehouses, movements, adjustments)
    BY <2>3 DEF SerialJob
  <2> QED
    BY <1>0, <2>2, <2>4, SerialRead, StillOrderly
<1>2. CASE Stock(s)!CloseRead(w, h)
  <2>1. Stock(s)!Turn(w, "closing", h) /\ ~warehouses[h].default
    BY <1>2 DEF Stock!CloseRead, Stock!MayClose
  <2>2. SerialJob(s, "closing", h, items, warehouses, movements, adjustments)
    BY <2>1 DEF SerialJob
  <2> QED
    BY <1>0, <2>1, <2>2, SerialRead, StillOrderly
<1>3. CASE Stock(s)!DefaultRead(w, h)
  <2>1. PICK x : x = [warehouse |-> h, clear |-> Stock(s)!Defaults]
    OBVIOUS
  <2>2. Stock(s)!Turn(w, "choosing", x) /\ OpenAt(warehouses, h)
    BY <1>3, <2>1, CheckNames DEF Stock!DefaultRead
  <2>3. x.clear = DefaultsOf(warehouses) /\ x.warehouse = h
    BY <2>1, DefaultNames
  <2>4. SerialJob(s, "choosing", x, items, warehouses, movements, adjustments)
    BY <2>2, <2>3 DEF SerialJob
  <2> QED
    BY <1>0, <2>2, <2>4, SerialRead, StillOrderly
<1> QED
  BY <1>1, <1>2, <1>3

LEMMA SerialPlaces ==
  ASSUME NEW s, NEW w \in s.workers, OneWorker(s), SerialStock(s),
         \/ Stock(s)!WarehouseCreate(w) \/ Stock(s)!CloseCommit(w) \/ Stock(s)!DefaultCommit(w)
  PROVE  SerialStock(s)' /\ Orderly(s)
<1>0. PlacesOK(s, warehouses) /\ OneDefault(warehouses)
  BY DEF SerialStock, StockInv, StockRows
<1>1. /\ StockInv(s)' /\ Stock(s)!Done(w) /\ UNCHANGED <<items, movements>>
  BY PlaceBuilds, PlaceCloses, PlaceChooses
     DEF SerialStock, Stock!WarehouseCreate, Stock!CloseCommit, Stock!DefaultCommit
<1>2. NoneBelow(s, movements')
  BY <1>1 DEF SerialStock
<1>3. OneDefault(warehouses')
  <2>1. CASE Stock(s)!WarehouseCreate(w)
    <3>1. PICK h, f : h = job[w].warehouse /\ f = job[w].first
      OBVIOUS
    <3>2. f <=> DefaultsOf(warehouses) = {}
      BY <2>1, <3>1 DEF SerialStock, SerialJob, Stock!WarehouseCreate, Stock!At
    <3>3. /\ h \notin DOMAIN warehouses /\ DOMAIN warehouses' = DOMAIN warehouses \union {h}
          /\ warehouses'[h] = [active |-> TRUE, default |-> f]
          /\ \A x \in DOMAIN warehouses : warehouses'[x] = warehouses[x]
      BY <2>1, <3>1 DEF Stock!WarehouseCreate
    <3>4. warehouses'[h].active /\ (warehouses'[h].default <=> f)
      BY <3>3
    <3>5. CASE DOMAIN warehouses = {}
      <4>1. f
        BY <3>2, <3>5 DEF DefaultsOf
      <4>2. DefaultsOf(warehouses') = {h}
        BY <3>3, <3>4, <3>5, <4>1 DEF DefaultsOf
      <4> QED
        BY <3>3, <3>4, <4>2 DEF OneDefault
    <3>6. CASE DOMAIN warehouses # {}
      <4>1. PICK d \in DOMAIN warehouses : DefaultsOf(warehouses) = {d} /\ warehouses[d].active
        BY <1>0, <3>6 DEF OneDefault
      <4>2. ~f
        BY <3>2, <4>1
      <4>3. DefaultsOf(warehouses') = DefaultsOf(warehouses)
        BY <3>3, <3>4, <4>2 DEF DefaultsOf
      <4>4. d \in DOMAIN warehouses' /\ warehouses'[d].active
        BY <3>3, <4>1
      <4> QED
        BY <4>1, <4>3, <4>4 DEF OneDefault
    <3> QED
      BY <3>5, <3>6
  <2>2. CASE Stock(s)!CloseCommit(w)
    <3>1. PICK h : h = job[w]
      OBVIOUS
    <3>2. ~warehouses[h].default /\ h \in DOMAIN warehouses
      BY <2>2, <3>1 DEF SerialStock, SerialJob, StockInv, StockJob, Stock!CloseCommit, Stock!At
    <3>3. warehouses' = [warehouses EXCEPT ![h].active = FALSE]
      BY <2>2, <3>1 DEF Stock!CloseCommit
    <3>4. /\ DOMAIN warehouses' = DOMAIN warehouses
          /\ \A x \in DOMAIN warehouses : warehouses'[x].default = warehouses[x].default
          /\ \A x \in DOMAIN warehouses : x # h => warehouses'[x] = warehouses[x]
      BY <1>0, <3>3 DEF PlacesOK, PlaceRow
    <3>5. DefaultsOf(warehouses') = DefaultsOf(warehouses)
      BY <3>4 DEF DefaultsOf
    <3>6. PICK d \in DOMAIN warehouses : DefaultsOf(warehouses) = {d} /\ warehouses[d].active
      BY <1>0, <3>2 DEF OneDefault
    <3>7. d # h
      BY <3>2, <3>6 DEF DefaultsOf
    <3>8. warehouses'[d].active /\ DefaultsOf(warehouses') = {d} /\ d \in DOMAIN warehouses'
      BY <3>4, <3>5, <3>6, <3>7
    <3> QED
      BY <3>8 DEF OneDefault
  <2>3. CASE Stock(s)!DefaultCommit(w)
    <3>1. PICK h, c : h = job[w].warehouse /\ c = job[w].clear
      OBVIOUS
    <3>2. c = DefaultsOf(warehouses) /\ OpenAt(warehouses, h)
      BY <2>3, <3>1 DEF SerialStock, SerialJob, Stock!DefaultCommit, Stock!At
    <3>3. warehouses' = [x \in DOMAIN warehouses |->
             [warehouses[x] EXCEPT !.default = (x = h \/ (x \notin c /\ warehouses[x].default))]]
      BY <2>3, <3>1 DEF Stock!DefaultCommit, Stock!DefaultOf
    <3>4. ASSUME NEW x \in DOMAIN warehouses
          PROVE  (warehouses'[x].default <=> x = h) /\ warehouses'[x].active = warehouses[x].active
      <4>1. PICK d \in BOOLEAN : d = (x = h \/ (x \notin c /\ warehouses[x].default))
        OBVIOUS
      <4>2. warehouses'[x] = [warehouses[x] EXCEPT !.default = d] /\ warehouses[x] \in PlaceRow
        BY <1>0, <3>3, <4>1 DEF PlacesOK
      <4>3. warehouses'[x].default = d /\ warehouses'[x].active = warehouses[x].active
        BY <4>2 DEF PlaceRow
      <4>4. x \notin c => ~warehouses[x].default
        BY <3>2 DEF DefaultsOf
      <4> QED
        BY <4>1, <4>3, <4>4
    <3>5. DOMAIN warehouses' = DOMAIN warehouses
      BY <3>3
    <3>6. h \in DOMAIN warehouses' /\ warehouses'[h].active /\ DefaultsOf(warehouses') = {h}
      BY <3>2, <3>4, <3>5 DEF DefaultsOf, OpenAt
    <3> QED
      BY <3>6 DEF OneDefault
  <2> QED
    BY <2>1, <2>2, <2>3
<1> QED
  BY <1>1, <1>2, <1>3, SerialDone, StillOrderly

(* What a request has read is true still, after steps of the rows that     *)
(* take nothing away.                                                      *)
StillCovers(s, it, hs, ms, as) ==
  /\ \A p \in DOMAIN s.items :
       /\ items[p] = "active" => it[p] = "active"
       /\ items[p] = "active" => StockOf(ms, p, s.houses) = StockOf(movements, p, s.houses)
       /\ \A h \in s.houses : InStock(movements, p, h) <= InStock(ms, p, h)
  /\ \A h \in DOMAIN warehouses :
       /\ h \in DOMAIN hs /\ hs[h].default = warehouses[h].default
       /\ warehouses[h].active => hs[h].active
  /\ DefaultsOf(hs) = DefaultsOf(warehouses)
  /\ \A r \in DOMAIN adjustments : as[r] = adjustments[r]

LEMMA CoveredStill ==
  ASSUME NEW s, NEW it, NEW hs, NEW ms, NEW as, NEW p, NEW h, NEW q,
         StockInv(s), MovesOK(ms), StillCovers(s, it, hs, ms, as), p \in DOMAIN s.items, h \in s.houses,
         q \in Int, q <= InStock(movements, p, h)
  PROVE  q <= InStock(ms, p, h)
<1>1. PICK a, b : a = InStock(movements, p, h) /\ b = InStock(ms, p, h)
  OBVIOUS
<1>2. a \in Int /\ b \in Int
  BY <1>1, FigureTypes DEF InStock, StockInv, GoodsBooks
<1>3. a <= b
  BY <1>1 DEF StillCovers
<1> QED
  BY <1>1, <1>2, <1>3

LEMMA OpenStill ==
  ASSUME NEW s, NEW it, NEW hs, NEW ms, NEW as, NEW h, StillCovers(s, it, hs, ms, as),
         OpenAt(warehouses, h)
  PROVE  OpenAt(hs, h)
BY DEF StillCovers, OpenAt

LEMMA SerialLater ==
  ASSUME NEW s, NEW l, NEW x, NEW it, NEW hs, NEW ms, NEW as, Stock(s)!InventoryAssumption,
         StockInv(s), MovesOK(ms), StockJob(s, l, x, items, warehouses, adjustments),
         SerialJob(s, l, x, items, warehouses, movements, adjustments), StillCovers(s, it, hs, ms, as)
  PROVE  SerialJob(s, l, x, it, hs, ms, as)
<1>1. l \in {"moving", "selling"} =>
        /\ x.product \in DOMAIN s.items /\ x.warehouse \in s.houses /\ x.qty \in Int
  BY DEF StockJob, Stock!InventoryAssumption, Stock!Named
<1>2. l = "transferring" => x.product \in DOMAIN s.items /\ x.from \in s.houses /\ x.qty \in Int
  BY DEF StockJob, Stock!InventoryAssumption, Stock!Named
<1>3. l \in {"moving", "selling"} => it[x.product] = "active" /\ OpenAt(hs, x.warehouse)
  BY <1>1, OpenStill DEF SerialJob, StillCovers
<1>4. l = "moving" /\ Takes(x) => x.qty <= InStock(ms, x.product, x.warehouse)
  BY <1>1, CoveredStill DEF SerialJob
<1>5. l = "selling" => x.qty <= InStock(ms, x.product, x.warehouse)
  BY <1>1, CoveredStill DEF SerialJob
<1>6. l = "transferring" => /\ it[x.product] = "active" /\ OpenAt(hs, x.from) /\ OpenAt(hs, x.to)
                            /\ x.qty <= InStock(ms, x.product, x.from)
  BY <1>2, OpenStill, CoveredStill DEF SerialJob, StillCovers
<1>7. l = "deciding" /\ x.status = "APPROVED" /\ as[x.ref].delta < 0 =>
        - as[x.ref].delta <= InStock(ms, as[x.ref].product, as[x.ref].warehouse)
  <2>1. SUFFICES ASSUME l = "deciding", x.status = "APPROVED", as[x.ref].delta < 0
                 PROVE  - as[x.ref].delta <= InStock(ms, as[x.ref].product, as[x.ref].warehouse)
    OBVIOUS
  <2>2. x.ref \in DOMAIN adjustments
    BY <2>1 DEF StockJob
  <2>3. as[x.ref] = adjustments[x.ref]
    BY <2>2 DEF StillCovers
  <2>4. PICK a : a = adjustments[x.ref]
    OBVIOUS
  <2>5. AdjustOK(s, a)
    BY <2>2, <2>4 DEF StockInv, StockRows, AdjustsOK
  <2>6. - a.delta <= InStock(movements, a.product, a.warehouse)
    BY <2>1, <2>3, <2>4 DEF SerialJob
  <2>7. PICK q : q = - a.delta
    OBVIOUS
  <2>8. q \in Int /\ a.product \in DOMAIN s.items /\ a.warehouse \in s.houses
    BY <2>5, <2>7 DEF AdjustOK
  <2>9. q <= InStock(ms, a.product, a.warehouse)
    BY <2>6, <2>7, <2>8, CoveredStill
  <2> QED
    BY <2>3, <2>4, <2>7, <2>9
<1>8. l = "counting" => /\ OpenAt(hs, x.warehouse)
                        /\ x.delta < 0 => - x.delta <= InStock(ms, x.product, x.warehouse)
  <2>1. l = "counting" => x.product \in DOMAIN s.items /\ x.warehouse \in s.houses /\ x.delta \in Int
    BY DEF StockJob
  <2>2. l = "counting" => OpenAt(hs, x.warehouse)
    BY OpenStill DEF SerialJob
  <2>3. ASSUME l = "counting", x.delta < 0 PROVE - x.delta <= InStock(ms, x.product, x.warehouse)
    <3>1. PICK q : q = - x.delta
      OBVIOUS
    <3>2. q \in Int /\ q <= InStock(movements, x.product, x.warehouse)
      BY <2>1, <2>3, <3>1 DEF SerialJob
    <3>3. q <= InStock(ms, x.product, x.warehouse)
      BY <2>1, <2>3, <3>2, CoveredStill
    <3> QED
      BY <3>1, <3>3
  <2> QED
    BY <2>2, <2>3
<1>9. l = "archiving" => it[x] = "active" /\ StockOf(ms, x, s.houses) = 0
  BY DEF StockJob, SerialJob, StillCovers
<1>10. /\ l = "building" => (x.first <=> DefaultsOf(hs) = {})
       /\ l = "closing" => ~hs[x].default
  BY DEF StockJob, SerialJob, StillCovers
<1>11. l = "choosing" => x.clear = DefaultsOf(hs) /\ OpenAt(hs, x.warehouse)
  BY OpenStill DEF SerialJob, StillCovers
<1> QED
  BY <1>3, <1>4, <1>5, <1>6, <1>7, <1>8, <1>9, <1>10, <1>11 DEF SerialJob

LEMMA SerialAtOnce ==
  ASSUME NEW s, Stock(s)!InventoryAssumption, SerialStock(s), StockInv(s)', UNCHANGED <<pc, job>>,
         StillCovers(s, items', warehouses', movements', adjustments'),
         NoneBelow(s, movements'), OneDefault(warehouses')
  PROVE  SerialStock(s)'
<1>1. StockInv(s) /\ MovesOK(movements')
  BY DEF SerialStock, StockInv, GoodsBooks
<1>2. ASSUME NEW w \in s.workers
      PROVE  SerialJob(s, pc[w], job[w], items', warehouses', movements', adjustments')
  <2>1. /\ StockJob(s, pc[w], job[w], items, warehouses, adjustments)
        /\ SerialJob(s, pc[w], job[w], items, warehouses, movements, adjustments)
    BY DEF SerialStock, StockInv
  <2> QED
    BY <1>1, <2>1, SerialLater
<1> QED
  BY <1>2 DEF SerialStock

LEMMA StockStill ==
  ASSUME NEW s, StockInv(s)
  PROVE  /\ \A p, h : InStock(movements, p, h) <= InStock(movements, p, h)
         /\ \A p, h : InStock(movements, p, h) \in Int
BY FigureTypes DEF StockInv, GoodsBooks, InStock

LEMMA SerialCreates ==
  ASSUME NEW s, NEW o \in s.openings, Stock(s)!InventoryAssumption, SerialStock(s),
         Stock(s)!CreateProduct(o)
  PROVE  SerialStock(s)' /\ Orderly(s)
<1>1. /\ StockInv(s) /\ StockInv(s)' /\ o.product \in DOMAIN s.items /\ o.qty \in Nat
  BY StockCreates DEF SerialStock, Stock!InventoryAssumption, Stock!Named
<1>2. /\ UNCHANGED <<pc, job>> /\ warehouses' = warehouses /\ adjustments' = adjustments
      /\ items[o.product] = "absent" /\ items' = [items EXCEPT ![o.product] = "active"]
  BY DEF Stock!CreateProduct, Stock!requestVars
<1>3. /\ items'[o.product] = "active"
      /\ \A p \in DOMAIN s.items : p # o.product => items'[p] = items[p]
  BY <1>1, <1>2 DEF StockInv, StockRows, ItemsOK
<1>4. CASE o.qty > 0
  <2>1. PICK m : m = MoveRow("RECEIPT", o.product, o.warehouse, o.qty, o.cost, FALSE)
    OBVIOUS
  <2>2. PICK n : AddsMove(s, n, m)
    BY <1>1, <1>4, <2>1, OpeningAdds DEF Opens
  <2>3. m.product = o.product /\ m.warehouse = o.warehouse /\ Moved(m) = o.qty
    BY <2>1 DEF MoveRow, Moved
  <2>4. MovesOK(movements) /\ MoveAdded(movements, movements', n, m)
    BY <1>1, <2>2 DEF AddsMove, StockInv, GoodsBooks
  <2>5. \A p, H : StockOf(movements', p, H) = StockOf(movements, p, H) +
           (IF m.product = p /\ m.warehouse \in H THEN Moved(m) ELSE 0)
    BY <2>4, MoveAdds
  <2>6. NoneBelow(s, movements')
    <3>1. ~(Moved(m) < 0)
      BY <1>4, <1>1, <2>3
    <3> QED
      BY <2>4, <3>1, NoneBelowAfter DEF SerialStock
  <2>7. ASSUME NEW p, NEW h PROVE InStock(movements, p, h) <= InStock(movements', p, h)
    <3>1. PICK a, b, q : a = InStock(movements, p, h) /\ b = InStock(movements', p, h) /\ q = o.qty
      OBVIOUS
    <3>2. a \in Int /\ q \in Nat
      BY <1>1, <3>1, StockStill
    <3>3. b = a + (IF m.product = p /\ m.warehouse \in {h} THEN q ELSE 0)
      BY <2>3, <2>5, <3>1 DEF InStock
    <3>4. a <= b
      BY <3>2, <3>3
    <3> QED
      BY <3>1, <3>4
  <2>8. ASSUME NEW p, items[p] = "active"
        PROVE  StockOf(movements', p, s.houses) = StockOf(movements, p, s.houses)
    <3>1. p # o.product
      BY <1>2, <2>8
    <3>2. StockOf(movements, p, s.houses) \in Int
      BY <2>4, FigureTypes
    <3> QED
      BY <2>3, <2>5, <3>1, <3>2
  <2>9. StillCovers(s, items', warehouses', movements', adjustments')
    BY <1>2, <1>3, <2>7, <2>8 DEF StillCovers
  <2>10. SerialStock(s)'
    BY <1>1, <1>2, <2>6, <2>9, SerialAtOnce DEF SerialStock
  <2>11. Stock(s)!LateStock
    BY <1>2, <1>3, <2>3, <2>4, LateOne
  <2>12. Stock(s)!ArchivedEmpty
    BY <1>3 DEF Stock!ArchivedEmpty
  <2> QED
    BY <2>10, <2>11, <2>12 DEF Orderly
<1>5. CASE ~(o.qty > 0)
  <2>1. movements' = movements
    BY <1>5 DEF Stock!CreateProduct
  <2>2. NoneBelow(s, movements')
    BY <2>1 DEF SerialStock
  <2>3. StillCovers(s, items', warehouses', movements', adjustments')
    BY <1>1, <1>2, <1>3, <2>1, StockStill DEF StillCovers
  <2>4. SerialStock(s)'
    BY <1>1, <1>2, <2>2, <2>3, SerialAtOnce DEF SerialStock
  <2>5. Stock(s)!LateStock /\ Stock(s)!ArchivedEmpty
    BY <1>3, <2>1 DEF Stock!LateStock, Stock!ArchivedEmpty
  <2> QED
    BY <2>4, <2>5 DEF Orderly
<1> QED
  BY <1>4, <1>5

LEMMA SerialRestores ==
  ASSUME NEW s, NEW p \in DOMAIN s.items, Stock(s)!InventoryAssumption, SerialStock(s),
         Stock(s)!RestoreProduct(p)
  PROVE  SerialStock(s)' /\ Orderly(s)
<1>1. /\ StockInv(s) /\ StockInv(s)'
      /\ UNCHANGED <<pc, job>> /\ UNCHANGED <<warehouses, movements, adjustments>>
      /\ items' = [items EXCEPT ![p] = "active"]
  BY StockRestores DEF SerialStock, Stock!RestoreProduct, Stock!requestVars
<1>2. /\ items'[p] = "active"
      /\ \A x \in DOMAIN s.items : x # p => items'[x] = items[x]
  BY <1>1 DEF StockInv, StockRows, ItemsOK
<1>3. StillCovers(s, items', warehouses', movements', adjustments')
  BY <1>1, <1>2, StockStill DEF StillCovers
<1>4. SerialStock(s)'
  BY <1>1, <1>3, SerialAtOnce DEF SerialStock
<1>5. Stock(s)!LateStock /\ Stock(s)!ArchivedEmpty
  BY <1>1, <1>2 DEF Stock!LateStock, Stock!ArchivedEmpty
<1> QED
  BY <1>4, <1>5 DEF Orderly

LEMMA SerialReopens ==
  ASSUME NEW s, NEW h \in s.houses, Stock(s)!InventoryAssumption, SerialStock(s),
         Stock(s)!ReopenWarehouse(h)
  PROVE  SerialStock(s)' /\ Orderly(s)
<1>1. /\ StockInv(s) /\ StockInv(s)' /\ PlacesOK(s, warehouses) /\ OneDefault(warehouses)
      /\ UNCHANGED <<pc, job>> /\ UNCHANGED <<items, movements, adjustments>>
      /\ h \in DOMAIN warehouses /\ warehouses' = [warehouses EXCEPT ![h].active = TRUE]
  BY PlaceReopens DEF SerialStock, StockInv, StockRows, Stock!ReopenWarehouse, Stock!requestVars
<1>2. /\ DOMAIN warehouses' = DOMAIN warehouses
      /\ \A x \in DOMAIN warehouses : /\ warehouses'[x].default = warehouses[x].default
                                      /\ warehouses[x].active => warehouses'[x].active
  BY <1>1 DEF PlacesOK, PlaceRow
<1>3. DefaultsOf(warehouses') = DefaultsOf(warehouses)
  BY <1>2 DEF DefaultsOf
<1>4. OneDefault(warehouses')
  <2>1. PICK d \in DOMAIN warehouses : DefaultsOf(warehouses) = {d} /\ warehouses[d].active
    BY <1>1 DEF OneDefault
  <2>2. d \in DOMAIN warehouses' /\ DefaultsOf(warehouses') = {d} /\ warehouses'[d].active
    BY <1>2, <1>3, <2>1
  <2> QED
    BY <2>2 DEF OneDefault
<1>5. StillCovers(s, items', warehouses', movements', adjustments')
  BY <1>1, <1>2, <1>3, StockStill DEF StillCovers
<1>6. SerialStock(s)'
  BY <1>1, <1>4, <1>5, SerialAtOnce DEF SerialStock
<1> QED
  BY <1>1, <1>6, StillOrderly

LEMMA SerialDrafts ==
  ASSUME NEW s, NEW a \in s.adjustments, Stock(s)!InventoryAssumption, SerialStock(s),
         Stock(s)!CreateAdjustment(a)
  PROVE  SerialStock(s)' /\ Orderly(s)
<1>1. /\ StockInv(s) /\ StockInv(s)'
      /\ UNCHANGED <<pc, job>> /\ UNCHANGED <<items, warehouses, movements>>
      /\ \A r \in DOMAIN adjustments : adjustments'[r] = adjustments[r]
  BY StockDrafts DEF SerialStock, Stock!CreateAdjustment, Stock!requestVars
<1>2. StillCovers(s, items', warehouses', movements', adjustments')
  BY <1>1, StockStill DEF StillCovers
<1>3. SerialStock(s)'
  BY <1>1, <1>2, SerialAtOnce DEF SerialStock
<1> QED
  BY <1>1, <1>3, StillOrderly

LEMMA SerialKeeps ==
  ASSUME NEW s, Stock(s)!InventoryAssumption, OneWorker(s), SerialStock(s),
         Stock(s)!Next \/ Stock(s)!StockNext
  PROVE  SerialStock(s)' /\ Orderly(s)
<1> DEFINE G == SerialStock(s)' /\ Orderly(s)
<1>1. ASSUME NEW w \in s.workers, Stock(s)!Catalogue(w) PROVE G
  BY <1>1, SerialCountReads, SerialCounts, SerialRetires, SerialArchives, SerialPlaceReads,
     SerialPlaces DEF Stock!Catalogue
<1>2. ASSUME NEW w \in s.workers, Stock(s)!Stock(w) PROVE G
  BY <1>2, SerialReads, SerialMoves, SerialTransfers, SerialDecides, SerialSells, SerialAborts
     DEF Stock!Stock
<1>3. ASSUME Stock(s)!AtOnce PROVE G
  BY <1>3, SerialCreates, SerialRestores, SerialReopens, SerialDrafts DEF Stock!AtOnce
<1>4. ASSUME NEW a \in s.adjustments, Stock(s)!CreateAdjustment(a) PROVE G
  BY <1>4, SerialDrafts
<1> HIDE DEF G
<1> QED
  BY <1>1, <1>2, <1>3, <1>4 DEF Stock!Next, Stock!StockNext, G

LEMMA SerialStart ==
  ASSUME NEW s, Stock(s)!InventoryAssumption, Stock(s)!Init
  PROVE  SerialStock(s)
<1>1. StockInv(s) /\ pc = [w \in s.workers |-> "idle"]
  BY StockStart
<1>2. \A r \in DOMAIN movements : Moved(movements[r]) \in Nat
  <2>1. ASSUME NEW r \in DOMAIN movements PROVE Moved(movements[r]) \in Nat
    <3>1. PICK o \in OldOpenings(s) : movements[r] = OpeningRow(o)
      BY StockOpens
    <3>2. Moved(OpeningRow(o)) = o.qty
      BY DEF OpeningRow, MoveRow, Moved
    <3>3. o.qty \in Nat
      BY DEF OldOpenings, Stock!InventoryAssumption
    <3> QED
      BY <3>1, <3>2, <3>3
  <2> QED
    BY <2>1
<1>3. ASSUME NEW p, NEW h PROVE InStock(movements, p, h) >= 0
  <2> DEFINE S == MovesOf(movements, p, {h})
             f == [r \in S |-> Quantities(movements)[r]]
  <2>1. S \subseteq DOMAIN movements /\ IsFiniteSet(S)
    BY <1>1, FS_Subset DEF MovesOf, StockInv, GoodsBooks, MovesOK
  <2>2. DOMAIN f = S /\ \A r \in S : f[r] \in Nat
    BY <1>2, <2>1 DEF Quantities
  <2>3. InStock(movements, p, h) = SumFunction(f)
    BY DEF InStock, StockOf, Figures
  <2> HIDE DEF f, S
  <2>4. SumFunction(f) \in Nat
    BY <2>1, <2>2, TotalType
  <2> QED
    BY <2>3, <2>4
<1>4. warehouses = s.places
  BY DEF Stock!Init
<1>5. OneDefault(warehouses)
  BY <1>4 DEF OneDefault, DefaultsOf, Stock!InventoryAssumption
<1>6. \A w \in s.workers : SerialJob(s, pc[w], job[w], items, warehouses, movements, adjustments)
  BY <1>1 DEF SerialJob
<1> QED
  BY <1>1, <1>3, <1>5, <1>6 DEF SerialStock, NoneBelow

--------------------------------------------------------------------------------
(* Inventory: corrections and sales.  A correction that is being written   *)
(* will bring the stock to a counted figure less what was sold since, and  *)
(* no other of its product is: the row is locked.                          *)

CountScene(s) ==
  /\ s.movements = {} /\ s.transfers = {} /\ s.adjustments = {}
  /\ \A p \in DOMAIN s.items :
       s.items[p] # "absent" /\ \E o \in s.openings : o.product = p /\ o.qty > 0

FiguresOf(s, p) ==
  {o.qty : o \in {x \in s.openings : x.product = p}} \union
  {b.target : b \in {x \in s.counts : x.product = p}}
Fits(s, p, a, k)  == \E t \in FiguresOf(s, p) : t - k <= a /\ a <= t
StockOn(s, ms, p) == StockOf(ms, p, s.houses)

CountFits(s, l, x, ms) ==
  l = "counting" => Fits(s, x.product, StockOn(s, ms, x.product) + x.delta, SoldOf(ms, x.product))
ProductFits(s, p, ms) ==
  /\ SoldOf(ms, p) >= 0 /\ Fits(s, p, StockOn(s, ms, p), SoldOf(ms, p))
  /\ \E r \in DOMAIN ms : ms[r].product = p
OneCount(s, f, g) ==
  \A v, w \in s.workers :
    f[v] = "counting" /\ f[w] = "counting" /\ g[v].product = g[w].product => v = w

CountsInv(s) ==
  /\ StockInv(s) /\ DOMAIN adjustments = {}
  /\ \A p \in DOMAIN s.items : ProductFits(s, p, movements)
  /\ \A w \in s.workers : CountFits(s, pc[w], job[w], movements)
  /\ OneCount(s, pc, job)

LEMMA FigureInts ==
  ASSUME NEW s, Stock(s)!InventoryAssumption
  PROVE  \A p : \A t \in FiguresOf(s, p) : t \in Nat
BY DEF FiguresOf, Stock!InventoryAssumption

LEMMA CountsMean ==
  ASSUME NEW s, Stock(s)!InventoryAssumption, CountsInv(s)
  PROVE  Stock(s)!CountsDoNotAdd
<1>1. ASSUME NEW p \in DOMAIN s.items
      PROVE  \E t \in FiguresOf(s, p) : Stock(s)!OnHand(p) \in (t - Stock(s)!SoldByTills(p)) .. t
  <2>1. PICK a, k : a = StockOn(s, movements, p) /\ k = SoldOf(movements, p)
    OBVIOUS
  <2>2. a \in Int /\ k \in Int
    BY <2>1, FigureTypes DEF CountsInv, StockInv, GoodsBooks, StockOn
  <2>3. PICK t \in FiguresOf(s, p) : t - k <= a /\ a <= t
    BY <2>1 DEF CountsInv, ProductFits, Fits
  <2>4. t \in Nat
    BY FigureInts
  <2>5. a \in (t - k) .. t
    BY <2>2, <2>3, <2>4
  <2>6. Stock(s)!OnHand(p) = a /\ Stock(s)!SoldByTills(p) = k
    BY <2>1, StockSums DEF StockOn
  <2> QED
    BY <2>5, <2>6
<1> QED
  BY Zenon, <1>1 DEF Stock!CountsDoNotAdd, FiguresOf

LEMMA CountsStill ==
  ASSUME NEW s, CountsInv(s), StockInv(s)', movements' = movements, DOMAIN adjustments' = {},
         \/ UNCHANGED <<pc, job>>
         \/ \E w \in s.workers : \E l, x : l # "counting" /\ Stock(s)!Turn(w, l, x)
  PROVE  CountsInv(s)'
<1>1. CASE UNCHANGED <<pc, job>>
  <2>1. \A w \in s.workers : CountFits(s, pc'[w], job'[w], movements')
    BY <1>1 DEF CountsInv
  <2>2. \A p \in DOMAIN s.items : ProductFits(s, p, movements')
    BY DEF CountsInv
  <2>3. OneCount(s, pc', job')
    BY <1>1 DEF CountsInv
  <2> QED
    BY <2>1, <2>2, <2>3 DEF CountsInv
<1>2. ASSUME NEW w \in s.workers, NEW l, NEW x, l # "counting", Stock(s)!Turn(w, l, x)
      PROVE  CountsInv(s)'
  <2>1. /\ pc'[w] = l
        /\ \A v \in s.workers \ {w} : pc'[v] = pc[v] /\ job'[v] = job[v]
    BY <1>2 DEF Stock!Turn, CountsInv, StockInv
  <2>2. ASSUME NEW v \in s.workers PROVE CountFits(s, pc'[v], job'[v], movements')
    <3>1. CASE v = w
      BY <1>2, <2>1, <3>1 DEF CountFits
    <3>2. CASE v # w
      <4>1. CountFits(s, pc[v], job[v], movements)
        BY DEF CountsInv
      <4> QED
        BY <2>1, <3>2, <4>1
    <3> QED
      BY <3>1, <3>2
  <2>3. OneCount(s, pc', job')
    BY <1>2, <2>1 DEF CountsInv, OneCount
  <2>4. \A p \in DOMAIN s.items : ProductFits(s, p, movements')
    BY DEF CountsInv
  <2> QED
    BY <2>2, <2>3, <2>4 DEF CountsInv
<1> QED
  BY <1>1, <1>2

LEMMA CountsRead ==
  ASSUME NEW s, NEW w \in s.workers, NEW b \in s.counts, Stock(s)!InventoryAssumption,
         CountsInv(s), Stock(s)!CountRead(w, b)
  PROVE  CountsInv(s)'
<1>0. StockInv(s) /\ StockInv(s)'
  BY StockCounts DEF CountsInv
<1>1. b.product \in DOMAIN s.items /\ b.target \in Nat
  BY DEF Stock!InventoryAssumption, Stock!Named
<1>2. PICK d, x : /\ d = b.target - Stock(s)!OnHand(b.product)
                  /\ x = [product |-> b.product, warehouse |-> b.warehouse, cost |-> b.cost, delta |-> d]
  OBVIOUS
<1>3. /\ Stock(s)!Turn(w, "counting", x)
      /\ UNCHANGED <<items, warehouses, movements, adjustments>>
  BY <1>2 DEF Stock!CountRead, Stock!rowVars
<1>4. x.product = b.product /\ x.delta = d
  BY <1>2
<1>5. \A v \in s.workers : pc[v] = "counting" => job[v].product # b.product
  BY DEF Stock!CountRead, Stock!RowFree, Stock!Doing
<1>6. /\ pc'[w] = "counting" /\ job'[w] = x
      /\ \A v \in s.workers \ {w} : pc'[v] = pc[v] /\ job'[v] = job[v]
  BY <1>0, <1>3 DEF Stock!Turn, StockInv
<1>7. CountFits(s, "counting", x, movements)
  <2>1. PICK a, k, t : /\ a = StockOn(s, movements, b.product) /\ k = SoldOf(movements, b.product)
                       /\ t = b.target
    OBVIOUS
  <2>2. a \in Int /\ k \in Int /\ k >= 0 /\ t \in Nat
    BY <1>0, <1>1, <2>1, FigureTypes DEF StockInv, GoodsBooks, StockOn, CountsInv, ProductFits
  <2>3. d = t - a
    BY <1>2, <2>1, StockSums DEF StockOn
  <2>4. t \in FiguresOf(s, b.product)
    BY <2>1 DEF FiguresOf
  <2>5. t - k <= a + d /\ a + d <= t
    BY <2>2, <2>3
  <2>6. Fits(s, b.product, a + d, k)
    BY <2>4, <2>5 DEF Fits
  <2> QED
    BY <1>4, <2>1, <2>6 DEF CountFits
<1>8. ASSUME NEW v \in s.workers PROVE CountFits(s, pc'[v], job'[v], movements')
  <2>1. CASE v = w
    BY <1>3, <1>6, <1>7, <2>1
  <2>2. CASE v # w
    <3>1. CountFits(s, pc[v], job[v], movements)
      BY DEF CountsInv
    <3> QED
      BY <1>3, <1>6, <2>2, <3>1
  <2> QED
    BY <2>1, <2>2
<1>9. OneCount(s, pc', job')
  BY <1>4, <1>5, <1>6 DEF CountsInv, OneCount
<1>10. \A p \in DOMAIN s.items : ProductFits(s, p, movements')
  BY <1>3 DEF CountsInv
<1>11. DOMAIN adjustments' = {}
  BY <1>3 DEF CountsInv
<1> QED
  BY <1>0, <1>8, <1>9, <1>10, <1>11 DEF CountsInv

LEMMA CountsWritten ==
  ASSUME NEW s, NEW w \in s.workers, Stock(s)!InventoryAssumption, CountsInv(s),
         Stock(s)!CountCommit(w)
  PROVE  CountsInv(s)'
<1>0. StockInv(s) /\ StockInv(s)'
  BY StockMoves DEF CountsInv
<1>1. PICK b : b = job[w]
  OBVIOUS
<1>2. PICK m : m = MoveRow("ADJUSTMENT", b.product, b.warehouse, b.delta, b.cost, FALSE)
  OBVIOUS
<1>3. PICK n : n = NextTag(movements, "COUNT")
  OBVIOUS
<1>4. AddsMove(s, n, m) /\ b.product \in DOMAIN s.items /\ b.delta \in Int
  BY <1>0, <1>1, <1>2, <1>3, CountAdds
<1>5. n[1] # "POS" /\ m.product = b.product /\ Moved(m) = b.delta
  BY <1>2, <1>3 DEF NextTag, MoveRow, Moved
<1>6. /\ MovesOK(movements) /\ MoveAdded(movements, movements', n, m) /\ m.warehouse \in s.houses
  BY <1>0, <1>4 DEF AddsMove, StockInv, GoodsBooks
<1>7. /\ \A p, H : StockOf(movements', p, H) = StockOf(movements, p, H) +
              (IF m.product = p /\ m.warehouse \in H THEN Moved(m) ELSE 0)
      /\ \A p : SoldOf(movements', p) = SoldOf(movements, p) -
              (IF n[1] = "POS" /\ m.product = p THEN Moved(m) ELSE 0)
  BY <1>6, MoveAdds
<1>8. ASSUME NEW p
      PROVE  /\ SoldOf(movements', p) = SoldOf(movements, p)
             /\ StockOn(s, movements', p) =
                  IF p = b.product THEN StockOn(s, movements, p) + b.delta ELSE StockOn(s, movements, p)
  <2>1. PICK k, k1, a, a1 : /\ k = SoldOf(movements, p) /\ k1 = SoldOf(movements', p)
                            /\ a = StockOf(movements, p, s.houses) /\ a1 = StockOf(movements', p, s.houses)
    OBVIOUS
  <2>2. k \in Int /\ a \in Int
    BY <1>6, <2>1, FigureTypes
  <2>3. k1 = k - 0 /\ a1 = a + (IF p = b.product THEN b.delta ELSE 0)
    BY <1>5, <1>6, <1>7, <2>1
  <2>4. k1 = k /\ a1 = IF p = b.product THEN a + b.delta ELSE a
    BY <2>2, <2>3
  <2> QED
    BY <2>1, <2>4 DEF StockOn
<1>9. CountFits(s, "counting", b, movements)
  <2>1. pc[w] = "counting"
    BY DEF Stock!CountCommit, Stock!At
  <2> QED
    BY <1>1, <2>1 DEF CountsInv
<1>10. ASSUME NEW p \in DOMAIN s.items PROVE ProductFits(s, p, movements')
  <2>1. ProductFits(s, p, movements)
    BY DEF CountsInv
  <2>2. \E r \in DOMAIN movements' : movements'[r].product = p
    BY <1>6, <2>1 DEF ProductFits, MoveAdded
  <2>3. CASE p = b.product
    BY <1>8, <1>9, <2>1, <2>2, <2>3 DEF ProductFits, CountFits
  <2>4. CASE p # b.product
    BY <1>8, <2>1, <2>2, <2>4 DEF ProductFits
  <2> QED
    BY <2>3, <2>4
<1>11. /\ pc'[w] = "idle" /\ \A v \in s.workers \ {w} : pc'[v] = pc[v] /\ job'[v] = job[v]
       /\ adjustments' = adjustments
  BY <1>0 DEF Stock!CountCommit, Stock!Done, Stock!Turn, StockInv
<1>12. ASSUME NEW v \in s.workers PROVE CountFits(s, pc'[v], job'[v], movements')
  <2>1. CASE v = w \/ pc[v] # "counting"
    BY <1>11, <2>1 DEF CountFits
  <2>2. CASE v # w /\ pc[v] = "counting"
    <3>1. CountFits(s, pc[v], job[v], movements)
      BY DEF CountsInv
    <3>2. job[v].product # b.product
      BY <1>1, <2>2 DEF CountsInv, OneCount, Stock!CountCommit, Stock!At
    <3>3. CountFits(s, pc[v], job[v], movements')
      BY <1>8, <3>1, <3>2 DEF CountFits
    <3> QED
      BY <1>11, <2>2, <3>3
  <2> QED
    BY <2>1, <2>2
<1>13. OneCount(s, pc', job')
  BY <1>11 DEF CountsInv, OneCount
<1> QED
  BY <1>0, <1>10, <1>11, <1>12, <1>13 DEF CountsInv

LEMMA CountsSold ==
  ASSUME NEW s, NEW w \in s.workers, Stock(s)!InventoryAssumption, CountsInv(s),
         Stock(s)!TillCommit(w)
  PROVE  CountsInv(s)'
<1>0. StockInv(s) /\ StockInv(s)'
  BY StockSells DEF CountsInv
<1>1. PICK b : b = job[w]
  OBVIOUS
<1>2. PICK m : m = MoveRow("ISSUE", b.product, b.warehouse, b.qty, b.cost, FALSE)
  OBVIOUS
<1>3. PICK n : n = NextTag(movements, "POS")
  OBVIOUS
<1>4. AddsMove(s, n, m) /\ b \in s.sales
  BY <1>0, <1>1, <1>2, <1>3, TillAdds
<1>5. PICK q : q = b.qty
  OBVIOUS
<1>6. q \in Nat /\ n[1] = "POS" /\ m.product = b.product /\ Moved(m) = - q
  BY <1>2, <1>3, <1>4, <1>5 DEF NextTag, MoveRow, Moved, Stock!InventoryAssumption
<1>7. /\ MovesOK(movements) /\ MoveAdded(movements, movements', n, m) /\ m.warehouse \in s.houses
  BY <1>0, <1>4 DEF AddsMove, StockInv, GoodsBooks
<1>8. /\ \A p, H : StockOf(movements', p, H) = StockOf(movements, p, H) +
              (IF m.product = p /\ m.warehouse \in H THEN Moved(m) ELSE 0)
      /\ \A p : SoldOf(movements', p) = SoldOf(movements, p) -
              (IF n[1] = "POS" /\ m.product = p THEN Moved(m) ELSE 0)
  BY <1>7, MoveAdds
<1>9. ASSUME NEW p
      PROVE  \E e \in Nat : /\ SoldOf(movements', p) = SoldOf(movements, p) + e
                            /\ StockOn(s, movements', p) = StockOn(s, movements, p) - e
                            /\ SoldOf(movements, p) \in Int /\ StockOn(s, movements, p) \in Int
  <2>1. PICK k, k1, a, a1 : /\ k = SoldOf(movements, p) /\ k1 = SoldOf(movements', p)
                            /\ a = StockOf(movements, p, s.houses) /\ a1 = StockOf(movements', p, s.houses)
    OBVIOUS
  <2>2. k \in Int /\ a \in Int
    BY <1>7, <2>1, FigureTypes
  <2>3. PICK e : e = IF p = b.product THEN q ELSE 0
    OBVIOUS
  <2>4. e \in Nat
    BY <1>6, <2>3
  <2>5. k1 = k - (IF p = b.product THEN - q ELSE 0) /\ a1 = a + (IF p = b.product THEN - q ELSE 0)
    BY <1>6, <1>7, <1>8, <2>1
  <2>6. k1 = k + e /\ a1 = a - e
    BY <1>6, <2>2, <2>3, <2>5
  <2> QED
    BY <2>1, <2>2, <2>4, <2>6 DEF StockOn
<1>10. ASSUME NEW p, NEW d, d \in Int, Fits(s, p, StockOn(s, movements, p) + d, SoldOf(movements, p))
       PROVE  Fits(s, p, StockOn(s, movements', p) + d, SoldOf(movements', p))
  <2>1. PICK t \in FiguresOf(s, p) :
          t - SoldOf(movements, p) <= StockOn(s, movements, p) + d /\ StockOn(s, movements, p) + d <= t
    BY <1>10 DEF Fits
  <2>2. t \in Nat
    BY FigureInts
  <2>3. t - SoldOf(movements', p) <= StockOn(s, movements', p) + d /\ StockOn(s, movements', p) + d <= t
    <3>1. PICK e \in Nat : /\ SoldOf(movements', p) = SoldOf(movements, p) + e
                           /\ StockOn(s, movements', p) = StockOn(s, movements, p) - e
                           /\ SoldOf(movements, p) \in Int /\ StockOn(s, movements, p) \in Int
      BY <1>9
    <3>2. PICK k, k1, a, a1 : /\ k = SoldOf(movements, p) /\ k1 = SoldOf(movements', p)
                              /\ a = StockOn(s, movements, p) /\ a1 = StockOn(s, movements', p)
      OBVIOUS
    <3>3. /\ k \in Int /\ a \in Int /\ k1 = k + e /\ a1 = a - e
          /\ t - k <= a + d /\ a + d <= t
      BY <2>1, <3>1, <3>2
    <3>4. t - k1 <= a1 + d /\ a1 + d <= t
      BY <1>10, <2>2, <3>3
    <3> QED
      BY <3>2, <3>4
  <2> QED
    BY <2>3 DEF Fits
<1>11. ASSUME NEW p \in DOMAIN s.items PROVE ProductFits(s, p, movements')
  <2>1. ProductFits(s, p, movements)
    BY DEF CountsInv
  <2>2. \E r \in DOMAIN movements' : movements'[r].product = p
    BY <1>7, <2>1 DEF ProductFits, MoveAdded
  <2>3. SoldOf(movements', p) >= 0 /\ StockOn(s, movements, p) \in Int /\ StockOn(s, movements', p) \in Int
    BY <1>9, <2>1 DEF ProductFits
  <2>4. Fits(s, p, StockOn(s, movements', p), SoldOf(movements', p))
    <3>1. PICK a, a1, d : a = StockOn(s, movements, p) /\ a1 = StockOn(s, movements', p) /\ d = 0
      OBVIOUS
    <3>2. a + d = a /\ a1 + d = a1 /\ d \in Int
      BY <2>3, <3>1
    <3>3. Fits(s, p, StockOn(s, movements, p) + d, SoldOf(movements, p))
      BY <2>1, <3>1, <3>2 DEF ProductFits
    <3>4. Fits(s, p, StockOn(s, movements', p) + d, SoldOf(movements', p))
      BY <1>10, <3>2, <3>3
    <3> QED
      BY <3>1, <3>2, <3>4
  <2> QED
    BY <2>2, <2>3, <2>4 DEF ProductFits
<1>12. /\ pc'[w] = "idle" /\ \A v \in s.workers \ {w} : pc'[v] = pc[v] /\ job'[v] = job[v]
       /\ adjustments' = adjustments
  BY <1>0 DEF Stock!TillCommit, Stock!Done, Stock!Turn, StockInv
<1>13. ASSUME NEW v \in s.workers PROVE CountFits(s, pc'[v], job'[v], movements')
  <2>1. CASE v = w \/ pc[v] # "counting"
    BY <1>12, <2>1 DEF CountFits
  <2>2. CASE v # w /\ pc[v] = "counting"
    <3>1. CountFits(s, "counting", job[v], movements) /\ job[v].delta \in Int
      BY <1>0, <2>2 DEF CountsInv, StockInv, StockJob
    <3>2. CountFits(s, "counting", job[v], movements')
      BY <1>10, <3>1 DEF CountFits
    <3> QED
      BY <1>12, <2>2, <3>2
  <2> QED
    BY <2>1, <2>2
<1>14. OneCount(s, pc', job')
  BY <1>12 DEF CountsInv, OneCount
<1> QED
  BY <1>0, <1>11, <1>12, <1>13, <1>14 DEF CountsInv

LEMMA CountsKeep ==
  ASSUME NEW s, Stock(s)!InventoryAssumption, CountScene(s), CountsInv(s),
         Stock(s)!Next \/ Stock(s)!StockNext
  PROVE  CountsInv(s)'
<1> DEFINE quiet == /\ movements' = movements /\ DOMAIN adjustments' = {}
                    /\ \/ UNCHANGED <<pc, job>>
                       \/ \E w \in s.workers : \E l, x : l # "counting" /\ Stock(s)!Turn(w, l, x)
<1>0. StockInv(s) /\ StockInv(s)' /\ DOMAIN adjustments = {}
  BY StockKeeps DEF CountsInv
<1>1. ASSUME NEW w \in s.workers, Stock(s)!Catalogue(w)
      PROVE  quiet \/ Stock(s)!CountCommit(w) \/ \E b \in s.counts : Stock(s)!CountRead(w, b)
  BY <1>0, <1>1 DEF Stock!Catalogue, Stock!ArchiveRead, Stock!DeleteRead,
              Stock!ArchiveCommit, Stock!DeleteCommit, Stock!WarehouseRead, Stock!CloseRead,
              Stock!DefaultRead, Stock!WarehouseCreate, Stock!CloseCommit, Stock!DefaultCommit,
              Stock!rowVars, Stock!Done
<1>2. ASSUME NEW w \in s.workers, Stock(s)!Stock(w)
      PROVE  quiet \/ Stock(s)!TillCommit(w)
  <2>1. ~Stock(s)!MovementCommit(w) /\ ~Stock(s)!TransferCommit(w) /\ ~Stock(s)!DecideCommit(w)
    BY <1>0 DEF CountScene, StockInv, StockJob, Stock!MovementCommit, Stock!TransferCommit,
                Stock!DecideCommit, Stock!At
  <2>2. \/ \E b \in s.sales : Stock(s)!TillRead(w, b)
        \/ Stock(s)!TillCommit(w) \/ Stock(s)!Abort(w)
    BY <1>0, <1>2, <2>1 DEF CountScene, Stock!Stock
  <2> QED
    BY <1>0, <2>2 DEF Stock!TillRead, Stock!Abort, Stock!GiveUp, Stock!Done
<1>3. ASSUME Stock(s)!AtOnce PROVE quiet
  <2>1. \A o \in s.openings : ~Stock(s)!CreateProduct(o)
    <3>1. ASSUME NEW o \in s.openings PROVE items[o.product] # "absent"
      <4>1. o.product \in DOMAIN s.items
        BY DEF Stock!InventoryAssumption, Stock!Named
      <4>2. PICK r \in DOMAIN movements : movements[r].product = o.product
        BY <4>1 DEF CountsInv, ProductFits
      <4> QED
        BY <1>0, <4>2 DEF StockInv, StockRows, MovesAt
    <3> QED
      BY <3>1 DEF Stock!CreateProduct
  <2>2. \/ \E p \in DOMAIN s.items : Stock(s)!RestoreProduct(p)
        \/ \E h \in s.houses : Stock(s)!ReopenWarehouse(h)
    BY <1>3, <2>1 DEF CountScene, Stock!AtOnce
  <2> QED
    BY <1>0, <2>2 DEF Stock!RestoreProduct, Stock!ReopenWarehouse, Stock!requestVars
<1>4. CASE quiet
  BY <1>0, <1>4, CountsStill
<1> HIDE DEF quiet
<1>5. CASE \E w \in s.workers : Stock(s)!CountCommit(w) \/ Stock(s)!TillCommit(w)
  BY <1>5, CountsWritten, CountsSold
<1>6. CASE \E w \in s.workers : \E b \in s.counts : Stock(s)!CountRead(w, b)
  BY <1>6, CountsRead
<1>7. CASE Stock(s)!Next
  BY <1>1, <1>2, <1>3, <1>4, <1>5, <1>6, <1>7 DEF Stock!Next
<1>8. CASE Stock(s)!StockNext
  <2>1. \E w \in s.workers : Stock(s)!Stock(w)
    BY <1>8 DEF CountScene, Stock!StockNext
  <2> QED
    BY <1>2, <1>4, <1>5, <2>1
<1> QED
  BY <1>7, <1>8

LEMMA CountsStart ==
  ASSUME NEW s, Stock(s)!InventoryAssumption, CountScene(s), Stock(s)!Init
  PROVE  CountsInv(s)
<1>0. StockInv(s) /\ pc = [w \in s.workers |-> "idle"]
  BY StockStart
<1>1. DOMAIN adjustments = {}
  BY DEF Stock!Init
<1>2. ASSUME NEW p \in DOMAIN s.items
      PROVE  ProductFits(s, p, movements)
  <2>0. /\ DOMAIN movements = {OpeningTag(o) : o \in OldOpenings(s)}
        /\ \A r \in DOMAIN movements : \E o \in OldOpenings(s) :
             r = OpeningTag(o) /\ movements[r] = OpeningRow(o)
    BY StockOpens
  <2>1. PICK z \in s.openings : z.product = p /\ z.qty > 0
    BY DEF CountScene
  <2>2. z \in OldOpenings(s)
    BY <2>1 DEF CountScene, OldOpenings
  <2>3. PICK r : r = OpeningTag(z)
    OBVIOUS
  <2>4. r \in DOMAIN movements
    BY <2>0, <2>2, <2>3
  <2>5. PICK o \in OldOpenings(s) : r = OpeningTag(o) /\ movements[r] = OpeningRow(o)
    BY <2>0, <2>4
  <2>6. o.product = p /\ o.qty \in Nat /\ o \in s.openings /\ o.warehouse \in s.houses
    BY <2>1, <2>3, <2>5 DEF OpeningTag, OldOpenings, Stock!InventoryAssumption
  <2>7. movements[r].product = p /\ movements[r].warehouse = o.warehouse /\ Moved(movements[r]) = o.qty
    BY <2>5, <2>6 DEF OpeningRow, MoveRow, Moved
  <2>8. ASSUME NEW x \in DOMAIN movements, movements[x].product = p PROVE x = r
    <3>1. PICK y \in OldOpenings(s) : x = OpeningTag(y) /\ movements[x] = OpeningRow(y)
      BY <2>0
    <3>2. y.product = p
      BY <2>8, <3>1 DEF OpeningRow, MoveRow
    <3> QED
      BY <2>1, <2>3, <3>1, <3>2 DEF OpeningTag
  <2>9. SoldOf(movements, p) = 0
    <3>1. SalesOf(movements, p) = {}
      <4>1. r[1] = "OPEN"
        BY <2>3 DEF OpeningTag
      <4> QED
        BY <2>8, <4>1 DEF SalesOf
    <3> DEFINE f == [x \in SalesOf(movements, p) |-> Quantities(movements)[x]]
    <3>2. DOMAIN f = {} /\ SoldOf(movements, p) = - SumFunction(f)
      BY <3>1 DEF SoldOf, Figures
    <3> HIDE DEF f
    <3>3. SumFunction(f) = 0
      BY <3>2, TotalType, FS_EmptySet
    <3>4. PICK k \in Int : k = SumFunction(f)
      BY <3>3
    <3>5. PICK d \in Int : d = - k
      OBVIOUS
    <3>6. k >= 0 /\ k <= 0
      BY <3>3, <3>4
    <3>7. d = 0
      BY ONLY <3>5, <3>6
    <3> QED
      BY <3>2, <3>4, <3>5, <3>7
  <2>10. StockOn(s, movements, p) = o.qty
    <3> DEFINE S == MovesOf(movements, p, s.houses)
               f == [x \in S |-> Quantities(movements)[x]]
               e == [x \in {} |-> 0]
    <3>1. S = {r}
      BY <2>4, <2>6, <2>7, <2>8 DEF MovesOf
    <3>2. DOMAIN f = {r} /\ f[r] = o.qty
      BY <2>4, <2>7, <3>1 DEF Quantities
    <3>3. StockOn(s, movements, p) = SumFunction(f)
      BY DEF StockOn, StockOf, Figures
    <3>4. DOMAIN e = {} /\ IsFiniteSet(DOMAIN e)
      BY FS_EmptySet
    <3> HIDE DEF f, S, e
    <3>5. SumFunction(e) = 0
      BY <3>4, TotalType
    <3>6. SumFunction(f) = SumFunction(e) + f[r]
      <4>1. DOMAIN f = DOMAIN e \union {r} /\ r \notin DOMAIN e /\ f[r] \in Int
        BY <2>6, <3>2, <3>4
      <4>2. (\A y \in DOMAIN e : e[y] \in Int) /\ (\A y \in DOMAIN e : f[y] = e[y])
        BY <3>4
      <4> QED
        BY <3>4, <4>1, <4>2, TotalAdd
    <3> QED
      BY <2>6, <3>2, <3>3, <3>5, <3>6
  <2>11. Fits(s, p, StockOn(s, movements, p), SoldOf(movements, p))
    <3>1. PICK t : t = o.qty
      OBVIOUS
    <3>2. t \in FiguresOf(s, p) /\ t \in Nat
      BY <2>6, <3>1 DEF FiguresOf
    <3>3. t - 0 <= t /\ t <= t
      BY <3>2
    <3>4. Fits(s, p, t, 0)
      BY <3>2, <3>3 DEF Fits
    <3> QED
      BY <2>9, <2>10, <3>1, <3>4
  <2> QED
    BY <2>4, <2>7, <2>9, <2>11 DEF ProductFits
<1>3. /\ \A w \in s.workers : CountFits(s, pc[w], job[w], movements)
      /\ OneCount(s, pc, job)
  BY <1>0 DEF CountFits, OneCount
<1> QED
  BY <1>0, <1>1, <1>2, <1>3 DEF CountsInv

--------------------------------------------------------------------------------
(* The scenes.  A step of MCTrade is a step of the scene that is on.       *)

LEMMA SceneNames ==
  /\ DOMAIN StockScenes =
       {"stock_races", "stock_issues", "stock_counts", "catalogue", "stock_serial"}
  /\ DOMAIN BillScenes =
       {"receivables_races", "receivables_forward", "receivables_serial", "quotations",
        "quotations_serial"}
  BY DEF StockScenes, BillScenes

LEMMA OneAtATime == OneWorker(StockScenes["stock_serial"])
<1>1. StockScenes["stock_serial"].workers = One
  BY DEF StockScenes, Bare, Stocked
<1> QED
  BY <1>1, TradeAssumption DEF OneWorker

LEMMA OnlyCounts == CountScene(StockScenes["stock_counts"])
<1>1. PICK s : s = StockScenes["stock_counts"]
  OBVIOUS
<1>2. s.movements = {} /\ s.transfers = {} /\ s.adjustments = {}
  BY <1>1 DEF StockScenes, Stocked
<1>3. s.items = [p \in {rice} |-> "active"] /\ s.openings = {Amount(3)}
  BY <1>1 DEF StockScenes, Stocked
<1>4. \A p \in DOMAIN s.items : p = rice /\ s.items[p] = "active"
  BY <1>3
<1>5. Amount(3).product = rice /\ Amount(3).qty = 3
  BY DEF Amount
<1>6. CountScene(s)
  BY <1>2, <1>3, <1>4, <1>5 DEF CountScene
<1> QED
  BY <1>1, <1>6

(* The invariant of the scene that is on. *)
SceneStock(n) ==
  /\ StockInv(StockScenes[n])
  /\ n = "stock_serial" => SerialStock(StockScenes[n])
  /\ n = "stock_counts" => CountsInv(StockScenes[n])
StocksInv == \A n \in DOMAIN StockScenes : scene = n => SceneStock(n)

LEMMA StocksStart == Init => StocksInv
<1> SUFFICES ASSUME Init, NEW n \in DOMAIN StockScenes, scene = n
             PROVE  SceneStock(n)
  BY DEF StocksInv
<1>1. Stock(StockScenes[n])!Init /\ Stock(StockScenes[n])!InventoryAssumption
  BY SceneNames, TradeAssumption DEF Init
<1>2. PICK s : s = StockScenes[n]
  OBVIOUS
<1>3. StockInv(s) /\ SerialStock(s)
  BY ONLY <1>1, <1>2, StockStart, SerialStart
<1>4. CASE n = "stock_counts"
  <2>1. CountScene(s)
    BY <1>2, <1>4, OnlyCounts
  <2>2. CountsInv(s)
    BY ONLY <1>1, <1>2, <2>1, CountsStart
  <2> QED
    BY <1>2, <1>3, <2>2 DEF SceneStock
<1> QED
  BY <1>2, <1>3, <1>4 DEF SceneStock

LEMMA StillStock ==
  ASSUME NEW s, UNCHANGED <<stockVars, journals, requestVars>>
  PROVE  /\ StockInv(s) => StockInv(s)'
         /\ SerialStock(s) => SerialStock(s)'
         /\ CountsInv(s) => CountsInv(s)'
<1>1. UNCHANGED <<items, warehouses, movements, adjustments, tillLock, journals, pc, job>>
  BY DEF stockVars, requestVars
<1> QED
  BY <1>1 DEF StockInv, SerialStock, CountsInv

LEMMA StocksStep ==
  ASSUME StocksInv, [Next]_vars
  PROVE  /\ StocksInv'
         /\ \A n \in DOMAIN StockScenes : scene = n =>
              /\ Stock(StockScenes[n])!MovementsStand \/ UNCHANGED vars
              /\ n = "stock_serial" => Orderly(StockScenes[n]) \/ UNCHANGED vars
<1>1. ASSUME NEW n \in DOMAIN StockScenes, scene = n
      PROVE  /\ SceneStock(n)'
             /\ Stock(StockScenes[n])!MovementsStand \/ UNCHANGED vars
             /\ n = "stock_serial" => Orderly(StockScenes[n]) \/ UNCHANGED vars
  <2>1. SceneStock(n) /\ Stock(StockScenes[n])!InventoryAssumption
    BY <1>1, TradeAssumption DEF StocksInv
  <2>2. StockNext(StockScenes[n]) \/ UNCHANGED vars
    BY <1>1, SceneNames DEF Next
  <2>3. PICK s : s = StockScenes[n]
    OBVIOUS
  <2>4. CASE UNCHANGED vars
    <3>1. UNCHANGED <<stockVars, journals, requestVars>>
      BY <2>4 DEF vars
    <3>2. PICK m : m = n
      OBVIOUS
    <3> QED
      BY <2>1, <2>3, <2>4, <3>1, StillStock DEF SceneStock
  <2>5. CASE StockNext(StockScenes[n])
    <3>1. Stock(s)!InventoryAssumption /\ (Stock(s)!Next \/ Stock(s)!StockNext)
      BY <2>1, <2>3, <2>5 DEF StockNext
    <3>2. /\ StockInv(s) /\ (n = "stock_serial" => SerialStock(s))
          /\ n = "stock_counts" => CountsInv(s)
      BY <2>1, <2>3 DEF SceneStock
    <3>3. StockInv(s)' /\ Stock(s)!MovementsStand
      BY ONLY <3>1, <3>2, StockKeeps, StepMoves, MovesStand
    <3>4. CASE n = "stock_serial"
      <4>1. OneWorker(s)
        BY <2>3, <3>4, OneAtATime
      <4>2. SerialStock(s)' /\ Orderly(s)
        BY ONLY <3>1, <3>2, <3>4, <4>1, SerialKeeps
      <4> QED
        BY <2>3, <3>3, <3>4, <4>2 DEF SceneStock
    <3>5. CASE n = "stock_counts"
      <4>1. CountScene(s)
        BY <2>3, <3>5, OnlyCounts
      <4>2. CountsInv(s)'
        BY ONLY <3>1, <3>2, <3>5, <4>1, CountsKeep
      <4> QED
        BY <2>3, <3>3, <3>5, <4>2 DEF SceneStock
    <3> QED
      BY <2>3, <3>3, <3>4, <3>5 DEF SceneStock
  <2> QED
    BY <2>2, <2>4, <2>5
<1>2. scene' = scene
  BY DEF Next, vars
<1> QED
  BY <1>1, <1>2 DEF StocksInv

(* In every interleaving of receipts, issues, transfers, counts, approvals,*)
(* voids, deletions, archivals and sales of the tills, account 1300 is the *)
(* stock at cost, every movement and adjustment has its product, and once  *)
(* there is a warehouse there is a default one; one request at a time, no  *)
(* warehouse is below zero and one active warehouse is the default         *)
(* (OperationsService, PosService.complete).                               *)
THEOREM StockIsKept == Spec => []StockKept
<1>1. StocksInv /\ [Next]_vars => StocksInv'
  BY StocksStep
<1>2. StocksInv => StockKept
  <2> SUFFICES ASSUME StocksInv, NEW n \in DOMAIN StockScenes, scene = n
               PROVE  /\ Stock(StockScenes[n])!TypeOK
                      /\ Stock(StockScenes[n])!StockAccount
                      /\ Stock(StockScenes[n])!HistoryHasProduct
                      /\ Stock(StockScenes[n])!SomeDefault
                      /\ n = "stock_serial" =>
                           Stock(StockScenes[n])!NoOverdraw /\ Stock(StockScenes[n])!OneOpenDefault
    BY DEF StockKept
  <2>1. PICK s : s = StockScenes[n]
    OBVIOUS
  <2>2. StockInv(s) /\ (n = "stock_serial" => SerialStock(s))
    BY <2>1 DEF StocksInv, SceneStock
  <2> QED
    BY ONLY <2>1, <2>2, StockMeans, SerialMeans
<1> QED
  BY <1>1, <1>2, StocksStart, PTL DEF Spec

(* However corrections of counted products and sales of the tills          *)
(* interleave, two corrections of one product never add up: what is there  *)
(* is the opening or a counted quantity, less at most what the tills sold  *)
(* (updateProduct, complete).                                              *)
THEOREM CountsNeverAdd == Spec => []CountsDoNotAdd
<1>1. StocksInv /\ [Next]_vars => StocksInv'
  BY StocksStep
<1>2. StocksInv => CountsDoNotAdd
  <2> SUFFICES ASSUME StocksInv, NEW n \in {"stock_counts"}, scene = n
               PROVE  Stock(StockScenes[n])!CountsDoNotAdd
    BY DEF CountsDoNotAdd
  <2>1. PICK s : s = StockScenes[n]
    OBVIOUS
  <2>2. CountsInv(s) /\ Stock(s)!InventoryAssumption
    BY <2>1, SceneNames, TradeAssumption DEF StocksInv, SceneStock
  <2> QED
    BY ONLY <2>1, <2>2, CountsMean
<1> QED
  BY <1>1, <1>2, StocksStart, PTL DEF Spec

(* The same of any scene: of any requests, products, warehouses, amounts   *)
(* and bounds there may be; and no movement is ever replaced or removed.   *)
THEOREM StockInAnyScene ==
  ASSUME NEW s, Stock(s)!InventoryAssumption
  PROVE  Stock(s)!Spec =>
           /\ [](/\ Stock(s)!TypeOK /\ Stock(s)!StockAccount
                 /\ Stock(s)!HistoryHasProduct /\ Stock(s)!SomeDefault)
           /\ [][Stock(s)!MovementsStand]_movements
<1> DEFINE Inv == StockInv(s)
           Kept == /\ Stock(s)!TypeOK /\ Stock(s)!StockAccount
                   /\ Stock(s)!HistoryHasProduct /\ Stock(s)!SomeDefault
           Stand == Stock(s)!MovementsStand
<1>1. Stock(s)!Init => Inv
  BY StockStart
<1>2. Inv /\ [Stock(s)!Next]_(Stock(s)!vars) => Inv' /\ [Stand]_movements
  <2>1. ASSUME Inv, Stock(s)!Next PROVE Inv' /\ [Stand]_movements
    BY <2>1, StockKeeps, StepMoves, MovesStand
  <2>2. ASSUME Inv, UNCHANGED Stock(s)!vars PROVE Inv' /\ [Stand]_movements
    BY <2>2 DEF Stock!vars, Stock!rowVars, Stock!requestVars, StockInv
  <2> QED
    BY <2>1, <2>2
<1>3. Inv => Kept
  BY StockMeans
<1> HIDE DEF Inv, Kept, Stand
<1>4. Stock(s)!Spec => []Kept /\ [][Stand]_movements
  BY <1>1, <1>2, <1>3, PTL DEF Stock!Spec
<1> QED
  BY <1>4 DEF Kept, Stand

(* Of any scene that serves one request at a time: nothing is taken out    *)
(* that is not there, one active warehouse is the default, and goods reach *)
(* archived products and warehouses by drafted adjustments and counts only.*)
THEOREM StockOneAtATime ==
  ASSUME NEW s, Stock(s)!InventoryAssumption, OneWorker(s)
  PROVE  Stock(s)!Spec =>
           /\ [](Stock(s)!NoOverdraw /\ Stock(s)!OneOpenDefault)
           /\ [][Stock(s)!LateStock /\ Stock(s)!ArchivedEmpty]_(Stock(s)!vars)
<1> DEFINE Inv == SerialStock(s)
           Kept == Stock(s)!NoOverdraw /\ Stock(s)!OneOpenDefault
           Late == Stock(s)!LateStock /\ Stock(s)!ArchivedEmpty
<1>1. Stock(s)!Init => Inv
  BY SerialStart
<1>2. Inv /\ [Stock(s)!Next]_(Stock(s)!vars) => Inv' /\ [Late]_(Stock(s)!vars)
  <2>1. ASSUME Inv, Stock(s)!Next PROVE Inv' /\ Late
    BY <2>1, SerialKeeps DEF Orderly
  <2>2. ASSUME Inv, UNCHANGED Stock(s)!vars PROVE Inv'
    BY <2>2 DEF Stock!vars, Stock!rowVars, Stock!requestVars, SerialStock, StockInv
  <2> QED
    BY <2>1, <2>2
<1>3. Inv => Kept
  BY SerialMeans
<1> HIDE DEF Inv, Kept, Late
<1>4. Stock(s)!Spec => []Kept /\ [][Late]_(Stock(s)!vars)
  BY <1>1, <1>2, <1>3, PTL DEF Stock!Spec
<1> QED
  BY <1>4 DEF Kept, Late

--------------------------------------------------------------------------------
(* The operators that an instance has of its own are those of Sums. *)

LEMMA SalesSums ==
  ASSUME NEW s
  PROVE  /\ \A f, S : Sales(s)!SumFunctionOnSet(f, S) = SumFunctionOnSet(f, S)
         /\ \A f : Sales(s)!SumFunction(f) = SumFunction(f)
<1>1. ASSUME NEW f, NEW S PROVE Sales(s)!SumFunctionOnSet(f, S) = SumFunctionOnSet(f, S)
  BY Zenon DEF Sales!SumFunctionOnSet, Sales!FoldFunctionOnSet, Sales!MapThenFoldSet,
               SumFunctionOnSet, FoldFunctionOnSet, MapThenFoldSet
<1> QED
  BY Zenon, <1>1 DEF Sales!SumFunction, SumFunction

LEMMA SalesBooks ==
  ASSUME NEW s, NEW js
  PROVE  /\ \A a : Sales(s)!Balance(js, a) = Balance(js, a)
         /\ \A n, l : Sales(s)!Posted(js, n, l) = Posted(js, n, l)
         /\ \A n, r : Sales(s)!Reversed(js, n, r) = Reversed(js, n, r)
         /\ \A n, j : Sales(s)!Entered(js, n, j) = Entered(js, n, j)
         /\ \A d, c, v : Sales(s)!Pair(d, c, v) = Pair(d, c, v)
<1>1. ASSUME NEW a PROVE Sales(s)!Balance(js, a) = Balance(js, a)
  BY Zenon, SalesSums DEF Sales!Balance, Sales!BalanceOver, Sales!Movement,
                          Balance, BalanceOver, Movement
<1>2. ASSUME NEW n, NEW l PROVE Sales(s)!Posted(js, n, l) = Posted(js, n, l)
  BY Zenon DEF Sales!Posted, Sales!Entered, Sales!Normalized, Posted, Entered, Normalized
<1>3. ASSUME NEW n, NEW r PROVE Sales(s)!Reversed(js, n, r) = Reversed(js, n, r)
  BY Zenon DEF Sales!Reversed, Sales!Reversible, Sales!Entered, Sales!Mirrored, Sales!Line,
               Reversed, Reversible, Entered, Mirrored, Line
<1>4. ASSUME NEW n, NEW j PROVE Sales(s)!Entered(js, n, j) = Entered(js, n, j)
  BY Zenon DEF Sales!Entered, Entered
<1>5. ASSUME NEW d, NEW c, NEW v PROVE Sales(s)!Pair(d, c, v) = Pair(d, c, v)
  BY Zenon DEF Sales!Pair, Sales!Line, Pair, Line
<1> QED
  BY <1>1, <1>2, <1>3, <1>4, <1>5

--------------------------------------------------------------------------------
(* Receivables: the books against the rows, of any invoices, payments,     *)
(* credit notes and journals.                                              *)

BillNumber(n)    == <<"INVOICE", n>>
ReceiptNumber(p) == <<"RECEIPT", p>>
RefundNumber(p)  == <<"REV-RECEIPT", p>>
CreditNumber(k)  == <<"CREDIT", k>>
UndoneNumber(k)  == <<"REV-CREDIT", k>>

LEMMA BillNumbers ==
  /\ \A m, n : /\ BillNumber(m) = BillNumber(n) <=> m = n
               /\ ReceiptNumber(m) = ReceiptNumber(n) <=> m = n
               /\ RefundNumber(m) = RefundNumber(n) <=> m = n
               /\ CreditNumber(m) = CreditNumber(n) <=> m = n
               /\ UndoneNumber(m) = UndoneNumber(n) <=> m = n
               /\ BillNumber(m) \notin {ReceiptNumber(n), RefundNumber(n), CreditNumber(n), UndoneNumber(n)}
               /\ ReceiptNumber(m) \notin {RefundNumber(n), CreditNumber(n), UndoneNumber(n)}
               /\ RefundNumber(m) \notin {CreditNumber(n), UndoneNumber(n)}
               /\ CreditNumber(m) # UndoneNumber(n)
  /\ \A n : /\ ReceiptNumber(n)[1] = "RECEIPT" /\ ReceiptNumber(n)[2] = n
            /\ BillNumber(n)[1] # "RECEIPT" /\ RefundNumber(n)[1] # "RECEIPT"
            /\ CreditNumber(n)[1] # "RECEIPT" /\ UndoneNumber(n)[1] # "RECEIPT"
BY DEF BillNumber, ReceiptNumber, RefundNumber, CreditNumber, UndoneNumber

BilledRows(is, js) == {n \in DOMAIN is : BillNumber(n) \in DOMAIN js}
Standing(ks)       == {k \in DOMAIN ks : ~ks[k].void}
BilledOf(is, js)   == SumFunction([n \in BilledRows(is, js) |-> is[n].total])
PaidOf(ps)         == RowSum(ps, DOMAIN ps)
CreditedOf(ks)     == RowSum(ks, Standing(ks))
ReceiptsIn(js)     == {n \in DOMAIN js : n[1] = "RECEIPT"}

TotalsOK(is)  == IsFiniteSet(DOMAIN is) /\ \A n \in DOMAIN is : is[n].total \in Nat
PaymentsOK(ps) == IsFiniteSet(DOMAIN ps) /\ \A p \in DOMAIN ps : ps[p].amount \in Nat \ {0}
NotesOK(ks) ==
  IsFiniteSet(DOMAIN ks) /\ \A k \in DOMAIN ks : ks[k].amount \in Nat \ {0} /\ ks[k].void \in BOOLEAN

(* Journals of invoices, payments and credit notes are where their rows    *)
(* are; what is taken back has its reversal.                               *)
BillJournals(is, js) == \A n : BillNumber(n) \in DOMAIN js => n \in DOMAIN is
PaymentJournals(ps, js) ==
  /\ ReceiptsIn(js) = {ReceiptNumber(p) : p \in 1 .. Cardinality(ReceiptsIn(js))}
  /\ \A p : RefundNumber(p) \in DOMAIN js => ReceiptNumber(p) \in DOMAIN js
  /\ \A p \in DOMAIN ps :
       /\ ReceiptNumber(p) \in DOMAIN js /\ RefundNumber(p) \notin DOMAIN js
       /\ js[ReceiptNumber(p)] = PairJournal("1000", "1100", ps[p].amount)
NoteJournals(ks, js) ==
  /\ \A k : CreditNumber(k) \in DOMAIN js \/ UndoneNumber(k) \in DOMAIN js => k \in DOMAIN ks
  /\ \A k \in DOMAIN ks :
       /\ CreditNumber(k) \in DOMAIN js
       /\ ks[k].void => js[CreditNumber(k)].status = "REVERSED"
       /\ ~ks[k].void =>
            /\ UndoneNumber(k) \notin DOMAIN js
            /\ js[CreditNumber(k)] = PairJournal("4000", "1100", ks[k].amount)

BillLedger(is, ps, ks, js) ==
  Balance(js, "1100") = BilledOf(is, js) - PaidOf(ps) - CreditedOf(ks)

BillBooks(is, ps, ks, js) ==
  /\ BooksFine(js) /\ TotalsOK(is) /\ PaymentsOK(ps) /\ NotesOK(ks)
  /\ BillJournals(is, js) /\ PaymentJournals(ps, js) /\ NoteJournals(ks, js)
  /\ BillLedger(is, ps, ks, js)

LEMMA BillSums ==
  ASSUME NEW is, NEW ps, NEW ks, NEW js, TotalsOK(is), PaymentsOK(ps), NotesOK(ks)
  PROVE  /\ BilledOf(is, js) \in Int /\ PaidOf(ps) \in Int /\ CreditedOf(ks) \in Int
         /\ IsFiniteSet(BilledRows(is, js)) /\ IsFiniteSet(Standing(ks))
<1>1. IsFiniteSet(BilledRows(is, js)) /\ IsFiniteSet(Standing(ks))
  BY FS_Subset DEF BilledRows, Standing, TotalsOK, NotesOK
<1>2. BilledOf(is, js) \in Int
  <2> DEFINE f == [n \in BilledRows(is, js) |-> is[n].total]
  <2>1. \A n \in DOMAIN f : f[n] \in Int
    BY DEF TotalsOK, BilledRows
  <2> QED
    BY <1>1, <2>1, TotalType DEF BilledOf
<1>3. PaidOf(ps) \in Int
  <2>1. \A p \in DOMAIN ps : ps[p].amount \in Int
    BY DEF PaymentsOK
  <2> QED
    BY <2>1, RowsType DEF PaidOf, PaymentsOK
<1>4. CreditedOf(ks) \in Int
  <2>1. \A k \in Standing(ks) : ks[k].amount \in Int
    BY DEF NotesOK, Standing
  <2> QED
    BY <1>1, <2>1, RowsType DEF CreditedOf
<1> QED
  BY <1>1, <1>2, <1>3, <1>4

(* A new journal that is none of a payment or a note leaves theirs alone.   *)
LEMMA OtherJournals ==
  ASSUME NEW ps, NEW ks, NEW js, PaymentJournals(ps, js), NoteJournals(ks, js),
         NEW m, NEW k, Adds(k, js, m), \A n \in DOMAIN js : k[n] = js[n],
         m[1] # "RECEIPT",
         \A n : m \notin {ReceiptNumber(n), RefundNumber(n), CreditNumber(n), UndoneNumber(n)}
  PROVE  PaymentJournals(ps, k) /\ NoteJournals(ks, k) /\ ReceiptsIn(k) = ReceiptsIn(js)
<1>0. DOMAIN k = DOMAIN js \union {m}
  BY DEF Adds
<1>1. ReceiptsIn(k) = ReceiptsIn(js)
  BY <1>0 DEF ReceiptsIn
<1>2. PaymentJournals(ps, k)
  BY <1>0, <1>1 DEF PaymentJournals
<1>3. NoteJournals(ks, k)
  BY <1>0 DEF NoteJournals
<1> QED
  BY <1>1, <1>2, <1>3

(* An invoice is posted, once. *)
LEMMA BillPosted ==
  ASSUME NEW is, NEW ps, NEW ks, NEW js, BillBooks(is, ps, ks, js), NEW n \in DOMAIN is,
         NEW k, k = Posted(js, BillNumber(n), Pair("1100", "4000", is[n].total))
  PROVE  /\ BillBooks(is, ps, ks, k)
         /\ DOMAIN js \subseteq DOMAIN k /\ BillNumber(n) \in DOMAIN k
         /\ ReceiptsIn(k) = ReceiptsIn(js)
<1>0. /\ BooksFine(js) /\ TotalsOK(is) /\ PaymentsOK(ps) /\ NotesOK(ks)
      /\ BillJournals(is, js) /\ PaymentJournals(ps, js) /\ NoteJournals(ks, js)
      /\ BillLedger(is, ps, ks, js)
  BY DEF BillBooks
<1>1. is[n].total \in Int /\ "1100" # "4000"
  BY <1>0 DEF TotalsOK
<1>2. /\ BooksFine(k)
      /\ BillNumber(n) \in DOMAIN js => k = js
      /\ BillNumber(n) \notin DOMAIN js =>
           /\ Adds(k, js, BillNumber(n))
           /\ \A m \in DOMAIN js : k[m] = js[m]
           /\ \A a : Balance(k, a) = Balance(js, a) + PairMove("1100", "4000", is[n].total, a)
  BY <1>0, <1>1, PostedPair
<1>3. CASE BillNumber(n) \in DOMAIN js
  BY <1>2, <1>3
<1>4. CASE BillNumber(n) \notin DOMAIN js
  <2>0. DOMAIN k = DOMAIN js \union {BillNumber(n)} /\ Adds(k, js, BillNumber(n))
    BY <1>2, <1>4 DEF Adds
  <2>1. PaymentJournals(ps, k) /\ NoteJournals(ks, k) /\ ReceiptsIn(k) = ReceiptsIn(js)
    <3>1. /\ BillNumber(n)[1] # "RECEIPT"
          /\ \A m : BillNumber(n) \notin
                      {ReceiptNumber(m), RefundNumber(m), CreditNumber(m), UndoneNumber(m)}
      BY BillNumbers
    <3> QED
      BY <1>0, <1>2, <1>4, <2>0, <3>1, OtherJournals
  <2>2. BillJournals(is, k)
    BY <1>0, <2>0, BillNumbers DEF BillJournals
  <2>3. BilledOf(is, k) = BilledOf(is, js) + is[n].total
    <3> DEFINE f == [m \in BilledRows(is, js) |-> is[m].total]
               g == [m \in BilledRows(is, k) |-> is[m].total]
    <3>1. BilledRows(is, k) = BilledRows(is, js) \union {n} /\ n \notin BilledRows(is, js)
      BY <1>4, <2>0, BillNumbers DEF BilledRows
    <3>2. IsFiniteSet(BilledRows(is, js))
      BY <1>0, BillSums
    <3>3. \A m \in BilledRows(is, js) : f[m] \in Int /\ g[m] = f[m]
      BY <1>0, <3>1 DEF TotalsOK, BilledRows
    <3>4. g[n] = is[n].total
      BY <3>1
    <3>5. DOMAIN f = BilledRows(is, js) /\ DOMAIN g = DOMAIN f \union {n}
      BY <3>1
    <3>7. BilledOf(is, js) = SumFunction(f) /\ BilledOf(is, k) = SumFunction(g)
      BY DEF BilledOf
    <3> HIDE DEF f, g
    <3>6. SumFunction(g) = SumFunction(f) + g[n]
      BY <1>1, <3>1, <3>2, <3>3, <3>4, <3>5, TotalAdd
    <3> QED
      BY <3>4, <3>6, <3>7
  <2>4. Balance(k, "1100") = Balance(js, "1100") + is[n].total
    BY <1>2, <1>4 DEF PairMove
  <2>5. BillLedger(is, ps, ks, k)
    <3>1. BilledOf(is, js) \in Int /\ PaidOf(ps) \in Int /\ CreditedOf(ks) \in Int
      BY <1>0, BillSums
    <3>2. Balance(js, "1100") = BilledOf(is, js) - PaidOf(ps) - CreditedOf(ks)
      BY <1>0 DEF BillLedger
    <3> QED
      BY <1>1, <2>3, <2>4, <3>1, <3>2 DEF BillLedger
  <2>6. BillBooks(is, ps, ks, k)
    BY <1>0, <1>2, <2>1, <2>2, <2>5 DEF BillBooks
  <2>7. DOMAIN js \subseteq DOMAIN k /\ BillNumber(n) \in DOMAIN k
    BY <2>0
  <2> QED
    BY ONLY <2>1, <2>6, <2>7
<1> QED
  BY <1>3, <1>4

(* The amounts on an invoice and its status are not in the books; a new    *)
(* invoice is not yet either.                                              *)
LEMMA BillsChanged ==
  ASSUME NEW is, NEW ps, NEW ks, NEW js, BillBooks(is, ps, ks, js),
         NEW new, IsFiniteSet(DOMAIN new), DOMAIN is \subseteq DOMAIN new,
         \A n \in DOMAIN is : new[n].total = is[n].total,
         \A n \in DOMAIN new : new[n].total \in Nat
  PROVE  BillBooks(new, ps, ks, js)
<1>1. /\ BillJournals(is, js) /\ BillLedger(is, ps, ks, js) /\ TotalsOK(is)
  BY DEF BillBooks
<1>2. BilledRows(new, js) = BilledRows(is, js)
  BY <1>1 DEF BilledRows, BillJournals
<1>3. BilledOf(new, js) = BilledOf(is, js)
  <2> DEFINE f == [m \in BilledRows(is, js) |-> is[m].total]
             g == [m \in BilledRows(is, js) |-> new[m].total]
  <2>1. f = g
    BY DEF BilledRows
  <2>2. BilledOf(new, js) = SumFunction(g)
    BY <1>2 DEF BilledOf
  <2> QED
    BY <2>1, <2>2 DEF BilledOf
<1>4. BillLedger(new, ps, ks, js)
  BY <1>1, <1>3 DEF BillLedger
<1>5. BillJournals(new, js) /\ TotalsOK(new)
  BY <1>1 DEF BillJournals, TotalsOK
<1> QED
  BY <1>4, <1>5 DEF BillBooks

(* What of the books does not change when other journals are entered.      *)
LEMMA NotesStay ==
  ASSUME NEW ks, NEW js, NEW k, NoteJournals(ks, js),
         \A x : /\ CreditNumber(x) \in DOMAIN k <=> CreditNumber(x) \in DOMAIN js
                /\ UndoneNumber(x) \in DOMAIN k <=> UndoneNumber(x) \in DOMAIN js,
         \A x : CreditNumber(x) \in DOMAIN js => k[CreditNumber(x)] = js[CreditNumber(x)]
  PROVE  NoteJournals(ks, k)
<1>1. \A x : CreditNumber(x) \in DOMAIN k \/ UndoneNumber(x) \in DOMAIN k => x \in DOMAIN ks
  BY DEF NoteJournals
<1>2. ASSUME NEW x \in DOMAIN ks
      PROVE  /\ CreditNumber(x) \in DOMAIN k
             /\ ks[x].void => k[CreditNumber(x)].status = "REVERSED"
             /\ ~ks[x].void =>
                  /\ UndoneNumber(x) \notin DOMAIN k
                  /\ k[CreditNumber(x)] = PairJournal("4000", "1100", ks[x].amount)
  <2>1. /\ CreditNumber(x) \in DOMAIN js
        /\ ks[x].void => js[CreditNumber(x)].status = "REVERSED"
        /\ ~ks[x].void =>
             /\ UndoneNumber(x) \notin DOMAIN js
             /\ js[CreditNumber(x)] = PairJournal("4000", "1100", ks[x].amount)
    BY DEF NoteJournals
  <2>2. k[CreditNumber(x)] = js[CreditNumber(x)]
    BY <2>1
  <2> QED
    BY <2>1, <2>2
<1> QED
  BY <1>1, <1>2 DEF NoteJournals

LEMMA BillsStay ==
  ASSUME NEW is, NEW js, NEW k, BillJournals(is, js),
         \A x : BillNumber(x) \in DOMAIN k <=> BillNumber(x) \in DOMAIN js
  PROVE  BillJournals(is, k) /\ BilledOf(is, k) = BilledOf(is, js)
<1>1. BilledRows(is, k) = BilledRows(is, js)
  BY DEF BilledRows
<1> QED
  BY <1>1 DEF BillJournals, BilledOf

(* A payment is received: a new row, and the journal of its number.        *)
LEMMA PaidIn ==
  ASSUME NEW is, NEW ps, NEW ks, NEW js, NEW k, NEW id, NEW row, NEW new,
         BillBooks(is, ps, ks, js), id = Cardinality(ReceiptsIn(js)) + 1,
         row.amount \in Nat \ {0}, new = Entered(ps, id, row),
         k = Posted(js, ReceiptNumber(id), Pair("1000", "1100", row.amount))
  PROVE  /\ BillBooks(is, new, ks, k)
         /\ DOMAIN js \subseteq DOMAIN k /\ Adds(new, ps, id) /\ ReceiptNumber(id) \in DOMAIN k
         /\ ReceiptNumber(id) \notin DOMAIN js
<1>0. /\ BooksFine(js) /\ TotalsOK(is) /\ PaymentsOK(ps) /\ NotesOK(ks)
      /\ BillJournals(is, js) /\ PaymentJournals(ps, js) /\ NoteJournals(ks, js)
      /\ BillLedger(is, ps, ks, js)
  BY DEF BillBooks
<1> DEFINE c == Cardinality(ReceiptsIn(js))
           m == ReceiptNumber(id)
<1>1. IsFiniteSet(ReceiptsIn(js)) /\ c \in Nat
  BY <1>0, FS_Subset, FS_CardinalityType DEF BooksFine, ReceiptsIn
<1>2. m \notin DOMAIN js /\ m \notin ReceiptsIn(js)
  <2>1. m \notin ReceiptsIn(js)
    <3>1. \A p \in 1 .. c : p # id
      BY <1>1
    <3>2. ReceiptsIn(js) = {ReceiptNumber(p) : p \in 1 .. c}
      BY <1>0 DEF PaymentJournals
    <3> QED
      BY <3>1, <3>2, BillNumbers
  <2> QED
    BY <2>1, BillNumbers DEF ReceiptsIn
<1>3. id \notin DOMAIN ps /\ RefundNumber(id) \notin DOMAIN js
  BY <1>0, <1>2 DEF PaymentJournals
<1>4. /\ BooksFine(k) /\ Adds(k, js, m)
      /\ k[m] = PairJournal("1000", "1100", row.amount)
      /\ \A i \in DOMAIN js : k[i] = js[i]
      /\ \A a : Balance(k, a) = Balance(js, a) + PairMove("1000", "1100", row.amount, a)
  <2>1. row.amount \in Int /\ "1000" # "1100"
    OBVIOUS
  <2> QED
    BY <1>0, <1>2, <2>1, PostedPair
<1>5. DOMAIN k = DOMAIN js \union {m}
  BY <1>4 DEF Adds
<1>6. DOMAIN new = DOMAIN ps \union {id} /\ new[id] = row /\ \A p \in DOMAIN ps : new[p] = ps[p]
  BY <1>3 DEF Entered
<1> HIDE DEF c, m
<1>7. ReceiptsIn(k) = ReceiptsIn(js) \union {m}
  <2>1. m[1] = "RECEIPT"
    BY BillNumbers DEF m
  <2> QED
    BY <1>5, <2>1 DEF ReceiptsIn
<1>8. Cardinality(ReceiptsIn(k)) = c + 1
  BY <1>1, <1>2, <1>7, FS_AddElement DEF c
<1>9. PaymentJournals(new, k)
  <2>1. ReceiptsIn(k) = {ReceiptNumber(p) : p \in 1 .. Cardinality(ReceiptsIn(k))}
    <3>1. 1 .. (c + 1) = 1 .. c \union {c + 1}
      BY <1>1
    <3>2. ReceiptsIn(js) = {ReceiptNumber(p) : p \in 1 .. c}
      BY <1>0 DEF PaymentJournals, c
    <3>3. m = ReceiptNumber(c + 1)
      BY DEF m, c
    <3>4. ReceiptsIn(k) = {ReceiptNumber(p) : p \in 1 .. (c + 1)}
      BY Zenon, <1>7, <3>1, <3>2, <3>3
    <3> QED
      BY <1>8, <3>4
  <2>2. ASSUME NEW p, RefundNumber(p) \in DOMAIN k PROVE ReceiptNumber(p) \in DOMAIN k
    <3>1. RefundNumber(p) \in DOMAIN js
      BY <1>5, <2>2, BillNumbers DEF m
    <3> QED
      BY <1>0, <1>5, <3>1 DEF PaymentJournals
  <2>3. ASSUME NEW p \in DOMAIN new
        PROVE  /\ ReceiptNumber(p) \in DOMAIN k /\ RefundNumber(p) \notin DOMAIN k
               /\ k[ReceiptNumber(p)] = PairJournal("1000", "1100", new[p].amount)
    <3>1. RefundNumber(p) # m
      BY BillNumbers DEF m
    <3>2. CASE p = id
      BY <1>3, <1>4, <1>5, <1>6, <3>1, <3>2 DEF m
    <3>3. CASE p # id
      <4>1. p \in DOMAIN ps /\ new[p] = ps[p]
        BY <1>6, <3>3
      <4>2. /\ ReceiptNumber(p) \in DOMAIN js /\ RefundNumber(p) \notin DOMAIN js
            /\ js[ReceiptNumber(p)] = PairJournal("1000", "1100", ps[p].amount)
        BY <1>0, <4>1 DEF PaymentJournals
      <4> QED
        BY <1>4, <1>5, <3>1, <4>1, <4>2
    <3> QED
      BY <3>2, <3>3
  <2> QED
    BY <2>1, <2>2, <2>3 DEF PaymentJournals
<1>10. NoteJournals(ks, k)
  <2>1. \A x : m # CreditNumber(x) /\ m # UndoneNumber(x)
    BY BillNumbers DEF m
  <2> QED
    BY <1>0, <1>4, <1>5, <2>1, NotesStay
<1>11. BillJournals(is, k) /\ BilledOf(is, k) = BilledOf(is, js)
  <2>1. \A x : m # BillNumber(x)
    BY BillNumbers DEF m
  <2> QED
    BY <1>0, <1>5, <2>1, BillsStay
<1>12. PaymentsOK(new)
  BY <1>0, <1>6, FS_AddElement DEF PaymentsOK
<1>13. PaidOf(new) = PaidOf(ps) + row.amount
  <2>1. OneMore(DOMAIN new, DOMAIN ps, id)
    BY <1>3, <1>6 DEF OneMore
  <2>2. SameRows(ps, new, DOMAIN ps) /\ IsFiniteSet(DOMAIN ps)
    BY <1>0, <1>6 DEF PaymentsOK, SameRows
  <2>3. RowIs(new, id, row.amount)
    BY <1>6 DEF RowIs
  <2> QED
    BY <2>1, <2>2, <2>3, RowsAdd DEF PaidOf
<1>14. Balance(k, "1100") = Balance(js, "1100") - row.amount
  BY <1>0, <1>4, BalanceType DEF PairMove
<1>15. BillLedger(is, new, ks, k)
  <2>1. BilledOf(is, js) \in Int /\ PaidOf(ps) \in Int /\ CreditedOf(ks) \in Int
    BY <1>0, BillSums
  <2>2. Balance(js, "1100") = BilledOf(is, js) - PaidOf(ps) - CreditedOf(ks)
    BY <1>0 DEF BillLedger
  <2> QED
    BY <1>11, <1>13, <1>14, <2>1, <2>2 DEF BillLedger
<1>16. BillBooks(is, new, ks, k)
  BY <1>0, <1>4, <1>9, <1>10, <1>11, <1>12, <1>15 DEF BillBooks
<1>17. DOMAIN js \subseteq DOMAIN k /\ Adds(new, ps, id) /\ ReceiptNumber(id) \in DOMAIN k
  BY <1>3, <1>5, <1>6 DEF Adds, m
<1> QED
  BY ONLY <1>2, <1>16, <1>17 DEF m

(* A payment is taken back: its row goes, its journal is reversed.         *)
Without(ps, p) == [q \in DOMAIN ps \ {p} |-> ps[q]]

LEMMA PaidBack ==
  ASSUME NEW is, NEW ps, NEW ks, NEW js, NEW k, NEW p, NEW new,
         BillBooks(is, ps, ks, js), p \in DOMAIN ps,
         new = Without(ps, p), k = Reversed(js, ReceiptNumber(p), RefundNumber(p))
  PROVE  /\ BillBooks(is, new, ks, k)
         /\ DOMAIN js \subseteq DOMAIN k /\ OneMore(DOMAIN ps, DOMAIN new, p)
         /\ \A q \in DOMAIN new : new[q] = ps[q]
<1>0. /\ BooksFine(js) /\ TotalsOK(is) /\ PaymentsOK(ps) /\ NotesOK(ks)
      /\ BillJournals(is, js) /\ PaymentJournals(ps, js) /\ NoteJournals(ks, js)
      /\ BillLedger(is, ps, ks, js)
  BY DEF BillBooks
<1> DEFINE m == ReceiptNumber(p)
           r == RefundNumber(p)
           v == ps[p].amount
<1>1. /\ m \in DOMAIN js /\ r \notin DOMAIN js
      /\ js[m] = PairJournal("1000", "1100", v)
  BY <1>0 DEF PaymentJournals
<1>2. v \in Nat
  BY <1>0 DEF PaymentsOK
<1>3. Reversible(js, m, r) /\ LinesAre(js, m, "1000", "1100", v)
  BY <1>1 DEF PairJournal, Reversible, LinesAre
<1> HIDE DEF m, r, v
<1>4. /\ BooksFine(k) /\ Adds(k, js, r)
      /\ \A i \in DOMAIN js : i # m => k[i] = js[i]
      /\ \A a : Balance(k, a) = Balance(js, a) - PairMove("1000", "1100", v, a)
  <2>1. v \in Int /\ "1000" # "1100" /\ k = Reversed(js, m, r)
    BY <1>2 DEF m, r
  <2> QED
    BY ONLY <1>0, <1>3, <2>1, ReversedPair
<1>5. DOMAIN k = DOMAIN js \union {r}
  BY <1>4 DEF Adds
<1>6. /\ p \notin DOMAIN new /\ DOMAIN ps = DOMAIN new \union {p}
      /\ \A q \in DOMAIN new : new[q] = ps[q]
  BY DEF Without
<1>7. ReceiptsIn(k) = ReceiptsIn(js)
  <2>1. r[1] # "RECEIPT"
    BY BillNumbers DEF r
  <2> QED
    BY <1>5, <2>1 DEF ReceiptsIn
<1>8. PaymentJournals(new, k)
  <2>1. ReceiptsIn(k) = {ReceiptNumber(q) : q \in 1 .. Cardinality(ReceiptsIn(k))}
    BY <1>0, <1>7 DEF PaymentJournals
  <2>2. ASSUME NEW q, RefundNumber(q) \in DOMAIN k PROVE ReceiptNumber(q) \in DOMAIN k
    <3>1. q = p \/ RefundNumber(q) \in DOMAIN js
      BY <1>5, <2>2, BillNumbers DEF r
    <3>2. q = p \/ ReceiptNumber(q) \in DOMAIN js
      BY <1>0, <3>1 DEF PaymentJournals
    <3> QED
      BY <1>1, <1>5, <3>2 DEF m
  <2>3. ASSUME NEW q \in DOMAIN new
        PROVE  /\ ReceiptNumber(q) \in DOMAIN k /\ RefundNumber(q) \notin DOMAIN k
               /\ k[ReceiptNumber(q)] = PairJournal("1000", "1100", new[q].amount)
    <3>1. q # p /\ q \in DOMAIN ps /\ new[q] = ps[q]
      BY <1>6
    <3>2. ReceiptNumber(q) # m /\ RefundNumber(q) # r
      BY <3>1, BillNumbers DEF m, r
    <3>3. /\ ReceiptNumber(q) \in DOMAIN js /\ RefundNumber(q) \notin DOMAIN js
          /\ js[ReceiptNumber(q)] = PairJournal("1000", "1100", ps[q].amount)
      BY <1>0, <3>1 DEF PaymentJournals
    <3> QED
      BY <1>4, <1>5, <3>1, <3>2, <3>3
  <2> QED
    BY <2>1, <2>2, <2>3 DEF PaymentJournals
<1>9. NoteJournals(ks, k)
  <2>1. \A x : {m, r} \intersect {CreditNumber(x), UndoneNumber(x)} = {}
    BY BillNumbers DEF m, r
  <2> QED
    BY <1>0, <1>4, <1>5, <2>1, NotesStay
<1>10. BillJournals(is, k) /\ BilledOf(is, k) = BilledOf(is, js)
  <2>1. \A x : r # BillNumber(x)
    BY BillNumbers DEF r
  <2> QED
    BY <1>0, <1>5, <2>1, BillsStay
<1>11. PaymentsOK(new)
  BY <1>0, <1>6, FS_Subset DEF PaymentsOK
<1>12. PaidOf(new) = PaidOf(ps) - v
  <2>1. OneMore(DOMAIN ps, DOMAIN new, p)
    BY <1>6 DEF OneMore
  <2>2. SameRows(ps, new, DOMAIN new) /\ IsFiniteSet(DOMAIN ps)
    BY <1>0, <1>6 DEF PaymentsOK, SameRows
  <2>3. RowIs(ps, p, v)
    BY <1>2 DEF RowIs, v
  <2> QED
    BY ONLY <2>1, <2>2, <2>3, RowsRemove DEF PaidOf
<1>13. Balance(k, "1100") = Balance(js, "1100") + v
  BY <1>0, <1>2, <1>4, BalanceType DEF PairMove
<1>14. BillLedger(is, new, ks, k)
  <2>1. BilledOf(is, js) \in Int /\ PaidOf(ps) \in Int /\ CreditedOf(ks) \in Int
    BY <1>0, BillSums
  <2>2. Balance(js, "1100") = BilledOf(is, js) - PaidOf(ps) - CreditedOf(ks)
    BY <1>0 DEF BillLedger
  <2> QED
    BY <1>2, <1>10, <1>12, <1>13, <2>1, <2>2 DEF BillLedger
<1>15. BillBooks(is, new, ks, k)
  BY <1>0, <1>4, <1>8, <1>9, <1>10, <1>11, <1>14 DEF BillBooks
<1>16. DOMAIN js \subseteq DOMAIN k /\ OneMore(DOMAIN ps, DOMAIN new, p)
  BY <1>5, <1>6 DEF OneMore
<1> QED
  BY ONLY <1>6, <1>15, <1>16

(* The payments' part of the books, when none of their journals change.    *)
LEMMA PaymentsStay ==
  ASSUME NEW ps, NEW js, NEW k, PaymentJournals(ps, js), DOMAIN js \subseteq DOMAIN k,
         ReceiptsIn(k) = ReceiptsIn(js),
         \A x : RefundNumber(x) \in DOMAIN k => RefundNumber(x) \in DOMAIN js,
         \A x : ReceiptNumber(x) \in DOMAIN js => k[ReceiptNumber(x)] = js[ReceiptNumber(x)]
  PROVE  PaymentJournals(ps, k)
<1>1. ASSUME NEW q \in DOMAIN ps
      PROVE  /\ ReceiptNumber(q) \in DOMAIN k /\ RefundNumber(q) \notin DOMAIN k
             /\ k[ReceiptNumber(q)] = PairJournal("1000", "1100", ps[q].amount)
  <2>1. /\ ReceiptNumber(q) \in DOMAIN js /\ RefundNumber(q) \notin DOMAIN js
        /\ js[ReceiptNumber(q)] = PairJournal("1000", "1100", ps[q].amount)
    BY DEF PaymentJournals
  <2>2. k[ReceiptNumber(q)] = js[ReceiptNumber(q)]
    BY <2>1
  <2> QED
    BY <2>1, <2>2
<1> QED
  BY <1>1 DEF PaymentJournals

(* A credit note is given.                                                 *)
FreshNote(row) == row.amount \in Nat \ {0} /\ row.void = FALSE

LEMMA CreditGiven ==
  ASSUME NEW is, NEW ps, NEW ks, NEW js, NEW k, NEW c, NEW row, NEW new,
         BillBooks(is, ps, ks, js), c \notin DOMAIN ks,
         FreshNote(row), new = Entered(ks, c, row),
         k = Posted(js, CreditNumber(c), Pair("4000", "1100", row.amount))
  PROVE  /\ BillBooks(is, ps, new, k)
         /\ DOMAIN js \subseteq DOMAIN k /\ Adds(new, ks, c) /\ ReceiptsIn(k) = ReceiptsIn(js)
<1>0. /\ BooksFine(js) /\ TotalsOK(is) /\ PaymentsOK(ps) /\ NotesOK(ks)
      /\ BillJournals(is, js) /\ PaymentJournals(ps, js) /\ NoteJournals(ks, js)
      /\ BillLedger(is, ps, ks, js)
  BY DEF BillBooks
<1>f. row.amount \in Nat \ {0} /\ row.void = FALSE
  BY DEF FreshNote
<1> DEFINE m == CreditNumber(c)
<1>1. m \notin DOMAIN js /\ UndoneNumber(c) \notin DOMAIN js
  BY <1>0 DEF NoteJournals
<1>2. /\ BooksFine(k) /\ Adds(k, js, m)
      /\ k[m] = PairJournal("4000", "1100", row.amount)
      /\ \A i \in DOMAIN js : k[i] = js[i]
      /\ \A a : Balance(k, a) = Balance(js, a) + PairMove("4000", "1100", row.amount, a)
  <2>1. row.amount \in Int /\ "4000" # "1100"
    BY <1>f
  <2> QED
    BY <1>0, <1>1, <2>1, PostedPair
<1>3. DOMAIN k = DOMAIN js \union {m}
  BY <1>2 DEF Adds
<1>4. DOMAIN new = DOMAIN ks \union {c} /\ new[c] = row /\ \A x \in DOMAIN ks : new[x] = ks[x]
  BY DEF Entered
<1> HIDE DEF m
<1>5. ReceiptsIn(k) = ReceiptsIn(js)
  <2>1. m[1] # "RECEIPT"
    BY BillNumbers DEF m
  <2> QED
    BY <1>3, <2>1 DEF ReceiptsIn
<1>6. PaymentJournals(ps, k)
  <2>1. \A x : m # ReceiptNumber(x) /\ m # RefundNumber(x)
    BY BillNumbers DEF m
  <2> QED
    BY <1>0, <1>2, <1>3, <1>5, <2>1, PaymentsStay
<1>7. NoteJournals(new, k)
  <2>1. \A x : m # UndoneNumber(x) /\ (m = CreditNumber(x) => x = c)
    BY BillNumbers DEF m
  <2>2. ASSUME NEW x, CreditNumber(x) \in DOMAIN k \/ UndoneNumber(x) \in DOMAIN k
        PROVE  x \in DOMAIN new
    <3>1. x = c \/ CreditNumber(x) \in DOMAIN js \/ UndoneNumber(x) \in DOMAIN js
      BY <1>3, <2>1, <2>2
    <3>2. x = c \/ x \in DOMAIN ks
      BY <1>0, <3>1 DEF NoteJournals
    <3> QED
      BY <1>4, <3>2
  <2>3. ASSUME NEW x \in DOMAIN new
        PROVE  /\ CreditNumber(x) \in DOMAIN k
               /\ new[x].void => k[CreditNumber(x)].status = "REVERSED"
               /\ ~new[x].void =>
                    /\ UndoneNumber(x) \notin DOMAIN k
                    /\ k[CreditNumber(x)] = PairJournal("4000", "1100", new[x].amount)
    <3>1. CASE x = c
      BY <1>1, <1>2, <1>3, <1>4, <1>f, <2>1, <3>1 DEF m
    <3>2. CASE x # c
      <4>1. x \in DOMAIN ks /\ new[x] = ks[x]
        BY <1>4, <3>2
      <4>2. /\ CreditNumber(x) \in DOMAIN js
            /\ ks[x].void => js[CreditNumber(x)].status = "REVERSED"
            /\ ~ks[x].void =>
                 /\ UndoneNumber(x) \notin DOMAIN js
                 /\ js[CreditNumber(x)] = PairJournal("4000", "1100", ks[x].amount)
        BY <1>0, <4>1 DEF NoteJournals
      <4>3. k[CreditNumber(x)] = js[CreditNumber(x)]
        BY <1>2, <4>2
      <4>4. /\ CreditNumber(x) \in DOMAIN k
            /\ UndoneNumber(x) \in DOMAIN k => UndoneNumber(x) \in DOMAIN js
        BY <1>3, <2>1, <4>2
      <4> QED
        BY <4>1, <4>2, <4>3, <4>4
    <3> QED
      BY <3>1, <3>2
  <2> QED
    BY <2>2, <2>3 DEF NoteJournals
<1>8. BillJournals(is, k) /\ BilledOf(is, k) = BilledOf(is, js)
  <2>1. \A x : m # BillNumber(x)
    BY BillNumbers DEF m
  <2> QED
    BY <1>0, <1>3, <2>1, BillsStay
<1>9. NotesOK(new)
  BY <1>0, <1>4, <1>f, FS_AddElement DEF NotesOK
<1>10. CreditedOf(new) = CreditedOf(ks) + row.amount
  <2>1. OneMore(Standing(new), Standing(ks), c)
    BY <1>4, <1>f DEF OneMore, Standing
  <2>2. SameRows(ks, new, Standing(ks)) /\ IsFiniteSet(Standing(ks))
    BY <1>0, <1>4, BillSums DEF NotesOK, SameRows, Standing
  <2>3. RowIs(new, c, row.amount)
    BY <1>4, <1>f DEF RowIs
  <2> QED
    BY <2>1, <2>2, <2>3, RowsAdd DEF CreditedOf
<1>11. Balance(k, "1100") = Balance(js, "1100") - row.amount
  BY <1>0, <1>2, <1>f, BalanceType DEF PairMove
<1>12. BillLedger(is, ps, new, k)
  <2>1. BilledOf(is, js) \in Int /\ PaidOf(ps) \in Int /\ CreditedOf(ks) \in Int
    BY <1>0, BillSums
  <2>2. Balance(js, "1100") = BilledOf(is, js) - PaidOf(ps) - CreditedOf(ks)
    BY <1>0 DEF BillLedger
  <2> QED
    BY <1>8, <1>10, <1>11, <1>f, <2>1, <2>2 DEF BillLedger
<1>13. BillBooks(is, ps, new, k)
  BY <1>0, <1>2, <1>6, <1>7, <1>8, <1>9, <1>12 DEF BillBooks
<1>14. DOMAIN js \subseteq DOMAIN k /\ Adds(new, ks, c)
  BY <1>3, <1>4 DEF Adds
<1> QED
  BY ONLY <1>5, <1>13, <1>14

(* A credit note is voided; voiding it again changes nothing.              *)
VoidedIn(ks, new, c) ==
  /\ DOMAIN new = DOMAIN ks /\ \A x \in DOMAIN ks : x # c => new[x] = ks[x]
  /\ new[c].void = TRUE /\ new[c].amount = ks[c].amount

LEMMA CreditVoided ==
  ASSUME NEW is, NEW ps, NEW ks, NEW js, NEW k, NEW c, NEW new,
         BillBooks(is, ps, ks, js), c \in DOMAIN ks,
         VoidedIn(ks, new, c), k = Reversed(js, CreditNumber(c), UndoneNumber(c))
  PROVE  /\ BillBooks(is, ps, new, k)
         /\ DOMAIN js \subseteq DOMAIN k /\ ReceiptsIn(k) = ReceiptsIn(js)
<1>0. /\ BooksFine(js) /\ TotalsOK(is) /\ PaymentsOK(ps) /\ NotesOK(ks)
      /\ BillJournals(is, js) /\ PaymentJournals(ps, js) /\ NoteJournals(ks, js)
      /\ BillLedger(is, ps, ks, js)
  BY DEF BillBooks
<1>v. /\ DOMAIN new = DOMAIN ks /\ \A x \in DOMAIN ks : x # c => new[x] = ks[x]
      /\ new[c].void = TRUE /\ new[c].amount = ks[c].amount
  BY DEF VoidedIn
<1> USE <1>v
<1> DEFINE m == CreditNumber(c)
           r == UndoneNumber(c)
           v == ks[c].amount
<1>1. v \in Nat /\ ks[c].void \in BOOLEAN
  BY <1>0 DEF NotesOK
<1>2. /\ m \in DOMAIN js
      /\ ks[c].void => js[m].status = "REVERSED"
      /\ ~ks[c].void => r \notin DOMAIN js /\ js[m] = PairJournal("4000", "1100", v)
  BY <1>0 DEF NoteJournals
<1>3. NotesOK(new)
  <2>1. \A x \in DOMAIN new : new[x].amount = ks[x].amount /\ new[x].void \in BOOLEAN
    BY <1>0 DEF NotesOK
  <2> QED
    BY <1>0, <2>1 DEF NotesOK
<1> HIDE DEF m, r, v
<1>4. CASE ks[c].void
  <2>1. k = js
    BY <1>2, <1>4 DEF Reversed, Reversible, m, r
  <2>2. Standing(new) = Standing(ks) /\ \A x \in Standing(ks) : new[x].amount = ks[x].amount
    BY <1>4 DEF Standing
  <2>3. CreditedOf(new) = CreditedOf(ks)
    BY <2>2, RowsSame DEF CreditedOf
  <2>4. BillLedger(is, ps, new, js)
    BY <1>0, <2>3 DEF BillLedger
  <2>5. NoteJournals(new, js)
    <3>1. \A x : CreditNumber(x) \in DOMAIN js \/ UndoneNumber(x) \in DOMAIN js => x \in DOMAIN new
      BY <1>0 DEF NoteJournals
    <3>2. ASSUME NEW x \in DOMAIN new
          PROVE  /\ CreditNumber(x) \in DOMAIN js
                 /\ new[x].void => js[CreditNumber(x)].status = "REVERSED"
                 /\ ~new[x].void =>
                      /\ UndoneNumber(x) \notin DOMAIN js
                      /\ js[CreditNumber(x)] = PairJournal("4000", "1100", new[x].amount)
      <4>1. CASE x = c
        BY <1>2, <1>4, <4>1 DEF m
      <4>2. CASE x # c
        <5>1. new[x] = ks[x] /\ x \in DOMAIN ks
          BY <4>2
        <5> QED
          BY <1>0, <5>1 DEF NoteJournals
      <4> QED
        BY <4>1, <4>2
    <3> QED
      BY <3>1, <3>2 DEF NoteJournals
  <2>6. BillBooks(is, ps, new, js)
    BY <1>0, <1>3, <2>4, <2>5 DEF BillBooks
  <2> QED
    BY <2>1, <2>6
<1>5. CASE ~ks[c].void
  <2>1. Reversible(js, m, r) /\ LinesAre(js, m, "4000", "1100", v)
    BY <1>2, <1>5 DEF PairJournal, Reversible, LinesAre
  <2>2. /\ BooksFine(k) /\ Adds(k, js, r) /\ m # r
        /\ k[m] = TakenBack(js[m])
        /\ \A i \in DOMAIN js : i # m => k[i] = js[i]
        /\ \A a : Balance(k, a) = Balance(js, a) - PairMove("4000", "1100", v, a)
    <3>1. v \in Int /\ "4000" # "1100" /\ k = Reversed(js, m, r)
      BY <1>1 DEF m, r
    <3> QED
      BY ONLY <1>0, <2>1, <3>1, ReversedPair
  <2>3. DOMAIN k = DOMAIN js \union {r}
    BY <2>2 DEF Adds
  <2>4. ReceiptsIn(k) = ReceiptsIn(js)
    <3>1. r[1] # "RECEIPT"
      BY BillNumbers DEF r
    <3> QED
      BY <2>3, <3>1 DEF ReceiptsIn
  <2>5. PaymentJournals(ps, k)
    <3>1. \A x : {m, r} \intersect {ReceiptNumber(x), RefundNumber(x)} = {}
      BY BillNumbers DEF m, r
    <3> QED
      BY <1>0, <2>2, <2>3, <2>4, <3>1, PaymentsStay
  <2>6. NoteJournals(new, k)
    <3>1. \A x : CreditNumber(x) # r /\ (x # c => CreditNumber(x) # m /\ UndoneNumber(x) # r)
      BY BillNumbers DEF m, r
    <3>2. ASSUME NEW x, CreditNumber(x) \in DOMAIN k \/ UndoneNumber(x) \in DOMAIN k
          PROVE  x \in DOMAIN new
      <4>1. x = c \/ CreditNumber(x) \in DOMAIN js \/ UndoneNumber(x) \in DOMAIN js
        BY <2>3, <3>1, <3>2
      <4> QED
        BY <1>0, <4>1 DEF NoteJournals
    <3>3. ASSUME NEW x \in DOMAIN new
          PROVE  /\ CreditNumber(x) \in DOMAIN k
                 /\ new[x].void => k[CreditNumber(x)].status = "REVERSED"
                 /\ ~new[x].void =>
                      /\ UndoneNumber(x) \notin DOMAIN k
                      /\ k[CreditNumber(x)] = PairJournal("4000", "1100", new[x].amount)
      <4>1. CASE x = c
        BY <1>2, <2>2, <2>3, <4>1 DEF m, TakenBack
      <4>2. CASE x # c
        <5>1. new[x] = ks[x] /\ x \in DOMAIN ks
          BY <4>2
        <5>2. /\ CreditNumber(x) \in DOMAIN js
              /\ ks[x].void => js[CreditNumber(x)].status = "REVERSED"
              /\ ~ks[x].void =>
                   /\ UndoneNumber(x) \notin DOMAIN js
                   /\ js[CreditNumber(x)] = PairJournal("4000", "1100", ks[x].amount)
          BY <1>0, <5>1 DEF NoteJournals
        <5>3. k[CreditNumber(x)] = js[CreditNumber(x)]
          BY <2>2, <3>1, <4>2, <5>2
        <5>4. /\ CreditNumber(x) \in DOMAIN k
              /\ UndoneNumber(x) \in DOMAIN k => UndoneNumber(x) \in DOMAIN js
          BY <2>3, <3>1, <4>2, <5>2
        <5> QED
          BY <5>1, <5>2, <5>3, <5>4
      <4> QED
        BY <4>1, <4>2
    <3> QED
      BY <3>2, <3>3 DEF NoteJournals
  <2>7. BillJournals(is, k) /\ BilledOf(is, k) = BilledOf(is, js)
    <3>1. \A x : r # BillNumber(x)
      BY BillNumbers DEF r
    <3> QED
      BY <1>0, <2>3, <3>1, BillsStay
  <2>8. CreditedOf(new) = CreditedOf(ks) - v
    <3>1. OneMore(Standing(ks), Standing(new), c)
      BY <1>5 DEF OneMore, Standing
    <3>2. SameRows(ks, new, Standing(new)) /\ IsFiniteSet(Standing(ks))
      BY <1>0, BillSums DEF NotesOK, SameRows, Standing
    <3>3. RowIs(ks, c, v)
      BY <1>1 DEF RowIs, v
    <3> QED
      BY ONLY <3>1, <3>2, <3>3, RowsRemove DEF CreditedOf
  <2>9. Balance(k, "1100") = Balance(js, "1100") + v
    BY <1>0, <1>1, <2>2, BalanceType DEF PairMove
  <2>10. BillLedger(is, ps, new, k)
    <3>1. BilledOf(is, js) \in Int /\ PaidOf(ps) \in Int /\ CreditedOf(ks) \in Int
      BY <1>0, BillSums
    <3>2. Balance(js, "1100") = BilledOf(is, js) - PaidOf(ps) - CreditedOf(ks)
      BY <1>0 DEF BillLedger
    <3> QED
      BY <1>1, <2>7, <2>8, <2>9, <3>1, <3>2 DEF BillLedger
  <2>11. BillBooks(is, ps, new, k)
    BY <1>0, <1>3, <2>2, <2>5, <2>6, <2>7, <2>10 DEF BillBooks
  <2>12. DOMAIN js \subseteq DOMAIN k
    BY <2>3
  <2> QED
    BY ONLY <2>4, <2>11, <2>12
<1> QED
  BY <1>1, <1>4, <1>5

--------------------------------------------------------------------------------
(* Receivables: the rows. *)

(* Invoices are numbered 1, 2, 3, ...; a number that was read comes at most*)
(* one after those there are.                                              *)
Numbered(t) ==
  /\ IsFiniteSet(DOMAIN t) /\ t = [n \in DOMAIN t |-> t[n]]
  /\ DOMAIN t = 1 .. Cardinality(DOMAIN t)
NoneSkipped(t, n) == n \in Nat \ {0} /\ \A m \in 1 .. (n - 1) : m \in DOMAIN t

LEMMA NumberEntered ==
  ASSUME NEW t, NEW n, NEW r, NEW u, Numbered(t), NoneSkipped(t, n), n \notin DOMAIN t,
         u = Entered(t, n, r)
  PROVE  /\ Numbered(u) /\ Adds(u, t, n) /\ u[n] = r
         /\ \A m \in DOMAIN t : u[m] = t[m]
<1> DEFINE c == Cardinality(DOMAIN t)
<1>1. c \in Nat /\ DOMAIN t = 1 .. c /\ IsFiniteSet(DOMAIN t)
  BY FS_CardinalityType DEF Numbered
<1>2. n = c + 1
  <2>1. n \in Nat /\ n > 0 /\ n \notin 1 .. c
    BY <1>1 DEF NoneSkipped
  <2>2. ~(n > c + 1)
    <3>1. n > c + 1 => c + 1 \in 1 .. (n - 1)
      BY <1>1, <2>1
    <3>2. c + 1 \notin DOMAIN t
      BY <1>1
    <3> QED
      BY <3>1, <3>2 DEF NoneSkipped
  <2> QED
    BY <1>1, <2>1, <2>2
<1>3. DOMAIN u = DOMAIN t \union {n} /\ u[n] = r /\ \A m \in DOMAIN t : u[m] = t[m]
  BY DEF Entered
<1>4. Cardinality(DOMAIN u) = c + 1 /\ IsFiniteSet(DOMAIN u)
  BY <1>1, <1>3, FS_AddElement
<1>5. DOMAIN u = 1 .. (c + 1)
  <2>1. 1 .. (c + 1) = 1 .. c \union {c + 1}
    BY <1>1
  <2> QED
    BY <1>1, <1>2, <1>3, <2>1
<1>6. u = [m \in DOMAIN u |-> u[m]]
  BY DEF Entered
<1> HIDE DEF c
<1>7. Numbered(u)
  BY <1>4, <1>5, <1>6 DEF Numbered
<1>8. Adds(u, t, n)
  BY <1>3 DEF Adds
<1> QED
  BY ONLY <1>3, <1>7, <1>8

LEMMA NumberNext ==
  ASSUME NEW s, NEW t, Numbered(t)
  PROVE  NoneSkipped(t, Sales(s)!NextNumber(t))
<1> DEFINE c == Cardinality(DOMAIN t)
<1>1. c \in Nat /\ DOMAIN t = 1 .. c
  BY FS_CardinalityType DEF Numbered
<1>2. CASE t = [k \in {} |-> {}]
  <2>1. Sales(s)!NextNumber(t) = 1
    BY <1>2 DEF Sales!NextNumber, Sales!EmptyTable
  <2> QED
    BY <2>1 DEF NoneSkipped
<1>3. CASE t # [k \in {} |-> {}]
  <2>1. c # 0
    <3>1. DOMAIN t = {} => t = [k \in {} |-> {}]
      BY DEF Numbered
    <3> QED
      BY <1>1, <1>3, <3>1
  <2>2. Sales(s)!Max(1 .. c) = c
    <3>1. c \in 1 .. c /\ \A y \in 1 .. c : c >= y
      BY <1>1, <2>1
    <3>2. \A x \in 1 .. c : (\A y \in 1 .. c : x >= y) => x = c
      BY <1>1, <3>1
    <3> HIDE DEF c
    <3> QED
      BY Zenon, <3>1, <3>2 DEF Sales!Max
  <2>3. Sales(s)!NextNumber(t) = 1 + c
    BY <1>1, <1>3, <2>2 DEF Sales!NextNumber, Sales!EmptyTable
  <2> QED
    BY <1>1, <2>3 DEF NoneSkipped
<1> QED
  BY <1>2, <1>3

InvoiceRow(t, s, p, c, q) == [total |-> t, status |-> s, paid |-> p, credited |-> c, quote |-> q]
InvoiceStatuses == {"DRAFT", "SENT", "PARTIALLY_PAID", "PAID", "OVERDUE", "VOID"}
QuotationStatuses ==
  {"DRAFT", "SENT", "ACCEPTED", "DECLINED", "EXPIRED", "CONVERTED", "VOID"}
InvoiceOK(i) ==
  /\ i = InvoiceRow(i.total, i.status, i.paid, i.credited, i.quote)
  /\ i.status \in InvoiceStatuses /\ i.total \in Nat /\ i.paid \in Int /\ i.credited \in Int

InvoiceRows(is, qs) ==
  /\ Numbered(is)
  /\ \A n \in DOMAIN is : InvoiceOK(is[n]) /\ is[n].quote \in DOMAIN qs \union {None}
PaymentRows(ps, is, js) ==
  \A p \in DOMAIN ps : ps[p].invoice \in DOMAIN is /\ BillNumber(ps[p].invoice) \in DOMAIN js
NoteRow(i, a, v) == [invoice |-> i, amount |-> a, void |-> v]
NoteRows(ks, is) ==
  \A k \in DOMAIN ks :
    /\ ks[k] = NoteRow(ks[k].invoice, ks[k].amount, ks[k].void)
    /\ ks[k].invoice \in DOMAIN is
QuoteRow(t, s, i) == [total |-> t, status |-> s, invoice |-> i]
QuoteRows(qs, is) ==
  \A q \in DOMAIN qs :
    /\ qs[q] = QuoteRow(qs[q].total, qs[q].status, qs[q].invoice)
    /\ qs[q].total \in Nat /\ qs[q].status \in QuotationStatuses
    /\ qs[q].invoice \in DOMAIN is \union {None}
BilledOrNoted(n, i, ks, js) ==
  i.status \notin {"DRAFT", "VOID"} =>
    BillNumber(n) \in DOMAIN js \/ \E k \in DOMAIN ks : ks[k].invoice = n
AllBilledOrNoted(is, ks, js) == \A n \in DOMAIN is : BilledOrNoted(n, is[n], ks, js)

BillRows(is, ps, ks, qs, js) ==
  /\ InvoiceRows(is, qs) /\ PaymentRows(ps, is, js) /\ NoteRows(ks, is) /\ QuoteRows(qs, is)
  /\ AllBilledOrNoted(is, ks, js)

(* What a request has read, at each point it waits at.                     *)
SeenOK(i) == i.paid \in Int /\ i.credited \in Int
BillLabels ==
  {"idle", "issuing", "mailing", "paying", "refunding", "unpaying", "crediting", "voiding",
   "uncrediting", "quoting", "editing", "converting", "converted"}
BillJob(l, x, is, ps, ks, qs, js) ==
  /\ l \in BillLabels
  /\ l = "issuing" => /\ x.total \in Nat /\ x.status \in InvoiceStatuses
                      /\ NoneSkipped(is, x.number)
  /\ l \in {"mailing", "paying", "crediting"} => x.number \in DOMAIN is
  /\ l \in {"paying", "crediting"} => x.amount \in Nat \ {0}
  /\ l \in {"paying", "crediting", "unpaying", "uncrediting"} => SeenOK(x.seen)
  /\ l \in {"refunding", "unpaying"} =>
       /\ x.row.invoice \in DOMAIN is /\ BillNumber(x.row.invoice) \in DOMAIN js
       /\ x.row.amount \in Nat \ {0} /\ ReceiptNumber(x.payment) \in DOMAIN js
       /\ x.payment \in DOMAIN ps => ps[x.payment] = x.row
  /\ l = "unpaying" => x.payment \in DOMAIN ps
  /\ l \in {"voiding", "uncrediting"} => x.note \in DOMAIN ks
  /\ l \in {"quoting", "editing"} => x.status \in QuotationStatuses \union {None}
  /\ l \in {"quoting", "editing", "converting", "converted"} => x.total \in Nat
  /\ l \in {"editing", "converting", "converted"} => x.quote \in DOMAIN qs
  /\ l = "converted" => NoneSkipped(is, x.number)

(* Rows come, and only a payment goes; its number does not come again.     *)
Later(is, ps, ks, qs, js, is2, ps2, ks2, qs2, js2) ==
  /\ DOMAIN is \subseteq DOMAIN is2 /\ DOMAIN ks \subseteq DOMAIN ks2
  /\ DOMAIN qs \subseteq DOMAIN qs2 /\ DOMAIN js \subseteq DOMAIN js2
  /\ \A p \in DOMAIN ps2 :
       ReceiptNumber(p) \in DOMAIN js => p \in DOMAIN ps /\ ps2[p] = ps[p]

LEMMA BillJobLater ==
  ASSUME NEW l, NEW x, NEW is, NEW ps, NEW ks, NEW qs, NEW js,
         NEW is2, NEW ps2, NEW ks2, NEW qs2, NEW js2,
         BillJob(l, x, is, ps, ks, qs, js),
         Later(is, ps, ks, qs, js, is2, ps2, ks2, qs2, js2),
         l = "unpaying" => x.payment \in DOMAIN ps2
  PROVE  BillJob(l, x, is2, ps2, ks2, qs2, js2)
<1>1. /\ DOMAIN is \subseteq DOMAIN is2 /\ DOMAIN ks \subseteq DOMAIN ks2
      /\ DOMAIN qs \subseteq DOMAIN qs2 /\ DOMAIN js \subseteq DOMAIN js2
      /\ \A p \in DOMAIN ps2 :
           ReceiptNumber(p) \in DOMAIN js => p \in DOMAIN ps /\ ps2[p] = ps[p]
  BY DEF Later
<1>2. \A n : NoneSkipped(is, n) => NoneSkipped(is2, n)
  BY <1>1 DEF NoneSkipped
<1>3. l \in {"refunding", "unpaying"} =>
        /\ x.row.invoice \in DOMAIN is2 /\ BillNumber(x.row.invoice) \in DOMAIN js2
        /\ x.row.amount \in Nat \ {0} /\ ReceiptNumber(x.payment) \in DOMAIN js2
        /\ x.payment \in DOMAIN ps2 => ps2[x.payment] = x.row
  BY <1>1 DEF BillJob
<1> QED
  BY <1>1, <1>2, <1>3 DEF BillJob

BillInv(s) ==
  /\ BillBooks(invoices, payments, notes, journals)
  /\ BillRows(invoices, payments, notes, quotes, journals)
  /\ DOMAIN pc = s.workers /\ DOMAIN job = s.workers
  /\ \A w \in s.workers :
       BillJob(pc[w], job[w], invoices, payments, notes, quotes, journals)
  /\ \A v, w \in s.workers :
       pc[v] = "unpaying" /\ pc[w] = "unpaying" /\ job[v].payment = job[w].payment => v = w

(* A step of one request.                                                  *)
LEMMA BillStep ==
  ASSUME NEW s, NEW w \in s.workers, NEW l, NEW x, BillInv(s),
         BillBooks(invoices', payments', notes', journals'),
         BillRows(invoices', payments', notes', quotes', journals'),
         Later(invoices, payments, notes, quotes, journals,
               invoices', payments', notes', quotes', journals'),
         Sales(s)!Turn(w, l, x),
         BillJob(l, x, invoices', payments', notes', quotes', journals'),
         \A v \in s.workers \ {w} : pc[v] = "unpaying" =>
           job[v].payment \in DOMAIN payments' /\ (l = "unpaying" => job[v].payment # x.payment)
  PROVE  BillInv(s)'
<1>1. pc' = [pc EXCEPT ![w] = l] /\ job' = [job EXCEPT ![w] = x]
  BY DEF Sales!Turn
<1>2. /\ DOMAIN pc' = s.workers /\ DOMAIN job' = s.workers
      /\ pc'[w] = l /\ job'[w] = x
      /\ \A v \in s.workers \ {w} : pc'[v] = pc[v] /\ job'[v] = job[v]
  BY <1>1 DEF BillInv
<1>3. ASSUME NEW v \in s.workers
      PROVE  BillJob(pc'[v], job'[v], invoices', payments', notes', quotes', journals')
  <2>1. CASE v = w
    BY <1>2, <2>1
  <2>2. CASE v # w
    <3>1. BillJob(pc[v], job[v], invoices, payments, notes, quotes, journals)
      BY DEF BillInv
    <3>2. pc[v] = "unpaying" => job[v].payment \in DOMAIN payments'
      BY <2>2
    <3>3. BillJob(pc[v], job[v], invoices', payments', notes', quotes', journals')
      BY <3>1, <3>2, BillJobLater
    <3> QED
      BY <1>2, <2>2, <3>3
  <2> QED
    BY <2>1, <2>2
<1>4. ASSUME NEW u \in s.workers, NEW v \in s.workers,
             pc'[u] = "unpaying", pc'[v] = "unpaying", job'[u].payment = job'[v].payment
      PROVE  u = v
  BY <1>2, <1>4 DEF BillInv
<1> QED
  BY <1>2, <1>3, <1>4 DEF BillInv

LEMMA BillRead ==
  ASSUME NEW s, NEW w \in s.workers, NEW l, NEW x, BillInv(s),
         UNCHANGED <<invoices, payments, notes, quotes, journals>>,
         Sales(s)!Turn(w, l, x),
         BillJob(l, x, invoices, payments, notes, quotes, journals),
         l = "unpaying" =>
           \A v \in s.workers \ {w} : pc[v] = "unpaying" => job[v].payment # x.payment
  PROVE  BillInv(s)'
<1>1. \A v \in s.workers : pc[v] = "unpaying" => job[v].payment \in DOMAIN payments
  BY DEF BillInv, BillJob
<1>2. Later(invoices, payments, notes, quotes, journals,
            invoices', payments', notes', quotes', journals')
  BY DEF Later
<1>3. /\ BillBooks(invoices', payments', notes', journals')
      /\ BillRows(invoices', payments', notes', quotes', journals')
      /\ BillJob(l, x, invoices', payments', notes', quotes', journals')
  BY DEF BillInv
<1> QED
  BY <1>1, <1>2, <1>3, BillStep

--------------------------------------------------------------------------------
(* Receivables: the actions. *)

(* An invoice gets a status, and a figure. *)
Edited(is, new, n, y) ==
  /\ DOMAIN new = DOMAIN is /\ new[n].status = y
  /\ \A m \in DOMAIN is : new[m].total = is[m].total /\ new[m].quote = is[m].quote
  /\ \A m \in DOMAIN is : m # n => new[m] = is[m]

LEMMA EditedRow ==
  ASSUME NEW is, NEW qs, NEW n, NEW new, NEW row, NEW y,
         InvoiceRows(is, qs), n \in DOMAIN is, new = [is EXCEPT ![n] = row],
         InvoiceOK(row), row.status = y, row.total = is[n].total, row.quote = is[n].quote
  PROVE  InvoiceRows(new, qs) /\ Edited(is, new, n, y)
<1>1. /\ DOMAIN new = DOMAIN is /\ new[n] = row
      /\ \A m \in DOMAIN is : m # n => new[m] = is[m]
  OBVIOUS
<1>2. new = [m \in DOMAIN new |-> new[m]]
  OBVIOUS
<1>3. Numbered(new)
  BY <1>1, <1>2 DEF InvoiceRows, Numbered
<1>4. \A m \in DOMAIN new : InvoiceOK(new[m]) /\ new[m].quote \in DOMAIN qs \union {None}
  BY <1>1 DEF InvoiceRows
<1>5. InvoiceRows(new, qs)
  BY <1>3, <1>4 DEF InvoiceRows
<1>6. \A m \in DOMAIN is : new[m].total = is[m].total /\ new[m].quote = is[m].quote
  BY <1>1
<1> QED
  BY <1>1, <1>5, <1>6 DEF Edited

EditOf(is, new, n, v, y) ==
  \/ new = [is EXCEPT ![n].paid = v, ![n].status = y]
  \/ new = [is EXCEPT ![n].credited = v, ![n].status = y]
  \/ new = [is EXCEPT ![n].status = y]

LEMMA EditedBill ==
  ASSUME NEW is, NEW qs, NEW n, NEW new, NEW v, NEW y,
         InvoiceRows(is, qs), n \in DOMAIN is, v \in Int, y \in InvoiceStatuses,
         EditOf(is, new, n, v, y)
  PROVE  InvoiceRows(new, qs) /\ Edited(is, new, n, y)
<1>1. PICK i : i = is[n]
  OBVIOUS
<1>2. i = InvoiceRow(i.total, i.status, i.paid, i.credited, i.quote) /\ InvoiceOK(i)
  BY <1>1 DEF InvoiceRows, InvoiceOK
<1>3. CASE new = [is EXCEPT ![n].paid = v, ![n].status = y]
  <2> DEFINE row == InvoiceRow(i.total, y, v, i.credited, i.quote)
  <2>1. PICK a : a = [is EXCEPT ![n].paid = v]
    OBVIOUS
  <2>2. PICK r : r = [i EXCEPT !.paid = v]
    OBVIOUS
  <2>3. r = InvoiceRow(i.total, i.status, v, i.credited, i.quote)
    BY <1>2, <2>2 DEF InvoiceRow
  <2>4. [r EXCEPT !.status = y] = row
    BY <2>3 DEF InvoiceRow
  <2>5. a = [is EXCEPT ![n] = r]
    BY <1>1, <2>1, <2>2
  <2>6. new = [a EXCEPT ![n].status = y]
    BY <1>3, <2>1
  <2>7. InvoiceOK(row) /\ row.status = y /\ row.total = i.total /\ row.quote = i.quote
    BY <1>2 DEF InvoiceOK, InvoiceRow
  <2> HIDE DEF row
  <2>8. new = [is EXCEPT ![n] = row]
    BY <2>4, <2>5, <2>6
  <2> QED
    BY <1>1, <2>7, <2>8, EditedRow
<1>4. CASE new = [is EXCEPT ![n].credited = v, ![n].status = y]
  <2> DEFINE row == InvoiceRow(i.total, y, i.paid, v, i.quote)
  <2>1. PICK a : a = [is EXCEPT ![n].credited = v]
    OBVIOUS
  <2>2. PICK r : r = [i EXCEPT !.credited = v]
    OBVIOUS
  <2>3. r = InvoiceRow(i.total, i.status, i.paid, v, i.quote)
    BY <1>2, <2>2 DEF InvoiceRow
  <2>4. [r EXCEPT !.status = y] = row
    BY <2>3 DEF InvoiceRow
  <2>5. a = [is EXCEPT ![n] = r]
    BY <1>1, <2>1, <2>2
  <2>6. new = [a EXCEPT ![n].status = y]
    BY <1>4, <2>1
  <2>7. InvoiceOK(row) /\ row.status = y /\ row.total = i.total /\ row.quote = i.quote
    BY <1>2 DEF InvoiceOK, InvoiceRow
  <2> HIDE DEF row
  <2>8. new = [is EXCEPT ![n] = row]
    BY <2>4, <2>5, <2>6
  <2> QED
    BY <1>1, <2>7, <2>8, EditedRow
<1>5. CASE new = [is EXCEPT ![n].status = y]
  <2> DEFINE row == InvoiceRow(i.total, y, i.paid, i.credited, i.quote)
  <2>1. [i EXCEPT !.status = y] = row
    BY <1>2 DEF InvoiceRow
  <2>2. InvoiceOK(row) /\ row.status = y /\ row.total = i.total /\ row.quote = i.quote
    BY <1>2 DEF InvoiceOK, InvoiceRow
  <2> HIDE DEF row
  <2>3. new = [is EXCEPT ![n] = row]
    BY <1>1, <1>5, <2>1
  <2> QED
    BY <1>1, <2>2, <2>3, EditedRow
<1> QED
  BY <1>3, <1>4, <1>5 DEF EditOf

(* What an edit of one invoice keeps of the rest.                          *)
LEMMA EditedTables ==
  ASSUME NEW is, NEW ps, NEW ks, NEW qs, NEW js, NEW new, NEW ps2, NEW ks2, NEW js2, NEW n, NEW y,
         BillRows(is, ps, ks, qs, js), n \in DOMAIN is,
         InvoiceRows(new, qs), Edited(is, new, n, y), PaymentRows(ps2, is, js2), NoteRows(ks2, is),
         DOMAIN js \subseteq DOMAIN js2, DOMAIN ks \subseteq DOMAIN ks2,
         \A k \in DOMAIN ks : ks2[k].invoice = ks[k].invoice,
         BilledOrNoted(n, new[n], ks2, js2)
  PROVE  BillRows(new, ps2, ks2, qs, js2)
<1>1. DOMAIN new = DOMAIN is /\ \A m \in DOMAIN is : m # n => new[m] = is[m]
  BY DEF Edited
<1>2. AllBilledOrNoted(new, ks2, js2)
  <2> SUFFICES ASSUME NEW m \in DOMAIN new PROVE BilledOrNoted(m, new[m], ks2, js2)
    BY DEF AllBilledOrNoted
  <2>1. CASE m = n
    BY <2>1
  <2>2. CASE m # n
    <3>1. BilledOrNoted(m, is[m], ks, js) /\ new[m] = is[m]
      BY <1>1, <2>2 DEF BillRows, AllBilledOrNoted
    <3> QED
      BY <3>1 DEF BilledOrNoted
  <2> QED
    BY <2>1, <2>2
<1>3. PaymentRows(ps2, new, js2) /\ NoteRows(ks2, new) /\ QuoteRows(qs, new)
  BY <1>1 DEF PaymentRows, NoteRows, QuoteRows, BillRows
<1> QED
  BY <1>2, <1>3 DEF BillRows

LEMMA EditedBooks ==
  ASSUME NEW is, NEW ps, NEW ks, NEW js, NEW qs, NEW new, NEW n, NEW y,
         BillBooks(is, ps, ks, js), InvoiceRows(new, qs), Edited(is, new, n, y)
  PROVE  BillBooks(new, ps, ks, js)
<1>1. IsFiniteSet(DOMAIN new) /\ DOMAIN is \subseteq DOMAIN new
  BY DEF BillBooks, TotalsOK, Edited
<1>2. \A m \in DOMAIN is : new[m].total = is[m].total
  BY DEF Edited
<1>3. \A m \in DOMAIN new : new[m].total \in Nat
  BY DEF InvoiceRows, InvoiceOK
<1> QED
  BY <1>1, <1>2, <1>3, BillsChanged

LEMMA BillStatuses ==
  ASSUME NEW s, NEW i, NEW p, NEW c
  PROVE  Sales(s)!Settled(i, p, c) \in InvoiceStatuses
         /\ Sales(s)!Unsettled(i, p, c) \in InvoiceStatuses
BY DEF Sales!Settled, Sales!Unsettled, InvoiceStatuses

(* The labels of a request that waits.                                     *)
LEMMA BillReady ==
  ASSUME NEW s, NEW w \in s.workers, BillInv(s)
  PROVE  /\ BillJob(pc[w], job[w], invoices, payments, notes, quotes, journals)
         /\ BillBooks(invoices, payments, notes, journals)
         /\ BillRows(invoices, payments, notes, quotes, journals)
         /\ \A v \in s.workers : pc[v] = "unpaying" =>
              job[v].payment \in DOMAIN payments /\ ReceiptNumber(job[v].payment) \in DOMAIN journals
BY DEF BillInv, BillJob

(* A request that ends.                                                    *)
LEMMA BillEnd ==
  ASSUME NEW s, NEW w \in s.workers, BillInv(s),
         BillBooks(invoices', payments', notes', journals'),
         BillRows(invoices', payments', notes', quotes', journals'),
         Later(invoices, payments, notes, quotes, journals,
               invoices', payments', notes', quotes', journals'),
         Sales(s)!Done(w),
         \A v \in s.workers \ {w} : pc[v] = "unpaying" => job[v].payment \in DOMAIN payments'
  PROVE  BillInv(s)'
<1>1. Sales(s)!Turn(w, "idle", None)
  BY DEF Sales!Done
<1>2. BillJob("idle", None, invoices', payments', notes', quotes', journals')
  BY DEF BillJob, BillLabels
<1> QED
  BY <1>1, <1>2, BillStep

LEMMA BillReads ==
  ASSUME NEW s, NEW w \in s.workers, BillInv(s), Sales(s)!ReceivablesAssumption,
         \/ \E b \in s.bills : Sales(s)!CreateRead(w, b)
         \/ \E n \in DOMAIN invoices : Sales(s)!SendRead(w, n)
         \/ \E n \in DOMAIN invoices, a \in s.amounts, r \in s.references :
              Sales(s)!PayRead(w, n, a, r) \/ Sales(s)!CreditRead(w, n, a, r)
         \/ \E p \in DOMAIN payments : Sales(s)!UnpayRead(w, p)
         \/ \E k \in DOMAIN notes : Sales(s)!UncreditRead(w, k)
         \/ \E e \in s.estimates : Sales(s)!QuoteRead(w, e)
         \/ \E q \in DOMAIN quotes : \/ Sales(s)!ConvertRead(w, q)
                                     \/ \E e \in s.estimates : Sales(s)!EditRead(w, q, e)
         \/ Sales(s)!ConvertNumber(w)
  PROVE  BillInv(s)'
<1> DEFINE Waits(l, x) ==
             /\ UNCHANGED <<invoices, payments, notes, quotes, journals>>
             /\ Sales(s)!Turn(w, l, x)
             /\ BillJob(l, x, invoices, payments, notes, quotes, journals)
<1>0. /\ BillBooks(invoices, payments, notes, journals)
      /\ BillRows(invoices, payments, notes, quotes, journals)
      /\ Numbered(invoices)
  BY DEF BillInv, BillRows, InvoiceRows
<1>a. ASSUME NEW l, NEW x, Waits(l, x), l # "unpaying" PROVE BillInv(s)'
  BY <1>a, BillRead
<1> HIDE DEF Waits
<1>1. ASSUME NEW b \in s.bills, Sales(s)!CreateRead(w, b) PROVE BillInv(s)'
  <2>1. PICK x : x = [total |-> b.total, status |-> b.status,
                      number |-> Sales(s)!NextNumber(invoices)]
    OBVIOUS
  <2>2. /\ x.total \in Nat /\ x.status \in InvoiceStatuses
        /\ NoneSkipped(invoices, x.number)
    BY <1>0, <2>1, NumberNext
    DEF Sales!ReceivablesAssumption, Sales!InvoiceStatuses, InvoiceStatuses
  <2>3. /\ UNCHANGED <<invoices, payments, notes, quotes, journals>>
        /\ Sales(s)!Turn(w, "issuing", x)
    BY <1>1, <2>1 DEF Sales!CreateRead, Sales!rowVars
  <2>4. Waits("issuing", x)
    BY <2>2, <2>3 DEF Waits, BillJob, BillLabels
  <2> QED
    BY <1>a, <2>4
<1>2. ASSUME NEW n \in DOMAIN invoices, Sales(s)!SendRead(w, n) PROVE BillInv(s)'
  <2>1. PICK x : x = [number |-> n, status |-> invoices[n].status]
    OBVIOUS
  <2>2. x.number \in DOMAIN invoices
    BY <2>1
  <2>3. /\ UNCHANGED <<invoices, payments, notes, quotes, journals>>
        /\ Sales(s)!Turn(w, "mailing", x)
    BY <1>2, <2>1 DEF Sales!SendRead, Sales!rowVars
  <2>4. Waits("mailing", x)
    BY <2>2, <2>3 DEF Waits, BillJob, BillLabels
  <2> QED
    BY <1>a, <2>4
<1>3. ASSUME NEW n \in DOMAIN invoices, NEW a \in s.amounts, NEW r \in s.references,
             Sales(s)!PayRead(w, n, a, r) \/ Sales(s)!CreditRead(w, n, a, r)
      PROVE  BillInv(s)'
  <2>0. SeenOK(invoices[n]) /\ a \in Nat \ {0}
    BY <1>0 DEF Sales!ReceivablesAssumption, BillRows, InvoiceRows, InvoiceOK, SeenOK
  <2>1. PICK x : x = [number |-> n, amount |-> a, ref |-> r, seen |-> invoices[n]]
    OBVIOUS
  <2>2. PICK y : y = [number |-> n, amount |-> a, note |-> r, seen |-> invoices[n]]
    OBVIOUS
  <2>3. /\ x.number \in DOMAIN invoices /\ x.amount \in Nat \ {0} /\ SeenOK(x.seen)
        /\ y.number \in DOMAIN invoices /\ y.amount \in Nat \ {0} /\ SeenOK(y.seen)
    BY <2>0, <2>1, <2>2
  <2>4. UNCHANGED <<invoices, payments, notes, quotes, journals>>
    BY <1>3 DEF Sales!PayRead, Sales!CreditRead, Sales!rowVars
  <2>5. Sales(s)!Turn(w, "paying", x) \/ Sales(s)!Turn(w, "crediting", y)
    BY <1>3, <2>1, <2>2 DEF Sales!PayRead, Sales!CreditRead
  <2>6. Waits("paying", x) \/ Waits("crediting", y)
    BY <2>3, <2>4, <2>5 DEF Waits, BillJob, BillLabels
  <2> QED
    BY <1>a, <2>6
<1>4. ASSUME NEW p \in DOMAIN payments, Sales(s)!UnpayRead(w, p) PROVE BillInv(s)'
  <2>1. PICK x : x = [payment |-> p, row |-> payments[p]]
    OBVIOUS
  <2>2. /\ x.row.invoice \in DOMAIN invoices /\ BillNumber(x.row.invoice) \in DOMAIN journals
        /\ x.row.amount \in Nat \ {0} /\ ReceiptNumber(x.payment) \in DOMAIN journals
        /\ payments[x.payment] = x.row
    BY <1>0, <2>1 DEF BillRows, PaymentRows, BillBooks, PaymentsOK, PaymentJournals
  <2>3. /\ UNCHANGED <<invoices, payments, notes, quotes, journals>>
        /\ Sales(s)!Turn(w, "refunding", x)
    BY <1>4, <2>1 DEF Sales!UnpayRead, Sales!rowVars
  <2>4. Waits("refunding", x)
    BY <2>2, <2>3 DEF Waits, BillJob, BillLabels
  <2> QED
    BY <1>a, <2>4
<1>5. ASSUME NEW k \in DOMAIN notes, Sales(s)!UncreditRead(w, k) PROVE BillInv(s)'
  <2>1. PICK x : x = [note |-> k]
    OBVIOUS
  <2>2. x.note \in DOMAIN notes
    BY <2>1
  <2>3. /\ UNCHANGED <<invoices, payments, notes, quotes, journals>>
        /\ Sales(s)!Turn(w, "voiding", x)
    BY <1>5, <2>1 DEF Sales!UncreditRead, Sales!rowVars
  <2>4. Waits("voiding", x)
    BY <2>2, <2>3 DEF Waits, BillJob, BillLabels
  <2> QED
    BY <1>a, <2>4
<1>6. ASSUME NEW e \in s.estimates, Sales(s)!QuoteRead(w, e) PROVE BillInv(s)'
  <2>1. PICK x : x = [total |-> e.total, status |-> e.status,
                      number |-> Sales(s)!NextNumber(quotes)]
    OBVIOUS
  <2>2. x.total \in Nat /\ x.status \in QuotationStatuses \union {None}
    BY <2>1 DEF Sales!ReceivablesAssumption, Sales!QuotationStatuses, QuotationStatuses
  <2>3. /\ UNCHANGED <<invoices, payments, notes, quotes, journals>>
        /\ Sales(s)!Turn(w, "quoting", x)
    BY <1>6, <2>1 DEF Sales!QuoteRead, Sales!rowVars
  <2>4. Waits("quoting", x)
    BY <2>2, <2>3 DEF Waits, BillJob, BillLabels
  <2> QED
    BY <1>a, <2>4
<1>7. ASSUME NEW q \in DOMAIN quotes, Sales(s)!ConvertRead(w, q) PROVE BillInv(s)'
  <2>1. PICK x : x = [quote |-> q, total |-> quotes[q].total]
    OBVIOUS
  <2>2. x.quote \in DOMAIN quotes /\ x.total \in Nat
    BY <1>0, <2>1 DEF BillRows, QuoteRows
  <2>3. /\ UNCHANGED <<invoices, payments, notes, quotes, journals>>
        /\ Sales(s)!Turn(w, "converting", x)
    BY <1>7, <2>1 DEF Sales!ConvertRead, Sales!rowVars
  <2>4. Waits("converting", x)
    BY <2>2, <2>3 DEF Waits, BillJob, BillLabels
  <2> QED
    BY <1>a, <2>4
<1>8. ASSUME NEW q \in DOMAIN quotes, NEW e \in s.estimates, Sales(s)!EditRead(w, q, e)
      PROVE  BillInv(s)'
  <2>1. PICK x : x = [quote |-> q, total |-> e.total, status |-> e.status]
    OBVIOUS
  <2>2. /\ x.quote \in DOMAIN quotes /\ x.total \in Nat
        /\ x.status \in QuotationStatuses \union {None}
    BY <2>1 DEF Sales!ReceivablesAssumption, Sales!QuotationStatuses, QuotationStatuses
  <2>3. /\ UNCHANGED <<invoices, payments, notes, quotes, journals>>
        /\ Sales(s)!Turn(w, "editing", x)
    BY <1>8, <2>1 DEF Sales!EditRead, Sales!rowVars
  <2>4. Waits("editing", x)
    BY <2>2, <2>3 DEF Waits, BillJob, BillLabels
  <2> QED
    BY <1>a, <2>4
<1>9. ASSUME Sales(s)!ConvertNumber(w) PROVE BillInv(s)'
  <2>1. PICK x : x = [quote |-> job[w].quote, total |-> job[w].total,
                      number |-> Sales(s)!NextNumber(invoices)]
    OBVIOUS
  <2>2. pc[w] = "converting" /\ job[w].quote \in DOMAIN quotes /\ job[w].total \in Nat
    BY <1>9, BillReady DEF Sales!ConvertNumber, Sales!At, BillJob
  <2>3. /\ x.quote \in DOMAIN quotes /\ x.total \in Nat
        /\ NoneSkipped(invoices, x.number)
    BY <1>0, <2>1, <2>2, NumberNext
  <2>4. /\ UNCHANGED <<invoices, payments, notes, quotes, journals>>
        /\ Sales(s)!Turn(w, "converted", x)
    BY <1>9, <2>1 DEF Sales!ConvertNumber, Sales!rowVars
  <2>5. Waits("converted", x)
    BY <2>3, <2>4 DEF Waits, BillJob, BillLabels
  <2> QED
    BY <1>a, <2>5
<1> QED
  BY <1>1, <1>2, <1>3, <1>4, <1>5, <1>6, <1>7, <1>8, <1>9

(* The row that is locked by a delete or an update: no other request is     *)
(* past that point with it.                                                *)
LEMMA BillLocks ==
  ASSUME NEW s, NEW w \in s.workers, BillInv(s),
         Sales(s)!UnpayDelete(w) \/ Sales(s)!UncreditMark(w)
  PROVE  BillInv(s)'
<1>0. /\ BillJob(pc[w], job[w], invoices, payments, notes, quotes, journals)
      /\ BillRows(invoices, payments, notes, quotes, journals)
  BY BillReady
<1>1. ASSUME Sales(s)!UnpayDelete(w) PROVE BillInv(s)'
  <2>1. PICK x : x = [payment |-> job[w].payment, row |-> job[w].row,
                      seen |-> invoices[job[w].row.invoice]]
    OBVIOUS
  <2>2. /\ UNCHANGED <<invoices, payments, notes, quotes, journals>>
        /\ Sales(s)!Turn(w, "unpaying", x)
        /\ pc[w] = "refunding" /\ job[w].payment \in DOMAIN payments
        /\ \A v \in s.workers : pc[v] = "unpaying" => job[v].payment # job[w].payment
    BY <1>1, <2>1 DEF Sales!UnpayDelete, Sales!rowVars, Sales!At, Sales!Doing
  <2>3. /\ job[w].row.invoice \in DOMAIN invoices
        /\ BillNumber(job[w].row.invoice) \in DOMAIN journals
        /\ job[w].row.amount \in Nat \ {0} /\ ReceiptNumber(job[w].payment) \in DOMAIN journals
        /\ payments[job[w].payment] = job[w].row
    BY <1>0, <2>2 DEF BillJob
  <2>4. SeenOK(x.seen)
    BY <1>0, <2>1, <2>3 DEF BillRows, InvoiceRows, InvoiceOK, SeenOK
  <2>5. BillJob("unpaying", x, invoices, payments, notes, quotes, journals)
    BY <2>1, <2>2, <2>3, <2>4 DEF BillJob, BillLabels
  <2>6. x.payment = job[w].payment
    BY <2>1
  <2> HIDE DEF BillInv
  <2> QED
    BY <2>2, <2>5, <2>6, BillRead
<1>2. ASSUME Sales(s)!UncreditMark(w) PROVE BillInv(s)'
  <2>1. PICK x : x = [note |-> job[w].note, seen |-> invoices[notes[job[w].note].invoice]]
    OBVIOUS
  <2>2. /\ UNCHANGED <<invoices, payments, notes, quotes, journals>>
        /\ Sales(s)!Turn(w, "uncrediting", x) /\ pc[w] = "voiding"
    BY <1>2, <2>1 DEF Sales!UncreditMark, Sales!rowVars, Sales!At
  <2>3. x.note \in DOMAIN notes /\ SeenOK(x.seen)
    BY <1>0, <2>1, <2>2 DEF BillJob, BillRows, NoteRows, InvoiceRows, InvoiceOK, SeenOK
  <2>4. BillJob("uncrediting", x, invoices, payments, notes, quotes, journals)
    BY <2>3 DEF BillJob, BillLabels
  <2> QED
    BY <2>2, <2>4, BillRead
<1> QED
  BY <1>1, <1>2

(* An invoice is written, by POST invoices or by a conversion.             *)
LEMMA BillCreate ==
  ASSUME NEW s, NEW w \in s.workers, BillInv(s), Sales(s)!CreateCommit(w)
  PROVE  BillInv(s)'
<1> DEFINE n == job[w].number
           row == InvoiceRow(job[w].total, job[w].status, 0, 0, None)
<1>0. /\ BillJob(pc[w], job[w], invoices, payments, notes, quotes, journals)
      /\ BillBooks(invoices, payments, notes, journals)
      /\ BillRows(invoices, payments, notes, quotes, journals)
  BY BillReady
<1>1. /\ pc[w] = "issuing" /\ n \notin DOMAIN invoices
      /\ invoices' = Entered(invoices, n, row)
      /\ payments' = payments /\ notes' = notes /\ quotes' = quotes
      /\ Sales(s)!Done(w)
      /\ job[w].status \in {"DRAFT", "VOID"} => journals' = journals
      /\ job[w].status \notin {"DRAFT", "VOID"} =>
           journals' = Posted(journals, BillNumber(n), Pair("1100", "4000", job[w].total))
  BY SalesBooks DEF Sales!CreateCommit, Sales!At, Sales!Free, Sales!Invoice, Sales!Entered, Entered,
                    InvoiceRow, BillNumber
<1>2. /\ job[w].total \in Nat /\ job[w].status \in InvoiceStatuses
      /\ NoneSkipped(invoices, n)
  BY <1>0, <1>1 DEF BillJob
<1>3. row.total = job[w].total /\ row.status = job[w].status /\ row.quote = None /\ InvoiceOK(row)
  BY <1>2 DEF InvoiceRow, InvoiceOK, InvoiceStatuses
<1> HIDE DEF n, row
<1>4. /\ Numbered(invoices') /\ Adds(invoices', invoices, n) /\ invoices'[n] = row
      /\ \A m \in DOMAIN invoices : invoices'[m] = invoices[m]
  BY <1>0, <1>1, <1>2, NumberEntered DEF BillRows, InvoiceRows
<1>5. DOMAIN invoices \subseteq DOMAIN invoices' /\ DOMAIN invoices' = DOMAIN invoices \union {n}
  BY <1>4 DEF Adds
<1>6. InvoiceRows(invoices', quotes)
  BY <1>0, <1>3, <1>4, <1>5 DEF BillRows, InvoiceRows
<1>7. BillBooks(invoices', payments, notes, journals)
  <2>1. IsFiniteSet(DOMAIN invoices')
    BY <1>4 DEF Numbered
  <2>2. \A m \in DOMAIN invoices : invoices'[m].total = invoices[m].total
    BY <1>4
  <2>3. \A m \in DOMAIN invoices' : invoices'[m].total \in Nat
    BY <1>6 DEF InvoiceRows, InvoiceOK
  <2> QED
    BY <1>0, <1>5, <2>1, <2>2, <2>3, BillsChanged
<1>8. /\ BillBooks(invoices', payments, notes, journals') /\ DOMAIN journals \subseteq DOMAIN journals'
      /\ ReceiptsIn(journals') = ReceiptsIn(journals)
      /\ job[w].status \notin {"DRAFT", "VOID"} => BillNumber(n) \in DOMAIN journals'
  <2>1. CASE job[w].status \in {"DRAFT", "VOID"}
    BY <1>1, <1>7, <2>1
  <2>2. CASE job[w].status \notin {"DRAFT", "VOID"}
    <3>1. n \in DOMAIN invoices'
      BY <1>5
    <3>2. journals' = Posted(journals, BillNumber(n), Pair("1100", "4000", invoices'[n].total))
      BY <1>1, <1>3, <1>4, <2>2
    <3> QED
      BY <1>7, <3>1, <3>2, BillPosted
  <2> QED
    BY <2>1, <2>2
<1>9. BillRows(invoices', payments', notes', quotes', journals')
  <2>1. PaymentRows(payments, invoices', journals') /\ NoteRows(notes, invoices')
        /\ QuoteRows(quotes, invoices')
    BY <1>0, <1>5, <1>8 DEF BillRows, PaymentRows, NoteRows, QuoteRows
  <2>2. ASSUME NEW m \in DOMAIN invoices' PROVE BilledOrNoted(m, invoices'[m], notes, journals')
    <3>1. CASE m = n
      BY <1>3, <1>4, <1>8, <3>1 DEF BilledOrNoted
    <3>2. CASE m # n
      <4>1. m \in DOMAIN invoices /\ invoices'[m] = invoices[m]
        BY <1>4, <1>5, <3>2
      <4> QED
        BY <1>0, <1>8, <4>1 DEF BillRows, AllBilledOrNoted, BilledOrNoted
    <3> QED
      BY <3>1, <3>2
  <2> QED
    BY <1>1, <1>6, <2>1, <2>2 DEF BillRows, AllBilledOrNoted
<1>10. Later(invoices, payments, notes, quotes, journals,
             invoices', payments', notes', quotes', journals')
  BY <1>1, <1>5, <1>8 DEF Later
<1>11. /\ BillBooks(invoices', payments', notes', journals')
       /\ \A v \in s.workers \ {w} : pc[v] = "unpaying" => job[v].payment \in DOMAIN payments'
  BY <1>1, <1>8, BillReady
<1>12. Sales(s)!Done(w)
  BY <1>1
<1> QED
  BY ONLY BillInv(s), w \in s.workers, <1>9, <1>10, <1>11, <1>12, BillEnd

(* What the actions write of a quotation. *)
LEMMA QuoteConverted ==
  ASSUME NEW s, NEW w \in s.workers, Sales(s)!ConvertCommit(w), NEW is, QuoteRows(quotes, is),
         job[w].quote \in DOMAIN quotes
  PROVE  /\ DOMAIN quotes' = DOMAIN quotes
         /\ quotes'[job[w].quote] =
              QuoteRow(quotes[job[w].quote].total, "CONVERTED", job[w].number)
         /\ \A o \in DOMAIN quotes : o # job[w].quote => quotes'[o] = quotes[o]
<1> DEFINE q == job[w].quote
           n == job[w].number
<1>1. PICK i : i = quotes[q]
  OBVIOUS
<1>2. i = QuoteRow(i.total, i.status, i.invoice)
  BY <1>1 DEF QuoteRows
<1>3. PICK a : a = [quotes EXCEPT ![q].status = "CONVERTED"]
  OBVIOUS
<1>4. PICK r : r = [i EXCEPT !.status = "CONVERTED"]
  OBVIOUS
<1>5. r = QuoteRow(i.total, "CONVERTED", i.invoice)
  BY <1>2, <1>4 DEF QuoteRow
<1>6. [r EXCEPT !.invoice = n] = QuoteRow(i.total, "CONVERTED", n)
  BY <1>5 DEF QuoteRow
<1>7. DOMAIN a = DOMAIN quotes /\ a[q] = r /\ \A o \in DOMAIN quotes : o # q => a[o] = quotes[o]
  BY <1>1, <1>3, <1>4
<1>8. quotes' = [a EXCEPT ![q].invoice = n] /\ q \in DOMAIN quotes
  BY <1>3 DEF Sales!ConvertCommit
<1> HIDE DEF q, n
<1>9. /\ DOMAIN quotes' = DOMAIN quotes /\ quotes'[q] = QuoteRow(i.total, "CONVERTED", n)
      /\ \A o \in DOMAIN quotes : o # q => quotes'[o] = quotes[o]
  BY <1>6, <1>7, <1>8
<1> QED
  BY <1>1, <1>9 DEF q, n

LEMMA QuoteMarked ==
  ASSUME NEW s, NEW v, NEW q \in DOMAIN quotes, NEW t, NEW is, QuoteRows(quotes, is),
         Sales(s)!SetQuoteStatus(v, q, t)
  PROVE  /\ DOMAIN quotes' = DOMAIN quotes
         /\ quotes'[q] = QuoteRow(quotes[q].total, t, quotes[q].invoice)
         /\ \A o \in DOMAIN quotes : o # q => quotes'[o] = quotes[o]
<1>1. PICK i : i = quotes[q]
  OBVIOUS
<1>2. i = QuoteRow(i.total, i.status, i.invoice)
  BY <1>1 DEF QuoteRows
<1>3. [i EXCEPT !.status = t] = QuoteRow(i.total, t, i.invoice)
  BY <1>2 DEF QuoteRow
<1>4. quotes' = [quotes EXCEPT ![q].status = t]
  BY DEF Sales!SetQuoteStatus
<1> QED
  BY <1>1, <1>3, <1>4

LEMMA QuoteEdited ==
  ASSUME NEW s, NEW w \in s.workers, Sales(s)!EditCommit(w), NEW is, QuoteRows(quotes, is),
         job[w].quote \in DOMAIN quotes, NEW i, i = quotes[job[w].quote]
  PROVE  /\ DOMAIN quotes' = DOMAIN quotes
         /\ quotes'[job[w].quote] =
              QuoteRow(job[w].total, IF job[w].status = None THEN i.status ELSE job[w].status,
                       i.invoice)
         /\ \A o \in DOMAIN quotes : o # job[w].quote => quotes'[o] = quotes[o]
<1> DEFINE q == job[w].quote
           t == job[w].total
<1>1. PICK a : a = [quotes EXCEPT ![q].total = t]
  OBVIOUS
<1>2. PICK y : y = IF job[w].status = None THEN i.status ELSE job[w].status
  OBVIOUS
<1>3. i = QuoteRow(i.total, i.status, i.invoice) /\ q \in DOMAIN quotes
  BY DEF QuoteRows
<1>4. PICK r : r = [i EXCEPT !.total = t]
  OBVIOUS
<1>5. r = QuoteRow(t, i.status, i.invoice)
  BY <1>3, <1>4 DEF QuoteRow
<1>6. /\ DOMAIN a = DOMAIN quotes /\ a[q] = r
      /\ \A o \in DOMAIN quotes : o # q => a[o] = quotes[o]
  BY <1>1, <1>3, <1>4
<1>7. r.status = i.status
  BY <1>5 DEF QuoteRow
<1>8. quotes' = [a EXCEPT ![q].status = y]
  BY <1>1, <1>2, <1>3, <1>6, <1>7 DEF Sales!EditCommit
<1>9. [r EXCEPT !.status = y] = QuoteRow(t, y, i.invoice)
  BY <1>5 DEF QuoteRow
<1>10. quotes'[q] = QuoteRow(t, y, i.invoice)
  BY <1>3, <1>6, <1>8, <1>9
<1> HIDE DEF q, t
<1>11. /\ DOMAIN quotes' = DOMAIN quotes
       /\ \A o \in DOMAIN quotes : o # q => quotes'[o] = quotes[o]
  BY <1>6, <1>8
<1> QED
  BY <1>2, <1>10, <1>11 DEF q, t

LEMMA BillConvert ==
  ASSUME NEW s, NEW w \in s.workers, BillInv(s), Sales(s)!ConvertCommit(w)
  PROVE  BillInv(s)'
<1> DEFINE n == job[w].number
           q == job[w].quote
           row == InvoiceRow(job[w].total, "DRAFT", 0, 0, q)
<1>0. /\ BillJob(pc[w], job[w], invoices, payments, notes, quotes, journals)
      /\ BillBooks(invoices, payments, notes, journals)
      /\ BillRows(invoices, payments, notes, quotes, journals)
  BY BillReady
<1>1. /\ pc[w] = "converted" /\ n \notin DOMAIN invoices
      /\ invoices' = Entered(invoices, n, row)
      /\ payments' = payments /\ notes' = notes /\ journals' = journals
      /\ quotes' = [quotes EXCEPT ![q].status = "CONVERTED", ![q].invoice = n]
      /\ Sales(s)!Done(w)
  BY DEF Sales!ConvertCommit, Sales!At, Sales!Free, Sales!Invoice, Sales!Entered, Entered, InvoiceRow
<1>2. q \in DOMAIN quotes /\ job[w].total \in Nat /\ NoneSkipped(invoices, n)
  BY <1>0, <1>1 DEF BillJob
<1>3. row.total = job[w].total /\ row.status = "DRAFT" /\ row.quote = q /\ InvoiceOK(row)
  BY <1>2 DEF InvoiceRow, InvoiceOK, InvoiceStatuses
<1>q. /\ DOMAIN quotes' = DOMAIN quotes
      /\ quotes'[q] = QuoteRow(quotes[q].total, "CONVERTED", n)
      /\ \A o \in DOMAIN quotes : o # q => quotes'[o] = quotes[o]
  BY <1>0, <1>2, QuoteConverted DEF BillRows
<1> HIDE DEF n, row, q
<1>4. /\ Numbered(invoices') /\ Adds(invoices', invoices, n) /\ invoices'[n] = row
      /\ \A m \in DOMAIN invoices : invoices'[m] = invoices[m]
  BY <1>0, <1>1, <1>2, NumberEntered DEF BillRows, InvoiceRows
<1>5. DOMAIN invoices \subseteq DOMAIN invoices' /\ DOMAIN invoices' = DOMAIN invoices \union {n}
  BY <1>4 DEF Adds
<1>6. InvoiceRows(invoices', quotes')
  BY <1>0, <1>2, <1>3, <1>4, <1>5, <1>q DEF BillRows, InvoiceRows
<1>7. BillBooks(invoices', payments', notes', journals')
  <2>1. IsFiniteSet(DOMAIN invoices')
    BY <1>4 DEF Numbered
  <2>2. \A m \in DOMAIN invoices : invoices'[m].total = invoices[m].total
    BY <1>4
  <2>3. \A m \in DOMAIN invoices' : invoices'[m].total \in Nat
    BY <1>6 DEF InvoiceRows, InvoiceOK
  <2>4. BillBooks(invoices', payments, notes, journals)
    BY <1>0, <1>5, <2>1, <2>2, <2>3, BillsChanged
  <2> QED
    BY <1>1, <2>4
<1>8. QuoteRows(quotes', invoices')
  <2> SUFFICES ASSUME NEW o \in DOMAIN quotes'
               PROVE  /\ quotes'[o] = QuoteRow(quotes'[o].total, quotes'[o].status, quotes'[o].invoice)
                      /\ quotes'[o].total \in Nat /\ quotes'[o].status \in QuotationStatuses
                      /\ quotes'[o].invoice \in DOMAIN invoices' \union {None}
    BY DEF QuoteRows
  <2>1. CASE o = q
    <3>1. PICK r : r = quotes'[o]
      OBVIOUS
    <3>2. r = QuoteRow(quotes[q].total, "CONVERTED", n) /\ quotes[q].total \in Nat
      BY <1>0, <1>2, <1>q, <2>1, <3>1 DEF BillRows, QuoteRows
    <3>3. r.total = quotes[q].total /\ r.status = "CONVERTED" /\ r.invoice = n
      BY <3>2 DEF QuoteRow
    <3>4. r = QuoteRow(r.total, r.status, r.invoice)
      BY <3>2, <3>3
    <3> QED
      BY <1>5, <3>1, <3>2, <3>3, <3>4 DEF QuotationStatuses
  <2>2. CASE o # q
    BY <1>0, <1>5, <1>q, <2>2 DEF BillRows, QuoteRows
  <2> QED
    BY <2>1, <2>2
<1>9. BillRows(invoices', payments', notes', quotes', journals')
  <2>1. PaymentRows(payments, invoices', journals) /\ NoteRows(notes, invoices')
    BY <1>0, <1>5 DEF BillRows, PaymentRows, NoteRows
  <2>2. ASSUME NEW m \in DOMAIN invoices' PROVE BilledOrNoted(m, invoices'[m], notes, journals)
    <3>1. CASE m = n
      BY <1>3, <1>4, <3>1 DEF BilledOrNoted
    <3>2. CASE m # n
      <4>1. m \in DOMAIN invoices /\ invoices'[m] = invoices[m]
        BY <1>4, <1>5, <3>2
      <4> QED
        BY <1>0, <4>1 DEF BillRows, AllBilledOrNoted
    <3> QED
      BY <3>1, <3>2
  <2> QED
    BY <1>1, <1>6, <1>8, <2>1, <2>2 DEF BillRows, AllBilledOrNoted
<1>10. Later(invoices, payments, notes, quotes, journals,
             invoices', payments', notes', quotes', journals')
  BY <1>1, <1>5, <1>q DEF Later
<1>11. \A v \in s.workers \ {w} : pc[v] = "unpaying" => job[v].payment \in DOMAIN payments'
  BY <1>1, BillReady
<1>12. Sales(s)!Done(w)
  BY <1>1
<1> QED
  BY ONLY BillInv(s), w \in s.workers, <1>7, <1>9, <1>10, <1>11, <1>12, BillEnd

LEMMA BillSend ==
  ASSUME NEW s, NEW w \in s.workers, BillInv(s), Sales(s)!SendCommit(w)
  PROVE  BillInv(s)'
<1> DEFINE n == job[w].number
<1>0. /\ BillJob(pc[w], job[w], invoices, payments, notes, quotes, journals)
      /\ BillBooks(invoices, payments, notes, journals)
      /\ BillRows(invoices, payments, notes, quotes, journals)
      /\ InvoiceRows(invoices, quotes)
  BY BillReady DEF BillRows
<1>1. /\ pc[w] = "mailing" /\ payments' = payments /\ notes' = notes /\ quotes' = quotes
      /\ Sales(s)!Done(w)
      /\ \/ /\ invoices' = [invoices EXCEPT ![n].status = "SENT"]
            /\ journals' = Posted(journals, BillNumber(n), Pair("1100", "4000", invoices[n].total))
         \/ invoices' = invoices /\ journals' = journals
  BY SalesBooks DEF Sales!SendCommit, Sales!At, Sales!Billed, BillNumber
<1>2. n \in DOMAIN invoices
  BY <1>0, <1>1 DEF BillJob
<1>3. \A v \in s.workers \ {w} : pc[v] = "unpaying" => job[v].payment \in DOMAIN payments'
  BY <1>1, BillReady
<1> HIDE DEF n
<1>4. CASE invoices' = invoices /\ journals' = journals
  <2>1. /\ BillBooks(invoices', payments', notes', journals')
        /\ BillRows(invoices', payments', notes', quotes', journals')
    BY <1>0, <1>1, <1>4
  <2>2. Later(invoices, payments, notes, quotes, journals,
              invoices', payments', notes', quotes', journals')
    BY <1>1, <1>4 DEF Later
  <2>3. Sales(s)!Done(w)
    BY <1>1
  <2> QED
    BY ONLY BillInv(s), w \in s.workers, <1>3, <2>1, <2>2, <2>3, BillEnd
<1>5. CASE /\ invoices' = [invoices EXCEPT ![n].status = "SENT"]
           /\ journals' = Posted(journals, BillNumber(n), Pair("1100", "4000", invoices[n].total))
  <2>1. InvoiceRows(invoices', quotes) /\ Edited(invoices, invoices', n, "SENT")
    <3>1. EditOf(invoices, invoices', n, 0, "SENT") /\ "SENT" \in InvoiceStatuses /\ 0 \in Int
      BY <1>5 DEF EditOf, InvoiceStatuses
    <3> QED
      BY ONLY <1>0, <1>2, <3>1, EditedBill
  <2>2. /\ BillBooks(invoices, payments, notes, journals')
        /\ DOMAIN journals \subseteq DOMAIN journals' /\ BillNumber(n) \in DOMAIN journals'
    BY ONLY <1>0, <1>2, <1>5, BillPosted
  <2>3. BillBooks(invoices', payments, notes, journals')
    BY ONLY <2>1, <2>2, EditedBooks
  <2>4. BillRows(invoices', payments, notes, quotes, journals')
    <3>1. PaymentRows(payments, invoices, journals') /\ NoteRows(notes, invoices)
      BY <1>0, <2>2 DEF BillRows, PaymentRows
    <3>2. BilledOrNoted(n, invoices'[n], notes, journals')
      BY <2>2 DEF BilledOrNoted
    <3> QED
      BY ONLY <1>0, <1>2, <2>1, <2>2, <3>1, <3>2, EditedTables
  <2>5. Later(invoices, payments, notes, quotes, journals,
              invoices', payments', notes', quotes', journals')
    BY <1>1, <2>1, <2>2 DEF Later, Edited
  <2>6. /\ BillBooks(invoices', payments', notes', journals')
        /\ BillRows(invoices', payments', notes', quotes', journals') /\ Sales(s)!Done(w)
    BY <1>1, <2>3, <2>4
  <2> QED
    BY ONLY BillInv(s), w \in s.workers, <1>3, <2>5, <2>6, BillEnd
<1> QED
  BY <1>1, <1>4, <1>5

LEMMA BillPay ==
  ASSUME NEW s, NEW w \in s.workers, BillInv(s), Sales(s)!PayCommit(w)
  PROVE  BillInv(s)'
<1> DEFINE n == job[w].number
           a == job[w].amount
           id == Cardinality(ReceiptsIn(journals)) + 1
           row == [invoice |-> n, amount |-> a, ref |-> job[w].ref]
           paid == job[w].seen.paid + a
           y == Sales(s)!Settled(job[w].seen, paid, job[w].seen.credited)
           mid == Posted(journals, BillNumber(n), Pair("1100", "4000", invoices[n].total))
<1>0. /\ BillJob(pc[w], job[w], invoices, payments, notes, quotes, journals)
      /\ BillBooks(invoices, payments, notes, journals)
      /\ BillRows(invoices, payments, notes, quotes, journals)
      /\ InvoiceRows(invoices, quotes)
  BY BillReady DEF BillRows
<1>r. Sales(s)!Receipts = Cardinality(ReceiptsIn(journals))
  BY Zenon DEF Sales!Receipts, Sales!Cardinality, Cardinality, ReceiptsIn
<1>1. /\ pc[w] = "paying" /\ notes' = notes /\ quotes' = quotes
      /\ Sales(s)!Done(w)
      /\ payments' = Entered(payments, id, row)
      /\ invoices' = [invoices EXCEPT ![n].paid = paid, ![n].status = y]
      /\ journals' = Posted(mid, ReceiptNumber(id), Pair("1000", "1100", a))
  BY SalesBooks, <1>r DEF Sales!PayCommit, Sales!At, Sales!Billed, BillNumber, ReceiptNumber,
                          Sales!Entered, Entered
<1>2. n \in DOMAIN invoices /\ a \in Nat \ {0} /\ paid \in Int
  BY <1>0, <1>1 DEF BillJob, SeenOK
<1>3. y \in InvoiceStatuses
  BY BillStatuses
<1> HIDE DEF paid, y
<1>4. InvoiceRows(invoices', quotes) /\ Edited(invoices, invoices', n, y)
  <2>1. EditOf(invoices, invoices', n, paid, y)
    BY <1>1 DEF EditOf
  <2> QED
    BY ONLY <1>0, <1>2, <1>3, <2>1, EditedBill
<1>5. PICK mid2 : mid2 = mid
  OBVIOUS
<1>6. /\ BillBooks(invoices, payments, notes, mid2)
      /\ DOMAIN journals \subseteq DOMAIN mid2 /\ BillNumber(n) \in DOMAIN mid2
      /\ ReceiptsIn(mid2) = ReceiptsIn(journals)
  <2>1. mid2 = Posted(journals, BillNumber(n), Pair("1100", "4000", invoices[n].total))
    BY <1>5
  <2> QED
    BY ONLY <1>0, <1>2, <2>1, BillPosted
<1>7. id = Cardinality(ReceiptsIn(mid2)) + 1 /\ row.amount = a /\ row.invoice = n
  BY <1>6
<1>8. journals' = Posted(mid2, ReceiptNumber(id), Pair("1000", "1100", row.amount))
  BY <1>1, <1>5, <1>7
<1> HIDE DEF n, a, id, row, mid
<1>9. /\ BillBooks(invoices, payments', notes, journals')
      /\ DOMAIN mid2 \subseteq DOMAIN journals' /\ Adds(payments', payments, id)
      /\ ReceiptNumber(id) \notin DOMAIN mid2
  <2>1. row.amount \in Nat \ {0} /\ payments' = Entered(payments, id, row)
    BY <1>1, <1>2, <1>7
  <2> QED
    BY ONLY <1>6, <1>7, <1>8, <2>1, PaidIn
<1>10. /\ DOMAIN payments' = DOMAIN payments \union {id} /\ payments'[id] = row
       /\ \A p \in DOMAIN payments : payments'[p] = payments[p]
       /\ ReceiptNumber(id) \notin DOMAIN journals
       /\ DOMAIN journals \subseteq DOMAIN journals' /\ BillNumber(n) \in DOMAIN journals'
  BY <1>1, <1>6, <1>9 DEF Adds, Entered
<1>11. BillBooks(invoices', payments', notes, journals')
  BY ONLY <1>4, <1>9, EditedBooks
<1>12. BillRows(invoices', payments', notes, quotes, journals')
  <2>1. PaymentRows(payments', invoices, journals') /\ NoteRows(notes, invoices)
    BY <1>0, <1>2, <1>7, <1>10 DEF BillRows, PaymentRows
  <2>2. BilledOrNoted(n, invoices'[n], notes, journals')
    BY <1>10 DEF BilledOrNoted
  <2> QED
    BY ONLY <1>0, <1>2, <1>4, <1>10, <2>1, <2>2, EditedTables
<1>13. Later(invoices, payments, notes, quotes, journals,
             invoices', payments', notes', quotes', journals')
  BY <1>1, <1>4, <1>10 DEF Later, Edited
<1>14. \A v \in s.workers \ {w} : pc[v] = "unpaying" => job[v].payment \in DOMAIN payments'
  BY <1>10, BillReady
<1>15. /\ BillBooks(invoices', payments', notes', journals')
       /\ BillRows(invoices', payments', notes', quotes', journals') /\ Sales(s)!Done(w)
  BY <1>1, <1>11, <1>12
<1> QED
  BY ONLY BillInv(s), w \in s.workers, <1>13, <1>14, <1>15, BillEnd

LEMMA BillUnpay ==
  ASSUME NEW s, NEW w \in s.workers, BillInv(s), Sales(s)!UnpayCommit(w)
  PROVE  BillInv(s)'
<1> DEFINE n == job[w].row.invoice
           p == job[w].payment
           paid == job[w].seen.paid - job[w].row.amount
           y == Sales(s)!Unsettled(job[w].seen, paid, job[w].seen.credited)
<1>0. /\ BillJob(pc[w], job[w], invoices, payments, notes, quotes, journals)
      /\ BillBooks(invoices, payments, notes, journals)
      /\ BillRows(invoices, payments, notes, quotes, journals)
      /\ InvoiceRows(invoices, quotes)
  BY BillReady DEF BillRows
<1>1. /\ pc[w] = "unpaying" /\ notes' = notes /\ quotes' = quotes
      /\ Sales(s)!Done(w)
      /\ payments' = Without(payments, p)
      /\ invoices' = [invoices EXCEPT ![n].paid = paid, ![n].status = y]
      /\ journals' = Reversed(journals, ReceiptNumber(p), RefundNumber(p))
  BY SalesBooks DEF Sales!UnpayCommit, Sales!At, RefundNumber, ReceiptNumber, Without
<1>2. n \in DOMAIN invoices /\ paid \in Int /\ p \in DOMAIN payments
      /\ BillNumber(n) \in DOMAIN journals
  BY <1>0, <1>1 DEF BillJob, SeenOK
<1>3. y \in InvoiceStatuses
  BY BillStatuses
<1>l. \A v \in s.workers \ {w} : pc[v] = "unpaying" => job[v].payment # p
  BY <1>1 DEF BillInv
<1> HIDE DEF paid, y, n, p
<1>4. InvoiceRows(invoices', quotes) /\ Edited(invoices, invoices', n, y)
  <2>1. EditOf(invoices, invoices', n, paid, y)
    BY <1>1 DEF EditOf
  <2> QED
    BY ONLY <1>0, <1>2, <1>3, <2>1, EditedBill
<1>5. /\ BillBooks(invoices, payments', notes, journals')
      /\ DOMAIN journals \subseteq DOMAIN journals' /\ OneMore(DOMAIN payments, DOMAIN payments', p)
      /\ \A q \in DOMAIN payments' : payments'[q] = payments[q]
  BY ONLY <1>0, <1>1, <1>2, PaidBack
<1>6. DOMAIN payments = DOMAIN payments' \union {p}
  BY <1>5 DEF OneMore
<1>7. BillBooks(invoices', payments', notes, journals')
  BY ONLY <1>4, <1>5, EditedBooks
<1>8. BillRows(invoices', payments', notes, quotes, journals')
  <2>1. PaymentRows(payments', invoices, journals') /\ NoteRows(notes, invoices)
    <3>1. \A q \in DOMAIN payments' :
            /\ payments'[q].invoice \in DOMAIN invoices
            /\ BillNumber(payments'[q].invoice) \in DOMAIN journals'
      BY <1>0, <1>5, <1>6 DEF BillRows, PaymentRows
    <3> QED
      BY <1>0, <3>1 DEF BillRows, PaymentRows
  <2>2. BilledOrNoted(n, invoices'[n], notes, journals')
    BY <1>2, <1>5 DEF BilledOrNoted
  <2> QED
    BY ONLY <1>0, <1>2, <1>4, <1>5, <2>1, <2>2, EditedTables
<1>9. Later(invoices, payments, notes, quotes, journals,
            invoices', payments', notes', quotes', journals')
  <2>1. DOMAIN invoices' = DOMAIN invoices /\ DOMAIN payments' \subseteq DOMAIN payments
    BY <1>4, <1>6 DEF Edited
  <2>2. notes' = notes /\ quotes' = quotes
    BY <1>1
  <2> QED
    BY ONLY <1>5, <2>1, <2>2 DEF Later
<1>10. \A v \in s.workers \ {w} : pc[v] = "unpaying" => job[v].payment \in DOMAIN payments'
  <2>1. \A v \in s.workers \ {w} : pc[v] = "unpaying" => job[v].payment \in DOMAIN payments
    BY BillReady
  <2> QED
    BY ONLY <1>l, <1>6, <2>1
<1>11. /\ BillBooks(invoices', payments', notes', journals')
       /\ BillRows(invoices', payments', notes', quotes', journals') /\ Sales(s)!Done(w)
  BY <1>1, <1>7, <1>8
<1> QED
  BY ONLY BillInv(s), w \in s.workers, <1>9, <1>10, <1>11, BillEnd

LEMMA BillCredit ==
  ASSUME NEW s, NEW w \in s.workers, BillInv(s), Sales(s)!CreditCommit(w)
  PROVE  BillInv(s)'
<1> DEFINE n == job[w].number
           a == job[w].amount
           c == job[w].note
           row == NoteRow(n, a, FALSE)
           credited == invoices[n].credited + a
           y == Sales(s)!Settled(job[w].seen, job[w].seen.paid, job[w].seen.credited + a)
<1>0. /\ BillJob(pc[w], job[w], invoices, payments, notes, quotes, journals)
      /\ BillBooks(invoices, payments, notes, journals)
      /\ BillRows(invoices, payments, notes, quotes, journals)
      /\ InvoiceRows(invoices, quotes)
  BY BillReady DEF BillRows
<1>1. /\ pc[w] = "crediting" /\ payments' = payments /\ quotes' = quotes
      /\ Sales(s)!Done(w) /\ c \notin DOMAIN notes
      /\ notes' = Entered(notes, c, row)
      /\ invoices' = [invoices EXCEPT ![n].credited = credited, ![n].status = y]
      /\ journals' = Posted(journals, CreditNumber(c), Pair("4000", "1100", a))
  BY SalesBooks DEF Sales!CreditCommit, Sales!At, Sales!Free, Sales!Credited, CreditNumber,
                    Sales!Entered, Entered, NoteRow
<1>2. n \in DOMAIN invoices /\ a \in Nat \ {0} /\ credited \in Int
  BY <1>0, <1>1 DEF BillJob, InvoiceRows, InvoiceOK
<1>3. y \in InvoiceStatuses
  BY BillStatuses
<1>r. row.invoice = n /\ row.amount = a /\ row.void = FALSE
      /\ row = NoteRow(row.invoice, row.amount, row.void)
  BY DEF NoteRow
<1> HIDE DEF credited, y, row, n, a, c
<1>4. InvoiceRows(invoices', quotes) /\ Edited(invoices, invoices', n, y)
  <2>1. EditOf(invoices, invoices', n, credited, y)
    BY <1>1 DEF EditOf
  <2> QED
    BY ONLY <1>0, <1>2, <1>3, <2>1, EditedBill
<1>5. /\ BillBooks(invoices, payments, notes', journals')
      /\ DOMAIN journals \subseteq DOMAIN journals' /\ Adds(notes', notes, c)
      /\ ReceiptsIn(journals') = ReceiptsIn(journals)
  <2>1. journals' = Posted(journals, CreditNumber(c), Pair("4000", "1100", row.amount))
    BY <1>1, <1>r
  <2>2. FreshNote(row)
    BY <1>2, <1>r DEF FreshNote
  <2> QED
    BY ONLY <1>0, <1>1, <2>1, <2>2, CreditGiven
<1>6. /\ DOMAIN notes' = DOMAIN notes \union {c} /\ notes'[c] = row
      /\ \A k \in DOMAIN notes : notes'[k] = notes[k]
  BY <1>1 DEF Entered
<1>7. BillBooks(invoices', payments, notes', journals')
  BY ONLY <1>4, <1>5, EditedBooks
<1>8. BillRows(invoices', payments, notes', quotes, journals')
  <2>1. PaymentRows(payments, invoices, journals')
    BY <1>0, <1>5 DEF BillRows, PaymentRows
  <2>2. NoteRows(notes', invoices)
    <3>1. ASSUME NEW k \in DOMAIN notes'
          PROVE  /\ notes'[k] = NoteRow(notes'[k].invoice, notes'[k].amount, notes'[k].void)
                 /\ notes'[k].invoice \in DOMAIN invoices
      <4>1. CASE k = c
        BY <1>2, <1>6, <1>r, <4>1
      <4>2. CASE k # c
        BY <1>0, <1>6, <4>2 DEF BillRows, NoteRows
      <4> QED
        BY <4>1, <4>2
    <3> QED
      BY <3>1 DEF NoteRows
  <2>3. BilledOrNoted(n, invoices'[n], notes', journals')
    BY <1>6, <1>r DEF BilledOrNoted
  <2>4. DOMAIN notes \subseteq DOMAIN notes'
        /\ \A k \in DOMAIN notes : notes'[k].invoice = notes[k].invoice
    BY <1>6
  <2> QED
    BY ONLY <1>0, <1>2, <1>4, <1>5, <2>1, <2>2, <2>3, <2>4, EditedTables
<1>9. Later(invoices, payments, notes, quotes, journals,
            invoices', payments', notes', quotes', journals')
  BY <1>1, <1>4, <1>5, <1>6 DEF Later, Edited
<1>10. \A v \in s.workers \ {w} : pc[v] = "unpaying" => job[v].payment \in DOMAIN payments'
  BY <1>1, BillReady
<1>11. /\ BillBooks(invoices', payments', notes', journals')
       /\ BillRows(invoices', payments', notes', quotes', journals') /\ Sales(s)!Done(w)
  BY <1>1, <1>7, <1>8
<1> QED
  BY ONLY BillInv(s), w \in s.workers, <1>9, <1>10, <1>11, BillEnd

LEMMA BillUncredit ==
  ASSUME NEW s, NEW w \in s.workers, BillInv(s), Sales(s)!UncreditCommit(w)
  PROVE  BillInv(s)'
<1> DEFINE c == job[w].note
           n == notes[c].invoice
           credited == job[w].seen.credited - notes[c].amount
           y == Sales(s)!Unsettled(job[w].seen, job[w].seen.paid, credited)
<1>0. /\ BillJob(pc[w], job[w], invoices, payments, notes, quotes, journals)
      /\ BillBooks(invoices, payments, notes, journals)
      /\ BillRows(invoices, payments, notes, quotes, journals)
      /\ InvoiceRows(invoices, quotes)
  BY BillReady DEF BillRows
<1>1. /\ pc[w] = "uncrediting" /\ payments' = payments /\ quotes' = quotes
      /\ Sales(s)!Done(w)
      /\ notes' = [notes EXCEPT ![c].void = TRUE]
      /\ invoices' = [invoices EXCEPT ![n].credited = credited, ![n].status = y]
      /\ journals' = Reversed(journals, CreditNumber(c), UndoneNumber(c))
  BY SalesBooks DEF Sales!UncreditCommit, Sales!At, CreditNumber, UndoneNumber
<1>2. c \in DOMAIN notes /\ n \in DOMAIN invoices /\ credited \in Int
  BY <1>0, <1>1 DEF BillJob, SeenOK, BillRows, NoteRows, BillBooks, NotesOK
<1>3. y \in InvoiceStatuses
  BY BillStatuses
<1>n. /\ DOMAIN notes' = DOMAIN notes /\ notes'[c] = NoteRow(notes[c].invoice, notes[c].amount, TRUE)
      /\ \A k \in DOMAIN notes : k # c => notes'[k] = notes[k]
  <2>1. PICK i : i = notes[c]
    OBVIOUS
  <2>2. i = NoteRow(i.invoice, i.amount, i.void)
    BY <1>0, <1>2, <2>1 DEF BillRows, NoteRows
  <2>3. PICK b : b = TRUE
    OBVIOUS
  <2>4. [i EXCEPT !.void = b] = NoteRow(i.invoice, i.amount, b)
    BY <2>2 DEF NoteRow
  <2> HIDE DEF credited, y, n, c
  <2>5. notes' = [notes EXCEPT ![c].void = b]
    BY <1>1, <2>3
  <2>6. notes'[c] = NoteRow(i.invoice, i.amount, b) /\ DOMAIN notes' = DOMAIN notes
    BY <1>2, <2>1, <2>4, <2>5
  <2>7. \A k \in DOMAIN notes : k # c => notes'[k] = notes[k]
    BY <2>5
  <2> QED
    BY <2>1, <2>3, <2>6, <2>7
<1> HIDE DEF credited, y
<1>4. InvoiceRows(invoices', quotes) /\ Edited(invoices, invoices', n, y)
  <2>1. EditOf(invoices, invoices', n, credited, y)
    BY <1>1 DEF EditOf
  <2> HIDE DEF n
  <2> QED
    BY ONLY <1>0, <1>2, <1>3, <2>1, EditedBill
<1>5. PICK row : row = notes'[c]
  OBVIOUS
<1>6. row = NoteRow(n, notes[c].amount, TRUE) /\ row.invoice = n
      /\ row.amount = notes[c].amount /\ row.void = TRUE
  BY <1>5, <1>n DEF NoteRow
<1> HIDE DEF n, c
<1>7. /\ BillBooks(invoices, payments, notes', journals')
      /\ DOMAIN journals \subseteq DOMAIN journals' /\ ReceiptsIn(journals') = ReceiptsIn(journals)
  <2>1. VoidedIn(notes, notes', c)
    BY <1>5, <1>6, <1>n DEF VoidedIn
  <2>2. journals' = Reversed(journals, CreditNumber(c), UndoneNumber(c))
    BY <1>1
  <2> QED
    BY ONLY <1>0, <1>2, <2>1, <2>2, CreditVoided
<1>8. BillBooks(invoices', payments, notes', journals')
  BY ONLY <1>4, <1>7, EditedBooks
<1>9. \A k \in DOMAIN notes : notes'[k].invoice = notes[k].invoice
  BY <1>5, <1>6, <1>n DEF n
<1>10. BillRows(invoices', payments, notes', quotes, journals')
  <2>1. PaymentRows(payments, invoices, journals')
    BY <1>0, <1>7 DEF BillRows, PaymentRows
  <2>2. NoteRows(notes', invoices)
    <3>1. ASSUME NEW k \in DOMAIN notes'
          PROVE  /\ notes'[k] = NoteRow(notes'[k].invoice, notes'[k].amount, notes'[k].void)
                 /\ notes'[k].invoice \in DOMAIN invoices
      <4>1. CASE k = c
        <5>1. row = NoteRow(row.invoice, row.amount, row.void)
          BY <1>6
        <5> QED
          BY <1>2, <1>5, <1>6, <4>1, <5>1
      <4>2. CASE k # c
        BY <1>0, <1>n, <4>2 DEF BillRows, NoteRows
      <4> QED
        BY <4>1, <4>2
    <3> QED
      BY <3>1 DEF NoteRows
  <2>3. BilledOrNoted(n, invoices'[n], notes', journals')
    BY <1>2, <1>5, <1>6, <1>n DEF BilledOrNoted
  <2>4. DOMAIN notes \subseteq DOMAIN notes'
    BY <1>n
  <2> QED
    BY ONLY <1>0, <1>2, <1>4, <1>7, <1>9, <2>1, <2>2, <2>3, <2>4, EditedTables
<1>11. Later(invoices, payments, notes, quotes, journals,
             invoices', payments', notes', quotes', journals')
  BY <1>1, <1>4, <1>7, <1>n DEF Later, Edited
<1>12. \A v \in s.workers \ {w} : pc[v] = "unpaying" => job[v].payment \in DOMAIN payments'
  BY <1>1, BillReady
<1>13. /\ BillBooks(invoices', payments', notes', journals')
       /\ BillRows(invoices', payments', notes', quotes', journals') /\ Sales(s)!Done(w)
  BY <1>1, <1>8, <1>10
<1> QED
  BY ONLY BillInv(s), w \in s.workers, <1>11, <1>12, <1>13, BillEnd

(* Quotations: one is written, edited, or gets a status.                   *)
LEMMA BillQuote ==
  ASSUME NEW s, NEW w \in s.workers, BillInv(s),
         Sales(s)!QuoteCommit(w) \/ Sales(s)!EditCommit(w)
  PROVE  BillInv(s)'
<1>0. /\ BillJob(pc[w], job[w], invoices, payments, notes, quotes, journals)
      /\ BillBooks(invoices, payments, notes, journals)
      /\ BillRows(invoices, payments, notes, quotes, journals)
  BY BillReady
<1>1. /\ invoices' = invoices /\ payments' = payments /\ notes' = notes /\ journals' = journals
      /\ Sales(s)!Done(w)
  BY DEF Sales!QuoteCommit, Sales!EditCommit
<1>2. QuoteRows(quotes', invoices) /\ DOMAIN quotes \subseteq DOMAIN quotes'
  <2>1. CASE Sales(s)!QuoteCommit(w)
    <3> DEFINE n == job[w].number
    <3>0. PICK y : y = IF job[w].status = None THEN "DRAFT" ELSE job[w].status
      OBVIOUS
    <3>1. PICK r : r = QuoteRow(job[w].total, y, None)
      OBVIOUS
    <3>2. pc[w] = "quoting" /\ n \notin DOMAIN quotes /\ quotes' = Entered(quotes, n, r)
      BY <2>1, <3>0, <3>1
      DEF Sales!QuoteCommit, Sales!At, Sales!Free, Sales!Entered, Entered, QuoteRow
    <3>3. job[w].total \in Nat /\ y \in QuotationStatuses
      BY <1>0, <3>0, <3>2 DEF BillJob, QuotationStatuses
    <3>4. /\ r = QuoteRow(r.total, r.status, r.invoice) /\ r.total \in Nat
          /\ r.status \in QuotationStatuses /\ r.invoice = None
      BY <3>1, <3>3 DEF QuoteRow
    <3> HIDE DEF n
    <3>5. /\ DOMAIN quotes' = DOMAIN quotes \union {n} /\ quotes'[n] = r
          /\ \A q \in DOMAIN quotes : quotes'[q] = quotes[q]
      BY <3>2 DEF Entered
    <3> QED
      BY <1>0, <3>4, <3>5 DEF BillRows, QuoteRows
  <2>2. CASE Sales(s)!EditCommit(w)
    <3>1. pc[w] = "editing"
      BY <2>2 DEF Sales!EditCommit, Sales!At
    <3>2. /\ job[w].quote \in DOMAIN quotes /\ job[w].total \in Nat
          /\ job[w].status \in QuotationStatuses \union {None}
      BY <1>0, <3>1 DEF BillJob
    <3>3. PICK i : i = quotes[job[w].quote]
      OBVIOUS
    <3>4. PICK y : y = IF job[w].status = None THEN i.status ELSE job[w].status
      OBVIOUS
    <3>5. PICK r : r = QuoteRow(job[w].total, y, i.invoice)
      OBVIOUS
    <3>6. /\ i = QuoteRow(i.total, i.status, i.invoice) /\ i.status \in QuotationStatuses
          /\ i.invoice \in DOMAIN invoices \union {None}
      BY <1>0, <3>2, <3>3 DEF BillRows, QuoteRows
    <3>7. y \in QuotationStatuses
      BY <3>2, <3>4, <3>6
    <3>8. /\ DOMAIN quotes' = DOMAIN quotes /\ quotes'[job[w].quote] = r
          /\ \A o \in DOMAIN quotes : o # job[w].quote => quotes'[o] = quotes[o]
      BY <1>0, <2>2, <3>2, <3>3, <3>4, <3>5, QuoteEdited DEF BillRows
    <3>9. r = QuoteRow(r.total, r.status, r.invoice) /\ r.total = job[w].total
          /\ r.status = y /\ r.invoice = i.invoice
      BY <3>5 DEF QuoteRow
    <3> QED
      BY <1>0, <3>2, <3>6, <3>7, <3>8, <3>9 DEF BillRows, QuoteRows
  <2> QED
    BY <2>1, <2>2
<1>3. BillRows(invoices', payments', notes', quotes', journals')
  <2>1. InvoiceRows(invoices, quotes')
    BY <1>0, <1>2 DEF BillRows, InvoiceRows
  <2> QED
    BY <1>0, <1>1, <1>2, <2>1 DEF BillRows
<1>4. Later(invoices, payments, notes, quotes, journals,
            invoices', payments', notes', quotes', journals')
  BY <1>1, <1>2 DEF Later
<1>5. BillBooks(invoices', payments', notes', journals') /\ Sales(s)!Done(w)
  BY <1>0, <1>1
<1>6. \A v \in s.workers \ {w} : pc[v] = "unpaying" => job[v].payment \in DOMAIN payments'
  BY <1>1, BillReady
<1> QED
  BY ONLY BillInv(s), w \in s.workers, <1>3, <1>4, <1>5, <1>6, BillEnd

LEMMA BillStatus ==
  ASSUME NEW s, NEW v \in s.workers, NEW q \in DOMAIN quotes, NEW t \in s.asks,
         Sales(s)!ReceivablesAssumption, BillInv(s), Sales(s)!SetQuoteStatus(v, q, t)
  PROVE  BillInv(s)'
<1>1. UNCHANGED <<invoices, payments, notes, journals, pc, job>>
  BY DEF Sales!SetQuoteStatus, Sales!requestVars
<1>0. BillRows(invoices, payments, notes, quotes, journals)
  BY DEF BillInv
<1>2. PICK i : i = quotes[q]
  OBVIOUS
<1>3. PICK r : r = QuoteRow(i.total, t, i.invoice)
  OBVIOUS
<1>4. i.total \in Nat /\ i.invoice \in DOMAIN invoices \union {None}
  BY <1>0, <1>2 DEF BillRows, QuoteRows
<1>5. /\ r = QuoteRow(r.total, r.status, r.invoice) /\ r.total = i.total
      /\ r.status \in QuotationStatuses /\ r.invoice = i.invoice
  BY <1>3 DEF QuoteRow, Sales!ReceivablesAssumption, Sales!QuotationStatuses, QuotationStatuses
<1>6. /\ DOMAIN quotes' = DOMAIN quotes /\ quotes'[q] = r
      /\ \A o \in DOMAIN quotes : o # q => quotes'[o] = quotes[o]
  BY <1>0, <1>2, <1>3, QuoteMarked DEF BillRows
<1>7. QuoteRows(quotes', invoices)
  BY <1>0, <1>4, <1>5, <1>6 DEF BillRows, QuoteRows
<1>8. BillRows(invoices', payments', notes', quotes', journals')
  <2>1. InvoiceRows(invoices, quotes')
    BY <1>0, <1>6 DEF BillRows, InvoiceRows
  <2> QED
    BY <1>0, <1>1, <1>7, <2>1 DEF BillRows
<1>9. Later(invoices, payments, notes, quotes, journals,
            invoices', payments', notes', quotes', journals')
  BY <1>1, <1>6 DEF Later
<1>10. ASSUME NEW w \in s.workers
       PROVE  BillJob(pc'[w], job'[w], invoices', payments', notes', quotes', journals')
  <2>1. BillJob(pc[w], job[w], invoices, payments, notes, quotes, journals)
    BY DEF BillInv
  <2>2. pc[w] = "unpaying" => job[w].payment \in DOMAIN payments'
    BY <1>1, <2>1 DEF BillJob
  <2>3. BillJob(pc[w], job[w], invoices', payments', notes', quotes', journals')
    BY ONLY <1>9, <2>1, <2>2, BillJobLater
  <2> QED
    BY <1>1, <2>3
<1>11. BillBooks(invoices', payments', notes', journals')
  BY <1>1 DEF BillInv
<1> QED
  BY <1>1, <1>8, <1>10, <1>11 DEF BillInv

LEMMA BillAbort ==
  ASSUME NEW s, NEW w \in s.workers, BillInv(s), Sales(s)!Abort(w)
  PROVE  BillInv(s)'
<1>1. /\ UNCHANGED <<invoices, payments, notes, quotes, journals>>
      /\ Sales(s)!Turn(w, "idle", None)
  BY DEF Sales!Abort, Sales!GiveUp, Sales!Done, Sales!rowVars
<1>2. BillJob("idle", None, invoices, payments, notes, quotes, journals)
  BY DEF BillJob, BillLabels
<1> QED
  BY <1>1, <1>2, BillRead

(* A scene in which nothing is taken back does some of what the others do. *)
LEMMA BillForward ==
  ASSUME NEW s, Sales(s)!ForwardNext
  PROVE  Sales(s)!Next
BY DEF Sales!ForwardNext, Sales!Next, Sales!Paying, Sales!Crediting

LEMMA BillNext ==
  ASSUME NEW s, Sales(s)!ReceivablesAssumption, BillInv(s), Sales(s)!Next
  PROVE  BillInv(s)'
<1>2. ASSUME NEW w \in s.workers, Sales(s)!Invoicing(w)
      PROVE  BillInv(s)'
  <2>1. CASE Sales(s)!CreateCommit(w)
    BY <2>1, BillCreate
  <2>2. CASE Sales(s)!SendCommit(w)
    BY <2>2, BillSend
  <2>3. CASE \/ \E b \in s.bills : Sales(s)!CreateRead(w, b)
             \/ \E n \in DOMAIN invoices : Sales(s)!SendRead(w, n)
    BY <2>3, BillReads
  <2> QED
    BY <1>2, <2>1, <2>2, <2>3 DEF Sales!Invoicing
<1>3. ASSUME NEW w \in s.workers, Sales(s)!Paying(w)
      PROVE  BillInv(s)'
  <2>1. CASE Sales(s)!PayCommit(w)
    BY <2>1, BillPay
  <2>2. CASE Sales(s)!UnpayCommit(w)
    BY <2>2, BillUnpay
  <2>3. CASE Sales(s)!UnpayDelete(w)
    BY <2>3, BillLocks
  <2>4. CASE \/ \E n \in DOMAIN invoices, a \in s.amounts, r \in s.references :
                  Sales(s)!PayRead(w, n, a, r)
             \/ \E p \in DOMAIN payments : Sales(s)!UnpayRead(w, p)
    BY <2>4, BillReads
  <2> QED
    BY <1>3, <2>1, <2>2, <2>3, <2>4 DEF Sales!Paying
<1>4. ASSUME NEW w \in s.workers, Sales(s)!Crediting(w)
      PROVE  BillInv(s)'
  <2>1. CASE Sales(s)!CreditCommit(w)
    BY <2>1, BillCredit
  <2>2. CASE Sales(s)!UncreditCommit(w)
    BY <2>2, BillUncredit
  <2>3. CASE Sales(s)!UncreditMark(w)
    BY <2>3, BillLocks
  <2>4. CASE \/ \E n \in DOMAIN invoices, a \in s.amounts, r \in s.references :
                  Sales(s)!CreditRead(w, n, a, r)
             \/ \E k \in DOMAIN notes : Sales(s)!UncreditRead(w, k)
    BY <2>4, BillReads
  <2> QED
    BY <1>4, <2>1, <2>2, <2>3, <2>4 DEF Sales!Crediting
<1>5. ASSUME NEW w \in s.workers, Sales(s)!Quoting(w)
      PROVE  BillInv(s)'
  <2>1. CASE Sales(s)!QuoteCommit(w) \/ Sales(s)!EditCommit(w)
    BY <2>1, BillQuote
  <2>2. CASE Sales(s)!ConvertCommit(w)
    BY <2>2, BillConvert
  <2>3. CASE \/ \E e \in s.estimates : Sales(s)!QuoteRead(w, e)
             \/ \E q \in DOMAIN quotes : \/ Sales(s)!ConvertRead(w, q)
                                         \/ \E e \in s.estimates : Sales(s)!EditRead(w, q, e)
             \/ Sales(s)!ConvertNumber(w)
    BY <2>3, BillReads
  <2>4. ASSUME NEW q \in DOMAIN quotes, NEW t \in s.asks, Sales(s)!SetQuoteStatus(w, q, t)
        PROVE  BillInv(s)'
    BY <2>4, BillStatus
  <2> QED
    BY <1>5, <2>1, <2>2, <2>3, <2>4 DEF Sales!Quoting
<1> QED
  BY <1>2, <1>3, <1>4, <1>5, BillAbort DEF Sales!Next

LEMMA BillStart ==
  ASSUME NEW s, Sales(s)!Init
  PROVE  BillInv(s)
<1> DEFINE E == [k \in {} |-> {}]
<1>1. /\ invoices = E /\ payments = E /\ notes = E /\ quotes = E /\ journals = E
      /\ DOMAIN pc = s.workers /\ DOMAIN job = s.workers /\ \A w \in s.workers : pc[w] = "idle"
  BY DEF Sales!Init, Sales!EmptyTable, Sales!NoRequests
<1>2. DOMAIN E = {} /\ IsFiniteSet({}) /\ Cardinality({}) = 0 /\ E = [n \in DOMAIN E |-> E[n]]
  BY FS_EmptySet
<1> HIDE DEF E
<1>3. BillBooks(E, E, E, E)
  <2>1. BilledOf(E, E) = 0 /\ PaidOf(E) = 0 /\ CreditedOf(E) = 0
    <3>1. BilledRows(E, E) = {} /\ Standing(E) = {}
      BY <1>2 DEF BilledRows, Standing
    <3>2. \A f : DOMAIN f = {} => SumFunction(f) = 0
      BY Zenon, SumEmpty DEF SumFunction
    <3>3. \A t : RowSum(t, {}) = 0
      <4> SUFFICES ASSUME NEW t PROVE RowSum(t, {}) = 0
        OBVIOUS
      <4> DEFINE f == [r \in {} |-> t[r].amount]
      <4>1. DOMAIN f = {}
        OBVIOUS
      <4> QED
        BY <3>2, <4>1 DEF RowSum
    <3>4. BilledOf(E, E) = 0
      <4> DEFINE f == [n \in BilledRows(E, E) |-> E[n].total]
      <4>1. DOMAIN f = {}
        BY <3>1
      <4> QED
        BY <3>2, <4>1 DEF BilledOf
    <3> QED
      BY <1>2, <3>1, <3>3, <3>4 DEF PaidOf, CreditedOf
  <2>2. BooksFine(E) /\ Balance(E, "1100") = 0
    BY <1>2, BooksEmpty DEF BooksFine
  <2>3. TotalsOK(E) /\ PaymentsOK(E) /\ NotesOK(E) /\ BillJournals(E, E) /\ NoteJournals(E, E)
    BY <1>2 DEF TotalsOK, PaymentsOK, NotesOK, BillJournals, NoteJournals
  <2>4. PaymentJournals(E, E)
    <3>1. ReceiptsIn(E) = {}
      BY <1>2 DEF ReceiptsIn
    <3>2. {ReceiptNumber(p) : p \in 1 .. 0} = {}
      OBVIOUS
    <3> QED
      BY <1>2, <3>1, <3>2 DEF PaymentJournals
  <2> QED
    BY <2>1, <2>2, <2>3, <2>4 DEF BillBooks, BillLedger
<1>4. BillRows(E, E, E, E, E)
  <2>1. 1 .. 0 = {}
    OBVIOUS
  <2> QED
    BY <1>2, <2>1 DEF BillRows, InvoiceRows, Numbered, PaymentRows, NoteRows, QuoteRows,
                      AllBilledOrNoted
<1>5. \A w \in s.workers : BillJob(pc[w], job[w], E, E, E, E, E) /\ pc[w] # "unpaying"
  BY <1>1 DEF BillJob, BillLabels
<1> QED
  BY <1>1, <1>3, <1>4, <1>5 DEF BillInv

LEMMA BillMeans ==
  ASSUME NEW s, BillInv(s)
  PROVE  Sales(s)!TypeOK /\ Sales(s)!ReceivablesLedger /\ Sales(s)!BilledUnlessCredited
<1>1. BillBooks(invoices, payments, notes, journals)
      /\ BillRows(invoices, payments, notes, quotes, journals)
  BY DEF BillInv
<1>2. Sales(s)!TypeOK
  <2>1. DOMAIN invoices = 1 .. Cardinality(DOMAIN invoices)
    BY <1>1 DEF BillRows, InvoiceRows, Numbered
  <2>2. \A n \in DOMAIN invoices :
          /\ invoices[n].status \in Sales(s)!InvoiceStatuses
          /\ invoices[n].total \in Nat /\ {invoices[n].paid, invoices[n].credited} \subseteq Int
          /\ invoices[n].quote \in DOMAIN quotes \union {None}
    BY <1>1 DEF BillRows, InvoiceRows, InvoiceOK, InvoiceStatuses, Sales!InvoiceStatuses
  <2>3. \A k \in DOMAIN notes : notes[k].invoice \in DOMAIN invoices /\ notes[k].void \in BOOLEAN
    BY <1>1 DEF BillBooks, NotesOK, BillRows, NoteRows
  <2>4. /\ \A p \in DOMAIN payments : payments[p].invoice \in DOMAIN invoices
        /\ \A q \in DOMAIN quotes :
             /\ quotes[q].status \in Sales(s)!QuotationStatuses
             /\ quotes[q].invoice \in DOMAIN invoices \union {None}
    BY <1>1 DEF BillRows, PaymentRows, QuoteRows, QuotationStatuses, Sales!QuotationStatuses
  <2>5. DOMAIN invoices = 1 .. Sales(s)!Cardinality(DOMAIN invoices)
    BY Zenon, <2>1 DEF Sales!Cardinality, Cardinality
  <2> QED
    BY <2>2, <2>3, <2>4, <2>5 DEF Sales!TypeOK
<1>3. Sales(s)!ReceivablesLedger
  <2>1. Balance(journals, "1100") =
          BilledOf(invoices, journals) - PaidOf(payments) - CreditedOf(notes)
    BY <1>1 DEF BillBooks, BillLedger
  <2>2. \A t, S : Sales(s)!SumRows(t, S) = RowSum(t, S)
    BY Zenon, SalesSums DEF Sales!SumRows, RowSum
  <2>3. /\ PaidOf(payments) = Sales(s)!SumRows(payments, DOMAIN payments)
        /\ CreditedOf(notes) = Sales(s)!SumRows(notes, {k \in DOMAIN notes : ~notes[k].void})
    BY Zenon, <2>2 DEF PaidOf, CreditedOf, Standing
  <2>4. BilledOf(invoices, journals) =
          Sales(s)!SumFunction([n \in {n \in DOMAIN invoices : <<"INVOICE", n>> \in DOMAIN journals} |->
                                  invoices[n].total])
    BY Zenon, SalesSums DEF BilledOf, BilledRows, BillNumber
  <2>5. Sales(s)!Balance(journals, "1100") = Balance(journals, "1100")
    BY SalesBooks
  <2> QED
    BY Zenon, <2>1, <2>3, <2>4, <2>5 DEF Sales!ReceivablesLedger
<1>4. Sales(s)!BilledUnlessCredited
  BY <1>1 DEF BillRows, AllBilledOrNoted, BilledOrNoted, BillNumber, Sales!BilledUnlessCredited
<1> QED
  BY <1>2, <1>3, <1>4

(* No invoice is replaced: the actions write a row of a new number, or the *)
(* amounts and the status of a row.                                        *)
LEMMA BillsStand ==
  ASSUME NEW s, BillInv(s), Sales(s)!Next
  PROVE  Sales(s)!InvoicesStand
<1> DEFINE Stand == \A n \in DOMAIN invoices : n \in DOMAIN invoices'
                      /\ invoices'[n].total = invoices[n].total
                      /\ invoices'[n].quote = invoices[n].quote
<1>0. /\ InvoiceRows(invoices, quotes)
      /\ \A w \in s.workers : BillJob(pc[w], job[w], invoices, payments, notes, quotes, journals)
  BY DEF BillInv, BillRows
<1>1. CASE UNCHANGED invoices
  BY <1>1 DEF Sales!InvoicesStand
<1>2. ASSUME NEW n, NEW row, n \notin DOMAIN invoices, invoices' = Entered(invoices, n, row)
      PROVE  Stand
  BY <1>2 DEF Entered
<1>3. ASSUME NEW w \in s.workers, Sales(s)!CreateCommit(w) \/ Sales(s)!ConvertCommit(w)
      PROVE  Stand
  <2>1. PICK row : job[w].number \notin DOMAIN invoices
                   /\ invoices' = Entered(invoices, job[w].number, row)
    BY <1>3 DEF Sales!CreateCommit, Sales!ConvertCommit, Sales!Free, Sales!Entered, Entered
  <2> QED
    BY ONLY <1>2, <2>1
<1>4. ASSUME NEW n, NEW v, NEW y, EditOf(invoices, invoices', n, v, y)
      PROVE  Stand
  <2>0. \A m \in DOMAIN invoices :
          invoices[m] = InvoiceRow(invoices[m].total, invoices[m].status, invoices[m].paid,
                                   invoices[m].credited, invoices[m].quote)
    BY <1>0 DEF InvoiceRows, InvoiceOK
  <2>1. CASE invoices' = [invoices EXCEPT ![n].paid = v, ![n].status = y]
    <3>1. PICK a : a = [invoices EXCEPT ![n].paid = v]
      OBVIOUS
    <3>2. invoices' = [a EXCEPT ![n].status = y]
      BY <2>1, <3>1
    <3>3. DOMAIN a = DOMAIN invoices /\ DOMAIN invoices' = DOMAIN invoices
          /\ \A m \in DOMAIN invoices : m # n => invoices'[m] = invoices[m]
      BY <3>1, <3>2
    <3>4. ASSUME n \in DOMAIN invoices
          PROVE  invoices'[n].total = invoices[n].total /\ invoices'[n].quote = invoices[n].quote
      <4>1. PICK i : i = invoices[n]
        OBVIOUS
      <4>2. a[n] = [i EXCEPT !.paid = v]
        BY <3>1, <3>4, <4>1
      <4>3. a[n] = InvoiceRow(i.total, i.status, v, i.credited, i.quote)
        BY <2>0, <3>4, <4>1, <4>2 DEF InvoiceRow
      <4>4. PICK b : b = a[n]
        OBVIOUS
      <4>5. invoices'[n] = [b EXCEPT !.status = y]
        BY <3>2, <3>3, <3>4, <4>4
      <4> QED
        BY <4>1, <4>3, <4>4, <4>5 DEF InvoiceRow
    <3> QED
      BY <3>3, <3>4
  <2>2. CASE invoices' = [invoices EXCEPT ![n].credited = v, ![n].status = y]
    <3>1. PICK a : a = [invoices EXCEPT ![n].credited = v]
      OBVIOUS
    <3>2. invoices' = [a EXCEPT ![n].status = y]
      BY <2>2, <3>1
    <3>3. DOMAIN a = DOMAIN invoices /\ DOMAIN invoices' = DOMAIN invoices
          /\ \A m \in DOMAIN invoices : m # n => invoices'[m] = invoices[m]
      BY <3>1, <3>2
    <3>4. ASSUME n \in DOMAIN invoices
          PROVE  invoices'[n].total = invoices[n].total /\ invoices'[n].quote = invoices[n].quote
      <4>1. PICK i : i = invoices[n]
        OBVIOUS
      <4>2. a[n] = [i EXCEPT !.credited = v]
        BY <3>1, <3>4, <4>1
      <4>3. a[n] = InvoiceRow(i.total, i.status, i.paid, v, i.quote)
        BY <2>0, <3>4, <4>1, <4>2 DEF InvoiceRow
      <4>4. PICK b : b = a[n]
        OBVIOUS
      <4>5. invoices'[n] = [b EXCEPT !.status = y]
        BY <3>2, <3>3, <3>4, <4>4
      <4> QED
        BY <4>1, <4>3, <4>4, <4>5 DEF InvoiceRow
    <3> QED
      BY <3>3, <3>4
  <2>3. CASE invoices' = [invoices EXCEPT ![n].status = y]
    BY <2>0, <2>3 DEF InvoiceRow
  <2> QED
    BY <1>4, <2>1, <2>2, <2>3 DEF EditOf
<1>5. ASSUME NEW w \in s.workers,
             \/ Sales(s)!PayCommit(w) \/ Sales(s)!UnpayCommit(w)
             \/ Sales(s)!CreditCommit(w) \/ Sales(s)!UncreditCommit(w)
      PROVE  \E n, v, y : EditOf(invoices, invoices', n, v, y)
  <2> DEFINE j == job[w]
             seen == j.seen
             back == seen.credited - notes[j.note].amount
  <2>1. CASE Sales(s)!PayCommit(w)
    <3>1. EditOf(invoices, invoices', j.number, seen.paid + j.amount,
                 Sales(s)!Settled(seen, seen.paid + j.amount, seen.credited))
      BY <2>1 DEF EditOf, Sales!PayCommit
    <3> QED
      BY <3>1
  <2>2. CASE Sales(s)!UnpayCommit(w)
    <3>1. EditOf(invoices, invoices', j.row.invoice, seen.paid - j.row.amount,
                 Sales(s)!Unsettled(seen, seen.paid - j.row.amount, seen.credited))
      BY <2>2 DEF EditOf, Sales!UnpayCommit
    <3> QED
      BY <3>1
  <2>3. CASE Sales(s)!CreditCommit(w)
    <3>1. EditOf(invoices, invoices', j.number, Sales(s)!Credited(j),
                 Sales(s)!Settled(seen, seen.paid, seen.credited + j.amount))
      BY <2>3 DEF EditOf, Sales!CreditCommit
    <3> QED
      BY <3>1
  <2>4. CASE Sales(s)!UncreditCommit(w)
    <3>1. EditOf(invoices, invoices', notes[j.note].invoice, back,
                 Sales(s)!Unsettled(seen, seen.paid, back))
      BY <2>4 DEF EditOf, Sales!UncreditCommit
    <3> QED
      BY <3>1
  <2> QED
    BY <1>5, <2>1, <2>2, <2>3, <2>4
<1>6. ASSUME NEW w \in s.workers, Sales(s)!SendCommit(w)
      PROVE  UNCHANGED invoices \/ \E n, v, y : EditOf(invoices, invoices', n, v, y)
  BY <1>6 DEF EditOf, Sales!SendCommit
<1>7. \/ UNCHANGED invoices
      \/ \E w \in s.workers :
           \/ Sales(s)!CreateCommit(w) \/ Sales(s)!ConvertCommit(w) \/ Sales(s)!SendCommit(w)
           \/ Sales(s)!PayCommit(w) \/ Sales(s)!UnpayCommit(w)
           \/ Sales(s)!CreditCommit(w) \/ Sales(s)!UncreditCommit(w)
  BY DEF Sales!Next, Sales!SetQuoteStatus, Sales!Abort, Sales!Invoicing,
         Sales!Paying, Sales!Crediting, Sales!Quoting, Sales!CreateRead, Sales!SendRead,
         Sales!PayRead, Sales!UnpayRead, Sales!UnpayDelete, Sales!CreditRead, Sales!UncreditRead,
         Sales!UncreditMark, Sales!QuoteRead, Sales!QuoteCommit, Sales!EditRead, Sales!EditCommit,
         Sales!ConvertRead, Sales!ConvertNumber, Sales!rowVars
<1>8. Sales(s)!InvoicesStand <=> Stand
  BY DEF Sales!InvoicesStand
<1> HIDE DEF Stand
<1>9. UNCHANGED invoices => Stand
  BY <1>1, <1>8
<1> QED
  BY ONLY <1>3, <1>4, <1>5, <1>6, <1>7, <1>8, <1>9

--------------------------------------------------------------------------------
(* Receivables: the payments and the credit notes of each invoice.         *)

PaymentsFor(ps, n) == {p \in DOMAIN ps : ps[p].invoice = n}
NotesFor(ks, n)    == {k \in DOMAIN ks : ks[k].invoice = n /\ ~ks[k].void}
PaidFor(ps, n)     == RowSum(ps, PaymentsFor(ps, n))
CreditedFor(ks, n) == RowSum(ks, NotesFor(ks, n))

LEMMA FiguresType ==
  ASSUME NEW ps, NEW ks, PaymentsOK(ps), NotesOK(ks)
  PROVE  \A n : PaidFor(ps, n) \in Nat /\ CreditedFor(ks, n) \in Nat
<1>1. ASSUME NEW t, NEW S, IsFiniteSet(S), \A r \in S : t[r].amount \in Nat
      PROVE  RowSum(t, S) \in Nat
  <2> DEFINE f == [r \in S |-> t[r].amount]
  <2>1. DOMAIN f = S /\ \A x \in DOMAIN f : f[x] \in Nat
    BY <1>1
  <2> HIDE DEF f
  <2>2. SumFunction(f) \in Nat
    BY <1>1, <2>1, TotalType
  <2> QED
    BY <2>2 DEF RowSum, f
<1>2. ASSUME NEW n PROVE PaidFor(ps, n) \in Nat
  <2>1. IsFiniteSet(PaymentsFor(ps, n)) /\ \A r \in PaymentsFor(ps, n) : ps[r].amount \in Nat
    BY FS_Subset DEF PaymentsFor, PaymentsOK
  <2> QED
    BY <1>1, <2>1 DEF PaidFor
<1>3. ASSUME NEW n PROVE CreditedFor(ks, n) \in Nat
  <2>1. IsFiniteSet(NotesFor(ks, n)) /\ \A r \in NotesFor(ks, n) : ks[r].amount \in Nat
    BY FS_Subset DEF NotesFor, NotesOK
  <2> QED
    BY <1>1, <2>1 DEF CreditedFor
<1> QED
  BY <1>2, <1>3

(* A row more for one invoice, or a row less.                              *)
LEMMA PaidForIn ==
  ASSUME NEW ps, NEW id, NEW row, NEW new,
         PaymentsOK(ps), id \notin DOMAIN ps, new = Entered(ps, id, row), row.amount \in Nat \ {0}
  PROVE  /\ PaidFor(new, row.invoice) = PaidFor(ps, row.invoice) + row.amount
         /\ \A m : m # row.invoice => PaidFor(new, m) = PaidFor(ps, m)
<1>1. DOMAIN new = DOMAIN ps \union {id} /\ new[id] = row /\ \A p \in DOMAIN ps : new[p] = ps[p]
  BY DEF Entered
<1> DEFINE n == row.invoice
<1>2. PaidFor(new, n) = PaidFor(ps, n) + row.amount
  <2>1. OneMore(PaymentsFor(new, n), PaymentsFor(ps, n), id)
    BY <1>1 DEF OneMore, PaymentsFor
  <2>2. SameRows(ps, new, PaymentsFor(ps, n)) /\ IsFiniteSet(PaymentsFor(ps, n))
    BY <1>1, FS_Subset DEF PaymentsOK, SameRows, PaymentsFor
  <2>3. RowIs(new, id, row.amount)
    BY <1>1 DEF RowIs
  <2> QED
    BY ONLY <2>1, <2>2, <2>3, RowsAdd DEF PaidFor
<1>3. ASSUME NEW m, m # n PROVE PaidFor(new, m) = PaidFor(ps, m)
  <2>1. PaymentsFor(new, m) = PaymentsFor(ps, m)
    BY <1>1, <1>3 DEF PaymentsFor
  <2>2. \A p \in PaymentsFor(ps, m) : new[p].amount = ps[p].amount
    BY <1>1 DEF PaymentsFor
  <2> QED
    BY <2>1, <2>2, RowsSame DEF PaidFor
<1> QED
  BY <1>2, <1>3

LEMMA PaidForBack ==
  ASSUME NEW ps, NEW p, NEW new, PaymentsOK(ps), p \in DOMAIN ps, new = Without(ps, p)
  PROVE  /\ PaidFor(new, ps[p].invoice) = PaidFor(ps, ps[p].invoice) - ps[p].amount
         /\ \A m : m # ps[p].invoice => PaidFor(new, m) = PaidFor(ps, m)
<1>1. DOMAIN new = DOMAIN ps \ {p} /\ \A q \in DOMAIN new : new[q] = ps[q]
  BY DEF Without
<1> DEFINE n == ps[p].invoice
<1>2. PaidFor(new, n) = PaidFor(ps, n) - ps[p].amount
  <2>1. OneMore(PaymentsFor(ps, n), PaymentsFor(new, n), p)
    BY <1>1 DEF OneMore, PaymentsFor
  <2>2. SameRows(ps, new, PaymentsFor(new, n)) /\ IsFiniteSet(PaymentsFor(ps, n))
    BY <1>1, FS_Subset DEF PaymentsOK, SameRows, PaymentsFor
  <2>3. RowIs(ps, p, ps[p].amount)
    BY DEF RowIs, PaymentsOK
  <2> QED
    BY ONLY <2>1, <2>2, <2>3, RowsRemove DEF PaidFor
<1>3. ASSUME NEW m, m # n PROVE PaidFor(new, m) = PaidFor(ps, m)
  <2>1. PaymentsFor(new, m) = PaymentsFor(ps, m)
    BY <1>1, <1>3 DEF PaymentsFor
  <2>2. \A q \in PaymentsFor(ps, m) : new[q].amount = ps[q].amount
    BY <1>1, <2>1 DEF PaymentsFor
  <2> QED
    BY <2>1, <2>2, RowsSame DEF PaidFor
<1> QED
  BY <1>2, <1>3

LEMMA CreditedForIn ==
  ASSUME NEW ks, NEW c, NEW row, NEW new,
         NotesOK(ks), c \notin DOMAIN ks, new = Entered(ks, c, row), FreshNote(row)
  PROVE  /\ CreditedFor(new, row.invoice) = CreditedFor(ks, row.invoice) + row.amount
         /\ \A m : m # row.invoice => CreditedFor(new, m) = CreditedFor(ks, m)
<1>1. DOMAIN new = DOMAIN ks \union {c} /\ new[c] = row /\ \A k \in DOMAIN ks : new[k] = ks[k]
  BY DEF Entered
<1>f. row.amount \in Nat \ {0} /\ ~row.void
  BY DEF FreshNote
<1> DEFINE n == row.invoice
<1>2. CreditedFor(new, n) = CreditedFor(ks, n) + row.amount
  <2>1. OneMore(NotesFor(new, n), NotesFor(ks, n), c)
    BY <1>1, <1>f DEF OneMore, NotesFor
  <2>2. SameRows(ks, new, NotesFor(ks, n)) /\ IsFiniteSet(NotesFor(ks, n))
    BY <1>1, FS_Subset DEF NotesOK, SameRows, NotesFor
  <2>3. RowIs(new, c, row.amount)
    BY <1>1, <1>f DEF RowIs
  <2> QED
    BY ONLY <2>1, <2>2, <2>3, RowsAdd DEF CreditedFor
<1>3. ASSUME NEW m, m # n PROVE CreditedFor(new, m) = CreditedFor(ks, m)
  <2>1. NotesFor(new, m) = NotesFor(ks, m)
    BY <1>1, <1>3 DEF NotesFor
  <2>2. \A k \in NotesFor(ks, m) : new[k].amount = ks[k].amount
    BY <1>1 DEF NotesFor
  <2> QED
    BY <2>1, <2>2, RowsSame DEF CreditedFor
<1> QED
  BY <1>2, <1>3

LEMMA CreditedForBack ==
  ASSUME NEW ks, NEW c, NEW new, NotesOK(ks), c \in DOMAIN ks, ~ks[c].void,
         VoidedIn(ks, new, c), new[c].invoice = ks[c].invoice
  PROVE  /\ CreditedFor(new, ks[c].invoice) = CreditedFor(ks, ks[c].invoice) - ks[c].amount
         /\ \A m : m # ks[c].invoice => CreditedFor(new, m) = CreditedFor(ks, m)
<1>1. /\ DOMAIN new = DOMAIN ks /\ \A x \in DOMAIN ks : x # c => new[x] = ks[x]
      /\ new[c].void = TRUE /\ new[c].amount = ks[c].amount
  BY DEF VoidedIn
<1> DEFINE n == ks[c].invoice
<1>2. CreditedFor(new, n) = CreditedFor(ks, n) - ks[c].amount
  <2>1. OneMore(NotesFor(ks, n), NotesFor(new, n), c)
    BY <1>1 DEF OneMore, NotesFor
  <2>2. SameRows(ks, new, NotesFor(new, n)) /\ IsFiniteSet(NotesFor(ks, n))
    BY <1>1, FS_Subset DEF NotesOK, SameRows, NotesFor
  <2>3. RowIs(ks, c, ks[c].amount)
    BY DEF RowIs, NotesOK
  <2> QED
    BY ONLY <2>1, <2>2, <2>3, RowsRemove DEF CreditedFor
<1>3. ASSUME NEW m, m # n PROVE CreditedFor(new, m) = CreditedFor(ks, m)
  <2>1. NotesFor(new, m) = NotesFor(ks, m)
    BY <1>1, <1>3 DEF NotesFor
  <2>2. \A k \in NotesFor(ks, m) : new[k].amount = ks[k].amount
    BY <1>1 DEF NotesFor
  <2> QED
    BY <2>1, <2>2, RowsSame DEF CreditedFor
<1> QED
  BY <1>2, <1>3

(* An invoice nothing refers to.                                           *)
LEMMA NothingFor ==
  ASSUME NEW ps, NEW ks, NEW n,
         \A p \in DOMAIN ps : ps[p].invoice # n, \A k \in DOMAIN ks : ks[k].invoice # n
  PROVE  PaidFor(ps, n) = 0 /\ CreditedFor(ks, n) = 0
<1>1. PaymentsFor(ps, n) = {} /\ NotesFor(ks, n) = {}
  BY DEF PaymentsFor, NotesFor
<1>2. \A t : RowSum(t, {}) = 0
  <2> SUFFICES ASSUME NEW t PROVE RowSum(t, {}) = 0
    OBVIOUS
  <2> DEFINE f == [r \in {} |-> t[r].amount]
  <2>1. DOMAIN f = {} /\ IsFiniteSet({})
    BY FS_EmptySet
  <2> QED
    BY <2>1, TotalType DEF RowSum
<1> QED
  BY <1>1, <1>2 DEF PaidFor, CreditedFor

(* What the status says of the amounts once there are any, and after every *)
(* change; an invoice whose figures are P paid and C credited; and that    *)
(* the status of every invoice that changes is what its amounts call for.  *)
StatusSays(y, total, sum) == sum > 0 => y = IF sum = total THEN "PAID" ELSE "PARTIALLY_PAID"
StatusIs(y, total, sum) ==
  y = IF sum = 0 THEN "SENT" ELSE IF sum = total THEN "PAID" ELSE "PARTIALLY_PAID"
Settlement(i, P, C) ==
  i.paid = P /\ i.credited = C /\ P + C <= i.total /\ StatusSays(i.status, i.total, P + C)
AllSettled(is, ps, ks) ==
  \A n \in DOMAIN is : Settlement(is[n], PaidFor(ps, n), CreditedFor(ks, n))
Follows(is, new) ==
  \A m \in DOMAIN is :
    new[m] # is[m] => StatusIs(new[m].status, new[m].total, new[m].paid + new[m].credited)

LEMMA StatusesSay ==
  ASSUME NEW s, NEW i, NEW P, NEW C, P \in Nat, C \in Nat, i.total \in Nat \ {0}, P + C <= i.total
  PROVE  /\ P + C > 0 => StatusIs(Sales(s)!Settled(i, P, C), i.total, P + C)
         /\ StatusIs(Sales(s)!Unsettled(i, P, C), i.total, P + C)
<1>1. PICK t : t = i.total
  OBVIOUS
<1>2. t \in Nat \ {0} /\ P + C <= t
  BY <1>1
<1>3. P + C > 0 => StatusIs(Sales(s)!Settled(i, P, C), t, P + C)
  BY <1>1, <1>2 DEF StatusIs, Sales!Settled
<1>4. StatusIs(Sales(s)!Unsettled(i, P, C), t, P + C)
  BY <1>1, <1>2 DEF StatusIs, Sales!Settled, Sales!Unsettled
<1> QED
  BY <1>1, <1>3, <1>4

(* One invoice has new figures. *)
FiguresAre(is, new, n, p, c, y) ==
  /\ DOMAIN new = DOMAIN is /\ new[n].total = is[n].total
  /\ new[n].paid = p /\ new[n].credited = c /\ new[n].status = y
  /\ \A m \in DOMAIN is : m # n => new[m] = is[m]

PaidIsNow(is, new, n, v, y)     == new = [is EXCEPT ![n].paid = v, ![n].status = y]
CreditedIsNow(is, new, n, v, y) == new = [is EXCEPT ![n].credited = v, ![n].status = y]
StatusIsNow(is, new, n, y)      == new = [is EXCEPT ![n].status = y]

LEMMA FiguresEdited ==
  ASSUME NEW is, NEW qs, NEW n, NEW new, NEW v, NEW y, InvoiceRows(is, qs), n \in DOMAIN is
  PROVE  /\ PaidIsNow(is, new, n, v, y) => FiguresAre(is, new, n, v, is[n].credited, y)
         /\ CreditedIsNow(is, new, n, v, y) => FiguresAre(is, new, n, is[n].paid, v, y)
         /\ StatusIsNow(is, new, n, y) => FiguresAre(is, new, n, is[n].paid, is[n].credited, y)
<1>1. PICK i : i = is[n]
  OBVIOUS
<1>2. i = InvoiceRow(i.total, i.status, i.paid, i.credited, i.quote)
  BY <1>1 DEF InvoiceRows, InvoiceOK
<1>3. ASSUME new = [is EXCEPT ![n].paid = v, ![n].status = y]
      PROVE  FiguresAre(is, new, n, v, is[n].credited, y)
  <2>1. PICK a : a = [is EXCEPT ![n].paid = v]
    OBVIOUS
  <2>2. PICK r : r = [i EXCEPT !.paid = v]
    OBVIOUS
  <2>3. r = InvoiceRow(i.total, i.status, v, i.credited, i.quote)
    BY <1>2, <2>2 DEF InvoiceRow
  <2>4. DOMAIN a = DOMAIN is /\ a[n] = r /\ \A m \in DOMAIN is : m # n => a[m] = is[m]
    BY <1>1, <2>1, <2>2
  <2>5. new = [a EXCEPT ![n].status = y]
    BY <1>3, <2>1
  <2>6. PICK b : b = [r EXCEPT !.status = y]
    OBVIOUS
  <2>7. b = InvoiceRow(i.total, y, v, i.credited, i.quote)
    BY <2>3, <2>6 DEF InvoiceRow
  <2>8. DOMAIN new = DOMAIN is /\ new[n] = b /\ \A m \in DOMAIN is : m # n => new[m] = is[m]
    BY ONLY n \in DOMAIN is, <2>4, <2>5, <2>6
  <2> QED
    BY ONLY <1>1, <2>7, <2>8 DEF FiguresAre, InvoiceRow
<1>4. ASSUME new = [is EXCEPT ![n].credited = v, ![n].status = y]
      PROVE  FiguresAre(is, new, n, is[n].paid, v, y)
  <2>1. PICK a : a = [is EXCEPT ![n].credited = v]
    OBVIOUS
  <2>2. PICK r : r = [i EXCEPT !.credited = v]
    OBVIOUS
  <2>3. r = InvoiceRow(i.total, i.status, i.paid, v, i.quote)
    BY <1>2, <2>2 DEF InvoiceRow
  <2>4. DOMAIN a = DOMAIN is /\ a[n] = r /\ \A m \in DOMAIN is : m # n => a[m] = is[m]
    BY <1>1, <2>1, <2>2
  <2>5. new = [a EXCEPT ![n].status = y]
    BY <1>4, <2>1
  <2>6. PICK b : b = [r EXCEPT !.status = y]
    OBVIOUS
  <2>7. b = InvoiceRow(i.total, y, i.paid, v, i.quote)
    BY <2>3, <2>6 DEF InvoiceRow
  <2>8. DOMAIN new = DOMAIN is /\ new[n] = b /\ \A m \in DOMAIN is : m # n => new[m] = is[m]
    BY ONLY n \in DOMAIN is, <2>4, <2>5, <2>6
  <2> QED
    BY ONLY <1>1, <2>7, <2>8 DEF FiguresAre, InvoiceRow
<1>5. ASSUME new = [is EXCEPT ![n].status = y]
      PROVE  FiguresAre(is, new, n, is[n].paid, is[n].credited, y)
  <2>1. PICK b : b = [i EXCEPT !.status = y]
    OBVIOUS
  <2>2. b = InvoiceRow(i.total, y, i.paid, i.credited, i.quote)
    BY <1>2, <2>1 DEF InvoiceRow
  <2>3. DOMAIN new = DOMAIN is /\ new[n] = b /\ \A m \in DOMAIN is : m # n => new[m] = is[m]
    BY <1>1, <1>5, <2>1
  <2> QED
    BY ONLY <1>1, <2>2, <2>3 DEF FiguresAre, InvoiceRow
<1> QED
  BY <1>3, <1>4, <1>5 DEF PaidIsNow, CreditedIsNow, StatusIsNow

LEMMA SettledAgain ==
  ASSUME NEW is, NEW ps, NEW ks, NEW new, NEW ps2, NEW ks2, NEW n, NEW p, NEW c, NEW y,
         AllSettled(is, ps, ks), FiguresAre(is, new, n, p, c, y),
         p = PaidFor(ps2, n), c = CreditedFor(ks2, n),
         \A m : m # n => PaidFor(ps2, m) = PaidFor(ps, m) /\ CreditedFor(ks2, m) = CreditedFor(ks, m),
         p + c <= is[n].total, StatusIs(y, is[n].total, p + c)
  PROVE  AllSettled(new, ps2, ks2) /\ Follows(is, new)
<1> Follows(is, new)
  BY DEF FiguresAre, Follows
<1> SUFFICES ASSUME NEW m \in DOMAIN new
             PROVE  Settlement(new[m], PaidFor(ps2, m), CreditedFor(ks2, m))
  BY DEF AllSettled
<1>1. CASE m = n
  BY <1>1 DEF FiguresAre, Settlement, StatusIs, StatusSays
<1>2. CASE m # n
  <2>1. Settlement(is[m], PaidFor(ps, m), CreditedFor(ks, m)) /\ new[m] = is[m]
    BY <1>2 DEF FiguresAre, AllSettled
  <2> QED
    BY <1>2, <2>1
<1> QED
  BY <1>1, <1>2

(* What a request served alone has read is still so when it writes.        *)
SettleJob(l, x, is, ps, ks) ==
  /\ l = "mailing" => x.status = is[x.number].status
  /\ l \in {"paying", "crediting"} =>
       x.seen = is[x.number] /\ x.amount <= x.seen.total - x.seen.paid - x.seen.credited
  /\ l = "unpaying" => x.seen = is[x.row.invoice]
  /\ l \in {"voiding", "uncrediting"} => ~ks[x.note].void
  /\ l = "uncrediting" => x.seen = is[ks[x.note].invoice]

SettleInv(s) ==
  /\ BillInv(s) /\ AllSettled(invoices, payments, notes)
  /\ \A w \in s.workers : SettleJob(pc[w], job[w], invoices, payments, notes)

(* The invoice of a request: its figures, and those of its rows. *)
LEMMA SettleReady ==
  ASSUME NEW s, NEW n, SettleInv(s), n \in DOMAIN invoices
  PROVE  /\ InvoiceRows(invoices, quotes) /\ PaymentsOK(payments) /\ NotesOK(notes)
         /\ Settlement(invoices[n], PaidFor(payments, n), CreditedFor(notes, n))
         /\ invoices[n].total \in Nat
         /\ PaidFor(payments, n) \in Nat /\ CreditedFor(notes, n) \in Nat
<1>1. InvoiceRows(invoices, quotes) /\ PaymentsOK(payments) /\ NotesOK(notes)
  BY DEF SettleInv, BillInv, BillRows, BillBooks
<1>2. PaidFor(payments, n) \in Nat /\ CreditedFor(notes, n) \in Nat
  BY <1>1, FiguresType
<1>3. invoices[n].total \in Nat
  BY <1>1 DEF InvoiceRows, InvoiceOK
<1>4. Settlement(invoices[n], PaidFor(payments, n), CreditedFor(notes, n))
  BY DEF SettleInv, AllSettled
<1> QED
  BY <1>1, <1>2, <1>3, <1>4

LEMMA SettlePay ==
  ASSUME NEW s, NEW w \in s.workers, SettleInv(s), Sales(s)!PayCommit(w)
  PROVE  AllSettled(invoices', payments', notes') /\ Follows(invoices, invoices')
<1> DEFINE n == job[w].number
           a == job[w].amount
           P == PaidFor(payments, n)
           C == CreditedFor(notes, n)
           y == Sales(s)!Settled(job[w].seen, job[w].seen.paid + a, job[w].seen.credited)
           id == Cardinality(ReceiptsIn(journals)) + 1
           row == [invoice |-> n, amount |-> a, ref |-> job[w].ref]
<1>r. Sales(s)!Receipts = Cardinality(ReceiptsIn(journals))
  BY Zenon DEF Sales!Receipts, Sales!Cardinality, Cardinality, ReceiptsIn
<1>1. /\ pc[w] = "paying" /\ notes' = notes
      /\ payments' = Entered(payments, id, row)
      /\ invoices' = [invoices EXCEPT ![n].paid = job[w].seen.paid + a, ![n].status = y]
  BY <1>r DEF Sales!PayCommit, Sales!At, Sales!Entered, Entered
<1>2. n \in DOMAIN invoices /\ a \in Nat \ {0}
  BY <1>1, BillReady DEF BillJob, SettleInv
<1>3. job[w].seen = invoices[n] /\ a <= invoices[n].total - invoices[n].paid - invoices[n].credited
  BY <1>1 DEF SettleInv, SettleJob
<1>4. /\ InvoiceRows(invoices, quotes) /\ PaymentsOK(payments) /\ NotesOK(notes)
      /\ Settlement(invoices[n], P, C) /\ invoices[n].total \in Nat /\ P \in Nat /\ C \in Nat
  BY <1>2, SettleReady
<1>5. id \notin DOMAIN payments
  <2>1. BillBooks(invoices, payments, notes, journals)
    BY DEF SettleInv, BillInv
  <2>2. PICK k : k = Posted(journals, ReceiptNumber(id), Pair("1000", "1100", row.amount))
    OBVIOUS
  <2>3. PICK new : new = Entered(payments, id, row)
    OBVIOUS
  <2>4. row.amount \in Nat \ {0}
    BY <1>2
  <2> HIDE DEF row
  <2>5. Adds(new, payments, id)
    BY ONLY <2>1, <2>2, <2>3, <2>4, PaidIn
  <2> QED
    BY <2>5 DEF Adds
<1>6. row.amount = a /\ row.invoice = n
  OBVIOUS
<1> HIDE DEF id, row
<1>7. /\ PaidFor(payments', n) = P + a
      /\ \A m : m # n => PaidFor(payments', m) = PaidFor(payments, m)
  <2>1. row.amount \in Nat \ {0} /\ payments' = Entered(payments, id, row)
    BY <1>1, <1>2, <1>6
  <2>2. /\ PaidFor(payments', row.invoice) = PaidFor(payments, row.invoice) + row.amount
        /\ \A m : m # row.invoice => PaidFor(payments', m) = PaidFor(payments, m)
    BY ONLY <1>4, <1>5, <2>1, PaidForIn
  <2> QED
    BY <1>6, <2>2
<1>8. invoices[n].paid = P /\ invoices[n].credited = C
  BY <1>4 DEF Settlement
<1>9. /\ P + a \in Nat /\ P + a + C <= invoices[n].total /\ P + a + C > 0
      /\ invoices[n].total \in Nat \ {0}
  BY <1>2, <1>3, <1>4, <1>8
<1>10. y = Sales(s)!Settled(invoices[n], P + a, C)
  BY <1>3, <1>8
<1>11. StatusIs(y, invoices[n].total, P + a + C)
  BY <1>4, <1>9, <1>10, StatusesSay
<1>12. FiguresAre(invoices, invoices', n, P + a, C, y)
  <2>1. PICK v : v = job[w].seen.paid + a
    OBVIOUS
  <2>2. PaidIsNow(invoices, invoices', n, v, y)
    BY <1>1, <2>1 DEF PaidIsNow
  <2>3. FiguresAre(invoices, invoices', n, v, invoices[n].credited, y)
    <3> HIDE DEF n, y
    <3> QED
      BY ONLY <1>2, <1>4, <2>2, FiguresEdited
  <2> QED
    BY <1>3, <1>8, <2>1, <2>3
<1> HIDE DEF n, a, P, y, C
<1>13. AllSettled(invoices, payments, notes) /\ C = CreditedFor(notes, n)
  BY DEF SettleInv, C
<1>14. PICK v : v = P + a
  OBVIOUS
<1>15. /\ FiguresAre(invoices, invoices', n, v, C, y)
       /\ v + C <= invoices[n].total
       /\ StatusIs(y, invoices[n].total, v + C)
  BY <1>9, <1>11, <1>12, <1>14
<1>16. /\ v = PaidFor(payments', n) /\ C = CreditedFor(notes', n)
       /\ \A m : m # n => /\ PaidFor(payments', m) = PaidFor(payments, m)
                          /\ CreditedFor(notes', m) = CreditedFor(notes, m)
  BY <1>1, <1>7, <1>13, <1>14
<1> QED
  BY ONLY <1>13, <1>15, <1>16, SettledAgain

LEMMA SettleUnpay ==
  ASSUME NEW s, NEW w \in s.workers, SettleInv(s), Sales(s)!UnpayCommit(w)
  PROVE  AllSettled(invoices', payments', notes') /\ Follows(invoices, invoices')
<1> DEFINE n == job[w].row.invoice
           p == job[w].payment
           a == job[w].row.amount
           P == PaidFor(payments, n)
           C == CreditedFor(notes, n)
           y == Sales(s)!Unsettled(job[w].seen, job[w].seen.paid - a, job[w].seen.credited)
<1>1. /\ pc[w] = "unpaying" /\ notes' = notes
      /\ payments' = Without(payments, p)
      /\ invoices' = [invoices EXCEPT ![n].paid = job[w].seen.paid - a, ![n].status = y]
  BY DEF Sales!UnpayCommit, Sales!At, Without
<1>2. n \in DOMAIN invoices /\ a \in Nat \ {0} /\ p \in DOMAIN payments /\ payments[p] = job[w].row
  BY <1>1, BillReady DEF BillJob, SettleInv
<1>3. job[w].seen = invoices[n]
  BY <1>1 DEF SettleInv, SettleJob
<1>4. /\ InvoiceRows(invoices, quotes) /\ PaymentsOK(payments) /\ NotesOK(notes)
      /\ Settlement(invoices[n], P, C) /\ invoices[n].total \in Nat /\ P \in Nat /\ C \in Nat
  BY <1>2, SettleReady
<1>5. payments[p].invoice = n /\ payments[p].amount = a
  BY <1>2
<1>6. /\ PaidFor(payments', n) = P - a
      /\ \A m : m # n => PaidFor(payments', m) = PaidFor(payments, m)
  BY <1>1, <1>2, <1>4, <1>5, PaidForBack
<1>7. P - a \in Nat
  <2>1. PaymentsOK(payments')
    <3>1. BillBooks(invoices, payments, notes, journals)
      BY DEF SettleInv, BillInv
    <3>2. PICK k : k = Reversed(journals, ReceiptNumber(p), RefundNumber(p))
      OBVIOUS
    <3>3. payments' = Without(payments, p) /\ p \in DOMAIN payments
      BY <1>1, <1>2
    <3>4. BillBooks(invoices, payments', notes, k)
      BY ONLY <3>1, <3>2, <3>3, PaidBack
    <3> QED
      BY <3>4 DEF BillBooks
  <2>2. PaidFor(payments', n) \in Nat
    BY ONLY <1>4, <2>1, FiguresType
  <2> QED
    BY <1>6, <2>2
<1>8. invoices[n].paid = P /\ invoices[n].credited = C /\ P + C <= invoices[n].total
  BY <1>4 DEF Settlement
<1>9. P - a + C <= invoices[n].total /\ invoices[n].total \in Nat \ {0}
  BY <1>2, <1>4, <1>7, <1>8
<1>10. y = Sales(s)!Unsettled(invoices[n], P - a, C)
  BY <1>3, <1>8
<1>11. StatusIs(y, invoices[n].total, P - a + C)
  BY <1>4, <1>7, <1>9, <1>10, StatusesSay
<1>12. FiguresAre(invoices, invoices', n, P - a, C, y)
  <2>1. PICK v : v = job[w].seen.paid - a
    OBVIOUS
  <2>2. PaidIsNow(invoices, invoices', n, v, y)
    BY <1>1, <2>1 DEF PaidIsNow
  <2>3. FiguresAre(invoices, invoices', n, v, invoices[n].credited, y)
    <3> HIDE DEF n, y
    <3> QED
      BY ONLY <1>2, <1>4, <2>2, FiguresEdited
  <2> QED
    BY <1>3, <1>8, <2>1, <2>3
<1> HIDE DEF n, a, P, y, C
<1>13. AllSettled(invoices, payments, notes) /\ C = CreditedFor(notes, n)
  BY DEF SettleInv, C
<1>14. PICK v : v = P - a
  OBVIOUS
<1>15. /\ FiguresAre(invoices, invoices', n, v, C, y)
       /\ v + C <= invoices[n].total
       /\ StatusIs(y, invoices[n].total, v + C)
  BY <1>9, <1>11, <1>12, <1>14
<1>16. /\ v = PaidFor(payments', n) /\ C = CreditedFor(notes', n)
       /\ \A m : m # n => /\ PaidFor(payments', m) = PaidFor(payments, m)
                          /\ CreditedFor(notes', m) = CreditedFor(notes, m)
  BY <1>1, <1>6, <1>13, <1>14
<1> QED
  BY ONLY <1>13, <1>15, <1>16, SettledAgain

LEMMA SettleCredit ==
  ASSUME NEW s, NEW w \in s.workers, SettleInv(s), Sales(s)!CreditCommit(w)
  PROVE  AllSettled(invoices', payments', notes') /\ Follows(invoices, invoices')
<1> DEFINE n == job[w].number
           a == job[w].amount
           P == PaidFor(payments, n)
           C == CreditedFor(notes, n)
           y == Sales(s)!Settled(job[w].seen, job[w].seen.paid, job[w].seen.credited + a)
           c == job[w].note
           row == NoteRow(n, a, FALSE)
<1>1. /\ pc[w] = "crediting" /\ payments' = payments /\ c \notin DOMAIN notes
      /\ notes' = Entered(notes, c, row)
      /\ invoices' = [invoices EXCEPT ![n].credited = invoices[n].credited + a, ![n].status = y]
  BY DEF Sales!CreditCommit, Sales!At, Sales!Entered, Entered, Sales!Free, Sales!Credited, NoteRow
<1>2. n \in DOMAIN invoices /\ a \in Nat \ {0}
  BY <1>1, BillReady DEF BillJob, SettleInv
<1>3. job[w].seen = invoices[n] /\ a <= invoices[n].total - invoices[n].paid - invoices[n].credited
  BY <1>1 DEF SettleInv, SettleJob
<1>4. /\ InvoiceRows(invoices, quotes) /\ PaymentsOK(payments) /\ NotesOK(notes)
      /\ Settlement(invoices[n], P, C) /\ invoices[n].total \in Nat /\ P \in Nat /\ C \in Nat
  BY <1>2, SettleReady
<1>6. row.amount = a /\ row.invoice = n /\ FreshNote(row)
  BY <1>2 DEF NoteRow, FreshNote
<1> HIDE DEF row, c
<1>7. /\ CreditedFor(notes', n) = C + a
      /\ \A m : m # n => CreditedFor(notes', m) = CreditedFor(notes, m)
  <2>1. /\ CreditedFor(notes', row.invoice) = CreditedFor(notes, row.invoice) + row.amount
        /\ \A m : m # row.invoice => CreditedFor(notes', m) = CreditedFor(notes, m)
    BY ONLY <1>1, <1>4, <1>6, CreditedForIn
  <2> QED
    BY <1>6, <2>1
<1>8. invoices[n].paid = P /\ invoices[n].credited = C
  BY <1>4 DEF Settlement
<1>9. /\ C + a \in Nat /\ P + (C + a) <= invoices[n].total /\ P + (C + a) > 0
      /\ invoices[n].total \in Nat \ {0}
  BY <1>2, <1>3, <1>4, <1>8
<1>10. y = Sales(s)!Settled(invoices[n], P, C + a)
  BY <1>3, <1>8
<1>11. StatusIs(y, invoices[n].total, P + (C + a))
  BY <1>4, <1>9, <1>10, StatusesSay
<1>12. FiguresAre(invoices, invoices', n, P, C + a, y)
  <2>1. PICK v : v = invoices[n].credited + a
    OBVIOUS
  <2>2. CreditedIsNow(invoices, invoices', n, v, y)
    BY <1>1, <2>1 DEF CreditedIsNow
  <2>3. FiguresAre(invoices, invoices', n, invoices[n].paid, v, y)
    <3> HIDE DEF n, y
    <3> QED
      BY ONLY <1>2, <1>4, <2>2, FiguresEdited
  <2> QED
    BY <1>3, <1>8, <2>1, <2>3
<1> HIDE DEF n, a, P, y, C
<1>13. AllSettled(invoices, payments, notes) /\ P = PaidFor(payments, n)
  BY DEF SettleInv, P
<1>14. PICK v : v = C + a
  OBVIOUS
<1>15. /\ FiguresAre(invoices, invoices', n, P, v, y)
       /\ P + v <= invoices[n].total
       /\ StatusIs(y, invoices[n].total, P + v)
  BY <1>9, <1>11, <1>12, <1>14
<1>16. /\ P = PaidFor(payments', n) /\ v = CreditedFor(notes', n)
       /\ \A m : m # n => /\ PaidFor(payments', m) = PaidFor(payments, m)
                          /\ CreditedFor(notes', m) = CreditedFor(notes, m)
  BY <1>1, <1>7, <1>13, <1>14
<1> QED
  BY ONLY <1>13, <1>15, <1>16, SettledAgain

LEMMA SettleUncredit ==
  ASSUME NEW s, NEW w \in s.workers, SettleInv(s), Sales(s)!UncreditCommit(w)
  PROVE  AllSettled(invoices', payments', notes') /\ Follows(invoices, invoices')
<1> DEFINE c == job[w].note
           n == notes[c].invoice
           a == notes[c].amount
           P == PaidFor(payments, n)
           C == CreditedFor(notes, n)
           y == Sales(s)!Unsettled(job[w].seen, job[w].seen.paid, job[w].seen.credited - a)
<1>1. /\ pc[w] = "uncrediting" /\ payments' = payments
      /\ notes' = [notes EXCEPT ![c].void = TRUE]
      /\ invoices' = [invoices EXCEPT ![n].credited = job[w].seen.credited - a, ![n].status = y]
  BY DEF Sales!UncreditCommit, Sales!At
<1>2. c \in DOMAIN notes /\ n \in DOMAIN invoices /\ a \in Nat \ {0}
  BY <1>1, BillReady DEF BillJob, SettleInv, BillBooks, BillRows, NoteRows, NotesOK
<1>3. job[w].seen = invoices[n] /\ ~notes[c].void
  BY <1>1 DEF SettleInv, SettleJob
<1>4. /\ InvoiceRows(invoices, quotes) /\ PaymentsOK(payments) /\ NotesOK(notes)
      /\ Settlement(invoices[n], P, C) /\ invoices[n].total \in Nat /\ P \in Nat /\ C \in Nat
  BY <1>2, SettleReady
<1>5. VoidedIn(notes, notes', c) /\ notes'[c].invoice = notes[c].invoice
  <2>1. PICK i : i = notes[c]
    OBVIOUS
  <2>2. i = NoteRow(i.invoice, i.amount, i.void)
    BY <1>2, <2>1 DEF SettleInv, BillInv, BillRows, NoteRows
  <2>3. PICK b : b = TRUE
    OBVIOUS
  <2>4. [i EXCEPT !.void = b] = NoteRow(i.invoice, i.amount, b)
    BY <2>2 DEF NoteRow
  <2>5. PICK r : r = NoteRow(i.invoice, i.amount, b)
    OBVIOUS
  <2> HIDE DEF y, n, c
  <2>6. notes' = [notes EXCEPT ![c].void = b]
    BY <1>1, <2>3
  <2>7. notes'[c] = r /\ DOMAIN notes' = DOMAIN notes
        /\ \A k \in DOMAIN notes : k # c => notes'[k] = notes[k]
    BY <1>2, <2>1, <2>4, <2>5, <2>6
  <2>8. r.invoice = i.invoice /\ r.amount = i.amount /\ r.void = b
    BY <2>5 DEF NoteRow
  <2> QED
    BY <2>1, <2>3, <2>7, <2>8 DEF VoidedIn
<1>6. /\ CreditedFor(notes', n) = C - a
      /\ \A m : m # n => CreditedFor(notes', m) = CreditedFor(notes, m)
  BY <1>2, <1>3, <1>4, <1>5, CreditedForBack
<1>7. C - a \in Nat
  <2>1. NotesOK(notes')
    BY <1>4, <1>5 DEF NotesOK, VoidedIn
  <2>2. CreditedFor(notes', n) \in Nat
    BY ONLY <1>4, <2>1, FiguresType
  <2> QED
    BY <1>6, <2>2
<1>8. invoices[n].paid = P /\ invoices[n].credited = C /\ P + C <= invoices[n].total
  BY <1>4 DEF Settlement
<1>9. P + (C - a) <= invoices[n].total /\ invoices[n].total \in Nat \ {0}
  BY <1>2, <1>4, <1>7, <1>8
<1>10. y = Sales(s)!Unsettled(invoices[n], P, C - a)
  BY <1>3, <1>8
<1>11. StatusIs(y, invoices[n].total, P + (C - a))
  BY <1>4, <1>7, <1>9, <1>10, StatusesSay
<1>12. FiguresAre(invoices, invoices', n, P, C - a, y)
  <2>1. PICK v : v = job[w].seen.credited - a
    OBVIOUS
  <2>2. CreditedIsNow(invoices, invoices', n, v, y)
    BY <1>1, <2>1 DEF CreditedIsNow
  <2>3. FiguresAre(invoices, invoices', n, invoices[n].paid, v, y)
    <3> HIDE DEF n, y
    <3> QED
      BY ONLY <1>2, <1>4, <2>2, FiguresEdited
  <2> QED
    BY <1>3, <1>8, <2>1, <2>3
<1> HIDE DEF n, a, P, y, C
<1>13. AllSettled(invoices, payments, notes) /\ P = PaidFor(payments, n)
  BY DEF SettleInv, P
<1>14. PICK v : v = C - a
  OBVIOUS
<1>15. /\ FiguresAre(invoices, invoices', n, P, v, y)
       /\ P + v <= invoices[n].total
       /\ StatusIs(y, invoices[n].total, P + v)
  BY <1>9, <1>11, <1>12, <1>14
<1>16. /\ P = PaidFor(payments', n) /\ v = CreditedFor(notes', n)
       /\ \A m : m # n => /\ PaidFor(payments', m) = PaidFor(payments, m)
                          /\ CreditedFor(notes', m) = CreditedFor(notes, m)
  BY <1>1, <1>6, <1>13, <1>14
<1> QED
  BY ONLY <1>13, <1>15, <1>16, SettledAgain

LEMMA SettleSend ==
  ASSUME NEW s, NEW w \in s.workers, SettleInv(s), Sales(s)!SendCommit(w)
  PROVE  AllSettled(invoices', payments', notes') /\ Follows(invoices, invoices')
<1> DEFINE n == job[w].number
           P == PaidFor(payments, n)
           C == CreditedFor(notes, n)
<1>1. pc[w] = "mailing" /\ payments' = payments /\ notes' = notes
  BY DEF Sales!SendCommit, Sales!At
<1>2. CASE UNCHANGED invoices
  BY <1>1, <1>2 DEF SettleInv, Follows
<1>3. CASE job[w].status = "DRAFT" /\ invoices' = [invoices EXCEPT ![n].status = "SENT"]
  <2>1. n \in DOMAIN invoices
    BY <1>1, BillReady DEF BillJob, SettleInv
  <2>2. invoices[n].status = "DRAFT"
    BY <1>1, <1>3 DEF SettleInv, SettleJob
  <2>3. /\ InvoiceRows(invoices, quotes)
        /\ Settlement(invoices[n], P, C) /\ invoices[n].total \in Nat /\ P \in Nat /\ C \in Nat
    BY <2>1, SettleReady
  <2>4. invoices[n].paid = P /\ invoices[n].credited = C /\ P + C = 0
    BY <2>2, <2>3 DEF Settlement, StatusSays
  <2>5. StatusIsNow(invoices, invoices', n, "SENT")
    BY <1>3 DEF StatusIsNow
  <2> HIDE DEF n, P, C
  <2>6. FiguresAre(invoices, invoices', n, invoices[n].paid, invoices[n].credited, "SENT")
    BY ONLY <2>1, <2>3, <2>5, FiguresEdited
  <2>7. /\ FiguresAre(invoices, invoices', n, P, C, "SENT") /\ P + C <= invoices[n].total
        /\ StatusIs("SENT", invoices[n].total, P + C)
    BY <2>3, <2>4, <2>6 DEF StatusIs
  <2>8. /\ P = PaidFor(payments', n) /\ C = CreditedFor(notes', n)
        /\ \A m : m # n => /\ PaidFor(payments', m) = PaidFor(payments, m)
                           /\ CreditedFor(notes', m) = CreditedFor(notes, m)
    BY <1>1 DEF P, C
  <2>9. AllSettled(invoices, payments, notes)
    BY DEF SettleInv
  <2> QED
    BY ONLY <2>7, <2>8, <2>9, SettledAgain
<1> QED
  BY <1>2, <1>3 DEF Sales!SendCommit, Sales!MayMark

(* An invoice that is new, of which there is nothing yet.                  *)
LEMMA SettleNew ==
  ASSUME NEW s, NEW n, NEW t, NEW y, NEW q, SettleInv(s),
         n \notin DOMAIN invoices, t \in Nat,
         invoices' = Entered(invoices, n, InvoiceRow(t, y, 0, 0, q)),
         payments' = payments, notes' = notes
  PROVE  AllSettled(invoices', payments', notes') /\ Follows(invoices, invoices')
<1> DEFINE row == InvoiceRow(t, y, 0, 0, q)
<1>1. row.total = t /\ row.status = y /\ row.paid = 0 /\ row.credited = 0
  BY DEF InvoiceRow
<1> HIDE DEF row
<1>2. /\ DOMAIN invoices' = DOMAIN invoices \union {n} /\ invoices'[n] = row
      /\ \A m \in DOMAIN invoices : invoices'[m] = invoices[m]
  BY DEF Entered, row
<1>3. PaidFor(payments, n) = 0 /\ CreditedFor(notes, n) = 0
  BY NothingFor DEF SettleInv, BillInv, BillRows, PaymentRows, NoteRows
<1>4. Settlement(row, 0, 0)
  BY <1>1 DEF Settlement, StatusSays
<1> QED
  BY <1>2, <1>3, <1>4 DEF SettleInv, AllSettled, Follows

LEMMA SettleCreate ==
  ASSUME NEW s, NEW w \in s.workers, SettleInv(s),
         Sales(s)!CreateCommit(w) \/ Sales(s)!ConvertCommit(w)
  PROVE  AllSettled(invoices', payments', notes') /\ Follows(invoices, invoices')
<1>1. BillJob(pc[w], job[w], invoices, payments, notes, quotes, journals)
  BY BillReady DEF SettleInv
<1>2. payments' = payments /\ notes' = notes /\ job[w].number \notin DOMAIN invoices
  BY DEF Sales!CreateCommit, Sales!ConvertCommit, Sales!Free
<1>3. CASE Sales(s)!CreateCommit(w)
  <2>1. /\ invoices' = Entered(invoices, job[w].number,
                               InvoiceRow(job[w].total, job[w].status, 0, 0, None))
        /\ pc[w] = "issuing"
    BY <1>3 DEF Sales!CreateCommit, Sales!At, Sales!Invoice, Sales!Entered, Entered, InvoiceRow
  <2>2. job[w].total \in Nat
    BY <1>1, <2>1 DEF BillJob
  <2> QED
    BY ONLY SettleInv(s), <1>2, <2>1, <2>2, SettleNew
<1>4. CASE Sales(s)!ConvertCommit(w)
  <2>1. /\ invoices' = Entered(invoices, job[w].number,
                               InvoiceRow(job[w].total, "DRAFT", 0, 0, job[w].quote))
        /\ pc[w] = "converted"
    BY <1>4 DEF Sales!ConvertCommit, Sales!At, Sales!Invoice, Sales!Entered, Entered, InvoiceRow
  <2>2. job[w].total \in Nat
    BY <1>1, <2>1 DEF BillJob
  <2> QED
    BY ONLY SettleInv(s), <1>2, <2>1, <2>2, SettleNew
<1> QED
  BY <1>3, <1>4

(* The requests that only read. *)
LEMMA SettleRead ==
  ASSUME NEW s, NEW w \in s.workers, SettleInv(s), DOMAIN pc = s.workers, DOMAIN job = s.workers,
         \/ \E b \in s.bills : Sales(s)!CreateRead(w, b)
         \/ \E n \in DOMAIN invoices : Sales(s)!SendRead(w, n)
         \/ \E n \in DOMAIN invoices, a \in s.amounts, r \in s.references :
              Sales(s)!PayRead(w, n, a, r) \/ Sales(s)!CreditRead(w, n, a, r)
         \/ \E p \in DOMAIN payments : Sales(s)!UnpayRead(w, p)
         \/ \E k \in DOMAIN notes : Sales(s)!UncreditRead(w, k)
         \/ \E e \in s.estimates : Sales(s)!QuoteRead(w, e)
         \/ \E q \in DOMAIN quotes : \/ Sales(s)!ConvertRead(w, q)
                                     \/ \E e \in s.estimates : Sales(s)!EditRead(w, q, e)
         \/ Sales(s)!ConvertNumber(w) \/ Sales(s)!UnpayDelete(w) \/ Sales(s)!UncreditMark(w)
  PROVE  /\ UNCHANGED <<invoices, payments, notes, quotes, journals>>
         /\ SettleJob(pc'[w], job'[w], invoices, payments, notes)
         /\ \A v \in s.workers \ {w} : pc'[v] = pc[v] /\ job'[v] = job[v]
<1>1. ASSUME NEW l, NEW x, Sales(s)!Turn(w, l, x), SettleJob(l, x, invoices, payments, notes)
      PROVE  /\ SettleJob(pc'[w], job'[w], invoices, payments, notes)
             /\ \A v \in s.workers \ {w} : pc'[v] = pc[v] /\ job'[v] = job[v]
  <2>1. pc'[w] = l /\ job'[w] = x
        /\ \A v \in s.workers \ {w} : pc'[v] = pc[v] /\ job'[v] = job[v]
    BY <1>1 DEF Sales!Turn
  <2> QED
    BY <1>1, <2>1
<1>2. \A x, l : l \in {"issuing", "refunding", "quoting", "converting", "converted", "editing"} =>
        SettleJob(l, x, invoices, payments, notes)
  BY DEF SettleJob
<1>3. UNCHANGED <<invoices, payments, notes, quotes, journals>>
  BY DEF Sales!CreateRead, Sales!SendRead, Sales!PayRead, Sales!CreditRead, Sales!UnpayRead,
         Sales!UncreditRead, Sales!QuoteRead, Sales!ConvertRead, Sales!EditRead,
         Sales!ConvertNumber, Sales!UnpayDelete, Sales!UncreditMark, Sales!rowVars
<1>4. \E x, l : Sales(s)!Turn(w, l, x) /\ SettleJob(l, x, invoices, payments, notes)
  <2>1. CASE \/ \E b \in s.bills : Sales(s)!CreateRead(w, b)
             \/ \E p \in DOMAIN payments : Sales(s)!UnpayRead(w, p)
             \/ \E e \in s.estimates : Sales(s)!QuoteRead(w, e)
             \/ \E q \in DOMAIN quotes : \/ Sales(s)!ConvertRead(w, q)
                                         \/ \E e \in s.estimates : Sales(s)!EditRead(w, q, e)
             \/ Sales(s)!ConvertNumber(w)
    <3>1. \E x, l : /\ Sales(s)!Turn(w, l, x)
                    /\ l \in {"issuing", "refunding", "quoting", "converting", "converted", "editing"}
      BY <2>1 DEF Sales!CreateRead, Sales!UnpayRead, Sales!QuoteRead, Sales!ConvertRead,
                  Sales!EditRead, Sales!ConvertNumber
    <3> QED
      BY <1>2, <3>1
  <2>2. ASSUME NEW n \in DOMAIN invoices, Sales(s)!SendRead(w, n)
        PROVE  \E x, l : Sales(s)!Turn(w, l, x) /\ SettleJob(l, x, invoices, payments, notes)
    <3>1. PICK x : x = [number |-> n, status |-> invoices[n].status]
      OBVIOUS
    <3>2. Sales(s)!Turn(w, "mailing", x)
      BY <2>2, <3>1 DEF Sales!SendRead
    <3>3. SettleJob("mailing", x, invoices, payments, notes)
      BY <3>1 DEF SettleJob
    <3> QED
      BY <3>2, <3>3
  <2>3. ASSUME NEW n \in DOMAIN invoices, NEW a \in s.amounts, NEW r \in s.references,
               Sales(s)!PayRead(w, n, a, r) \/ Sales(s)!CreditRead(w, n, a, r)
        PROVE  \E x, l : Sales(s)!Turn(w, l, x) /\ SettleJob(l, x, invoices, payments, notes)
    <3>1. PICK x : x = [number |-> n, amount |-> a, ref |-> r, seen |-> invoices[n]]
      OBVIOUS
    <3>2. PICK y : y = [number |-> n, amount |-> a, note |-> r, seen |-> invoices[n]]
      OBVIOUS
    <3>3. Sales(s)!Turn(w, "paying", x) \/ Sales(s)!Turn(w, "crediting", y)
      BY <2>3, <3>1, <3>2 DEF Sales!PayRead, Sales!CreditRead
    <3>4. a <= invoices[n].total - invoices[n].paid - invoices[n].credited
      BY <2>3 DEF Sales!PayRead, Sales!CreditRead, Sales!Outstanding
    <3>5. /\ SettleJob("paying", x, invoices, payments, notes)
          /\ SettleJob("crediting", y, invoices, payments, notes)
      BY <3>1, <3>2, <3>4 DEF SettleJob
    <3> QED
      BY <3>3, <3>5
  <2>4. ASSUME NEW k \in DOMAIN notes, Sales(s)!UncreditRead(w, k)
        PROVE  \E x, l : Sales(s)!Turn(w, l, x) /\ SettleJob(l, x, invoices, payments, notes)
    <3>1. PICK x : x = [note |-> k]
      OBVIOUS
    <3>2. Sales(s)!Turn(w, "voiding", x)
      BY <2>4, <3>1 DEF Sales!UncreditRead
    <3>3. SettleJob("voiding", x, invoices, payments, notes)
      BY <2>4, <3>1 DEF SettleJob, Sales!UncreditRead
    <3> QED
      BY <3>2, <3>3
  <2>5. ASSUME Sales(s)!UnpayDelete(w)
        PROVE  \E x, l : Sales(s)!Turn(w, l, x) /\ SettleJob(l, x, invoices, payments, notes)
    <3>1. PICK x : x = [payment |-> job[w].payment, row |-> job[w].row,
                        seen |-> invoices[job[w].row.invoice]]
      OBVIOUS
    <3>2. Sales(s)!Turn(w, "unpaying", x)
      BY <2>5, <3>1 DEF Sales!UnpayDelete
    <3>3. SettleJob("unpaying", x, invoices, payments, notes)
      BY <3>1 DEF SettleJob
    <3> QED
      BY <3>2, <3>3
  <2>6. ASSUME Sales(s)!UncreditMark(w)
        PROVE  \E x, l : Sales(s)!Turn(w, l, x) /\ SettleJob(l, x, invoices, payments, notes)
    <3>1. PICK x : x = [note |-> job[w].note, seen |-> invoices[notes[job[w].note].invoice]]
      OBVIOUS
    <3>2. Sales(s)!Turn(w, "uncrediting", x) /\ pc[w] = "voiding"
      BY <2>6, <3>1 DEF Sales!UncreditMark, Sales!At
    <3>3. SettleJob("uncrediting", x, invoices, payments, notes)
      BY <3>1, <3>2 DEF SettleJob, SettleInv
    <3> QED
      BY <3>2, <3>3
  <2> QED
    BY <2>1, <2>2, <2>3, <2>4, <2>5, <2>6
<1> QED
  BY <1>1, <1>3, <1>4

(* One request at a time. *)
LEMMA SettleNext ==
  ASSUME NEW s, Sales(s)!ReceivablesAssumption, \A v, w \in s.workers : v = w,
         SettleInv(s), Sales(s)!Next
  PROVE  SettleInv(s)' /\ Follows(invoices, invoices')
<1>0. BillInv(s)' /\ DOMAIN pc = s.workers /\ DOMAIN job = s.workers
  <2>1. BillInv(s)
    BY DEF SettleInv
  <2> QED
    BY <2>1, BillNext DEF BillInv
<1>f. ASSUME UNCHANGED invoices PROVE Follows(invoices, invoices')
  BY <1>f DEF Follows
<1>1. ASSUME NEW w \in s.workers, Sales(s)!Done(w), AllSettled(invoices', payments', notes')
      PROVE  SettleInv(s)'
  <2>1. \A v \in s.workers : pc'[v] = "idle"
    BY <1>0, <1>1 DEF Sales!Done, Sales!Turn
  <2>2. \A v \in s.workers : SettleJob(pc'[v], job'[v], invoices', payments', notes')
    BY <2>1 DEF SettleJob
  <2> QED
    BY <1>0, <1>1, <2>2 DEF SettleInv
<1>2. ASSUME NEW w \in s.workers,
             \/ Sales(s)!CreateCommit(w) \/ Sales(s)!ConvertCommit(w) \/ Sales(s)!SendCommit(w)
             \/ Sales(s)!PayCommit(w) \/ Sales(s)!UnpayCommit(w)
             \/ Sales(s)!CreditCommit(w) \/ Sales(s)!UncreditCommit(w)
      PROVE  SettleInv(s)' /\ Follows(invoices, invoices')
  <2>1. AllSettled(invoices', payments', notes') /\ Follows(invoices, invoices')
    BY <1>2, SettleCreate, SettleSend, SettlePay, SettleUnpay, SettleCredit, SettleUncredit
  <2>2. Sales(s)!Done(w)
    BY <1>2 DEF Sales!CreateCommit, Sales!ConvertCommit, Sales!SendCommit, Sales!PayCommit,
                Sales!UnpayCommit, Sales!CreditCommit, Sales!UncreditCommit
  <2> QED
    BY <1>1, <2>1, <2>2
<1>3. ASSUME NEW w \in s.workers,
             Sales(s)!QuoteCommit(w) \/ Sales(s)!EditCommit(w) \/ Sales(s)!Abort(w)
      PROVE  SettleInv(s)' /\ Follows(invoices, invoices')
  <2>1. Sales(s)!Done(w) /\ UNCHANGED <<invoices, payments, notes>>
    BY <1>3 DEF Sales!QuoteCommit, Sales!EditCommit, Sales!Abort, Sales!GiveUp, Sales!rowVars
  <2> QED
    BY <1>1, <1>f, <2>1 DEF SettleInv
<1>4. ASSUME NEW w \in s.workers, NEW q \in DOMAIN quotes, NEW y \in s.asks,
             Sales(s)!SetQuoteStatus(w, q, y)
      PROVE  SettleInv(s)' /\ Follows(invoices, invoices')
  <2>1. UNCHANGED <<invoices, payments, notes, pc, job>>
    BY <1>4 DEF Sales!SetQuoteStatus, Sales!requestVars
  <2> QED
    BY <1>0, <1>f, <2>1 DEF SettleInv
<1>5. ASSUME NEW w \in s.workers,
         \/ \E b \in s.bills : Sales(s)!CreateRead(w, b)
         \/ \E n \in DOMAIN invoices : Sales(s)!SendRead(w, n)
         \/ \E n \in DOMAIN invoices, a \in s.amounts, r \in s.references :
              Sales(s)!PayRead(w, n, a, r) \/ Sales(s)!CreditRead(w, n, a, r)
         \/ \E p \in DOMAIN payments : Sales(s)!UnpayRead(w, p)
         \/ \E k \in DOMAIN notes : Sales(s)!UncreditRead(w, k)
         \/ \E e \in s.estimates : Sales(s)!QuoteRead(w, e)
         \/ \E q \in DOMAIN quotes : \/ Sales(s)!ConvertRead(w, q)
                                     \/ \E e \in s.estimates : Sales(s)!EditRead(w, q, e)
         \/ Sales(s)!ConvertNumber(w) \/ Sales(s)!UnpayDelete(w) \/ Sales(s)!UncreditMark(w)
      PROVE  SettleInv(s)' /\ Follows(invoices, invoices')
  <2>1. /\ UNCHANGED <<invoices, payments, notes, quotes, journals>>
        /\ SettleJob(pc'[w], job'[w], invoices, payments, notes)
        /\ \A v \in s.workers \ {w} : pc'[v] = pc[v] /\ job'[v] = job[v]
    BY <1>0, <1>5, SettleRead
  <2> QED
    BY <1>0, <1>f, <2>1 DEF SettleInv
<1>6. ASSUME NEW w \in s.workers,
             Sales(s)!Invoicing(w) \/ Sales(s)!Paying(w) \/ Sales(s)!Crediting(w) \/ Sales(s)!Quoting(w)
      PROVE  SettleInv(s)' /\ Follows(invoices, invoices')
  BY <1>2, <1>3, <1>4, <1>5, <1>6
     DEF Sales!Invoicing, Sales!Paying, Sales!Crediting, Sales!Quoting
<1> QED
  BY <1>3, <1>6 DEF Sales!Next

LEMMA SettleMeans ==
  ASSUME NEW s, SettleInv(s)
  PROVE  Sales(s)!SettlementAgrees
<1>1. \A t, S : Sales(s)!SumRows(t, S) = RowSum(t, S)
  BY Zenon, SalesSums DEF Sales!SumRows, RowSum
<1>2. \A n : /\ Sales(s)!SumRows(payments, Sales(s)!PaymentsOf(n)) = PaidFor(payments, n)
             /\ Sales(s)!SumRows(notes, Sales(s)!NotesOf(n)) = CreditedFor(notes, n)
  BY Zenon, <1>1 DEF PaidFor, PaymentsFor, CreditedFor, NotesFor, Sales!PaymentsOf, Sales!NotesOf
<1>3. ASSUME NEW n \in DOMAIN invoices
      PROVE  /\ invoices[n].paid = PaidFor(payments, n)
             /\ invoices[n].credited = CreditedFor(notes, n)
             /\ invoices[n].paid + invoices[n].credited <= invoices[n].total
             /\ invoices[n].paid + invoices[n].credited > 0 =>
                  invoices[n].status = Sales(s)!StatusFor(invoices[n])
  BY DEF SettleInv, AllSettled, Settlement, StatusSays, Sales!StatusFor
<1> QED
  BY <1>2, <1>3 DEF Sales!SettlementAgrees

LEMMA FollowsMeans ==
  ASSUME NEW s, Follows(invoices, invoices')
  PROVE  Sales(s)!StatusFollows
BY DEF Follows, StatusIs, Sales!StatusFollows, Sales!StatusFor

(* A quotation that a request has read and is about to write is as it was  *)
(* read, one request at a time.                                            *)
QuoteJob(l, x, qs) ==
  /\ l = "editing" => qs[x.quote].status # "CONVERTED"
  /\ l \in {"converting", "converted"} =>
       x.total = qs[x.quote].total /\ qs[x.quote].status \notin {"CONVERTED", "VOID"}
QuoteInv(s) ==
  BillInv(s) /\ \A w \in s.workers : QuoteJob(pc[w], job[w], quotes)

(* One quotation is written, and has a row r in the end. *)
LEMMA QuotesStand ==
  ASSUME NEW s, NEW q, NEW r, DOMAIN quotes \subseteq DOMAIN quotes',
         \A o \in DOMAIN quotes : o # q => quotes'[o] = quotes[o],
         q \in DOMAIN quotes =>
           /\ quotes'[q] = r
           /\ quotes[q].status = "CONVERTED" => r.total = quotes[q].total
           /\ r.invoice # quotes[q].invoice => Sales(s)!ConvertedFrom(q, r.invoice)
  PROVE  Sales(s)!QuotationsStand
BY DEF Sales!QuotationsStand

LEMMA QuoteWritten ==
  ASSUME NEW s, NEW w \in s.workers, QuoteInv(s),
         Sales(s)!QuoteCommit(w) \/ Sales(s)!EditCommit(w) \/ Sales(s)!ConvertCommit(w)
  PROVE  Sales(s)!QuotationsStand
<1>0. /\ BillJob(pc[w], job[w], invoices, payments, notes, quotes, journals)
      /\ QuoteJob(pc[w], job[w], quotes) /\ QuoteRows(quotes, invoices)
  BY BillReady DEF QuoteInv, BillInv, BillRows
<1>1. CASE Sales(s)!QuoteCommit(w)
  <2>1. PICK r : job[w].number \notin DOMAIN quotes /\ quotes' = Entered(quotes, job[w].number, r)
    BY <1>1 DEF Sales!QuoteCommit, Sales!Free, Sales!Entered, Entered
  <2>2. /\ DOMAIN quotes \subseteq DOMAIN quotes'
        /\ \A o \in DOMAIN quotes : o # job[w].number => quotes'[o] = quotes[o]
    BY <2>1 DEF Entered
  <2> QED
    BY <2>1, <2>2, QuotesStand
<1>2. CASE Sales(s)!EditCommit(w)
  <2>1. pc[w] = "editing"
    BY <1>2 DEF Sales!EditCommit, Sales!At
  <2>2. job[w].quote \in DOMAIN quotes /\ quotes[job[w].quote].status # "CONVERTED"
    BY <1>0, <2>1 DEF BillJob, QuoteJob
  <2>3. PICK i : i = quotes[job[w].quote]
    OBVIOUS
  <2>4. PICK y : y = IF job[w].status = None THEN i.status ELSE job[w].status
    OBVIOUS
  <2>5. PICK r : r = QuoteRow(job[w].total, y, i.invoice)
    OBVIOUS
  <2>6. /\ DOMAIN quotes' = DOMAIN quotes /\ quotes'[job[w].quote] = r
        /\ \A o \in DOMAIN quotes : o # job[w].quote => quotes'[o] = quotes[o]
    BY <1>0, <1>2, <2>2, <2>3, <2>4, <2>5, QuoteEdited
  <2>7. r.invoice = quotes[job[w].quote].invoice
    BY <2>3, <2>5 DEF QuoteRow
  <2> QED
    BY <2>2, <2>6, <2>7, QuotesStand
<1>3. CASE Sales(s)!ConvertCommit(w)
  <2> DEFINE q == job[w].quote
             n == job[w].number
             row == InvoiceRow(job[w].total, "DRAFT", 0, 0, q)
  <2>1. pc[w] = "converted" /\ n \notin DOMAIN invoices /\ invoices' = Entered(invoices, n, row)
    BY <1>3 DEF Sales!ConvertCommit, Sales!At, Sales!Free, Sales!Invoice, Sales!Entered, Entered,
                InvoiceRow
  <2>2. /\ q \in DOMAIN quotes /\ job[w].total = quotes[q].total
        /\ quotes[q].status \notin {"CONVERTED", "VOID"}
    BY <1>0, <2>1 DEF BillJob, QuoteJob
  <2>3. row.total = job[w].total /\ row.quote = q
    BY DEF InvoiceRow
  <2>4. PICK r : r = QuoteRow(quotes[q].total, "CONVERTED", n)
    OBVIOUS
  <2>5. /\ DOMAIN quotes' = DOMAIN quotes /\ quotes'[q] = r
        /\ \A o \in DOMAIN quotes : o # q => quotes'[o] = quotes[o]
    BY <1>0, <1>3, <2>2, <2>4, QuoteConverted
  <2>6. r.total = quotes[q].total /\ r.status = "CONVERTED" /\ r.invoice = n
    BY <2>4 DEF QuoteRow
  <2> HIDE DEF q, n, row
  <2>7. n \in DOMAIN invoices' /\ invoices'[n] = row
    BY <2>1 DEF Entered
  <2>8. Sales(s)!ConvertedFrom(q, n)
    BY <2>1, <2>2, <2>3, <2>5, <2>6, <2>7 DEF Sales!ConvertedFrom
  <2> QED
    BY <2>2, <2>5, <2>6, <2>8, QuotesStand
<1> QED
  BY <1>1, <1>2, <1>3

LEMMA QuoteNext ==
  ASSUME NEW s, Sales(s)!ReceivablesAssumption, \A v, w \in s.workers : v = w,
         QuoteInv(s), Sales(s)!Next
  PROVE  QuoteInv(s)' /\ Sales(s)!QuotationsStand
<1>0. BillInv(s)' /\ DOMAIN pc = s.workers /\ DOMAIN job = s.workers
  <2>1. BillInv(s)
    BY DEF QuoteInv
  <2> QED
    BY <2>1, BillNext DEF BillInv
<1>1. ASSUME UNCHANGED quotes PROVE Sales(s)!QuotationsStand
  BY <1>1 DEF Sales!QuotationsStand
<1>2. ASSUME NEW w \in s.workers, NEW l, NEW x, Sales(s)!Turn(w, l, x), QuoteJob(l, x, quotes')
      PROVE  QuoteInv(s)'
  <2>1. \A v \in s.workers : pc'[v] = l /\ job'[v] = x
    BY <1>0, <1>2 DEF Sales!Turn
  <2> QED
    BY <1>0, <1>2, <2>1 DEF QuoteInv
<1>3. ASSUME NEW w \in s.workers,
             Sales(s)!Invoicing(w) \/ Sales(s)!Paying(w) \/ Sales(s)!Crediting(w) \/ Sales(s)!Abort(w)
      PROVE  QuoteInv(s)' /\ Sales(s)!QuotationsStand
  <2>1. UNCHANGED quotes
    BY <1>3 DEF Sales!Invoicing, Sales!Paying, Sales!Crediting, Sales!Abort, Sales!CreateRead,
         Sales!CreateCommit, Sales!SendRead, Sales!SendCommit, Sales!PayRead, Sales!PayCommit,
         Sales!UnpayRead, Sales!UnpayDelete, Sales!UnpayCommit, Sales!CreditRead,
         Sales!CreditCommit, Sales!UncreditRead, Sales!UncreditMark, Sales!UncreditCommit,
         Sales!rowVars
  <2>2. \E l, x : /\ Sales(s)!Turn(w, l, x)
                  /\ l \in {"idle", "issuing", "mailing", "paying", "refunding", "unpaying",
                            "crediting", "voiding", "uncrediting"}
    BY <1>3 DEF Sales!Invoicing, Sales!Paying, Sales!Crediting, Sales!Abort, Sales!CreateRead,
         Sales!CreateCommit, Sales!SendRead, Sales!SendCommit, Sales!PayRead, Sales!PayCommit,
         Sales!UnpayRead, Sales!UnpayDelete, Sales!UnpayCommit, Sales!CreditRead,
         Sales!CreditCommit, Sales!UncreditRead, Sales!UncreditMark, Sales!UncreditCommit,
         Sales!Done, Sales!GiveUp
  <2>3. \E l, x : Sales(s)!Turn(w, l, x) /\ QuoteJob(l, x, quotes')
    BY <2>2 DEF QuoteJob
  <2> QED
    BY <1>1, <1>2, <2>1, <2>3
<1>4. ASSUME NEW w \in s.workers,
             Sales(s)!QuoteCommit(w) \/ Sales(s)!EditCommit(w) \/ Sales(s)!ConvertCommit(w)
      PROVE  QuoteInv(s)' /\ Sales(s)!QuotationsStand
  <2>1. Sales(s)!QuotationsStand
    BY <1>4, QuoteWritten
  <2>2. Sales(s)!Turn(w, "idle", None)
    BY <1>4 DEF Sales!QuoteCommit, Sales!EditCommit, Sales!ConvertCommit, Sales!Done
  <2>3. QuoteJob("idle", None, quotes')
    BY DEF QuoteJob
  <2> QED
    BY <1>2, <2>1, <2>2, <2>3
<1>5. ASSUME NEW w \in s.workers, NEW e \in s.estimates, Sales(s)!QuoteRead(w, e)
      PROVE  QuoteInv(s)' /\ Sales(s)!QuotationsStand
  <2>1. UNCHANGED quotes /\ \E x : Sales(s)!Turn(w, "quoting", x)
    BY <1>5 DEF Sales!QuoteRead, Sales!rowVars
  <2>2. \A x : QuoteJob("quoting", x, quotes')
    BY DEF QuoteJob
  <2> QED
    BY <1>1, <1>2, <2>1, <2>2
<1>6. ASSUME NEW w \in s.workers, NEW q \in DOMAIN quotes, Sales(s)!ConvertRead(w, q)
      PROVE  QuoteInv(s)' /\ Sales(s)!QuotationsStand
  <2>1. PICK x : x = [quote |-> q, total |-> quotes[q].total]
    OBVIOUS
  <2>2. /\ UNCHANGED quotes /\ Sales(s)!Turn(w, "converting", x)
        /\ quotes[q].status \notin {"CONVERTED", "VOID"}
    BY <1>6, <2>1 DEF Sales!ConvertRead, Sales!rowVars
  <2>3. QuoteJob("converting", x, quotes')
    BY <2>1, <2>2 DEF QuoteJob
  <2> QED
    BY <1>1, <1>2, <2>2, <2>3
<1>7. ASSUME NEW w \in s.workers, NEW q \in DOMAIN quotes, NEW e \in s.estimates,
             Sales(s)!EditRead(w, q, e)
      PROVE  QuoteInv(s)' /\ Sales(s)!QuotationsStand
  <2>1. PICK x : x = [quote |-> q, total |-> e.total, status |-> e.status]
    OBVIOUS
  <2>2. UNCHANGED quotes /\ Sales(s)!Turn(w, "editing", x) /\ quotes[q].status # "CONVERTED"
    BY <1>7, <2>1 DEF Sales!EditRead, Sales!MayEdit, Sales!rowVars
  <2>3. QuoteJob("editing", x, quotes')
    BY <2>1, <2>2 DEF QuoteJob
  <2> QED
    BY <1>1, <1>2, <2>2, <2>3
<1>8. ASSUME NEW w \in s.workers, Sales(s)!ConvertNumber(w)
      PROVE  QuoteInv(s)' /\ Sales(s)!QuotationsStand
  <2>1. PICK x : x = [quote |-> job[w].quote, total |-> job[w].total,
                      number |-> Sales(s)!NextNumber(invoices)]
    OBVIOUS
  <2>2. UNCHANGED quotes /\ Sales(s)!Turn(w, "converted", x) /\ pc[w] = "converting"
    BY <1>8, <2>1 DEF Sales!ConvertNumber, Sales!At, Sales!rowVars
  <2>3. QuoteJob("converted", x, quotes')
    BY <2>1, <2>2 DEF QuoteJob, QuoteInv
  <2> QED
    BY <1>1, <1>2, <2>2, <2>3
<1>9. ASSUME NEW w \in s.workers, NEW q \in DOMAIN quotes, NEW t \in s.asks,
             Sales(s)!SetQuoteStatus(w, q, t)
      PROVE  QuoteInv(s)' /\ Sales(s)!QuotationsStand
  <2>1. pc[w] = "idle" /\ UNCHANGED <<pc, job>>
    BY <1>9 DEF Sales!SetQuoteStatus, Sales!Idle, Sales!requestVars
  <2>2. \A v \in s.workers : QuoteJob(pc'[v], job'[v], quotes')
    BY <2>1 DEF QuoteJob
  <2>3. PICK r : r = QuoteRow(quotes[q].total, t, quotes[q].invoice)
    OBVIOUS
  <2>4. /\ DOMAIN quotes' = DOMAIN quotes /\ quotes'[q] = r
        /\ \A o \in DOMAIN quotes : o # q => quotes'[o] = quotes[o]
    BY <1>9, <2>3, QuoteMarked DEF QuoteInv, BillInv, BillRows
  <2>5. r.total = quotes[q].total /\ r.invoice = quotes[q].invoice
    BY <2>3 DEF QuoteRow
  <2> QED
    BY <1>0, <2>2, <2>4, <2>5, QuotesStand DEF QuoteInv
<1>10. ASSUME NEW w \in s.workers, Sales(s)!Quoting(w)
       PROVE  QuoteInv(s)' /\ Sales(s)!QuotationsStand
  BY <1>4, <1>5, <1>6, <1>7, <1>8, <1>9, <1>10 DEF Sales!Quoting
<1> QED
  BY <1>3, <1>10 DEF Sales!Next

(* When nothing is taken back, in every interleaving: a credit note adds   *)
(* to the figure there is, a payment to one that may be old.               *)
AddsUp(is, ps, ks) ==
  \A n \in DOMAIN is : is[n].credited = CreditedFor(ks, n) /\ is[n].paid <= PaidFor(ps, n)
ForwardJob(l, x, ps) ==
  /\ l \in {"idle", "issuing", "mailing", "paying", "crediting"}
  /\ l = "paying" => x.seen.paid <= PaidFor(ps, x.number)
ForwardInv(s) ==
  /\ BillInv(s) /\ AddsUp(invoices, payments, notes)
  /\ \A w \in s.workers : ForwardJob(pc[w], job[w], payments)

LEMMA ForwardReady ==
  ASSUME NEW s, ForwardInv(s)
  PROVE  /\ InvoiceRows(invoices, quotes) /\ PaymentsOK(payments) /\ NotesOK(notes)
         /\ \A n : PaidFor(payments, n) \in Nat /\ CreditedFor(notes, n) \in Nat
         /\ \A n \in DOMAIN invoices : invoices[n].paid \in Int /\ invoices[n].credited \in Int
         /\ \A w \in s.workers : pc[w] = "paying" => job[w].seen.paid \in Int
<1>1. InvoiceRows(invoices, quotes) /\ PaymentsOK(payments) /\ NotesOK(notes)
  BY DEF ForwardInv, BillInv, BillRows, BillBooks
<1>2. \A n : PaidFor(payments, n) \in Nat /\ CreditedFor(notes, n) \in Nat
  BY <1>1, FiguresType
<1>3. \A w \in s.workers : pc[w] = "paying" => job[w].seen.paid \in Int
  BY DEF ForwardInv, BillInv, BillJob, SeenOK
<1> QED
  BY <1>1, <1>2, <1>3 DEF InvoiceRows, InvoiceOK

LEMMA ForwardPay ==
  ASSUME NEW s, NEW w \in s.workers, ForwardInv(s), Sales(s)!PayCommit(w)
  PROVE  /\ AddsUp(invoices', payments', notes')
         /\ \A m : PaidFor(payments, m) <= PaidFor(payments', m)
<1> DEFINE n == job[w].number
           a == job[w].amount
           v == job[w].seen.paid + a
           y == Sales(s)!Settled(job[w].seen, v, job[w].seen.credited)
           id == Cardinality(ReceiptsIn(journals)) + 1
           row == [invoice |-> n, amount |-> a, ref |-> job[w].ref]
<1>r. Sales(s)!Receipts = Cardinality(ReceiptsIn(journals))
  BY Zenon DEF Sales!Receipts, Sales!Cardinality, Cardinality, ReceiptsIn
<1>1. /\ pc[w] = "paying" /\ notes' = notes
      /\ payments' = Entered(payments, id, row)
      /\ PaidIsNow(invoices, invoices', n, v, y)
  BY <1>r DEF Sales!PayCommit, Sales!At, Sales!Entered, Entered, PaidIsNow
<1>2. n \in DOMAIN invoices /\ a \in Nat \ {0}
  BY <1>1, BillReady DEF BillJob, ForwardInv
<1>3. job[w].seen.paid <= PaidFor(payments, n)
  BY <1>1 DEF ForwardInv, ForwardJob
<1>4. /\ InvoiceRows(invoices, quotes) /\ PaymentsOK(payments) /\ NotesOK(notes)
      /\ \A m : PaidFor(payments, m) \in Nat /\ job[w].seen.paid \in Int
  BY <1>1, ForwardReady
<1>5. id \notin DOMAIN payments
  <2>1. BillBooks(invoices, payments, notes, journals)
    BY DEF ForwardInv, BillInv
  <2>2. PICK k : k = Posted(journals, ReceiptNumber(id), Pair("1000", "1100", row.amount))
    OBVIOUS
  <2>3. PICK new : new = Entered(payments, id, row)
    OBVIOUS
  <2>4. row.amount \in Nat \ {0}
    BY <1>2
  <2> HIDE DEF row
  <2>5. Adds(new, payments, id)
    BY ONLY <2>1, <2>2, <2>3, <2>4, PaidIn
  <2> QED
    BY <2>5 DEF Adds
<1>6. row.amount = a /\ row.invoice = n
  OBVIOUS
<1> HIDE DEF id, row
<1>7. /\ PaidFor(payments', n) = PaidFor(payments, n) + a
      /\ \A m : m # n => PaidFor(payments', m) = PaidFor(payments, m)
  <2>1. row.amount \in Nat \ {0} /\ payments' = Entered(payments, id, row)
    BY <1>1, <1>2, <1>6
  <2>2. /\ PaidFor(payments', row.invoice) = PaidFor(payments, row.invoice) + row.amount
        /\ \A m : m # row.invoice => PaidFor(payments', m) = PaidFor(payments, m)
    BY ONLY <1>4, <1>5, <2>1, PaidForIn
  <2> QED
    BY <1>6, <2>2
<1>8. v <= PaidFor(payments', n)
  BY <1>2, <1>3, <1>4, <1>7
<1> HIDE DEF n, y, v
<1>9. FiguresAre(invoices, invoices', n, v, invoices[n].credited, y)
  BY ONLY <1>1, <1>2, <1>4, FiguresEdited
<1>10. ASSUME NEW m \in DOMAIN invoices'
       PROVE  invoices'[m].credited = CreditedFor(notes, m) /\ invoices'[m].paid <= PaidFor(payments', m)
  <2>1. CASE m = n
    BY <1>2, <1>8, <1>9, <2>1 DEF FiguresAre, ForwardInv, AddsUp
  <2>2. CASE m # n
    <3>1. invoices'[m] = invoices[m] /\ m \in DOMAIN invoices
      BY <1>9, <2>2 DEF FiguresAre
    <3> QED
      BY <1>7, <2>2, <3>1 DEF ForwardInv, AddsUp
  <2> QED
    BY <2>1, <2>2
<1>11. \A m : PaidFor(payments, m) <= PaidFor(payments', m)
  BY <1>2, <1>4, <1>7
<1> QED
  BY <1>1, <1>10, <1>11 DEF AddsUp

LEMMA ForwardCredit ==
  ASSUME NEW s, NEW w \in s.workers, ForwardInv(s), Sales(s)!CreditCommit(w)
  PROVE  AddsUp(invoices', payments', notes') /\ payments' = payments
<1> DEFINE n == job[w].number
           a == job[w].amount
           v == invoices[n].credited + a
           y == Sales(s)!Settled(job[w].seen, job[w].seen.paid, job[w].seen.credited + a)
           c == job[w].note
           row == NoteRow(n, a, FALSE)
<1>1. /\ pc[w] = "crediting" /\ payments' = payments /\ c \notin DOMAIN notes
      /\ notes' = Entered(notes, c, row)
      /\ CreditedIsNow(invoices, invoices', n, v, y)
  BY DEF Sales!CreditCommit, Sales!At, Sales!Entered, Entered, Sales!Free, Sales!Credited, NoteRow,
         CreditedIsNow
<1>2. n \in DOMAIN invoices /\ a \in Nat \ {0}
  BY <1>1, BillReady DEF BillJob, ForwardInv
<1>4. InvoiceRows(invoices, quotes) /\ NotesOK(notes)
  BY ForwardReady
<1>6. row.amount = a /\ row.invoice = n /\ FreshNote(row)
  BY <1>2 DEF NoteRow, FreshNote
<1> HIDE DEF row, c, y
<1>7. /\ CreditedFor(notes', n) = CreditedFor(notes, n) + a
      /\ \A m : m # n => CreditedFor(notes', m) = CreditedFor(notes, m)
  <2>1. /\ CreditedFor(notes', row.invoice) = CreditedFor(notes, row.invoice) + row.amount
        /\ \A m : m # row.invoice => CreditedFor(notes', m) = CreditedFor(notes, m)
    BY ONLY <1>1, <1>4, <1>6, CreditedForIn
  <2> QED
    BY <1>6, <2>1
<1>8. v = CreditedFor(notes', n)
  BY <1>2, <1>7 DEF ForwardInv, AddsUp
<1> HIDE DEF n, v
<1>9. FiguresAre(invoices, invoices', n, invoices[n].paid, v, y)
  BY ONLY <1>1, <1>2, <1>4, FiguresEdited
<1>10. ASSUME NEW m \in DOMAIN invoices'
       PROVE  invoices'[m].credited = CreditedFor(notes', m) /\ invoices'[m].paid <= PaidFor(payments, m)
  <2>1. CASE m = n
    BY <1>2, <1>8, <1>9, <2>1 DEF FiguresAre, ForwardInv, AddsUp
  <2>2. CASE m # n
    <3>1. invoices'[m] = invoices[m] /\ m \in DOMAIN invoices
      BY <1>9, <2>2 DEF FiguresAre
    <3> QED
      BY <1>7, <2>2, <3>1 DEF ForwardInv, AddsUp
  <2> QED
    BY <2>1, <2>2
<1> QED
  BY <1>1, <1>10 DEF AddsUp

LEMMA ForwardCreate ==
  ASSUME NEW s, NEW w \in s.workers, ForwardInv(s), Sales(s)!CreateCommit(w)
  PROVE  AddsUp(invoices', payments', notes') /\ payments' = payments
<1> DEFINE n == job[w].number
           row == InvoiceRow(job[w].total, job[w].status, 0, 0, None)
<1>1. /\ payments' = payments /\ notes' = notes /\ n \notin DOMAIN invoices
      /\ invoices' = Entered(invoices, n, row)
  BY DEF Sales!CreateCommit, Sales!Free, Sales!Invoice, Sales!Entered, Entered, InvoiceRow
<1>2. row.paid = 0 /\ row.credited = 0
  BY DEF InvoiceRow
<1> HIDE DEF row, n
<1>3. /\ DOMAIN invoices' = DOMAIN invoices \union {n} /\ invoices'[n] = row
      /\ \A m \in DOMAIN invoices : invoices'[m] = invoices[m]
  BY <1>1 DEF Entered
<1>4. PaidFor(payments, n) = 0 /\ CreditedFor(notes, n) = 0
  BY <1>1, NothingFor DEF ForwardInv, BillInv, BillRows, PaymentRows, NoteRows
<1> QED
  BY <1>1, <1>2, <1>3, <1>4 DEF ForwardInv, AddsUp

LEMMA ForwardSend ==
  ASSUME NEW s, NEW w \in s.workers, ForwardInv(s), Sales(s)!SendCommit(w)
  PROVE  AddsUp(invoices', payments', notes') /\ payments' = payments
<1> DEFINE n == job[w].number
<1>1. pc[w] = "mailing" /\ payments' = payments /\ notes' = notes
      /\ (invoices' = invoices \/ StatusIsNow(invoices, invoices', n, "SENT"))
  BY DEF Sales!SendCommit, Sales!At, StatusIsNow
<1>2. CASE invoices' = invoices
  BY <1>1, <1>2 DEF ForwardInv
<1>3. CASE StatusIsNow(invoices, invoices', n, "SENT")
  <2>1. n \in DOMAIN invoices /\ InvoiceRows(invoices, quotes)
    BY <1>1, BillReady, ForwardReady DEF BillJob, ForwardInv
  <2> HIDE DEF n
  <2>2. FiguresAre(invoices, invoices', n, invoices[n].paid, invoices[n].credited, "SENT")
    BY ONLY <1>3, <2>1, FiguresEdited
  <2> QED
    BY <1>1, <2>1, <2>2 DEF FiguresAre, ForwardInv, AddsUp
<1> QED
  BY <1>1, <1>2, <1>3

LEMMA ForwardStep ==
  ASSUME NEW s, Sales(s)!ReceivablesAssumption, ForwardInv(s), Sales(s)!ForwardNext
  PROVE  ForwardInv(s)'
<1>0. BillInv(s)' /\ DOMAIN pc = s.workers /\ DOMAIN job = s.workers
  <2>1. BillInv(s) /\ Sales(s)!Next
    BY BillForward DEF ForwardInv
  <2> QED
    BY <2>1, BillNext DEF BillInv
<1>a. /\ \A n : PaidFor(payments, n) \in Nat
      /\ \A v \in s.workers : pc[v] = "paying" => job[v].seen.paid \in Int
  BY ForwardReady
<1>b. \A n : PaidFor(payments', n) \in Nat
  <2>1. PaymentsOK(payments') /\ NotesOK(notes')
    BY <1>0 DEF BillInv, BillBooks
  <2> QED
    BY ONLY <2>1, FiguresType
<1>1. ASSUME NEW w \in s.workers, NEW l, NEW x, Sales(s)!Turn(w, l, x), ForwardJob(l, x, payments'),
             AddsUp(invoices', payments', notes'),
             \A m : PaidFor(payments, m) <= PaidFor(payments', m)
      PROVE  ForwardInv(s)'
  <2>1. pc'[w] = l /\ job'[w] = x
        /\ \A v \in s.workers \ {w} : pc'[v] = pc[v] /\ job'[v] = job[v]
    BY <1>0, <1>1 DEF Sales!Turn
  <2>2. ASSUME NEW v \in s.workers \ {w} PROVE ForwardJob(pc'[v], job'[v], payments')
    <3>1. ForwardJob(pc[v], job[v], payments)
      BY DEF ForwardInv
    <3>2. pc[v] = "paying" => job[v].seen.paid <= PaidFor(payments', job[v].number)
      <4>1. PICK m : m = job[v].number
        OBVIOUS
      <4>2. PaidFor(payments, m) <= PaidFor(payments', m)
        BY <1>1
      <4> QED
        BY <1>a, <1>b, <3>1, <4>1, <4>2 DEF ForwardJob
    <3> QED
      BY <2>1, <3>1, <3>2 DEF ForwardJob
  <2> QED
    BY <1>0, <1>1, <2>1, <2>2 DEF ForwardInv
<1>2. \A x : ForwardJob("idle", x, payments') /\ ForwardJob("issuing", x, payments')
             /\ ForwardJob("mailing", x, payments') /\ ForwardJob("crediting", x, payments')
  BY DEF ForwardJob
<1>3. ASSUME NEW w \in s.workers,
             \/ Sales(s)!CreateCommit(w) \/ Sales(s)!SendCommit(w) \/ Sales(s)!PayCommit(w)
             \/ Sales(s)!CreditCommit(w)
      PROVE  ForwardInv(s)'
  <2>1. Sales(s)!Turn(w, "idle", None)
    BY <1>3 DEF Sales!CreateCommit, Sales!SendCommit, Sales!PayCommit, Sales!CreditCommit, Sales!Done
  <2>2. AddsUp(invoices', payments', notes')
    BY <1>3, ForwardCreate, ForwardSend, ForwardPay, ForwardCredit
  <2>3. \A m : PaidFor(payments, m) <= PaidFor(payments', m)
    <3>1. CASE Sales(s)!PayCommit(w)
      BY <3>1, ForwardPay
    <3>2. CASE payments' = payments
      BY <1>a, <3>2
    <3> QED
      BY <1>3, <3>1, <3>2, ForwardCreate, ForwardSend, ForwardCredit
  <2> QED
    BY ONLY <1>1, <1>2, <2>1, <2>2, <2>3, w \in s.workers
<1>4. ASSUME NEW w \in s.workers, NEW l, NEW x, Sales(s)!Turn(w, l, x), ForwardJob(l, x, payments'),
             UNCHANGED <<invoices, payments, notes>>
      PROVE  ForwardInv(s)'
  <2>1. AddsUp(invoices', payments', notes')
    BY <1>4 DEF ForwardInv
  <2>2. \A m : PaidFor(payments, m) <= PaidFor(payments', m)
    BY <1>a, <1>4
  <2> QED
    BY ONLY <1>1, <1>4, <2>1, <2>2, w \in s.workers
<1>5. ASSUME NEW w \in s.workers,
             \/ \E b \in s.bills : Sales(s)!CreateRead(w, b)
             \/ \E n \in DOMAIN invoices : Sales(s)!SendRead(w, n)
             \/ Sales(s)!Abort(w)
      PROVE  ForwardInv(s)'
  <2>1. /\ UNCHANGED <<invoices, payments, notes>>
        /\ \E l, x : Sales(s)!Turn(w, l, x) /\ l \in {"idle", "issuing", "mailing"}
    BY <1>5 DEF Sales!CreateRead, Sales!SendRead, Sales!Abort, Sales!GiveUp, Sales!Done, Sales!rowVars
  <2> QED
    BY <1>2, <1>4, <2>1
<1>6. ASSUME NEW w \in s.workers, NEW n \in DOMAIN invoices, NEW a \in s.amounts,
             NEW r \in s.references, Sales(s)!PayRead(w, n, a, r) \/ Sales(s)!CreditRead(w, n, a, r)
      PROVE  ForwardInv(s)'
  <2>1. PICK x : x = [number |-> n, amount |-> a, ref |-> r, seen |-> invoices[n]]
    OBVIOUS
  <2>2. PICK y : y = [number |-> n, amount |-> a, note |-> r, seen |-> invoices[n]]
    OBVIOUS
  <2>3. /\ UNCHANGED <<invoices, payments, notes>>
        /\ Sales(s)!Turn(w, "paying", x) \/ Sales(s)!Turn(w, "crediting", y)
    BY <1>6, <2>1, <2>2 DEF Sales!PayRead, Sales!CreditRead, Sales!rowVars
  <2>4. ForwardJob("paying", x, payments')
    BY <2>1, <2>3 DEF ForwardJob, ForwardInv, AddsUp
  <2> QED
    BY <1>2, <1>4, <2>3, <2>4
<1> QED
  BY <1>3, <1>5, <1>6 DEF Sales!ForwardNext, Sales!Invoicing

LEMMA ForwardMeans ==
  ASSUME NEW s, ForwardInv(s)
  PROVE  Sales(s)!ForwardSums
<1>1. \A t, S : Sales(s)!SumRows(t, S) = RowSum(t, S)
  BY Zenon, SalesSums DEF Sales!SumRows, RowSum
<1>2. \A n : /\ Sales(s)!SumRows(payments, Sales(s)!PaymentsOf(n)) = PaidFor(payments, n)
             /\ Sales(s)!SumRows(notes, Sales(s)!NotesOf(n)) = CreditedFor(notes, n)
  BY Zenon, <1>1 DEF PaidFor, PaymentsFor, CreditedFor, NotesFor, Sales!PaymentsOf, Sales!NotesOf
<1> QED
  BY <1>2 DEF ForwardInv, AddsUp, Sales!ForwardSums

LEMMA BillStarts ==
  ASSUME NEW s, Sales(s)!Init
  PROVE  SettleInv(s) /\ QuoteInv(s) /\ ForwardInv(s)
<1>1. BillInv(s)
  BY BillStart
<1>2. /\ DOMAIN invoices = {} /\ DOMAIN quotes = {}
      /\ \A w \in s.workers : pc[w] = "idle"
  BY DEF Sales!Init, Sales!EmptyTable, Sales!NoRequests
<1>3. \A x : /\ SettleJob("idle", x, invoices, payments, notes)
             /\ QuoteJob("idle", x, quotes) /\ ForwardJob("idle", x, payments)
  BY DEF SettleJob, QuoteJob, ForwardJob
<1> QED
  BY <1>1, <1>2, <1>3
     DEF SettleInv, AllSettled, QuoteInv, ForwardInv, AddsUp

--------------------------------------------------------------------------------
(* The scenes.  A step of MCTrade is a step of the scene that is on.       *)

BillsInv == \A n \in DOMAIN BillScenes : scene = n => BillInv(BillScenes[n])

LEMMA BillsStart == Init => BillsInv
<1> SUFFICES ASSUME Init, NEW n \in DOMAIN BillScenes, scene = n
             PROVE  BillInv(BillScenes[n])
  BY DEF BillsInv
<1>1. Sales(BillScenes[n])!Init
  BY SceneNames DEF Init
<1>2. PICK s : s = BillScenes[n]
  OBVIOUS
<1> QED
  BY ONLY <1>1, <1>2, BillStart

LEMMA BillsStep ==
  ASSUME BillsInv, [Next]_vars
  PROVE  /\ BillsInv'
         /\ \A n \in DOMAIN BillScenes : scene = n =>
              Sales(BillScenes[n])!InvoicesStand \/ UNCHANGED vars
<1>1. ASSUME NEW n \in DOMAIN BillScenes, scene = n
      PROVE  /\ BillInv(BillScenes[n])'
             /\ Sales(BillScenes[n])!InvoicesStand \/ UNCHANGED vars
  <2>1. BillInv(BillScenes[n]) /\ Sales(BillScenes[n])!ReceivablesAssumption
    BY <1>1, TradeAssumption DEF BillsInv
  <2>2. SalesNext(BillScenes[n]) \/ UNCHANGED vars
    BY <1>1, SceneNames DEF Next
  <2>3. PICK s : s = BillScenes[n]
    OBVIOUS
  <2>4. CASE UNCHANGED vars
    <3>1. UNCHANGED <<invoices, payments, notes, quotes, journals, pc, job>>
      BY <2>4 DEF vars, billVars, requestVars
    <3> QED
      BY <2>1, <2>4, <3>1 DEF BillInv
  <2>5. CASE SalesNext(BillScenes[n])
    <3>1. Sales(s)!Next
      BY <2>3, <2>5, BillForward DEF SalesNext
    <3> QED
      BY ONLY <2>1, <2>3, <3>1, BillNext, BillsStand
  <2> QED
    BY <2>2, <2>4, <2>5
<1>2. scene' = scene
  BY DEF Next, vars
<1> QED
  BY <1>1, <1>2 DEF BillsInv

(* In every interleaving of issuing, sending, paying, crediting, their     *)
(* reversals, quoting and converting, of any amounts and any number of     *)
(* requests, accounts receivable is what was billed, less the payments     *)
(* there are and the credit notes that stand; and an invoice past being a  *)
(* draft is billed, or was credited as a draft (InvoicesService,           *)
(* SalesService).                                                          *)
THEOREM ReceivablesAreKept == Spec => []ReceivablesKept
<1>1. BillsInv /\ [Next]_vars => BillsInv'
  BY BillsStep
<1>2. BillsInv => ReceivablesKept
  <2> SUFFICES ASSUME BillsInv, NEW n \in DOMAIN BillScenes, scene = n
               PROVE  /\ Sales(BillScenes[n])!TypeOK
                      /\ Sales(BillScenes[n])!ReceivablesLedger
                      /\ Sales(BillScenes[n])!BilledUnlessCredited
    BY DEF ReceivablesKept
  <2>1. PICK s : s = BillScenes[n]
    OBVIOUS
  <2>2. BillInv(s)
    BY <2>1 DEF BillsInv
  <2> QED
    BY ONLY <2>1, <2>2, BillMeans
<1> QED
  BY <1>1, <1>2, BillsStart, PTL DEF Spec

(* The same of any scene: of any requests, totals, amounts, references and *)
(* bounds there may be.                                                    *)
THEOREM ReceivablesInAnyScene ==
  ASSUME NEW s, Sales(s)!ReceivablesAssumption
  PROVE  Sales(s)!Spec =>
           /\ [](Sales(s)!TypeOK /\ Sales(s)!ReceivablesLedger /\ Sales(s)!BilledUnlessCredited)
           /\ [][Sales(s)!InvoicesStand]_invoices
<1> DEFINE Inv == BillInv(s)
           Kept == Sales(s)!TypeOK /\ Sales(s)!ReceivablesLedger /\ Sales(s)!BilledUnlessCredited
           Stand == Sales(s)!InvoicesStand
<1>1. Sales(s)!Init => Inv
  BY BillStart
<1>2. Inv /\ [Sales(s)!Next]_(Sales(s)!vars) => Inv' /\ [Stand]_invoices
  <2>1. CASE Sales(s)!Next
    BY <2>1, BillNext, BillsStand
  <2>2. CASE UNCHANGED Sales(s)!vars
    BY <2>2 DEF Sales!vars, Sales!rowVars, Sales!requestVars, BillInv
  <2> QED
    BY <2>1, <2>2
<1>3. Inv => Kept
  BY BillMeans
<1> HIDE DEF Inv, Kept, Stand
<1>4. Sales(s)!Spec => []Kept /\ [][Stand]_invoices
  BY <1>1, <1>2, <1>3, PTL DEF Sales!Spec
<1> QED
  BY <1>4 DEF Kept, Stand

LEMMA SerialScene ==
  ASSUME NEW n, n \in {"receivables_serial", "quotations_serial"}
  PROVE  /\ n \in DOMAIN BillScenes /\ ~BillScenes[n].forward
         /\ \A v, w \in BillScenes[n].workers : v = w
<1>1. n \in DOMAIN BillScenes
  BY SceneNames
<1>2. CASE n = "receivables_serial"
  <2>1. BillScenes[n].workers = One /\ ~BillScenes[n].forward
    BY <1>2 DEF BillScenes, Billed
  <2> QED
    BY <1>1, <2>1, TradeAssumption
<1>3. CASE n = "quotations_serial"
  <2>1. BillScenes[n].workers = One /\ ~BillScenes[n].forward
    BY <1>3 DEF BillScenes, Billed
  <2> QED
    BY <1>1, <2>1, TradeAssumption
<1> QED
  BY <1>2, <1>3

SettledInv ==
  \A n \in {"receivables_serial", "quotations_serial"} :
    scene = n => SettleInv(BillScenes[n]) /\ QuoteInv(BillScenes[n])
AddedInv ==
  \A n \in {"receivables_forward"} : scene = n => ForwardInv(BillScenes[n])

LEMMA SettledStart == Init => SettledInv /\ AddedInv
<1> SUFFICES ASSUME Init, NEW n \in DOMAIN BillScenes, scene = n
             PROVE  SettleInv(BillScenes[n]) /\ QuoteInv(BillScenes[n]) /\ ForwardInv(BillScenes[n])
  BY SerialScene, SceneNames DEF SettledInv, AddedInv
<1>1. Sales(BillScenes[n])!Init
  BY SceneNames DEF Init
<1>2. PICK s : s = BillScenes[n]
  OBVIOUS
<1> QED
  BY ONLY <1>1, <1>2, BillStarts

LEMMA SettledStep ==
  ASSUME SettledInv, [Next]_vars
  PROVE  /\ SettledInv'
         /\ \A n \in {"receivables_serial", "quotations_serial"} : scene = n =>
              \/ Sales(BillScenes[n])!StatusFollows /\ Sales(BillScenes[n])!QuotationsStand
              \/ UNCHANGED vars
<1>1. ASSUME NEW n \in {"receivables_serial", "quotations_serial"}, scene = n
      PROVE  /\ SettleInv(BillScenes[n])' /\ QuoteInv(BillScenes[n])'
             /\ \/ Sales(BillScenes[n])!StatusFollows /\ Sales(BillScenes[n])!QuotationsStand
                \/ UNCHANGED vars
  <2>1. n \in DOMAIN BillScenes
    BY SerialScene
  <2>2. SettleInv(BillScenes[n]) /\ QuoteInv(BillScenes[n])
    BY <1>1 DEF SettledInv
  <2>3. SalesNext(BillScenes[n]) \/ UNCHANGED vars
    BY <1>1, <2>1, SceneNames DEF Next
  <2>4. PICK s : s = BillScenes[n]
    OBVIOUS
  <2>5. CASE SalesNext(BillScenes[n])
    <3>1. Sales(s)!Next
      BY <2>4, <2>5, BillForward DEF SalesNext
    <3>2. Sales(s)!ReceivablesAssumption /\ \A v, w \in s.workers : v = w
      BY <2>1, <2>4, SerialScene, TradeAssumption
    <3> QED
      BY ONLY <2>2, <2>4, <3>1, <3>2, SettleNext, QuoteNext, FollowsMeans
  <2>6. CASE UNCHANGED vars
    <3>1. UNCHANGED <<invoices, payments, notes, quotes, journals, pc, job>>
      BY <2>6 DEF vars, billVars, requestVars
    <3> QED
      BY <2>2, <2>6, <3>1 DEF SettleInv, QuoteInv, BillInv
  <2> QED
    BY <2>3, <2>5, <2>6
<1>2. scene' = scene
  BY DEF Next, vars
<1> QED
  BY <1>1, <1>2 DEF SettledInv

(* One request at a time, the amounts of every invoice are what its        *)
(* payments and its standing credit notes say, never above its total, and  *)
(* once there are any its status says what they amount to, whatever status *)
(* it was created with; in every interleaving of requests that take        *)
(* nothing back, credit notes add up and a payment is never counted twice  *)
(* (recordPayment, reversePayment, createCreditNote, voidCredit, send).    *)
THEOREM AmountsDoAgree == Spec => []AmountsAgree
<1>1. Init => SettledInv /\ AddedInv
  BY SettledStart
<1>2. SettledInv /\ [Next]_vars => SettledInv'
  BY SettledStep
<1>3. AddedInv /\ [Next]_vars => AddedInv'
  <2> SUFFICES ASSUME AddedInv, [Next]_vars, NEW n \in {"receivables_forward"}, scene' = n
               PROVE  ForwardInv(BillScenes[n])'
    BY DEF AddedInv
  <2>1. scene = n /\ n \in DOMAIN BillScenes
    BY SceneNames DEF Next, vars
  <2>2. ForwardInv(BillScenes[n])
    BY <2>1 DEF AddedInv
  <2>3. SalesNext(BillScenes[n]) \/ UNCHANGED vars
    BY <2>1, SceneNames DEF Next
  <2>4. PICK s : s = BillScenes[n]
    OBVIOUS
  <2>5. CASE SalesNext(BillScenes[n])
    <3>1. s.forward
      <4>1. PICK b : b = TRUE
        OBVIOUS
      <4>2. BillScenes["receivables_forward"] = [Billed EXCEPT !.forward = b, !.amounts = {1, 2}]
        BY Zenon, <4>1 DEF BillScenes
      <4>3. PICK a : a = {1, 2}
        OBVIOUS
      <4>4. s = [Billed EXCEPT !.forward = b, !.amounts = a]
        BY <2>4, <4>2, <4>3
      <4>5. s.forward = b
        BY <4>4 DEF Billed
      <4> QED
        BY <4>1, <4>5
    <3>2. Sales(s)!ForwardNext
      BY <2>4, <2>5, <3>1 DEF SalesNext
    <3>3. Sales(s)!ReceivablesAssumption
      BY <2>1, <2>4, TradeAssumption
    <3> QED
      BY ONLY <2>2, <2>4, <3>2, <3>3, ForwardStep
  <2>6. CASE UNCHANGED vars
    <3>1. UNCHANGED <<invoices, payments, notes, quotes, journals, pc, job>>
      BY <2>6 DEF vars, billVars, requestVars
    <3> QED
      BY <2>2, <3>1 DEF ForwardInv, BillInv
  <2> QED
    BY <2>3, <2>5, <2>6
<1>4. SettledInv /\ AddedInv => AmountsAgree
  <2> SUFFICES ASSUME SettledInv, AddedInv
               PROVE  AmountsAgree
    OBVIOUS
  <2>1. ASSUME NEW n \in {"receivables_serial", "quotations_serial"}, scene = n
        PROVE  Sales(BillScenes[n])!SettlementAgrees
    <3>1. PICK s : s = BillScenes[n]
      OBVIOUS
    <3>2. SettleInv(s)
      BY <2>1, <3>1 DEF SettledInv
    <3>3. Sales(s)!SettlementAgrees
      BY <3>2, SettleMeans
    <3> QED
      BY ONLY <3>1, <3>3
  <2>2. ASSUME NEW n \in {"receivables_forward"}, scene = n
        PROVE  Sales(BillScenes[n])!ForwardSums
    <3>1. PICK s : s = BillScenes[n]
      OBVIOUS
    <3>2. ForwardInv(s)
      BY <2>2, <3>1 DEF AddedInv
    <3> QED
      BY ONLY <3>1, <3>2, ForwardMeans
  <2> QED
    BY <2>1, <2>2 DEF AmountsAgree
<1> QED
  BY <1>1, <1>2, <1>3, <1>4, PTL DEF Spec

(* Of any scene that serves one request at a time, with invoices and       *)
(* quotations of any total and any status the endpoints accept: amounts    *)
(* are right and the status follows them; an invoice that changes gets the *)
(* status its amounts call for, a CONVERTED quotation keeps its total, and *)
(* an open one is converted into an invoice made out for it.               *)
THEOREM SettlementOneAtATime ==
  ASSUME NEW s, Sales(s)!ReceivablesAssumption, \A v, w \in s.workers : v = w
  PROVE  Sales(s)!Spec =>
           /\ []Sales(s)!SettlementAgrees
           /\ [][Sales(s)!StatusFollows /\ Sales(s)!QuotationsStand]_(Sales(s)!vars)
<1> DEFINE Inv == SettleInv(s) /\ QuoteInv(s)
           Kept == Sales(s)!SettlementAgrees
           Stand == Sales(s)!StatusFollows /\ Sales(s)!QuotationsStand
<1>1. Sales(s)!Init => Inv
  BY BillStarts
<1>2. Inv /\ [Sales(s)!Next]_(Sales(s)!vars) => Inv' /\ [Stand]_(Sales(s)!vars)
  <2>1. ASSUME Inv, Sales(s)!Next PROVE Inv' /\ Stand
    BY <2>1, SettleNext, QuoteNext, FollowsMeans
  <2>2. ASSUME Inv, UNCHANGED Sales(s)!vars PROVE Inv'
    BY <2>2 DEF Sales!vars, Sales!rowVars, Sales!requestVars, SettleInv, QuoteInv, BillInv
  <2> QED
    BY <2>1, <2>2
<1>3. Inv => Kept
  BY SettleMeans
<1> HIDE DEF Inv, Kept, Stand
<1>4. Sales(s)!Spec => []Kept /\ [][Stand]_(Sales(s)!vars)
  BY <1>1, <1>2, <1>3, PTL DEF Sales!Spec
<1> QED
  BY <1>4 DEF Kept, Stand

(* Of any scene in which nothing is taken back, in every interleaving:     *)
(* credit notes add up, and a payment is never counted twice.              *)
THEOREM ForwardAddsUp ==
  ASSUME NEW s, Sales(s)!ReceivablesAssumption
  PROVE  Sales(s)!ForwardSpec => []Sales(s)!ForwardSums
<1> DEFINE Inv == ForwardInv(s)
           Kept == Sales(s)!ForwardSums
<1>1. Sales(s)!Init => Inv
  BY BillStarts
<1>2. Inv /\ [Sales(s)!ForwardNext]_(Sales(s)!vars) => Inv'
  <2>1. ASSUME Inv, Sales(s)!ForwardNext PROVE Inv'
    BY <2>1, ForwardStep
  <2>2. ASSUME Inv, UNCHANGED Sales(s)!vars PROVE Inv'
    BY <2>2 DEF Sales!vars, Sales!rowVars, Sales!requestVars, ForwardInv, BillInv
  <2> QED
    BY <2>1, <2>2
<1>3. Inv => Kept
  BY ForwardMeans
<1> HIDE DEF Inv, Kept
<1>4. Sales(s)!ForwardSpec => []Kept
  BY <1>1, <1>2, <1>3, PTL DEF Sales!ForwardSpec
<1> QED
  BY <1>4 DEF Kept

--------------------------------------------------------------------------------
(* Both. *)

(* In every interleaving no movement is replaced or removed, and no        *)
(* invoice replaced by another of its number; one request at a time, only  *)
(* drafted adjustments and counts reach archived items, only an item with  *)
(* no stock is archived, an invoice that changes gets the status its       *)
(* amounts call for, a CONVERTED quotation keeps its total and an open one *)
(* is converted into an invoice made out for it (createMovement,           *)
(* createTransfer, adjustmentStatus, updateProduct, deleteProduct,         *)
(* createInvoice, recordPayment, updateQuotation, convertQuotation).       *)
THEOREM RowsDoStand == Spec => RowsStand
<1> DEFINE Stand ==
      /\ \A n \in DOMAIN StockScenes : scene = n => Stock(StockScenes[n])!MovementsStand
      /\ \A n \in DOMAIN BillScenes : scene = n => Sales(BillScenes[n])!InvoicesStand
      /\ \A n \in {"stock_serial"} : scene = n =>
           Stock(StockScenes[n])!LateStock /\ Stock(StockScenes[n])!ArchivedEmpty
      /\ \A n \in {"receivables_serial", "quotations_serial"} : scene = n =>
           /\ Sales(BillScenes[n])!StatusFollows
           /\ Sales(BillScenes[n])!QuotationsStand
           Rows == StocksInv /\ BillsInv /\ SettledInv
<1>1. Rows /\ [Next]_vars => Rows' /\ [Stand]_vars
  <2> SUFFICES ASSUME StocksInv, BillsInv, SettledInv, [Next]_vars
               PROVE  Rows' /\ (Stand \/ UNCHANGED vars)
    OBVIOUS
  <2>1. ASSUME ~UNCHANGED vars PROVE Stand
    BY <2>1, StocksStep, BillsStep, SettledStep, SceneNames DEF Orderly
  <2> QED
    BY <2>1, StocksStep, BillsStep, SettledStep
<1>2. [][Stand]_vars <=> RowsStand
  BY DEF RowsStand
<1>3. Init => Rows
  BY StocksStart, BillsStart, SettledStart
<1> HIDE DEF Stand, Rows
<1> QED
  BY <1>1, <1>2, <1>3, PTL DEF Spec

--------------------------------------------------------------------------------
(* Inventory, where goods only leave: the withdrawals from one warehouse   *)
(* implement CheckThenAct, with what it opened with as the limit.          *)

Draining(s, h, p) ==
  /\ \A b \in s.movements : b.product = p /\ b.warehouse = h => Takes(b)
  /\ \A t \in s.transfers : t.product = p => t.to # h
  /\ \A a \in s.adjustments : a.product = p /\ a.warehouse = h => a.delta < 0

(* What a request that waits at l with x is cleared to take.               *)
Draw(h, p, as, l, x) ==
  IF l \in {"moving", "selling"} /\ x.warehouse = h /\ x.product = p THEN x.qty
  ELSE IF l = "transferring" /\ x.from = h /\ x.product = p THEN x.qty
  ELSE IF l = "deciding" /\ x.status = "APPROVED"
          /\ as[x.ref].warehouse = h /\ as[x.ref].product = p THEN - as[x.ref].delta
  ELSE 0
Draws(s, h, p) == [w \in s.workers |-> Draw(h, p, adjustments, pc[w], job[w])]

DrainInv(s, h, p, limit) ==
  /\ StockInv(s) /\ InStock(movements, p, h) <= limit
  /\ \A r \in DOMAIN adjustments :
       adjustments[r].product = p /\ adjustments[r].warehouse = h => adjustments[r].delta < 0

(* A step of CheckThenAct that releases nothing, as a relation of what is  *)
(* used, u before and v after, and of what is pending, q before and r      *)
(* after; and what it does to one request, whose claim goes from x to y.   *)
DrainStep(ws, limit, u, v, q, r) ==
  \/ v = u /\ r = q
  \/ \E w \in ws, k \in 1 .. limit :
       q[w] = 0 /\ u + k <= limit /\ r = [q EXCEPT ![w] = k] /\ v = u
  \/ \E w \in ws : q[w] > 0 /\ (v = u \/ v = u + q[w]) /\ r = [q EXCEPT ![w] = 0]

DrawStep(limit, u, v, x, y) ==
  \/ v = u /\ y = x
  \/ v = u /\ x = 0 /\ y \in Nat /\ u + y <= limit
  \/ y = 0 /\ (v = u \/ v = u + x)

Drawing(ws, q) == q = [w \in ws |-> q[w]] /\ \A w \in ws : q[w] \in Nat

LEMMA DrawMoves ==
  ASSUME NEW ws, NEW limit \in Nat, NEW u \in Nat, NEW v, NEW q, NEW r, Drawing(ws, q),
         NEW w \in ws, NEW y, r = [q EXCEPT ![w] = y], DrawStep(limit, u, v, q[w], y)
  PROVE  DrainStep(ws, limit, u, v, q, r)
<1>1. q[w] \in Nat /\ q = [x \in ws |-> q[x]]
  BY DEF Drawing
<1>2. y = q[w] => r = q
  BY <1>1
<1>3. CASE v = u /\ y = q[w]
  BY <1>2, <1>3 DEF DrainStep
<1>4. CASE v = u /\ q[w] = 0 /\ y \in Nat /\ u + y <= limit
  <2>1. CASE y = 0
    BY <1>2, <1>4, <2>1 DEF DrainStep
  <2>2. CASE y > 0
    <3>1. y \in 1 .. limit
      BY <1>4, <2>2
    <3> QED
      BY <1>4, <3>1 DEF DrainStep
  <2> QED
    BY <1>4, <2>1, <2>2
<1>5. CASE y = 0 /\ (v = u \/ v = u + q[w])
  <2>1. CASE q[w] = 0
    BY <1>2, <1>5, <2>1 DEF DrainStep
  <2>2. CASE q[w] > 0
    BY <1>5, <2>2 DEF DrainStep
  <2> QED
    BY <1>1, <2>1, <2>2
<1> QED
  BY <1>3, <1>4, <1>5 DEF DrawStep

(* What is on hand is never more than the limit, and no claim is negative. *)
LEMMA DrawTypes ==
  ASSUME NEW s, NEW h, NEW p, NEW limit \in Nat, Stock(s)!InventoryAssumption,
         DrainInv(s, h, p, limit)
  PROVE  /\ InStock(movements, p, h) \in Int
         /\ limit - InStock(movements, p, h) \in Nat
         /\ Drawing(s.workers, Draws(s, h, p))
         /\ \A w \in s.workers : Draws(s, h, p)[w] = Draw(h, p, adjustments, pc[w], job[w])
<1>1. InStock(movements, p, h) \in Int
  BY FigureTypes DEF DrainInv, StockInv, GoodsBooks, InStock
<1>2. ASSUME NEW w \in s.workers PROVE Draw(h, p, adjustments, pc[w], job[w]) \in Nat
  <2>1. PICK l, x : l = pc[w] /\ x = job[w]
    OBVIOUS
  <2>2. StockJob(s, l, x, items, warehouses, adjustments)
    BY <2>1 DEF DrainInv, StockInv
  <2>3. /\ l = "moving" => x.qty \in Nat
        /\ l = "selling" => x.qty \in Nat
        /\ l = "transferring" => x.qty \in Nat
    BY <2>2 DEF StockJob, Stock!InventoryAssumption
  <2>4. l = "deciding" => x.ref \in DOMAIN adjustments
    BY <2>2 DEF StockJob
  <2>5. \A r \in DOMAIN adjustments :
          /\ adjustments[r].delta \in Int
          /\ adjustments[r].product = p /\ adjustments[r].warehouse = h => adjustments[r].delta < 0
    BY DEF DrainInv, StockInv, StockRows, AdjustsOK, AdjustOK
  <2>6. Draw(h, p, adjustments, l, x) \in Nat
    BY <2>3, <2>4, <2>5 DEF Draw
  <2> QED
    BY <2>1, <2>6
<1>3. \A w \in s.workers : Draws(s, h, p)[w] = Draw(h, p, adjustments, pc[w], job[w])
  BY DEF Draws
<1>4. Draws(s, h, p) = [w \in s.workers |-> Draws(s, h, p)[w]]
  BY DEF Draws
<1>5. limit - InStock(movements, p, h) \in Nat
  BY <1>1 DEF DrainInv
<1> QED
  BY <1>1, <1>2, <1>3, <1>4, <1>5 DEF Drawing

(* The adjustments there were are what they were, but for their status.    *)
SameDeltas ==
  \A r \in DOMAIN adjustments :
    /\ adjustments'[r].product = adjustments[r].product
    /\ adjustments'[r].warehouse = adjustments[r].warehouse
    /\ adjustments'[r].delta = adjustments[r].delta

LEMMA DrawStays ==
  ASSUME NEW s, NEW h, NEW p, NEW l, NEW x, SameDeltas,
         StockJob(s, l, x, items, warehouses, adjustments)
  PROVE  Draw(h, p, adjustments', l, x) = Draw(h, p, adjustments, l, x)
<1>1. l = "deciding" => x.ref \in DOMAIN adjustments
  BY DEF StockJob
<1> QED
  BY <1>1 DEF SameDeltas, Draw

Redrawn(s, h, p, w, y) == Draws(s, h, p)' = [Draws(s, h, p) EXCEPT ![w] = y]

LEMMA DrawTurns ==
  ASSUME NEW s, NEW h, NEW p, NEW w \in s.workers, NEW l, NEW x, StockInv(s), SameDeltas,
         Stock(s)!Turn(w, l, x)
  PROVE  Redrawn(s, h, p, w, Draw(h, p, adjustments', l, x))
<1>1. pc' = [pc EXCEPT ![w] = l] /\ job' = [job EXCEPT ![w] = x]
  BY DEF Stock!Turn
<1>2. /\ pc'[w] = l /\ job'[w] = x
      /\ \A v \in s.workers \ {w} : pc'[v] = pc[v] /\ job'[v] = job[v]
  BY <1>1 DEF StockInv
<1>3. ASSUME NEW v \in s.workers \ {w}
      PROVE  Draw(h, p, adjustments', pc'[v], job'[v]) = Draw(h, p, adjustments, pc[v], job[v])
  <2>1. StockJob(s, pc[v], job[v], items, warehouses, adjustments)
    BY DEF StockInv
  <2> QED
    BY <1>2, <2>1, DrawStays
<1>4. Draws(s, h, p)' = [v \in s.workers |-> Draw(h, p, adjustments', pc'[v], job'[v])]
  BY DEF Draws
<1> QED
  BY <1>2, <1>3, <1>4 DEF Draws, Redrawn

LEMMA DrawAdds ==
  ASSUME NEW s, NEW h, NEW p, NEW n, NEW m, StockInv(s), AddsMove(s, n, m)
  PROVE  InStock(movements', p, h) =
           InStock(movements, p, h) + (IF m.product = p /\ m.warehouse = h THEN Moved(m) ELSE 0)
BY MoveAdds DEF StockInv, GoodsBooks, AddsMove, InStock

LegsMove(h, p, out, in) ==
  InStock(movements', p, h) =
    InStock(movements, p, h)
    + (IF out.product = p /\ out.warehouse = h THEN Moved(out) ELSE 0)
    + (IF in.product = p /\ in.warehouse = h THEN Moved(in) ELSE 0)

LEMMA DrawLegs ==
  ASSUME NEW s, NEW h, NEW p, NEW mid, NEW a, NEW out, NEW b, NEW in, StockInv(s),
         Legs(s, mid, a, out, b, in)
  PROVE  LegsMove(h, p, out, in)
<1>1. MovesOK(movements) /\ MoveAdded(movements, mid, a, out) /\ MoveAdded(mid, movements', b, in)
  BY DEF StockInv, GoodsBooks, Legs
<1>2. /\ MovesOK(mid)
      /\ InStock(mid, p, h) = InStock(movements, p, h)
           + (IF out.product = p /\ out.warehouse = h THEN Moved(out) ELSE 0)
  BY <1>1, MoveAdds DEF InStock
<1>3. InStock(movements', p, h) = InStock(mid, p, h)
           + (IF in.product = p /\ in.warehouse = h THEN Moved(in) ELSE 0)
  BY <1>1, <1>2, MoveAdds DEF InStock
<1> QED
  BY <1>2, <1>3 DEF LegsMove

(* A step from a state where goods only leave.                             *)
Drains(s, h, p, limit) ==
  /\ DrainInv(s, h, p, limit)'
  /\ DrainStep(s.workers, limit, limit - InStock(movements, p, h), limit - InStock(movements', p, h),
               Draws(s, h, p), Draws(s, h, p)')

LEMMA DrainTurn ==
  ASSUME NEW s, NEW h, NEW p, NEW limit \in Nat, NEW w \in s.workers, NEW l, NEW x,
         Stock(s)!InventoryAssumption, DrainInv(s, h, p, limit), StockInv(s)',
         DOMAIN adjustments' = DOMAIN adjustments, SameDeltas, Stock(s)!Turn(w, l, x),
         DrawStep(limit, limit - InStock(movements, p, h), limit - InStock(movements', p, h),
                  Draw(h, p, adjustments, pc[w], job[w]), Draw(h, p, adjustments', l, x))
  PROVE  Drains(s, h, p, limit)
<1>1. PICK u, v, q, y : /\ u = limit - InStock(movements, p, h) /\ v = limit - InStock(movements', p, h)
                        /\ q = Draws(s, h, p) /\ y = Draw(h, p, adjustments', l, x)
  OBVIOUS
<1>2. u \in Nat /\ Drawing(s.workers, q) /\ q[w] = Draw(h, p, adjustments, pc[w], job[w])
  BY <1>1, DrawTypes
<1>3. Draws(s, h, p)' = [q EXCEPT ![w] = y]
  <2>1. StockInv(s)
    BY DEF DrainInv
  <2>2. Redrawn(s, h, p, w, Draw(h, p, adjustments', l, x))
    BY <2>1, DrawTurns
  <2>3. Redrawn(s, h, p, w, y)
    BY <1>1, <2>2
  <2> QED
    BY <1>1, <2>3 DEF Redrawn
<1>4. DrawStep(limit, u, v, q[w], y)
  BY <1>1, <1>2
<1>5. DrainStep(s.workers, limit, u, v, q, Draws(s, h, p)')
  BY <1>2, <1>3, <1>4, DrawMoves
<1>6. InStock(movements', p, h) <= limit
  <2>1. q[w] \in Nat
    BY <1>2 DEF Drawing
  <2>2. v = u \/ v = u + q[w]
    BY <1>4 DEF DrawStep
  <2>3. v >= 0
    BY <1>2, <2>1, <2>2
  <2>4. InStock(movements', p, h) \in Int
    BY FigureTypes DEF StockInv, GoodsBooks, InStock
  <2> QED
    BY <1>1, <2>3, <2>4
<1>7. \A r \in DOMAIN adjustments' :
        adjustments'[r].product = p /\ adjustments'[r].warehouse = h => adjustments'[r].delta < 0
  BY DEF DrainInv, SameDeltas
<1> QED
  BY <1>1, <1>5, <1>6, <1>7 DEF Drains, DrainInv

(* What is read does not change the stock; an aborted claim is gone.       *)
LEMMA DrainRead ==
  ASSUME NEW s, NEW h, NEW p, NEW limit \in Nat, NEW w \in s.workers, NEW l, NEW x,
         Stock(s)!InventoryAssumption, DrainInv(s, h, p, limit), StockInv(s)',
         pc[w] = "idle", movements' = movements, adjustments' = adjustments,
         Stock(s)!Turn(w, l, x),
         Draw(h, p, adjustments, l, x) \in Nat,
         Draw(h, p, adjustments, l, x) # 0 =>
           Draw(h, p, adjustments, l, x) <= InStock(movements, p, h)
  PROVE  Drains(s, h, p, limit)
<1>1. Draw(h, p, adjustments, pc[w], job[w]) = 0
  BY DEF Draw
<1>2. SameDeltas
  BY DEF SameDeltas
<1>3. PICK a, y : a = InStock(movements, p, h) /\ y = Draw(h, p, adjustments, l, x)
  OBVIOUS
<1>4. a \in Int /\ y \in Nat /\ (y # 0 => y <= a)
  BY <1>3, DrawTypes
<1>5. DrawStep(limit, limit - a, limit - a, 0, y)
  BY <1>4 DEF DrawStep
<1> QED
  BY <1>1, <1>2, <1>3, <1>5, DrainTurn

LEMMA DrainReads ==
  ASSUME NEW s, NEW h, NEW p, NEW limit \in Nat, NEW w \in s.workers,
         Stock(s)!InventoryAssumption, DrainInv(s, h, p, limit), Draining(s, h, p),
         \/ \E b \in s.movements : Stock(s)!MovementRead(w, b)
         \/ \E t \in s.transfers : Stock(s)!TransferRead(w, t)
         \/ \E r \in DOMAIN adjustments, y \in {"APPROVED", "VOID"} : Stock(s)!DecideRead(w, r, y)
         \/ \E b \in s.sales : Stock(s)!TillRead(w, b)
  PROVE  Drains(s, h, p, limit)
<1>0. StockInv(s)'
  BY StockReads DEF DrainInv
<1>1. ASSUME NEW b \in s.movements, Stock(s)!MovementRead(w, b) PROVE Drains(s, h, p, limit)
  <2>1. /\ pc[w] = "idle" /\ movements' = movements /\ adjustments' = adjustments
        /\ Stock(s)!Turn(w, "moving", b)
    BY <1>1 DEF Stock!MovementRead, Stock!Idle, Stock!rowVars
  <2>2. Takes(b) => b.qty <= InStock(movements, b.product, b.warehouse)
    BY <1>1, CheckNames DEF Stock!MovementRead, Stock!Withdraws, Takes
  <2>3. b.qty \in Nat
    BY DEF Stock!InventoryAssumption
  <2>4. Draw(h, p, adjustments, "moving", b) =
          IF b.product = p /\ b.warehouse = h THEN b.qty ELSE 0
    BY DEF Draw
  <2>5. b.product = p /\ b.warehouse = h => b.qty <= InStock(movements, p, h)
    BY <2>2 DEF Draining
  <2> QED
    BY <1>0, <2>1, <2>3, <2>4, <2>5, DrainRead
<1>2. ASSUME NEW t \in s.transfers, Stock(s)!TransferRead(w, t) PROVE Drains(s, h, p, limit)
  <2>1. /\ pc[w] = "idle" /\ movements' = movements /\ adjustments' = adjustments
        /\ Stock(s)!Turn(w, "transferring", t)
    BY <1>2 DEF Stock!TransferRead, Stock!Idle, Stock!rowVars
  <2>2. t.qty <= InStock(movements, t.product, t.from)
    BY <1>2, CheckNames DEF Stock!TransferRead
  <2>3. t.qty \in Nat
    BY DEF Stock!InventoryAssumption
  <2>4. Draw(h, p, adjustments, "transferring", t) =
          IF t.product = p /\ t.from = h THEN t.qty ELSE 0
    BY DEF Draw
  <2>5. t.product = p /\ t.from = h => t.qty <= InStock(movements, p, h)
    BY <2>2
  <2> QED
    BY <1>0, <2>1, <2>3, <2>4, <2>5, DrainRead
<1>3. ASSUME NEW r \in DOMAIN adjustments, NEW y \in {"APPROVED", "VOID"}, Stock(s)!DecideRead(w, r, y)
      PROVE  Drains(s, h, p, limit)
  <2>1. PICK x : x = [ref |-> r, status |-> y]
    OBVIOUS
  <2>2. /\ pc[w] = "idle" /\ movements' = movements /\ adjustments' = adjustments
        /\ Stock(s)!Turn(w, "deciding", x)
    BY <1>3, <2>1 DEF Stock!DecideRead, Stock!Idle, Stock!rowVars
  <2>3. PICK a : a = adjustments[r]
    OBVIOUS
  <2>4. y = "APPROVED" /\ a.delta < 0 => - a.delta <= InStock(movements, a.product, a.warehouse)
    BY <1>3, <2>3, CheckNames DEF Stock!DecideRead
  <2>5. a.delta \in Int /\ (a.product = p /\ a.warehouse = h => a.delta < 0)
    BY <2>3 DEF DrainInv, StockInv, StockRows, AdjustsOK, AdjustOK
  <2>6. Draw(h, p, adjustments, "deciding", x) =
          IF y = "APPROVED" /\ a.product = p /\ a.warehouse = h THEN - a.delta ELSE 0
    BY <2>1, <2>3 DEF Draw
  <2>7. y = "APPROVED" /\ a.product = p /\ a.warehouse = h => - a.delta <= InStock(movements, p, h)
    BY <2>4, <2>5
  <2>8. Draw(h, p, adjustments, "deciding", x) \in Nat
    BY <2>5, <2>6
  <2> QED
    BY <1>0, <2>2, <2>6, <2>7, <2>8, DrainRead
<1>4. ASSUME NEW b \in s.sales, Stock(s)!TillRead(w, b) PROVE Drains(s, h, p, limit)
  <2>1. /\ pc[w] = "idle" /\ movements' = movements /\ adjustments' = adjustments
        /\ Stock(s)!Turn(w, "selling", b)
    BY <1>4 DEF Stock!TillRead, Stock!Idle
  <2>2. b.qty <= InStock(movements, b.product, b.warehouse)
    BY <1>4, CheckNames DEF Stock!TillRead
  <2>3. b.qty \in Nat
    BY DEF Stock!InventoryAssumption
  <2>4. Draw(h, p, adjustments, "selling", b) =
          IF b.product = p /\ b.warehouse = h THEN b.qty ELSE 0
    BY DEF Draw
  <2> QED
    BY <1>0, <2>1, <2>2, <2>3, <2>4, DrainRead
<1> QED
  BY <1>1, <1>2, <1>3, <1>4

LEMMA DrainDone ==
  ASSUME NEW s, NEW h, NEW p, NEW limit \in Nat, NEW w \in s.workers,
         Stock(s)!InventoryAssumption, DrainInv(s, h, p, limit), StockInv(s)',
         DOMAIN adjustments' = DOMAIN adjustments, SameDeltas, Stock(s)!Done(w),
         \/ InStock(movements', p, h) = InStock(movements, p, h)
         \/ InStock(movements', p, h) =
              InStock(movements, p, h) - Draw(h, p, adjustments, pc[w], job[w])
  PROVE  Drains(s, h, p, limit)
<1>1. Stock(s)!Turn(w, "idle", None)
  BY DEF Stock!Done
<1>2. Draw(h, p, adjustments', "idle", None) = 0
  BY DEF Draw
<1>3. PICK a, b, x : /\ a = InStock(movements, p, h) /\ b = InStock(movements', p, h)
                     /\ x = Draw(h, p, adjustments, pc[w], job[w])
  OBVIOUS
<1>4. a \in Int /\ x \in Nat /\ (b = a \/ b = a - x)
  BY <1>3, DrawTypes DEF Drawing
<1>5. limit - b = limit - a \/ limit - b = (limit - a) + x
  BY <1>4
<1>6. DrawStep(limit, limit - a, limit - b, x, 0)
  BY <1>5 DEF DrawStep
<1> QED
  BY <1>1, <1>2, <1>3, <1>6, DrainTurn

LEMMA DrainCommits ==
  ASSUME NEW s, NEW h, NEW p, NEW limit \in Nat, NEW w \in s.workers,
         Stock(s)!InventoryAssumption, DrainInv(s, h, p, limit), Draining(s, h, p),
         Stock(s)!MovementCommit(w) \/ Stock(s)!TillCommit(w)
  PROVE  Drains(s, h, p, limit)
<1>1. PICK b : b = job[w]
  OBVIOUS
<1>2. StockInv(s)
  BY DEF DrainInv
<1>3. StockInv(s)' /\ adjustments' = adjustments /\ Stock(s)!Done(w)
  BY <1>2, StockMoves, StockSells DEF Stock!MovementCommit, Stock!TillCommit
<1>4. DOMAIN adjustments' = DOMAIN adjustments /\ SameDeltas
  BY <1>3 DEF SameDeltas
<1>5. CASE Stock(s)!MovementCommit(w)
  <2>1. PICK m : m = MoveRow(b.type, b.product, b.warehouse, b.qty, b.cost, FALSE)
    OBVIOUS
  <2>2. AddsMove(s, <<"MOVE", b.ref>>, m) /\ b \in s.movements
    BY <1>1, <1>2, <1>5, <2>1, MovementAdds
  <2>3. /\ m.product = b.product /\ m.warehouse = b.warehouse
        /\ Takes(b) => Moved(m) = - b.qty
    BY <2>1 DEF MoveRow, Moved, Takes
  <2>4. m.product = p /\ m.warehouse = h => Moved(m) = - b.qty
    BY <2>2, <2>3 DEF Draining
  <2>5. Draw(h, p, adjustments, pc[w], job[w]) =
          IF m.product = p /\ m.warehouse = h THEN b.qty ELSE 0
    BY <1>1, <1>5, <2>3 DEF Draw, Stock!MovementCommit, Stock!At
  <2>6. InStock(movements', p, h) =
          InStock(movements, p, h) + (IF m.product = p /\ m.warehouse = h THEN Moved(m) ELSE 0)
    BY <1>2, <2>2, DrawAdds
  <2>7. b.qty \in Nat /\ InStock(movements, p, h) \in Int
    BY <2>2, DrawTypes DEF Stock!InventoryAssumption
  <2>8. \/ InStock(movements', p, h) = InStock(movements, p, h)
        \/ InStock(movements', p, h) =
             InStock(movements, p, h) - Draw(h, p, adjustments, pc[w], job[w])
    BY <2>4, <2>5, <2>6, <2>7
  <2> QED
    BY <1>3, <1>4, <2>8, DrainDone
<1>6. CASE Stock(s)!TillCommit(w)
  <2>1. PICK m : m = MoveRow("ISSUE", b.product, b.warehouse, b.qty, b.cost, FALSE)
    OBVIOUS
  <2>2. AddsMove(s, NextTag(movements, "POS"), m) /\ b \in s.sales
    BY <1>1, <1>2, <1>6, <2>1, TillAdds
  <2>3. m.product = b.product /\ m.warehouse = b.warehouse /\ Moved(m) = - b.qty
    BY <2>1 DEF MoveRow, Moved
  <2>4. Draw(h, p, adjustments, pc[w], job[w]) =
          IF m.product = p /\ m.warehouse = h THEN b.qty ELSE 0
    BY <1>1, <1>6, <2>3 DEF Draw, Stock!TillCommit, Stock!At
  <2>5. InStock(movements', p, h) =
          InStock(movements, p, h) + (IF m.product = p /\ m.warehouse = h THEN Moved(m) ELSE 0)
    BY <1>2, <2>2, DrawAdds
  <2>6. b.qty \in Nat /\ InStock(movements, p, h) \in Int
    BY <2>2, DrawTypes DEF Stock!InventoryAssumption
  <2>7. \/ InStock(movements', p, h) = InStock(movements, p, h)
        \/ InStock(movements', p, h) =
             InStock(movements, p, h) - Draw(h, p, adjustments, pc[w], job[w])
    BY <2>3, <2>4, <2>5, <2>6
  <2> QED
    BY <1>3, <1>4, <2>7, DrainDone
<1> QED
  BY <1>5, <1>6

(* A transfer takes from one warehouse what it brings to another.          *)
LEMMA DrainTransfers ==
  ASSUME NEW s, NEW h, NEW p, NEW limit \in Nat, NEW w \in s.workers,
         Stock(s)!InventoryAssumption, DrainInv(s, h, p, limit), Draining(s, h, p),
         Stock(s)!TransferCommit(w)
  PROVE  Drains(s, h, p, limit)
<1>1. PICK t : t = job[w]
  OBVIOUS
<1>2. PICK out, in : out = Leg(s, t, "TRANSFER_OUT", t.from) /\ in = Leg(s, t, "TRANSFER_IN", t.to)
  OBVIOUS
<1>3. StockInv(s)
  BY DEF DrainInv
<1>4. StockInv(s)' /\ adjustments' = adjustments /\ Stock(s)!Done(w)
  BY <1>3, StockTransfers DEF Stock!TransferCommit
<1>5. DOMAIN adjustments' = DOMAIN adjustments /\ SameDeltas
  BY <1>4 DEF SameDeltas
<1>6. /\ \E mid : Legs(s, mid, <<"OUT", t.ref>>, out, <<"IN", t.ref>>, in)
      /\ t \in s.transfers
      /\ out.product = t.product /\ out.warehouse = t.from /\ Moved(out) = - t.qty
      /\ in.product = t.product /\ in.warehouse = t.to
  BY <1>1, <1>2, <1>3, TransferAdds
<1>7. InStock(movements', p, h) =
           InStock(movements, p, h)
           + (IF out.product = p /\ out.warehouse = h THEN Moved(out) ELSE 0)
           + (IF in.product = p /\ in.warehouse = h THEN Moved(in) ELSE 0)
  <2>1. PICK mid, m, n : m = <<"OUT", t.ref>> /\ n = <<"IN", t.ref>> /\ Legs(s, mid, m, out, n, in)
    BY <1>6
  <2>2. LegsMove(h, p, out, in)
    BY <1>3, <2>1, DrawLegs
  <2> QED
    BY <2>2 DEF LegsMove
<1>8. ~(in.product = p /\ in.warehouse = h)
  BY <1>6 DEF Draining
<1>9. Draw(h, p, adjustments, pc[w], job[w]) =
        IF out.product = p /\ out.warehouse = h THEN t.qty ELSE 0
  BY <1>1, <1>6 DEF Draw, Stock!TransferCommit, Stock!At
<1>10. t.qty \in Nat /\ InStock(movements, p, h) \in Int
  BY <1>6, DrawTypes DEF Stock!InventoryAssumption
<1>11. \/ InStock(movements', p, h) = InStock(movements, p, h)
       \/ InStock(movements', p, h) =
            InStock(movements, p, h) - Draw(h, p, adjustments, pc[w], job[w])
  BY <1>6, <1>7, <1>8, <1>9, <1>10
<1> QED
  BY <1>4, <1>5, <1>11, DrainDone

LEMMA DrainDecides ==
  ASSUME NEW s, NEW h, NEW p, NEW limit \in Nat, NEW w \in s.workers,
         Stock(s)!InventoryAssumption, DrainInv(s, h, p, limit), Stock(s)!DecideCommit(w)
  PROVE  Drains(s, h, p, limit)
<1>1. PICK a : a = adjustments[job[w].ref]
  OBVIOUS
<1>2. StockInv(s) /\ job[w].ref \in DOMAIN adjustments
  BY DEF DrainInv, StockInv, StockJob, Stock!DecideCommit, Stock!At
<1>3. StockInv(s)' /\ Stock(s)!Done(w)
  BY <1>2, StockDecides DEF Stock!DecideCommit
<1>4. DOMAIN adjustments' = DOMAIN adjustments /\ SameDeltas
  <2>1. adjustments' = [adjustments EXCEPT ![job[w].ref].status = job[w].status]
    BY DEF Stock!DecideCommit
  <2>2. ASSUME NEW r \in DOMAIN adjustments
        PROVE  /\ adjustments'[r].product = adjustments[r].product
               /\ adjustments'[r].warehouse = adjustments[r].warehouse
               /\ adjustments'[r].delta = adjustments[r].delta
    <3>1. PICK b : b = adjustments[r]
      OBVIOUS
    <3>2. b = AdjustRow(b.product, b.warehouse, b.delta, b.cost, b.status)
      BY <1>2, <3>1 DEF StockInv, StockRows, AdjustsOK, AdjustOK
    <3>3. adjustments'[r] = b \/ adjustments'[r] = [b EXCEPT !.status = job[w].status]
      BY <2>1, <3>1
    <3> QED
      BY <3>1, <3>2, <3>3 DEF AdjustRow
  <2> QED
    BY <2>1, <2>2 DEF SameDeltas
<1>5. CASE job[w].status = "APPROVED"
  <2>1. PICK m : m = MoveRow("ADJUSTMENT", a.product, a.warehouse, a.delta, a.cost, FALSE)
    OBVIOUS
  <2>2. AddsMove(s, <<"ADJ", job[w].ref>>, m) /\ a.delta \in Int
    BY <1>1, <1>2, <1>5, <2>1, ApprovalAdds DEF Approves
  <2>3. m.product = a.product /\ m.warehouse = a.warehouse /\ Moved(m) = a.delta
    BY <2>1 DEF MoveRow, Moved
  <2>4. Draw(h, p, adjustments, pc[w], job[w]) =
          IF m.product = p /\ m.warehouse = h THEN - a.delta ELSE 0
    BY <1>1, <1>5, <2>3 DEF Draw, Stock!DecideCommit, Stock!At
  <2>5. InStock(movements', p, h) =
          InStock(movements, p, h) + (IF m.product = p /\ m.warehouse = h THEN Moved(m) ELSE 0)
    BY <1>2, <2>2, DrawAdds
  <2>6. InStock(movements, p, h) \in Int
    BY DrawTypes
  <2>7. \/ InStock(movements', p, h) = InStock(movements, p, h)
        \/ InStock(movements', p, h) =
             InStock(movements, p, h) - Draw(h, p, adjustments, pc[w], job[w])
    BY <2>2, <2>3, <2>4, <2>5, <2>6
  <2> QED
    BY <1>3, <1>4, <2>7, DrainDone
<1>6. CASE job[w].status # "APPROVED"
  <2>1. movements' = movements
    BY <1>6 DEF Stock!DecideCommit
  <2> QED
    BY <1>3, <1>4, <2>1, DrainDone
<1> QED
  BY <1>5, <1>6

LEMMA DrainAborts ==
  ASSUME NEW s, NEW h, NEW p, NEW limit \in Nat, NEW w \in s.workers,
         Stock(s)!InventoryAssumption, DrainInv(s, h, p, limit), Stock(s)!Abort(w)
  PROVE  Drains(s, h, p, limit)
<1>1. StockInv(s)' /\ Stock(s)!Done(w) /\ adjustments' = adjustments /\ movements' = movements
  BY StockAborts DEF DrainInv, Stock!Abort, Stock!GiveUp
<1>2. DOMAIN adjustments' = DOMAIN adjustments /\ SameDeltas
  BY <1>1 DEF SameDeltas
<1> QED
  BY <1>1, <1>2, DrainDone

(* A draft claims nothing yet, and what others claim stays.                *)
LEMMA DrainDrafts ==
  ASSUME NEW s, NEW h, NEW p, NEW limit \in Nat, NEW a \in s.adjustments,
         Stock(s)!InventoryAssumption, DrainInv(s, h, p, limit), Draining(s, h, p),
         Stock(s)!CreateAdjustment(a)
  PROVE  Drains(s, h, p, limit)
<1>1. StockInv(s)' /\ movements' = movements /\ pc' = pc /\ job' = job
  BY StockDrafts DEF DrainInv, Stock!CreateAdjustment, Stock!requestVars
<1>2. /\ a.ref \notin DOMAIN adjustments /\ DOMAIN adjustments' = DOMAIN adjustments \union {a.ref}
      /\ adjustments'[a.ref] = AdjustRow(a.product, a.warehouse, a.delta, a.cost, "DRAFT")
      /\ \A r \in DOMAIN adjustments : adjustments'[r] = adjustments[r]
  BY DEF Stock!CreateAdjustment, AdjustRow
<1>3. SameDeltas
  BY <1>2 DEF SameDeltas
<1>4. PICK b : b = adjustments'[a.ref]
  OBVIOUS
<1>5. b.product = p /\ b.warehouse = h => b.delta < 0
  BY <1>2, <1>4 DEF AdjustRow, Draining
<1>6. DrainInv(s, h, p, limit)'
  BY <1>1, <1>2, <1>4, <1>5 DEF DrainInv
<1>7. \A w \in s.workers :
        Draw(h, p, adjustments', pc[w], job[w]) = Draw(h, p, adjustments, pc[w], job[w])
  BY <1>3, DrawStays DEF DrainInv, StockInv
<1>8. Draws(s, h, p)' = Draws(s, h, p)
  BY <1>1, <1>7 DEF Draws
<1> QED
  BY <1>1, <1>6, <1>8 DEF Drains, DrainStep

LEMMA DrainNext ==
  ASSUME NEW s, NEW h, NEW p, NEW limit \in Nat, Stock(s)!InventoryAssumption,
         DrainInv(s, h, p, limit), Draining(s, h, p), Stock(s)!StockNext
  PROVE  Drains(s, h, p, limit)
<1>1. ASSUME NEW w \in s.workers, Stock(s)!Stock(w) PROVE Drains(s, h, p, limit)
  BY <1>1, DrainReads, DrainCommits, DrainTransfers, DrainDecides, DrainAborts DEF Stock!Stock
<1> QED
  BY <1>1, DrainDrafts DEF Stock!StockNext

--------------------------------------------------------------------------------
(* The refinement, for any such scene and for the one that a run checks.   *)

Withdrawals(s, h, p, limit) == INSTANCE CheckThenAct WITH
  Workers <- s.workers, Limit <- limit,
  used <- limit - InStock(movements, p, h), pend <- Draws(s, h, p)

(* The warehouse opens with this much of the product, and no other does.   *)
OpensWith(s, h, p, limit) ==
  \E o : /\ {x \in OldOpenings(s) : x.product = p} = {o}
         /\ o.warehouse = h /\ o.qty = limit

LEMMA DrainStart ==
  ASSUME NEW s, NEW h, NEW p, NEW limit \in Nat, Stock(s)!InventoryAssumption,
         OpensWith(s, h, p, limit), Stock(s)!Init
  PROVE  /\ DrainInv(s, h, p, limit) /\ InStock(movements, p, h) = limit
         /\ Draws(s, h, p) = [w \in s.workers |-> 0]
<1>1. StockInv(s) /\ pc = [w \in s.workers |-> "idle"] /\ DOMAIN adjustments = {}
  BY StockStart DEF Stock!Init
<1>2. PICK o : {x \in OldOpenings(s) : x.product = p} = {o} /\ o.warehouse = h /\ o.qty = limit
  BY DEF OpensWith
<1>3. /\ DOMAIN movements = {OpeningTag(x) : x \in OldOpenings(s)}
      /\ \A r \in DOMAIN movements : \E x \in OldOpenings(s) :
           r = OpeningTag(x) /\ movements[r] = OpeningRow(x)
  BY StockOpens
<1>4. PICK r : r = OpeningTag(o)
  OBVIOUS
<1>5. o \in OldOpenings(s) /\ o.product = p /\ r \in DOMAIN movements
  BY <1>2, <1>3, <1>4
<1>6. ASSUME NEW x \in DOMAIN movements, movements[x].product = p
      PROVE  x = r /\ movements[x] = OpeningRow(o)
  <2>1. PICK y \in OldOpenings(s) : x = OpeningTag(y) /\ movements[x] = OpeningRow(y)
    BY <1>3
  <2>2. y.product = p
    BY <1>6, <2>1 DEF OpeningRow, MoveRow
  <2>3. y = o
    BY <1>2, <2>2
  <2> QED
    BY <1>4, <2>1, <2>3
<1>7. movements[r] = OpeningRow(o)
  <2>1. PICK y \in OldOpenings(s) : r = OpeningTag(y) /\ movements[r] = OpeningRow(y)
    BY <1>3, <1>5
  <2>2. y.product = p
    BY <1>4, <1>5, <2>1 DEF OpeningTag
  <2>3. y = o
    BY <1>2, <2>2
  <2> QED
    BY <2>1, <2>3
<1>8. /\ movements[r].product = p /\ movements[r].warehouse = h
      /\ Moved(movements[r]) = limit
  BY <1>2, <1>5, <1>7 DEF OpeningRow, MoveRow, Moved
<1>9. InStock(movements, p, h) = limit
  <2> DEFINE S == MovesOf(movements, p, {h})
             f == [x \in S |-> Quantities(movements)[x]]
             e == [x \in {} |-> 0]
  <2>1. S = {r}
    BY <1>5, <1>6, <1>8 DEF MovesOf
  <2>2. DOMAIN f = {r} /\ f[r] = limit
    BY <1>5, <1>8, <2>1 DEF Quantities
  <2>3. InStock(movements, p, h) = SumFunction(f)
    BY DEF InStock, StockOf, Figures
  <2>4. DOMAIN e = {} /\ IsFiniteSet(DOMAIN e)
    BY FS_EmptySet
  <2> HIDE DEF f, S, e
  <2>5. SumFunction(e) = 0
    BY <2>4, TotalType
  <2>6. SumFunction(f) = SumFunction(e) + f[r]
    <3>1. DOMAIN f = DOMAIN e \union {r} /\ r \notin DOMAIN e /\ f[r] \in Int
      BY <2>2, <2>4
    <3>2. (\A y \in DOMAIN e : e[y] \in Int) /\ (\A y \in DOMAIN e : f[y] = e[y])
      BY <2>4
    <3> QED
      BY <2>4, <3>1, <3>2, TotalAdd
  <2> QED
    BY <2>2, <2>3, <2>5, <2>6
<1>10. Draws(s, h, p) = [w \in s.workers |-> 0]
  BY <1>1 DEF Draws, Draw
<1> QED
  BY <1>1, <1>9, <1>10 DEF DrainInv

LEMMA DrainSteps ==
  ASSUME NEW s, NEW h, NEW p, NEW limit,
         DrainStep(s.workers, limit, limit - InStock(movements, p, h),
                   limit - InStock(movements', p, h), Draws(s, h, p), Draws(s, h, p)')
  PROVE  [Withdrawals(s, h, p, limit)!Next]_(Withdrawals(s, h, p, limit)!vars)
<1>1. (limit - InStock(movements, p, h))' = limit - InStock(movements', p, h)
  BY DEF InStock, StockOf, Figures, Quantities, MovesOf
<1> QED
  BY <1>1 DEF DrainStep, Withdrawals!Next, Withdrawals!vars, Withdrawals!Check,
              Withdrawals!Commit, Withdrawals!Abort

LEMMA DrainStays ==
  ASSUME NEW s, NEW h, NEW p, NEW limit, DrainInv(s, h, p, limit),
         UNCHANGED <<items, warehouses, movements, adjustments, journals, tillLock, pc, job>>
  PROVE  Drains(s, h, p, limit)
BY DEF DrainInv, StockInv, Drains, DrainStep, Draws

(* In a scene where goods only leave, whatever interleaves: the movements, *)
(* transfers, approvals and sales that take a product from a warehouse     *)
(* implement the check-then-act specification (requireStock is read before *)
(* the transaction, complete's under a lock that only the tills take).     *)
THEOREM WithdrawalsCheckThenAct ==
  ASSUME NEW s, NEW h, NEW p, NEW limit \in Nat, Stock(s)!InventoryAssumption,
         Draining(s, h, p), OpensWith(s, h, p, limit)
  PROVE  Stock(s)!StockSpec => Withdrawals(s, h, p, limit)!Spec
<1> DEFINE Inv == DrainInv(s, h, p, limit)
<1>1. Stock(s)!Init => Inv /\ Withdrawals(s, h, p, limit)!Init
  <2> SUFFICES ASSUME Stock(s)!Init PROVE Inv /\ Withdrawals(s, h, p, limit)!Init
    OBVIOUS
  <2>1. /\ Inv /\ InStock(movements, p, h) = limit
        /\ Draws(s, h, p) = [w \in s.workers |-> 0]
    BY DrainStart
  <2> QED
    BY <2>1 DEF Withdrawals!Init
<1>2. Inv /\ [Stock(s)!StockNext]_(Stock(s)!vars) =>
        Inv' /\ [Withdrawals(s, h, p, limit)!Next]_(Withdrawals(s, h, p, limit)!vars)
  <2> SUFFICES ASSUME Inv, [Stock(s)!StockNext]_(Stock(s)!vars)
               PROVE  Drains(s, h, p, limit)
    BY DrainSteps DEF Drains
  <2>1. CASE Stock(s)!StockNext
    BY <2>1, DrainNext
  <2>2. CASE UNCHANGED Stock(s)!vars
    BY <2>2, DrainStays DEF Stock!vars, Stock!rowVars, Stock!requestVars
  <2> QED
    BY <2>1, <2>2
<1> HIDE DEF Inv
<1> QED
  BY <1>1, <1>2, PTL DEF Stock!StockSpec, Withdrawals!Spec

Depot == StockScenes["stock_issues"]

LEMMA DepotDrains ==
  /\ Depot.workers = Workers /\ ~Depot.catalogue
  /\ Stock(Depot)!InventoryAssumption /\ Draining(Depot, depot, rice)
  /\ OpensWith(Depot, depot, rice, 3)
<1>1. Stock(Depot)!InventoryAssumption
  BY SceneNames, TradeAssumption DEF Depot
<1>2. /\ Depot.workers = Workers /\ ~Depot.catalogue
      /\ Depot.openings = {Amount(3)} /\ Depot.items = [p \in {rice} |-> "active"]
      /\ Depot.transfers = {Carry("t", 2)} /\ Depot.adjustments = {Draft("x", depot, -2)}
      /\ Depot.movements = {Body("a", "ISSUE", depot, 2, 2), Body("b", "ISSUE", depot, 3, 2)}
  BY DEF Depot, StockScenes, Stocked
<1>3. depot # shop
  <2>1. Carry("t", 2).from # Carry("t", 2).to
    BY <1>1, <1>2 DEF Stock!InventoryAssumption
  <2> QED
    BY <2>1 DEF Carry
<1>4. Draining(Depot, depot, rice)
  BY <1>2, <1>3 DEF Draining, Body, Carry, Draft, Takes
<1>5. OpensWith(Depot, depot, rice, 3)
  <2>1. PICK o : o = Amount(3)
    OBVIOUS
  <2>2. o.product = rice /\ o.warehouse = depot /\ o.qty = 3
    BY <2>1 DEF Amount
  <2>3. OldOpenings(Depot) = {o}
    BY <1>2, <2>1, <2>2 DEF OldOpenings
  <2>4. {x \in OldOpenings(Depot) : x.product = rice} = {o}
    BY <2>2, <2>3
  <2> QED
    BY <2>2, <2>4 DEF OpensWith
<1> QED
  BY <1>1, <1>2, <1>4, <1>5

(* The mapping of the run, in the terms above.                             *)
DepotMapped ==
  /\ Stock(Depot)!Withdrawn(depot, rice, 3) = 3 - InStock(movements, rice, depot)
  /\ Stock(Depot)!WithdrawalInFlight(depot, rice) = Draws(Depot, depot, rice)

LEMMA DepotMap == DepotMapped
<1>1. Stock(Depot)!Withdrawn(depot, rice, 3) = 3 - InStock(movements, rice, depot)
  BY StockSums DEF Stock!Withdrawn, InStock
<1>2. Stock(Depot)!WithdrawalInFlight(depot, rice) = Draws(Depot, depot, rice)
  BY DEF Stock!WithdrawalInFlight, Draws, Draw
<1> QED
  BY <1>1, <1>2 DEF DepotMapped

DepotInv == scene = "stock_issues" => DrainInv(Depot, depot, rice, 3)

LEMMA DepotStart == Init => DepotInv /\ FromDepot!Init
<1> SUFFICES ASSUME Init PROVE DepotInv /\ FromDepot!Init
  OBVIOUS
<1>1. CASE scene = "stock_issues"
  <2>1. Stock(Depot)!Init
    BY <1>1, SceneNames DEF Init, Depot
  <2>2. /\ DrainInv(Depot, depot, rice, 3) /\ InStock(movements, rice, depot) = 3
        /\ Draws(Depot, depot, rice) = [w \in Workers |-> 0]
    BY <2>1, DepotDrains, DrainStart
  <2> QED
    BY <1>1, <2>2, DepotMap DEF DepotInv, DepotMapped, FromDepot!Init, Depot
<1>2. CASE scene # "stock_issues"
  BY <1>2 DEF DepotInv, FromDepot!Init
<1> QED
  BY <1>1, <1>2

LEMMA DepotNext ==
  ASSUME DepotInv, [Next]_vars
  PROVE  /\ DepotInv'
         /\ scene = "stock_issues" => Drains(Depot, depot, rice, 3)
<1>1. scene' = scene
  BY DEF Next, vars
<1>2. ASSUME scene = "stock_issues" PROVE Drains(Depot, depot, rice, 3)
  <2>1. CASE UNCHANGED vars
    BY <1>2, <2>1, DrainStays DEF DepotInv, vars, stockVars, requestVars
  <2>2. CASE Next
    <3>1. StockNext(Depot)
      BY <1>2, <2>2, SceneNames DEF Next, Depot
    <3>2. Stock(Depot)!StockNext
      BY <3>1, DepotDrains DEF StockNext
    <3> QED
      BY <1>2, <3>2, DepotDrains, DrainNext DEF DepotInv
  <2> QED
    BY <2>1, <2>2
<1> QED
  BY <1>1, <1>2 DEF DepotInv, Drains

LEMMA DepotSteps ==
  ASSUME DepotMapped, DepotMapped', DepotInv, [Next]_vars
  PROVE  [FromDepot!Next]_(FromDepot!vars)
<1>1. scene' = scene
  BY DEF Next, vars
<1>2. CASE scene # "stock_issues"
  BY <1>1, <1>2 DEF FromDepot!vars
<1>3. CASE scene = "stock_issues"
  <2>1. DrainStep(Workers, 3, 3 - InStock(movements, rice, depot),
                  3 - InStock(movements', rice, depot),
                  Draws(Depot, depot, rice), Draws(Depot, depot, rice)')
    BY <1>3, DepotNext, DepotDrains DEF Drains
  <2>2. (3 - InStock(movements, rice, depot))' = 3 - InStock(movements', rice, depot)
    BY DEF InStock, StockOf, Figures, Quantities, MovesOf
  <2>3. PICK u, v, q, r :
          /\ u = 3 - InStock(movements, rice, depot) /\ v = 3 - InStock(movements', rice, depot)
          /\ q = Draws(Depot, depot, rice) /\ r = Draws(Depot, depot, rice)'
    OBVIOUS
  <2>4. /\ Stock(Depot)!Withdrawn(depot, rice, 3) = u
        /\ Stock(Depot)!Withdrawn(depot, rice, 3)' = v
        /\ Stock(Depot)!WithdrawalInFlight(depot, rice) = q
        /\ Stock(Depot)!WithdrawalInFlight(depot, rice)' = r
    BY <2>2, <2>3 DEF DepotMapped
  <2>5. DrainStep(Workers, 3, u, v, q, r)
    BY <2>1, <2>3
  <2> QED
    BY <1>1, <1>3, <2>4, <2>5
    DEF DrainStep, FromDepot!Next, FromDepot!vars, FromDepot!Check, FromDepot!Commit,
        FromDepot!Abort, Depot
<1> QED
  BY <1>2, <1>3

(* The same of the scene of a stocked depot, in which three kinds of       *)
(* withdrawal, and the tills', race for the goods (requireStock, complete).*)
THEOREM DepotIsDrained == Spec => DepotQuota
<1>1. DepotInv /\ [Next]_vars => DepotInv'
  BY DepotNext
<1>2. DepotMapped
  BY DepotMap
<1>3. DepotMapped /\ DepotMapped' /\ DepotInv /\ [Next]_vars => [FromDepot!Next]_(FromDepot!vars)
  BY DepotSteps
<1> QED
  BY <1>1, <1>2, <1>3, DepotStart, PTL DEF Spec, DepotQuota, FromDepot!Spec
================================================================================
