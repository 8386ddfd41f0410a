---------------------------------- MODULE Sums ----------------------------------
(***************************************************************************)
(* What the sums of the models compute.  The amounts in a table are summed *)
(* by SumFunctionOnSet of the community modules, a fold: a recursive       *)
(* function over the subsets of a finite set, which takes out an element   *)
(* at a time, no matter which.  That the order does not matter, and how a  *)
(* sum changes with the set or the function, is proved here for all sums   *)
(* of integers, by induction in the form of a set that has all it can      *)
(* have (NatInduct, SetInduct).  A balance is a sum over journals of sums  *)
(* over lines; what a posting and a reversal move follows at the end.      *)
(***************************************************************************)
EXTENDS AutoJournal, FiniteSetTheorems, WellFoundedInduction, TLAPS

(* A set of naturals with 0 and every successor of its members is Nat.     *)
LEMMA NatInduct ==
  ASSUME NEW P \in SUBSET Nat, 0 \in P, \A n \in P : n + 1 \in P
  PROVE  P = Nat
<1> SUFFICES ASSUME Nat \ P # {} PROVE FALSE
  OBVIOUS
<1>1. PICK n \in Nat \ P : \A m \in Nat \ P : ~(<<m, n>> \in OpToRel(<, Nat))
  BY NatLessThanWellFounded, WFMin
<1>2. n - 1 \in Nat /\ n - 1 < n
  OBVIOUS
<1>3. n - 1 \in P
  BY <1>1, <1>2 DEF OpToRel
<1> QED
  BY <1>3

LEMMA OneLess ==
  ASSUME NEW T, IsFiniteSet(T), NEW n \in Nat, Cardinality(T) = n + 1
  PROVE  /\ T # {}
         /\ \A x \in T : IsFiniteSet(T \ {x}) /\ Cardinality(T \ {x}) = n
<1>1. Cardinality(T) # 0
  OBVIOUS
<1>2. T # {}
  BY <1>1, FS_EmptySet
<1>3. ASSUME NEW x \in T PROVE IsFiniteSet(T \ {x}) /\ Cardinality(T \ {x}) = n
  BY FS_RemoveElement
<1> QED
  BY <1>2, <1>3

(* A set of subsets of a finite set that has {} and can grow by any element *)
(* has the whole set.                                                       *)
LEMMA SetInduct ==
  ASSUME NEW S, IsFiniteSet(S), NEW P \in SUBSET (SUBSET S), {} \in P,
         \A T \in P : \A x \in S \ T : T \union {x} \in P
  PROVE  S \in P
<1> DEFINE N == {n \in Nat : \A T \in SUBSET S : Cardinality(T) = n => T \in P}
<1>0. \A T \in SUBSET S : IsFiniteSet(T) /\ Cardinality(T) \in Nat
  BY FS_Subset, FS_CardinalityType
<1>1. 0 \in N
  BY <1>0, FS_EmptySet
<1>2. ASSUME NEW n \in N PROVE n + 1 \in N
  <2> SUFFICES ASSUME NEW T \in SUBSET S, Cardinality(T) = n + 1 PROVE T \in P
    OBVIOUS
  <2>0. n \in Nat
    OBVIOUS
  <2>1. T # {}
    BY <1>0, <2>0, OneLess
  <2>2. PICK x : x \in T
    BY <2>1
  <2>3. Cardinality(T \ {x}) = n
    BY <1>0, <2>0, <2>2, OneLess
  <2>4. T \ {x} \in P
    BY <2>3
  <2> QED
    BY <2>2, <2>4, T = (T \ {x}) \union {x}
<1>3. N = Nat
  <2> HIDE DEF N
  <2> QED
    BY <1>1, <1>2, NatInduct DEF N
<1> QED
  BY <1>0, <1>3

--------------------------------------------------------------------------------
(* The fold is well defined. *)

Picked(s) == CHOOSE x \in s : TRUE

(* h obeys the recursion of the sum of f on the sets in D. *)
SumsOn(h, f, D) ==
  h = [s \in D |-> IF s = {} THEN 0 ELSE f[Picked(s)] + h[s \ {Picked(s)}]]

UpTo(S, n) == {s \in SUBSET S : Cardinality(s) <= n}

LEMMA PartialSums ==
  ASSUME NEW f, NEW S, IsFiniteSet(S), NEW n \in Nat
  PROVE  \E h : SumsOn(h, f, UpTo(S, n))
<1> DEFINE P == {m \in Nat : \E h : SumsOn(h, f, UpTo(S, m))}
<1>0. \A s \in SUBSET S : IsFiniteSet(s) /\ Cardinality(s) \in Nat
  BY FS_Subset, FS_CardinalityType
<1>1. 0 \in P
  <2>1. UpTo(S, 0) = {{}}
    BY <1>0, FS_EmptySet DEF UpTo
  <2>2. SumsOn([s \in {{}} |-> 0], f, {{}})
    BY DEF SumsOn
  <2> QED
    BY <2>1, <2>2
<1>2. ASSUME NEW m \in P PROVE m + 1 \in P
  <2>1. PICK h : SumsOn(h, f, UpTo(S, m))
    OBVIOUS
  <2> DEFINE g == [s \in UpTo(S, m + 1) |->
                     IF s = {} THEN 0 ELSE f[Picked(s)] + h[s \ {Picked(s)}]]
  <2>2. ASSUME NEW s \in UpTo(S, m + 1), s # {}
        PROVE  g[s \ {Picked(s)}] = h[s \ {Picked(s)}]
    <3> DEFINE t == s \ {Picked(s)}
    <3>1. Picked(s) \in s
      BY <2>2 DEF Picked
    <3>2. IsFiniteSet(s) /\ s \in SUBSET S /\ Cardinality(s) <= m + 1 /\ Cardinality(s) \in Nat
      BY <1>0 DEF UpTo
    <3>3. Cardinality(t) = Cardinality(s) - 1 /\ t \in SUBSET S
      BY <3>1, <3>2, FS_RemoveElement
    <3>4. t \in UpTo(S, m) /\ t \in UpTo(S, m + 1)
      BY <3>2, <3>3, <1>0 DEF UpTo
    <3>5. h[t] = IF t = {} THEN 0 ELSE f[Picked(t)] + h[t \ {Picked(t)}]
      BY <2>1, <3>4 DEF SumsOn
    <3> QED
      BY <3>4, <3>5
  <2>3. SumsOn(g, f, UpTo(S, m + 1))
    BY <2>2 DEF SumsOn
  <2> QED
    BY <2>3
<1>3. P = Nat
  BY <1>1, <1>2, NatInduct
<1> QED
  BY <1>3

LEMMA AllSums ==
  ASSUME NEW f, NEW S, IsFiniteSet(S)
  PROVE  \E h : SumsOn(h, f, SUBSET S)
<1>1. Cardinality(S) \in Nat /\ UpTo(S, Cardinality(S)) = SUBSET S
  BY FS_Subset, FS_CardinalityType DEF UpTo
<1>2. \E h : SumsOn(h, f, UpTo(S, Cardinality(S)))
  BY <1>1, PartialSums
<1> QED
  BY <1>1, <1>2

SumOn(f, S) == CHOOSE h : SumsOn(h, f, SUBSET S)

LEMMA SumIsThat ==
  ASSUME NEW f, NEW S
  PROVE  SumFunctionOnSet(f, S) = SumOn(f, S)[S]
BY DEF SumFunctionOnSet, FoldFunctionOnSet, MapThenFoldSet, SumOn, SumsOn, Picked

(* Two functions that agree on T, summed on the subsets of T or of more.   *)
LEMMA SameSums ==
  ASSUME NEW e, NEW f, NEW S, NEW T, IsFiniteSet(S), T \subseteq S, \A x \in T : e[x] = f[x]
  PROVE  SumOn(e, S)[T] = SumOn(f, T)[T]
<1> DEFINE g == SumOn(e, S)
           h == SumOn(f, T)
           P == {m \in Nat : \A t \in SUBSET T : Cardinality(t) = m => g[t] = h[t]}
<1>0. IsFiniteSet(T) /\ \A s \in SUBSET T : IsFiniteSet(s) /\ Cardinality(s) \in Nat
  BY FS_Subset, FS_CardinalityType
<1>5. SumsOn(g, e, SUBSET S) /\ SumsOn(h, f, SUBSET T)
  BY <1>0, AllSums DEF SumOn
<1> HIDE DEF g, h
<1>1. \A t \in SUBSET T :
        /\ g[t] = IF t = {} THEN 0 ELSE e[Picked(t)] + g[t \ {Picked(t)}]
        /\ h[t] = IF t = {} THEN 0 ELSE f[Picked(t)] + h[t \ {Picked(t)}]
  BY <1>5 DEF SumsOn
<1>2. 0 \in P
  BY <1>0, <1>1, FS_EmptySet
<1>3. ASSUME NEW m \in P PROVE m + 1 \in P
  <2> SUFFICES ASSUME NEW t \in SUBSET T, Cardinality(t) = m + 1 PROVE g[t] = h[t]
    OBVIOUS
  <2>0. m \in Nat
    OBVIOUS
  <2>1. t # {}
    BY <1>0, <2>0, OneLess
  <2>2. Picked(t) \in t
    BY <2>1 DEF Picked
  <2>3. Cardinality(t \ {Picked(t)}) = m
    BY <1>0, <2>0, <2>2, OneLess
  <2>4. g[t \ {Picked(t)}] = h[t \ {Picked(t)}]
    BY <2>3
  <2> QED
    BY <1>1, <2>1, <2>2, <2>4
<1>4. P = Nat
  <2> HIDE DEF P
  <2> QED
    BY <1>2, <1>3, NatInduct DEF P
<1> QED
  BY <1>0, <1>4 DEF g, h

LEMMA SumUnfold ==
  ASSUME NEW f, NEW S, IsFiniteSet(S)
  PROVE  /\ S = {} => SumFunctionOnSet(f, S) = 0
         /\ S # {} => /\ Picked(S) \in S
                      /\ SumFunctionOnSet(f, S) =
                           f[Picked(S)] + SumFunctionOnSet(f, S \ {Picked(S)})
<1>1. SumsOn(SumOn(f, S), f, SUBSET S)
  BY AllSums DEF SumOn
<1>2. CASE S = {}
  BY <1>1, <1>2, SumIsThat DEF SumsOn
<1>3. CASE S # {}
  <2> DEFINE T == S \ {Picked(S)}
  <2>3. SumOn(f, S)[T] = SumOn(f, T)[T]
    BY SameSums
  <2>4. SumOn(f, S)[S] = f[Picked(S)] + SumOn(f, S)[T]
    BY <1>1, <1>3 DEF SumsOn
  <2> QED
    BY <1>3, <2>3, <2>4, SumIsThat DEF Picked
<1> QED
  BY <1>2, <1>3

--------------------------------------------------------------------------------
(* What the other proofs use. *)

LEMMA SumEmpty == ASSUME NEW f PROVE SumFunctionOnSet(f, {}) = 0
BY SumUnfold, FS_EmptySet

(* Only the values on the set count.                                       *)
LEMMA SumSame ==
  ASSUME NEW e, NEW f, NEW S, IsFiniteSet(S), \A x \in S : e[x] = f[x]
  PROVE  SumFunctionOnSet(e, S) = SumFunctionOnSet(f, S)
<1>2. SumOn(e, S)[S] = SumOn(f, S)[S]
  BY SameSums
<1> QED
  BY <1>2, SumIsThat

LEMMA SumType ==
  ASSUME NEW f, NEW S, IsFiniteSet(S), \A x \in S : f[x] \in Int
  PROVE  SumFunctionOnSet(f, S) \in Int
<1> DEFINE N == {n \in Nat : \A T \in SUBSET S :
                   Cardinality(T) = n => SumFunctionOnSet(f, T) \in Int}
<1>0. \A T \in SUBSET S : IsFiniteSet(T) /\ Cardinality(T) \in Nat
  BY FS_Subset, FS_CardinalityType
<1>1. 0 \in N
  BY <1>0, FS_EmptySet, SumEmpty
<1>2. ASSUME NEW n \in N PROVE n + 1 \in N
  <2> SUFFICES ASSUME NEW T \in SUBSET S, Cardinality(T) = n + 1
               PROVE  SumFunctionOnSet(f, T) \in Int
    OBVIOUS
  <2>0. n \in Nat
    OBVIOUS
  <2>1. T # {}
    BY <1>0, <2>0, OneLess
  <2>2. /\ Picked(T) \in T
        /\ SumFunctionOnSet(f, T) = f[Picked(T)] + SumFunctionOnSet(f, T \ {Picked(T)})
    BY <1>0, <2>1, SumUnfold
  <2>3. Cardinality(T \ {Picked(T)}) = n
    BY <1>0, <2>0, <2>2, OneLess
  <2>4. SumFunctionOnSet(f, T \ {Picked(T)}) \in Int
    BY <2>3
  <2> QED
    BY <2>2, <2>4
<1>3. N = Nat
  <2> HIDE DEF N
  <2> QED
    BY <1>1, <1>2, NatInduct DEF N
<1> QED
  BY <1>0, <1>3

(* Any element can be taken out first.                                     *)
LEMMA SumTake ==
  ASSUME NEW f, NEW S, IsFiniteSet(S), \A x \in S : f[x] \in Int, NEW x \in S
  PROVE  SumFunctionOnSet(f, S) = f[x] + SumFunctionOnSet(f, S \ {x})
<1> DEFINE Sum(T) == SumFunctionOnSet(f, T)
           N == {n \in Nat : \A T \in SUBSET S : \A y \in T :
                   Cardinality(T) = n => Sum(T) = f[y] + Sum(T \ {y})}
<1>0. \A T \in SUBSET S : IsFiniteSet(T) /\ Cardinality(T) \in Nat /\ Sum(T) \in Int
  BY FS_Subset, FS_CardinalityType, SumType
<1>1. 0 \in N
  BY <1>0, FS_EmptySet
<1>2. ASSUME NEW n \in N PROVE n + 1 \in N
  <2> SUFFICES ASSUME NEW T \in SUBSET S, NEW y \in T, Cardinality(T) = n + 1
               PROVE  Sum(T) = f[y] + Sum(T \ {y})
    OBVIOUS
  <2> DEFINE c == Picked(T)
  <2>0. n \in Nat
    OBVIOUS
  <2>2. c \in T /\ Sum(T) = f[c] + Sum(T \ {c})
    BY <1>0, SumUnfold
  <2>3. CASE y = c
    BY <2>2, <2>3
  <2>4. CASE y # c
    <3>1. Cardinality(T \ {c}) = n /\ Cardinality(T \ {y}) = n
      BY <1>0, <2>0, <2>2, OneLess
    <3>2. T \ {c} \in SUBSET S /\ T \ {y} \in SUBSET S /\ y \in T \ {c} /\ c \in T \ {y}
      BY <2>2, <2>4
    <3>3. Sum(T \ {c}) = f[y] + Sum((T \ {c}) \ {y})
      BY <3>1, <3>2
    <3>4. Sum(T \ {y}) = f[c] + Sum((T \ {y}) \ {c})
      BY <3>1, <3>2
    <3>5. (T \ {c}) \ {y} = (T \ {y}) \ {c}
      OBVIOUS
    <3>6. Sum((T \ {y}) \ {c}) \in Int /\ f[c] \in Int /\ f[y] \in Int
      BY <1>0, <2>2
    <3>7. Sum(T) = f[c] + (f[y] + Sum((T \ {y}) \ {c}))
      BY <2>2, <3>3, <3>5
    <3> QED
      BY <3>4, <3>6, <3>7
  <2> QED
    BY <2>3, <2>4
<1>3. N = Nat
  <2> HIDE DEF N
  <2> QED
    BY <1>1, <1>2, NatInduct DEF N
<1> QED
  BY <1>0, <1>3

LEMMA SumAdd ==
  ASSUME NEW f, NEW S, IsFiniteSet(S), NEW x, x \notin S,
         \A y \in S \union {x} : f[y] \in Int
  PROVE  SumFunctionOnSet(f, S \union {x}) = f[x] + SumFunctionOnSet(f, S)
<1>1. IsFiniteSet(S \union {x}) /\ (S \union {x}) \ {x} = S
  BY FS_AddElement
<1> QED
  BY <1>1, SumTake

(* One value changes.                                                      *)
LEMMA SumChange ==
  ASSUME NEW e, NEW f, NEW S, IsFiniteSet(S), NEW x \in S,
         \A y \in S : e[y] \in Int /\ f[y] \in Int,
         \A y \in S \ {x} : e[y] = f[y]
  PROVE  SumFunctionOnSet(e, S) = SumFunctionOnSet(f, S) - f[x] + e[x]
<1>1. IsFiniteSet(S \ {x})
  BY FS_RemoveElement
<1>2. SumFunctionOnSet(e, S \ {x}) = SumFunctionOnSet(f, S \ {x})
  BY <1>1, SumSame
<1>3. SumFunctionOnSet(f, S \ {x}) \in Int
  BY <1>1, SumType
<1> QED
  BY <1>2, <1>3, SumTake

(* Sums of sums, of products with a constant, and without what is zero.    *)
LEMMA SumPlus ==
  ASSUME NEW e, NEW f, NEW g, NEW S, IsFiniteSet(S),
         \A x \in S : e[x] \in Int /\ f[x] \in Int /\ g[x] = e[x] + f[x]
  PROVE  SumFunctionOnSet(g, S) = SumFunctionOnSet(e, S) + SumFunctionOnSet(f, S)
<1> DEFINE P == {T \in SUBSET S :
                   SumFunctionOnSet(g, T) = SumFunctionOnSet(e, T) + SumFunctionOnSet(f, T)}
<1>1. {} \in P
  BY SumEmpty
<1>2. ASSUME NEW T \in P, NEW x \in S \ T PROVE T \union {x} \in P
  <2>1. IsFiniteSet(T)
    BY FS_Subset
  <2>2. SumFunctionOnSet(e, T) \in Int /\ SumFunctionOnSet(f, T) \in Int
    BY <2>1, SumType
  <2>3. /\ SumFunctionOnSet(g, T \union {x}) = g[x] + SumFunctionOnSet(g, T)
        /\ SumFunctionOnSet(e, T \union {x}) = e[x] + SumFunctionOnSet(e, T)
        /\ SumFunctionOnSet(f, T \union {x}) = f[x] + SumFunctionOnSet(f, T)
    BY <2>1, SumAdd
  <2> QED
    BY <2>2, <2>3
<1>3. S \in P
  <2> HIDE DEF P
  <2> QED
    BY <1>1, <1>2, SetInduct DEF P
<1> QED
  BY <1>3

LEMMA SumTimes ==
  ASSUME NEW f, NEW g, NEW S, IsFiniteSet(S), NEW k \in Int,
         \A x \in S : f[x] \in Int /\ g[x] = k * f[x]
  PROVE  SumFunctionOnSet(g, S) = k * SumFunctionOnSet(f, S)
<1> DEFINE P == {T \in SUBSET S : SumFunctionOnSet(g, T) = k * SumFunctionOnSet(f, T)}
<1>1. {} \in P
  BY SumEmpty
<1>2. ASSUME NEW T \in P, NEW x \in S \ T PROVE T \union {x} \in P
  <2>1. IsFiniteSet(T)
    BY FS_Subset
  <2>2. SumFunctionOnSet(f, T) \in Int
    BY <2>1, SumType
  <2>3. /\ SumFunctionOnSet(g, T \union {x}) = g[x] + SumFunctionOnSet(g, T)
        /\ SumFunctionOnSet(f, T \union {x}) = f[x] + SumFunctionOnSet(f, T)
    BY <2>1, SumAdd
  <2>4. \A a, b \in Int : k * a + k * b = k * (a + b)
    OBVIOUS
  <2> QED
    BY <2>2, <2>3, <2>4
<1>3. S \in P
  <2> HIDE DEF P
  <2> QED
    BY <1>1, <1>2, SetInduct DEF P
<1> QED
  BY <1>3

LEMMA SumZero ==
  ASSUME NEW f, NEW S, IsFiniteSet(S), \A x \in S : f[x] = 0
  PROVE  SumFunctionOnSet(f, S) = 0
<1> DEFINE P == {T \in SUBSET S : SumFunctionOnSet(f, T) = 0}
<1>1. {} \in P
  BY SumEmpty
<1>2. ASSUME NEW T \in P, NEW x \in S \ T PROVE T \union {x} \in P
  BY FS_Subset, SumAdd
<1>3. S \in P
  <2> HIDE DEF P
  <2> QED
    BY <1>1, <1>2, SetInduct DEF P
<1> QED
  BY <1>3

LEMMA SumNat ==
  ASSUME NEW f, NEW S, IsFiniteSet(S), \A x \in S : f[x] \in Nat
  PROVE  SumFunctionOnSet(f, S) \in Nat
<1> DEFINE P == {T \in SUBSET S : SumFunctionOnSet(f, T) \in Nat}
<1>1. {} \in P
  BY SumEmpty
<1>2. ASSUME NEW T \in P, NEW x \in S \ T PROVE T \union {x} \in P
  <2>1. SumFunctionOnSet(f, T \union {x}) = f[x] + SumFunctionOnSet(f, T)
    BY FS_Subset, SumAdd
  <2> QED
    BY <2>1
<1>3. S \in P
  <2> HIDE DEF P
  <2> QED
    BY <1>1, <1>2, SetInduct DEF P
<1> QED
  BY <1>3

LEMMA SumUnion ==
  ASSUME NEW f, NEW S, IsFiniteSet(S), NEW U, IsFiniteSet(U), S \intersect U = {},
         \A x \in S \union U : f[x] \in Int
  PROVE  SumFunctionOnSet(f, S \union U) = SumFunctionOnSet(f, S) + SumFunctionOnSet(f, U)
<1> DEFINE P == {T \in SUBSET U :
                   SumFunctionOnSet(f, S \union T) = SumFunctionOnSet(f, S) + SumFunctionOnSet(f, T)}
<1>0. SumFunctionOnSet(f, S) \in Int
  BY SumType
<1>1. {} \in P
  BY <1>0, SumEmpty
<1>2. ASSUME NEW T \in P, NEW x \in U \ T PROVE T \union {x} \in P
  <2>1. IsFiniteSet(T) /\ IsFiniteSet(S \union T)
    BY FS_Subset, FS_Union
  <2>2. SumFunctionOnSet(f, T) \in Int
    BY <2>1, SumType
  <2>3. x \notin S \union T /\ \A y \in (S \union T) \union {x} : f[y] \in Int
    OBVIOUS
  <2>4. SumFunctionOnSet(f, (S \union T) \union {x}) = f[x] + SumFunctionOnSet(f, S \union T)
    BY <2>1, <2>3, SumAdd
  <2>5. SumFunctionOnSet(f, T \union {x}) = f[x] + SumFunctionOnSet(f, T)
    BY <2>1, <2>3, SumAdd
  <2>6. S \union (T \union {x}) = (S \union T) \union {x}
    OBVIOUS
  <2>7. f[x] \in Int
    OBVIOUS
  <2>8. SumFunctionOnSet(f, S \union T) = SumFunctionOnSet(f, S) + SumFunctionOnSet(f, T)
    OBVIOUS
  <2>9. SumFunctionOnSet(f, S \union (T \union {x}))
          = SumFunctionOnSet(f, S) + SumFunctionOnSet(f, T \union {x})
    <3>1. SumFunctionOnSet(f, S \union (T \union {x}))
            = f[x] + (SumFunctionOnSet(f, S) + SumFunctionOnSet(f, T))
      BY <2>4, <2>6, <2>8
    <3>2. \A a, b, c \in Int : a + (b + c) = b + (a + c)
      OBVIOUS
    <3> QED
      BY <1>0, <2>2, <2>5, <2>7, <3>1, <3>2
  <2> QED
    BY <2>9
<1>3. U \in P
  <2> HIDE DEF P
  <2> QED
    BY <1>1, <1>2, SetInduct DEF P
<1> QED
  BY <1>3

LEMMA ImageFinite ==
  ASSUME NEW g, NEW S, IsFiniteSet(S)
  PROVE  IsFiniteSet({g[x] : x \in S})
<1> DEFINE T == {g[x] : x \in S}
           h == [x \in S |-> g[x]]
<1>1. h \in Surjection(S, T)
  BY DEF Surjection
<1> QED
  BY <1>1, FS_Surjection

(* The same values under other names.                                      *)
LEMMA SumImage ==
  ASSUME NEW e, NEW f, NEW g, NEW S, IsFiniteSet(S),
         \A x \in S : f[x] \in Int /\ e[g[x]] = f[x],
         \A x, y \in S : g[x] = g[y] => x = y
  PROVE  /\ IsFiniteSet({g[x] : x \in S})
         /\ SumFunctionOnSet(e, {g[x] : x \in S}) = SumFunctionOnSet(f, S)
<1> DEFINE Image(T) == {g[x] : x \in T}
           P == {T \in SUBSET S : /\ IsFiniteSet(Image(T))
                                  /\ SumFunctionOnSet(e, Image(T)) = SumFunctionOnSet(f, T)}
<1>1. {} \in P
  <2>1. Image({}) = {}
    OBVIOUS
  <2> QED
    BY <2>1, SumEmpty, FS_EmptySet
<1>2. ASSUME NEW T \in P, NEW x \in S \ T PROVE T \union {x} \in P
  <2>1. Image(T \union {x}) = Image(T) \union {g[x]}
    OBVIOUS
  <2>2. g[x] \notin Image(T)
    OBVIOUS
  <2>3. \A y \in Image(T) \union {g[x]} : e[y] \in Int
    OBVIOUS
  <2>4. IsFiniteSet(Image(T)) /\ IsFiniteSet(T)
    BY FS_Subset
  <2> HIDE DEF Image
  <2>5. SumFunctionOnSet(e, Image(T) \union {g[x]}) = e[g[x]] + SumFunctionOnSet(e, Image(T))
    BY <2>2, <2>3, <2>4, SumAdd
  <2>6. SumFunctionOnSet(f, T \union {x}) = f[x] + SumFunctionOnSet(f, T)
    BY <2>4, SumAdd
  <2>7. IsFiniteSet(Image(T) \union {g[x]})
    BY <2>4, FS_AddElement
  <2> QED
    BY <2>1, <2>5, <2>6, <2>7
<1>3. S \in P
  <2> HIDE DEF P
  <2> QED
    BY <1>1, <1>2, SetInduct DEF P
<1> QED
  BY <1>3

--------------------------------------------------------------------------------
(* The same of a function over the whole of its domain.                    *)

LEMMA TotalType ==
  ASSUME NEW f, IsFiniteSet(DOMAIN f)
  PROVE  /\ (\A x \in DOMAIN f : f[x] \in Int) => SumFunction(f) \in Int
         /\ (\A x \in DOMAIN f : f[x] \in Nat) => SumFunction(f) \in Nat
         /\ DOMAIN f = {} => SumFunction(f) = 0
BY SumType, SumNat, SumEmpty DEF SumFunction

(* A row more.                                                             *)
LEMMA TotalAdd ==
  ASSUME NEW f, IsFiniteSet(DOMAIN f), \A y \in DOMAIN f : f[y] \in Int,
         NEW x, x \notin DOMAIN f, NEW g, DOMAIN g = DOMAIN f \union {x}, g[x] \in Int,
         \A y \in DOMAIN f : g[y] = f[y]
  PROVE  SumFunction(g) = SumFunction(f) + g[x]
<1>1. SumFunctionOnSet(g, DOMAIN f \union {x}) = g[x] + SumFunctionOnSet(g, DOMAIN f)
  BY SumAdd
<1>2. SumFunctionOnSet(g, DOMAIN f) = SumFunctionOnSet(f, DOMAIN f)
  BY SumSame
<1>3. SumFunctionOnSet(f, DOMAIN f) \in Int
  BY SumType
<1> QED
  BY <1>1, <1>2, <1>3 DEF SumFunction

(* A row less.                                                             *)
LEMMA TotalRemove ==
  ASSUME NEW f, IsFiniteSet(DOMAIN f), \A y \in DOMAIN f : f[y] \in Int,
         NEW x \in DOMAIN f, NEW g, DOMAIN g = DOMAIN f \ {x},
         \A y \in DOMAIN g : g[y] = f[y]
  PROVE  SumFunction(g) = SumFunction(f) - f[x]
<1>1. IsFiniteSet(DOMAIN f \ {x})
  BY FS_RemoveElement
<1>2. SumFunctionOnSet(f, DOMAIN f) = f[x] + SumFunctionOnSet(f, DOMAIN f \ {x})
  BY SumTake
<1>3. SumFunctionOnSet(g, DOMAIN f \ {x}) = SumFunctionOnSet(f, DOMAIN f \ {x})
  BY <1>1, SumSame
<1>4. SumFunctionOnSet(f, DOMAIN f \ {x}) \in Int
  BY <1>1, SumType
<1> QED
  BY <1>2, <1>3, <1>4 DEF SumFunction

(* A row changed, or none.                                                 *)
LEMMA TotalChange ==
  ASSUME NEW f, IsFiniteSet(DOMAIN f), NEW x \in DOMAIN f, NEW g, DOMAIN g = DOMAIN f,
         \A y \in DOMAIN f : f[y] \in Int /\ g[y] \in Int,
         \A y \in DOMAIN f \ {x} : g[y] = f[y]
  PROVE  SumFunction(g) = SumFunction(f) - f[x] + g[x]
BY SumChange DEF SumFunction

LEMMA TotalSame ==
  ASSUME NEW f, IsFiniteSet(DOMAIN f), NEW g, DOMAIN g = DOMAIN f,
         \A y \in DOMAIN f : g[y] = f[y]
  PROVE  SumFunction(g) = SumFunction(f)
BY SumSame DEF SumFunction

LEMMA TotalPlus ==
  ASSUME NEW e, NEW f, NEW g, IsFiniteSet(DOMAIN g), DOMAIN e = DOMAIN g, DOMAIN f = DOMAIN g,
         \A x \in DOMAIN g : e[x] \in Int /\ f[x] \in Int /\ g[x] = e[x] + f[x]
  PROVE  SumFunction(g) = SumFunction(e) + SumFunction(f)
BY SumPlus DEF SumFunction

(* The amounts of some rows of a table. *)
RowSum(t, S) == SumFunction([r \in S |-> t[r].amount])
OneMore(T, S, x) == x \notin S /\ T = S \union {x}

LEMMA RowsType ==
  ASSUME NEW t, NEW S, IsFiniteSet(S), \A x \in S : t[x].amount \in Int
  PROVE  RowSum(t, S) \in Int
<1> DEFINE f == [x \in S |-> t[x].amount]
<1>1. DOMAIN f = S /\ \A x \in DOMAIN f : f[x] \in Int
  OBVIOUS
<1> HIDE DEF f
<1>2. SumFunction(f) \in Int
  BY <1>1, TotalType
<1> QED
  BY <1>2 DEF RowSum, f

LEMMA RowsSame ==
  ASSUME NEW t, NEW u, NEW S, \A y \in S : u[y].amount = t[y].amount
  PROVE  RowSum(u, S) = RowSum(t, S)
<1>1. [x \in S |-> u[x].amount] = [x \in S |-> t[x].amount]
  OBVIOUS
<1> QED
  BY <1>1 DEF RowSum

SameRows(t, u, S) == \A y \in S : t[y].amount \in Int /\ u[y].amount = t[y].amount
RowIs(t, x, a) == t[x].amount = a /\ a \in Int

LEMMA RowsAdd ==
  ASSUME NEW t, NEW u, NEW S, NEW T, NEW x, NEW a,
         IsFiniteSet(S), OneMore(T, S, x), SameRows(t, u, S), RowIs(u, x, a)
  PROVE  RowSum(u, T) = RowSum(t, S) + a
<1> DEFINE f == [y \in S |-> t[y].amount]
           g == [y \in T |-> u[y].amount]
<1>0. T = S \union {x} /\ x \notin S
  BY DEF OneMore
<1>1. DOMAIN f = S /\ DOMAIN g = DOMAIN f \union {x} /\ x \notin DOMAIN f
  BY <1>0
<1>2. \A y \in DOMAIN f : f[y] \in Int /\ g[y] = f[y]
  BY <1>0 DEF SameRows
<1>3. g[x] = a /\ a \in Int
  BY <1>0 DEF RowIs
<1>4. RowSum(u, T) = SumFunction(g) /\ RowSum(t, S) = SumFunction(f)
  BY DEF RowSum
<1> HIDE DEF f, g
<1>5. SumFunction(g) = SumFunction(f) + g[x]
  BY <1>1, <1>2, <1>3, TotalAdd
<1> QED
  BY <1>3, <1>4, <1>5

LEMMA RowsRemove ==
  ASSUME NEW t, NEW u, NEW S, NEW T, NEW x, NEW a,
         IsFiniteSet(S), OneMore(S, T, x), SameRows(t, u, T), RowIs(t, x, a)
  PROVE  RowSum(u, T) = RowSum(t, S) - a
<1>1. S = T \union {x} /\ T \subseteq S
  BY DEF OneMore
<1>2. IsFiniteSet(T)
  BY <1>1, FS_Subset
<1>3. RowSum(t, S) = RowSum(u, T) + a
  <2>1. SameRows(u, t, T)
    BY DEF SameRows
  <2> QED
    BY <1>2, <2>1, RowsAdd
<1>4. RowSum(u, T) \in Int
  <2>1. \A y \in T : u[y].amount \in Int
    BY DEF SameRows
  <2> QED
    BY <1>2, <2>1, RowsType
<1> QED
  BY <1>3, <1>4 DEF RowIs

--------------------------------------------------------------------------------
(* Journals and balances. *)

LineOK(l) == l = Line(l.account, l.debit, l.credit) /\ l.debit \in Int /\ l.credit \in Int
LinesOK(lines) == IsFiniteSet(lines) /\ \A l \in lines : LineOK(l)
JournalOK(j) == j = [lines |-> j.lines, status |-> j.status] /\ LinesOK(j.lines)
BooksFine(js) == IsFiniteSet(DOMAIN js) /\ \A n \in DOMAIN js : JournalOK(js[n])

Opposite(l) == Line(l.account, l.credit, l.debit)

LEMMA MoveType ==
  ASSUME NEW j, LinesOK(j.lines), NEW a
  PROVE  Movement(j, a) \in Int
<1> DEFINE S == {l \in j.lines : l.account = a}
           f == [l \in S |-> l.debit - l.credit]
<1>1. IsFiniteSet(S)
  BY FS_Subset DEF LinesOK
<1>2. \A l \in S : f[l] \in Int
  BY DEF LinesOK, LineOK
<1> HIDE DEF S
<1>3. SumFunction(f) \in Int
  BY <1>1, <1>2, TotalType
<1> QED
  BY <1>3 DEF Movement, S

(* The only line of its account makes the movement of the account.         *)
LEMMA MoveOfLine ==
  ASSUME NEW lines, NEW l \in lines, LineOK(l),
         \A x \in lines : x.account = l.account => x = l,
         NEW j, j.lines = Normalized(lines)
  PROVE  Movement(j, l.account) = l.debit - l.credit
<1> DEFINE S == {x \in j.lines : x.account = l.account}
           f == [x \in S |-> x.debit - x.credit]
<1>0. l.debit \in Int /\ l.credit \in Int
  BY DEF LineOK
<1>1. Movement(j, l.account) = SumFunctionOnSet(f, S)
  BY DEF Movement, SumFunction
<1>2. CASE l.debit # 0 \/ l.credit # 0
  <2>1. S = {} \union {l}
    BY <1>2 DEF Normalized
  <2>2. f[l] = l.debit - l.credit
    BY <2>1
  <2> HIDE DEF f, S
  <2>3. SumFunctionOnSet(f, {} \union {l}) = f[l] + SumFunctionOnSet(f, {})
    <3>1. \A y \in {} \union {l} : f[y] \in Int
      BY <2>2, <1>0
    <3> QED
      BY <3>1, SumAdd, FS_EmptySet
  <2> QED
    BY <1>0, <1>1, <2>1, <2>2, <2>3, SumEmpty
<1>3. CASE l.debit = 0 /\ l.credit = 0
  <2>1. S = {}
    BY <1>3 DEF Normalized
  <2> HIDE DEF f, S
  <2> QED
    BY <1>1, <1>3, <2>1, SumEmpty
<1> QED
  BY <1>2, <1>3

LEMMA MoveOfNone ==
  ASSUME NEW lines, NEW a, \A x \in lines : x.account # a,
         NEW j, j.lines = Normalized(lines)
  PROVE  Movement(j, a) = 0
<1> DEFINE S == {x \in j.lines : x.account = a}
           f == [x \in S |-> x.debit - x.credit]
<1>1. S = {}
  BY DEF Normalized
<1>2. Movement(j, a) = SumFunctionOnSet(f, S)
  BY DEF Movement, SumFunction
<1> HIDE DEF f, S
<1> QED
  BY <1>1, <1>2, SumEmpty

(* A reversal moves every account back.                                    *)
LEMMA MoveMirrored ==
  ASSUME NEW j, LinesOK(j.lines), NEW k, k.lines = Mirrored(j.lines), NEW a
  PROVE  LinesOK(k.lines) /\ Movement(k, a) = - Movement(j, a)
<1>0. \A l \in j.lines :
        /\ l.debit \in Int /\ l.credit \in Int
        /\ LineOK(Opposite(l)) /\ Opposite(l).account = l.account
        /\ Opposite(l).debit = l.credit /\ Opposite(l).credit = l.debit
        /\ Opposite(Opposite(l)) = l
  BY DEF LinesOK, LineOK, Line, Opposite
<1>1. k.lines = {Opposite(l) : l \in j.lines}
  BY Zenon DEF Mirrored, Opposite
<1>2. LinesOK(k.lines)
  <2> DEFINE g == [l \in j.lines |-> Opposite(l)]
  <2>1. k.lines = {g[l] : l \in j.lines}
    BY <1>1
  <2>2. \A l \in k.lines : LineOK(l)
    BY <1>0, <1>1
  <2>4. IsFiniteSet(j.lines)
    BY DEF LinesOK
  <2> HIDE DEF g
  <2>3. IsFiniteSet({g[l] : l \in j.lines})
    BY <2>4, ImageFinite
  <2> QED
    BY <2>1, <2>2, <2>3 DEF LinesOK
<1> DEFINE S == {l \in j.lines : l.account = a}
           T == {m \in k.lines : m.account = a}
           g == [l \in S |-> Opposite(l)]
           f == [l \in S |-> l.debit - l.credit]
           b == [l \in S |-> l.credit - l.debit]
           e == [m \in T |-> m.debit - m.credit]
<1>3. T = {g[l] : l \in S}
  <2>1. ASSUME NEW l \in S PROVE g[l] \in T
    BY <1>0, <1>1
  <2>2. ASSUME NEW m \in T PROVE \E l \in S : m = g[l]
    <3>1. PICK l \in j.lines : m = Opposite(l)
      BY <1>1
    <3> QED
      BY <1>0, <3>1
  <2> HIDE DEF T, S, g
  <2> QED
    BY <2>1, <2>2
<1>4. IsFiniteSet(S)
  BY FS_Subset DEF LinesOK
<1>5. Movement(j, a) = SumFunctionOnSet(f, S)
  BY DEF Movement, SumFunction
<1>6. Movement(k, a) = SumFunctionOnSet(e, T)
  BY DEF Movement, SumFunction
<1>7. ASSUME NEW l \in S
      PROVE  b[l] \in Int /\ f[l] \in Int /\ b[l] = (-1) * f[l] /\ e[g[l]] = b[l]
  <2>1. g[l] \in T
    BY <1>3
  <2> QED
    BY <1>0, <2>1
<1>8. \A l, m \in S : g[l] = g[m] => l = m
  BY <1>0
<1> HIDE DEF S, T, g, f, b, e
<1>9. SumFunctionOnSet(f, S) \in Int
  BY <1>4, <1>7, SumType
<1>10. SumFunctionOnSet(e, T) = SumFunctionOnSet(b, S)
  BY <1>3, <1>4, <1>7, <1>8, SumImage
<1>11. SumFunctionOnSet(b, S) = (-1) * SumFunctionOnSet(f, S)
  BY <1>4, <1>7, SumTimes
<1> QED
  BY <1>2, <1>5, <1>6, <1>9, <1>10, <1>11

(* The two lines of a Pair.                                                *)
PairMove(debit, credit, v, a) == IF a = debit THEN v ELSE IF a = credit THEN - v ELSE 0
PairJournal(debit, credit, v) ==
  [lines |-> Normalized(Pair(debit, credit, v)), status |-> "POSTED"]

LEMMA MoveOfPair ==
  ASSUME NEW debit, NEW credit, debit # credit, NEW v \in Int,
         NEW j, j.lines = Normalized(Pair(debit, credit, v))
  PROVE  LinesOK(j.lines) /\ \A a : Movement(j, a) = PairMove(debit, credit, v, a)
<1> DEFINE in == Line(debit, v, 0)
           out == Line(credit, 0, v)
           lines == {in} \union {out}
<1>1. Pair(debit, credit, v) = lines
  BY DEF Pair
<1>2. LineOK(in) /\ LineOK(out)
  BY DEF Line, LineOK
<1>3. /\ in.account = debit /\ in.debit = v /\ in.credit = 0
      /\ out.account = credit /\ out.debit = 0 /\ out.credit = v
  BY DEF Line
<1>4. j.lines = Normalized(lines)
  BY <1>1
<1> HIDE DEF in, out
<1>5. LinesOK(j.lines)
  <2>1. IsFiniteSet(lines)
    BY FS_Singleton, FS_AddElement
  <2>2. j.lines \subseteq lines
    BY <1>4 DEF Normalized
  <2> QED
    BY <1>2, <2>1, <2>2, FS_Subset DEF LinesOK
<1>6. Movement(j, debit) = v
  <2>1. Movement(j, in.account) = in.debit - in.credit
    BY <1>2, <1>3, <1>4, MoveOfLine
  <2> QED
    BY <1>3, <2>1
<1>7. Movement(j, credit) = - v
  <2>1. Movement(j, out.account) = out.debit - out.credit
    BY <1>2, <1>3, <1>4, MoveOfLine
  <2> QED
    BY <1>3, <2>1
<1>8. ASSUME NEW a, a # debit, a # credit PROVE Movement(j, a) = 0
  BY <1>3, <1>4, <1>8, MoveOfNone
<1> QED
  BY <1>5, <1>6, <1>7, <1>8 DEF PairMove

LEMMA BooksType ==
  ASSUME NEW js, BooksFine(js), NEW N \in SUBSET DOMAIN js, NEW a
  PROVE  IsFiniteSet(N) /\ BalanceOver(js, N, a) \in Int
<1> DEFINE f == [n \in N |-> Movement(js[n], a)]
<1>1. IsFiniteSet(N)
  BY FS_Subset DEF BooksFine
<1>2. \A n \in N : f[n] \in Int
  BY MoveType DEF BooksFine, JournalOK
<1> QED
  BY <1>1, <1>2, TotalType DEF BalanceOver

LEMMA BalanceType ==
  ASSUME NEW js, NEW a, BooksFine(js)
  PROVE  Balance(js, a) \in Int
BY BooksType DEF Balance

LEMMA BooksEmpty ==
  ASSUME NEW js, DOMAIN js = {}, NEW a
  PROVE  BooksFine(js) /\ Balance(js, a) = 0
BY FS_EmptySet, TotalType DEF BooksFine, Balance, BalanceOver

(* A new journal moves an account by what it moves; the others may change  *)
(* their status.                                                           *)
LEMMA BooksAdd ==
  ASSUME NEW js, BooksFine(js), NEW n, n \notin DOMAIN js,
         NEW k, DOMAIN k = DOMAIN js \union {n}, JournalOK(k[n]),
         \A m \in DOMAIN js : k[m] = [lines |-> js[m].lines, status |-> k[m].status]
  PROVE  BooksFine(k) /\ \A a : Balance(k, a) = Balance(js, a) + Movement(k[n], a)
<1>1. IsFiniteSet(DOMAIN js \union {n})
  BY FS_AddElement DEF BooksFine
<1>2. ASSUME NEW m \in DOMAIN js PROVE JournalOK(k[m]) /\ k[m].lines = js[m].lines
  <2>1. k[m] = [lines |-> js[m].lines, status |-> k[m].status]
    OBVIOUS
  <2>2. k[m].lines = js[m].lines
    BY <2>1
  <2> QED
    BY <2>1, <2>2 DEF JournalOK, BooksFine
<1>3. BooksFine(k)
  BY <1>1, <1>2 DEF BooksFine
<1>4. ASSUME NEW a PROVE Balance(k, a) = Balance(js, a) + Movement(k[n], a)
  <2> DEFINE f == [m \in DOMAIN js |-> Movement(js[m], a)]
             g == [m \in DOMAIN k |-> Movement(k[m], a)]
  <2>1. ASSUME NEW m \in DOMAIN js PROVE f[m] \in Int /\ g[m] = f[m]
    <3>1. k[m].lines = js[m].lines
      BY <1>2
    <3>2. Movement(k[m], a) = Movement(js[m], a)
      BY <3>1 DEF Movement
    <3> QED
      BY <3>2, MoveType DEF BooksFine, JournalOK
  <2>2. g[n] = Movement(k[n], a) /\ g[n] \in Int
    BY MoveType DEF JournalOK
  <2>3. DOMAIN f = DOMAIN js /\ DOMAIN g = DOMAIN f \union {n} /\ IsFiniteSet(DOMAIN f)
    BY DEF BooksFine
  <2>4. Balance(js, a) = SumFunction(f) /\ Balance(k, a) = SumFunction(g)
    BY DEF Balance, BalanceOver
  <2> HIDE DEF f, g
  <2>5. SumFunction(g) = SumFunction(f) + g[n]
    BY <2>1, <2>2, <2>3, TotalAdd
  <2> QED
    BY <2>2, <2>4, <2>5
<1> QED
  BY <1>3, <1>4

(* The numbers of k are those of js and a new one.                         *)
Adds(k, js, n) == n \notin DOMAIN js /\ DOMAIN k = DOMAIN js \union {n}

(* What posting two lines does.                                            *)
LEMMA PostedPair ==
  ASSUME NEW js, NEW n, NEW d, NEW c, NEW v, NEW k,
         BooksFine(js), d # c, v \in Int, k = Posted(js, n, Pair(d, c, v))
  PROVE  /\ BooksFine(k)
         /\ n \in DOMAIN js => k = js
         /\ n \notin DOMAIN js =>
              /\ Adds(k, js, n)
              /\ k[n] = PairJournal(d, c, v)
              /\ \A m \in DOMAIN js : k[m] = js[m]
              /\ \A a : Balance(k, a) = Balance(js, a) + PairMove(d, c, v, a)
<1>1. CASE n \in DOMAIN js
  BY <1>1 DEF Posted
<1>2. CASE n \notin DOMAIN js
  <2>0. DOMAIN k = DOMAIN js \union {n}
    BY <1>2 DEF Posted, Entered
  <2>1. k[n] = PairJournal(d, c, v) /\ \A m \in DOMAIN js : k[m] = js[m]
    BY <1>2 DEF Posted, Entered, PairJournal
  <2>2. k[n].lines = Normalized(Pair(d, c, v)) /\ k[n] = [lines |-> k[n].lines, status |-> k[n].status]
    BY <2>1 DEF PairJournal
  <2>3. JournalOK(k[n]) /\ \A a : Movement(k[n], a) = PairMove(d, c, v, a)
    BY <2>2, MoveOfPair DEF JournalOK
  <2>4. \A m \in DOMAIN js : k[m] = [lines |-> js[m].lines, status |-> k[m].status]
    BY <2>1 DEF BooksFine, JournalOK
  <2>5. BooksFine(k) /\ \A a : Balance(k, a) = Balance(js, a) + Movement(k[n], a)
    BY <1>2, <2>0, <2>3, <2>4, BooksAdd
  <2>6. ASSUME NEW a PROVE Balance(k, a) = Balance(js, a) + PairMove(d, c, v, a)
    <3>1. Balance(k, a) = Balance(js, a) + Movement(k[n], a)
      BY <2>5
    <3>2. Movement(k[n], a) = PairMove(d, c, v, a)
      BY <2>3
    <3> QED
      BY <3>1, <3>2
  <2>7. Adds(k, js, n)
    BY <1>2, <2>0 DEF Adds
  <2> QED
    BY ONLY <1>2, <2>1, <2>5, <2>6, <2>7
<1> QED
  BY ONLY <1>1, <1>2

(* What reversing them does.                                               *)
LinesAre(js, n, d, c, v) == js[n].lines = Normalized(Pair(d, c, v))
TakenBack(j) == [lines |-> j.lines, status |-> "REVERSED"]
MirrorOf(j) == [lines |-> Mirrored(j.lines), status |-> "POSTED"]

LEMMA ReversedPair ==
  ASSUME NEW js, NEW n, NEW r, NEW d, NEW c, NEW v, NEW k,
         BooksFine(js), Reversible(js, n, r), d # c, v \in Int,
         LinesAre(js, n, d, c, v), k = Reversed(js, n, r)
  PROVE  /\ BooksFine(k)
         /\ Adds(k, js, r) /\ n # r
         /\ k[n] = TakenBack(js[n]) /\ k[r] = MirrorOf(js[n])
         /\ \A m \in DOMAIN js : m # n => k[m] = js[m]
         /\ \A a : Balance(k, a) = Balance(js, a) - PairMove(d, c, v, a)
<1> DEFINE t == [js EXCEPT ![n].status = "REVERSED"]
<1>1. n \in DOMAIN js /\ r \notin DOMAIN js /\ js[n].status = "POSTED" /\ n # r
  BY DEF Reversible
<1>2. js[n] = [lines |-> js[n].lines, status |-> "POSTED"]
  BY <1>1 DEF BooksFine, JournalOK
<1>3. /\ DOMAIN t = DOMAIN js
      /\ t[n] = [lines |-> js[n].lines, status |-> "REVERSED"]
      /\ \A m \in DOMAIN js : m # n => t[m] = js[m]
  <2>1. t[n] = [js[n] EXCEPT !.status = "REVERSED"]
    BY <1>1
  <2>2. PICK j : j = js[n]
    OBVIOUS
  <2>3. [j EXCEPT !.status = "REVERSED"] = [lines |-> j.lines, status |-> "REVERSED"]
    BY <1>2, <2>2
  <2> QED
    BY <2>1, <2>2, <2>3
<1> HIDE DEF t
<1>4. k = Entered(t, r, [lines |-> Mirrored(js[n].lines), status |-> "POSTED"])
  BY DEF Reversed, t
<1>5. /\ DOMAIN k = DOMAIN js \union {r}
      /\ k[r] = [lines |-> Mirrored(js[n].lines), status |-> "POSTED"]
      /\ \A m \in DOMAIN js : k[m] = t[m]
  BY <1>1, <1>3, <1>4 DEF Entered
<1>6. k[n] = [lines |-> js[n].lines, status |-> "REVERSED"]
  BY <1>1, <1>3, <1>5
<1>7. \A m \in DOMAIN js : k[m] = [lines |-> js[m].lines, status |-> k[m].status]
  <2> TAKE m \in DOMAIN js
  <2>1. CASE m = n
    BY <2>1, <1>6
  <2>2. CASE m # n
    BY <2>2, <1>3, <1>5 DEF BooksFine, JournalOK
  <2> QED
    BY <2>1, <2>2
<1>8. LinesOK(js[n].lines) /\ \A a : Movement(js[n], a) = PairMove(d, c, v, a)
  BY MoveOfPair DEF LinesAre
<1>9. k[r].lines = Mirrored(js[n].lines) /\ k[r] = [lines |-> k[r].lines, status |-> k[r].status]
  BY <1>5
<1>10. LinesOK(k[r].lines) /\ \A a : Movement(k[r], a) = - PairMove(d, c, v, a)
  BY <1>8, <1>9, MoveMirrored
<1>11. BooksFine(k) /\ \A a : Balance(k, a) = Balance(js, a) + Movement(k[r], a)
  <2>1. JournalOK(k[r])
    BY <1>9, <1>10 DEF JournalOK
  <2>2. BooksFine(js) /\ r \notin DOMAIN js /\ DOMAIN k = DOMAIN js \union {r}
    BY <1>1, <1>5
  <2> QED
    BY ONLY <1>7, <2>1, <2>2, BooksAdd
<1>12. ASSUME NEW a PROVE Balance(k, a) = Balance(js, a) - PairMove(d, c, v, a)
  <2>1. PairMove(d, c, v, a) \in Int
    BY DEF PairMove
  <2>2. Balance(js, a) \in Int
    BY BooksType DEF Balance
  <2> QED
    BY <1>10, <1>11, <2>1, <2>2
<1>13. Adds(k, js, r)
  BY <1>1, <1>5 DEF Adds
<1>14. k[n] = TakenBack(js[n]) /\ k[r] = MirrorOf(js[n])
  BY <1>5, <1>6 DEF TakenBack, MirrorOf
<1> QED
  BY <1>1, <1>3, <1>5, <1>11, <1>12, <1>13, <1>14
================================================================================
