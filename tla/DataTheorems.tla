------------------------------ MODULE DataTheorems ------------------------------
(***************************************************************************)
(* Facts about least elements, iterated functions, the sum of a function    *)
(* over a finite set, appended sequences, quotients, and the places of the  *)
(* elements of an ordered set.  The library's induction theorems take an    *)
(* operator, which the provers cannot instantiate; here an induction is     *)
(* about a set, whose smallest counterexample a well-founded order provides. *)
(***************************************************************************)
EXTENDS Integers, Sequences, FiniteSets, Functions, FiniteSetTheorems, TLAPS

(* A set of natural numbers has a least element.                           *)
LEMMA LeastNatural ==
  ASSUME NEW T, T \subseteq Nat, T # {}
  PROVE  \E n \in T : \A m \in T : n <= m
<1>1. PICK n \in T : \A m \in T : ~ (<<m, n>> \in OpToRel(<, Nat))
  BY NatLessThanWellFounded, WFMin
<1>2. \A m \in T : ~ (m < n)
  BY <1>1 DEF OpToRel
<1> QED
  BY <1>2

(* What holds of 0 and of the successor of each number it holds of.        *)
LEMMA Induction ==
  ASSUME NEW N \in Nat, NEW P, 0 \in P, \A n \in 0 .. N - 1 : n \in P => n + 1 \in P
  PROVE  \A n \in 0 .. N : n \in P
<1> DEFINE Bad == {n \in 0 .. N : n \notin P}
<1> SUFFICES ASSUME Bad # {} PROVE FALSE
  OBVIOUS
<1>1. PICK n \in Bad : \A m \in Bad : n <= m
  <2>1. Bad \subseteq Nat
    OBVIOUS
  <2> HIDE DEF Bad
  <2> QED
    BY <2>1, LeastNatural
<1>2. n \in 1 .. N /\ n - 1 \in 0 .. N - 1 /\ n - 1 + 1 = n
  OBVIOUS
<1>3. n - 1 \in P
  BY <1>1, <1>2
<1> QED
  BY <1>1, <1>2, <1>3

(* Each start and each table of steps has its iteration.                   *)
Iterates(f, N, start, step) ==
  /\ DOMAIN f = 0 .. N /\ f = [n \in 0 .. N |-> f[n]]
  /\ f[0] = start
  /\ \A n \in 1 .. N : f[n] = step[n][f[n - 1]]

(* An iteration exists, with all its values among those the steps map.      *)
LEMMA IterationExists ==
  ASSUME NEW N \in Nat, NEW S, NEW start \in S, NEW step \in [1 .. N -> [S -> S]]
  PROVE  \E f \in [0 .. N -> S] : Iterates(f, N, start, step)
<1> DEFINE P == {n \in 0 .. N : \E f \in [0 .. n -> S] : Iterates(f, n, start, step)}
<1>1. 0 \in P
  <2> DEFINE f == [n \in 0 .. 0 |-> start]
  <2>1. f \in [0 .. 0 -> S] /\ Iterates(f, 0, start, step)
    BY DEF Iterates
  <2> QED
    BY <2>1
<1>2. ASSUME NEW n \in 0 .. N - 1, n \in P PROVE n + 1 \in P
  <2>1. PICK f \in [0 .. n -> S] : Iterates(f, n, start, step)
    BY <1>2
  <2> DEFINE g == [m \in 0 .. n + 1 |-> IF m = n + 1 THEN step[n + 1][f[n]] ELSE f[m]]
  <2>2. step[n + 1][f[n]] \in S
    <3>1. f[n] \in S /\ n + 1 \in 1 .. N
      OBVIOUS
    <3>2. step[n + 1] \in [S -> S]
      BY <3>1
    <3> QED
      BY <3>1, <3>2
  <2>3. g \in [0 .. n + 1 -> S]
    BY <2>2
  <2>4. \A m \in 0 .. n : g[m] = f[m]
    OBVIOUS
  <2>5. g[n + 1] = step[n + 1][f[n]]
    OBVIOUS
  <2> HIDE DEF g
  <2>6. \A m \in 1 .. n + 1 : g[m] = step[m][g[m - 1]]
    <3> SUFFICES ASSUME NEW m \in 1 .. n + 1 PROVE g[m] = step[m][g[m - 1]]
      OBVIOUS
    <3>1. CASE m = n + 1
      BY <2>4, <2>5, <3>1
    <3>2. CASE m \in 1 .. n
      <4>1. m - 1 \in 0 .. n /\ m \in 0 .. n
        BY <3>2
      <4>2. f[m] = step[m][f[m - 1]]
        BY <2>1, <3>2 DEF Iterates
      <4> QED
        BY <2>4, <4>1, <4>2
    <3> QED
      BY <3>1, <3>2
  <2>7. g[0] = start
    BY <2>1, <2>4 DEF Iterates
  <2>8. Iterates(g, n + 1, start, step)
    BY <2>3, <2>6, <2>7 DEF Iterates
  <2> HIDE DEF Iterates
  <2> QED
    BY <2>3, <2>8
<1>3. N \in P
  <2> HIDE DEF P
  <2>1. \A n \in 0 .. N : n \in P
    BY <1>1, <1>2, Induction
  <2> QED
    BY <2>1
<1> QED
  BY <1>3

(* A set of subsets of a finite set has a smallest one.                    *)
LEMMA LeastSubset ==
  ASSUME NEW S, IsFiniteSet(S), NEW T, T \subseteq SUBSET S, T # {}
  PROVE  \E A \in T : \A B \in T : B \subseteq A => B = A
<1>1. IsWellFoundedOn(StrictSubsetOrdering(S), SUBSET S)
  BY FS_StrictSubsetOrderingWellFounded, FS_FiniteSubsetsOfFinite
<1>2. PICK A \in T : \A B \in T : ~ (<<B, A>> \in StrictSubsetOrdering(S))
  <2> DEFINE R == StrictSubsetOrdering(S)
             U == SUBSET S
  <2>1. IsWellFoundedOn(R, U) /\ T \subseteq U
    BY <1>1
  <2> HIDE DEF R, U
  <2>2. \E A \in T : \A B \in T : ~ (<<B, A>> \in R)
    BY <2>1, WFMin
  <2> QED
    BY <2>2 DEF R
<1>3. \A B \in T : B \subseteq A => B = A
  BY <1>2 DEF StrictSubsetOrdering
<1> QED
  BY <1>3

(* The table of partial sums that a fold over the subsets of S computes.   *)
Partial(g, f, S) ==
  g = [s \in SUBSET S |-> IF s = {} THEN 0
                          ELSE LET x == CHOOSE x \in s : TRUE IN f[x] + g[s \ {x}]]

(* Two tables agree wherever both are defined.                             *)
LEMMA PartialUnique ==
  ASSUME NEW A, NEW B, IsFiniteSet(A), NEW f, NEW g, NEW h, Partial(g, f, A), Partial(h, f, B),
         NEW s, s \subseteq A, s \subseteq B
  PROVE  g[s] = h[s]
<1> DEFINE Bad == {u \in SUBSET A : u \subseteq B /\ g[u] # h[u]}
<1> SUFFICES ASSUME Bad # {} PROVE FALSE
  OBVIOUS
<1>1. PICK u \in Bad : \A t \in Bad : t \subseteq u => t = u
  <2>1. Bad \subseteq SUBSET A
    OBVIOUS
  <2> HIDE DEF Bad
  <2> QED
    BY <2>1, LeastSubset
<1> DEFINE x == CHOOSE x \in u : TRUE
<1>2. u # {} /\ x \in u /\ u \subseteq A /\ u \subseteq B
  BY <1>1 DEF Partial
<1>3. g[u \ {x}] = h[u \ {x}]
  BY <1>1, <1>2
<1>4. g[u] = f[x] + g[u \ {x}] /\ h[u] = f[x] + h[u \ {x}]
  BY <1>2 DEF Partial
<1> QED
  BY <1>1, <1>3, <1>4

(* Each finite set has its table.                                          *)
LEMMA PartialExists ==
  ASSUME NEW S, IsFiniteSet(S), NEW f
  PROVE  \E g : Partial(g, f, S)
<1> DEFINE Bad == {s \in SUBSET S : ~ \E g : Partial(g, f, s)}
<1> SUFFICES ASSUME Bad # {} PROVE FALSE
  OBVIOUS
<1>1. PICK s \in Bad : \A t \in Bad : t \subseteq s => t = s
  <2>1. Bad \subseteq SUBSET S
    OBVIOUS
  <2> HIDE DEF Bad
  <2> QED
    BY <2>1, LeastSubset
<1> DEFINE G(t) == CHOOSE g : Partial(g, f, t)
           x(t) == CHOOSE x \in t : TRUE
           h == [t \in SUBSET s |-> IF t = {} THEN 0 ELSE f[x(t)] + G(t \ {x(t)})[t \ {x(t)}]]
<1>2. s \subseteq S /\ IsFiniteSet(s)
  BY <1>1, FS_Subset
<1>3. \A t : t \subseteq s /\ t # s => Partial(G(t), f, t)
  BY <1>1, <1>2
<1>4. \A t : t \subseteq s /\ t # s => h[t] = G(t)[t]
  <2> SUFFICES ASSUME NEW t, t \subseteq s, t # s PROVE h[t] = G(t)[t]
    OBVIOUS
  <2>1. Partial(G(t), f, t)
    BY <1>3
  <2>2. CASE t = {}
    <3> HIDE DEF G
    <3> QED BY <2>1, <2>2 DEF Partial
  <2>3. CASE t # {}
    <3> DEFINE v == t \ {x(t)}
    <3>1. x(t) \in t /\ v \subseteq t /\ v # s /\ v \subseteq s /\ IsFiniteSet(t)
      BY <2>3, <1>2, FS_Subset
    <3>2. Partial(G(v), f, v) /\ IsFiniteSet(v)
      BY <1>3, <3>1, FS_Subset
    <3> HIDE DEF G
    <3>3. G(t)[v] = G(v)[v]
      BY <2>1, <3>1, <3>2, PartialUnique
    <3>4. G(t)[t] = f[x(t)] + G(t)[v]
      BY <2>1, <2>3 DEF Partial
    <3> QED
      BY <2>3, <3>3, <3>4
  <2> QED
    BY <2>2, <2>3
<1>5. Partial(h, f, s)
  <2>1. ASSUME NEW t \in SUBSET s, t # {}
        PROVE  h[t] = f[x(t)] + h[t \ {x(t)}]
    <3>1. x(t) \in t
      BY <2>1
    <3>2. h[t \ {x(t)}] = G(t \ {x(t)})[t \ {x(t)}]
      <4> HIDE DEF G, h
      <4> QED BY <1>4, <3>1
    <3> HIDE DEF G
    <3> QED
      BY <2>1, <3>2
  <2>2. h[{}] = 0
    OBVIOUS
  <2>3. h = [t \in SUBSET s |-> h[t]]
    OBVIOUS
  <2> HIDE DEF h, G
  <2> QED
    BY <2>1, <2>2, <2>3 DEF Partial
<1> QED
  BY <1>1, <1>5

(* The sum of a function over a set is what the table says.                *)
LEMMA SumIsPartial ==
  ASSUME NEW S, IsFiniteSet(S), NEW f
  PROVE  \E g : Partial(g, f, S) /\ SumFunctionOnSet(f, S) = g[S]
<1> DEFINE g == CHOOSE g : Partial(g, f, S)
<1>1. Partial(g, f, S)
  BY PartialExists
<1>2. SumFunctionOnSet(f, S) = g[S]
  BY DEF SumFunctionOnSet, FoldFunctionOnSet, MapThenFoldSet, Partial
<1> QED
  BY <1>1, <1>2

(* The sum over nothing is 0.                                              *)
LEMMA SumOfNone == ASSUME NEW f PROVE SumFunctionOnSet(f, {}) = 0
BY SumIsPartial, FS_EmptySet DEF Partial

(* The table of a set gives the sums of its subsets.                       *)
LEMMA SumsOfSubsets ==
  ASSUME NEW S, IsFiniteSet(S), NEW f
  PROVE  \E g : Partial(g, f, S) /\ \A T \in SUBSET S : SumFunctionOnSet(f, T) = g[T]
<1>1. PICK g : Partial(g, f, S)
  BY PartialExists
<1>2. ASSUME NEW T \in SUBSET S PROVE SumFunctionOnSet(f, T) = g[T]
  <2>1. IsFiniteSet(T)
    BY FS_Subset
  <2>2. PICK h : Partial(h, f, T) /\ SumFunctionOnSet(f, T) = h[T]
    BY <2>1, SumIsPartial
  <2>3. g[T] = h[T]
    BY <1>1, <2>1, <2>2, PartialUnique, T \subseteq S, T \subseteq T
  <2> QED
    BY <2>2, <2>3
<1> QED
  BY <1>1, <1>2

(* A sum is some term and the sum of the rest.                             *)
LEMMA SumPick ==
  ASSUME NEW S, IsFiniteSet(S), S # {}, NEW f
  PROVE  \E x \in S : SumFunctionOnSet(f, S) = f[x] + SumFunctionOnSet(f, S \ {x})
<1> DEFINE x == CHOOSE x \in S : TRUE
<1>1. x \in S
  OBVIOUS
<1>2. PICK g : Partial(g, f, S) /\ \A T \in SUBSET S : SumFunctionOnSet(f, T) = g[T]
  BY SumsOfSubsets
<1>3. g[S] = f[x] + g[S \ {x}]
  BY <1>2 DEF Partial
<1> QED
  BY <1>1, <1>2, <1>3

(* Natural numbers sum up to a natural number.                             *)
LEMMA SumType ==
  ASSUME NEW S, IsFiniteSet(S), NEW f, \A x \in S : f[x] \in Nat
  PROVE  SumFunctionOnSet(f, S) \in Nat
<1> DEFINE Bad == {T \in SUBSET S : SumFunctionOnSet(f, T) \notin Nat}
<1> SUFFICES ASSUME Bad # {} PROVE FALSE
  OBVIOUS
<1>1. PICK T \in Bad : \A U \in Bad : U \subseteq T => U = T
  <2>1. Bad \subseteq SUBSET S
    OBVIOUS
  <2> HIDE DEF Bad
  <2> QED
    BY <2>1, LeastSubset
<1>2. T # {} /\ IsFiniteSet(T)
  <2>1. SumFunctionOnSet(f, {}) \in Nat
    BY SumOfNone
  <2>2. SumFunctionOnSet(f, T) \notin Nat /\ T \subseteq S
    BY <1>1
  <2> QED
    BY <2>1, <2>2, FS_Subset
<1>3. PICK x \in T : SumFunctionOnSet(f, T) = f[x] + SumFunctionOnSet(f, T \ {x})
  BY <1>2, SumPick
<1>4. SumFunctionOnSet(f, T \ {x}) \in Nat
  BY <1>1
<1> QED
  BY <1>1, <1>3, <1>4

(* Any element may be taken out first.                                     *)
LEMMA SumTake ==
  ASSUME NEW S, IsFiniteSet(S), NEW f, \A x \in S : f[x] \in Nat, NEW a \in S
  PROVE  SumFunctionOnSet(f, S) = f[a] + SumFunctionOnSet(f, S \ {a})
<1> DEFINE Sum(T) == SumFunctionOnSet(f, T)
           Bad == {T \in SUBSET S : \E b \in T : Sum(T) # f[b] + Sum(T \ {b})}
<1> SUFFICES ASSUME Bad # {} PROVE FALSE
  OBVIOUS
<1>1. PICK T \in Bad : \A U \in Bad : U \subseteq T => U = T
  <2>1. Bad \subseteq SUBSET S
    OBVIOUS
  <2> HIDE DEF Bad
  <2> QED
    BY <2>1, LeastSubset
<1>2. PICK b \in T : Sum(T) # f[b] + Sum(T \ {b})
  BY <1>1
<1>3. IsFiniteSet(T) /\ T # {}
  BY <1>1, <1>2, FS_Subset
<1>4. PICK x \in T : Sum(T) = f[x] + Sum(T \ {x})
  BY <1>3, SumPick
<1>5. x # b
  BY <1>2, <1>4
<1> DEFINE V == (T \ {x}) \ {b}
<1>6. Sum(T \ {x}) = f[b] + Sum(V)
  <2>1. T \ {x} \notin Bad /\ T \ {x} \subseteq S /\ b \in T \ {x}
    BY <1>1, <1>5
  <2> QED
    BY <2>1
<1>7. Sum(T \ {b}) = f[x] + Sum(V)
  <2>1. V = (T \ {b}) \ {x}
    OBVIOUS
  <2>2. T \ {b} \notin Bad /\ T \ {b} \subseteq S
    BY <1>1
  <2> QED
    BY <1>5, <2>1, <2>2
<1>8. f[x] \in Nat /\ f[b] \in Nat /\ Sum(V) \in Nat
  <2>1. V \subseteq S /\ IsFiniteSet(V)
    BY <1>1, FS_Subset
  <2> QED
    BY <1>1, <2>1, SumType
<1> HIDE DEF Sum, V
<1> QED
  BY <1>2, <1>4, <1>6, <1>7, <1>8

(* An element more.                                                        *)
LEMMA SumAdd ==
  ASSUME NEW S, IsFiniteSet(S), NEW f, NEW a, a \notin S, \A x \in S \cup {a} : f[x] \in Nat
  PROVE  SumFunctionOnSet(f, S \cup {a}) = f[a] + SumFunctionOnSet(f, S)
<1>1. IsFiniteSet(S \cup {a}) /\ (S \cup {a}) \ {a} = S
  BY FS_AddElement
<1> QED
  BY <1>1, SumTake

(* Larger terms over a larger set do not sum up to less.                   *)
LEMMA SumMonotone ==
  ASSUME NEW S, IsFiniteSet(S), NEW f, NEW g, NEW R, R \subseteq S,
         \A x \in S : f[x] \in Nat /\ g[x] \in Nat, \A x \in R : f[x] <= g[x]
  PROVE  SumFunctionOnSet(f, R) <= SumFunctionOnSet(g, S)
<1> DEFINE F(T) == SumFunctionOnSet(f, T)
           G(T) == SumFunctionOnSet(g, T)
           Bad == {T \in SUBSET S : ~ (F(R \cap T) <= G(T))}
<1> SUFFICES ASSUME Bad # {} PROVE FALSE
  <2>1. R \cap S = R
    OBVIOUS
  <2> QED
    BY <2>1
<1>1. PICK T \in Bad : \A U \in Bad : U \subseteq T => U = T
  <2>1. Bad \subseteq SUBSET S
    OBVIOUS
  <2> HIDE DEF Bad
  <2> QED
    BY <2>1, LeastSubset
<1>2. T # {} /\ T \subseteq S /\ IsFiniteSet(T) /\ IsFiniteSet(R \cap T)
  <2>1. CASE T = {}
    <3>1. R \cap T = {}
      BY <2>1
    <3>2. F(R \cap T) = 0 /\ G(T) = 0
      BY <2>1, <3>1, SumOfNone
    <3> HIDE DEF F, G
    <3> QED
      BY <1>1, <3>2
  <2>2. IsFiniteSet(T) /\ IsFiniteSet(R \cap T)
    BY <1>1, FS_Subset
  <2> QED
    BY <1>1, <2>1, <2>2
<1>3. PICK x \in T : TRUE
  BY <1>2
<1>4. F(R \cap (T \ {x})) <= G(T \ {x})
  BY <1>1, <1>3
<1>5. G(T) = g[x] + G(T \ {x})
  BY <1>2, SumTake
<1>6. F(R \cap T) = (IF x \in R THEN f[x] ELSE 0) + F(R \cap (T \ {x}))
  <2>0. IsFiniteSet(R \cap (T \ {x}))
    BY <1>2, FS_Subset
  <2>2. F(R \cap (T \ {x})) \in Nat
    BY <1>2, <2>0, SumType
  <2>1. CASE x \in R
    <3>1. (R \cap T) \ {x} = R \cap (T \ {x})
      OBVIOUS
    <3> QED
      BY <1>2, <2>1, <3>1, SumTake
  <2>3. CASE x \notin R
    <3>1. R \cap T = R \cap (T \ {x})
      BY <2>3
    <3>2. F(R \cap T) = F(R \cap (T \ {x}))
      BY <3>1
    <3> HIDE DEF F
    <3> QED
      BY <2>2, <2>3, <3>2
  <2> QED
    BY <2>1, <2>3
<1>7. F(R \cap (T \ {x})) \in Nat /\ G(T \ {x}) \in Nat
  <2>1. IsFiniteSet(R \cap (T \ {x})) /\ IsFiniteSet(T \ {x})
    BY <1>2, FS_Subset
  <2> QED
    BY <1>2, <2>1, SumType
<1>8. ~ (F(R \cap T) <= G(T)) /\ f[x] \in Nat /\ g[x] \in Nat /\ (x \in R => f[x] <= g[x])
  BY <1>1, <1>2, <1>3
<1> HIDE DEF F, G
<1> QED
  BY <1>4, <1>5, <1>6, <1>7, <1>8

(* Functions that agree on a set have the same sum over it.                *)
LEMMA SumSame ==
  ASSUME NEW S, IsFiniteSet(S), NEW f, NEW g, \A x \in S : f[x] = g[x] /\ f[x] \in Nat
  PROVE  SumFunctionOnSet(f, S) = SumFunctionOnSet(g, S)
<1>1. \A x \in S : f[x] \in Nat /\ g[x] \in Nat /\ f[x] <= g[x] /\ g[x] <= f[x]
  OBVIOUS
<1>2. SumFunctionOnSet(f, S) \in Nat /\ SumFunctionOnSet(g, S) \in Nat
  BY <1>1, SumType
<1>3. SumFunctionOnSet(f, S) <= SumFunctionOnSet(g, S)
  BY <1>1, SumMonotone
<1>4. SumFunctionOnSet(g, S) <= SumFunctionOnSet(f, S)
  BY <1>1, SumMonotone
<1> QED
  BY <1>2, <1>3, <1>4

(* Nothing but zeros sums up to 0.                                         *)
LEMMA SumZero ==
  ASSUME NEW S, IsFiniteSet(S), NEW f, \A x \in S : f[x] = 0
  PROVE  SumFunctionOnSet(f, S) = 0
<1> DEFINE Bad == {T \in SUBSET S : SumFunctionOnSet(f, T) # 0}
<1> SUFFICES ASSUME Bad # {} PROVE FALSE
  OBVIOUS
<1>1. PICK T \in Bad : \A U \in Bad : U \subseteq T => U = T
  <2>1. Bad \subseteq SUBSET S
    OBVIOUS
  <2> HIDE DEF Bad
  <2> QED
    BY <2>1, LeastSubset
<1>2. T # {} /\ IsFiniteSet(T)
  BY SumOfNone, FS_Subset
<1>3. PICK x \in T : SumFunctionOnSet(f, T) = f[x] + SumFunctionOnSet(f, T \ {x})
  BY <1>2, SumPick
<1>4. SumFunctionOnSet(f, T \ {x}) = 0
  BY <1>1, <1>3
<1> QED
  BY <1>3, <1>4

(* What appending an element does.                                         *)
LEMMA AppendFacts ==
  ASSUME NEW S, NEW s \in Seq(S), NEW e \in S
  PROVE  /\ Append(s, e) \in Seq(S)
         /\ DOMAIN s = 1 .. Len(s) /\ Len(s) \in Nat
         /\ DOMAIN Append(s, e) = 1 .. Len(s) + 1
         /\ \A i \in 1 .. Len(s) : Append(s, e)[i] = s[i]
         /\ Append(s, e)[Len(s) + 1] = e
OBVIOUS

(* A quotient is the largest multiple that fits.                           *)
LEMMA QuotientFacts ==
  ASSUME NEW x \in Nat, NEW y \in Nat \ {0}
  PROVE  /\ x \div y \in Nat
         /\ y * (x \div y) <= x /\ x < y * (x \div y) + y
OBVIOUS

(* A multiple that fits is at most the quotient.                           *)
LEMMA QuotientAtLeast ==
  ASSUME NEW x \in Nat, NEW y \in Nat \ {0}, NEW k \in Nat, x >= k * y
  PROVE  x \div y >= k
<1> DEFINE q == x \div y
<1>1. q \in Nat /\ x < y * q + y
  BY QuotientFacts
<1> HIDE DEF q
<1>2. CASE q < k
  <2>1. q + 1 <= k /\ k - (q + 1) \in Nat
    BY <1>1, <1>2
  <2>2. k * y = (q + 1) * y + (k - (q + 1)) * y /\ (k - (q + 1)) * y \in Nat
    BY <1>1, <2>1
  <2>3. (q + 1) * y = y * q + y
    BY <1>1
  <2> QED
    BY <1>1, <2>2, <2>3
<1> QED
  BY <1>1, <1>2 DEF q

(* A multiple that does not fit exceeds the quotient.                      *)
LEMMA QuotientBelow ==
  ASSUME NEW x \in Nat, NEW y \in Nat \ {0}, NEW k \in Nat, x < k * y
  PROVE  x \div y < k
<1> DEFINE q == x \div y
<1>1. q \in Nat /\ y * q <= x
  BY QuotientFacts
<1> HIDE DEF q
<1>2. CASE q >= k
  <2>1. q - k \in Nat
    BY <1>1, <1>2
  <2>2. q * y = k * y + (q - k) * y /\ (q - k) * y \in Nat /\ y * q = q * y
    BY <1>1, <2>1
  <2> QED
    BY <1>1, <2>2
<1> QED
  BY <1>1, <1>2 DEF q

(* The quotient of a larger number is not smaller.                        *)
LEMMA QuotientMonotone ==
  ASSUME NEW w \in Nat, NEW x \in Nat, NEW y \in Nat \ {0}, w <= x
  PROVE  w \div y <= x \div y
<1>1. w \div y \in Nat /\ x >= (w \div y) * y
  BY QuotientFacts
<1> QED
  BY <1>1, QuotientAtLeast

-----------------------------------------------------------------------------
(* Predecessors of each element under some order of all elements.          *)
Ranks(below, S) ==
  /\ \A x \in S : below[x] \subseteq S \ {x}
  /\ \A x, y \in S : x # y => \/ x \in below[y] /\ below[x] \subseteq below[y]
                              \/ y \in below[x] /\ below[y] \subseteq below[x]

(* An element's rank is the number of its predecessors; each rank below the *)
(* number of elements belongs to one of them.                              *)
LEMMA RankFacts ==
  ASSUME NEW S, IsFiniteSet(S), NEW below, Ranks(below, S)
  PROVE  /\ \A x \in S : Cardinality(below[x]) \in 0 .. Cardinality(S) - 1
         /\ \A x, y \in S : x \in below[y] <=> Cardinality(below[x]) < Cardinality(below[y])
         /\ \A x, y \in S : Cardinality(below[x]) = Cardinality(below[y]) => x = y
         /\ \A n \in 0 .. Cardinality(S) - 1 : \E x \in S : Cardinality(below[x]) = n
<1> DEFINE N == Cardinality(S)
           rank == [x \in S |-> Cardinality(below[x])]
<1>1. N \in Nat
  BY FS_CardinalityType
<1>2. ASSUME NEW x \in S
      PROVE  IsFiniteSet(below[x]) /\ Cardinality(below[x]) \in 0 .. N - 1
  <2>1. IsFiniteSet(S \ {x}) /\ Cardinality(S \ {x}) = N - 1
    BY FS_RemoveElement
  <2>2. below[x] \in SUBSET (S \ {x})
    BY DEF Ranks
  <2>3. IsFiniteSet(below[x]) /\ Cardinality(below[x]) <= Cardinality(S \ {x})
    BY <2>1, <2>2, FS_Subset
  <2>4. Cardinality(below[x]) \in Nat
    BY <2>3, FS_CardinalityType
  <2> QED
    BY <1>1, <2>1, <2>3, <2>4
<1>3. ASSUME NEW x \in S, NEW y \in S, x \in below[y]
      PROVE  Cardinality(below[x]) < Cardinality(below[y])
  <2>1. x # y /\ x \notin below[x]
    BY <1>3 DEF Ranks
  <2>2. below[x] \in SUBSET below[y]
    BY <1>3, <2>1 DEF Ranks
  <2>3. /\ Cardinality(below[x]) <= Cardinality(below[y])
        /\ Cardinality(below[y]) = Cardinality(below[x]) => below[y] = below[x]
    BY <1>2, <2>2, FS_Subset
  <2>4. Cardinality(below[x]) \in Nat /\ Cardinality(below[y]) \in Nat
    BY <1>1, <1>2
  <2> QED
    BY <1>3, <2>1, <2>3, <2>4
<1>4. ASSUME NEW x \in S, NEW y \in S, x # y
      PROVE  x \in below[y] \/ y \in below[x]
  BY <1>4 DEF Ranks
<1>5. ASSUME NEW x \in S, NEW y \in S
      PROVE  /\ x \in below[y] <=> Cardinality(below[x]) < Cardinality(below[y])
             /\ Cardinality(below[x]) = Cardinality(below[y]) => x = y
  <2>1. Cardinality(below[x]) \in Int /\ Cardinality(below[y]) \in Int
    BY <1>1, <1>2
  <2>2. CASE x = y
    <3>1. x \notin below[y]
      BY <2>2 DEF Ranks
    <3> QED
      BY <2>1, <2>2, <3>1
  <2>3. CASE x # y
    BY <1>3, <1>4, <2>1, <2>3
  <2> QED
    BY <2>2, <2>3
<1>6. ASSUME NEW n \in 0 .. N - 1 PROVE \E x \in S : Cardinality(below[x]) = n
  <2>1. IsFiniteSet(0 .. N - 1) /\ Cardinality(0 .. N - 1) = N
    BY <1>1, FS_Interval
  <2>2. rank \in Injection(S, 0 .. N - 1)
    BY <1>2, <1>5 DEF Injection, IsInjective
  <2>3. rank \in Surjection(S, 0 .. N - 1)
    <3> HIDE DEF rank
    <3> QED
      BY <2>1, <2>2, FS_Injection
  <2>4. PICK x \in S : rank[x] = n
    BY <2>3 DEF Surjection
  <2> QED
    BY <2>4
<1> QED
  BY <1>2, <1>5, <1>6

(* Numbers in ascending order.                                             *)
LEMMA AscendingRanks ==
  ASSUME NEW S, S \subseteq Int
  PROVE  Ranks([x \in S |-> {y \in S : y < x}], S)
<1> DEFINE below == [x \in S |-> {y \in S : y < x}]
<1>1. ASSUME NEW x \in S PROVE below[x] \subseteq S \ {x}
  OBVIOUS
<1>2. ASSUME NEW x \in S, NEW y \in S, x # y
      PROVE  \/ x \in below[y] /\ below[x] \subseteq below[y]
             \/ y \in below[x] /\ below[y] \subseteq below[x]
  <2>1. x \in Int /\ y \in Int
    OBVIOUS
  <2>2. CASE x < y
    <3>1. \A z \in S : z < x => z < y
      BY <2>1, <2>2
    <3> QED
      BY <2>2, <3>1
  <2>3. CASE y < x
    <3>1. \A z \in S : z < y => z < x
      BY <2>1, <2>3
    <3> QED
      BY <2>3, <3>1
  <2> QED
    BY <1>2, <2>1, <2>2, <2>3
<1> HIDE DEF below
<1>3. Ranks(below, S)
  BY <1>1, <1>2 DEF Ranks
<1> QED
  BY <1>3 DEF below

(* and in descending order.                                                *)
LEMMA DescendingRanks ==
  ASSUME NEW S, S \subseteq Int
  PROVE  Ranks([x \in S |-> {y \in S : x < y}], S)
<1> DEFINE below == [x \in S |-> {y \in S : x < y}]
<1>1. ASSUME NEW x \in S PROVE below[x] \subseteq S \ {x}
  OBVIOUS
<1>2. ASSUME NEW x \in S, NEW y \in S, x # y
      PROVE  \/ x \in below[y] /\ below[x] \subseteq below[y]
             \/ y \in below[x] /\ below[y] \subseteq below[x]
  <2>1. x \in Int /\ y \in Int
    OBVIOUS
  <2>2. CASE y < x
    <3>1. \A z \in S : x < z => y < z
      BY <2>1, <2>2
    <3> QED
      BY <2>2, <3>1
  <2>3. CASE x < y
    <3>1. \A z \in S : y < z => x < z
      BY <2>1, <2>3
    <3> QED
      BY <2>3, <3>1
  <2> QED
    BY <1>2, <2>1, <2>2, <2>3
<1> HIDE DEF below
<1>3. Ranks(below, S)
  BY <1>1, <1>2 DEF Ranks
<1> QED
  BY <1>3 DEF below

(* Who has the elements by their ranks has each of them in its one place.  *)
Places(f, below, S) ==
  \A n \in 1 .. Cardinality(S) : f[n] \in S /\ Cardinality(below[f[n]]) = n - 1

(* One in an earlier place precedes; each element has one place.           *)
LEMMA PlaceFacts ==
  ASSUME NEW S, IsFiniteSet(S), NEW below, Ranks(below, S), NEW f, Places(f, below, S)
  PROVE  /\ \A m, n \in 1 .. Cardinality(S) : f[m] \in below[f[n]] <=> m < n
         /\ \A p \in S : \E m \in 1 .. Cardinality(S) :
              \A n \in 1 .. Cardinality(S) : f[n] = p <=> n = m
<1> DEFINE K == Cardinality(S)
<1>1. K \in Nat
  BY FS_CardinalityType
<1>2. /\ \A x \in S : Cardinality(below[x]) \in 0 .. K - 1
      /\ \A x, y \in S : x \in below[y] <=> Cardinality(below[x]) < Cardinality(below[y])
      /\ \A x, y \in S : Cardinality(below[x]) = Cardinality(below[y]) => x = y
  BY RankFacts
<1>3. \A n \in 1 .. K : f[n] \in S /\ Cardinality(below[f[n]]) = n - 1
  BY DEF Places
<1> HIDE DEF K
<1>4. ASSUME NEW m \in 1 .. K, NEW n \in 1 .. K PROVE f[m] \in below[f[n]] <=> m < n
  <2>1. f[m] \in below[f[n]] <=> m - 1 < n - 1
    BY <1>2, <1>3
  <2> QED
    BY <1>1, <2>1
<1>5. ASSUME NEW p \in S PROVE \E m \in 1 .. K : \A n \in 1 .. K : f[n] = p <=> n = m
  <2> DEFINE m == Cardinality(below[p]) + 1
  <2>1. m \in 1 .. K /\ m - 1 = Cardinality(below[p])
    BY <1>1, <1>2
  <2> HIDE DEF m
  <2>2. f[m] = p
    BY <1>2, <1>3, <2>1
  <2>3. ASSUME NEW n \in 1 .. K, f[n] = p PROVE n = m
    BY <1>1, <1>3, <2>1, <2>3
  <2> QED
    BY <2>1, <2>2, <2>3
<1> QED
  BY <1>4, <1>5 DEF K

(* A bounded set of natural numbers has a greatest element.                *)
LEMMA GreatestNatural ==
  ASSUME NEW N \in Nat, NEW T, T \subseteq 0 .. N, T # {}
  PROVE  \E n \in T : \A m \in T : m <= n
<1> DEFINE U == {N - t : t \in T}
<1>1. U \subseteq Nat /\ U # {}
  <2>1. \A t \in T : t \in 0 .. N
    OBVIOUS
  <2>2. \A t \in T : N - t \in Nat
    BY <2>1
  <2> QED
    BY <2>2
<1>2. PICK u \in U : \A v \in U : u <= v
  <2> HIDE DEF U
  <2> QED
    BY <1>1, LeastNatural
<1>3. PICK n \in T : u = N - n
  BY <1>2
<1>4. ASSUME NEW m \in T PROVE m <= n
  <2>1. N - m \in U
    OBVIOUS
  <2>2. N - n <= N - m
    BY <1>2, <1>3, <2>1
  <2> QED
    BY <2>2
<1> QED
  BY <1>4
=============================================================================
