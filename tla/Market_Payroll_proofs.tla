----------------------- MODULE Market_Payroll_proofs -----------------------
(***************************************************************************)
(* Proofs about modules Market and Payroll, which share the lemmas about   *)
(* sums: what is weighed, sold, paid for and divided adds up, and no hour  *)
(* of work is paid twice, for every number of deliveries, members, days    *)
(* and requests.                                                           *)
(*                                                                         *)
(* Sums over finite sets come first.  A sum is a fold, a fold is a         *)
(* recursive function chosen by its equation, and what holds of every sum  *)
(* is proved from a smallest set it fails for: strict subsets of a finite  *)
(* set are well founded.                                                   *)
(*                                                                         *)
(* Market follows, with one invariant, Exact.  Payroll closes the module,  *)
(* with four: PayrollKnown says what a row and a request may hold,         *)
(* References and Believed tie a payout to what the provider was told, and *)
(* Separate keeps the hours of two live payouts of a worker on different   *)
(* days.                                                                   *)
(***************************************************************************)
EXTENDS Market, Payroll, FiniteSetTheorems, WellFoundedInduction, TLAPS

-----------------------------------------------------------------------------
(* Sums *)

\* g is the recursive function behind a sum of f over subsets of I.
Unfolds(g, f, I) ==
  g = [s \in SUBSET I |-> IF s = {} THEN 0
                          ELSE LET x == CHOOSE x \in s : TRUE IN f[x] + g[s \ {x}]]

\* If the fold has such a function at all, the sum is the value of one.
LEMMA SumIsUnfolding ==
  ASSUME NEW f, NEW I, \E g : Unfolds(g, f, I)
  PROVE  \E g : Unfolds(g, f, I) /\ SumFunctionOnSet(f, I) = g[I]
<1> DEFINE iter == CHOOSE g : Unfolds(g, f, I)
<1>1. Unfolds(iter, f, I)
  OBVIOUS
<1>2. SumFunctionOnSet(f, I) = iter[I]
  BY DEF SumFunctionOnSet, FoldFunctionOnSet, MapThenFoldSet, Unfolds
<1>3. QED
  BY <1>1, <1>2

\* Where some subset of a finite set is bad, a smallest one is.
LEMMA MinimalSubset ==
  ASSUME NEW I, IsFiniteSet(I), NEW Bad \in SUBSET (SUBSET I), Bad # {}
  PROVE  \E B \in Bad : \A C \in SUBSET B : C # B => C \notin Bad
<1>1. IsWellFoundedOn(StrictSubsetOrdering(I), SUBSET I)
  BY FS_StrictSubsetOrderingWellFounded, FS_FiniteSubsetsOfFinite
<1>2. PICK B \in Bad : \A C \in Bad : ~(<<C, B>> \in StrictSubsetOrdering(I))
  BY <1>1, WFMin
<1>3. QED
  BY <1>2 DEF StrictSubsetOrdering

\* There is at most one such function.
LEMMA UnfoldingUnique ==
  ASSUME NEW f, NEW I, IsFiniteSet(I), NEW g, NEW h, Unfolds(g, f, I), Unfolds(h, f, I)
  PROVE  g = h
<1> DEFINE Bad == {s \in SUBSET I : g[s] # h[s]}
<1>1. CASE Bad = {}
  BY <1>1 DEF Unfolds
<1>2. CASE Bad # {}
  <2>1. PICK B \in Bad : \A C \in SUBSET B : C # B => C \notin Bad
    <3> HIDE DEF Bad
    <3>1. Bad \in SUBSET (SUBSET I)
      BY DEF Bad
    <3>2. QED
      BY <1>2, <3>1, MinimalSubset
  <2>2. B # {}
    BY DEF Unfolds
  <2> DEFINE x == CHOOSE x \in B : TRUE
  <2>3. x \in B /\ B \ {x} \in SUBSET B /\ B \ {x} # B
    BY <2>2
  <2>4. g[B \ {x}] = h[B \ {x}]
    BY <2>1, <2>3
  <2>5. g[B] = f[x] + g[B \ {x}] /\ h[B] = f[x] + h[B \ {x}]
    BY <2>2 DEF Unfolds
  <2>6. QED
    BY <2>4, <2>5
<1>3. QED
  BY <1>1, <1>2

\* Its restriction to the subsets of a subset is one for that subset.
LEMMA UnfoldingRestricts ==
  ASSUME NEW f, NEW I, NEW g, Unfolds(g, f, I), NEW S \in SUBSET I
  PROVE  Unfolds([s \in SUBSET S |-> g[s]], f, S)
<1>1. \A s \in SUBSET S : g[s] = IF s = {} THEN 0 ELSE LET x == CHOOSE x \in s : TRUE IN f[x] + g[s \ {x}]
  BY DEF Unfolds
<1>2. \A s \in SUBSET S : \A x : s \ {x} \in SUBSET S
  OBVIOUS
<1>3. QED
  BY <1>1, <1>2 DEF Unfolds

\* Every finite set has one.
LEMMA UnfoldingExists ==
  ASSUME NEW f, NEW I, IsFiniteSet(I)
  PROVE  \E g : Unfolds(g, f, I)
<1> SUFFICES ASSUME ~\E g : Unfolds(g, f, I) PROVE FALSE
  OBVIOUS
<1> DEFINE Bad == {T \in SUBSET I : ~\E g : Unfolds(g, f, T)}
           sum(T) == SumFunctionOnSet(f, T)
<1>1. PICK B \in Bad : \A C \in SUBSET B : C # B => C \notin Bad
  <2>1. I \in Bad /\ Bad \in SUBSET (SUBSET I)
    OBVIOUS
  <2> HIDE DEF Bad
  <2>2. QED
    BY <2>1, MinimalSubset
<1> DEFINE G == [s \in SUBSET B |-> IF s = {} THEN 0 ELSE LET x == CHOOSE x \in s : TRUE IN f[x] + sum(s \ {x})]
<1>2. ASSUME NEW T \in SUBSET B, T # B
      PROVE  /\ sum({}) = 0
             /\ T # {} => sum(T) = f[CHOOSE x \in T : TRUE] + sum(T \ {CHOOSE x \in T : TRUE})
  <2>1. \E g : Unfolds(g, f, T)
    BY <1>1, <1>2
  <2>2. PICK h : Unfolds(h, f, T) /\ sum(T) = h[T]
    BY <2>1, SumIsUnfolding
  <2>3. sum({}) = 0
    <3>1. \E g : Unfolds(g, f, {})
      BY <2>2, UnfoldingRestricts
    <3>2. PICK g : Unfolds(g, f, {}) /\ sum({}) = g[{}]
      BY <3>1, SumIsUnfolding
    <3>3. QED
      BY <3>2 DEF Unfolds
  <2>4. ASSUME T # {} PROVE sum(T) = f[CHOOSE x \in T : TRUE] + sum(T \ {CHOOSE x \in T : TRUE})
    <3> DEFINE y == CHOOSE x \in T : TRUE
               S == T \ {y}
    <3>1. y \in T /\ S \in SUBSET T
      BY <2>4
    <3>2. h[T] = f[y] + h[S]
      BY <2>2, <2>4 DEF Unfolds
    <3>3. Unfolds([s \in SUBSET S |-> h[s]], f, S)
      BY <2>2, <3>1, UnfoldingRestricts
    <3>4. PICK g : Unfolds(g, f, S) /\ sum(S) = g[S]
      BY <3>3, SumIsUnfolding
    <3>5. IsFiniteSet(S)
      BY FS_Subset
    <3>6. g = [s \in SUBSET S |-> h[s]]
      BY <3>3, <3>4, <3>5, UnfoldingUnique
    <3>7. QED
      BY <2>2, <3>2, <3>4, <3>6
  <2>5. QED
    BY <2>3, <2>4
<1>3. ASSUME NEW s \in SUBSET B, s # {}
      PROVE  G[s \ {CHOOSE x \in s : TRUE}] = sum(s \ {CHOOSE x \in s : TRUE})
  <2> DEFINE x == CHOOSE x \in s : TRUE
             T == s \ {x}
  <2>1. x \in s /\ T \in SUBSET B /\ T # B
    BY <1>3
  <2>2. QED
    BY <1>2, <2>1
<1>4. Unfolds(G, f, B)
  <2>1. \A s \in SUBSET B : G[s] = IF s = {} THEN 0 ELSE LET x == CHOOSE x \in s : TRUE IN f[x] + sum(s \ {x})
    OBVIOUS
  <2>2. \A s \in SUBSET B : G[s] = IF s = {} THEN 0 ELSE LET x == CHOOSE x \in s : TRUE IN f[x] + G[s \ {x}]
    <3> HIDE DEF G
    <3>1. TAKE s \in SUBSET B
    <3>2. QED
      BY <1>3, <2>1
  <2>3. G = [s \in SUBSET B |-> G[s]]
    OBVIOUS
  <2> HIDE DEF G
  <2>4. QED
    BY <2>2, <2>3 DEF Unfolds
<1>5. QED
  BY <1>1, <1>4

\* The sum of nothing is 0, and some element of the rest comes off first.
LEMMA SumUnfolds ==
  ASSUME NEW f, NEW I, IsFiniteSet(I)
  PROVE  /\ SumFunctionOnSet(f, {}) = 0
         /\ I # {} => SumFunctionOnSet(f, I) = f[CHOOSE x \in I : TRUE] + SumFunctionOnSet(f, I \ {CHOOSE x \in I : TRUE})
<1> DEFINE y == CHOOSE x \in I : TRUE
           S == I \ {y}
<1>1. IsFiniteSet({}) /\ IsFiniteSet(S)
  BY FS_EmptySet, FS_Subset
<1>2. SumFunctionOnSet(f, {}) = 0
  <2>1. PICK g : Unfolds(g, f, {}) /\ SumFunctionOnSet(f, {}) = g[{}]
    BY <1>1, UnfoldingExists, SumIsUnfolding
  <2>2. QED
    BY <2>1 DEF Unfolds
<1>3. ASSUME I # {} PROVE SumFunctionOnSet(f, I) = f[y] + SumFunctionOnSet(f, S)
  <2>1. PICK h : Unfolds(h, f, I) /\ SumFunctionOnSet(f, I) = h[I]
    BY UnfoldingExists, SumIsUnfolding
  <2>2. h[I] = f[y] + h[S]
    BY <1>3, <2>1 DEF Unfolds
  <2>3. Unfolds([s \in SUBSET S |-> h[s]], f, S)
    BY <2>1, UnfoldingRestricts
  <2>4. PICK g : Unfolds(g, f, S) /\ SumFunctionOnSet(f, S) = g[S]
    BY <2>3, SumIsUnfolding
  <2>5. g = [s \in SUBSET S |-> h[s]]
    BY <1>1, <2>3, <2>4, UnfoldingUnique
  <2>6. QED
    BY <2>1, <2>2, <2>4, <2>5
<1>4. QED
  BY <1>2, <1>3

\* A sum of integers is an integer.
LEMMA SumInt ==
  ASSUME NEW f, NEW I, IsFiniteSet(I), \A i \in I : f[i] \in Int
  PROVE  SumFunctionOnSet(f, I) \in Int
<1> DEFINE Bad == {T \in SUBSET I : SumFunctionOnSet(f, T) \notin Int}
<1>1. CASE Bad = {}
  BY <1>1
<1>2. CASE Bad # {}
  <2>1. PICK B \in Bad : \A C \in SUBSET B : C # B => C \notin Bad
    <3>1. Bad \in SUBSET (SUBSET I)
      OBVIOUS
    <3> HIDE DEF Bad
    <3>2. QED
      BY <1>2, <3>1, MinimalSubset
  <2>2. IsFiniteSet(B)
    BY FS_Subset
  <2>3. B # {}
    <3>1. SumFunctionOnSet(f, {}) = 0
      BY <2>2, SumUnfolds
    <3>2. QED
      BY <3>1
  <2> DEFINE y == CHOOSE x \in B : TRUE
  <2>4. y \in B /\ B \ {y} \in SUBSET B /\ B \ {y} # B
    BY <2>3
  <2>5. SumFunctionOnSet(f, B \ {y}) \in Int
    BY <2>1, <2>4
  <2>6. SumFunctionOnSet(f, B) = f[y] + SumFunctionOnSet(f, B \ {y})
    BY <2>2, <2>3, SumUnfolds
  <2>7. QED
    BY <2>4, <2>5, <2>6
<1>3. QED
  BY <1>1, <1>2

\* Any element may come off first.
LEMMA SumSplit ==
  ASSUME NEW f, NEW I, IsFiniteSet(I), \A i \in I : f[i] \in Int, NEW x \in I
  PROVE  SumFunctionOnSet(f, I) = f[x] + SumFunctionOnSet(f, I \ {x})
<1> DEFINE Splits(T) == \A z \in T : SumFunctionOnSet(f, T) = f[z] + SumFunctionOnSet(f, T \ {z})
           Bad == {T \in SUBSET I : ~Splits(T)}
<1>1. CASE Bad = {}
  BY <1>1
<1>2. CASE Bad # {}
  <2>1. PICK B \in Bad : \A C \in SUBSET B : C # B => C \notin Bad
    <3>1. Bad \in SUBSET (SUBSET I)
      OBVIOUS
    <3> HIDE DEF Bad
    <3>2. QED
      BY <1>2, <3>1, MinimalSubset
  <2>2. IsFiniteSet(B)
    BY FS_Subset
  <2>3. PICK z \in B : SumFunctionOnSet(f, B) # f[z] + SumFunctionOnSet(f, B \ {z})
    OBVIOUS
  <2> DEFINE y == CHOOSE w \in B : TRUE
  <2>4. y \in B
    OBVIOUS
  <2>5. SumFunctionOnSet(f, B) = f[y] + SumFunctionOnSet(f, B \ {y})
    BY <2>2, SumUnfolds
  <2>6. y # z
    BY <2>3, <2>5
  <2> DEFINE Y == B \ {y}
             Z == B \ {z}
  <2>7. Splits(Y) /\ Splits(Z)
    <3>1. Y \in SUBSET B /\ Y # B /\ Z \in SUBSET B /\ Z # B
      BY <2>4
    <3>2. Y \notin Bad /\ Z \notin Bad
      BY <2>1, <3>1
    <3>3. Y \in SUBSET I /\ Z \in SUBSET I
      OBVIOUS
    <3> HIDE DEF Splits
    <3>4. QED
      BY <3>2, <3>3
  <2>8. SumFunctionOnSet(f, Y) = f[z] + SumFunctionOnSet(f, Y \ {z})
    BY <2>6, <2>7
  <2>9. SumFunctionOnSet(f, Z) = f[y] + SumFunctionOnSet(f, Z \ {y})
    BY <2>4, <2>6, <2>7
  <2>10. Y \ {z} = Z \ {y}
    OBVIOUS
  <2>11. SumFunctionOnSet(f, Y \ {z}) \in Int /\ f[y] \in Int /\ f[z] \in Int
    <3>1. IsFiniteSet(Y \ {z})
      BY <2>2, FS_Subset
    <3>2. QED
      BY <2>4, <3>1, SumInt
  <2>12. SumFunctionOnSet(f, B) = f[z] + SumFunctionOnSet(f, Z)
    <3>1. SumFunctionOnSet(f, B) = f[y] + SumFunctionOnSet(f, Y)
      BY <2>5
    <3> DEFINE rest == SumFunctionOnSet(f, Y \ {z})
    <3>2. SumFunctionOnSet(f, Y) = f[z] + rest
      BY <2>8
    <3>3. SumFunctionOnSet(f, Z) = f[y] + rest
      BY <2>9, <2>10
    <3>4. rest \in Int /\ f[y] \in Int /\ f[z] \in Int
      BY <2>11
    <3> HIDE DEF Y, Z, y, rest
    <3>5. QED
      BY <3>1, <3>2, <3>3, <3>4
  <2> HIDE DEF Z
  <2>13. QED
    BY <2>3, <2>12 DEF Z
<1>3. QED
  BY <1>1, <1>2

\* Functions that agree on a set have the same sum over it.
LEMMA SumCongruence ==
  ASSUME NEW f, NEW g, NEW I, IsFiniteSet(I), \A i \in I : f[i] = g[i]
  PROVE  SumFunctionOnSet(f, I) = SumFunctionOnSet(g, I)
<1> DEFINE Bad == {T \in SUBSET I : SumFunctionOnSet(f, T) # SumFunctionOnSet(g, T)}
<1>1. CASE Bad = {}
  BY <1>1
<1>2. CASE Bad # {}
  <2>1. PICK B \in Bad : \A C \in SUBSET B : C # B => C \notin Bad
    <3>1. Bad \in SUBSET (SUBSET I)
      OBVIOUS
    <3> HIDE DEF Bad
    <3>2. QED
      BY <1>2, <3>1, MinimalSubset
  <2>2. IsFiniteSet(B)
    BY FS_Subset
  <2>3. B # {}
    <3>1. SumFunctionOnSet(f, {}) = 0 /\ SumFunctionOnSet(g, {}) = 0
      BY <2>2, SumUnfolds
    <3>2. QED
      BY <3>1
  <2> DEFINE y == CHOOSE x \in B : TRUE
  <2>4. y \in B /\ B \ {y} \in SUBSET B /\ B \ {y} # B
    BY <2>3
  <2>5. SumFunctionOnSet(f, B \ {y}) = SumFunctionOnSet(g, B \ {y})
    BY <2>1, <2>4
  <2>6. /\ SumFunctionOnSet(f, B) = f[y] + SumFunctionOnSet(f, B \ {y})
        /\ SumFunctionOnSet(g, B) = g[y] + SumFunctionOnSet(g, B \ {y})
    BY <2>2, <2>3, SumUnfolds
  <2>7. QED
    BY <2>4, <2>5, <2>6
<1>3. QED
  BY <1>1, <1>2

\* Terms that are not negative have a sum that is not negative.
LEMMA SumNat ==
  ASSUME NEW f, NEW I, IsFiniteSet(I), \A i \in I : f[i] \in Nat
  PROVE  SumFunctionOnSet(f, I) \in Nat
<1> DEFINE Bad == {T \in SUBSET I : SumFunctionOnSet(f, T) \notin Nat}
<1>1. CASE Bad = {}
  BY <1>1
<1>2. CASE Bad # {}
  <2>1. PICK B \in Bad : \A C \in SUBSET B : C # B => C \notin Bad
    <3>1. Bad \in SUBSET (SUBSET I)
      OBVIOUS
    <3> HIDE DEF Bad
    <3>2. QED
      BY <1>2, <3>1, MinimalSubset
  <2>2. IsFiniteSet(B)
    BY FS_Subset
  <2>3. B # {}
    <3>1. SumFunctionOnSet(f, {}) = 0
      BY <2>2, SumUnfolds
    <3>2. QED
      BY <3>1
  <2> DEFINE y == CHOOSE x \in B : TRUE
  <2>4. y \in B /\ B \ {y} \in SUBSET B /\ B \ {y} # B
    BY <2>3
  <2>5. SumFunctionOnSet(f, B \ {y}) \in Nat
    BY <2>1, <2>4
  <2>6. SumFunctionOnSet(f, B) = f[y] + SumFunctionOnSet(f, B \ {y})
    BY <2>2, <2>3, SumUnfolds
  <2>7. QED
    BY <2>4, <2>5, <2>6
<1>3. QED
  BY <1>1, <1>2

\* Nothing but zeros adds up to zero.
LEMMA SumZero ==
  ASSUME NEW f, NEW I, IsFiniteSet(I), \A i \in I : f[i] = 0
  PROVE  SumFunctionOnSet(f, I) = 0
<1> DEFINE Bad == {T \in SUBSET I : SumFunctionOnSet(f, T) # 0}
<1>1. CASE Bad = {}
  BY <1>1
<1>2. CASE Bad # {}
  <2>1. PICK B \in Bad : \A C \in SUBSET B : C # B => C \notin Bad
    <3>1. Bad \in SUBSET (SUBSET I)
      OBVIOUS
    <3> HIDE DEF Bad
    <3>2. QED
      BY <1>2, <3>1, MinimalSubset
  <2>2. IsFiniteSet(B)
    BY FS_Subset
  <2>3. B # {}
    <3>1. SumFunctionOnSet(f, {}) = 0
      BY <2>2, SumUnfolds
    <3>2. QED
      BY <3>1
  <2> DEFINE y == CHOOSE x \in B : TRUE
  <2>4. y \in B /\ B \ {y} \in SUBSET B /\ B \ {y} # B
    BY <2>3
  <2>5. SumFunctionOnSet(f, B \ {y}) = 0
    BY <2>1, <2>4
  <2>6. SumFunctionOnSet(f, B) = f[y] + SumFunctionOnSet(f, B \ {y})
    BY <2>2, <2>3, SumUnfolds
  <2>7. QED
    BY <2>4, <2>5, <2>6
<1>3. QED
  BY <1>1, <1>2

\* The sum over two sets apart is the sum of their sums.
LEMMA SumUnion ==
  ASSUME NEW f, NEW I, NEW J, IsFiniteSet(I), IsFiniteSet(J), I \cap J = {},
         \A i \in I \cup J : f[i] \in Int
  PROVE  SumFunctionOnSet(f, I \cup J) = SumFunctionOnSet(f, I) + SumFunctionOnSet(f, J)
<1> DEFINE Adds(T) == SumFunctionOnSet(f, I \cup T) = SumFunctionOnSet(f, I) + SumFunctionOnSet(f, T)
           Bad == {T \in SUBSET J : ~Adds(T)}
<1>1. SumFunctionOnSet(f, I) \in Int
  BY SumInt
<1>2. CASE Bad = {}
  BY <1>2
<1>3. CASE Bad # {}
  <2>1. PICK B \in Bad : \A C \in SUBSET B : C # B => C \notin Bad
    <3>1. Bad \in SUBSET (SUBSET J)
      OBVIOUS
    <3> HIDE DEF Bad
    <3>2. QED
      BY <1>3, <3>1, MinimalSubset
  <2>2. IsFiniteSet(B) /\ IsFiniteSet(I \cup B)
    BY FS_Subset, FS_Union
  <2>3. B # {}
    <3>1. SumFunctionOnSet(f, {}) = 0
      BY <2>2, SumUnfolds
    <3>2. I \cup {} = I
      OBVIOUS
    <3>3. SumFunctionOnSet(f, I \cup {}) = SumFunctionOnSet(f, I)
      BY <3>2
    <3> DEFINE s == SumFunctionOnSet(f, I)
    <3>4. s = s + 0
      BY <1>1
    <3>5. Adds({})
      BY <3>1, <3>3, <3>4
    <3>6. QED
      BY <3>5
  <2>4. PICK y \in B : TRUE
    BY <2>3
  <2> DEFINE C == B \ {y}
             a == SumFunctionOnSet(f, I)
             b == SumFunctionOnSet(f, C)
  <2>5. SumFunctionOnSet(f, I \cup C) = a + b
    <3>1. C \in SUBSET B /\ C # B
      OBVIOUS
    <3>2. C \notin Bad
      BY <2>1, <3>1
    <3>3. QED
      BY <3>2
  <2>6. SumFunctionOnSet(f, B) = f[y] + b
    <3>1. \A i \in B : f[i] \in Int
      OBVIOUS
    <3>2. QED
      BY <2>2, <3>1, SumSplit
  <2>7. SumFunctionOnSet(f, I \cup B) = f[y] + SumFunctionOnSet(f, I \cup C)
    <3>1. \A i \in I \cup B : f[i] \in Int
      OBVIOUS
    <3>2. \A x \in I \cup B : SumFunctionOnSet(f, I \cup B) = f[x] + SumFunctionOnSet(f, (I \cup B) \ {x})
      <4> DEFINE U == I \cup B
      <4>1. IsFiniteSet(U) /\ \A i \in U : f[i] \in Int
        BY <2>2, <3>1
      <4> HIDE DEF U
      <4>2. \A x \in U : SumFunctionOnSet(f, U) = f[x] + SumFunctionOnSet(f, U \ {x})
        BY <4>1, SumSplit
      <4>3. QED
        BY <4>2 DEF U
    <3>3. (I \cup B) \ {y} = I \cup C
      OBVIOUS
    <3>4. y \in I \cup B
      OBVIOUS
    <3> HIDE DEF C
    <3>5. QED
      BY <3>2, <3>3, <3>4
  <2>8. f[y] \in Int /\ b \in Int
    <3>1. IsFiniteSet(C) /\ \A i \in C : f[i] \in Int
      BY <2>2, FS_Subset
    <3>2. f[y] \in Int
      OBVIOUS
    <3> HIDE DEF C
    <3>3. QED
      BY <3>1, <3>2, SumInt
  <2>9. ~(SumFunctionOnSet(f, I \cup B) = a + SumFunctionOnSet(f, B))
    OBVIOUS
  <2> HIDE DEF a, b, C
  <2>10. SumFunctionOnSet(f, I \cup B) = a + (f[y] + b)
    <3>1. a \in Int
      BY <1>1 DEF a
    <3>2. QED
      BY <2>5, <2>7, <2>8, <3>1
  <2>11. QED
    BY <2>6, <2>9, <2>10
<1>4. QED
  BY <1>2, <1>3

-----------------------------------------------------------------------------
(* The arithmetic of the lines *)

\* A finite set of numbers that is not empty has a greatest member.
LEMMA MaxIsMember ==
  ASSUME NEW S \in SUBSET Nat, IsFiniteSet(S), S # {}
  PROVE  Max(S) \in S
<1> DEFINE Greatest(T, x) == \A y \in T : x >= y
           Bad == {T \in SUBSET S : T # {} /\ ~\E x \in T : Greatest(T, x)}
<1>1. CASE Bad = {}
  <2>1. \E x \in S : Greatest(S, x)
    BY <1>1
  <2>2. QED
    BY <2>1 DEF Max
<1>2. CASE Bad # {}
  <2>1. PICK B \in Bad : \A C \in SUBSET B : C # B => C \notin Bad
    <3>1. Bad \in SUBSET (SUBSET S)
      OBVIOUS
    <3> HIDE DEF Bad
    <3>2. QED
      BY <1>2, <3>1, MinimalSubset
  <2>2. PICK x \in B : TRUE
    OBVIOUS
  <2> DEFINE C == B \ {x}
  <2>3. CASE C = {}
    <3>1. Greatest(B, x)
      BY <2>3
    <3>2. QED
      BY <3>1
  <2>4. CASE C # {}
    <3>1. PICK y \in C : Greatest(C, y)
      <4>1. C \in SUBSET B /\ C # B
        OBVIOUS
      <4>2. C \notin Bad
        BY <2>1, <4>1
      <4>3. QED
        BY <2>4, <4>2
    <3>2. x \in Nat /\ y \in Nat /\ B \subseteq Nat
      OBVIOUS
    <3>3. Greatest(B, x) \/ Greatest(B, y)
      BY <3>1, <3>2
    <3>4. QED
      BY <3>1, <3>3
  <2>5. QED
    BY <2>3, <2>4
<1>3. QED
  BY <1>1, <1>2

\* The quotient of a natural number, and the product it does not exceed.
LEMMA Quotient ==
  ASSUME NEW n \in Nat, NEW d \in Nat \ {0}
  PROVE  n \div d \in Nat /\ d * (n \div d) <= n
OBVIOUS

\* A quotient rounded half up is a natural number.
LEMMA HalfUpIsNat ==
  ASSUME NEW n \in Nat, NEW d \in Nat \ {0}
  PROVE  RoundHalfUp(n, d) \in Nat
<1>1. 2 * n + d \in Nat /\ 2 * d \in Nat \ {0}
  OBVIOUS
<1>2. QED
  BY <1>1, Quotient DEF RoundHalfUp

\* The provers take these facts about products one at a time.
LEMMA ProductIsNat ==
  ASSUME NEW x \in Nat, NEW y \in Nat
  PROVE  x * y \in Nat
OBVIOUS

LEMMA ProductOverSum ==
  ASSUME NEW w \in Int, NEW x \in Int, NEW y \in Int
  PROVE  w * (x + y) = w * x + w * y
OBVIOUS

LEMMA ProductIsMonotone ==
  ASSUME NEW w \in Nat \ {0}, NEW x \in Int, NEW y \in Int, w * x <= y * w
  PROVE  x <= y
OBVIOUS

\* One term of a sum of natural numbers is at most the sum.
LEMMA TermAtMostSum ==
  ASSUME NEW f, NEW I, IsFiniteSet(I), \A i \in I : f[i] \in Nat, NEW x \in I
  PROVE  f[x] <= SumFunctionOnSet(f, I)
<1>1. IsFiniteSet(I \ {x})
  BY FS_Subset
<1>2. SumFunctionOnSet(f, I \ {x}) \in Nat
  BY <1>1, SumNat
<1>3. SumFunctionOnSet(f, I) = f[x] + SumFunctionOnSet(f, I \ {x})
  BY SumSplit
<1>4. QED
  BY <1>2, <1>3

\* The part of a sum over a subset is at most the sum.
LEMMA PartAtMostSum ==
  ASSUME NEW f, NEW I, IsFiniteSet(I), \A i \in I : f[i] \in Nat, NEW x \in I
  PROVE  SumFunctionOnSet(f, I \ {x}) <= SumFunctionOnSet(f, I)
<1>1. IsFiniteSet(I \ {x})
  BY FS_Subset
<1>2. SumFunctionOnSet(f, I \ {x}) \in Nat
  BY <1>1, SumNat
<1>3. SumFunctionOnSet(f, I) = f[x] + SumFunctionOnSet(f, I \ {x})
  BY SumSplit
<1>4. QED
  BY <1>2, <1>3

\* Shares rounded down take, whole times over, no more than the total times
\* the weights they are for.
LEMMA SharesBound ==
  ASSUME NEW I, IsFiniteSet(I), NEW w \in [I -> Nat], NEW t \in Nat, NEW W \in Nat \ {0},
         NEW g \in [I -> Nat], \A i \in I : g[i] = (t * w[i]) \div W
  PROVE  \A T \in SUBSET I : W * SumFunctionOnSet(g, T) <= t * SumFunctionOnSet(w, T)
<1> DEFINE Fits(T) == W * SumFunctionOnSet(g, T) <= t * SumFunctionOnSet(w, T)
           Bad == {T \in SUBSET I : ~Fits(T)}
<1>1. CASE Bad = {}
  BY <1>1
<1>2. CASE Bad # {}
  <2>1. PICK B \in Bad : \A C \in SUBSET B : C # B => C \notin Bad
    <3>1. Bad \in SUBSET (SUBSET I)
      OBVIOUS
    <3> HIDE DEF Bad
    <3>2. QED
      BY <1>2, <3>1, MinimalSubset
  <2>2. IsFiniteSet(B)
    BY FS_Subset
  <2>3. B # {}
    <3>1. SumFunctionOnSet(g, {}) = 0 /\ SumFunctionOnSet(w, {}) = 0
      BY <2>2, SumUnfolds
    <3>2. Fits({})
      BY <3>1
    <3>3. QED
      BY <3>2
  <2>4. PICK y \in B : TRUE
    BY <2>3
  <2> DEFINE C == B \ {y}
             a == SumFunctionOnSet(g, C)
             b == SumFunctionOnSet(w, C)
  <2>5. W * a <= t * b
    <3>1. C \in SUBSET B /\ C # B
      OBVIOUS
    <3>2. C \notin Bad
      BY <2>1, <3>1
    <3>3. QED
      BY <3>2
  <2>6. SumFunctionOnSet(g, B) = g[y] + a /\ SumFunctionOnSet(w, B) = w[y] + b
    <3>1. \A i \in B : g[i] \in Int /\ w[i] \in Int
      OBVIOUS
    <3>2. QED
      BY <2>2, <3>1, SumSplit
  <2>7. a \in Nat /\ b \in Nat
    <3>1. IsFiniteSet(C) /\ \A i \in C : g[i] \in Nat /\ w[i] \in Nat
      BY <2>2, FS_Subset
    <3> HIDE DEF C
    <3>2. QED
      BY <3>1, SumNat
  <2>8. g[y] \in Nat /\ w[y] \in Nat /\ W * g[y] <= t * w[y]
    <3>1. g[y] \in Nat /\ w[y] \in Nat /\ t * w[y] \in Nat /\ g[y] = (t * w[y]) \div W
      BY ProductIsNat
    <3>2. QED
      BY <3>1, Quotient
  <2>9. ~Fits(B)
    OBVIOUS
  <2> HIDE DEF a, b, C
  <2>10. W * (g[y] + a) = W * g[y] + W * a
    BY <2>7, <2>8, ProductOverSum
  <2>11. t * (w[y] + b) = t * w[y] + t * b
    BY <2>7, <2>8, ProductOverSum
  <2>12. W * g[y] \in Nat /\ W * a \in Nat /\ t * w[y] \in Nat /\ t * b \in Nat
    BY <2>7, <2>8, ProductIsNat
  <2>13. QED
    BY <2>5, <2>6, <2>8, <2>9, <2>10, <2>11, <2>12
<1>3. QED
  BY <1>1, <1>2

\* Shares of a total are natural numbers and add up to the total, whatever the
\* weights, as long as one of them counts.
THEOREM AllocateExact ==
  ASSUME NEW D \in SUBSET Nat, IsFiniteSet(D), D # {},
         NEW weight \in [D -> Nat], NEW total \in Nat
  PROVE  LET shares == Allocate(total, weight)
         IN /\ shares \in [D -> Nat]
            /\ SumFunction(weight) # 0 => SumFunction(shares) = total
<1> DEFINE whole == SumFunction(weight)
           share == [m \in D |-> (total * weight[m]) \div whole]
           last == Max(D)
           rest == SumFunctionOnSet(share, D \ {last})
           given == Allocate(total, weight)
<1>1. last \in D /\ whole \in Nat /\ DOMAIN weight = D
  <2>1. whole = SumFunctionOnSet(weight, D)
    BY DEF SumFunction
  <2>2. QED
    BY <2>1, MaxIsMember, SumNat
<1>2. CASE total = 0 \/ whole = 0
  <2>1. given = [m \in D |-> 0]
    BY <1>1, <1>2 DEF Allocate
  <2> DEFINE zero == [m \in D |-> 0]
  <2>2. SumFunction(zero) = 0
    <3>1. \A i \in D : zero[i] = 0
      OBVIOUS
    <3>2. SumFunctionOnSet(zero, D) = 0
      <4> HIDE DEF zero
      <4>1. QED
        BY <3>1, SumZero
    <3>3. QED
      BY <3>2 DEF SumFunction
  <2>3. QED
    BY <1>2, <2>1, <2>2
<1>3. CASE total # 0 /\ whole # 0
  <2>1. whole \in Nat \ {0}
    BY <1>1, <1>3
  <2>2. share \in [D -> Nat]
    <3>1. ASSUME NEW m \in D PROVE (total * weight[m]) \div whole \in Nat
      <4>1. total * weight[m] \in Nat
        BY ProductIsNat
      <4> HIDE DEF whole
      <4>2. QED
        BY <2>1, <4>1, Quotient
    <3>2. QED
      BY <3>1
  <2>3. rest \in Nat /\ rest <= total
    <3>1. \A T \in SUBSET D : whole * SumFunctionOnSet(share, T) <= total * SumFunctionOnSet(weight, T)
      <4>1. \A i \in D : share[i] = (total * weight[i]) \div whole
        OBVIOUS
      <4> HIDE DEF whole, share
      <4>2. QED
        BY <2>1, <2>2, <4>1, SharesBound
    <3> DEFINE part == SumFunctionOnSet(weight, D \ {last})
    <3>2. whole * rest <= total * part
      <4>1. D \ {last} \in SUBSET D
        OBVIOUS
      <4> HIDE DEF whole, share, last
      <4>2. QED
        BY <3>1, <4>1
    <3>3. IsFiniteSet(D \ {last})
      BY FS_Subset
    <3>4. rest \in Nat /\ part \in Nat
      <4>1. \A i \in D \ {last} : share[i] \in Nat /\ weight[i] \in Nat
        BY <2>2
      <4> HIDE DEF share, last
      <4>2. QED
        BY <3>3, <4>1, SumNat
    <3>5. part <= whole
      <4>1. \A i \in D : weight[i] \in Nat
        OBVIOUS
      <4> HIDE DEF last
      <4>2. QED
        BY <1>1, <4>1, PartAtMostSum DEF SumFunction
    <3> HIDE DEF whole, rest, part
    <3>6. total * part <= total * whole
      BY <1>1, <3>4, <3>5
    <3>7. whole * rest <= total * whole
      <4>1. whole * rest \in Nat /\ total * part \in Nat /\ total * whole \in Nat
        BY <1>1, <3>4, ProductIsNat
      <4>2. QED
        BY <3>2, <3>6, <4>1
    <3>8. rest <= total
      BY <2>1, <3>4, <3>7, ProductIsMonotone
    <3>9. QED
      BY <3>4, <3>8
  <2>4. given = [share EXCEPT ![last] = total - rest]
    BY <1>1, <1>3 DEF Allocate
  <2>5. total - rest \in Nat
    BY <2>3
  <2>6. given \in [D -> Nat]
    <3> HIDE DEF share, last, rest, given
    <3>1. QED
      BY <1>1, <2>2, <2>4, <2>5
  <2>7. given[last] = total - rest /\ \A i \in D \ {last} : given[i] = share[i]
    <3> HIDE DEF share, last, rest, given
    <3>1. QED
      BY <1>1, <2>2, <2>4
  <2>8. SumFunctionOnSet(given, D \ {last}) = rest
    <3>1. IsFiniteSet(D \ {last})
      BY FS_Subset
    <3> HIDE DEF share, last, given
    <3>2. QED
      BY <2>7, <3>1, SumCongruence
  <2>9. SumFunctionOnSet(given, D) = given[last] + SumFunctionOnSet(given, D \ {last})
    <3>1. \A i \in D : given[i] \in Int
      BY <2>6
    <3>2. \A x \in D : SumFunctionOnSet(given, D) = given[x] + SumFunctionOnSet(given, D \ {x})
      <4> HIDE DEF given
      <4>1. QED
        BY <3>1, SumSplit
    <3> HIDE DEF last, given
    <3>3. QED
      BY <1>1, <3>2
  <2>10. SumFunction(given) = total
    <3>1. DOMAIN given = D
      BY <2>6
    <3> HIDE DEF share, last, rest, given
    <3>2. QED
      BY <2>3, <2>7, <2>8, <2>9, <3>1 DEF SumFunction
  <2>11. QED
    BY <2>6, <2>10
<1>4. QED
  BY <1>2, <1>3

\* The weights of the lines add up to the weight sold.
THEOREM QuantitiesExact ==
  ASSUME NEW D \in SUBSET Nat, IsFiniteSet(D), D # {},
         NEW weight \in [D -> Nat], NEW sold \in Nat, SumFunction(weight) # 0
  PROVE  LET quantities == LineQuantities(sold, weight)
         IN quantities \in [D -> Int] /\ SumFunction(quantities) = sold
<1> DEFINE whole == SumFunction(weight)
           share == [m \in D |-> RoundHalfUp(sold * weight[m], whole)]
           last == Max(D)
           sum == SumFunction(share)
           given == LineQuantities(sold, weight)
<1>1. last \in D /\ whole \in Nat \ {0} /\ DOMAIN weight = D
  <2>1. whole = SumFunctionOnSet(weight, D)
    BY DEF SumFunction
  <2>2. QED
    BY <2>1, MaxIsMember, SumNat
<1>2. share \in [D -> Int]
  <2>1. ASSUME NEW m \in D PROVE RoundHalfUp(sold * weight[m], whole) \in Int
    <3>1. sold * weight[m] \in Nat
      BY ProductIsNat
    <3> HIDE DEF whole
    <3>2. QED
      BY <1>1, <3>1, HalfUpIsNat
  <2>2. QED
    BY <2>1
<1>3. given = [share EXCEPT ![last] = share[last] + (sold - sum)]
  BY <1>1 DEF LineQuantities
<1>4. IsFiniteSet(D \ {last})
  BY FS_Subset
<1> DEFINE rest == SumFunctionOnSet(share, D \ {last})
<1>5. sum = share[last] + rest
  <2>1. DOMAIN share = D /\ \A i \in D : share[i] \in Int
    BY <1>2
  <2>2. \A x \in D : SumFunctionOnSet(share, D) = share[x] + SumFunctionOnSet(share, D \ {x})
    <3>1. \A i \in D : share[i] \in Int
      BY <2>1
    <3> HIDE DEF share
    <3>2. QED
      BY <3>1, SumSplit
  <2> HIDE DEF share, last
  <2>3. QED
    BY <1>1, <2>1, <2>2 DEF SumFunction
<1>6. rest \in Int /\ sum \in Int /\ share[last] \in Int
  <2>1. share[last] \in Int /\ \A i \in D \ {last} : share[i] \in Int
    BY <1>1, <1>2
  <2>2. rest \in Int
    <3> HIDE DEF share, last
    <3>1. QED
      BY <1>4, <2>1, SumInt
  <2> HIDE DEF share, last, sum, rest
  <2>3. QED
    BY <1>5, <2>1, <2>2
<1>7. given \in [D -> Int] /\ given[last] = share[last] + (sold - sum)
      /\ \A i \in D \ {last} : given[i] = share[i]
  <2> HIDE DEF share, last, sum, given
  <2>1. QED
    BY <1>1, <1>2, <1>3, <1>6
<1>8. SumFunctionOnSet(given, D \ {last}) = rest
  <2> HIDE DEF share, last, given
  <2>1. QED
    BY <1>4, <1>7, SumCongruence
<1>9. SumFunction(given) = given[last] + rest
  <2>1. DOMAIN given = D /\ \A i \in D : given[i] \in Int
    BY <1>7
  <2>2. \A x \in D : SumFunctionOnSet(given, D) = given[x] + SumFunctionOnSet(given, D \ {x})
    <3>1. \A i \in D : given[i] \in Int
      BY <2>1
    <3> HIDE DEF given
    <3>2. QED
      BY <3>1, SumSplit
  <2> HIDE DEF given, last, rest
  <2>3. QED
    BY <1>1, <1>8, <2>1, <2>2 DEF SumFunction
<1>10. QED
  <2>1. SumFunction(given) = sold
    <3> HIDE DEF given, last, rest, sum, share
    <3>1. QED
      BY <1>5, <1>6, <1>7, <1>9
  <2>2. given \in [D -> Int]
    BY <1>7
  <2> HIDE DEF last, rest, sum, share
  <2>3. QED
    BY <2>1, <2>2

\* A deduction takes what is left at most.
LEMMA DeductBound ==
  ASSUME NEW x \in Nat, NEW r \in Nat
  PROVE  Deduct(x, r) \in Nat /\ Deduct(x, r) <= r
BY DEF Deduct

\* One member's line is its payout and its deductions, none of them negative,
\* and the loan is taken whole or not at all.
THEOREM LineExact ==
  ASSUME NEW quantity \in Int, NEW gross \in Nat, NEW transport \in Nat, NEW quality \in Nat,
         NEW manual \in Nat, NEW owed \in Nat,
         NEW config, config.fee \in Nat
  PROVE  LET l == Line(quantity, gross, config, transport, quality, manual, owed)
         IN /\ l \in [quantity : Int, gross : Nat, charges : Nat, loan : Nat, net : Nat]
            /\ l.quantity = quantity /\ l.gross = gross
            /\ l.gross = l.charges + l.loan + l.net
            /\ l.loan \in {0, owed}
<1> DEFINE asked == RoundHalfUp(gross * config.fee, 100)
           d1 == Deduct(asked, gross)
           d2 == Deduct(transport, gross - d1)
           d3 == Deduct(quality, gross - d1 - d2)
           d4 == Deduct(manual, gross - d1 - d2 - d3)
           left == gross - d1 - d2 - d3 - d4
           d5 == IF config.loans /\ owed <= left THEN owed ELSE 0
           l == Line(quantity, gross, config, transport, quality, manual, owed)
<1>1. asked \in Nat
  <2>1. gross * config.fee \in Nat
    BY ProductIsNat
  <2>2. QED
    BY <2>1, HalfUpIsNat
<1>2. d1 \in Nat /\ gross - d1 \in Nat
  <2> HIDE DEF asked
  <2>1. QED
    BY <1>1, DeductBound
<1>3. d2 \in Nat /\ gross - d1 - d2 \in Nat
  <2>1. d2 \in Nat /\ d2 <= gross - d1
    <3> HIDE DEF d1
    <3>1. QED
      BY <1>2, DeductBound
  <2> HIDE DEF d1, d2
  <2>2. QED
    BY <1>2, <2>1
<1>4. d3 \in Nat /\ gross - d1 - d2 - d3 \in Nat
  <2>1. d3 \in Nat /\ d3 <= gross - d1 - d2
    <3> HIDE DEF d1, d2
    <3>1. QED
      BY <1>3, DeductBound
  <2> HIDE DEF d1, d2, d3
  <2>2. QED
    BY <1>2, <1>3, <2>1
<1>5. d4 \in Nat /\ left \in Nat
  <2>1. d4 \in Nat /\ d4 <= gross - d1 - d2 - d3
    <3> HIDE DEF d1, d2, d3
    <3>1. QED
      BY <1>4, DeductBound
  <2> HIDE DEF d1, d2, d3, d4
  <2>2. QED
    BY <1>2, <1>3, <1>4, <2>1
<1>6. d5 \in Nat /\ left - d5 \in Nat /\ d5 \in {0, owed}
  <2> HIDE DEF left
  <2>1. CASE config.loans /\ owed <= left
    BY <1>5, <2>1
  <2>2. CASE ~(config.loans /\ owed <= left)
    BY <1>5, <2>2
  <2>3. QED
    BY <2>1, <2>2
<1>7. l = [quantity |-> quantity, gross |-> gross, charges |-> d1 + d2 + d3 + d4,
           loan |-> d5, net |-> left - d5]
  BY DEF Line
<1>8. gross = (d1 + d2 + d3 + d4) + d5 + (left - d5)
  <2>1. left = gross - d1 - d2 - d3 - d4
    OBVIOUS
  <2> HIDE DEF d1, d2, d3, d4, d5, left
  <2>2. QED
    BY <1>2, <1>3, <1>4, <1>5, <1>6, <2>1
<1>9. d1 + d2 + d3 + d4 \in Nat
  <2> HIDE DEF d1, d2, d3, d4
  <2>1. QED
    BY <1>2, <1>3, <1>4, <1>5
<1>10. /\ l \in [quantity : Int, gross : Nat, charges : Nat, loan : Nat, net : Nat]
       /\ l.quantity = quantity /\ l.gross = gross
       /\ l.gross = l.charges + l.loan + l.net
       /\ l.loan \in {0, owed}
  <2> HIDE DEF d1, d2, d3, d4, d5, left, l
  <2>1. QED
    BY <1>6, <1>7, <1>8, <1>9
<1> HIDE DEF l
<1>11. QED
  BY <1>10 DEF l

\* The lines of a sale divide its money and its weight exactly.
THEOREM LinesOfSale ==
  ASSUME NEW D \in SUBSET Nat, IsFiniteSet(D), D # {},
         NEW M, D \subseteq M, NEW sold \in Nat, NEW amount \in Nat,
         NEW weight \in [D -> Nat], SumFunction(weight) # 0,
         NEW config, config.fee \in Nat, config.transport \in Nat, config.quality \in Nat,
         config.manual \in [M -> Nat], NEW owed \in [M -> Nat]
  PROVE  LET of == SettlementLines(sold, amount, weight, config, owed)
         IN /\ of \in [D -> [quantity : Int, gross : Nat, charges : Nat, loan : Nat, net : Nat]]
            /\ SumFunction([m \in D |-> of[m].gross]) = amount
            /\ SumFunction([m \in D |-> of[m].quantity]) = sold
            /\ \A m \in D : /\ of[m].gross = of[m].charges + of[m].loan + of[m].net
                            /\ of[m].loan \in {0, owed[m]}
<1> DEFINE gross == Allocate(amount, weight)
           transport == Allocate(config.transport, gross)
           quality == Allocate(config.quality, gross)
           quantity == LineQuantities(sold, weight)
           of == SettlementLines(sold, amount, weight, config, owed)
<1>1. gross \in [D -> Nat] /\ SumFunction(gross) = amount
  BY AllocateExact
<1>2. transport \in [D -> Nat] /\ quality \in [D -> Nat]
  <2> HIDE DEF gross
  <2>1. QED
    BY <1>1, AllocateExact
<1>3. quantity \in [D -> Int] /\ SumFunction(quantity) = sold
  BY QuantitiesExact
<1>4. of = [m \in D |-> Line(quantity[m], gross[m], config, transport[m], quality[m],
                             config.manual[m], owed[m])]
  BY DEF SettlementLines
<1>5. ASSUME NEW m \in D
      PROVE  /\ of[m] \in [quantity : Int, gross : Nat, charges : Nat, loan : Nat, net : Nat]
             /\ of[m].quantity = quantity[m] /\ of[m].gross = gross[m]
             /\ of[m].gross = of[m].charges + of[m].loan + of[m].net
             /\ of[m].loan \in {0, owed[m]}
  <2>1. /\ quantity[m] \in Int /\ gross[m] \in Nat /\ transport[m] \in Nat /\ quality[m] \in Nat
        /\ config.manual[m] \in Nat /\ owed[m] \in Nat
    <3> HIDE DEF gross, transport, quality, quantity
    <3>1. QED
      BY <1>1, <1>2, <1>3
  <2> DEFINE l == Line(quantity[m], gross[m], config, transport[m], quality[m],
                       config.manual[m], owed[m])
  <2>2. /\ l \in [quantity : Int, gross : Nat, charges : Nat, loan : Nat, net : Nat]
        /\ l.quantity = quantity[m] /\ l.gross = gross[m]
        /\ l.gross = l.charges + l.loan + l.net
        /\ l.loan \in {0, owed[m]}
    <3> HIDE DEF gross, transport, quality, quantity
    <3>1. QED
      BY <2>1, LineExact
  <2>3. of[m] = l
    <3> HIDE DEF gross, transport, quality, quantity, of
    <3>1. QED
      BY <1>4
  <2> HIDE DEF l, of, gross, quantity
  <2>4. QED
    BY <2>2, <2>3
<1>6. of \in [D -> [quantity : Int, gross : Nat, charges : Nat, loan : Nat, net : Nat]]
  <2>1. of = [m \in D |-> of[m]]
    <3> HIDE DEF gross, transport, quality, quantity, of
    <3>1. QED
      BY <1>4
  <2> HIDE DEF of
  <2>2. QED
    BY <1>5, <2>1
<1>7. /\ [m \in D |-> of[m].gross] = gross
      /\ [m \in D |-> of[m].quantity] = quantity
  <2> HIDE DEF of, gross, quantity
  <2>1. QED
    BY <1>1, <1>3, <1>5
<1>8. /\ SumFunction([m \in D |-> of[m].gross]) = amount
      /\ SumFunction([m \in D |-> of[m].quantity]) = sold
  <2> HIDE DEF of, gross, quantity
  <2>1. QED
    BY <1>1, <1>3, <1>7
<1>9. QED
  <2> HIDE DEF gross, transport, quality, quantity
  <2>1. QED
    BY <1>5, <1>6, <1>8

-----------------------------------------------------------------------------
(* What is known of every row *)

Lot(b) == {i \in Intakes : intake[i].batch = b}
Paid(b) == {c \in Receipts : receipt[c].sale = b /\ receipt[c].status = "verified"}

\* A delivery in a batch is a batched one, and accepted produce weighs something.
IntakesKnown ==
  \A i \in Intakes :
    /\ intake[i].batch # NoBatch <=> intake[i].status = "batched"
    /\ intake[i].status \in {"accepted", "batched"} =>
         intake[i].net >= 1 /\ intake[i].net <= intake[i].quantity

\* A sale sells something its batch has, a run is of a confirmed sale, and only
\* a run can have been paid out.
SalesKnown ==
  \A b \in Batches :
    /\ sale[b].quantity <= batch[b].total
    /\ sale[b].status # "none" => sale[b].quantity >= 1
    /\ run[b].status # "none" => sale[b].status \in {"confirmed", "funded", "settled"}
    /\ b \in done => run[b].status # "none"

\* A receipt is of a confirmed sale and of an amount.
ReceiptsKnown ==
  \A c \in Receipts :
    receipt[c].status # "none" =>
      /\ receipt[c].sale \in Batches /\ receipt[c].amount >= 1
      /\ sale[receipt[c].sale].status \in {"confirmed", "funded", "settled"}

Known ==
  /\ MarketTypeOK /\ lines = [b \in Batches |-> lines[b]]
  /\ IntakesKnown /\ SalesKnown /\ ReceiptsKnown

\* A batch's total is what its deliveries weigh.
TotalsKept == \A b \in Batches : batch[b].total = NetWeight(Lot(b))

-----------------------------------------------------------------------------
(* The intake and aggregation handlers *)

IntakeRow == [status : IntakeStatus, quantity : Nat, net : Nat, batch : Batches \cup {NoBatch}]

\* A delivery is weighed in, accepted, rejected or cancelled.
LEMMA IntakeSteps ==
  ASSUME Known, NEW i \in Intakes,
         \/ \E q \in Quantities : CreateIntake(i, q) \/ AcceptIntake(i, q)
         \/ RejectIntake(i) \/ CancelIntake(i)
  PROVE  Known'
<1> USE DEF IntakeRow
<1>1. intake \in [Intakes -> IntakeRow] /\ \A q \in Quantities : q \in Nat /\ q >= 1
  BY QuantitiesAssumption DEF Known, MarketTypeOK
<1> DEFINE Reviewed ==
             /\ UNCHANGED <<batch, sale, receipt, run, lines, done>>
             /\ intake' = [intake EXCEPT ![i] = intake'[i]]
             /\ intake'[i] \in IntakeRow
             /\ intake[i].status \in {"none", "received"} /\ intake'[i].batch = intake[i].batch
             /\ \/ intake'[i].status \in {"received", "rejected", "cancelled"}
                \/ intake'[i].status = "accepted" /\ intake'[i].net >= 1
                     /\ intake'[i].net <= intake'[i].quantity
<1>2. Reviewed
  <2>1. ASSUME NEW q \in Quantities, CreateIntake(i, q) PROVE Reviewed
    <3> DEFINE row == [intake[i] EXCEPT !.status = "received", !.quantity = q]
    <3>1. intake' = [intake EXCEPT ![i] = row]
      BY <1>1, <2>1 DEF CreateIntake
    <3>2. row \in IntakeRow /\ row.batch = intake[i].batch /\ row.status = "received"
      BY <1>1 DEF IntakeStatus
    <3>3. intake'[i] = row
      BY <1>1, <3>1
    <3> HIDE DEF row
    <3>4. QED
      BY <2>1, <3>1, <3>2, <3>3 DEF CreateIntake
  <2>2. ASSUME NEW q \in Quantities, AcceptIntake(i, q) PROVE Reviewed
    <3> DEFINE row == [intake[i] EXCEPT !.status = "accepted", !.net = q]
    <3>1. intake' = [intake EXCEPT ![i] = row]
      BY <1>1, <2>2 DEF AcceptIntake
    <3>2. row \in IntakeRow /\ row.batch = intake[i].batch /\ row.status = "accepted"
          /\ row.net = q /\ row.quantity = intake[i].quantity
      BY <1>1 DEF IntakeStatus
    <3>3. intake'[i] = row
      BY <1>1, <3>1
    <3> HIDE DEF row
    <3>4. QED
      BY <1>1, <2>2, <3>1, <3>2, <3>3 DEF AcceptIntake
  <2>3. CASE RejectIntake(i) \/ CancelIntake(i)
    <3>1. PICK st \in {"rejected", "cancelled"} :
            intake' = [intake EXCEPT ![i] = [intake[i] EXCEPT !.status = st]]
      BY <1>1, <2>3 DEF RejectIntake, CancelIntake
    <3> DEFINE row == [intake[i] EXCEPT !.status = st]
    <3>2. row \in IntakeRow /\ row.batch = intake[i].batch /\ row.status = st
      BY <1>1 DEF IntakeStatus
    <3>3. intake'[i] = row
      BY <1>1, <3>1
    <3>4. intake' = [intake EXCEPT ![i] = row]
      BY <3>1
    <3> HIDE DEF row
    <3>5. QED
      BY <2>3, <3>2, <3>3, <3>4 DEF RejectIntake, CancelIntake
  <2>4. QED
    BY <2>1, <2>2, <2>3
<1>3. intake' \in [Intakes -> IntakeRow] /\ \A j \in Intakes \ {i} : intake'[j] = intake[j]
  BY <1>1, <1>2
<1>4. IntakesKnown'
  <2> SUFFICES ASSUME NEW j \in Intakes
               PROVE  /\ intake'[j].batch # NoBatch <=> intake'[j].status = "batched"
                      /\ intake'[j].status \in {"accepted", "batched"} =>
                           intake'[j].net >= 1 /\ intake'[j].net <= intake'[j].quantity
    BY DEF IntakesKnown
  <2>1. CASE j = i
    BY <1>2, <2>1 DEF Known, IntakesKnown
  <2>2. CASE j # i
    BY <1>3, <2>2 DEF Known, IntakesKnown
  <2>3. QED
    BY <2>1, <2>2
<1>5. MarketTypeOK'
  BY <1>2, <1>3 DEF Known, MarketTypeOK
<1>6. SalesKnown' /\ ReceiptsKnown'
  BY <1>2 DEF Known, SalesKnown, ReceiptsKnown
<1>7. QED
  BY <1>2, <1>4, <1>5, <1>6 DEF Known

BatchRow == [status : BatchStatus, total : Nat]

\* The sum of the weights of the deliveries of a request.
LEMMA WeightIsNat ==
  ASSUME Known, NEW items \in SUBSET Intakes
  PROVE  NetWeight(items) \in Nat
<1> DEFINE net == [i \in Intakes |-> intake[i].net]
<1>1. IsFiniteSet(items) /\ \A i \in items : net[i] \in Nat
  BY IntakesAssumption, FS_Subset DEF Known, MarketTypeOK
<1> HIDE DEF net
<1>2. SumFunctionOnSet(net, items) \in Nat
  BY <1>1, SumNat
<1>3. QED
  BY <1>2 DEF NetWeight, net

\* A batch is opened, filled and closed.
LEMMA BatchSteps ==
  ASSUME Known, NEW b \in Batches, NEW items \in SUBSET Intakes,
         CreateBatch(b) \/ CloseBatch(b) \/ AddIntakes(b, items)
  PROVE  Known'
<1> USE DEF IntakeRow, BatchRow
<1>1. batch \in [Batches -> BatchRow] /\ intake \in [Intakes -> IntakeRow]
      /\ sale \in [Batches -> [status : SaleStatus, quantity : Nat, amount : Nat]]
  BY DEF Known, MarketTypeOK
<1>2. /\ UNCHANGED <<sale, receipt, run, lines, done>>
      /\ batch' \in [Batches -> BatchRow]
      /\ \A a \in Batches : batch[a].total <= batch'[a].total
  <2>1. CASE CreateBatch(b)
    <3> DEFINE row == [batch[b] EXCEPT !.status = "open"]
    <3>1. row \in BatchRow /\ row.total = batch[b].total
      BY <1>1 DEF BatchStatus
    <3>2. batch' = [batch EXCEPT ![b] = row]
      BY <2>1 DEF CreateBatch
    <3> HIDE DEF row
    <3>3. QED
      BY <1>1, <2>1, <3>1, <3>2 DEF CreateBatch
  <2>2. CASE CloseBatch(b)
    <3> DEFINE row == [batch[b] EXCEPT !.status = "closed"]
    <3>1. row \in BatchRow /\ row.total = batch[b].total
      BY <1>1 DEF BatchStatus
    <3>2. batch' = [batch EXCEPT ![b] = row]
      BY <2>2 DEF CloseBatch
    <3> HIDE DEF row
    <3>3. QED
      BY <1>1, <2>2, <3>1, <3>2 DEF CloseBatch
  <2>3. CASE AddIntakes(b, items)
    <3> DEFINE row == [batch[b] EXCEPT !.total = batch[b].total + NetWeight(items)]
    <3>1. row \in BatchRow /\ batch[b].total <= row.total
      BY <1>1, WeightIsNat DEF BatchStatus
    <3>2. batch' = [batch EXCEPT ![b] = row]
      BY <2>3 DEF AddIntakes
    <3> HIDE DEF row
    <3>3. QED
      <4>1. UNCHANGED <<sale, receipt, run, lines, done>>
        BY <2>3 DEF AddIntakes
      <4>2. \A a \in Batches : batch'[a] = IF a = b THEN row ELSE batch[a]
        BY <1>1, <3>2
      <4>3. \A a \in Batches : batch[a].total \in Nat
        BY <1>1
      <4>4. \A a \in Batches : batch[a].total <= batch'[a].total
        BY <3>1, <4>2, <4>3
      <4>5. batch' \in [Batches -> BatchRow]
        BY <1>1, <3>1, <3>2
      <4>6. QED
        BY <4>1, <4>4, <4>5
  <2>4. QED
    BY <2>1, <2>2, <2>3
<1>3. intake' \in [Intakes -> IntakeRow] /\ IntakesKnown'
  <2>1. CASE CreateBatch(b) \/ CloseBatch(b)
    BY <1>1, <2>1 DEF CreateBatch, CloseBatch, Known, IntakesKnown
  <2>2. CASE AddIntakes(b, items)
    <3> SUFFICES ASSUME NEW i \in Intakes
                 PROVE  /\ intake'[i] \in IntakeRow
                        /\ intake'[i].batch # NoBatch <=> intake'[i].status = "batched"
                        /\ intake'[i].status \in {"accepted", "batched"} =>
                             intake'[i].net >= 1 /\ intake'[i].net <= intake'[i].quantity
      BY <2>2 DEF AddIntakes, IntakesKnown
    <3>1. CASE i \in items
      <4> DEFINE row == [intake[i] EXCEPT !.status = "batched", !.batch = b]
      <4>1. intake'[i] = row /\ intake[i].status = "accepted"
        BY <2>2, <3>1 DEF AddIntakes
      <4>2. row \in IntakeRow /\ row.status = "batched" /\ row.batch = b
            /\ row.net = intake[i].net /\ row.quantity = intake[i].quantity
        BY <1>1 DEF IntakeStatus
      <4> HIDE DEF row
      <4>3. QED
        BY <4>1, <4>2, RowsAssumption DEF Known, IntakesKnown
    <3>2. CASE i \notin items
      BY <1>1, <2>2, <3>2 DEF AddIntakes, Known, IntakesKnown
    <3>3. QED
      BY <3>1, <3>2
  <2>3. QED
    BY <2>1, <2>2
<1>4. MarketTypeOK'
  BY <1>2, <1>3 DEF Known, MarketTypeOK
<1>5. SalesKnown'
  <2> SUFFICES ASSUME NEW a \in Batches PROVE sale[a].quantity <= batch'[a].total
    BY <1>2 DEF Known, SalesKnown
  <2>1. sale[a].quantity <= batch[a].total /\ batch[a].total <= batch'[a].total
        /\ sale[a].quantity \in Nat /\ batch[a].total \in Nat /\ batch'[a].total \in Nat
    BY <1>1, <1>2 DEF Known, SalesKnown
  <2>2. QED
    BY <2>1
<1>6. ReceiptsKnown'
  BY <1>2 DEF Known, ReceiptsKnown
<1>7. QED
  BY <1>2, <1>3, <1>4, <1>5, <1>6 DEF Known

SaleRow == [status : SaleStatus, quantity : Nat, amount : Nat]
ReceiptRow == [status : ReceiptStatus, sale : Batches \cup {NoBatch}, amount : Nat,
               by : Actors \cup {NoOne}]
RunRow == [status : RunStatus, calculator : Actors \cup {NoOne}]

\* A step that leaves deliveries and lines alone keeps what is known of them.
LEMMA SalesSide ==
  ASSUME Known, UNCHANGED <<intake, lines>>, batch' \in [Batches -> BatchRow],
         sale' \in [Batches -> SaleRow], receipt' \in [Receipts -> ReceiptRow],
         run' \in [Batches -> RunRow], done' \subseteq Batches,
         SalesKnown', ReceiptsKnown'
  PROVE  Known'
<1>1. MarketTypeOK'
  BY DEF Known, MarketTypeOK, BatchRow, SaleRow, ReceiptRow, RunRow
<1>2. IntakesKnown' /\ (lines = [b \in Batches |-> lines[b]])'
  BY DEF Known, IntakesKnown
<1>3. QED
  BY <1>1, <1>2 DEF Known

\* A sale is drafted, confirmed and settled.
LEMMA SaleSteps ==
  ASSUME Known, NEW b \in Batches,
         \/ \E q \in Quantities, price \in Prices : CreateSale(b, q, price)
         \/ ConfirmSale(b) \/ SettleSale(b)
  PROVE  Known'
<1> USE DEF SaleRow
<1>1. sale \in [Batches -> SaleRow] /\ batch \in [Batches -> BatchRow]
      /\ receipt \in [Receipts -> ReceiptRow] /\ run \in [Batches -> RunRow] /\ done \subseteq Batches
  BY DEF Known, MarketTypeOK, BatchRow, ReceiptRow, RunRow
<1>2. ASSUME NEW q \in Quantities, NEW price \in Prices, CreateSale(b, q, price) PROVE Known'
  <2> DEFINE row == [status |-> "draft", quantity |-> q, amount |-> RoundHalfUp(q * price, Scale)]
  <2>1. q \in Nat /\ q >= 1 /\ price \in Nat
    BY QuantitiesAssumption, PricesAssumption
  <2>2. row \in SaleRow /\ row.status = "draft" /\ row.quantity = q
    <3>1. q * price \in Nat
      BY <2>1, ProductIsNat
    <3>2. RoundHalfUp(q * price, Scale) \in Nat
      BY <3>1, HalfUpIsNat, PricesAssumption
    <3>3. QED
      BY <2>1, <3>2 DEF SaleStatus
  <2>3. sale' = [sale EXCEPT ![b] = row] /\ UNCHANGED <<intake, batch, receipt, run, lines, done>>
        /\ sale[b].status = "none" /\ q <= batch[b].total
    BY <1>2 DEF CreateSale
  <2> HIDE DEF row
  <2>4. sale' \in [Batches -> SaleRow] /\ sale'[b] = row /\ \A a \in Batches \ {b} : sale'[a] = sale[a]
    BY <1>1, <2>2, <2>3
  <2>5. SalesKnown'
    <3> SUFFICES ASSUME NEW a \in Batches
                 PROVE  /\ sale'[a].quantity <= batch[a].total
                        /\ sale'[a].status # "none" => sale'[a].quantity >= 1
                        /\ run[a].status # "none" => sale'[a].status \in {"confirmed", "funded", "settled"}
                        /\ a \in done => run[a].status # "none"
      BY <2>3 DEF SalesKnown
    <3>1. CASE a = b
      BY <2>1, <2>2, <2>3, <2>4, <3>1 DEF Known, SalesKnown
    <3>2. CASE a # b
      BY <2>4, <3>2 DEF Known, SalesKnown
    <3>3. QED
      BY <3>1, <3>2
  <2>6. ReceiptsKnown'
    <3> SUFFICES ASSUME NEW c \in Receipts, receipt[c].status # "none"
                 PROVE  /\ receipt[c].sale \in Batches /\ receipt[c].amount >= 1
                        /\ sale'[receipt[c].sale].status \in {"confirmed", "funded", "settled"}
      BY <2>3 DEF ReceiptsKnown
    <3>1. /\ receipt[c].sale \in Batches /\ receipt[c].amount >= 1
          /\ sale[receipt[c].sale].status \in {"confirmed", "funded", "settled"}
      BY DEF Known, ReceiptsKnown
    <3>2. receipt[c].sale # b
      BY <2>3, <3>1
    <3>3. QED
      BY <2>4, <3>1, <3>2
  <2>7. QED
    BY <1>1, <2>3, <2>4, <2>5, <2>6, SalesSide
<1>3. CASE ConfirmSale(b) \/ SettleSale(b)
  <2>1. PICK st \in {"confirmed", "settled"} :
          /\ sale' = [sale EXCEPT ![b] = [sale[b] EXCEPT !.status = st]]
          /\ sale[b].status # "none"
          /\ run[b].status # "none" => sale[b].status \in {"confirmed", "funded", "settled"}
    <3>1. CASE ConfirmSale(b)
      BY <3>1, <1>1 DEF ConfirmSale, Known, SalesKnown
    <3>2. CASE SettleSale(b)
      BY <3>2, <1>1 DEF SettleSale, Known, SalesKnown
    <3>3. QED
      BY <1>3, <3>1, <3>2
  <2> DEFINE row == [sale[b] EXCEPT !.status = st]
  <2>2. row \in SaleRow /\ row.status = st /\ row.quantity = sale[b].quantity
    BY <1>1 DEF SaleStatus
  <2>3. sale' = [sale EXCEPT ![b] = row]
    BY <2>1
  <2> HIDE DEF row
  <2>4. sale' \in [Batches -> SaleRow] /\ sale'[b] = row /\ \A a \in Batches \ {b} : sale'[a] = sale[a]
    BY <1>1, <2>2, <2>3
  <2>5. UNCHANGED <<intake, receipt, run, lines, done>> /\ batch' \in [Batches -> BatchRow]
        /\ \A a \in Batches : batch'[a].total = batch[a].total
    <3>1. CASE ConfirmSale(b)
      <4> DEFINE new == [batch[b] EXCEPT !.status = "sold"]
      <4>1. new \in BatchRow /\ new.total = batch[b].total
        BY <1>1 DEF BatchRow, BatchStatus
      <4>2. batch' = [batch EXCEPT ![b] = new]
        BY <3>1 DEF ConfirmSale
      <4> HIDE DEF new
      <4>3. QED
        BY <1>1, <3>1, <4>1, <4>2 DEF ConfirmSale
    <3>2. CASE SettleSale(b)
      BY <1>1, <3>2 DEF SettleSale
    <3>3. QED
      BY <1>3, <3>1, <3>2
  <2>6. SalesKnown'
    <3> SUFFICES ASSUME NEW a \in Batches
                 PROVE  /\ sale'[a].quantity <= batch'[a].total
                        /\ sale'[a].status # "none" => sale'[a].quantity >= 1
                        /\ run[a].status # "none" => sale'[a].status \in {"confirmed", "funded", "settled"}
                        /\ a \in done => run[a].status # "none"
      BY <2>5 DEF SalesKnown
    <3>1. CASE a = b
      BY <2>1, <2>2, <2>4, <2>5, <3>1 DEF Known, SalesKnown
    <3>2. CASE a # b
      BY <2>4, <2>5, <3>2 DEF Known, SalesKnown
    <3>3. QED
      BY <3>1, <3>2
  <2>7. ReceiptsKnown'
    <3> SUFFICES ASSUME NEW c \in Receipts, receipt[c].status # "none"
                 PROVE  /\ receipt[c].sale \in Batches /\ receipt[c].amount >= 1
                        /\ sale'[receipt[c].sale].status \in {"confirmed", "funded", "settled"}
      BY <2>5 DEF ReceiptsKnown
    <3>1. /\ receipt[c].sale \in Batches /\ receipt[c].amount >= 1
          /\ sale[receipt[c].sale].status \in {"confirmed", "funded", "settled"}
      BY DEF Known, ReceiptsKnown
    <3>2. CASE receipt[c].sale = b
      BY <2>2, <2>4, <3>1, <3>2
    <3>3. CASE receipt[c].sale # b
      BY <2>4, <3>1, <3>3
    <3>4. QED
      BY <3>2, <3>3
  <2>8. QED
    BY <1>1, <2>4, <2>5, <2>6, <2>7, SalesSide
<1>4. QED
  BY <1>2, <1>3

\* A receipt is submitted, verified or rejected.
LEMMA ReceiptSteps ==
  ASSUME Known, NEW c \in Receipts, NEW actor \in Actors,
         \/ \E b \in Batches, amount \in Amounts : SubmitReceipt(c, b, amount, actor)
         \/ VerifyReceipt(c, actor) \/ RejectReceipt(c, actor)
  PROVE  Known'
<1> USE DEF SaleRow, ReceiptRow
<1>1. sale \in [Batches -> SaleRow] /\ batch \in [Batches -> BatchRow]
      /\ receipt \in [Receipts -> ReceiptRow] /\ run \in [Batches -> RunRow] /\ done \subseteq Batches
  BY DEF Known, MarketTypeOK, BatchRow, RunRow
<1> DEFINE Received ==
             /\ UNCHANGED <<intake, batch, run, lines, done>>
             /\ receipt' = [receipt EXCEPT ![c] = receipt'[c]]
             /\ receipt'[c] \in ReceiptRow
             /\ receipt'[c].sale \in Batches /\ receipt'[c].amount >= 1
             /\ sale[receipt'[c].sale].status \in {"confirmed", "funded", "settled"}
<1>2. Received
  <2>1. ASSUME NEW b \in Batches, NEW amount \in Amounts, SubmitReceipt(c, b, amount, actor)
        PROVE  Received
    <3> DEFINE row == [status |-> "pending", sale |-> b, amount |-> amount, by |-> actor]
    <3>1. row \in ReceiptRow /\ row.sale = b /\ row.amount >= 1
      BY QuantitiesAssumption DEF ReceiptStatus
    <3>2. receipt' = [receipt EXCEPT ![c] = row]
      BY <2>1 DEF SubmitReceipt
    <3>3. receipt'[c] = row
      BY <1>1, <3>2
    <3> HIDE DEF row
    <3>4. QED
      BY <2>1, <3>1, <3>2, <3>3 DEF SubmitReceipt
  <2>2. CASE VerifyReceipt(c, actor) \/ RejectReceipt(c, actor)
    <3>1. PICK st \in {"verified", "rejected"} :
            /\ receipt' = [receipt EXCEPT ![c] = [receipt[c] EXCEPT !.status = st]]
            /\ receipt[c].status = "pending"
            /\ UNCHANGED <<intake, batch, run, lines, done>>
      BY <1>1, <2>2 DEF VerifyReceipt, RejectReceipt, MayDecide
    <3> DEFINE row == [receipt[c] EXCEPT !.status = st]
    <3>2. row \in ReceiptRow /\ row.sale = receipt[c].sale /\ row.amount = receipt[c].amount
      BY <1>1 DEF ReceiptStatus
    <3>3. receipt' = [receipt EXCEPT ![c] = row]
      BY <3>1
    <3>4. receipt'[c] = row
      BY <1>1, <3>3
    <3> HIDE DEF row
    <3>5. receipt[c].sale \in Batches /\ receipt[c].amount >= 1
          /\ sale[receipt[c].sale].status \in {"confirmed", "funded", "settled"}
      BY <3>1 DEF Known, ReceiptsKnown
    <3>6. QED
      BY <3>1, <3>2, <3>3, <3>4, <3>5
  <2>3. QED
    BY <2>1, <2>2
<1>3. receipt' \in [Receipts -> ReceiptRow] /\ \A d \in Receipts \ {c} : receipt'[d] = receipt[d]
  BY <1>1, <1>2
<1>4. /\ sale' \in [Batches -> SaleRow]
      /\ \A a \in Batches :
           /\ sale'[a].quantity = sale[a].quantity
           /\ \/ sale'[a].status = sale[a].status
              \/ sale'[a].status = "funded" /\ a = receipt[c].sale /\ receipt[c].status # "none"
  <2>1. CASE sale' = sale
    BY <1>1, <2>1
  <2>2. CASE sale' # sale
    <3>1. VerifyReceipt(c, actor)
      BY <2>2 DEF SubmitReceipt, RejectReceipt
    <3> DEFINE a == receipt[c].sale
               row == [sale[a] EXCEPT !.status = "funded"]
    <3>2. receipt[c].status # "none"
      BY <3>1 DEF VerifyReceipt, MayDecide
    <3>3. a \in Batches
      BY <3>2 DEF Known, ReceiptsKnown
    <3>4. sale' = [sale EXCEPT ![a] = row]
      BY <2>2, <3>1 DEF VerifyReceipt
    <3>5. row \in SaleRow /\ row.quantity = sale[a].quantity /\ row.status = "funded"
      BY <1>1, <3>3 DEF SaleStatus
    <3> HIDE DEF row
    <3>6. QED
      BY <1>1, <3>2, <3>3, <3>4, <3>5
  <2>3. QED
    BY <2>1, <2>2
<1>5. \A a \in Batches : sale[a].status \in {"confirmed", "funded", "settled"} =>
        sale'[a].status \in {"confirmed", "funded", "settled"}
  BY <1>4
<1>6. SalesKnown'
  <2> SUFFICES ASSUME NEW a \in Batches
               PROVE  /\ sale'[a].quantity <= batch[a].total
                      /\ sale'[a].status # "none" => sale'[a].quantity >= 1
                      /\ run[a].status # "none" => sale'[a].status \in {"confirmed", "funded", "settled"}
                      /\ a \in done => run[a].status # "none"
    BY <1>2 DEF SalesKnown
  <2>1. CASE sale'[a].status = sale[a].status
    BY <1>4, <2>1 DEF Known, SalesKnown
  <2>2. CASE sale'[a].status # sale[a].status
    <3>1. sale[a].status \in {"confirmed", "funded", "settled"}
      BY <1>4, <2>2 DEF Known, ReceiptsKnown
    <3>2. QED
      BY <1>4, <1>5, <3>1 DEF Known, SalesKnown
  <2>3. QED
    BY <2>1, <2>2
<1>7. ReceiptsKnown'
  <2> SUFFICES ASSUME NEW d \in Receipts, receipt'[d].status # "none"
               PROVE  /\ receipt'[d].sale \in Batches /\ receipt'[d].amount >= 1
                      /\ sale'[receipt'[d].sale].status \in {"confirmed", "funded", "settled"}
    BY DEF ReceiptsKnown
  <2>1. CASE d = c
    BY <1>2, <1>5, <2>1
  <2>2. CASE d # c
    BY <1>3, <1>5, <2>2 DEF Known, ReceiptsKnown
  <2>3. QED
    BY <2>1, <2>2
<1>8. UNCHANGED <<intake, lines>> /\ batch' \in [Batches -> BatchRow]
      /\ run' \in [Batches -> RunRow] /\ done' \subseteq Batches
  BY <1>1, <1>2
<1>9. QED
  BY <1>3, <1>4, <1>6, <1>7, <1>8, SalesSide

\* A run is submitted, approved and paid out.
LEMMA RunSteps ==
  ASSUME Known, NEW b \in Batches,
         \/ SubmitSettlement(b) \/ PayoutCompletes(b)
         \/ \E actor \in Actors : ApproveSettlement(b, actor)
  PROVE  Known'
<1> USE DEF RunRow
<1>1. sale \in [Batches -> SaleRow] /\ batch \in [Batches -> BatchRow]
      /\ receipt \in [Receipts -> ReceiptRow] /\ run \in [Batches -> RunRow] /\ done \subseteq Batches
  BY DEF Known, MarketTypeOK, BatchRow, SaleRow, ReceiptRow
<1>2. /\ UNCHANGED <<intake, batch, sale, receipt, lines>> /\ done' \in {done, done \cup {b}}
      /\ run[b].status # "none"
  BY DEF SubmitSettlement, ApproveSettlement, PayoutCompletes
<1>3. PICK st \in RunStatus \ {"none"} : run' = [run EXCEPT ![b] = [run[b] EXCEPT !.status = st]]
  BY <1>1 DEF SubmitSettlement, ApproveSettlement, PayoutCompletes, RunStatus
<1> DEFINE row == [run[b] EXCEPT !.status = st]
<1>4. row \in RunRow /\ row.status = st
  BY <1>1
<1>5. run' = [run EXCEPT ![b] = row]
  BY <1>3
<1> HIDE DEF row
<1>6. run' \in [Batches -> RunRow] /\ run'[b] = row /\ \A a \in Batches \ {b} : run'[a] = run[a]
  BY <1>1, <1>4, <1>5
<1>7. SalesKnown'
  <2> SUFFICES ASSUME NEW a \in Batches
               PROVE  /\ sale[a].quantity <= batch[a].total
                      /\ sale[a].status # "none" => sale[a].quantity >= 1
                      /\ run'[a].status # "none" => sale[a].status \in {"confirmed", "funded", "settled"}
                      /\ a \in done' => run'[a].status # "none"
    BY <1>2 DEF SalesKnown
  <2>1. CASE a = b
    BY <1>2, <1>4, <1>6, <2>1 DEF Known, SalesKnown
  <2>2. CASE a # b
    BY <1>2, <1>6, <2>2 DEF Known, SalesKnown
  <2>3. QED
    BY <2>1, <2>2
<1>8. ReceiptsKnown'
  BY <1>2 DEF Known, ReceiptsKnown
<1>9. QED
  BY <1>1, <1>2, <1>6, <1>7, <1>8, SalesSide

-----------------------------------------------------------------------------
(* The members of a batch and what theirs weighs *)

Payees(b) == {MemberOf[i] : i \in Lot(b)}

\* A sale is of deliveries: they are of members, a finite number of them, and
\* what is theirs weighs something.
LEMMA WeightsKnown ==
  ASSUME Known, TotalsKept, NEW b \in Batches, sale[b].status # "none"
  PROVE  /\ Payees(b) \subseteq Members /\ Members \subseteq Nat
         /\ IsFiniteSet(Payees(b)) /\ Payees(b) # {}
         /\ Weights(b) \in [Payees(b) -> Nat] /\ SumFunction(Weights(b)) # 0
<1>1. Payees(b) \subseteq Members /\ Members \subseteq Nat
  BY IntakesAssumption DEF Payees, Members, Lot
<1>2. IsFiniteSet(Lot(b)) /\ Lot(b) \in SUBSET Intakes
  BY IntakesAssumption, FS_Subset DEF Lot
<1>3. IsFiniteSet(Payees(b))
  <2> DEFINE f == [i \in Lot(b) |-> MemberOf[i]]
  <2>1. f \in Surjection(Lot(b), Payees(b))
    BY DEF Surjection, Payees
  <2>2. QED
    BY <1>2, <2>1, FS_Surjection
<1>4. PICK i \in Intakes : i \in Lot(b)
  <2>1. sale[b].quantity >= 1 /\ sale[b].quantity <= batch[b].total
        /\ sale[b].quantity \in Nat /\ batch[b].total \in Nat
    BY DEF Known, MarketTypeOK, SalesKnown
  <2>2. NetWeight(Lot(b)) # 0
    BY <2>1 DEF TotalsKept
  <2>3. NetWeight({}) = 0
    BY <1>2, SumUnfolds DEF NetWeight
  <2>4. Lot(b) # {}
    BY <2>2, <2>3
  <2>5. QED
    BY <2>4 DEF Lot
<1> DEFINE Of(m) == {j \in Lot(b) : MemberOf[j] = m}
           weight == Weights(b)
<1>5. weight = [m \in Payees(b) |-> NetWeight(Of(m))]
  BY DEF Weights, Payees, Lot
<1>6. weight \in [Payees(b) -> Nat]
  <2>1. \A m : Of(m) \in SUBSET Intakes
    BY <1>2
  <2>2. \A m : NetWeight(Of(m)) \in Nat
    <3> HIDE DEF Of
    <3>1. QED
      BY <2>1, WeightIsNat
  <2> HIDE DEF weight, Of
  <2>3. QED
    BY <1>5, <2>2
<1> DEFINE m == MemberOf[i]
<1>7. m \in Payees(b) /\ i \in Of(m)
  BY <1>4 DEF Payees
<1>8. weight[m] >= 1
  <2> DEFINE net == [j \in Intakes |-> intake[j].net]
  <2>1. IsFiniteSet(Of(m)) /\ \A j \in Of(m) : net[j] \in Nat
    BY <1>2, FS_Subset DEF Known, MarketTypeOK
  <2>2. net[i] >= 1 /\ net[i] \in Nat
    BY <1>4, RowsAssumption DEF Known, MarketTypeOK, IntakesKnown, Lot
  <2>3. net[i] <= SumFunctionOnSet(net, Of(m))
    <3> HIDE DEF net, Of, m
    <3>1. QED
      BY <1>7, <2>1, TermAtMostSum
  <2>4. SumFunctionOnSet(net, Of(m)) = weight[m]
    <3>1. weight[m] = NetWeight(Of(m))
      <4> HIDE DEF Of, m, weight
      <4>1. QED
        BY <1>5, <1>7
    <3>2. QED
      BY <3>1 DEF NetWeight
  <2>5. weight[m] \in Nat
    <3> HIDE DEF weight, m, Of
    <3>1. QED
      BY <1>6, <1>7
  <2> HIDE DEF net, weight, m, Of
  <2>6. QED
    BY <2>2, <2>3, <2>4, <2>5
<1>9. SumFunction(weight) # 0
  <2> HIDE DEF weight, m, Of
  <2>1. \A k \in Payees(b) : weight[k] \in Nat
    BY <1>6
  <2>2. weight[m] <= SumFunctionOnSet(weight, Payees(b))
    BY <1>3, <1>7, <2>1, TermAtMostSum
  <2>3. SumFunctionOnSet(weight, Payees(b)) \in Nat /\ weight[m] \in Nat
    BY <1>3, <1>7, <2>1, SumNat
  <2>4. SumFunction(weight) = SumFunctionOnSet(weight, Payees(b))
    BY <1>6 DEF SumFunction
  <2>5. QED
    BY <1>8, <2>2, <2>3, <2>4
<1>10. QED
  <2>1. Payees(b) # {}
    BY <1>7
  <2> HIDE DEF weight
  <2>2. weight \in [Payees(b) -> Nat] /\ SumFunction(weight) # 0
    BY <1>6, <1>9
  <2>3. QED
    BY <1>1, <1>3, <2>1, <2>2 DEF weight

-----------------------------------------------------------------------------
(* Stock *)

\* Deliveries whose weight a step leaves alone weigh the same after it.
LEMMA WeightKept ==
  ASSUME NEW items \in SUBSET Intakes, \A i \in items : intake'[i].net = intake[i].net
  PROVE  SumFunctionOnSet([i \in Intakes |-> intake'[i].net], items) = NetWeight(items)
<1> DEFINE old == [i \in Intakes |-> intake[i].net]
           new == [i \in Intakes |-> intake'[i].net]
<1>1. IsFiniteSet(items) /\ \A i \in items : new[i] = old[i]
  BY IntakesAssumption, FS_Subset
<1> HIDE DEF old, new
<1>2. SumFunctionOnSet(new, items) = SumFunctionOnSet(old, items)
  BY <1>1, SumCongruence
<1>3. QED
  BY <1>2 DEF old, new, NetWeight

\* What the batches weigh stays what their deliveries weigh.
LEMMA TotalsStep ==
  ASSUME Known, TotalsKept, [MarketNext]_marketVars
  PROVE  TotalsKept'
<1>1. SUFFICES ASSUME NEW b \in Batches
               PROVE  batch'[b].total =
                        SumFunctionOnSet([i \in Intakes |-> intake'[i].net],
                                         {i \in Intakes : intake'[i].batch = b})
  BY DEF TotalsKept, NetWeight, Lot
<1> DEFINE lot == {i \in Intakes : intake'[i].batch = b}
           new == [i \in Intakes |-> intake'[i].net]
<1>2. batch[b].total = NetWeight(Lot(b)) /\ Lot(b) \in SUBSET Intakes
  BY DEF TotalsKept, Lot
<1>3. batch \in [Batches -> BatchRow] /\ intake \in [Intakes -> IntakeRow]
  BY DEF Known, MarketTypeOK, BatchRow, IntakeRow
<1>4. ASSUME batch'[b].total = batch[b].total, \A i \in Intakes : intake'[i].batch = intake[i].batch,
             \A i \in Lot(b) : intake'[i].net = intake[i].net
      PROVE  batch'[b].total = SumFunctionOnSet(new, lot)
  <2>1. lot = Lot(b)
    BY <1>4 DEF Lot
  <2>2. SumFunctionOnSet(new, Lot(b)) = NetWeight(Lot(b))
    BY <1>2, <1>4, WeightKept
  <2> HIDE DEF new, lot
  <2>3. QED
    BY <1>2, <1>4, <2>1, <2>2
<1>5. ASSUME NEW a \in Batches, NEW items \in SUBSET Intakes, AddIntakes(a, items)
      PROVE  batch'[b].total = SumFunctionOnSet(new, lot)
  <2>1. \A i \in Intakes : intake'[i].net = intake[i].net
    <3> SUFFICES ASSUME NEW i \in Intakes PROVE intake'[i].net = intake[i].net
      OBVIOUS
    <3>1. CASE i \in items
      <4> DEFINE row == [intake[i] EXCEPT !.status = "batched", !.batch = a]
      <4>1. intake'[i] = row
        BY <1>5, <3>1 DEF AddIntakes
      <4>2. row.net = intake[i].net
        BY <1>3 DEF IntakeRow
      <4>3. QED
        BY <4>1, <4>2
    <3>2. CASE i \notin items
      BY <1>5, <3>2 DEF AddIntakes
    <3>3. QED
      BY <3>1, <3>2
  <2>2. \A i \in Intakes : intake'[i].batch = IF i \in items THEN a ELSE intake[i].batch
    <3> SUFFICES ASSUME NEW i \in Intakes
                 PROVE  intake'[i].batch = IF i \in items THEN a ELSE intake[i].batch
      OBVIOUS
    <3>1. CASE i \in items
      <4> DEFINE row == [intake[i] EXCEPT !.status = "batched", !.batch = a]
      <4>1. intake'[i] = row
        BY <1>5, <3>1 DEF AddIntakes
      <4>2. row.batch = a
        BY <1>3 DEF IntakeRow
      <4>3. QED
        BY <3>1, <4>1, <4>2
    <3>2. CASE i \notin items
      BY <1>5, <3>2 DEF AddIntakes
    <3>3. QED
      BY <3>1, <3>2
  <2>3. items \cap Lot(b) = {}
    BY <1>5, RowsAssumption DEF AddIntakes, Lot, Known, IntakesKnown
  <2>4. CASE a # b
    <3>1. batch'[b].total = batch[b].total
      BY <1>3, <1>5, <2>4 DEF AddIntakes
    <3>2. lot = Lot(b)
      BY <2>2, <2>3, <2>4 DEF Lot
    <3>3. SumFunctionOnSet(new, Lot(b)) = NetWeight(Lot(b))
      BY <1>2, <2>1, WeightKept
    <3> HIDE DEF new, lot
    <3>4. QED
      BY <1>2, <3>1, <3>2, <3>3
  <2>5. CASE a = b
    <3>1. lot = Lot(b) \cup items
      BY <2>2, <2>5 DEF Lot
    <3>2. batch'[b].total = batch[b].total + NetWeight(items)
      <4> DEFINE row == [batch[b] EXCEPT !.total = batch[b].total + NetWeight(items)]
      <4>1. row.total = batch[b].total + NetWeight(items)
        BY <1>3 DEF BatchRow
      <4>2. batch' = [batch EXCEPT ![b] = row]
        BY <1>5, <2>5 DEF AddIntakes
      <4>3. batch'[b] = row
        BY <1>3, <4>2
      <4> HIDE DEF row
      <4>4. QED
        BY <4>1, <4>3
    <3>3. SumFunctionOnSet(new, Lot(b)) = NetWeight(Lot(b)) /\ SumFunctionOnSet(new, items) = NetWeight(items)
      BY <1>2, <2>1, WeightKept
    <3>4. SumFunctionOnSet(new, Lot(b) \cup items) = SumFunctionOnSet(new, Lot(b)) + SumFunctionOnSet(new, items)
      <4>1. \A i \in Lot(b) \cup items : new[i] \in Int
        BY <1>3, <2>1 DEF Lot, IntakeRow
      <4>2. IsFiniteSet(Lot(b)) /\ IsFiniteSet(items) /\ Lot(b) \cap items = {}
        BY <1>2, <2>3, IntakesAssumption, FS_Subset
      <4> HIDE DEF new
      <4>3. QED
        BY <4>1, <4>2, SumUnion
    <3> HIDE DEF new, lot
    <3>5. QED
      BY <1>2, <3>1, <3>2, <3>3, <3>4
  <2>6. QED
    BY <2>4, <2>5
<1>6. ASSUME NEW i \in Intakes,
             \/ \E q \in Quantities : CreateIntake(i, q) \/ AcceptIntake(i, q)
             \/ RejectIntake(i) \/ CancelIntake(i)
      PROVE  batch'[b].total = SumFunctionOnSet(new, lot)
  <2>1. batch' = batch /\ intake[i].status \in {"none", "received"}
    BY <1>6 DEF CreateIntake, AcceptIntake, RejectIntake, CancelIntake
  <2>2. i \notin Lot(b)
    BY <2>1, RowsAssumption DEF Known, IntakesKnown, Lot
  <2>3. \A j \in Intakes : intake'[j].batch = intake[j].batch
    BY <1>3, <1>6 DEF CreateIntake, AcceptIntake, RejectIntake, CancelIntake, IntakeRow
  <2>4. \A j \in Intakes \ {i} : intake'[j] = intake[j]
    BY <1>3, <1>6 DEF CreateIntake, AcceptIntake, RejectIntake, CancelIntake
  <2>5. \A j \in Lot(b) : intake'[j].net = intake[j].net
    BY <1>2, <2>2, <2>4
  <2> HIDE DEF new, lot
  <2>6. QED
    BY <1>4, <2>1, <2>3, <2>5
<1>7. ASSUME intake' = intake, batch' = batch \/ \E a \in Batches, st \in BatchStatus :
                                 batch' = [batch EXCEPT ![a].status = st]
      PROVE  batch'[b].total = SumFunctionOnSet(new, lot)
  <2>1. batch'[b].total = batch[b].total
    BY <1>3, <1>7 DEF BatchRow
  <2> HIDE DEF new, lot
  <2>2. QED
    BY <1>4, <1>7, <2>1
<1>8. ASSUME NEW a \in Batches, CreateBatch(a) \/ CloseBatch(a) \/ ConfirmSale(a)
      PROVE  intake' = intake /\ \E st \in BatchStatus : batch' = [batch EXCEPT ![a].status = st]
  BY <1>8 DEF CreateBatch, CloseBatch, ConfirmSale, BatchStatus
<1>9. ASSUME UNCHANGED <<intake, batch>> PROVE batch'[b].total = SumFunctionOnSet(new, lot)
  <2> HIDE DEF new, lot
  <2>1. QED
    BY <1>7, <1>9
<1> HIDE DEF new, lot
<1>10. batch'[b].total = SumFunctionOnSet(new, lot)
  <2>1. CASE \E i \in Intakes : \/ \E q \in Quantities : CreateIntake(i, q) \/ AcceptIntake(i, q)
                                \/ RejectIntake(i) \/ CancelIntake(i)
    BY <1>6, <2>1
  <2>2. CASE \E a \in Batches : \E items \in SUBSET Intakes : AddIntakes(a, items)
    BY <1>5, <2>2
  <2>3. CASE \E a \in Batches : CreateBatch(a) \/ CloseBatch(a) \/ ConfirmSale(a)
    BY <1>7, <1>8, <2>3
  <2>4. CASE UNCHANGED <<intake, batch>>
    BY <1>9, <2>4
  <2>5. QED
    BY <2>1, <2>2, <2>3, <2>4
       DEF MarketNext, marketVars, CreateSale, SettleSale, SubmitSettlement, PayoutCompletes, ApproveSettlement,
           Calculate, VerifyReceipt, RejectReceipt, SubmitReceipt
<1>11. QED
  BY <1>10 DEF new, lot

-----------------------------------------------------------------------------
(* Funds *)

\* What a buyer has paid is a natural number: the verified receipts' amounts.
LEMMA VerifiedIsNat ==
  ASSUME Known, NEW b \in Batches
  PROVE  Verified(b) \in Nat
<1> DEFINE of == [c \in Receipts |-> receipt[c].amount]
<1>1. IsFiniteSet(Paid(b)) /\ \A c \in Paid(b) : of[c] \in Nat
  BY RowsAssumption, FS_Subset DEF Paid, Known, MarketTypeOK
<1> HIDE DEF of
<1>2. SumFunctionOnSet(of, Paid(b)) \in Nat
  BY <1>1, SumNat
<1>3. QED
  BY <1>2 DEF of, Verified, Paid

\* Before its sale is confirmed nobody has paid for a batch.
LEMMA NothingPaid ==
  ASSUME Known, NEW b \in Batches, sale[b].status \in {"none", "draft"}
  PROVE  Verified(b) = 0
<1>1. Paid(b) = {}
  BY DEF Paid, Known, ReceiptsKnown
<1>2. SumFunctionOnSet([c \in Receipts |-> receipt[c].amount], {}) = 0
  <2> DEFINE of == [c \in Receipts |-> receipt[c].amount]
  <2>1. IsFiniteSet({})
    BY FS_EmptySet
  <2> HIDE DEF of
  <2>2. SumFunctionOnSet(of, {}) = 0
    BY <2>1, SumUnfolds
  <2>3. QED
    BY <2>2 DEF of
<1>3. QED
  BY <1>1, <1>2 DEF Verified, Paid

\* A receipt that is not verified adds nothing, whatever becomes of its row.
LEMMA VerifiedKept ==
  ASSUME Known, NEW b \in Batches, NEW c \in Receipts,
         receipt' \in [Receipts -> ReceiptRow],
         \A d \in Receipts \ {c} : receipt'[d] = receipt[d],
         receipt[c].status # "verified" \/ receipt[c].sale # b,
         receipt'[c].status # "verified" \/ receipt'[c].sale # b
  PROVE  Verified(b)' = Verified(b)
<1> DEFINE old == [d \in Receipts |-> receipt[d].amount]
           new == [d \in Receipts |-> receipt'[d].amount]
           paid == {d \in Receipts : receipt'[d].sale = b /\ receipt'[d].status = "verified"}
<1>1. paid = Paid(b) /\ c \notin Paid(b) /\ Paid(b) \subseteq Receipts
  BY DEF Paid
<1>2. IsFiniteSet(Paid(b)) /\ \A d \in Paid(b) : new[d] = old[d]
  BY <1>1, RowsAssumption, FS_Subset
<1> HIDE DEF old, new
<1>3. SumFunctionOnSet(new, Paid(b)) = SumFunctionOnSet(old, Paid(b))
  BY <1>2, SumCongruence
<1>4. SumFunctionOnSet(new, paid) = SumFunctionOnSet(old, Paid(b))
  BY <1>1, <1>3
<1>5. QED
  BY <1>4 DEF old, new, Verified, Paid

\* A receipt that is verified adds its amount to its sale's funds.
LEMMA VerifiedGrows ==
  ASSUME Known, NEW c \in Receipts, NEW actor \in Actors, VerifyReceipt(c, actor),
         NEW b \in Batches, b = receipt[c].sale
  PROVE  Verified(b)' = Verified(b) + receipt[c].amount
<1> DEFINE old == [d \in Receipts |-> receipt[d].amount]
           new == [d \in Receipts |-> receipt'[d].amount]
           paid == {d \in Receipts : receipt'[d].sale = b /\ receipt'[d].status = "verified"}
           row == [receipt[c] EXCEPT !.status = "verified"]
<1>1. receipt \in [Receipts -> ReceiptRow] /\ receipt[c].status = "pending"
      /\ receipt' = [receipt EXCEPT ![c] = row]
  BY DEF Known, MarketTypeOK, ReceiptRow, VerifyReceipt, MayDecide
<1>2. row.status = "verified" /\ row.amount = receipt[c].amount /\ row.sale = b
  BY <1>1 DEF ReceiptRow
<1>3. receipt'[c] = row /\ \A d \in Receipts \ {c} : receipt'[d] = receipt[d]
  BY <1>1
<1>4. new = old
  <2> HIDE DEF row
  <2>1. \A d \in Receipts : receipt'[d].amount = receipt[d].amount
    BY <1>2, <1>3
  <2>2. QED
    BY <2>1
<1>5. paid \ {c} = Paid(b) /\ c \in paid
  <2> HIDE DEF row
  <2>1. QED
    BY <1>1, <1>2, <1>3 DEF Paid
<1>6. IsFiniteSet(paid) /\ \A d \in paid : old[d] \in Int
  <2>1. \A d \in Receipts : old[d] \in Int
    BY <1>1 DEF ReceiptRow
  <2>2. IsFiniteSet(paid) /\ paid \subseteq Receipts
    BY RowsAssumption, FS_Subset
  <2> HIDE DEF paid, old
  <2>3. QED
    BY <2>1, <2>2
<1>7. SumFunctionOnSet(old, paid) = old[c] + SumFunctionOnSet(old, Paid(b))
  <2>1. \A x \in paid : SumFunctionOnSet(old, paid) = old[x] + SumFunctionOnSet(old, paid \ {x})
    <3> HIDE DEF paid, old
    <3>1. QED
      BY <1>6, SumSplit
  <2> HIDE DEF paid, old
  <2>2. QED
    BY <1>5, <2>1
<1>8. old[c] = receipt[c].amount
  OBVIOUS
<1>9. Verified(b) = SumFunctionOnSet(old, Paid(b))
  BY DEF Verified, Paid
<1>10. Verified(b)' = SumFunctionOnSet(new, paid)
  BY DEF Verified
<1>11. Verified(b) \in Nat /\ receipt[c].amount \in Nat
  BY <1>1, VerifiedIsNat DEF ReceiptRow
<1> HIDE DEF old, new, paid
<1>12. QED
  BY <1>4, <1>7, <1>8, <1>9, <1>10, <1>11

\* The buyer's funds stay within the price, and whoever relies on the whole
\* price relies on it being there.
LEMMA FundsStep ==
  ASSUME Known, FundsCoverSale, [MarketNext]_marketVars
  PROVE  FundsCoverSale'
<1>1. sale \in [Batches -> SaleRow] /\ receipt \in [Receipts -> ReceiptRow] /\ run \in [Batches -> RunRow]
      /\ \A b \in Batches : Verified(b) \in Nat
  BY VerifiedIsNat DEF Known, MarketTypeOK, SaleRow, ReceiptRow, RunRow
<1> DEFINE Covers(b) ==
             /\ Verified(b) <= sale[b].amount
             /\ sale[b].status \in {"funded", "settled"} \/ run[b].status # "none"
                  => Verified(b) = sale[b].amount
             /\ sale[b].status = "confirmed" => Verified(b) < sale[b].amount \/ sale[b].amount = 0
<1>2. \A b \in Batches : Covers(b)
  BY DEF FundsCoverSale
<1>3. SUFFICES ASSUME NEW b \in Batches PROVE Covers(b)'
  BY DEF FundsCoverSale
<1>4. ASSUME UNCHANGED <<sale, receipt, run>> PROVE Covers(b)'
  BY <1>2, <1>4 DEF Verified
<1>5. ASSUME NEW a \in Batches, NEW q \in Quantities, NEW price \in Prices, CreateSale(a, q, price)
      PROVE  Covers(b)'
  <2>1. Verified(b)' = Verified(b) /\ run' = run
    BY <1>5 DEF CreateSale, Verified
  <2>2. CASE b = a
    <3> DEFINE row == [status |-> "draft", quantity |-> q, amount |-> RoundHalfUp(q * price, Scale)]
    <3>1. sale'[b] = row /\ sale[b].status = "none"
      BY <1>1, <1>5, <2>2 DEF CreateSale
    <3>2. row.status = "draft" /\ row.amount \in Nat
      <4>1. q * price \in Nat
        BY QuantitiesAssumption, PricesAssumption, ProductIsNat
      <4>2. RoundHalfUp(q * price, Scale) \in Nat
        BY <4>1, HalfUpIsNat, PricesAssumption
      <4>3. QED
        BY <4>2
    <3> HIDE DEF row
    <3>3. Verified(b) = 0
      BY <3>1, NothingPaid
    <3>4. run[b].status = "none"
      BY <3>1 DEF Known, SalesKnown
    <3>5. QED
      BY <2>1, <3>1, <3>2, <3>3, <3>4
  <2>3. CASE b # a
    <3>1. sale'[b] = sale[b]
      BY <1>1, <1>5, <2>3 DEF CreateSale
    <3>2. QED
      BY <1>2, <2>1, <3>1
  <2>4. QED
    BY <2>2, <2>3
<1>6. ASSUME NEW a \in Batches, ConfirmSale(a) \/ SettleSale(a)
      PROVE  Covers(b)'
  <2>1. Verified(b)' = Verified(b) /\ run' = run
    BY <1>6 DEF ConfirmSale, SettleSale, Verified
  <2>2. CASE b # a
    <3>1. sale'[b] = sale[b]
      BY <1>1, <1>6, <2>2 DEF ConfirmSale, SettleSale
    <3>2. QED
      BY <1>2, <2>1, <3>1
  <2>3. CASE b = a /\ ConfirmSale(a)
    <3>1. sale'[b].status = "confirmed" /\ sale'[b].amount = sale[b].amount /\ sale[b].status = "draft"
      BY <1>1, <2>3 DEF ConfirmSale, SaleRow
    <3>2. Verified(b) = 0 /\ sale[b].amount \in Nat
      BY <1>1, <3>1, NothingPaid DEF SaleRow
    <3>3. run[b].status = "none"
      BY <3>1 DEF Known, SalesKnown
    <3>4. QED
      BY <2>1, <3>1, <3>2, <3>3
  <2>4. CASE b = a /\ SettleSale(a)
    <3>1. sale'[b].status = "settled" /\ sale'[b].amount = sale[b].amount
      BY <1>1, <2>4 DEF SettleSale, SaleRow
    <3>2. run[b].status # "none"
      BY <2>4 DEF SettleSale, Known, SalesKnown
    <3>3. QED
      BY <1>2, <2>1, <3>1, <3>2
  <2>5. QED
    BY <1>6, <2>2, <2>3, <2>4
<1>7. ASSUME NEW c \in Receipts, NEW a \in Batches, NEW amount \in Amounts, NEW actor \in Actors,
             SubmitReceipt(c, a, amount, actor)
      PROVE  Covers(b)'
  <2> DEFINE row == [status |-> "pending", sale |-> a, amount |-> amount, by |-> actor]
  <2>1. receipt' = [receipt EXCEPT ![c] = row] /\ receipt[c].status = "none" /\ UNCHANGED <<sale, run>>
    BY <1>7 DEF SubmitReceipt
  <2>2. row \in ReceiptRow /\ row.status = "pending"
    BY QuantitiesAssumption DEF ReceiptRow, ReceiptStatus
  <2> HIDE DEF row
  <2>3. receipt' \in [Receipts -> ReceiptRow] /\ receipt'[c] = row
        /\ \A d \in Receipts \ {c} : receipt'[d] = receipt[d]
    BY <1>1, <2>1, <2>2
  <2>4. Verified(b)' = Verified(b)
    BY <2>1, <2>2, <2>3, VerifiedKept
  <2>5. QED
    BY <1>2, <2>1, <2>4
<1>8. ASSUME NEW c \in Receipts, NEW actor \in Actors, RejectReceipt(c, actor)
      PROVE  Covers(b)'
  <2> DEFINE row == [receipt[c] EXCEPT !.status = "rejected"]
  <2>1. receipt' = [receipt EXCEPT ![c] = row] /\ receipt[c].status = "pending" /\ UNCHANGED <<sale, run>>
    BY <1>8 DEF RejectReceipt, MayDecide
  <2>2. row \in ReceiptRow /\ row.status = "rejected"
    BY <1>1 DEF ReceiptRow, ReceiptStatus
  <2> HIDE DEF row
  <2>3. receipt' \in [Receipts -> ReceiptRow] /\ receipt'[c] = row
        /\ \A d \in Receipts \ {c} : receipt'[d] = receipt[d]
    BY <1>1, <2>1, <2>2
  <2>4. Verified(b)' = Verified(b)
    BY <2>1, <2>2, <2>3, VerifiedKept
  <2>5. QED
    BY <1>2, <2>1, <2>4
<1>9. ASSUME NEW c \in Receipts, NEW actor \in Actors, VerifyReceipt(c, actor)
      PROVE  Covers(b)'
  <2> DEFINE row == [receipt[c] EXCEPT !.status = "verified"]
             funds == Verified(receipt[c].sale) + receipt[c].amount
  <2>1. receipt' = [receipt EXCEPT ![c] = row] /\ receipt[c].status = "pending" /\ run' = run
    BY <1>9 DEF VerifyReceipt, MayDecide
  <2>2. row \in ReceiptRow /\ row.sale = receipt[c].sale
    BY <1>1 DEF ReceiptRow, ReceiptStatus
  <2> HIDE DEF row
  <2>3. receipt' \in [Receipts -> ReceiptRow] /\ receipt'[c] = row
        /\ \A d \in Receipts \ {c} : receipt'[d] = receipt[d]
    BY <1>1, <2>1, <2>2
  <2>4. receipt[c].sale \in Batches /\ receipt[c].amount >= 1 /\ receipt[c].amount \in Nat
    BY <1>1, <2>1 DEF Known, ReceiptsKnown, ReceiptRow
  <2>5. CASE b # receipt[c].sale
    <3>1. Verified(b)' = Verified(b)
      BY <2>1, <2>2, <2>3, <2>5, VerifiedKept
    <3>2. sale'[b] = sale[b]
      BY <1>1, <1>9, <2>5 DEF VerifyReceipt
    <3>3. QED
      BY <1>2, <2>1, <3>1, <3>2
  <2>6. CASE b = receipt[c].sale
    <3>1. Verified(b)' = Verified(b) + receipt[c].amount
      BY <1>9, <2>6, VerifiedGrows
    <3>2. funds <= sale[b].amount /\ funds = Verified(b) + receipt[c].amount
      BY <1>9, <2>6 DEF VerifyReceipt
    <3>3. Verified(b) < sale[b].amount /\ sale[b].amount \in Nat /\ Verified(b) \in Nat
      BY <1>1, <2>4, <3>2 DEF SaleRow
    <3>4. sale[b].status = "confirmed" /\ run[b].status = "none"
      BY <1>2, <2>1, <2>6, <3>3 DEF Known, ReceiptsKnown
    <3>5. CASE funds = sale[b].amount
      <4>1. sale'[b].status = "funded" /\ sale'[b].amount = sale[b].amount
        BY <1>1, <1>9, <2>6, <3>5 DEF VerifyReceipt, SaleRow
      <4>2. QED
        BY <2>1, <3>1, <3>2, <3>3, <3>5, <4>1
    <3>6. CASE funds # sale[b].amount
      <4>1. sale' = sale
        BY <1>9, <2>6, <3>6 DEF VerifyReceipt
      <4>2. QED
        BY <2>1, <2>4, <3>1, <3>2, <3>3, <3>4, <3>6, <4>1
    <3>7. QED
      BY <3>5, <3>6
  <2>7. QED
    BY <2>5, <2>6
<1>10. ASSUME NEW a \in Batches, NEW config \in Configs, NEW actor \in Actors, Calculate(a, config, actor)
       PROVE  Covers(b)'
  <2>1. Verified(b)' = Verified(b) /\ sale' = sale
    BY <1>10 DEF Calculate, Verified
  <2>2. CASE b # a
    <3>1. run'[b] = run[b]
      BY <1>1, <1>10, <2>2 DEF Calculate
    <3>2. QED
      BY <1>2, <2>1, <3>1
  <2>3. CASE b = a
    <3>1. Verified(b) = sale[b].amount
      <4>1. Verified(b) >= sale[b].amount /\ Verified(b) <= sale[b].amount
            /\ sale[b].amount \in Nat /\ Verified(b) \in Nat
        BY <1>1, <1>2, <1>10, <2>3 DEF Calculate, SaleRow
      <4>2. QED
        BY <4>1
    <3>2. sale[b].status = "confirmed" => sale[b].amount = 0
      BY <1>1, <1>2, <3>1 DEF SaleRow
    <3>3. sale[b].amount \in Nat
      BY <1>1 DEF SaleRow
    <3>4. QED
      BY <2>1, <3>1, <3>2, <3>3
  <2>4. QED
    BY <2>2, <2>3
<1>11. ASSUME NEW a \in Batches,
              \/ SubmitSettlement(a) \/ PayoutCompletes(a)
              \/ \E actor \in Actors : ApproveSettlement(a, actor)
       PROVE  Covers(b)'
  <2>1. Verified(b)' = Verified(b) /\ sale' = sale
    BY <1>11 DEF SubmitSettlement, PayoutCompletes, ApproveSettlement, Verified
  <2>2. run'[b].status # "none" => run[b].status # "none"
    BY <1>1, <1>11 DEF SubmitSettlement, PayoutCompletes, ApproveSettlement, RunRow
  <2>3. QED
    BY <1>2, <2>1, <2>2
<1> HIDE DEF Covers
<1>12. CASE MarketNext
  <2>1. CASE \E i \in Intakes : \/ \E q \in Quantities : CreateIntake(i, q) \/ AcceptIntake(i, q)
                                \/ RejectIntake(i) \/ CancelIntake(i)
    BY <1>4, <2>1 DEF CreateIntake, AcceptIntake, RejectIntake, CancelIntake
  <2>2. CASE \E a \in Batches : \/ CreateBatch(a) \/ CloseBatch(a)
                                \/ \E items \in SUBSET Intakes : AddIntakes(a, items)
    BY <1>4, <2>2 DEF CreateBatch, CloseBatch, AddIntakes
  <2>3. QED
    BY <1>5, <1>6, <1>7, <1>8, <1>9, <1>10, <1>11, <1>12, <2>1, <2>2 DEF MarketNext
<1>13. CASE UNCHANGED marketVars
  BY <1>4, <1>13 DEF marketVars
<1>14. QED
  BY <1>12, <1>13

-----------------------------------------------------------------------------
(* Lines *)

\* A calculation writes lines for the members with deliveries in the batch, and
\* they divide the sale exactly.
LEMMA CalculateStep ==
  ASSUME Known, TotalsKept, LinesExact,
         NEW b \in Batches, NEW config \in Configs, NEW actor \in Actors, Calculate(b, config, actor)
  PROVE  Known' /\ LinesExact'
<1>1. sale \in [Batches -> SaleRow] /\ batch \in [Batches -> BatchRow]
      /\ receipt \in [Receipts -> ReceiptRow] /\ run \in [Batches -> RunRow] /\ done \subseteq Batches
      /\ lines = [a \in Batches |-> lines[a]]
  BY DEF Known, MarketTypeOK, SaleRow, BatchRow, ReceiptRow, RunRow
<1> DEFINE of == SettlementLines(sale[b].quantity, sale[b].amount, Weights(b), config, Owed)
           D == Payees(b)
           row == [status |-> "draft", calculator |-> actor]
<1>2. /\ UNCHANGED <<intake, batch, sale, receipt, done>>
      /\ sale[b].status \in {"confirmed", "funded"}
      /\ lines' = [lines EXCEPT ![b] = of] /\ run' = [run EXCEPT ![b] = row]
  BY DEF Calculate
<1>3. D \subseteq Members /\ Members \subseteq Nat /\ IsFiniteSet(D) /\ D # {}
      /\ Weights(b) \in [D -> Nat] /\ SumFunction(Weights(b)) # 0
  BY <1>2, WeightsKnown
<1>4. /\ config.fee \in Nat /\ config.transport \in Nat /\ config.quality \in Nat
      /\ config.manual \in [Members -> Nat] /\ Owed \in [Members -> Nat]
  BY ConfigsAssumption, OwedAssumption
<1>5. sale[b].quantity \in Nat /\ sale[b].amount \in Nat
  BY <1>1 DEF SaleRow
<1>6. /\ of \in [D -> LineOfRun]
      /\ SumFunction([m \in D |-> of[m].gross]) = sale[b].amount
      /\ SumFunction([m \in D |-> of[m].quantity]) = sale[b].quantity
      /\ \A m \in D : /\ of[m].gross = of[m].charges + of[m].loan + of[m].net
                      /\ of[m].loan \in {0, Owed[m]}
  <2> HIDE DEF D
  <2> DEFINE s == sale[b].quantity
             p == sale[b].amount
             w == Weights(b)
  <2>1. D \in SUBSET Nat /\ IsFiniteSet(D) /\ D # {} /\ D \subseteq Members
        /\ w \in [D -> Nat] /\ SumFunction(w) # 0 /\ s \in Nat /\ p \in Nat
    BY <1>3, <1>5
  <2> DEFINE ol == SettlementLines(s, p, w, config, Owed)
  <2>2. /\ ol \in [D -> [quantity : Int, gross : Nat, charges : Nat, loan : Nat, net : Nat]]
        /\ SumFunction([m \in D |-> ol[m].gross]) = p
        /\ SumFunction([m \in D |-> ol[m].quantity]) = s
        /\ \A m \in D : /\ ol[m].gross = ol[m].charges + ol[m].loan + ol[m].net
                        /\ ol[m].loan \in {0, Owed[m]}
    <3> HIDE DEF s, p, w, row, of
    <3>1. QED
      BY <1>4, <2>1, LinesOfSale
  <2>3. ol = of
    OBVIOUS
  <2> HIDE DEF ol, of
  <2>4. QED
    BY <2>2, <2>3 DEF LineOfRun
<1> HIDE DEF of, D
<1>7. /\ lines' = [a \in Batches |-> lines'[a]] /\ lines'[b] = of
      /\ \A a \in Batches \ {b} : lines'[a] = lines[a]
  BY <1>1, <1>2
<1>8. run' \in [Batches -> RunRow] /\ \A a \in Batches \ {b} : run'[a] = run[a]
  <2>1. row \in RunRow
    BY DEF RunRow, RunStatus
  <2> HIDE DEF row
  <2>2. QED
    BY <1>1, <1>2, <2>1
<1>9. ASSUME NEW a \in Batches
      PROVE  DOMAIN lines'[a] \subseteq Members /\ \A m \in DOMAIN lines'[a] : lines'[a][m] \in LineOfRun
  <2>1. CASE a = b
    BY <1>3, <1>6, <1>7, <2>1
  <2>2. CASE a # b
    BY <1>7, <2>2 DEF Known, MarketTypeOK
  <2>3. QED
    BY <2>1, <2>2
<1>10. MarketTypeOK'
  <2>1. /\ intake' \in [Intakes -> IntakeRow] /\ batch' \in [Batches -> BatchRow]
        /\ sale' \in [Batches -> SaleRow] /\ receipt' \in [Receipts -> ReceiptRow]
        /\ done' \subseteq Batches
    BY <1>1, <1>2 DEF Known, MarketTypeOK, IntakeRow
  <2>2. QED
    BY <1>8, <1>9, <2>1 DEF MarketTypeOK, IntakeRow, BatchRow, SaleRow, ReceiptRow, RunRow
<1>11. SalesKnown'
  <2> SUFFICES ASSUME NEW a \in Batches
               PROVE  /\ sale[a].quantity <= batch[a].total
                      /\ sale[a].status # "none" => sale[a].quantity >= 1
                      /\ run'[a].status # "none" => sale[a].status \in {"confirmed", "funded", "settled"}
                      /\ a \in done => run'[a].status # "none"
    BY <1>2 DEF SalesKnown
  <2>1. CASE a = b
    <3>1. run'[b] = row /\ row.status # "none"
      BY <1>1, <1>2
    <3>2. QED
      BY <1>2, <2>1, <3>1 DEF Known, SalesKnown
  <2>2. CASE a # b
    BY <1>8, <2>2 DEF Known, SalesKnown
  <2>3. QED
    BY <2>1, <2>2
<1>12. IntakesKnown' /\ ReceiptsKnown'
  BY <1>2 DEF Known, IntakesKnown, ReceiptsKnown
<1>13. LinesExact'
  <2> SUFFICES ASSUME NEW a \in Batches, run'[a].status # "none"
               PROVE  /\ SumFunction([m \in DOMAIN lines'[a] |-> lines'[a][m].gross]) = sale[a].amount
                      /\ SumFunction([m \in DOMAIN lines'[a] |-> lines'[a][m].quantity]) = sale[a].quantity
                      /\ \A m \in DOMAIN lines'[a] :
                           /\ lines'[a][m].gross = lines'[a][m].charges + lines'[a][m].loan + lines'[a][m].net
                           /\ lines'[a][m].loan \in {0, Owed[m]}
    BY <1>2 DEF LinesExact
  <2>1. CASE a = b
    <3>1. lines'[a] = of /\ DOMAIN of = D
      BY <1>6, <1>7, <2>1
    <3>2. QED
      BY <1>6, <2>1, <3>1
  <2>2. CASE a # b
    <3>1. lines'[a] = lines[a] /\ run'[a] = run[a]
      BY <1>7, <1>8, <2>2
    <3>2. QED
      BY <3>1 DEF LinesExact
  <2>3. QED
    BY <2>1, <2>2
<1>14. QED
  BY <1>7, <1>10, <1>11, <1>12, <1>13 DEF Known

\* Every other step leaves the lines, and the sales they are of, as they are.
LEMMA LinesKept ==
  ASSUME Known, LinesExact, [MarketNext]_marketVars,
         ~\E b \in Batches, config \in Configs, actor \in Actors : Calculate(b, config, actor)
  PROVE  LinesExact'
<1>1. sale \in [Batches -> SaleRow] /\ run \in [Batches -> RunRow]
  BY DEF Known, MarketTypeOK, SaleRow, RunRow
<1>2. lines' = lines
  BY DEF MarketNext, marketVars, CreateIntake, AcceptIntake, RejectIntake, CancelIntake, CreateBatch, CloseBatch,
         AddIntakes, CreateSale, ConfirmSale, SettleSale, SubmitReceipt, VerifyReceipt, RejectReceipt,
         SubmitSettlement, ApproveSettlement, PayoutCompletes
<1>3. SUFFICES ASSUME NEW b \in Batches, run'[b].status # "none"
               PROVE  /\ run[b].status # "none"
                      /\ sale'[b].amount = sale[b].amount /\ sale'[b].quantity = sale[b].quantity
  BY <1>2 DEF LinesExact
<1>4. run[b].status # "none"
  <2>1. CASE run' = run
    BY <1>3, <2>1
  <2>2. CASE \E a \in Batches : \/ SubmitSettlement(a) \/ PayoutCompletes(a)
                                \/ \E actor \in Actors : ApproveSettlement(a, actor)
    BY <1>1, <1>3, <2>2 DEF SubmitSettlement, PayoutCompletes, ApproveSettlement, RunRow
  <2>3. QED
    BY <2>1, <2>2
       DEF MarketNext, marketVars, CreateIntake, AcceptIntake, RejectIntake, CancelIntake, CreateBatch, CloseBatch,
           AddIntakes, CreateSale, ConfirmSale, SettleSale, SubmitReceipt, VerifyReceipt, RejectReceipt
<1>5. sale[b].status # "none"
  BY <1>4 DEF Known, SalesKnown
<1>6. sale'[b].amount = sale[b].amount /\ sale'[b].quantity = sale[b].quantity
  <2>1. CASE sale' = sale
    BY <2>1
  <2>2. CASE \E a \in Batches, q \in Quantities, price \in Prices : CreateSale(a, q, price)
    BY <1>1, <1>5, <2>2 DEF CreateSale
  <2>3. CASE \E a \in Batches : ConfirmSale(a) \/ SettleSale(a)
    BY <1>1, <2>3 DEF ConfirmSale, SettleSale, SaleRow
  <2>4. CASE \E c \in Receipts, actor \in Actors : VerifyReceipt(c, actor)
    BY <1>1, <2>4 DEF VerifyReceipt, SaleRow
  <2>5. QED
    BY <2>1, <2>2, <2>3, <2>4
       DEF MarketNext, marketVars, CreateIntake, AcceptIntake, RejectIntake, CancelIntake, CreateBatch, CloseBatch,
           AddIntakes, SubmitReceipt, RejectReceipt, SubmitSettlement, ApproveSettlement, PayoutCompletes
<1>7. QED
  BY <1>4, <1>6

-----------------------------------------------------------------------------
(* The theorems *)

Exact == Known /\ TotalsKept /\ FundsCoverSale /\ LinesExact

\* An empty market satisfies all of it.
LEMMA InitExact == MarketInit => Exact
<1> SUFFICES ASSUME MarketInit PROVE Exact
  OBVIOUS
<1>1. MarketTypeOK /\ lines = [b \in Batches |-> lines[b]]
  BY DEF MarketInit, MarketTypeOK, NoRun, NoLines, IntakeStatus, BatchStatus, SaleStatus, ReceiptStatus, RunStatus
<1>2. IntakesKnown /\ SalesKnown /\ ReceiptsKnown
  BY DEF MarketInit, IntakesKnown, SalesKnown, ReceiptsKnown, NoRun
<1>3. Known
  BY <1>1, <1>2 DEF Known
<1>4. TotalsKept
  <2> SUFFICES ASSUME NEW b \in Batches PROVE NetWeight(Lot(b)) = 0
    BY DEF TotalsKept, MarketInit
  <2>1. Lot(b) = {}
    BY RowsAssumption DEF Lot, MarketInit
  <2> DEFINE net == [i \in Intakes |-> intake[i].net]
  <2>2. SumFunctionOnSet(net, {}) = 0
    <3>1. IsFiniteSet({})
      BY FS_EmptySet
    <3> HIDE DEF net
    <3>2. QED
      BY <3>1, SumUnfolds
  <2>3. QED
    BY <2>1, <2>2 DEF NetWeight
<1>5. FundsCoverSale
  <2> SUFFICES ASSUME NEW b \in Batches PROVE Verified(b) = 0 /\ sale[b] = [status |-> "none", quantity |-> 0, amount |-> 0] /\ run[b] = NoRun
    BY DEF FundsCoverSale, NoRun
  <2>1. sale[b] = [status |-> "none", quantity |-> 0, amount |-> 0] /\ run[b] = NoRun
    BY DEF MarketInit
  <2>2. QED
    BY <1>3, <2>1, NothingPaid
<1>6. LinesExact
  BY DEF LinesExact, MarketInit, NoRun
<1>7. QED
  BY <1>3, <1>4, <1>5, <1>6 DEF Exact

\* Every step keeps all of it.
LEMMA ExactStep == Exact /\ [MarketNext]_marketVars => Exact'
<1> SUFFICES ASSUME Known, TotalsKept, FundsCoverSale, LinesExact, [MarketNext]_marketVars PROVE Exact'
  BY DEF Exact
<1>1. TotalsKept'
  BY TotalsStep
<1>2. FundsCoverSale'
  BY FundsStep
<1>3. CASE \E b \in Batches, config \in Configs, actor \in Actors : Calculate(b, config, actor)
  BY <1>1, <1>2, <1>3, CalculateStep DEF Exact
<1>4. CASE ~\E b \in Batches, config \in Configs, actor \in Actors : Calculate(b, config, actor)
  <2>1. LinesExact'
    BY <1>4, LinesKept
  <2>2. Known'
    <3>1. CASE UNCHANGED marketVars
      BY <3>1 DEF marketVars, Known, MarketTypeOK, IntakesKnown, SalesKnown, ReceiptsKnown
    <3>2. CASE MarketNext
      BY <1>4, <3>2, IntakeSteps, BatchSteps, SaleSteps, ReceiptSteps, RunSteps DEF MarketNext
    <3>3. QED
      BY <3>1, <3>2
  <2>3. QED
    BY <1>1, <1>2, <2>1, <2>2 DEF Exact
<1>5. QED
  BY <1>3, <1>4

\* Every row of the market keeps its type and its place in the workflow.
THEOREM MarketKnown == MarketSpec => []Exact
BY InitExact, ExactStep, PTL DEF MarketSpec

\* Weighed produce is counted in one batch and once, and no sale sells more
\* than its batch's deliveries weigh.
THEOREM StockCovered == MarketSpec => []StockCoversSale
<1>1. Exact => StockCoversSale
  <2> SUFFICES ASSUME Exact, NEW b \in Batches
               PROVE  /\ \A i \in Lot(b) : intake[i].status = "batched" /\ intake[i].net <= intake[i].quantity
                      /\ batch[b].total = NetWeight(Lot(b))
                      /\ sale[b].quantity <= NetWeight(Lot(b))
    BY DEF StockCoversSale, Lot
  <2>1. batch[b].total = NetWeight(Lot(b)) /\ sale[b].quantity <= batch[b].total
    BY DEF Exact, Known, SalesKnown, TotalsKept
  <2>2. \A i \in Lot(b) : intake[i].status = "batched" /\ intake[i].net <= intake[i].quantity
    BY RowsAssumption DEF Exact, Known, IntakesKnown, Lot
  <2>3. QED
    BY <2>1, <2>2
<1>2. QED
  BY <1>1, MarketKnown, PTL

\* The buyer is never credited with more than the price, and no run exists for
\* a sale whose whole price is not verified.
THEOREM FundsCovered == MarketSpec => []FundsCoverSale
<1>1. Exact => FundsCoverSale
  BY DEF Exact
<1>2. QED
  BY <1>1, MarketKnown, PTL

\* The lines of every run divide its sale's money and weight exactly, whatever
\* the members, the weights, the price and the charges.
THEOREM LinesAreExact == MarketSpec => []LinesExact
<1>1. Exact => LinesExact
  BY DEF Exact
<1>2. QED
  BY <1>1, MarketKnown, PTL

-----------------------------------------------------------------------------
(* Sums that are compared *)

\* Terms that are no greater have a sum that is no greater.
LEMMA SumMonotone ==
  ASSUME NEW f, NEW g, NEW I, IsFiniteSet(I),
         \A i \in I : f[i] \in Nat /\ g[i] \in Nat /\ f[i] <= g[i]
  PROVE  SumFunctionOnSet(f, I) <= SumFunctionOnSet(g, I)
<1> DEFINE Bad == {T \in SUBSET I : ~(SumFunctionOnSet(f, T) <= SumFunctionOnSet(g, T))}
<1>1. CASE Bad = {}
  BY <1>1
<1>2. CASE Bad # {}
  <2>1. PICK B \in Bad : \A C \in SUBSET B : C # B => C \notin Bad
    <3>1. Bad \in SUBSET (SUBSET I)
      OBVIOUS
    <3> HIDE DEF Bad
    <3>2. QED
      BY <1>2, <3>1, MinimalSubset
  <2>2. IsFiniteSet(B)
    BY FS_Subset
  <2>3. B # {}
    <3>1. SumFunctionOnSet(f, {}) = 0 /\ SumFunctionOnSet(g, {}) = 0
      BY <2>2, SumUnfolds
    <3>2. QED
      BY <3>1
  <2> DEFINE y == CHOOSE x \in B : TRUE
             rest == B \ {y}
  <2>4. y \in B /\ rest \in SUBSET B /\ rest # B
    BY <2>3
  <2>5. SumFunctionOnSet(f, rest) <= SumFunctionOnSet(g, rest)
    BY <2>1, <2>4
  <2>6. /\ SumFunctionOnSet(f, B) = f[y] + SumFunctionOnSet(f, rest)
        /\ SumFunctionOnSet(g, B) = g[y] + SumFunctionOnSet(g, rest)
    BY <2>2, <2>3, SumUnfolds
  <2>7. SumFunctionOnSet(f, rest) \in Nat /\ SumFunctionOnSet(g, rest) \in Nat
    <3>1. IsFiniteSet(rest) /\ \A i \in rest : f[i] \in Nat /\ g[i] \in Nat
      BY <2>2, FS_Subset
    <3> HIDE DEF rest
    <3>2. QED
      BY <3>1, SumNat
  <2>8. f[y] \in Nat /\ g[y] \in Nat /\ f[y] <= g[y]
    BY <2>4
  <2>9. ~(SumFunctionOnSet(f, B) <= SumFunctionOnSet(g, B))
    OBVIOUS
  <2> HIDE DEF y, rest, Bad
  <2>10. QED
    BY <2>5, <2>6, <2>7, <2>8, <2>9
<1>3. QED
  BY <1>1, <1>2

\* A sum over part of a set is no greater than the whole one.
LEMMA SumOfPart ==
  ASSUME NEW f, NEW I, IsFiniteSet(I), \A i \in I : f[i] \in Nat, NEW J \in SUBSET I
  PROVE  SumFunctionOnSet(f, J) <= SumFunctionOnSet(f, I)
<1> DEFINE K == I \ J
<1>1. /\ IsFiniteSet(J) /\ IsFiniteSet(K) /\ J \cap K = {} /\ J \cup K = I
      /\ \A i \in J \cup K : f[i] \in Nat /\ f[i] \in Int
  BY FS_Subset
<1> HIDE DEF K
<1>2. SumFunctionOnSet(f, J \cup K) = SumFunctionOnSet(f, J) + SumFunctionOnSet(f, K)
  BY <1>1, SumUnion
<1>3. SumFunctionOnSet(f, J) \in Nat /\ SumFunctionOnSet(f, K) \in Nat
  BY <1>1, SumNat
<1>4. SumFunctionOnSet(f, I) = SumFunctionOnSet(f, J) + SumFunctionOnSet(f, K)
  BY <1>1, <1>2
<1> QED
  BY <1>3, <1>4

\* Quantities that each fit in a part of their own fit together in the whole.
LEMMA DisjointParts ==
  ASSUME NEW h, NEW I, IsFiniteSet(I), NEW f, NEW D, IsFiniteSet(D), NEW T,
         \A d \in D : f[d] \in Nat,
         \A i \in I : /\ T[i] \in SUBSET D /\ h[i] \in Nat
                      /\ h[i] <= SumFunctionOnSet(f, T[i]),
         \A i \in I : \A j \in I : i # j => T[i] \cap T[j] = {}
  PROVE  SumFunctionOnSet(h, I) <= SumFunctionOnSet(f, D)
<1> DEFINE Part(S) == UNION {T[i] : i \in S}
           Fits(S) == SumFunctionOnSet(h, S) <= SumFunctionOnSet(f, Part(S))
           Bad == {S \in SUBSET I : ~Fits(S)}
<1>1. CASE Bad = {}
  <2>1. Fits(I) /\ Part(I) \in SUBSET D
    BY <1>1
  <2>2. SumFunctionOnSet(f, Part(I)) <= SumFunctionOnSet(f, D)
    <3> DEFINE J == Part(I)
    <3>1. J \in SUBSET D
      BY <2>1
    <3> HIDE DEF J
    <3>2. SumFunctionOnSet(f, J) <= SumFunctionOnSet(f, D)
      BY <3>1, SumOfPart
    <3> QED
      BY <3>2 DEF J
  <2>3. /\ SumFunctionOnSet(h, I) \in Nat /\ SumFunctionOnSet(f, D) \in Nat
        /\ SumFunctionOnSet(f, Part(I)) \in Nat
    <3>1. SumFunctionOnSet(h, I) \in Nat /\ SumFunctionOnSet(f, D) \in Nat
      BY SumNat
    <3>2. IsFiniteSet(Part(I)) /\ \A d \in Part(I) : f[d] \in Nat
      BY <2>1, FS_Subset
    <3> HIDE DEF Part
    <3> QED
      BY <3>1, <3>2, SumNat
  <2> HIDE DEF Part
  <2> QED
    BY <2>1, <2>2, <2>3
<1>2. CASE Bad # {}
  <2>1. PICK B \in Bad : \A C \in SUBSET B : C # B => C \notin Bad
    <3>1. Bad \in SUBSET (SUBSET I)
      OBVIOUS
    <3> HIDE DEF Bad
    <3>2. QED
      BY <1>2, <3>1, MinimalSubset
  <2>2. IsFiniteSet(B) /\ B \in SUBSET I
    BY FS_Subset
  <2>3. B # {}
    <3>1. SumFunctionOnSet(h, {}) = 0 /\ SumFunctionOnSet(f, {}) = 0
      BY <2>2, SumUnfolds
    <3>2. Part({}) = {}
      OBVIOUS
    <3>3. Fits({})
      BY <3>1, <3>2
    <3> HIDE DEF Part, Fits
    <3> QED
      BY <3>3
  <2> DEFINE y == CHOOSE x \in B : TRUE
             rest == B \ {y}
             U == Part(rest)
  <2>4. y \in B /\ rest \in SUBSET B /\ rest # B
    BY <2>3
  <2>5. SumFunctionOnSet(h, rest) <= SumFunctionOnSet(f, U)
    <3>1. rest \in SUBSET I /\ rest \notin Bad
      BY <2>1, <2>2, <2>4
    <3>2. Fits(rest)
      <4> HIDE DEF Fits, rest
      <4> QED
        BY <3>1
    <3> QED
      BY <3>2
  <2>6. SumFunctionOnSet(h, B) = h[y] + SumFunctionOnSet(h, rest)
    BY <2>2, <2>3, SumUnfolds
  <2>7. /\ T[y] \cup U = Part(B) /\ T[y] \cap U = {} /\ T[y] \in SUBSET D /\ U \in SUBSET D
        /\ h[y] \in Nat /\ h[y] <= SumFunctionOnSet(f, T[y])
    <3>1. y \in I /\ \A j \in rest : j \in I /\ j # y
      BY <2>2, <2>4
    <3>2. B = {y} \cup rest
      BY <2>4
    <3>3. T[y] \cap U = {}
      BY <3>1
    <3>4. T[y] \cup U = Part(B)
      <4> HIDE DEF y, rest
      <4> QED
        BY <3>2
    <3>5. T[y] \in SUBSET D /\ h[y] \in Nat /\ h[y] <= SumFunctionOnSet(f, T[y])
      <4> HIDE DEF y
      <4> QED
        BY <3>1
    <3>6. U \in SUBSET D
      BY <3>1
    <3> HIDE DEF y, U, Part
    <3> QED
      BY <3>3, <3>4, <3>5, <3>6
  <2>8. /\ IsFiniteSet(T[y]) /\ IsFiniteSet(U)
        /\ \A d \in T[y] \cup U : f[d] \in Nat /\ f[d] \in Int
    BY <2>7, FS_Subset
  <2>9. SumFunctionOnSet(f, T[y] \cup U) = SumFunctionOnSet(f, T[y]) + SumFunctionOnSet(f, U)
    <3> DEFINE V == T[y]
    <3>1. IsFiniteSet(V) /\ IsFiniteSet(U) /\ V \cap U = {} /\ \A d \in V \cup U : f[d] \in Int
      BY <2>7, <2>8
    <3> HIDE DEF V, U
    <3>2. SumFunctionOnSet(f, V \cup U) = SumFunctionOnSet(f, V) + SumFunctionOnSet(f, U)
      BY <3>1, SumUnion
    <3> QED
      BY <3>2 DEF V
  <2>10. /\ SumFunctionOnSet(f, T[y]) \in Nat /\ SumFunctionOnSet(f, U) \in Nat
         /\ SumFunctionOnSet(h, rest) \in Nat
    <3>1. IsFiniteSet(rest) /\ \A i \in rest : h[i] \in Nat
      BY <2>2, <2>4, FS_Subset
    <3> DEFINE V == T[y]
    <3>2. IsFiniteSet(V) /\ IsFiniteSet(U) /\ \A d \in V \cup U : f[d] \in Nat
      BY <2>8
    <3> HIDE DEF V, U, rest
    <3>3. /\ SumFunctionOnSet(f, V) \in Nat /\ SumFunctionOnSet(f, U) \in Nat
          /\ SumFunctionOnSet(h, rest) \in Nat
      BY <3>1, <3>2, SumNat
    <3> QED
      BY <3>3 DEF V
  <2>11. ~(SumFunctionOnSet(h, B) <= SumFunctionOnSet(f, Part(B)))
    OBVIOUS
  <2>12. SumFunctionOnSet(f, Part(B)) = SumFunctionOnSet(f, T[y]) + SumFunctionOnSet(f, U)
    <3>1. Part(B) = T[y] \cup U
      BY <2>7
    <3> HIDE DEF Part, U, y
    <3> QED
      BY <2>9, <3>1
  <2>13. h[y] \in Nat /\ h[y] <= SumFunctionOnSet(f, T[y])
    BY <2>7
  <2> HIDE DEF y, rest, U, Bad, Part
  <2> QED
    BY <2>5, <2>6, <2>10, <2>11, <2>12, <2>13
<1>3. QED
  BY <1>1, <1>2

-----------------------------------------------------------------------------
(* Payroll: types, and what a request knows *)

\* What a request knows at each place: whom it registers, the period whose
\* payroll it approves, the row it pays.
PayrollKnows(q) ==
  /\ pc[q] = "creating" => \E w \in Workers : at[q] = <<w>>
  /\ pc[q] = "approving" => \E period \in Periods : at[q] = <<period>>
  /\ pc[q] \in {"sending", "accepted", "refused"} => cur[q] \in Payouts /\ payout[cur[q]] # "none"

\* The approvals of a period are numbered without a gap.
Used(period) == {k \in Approvals : \E w \in Workers : payout[<<period, w, k>>] # "none"}
InOrder == \A period \in Periods : \E m \in Nat : Used(period) = 1..m

OneBusy ==
  "overlap" \notin env =>
    \A q \in Requests, s \in Requests : pc[q] # "idle" /\ pc[s] # "idle" => q = s

PayrollKnown == TypeOK /\ (\A q \in Requests : PayrollKnows(q)) /\ InOrder /\ OneBusy

RegisterTyped == plan \in {"solo", "free"} /\ worker \in [Workers -> WorkerStatus]
ShiftsTyped ==
  /\ shifts \in [Workers \X Days -> 0..MaxShifts]
  /\ hours \in [Workers \X Days -> 0..MaxShifts]
  /\ \A w \in Workers, d \in Days : hours[w, d] <= shifts[w, d]
PayoutsTyped ==
  /\ payout \in [Payouts -> PayoutStatus]
  /\ paidHours \in [Payouts -> Nat]
  /\ ref \in [Payouts -> {"none", "own", "provider"}]
ProviderTyped ==
  /\ sent \in [Payouts -> SUBSET {"none", "own", "provider"}]
  /\ accepted \subseteq Payouts
  /\ told \subseteq Payouts
CallsTyped ==
  /\ pc \in [Requests -> Phase]
  /\ at \in [Requests -> Subject]
  /\ todo \in [Requests -> SUBSET Payouts]
  /\ cur \in [Requests -> Payouts \cup {NoPayout}]
  /\ external_ref \in [Requests -> {"none", "own", "provider"}]
  /\ news \in [Requests -> SUBSET Payouts]

LEMMA PayrollTypes ==
  TypeOK <=> /\ RegisterTyped /\ ShiftsTyped /\ PayoutsTyped /\ ProviderTyped /\ CallsTyped
             /\ env \in Environments
BY DEF TypeOK, RegisterTyped, ShiftsTyped, PayoutsTyped, ProviderTyped, CallsTyped

LEMMA PayrollTypesNext ==
  TypeOK' <=> /\ RegisterTyped' /\ ShiftsTyped' /\ PayoutsTyped' /\ ProviderTyped' /\ CallsTyped'
              /\ (env \in Environments)'
BY DEF TypeOK, RegisterTyped, ShiftsTyped, PayoutsTyped, ProviderTyped, CallsTyped

\* What a step does not touch keeps its types.
LEMMA PayrollTypesKept ==
  ASSUME TypeOK
  PROVE  /\ UNCHANGED <<plan, worker>> => RegisterTyped'
         /\ UNCHANGED <<shifts, hours>> => ShiftsTyped'
         /\ UNCHANGED payoutVars => PayoutsTyped'
         /\ UNCHANGED providerVars => ProviderTyped'
         /\ UNCHANGED requestVars => CallsTyped'
         /\ UNCHANGED env => (env \in Environments)'
<1>1. /\ RegisterTyped /\ ShiftsTyped /\ PayoutsTyped /\ ProviderTyped /\ CallsTyped
      /\ env \in Environments
  BY PayrollTypes
<1>2. UNCHANGED <<plan, worker>> => RegisterTyped'
  BY <1>1 DEF RegisterTyped
<1>3. UNCHANGED <<shifts, hours>> => ShiftsTyped'
  BY <1>1 DEF ShiftsTyped
<1>4. UNCHANGED payoutVars => PayoutsTyped'
  BY <1>1 DEF PayoutsTyped, payoutVars
<1>5. UNCHANGED providerVars => ProviderTyped'
  BY <1>1 DEF ProviderTyped, providerVars
<1>6. UNCHANGED requestVars => CallsTyped'
  BY <1>1 DEF CallsTyped, requestVars
<1> QED
  BY <1>1, <1>2, <1>3, <1>4, <1>5, <1>6

\* A step of one request leaves the others alone.
OthersStay(q) ==
  \A s \in Requests \ {q} :
    /\ pc'[s] = pc[s] /\ at'[s] = at[s] /\ todo'[s] = todo[s]
    /\ cur'[s] = cur[s] /\ external_ref'[s] = external_ref[s] /\ news'[s] = news[s]

LEMMA EndLeaves ==
  ASSUME TypeOK, NEW q \in Requests, End(q)
  PROVE  CallsTyped' /\ OthersStay(q) /\ pc'[q] = "idle" /\ news'[q] = {}
<1>1. CallsTyped
  BY PayrollTypes
<1>2. /\ pc' = [pc EXCEPT ![q] = "idle"] /\ at' = [at EXCEPT ![q] = <<>>]
      /\ todo' = [todo EXCEPT ![q] = {}] /\ cur' = [cur EXCEPT ![q] = NoPayout]
      /\ external_ref' = [external_ref EXCEPT ![q] = "none"] /\ news' = [news EXCEPT ![q] = {}]
  BY DEF End
<1>3. pc' \in [Requests -> Phase] /\ pc'[q] = "idle" /\ \A s \in Requests \ {q} : pc'[s] = pc[s]
  BY <1>1, <1>2 DEF CallsTyped, Phase
<1>4. at' \in [Requests -> Subject] /\ \A s \in Requests \ {q} : at'[s] = at[s]
  BY <1>1, <1>2 DEF CallsTyped, Subject
<1>5. todo' \in [Requests -> SUBSET Payouts] /\ \A s \in Requests \ {q} : todo'[s] = todo[s]
  BY <1>1, <1>2 DEF CallsTyped
<1>6. /\ cur' \in [Requests -> Payouts \cup {NoPayout}]
      /\ \A s \in Requests \ {q} : cur'[s] = cur[s]
  BY <1>1, <1>2 DEF CallsTyped
<1>7. /\ external_ref' \in [Requests -> {"none", "own", "provider"}]
      /\ \A s \in Requests \ {q} : external_ref'[s] = external_ref[s]
  BY <1>1, <1>2 DEF CallsTyped
<1>8. /\ news' \in [Requests -> SUBSET Payouts] /\ news'[q] = {}
      /\ \A s \in Requests \ {q} : news'[s] = news[s]
  BY <1>1, <1>2 DEF CallsTyped
<1> QED
  BY <1>3, <1>4, <1>5, <1>6, <1>7, <1>8 DEF CallsTyped, OthersStay

LEMMA BeginsThere ==
  ASSUME TypeOK, NEW q \in Requests, NEW p \in Phase, NEW s \in Subject, Begin(q, p, s),
         UNCHANGED <<cur, external_ref, news>>,
         \/ UNCHANGED todo
         \/ \E due \in SUBSET Payouts : todo' = [todo EXCEPT ![q] = due]
  PROVE  CallsTyped' /\ OthersStay(q) /\ pc'[q] = p /\ at'[q] = s
<1>1. CallsTyped
  BY PayrollTypes
<1>2. pc' = [pc EXCEPT ![q] = p] /\ at' = [at EXCEPT ![q] = s]
  BY DEF Begin
<1>3. pc' \in [Requests -> Phase] /\ pc'[q] = p /\ \A r \in Requests \ {q} : pc'[r] = pc[r]
  BY <1>1, <1>2 DEF CallsTyped
<1>4. at' \in [Requests -> Subject] /\ at'[q] = s /\ \A r \in Requests \ {q} : at'[r] = at[r]
  BY <1>1, <1>2 DEF CallsTyped
<1>5. todo' \in [Requests -> SUBSET Payouts] /\ \A r \in Requests \ {q} : todo'[r] = todo[r]
  BY <1>1 DEF CallsTyped
<1> QED
  BY <1>1, <1>3, <1>4, <1>5 DEF CallsTyped, OthersStay

\* What the others know stays true while no row is taken back.
LEMMA OthersKnow ==
  ASSUME PayrollKnown, NEW q \in Requests, OthersStay(q), PayrollKnows(q)',
         \A p \in Payouts : payout[p] # "none" => payout'[p] # "none"
  PROVE  \A s \in Requests : PayrollKnows(s)'
<1>1. ASSUME NEW s \in Requests \ {q}
      PROVE  PayrollKnows(s)'
  <2>1. PayrollKnows(s) /\ pc'[s] = pc[s] /\ at'[s] = at[s] /\ cur'[s] = cur[s]
    BY DEF PayrollKnown, OthersStay
  <2> QED
    BY <2>1 DEF PayrollKnows
<1> QED
  BY <1>1

\* Where requests do not overlap, one begins only when the others have ended.
LEMMA OneBusyKept ==
  ASSUME OneBusy, NEW q \in Requests, OthersStay(q), env' = env,
         pc[q] # "idle" \/ pc'[q] = "idle" \/ Free(q)
  PROVE  OneBusy'
BY DEF OneBusy, OthersStay, Free

\* The numbers stay in order while no row appears or disappears.
LEMMA InOrderKept ==
  ASSUME InOrder, \A p \in Payouts : payout'[p] # "none" <=> payout[p] # "none"
  PROVE  InOrder'
<1>1. ASSUME NEW period \in Periods
      PROVE  Used(period)' = Used(period)
  <2>1. \A w \in Workers, k \in Approvals : <<period, w, k>> \in Payouts
    BY DEF Payouts
  <2> QED
    BY <2>1 DEF Used
<1> QED
  BY <1>1 DEF InOrder

\* A step of one request that opens no payout.
LEMMA PayrollKnownStep ==
  ASSUME PayrollKnown, TypeOK', NEW q \in Requests, OthersStay(q), PayrollKnows(q)', env' = env,
         pc[q] # "idle" \/ pc'[q] = "idle" \/ Free(q),
         \A p \in Payouts : payout'[p] # "none" <=> payout[p] # "none"
  PROVE  PayrollKnown'
<1>1. \A s \in Requests : PayrollKnows(s)'
  BY OthersKnow
<1>2. OneBusy' /\ InOrder'
  BY OneBusyKept, InOrderKept DEF PayrollKnown
<1> QED
  BY <1>1, <1>2 DEF PayrollKnown

LEMMA PayrollInitKnown == Init => PayrollKnown
<1> SUFFICES ASSUME Init PROVE PayrollKnown
  OBVIOUS
<1>1. RegisterTyped /\ env \in Environments
  BY DEF Init, RegisterTyped, WorkerStatus
<1>2. ShiftsTyped
  <2>1. 0 \in 0..MaxShifts
    BY BoundsAssumption
  <2>2. /\ shifts = [s \in Workers \X Days |-> 0] /\ hours = [s \in Workers \X Days |-> 0]
    BY DEF Init
  <2>3. \A w \in Workers, d \in Days : shifts[<<w, d>>] = 0 /\ hours[<<w, d>>] = 0
    BY <2>2
  <2>4. ASSUME NEW w \in Workers, NEW d \in Days
        PROVE  hours[<<w, d>>] <= shifts[<<w, d>>]
    <3>1. hours[<<w, d>>] = 0 /\ shifts[<<w, d>>] = 0
      BY <2>3
    <3>2. 0 <= 0
      OBVIOUS
    <3> HIDE <2>2
    <3> QED
      BY <3>1, <3>2
  <2>5. /\ shifts \in [Workers \X Days -> 0..MaxShifts]
        /\ hours \in [Workers \X Days -> 0..MaxShifts]
    BY <2>1, <2>2
  <2> QED
    BY <2>4, <2>5 DEF ShiftsTyped
<1>3. PayoutsTyped
  BY DEF Init, PayoutsTyped, PayoutStatus
<1>4. ProviderTyped
  BY DEF Init, ProviderTyped
<1>5. CallsTyped
  BY DEF Init, CallsTyped, Phase, Subject
<1>6. \A q \in Requests : pc[q] = "idle"
  BY DEF Init
<1>7. InOrder
  <2>1. \A period \in Periods, w \in Workers, k \in Approvals : payout[<<period, w, k>>] = "none"
    BY DEF Init, Payouts
  <2>2. \A period \in Periods : Used(period) = {}
    BY <2>1 DEF Used
  <2>3. 1..0 = {} /\ 0 \in Nat
    OBVIOUS
  <2> QED
    BY <2>2, <2>3 DEF InOrder
<1>8. (\A q \in Requests : PayrollKnows(q)) /\ OneBusy
  BY <1>6 DEF PayrollKnows, OneBusy
<1> QED
  BY <1>1, <1>2, <1>3, <1>4, <1>5, <1>7, <1>8, PayrollTypes DEF PayrollKnown

\* A step of nobody's.
LEMMA PayrollKnownStays ==
  ASSUME PayrollKnown, TypeOK', UNCHANGED <<payout, requestVars, env>>
  PROVE  PayrollKnown'
<1>1. \A q \in Requests : PayrollKnows(q)'
  BY DEF PayrollKnown, PayrollKnows, requestVars
<1>2. OneBusy' /\ InOrder'
  BY InOrderKept DEF PayrollKnown, OneBusy, requestVars
<1> QED
  BY <1>1, <1>2 DEF PayrollKnown

LEMMA RegisterKnown ==
  ASSUME PayrollKnown, PlanChanges \/ \E w \in Workers : UpdateWorker(w)
  PROVE  PayrollKnown'
<1>1. TypeOK /\ RegisterTyped
  BY PayrollTypes DEF PayrollKnown
<1>2. UNCHANGED <<shifts, hours, payoutVars, providerVars, requestVars, env>>
  BY DEF PlanChanges, UpdateWorker
<1>3. RegisterTyped'
  BY <1>1 DEF RegisterTyped, PlanChanges, UpdateWorker, WorkerStatus
<1>4. TypeOK'
  BY <1>1, <1>2, <1>3, PayrollTypesKept, PayrollTypesNext
<1> QED
  BY <1>2, <1>4, PayrollKnownStays DEF payoutVars

\* A shift is one more row, with its hour or without.
LEMMA ShiftLogged ==
  ASSUME PayrollKnown, NEW w \in Workers, NEW d \in Days, LogAttendance(w, d)
  PROVE  /\ PayrollKnown'
         /\ \A v \in Workers, e \in Days : hours[v, e] \in Nat /\ hours'[v, e] \in Nat /\ hours[v, e] <= hours'[v, e]
         /\ UNCHANGED <<payoutVars, providerVars, requestVars, env>>
<1> DEFINE Bound == 0..MaxShifts
<1>1. TypeOK /\ ShiftsTyped
  BY PayrollTypes DEF PayrollKnown
<1>2. UNCHANGED <<plan, worker, payoutVars, providerVars, requestVars, env>>
  BY DEF LogAttendance
<1>3. PICK h \in {0, 1} :
        /\ shifts[<<w, d>>] < MaxShifts
        /\ shifts' = [shifts EXCEPT ![<<w, d>>] = @ + 1]
        /\ hours' = [hours EXCEPT ![<<w, d>>] = @ + h]
  BY DEF LogAttendance
<1>4. /\ shifts \in [Workers \X Days -> Bound] /\ hours \in [Workers \X Days -> Bound]
      /\ \A v \in Workers, e \in Days : hours[<<v, e>>] <= shifts[<<v, e>>]
  BY <1>1 DEF ShiftsTyped
<1>5. \A x \in Bound : x \in Nat /\ x <= MaxShifts
  BY BoundsAssumption
<1>6. \A x \in Nat : x <= MaxShifts => x \in Bound
  BY BoundsAssumption
<1> HIDE DEF Bound
<1>7. /\ shifts[<<w, d>>] \in Nat /\ hours[<<w, d>>] \in Nat /\ MaxShifts \in Nat
      /\ hours[<<w, d>>] <= shifts[<<w, d>>]
  BY <1>4, <1>5, BoundsAssumption
<1>8. shifts[<<w, d>>] + 1 \in Bound /\ hours[<<w, d>>] + h \in Bound
  <2>1. /\ shifts[<<w, d>>] + 1 \in Nat /\ shifts[<<w, d>>] + 1 <= MaxShifts
        /\ hours[<<w, d>>] + h \in Nat /\ hours[<<w, d>>] + h <= MaxShifts
    BY <1>3, <1>7
  <2> QED
    BY <1>6, <2>1
<1>9. shifts' \in [Workers \X Days -> Bound] /\ hours' \in [Workers \X Days -> Bound]
  BY <1>3, <1>4, <1>8
<1>10. ASSUME NEW v \in Workers, NEW e \in Days
       PROVE  /\ hours[<<v, e>>] \in Nat /\ hours'[<<v, e>>] \in Nat
              /\ hours[<<v, e>>] <= hours'[<<v, e>>]
              /\ hours'[<<v, e>>] <= shifts'[<<v, e>>]
  <2>1. CASE <<v, e>> = <<w, d>>
    <3>1. hours'[<<v, e>>] = hours[<<w, d>>] + h /\ shifts'[<<v, e>>] = shifts[<<w, d>>] + 1
      BY <1>3, <1>4, <2>1
    <3> QED
      BY <1>7, <2>1, <3>1
  <2>2. CASE <<v, e>> # <<w, d>>
    <3>1. hours'[<<v, e>>] = hours[<<v, e>>] /\ shifts'[<<v, e>>] = shifts[<<v, e>>]
      BY <1>3, <1>4, <2>2
    <3>2. hours[<<v, e>>] \in Nat
      BY <1>4, <1>5
    <3> QED
      BY <1>4, <3>1, <3>2
  <2> QED
    BY <2>1, <2>2
<1>11. ShiftsTyped'
  BY <1>9, <1>10 DEF ShiftsTyped, Bound
<1>12. TypeOK'
  BY <1>1, <1>2, <1>11, PayrollTypesKept, PayrollTypesNext
<1>13. PayrollKnown'
  BY <1>2, <1>12, PayrollKnownStays DEF payoutVars
<1> QED
  BY <1>2, <1>10, <1>13

LEMMA CreateWorkerKnown ==
  ASSUME PayrollKnown, NEW q \in Requests,
         (\E w \in Workers : CreateWorkerCheck(q, w)) \/ CreateWorkerInsert(q)
  PROVE  PayrollKnown'
<1>1. TypeOK /\ RegisterTyped
  BY PayrollTypes DEF PayrollKnown
<1>2. ASSUME NEW w \in Workers, CreateWorkerCheck(q, w)
      PROVE  PayrollKnown'
  <2>1. /\ Begin(q, "creating", <<w>>) /\ Free(q)
        /\ UNCHANGED <<registerVars, payoutVars, providerVars, todo, cur, external_ref, news, env>>
    BY <1>2 DEF CreateWorkerCheck
  <2>2. "creating" \in Phase /\ <<w>> \in Subject
    BY DEF Phase, Subject
  <2>3. CallsTyped' /\ OthersStay(q) /\ pc'[q] = "creating" /\ at'[q] = <<w>>
    BY <1>1, <2>1, <2>2, BeginsThere
  <2>4. TypeOK'
    BY <1>1, <2>1, <2>3, PayrollTypesKept, PayrollTypesNext DEF registerVars
  <2>5. PayrollKnows(q)'
    BY <2>3 DEF PayrollKnows
  <2> QED
    BY <2>1, <2>3, <2>4, <2>5, PayrollKnownStep DEF payoutVars
<1>3. ASSUME CreateWorkerInsert(q)
      PROVE  PayrollKnown'
  <2>1. /\ End(q) /\ pc[q] = "creating"
        /\ worker' = IF worker[at[q][1]] = "none" THEN [worker EXCEPT ![at[q][1]] = "active"] ELSE worker
        /\ UNCHANGED <<plan, shifts, hours, payoutVars, providerVars, env>>
    BY <1>3 DEF CreateWorkerInsert
  <2>2. RegisterTyped'
    BY <1>1, <2>1 DEF RegisterTyped, WorkerStatus
  <2>3. CallsTyped' /\ OthersStay(q) /\ pc'[q] = "idle"
    BY <1>1, <2>1, EndLeaves
  <2>4. TypeOK'
    BY <1>1, <2>1, <2>2, <2>3, PayrollTypesKept, PayrollTypesNext
  <2>5. PayrollKnows(q)'
    BY <2>3 DEF PayrollKnows
  <2> QED
    BY <2>1, <2>3, <2>4, <2>5, PayrollKnownStep DEF payoutVars
<1> QED
  BY <1>2, <1>3

LEMMA ApproveCheckKnown ==
  ASSUME PayrollKnown, NEW q \in Requests, NEW period \in Periods, ApproveCheck(q, period)
  PROVE  /\ PayrollKnown' /\ OthersStay(q) /\ pc'[q] = "approving" /\ at'[q] = <<period>>
<1>1. TypeOK
  BY DEF PayrollKnown
<1>2. /\ Begin(q, "approving", <<period>>) /\ Free(q)
      /\ UNCHANGED <<registerVars, payoutVars, providerVars, todo, cur, external_ref, news, env>>
  BY DEF ApproveCheck
<1>3. "approving" \in Phase /\ <<period>> \in Subject
  BY DEF Phase, Subject
<1>4. CallsTyped' /\ OthersStay(q) /\ pc'[q] = "approving" /\ at'[q] = <<period>>
  BY <1>1, <1>2, <1>3, BeginsThere
<1>5. TypeOK'
  BY <1>1, <1>2, <1>4, PayrollTypesKept, PayrollTypesNext DEF registerVars
<1>6. PayrollKnows(q)'
  BY <1>4 DEF PayrollKnows
<1>7. PayrollKnown'
  BY <1>2, <1>4, <1>5, <1>6, PayrollKnownStep DEF payoutVars
<1> QED
  BY <1>4, <1>7

LEMMA SelectKnown ==
  ASSUME PayrollKnown, NEW q \in Requests, NEW period \in Periods, DisburseSelect(q, period)
  PROVE  PayrollKnown' /\ OthersStay(q) /\ pc'[q] = "disburse"
<1>1. TypeOK
  BY DEF PayrollKnown
<1>2. /\ Begin(q, "disburse", <<period>>) /\ Free(q)
      /\ UNCHANGED <<registerVars, payoutVars, providerVars, cur, external_ref, news, env>>
      /\ \E due \in SUBSET Payouts : todo' = [todo EXCEPT ![q] = due]
  BY DEF DisburseSelect
<1>3. "disburse" \in Phase /\ <<period>> \in Subject
  BY DEF Phase, Subject
<1>4. CallsTyped' /\ OthersStay(q) /\ pc'[q] = "disburse"
  BY <1>1, <1>2, <1>3, BeginsThere
<1>5. TypeOK'
  BY <1>1, <1>2, <1>4, PayrollTypesKept, PayrollTypesNext DEF registerVars
<1>6. PayrollKnows(q)'
  BY <1>4 DEF PayrollKnows
<1>7. PayrollKnown'
  BY <1>2, <1>4, <1>5, <1>6, PayrollKnownStep DEF payoutVars
<1> QED
  BY <1>4, <1>7

-----------------------------------------------------------------------------
(* Approving a period *)

\* What a worker logged on each day.
HoursOf(w) == [d \in Days |-> hours[<<w, d>>]]

LEMMA HoursAreNat ==
  ASSUME TypeOK, NEW w \in Workers, NEW S \in SUBSET Days
  PROVE  /\ HoursIn(w, S) = SumFunctionOnSet(HoursOf(w), S)
         /\ HoursIn(w, S) \in Nat
         /\ \A d \in Days : HoursOf(w)[d] \in Nat
<1>1. hours \in [Workers \X Days -> 0..MaxShifts]
  BY PayrollTypes DEF ShiftsTyped
<1>2. \A x \in 0..MaxShifts : x \in Nat
  BY BoundsAssumption
<1>3. \A d \in Days : hours[<<w, d>>] \in 0..MaxShifts
  BY <1>1
<1>4. \A d \in Days : HoursOf(w)[d] \in Nat
  BY <1>2, <1>3 DEF HoursOf
<1>5. HoursIn(w, S) = SumFunctionOnSet(HoursOf(w), S)
  BY DEF HoursIn, HoursOf
<1>6. IsFiniteSet(S)
  BY FiniteAssumption, FS_Subset
<1>7. SumFunctionOnSet(HoursOf(w), S) \in Nat
  BY <1>4, <1>6, SumNat
<1> QED
  BY <1>4, <1>5, <1>7

\* The rows of a period's next approval.
NewRows(period, n) == {p \in Payouts : p[1] = period /\ p[3] = n /\ Attended(WorkerOf(p), period)}

\* An approval opens rows that were not there, one for each worker.
LEMMA ApproveInserts ==
  ASSUME PayrollKnown, NEW q \in Requests, ApproveInsert(q)
  PROVE  \E period \in Periods, n \in Approvals :
           /\ at[q] = <<period>> /\ End(q)
           /\ UNCHANGED <<registerVars, ref, providerVars, env>>
           /\ payout' = [p \in Payouts |-> IF p \in NewRows(period, n) THEN "approved" ELSE payout[p]]
           /\ paidHours' = [p \in Payouts |-> IF p \in NewRows(period, n)
                                              THEN HoursIn(WorkerOf(p), period) ELSE paidHours[p]]
           /\ \A p \in NewRows(period, n) : payout[p] = "none"
           /\ Used(period) = 1..(n - 1)
<1>1. pc[q] = "approving" /\ PayrollKnows(q)
  BY DEF PayrollKnown, ApproveInsert
<1>2. PICK period \in Periods : at[q] = <<period>>
  BY <1>1 DEF PayrollKnows
<1>3. PICK m \in Nat : Used(period) = 1..m
  BY DEF PayrollKnown, InOrder
<1>4. Cardinality(1..m) = m
  <2>1. 1 \in Int /\ m \in Int
    OBVIOUS
  <2>2. Cardinality(1..m) = IF 1 > m THEN 0 ELSE m - 1 + 1
    BY <2>1, FS_Interval
  <2> QED
    BY <2>2
<1> DEFINE n == 1 + m
<1>5. {k \in Approvals : \E w \in Workers : payout[period, w, k] # "none"} = Used(period)
  BY DEF Used
<1>6. at[q][1] = period
  BY <1>2
<1>7. 1 + Cardinality({k \in Approvals : \E w \in Workers : payout[at[q][1], w, k] # "none"}) = n
  BY <1>3, <1>4, <1>5, <1>6
<1>8. /\ n <= MaxApprovals /\ End(q)
      /\ payout' = [p \in Payouts |-> IF p \in NewRows(period, n) THEN "approved" ELSE payout[p]]
      /\ paidHours' = [p \in Payouts |-> IF p \in NewRows(period, n)
                                         THEN HoursIn(WorkerOf(p), period) ELSE paidHours[p]]
      /\ UNCHANGED <<registerVars, ref, providerVars, env>>
  <2> HIDE DEF n
  <2> QED
    BY <1>6, <1>7 DEF ApproveInsert, NewRows
<1>9. n \in Approvals /\ n \notin 1..m /\ 1..(n - 1) = 1..m
  BY <1>8, BoundsAssumption DEF Approvals
<1>10. ASSUME NEW p \in NewRows(period, n)
       PROVE  payout[p] = "none"
  <2>1. PICK w \in Workers : p = <<period, w, n>>
    BY DEF NewRows, Payouts
  <2>2. n \notin Used(period)
    BY <1>3, <1>9
  <2> HIDE DEF n
  <2> QED
    BY <1>9, <2>1, <2>2 DEF Used
<1> HIDE DEF n
<1> QED
  BY <1>2, <1>3, <1>8, <1>9, <1>10

LEMMA ApproveInsertKnown ==
  ASSUME PayrollKnown, NEW q \in Requests, ApproveInsert(q)
  PROVE  PayrollKnown' /\ OthersStay(q) /\ pc'[q] = "idle" /\ news'[q] = {}
<1>1. PICK period \in Periods, n \in Approvals :
        /\ at[q] = <<period>> /\ End(q)
        /\ UNCHANGED <<registerVars, ref, providerVars, env>>
        /\ payout' = [p \in Payouts |-> IF p \in NewRows(period, n) THEN "approved" ELSE payout[p]]
        /\ paidHours' = [p \in Payouts |-> IF p \in NewRows(period, n)
                                           THEN HoursIn(WorkerOf(p), period) ELSE paidHours[p]]
        /\ \A p \in NewRows(period, n) : payout[p] = "none"
        /\ Used(period) = 1..(n - 1)
  BY ApproveInserts
<1>2. TypeOK /\ PayoutsTyped /\ pc[q] = "approving"
  BY PayrollTypes DEF PayrollKnown, ApproveInsert
<1>3. CallsTyped' /\ OthersStay(q) /\ pc'[q] = "idle" /\ news'[q] = {}
  BY <1>1, <1>2, EndLeaves
<1>4. PayoutsTyped'
  <2>1. \A p \in NewRows(period, n) : HoursIn(WorkerOf(p), period) \in Nat
    <3>1. \A p \in NewRows(period, n) : WorkerOf(p) \in Workers
      BY DEF NewRows, Payouts, WorkerOf
    <3>2. period \in SUBSET Days
      BY PeriodsAssumption
    <3> QED
      BY <1>2, <3>1, <3>2, HoursAreNat
  <2>2. paidHours' \in [Payouts -> Nat]
    BY <1>1, <1>2, <2>1 DEF PayoutsTyped
  <2>3. payout' \in [Payouts -> PayoutStatus] /\ ref' \in [Payouts -> {"none", "own", "provider"}]
    BY <1>1, <1>2 DEF PayoutsTyped, PayoutStatus
  <2> QED
    BY <2>2, <2>3 DEF PayoutsTyped
<1>5. TypeOK'
  BY <1>1, <1>2, <1>3, <1>4, PayrollTypesKept, PayrollTypesNext DEF registerVars
<1>6. \A p \in Payouts : payout'[p] # "none" <=> p \in NewRows(period, n) \/ payout[p] # "none"
  BY <1>1
<1>7. \A s \in Requests : PayrollKnows(s)'
  <2>1. PayrollKnows(q)'
    BY <1>3 DEF PayrollKnows
  <2> QED
    BY <1>3, <1>6, <2>1, OthersKnow
<1>8. OneBusy'
  BY <1>1, <1>2, <1>3, OneBusyKept DEF PayrollKnown
<1>9. InOrder'
  <2>1. \A r \in Periods, w \in Workers, k \in Approvals :
          /\ <<r, w, k>> \in Payouts
          /\ <<r, w, k>> \in NewRows(period, n) <=> r = period /\ k = n /\ Attended(w, period)
    BY DEF NewRows, Payouts, WorkerOf
  <2>2. \A r \in Periods, w \in Workers, k \in Approvals :
          payout'[<<r, w, k>>] # "none" <=>
            payout[<<r, w, k>>] # "none" \/ (r = period /\ k = n /\ Attended(w, period))
    BY <1>6, <2>1
  <2>3. \A r \in Periods :
          Used(r)' = Used(r) \cup {k \in Approvals : r = period /\ k = n /\ \E w \in Workers : Attended(w, period)}
    BY <2>2 DEF Used
  <2>4. ASSUME NEW r \in Periods
        PROVE  \E m \in Nat : Used(r)' = 1..m
    <3>1. CASE r = period /\ \E w \in Workers : Attended(w, period)
      <4>1. Used(r)' = (1..(n - 1)) \cup {n}
        BY <1>1, <2>3, <3>1
      <4>2. n \in Nat /\ n >= 1
        BY BoundsAssumption DEF Approvals
      <4>3. (1..(n - 1)) \cup {n} = 1..n
        BY <4>2
      <4> QED
        BY <4>1, <4>2, <4>3
    <3>2. CASE ~(r = period /\ \E w \in Workers : Attended(w, period))
      <4>1. Used(r)' = Used(r)
        BY <2>3, <3>2
      <4> QED
        BY <4>1 DEF PayrollKnown, InOrder
    <3> QED
      BY <3>1, <3>2
  <2> QED
    BY <2>4 DEF InOrder
<1> QED
  BY <1>3, <1>5, <1>7, <1>8, <1>9 DEF PayrollKnown

-----------------------------------------------------------------------------
(* Disbursing it *)

\* A claim passes over a row or takes it, and then gives it its reference.
Claims(q, p) ==
  /\ payout[p] = "approved"
  /\ ref' = [ref EXCEPT ![p] = IF @ = "none" THEN "own" ELSE @]
  /\ external_ref' = [external_ref EXCEPT ![q] = ref'[p]]
  /\ cur' = [cur EXCEPT ![q] = p]
  /\ pc' = [pc EXCEPT ![q] = "sending"]

LEMMA ClaimKnown ==
  ASSUME PayrollKnown, NEW q \in Requests, DisburseClaim(q)
  PROVE  /\ PayrollKnown' /\ OthersStay(q) /\ pc[q] = "disburse"
         /\ UNCHANGED <<registerVars, payout, paidHours, providerVars, news, env>>
         /\ \/ UNCHANGED <<ref, external_ref, cur, pc>>
            \/ \E p \in Payouts : Claims(q, p) /\ ref' \in [Payouts -> {"none", "own", "provider"}]
                                  /\ pc'[q] = "sending" /\ cur'[q] = p /\ external_ref'[q] = ref'[p]
                                  /\ ref'[p] = (IF ref[p] = "none" THEN "own" ELSE ref[p])
                                  /\ \A r \in Payouts \ {p} : ref'[r] = ref[r]
<1>1. TypeOK /\ CallsTyped /\ PayoutsTyped
  BY PayrollTypes DEF PayrollKnown
<1>2. PICK p \in todo[q] :
        /\ todo' = [todo EXCEPT ![q] = @ \ {p}]
        /\ Claims(q, p) \/ UNCHANGED <<ref, external_ref, cur, pc>>
  BY DEF DisburseClaim, Claims
<1>3. /\ UNCHANGED <<registerVars, payout, paidHours, providerVars, at, news, env>>
      /\ pc[q] = "disburse"
  BY DEF DisburseClaim
<1>4. todo[q] \in SUBSET Payouts /\ p \in Payouts
  BY <1>1 DEF CallsTyped
<1>5. /\ todo' \in [Requests -> SUBSET Payouts]
      /\ \A s \in Requests \ {q} : todo'[s] = todo[s]
  BY <1>1, <1>2, <1>4 DEF CallsTyped
<1>6. CASE UNCHANGED <<ref, external_ref, cur, pc>>
  <2>1. CallsTyped' /\ OthersStay(q)
    BY <1>1, <1>3, <1>5, <1>6 DEF CallsTyped, OthersStay
  <2>2. TypeOK'
    BY <1>1, <1>3, <1>6, <2>1, PayrollTypesKept, PayrollTypesNext DEF registerVars, payoutVars
  <2>3. PayrollKnows(q)'
    BY <1>3, <1>6 DEF PayrollKnows
  <2>4. PayrollKnown'
    BY <1>3, <2>1, <2>2, <2>3, PayrollKnownStep
  <2> QED
    BY <1>3, <1>6, <2>1, <2>4
<1>7. CASE Claims(q, p)
  <2>1. /\ ref' \in [Payouts -> {"none", "own", "provider"}]
        /\ ref'[p] = (IF ref[p] = "none" THEN "own" ELSE ref[p])
        /\ \A r \in Payouts \ {p} : ref'[r] = ref[r]
    BY <1>1, <1>4, <1>7 DEF Claims, PayoutsTyped
  <2>2. /\ external_ref' \in [Requests -> {"none", "own", "provider"}]
        /\ external_ref'[q] = ref'[p]
        /\ \A s \in Requests \ {q} : external_ref'[s] = external_ref[s]
    <3>1. ref'[p] \in {"none", "own", "provider"}
      BY <1>4, <2>1
    <3>2. external_ref' = [external_ref EXCEPT ![q] = ref'[p]]
      BY <1>7 DEF Claims
    <3> QED
      BY <1>1, <3>1, <3>2 DEF CallsTyped
  <2>3. /\ cur' \in [Requests -> Payouts \cup {NoPayout}] /\ cur'[q] = p
        /\ \A s \in Requests \ {q} : cur'[s] = cur[s]
    BY <1>1, <1>4, <1>7 DEF CallsTyped, Claims
  <2>4. /\ pc' \in [Requests -> Phase] /\ pc'[q] = "sending"
        /\ \A s \in Requests \ {q} : pc'[s] = pc[s]
    BY <1>1, <1>7 DEF CallsTyped, Claims, Phase
  <2>5. CallsTyped' /\ OthersStay(q)
    BY <1>1, <1>3, <1>5, <2>2, <2>3, <2>4 DEF CallsTyped, OthersStay
  <2>6. PayoutsTyped'
    BY <1>1, <1>3, <2>1 DEF PayoutsTyped
  <2>7. TypeOK'
    BY <1>1, <1>3, <2>5, <2>6, PayrollTypesKept, PayrollTypesNext DEF registerVars
  <2>8. PayrollKnows(q)'
    BY <1>3, <1>4, <1>7, <2>3, <2>4 DEF PayrollKnows, Claims
  <2>9. PayrollKnown'
    BY <1>3, <2>5, <2>7, <2>8, PayrollKnownStep
  <2> QED
    BY <1>3, <1>4, <1>7, <2>1, <2>2, <2>3, <2>4, <2>5, <2>9
<1> QED
  BY <1>2, <1>6, <1>7

LEMMA SendKnown ==
  ASSUME PayrollKnown, NEW q \in Requests, DisburseSend(q)
  PROVE  /\ PayrollKnown' /\ OthersStay(q) /\ pc[q] = "sending" /\ cur[q] \in Payouts
         /\ UNCHANGED <<registerVars, payoutVars, told, cur, external_ref, news, env>>
         /\ accepted \subseteq accepted'
         /\ pc'[q] = "refused" \/ (pc'[q] = "accepted" /\ cur[q] \in accepted')
         /\ sent'[cur[q]] = sent[cur[q]] \cup {external_ref[q]}
         /\ \A p \in Payouts \ {cur[q]} : sent'[p] = sent[p]
<1>1. TypeOK /\ CallsTyped /\ ProviderTyped /\ PayrollKnows(q)
  BY PayrollTypes DEF PayrollKnown
<1>2. /\ pc[q] = "sending"
      /\ sent' = [sent EXCEPT ![cur[q]] = @ \cup {external_ref[q]}]
      /\ UNCHANGED <<registerVars, payoutVars, told, at, todo, cur, external_ref, news, env>>
  BY DEF DisburseSend
<1>3. \/ pc' = [pc EXCEPT ![q] = "refused"] /\ UNCHANGED accepted
      \/ /\ accepted' = accepted \cup {cur[q]}
         /\ pc' = [pc EXCEPT ![q] = "accepted"] \/ pc' = [pc EXCEPT ![q] = "refused"]
  BY DEF DisburseSend
<1>4. cur[q] \in Payouts /\ payout[cur[q]] # "none"
  BY <1>1, <1>2 DEF PayrollKnows
<1>5. external_ref[q] \in {"none", "own", "provider"}
  BY <1>1 DEF CallsTyped
<1>6. /\ sent' \in [Payouts -> SUBSET {"none", "own", "provider"}]
      /\ sent'[cur[q]] = sent[cur[q]] \cup {external_ref[q]}
      /\ \A p \in Payouts \ {cur[q]} : sent'[p] = sent[p]
  BY <1>1, <1>2, <1>4, <1>5 DEF ProviderTyped
<1>7. /\ pc' \in [Requests -> Phase] /\ pc'[q] \in {"accepted", "refused"}
      /\ \A s \in Requests \ {q} : pc'[s] = pc[s]
  BY <1>1, <1>3 DEF CallsTyped, Phase
<1>8. /\ accepted' \subseteq Payouts /\ accepted \subseteq accepted'
      /\ pc'[q] = "refused" \/ (pc'[q] = "accepted" /\ cur[q] \in accepted')
  BY <1>1, <1>3, <1>4 DEF ProviderTyped, CallsTyped
<1>9. CallsTyped' /\ OthersStay(q)
  BY <1>1, <1>2, <1>7 DEF CallsTyped, OthersStay
<1>10. ProviderTyped'
  BY <1>1, <1>2, <1>6, <1>8 DEF ProviderTyped
<1>11. TypeOK'
  BY <1>1, <1>2, <1>9, <1>10, PayrollTypesKept, PayrollTypesNext DEF registerVars
<1>12. PayrollKnows(q)'
  BY <1>2, <1>4, <1>7 DEF PayrollKnows, payoutVars
<1>13. PayrollKnown'
  BY <1>2, <1>9, <1>11, <1>12, PayrollKnownStep DEF payoutVars
<1> QED
  BY <1>2, <1>4, <1>6, <1>8, <1>9, <1>13

LEMMA RecordKnown ==
  ASSUME PayrollKnown, NEW q \in Requests, DisburseRecord(q)
  PROVE  /\ PayrollKnown' /\ OthersStay(q) /\ pc'[q] = "disburse"
         /\ cur[q] \in Payouts /\ payout[cur[q]] # "none"
         /\ UNCHANGED <<registerVars, paidHours, providerVars, env>>
         /\ \/ /\ pc[q] = "accepted" /\ payout'[cur[q]] = "paid" /\ ref'[cur[q]] = "provider"
               /\ \A p \in Payouts \ {cur[q]} : ref'[p] = ref[p]
               /\ news'[q] = news[q] \cup {cur[q]}
            \/ payout'[cur[q]] = "failed" /\ UNCHANGED <<ref, news>>
         /\ \A p \in Payouts \ {cur[q]} : payout'[p] = payout[p]
<1>1. TypeOK /\ CallsTyped /\ PayoutsTyped /\ PayrollKnows(q)
  BY PayrollTypes DEF PayrollKnown
<1>2. /\ pc[q] \in {"accepted", "refused"}
      /\ cur' = [cur EXCEPT ![q] = NoPayout]
      /\ external_ref' = [external_ref EXCEPT ![q] = "none"]
      /\ pc' = [pc EXCEPT ![q] = "disburse"]
      /\ UNCHANGED <<registerVars, paidHours, providerVars, at, todo, env>>
  BY DEF DisburseRecord
<1>3. \/ /\ pc[q] = "accepted"
         /\ payout' = [payout EXCEPT ![cur[q]] = "paid"]
         /\ ref' = [ref EXCEPT ![cur[q]] = "provider"]
         /\ news' = [news EXCEPT ![q] = @ \cup {cur[q]}]
      \/ payout' = [payout EXCEPT ![cur[q]] = "failed"] /\ UNCHANGED <<ref, news>>
  BY DEF DisburseRecord
<1>4. cur[q] \in Payouts /\ payout[cur[q]] # "none"
  BY <1>1, <1>2 DEF PayrollKnows
<1>5. /\ payout' \in [Payouts -> PayoutStatus] /\ payout'[cur[q]] # "none"
      /\ \A p \in Payouts \ {cur[q]} : payout'[p] = payout[p]
  BY <1>1, <1>3, <1>4 DEF PayoutsTyped, PayoutStatus
<1>6. ref' \in [Payouts -> {"none", "own", "provider"}]
  BY <1>1, <1>3, <1>4 DEF PayoutsTyped
<1>7. PayoutsTyped'
  BY <1>1, <1>2, <1>5, <1>6 DEF PayoutsTyped
<1>8. /\ news' \in [Requests -> SUBSET Payouts]
      /\ \A s \in Requests \ {q} : news'[s] = news[s]
  BY <1>1, <1>3, <1>4 DEF CallsTyped
<1>9. /\ pc' \in [Requests -> Phase] /\ pc'[q] = "disburse"
      /\ \A s \in Requests \ {q} : pc'[s] = pc[s]
  BY <1>1, <1>2 DEF CallsTyped, Phase
<1>10. /\ cur' \in [Requests -> Payouts \cup {NoPayout}]
       /\ \A s \in Requests \ {q} : cur'[s] = cur[s]
  BY <1>1, <1>2 DEF CallsTyped
<1>11. /\ external_ref' \in [Requests -> {"none", "own", "provider"}]
       /\ \A s \in Requests \ {q} : external_ref'[s] = external_ref[s]
  BY <1>1, <1>2 DEF CallsTyped
<1>12. CallsTyped' /\ OthersStay(q)
  BY <1>1, <1>2, <1>8, <1>9, <1>10, <1>11 DEF CallsTyped, OthersStay
<1>13. TypeOK'
  BY <1>1, <1>2, <1>7, <1>12, PayrollTypesKept, PayrollTypesNext DEF registerVars
<1>14. PayrollKnows(q)'
  BY <1>9 DEF PayrollKnows
<1>15. \A p \in Payouts : payout'[p] # "none" <=> payout[p] # "none"
  BY <1>4, <1>5
<1>16. PayrollKnown'
  BY <1>2, <1>12, <1>13, <1>14, <1>15, PayrollKnownStep
<1>17. \/ /\ pc[q] = "accepted" /\ payout'[cur[q]] = "paid" /\ ref'[cur[q]] = "provider"
          /\ \A p \in Payouts \ {cur[q]} : ref'[p] = ref[p]
          /\ news'[q] = news[q] \cup {cur[q]}
       \/ payout'[cur[q]] = "failed" /\ UNCHANGED <<ref, news>>
  BY <1>1, <1>3, <1>4 DEF PayoutsTyped, CallsTyped
<1> QED
  BY <1>2, <1>4, <1>5, <1>9, <1>12, <1>16, <1>17

LEMMA FinishKnown ==
  ASSUME PayrollKnown, NEW q \in Requests, DisburseFinish(q)
  PROVE  /\ PayrollKnown' /\ OthersStay(q) /\ pc'[q] = "idle" /\ news'[q] = {}
         /\ told' = told \cup news[q]
         /\ UNCHANGED <<registerVars, payoutVars, sent, accepted, env>>
<1>1. TypeOK /\ CallsTyped /\ ProviderTyped
  BY PayrollTypes DEF PayrollKnown
<1>2. /\ pc[q] = "disburse" /\ told' = told \cup news[q] /\ End(q)
      /\ UNCHANGED <<registerVars, payoutVars, sent, accepted, env>>
  BY DEF DisburseFinish
<1>3. CallsTyped' /\ OthersStay(q) /\ pc'[q] = "idle" /\ news'[q] = {}
  BY <1>1, <1>2, EndLeaves
<1>4. ProviderTyped'
  BY <1>1, <1>2 DEF ProviderTyped, CallsTyped
<1>5. TypeOK'
  BY <1>1, <1>2, <1>3, <1>4, PayrollTypesKept, PayrollTypesNext DEF registerVars
<1>6. PayrollKnows(q)'
  BY <1>3 DEF PayrollKnows
<1>7. PayrollKnown'
  BY <1>2, <1>3, <1>5, <1>6, PayrollKnownStep DEF payoutVars
<1> QED
  BY <1>2, <1>3, <1>7

LEMMA PayrollCrashKnown ==
  ASSUME PayrollKnown, Crash
  PROVE  /\ PayrollKnown' /\ \A q \in Requests : pc'[q] = "idle" /\ news'[q] = {}
         /\ UNCHANGED <<registerVars, payoutVars, providerVars, env>>
<1>1. TypeOK
  BY DEF PayrollKnown
<1>2. /\ UNCHANGED <<registerVars, payoutVars, providerVars, env>>
      /\ \A q \in Requests : pc'[q] = "idle" /\ news'[q] = {}
  BY DEF Crash
<1>3. CallsTyped'
  BY DEF Crash, CallsTyped, Phase, Subject
<1>4. TypeOK'
  BY <1>1, <1>2, <1>3, PayrollTypesKept, PayrollTypesNext DEF registerVars
<1>5. \A p \in Payouts : payout'[p] # "none" <=> payout[p] # "none"
  BY <1>2 DEF payoutVars
<1>6. InOrder' /\ OneBusy' /\ \A q \in Requests : PayrollKnows(q)'
  BY <1>2, <1>5, InOrderKept DEF PayrollKnown, OneBusy, PayrollKnows
<1> QED
  BY <1>2, <1>4, <1>6 DEF PayrollKnown

\* Whatever step is taken, everyone knows what their place says.
LEMMA PayrollKnownKept == PayrollKnown /\ [Next]_vars => PayrollKnown'
<1> SUFFICES ASSUME PayrollKnown, [Next]_vars PROVE PayrollKnown'
  OBVIOUS
<1>1. CASE PlanChanges \/ \E w \in Workers : UpdateWorker(w)
  BY <1>1, RegisterKnown
<1>2. CASE \E w \in Workers, d \in Days : LogAttendance(w, d)
  BY <1>2, ShiftLogged
<1>3. CASE \E q \in Requests : (\E w \in Workers : CreateWorkerCheck(q, w)) \/ CreateWorkerInsert(q)
  BY <1>3, CreateWorkerKnown
<1>4. CASE \E q \in Requests, period \in Periods : ApproveCheck(q, period) \/ DisburseSelect(q, period)
  BY <1>4, ApproveCheckKnown, SelectKnown
<1>5. CASE \E q \in Requests : ApproveInsert(q)
  BY <1>5, ApproveInsertKnown
<1>6. CASE \E q \in Requests : DisburseStep(q)
  BY <1>6, ClaimKnown, SendKnown, RecordKnown, FinishKnown DEF DisburseStep
<1>7. CASE Crash
  BY <1>7, PayrollCrashKnown
<1>8. CASE UNCHANGED vars
  <2>1. TypeOK'
    BY <1>8, PayrollTypesKept, PayrollTypesNext DEF PayrollKnown, vars, registerVars
  <2> QED
    BY <1>8, <2>1, PayrollKnownStays DEF vars, payoutVars
<1> QED
  BY <1>1, <1>2, <1>3, <1>4, <1>5, <1>6, <1>7, <1>8 DEF Next, RequestNext

\* Every variable keeps its type, a request knows what its place says, and the
\* approvals of a period are numbered one after the other.
THEOREM PayrollTyped == Spec => []PayrollKnown
BY PayrollInitKnown, PayrollKnownKept, PTL DEF Spec

-----------------------------------------------------------------------------
(* References, and what is believed to be paid *)

\* A row has no reference before it is approved, keeps its own until it is
\* paid, and has one as soon as a transfer was sent.
RefFits(p) ==
  /\ payout[p] = "none" => ref[p] = "none"
  /\ payout[p] = "approved" => ref[p] \in {"none", "own"}
  /\ sent[p] # {} => sent[p] = {"own"} /\ ref[p] # "none"
SendsOwn(q) == pc[q] = "sending" => external_ref[q] = "own" /\ ref[cur[q]] # "none"
References == (\A p \in Payouts : RefFits(p)) /\ (\A q \in Requests : SendsOwn(q))

\* What is believed to be paid was accepted.
Believed ==
  /\ \A q \in Requests : (pc[q] = "accepted" => cur[q] \in accepted) /\ news[q] \subseteq accepted
  /\ told \subseteq accepted
  /\ \A p \in Payouts : payout[p] = "paid" => p \in accepted

LEMMA ReferencesInit == Init => References /\ Believed
BY DEF Init, References, RefFits, SendsOwn, Believed

\* What a request is about to send stays its row's own while no row loses its
\* reference.
LEMMA OthersSend ==
  ASSUME PayrollKnown, References, NEW q \in Requests, OthersStay(q), SendsOwn(q)',
         \A p \in Payouts : ref[p] # "none" => ref'[p] # "none"
  PROVE  \A s \in Requests : SendsOwn(s)'
<1>1. ASSUME NEW s \in Requests \ {q}
      PROVE  SendsOwn(s)'
  <2>1. SendsOwn(s) /\ PayrollKnows(s)
    BY DEF PayrollKnown, References
  <2>2. pc'[s] = pc[s] /\ cur'[s] = cur[s] /\ external_ref'[s] = external_ref[s]
    BY DEF OthersStay
  <2>3. pc[s] = "sending" => cur[s] \in Payouts
    BY <2>1 DEF PayrollKnows
  <2> QED
    BY <2>1, <2>2, <2>3 DEF SendsOwn
<1> QED
  BY <1>1

\* A step that leaves rows, references and the provider alone.
LEMMA ReferencesStay ==
  ASSUME PayrollKnown, References, UNCHANGED <<payout, ref, sent>>, NEW q \in Requests,
         OthersStay(q), pc'[q] # "sending"
  PROVE  References'
<1>1. \A p \in Payouts : RefFits(p)'
  BY DEF References, RefFits
<1>2. SendsOwn(q)'
  BY DEF SendsOwn
<1> QED
  BY <1>1, <1>2, OthersSend DEF References

LEMMA ClaimRefers ==
  ASSUME PayrollKnown, References, NEW q \in Requests, DisburseClaim(q)
  PROVE  References'
<1>1. /\ OthersStay(q) /\ pc[q] = "disburse" /\ UNCHANGED <<payout, sent>>
      /\ \/ UNCHANGED <<ref, external_ref, cur, pc>>
         \/ \E p \in Payouts : /\ payout[p] = "approved"
                               /\ pc'[q] = "sending" /\ cur'[q] = p /\ external_ref'[q] = ref'[p]
                               /\ ref'[p] = (IF ref[p] = "none" THEN "own" ELSE ref[p])
                               /\ \A r \in Payouts \ {p} : ref'[r] = ref[r]
  BY ClaimKnown DEF providerVars, Claims
<1>2. CASE UNCHANGED <<ref, external_ref, cur, pc>>
  BY <1>1, <1>2, ReferencesStay
<1>3. ASSUME NEW p \in Payouts, payout[p] = "approved",
             pc'[q] = "sending", cur'[q] = p, external_ref'[q] = ref'[p],
             ref'[p] = (IF ref[p] = "none" THEN "own" ELSE ref[p]),
             \A r \in Payouts \ {p} : ref'[r] = ref[r]
      PROVE  References'
  <2>1. RefFits(p) /\ ref[p] \in {"none", "own"}
    BY <1>3 DEF References, RefFits
  <2>2. ref'[p] = "own"
    BY <1>3, <2>1
  <2>3. ASSUME NEW r \in Payouts
        PROVE  RefFits(r)'
    <3>1. RefFits(r) /\ payout'[r] = payout[r] /\ sent'[r] = sent[r]
      BY <1>1 DEF References
    <3>2. r = p \/ ref'[r] = ref[r]
      BY <1>3
    <3> QED
      BY <1>3, <2>2, <3>1, <3>2 DEF RefFits
  <2>4. SendsOwn(q)'
    BY <1>3, <2>2 DEF SendsOwn
  <2>5. \A r \in Payouts : ref[r] # "none" => ref'[r] # "none"
    BY <1>3, <2>2
  <2>6. \A s \in Requests : SendsOwn(s)'
    BY <1>1, <2>4, <2>5, OthersSend
  <2> QED
    BY <2>3, <2>6 DEF References
<1> QED
  BY <1>1, <1>2, <1>3

LEMMA SendRefers ==
  ASSUME PayrollKnown, References, NEW q \in Requests, DisburseSend(q)
  PROVE  References'
<1>1. /\ OthersStay(q) /\ pc[q] = "sending" /\ cur[q] \in Payouts /\ UNCHANGED <<payout, ref>>
      /\ pc'[q] # "sending"
      /\ sent'[cur[q]] = sent[cur[q]] \cup {external_ref[q]}
      /\ \A p \in Payouts \ {cur[q]} : sent'[p] = sent[p]
  BY SendKnown DEF payoutVars
<1>2. external_ref[q] = "own" /\ ref[cur[q]] # "none" /\ RefFits(cur[q])
  BY <1>1 DEF References, SendsOwn
<1>3. sent'[cur[q]] = {"own"}
  BY <1>1, <1>2 DEF RefFits
<1>4. ASSUME NEW p \in Payouts
      PROVE  RefFits(p)'
  <2>1. RefFits(p) /\ payout'[p] = payout[p] /\ ref'[p] = ref[p]
    BY <1>1 DEF References
  <2>2. p = cur[q] \/ sent'[p] = sent[p]
    BY <1>1
  <2> QED
    BY <1>2, <1>3, <2>1, <2>2 DEF RefFits
<1>5. SendsOwn(q)'
  BY <1>1 DEF SendsOwn
<1>6. \A s \in Requests : SendsOwn(s)'
  BY <1>1, <1>5, OthersSend
<1> QED
  BY <1>4, <1>6 DEF References

LEMMA RecordRefers ==
  ASSUME PayrollKnown, References, NEW q \in Requests, DisburseRecord(q)
  PROVE  References'
<1>1. /\ OthersStay(q) /\ pc'[q] = "disburse" /\ cur[q] \in Payouts /\ UNCHANGED sent
      /\ \/ /\ payout'[cur[q]] = "paid" /\ ref'[cur[q]] = "provider"
            /\ \A p \in Payouts \ {cur[q]} : ref'[p] = ref[p]
         \/ payout'[cur[q]] = "failed" /\ UNCHANGED ref
      /\ \A p \in Payouts \ {cur[q]} : payout'[p] = payout[p]
  BY RecordKnown DEF providerVars
<1>2. ASSUME NEW p \in Payouts
      PROVE  RefFits(p)' /\ (ref[p] # "none" => ref'[p] # "none")
  <2>1. RefFits(p) /\ sent'[p] = sent[p]
    BY <1>1 DEF References
  <2>2. CASE p = cur[q]
    BY <1>1, <2>1, <2>2 DEF RefFits
  <2>3. CASE p # cur[q]
    <3>1. payout'[p] = payout[p] /\ ref'[p] = ref[p]
      BY <1>1, <2>3
    <3> QED
      BY <2>1, <3>1 DEF RefFits
  <2> QED
    BY <2>2, <2>3
<1>3. SendsOwn(q)'
  BY <1>1 DEF SendsOwn
<1>4. \A s \in Requests : SendsOwn(s)'
  BY <1>1, <1>2, <1>3, OthersSend
<1> QED
  BY <1>2, <1>4 DEF References

LEMMA InsertRefers ==
  ASSUME PayrollKnown, References, NEW q \in Requests, ApproveInsert(q)
  PROVE  References'
<1>1. PICK period \in Periods, n \in Approvals :
        /\ UNCHANGED <<ref, sent>>
        /\ payout' = [p \in Payouts |-> IF p \in NewRows(period, n) THEN "approved" ELSE payout[p]]
        /\ \A p \in NewRows(period, n) : payout[p] = "none"
  BY ApproveInserts DEF providerVars
<1>2. OthersStay(q) /\ pc'[q] = "idle"
  BY ApproveInsertKnown
<1>3. ASSUME NEW p \in Payouts
      PROVE  RefFits(p)'
  <2>1. RefFits(p) /\ ref'[p] = ref[p] /\ sent'[p] = sent[p]
    BY <1>1 DEF References
  <2>2. (payout'[p] = "approved" /\ payout[p] = "none") \/ payout'[p] = payout[p]
    BY <1>1
  <2> QED
    BY <2>1, <2>2 DEF RefFits
<1>4. SendsOwn(q)'
  BY <1>2 DEF SendsOwn
<1>5. \A s \in Requests : SendsOwn(s)'
  BY <1>1, <1>2, <1>4, OthersSend
<1> QED
  BY <1>3, <1>5 DEF References

LEMMA ReferencesKept == PayrollKnown /\ References /\ [Next]_vars => References'
<1> SUFFICES ASSUME PayrollKnown, References, [Next]_vars PROVE References'
  OBVIOUS
<1>1. CASE \/ PlanChanges
           \/ \E w \in Workers : UpdateWorker(w) \/ \E d \in Days : LogAttendance(w, d)
           \/ UNCHANGED vars
  <2>1. UNCHANGED <<payout, ref, sent, pc, cur, external_ref>>
    BY <1>1 DEF PlanChanges, UpdateWorker, LogAttendance, vars, payoutVars, providerVars, requestVars
  <2> QED
    BY <2>1 DEF References, RefFits, SendsOwn
<1>2. ASSUME NEW q \in Requests, NEW w \in Workers, CreateWorkerCheck(q, w)
      PROVE  References'
  <2>1. /\ Begin(q, "creating", <<w>>) /\ UNCHANGED <<payoutVars, providerVars, todo, cur, external_ref, news>>
    BY <1>2 DEF CreateWorkerCheck
  <2>2. "creating" \in Phase /\ <<w>> \in Subject
    BY DEF Phase, Subject
  <2>3. OthersStay(q) /\ pc'[q] = "creating"
    BY <2>1, <2>2, BeginsThere DEF PayrollKnown
  <2> QED
    BY <2>1, <2>3, ReferencesStay DEF payoutVars, providerVars
<1>3. ASSUME NEW q \in Requests, CreateWorkerInsert(q)
      PROVE  References'
  <2>1. End(q) /\ UNCHANGED <<payoutVars, providerVars>>
    BY <1>3 DEF CreateWorkerInsert
  <2>2. OthersStay(q) /\ pc'[q] = "idle"
    BY <2>1, EndLeaves DEF PayrollKnown
  <2> QED
    BY <2>1, <2>2, ReferencesStay DEF payoutVars, providerVars
<1>4. ASSUME NEW q \in Requests, NEW period \in Periods, ApproveCheck(q, period) \/ DisburseSelect(q, period)
      PROVE  References'
  <2>1. OthersStay(q) /\ pc'[q] # "sending"
    BY <1>4, ApproveCheckKnown, SelectKnown
  <2>2. UNCHANGED <<payoutVars, providerVars>>
    BY <1>4 DEF ApproveCheck, DisburseSelect
  <2> QED
    BY <2>1, <2>2, ReferencesStay DEF payoutVars, providerVars
<1>5. ASSUME NEW q \in Requests, DisburseFinish(q)
      PROVE  References'
  <2>1. OthersStay(q) /\ pc'[q] = "idle" /\ UNCHANGED <<payoutVars, sent>>
    BY <1>5, FinishKnown
  <2> QED
    BY <2>1, ReferencesStay DEF payoutVars
<1>6. CASE \E q \in Requests : ApproveInsert(q)
  BY <1>6, InsertRefers
<1>7. CASE \E q \in Requests : DisburseClaim(q) \/ DisburseSend(q) \/ DisburseRecord(q)
  BY <1>7, ClaimRefers, SendRefers, RecordRefers
<1>8. CASE Crash
  BY <1>8, PayrollCrashKnown DEF References, RefFits, SendsOwn, payoutVars, providerVars
<1> QED
  BY <1>1, <1>2, <1>3, <1>4, <1>5, <1>6, <1>7, <1>8 DEF Next, RequestNext, DisburseStep

\* Every transfer of a payout carries the one reference its row had before the
\* first of them, whatever overlapped, was lost or crashed.
THEOREM ReferencesStable == Spec => []StableReference
<1>1. Init => PayrollKnown /\ References
  BY PayrollInitKnown, ReferencesInit
<1>2. PayrollKnown /\ References /\ [Next]_vars => PayrollKnown' /\ References'
  BY PayrollKnownKept, ReferencesKept
<1>3. References => StableReference
  BY DEF References, RefFits, StableReference
<1> QED
  BY <1>1, <1>2, <1>3, PTL DEF Spec

\* What the others believe stays true while the provider takes nothing back.
LEMMA OthersBelieve ==
  ASSUME PayrollKnown, Believed, NEW q \in Requests, OthersStay(q), accepted \subseteq accepted',
         pc'[q] = "accepted" => cur'[q] \in accepted', news'[q] \subseteq accepted'
  PROVE  \A s \in Requests : /\ pc'[s] = "accepted" => cur'[s] \in accepted'
                             /\ news'[s] \subseteq accepted'
<1>1. ASSUME NEW s \in Requests \ {q}
      PROVE  (pc'[s] = "accepted" => cur'[s] \in accepted') /\ news'[s] \subseteq accepted'
  <2>1. pc'[s] = pc[s] /\ cur'[s] = cur[s] /\ news'[s] = news[s]
    BY DEF OthersStay
  <2>2. (pc[s] = "accepted" => cur[s] \in accepted) /\ news[s] \subseteq accepted
    BY DEF Believed
  <2> QED
    BY <2>1, <2>2
<1> QED
  BY <1>1

\* A step that pays nothing and tells nobody.
LEMMA BelievedStays ==
  ASSUME PayrollKnown, Believed, UNCHANGED <<accepted, told>>, NEW q \in Requests, OthersStay(q),
         pc'[q] # "accepted", news'[q] \subseteq accepted,
         \A p \in Payouts : payout'[p] = "paid" => payout[p] = "paid"
  PROVE  Believed'
<1>1. \A s \in Requests : (pc'[s] = "accepted" => cur'[s] \in accepted') /\ news'[s] \subseteq accepted'
  BY OthersBelieve
<1> QED
  BY <1>1 DEF Believed

LEMMA BelievedKept == PayrollKnown /\ Believed /\ [Next]_vars => Believed'
<1> SUFFICES ASSUME PayrollKnown, Believed, [Next]_vars PROVE Believed'
  OBVIOUS
<1>1. CASE \/ PlanChanges
           \/ \E w \in Workers : UpdateWorker(w) \/ \E d \in Days : LogAttendance(w, d)
           \/ UNCHANGED vars
  <2>1. UNCHANGED <<payout, accepted, told, pc, cur, news>>
    BY <1>1 DEF PlanChanges, UpdateWorker, LogAttendance, vars, payoutVars, providerVars, requestVars
  <2> QED
    BY <2>1 DEF Believed
<1>2. ASSUME NEW q \in Requests, NEW w \in Workers, CreateWorkerCheck(q, w)
      PROVE  Believed'
  <2>1. /\ Begin(q, "creating", <<w>>) /\ UNCHANGED <<payoutVars, providerVars, todo, cur, external_ref, news>>
    BY <1>2 DEF CreateWorkerCheck
  <2>2. "creating" \in Phase /\ <<w>> \in Subject
    BY DEF Phase, Subject
  <2>3. OthersStay(q) /\ pc'[q] = "creating"
    BY <2>1, <2>2, BeginsThere DEF PayrollKnown
  <2>4. news'[q] \subseteq accepted
    BY <2>1 DEF Believed
  <2> QED
    BY <2>1, <2>3, <2>4, BelievedStays DEF payoutVars, providerVars
<1>3. ASSUME NEW q \in Requests, CreateWorkerInsert(q)
      PROVE  Believed'
  <2>1. End(q) /\ UNCHANGED <<payoutVars, providerVars>>
    BY <1>3 DEF CreateWorkerInsert
  <2>2. OthersStay(q) /\ pc'[q] = "idle" /\ news'[q] = {}
    BY <2>1, EndLeaves DEF PayrollKnown
  <2> QED
    BY <2>1, <2>2, BelievedStays DEF payoutVars, providerVars
<1>4. ASSUME NEW q \in Requests, NEW period \in Periods, ApproveCheck(q, period) \/ DisburseSelect(q, period)
      PROVE  Believed'
  <2>1. OthersStay(q) /\ pc'[q] # "accepted"
    BY <1>4, ApproveCheckKnown, SelectKnown
  <2>2. UNCHANGED <<payoutVars, providerVars, news>>
    BY <1>4 DEF ApproveCheck, DisburseSelect
  <2>3. news'[q] \subseteq accepted
    BY <2>2 DEF Believed
  <2> QED
    BY <2>1, <2>2, <2>3, BelievedStays DEF payoutVars, providerVars
<1>5. ASSUME NEW q \in Requests, ApproveInsert(q)
      PROVE  Believed'
  <2>1. OthersStay(q) /\ pc'[q] = "idle" /\ news'[q] = {}
    BY <1>5, ApproveInsertKnown
  <2>2. /\ \E S : payout' = [p \in Payouts |-> IF p \in S THEN "approved" ELSE payout[p]]
        /\ UNCHANGED <<accepted, told>>
    BY <1>5 DEF ApproveInsert, providerVars
  <2>3. \A p \in Payouts : payout'[p] = "paid" => payout[p] = "paid"
    BY <2>2
  <2> QED
    BY <2>1, <2>2, <2>3, BelievedStays
<1>6. ASSUME NEW q \in Requests, DisburseClaim(q)
      PROVE  Believed'
  <2>1. OthersStay(q) /\ UNCHANGED <<payout, accepted, told, news>>
    BY <1>6, ClaimKnown DEF providerVars
  <2>2. pc'[q] # "accepted"
    BY <1>6, ClaimKnown
  <2>3. news'[q] \subseteq accepted
    BY <2>1 DEF Believed
  <2> QED
    BY <2>1, <2>2, <2>3, BelievedStays
<1>7. ASSUME NEW q \in Requests, DisburseSend(q)
      PROVE  Believed'
  <2>1. /\ OthersStay(q) /\ accepted \subseteq accepted' /\ UNCHANGED <<payout, told, cur, news>>
        /\ pc'[q] = "accepted" => cur[q] \in accepted'
    BY <1>7, SendKnown DEF payoutVars
  <2>2. (pc'[q] = "accepted" => cur'[q] \in accepted') /\ news'[q] \subseteq accepted'
    BY <2>1 DEF Believed
  <2>3. \A s \in Requests : (pc'[s] = "accepted" => cur'[s] \in accepted') /\ news'[s] \subseteq accepted'
    BY <2>1, <2>2, OthersBelieve
  <2> QED
    BY <2>1, <2>3 DEF Believed
<1>8. ASSUME NEW q \in Requests, DisburseRecord(q)
      PROVE  Believed'
  <2>1. /\ OthersStay(q) /\ pc'[q] = "disburse" /\ cur[q] \in Payouts /\ UNCHANGED <<accepted, told>>
        /\ \/ pc[q] = "accepted" /\ news'[q] = news[q] \cup {cur[q]}
           \/ payout'[cur[q]] = "failed" /\ UNCHANGED news
        /\ \A p \in Payouts \ {cur[q]} : payout'[p] = payout[p]
    BY <1>8, RecordKnown DEF providerVars
  <2>2. news[q] \subseteq accepted /\ (pc[q] = "accepted" => cur[q] \in accepted)
    BY DEF Believed
  <2>3. news'[q] \subseteq accepted'
    BY <2>1, <2>2
  <2>4. \A s \in Requests : (pc'[s] = "accepted" => cur'[s] \in accepted') /\ news'[s] \subseteq accepted'
    BY <2>1, <2>3, OthersBelieve
  <2>5. ASSUME NEW p \in Payouts, payout'[p] = "paid"
        PROVE  p \in accepted'
    <3>1. CASE p = cur[q]
      BY <2>1, <2>2, <2>5, <3>1
    <3>2. CASE p # cur[q]
      BY <2>1, <2>5, <3>2 DEF Believed
    <3> QED
      BY <3>1, <3>2
  <2>6. told' \subseteq accepted'
    BY <2>1 DEF Believed
  <2> QED
    BY <2>4, <2>5, <2>6 DEF Believed
<1>9. ASSUME NEW q \in Requests, DisburseFinish(q)
      PROVE  Believed'
  <2>1. /\ OthersStay(q) /\ pc'[q] = "idle" /\ news'[q] = {} /\ UNCHANGED <<payout, accepted>>
        /\ told' = told \cup news[q]
    BY <1>9, FinishKnown DEF payoutVars
  <2>2. \A s \in Requests : (pc'[s] = "accepted" => cur'[s] \in accepted') /\ news'[s] \subseteq accepted'
    BY <2>1, OthersBelieve
  <2>3. told' \subseteq accepted'
    BY <2>1 DEF Believed
  <2> QED
    BY <2>1, <2>2, <2>3 DEF Believed
<1>10. CASE Crash
  BY <1>10, PayrollCrashKnown DEF Believed, payoutVars, providerVars
<1> QED
  BY <1>1, <1>2, <1>3, <1>4, <1>5, <1>6, <1>7, <1>8, <1>9, <1>10 DEF Next, RequestNext, DisburseStep

\* No payout is called paid, and no worker told so, that the provider did not pay.
THEOREM PaidWasSent == Spec => []PaidIsSent
<1>1. Init => PayrollKnown /\ Believed
  BY PayrollInitKnown, ReferencesInit
<1>2. PayrollKnown /\ Believed /\ [Next]_vars => PayrollKnown' /\ Believed'
  BY PayrollKnownKept, BelievedKept
<1>3. Believed => PaidIsSent
  BY DEF Believed, PaidIsSent
<1> QED
  BY <1>1, <1>2, <1>3, PTL DEF Spec

-----------------------------------------------------------------------------
(* Hours are paid once *)

\* No payout is for more than the hours of its period.
WithinHours ==
  \A p \in Payouts : /\ payout[p] = "none" => paidHours[p] = 0
                     /\ payout[p] # "none" => paidHours[p] <= HoursIn(WorkerOf(p), PeriodOf(p))

\* No two payouts of a worker share a day.
Apart ==
  \A p \in Payouts, r \in Payouts :
    payout[p] # "none" /\ payout[r] # "none" /\ p # r /\ WorkerOf(p) = WorkerOf(r) =>
      PeriodOf(p) \cap PeriodOf(r) = {}

\* The period being approved shares no day with one that was.
ApprovesApart ==
  \A q \in Requests : pc[q] = "approving" => \A r \in ApprovedPeriods : r \cap at[q][1] = {}

Separate == env \cap {"overlap", "any_period"} = {} => WithinHours /\ Apart /\ ApprovesApart

LEMMA PayoutParts ==
  ASSUME NEW p \in Payouts
  PROVE  /\ WorkerOf(p) \in Workers /\ PeriodOf(p) \in Periods /\ PeriodOf(p) \in SUBSET Days
         /\ p = <<PeriodOf(p), WorkerOf(p), p[3]>>
BY PeriodsAssumption DEF Payouts, WorkerOf, PeriodOf

LEMMA SeparateInit == Init => Separate
<1> SUFFICES ASSUME Init PROVE WithinHours /\ Apart /\ ApprovesApart
  BY DEF Separate
<1>1. \A p \in Payouts : payout[p] = "none" /\ paidHours[p] = 0
  BY DEF Init
<1>2. \A q \in Requests : pc[q] = "idle"
  BY DEF Init
<1>3. WithinHours
  BY <1>1 DEF WithinHours
<1>4. Apart
  BY <1>1 DEF Apart
<1>5. ApprovesApart
  BY <1>2 DEF ApprovesApart
<1> QED
  BY <1>3, <1>4, <1>5

\* Hours are only added to.
HoursGrow ==
  \A w \in Workers, S \in SUBSET Days :
    /\ HoursIn(w, S) \in Nat /\ HoursIn(w, S)' \in Nat
    /\ HoursIn(w, S) <= HoursIn(w, S)'

LEMMA HoursStay ==
  ASSUME TypeOK, UNCHANGED hours
  PROVE  HoursGrow
<1>1. ASSUME NEW w \in Workers, NEW S \in SUBSET Days
      PROVE  HoursIn(w, S) \in Nat /\ HoursIn(w, S)' = HoursIn(w, S)
  BY HoursAreNat DEF HoursIn
<1>2. ASSUME NEW w \in Workers, NEW S \in SUBSET Days
      PROVE  /\ HoursIn(w, S) \in Nat /\ HoursIn(w, S)' \in Nat
             /\ HoursIn(w, S) <= HoursIn(w, S)'
  <2> DEFINE h == HoursIn(w, S)
  <2>1. h \in Nat /\ h' = h
    BY <1>1
  <2> HIDE DEF h
  <2>2. h \in Nat /\ h' \in Nat /\ h <= h'
    BY <2>1
  <2> QED
    BY <2>2 DEF h
<1> QED
  BY <1>2 DEF HoursGrow

LEMMA LoggingGrows ==
  ASSUME PayrollKnown, NEW w \in Workers, NEW d \in Days, LogAttendance(w, d)
  PROVE  HoursGrow
<1> SUFFICES ASSUME NEW v \in Workers, NEW S \in SUBSET Days
             PROVE  /\ HoursIn(v, S) \in Nat /\ HoursIn(v, S)' \in Nat
                    /\ HoursIn(v, S) <= HoursIn(v, S)'
  BY DEF HoursGrow
<1> DEFINE f == [e \in Days |-> hours[<<v, e>>]]
           g == [e \in Days |-> hours'[<<v, e>>]]
<1>1. HoursIn(v, S) = SumFunctionOnSet(f, S) /\ HoursIn(v, S)' = SumFunctionOnSet(g, S)
  BY DEF HoursIn
<1>2. \A e \in S : f[e] \in Nat /\ g[e] \in Nat /\ f[e] <= g[e]
  <2>1. \A e \in Days : hours[v, e] \in Nat /\ hours'[v, e] \in Nat /\ hours[v, e] <= hours'[v, e]
    BY ShiftLogged
  <2> QED
    BY <2>1
<1>3. IsFiniteSet(S)
  BY FiniteAssumption, FS_Subset
<1> HIDE DEF f, g
<1>4. SumFunctionOnSet(f, S) \in Nat /\ SumFunctionOnSet(g, S) \in Nat
  BY <1>2, <1>3, SumNat
<1>5. SumFunctionOnSet(f, S) <= SumFunctionOnSet(g, S)
  BY <1>2, <1>3, SumMonotone
<1> QED
  BY <1>1, <1>4, <1>5

\* A step that opens no payout and begins no approval.
LEMMA SeparateStays ==
  ASSUME PayrollKnown, Separate, HoursGrow, UNCHANGED <<paidHours, env>>,
         \A p \in Payouts : payout'[p] # "none" <=> payout[p] # "none",
         \A q \in Requests : pc'[q] = "approving" => pc[q] = "approving" /\ at'[q] = at[q]
  PROVE  Separate'
<1> SUFFICES ASSUME (env \cap {"overlap", "any_period"} = {})' PROVE (WithinHours /\ Apart /\ ApprovesApart)'
  BY DEF Separate
<1>1. WithinHours /\ Apart /\ ApprovesApart
  BY DEF Separate
<1>2. ApprovedPeriods' = ApprovedPeriods
  BY DEF ApprovedPeriods
<1>3. Apart'
  BY <1>1 DEF Apart
<1>4. ApprovesApart'
  BY <1>1, <1>2 DEF ApprovesApart
<1>5. ASSUME NEW p \in Payouts
      PROVE  /\ payout'[p] = "none" => paidHours'[p] = 0
             /\ payout'[p] # "none" => paidHours'[p] <= HoursIn(WorkerOf(p), PeriodOf(p))'
  <2>1. /\ payout[p] = "none" => paidHours[p] = 0
        /\ payout[p] # "none" => paidHours[p] <= HoursIn(WorkerOf(p), PeriodOf(p))
    BY <1>1 DEF WithinHours
  <2> DEFINE h == HoursIn(WorkerOf(p), PeriodOf(p))
  <2>2. h \in Nat /\ h' \in Nat /\ h <= h'
    <3>1. \A w \in Workers, S \in SUBSET Days :
            HoursIn(w, S) \in Nat /\ HoursIn(w, S)' \in Nat /\ HoursIn(w, S) <= HoursIn(w, S)'
      BY DEF HoursGrow
    <3>2. WorkerOf(p) \in Workers /\ PeriodOf(p) \in SUBSET Days
      BY PayoutParts
    <3>3. HoursIn(WorkerOf(p), PeriodOf(p))' = h'
      OBVIOUS
    <3> QED
      BY <3>1, <3>2
  <2>3. paidHours[p] \in Nat /\ paidHours'[p] = paidHours[p]
    BY PayrollTypes DEF PayrollKnown, PayoutsTyped
  <2>4. payout'[p] # "none" => paidHours[p] <= h
    BY <2>1
  <2>5. payout'[p] = "none" => paidHours[p] = 0
    BY <2>1
  <2> HIDE DEF h
  <2>6. payout'[p] # "none" => paidHours'[p] <= h'
    BY <2>2, <2>3, <2>4
  <2> QED
    BY <2>3, <2>5, <2>6 DEF h
<1> QED
  BY <1>3, <1>4, <1>5 DEF WithinHours

LEMMA CheckSeparates ==
  ASSUME PayrollKnown, Separate, NEW q \in Requests, NEW period \in Periods, ApproveCheck(q, period)
  PROVE  Separate'
<1> SUFFICES ASSUME (env \cap {"overlap", "any_period"} = {})' PROVE (WithinHours /\ Apart /\ ApprovesApart)'
  BY DEF Separate
<1>1. UNCHANGED <<payout, paidHours, hours, env>>
  BY DEF ApproveCheck, payoutVars, registerVars
<1>2. WithinHours /\ Apart /\ ApprovesApart
  BY <1>1 DEF Separate
<1>3. WithinHours' /\ Apart' /\ ApprovedPeriods' = ApprovedPeriods
  BY <1>1, <1>2 DEF WithinHours, Apart, ApprovedPeriods, HoursIn
<1>4. /\ OthersStay(q) /\ pc'[q] = "approving" /\ at'[q] = <<period>>
      /\ \A r \in ApprovedPeriods : r \cap period = {}
  BY <1>1, ApproveCheckKnown DEF ApproveCheck
<1>5. ASSUME NEW s \in Requests, pc'[s] = "approving"
      PROVE  \A r \in ApprovedPeriods : r \cap at'[s][1] = {}
  <2>1. CASE s = q
    BY <1>4, <2>1
  <2>2. CASE s # q
    BY <1>2, <1>4, <1>5, <2>2 DEF OthersStay, ApprovesApart
  <2> QED
    BY <2>1, <2>2
<1> QED
  BY <1>3, <1>5 DEF ApprovesApart

LEMMA InsertSeparates ==
  ASSUME PayrollKnown, Separate, NEW q \in Requests, ApproveInsert(q)
  PROVE  Separate'
<1> SUFFICES ASSUME (env \cap {"overlap", "any_period"} = {})' PROVE (WithinHours /\ Apart /\ ApprovesApart)'
  BY DEF Separate
<1>1. PICK period \in Periods, n \in Approvals :
        /\ at[q] = <<period>>
        /\ UNCHANGED <<registerVars, env>>
        /\ payout' = [p \in Payouts |-> IF p \in NewRows(period, n) THEN "approved" ELSE payout[p]]
        /\ paidHours' = [p \in Payouts |-> IF p \in NewRows(period, n)
                                           THEN HoursIn(WorkerOf(p), period) ELSE paidHours[p]]
        /\ \A p \in NewRows(period, n) : payout[p] = "none"
  BY ApproveInserts
<1>2. WithinHours /\ Apart /\ ApprovesApart
  BY <1>1 DEF Separate
<1>3. OthersStay(q) /\ pc'[q] = "idle" /\ pc[q] = "approving" /\ TypeOK
  BY ApproveInsertKnown DEF ApproveInsert, PayrollKnown
<1>4. \A s \in Requests : pc'[s] # "approving"
  <2>1. "overlap" \notin env
    BY <1>1
  <2>2. \A s \in Requests \ {q} : pc[s] = "idle"
    BY <1>3, <2>1 DEF PayrollKnown, OneBusy
  <2> QED
    BY <1>3, <2>2 DEF OthersStay
<1>5. ApprovesApart'
  BY <1>4 DEF ApprovesApart
<1>6. \A p \in NewRows(period, n) : /\ p \in Payouts /\ PeriodOf(p) = period
                                    /\ p = <<period, WorkerOf(p), n>>
  <2>1. \A p \in NewRows(period, n) : p \in Payouts /\ PeriodOf(p) = period /\ p[3] = n
    BY DEF NewRows, PeriodOf
  <2> QED
    BY <2>1, PayoutParts
<1>7. \A p \in Payouts : payout[p] # "none" => PeriodOf(p) \cap period = {}
  <2>1. at[q][1] = period
    BY <1>1
  <2>2. \A r \in ApprovedPeriods : r \cap period = {}
    BY <1>2, <1>3, <2>1 DEF ApprovesApart
  <2> QED
    BY <2>2 DEF ApprovedPeriods
<1>8. Apart'
  <2> SUFFICES ASSUME NEW p \in Payouts, NEW r \in Payouts, payout'[p] # "none", payout'[r] # "none",
                      p # r, WorkerOf(p) = WorkerOf(r)
               PROVE  PeriodOf(p) \cap PeriodOf(r) = {}
    BY DEF Apart
  <2>1. /\ p \in NewRows(period, n) \/ payout[p] # "none"
        /\ r \in NewRows(period, n) \/ payout[r] # "none"
    BY <1>1
  <2>2. CASE p \in NewRows(period, n) /\ r \in NewRows(period, n)
    BY <1>6, <2>2
  <2>3. CASE p \in NewRows(period, n) /\ payout[r] # "none"
    BY <1>6, <1>7, <2>3
  <2>4. CASE payout[p] # "none" /\ r \in NewRows(period, n)
    BY <1>6, <1>7, <2>4
  <2>5. CASE payout[p] # "none" /\ payout[r] # "none"
    BY <1>2, <2>5 DEF Apart
  <2> QED
    BY <2>1, <2>2, <2>3, <2>4, <2>5
<1>9. WithinHours'
  <2>1. \A w, S : HoursIn(w, S)' = HoursIn(w, S)
    BY <1>1 DEF HoursIn, registerVars
  <2>2. ASSUME NEW p \in Payouts
        PROVE  /\ payout'[p] = "none" => paidHours'[p] = 0
               /\ payout'[p] # "none" => paidHours'[p] <= HoursIn(WorkerOf(p), PeriodOf(p))'
    <3>1. CASE p \in NewRows(period, n)
      <4>1. /\ payout'[p] = "approved" /\ PeriodOf(p) = period
            /\ paidHours'[p] = HoursIn(WorkerOf(p), period)
        BY <1>1, <1>6, <3>1
      <4> DEFINE h == HoursIn(WorkerOf(p), period)
      <4>2. h \in Nat
        BY <1>3, <4>1, HoursAreNat, PayoutParts
      <4>3. HoursIn(WorkerOf(p), PeriodOf(p))' = h
        <5>1. HoursIn(WorkerOf(p), PeriodOf(p)) = h
          BY <4>1
        <5> QED
          BY <2>1, <5>1
      <4> HIDE DEF h
      <4>4. h <= h
        BY <4>2
      <4>5. paidHours'[p] = h
        BY <4>1 DEF h
      <4> QED
        BY <4>1, <4>3, <4>4, <4>5
    <3>2. CASE p \notin NewRows(period, n)
      <4>1. payout'[p] = payout[p] /\ paidHours'[p] = paidHours[p]
        BY <1>1, <3>2
      <4> QED
        BY <1>2, <2>1, <4>1 DEF WithinHours
    <3> QED
      BY <3>1, <3>2
  <2> QED
    BY <2>2 DEF WithinHours
<1> QED
  BY <1>5, <1>8, <1>9

LEMMA SeparateKept == PayrollKnown /\ Separate /\ [Next]_vars => Separate'
<1> SUFFICES ASSUME PayrollKnown, Separate, [Next]_vars PROVE Separate'
  OBVIOUS
<1>0. TypeOK
  BY DEF PayrollKnown
<1>1. CASE PlanChanges \/ (\E w \in Workers : UpdateWorker(w)) \/ UNCHANGED vars
  <2>1. UNCHANGED <<hours, payout, paidHours, pc, at, env>>
    BY <1>1 DEF PlanChanges, UpdateWorker, vars, payoutVars, requestVars, registerVars
  <2> QED
    BY <1>0, <2>1, HoursStay, SeparateStays
<1>2. ASSUME NEW w \in Workers, NEW d \in Days, LogAttendance(w, d)
      PROVE  Separate'
  <2>1. UNCHANGED <<payout, paidHours, pc, at, env>>
    BY <1>2 DEF LogAttendance, payoutVars, requestVars
  <2> QED
    BY <1>2, <2>1, LoggingGrows, SeparateStays
<1>3. ASSUME NEW q \in Requests, OthersStay(q), pc'[q] # "approving", UNCHANGED <<hours, paidHours, env>>,
             \A p \in Payouts : payout'[p] # "none" <=> payout[p] # "none"
      PROVE  Separate'
  <2>1. \A s \in Requests : pc'[s] = "approving" => pc[s] = "approving" /\ at'[s] = at[s]
    BY <1>3 DEF OthersStay
  <2> QED
    BY <1>0, <1>3, <2>1, HoursStay, SeparateStays
<1>4. ASSUME NEW q \in Requests, NEW w \in Workers, CreateWorkerCheck(q, w)
      PROVE  Separate'
  <2>1. /\ Begin(q, "creating", <<w>>)
        /\ UNCHANGED <<registerVars, payoutVars, todo, cur, external_ref, news, env>>
    BY <1>4 DEF CreateWorkerCheck
  <2>2. "creating" \in Phase /\ <<w>> \in Subject
    BY DEF Phase, Subject
  <2>3. OthersStay(q) /\ pc'[q] = "creating"
    BY <1>0, <2>1, <2>2, BeginsThere
  <2> QED
    BY <1>3, <2>1, <2>3 DEF payoutVars, registerVars
<1>5. ASSUME NEW q \in Requests, CreateWorkerInsert(q)
      PROVE  Separate'
  <2>1. End(q) /\ UNCHANGED <<hours, payoutVars, env>>
    BY <1>5 DEF CreateWorkerInsert
  <2>2. OthersStay(q) /\ pc'[q] = "idle"
    BY <1>0, <2>1, EndLeaves
  <2> QED
    BY <1>3, <2>1, <2>2 DEF payoutVars
<1>6. ASSUME NEW q \in Requests, NEW period \in Periods, DisburseSelect(q, period)
      PROVE  Separate'
  <2>1. OthersStay(q) /\ pc'[q] = "disburse"
    BY <1>6, SelectKnown
  <2>2. UNCHANGED <<hours, payout, paidHours, env>>
    BY <1>6 DEF DisburseSelect, payoutVars, registerVars
  <2> QED
    BY <1>3, <2>1, <2>2
<1>7. ASSUME NEW q \in Requests, DisburseClaim(q)
      PROVE  Separate'
  <2>1. OthersStay(q) /\ UNCHANGED <<hours, payout, paidHours, env>> /\ pc'[q] # "approving"
    BY <1>7, ClaimKnown DEF registerVars
  <2> QED
    BY <1>3, <2>1
<1>8. ASSUME NEW q \in Requests, DisburseSend(q)
      PROVE  Separate'
  <2>1. OthersStay(q) /\ UNCHANGED <<hours, payout, paidHours, env>> /\ pc'[q] # "approving"
    BY <1>8, SendKnown DEF registerVars, payoutVars
  <2> QED
    BY <1>3, <2>1
<1>9. ASSUME NEW q \in Requests, DisburseRecord(q)
      PROVE  Separate'
  <2>1. /\ OthersStay(q) /\ UNCHANGED <<hours, paidHours, env>> /\ pc'[q] # "approving"
        /\ payout[cur[q]] # "none" /\ payout'[cur[q]] # "none"
        /\ \A p \in Payouts \ {cur[q]} : payout'[p] = payout[p]
    BY <1>9, RecordKnown DEF registerVars
  <2>2. \A p \in Payouts : payout'[p] # "none" <=> payout[p] # "none"
    BY <2>1
  <2> QED
    BY <1>3, <2>1, <2>2
<1>10. ASSUME NEW q \in Requests, DisburseFinish(q)
       PROVE  Separate'
  <2>1. OthersStay(q) /\ UNCHANGED <<hours, payout, paidHours, env>> /\ pc'[q] # "approving"
    BY <1>10, FinishKnown DEF registerVars, payoutVars
  <2> QED
    BY <1>3, <2>1
<1>11. CASE \E q \in Requests, period \in Periods : ApproveCheck(q, period)
  BY <1>11, CheckSeparates
<1>12. CASE \E q \in Requests : ApproveInsert(q)
  BY <1>12, InsertSeparates
<1>13. CASE Crash
  <2>1. /\ UNCHANGED <<hours, payout, paidHours, env>>
        /\ \A q \in Requests : pc'[q] # "approving"
    BY <1>13, PayrollCrashKnown DEF registerVars, payoutVars
  <2> QED
    BY <1>0, <2>1, HoursStay, SeparateStays
<1> QED
  BY <1>1, <1>2, <1>4, <1>5, <1>6, <1>7, <1>8, <1>9, <1>10, <1>11, <1>12, <1>13
  DEF Next, RequestNext, DisburseStep

LEMMA PayoutsFinite == IsFiniteSet(Payouts)
<1>1. IsFiniteSet(Periods)
  <2>1. IsFiniteSet(SUBSET Days)
    BY FiniteAssumption, FS_SUBSET
  <2> QED
    BY <2>1, PeriodsAssumption, FS_Subset
<1>2. IsFiniteSet(Approvals)
  <2>1. 1 \in Int /\ MaxApprovals \in Int
    BY BoundsAssumption
  <2> QED
    BY <2>1, FS_Interval DEF Approvals
<1> DEFINE Triples == (Periods \X Workers) \X Approvals
           row == [t \in Triples |-> <<t[1][1], t[1][2], t[2]>>]
<1>3. IsFiniteSet(Triples)
  <2>1. IsFiniteSet(Periods \X Workers)
    BY <1>1, FiniteAssumption, FS_Product
  <2> QED
    BY <1>2, <2>1, FS_Product
<1>4. row \in Surjection(Triples, Payouts)
  <2>1. row \in [Triples -> Payouts]
    BY DEF Payouts
  <2>2. ASSUME NEW p \in Payouts
        PROVE  \E t \in Triples : row[t] = p
    <3>1. PICK period \in Periods, w \in Workers, k \in Approvals : p = <<period, w, k>>
      BY DEF Payouts
    <3>2. <<<<period, w>>, k>> \in Triples /\ row[<<<<period, w>>, k>>] = p
      BY <3>1
    <3> QED
      BY <3>2
  <2> HIDE DEF row, Triples
  <2> QED
    BY <2>1, <2>2 DEF Surjection
<1> HIDE DEF row, Triples
<1> QED
  BY <1>3, <1>4, FS_Surjection

\* Where one request works at a time and no period overlaps another, no logged
\* hour is in two payouts.
THEOREM HoursPaidOnce == Spec => []HourPaidOnce
<1>1. Init => PayrollKnown /\ Separate
  BY PayrollInitKnown, SeparateInit
<1>2. PayrollKnown /\ Separate /\ [Next]_vars => PayrollKnown' /\ Separate'
  BY PayrollKnownKept, SeparateKept
<1>3. PayrollKnown /\ Separate => HourPaidOnce
  <2> SUFFICES ASSUME PayrollKnown, Separate, env \cap {"overlap", "any_period"} = {}, NEW w \in Workers
               PROVE  PayoutHours(w) <= HoursIn(w, Days)
    BY DEF HourPaidOnce
  <2> DEFINE I == {p \in Payouts : WorkerOf(p) = w}
             f == HoursOf(w)
             T == [p \in I |-> IF payout[p] = "none" THEN {} ELSE PeriodOf(p)]
  <2>1. WithinHours /\ Apart /\ TypeOK /\ PayoutsTyped
    BY PayrollTypes DEF Separate, PayrollKnown
  <2>2. IsFiniteSet(I) /\ IsFiniteSet(Days)
    BY PayoutsFinite, FiniteAssumption, FS_Subset
  <2>3. \A d \in Days : f[d] \in Nat
    BY <2>1, HoursAreNat
  <2>4. ASSUME NEW p \in I
        PROVE  T[p] \in SUBSET Days /\ paidHours[p] \in Nat /\ paidHours[p] <= SumFunctionOnSet(f, T[p])
    <3>1. p \in Payouts /\ WorkerOf(p) = w /\ PeriodOf(p) \in SUBSET Days /\ paidHours[p] \in Nat
      BY <2>1, PayoutParts DEF PayoutsTyped
    <3>2. CASE payout[p] = "none"
      <4>1. paidHours[p] = 0 /\ T[p] = {}
        BY <2>1, <3>1, <3>2 DEF WithinHours
      <4>2. SumFunctionOnSet(f, {}) = 0
        BY <2>2, SumUnfolds
      <4>3. 0 <= 0
        OBVIOUS
      <4> HIDE DEF T, f, I
      <4>4. paidHours[p] <= SumFunctionOnSet(f, T[p])
        BY <4>1, <4>2, <4>3
      <4> QED
        BY <3>1, <4>1, <4>4
    <3>3. CASE payout[p] # "none"
      <4>1. paidHours[p] <= HoursIn(w, PeriodOf(p)) /\ T[p] = PeriodOf(p)
        BY <2>1, <3>1, <3>3 DEF WithinHours
      <4>2. HoursIn(w, PeriodOf(p)) = SumFunctionOnSet(f, PeriodOf(p))
        BY <2>1, <3>1, HoursAreNat
      <4> HIDE DEF T, f, I
      <4> QED
        BY <3>1, <4>1, <4>2
    <3> QED
      BY <3>2, <3>3
  <2>5. \A p \in I : \A r \in I : p # r => T[p] \cap T[r] = {}
    BY <2>1 DEF Apart
  <2>6. PayoutHours(w) = SumFunctionOnSet(paidHours, I)
    BY DEF PayoutHours
  <2>7. HoursIn(w, Days) = SumFunctionOnSet(f, Days)
    BY <2>1, HoursAreNat
  <2> HIDE DEF I, f, T
  <2>8. SumFunctionOnSet(paidHours, I) <= SumFunctionOnSet(f, Days)
    BY <2>2, <2>3, <2>4, <2>5, DisjointParts
  <2> QED
    BY <2>6, <2>7, <2>8
<1> QED
  BY <1>1, <1>2, <1>3, PTL DEF Spec

=============================================================================
