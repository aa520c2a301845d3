--------------------- MODULE LoanRepayment_Members_proofs ---------------------
(***************************************************************************)
(* Proofs about Members and, after them, about LoanRepayment: for every    *)
(* number of handlers, farmers, accounts, requests and attempts, in every  *)
(* environment and under every fault.  The two modules share no variable,  *)
(* only this module of proofs.                                             *)
(*                                                                         *)
(* Members.  MembersKnown says what a handler knows at each place, and     *)
(* OneAtATime that there is one where handlers do not overlap.  On them    *)
(* stand WalletHeld, which counts accounts and the handlers about to open  *)
(* one; CapHeld, which counts members and the handlers about to admit one; *)
(* and CountHeld, which says who still owes a member a calculation.        *)
(*                                                                         *)
(* LoanRepayment.  SafetyInv is inductive.  Its request part says what a   *)
(* request that is about to write still knows to be true; its ledger part  *)
(* relates the rows to each other and to the provider.  The lemmas treat   *)
(* the two apart: how a request may move on, how an attempt may change.    *)
(***************************************************************************)
EXTENDS LoanRepayment, Members, FiniteSetTheorems, TLAPS

-----------------------------------------------------------------------------
(* Members *)

\* What Members assumes of its constants.  The lemmas take it as a hypothesis:
\* only the steps that need a bound see it.
MembersGiven == ScoredAssumption /\ HandlersAssumption /\ BoundsAssumption

LEMMA MembersAssumed == MembersGiven
BY ScoredAssumption, HandlersAssumption, BoundsAssumption DEF MembersGiven

-----------------------------------------------------------------------------
(* The score *)

LEMMA RowsOfAKind ==
  ASSUME MembersGiven, NEW r \in Records
  PROVE  /\ r.open \in Nat /\ r.good \in Nat /\ r.output \in Nat
         /\ Rows(r) \in Nat /\ Rows(r) = r.open + r.good /\ r.output <= r.good
BY DEF MembersGiven, BoundsAssumption, Records, Rows

\* Percentages, and the sums of their multiples, are compared crosswise.
Fractions == Nat \X (Nat \ {0})
AtMost(p, q) == p[1] * q[2] <= q[1] * p[2]

LEMMA ProductsGrow ==
  ASSUME NEW a \in Nat, NEW b \in Nat, NEW c \in Nat, a <= b
  PROVE  a * c \in Nat /\ b * c \in Nat /\ a * c <= b * c
OBVIOUS

LEMMA PositiveProduct ==
  ASSUME NEW a \in Nat \ {0}, NEW b \in Nat \ {0}
  PROVE  a * b \in Nat \ {0}
OBVIOUS

LEMMA CrossSums ==
  ASSUME NEW a \in Nat, NEW b \in Nat, NEW c \in Nat, NEW d \in Nat,
         NEW e \in Nat, NEW f \in Nat, NEW g \in Nat, NEW h \in Nat,
         a * f <= e * b, c * h <= g * d
  PROVE  (a * d + c * b) * (f * h) <= (e * h + g * f) * (b * d)
<1>1. (a * f) * (d * h) <= (e * b) * (d * h)
  BY ProductsGrow
<1>2. (c * h) * (b * f) <= (g * d) * (b * f)
  BY ProductsGrow
<1>3. (a * d + c * b) * (f * h) = (a * f) * (d * h) + (c * h) * (b * f)
  OBVIOUS
<1>4. (e * h + g * f) * (b * d) = (e * b) * (d * h) + (g * d) * (b * f)
  OBVIOUS
<1> QED
  BY <1>1, <1>2, <1>3, <1>4

LEMMA PlusIsMonotone ==
  ASSUME NEW p \in Fractions, NEW q \in Fractions, NEW r \in Fractions, NEW s \in Fractions,
         AtMost(p, q), AtMost(r, s)
  PROVE  Plus(p, r) \in Fractions /\ Plus(q, s) \in Fractions /\ AtMost(Plus(p, r), Plus(q, s))
<1>1. /\ p[1] \in Nat /\ p[2] \in Nat \ {0} /\ q[1] \in Nat /\ q[2] \in Nat \ {0}
      /\ r[1] \in Nat /\ r[2] \in Nat \ {0} /\ s[1] \in Nat /\ s[2] \in Nat \ {0}
  BY DEF Fractions
<1>2. Plus(p, r) = <<p[1] * r[2] + r[1] * p[2], p[2] * r[2]>>
  BY DEF Plus
<1>3. Plus(q, s) = <<q[1] * s[2] + s[1] * q[2], q[2] * s[2]>>
  BY DEF Plus
<1>4. p[2] * r[2] \in Nat \ {0} /\ q[2] * s[2] \in Nat \ {0}
  BY <1>1, PositiveProduct
<1>5. /\ p[1] * r[2] + r[1] * p[2] \in Nat
      /\ q[1] * s[2] + s[1] * q[2] \in Nat
  BY <1>1
<1>6. p[1] * q[2] <= q[1] * p[2] /\ r[1] * s[2] <= s[1] * r[2]
  BY DEF AtMost
<1>7. (p[1] * r[2] + r[1] * p[2]) * (q[2] * s[2]) <= (q[1] * s[2] + s[1] * q[2]) * (p[2] * r[2])
  BY <1>1, <1>6, CrossSums
<1>8. AtMost(Plus(p, r), Plus(q, s))
  BY <1>2, <1>3, <1>7 DEF AtMost
<1> QED
  BY <1>2, <1>3, <1>4, <1>5, <1>8 DEF Fractions

LEMMA TimesIsMonotone ==
  ASSUME NEW w \in Nat, NEW p \in Fractions, NEW q \in Fractions, AtMost(p, q)
  PROVE  Times(w, p) \in Fractions /\ Times(w, q) \in Fractions /\ AtMost(Times(w, p), Times(w, q))
<1>1. p[1] \in Nat /\ p[2] \in Nat \ {0} /\ q[1] \in Nat /\ q[2] \in Nat \ {0}
  BY DEF Fractions
<1>2. Times(w, p) = <<w * p[1], p[2]>> /\ Times(w, q) = <<w * q[1], q[2]>>
  BY DEF Times
<1>3. w * p[1] \in Nat /\ w * q[1] \in Nat
  BY <1>1
<1>4. p[1] * q[2] <= q[1] * p[2]
  BY DEF AtMost
<1>5. (p[1] * q[2]) * w <= (q[1] * p[2]) * w
  BY <1>1, <1>4, ProductsGrow
<1>6. (w * p[1]) * q[2] = (p[1] * q[2]) * w /\ (w * q[1]) * p[2] = (q[1] * p[2]) * w
  BY <1>1
<1>7. AtMost(Times(w, p), Times(w, q))
  BY <1>2, <1>5, <1>6 DEF AtMost
<1> QED
  BY <1>1, <1>2, <1>3, <1>7 DEF Fractions

LEMMA Quotient ==
  ASSUME NEW x \in Nat, NEW d \in Nat \ {0}
  PROVE  x \div d \in Nat /\ d * (x \div d) <= x /\ x < d * (x \div d) + d
OBVIOUS

LEMMA QuotientsGrow ==
  ASSUME NEW x \in Nat, NEW d \in Nat \ {0}, NEW y \in Nat, NEW e \in Nat \ {0},
         x * e <= y * d
  PROVE  x \div d <= y \div e
<1> DEFINE u == x \div d
           v == y \div e
<1>1. u \in Nat /\ d * u <= x
  BY Quotient
<1>2. v \in Nat /\ y < e * v + e
  BY Quotient
<1> HIDE DEF u, v
<1> SUFFICES ASSUME u >= v + 1 PROVE FALSE
  BY <1>1, <1>2 DEF u, v
<1>3. (v + 1) * d <= u * d
  BY <1>1, <1>2, ProductsGrow
<1>4. (v + 1) * d <= x
  BY <1>1, <1>2, <1>3
<1>5. ((v + 1) * d) * e <= x * e
  BY <1>2, <1>4, ProductsGrow
<1>6. y + 1 <= e * (v + 1)
  BY <1>2
<1>7. (y + 1) * d <= (e * (v + 1)) * d
  BY <1>2, <1>6, ProductsGrow
<1>8. ((v + 1) * d) * e = (e * (v + 1)) * d
  BY <1>2
<1>9. (y + 1) * d = y * d + d
  OBVIOUS
<1>10. (e * (v + 1)) * d \in Nat /\ y * d \in Nat /\ x * e \in Nat
  BY <1>2
<1> QED
  BY <1>5, <1>7, <1>8, <1>9, <1>10

LEMMA RoundedIsMonotone ==
  ASSUME NEW p \in Fractions, NEW q \in Fractions, AtMost(p, q)
  PROVE  Rounded(p) \in Nat /\ Rounded(p) <= Rounded(q)
<1> DEFINE a == p[1]
           b == p[2]
           c == q[1]
           d == q[2]
<1>1. a \in Nat /\ b \in Nat \ {0} /\ c \in Nat /\ d \in Nat \ {0}
  BY DEF Fractions
<1>2. a * d <= c * b
  BY DEF AtMost
<1>3. Rounded(p) = (2 * a + b) \div (2 * b) /\ Rounded(q) = (2 * c + d) \div (2 * d)
  BY DEF Rounded
<1> HIDE DEF a, b, c, d
<1>4. /\ 2 * a + b \in Nat /\ 2 * b \in Nat \ {0}
      /\ 2 * c + d \in Nat /\ 2 * d \in Nat \ {0}
  BY <1>1
<1>5. /\ (2 * a + b) * (2 * d) = 4 * (a * d) + 2 * (b * d)
      /\ (2 * c + d) * (2 * b) = 4 * (c * b) + 2 * (b * d)
  BY <1>1
<1>6. a * d \in Nat /\ c * b \in Nat /\ b * d \in Nat
  BY <1>1
<1>7. (2 * a + b) * (2 * d) <= (2 * c + d) * (2 * b)
  BY <1>2, <1>5, <1>6
<1>8. (2 * a + b) \div (2 * b) <= (2 * c + d) \div (2 * d)
  BY <1>4, <1>7, QuotientsGrow
<1>9. (2 * a + b) \div (2 * b) \in Nat
  BY <1>4, Quotient
<1> QED
  BY <1>3, <1>8, <1>9

\* The points a member has on top.
Bonus(k, r) == IF k = "production" THEN ProductionBonus(r) ELSE 0

LEMMA BonusIsMonotone ==
  ASSUME MembersGiven, NEW k \in Kinds, NEW r \in Records, NEW s \in Records,
         s.output >= r.output, Rows(s) >= Rows(r)
  PROVE  Bonus(k, r) \in Nat /\ Bonus(k, s) \in Nat /\ Bonus(k, r) <= Bonus(k, s)
<1>1. /\ Rows(r) \in Nat /\ Rows(s) \in Nat /\ r.output \in Nat /\ s.output \in Nat
  BY RowsOfAKind
<1> QED
  BY <1>1 DEF Bonus, ProductionBonus

\* No fewer good records and no more open ones are no smaller a share.
LEMMA SharesGrow ==
  ASSUME NEW g \in Nat, NEW o \in Nat, NEW h \in Nat, NEW p \in Nat, g <= h, p <= o
  PROVE  g * (h + p) <= h * (g + o)
<1>1. g * p <= h * p
  BY ProductsGrow
<1>2. p * h <= o * h
  BY ProductsGrow
<1>3. h * p = p * h /\ h * o = o * h /\ g * h = h * g
  OBVIOUS
<1>4. g * p <= h * o
  <2> DEFINE w == g * p
             x == h * p
             y == h * o
  <2>1. w \in Nat /\ x \in Nat /\ y \in Nat
    OBVIOUS
  <2>2. w <= x /\ x <= y
    BY <1>1, <1>2, <1>3
  <2> HIDE DEF w, x, y
  <2>3. w <= y
    BY <2>1, <2>2
  <2> QED
    BY <2>3 DEF w, y
<1>5. g * (h + p) = g * h + g * p /\ h * (g + o) = h * g + h * o
  OBVIOUS
<1>6. g * h \in Nat /\ g * p \in Nat /\ h * o \in Nat
  OBVIOUS
<1> QED
  BY <1>3, <1>4, <1>5, <1>6

LEMMA PercentageValue ==
  ASSUME MembersGiven, NEW k \in Kinds, NEW r \in Records
  PROVE  /\ Rows(r) = 0 => Percentage(k, r) = <<Default(k), 1>>
         /\ Rows(r) # 0 =>
              Percentage(k, r) =
                <<Least(100 * r.good + Bonus(k, r) * Rows(r), 100 * Rows(r)), Rows(r)>>
BY DEF Percentage, Bonus

\* A capped percentage of n records, of which g are good, with b points on top.
Capped(g, b, n) == Least(100 * g + b * n, 100 * n)

LEMMA CappedIsMonotone ==
  ASSUME NEW g \in Nat, NEW o \in Nat, NEW b \in Nat, NEW h \in Nat, NEW p \in Nat, NEW c \in Nat,
         NEW n \in Nat, NEW m \in Nat, n = g + o, m = h + p, g <= h, p <= o, b <= c
  PROVE  Capped(g, b, n) * m <= Capped(h, c, m) * n
<1> DEFINE x == 100 * g + b * n
           y == 100 * h + c * m
<1>1. x \in Nat /\ y \in Nat
  OBVIOUS
<1>2. x * m <= y * n
  <2>1. g * m <= h * n
    BY SharesGrow
  <2>2. b * (n * m) <= c * (n * m)
    BY ProductsGrow
  <2>3. x * m = 100 * (g * m) + b * (n * m) /\ y * n = 100 * (h * n) + c * (n * m)
    OBVIOUS
  <2>4. g * m \in Nat /\ h * n \in Nat /\ b * (n * m) \in Nat /\ c * (n * m) \in Nat
    OBVIOUS
  <2> QED
    BY <2>1, <2>2, <2>3, <2>4
<1>3. (100 * n) * m = (100 * m) * n
  OBVIOUS
<1> DEFINE l == Capped(g, b, n)
           z == Capped(h, c, m)
<1>4. l \in Nat /\ l <= x /\ l <= 100 * n /\ z \in {y, 100 * m}
  BY <1>1 DEF Capped, Least
<1> HIDE DEF x, y, l, z
<1>5. l * m <= x * m /\ l * m <= (100 * n) * m
  BY <1>1, <1>4, ProductsGrow
<1>6. l * m \in Nat /\ x * m \in Nat /\ y * n \in Nat /\ (100 * n) * m \in Nat
  BY <1>1, <1>4
<1>7. CASE z = y
  <2>1. z * n = y * n
    BY <1>7
  <2> QED
    BY <1>2, <1>5, <1>6, <2>1 DEF l, z
<1>8. CASE z = 100 * m
  <2>1. z * n = (100 * m) * n
    BY <1>8
  <2> QED
    BY <1>3, <1>5, <2>1 DEF l, z
<1> QED
  BY <1>4, <1>7, <1>8

\* A kind's percentage is a fraction of at most 100.
LEMMA PercentageInRange ==
  ASSUME MembersGiven, NEW k \in Kinds, NEW r \in Records
  PROVE  Percentage(k, r) \in Fractions /\ AtMost(Percentage(k, r), <<100, 1>>)
<1>1. r.good \in Nat /\ Rows(r) \in Nat /\ Bonus(k, r) \in Nat
  BY RowsOfAKind, BonusIsMonotone
<1>2. CASE Rows(r) = 0
  <2>1. Percentage(k, r) = <<Default(k), 1>>
    BY <1>2, PercentageValue
  <2>2. Default(k) \in Nat /\ Default(k) <= 100
    BY DEF Default
  <2> QED
    BY <2>1, <2>2 DEF Fractions, AtMost
<1>3. CASE Rows(r) # 0
  <2> DEFINE n == Rows(r)
             l == Least(100 * r.good + Bonus(k, r) * n, 100 * n)
  <2>1. Percentage(k, r) = <<l, n>>
    BY <1>3, PercentageValue
  <2>2. 100 * r.good + Bonus(k, r) * n \in Nat /\ 100 * n \in Nat
    BY <1>1
  <2>3. l \in Nat /\ l <= 100 * n /\ n \in Nat \ {0}
    BY <1>1, <1>3, <2>2 DEF Least
  <2> HIDE DEF l, n
  <2> QED
    BY <2>1, <2>3 DEF Fractions, AtMost
<1> QED
  BY <1>2, <1>3

\* It does not fall by a good deed, nor when the first good record replaces the
\* percentage that stood for none.
LEMMA PercentageIsMonotone ==
  ASSUME MembersGiven, NEW k \in Kinds, NEW r \in Records, NEW s \in Records,
         s.good >= r.good, s.output >= r.output, s.open <= r.open, Rows(s) >= Rows(r)
  PROVE  AtMost(Percentage(k, r), Percentage(k, s))
<1> DEFINE g == r.good
           o == r.open
           n == Rows(r)
           b == Bonus(k, r)
           h == s.good
           p == s.open
           m == Rows(s)
           c == Bonus(k, s)
<1>1. /\ g \in Nat /\ o \in Nat /\ n \in Nat /\ n = g + o
      /\ h \in Nat /\ p \in Nat /\ m \in Nat /\ m = h + p
      /\ g <= h /\ p <= o /\ n <= m
  BY RowsOfAKind
<1>2. b \in Nat /\ c \in Nat /\ b <= c
  BY BonusIsMonotone
<1>3. /\ n = 0 => Percentage(k, r) = <<Default(k), 1>>
      /\ n # 0 => Percentage(k, r) = <<Capped(g, b, n), n>>
      /\ m = 0 => Percentage(k, s) = <<Default(k), 1>>
      /\ m # 0 => Percentage(k, s) = <<Capped(h, c, m), m>>
  BY PercentageValue DEF Capped
<1>4. Default(k) \in Nat /\ Default(k) <= 100
  BY DEF Default
<1> HIDE DEF g, o, n, b, h, p, m, c
<1>5. CASE m = 0
  <2>1. n = 0
    BY <1>1, <1>5
  <2> QED
    BY <1>3, <1>4, <1>5, <2>1 DEF AtMost
<1>6. CASE n = 0 /\ m # 0
  <2>1. h = m
    BY <1>1, <1>6
  <2>2. c * m \in Nat
    BY <1>1, <1>2
  <2>3. Capped(h, c, m) = 100 * m
    BY <1>1, <2>1, <2>2 DEF Capped, Least
  <2>4. Default(k) * m <= 100 * m
    BY <1>1, <1>4, ProductsGrow
  <2>5. Default(k) * m <= (100 * m) * 1
    BY <1>1, <2>4
  <2> QED
    BY <1>3, <1>6, <2>3, <2>5 DEF AtMost
<1>7. CASE n # 0 /\ m # 0
  <2>1. Capped(g, b, n) * m <= Capped(h, c, m) * n
    BY <1>1, <1>2, CappedIsMonotone
  <2> QED
    BY <1>3, <1>7, <2>1 DEF AtMost
<1>8. n # 0 => m # 0
  BY <1>1
<1> QED
  BY <1>5, <1>6, <1>7, <1>8

\* The weighted sum of four percentages, of which the score is the rounding.
Weighted(p, q, r, s) ==
  Plus(Plus(Times(40, p), Times(25, q)), Plus(Times(20, r), Times(15, s)))

LEMMA WeightedIsMonotone ==
  ASSUME NEW p \in Fractions, NEW q \in Fractions, NEW r \in Fractions, NEW s \in Fractions,
         NEW t \in Fractions, NEW u \in Fractions, NEW v \in Fractions, NEW w \in Fractions,
         AtMost(p, t), AtMost(q, u), AtMost(r, v), AtMost(s, w)
  PROVE  /\ Weighted(p, q, r, s) \in Fractions /\ Weighted(t, u, v, w) \in Fractions
         /\ AtMost(Weighted(p, q, r, s), Weighted(t, u, v, w))
<1> DEFINE A(x) == Times(40, x)
           B(x) == Times(25, x)
           C(x) == Times(20, x)
           D(x) == Times(15, x)
<1>1. /\ A(p) \in Fractions /\ A(t) \in Fractions /\ AtMost(A(p), A(t))
      /\ B(q) \in Fractions /\ B(u) \in Fractions /\ AtMost(B(q), B(u))
      /\ C(r) \in Fractions /\ C(v) \in Fractions /\ AtMost(C(r), C(v))
      /\ D(s) \in Fractions /\ D(w) \in Fractions /\ AtMost(D(s), D(w))
  BY TimesIsMonotone
<1> HIDE DEF A, B, C, D
<1>2. /\ Plus(A(p), B(q)) \in Fractions /\ Plus(A(t), B(u)) \in Fractions
      /\ AtMost(Plus(A(p), B(q)), Plus(A(t), B(u)))
  BY <1>1, PlusIsMonotone
<1>3. /\ Plus(C(r), D(s)) \in Fractions /\ Plus(C(v), D(w)) \in Fractions
      /\ AtMost(Plus(C(r), D(s)), Plus(C(v), D(w)))
  BY <1>1, PlusIsMonotone
<1>4. /\ Plus(Plus(A(p), B(q)), Plus(C(r), D(s))) \in Fractions
      /\ Plus(Plus(A(t), B(u)), Plus(C(v), D(w))) \in Fractions
      /\ AtMost(Plus(Plus(A(p), B(q)), Plus(C(r), D(s))), Plus(Plus(A(t), B(u)), Plus(C(v), D(w))))
  BY <1>2, <1>3, PlusIsMonotone
<1> QED
  BY <1>4 DEF Weighted, A, B, C, D

LEMMA InRange ==
  ASSUME NEW a, NEW n \in Nat
  PROVE  a \in 0..n <=> a \in Nat /\ a <= n
OBVIOUS

\* A good deed never lowers the score the formula gives, and no records give
\* one outside 0..100 points.
LEMMA ScoreIsMonotone ==
  ASSUME MembersGiven, NEW before \in [Kinds -> Records], NEW after \in [Kinds -> Records],
         \A k \in Kinds : /\ after[k].good >= before[k].good
                          /\ after[k].output >= before[k].output
                          /\ after[k].open <= before[k].open
                          /\ Rows(after[k]) >= Rows(before[k])
  PROVE  Score(before) \in 0..10000 /\ Score(after) \in 0..10000 /\ Score(before) <= Score(after)
<1> DEFINE b(k) == Percentage(k, before[k])
           a(k) == Percentage(k, after[k])
           full == <<100, 1>>
<1>1. \A k \in Kinds : /\ b(k) \in Fractions /\ AtMost(b(k), full)
                       /\ a(k) \in Fractions /\ AtMost(a(k), full)
                       /\ AtMost(b(k), a(k))
  BY PercentageInRange, PercentageIsMonotone
<1>2. "dues" \in Kinds /\ "production" \in Kinds /\ "loans" \in Kinds /\ "attendance" \in Kinds
  BY DEF Kinds
<1>3. full \in Fractions
  BY DEF Fractions
<1> DEFINE wb == Weighted(b("dues"), b("production"), b("loans"), b("attendance"))
           wa == Weighted(a("dues"), a("production"), a("loans"), a("attendance"))
           wf == Weighted(full, full, full, full)
<1>4. Score(before) = Rounded(wb) /\ Score(after) = Rounded(wa)
  BY DEF Score, Weight, Weighted
<1>5. Rounded(wf) = 10000
  <2>1. wf = <<10000, 1>>
    BY DEF Weighted, Plus, Times
  <2> HIDE DEF wf
  <2> QED
    BY <2>1 DEF Rounded
<1> HIDE DEF b, a, full
<1>6. wb \in Fractions /\ wa \in Fractions /\ AtMost(wb, wa)
  BY <1>1, <1>2, WeightedIsMonotone
<1>7. wf \in Fractions /\ AtMost(wb, wf) /\ AtMost(wa, wf)
  BY <1>1, <1>2, <1>3, WeightedIsMonotone
<1> HIDE DEF wb, wa, wf
<1> DEFINE x == Rounded(wb)
           y == Rounded(wa)
           z == Rounded(wf)
<1>8. x \in Nat /\ y \in Nat /\ x <= y /\ x <= z /\ y <= z
  BY <1>6, <1>7, RoundedIsMonotone
<1>9. Score(before) = x /\ Score(after) = y /\ z = 10000
  BY <1>4, <1>5
<1> HIDE DEF x, y, z
<1>10. x <= 10000 /\ y <= 10000
  BY <1>8, <1>9
<1>11. x \in 0..10000 /\ y \in 0..10000
  BY <1>8, <1>10, InRange
<1> QED
  BY <1>8, <1>9, <1>11

-----------------------------------------------------------------------------
(* Types *)

\* The kinds a calculation at place p has read.
ReadSoFar(p) ==
  IF p = "production" THEN {"dues"}
  ELSE IF p = "loans" THEN {"dues", "production"}
  ELSE IF p = "attendance" THEN {"dues", "production", "loans"}
  ELSE IF p = "save" THEN Kinds
  ELSE {}

Calculates(p) == p \in Kinds \cup {"save"}

\* What a request at its place has been told.
HandlerKnows(q) ==
  /\ pc[q] = "opened" => account[q] > 0
  /\ pc[q] = "admitting" => at[q] \in Farmers
  /\ Calculates(pc[q]) => at[q] \in Scored
  /\ \A k \in ReadSoFar(pc[q]) : seen[q][k] \in Records

MembersKnown == MembersGiven /\ MembersTypeOK /\ \A q \in Handlers : HandlerKnows(q)

\* The types, one group of variables at a time.
WalletTyped ==
  accounts \in 0..MaxAccounts /\ wallet \in 0..accounts \cup {Entered} /\ cleared \in 0..MaxClears
RegisterTyped ==
  plan \in {"growth", "starter"} /\ member \in [Farmers -> {"none", "active", "inactive", "suspended"}]
RecordsTyped == records \in [Scored -> [Kinds -> Records]]
ScoreTyped == score \in [Scored -> 0..10000] /\ counted \in [Scored -> [Kinds -> Records]]
TasksTyped == tasks \in [Scored -> Nat]
HandlersTyped ==
  /\ pc \in [Handlers -> Place]
  /\ at \in [Handlers -> Farmers \cup {Nobody}]
  /\ seen \in [Handlers -> [Kinds -> Records \cup {Unread}]]
  /\ old \in [Handlers -> 0..10000]
AccountTyped == account \in [Handlers -> 0..accounts]

LEMMA Typed ==
  MembersTypeOK <=> /\ WalletTyped /\ RegisterTyped /\ RecordsTyped /\ ScoreTyped /\ TasksTyped
                    /\ HandlersTyped /\ AccountTyped /\ env \in Environments
BY DEF MembersTypeOK, WalletTyped, RegisterTyped, RecordsTyped, ScoreTyped, TasksTyped, HandlersTyped,
       AccountTyped

LEMMA TypedNext ==
  MembersTypeOK' <=> /\ WalletTyped' /\ RegisterTyped' /\ RecordsTyped' /\ ScoreTyped' /\ TasksTyped'
                     /\ HandlersTyped' /\ AccountTyped' /\ (env \in Environments)'
BY DEF MembersTypeOK, WalletTyped, RegisterTyped, RecordsTyped, ScoreTyped, TasksTyped, HandlersTyped,
       AccountTyped

\* A group that is left alone keeps its type.
LEMMA StaysTyped ==
  ASSUME MembersTypeOK
  PROVE  /\ UNCHANGED walletVars => WalletTyped'
         /\ UNCHANGED registerVars => RegisterTyped'
         /\ UNCHANGED records => RecordsTyped'
         /\ UNCHANGED scoreVars => ScoreTyped'
         /\ UNCHANGED tasks => TasksTyped'
         /\ UNCHANGED handlerVars => HandlersTyped'
         /\ UNCHANGED <<pc, at, seen, old>> => HandlersTyped'
         /\ UNCHANGED <<accounts, account>> => AccountTyped'
         /\ UNCHANGED env => (env \in Environments)'
<1>1. /\ WalletTyped /\ RegisterTyped /\ RecordsTyped /\ ScoreTyped /\ TasksTyped
      /\ HandlersTyped /\ AccountTyped /\ env \in Environments
  BY Typed
<1>2. UNCHANGED walletVars => WalletTyped'
  BY <1>1 DEF WalletTyped, walletVars
<1>3. UNCHANGED registerVars => RegisterTyped'
  BY <1>1 DEF RegisterTyped, registerVars
<1>4. (UNCHANGED records => RecordsTyped') /\ (UNCHANGED tasks => TasksTyped')
  BY <1>1 DEF RecordsTyped, TasksTyped
<1>5. UNCHANGED scoreVars => ScoreTyped'
  BY <1>1 DEF ScoreTyped, scoreVars
<1>6. /\ UNCHANGED handlerVars => HandlersTyped'
      /\ UNCHANGED <<pc, at, seen, old>> => HandlersTyped'
  BY <1>1 DEF HandlersTyped, handlerVars
<1>7. UNCHANGED <<accounts, account>> => AccountTyped'
  BY <1>1 DEF AccountTyped
<1> QED
  BY <1>1, <1>2, <1>3, <1>4, <1>5, <1>6, <1>7

\* Two requests are under way only where requests overlap.
OneAtATime ==
  "overlap" \notin env =>
    \A q \in Handlers, s \in Handlers : pc[q] # "idle" /\ pc[s] # "idle" => q = s

LEMMA NoRecordsAreRecords == MembersGiven => NoRecords \in Records
BY DEF MembersGiven, BoundsAssumption, NoRecords, Records, Rows

LEMMA ScoreIsInRange ==
  ASSUME MembersGiven, NEW all \in [Kinds -> Records]
  PROVE  Score(all) \in 0..10000
<1>1. \A k \in Kinds : /\ all[k].good >= all[k].good /\ all[k].output >= all[k].output
                       /\ all[k].open <= all[k].open /\ Rows(all[k]) >= Rows(all[k])
  <2> SUFFICES ASSUME NEW k \in Kinds
               PROVE  /\ all[k].good >= all[k].good /\ all[k].output >= all[k].output
                      /\ all[k].open <= all[k].open /\ Rows(all[k]) >= Rows(all[k])
    OBVIOUS
  <2>1. all[k] \in Records
    OBVIOUS
  <2> QED
    BY <2>1, RowsOfAKind
<1> QED
  BY <1>1, ScoreIsMonotone

LEMMA MembersInitKnown ==
  ASSUME MembersGiven, MembersInit
  PROVE  MembersKnown /\ OneAtATime
<1>1. NoRecords \in Records
  BY NoRecordsAreRecords
<1>2. MembersTypeOK
  <2>1. /\ accounts \in 0..MaxAccounts /\ wallet \in 0..accounts \cup {Entered}
        /\ cleared \in 0..MaxClears /\ plan \in {"growth", "starter"} /\ env \in Environments
    BY DEF MembersInit, MembersGiven, BoundsAssumption
  <2>2. member \in [Farmers -> {"none", "active", "inactive", "suspended"}]
    BY DEF MembersInit
  <2>3. /\ records \in [Scored -> [Kinds -> Records]]
        /\ counted \in [Scored -> [Kinds -> Records]]
    BY <1>1 DEF MembersInit
  <2>4. score \in [Scored -> 0..10000] /\ tasks \in [Scored -> Nat]
    BY DEF MembersInit
  <2>5. /\ pc \in [Handlers -> Place]
        /\ at \in [Handlers -> Farmers \cup {Nobody}]
        /\ seen \in [Handlers -> [Kinds -> Records \cup {Unread}]]
    BY DEF MembersInit, Place
  <2>6. old \in [Handlers -> 0..10000] /\ account \in [Handlers -> 0..accounts]
    BY DEF MembersInit
  <2> QED
    BY <2>1, <2>2, <2>3, <2>4, <2>5, <2>6 DEF MembersTypeOK
<1>3. \A q \in Handlers : pc[q] = "idle"
  BY DEF MembersInit
<1>4. \A q \in Handlers : HandlerKnows(q)
  BY <1>3 DEF HandlerKnows, ReadSoFar, Calculates, Kinds
<1> QED
  BY <1>2, <1>3, <1>4 DEF MembersKnown, OneAtATime

\* The request that ends knows nothing, and the others what they knew.
LEMMA EndIsKnown ==
  ASSUME MembersTypeOK, NEW q \in Handlers, End(q)
  PROVE  /\ pc' = [pc EXCEPT ![q] = "idle"] /\ pc' \in [Handlers -> Place]
         /\ at' = [at EXCEPT ![q] = Nobody] /\ at' \in [Handlers -> Farmers \cup {Nobody}]
         /\ seen' \in [Handlers -> [Kinds -> Records \cup {Unread}]]
         /\ old' \in [Handlers -> 0..10000]
         /\ account' \in [Handlers -> 0..accounts]
         /\ pc'[q] = "idle" /\ at'[q] = Nobody
         /\ \A s \in Handlers \ {q} :
              /\ pc'[s] = pc[s] /\ at'[s] = at[s] /\ seen'[s] = seen[s]
              /\ account'[s] = account[s]
<1>1. accounts \in Nat
  BY DEF MembersTypeOK
<1>2. /\ pc' = [pc EXCEPT ![q] = "idle"] /\ at' = [at EXCEPT ![q] = Nobody]
      /\ seen' = [seen EXCEPT ![q] = [k \in Kinds |-> Unread]]
      /\ old' = [old EXCEPT ![q] = 0] /\ account' = [account EXCEPT ![q] = 0]
  BY DEF End
<1>3. /\ pc \in [Handlers -> Place] /\ at \in [Handlers -> Farmers \cup {Nobody}]
      /\ seen \in [Handlers -> [Kinds -> Records \cup {Unread}]]
      /\ old \in [Handlers -> 0..10000] /\ account \in [Handlers -> 0..accounts]
  BY DEF MembersTypeOK
<1>4. pc' \in [Handlers -> Place] /\ pc'[q] = "idle"
  BY <1>2, <1>3 DEF Place
<1>5. at' \in [Handlers -> Farmers \cup {Nobody}] /\ at'[q] = Nobody
  BY <1>2, <1>3
<1>6. seen' \in [Handlers -> [Kinds -> Records \cup {Unread}]]
  BY <1>2, <1>3
<1>7. old' \in [Handlers -> 0..10000] /\ account' \in [Handlers -> 0..accounts]
  BY <1>1, <1>2, <1>3
<1>8. \A s \in Handlers \ {q} :
        /\ pc'[s] = pc[s] /\ at'[s] = at[s] /\ seen'[s] = seen[s]
        /\ account'[s] = account[s]
  BY <1>2, <1>3
<1> QED
  BY <1>2, <1>4, <1>5, <1>6, <1>7, <1>8

-----------------------------------------------------------------------------
(* Steps *)

LEMMA PutIsKnown ==
  ASSUME MembersKnown, NEW f \in Scored, NEW k \in Kinds, NEW r, Put(f, k, r)
  PROVE  /\ records' \in [Scored -> [Kinds -> Records]] /\ r \in Records
         /\ records'[f][k] = r
         /\ \A g \in Scored, j \in Kinds : g # f \/ j # k => records'[g][j] = records[g][j]
<1>1. records \in [Scored -> [Kinds -> Records]] /\ r \in Records
  BY DEF MembersKnown, MembersTypeOK, Put
<1> DEFINE row == [records[f] EXCEPT ![k] = r]
<1>2. records' = [records EXCEPT ![f] = row]
  BY DEF Put
<1>3. row \in [Kinds -> Records] /\ row[k] = r /\ \A j \in Kinds \ {k} : row[j] = records[f][j]
  BY <1>1
<1> HIDE DEF row
<1> QED
  BY <1>1, <1>2, <1>3

\* Where a deed is calculated for, it is followed by a task.
Calculated == "silent" \notin env /\ "score" \in env

\* A step that only records: no score is calculated in it.
OnlyRecords ==
  /\ UNCHANGED <<walletVars, registerVars, scoreVars, handlerVars, env>>
  /\ records' \in [Scored -> [Kinds -> Records]]
  /\ tasks' \in [Scored -> Nat]
  /\ \A f \in Scored : tasks[f] > 0 => tasks'[f] > 0
  /\ Calculated =>
       \A f \in Scored, k \in {"dues", "loans"} :
         tasks'[f] > 0 \/ records'[f][k].good = records[f][k].good

LEMMA QueueIsKnown ==
  ASSUME MembersTypeOK, NEW f \in Scored, Queue(f)
  PROVE  /\ tasks' \in [Scored -> Nat]
         /\ \A g \in Scored : tasks[g] > 0 => tasks'[g] > 0
         /\ "score" \in env => tasks'[f] > 0
<1>1. tasks \in [Scored -> Nat]
  BY DEF MembersTypeOK
<1> QED
  BY <1>1 DEF Queue

LEMMA KindNames ==
  "dues" \in Kinds /\ "production" \in Kinds /\ "loans" \in Kinds /\ "attendance" \in Kinds
BY DEF Kinds

\* A record that does not say that something was paid is written in silence.
LEMMA SilentRecord ==
  ASSUME MembersKnown, NEW f \in Scored, NEW k \in Kinds, NEW r, Put(f, k, r),
         k \in {"production", "attendance"} \/ r.good = records[f][k].good \/ ~Calculated,
         UNCHANGED <<walletVars, registerVars, scoreVars, handlerVars, env>>,
         tasks' = tasks \/ Queue(f)
  PROVE  OnlyRecords
<1>1. /\ records' \in [Scored -> [Kinds -> Records]] /\ records'[f][k] = r
      /\ \A g \in Scored, j \in Kinds : g # f \/ j # k => records'[g][j] = records[g][j]
  BY PutIsKnown
<1>2. tasks' \in [Scored -> Nat] /\ \A g \in Scored : tasks[g] > 0 => tasks'[g] > 0
  BY QueueIsKnown DEF MembersKnown, MembersTypeOK
<1>3. ASSUME Calculated, NEW g \in Scored, NEW j \in {"dues", "loans"}
      PROVE  records'[g][j].good = records[g][j].good
  <2>1. j \in Kinds
    BY KindNames
  <2>2. CASE g = f /\ j = k
    BY <1>1, <1>3, <2>2
  <2>3. CASE g # f \/ j # k
    BY <1>1, <2>1, <2>3
  <2> QED
    BY <2>2, <2>3
<1> QED
  BY <1>1, <1>2, <1>3 DEF OnlyRecords

\* A payment the provider reports leaves a task.
LEMMA ReportedPayment ==
  ASSUME MembersKnown, NEW f \in Scored, NEW k \in Kinds, NEW r, Put(f, k, r), Queue(f),
         UNCHANGED <<walletVars, registerVars, scoreVars, handlerVars, env>>
  PROVE  OnlyRecords
<1>1. /\ records' \in [Scored -> [Kinds -> Records]]
      /\ \A g \in Scored, j \in Kinds : g # f \/ j # k => records'[g][j] = records[g][j]
  BY PutIsKnown
<1>2. /\ tasks' \in [Scored -> Nat] /\ \A g \in Scored : tasks[g] > 0 => tasks'[g] > 0
      /\ "score" \in env => tasks'[f] > 0
  BY QueueIsKnown DEF MembersKnown
<1>3. ASSUME Calculated, NEW g \in Scored, NEW j \in {"dues", "loans"}
      PROVE  tasks'[g] > 0 \/ records'[g][j].good = records[g][j].good
  BY <1>1, <1>2, <1>3, KindNames DEF Calculated
<1> QED
  BY <1>1, <1>2, <1>3 DEF OnlyRecords

LEMMA OpenedKeepsGood ==
  ASSUME MembersGiven, NEW r \in Records
  PROVE  Opened(r).good = r.good
BY DEF Opened, Records

LEMMA RecordsOf ==
  ASSUME MembersKnown, NEW f \in Scored, NEW k \in Kinds
  PROVE  records[f][k] \in Records
BY DEF MembersKnown, MembersTypeOK

LEMMA PaymentStepOnlyRecords ==
  ASSUME MembersKnown, NEW f \in Scored, PaymentStep(f)
  PROVE  OnlyRecords
<1>0. /\ records[f]["dues"] \in Records /\ records[f]["loans"] \in Records
      /\ Opened(records[f]["dues"]).good = records[f]["dues"].good
      /\ Opened(records[f]["loans"]).good = records[f]["loans"].good
  BY RecordsOf, OpenedKeepsGood, KindNames DEF MembersKnown
<1>1. CASE DuesStarted(f)
  BY <1>0, <1>1, SilentRecord, KindNames DEF DuesStarted
<1>2. CASE DuesPaid(f)
  BY <1>2, ReportedPayment, KindNames DEF DuesPaid
<1>3. CASE DuesPaidSilently(f)
  BY <1>3, SilentRecord, KindNames DEF DuesPaidSilently, Calculated
<1>4. CASE LoanPaidOut(f)
  BY <1>0, <1>4, SilentRecord, KindNames DEF LoanPaidOut
<1>5. CASE LoanRepaid(f)
  BY <1>5, ReportedPayment, KindNames DEF LoanRepaid
<1>6. CASE LoanClosedSilently(f)
  BY <1>6, SilentRecord, KindNames DEF LoanClosedSilently, Calculated
<1> QED
  BY <1>1, <1>2, <1>3, <1>4, <1>5, <1>6 DEF PaymentStep

\* Production and attendance are calculated for by nobody.
LEMMA SilentKind ==
  ASSUME MembersKnown, NEW f \in Scored, NEW k \in {"production", "attendance"},
         \E r : Put(f, k, r),
         UNCHANGED <<walletVars, registerVars, scoreVars, tasks, handlerVars, env>>
  PROVE  OnlyRecords
<1>1. PICK r : Put(f, k, r)
  OBVIOUS
<1> QED
  BY <1>1, SilentRecord, KindNames

LEMMA RecordStepOnlyRecords ==
  ASSUME MembersKnown, NEW f \in Scored, RecordStep(f) \/ YearPasses(f)
  PROVE  OnlyRecords
<1>1. CASE ProductionLogged(f)
  <2>1. \E r : Put(f, "production", r)
    BY <1>1 DEF ProductionLogged
  <2> QED
    BY <1>1, <2>1, SilentKind DEF ProductionLogged
<1>2. CASE ProductionUpdated(f)
  <2>1. \E r : Put(f, "production", r)
    BY <1>2 DEF ProductionUpdated
  <2> QED
    BY <1>2, <2>1, SilentKind DEF ProductionUpdated
<1>3. CASE ProductionDeleted(f)
  <2>1. \E r : Put(f, "production", r)
    BY <1>3 DEF ProductionDeleted, Dropped
  <2> QED
    BY <1>3, <2>1, SilentKind DEF ProductionDeleted
<1>4. CASE AttendanceRecorded(f)
  <2>1. \E r : Put(f, "attendance", r)
    BY <1>4 DEF AttendanceRecorded
  <2> QED
    BY <1>4, <2>1, SilentKind DEF AttendanceRecorded
<1>5. CASE YearPasses(f)
  <2>1. \/ \E r : Put(f, "production", r)
        \/ \E r : Put(f, "attendance", r)
    BY <1>5 DEF YearPasses, Dropped
  <2> QED
    BY <1>5, <2>1, SilentKind DEF YearPasses
<1> QED
  BY <1>1, <1>2, <1>3, <1>4, <1>5 DEF RecordStep

\* The requests other than q do not notice.
OthersKept(q) ==
  \A s \in Handlers \ {q} :
    pc'[s] = pc[s] /\ at'[s] = at[s] /\ seen'[s] = seen[s] /\ account'[s] = account[s]

LEMMA OthersKnow ==
  ASSUME MembersKnown, MembersTypeOK', NEW q \in Handlers, OthersKept(q), HandlerKnows(q)'
  PROVE  MembersKnown'
<1>1. ASSUME NEW s \in Handlers \ {q}
      PROVE  HandlerKnows(s)'
  <2>1. HandlerKnows(s)
    BY DEF MembersKnown
  <2>2. pc'[s] = pc[s] /\ at'[s] = at[s] /\ seen'[s] = seen[s] /\ account'[s] = account[s]
    BY DEF OthersKept
  <2> QED
    BY <2>1, <2>2 DEF HandlerKnows
<1>2. \A s \in Handlers : HandlerKnows(s)'
  BY <1>1
<1> QED
  BY <1>2 DEF MembersKnown

LEMMA StillAlone ==
  ASSUME OneAtATime, NEW q \in Handlers, OthersKept(q), env' = env,
         pc[q] # "idle" \/ Free(q)
  PROVE  OneAtATime'
BY DEF OneAtATime, OthersKept, Free

\* The requests do not notice at all.
LEMMA NobodyNotices ==
  ASSUME MembersKnown, OneAtATime, MembersTypeOK', UNCHANGED <<handlerVars, env>>
  PROVE  MembersKnown' /\ OneAtATime'
<1>1. pc' = pc /\ at' = at /\ seen' = seen /\ account' = account /\ env' = env
  BY DEF handlerVars
<1>2. ASSUME NEW s \in Handlers PROVE HandlerKnows(s)'
  BY <1>1 DEF MembersKnown, HandlerKnows
<1> QED
  BY <1>1, <1>2 DEF MembersKnown, OneAtATime

LEMMA OnlyRecordsKnown ==
  ASSUME MembersKnown, OneAtATime, OnlyRecords
  PROVE  MembersKnown' /\ OneAtATime'
<1>1. MembersTypeOK
  BY DEF MembersKnown
<1>2. RecordsTyped' /\ TasksTyped'
  BY DEF OnlyRecords, RecordsTyped, TasksTyped
<1>3. UNCHANGED <<accounts, account>>
  BY DEF OnlyRecords, walletVars, handlerVars
<1>4. MembersTypeOK'
  BY <1>1, <1>2, <1>3, StaysTyped, TypedNext DEF OnlyRecords
<1> QED
  BY <1>4, NobodyNotices DEF OnlyRecords

LEMMA PlanChangesKnown ==
  ASSUME MembersKnown, OneAtATime, PlanChanges
  PROVE  MembersKnown' /\ OneAtATime'
<1>1. MembersTypeOK
  BY DEF MembersKnown
<1>2. RegisterTyped' /\ UNCHANGED <<accounts, account>>
  BY <1>1, Typed DEF PlanChanges, RegisterTyped, walletVars, handlerVars
<1>3. MembersTypeOK'
  BY <1>1, <1>2, StaysTyped, TypedNext DEF PlanChanges
<1> QED
  BY <1>3, NobodyNotices DEF PlanChanges

LEMMA UpdateCooperativeKnown ==
  ASSUME MembersKnown, OneAtATime, UpdateCooperative
  PROVE  MembersKnown' /\ OneAtATime'
<1>1. MembersTypeOK
  BY DEF MembersKnown
<1>2. /\ UNCHANGED <<accounts, account>>
      /\ UNCHANGED <<registerVars, records, scoreVars, tasks, handlerVars, env>>
  BY DEF UpdateCooperative, handlerVars
<1>3. cleared' \in 0..MaxClears
  <2>1. cleared \in 0..MaxClears /\ MaxClears \in Nat
    BY <1>1 DEF MembersTypeOK, MembersKnown, MembersGiven, BoundsAssumption
  <2> QED
    BY <2>1 DEF UpdateCooperative
<1>4. WalletTyped'
  BY <1>1, <1>2, <1>3, Typed DEF WalletTyped, UpdateCooperative, Entered
<1>5. MembersTypeOK'
  BY <1>1, <1>2, <1>4, StaysTyped, TypedNext
<1> QED
  BY <1>2, <1>5, NobodyNotices

LEMMA SetStatusKnown ==
  ASSUME MembersKnown, OneAtATime, NEW f \in Farmers,
         \E s \in {"active", "inactive", "suspended"} : SetStatus(f, s)
  PROVE  MembersKnown' /\ OneAtATime'
<1>1. MembersTypeOK
  BY DEF MembersKnown
<1>2. /\ RegisterTyped' /\ UNCHANGED <<accounts, account>>
      /\ UNCHANGED <<walletVars, records, scoreVars, tasks, handlerVars, env>>
  BY <1>1, Typed DEF SetStatus, RegisterTyped, walletVars, handlerVars
<1>3. MembersTypeOK'
  BY <1>1, <1>2, StaysTyped, TypedNext
<1> QED
  BY <1>2, <1>3, NobodyNotices

LEMMA ProvisionStartKnown ==
  ASSUME MembersKnown, OneAtATime, NEW q \in Handlers, ProvisionStart(q)
  PROVE  MembersKnown' /\ OneAtATime' /\ OthersKept(q) /\ pc'[q] = "provisioning"
<1>1. pc' \in [Handlers -> Place] /\ OthersKept(q) /\ pc'[q] = "provisioning"
  BY DEF MembersKnown, MembersTypeOK, ProvisionStart, OthersKept, Place
<1>2. MembersTypeOK'
  <2>1. MembersTypeOK
    BY DEF MembersKnown
  <2>2. HandlersTyped' /\ UNCHANGED <<accounts, account>>
    BY <1>1, <2>1, Typed DEF HandlersTyped, ProvisionStart, walletVars
  <2> QED
    BY <2>1, <2>2, StaysTyped, TypedNext DEF ProvisionStart
<1>3. HandlerKnows(q)'
  BY <1>1 DEF HandlerKnows, ReadSoFar, Calculates, Kinds
<1> QED
  BY <1>1, <1>2, <1>3, OthersKnow, StillAlone DEF ProvisionStart

LEMMA AdmitCheckKnown ==
  ASSUME MembersKnown, OneAtATime, NEW q \in Handlers, NEW f \in Farmers, AdmitCheck(q, f)
  PROVE  MembersKnown' /\ OneAtATime' /\ OthersKept(q) /\ pc'[q] = "admitting"
<1>1. /\ pc' \in [Handlers -> Place] /\ OthersKept(q) /\ pc'[q] = "admitting"
      /\ at' \in [Handlers -> Farmers \cup {Nobody}] /\ at'[q] = f
  BY DEF MembersKnown, MembersTypeOK, AdmitCheck, OthersKept, Place
<1>2. MembersTypeOK'
  <2>1. MembersTypeOK
    BY DEF MembersKnown
  <2>2. HandlersTyped' /\ UNCHANGED <<accounts, account>>
    BY <1>1, <2>1, Typed DEF HandlersTyped, AdmitCheck, walletVars
  <2> QED
    BY <2>1, <2>2, StaysTyped, TypedNext DEF AdmitCheck
<1>3. HandlerKnows(q)'
  BY <1>1 DEF HandlerKnows, ReadSoFar, Calculates, Kinds
<1> QED
  BY <1>1, <1>2, <1>3, OthersKnow, StillAlone DEF AdmitCheck

\* A request that ends.
LEMMA EndKnows ==
  ASSUME MembersKnown, OneAtATime, NEW q \in Handlers, pc[q] # "idle", End(q), env' = env,
         MembersTypeOK => MembersTypeOK'
  PROVE  MembersKnown' /\ OneAtATime' /\ OthersKept(q) /\ pc'[q] = "idle" /\ at'[q] = Nobody
<1>1. OthersKept(q) /\ pc'[q] = "idle" /\ at'[q] = Nobody
  BY EndIsKnown DEF MembersKnown, OthersKept
<1>2. HandlerKnows(q)'
  BY <1>1 DEF HandlerKnows, ReadSoFar, Calculates, Kinds
<1> QED
  BY <1>1, <1>2, OthersKnow, StillAlone DEF MembersKnown

LEMMA AdmitInsertKnown ==
  ASSUME MembersKnown, OneAtATime, NEW q \in Handlers, AdmitInsert(q)
  PROVE  MembersKnown' /\ OneAtATime' /\ OthersKept(q) /\ pc'[q] = "idle"
<1>1. at[q] \in Farmers
  BY DEF MembersKnown, HandlerKnows, AdmitInsert
<1>2. member' \in [Farmers -> {"none", "active", "inactive", "suspended"}]
  BY <1>1 DEF MembersKnown, MembersTypeOK, AdmitInsert
<1>3. MembersTypeOK'
  <2>1. MembersTypeOK /\ End(q)
    BY DEF MembersKnown, AdmitInsert
  <2>2. RegisterTyped'
    BY <1>2, <2>1, Typed DEF RegisterTyped, AdmitInsert
  <2>3. HandlersTyped' /\ AccountTyped'
    BY <2>1, EndIsKnown DEF HandlersTyped, AccountTyped, AdmitInsert, walletVars
  <2> QED
    BY <2>1, <2>2, <2>3, StaysTyped, TypedNext DEF AdmitInsert
<1> QED
  BY <1>3, EndKnows DEF AdmitInsert

LEMMA ProvisionRecordKnown ==
  ASSUME MembersKnown, OneAtATime, NEW q \in Handlers, ProvisionRecord(q)
  PROVE  /\ MembersKnown' /\ OneAtATime' /\ OthersKept(q) /\ pc'[q] = "idle"
         /\ wallet' > 0
<1>1. account[q] \in 0..accounts /\ account[q] > 0
  BY DEF MembersKnown, MembersTypeOK, HandlerKnows, ProvisionRecord
<1>2. MembersTypeOK'
  <2>1. MembersTypeOK /\ End(q)
    BY DEF MembersKnown, ProvisionRecord
  <2>2. WalletTyped'
    BY <1>1, <2>1, Typed DEF WalletTyped, ProvisionRecord
  <2>3. HandlersTyped' /\ AccountTyped'
    BY <2>1, EndIsKnown DEF HandlersTyped, AccountTyped, ProvisionRecord
  <2> QED
    BY <2>1, <2>2, <2>3, StaysTyped, TypedNext DEF ProvisionRecord
<1> QED
  BY <1>1, <1>2, EndKnows DEF ProvisionRecord

\* What becomes of a request that asks the provider for an account.
LEMMA CreateAccountKnown ==
  ASSUME MembersKnown, OneAtATime, NEW q \in Handlers, CreateAccount(q)
  PROVE  /\ MembersKnown' /\ OneAtATime' /\ OthersKept(q) /\ UNCHANGED <<wallet, plan, member>>
         /\ accounts' \in Nat
         /\ "lost_answer" \notin env =>
              \/ pc'[q] = "opened" /\ accounts' = accounts + 1
              \/ pc'[q] = "idle" /\ accounts' = accounts
<1>1. PICK opened \in IF "lost_answer" \in env THEN 0..3 ELSE 0..1 :
        /\ accounts + opened <= MaxAccounts
        /\ accounts' = accounts + opened
        /\ \/ /\ opened > 0
              /\ pc' = [pc EXCEPT ![q] = "opened"]
              /\ account' = [account EXCEPT ![q] = accounts']
              /\ UNCHANGED <<at, seen, old>>
           \/ /\ opened = 0 \/ "lost_answer" \in env
              /\ End(q)
  BY DEF CreateAccount
<1>2. /\ accounts \in Nat /\ MaxAccounts \in Nat /\ opened \in 0..3
      /\ "lost_answer" \notin env => opened \in 0..1
      /\ UNCHANGED <<wallet, registerVars, records, scoreVars, tasks, env>>
  BY <1>1 DEF MembersKnown, MembersGiven, BoundsAssumption, MembersTypeOK, CreateAccount
<1>3. /\ accounts' \in 0..MaxAccounts /\ wallet' \in 0..accounts' \cup {Entered}'
      /\ cleared' \in 0..MaxClears /\ accounts' >= accounts
  BY <1>1, <1>2 DEF MembersKnown, MembersTypeOK, CreateAccount, Entered
<1>4. /\ accounts' \in Nat /\ UNCHANGED <<wallet, plan, member>> /\ env' = env /\ pc[q] = "provisioning"
  BY <1>1, <1>2 DEF registerVars, CreateAccount
<1>5. CASE opened > 0 /\ pc' = [pc EXCEPT ![q] = "opened"]
           /\ account' = [account EXCEPT ![q] = accounts'] /\ UNCHANGED <<at, seen, old>>
  <2>1. /\ pc' \in [Handlers -> Place] /\ pc'[q] = "opened" /\ OthersKept(q)
        /\ account' \in [Handlers -> Nat] /\ account'[q] = accounts'
    BY <1>3, <1>4, <1>5 DEF MembersKnown, MembersTypeOK, OthersKept, Place
  <2>2. \A s \in Handlers : account'[s] \in 0..accounts'
    <3>1. ASSUME NEW s \in Handlers \ {q} PROVE account'[s] \in 0..accounts'
      <4>1. account'[s] = account[s] /\ account[s] \in 0..accounts
        BY <2>1 DEF OthersKept, MembersKnown, MembersTypeOK
      <4> QED
        BY <4>1, <1>2, <1>3, <1>4
    <3> QED
      BY <3>1, <2>1, <1>4
  <2>3. MembersTypeOK'
    <3>1. MembersTypeOK
      BY DEF MembersKnown
    <3>2. WalletTyped' /\ AccountTyped'
      BY <1>3, <2>1, <2>2 DEF WalletTyped, AccountTyped
    <3>3. HandlersTyped'
      BY <1>5, <2>1, <3>1, Typed DEF HandlersTyped
    <3> QED
      BY <1>2, <3>1, <3>2, <3>3, StaysTyped, TypedNext
  <2>4. HandlerKnows(q)'
    BY <1>2, <1>3, <1>4, <1>5, <2>1, <1>1 DEF HandlerKnows, ReadSoFar, Calculates, Kinds
  <2>5. "lost_answer" \notin env => accounts' = accounts + 1
    BY <1>1, <1>2, <1>5
  <2> QED
    BY <1>4, <2>1, <2>3, <2>4, <2>5, OthersKnow, StillAlone
<1>6. CASE (opened = 0 \/ "lost_answer" \in env) /\ End(q)
  <2>1. account' \in [Handlers -> 0..accounts]
    BY <1>6, EndIsKnown DEF MembersKnown
  <2>2. 0..accounts \subseteq 0..accounts'
    BY <1>2, <1>3, <1>4
  <2>3. account' \in [Handlers -> 0..accounts']
    BY <2>1, <2>2
  <2>4. MembersTypeOK'
    <3>1. MembersTypeOK
      BY DEF MembersKnown
    <3>2. WalletTyped' /\ AccountTyped'
      BY <1>3, <2>3 DEF WalletTyped, AccountTyped
    <3>3. HandlersTyped'
      BY <1>6, <3>1, EndIsKnown DEF HandlersTyped
    <3> QED
      BY <1>2, <3>1, <3>2, <3>3, StaysTyped, TypedNext
  <2>5. "lost_answer" \notin env => accounts' = accounts
    BY <1>1, <1>2, <1>6
  <2> QED
    BY <1>4, <1>6, <2>4, <2>5, EndKnows
<1> QED
  BY <1>1, <1>5, <1>6

LEMMA BeginKnows ==
  ASSUME MembersKnown, OneAtATime, NEW q \in Handlers, NEW f \in Scored, Begin(q, f),
         RecordsTyped', TasksTyped', UNCHANGED <<walletVars, registerVars, scoreVars, env>>
  PROVE  /\ MembersKnown' /\ OneAtATime' /\ OthersKept(q)
         /\ pc[q] = "idle" /\ pc'[q] = "dues" /\ at'[q] = f
<1>1. MembersTypeOK /\ Scored \subseteq Farmers
  BY DEF MembersKnown, MembersGiven, ScoredAssumption
<1>2. /\ pc' \in [Handlers -> Place] /\ pc'[q] = "dues"
      /\ at' \in [Handlers -> Farmers \cup {Nobody}] /\ at'[q] = f
      /\ old' \in [Handlers -> 0..10000] /\ UNCHANGED <<seen, account>> /\ OthersKept(q)
  <2>1. /\ pc' = [pc EXCEPT ![q] = "dues"] /\ at' = [at EXCEPT ![q] = f]
        /\ old' = [old EXCEPT ![q] = score[f]] /\ UNCHANGED <<seen, account>>
    BY DEF Begin
  <2>2. pc' \in [Handlers -> Place] /\ pc'[q] = "dues"
    BY <1>1, <2>1 DEF MembersTypeOK, Place, Kinds
  <2>3. at' \in [Handlers -> Farmers \cup {Nobody}] /\ at'[q] = f
    BY <1>1, <2>1 DEF MembersTypeOK
  <2>5. old' \in [Handlers -> 0..10000]
    <3>1. score \in [Scored -> 0..10000]
      BY <1>1 DEF MembersTypeOK
    <3>2. old \in [Handlers -> 0..10000]
      BY <1>1 DEF MembersTypeOK
    <3> DEFINE Hundredths == 0..10000
    <3>3. score \in [Scored -> Hundredths]
      BY ONLY <3>1
    <3>4. old \in [Handlers -> Hundredths]
      BY ONLY <3>2
    <3> SUFFICES old' \in [Handlers -> Hundredths]
      OBVIOUS
    <3> HIDE DEF Hundredths
    <3> QED
      BY <2>1, <3>3, <3>4
  <2>6. OthersKept(q)
    BY <1>1, <2>1 DEF MembersTypeOK, OthersKept
  <2> QED
    BY <2>1, <2>2, <2>3, <2>5, <2>6
<1>3. HandlersTyped' /\ UNCHANGED <<accounts, account>>
  BY <1>1, <1>2, Typed DEF HandlersTyped, walletVars
<1>4. MembersTypeOK'
  BY <1>1, <1>3, StaysTyped, TypedNext
<1>5. HandlerKnows(q)'
  BY <1>2 DEF HandlerKnows, ReadSoFar, Calculates, Kinds
<1>6. pc[q] = "idle" /\ Free(q)
  BY DEF Begin, Free
<1> QED
  BY <1>2, <1>4, <1>5, <1>6, OthersKnow, StillAlone

LEMMA RecalculateKnown ==
  ASSUME MembersKnown, OneAtATime, NEW q \in Handlers, NEW f \in Scored, Recalculate(q, f)
  PROVE  /\ MembersKnown' /\ OneAtATime' /\ OthersKept(q)
         /\ pc[q] = "idle" /\ pc'[q] = "dues" /\ at'[q] = f
<1>1. RecordsTyped' /\ TasksTyped'
  BY StaysTyped DEF MembersKnown, Recalculate
<1> QED
  BY <1>1, BeginKnows DEF Recalculate

LEMMA PostPaymentKnown ==
  ASSUME MembersKnown, OneAtATime, NEW q \in Handlers, NEW f \in Scored, PostPayment(q, f)
  PROVE  /\ MembersKnown' /\ OneAtATime' /\ OthersKept(q)
         /\ pc[q] = "idle" /\ pc'[q] = "dues" /\ at'[q] = f
<1>1. RecordsTyped'
  BY StaysTyped DEF MembersKnown, PostPayment
<1>2. TasksTyped'
  BY DEF MembersKnown, MembersTypeOK, PostPayment, TasksTyped
<1> QED
  BY <1>1, <1>2, BeginKnows DEF PostPayment

LEMMA RepaymentFinalizedKnown ==
  ASSUME MembersKnown, OneAtATime, NEW q \in Handlers, NEW f \in Scored,
         RepaymentFinalized(q, f)
  PROVE  /\ MembersKnown' /\ OneAtATime' /\ OthersKept(q)
         /\ pc[q] = "idle" /\ pc'[q] = "dues" /\ at'[q] = f
<1>1. RecordsTyped'
  BY PutIsKnown, KindNames DEF RepaymentFinalized, RecordsTyped
<1>2. TasksTyped'
  BY StaysTyped DEF MembersKnown, RepaymentFinalized
<1> QED
  BY <1>1, <1>2, BeginKnows DEF RepaymentFinalized

LEMMA PlacesRead ==
  ASSUME NEW p \in Kinds
  PROVE  /\ After(p) \in Kinds \cup {"save"}
         /\ ReadSoFar(After(p)) = ReadSoFar(p) \cup {p}
BY DEF Kinds, After, ReadSoFar

LEMMA KindsReadAreKinds == \A p : ReadSoFar(p) \subseteq Kinds
BY DEF ReadSoFar, Kinds

LEMMA ReadKindKnown ==
  ASSUME MembersKnown, OneAtATime, NEW q \in Handlers, ReadKind(q)
  PROVE  /\ MembersKnown' /\ OneAtATime' /\ OthersKept(q)
         /\ pc[q] \in Kinds /\ pc'[q] = After(pc[q]) /\ at'[q] = at[q]
         /\ seen'[q][pc[q]] = records[at[q]][pc[q]]
         /\ \A k \in Kinds \ {pc[q]} : seen'[q][k] = seen[q][k]
<1> DEFINE p == pc[q]
           u == at[q]
           row == [seen[q] EXCEPT ![p] = records[u][p]]
<1>1. MembersTypeOK /\ p \in Kinds /\ u \in Scored
  BY DEF MembersKnown, HandlerKnows, Calculates, ReadKind
<1>2. records[u][p] \in Records
  BY <1>1, RecordsOf
<1>3. seen[q] \in [Kinds -> Records \cup {Unread}]
  BY <1>1 DEF MembersTypeOK
<1>4. /\ row \in [Kinds -> Records \cup {Unread}] /\ row[p] = records[u][p]
      /\ \A k \in Kinds \ {p} : row[k] = seen[q][k]
  BY <1>1, <1>2, <1>3
<1>5. seen' = [seen EXCEPT ![q] = row]
  BY DEF ReadKind
<1> HIDE DEF row
<1>6. /\ seen' \in [Handlers -> [Kinds -> Records \cup {Unread}]] /\ seen'[q] = row
      /\ \A s \in Handlers \ {q} : seen'[s] = seen[s]
  BY <1>1, <1>4, <1>5 DEF MembersTypeOK
<1>7. /\ pc' \in [Handlers -> Place] /\ pc'[q] = After(p) /\ UNCHANGED <<at, old, account>>
      /\ \A s \in Handlers \ {q} : pc'[s] = pc[s]
  BY <1>1, PlacesRead DEF MembersTypeOK, ReadKind, Place
<1>8. OthersKept(q)
  BY <1>6, <1>7 DEF OthersKept
<1>9. MembersTypeOK'
  <2>1. HandlersTyped' /\ UNCHANGED <<accounts, account>>
    BY <1>1, <1>6, <1>7, Typed DEF HandlersTyped, ReadKind, walletVars
  <2> QED
    BY <1>1, <2>1, StaysTyped, TypedNext DEF ReadKind
<1>10. HandlerKnows(q)'
  <2>1. pc'[q] \in Kinds \cup {"save"} /\ ReadSoFar(pc'[q]) = ReadSoFar(p) \cup {p}
    BY <1>1, <1>7, PlacesRead
  <2>2. pc'[q] # "opened" /\ pc'[q] # "admitting"
    BY <2>1 DEF Kinds
  <2>3. at'[q] \in Scored
    BY <1>1, <1>7
  <2>4. ASSUME NEW k \in ReadSoFar(pc'[q]) PROVE seen'[q][k] \in Records
    <3>1. CASE k = p
      BY <3>1, <1>2, <1>4, <1>6
    <3>2. CASE k # p
      <4>1. k \in ReadSoFar(p) /\ k \in Kinds
        BY <2>1, <2>4, <3>2, KindsReadAreKinds
      <4>2. seen[q][k] \in Records
        BY <4>1 DEF MembersKnown, HandlerKnows
      <4> QED
        BY <4>1, <4>2, <3>2, <1>4, <1>6
    <3> QED
      BY <3>1, <3>2
  <2> QED
    BY <2>2, <2>3, <2>4 DEF HandlerKnows
<1>11. pc[q] # "idle" /\ env' = env
  BY <1>1 DEF Kinds, ReadKind
<1> QED
  BY <1>1, <1>4, <1>6, <1>7, <1>8, <1>9, <1>10, <1>11, OthersKnow, StillAlone

LEMMA SaveKnown ==
  ASSUME MembersKnown, OneAtATime, NEW q \in Handlers, Save(q)
  PROVE  /\ MembersKnown' /\ OneAtATime' /\ OthersKept(q)
         /\ at[q] \in Scored /\ pc'[q] = "idle" /\ at'[q] = Nobody
         /\ counted'[at[q]] = seen[q]
         /\ \A f \in Scored \ {at[q]} : counted'[f] = counted[f]
<1>1. /\ MembersTypeOK /\ MembersGiven /\ at[q] \in Scored /\ pc[q] = "save" /\ End(q)
      /\ \A k \in Kinds : seen[q][k] \in Records
  BY DEF MembersKnown, HandlerKnows, Calculates, ReadSoFar, Save
<1>2. seen[q] \in [Kinds -> Records]
  BY <1>1 DEF MembersTypeOK
<1> DEFINE written == Score(seen[q])
<1>3. written \in 0..10000
  BY <1>1, <1>2, ScoreIsInRange
<1>4. score' = [score EXCEPT ![at[q]] = IF written = old[q] THEN @ ELSE written]
  BY DEF Save
<1> HIDE DEF written
<1>5. /\ counted' \in [Scored -> [Kinds -> Records]] /\ counted'[at[q]] = seen[q]
      /\ \A f \in Scored \ {at[q]} : counted'[f] = counted[f]
  BY <1>1, <1>2 DEF MembersTypeOK, Save
<1>6. score' \in [Scored -> 0..10000]
  <2> DEFINE u == at[q]
             kept == IF written = old[q] THEN score[u] ELSE written
             Hundredths == 0..10000
  <2>1. score \in [Scored -> Hundredths] /\ u \in Scored /\ written \in Hundredths
    BY <1>1, <1>3 DEF MembersTypeOK
  <2>3. score' = [score EXCEPT ![u] = kept]
    BY <1>4, <2>1
  <2> SUFFICES score' \in [Scored -> Hundredths]
    OBVIOUS
  <2> HIDE DEF u, Hundredths
  <2>2. kept \in Hundredths
    BY <2>1
  <2> HIDE DEF kept
  <2> QED
    BY <2>1, <2>2, <2>3
<1>7. MembersTypeOK'
  <2>1. ScoreTyped'
    BY <1>5, <1>6 DEF ScoreTyped
  <2>2. HandlersTyped' /\ AccountTyped'
    BY <1>1, EndIsKnown DEF HandlersTyped, AccountTyped, Save, walletVars
  <2> QED
    BY <1>1, <2>1, <2>2, StaysTyped, TypedNext DEF Save
<1> QED
  BY <1>1, <1>5, <1>7, EndKnows DEF Save

LEMMA CrashKnown ==
  ASSUME MembersKnown, OneAtATime, Crash
  PROVE  MembersKnown' /\ OneAtATime' /\ \A q \in Handlers : pc'[q] = "idle"
<1>1. MembersTypeOK /\ accounts \in Nat
  BY DEF MembersKnown, MembersTypeOK
<1>2. \A q \in Handlers : pc'[q] = "idle"
  BY DEF Crash
<1>3. HandlersTyped'
  <2>1. pc' \in [Handlers -> Place] /\ at' \in [Handlers -> Farmers \cup {Nobody}]
    BY DEF Crash, Place
  <2>2. seen' \in [Handlers -> [Kinds -> Records \cup {Unread}]]
    BY DEF Crash
  <2>3. old' \in [Handlers -> 0..10000]
    BY DEF Crash
  <2> QED
    BY <2>1, <2>2, <2>3 DEF HandlersTyped
<1>4. AccountTyped' /\ TasksTyped'
  BY <1>1 DEF Crash, AccountTyped, TasksTyped, walletVars
<1>5. MembersTypeOK'
  BY <1>1, <1>3, <1>4, StaysTyped, TypedNext DEF Crash
<1>6. \A q \in Handlers : HandlerKnows(q)'
  BY <1>2 DEF HandlerKnows, ReadSoFar, Calculates, Kinds
<1> QED
  BY <1>2, <1>5, <1>6 DEF MembersKnown, OneAtATime

LEMMA MembersKnownStep ==
  ASSUME MembersKnown, OneAtATime, [MembersNext]_membersVars
  PROVE  MembersKnown' /\ OneAtATime'
<1>1. CASE PlanChanges \/ UpdateCooperative
  BY <1>1, PlanChangesKnown, UpdateCooperativeKnown
<1>2. ASSUME NEW q \in Handlers, WalletStep(q) PROVE MembersKnown' /\ OneAtATime'
  BY <1>2, ProvisionStartKnown, CreateAccountKnown, ProvisionRecordKnown DEF WalletStep
<1>3. ASSUME NEW q \in Handlers, AdmitInsert(q) PROVE MembersKnown' /\ OneAtATime'
  BY <1>3, AdmitInsertKnown
<1>4. ASSUME NEW q \in Handlers, ScoreStep(q) PROVE MembersKnown' /\ OneAtATime'
  BY <1>4, ReadKindKnown, SaveKnown, RecalculateKnown, PostPaymentKnown, RepaymentFinalizedKnown
     DEF ScoreStep
<1>5. ASSUME NEW q \in Handlers, NEW f \in Farmers, AdmitCheck(q, f)
      PROVE  MembersKnown' /\ OneAtATime'
  BY <1>5, AdmitCheckKnown
<1>6. ASSUME NEW f \in Farmers, \E s \in {"active", "inactive", "suspended"} : SetStatus(f, s)
      PROVE  MembersKnown' /\ OneAtATime'
  BY <1>6, SetStatusKnown
<1>7. ASSUME NEW f \in Scored, PaymentStep(f) \/ RecordStep(f) \/ YearPasses(f)
      PROVE  MembersKnown' /\ OneAtATime'
  BY <1>7, PaymentStepOnlyRecords, RecordStepOnlyRecords, OnlyRecordsKnown
<1>8. CASE Crash
  BY <1>8, CrashKnown
<1>9. CASE UNCHANGED membersVars
  <2>1. UNCHANGED <<walletVars, registerVars, records, scoreVars, tasks, handlerVars, env>>
    BY <1>9 DEF membersVars
  <2>2. UNCHANGED <<accounts, account>> /\ UNCHANGED <<pc, at, seen, old>>
    BY <2>1 DEF walletVars, handlerVars
  <2>3. MembersTypeOK'
    BY <2>1, <2>2, StaysTyped, TypedNext DEF MembersKnown
  <2> QED
    BY <2>1, <2>3, NobodyNotices
<1> QED
  BY <1>1, <1>2, <1>3, <1>4, <1>5, <1>6, <1>7, <1>8, <1>9 DEF MembersNext

\* Every variable keeps its type, and a request knows what its place says.
THEOREM MembersTyped == MembersSpec => []MembersTypeOK
<1>1. MembersGiven /\ MembersInit => MembersKnown /\ OneAtATime
  BY MembersInitKnown
<1>2. MembersKnown /\ OneAtATime /\ [MembersNext]_membersVars => MembersKnown' /\ OneAtATime'
  BY MembersKnownStep
<1>3. MembersKnown => MembersTypeOK
  BY DEF MembersKnown
<1> QED
  BY MembersAssumed, <1>1, <1>2, <1>3, PTL DEF MembersSpec

\* A good deed of a member, of whatever kind and among whatever records, never
\* lowers the score that the formula gives.
THEOREM GoodDeedsAreCounted == MembersSpec => GoodDeedsCount
<1>1. MembersGiven /\ MembersInit => MembersKnown /\ OneAtATime
  BY MembersInitKnown
<1>2. MembersKnown /\ OneAtATime /\ [MembersNext]_membersVars => MembersKnown' /\ OneAtATime'
  BY MembersKnownStep
<1>3. MembersKnown /\ MembersKnown' =>
        [\A f \in Scored : Better(records[f], records'[f]) => Score(records'[f]) >= Score(records[f])]_membersVars
  <2> SUFFICES ASSUME MembersKnown, MembersKnown', NEW f \in Scored, Better(records[f], records'[f])
               PROVE  Score(records'[f]) >= Score(records[f])
    OBVIOUS
  <2>1. MembersGiven /\ records[f] \in [Kinds -> Records] /\ records'[f] \in [Kinds -> Records]
    <3>1. MembersGiven /\ MembersTypeOK /\ MembersTypeOK'
      BY DEF MembersKnown
    <3>2. records \in [Scored -> [Kinds -> Records]] /\ records' \in [Scored -> [Kinds -> Records]]
      <4>1. RecordsTyped /\ RecordsTyped'
        BY <3>1, Typed, TypedNext
      <4> QED
        BY <4>1 DEF RecordsTyped
    <3> QED
      BY <3>1, <3>2
  <2>2. \A k \in Kinds : /\ records'[f][k].good >= records[f][k].good
                         /\ records'[f][k].output >= records[f][k].output
                         /\ records'[f][k].open <= records[f][k].open
                         /\ Rows(records'[f][k]) >= Rows(records[f][k])
    BY DEF Better
  <2> DEFINE before == records[f]
             after == records'[f]
  <2> HIDE DEF before, after
  <2>3. Score(before) \in 0..10000 /\ Score(after) \in 0..10000 /\ Score(before) <= Score(after)
    <3>1. /\ before \in [Kinds -> Records] /\ after \in [Kinds -> Records]
          /\ \A k \in Kinds : /\ after[k].good >= before[k].good
                               /\ after[k].output >= before[k].output
                               /\ after[k].open <= before[k].open
                               /\ Rows(after[k]) >= Rows(before[k])
      BY <2>1, <2>2 DEF before, after
    <3> QED
      BY <2>1, <3>1, ScoreIsMonotone
  <2>4. Score(after) >= Score(before)
    BY <2>3
  <2> QED
    BY <2>4 DEF before, after
<1> QED
  BY MembersAssumed, <1>1, <1>2, <1>3, PTL DEF MembersSpec, GoodDeedsCount

-----------------------------------------------------------------------------
(* The wallet *)

InPlace(p) == {q \in Handlers : pc[q] = p}

LEMMA HandlersFinite ==
  ASSUME MembersGiven
  PROVE  IsFiniteSet(Handlers) /\ Handlers # {}
BY DEF MembersGiven, HandlersAssumption

\* Handlers leave and reach a place one by one.
LEMMA PlaceCount ==
  ASSUME MembersKnown, NEW q \in Handlers, OthersKept(q), NEW CONSTANT p
  PROVE  /\ Cardinality(InPlace(p)) \in Nat /\ Cardinality(InPlace(p))' \in Nat
         /\ pc[q] # p /\ pc'[q] # p => Cardinality(InPlace(p))' = Cardinality(InPlace(p))
         /\ pc[q] # p /\ pc'[q] = p => Cardinality(InPlace(p))' = Cardinality(InPlace(p)) + 1
         /\ pc[q] = p /\ pc'[q] # p => Cardinality(InPlace(p))' = Cardinality(InPlace(p)) - 1
<1>1. IsFiniteSet(Handlers)
  BY HandlersFinite DEF MembersKnown
<1>2. IsFiniteSet(InPlace(p)) /\ IsFiniteSet(InPlace(p)')
  BY <1>1, FS_Subset DEF InPlace
<1>3. /\ pc[q] # p /\ pc'[q] # p => InPlace(p)' = InPlace(p)
      /\ pc[q] # p /\ pc'[q] = p => InPlace(p)' = InPlace(p) \cup {q} /\ q \notin InPlace(p)
      /\ pc[q] = p /\ pc'[q] # p => InPlace(p)' = InPlace(p) \ {q} /\ q \in InPlace(p)
  BY DEF InPlace, OthersKept
<1>4. Cardinality(InPlace(p)) \in Nat /\ Cardinality(InPlace(p)') \in Nat
  BY <1>2, FS_CardinalityType
<1>5. pc[q] # p /\ pc'[q] = p => Cardinality(InPlace(p)') = Cardinality(InPlace(p)) + 1
  BY <1>2, <1>3, FS_AddElement
<1>6. pc[q] = p /\ pc'[q] # p => Cardinality(InPlace(p)') = Cardinality(InPlace(p)) - 1
  BY <1>2, <1>3, FS_RemoveElement
<1> QED
  BY <1>3, <1>4, <1>5, <1>6

LEMMA PlacesBounded ==
  ASSUME MembersGiven, NEW CONSTANT p
  PROVE  /\ Cardinality(InPlace(p)) \in Nat /\ Cardinality(Handlers) \in Nat \ {0}
         /\ Cardinality(InPlace(p)) <= Cardinality(Handlers)
<1>1. IsFiniteSet(Handlers) /\ Handlers # {} /\ InPlace(p) \subseteq Handlers
  BY HandlersFinite DEF InPlace
<1>2. Cardinality(Handlers) \in Nat /\ Cardinality(Handlers) # 0
  BY <1>1, FS_CardinalityType, FS_EmptySet
<1>3. IsFiniteSet(InPlace(p)) /\ Cardinality(InPlace(p)) <= Cardinality(Handlers)
  BY <1>1, FS_Subset
<1> QED
  BY <1>2, <1>3, FS_CardinalityType

\* Where requests overlap: the accounts that may still come before a request
\* finds a wallet or the staff clear it.  Without a wallet each request may ask,
\* but for those that have one in hand; with a wallet only those that asked.
ToCome ==
  IF wallet = 0 THEN Cardinality(Handlers) - Cardinality(InPlace("opened"))
  ELSE Cardinality(InPlace("provisioning"))

\* The same where they do not.
LoneToCome ==
  IF wallet = 0 THEN IF InPlace("opened") = {} THEN 1 ELSE 0
  ELSE IF InPlace("provisioning") = {} THEN 0 ELSE 1

\* Each clearing of the wallet gives every request one more account, or one more
\* to them all.
WalletHeld ==
  env \cap {"lost_answer", "crash"} = {} =>
    IF "overlap" \in env THEN accounts + ToCome <= Cardinality(Handlers) * (1 + cleared)
    ELSE accounts + LoneToCome <= 1 + cleared

LEMMA WalletInit ==
  ASSUME MembersGiven, MembersInit
  PROVE  WalletHeld
<1>1. InPlace("provisioning") = {} /\ InPlace("opened") = {}
  BY DEF MembersInit, InPlace
<1>2. accounts = 0 /\ wallet = 0 /\ cleared = 0 /\ Cardinality(InPlace("opened")) = 0
  BY <1>1, FS_EmptySet DEF MembersInit
<1>3. Cardinality(Handlers) \in Nat
  BY PlacesBounded
<1>4. ToCome = Cardinality(Handlers) /\ LoneToCome = 1
  BY <1>1, <1>2, <1>3 DEF ToCome, LoneToCome
<1> QED
  BY <1>2, <1>3, <1>4 DEF WalletHeld

LEMMA WalletTypes ==
  ASSUME MembersKnown
  PROVE  /\ MembersGiven /\ accounts \in Nat /\ cleared \in Nat /\ Cardinality(Handlers) \in Nat \ {0}
         /\ Cardinality(Handlers) * (1 + cleared) \in Nat
<1>1. MembersGiven /\ accounts \in Nat /\ cleared \in Nat
  BY DEF MembersKnown, MembersTypeOK
<1>2. Cardinality(Handlers) \in Nat \ {0}
  BY <1>1, PlacesBounded
<1> QED
  BY <1>1, <1>2

\* No request both asks and holds.
LEMMA AskOrHold ==
  ASSUME MembersGiven
  PROVE  /\ Cardinality(InPlace("provisioning")) \in Nat /\ Cardinality(InPlace("opened")) \in Nat
         /\ Cardinality(Handlers) \in Nat
         /\ Cardinality(InPlace("provisioning")) + Cardinality(InPlace("opened")) <= Cardinality(Handlers)
<1> DEFINE holds == InPlace("opened")
           asks == InPlace("provisioning")
<1>1. IsFiniteSet(Handlers)
  BY HandlersFinite
<1>2. /\ IsFiniteSet(holds) /\ IsFiniteSet(asks) /\ holds \cap asks = {}
      /\ holds \cup asks \subseteq Handlers
  BY <1>1, FS_Subset DEF InPlace
<1>3. /\ Cardinality(holds \cup asks) = Cardinality(holds) + Cardinality(asks) - Cardinality(holds \cap asks)
      /\ Cardinality(holds \cap asks) = 0
  BY <1>2, FS_Union, FS_EmptySet
<1>4. Cardinality(holds \cup asks) <= Cardinality(Handlers)
  BY <1>1, <1>2, FS_Subset
<1>5. Cardinality(holds) \in Nat /\ Cardinality(asks) \in Nat /\ Cardinality(Handlers) \in Nat
  BY <1>1, <1>2, FS_CardinalityType
<1> HIDE DEF holds, asks
<1>6. Cardinality(asks) + Cardinality(holds) <= Cardinality(Handlers)
  BY <1>3, <1>4, <1>5
<1> QED
  BY <1>5, <1>6 DEF holds, asks

\* Steps that have nothing to do with the wallet.
LEMMA WalletUntouched ==
  ASSUME WalletHeld, UNCHANGED <<walletVars, env>>,
         \A q \in Handlers :
           (pc'[q] = "provisioning" <=> pc[q] = "provisioning") /\ (pc'[q] = "opened" <=> pc[q] = "opened")
  PROVE  WalletHeld'
<1>1. InPlace("provisioning")' = InPlace("provisioning") /\ InPlace("opened")' = InPlace("opened")
  BY DEF InPlace
<1>2. accounts' = accounts /\ wallet' = wallet /\ cleared' = cleared /\ env' = env
  BY DEF walletVars
<1>3. ToCome' = ToCome /\ LoneToCome' = LoneToCome
  BY <1>1, <1>2 DEF ToCome, LoneToCome
<1> QED
  BY <1>2, <1>3 DEF WalletHeld

\* A request that finds no wallet only takes up what was pending.
LEMMA WalletStart ==
  ASSUME MembersKnown, OneAtATime, WalletHeld, NEW q \in Handlers, ProvisionStart(q)
  PROVE  WalletHeld'
<1>1. /\ OthersKept(q) /\ pc'[q] = "provisioning" /\ pc[q] = "idle"
      /\ wallet = 0 /\ wallet' = 0 /\ accounts' = accounts /\ cleared' = cleared /\ env' = env
  BY ProvisionStartKnown DEF ProvisionStart, Free, walletVars
<1>2. InPlace("opened")' = InPlace("opened")
  BY <1>1 DEF InPlace, OthersKept
<1>3. ToCome' = ToCome /\ LoneToCome' = LoneToCome
  BY <1>1, <1>2 DEF ToCome, LoneToCome
<1> QED
  BY <1>1, <1>3 DEF WalletHeld

LEMMA WalletCreated ==
  ASSUME MembersKnown, OneAtATime, WalletHeld, NEW q \in Handlers, CreateAccount(q)
  PROVE  WalletHeld'
<1>1. /\ OthersKept(q) /\ pc[q] = "provisioning"
      /\ wallet' = wallet /\ cleared' = cleared /\ env' = env
      /\ "lost_answer" \notin env =>
           \/ pc'[q] = "opened" /\ accounts' = accounts + 1
           \/ pc'[q] = "idle" /\ accounts' = accounts
  BY CreateAccountKnown DEF CreateAccount
<1>2. /\ MembersGiven /\ accounts \in Nat /\ cleared \in Nat /\ Cardinality(Handlers) \in Nat \ {0}
      /\ Cardinality(Handlers) * (1 + cleared) \in Nat
  BY WalletTypes
<1>3. CASE "overlap" \in env /\ env \cap {"lost_answer", "crash"} = {}
  <2> DEFINE asks == Cardinality(InPlace("provisioning"))
             holds == Cardinality(InPlace("opened"))
             all == Cardinality(Handlers)
             most == all * (1 + cleared)
  <2>1. asks \in Nat /\ holds \in Nat /\ all \in Nat /\ most \in Nat
    BY <1>2, AskOrHold
  <2>2. /\ pc'[q] # "provisioning" => asks' = asks - 1
        /\ pc'[q] = "opened" => holds' = holds + 1
        /\ pc'[q] = "idle" => holds' = holds
    BY <1>1, PlaceCount
  <2>3. accounts + (IF wallet = 0 THEN all - holds ELSE asks) <= most
    BY <1>3 DEF WalletHeld, ToCome
  <2>4. most' = most /\ all' = all
    BY <1>1
  <2> HIDE DEF asks, holds, all, most
  <2>5. accounts' + (IF wallet' = 0 THEN all' - holds' ELSE asks') <= most'
    BY <1>1, <1>2, <1>3, <2>1, <2>2, <2>3, <2>4
  <2> QED
    BY <1>1, <1>3, <2>5 DEF WalletHeld, ToCome, asks, holds, all, most
<1>4. CASE "overlap" \notin env /\ env \cap {"lost_answer", "crash"} = {}
  <2>1. q \in InPlace("provisioning") /\ InPlace("opened") = {}
    BY <1>1, <1>4 DEF OneAtATime, InPlace
  <2>2. LoneToCome = 1
    BY <2>1 DEF LoneToCome
  <2>3. accounts + 1 <= 1 + cleared
    BY <1>4, <2>2 DEF WalletHeld
  <2>4. InPlace("provisioning")' = {}
    BY <1>1, <1>4 DEF OneAtATime, OthersKept, InPlace
  <2>5. CASE pc'[q] = "idle" /\ accounts' = accounts
    <3> DEFINE after == LoneToCome'
    <3>1. after \in {0, 1}
      BY DEF LoneToCome
    <3>2. accounts' = accounts /\ cleared' = cleared /\ accounts \in Nat /\ cleared \in Nat
      BY <1>1, <1>2, <2>5
    <3> HIDE DEF after
    <3>3. accounts' + after <= 1 + cleared'
      BY <2>3, <3>1, <3>2
    <3> QED
      BY <1>1, <1>4, <3>3 DEF WalletHeld, after
  <2>6. CASE pc'[q] = "opened" /\ accounts' = accounts + 1
    <3>1. q \in InPlace("opened")'
      BY <2>6 DEF InPlace
    <3>2. LoneToCome' = 0
      BY <2>4, <3>1 DEF LoneToCome
    <3> QED
      BY <1>1, <1>2, <1>4, <2>3, <2>6, <3>2 DEF WalletHeld
  <2> QED
    BY <1>1, <1>4, <2>5, <2>6
<1> QED
  BY <1>1, <1>3, <1>4 DEF WalletHeld

LEMMA WalletRecorded ==
  ASSUME MembersKnown, OneAtATime, WalletHeld, NEW q \in Handlers, ProvisionRecord(q)
  PROVE  WalletHeld'
<1>1. /\ OthersKept(q) /\ pc[q] = "opened" /\ pc'[q] = "idle" /\ wallet' > 0
      /\ accounts' = accounts /\ cleared' = cleared /\ env' = env
  BY ProvisionRecordKnown DEF ProvisionRecord
<1>2. InPlace("provisioning")' = InPlace("provisioning")
  BY <1>1 DEF OthersKept, InPlace
<1>3. wallet' # 0
  BY <1>1
<1>4. accounts \in Nat /\ cleared \in Nat /\ Cardinality(Handlers) * (1 + cleared) \in Nat
  BY WalletTypes
<1>5. ToCome' \in Nat /\ ToCome' <= ToCome /\ ToCome \in Nat
  <2>1. MembersGiven
    BY DEF MembersKnown
  <2>2. ToCome' = Cardinality(InPlace("provisioning"))
    BY <1>2, <1>3 DEF ToCome
  <2> QED
    BY <2>1, <2>2, AskOrHold DEF ToCome
<1>6. "overlap" \notin env => LoneToCome' = 0
  <2> SUFFICES ASSUME "overlap" \notin env PROVE LoneToCome' = 0
    OBVIOUS
  <2>1. InPlace("provisioning") = {}
    BY <1>1 DEF OneAtATime, InPlace
  <2> QED
    BY <1>2, <1>3, <2>1 DEF LoneToCome
<1>7. LoneToCome \in {0, 1}
  BY DEF LoneToCome
<1>8. CASE "overlap" \in env /\ env \cap {"lost_answer", "crash"} = {}
  <2> DEFINE most == Cardinality(Handlers) * (1 + cleared)
             before == ToCome
             after == ToCome'
  <2>1. most \in Nat /\ most' = most /\ accounts + before <= most
    BY <1>1, <1>4, <1>8 DEF WalletHeld
  <2>2. accounts \in Nat /\ accounts' = accounts /\ before \in Nat /\ after \in Nat /\ after <= before
    BY <1>1, <1>4, <1>5
  <2> HIDE DEF most, before, after
  <2>3. accounts' + after <= most
    BY <2>1, <2>2
  <2> QED
    BY <1>1, <1>8, <2>1, <2>3 DEF WalletHeld, most, after
<1>9. CASE "overlap" \notin env /\ env \cap {"lost_answer", "crash"} = {}
  BY <1>1, <1>4, <1>6, <1>7, <1>9 DEF WalletHeld
<1> QED
  BY <1>1, <1>8, <1>9 DEF WalletHeld

\* The staff write or clear the wallet.
LEMMA WalletUpdated ==
  ASSUME MembersKnown, OneAtATime, WalletHeld, UpdateCooperative
  PROVE  WalletHeld'
<1>1. /\ accounts' = accounts /\ env' = env /\ wallet' # wallet
      /\ cleared' = IF wallet' = 0 THEN cleared + 1 ELSE cleared
      /\ InPlace("provisioning")' = InPlace("provisioning") /\ InPlace("opened")' = InPlace("opened")
  BY DEF UpdateCooperative, handlerVars, InPlace
<1>2. /\ MembersGiven /\ accounts \in Nat /\ cleared \in Nat /\ Cardinality(Handlers) \in Nat \ {0}
      /\ Cardinality(Handlers) * (1 + cleared) \in Nat
  BY WalletTypes
<1>3. CASE "overlap" \in env /\ env \cap {"lost_answer", "crash"} = {}
  <2> DEFINE asks == Cardinality(InPlace("provisioning"))
             holds == Cardinality(InPlace("opened"))
             all == Cardinality(Handlers)
             most == all * (1 + cleared)
             next == all * (1 + cleared')
  <2>1. asks \in Nat /\ holds \in Nat /\ all \in Nat /\ asks + holds <= all /\ most \in Nat
    BY <1>2, AskOrHold
  <2>2. accounts + (IF wallet = 0 THEN all - holds ELSE asks) <= most
    BY <1>3 DEF WalletHeld, ToCome
  <2>3. next = IF wallet' = 0 THEN most + all ELSE most
    <3>1. all * (1 + (cleared + 1)) = all * (1 + cleared) + all
      BY <1>2
    <3> QED
      BY <1>1, <3>1
  <2> HIDE DEF asks, holds, all, most, next
  <2>4. accounts + (IF wallet' = 0 THEN all - holds ELSE asks) <= next
    BY <1>1, <1>2, <2>1, <2>2, <2>3
  <2>5. ToCome' = IF wallet' = 0 THEN all - holds ELSE asks
    BY <1>1 DEF ToCome, asks, holds, all
  <2> QED
    BY <1>1, <1>3, <2>4, <2>5 DEF WalletHeld, all, next
<1>4. CASE "overlap" \notin env /\ env \cap {"lost_answer", "crash"} = {}
  <2>1. InPlace("provisioning") = {} /\ InPlace("opened") = {}
    BY <1>4 DEF UpdateCooperative, InPlace
  <2>2. LoneToCome = (IF wallet = 0 THEN 1 ELSE 0) /\ LoneToCome' = IF wallet' = 0 THEN 1 ELSE 0
    BY <1>1, <2>1 DEF LoneToCome
  <2>3. accounts + LoneToCome <= 1 + cleared
    BY <1>4 DEF WalletHeld
  <2>4. accounts' + LoneToCome' <= 1 + cleared'
    BY <1>1, <1>2, <2>2, <2>3
  <2> QED
    BY <1>1, <1>4, <2>4 DEF WalletHeld
<1> QED
  BY <1>1, <1>3, <1>4 DEF WalletHeld

\* Calculations only come and go, and read.
LEMMA ScoreStepFrame ==
  ASSUME MembersKnown, OneAtATime, NEW q \in Handlers, ScoreStep(q)
  PROVE  /\ OthersKept(q) /\ UNCHANGED <<walletVars, registerVars, env>>
         /\ pc[q] \in {"idle", "save"} \cup Kinds /\ pc'[q] \in {"idle", "save"} \cup Kinds
<1>1. CASE ReadKind(q)
  BY <1>1, ReadKindKnown, PlacesRead DEF ReadKind
<1>2. CASE Save(q)
  BY <1>2, SaveKnown DEF Save
<1>3. CASE \E f \in Scored : Recalculate(q, f)
  BY <1>3, RecalculateKnown, KindNames DEF Recalculate
<1>4. CASE \E f \in Scored : PostPayment(q, f)
  BY <1>4, PostPaymentKnown, KindNames DEF PostPayment
<1>5. CASE \E f \in Scored : RepaymentFinalized(q, f)
  BY <1>5, RepaymentFinalizedKnown, KindNames DEF RepaymentFinalized
<1> QED
  BY <1>1, <1>2, <1>3, <1>4, <1>5 DEF ScoreStep

LEMMA RecordingFrame ==
  ASSUME MembersKnown, NEW f \in Scored, PaymentStep(f) \/ RecordStep(f) \/ YearPasses(f)
  PROVE  OnlyRecords
BY PaymentStepOnlyRecords, RecordStepOnlyRecords

LEMMA WalletHeldStep ==
  ASSUME MembersKnown, OneAtATime, WalletHeld, [MembersNext]_membersVars
  PROVE  WalletHeld'
<1>1. CASE PlanChanges \/ UpdateCooperative
  BY <1>1, WalletUntouched, WalletUpdated DEF PlanChanges, handlerVars
<1>2. ASSUME NEW q \in Handlers, WalletStep(q) PROVE WalletHeld'
  BY <1>2, WalletStart, WalletCreated, WalletRecorded DEF WalletStep
<1>3. ASSUME NEW q \in Handlers, AdmitInsert(q) PROVE WalletHeld'
  <2>1. OthersKept(q) /\ pc[q] = "admitting" /\ pc'[q] = "idle" /\ UNCHANGED <<walletVars, env>>
    BY <1>3, AdmitInsertKnown DEF AdmitInsert
  <2> QED
    BY <2>1, WalletUntouched DEF OthersKept
<1>4. ASSUME NEW q \in Handlers, ScoreStep(q) PROVE WalletHeld'
  BY <1>4, ScoreStepFrame, WalletUntouched DEF OthersKept, Kinds
<1>5. ASSUME NEW q \in Handlers, NEW f \in Farmers, AdmitCheck(q, f) PROVE WalletHeld'
  <2>1. OthersKept(q) /\ pc[q] = "idle" /\ pc'[q] = "admitting" /\ UNCHANGED <<walletVars, env>>
    BY <1>5, AdmitCheckKnown DEF AdmitCheck, Free
  <2> QED
    BY <2>1, WalletUntouched DEF OthersKept
<1>6. ASSUME NEW f \in Farmers, NEW s, SetStatus(f, s) PROVE WalletHeld'
  BY <1>6, WalletUntouched DEF SetStatus, handlerVars
<1>7. ASSUME NEW f \in Scored, PaymentStep(f) \/ RecordStep(f) \/ YearPasses(f) PROVE WalletHeld'
  BY <1>7, RecordingFrame, WalletUntouched DEF OnlyRecords, handlerVars
<1>8. CASE Crash
  BY <1>8 DEF Crash, WalletHeld
<1>9. CASE UNCHANGED membersVars
  BY <1>9, WalletUntouched DEF membersVars, handlerVars
<1> QED
  BY <1>1, <1>2, <1>3, <1>4, <1>5, <1>6, <1>7, <1>8, <1>9 DEF MembersNext

\* Between two times the staff clear the wallet, a cooperative is given at most
\* one account at the provider for each request, and one in all when requests do
\* not overlap.
THEOREM OneAccountHeld == MembersSpec => []OneAccount
<1>1. MembersGiven /\ MembersInit => MembersKnown /\ OneAtATime /\ WalletHeld
  BY MembersInitKnown, WalletInit
<1>2. MembersKnown /\ OneAtATime /\ WalletHeld /\ [MembersNext]_membersVars =>
        MembersKnown' /\ OneAtATime' /\ WalletHeld'
  BY MembersKnownStep, WalletHeldStep
<1>3. MembersKnown /\ WalletHeld => OneAccount
  <2> SUFFICES ASSUME MembersKnown, WalletHeld, env \cap {"lost_answer", "crash"} = {}
               PROVE  accounts <= (IF "overlap" \in env THEN Cardinality(Handlers) ELSE 1) * (1 + cleared)
    BY DEF OneAccount
  <2>1. /\ MembersGiven /\ accounts \in Nat /\ cleared \in Nat
        /\ Cardinality(Handlers) * (1 + cleared) \in Nat
    BY WalletTypes
  <2>2. CASE "overlap" \in env
    <3> DEFINE most == Cardinality(Handlers) * (1 + cleared)
    <3>1. ToCome \in Int /\ ToCome >= 0
      BY <2>1, AskOrHold DEF ToCome
    <3>2. accounts + ToCome <= most /\ most \in Nat
      BY <2>1, <2>2 DEF WalletHeld
    <3> HIDE DEF most
    <3>3. accounts <= most
      BY <2>1, <3>1, <3>2
    <3> QED
      BY <2>2, <3>3 DEF most
  <2>3. CASE "overlap" \notin env
    <3>1. LoneToCome \in {0, 1}
      BY DEF LoneToCome
    <3> QED
      BY <2>1, <2>3, <3>1 DEF WalletHeld
  <2> QED
    BY <2>2, <2>3
<1> QED
  BY MembersAssumed, <1>1, <1>2, <1>3, PTL DEF MembersSpec

-----------------------------------------------------------------------------
(* The cap *)

\* Whoever is being admitted was counted: beside the members there are, each
\* request that looked at the cap may insert one, all but one of them over it.
Slack == IF "overlap" \in env THEN Cardinality(Handlers) - 1 ELSE 0

CapHeld ==
  env \cap {"lapse", "reactivate"} = {} /\ Capacity > 0 =>
    /\ plan = "growth"
    /\ Cardinality(ActiveMembers) + Cardinality(InPlace("admitting")) <= Capacity + Slack

LEMMA ActiveFinite ==
  ASSUME MembersGiven
  PROVE  IsFiniteSet(ActiveMembers) /\ Cardinality(ActiveMembers) \in Nat
<1>1. IsFiniteSet(Farmers)
  BY DEF MembersGiven, ScoredAssumption
<1>2. IsFiniteSet(ActiveMembers)
  BY <1>1, FS_Subset DEF ActiveMembers
<1> QED
  BY <1>2, FS_CardinalityType

LEMMA SlackIsNat == MembersGiven => Slack \in Nat
BY PlacesBounded DEF Slack

LEMMA CapInit ==
  ASSUME MembersGiven, MembersInit
  PROVE  CapHeld
<1>1. InPlace("admitting") = {}
  BY DEF MembersInit, InPlace
<1>2. ActiveMembers \subseteq Scored
  BY DEF MembersInit, ActiveMembers
<1>3. IsFiniteSet(Scored) /\ (Capacity > 0 => Cardinality(Scored) <= Capacity) /\ Capacity \in Nat
  <2>1. Scored \subseteq Farmers /\ IsFiniteSet(Farmers)
    BY DEF MembersGiven, ScoredAssumption
  <2>2. IsFiniteSet(Scored)
    BY <2>1, FS_Subset
  <2> QED
    BY <2>2 DEF MembersGiven, ScoredAssumption, BoundsAssumption
<1>4. /\ Cardinality(ActiveMembers) \in Nat /\ Cardinality(Scored) \in Nat
      /\ Cardinality(ActiveMembers) <= Cardinality(Scored)
  BY <1>2, <1>3, ActiveFinite, FS_Subset, FS_CardinalityType
<1>5. Cardinality(InPlace("admitting")) = 0 /\ plan = "growth" /\ Slack \in Nat
  BY <1>1, FS_EmptySet, SlackIsNat DEF MembersInit
<1> QED
  BY <1>3, <1>4, <1>5 DEF CapHeld

\* Steps that have nothing to do with the register.
LEMMA CapUntouched ==
  ASSUME CapHeld, UNCHANGED <<registerVars, env>>,
         \A q \in Handlers : pc'[q] = "admitting" <=> pc[q] = "admitting"
  PROVE  CapHeld'
<1>1. InPlace("admitting")' = InPlace("admitting") /\ plan' = plan /\ member' = member /\ env' = env
  BY DEF InPlace, registerVars
<1> QED
  BY <1>1 DEF CapHeld, ActiveMembers, Slack

LEMMA CapStatus ==
  ASSUME MembersKnown, CapHeld, NEW f \in Farmers,
         NEW s \in {"active", "inactive", "suspended"}, SetStatus(f, s)
  PROVE  CapHeld'
<1>1. /\ MembersGiven /\ member \in [Farmers -> {"none", "active", "inactive", "suspended"}]
  BY DEF MembersKnown, MembersTypeOK
<1>2. /\ plan' = plan /\ env' = env /\ pc' = pc /\ member' = [member EXCEPT ![f] = s]
      /\ s = "active" => "reactivate" \in env \/ member[f] = "active"
  BY DEF SetStatus, handlerVars
<1>3. "reactivate" \notin env => ActiveMembers' \subseteq ActiveMembers
  BY <1>1, <1>2 DEF ActiveMembers
<1>4. InPlace("admitting")' = InPlace("admitting") /\ Slack' = Slack
  BY <1>2 DEF InPlace, Slack
<1>5. /\ Cardinality(ActiveMembers) \in Nat /\ Cardinality(ActiveMembers') \in Nat
      /\ "reactivate" \notin env => Cardinality(ActiveMembers') <= Cardinality(ActiveMembers)
  <2>1. IsFiniteSet(ActiveMembers) /\ Cardinality(ActiveMembers) \in Nat
    BY <1>1, ActiveFinite
  <2>2. IsFiniteSet(ActiveMembers')
    <3>1. IsFiniteSet(Farmers) /\ ActiveMembers' \subseteq Farmers
      BY <1>1 DEF MembersGiven, ScoredAssumption, ActiveMembers
    <3> QED
      BY <3>1, FS_Subset
  <2> QED
    BY <1>3, <2>1, <2>2, FS_Subset, FS_CardinalityType
<1>6. Cardinality(InPlace("admitting")) \in Nat /\ Slack \in Nat /\ Capacity \in Nat
  BY <1>1, PlacesBounded, SlackIsNat DEF MembersGiven, BoundsAssumption
<1> QED
  BY <1>2, <1>4, <1>5, <1>6 DEF CapHeld

LEMMA CapChecked ==
  ASSUME MembersKnown, OneAtATime, CapHeld, NEW q \in Handlers, NEW f \in Farmers,
         AdmitCheck(q, f)
  PROVE  CapHeld'
<1>1. /\ MembersGiven /\ MembersKnown' /\ OthersKept(q) /\ pc[q] = "idle" /\ pc'[q] = "admitting"
      /\ plan' = plan /\ env' = env /\ member' = member /\ Free(q) /\ WithinLimit
  <2>1. MembersGiven
    BY DEF MembersKnown
  <2> QED
    BY <2>1, AdmitCheckKnown DEF AdmitCheck, Free, registerVars
<1>2. /\ ActiveMembers' = ActiveMembers /\ Slack' = Slack
  BY <1>1 DEF ActiveMembers, Slack
<1>3. /\ Cardinality(InPlace("admitting"))' = Cardinality(InPlace("admitting")) + 1
      /\ Cardinality(InPlace("admitting")) \in Nat
      /\ Cardinality(InPlace("admitting"))' <= Cardinality(Handlers)
      /\ Cardinality(Handlers) \in Nat \ {0}
  <2>1. IsFiniteSet(Handlers) /\ InPlace("admitting")' \subseteq Handlers
    BY <1>1, HandlersFinite DEF InPlace
  <2> QED
    BY <1>1, <2>1, PlaceCount, PlacesBounded, FS_Subset
<1>4. Cardinality(ActiveMembers) \in Nat /\ Capacity \in Nat
  BY <1>1, ActiveFinite DEF MembersGiven, BoundsAssumption
<1>5. plan = "growth" /\ Capacity > 0 => Cardinality(ActiveMembers) + 1 <= Capacity
  BY <1>1, <1>4 DEF WithinLimit
<1>6. "overlap" \notin env => Cardinality(InPlace("admitting")) = 0
  <2>1. "overlap" \notin env => InPlace("admitting") = {}
    BY <1>1 DEF Free, InPlace
  <2> QED
    BY <2>1, FS_EmptySet
<1> QED
  BY <1>1, <1>2, <1>3, <1>4, <1>5, <1>6 DEF CapHeld, Slack

LEMMA CapInserted ==
  ASSUME MembersKnown, OneAtATime, CapHeld, NEW q \in Handlers, AdmitInsert(q)
  PROVE  CapHeld'
<1>1. /\ MembersGiven /\ OthersKept(q) /\ pc[q] = "admitting" /\ pc'[q] = "idle"
      /\ plan' = plan /\ env' = env
      /\ member' = IF member[at[q]] = "none" THEN [member EXCEPT ![at[q]] = "active"] ELSE member
  <2>1. MembersGiven
    BY DEF MembersKnown
  <2> QED
    BY <2>1, AdmitInsertKnown DEF AdmitInsert
<1>2. ActiveMembers' \subseteq ActiveMembers \cup {at[q]}
  <2>1. member \in [Farmers -> {"none", "active", "inactive", "suspended"}]
    BY DEF MembersKnown, MembersTypeOK
  <2> QED
    BY <1>1, <2>1 DEF ActiveMembers
<1>3. Slack' = Slack
  BY <1>1 DEF Slack
<1>4. /\ Cardinality(InPlace("admitting"))' = Cardinality(InPlace("admitting")) - 1
      /\ Cardinality(InPlace("admitting")) \in Nat /\ Slack \in Nat /\ Capacity \in Nat
  BY <1>1, PlaceCount, PlacesBounded, SlackIsNat DEF MembersGiven, BoundsAssumption
<1>5. /\ Cardinality(ActiveMembers) \in Nat /\ Cardinality(ActiveMembers') \in Nat
      /\ Cardinality(ActiveMembers') <= Cardinality(ActiveMembers) + 1
  <2> DEFINE more == ActiveMembers \cup {at[q]}
  <2>1. IsFiniteSet(ActiveMembers) /\ Cardinality(ActiveMembers) \in Nat
    BY <1>1, ActiveFinite
  <2>2. IsFiniteSet(more) /\ Cardinality(more) <= Cardinality(ActiveMembers) + 1
        /\ Cardinality(more) \in Nat
    <3>1. /\ IsFiniteSet(more)
          /\ \/ Cardinality(more) = Cardinality(ActiveMembers)
             \/ Cardinality(more) = Cardinality(ActiveMembers) + 1
      BY <2>1, FS_AddElement
    <3> QED
      BY <2>1, <3>1
  <2>3. IsFiniteSet(ActiveMembers') /\ Cardinality(ActiveMembers') <= Cardinality(more)
    BY <1>2, <2>2, FS_Subset
  <2>4. Cardinality(ActiveMembers') \in Nat
    BY <2>3, FS_CardinalityType
  <2> HIDE DEF more
  <2> QED
    BY <2>1, <2>2, <2>3, <2>4
<1> QED
  BY <1>1, <1>3, <1>4, <1>5 DEF CapHeld

LEMMA CapHeldStep ==
  ASSUME MembersKnown, OneAtATime, CapHeld, [MembersNext]_membersVars
  PROVE  CapHeld'
<1>1. CASE PlanChanges \/ UpdateCooperative
  BY <1>1, CapUntouched DEF PlanChanges, UpdateCooperative, CapHeld, handlerVars
<1>2. ASSUME NEW q \in Handlers, WalletStep(q) PROVE CapHeld'
  <2>1. /\ OthersKept(q) /\ UNCHANGED <<registerVars, env>>
        /\ pc[q] # "admitting" /\ pc'[q] # "admitting"
    <3>1. CASE ProvisionStart(q)
      BY <3>1, ProvisionStartKnown DEF ProvisionStart, Free
    <3>2. CASE CreateAccount(q)
      <4>1. OthersKept(q) /\ UNCHANGED <<registerVars, env>> /\ pc[q] = "provisioning"
        BY <3>2, CreateAccountKnown DEF CreateAccount
      <4>2. pc'[q] # "admitting"
        BY <3>2 DEF CreateAccount, End, MembersKnown, MembersTypeOK
      <4> QED
        BY <4>1, <4>2
    <3>3. CASE ProvisionRecord(q)
      BY <3>3, ProvisionRecordKnown DEF ProvisionRecord
    <3> QED
      BY <1>2, <3>1, <3>2, <3>3 DEF WalletStep
  <2> QED
    BY <2>1, CapUntouched DEF OthersKept
<1>3. ASSUME NEW q \in Handlers, AdmitInsert(q) PROVE CapHeld'
  BY <1>3, CapInserted
<1>4. ASSUME NEW q \in Handlers, ScoreStep(q) PROVE CapHeld'
  BY <1>4, ScoreStepFrame, CapUntouched DEF OthersKept, Kinds
<1>5. ASSUME NEW q \in Handlers, NEW f \in Farmers, AdmitCheck(q, f) PROVE CapHeld'
  BY <1>5, CapChecked
<1>6. ASSUME NEW f \in Farmers, NEW s \in {"active", "inactive", "suspended"}, SetStatus(f, s)
      PROVE  CapHeld'
  BY <1>6, CapStatus
<1>7. ASSUME NEW f \in Scored, PaymentStep(f) \/ RecordStep(f) \/ YearPasses(f) PROVE CapHeld'
  BY <1>7, RecordingFrame, CapUntouched DEF OnlyRecords, handlerVars
<1>8. CASE Crash
  <2>1. MembersGiven /\ UNCHANGED <<registerVars, env>> /\ InPlace("admitting")' = {}
    BY <1>8 DEF MembersKnown, Crash, InPlace
  <2>2. plan' = plan /\ env' = env /\ ActiveMembers' = ActiveMembers /\ Slack' = Slack
    BY <2>1 DEF registerVars, ActiveMembers, Slack
  <2>3. /\ Cardinality(InPlace("admitting"))' = 0 /\ Cardinality(InPlace("admitting")) \in Nat
        /\ Cardinality(ActiveMembers) \in Nat /\ Slack \in Nat /\ Capacity \in Nat
    BY <2>1, FS_EmptySet, PlacesBounded, ActiveFinite, SlackIsNat DEF MembersGiven, BoundsAssumption
  <2> QED
    BY <2>2, <2>3 DEF CapHeld
<1>9. CASE UNCHANGED membersVars
  BY <1>9, CapUntouched DEF membersVars, handlerVars
<1> QED
  BY <1>1, <1>2, <1>3, <1>4, <1>5, <1>6, <1>7, <1>8, <1>9 DEF MembersNext

\* The register keeps to the plan's cap when requests do not overlap, and goes
\* over it by at most one member less than there are requests when they do.
THEOREM CapKept == MembersSpec => []WithinCap
<1>1. MembersGiven /\ MembersInit => MembersKnown /\ OneAtATime /\ CapHeld
  BY MembersInitKnown, CapInit
<1>2. MembersKnown /\ OneAtATime /\ CapHeld /\ [MembersNext]_membersVars =>
        MembersKnown' /\ OneAtATime' /\ CapHeld'
  BY MembersKnownStep, CapHeldStep
<1>3. MembersKnown /\ CapHeld => WithinCap
  <2> SUFFICES ASSUME MembersKnown, CapHeld PROVE WithinCap
    OBVIOUS
  <2>1. MembersGiven
    BY DEF MembersKnown
  <2>2. /\ Cardinality(InPlace("admitting")) \in Nat /\ Cardinality(Handlers) \in Nat
        /\ Cardinality(ActiveMembers) \in Nat /\ Slack \in Nat /\ Capacity \in Nat
    BY <2>1, PlacesBounded, ActiveFinite, SlackIsNat DEF MembersGiven, BoundsAssumption
  <2> QED
    BY <2>2 DEF CapHeld, WithinCap, Slack
<1> QED
  BY MembersAssumed, <1>1, <1>2, <1>3, PTL DEF MembersSpec

-----------------------------------------------------------------------------
(* Payments and the score *)

CalculatesFor(q, f) == at[q] = f /\ Calculates(pc[q])

\* What was paid and is not counted yet has a task waiting, or a calculation that
\* has not read it, or that read all of it.
Pending(f, k) ==
  \/ tasks[f] > 0
  \/ \E q \in Handlers :
       /\ CalculatesFor(q, f)
       /\ k \in ReadSoFar(pc[q]) => seen[q][k].good = records[f][k].good
  \/ /\ \A q \in Handlers : ~CalculatesFor(q, f)
     /\ counted[f][k].good = records[f][k].good

CountHeld ==
  env \cap {"crash", "overlap", "silent"} = {} /\ "score" \in env =>
    \A f \in Scored, k \in {"dues", "loans"} : Pending(f, k)

LEMMA CountInit ==
  ASSUME MembersInit
  PROVE  CountHeld
<1>1. ASSUME NEW f \in Scored, NEW k \in {"dues", "loans"} PROVE Pending(f, k)
  <2>1. \A q \in Handlers : ~CalculatesFor(q, f)
    BY DEF MembersInit, CalculatesFor, Calculates, Kinds
  <2>2. counted[f][k].good = records[f][k].good
    BY KindNames DEF MembersInit
  <2> QED
    BY <2>1, <2>2 DEF Pending
<1> QED
  BY <1>1 DEF CountHeld

\* Handlers that calculate nothing change nothing that is pending.
LEMMA CountUntouched ==
  ASSUME MembersKnown, CountHeld, NEW q \in Handlers, OthersKept(q),
         UNCHANGED <<records, scoreVars, tasks, env>>,
         ~Calculates(pc[q]), ~Calculates(pc'[q])
  PROVE  CountHeld'
<1>1. counted' = counted /\ records' = records /\ tasks' = tasks /\ env' = env
  BY DEF scoreVars
<1>2. ASSUME NEW f \in Scored, NEW k \in {"dues", "loans"}, Pending(f, k)
      PROVE  Pending(f, k)'
  <2>1. \A s \in Handlers :
          /\ CalculatesFor(s, f)' <=> CalculatesFor(s, f)
          /\ CalculatesFor(s, f) => pc'[s] = pc[s] /\ seen'[s] = seen[s]
    BY DEF CalculatesFor, OthersKept
  <2> QED
    BY <1>1, <1>2, <2>1 DEF Pending
<1> QED
  BY <1>1, <1>2 DEF CountHeld

LEMMA CountStays ==
  ASSUME CountHeld, UNCHANGED <<records, scoreVars, tasks, handlerVars, env>>
  PROVE  CountHeld'
<1>1. /\ counted' = counted /\ records' = records /\ tasks' = tasks /\ env' = env
      /\ pc' = pc /\ at' = at /\ seen' = seen
  BY DEF scoreVars, handlerVars
<1> QED
  BY <1>1 DEF CountHeld, Pending, CalculatesFor

LEMMA CountRecorded ==
  ASSUME MembersKnown, CountHeld, OnlyRecords
  PROVE  CountHeld'
<1>1. counted' = counted /\ env' = env /\ pc' = pc /\ at' = at /\ seen' = seen
  BY DEF OnlyRecords, scoreVars, handlerVars
<1>2. ASSUME NEW f \in Scored, NEW k \in {"dues", "loans"}, Pending(f, k), Calculated
      PROVE  Pending(f, k)'
  <2>1. /\ tasks[f] > 0 => tasks'[f] > 0
        /\ tasks'[f] > 0 \/ records'[f][k].good = records[f][k].good
    BY <1>2 DEF OnlyRecords
  <2>2. CASE tasks'[f] > 0
    BY <2>2 DEF Pending
  <2>3. CASE records'[f][k].good = records[f][k].good
    BY <1>1, <1>2, <2>1, <2>3 DEF Pending, CalculatesFor
  <2> QED
    BY <2>1, <2>2, <2>3
<1> QED
  BY <1>1, <1>2 DEF CountHeld, Calculated

\* A calculation begins: it will read whatever was paid.
LEMMA CountBegins ==
  ASSUME MembersKnown, CountHeld, NEW q \in Handlers, NEW f \in Scored,
         OthersKept(q), pc[q] = "idle", pc'[q] = "dues", at'[q] = f,
         UNCHANGED <<scoreVars, env>>,
         \A g \in Scored \ {f} : records'[g] = records[g] /\ tasks'[g] = tasks[g]
  PROVE  CountHeld'
<1>1. counted' = counted /\ env' = env
  BY DEF scoreVars
<1>2. ASSUME NEW k \in {"dues", "loans"} PROVE Pending(f, k)'
  <2>1. CalculatesFor(q, f)' /\ k \notin ReadSoFar(pc'[q])
    BY DEF CalculatesFor, Calculates, Kinds, ReadSoFar
  <2> QED
    BY <2>1 DEF Pending
<1>3. ASSUME NEW g \in Scored \ {f}, NEW k \in {"dues", "loans"}, Pending(g, k)
      PROVE  Pending(g, k)'
  <2>1. \A s \in Handlers :
          /\ CalculatesFor(s, g)' <=> CalculatesFor(s, g)
          /\ CalculatesFor(s, g) => pc'[s] = pc[s] /\ seen'[s] = seen[s]
    BY DEF CalculatesFor, OthersKept, Calculates, Kinds
  <2> QED
    BY <1>1, <1>3, <2>1 DEF Pending
<1> QED
  BY <1>1, <1>2, <1>3 DEF CountHeld

LEMMA CountRead ==
  ASSUME MembersKnown, OneAtATime, CountHeld, NEW q \in Handlers, ReadKind(q)
  PROVE  CountHeld'
<1>1. /\ OthersKept(q) /\ pc[q] \in Kinds /\ pc'[q] = After(pc[q]) /\ at'[q] = at[q]
      /\ seen'[q][pc[q]] = records[at[q]][pc[q]]
      /\ \A k \in Kinds \ {pc[q]} : seen'[q][k] = seen[q][k]
      /\ UNCHANGED <<records, tasks, env>> /\ counted' = counted
  BY ReadKindKnown DEF ReadKind, scoreVars
<1>2. /\ Calculates(pc[q]) /\ Calculates(pc'[q])
      /\ ReadSoFar(pc'[q]) = ReadSoFar(pc[q]) \cup {pc[q]}
  BY <1>1, PlacesRead DEF Calculates
<1>3. ASSUME NEW f \in Scored, NEW k \in {"dues", "loans"}, Pending(f, k)
      PROVE  Pending(f, k)'
  <2>1. \A s \in Handlers : CalculatesFor(s, f)' <=> CalculatesFor(s, f)
    BY <1>1, <1>2 DEF CalculatesFor, OthersKept
  <2>2. ASSUME NEW s \in Handlers, CalculatesFor(s, f),
               k \in ReadSoFar(pc[s]) => seen[s][k].good = records[f][k].good
        PROVE  k \in ReadSoFar(pc'[s]) => seen'[s][k].good = records[f][k].good
    <3>1. CASE s # q
      BY <1>1, <2>2, <3>1 DEF OthersKept
    <3>2. CASE s = q /\ k = pc[q]
      BY <1>1, <2>2, <3>2 DEF CalculatesFor
    <3>3. CASE s = q /\ k # pc[q]
      BY <1>1, <1>2, <2>2, <3>3, KindNames
    <3> QED
      BY <3>1, <3>2, <3>3
  <2> QED
    BY <1>1, <1>3, <2>1, <2>2 DEF Pending
<1> QED
  BY <1>1, <1>3 DEF CountHeld

\* A calculation that has read everything writes it, and no other is under way.
LEMMA CountSaved ==
  ASSUME MembersKnown, OneAtATime, CountHeld, NEW q \in Handlers, Save(q)
  PROVE  CountHeld'
<1>1. /\ OthersKept(q) /\ at[q] \in Scored /\ pc[q] = "save" /\ pc'[q] = "idle"
      /\ counted'[at[q]] = seen[q]
      /\ \A f \in Scored \ {at[q]} : counted'[f] = counted[f]
      /\ UNCHANGED <<records, tasks, env>>
  BY SaveKnown DEF Save
<1>2. SUFFICES ASSUME env \cap {"crash", "overlap", "silent"} = {}, "score" \in env,
                      NEW f \in Scored, NEW k \in {"dues", "loans"}
               PROVE  Pending(f, k)'
  BY <1>1 DEF CountHeld
<1>3. Pending(f, k)
  BY <1>2 DEF CountHeld
<1>4. \A s \in Handlers \ {q} : pc[s] = "idle" /\ pc'[s] = "idle"
  BY <1>1, <1>2 DEF OneAtATime, OthersKept
<1>5. \A s \in Handlers : ~CalculatesFor(s, f)'
  BY <1>1, <1>4 DEF CalculatesFor, Calculates, Kinds
<1>6. \A s \in Handlers : CalculatesFor(s, f) <=> s = q /\ at[q] = f
  BY <1>1, <1>4 DEF CalculatesFor, Calculates, Kinds
<1>7. CASE at[q] = f
  <2>1. k \in ReadSoFar(pc[q])
    BY <1>1, KindNames DEF ReadSoFar
  <2>2. tasks[f] > 0 \/ seen[q][k].good = records[f][k].good
    BY <1>3, <1>6, <1>7, <2>1 DEF Pending
  <2> QED
    BY <1>1, <1>5, <1>7, <2>2 DEF Pending
<1>8. CASE at[q] # f
  <2>1. tasks[f] > 0 \/ counted[f][k].good = records[f][k].good
    BY <1>3, <1>6, <1>8 DEF Pending
  <2> QED
    BY <1>1, <1>5, <1>8, <2>1 DEF Pending
<1> QED
  BY <1>7, <1>8

LEMMA CountHeldStep ==
  ASSUME MembersKnown, OneAtATime, CountHeld, [MembersNext]_membersVars
  PROVE  CountHeld'
<1>1. CASE PlanChanges \/ UpdateCooperative
  BY <1>1, CountStays DEF PlanChanges, UpdateCooperative
<1>2. ASSUME NEW q \in Handlers, WalletStep(q) PROVE CountHeld'
  <2>1. UNCHANGED <<records, scoreVars, tasks, env>>
    BY <1>2 DEF WalletStep, ProvisionStart, CreateAccount, ProvisionRecord
  <2>2. OthersKept(q)
    BY <1>2, ProvisionStartKnown, CreateAccountKnown, ProvisionRecordKnown DEF WalletStep
  <2>3. pc[q] \in {"idle", "provisioning", "opened"} /\ pc'[q] \in {"idle", "provisioning", "opened"}
    BY <1>2 DEF WalletStep, ProvisionStart, CreateAccount, ProvisionRecord, Free, End, MembersKnown, MembersTypeOK
  <2> QED
    BY <2>1, <2>2, <2>3, CountUntouched DEF Calculates, Kinds
<1>3. ASSUME NEW q \in Handlers, AdmitInsert(q) PROVE CountHeld'
  <2>1. /\ OthersKept(q) /\ pc[q] = "admitting" /\ pc'[q] = "idle"
        /\ UNCHANGED <<records, scoreVars, tasks, env>>
    BY <1>3, AdmitInsertKnown DEF AdmitInsert
  <2> QED
    BY <2>1, CountUntouched DEF Calculates, Kinds
<1>4. ASSUME NEW q \in Handlers, ScoreStep(q) PROVE CountHeld'
  <2>1. CASE ReadKind(q)
    BY <2>1, CountRead
  <2>2. CASE Save(q)
    BY <2>2, CountSaved
  <2>3. ASSUME NEW f \in Scored, Recalculate(q, f) PROVE CountHeld'
    <3>1. UNCHANGED <<records, tasks, scoreVars, env>>
      BY <2>3 DEF Recalculate
    <3> QED
      BY <2>3, <3>1, RecalculateKnown, CountBegins
  <2>4. ASSUME NEW f \in Scored, PostPayment(q, f) PROVE CountHeld'
    <3>1. /\ UNCHANGED <<records, scoreVars, env>>
          /\ \A g \in Scored \ {f} : tasks'[g] = tasks[g]
      BY <2>4 DEF PostPayment, MembersKnown, MembersTypeOK
    <3> QED
      BY <2>4, <3>1, PostPaymentKnown, CountBegins
  <2>5. ASSUME NEW f \in Scored, RepaymentFinalized(q, f) PROVE CountHeld'
    <3>1. /\ UNCHANGED <<tasks, scoreVars, env>>
          /\ \A g \in Scored \ {f} : records'[g] = records[g]
      BY <2>5 DEF RepaymentFinalized, Put, MembersKnown, MembersTypeOK
    <3> QED
      BY <2>5, <3>1, RepaymentFinalizedKnown, CountBegins
  <2> QED
    BY <1>4, <2>1, <2>2, <2>3, <2>4, <2>5 DEF ScoreStep
<1>5. ASSUME NEW q \in Handlers, NEW f \in Farmers, AdmitCheck(q, f) PROVE CountHeld'
  <2>1. /\ OthersKept(q) /\ pc[q] = "idle" /\ pc'[q] = "admitting"
        /\ UNCHANGED <<records, scoreVars, tasks, env>>
    BY <1>5, AdmitCheckKnown DEF AdmitCheck, Free
  <2> QED
    BY <2>1, CountUntouched DEF Calculates, Kinds
<1>6. ASSUME NEW f \in Farmers, NEW s, SetStatus(f, s) PROVE CountHeld'
  BY <1>6, CountStays DEF SetStatus
<1>7. ASSUME NEW f \in Scored, PaymentStep(f) \/ RecordStep(f) \/ YearPasses(f) PROVE CountHeld'
  BY <1>7, RecordingFrame, CountRecorded
<1>8. CASE Crash
  BY <1>8 DEF Crash, CountHeld
<1>9. CASE UNCHANGED membersVars
  BY <1>9, CountStays DEF membersVars
<1> QED
  BY <1>1, <1>2, <1>3, <1>4, <1>5, <1>6, <1>7, <1>8, <1>9 DEF MembersNext

\* Once nothing is under way for a member, the last score counts every due that
\* was paid and every loan that was repaid.
THEOREM PaymentsCounted == MembersSpec => []PaidIsCounted
<1>1. MembersGiven /\ MembersInit => MembersKnown /\ OneAtATime /\ CountHeld
  BY MembersInitKnown, CountInit
<1>2. MembersKnown /\ OneAtATime /\ CountHeld /\ [MembersNext]_membersVars =>
        MembersKnown' /\ OneAtATime' /\ CountHeld'
  BY MembersKnownStep, CountHeldStep
<1>3. MembersKnown /\ CountHeld => PaidIsCounted
  <2> SUFFICES ASSUME MembersKnown, CountHeld,
                      env \cap {"crash", "overlap", "silent"} = {}, "score" \in env,
                      NEW f \in Scored, tasks[f] = 0, \A q \in Handlers : at[q] # f,
                      NEW k \in {"dues", "loans"}
               PROVE  counted[f][k].good = records[f][k].good
    BY DEF PaidIsCounted
  <2>1. Pending(f, k)
    BY DEF CountHeld
  <2> QED
    BY <2>1 DEF Pending, CalculatesFor
<1> QED
  BY MembersAssumed, <1>1, <1>2, <1>3, PTL DEF MembersSpec

-----------------------------------------------------------------------------
(* LoanRepayment *)

USE MaxAttemptsAssumption, NoRequestAssumption DEF Attempts

-----------------------------------------------------------------------------
(* How a request moves on *)

\* The history of the ledger's own decisions only grows.
Grows == why' \in [Attempts -> SUBSET {"expired", "unanswered", "retired", "overwritten"}]
           /\ \A a \in Attempts : why[a] \subseteq why'[a]

\* A request that neither sends nor holds an answer keeps the requests' part.
LEMMA MoveOn ==
  ASSUME SafetyInv, NEW r \in Requests, NEW v \in Request, req' = [req EXCEPT ![r] = v],
         v.at \in {"idle", "expire", "lock", "finalize", "resume", "resend", "stale"},
         v.at \notin {"idle", "expire", "lock"} => v.att \in 1..last,
         v.at \in {"resume", "resend"} => col[v.att] # "absent",
         Grows, UNCHANGED <<last, col>>
  PROVE  RequestInv'
<1> USE DEF SafetyInv, TypeOK, RequestInv, Request, Grows
<1>1. WorksOnRecorded'
  BY DEF WorksOnRecorded
<1>2. OneSender'
  BY DEF OneSender, At
<1>3. FailureIsKnown'
  <2> SUFFICES ASSUME NEW s \in Requests, req'[s].at \in {"answered", "reanswered"}, req'[s].ans = "failed"
               PROVE  col[req'[s].att] = "declined" \/ why'[req'[s].att] # {}
    BY DEF FailureIsKnown
  <2>1. s # r /\ req'[s] = req[s]
    OBVIOUS
  <2>2. req[s].at \in {"answered", "reanswered"} /\ req[s].ans = "failed"
    BY <2>1
  <2>3. req[s].att \in 1..last
    BY <2>2 DEF WorksOnRecorded
  <2>4. col[req[s].att] = "declined" \/ why[req[s].att] # {}
    BY <2>2 DEF FailureIsKnown
  <2>5. QED
    BY <2>1, <2>3, <2>4
<1>4. RetiredFirst'
  <2> SUFFICES ASSUME NEW s \in Requests, req'[s].at = "create"
               PROVE  Retired'
    BY DEF RetiredFirst, At
  <2>1. req[s].at = "create"
    OBVIOUS
  <2>2. Retired
    BY <2>1 DEF RetiredFirst, At
  <2>3. QED
    BY <2>2 DEF Retired
<1>5. QED
  BY <1>1, <1>2, <1>3, <1>4

\* So does a step of the ledger alone.
LEMMA Stay ==
  ASSUME SafetyInv, Grows, UNCHANGED <<last, col, req>>
  PROVE  RequestInv'
<1> USE DEF SafetyInv, TypeOK, RequestInv, Request, Grows
<1>1. WorksOnRecorded' /\ OneSender'
  BY DEF WorksOnRecorded, OneSender, At
<1>2. FailureIsKnown'
  <2> SUFFICES ASSUME NEW s \in Requests, req[s].at \in {"answered", "reanswered"}, req[s].ans = "failed"
               PROVE  col[req[s].att] = "declined" \/ why'[req[s].att] # {}
    BY DEF FailureIsKnown
  <2>1. req[s].att \in Attempts
    BY DEF WorksOnRecorded
  <2>2. col[req[s].att] = "declined" \/ why[req[s].att] # {}
    BY DEF FailureIsKnown
  <2>3. QED
    BY <2>1, <2>2
<1>3. RetiredFirst'
  BY DEF RetiredFirst, Retired, At
<1>4. QED
  BY <1>1, <1>2, <1>3

-----------------------------------------------------------------------------
(* How an attempt changes *)

\* An attempt the provider knows gets another action and keeps its status.
LEMMA Relabelled ==
  ASSUME SafetyInv, NEW a \in 1..last, col[a] # "absent", NEW act,
         tx' = [tx EXCEPT ![a] = tx[a]], action' = [action EXCEPT ![a] = act],
         UNCHANGED <<loan, last, col, why>>
  PROVE  LedgerInv'
<1>1. tx' = tx
  BY DEF SafetyInv, TypeOK
<1>2. UnsentIsOpen'
  BY <1>1 DEF SafetyInv, TypeOK, LedgerInv, UnsentIsOpen
<1>3. QED
  BY <1>1, <1>2 DEF SafetyInv, LedgerInv, AttemptsNumbered, ClosedTogether, CompletedIsCollected,
     RecordedBeforePrompted, OnlyLatestOpen, FailedIsDead, Retired, Overwritten

\* An attempt fails: the provider has declined it, or the ledger notes that it
\* gave it up; a completed one only by an overwriting that is noted.
LEMMA Failed ==
  ASSUME SafetyInv, NEW a \in 1..last, col[a] # "absent", NEW act,
         tx' = [tx EXCEPT ![a] = "failed"], action' = [action EXCEPT ![a] = act],
         tx[a] # "completed" \/ "overwritten" \in why'[a],
         col[a] = "declined" \/ why'[a] # {},
         Grows, UNCHANGED <<loan, last, col>>
  PROVE  LedgerInv'
<1> USE DEF SafetyInv, TypeOK, LedgerInv, Grows
<1>1. AttemptsNumbered' /\ UnsentIsOpen' /\ CompletedIsCollected' /\ RecordedBeforePrompted'
  BY DEF AttemptsNumbered, UnsentIsOpen, CompletedIsCollected, RecordedBeforePrompted
<1>2. ClosedTogether'
  BY DEF ClosedTogether, Overwritten
<1>3. OnlyLatestOpen'
  BY DEF OnlyLatestOpen, Retired
<1>4. FailedIsDead'
  BY DEF FailedIsDead
<1>5. QED
  BY <1>1, <1>2, <1>3, <1>4

\* An attempt the provider has collected completes, and the loan with it.
LEMMA Completed ==
  ASSUME SafetyInv, NEW a \in 1..last, col[a] \in {"collected", "other"}, NEW act,
         tx' = [tx EXCEPT ![a] = "completed"], action' = [action EXCEPT ![a] = act],
         loan' = "repaid", UNCHANGED <<last, col, why>>
  PROVE  LedgerInv'
<1> USE DEF SafetyInv, TypeOK, LedgerInv
<1>1. AttemptsNumbered' /\ UnsentIsOpen' /\ CompletedIsCollected' /\ RecordedBeforePrompted'
  BY DEF AttemptsNumbered, UnsentIsOpen, CompletedIsCollected, RecordedBeforePrompted
<1>2. ClosedTogether'
  BY DEF ClosedTogether, Overwritten
<1>3. OnlyLatestOpen' /\ FailedIsDead'
  BY DEF OnlyLatestOpen, FailedIsDead, Retired
<1>4. QED
  BY <1>1, <1>2, <1>3

\* Nothing of the ledger changes but deadlines.
LEMMA LedgerStays ==
  ASSUME SafetyInv, UNCHANGED <<loan, tx, action, last, col, why>>
  PROVE  LedgerInv'
  BY DEF SafetyInv, LedgerInv, AttemptsNumbered, UnsentIsOpen, ClosedTogether, CompletedIsCollected,
     RecordedBeforePrompted, OnlyLatestOpen, FailedIsDead, Retired, Overwritten

-----------------------------------------------------------------------------
(* The actions *)

\* Only the request moves on; locks and deadlines may change.
LEMMA OnlyRequest ==
  ASSUME SafetyInv, NEW r \in Requests, NEW v \in Request, req' = [req EXCEPT ![r] = v],
         v.at \in {"idle", "expire", "lock", "finalize", "resume", "resend", "stale"},
         v.at \notin {"idle", "expire", "lock"} => v.att \in 1..last,
         v.at \in {"resume", "resend"} => col[v.att] # "absent",
         loanLock' \in Requests \cup {NoRequest}, elapsed' \subseteq Attempts,
         UNCHANGED <<loan, tx, action, last, col, why>>
  PROVE  SafetyInv'
<1>1. TypeOK'
  BY DEF SafetyInv, TypeOK
<1>2. Grows
  BY DEF Grows, SafetyInv, TypeOK
<1>3. RequestInv'
  BY <1>2, MoveOn
<1>4. LedgerInv'
  BY LedgerStays
<1>5. QED
  BY <1>1, <1>3, <1>4 DEF SafetyInv

LEMMA IdleRequest == Idle \in Request /\ Idle.at = "idle" /\ Idle.att = 0
  BY DEF Idle, Request, Phase

LEMMA StartCheckSafe ==
  ASSUME SafetyInv, NEW r \in Requests, StartCheck(r)
  PROVE  SafetyInv'
<1> DEFINE v == [req[r] EXCEPT !.at = "expire"]
<1>1. v \in Request /\ req' = [req EXCEPT ![r] = v]
  BY DEF StartCheck, SafetyInv, TypeOK, Request, Phase, At, Goto
<1>2. v.at = "expire" /\ loanLock' \in Requests \cup {NoRequest} /\ elapsed' \subseteq Attempts
  BY DEF StartCheck, SafetyInv, TypeOK, Request, ledger
<1>3. QED
  BY <1>1, <1>2, OnlyRequest DEF StartCheck, ledger

LEMMA StartReturnsSafe ==
  ASSUME SafetyInv, NEW r \in Requests, StartReturns(r)
  PROVE  SafetyInv'
<1> DEFINE v == Idle
<1>1. v \in Request /\ req' = [req EXCEPT ![r] = v]
  BY DEF StartReturns, SafetyInv, TypeOK, Request, Phase, Return, Idle
<1>2. QED
  BY <1>1, IdleRequest, OnlyRequest DEF StartReturns, SafetyInv, TypeOK, ledger

LEMMA StartPollsSafe ==
  ASSUME SafetyInv, NEW r \in Requests, StartPolls(r)
  PROVE  SafetyInv'
<1> DEFINE v == [at |-> "finalize", att |-> last, ans |-> "none"]
<1>1. v \in Request /\ req' = [req EXCEPT ![r] = v]
  BY DEF StartPolls, SafetyInv, TypeOK, Request, Phase, Take, LatestIs
<1>2. last \in 1..last /\ loanLock' \in Requests \cup {NoRequest} /\ elapsed' \subseteq Attempts
  BY DEF StartPolls, LatestIs, SafetyInv, TypeOK, ledger
<1>3. QED
  BY <1>1, <1>2, OnlyRequest DEF StartPolls, ledger

LEMMA ResumeLoadSafe ==
  ASSUME SafetyInv, NEW r \in Requests, NEW a \in Attempts, ResumeLoad(r, a)
  PROVE  SafetyInv'
<1> DEFINE v == [at |-> "resume", att |-> a, ans |-> "none"]
<1>1. v \in Request /\ req' = [req EXCEPT ![r] = v]
  BY DEF ResumeLoad, SafetyInv, TypeOK, Request, Phase, Take
<1>2. a \in 1..last
  BY DEF ResumeLoad, SafetyInv, TypeOK, LedgerInv, AttemptsNumbered
<1>3. col[a] # "absent"
  BY <1>2 DEF ResumeLoad, SafetyInv, LedgerInv, UnsentIsOpen
<1>4. QED
  BY <1>1, <1>2, <1>3, OnlyRequest DEF ResumeLoad, SafetyInv, TypeOK, ledger

LEMMA StaleReadSafe ==
  ASSUME SafetyInv, NEW r \in Requests, NEW a \in Attempts, StaleRead(r, a)
  PROVE  SafetyInv'
<1> DEFINE v == [at |-> "stale", att |-> a, ans |-> "none"]
<1>1. v \in Request /\ req' = [req EXCEPT ![r] = v]
  BY DEF StaleRead, SafetyInv, TypeOK, Request, Phase, Take
<1>2. a \in 1..last
  BY DEF StaleRead, SafetyInv, TypeOK, LedgerInv, AttemptsNumbered
<1>3. QED
  BY <1>1, <1>2, OnlyRequest DEF StaleRead, SafetyInv, TypeOK, ledger

LEMMA ResumeRefusedSafe ==
  ASSUME SafetyInv, NEW r \in Requests, ResumeRefused(r)
  PROVE  SafetyInv'
<1> DEFINE v == Idle
<1>1. v \in Request /\ req' = [req EXCEPT ![r] = v]
  BY DEF ResumeRefused, SafetyInv, TypeOK, Request, Phase, Return, Goto, Idle, At
<1>2. loanLock' \in Requests \cup {NoRequest} /\ elapsed' \subseteq Attempts /\ v.at = "idle"
  BY <1>1 DEF ResumeRefused, SafetyInv, TypeOK, ledger, Idle, Request
<1>3. QED
  BY <1>1, <1>2, OnlyRequest DEF ResumeRefused, ledger

LEMMA RequestDiesSafe ==
  ASSUME SafetyInv, NEW r \in Requests, RequestDies(r)
  PROVE  SafetyInv'
<1> DEFINE v == Idle
<1>1. v \in Request /\ req' = [req EXCEPT ![r] = v]
  BY DEF RequestDies, SafetyInv, TypeOK, Request, Phase, Return, Goto, Idle, At
<1>2. loanLock' \in Requests \cup {NoRequest} /\ elapsed' \subseteq Attempts /\ v.at = "idle"
  BY <1>1 DEF RequestDies, SafetyInv, TypeOK, ledger, Idle, Request
<1>3. QED
  BY <1>1, <1>2, OnlyRequest DEF RequestDies, ledger

\* Elapsed prompts fail together; none of them is still to be sent.
LEMMA ExpireSafe ==
  ASSUME SafetyInv, ExpireCustomerActions, UNCHANGED <<loan, last, col>>
  PROVE  /\ LedgerInv' /\ Grows
         /\ tx' \in [Attempts -> TxStatus] /\ action' \in [Attempts -> CustomerAction]
<1> USE DEF SafetyInv, TypeOK, LedgerInv, ExpireCustomerActions
<1>1. Grows
  BY DEF Grows
<1>2. tx' \in [Attempts -> TxStatus] /\ action' \in [Attempts -> CustomerAction]
  BY DEF TxStatus, CustomerAction
<1>3. \A a \in Attempts : a \in Expirable => tx[a] = "pending" /\ action[a] \in {"otp", "approval"}
  BY DEF Expirable
<1>4. AttemptsNumbered' /\ CompletedIsCollected' /\ RecordedBeforePrompted'
  BY <1>3 DEF AttemptsNumbered, CompletedIsCollected, RecordedBeforePrompted
<1>9. UnsentIsOpen'
  <2> SUFFICES ASSUME NEW a \in 1..last, col[a] = "absent"
               PROVE  tx'[a] = "pending" /\ action'[a] = "initiating"
    BY DEF UnsentIsOpen
  <2>1. a \in Attempts /\ tx[a] = "pending" /\ action[a] = "initiating"
    BY DEF UnsentIsOpen
  <2>2. a \notin Expirable
    BY <1>3, <2>1
  <2>3. QED
    BY <2>1, <2>2
<1>5. ClosedTogether'
  BY <1>1, <1>3 DEF ClosedTogether, Overwritten, Grows
<1>6. OnlyLatestOpen'
  BY <1>1, <1>3 DEF OnlyLatestOpen, Retired, Grows
<1>7. FailedIsDead'
  BY DEF FailedIsDead
<1>8. QED
  BY <1>1, <1>2, <1>4, <1>5, <1>6, <1>7, <1>9

LEMMA StartExpireSafe ==
  ASSUME SafetyInv, NEW r \in Requests, StartExpire(r)
  PROVE  SafetyInv'
<1> DEFINE v == [req[r] EXCEPT !.at = "lock"]
<1>1. v \in Request /\ v.at = "lock" /\ req' = [req EXCEPT ![r] = v]
  BY DEF StartExpire, SafetyInv, TypeOK, Request, Phase, Goto
<1>2. /\ LedgerInv' /\ Grows
      /\ tx' \in [Attempts -> TxStatus] /\ action' \in [Attempts -> CustomerAction]
  BY ExpireSafe DEF StartExpire
<1>3. RequestInv'
  BY <1>1, <1>2, MoveOn DEF StartExpire
<1>4. TypeOK'
  BY <1>1, <1>2 DEF StartExpire, SafetyInv, TypeOK, Grows, ExpireCustomerActions
<1>5. QED
  BY <1>2, <1>3, <1>4 DEF SafetyInv

LEMMA ListPendingSafe ==
  ASSUME SafetyInv, ListPending
  PROVE  SafetyInv'
<1>1. /\ LedgerInv' /\ Grows
      /\ tx' \in [Attempts -> TxStatus] /\ action' \in [Attempts -> CustomerAction]
  BY ExpireSafe DEF ListPending
<1>2. RequestInv'
  BY <1>1, Stay DEF ListPending
<1>3. TypeOK'
  BY <1>1 DEF ListPending, SafetyInv, TypeOK, Grows, ExpireCustomerActions
<1>4. QED
  BY <1>1, <1>2, <1>3 DEF SafetyInv

LEMMA StartRetiresSafe ==
  ASSUME SafetyInv, NEW r \in Requests, StartRetires(r)
  PROVE  SafetyInv'
<1> USE DEF SafetyInv, TypeOK
<1>1. last \in 1..last /\ last \in Attempts /\ tx[last] = "pending" /\ action[last] = "none"
  BY DEF StartRetires, LatestIs
<1>2. col[last] # "absent"
  BY <1>1 DEF LedgerInv, UnsentIsOpen
<1>3. Grows /\ Retired' /\ why'[last] # {}
  BY <1>1 DEF StartRetires, GiveUp, Grows, Retired
<1>4. action' = [action EXCEPT ![last] = action[last]]
  BY DEF StartRetires
<1>5. LedgerInv'
  BY <1>1, <1>2, <1>3, <1>4, Failed DEF StartRetires
<1>6. RequestInv'
  <2> DEFINE v == [req[r] EXCEPT !.at = "create"]
  <2>1. req' = [req EXCEPT ![r] = v] /\ v \in Request /\ v.at = "create"
    BY DEF StartRetires, Goto, Request, Phase
  <2> HIDE DEF v
  <2>2. WorksOnRecorded' /\ OneSender'
    BY <2>1 DEF StartRetires, RequestInv, WorksOnRecorded, OneSender, At
  <2>3. FailureIsKnown'
    BY <2>1 DEF StartRetires, GiveUp, RequestInv, FailureIsKnown
  <2>4. QED
    BY <1>3, <2>2, <2>3 DEF RequestInv, RetiredFirst
<1>7. TypeOK'
  BY <1>1, <1>3 DEF StartRetires, Goto, Grows, TxStatus, Request, Phase
<1>8. QED
  BY <1>5, <1>6, <1>7

\* A new attempt, when no earlier one is open or an old row was retired.
LEMMA CreateAttemptSafe ==
  ASSUME SafetyInv, NEW r \in Requests, CreateAttempt(r), UNCHANGED loanLock,
         Retired \/ last = 0 \/ LatestIs({"completed", "failed"})
  PROVE  SafetyInv'
<1> USE DEF SafetyInv, TypeOK, CreateAttempt
<1> DEFINE v == [at |-> "initiate", att |-> last + 1, ans |-> "none"]
<1>1. last + 1 \in Attempts /\ v \in Request /\ req' = [req EXCEPT ![r] = v]
  BY DEF Take, Request, Phase
<1>2. TypeOK'
  BY <1>1 DEF TxStatus, CustomerAction
<1>3. tx[last + 1] = "none" /\ col[last + 1] = "absent"
  BY <1>1 DEF LedgerInv, AttemptsNumbered, RecordedBeforePrompted
<1>4. AttemptsNumbered' /\ RecordedBeforePrompted' /\ CompletedIsCollected' /\ FailedIsDead'
  BY <1>1, <1>3 DEF LedgerInv, AttemptsNumbered, RecordedBeforePrompted, CompletedIsCollected, FailedIsDead
<1>5. UnsentIsOpen'
  BY <1>1 DEF LedgerInv, UnsentIsOpen
<1>6. ClosedTogether'
  BY <1>1, <1>3 DEF LedgerInv, ClosedTogether, Overwritten
<1>7. OnlyLatestOpen'
  BY <1>1 DEF LedgerInv, OnlyLatestOpen, AttemptsNumbered, Retired, LatestIs
<1>8. WorksOnRecorded'
  BY <1>1 DEF RequestInv, WorksOnRecorded
<1>9. OneSender'
  <2>1. \A s \in Requests : At(s, "initiate")' /\ s # r
          => req'[s] = req[s] /\ At(s, "initiate") /\ req[s].att \in 1..last
    BY <1>1 DEF RequestInv, WorksOnRecorded, At
  <2>2. req'[r].att = last + 1
    BY <1>1
  <2>3. \A s \in Requests : At(s, "initiate")' => col'[req'[s].att] = "absent"
    BY <1>3, <2>1, <2>2 DEF RequestInv, OneSender
  <2>4. ASSUME NEW s \in Requests, NEW t \in Requests, At(s, "initiate")', At(t, "initiate")',
               req'[s].att = req'[t].att
        PROVE  s = t
    <3>1. CASE s # r /\ t # r
      BY <2>1, <2>4, <3>1 DEF RequestInv, OneSender
    <3>2. CASE s = r \/ t = r
      BY <2>1, <2>2, <2>4, <3>2
    <3>3. QED
      BY <3>1, <3>2
  <2>5. QED
    BY <2>3, <2>4 DEF OneSender
<1>10. FailureIsKnown' /\ RetiredFirst'
  BY <1>1 DEF RequestInv, FailureIsKnown, RetiredFirst, Retired, At
<1>11. QED
  BY <1>2, <1>4, <1>5, <1>6, <1>7, <1>8, <1>9, <1>10 DEF RequestInv, LedgerInv

LEMMA StartCreatesSafe ==
  ASSUME SafetyInv, NEW r \in Requests, StartCreates(r)
  PROVE  SafetyInv'
  BY CreateAttemptSafe DEF StartCreates

LEMMA StartAfterRetiringSafe ==
  ASSUME SafetyInv, NEW r \in Requests, StartAfterRetiring(r)
  PROVE  SafetyInv'
  BY CreateAttemptSafe DEF StartAfterRetiring, SafetyInv, RequestInv, RetiredFirst

\* The provider's side of an attempt it knows, or is told of, moves on.
LEMMA ProviderMoves ==
  ASSUME SafetyInv, NEW a \in 1..last, NEW kind \in Collection \ {"absent"},
         col' = [col EXCEPT ![a] = kind],
         col[a] \in {"collected", "other", "declined"} => kind = col[a],
         Grows, UNCHANGED <<loan, tx, action, last>>
  PROVE  LedgerInv'
<1> USE DEF SafetyInv, TypeOK, LedgerInv, Grows
<1>1. AttemptsNumbered' /\ UnsentIsOpen' /\ CompletedIsCollected' /\ RecordedBeforePrompted'
  BY DEF AttemptsNumbered, UnsentIsOpen, CompletedIsCollected, RecordedBeforePrompted
<1>2. ClosedTogether' /\ OnlyLatestOpen'
  BY DEF ClosedTogether, Overwritten, OnlyLatestOpen, Retired
<1>3. FailedIsDead'
  BY DEF FailedIsDead
<1>4. QED
  BY <1>1, <1>2, <1>3

\* A request hears the answer of initiate_payment: a failure is the
\* provider's, or the answer was lost.  No other request sends the attempt.
LEMMA HearsAnswer ==
  ASSUME SafetyInv, NEW r \in Requests, NEW a \in 1..last, req[r].att = a,
         NEW answer \in {"push", "otp", "failed"}, NEW phase \in {"answered", "reanswered"},
         Hear(r, answer, phase),
         NEW kind \in Collection \ {"absent"}, col' = [col EXCEPT ![a] = kind],
         col[a] = "declined" => kind = "declined",
         At(r, "initiate") \/ col[a] # "absent",
         answer = "failed" => kind = "declined" \/ why'[a] # {},
         Grows, UNCHANGED last
  PROVE  RequestInv' /\ req' \in [Requests -> Request] /\ col' \in [Attempts -> Collection]
<1> USE DEF SafetyInv, TypeOK, RequestInv, Request, Grows
<1> DEFINE v == [req[r] EXCEPT !.ans = answer, !.at = phase]
<1>1. v \in Request /\ v.at = phase /\ v.ans = answer /\ v.att = a /\ req' = [req EXCEPT ![r] = v]
  BY DEF Hear, Phase
<1> HIDE DEF v
<1>2. WorksOnRecorded'
  BY <1>1 DEF WorksOnRecorded
<1>3. OneSender'
  BY <1>1 DEF OneSender, At
<1>4. FailureIsKnown'
  <2> SUFFICES ASSUME NEW s \in Requests, req'[s].at \in {"answered", "reanswered"}, req'[s].ans = "failed"
               PROVE  col'[req'[s].att] = "declined" \/ why'[req'[s].att] # {}
    BY DEF FailureIsKnown
  <2>1. CASE s = r
    BY <1>1, <2>1
  <2>2. CASE s # r
    <3>1. req'[s] = req[s]
      BY <1>1, <2>2
    <3>2. req[s].at \in {"answered", "reanswered"} /\ req[s].ans = "failed"
      BY <3>1
    <3>3. req[s].att \in 1..last
      BY <3>2 DEF WorksOnRecorded
    <3>4. col[req[s].att] = "declined" \/ why[req[s].att] # {}
      BY <3>2 DEF FailureIsKnown
    <3>5. QED
      BY <3>1, <3>3, <3>4
  <2>3. QED
    BY <2>1, <2>2
<1>5. RetiredFirst'
  <2> SUFFICES ASSUME NEW s \in Requests, req'[s].at = "create"
               PROVE  Retired'
    BY DEF RetiredFirst, At
  <2>1. req[s].at = "create"
    BY <1>1
  <2>2. Retired
    BY <2>1 DEF RetiredFirst, At
  <2>3. QED
    BY <2>2 DEF Retired
<1>6. QED
  BY <1>1, <1>2, <1>3, <1>4, <1>5

LEMMA InitiateSafe ==
  ASSUME SafetyInv, NEW r \in Requests, Initiate(r)
  PROVE  SafetyInv'
<1> DEFINE a == req[r].att
<1>1. a \in 1..last /\ a \in Attempts /\ col[a] = "absent" /\ At(r, "initiate")
  <2>1. At(r, "initiate")
    BY DEF Initiate
  <2>2. a \in 1..last
    BY <2>1 DEF SafetyInv, RequestInv, WorksOnRecorded, At
  <2>3. QED
    BY <2>1, <2>2 DEF SafetyInv, TypeOK, RequestInv, OneSender
<1>2. PICK kind \in {"prompted", "otp", "declined"}, answer \in {"push", "otp", "failed"} :
        /\ col' = [col EXCEPT ![a] = kind]
        /\ Hear(r, answer, "answered")
        /\ answer = "failed" => kind = "declined" \/ why'[a] # {}
        /\ Grows
  <2>1. CASE /\ \E kind \in {"prompted", "otp", "declined"} :
                  /\ col' = [col EXCEPT ![a] = kind]
                  /\ Hear(r, AnswerTo(kind), "answered")
             /\ UNCHANGED why
    BY <1>1, <2>1 DEF AnswerTo, Grows, SafetyInv, TypeOK
  <2>2. CASE /\ \E kind \in {"prompted", "otp"} : col' = [col EXCEPT ![a] = kind]
             /\ Hear(r, "failed", "answered")
             /\ GiveUp(a, "unanswered")
    <3>1. Grows /\ why'[a] # {}
      BY <1>1, <2>2 DEF GiveUp, Grows, SafetyInv, TypeOK
    <3>2. QED
      BY <2>2, <3>1
  <2>3. QED
    BY <2>1, <2>2 DEF Initiate
<1>3. kind \in Collection \ {"absent"}
  BY DEF Collection
<1> HIDE DEF a
<1>4. LedgerInv'
  BY <1>1, <1>2, <1>3, ProviderMoves DEF Initiate
<1>5. RequestInv' /\ req' \in [Requests -> Request] /\ col' \in [Attempts -> Collection]
  BY <1>1, <1>2, <1>3, HearsAnswer DEF Initiate, a
<1>6. TypeOK'
  BY <1>2, <1>5 DEF Initiate, SafetyInv, TypeOK, Grows
<1>7. QED
  BY <1>4, <1>5, <1>6 DEF SafetyInv

\* Recording an answer: the attempt fails or is relabelled, unless it is done.
LEMMA AnswerRecorded ==
  ASSUME SafetyInv, NEW r \in Requests, NEW a \in 1..last, a = req[r].att,
         req[r].at \in {"answered", "reanswered"},
         NEW done \in BOOLEAN, ~done => tx[a] # "completed",
         \/ done /\ UNCHANGED <<tx, action, elapsed>> /\ Return(r)
         \/ ~done /\ req[r].ans = "failed" /\ SetAttempt(a, "failed", "none") /\ Return(r)
         \/ ~done /\ req[r].ans = "otp" /\ SetAttempt(a, tx[a], "otp") /\ Return(r)
         \/ ~done /\ req[r].ans = "push" /\ SetAttempt(a, tx[a], "approval") /\ Goto(r, "finalize"),
         UNCHANGED <<loan, loanLock, last, col, why>>
  PROVE  SafetyInv'
<1>1. a \in Attempts /\ col[a] # "absent" /\ Grows
  BY DEF SafetyInv, TypeOK, RequestInv, WorksOnRecorded, Grows
<1>2. PICK v \in Request : /\ req' = [req EXCEPT ![r] = v]
                           /\ v.at \in {"idle", "finalize"} /\ v.att \in 0..last
                           /\ v.at = "finalize" => v.att = a
  <2>1. CASE Return(r)
    <3>1. 0 \in 0..last
      BY DEF SafetyInv, TypeOK
    <3>2. QED
      BY <2>1, <3>1, IdleRequest DEF Return
  <2>2. CASE Goto(r, "finalize")
    <3> DEFINE v == [req[r] EXCEPT !.at = "finalize"]
    <3>1. req' = [req EXCEPT ![r] = v] /\ v \in Request /\ v.at = "finalize" /\ v.att = a
      BY <2>2 DEF Goto, SafetyInv, TypeOK, Request, Phase
    <3> HIDE DEF v
    <3>2. a \in 0..last
      BY DEF SafetyInv, TypeOK
    <3>3. QED
      BY <3>1, <3>2
  <2>3. QED
    BY <2>1, <2>2
<1>3. RequestInv'
  BY <1>1, <1>2, MoveOn
<1>4. LedgerInv'
  <2>1. CASE UNCHANGED <<tx, action>>
    BY <2>1, LedgerStays
  <2>2. CASE ~done /\ req[r].ans = "failed" /\ SetAttempt(a, "failed", "none")
    <3>1. col[a] = "declined" \/ why'[a] # {}
      BY <2>2 DEF SafetyInv, RequestInv, FailureIsKnown
    <3>2. QED
      BY <1>1, <2>2, <3>1, Failed DEF SetAttempt
  <2>3. CASE SetAttempt(a, tx[a], "otp") \/ SetAttempt(a, tx[a], "approval")
    BY <1>1, <2>3, Relabelled DEF SetAttempt
  <2>4. QED
    BY <2>1, <2>2, <2>3
<1>5. TypeOK'
  <2>1. tx[a] \in TxStatus
    BY <1>1 DEF SafetyInv, TypeOK
  <2>2. /\ tx' \in [Attempts -> TxStatus] /\ action' \in [Attempts -> CustomerAction]
        /\ elapsed' \subseteq Attempts
    BY <1>1, <2>1 DEF SetAttempt, SafetyInv, TypeOK, TxStatus, CustomerAction
  <2>3. QED
    BY <1>2, <2>2 DEF SafetyInv, TypeOK
<1>6. QED
  BY <1>3, <1>4, <1>5 DEF SafetyInv

LEMMA RecordStartSafe ==
  ASSUME SafetyInv, NEW r \in Requests, RecordStart(r)
  PROVE  SafetyInv'
<1>1. req[r].att \in 1..last
  BY DEF RecordStart, At, SafetyInv, RequestInv, WorksOnRecorded
<1> DEFINE done == tx[req[r].att] = "completed" \/ loan = "repaid"
<1>2. done \in BOOLEAN /\ (~done => tx[req[r].att] # "completed")
  OBVIOUS
<1>3. QED
  BY <1>1, <1>2, AnswerRecorded DEF RecordStart, At

LEMMA RecordResumeSafe ==
  ASSUME SafetyInv, NEW r \in Requests, RecordResume(r)
  PROVE  SafetyInv'
<1>1. req[r].att \in 1..last
  BY DEF RecordResume, At, SafetyInv, RequestInv, WorksOnRecorded
<1> DEFINE done == tx[req[r].att] = "completed"
<1>2. done \in BOOLEAN /\ (~done => tx[req[r].att] # "completed")
  OBVIOUS
<1>3. QED
  BY <1>1, <1>2, AnswerRecorded DEF RecordResume, At

\* What a poll may make of an attempt.
LEMMA PollSafe ==
  ASSUME SafetyInv, NEW a \in 1..last, NEW answer \in PaymentStatus(a),
         UNCHANGED <<last, col, why>>,
         \/ UNCHANGED <<loan, tx, action>> /\ elapsed' \in SUBSET elapsed
         \/ /\ answer = "failed" /\ tx[a] # "completed"
            /\ SetAttempt(a, "failed", "none") /\ UNCHANGED loan
         \/ /\ answer \in {"completed", "no_amount", "amount_mismatch"}
            /\ SetAttempt(a, "completed", "none") /\ loan' = "repaid"
  PROVE  /\ LedgerInv' /\ Grows
         /\ loan' \in {"disbursed", "repaid"} /\ elapsed' \subseteq Attempts
         /\ tx' \in [Attempts -> TxStatus] /\ action' \in [Attempts -> CustomerAction]
<1>1. a \in Attempts /\ Grows
  BY DEF SafetyInv, TypeOK, Grows
<1>2. CASE UNCHANGED <<loan, tx, action>> /\ elapsed' \in SUBSET elapsed
  BY <1>1, <1>2, LedgerStays DEF SafetyInv, TypeOK
<1>3. CASE /\ answer = "failed" /\ tx[a] # "completed"
           /\ SetAttempt(a, "failed", "none") /\ UNCHANGED loan
  <2>1. col[a] = "declined"
    BY <1>3 DEF PaymentStatus
  <2>2. LedgerInv'
    BY <1>1, <1>3, <2>1, Failed DEF SetAttempt
  <2>3. QED
    BY <1>1, <1>3, <2>2 DEF SetAttempt, SafetyInv, TypeOK, TxStatus, CustomerAction
<1>4. CASE /\ answer \in {"completed", "no_amount", "amount_mismatch"}
           /\ SetAttempt(a, "completed", "none") /\ loan' = "repaid"
  <2>1. col[a] \in {"collected", "other"}
    BY <1>4 DEF PaymentStatus
  <2>2. LedgerInv'
    BY <1>1, <1>4, <2>1, Completed DEF SetAttempt
  <2>3. QED
    BY <1>1, <1>4, <2>2 DEF SetAttempt, SafetyInv, TypeOK, TxStatus, CustomerAction
<1>5. QED
  BY <1>2, <1>3, <1>4

LEMMA FinalizeSafe ==
  ASSUME SafetyInv, NEW r \in Requests, Finalize(r)
  PROVE  SafetyInv'
<1> DEFINE a == req[r].att
<1>1. a \in 1..last
  BY DEF Finalize, At, SafetyInv, RequestInv, WorksOnRecorded
<1>2. PICK answer \in PaymentStatus(a) :
        \/ UNCHANGED <<loan, tx, action>> /\ elapsed' \in SUBSET elapsed
        \/ /\ answer = "failed" /\ tx[a] # "completed"
           /\ SetAttempt(a, "failed", "none") /\ UNCHANGED loan
        \/ /\ answer \in {"completed", "no_amount", "amount_mismatch"}
           /\ SetAttempt(a, "completed", "none") /\ loan' = "repaid"
  BY DEF Finalize
<1>3. Return(r) /\ loanLock' = NoRequest /\ UNCHANGED <<last, col, why>>
  BY DEF Finalize
<1> HIDE DEF a
<1>4. /\ LedgerInv' /\ Grows
      /\ loan' \in {"disbursed", "repaid"} /\ elapsed' \subseteq Attempts
      /\ tx' \in [Attempts -> TxStatus] /\ action' \in [Attempts -> CustomerAction]
  BY <1>1, <1>2, <1>3, PollSafe
<1>5. RequestInv'
  BY <1>3, <1>4, IdleRequest, MoveOn DEF Return
<1>6. TypeOK'
  BY <1>3, <1>4, IdleRequest DEF Return, SafetyInv, TypeOK
<1>7. QED
  BY <1>4, <1>5, <1>6 DEF SafetyInv

LEMMA StaleApplySafe ==
  ASSUME SafetyInv, NEW r \in Requests, StaleApply(r)
  PROVE  SafetyInv'
<1> DEFINE a == req[r].att
<1>1. a \in 1..last
  BY DEF StaleApply, At, SafetyInv, RequestInv, WorksOnRecorded
<1>2. PICK answer \in PaymentStatus(a) :
        \/ UNCHANGED <<loan, tx, action>> /\ elapsed' \in SUBSET elapsed
        \/ /\ answer = "failed" /\ tx[a] # "completed"
           /\ SetAttempt(a, "failed", "none") /\ UNCHANGED loan
        \/ /\ answer \in {"completed", "no_amount", "amount_mismatch"}
           /\ SetAttempt(a, "completed", "none") /\ loan' = "repaid"
  BY DEF StaleApply
<1>3. Return(r) /\ UNCHANGED <<loanLock, last, col, why>>
  BY DEF StaleApply
<1> HIDE DEF a
<1>4. /\ LedgerInv' /\ Grows
      /\ loan' \in {"disbursed", "repaid"} /\ elapsed' \subseteq Attempts
      /\ tx' \in [Attempts -> TxStatus] /\ action' \in [Attempts -> CustomerAction]
  BY <1>1, <1>2, <1>3, PollSafe
<1>5. RequestInv'
  BY <1>3, <1>4, IdleRequest, MoveOn DEF Return
<1>6. TypeOK'
  BY <1>3, <1>4, IdleRequest DEF Return, SafetyInv, TypeOK
<1>7. QED
  BY <1>4, <1>5, <1>6 DEF SafetyInv

LEMMA ResumeExpiredSafe ==
  ASSUME SafetyInv, NEW r \in Requests, ResumeExpired(r)
  PROVE  SafetyInv'
<1> DEFINE a == req[r].att
<1>1. a \in 1..last /\ a \in Attempts /\ col[a] # "absent"
  BY DEF ResumeExpired, At, SafetyInv, TypeOK, RequestInv, WorksOnRecorded
<1>2. PICK reason \in {"expired", "overwritten"} :
        GiveUp(a, reason) /\ (tx[a] = "completed" => reason = "overwritten")
  BY DEF ResumeExpired
<1>3. Grows /\ why'[a] # {} /\ (tx[a] # "completed" \/ "overwritten" \in why'[a])
  BY <1>1, <1>2 DEF GiveUp, Grows, SafetyInv, TypeOK
<1>4. LedgerInv'
  BY <1>1, <1>3, Failed DEF ResumeExpired
<1>5. RequestInv'
  BY <1>3, IdleRequest, MoveOn DEF ResumeExpired, Return
<1>6. TypeOK'
  BY <1>1, <1>3, IdleRequest DEF ResumeExpired, Return, Grows, SafetyInv, TypeOK, TxStatus, CustomerAction
<1>7. QED
  BY <1>4, <1>5, <1>6 DEF SafetyInv

LEMMA ResumeLockSafe ==
  ASSUME SafetyInv, NEW r \in Requests, ResumeLock(r)
  PROVE  SafetyInv'
<1> DEFINE a == req[r].att
           v == [req[r] EXCEPT !.at = "resend"]
<1>1. a \in 1..last /\ a \in Attempts /\ col[a] # "absent" /\ Grows
  BY DEF ResumeLock, At, SafetyInv, TypeOK, RequestInv, WorksOnRecorded, Grows
<1>2. v \in Request /\ v.at = "resend" /\ v.att = a /\ req' = [req EXCEPT ![r] = v]
  BY DEF ResumeLock, Goto, SafetyInv, TypeOK, Request, Phase
<1> HIDE DEF v
<1>3. LedgerInv'
  BY <1>1, Relabelled DEF ResumeLock, SetAttempt
<1>4. RequestInv'
  BY <1>1, <1>2, MoveOn DEF ResumeLock
<1>5. TypeOK'
  <2>1. tx[a] \in TxStatus
    BY <1>1 DEF SafetyInv, TypeOK
  <2>2. /\ tx' \in [Attempts -> TxStatus] /\ action' \in [Attempts -> CustomerAction]
        /\ elapsed' \subseteq Attempts
    BY <1>1, <2>1 DEF ResumeLock, SetAttempt, SafetyInv, TypeOK, CustomerAction
  <2>3. QED
    BY <1>2, <2>2 DEF ResumeLock, SafetyInv, TypeOK
<1>6. QED
  BY <1>3, <1>4, <1>5 DEF SafetyInv

LEMMA ResendSafe ==
  ASSUME SafetyInv, NEW r \in Requests, Resend(r)
  PROVE  SafetyInv'
<1> DEFINE a == req[r].att
<1>1. a \in 1..last /\ a \in Attempts /\ col[a] \in Collection /\ col[a] # "absent"
  BY DEF Resend, At, SafetyInv, TypeOK, RequestInv, WorksOnRecorded
<1>2. PICK kind \in Collection \ {"absent"}, answer \in {"push", "otp", "failed"} :
        /\ col' = [col EXCEPT ![a] = kind]
        /\ col[a] \in {"collected", "other", "declined"} => kind = col[a]
        /\ Hear(r, answer, "reanswered")
        /\ answer = "failed" => kind = "declined" \/ why'[a] # {}
        /\ Grows
  <2>1. CASE /\ col[a] \in {"otp", "declined"}
             /\ \E kind \in (IF col[a] = "otp" THEN {"prompted", "otp", "declined"}
                                               ELSE {"declined"}) :
                  /\ col' = [col EXCEPT ![a] = kind]
                  /\ Hear(r, AnswerTo(kind), "reanswered")
             /\ UNCHANGED why
    BY <1>1, <2>1 DEF AnswerTo, Grows, SafetyInv, TypeOK, Collection
  <2>2. CASE /\ col[a] \in {"prompted", "collected", "other"}
             /\ Hear(r, "push", "reanswered")
             /\ UNCHANGED <<col, why>>
    <3>1. col' = [col EXCEPT ![a] = col[a]] /\ Grows
      BY <2>2 DEF Grows, SafetyInv, TypeOK
    <3>2. QED
      BY <1>1, <2>2, <3>1
  <2>3. CASE /\ col[a] \in {"otp", "prompted", "collected", "other"}
             /\ col' = [col EXCEPT ![a] = IF @ = "otp" THEN "prompted" ELSE @]
             /\ Hear(r, "failed", "reanswered")
             /\ GiveUp(a, "unanswered")
    <3> DEFINE kind == IF col[a] = "otp" THEN "prompted" ELSE col[a]
    <3>1. Grows /\ why'[a] # {}
      BY <1>1, <2>3 DEF GiveUp, Grows, SafetyInv, TypeOK
    <3>2. kind \in Collection \ {"absent"} /\ col' = [col EXCEPT ![a] = kind]
      BY <1>1, <2>3 DEF Collection
    <3>3. col[a] \in {"collected", "other", "declined"} => kind = col[a]
      OBVIOUS
    <3> HIDE DEF kind
    <3>4. QED
      BY <2>3, <3>1, <3>2, <3>3
  <2>4. QED
    BY <2>1, <2>2, <2>3 DEF Resend
<1> HIDE DEF a
<1>3. LedgerInv'
  BY <1>1, <1>2, ProviderMoves DEF Resend
<1>4. RequestInv' /\ req' \in [Requests -> Request] /\ col' \in [Attempts -> Collection]
  BY <1>1, <1>2, HearsAnswer DEF Resend, a
<1>5. TypeOK'
  BY <1>2, <1>4 DEF Resend, SafetyInv, TypeOK, Grows
<1>6. QED
  BY <1>3, <1>4, <1>5 DEF SafetyInv

LEMMA LedgerActionsSafe ==
  ASSUME SafetyInv, NEW a \in Attempts, Webhook(a) \/ ReconcileTransaction(a)
  PROVE  SafetyInv'
<1>1. a \in 1..last
  BY DEF Webhook, ReconcileTransaction, SafetyInv, TypeOK, LedgerInv, AttemptsNumbered
<1>2. UNCHANGED <<loanLock, last, col, why, req>>
  BY DEF Webhook, ReconcileTransaction
<1>3. Grows
  BY <1>2 DEF Grows, SafetyInv, TypeOK
<1>4. RequestInv'
  BY <1>2, <1>3, Stay
<1>5. CASE tx[a] = "failed" /\ action[a] # "none" /\ SetAttempt(a, "failed", "none") /\ UNCHANGED loan
  <2>1. col[a] # "absent" /\ (col[a] = "declined" \/ why'[a] # {})
    BY <1>1, <1>2, <1>5 DEF SafetyInv, LedgerInv, UnsentIsOpen, FailedIsDead
  <2>2. LedgerInv'
    BY <1>1, <1>2, <1>3, <1>5, <2>1, Failed DEF SetAttempt
  <2>3. TypeOK'
    BY <1>2, <1>5 DEF SetAttempt, SafetyInv, TypeOK, TxStatus, CustomerAction
  <2>4. QED
    BY <1>4, <2>2, <2>3 DEF SafetyInv
<1>6. CASE \E answer \in PaymentStatus(a) :
             \/ /\ answer = "failed" /\ tx[a] # "completed"
                /\ SetAttempt(a, "failed", "none") /\ UNCHANGED loan
             \/ /\ answer \in {"completed", "no_amount", "amount_mismatch"}
                /\ SetAttempt(a, "completed", "none") /\ loan' = "repaid"
  <2>1. /\ LedgerInv'
        /\ loan' \in {"disbursed", "repaid"} /\ elapsed' \subseteq Attempts
        /\ tx' \in [Attempts -> TxStatus] /\ action' \in [Attempts -> CustomerAction]
    BY <1>1, <1>2, <1>6, PollSafe
  <2>2. QED
    BY <1>2, <1>4, <2>1 DEF SafetyInv, TypeOK
<1>7. QED
  BY <1>5, <1>6 DEF Webhook, ReconcileTransaction, PaymentStatus

LEMMA FarmerSettlesSafe ==
  ASSUME SafetyInv, NEW a \in Attempts, FarmerSettles(a)
  PROVE  SafetyInv'
<1> USE DEF SafetyInv, TypeOK
<1>1. a \in 1..last /\ Grows /\ UNCHANGED <<loan, loanLock, tx, action, elapsed, last, why, req>>
  BY DEF FarmerSettles, LedgerInv, RecordedBeforePrompted, Grows, ledger
<1>2. PICK kind \in Collection \ {"absent"} :
        col' = [col EXCEPT ![a] = kind] /\ col[a] \in {"otp", "prompted"}
  BY DEF FarmerSettles, Collection
<1>3. LedgerInv'
  BY <1>1, <1>2, ProviderMoves
<1>4. WorksOnRecorded' /\ OneSender'
  BY <1>1, <1>2 DEF RequestInv, WorksOnRecorded, OneSender, At
<1>5. FailureIsKnown'
  BY <1>1, <1>2 DEF RequestInv, WorksOnRecorded, FailureIsKnown
<1>6. RetiredFirst'
  BY <1>1 DEF RequestInv, RetiredFirst, Retired, At
<1>7. TypeOK'
  BY <1>1, <1>2
<1>8. QED
  BY <1>3, <1>4, <1>5, <1>6, <1>7 DEF RequestInv

LEMMA TimePassesSafe ==
  ASSUME SafetyInv, NEW a \in Attempts, TimePasses(a)
  PROVE  SafetyInv'
<1>1. Grows
  BY DEF TimePasses, Grows, SafetyInv, TypeOK
<1>2. RequestInv'
  BY <1>1, Stay DEF TimePasses
<1>3. LedgerInv'
  BY LedgerStays DEF TimePasses
<1>4. TypeOK'
  BY DEF TimePasses, SafetyInv, TypeOK
<1>5. QED
  BY <1>2, <1>3, <1>4 DEF SafetyInv

-----------------------------------------------------------------------------
(* The theorems *)

LEMMA InitSafe == Init => SafetyInv
<1> SUFFICES ASSUME Init PROVE SafetyInv
  OBVIOUS
<1> USE DEF Init
<1>1. TypeOK
  BY IdleRequest DEF TypeOK, TxStatus, CustomerAction, Collection
<1>2. RequestInv
  BY DEF Idle, RequestInv, WorksOnRecorded, OneSender, FailureIsKnown, RetiredFirst, At
<1>3. LedgerInv
  BY <1>1 DEF TypeOK, LedgerInv, AttemptsNumbered, UnsentIsOpen, ClosedTogether, CompletedIsCollected,
     RecordedBeforePrompted, OnlyLatestOpen, FailedIsDead
<1>4. QED
  BY <1>1, <1>2, <1>3 DEF SafetyInv

\* The inductive invariant holds, under every fault.
THEOREM SafetyInvariant == Spec => []SafetyInv
<1>1. SafetyInv /\ [Next]_vars => SafetyInv'
  <2> SUFFICES ASSUME SafetyInv, [Next]_vars PROVE SafetyInv'
    OBVIOUS
  <2>1. CASE \E r \in Requests : StartCheck(r) \/ RequestDies(r)
    BY <2>1, StartCheckSafe, RequestDiesSafe
  <2>2. CASE \E r \in Requests, a \in Attempts : ResumeLoad(r, a) \/ StaleRead(r, a)
    BY <2>2, ResumeLoadSafe, StaleReadSafe
  <2>3. CASE \E r \in Requests : StartExpire(r) \/ StartReturns(r) \/ StartPolls(r) \/ StartRetires(r)
    BY <2>3, StartExpireSafe, StartReturnsSafe, StartPollsSafe, StartRetiresSafe
  <2>4. CASE \E r \in Requests : StartAfterRetiring(r) \/ StartCreates(r) \/ Initiate(r) \/ RecordStart(r)
    BY <2>4, StartAfterRetiringSafe, StartCreatesSafe, InitiateSafe, RecordStartSafe
  <2>5. CASE \E r \in Requests : Finalize(r) \/ StaleApply(r)
    BY <2>5, FinalizeSafe, StaleApplySafe
  <2>6. CASE \E r \in Requests : ResumeExpired(r) \/ ResumeRefused(r) \/ ResumeLock(r) \/ Resend(r) \/ RecordResume(r)
    BY <2>6, ResumeExpiredSafe, ResumeRefusedSafe, ResumeLockSafe, ResendSafe, RecordResumeSafe
  <2>7. CASE \E a \in Attempts : Webhook(a) \/ ReconcileTransaction(a) \/ FarmerSettles(a) \/ TimePasses(a)
    BY <2>7, LedgerActionsSafe, FarmerSettlesSafe, TimePassesSafe
  <2>8. CASE ListPending
    BY <2>8, ListPendingSafe
  <2>9. CASE UNCHANGED vars
    <3>1. Grows /\ UNCHANGED <<loan, loanLock, tx, action, elapsed, last, col, why, req>>
      BY <2>9 DEF vars, Grows, SafetyInv, TypeOK
    <3>2. RequestInv' /\ LedgerInv'
      BY <3>1, Stay, LedgerStays
    <3>3. QED
      BY <3>1, <3>2 DEF SafetyInv, TypeOK
  <2>10. QED
    BY <2>1, <2>2, <2>3, <2>4, <2>5, <2>6, <2>7, <2>8, <2>9 DEF Next, Step
<1>2. QED
  BY InitSafe, <1>1, PTL DEF Spec

\* Every variable keeps its type.
THEOREM TypeCorrect == Spec => []TypeOK
<1>1. SafetyInv => TypeOK
  BY DEF SafetyInv
<1>2. QED
  BY <1>1, SafetyInvariant, PTL

\* The loan and its payment close together, and only on collected money.
THEOREM RepaidIsCollected == Spec => [](ClosedTogether /\ CompletedIsCollected)
<1>1. SafetyInv => ClosedTogether /\ CompletedIsCollected
  BY DEF SafetyInv, LedgerInv
<1>2. QED
  BY <1>1, SafetyInvariant, PTL

\* The farmer is never prompted without a row that says so.
THEOREM PromptIsRecorded == Spec => []RecordedBeforePrompted
<1>1. SafetyInv => RecordedBeforePrompted
  BY DEF SafetyInv, LedgerInv
<1>2. QED
  BY <1>1, SafetyInvariant, PTL

\* Of all attempts, only the latest is open, unless an old row was retired.
THEOREM LatestOpen == Spec => []OnlyLatestOpen
<1>1. SafetyInv => OnlyLatestOpen
  BY DEF SafetyInv, LedgerInv
<1>2. QED
  BY <1>1, SafetyInvariant, PTL

\* Attempts the provider declined are all that fail without the ledger's doing.
THEOREM FailuresAreDead == Spec => []FailedIsDead
<1>1. SafetyInv => FailedIsDead
  BY DEF SafetyInv, LedgerInv
<1>2. QED
  BY <1>1, SafetyInvariant, PTL

\* A second reference beside a live one comes only from the ledger's giving up,
\* or from a start that did not see the loan repaid.
THEOREM CollectedOnce == Spec => []OneCollection
<1>1. SafetyInv => OneCollection
  <2> SUFFICES ASSUME SafetyInv, ~Retired, NEW a \in Attempts, a < last, Live(a), why[a] = {}
               PROVE  tx[a] = "completed"
    BY DEF OneCollection
  <2> USE DEF SafetyInv, TypeOK, LedgerInv
  <2>1. tx[a] # "none" /\ tx[a] # "pending"
    BY DEF AttemptsNumbered, OnlyLatestOpen
  <2>2. tx[a] # "failed"
    BY DEF FailedIsDead, Live
  <2>3. QED
    BY <2>1, <2>2 DEF TxStatus
<1>2. QED
  BY <1>1, SafetyInvariant, PTL

\* The step relation of CompletedStays.
KeepsCompleted ==
  \A a \in Attempts :
    tx[a] = "completed" => tx'[a] = "completed" \/ "overwritten" \in why'[a]

\* A new attempt takes a row that was not there, never a completed one.
LEMMA CreationKeeps ==
  ASSUME SafetyInv, NEW r \in Requests, CreateAttempt(r)
  PROVE  KeepsCompleted
<1>1. last + 1 \in Attempts /\ tx[last + 1] = "none"
  BY DEF CreateAttempt, SafetyInv, TypeOK, LedgerInv, AttemptsNumbered, Attempts
<1>2. QED
  BY <1>1 DEF CreateAttempt, KeepsCompleted, SafetyInv, TypeOK

\* Nothing undoes a completed payment but an expiry that did not look at it.
THEOREM CompletedKept == Spec => CompletedStays
<1>1. SafetyInv /\ [Next]_vars => [KeepsCompleted]_vars
  <2> SUFFICES ASSUME SafetyInv, Next PROVE KeepsCompleted
    OBVIOUS
  <2> USE DEF KeepsCompleted, SafetyInv, TypeOK
  <2>1. ASSUME NEW r \in Requests,
               StartCheck(r) \/ RequestDies(r) \/ StartReturns(r) \/ StartPolls(r)
                 \/ Initiate(r) \/ ResumeRefused(r) \/ Resend(r)
        PROVE  KeepsCompleted
    BY <2>1 DEF StartCheck, RequestDies, StartReturns, StartPolls, Initiate, ResumeRefused,
       Resend, ledger
  <2>2. ASSUME NEW r \in Requests, NEW a \in Attempts, ResumeLoad(r, a) \/ StaleRead(r, a)
        PROVE  KeepsCompleted
    BY <2>2 DEF ResumeLoad, StaleRead, ledger
  <2>3. ASSUME ExpireCustomerActions PROVE KeepsCompleted
    BY <2>3 DEF ExpireCustomerActions, Expirable
  <2>4. ASSUME NEW r \in Requests, StartExpire(r) \/ StartRetires(r) PROVE KeepsCompleted
    BY <2>3, <2>4 DEF StartExpire, StartRetires, LatestIs, GiveUp
  <2>5. ASSUME NEW r \in Requests, StartAfterRetiring(r) \/ StartCreates(r) PROVE KeepsCompleted
    BY <2>5, CreationKeeps DEF StartAfterRetiring, StartCreates
  <2>6. ASSUME NEW r \in Requests, RecordStart(r) \/ RecordResume(r) PROVE KeepsCompleted
    BY <2>6 DEF RecordStart, RecordResume, SetAttempt
  <2>7. ASSUME NEW r \in Requests, Finalize(r) \/ StaleApply(r) PROVE KeepsCompleted
    BY <2>7 DEF Finalize, StaleApply, SetAttempt
  <2>8. ASSUME NEW r \in Requests, ResumeExpired(r) \/ ResumeLock(r) PROVE KeepsCompleted
    BY <2>8 DEF ResumeExpired, ResumeLock, SetAttempt, GiveUp
  <2>9. ASSUME NEW a \in Attempts,
               Webhook(a) \/ ReconcileTransaction(a) \/ FarmerSettles(a) \/ TimePasses(a)
        PROVE  KeepsCompleted
    BY <2>9 DEF Webhook, ReconcileTransaction, FarmerSettles, TimePasses, SetAttempt, ledger
  <2>10. CASE ListPending
    BY <2>3, <2>10 DEF ListPending
  <2>11. QED
    BY <2>1, <2>2, <2>4, <2>5, <2>6, <2>7, <2>8, <2>9, <2>10 DEF Next, Step
<1>2. QED
  BY <1>1, SafetyInvariant, PTL DEF Spec, CompletedStays, KeepsCompleted

-----------------------------------------------------------------------------
(***************************************************************************)
(* The refinement: but for an expiry decided on an outdated copy, every    *)
(* step is, for every attempt, a step of the ledger's contract or none.    *)
(***************************************************************************)

\* A step of the contract, said of an attempt's row and collection.
Kept(a) ==
  \/ tx'[a] = tx[a] /\ col'[a] = col[a]
  \/ tx[a] = "none" /\ tx'[a] = "pending" /\ col'[a] = col[a]
  \/ tx[a] # "none" /\ tx'[a] = tx[a] /\ col[a] \in {"absent", "otp"} /\ col'[a] # "absent"
  \/ tx'[a] = tx[a] /\ col[a] = "prompted" /\ col'[a] \in {"collected", "other", "declined"}
  \/ tx[a] \in {"pending", "failed"} /\ tx'[a] = "completed"
     /\ col[a] \in {"collected", "other"} /\ col'[a] = col[a]
  \/ tx[a] = "pending" /\ tx'[a] = "failed" /\ col'[a] = col[a]

AllKept == \A a \in Attempts : Kept(a)

\* One row is written: it is given up, completed or relabelled.
LEMMA KeptWrite ==
  ASSUME SafetyInv, NEW a \in 1..last, NEW s \in TxStatus, tx' = [tx EXCEPT ![a] = s], UNCHANGED col,
         s = tx[a] \/ s = "failed" \/ (s = "completed" /\ col[a] \in {"collected", "other"}),
         s # tx[a] => tx[a] # "completed"
  PROVE  AllKept
<1>1. a \in Attempts /\ tx[a] # "none"
  BY DEF SafetyInv, TypeOK, LedgerInv, AttemptsNumbered
<1>2. QED
  BY <1>1 DEF AllKept, Kept, SafetyInv, TypeOK, TxStatus

LEMMA KeptCreate ==
  ASSUME SafetyInv, NEW r \in Requests, CreateAttempt(r)
  PROVE  AllKept
<1>1. last + 1 \in Attempts /\ tx[last + 1] = "none"
  BY DEF CreateAttempt, SafetyInv, TypeOK, LedgerInv, AttemptsNumbered
<1>2. QED
  BY <1>1 DEF CreateAttempt, AllKept, Kept, SafetyInv, TypeOK

LEMMA KeptExpire ==
  ASSUME SafetyInv, ExpireCustomerActions, UNCHANGED col
  PROVE  AllKept
BY DEF ExpireCustomerActions, Expirable, AllKept, Kept

LEMMA KeptProvider ==
  ASSUME SafetyInv, NEW a \in 1..last, NEW kind \in Collection, col' = [col EXCEPT ![a] = kind],
         UNCHANGED tx,
         \/ col[a] \in {"absent", "otp"} /\ kind # "absent"
         \/ col[a] = "prompted" /\ kind \in {"collected", "other", "declined"}
         \/ kind = col[a]
  PROVE  AllKept
<1>1. a \in Attempts /\ tx[a] # "none"
  BY DEF SafetyInv, TypeOK, LedgerInv, AttemptsNumbered
<1>2. QED
  BY <1>1 DEF AllKept, Kept, SafetyInv, TypeOK

LEMMA KeptSend ==
  ASSUME SafetyInv, NEW r \in Requests, Initiate(r) \/ Resend(r)
  PROVE  AllKept
<1> DEFINE a == req[r].att
<1>1. a \in 1..last /\ a \in Attempts /\ col[a] \in Collection /\ UNCHANGED tx
  BY DEF Initiate, Resend, At, SafetyInv, TypeOK, RequestInv, WorksOnRecorded
<1>2. At(r, "initiate") => col[a] = "absent"
  BY DEF SafetyInv, RequestInv, OneSender
<1>3. CASE Initiate(r)
  <2>1. PICK kind \in {"prompted", "otp", "declined"} : col' = [col EXCEPT ![a] = kind]
    BY <1>3 DEF Initiate
  <2>2. col[a] = "absent"
    BY <1>2, <1>3 DEF Initiate
  <2>3. QED
    BY <1>1, <2>1, <2>2, KeptProvider DEF Collection
<1>4. CASE Resend(r)
  <2>1. CASE UNCHANGED col
    BY <1>1, <2>1 DEF AllKept, Kept
  <2>2. CASE \E kind \in {"prompted", "otp", "declined"} :
               /\ col' = [col EXCEPT ![a] = kind]
               /\ col[a] = "otp" \/ kind = col[a]
    BY <1>1, <2>2, KeptProvider DEF Collection
  <2>3. col \in [Attempts -> Collection]
    BY DEF SafetyInv, TypeOK
  <2>4. CASE col' = [col EXCEPT ![a] = IF @ = "otp" THEN "prompted" ELSE @]
    BY <1>1, <2>1, <2>2, <2>3, <2>4
  <2>5. QED
    BY <1>4, <2>1, <2>2, <2>4 DEF Resend
<1>5. QED
  BY <1>3, <1>4

\* An answer is recorded, unless the attempt is done.
LEMMA KeptRecord ==
  ASSUME SafetyInv, NEW r \in Requests, RecordStart(r) \/ RecordResume(r)
  PROVE  AllKept
<1> DEFINE a == req[r].att
<1>1. a \in 1..last /\ a \in Attempts /\ UNCHANGED col /\ tx[a] \in TxStatus
  BY DEF RecordStart, RecordResume, At, SafetyInv, TypeOK, RequestInv, WorksOnRecorded
<1>2. CASE UNCHANGED tx
  BY <1>1, <1>2 DEF AllKept, Kept
<1>3. CASE tx[a] # "completed" /\ tx' = [tx EXCEPT ![a] = "failed"]
  BY <1>1, <1>3, KeptWrite DEF TxStatus
<1>4. CASE tx' = [tx EXCEPT ![a] = tx[a]]
  BY <1>1, <1>4, KeptWrite
<1>5. QED
  BY <1>2, <1>3, <1>4 DEF RecordStart, RecordResume, SetAttempt

\* The provider's word is applied to an open attempt.
LEMMA KeptWord ==
  ASSUME SafetyInv, NEW r \in Requests, Finalize(r) \/ StaleApply(r)
  PROVE  AllKept
<1> DEFINE a == req[r].att
<1>1. a \in 1..last /\ a \in Attempts /\ UNCHANGED col /\ tx[a] \in TxStatus
  BY DEF Finalize, StaleApply, At, SafetyInv, TypeOK, RequestInv, WorksOnRecorded
<1>2. PaymentStatus(a) \cap {"completed", "no_amount", "amount_mismatch"} # {} => col[a] \in {"collected", "other"}
  BY DEF PaymentStatus
<1>3. CASE UNCHANGED tx
  BY <1>1, <1>3 DEF AllKept, Kept
<1>4. CASE tx[a] # "completed" /\ tx' = [tx EXCEPT ![a] = "failed"]
  BY <1>1, <1>4, KeptWrite DEF TxStatus
<1>5. CASE tx[a] # "completed" /\ tx' = [tx EXCEPT ![a] = "completed"] /\ col[a] \in {"collected", "other"}
  BY <1>1, <1>5, KeptWrite DEF TxStatus
<1>6. QED
  <2>1. CASE Finalize(r)
    BY <1>2, <1>3, <1>4, <1>5, <2>1 DEF Finalize, SetAttempt
  <2>2. CASE StaleApply(r)
    BY <1>2, <1>3, <1>4, <1>5, <2>2 DEF StaleApply, SetAttempt
  <2>3. QED
    BY <2>1, <2>2

\* What the environment does to an attempt.
LEMMA KeptOutside ==
  ASSUME SafetyInv, NEW a \in Attempts,
         Webhook(a) \/ ReconcileTransaction(a) \/ FarmerSettles(a) \/ TimePasses(a)
  PROVE  AllKept
<1>1. tx[a] # "none" => a \in 1..last
  BY DEF SafetyInv, TypeOK, LedgerInv, AttemptsNumbered
<1>2. CASE Webhook(a)
  BY <1>1, <1>2, KeptWrite DEF Webhook, SetAttempt, TxStatus
<1>3. CASE ReconcileTransaction(a)
  <2>1. PaymentStatus(a) \cap {"completed", "amount_mismatch"} # {} => col[a] \in {"collected", "other"}
    BY DEF PaymentStatus
  <2>2. QED
    BY <1>1, <1>3, <2>1, KeptWrite DEF ReconcileTransaction, SetAttempt, TxStatus
<1>4. CASE FarmerSettles(a)
  <2>1. a \in 1..last
    BY <1>4 DEF FarmerSettles, SafetyInv, TypeOK, LedgerInv, RecordedBeforePrompted
  <2>2. QED
    BY <1>4, <2>1, KeptProvider DEF FarmerSettles, ledger, Collection
<1>5. CASE TimePasses(a)
  BY <1>5 DEF TimePasses, AllKept, Kept
<1>6. QED
  BY <1>2, <1>3, <1>4, <1>5

LEMMA KeptStep ==
  ASSUME SafetyInv, [Next]_vars
  PROVE  AllKept \/ \E a \in Attempts : "overwritten" \in why'[a]
<1>1. CASE UNCHANGED <<tx, col>>
  BY <1>1 DEF AllKept, Kept
<1>2. ASSUME NEW r \in Requests, StartExpire(r) PROVE AllKept
  BY <1>2, KeptExpire DEF StartExpire
<1>3. ASSUME NEW r \in Requests, StartRetires(r) PROVE AllKept
  <2>1. last \in 1..last /\ tx[last] = "pending"
    BY <1>3 DEF StartRetires, LatestIs, SafetyInv, TypeOK
  <2>2. QED
    BY <1>3, <2>1, KeptWrite DEF StartRetires, TxStatus
<1>4. ASSUME NEW r \in Requests, StartAfterRetiring(r) \/ StartCreates(r) PROVE AllKept
  BY <1>4, KeptCreate DEF StartAfterRetiring, StartCreates
<1>5. ASSUME NEW r \in Requests, ResumeExpired(r)
      PROVE  AllKept \/ \E a \in Attempts : "overwritten" \in why'[a]
  <2> DEFINE a == req[r].att
  <2>1. a \in 1..last /\ a \in Attempts
    BY <1>5 DEF ResumeExpired, At, SafetyInv, TypeOK, RequestInv, WorksOnRecorded
  <2>2. CASE tx[a] = "pending" /\ action[a] = "otp"
    BY <1>5, <2>1, <2>2, KeptWrite DEF ResumeExpired, TxStatus
  <2>3. CASE ~(tx[a] = "pending" /\ action[a] = "otp")
    BY <1>5, <2>1, <2>3 DEF ResumeExpired, GiveUp, SafetyInv, TypeOK
  <2>4. QED
    BY <2>2, <2>3
<1>6. ASSUME NEW r \in Requests, ResumeLock(r) PROVE AllKept
  <2>1. req[r].att \in 1..last /\ req[r].att \in Attempts
    BY <1>6 DEF ResumeLock, At, SafetyInv, TypeOK, RequestInv, WorksOnRecorded
  <2>2. QED
    BY <1>6, <2>1, KeptWrite DEF ResumeLock, SetAttempt, SafetyInv, TypeOK
<1>7. CASE ListPending
  BY <1>7, KeptExpire DEF ListPending
<1>8. QED
  BY <1>1, <1>2, <1>3, <1>4, <1>5, <1>6, <1>7, KeptSend, KeptRecord, KeptWord, KeptOutside
  DEF Next, Step, vars, ledger, StartCheck, RequestDies, StartReturns, StartPolls, ResumeRefused,
      ResumeLoad, StaleRead

LEMMA KeptImplements ==
  ASSUME SafetyInv, SafetyInv', AllKept
  PROVE  Ledger!Next
<1>1. ASSUME NEW a \in Attempts
      PROVE  \/ Ledger!Stays(a) \/ Ledger!Open(a) \/ Ledger!Ask(a)
             \/ Ledger!Decide(a) \/ Ledger!Settle(a) \/ Ledger!GiveUp(a)
  <2>1. /\ tx[a] \in TxStatus /\ tx'[a] \in TxStatus
        /\ col[a] \in Collection /\ col'[a] \in Collection
    BY DEF SafetyInv, TypeOK
  <2>2. Kept(a)
    BY DEF AllKept
  <2>3. QED
    BY <2>1, <2>2 DEF Kept, TxStatus, Collection, LedgerRow, LedgerMoney, Ledger!Stays, Ledger!Open,
       Ledger!Ask, Ledger!Decide, Ledger!Settle, Ledger!GiveUp
<1>2. QED
  BY <1>1 DEF Ledger!Next

\* The repayment of a loan keeps the ledger's contract, attempt by attempt, but
\* for an expiry decided on an outdated copy of the row.
THEOREM RepaymentKeepsLedger == Spec => KeepsLedger
<1>1. Init => Ledger!Init
  <2> SUFFICES ASSUME Init PROVE Ledger!Init
    OBVIOUS
  <2>1. \A a \in Attempts : /\ LedgerRow(a) \in {"none", "open"}
                            /\ LedgerMoney(a) \in {"no", "asked"}
                            /\ LedgerMoney(a) # "no" => LedgerRow(a) = "open"
    BY DEF Init, LedgerRow, LedgerMoney
  <2>2. QED
    BY <2>1 DEF Ledger!Init
<1>2. ASSUME SafetyInv, SafetyInv', [Next]_vars
      PROVE  Ledger!Next \/ \E a \in Attempts : "overwritten" \in why'[a]
  BY <1>2, KeptStep, KeptImplements
<1>3. QED
  BY <1>1, <1>2, SafetyInvariant, PTL DEF Spec, KeepsLedger

===============================================================================
