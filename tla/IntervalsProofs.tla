--------------------------- MODULE IntervalsProofs ---------------------------
(***************************************************************************)
(* The interval arithmetic of the stack gate is sound: whatever values the *)
(* operands have inside their intervals, what the program computes from    *)
(* them lies inside the interval the gate folds.                           *)
(***************************************************************************)
EXTENDS Intervals, NaturalsInduction, WellFoundedInduction, TLAPS

IsInterval(v) == v = None \/ v \in Int \X Int

LEMMA IntervalBounds ==
  ASSUME NEW v, IsInterval(v), v # None
  PROVE  v[1] \in Int /\ v[2] \in Int
  BY DEF IsInterval

LEMMA PointIs ==
  ASSUME NEW n \in Int
  PROVE  Point(n) # None /\ Point(n)[1] = n /\ Point(n)[2] = n /\ Point(n) \in Int \X Int
  BY DEF Point, None

\* A decided truth is the truth of every value inside.
LEMMA TruthSound ==
  ASSUME NEW v, IsInterval(v), NEW n \in Int, Within(n, v)
  PROVE  /\ Truth(v) = "yes" => n # 0
         /\ Truth(v) = "no" => n = 0
  <1>1. CASE v = None
    BY <1>1 DEF Truth
  <1>2. CASE v # None
    <2>1. v[1] \in Int /\ v[2] \in Int /\ v[1] <= n /\ n <= v[2]
      BY <1>2, IntervalBounds DEF Within
    <2>2. CASE v = Point(0)
      BY <1>2, <2>1, <2>2, PointIs DEF Truth
    <2>3. CASE v # Point(0)
      <3>1. CASE v[1] > 0 \/ v[2] < 0
        BY <2>1, <3>1, <1>2, <2>3 DEF Truth
      <3>2. CASE ~(v[1] > 0 \/ v[2] < 0)
        <4>1. Truth(v) = "maybe"
          BY <1>2, <2>3, <3>2 DEF Truth
        <4> QED
          BY <4>1
      <3> QED
        BY <3>1, <3>2
    <2> QED
      BY <2>2, <2>3
  <1> QED
    BY <1>1, <1>2

LEMMA VerdictSound ==
  ASSUME NEW yes \in BOOLEAN, NEW no \in BOOLEAN, NEW truth \in BOOLEAN, yes => truth, no => ~truth
  PROVE  Within(Bit(truth), Verdict(yes, no))
  BY PointIs DEF Verdict, Within, Bit, Point, None

LEMMA CompareSound ==
  ASSUME NEW op \in Comparisons, NEW a \in Int \X Int, NEW b \in Int \X Int, NEW x \in Int, NEW y \in Int,
         a[1] <= x, x <= a[2], b[1] <= y, y <= b[2]
  PROVE  Within(Bit(Holds(op, x, y)), Compare(op, a, b))
  <1>1. a[1] \in Int /\ a[2] \in Int /\ b[1] \in Int /\ b[2] \in Int
    OBVIOUS
  <1> DEFINE apart == a[2] < b[1] \/ b[2] < a[1]
             same == a[1] = a[2] /\ a[2] = b[1] /\ b[1] = b[2]
  <1>2. (apart => x # y) /\ (same => x = y)
    BY <1>1
  <1>3. CASE op = "<"
    <2>1. Within(Bit(x < y), Verdict(a[2] < b[1], a[1] >= b[2]))
      <3>1. (a[2] < b[1] => x < y) /\ (a[1] >= b[2] => ~(x < y))
        BY <1>1
      <3> QED
        BY <1>1, <3>1, PointIs DEF Verdict, Within, Bit
    <2> QED
      BY <2>1, <1>3 DEF Holds, Compare
  <1>4. CASE op = "<="
    <2>1. Within(Bit(x <= y), Verdict(a[2] <= b[1], a[1] > b[2]))
      <3>1. (a[2] <= b[1] => x <= y) /\ (a[1] > b[2] => ~(x <= y))
        BY <1>1
      <3> QED
        BY <1>1, <3>1, PointIs DEF Verdict, Within, Bit
    <2> QED
      BY <2>1, <1>4 DEF Holds, Compare
  <1>5. CASE op = ">"
    <2>1. Within(Bit(x > y), Verdict(a[1] > b[2], a[2] <= b[1]))
      <3>1. (a[1] > b[2] => x > y) /\ (a[2] <= b[1] => ~(x > y))
        BY <1>1
      <3> QED
        BY <1>1, <3>1, PointIs DEF Verdict, Within, Bit
    <2> QED
      BY <2>1, <1>5 DEF Holds, Compare
  <1>6. CASE op = ">="
    <2>1. Within(Bit(x >= y), Verdict(a[1] >= b[2], a[2] < b[1]))
      <3>1. (a[1] >= b[2] => x >= y) /\ (a[2] < b[1] => ~(x >= y))
        BY <1>1
      <3> QED
        BY <1>1, <3>1, PointIs DEF Verdict, Within, Bit
    <2> QED
      BY <2>1, <1>6 DEF Holds, Compare
  <1>7. CASE op = "=="
    <2>1. Within(Bit(x = y), Verdict(same, apart))
      BY <1>2, VerdictSound
    <2> QED
      BY <2>1, <1>7 DEF Holds, Compare
  <1>8. CASE op = "!="
    <2>1. Within(Bit(x # y), Verdict(apart, same))
      BY <1>2, VerdictSound
    <2> QED
      BY <2>1, <1>8 DEF Holds, Compare
  <1> QED
    BY <1>3, <1>4, <1>5, <1>6, <1>7, <1>8 DEF Comparisons

\* A product of values inside lies between the products of the ends: along each factor the
\* product is monotone one way or the other.
LEMMA Between ==
  ASSUME NEW lo \in Int, NEW hi \in Int, NEW n \in Int, NEW k \in Int, lo <= n, n <= hi
  PROVE  \/ lo * k <= n * k /\ n * k <= hi * k
         \/ hi * k <= n * k /\ n * k <= lo * k
  OBVIOUS

LEMMA ProductSound ==
  ASSUME NEW a \in Int \X Int, NEW b \in Int \X Int, NEW x \in Int, NEW y \in Int,
         a[1] <= x, x <= a[2], b[1] <= y, y <= b[2]
  PROVE  Within(x * y, Product(a, b))
  <1>1. a[1] \in Int /\ a[2] \in Int /\ b[1] \in Int /\ b[2] \in Int
    OBVIOUS
  <1> DEFINE p == a[1] * b[1]  q == a[1] * b[2]  r == a[2] * b[1]  s == a[2] * b[2]
             l == a[1] * y  h == a[2] * y  m == x * y
             low == Least(Least(p, q), Least(r, s))  high == Greatest(Greatest(p, q), Greatest(r, s))
  <1>2. p \in Int /\ q \in Int /\ r \in Int /\ s \in Int /\ l \in Int /\ h \in Int /\ m \in Int
    BY <1>1
  <1>3. (l <= m /\ m <= h) \/ (h <= m /\ m <= l)
    BY <1>1, Between
  <1>4. (p <= l /\ l <= q) \/ (q <= l /\ l <= p)
    <2>1. b[1] * a[1] = p /\ b[2] * a[1] = q /\ y * a[1] = l
      BY <1>1
    <2> QED
      BY <1>1, <2>1, Between
  <1>5. (r <= h /\ h <= s) \/ (s <= h /\ h <= r)
    <2>1. b[1] * a[2] = r /\ b[2] * a[2] = s /\ y * a[2] = h
      BY <1>1
    <2> QED
      BY <1>1, <2>1, Between
  <1> HIDE DEF p, q, r, s, l, h, m
  <1>6. low <= m /\ m <= high
    BY <1>2, <1>3, <1>4, <1>5 DEF Least, Greatest
  <1> QED
    BY <1>6 DEF Product, Within, p, q, r, s, m

-----------------------------------------------------------------------------
(* Division and remainder.                                                 *)

\* Dividing by a positive number keeps the order, by a negative one reverses it.
LEMMA FloorMonotone ==
  ASSUME NEW x \in Nat, NEW y \in Nat, NEW k \in Nat \ {0}, x <= y
  PROVE  x \div k \in Nat /\ y \div k \in Nat /\ x \div k <= y \div k
  OBVIOUS

LEMMA TruncatedByPositive ==
  ASSUME NEW x \in Int, NEW y \in Int, NEW k \in Nat \ {0}, x <= y
  PROVE  Truncated(x, k) \in Int /\ Truncated(x, k) <= Truncated(y, k)
  <1>1. CASE x >= 0
    <2>1. Truncated(x, k) = x \div k /\ Truncated(y, k) = y \div k
      BY <1>1 DEF Truncated
    <2> QED
      BY <1>1, <2>1, FloorMonotone
  <1>2. CASE x < 0 /\ y >= 0
    <2>1. Truncated(x, k) = -((-x) \div k) /\ Truncated(y, k) = y \div k
      BY <1>2 DEF Truncated
    <2>2. (-x) \div k \in Nat /\ y \div k \in Nat
      <3>1. -x \in Nat /\ y \in Nat
        BY <1>2
      <3> QED
        BY <3>1, FloorMonotone
    <2> QED
      BY <2>1, <2>2
  <1>3. CASE y < 0
    <2>1. Truncated(x, k) = -((-x) \div k) /\ Truncated(y, k) = -((-y) \div k)
      BY <1>3 DEF Truncated
    <2>2. (-y) \div k \in Nat /\ (-x) \div k \in Nat /\ (-y) \div k <= (-x) \div k
      <3>1. -x \in Nat /\ -y \in Nat /\ -y <= -x
        BY <1>3
      <3> QED
        BY <3>1, FloorMonotone
    <2> QED
      BY <2>1, <2>2
  <1> QED
    BY <1>1, <1>2, <1>3

LEMMA TruncatedByNegative ==
  ASSUME NEW x \in Int, NEW k \in Int, k < 0
  PROVE  Truncated(x, k) = -Truncated(x, -k)
  <1>0. -k \in Nat \ {0}
    OBVIOUS
  <1>1. CASE x >= 0
    <2>1. Truncated(x, k) = -(x \div (-k)) /\ Truncated(x, -k) = x \div (-k)
      BY <1>0, <1>1 DEF Truncated
    <2> QED
      BY <2>1
  <1>2. CASE x < 0
    <2>1. Truncated(x, k) = (-x) \div (-k) /\ Truncated(x, -k) = -((-x) \div (-k))
      BY <1>0, <1>2 DEF Truncated
    <2>2. (-x) \div (-k) \in Nat
      <3>1. -x \in Nat
        BY <1>2
      <3> QED
        BY <1>0, <3>1, FloorMonotone
    <2> QED
      BY <2>1, <2>2
  <1> QED
    BY <1>1, <1>2

LEMMA TruncatedMonotone ==
  ASSUME NEW lo \in Int, NEW hi \in Int, NEW n \in Int, NEW k \in Int, k # 0, lo <= n, n <= hi
  PROVE  /\ Truncated(lo, k) \in Int /\ Truncated(hi, k) \in Int /\ Truncated(n, k) \in Int
         /\ \/ Truncated(lo, k) <= Truncated(n, k) /\ Truncated(n, k) <= Truncated(hi, k)
            \/ Truncated(hi, k) <= Truncated(n, k) /\ Truncated(n, k) <= Truncated(lo, k)
  <1>0. lo <= lo /\ hi <= hi /\ n <= n
    OBVIOUS
  <1>1. CASE k > 0
    <2>1. k \in Nat \ {0}
      BY <1>1
    <2> QED
      BY <1>0, <2>1, TruncatedByPositive
  <1>2. CASE k < 0
    <2>1. -k \in Nat \ {0}
      BY <1>2
    <2> DEFINE l == Truncated(lo, -k)  m == Truncated(n, -k)  h == Truncated(hi, -k)
    <2>2. l \in Int /\ m \in Int /\ h \in Int /\ l <= m /\ m <= h
      BY <1>0, <2>1, TruncatedByPositive
    <2>3. Truncated(lo, k) = -l /\ Truncated(n, k) = -m /\ Truncated(hi, k) = -h
      BY <1>2, TruncatedByNegative
    <2> HIDE DEF l, m, h
    <2> QED
      BY <2>2, <2>3
  <1> QED
    BY <1>1, <1>2

LEMMA QuotientByRange ==
  ASSUME NEW al \in Nat, NEW ah \in Nat, NEW bl \in Nat \ {0}, NEW bh \in Nat \ {0},
         NEW x \in Nat, NEW y \in Nat \ {0}, al <= x, x <= ah, bl <= y, y <= bh
  PROVE  al \div bh <= x \div y /\ x \div y <= ah \div bl
  OBVIOUS

LEMMA QuotientSound ==
  ASSUME NEW a \in Int \X Int, NEW b \in Int \X Int, NEW x \in Int, NEW y \in Int, y # 0,
         a[1] <= x, x <= a[2], b[1] <= y, y <= b[2]
  PROVE  Within(Truncated(x, y), Quotient(a, b))
  <1>1. a[1] \in Int /\ a[2] \in Int /\ b[1] \in Int /\ b[2] \in Int
    OBVIOUS
  <1>2. CASE b[1] # b[2] /\ a[1] >= 0 /\ b[1] > 0
    <2>1. Quotient(a, b) = <<a[1] \div b[2], a[2] \div b[1]>>
      BY <1>2 DEF Quotient
    <2>2. a[1] \in Nat /\ a[2] \in Nat /\ x \in Nat /\ b[1] \in Nat \ {0} /\ b[2] \in Nat \ {0} /\ y \in Nat \ {0}
      BY <1>1, <1>2
    <2>3. Truncated(x, y) = x \div y
      BY <2>2 DEF Truncated
    <2>4. a[1] \div b[2] <= x \div y /\ x \div y <= a[2] \div b[1]
      BY <2>2, QuotientByRange
    <2> QED
      BY <2>1, <2>3, <2>4 DEF Within
  <1>3. CASE b[1] = b[2] /\ b[1] # 0
    <2> DEFINE l == Truncated(a[1], b[1])  h == Truncated(a[2], b[1])  m == Truncated(x, b[1])
    <2>1. y = b[1]
      BY <1>1, <1>3
    <2>2. Quotient(a, b) = <<Least(l, h), Greatest(l, h)>>
      BY <1>3 DEF Quotient
    <2>3. l \in Int /\ h \in Int /\ m \in Int /\ ((l <= m /\ m <= h) \/ (h <= m /\ m <= l))
      BY <1>1, <1>3, TruncatedMonotone
    <2> HIDE DEF l, h, m
    <2>4. Least(l, h) <= m /\ m <= Greatest(l, h)
      BY <2>3 DEF Least, Greatest
    <2>5. Truncated(x, y) = m
      BY <2>1 DEF m
    <2> QED
      BY <2>2, <2>4, <2>5 DEF Within
  <1>4. CASE ~(b[1] # b[2] /\ a[1] >= 0 /\ b[1] > 0) /\ ~(b[1] = b[2] /\ b[1] # 0)
    BY <1>4 DEF Quotient, Within
  <1> QED
    BY <1>2, <1>3, <1>4

LEMMA RemainderIs ==
  ASSUME NEW x \in Nat, NEW c \in Nat \ {0}
  PROVE  /\ x - c * (x \div c) = x % c
         /\ 0 <= x % c /\ x % c <= c - 1
  OBVIOUS

LEMMA RemainderSound ==
  ASSUME NEW a \in Int \X Int, NEW b \in Int \X Int, NEW x \in Int, NEW y \in Int, y # 0,
         a[1] <= x, x <= a[2], b[1] <= y, y <= b[2]
  PROVE  Within(x - y * Truncated(x, y), Remainder(a, b))
  <1>1. a[1] \in Int /\ a[2] \in Int /\ b[1] \in Int /\ b[2] \in Int
    OBVIOUS
  <1>2. CASE b[1] # b[2] \/ b[1] <= 0 \/ a[1] < 0
    BY <1>2 DEF Remainder, Within
  <1>3. CASE ~(b[1] # b[2] \/ b[1] <= 0 \/ a[1] < 0)
    <2>1. x \in Nat /\ y = b[1] /\ y \in Nat \ {0}
      BY <1>1, <1>3
    <2>2. Truncated(x, y) = x \div y
      BY <2>1 DEF Truncated
    <2>3. x - y * Truncated(x, y) = x % b[1] /\ 0 <= x % b[1] /\ x % b[1] <= b[1] - 1
      BY <2>1, <2>2, RemainderIs
    <2>4. Remainder(a, b) = IF a[1] = a[2] THEN Point(a[1] % b[1]) ELSE <<0, b[1] - 1>>
      BY <1>3 DEF Remainder
    <2>5. x % b[1] \in Int
      BY <2>1
    <2>6. CASE a[1] = a[2]
      <3>1. x = a[1]
        BY <1>1, <2>6
      <3> QED
        BY <2>3, <2>4, <2>5, <2>6, <3>1, PointIs DEF Within
    <2>7. CASE a[1] # a[2]
      BY <2>3, <2>4, <2>7 DEF Within
    <2> QED
      BY <2>6, <2>7
  <1> QED
    BY <1>2, <1>3

-----------------------------------------------------------------------------
(* Shifts.  The powers of two are defined by recursion: the function exists, *)
(* for it does up to every n, and it is positive and increasing.             *)

LEMMA LeastNat ==
  ASSUME NEW T, T \subseteq Nat, T # {}
  PROVE  \E n \in T : \A m \in T : n <= m
  <1>1. PICK n \in T : \A m \in T : <<m, n>> \notin OpToRel(<, Nat)
    BY WFMin, NatLessThanWellFounded
  <1>2. \A m \in T : ~(m < n)
    BY <1>1 DEF OpToRel
  <1> QED
    BY <1>2

\* The powers of two up to n.
Doubling(n, g) == g = [k \in 0 .. n |-> IF k = 0 THEN 1 ELSE 2 * g[k - 1]]

LEMMA DoublingExists ==
  ASSUME NEW n \in Nat
  PROVE  \E g : Doubling(n, g)
  <1> DEFINE T == {m \in Nat : ~\E g : Doubling(m, g)}
  <1>1. SUFFICES ASSUME T # {} PROVE FALSE
    OBVIOUS
  <1>2. PICK m \in T : \A k \in T : m <= k
    <2>1. T \subseteq Nat
      OBVIOUS
    <2> HIDE DEF T
    <2> QED
      BY <1>1, <2>1, LeastNat
  <1>3. CASE m = 0
    <2>1. PICK g : g = [k \in 0 .. 0 |-> 1]
      OBVIOUS
    <2>2. Doubling(0, g)
      BY <2>1 DEF Doubling
    <2> QED
      BY <1>3, <2>2
  <1>4. CASE m # 0
    <2>1. m \in Nat \ {0} /\ m - 1 \in Nat
      BY <1>4
    <2>2. m - 1 \notin T
      BY <1>2, <2>1
    <2>3. PICK g : Doubling(m - 1, g)
      BY <2>1, <2>2
    <2>4. PICK h : h = [k \in 0 .. m |-> IF k = m THEN 2 * g[m - 1] ELSE g[k]]
      OBVIOUS
    <2>5. ASSUME NEW k \in 0 .. m PROVE h[k] = IF k = 0 THEN 1 ELSE 2 * h[k - 1]
      <3>1. CASE k = m
        <4>1. h[m] = 2 * g[m - 1] /\ h[m - 1] = g[m - 1]
          BY <2>1, <2>4
        <4> QED
          BY <1>4, <3>1, <4>1
      <3>2. CASE k # m
        <4>1. k \in 0 .. m - 1 /\ h[k] = g[k] /\ (k # 0 => k - 1 \in 0 .. m /\ k - 1 # m)
          BY <2>1, <2>4, <3>2
        <4>2. k # 0 => h[k - 1] = g[k - 1]
          BY <2>4, <4>1
        <4>3. g[k] = IF k = 0 THEN 1 ELSE 2 * g[k - 1]
          BY <2>3, <4>1 DEF Doubling
        <4> QED
          BY <4>1, <4>2, <4>3
      <3> QED
        BY <3>1, <3>2
    <2>6. Doubling(m, h)
      BY <2>4, <2>5 DEF Doubling
    <2> QED
      BY <2>6
  <1> QED
    BY <1>3, <1>4

LEMMA DoublingAgrees ==
  ASSUME NEW n \in Nat, NEW g, NEW h, Doubling(n, g), Doubling(n + 1, h)
  PROVE  h[n] = g[n]
  <1> DEFINE T == {k \in 0 .. n : h[k] # g[k]}
  <1>1. SUFFICES ASSUME T # {} PROVE FALSE
    OBVIOUS
  <1>2. PICK k \in T : \A l \in T : k <= l
    <2>1. T \subseteq Nat
      OBVIOUS
    <2> HIDE DEF T
    <2> QED
      BY <1>1, <2>1, LeastNat
  <1>3. k \in 0 .. n /\ k \in 0 .. n + 1 /\ h[k] # g[k]
    OBVIOUS
  <1>4. /\ h[k] = IF k = 0 THEN 1 ELSE 2 * h[k - 1]
        /\ g[k] = IF k = 0 THEN 1 ELSE 2 * g[k - 1]
    BY <1>3 DEF Doubling
  <1>5. k # 0
    BY <1>3, <1>4
  <1>6. k - 1 \in 0 .. n /\ k - 1 \notin T
    BY <1>2, <1>3, <1>5
  <1>7. h[k - 1] = g[k - 1]
    BY <1>6
  <1> QED
    BY <1>3, <1>4, <1>5, <1>7

LEMMA Pow2Is ==
  Pow2 = [n \in Nat |-> IF n = 0 THEN 1 ELSE 2 * Pow2[n - 1]]
  <1>1. PICK G : G = [n \in Nat |-> CHOOSE g : Doubling(n, g)]
    OBVIOUS
  <1>2. ASSUME NEW n \in Nat PROVE Doubling(n, G[n])
    <2>1. Doubling(n, CHOOSE g : Doubling(n, g))
      BY DoublingExists
    <2> QED
      BY <1>1, <2>1
  <1>3. PICK p : p = [n \in Nat |-> G[n][n]]
    OBVIOUS
  <1>4. ASSUME NEW n \in Nat PROVE p[n] = IF n = 0 THEN 1 ELSE 2 * p[n - 1]
    <2>1. n \in 0 .. n /\ Doubling(n, G[n])
      BY <1>2
    <2>2. G[n][n] = IF n = 0 THEN 1 ELSE 2 * G[n][n - 1]
      BY <2>1 DEF Doubling
    <2>3. CASE n = 0
      BY <1>3, <2>2, <2>3
    <2>4. CASE n # 0
      <3>1. n - 1 \in Nat /\ (n - 1) + 1 = n
        BY <2>4
      <3>2. Doubling(n - 1, G[n - 1])
        BY <1>2, <3>1
      <3>3. G[n][n - 1] = G[n - 1][n - 1]
        BY <2>1, <3>1, <3>2, DoublingAgrees
      <3> QED
        BY <1>3, <2>2, <2>4, <3>1, <3>3
    <2> QED
      BY <2>3, <2>4
  <1>5. p = [n \in Nat |-> IF n = 0 THEN 1 ELSE 2 * p[n - 1]]
    BY <1>3, <1>4
  <1>6. Pow2 = CHOOSE f : f = [n \in Nat |-> IF n = 0 THEN 1 ELSE 2 * f[n - 1]]
    BY DEF Pow2
  <1> QED
    BY <1>5, <1>6

LEMMA Pow2Positive ==
  ASSUME NEW n \in Nat
  PROVE  Pow2[n] \in Nat \ {0}
  <1> DEFINE T == {m \in Nat : Pow2[m] \notin Nat \ {0}}
  <1>1. SUFFICES ASSUME T # {} PROVE FALSE
    OBVIOUS
  <1>2. PICK m \in T : \A k \in T : m <= k
    <2>1. T \subseteq Nat
      OBVIOUS
    <2> HIDE DEF T
    <2> QED
      BY <1>1, <2>1, LeastNat
  <1>3. Pow2[m] = IF m = 0 THEN 1 ELSE 2 * Pow2[m - 1]
    BY Pow2Is
  <1>4. m # 0
    BY <1>3
  <1>5. m - 1 \in Nat /\ m - 1 \notin T
    BY <1>2, <1>4
  <1>6. Pow2[m - 1] \in Nat \ {0}
    BY <1>5
  <1> QED
    BY <1>3, <1>4, <1>6

LEMMA Pow2Monotone ==
  ASSUME NEW l \in Nat, NEW n \in Nat, l <= n
  PROVE  Pow2[l] <= Pow2[n]
  <1> DEFINE T == {m \in Nat : l <= m /\ ~(Pow2[l] <= Pow2[m])}
  <1>1. SUFFICES ASSUME T # {} PROVE FALSE
    OBVIOUS
  <1>2. PICK m \in T : \A k \in T : m <= k
    <2>1. T \subseteq Nat
      OBVIOUS
    <2> HIDE DEF T
    <2> QED
      BY <1>1, <2>1, LeastNat
  <1>3. Pow2[l] \in Nat \ {0} /\ Pow2[m] \in Nat \ {0}
    BY Pow2Positive
  <1>4. m # l
    BY <1>3
  <1>5. m - 1 \in Nat /\ l <= m - 1 /\ m # 0 /\ m - 1 \notin T
    BY <1>2, <1>4
  <1>6. Pow2[l] <= Pow2[m - 1] /\ Pow2[m - 1] \in Nat \ {0}
    BY <1>5, Pow2Positive
  <1>7. Pow2[m] = 2 * Pow2[m - 1]
    BY <1>5, Pow2Is
  <1> QED
    BY <1>3, <1>6, <1>7

LEMMA ProductMonotone ==
  ASSUME NEW k \in Nat, NEW l \in Nat, NEW m \in Nat, NEW n \in Nat, k <= l, m <= n
  PROVE  k * m <= l * n
  <1>1. k * m <= l * m
    OBVIOUS
  <1>2. l * m <= l * n
    OBVIOUS
  <1>3. k * m \in Nat /\ l * m \in Nat /\ l * n \in Nat
    OBVIOUS
  <1> QED
    BY <1>1, <1>2, <1>3

LEMMA ShiftLeftSound ==
  ASSUME NEW a \in Int \X Int, NEW b \in Int \X Int, NEW x \in Nat, NEW y \in Nat,
         a[1] <= x, x <= a[2], b[1] <= y, y <= b[2]
  PROVE  Within(x * Pow2[y], ShiftLeft(a, b))
  <1>1. CASE a[1] >= 0 /\ b[1] >= 0
    <2>1. a[1] \in Nat /\ a[2] \in Nat /\ b[1] \in Nat /\ b[2] \in Nat
      BY <1>1
    <2>2. /\ Pow2[b[1]] \in Nat /\ Pow2[y] \in Nat /\ Pow2[b[2]] \in Nat
          /\ Pow2[b[1]] <= Pow2[y] /\ Pow2[y] <= Pow2[b[2]]
      BY <2>1, Pow2Positive, Pow2Monotone
    <2>3. a[1] * Pow2[b[1]] <= x * Pow2[y] /\ x * Pow2[y] <= a[2] * Pow2[b[2]]
      BY <2>1, <2>2, ProductMonotone
    <2> QED
      BY <1>1, <2>3 DEF ShiftLeft, Within
  <1>2. CASE ~(a[1] >= 0 /\ b[1] >= 0)
    BY <1>2 DEF ShiftLeft, Within
  <1> QED
    BY <1>1, <1>2

LEMMA ShiftRightSound ==
  ASSUME NEW a \in Int \X Int, NEW b \in Int \X Int, NEW x \in Nat, NEW y \in Nat,
         a[1] <= x, x <= a[2], b[1] <= y, y <= b[2]
  PROVE  Within(x \div Pow2[y], ShiftRight(a, b))
  <1>1. CASE a[1] >= 0 /\ b[1] >= 0
    <2>1. a[1] \in Nat /\ a[2] \in Nat /\ b[1] \in Nat /\ b[2] \in Nat
      BY <1>1
    <2>2. /\ Pow2[b[1]] \in Nat \ {0} /\ Pow2[y] \in Nat \ {0} /\ Pow2[b[2]] \in Nat \ {0}
          /\ Pow2[b[1]] <= Pow2[y] /\ Pow2[y] <= Pow2[b[2]]
      BY <2>1, Pow2Positive, Pow2Monotone
    <2>3. a[1] \div Pow2[b[2]] <= x \div Pow2[y] /\ x \div Pow2[y] <= a[2] \div Pow2[b[1]]
      BY <2>1, <2>2, QuotientByRange
    <2> QED
      BY <1>1, <2>3 DEF ShiftRight, Within
  <1>2. CASE ~(a[1] >= 0 /\ b[1] >= 0)
    BY <1>2 DEF ShiftRight, Within
  <1> QED
    BY <1>1, <1>2

-----------------------------------------------------------------------------
(* combine.                                                                *)

\* For whatever values inside their intervals two operands have, what the program computes from
\* them is inside the interval combine gives: the gate may say it cannot tell, never a wrong range.
THEOREM CombineSound ==
  ASSUME NEW op \in Operators, NEW a, NEW b, IsInterval(a), IsInterval(b), NEW x \in Int, NEW y \in Int,
         Within(x, a), Within(y, b), Defined(op, x, y)
  PROVE  Within(Apply(op, x, y), Combine(op, a, b))
  <1>1. CASE op = "&&"
    <2> DEFINE yes == Truth(a) = "yes" /\ Truth(b) = "yes"  no == Truth(a) = "no" \/ Truth(b) = "no"
               both == x # 0 /\ y # 0
    <2>1. (yes => both) /\ (no => ~both)
      BY TruthSound
    <2>2. Within(Bit(both), Verdict(yes, no))
      BY <2>1, VerdictSound
    <2> QED
      BY <1>1, <2>2 DEF Apply, Combine, Both
  <1>2. CASE op = "||"
    <2> DEFINE yes == Truth(a) = "yes" \/ Truth(b) = "yes"  no == Truth(a) = "no" /\ Truth(b) = "no"
               either == x # 0 \/ y # 0
    <2>1. (yes => either) /\ (no => ~either)
      BY TruthSound
    <2>2. Within(Bit(either), Verdict(yes, no))
      BY <2>1, VerdictSound
    <2> QED
      BY <1>2, <2>2 DEF Apply, Combine, Either
  <1>3. CASE op \notin {"&&", "||"} /\ (a = None \/ b = None)
    BY <1>3 DEF Combine, Within
  <1>4. CASE op \notin {"&&", "||"} /\ a # None /\ b # None
    <2>1. /\ a \in Int \X Int /\ b \in Int \X Int
          /\ a[1] <= x /\ x <= a[2] /\ b[1] <= y /\ y <= b[2]
      BY <1>4 DEF IsInterval, Within
    <2>2. Combine(op, a, b) = Folded(op, a, b)
      BY <1>4 DEF Combine
    <2>3. CASE op = "+"
      BY <2>1, <2>2, <2>3 DEF Folded, Apply, Within
    <2>4. CASE op = "-"
      BY <2>1, <2>2, <2>4 DEF Folded, Apply, Within
    <2>5. CASE op = "*"
      BY <2>1, <2>2, <2>5, ProductSound DEF Folded, Apply
    <2>6. CASE op = "/"
      <3>1. y # 0
        BY <2>6 DEF Defined
      <3> QED
        BY <2>1, <2>2, <2>6, <3>1, QuotientSound DEF Folded, Apply
    <2>7. CASE op = "%"
      <3>1. y # 0
        BY <2>7 DEF Defined
      <3> QED
        BY <2>1, <2>2, <2>7, <3>1, RemainderSound DEF Folded, Apply
    <2>8. CASE op \in Comparisons
      BY <2>1, <2>2, <2>8, CompareSound DEF Folded, Apply, Comparisons
    <2>9. CASE op = "<<"
      <3>1. x \in Nat /\ y \in Nat
        BY <2>9 DEF Defined
      <3> QED
        BY <2>1, <2>2, <2>9, <3>1, ShiftLeftSound DEF Folded, Apply
    <2>10. CASE op = ">>"
      <3>1. x \in Nat /\ y \in Nat
        BY <2>10 DEF Defined
      <3> QED
        BY <2>1, <2>2, <2>10, <3>1, ShiftRightSound DEF Folded, Apply
    <2> QED
      BY <1>4, <2>3, <2>4, <2>5, <2>6, <2>7, <2>8, <2>9, <2>10 DEF Operators
  <1> QED
    BY <1>1, <1>2, <1>3, <1>4

-----------------------------------------------------------------------------
(* The form of what is folded.                                             *)

Ordered(v) == v = None \/ (v \in Int \X Int /\ v[1] <= v[2])

LEMMA VerdictOrdered ==
  ASSUME NEW yes, NEW no
  PROVE  Ordered(Verdict(yes, no))
  <1>1. Ordered(Point(1)) /\ Ordered(Point(0)) /\ Ordered(None)
    BY PointIs DEF Ordered
  <1> QED
    BY <1>1 DEF Verdict

LEMMA PairOrdered ==
  ASSUME NEW m \in Int, NEW n \in Int, m <= n
  PROVE  Ordered(<<m, n>>)
  BY DEF Ordered

LEMMA CompareOrdered ==
  ASSUME NEW op \in Comparisons, NEW a \in Int \X Int, NEW b \in Int \X Int
  PROVE  Ordered(Compare(op, a, b))
  <1> DEFINE apart == a[2] < b[1] \/ b[2] < a[1]
             same == a[1] = a[2] /\ a[2] = b[1] /\ b[1] = b[2]
  <1>1. CASE op = "<"
    <2>1. Ordered(Verdict(a[2] < b[1], a[1] >= b[2]))
      BY VerdictOrdered
    <2> QED
      BY <1>1, <2>1 DEF Compare
  <1>2. CASE op = "<="
    <2>1. Ordered(Verdict(a[2] <= b[1], a[1] > b[2]))
      BY VerdictOrdered
    <2> QED
      BY <1>2, <2>1 DEF Compare
  <1>3. CASE op = ">"
    <2>1. Ordered(Verdict(a[1] > b[2], a[2] <= b[1]))
      BY VerdictOrdered
    <2> QED
      BY <1>3, <2>1 DEF Compare
  <1>4. CASE op = ">="
    <2>1. Ordered(Verdict(a[1] >= b[2], a[2] < b[1]))
      BY VerdictOrdered
    <2> QED
      BY <1>4, <2>1 DEF Compare
  <1>5. CASE op = "=="
    <2>1. Ordered(Verdict(same, apart))
      BY VerdictOrdered
    <2> QED
      BY <1>5, <2>1 DEF Compare
  <1>6. CASE op = "!="
    <2>1. Ordered(Verdict(apart, same))
      BY VerdictOrdered
    <2> QED
      BY <1>6, <2>1 DEF Compare
  <1> QED
    BY <1>1, <1>2, <1>3, <1>4, <1>5, <1>6 DEF Comparisons

LEMMA LeastGreatest ==
  ASSUME NEW p \in Int, NEW q \in Int
  PROVE  /\ Least(p, q) \in Int /\ Greatest(p, q) \in Int
         /\ Least(p, q) <= p /\ p <= Greatest(p, q)
  BY DEF Least, Greatest

LEMMA ProductOrdered ==
  ASSUME NEW a \in Int \X Int, NEW b \in Int \X Int
  PROVE  Ordered(Product(a, b))
  <1> DEFINE p == a[1] * b[1]  q == a[1] * b[2]  r == a[2] * b[1]  s == a[2] * b[2]
  <1>1. p \in Int /\ q \in Int /\ r \in Int /\ s \in Int
    OBVIOUS
  <1>2. Product(a, b) = <<Least(Least(p, q), Least(r, s)), Greatest(Greatest(p, q), Greatest(r, s))>>
    BY DEF Product
  <1> HIDE DEF p, q, r, s
  <1>3. PICK l, m, h, k : l = Least(p, q) /\ m = Least(r, s) /\ h = Greatest(p, q) /\ k = Greatest(r, s)
    OBVIOUS
  <1>4. /\ l \in Int /\ m \in Int /\ h \in Int /\ k \in Int /\ l <= p /\ p <= h
        /\ Least(l, m) \in Int /\ Greatest(h, k) \in Int /\ Least(l, m) <= l /\ h <= Greatest(h, k)
    BY <1>1, <1>3, LeastGreatest
  <1>5. Least(l, m) <= Greatest(h, k)
    BY <1>1, <1>4
  <1> QED
    BY <1>2, <1>3, <1>4, <1>5, PairOrdered

LEMMA QuotientOrdered ==
  ASSUME NEW a \in Int \X Int, NEW b \in Int \X Int, a[1] <= a[2], b[1] <= b[2]
  PROVE  Ordered(Quotient(a, b))
  <1>1. a[1] \in Int /\ a[2] \in Int /\ b[1] \in Int /\ b[2] \in Int
    OBVIOUS
  <1>2. CASE b[1] # b[2] /\ a[1] >= 0 /\ b[1] > 0
    <2>1. a[1] \in Nat /\ a[2] \in Nat /\ b[1] \in Nat \ {0} /\ b[2] \in Nat \ {0}
      BY <1>1, <1>2
    <2>2. a[1] \div b[2] <= a[1] \div b[1] /\ a[1] \div b[1] <= a[2] \div b[1]
      <3>1. a[1] <= a[1] /\ b[1] <= b[1]
        BY <1>1
      <3> QED
        BY <2>1, <3>1, QuotientByRange
    <2>3. a[1] \div b[2] \in Int /\ a[1] \div b[1] \in Int /\ a[2] \div b[1] \in Int
      BY <2>1
    <2>4. a[1] \div b[2] <= a[2] \div b[1]
      BY <2>2, <2>3
    <2> QED
      BY <1>2, <2>3, <2>4, PairOrdered DEF Quotient
  <1>3. CASE b[1] = b[2] /\ b[1] # 0
    <2> DEFINE l == Truncated(a[1], b[1])  h == Truncated(a[2], b[1])
    <2>1. Quotient(a, b) = <<Least(l, h), Greatest(l, h)>>
      BY <1>3 DEF Quotient
    <2>2. l \in Int /\ h \in Int
      <3>1. a[1] <= a[1]
        BY <1>1
      <3> QED
        BY <1>1, <1>3, <3>1, TruncatedMonotone
    <2> HIDE DEF l, h
    <2>3. Least(l, h) \in Int /\ Greatest(l, h) \in Int /\ Least(l, h) <= Greatest(l, h)
      BY <2>2 DEF Least, Greatest
    <2> QED
      BY <2>1, <2>3, PairOrdered
  <1>4. CASE ~(b[1] # b[2] /\ a[1] >= 0 /\ b[1] > 0) /\ ~(b[1] = b[2] /\ b[1] # 0)
    BY <1>4 DEF Quotient, Ordered
  <1> QED
    BY <1>2, <1>3, <1>4

LEMMA RemainderOrdered ==
  ASSUME NEW a \in Int \X Int, NEW b \in Int \X Int
  PROVE  Ordered(Remainder(a, b))
  <1>1. CASE b[1] # b[2] \/ b[1] <= 0 \/ a[1] < 0
    BY <1>1 DEF Remainder, Ordered
  <1>2. CASE ~(b[1] # b[2] \/ b[1] <= 0 \/ a[1] < 0)
    <2>1. a[1] % b[1] \in Int /\ 0 <= b[1] - 1 /\ b[1] - 1 \in Int
      BY <1>2
    <2>2. Ordered(Point(a[1] % b[1])) /\ Ordered(<<0, b[1] - 1>>)
      BY <2>1, PairOrdered DEF Point
    <2> QED
      BY <1>2, <2>2 DEF Remainder
  <1> QED
    BY <1>1, <1>2

LEMMA ShiftsOrdered ==
  ASSUME NEW a \in Int \X Int, NEW b \in Int \X Int, a[1] <= a[2], b[1] <= b[2]
  PROVE  Ordered(ShiftLeft(a, b)) /\ Ordered(ShiftRight(a, b))
  <1>1. CASE a[1] >= 0 /\ b[1] >= 0
    <2>1. a[1] \in Nat /\ a[2] \in Nat /\ b[1] \in Nat /\ b[2] \in Nat
      BY <1>1
    <2>2. /\ Pow2[b[1]] \in Nat \ {0} /\ Pow2[b[2]] \in Nat \ {0}
          /\ Pow2[b[1]] <= Pow2[b[2]] /\ Pow2[b[1]] <= Pow2[b[1]]
      BY <2>1, Pow2Positive, Pow2Monotone
    <2> DEFINE k == Pow2[b[1]]  l == Pow2[b[2]]
    <2> HIDE DEF k, l
    <2>3. k \in Nat \ {0} /\ l \in Nat \ {0} /\ k <= l /\ k <= k
      BY <2>2 DEF k, l
    <2>4. a[1] * k \in Int /\ a[2] * l \in Int /\ a[1] * k <= a[2] * l
      BY <2>1, <2>3, ProductMonotone
    <2>5. a[1] \div l \in Int /\ a[1] \div k \in Int /\ a[2] \div k \in Int
      BY <2>1, <2>3
    <2>6. a[1] \div l <= a[1] \div k /\ a[1] \div k <= a[2] \div k
      <3>1. a[1] <= a[1]
        BY <2>1
      <3> QED
        BY <2>1, <2>3, <3>1, QuotientByRange
    <2>7. a[1] \div l <= a[2] \div k
      BY <2>5, <2>6
    <2>8. ShiftLeft(a, b) = <<a[1] * k, a[2] * l>> /\ ShiftRight(a, b) = <<a[1] \div l, a[2] \div k>>
      BY <1>1 DEF ShiftLeft, ShiftRight, k, l
    <2> QED
      BY <2>4, <2>5, <2>7, <2>8, PairOrdered
  <1>2. CASE ~(a[1] >= 0 /\ b[1] >= 0)
    BY <1>2 DEF ShiftLeft, ShiftRight, Ordered
  <1> QED
    BY <1>1, <1>2

\* From ordered intervals combine makes an ordered interval or cannot tell: no range it passes on
\* is empty, so none makes a check pass because nothing lies inside.
THEOREM CombineOrdered ==
  ASSUME NEW op \in Operators, NEW a, NEW b, Ordered(a), Ordered(b)
  PROVE  Ordered(Combine(op, a, b))
  <1>1. CASE op = "&&"
    <2> DEFINE yes == Truth(a) = "yes" /\ Truth(b) = "yes"  no == Truth(a) = "no" \/ Truth(b) = "no"
    <2>1. Ordered(Verdict(yes, no))
      BY VerdictOrdered
    <2> QED
      BY <1>1, <2>1 DEF Combine, Both
  <1>2. CASE op = "||"
    <2> DEFINE yes == Truth(a) = "yes" \/ Truth(b) = "yes"  no == Truth(a) = "no" /\ Truth(b) = "no"
    <2>1. Ordered(Verdict(yes, no))
      BY VerdictOrdered
    <2> QED
      BY <1>2, <2>1 DEF Combine, Either
  <1>3. CASE op \notin {"&&", "||"} /\ (a = None \/ b = None)
    BY <1>3 DEF Combine, Ordered
  <1>4. CASE op \notin {"&&", "||"} /\ a # None /\ b # None
    <2>1. a \in Int \X Int /\ b \in Int \X Int /\ a[1] <= a[2] /\ b[1] <= b[2]
      BY <1>4 DEF Ordered
    <2>2. Combine(op, a, b) = Folded(op, a, b)
      BY <1>4 DEF Combine
    <2>3. CASE op = "+"
      <3>1. Ordered(<<a[1] + b[1], a[2] + b[2]>>)
        BY <2>1, PairOrdered
      <3> QED
        BY <2>2, <2>3, <3>1 DEF Folded
    <2>4. CASE op = "-"
      <3>1. Ordered(<<a[1] - b[2], a[2] - b[1]>>)
        BY <2>1, PairOrdered
      <3> QED
        BY <2>2, <2>4, <3>1 DEF Folded
    <2>5. CASE op = "*"
      BY <2>1, <2>2, <2>5, ProductOrdered DEF Folded
    <2>6. CASE op = "/"
      BY <2>1, <2>2, <2>6, QuotientOrdered DEF Folded
    <2>7. CASE op = "%"
      BY <2>1, <2>2, <2>7, RemainderOrdered DEF Folded
    <2>8. CASE op \in Comparisons
      BY <2>1, <2>2, <2>8, CompareOrdered DEF Folded, Comparisons
    <2>9. CASE op = "<<"
      BY <2>1, <2>2, <2>9, ShiftsOrdered DEF Folded
    <2>10. CASE op = ">>"
      BY <2>1, <2>2, <2>10, ShiftsOrdered DEF Folded
    <2> QED
      BY <1>4, <2>3, <2>4, <2>5, <2>6, <2>7, <2>8, <2>9, <2>10 DEF Operators
  <1> QED
    BY <1>1, <1>2, <1>3, <1>4

LEMMA TruthOfPoint ==
  ASSUME NEW n \in Int
  PROVE  Truth(Point(n)) = IF n = 0 THEN "no" ELSE "yes"
  <1>1. CASE n = 0
    BY <1>1, PointIs DEF Truth
  <1>2. CASE n # 0
    <2>1. Point(n) # Point(0) /\ (Point(n)[1] > 0 \/ Point(n)[2] < 0) /\ Point(n) # None
      BY <1>2, PointIs
    <2> QED
      BY <1>2, <2>1 DEF Truth
  <1> QED
    BY <1>1, <1>2

LEMMA VerdictExact ==
  ASSUME NEW truth \in BOOLEAN
  PROVE  Verdict(truth, ~truth) = Point(Bit(truth))
  BY DEF Verdict, Bit

LEMMA CompareExact ==
  ASSUME NEW op \in Comparisons, NEW x \in Int, NEW y \in Int
  PROVE  Compare(op, Point(x), Point(y)) = Point(Bit(Holds(op, x, y)))
  <1> DEFINE a == Point(x)  b == Point(y)
  <1>1. a[1] = x /\ a[2] = x /\ b[1] = y /\ b[2] = y
    BY PointIs
  <1> HIDE DEF a, b
  <1>2. CASE op = "<"
    <2>1. Compare(op, a, b) = Point(Bit(x < y))
      BY <1>1, <1>2 DEF Compare, Verdict, Bit
    <2> QED
      BY <1>2, <2>1 DEF Holds, a, b
  <1>3. CASE op = "<="
    <2>1. Compare(op, a, b) = Point(Bit(x <= y))
      BY <1>1, <1>3 DEF Compare, Verdict, Bit
    <2> QED
      BY <1>3, <2>1 DEF Holds, a, b
  <1>4. CASE op = ">"
    <2>1. Compare(op, a, b) = Point(Bit(x > y))
      BY <1>1, <1>4 DEF Compare, Verdict, Bit
    <2> QED
      BY <1>4, <2>1 DEF Holds, a, b
  <1>5. CASE op = ">="
    <2>1. Compare(op, a, b) = Point(Bit(x >= y))
      BY <1>1, <1>5 DEF Compare, Verdict, Bit
    <2> QED
      BY <1>5, <2>1 DEF Holds, a, b
  <1>6. CASE op = "=="
    <2>1. Compare(op, a, b) = Verdict(x = y, ~(x = y))
      BY <1>1, <1>6 DEF Compare, Verdict
    <2> QED
      BY <1>6, <2>1, VerdictExact DEF Holds, a, b
  <1>7. CASE op = "!="
    <2>1. Compare(op, a, b) = Verdict(x # y, ~(x # y))
      BY <1>1, <1>7 DEF Compare, Verdict
    <2> QED
      BY <1>7, <2>1, VerdictExact DEF Holds, a, b
  <1> QED
    BY <1>2, <1>3, <1>4, <1>5, <1>6, <1>7 DEF Comparisons

\* On known values combine computes what the program computes, or cannot tell: a condition over
\* constants is decided as the program decides it.
THEOREM CombineExact ==
  ASSUME NEW op \in Operators, NEW x \in Int, NEW y \in Int, Defined(op, x, y)
  PROVE  Combine(op, Point(x), Point(y)) \in {None, Point(Apply(op, x, y))}
  <1> DEFINE a == Point(x)  b == Point(y)
  <1>1. a[1] = x /\ a[2] = x /\ b[1] = y /\ b[2] = y /\ a # None /\ b # None
    BY PointIs
  <1>2. /\ Truth(a) = IF x = 0 THEN "no" ELSE "yes"
        /\ Truth(b) = IF y = 0 THEN "no" ELSE "yes"
    BY TruthOfPoint
  <1> HIDE DEF a, b
  <1>3. SUFFICES Combine(op, a, b) \in {None, Point(Apply(op, x, y))}
    BY DEF a, b
  <1>4. CASE op = "&&"
    BY <1>2, <1>4 DEF Combine, Both, Verdict, Apply, Bit
  <1>5. CASE op = "||"
    BY <1>2, <1>5 DEF Combine, Either, Verdict, Apply, Bit
  <1>6. CASE op \notin {"&&", "||"}
    <2>1. Combine(op, a, b) = Folded(op, a, b)
      BY <1>1, <1>6 DEF Combine
    <2>2. CASE op = "+"
      BY <1>1, <2>1, <2>2 DEF Folded, Apply, Point
    <2>3. CASE op = "-"
      BY <1>1, <2>1, <2>3 DEF Folded, Apply, Point
    <2>4. CASE op = "*"
      <3>1. Product(a, b) = Point(x * y)
        BY <1>1 DEF Product, Least, Greatest, Point
      <3> QED
        BY <2>1, <2>4, <3>1 DEF Folded, Apply
    <2>5. CASE op = "/"
      <3>1. y # 0
        BY <2>5 DEF Defined
      <3>2. Quotient(a, b) = Point(Truncated(x, y))
        BY <1>1, <3>1 DEF Quotient, Least, Greatest, Point
      <3> QED
        BY <2>1, <2>5, <3>2 DEF Folded, Apply
    <2>6. CASE op = "%"
      <3>1. CASE y <= 0 \/ x < 0
        BY <1>1, <2>1, <2>6, <3>1 DEF Folded, Remainder
      <3>2. CASE ~(y <= 0 \/ x < 0)
        <4>1. x \in Nat /\ y \in Nat \ {0}
          BY <3>2
        <4>2. Truncated(x, y) = x \div y
          BY <4>1 DEF Truncated
        <4>3. x - y * Truncated(x, y) = x % y
          BY <4>1, <4>2, RemainderIs
        <4>4. Remainder(a, b) = Point(x % y)
          BY <1>1, <3>2 DEF Remainder
        <4> QED
          BY <2>1, <2>6, <4>3, <4>4 DEF Folded, Apply
      <3> QED
        BY <3>1, <3>2
    <2>7. CASE op = "<<"
      <3>1. ShiftLeft(a, b) = Point(x * Pow2[y])
        BY <1>1, <2>7 DEF Defined, ShiftLeft, Point
      <3> QED
        BY <2>1, <2>7, <3>1 DEF Folded, Apply
    <2>8. CASE op = ">>"
      <3>1. ShiftRight(a, b) = Point(x \div Pow2[y])
        BY <1>1, <2>8 DEF Defined, ShiftRight, Point
      <3> QED
        BY <2>1, <2>8, <3>1 DEF Folded, Apply
    <2>9. CASE op \in Comparisons
      <3>1. Compare(op, a, b) = Point(Bit(Holds(op, x, y)))
        BY <2>9, CompareExact DEF a, b
      <3> QED
        BY <2>1, <2>9, <3>1 DEF Folded, Apply, Comparisons
    <2> QED
      BY <1>6, <2>2, <2>3, <2>4, <2>5, <2>6, <2>7, <2>8, <2>9 DEF Operators
  <1> QED
    BY <1>4, <1>5, <1>6

-----------------------------------------------------------------------------
(* Counters.                                                               *)

\* No value of a counter below its loop's bound is above the one the gate takes for the last:
\* a counter that starts in start and has moved by multiples of g; and that value is no higher
\* than the bound.
THEOREM LastCountSound ==
  ASSUME NEW start \in Int \X Int, NEW s \in Int, start[1] <= s, s <= start[2],
         NEW top \in Int, NEW g \in Nat \ {0}, NEW m \in Nat, s + m * g <= top
  PROVE  s + m * g <= LastCount(start, top, g) /\ LastCount(start, top, g) <= top
  <1>1. CASE start[1] = start[2] /\ top >= start[1]
    <2> DEFINE r == top - s
    <2>1. s = start[1] /\ r \in Nat /\ m * g <= r
      <3>1. start[1] \in Int /\ start[2] \in Int /\ m * g \in Nat
        OBVIOUS
      <3> QED
        BY <1>1, <3>1
    <2>2. LastCount(start, top, g) = s + (r \div g) * g
      BY <1>1, <2>1 DEF LastCount
    <2>3. r \in Int /\ s + r = top
      OBVIOUS
    <2> HIDE DEF r
    <2>4. r \div g \in Nat /\ (r \div g) * g <= r /\ r < (r \div g + 1) * g
      BY <2>1
    <2>5. m < r \div g + 1
      <3>1. SUFFICES ASSUME r \div g + 1 <= m PROVE FALSE
        BY <2>4
      <3>2. (r \div g + 1) * g <= m * g
        BY <2>4, <3>1
      <3>3. (r \div g + 1) * g \in Nat /\ m * g \in Nat
        BY <2>4
      <3> QED
        BY <2>1, <2>4, <3>2, <3>3
    <2>6. m * g <= (r \div g) * g
      <3>1. m <= r \div g
        BY <2>4, <2>5
      <3>2. r \div g \in Nat
        BY <2>4
      <3> QED
        BY <3>1, <3>2
    <2>7. m * g \in Int /\ (r \div g) * g \in Int
      BY <2>4
    <2> QED
      BY <2>2, <2>3, <2>4, <2>6, <2>7
  <1>2. CASE ~(start[1] = start[2] /\ top >= start[1])
    BY <1>2 DEF LastCount
  <1> QED
    BY <1>1, <1>2
=============================================================================
