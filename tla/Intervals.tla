------------------------------- MODULE Intervals -------------------------------
(***************************************************************************)
(* The arithmetic of scripts/check-stack-array-sizing.py: an expression of *)
(* the scanned program is worth an interval <<lo, hi>> of integers, or     *)
(* None when the gate cannot tell.  Apply is what the program computes.    *)
(*                                                                         *)
(* Integers are unbounded on both sides, as they are in the script.  The   *)
(* bitwise operators &, | and ^ are left out: the gate folds them on two   *)
(* points, like an addition.                                               *)
(***************************************************************************)
EXTENDS Integers

None == <<>>
Point(n) == <<n, n>>
Within(n, v) == v = None \/ (v[1] <= n /\ n <= v[2])

Comparisons == {"<", "<=", ">", ">=", "==", "!="}
Operators == {"&&", "||", "+", "-", "*", "/", "%", "<<", ">>"} \cup Comparisons

-----------------------------------------------------------------------------
(* What a program computes.                                                *)

Bit(b) == IF b THEN 1 ELSE 0

\* Division truncates toward zero, a remainder has the sign of the dividend.
Truncated(x, y) ==
  CASE x >= 0 /\ y > 0 -> x \div y
    [] x < 0 /\ y > 0 -> -((-x) \div y)
    [] x >= 0 /\ y < 0 -> -(x \div (-y))
    [] OTHER -> (-x) \div (-y)

\* What a shift by n places multiplies or divides by.
Pow2[n \in Nat] == IF n = 0 THEN 1 ELSE 2 * Pow2[n - 1]

Holds(op, x, y) ==
  CASE op = "<" -> x < y
    [] op = "<=" -> x <= y
    [] op = ">" -> x > y
    [] op = ">=" -> x >= y
    [] op = "==" -> x = y
    [] op = "!=" -> x # y

Defined(op, x, y) ==
  /\ op \in {"/", "%"} => y # 0
  /\ op \in {"<<", ">>"} => x >= 0 /\ y >= 0

Apply(op, x, y) ==
  CASE op = "&&" -> Bit(x # 0 /\ y # 0)
    [] op = "||" -> Bit(x # 0 \/ y # 0)
    [] op = "+" -> x + y
    [] op = "-" -> x - y
    [] op = "*" -> x * y
    [] op = "/" -> Truncated(x, y)
    [] op = "%" -> x - y * Truncated(x, y)
    [] op = "<<" -> x * Pow2[y]
    [] op = ">>" -> x \div Pow2[y]
    [] OTHER -> Bit(Holds(op, x, y))

-----------------------------------------------------------------------------
(* What the gate makes of it.                                              *)

\* truth: decided, or "maybe".
Truth(v) ==
  IF v = None THEN "maybe"
  ELSE CASE v = Point(0) -> "no"
         [] v[1] > 0 \/ v[2] < 0 -> "yes"
         [] OTHER -> "maybe"

Verdict(yes, no) == IF yes THEN Point(1) ELSE IF no THEN Point(0) ELSE None

Both(a, b) ==
  Verdict(Truth(a) = "yes" /\ Truth(b) = "yes", Truth(a) = "no" \/ Truth(b) = "no")

Either(a, b) ==
  Verdict(Truth(a) = "yes" \/ Truth(b) = "yes", Truth(a) = "no" /\ Truth(b) = "no")

Compare(op, a, b) ==
  LET apart == a[2] < b[1] \/ b[2] < a[1]
      same == a[1] = a[2] /\ a[2] = b[1] /\ b[1] = b[2]
  IN CASE op = "<" -> Verdict(a[2] < b[1], a[1] >= b[2])
       [] op = "<=" -> Verdict(a[2] <= b[1], a[1] > b[2])
       [] op = ">" -> Verdict(a[1] > b[2], a[2] <= b[1])
       [] op = ">=" -> Verdict(a[1] >= b[2], a[2] < b[1])
       [] op = "==" -> Verdict(same, apart)
       [] op = "!=" -> Verdict(apart, same)

Least(p, q) == IF p <= q THEN p ELSE q
Greatest(p, q) == IF p <= q THEN q ELSE p

Product(a, b) ==
  LET p == a[1] * b[1]  q == a[1] * b[2]  r == a[2] * b[1]  s == a[2] * b[2]
  IN <<Least(Least(p, q), Least(r, s)), Greatest(Greatest(p, q), Greatest(r, s))>>

\* By a known divisor, or of two ranges that cannot be negative.
Quotient(a, b) ==
  CASE b[1] # b[2] /\ a[1] >= 0 /\ b[1] > 0 -> <<a[1] \div b[2], a[2] \div b[1]>>
    [] b[1] = b[2] /\ b[1] # 0 ->
         <<Least(Truncated(a[1], b[1]), Truncated(a[2], b[1])),
           Greatest(Truncated(a[1], b[1]), Truncated(a[2], b[1]))>>
    [] OTHER -> None

Remainder(a, b) ==
  IF b[1] # b[2] \/ b[1] <= 0 \/ a[1] < 0 THEN None
  ELSE IF a[1] = a[2] THEN Point(a[1] % b[1]) ELSE <<0, b[1] - 1>>

ShiftLeft(a, b) ==
  IF a[1] >= 0 /\ b[1] >= 0 THEN <<a[1] * Pow2[b[1]], a[2] * Pow2[b[2]]>> ELSE None

\* A shift of one negative value goes through its 64-bit pattern: not modelled.
ShiftRight(a, b) ==
  IF a[1] >= 0 /\ b[1] >= 0 THEN <<a[1] \div Pow2[b[2]], a[2] \div Pow2[b[1]]>> ELSE None

Folded(op, a, b) ==
  CASE op = "+" -> <<a[1] + b[1], a[2] + b[2]>>
    [] op = "-" -> <<a[1] - b[2], a[2] - b[1]>>
    [] op = "*" -> Product(a, b)
    [] op = "/" -> Quotient(a, b)
    [] op = "%" -> Remainder(a, b)
    [] op = "<<" -> ShiftLeft(a, b)
    [] op = ">>" -> ShiftRight(a, b)
    [] OTHER -> Compare(op, a, b)

Combine(op, a, b) ==
  IF op = "&&" THEN Both(a, b)
  ELSE IF op = "||" THEN Either(a, b)
  ELSE IF a = None \/ b = None THEN None
  ELSE Folded(op, a, b)

\* The last value up to top of a counter that starts in start and moves by multiples of g.
LastCount(start, top, g) ==
  IF start[1] = start[2] /\ top >= start[1] THEN start[1] + ((top - start[1]) \div g) * g ELSE top
=============================================================================
