--------------------------- MODULE CoefficientRing --------------------------
(***************************************************************************)
(* testing/coefficient_polynomial.h: polynomials modulo x^n + 1 with       *)
(* coefficients modulo q, as functions on 0 .. n - 1, and each operation   *)
(* by its definition.  The tests compare polynomial.h with these; so does  *)
(* NttPolynomial, and the encryption modules compute with them.            *)
(***************************************************************************)
EXTENDS Integers, Functions, FiniteSets

Degree(f) == Cardinality(DOMAIN f)
SumOver(f, S) == FoldFunctionOnSet(+, 0, f, S)

Entrywise(Op(_, _), f, g, q) == [x \in DOMAIN f |-> Op(f[x], g[x]) % q]

RingAdd(f, g, q) == Entrywise(LAMBDA x, y : x + y, f, g, q)
RingSub(f, g, q) == Entrywise(LAMBDA x, y : x - y, f, g, q)
RingScale(f, c, q) == [x \in DOMAIN f |-> (f[x] * c) % q]

\* Multiplication modulo x^n + 1: a product of degree n or more comes back
\* with its sign changed.
CoefficientMul(f, g, q) ==
  LET n == Degree(f)
      term(k) == [i \in DOMAIN f |->
                    IF i <= k THEN f[i] * g[k - i] ELSE 0 - f[i] * g[n + k - i]]
  IN [k \in DOMAIN f |-> SumOver(term(k), DOMAIN f) % q]

\* MonomialMultiplication by x^power, power below 2n.
MonomialMultiplication(f, power, q) ==
  LET n == Degree(f)
      shift == power % n
      sign == IF power >= n THEN -1 ELSE 1
  IN [k \in DOMAIN f |-> IF k < shift THEN (0 - sign * f[k - shift + n]) % q
                         ELSE (sign * f[k - shift]) % q]

\* Substitute: coefficient i goes to index i * power modulo n, with the sign
\* of the number of times that it passes n.
CoefficientSubstitute(f, power, q) ==
  LET n == Degree(f)
      from(k) == CHOOSE i \in DOMAIN f : (i * power) % n = k
      sign(i) == IF ((i * power) \div n) % 2 = 0 THEN 1 ELSE -1
  IN [k \in DOMAIN f |-> (f[from(k)] * sign(from(k))) % q]
=============================================================================
