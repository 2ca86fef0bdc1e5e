-------------------------------- MODULE Linear --------------------------------
(***************************************************************************)
(* Vectors and matrices modulo the prime Pr, as Math/Matrix.cpp handles    *)
(* them: a vector is a sequence, a matrix a sequence of rows.              *)
(***************************************************************************)
EXTENDS Integers, SequencesExt

CONSTANT Pr

Z == 0 .. Pr - 1

\* f as a tuple: TLC then evaluates its entries once.
Tuple(f) == <<>> \o f

invert(x) == CHOOSE y \in Z : (x * y) % Pr = 1

SumOf(f) == LET s[i \in 0 .. Len(f)] == IF i = 0 THEN 0 ELSE s[i - 1] + f[i] IN s[Len(f)] % Pr

Scaled(v, x) == Tuple([j \in DOMAIN v |-> (v[j] * x) % Pr])

dot_product(x, y) == SumOf([i \in DOMAIN x |-> x[i] * y[i]])

MulVec(A, x) == Tuple([i \in DOMAIN A |-> dot_product(A[i], x)])

MulMat(A, B) == Tuple([i \in DOMAIN A |-> Tuple([j \in DOMAIN B[1] |-> SumOf([k \in DOMAIN B |-> A[i][k] * B[k][j]])])])

Transposed(A) == Tuple([j \in DOMAIN A[1] |-> Tuple([i \in DOMAIN A |-> A[i][j]])])

Unit(n, i) == Tuple([k \in 1 .. n |-> IF k = i THEN 1 ELSE 0])

All(n, x) == Tuple([k \in 1 .. n |-> x])

\* A, and beside it the identity of its number of rows.
WithIdentity(A) == Tuple([i \in DOMAIN A |-> A[i] \o Unit(Len(A), i)])

is_zero(v) == \A j \in DOMAIN v : v[j] = 0

Subtracted(v, w, x) == Tuple([j \in DOMAIN v |-> (v[j] - w[j] * x) % Pr])

\* The mutant of Cleared: rows above the pivot keep their entry.
FaultyCleared(A, r, c) ==
  LET top == Scaled(A[r], invert(A[r][c]))
  IN  Tuple([i \in DOMAIN A |-> IF i = r THEN top ELSE IF i < r THEN A[i] ELSE Subtracted(A[i], top, A[i][c])])

\* Row r gets a leading one in column c, and the other rows a zero.
Cleared(A, r, c) ==
  LET top == Scaled(A[r], invert(A[r][c]))
  IN  Tuple([i \in DOMAIN A |-> IF i = r THEN top ELSE Subtracted(A[i], top, A[i][c])])

\* The first maxrow rows in turn; the pivot of row r is the first row that has
\* one, in the first column from c that has one.
EliminateRow(T, r) ==
  LET pivots(k) == {q \in r .. Len(T.A) : T.A[q][k] # 0}
      cols == {k \in T.c .. Len(T.A[1]) : pivots(k) # {}}
      k == Min(cols)
      q == Min(pivots(k))
  IN  IF cols = {} THEN T
      ELSE [A |-> Cleared([T.A EXCEPT ![r] = T.A[q], ![q] = T.A[r]], r, k), c |-> k + 1]

Gauss_Elim(A, maxrow) == FoldLeft(EliminateRow, [A |-> A, c |-> 1], [r \in 1 .. maxrow |-> r]).A

\* Solvable reduces A = (A' || b), and looks for rows that only have b.
Reduced(A) == Gauss_Elim(A, Min({Len(A), Len(A[1])}))
Solvable(A) == \A row \in ToSet(Reduced(A)) : row[Len(row)] # 0 => ~is_zero(Front(row))

\* A solution of a system that Solvable has reduced, from its last row up.
BackSubst(A) ==
  LET nc == Len(A[1]) - 1
      lead(i) == {c \in 1 .. nc : A[i][c] # 0}
      ans[i \in 1 .. Len(A) + 1] ==
        IF i > Len(A) THEN All(nc, 0)
        ELSE LET rest == ans[i + 1]
                 known == SumOf([c \in 1 .. nc |-> IF c > Min(lead(i)) THEN A[i][c] * rest[c] ELSE 0])
             IN  IF lead(i) = {} THEN rest ELSE [rest EXCEPT ![Min(lead(i))] = (A[i][nc + 1] - known) % Pr]
  IN  ans[1]
=============================================================================
