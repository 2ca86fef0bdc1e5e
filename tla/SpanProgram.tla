------------------------------ MODULE SpanProgram ------------------------------
(***************************************************************************)
(* MSP and Schur_Matrices: a monotone span program M is the matrix Gen and *)
(* the number ns[i] of its rows each player i has, in the order of the     *)
(* players.  The shares of a vector k are Gen * k; they share the sum of   *)
(* its entries.                                                            *)
(***************************************************************************)
EXTENDS Linear, AccessStructure

Count(M) == Len(M.ns)
row_dim(M) == Len(M.Gen)
col_dim(M) == Len(M.Gen[1])
FirstRow(M, i) == LET before[j \in 1 .. Count(M)] == IF j = 1 THEN 1 ELSE before[j - 1] + M.ns[j - 1] IN before[i]

\* Row k of player i, and the player of row r.
Row(M, i, k) == FirstRow(M, i) + k - 1
Owner(M, r) == CHOOSE i \in 1 .. Count(M) : r \in FirstRow(M, i) .. FirstRow(M, i) + M.ns[i] - 1
RowNumbers(M, S) == SelectSeq([r \in 1 .. row_dim(M) |-> r], LAMBDA r : Owner(M, r) \in S)

Initialize_Full_Threshold(n) == [ns |-> [i \in 1 .. n |-> 1], Gen |-> [i \in 1 .. n |-> Unit(n, i)]]

Initialize_Shamir(n, t) ==
  [ns |-> [i \in 1 .. n |-> 1], Gen |-> [i \in 1 .. n |-> [j \in 1 .. t + 1 |-> IF j = 1 THEN 1 ELSE (i ^ (j - 1) + 1) % Pr]]]

\* One row for each player and each maximal unqualified set it is not in.
Holds(AS, i) == SelectSeq([j \in DOMAIN AS.delta_plus |-> j], LAMBDA j : i \notin AS.delta_plus[j])
Initialize_Replicated(AS) ==
  LET szk == Len(AS.delta_plus)
      rows[i \in 0 .. AS.n] == IF i = 0 THEN <<>> ELSE rows[i - 1] \o [k \in DOMAIN Holds(AS, i) |-> Unit(szk, Holds(AS, i)[k])]
  IN  [ns |-> [i \in 1 .. AS.n |-> Len(Holds(AS, i))], Gen |-> rows[AS.n]]

Right(A, nc) == Tuple([i \in DOMAIN A |-> SubSeq(A[i], nc + 1, Len(A[i]))])

Make_Parity(M) == Right(Gauss_Elim(WithIdentity(M.Gen), col_dim(M)), col_dim(M))

\* How to get the secret, and all shares, from the rows of the sequence rs, as
\* many as there are columns.
Make_Recon(M, rs) ==
  LET nc == col_dim(M)
      A == Right(Gauss_Elim(WithIdentity([c \in DOMAIN rs |-> M.Gen[rs[c]]]), nc), nc)
  IN  [S  |-> Tuple([i \in DOMAIN rs |-> SumOf([j \in DOMAIN rs |-> A[j][i]])]),
       SS |-> MulMat(M.Gen, A)]

Sharing(M, k) == MulVec(M.Gen, k)

\* The shares of val, with what the PRNG gives for the other entries of k.
Random_Sharing(M, val, rand) == Sharing(M, <<(val - SumOf(rand)) % Pr>> \o rand)

extract_rows(M, S) == LET rs == RowNumbers(M, S) IN Tuple([c \in DOMAIN rs |-> M.Gen[rs[c]]])

check_qualified(M, S) ==
  LET A == extract_rows(M, S) IN A # <<>> /\ Solvable(Transposed(Append(A, All(col_dim(M), 1))))

\* One step of the search from the empty set through the unqualified sets.
Search(M, T) ==
  LET v == Head(T.queue)
      next == SelectSeq([i \in 1 .. Count(M) |-> v \cup {i}], LAMBDA w : w \notin T.used)
  IN  IF check_qualified(M, v) THEN [T EXCEPT !.queue = Tail(@)]
      ELSE [queue |-> Tail(T.queue) \o next, used |-> T.used \cup ToSet(next), found |-> Append(T.found, v)]
find_all_unqualified(M) ==
  FoldLeft(LAMBDA T, k : IF T.queue = <<>> THEN T ELSE Search(M, T),
           [queue |-> <<{}>>, used |-> {}, found |-> <<>>], [k \in 1 .. 2 ^ Count(M) |-> k]).found

\* The secret from the rows of a qualified set, with zeros for all other rows.
get_full_reconstruct(M, qual) ==
  LET mine(r) == Owner(M, r) \in qual
      A == Right(Gauss_Elim(WithIdentity([r \in DOMAIN M.Gen |-> IF mine(r) THEN M.Gen[r] ELSE Scaled(M.Gen[r], 0)]),
                            col_dim(M)), col_dim(M))
  IN  [r \in DOMAIN M.Gen |-> IF mine(r) THEN SumOf([j \in DOMAIN A |-> A[j][r]]) ELSE 0]

-----------------------------------------------------------------------------
(* Schur_Matrices: how the products of the pairs of shares of each player  *)
(* add up to the product of the secrets.                                   *)

\* The pairs of rows of one player, in the order of the columns of T.
Pairs(M) ==
  LET of(i) == Tuple([e \in 1 .. M.ns[i] * M.ns[i] |-> <<Row(M, i, 1 + (e - 1) \div M.ns[i]), Row(M, i, 1 + ((e - 1) % M.ns[i]))>>])
  IN  FlattenSeq(Tuple([i \in 1 .. Count(M) |-> of(i)]))

tensor(x, y) == FlattenSeq([i \in DOMAIN x |-> Scaled(y, x[i])])

TensorSystem(M) ==
  LET pairs == Pairs(M)
      columns == Tuple([c \in DOMAIN pairs |-> tensor(M.Gen[pairs[c][1]], M.Gen[pairs[c][2]])])
  IN  Transposed(Append(columns, All(col_dim(M) * col_dim(M), 1)))

is_multiplicative(M) == Solvable(TensorSystem(M))

\* Schur[<<r, s>>] is the factor of the product of the shares of rows r and s.
Schur_initialize(M) ==
  LET pairs == Pairs(M)
      z == BackSubst(Reduced(TensorSystem(M)))
  IN  [e \in ToSet(pairs) |-> z[SelectInSeq(pairs, LAMBDA q : q = e)]]

\* make_multiplicative: each row is followed, after the rows of its player, by
\* one made of how the first minimal qualified sets reconstruct.
Extended(M, AS) ==
  LET nc == col_dim(M)
      nnew == Min({Len(AS.gamma_minus), nc})
      te == Tuple([i \in 1 .. nnew |-> get_full_reconstruct(M, AS.gamma_minus[i])])
      first(r) == M.Gen[r] \o All(nnew - 1, M.Gen[r][1])
      second(r) == All(nc, te[1][r]) \o Tuple([i \in 1 .. nnew - 1 |-> te[i + 1][r]])
      block(i) == Tuple([e \in 1 .. 2 * M.ns[i] |-> IF e <= M.ns[i] THEN first(Row(M, i, e)) ELSE second(Row(M, i, e - M.ns[i]))])
  IN  [ns |-> [i \in DOMAIN M.ns |-> 2 * M.ns[i]], Gen |-> FlattenSeq(Tuple([i \in DOMAIN M.ns |-> block(i)]))]

\* NoProgram stands for the exceptions not_Q2 and bad_value.
NoProgram == [ns |-> <<>>, Gen |-> <<>>]
AccessOfProgram(M) == AssignSets(Count(M), find_all_unqualified(M), TRUE)
make_multiplicative(M) ==
  LET checked(E) == IF is_multiplicative(E) THEN E ELSE NoProgram
      made(AS) == CASE ~is_q(AS, 2) -> NoProgram
                    [] is_q(AS, 2) /\ is_multiplicative(M) -> M
                    [] OTHER -> checked(Extended(M, AS))
  IN  made(AccessOfProgram(M))
=============================================================================
