---------------------------- MODULE ProductionProps ----------------------------
(***************************************************************************)
(* What the offline data of the secret sharing schemes have to satisfy.    *)
(***************************************************************************)
EXTENDS Production

Subsets(n) == SUBSET Players(n)

\* By definition, of what the monotone closure of the given sets says.
Unqualified(AS, S) == \E k \in DOMAIN AS.delta_plus : S \subseteq AS.delta_plus[k]

\* The maximal unqualified sets are those of the span program, none is part of
\* another, and no two of them have all the players unless it is Full.
AccessRight(S) ==
  LET n == Count(S.M)
      D == S.AS.delta_plus
  IN  /\ D # <<>> => \A T \in Subsets(n) : Unqualified(S.AS, T) <=> ~check_qualified(S.M, T)
      /\ \A k, l \in DOMAIN D : k # l => ~(D[k] \subseteq D[l])
      /\ S.type # "Full" => \A k, l \in DOMAIN D : D[k] \cup D[l] # Players(n)
      /\ \A k \in DOMAIN S.AS.gamma_minus : LET T == S.AS.gamma_minus[k]
                                           IN  check_qualified(S.M, T) /\ \A i \in T : ~check_qualified(S.M, T \ {i})

\* From the rows of RCt every player gets the secret and all the shares, and
\* the parity matrix accepts shares and nothing else.
OpeningRight(S) ==
  LET nc == col_dim(S.M)
      vectors == {Unit(nc, c) : c \in 1 .. nc}
      low(v) == \A r \in nc + 1 .. row_dim(S.M) : dot_product(S.sub.Parity[r], v) = 0
  IN  /\ \A i \in Players(Count(S.M)), k \in vectors :
           LET all == Sharing(S.M, k)
               rs == ReceivedRows(S.M, S.sub.RCt, i)
               seen == Tuple([x \in DOMAIN rs |-> all[rs[x]]])
           IN  Reconstructed(S, i, seen) = 1 /\ MulVec(S.sub.Recon[i].SS, seen) = all
      /\ \A k \in vectors : low(Sharing(S.M, k))
      /\ \A r, q \in 1 .. row_dim(S.M) :
           LET v == Tuple([x \in 1 .. row_dim(S.M) |-> IF x \in {r, q} THEN 1 ELSE 0])
           IN  low(v) <=> Solvable(Transposed(Append(Transposed(S.M.Gen), v)))

\* The local products add up to the product of two sharings.
SchurRight(S) ==
  S.type = "Full" \/
  \A c, d \in 1 .. col_dim(S.M) :
    LET x == Sharing(S.M, Unit(col_dim(S.M), c))
        y == Sharing(S.M, Unit(col_dim(S.M), d))
    IN  FoldSet(LAMBDA e, s : s + S.Schur[e] * x[e[1]] * y[e[2]], 0, DOMAIN S.Schur) % Pr = 1

\* The set-up does not change: it is looked at while nothing has happened.
Untouched == \A i, j \in All_Players : drawn[i] = 0 /\ chan[i][j] = <<>> /\ prss[i].used = 0

\* Whatever access structure is entered, the sets that the shares follow are
\* the ones entered, every player can open what is sent to it, and the local
\* products of the shares add up to the product of the secrets.
SetUpRight == Untouched => AccessRight(SD) /\ OpeningRight(SD) /\ SchurRight(SD)

-----------------------------------------------------------------------------
\* Share n of item p, for all players.
Rows(task, p, n) == FlattenSeq(Tuple([i \in All_Players |-> made[i][task][p][n].a]))
Value(task, p, n) == FromParity(Rows(task, p, n))
Shared(task, p, n) ==
  /\ ParityHolds(Rows(task, p, n))
  /\ \A m \in 1 .. Len(Alpha(1)) :
       SumOf([i \in All_Players |-> made[i][task][p][n].mac[m]]) = (Value(task, p, n) * Key(m)) % Pr

Correct(task, p) ==
  LET v(n) == Value(task, p, n)
  IN  CASE task = "triples" -> v(3) = (v(1) * v(2)) % Pr
        [] task = "squares" -> v(2) = (v(1) * v(1)) % Pr
        [] task = "bits" -> v(1) \in {0, 1}
        [] task = "inputs" -> opened[Receiver] # <<>> => opened[Receiver][p] = v(1)

\* What all players have made is what it should be: the shares belong
\* together, with their MACs, and hold a triple, a square, a bit, or what the
\* receiving player has opened.
AtRest(task) ==
  /\ \A i, j \in All_Players : tasks[i] = tasks[j] /\ Len(made[i][task]) = Len(made[j][task])
  /\ (\A i \in All_Players : pc[i] = "done") \/ (\A i \in All_Players : pc[i] # "done")
ItemsRight ==
  \A task \in {"triples", "squares", "bits", "inputs"} :
    AtRest(task) => \A p \in DOMAIN made[1][task] :
      (\A n \in DOMAIN made[1][task][p] : Shared(task, p, n)) /\ Correct(task, p)

\* No player ends with an exception: commitments open to what was committed,
\* shares have the right parity, and correct items pass the sacrifice.
NobodyAborts == \A i \in All_Players : pc[i] \notin {"invalid_commitment", "receiving_error", "Sacrifice_Check_Error"}

\* A player takes every message for what it was sent as, and none is left when
\* the players are done.
MessagesMatch ==
  /\ \A i, j \in All_Players :
       (chan[j][i] # <<>> /\ pc[i] \notin {"agree", "make", "to_open", "to_tau", "done"} /\ j \in Awaited(i))
         => Head(chan[j][i]).kind = pc[i]
  /\ (\A i \in All_Players : pc[i] = "done") => \A i, j \in All_Players : chan[i][j] = <<>>

\* The players run through without a complaint, though they have agreed on the
\* maximal sets and the columns of the product beforehand and not by message.
RunsThrough == NobodyAborts /\ MessagesMatch

\* "At this point cc[j] holds a valid share for all players": what the players
\* have after a product are shares of one value (mult_inner_subroutine_two).
ValidShareForAll ==
  \A task \in {"triples", "squares"} :
    AtRest(task) => \A p \in DOMAIN made[1][task] : Shared(task, p, Inputs(task) + 1)
=============================================================================
