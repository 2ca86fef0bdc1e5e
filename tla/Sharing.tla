-------------------------------- MODULE Sharing --------------------------------
(***************************************************************************)
(* ShareData and Share: what is set up for an access structure, and the    *)
(* local operations on shares.  A row of Gen stands for a player and one   *)
(* of its shares, and RCt[i][j][k] = 1 is a pair of that row and player j. *)
(* Players and rows are numbered from 1.                                   *)
(***************************************************************************)
EXTENDS SpanProgram

-----------------------------------------------------------------------------
(* Which player sends the share of a set to the players in the set.        *)

Unassigned == -1
Null == 0

SetsAssigned(AS, ix) == Cardinality({ix[j] : j \in DOMAIN ix} \cap DOMAIN AS.delta_plus)

\* find_one_assignment gives sets to players, from player i on, and keeps the
\* best map in poss.  When `same' holds both vectors are one object.
Call(ix, i, poss, same) == [ix |-> ix, i |-> i, poss |-> poss, same |-> same]
Assignments == [ix : Seq(Int), i : Nat, poss : Seq(Int), same : BOOLEAN]

find_one_assignment(AS, first) ==
  LET szk == Len(AS.delta_plus)
      found[x \in Assignments] ==
        LET ix == x.ix
            i == x.i
            next == Min({j \in i + 1 .. AS.n : ix[j] # Null} \cup {AS.n + 1})
            previous == Max({j \in 1 .. i - 1 : ix[j] # Null} \cup {0})
            from == IF ix[i] = Unassigned THEN 1 ELSE ix[i]
            free == {y \in from .. szk : i \notin AS.delta_plus[y] /\ \A j \in 1 .. i - 1 : ix[j] # y}
            ix1 == [ix EXCEPT ![i] = Min(free \cup {szk + 1})]
            poss1 == IF x.same THEN ix1 ELSE x.poss
            without == found[Call([ix1 EXCEPT ![i] = Null], next, poss1, FALSE)]
            base == IF x.same THEN without.poss ELSE ix1
            retry == IF previous > 0
                     THEN found[Call([base EXCEPT ![i] = Unassigned, ![previous] = @ + 1], previous, without.poss, FALSE)]
                     ELSE found[Call([base EXCEPT ![i] = Null], next, without.poss, FALSE)]
            no(p) == [ok |-> FALSE, poss |-> p]
        IN  CASE SetsAssigned(AS, ix) = szk -> [ok |-> TRUE, poss |-> ix]
              [] SetsAssigned(AS, ix) < szk /\ i > AS.n ->
                   no(IF SetsAssigned(AS, ix) >= SetsAssigned(AS, x.poss) THEN ix ELSE x.poss)
              [] OTHER ->
                   CASE free # {} -> no(found[Call(ix1, next, poss1, x.same)].poss)
                     [] free = {} /\ i > 1 -> no(IF without.ok THEN without.poss ELSE retry.poss)
                     [] free = {} /\ i = 1 -> no(found[Call([ix1 EXCEPT ![i] = Null], next, poss1, x.same)].poss)
  IN  found[first]

sets_to_parties(AS) ==
  LET none == All(AS.n, Unassigned)
      maps == find_one_assignment(AS, Call(none, 1, none, TRUE)).poss
      given(j) == {i \in DOMAIN maps : maps[i] = j}
  IN  Tuple([j \in DOMAIN AS.delta_plus |-> IF given(j) # {} THEN Max(given(j)) ELSE Min(Players(AS.n) \ AS.delta_plus[j])])

-----------------------------------------------------------------------------
(* Who sends what for the product of the Reduced protocol.                 *)

\* The set, that is the column, of a row of a replicated sharing.
ColumnOf(M, r) == CHOOSE c \in 1 .. col_dim(M) : M.Gen[r][c] = 1
HoldersOf(M, c) == {r \in 1 .. row_dim(M) : M.Gen[r][c] = 1}

\* The player has no set of its own, and uses its first share.
GiveUp(M, d, i) ==
  [d EXCEPT !.proc[Row(M, i, 1)] = 1, !.chans[Row(M, i, 1)] = <<>>, !.maurer = Append(@, i)]

\* What the loop does for player i: the row of its first set is computed and
\* sent to the other holders, those of its other sets come from the PRSS.
Channels(M, owner, d, i) ==
  LET own == SelectSeq(RowNumbers(M, {i}), LAMBDA r : owner[ColumnOf(M, r)] = i)
      others == HoldersOf(M, ColumnOf(M, own[1])) \ {own[1]}
  IN  IF own = <<>> THEN GiveUp(M, d, i)
      ELSE [d EXCEPT !.proc = [r \in DOMAIN @ |-> CASE r = own[1] -> 1 [] r \in others -> 2
                                                     [] r \in ToSet(Tail(own)) -> -1 [] OTHER -> @[r]],
                     !.chans = [r \in DOMAIN @ |-> CASE r = own[1] -> SetToSortSeq({Owner(M, x) : x \in others}, <)
                                                      [] r \in others -> Append(@[r], i) [] OTHER -> @[r]]]

ReducedData(M, owner) ==
  FoldLeft(LAMBDA d, i : Channels(M, owner, d, i),
           [proc |-> All(row_dim(M), 0), chans |-> All(row_dim(M), <<>>), maurer |-> <<>>], [i \in 1 .. Count(M) |-> i])

-----------------------------------------------------------------------------
(* Initialize_*.                                                           *)

ReceivedRows(M, RCt, i) == SelectSeq([r \in 1 .. row_dim(M) |-> r], LAMBDA r : <<r, i>> \in RCt)

\* Initialize_Sub; Make_Recon multiplies matrices that only fit when a player
\* receives as many rows as there are columns.
Initialize_Sub(M, RCt) ==
  IF \E i \in 1 .. Count(M) : Len(ReceivedRows(M, RCt, i)) # col_dim(M) THEN "invalid_length"
  ELSE [RCt |-> RCt, OpenC |-> {<<Owner(M, e[1]), e[2]>> : e \in RCt},
        Recon |-> Tuple([i \in 1 .. Count(M) |-> Make_Recon(M, ReceivedRows(M, RCt, i))]),
        Parity |-> Make_Parity(M), share_of_one |-> Transposed(M.Gen)[1]]

OwnRows(M) == {<<r, Owner(M, r)>> : r \in 1 .. row_dim(M)}

Data(type, Otype, M, AS, RCt, more) ==
  [type |-> type, Otype |-> Otype, M |-> M, AS |-> AS, sub |-> Initialize_Sub(M, RCt),
   Schur |-> Schur_initialize(M), reduced |-> more]

NoReduced == [proc |-> <<>>, chans |-> <<>>, maurer |-> <<>>]

\* Each player sends its share to the t players that follow it.
SetUp_Shamir(n, t) ==
  Data("Shamir", "Maurer", Initialize_Shamir(n, t), AssignThreshold(n, t),
       {<<i, 1 + ((i + d - 1) % n)>> : i \in 1 .. n, d \in 0 .. t}, NoReduced)

SetUp_Full(n) == \* without Schur matrices; everybody sends to everybody
  LET M == Initialize_Full_Threshold(n)
  IN  [type |-> "Full", Otype |-> "SPDZ", M |-> M, AS |-> AssignThreshold(n, n - 1),
       sub |-> Initialize_Sub(M, (1 .. n) \X (1 .. n)), Schur |-> <<>>, reduced |-> NoReduced]

SetUp_Replicated(AS, Otype) ==
  LET sent(M, owner) == {e \in (1 .. row_dim(M)) \X Players(AS.n) :
                           LET c == ColumnOf(M, e[1]) IN owner[c] = Owner(M, e[1]) /\ e[2] \in AS.delta_plus[c]}
      data(M, owner) == Data("Replicated", Otype, M, AS, sent(M, owner) \cup OwnRows(M),
                             IF Otype = "Reduced" THEN ReducedData(M, owner) ELSE NoReduced)
  IN  IF ~is_q(AS, 2) THEN [type |-> "not_Q2"] ELSE data(Initialize_Replicated(AS), sets_to_parties(AS))

\* The rows of the sequence rs, one after the other, that raise the rank of
\* Test; rows are looked at until there are as many as columns.
Augment(M, Test, rs) ==
  FoldLeft(LAMBDA T, r :
             LET nT == Gauss_Elim(Append(T.m, M.Gen[r]), Len(T.m) + 1)
             IN  IF Len(T.m) = col_dim(M) \/ is_zero(Last(nT)) THEN T ELSE [m |-> nT, rows |-> T.rows \cup {r}],
           Test, rs)

\* The rows player j receives: from the smallest minimal qualified set it is
\* in, and if these are too few from the other players.
RowsFor(M, AS, j) ==
  LET shares(S) == SumOf([i \in 1 .. AS.n |-> IF i \in S THEN M.ns[i] ELSE 0])
      better(S, T) == Cardinality(S) < Cardinality(T) \/ (Cardinality(S) = Cardinality(T) /\ shares(S) < shares(T))
      mine == SelectSeq(AS.gamma_minus, LAMBDA S : j \in S)
      best == FoldLeft(LAMBDA T, S : IF better(S, T) THEN S ELSE T, mine[1], mine)
      own == [m |-> extract_rows(M, {j}), rows |-> ToSet(RowNumbers(M, {j}))]
  IN  Augment(M, own, RowNumbers(M, best \ {j}) \o RowNumbers(M, Players(AS.n) \ (best \cup {j}))).rows

SetUp_Q2(MM) ==
  LET data(M, AS) == Data("Q2MSP", "Maurer", M, AS, UNION {RowsFor(M, AS, j) \X {j} : j \in Players(AS.n)}, NoReduced)
      made(M) == IF M = NoProgram THEN [type |-> "not_Q2"] ELSE data(M, AccessOfProgram(M))
  IN  made(make_multiplicative(MM))

\* Setup: what is asked for, with the bounds it keeps.  A share type of
\* NetworkData.txt may later say that the offline phase is faked.
Threshold(n) == (n + 1) \div 2
AccessOf(d) ==
  CASE d.by = "unqualified" -> AssignSets(d.n, d.sets, TRUE)
    [] d.by = "qualified" -> AssignSets(d.n, d.sets, FALSE)
    [] d.by = "threshold" /\ d.t < Threshold(d.n) -> AssignThreshold(d.n, d.t)

init_secret_sharing(d) ==
  LET faked(data) == IF d.fake THEN [data EXCEPT !.Otype = "Fake"] ELSE data
  IN  faked(CASE d.lsss = "Full" -> SetUp_Full(d.n)
              [] d.lsss = "Shamir" /\ d.t < Threshold(d.n) -> SetUp_Shamir(d.n, d.t)
              [] d.lsss = "Replicated" -> SetUp_Replicated(AccessOf(d), d.Otype)
              [] d.lsss = "Q2" -> SetUp_Q2(d.M))

-----------------------------------------------------------------------------
(* Share: the shares and the MACs of one player, a vector each.            *)

Combined(S, T, Op(_, _)) ==
  [a |-> Tuple([k \in DOMAIN S.a |-> Op(S.a[k], T.a[k]) % Pr]), mac |-> Tuple([k \in DOMAIN S.mac |-> Op(S.mac[k], T.mac[k]) % Pr])]

add(S, T) == Combined(S, T, LAMBDA x, y : x + y)
sub(S, T) == Combined(S, T, LAMBDA x, y : x - y)
mul(S, x) == [a |-> Scaled(S.a, x), mac |-> Scaled(S.mac, x)]

\* The share of a constant, which player p adds or subtracts.
assign(SD, p, x, alphai) ==
  [a |-> IF SD.type \in {"Replicated", "Q2MSP"}
         THEN Scaled([k \in 1 .. SD.M.ns[p] |-> SD.sub.share_of_one[Row(SD.M, p, k)]], x)
         ELSE <<IF p = 1 \/ SD.type = "Shamir" THEN x ELSE 0>>,
   mac |-> Scaled(alphai, x)]

\* The part of player p in a vector over all rows.
PartOf(SD, p, v) == Tuple([k \in 1 .. SD.M.ns[p] |-> v[Row(SD.M, p, k)]])

\* What player i gets from the values of the rows it receives.
Reconstructed(SD, i, v) == dot_product(v, SD.sub.Recon[i].S)
=============================================================================
