---------------------------- MODULE AccessStructure ----------------------------
(***************************************************************************)
(* CAS: a monotone access structure of players 1..n, given by some of its  *)
(* sets.  A row of the code's integer matrices is a set of players, and    *)
(* the order of the rows is kept, for columns are numbered after it.       *)
(***************************************************************************)
EXTENDS Integers, SequencesExt, FiniteSetsExt

CONSTANT MaxCombinations  \* the most sets worth listing, 50 in the code

Players(n) == 1 .. n

\* The order in which the recursions over a row meet all sets.
AllSets(n) == [k \in 1 .. 2 ^ n |-> {i \in Players(n) : ((k - 1) \div 2 ^ (i - 1)) % 2 = 1}]

SubsetOf(S, T) == S \subseteq T
SupersetOf(S, T) == T \subseteq S

\* What check_all_sets adds to `given' for the sets below one of its rows; only
\* the first such row is compared.
FirstCover(Covers(_, _), v, rows) == SelectInSeq(rows, LAMBDA r : Covers(v, r))
IsCovered(Covers(_, _), v, rows) == FirstCover(Covers, v, rows) # 0
Found(Covers(_, _), v, rows) == IsCovered(Covers, v, rows) /\ v # rows[FirstCover(Covers, v, rows)]

\* One step of set_delta_plus: d joins the rows D, none of which covers another.
Absorb(Covers(_, _), D, d) ==
  LET k == SelectInSeq(D, LAMBDA e : Covers(e, d) \/ Covers(d, e))
      later == SelectSeq(SubSeq(D, k + 1, Len(D)), LAMBDA e : ~Covers(e, d))
  IN  CASE k = 0 -> Append(D, d)
        [] k # 0 /\ Covers(d, D[k]) -> D
        [] OTHER -> SubSeq(D, 1, k - 1) \o <<d>> \o later

\* set_delta_plus, and with the order turned set_gamma_minus.
Extremes(Covers(_, _), rows) == FoldLeft(LAMBDA D, d : Absorb(Covers, D, d), <<Head(rows)>>, rows)

\* CAS::assign(Sets, unqualified), for sets it does not refuse.
Refuses(n, sets, unqualified) == (IF unqualified THEN Players(n) ELSE {}) \in ToSet(sets)

AssignSets(n, sets, unqualified) ==
  LET delta0 == IF unqualified THEN sets ELSE <<{}>>
      gamma0 == IF unqualified THEN <<Players(n)>> ELSE sets
      neither(v) == ~IsCovered(SubsetOf, v, delta0) /\ ~IsCovered(SupersetOf, v, gamma0)
      delta == delta0 \o SelectSeq(AllSets(n), LAMBDA v : Found(SubsetOf, v, delta0) \/ (neither(v) /\ ~unqualified))
      gamma == gamma0 \o SelectSeq(AllSets(n), LAMBDA v : Found(SupersetOf, v, gamma0) \/ (neither(v) /\ unqualified))
  IN  [n |-> n, delta |-> delta, gamma |-> gamma,
       delta_plus |-> Extremes(SubsetOf, delta), gamma_minus |-> Extremes(SupersetOf, gamma)]

\* The loop starts with n, whatever r.
Combinations(n, r) ==
  LET v[i \in Nat] == IF i < 2 THEN n ELSE (v[i - 1] * (n - i + 1)) \div i IN IF r > n THEN 0 ELSE v[r]

\* CAS::assign(n, t): the sets of t players, unless there are too many.
AssignThreshold(n, t) ==
  [n |-> n, delta |-> <<>>, gamma |-> <<>>, gamma_minus |-> <<>>,
   delta_plus |-> IF Combinations(n, t) > MaxCombinations THEN <<>> ELSE SelectSeq(AllSets(n), LAMBDA v : Cardinality(v) = t)]

\* No l of the maximal unqualified sets have all players.
is_q(AS, l) ==
  l < AS.n /\ \A J \in kSubset(l, DOMAIN AS.delta_plus) : UNION {AS.delta_plus[j] : j \in J} # Players(AS.n)
=============================================================================
