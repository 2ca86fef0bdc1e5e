------------------------------ MODULE MCProduction ------------------------------
(* Small instances of Production. *)
EXTENDS ProductionProps

MCDraws(s, n) ==
  LET x == s % 11
      y == n % 13
  IN  (x * x + 3 * x * y + y * y * y + 2 * y + 1) % Pr

Entered(lsss, n, t) ==
  [lsss |-> lsss, n |-> n, t |-> t, by |-> "threshold", Otype |-> "Maurer", fake |-> FALSE, fake_sacrifice |-> FALSE]
Sets_Reduced(n, sets) == [Entered("Replicated", n, 0) EXCEPT !.by = "unqualified", !.Otype = "Reduced"] @@ [sets |-> sets]

\* A span program in which a player has two rows, and one that make_multiplicative has to extend.
Q2Program == [ns |-> <<2, 1, 1, 1>>, Gen |-> <<<<1, 0, 0>>, <<0, 1, 0>>, <<1, 0, 1>>, <<0, 1, 1>>, <<1, 6, 1>>>>]
NotMultiplicative ==
  [ns |-> <<2, 2, 2>>, Gen |-> <<<<1, 6, 2, 1>>, <<1, 2, 1, 2>>, <<6, 2, 0, 2>>, <<1, 0, 6, 1>>, <<2, 1, 1, 1>>, <<1, 1, 1, 0>>>>]
Q2(P) == [Entered("Q2", Len(P.ns), 0) EXCEPT !.by = "program"] @@ [M |-> P]

\* With MaxCombinations = 3, structure 6 has too many sets to list.  In 7 a
\* player has no set of its own, in 8 players have more sets than one.
MCStructures == <<
  Entered("Shamir", 3, 1),
  Entered("Replicated", 3, 1),
  [Entered("Replicated", 3, 1) EXCEPT !.Otype = "Reduced"],
  Entered("Full", 3, 0),
  [Entered("Full", 2, 0) EXCEPT !.fake = TRUE],
  Entered("Shamir", 4, 1),
  Sets_Reduced(3, <<{3}, {2}>>),
  Sets_Reduced(5, <<{1, 2}, {1, 3}, {1, 4}, {2, 3}, {2, 4}, {5}>>),
  Q2(Q2Program),
  Q2(NotMultiplicative),
  [Entered("Shamir", 3, 1) EXCEPT !.fake = TRUE, !.fake_sacrifice = TRUE],
  [Entered("Replicated", 4, 0) EXCEPT !.by = "qualified"] @@ [sets |-> <<{1, 2}, {1, 3}, {1, 4}, {2, 3, 4}>>]>>

Kinds == {"triples", "squares", "bits", "inputs"}
MCJobs == [s : {1, 2, 3, 4, 6, 7, 9}, kind : Kinds] \cup [s : {5}, kind : Kinds \ {"inputs"}]
  \cup [s : {11}, kind : {"inputs", "bits"}] \cup [s : {8, 10, 12}, kind : {"triples"}]

\* Four players, one of them without a set of its own.
MCOverwritten == <<Sets_Reduced(4, <<{1, 2}, {3}, {4}>>)>>
MCOverwrittenJobs == [s : {1}, kind : {"triples"}]
=============================================================================
