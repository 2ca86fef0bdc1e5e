------------------------------ MODULE MCOTThread ------------------------------
(* Small instances of OTThread. *)
EXTENDS OTThreadProps

MCDraws(seed, n) ==
  LET x == seed % 251
      y == n % 241
  IN  ((x * x * 7 + 31 * x * y + y * y * y + 5 * y + x + 25) % 257) \div 3

Gate(t, in, out) == [t |-> t, in |-> in, out |-> out]

\* All kinds of gates, two ANDs one after the other, an output for each player.
Deep == [nWires |-> 9, numI |-> <<1, 2>>, numO |-> <<1, 1, 1>>, gates |-> <<
  Gate("XOR", <<1, 2>>, 4), Gate("INV", <<4>>, 5), Gate("AND", <<5, 3>>, 6), Gate("INV", <<6>>, 7),
  Gate("AND", <<1, 3>>, 8), Gate("AND", <<7, 8>>, 9)>>]

\* As OT_Thread has it: two inputs, and one output, of two wires here.
Single == [nWires |-> 6, numI |-> <<1, 1>>, numO |-> <<2>>, gates |-> <<
  Gate("INV", <<1>>, 3), Gate("XOR", <<3, 2>>, 4), Gate("AND", <<2, 4>>, 5), Gate("INV", <<5>>, 6)>>]

MCSizes == <<1, 2>>

\* Player zero provides the first input, player one the second, and the output
\* goes to player two; they are 1, 2 and 3 here.
CallOf(n) == [C |-> Single, i_a |-> <<1, 2>>, o_a |-> <<3>>, times |-> n]

MCCircuits == {[C |-> Deep, i_a |-> <<1, 2>>, o_a |-> <<3, 1, 2>>, times |-> 1], CallOf(2)}
MCOneOutput == {CallOf(1)}
=============================================================================
