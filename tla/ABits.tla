--------------------------------- MODULE ABits ---------------------------------
(***************************************************************************)
(* Authenticated bits (OT/aBit.cpp), in the field of 2^K elements of       *)
(* Math/gf2n.h, and Boolean circuits (GC/Circuit.cpp).  An element of the  *)
(* field is the number whose binary digits are its coefficients.           *)
(***************************************************************************)
EXTENDS Integers, SequencesExt

CONSTANTS N,    \* number of players
          K,    \* OT_comp_sec, the degree of the field
          Reduction \* what x^K is in the field

ASSUME ABitsAssumption == N \in Nat \ {0, 1} /\ K \in Nat \ {0} /\ Reduction \in 0 .. 2^K - 1

Players == 1 .. N
Others(i) == Players \ {i}
Field == 0 .. 2^K - 1
Tuple(f) == <<>> \o f

-----------------------------------------------------------------------------
(* gf2n                                                                    *)

get_bit(a, k) == (a \div 2^k) % 2
OfBits(Digit(_)) == FoldSet(LAMBDA k, s : s + Digit(k) * 2^k, 0, 0 .. K - 1)

\* Tables, so that TLC computes them once; entry a + 1 is that of a.
PlusTable == Tuple([a \in 1 .. 2^K |-> Tuple([b \in 1 .. 2^K |->
  OfBits(LAMBDA k : (get_bit(a - 1, k) + get_bit(b - 1, k)) % 2)])])
Plus(a, b) == PlusTable[a + 1][b + 1]

Sum(S, Term(_)) == FoldSet(LAMBDA j, s : Plus(s, Term(j)), 0, S)

TimesX(a) == IF 2 * a < 2^K THEN 2 * a ELSE Plus(2 * a - 2^K, Reduction)
Shifted(a) == LET s[k \in 0 .. K - 1] == IF k = 0 THEN a ELSE TimesX(s[k - 1]) IN s
MulTable == Tuple([a \in 1 .. 2^K |-> Tuple([b \in 1 .. 2^K |->
  Sum({k \in 0 .. K - 1 : get_bit(b - 1, k) = 1}, LAMBDA k : Shifted(a - 1)[k])])])
Mul(a, b) == MulTable[a + 1][b + 1]

\* The digits of a where b has a one.
And(a, b) == OfBits(LAMBDA k : get_bit(a, k) * get_bit(b, k))
Ones == 2^K - 1

-----------------------------------------------------------------------------
(* aBit: what one player holds of a bit: its part x, MACs on x for the      *)
(* others, and the keys on the parts of the others.                        *)

ZeroBit == [x |-> 0, M |-> Tuple([j \in Players |-> 0]), K |-> Tuple([j \in Players |-> 0])]

AddBits(a, b) ==
  [x |-> Plus(a.x, b.x), M |-> Tuple([j \in Players |-> Plus(a.M[j], b.M[j])]),
   K |-> Tuple([j \in Players |-> Plus(a.K[j], b.K[j])])]

mult_by(y, a) ==
  [x |-> Mul(a.x, y), M |-> Tuple([j \in Players |-> Mul(a.M[j], y)]), K |-> Tuple([j \in Players |-> Mul(a.K[j], y)])]

\* The first player turns its part over, the others what they think of it.
negate(i, a, Delta) == IF i = 1 THEN [a EXCEPT !.x = Plus(@, 1)] ELSE [a EXCEPT !.K[1] = Plus(@, Delta)]

\* Shares of the bit times the Delta of each player.
get_Share_x_Delta_j(i, a, Delta) ==
  [a.M EXCEPT ![i] = Plus(IF a.x = 1 THEN Delta ELSE 0, Sum(Others(i), LAMBDA k : a.K[k]))]

\* Open_aBits: what is sent to player j, and what player i makes of that.
Opening(a, j) == [v |-> a.x, mac |-> a.M[j]]
Authentic(a, j, o, Delta) == Plus(o.mac, IF o.v = 1 THEN Delta ELSE 0) = a.K[j]

-----------------------------------------------------------------------------
(* Circuits: [nWires, numI, numO, gates], a gate being [t, in, out] and the *)
(* wires 1 .. nWires.                                                      *)

TotalOf(ns, k) == LET s[i \in 0 .. k] == IF i = 0 THEN 0 ELSE s[i - 1] + ns[i] IN s[k]
\* The wires of input, or output, i, when they start after wire cnt.
WiresOf(ns, i, cnt) == [k \in 1 .. ns[i] |-> cnt + TotalOf(ns, i - 1) + k]
InputWires(C, i) == WiresOf(C.numI, i, 0)
OutputWires(C, i) == WiresOf(C.numO, i, C.nWires - TotalOf(C.numO, Len(C.numO)))
num_iWires(C) == TotalOf(C.numI, Len(C.numI))

\* map and imap
AND_Gates(C) == SelectSeq([g \in DOMAIN C.gates |-> g], LAMBDA g : C.gates[g].t = "AND")
map_to_AND_Gate(C, g) == CHOOSE a \in DOMAIN AND_Gates(C) : AND_Gates(C)[a] = g

\* Wires get their values in the order of the gates.
ThroughGates(C, W0, Gate(_, _)) ==
  FoldLeft(LAMBDA W, g : [W EXCEPT ![C.gates[g].out] = Gate(W, g)], W0, [g \in DOMAIN C.gates |-> g])

\* The values of all wires, in the clear, and of those of the outputs.
WireValues(C, inputs) ==
  LET loaded == FlattenSeq(inputs) \o Tuple([w \in 1 .. C.nWires - num_iWires(C) |-> 0])
      gate(W, g) == LET in == C.gates[g].in
                    IN  CASE C.gates[g].t = "AND" -> W[in[1]] * W[in[2]]
                          [] C.gates[g].t = "XOR" -> (W[in[1]] + W[in[2]]) % 2
                          [] C.gates[g].t = "INV" -> 1 - W[in[1]]
  IN  ThroughGates(C, loaded, gate)

evaluate(C, inputs) ==
  LET W == WireValues(C, inputs)
  IN  Tuple([o \in DOMAIN C.numO |-> Tuple([k \in 1 .. C.numO[o] |-> W[OutputWires(C, o)[k]]])])
=============================================================================
