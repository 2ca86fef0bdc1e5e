-------------------------------- MODULE OTThread --------------------------------
(***************************************************************************)
(* OT_Thread of every player: base oblivious transfers, authenticated bits  *)
(* (aBitFactory over COT), authenticated ANDs (HaAND, LaAND, aAND), and a  *)
(* circuit that is garbled and evaluated (GC/Garbled.cpp).                 *)
(*                                                                         *)
(* pc[i] is the routine that player i is in and the messages it exchanges   *)
(* there: it sends its own (Send), waits for those of the others, and goes  *)
(* on with the code that follows.  Nothing in a message says which exchange *)
(* it is for; the field kind is not in the code, and nothing looks at it.  *)
(***************************************************************************)
EXTENDS ABits

CONSTANTS
  Sizes,        \* the values of l that tune tries
  Buckets,      \* B of aAND::make_more
  Circuits,     \* circuits, with the players of inputs and outputs, and how
                \* often the loop of OT_Thread is gone through
  Draws(_, _)   \* the n-th element that a PRNG with some seed returns

VARIABLES circ, chan, pc, sent, turn, fac, back, drawn, val, held, heard, bag, HA, LA, ands, GC, output
vars == <<circ, chan, pc, sent, turn, fac, back, drawn, val, held, heard, bag, HA, LA, ands, GC, output>>

C == circ.C
At(in, at) == [in |-> in, at |-> at]
Draw(seed, n) == Draws(seed, n) % 2^K

\* PRNGs: that of the base choices, G of the factory for each of its uses, P.G.
Delta(i) == Draw(i, 0)   \* Receiver_COT::compute_Delta
\* Nobody's choice bits are all 0, and B, which is 3 for every size, is not 1.
ASSUME OTAssumption == (\A i \in Players : Delta(i) # 0) /\ Buckets \in Nat \ {0, 1}
ForBits(i) == 10 + i
ForRest(i) == 20 + i
ForMasks(i) == 30 + i
ForLabels(i) == 40 + i
PG(i) == 50 + i
Agreed(coin) == 100 + coin

-----------------------------------------------------------------------------
(* Who exchanges with whom.                                                *)

\* In pairs, every other player in turn, twice: first the player with the
\* smaller number sends in Initialize and receives in make_aBits.
Turns == 2 * (N - 1)
Peer(i) == SetToSortSeq(Others(i), <)[((turn[i] - 1) % (N - 1)) + 1]
FirstPass(i) == turn[i] <= N - 1

Sends(i) == IF pc[i].in = "Initialize" THEN FirstPass(i) <=> i < Peer(i) ELSE FirstPass(i) <=> Peer(i) < i

\* The player to whom the wires of Open_aBits_To belong.
Owner(i) == IF pc[i].in = "outputs" THEN circ.o_a[turn[i]] ELSE circ.i_a[turn[i]]

ToPeer(i) == IF Sends(i) THEN {Peer(i)} ELSE {}
FromPeer(i) == IF Sends(i) THEN {} ELSE {Peer(i)}
Targets(i) ==
  CASE pc[i].at = "pk" -> FromPeer(i)
    [] pc[i].at \in {"ots", "cot", "xc"} -> ToPeer(i)
    [] pc[i].at \in {"commit", "open"} /\ pc[i].in = "COT" -> {Peer(i)}
    [] pc[i].at = "default_l" -> IF i = 1 THEN Others(1) ELSE {}
    [] pc[i].at = "to" -> {Owner(i)} \ {i}
    [] OTHER -> Others(i)
Sources(i) ==
  CASE pc[i].at = "pk" -> ToPeer(i)
    [] pc[i].at \in {"ots", "cot", "xc"} -> FromPeer(i)
    [] pc[i].at \in {"commit", "open"} /\ pc[i].in = "COT" -> {Peer(i)}
    [] pc[i].at = "default_l" -> {1} \ {i}
    [] pc[i].at = "to" -> IF Owner(i) = i THEN Others(i) ELSE {}
    [] OTHER -> Others(i)

Local == {"take", "labels", "get_aAND", "tune", "done", "OT_error", "bad_value", "invalid_commitment", "hash_fail", "circuit_eval_error"}
Ready(i, in, at) ==
  /\ pc[i] = At(in, at) /\ sent[i]
  /\ \A j \in Sources(i) : chan[j][i] # <<>>
From(i, j) == Head(chan[j][i]).v

\* The exchange is over: its messages are gone, and the player is at p.
Then(i, p) ==
  /\ chan' = [j \in Players |-> IF j \in Sources(i) THEN [chan[j] EXCEPT ![i] = Tail(@)] ELSE chan[j]]
  /\ sent' = [sent EXCEPT ![i] = FALSE]
  /\ pc' = [pc EXCEPT ![i] = p]
Goto(i, p) == pc' = [pc EXCEPT ![i] = p] /\ UNCHANGED <<chan, sent>>

-----------------------------------------------------------------------------
(* COT: K base transfers between a sender i and a receiver j.              *)

BaseSeeds(i, j) == Tuple([k \in 1 .. K |-> <<1000 + 100 * i + 10 * j + k, 2000 + 100 * i + 10 * j + k>>])
Chosen(j, seeds) == Tuple([k \in 1 .. K |-> seeds[k][get_bit(Delta(j), k - 1) + 1]])

\* Column e of the matrix whose row k is from the PRNG with seeds[k], in
\* iteration n.
Column(seeds, n, e) == OfBits(LAMBDA k : Draw(seeds[k + 1], 64 * n + e) % 2)
Side(seeds, c) == [k \in 1 .. K |-> seeds[k][c]]

OT_Receiver(i) ==
  /\ Ready(i, "Initialize", "pk")
  /\ Then(i, At("Initialize", "ots"))
  /\ UNCHANGED <<circ, turn, fac, back, drawn, val, held, heard, bag, HA, LA, ands, GC, output>>

OT_Sender(i) ==
  /\ Ready(i, "Initialize", "ots")
  /\ fac' = IF Sends(i) THEN [fac EXCEPT ![i].S[Peer(i)] = BaseSeeds(i, Peer(i))]
            ELSE [fac EXCEPT ![i].R[Peer(i)] = Chosen(i, From(i, Peer(i)))]
  /\ turn' = [turn EXCEPT ![i] = IF @ = Turns THEN 1 ELSE @ + 1]
  /\ Then(i, IF turn[i] = Turns THEN At("tune", "tune") ELSE At("Initialize", "pk"))
  /\ UNCHANGED <<circ, back, drawn, val, held, heard, bag, HA, LA, ands, GC, output>>

Bits(i) == fac[i].aBits
xMatrix(i, j) == Tuple([e \in DOMAIN Bits(i) |->
  Plus(IF Bits(i)[e].x = 1 THEN Ones ELSE 0,
       Plus(Column(Side(fac[i].S[j], 1), fac[i].made, e), Column(Side(fac[i].S[j], 2), fac[i].made, e)))])
ttM(i, j, e) == Column(Side(fac[i].S[j], 1), fac[i].made, e)

qqM(i, j, e) == Plus(Column(fac[i].R[j], fac[i].made, e), And(From(i, j)[e], Delta(i)))

next_iteration(i) ==
  /\ Ready(i, "COT", "cot")
  /\ LET j == Peer(i)
     IN  fac' = [fac EXCEPT ![i].aBits = Tuple([e \in DOMAIN @ |->
                   IF Sends(i) THEN [@[e] EXCEPT !.M[j] = ttM(i, j, e)] ELSE [@[e] EXCEPT !.K[j] = qqM(i, j, e)]])]
  /\ val' = [val EXCEPT ![i] = Draw(PG(i), drawn[i])]
  /\ drawn' = [drawn EXCEPT ![i] = @ + 1]
  /\ Then(i, At("COT", "commit"))
  /\ UNCHANGED <<circ, turn, back, held, heard, bag, HA, LA, ands, GC, output>>

-----------------------------------------------------------------------------
(* AgreeRandom and Commit_And_Open: everybody sends a commitment to val[i], *)
(* and then val[i] itself.  Check_Broadcast compares what was broadcast.   *)

\* The broadcasts of one round, in the order of the players.
Heard(i, mine) == Tuple([j \in Players |-> IF j = i THEN mine ELSE From(i, j)])
Hear(i, mine) == heard' = [heard EXCEPT ![i] = Append(@, Heard(i, mine))]

Checked(i) == pc[i].in \in {"aBits", "LaAND"}   \* whether the rounds are part of Check_Broadcast

Commit(i) ==
  /\ pc[i].at = "commit" /\ Ready(i, pc[i].in, "commit")
  /\ held' = [held EXCEPT ![i] = [j \in Sources(i) |-> From(i, j)]]
  /\ IF Checked(i) THEN Hear(i, val[i]) ELSE UNCHANGED heard
  /\ Then(i, At(pc[i].in, "open"))
  /\ UNCHANGED <<circ, turn, fac, back, drawn, val, bag, HA, LA, ands, GC, output>>

Opens(i) == \A j \in Sources(i) : From(i, j) = held[i][j]
Coin(i) == Sum(Sources(i) \cup {i}, LAMBDA j : IF j = i THEN val[i] ELSE From(i, j))

\* Where it goes on, when what was opened has to satisfy ok.
Outcome(i, ok, p) ==
  CASE ~Opens(i) -> At("", "invalid_commitment") [] Opens(i) /\ ~ok -> At("", "OT_error") [] OTHER -> p

\* AgreeRandom in a pair (COT), of all in make_aBits and aAND::make_more.
Agreement(i, in, p) ==
  /\ Ready(i, in, "open")
  /\ val' = [val EXCEPT ![i] = Coin(i)]
  /\ Then(i, Outcome(i, TRUE, p))

-----------------------------------------------------------------------------
(* next_checked_iteration, after the agreement: the sender sends sums of    *)
(* its bits and MACs, the receiver compares with that of its keys.         *)

Chi(coin, e) == Draw(Agreed(coin), e)
SumOver(i, Term(_)) == Sum(DOMAIN Bits(i), LAMBDA e : Mul(Chi(val[i], e), Term(e)))
xc(i) == SumOver(i, LAMBDA e : Bits(i)[e].x)
tc(i) == SumOver(i, LAMBDA e : Bits(i)[e].M[Peer(i)])
qc(i) == SumOver(i, LAMBDA e : Bits(i)[e].K[Peer(i)])

AgreePair(i) ==
  /\ Agreement(i, "COT", At("COT", "xc"))
  /\ UNCHANGED <<circ, turn, fac, back, drawn, held, heard, bag, HA, LA, ands, GC, output>>

EqualityHolds(i) ==
  LET m == From(i, Peer(i)) IN Plus(Mul(m.xc, Delta(i)), Plus(m.tc, qc(i))) = 0

next_checked_iteration(i) ==
  /\ Ready(i, "COT", "xc")
  /\ IF ~Sends(i) /\ ~EqualityHolds(i)
     THEN Then(i, At("", "bad_value")) /\ UNCHANGED <<turn, val, drawn>>
     ELSE /\ turn' = [turn EXCEPT ![i] = IF @ = Turns THEN 1 ELSE @ + 1]
          /\ val' = [val EXCEPT ![i] = IF turn[i] = Turns THEN Draw(PG(i), drawn[i]) ELSE 0]
          /\ drawn' = [drawn EXCEPT ![i] = @ + 1]
          /\ Then(i, IF turn[i] = Turns THEN At("agree", "commit") ELSE At("COT", "cot"))
  /\ UNCHANGED <<circ, fac, back, held, heard, bag, HA, LA, ands, GC, output>>

-----------------------------------------------------------------------------
(* aBitFactory                                                             *)

Factor == 8
Batches == 2   \* how often tune makes 8 * l bits until it has 10 * l

\* make_aBits, up to its first exchange: random bits, K of them for the check.
make_aBits(i, l, from) ==
  /\ fac' = [fac EXCEPT ![i].aBits = Tuple([e \in 1 .. Factor * l + K |-> [ZeroBit EXCEPT !.x = Draw(ForBits(i), 64 * fac[i].made + e) % 2]]),
                        ![i].made = @ + 1, ![i].status = "EMPTY", ![i].tuned = @ + (IF from.in = "tune" THEN 1 ELSE 0)]
  /\ back' = [back EXCEPT ![i] = from]
  /\ Goto(i, At("COT", "cot"))
  /\ UNCHANGED <<circ, turn, drawn, val, held, heard, bag, HA, LA, ands, GC, output>>

\* The combination of all bits that is checked.
CheckBit(i, coin) ==
  LET m == Len(Bits(i)) - K
      factor(e) == IF e <= m THEN Chi(coin, e) ELSE 2^(e - m - 1)
  IN  FoldLeft(AddBits, ZeroBit, Tuple([e \in DOMAIN Bits(i) |-> mult_by(factor(e), Bits(i)[e])]))

AgreeAll(i) ==
  /\ Agreement(i, "agree", At("aBits", "CC"))
  /\ fac' = [fac EXCEPT ![i].C = CheckBit(i, Coin(i))]
  /\ UNCHANGED <<circ, turn, back, drawn, held, heard, bag, HA, LA, ands, GC, output>>

\* Step 4d: the first player's share of the value is the rest.
Rest(i, j) == Draw(ForRest(i), 10 * fac[i].made + j)
CC(i, j) == IF j > 1 THEN Rest(i, j) ELSE Plus(fac[i].C.x, Sum(Others(1), LAMBDA k : Rest(i, k)))

Reshared(i) ==
  /\ Ready(i, "aBits", "CC")
  /\ fac' = [fac EXCEPT ![i].CC = Plus(CC(i, i), Sum(Others(i), LAMBDA j : From(i, j)))]
  /\ Then(i, At("aBits", "total"))
  /\ UNCHANGED <<circ, turn, back, drawn, val, held, heard, bag, HA, LA, ands, GC, output>>

\* The mutant of Zi: the player's own part is not taken off the total.
FaultyZi(i, total) == Plus(Mul(total, Delta(i)), Sum(Others(i), LAMBDA j : fac[i].C.K[j]))

Zi(i, total) == Plus(Mul(Plus(total, fac[i].C.x), Delta(i)), Sum(Others(i), LAMBDA j : fac[i].C.K[j]))

\* Steps 4e and 4f
Totalled(i) ==
  /\ Ready(i, "aBits", "total")
  /\ LET total == Plus(fac[i].CC, Sum(Others(i), LAMBDA j : From(i, j)))
     IN  val' = [val EXCEPT ![i] = [x |-> fac[i].C.x, z |-> [fac[i].C.M EXCEPT ![i] = Zi(i, total)]]]
  /\ Hear(i, fac[i].CC)
  /\ Then(i, At("aBits", "commit"))
  /\ UNCHANGED <<circ, turn, fac, back, drawn, held, bag, HA, LA, ands, GC, output>>

\* Step 4g
BitsCorrect(i) ==
  LET data(j) == IF j = i THEN val[i] ELSE From(i, j)
  IN  /\ Sum(Players, LAMBDA j : data(j).z[i]) = 0
      /\ \A j \in Others(i) : Plus(Mul(data(j).x, Delta(i)), Plus(fac[i].C.K[j], data(j).z[i])) = 0

CheckBits(i) ==
  /\ Ready(i, "aBits", "open")
  /\ Hear(i, val[i])
  /\ Then(i, Outcome(i, BitsCorrect(i), At("aBits", "hash")))
  /\ UNCHANGED <<circ, turn, fac, back, drawn, val, held, bag, HA, LA, ands, GC, output>>

Check_Broadcast(i, in, p) ==
  /\ Ready(i, in, "hash")
  /\ Then(i, IF \A j \in Others(i) : From(i, j) = heard[i] THEN p ELSE At("", "hash_fail"))
  /\ heard' = [heard EXCEPT ![i] = <<>>]

\* The end of make_aBits; tune then throws the bits away.
aBits_made(i) ==
  /\ Check_Broadcast(i, "aBits", back[i])
  /\ fac' = [fac EXCEPT ![i].aBits = SubSeq(@, 1, Len(@) - K), ![i].used = 0,
                        ![i].status = IF back[i].in = "tune" THEN "EMPTY" ELSE "aShares"]
  /\ UNCHANGED <<circ, turn, back, drawn, val, held, bag, HA, LA, ands, GC, output>>

tune(i) ==
  /\ pc[i] = At("tune", "tune") /\ fac[i].tuned < Batches * Len(Sizes)
  /\ make_aBits(i, Sizes[(fac[i].tuned \div Batches) + 1], At("tune", "tune"))

\* The time decides which size a player takes, and the first player for all.
tuned(i) ==
  /\ pc[i] = At("tune", "tune") /\ fac[i].tuned = Batches * Len(Sizes)
  /\ \E l \in ToSet(Sizes) : fac' = [fac EXCEPT ![i].default_l = l]
  /\ Goto(i, At("tune", "default_l"))
  /\ UNCHANGED <<circ, turn, back, drawn, val, held, heard, bag, HA, LA, ands, GC, output>>

take_default_l(i) == IF i = 1 THEN fac[1].default_l ELSE From(i, 1)

default_l(i) ==
  /\ Ready(i, "tune", "default_l")
  /\ fac' = [fac EXCEPT ![i].default_l = take_default_l(i)]
  /\ Then(i, At("Garble", "take"))
  /\ UNCHANGED <<circ, turn, back, drawn, val, held, heard, bag, HA, LA, ands, GC, output>>

\* get_aShare, as often as pc needs it: bag[i] is what it has returned.
L(i) == fac[i].default_l
Wanted(i) ==
  CASE pc[i].in = "HaAND" -> 2 * L(i)
    [] pc[i].in = "LaAND" -> 3 * L(i)
    [] pc[i].in = "Garble" -> num_iWires(C) + Len(AND_Gates(C))
AfterTaking(i) ==
  CASE pc[i].in = "HaAND" -> "h" [] pc[i].in = "LaAND" -> "e" [] pc[i].in = "Garble" -> "labels"
NoneLeft(i) == fac[i].status = "EMPTY" \/ fac[i].used = Len(Bits(i))

get_aShare(i) ==
  /\ pc[i].at = "take" /\ ~NoneLeft(i)
  /\ LET n == Min({Wanted(i) - Len(bag[i]), Len(Bits(i)) - fac[i].used})
     IN  /\ bag' = [bag EXCEPT ![i] = @ \o SubSeq(Bits(i), fac[i].used + 1, fac[i].used + n)]
         /\ fac' = [fac EXCEPT ![i].used = @ + n]
         /\ IF Len(bag[i]) + n = Wanted(i) THEN Goto(i, At(pc[i].in, AfterTaking(i))) ELSE UNCHANGED <<pc, chan, sent>>
  /\ UNCHANGED <<circ, turn, back, drawn, val, held, heard, HA, LA, ands, GC, output>>

get_more(i) == pc[i].at = "take" /\ NoneLeft(i) /\ make_aBits(i, L(i), pc[i])

-----------------------------------------------------------------------------
(* HaAND and LaAND: L shares of x, of y and of z with z = x * y.           *)

X(i, t) == bag[i][2 * t - 1]
Y(i, t) == bag[i][2 * t]
ZOf(i, t) == bag[i][2 * L(i) + t]
ForAll(i, Term(_)) == Tuple([t \in 1 .. L(i) |-> Term(t)])
Parity(S, Term(_)) == FoldSet(LAMBDA j, s : (s + Term(j)) % 2, 0, S)

Hash(a) == Draw(7, a)   \* mmo.hashBlockWise
HKi(i, t, j) == Hash(X(i, t).K[j])
HKiD(i, t, j) == Hash(Plus(X(i, t).K[j], Delta(i)))
HMi(i, t, j) == Hash(X(i, t).M[j])
S(i, t, j) == Draw(ForMasks(i), 100 * drawn[i] + 10 * t + j) % 2

\* For each value of the bit that the other player has in x.
HalfAnd(i, j) == ForAll(i, LAMBDA t : <<(HKi(i, t, j) + S(i, t, j)) % 2, (HKiD(i, t, j) + S(i, t, j) + Y(i, t).x) % 2>>)
V(i, t) == Parity(Others(i), LAMBDA j : From(i, j)[t][X(i, t).x + 1] + HMi(i, t, j) + S(i, t, j))

HaAND_make_more(i) ==
  /\ Ready(i, "HaAND", "h")
  /\ HA' = [HA EXCEPT ![i] = ForAll(i, LAMBDA t : V(i, t))]
  /\ drawn' = [drawn EXCEPT ![i] = @ + 1]
  /\ Then(i, At("LaAND", "take"))
  /\ UNCHANGED <<circ, turn, fac, back, val, held, heard, bag, LA, ands, GC, output>>

Et(i) == ForAll(i, LAMBDA t : (X(i, t).x * Y(i, t).x + HA[i][t] + ZOf(i, t).x) % 2)

\* The mutant of Tweaked: the keys on the bits that others change stay.
FaultyTweaked(i, t) == [ZOf(i, t) EXCEPT !.x = Plus(@, Et(i)[t])]

\* "Tweak the key (XXXX Any bug this is where it is)"
Tweaked(i, t) ==
  [ZOf(i, t) EXCEPT !.x = Plus(@, Et(i)[t]),
                    !.K = Tuple([j \in Players |-> IF j # i /\ From(i, j)[t] = 1 THEN Plus(@[j], Delta(i)) ELSE @[j]])]

LaAND_tweak(i) ==
  /\ Ready(i, "LaAND", "e")
  /\ bag' = [bag EXCEPT ![i] = SubSeq(@, 1, 2 * L(i)) \o ForAll(i, LAMBDA t : Tweaked(i, t))]
  /\ Hear(i, Et(i))
  /\ Then(i, At("LaAND", "U"))
  /\ UNCHANGED <<circ, turn, fac, back, drawn, val, held, HA, LA, ands, GC, output>>

Times(bit, a) == IF bit = 1 THEN a ELSE 0
KeysAndMacs(i, a) == Sum(Others(i), LAMBDA k : Plus(a.K[k], a.M[k]))
Psi(i, t) == Plus(Times(Y(i, t).x, Delta(i)), KeysAndMacs(i, Y(i, t)))
U(i, j) == ForAll(i, LAMBDA t : Plus(Plus(HKiD(i, t, j), HKi(i, t, j)), Psi(i, t)))

\* Steps 5 and 6
Hv(i, t) ==
  LET term(k) == Plus(HKi(i, t, k), Plus(Times(X(i, t).x, From(i, k)[t]), HMi(i, t, k)))
  IN  Plus(Plus(Times(X(i, t).x, Psi(i, t)), Times(ZOf(i, t).x, Delta(i))),
           Plus(Sum(Others(i), term), KeysAndMacs(i, ZOf(i, t))))

LaAND_H(i) ==
  /\ Ready(i, "LaAND", "U")
  /\ val' = [val EXCEPT ![i] = ForAll(i, LAMBDA t : Hv(i, t))]
  /\ Then(i, At("LaAND", "commit"))
  /\ UNCHANGED <<circ, turn, fac, back, drawn, held, heard, bag, HA, LA, ands, GC, output>>

\* Step 7
LaAND_check(i) ==
  /\ Ready(i, "LaAND", "open")
  /\ LET all(t) == Sum(Players, LAMBDA j : IF j = i THEN val[i][t] ELSE From(i, j)[t])
     IN  Then(i, Outcome(i, \A t \in 1 .. L(i) : all(t) = 0, At("LaAND", "hash")))
  /\ Hear(i, val[i])
  /\ UNCHANGED <<circ, turn, fac, back, drawn, val, held, bag, HA, LA, ands, GC, output>>

\* The end of LaAND::make_more, which aAND::make_more calls for every bucket.
LaAND_made(i) ==
  LET last == Len(LA[i]) + 1 = Buckets
  IN  /\ Check_Broadcast(i, "LaAND", IF last THEN At("aAND", "commit") ELSE At("HaAND", "take"))
      /\ LA' = [LA EXCEPT ![i] = Append(@, ForAll(i, LAMBDA t : [x |-> X(i, t), y |-> Y(i, t), z |-> ZOf(i, t)]))]
      /\ HA' = [HA EXCEPT ![i] = <<>>]
      /\ bag' = [bag EXCEPT ![i] = <<>>]
      /\ val' = [val EXCEPT ![i] = IF last THEN Draw(PG(i), drawn[i]) ELSE 0]
      /\ drawn' = [drawn EXCEPT ![i] = @ + 1]
      /\ UNCHANGED <<circ, turn, fac, back, held, ands, GC, output>>

-----------------------------------------------------------------------------
(* aAND                                                                    *)

\* Every entry of the buckets is swapped with one that the agreed PRNG names.
Shuffled(buckets, coin) ==
  LET number == Len(buckets[1])
      swap(bs, p) ==
        LET b == ((p - 1) \div number) + 1
            e == ((p - 1) % number) + 1
            b0 == (Draws(Agreed(coin), 2 * p) % Len(bs)) + 1
            e0 == (Draws(Agreed(coin), 2 * p + 1) % number) + 1
        IN  [bs EXCEPT ![b][e] = bs[b0][e0], ![b0][e0] = bs[b][e]]
  IN  FoldLeft(swap, buckets, [p \in 1 .. Len(buckets) * number |-> p])

aAND_shuffle(i) ==
  /\ Agreement(i, "aAND", At("aAND", "d"))
  /\ LA' = [LA EXCEPT ![i] = Shuffled(@, Coin(i))]
  /\ UNCHANGED <<circ, turn, fac, back, drawn, held, heard, bag, HA, ands, GC, output>>

\* What player i opens in an exchange of Open_aBits.
D(i) == CASE pc[i].in = "aAND" -> Tuple([t \in DOMAIN LA[i][1] |-> AddBits(LA[i][1][t].y, LA[i][2][t].y)])
          [] pc[i].at = "dd" -> Tuple([g \in DOMAIN GC[i].and |-> AddBits(GC[i].and[g].x, GC[i].u[g])])
          [] pc[i].at = "ee" -> Tuple([g \in DOMAIN GC[i].and |-> AddBits(GC[i].and[g].y, GC[i].v[g])])
Openings(bits, j) == Tuple([t \in DOMAIN bits |-> Opening(bits[t], j)])
AllAuthentic(i, bits) == \A j \in Others(i), t \in DOMAIN bits : Authentic(bits[t], j, From(i, j)[t], Delta(i))
Opened(i, bits) == Tuple([t \in DOMAIN bits |-> Parity(Players, LAMBDA j : IF j = i THEN bits[t].x ELSE From(i, j)[t].v)])

\* The mutant of Combined: z is what it is when the sum of the y is 0.
FaultyCombined(a, b, d) == [x |-> AddBits(a.x, b.x), y |-> a.y, z |-> AddBits(a.z, b.z)]

\* Step 3: bucket b is added to bucket a.
Combined(a, b, d) ==
  [x |-> AddBits(a.x, b.x), y |-> a.y, z |-> AddBits(AddBits(a.z, b.z), IF d = 1 THEN b.x ELSE ZeroBit)]

aAND_make_more(i) ==
  /\ Ready(i, "aAND", "d")
  /\ IF ~AllAuthentic(i, D(i)) THEN Then(i, At("", "OT_error")) /\ UNCHANGED <<LA, ands>>
     ELSE LET d == Opened(i, D(i))
              sum == Tuple([t \in DOMAIN d |-> Combined(LA[i][1][t], LA[i][2][t], d[t])])
          IN  IF Len(LA[i]) > 2
              THEN LA' = [LA EXCEPT ![i] = <<sum>> \o SubSeq(@, 3, Len(@))] /\ Then(i, At("aAND", "d")) /\ UNCHANGED ands
              ELSE /\ LA' = [LA EXCEPT ![i] = <<>>]
                   /\ ands' = [ands EXCEPT ![i] = sum]
                   /\ Then(i, At("Mult", "get_aAND"))
  /\ UNCHANGED <<circ, turn, fac, back, drawn, val, held, heard, bag, HA, GC, output>>

\* Mult_aBits: one aAND for each product of u and v.
get_aAND(i) ==
  /\ pc[i] = At("Mult", "get_aAND")
  /\ LET n == Min({Len(GC[i].u) - Len(GC[i].and), Len(ands[i])})
     IN  /\ GC' = [GC EXCEPT ![i].and = @ \o SubSeq(ands[i], 1, n)]
         /\ ands' = [ands EXCEPT ![i] = SubSeq(@, n + 1, Len(@))]
         /\ Goto(i, IF Len(GC[i].and) + n = Len(GC[i].u) THEN At("Mult", "dd") ELSE At("HaAND", "take"))
  /\ UNCHANGED <<circ, turn, fac, back, drawn, val, held, heard, bag, HA, LA, output>>

OpenD(i) ==
  /\ Ready(i, "Mult", "dd")
  /\ val' = [val EXCEPT ![i] = Opened(i, D(i))]
  /\ Then(i, IF AllAuthentic(i, D(i)) THEN At("Mult", "ee") ELSE At("", "OT_error"))
  /\ UNCHANGED <<circ, turn, fac, back, drawn, held, heard, bag, HA, LA, ands, GC, output>>

\* The mutant of Beaver: the product of what was opened is left out.
FaultyBeaver(i, and, d, e) == AddBits(and.z, AddBits(IF d = 1 THEN and.y ELSE ZeroBit, IF e = 1 THEN and.x ELSE ZeroBit))

Beaver(i, and, d, e) ==
  LET z == AddBits(and.z, AddBits(IF d = 1 THEN and.y ELSE ZeroBit, IF e = 1 THEN and.x ELSE ZeroBit))
  IN  IF d = 1 /\ e = 1 THEN negate(i, z, Delta(i)) ELSE z

-----------------------------------------------------------------------------
(* Garbled_Circuit.  GC[i].k holds the label 0 of every wire; label 1 is    *)
(* Delta further.                                                          *)

Label(i, w, bit) == Plus(GC[i].k[w], Times(bit, Delta(i)))
Fresh(i, w) == Draw(ForLabels(i), 100 * GC[i].round + w)

\* Wire 0 stands for one_label.
LabelOut(i, k, g) ==
  LET in == C.gates[g].in
  IN  CASE C.gates[g].t = "XOR" -> Plus(k[in[1]], k[in[2]])
        [] C.gates[g].t = "AND" -> Fresh(i, C.gates[g].out)
        [] C.gates[g].t = "INV" -> Plus(k[in[1]], Fresh(i, 0))

LambdaOut(i, W, g) ==
  LET in == C.gates[g].in
  IN  CASE C.gates[g].t = "XOR" -> AddBits(W[in[1]], W[in[2]])
        [] C.gates[g].t = "AND" -> bag[i][num_iWires(C) + map_to_AND_Gate(C, g)]
        [] C.gates[g].t = "INV" -> W[in[1]]

\* Steps 2 to 5 of Garble
Garble(i) ==
  /\ pc[i] = At("Garble", "labels")
  /\ LET wires == [w \in 1 .. C.nWires |-> w]
         k == ThroughGates(C, Tuple([w \in DOMAIN wires |-> Fresh(i, w)]), LAMBDA W, g : LabelOut(i, W, g))
         lambda == ThroughGates(C, Tuple([w \in DOMAIN wires |-> IF w <= num_iWires(C) THEN bag[i][w] ELSE ZeroBit]),
                                LAMBDA W, g : LambdaOut(i, W, g))
         in(n) == Tuple([a \in DOMAIN AND_Gates(C) |-> lambda[C.gates[AND_Gates(C)[a]].in[n]]])
     IN  GC' = [GC EXCEPT ![i].round = @ + 1, ![i].k = k, ![i].lambda = lambda, ![i].u = in(1), ![i].v = in(2), ![i].and = <<>>,
                          ![i].one = Tuple([j \in Players |-> IF j = i THEN Fresh(i, 0) ELSE 0]),
                          ![i].outputs = <<>>, ![i].inputs = <<>>]
  /\ bag' = [bag EXCEPT ![i] = <<>>]
  /\ output' = [output EXCEPT ![i] = <<>>]
  /\ Goto(i, At("Mult", "get_aAND"))
  /\ UNCHANGED <<circ, turn, fac, back, drawn, val, held, heard, HA, LA, ands>>

apply_PRF(k1, k2, g) ==
  LET key == Plus(Mul(k1, 2), Mul(k2, 4)) IN Tuple([j \in Players |-> Draw(500 + key, 10 * g + j)])

\* Step 6: rho, for the values a and b of the wires that come in.
Rho(i, g, uv, a, b) ==
  LET s(bit) == get_Share_x_Delta_j(i, bit, Delta(i))
  IN  Tuple([j \in Players |-> Plus(Plus(s(uv)[j], Times(a, s(GC[i].v[g])[j])),
                                    Plus(Times(b, s(GC[i].u[g])[j]), IF j = i THEN Times(a * b, Delta(i)) ELSE 0))])

Gab(i, uv) == Tuple([n \in DOMAIN AND_Gates(C) |->
  LET g == C.gates[AND_Gates(C)[n]]
      masked == AddBits(uv[n], GC[i].lambda[g.out])
      row(a, b) == LET prf == apply_PRF(Label(i, g.in[1], a), Label(i, g.in[2], b), n)
                       rho == Rho(i, n, masked, a, b)
                   IN  Tuple([j \in Players |-> Plus(Plus(prf[j], rho[j]), IF j = i THEN GC[i].k[g.out] ELSE 0)])
  IN  <<<<row(0, 0), row(0, 1)>>, <<row(1, 0), row(1, 1)>>>>])

\* The end of Mult_aBits, and step 6
OpenE(i) ==
  /\ Ready(i, "Mult", "ee")
  /\ IF ~AllAuthentic(i, D(i)) THEN Then(i, At("", "OT_error")) /\ UNCHANGED GC
     ELSE LET e == Opened(i, D(i))
              uv == Tuple([n \in DOMAIN e |-> Beaver(i, GC[i].and[n], val[i][n], e[n])])
          IN  GC' = [GC EXCEPT ![i].gab = Gab(i, uv)] /\ Then(i, At("outputs", "to"))
  /\ UNCHANGED <<circ, turn, fac, back, drawn, val, held, heard, bag, HA, LA, ands, output>>

\* Steps 7 and 8: the wires of outputs, then of inputs, are opened to their owners.
WireBits(i) ==
  LET wires == IF pc[i].in = "outputs" THEN OutputWires(C, turn[i]) ELSE InputWires(C, turn[i])
  IN  Tuple([x \in DOMAIN wires |-> GC[i].lambda[wires[x]]])

\* Also the end of Garble, where one_label changes.
Open_aBits_To(i) ==
  /\ pc[i].at = "to" /\ Ready(i, pc[i].in, "to")
  /\ LET dv == IF Owner(i) = i THEN Opened(i, WireBits(i)) ELSE <<>>
         last == turn[i] = Len(IF pc[i].in = "outputs" THEN C.numO ELSE C.numI)
         end == last /\ pc[i].in = "inputs"
     IN  /\ GC' = [GC EXCEPT ![i] = IF pc[i].in = "outputs" THEN [@ EXCEPT !.outputs = Append(@, dv)]
                                    ELSE [@ EXCEPT !.inputs = Append(@, dv), !.one[i] = IF end THEN Plus(@, Delta(i)) ELSE @]]
         /\ turn' = [turn EXCEPT ![i] = IF last THEN 1 ELSE @ + 1]
         /\ Then(i, CASE Owner(i) = i /\ ~AllAuthentic(i, WireBits(i)) -> At("", "OT_error")
                      [] end -> At("Evaluate", "garbling")
                      [] last /\ ~end -> At("inputs", "to")
                      [] OTHER -> pc[i])
  /\ UNCHANGED <<circ, fac, back, drawn, val, held, heard, bag, HA, LA, ands, output>>

InputsOf(i) == {inp \in [DOMAIN C.numI -> UNION {[1 .. C.numI[x] -> {0, 1}] : x \in DOMAIN C.numI} \cup {<<>>}] :
                  \A x \in DOMAIN C.numI : Len(inp[x]) = IF circ.i_a[x] = i THEN C.numI[x] ELSE 0}

\* Then Evaluate is called, with whatever the player puts in.
Open_Garbling(i) ==
  /\ Ready(i, "Evaluate", "garbling")
  /\ LET sum(n, a, b, j) == Sum(Players, LAMBDA l : IF l = i THEN GC[i].gab[n][a][b][j] ELSE From(i, l).gab[n][a][b][j])
         row(n, a, b) == Tuple([j \in Players |-> sum(n, a, b, j)])
         gab == Tuple([n \in DOMAIN GC[i].gab |-> <<<<row(n, 1, 1), row(n, 1, 2)>>, <<row(n, 2, 1), row(n, 2, 2)>>>>])
     IN  \E inp \in InputsOf(i) :
           GC' = [GC EXCEPT ![i].gab = gab, ![i].one = Tuple([j \in Players |-> IF j = i THEN @[i] ELSE From(i, j).one]),
                            ![i].input = Tuple(inp)]
  /\ Then(i, At("Evaluate", "Gamma"))
  /\ UNCHANGED <<circ, turn, fac, back, drawn, val, held, heard, bag, HA, LA, ands, output>>

\* Line 1: the masked inputs of a player, one after the other.
Masked(i) == Tuple([x \in DOMAIN C.numI |->
  Tuple([k \in DOMAIN GC[i].input[x] |-> (GC[i].inputs[x][k] + GC[i].input[x][k]) % 2])])

Evaluate_inputs(i) ==
  /\ Ready(i, "Evaluate", "Gamma")
  /\ LET of(x) == IF circ.i_a[x] = i THEN Masked(i)[x] ELSE From(i, circ.i_a[x])[x]
     IN  GC' = [GC EXCEPT ![i].Gamma = FlattenSeq(Tuple([x \in DOMAIN C.numI |-> of(x)]))]
  /\ Hear(i, Masked(i))
  /\ Then(i, At("Evaluate", "keys"))
  /\ UNCHANGED <<circ, turn, fac, back, drawn, val, held, bag, HA, LA, ands, output>>

Keys(i) == Tuple([w \in DOMAIN GC[i].Gamma |-> Label(i, w, GC[i].Gamma[w])])

\* Line 4: a wire has the value that is seen and the labels of all players.
Unknown == 2
ANDGate(i, n, u, v, out) ==
  LET prf == [l \in Players |-> apply_PRF(u.ok[l], v.ok[l], n)]
      ok == Tuple([j \in Players |-> Plus(GC[i].gab[n][u.Gamma + 1][v.Gamma + 1][j], Sum(Players, LAMBDA l : prf[l][j]))])
  IN  [ok |-> ok, Gamma |-> CASE ok[i] = Label(i, out, 0) -> 0 [] ok[i] = Label(i, out, 1) -> 1 [] OTHER -> Unknown]

Evaluated(i, W, g) ==
  LET in == C.gates[g].in
      u == W[in[1]]
      v == W[in[Len(in)]]
  IN  CASE u.Gamma = Unknown \/ v.Gamma = Unknown -> [u EXCEPT !.Gamma = Unknown]
        [] C.gates[g].t = "XOR" -> [Gamma |-> (u.Gamma + v.Gamma) % 2, ok |-> Tuple([j \in Players |-> Plus(u.ok[j], v.ok[j])])]
        [] C.gates[g].t = "INV" -> [Gamma |-> 1 - u.Gamma, ok |-> Tuple([j \in Players |-> Plus(u.ok[j], GC[i].one[j])])]
        [] C.gates[g].t = "AND" -> ANDGate(i, map_to_AND_Gate(C, g), u, v, C.gates[g].out)

\* Lines 2 to 4
Evaluate(i) ==
  /\ Ready(i, "Evaluate", "keys")
  /\ LET wire(w) == [Gamma |-> IF w <= num_iWires(C) THEN GC[i].Gamma[w] ELSE 0,
                     ok |-> Tuple([j \in Players |-> CASE w > num_iWires(C) -> 0 [] j = i -> Keys(i)[w] [] OTHER -> From(i, j)[w]])]
         W == ThroughGates(C, Tuple([w \in 1 .. C.nWires |-> wire(w)]), LAMBDA Ws, g : Evaluated(i, Ws, g))
         Gamma == Tuple([w \in 1 .. C.nWires |-> W[w].Gamma])
     IN  /\ GC' = [GC EXCEPT ![i].Gamma = Gamma]
         /\ Then(i, IF \E w \in DOMAIN Gamma : Gamma[w] = Unknown THEN At("", "circuit_eval_error") ELSE At("Evaluate", "hash"))
  /\ Hear(i, Keys(i))
  /\ UNCHANGED <<circ, turn, fac, back, drawn, val, held, bag, HA, LA, ands, output>>

\* Line 5: the code goes back from the last wire over the outputs 1 .. nplayers,
\* however many there are; past the end of num_oWires it reads anything.
OutputStarts == IF Len(C.numO) < N THEN 0 .. C.nWires ELSE {C.nWires - TotalOf(C.numO, N)}

Evaluate_outputs(i) ==
  /\ Check_Broadcast(i, "Evaluate", IF GC[i].round = circ.times THEN At("", "done") ELSE At("Garble", "take"))
  /\ \E cnt \in OutputStarts, junk \in {0, 1} :
       LET value(o, k) == LET w == WiresOf(C.numO, o, cnt)[k]
                          IN  (GC[i].outputs[o][k] + (IF w > C.nWires THEN junk ELSE GC[i].Gamma[w])) % 2
       IN  output' = [output EXCEPT ![i] = Tuple([o \in DOMAIN C.numO |->
                        IF circ.o_a[o] = i THEN Tuple([k \in 1 .. C.numO[o] |-> value(o, k)]) ELSE <<>>])]
  /\ UNCHANGED <<circ, turn, fac, back, drawn, val, held, bag, HA, LA, ands, GC>>

-----------------------------------------------------------------------------
(* What is sent in an exchange, to each of Targets(i).                     *)

Message(i, j) ==
  CASE pc[i].at = "pk" -> <<>>
    [] pc[i].at = "ots" -> BaseSeeds(i, j)
    [] pc[i].at = "cot" -> xMatrix(i, j)
    [] pc[i].at \in {"commit", "open"} -> val[i]
    [] pc[i].at = "xc" -> [xc |-> xc(i), tc |-> tc(i)]
    [] pc[i].at = "CC" -> CC(i, j)
    [] pc[i].at = "total" -> fac[i].CC
    [] pc[i].at = "hash" -> heard[i]
    [] pc[i].at = "default_l" -> L(i)
    [] pc[i].at = "h" -> HalfAnd(i, j)
    [] pc[i].at = "e" -> Et(i)
    [] pc[i].at = "U" -> U(i, j)
    [] pc[i].at \in {"d", "dd", "ee"} -> Openings(D(i), j)
    [] pc[i].at = "to" -> Openings(WireBits(i), j)
    [] pc[i].at = "garbling" -> [gab |-> GC[i].gab, one |-> GC[i].one[i]]
    [] pc[i].at = "Gamma" -> Masked(i)
    [] pc[i].at = "keys" -> Keys(i)

Send(i) ==
  /\ pc[i].at \notin Local /\ ~sent[i]
  /\ chan' = [chan EXCEPT ![i] = [j \in Players |-> IF j \in Targets(i) THEN Append(@[j], [kind |-> pc[i], v |-> Message(i, j)]) ELSE @[j]]]
  /\ sent' = [sent EXCEPT ![i] = TRUE]
  /\ UNCHANGED <<circ, pc, turn, fac, back, drawn, val, held, heard, bag, HA, LA, ands, GC, output>>

-----------------------------------------------------------------------------
NoSeeds == [j \in Players |-> <<>>]
Init ==
  /\ circ \in Circuits
  /\ chan = [i \in Players |-> [j \in Players |-> <<>>]]
  /\ pc = [i \in Players |-> At("Initialize", "pk")]
  /\ sent = [i \in Players |-> FALSE]
  /\ turn = [i \in Players |-> 1]
  /\ fac = [i \in Players |-> [S |-> NoSeeds, R |-> NoSeeds, made |-> 0, aBits |-> <<>>, C |-> ZeroBit, CC |-> 0,
                               used |-> 0, status |-> "EMPTY", default_l |-> 8, tuned |-> 0]]
  /\ back = [i \in Players |-> At("", "")]
  /\ drawn = [i \in Players |-> 0]
  /\ val = [i \in Players |-> 0]
  /\ held = [i \in Players |-> <<>>]
  /\ heard = [i \in Players |-> <<>>]
  /\ bag = [i \in Players |-> <<>>]
  /\ HA = [i \in Players |-> <<>>]
  /\ LA = [i \in Players |-> <<>>]
  /\ ands = [i \in Players |-> <<>>]
  /\ GC = [i \in Players |-> [round |-> 0, k |-> <<>>, lambda |-> <<>>, u |-> <<>>, v |-> <<>>, and |-> <<>>, gab |-> <<>>, one |-> <<>>,
                              outputs |-> <<>>, inputs |-> <<>>, input |-> <<>>, Gamma |-> <<>>]]
  /\ output = [i \in Players |-> <<>>]

Step(i) ==
  \/ Send(i)
  \/ OT_Receiver(i) \/ OT_Sender(i)
  \/ next_iteration(i) \/ Commit(i) \/ AgreePair(i) \/ next_checked_iteration(i)
  \/ AgreeAll(i) \/ Reshared(i) \/ Totalled(i) \/ CheckBits(i) \/ aBits_made(i)
  \/ tune(i) \/ tuned(i) \/ default_l(i) \/ get_aShare(i) \/ get_more(i)
  \/ HaAND_make_more(i) \/ LaAND_tweak(i) \/ LaAND_H(i) \/ LaAND_check(i) \/ LaAND_made(i)
  \/ aAND_shuffle(i) \/ aAND_make_more(i) \/ get_aAND(i) \/ OpenD(i) \/ OpenE(i)
  \/ Garble(i) \/ Open_aBits_To(i) \/ Open_Garbling(i)
  \/ Evaluate_inputs(i) \/ Evaluate(i) \/ Evaluate_outputs(i)

Ended == (\A i \in Players : pc[i] = At("", "done")) /\ UNCHANGED vars

Next == (\E i \in Players : Step(i)) \/ Ended

Spec == Init /\ [][Next]_vars
=============================================================================
