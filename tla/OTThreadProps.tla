----------------------------- MODULE OTThreadProps -----------------------------
(***************************************************************************)
(* What the authenticated bits, the ANDs and the garbled circuits of        *)
(* OT_Thread have to satisfy.                                              *)
(***************************************************************************)
EXTENDS OTThread

\* A bit of all players, f[i] being what player i holds: every MAC is the key
\* of the other player, and its Delta more if the part is 1.
Authenticated(f) ==
  \A i, j \in Players : i # j => f[i].M[j] = Plus(f[j].K[i], IF f[i].x = 1 THEN Delta(j) ELSE 0)
ValueOf(f) == Sum(Players, LAMBDA i : f[i].x)

\* The bits, taken or not, the ANDs and the masks that all players have, when they are at the same
\* point, are authenticated (next_checked_iteration, LaAND, aAND, Garble).
Together == \A i, j \in Players : fac[i].made = fac[j].made /\ fac[i].status = "aShares" /\ fac[j].status = "aShares"
SameBags == \A i, j \in Players : pc[i] = pc[j] /\ fac[i].made = fac[j].made /\ Len(bag[i]) = Len(bag[j])
SameAnds == \A i, j \in Players : Len(ands[i]) = Len(ands[j])
SameCircuit == \A i, j \in Players : GC[i].round = GC[j].round /\ Len(GC[i].lambda) = Len(GC[j].lambda)
BitsAuthentic ==
  /\ Together => \A e \in DOMAIN Bits(1) : Authenticated([i \in Players |-> Bits(i)[e]])
  /\ SameBags => \A e \in DOMAIN bag[1] : Authenticated([i \in Players |-> bag[i][e]])
  /\ SameAnds => \A t \in DOMAIN ands[1] :
       /\ Authenticated([i \in Players |-> ands[i][t].x])
       /\ Authenticated([i \in Players |-> ands[i][t].y])
       /\ Authenticated([i \in Players |-> ands[i][t].z])
  /\ SameCircuit => \A w \in DOMAIN GC[1].lambda : Authenticated([i \in Players |-> GC[i].lambda[w]])

\* The ANDs that Mult_aBits gets are ANDs, whichever buckets they are from.
AndsRight ==
  SameAnds => \A t \in DOMAIN ands[1] :
    ValueOf([i \in Players |-> ands[i][t].z]) = ValueOf([i \in Players |-> ands[i][t].x]) * ValueOf([i \in Players |-> ands[i][t].y])

NoChecksFail ==
  \A i \in Players : pc[i].at \notin {"OT_error", "bad_value", "invalid_commitment", "hash_fail", "circuit_eval_error"}
MessagesMatch ==
  \A i, j \in Players :
    (chan[j][i] # <<>> /\ pc[i].at \notin Local /\ j \in Sources(i)) => Head(chan[j][i]).kind = pc[i]

\* While all players follow the protocol none of its checks fails, and a player
\* takes every message for what it was sent as: the passes over the pairs fit
\* together, and all players make bits at the same points (get_aShare, tune).
RunsThrough == NoChecksFail /\ MessagesMatch

\* All players evaluate one garbled circuit, on what each of them put in.
SameEvaluation(i) == \A j \in Players : GC[j].round = GC[i].round /\ GC[j].input # <<>>
Inputs == [x \in DOMAIN C.numI |-> GC[circ.i_a[x]].input[x]]

\* What a player sees of each wire is its value, masked by the bits that the
\* players hold for it: the labels, the rows of the AND gates, for which the
\* ANDs were opened, and the inputs of all players fit together.
WiresRight ==
  \A i \in Players : pc[i] = At("Evaluate", "hash") /\ SameEvaluation(i) =>
    \A w \in 1 .. C.nWires :
      GC[i].Gamma[w] = (WireValues(C, Inputs)[w] + ValueOf([j \in Players |-> GC[j].lambda[w]])) % 2

\* The owner of an output gets what the circuit gives for the inputs, the last
\* wires being those of the outputs (Circuit.h:31).  With fewer outputs than
\* players, as in OT_Thread, the code looks for them at another place.
GarbledRight ==
  \A i \in Players : output[i] # <<>> /\ SameEvaluation(i) =>
    \A o \in DOMAIN C.numO : circ.o_a[o] = i => output[i][o] = evaluate(C, Inputs)[o]
=============================================================================
