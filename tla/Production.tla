------------------------------- MODULE Production -------------------------------
(***************************************************************************)
(* What the players of one offline thread do: PRSS and PRZS agree on seeds, *)
(* offline_phase_* makes items by the protocol of the access structure,    *)
(* and sacrifice_* compares them.  A player that waits has the name of the *)
(* message it waits for in pc; the messages themselves carry no name in    *)
(* the code, and one that comes in place of another is taken for it.       *)
(***************************************************************************)
EXTENDS Sharing

CONSTANTS
  Structures,  \* what is asked of init_secret_sharing
  Jobs,        \* the pairs [s, kind] of a structure and what is made for it
  Amortize,    \* items made together, amortize and phi_m
  BatchSize,   \* shares PRSS::batch_production makes together
  Receiver,    \* player_num of make_IO_data
  Coin,        \* what Create_Random returns in sacrifice
  Macs,        \* nmacs
  Draws(_, _)  \* the n-th element that a PRNG with some seed returns

VARIABLES job, pc, step, chan, drawn, prss, przs, got, work, held, tasks, made, opened
vars == <<job, pc, step, chan, drawn, prss, przs, got, work, held, tasks, made, opened>>

SD == job.SD
M == SD.M
N == Count(M)
All_Players == Players(N)
Others(i) == All_Players \ {i}
Items == 1 .. Amortize
NoOutput == <<>>

\* Three PRNGs of a player: P.G, the one of its key file, and the one that
\* stands for the randomness inside encryption.
PG(i) == 100 + i
KeyFile(i) == 200 + i
Industry(i) == 300 + i

Alpha(i) == Tuple([m \in 1 .. IF SD.type = "Full" THEN Macs ELSE 0 |-> Draws(KeyFile(i), m)])
Key(m) == SumOf([i \in All_Players |-> Draws(KeyFile(i), m)])

-----------------------------------------------------------------------------
(* Messages: player i takes one from each of a set of players, and sends   *)
(* what the function out says.                                             *)

Exchange(i, from, kind, out) ==
  chan' = [a \in All_Players |-> [b \in All_Players |->
             CASE b = i /\ a \in from -> Tail(chan[a][b])
               [] a = i /\ b \in DOMAIN out -> Append(chan[a][b], [kind |-> kind, v |-> out[b]])
               [] OTHER -> chan[a][b]]]

Arrived(i, from) == \A j \in from : chan[j][i] # <<>> /\ Head(chan[j][i]).kind = pc[i]
From(i, j) == Head(chan[j][i]).v

-----------------------------------------------------------------------------
(* PRSS and PRZS.  Steps 1 to Sets are for the complements of the maximal  *)
(* unqualified sets, the next N of a Reduced structure for the pairs.      *)

Large == SD.type = "Shamir" /\ SD.AS.delta_plus = <<>>
Sets == IF SD.type = "Full" THEN 0 ELSE Len(SD.AS.delta_plus)
Steps == IF SD.Otype = "Reduced" THEN Sets + N ELSE Sets
InSet(i, c) == i \notin SD.AS.delta_plus[c]
TakesPart(i, s) == IF s <= Sets THEN InSet(i, s) ELSE s - Sets # i
NextStep(i, s) == Min({x \in s .. Steps : TakesPart(i, x)} \cup {Steps + 1})
\* When the constructors have returned, items are made.
AfterStep(i, s) == IF NextStep(i, s) > Steps THEN "make" ELSE "agree"
Peers(i) == IF step[i] <= Sets THEN (All_Players \ SD.AS.delta_plus[step[i]]) \ {i} ELSE {step[i] - Sets}

\* AgreeRandom and the loop of PRZS: commitments are sent, then openings.
Contribution(i) == Draws(PG(i), drawn[i])

Commit(i) ==
  /\ pc[i] = "agree"
  /\ Exchange(i, {}, "commit", [j \in Peers(i) |-> Contribution(i)])
  /\ pc' = [pc EXCEPT ![i] = "commit"]
  /\ UNCHANGED <<job, step, drawn, prss, przs, got, work, held, tasks, made, opened>>

Open(i) ==
  /\ pc[i] = "commit" /\ Arrived(i, Peers(i))
  /\ Exchange(i, Peers(i), "open", [j \in Peers(i) |-> Contribution(i)])
  /\ held' = [held EXCEPT ![i] = [j \in Peers(i) |-> From(i, j)]]
  /\ pc' = [pc EXCEPT ![i] = "open"]
  /\ UNCHANGED <<job, step, drawn, prss, przs, got, work, tasks, made, opened>>

\* The mutant of AgreedSeed: the player's own part is left out.
FaultyAgreedSeed(i) == FoldSet(LAMBDA j, s : s + From(i, j), 0, Peers(i)) % Pr

AgreedSeed(i) == (Contribution(i) + FoldSet(LAMBDA j, s : s + From(i, j), 0, Peers(i))) % Pr

PairSeeds(i) == [mine |-> Contribution(i), theirs |-> From(i, CHOOSE j \in Peers(i) : TRUE)]

Seeded(i) ==
  /\ pc[i] = "open" /\ Arrived(i, Peers(i))
  /\ Exchange(i, Peers(i), "", NoOutput)
  /\ IF \E j \in Peers(i) : From(i, j) # held[i][j]
     THEN pc' = [pc EXCEPT ![i] = "invalid_commitment"] /\ UNCHANGED <<prss, przs>>
     ELSE /\ IF step[i] <= Sets
             THEN prss' = [prss EXCEPT ![i].seed[step[i]] = AgreedSeed(i)] /\ UNCHANGED przs
             ELSE przs' = [przs EXCEPT ![i].seeds[step[i] - Sets] = PairSeeds(i)] /\ UNCHANGED prss
          /\ pc' = [pc EXCEPT ![i] = AfterStep(i, step[i] + 1)]
  /\ drawn' = [drawn EXCEPT ![i] = @ + 1]
  /\ step' = [step EXCEPT ![i] = NextStep(i, @ + 1)]
  /\ held' = [held EXCEPT ![i] = <<>>]
  /\ UNCHANGED <<job, got, work, tasks, made, opened>>

\* MSP_SetUp: a sharing of one in which the players of a set have zeros.
MSP_SetUp(S, c) ==
  LET zero == extract_rows(S.M, S.AS.delta_plus[c])
      rows == Tuple([r \in DOMAIN zero |-> Append(zero[r], 0)])
  IN  Sharing(S.M, BackSubst(Reduced(Append(rows, All(col_dim(S.M) + 1, 1)))))

Shares_Of_One(S) ==
  IF S.type \in {"Shamir", "Q2MSP"} THEN Tuple([c \in DOMAIN S.AS.delta_plus |-> MSP_SetUp(S, c)]) ELSE <<>>

\* ReplicatedSetUp: the PRNG of share k of player i is that of its column.
ReplicatedSetUp(i, k) == prss[i].seed[ColumnOf(M, Row(M, i, k))]

\* next_share, the n-th time, when no batch has to be made first.
next_share(i, n) ==
  CASE SD.type = "Replicated" -> [k \in 1 .. M.ns[i] |-> Draws(ReplicatedSetUp(i, k), n)]
    [] SD.type # "Replicated" /\ ~Large ->
         LET term(c) == Scaled(PartOf(SD, i, job.Shares_Of_One[c]), Draws(prss[i].seed[c], n))
         IN  [k \in 1 .. M.ns[i] |-> SumOf([c \in 1 .. Sets |-> IF InSet(i, c) THEN term(c)[k] ELSE 0])]
    [] Large -> prss[i].batch[n + 1]

NextShareFrom(p, n) == [p EXCEPT !.used = @ + n]

\* PRZS::next_share
Zero_next_share(i, n) ==
  FoldSet(LAMBDA j, s : s + Draws(przs[i].seeds[j].mine, n) - Draws(przs[i].seeds[j].theirs, n), 0, Others(i)) % Pr

-----------------------------------------------------------------------------
(* Making items: which shares an item needs, and what is computed of them. *)

Task(i) == Head(tasks[i])
Making(i) == pc[i] = "make" /\ tasks[i] # <<>>
FakeSacrifice == job.fake_sacrifice
Protocol(i) == \* make_IO_data looks at fake_sacrifice, the other offline phases at Otype
  CASE Task(i) # "inputs" -> SD.Otype
    [] Task(i) = "inputs" /\ FakeSacrifice -> "Fake"
    [] Task(i) = "inputs" /\ ~FakeSacrifice -> IF SD.type = "Full" THEN "SPDZ" ELSE "PRSS"
BySharing(i) == Making(i) /\ Protocol(i) \in {"Maurer", "Reduced", "PRSS"}
Inputs(task) == IF task = "triples" THEN 2 ELSE 1

\* Init_Configure
IsMaurer(i) == SD.Otype = "Maurer" \/ i \in ToSet(SD.reduced.maurer)
Proc(i, k) == SD.reduced.proc[Row(M, i, k)]
Pos(i) == Max({k \in 1 .. M.ns[i] : Proc(i, k) = 1})
NeedPrss == SD.Otype = "Reduced" /\ \E r \in DOMAIN SD.reduced.proc : SD.reduced.proc[r] <= 0

Needed(i) == Inputs(Task(i)) + (IF NeedPrss /\ Task(i) # "inputs" THEN 1 ELSE 0)

Unchanged == <<job, step, tasks, made, opened>>

\* The shares an item still needs, as far as a batch has them.
Available(i) ==
  LET missing == Needed(i) - Len(got[i]) IN IF Large THEN Min({missing, BatchSize - prss[i].used}) ELSE missing

NextShares(i) ==
  /\ BySharing(i) /\ Len(work[i]) < Amortize /\ Available(i) > 0
  /\ got' = [got EXCEPT ![i] = @ \o Tuple([n \in 1 .. Available(i) |-> Tuple(next_share(i, prss[i].used + n - 1))])]
  /\ prss' = [prss EXCEPT ![i] = NextShareFrom(@, Available(i))]
  /\ UNCHANGED <<pc, chan, drawn, przs, work, held, Unchanged>>

\* The rows of a sharing of val, made with the PRNG of player i from place n.
make_shares(i, val, n) ==
  Random_Sharing(M, val, Tuple([e \in 1 .. col_dim(M) - 1 |-> Draws(PG(i), n + e)]))

\* batch_production: everyone shares BatchSize values, and the shares are added.
BatchRows(i, e) == LET n == drawn[i] + e * col_dim(M) IN make_shares(i, Draws(PG(i), n), n)

batch_begin(i) ==
  /\ BySharing(i) /\ Large /\ prss[i].used = BatchSize /\ Len(got[i]) < Needed(i) /\ Len(work[i]) < Amortize
  /\ LET rows == Tuple([e \in 1 .. BatchSize |-> BatchRows(i, e)])
     IN  /\ Exchange(i, {}, "batch", [j \in Others(i) |-> Tuple([e \in 1 .. BatchSize |-> PartOf(SD, j, rows[e])])])
         /\ held' = [held EXCEPT ![i] = Tuple([e \in 1 .. BatchSize |-> PartOf(SD, i, rows[e])])]
  /\ drawn' = [drawn EXCEPT ![i] = @ + (BatchSize + 1) * col_dim(M)]
  /\ pc' = [pc EXCEPT ![i] = "batch"]
  /\ UNCHANGED <<prss, przs, got, work, Unchanged>>

batch_end(i) ==
  /\ pc[i] = "batch" /\ Arrived(i, Others(i))
  /\ Exchange(i, Others(i), "", NoOutput)
  /\ LET total(e, k) == (held[i][e][k] + FoldSet(LAMBDA j, s : s + From(i, j)[e][k], 0, Others(i))) % Pr
         batch == Tuple([e \in 1 .. BatchSize |-> Tuple([k \in 1 .. M.ns[i] |-> total(e, k)])])
     IN  prss' = [prss EXCEPT ![i].batch = batch, ![i].used = 0]
  /\ held' = [held EXCEPT ![i] = <<>>]
  /\ pc' = [pc EXCEPT ![i] = "make"]
  /\ UNCHANGED <<drawn, przs, got, work, Unchanged>>

schur_sum_prod(i, x, y) ==
  SumOf(Tuple([k \in 1 .. M.ns[i] |-> SumOf([l \in 1 .. M.ns[i] |->
          SD.Schur[<<Row(M, i, k), Row(M, i, l)>>] * x[k] * y[l]])]))

\* mult_inner_subroutine_one: the part of the product that is known here, the
\* rows that are sent as Maurer does, and the value that is sent otherwise.
Maurer_one(i, x, y) ==
  [in |-> got[i], cc |-> All(M.ns[i], 0), rows |-> make_shares(i, schur_sum_prod(i, x, y), drawn[i]), val |-> 0]

\* Shares of other sets of this player come from the PRSS, less from the product.
Masked(i, prod, dd) == (prod - SumOf([k \in 1 .. M.ns[i] |-> IF Proc(i, k) = -1 THEN dd[k] ELSE 0])) % Pr

Reduced_one(i, x, y) ==
  LET dd == Last(got[i])
      zeroed == (schur_sum_prod(i, x, y) + Zero_next_share(i, przs[i].used)) % Pr
      prod == IF NeedPrss THEN Masked(i, zeroed, dd) ELSE zeroed
      known(k) == CASE ~IsMaurer(i) /\ k = Pos(i) -> prod [] NeedPrss /\ Proc(i, k) <= 0 -> dd[k] [] OTHER -> 0
  IN  [in |-> got[i], cc |-> Tuple([k \in 1 .. M.ns[i] |-> known(k)]),
       rows |-> IF IsMaurer(i) THEN make_shares(i, prod, drawn[i]) ELSE <<>>, val |-> prod]

mult_inner_one(i) ==
  /\ BySharing(i) /\ Task(i) # "inputs" /\ Len(got[i]) = Needed(i)
  /\ LET y == got[i][Inputs(Task(i))]
         item == IF SD.Otype = "Maurer" THEN Maurer_one(i, got[i][1], y) ELSE Reduced_one(i, got[i][1], y)
     IN  work' = [work EXCEPT ![i] = Append(@, item)]
  /\ drawn' = [drawn EXCEPT ![i] = IF IsMaurer(i) THEN @ + col_dim(M) ELSE @]
  /\ przs' = [przs EXCEPT ![i].used = @ + 1]
  /\ got' = [got EXCEPT ![i] = <<>>]
  /\ UNCHANGED <<pc, chan, prss, held, Unchanged>>

\* The mutant of Specific: the value is sent to one player too many.
FaultySpecific(i) == ToSet(SD.reduced.chans[Row(M, i, Pos(i))]) \cup {IF i = N THEN 1 ELSE i + 1}

Specific(i) == ToSet(SD.reduced.chans[Row(M, i, Pos(i))])

mult_inner_send(i) ==
  /\ BySharing(i) /\ Task(i) # "inputs" /\ Len(work[i]) = Amortize
  /\ LET part(j) == Tuple([e \in Items |-> PartOf(SD, j, work[i][e].rows)])
     IN  Exchange(i, {}, "product", IF IsMaurer(i) THEN [j \in Others(i) |-> part(j)]
                                    ELSE [j \in Specific(i) |-> Tuple([e \in Items |-> work[i][e].val])])
  /\ pc' = [pc EXCEPT ![i] = "product"]
  /\ UNCHANGED <<drawn, prss, przs, got, work, held, Unchanged>>

\* mult_inner_subroutine_two: first the shares that others compute for this
\* player, then the shares of those who do as Maurer.
MaurerPlayers == {j \in All_Players : IsMaurer(j)}
Received(i) == IF SD.Otype = "Maurer" THEN {} ELSE {k \in 1 .. M.ns[i] : Proc(i, k) = 2}

SenderOf(i, k) == SD.reduced.chans[Row(M, i, k)][1]
Senders(i) == {SenderOf(i, k) : k \in Received(i)} \cup (MaurerPlayers \ {i})

Product(i, e) ==
  LET mine == PartOf(SD, i, work[i][e].rows)
      first(k) == IF k \in Received(i) THEN From(i, SenderOf(i, k))[e] ELSE work[i][e].cc[k]
      maurer(j, k) == IF j = i THEN mine[k] ELSE From(i, j)[e][k]
  IN  Tuple([k \in 1 .. M.ns[i] |-> FoldSet(LAMBDA j, s : s + maurer(j, k), first(k), MaurerPlayers) % Pr])

\* A share without a MAC, and the tuple of shares that one item is.
Plain(v) == [a |-> v, mac |-> <<>>]
ItemOf(i, e) == Tuple([n \in 1 .. Inputs(Task(i)) |-> Plain(work[i][e].in[n])]) \o <<Plain(Product(i, e))>>

Finish(i, items) ==
  /\ made' = [made EXCEPT ![i][Task(i)] = @ \o items]
  /\ tasks' = [tasks EXCEPT ![i] = Tail(@)]
  /\ work' = [work EXCEPT ![i] = <<>>]

\* Bits go on from the squares, which work then holds.
mult_inner_two(i) ==
  /\ pc[i] = "product" /\ Arrived(i, Senders(i))
  /\ Exchange(i, Senders(i), "", NoOutput)
  /\ LET items == Tuple([e \in Items |-> ItemOf(i, e)])
     IN  IF Task(i) = "bits" THEN work' = [work EXCEPT ![i] = items] /\ UNCHANGED <<tasks, made>>
         ELSE Finish(i, items)
  /\ pc' = [pc EXCEPT ![i] = IF Task(i) = "bits" THEN "to_open" ELSE "make"]
  /\ UNCHANGED <<job, step, drawn, prss, przs, got, held, opened>>

-----------------------------------------------------------------------------
(* Opening, as Open_Protocol does: the rows of RCt go to who needs them.   *)

RowsTo(i, j) == SelectSeq(ReceivedRows(M, SD.sub.RCt, j), LAMBDA r : Owner(M, r) = i)
Targets(i) == {j \in Others(i) : <<i, j>> \in SD.sub.OpenC}
Openers(i) == {j \in Others(i) : <<j, i>> \in SD.sub.OpenC}
RowsSent(i, j, shares) ==
  Tuple([e \in DOMAIN shares |-> Tuple([x \in DOMAIN RowsTo(i, j) |-> shares[e].a[RowsTo(i, j)[x] - FirstRow(M, i) + 1]])])

Open_To_All_Begin(i, kind, shares) ==
  /\ Exchange(i, {}, kind, [j \in Targets(i) |-> RowsSent(i, j, shares)])
  /\ pc' = [pc EXCEPT ![i] = kind]

Values(i, shares) ==
  LET rs == ReceivedRows(M, SD.sub.RCt, i)
      value(e, r) == LET j == Owner(M, r)
                     IN  IF j = i THEN shares[e].a[r - FirstRow(M, i) + 1]
                         ELSE From(i, j)[e][SelectInSeq(RowsTo(j, i), LAMBDA x : x = r)]
  IN  Tuple([e \in DOMAIN shares |-> Reconstructed(SD, i, [x \in DOMAIN rs |-> value(e, rs[x])])])

sqrRoot(x) == CHOOSE y \in Z : (y * y) % Pr = x

\* (a / sqrt(a2) + 1) / 2
BitOf(i, a, a2) == mul(add(mul(a, invert(sqrRoot(a2))), assign(SD, i, 1, Alpha(i))), invert(2))

bits_open(i) ==
  /\ pc[i] = "to_open"
  /\ Open_To_All_Begin(i, "a2", Tuple([e \in Items |-> work[i][e][2]]))
  /\ UNCHANGED <<drawn, prss, przs, got, work, held, Unchanged>>

Maurer_bits(i) ==
  /\ pc[i] = "a2" /\ Arrived(i, Openers(i))
  /\ Exchange(i, Openers(i), "", NoOutput)
  /\ LET a2 == Values(i, Tuple([e \in Items |-> work[i][e][2]]))
         kept == SelectSeq([e \in Items |-> e], LAMBDA e : a2[e] # 0)
     IN  Finish(i, Tuple([x \in DOMAIN kept |-> <<BitOf(i, work[i][kept[x]][1], a2[kept[x]])>>]))
  /\ pc' = [pc EXCEPT ![i] = "make"]
  /\ UNCHANGED <<job, step, drawn, prss, przs, got, held, opened>>

-----------------------------------------------------------------------------
(* make_IO_data: shares that only the player Receiver opens.               *)

collect_input(i) ==
  /\ BySharing(i) /\ Task(i) = "inputs" /\ Len(got[i]) = 1
  /\ work' = [work EXCEPT ![i] = Append(@, <<Plain(got[i][1])>>)]
  /\ got' = [got EXCEPT ![i] = <<>>]
  /\ UNCHANGED <<pc, chan, drawn, prss, przs, held, Unchanged>>

Open_To_One(i, shares) ==
  IF i = Receiver THEN UNCHANGED chan
  ELSE Exchange(i, {}, "one", [j \in {Receiver} |-> Tuple([e \in DOMAIN shares |-> shares[e].a])])

make_IO_data_non_Full(i) ==
  /\ BySharing(i) /\ Task(i) = "inputs" /\ Len(work[i]) = Amortize
  /\ Open_To_One(i, Tuple([e \in Items |-> work[i][e][1]]))
  /\ Finish(i, work[i])
  /\ pc' = [pc EXCEPT ![i] = IF i = Receiver THEN "one" ELSE "make"]
  /\ UNCHANGED <<job, step, drawn, prss, przs, got, held, opened>>

\* Open_To_One_End: the shares of all players are checked and put together.
AllShares(i, e, mine) == FlattenSeq(Tuple([j \in All_Players |-> IF j = i THEN mine ELSE From(i, j)[e]]))
ParityHolds(v) == \A r \in col_dim(M) + 1 .. row_dim(M) : dot_product(SD.sub.Parity[r], v) = 0
FromParity(v) == SumOf([r \in 1 .. col_dim(M) |-> dot_product(SD.sub.Parity[r], v)])

Open_To_One_End(i) ==
  /\ pc[i] = "one" /\ Arrived(i, Others(i))
  /\ Exchange(i, Others(i), "", NoOutput)
  /\ LET all == Tuple([e \in DOMAIN made[i].inputs |-> AllShares(i, e, made[i].inputs[e][1].a)])
     IN  IF \A e \in DOMAIN all : ParityHolds(all[e])
         THEN /\ opened' = [opened EXCEPT ![i] = Tuple([e \in DOMAIN all |-> FromParity(all[e])])]
              /\ pc' = [pc EXCEPT ![i] = "make"]
         ELSE pc' = [pc EXCEPT ![i] = "receiving_error"] /\ UNCHANGED opened
  /\ UNCHANGED <<job, step, drawn, prss, przs, got, work, held, tasks, made>>

\* From whom player i waits for a message.
Awaited(i) ==
  CASE pc[i] \in {"commit", "open"} -> Peers(i)
    [] pc[i] \in {"batch", "one", "decrypt", "mac"} -> Others(i)
    [] pc[i] = "product" -> Senders(i)
    [] pc[i] \in {"a2", "po", "tau"} -> Openers(i)
    [] pc[i] = "deal" -> {1}
    [] OTHER -> {}

-----------------------------------------------------------------------------
(* The fake offline phase: the first player makes everything.              *)

Product2(x, y) == (x * y) % Pr
FakeValues(e) ==
  LET x == Draws(PG(1), 3 * e)
      y == Draws(PG(1), 3 * e + 1)
  IN  CASE Task(1) = "triples" -> <<x, y, Product2(x, y)>> [] Task(1) = "squares" -> <<x, Product2(x, x)>>
        [] Task(1) = "bits" -> <<x % 2>> [] Task(1) = "inputs" -> <<x>>

\* make_fake_macs and the sharing of the MACs, for the n-th value dealt.
MacShare(j, x, n) == Tuple([m \in 1 .. Len(Alpha(j)) |->
  LET rest(l) == Draws(PG(1), 1000 * n + 10 * m + l)
  IN  IF j > 1 THEN rest(j) ELSE (x * Key(m) - FoldSet(LAMBDA l, s : s + rest(l), 0, Others(1))) % Pr])

Dealt(j, e) ==
  LET v == FakeValues(e)
  IN  Tuple([n \in DOMAIN v |-> [a |-> PartOf(SD, j, make_shares(1, v[n], 100 * e + n)), mac |-> MacShare(j, v[n], 10 * e + n)]])

fake_deal ==
  /\ Making(1) /\ Protocol(1) = "Fake"
  /\ Exchange(1, {}, "deal", [j \in Others(1) |-> Tuple([e \in Items |-> Dealt(j, e) \o
       IF Task(1) = "inputs" /\ j = Receiver THEN FakeValues(e) ELSE <<>>])])
  /\ Finish(1, Tuple([e \in Items |-> Dealt(1, e)]))
  /\ opened' = IF Task(1) = "inputs" /\ Receiver = 1 THEN [opened EXCEPT ![1] = Tuple([e \in Items |-> FakeValues(e)[1]])] ELSE opened
  /\ UNCHANGED <<job, pc, step, drawn, prss, przs, got, held>>

fake_await(i) ==
  /\ Making(i) /\ Protocol(i) = "Fake" /\ i # 1
  /\ pc' = [pc EXCEPT ![i] = "deal"]
  /\ UNCHANGED <<chan, drawn, prss, przs, got, work, held, Unchanged>>

fake_dealt(i) ==
  /\ pc[i] = "deal" /\ Arrived(i, {1})
  /\ Exchange(i, {1}, "", NoOutput)
  /\ LET extra == Task(i) = "inputs" /\ i = Receiver
         items == Tuple([e \in Items |-> IF extra THEN Front(From(i, 1)[e]) ELSE From(i, 1)[e]])
     IN  /\ Finish(i, items)
         /\ opened' = IF extra THEN [opened EXCEPT ![i] = Tuple([e \in Items |-> Last(From(i, 1)[e])])] ELSE opened
  /\ pc' = [pc EXCEPT ![i] = "make"]
  /\ UNCHANGED <<job, step, drawn, prss, przs, got, held>>

-----------------------------------------------------------------------------
(* offline_FHE: the n-th item of a line of the FHE industry is a vector of *)
(* shares for each player, and a ciphertext of their sum.  A ciphertext is *)
(* modelled by what it holds.                                              *)

Line(i, n) == Tuple([e \in Items |-> Draws(Industry(i), n * Amortize + e)])
Cipher(n) == Tuple([e \in Items |-> SumOf([i \in All_Players |-> Line(i, n)[e]])])

Opened_values(i) == \* the ciphertexts ca, cb and nc of the task
  LET x == Cipher(drawn[i])
      y == Cipher(drawn[i] + Inputs(Task(i)) - 1)
  IN  [a |-> x, b |-> y, c |-> Tuple([e \in Items |-> Product2(x[e], y[e])])]

MacSteps(names) == FlattenSeq(Tuple([m \in 1 .. Macs |-> [n \in DOMAIN names |-> <<names[n], m>>]]))

\* The decryptions of a task in their order.  m = 0 is one without a MAC key.
Decryptions(task) ==
  CASE task = "triples" -> <<<<"c", 0>>>> \o MacSteps(<<"a", "b", "c">>)
    [] task = "squares" -> <<<<"c", 0>>>> \o MacSteps(<<"a", "c">>)
    [] task = "bits" -> MacSteps(<<"a">>) \o <<<<"c", 0>>>>
    [] task = "inputs" -> MacSteps(<<"a">>)
Decryption(i) == Decryptions(Task(i))[Len(work[i]) + 1]

\* The line item of Reshare, which hides what is decrypted.
Hiding(i) == Line(i, drawn[i] + Inputs(Task(i)))
Reshares(i) == Decryption(i) = <<"c", 0>> /\ Task(i) # "bits"
Decrypted(i) ==
  LET v == Opened_values(i)[Decryption(i)[1]]
      m == Decryption(i)[2]
  IN  CASE m > 0 -> Scaled(v, Key(m))
        [] m = 0 /\ Reshares(i) -> Tuple([e \in Items |-> (v[e] + Cipher(drawn[i] + Inputs(Task(i)))[e]) % Pr])
        [] OTHER -> v

\* dist_decrypt_1: the first player's part holds the message.
Noise(j, v) == Draws(KeyFile(j), 10 + v)
dist_decrypt_1(i, v) ==
  IF i > 1 THEN Noise(i, v) ELSE (v - FoldSet(LAMBDA j, s : s + Noise(j, v), 0, Others(1))) % Pr
Mask(i, v) == Draws(Industry(i), 1000 + v)
dist_decrypt_1a(i, v) == (dist_decrypt_1(i, v) - Mask(i, v)) % Pr

Each(Op(_, _), i, v) == Tuple([e \in DOMAIN v |-> Op(i, v[e])])

ByFHE(i) == Making(i) /\ Protocol(i) = "SPDZ"
Decrypting(i) == ByFHE(i) /\ Len(work[i]) < Len(Decryptions(Task(i)))

\* DistDecrypt: everybody sends its part to everybody.
DistDecrypt(i) ==
  /\ Decrypting(i) /\ Decryption(i)[2] = 0
  /\ Exchange(i, {}, "decrypt", [j \in Others(i) |-> Each(dist_decrypt_1, i, Decrypted(i))])
  /\ pc' = [pc EXCEPT ![i] = "decrypt"]
  /\ UNCHANGED <<drawn, prss, przs, got, work, held, Unchanged>>

\* The first player takes what was decrypted, less its part of what hides it.
ReshareOf(i, e, mf) == (IF i = 1 THEN mf - Hiding(i)[e] ELSE - Hiding(i)[e]) % Pr

Reshare(i) ==
  /\ pc[i] = "decrypt" /\ Arrived(i, Others(i))
  /\ Exchange(i, Others(i), "", NoOutput)
  /\ LET mf(e) == (dist_decrypt_1(i, Decrypted(i)[e]) + FoldSet(LAMBDA j, s : s + From(i, j)[e], 0, Others(i))) % Pr
         m == Tuple([e \in Items |-> mf(e)])
     IN  work' = [work EXCEPT ![i] = Append(@, IF Reshares(i) THEN Tuple([e \in Items |-> ReshareOf(i, e, m[e])]) ELSE m)]
  /\ pc' = [pc EXCEPT ![i] = "make"]
  /\ UNCHANGED <<drawn, prss, przs, got, held, Unchanged>>

\* The second Reshare: the others keep a mask, and the first player gets the
\* rest.
Reshare_send(i) ==
  /\ Decrypting(i) /\ Decryption(i)[2] > 0 /\ i # 1
  /\ Exchange(i, {}, "mac", [j \in {1} |-> Each(dist_decrypt_1a, i, Decrypted(i))])
  /\ work' = [work EXCEPT ![i] = Append(@, Each(Mask, i, Decrypted(i)))]
  /\ UNCHANGED <<pc, drawn, prss, przs, got, held, Unchanged>>

Reshare_await ==
  /\ Decrypting(1) /\ Decryption(1)[2] > 0
  /\ pc' = [pc EXCEPT ![1] = "mac"]
  /\ UNCHANGED <<chan, drawn, prss, przs, got, work, held, Unchanged>>

Reshare_receive ==
  /\ pc[1] = "mac" /\ Arrived(1, Others(1))
  /\ Exchange(1, Others(1), "", NoOutput)
  /\ LET mine == Each(dist_decrypt_1, 1, Decrypted(1))
         m(e) == FoldSet(LAMBDA j, s : s + From(1, j)[e], mine[e], Others(1)) % Pr
     IN  work' = [work EXCEPT ![1] = Append(@, Tuple([e \in Items |-> m(e)]))]
  /\ pc' = [pc EXCEPT ![1] = "make"]
  /\ UNCHANGED <<drawn, prss, przs, got, held, Unchanged>>

\* get_share: the share of slot e and its MACs.
Result(i, name, m) == work[i][SelectInSeq(Decryptions(Task(i)), LAMBDA d : d = <<name, m>>)]
get_share(i, name, v, e) == [a |-> <<v[e]>>, mac |-> Tuple([m \in 1 .. Macs |-> Result(i, name, m)[e]])]

FHE_items(i) ==
  LET va == Line(i, drawn[i])
      vb == Line(i, drawn[i] + 1)
      item(e) ==
        CASE Task(i) = "triples" -> <<get_share(i, "a", va, e), get_share(i, "b", vb, e), get_share(i, "c", Result(i, "c", 0), e)>>
          [] Task(i) = "squares" -> <<get_share(i, "a", va, e), get_share(i, "c", Result(i, "c", 0), e)>>
          [] Task(i) = "bits" -> <<BitOf(i, get_share(i, "a", va, e), Result(i, "c", 0)[e])>>
          [] Task(i) = "inputs" -> <<get_share(i, "a", va, e)>>
      kept == SelectSeq([e \in Items |-> e], LAMBDA e : Task(i) = "bits" => Result(i, "c", 0)[e] # 0)
  IN  Tuple([x \in DOMAIN kept |-> item(kept[x])])

\* offline_FHE_*, once all is decrypted.
offline_FHE(i) ==
  /\ ByFHE(i) /\ Len(work[i]) = Len(Decryptions(Task(i)))
  /\ LET items == FHE_items(i)
         taken == Inputs(Task(i)) + (IF Task(i) \in {"triples", "squares"} THEN 1 ELSE 0)
     IN  /\ Finish(i, items)
         /\ drawn' = [drawn EXCEPT ![i] = @ + taken]
         /\ IF Task(i) = "inputs" THEN Open_To_One(i, Tuple([e \in Items |-> items[e][1]])) ELSE UNCHANGED chan
  /\ pc' = [pc EXCEPT ![i] = IF Task(i) = "inputs" /\ i = Receiver THEN "one" ELSE "make"]
  /\ UNCHANGED <<job, step, prss, przs, got, held, opened>>

-----------------------------------------------------------------------------
(* sacrifice_*, with rep = 1: an item is compared with another one.        *)

Sacrificing(i) == pc[i] = "make" /\ tasks[i] = <<>> /\ job.kind # "inputs" /\ ~FakeSacrifice

\* The items that are kept, and those they are compared with.
Bits == job.kind = "bits"
Pairs2(i) == IF Bits THEN Len(made[i].bits) ELSE Len(made[i][job.kind]) \div 2
Kept(i, p) == IF Bits THEN made[i].bits[p] ELSE made[i][job.kind][2 * p - 1]
Used(i, p) == IF Bits THEN made[i].squares[p] ELSE made[i][job.kind][2 * p]

Times(S, x) == mul(S, x % Pr)
PO(i, p) ==
  LET x == sub(Times(Kept(i, p)[1], Coin), Used(i, p)[1])
  IN  IF job.kind = "triples" THEN <<x, sub(Kept(i, p)[2], Used(i, p)[2])>> ELSE <<x>>

\* The mutant of TauTriple: the product of the opened values is not taken off.
FaultyTauTriple(i, x, y, po) == sub(sub(sub(Times(x[3], Coin), y[3]), Times(y[1], po[2])), Times(y[2], po[1]))

TauTriple(i, x, y, po) ==
  sub(sub(sub(sub(Times(x[3], Coin), y[3]), Times(y[1], po[2])), Times(y[2], po[1])), assign(SD, i, Product2(po[1], po[2]), Alpha(i)))

\* A bit is its own square.
TauSquare(x, y, po) == sub(sub(Times(Last(x), Coin * Coin), y[2]), Times(add(Times(x[1], Coin), y[1]), po[1]))

Tau(i, p, po) ==
  IF job.kind = "triples" THEN TauTriple(i, Kept(i, p), Used(i, p), po) ELSE TauSquare(Kept(i, p), Used(i, p), po)

PairSeq(i) == [p \in 1 .. Pairs2(i) |-> p]
PoShares(i) == FlattenSeq(Tuple([p \in DOMAIN PairSeq(i) |-> PO(i, p)]))
Width == IF job.kind = "triples" THEN 2 ELSE 1
PoOf(i, p) == SubSeq(held[i], Width * (p - 1) + 1, Width * p)
TauShares(i) == Tuple([p \in DOMAIN PairSeq(i) |-> Tau(i, p, PoOf(i, p))])

sacrifice_begin(i) ==
  /\ Sacrificing(i) /\ Pairs2(i) > 0
  /\ Open_To_All_Begin(i, "po", PoShares(i))
  /\ UNCHANGED <<drawn, prss, przs, got, work, held, Unchanged>>

sacrifice_po(i) ==
  /\ pc[i] = "po" /\ Arrived(i, Openers(i))
  /\ Exchange(i, Openers(i), "", NoOutput)
  /\ held' = [held EXCEPT ![i] = Values(i, PoShares(i))]
  /\ pc' = [pc EXCEPT ![i] = "to_tau"]
  /\ UNCHANGED <<drawn, prss, przs, got, work, Unchanged>>

sacrifice_tau(i) ==
  /\ pc[i] = "to_tau"
  /\ Open_To_All_Begin(i, "tau", TauShares(i))
  /\ UNCHANGED <<drawn, prss, przs, got, work, held, Unchanged>>

\* What is kept is put in front, one after the other.
sacrifice_end(i) ==
  /\ pc[i] = "tau" /\ Arrived(i, Openers(i))
  /\ Exchange(i, Openers(i), "", NoOutput)
  /\ IF is_zero(Values(i, TauShares(i)))
     THEN /\ made' = [made EXCEPT ![i][job.kind] = Reverse(Tuple([p \in 1 .. Pairs2(i) |-> Kept(i, p)]))]
          /\ pc' = [pc EXCEPT ![i] = "done"]
     ELSE pc' = [pc EXCEPT ![i] = "Sacrifice_Check_Error"] /\ UNCHANGED made
  /\ UNCHANGED <<job, step, drawn, prss, przs, got, work, held, tasks, opened>>

\* Nothing is compared: input data, a fake sacrifice, and when all bits were
\* skipped.
without_sacrifice(i) ==
  /\ pc[i] = "make" /\ tasks[i] = <<>> /\ (job.kind = "inputs" \/ FakeSacrifice \/ Pairs2(i) = 0)
  /\ pc' = [pc EXCEPT ![i] = "done"]
  /\ UNCHANGED <<chan, drawn, prss, przs, got, work, held, Unchanged>>

-----------------------------------------------------------------------------
\* The global data, the sharings that PRSS starts with, and the task.
JobOf(j, S) ==
  [SD |-> S, Shares_Of_One |-> Shares_Of_One(S), fake_sacrifice |-> Structures[j.s].fake_sacrifice, kind |-> j.kind]

Init ==
  /\ job \in {JobOf(j, init_secret_sharing(Structures[j.s])) : j \in Jobs}
  /\ pc = [i \in All_Players |-> AfterStep(i, 1)]
  /\ step = [i \in All_Players |-> NextStep(i, 1)]
  /\ chan = [i \in All_Players |-> [j \in All_Players |-> <<>>]]
  /\ drawn = [i \in All_Players |-> 0]
  /\ prss = [i \in All_Players |-> [seed |-> [c \in 1 .. Sets |-> 0], used |-> 0,
                                    batch |-> IF Large THEN All(BatchSize, All(M.ns[i], 0)) ELSE <<>>]]
  /\ przs = [i \in All_Players |-> [seeds |-> [j \in All_Players |-> [mine |-> 0, theirs |-> 0]], used |-> 0]]
  /\ got = [i \in All_Players |-> <<>>]
  /\ work = [i \in All_Players |-> <<>>]
  /\ held = [i \in All_Players |-> <<>>]
  /\ tasks = [i \in All_Players |-> IF job.kind = "bits" THEN <<"bits", "squares">> ELSE <<job.kind>>]
  /\ made = [i \in All_Players |-> [triples |-> <<>>, squares |-> <<>>, bits |-> <<>>, inputs |-> <<>>]]
  /\ opened = [i \in All_Players |-> <<>>]

Step(i) ==
  \/ Commit(i) \/ Open(i) \/ Seeded(i)
  \/ NextShares(i) \/ batch_begin(i) \/ batch_end(i)
  \/ mult_inner_one(i) \/ mult_inner_send(i) \/ mult_inner_two(i) \/ bits_open(i) \/ Maurer_bits(i)
  \/ collect_input(i) \/ make_IO_data_non_Full(i) \/ Open_To_One_End(i)
  \/ fake_await(i) \/ fake_dealt(i)
  \/ DistDecrypt(i) \/ Reshare(i) \/ Reshare_send(i) \/ offline_FHE(i)
  \/ sacrifice_begin(i) \/ sacrifice_po(i) \/ sacrifice_tau(i) \/ sacrifice_end(i) \/ without_sacrifice(i)

Ended == (\A i \in All_Players : pc[i] = "done") /\ UNCHANGED vars

Next == (\E i \in All_Players : Step(i)) \/ fake_deal \/ Reshare_await \/ Reshare_receive \/ Ended

Spec == Init /\ [][Next]_vars
=============================================================================
