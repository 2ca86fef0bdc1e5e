--------------------------- MODULE OpeningProofs ---------------------------
(***************************************************************************)
(* Proofs about the exchanges of Player that Open_Protocol and the rest of *)
(* an online thread make, for every number of players, every size of the   *)
(* buffers, every gap and every program whose openings are not used for    *)
(* anything else between their halves.                                     *)
(*                                                                         *)
(* All players go through the same rounds: there is one sequence of them   *)
(* for a program, and each player is at one.  What has been written and    *)
(* not read between two players is what the rounds they are at say.        *)
(***************************************************************************)
EXTENDS OpeningProps, Integers, FiniteSetTheorems, SequenceTheorems, WellFoundedInduction, TLAPS

-----------------------------------------------------------------------------
(* The programs of which this is proved: between the halves of an opening  *)
(* nothing else uses the connection of the opening.                        *)

Ops == {"START", "STOP", "PRIVATE_INPUT", "PRIVATE_OUTPUT", "CHECK", "INPUT_CLEAR", "OPEN_TO_ONE", "BROADCAST",
        "DISTINCT", "CHECK_BROADCAST"}
Aside == {"PRIVATE_INPUT", "PRIVATE_OUTPUT", "INPUT_CLEAR"}

\* Call i of the program is between the halves of an opening.
Inside(pr, i) == \E b \in 1 .. i - 1 : pr[b].op = "START" /\ \A l \in b + 1 .. i - 1 : pr[l].op # "STOP"

Halves(pr) ==
  \A i \in 1 .. Len(pr) : IF Inside(pr, i) THEN pr[i].op \in Aside \cup {"STOP"} ELSE pr[i].op # "STOP"

Proper ==
  /\ Programs \subseteq Seq([op : Ops, n : Nat, who : Players])
  /\ \A pr \in Programs : Halves(pr)
  /\ OpenC \in [Players -> SUBSET Players] /\ \A p \in Players : p \notin OpenC[p]
  /\ Gap \in Nat

Setting == Proper /\ prog \in Programs /\ type \in {"Full", "Q2"}

-----------------------------------------------------------------------------
(* The rounds all players go through, in a run without a wrong value.      *)

Round(h) == IF h.rounds = <<>> THEN "none" ELSE Head(h.rounds)

Everyone == {"seed", "unseal", "tau", "reveal", "OK", "cast", "hash", "aux", "same", "distinct"}

Shares(p, q) == IF type = "Full" THEN p # q ELSE q \in OpenC[p]

\* In round h something goes from p to q on c.
Talk(h, c, p, q) ==
  /\ Round(h) # "none" /\ c = Connection(h)
  /\ \/ Round(h) \in {"begin", "end"} /\ Shares(p, q)
     \/ Round(h) \in Everyone /\ p # q
     \/ Round(h) = "mask" /\ p = Call(h).who /\ p # q
     \/ Round(h) = "one" /\ q = Call(h).who /\ p # q

Writes(h, c, p, q) == Talk(h, c, p, q) /\ Round(h) # "end"
Reads(h, c, p, q) == Talk(h, c, p, q) /\ Round(h) # "begin"

Tag(h) == <<IF Round(h) \in {"begin", "end"} THEN Begun(h) ELSE h.pc, IF Round(h) = "end" THEN "begin" ELSE Round(h)>>

Input(h) == [id |-> <<"input", h.pc, 0>>, ok |-> TRUE]
Words(h) == [q \in Players |-> Word(<<"data", h.pc, q>>)]

\* A round: the place in the program; call[c] and pend[c], the call and the
\* round that began the opening which is not ended on c, if there is one (a
\* call is not 0); sent, the rounds of the messages written before; what has
\* been opened, entered and broadcast, how much of it is not checked, and what
\* the hash of the broadcasts is of.
Start ==
  [pc |-> 0, rounds |-> <<>>, open_cnt |-> 0,
   call |-> [c \in Connections |-> 0], pend |-> [c \in Connections |-> 0],
   sent |-> [c \in Connections |-> [p \in Players |-> [q \in Players |-> <<>>]]],
   opened |-> <<>>, pub |-> <<>>, cast |-> <<>>, fresh |-> 0, pubs |-> 0, casts |-> 0, bcast |-> <<>>]

More(h) == Round(h) = "none" /\ h.pc < Len(prog)

Rest(h) == IF More(h) THEN RoundsOf(prog[h.pc + 1].op)
           ELSE IF Round(h) = "none" THEN <<>>
           ELSE IF Round(h) = "count" /\ h.open_cnt + Len(Opened(h)) > Gap THEN CheckRounds(<<>>) \o Tail(h.rounds)
           ELSE Tail(h.rounds)

Counted(h) == IF Round(h) = "count" THEN h.open_cnt + Len(Opened(h)) ELSE IF Round(h) = "reset" THEN 0 ELSE h.open_cnt

At(h, c, r) == Round(h) = r /\ c = Connection(h)

\* The round after the n-th, h.
Following(h, n) ==
  [pc |-> IF More(h) THEN h.pc + 1 ELSE h.pc,
   rounds |-> Rest(h),
   open_cnt |-> Counted(h),
   call |-> [c \in Connections |-> IF At(h, c, "begin") THEN h.pc ELSE IF At(h, c, "end") THEN 0 ELSE h.call[c]],
   pend |-> [c \in Connections |-> IF At(h, c, "begin") THEN n ELSE h.pend[c]],
   sent |-> [c \in Connections |-> [p \in Players |-> [q \in Players |->
               IF Writes(h, c, p, q) THEN Append(h.sent[c][p][q], n) ELSE h.sent[c][p][q]]]],
   opened |-> IF Round(h) = "end" THEN h.opened \o Opened(h) ELSE h.opened,
   pub |-> IF Round(h) = "pub" THEN Append(h.pub, Input(h)) ELSE h.pub,
   cast |-> IF Round(h) = "cast" THEN Append(h.cast, Words(h)) ELSE h.cast,
   fresh |-> IF Round(h) = "end" THEN h.fresh + Len(Opened(h)) ELSE IF Round(h) \in {"reveal", "hash"} THEN 0 ELSE h.fresh,
   pubs |-> IF Round(h) = "pub" THEN h.pubs + 1 ELSE IF Round(h) = "aux" THEN 0 ELSE h.pubs,
   casts |-> IF Round(h) = "cast" THEN h.casts + 1 ELSE IF Round(h) = "same" THEN 0 ELSE h.casts,
   bcast |-> IF Round(h) = "cast" THEN h.bcast \o FlattenSeq([i \in 1 .. N |-> Words(h)[i - 1]])
             ELSE IF Round(h) = "same" THEN <<>> ELSE h.bcast]

Trace(H) == H[0] = Start /\ \A n \in Nat : H[n + 1] = Following(H[n], n)

-----------------------------------------------------------------------------
(* Types.                                                                  *)

Names == {"begin", "end", "count", "seed", "unseal", "tau", "reveal", "OK", "hash", "aux", "reset", "mask", "pub", "one",
          "cast", "distinct", "same"}
Ids == {"value", "seed", "Y", "data", "input"} \X Nat \X Nat
Entry == [id : Ids, ok : BOOLEAN]
Speech == [Players -> Seq(Entry)]
Pairs(S) == [Connections -> [Players -> [Players -> S]]]

Msg == [tag : Nat \X Names, val : Seq(Entry), size : Nat]
TStep == [dir : {"send", "receive"}, peer : Players, c : Connections, m : Msg]

State == [pc : Nat, rounds : Seq(Names), open_cnt : Nat, counter : [Connections -> Int],
          macs : Seq(Ids), vals : Seq(Entry), sha256 : Seq(Entry), bcast : Seq(Entry), pub : Seq(Entry), comm : Speech]

History == [opened : Seq(Entry), pub : Seq(Entry), cast : Seq(Speech)]
Covered == [opened : Nat, pub : Nat, cast : Nat]

TypeOK ==
  /\ chan \in Pairs(Seq(Msg))
  /\ todo \in [Players -> Seq(TStep)]
  /\ got \in [Players -> Speech]
  /\ faults \in Nat
  /\ st \in [Players -> State]
  /\ hist \in [Players -> History]
  /\ sure \in [Players -> Covered]

Here == [pc : 0 .. Len(prog), rounds : Seq(Names), open_cnt : Nat,
         call : [Connections -> Nat], pend : [Connections -> Nat], sent : Pairs(Seq(Nat)),
         opened : Seq(Entry), pub : Seq(Entry), cast : Seq(Speech),
         fresh : Nat, pubs : Nat, casts : Nat, bcast : Seq(Entry)]

-----------------------------------------------------------------------------
(* The first part of the invariant: who has written and read what.  H is a *)
(* trace, and at[p] the round of p, whose state is S[p] and who has the    *)
(* steps T[p] left; C is what is on the connections.                       *)

\* In Y, what is left of a round, there is a write to q or a read from q.
Left(Y, dir, q) == \E i \in 1 .. Len(Y) : Y[i].dir = dir /\ Y[i].peer = q

\* The rounds of the messages p has written to q, when Y is left of h.
Wrote(h, n, c, p, q, Y) ==
  IF Writes(h, c, p, q) /\ ~Left(Y, "send", q) THEN Append(h.sent[c][p][q], n) ELSE h.sent[c][p][q]

\* The messages of p that q read before round h: all but that of an opening
\* which is not ended.
Behind(h, c, p, q) == h.call[c] # 0 /\ Shares(p, q)
Taken(h, c, p, q) == IF Behind(h, c, p, q) THEN Len(h.sent[c][p][q]) - 1 ELSE Len(h.sent[c][p][q])

\* How many q has read, when Y is left of h.
Read(h, c, p, q, Y) == IF Reads(h, c, p, q) /\ ~Left(Y, "receive", p) THEN Taken(h, c, p, q) + 1 ELSE Taken(h, c, p, q)

\* The round of the message that is read in round h, the n-th.
Expected(h, n, c) == IF Round(h) = "end" THEN h.pend[c] ELSE n

\* What a player says in these rounds matters to what it checks.
Compared == {"reveal", "hash", "aux", "same"}
Heeded == {"begin", "cast"} \cup Compared

TodoOK(h, p, s, Y) ==
  /\ \A i \in 1 .. Len(Y) : /\ Y[i].c = Connection(h) /\ Y[i].m.tag = Tag(h)
                            /\ Y[i].dir = "send" =>
                                 Writes(h, Y[i].c, p, Y[i].peer) /\ (Round(h) \in Heeded => Y[i].m.val = Says(p, s, Round(h)))
                            /\ Y[i].dir = "receive" => Reads(h, Y[i].c, Y[i].peer, p)
  /\ \A i, j \in 1 .. Len(Y) : Y[i].dir = Y[j].dir /\ Y[i].peer = Y[j].peer => i = j

\* s is at h, and has kept what it is to check, though that may be wrong.
PlaceOK(s, h) ==
  /\ s \in State
  /\ s.pc = h.pc /\ s.rounds = h.rounds /\ s.open_cnt = h.open_cnt
  /\ \A c \in Connections : s.counter[c] = IF type # "Full" /\ h.call[c] # 0 THEN prog[h.call[c]].n ELSE 0
  /\ type = "Full" => Len(s.macs) = h.fresh /\ Len(s.vals) = h.fresh

\* Of the messages of the rounds w, r have been read, and Z is the others.
WireOK(H, w, r, Z) == r + Len(Z) = Len(w) /\ \A j \in 1 .. Len(Z) : Z[j].tag = Tag(H[w[r + j]])

Follows(H, at, S, T, C) ==
  /\ at \in [Players -> Nat]
  /\ \A p \in Players : PlaceOK(S[p], H[at[p]]) /\ TodoOK(H[at[p]], p, S[p], T[p])
  /\ \A c \in Connections, p, q \in Players :
       WireOK(H, Wrote(H[at[p]], at[p], c, p, q, T[p]), Read(H[at[q]], c, p, q, T[q]), C[c][p][q])

-----------------------------------------------------------------------------
(* What holds of every round of a trace.                                   *)

\* The rounds that r comes after.
Before(r) ==
  CASE r = "end" -> {"begin"} [] r = "count" -> {"end"}
    [] r = "unseal" -> {"seed"} [] r = "tau" -> {"unseal"} [] r = "reveal" -> {"tau"} [] r = "OK" -> {"reveal"}
    [] r = "aux" -> {"OK", "hash"} [] r = "reset" -> {"OK", "hash", "aux"}
    [] r \in {"seed", "hash"} -> {"count", "reset"}
    [] r \in {"begin", "mask", "pub", "one", "cast", "distinct", "same"} -> {}

\* The rounds a call may have.
RoundOK(op, r) ==
  /\ r = "begin" => op \in {"START", "PRIVATE_OUTPUT"}
  /\ r \in {"end", "count"} => op \in {"STOP", "PRIVATE_OUTPUT"}
  /\ op = "START" => r = "begin"
  /\ op = "PRIVATE_INPUT" => r = "mask"
  /\ op = "INPUT_CLEAR" => r = "pub"
  /\ r = "hash" => type # "Full"
  /\ r \in {"seed", "unseal", "tau", "reveal", "OK"} => type = "Full"

Chained(s) == \A i \in 1 .. Len(s) - 1 : s[i] \in Before(s[i + 1])
Allowed(op, s) == \A i \in 1 .. Len(s) : RoundOK(op, s[i])
LastRounds == {"begin", "count", "reset", "mask", "pub", "one", "cast", "distinct", "same"}

RoundsOK(h) ==
  /\ Chained(h.rounds)
  /\ h.rounds # <<>> => h.pc \in 1 .. Len(prog) /\ Allowed(Call(h).op, h.rounds) /\ h.rounds[Len(h.rounds)] \in LastRounds
  /\ h.rounds # <<>> /\ Call(h).op = "START" => Len(h.rounds) = 1
  /\ h.rounds # <<>> /\ Call(h).op = "PRIVATE_OUTPUT" => h.rounds[Len(h.rounds)] = "reset"
  /\ h.rounds # <<>> /\ Call(h).op = "STOP" => \A i \in 2 .. Len(h.rounds) : h.rounds[i] # "end"

OpenOK(h) ==
  /\ h.call[0] # 0 <=> IF h.rounds = <<>> THEN Inside(prog, h.pc + 1)
                       ELSE Inside(prog, h.pc) /\ (Call(h).op = "STOP" => Round(h) = "end")
  /\ h.call[0] # 0 => /\ h.call[0] \in 1 .. h.pc /\ prog[h.call[0]].op = "START"
                      /\ \A l \in h.call[0] + 1 .. h.pc : prog[l].op \in Aside \/ (l = h.pc /\ prog[l].op = "STOP")
  /\ h.call[1] # 0 <=> Round(h) = "end" /\ Call(h).op = "PRIVATE_OUTPUT"
  /\ h.call[1] # 0 => h.call[1] = h.pc

Checking == {"seed", "unseal", "tau", "reveal", "OK", "hash", "aux", "reset"}

CountsOK(h) ==
  /\ h.fresh <= Len(h.opened) /\ h.casts <= Len(h.cast) /\ h.pubs <= Len(h.pub)
  /\ h.fresh = CASE Round(h) \in {"OK", "aux", "reset"} -> 0
                 [] Round(h) = "count" -> h.open_cnt + Len(Opened(h))
                 [] Round(h) \notin {"OK", "aux", "reset", "count"} -> h.open_cnt
  /\ Round(h) \notin Checking => h.open_cnt <= Gap

RoundFacts(h) == h \in Here /\ RoundsOK(h) /\ OpenOK(h) /\ CountsOK(h)

PendOK(H, n) ==
  \A c \in Connections : H[n].call[c] # 0 =>
    /\ H[n].pend[c] < n /\ Round(H[H[n].pend[c]]) = "begin" /\ Tag(H[H[n].pend[c]]) = <<H[n].call[c], "begin">>
    /\ \A p, q \in Players : Shares(p, q) =>
         LET w == H[n].sent[c][p][q] IN w # <<>> /\ w[Len(w)] = H[n].pend[c]

SentOK(H, n) ==
  \A c \in Connections, p, q \in Players : LET w == H[n].sent[c][p][q] IN
    \A i \in 1 .. Len(w) : w[i] < n /\ Writes(H[w[i]], c, p, q)

\* X writes v to Sn and reads from Rc, on c, for the call and round tag.
Exchange(X, c, tag, v, Sn, Rc) ==
  /\ X \in Seq(TStep)
  /\ \A i \in 1 .. Len(X) : /\ X[i].c = c /\ X[i].m.tag = tag
                            /\ X[i].dir = "send" => X[i].peer \in Sn /\ X[i].m.val = v
                            /\ X[i].dir = "receive" => X[i].peer \in Rc
  /\ \A i, j \in 1 .. Len(X) : X[i].dir = X[j].dir /\ X[i].peer = X[j].peer => i = j
  /\ \A q \in Sn : \E i \in 1 .. Len(X) : X[i].dir = "send" /\ X[i].peer = q
  /\ \A q \in Rc : \E i \in 1 .. Len(X) : X[i].dir = "receive" /\ X[i].peer = q

-----------------------------------------------------------------------------
(* Generic facts.                                                          *)

\* What holds of 0 and of the successor of each number it holds of.
LEMMA Induct ==
  ASSUME NEW T, 0 \in T, \A n \in Nat : n \in T => n + 1 \in T
  PROVE  \A n \in Nat : n \in T
<1> DEFINE R == {ss \in Nat \X Nat : ss[1] < ss[2]}
           U == {n \in Nat : n \notin T}
<1>1. IsWellFoundedOn(R, Nat)
  BY NatLessThanWellFounded DEF OpToRel
<1> HIDE DEF R
<1>2. SUFFICES ASSUME U # {} PROVE FALSE
  OBVIOUS
<1>3. PICK x \in U : \A y \in U : ~(<<y, x>> \in R)
  BY <1>1, <1>2, WFMin
<1>4. x # 0 /\ x - 1 \in Nat
  BY <1>3
<1>5. <<x - 1, x>> \in R
  BY <1>3, <1>4 DEF R
<1>6. x - 1 \in T
  BY <1>3, <1>4, <1>5
<1>7. (x - 1) + 1 \in T
  BY <1>4, <1>6
<1> QED
  BY <1>3, <1>4, <1>7

\* From 1 up to m.
LEMMA InductUpTo ==
  ASSUME NEW m \in Nat, m > 0, NEW T, 1 \in T, \A n \in Nat : n >= 1 /\ n < m /\ n \in T => n + 1 \in T
  PROVE  m \in T
<1> DEFINE U == {n \in Nat : n >= 1 /\ n <= m => n \in T}
<1>1. 0 \in U
  OBVIOUS
<1>2. \A n \in Nat : n \in U => n + 1 \in U
  <2> SUFFICES ASSUME NEW n \in Nat, n \in U, n + 1 <= m PROVE n + 1 \in T
    OBVIOUS
  <2>1. CASE n = 0
    BY <2>1
  <2>2. CASE n >= 1
    BY <2>2
  <2> QED
    BY <2>1, <2>2
<1> HIDE DEF U
<1>3. m \in U
  BY <1>1, <1>2, Induct
<1> QED
  BY <1>3 DEF U

\* What FlattenSeq returns, piece by piece.
LEMMA FlattenIs ==
  ASSUME NEW S, NEW ss \in Seq(Seq(S)), Len(ss) > 0
  PROVE  \E f \in [1 .. Len(ss) -> Seq(S)] :
           /\ f[1] = ss[1] /\ \A i \in 2 .. Len(ss) : f[i] = f[i - 1] \o ss[i]
           /\ FlattenSeq(ss) = f[Len(ss)]
<1> DEFINE D(f, n) == /\ f \in [1 .. n -> Seq(S)] /\ f[1] = ss[1]
                      /\ \A i \in 2 .. n : f[i] = f[i - 1] \o ss[i]
           T == {n \in Nat : \E f : D(f, n)}
<1> HIDE DEF D
<1>1. Len(ss) \in Nat /\ \A i \in 1 .. Len(ss) : ss[i] \in Seq(S)
  OBVIOUS
<1>2. 1 \in T
  <2> DEFINE e == [i \in 1 .. 1 |-> ss[1]]
  <2>1. e \in [1 .. 1 -> Seq(S)] /\ e[1] = ss[1]
    BY <1>1
  <2>2. \A i \in 2 .. 1 : e[i] = e[i - 1] \o ss[i]
    OBVIOUS
  <2>3. D(e, 1)
    BY <2>1, <2>2 DEF D
  <2> QED
    BY <2>3
<1>3. \A n \in Nat : n >= 1 /\ n < Len(ss) /\ n \in T => n + 1 \in T
  <2> SUFFICES ASSUME NEW n \in Nat, n >= 1, n < Len(ss), n \in T PROVE \E f : D(f, n + 1)
    OBVIOUS
  <2>1. PICK f : D(f, n)
    OBVIOUS
  <2>2. /\ f \in [1 .. n -> Seq(S)] /\ f[1] = ss[1]
        /\ \A i \in 2 .. n : f[i] = f[i - 1] \o ss[i]
    BY <2>1 DEF D
  <2> DEFINE g == [i \in 1 .. n + 1 |-> IF i <= n THEN f[i] ELSE f[n] \o ss[n + 1]]
  <2>3. n \in 1 .. n /\ n + 1 \in 1 .. Len(ss)
    BY <1>1
  <2>4. f[n] \o ss[n + 1] \in Seq(S)
    <3>1. f[n] \in Seq(S) /\ ss[n + 1] \in Seq(S)
      BY <1>1, <2>2, <2>3
    <3> QED
      BY <3>1, ConcatProperties
  <2>5. g \in [1 .. n + 1 -> Seq(S)]
    BY <2>2, <2>4
  <2>6. g[1] = ss[1]
    BY <2>2
  <2>7. ASSUME NEW i \in 2 .. n + 1 PROVE g[i] = g[i - 1] \o ss[i]
    <3>1. CASE i <= n
      <4>1. i \in 2 .. n /\ i - 1 \in 1 .. n
        BY <3>1
      <4>2. f[i] = f[i - 1] \o ss[i]
        BY <2>2, <4>1
      <4>3. g[i] = f[i] /\ g[i - 1] = f[i - 1]
        BY <4>1
      <4> QED
        BY <4>2, <4>3
    <3>2. CASE i = n + 1
      <4>1. n + 1 \in 1 .. n + 1 /\ ~(n + 1 <= n) /\ n \in 1 .. n + 1 /\ (n + 1) - 1 = n
        OBVIOUS
      <4>2. g[n + 1] = f[n] \o ss[n + 1]
        BY <4>1
      <4>3. g[n] = f[n]
        BY <4>1
      <4>4. g[n + 1] = g[n] \o ss[n + 1]
        BY <4>2, <4>3
      <4>5. i - 1 = n
        BY <3>2
      <4> HIDE DEF g
      <4> QED
        BY <3>2, <4>4, <4>5, Zenon
    <3>3. i <= n \/ i = n + 1
      OBVIOUS
    <3> QED
      BY <3>1, <3>2, <3>3, Zenon
  <2> HIDE DEF g
  <2>8. D(g, n + 1)
    BY <2>5, <2>6, <2>7 DEF D
  <2> QED
    BY <2>8
<1> HIDE DEF T
<1>4. Len(ss) \in T
  BY <1>1, <1>2, <1>3, InductUpTo
<1>5. PICK f : D(f, Len(ss))
  BY <1>4 DEF T
<1>6. /\ f \in [1 .. Len(ss) -> Seq(S)] /\ f[1] = ss[1]
      /\ \A i \in 2 .. Len(ss) : f[i] = f[i - 1] \o ss[i]
  BY <1>5 DEF D
<1> DEFINE Flat == CHOOSE g : g = [i \in 1 .. Len(ss) |-> IF i = 1 THEN ss[i] ELSE g[i - 1] \o ss[i]]
<1>7. f = [i \in 1 .. Len(ss) |-> IF i = 1 THEN ss[i] ELSE f[i - 1] \o ss[i]]
  <2>1. f = [i \in 1 .. Len(ss) |-> f[i]]
    BY <1>6
  <2>2. ASSUME NEW i \in 1 .. Len(ss) PROVE f[i] = IF i = 1 THEN ss[i] ELSE f[i - 1] \o ss[i]
    <3>1. CASE i = 1
      BY <1>6, <3>1
    <3>2. CASE i # 1
      <4>1. i \in 2 .. Len(ss)
        BY <1>1, <3>2
      <4> QED
        BY <1>6, <3>2, <4>1
    <3> QED
      BY <3>1, <3>2
  <2> QED
    BY <2>1, <2>2, Zenon
<1>8. Flat = [i \in 1 .. Len(ss) |-> IF i = 1 THEN ss[i] ELSE Flat[i - 1] \o ss[i]]
  BY <1>7
<1>9. FlattenSeq(ss) = Flat[Len(ss)]
  BY <1>1 DEF FlattenSeq
<1> HIDE DEF Flat
<1> DEFINE E == {m \in Nat : m <= Len(ss) => Flat[m] = f[m]}
<1>10. 1 \in E
  <2>1. 1 \in 1 .. Len(ss)
    BY <1>1
  <2>2. Flat[1] = ss[1]
    BY <1>8, <2>1
  <2> QED
    BY <1>6, <2>2
<1>11. \A n \in Nat : n >= 1 /\ n < Len(ss) /\ n \in E => n + 1 \in E
  <2> SUFFICES ASSUME NEW n \in Nat, n >= 1, n < Len(ss), Flat[n] = f[n] PROVE Flat[n + 1] = f[n + 1]
    BY <1>1
  <2>1. n + 1 \in 1 .. Len(ss) /\ n + 1 # 1 /\ (n + 1) - 1 = n
    BY <1>1
  <2>2. Flat[n + 1] = Flat[n] \o ss[n + 1]
    BY <1>8, <2>1
  <2>3. f[n + 1] = f[n] \o ss[n + 1]
    BY <1>7, <2>1
  <2> QED
    BY <2>2, <2>3
<1> HIDE DEF E
<1>12. Len(ss) \in E
  BY <1>1, <1>10, <1>11, InductUpTo
<1>13. FlattenSeq(ss) = f[Len(ss)]
  BY <1>1, <1>9, <1>12 DEF E
<1> QED
  BY <1>6, <1>13

\* The entries of F are those of the pieces ss, b[j] the piece of entry j.
Gathers(F, ss) ==
  \E b \in [1 .. Len(F) -> 1 .. Len(ss)] :
    /\ \A j \in 1 .. Len(F) : ss[b[j]] # <<>> /\ F[j] = ss[b[j]][1]
    /\ \A j, l \in 1 .. Len(F) : b[j] = b[l] => j = l
    /\ \A i \in 1 .. Len(ss) : ss[i] # <<>> => \E j \in 1 .. Len(F) : b[j] = i

\* If the pieces have at most one element, they are what is in them.
LEMMA FlattenOnes ==
  ASSUME NEW S, NEW ss \in Seq(Seq(S)), Len(ss) > 0, \A i \in 1 .. Len(ss) : Len(ss[i]) <= 1
  PROVE  FlattenSeq(ss) \in Seq(S) /\ Gathers(FlattenSeq(ss), ss)
<1>1. PICK f \in [1 .. Len(ss) -> Seq(S)] :
        /\ f[1] = ss[1] /\ \A i \in 2 .. Len(ss) : f[i] = f[i - 1] \o ss[i]
        /\ FlattenSeq(ss) = f[Len(ss)]
  BY FlattenIs
<1>2. Len(ss) \in Nat /\ \A i \in 1 .. Len(ss) : ss[i] \in Seq(S) /\ Len(ss[i]) \in {0, 1} /\ (ss[i] # <<>> <=> Len(ss[i]) = 1)
  <2> SUFFICES ASSUME NEW i \in 1 .. Len(ss)
               PROVE  ss[i] \in Seq(S) /\ Len(ss[i]) \in {0, 1} /\ (ss[i] # <<>> <=> Len(ss[i]) = 1)
    OBVIOUS
  <2>1. ss[i] \in Seq(S) /\ Len(ss[i]) <= 1
    OBVIOUS
  <2>2. Len(ss[i]) \in Nat /\ (ss[i] = <<>> <=> Len(ss[i]) = 0)
    BY <2>1, EmptySeq
  <2> DEFINE l == Len(ss[i])
  <2>3. l \in Nat /\ l <= 1 /\ (ss[i] = <<>> <=> l = 0)
    BY <2>1, <2>2
  <2> HIDE DEF l
  <2>4. l \in {0, 1} /\ (ss[i] # <<>> <=> l = 1)
    BY <2>3
  <2> QED
    BY <2>1, <2>4 DEF l
<1> DEFINE D(b, n) ==
             /\ b \in [1 .. Len(f[n]) -> 1 .. n]
             /\ \A j \in 1 .. Len(f[n]) : ss[b[j]] # <<>> /\ f[n][j] = ss[b[j]][1]
             /\ \A j, l \in 1 .. Len(f[n]) : b[j] = b[l] => j = l
             /\ \A i \in 1 .. n : ss[i] # <<>> => \E j \in 1 .. Len(f[n]) : b[j] = i
           T == {n \in Nat : \E b : D(b, n)}
<1> HIDE DEF D
<1>3. 1 \in T
  <2> DEFINE e == [j \in 1 .. Len(ss[1]) |-> 1]
  <2>1. f[1] = ss[1] /\ Len(ss[1]) \in {0, 1} /\ (ss[1] # <<>> <=> Len(ss[1]) = 1)
    <3>1. 1 \in 1 .. Len(ss)
      BY <1>2
    <3> QED
      BY <1>1, <1>2, <3>1
  <2>2. /\ e \in [1 .. Len(ss[1]) -> 1 .. 1]
        /\ \A j \in 1 .. Len(ss[1]) : ss[e[j]] # <<>> /\ ss[1][j] = ss[e[j]][1]
        /\ \A j, l \in 1 .. Len(ss[1]) : e[j] = e[l] => j = l
        /\ \A i \in 1 .. 1 : ss[i] # <<>> => \E j \in 1 .. Len(ss[1]) : e[j] = i
    BY <2>1
  <2>3. D(e, 1)
    BY <2>1, <2>2 DEF D
  <2> QED
    BY <2>3
<1> HIDE DEF T
<1>4. \A n \in Nat : n >= 1 /\ n < Len(ss) /\ n \in T => n + 1 \in T
  <2> SUFFICES ASSUME NEW n \in Nat, n >= 1, n < Len(ss), n \in T PROVE n + 1 \in T
    OBVIOUS
  <2>0. SUFFICES \E b : D(b, n + 1)
    BY DEF T
  <2>1. PICK b : D(b, n)
    BY DEF T
  <2>2. n \in 1 .. Len(ss) /\ n + 1 \in 1 .. Len(ss) /\ n + 1 \in 2 .. Len(ss) /\ (n + 1) - 1 = n
    BY <1>2
  <2>3. f[n + 1] = f[n] \o ss[n + 1]
    BY <1>1, <2>2
  <2>4. f[n] \in Seq(S) /\ ss[n + 1] \in Seq(S) /\ Len(ss[n + 1]) \in {0, 1}
    BY <1>1, <1>2, <2>2
  <2> DEFINE m == Len(f[n])
  <2>5. m \in Nat
    BY <2>4
  <2>6. /\ b \in [1 .. m -> 1 .. n]
        /\ \A j \in 1 .. m : ss[b[j]] # <<>> /\ f[n][j] = ss[b[j]][1]
        /\ \A j, l \in 1 .. m : b[j] = b[l] => j = l
        /\ \A i \in 1 .. n : ss[i] # <<>> => \E j \in 1 .. m : b[j] = i
    BY <2>1 DEF D
  <2>7. CASE ss[n + 1] = <<>>
    <3>1. f[n + 1] = f[n]
      BY <2>3, <2>4, <2>7
    <3>2. b \in [1 .. m -> 1 .. n + 1]
      BY <2>6
    <3>3. ASSUME NEW i \in 1 .. n + 1, ss[i] # <<>> PROVE \E j \in 1 .. m : b[j] = i
      <4>1. i \in 1 .. n
        BY <2>7, <3>3
      <4> QED
        BY <2>6, <3>3, <4>1
    <3>4. D(b, n + 1)
      BY <2>6, <3>1, <3>2, <3>3 DEF D
    <3> QED
      BY <3>4
  <2>8. CASE ss[n + 1] # <<>>
    <3> DEFINE e == [j \in 1 .. m + 1 |-> IF j <= m THEN b[j] ELSE n + 1]
    <3>1. Len(ss[n + 1]) = 1
      BY <1>2, <2>2, <2>8
    <3>2. Len(f[n + 1]) = m + 1
      <4>1. Len(f[n] \o ss[n + 1]) = m + Len(ss[n + 1])
        BY <2>4, ConcatProperties
      <4> QED
        BY <2>3, <3>1, <4>1
    <3>3. f[n + 1][m + 1] = ss[n + 1][1] /\ \A j \in 1 .. m : f[n + 1][j] = f[n][j]
      <4>1. \A j \in 1 .. m + Len(ss[n + 1]) : (f[n] \o ss[n + 1])[j] = IF j <= m THEN f[n][j] ELSE ss[n + 1][j - m]
        BY <2>4, ConcatProperties
      <4>2. m + 1 \in 1 .. m + 1 /\ (m + 1) - m = 1 /\ ~(m + 1 <= m) /\ \A j \in 1 .. m : j \in 1 .. m + 1 /\ j <= m
        BY <2>5
      <4>3. (f[n] \o ss[n + 1])[m + 1] = ss[n + 1][1]
        BY <3>1, <4>1, <4>2
      <4>4. \A j \in 1 .. m : (f[n] \o ss[n + 1])[j] = f[n][j]
        BY <3>1, <4>1, <4>2
      <4> QED
        BY <2>3, <4>3, <4>4
    <3> HIDE DEF m
    <3>4. e \in [1 .. m + 1 -> 1 .. n + 1]
      BY <2>5, <2>6
    <3>5. ASSUME NEW j \in 1 .. m + 1 PROVE ss[e[j]] # <<>> /\ f[n + 1][j] = ss[e[j]][1]
      <4>1. CASE j = m + 1
        BY <2>5, <2>8, <3>3, <4>1
      <4>2. CASE j \in 1 .. m
        BY <2>5, <2>6, <3>3, <4>2
      <4> QED
        BY <2>5, <4>1, <4>2
    <3>6. ASSUME NEW j \in 1 .. m + 1, NEW l \in 1 .. m + 1, e[j] = e[l] PROVE j = l
      <4>1. CASE j \in 1 .. m /\ l \in 1 .. m
        BY <2>6, <3>6, <4>1
      <4>2. CASE j = m + 1 /\ l \in 1 .. m
        BY <2>5, <2>6, <3>6, <4>2
      <4>3. CASE j \in 1 .. m /\ l = m + 1
        BY <2>5, <2>6, <3>6, <4>3
      <4> QED
        BY <2>5, <4>1, <4>2, <4>3
    <3>7. ASSUME NEW i \in 1 .. n + 1, ss[i] # <<>> PROVE \E j \in 1 .. m + 1 : e[j] = i
      <4>1. CASE i = n + 1
        <5>1. m + 1 \in 1 .. m + 1 /\ e[m + 1] = i
          BY <2>5, <4>1
        <5> QED
          BY <5>1
      <4>2. CASE i \in 1 .. n
        <5>1. PICK j \in 1 .. m : b[j] = i
          BY <2>6, <3>7, <4>2
        <5>2. j \in 1 .. m + 1 /\ e[j] = i
          BY <2>5, <5>1
        <5> QED
          BY <5>2
      <4> QED
        BY <4>1, <4>2
    <3> HIDE DEF e
    <3>8. D(e, n + 1)
      BY <3>2, <3>4, <3>5, <3>6, <3>7 DEF D
    <3> QED
      BY <3>8
  <2> QED
    BY <2>7, <2>8
<1>5. Len(ss) \in T
  BY <1>2, <1>3, <1>4, InductUpTo
<1>6. PICK b : D(b, Len(ss))
  BY <1>5 DEF T
<1>7. FlattenSeq(ss) \in Seq(S)
  <2>1. Len(ss) \in 1 .. Len(ss)
    BY <1>2
  <2> QED
    BY <1>1, <2>1
<1>8. FlattenSeq(ss) = f[Len(ss)]
  BY <1>1
<1> DEFINE F == FlattenSeq(ss)
<1>9. /\ b \in [1 .. Len(f[Len(ss)]) -> 1 .. Len(ss)]
      /\ \A j \in 1 .. Len(f[Len(ss)]) : ss[b[j]] # <<>> /\ f[Len(ss)][j] = ss[b[j]][1]
      /\ \A j, l \in 1 .. Len(f[Len(ss)]) : b[j] = b[l] => j = l
      /\ \A i \in 1 .. Len(ss) : ss[i] # <<>> => \E j \in 1 .. Len(f[Len(ss)]) : b[j] = i
  BY <1>6 DEF D
<1> HIDE DEF F
<1>10. f[Len(ss)] = F
  BY <1>8 DEF F
<1>11. /\ b \in [1 .. Len(F) -> 1 .. Len(ss)]
       /\ \A j \in 1 .. Len(F) : ss[b[j]] # <<>> /\ F[j] = ss[b[j]][1]
       /\ \A j, l \in 1 .. Len(F) : b[j] = b[l] => j = l
       /\ \A i \in 1 .. Len(ss) : ss[i] # <<>> => \E j \in 1 .. Len(F) : b[j] = i
  BY <1>9, <1>10
<1>12. F \in Seq(S)
  BY <1>7 DEF F
<1>13. Gathers(F, ss)
  BY <1>11 DEF Gathers
<1> QED
  BY <1>12, <1>13 DEF F
-----------------------------------------------------------------------------
(* What the steps leave alone, and that there is a trace.                  *)

\* The rounds are the same in every state of a behaviour.
LEMMA Static ==
  ASSUME prog' = prog, type' = type, NEW h, NEW n
  PROVE  /\ Call(h)' = Call(h) /\ Connection(h)' = Connection(h) /\ Begun(h)' = Begun(h)
         /\ Opened(h)' = Opened(h) /\ Tag(h)' = Tag(h)
         /\ \A p, q : Shares(p, q)' = Shares(p, q)
         /\ \A c, p, q : /\ Talk(h, c, p, q)' = Talk(h, c, p, q)
                         /\ Writes(h, c, p, q)' = Writes(h, c, p, q) /\ Reads(h, c, p, q)' = Reads(h, c, p, q)
                         /\ Behind(h, c, p, q)' = Behind(h, c, p, q) /\ Taken(h, c, p, q)' = Taken(h, c, p, q)
         /\ Following(h, n)' = Following(h, n)
<1>1. Call(h)' = Call(h)
  BY DEF Call
<1>2. Connection(h)' = Connection(h)
  BY <1>1 DEF Connection
<1>3. Begun(h)' = Begun(h)
  BY <1>1 DEF Begun
<1>4. Opened(h)' = Opened(h)
  BY <1>3 DEF Opened
<1>5. Tag(h)' = Tag(h)
  BY <1>3 DEF Tag, Round
<1>6. ASSUME NEW p, NEW q PROVE Shares(p, q)' = Shares(p, q)
  BY DEF Shares
<1>7. ASSUME NEW c, NEW p, NEW q PROVE Talk(h, c, p, q)' = Talk(h, c, p, q)
  BY <1>1, <1>2, <1>6 DEF Talk, Round
<1>8. ASSUME NEW c, NEW p, NEW q PROVE Writes(h, c, p, q)' = Writes(h, c, p, q) /\ Reads(h, c, p, q)' = Reads(h, c, p, q)
  BY <1>7 DEF Writes, Reads, Round
<1>9. ASSUME NEW c, NEW p, NEW q PROVE Behind(h, c, p, q)' = Behind(h, c, p, q) /\ Taken(h, c, p, q)' = Taken(h, c, p, q)
  BY <1>6 DEF Behind, Taken
<1>10. Following(h, n)' = Following(h, n)
  <2>1. More(h)' = More(h)
    BY DEF More, Round
  <2>2. \A x : CheckRounds(x)' = CheckRounds(x)
    BY DEF CheckRounds, Create_Random_Seed, Commit_And_Open
  <2>3. \A x : RoundsOf(x)' = RoundsOf(x)
    BY <2>2 DEF RoundsOf, RunOpenCheck
  <2>4. Rest(h)' = Rest(h)
    BY <1>4, <2>1, <2>2, <2>3 DEF Rest, Round
  <2>5. Counted(h)' = Counted(h)
    BY <1>4 DEF Counted, Round
  <2>6. \A c, x : At(h, c, x)' = At(h, c, x)
    BY <1>2 DEF At, Round
  <2> QED
    BY <1>4, <1>8, <2>1, <2>4, <2>5, <2>6 DEF Following, Round, Input, Words, Word
<1> QED
  BY <1>1, <1>2, <1>3, <1>4, <1>5, <1>6, <1>7, <1>8, <1>9, <1>10

\* A trace is one in every state of a run: it is of the program and the kind
\* of sharing only.
LEMMA TraceStays ==
  ASSUME prog' = prog, type' = type, NEW H, Trace(H)
  PROVE  Trace(H)'
<1>1. H[0] = Start /\ \A n \in Nat : H[n + 1] = Following(H[n], n)
  BY DEF Trace
<1>2. ASSUME NEW n \in Nat PROVE Following(H[n], n)' = Following(H[n], n)
  BY Static
<1>3. Start' = Start
  BY DEF Start
<1> QED
  BY <1>1, <1>2, <1>3 DEF Trace

\* There is a trace: round follows round.
LEMMA TraceExists == \E H : Trace(H)
<1> DEFINE P(f, n) == f[0] = Start /\ \A i \in 0 .. n - 1 : f[i + 1] = Following(f[i], i)
           T == {n \in Nat : \E f : P(f, n)}
           F(n) == CHOOSE f : P(f, n)
<1> HIDE DEF P
<1>1. 0 \in T
  <2>1. P([i \in {0} |-> Start], 0)
    BY DEF P
  <2> QED
    BY <2>1
<1>2. ASSUME NEW n \in Nat, n \in T PROVE n + 1 \in T
  <2>1. PICK f : P(f, n)
    BY <1>2
  <2> DEFINE g == [i \in 0 .. n + 1 |-> IF i <= n THEN f[i] ELSE Following(f[n], n)]
  <2>2. g[0] = Start
    BY <2>1 DEF P
  <2>3. ASSUME NEW i \in 0 .. n PROVE g[i + 1] = Following(g[i], i)
    <3>1. g[i] = f[i]
      OBVIOUS
    <3>2. CASE i = n
      <4>1. g[n + 1] = Following(f[n], n)
        OBVIOUS
      <4> HIDE DEF g
      <4> QED
        BY <3>1, <3>2, <4>1
    <3>3. CASE i # n
      <4>1. g[i + 1] = f[i + 1]
        BY <3>3
      <4>2. i \in 0 .. n - 1
        BY <3>3
      <4>3. f[i + 1] = Following(f[i], i)
        BY <2>1, <4>2 DEF P
      <4> HIDE DEF g
      <4> QED
        BY <3>1, <4>1, <4>3
    <3> QED
      BY <3>2, <3>3
  <2>4. (n + 1) - 1 = n
    OBVIOUS
  <2> HIDE DEF g
  <2>5. P(g, n + 1)
    BY <2>2, <2>3, <2>4 DEF P
  <2> QED
    BY <2>5
<1> HIDE DEF T
<1>3. \A n \in Nat : n \in T
  BY <1>1, <1>2, Induct
<1>4. ASSUME NEW n \in Nat PROVE P(F(n), n)
  BY <1>3 DEF T
<1>5. ASSUME NEW f, NEW g, NEW n \in Nat, P(f, n), P(g, n) PROVE f[n] = g[n]
  <2> DEFINE U == {i \in Nat : i <= n => f[i] = g[i]}
  <2>1. 0 \in U
    BY <1>5 DEF P
  <2>2. ASSUME NEW i \in Nat, i \in U PROVE i + 1 \in U
    <3>1. SUFFICES ASSUME i + 1 <= n PROVE f[i + 1] = g[i + 1]
      OBVIOUS
    <3>2. i \in 0 .. n - 1 /\ f[i] = g[i]
      BY <2>2, <3>1
    <3> QED
      BY <1>5, <3>2 DEF P
  <2> HIDE DEF U
  <2>3. n \in U
    BY <2>1, <2>2, Induct
  <2> QED
    BY <2>3 DEF U
<1>6. ASSUME NEW f, NEW n \in Nat, P(f, n + 1) PROVE P(f, n)
  BY <1>6 DEF P
<1> DEFINE H == [n \in Nat |-> F(n)[n]]
<1> HIDE DEF F
<1>7. H[0] = Start
  BY <1>4 DEF P
<1>8. ASSUME NEW n \in Nat PROVE H[n + 1] = Following(H[n], n)
  <2>1. P(F(n + 1), n + 1) /\ P(F(n), n)
    BY <1>4
  <2>2. F(n + 1)[n] = F(n)[n]
    BY <1>5, <1>6, <2>1
  <2>3. F(n + 1)[n + 1] = Following(F(n + 1)[n], n)
    <3>1. n \in 0 .. (n + 1) - 1
      OBVIOUS
    <3> QED
      BY <2>1, <3>1 DEF P
  <2>4. H[n + 1] = F(n + 1)[n + 1] /\ H[n] = F(n)[n]
    OBVIOUS
  <2> HIDE DEF H
  <2> QED
    BY <2>2, <2>3, <2>4
<1> HIDE DEF H
<1> QED
  BY <1>7, <1>8 DEF Trace

-----------------------------------------------------------------------------
(* The program, and the lists of rounds.                                   *)

\* What the calls of a program are.
LEMMA ProgramIs ==
  ASSUME Proper, prog \in Programs
  PROVE  /\ prog \in Seq([op : Ops, n : Nat, who : Players]) /\ Len(prog) \in Nat
         /\ \A i \in 1 .. Len(prog) : prog[i].op \in Ops /\ prog[i].n \in Nat /\ prog[i].who \in Players
         /\ \A i \in 1 .. Len(prog) : IF Inside(prog, i) THEN prog[i].op \in Aside \cup {"STOP"} ELSE prog[i].op # "STOP"
<1>1. prog \in Seq([op : Ops, n : Nat, who : Players]) /\ Halves(prog)
  BY DEF Proper
<1>2. Len(prog) \in Nat /\ \A i \in 1 .. Len(prog) : prog[i] \in [op : Ops, n : Nat, who : Players]
  <2> DEFINE S == [op : Ops, n : Nat, who : Players]
  <2> HIDE DEF S
  <2>1. prog \in Seq(S)
    BY <1>1 DEF S
  <2>2. Len(prog) \in Nat /\ \A i \in 1 .. Len(prog) : prog[i] \in S
    BY <2>1
  <2> QED
    BY <2>2 DEF S
<1> QED
  BY <1>1, <1>2 DEF Halves

\* Inside is kept or changed by one call.
LEMMA InsideNext ==
  ASSUME NEW pr, NEW i \in Nat
  PROVE  Inside(pr, i + 1) <=> i >= 1 /\ (pr[i].op = "START" \/ (Inside(pr, i) /\ pr[i].op # "STOP"))
<1>1. (i + 1) - 1 = i
  OBVIOUS
<1>2. ASSUME NEW b \in 1 .. i, pr[b].op = "START", \A l \in b + 1 .. i : pr[l].op # "STOP"
      PROVE  i >= 1 /\ (pr[i].op = "START" \/ (Inside(pr, i) /\ pr[i].op # "STOP"))
  <2>1. CASE b = i
    BY <1>2, <2>1
  <2>2. CASE b # i
    <3>1. b \in 1 .. i - 1 /\ i \in b + 1 .. i /\ \A l \in b + 1 .. i - 1 : l \in b + 1 .. i
      BY <2>2
    <3> QED
      BY <1>2, <3>1 DEF Inside
  <2> QED
    BY <2>1, <2>2
<1>3. ASSUME i >= 1, pr[i].op = "START" PROVE Inside(pr, i + 1)
  <2>1. i \in 1 .. i /\ \A l \in i + 1 .. i : pr[l].op # "STOP"
    BY <1>3
  <2> QED
    BY <1>1, <1>3, <2>1 DEF Inside
<1>4. ASSUME i >= 1, Inside(pr, i), pr[i].op # "STOP" PROVE Inside(pr, i + 1)
  <2>1. PICK b \in 1 .. i - 1 : pr[b].op = "START" /\ \A l \in b + 1 .. i - 1 : pr[l].op # "STOP"
    BY <1>4 DEF Inside
  <2>2. b \in 1 .. i /\ \A l \in b + 1 .. i : l \in b + 1 .. i - 1 \/ l = i
    OBVIOUS
  <2>3. \A l \in b + 1 .. i : pr[l].op # "STOP"
    BY <1>4, <2>1, <2>2
  <2> QED
    BY <1>1, <2>1, <2>2, <2>3 DEF Inside
<1>5. Inside(pr, i + 1) => \E b \in 1 .. i : pr[b].op = "START" /\ \A l \in b + 1 .. i : pr[l].op # "STOP"
  BY <1>1 DEF Inside
<1> QED
  BY <1>2, <1>3, <1>4, <1>5

\* STOP ends the opening of the one START before it that is not ended.
LEMMA BegunIs ==
  ASSUME Proper, prog \in Programs, NEW h, h.pc \in 1 .. Len(prog)
  PROVE  /\ Begun(h) \in 1 .. h.pc
         /\ Call(h).op # "STOP" => Begun(h) = h.pc
         /\ Call(h).op = "STOP" => /\ prog[Begun(h)].op = "START"
                                   /\ \A l \in Begun(h) + 1 .. h.pc : prog[l].op # "START"
<1>0. h.pc \in Nat /\ Call(h) = prog[h.pc]
  BY ProgramIs DEF Call
<1>1. CASE Call(h).op # "STOP"
  BY <1>0, <1>1 DEF Begun
<1>2. CASE Call(h).op = "STOP"
  <2>1. Inside(prog, h.pc)
    BY <1>0, <1>2, ProgramIs
  <2>2. PICK b \in 1 .. h.pc - 1 : prog[b].op = "START" /\ \A l \in b + 1 .. h.pc - 1 : prog[l].op # "STOP"
    BY <2>1 DEF Inside
  <2>3. ASSUME NEW l \in b + 1 .. h.pc PROVE prog[l].op # "START"
    <3>1. l \in 1 .. Len(prog) /\ b \in 1 .. l - 1 /\ \A x \in b + 1 .. l - 1 : x \in b + 1 .. h.pc - 1
      BY <1>0, ProgramIs
    <3>2. Inside(prog, l)
      BY <2>2, <3>1 DEF Inside
    <3> QED
      BY <3>1, <3>2, ProgramIs DEF Aside
  <2>4. b \in 1 .. h.pc
    BY <1>0
  <2>5. Begun(h) = CHOOSE k \in 1 .. h.pc : prog[k].op = "START" /\ \A j \in k + 1 .. h.pc : prog[j].op # "START"
    BY <1>2 DEF Begun
  <2> QED
    BY <1>2, <2>2, <2>3, <2>4, <2>5
<1> QED
  BY <1>1, <1>2

\* What is opened in a call.
LEMMA OpenedIs ==
  ASSUME Proper, prog \in Programs, NEW h, h.pc \in 1 .. Len(prog)
  PROVE  /\ Opened(h) \in Seq(Entry) /\ Len(Opened(h)) = prog[Begun(h)].n
         /\ \A i \in 1 .. Len(Opened(h)) : Opened(h)[i] = [id |-> <<"value", Begun(h), i>>, ok |-> TRUE]
<1>1. Begun(h) \in 1 .. Len(prog) /\ Begun(h) \in Nat /\ prog[Begun(h)].n \in Nat
  <2>1. Begun(h) \in 1 .. Len(prog)
    BY BegunIs, ProgramIs
  <2> QED
    BY <2>1, ProgramIs
<1>2. \A i \in 1 .. prog[Begun(h)].n : [id |-> <<"value", Begun(h), i>>, ok |-> TRUE] \in Entry
  <2> SUFFICES ASSUME NEW i \in 1 .. prog[Begun(h)].n PROVE [id |-> <<"value", Begun(h), i>>, ok |-> TRUE] \in Entry
    OBVIOUS
  <2>1. <<"value", Begun(h), i>> \in Ids
    <3>1. i \in Nat
      BY <1>1
    <3> QED
      BY <1>1, <3>1 DEF Ids
  <2> QED
    BY <2>1 DEF Entry
<1> QED
  BY <1>1, <1>2 DEF Opened

\* One list of rounds after another.
LEMMA ChainJoin ==
  ASSUME NEW s \in Seq(Names), NEW t \in Seq(Names), Chained(s), Chained(t),
         s # <<>> /\ t # <<>> => s[Len(s)] \in Before(t[1])
  PROVE  /\ s \o t \in Seq(Names) /\ Len(s \o t) = Len(s) + Len(t)
         /\ \A i \in 1 .. Len(s) : (s \o t)[i] = s[i]
         /\ \A i \in 1 .. Len(t) : (s \o t)[Len(s) + i] = t[i]
         /\ Chained(s \o t)
         /\ \A op : Allowed(op, s) /\ Allowed(op, t) => Allowed(op, s \o t)
<1> DEFINE u == s \o t
           m == Len(s)
           n == Len(t)
<1>1. u \in Seq(Names) /\ Len(u) = m + n /\ m \in Nat /\ n \in Nat
  BY ConcatProperties
<1>2. \A i \in 1 .. m + n : u[i] = IF i <= m THEN s[i] ELSE t[i - m]
  BY ConcatProperties
<1>3. (s # <<>> <=> m > 0) /\ (t # <<>> <=> n > 0)
  BY EmptySeq
<1> HIDE DEF u, m, n
<1>4. \A i \in 1 .. m : u[i] = s[i]
  BY <1>1, <1>2
<1>5. ASSUME NEW i \in 1 .. n PROVE u[m + i] = t[i]
  <2>1. m + i \in 1 .. m + n /\ ~(m + i <= m) /\ (m + i) - m = i
    BY <1>1
  <2> QED
    BY <1>2, <2>1
<1>6. ASSUME NEW i \in 1 .. (m + n) - 1 PROVE u[i] \in Before(u[i + 1])
  <2>1. CASE i < m
    <3>1. i \in 1 .. m - 1 /\ i \in 1 .. m /\ i + 1 \in 1 .. m
      BY <1>1, <2>1
    <3> QED
      BY <1>4, <3>1 DEF Chained, m
  <2>2. CASE i = m
    <3>1. m > 0 /\ n > 0 /\ m \in 1 .. m /\ 1 \in 1 .. n
      BY <1>1, <2>2
    <3>2. u[m] = s[m] /\ u[m + 1] = t[1]
      BY <1>4, <1>5, <3>1
    <3> QED
      BY <1>3, <2>2, <3>1, <3>2 DEF m
  <2>3. CASE i > m
    <3> DEFINE j == i - m
    <3>1. j \in 1 .. n - 1 /\ j \in 1 .. n /\ j + 1 \in 1 .. n /\ m + j = i /\ m + (j + 1) = i + 1
      BY <1>1, <2>3
    <3> HIDE DEF j
    <3>2. u[m + j] = t[j] /\ u[m + (j + 1)] = t[j + 1]
      BY <1>5, <3>1
    <3>3. t[j] \in Before(t[j + 1])
      BY <3>1 DEF Chained, n
    <3> QED
      BY <3>1, <3>2, <3>3
  <2> QED
    BY <1>1, <2>1, <2>2, <2>3
<1>7. ASSUME NEW op, Allowed(op, s), Allowed(op, t), NEW i \in 1 .. m + n PROVE RoundOK(op, u[i])
  <2>1. CASE i <= m
    <3>1. i \in 1 .. m
      BY <1>1, <2>1
    <3> QED
      BY <1>4, <1>7, <3>1 DEF Allowed, m
  <2>2. CASE i > m
    <3> DEFINE j == i - m
    <3>1. j \in 1 .. n /\ m + j = i
      BY <1>1, <2>2
    <3> HIDE DEF j
    <3>2. u[i] = t[j]
      BY <1>5, <3>1
    <3> QED
      BY <1>7, <3>1, <3>2 DEF Allowed, n
  <2> QED
    BY <1>1, <2>1, <2>2
<1>8. Chained(u) /\ \A op : Allowed(op, s) /\ Allowed(op, t) => Allowed(op, u)
  BY <1>1, <1>6, <1>7 DEF Chained, Allowed
<1> QED
  BY <1>1, <1>4, <1>5, <1>8 DEF u, m, n

\* The list of rounds s can stand for a call op; what it begins with, and that
\* it ends as every call does.
Listed(op, s, first) ==
  /\ s \in Seq(Names) /\ Len(s) > 0 /\ Chained(s) /\ Allowed(op, s) /\ s[1] = first /\ s[Len(s)] \in LastRounds
  /\ op = "START" => Len(s) = 1
  /\ op = "PRIVATE_OUTPUT" => s[Len(s)] = "reset"
  /\ op = "STOP" => \A i \in 2 .. Len(s) : s[i] # "end"

NoCheck == {"START", "PRIVATE_INPUT", "INPUT_CLEAR"}

\* A check, with or without aux.
LEMMA CheckIs ==
  ASSUME NEW aux \in {<<>>, <<"aux">>}, type \in {"Full", "Q2"}
  PROVE  /\ \A op \in Ops \ NoCheck : Listed(op, CheckRounds(aux), IF type = "Full" THEN "seed" ELSE "hash")
         /\ \A i \in 1 .. Len(CheckRounds(aux)) : CheckRounds(aux)[i] # "end"
         /\ CheckRounds(aux)[Len(CheckRounds(aux))] = "reset"
<1> DEFINE S == <<"seed", "unseal">>
           C == <<"tau", "reveal">>
           K == <<"OK">>
           A == <<"hash">>
           Z == <<"reset">>
           Good(s) == s \in Seq(Names) /\ Chained(s) /\ (\A op \in Ops \ NoCheck : Allowed(op, s))
                      /\ \A i \in 1 .. Len(s) : s[i] # "end"
<1>0. <<>> \in Seq(Names) /\ <<"aux">> \in Seq(Names) /\ Chained(<<>>) /\ Chained(<<"aux">>)
  BY DEF Names, Chained, Before
<1>1. /\ S \in Seq(Names) /\ C \in Seq(Names) /\ K \in Seq(Names) /\ A \in Seq(Names) /\ Z \in Seq(Names)
      /\ aux \in Seq(Names)
  <2>1. S \in Seq(Names) /\ C \in Seq(Names) /\ K \in Seq(Names) /\ A \in Seq(Names) /\ Z \in Seq(Names)
    BY DEF Names
  <2> QED
    BY <1>0, <2>1
<1>2. Len(S) = 2 /\ Len(C) = 2 /\ Len(K) = 1 /\ Len(A) = 1 /\ Len(Z) = 1 /\ Len(aux) \in {0, 1}
  OBVIOUS
<1>3. Chained(S) /\ Chained(C) /\ Chained(K) /\ Chained(A) /\ Chained(Z) /\ Chained(aux)
  <2>1. Chained(S) /\ Chained(C) /\ Chained(K) /\ Chained(A) /\ Chained(Z)
    BY DEF Chained, Before
  <2> QED
    BY <1>0, <2>1
<1>4. ASSUME NEW op \in Ops \ NoCheck
      PROVE  /\ type = "Full" => Allowed(op, S) /\ Allowed(op, C) /\ Allowed(op, K)
             /\ type # "Full" => Allowed(op, A)
             /\ Allowed(op, Z) /\ Allowed(op, aux)
  BY DEF Allowed, RoundOK, Ops, NoCheck
<1>5. ASSUME NEW s, NEW t, Good(s), Good(t), Len(s) > 0, Len(t) > 0, s[Len(s)] \in Before(t[1])
      PROVE  /\ Good(s \o t) /\ Len(s \o t) = Len(s) + Len(t)
             /\ (s \o t)[1] = s[1] /\ (s \o t)[Len(s \o t)] = t[Len(t)]
  <2>1. /\ s \o t \in Seq(Names) /\ Len(s \o t) = Len(s) + Len(t)
        /\ \A i \in 1 .. Len(s) : (s \o t)[i] = s[i]
        /\ \A i \in 1 .. Len(t) : (s \o t)[Len(s) + i] = t[i]
        /\ Chained(s \o t)
        /\ \A op : Allowed(op, s) /\ Allowed(op, t) => Allowed(op, s \o t)
    BY <1>5, ChainJoin
  <2>2. Len(s) \in Nat /\ Len(t) \in Nat /\ 1 \in 1 .. Len(s) /\ Len(t) \in 1 .. Len(t)
    BY <1>5
  <2>3. ASSUME NEW i \in 1 .. Len(s \o t) PROVE (s \o t)[i] # "end"
    <3>1. CASE i \in 1 .. Len(s)
      BY <1>5, <2>1, <3>1
    <3>2. CASE i \notin 1 .. Len(s)
      <4> DEFINE j == i - Len(s)
      <4>1. j \in 1 .. Len(t) /\ Len(s) + j = i
        BY <2>1, <2>2, <3>2
      <4>2. (s \o t)[Len(s) + j] = t[j]
        BY <2>1, <4>1
      <4> HIDE DEF j
      <4> QED
        BY <1>5, <4>1, <4>2
    <3> QED
      BY <3>1, <3>2
  <2>4. \A op \in Ops \ NoCheck : Allowed(op, s \o t)
    BY <1>5, <2>1
  <2> QED
    BY <2>1, <2>2, <2>3, <2>4
<1>6. /\ type = "Full" => Good(S) /\ Good(C) /\ Good(K)
      /\ type # "Full" => Good(A)
      /\ Good(Z) /\ Good(aux)
  BY <1>1, <1>3, <1>4
<1> HIDE DEF Good
<1> DEFINE B == IF type = "Full" THEN S \o C \o K ELSE A
<1>7. Good(B) /\ Len(B) > 0 /\ B[1] = (IF type = "Full" THEN "seed" ELSE "hash") /\ B[Len(B)] \in {"OK", "hash"}
  <2>1. CASE type = "Full"
    <3>1. S[Len(S)] \in Before(C[1])
      BY DEF Before
    <3>2. Good(S \o C) /\ Len(S \o C) = 4 /\ (S \o C)[1] = "seed" /\ (S \o C)[Len(S \o C)] = "reveal"
      BY <1>2, <1>5, <1>6, <2>1, <3>1
    <3>3. (S \o C)[Len(S \o C)] \in Before(K[1])
      BY <3>2 DEF Before
    <3> DEFINE SC == S \o C
    <3> HIDE DEF SC
    <3>4. Good(SC) /\ Len(SC) = 4 /\ SC[1] = "seed" /\ SC[Len(SC)] \in Before(K[1])
      BY <3>2, <3>3 DEF SC
    <3>5. Good(SC \o K) /\ Len(SC \o K) = 5 /\ (SC \o K)[1] = "seed" /\ (SC \o K)[Len(SC \o K)] = "OK"
      <4>1. K[1] = "OK" /\ K[Len(K)] = "OK" /\ Len(K) = 1
        OBVIOUS
      <4> HIDE DEF K
      <4>2. /\ Good(SC \o K) /\ Len(SC \o K) = Len(SC) + Len(K)
            /\ (SC \o K)[1] = SC[1] /\ (SC \o K)[Len(SC \o K)] = K[Len(K)]
        <5>1. Good(SC) /\ Good(K) /\ Len(SC) > 0 /\ Len(K) > 0 /\ SC[Len(SC)] \in Before(K[1])
          BY <1>6, <2>1, <3>4, <4>1
        <5> QED
          BY <1>5, <5>1, Zenon
      <4> QED
        BY <3>4, <4>1, <4>2
    <3>6. B = SC \o K
      BY <2>1 DEF SC
    <3> HIDE DEF B
    <3> QED
      BY <2>1, <3>5, <3>6
  <2>2. CASE type # "Full"
    BY <1>6, <2>2
  <2> QED
    BY <2>1, <2>2
<1>8. CheckRounds(aux) = (B \o aux) \o Z
  BY DEF CheckRounds, Create_Random_Seed, Commit_And_Open
<1> HIDE DEF B
<1> DEFINE E == B \o aux
<1>9. /\ Good(E) /\ Len(E) > 0 /\ E[1] = (IF type = "Full" THEN "seed" ELSE "hash")
      /\ E[Len(E)] \in {"OK", "hash", "aux"}
  <2>1. CASE aux = <<>>
    <3>1. B \in Seq(Names)
      BY <1>7 DEF Good
    <3>2. E = B
      BY <2>1, <3>1
    <3> QED
      BY <1>7, <3>2
  <2>2. CASE aux = <<"aux">>
    <3>1. aux[1] = "aux" /\ Len(aux) = 1 /\ aux[Len(aux)] = "aux"
      BY <2>2
    <3>2. B[Len(B)] \in Before(aux[1])
      BY <1>7, <3>1 DEF Before
    <3>3. Len(B) \in Nat
      BY <1>7 DEF Good
    <3>4. /\ Good(E) /\ Len(E) = Len(B) + Len(aux)
          /\ E[1] = B[1] /\ E[Len(E)] = aux[Len(aux)]
      <4>1. Good(B) /\ Good(aux) /\ Len(B) > 0 /\ Len(aux) > 0
        BY <1>6, <1>7, <3>1
      <4> QED
        BY <1>5, <3>2, <4>1, Zenon
    <3> HIDE DEF E
    <3> QED
      BY <1>7, <3>1, <3>3, <3>4
  <2> QED
    BY <2>1, <2>2
<1> HIDE DEF E
<1>10. E[Len(E)] \in Before(Z[1])
  BY <1>9 DEF Before
<1> DEFINE X == E \o Z
<1>11. /\ Good(X) /\ Len(X) = Len(E) + 1 /\ X[1] = E[1] /\ X[Len(X)] = "reset"
  BY <1>2, <1>5, <1>6, <1>9, <1>10
<1>12. CheckRounds(aux) = X
  BY <1>8 DEF E
<1> HIDE DEF X
<1>13. /\ X \in Seq(Names) /\ Len(X) > 0 /\ Chained(X) /\ (\A op \in Ops \ NoCheck : Allowed(op, X))
       /\ \A i \in 1 .. Len(X) : X[i] # "end"
  BY <1>9, <1>11 DEF Good
<1>14. ASSUME NEW op \in Ops \ NoCheck PROVE Listed(op, X, IF type = "Full" THEN "seed" ELSE "hash")
  BY <1>9, <1>11, <1>13 DEF Listed, NoCheck, LastRounds
<1> QED
  BY <1>11, <1>12, <1>13, <1>14

\* The rounds of a call.
LEMMA RoundsOfIs ==
  ASSUME NEW op \in Ops, type \in {"Full", "Q2"}
  PROVE  \E first \in Names :
           /\ Listed(op, RoundsOf(op), first)
           /\ first = "begin" <=> op \in {"START", "PRIVATE_OUTPUT"}
           /\ first = "end" <=> op = "STOP"
           /\ first \notin {"count", "unseal", "tau", "reveal", "OK", "aux", "reset"}
<1> DEFINE Good(first) == /\ Listed(op, RoundsOf(op), first)
                          /\ first = "begin" <=> op \in {"START", "PRIVATE_OUTPUT"}
                          /\ first = "end" <=> op = "STOP"
                          /\ first \notin {"count", "unseal", "tau", "reveal", "OK", "aux", "reset"}
<1>1. ASSUME NEW r \in {"begin", "mask", "pub", "one", "cast", "distinct", "same"}, RoundsOf(op) = <<r>>,
             op \notin {"STOP", "PRIVATE_OUTPUT", "CHECK"}, r = "begin" <=> op = "START",
             RoundOK(op, r)
      PROVE  Good(r)
  <2>1. <<r>> \in Seq(Names) /\ Len(<<r>>) = 1 /\ <<r>>[1] = r
    BY DEF Names
  <2>2. Chained(<<r>>) /\ Allowed(op, <<r>>)
    BY <1>1, <2>1 DEF Chained, Allowed
  <2>3. Listed(op, <<r>>, r)
    BY <2>1, <2>2, <1>1 DEF Listed, LastRounds
  <2> QED
    BY <1>1, <2>3
<1>2. CASE op = "START"
  BY <1>1, <1>2 DEF RoundsOf, RoundOK, Names
<1>3. CASE op = "PRIVATE_INPUT"
  BY <1>1, <1>3 DEF RoundsOf, RoundOK, Names
<1>4. CASE op = "INPUT_CLEAR"
  BY <1>1, <1>4 DEF RoundsOf, RoundOK, Names
<1>5. CASE op = "OPEN_TO_ONE"
  BY <1>1, <1>5 DEF RoundsOf, RoundOK, Names
<1>6. CASE op = "BROADCAST"
  BY <1>1, <1>6 DEF RoundsOf, RoundOK, Names
<1>7. CASE op = "DISTINCT"
  BY <1>1, <1>7 DEF RoundsOf, RoundOK, Names
<1>8. CASE op = "CHECK_BROADCAST"
  BY <1>1, <1>8 DEF RoundsOf, RoundOK, Names
<1>9. CASE op = "STOP"
  <2> DEFINE s == <<"end", "count">>
  <2>1. RoundsOf(op) = s
    BY <1>9 DEF RoundsOf
  <2>2. s \in Seq(Names) /\ Len(s) = 2 /\ s[1] = "end" /\ s[2] = "count"
    BY DEF Names
  <2>3. Chained(s) /\ Allowed(op, s)
    BY <1>9, <2>2 DEF Chained, Allowed, Before, RoundOK
  <2>4. Listed(op, s, "end")
    BY <1>9, <2>2, <2>3 DEF Listed, LastRounds
  <2> QED
    BY <1>9, <2>1, <2>4 DEF Names
<1>10. CASE op = "CHECK"
  <2>1. RoundsOf(op) = CheckRounds(<<"aux">>)
    BY <1>10 DEF RoundsOf, RunOpenCheck
  <2>2. Listed(op, RoundsOf(op), IF type = "Full" THEN "seed" ELSE "hash")
    BY <1>10, <2>1, CheckIs DEF NoCheck
  <2> QED
    BY <1>10, <2>2 DEF Names
<1>11. CASE op = "PRIVATE_OUTPUT"
  <2> DEFINE s == <<"begin", "end", "count">>
             t == CheckRounds(<<"aux">>)
             x == s \o t
  <2>1. RoundsOf(op) = x
    BY <1>11 DEF RoundsOf, RunOpenCheck
  <2>2. s \in Seq(Names) /\ Len(s) = 3 /\ s[1] = "begin" /\ s[2] = "end" /\ s[3] = "count" /\ s # <<>>
    BY DEF Names
  <2>3. Chained(s) /\ Allowed(op, s)
    BY <1>11, <2>2 DEF Chained, Allowed, Before, RoundOK
  <2>4. Listed(op, t, IF type = "Full" THEN "seed" ELSE "hash")
    BY <1>11, CheckIs DEF NoCheck
  <2> HIDE DEF s, t
  <2>5. t \in Seq(Names) /\ Len(t) > 0 /\ Chained(t) /\ Allowed(op, t) /\ t[1] \in {"seed", "hash"} /\ t[Len(t)] \in LastRounds
    BY <2>4 DEF Listed
  <2>6. s[Len(s)] \in Before(t[1])
    BY <2>2, <2>5 DEF Before
  <2>7. /\ x \in Seq(Names) /\ Len(x) = Len(s) + Len(t)
        /\ \A i \in 1 .. Len(s) : x[i] = s[i]
        /\ \A i \in 1 .. Len(t) : x[Len(s) + i] = t[i]
        /\ Chained(x)
        /\ Allowed(op, x)
    BY <2>2, <2>3, <2>5, <2>6, ChainJoin
  <2> HIDE DEF x
  <2>8. Len(t) \in Nat /\ Len(t) \in 1 .. Len(t) /\ 1 \in 1 .. Len(s)
    BY <2>2, <2>5
  <2>9. x[1] = "begin" /\ x[Len(x)] \in LastRounds /\ Len(x) > 0
    <3>1. x[1] = s[1] /\ x[Len(s) + Len(t)] = t[Len(t)]
      BY <2>7, <2>8
    <3> QED
      BY <2>2, <2>5, <2>7, <2>8, <3>1
  <2>10. Listed(op, x, "begin")
    <3>1. t[Len(t)] = "reset"
      BY <2>4, <1>11 DEF Listed
    <3>2. x[Len(x)] = "reset"
      BY <2>7, <2>8, <3>1
    <3> QED
      BY <1>11, <2>7, <2>9, <3>2 DEF Listed
  <2> QED
    BY <1>11, <2>1, <2>10 DEF Names
<1> QED
  BY <1>2, <1>3, <1>4, <1>5, <1>6, <1>7, <1>8, <1>9, <1>10, <1>11 DEF Ops

-----------------------------------------------------------------------------
(* The rounds of a trace, one after the other.                             *)

\* What Before says of each round.
LEMMA AfterIs ==
  ASSUME NEW r \in Names, NEW x \in Names, r \in Before(x)
  PROVE  /\ r = "begin" <=> x = "end"
         /\ r = "end" <=> x = "count"
         /\ r \in {"count", "reset"} <=> x \in {"seed", "hash"}
         /\ r = "seed" <=> x = "unseal"
         /\ r = "unseal" <=> x = "tau"
         /\ r = "tau" <=> x = "reveal"
         /\ r = "reveal" <=> x = "OK"
         /\ r \in {"OK", "hash", "aux"} <=> x \in {"aux", "reset"}
         /\ r = "aux" => x = "reset"
         /\ r \notin {"mask", "pub", "one", "cast", "distinct", "same"}
BY DEF Before, Names

\* The round at which h is.
LEMMA RoundIs ==
  ASSUME Setting, NEW h \in Here, RoundsOK(h)
  PROVE  /\ Round(h) = "none" <=> h.rounds = <<>>
         /\ Round(h) \in Names \cup {"none"}
         /\ Round(h) # "none" =>
              /\ Len(h.rounds) \in Nat /\ Len(h.rounds) >= 1 /\ h.rounds[1] = Round(h)
              /\ h.pc \in 1 .. Len(prog) /\ Call(h) = prog[h.pc] /\ Call(h).op \in Ops /\ Call(h).n \in Nat /\ Call(h).who \in Players
              /\ RoundOK(Call(h).op, Round(h))
              /\ Tail(h.rounds) \in Seq(Names) /\ Len(Tail(h.rounds)) = Len(h.rounds) - 1
              /\ \A i \in 1 .. Len(h.rounds) - 1 : Tail(h.rounds)[i] = h.rounds[i + 1]
<1>1. h.rounds \in Seq(Names) /\ "none" \notin Names
  BY DEF Here, Names
<1>2. CASE h.rounds = <<>>
  BY <1>2 DEF Round
<1>3. CASE h.rounds # <<>>
  <2> DEFINE s == h.rounds
  <2>1. s \in Seq(Names) /\ s # <<>> /\ Len(s) \in Nat /\ Len(s) >= 1
    BY <1>1, <1>3, EmptySeq
  <2>2. Round(h) = s[1]
    BY <1>3, <2>1 DEF Round
  <2>3. s[1] \in Names
    BY <2>1
  <2>4. h.pc \in 1 .. Len(prog) /\ Allowed(Call(h).op, s)
    BY <1>3 DEF RoundsOK
  <2>5. RoundOK(Call(h).op, s[1])
    BY <2>1, <2>4 DEF Allowed
  <2>6. Call(h) = prog[h.pc] /\ Call(h).op \in Ops /\ Call(h).n \in Nat /\ Call(h).who \in Players
    BY <2>4, ProgramIs DEF Call, Setting
  <2>7. Tail(s) \in Seq(Names) /\ Len(Tail(s)) = Len(s) - 1 /\ \A i \in 1 .. Len(s) - 1 : Tail(s)[i] = s[i + 1]
    BY <2>1, HeadTailProperties
  <2> HIDE DEF s
  <2> QED
    BY <1>1, <1>3, <2>1, <2>2, <2>3, <2>4, <2>5, <2>6, <2>7 DEF s
<1> QED
  BY <1>2, <1>3

\* The count of h makes a check due.
CheckDue(h) == Round(h) = "count" /\ h.open_cnt + Len(Opened(h)) > Gap

\* The fields of the round that follows h.
LEMMA FollowingIs ==
  ASSUME NEW h, NEW n
  PROVE  LET g == Following(h, n) IN
         /\ g.pc = IF More(h) THEN h.pc + 1 ELSE h.pc
         /\ g.rounds = Rest(h) /\ g.open_cnt = Counted(h)
         /\ g.call = [c \in Connections |-> IF At(h, c, "begin") THEN h.pc ELSE IF At(h, c, "end") THEN 0 ELSE h.call[c]]
         /\ g.pend = [c \in Connections |-> IF At(h, c, "begin") THEN n ELSE h.pend[c]]
         /\ g.sent = [c \in Connections |-> [p \in Players |-> [q \in Players |->
                        IF Writes(h, c, p, q) THEN Append(h.sent[c][p][q], n) ELSE h.sent[c][p][q]]]]
         /\ g.opened = IF Round(h) = "end" THEN h.opened \o Opened(h) ELSE h.opened
         /\ g.pub = IF Round(h) = "pub" THEN Append(h.pub, Input(h)) ELSE h.pub
         /\ g.cast = IF Round(h) = "cast" THEN Append(h.cast, Words(h)) ELSE h.cast
         /\ g.fresh = IF Round(h) = "end" THEN h.fresh + Len(Opened(h)) ELSE IF Round(h) \in {"reveal", "hash"} THEN 0 ELSE h.fresh
         /\ g.pubs = IF Round(h) = "pub" THEN h.pubs + 1 ELSE IF Round(h) = "aux" THEN 0 ELSE h.pubs
         /\ g.casts = IF Round(h) = "cast" THEN h.casts + 1 ELSE IF Round(h) = "same" THEN 0 ELSE h.casts
         /\ g.bcast = IF Round(h) = "cast" THEN h.bcast \o FlattenSeq([i \in 1 .. N |-> Words(h)[i - 1]])
                      ELSE IF Round(h) = "same" THEN <<>> ELSE h.bcast
BY DEF Following

\* When no call is left the trace stays where it is.
LEMMA AtEnd ==
  ASSUME Setting, NEW h \in Here, NEW n, RoundsOK(h), Round(h) = "none", ~More(h)
  PROVE  Following(h, n).pc = h.pc /\ Following(h, n).rounds = h.rounds
<1>1. Rest(h) = <<>> /\ h.rounds = <<>>
  BY RoundIs DEF Rest
<1>2. Following(h, n).pc = (IF More(h) THEN h.pc + 1 ELSE h.pc) /\ Following(h, n).rounds = Rest(h)
  BY DEF Following
<1> QED
  BY <1>1, <1>2

\* A call begins.
LEMMA CallBegins ==
  ASSUME Setting, NEW h \in Here, NEW n, More(h)
  PROVE  LET g == Following(h, n)
             op == prog[h.pc + 1].op
         IN  /\ g.pc = h.pc + 1 /\ g.pc \in 1 .. Len(prog) /\ Call(g) = prog[g.pc] /\ op \in Ops
             /\ g.rounds \in Seq(Names) /\ g.rounds # <<>> /\ RoundsOK(g)
             /\ Round(g) = "begin" <=> op \in {"START", "PRIVATE_OUTPUT"}
             /\ Round(g) = "end" <=> op = "STOP"
             /\ Round(g) \notin {"none", "count", "unseal", "tau", "reveal", "OK", "aux", "reset"}
<1> DEFINE g == Following(h, n)
           op == prog[h.pc + 1].op
<1>1. h.pc \in 0 .. Len(prog) /\ h.pc < Len(prog) /\ Len(prog) \in Nat
  BY ProgramIs DEF Here, More, Setting
<1>2. g.pc = h.pc + 1 /\ g.rounds = RoundsOf(op) /\ g.pc \in 1 .. Len(prog)
  <2>1. g.pc = (IF More(h) THEN h.pc + 1 ELSE h.pc) /\ g.rounds = Rest(h)
    BY DEF Following
  <2>2. g.pc = h.pc + 1 /\ g.rounds = RoundsOf(op)
    BY <2>1 DEF Rest
  <2> HIDE DEF g
  <2> QED
    BY <1>1, <2>2
<1>3. op \in Ops /\ Call(g) = prog[g.pc] /\ Call(g).op = op
  BY <1>1, <1>2, ProgramIs DEF Call, Setting
<1>4. PICK first \in Names :
        /\ Listed(op, g.rounds, first)
        /\ first = "begin" <=> op \in {"START", "PRIVATE_OUTPUT"}
        /\ first = "end" <=> op = "STOP"
        /\ first \notin {"count", "unseal", "tau", "reveal", "OK", "aux", "reset"}
  BY <1>2, <1>3, RoundsOfIs DEF Setting
<1> HIDE DEF g, op
<1>5. g.rounds \in Seq(Names) /\ g.rounds # <<>> /\ g.rounds[1] = first
  BY <1>4 DEF Listed
<1>6. Round(g) = first
  BY <1>5 DEF Round
<1>7. RoundsOK(g)
  BY <1>2, <1>3, <1>4, <1>5 DEF RoundsOK, Listed
<1>8. "none" \notin Names
  BY DEF Names
<1> QED
  BY <1>2, <1>3, <1>4, <1>5, <1>6, <1>7, <1>8 DEF g, op

\* A round of a call ends.
LEMMA RoundEnds ==
  ASSUME Setting, NEW h \in Here, NEW n, RoundsOK(h), Round(h) # "none"
  PROVE  LET g == Following(h, n) IN
         /\ g.pc = h.pc /\ Call(g) = Call(h) /\ Begun(g) = Begun(h) /\ Opened(g) = Opened(h) /\ Connection(g) = Connection(h)
         /\ g.rounds \in Seq(Names) /\ RoundsOK(g)
         /\ CheckDue(h) => Round(g) = IF type = "Full" THEN "seed" ELSE "hash"
         /\ ~CheckDue(h) /\ Round(g) = "none" => Round(h) \in LastRounds /\ (Call(h).op = "PRIVATE_OUTPUT" => Round(h) = "reset")
         /\ ~CheckDue(h) /\ Round(g) # "none" => Round(h) \in Before(Round(g)) /\ Call(h).op # "START"
         /\ Call(h).op = "STOP" => Round(g) # "end"
<1> DEFINE g == Following(h, n)
           s == h.rounds
           t == Tail(s)
           x == g.rounds
<1>1. /\ s \in Seq(Names) /\ s # <<>> /\ Len(s) \in Nat /\ Len(s) >= 1 /\ s[1] = Round(h) /\ Round(h) \in Names
      /\ h.pc \in 1 .. Len(prog) /\ Call(h).op \in Ops /\ RoundOK(Call(h).op, Round(h))
      /\ t \in Seq(Names) /\ Len(t) = Len(s) - 1 /\ \A i \in 1 .. Len(s) - 1 : t[i] = s[i + 1]
  BY RoundIs DEF Here
<1>2. /\ Chained(s) /\ Allowed(Call(h).op, s) /\ s[Len(s)] \in LastRounds
      /\ Call(h).op = "START" => Len(s) = 1
      /\ Call(h).op = "PRIVATE_OUTPUT" => s[Len(s)] = "reset"
      /\ Call(h).op = "STOP" => \A i \in 2 .. Len(s) : s[i] # "end"
  BY <1>1 DEF RoundsOK
<1>3. g.pc = h.pc /\ x = IF CheckDue(h) THEN CheckRounds(<<>>) \o t ELSE t
  BY FollowingIs DEF Rest, More, CheckDue
<1>4. Call(g) = Call(h)
  BY <1>3 DEF Call
<1>5. Begun(g) = Begun(h) /\ Connection(g) = Connection(h)
  BY <1>3, <1>4 DEF Begun, Connection
<1>6. Opened(g) = Opened(h)
  BY <1>5 DEF Opened
<1> HIDE DEF g, s, t, x
<1>7. Chained(t) /\ Allowed(Call(h).op, t)
  <2>1. ASSUME NEW i \in 1 .. Len(t) - 1 PROVE t[i] \in Before(t[i + 1])
    <3>1. i + 1 \in 1 .. Len(s) - 1 /\ i \in 1 .. Len(s) - 1
      BY <1>1
    <3>2. t[i] = s[i + 1] /\ t[i + 1] = s[(i + 1) + 1]
      BY <1>1, <3>1
    <3>3. s[i + 1] \in Before(s[(i + 1) + 1])
      BY <1>2, <3>1 DEF Chained
    <3> QED
      BY <3>2, <3>3
  <2>2. ASSUME NEW i \in 1 .. Len(t) PROVE RoundOK(Call(h).op, t[i])
    <3>1. i \in 1 .. Len(s) - 1 /\ i + 1 \in 1 .. Len(s)
      BY <1>1
    <3> QED
      BY <1>1, <1>2, <3>1 DEF Allowed
  <2> QED
    BY <2>1, <2>2 DEF Chained, Allowed
<1>8. ASSUME t # <<>>
      PROVE  /\ Len(t) > 0 /\ t[1] = s[2] /\ s[1] \in Before(t[1]) /\ t[Len(t)] = s[Len(s)] /\ t[1] \in Names
             /\ Call(h).op # "START"
  <2>1. Len(t) \in Nat /\ Len(t) > 0
    BY <1>1, <1>8, EmptySeq
  <2>2. 1 \in 1 .. Len(s) - 1 /\ Len(t) \in 1 .. Len(s) - 1 /\ Len(t) + 1 = Len(s) /\ 1 + 1 = 2 /\ 1 \in 1 .. Len(t)
    BY <1>1, <2>1
  <2>3. t[1] = s[2] /\ t[Len(t)] = s[Len(s)]
    BY <1>1, <2>2
  <2>4. s[1] \in Before(s[2])
    BY <1>2, <2>2 DEF Chained
  <2>5. t[1] \in Names
    BY <1>1, <2>2
  <2> QED
    BY <1>2, <2>1, <2>2, <2>3, <2>4, <2>5
<1>9. t = <<>> => Len(s) = 1
  <2>1. t = <<>> => Len(t) = 0
    OBVIOUS
  <2> QED
    BY <1>1, <2>1
<1>10. ASSUME Call(h).op = "STOP", NEW i \in 1 .. Len(t) PROVE t[i] # "end"
  <2>1. i \in 1 .. Len(s) - 1 /\ i + 1 \in 2 .. Len(s)
    BY <1>1
  <2> QED
    BY <1>1, <1>2, <1>10, <2>1
<1>11. CASE ~CheckDue(h)
  <2>1. x = t
    BY <1>3, <1>11
  <2>2. RoundsOK(g)
    <3>1. CASE t = <<>>
      BY <1>7, <2>1, <3>1 DEF RoundsOK, x
    <3>2. CASE t # <<>>
      <4>1. t[Len(t)] \in LastRounds /\ (Call(h).op = "PRIVATE_OUTPUT" => t[Len(t)] = "reset")
        BY <1>2, <1>8, <3>2
      <4>2. Call(h).op = "STOP" => \A i \in 2 .. Len(t) : t[i] # "end"
        BY <1>10
      <4> QED
        BY <1>1, <1>3, <1>4, <1>7, <1>8, <2>1, <3>2, <4>1, <4>2 DEF RoundsOK, x
    <3> QED
      BY <3>1, <3>2
  <2>3. Round(g) = IF t = <<>> THEN "none" ELSE t[1]
    <3>1. t # <<>> => Head(t) = t[1]
      BY <1>1
    <3> QED
      BY <2>1, <3>1 DEF Round, x
  <2>4. "none" \notin Names
    BY DEF Names
  <2>5. Call(h).op = "STOP" => Round(g) # "end"
    BY <1>8, <1>10, <1>1, <2>3
  <2> QED
    BY <1>1, <1>2, <1>3, <1>4, <1>5, <1>6, <1>8, <1>9, <1>11, <2>1, <2>2, <2>3, <2>4, <2>5 DEF g, x
<1>12. CASE CheckDue(h)
  <2> DEFINE y == CheckRounds(<<>>)
             first == IF type = "Full" THEN "seed" ELSE "hash"
  <2>1. Round(h) = "count" /\ Call(h).op \in Ops \ NoCheck
    BY <1>1, <1>12 DEF CheckDue, RoundOK, NoCheck
  <2>2. Listed(Call(h).op, y, first) /\ (\A i \in 1 .. Len(y) : y[i] # "end") /\ y[Len(y)] = "reset"
    BY <2>1, CheckIs DEF Setting
  <2> HIDE DEF y, first
  <2>3. y \in Seq(Names) /\ Len(y) > 0 /\ Chained(y) /\ Allowed(Call(h).op, y) /\ y[1] = first /\ y[Len(y)] \in LastRounds
    BY <2>2 DEF Listed
  <2>4. t # <<>> => y[Len(y)] \in Before(t[1])
    <3>1. ASSUME t # <<>> PROVE "reset" \in Before(t[1])
      <4>1. t[1] \in Names /\ "count" \in Before(t[1]) /\ "count" \in Names
        BY <1>1, <1>8, <2>1, <3>1 DEF Names
      <4>2. t[1] \in {"seed", "hash"}
        BY <4>1, AfterIs
      <4> QED
        BY <4>2 DEF Before
    <3> QED
      BY <2>2, <3>1
  <2>5. /\ y \o t \in Seq(Names) /\ Len(y \o t) = Len(y) + Len(t)
        /\ \A i \in 1 .. Len(y) : (y \o t)[i] = y[i]
        /\ \A i \in 1 .. Len(t) : (y \o t)[Len(y) + i] = t[i]
        /\ Chained(y \o t) /\ Allowed(Call(h).op, y \o t)
    BY <1>1, <1>7, <2>3, <2>4, ChainJoin
  <2> DEFINE z == y \o t
  <2>6. /\ z \in Seq(Names) /\ Len(z) = Len(y) + Len(t) /\ Chained(z) /\ Allowed(Call(h).op, z)
        /\ \A i \in 1 .. Len(y) : z[i] = y[i]
        /\ \A i \in 1 .. Len(t) : z[Len(y) + i] = t[i]
    BY <2>5
  <2>7. x = z
    BY <1>3, <1>12 DEF y
  <2> HIDE DEF z
  <2>8. Len(y) \in Nat /\ Len(t) \in Nat /\ Len(z) > 0 /\ z # <<>>
    <3>1. Len(y) \in Nat /\ Len(t) \in Nat /\ Len(z) > 0
      BY <1>1, <2>3, <2>6
    <3> QED
      BY <3>1
  <2>9. z[1] = first /\ z[Len(z)] \in LastRounds /\ (Call(h).op = "PRIVATE_OUTPUT" => z[Len(z)] = "reset")
    <3>1. z[1] = first
      <4>1. 1 \in 1 .. Len(y)
        BY <2>3, <2>8
      <4> QED
        BY <2>3, <2>6, <4>1
    <3>2. CASE t = <<>>
      <4>1. Len(t) = 0 /\ Len(y) \in 1 .. Len(y)
        BY <2>3, <2>8, <3>2
      <4>2. Len(z) = Len(y) /\ z[Len(y)] = "reset"
        BY <2>2, <2>6, <2>8, <4>1
      <4> QED
        BY <3>1, <4>2 DEF LastRounds
    <3>3. CASE t # <<>>
      <4>1. Len(t) \in 1 .. Len(t)
        BY <1>8, <2>8, <3>3
      <4>2. z[Len(z)] = s[Len(s)]
        BY <1>8, <2>6, <3>3, <4>1
      <4> QED
        BY <1>2, <3>1, <4>2
    <3> QED
      BY <3>2, <3>3
  <2>10. ASSUME Call(h).op = "STOP", NEW i \in 1 .. Len(z) PROVE z[i] # "end"
    <3>1. CASE i \in 1 .. Len(y)
      BY <2>2, <2>6, <3>1
    <3>2. CASE i \notin 1 .. Len(y)
      <4> DEFINE j == i - Len(y)
      <4>1. j \in 1 .. Len(t) /\ Len(y) + j = i
        BY <2>6, <2>8, <3>2
      <4>2. z[Len(y) + j] = t[j]
        BY <2>6, <4>1
      <4> HIDE DEF j
      <4> QED
        BY <1>10, <2>10, <4>1, <4>2
    <3> QED
      BY <3>1, <3>2
  <2>11. Call(h).op = "STOP" => \A i \in 2 .. Len(z) : z[i] # "end"
    BY <2>8, <2>10
  <2>12. Call(h).op # "START"
    BY <2>1 DEF NoCheck
  <2>13. RoundsOK(g)
    BY <1>1, <1>3, <1>4, <2>6, <2>7, <2>8, <2>9, <2>11, <2>12 DEF RoundsOK, x
  <2>14. Round(g) = first /\ first # "end"
    BY <2>6, <2>7, <2>8, <2>9 DEF Round, x, first
  <2> QED
    BY <1>3, <1>4, <1>5, <1>6, <1>12, <2>6, <2>7, <2>13, <2>14 DEF g, x, first
<1> QED
  BY <1>11, <1>12

-----------------------------------------------------------------------------
(* What holds of every round of a trace.                                   *)

\* The constants, in the form in which they are used.
LEMMA SettingIs ==
  ASSUME Setting
  PROVE  /\ Proper /\ prog \in Programs /\ type \in {"Full", "Q2"} /\ Len(prog) \in Nat
         /\ prog \in Seq([op : Ops, n : Nat, who : Players])
         /\ N \in Nat /\ N >= 1 /\ Gap \in Nat
         /\ OpenC \in [Players -> SUBSET Players] /\ \A p \in Players : p \notin OpenC[p]
         /\ \A p \in Players : p \in Nat /\ p + 1 \in 1 .. N
         /\ \A i \in 1 .. N : i - 1 \in Players
         /\ Connections = {0, 1}
<1>1. Proper /\ prog \in Programs /\ type \in {"Full", "Q2"} /\ Len(prog) \in Nat /\ prog \in Seq([op : Ops, n : Nat, who : Players])
  BY ProgramIs DEF Setting
<1>2. /\ Gap \in Nat /\ OpenC \in [Players -> SUBSET Players] /\ \A p \in Players : p \notin OpenC[p]
  BY <1>1 DEF Proper
<1>3. N \in Nat /\ N >= 1
  BY PlayerAssumption
<1> QED
  BY <1>1, <1>2, <1>3 DEF Players, Connections

\* What the players say when nobody says anything wrong.
LEMMA WordsIs ==
  ASSUME Setting, NEW h \in Here
  PROVE  /\ \A q \in Players : Words(h)[q] = Word(<<"data", h.pc, q>>)
         /\ Words(h) \in Speech
         /\ Input(h) \in Entry
         /\ FlattenSeq([i \in 1 .. N |-> Words(h)[i - 1]]) \in Seq(Entry)
<1>1. h.pc \in Nat
  BY SettingIs DEF Here
<1>2. ASSUME NEW q \in Players PROVE Words(h)[q] = Word(<<"data", h.pc, q>>) /\ Words(h)[q] \in Seq(Entry) /\ Len(Words(h)[q]) <= 1
  <2>1. <<"data", h.pc, q>> \in Ids
    BY <1>1, SettingIs DEF Ids
  <2>2. [id |-> <<"data", h.pc, q>>, ok |-> TRUE] \in Entry
    BY <2>1 DEF Entry
  <2> DEFINE e == [id |-> <<"data", h.pc, q>>, ok |-> TRUE]
  <2>3. Words(h)[q] = <<e>> /\ Word(<<"data", h.pc, q>>) = <<e>>
    BY DEF Words, Word
  <2>4. e \in Entry
    BY <2>2
  <2> HIDE DEF e
  <2> QED
    BY <2>3, <2>4
<1>3. Words(h) \in Speech
  <2>1. Words(h) = [q \in Players |-> Words(h)[q]]
    BY DEF Words
  <2> QED
    BY <1>2, <2>1 DEF Speech
<1>4. Input(h) \in Entry
  <2>1. <<"input", h.pc, 0>> \in Ids
    BY <1>1 DEF Ids
  <2> QED
    BY <2>1 DEF Entry, Input
<1> DEFINE ss == [i \in 1 .. N |-> Words(h)[i - 1]]
<1>5. ss \in Seq(Seq(Entry)) /\ Len(ss) = N /\ \A i \in 1 .. Len(ss) : Len(ss[i]) <= 1
  <2>1. \A i \in 1 .. N : Words(h)[i - 1] \in Seq(Entry) /\ Len(Words(h)[i - 1]) <= 1
    BY <1>2, SettingIs
  <2>2. N \in Nat
    BY SettingIs
  <2> HIDE DEF Entry
  <2> QED
    BY <2>1, <2>2
<1> HIDE DEF ss
<1>6. FlattenSeq(ss) \in Seq(Entry)
  <2>1. Len(ss) > 0
    BY <1>5, SettingIs
  <2> QED
    BY <1>5, <2>1, FlattenOnes
<1> QED
  BY <1>2, <1>3, <1>4, <1>6 DEF ss

\* The round after h has the type of a round.
LEMMA FollowingType ==
  ASSUME Setting, NEW h \in Here, RoundsOK(h), NEW n \in Nat
  PROVE  Following(h, n) \in Here
<1> DEFINE g == Following(h, n)
<1>1. /\ h.pc \in 0 .. Len(prog) /\ h.open_cnt \in Nat /\ h.call \in [Connections -> Nat] /\ h.pend \in [Connections -> Nat]
      /\ h.sent \in Pairs(Seq(Nat)) /\ h.opened \in Seq(Entry) /\ h.pub \in Seq(Entry) /\ h.cast \in Seq(Speech)
      /\ h.fresh \in Nat /\ h.pubs \in Nat /\ h.casts \in Nat /\ h.bcast \in Seq(Entry)
  BY DEF Here
<1>2. g.pc \in 0 .. Len(prog) /\ g.rounds \in Seq(Names)
  <2>1. CASE More(h)
    <3>1. g.pc \in 1 .. Len(prog) /\ g.rounds \in Seq(Names)
      BY <2>1, CallBegins
    <3> QED
      BY <3>1, SettingIs
  <2>2. CASE Round(h) # "none"
    BY <1>1, <2>2, RoundEnds
  <2>3. CASE Round(h) = "none" /\ ~More(h)
    <3>1. g.pc = h.pc /\ g.rounds = h.rounds
      BY <2>3, AtEnd
    <3> QED
      BY <1>1, <3>1 DEF Here
  <2> QED
    BY <2>1, <2>2, <2>3
<1>3. Round(h) # "none" => Opened(h) \in Seq(Entry) /\ Len(Opened(h)) \in Nat
  <2>1. ASSUME Round(h) # "none" PROVE Opened(h) \in Seq(Entry)
    <3>1. h.pc \in 1 .. Len(prog)
      BY <2>1, RoundIs
    <3> QED
      BY <3>1, OpenedIs, SettingIs
  <2> QED
    BY <2>1
<1> DEFINE cnt == IF Round(h) = "count" THEN h.open_cnt + Len(Opened(h)) ELSE IF Round(h) = "reset" THEN 0 ELSE h.open_cnt
           call == [c \in Connections |-> IF At(h, c, "begin") THEN h.pc ELSE IF At(h, c, "end") THEN 0 ELSE h.call[c]]
           pend == [c \in Connections |-> IF At(h, c, "begin") THEN n ELSE h.pend[c]]
           sent == [c \in Connections |-> [p \in Players |-> [q \in Players |->
                      IF Writes(h, c, p, q) THEN Append(h.sent[c][p][q], n) ELSE h.sent[c][p][q]]]]
           opened == IF Round(h) = "end" THEN h.opened \o Opened(h) ELSE h.opened
           pub == IF Round(h) = "pub" THEN Append(h.pub, Input(h)) ELSE h.pub
           cast == IF Round(h) = "cast" THEN Append(h.cast, Words(h)) ELSE h.cast
           fresh == IF Round(h) = "end" THEN h.fresh + Len(Opened(h)) ELSE IF Round(h) \in {"reveal", "hash"} THEN 0 ELSE h.fresh
           pubs == IF Round(h) = "pub" THEN h.pubs + 1 ELSE IF Round(h) = "aux" THEN 0 ELSE h.pubs
           casts == IF Round(h) = "cast" THEN h.casts + 1 ELSE IF Round(h) = "same" THEN 0 ELSE h.casts
           flat == FlattenSeq([i \in 1 .. N |-> Words(h)[i - 1]])
           bcast == IF Round(h) = "cast" THEN h.bcast \o flat ELSE IF Round(h) = "same" THEN <<>> ELSE h.bcast
<1>4. cnt \in Nat /\ fresh \in Nat /\ pubs \in Nat /\ casts \in Nat
  <2>1. CASE Round(h) = "none"
    BY <1>1, <2>1
  <2>2. CASE Round(h) # "none"
    <3> DEFINE l == Len(Opened(h))
    <3>1. l \in Nat
      BY <1>3, <2>2
    <3> HIDE DEF l
    <3>2. h.open_cnt \in Nat /\ h.fresh \in Nat /\ h.pubs \in Nat /\ h.casts \in Nat
      BY DEF Here
    <3>3. h.open_cnt + l \in Nat /\ h.fresh + l \in Nat /\ h.pubs + 1 \in Nat /\ h.casts + 1 \in Nat
      BY <3>1, <3>2
    <3> QED
      BY <3>2, <3>3 DEF l
  <2> QED
    BY <2>1, <2>2
<1>5. call \in [Connections -> Nat] /\ pend \in [Connections -> Nat]
  <2>1. h.pc \in Nat
    BY <1>1, SettingIs
  <2> QED
    BY <1>1, <2>1
<1>6. sent \in Pairs(Seq(Nat))
  <2>1. \A c \in Connections, p, q \in Players : h.sent[c][p][q] \in Seq(Nat)
    BY <1>1 DEF Pairs
  <2>2. \A c \in Connections, p, q \in Players : Append(h.sent[c][p][q], n) \in Seq(Nat)
    BY <2>1
  <2> QED
    BY <2>1, <2>2 DEF Pairs
<1>7. opened \in Seq(Entry) /\ pub \in Seq(Entry)
  <2>1. Round(h) # "none" => h.opened \o Opened(h) \in Seq(Entry)
    BY <1>1, <1>3, ConcatProperties
  <2>2. Append(h.pub, Input(h)) \in Seq(Entry)
    BY <1>1, WordsIs, AppendProperties
  <2> QED
    BY <1>1, <2>1, <2>2
<1>8. cast \in Seq(Speech) /\ bcast \in Seq(Entry)
  <2>1. Words(h) \in Speech /\ flat \in Seq(Entry)
    BY WordsIs
  <2> DEFINE w == Words(h)
  <2>2. h.cast \in Seq(Speech) /\ w \in Speech
    BY <1>1, <2>1
  <2> HIDE DEF flat, w
  <2>3. Append(h.cast, w) \in Seq(Speech) /\ h.bcast \o flat \in Seq(Entry) /\ <<>> \in Seq(Entry)
    BY <1>1, <2>1, <2>2, AppendProperties, ConcatProperties
  <2> QED
    BY <1>1, <2>2, <2>3 DEF w
<1>9. g = [pc |-> g.pc, rounds |-> g.rounds, open_cnt |-> cnt, call |-> call, pend |-> pend, sent |-> sent,
           opened |-> opened, pub |-> pub, cast |-> cast, fresh |-> fresh, pubs |-> pubs, casts |-> casts, bcast |-> bcast]
  <2>1. g.pc = (IF More(h) THEN h.pc + 1 ELSE h.pc) /\ g.rounds = Rest(h)
    BY DEF Following
  <2> HIDE DEF call, pend, sent, opened, pub, cast, fresh, pubs, casts, flat
  <2> QED
    BY <2>1 DEF Following, Counted, call, pend, sent, opened, pub, cast, fresh, pubs, casts, flat
<1> HIDE DEF g, cnt, call, pend, sent, opened, pub, cast, fresh, pubs, casts, flat, bcast
<1>10. g \in Here
  <2> DEFINE C == [Connections -> Nat]
             P == Pairs(Seq(Nat))
             E == Seq(Entry)
             D == Seq(Speech)
             R == Seq(Names)
  <2>2. call \in C /\ pend \in C /\ sent \in P /\ opened \in E /\ pub \in E /\ cast \in D /\ bcast \in E /\ g.rounds \in R
    BY <1>2, <1>5, <1>6, <1>7, <1>8
  <2>3. Here = [pc : 0 .. Len(prog), rounds : R, open_cnt : Nat, call : C, pend : C, sent : P,
                opened : E, pub : E, cast : D, fresh : Nat, pubs : Nat, casts : Nat, bcast : E]
    BY DEF Here
  <2> HIDE DEF C, P, E, D, R
  <2> QED
    BY <1>2, <1>4, <1>9, <2>2, <2>3
<1> QED
  BY <1>10 DEF g

\* An opening that is not ended is that of the START before, or of the private
\* output that is under way.
LEMMA OpenStays ==
  ASSUME Setting, NEW h \in Here, RoundsOK(h), OpenOK(h), NEW n \in Nat
  PROVE  OpenOK(Following(h, n))
<1> DEFINE g == Following(h, n)
           op == Call(h).op
<1>1. g \in Here
  BY FollowingType
<1>2. /\ g.call[0] = IF At(h, 0, "begin") THEN h.pc ELSE IF At(h, 0, "end") THEN 0 ELSE h.call[0]
      /\ g.call[1] = IF At(h, 1, "begin") THEN h.pc ELSE IF At(h, 1, "end") THEN 0 ELSE h.call[1]
  <2>1. 0 \in Connections /\ 1 \in Connections
    BY DEF Connections
  <2> QED
    BY <2>1 DEF Following
<1>3. h.pc \in Nat /\ h.pc \in 0 .. Len(prog) /\ Len(prog) \in Nat
  BY SettingIs DEF Here
<1>4. /\ h.call[0] # 0 <=> IF h.rounds = <<>> THEN Inside(prog, h.pc + 1)
                           ELSE Inside(prog, h.pc) /\ (op = "STOP" => Round(h) = "end")
      /\ h.call[0] # 0 => /\ h.call[0] \in 1 .. h.pc /\ prog[h.call[0]].op = "START"
                          /\ \A l \in h.call[0] + 1 .. h.pc : prog[l].op \in Aside \/ (l = h.pc /\ prog[l].op = "STOP")
      /\ h.call[1] # 0 <=> Round(h) = "end" /\ op = "PRIVATE_OUTPUT"
      /\ h.call[1] # 0 => h.call[1] = h.pc
  BY DEF OpenOK
<1>5. Round(h) = "none" <=> h.rounds = <<>>
  BY RoundIs
<1> HIDE DEF g
<1>6. SUFFICES
        /\ g.call[0] # 0 <=> IF g.rounds = <<>> THEN Inside(prog, g.pc + 1)
                             ELSE Inside(prog, g.pc) /\ (Call(g).op = "STOP" => Round(g) = "end")
        /\ g.call[0] # 0 => /\ g.call[0] \in 1 .. g.pc /\ prog[g.call[0]].op = "START"
                            /\ \A l \in g.call[0] + 1 .. g.pc : prog[l].op \in Aside \/ (l = g.pc /\ prog[l].op = "STOP")
        /\ g.call[1] # 0 <=> Round(g) = "end" /\ Call(g).op = "PRIVATE_OUTPUT"
        /\ g.call[1] # 0 => g.call[1] = g.pc
  BY DEF OpenOK, g
<1>7. CASE Round(h) = "none" /\ ~More(h)
  <2>1. g.pc = h.pc /\ g.rounds = h.rounds
    BY <1>7, AtEnd DEF g
  <2>2. g.call[0] = h.call[0] /\ g.call[1] = h.call[1]
    BY <1>2, <1>7 DEF At
  <2>3. Round(g) = Round(h) /\ Call(g) = Call(h)
    BY <2>1 DEF Round, Call
  <2> QED
    BY <1>4, <2>1, <2>2, <2>3
<1>8. CASE More(h)
  <2>1. Round(h) = "none"
    BY <1>8 DEF More
  <2>2. g.call[0] = h.call[0] /\ g.call[1] = h.call[1]
    BY <1>2, <2>1 DEF At
  <2>3. /\ g.pc = h.pc + 1 /\ g.pc \in 1 .. Len(prog) /\ Call(g) = prog[g.pc] /\ g.rounds # <<>>
        /\ Round(g) = "begin" <=> Call(g).op \in {"START", "PRIVATE_OUTPUT"}
        /\ Round(g) = "end" <=> Call(g).op = "STOP"
    BY <1>8, CallBegins DEF g
  <2>4. ASSUME h.call[0] # 0, NEW l \in h.call[0] + 1 .. g.pc
        PROVE  prog[l].op \in Aside \/ (l = g.pc /\ prog[l].op = "STOP")
    <3>1. h.call[0] \in 1 .. h.pc /\ Inside(prog, h.pc + 1)
      BY <1>4, <1>5, <2>1, <2>4
    <3>2. CASE l = g.pc
      <4>1. prog[g.pc].op \in Aside \cup {"STOP"}
        BY <2>3, <3>1, ProgramIs, SettingIs
      <4> QED
        BY <3>2, <4>1
    <3>3. CASE l # g.pc
      <4>1. l \in h.call[0] + 1 .. h.pc
        BY <1>3, <2>3, <3>1, <3>3
      <4>2. prog[l].op \in Aside \/ (l = h.pc /\ prog[l].op = "STOP")
        BY <1>4, <2>4, <4>1
      <4>3. prog[h.pc].op # "STOP"
        BY <1>3, <3>1, InsideNext
      <4> QED
        BY <4>2, <4>3
    <3> QED
      BY <3>2, <3>3
  <2>5. h.call[0] # 0 => h.call[0] \in 1 .. g.pc /\ prog[h.call[0]].op = "START"
    BY <1>3, <1>4, <2>3
  <2> QED
    BY <1>4, <1>5, <2>1, <2>2, <2>3, <2>4, <2>5
<1>9. CASE Round(h) # "none"
  <2>1. /\ g.pc = h.pc /\ Call(g) = Call(h) /\ RoundsOK(g)
        /\ CheckDue(h) => Round(g) = IF type = "Full" THEN "seed" ELSE "hash"
        /\ ~CheckDue(h) /\ Round(g) = "none" => Round(h) \in LastRounds /\ (op = "PRIVATE_OUTPUT" => Round(h) = "reset")
        /\ ~CheckDue(h) /\ Round(g) # "none" => Round(h) \in Before(Round(g)) /\ op # "START"
    BY <1>9, RoundEnds DEF g
  <2>2. h.pc \in 1 .. Len(prog) /\ op = prog[h.pc].op /\ RoundOK(op, Round(h)) /\ Round(h) \in Names
    BY <1>9, RoundIs
  <2>3. (Round(g) = "none" <=> g.rounds = <<>>) /\ Round(g) \in Names \cup {"none"}
    BY <1>1, <2>1, RoundIs DEF g
  <2>4. Connection(h) = IF op = "PRIVATE_OUTPUT" THEN 1 ELSE IF op = "PRIVATE_INPUT" THEN 1 ELSE 0
    BY DEF Connection, PrivateIO
  <2>5. Inside(prog, h.pc + 1) <=> op = "START" \/ (Inside(prog, h.pc) /\ op # "STOP")
    BY <1>3, <2>2, InsideNext
  <2>6. CheckDue(h) => Round(h) = "count"
    BY DEF CheckDue
  <2> HIDE DEF op
  <2>7. CASE Round(h) = "begin"
    <3>1. ~CheckDue(h) /\ op \in {"START", "PRIVATE_OUTPUT"}
      BY <2>2, <2>6, <2>7 DEF RoundOK
    <3>2. CASE op = "START"
      <4>1. g.call[0] = h.pc /\ g.call[1] = h.call[1]
        BY <1>2, <2>4, <2>7, <3>2 DEF At
      <4>2. Round(g) = "none" /\ g.rounds = <<>>
        BY <2>1, <2>3, <3>1, <3>2
      <4>3. \A l \in h.pc + 1 .. h.pc : FALSE
        BY <1>3
      <4>4. h.call[1] = 0
        BY <1>4, <2>7
      <4>5. h.pc # 0 /\ h.pc \in 1 .. h.pc
        BY <2>2, <1>3
      <4>6. Inside(prog, g.pc + 1) /\ prog[g.pc].op = "START"
        BY <2>1, <2>2, <2>5, <3>2
      <4> QED
        BY <2>1, <4>1, <4>2, <4>3, <4>4, <4>5, <4>6
    <3>3. CASE op = "PRIVATE_OUTPUT"
      <4>1. g.call[1] = h.pc /\ g.call[0] = h.call[0]
        BY <1>2, <2>4, <2>7, <3>3 DEF At
      <4>2. Round(g) # "none"
        BY <2>1, <2>7, <3>1, <3>3
      <4>3. Round(h) \in Names /\ Round(g) \in Names /\ Round(h) \in Before(Round(g))
        BY <2>1, <2>2, <2>3, <3>1, <4>2
      <4>4. Round(g) = "end"
        BY <2>7, <4>3, AfterIs
      <4>5. h.pc # 0
        BY <2>2, <1>3
      <4> QED
        BY <1>4, <1>5, <1>9, <2>1, <2>3, <3>3, <4>1, <4>2, <4>4, <4>5 DEF op
    <3> QED
      BY <3>1, <3>2, <3>3
  <2>8. CASE Round(h) = "end"
    <3>1. ~CheckDue(h) /\ op \in {"STOP", "PRIVATE_OUTPUT"}
      BY <2>2, <2>6, <2>8 DEF RoundOK
    <3>2. Round(g) # "none"
      BY <2>1, <2>8, <3>1 DEF LastRounds
    <3>3. Round(h) \in Names /\ Round(g) \in Names /\ Round(h) \in Before(Round(g))
      BY <2>1, <2>2, <2>3, <3>1, <3>2
    <3>4. Round(g) = "count"
      BY <2>8, <3>3, AfterIs
    <3>5. CASE op = "STOP"
      <4>1. g.call[0] = 0 /\ g.call[1] = h.call[1]
        BY <1>2, <2>4, <2>8, <3>5 DEF At
      <4> QED
        BY <1>4, <2>1, <2>3, <3>2, <3>4, <3>5, <4>1 DEF op
    <3>6. CASE op = "PRIVATE_OUTPUT"
      <4>1. g.call[1] = 0 /\ g.call[0] = h.call[0]
        BY <1>2, <2>4, <2>8, <3>6 DEF At
      <4> QED
        BY <1>4, <1>5, <1>9, <2>1, <2>3, <3>2, <3>4, <3>6, <4>1 DEF op
    <3> QED
      BY <3>1, <3>5, <3>6
  <2>9. CASE Round(h) \notin {"begin", "end"}
    <3>1. g.call[0] = h.call[0] /\ g.call[1] = h.call[1]
      BY <1>2, <2>9 DEF At
    <3>2. Round(g) # "end"
      <4>1. CASE CheckDue(h)
        BY <2>1, <4>1
      <4>2. CASE ~CheckDue(h) /\ Round(g) # "none"
        <5>1. Round(h) \in Names /\ Round(g) \in Names /\ Round(h) \in Before(Round(g))
          BY <2>1, <2>2, <2>3, <4>2
        <5> QED
          BY <2>9, <5>1, AfterIs
      <4> QED
        BY <4>1, <4>2
    <3>3. op # "START"
      BY <2>2, <2>9 DEF RoundOK
    <3> QED
      BY <1>4, <1>5, <1>9, <2>1, <2>3, <2>5, <2>9, <3>1, <3>2, <3>3 DEF op
  <2> QED
    BY <2>7, <2>8, <2>9
<1> QED
  BY <1>7, <1>8, <1>9 DEF More

\* What is not checked is what open_cnt counts, but while it is being counted
\* or checked.
LEMMA CountsStay ==
  ASSUME Setting, NEW h \in Here, RoundsOK(h), CountsOK(h), NEW n \in Nat
  PROVE  CountsOK(Following(h, n))
<1> DEFINE g == Following(h, n)
           l == Len(Opened(h))
<1>1. g \in Here
  BY FollowingType
<1>2. /\ g.opened = IF Round(h) = "end" THEN h.opened \o Opened(h) ELSE h.opened
      /\ g.pub = IF Round(h) = "pub" THEN Append(h.pub, Input(h)) ELSE h.pub
      /\ g.cast = IF Round(h) = "cast" THEN Append(h.cast, Words(h)) ELSE h.cast
      /\ g.fresh = IF Round(h) = "end" THEN h.fresh + l ELSE IF Round(h) \in {"reveal", "hash"} THEN 0 ELSE h.fresh
      /\ g.pubs = IF Round(h) = "pub" THEN h.pubs + 1 ELSE IF Round(h) = "aux" THEN 0 ELSE h.pubs
      /\ g.casts = IF Round(h) = "cast" THEN h.casts + 1 ELSE IF Round(h) = "same" THEN 0 ELSE h.casts
      /\ g.open_cnt = IF Round(h) = "count" THEN h.open_cnt + l ELSE IF Round(h) = "reset" THEN 0 ELSE h.open_cnt
  BY DEF Following, Counted
<1>3. /\ h.open_cnt \in Nat /\ h.fresh \in Nat /\ h.pubs \in Nat /\ h.casts \in Nat /\ Gap \in Nat
      /\ h.opened \in Seq(Entry) /\ h.pub \in Seq(Entry) /\ h.cast \in Seq(Speech)
  BY SettingIs DEF Here
<1>4. /\ h.fresh <= Len(h.opened) /\ h.casts <= Len(h.cast) /\ h.pubs <= Len(h.pub)
      /\ Round(h) \in {"OK", "aux", "reset"} => h.fresh = 0
      /\ Round(h) = "count" => h.fresh = h.open_cnt + l
      /\ Round(h) \notin {"OK", "aux", "reset", "count"} => h.fresh = h.open_cnt
      /\ Round(h) \notin Checking => h.open_cnt <= Gap
  <2>1. h.fresh = CASE Round(h) \in {"OK", "aux", "reset"} -> 0
                    [] Round(h) = "count" -> h.open_cnt + l
                    [] Round(h) \notin {"OK", "aux", "reset", "count"} -> h.open_cnt
    BY DEF CountsOK
  <2>2. /\ h.fresh <= Len(h.opened) /\ h.casts <= Len(h.cast) /\ h.pubs <= Len(h.pub)
        /\ Round(h) \notin Checking => h.open_cnt <= Gap
    BY DEF CountsOK
  <2> QED
    BY <2>1, <2>2
<1> HIDE DEF g, l
<1>5. SUFFICES
        /\ g.fresh <= Len(g.opened) /\ g.casts <= Len(g.cast) /\ g.pubs <= Len(g.pub)
        /\ Round(g) \in {"OK", "aux", "reset"} => g.fresh = 0
        /\ Round(g) = "count" => g.fresh = g.open_cnt + Len(Opened(g))
        /\ Round(g) \notin {"OK", "aux", "reset", "count"} => g.fresh = g.open_cnt
        /\ Round(g) \notin Checking => g.open_cnt <= Gap
  <2>1. g.fresh = CASE Round(g) \in {"OK", "aux", "reset"} -> 0
                    [] Round(g) = "count" -> g.open_cnt + Len(Opened(g))
                    [] Round(g) \notin {"OK", "aux", "reset", "count"} -> g.open_cnt
    BY <1>5
  <2> QED
    BY <1>5, <2>1 DEF CountsOK, g
<1>6. Len(h.opened) \in Nat /\ Len(h.pub) \in Nat /\ Len(h.cast) \in Nat
  BY <1>3
<1>7. CASE Round(h) = "none"
  <2>1. /\ g.fresh = h.fresh /\ g.open_cnt = h.open_cnt /\ g.casts = h.casts /\ g.pubs = h.pubs
        /\ g.opened = h.opened /\ g.cast = h.cast /\ g.pub = h.pub
    BY <1>2, <1>7
  <2>2. CASE More(h)
    <3>1. Round(g) \notin {"none", "count", "unseal", "tau", "reveal", "OK", "aux", "reset"}
      BY <2>2, CallBegins DEF g
    <3> QED
      BY <1>4, <1>7, <2>1, <3>1 DEF Checking
  <2>3. CASE ~More(h)
    <3>1. g.pc = h.pc /\ g.rounds = h.rounds
      BY <1>7, <2>3, AtEnd DEF g
    <3>2. Round(g) = "none"
      BY <1>7, <3>1 DEF Round
    <3> QED
      BY <1>4, <1>7, <2>1, <3>2 DEF Checking
  <2> QED
    BY <2>2, <2>3
<1>8. CASE Round(h) # "none"
  <2>1. /\ RoundsOK(g) /\ Len(Opened(g)) = l
        /\ CheckDue(h) => Round(g) = IF type = "Full" THEN "seed" ELSE "hash"
        /\ ~CheckDue(h) /\ Round(g) = "none" => Round(h) \in LastRounds
        /\ ~CheckDue(h) /\ Round(g) # "none" => Round(h) \in Before(Round(g))
    BY <1>8, RoundEnds DEF g, l
  <2>2. h.pc \in 1 .. Len(prog) /\ Round(h) \in Names
    BY <1>8, RoundIs
  <2>3. Round(g) \in Names \cup {"none"}
    BY <1>1, <2>1, RoundIs DEF g
  <2>4. l \in Nat /\ Opened(h) \in Seq(Entry)
    BY <2>2, OpenedIs, SettingIs DEF l
  <2>5. CheckDue(h) <=> Round(h) = "count" /\ h.open_cnt + l > Gap
    BY DEF CheckDue, l
  <2>6. g.fresh <= Len(g.opened) /\ g.casts <= Len(g.cast) /\ g.pubs <= Len(g.pub)
    <3>1. Len(h.opened \o Opened(h)) = Len(h.opened) + l
      BY <1>3, <2>4, ConcatProperties DEF l
    <3>2. Len(Append(h.pub, Input(h))) = Len(h.pub) + 1
      BY <1>3
    <3>3. Len(Append(h.cast, Words(h))) = Len(h.cast) + 1
      <4> DEFINE w == Words(h)
      <4> HIDE DEF w
      <4>1. Len(Append(h.cast, w)) = Len(h.cast) + 1
        BY <1>3
      <4> QED
        BY <4>1 DEF w
    <3>4. CASE Round(h) = "end"
      BY <1>2, <1>3, <1>4, <1>6, <2>4, <3>1, <3>4
    <3>5. CASE Round(h) = "pub"
      BY <1>2, <1>3, <1>4, <1>6, <3>2, <3>5
    <3>6. CASE Round(h) = "cast"
      BY <1>2, <1>3, <1>4, <1>6, <3>3, <3>6
    <3>7. CASE Round(h) \notin {"end", "pub", "cast"}
      BY <1>2, <1>3, <1>4, <1>6, <3>7
    <3> QED
      BY <3>4, <3>5, <3>6, <3>7
  <2>7. /\ Round(h) = "begin" => Round(g) \in {"none", "end"}
        /\ Round(h) = "end" => Round(g) = "count"
        /\ Round(h) \in {"count", "reset"} => Round(g) \in {"none", "seed", "hash"}
        /\ Round(h) = "seed" => Round(g) = "unseal"
        /\ Round(h) = "unseal" => Round(g) = "tau"
        /\ Round(h) = "tau" => Round(g) = "reveal"
        /\ Round(h) = "reveal" => Round(g) = "OK"
        /\ Round(h) \in {"OK", "hash", "aux"} => Round(g) \in {"aux", "reset"}
        /\ Round(h) \in {"mask", "pub", "one", "cast", "distinct", "same"} => Round(g) = "none"
    <3>1. CASE CheckDue(h)
      BY <2>1, <2>5, <3>1
    <3>2. CASE ~CheckDue(h) /\ Round(g) = "none"
      BY <2>1, <3>2 DEF LastRounds
    <3>3. CASE ~CheckDue(h) /\ Round(g) # "none"
      <4>1. Round(h) \in Names /\ Round(g) \in Names /\ Round(h) \in Before(Round(g))
        BY <2>1, <2>2, <2>3, <3>3
      <4> QED
        BY <4>1, AfterIs
    <3> QED
      BY <3>1, <3>2, <3>3
  <2>8. Round(h) \in {"begin", "mask", "pub", "one", "cast", "distinct", "same"} \cup {"seed", "unseal", "tau"}
          \cup {"end", "count", "reset", "reveal", "hash", "OK", "aux"}
    BY <2>2 DEF Names
  <2>9. CASE Round(h) \in {"begin", "mask", "pub", "one", "cast", "distinct", "same"}
    BY <1>2, <1>4, <2>6, <2>7, <2>9 DEF Checking
  <2>10. CASE Round(h) \in {"seed", "unseal", "tau"}
    BY <1>2, <1>4, <2>6, <2>7, <2>10 DEF Checking
  <2>11. CASE Round(h) = "end"
    BY <1>2, <1>3, <1>4, <2>1, <2>4, <2>6, <2>7, <2>11 DEF Checking
  <2>12. CASE Round(h) = "count"
    <3>1. g.fresh = h.fresh /\ h.fresh = h.open_cnt + l /\ g.open_cnt = h.open_cnt + l
      BY <1>2, <1>4, <2>12
    <3>2. Round(g) \notin Checking => g.open_cnt <= Gap
      <4>1. CASE CheckDue(h)
        BY <2>1, <4>1 DEF Checking
      <4>2. CASE ~CheckDue(h)
        BY <1>3, <2>4, <2>5, <2>12, <3>1, <4>2
      <4> QED
        BY <4>1, <4>2
    <3> QED
      BY <2>6, <2>7, <2>12, <3>1, <3>2
  <2>13. CASE Round(h) = "reset"
    BY <1>2, <1>3, <1>4, <2>6, <2>7, <2>13
  <2>14. CASE Round(h) \in {"reveal", "hash", "OK", "aux"}
    BY <1>2, <1>4, <2>6, <2>7, <2>14 DEF Checking
  <2> QED
    BY <2>8, <2>9, <2>10, <2>11, <2>12, <2>13, <2>14
<1> QED
  BY <1>7, <1>8

\* Every round of a trace is as it should be.
LEMMA TraceFacts ==
  ASSUME Setting, NEW H, Trace(H), NEW n \in Nat
  PROVE  RoundFacts(H[n])
<1> DEFINE T == {m \in Nat : RoundFacts(H[m])}
<1>1. H[0] = Start /\ \A m \in Nat : H[m + 1] = Following(H[m], m)
  BY DEF Trace
<1>2. RoundFacts(Start)
  <2>1. Start \in Here
    <3>1. /\ [c \in Connections |-> 0] \in [Connections -> Nat]
          /\ [c \in Connections |-> [p \in Players |-> [q \in Players |-> <<>>]]] \in Pairs(Seq(Nat))
          /\ <<>> \in Seq(Names) /\ <<>> \in Seq(Entry) /\ <<>> \in Seq(Speech)
          /\ 0 \in 0 .. Len(prog)
      BY SettingIs DEF Pairs
    <3> QED
      BY <3>1 DEF Start, Here
  <2>2. Start.rounds = <<>> /\ Round(Start) = "none" /\ Start.pc = 0
    BY DEF Start, Round
  <2>3. RoundsOK(Start)
    <3>1. Chained(<<>>)
      BY DEF Chained
    <3> QED
      BY <2>2, <3>1 DEF RoundsOK
  <2>4. OpenOK(Start)
    <3>1. Start.call[0] = 0 /\ Start.call[1] = 0
      BY DEF Start, Connections
    <3>2. ~Inside(prog, Start.pc + 1)
      BY <2>2 DEF Inside
    <3> QED
      BY <2>2, <3>1, <3>2 DEF OpenOK
  <2>5. CountsOK(Start)
    <3>1. /\ Start.fresh = 0 /\ Start.casts = 0 /\ Start.pubs = 0 /\ Start.open_cnt = 0
          /\ Start.opened = <<>> /\ Start.cast = <<>> /\ Start.pub = <<>>
      BY DEF Start
    <3>2. Start.fresh = CASE Round(Start) \in {"OK", "aux", "reset"} -> 0
                          [] Round(Start) = "count" -> Start.open_cnt + Len(Opened(Start))
                          [] Round(Start) \notin {"OK", "aux", "reset", "count"} -> Start.open_cnt
      BY <2>2, <3>1
    <3>3. Len(<<>>) = 0 /\ 0 <= 0 /\ 0 <= Gap
      BY SettingIs
    <3> QED
      BY <3>1, <3>2, <3>3 DEF CountsOK
  <2> QED
    BY <2>1, <2>3, <2>4, <2>5 DEF RoundFacts
<1>3. ASSUME NEW m \in Nat, RoundFacts(H[m]) PROVE RoundFacts(H[m + 1])
  <2>1. H[m] \in Here /\ RoundsOK(H[m]) /\ OpenOK(H[m]) /\ CountsOK(H[m])
    BY <1>3 DEF RoundFacts
  <2> DEFINE h == H[m]
             g == Following(h, m)
  <2>2. H[m + 1] = g
    BY <1>1
  <2>3. g \in Here /\ OpenOK(g) /\ CountsOK(g)
    BY <2>1, FollowingType, OpenStays, CountsStay
  <2>4. RoundsOK(g)
    <3>1. CASE More(h)
      BY <2>1, <3>1, CallBegins
    <3>2. CASE Round(h) # "none"
      BY <2>1, <3>2, RoundEnds
    <3>3. CASE Round(h) = "none" /\ ~More(h)
      <4>1. g.pc = h.pc /\ g.rounds = h.rounds
        BY <2>1, <3>3, AtEnd
      <4>2. Call(g) = Call(h)
        BY <4>1 DEF Call
      <4> HIDE DEF g
      <4> QED
        BY <2>1, <4>1, <4>2 DEF RoundsOK
    <3> QED
      BY <3>1, <3>2, <3>3
  <2> HIDE DEF g
  <2> QED
    BY <2>2, <2>3, <2>4 DEF RoundFacts
<1> HIDE DEF T
<1>4. 0 \in T /\ \A m \in Nat : m \in T => m + 1 \in T
  BY <1>1, <1>2, <1>3 DEF T
<1>5. n \in T
  BY <1>4, Induct
<1> QED
  BY <1>5 DEF T

-----------------------------------------------------------------------------
(* What was written before a round.                                        *)

\* The opening that is not ended on the connection of h: the one h ends, and
\* none if h writes or counts.
LEMMA CallIs ==
  ASSUME Setting, NEW h, RoundFacts(h), Round(h) # "none"
  PROVE  /\ Connection(h) \in Connections
         /\ Round(h) = "end" => h.call[Connection(h)] = Begun(h) /\ Begun(h) # 0
         /\ Round(h) \notin {"end", "pub"} => h.call[Connection(h)] = 0
<1> DEFINE op == Call(h).op
           c == Connection(h)
<1>1. h \in Here /\ RoundsOK(h) /\ OpenOK(h)
  BY DEF RoundFacts
<1>2. /\ h.rounds # <<>> /\ h.pc \in 1 .. Len(prog) /\ op = prog[h.pc].op /\ op \in Ops /\ RoundOK(op, Round(h))
  BY <1>1, RoundIs
<1>3. /\ h.call[0] # 0 <=> Inside(prog, h.pc) /\ (op = "STOP" => Round(h) = "end")
      /\ h.call[0] # 0 => /\ h.call[0] \in 1 .. h.pc /\ prog[h.call[0]].op = "START"
                          /\ \A l \in h.call[0] + 1 .. h.pc : prog[l].op \in Aside \/ (l = h.pc /\ prog[l].op = "STOP")
      /\ h.call[1] # 0 <=> Round(h) = "end" /\ op = "PRIVATE_OUTPUT"
      /\ h.call[1] # 0 => h.call[1] = h.pc
  BY <1>1, <1>2 DEF OpenOK
<1>4. c = IF op \in {"PRIVATE_INPUT", "PRIVATE_OUTPUT"} THEN 1 ELSE 0
  BY DEF Connection, PrivateIO
<1>5. c \in Connections
  BY <1>4 DEF Connections
<1>6. IF Inside(prog, h.pc) THEN op \in Aside \cup {"STOP"} ELSE op # "STOP"
  BY <1>2, ProgramIs, SettingIs
<1>7. /\ Begun(h) \in 1 .. h.pc
      /\ op # "STOP" => Begun(h) = h.pc
      /\ op = "STOP" => prog[Begun(h)].op = "START" /\ \A l \in Begun(h) + 1 .. h.pc : prog[l].op # "START"
  BY <1>2, BegunIs, SettingIs
<1> HIDE DEF op, c
<1>8. Begun(h) # 0 /\ h.pc \in Nat
  <2>1. h.pc \in Nat
    BY <1>1, SettingIs DEF Here
  <2> QED
    BY <1>7, <2>1
<1>9. ASSUME Round(h) = "end" PROVE h.call[c] = Begun(h)
  <2>1. op \in {"STOP", "PRIVATE_OUTPUT"}
    BY <1>2, <1>9 DEF RoundOK
  <2>2. CASE op = "PRIVATE_OUTPUT"
    BY <1>3, <1>4, <1>7, <1>9, <2>2
  <2>3. CASE op = "STOP"
    <3> DEFINE a == h.call[0]
               b == Begun(h)
    <3>1. c = 0 /\ Inside(prog, h.pc) /\ a # 0
      BY <1>3, <1>4, <1>6, <1>9, <2>3
    <3>2. a \in 1 .. h.pc /\ b \in 1 .. h.pc /\ prog[a].op = "START" /\ prog[b].op = "START"
      BY <1>3, <1>7, <2>3, <3>1
    <3>3. \A l \in a + 1 .. h.pc : prog[l].op # "START"
      BY <1>3, <3>1 DEF Aside
    <3>4. \A l \in b + 1 .. h.pc : prog[l].op # "START"
      BY <1>7, <2>3
    <3> HIDE DEF a, b
    <3>5. ~(a < b) /\ ~(b < a)
      <4>1. a < b => b \in a + 1 .. h.pc
        BY <1>8, <3>2
      <4>2. b < a => a \in b + 1 .. h.pc
        BY <1>8, <3>2
      <4> QED
        BY <3>2, <3>3, <3>4, <4>1, <4>2
    <3>6. a = b
      BY <1>8, <3>2, <3>5
    <3> QED
      BY <3>1, <3>6 DEF a, b
  <2> QED
    BY <2>1, <2>2, <2>3
<1>10. ASSUME Round(h) \notin {"end", "pub"} PROVE h.call[c] = 0
  <2>1. CASE c = 1
    BY <1>3, <1>10, <2>1
  <2>2. CASE c = 0
    <3>1. op \notin {"PRIVATE_INPUT", "PRIVATE_OUTPUT"}
      BY <1>4, <2>2
    <3>2. op # "INPUT_CLEAR"
      BY <1>2, <1>10 DEF RoundOK
    <3> QED
      BY <1>3, <1>6, <1>10, <2>2, <3>1, <3>2 DEF Aside
  <2> QED
    BY <1>4, <2>1, <2>2
<1> QED
  BY <1>5, <1>8, <1>9, <1>10 DEF c

\* In a round in which something goes from p to q.
LEMMA TalkIs ==
  ASSUME NEW h, NEW c, NEW p, NEW q
  PROVE  /\ Talk(h, c, p, q) => c = Connection(h) /\ Round(h) \notin {"none", "count", "reset", "pub"}
         /\ Round(h) \in {"begin", "end"} => (Talk(h, c, p, q) <=> c = Connection(h) /\ Shares(p, q))
         /\ Writes(h, c, p, q) => Talk(h, c, p, q) /\ Round(h) # "end"
         /\ Reads(h, c, p, q) => Talk(h, c, p, q) /\ Round(h) # "begin"
         /\ Talk(h, c, p, q) /\ Round(h) # "end" => Writes(h, c, p, q)
         /\ Talk(h, c, p, q) /\ Round(h) # "begin" => Reads(h, c, p, q)
BY DEF Talk, Writes, Reads, Everyone

\* The fields that say what was written, in the round after.
LEMMA SentIs ==
  ASSUME Setting, NEW h \in Here, NEW n \in Nat, NEW c \in Connections, NEW p \in Players, NEW q \in Players
  PROVE  LET g == Following(h, n) IN
         /\ g.call[c] = IF At(h, c, "begin") THEN h.pc ELSE IF At(h, c, "end") THEN 0 ELSE h.call[c]
         /\ g.pend[c] = IF At(h, c, "begin") THEN n ELSE h.pend[c]
         /\ g.sent[c][p][q] = IF Writes(h, c, p, q) THEN Append(h.sent[c][p][q], n) ELSE h.sent[c][p][q]
         /\ h.sent[c][p][q] \in Seq(Nat) /\ Len(h.sent[c][p][q]) \in Nat
         /\ h.call[c] \in Nat /\ h.pend[c] \in Nat
<1>1. h.sent[c][p][q] \in Seq(Nat) /\ Len(h.sent[c][p][q]) \in Nat /\ h.call[c] \in Nat /\ h.pend[c] \in Nat
  BY DEF Here, Pairs
<1> QED
  BY <1>1 DEF Following

\* What was written in the rounds before one.
LEMMA SentFacts ==
  ASSUME Setting, NEW H, Trace(H), NEW n \in Nat
  PROVE  PendOK(H, n) /\ SentOK(H, n)
<1> DEFINE T == {m \in Nat : PendOK(H, m) /\ SentOK(H, m)}
<1>1. H[0] = Start /\ \A m \in Nat : H[m + 1] = Following(H[m], m)
  BY DEF Trace
<1>2. PendOK(H, 0) /\ SentOK(H, 0)
  BY <1>1 DEF Start, PendOK, SentOK
<1>3. ASSUME NEW m \in Nat, PendOK(H, m), SentOK(H, m) PROVE PendOK(H, m + 1) /\ SentOK(H, m + 1)
  <2> DEFINE h == H[m]
             g == H[m + 1]
  <2>1. g = Following(h, m)
    BY <1>1
  <2>2. RoundFacts(h) /\ h \in Here /\ RoundsOK(h)
    BY TraceFacts DEF RoundFacts
  <2>3. ASSUME NEW c \in Connections, NEW p \in Players, NEW q \in Players
        PROVE  LET w == g.sent[c][p][q] IN \A i \in 1 .. Len(w) : w[i] < m + 1 /\ Writes(H[w[i]], c, p, q)
    <3> DEFINE w == h.sent[c][p][q]
    <3>1. w \in Seq(Nat) /\ \A i \in 1 .. Len(w) : w[i] \in Nat /\ w[i] < m /\ Writes(H[w[i]], c, p, q)
      <4>1. w \in Seq(Nat)
        BY <2>2, SentIs
      <4>2. \A i \in 1 .. Len(w) : w[i] < m /\ Writes(H[w[i]], c, p, q)
        BY <1>3 DEF SentOK
      <4> HIDE DEF w
      <4> QED
        BY <4>1, <4>2
    <3>2. g.sent[c][p][q] = IF Writes(h, c, p, q) THEN Append(w, m) ELSE w
      BY <2>1, <2>2, SentIs
    <3> HIDE DEF w
    <3>3. CASE ~Writes(h, c, p, q)
      BY <3>1, <3>2, <3>3
    <3>4. CASE Writes(h, c, p, q)
      <4> DEFINE v == Append(w, m)
      <4>1. v \in Seq(Nat) /\ Len(v) = Len(w) + 1 /\ Len(w) \in Nat /\ v[Len(w) + 1] = m /\ \A i \in 1 .. Len(w) : v[i] = w[i]
        BY <3>1
      <4>2. g.sent[c][p][q] = v
        BY <3>2, <3>4
      <4> HIDE DEF v
      <4>3. ASSUME NEW i \in 1 .. Len(v) PROVE v[i] < m + 1 /\ Writes(H[v[i]], c, p, q)
        <5>1. CASE i = Len(w) + 1
          BY <3>4, <4>1, <5>1
        <5>2. CASE i # Len(w) + 1
          <6>1. i \in 1 .. Len(w)
            BY <4>1, <5>2
          <6>2. v[i] = w[i] /\ w[i] < m /\ w[i] \in Nat /\ Writes(H[w[i]], c, p, q)
            BY <3>1, <4>1, <6>1
          <6> QED
            BY <6>2
        <5> QED
          BY <5>1, <5>2
      <4> QED
        BY <4>2, <4>3
    <3> QED
      BY <3>3, <3>4
  <2>4. ASSUME NEW c \in Connections, g.call[c] # 0
        PROVE  /\ g.pend[c] < m + 1 /\ Round(H[g.pend[c]]) = "begin" /\ Tag(H[g.pend[c]]) = <<g.call[c], "begin">>
               /\ \A p, q \in Players : Shares(p, q) =>
                    LET w == g.sent[c][p][q] IN w # <<>> /\ w[Len(w)] = g.pend[c]
    <3>1. /\ g.call[c] = IF At(h, c, "begin") THEN h.pc ELSE IF At(h, c, "end") THEN 0 ELSE h.call[c]
          /\ g.pend[c] = IF At(h, c, "begin") THEN m ELSE h.pend[c]
          /\ h.pend[c] \in Nat
      <4>1. 0 \in Players
        BY SettingIs DEF Players
      <4> QED
        BY <2>1, <2>2, <4>1, SentIs
    <3>2. \A p, q \in Players : /\ h.sent[c][p][q] \in Seq(Nat)
                                /\ g.sent[c][p][q] = IF Writes(h, c, p, q) THEN Append(h.sent[c][p][q], m) ELSE h.sent[c][p][q]
      BY <2>1, <2>2, SentIs
    <3> HIDE DEF g, h
    <3>3. CASE At(h, c, "begin")
      <4>1. Round(h) = "begin" /\ c = Connection(h)
        BY <3>3 DEF At
      <4>2. Call(h).op # "STOP"
        BY <2>2, <4>1, RoundIs DEF RoundOK
      <4>3. Tag(h) = <<h.pc, "begin">>
        BY <4>1, <4>2 DEF Tag, Begun
      <4>4. ASSUME NEW p \in Players, NEW q \in Players, Shares(p, q)
            PROVE  g.sent[c][p][q] # <<>> /\ g.sent[c][p][q][Len(g.sent[c][p][q])] = m
        <5>1. Writes(h, c, p, q)
          BY <4>1, <4>4, TalkIs
        <5>2. g.sent[c][p][q] = Append(h.sent[c][p][q], m) /\ h.sent[c][p][q] \in Seq(Nat)
          BY <3>2, <5>1
        <5> DEFINE w == h.sent[c][p][q]
        <5>3. w \in Seq(Nat)
          BY <5>2
        <5> HIDE DEF w
        <5>4. Append(w, m) # <<>> /\ Append(w, m)[Len(Append(w, m))] = m
          BY <5>3
        <5> QED
          BY <5>2, <5>4 DEF w
      <4>5. g.call[c] = h.pc /\ g.pend[c] = m
        BY <3>1, <3>3
      <4> QED
        BY <4>1, <4>3, <4>4, <4>5 DEF h
    <3>4. CASE ~At(h, c, "begin")
      <4>1. ~At(h, c, "end") /\ g.call[c] = h.call[c] /\ h.call[c] # 0 /\ g.pend[c] = h.pend[c]
        BY <2>4, <3>1, <3>4
      <4>2. /\ h.pend[c] < m /\ Round(H[h.pend[c]]) = "begin" /\ Tag(H[h.pend[c]]) = <<h.call[c], "begin">>
            /\ \A p, q \in Players : Shares(p, q) =>
                 LET w == h.sent[c][p][q] IN w # <<>> /\ w[Len(w)] = h.pend[c]
        BY <1>3, <4>1 DEF PendOK, h
      <4>3. ASSUME NEW p \in Players, NEW q \in Players PROVE ~Writes(h, c, p, q)
        <5>1. SUFFICES ASSUME Writes(h, c, p, q) PROVE FALSE
          OBVIOUS
        <5>2. c = Connection(h) /\ Round(h) \notin {"none", "end", "pub"}
          BY <5>1, TalkIs
        <5>3. RoundFacts(h)
          BY <2>2
        <5> QED
          BY <4>1, <5>2, <5>3, CallIs
      <4>4. \A p, q \in Players : g.sent[c][p][q] = h.sent[c][p][q]
        BY <3>2, <4>3
      <4> DEFINE k == h.pend[c]
      <4>5. k \in Nat /\ k < m /\ Round(H[k]) = "begin" /\ Tag(H[k]) = <<h.call[c], "begin">>
        BY <3>1, <4>2
      <4>6. ASSUME NEW p \in Players, NEW q \in Players, Shares(p, q)
            PROVE  g.sent[c][p][q] # <<>> /\ g.sent[c][p][q][Len(g.sent[c][p][q])] = k
        <5>1. h.sent[c][p][q] # <<>> /\ h.sent[c][p][q][Len(h.sent[c][p][q])] = k
          BY <4>2, <4>6
        <5>2. g.sent[c][p][q] = h.sent[c][p][q]
          BY <4>4
        <5> HIDE DEF k
        <5> QED
          BY <5>1, <5>2
      <4> HIDE DEF k
      <4>7. k < m + 1
        BY <4>5
      <4>8. g.pend[c] = k /\ g.call[c] = h.call[c]
        BY <4>1 DEF k
      <4> QED
        BY <4>5, <4>6, <4>7, <4>8
    <3> QED
      BY <3>3, <3>4
  <2>5. SentOK(H, m + 1)
    BY <2>3 DEF SentOK
  <2>6. PendOK(H, m + 1)
    BY <2>4 DEF PendOK
  <2> QED
    BY <2>5, <2>6
<1> HIDE DEF T
<1>4. 0 \in T /\ \A m \in Nat : m \in T => m + 1 \in T
  BY <1>2, <1>3 DEF T
<1>5. n \in T
  BY <1>4, Induct
<1> QED
  BY <1>5 DEF T

\* The messages read before a round, and the one that is read in it.
LEMMA TakenNext ==
  ASSUME Setting, NEW H, Trace(H), NEW n \in Nat, NEW c \in Connections, NEW p \in Players, NEW q \in Players
  PROVE  /\ Taken(H[n], c, p, q) \in Nat
         /\ Taken(H[n + 1], c, p, q) = IF Reads(H[n], c, p, q) THEN Taken(H[n], c, p, q) + 1 ELSE Taken(H[n], c, p, q)
         /\ Reads(H[n], c, p, q) =>
              /\ Taken(H[n], c, p, q) + 1 <= Len(H[n + 1].sent[c][p][q])
              /\ H[n + 1].sent[c][p][q][Taken(H[n], c, p, q) + 1] = Expected(H[n], n, c)
              /\ Expected(H[n], n, c) \in Nat /\ Expected(H[n], n, c) <= n
              /\ Tag(H[Expected(H[n], n, c)]) = Tag(H[n])
<1> DEFINE h == H[n]
           g == H[n + 1]
           w == h.sent[c][p][q]
<1>1. g = Following(h, n)
  BY DEF Trace
<1>2. RoundFacts(h) /\ h \in Here /\ RoundsOK(h)
  BY TraceFacts DEF RoundFacts
<1>3. /\ g.call[c] = IF At(h, c, "begin") THEN h.pc ELSE IF At(h, c, "end") THEN 0 ELSE h.call[c]
      /\ g.sent[c][p][q] = IF Writes(h, c, p, q) THEN Append(w, n) ELSE w
      /\ w \in Seq(Nat) /\ Len(w) \in Nat /\ h.call[c] \in Nat /\ h.pend[c] \in Nat
  BY <1>1, <1>2, SentIs
<1>4. h.call[c] # 0 => /\ h.pend[c] < n /\ Tag(H[h.pend[c]]) = <<h.call[c], "begin">>
                       /\ Shares(p, q) => w # <<>> /\ w[Len(w)] = h.pend[c]
  BY SentFacts DEF PendOK
<1>5. Round(h) # "none" =>
        /\ Round(h) = "end" => h.call[Connection(h)] = Begun(h) /\ Begun(h) # 0
        /\ Round(h) \notin {"end", "pub"} => h.call[Connection(h)] = 0
  BY <1>2, CallIs
<1>6. (w # <<>> <=> Len(w) >= 1) /\ Len(Append(w, n)) = Len(w) + 1 /\ Append(w, n)[Len(w) + 1] = n
  <2> HIDE DEF w
  <2> QED
    BY <1>3
<1>7. /\ Taken(h, c, p, q) = IF h.call[c] # 0 /\ Shares(p, q) THEN Len(w) - 1 ELSE Len(w)
      /\ Taken(g, c, p, q) = IF g.call[c] # 0 /\ Shares(p, q) THEN Len(g.sent[c][p][q]) - 1 ELSE Len(g.sent[c][p][q])
  BY DEF Taken, Behind
<1>8. Tag(h) = <<IF Round(h) \in {"begin", "end"} THEN Begun(h) ELSE h.pc, IF Round(h) = "end" THEN "begin" ELSE Round(h)>>
  BY DEF Tag
<1>9. Expected(h, n, c) = IF Round(h) = "end" THEN h.pend[c] ELSE n
  BY DEF Expected
<1> DEFINE v == g.sent[c][p][q]
           a == h.call[c]
           b == g.call[c]
           x == Expected(h, n, c)
<1> HIDE DEF h, g, w
<1>10. /\ v = IF Writes(h, c, p, q) THEN Append(w, n) ELSE w
       /\ w \in Seq(Nat) /\ Len(w) \in Nat /\ a \in Nat
       /\ Taken(h, c, p, q) = IF a # 0 /\ Shares(p, q) THEN Len(w) - 1 ELSE Len(w)
       /\ Taken(g, c, p, q) = IF b # 0 /\ Shares(p, q) THEN Len(v) - 1 ELSE Len(v)
  BY <1>3, <1>7
<1> HIDE DEF v
<1>11. Taken(h, c, p, q) \in Nat
  BY <1>3, <1>4, <1>6, <1>10
<1>12. CASE ~Talk(h, c, p, q)
  <2>1. ~Writes(h, c, p, q) /\ ~Reads(h, c, p, q) /\ v = w
    BY <1>10, <1>12, TalkIs
  <2>2. Shares(p, q) => b = a
    BY <1>3, <1>12, TalkIs DEF At
  <2> QED
    BY <1>10, <1>11, <2>1, <2>2 DEF h, g
<1>13. CASE Talk(h, c, p, q) /\ Round(h) = "begin"
  <2>1. c = Connection(h) /\ Writes(h, c, p, q) /\ ~Reads(h, c, p, q) /\ Shares(p, q) /\ Round(h) # "none"
    BY <1>13, TalkIs
  <2>2. v = Append(w, n) /\ Len(v) = Len(w) + 1 /\ a = 0
    BY <1>5, <1>6, <1>10, <1>13, <2>1
  <2>3. b = h.pc /\ h.pc # 0
    <3>1. b = h.pc
      BY <1>3, <1>13, <2>1 DEF At
    <3>2. h.pc \in 1 .. Len(prog)
      BY <1>2, <2>1, RoundIs
    <3> QED
      BY <3>1, <3>2
  <2> QED
    BY <1>10, <1>11, <2>1, <2>2, <2>3 DEF h, g
<1>14. CASE Talk(h, c, p, q) /\ Round(h) = "end"
  <2>1. c = Connection(h) /\ ~Writes(h, c, p, q) /\ Reads(h, c, p, q) /\ Shares(p, q) /\ Round(h) # "none"
    BY <1>14, TalkIs
  <2>2. v = w /\ a = Begun(h) /\ a # 0
    BY <1>5, <1>10, <1>14, <2>1
  <2>3. b = 0
    BY <1>3, <1>14, <2>1 DEF At
  <2>4. w # <<>> /\ Len(w) >= 1 /\ w[Len(w)] = h.pend[c] /\ h.pend[c] < n /\ Tag(H[h.pend[c]]) = <<Begun(h), "begin">>
    BY <1>4, <1>6, <2>1, <2>2
  <2>5. Taken(h, c, p, q) + 1 = Len(w) /\ Taken(g, c, p, q) = Len(w)
    BY <1>10, <2>1, <2>2, <2>3
  <2>6. x = h.pend[c] /\ x \in Nat /\ x <= n /\ Tag(H[x]) = Tag(h)
    BY <1>3, <1>8, <1>9, <1>14, <2>4
  <2>7. v[Taken(h, c, p, q) + 1] = x /\ Taken(h, c, p, q) + 1 <= Len(v)
    BY <1>10, <2>2, <2>4, <2>5, <2>6
  <2> QED
    BY <1>11, <2>1, <2>5, <2>6, <2>7 DEF h, g, v, x
<1>15. CASE Talk(h, c, p, q) /\ Round(h) \notin {"begin", "end"}
  <2>1. c = Connection(h) /\ Writes(h, c, p, q) /\ Reads(h, c, p, q) /\ Round(h) \notin {"none", "end", "pub"}
    BY <1>15, TalkIs
  <2>2. v = Append(w, n) /\ a = 0 /\ b = 0
    BY <1>3, <1>5, <1>10, <1>15, <2>1 DEF At
  <2>3. Taken(h, c, p, q) = Len(w) /\ Taken(g, c, p, q) = Len(w) + 1 /\ v[Len(w) + 1] = n /\ Len(v) = Len(w) + 1
    BY <1>6, <1>10, <2>2
  <2>4. x = n
    BY <1>9, <1>15
  <2>5. v[Taken(h, c, p, q) + 1] = x /\ Taken(h, c, p, q) + 1 <= Len(v) /\ x \in Nat /\ x <= n /\ Tag(H[x]) = Tag(h)
    BY <1>10, <2>3, <2>4 DEF h
  <2> QED
    BY <1>11, <2>1, <2>3, <2>5 DEF h, g, v, x
<1> QED
  BY <1>12, <1>13, <1>14, <1>15

\* What has been written stays.
LEMMA SentGrows ==
  ASSUME Setting, NEW H, Trace(H), NEW m \in Nat, NEW n \in Nat, m <= n,
         NEW c \in Connections, NEW p \in Players, NEW q \in Players
  PROVE  /\ H[m].sent[c][p][q] \in Seq(Nat) /\ H[n].sent[c][p][q] \in Seq(Nat)
         /\ Len(H[m].sent[c][p][q]) <= Len(H[n].sent[c][p][q])
         /\ \A i \in 1 .. Len(H[m].sent[c][p][q]) : H[n].sent[c][p][q][i] = H[m].sent[c][p][q][i]
<1> DEFINE s(x) == H[x].sent[c][p][q]
           T == {k \in Nat : Len(s(m)) <= Len(s(m + k)) /\ \A i \in 1 .. Len(s(m)) : s(m + k)[i] = s(m)[i]}
<1>1. ASSUME NEW x \in Nat
      PROVE  s(x) \in Seq(Nat) /\ (s(x + 1) = s(x) \/ s(x + 1) = Append(s(x), x))
  <2>1. H[x] \in Here
    BY TraceFacts DEF RoundFacts
  <2>2. H[x + 1] = Following(H[x], x)
    BY DEF Trace
  <2>3. /\ H[x].sent[c][p][q] \in Seq(Nat)
        /\ H[x + 1].sent[c][p][q] = IF Writes(H[x], c, p, q) THEN Append(H[x].sent[c][p][q], x) ELSE H[x].sent[c][p][q]
    BY <2>1, <2>2, SentIs
  <2> QED
    BY <2>3
<1> HIDE DEF s
<1>2. m + 0 = m /\ Len(s(m)) \in Nat
  BY <1>1
<1>3. 0 \in T
  BY <1>2
<1>4. ASSUME NEW k \in Nat, k \in T PROVE k + 1 \in T
  <2>1. m + k \in Nat /\ (m + k) + 1 = m + (k + 1)
    OBVIOUS
  <2>2. s(m + k) \in Seq(Nat) /\ (s(m + (k + 1)) = s(m + k) \/ s(m + (k + 1)) = Append(s(m + k), m + k))
    BY <1>1, <2>1
  <2>3. Len(s(m)) <= Len(s(m + k)) /\ \A i \in 1 .. Len(s(m)) : s(m + k)[i] = s(m)[i]
    BY <1>4
  <2> DEFINE a == s(m)
             b == s(m + k)
             d == s(m + (k + 1))
  <2>4. a \in Seq(Nat) /\ b \in Seq(Nat) /\ (d = b \/ d = Append(b, m + k)) /\ Len(a) <= Len(b) /\ \A i \in 1 .. Len(a) : b[i] = a[i]
    BY <1>1, <2>2, <2>3
  <2> HIDE DEF a, b, d
  <2>5. Len(a) <= Len(d) /\ \A i \in 1 .. Len(a) : d[i] = a[i]
    <3>1. CASE d = b
      BY <2>4, <3>1
    <3>2. CASE d = Append(b, m + k)
      <4>1. Len(d) = Len(b) + 1 /\ Len(a) \in Nat /\ Len(b) \in Nat /\ \A i \in 1 .. Len(b) : d[i] = b[i]
        BY <2>4, <3>2
      <4>2. \A i \in 1 .. Len(a) : i \in 1 .. Len(b)
        BY <2>4, <4>1
      <4> QED
        BY <2>4, <4>1, <4>2
    <3> QED
      BY <2>4, <3>1, <3>2
  <2> QED
    BY <2>5 DEF a, d
<1> HIDE DEF T
<1>5. \A k \in Nat : k \in T
  BY <1>3, <1>4, Induct
<1>6. n - m \in Nat /\ m + (n - m) = n
  OBVIOUS
<1>7. n - m \in T
  BY <1>5, <1>6
<1>8. Len(s(m)) <= Len(s(n)) /\ \A i \in 1 .. Len(s(m)) : s(n)[i] = s(m)[i]
  BY <1>6, <1>7 DEF T
<1> QED
  BY <1>1, <1>8 DEF s

-----------------------------------------------------------------------------
(* The calls of Player.                                                    *)

\* No call at all.
LEMMA ExchangeNone ==
  ASSUME NEW c, NEW t, NEW v
  PROVE  Exchange(<<>>, c, t, v, {}, {})
BY DEF Exchange

\* One call after the other.
LEMMA ExchangeJoin ==
  ASSUME NEW X, NEW Y, NEW c, NEW t, NEW v, NEW S1, NEW S2, NEW R1, NEW R2,
         Exchange(X, c, t, v, S1, R1), Exchange(Y, c, t, v, S2, R2), S1 \cap S2 = {}, R1 \cap R2 = {}
  PROVE  Exchange(X \o Y, c, t, v, S1 \cup S2, R1 \cup R2)
<1> DEFINE Z == X \o Y
           m == Len(X)
           n == Len(Y)
<1>1. X \in Seq(TStep) /\ Y \in Seq(TStep)
  BY DEF Exchange
<1>2. Z \in Seq(TStep) /\ Len(Z) = m + n /\ m \in Nat /\ n \in Nat /\ \A i \in 1 .. m + n : Z[i] = IF i <= m THEN X[i] ELSE Y[i - m]
  BY <1>1, ConcatProperties
<1>3. /\ \A i \in 1 .. m : /\ X[i].c = c /\ X[i].m.tag = t /\ X[i] \in TStep
                           /\ X[i].dir = "send" => X[i].peer \in S1 /\ X[i].m.val = v
                           /\ X[i].dir = "receive" => X[i].peer \in R1
      /\ \A i, j \in 1 .. m : X[i].dir = X[j].dir /\ X[i].peer = X[j].peer => i = j
      /\ \A q \in S1 : \E i \in 1 .. m : X[i].dir = "send" /\ X[i].peer = q
      /\ \A q \in R1 : \E i \in 1 .. m : X[i].dir = "receive" /\ X[i].peer = q
  BY <1>1 DEF Exchange
<1>4. /\ \A i \in 1 .. n : /\ Y[i].c = c /\ Y[i].m.tag = t /\ Y[i] \in TStep
                           /\ Y[i].dir = "send" => Y[i].peer \in S2 /\ Y[i].m.val = v
                           /\ Y[i].dir = "receive" => Y[i].peer \in R2
      /\ \A i, j \in 1 .. n : Y[i].dir = Y[j].dir /\ Y[i].peer = Y[j].peer => i = j
      /\ \A q \in S2 : \E i \in 1 .. n : Y[i].dir = "send" /\ Y[i].peer = q
      /\ \A q \in R2 : \E i \in 1 .. n : Y[i].dir = "receive" /\ Y[i].peer = q
  BY <1>1 DEF Exchange
<1> HIDE DEF Z, m, n
<1>5. \A i \in 1 .. m : i \in 1 .. m + n /\ Z[i] = X[i]
  BY <1>2
<1>6. ASSUME NEW j \in 1 .. n PROVE m + j \in 1 .. m + n /\ Z[m + j] = Y[j]
  <2>1. m + j \in 1 .. m + n /\ ~(m + j <= m) /\ (m + j) - m = j
    BY <1>2
  <2> QED
    BY <1>2, <2>1
<1>7. ASSUME NEW i \in 1 .. m + n PROVE i \in 1 .. m \/ \E j \in 1 .. n : i = m + j
  <2>1. CASE i <= m
    BY <1>2, <2>1
  <2>2. CASE ~(i <= m)
    <3>1. i - m \in 1 .. n /\ i = m + (i - m)
      BY <1>2, <2>2
    <3> QED
      BY <3>1
  <2> QED
    BY <2>1, <2>2
<1>8. \A i \in 1 .. m : X[i].dir \in {"send", "receive"}
  BY <1>3 DEF TStep
<1>9. \A i \in 1 .. n : Y[i].dir \in {"send", "receive"}
  BY <1>4 DEF TStep
<1>10. ASSUME NEW i \in 1 .. m + n
       PROVE  /\ Z[i].c = c /\ Z[i].m.tag = t
              /\ Z[i].dir = "send" => Z[i].peer \in S1 \cup S2 /\ Z[i].m.val = v
              /\ Z[i].dir = "receive" => Z[i].peer \in R1 \cup R2
  <2>1. CASE i \in 1 .. m
    BY <1>3, <1>5, <2>1
  <2>2. CASE \E j \in 1 .. n : i = m + j
    <3>1. PICK j \in 1 .. n : i = m + j
      BY <2>2
    <3> QED
      BY <1>4, <1>6, <3>1
  <2> QED
    BY <1>7, <2>1, <2>2
<1>11. ASSUME NEW i \in 1 .. m + n, NEW j \in 1 .. m + n, Z[i].dir = Z[j].dir, Z[i].peer = Z[j].peer PROVE i = j
  <2>1. CASE i \in 1 .. m /\ j \in 1 .. m
    BY <1>3, <1>5, <1>11, <2>1
  <2>2. ASSUME NEW k \in 1 .. m, NEW l \in 1 .. n PROVE ~(X[k].dir = Y[l].dir /\ X[k].peer = Y[l].peer)
    BY <1>3, <1>4, <1>8, <1>9
  <2>3. CASE i \in 1 .. m /\ \E l \in 1 .. n : j = m + l
    <3>1. PICK l \in 1 .. n : j = m + l
      BY <2>3
    <3> QED
      BY <1>5, <1>6, <1>11, <2>2, <2>3, <3>1
  <2>4. CASE j \in 1 .. m /\ \E l \in 1 .. n : i = m + l
    <3>1. PICK l \in 1 .. n : i = m + l
      BY <2>4
    <3> QED
      BY <1>5, <1>6, <1>11, <2>2, <2>4, <3>1
  <2>5. CASE (\E l \in 1 .. n : i = m + l) /\ (\E l \in 1 .. n : j = m + l)
    <3>1. PICK k \in 1 .. n : i = m + k
      BY <2>5
    <3>2. PICK l \in 1 .. n : j = m + l
      BY <2>5
    <3> QED
      BY <1>4, <1>6, <1>11, <3>1, <3>2
  <2> QED
    BY <1>7, <2>1, <2>3, <2>4, <2>5
<1>12. ASSUME NEW q \in S1 \cup S2 PROVE \E i \in 1 .. m + n : Z[i].dir = "send" /\ Z[i].peer = q
  <2>1. CASE q \in S1
    BY <1>3, <1>5, <2>1
  <2>2. CASE q \in S2
    BY <1>4, <1>6, <2>2
  <2> QED
    BY <2>1, <2>2
<1>13. ASSUME NEW q \in R1 \cup R2 PROVE \E i \in 1 .. m + n : Z[i].dir = "receive" /\ Z[i].peer = q
  <2>1. CASE q \in R1
    BY <1>3, <1>5, <2>1
  <2>2. CASE q \in R2
    BY <1>4, <1>6, <2>2
  <2> QED
    BY <2>1, <2>2
<1>14. Exchange(Z, c, t, v, S1 \cup S2, R1 \cup R2)
  BY <1>2, <1>10, <1>11, <1>12, <1>13 DEF Exchange
<1> QED
  BY <1>14 DEF Z

\* A write and a read.
LEMMA StepIs ==
  ASSUME NEW q \in Players, NEW c \in Connections, NEW m \in Msg
  PROVE  /\ \E e \in TStep : /\ send_to_player(q, c, m) = <<e>> /\ e.dir = "send" /\ e.peer = q /\ e.c = c
                             /\ e.m.tag = m.tag /\ e.m.val = m.val
         /\ \E e \in TStep : /\ receive_from_player(q, c, m.tag) = <<e>> /\ e.dir = "receive" /\ e.peer = q /\ e.c = c
                             /\ e.m.tag = m.tag
<1> DEFINE w == [dir |-> "send", peer |-> q, c |-> c, m |-> m]
           k == [tag |-> m.tag, val |-> <<>>, size |-> 0]
           r == [dir |-> "receive", peer |-> q, c |-> c, m |-> k]
<1>1. w \in TStep
  BY DEF TStep
<1>2. k \in Msg
  BY DEF Msg
<1>3. r \in TStep /\ k.tag = m.tag
  BY <1>2 DEF TStep
<1>4. send_to_player(q, c, m) = <<w>> /\ receive_from_player(q, c, m.tag) = <<r>>
  BY DEF send_to_player, receive_from_player
<1>5. /\ w.dir = "send" /\ w.peer = q /\ w.c = c /\ w.m = m
      /\ r.dir = "receive" /\ r.peer = q /\ r.c = c /\ r.m = k
  OBVIOUS
<1> HIDE DEF w, r, k
<1> QED
  BY <1>1, <1>3, <1>4, <1>5

\* The calls of Player for one peer.
LEMMA ExchangeOne ==
  ASSUME NEW q \in Players, NEW c \in Connections, NEW m \in Msg
  PROVE  /\ Exchange(send_to_player(q, c, m), c, m.tag, m.val, {q}, {})
         /\ Exchange(receive_from_player(q, c, m.tag), c, m.tag, m.val, {}, {q})
<1>1. PICK w \in TStep : /\ send_to_player(q, c, m) = <<w>> /\ w.dir = "send" /\ w.peer = q /\ w.c = c
                        /\ w.m.tag = m.tag /\ w.m.val = m.val
  BY StepIs
<1>2. PICK r \in TStep : /\ receive_from_player(q, c, m.tag) = <<r>> /\ r.dir = "receive" /\ r.peer = q /\ r.c = c
                        /\ r.m.tag = m.tag
  BY StepIs
<1>3. /\ <<w>> \in Seq(TStep) /\ Len(<<w>>) = 1 /\ <<w>>[1] = w
      /\ <<r>> \in Seq(TStep) /\ Len(<<r>>) = 1 /\ <<r>>[1] = r
  BY <1>1, <1>2
<1>4. Exchange(<<w>>, c, m.tag, m.val, {q}, {})
  BY <1>1, <1>3 DEF Exchange
<1>5. Exchange(<<r>>, c, m.tag, m.val, {}, {q})
  BY <1>2, <1>3 DEF Exchange
<1> QED
  BY <1>1, <1>2, <1>4, <1>5

\* A loop over the players of S, that writes to those in W.
LEMMA ExchangeFor ==
  ASSUME Setting, NEW S \in SUBSET Players, NEW W, NEW c \in Connections, NEW m \in Msg
  PROVE  Exchange(FlattenSeq([i \in 1 .. N |-> IF i - 1 \in S THEN IF i - 1 \in W THEN send_to_player(i - 1, c, m)
                                                                  ELSE receive_from_player(i - 1, c, m.tag)
                                               ELSE <<>>]),
                  c, m.tag, m.val, S \cap W, S \ W)
<1> DEFINE F == [i \in 1 .. N |-> IF i - 1 \in S THEN IF i - 1 \in W THEN send_to_player(i - 1, c, m)
                                                      ELSE receive_from_player(i - 1, c, m.tag)
                                  ELSE <<>>]
           X == FlattenSeq(F)
           n == Len(X)
<1>1. ASSUME NEW i \in 1 .. N
      PROVE  /\ i - 1 \notin S => F[i] = <<>>
             /\ i - 1 \in S => \E e \in TStep : /\ F[i] = <<e>> /\ e.peer = i - 1 /\ e.c = c /\ e.m.tag = m.tag
                                                /\ e.dir = IF i - 1 \in W THEN "send" ELSE "receive"
                                                /\ i - 1 \in W => e.m.val = m.val
  <2>1. i - 1 \in Players
    BY SettingIs
  <2>2. F[i] = IF i - 1 \in S THEN IF i - 1 \in W THEN send_to_player(i - 1, c, m) ELSE receive_from_player(i - 1, c, m.tag) ELSE <<>>
    OBVIOUS
  <2> HIDE DEF F
  <2> DEFINE q == i - 1
  <2> HIDE DEF q
  <2>3. /\ \E e \in TStep : /\ send_to_player(q, c, m) = <<e>> /\ e.dir = "send" /\ e.peer = q /\ e.c = c
                            /\ e.m.tag = m.tag /\ e.m.val = m.val
        /\ \E e \in TStep : /\ receive_from_player(q, c, m.tag) = <<e>> /\ e.dir = "receive" /\ e.peer = q /\ e.c = c
                            /\ e.m.tag = m.tag
    <3>1. q \in Players
      BY <2>1 DEF q
    <3> QED
      BY <3>1, StepIs
  <2>4. CASE i - 1 \notin S
    BY <2>2, <2>4
  <2>5. CASE i - 1 \in S /\ i - 1 \in W
    BY <2>2, <2>3, <2>5 DEF q
  <2>6. CASE i - 1 \in S /\ i - 1 \notin W
    BY <2>2, <2>3, <2>6 DEF q
  <2> QED
    BY <2>4, <2>5, <2>6
<1>2. F = [i \in 1 .. N |-> F[i]]
  OBVIOUS
<1> HIDE DEF F
<1>3. ASSUME NEW i \in 1 .. N
      PROVE  F[i] \in Seq(TStep) /\ Len(F[i]) <= 1 /\ (F[i] # <<>> <=> i - 1 \in S)
  <2>1. \A e \in TStep : <<e>> \in Seq(TStep) /\ Len(<<e>>) = 1 /\ <<e>> # <<>>
    <3> HIDE DEF TStep
    <3> QED
      OBVIOUS
  <2>2. CASE i - 1 \in S
    <3>1. PICK e \in TStep : F[i] = <<e>>
      BY <1>1, <2>2
    <3>2. Len(F[i]) = 1 /\ F[i] \in Seq(TStep) /\ F[i] # <<>>
      BY <2>1, <3>1
    <3> QED
      BY <2>2, <3>2
  <2>3. CASE i - 1 \notin S
    <3>1. F[i] = <<>>
      BY <1>1, <2>3
    <3> QED
      BY <2>3, <3>1
  <2> QED
    BY <2>2, <2>3
<1>4. N \in Nat /\ N > 0
  BY SettingIs
<1>5. F \in Seq(Seq(TStep)) /\ Len(F) = N
  <2> DEFINE Q == Seq(TStep)
  <2>1. \A i \in 1 .. N : F[i] \in Q
    BY <1>3
  <2> HIDE DEF Q
  <2>2. F \in Seq(Q) /\ Len(F) = N
    BY <1>2, <1>4, <2>1
  <2> QED
    BY <2>2 DEF Q
<1>6. /\ X \in Seq(TStep)
      /\ \E b \in [1 .. n -> 1 .. N] :
           /\ \A j \in 1 .. n : F[b[j]] # <<>> /\ X[j] = F[b[j]][1]
           /\ \A j, l \in 1 .. n : b[j] = b[l] => j = l
           /\ \A i \in 1 .. N : F[i] # <<>> => \E j \in 1 .. n : b[j] = i
  <2>1. Len(F) > 0 /\ \A i \in 1 .. Len(F) : Len(F[i]) <= 1
    BY <1>3, <1>4, <1>5
  <2>2. FlattenSeq(F) \in Seq(TStep)
    BY <1>5, <2>1, FlattenOnes
  <2>3. Gathers(FlattenSeq(F), F)
    BY <1>5, <2>1, FlattenOnes
  <2>4. Gathers(X, F)
    BY <2>3
  <2> HIDE DEF X
  <2> QED
    BY <1>5, <2>2, <2>4 DEF Gathers, X
<1>7. PICK b \in [1 .. n -> 1 .. N] :
        /\ \A j \in 1 .. n : F[b[j]] # <<>> /\ X[j] = F[b[j]][1]
        /\ \A j, l \in 1 .. n : b[j] = b[l] => j = l
        /\ \A i \in 1 .. N : F[i] # <<>> => \E j \in 1 .. n : b[j] = i
  BY <1>6
<1> HIDE DEF X, n
<1>8. ASSUME NEW j \in 1 .. n
      PROVE  /\ b[j] \in 1 .. N /\ b[j] - 1 \in S /\ X[j].peer = b[j] - 1 /\ X[j].c = c /\ X[j].m.tag = m.tag
             /\ X[j].dir = IF b[j] - 1 \in W THEN "send" ELSE "receive"
             /\ b[j] - 1 \in W => X[j].m.val = m.val
  <2>1. b[j] \in 1 .. N /\ b[j] - 1 \in S /\ X[j] = F[b[j]][1]
    BY <1>3, <1>7
  <2>2. PICK e \in TStep : /\ F[b[j]] = <<e>> /\ e.peer = b[j] - 1 /\ e.c = c /\ e.m.tag = m.tag
                           /\ e.dir = IF b[j] - 1 \in W THEN "send" ELSE "receive"
                           /\ b[j] - 1 \in W => e.m.val = m.val
    BY <1>1, <2>1
  <2>3. X[j] = e
    BY <2>1, <2>2
  <2> QED
    BY <2>1, <2>2, <2>3
<1>9. ASSUME NEW i \in 1 .. n, NEW j \in 1 .. n, X[i].peer = X[j].peer PROVE i = j
  <2>1. b[i] \in 1 .. N /\ b[j] \in 1 .. N /\ b[i] - 1 = b[j] - 1
    BY <1>8, <1>9
  <2>2. b[i] = b[j]
    BY <2>1
  <2> QED
    BY <1>7, <2>2
<1>10. ASSUME NEW q \in S PROVE \E j \in 1 .. n : X[j].peer = q /\ X[j].dir = IF q \in W THEN "send" ELSE "receive"
  <2>1. q + 1 \in 1 .. N /\ (q + 1) - 1 = q
    BY SettingIs
  <2>2. F[q + 1] # <<>>
    BY <1>3, <2>1
  <2>3. PICK j \in 1 .. n : b[j] = q + 1
    BY <1>7, <2>1, <2>2
  <2> QED
    BY <1>8, <2>1, <2>3
<1>11. Exchange(X, c, m.tag, m.val, S \cap W, S \ W)
  <2>1. \A i \in 1 .. Len(X) : /\ X[i].c = c /\ X[i].m.tag = m.tag
                               /\ X[i].dir = "send" => X[i].peer \in S \cap W /\ X[i].m.val = m.val
                               /\ X[i].dir = "receive" => X[i].peer \in S \ W
    BY <1>8 DEF n
  <2>2. \A i, j \in 1 .. Len(X) : X[i].dir = X[j].dir /\ X[i].peer = X[j].peer => i = j
    BY <1>9 DEF n
  <2>3. \A q \in S \cap W : \E i \in 1 .. Len(X) : X[i].dir = "send" /\ X[i].peer = q
    BY <1>10 DEF n
  <2>4. \A q \in S \ W : \E i \in 1 .. Len(X) : X[i].dir = "receive" /\ X[i].peer = q
    BY <1>10 DEF n
  <2> QED
    BY <1>6, <2>1, <2>2, <2>3, <2>4 DEF Exchange
<1> QED
  BY <1>11 DEF X, F

\* The calls of Player for several peers.
LEMMA ExchangeCalls ==
  ASSUME Setting, NEW p \in Players, NEW S \in SUBSET Players, NEW c \in Connections, NEW m \in Msg
  PROVE  /\ Exchange(ForPlayers(S, LAMBDA q : send_to_player(q, c, m)), c, m.tag, m.val, S, {})
         /\ Exchange(ForPlayers(S, LAMBDA q : receive_from_player(q, c, m.tag)), c, m.tag, m.val, {}, S)
         /\ Exchange(Broadcast_Receive(p, c, m), c, m.tag, m.val, Players \ {p}, Players \ {p})
<1>1. ForPlayers(S, LAMBDA q : send_to_player(q, c, m))
        = FlattenSeq([i \in 1 .. N |-> IF i - 1 \in S THEN IF i - 1 \in S THEN send_to_player(i - 1, c, m)
                                                           ELSE receive_from_player(i - 1, c, m.tag)
                                       ELSE <<>>])
  BY DEF ForPlayers
<1>2. ForPlayers(S, LAMBDA q : receive_from_player(q, c, m.tag))
        = FlattenSeq([i \in 1 .. N |-> IF i - 1 \in S THEN IF i - 1 \in {} THEN send_to_player(i - 1, c, m)
                                                           ELSE receive_from_player(i - 1, c, m.tag)
                                       ELSE <<>>])
  BY DEF ForPlayers
<1> DEFINE A == Players \ {p}
           F(W) == FlattenSeq([i \in 1 .. N |-> IF i - 1 \in A THEN IF i - 1 \in W THEN send_to_player(i - 1, c, m)
                                                                    ELSE receive_from_player(i - 1, c, m.tag)
                                                ELSE <<>>])
           U == {q \in Players : q > p}
           D == {q \in Players : q < p}
<1>3. Broadcast_Receive(p, c, m) = F(U) \o F(D)
  BY DEF Broadcast_Receive, ForPlayers
<1>4. Exchange(F(U), c, m.tag, m.val, A \cap U, A \ U) /\ Exchange(F(D), c, m.tag, m.val, A \cap D, A \ D)
  <2>1. A \in SUBSET Players
    OBVIOUS
  <2> HIDE DEF A, U, D
  <2> QED
    BY <2>1, ExchangeFor
<1>5. /\ A \cap U = U /\ A \ U = D /\ A \cap D = D /\ A \ D = U
      /\ U \cap D = {} /\ D \cap U = {} /\ U \cup D = A /\ D \cup U = A
  <2>1. \A q \in Players : q \in Nat
    BY SettingIs
  <2> QED
    BY <2>1
<1> HIDE DEF F, U, D
<1>6. Exchange(F(U) \o F(D), c, m.tag, m.val, U \cup D, D \cup U)
  <2>1. Exchange(F(U), c, m.tag, m.val, U, D) /\ Exchange(F(D), c, m.tag, m.val, D, U)
    BY <1>4, <1>5
  <2> QED
    BY <1>5, <2>1, ExchangeJoin
<1>7. Exchange(Broadcast_Receive(p, c, m), c, m.tag, m.val, A, A)
  BY <1>3, <1>5, <1>6
<1> HIDE DEF A
<1>8. S \cap S = S /\ S \ S = {} /\ S \cap {} = {} /\ S \ {} = S
  OBVIOUS
<1>9. Exchange(ForPlayers(S, LAMBDA q : send_to_player(q, c, m)), c, m.tag, m.val, S, {})
  BY <1>1, <1>8, ExchangeFor
<1>10. Exchange(ForPlayers(S, LAMBDA q : receive_from_player(q, c, m.tag)), c, m.tag, m.val, {}, S)
  BY <1>2, <1>8, ExchangeFor
<1> QED
  BY <1>7, <1>9, <1>10 DEF A

-----------------------------------------------------------------------------
(* The writes and reads of a round.                                        *)

\* A player at the place of h.
LEMMA SamePlace ==
  ASSUME NEW s, NEW h, s.pc = h.pc
  PROVE  Call(s) = Call(h) /\ Connection(s) = Connection(h) /\ Begun(s) = Begun(h) /\ Opened(s) = Opened(h)
<1>1. Call(s) = Call(h)
  BY DEF Call
<1>2. Begun(s) = Begun(h)
  BY <1>1 DEF Begun
<1> QED
  BY <1>1, <1>2 DEF Connection, Opened

\* A word is a sequence of one entry.
LEMMA WordIs ==
  ASSUME NEW x \in Ids
  PROVE  Word(x) \in Seq(Entry) /\ Len(Word(x)) = 1 /\ Word(x)[1] = [id |-> x, ok |-> TRUE]
<1> DEFINE e == [id |-> x, ok |-> TRUE]
<1>1. e \in Entry
  BY DEF Entry
<1>2. Word(x) = <<e>>
  BY DEF Word
<1> HIDE DEF e
<1>3. Word(x) \in Seq(Entry) /\ Len(Word(x)) = 1 /\ Word(x)[1] = e
  BY <1>1, <1>2
<1> QED
  BY <1>3 DEF e

\* What a player says is a sequence of entries.
LEMMA SaysIs ==
  ASSUME Setting, NEW h, RoundFacts(h), Round(h) # "none", NEW p \in Players, NEW s, PlaceOK(s, h)
  PROVE  Says(p, s, Round(h)) \in Seq(Entry)
<1>1. h \in Here /\ RoundsOK(h) /\ CountsOK(h)
  BY DEF RoundFacts
<1>2. h.pc \in 1 .. Len(prog) /\ RoundOK(Call(h).op, Round(h)) /\ Round(h) \in Names
  BY <1>1, RoundIs
<1>3. s \in State /\ s.pc = h.pc /\ s.open_cnt = h.open_cnt
  BY DEF PlaceOK
<1>4. p \in Nat /\ s.pc \in Nat
  BY <1>3, SettingIs DEF State
<1>5. /\ Word(<<"seed", s.pc, p>>) \in Seq(Entry) /\ Word(<<"Y", s.pc, 0>>) \in Seq(Entry)
      /\ Word(<<"data", s.pc, p>>) \in Seq(Entry)
  <2>1. <<"seed", s.pc, p>> \in Ids /\ <<"Y", s.pc, 0>> \in Ids /\ <<"data", s.pc, p>> \in Ids
    BY <1>4 DEF Ids
  <2> QED
    BY <2>1, WordIs
<1>6. Opened(s) \in Seq(Entry)
  BY <1>2, <1>3, OpenedIs, SamePlace, SettingIs
<1>7. Round(h) \in {"tau", "reveal"} => Tau(s) \in Seq(Entry)
  <2> SUFFICES ASSUME Round(h) \in {"tau", "reveal"} PROVE Tau(s) \in Seq(Entry)
    OBVIOUS
  <2>1. h.fresh = h.open_cnt
    <3>1. h.fresh = CASE Round(h) \in {"OK", "aux", "reset"} -> 0
                      [] Round(h) = "count" -> h.open_cnt + Len(Opened(h))
                      [] Round(h) \notin {"OK", "aux", "reset", "count"} -> h.open_cnt
      BY <1>1 DEF CountsOK
    <3> QED
      BY <3>1
  <2>2. type = "Full"
    BY <1>2 DEF RoundOK
  <2>3. Len(s.macs) = s.open_cnt
    BY <1>3, <2>1, <2>2 DEF PlaceOK
  <2>4. \A i \in 1 .. s.open_cnt : s.macs[i] \in Ids
    BY <1>3, <2>3 DEF State
  <2>5. s.open_cnt \in Nat
    BY <1>3 DEF State
  <2>6. \A i \in 1 .. s.open_cnt : [id |-> s.macs[i], ok |-> s.vals[i] = [id |-> s.macs[i], ok |-> TRUE]] \in Entry
    BY <2>4 DEF Entry
  <2> DEFINE e(i) == [id |-> s.macs[i], ok |-> s.vals[i] = [id |-> s.macs[i], ok |-> TRUE]]
  <2>7. Tau(s) = [i \in 1 .. s.open_cnt |-> e(i)]
    BY DEF Tau
  <2>8. \A i \in 1 .. s.open_cnt : e(i) \in Entry
    BY <2>6
  <2> HIDE DEF e
  <2> QED
    BY <2>5, <2>7, <2>8
<1>8. s.sha256 \in Seq(Entry) /\ s.pub \in Seq(Entry) /\ s.bcast \in Seq(Entry)
  BY <1>3 DEF State
<1>9. CASE Round(h) \in {"seed", "unseal"}
  <2>1. Says(p, s, Round(h)) = Word(<<"seed", s.pc, p>>)
    BY <1>9 DEF Says
  <2> QED
    BY <1>5, <2>1
<1>10. CASE Round(h) \in {"tau", "reveal"}
  <2>1. Says(p, s, Round(h)) = Tau(s)
    BY <1>10 DEF Says
  <2> QED
    BY <1>7, <1>10, <2>1
<1>11. CASE Round(h) \in {"OK", "hash", "aux", "same", "begin", "end"}
  <2>1. /\ Says(p, s, "OK") = Word(<<"Y", s.pc, 0>>) /\ Says(p, s, "hash") = s.sha256 /\ Says(p, s, "aux") = s.pub
        /\ Says(p, s, "same") = s.bcast /\ Says(p, s, "begin") = Opened(s) /\ Says(p, s, "end") = Opened(s)
    BY DEF Says
  <2> QED
    BY <1>5, <1>6, <1>8, <1>11, <2>1
<1>12. CASE Round(h) \in {"count", "reset", "mask", "pub", "one", "cast", "distinct"}
  <2>1. /\ Says(p, s, "count") = Word(<<"data", s.pc, p>>) /\ Says(p, s, "reset") = Word(<<"data", s.pc, p>>)
        /\ Says(p, s, "mask") = Word(<<"data", s.pc, p>>) /\ Says(p, s, "pub") = Word(<<"data", s.pc, p>>)
        /\ Says(p, s, "one") = Word(<<"data", s.pc, p>>) /\ Says(p, s, "cast") = Word(<<"data", s.pc, p>>)
        /\ Says(p, s, "distinct") = Word(<<"data", s.pc, p>>)
    BY DEF Says
  <2> QED
    BY <1>5, <1>12, <2>1
<1> QED
  BY <1>2, <1>9, <1>10, <1>11, <1>12 DEF Names

\* What p writes and reads in round h.
LEMMA PlanIs ==
  ASSUME Setting, NEW h, RoundFacts(h), Round(h) # "none", NEW p \in Players, NEW s, PlaceOK(s, h)
  PROVE  \E v : /\ Round(h) \in Heeded => v = Says(p, s, Round(h))
                /\ Exchange(Plan(p, s, Round(h)), Connection(h), Tag(h), v,
                            {q \in Players : Writes(h, Connection(h), p, q)}, {q \in Players : Reads(h, Connection(h), q, p)})
<1> DEFINE r == Round(h)
           c == Connection(h)
           n == IF r \in {"begin", "cast", "distinct"} THEN Call(s).n ELSE 1
           tag == <<IF r \in {"begin", "end"} THEN Begun(s) ELSE s.pc, IF r = "end" THEN "begin" ELSE r>>
           v == Says(p, s, r)
           m == [tag |-> tag, val |-> v, size |-> n]
           quiet == [m EXCEPT !.val = <<>>]
           Sn == {q \in Players : Writes(h, c, p, q)}
           Rc == {q \in Players : Reads(h, c, q, p)}
           X == Plan(p, s, r)
           A == Players \ {p}
           w == Call(h).who
<1>1. h \in Here /\ RoundsOK(h)
  BY DEF RoundFacts
<1>2. h.pc \in 1 .. Len(prog) /\ r \in Names /\ Call(h).n \in Nat /\ w \in Players
  BY <1>1, RoundIs
<1>3. s \in State /\ s.pc = h.pc
  BY DEF PlaceOK
<1>4. Call(s) = Call(h) /\ Connection(s) = c /\ Begun(s) = Begun(h)
  BY <1>3, SamePlace
<1>5. c \in Connections
  BY CallIs
<1>6. tag = Tag(h) /\ tag \in Nat \X Names
  <2>1. Begun(h) \in 1 .. h.pc /\ h.pc \in Nat
    <3>1. Begun(h) \in 1 .. h.pc
      BY <1>2, BegunIs, SettingIs
    <3> QED
      BY <1>1, <3>1, SettingIs DEF Here
  <2>2. "begin" \in Names
    BY DEF Names
  <2>3. tag = Tag(h)
    BY <1>3, <1>4 DEF Tag
  <2> QED
    BY <1>2, <1>3, <1>4, <2>1, <2>2, <2>3
<1>7. v \in Seq(Entry) /\ n \in Nat
  <2>1. v \in Seq(Entry)
    BY SaysIs
  <2> QED
    BY <1>2, <1>4, <2>1
<1> HIDE DEF tag, n, v
<1>8. m \in Msg /\ m.tag = tag /\ m.val = v /\ quiet \in Msg /\ quiet.tag = tag /\ quiet.val = <<>>
  <2>1. <<>> \in Seq(Entry)
    OBVIOUS
  <2> QED
    BY <1>6, <1>7, <2>1 DEF Msg
<1>9. X = CASE r = "begin" -> IF type = "Full" THEN send_all(p, c, m)
                              ELSE ForPlayers(OpenC[p], LAMBDA q : send_to_player(q, c, m))
            [] r = "end"   -> ForPlayers(Sources(p), LAMBDA q : receive_from_player(q, c, tag))
            [] r \in {"seed", "unseal", "tau", "reveal", "OK", "cast"} -> Broadcast_Receive(p, c, m)
            [] r \in {"hash", "aux", "same"} -> send_all(p, c, m) \o receive_all(p, c, tag)
            [] r = "distinct" -> Send_Distinct_And_Receive(p, c, quiet)
            [] r = "mask"  -> Mask(p, w, c, quiet)
            [] r = "one"   -> OpenToOne(p, w, c, quiet)
            [] OTHER       -> <<>>
  BY <1>4 DEF Plan, tag, n, v
<1> HIDE DEF m, quiet
<1>10. A \in SUBSET Players /\ OpenC[p] \in SUBSET Players /\ Sources(p) \in SUBSET Players
  BY SettingIs DEF Sources
<1>11. ASSUME NEW S \in SUBSET Players, NEW k \in Msg
       PROVE  /\ Exchange(ForPlayers(S, LAMBDA q : send_to_player(q, c, k)), c, k.tag, k.val, S, {})
              /\ Exchange(ForPlayers(S, LAMBDA q : receive_from_player(q, c, k.tag)), c, k.tag, k.val, {}, S)
              /\ Exchange(Broadcast_Receive(p, c, k), c, k.tag, k.val, A, A)
  BY <1>5, ExchangeCalls
<1>12. ASSUME NEW k \in Msg
       PROVE  /\ Exchange(send_all(p, c, k), c, k.tag, k.val, A, {})
              /\ Exchange(receive_all(p, c, k.tag), c, k.tag, k.val, {}, A)
              /\ Exchange(send_all(p, c, k) \o receive_all(p, c, k.tag), c, k.tag, k.val, A, A)
  <2>1. Exchange(send_all(p, c, k), c, k.tag, k.val, A, {})
    BY <1>10, <1>11 DEF send_all
  <2>2. Exchange(receive_all(p, c, k.tag), c, k.tag, k.val, {}, A)
    BY <1>10, <1>11 DEF receive_all
  <2>3. A \cap {} = {} /\ {} \cap A = {} /\ A \cup {} = A /\ {} \cup A = A
    OBVIOUS
  <2> HIDE DEF A
  <2>4. Exchange(send_all(p, c, k) \o receive_all(p, c, k.tag), c, k.tag, k.val, A \cup {}, {} \cup A)
    BY <2>1, <2>2, <2>3, ExchangeJoin
  <2> QED
    BY <2>1, <2>2, <2>3, <2>4
<1>13. SUFFICES \E y : (r \in Heeded => y = v) /\ Exchange(X, c, tag, y, Sn, Rc)
  BY <1>6 DEF v
<1>14. CASE r = "begin"
  <2>1. Sn = {q \in Players : Shares(p, q)} /\ Rc = {}
    BY <1>14 DEF Writes, Reads, Talk, Everyone
  <2>2. Exchange(X, c, tag, v, Sn, Rc)
    <3>1. CASE type = "Full"
      <4>1. Sn = A
        BY <2>1, <3>1 DEF Shares
      <4> QED
        BY <1>8, <1>9, <1>12, <1>14, <2>1, <3>1, <4>1
    <3>2. CASE type # "Full"
      <4>1. Sn = OpenC[p]
        BY <1>10, <2>1, <3>2 DEF Shares
      <4>2. X = ForPlayers(OpenC[p], LAMBDA q : send_to_player(q, c, m))
        BY <1>9, <1>14, <3>2
      <4> QED
        BY <1>8, <1>10, <1>11, <2>1, <4>1, <4>2
    <3> QED
      BY <3>1, <3>2
  <2> QED
    BY <2>2
<1>15. CASE r = "end"
  <2>1. Sn = {} /\ Rc = {q \in Players : Shares(q, p)}
    BY <1>15 DEF Writes, Reads, Talk, Everyone
  <2>2. Rc = Sources(p)
    BY <2>1 DEF Shares, Sources
  <2>3. X = ForPlayers(Sources(p), LAMBDA q : receive_from_player(q, c, m.tag))
    BY <1>8, <1>9, <1>15
  <2>4. Exchange(X, c, tag, v, Sn, Rc)
    BY <1>8, <1>10, <1>11, <2>1, <2>2, <2>3
  <2> QED
    BY <2>4
<1>16. CASE r \in {"seed", "unseal", "tau", "reveal", "OK", "cast", "hash", "aux", "same", "distinct"}
  <2>1. Sn = A /\ Rc = A
    BY <1>16 DEF Writes, Reads, Talk, Everyone
  <2>2. CASE r \in {"seed", "unseal", "tau", "reveal", "OK", "cast"}
    <3>1. X = Broadcast_Receive(p, c, m)
      BY <1>9, <2>2
    <3>2. Exchange(X, c, tag, v, Sn, Rc)
      BY <1>8, <1>10, <1>11, <2>1, <3>1
    <3> QED
      BY <3>2
  <2>3. CASE r \in {"hash", "aux", "same"}
    <3>1. X = send_all(p, c, m) \o receive_all(p, c, m.tag)
      BY <1>8, <1>9, <2>3
    <3>2. Exchange(X, c, tag, v, Sn, Rc)
      BY <1>8, <1>12, <2>1, <3>1
    <3> QED
      BY <3>2
  <2>4. CASE r = "distinct"
    <3>1. X = send_all(p, c, quiet) \o receive_all(p, c, quiet.tag)
      BY <1>9, <2>4 DEF Send_Distinct_And_Receive
    <3>2. Exchange(X, c, tag, <<>>, Sn, Rc)
      BY <1>8, <1>12, <2>1, <3>1
    <3> QED
      BY <2>4, <3>2 DEF Heeded, Compared
  <2> QED
    BY <1>16, <2>2, <2>3, <2>4
<1>17. CASE r = "mask"
  <2>1. Sn = (IF p = w THEN A ELSE {}) /\ Rc = (IF p = w THEN {} ELSE {w})
    BY <1>2, <1>17 DEF Writes, Reads, Talk, Everyone
  <2>2. X = Mask(p, w, c, quiet)
    BY <1>9, <1>17
  <2>3. Exchange(X, c, tag, <<>>, Sn, Rc)
    <3>1. CASE p = w
      BY <1>8, <1>12, <2>1, <2>2, <3>1 DEF Mask
    <3>2. CASE p # w
      <4>1. Exchange(receive_from_player(w, c, quiet.tag), c, quiet.tag, quiet.val, {}, {w})
        BY <1>2, <1>5, <1>8, ExchangeOne
      <4> QED
        BY <1>8, <2>1, <2>2, <3>2, <4>1 DEF Mask
    <3> QED
      BY <3>1, <3>2
  <2> QED
    BY <1>17, <2>3 DEF Heeded, Compared
<1>18. CASE r = "one"
  <2>1. Sn = (IF p = w THEN {} ELSE {w}) /\ Rc = (IF p = w THEN A ELSE {})
    BY <1>2, <1>18 DEF Writes, Reads, Talk, Everyone
  <2>2. X = OpenToOne(p, w, c, quiet)
    BY <1>9, <1>18
  <2>3. Exchange(X, c, tag, <<>>, Sn, Rc)
    <3>1. CASE p = w
      BY <1>8, <1>12, <2>1, <2>2, <3>1 DEF OpenToOne
    <3>2. CASE p # w
      <4>1. Exchange(send_to_player(w, c, quiet), c, quiet.tag, quiet.val, {w}, {})
        BY <1>2, <1>5, <1>8, ExchangeOne
      <4> QED
        BY <1>8, <2>1, <2>2, <3>2, <4>1 DEF OpenToOne
    <3> QED
      BY <3>1, <3>2
  <2> QED
    BY <1>18, <2>3 DEF Heeded, Compared
<1>19. CASE r \in {"count", "reset", "pub"}
  <2>1. Sn = {} /\ Rc = {}
    BY <1>19 DEF Writes, Reads, Talk, Everyone
  <2>2. X = <<>>
    BY <1>19, <1>9
  <2> QED
    BY <2>1, <2>2, ExchangeNone
<1> QED
  BY <1>2, <1>14, <1>15, <1>16, <1>17, <1>18, <1>19 DEF Names

-----------------------------------------------------------------------------
(* The steps keep everyone where the messages say.                         *)

\* What has been written and read before a round and after it.
LEMMA WroteIs ==
  ASSUME Setting, NEW H, Trace(H), NEW n \in Nat, NEW c \in Connections, NEW p \in Players, NEW q \in Players, NEW Y
  PROVE  /\ Wrote(H[n], n, c, p, q, Y) = IF Writes(H[n], c, p, q) /\ Left(Y, "send", q) THEN H[n].sent[c][p][q]
                                         ELSE H[n + 1].sent[c][p][q]
         /\ Wrote(H[n], n, c, p, q, Y) \in Seq(Nat)
         /\ Read(H[n], c, p, q, Y) = IF Reads(H[n], c, p, q) /\ Left(Y, "receive", p) THEN Taken(H[n], c, p, q)
                                     ELSE Taken(H[n + 1], c, p, q)
         /\ Read(H[n], c, p, q, Y) \in Nat
<1>1. H[n] \in Here
  BY TraceFacts DEF RoundFacts
<1>2. H[n + 1] = Following(H[n], n)
  BY DEF Trace
<1>3. /\ H[n].sent[c][p][q] \in Seq(Nat)
      /\ H[n + 1].sent[c][p][q] = IF Writes(H[n], c, p, q) THEN Append(H[n].sent[c][p][q], n) ELSE H[n].sent[c][p][q]
  BY <1>1, <1>2, SentIs
<1>4. /\ Taken(H[n], c, p, q) \in Nat
      /\ Taken(H[n + 1], c, p, q) = IF Reads(H[n], c, p, q) THEN Taken(H[n], c, p, q) + 1 ELSE Taken(H[n], c, p, q)
  BY TakenNext
<1>5. Wrote(H[n], n, c, p, q, Y) = IF Writes(H[n], c, p, q) /\ ~Left(Y, "send", q) THEN Append(H[n].sent[c][p][q], n)
                                   ELSE H[n].sent[c][p][q]
  BY DEF Wrote
<1>6. Read(H[n], c, p, q, Y) = IF Reads(H[n], c, p, q) /\ ~Left(Y, "receive", p) THEN Taken(H[n], c, p, q) + 1
                               ELSE Taken(H[n], c, p, q)
  BY DEF Read
<1> DEFINE w == H[n].sent[c][p][q]
           x == H[n + 1].sent[c][p][q]
           t == Taken(H[n], c, p, q)
<1> HIDE DEF w, x, t
<1>7. Append(w, n) \in Seq(Nat)
  BY <1>3 DEF w
<1> QED
  BY <1>3, <1>4, <1>5, <1>6, <1>7 DEF w, x, t

\* As much has been written and read.
Unmoved(H, at, T, at2, T2) ==
  \A c \in Connections, x, y \in Players :
    /\ Wrote(H[at2[x]], at2[x], c, x, y, T2[x]) = Wrote(H[at[x]], at[x], c, x, y, T[x])
    /\ Read(H[at2[y]], c, x, y, T2[y]) = Read(H[at[y]], c, x, y, T[y])

\* A player that has nothing left to do enters the next round.
LEMMA Moves ==
  ASSUME Setting, NEW H, Trace(H), NEW at, NEW S, NEW T, NEW C, Follows(H, at, S, T, C),
         S \in [Players -> State], T \in [Players -> Seq(TStep)],
         NEW p \in Players, T[p] = <<>>, NEW s, PlaceOK(s, H[at[p] + 1])
  PROVE  LET Y == IF s.rounds = <<>> THEN <<>> ELSE Plan(p, s, Head(s.rounds)) IN
         /\ Y \in Seq(TStep)
         /\ Follows(H, [at EXCEPT ![p] = @ + 1], [S EXCEPT ![p] = s], [T EXCEPT ![p] = Y], C)
         /\ Unmoved(H, at, T, [at EXCEPT ![p] = @ + 1], [T EXCEPT ![p] = Y])
         /\ \A c \in Connections, q \in Players : Reads(H[at[p] + 1], c, q, p) => Left(Y, "receive", q)
<1> DEFINE Y == IF s.rounds = <<>> THEN <<>> ELSE Plan(p, s, Head(s.rounds))
           a == at[p]
           h == H[a + 1]
           at2 == [at EXCEPT ![p] = @ + 1]
           S2 == [S EXCEPT ![p] = s]
           T2 == [T EXCEPT ![p] = Y]
<1>1. /\ at \in [Players -> Nat] /\ a \in Nat /\ a + 1 \in Nat /\ at2 \in [Players -> Nat]
      /\ at2[p] = a + 1 /\ S2[p] = s /\ T2[p] = Y
      /\ \A q \in Players : q # p => at2[q] = at[q] /\ S2[q] = S[q] /\ T2[q] = T[q]
  <2>1. at \in [Players -> Nat]
    BY DEF Follows
  <2> HIDE DEF Y
  <2> QED
    BY <2>1
<1>2. RoundFacts(h) /\ h \in Here /\ RoundsOK(h)
  BY <1>1, TraceFacts DEF RoundFacts
<1>3. s.rounds = h.rounds
  BY DEF PlaceOK
<1>4. (Round(h) = "none" <=> s.rounds = <<>>) /\ (Round(h) # "none" => Head(s.rounds) = Round(h))
  <2>1. "none" \notin Names /\ h.rounds \in Seq(Names)
    BY <1>2 DEF Names, Here
  <2>2. h.rounds # <<>> => Head(h.rounds) \in Names
    BY <2>1
  <2> QED
    BY <1>3, <2>1, <2>2 DEF Round
<1>5. /\ Y \in Seq(TStep) /\ TodoOK(h, p, s, Y)
      /\ \A c \in Connections, q \in Players : Writes(h, c, p, q) => Left(Y, "send", q)
      /\ \A c \in Connections, q \in Players : Reads(h, c, q, p) => Left(Y, "receive", q)
  <2>1. CASE Round(h) = "none"
    <3>1. Y = <<>>
      BY <1>4, <2>1
    <3>2. \A c, q : ~Writes(h, c, p, q) /\ ~Reads(h, c, q, p)
      BY <2>1 DEF Writes, Reads, Talk
    <3>3. TodoOK(h, p, s, <<>>)
      BY DEF TodoOK
    <3> QED
      BY <3>1, <3>2, <3>3
  <2>2. CASE Round(h) # "none"
    <3>1. Y = Plan(p, s, Round(h))
      BY <1>4, <2>2
    <3> DEFINE Sn == {q \in Players : Writes(h, Connection(h), p, q)}
               Rc == {q \in Players : Reads(h, Connection(h), q, p)}
    <3>2. \E v : (Round(h) \in Heeded => v = Says(p, s, Round(h))) /\ Exchange(Plan(p, s, Round(h)), Connection(h), Tag(h), v, Sn, Rc)
      BY <1>2, <2>2, PlanIs
    <3> HIDE DEF Y, h
    <3>3. PICK v : (Round(h) \in Heeded => v = Says(p, s, Round(h))) /\ Exchange(Y, Connection(h), Tag(h), v, Sn, Rc)
      BY <3>1, <3>2
    <3>4. /\ Y \in Seq(TStep)
          /\ \A i \in 1 .. Len(Y) : /\ Y[i].c = Connection(h) /\ Y[i].m.tag = Tag(h)
                                    /\ Y[i].dir = "send" => Y[i].peer \in Sn /\ Y[i].m.val = v
                                    /\ Y[i].dir = "receive" => Y[i].peer \in Rc
          /\ \A i, j \in 1 .. Len(Y) : Y[i].dir = Y[j].dir /\ Y[i].peer = Y[j].peer => i = j
          /\ \A q \in Sn : \E i \in 1 .. Len(Y) : Y[i].dir = "send" /\ Y[i].peer = q
          /\ \A q \in Rc : \E i \in 1 .. Len(Y) : Y[i].dir = "receive" /\ Y[i].peer = q
      BY <3>3 DEF Exchange
    <3>5. TodoOK(h, p, s, Y)
      BY <3>3, <3>4 DEF TodoOK
    <3>6. \A q \in Players : (q \in Sn => Left(Y, "send", q)) /\ (q \in Rc => Left(Y, "receive", q))
      BY <3>4 DEF Left
    <3>7. \A c, q : /\ Writes(h, c, p, q) => c = Connection(h)
                    /\ Reads(h, c, q, p) => c = Connection(h)
      BY TalkIs
    <3> QED
      BY <3>4, <3>5, <3>6, <3>7
  <2> QED
    BY <2>1, <2>2
<1>6. \A q \in Players : PlaceOK(S[q], H[at[q]]) /\ TodoOK(H[at[q]], q, S[q], T[q])
  BY DEF Follows
<1>7. \A c \in Connections, q, z \in Players :
        WireOK(H, Wrote(H[at[q]], at[q], c, q, z, T[q]), Read(H[at[z]], c, q, z, T[z]), C[c][q][z])
  BY DEF Follows
<1>8. ASSUME NEW q \in Players PROVE PlaceOK(S2[q], H[at2[q]]) /\ TodoOK(H[at2[q]], q, S2[q], T2[q])
  <2> HIDE DEF Y, at2, S2, T2
  <2>1. CASE q = p
    BY <1>1, <1>5, <2>1
  <2>2. CASE q # p
    BY <1>1, <1>6, <2>2
  <2> QED
    BY <2>1, <2>2
<1>9. ASSUME NEW c \in Connections, NEW q \in Players
      PROVE  /\ Wrote(H[a + 1], a + 1, c, p, q, Y) = Wrote(H[a], a, c, p, q, T[p])
             /\ Read(H[a + 1], c, q, p, Y) = Read(H[a], c, q, p, T[p])
  <2>1. ~Left(T[p], "send", q) /\ ~Left(T[p], "receive", q)
    BY DEF Left
  <2>2. Writes(H[a + 1], c, p, q) => Left(Y, "send", q)
    BY <1>5
  <2>3. Reads(H[a + 1], c, q, p) => Left(Y, "receive", q)
    BY <1>5
  <2> HIDE DEF Y, a
  <2>4. Wrote(H[a], a, c, p, q, T[p]) = H[a + 1].sent[c][p][q]
    BY <1>1, <2>1, WroteIs
  <2>5. Read(H[a], c, q, p, T[p]) = Taken(H[a + 1], c, q, p)
    BY <1>1, <2>1, WroteIs
  <2>6. Wrote(H[a + 1], a + 1, c, p, q, Y) = H[a + 1].sent[c][p][q]
    BY <2>2 DEF Wrote
  <2>7. Read(H[a + 1], c, q, p, Y) = Taken(H[a + 1], c, q, p)
    BY <2>3 DEF Read
  <2> QED
    BY <2>4, <2>5, <2>6, <2>7
<1>10. ASSUME NEW c \in Connections, NEW q \in Players, NEW z \in Players
       PROVE  /\ Wrote(H[at2[q]], at2[q], c, q, z, T2[q]) = Wrote(H[at[q]], at[q], c, q, z, T[q])
              /\ Read(H[at2[z]], c, q, z, T2[z]) = Read(H[at[z]], c, q, z, T[z])
  <2> HIDE DEF Y, at2, S2, T2
  <2>1. q = p => Wrote(H[at2[q]], at2[q], c, q, z, T2[q]) = Wrote(H[at[q]], at[q], c, q, z, T[q])
    BY <1>1, <1>9
  <2>2. z = p => Read(H[at2[z]], c, q, z, T2[z]) = Read(H[at[z]], c, q, z, T[z])
    BY <1>1, <1>9
  <2> QED
    BY <1>1, <2>1, <2>2
<1> HIDE DEF Y, at2, S2, T2
<1>11. Follows(H, at2, S2, T2, C)
  BY <1>1, <1>7, <1>8, <1>10 DEF Follows
<1>12. Unmoved(H, at, T, at2, T2)
  BY <1>10 DEF Unmoved
<1> QED
  BY <1>5, <1>11, <1>12 DEF Y, at2, S2, T2

\* What is left after the first step of a round.
LEMMA LeftTail ==
  ASSUME NEW Y \in Seq(TStep), Y # <<>>, NEW h, NEW p, NEW s, TodoOK(h, p, s, Y)
  PROVE  /\ Tail(Y) \in Seq(TStep) /\ TodoOK(h, p, s, Tail(Y)) /\ Head(Y) \in TStep
         /\ Head(Y).c = Connection(h) /\ Head(Y).m.tag = Tag(h)
         /\ Head(Y).dir = "send" => Writes(h, Head(Y).c, p, Head(Y).peer) /\ (Round(h) \in Heeded => Head(Y).m.val = Says(p, s, Round(h)))
         /\ Head(Y).dir = "receive" => Reads(h, Head(Y).c, Head(Y).peer, p)
         /\ Left(Y, Head(Y).dir, Head(Y).peer)
         /\ \A dir, q : Left(Tail(Y), dir, q) <=> Left(Y, dir, q) /\ ~(dir = Head(Y).dir /\ q = Head(Y).peer)
<1> DEFINE X == Tail(Y)
           e == Head(Y)
           n == Len(Y)
<1>1. /\ X \in Seq(TStep) /\ Len(X) = n - 1 /\ (\A i \in 1 .. n - 1 : X[i] = Y[i + 1])
      /\ n \in Nat /\ n >= 1 /\ e = Y[1] /\ e \in TStep
  <2>1. X \in Seq(TStep) /\ Len(X) = n - 1 /\ \A i \in 1 .. n - 1 : X[i] = Y[i + 1]
    BY HeadTailProperties
  <2>2. n \in Nat /\ n >= 1
    BY EmptySeq
  <2>3. e = Y[1]
    OBVIOUS
  <2>4. e \in TStep
    BY HeadTailProperties
  <2> QED
    BY <2>1, <2>2, <2>3, <2>4
<1>2. /\ \A i \in 1 .. n : /\ Y[i].c = Connection(h) /\ Y[i].m.tag = Tag(h)
                           /\ Y[i].dir = "send" =>
                                Writes(h, Y[i].c, p, Y[i].peer) /\ (Round(h) \in Heeded => Y[i].m.val = Says(p, s, Round(h)))
                           /\ Y[i].dir = "receive" => Reads(h, Y[i].c, Y[i].peer, p)
      /\ \A i, j \in 1 .. n : Y[i].dir = Y[j].dir /\ Y[i].peer = Y[j].peer => i = j
  BY DEF TodoOK
<1> HIDE DEF X, e, n
<1>3. 1 \in 1 .. n
  BY <1>1
<1>4. ASSUME NEW i \in 1 .. Len(X) PROVE i \in 1 .. n - 1 /\ i + 1 \in 1 .. n /\ X[i] = Y[i + 1] /\ i + 1 # 1
  BY <1>1
<1>5. ASSUME NEW i \in 1 .. n, i # 1 PROVE i - 1 \in 1 .. Len(X) /\ X[i - 1] = Y[i]
  <2>1. i - 1 \in 1 .. n - 1 /\ (i - 1) + 1 = i
    BY <1>1, <1>5
  <2> QED
    BY <1>1, <2>1
<1>6. TodoOK(h, p, s, X)
  <2>1. ASSUME NEW i \in 1 .. Len(X)
        PROVE  /\ X[i].c = Connection(h) /\ X[i].m.tag = Tag(h)
               /\ X[i].dir = "send" =>
                    Writes(h, X[i].c, p, X[i].peer) /\ (Round(h) \in Heeded => X[i].m.val = Says(p, s, Round(h)))
               /\ X[i].dir = "receive" => Reads(h, X[i].c, X[i].peer, p)
    BY <1>2, <1>4
  <2>2. ASSUME NEW i \in 1 .. Len(X), NEW j \in 1 .. Len(X), X[i].dir = X[j].dir, X[i].peer = X[j].peer PROVE i = j
    <3>1. i + 1 = j + 1 /\ i \in 1 .. n - 1 /\ j \in 1 .. n - 1
      BY <1>2, <1>4, <2>2
    <3> QED
      BY <1>1, <3>1
  <2> QED
    BY <2>1, <2>2 DEF TodoOK
<1>7. ASSUME NEW dir, NEW q PROVE Left(X, dir, q) <=> Left(Y, dir, q) /\ ~(dir = e.dir /\ q = e.peer)
  <2>1. ASSUME NEW i \in 1 .. Len(X), X[i].dir = dir, X[i].peer = q
        PROVE  (\E j \in 1 .. n : Y[j].dir = dir /\ Y[j].peer = q) /\ ~(dir = e.dir /\ q = e.peer)
    <3>1. i + 1 \in 1 .. n /\ Y[i + 1].dir = dir /\ Y[i + 1].peer = q /\ i + 1 # 1
      BY <1>4, <2>1
    <3> QED
      BY <1>1, <1>2, <1>3, <3>1
  <2>2. ASSUME NEW i \in 1 .. n, Y[i].dir = dir, Y[i].peer = q, ~(dir = e.dir /\ q = e.peer)
        PROVE  \E j \in 1 .. Len(X) : X[j].dir = dir /\ X[j].peer = q
    <3>1. i # 1
      BY <1>1, <2>2
    <3>2. i - 1 \in 1 .. Len(X) /\ X[i - 1] = Y[i]
      BY <1>5, <3>1
    <3> QED
      BY <2>2, <3>2
  <2> QED
    BY <2>1, <2>2 DEF Left, n
<1>8. Left(Y, e.dir, e.peer)
  BY <1>1, <1>3 DEF Left, n
<1>9. /\ e.c = Connection(h) /\ e.m.tag = Tag(h)
      /\ e.dir = "send" => Writes(h, e.c, p, e.peer) /\ (Round(h) \in Heeded => e.m.val = Says(p, s, Round(h)))
      /\ e.dir = "receive" => Reads(h, e.c, e.peer, p)
  BY <1>1, <1>2, <1>3
<1> QED
  BY <1>1, <1>6, <1>7, <1>8, <1>9 DEF X, e

\* D is C with Z between p and q on c.
Puts(D, C, c, p, q, Z) ==
  /\ D[c][p][q] = Z
  /\ \A d \in Connections, x, y \in Players : ~(d = c /\ x = p /\ y = q) => D[d][x][y] = C[d][x][y]

\* What a write or a read on one connection changes.
LEMMA OnePair ==
  ASSUME NEW S, NEW C \in Pairs(S), NEW c \in Connections, NEW p \in Players, NEW q \in Players, NEW Z \in S
  PROVE  /\ [C EXCEPT ![c][p][q] = Z] \in Pairs(S)
         /\ Puts([C EXCEPT ![c][p][q] = Z], C, c, p, q, Z)
         /\ \A d \in Connections, x, y \in Players : C[d][x][y] \in S
<1> DEFINE B == [C[c][p] EXCEPT ![q] = Z]
           A == [C[c] EXCEPT ![p] = B]
           D == [C EXCEPT ![c] = A]
<1>1. \A d \in Connections, x, y \in Players : C[d][x][y] \in S
  BY DEF Pairs
<1>2. C[c] \in [Players -> [Players -> S]] /\ C[c][p] \in [Players -> S]
  BY DEF Pairs
<1>3. B \in [Players -> S] /\ B[q] = Z /\ \A y \in Players : y # q => B[y] = C[c][p][y]
  BY <1>2
<1> HIDE DEF B
<1>4. A \in [Players -> [Players -> S]] /\ A[p] = B /\ \A x \in Players : x # p => A[x] = C[c][x]
  BY <1>2, <1>3
<1> HIDE DEF A
<1>5. D \in Pairs(S) /\ D[c] = A /\ \A d \in Connections : d # c => D[d] = C[d]
  BY <1>4 DEF Pairs
<1> HIDE DEF D
<1>6. D[c][p][q] = Z
  BY <1>3, <1>4, <1>5
<1>7. ASSUME NEW d \in Connections, NEW x \in Players, NEW y \in Players, ~(d = c /\ x = p /\ y = q)
      PROVE  D[d][x][y] = C[d][x][y]
  <2>1. CASE d # c
    BY <1>5, <2>1
  <2>2. CASE d = c /\ x # p
    BY <1>4, <1>5, <2>2
  <2>3. CASE d = c /\ x = p /\ y # q
    BY <1>3, <1>4, <1>5, <2>3
  <2> QED
    BY <1>7, <2>1, <2>2, <2>3
<1>8. Puts(D, C, c, p, q, Z)
  BY <1>6, <1>7 DEF Puts
<1> QED
  BY <1>1, <1>5, <1>8 DEF D, A, B

\* p writes m in its step e.
OneSent(H, at, T, T2, C, C2, p, e, m) ==
  LET W(c, x, y, Y) == Wrote(H[at[x]], at[x], c, x, y, Y[x]) IN
  /\ \A c \in Connections, x, y \in Players : Read(H[at[y]], c, x, y, T2[y]) = Read(H[at[y]], c, x, y, T[y])
  /\ \A x, y \in Players : Left(T2[y], "receive", x) <=> Left(T[y], "receive", x)
  /\ W(e.c, p, e.peer, T2) = Append(W(e.c, p, e.peer, T), at[p]) /\ C2[e.c][p][e.peer] = Append(C[e.c][p][e.peer], m)
  /\ \A c \in Connections, x, y \in Players : ~(c = e.c /\ x = p /\ y = e.peer) =>
       W(c, x, y, T2) = W(c, x, y, T) /\ C2[c][x][y] = C[c][x][y]

\* A message is written, with the tag of the round though perhaps not its value.
LEMMA Sends ==
  ASSUME Setting, NEW H, Trace(H), NEW at, NEW S, NEW T, NEW C, Follows(H, at, S, T, C),
         T \in [Players -> Seq(TStep)], C \in Pairs(Seq(Msg)),
         NEW p \in Players, T[p] # <<>>, Head(T[p]).dir = "send", NEW m \in Msg, m.tag = Head(T[p]).m.tag
  PROVE  LET T2 == [T EXCEPT ![p] = Tail(@)]
             C2 == [C EXCEPT ![Head(T[p]).c][p][Head(T[p]).peer] = Append(@, m)]
         IN  Follows(H, at, S, T2, C2) /\ OneSent(H, at, T, T2, C, C2, p, Head(T[p]), m)
<1> DEFINE Y == T[p]
           e == Head(Y)
           T2 == [T EXCEPT ![p] = Tail(@)]
           C2 == [C EXCEPT ![e.c][p][e.peer] = Append(@, m)]
           a == at[p]
           h == H[a]
<1>1. /\ at \in [Players -> Nat] /\ a \in Nat /\ Y \in Seq(TStep)
      /\ \A q \in Players : PlaceOK(S[q], H[at[q]]) /\ TodoOK(H[at[q]], q, S[q], T[q])
      /\ \A c \in Connections, q, z \in Players :
           WireOK(H, Wrote(H[at[q]], at[q], c, q, z, T[q]), Read(H[at[z]], c, q, z, T[z]), C[c][q][z])
  BY DEF Follows
<1>2. /\ TodoOK(h, p, S[p], Tail(Y)) /\ e \in TStep
      /\ e.c = Connection(h) /\ e.m.tag = Tag(h) /\ Writes(h, e.c, p, e.peer)
      /\ Left(Y, "send", e.peer)
      /\ \A dir, q : Left(Tail(Y), dir, q) <=> Left(Y, dir, q) /\ ~(dir = "send" /\ q = e.peer)
  <2>1. Y # <<>> /\ TodoOK(h, p, S[p], Y) /\ e.dir = "send"
    BY <1>1
  <2> HIDE DEF Y, h, e
  <2> QED
    BY <1>1, <2>1, LeftTail DEF e
<1>3. e.c \in Connections /\ e.peer \in Players
  BY <1>2 DEF TStep
<1>4. T2[p] = Tail(Y) /\ \A q \in Players : q # p => T2[q] = T[q]
  OBVIOUS
<1>5. /\ C2[e.c][p][e.peer] = Append(C[e.c][p][e.peer], m)
      /\ \A c \in Connections, q, z \in Players : ~(c = e.c /\ q = p /\ z = e.peer) => C2[c][q][z] = C[c][q][z]
      /\ \A c \in Connections, q, z \in Players : C[c][q][z] \in Seq(Msg)
  <2> DEFINE d == e.c
             x == e.peer
             Z == Append(C[d][p][x], m)
  <2>1. d \in Connections /\ x \in Players
    BY <1>3
  <2>2. C2 = [C EXCEPT ![d][p][x] = Z]
    OBVIOUS
  <2> HIDE DEF e, d, x, C2
  <2>3. Z \in Seq(Msg)
    BY <2>1 DEF Pairs
  <2> HIDE DEF Z
  <2>4. Puts(C2, C, d, p, x, Z) /\ \A c \in Connections, q, z \in Players : C[c][q][z] \in Seq(Msg)
    BY <2>1, <2>2, <2>3, OnePair
  <2> QED
    BY <2>4 DEF Puts, d, x, Z
<1> HIDE DEF T2, C2, e, Y, a, h
<1>6. ASSUME NEW q \in Players PROVE TodoOK(H[at[q]], q, S[q], T2[q])
  <2>1. CASE q = p
    BY <1>2, <1>4, <2>1 DEF h, a
  <2>2. CASE q # p
    BY <1>1, <1>4, <2>2
  <2> QED
    BY <2>1, <2>2
<1>7. \A c \in Connections, q, z \in Players : Read(H[at[z]], c, q, z, T2[z]) = Read(H[at[z]], c, q, z, T[z])
  <2> SUFFICES ASSUME NEW c \in Connections, NEW q \in Players, NEW z \in Players
               PROVE  Read(H[at[z]], c, q, z, T2[z]) = Read(H[at[z]], c, q, z, T[z])
    OBVIOUS
  <2>1. Left(T2[z], "receive", q) <=> Left(T[z], "receive", q)
    BY <1>2, <1>4 DEF Y
  <2> QED
    BY <2>1 DEF Read
<1>8. ASSUME NEW c \in Connections, NEW q \in Players, NEW z \in Players
      PROVE  LET w == Wrote(H[at[q]], at[q], c, q, z, T[q])
                 w2 == Wrote(H[at[q]], at[q], c, q, z, T2[q])
             IN  IF c = e.c /\ q = p /\ z = e.peer THEN w2 = Append(w, a) /\ C2[c][q][z] = Append(C[c][q][z], m)
                 ELSE w2 = w /\ C2[c][q][z] = C[c][q][z]
  <2> DEFINE w == Wrote(H[at[q]], at[q], c, q, z, T[q])
             w2 == Wrote(H[at[q]], at[q], c, q, z, T2[q])
  <2>1. CASE ~(c = e.c /\ q = p /\ z = e.peer)
    <3>1. w2 = w
      <4>1. CASE q # p
        BY <1>4, <4>1
      <4>2. CASE q = p /\ z # e.peer
        <5>1. Left(T2[q], "send", z) <=> Left(T[q], "send", z)
          BY <1>2, <1>4, <4>2 DEF Y
        <5> QED
          BY <5>1 DEF Wrote
      <4>3. CASE q = p /\ c # e.c
        <5>1. ~Writes(h, c, q, z)
          BY <1>2, <4>3, TalkIs
        <5> QED
          BY <4>3, <5>1 DEF Wrote, h, a
      <4> QED
        BY <2>1, <4>1, <4>2, <4>3
    <3>2. C2[c][q][z] = C[c][q][z]
      BY <1>5, <2>1
    <3> QED
      BY <2>1, <3>1, <3>2
  <2>2. CASE c = e.c /\ q = p /\ z = e.peer
    <3>1. Left(T[q], "send", z) /\ ~Left(T2[q], "send", z) /\ Writes(H[at[q]], c, q, z)
      BY <1>2, <1>4, <2>2 DEF Y, h, a
    <3>2. w2 = Append(w, a)
      BY <2>2, <3>1 DEF Wrote, a
    <3>3. C2[c][q][z] = Append(C[c][q][z], m)
      BY <1>5, <2>2
    <3> QED
      BY <2>2, <3>2, <3>3
  <2> QED
    BY <2>1, <2>2
<1>9. ASSUME NEW c \in Connections, NEW q \in Players, NEW z \in Players
      PROVE  WireOK(H, Wrote(H[at[q]], at[q], c, q, z, T2[q]), Read(H[at[z]], c, q, z, T2[z]), C2[c][q][z])
  <2> DEFINE w == Wrote(H[at[q]], at[q], c, q, z, T[q])
             w2 == Wrote(H[at[q]], at[q], c, q, z, T2[q])
             r == Read(H[at[z]], c, q, z, T[z])
             Z == C[c][q][z]
  <2>1. w \in Seq(Nat) /\ r \in Nat /\ Z \in Seq(Msg) /\ WireOK(H, w, r, Z)
    BY <1>1, <1>5, WroteIs
  <2>2. CASE ~(c = e.c /\ q = p /\ z = e.peer)
    <3>1. w2 = w /\ C2[c][q][z] = Z
      BY <1>8, <2>2
    <3> QED
      BY <1>7, <2>1, <3>1
  <2>3. CASE c = e.c /\ q = p /\ z = e.peer
    <3>2. w2 = Append(w, a)
      BY <1>8, <2>3
    <3>3. C2[c][q][z] = Append(Z, m)
      BY <1>8, <2>3
    <3>4. m.tag = Tag(H[a])
      BY <1>2 DEF h, e, Y
    <3> HIDE DEF w, w2, r, Z
    <3>5. r + Len(Z) = Len(w) /\ (\A j \in 1 .. Len(Z) : Z[j].tag = Tag(H[w[r + j]])) /\ Len(Z) \in Nat /\ Len(w) \in Nat
      <4>1. Len(Z) \in Nat /\ Len(w) \in Nat
        BY <2>1
      <4>2. r + Len(Z) = Len(w) /\ \A j \in 1 .. Len(Z) : Z[j].tag = Tag(H[w[r + j]])
        BY <2>1 DEF WireOK
      <4> QED
        BY <4>1, <4>2
    <3> DEFINE Z2 == Append(Z, m)
               v == Append(w, a)
    <3>6. /\ Len(Z2) = Len(Z) + 1 /\ Z2[Len(Z) + 1] = m /\ (\A j \in 1 .. Len(Z) : Z2[j] = Z[j])
          /\ Len(v) = Len(w) + 1 /\ v[Len(w) + 1] = a /\ \A j \in 1 .. Len(w) : v[j] = w[j]
      BY <1>1, <2>1
    <3> HIDE DEF Z2, v
    <3>7. ASSUME NEW j \in 1 .. Len(Z2) PROVE Z2[j].tag = Tag(H[v[r + j]])
      <4>1. CASE j = Len(Z) + 1
        <5>1. r + j = Len(w) + 1
          <6> DEFINE k == Len(Z)
                     l == Len(w)
          <6>1. r \in Nat /\ k \in Nat /\ l \in Nat /\ r + k = l /\ j = k + 1
            BY <2>1, <3>5, <4>1
          <6> HIDE DEF k, l
          <6>2. r + j = l + 1
            BY <6>1
          <6> QED
            BY <6>2 DEF l
        <5> QED
          BY <3>4, <3>6, <4>1, <5>1
      <4>2. CASE j # Len(Z) + 1
        <5>1. j \in 1 .. Len(Z)
          BY <3>5, <3>6, <4>2
        <5>2. r + j \in 1 .. Len(w)
          BY <2>1, <3>5, <5>1
        <5> QED
          BY <3>5, <3>6, <5>1, <5>2
      <4> QED
        BY <4>1, <4>2
    <3>8. r + Len(Z2) = Len(v)
      BY <2>1, <3>5, <3>6
    <3>9. WireOK(H, v, r, Z2)
      BY <3>7, <3>8 DEF WireOK
    <3> QED
      BY <1>7, <3>2, <3>3, <3>9 DEF v, Z2, w2, r
  <2> QED
    BY <2>2, <2>3
<1>10. Follows(H, at, S, T2, C2)
  BY <1>1, <1>6, <1>9 DEF Follows
<1>11. OneSent(H, at, T, T2, C, C2, p, e, m)
  <2>1. \A x, y \in Players : Left(T2[y], "receive", x) <=> Left(T[y], "receive", x)
    BY <1>2, <1>4 DEF Y
  <2>2. /\ Wrote(H[at[p]], at[p], e.c, p, e.peer, T2[p]) = Append(Wrote(H[at[p]], at[p], e.c, p, e.peer, T[p]), at[p])
        /\ C2[e.c][p][e.peer] = Append(C[e.c][p][e.peer], m)
    BY <1>3, <1>8 DEF a
  <2>3. \A c \in Connections, x, y \in Players : ~(c = e.c /\ x = p /\ y = e.peer) =>
          Wrote(H[at[x]], at[x], c, x, y, T2[x]) = Wrote(H[at[x]], at[x], c, x, y, T[x]) /\ C2[c][x][y] = C[c][x][y]
    BY <1>8
  <2> QED
    BY <1>7, <2>1, <2>2, <2>3 DEF OneSent
<1> QED
  BY <1>10, <1>11 DEF T2, C2, e, Y

\* The message that is read is that of the round, and of one of the messages
\* before it that have been written.
ReadsNext(H, at, T, C, p) ==
  LET e == Head(T[p])
      q == e.peer
      n == Expected(H[at[p]], at[p], e.c)
      w == Wrote(H[at[q]], at[q], e.c, q, p, T[q])
      r == Read(H[at[p]], e.c, q, p, T[p])
  IN  /\ e \in TStep /\ Reads(H[at[p]], e.c, q, p)
      /\ e.m.tag = Tag(H[at[p]])
      /\ r = Taken(H[at[p]], e.c, q, p) /\ r + 1 \in 1 .. Len(w) /\ w[r + 1] = n /\ n \in Nat
      /\ n <= at[q]
      /\ Head(C[e.c][q][p]) \in Msg /\ Head(C[e.c][q][p]).tag = Tag(H[n])
      /\ Head(C[e.c][q][p]).tag = e.m.tag

\* Whoever is about to read reads that.
LEMMA NextMessage ==
  ASSUME Setting, NEW H, Trace(H), NEW at, NEW S, NEW T, NEW C, Follows(H, at, S, T, C),
         T \in [Players -> Seq(TStep)], C \in Pairs(Seq(Msg)),
         NEW p \in Players, T[p] # <<>>, Head(T[p]).dir = "receive",
         C[Head(T[p]).c][Head(T[p]).peer][p] # <<>>
  PROVE  ReadsNext(H, at, T, C, p)
<1> DEFINE Y == T[p]
           e == Head(Y)
           q == e.peer
           c == e.c
           b == at[p]
           a == at[q]
           n == Expected(H[b], b, c)
           w == Wrote(H[a], a, c, q, p, T[q])
           r == Read(H[b], c, q, p, Y)
           Z == C[c][q][p]
<1>1. /\ at \in [Players -> Nat] /\ b \in Nat /\ Y \in Seq(TStep)
      /\ PlaceOK(S[p], H[b]) /\ TodoOK(H[b], p, S[p], Y)
  BY DEF Follows
<1>2. /\ e \in TStep /\ e.c = Connection(H[b]) /\ e.m.tag = Tag(H[b]) /\ Reads(H[b], e.c, e.peer, p)
      /\ Left(Y, "receive", e.peer)
  <2>1. Y # <<>> /\ e.dir = "receive"
    OBVIOUS
  <2> HIDE DEF Y, e, b
  <2> QED
    BY <1>1, <2>1, LeftTail DEF e
<1>3. c \in Connections /\ q \in Players /\ a \in Nat
  <2>1. c \in Connections /\ q \in Players
    BY <1>2 DEF TStep
  <2> QED
    BY <1>1, <2>1
<1>4. WireOK(H, w, r, Z)
  <2> HIDE DEF Y, e, q, c
  <2> QED
    BY <1>3 DEF Follows, Y
<1>5. Z \in Seq(Msg) /\ Z # <<>>
  <2> HIDE DEF e
  <2> QED
    BY <1>3 DEF Pairs, e
<1> HIDE DEF Y, e, q, c, a, b, n, r, Z
<1>6. w \in Seq(Nat) /\ r \in Nat /\ (w = H[a].sent[c][q][p] \/ w = H[a + 1].sent[c][q][p])
  <2>1. r \in Nat
    BY <1>1, <1>3, WroteIs DEF r
  <2> DEFINE X == T[q]
  <2> HIDE DEF X, w
  <2>2. Wrote(H[a], a, c, q, p, X) = IF Writes(H[a], c, q, p) /\ Left(X, "send", p) THEN H[a].sent[c][q][p]
                                     ELSE H[a + 1].sent[c][q][p]
    BY <1>3, WroteIs
  <2>3. Wrote(H[a], a, c, q, p, X) \in Seq(Nat)
    BY <1>3, WroteIs
  <2>4. w = Wrote(H[a], a, c, q, p, X)
    BY DEF X, w
  <2> QED
    BY <2>1, <2>2, <2>3, <2>4
<1>7. /\ Taken(H[b], c, q, p) \in Nat
      /\ Taken(H[b], c, q, p) + 1 <= Len(H[b + 1].sent[c][q][p])
      /\ H[b + 1].sent[c][q][p][Taken(H[b], c, q, p) + 1] = n
      /\ n \in Nat /\ n <= b /\ Tag(H[n]) = Tag(H[b])
  BY <1>1, <1>2, <1>3, TakenNext DEF q, c, n
<1>8. r = Taken(H[b], c, q, p)
  BY <1>2 DEF r, Read, q, c
<1> DEFINE s(x) == H[x].sent[c][q][p]
<1>9. ASSUME NEW x \in Nat, NEW y \in Nat, x <= y
      PROVE  s(x) \in Seq(Nat) /\ s(y) \in Seq(Nat) /\ Len(s(x)) <= Len(s(y)) /\ \A i \in 1 .. Len(s(x)) : s(y)[i] = s(x)[i]
  <2> HIDE DEF w, s
  <2>1. H[x].sent[c][q][p] \in Seq(Nat)
    BY <1>3, <1>9, SentGrows
  <2>2. H[y].sent[c][q][p] \in Seq(Nat)
    BY <1>3, <1>9, SentGrows
  <2>3. Len(H[x].sent[c][q][p]) <= Len(H[y].sent[c][q][p])
    BY <1>3, <1>9, SentGrows
  <2>4. \A i \in 1 .. Len(H[x].sent[c][q][p]) : H[y].sent[c][q][p][i] = H[x].sent[c][q][p][i]
    BY <1>3, <1>9, SentGrows
  <2> QED
    BY <2>1, <2>2, <2>3, <2>4 DEF s
<1>10. PICK x \in {a, a + 1} : w = s(x)
  BY <1>6
<1> HIDE DEF w, s
<1>11. r + Len(Z) = Len(w) /\ (\A j \in 1 .. Len(Z) : Z[j].tag = Tag(H[w[r + j]])) /\ Len(Z) \in Nat /\ Len(Z) >= 1 /\ Len(w) \in Nat
  <2>1. Len(Z) \in Nat /\ Len(Z) >= 1
    BY <1>5, EmptySeq
  <2> QED
    BY <1>4, <1>6, <2>1 DEF WireOK
<1>12. r + 1 \in 1 .. Len(w) /\ 1 \in 1 .. Len(Z) /\ Z[1].tag = Tag(H[w[r + 1]])
  BY <1>6, <1>11
<1>13. w[r + 1] = n
  <2>1. s(b + 1)[r + 1] = n /\ r + 1 <= Len(s(b + 1)) /\ s(b + 1) \in Seq(Nat) /\ x \in Nat /\ b + 1 \in Nat
    <3>1. x \in Nat /\ b + 1 \in Nat
      BY <1>1, <1>3, <1>10
    <3>2. s(b + 1) \in Seq(Nat)
      BY <1>9, <3>1
    <3> QED
      BY <1>7, <1>8, <3>1, <3>2 DEF s
  <2>2. Len(s(b + 1)) \in Nat
    BY <2>1
  <2>3. CASE x <= b + 1
    BY <1>9, <1>10, <1>12, <2>1, <2>3
  <2>4. CASE b + 1 <= x
    <3>1. r + 1 \in 1 .. Len(s(b + 1))
      BY <1>6, <2>1, <2>2
    <3> QED
      BY <1>9, <1>10, <2>1, <2>4, <3>1
  <2> QED
    BY <2>1, <2>3, <2>4
<1>14. Z[1] = Head(Z) /\ Head(Z) \in Msg
  BY <1>5, <1>11
<1>15. n <= a
  <2>1. w \in Seq(Nat) /\ \A i \in 1 .. Len(w) : w[i] < x
    <3>1. SentOK(H, x)
      BY <1>3, <1>10, SentFacts
    <3>2. \A i \in 1 .. Len(s(x)) : s(x)[i] < x
      BY <1>3, <3>1 DEF SentOK, s, q, c
    <3> QED
      BY <1>6, <1>10, <3>2
  <2>2. n < x
    BY <1>12, <1>13, <2>1
  <2> QED
    BY <1>3, <1>7, <1>10, <2>2
<1> QED
  BY <1>2, <1>7, <1>8, <1>12, <1>13, <1>14, <1>15 DEF ReadsNext, Y, e, q, c, a, b, n, r, Z, w

\* p reads a message in its step e.
OneRead(H, at, T, T2, C, C2, p, e) ==
  LET R(c, x, y, Y) == Read(H[at[y]], c, x, y, Y[y]) IN
  /\ \A c \in Connections, x, y \in Players : Wrote(H[at[x]], at[x], c, x, y, T2[x]) = Wrote(H[at[x]], at[x], c, x, y, T[x])
  /\ \A x, y \in Players : ~(x = e.peer /\ y = p) => (Left(T2[y], "receive", x) <=> Left(T[y], "receive", x))
  /\ R(e.c, e.peer, p, T2) = R(e.c, e.peer, p, T) + 1 /\ C2[e.c][e.peer][p] = Tail(C[e.c][e.peer][p])
  /\ \A c \in Connections, x, y \in Players : ~(c = e.c /\ x = e.peer /\ y = p) =>
       R(c, x, y, T2) = R(c, x, y, T) /\ C2[c][x][y] = C[c][x][y]

\* The message of the round is read.
LEMMA Receives ==
  ASSUME Setting, NEW H, Trace(H), NEW at, NEW S, NEW T, NEW C, Follows(H, at, S, T, C),
         T \in [Players -> Seq(TStep)], C \in Pairs(Seq(Msg)),
         NEW p \in Players, T[p] # <<>>, Head(T[p]).dir = "receive",
         C[Head(T[p]).c][Head(T[p]).peer][p] # <<>>
  PROVE  LET T2 == [T EXCEPT ![p] = Tail(@)]
             C2 == [C EXCEPT ![Head(T[p]).c][Head(T[p]).peer][p] = Tail(@)]
         IN  Follows(H, at, S, T2, C2) /\ OneRead(H, at, T, T2, C, C2, p, Head(T[p]))
<1> DEFINE Y == T[p]
           e == Head(Y)
           T2 == [T EXCEPT ![p] = Tail(@)]
           C2 == [C EXCEPT ![e.c][e.peer][p] = Tail(@)]
           a == at[p]
           h == H[a]
<1>1. /\ at \in [Players -> Nat] /\ a \in Nat /\ Y \in Seq(TStep)
      /\ \A q \in Players : PlaceOK(S[q], H[at[q]]) /\ TodoOK(H[at[q]], q, S[q], T[q])
      /\ \A c \in Connections, q, z \in Players :
           WireOK(H, Wrote(H[at[q]], at[q], c, q, z, T[q]), Read(H[at[z]], c, q, z, T[z]), C[c][q][z])
  BY DEF Follows
<1>2. /\ TodoOK(h, p, S[p], Tail(Y)) /\ e \in TStep
      /\ e.c = Connection(h) /\ Reads(h, e.c, e.peer, p)
      /\ Left(Y, "receive", e.peer)
      /\ \A dir, q : Left(Tail(Y), dir, q) <=> Left(Y, dir, q) /\ ~(dir = "receive" /\ q = e.peer)
  <2>1. Y # <<>> /\ TodoOK(h, p, S[p], Y) /\ e.dir = "receive"
    BY <1>1
  <2> HIDE DEF Y, h, e
  <2> QED
    BY <1>1, <2>1, LeftTail DEF e
<1>3. e.c \in Connections /\ e.peer \in Players
  BY <1>2 DEF TStep
<1>4. T2[p] = Tail(Y) /\ \A q \in Players : q # p => T2[q] = T[q]
  OBVIOUS
<1>5. /\ C2[e.c][e.peer][p] = Tail(C[e.c][e.peer][p]) /\ C[e.c][e.peer][p] # <<>>
      /\ \A c \in Connections, q, z \in Players : ~(c = e.c /\ q = e.peer /\ z = p) => C2[c][q][z] = C[c][q][z]
      /\ \A c \in Connections, q, z \in Players : C[c][q][z] \in Seq(Msg)
  <2> DEFINE d == e.c
             x == e.peer
             Z == Tail(C[d][x][p])
  <2>1. d \in Connections /\ x \in Players
    BY <1>3
  <2>2. C2 = [C EXCEPT ![d][x][p] = Z] /\ C[d][x][p] # <<>>
    OBVIOUS
  <2> HIDE DEF e, d, x, C2
  <2>3. Z \in Seq(Msg)
    <3>1. C[d][x][p] \in Seq(Msg)
      BY <2>1 DEF Pairs
    <3> QED
      BY <2>2, <3>1, HeadTailProperties
  <2> HIDE DEF Z
  <2>4. Puts(C2, C, d, x, p, Z) /\ \A c \in Connections, q, z \in Players : C[c][q][z] \in Seq(Msg)
    BY <2>1, <2>2, <2>3, OnePair
  <2> QED
    BY <2>2, <2>4 DEF Puts, d, x, Z
<1> HIDE DEF T2, C2, e, Y, a, h
<1>6. ASSUME NEW q \in Players PROVE TodoOK(H[at[q]], q, S[q], T2[q])
  <2>1. CASE q = p
    BY <1>2, <1>4, <2>1 DEF h, a
  <2>2. CASE q # p
    BY <1>1, <1>4, <2>2
  <2> QED
    BY <2>1, <2>2
<1>7. \A c \in Connections, q, z \in Players : Wrote(H[at[q]], at[q], c, q, z, T2[q]) = Wrote(H[at[q]], at[q], c, q, z, T[q])
  <2> SUFFICES ASSUME NEW c \in Connections, NEW q \in Players, NEW z \in Players
               PROVE  Wrote(H[at[q]], at[q], c, q, z, T2[q]) = Wrote(H[at[q]], at[q], c, q, z, T[q])
    OBVIOUS
  <2>1. Left(T2[q], "send", z) <=> Left(T[q], "send", z)
    BY <1>2, <1>4 DEF Y
  <2> QED
    BY <2>1 DEF Wrote
<1>8. ASSUME NEW c \in Connections, NEW q \in Players, NEW z \in Players
      PROVE  LET r == Read(H[at[z]], c, q, z, T[z])
                 r2 == Read(H[at[z]], c, q, z, T2[z])
             IN  IF c = e.c /\ q = e.peer /\ z = p THEN r2 = r + 1 /\ C2[c][q][z] = Tail(C[c][q][z])
                 ELSE r2 = r /\ C2[c][q][z] = C[c][q][z]
  <2> DEFINE r == Read(H[at[z]], c, q, z, T[z])
             r2 == Read(H[at[z]], c, q, z, T2[z])
  <2>1. CASE ~(c = e.c /\ q = e.peer /\ z = p)
    <3>1. r2 = r
      <4>1. CASE z # p
        BY <1>4, <4>1
      <4>2. CASE z = p /\ q # e.peer
        <5>1. Left(T2[z], "receive", q) <=> Left(T[z], "receive", q)
          BY <1>2, <1>4, <4>2 DEF Y
        <5> QED
          BY <5>1 DEF Read
      <4>3. CASE z = p /\ c # e.c
        <5>1. ~Reads(h, c, q, z)
          BY <1>2, <4>3, TalkIs
        <5> QED
          BY <4>3, <5>1 DEF Read, h, a
      <4> QED
        BY <2>1, <4>1, <4>2, <4>3
    <3>2. C2[c][q][z] = C[c][q][z]
      BY <1>5, <2>1
    <3> QED
      BY <2>1, <3>1, <3>2
  <2>2. CASE c = e.c /\ q = e.peer /\ z = p
    <3>1. Left(T[z], "receive", q) /\ ~Left(T2[z], "receive", q) /\ Reads(H[at[z]], c, q, z)
      BY <1>2, <1>4, <2>2 DEF Y, h, a
    <3>2. r2 = r + 1
      BY <3>1 DEF Read
    <3>3. C2[c][q][z] = Tail(C[c][q][z])
      BY <1>5, <2>2
    <3> QED
      BY <2>2, <3>2, <3>3
  <2> QED
    BY <2>1, <2>2
<1>9. ASSUME NEW c \in Connections, NEW q \in Players, NEW z \in Players
      PROVE  WireOK(H, Wrote(H[at[q]], at[q], c, q, z, T2[q]), Read(H[at[z]], c, q, z, T2[z]), C2[c][q][z])
  <2> DEFINE w == Wrote(H[at[q]], at[q], c, q, z, T[q])
             r == Read(H[at[z]], c, q, z, T[z])
             r2 == Read(H[at[z]], c, q, z, T2[z])
             Z == C[c][q][z]
  <2>1. w \in Seq(Nat) /\ r \in Nat /\ Z \in Seq(Msg) /\ WireOK(H, w, r, Z)
    BY <1>1, <1>5, WroteIs
  <2>2. CASE ~(c = e.c /\ q = e.peer /\ z = p)
    <3>1. r2 = r /\ C2[c][q][z] = Z
      BY <1>8, <2>2
    <3> QED
      BY <1>7, <2>1, <3>1
  <2>3. CASE c = e.c /\ q = e.peer /\ z = p
    <3>2. r2 = r + 1
      BY <1>8, <2>3
    <3>3. C2[c][q][z] = Tail(Z) /\ Z # <<>>
      BY <1>5, <2>3
    <3> HIDE DEF w, r, r2, Z
    <3>5. r + Len(Z) = Len(w) /\ (\A j \in 1 .. Len(Z) : Z[j].tag = Tag(H[w[r + j]])) /\ Len(Z) \in Nat /\ Len(w) \in Nat
      <4>1. Len(Z) \in Nat /\ Len(w) \in Nat
        BY <2>1
      <4>2. r + Len(Z) = Len(w) /\ \A j \in 1 .. Len(Z) : Z[j].tag = Tag(H[w[r + j]])
        BY <2>1 DEF WireOK
      <4> QED
        BY <4>1, <4>2
    <3> DEFINE Z2 == Tail(Z)
               k == Len(Z)
    <3>6. Len(Z2) = k - 1 /\ (\A j \in 1 .. k - 1 : Z2[j] = Z[j + 1]) /\ k \in Nat /\ k >= 1
      <4>1. Len(Z2) = k - 1 /\ \A j \in 1 .. k - 1 : Z2[j] = Z[j + 1]
        BY <2>1, <3>3, HeadTailProperties
      <4>2. k \in Nat /\ k >= 1
        BY <2>1, <3>3, EmptySeq
      <4> QED
        BY <4>1, <4>2
    <3> HIDE DEF Z2
    <3>7. ASSUME NEW j \in 1 .. Len(Z2) PROVE Z2[j].tag = Tag(H[w[r2 + j]])
      <4>1. j \in 1 .. k - 1 /\ j + 1 \in 1 .. k /\ r + (j + 1) = r2 + j
        <5> HIDE DEF k
        <5> QED
          BY <2>1, <3>2, <3>6
      <4>2. Z[j + 1].tag = Tag(H[w[r + (j + 1)]])
        BY <3>5, <4>1
      <4> QED
        BY <3>6, <4>1, <4>2
    <3>8. r2 + Len(Z2) = Len(w)
      <4> DEFINE l == Len(w)
                 k2 == Len(Z2)
      <4>1. r \in Nat /\ r2 = r + 1 /\ r + k = l /\ k2 = k - 1 /\ k \in Nat /\ l \in Nat
        BY <2>1, <3>2, <3>5, <3>6
      <4> HIDE DEF k, l, k2
      <4>2. r2 + k2 = l
        BY <4>1
      <4> QED
        BY <4>2 DEF l, k2
    <3>9. WireOK(H, w, r2, Z2)
      BY <3>7, <3>8 DEF WireOK
    <3> QED
      BY <1>7, <3>3, <3>9 DEF w, Z2, r2
  <2> QED
    BY <2>2, <2>3
<1>10. Follows(H, at, S, T2, C2)
  BY <1>1, <1>6, <1>9 DEF Follows
<1>11. OneRead(H, at, T, T2, C, C2, p, e)
  <2>1. \A x, y \in Players : ~(x = e.peer /\ y = p) => (Left(T2[y], "receive", x) <=> Left(T[y], "receive", x))
    BY <1>2, <1>4 DEF Y
  <2>2. /\ Read(H[at[p]], e.c, e.peer, p, T2[p]) = Read(H[at[p]], e.c, e.peer, p, T[p]) + 1
        /\ C2[e.c][e.peer][p] = Tail(C[e.c][e.peer][p])
    BY <1>3, <1>8
  <2>3. \A c \in Connections, x, y \in Players : ~(c = e.c /\ x = e.peer /\ y = p) =>
          Read(H[at[y]], c, x, y, T2[y]) = Read(H[at[y]], c, x, y, T[y]) /\ C2[c][x][y] = C[c][x][y]
    BY <1>8
  <2> QED
    BY <1>7, <2>1, <2>2, <2>3 DEF OneRead
<1> QED
  BY <1>10, <1>11 DEF T2, C2, e, Y

-----------------------------------------------------------------------------
(* The steps keep everyone at the rounds of the trace.                     *)

\* What is gathered has the type of its parts.
LEMMA FlattenType ==
  ASSUME NEW S, NEW ss \in Seq(Seq(S)), Len(ss) > 0
  PROVE  FlattenSeq(ss) \in Seq(S)
<1>1. PICK f \in [1 .. Len(ss) -> Seq(S)] : FlattenSeq(ss) = f[Len(ss)]
  BY FlattenIs
<1>2. Len(ss) \in 1 .. Len(ss)
  BY LenProperties
<1> QED
  BY <1>1, <1>2

\* What p takes itself to have heard.
LEMMA HeardIs ==
  ASSUME NEW p \in Players, got[p] \in Speech, NEW s, NEW r, Says(p, s, r) \in Seq(Entry)
  PROVE  /\ Heard(p, s, r) \in Speech /\ Heard(p, s, r)[p] = Says(p, s, r)
         /\ \A q \in Players : q # p => Heard(p, s, r)[q] = got[p][q]
<1> DEFINE v == Says(p, s, r)
<1>1. v \in Seq(Entry) /\ Heard(p, s, r) = [got[p] EXCEPT ![p] = v]
  BY DEF Heard
<1> HIDE DEF v
<1>2. [got[p] EXCEPT ![p] = v] \in [Players -> Seq(Entry)] /\ [got[p] EXCEPT ![p] = v][p] = v
  BY <1>1 DEF Speech
<1>3. \A q \in Players : q # p => [got[p] EXCEPT ![p] = v][q] = got[p][q]
  BY <1>1 DEF Speech
<1> QED
  BY <1>1, <1>2, <1>3 DEF Speech, v

\* The values an opening gives to p: those that were opened, right or wrong.
LEMMA ValuesIs ==
  ASSUME Setting, NEW p, NEW s, s.pc \in 1 .. Len(prog)
  PROVE  /\ Values(p, s) \in Seq(Entry) /\ Len(Values(p, s)) = Len(Opened(s)) /\ Len(Opened(s)) \in Nat
         /\ Len(Opened(s)) = prog[Begun(s)].n
         /\ \A i \in 1 .. Len(Opened(s)) :
              Values(p, s)[i] = [id |-> Opened(s)[i].id,
                                 ok |-> \A q \in Sources(p) : i <= Len(got[p][q]) /\ got[p][q][i] = Opened(s)[i]]
<1> DEFINE o == Opened(s)
           u(i) == \A q \in Sources(p) : i <= Len(got[p][q]) /\ got[p][q][i] = o[i]
<1>1. o \in Seq(Entry) /\ Len(o) = prog[Begun(s)].n /\ Len(o) \in Nat
  <2>1. o \in Seq(Entry) /\ Len(o) = prog[Begun(s)].n
    BY OpenedIs, SettingIs
  <2> QED
    BY <2>1
<1>2. Values(p, s) = [i \in DOMAIN o |-> [o[i] EXCEPT !.ok = u(i)]]
  BY DEF Values
<1> HIDE DEF o, u
<1>3. ASSUME NEW i \in 1 .. Len(o) PROVE o[i].id \in Ids /\ [o[i] EXCEPT !.ok = u(i)] = [id |-> o[i].id, ok |-> u(i)]
  <2> DEFINE x == o[i]
             b == u(i)
  <2>1. x \in Entry
    BY <1>1
  <2> HIDE DEF x, b
  <2>2. x.id \in Ids /\ [x EXCEPT !.ok = b] = [id |-> x.id, ok |-> b]
    BY <2>1 DEF Entry
  <2> QED
    BY <2>2 DEF x, b
<1>4. \A i \in 1 .. Len(o) : [id |-> o[i].id, ok |-> u(i)] \in Entry
  <2> SUFFICES ASSUME NEW i \in 1 .. Len(o) PROVE [id |-> o[i].id, ok |-> u(i)] \in Entry
    OBVIOUS
  <2>1. o[i].id \in Ids
    BY <1>3
  <2>2. u(i) \in BOOLEAN
    BY DEF u
  <2> QED
    BY <2>1, <2>2 DEF Entry
<1> DEFINE e(i) == [id |-> o[i].id, ok |-> u(i)]
<1>5. Values(p, s) = [i \in 1 .. Len(o) |-> e(i)]
  BY <1>1, <1>2, <1>3
<1>6. \A i \in 1 .. Len(o) : e(i) \in Entry
  BY <1>4
<1> HIDE DEF e
<1>7. Values(p, s) \in Seq(Entry) /\ Len(Values(p, s)) = Len(o) /\ \A i \in 1 .. Len(o) : Values(p, s)[i] = e(i)
  <2> DEFINE l == Len(o)
             v == Values(p, s)
  <2>1. l \in Nat /\ v = [i \in 1 .. l |-> e(i)] /\ \A i \in 1 .. l : e(i) \in Entry
    BY <1>1, <1>5, <1>6
  <2> HIDE DEF l, v
  <2>2. v \in [1 .. l -> Entry] /\ DOMAIN v = 1 .. l /\ \A i \in 1 .. l : v[i] = e(i)
    BY <2>1
  <2>3. v \in Seq(Entry)
    BY <2>1, <2>2
  <2>4. Len(v) = l
    BY <2>1, <2>2, <2>3
  <2> QED
    BY <2>2, <2>3, <2>4 DEF v, l
<1> QED
  BY <1>1, <1>7 DEF e, u, o

\* The state without the round that ends.
Popped(s) == [s EXCEPT !.rounds = Tail(@)]

\* The round g after h and the player t after s, if s is at h.
NextIs(h, g, s, t) ==
  /\ g.pc = h.pc /\ g.open_cnt = Counted(h)
  /\ ~CheckDue(h) => g.rounds = Tail(h.rounds)
  /\ CheckDue(h) => g.rounds = CheckRounds(<<>>) \o Tail(h.rounds)
  /\ g.fresh = IF Round(h) = "end" THEN h.fresh + Len(Opened(h)) ELSE IF Round(h) \in {"reveal", "hash"} THEN 0 ELSE h.fresh
  /\ \A c \in Connections : g.call[c] = IF At(h, c, "begin") THEN h.pc ELSE IF At(h, c, "end") THEN 0 ELSE h.call[c]
  /\ s \in State /\ s.pc = h.pc /\ s.pc \in 1 .. Len(prog) /\ s.rounds = h.rounds
  /\ s.open_cnt = h.open_cnt /\ h.open_cnt \in Nat /\ h.fresh \in Nat
  /\ Call(s) = Call(h) /\ Connection(s) = Connection(h) /\ Begun(s) = Begun(h) /\ Opened(s) = Opened(h)
  /\ t \in State
  /\ t.rounds = Tail(h.rounds) /\ t.pc = s.pc /\ t.open_cnt = s.open_cnt
  /\ t.counter = s.counter /\ t.macs = s.macs /\ t.vals = s.vals

\* The round after h, for a player that is at h.
LEMMA NextPlace ==
  ASSUME Setting, NEW h, RoundFacts(h), NEW n \in Nat, Round(h) # "none", NEW s, PlaceOK(s, h)
  PROVE  NextIs(h, Following(h, n), s, Popped(s))
<1> DEFINE g == Following(h, n)
           t == Popped(s)
<1>1. h \in Here /\ RoundsOK(h)
  BY DEF RoundFacts
<1>2. s \in State /\ s.pc = h.pc /\ s.rounds = h.rounds /\ s.open_cnt = h.open_cnt
  BY DEF PlaceOK
<1>3. Tail(h.rounds) \in Seq(Names) /\ h.pc \in 1 .. Len(prog)
  BY <1>1, RoundIs
<1>4. ~More(h)
  BY DEF More
<1>5. /\ g.pc = IF More(h) THEN h.pc + 1 ELSE h.pc
      /\ g.rounds = Rest(h) /\ g.open_cnt = Counted(h)
      /\ g.call = [c \in Connections |-> IF At(h, c, "begin") THEN h.pc ELSE IF At(h, c, "end") THEN 0 ELSE h.call[c]]
      /\ g.fresh = IF Round(h) = "end" THEN h.fresh + Len(Opened(h)) ELSE IF Round(h) \in {"reveal", "hash"} THEN 0 ELSE h.fresh
  BY DEF Following
<1>6. /\ ~CheckDue(h) => Rest(h) = Tail(h.rounds)
      /\ CheckDue(h) => Rest(h) = CheckRounds(<<>>) \o Tail(h.rounds)
  BY <1>4 DEF Rest, CheckDue
<1>7. /\ Popped(s) \in State
      /\ Popped(s).rounds = Tail(h.rounds) /\ Popped(s).pc = s.pc /\ Popped(s).open_cnt = s.open_cnt
      /\ Popped(s).counter = s.counter /\ Popped(s).macs = s.macs /\ Popped(s).vals = s.vals
  <2> DEFINE x == Tail(h.rounds)
  <2>1. Popped(s) = [s EXCEPT !.rounds = x] /\ x \in Seq(Names)
    BY <1>2, <1>3 DEF Popped
  <2> HIDE DEF x
  <2>2. /\ [s EXCEPT !.rounds = x] \in State
        /\ [s EXCEPT !.rounds = x].rounds = x /\ [s EXCEPT !.rounds = x].pc = s.pc /\ [s EXCEPT !.rounds = x].open_cnt = s.open_cnt
        /\ [s EXCEPT !.rounds = x].counter = s.counter /\ [s EXCEPT !.rounds = x].macs = s.macs /\ [s EXCEPT !.rounds = x].vals = s.vals
    BY <1>2, <2>1 DEF State
  <2> QED
    BY <2>1, <2>2 DEF x
<1>8. h.open_cnt \in Nat /\ h.fresh \in Nat
  BY <1>1 DEF Here
<1>9. Call(s) = Call(h) /\ Connection(s) = Connection(h) /\ Begun(s) = Begun(h) /\ Opened(s) = Opened(h)
  BY <1>2, SamePlace
<1> HIDE DEF g
<1>10. /\ g.pc = h.pc /\ g.open_cnt = Counted(h)
       /\ ~CheckDue(h) => g.rounds = Tail(h.rounds)
       /\ CheckDue(h) => g.rounds = CheckRounds(<<>>) \o Tail(h.rounds)
       /\ \A c \in Connections : g.call[c] = IF At(h, c, "begin") THEN h.pc ELSE IF At(h, c, "end") THEN 0 ELSE h.call[c]
  BY <1>4, <1>5, <1>6
<1>11. NextIs(h, g, s, t)
  BY <1>2, <1>3, <1>5, <1>7, <1>8, <1>9, <1>10 DEF NextIs
<1> QED
  BY <1>11 DEF g

\* A player that ends a round at which all end it is at the next one.
LEMMA EffectPlace ==
  ASSUME Setting, NEW h, RoundFacts(h), NEW n \in Nat, Round(h) \notin {"none", "pub"},
         NEW p \in Players, NEW s, PlaceOK(s, h), got[p] \in Speech
  PROVE  PlaceOK(Effect(p, s, Round(h)), Following(h, n))
<1> DEFINE g == Following(h, n)
           t == Popped(s)
           r == Round(h)
           o == Opened(h)
           c == Connection(h)
<1>1. /\ g.pc = h.pc /\ g.open_cnt = Counted(h)
      /\ ~CheckDue(h) => g.rounds = Tail(h.rounds)
      /\ CheckDue(h) => g.rounds = CheckRounds(<<>>) \o Tail(h.rounds)
      /\ g.fresh = IF r = "end" THEN h.fresh + Len(o) ELSE IF r \in {"reveal", "hash"} THEN 0 ELSE h.fresh
      /\ \A d \in Connections : g.call[d] = IF At(h, d, "begin") THEN h.pc ELSE IF At(h, d, "end") THEN 0 ELSE h.call[d]
      /\ s \in State /\ s.pc = h.pc /\ s.pc \in 1 .. Len(prog) /\ s.rounds = h.rounds
      /\ s.open_cnt = h.open_cnt /\ h.open_cnt \in Nat /\ h.fresh \in Nat
      /\ Call(s) = Call(h) /\ Connection(s) = c /\ Begun(s) = Begun(h) /\ Opened(s) = o
      /\ t \in State
      /\ t.rounds = Tail(h.rounds) /\ t.pc = s.pc /\ t.open_cnt = s.open_cnt
      /\ t.counter = s.counter /\ t.macs = s.macs /\ t.vals = s.vals
  <2>1. NextIs(h, g, s, t)
    BY NextPlace
  <2> HIDE DEF g, t
  <2> QED
    BY <2>1 DEF NextIs
<1>2. /\ \A d \in Connections : s.counter[d] = IF type # "Full" /\ h.call[d] # 0 THEN prog[h.call[d]].n ELSE 0
      /\ type = "Full" => Len(s.macs) = h.fresh /\ Len(s.vals) = h.fresh
  BY DEF PlaceOK
<1>3. h \in Here /\ RoundsOK(h) /\ CountsOK(h) /\ r \in Names /\ RoundOK(Call(h).op, r)
  <2>1. h \in Here /\ RoundsOK(h) /\ CountsOK(h)
    BY DEF RoundFacts
  <2> QED
    BY <2>1, RoundIs
<1>4. /\ c \in Connections
      /\ r = "end" => h.call[c] = Begun(h) /\ Begun(h) # 0
      /\ r # "end" => h.call[c] = 0
  BY CallIs
<1>5. o \in Seq(Entry) /\ Len(o) = prog[Begun(h)].n /\ Len(o) \in Nat
  <2>1. o \in Seq(Entry) /\ Len(o) = prog[Begun(h)].n
    BY <1>1, OpenedIs, SettingIs
  <2> QED
    BY <2>1
<1>6. Says(p, s, r) \in Seq(Entry)
  BY SaysIs
<1>7. Heard(p, s, r) \in Speech
  BY <1>6, HeardIs
<1>8. \A d \in Connections : d # c => ~At(h, d, "begin") /\ ~At(h, d, "end")
  BY DEF At
<1>9. (At(h, c, "begin") <=> r = "begin") /\ (At(h, c, "end") <=> r = "end")
  BY DEF At
<1>10. CheckDue(h) <=> r = "count" /\ h.open_cnt + Len(o) > Gap
  BY DEF CheckDue
<1>11. Counted(h) = IF r = "count" THEN h.open_cnt + Len(o) ELSE IF r = "reset" THEN 0 ELSE h.open_cnt
  BY DEF Counted
<1> HIDE DEF g, t, r, o, c
<1> SUFFICES PlaceOK(Effect(p, s, r), g)
  BY DEF g, r
\* What is left to show for each round: the state and what it keeps.
<1>12. ASSUME NEW e \in State, e.pc = s.pc, e.rounds = g.rounds, e.open_cnt = Counted(h),
              \A d \in Connections : d # c => e.counter[d] = s.counter[d],
              e.counter[c] = IF type # "Full" /\ g.call[c] # 0 THEN prog[g.call[c]].n ELSE 0,
              type = "Full" => Len(e.macs) = g.fresh /\ Len(e.vals) = g.fresh
       PROVE  PlaceOK(e, g)
  <2>1. ASSUME NEW d \in Connections PROVE e.counter[d] = IF type # "Full" /\ g.call[d] # 0 THEN prog[g.call[d]].n ELSE 0
    <3>1. CASE d = c
      BY <1>12, <3>1
    <3>2. CASE d # c
      <4>1. g.call[d] = h.call[d] /\ e.counter[d] = s.counter[d]
        BY <1>1, <1>8, <1>12, <3>2
      <4> QED
        BY <1>2, <4>1
    <3> QED
      BY <3>1, <3>2
  <2>2. e.pc = g.pc /\ e.rounds = g.rounds /\ e.open_cnt = g.open_cnt
    BY <1>1, <1>12
  <2> QED
    BY <1>12, <2>1, <2>2 DEF PlaceOK
<1>13. r # "begin" /\ r # "end" => s.counter[c] = IF type # "Full" /\ g.call[c] # 0 THEN prog[g.call[c]].n ELSE 0
  BY <1>1, <1>2, <1>4, <1>9
<1>14. CASE r = "begin"
  <2>1. Effect(p, s, "begin") = IF type = "Full" THEN t ELSE [t EXCEPT !.counter[c] = @ + Len(o)]
    BY <1>1 DEF Effect, t, Popped
  <2>2. Begun(h) = h.pc
    <3>1. Call(h).op # "STOP"
      BY <1>3, <1>14 DEF RoundOK
    <3> QED
      BY <1>1, <3>1, BegunIs, SettingIs
  <2>3. g.call[c] = h.pc /\ h.pc # 0 /\ s.counter[c] = 0 /\ g.rounds = Tail(h.rounds) /\ Counted(h) = h.open_cnt /\ g.fresh = h.fresh
    BY <1>1, <1>2, <1>4, <1>9, <1>10, <1>11, <1>14
  <2>4. CASE type = "Full"
    <3>1. PlaceOK(t, g)
      BY <1>1, <1>2, <1>12, <2>3, <2>4
    <3> QED
      BY <1>14, <2>1, <2>4, <3>1
  <2>5. CASE type # "Full"
    <3> DEFINE k == Len(o)
               e == [t EXCEPT !.counter[c] = @ + k]
    <3>1. t.counter \in [Connections -> Int] /\ k \in Int
      <4>1. t.counter \in [Connections -> Int]
        BY <1>1 DEF State
      <4> QED
        BY <1>5, <4>1
    <3> DEFINE f == [t.counter EXCEPT ![c] = @ + k]
    <3>2. e = [t EXCEPT !.counter = f]
      OBVIOUS
    <3> HIDE DEF k
    <3>3. f \in [Connections -> Int] /\ f[c] = t.counter[c] + k /\ \A d \in Connections : d # c => f[d] = t.counter[d]
      BY <1>4, <3>1
    <3> HIDE DEF f, e
    <3>4. e \in State /\ e.pc = t.pc /\ e.rounds = t.rounds /\ e.open_cnt = t.open_cnt /\ e.counter = f
      BY <1>1, <3>2, <3>3 DEF State
    <3>5. f[c] = prog[g.call[c]].n
      BY <1>1, <1>5, <2>2, <2>3, <3>1, <3>3 DEF k
    <3>6. PlaceOK(e, g)
      BY <1>1, <1>12, <2>3, <2>5, <3>3, <3>4, <3>5
    <3> QED
      BY <1>14, <2>1, <2>5, <3>6 DEF e, k
  <2> QED
    BY <2>4, <2>5
<1>15. CASE r = "end"
  <2> DEFINE vs == Values(p, s)
             k == Len(vs)
             m1 == t.macs \o [i \in DOMAIN vs |-> vs[i].id]
             v1 == t.vals \o vs
             x1 == t.sha256 \o vs
  <2>1. vs \in Seq(Entry) /\ k = Len(o) /\ k = prog[Begun(h)].n /\ k \in Nat
    BY <1>1, <1>5, ValuesIs
  <2>2. g.call[c] = 0 /\ g.rounds = Tail(h.rounds) /\ Counted(h) = h.open_cnt /\ g.fresh = h.fresh + k
    BY <1>1, <1>4, <1>9, <1>10, <1>11, <1>15, <2>1
  <2>3. ~(t.open_cnt > Gap)
    <3>1. h.open_cnt <= Gap
      BY <1>3, <1>15 DEF CountsOK, Checking, r
    <3> QED
      BY <1>1, <3>1, SettingIs
  <2>4. Effect(p, s, "end") = End(p, s)
    BY DEF Effect
  <2>5. CASE type = "Full"
    <3> DEFINE e == [t EXCEPT !.vals = v1, !.macs = m1]
    <3>1. End(p, s) = Due(e, FALSE)
      <4>1. End(p, s) = Due(e, t.open_cnt > Gap)
        BY <2>5 DEF End, t, Popped
      <4>2. (t.open_cnt > Gap) = FALSE
        BY <2>3
      <4> HIDE DEF e
      <4> QED
        BY <4>1, <4>2
    <3> DEFINE ids == [i \in DOMAIN vs |-> vs[i].id]
    <3>2. ids \in Seq(Ids) /\ Len(ids) = k
      <4>1. DOMAIN vs = 1 .. k
        BY <2>1
      <4>2. \A i \in 1 .. k : vs[i].id \in Ids
        <5> SUFFICES ASSUME NEW i \in 1 .. k PROVE vs[i].id \in Ids
          OBVIOUS
        <5>1. vs[i] \in Entry
          BY <2>1
        <5> QED
          BY <5>1 DEF Entry
      <4> HIDE DEF vs, k
      <4>3. ids = [i \in 1 .. k |-> vs[i].id]
        BY <4>1
      <4> QED
        BY <2>1, <4>2, <4>3
    <3>3. t.vals \in Seq(Entry) /\ t.macs \in Seq(Ids)
      BY <1>1 DEF State
    <3> HIDE DEF ids, vs, k
    <3>4. v1 \in Seq(Entry) /\ Len(v1) = Len(t.vals) + Len(vs) /\ m1 \in Seq(Ids) /\ Len(m1) = Len(t.macs) + Len(ids)
      <4>1. m1 = t.macs \o ids
        BY DEF ids
      <4> QED
        BY <2>1, <3>2, <3>3, <4>1, ConcatProperties
    <3> HIDE DEF v1, m1
    <3>5. e \in State /\ e.pc = t.pc /\ e.rounds = t.rounds /\ e.open_cnt = t.open_cnt /\ e.counter = t.counter /\ e.macs = m1 /\ e.vals = v1
      BY <1>1, <3>4 DEF State
    <3> HIDE DEF e
    <3>6. Due(e, FALSE) = [e EXCEPT !.rounds = <<>> \o e.rounds]
      BY DEF Due
    <3>7. <<>> \o e.rounds = e.rounds
      <4>1. e.rounds \in Seq(Names)
        BY <3>5 DEF State
      <4> QED
        BY <4>1, ConcatEmptySeq
    <3>8. [e EXCEPT !.rounds = e.rounds] = e
      BY <3>5 DEF State
    <3>9. Len(m1) = g.fresh /\ Len(v1) = g.fresh
      BY <1>1, <1>2, <2>1, <2>2, <2>5, <3>2, <3>4 DEF k
    <3>10. e.counter[c] = 0 /\ \A d \in Connections : d # c => e.counter[d] = s.counter[d]
      BY <1>1, <1>2, <1>4, <2>5, <3>5
    <3>11. PlaceOK(e, g)
      BY <1>1, <1>12, <2>2, <2>5, <3>5, <3>9, <3>10
    <3> QED
      BY <1>15, <2>4, <3>1, <3>6, <3>7, <3>8, <3>11
  <2>6. CASE type # "Full"
    <3> DEFINE e == [t EXCEPT !.sha256 = x1, !.counter[c] = @ - k]
               f == [t.counter EXCEPT ![c] = @ - k]
    <3>1. End(p, s) = e
      BY <1>1, <2>6 DEF End, t, Popped
    <3>2. e = [t EXCEPT !.sha256 = x1, !.counter = f]
      OBVIOUS
    <3>3. t.sha256 \in Seq(Entry) /\ t.counter \in [Connections -> Int]
      BY <1>1 DEF State
    <3>4. x1 \in Seq(Entry)
      BY <2>1, <3>3, ConcatProperties
    <3> HIDE DEF x1, vs, k
    <3>5. f \in [Connections -> Int] /\ f[c] = t.counter[c] - k /\ \A d \in Connections : d # c => f[d] = t.counter[d]
      BY <1>4, <2>1, <3>3
    <3> HIDE DEF f, e
    <3>6. e \in State /\ e.pc = t.pc /\ e.rounds = t.rounds /\ e.open_cnt = t.open_cnt /\ e.counter = f
      BY <1>1, <3>2, <3>4, <3>5 DEF State
    <3>7. f[c] = 0
      <4>1. t.counter[c] = k
        BY <1>1, <1>2, <1>4, <1>15, <2>1, <2>6
      <4> QED
        BY <2>1, <3>5, <4>1
    <3>8. PlaceOK(e, g)
      BY <1>1, <1>12, <2>2, <2>6, <3>5, <3>6, <3>7
    <3> QED
      BY <1>15, <2>4, <3>1, <3>8
  <2> QED
    BY <2>5, <2>6
<1>16. CASE r = "count"
  <2> DEFINE k == h.open_cnt + Len(o)
             e == [t EXCEPT !.open_cnt = k]
  <2>1. Count(s) = Due(e, e.open_cnt > Gap /\ e.counter[c] = 0)
    <3>1. [s EXCEPT !.open_cnt = @ + Len(Opened(s)), !.rounds = Tail(@)] = e
      <4> DEFINE x == Tail(s.rounds)
      <4>1. k = s.open_cnt + Len(Opened(s)) /\ t = [s EXCEPT !.rounds = x]
        BY <1>1 DEF t, Popped
      <4>2. [s EXCEPT !.open_cnt = @ + Len(Opened(s)), !.rounds = Tail(@)] = [s EXCEPT !.open_cnt = k, !.rounds = x]
        BY <4>1
      <4> HIDE DEF k, x
      <4>3. [s EXCEPT !.open_cnt = k, !.rounds = x] = [[s EXCEPT !.rounds = x] EXCEPT !.open_cnt = k]
        BY <1>1 DEF State
      <4> QED
        BY <4>1, <4>2, <4>3
    <3> HIDE DEF e, k
    <3> QED
      BY <1>1, <3>1 DEF Count
  <2>2. k \in Nat
    BY <1>1, <1>5
  <2> HIDE DEF k
  <2>3. e \in State /\ e.pc = t.pc /\ e.rounds = t.rounds /\ e.open_cnt = k /\ e.counter = t.counter /\ e.macs = t.macs /\ e.vals = t.vals
    BY <1>1, <2>2 DEF State
  <2> HIDE DEF e
  <2>4. s.counter[c] = 0 /\ g.call[c] = 0
    BY <1>1, <1>2, <1>4, <1>9, <1>16
  <2>5. (e.open_cnt > Gap /\ e.counter[c] = 0) <=> CheckDue(h)
    BY <1>1, <1>10, <1>16, <2>3, <2>4 DEF k
  <2>6. Due(e, e.open_cnt > Gap /\ e.counter[c] = 0) = [e EXCEPT !.rounds = g.rounds] /\ g.rounds \in Seq(Names)
    <3>0. g.rounds \in Seq(Names)
      BY <1>3, RoundEnds DEF g, r
    <3>1. CASE CheckDue(h)
      <4>1. g.rounds = CheckRounds(<<>>) \o e.rounds
        BY <1>1, <2>3, <3>1
      <4>2. Due(e, e.open_cnt > Gap /\ e.counter[c] = 0) = [e EXCEPT !.rounds = CheckRounds(<<>>) \o e.rounds]
        BY <2>5, <3>1 DEF Due
      <4> QED
        BY <3>0, <4>1, <4>2
    <3>2. CASE ~CheckDue(h)
      <4>1. g.rounds = e.rounds /\ e.rounds \in Seq(Names)
        BY <1>1, <2>3, <3>2 DEF State
      <4>2. Due(e, e.open_cnt > Gap /\ e.counter[c] = 0) = [e EXCEPT !.rounds = <<>> \o e.rounds]
        BY <2>5, <3>2 DEF Due
      <4>3. <<>> \o e.rounds = e.rounds
        BY <4>1, ConcatEmptySeq
      <4> QED
        BY <4>1, <4>2, <4>3
    <3> QED
      BY <3>1, <3>2
  <2> DEFINE x == g.rounds
             e2 == [e EXCEPT !.rounds = x]
  <2>7. x \in Seq(Names)
    BY <2>6
  <2> HIDE DEF x
  <2>8. e2 \in State /\ e2.pc = e.pc /\ e2.rounds = x /\ e2.open_cnt = e.open_cnt /\ e2.counter = e.counter /\ e2.macs = e.macs /\ e2.vals = e.vals
    BY <2>3, <2>7 DEF State
  <2> HIDE DEF e2
  <2>9. g.fresh = h.fresh /\ Counted(h) = k
    BY <1>1, <1>11, <1>16 DEF k
  <2>10. /\ e2.pc = s.pc /\ e2.rounds = g.rounds /\ e2.open_cnt = Counted(h)
         /\ \A d \in Connections : d # c => e2.counter[d] = s.counter[d]
    BY <1>1, <2>3, <2>8, <2>9 DEF x
  <2>11. e2.counter[c] = 0 /\ (type = "Full" => Len(e2.macs) = g.fresh /\ Len(e2.vals) = g.fresh)
    BY <1>1, <1>2, <2>3, <2>4, <2>8, <2>9
  <2>12. PlaceOK(e2, g)
    BY <1>12, <2>4, <2>8, <2>10, <2>11
  <2>13. Effect(p, s, "count") = Count(s)
    BY DEF Effect
  <2> QED
    BY <1>16, <2>1, <2>6, <2>12, <2>13 DEF e2, x
<1>17. CASE r = "reset"
  <2> DEFINE e == [t EXCEPT !.open_cnt = 0]
  <2>1. Effect(p, s, "reset") = e
    <3> DEFINE x == Tail(s.rounds)
    <3>1. Effect(p, s, "reset") = [s EXCEPT !.open_cnt = 0, !.rounds = x] /\ t = [s EXCEPT !.rounds = x]
      BY DEF Effect, Reset, t, Popped
    <3> HIDE DEF x
    <3>2. [s EXCEPT !.open_cnt = 0, !.rounds = x] = [[s EXCEPT !.rounds = x] EXCEPT !.open_cnt = 0]
      BY <1>1 DEF State
    <3> QED
      BY <3>1, <3>2
  <2>2. e \in State /\ e.pc = t.pc /\ e.rounds = t.rounds /\ e.open_cnt = 0 /\ e.counter = t.counter /\ e.macs = t.macs /\ e.vals = t.vals
    BY <1>1 DEF State
  <2> HIDE DEF e
  <2>3. g.fresh = h.fresh /\ Counted(h) = 0 /\ g.rounds = Tail(h.rounds)
    BY <1>1, <1>10, <1>11, <1>17
  <2>4. PlaceOK(e, g)
    BY <1>1, <1>2, <1>12, <1>13, <1>17, <2>2, <2>3
  <2> QED
    BY <1>17, <2>1, <2>4
<1>18. CASE r = "reveal"
  <2> DEFINE x == SubSeq(t.macs, s.open_cnt + 1, Len(t.macs))
             y == SubSeq(t.vals, s.open_cnt + 1, Len(t.vals))
             e == [t EXCEPT !.macs = x, !.vals = y]
  <2>1. Effect(p, s, "reveal") = e
    BY DEF Effect, t, Popped
  <2>2. x \in Seq(Ids) /\ y \in Seq(Entry) /\ Len(x) = 0 /\ Len(y) = 0
    <3>1. type = "Full" /\ h.fresh = h.open_cnt
      <4>1. h.fresh = CASE Round(h) \in {"OK", "aux", "reset"} -> 0
                        [] Round(h) = "count" -> h.open_cnt + Len(Opened(h))
                        [] Round(h) \notin {"OK", "aux", "reset", "count"} -> h.open_cnt
        BY <1>3 DEF CountsOK
      <4> QED
        BY <1>3, <1>18, <4>1 DEF RoundOK, r
    <3>2. Len(t.macs) = s.open_cnt /\ Len(t.vals) = s.open_cnt /\ s.open_cnt \in Nat
      BY <1>1, <1>2, <3>1
    <3>3. t.macs \in Seq(Ids) /\ t.vals \in Seq(Entry)
      BY <1>1 DEF State
    <3>4. s.open_cnt + 1 \in Int /\ s.open_cnt \in Int /\ s.open_cnt < s.open_cnt + 1
      BY <3>2
    <3>5. x = <<>>
      BY <3>2, <3>4, SubSeqEmpty
    <3>6. y = <<>>
      BY <3>2, <3>4, SubSeqEmpty
    <3> QED
      BY <3>5, <3>6, EmptySeq
  <2> HIDE DEF x, y
  <2>3. e \in State /\ e.pc = t.pc /\ e.rounds = t.rounds /\ e.open_cnt = t.open_cnt /\ e.counter = t.counter /\ e.macs = x /\ e.vals = y
    BY <1>1, <2>2 DEF State
  <2> HIDE DEF e
  <2>4. g.fresh = 0 /\ Counted(h) = h.open_cnt /\ g.rounds = Tail(h.rounds)
    BY <1>1, <1>10, <1>11, <1>18
  <2>5. PlaceOK(e, g)
    BY <1>1, <1>12, <1>13, <1>18, <2>2, <2>3, <2>4
  <2> QED
    BY <1>18, <2>1, <2>5
<1>19. CASE r \in {"seed", "tau", "hash", "aux", "cast", "same", "unseal", "OK", "mask", "one", "distinct"}
  <2>1. g.rounds = Tail(h.rounds) /\ Counted(h) = h.open_cnt /\ (type = "Full" => g.fresh = h.fresh)
    <3>1. type = "Full" => r # "hash"
      BY <1>3 DEF RoundOK
    <3> QED
      BY <1>1, <1>10, <1>11, <1>19, <3>1
  <2>2. ASSUME NEW e \in State, e.pc = t.pc, e.rounds = t.rounds, e.open_cnt = t.open_cnt, e.counter = t.counter,
               e.macs = t.macs, e.vals = t.vals
        PROVE  PlaceOK(e, g)
    BY <1>1, <1>2, <1>12, <1>13, <1>19, <2>1, <2>2
  <2>3. ASSUME NEW x \in Speech PROVE PlaceOK([t EXCEPT !.comm = x], g)
    <3> DEFINE e == [t EXCEPT !.comm = x]
    <3>1. e \in State /\ e.pc = t.pc /\ e.rounds = t.rounds /\ e.open_cnt = t.open_cnt /\ e.counter = t.counter /\ e.macs = t.macs /\ e.vals = t.vals
      BY <1>1 DEF State
    <3> HIDE DEF e
    <3>2. PlaceOK(e, g)
      BY <2>2, <3>1
    <3> QED
      BY <3>2 DEF e
  <2>4. ASSUME NEW x \in Seq(Entry) PROVE PlaceOK([t EXCEPT !.bcast = x], g)
    <3> DEFINE e == [t EXCEPT !.bcast = x]
    <3>1. e \in State /\ e.pc = t.pc /\ e.rounds = t.rounds /\ e.open_cnt = t.open_cnt /\ e.counter = t.counter /\ e.macs = t.macs /\ e.vals = t.vals
      BY <1>1 DEF State
    <3> HIDE DEF e
    <3>2. PlaceOK(e, g)
      BY <2>2, <3>1
    <3> QED
      BY <3>2 DEF e
  <2>5. PlaceOK([t EXCEPT !.sha256 = <<>>], g) /\ PlaceOK([t EXCEPT !.pub = <<>>], g)
    <3> DEFINE e == [t EXCEPT !.sha256 = <<>>]
               f == [t EXCEPT !.pub = <<>>]
    <3>1. e \in State /\ e.pc = t.pc /\ e.rounds = t.rounds /\ e.open_cnt = t.open_cnt /\ e.counter = t.counter /\ e.macs = t.macs /\ e.vals = t.vals
      BY <1>1, EmptySeq DEF State
    <3>2. f \in State /\ f.pc = t.pc /\ f.rounds = t.rounds /\ f.open_cnt = t.open_cnt /\ f.counter = t.counter /\ f.macs = t.macs /\ f.vals = t.vals
      BY <1>1, EmptySeq DEF State
    <3> HIDE DEF e, f
    <3>3. PlaceOK(e, g) /\ PlaceOK(f, g)
      BY <2>2, <3>1, <3>2
    <3> QED
      BY <3>3 DEF e, f
  <2>6. PlaceOK(t, g)
    BY <1>1, <2>2
  <2>7. /\ Effect(p, s, "seed") = [t EXCEPT !.comm = Heard(p, s, "seed")]
        /\ Effect(p, s, "tau") = [t EXCEPT !.comm = Heard(p, s, "tau")]
        /\ Effect(p, s, "hash") = [t EXCEPT !.sha256 = <<>>] /\ Effect(p, s, "aux") = [t EXCEPT !.pub = <<>>]
        /\ Effect(p, s, "cast") = [t EXCEPT !.bcast = t.bcast \o Cast(p, s)] /\ Effect(p, s, "same") = [t EXCEPT !.bcast = <<>>]
    BY DEF Effect, t, Popped
  <2>8. /\ Effect(p, s, "unseal") = t /\ Effect(p, s, "OK") = t /\ Effect(p, s, "mask") = t /\ Effect(p, s, "one") = t
        /\ Effect(p, s, "distinct") = t
    BY DEF Effect, t, Popped
  <2>9. <<>> \in Seq(Entry)
    BY EmptySeq
  <2>10. CASE r \in {"seed", "tau"}
    BY <1>7, <2>3, <2>7, <2>10
  <2>11. CASE r = "cast"
    <3>1. Cast(p, s) \in Seq(Entry)
      <4> DEFINE X == Heard(p, s, "cast")
                 ss == [i \in 1 .. N |-> X[i - 1]]
      <4>1. X \in [Players -> Seq(Entry)]
        BY <1>7, <2>11 DEF Speech
      <4>2. Cast(p, s) = FlattenSeq(ss)
        BY DEF Cast
      <4> HIDE DEF X
      <4>3. ss \in Seq(Seq(Entry)) /\ Len(ss) = N /\ N > 0
        <5>1. \A i \in 1 .. N : X[i - 1] \in Seq(Entry)
          BY <4>1, SettingIs
        <5>2. N \in Nat /\ N > 0
          BY SettingIs
        <5> QED
          BY <5>1, <5>2
      <4> HIDE DEF ss
      <4> QED
        BY <4>2, <4>3, FlattenType
    <3>2. t.bcast \in Seq(Entry)
      BY <1>1 DEF State
    <3>3. t.bcast \o Cast(p, s) \in Seq(Entry)
      BY <3>1, <3>2, ConcatProperties
    <3> QED
      BY <2>4, <2>7, <2>11, <3>3
  <2>12. CASE r = "same"
    BY <2>4, <2>7, <2>9, <2>12
  <2>13. CASE r \in {"hash", "aux"}
    BY <2>5, <2>7, <2>13
  <2>14. CASE r \in {"unseal", "OK", "mask", "one", "distinct"}
    BY <2>6, <2>8, <2>14
  <2> QED
    BY <1>19, <2>10, <2>11, <2>12, <2>13, <2>14
<1>20. r \in {"begin", "end", "count", "reset", "reveal"} \/ r \in {"seed", "tau", "hash", "aux", "cast", "same", "unseal", "OK", "mask", "one", "distinct"}
  BY <1>3 DEF Names, r
<1> QED
  BY <1>14, <1>15, <1>16, <1>17, <1>18, <1>19, <1>20

\* A player that begins a call is at its first round.
LEMMA BeginPlace ==
  ASSUME Setting, NEW h, RoundFacts(h), NEW n \in Nat, NEW s, PlaceOK(s, h), s.rounds = <<>>, s.pc < Len(prog)
  PROVE  PlaceOK([s EXCEPT !.pc = @ + 1, !.rounds = RoundsOf(prog[s.pc + 1].op)], Following(h, n))
<1> DEFINE g == Following(h, n)
           x == RoundsOf(prog[s.pc + 1].op)
           k == s.pc + 1
           e == [s EXCEPT !.pc = k, !.rounds = x]
<1>1. h \in Here /\ RoundsOK(h) /\ s \in State /\ s.pc = h.pc /\ s.rounds = h.rounds /\ s.open_cnt = h.open_cnt
  BY DEF RoundFacts, PlaceOK
<1>2. /\ \A d \in Connections : s.counter[d] = IF type # "Full" /\ h.call[d] # 0 THEN prog[h.call[d]].n ELSE 0
      /\ type = "Full" => Len(s.macs) = h.fresh /\ Len(s.vals) = h.fresh
  BY DEF PlaceOK
<1>3. Round(h) = "none" /\ More(h)
  BY <1>1 DEF Round, More
<1>4. /\ g.pc = h.pc + 1 /\ g.rounds = x /\ g.open_cnt = h.open_cnt /\ g.fresh = h.fresh
      /\ \A d \in Connections : g.call[d] = h.call[d]
  BY <1>1, <1>3 DEF Following, Rest, Counted, At
<1>5. g.rounds \in Seq(Names)
  BY <1>1, <1>3, CallBegins
<1>6. k \in Nat
  BY <1>1 DEF State
<1>7. [s EXCEPT !.pc = @ + 1, !.rounds = RoundsOf(prog[s.pc + 1].op)] = e
  OBVIOUS
<1> HIDE DEF x, g
<1>8. k = g.pc
  BY <1>1, <1>4
<1> HIDE DEF k
<1>9. x \in Seq(Names)
  BY <1>4, <1>5
<1>10. /\ e \in State /\ e.pc = k /\ e.rounds = x /\ e.open_cnt = s.open_cnt /\ e.counter = s.counter /\ e.macs = s.macs
       /\ e.vals = s.vals
  BY <1>1, <1>6, <1>9 DEF State
<1> HIDE DEF e
<1>11. PlaceOK(e, g)
  <2>1. e.pc = g.pc /\ e.rounds = g.rounds /\ e.open_cnt = g.open_cnt
    BY <1>1, <1>4, <1>8, <1>10
  <2>2. \A d \in Connections : e.counter[d] = IF type # "Full" /\ g.call[d] # 0 THEN prog[g.call[d]].n ELSE 0
    BY <1>2, <1>4, <1>10
  <2>3. type = "Full" => Len(e.macs) = g.fresh /\ Len(e.vals) = g.fresh
    BY <1>2, <1>4, <1>10
  <2> QED
    BY <1>10, <2>1, <2>2, <2>3 DEF PlaceOK
<1> QED
  BY <1>7, <1>11 DEF g

\* A player that enters a public input is at the round after it.
LEMMA InputPlace ==
  ASSUME Setting, NEW h, RoundFacts(h), NEW n \in Nat, NEW s, PlaceOK(s, h), Round(h) = "pub", NEW v \in Entry
  PROVE  PlaceOK([s EXCEPT !.pub = Append(@, v), !.rounds = Tail(@)], Following(h, n))
<1> DEFINE g == Following(h, n)
           t == Popped(s)
           x == Append(s.pub, v)
           e == [t EXCEPT !.pub = x]
<1>1. /\ g.pc = h.pc /\ g.open_cnt = Counted(h)
      /\ ~CheckDue(h) => g.rounds = Tail(h.rounds)
      /\ g.fresh = IF Round(h) = "end" THEN h.fresh + Len(Opened(h)) ELSE IF Round(h) \in {"reveal", "hash"} THEN 0 ELSE h.fresh
      /\ \A c \in Connections : g.call[c] = IF At(h, c, "begin") THEN h.pc ELSE IF At(h, c, "end") THEN 0 ELSE h.call[c]
      /\ s \in State /\ s.pc = h.pc /\ s.open_cnt = h.open_cnt
      /\ t \in State /\ t.rounds = Tail(h.rounds) /\ t.pc = s.pc /\ t.open_cnt = s.open_cnt
      /\ t.counter = s.counter /\ t.macs = s.macs /\ t.vals = s.vals
  <2>1. NextIs(h, g, s, t)
    BY NextPlace
  <2> HIDE DEF g, t
  <2> QED
    BY <2>1 DEF NextIs
<1>2. /\ \A d \in Connections : s.counter[d] = IF type # "Full" /\ h.call[d] # 0 THEN prog[h.call[d]].n ELSE 0
      /\ type = "Full" => Len(s.macs) = h.fresh /\ Len(s.vals) = h.fresh
  BY DEF PlaceOK
<1>3. g.rounds = Tail(h.rounds) /\ g.open_cnt = h.open_cnt /\ g.fresh = h.fresh /\ \A c \in Connections : g.call[c] = h.call[c]
  BY <1>1 DEF CheckDue, Counted, At
<1>4. x \in Seq(Entry)
  <2>1. s.pub \in Seq(Entry)
    BY <1>1 DEF State
  <2> QED
    BY <2>1
<1>5. [s EXCEPT !.pub = Append(@, v), !.rounds = Tail(@)] = e
  <2> DEFINE y == Tail(s.rounds)
  <2>1. [s EXCEPT !.pub = Append(@, v), !.rounds = Tail(@)] = [s EXCEPT !.pub = x, !.rounds = y] /\ t = [s EXCEPT !.rounds = y]
    BY DEF Popped
  <2> HIDE DEF x, y, t
  <2>2. [s EXCEPT !.pub = x, !.rounds = y] = [[s EXCEPT !.rounds = y] EXCEPT !.pub = x]
    BY <1>1 DEF State
  <2> QED
    BY <2>1, <2>2
<1> HIDE DEF x, g, t
<1>6. /\ e \in State /\ e.pc = t.pc /\ e.rounds = t.rounds /\ e.open_cnt = t.open_cnt /\ e.counter = t.counter /\ e.macs = t.macs
      /\ e.vals = t.vals
  BY <1>1, <1>4 DEF State
<1> HIDE DEF e
<1>7. PlaceOK(e, g)
  <2>1. e.pc = g.pc /\ e.rounds = g.rounds /\ e.open_cnt = g.open_cnt
    BY <1>1, <1>3, <1>6
  <2>2. \A d \in Connections : e.counter[d] = IF type # "Full" /\ g.call[d] # 0 THEN prog[g.call[d]].n ELSE 0
    BY <1>1, <1>2, <1>3, <1>6
  <2>3. type = "Full" => Len(e.macs) = g.fresh /\ Len(e.vals) = g.fresh
    BY <1>1, <1>2, <1>3, <1>6
  <2> QED
    BY <1>6, <2>1, <2>2, <2>3 DEF PlaceOK
<1> QED
  BY <1>5, <1>7 DEF g

\* What says where everyone is does not depend on the variables of a step.
LEMMA FollowsStays ==
  ASSUME prog' = prog, type' = type, NEW H, NEW at, NEW S, NEW T, NEW C, Follows(H, at, S, T, C)
  PROVE  Follows(H, at, S, T, C)'
<1>1. ASSUME NEW p, NEW s, NEW h PROVE Says(p, s, Round(h))' = Says(p, s, Round(h))
  <2>1. Call(s)' = Call(s) /\ Opened(s)' = Opened(s)
    BY Static
  <2> QED
    BY <2>1 DEF Says, Tau, Word
<1>2. ASSUME NEW h, NEW p, NEW s, NEW Y PROVE TodoOK(h, p, s, Y)' <=> TodoOK(h, p, s, Y)
  <2>1. Connection(h)' = Connection(h) /\ Tag(h)' = Tag(h) /\ Says(p, s, Round(h))' = Says(p, s, Round(h))
    BY <1>1, Static
  <2>2. \A c, x, y : Writes(h, c, x, y)' = Writes(h, c, x, y) /\ Reads(h, c, x, y)' = Reads(h, c, x, y)
    BY Static
  <2> QED
    BY <2>1, <2>2 DEF TodoOK, Heeded, Compared
<1>3. ASSUME NEW s, NEW h PROVE PlaceOK(s, h)' <=> PlaceOK(s, h)
  BY DEF PlaceOK
<1>4. ASSUME NEW h, NEW n, NEW c, NEW p, NEW q, NEW Y
      PROVE  Wrote(h, n, c, p, q, Y)' = Wrote(h, n, c, p, q, Y) /\ Read(h, c, p, q, Y)' = Read(h, c, p, q, Y)
  <2>1. Writes(h, c, p, q)' = Writes(h, c, p, q) /\ Reads(h, c, p, q)' = Reads(h, c, p, q) /\ Taken(h, c, p, q)' = Taken(h, c, p, q)
    BY Static
  <2> QED
    BY <2>1 DEF Wrote, Read
<1>5. ASSUME NEW w, NEW r, NEW Z PROVE WireOK(H, w, r, Z)' <=> WireOK(H, w, r, Z)
  <2>1. \A h : Tag(h)' = Tag(h)
    BY Static
  <2> QED
    BY <2>1 DEF WireOK
<1>6. ASSUME NEW p \in Players PROVE (PlaceOK(S[p], H[at[p]]) /\ TodoOK(H[at[p]], p, S[p], T[p]))'
  BY <1>2, <1>3 DEF Follows
<1>7. ASSUME NEW c \in Connections, NEW p \in Players, NEW q \in Players
      PROVE  WireOK(H, Wrote(H[at[p]], at[p], c, p, q, T[p]), Read(H[at[q]], c, p, q, T[q]), C[c][p][q])'
  <2>1. PICK w : w = Wrote(H[at[p]], at[p], c, p, q, T[p])
    OBVIOUS
  <2>2. PICK r : r = Read(H[at[q]], c, p, q, T[q])
    OBVIOUS
  <2>3. WireOK(H, w, r, C[c][p][q])
    BY <2>1, <2>2 DEF Follows
  <2>4. WireOK(H, w, r, C[c][p][q])'
    BY <1>5, <2>3
  <2>5. w = Wrote(H[at[p]], at[p], c, p, q, T[p])' /\ r = Read(H[at[q]], c, p, q, T[q])'
    BY <1>4, <2>1, <2>2
  <2> QED
    BY <2>4, <2>5
<1> QED
  BY <1>6, <1>7 DEF Follows

-----------------------------------------------------------------------------
(* The steps of the players.                                               *)

\* The records over Kinds that Init has.
LEMMA HistoryStarts == [k \in Kinds |-> <<>>] \in History /\ [k \in Kinds |-> 0] \in Covered
<1>1. [k \in Kinds |-> <<>>] = [opened |-> <<>>, pub |-> <<>>, cast |-> <<>>]
  BY DEF Kinds
<1>2. [k \in Kinds |-> 0] = [opened |-> 0, pub |-> 0, cast |-> 0]
  BY DEF Kinds
<1>3. <<>> \in Seq(Entry) /\ <<>> \in Seq(Speech)
  BY EmptySeq
<1>4. [opened |-> <<>>, pub |-> <<>>, cast |-> <<>>] \in History
  BY <1>3 DEF History
<1>5. [opened |-> 0, pub |-> 0, cast |-> 0] \in Covered
  BY DEF Covered
<1> QED
  BY <1>1, <1>2, <1>4, <1>5

\* In the first state everyone is at the start.
LEMMA StartPlace ==
  ASSUME Proper, Init
  PROVE  /\ TypeOK /\ Setting
         /\ \A H : Trace(H) => Follows(H, [p \in Players |-> 0], st, todo, chan)
<1> DEFINE none == [q \in Players |-> <<>>]
           s0 == [pc |-> 0, rounds |-> <<>>, open_cnt |-> 0, counter |-> [c \in Connections |-> 0],
                  macs |-> <<>>, vals |-> <<>>, sha256 |-> <<>>, bcast |-> <<>>, pub |-> <<>>, comm |-> none]
<1>1. /\ chan = [c \in Connections |-> [p \in Players |-> [q \in Players |-> <<>>]]]
      /\ todo = [p \in Players |-> <<>>] /\ got = [p \in Players |-> none] /\ faults = 0
      /\ prog \in Programs /\ type \in {"Full", "Q2"}
      /\ st = [p \in Players |-> s0]
      /\ hist = [p \in Players |-> [k \in Kinds |-> <<>>]]
      /\ sure = [p \in Players |-> [k \in Kinds |-> 0]]
  BY DEF Init, WireInit
<1>2. Setting
  BY <1>1 DEF Setting
<1>3. none \in Speech
  BY EmptySeq DEF Speech
<1> HIDE DEF none
<1>4. s0 \in State
  <2> DEFINE z == [c \in Connections |-> 0]
  <2>1. z \in [Connections -> Int]
    OBVIOUS
  <2> HIDE DEF z
  <2>2. <<>> \in Seq(Names) /\ <<>> \in Seq(Ids) /\ <<>> \in Seq(Entry)
    BY EmptySeq
  <2>3. [pc |-> 0, rounds |-> <<>>, open_cnt |-> 0, counter |-> z,
         macs |-> <<>>, vals |-> <<>>, sha256 |-> <<>>, bcast |-> <<>>, pub |-> <<>>, comm |-> none] \in State
    BY <1>3, <2>1, <2>2 DEF State
  <2> QED
    BY <2>3 DEF z
<1>5. TypeOK
  <2>1. chan \in Pairs(Seq(Msg))
    <3> DEFINE w == [q \in Players |-> <<>>]
               v == [p \in Players |-> w]
    <3>1. w \in [Players -> Seq(Msg)]
      BY EmptySeq
    <3> HIDE DEF w
    <3>2. v \in [Players -> [Players -> Seq(Msg)]]
      BY <3>1
    <3> HIDE DEF v
    <3>3. chan = [c \in Connections |-> v]
      BY <1>1 DEF v, w
    <3> QED
      BY <3>2, <3>3 DEF Pairs
  <2>2. todo \in [Players -> Seq(TStep)]
    BY <1>1, EmptySeq
  <2>3. got \in [Players -> Speech] /\ faults \in Nat
    BY <1>1, <1>3
  <2>4. st \in [Players -> State]
    <3> HIDE DEF s0
    <3> QED
      BY <1>1, <1>4
  <2>5. hist \in [Players -> History] /\ sure \in [Players -> Covered]
    <3> DEFINE x == [k \in Kinds |-> <<>>]
               y == [k \in Kinds |-> 0]
    <3>1. x \in History /\ y \in Covered
      BY HistoryStarts
    <3>2. hist = [p \in Players |-> x] /\ sure = [p \in Players |-> y]
      BY <1>1
    <3> HIDE DEF x, y
    <3> QED
      BY <3>1, <3>2
  <2> QED
    BY <2>1, <2>2, <2>3, <2>4, <2>5 DEF TypeOK
<1>6. ASSUME NEW H, Trace(H) PROVE Follows(H, [p \in Players |-> 0], st, todo, chan)
  <2> DEFINE at == [p \in Players |-> 0]
  <2>1. /\ H[0] = Start /\ Start.pc = 0 /\ Start.rounds = <<>> /\ Start.open_cnt = 0 /\ Start.fresh = 0
        /\ \A c \in Connections : Start.call[c] = 0
        /\ \A c \in Connections, p, q \in Players : Start.sent[c][p][q] = <<>>
    BY <1>6 DEF Trace, Start
  <2>2. ASSUME NEW p \in Players PROVE PlaceOK(st[p], H[at[p]]) /\ TodoOK(H[at[p]], p, st[p], todo[p])
    <3>1. at[p] = 0 /\ st[p] = s0 /\ todo[p] = <<>>
      BY <1>1
    <3>2. PlaceOK(s0, Start)
      <4>1. \A c \in Connections : s0.counter[c] = 0
        OBVIOUS
      <4>2. s0.pc = 0 /\ s0.rounds = <<>> /\ s0.open_cnt = 0 /\ Len(s0.macs) = 0 /\ Len(s0.vals) = 0
        OBVIOUS
      <4> HIDE DEF s0
      <4> QED
        BY <1>4, <2>1, <4>1, <4>2 DEF PlaceOK
    <3>3. TodoOK(Start, p, s0, <<>>)
      BY DEF TodoOK
    <3> QED
      BY <2>1, <3>1, <3>2, <3>3
  <2>3. ASSUME NEW c \in Connections, NEW p \in Players, NEW q \in Players
        PROVE  WireOK(H, Wrote(H[at[p]], at[p], c, p, q, todo[p]), Read(H[at[q]], c, p, q, todo[q]), chan[c][p][q])
    <3>1. at[p] = 0 /\ at[q] = 0 /\ chan[c][p][q] = <<>>
      BY <1>1
    <3>2. Round(Start) = "none"
      BY <2>1 DEF Round
    <3>3. ~Writes(Start, c, p, q) /\ ~Reads(Start, c, p, q)
      BY <3>2 DEF Writes, Reads, Talk
    <3>4. Wrote(Start, 0, c, p, q, todo[p]) = <<>>
      BY <2>1, <3>3 DEF Wrote
    <3>5. Read(Start, c, p, q, todo[q]) = 0
      BY <2>1, <3>3 DEF Read, Taken, Behind
    <3>6. WireOK(H, <<>>, 0, <<>>)
      BY DEF WireOK
    <3> QED
      BY <2>1, <3>1, <3>4, <3>5, <3>6
  <2>4. at \in [Players -> Nat]
    OBVIOUS
  <2> HIDE DEF at
  <2>5. Follows(H, at, st, todo, chan)
    BY <2>2, <2>3, <2>4 DEF Follows
  <2> QED
    BY <2>5 DEF at
<1> QED
  BY <1>2, <1>5, <1>6

\* It is enough to say where everyone is in terms of the next state.
LEMMA FollowsNext ==
  ASSUME prog' = prog, type' = type, NEW H, NEW at, Follows(H, at, st', todo', chan')
  PROVE  Follows(H, at, st, todo, chan)'
<1>1. PICK S : S = st'
  OBVIOUS
<1>2. PICK T : T = todo'
  OBVIOUS
<1>3. PICK C : C = chan'
  OBVIOUS
<1>4. Follows(H, at, S, T, C)
  BY <1>1, <1>2, <1>3
<1>5. Follows(H, at, S, T, C)'
  BY <1>4, FollowsStays
<1> QED
  BY <1>1, <1>2, <1>3, <1>5

\* A player enters the rounds of s, which is at the next round.
LEMMA EnterKeeps ==
  ASSUME Setting, TypeOK, NEW H, Trace(H), NEW at, Follows(H, at, st, todo, chan), NEW p \in Players, todo[p] = <<>>,
         NEW s, PlaceOK(s, H[at[p] + 1]), Enter(p, s), prog' = prog, type' = type, chan' = chan
  PROVE  /\ todo' \in [Players -> Seq(TStep)] /\ st' \in [Players -> State]
         /\ \E a : Follows(H, a, st, todo, chan)'
<1> DEFINE Y == IF s.rounds = <<>> THEN <<>> ELSE Plan(p, s, Head(s.rounds))
           a == [at EXCEPT ![p] = @ + 1]
<1>1. st \in [Players -> State] /\ todo \in [Players -> Seq(TStep)]
  BY DEF TypeOK
<1>2. st' = [st EXCEPT ![p] = s] /\ todo' = [todo EXCEPT ![p] = Y]
  BY DEF Enter
<1>3. s \in State
  BY DEF PlaceOK
<1>4. Y \in Seq(TStep) /\ Follows(H, a, [st EXCEPT ![p] = s], [todo EXCEPT ![p] = Y], chan)
  <2> DEFINE S == st
             T == todo
             C == chan
  <2>1. Follows(H, at, S, T, C) /\ S \in [Players -> State] /\ T \in [Players -> Seq(TStep)] /\ T[p] = <<>>
    BY <1>1
  <2> HIDE DEF S, T, C
  <2>2. Y \in Seq(TStep) /\ Follows(H, a, [S EXCEPT ![p] = s], [T EXCEPT ![p] = Y], C)
    BY <2>1, Moves
  <2> QED
    BY <2>2 DEF S, T, C
<1> HIDE DEF Y, a
<1>5. todo' \in [Players -> Seq(TStep)] /\ st' \in [Players -> State]
  BY <1>1, <1>2, <1>3, <1>4
<1>6. Follows(H, a, st', todo', chan')
  BY <1>2, <1>4
<1>7. Follows(H, a, st, todo, chan)'
  BY <1>6, FollowsNext
<1> QED
  BY <1>5, <1>7

\* What p knows of its past after round r.
Recorded(Y, Z, p, s, r) ==
  /\ Z.opened = IF r = "end" THEN Y.opened \o Values(p, s) ELSE Y.opened
  /\ Z.pub = Y.pub
  /\ Z.cast = IF r = "cast" THEN Append(Y.cast, Heard(p, s, r)) ELSE Y.cast

\* What p has covered after round r.
Noted(u, w, Y, s, r) ==
  /\ w.opened = IF r = "reset" THEN Len(Y.opened) ELSE u.opened
  /\ w.pub = IF r = "reset" /\ Asked(s) THEN Len(Y.pub) ELSE u.pub
  /\ w.cast = IF r = "same" THEN Len(Y.cast) ELSE u.cast

\* What a player knows of its past.
LEMMA RecordIs ==
  ASSUME Setting, NEW p \in Players, hist \in [Players -> History], sure \in [Players -> Covered], got[p] \in Speech,
         NEW h, RoundFacts(h), Round(h) # "none", NEW s, PlaceOK(s, h), Record(p, s, Round(h))
  PROVE  \E Z \in History, w \in Covered :
           /\ hist' = [hist EXCEPT ![p] = Z] /\ Recorded(hist[p], Z, p, s, Round(h))
           /\ sure' = [sure EXCEPT ![p] = w] /\ Noted(sure[p], w, hist[p], s, Round(h))
<1> DEFINE r == Round(h)
           x == hist[p]
           o == IF r = "end" THEN x.opened \o Values(p, s) ELSE x.opened
           b == IF r = "cast" THEN Append(x.cast, Heard(p, s, r)) ELSE x.cast
           y == [x EXCEPT !.opened = o, !.cast = b]
           z == sure[p]
           i == IF r = "reset" THEN Len(x.opened) ELSE z.opened
           j == IF r = "reset" /\ Asked(s) THEN Len(x.pub) ELSE z.pub
           k == IF r = "same" THEN Len(x.cast) ELSE z.cast
           w == [z EXCEPT !.opened = i, !.pub = j, !.cast = k]
<1>1. /\ hist' = [hist EXCEPT ![p].opened = o, ![p].cast = b]
      /\ sure' = [sure EXCEPT ![p].opened = i, ![p].pub = j, ![p].cast = k]
  <2>1. hist' = [hist EXCEPT ![p].opened = o, ![p].cast = b]
    BY DEF Record
  <2>2. sure' = [sure EXCEPT ![p].opened = i, ![p].pub = j, ![p].cast = k]
    BY DEF Record
  <2> QED
    BY <2>1, <2>2
<1>2. x \in History /\ z \in Covered
  OBVIOUS
<1>3. /\ Values(p, s) \in Seq(Entry) /\ Heard(p, s, r) \in Speech
  <2>1. s.pc \in 1 .. Len(prog)
    BY NextPlace DEF NextIs
  <2>2. Says(p, s, r) \in Seq(Entry)
    BY SaysIs
  <2> QED
    BY <2>1, <2>2, ValuesIs, HeardIs
<1> HIDE DEF x, z
<1>4. x.opened \in Seq(Entry) /\ x.pub \in Seq(Entry) /\ x.cast \in Seq(Speech) /\ z.opened \in Nat /\ z.pub \in Nat /\ z.cast \in Nat
  BY <1>2 DEF History, Covered
<1>5. o \in Seq(Entry) /\ b \in Seq(Speech)
  <2>1. x.opened \o Values(p, s) \in Seq(Entry)
    BY <1>3, <1>4, ConcatProperties
  <2>2. Append(x.cast, Heard(p, s, r)) \in Seq(Speech)
    BY <1>3, <1>4, AppendProperties
  <2> QED
    BY <1>4, <2>1, <2>2
<1>6. i \in Nat /\ j \in Nat /\ k \in Nat
  <2>1. Len(x.opened) \in Nat /\ Len(x.pub) \in Nat /\ Len(x.cast) \in Nat
    BY <1>4
  <2> QED
    BY <1>4, <2>1
<1> HIDE DEF o, b, i, j, k
<1>7. y \in History /\ w \in Covered
  BY <1>2, <1>5, <1>6 DEF History, Covered
<1>8. hist' = [hist EXCEPT ![p] = y]
  BY <1>1, <1>2, <1>5 DEF x, y, History
<1>9. sure' = [sure EXCEPT ![p] = w]
  BY <1>1, <1>2, <1>6 DEF z, w, Covered
<1>10. y.opened = o /\ y.pub = x.pub /\ y.cast = b
  BY <1>2 DEF y, History
<1>11. w.opened = i /\ w.pub = j /\ w.cast = k
  BY <1>2 DEF w, Covered
<1> HIDE DEF y, w
<1>12. Recorded(x, y, p, s, r)
  BY <1>10 DEF Recorded, o, b
<1>13. Noted(z, w, x, s, r)
  BY <1>11 DEF Noted, i, j, k
<1> QED
  BY <1>7, <1>8, <1>9, <1>12, <1>13 DEF x, z, r

\* A player that begins a call or ends a round.
LEMMA CallKeeps ==
  ASSUME Setting, TypeOK, NEW H, Trace(H), NEW at, Follows(H, at, st, todo, chan), NEW p \in Players, Begin(p) \/ EndRound(p)
  PROVE  TypeOK' /\ \E a : Follows(H, a, st, todo, chan)'
<1> DEFINE s == st[p]
           n == at[p]
           h == H[n]
           r == Round(h)
<1>1. /\ todo[p] = <<>> /\ chan' = chan /\ got' = got /\ prog' = prog /\ type' = type
  BY DEF Begin, EndRound, Idle
<1>2. /\ at \in [Players -> Nat] /\ n \in Nat /\ PlaceOK(s, h)
  BY DEF Follows
<1>3. RoundFacts(h) /\ H[n + 1] = Following(h, n)
  BY <1>2, TraceFacts DEF Trace
<1>4. /\ chan \in Pairs(Seq(Msg)) /\ todo \in [Players -> Seq(TStep)] /\ got \in [Players -> Speech] /\ faults \in Nat
      /\ st \in [Players -> State] /\ hist \in [Players -> History] /\ sure \in [Players -> Covered]
  BY DEF TypeOK
<1>5. ASSUME NEW e, PlaceOK(e, Following(h, n)), Enter(p, e)
      PROVE  /\ todo' \in [Players -> Seq(TStep)] /\ st' \in [Players -> State]
             /\ \E a : Follows(H, a, st, todo, chan)'
  <2>1. PlaceOK(e, H[at[p] + 1])
    BY <1>3, <1>5
  <2> QED
    BY <1>1, <1>5, <2>1, EnterKeeps
<1> HIDE DEF r, h, n
<1>6. CASE Begin(p)
  <2> DEFINE e == [s EXCEPT !.pc = @ + 1, !.rounds = RoundsOf(prog[s.pc + 1].op)]
  <2>1. s.rounds = <<>> /\ s.pc < Len(prog) /\ Enter(p, e) /\ hist' = hist /\ sure' = sure /\ faults' = faults
    BY <1>6 DEF Begin
  <2> HIDE DEF s
  <2>2. PlaceOK(e, Following(h, n))
    BY <1>2, <1>3, <2>1, BeginPlace
  <2> HIDE DEF e
  <2>3. /\ todo' \in [Players -> Seq(TStep)] /\ st' \in [Players -> State] /\ \E a : Follows(H, a, st, todo, chan)'
    BY <1>5, <2>1, <2>2
  <2> QED
    BY <1>1, <1>4, <2>1, <2>3 DEF TypeOK
<1>7. CASE EndRound(p)
  <2>1. s.rounds # <<>> /\ s.rounds = h.rounds /\ Head(s.rounds) = r
    <3>1. s.rounds # <<>>
      BY <1>7 DEF EndRound
    <3> QED
      BY <1>2, <3>1 DEF PlaceOK, r, Round
  <2>2. r # "none" /\ r \in Names
    <3>1. h \in Here /\ RoundsOK(h)
      BY <1>3 DEF RoundFacts
    <3> QED
      BY <2>1, <3>1, RoundIs DEF r
  <2>3. \/ r = "pub" /\ Update_Checker(p)
        \/ r # "pub" /\ todo' = todo /\ st' = st /\ hist' = hist /\ sure' = sure /\ faults' = faults
        \/ r # "pub" /\ Enter(p, Effect(p, s, r)) /\ Record(p, s, r) /\ faults' = faults
    BY <1>7, <2>1 DEF EndRound
  <2>4. CASE r = "pub" /\ Update_Checker(p)
    <3>1. PICK ok \in BOOLEAN :
            /\ faults' = IF ok THEN faults ELSE faults + 1
            /\ LET e == [id |-> <<"input", st[p].pc, 0>>, ok |-> ok]
               IN  /\ Enter(p, [st[p] EXCEPT !.pub = Append(@, e), !.rounds = Tail(@)])
                   /\ hist' = [hist EXCEPT ![p].pub = Append(@, e)]
      BY <2>4 DEF Update_Checker
    <3> DEFINE v == [id |-> <<"input", s.pc, 0>>, ok |-> ok]
               e == [s EXCEPT !.pub = Append(@, v), !.rounds = Tail(@)]
    <3>2. Enter(p, e) /\ hist' = [hist EXCEPT ![p].pub = Append(@, v)] /\ sure' = sure /\ faults' \in Nat
      <4>1. Enter(p, e)
        BY <3>1
      <4>2. hist' = [hist EXCEPT ![p].pub = Append(@, v)]
        BY <3>1
      <4>3. sure' = sure
        BY <2>4 DEF Update_Checker
      <4>4. faults' \in Nat
        BY <1>4, <3>1
      <4> QED
        BY <4>1, <4>2, <4>3, <4>4
    <3>3. v \in Entry
      <4>1. s.pc \in Nat
        BY <1>4 DEF State
      <4>2. <<"input", s.pc, 0>> \in Ids
        BY <4>1 DEF Ids
      <4> QED
        BY <4>2 DEF Entry
    <3> HIDE DEF v, s
    <3>4. PlaceOK(e, Following(h, n))
      BY <1>2, <1>3, <2>4, <3>3, InputPlace DEF r
    <3> HIDE DEF e
    <3>5. /\ todo' \in [Players -> Seq(TStep)] /\ st' \in [Players -> State] /\ \E a : Follows(H, a, st, todo, chan)'
      BY <1>5, <3>2, <3>4
    <3>6. hist' \in [Players -> History]
      <4> DEFINE x == hist[p]
                 y == Append(x.pub, v)
                 z == [x EXCEPT !.pub = y]
      <4>1. x \in History
        BY <1>4
      <4>2. hist' = [hist EXCEPT ![p] = z]
        BY <3>2
      <4> HIDE DEF x
      <4>3. y \in Seq(Entry)
        <5>1. x.pub \in Seq(Entry)
          BY <4>1 DEF History
        <5> QED
          BY <3>3, <5>1
      <4> HIDE DEF y
      <4>4. z \in History
        BY <4>1, <4>3 DEF History
      <4> HIDE DEF z
      <4> QED
        BY <1>4, <4>2, <4>4
    <3> QED
      BY <1>1, <1>4, <3>2, <3>5, <3>6 DEF TypeOK
  <2>5. CASE todo' = todo /\ st' = st /\ hist' = hist /\ sure' = sure /\ faults' = faults
    <3>1. Follows(H, at, st', todo', chan')
      BY <1>1, <2>5
    <3>2. Follows(H, at, st, todo, chan)'
      BY <1>1, <3>1, FollowsNext
    <3> QED
      BY <1>1, <1>4, <2>5, <3>2 DEF TypeOK
  <2>6. CASE r # "pub" /\ Enter(p, Effect(p, s, r)) /\ Record(p, s, r) /\ faults' = faults
    <3>1. got[p] \in Speech
      BY <1>4
    <3> HIDE DEF s
    <3>2. PlaceOK(Effect(p, s, r), Following(h, n))
      BY <1>2, <1>3, <2>2, <2>6, <3>1, EffectPlace DEF r
    <3> DEFINE e == Effect(p, s, r)
    <3>3. Enter(p, e)
      BY <2>6
    <3> HIDE DEF e
    <3>4. /\ todo' \in [Players -> Seq(TStep)] /\ st' \in [Players -> State] /\ \E a : Follows(H, a, st, todo, chan)'
      BY <1>5, <3>2, <3>3 DEF e
    <3>5. hist' \in [Players -> History] /\ sure' \in [Players -> Covered]
      <4>1. PICK Z \in History, w \in Covered : hist' = [hist EXCEPT ![p] = Z] /\ sure' = [sure EXCEPT ![p] = w]
        BY <1>2, <1>3, <1>4, <2>2, <2>6, <3>1, RecordIs DEF r
      <4> QED
        BY <1>4, <4>1
    <3> QED
      BY <1>1, <1>4, <2>6, <3>4, <3>5 DEF TypeOK
  <2> QED
    BY <2>3, <2>4, <2>5, <2>6
<1> QED
  BY <1>6, <1>7

\* Messages and steps.
LEMMA MsgIs ==
  ASSUME NEW m \in Msg
  PROVE  /\ m.val \in Seq(Entry)
         /\ \A i \in DOMAIN m.val : [m EXCEPT !.val[i].ok = ~@] \in Msg /\ [m EXCEPT !.val[i].ok = ~@].tag = m.tag
<1>1. m.val \in Seq(Entry)
  BY DEF Msg
<1>2. ASSUME NEW i \in DOMAIN m.val PROVE [m EXCEPT !.val[i].ok = ~@] \in Msg /\ [m EXCEPT !.val[i].ok = ~@].tag = m.tag
  <2> DEFINE e == [m.val[i] EXCEPT !.ok = ~@]
             v == [m.val EXCEPT ![i] = e]
  <2>1. m.val[i] \in Entry
    BY <1>1, <1>2
  <2>2. e \in Entry
    <3> DEFINE x == m.val[i]
    <3>1. x \in Entry
      BY <2>1
    <3> HIDE DEF x
    <3>2. [x EXCEPT !.ok = ~@] \in Entry
      BY <3>1 DEF Entry
    <3> QED
      BY <3>2 DEF x
  <2>3. [m EXCEPT !.val[i].ok = ~@] = [m EXCEPT !.val = v]
    OBVIOUS
  <2> HIDE DEF e
  <2>4. v \in Seq(Entry)
    BY <1>1, <1>2, <2>2
  <2> HIDE DEF v
  <2>5. [m EXCEPT !.val = v] \in Msg /\ [m EXCEPT !.val = v].tag = m.tag
    BY <2>4 DEF Msg
  <2> QED
    BY <2>3, <2>5
<1> QED
  BY <1>1, <1>2

\* A player that writes, rightly or wrongly.
LEMMA SendKeeps ==
  ASSUME Setting, TypeOK, NEW H, Trace(H), NEW at, Follows(H, at, st, todo, chan), NEW p \in Players, Same,
         Send(p) \/ SendWrong(p)
  PROVE  TypeOK' /\ \E a : Follows(H, a, st, todo, chan)'
<1> DEFINE e == Head(todo[p])
<1>1. /\ chan \in Pairs(Seq(Msg)) /\ todo \in [Players -> Seq(TStep)] /\ got \in [Players -> Speech] /\ faults \in Nat
      /\ st \in [Players -> State] /\ hist \in [Players -> History] /\ sure \in [Players -> Covered]
  BY DEF TypeOK
<1>2. prog' = prog /\ type' = type /\ st' = st /\ hist' = hist /\ sure' = sure
  BY DEF Same
<1>3. todo[p] # <<>> /\ e.dir = "send"
  BY DEF Send, SendWrong, Ready
<1>4. e \in TStep
  <2>1. todo[p] \in Seq(TStep)
    BY <1>1
  <2> QED
    BY <1>3, <2>1, HeadTailProperties
<1>5. e.m \in Msg /\ e.c \in Connections /\ e.peer \in Players
  BY <1>4 DEF TStep
<1>6. \E m \in Msg : m.tag = e.m.tag /\ Put(p, m) /\ faults' \in Nat
  <2>1. CASE Send(p)
    <3> DEFINE m == e.m
    <3>1. Put(p, m) /\ faults' = faults
      BY <2>1 DEF Send
    <3>2. m \in Msg
      BY <1>5
    <3> HIDE DEF m
    <3>3. m.tag = m.tag /\ Put(p, m) /\ faults' \in Nat
      BY <1>1, <3>1
    <3>4. \E k \in Msg : k.tag = m.tag /\ Put(p, k) /\ faults' \in Nat
      BY <3>2, <3>3
    <3> QED
      BY <3>4 DEF m
  <2>2. CASE SendWrong(p)
    <3>0. faults' = faults + 1
      BY <2>2 DEF SendWrong
    <3>1. faults' \in Nat
      BY <1>1, <3>0
    <3> DEFINE m == e.m
    <3>2. \E i \in DOMAIN m.val : Put(p, [m EXCEPT !.val[i].ok = ~@])
      BY <2>2 DEF SendWrong
    <3> HIDE DEF m
    <3>3. PICK i \in DOMAIN m.val : Put(p, [m EXCEPT !.val[i].ok = ~@])
      BY <3>2
    <3>4. m \in Msg
      BY <1>5 DEF m
    <3>5. [m EXCEPT !.val[i].ok = ~@] \in Msg /\ [m EXCEPT !.val[i].ok = ~@].tag = m.tag
      BY <3>4, MsgIs
    <3> QED
      BY <3>1, <3>3, <3>5 DEF m
  <2> QED
    BY <2>1, <2>2
<1>7. PICK m \in Msg : m.tag = e.m.tag /\ Put(p, m) /\ faults' \in Nat
  BY <1>6
<1>8. /\ chan' = [chan EXCEPT ![e.c][p][e.peer] = Append(@, m)]
      /\ todo' = [todo EXCEPT ![p] = Tail(@)]
      /\ got' = got
  BY <1>7 DEF Put
<1>9. Follows(H, at, st, [todo EXCEPT ![p] = Tail(@)], [chan EXCEPT ![e.c][p][e.peer] = Append(@, m)])
  BY <1>1, <1>3, <1>7, Sends
<1>10. Follows(H, at, st', todo', chan')
  BY <1>2, <1>8, <1>9
<1>11. Follows(H, at, st, todo, chan)'
  BY <1>2, <1>10, FollowsNext
<1>12. chan' \in Pairs(Seq(Msg))
  <2> DEFINE c == e.c
             q == e.peer
             Z == Append(chan[c][p][q], m)
  <2>1. chan' = [chan EXCEPT ![c][p][q] = Z] /\ c \in Connections /\ q \in Players
    BY <1>5, <1>8
  <2> HIDE DEF c, q
  <2>2. Z \in Seq(Msg)
    BY <1>1, <2>1 DEF Pairs
  <2> HIDE DEF Z
  <2> QED
    BY <1>1, <2>1, <2>2, OnePair
<1>13. todo' \in [Players -> Seq(TStep)]
  <2> DEFINE Y == Tail(todo[p])
  <2>1. Y \in Seq(TStep) /\ todo' = [todo EXCEPT ![p] = Y]
    <3>1. todo[p] \in Seq(TStep)
      BY <1>1
    <3> QED
      BY <1>3, <1>8, <3>1, HeadTailProperties
  <2> HIDE DEF Y
  <2> QED
    BY <1>1, <2>1
<1> QED
  BY <1>1, <1>2, <1>7, <1>8, <1>11, <1>12, <1>13 DEF TypeOK

\* A player that reads.
LEMMA ReceiveKeeps ==
  ASSUME Setting, TypeOK, NEW H, Trace(H), NEW at, Follows(H, at, st, todo, chan), NEW p \in Players, Same, Receive(p)
  PROVE  TypeOK' /\ \E a : Follows(H, a, st, todo, chan)'
<1> DEFINE e == Head(todo[p])
           b == chan[e.c][e.peer][p]
<1>1. /\ chan \in Pairs(Seq(Msg)) /\ todo \in [Players -> Seq(TStep)] /\ got \in [Players -> Speech] /\ faults \in Nat
      /\ st \in [Players -> State] /\ hist \in [Players -> History] /\ sure \in [Players -> Covered]
  BY DEF TypeOK
<1>2. prog' = prog /\ type' = type /\ st' = st /\ hist' = hist /\ sure' = sure /\ faults' = faults
  BY DEF Same, Receive
<1>3. todo[p] # <<>> /\ e.dir = "receive" /\ b # <<>>
  BY DEF Receive, Ready
<1>4. e \in TStep
  <2>1. todo[p] \in Seq(TStep)
    BY <1>1
  <2> QED
    BY <1>3, <2>1, HeadTailProperties
<1>5. e.c \in Connections /\ e.peer \in Players
  BY <1>4 DEF TStep
<1>6. /\ chan' = [chan EXCEPT ![e.c][e.peer][p] = Tail(@)]
      /\ todo' = [todo EXCEPT ![p] = Tail(@)]
      /\ got' = [got EXCEPT ![p][e.peer] = Head(b).val]
  BY DEF Receive
<1>7. Follows(H, at, st, [todo EXCEPT ![p] = Tail(@)], [chan EXCEPT ![e.c][e.peer][p] = Tail(@)])
  BY <1>1, <1>3, Receives
<1>8. Follows(H, at, st', todo', chan')
  BY <1>2, <1>6, <1>7
<1>9. Follows(H, at, st, todo, chan)'
  BY <1>2, <1>8, FollowsNext
<1>10. chan' \in Pairs(Seq(Msg)) /\ b \in Seq(Msg)
  <2> DEFINE c == e.c
             q == e.peer
             Z == Tail(chan[c][q][p])
  <2>1. chan' = [chan EXCEPT ![c][q][p] = Z] /\ c \in Connections /\ q \in Players /\ b = chan[c][q][p]
    BY <1>5, <1>6
  <2> HIDE DEF c, q, b
  <2>2. b \in Seq(Msg)
    BY <1>1, <2>1 DEF Pairs
  <2>3. Z \in Seq(Msg)
    BY <1>3, <2>1, <2>2, HeadTailProperties
  <2> HIDE DEF Z
  <2> QED
    BY <1>1, <2>1, <2>2, <2>3, OnePair
<1>11. todo' \in [Players -> Seq(TStep)]
  <2> DEFINE Y == Tail(todo[p])
  <2>1. Y \in Seq(TStep) /\ todo' = [todo EXCEPT ![p] = Y]
    <3>1. todo[p] \in Seq(TStep)
      BY <1>1
    <3> QED
      BY <1>3, <1>6, <3>1, HeadTailProperties
  <2> HIDE DEF Y
  <2> QED
    BY <1>1, <2>1
<1>12. got' \in [Players -> Speech]
  <2> DEFINE v == Head(b).val
             q == e.peer
             x == [got[p] EXCEPT ![q] = v]
  <2>1. v \in Seq(Entry)
    <3>1. Head(b) \in Msg
      BY <1>3, <1>10, HeadTailProperties
    <3> QED
      BY <3>1, MsgIs
  <2>2. got' = [got EXCEPT ![p] = x] /\ q \in Players
    BY <1>5, <1>6
  <2> HIDE DEF v, q
  <2>3. x \in Speech
    BY <1>1, <2>1, <2>2 DEF Speech
  <2> HIDE DEF x
  <2> QED
    BY <1>1, <2>2, <2>3
<1> QED
  BY <1>1, <1>2, <1>9, <1>10, <1>11, <1>12 DEF TypeOK

-----------------------------------------------------------------------------
(* The first part of the invariant is kept, and is enough for SameRound.   *)

AllFollow == TypeOK /\ Setting /\ \E H, at : Trace(H) /\ Follows(H, at, st, todo, chan)

\* Every step keeps everyone at the rounds of the trace.
LEMMA StepKeeps ==
  ASSUME Setting, TypeOK, NEW H, Trace(H), NEW at, Follows(H, at, st, todo, chan), [Next]_vars
  PROVE  TypeOK' /\ Setting' /\ Trace(H)' /\ \E a : Follows(H, a, st, todo, chan)'
<1>1. prog' = prog /\ type' = type
  BY DEF Next, Step, Begin, EndRound, Same, vars
<1>2. Setting'
  BY <1>1 DEF Setting
<1>3. Trace(H)'
  BY <1>1, TraceStays
<1>4. ASSUME chan' = chan, todo' = todo, got' = got, faults' = faults, st' = st, hist' = hist, sure' = sure
      PROVE  TypeOK' /\ \E a : Follows(H, a, st, todo, chan)'
  <2>1. Follows(H, at, st', todo', chan')
    BY <1>4
  <2>2. Follows(H, at, st, todo, chan)'
    BY <1>1, <2>1, FollowsNext
  <2> QED
    BY <1>4, <2>2 DEF TypeOK
<1>5. TypeOK' /\ \E a : Follows(H, a, st, todo, chan)'
  <2>1. CASE UNCHANGED vars
    BY <1>4, <2>1 DEF vars, wire
  <2>2. ASSUME NEW p \in Players, Begin(p) \/ EndRound(p) PROVE TypeOK' /\ \E a : Follows(H, a, st, todo, chan)'
    BY <2>2, CallKeeps
  <2>3. ASSUME NEW p \in Players, Send(p) \/ SendWrong(p), Same PROVE TypeOK' /\ \E a : Follows(H, a, st, todo, chan)'
    BY <2>3, SendKeeps
  <2>4. ASSUME NEW p \in Players, Receive(p), Same PROVE TypeOK' /\ \E a : Follows(H, a, st, todo, chan)'
    BY <2>4, ReceiveKeeps
  <2>5. ASSUME NEW p \in Players, PeerGone(p) \/ WriteFails(p), Same PROVE TypeOK' /\ \E a : Follows(H, a, st, todo, chan)'
    BY <1>4, <2>5 DEF PeerGone, WriteFails, Same
  <2> QED
    BY <2>1, <2>2, <2>3, <2>4, <2>5 DEF Next, Step
<1> QED
  BY <1>2, <1>3, <1>5

\* That everyone is at a round of the trace is an inductive invariant.
THEOREM Inductive ==
  ASSUME Proper
  PROVE  /\ Init => AllFollow
         /\ AllFollow /\ [Next]_vars => AllFollow'
         /\ AllFollow => SameRound
<1>1. ASSUME Init PROVE AllFollow
  <2>1. PICK H : Trace(H)
    BY TraceExists
  <2>2. TypeOK /\ Setting /\ Follows(H, [p \in Players |-> 0], st, todo, chan)
    BY <1>1, <2>1, StartPlace
  <2> QED
    BY <2>1, <2>2 DEF AllFollow
<1>2. ASSUME AllFollow, [Next]_vars PROVE AllFollow'
  <2>1. PICK H, at : Trace(H) /\ Follows(H, at, st, todo, chan)
    BY <1>2 DEF AllFollow
  <2>2. TypeOK' /\ Setting' /\ Trace(H)' /\ \E a : Follows(H, a, st, todo, chan)'
    BY <1>2, <2>1, StepKeeps DEF AllFollow
  <2> QED
    BY <2>2 DEF AllFollow
<1>3. ASSUME AllFollow PROVE SameRound
  <2>1. PICK H, at : Trace(H) /\ Follows(H, at, st, todo, chan)
    BY <1>3 DEF AllFollow
  <2>2. Setting /\ todo \in [Players -> Seq(TStep)] /\ chan \in Pairs(Seq(Msg))
    BY <1>3 DEF AllFollow, TypeOK
  <2>3. ASSUME NEW p \in Players, todo[p] # <<>>, Head(todo[p]).dir = "receive",
               chan[Head(todo[p]).c][Head(todo[p]).peer][p] # <<>>
        PROVE  Head(chan[Head(todo[p]).c][Head(todo[p]).peer][p]).tag = Head(todo[p]).m.tag
    <3> DEFINE S == st
               T == todo
               C == chan
    <3>1. /\ Follows(H, at, S, T, C) /\ T \in [Players -> Seq(TStep)] /\ C \in Pairs(Seq(Msg))
          /\ T[p] # <<>> /\ Head(T[p]).dir = "receive" /\ C[Head(T[p]).c][Head(T[p]).peer][p] # <<>>
      BY <2>1, <2>2, <2>3
    <3> HIDE DEF S, T, C
    <3>2. ReadsNext(H, at, T, C, p)
      BY <2>1, <2>2, <3>1, NextMessage
    <3>3. Head(C[Head(T[p]).c][Head(T[p]).peer][p]).tag = Head(T[p]).m.tag
      BY <3>2 DEF ReadsNext
    <3> QED
      BY <3>3 DEF C, T
  <2> QED
    BY <2>3 DEF SameRound
<1> QED
  BY <1>1, <1>2, <1>3

\* What goes through the connections, what the players have left to do and
\* what they keep have their types.
THEOREM TypeCorrect ==
  ASSUME Proper
  PROVE  Spec => []TypeOK
<1>1. AllFollow => TypeOK
  BY DEF AllFollow
<1> QED
  BY <1>1, Inductive, PTL DEF Spec

\* SameRound of OpeningProps: though nothing in a message says which call and
\* which round it is for, a read takes the one that was written for it.
THEOREM SameRoundAlways ==
  ASSUME Proper
  PROVE  Spec => []SameRound
  BY Inductive, PTL DEF Spec

=============================================================================
