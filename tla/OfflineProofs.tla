--------------------------- MODULE OfflineProofs ----------------------------
(***************************************************************************)
(* Proofs about the offline phase, for every number of players and online  *)
(* threads, every slice of the kinds of data and all sizes: what each step *)
(* changes, the types, and what holds because each sacrifice thread takes  *)
(* what was agreed only.                                                   *)
(***************************************************************************)
EXTENDS OfflineProps, FiniteSetTheorems, SequenceTheorems, WellFoundedInduction, TLAPS

---------------------------------------------------------------------------
(* Constants, and how the numbers of a round are worked out.               *)

\* The types of the constants.
LEMMA Constants ==
    /\ 0 \in Players /\ 0 \in OnlineThreads /\ Players \subseteq Nat
    /\ Kinds \subseteq AllKinds /\ rep \in Nat /\ rep >= 1 /\ bit_gap \in Nat
    /\ sz_offline_batch \in [AllKinds -> Nat] /\ sz_sacrifice \in [AllKinds -> Nat]
    /\ max_offline \in [AllKinds -> Nat]
    /\ sz_IO_batch \in Nat
    /\ sz_sacrifice["triples"] \in Nat /\ sz_sacrifice["squares"] \in Nat
    /\ sz_sacrifice["bits"] \in Nat
<1>1. sz_sacrifice \in [AllKinds -> Nat]
  BY SizesAssumption
<1>2. "triples" \in AllKinds /\ "squares" \in AllKinds /\ "bits" \in AllKinds
  BY DEF AllKinds
<1> QED
  BY <1>1, <1>2, SizesAssumption DEF Players, OnlineThreads

\* A product of naturals is a natural.
LEMMA TimesIn == \A a, b \in Nat : a * b \in Nat
OBVIOUS

\* A product grows with a factor.
LEMMA TimesMore == \A a, b, c \in Nat : a <= b => a * c <= b * c /\ c * a <= c * b
OBVIOUS

\* A multiple of a divisor.
LEMMA Quotient ==
    ASSUME NEW n \in Int, NEW d \in Nat, d >= 1
    PROVE  /\ n \div d \in Int /\ (n \div d) * d \in Int
           /\ (n \div d) * d <= n /\ d * (n \div d) <= n
           /\ n >= 0 => n \div d \in Nat
OBVIOUS

\* What is rounded is a natural, and no more unless it is 0.
LEMMA RoundedRight ==
    ASSUME NEW n \in Int
    PROVE  Rounded(n) \in Nat /\ (Rounded(n) = 0 \/ Rounded(n) <= n)
<1>1. rep + 1 \in Nat /\ rep + 1 >= 1
  BY Constants
<1>2. (n \div (rep + 1)) * (rep + 1) \in Int /\ (n \div (rep + 1)) * (rep + 1) <= n
  BY <1>1, Quotient
<1> QED
  BY <1>2 DEF Rounded, AtLeast0

\* The sizes of a round are naturals.
LEMMA SizeTimes ==
    ASSUME NEW T \in {"triples", "squares", "bits"}
    PROVE  sz_sacrifice[T] \in Nat /\ (rep + 1) * sz_sacrifice[T] \in Nat
BY Constants, TimesIn DEF AllKinds

\* No more triples are proposed than there are, or a round takes.
LEMMA NumTriplesRight ==
    ASSUME NEW ta \in Nat
    PROVE  /\ NumTriples(ta) \in 0 .. (rep + 1) * sz_sacrifice["triples"]
           /\ NumTriples(ta) <= ta
<1> DEFINE s == (rep + 1) * sz_sacrifice["triples"]
<1>1. s \in Nat
  BY SizeTimes
<1> HIDE DEF s
<1>2. Least(s, ta) \in Nat /\ Least(s, ta) <= s /\ Least(s, ta) <= ta
  BY <1>1 DEF Least
<1> DEFINE n == Least(s, ta) - 1
<1>3. n \in Int /\ n <= s /\ n <= ta
  BY <1>1, <1>2
<1> HIDE DEF n
<1>4. Rounded(n) \in Nat /\ (Rounded(n) = 0 \/ Rounded(n) <= n)
  BY <1>3, RoundedRight
<1>5. Rounded(n) \in 0 .. s /\ Rounded(n) <= ta
  BY <1>1, <1>3, <1>4
<1> QED
  BY <1>5 DEF NumTriples, n, s

\* No more squares are proposed than there are, or a round takes.
LEMMA NumSquaresRight ==
    ASSUME NEW sa \in Nat
    PROVE  /\ NumSquares(sa) \in 0 .. (rep + 1) * sz_sacrifice["squares"]
           /\ NumSquares(sa) <= sa
<1> DEFINE s == (rep + 1) * sz_sacrifice["squares"]
<1>1. s \in Nat
  BY SizeTimes
<1> HIDE DEF s
<1>2. Least(s, sa) \in Nat /\ Least(s, sa) <= s /\ Least(s, sa) <= sa
  BY <1>1 DEF Least
<1> DEFINE n == Least(s, sa) - 1
<1>3. n \in Int /\ n <= s /\ n <= sa
  BY <1>1, <1>2
<1> HIDE DEF n
<1>4. Rounded(n) \in Nat /\ (Rounded(n) = 0 \/ Rounded(n) <= n)
  BY <1>3, RoundedRight
<1>5. Rounded(n) \in 0 .. s /\ Rounded(n) <= sa
  BY <1>1, <1>3, <1>4
<1> QED
  BY <1>5 DEF NumSquares, n, s

\* No more bits are proposed than there are bits and squares to check them.
LEMMA NumBitsRight ==
    ASSUME NEW bb \in Nat, NEW sa \in Nat
    PROVE  /\ NumBits(bb, sa) \in 0 .. sz_sacrifice["bits"]
           /\ NumBits(bb, sa) <= bb /\ rep * NumBits(bb, sa) <= sa
<1> DEFINE s == sz_sacrifice["bits"]
           d == sa \div rep
           n == NumBits(bb, sa)
<1>1. s \in Nat /\ rep \in Nat /\ rep >= 1 /\ bit_gap \in Nat
  BY Constants
<1>2. d \in Nat /\ rep * d <= sa /\ rep * d \in Nat
  BY <1>1, Quotient, TimesIn
<1> HIDE DEF s, d
<1>3. n = AtLeast0(Least(Least(s, bb) - 1, d) - bit_gap)
  BY DEF NumBits, s, d
<1>4. n \in Nat /\ n <= s /\ n <= bb /\ n <= d
  BY <1>1, <1>2, <1>3 DEF AtLeast0, Least
<1> HIDE DEF n
<1>5. rep * n <= rep * d /\ rep * n \in Nat
  BY <1>1, <1>2, <1>4, TimesMore, TimesIn
<1>6. n \in 0 .. s /\ n <= bb /\ rep * n <= sa
  BY <1>1, <1>2, <1>4, <1>5
<1> QED
  BY <1>6 DEF n, s

\* The least of a set of numbers that has a lower bound.
LEMMA MinRight ==
    ASSUME NEW S, S \subseteq Int, S # {}, \A x \in S : x >= -1
    PROVE  Min(S) \in S /\ \A x \in S : Min(S) <= x
<1> DEFINE Up == {x + 1 : x \in S}
<1>1. Up \subseteq Nat /\ Up # {}
  <2>1. \A x \in S : x \in Int /\ x >= -1
    OBVIOUS
  <2>2. \A x \in S : x + 1 \in Nat
    BY <2>1
  <2> QED
    BY <2>2
<1>2. PICK u \in Up : \A v \in Up : <<v, u>> \notin OpToRel(<, Nat)
  BY <1>1, NatLessThanWellFounded, WFMin
<1>3. \A v \in Up : u <= v
  <2> SUFFICES ASSUME NEW v \in Up PROVE u <= v
    OBVIOUS
  <2>1. u \in Nat /\ v \in Nat
    BY <1>1
  <2>2. ~(v < u)
    BY <1>2, <2>1 DEF OpToRel
  <2> QED
    BY <2>1, <2>2
<1>4. PICK x \in S : u = x + 1
  BY <1>2
<1>5. \A y \in S : x <= y
  BY <1>3, <1>4
<1> QED
  BY <1>5 DEF Min

---------------------------------------------------------------------------
(* What the steps change.                                                  *)

\* Two states of an array differ at most at thread k of player p, or there at
\* most at one kind.
OnlyAt(new, old, p, k) ==
    \A q \in Players, j \in OnlineThreads : q # p \/ j # k => new[q][j] = old[q][j]
OnlyKind(new, old, p, k, T) ==
    \A q \in Players, j \in OnlineThreads, U \in Kinds :
        q # p \/ j # k \/ U # T => new[q][j][U] = old[q][j][U]

\* A producer that goes on.
LEMMA ProducerChanges ==
    ASSUME TypeOK, NEW p \in Players, NEW k \in OnlineThreads, NEW T \in Kinds,
           NEW pc \in {"check", "size", "produce", "out"}, ProducerGoes(p, k, T, pc)
    PROVE  /\ prod'[p][k][T] = pc /\ OnlyKind(prod', prod, p, k, T)
           /\ prod' \in PerKind({"check", "size", "produce", "out"})
<1>1. prod \in PerKind({"check", "size", "produce", "out"})
  BY DEF TypeOK
<1>2. prod' = [prod EXCEPT ![p][k][T] = pc]
  BY DEF ProducerGoes
<1>3. prod'[p][k][T] = pc
  BY <1>1, <1>2 DEF PerKind, PerThread
<1>4. OnlyKind(prod', prod, p, k, T)
  BY <1>1, <1>2 DEF OnlyKind, PerKind, PerThread
<1>5. prod' \in PerKind({"check", "size", "produce", "out"})
  BY <1>1, <1>2 DEF PerKind, PerThread
<1> QED
  BY <1>3, <1>4, <1>5

\* A thread that dies is counted.
LEMMA DeadChanges ==
    ASSUME TypeOK, NEW p \in Players, NEW k \in OnlineThreads, ThreadDied(p, k)
    PROVE  /\ finished_offline'[p][k] = finished_offline[p][k] + 1
           /\ OnlyAt(finished_offline', finished_offline, p, k)
           /\ finished_offline[p][k] \in Nat
           /\ finished_offline[p][k] < 4 => finished_offline' \in PerThread(0 .. 4)
<1>1. finished_offline \in PerThread(0 .. 4)
  BY DEF TypeOK
<1>2. finished_offline' = [finished_offline EXCEPT ![p][k] = finished_offline[p][k] + 1]
  BY DEF ThreadDied
<1>3. finished_offline'[p][k] = finished_offline[p][k] + 1
  BY <1>1, <1>2 DEF PerThread
<1>4. OnlyAt(finished_offline', finished_offline, p, k)
  BY <1>1, <1>2 DEF OnlyAt, PerThread
<1>5. finished_offline[p][k] \in 0 .. 4
  BY <1>1 DEF PerThread
<1>6. ASSUME finished_offline[p][k] < 4 PROVE finished_offline' \in PerThread(0 .. 4)
  <2>1. finished_offline[p][k] + 1 \in 0 .. 4
    BY <1>5, <1>6
  <2> QED
    BY <1>1, <1>2, <2>1 DEF PerThread
<1> QED
  BY <1>3, <1>4, <1>5, <1>6

\* A step of a producer that ends nothing and makes nothing, one that ends it,
\* and one that makes a batch.
Moves(p, k, T) ==
    /\ prod[p][k][T] \in {"check", "size"} /\ prod'[p][k][T] \in {"check", "size", "produce"}
    /\ p = 0 /\ prod'[p][k][T] = "produce" => queue[0][k][T] <= max_offline[T]
    /\ UNCHANGED <<finished_offline, made, queue>>
Dies(p, k, T) ==
    /\ prod[p][k][T] = "check" /\ prod'[p][k][T] = "out"
    /\ ThreadDied(p, k)
    /\ UNCHANGED <<made, queue>>
MakesBatch(p, k, T) ==
    /\ prod[p][k][T] = "produce" /\ prod'[p][k][T] = "check"
    /\ \A q \in Players : Begun(q, k, T) > made[p][k][T]
    /\ made'[p][k][T] = made[p][k][T] + 1
    /\ queue'[p][k][T] = queue[p][k][T] + sz_offline_batch[T]
    /\ UNCHANGED finished_offline
Untouched == UNCHANGED <<sacrificed, ios, opened_ios, tot, totI, finish_offline,
                         sacrificer, online>>

\* A producer goes on, dies or makes a batch.
LEMMA ProducerSteps ==
    ASSUME TypeOK, NEW p \in Players, NEW k \in OnlineThreads, NEW T \in Kinds,
           Producer(p, k, T)
    PROVE  /\ Untouched
           /\ OnlyKind(prod', prod, p, k, T) /\ OnlyKind(made', made, p, k, T)
           /\ OnlyKind(queue', queue, p, k, T)
           /\ prod' \in PerKind({"check", "size", "produce", "out"})
           /\ made' \in PerKind(Nat) /\ queue' \in PerKind(Nat)
           /\ Moves(p, k, T) \/ Dies(p, k, T) \/ MakesBatch(p, k, T)
<1> DEFINE Goes(pc) == /\ prod'[p][k][T] = pc /\ OnlyKind(prod', prod, p, k, T)
                       /\ prod' \in PerKind({"check", "size", "produce", "out"})
           Same == UNCHANGED <<made, queue>>
           Idle == OnlyKind(made', made, p, k, T) /\ OnlyKind(queue', queue, p, k, T)
                   /\ made' \in PerKind(Nat) /\ queue' \in PerKind(Nat)
<1>1. made \in PerKind(Nat) /\ queue \in PerKind(Nat)
  BY DEF TypeOK
<1>2. ASSUME NEW pc \in {"check", "size", "produce", "out"}, ProducerGoes(p, k, T, pc)
      PROVE  Goes(pc)
  BY <1>2, ProducerChanges
<1>3. Same => Idle
  BY <1>1 DEF OnlyKind
<1>4. CASE p = 0 /\ CheckExit0(k, T)
  <2>1. Untouched /\ Same /\ prod[p][k][T] = "check"
    BY <1>4 DEF CheckExit0, Untouched
  <2>2. CASE ProducerGoes(p, k, T, "out") /\ ThreadDied(p, k)
    BY <1>2, <1>3, <2>1, <2>2 DEF Dies
  <2>3. CASE ProducerGoes(p, k, T, "size") /\ UNCHANGED finished_offline
    BY <1>2, <1>3, <2>1, <2>3 DEF Moves
  <2> QED
    BY <1>4, <2>2, <2>3 DEF CheckExit0
<1>5. CASE p = 0 /\ CheckSize0(k, T)
  <2>1. Untouched /\ Same /\ prod[p][k][T] = "size" /\ UNCHANGED finished_offline
    BY <1>5 DEF CheckSize0, Untouched
  <2>2. CASE ProducerGoes(p, k, T, "check")
    BY <1>2, <1>3, <2>1, <2>2 DEF Moves
  <2>3. CASE ProducerGoes(p, k, T, "produce") /\ ~QueueTooBig(k, T)
    <3>1. queue[0][k][T] <= max_offline[T]
      <4>1. queue[0][k][T] \in Nat /\ max_offline[T] \in Nat
        BY <1>1, Constants DEF PerKind, PerThread
      <4> QED
        BY <2>3, <4>1 DEF QueueTooBig
    <3> QED
      BY <1>2, <1>3, <2>1, <2>3, <3>1 DEF Moves
  <2> QED
    BY <1>5, <2>2, <2>3 DEF CheckSize0
<1>6. CASE CheckExitOther(p, k, T)
  <2>1. Untouched /\ Same /\ prod[p][k][T] = "check" /\ p # 0
    BY <1>6 DEF CheckExitOther, Untouched
  <2>2. CASE ProducerGoes(p, k, T, "out") /\ ThreadDied(p, k)
    BY <1>2, <1>3, <2>1, <2>2 DEF Dies
  <2>3. CASE UNCHANGED <<prod, finished_offline>>
    <3>1. Goes("check")
      BY <2>1, <2>3 DEF TypeOK, OnlyKind
    <3> QED
      BY <1>3, <2>1, <2>3, <3>1 DEF Moves
  <2>4. CASE ProducerGoes(p, k, T, "produce") /\ UNCHANGED finished_offline
    BY <1>2, <1>3, <2>1, <2>4 DEF Moves
  <2> QED
    BY <1>6, <2>2, <2>3, <2>4 DEF CheckExitOther
<1>7. CASE Produce(p, k, T)
  <2>1. /\ prod[p][k][T] = "produce" /\ \A q \in Players : Begun(q, k, T) > made[p][k][T]
        /\ made' = [made EXCEPT ![p][k][T] = made[p][k][T] + 1]
        /\ queue' = [queue EXCEPT ![p][k][T] = queue[p][k][T] + sz_offline_batch[T]]
        /\ ProducerGoes(p, k, T, "check")
        /\ Untouched /\ UNCHANGED finished_offline
    BY <1>7 DEF Produce, Untouched
  <2>2. made[p][k][T] + 1 \in Nat /\ queue[p][k][T] + sz_offline_batch[T] \in Nat
    BY <1>1, Constants DEF PerKind, PerThread
  <2>3. made'[p][k][T] = made[p][k][T] + 1
    BY <1>1, <2>1 DEF PerKind, PerThread
  <2>4. OnlyKind(made', made, p, k, T)
    BY <1>1, <2>1 DEF OnlyKind, PerKind, PerThread
  <2>5. made' \in PerKind(Nat)
    BY <1>1, <2>1, <2>2 DEF PerKind, PerThread
  <2>6. queue'[p][k][T] = queue[p][k][T] + sz_offline_batch[T]
    BY <1>1, <2>1 DEF PerKind, PerThread
  <2>7. OnlyKind(queue', queue, p, k, T)
    BY <1>1, <2>1 DEF OnlyKind, PerKind, PerThread
  <2>8. queue' \in PerKind(Nat)
    BY <1>1, <2>1, <2>2 DEF PerKind, PerThread
  <2> QED
    BY <1>2, <2>1, <2>3, <2>4, <2>5, <2>6, <2>7, <2>8 DEF MakesBatch
<1> QED
  BY <1>4, <1>5, <1>6, <1>7 DEF Producer

\* A sacrifice thread that goes on.
LEMMA SacrificeMoves ==
    ASSUME TypeOK, NEW p \in Players, NEW k \in OnlineThreads, NEW pc, SacrificeGoes(p, k, pc),
           pc \in {"propose", "collect", "IO", "triples", "squares", "bits", "end", "exit", "out"}
    PROVE  /\ spc'[p][k] = pc /\ OnlyAt(spc', spc, p, k)
           /\ spc' \in PerThread({"propose", "collect", "IO", "triples", "squares",
                                  "bits", "end", "exit", "out"})
<1>1. spc \in PerThread({"propose", "collect", "IO", "triples", "squares",
                         "bits", "end", "exit", "out"})
  BY DEF TypeOK
<1>2. spc' = [spc EXCEPT ![p][k] = pc]
  BY DEF SacrificeGoes
<1>3. spc'[p][k] = pc
  BY <1>1, <1>2 DEF PerThread
<1>4. OnlyAt(spc', spc, p, k)
  BY <1>1, <1>2 DEF OnlyAt, PerThread
<1>5. spc' \in PerThread({"propose", "collect", "IO", "triples", "squares",
                          "bits", "end", "exit", "out"})
  BY <1>1, <1>2 DEF PerThread
<1> QED
  BY <1>3, <1>4, <1>5

\* The numbers of one thread are set.
LEMMA AgreedChanges ==
    ASSUME TypeOK, NEW p \in Players, NEW k \in OnlineThreads, NEW n \in Numbers,
           agreed' = [agreed EXCEPT ![p][k] = n]
    PROVE  /\ agreed'[p][k] = n /\ OnlyAt(agreed', agreed, p, k)
           /\ agreed' \in PerThread(Numbers)
<1>1. agreed \in PerThread(Numbers)
  BY DEF TypeOK
<1>2. agreed'[p][k] = n
  BY <1>1 DEF PerThread
<1>3. OnlyAt(agreed', agreed, p, k)
  BY <1>1 DEF OnlyAt, PerThread
<1>4. agreed' \in PerThread(Numbers)
  BY <1>1 DEF PerThread
<1> QED
  BY <1>2, <1>3, <1>4

\* The numbers in an entry of a typed array.
LEMMA Entries ==
    ASSUME TypeOK, NEW p \in Players, NEW k \in OnlineThreads
    PROVE  /\ agreed[p][k] \in Numbers
           /\ finish_offline[p][k] \in {0, 1} /\ finished_offline[p][k] \in 0 .. 4
           /\ rounds[p][k] \in Nat /\ pos[p][k] \in Nat /\ totI[p] \in Nat
           /\ \A T \in Kinds : /\ queue[p][k][T] \in Nat /\ tot[p][k][T] \in Nat
                               /\ sacrificed[p][k][T] \in Nat /\ made[p][k][T] \in Nat
           /\ \A T \in AllKinds : Queued(p, k, T) \in Nat
           /\ \A q \in Players : offer[q][p][k] \in Seq(Numbers) /\ ios[p][q] \in Nat
<1>1. agreed[p][k] \in Numbers
  BY DEF TypeOK, PerThread
<1>2. finish_offline[p][k] \in {0, 1} /\ finished_offline[p][k] \in 0 .. 4
  BY DEF TypeOK, PerThread
<1>3. rounds[p][k] \in Nat /\ pos[p][k] \in Nat /\ totI[p] \in Nat
  BY DEF TypeOK, PerThread
<1>4. \A T \in Kinds : queue[p][k][T] \in Nat /\ tot[p][k][T] \in Nat
  BY DEF TypeOK, PerThread, PerKind
<1>5. \A T \in Kinds : sacrificed[p][k][T] \in Nat /\ made[p][k][T] \in Nat
  BY DEF TypeOK, PerThread, PerKind
<1>6. \A q \in Players : offer[q][p][k] \in Seq(Numbers) /\ ios[p][q] \in Nat
  BY DEF TypeOK, PerThread
<1>7. \A T \in AllKinds : Queued(p, k, T) \in Nat
  BY <1>4 DEF Queued
<1> QED
  BY <1>1, <1>2, <1>3, <1>4, <1>5, <1>6, <1>7

\* What the numbers of a round are.
LEMMA NumbersAre ==
    ASSUME NEW n \in Numbers
    PROVE  /\ n.nm \in Int /\ n.nm >= -1 /\ (n.nm # -1 => n.nm \in Nat)
           /\ n.nm <= (rep + 1) * sz_sacrifice["triples"]
           /\ n.ns \in Nat /\ n.ns <= (rep + 1) * sz_sacrifice["squares"]
           /\ n.nb \in Nat /\ n.nb <= sz_sacrifice["bits"]
           /\ n.make_inputs \subseteq Players /\ rep * n.nb \in Nat
           /\ n = [nm |-> n.nm, ns |-> n.ns, nb |-> n.nb, make_inputs |-> n.make_inputs]
<1> DEFINE a == (rep + 1) * sz_sacrifice["triples"]
           b == (rep + 1) * sz_sacrifice["squares"]
           c == sz_sacrifice["bits"]
<1>1. a \in Nat /\ b \in Nat /\ c \in Nat
  BY SizeTimes
<1>2. n \in [nm : -1 .. a, ns : 0 .. b, nb : 0 .. c, make_inputs : SUBSET Players]
  BY DEF Numbers
<1> HIDE DEF a, b, c
<1>3. /\ n.nm \in Int /\ n.nm >= -1 /\ (n.nm # -1 => n.nm \in Nat) /\ n.nm <= a
      /\ n.ns \in Nat /\ n.ns <= b /\ n.nb \in Nat /\ n.nb <= c
      /\ n.make_inputs \subseteq Players
      /\ n = [nm |-> n.nm, ns |-> n.ns, nb |-> n.nb, make_inputs |-> n.make_inputs]
  BY <1>1, <1>2
<1>4. rep * n.nb \in Nat
  BY <1>3, Constants, TimesIn
<1> QED
  BY <1>3, <1>4 DEF a, b, c

\* What makes the numbers of a round.
LEMMA NumbersIn ==
    ASSUME NEW nm \in Int, nm >= -1, nm <= (rep + 1) * sz_sacrifice["triples"],
           NEW ns \in Nat, ns <= (rep + 1) * sz_sacrifice["squares"],
           NEW nb \in Nat, nb <= sz_sacrifice["bits"], NEW I \in SUBSET Players
    PROVE  [nm |-> nm, ns |-> ns, nb |-> nb, make_inputs |-> I] \in Numbers
<1> DEFINE a == (rep + 1) * sz_sacrifice["triples"]
           b == (rep + 1) * sz_sacrifice["squares"]
           c == sz_sacrifice["bits"]
<1>1. a \in Nat /\ b \in Nat /\ c \in Nat /\ nm <= a /\ ns <= b /\ nb <= c
  BY SizeTimes
<1> HIDE DEF a, b, c
<1>2. nm \in -1 .. a /\ ns \in 0 .. b /\ nb \in 0 .. c
  BY <1>1
<1> QED
  BY <1>2 DEF Numbers, a, b, c

\* What a thread proposes is there; the exit signal is given for a cause.
LEMMA ProposalRight ==
    ASSUME TypeOK, NEW p \in Players, NEW k \in OnlineThreads
    PROVE  LET n == Proposal(p, k)
           IN  /\ n \in Numbers
               /\ Queued(p, k, "triples") >= n.nm
               /\ Queued(p, k, "squares") >= rep * n.nb + n.ns
               /\ Queued(p, k, "bits") >= n.nb
               /\ n.nm = -1 => finish_offline[p][k] = 1
               /\ k # 0 => n.make_inputs = {}
<1> DEFINE q == [T \in AllKinds |-> Queued(p, k, T)]
           nt == NumTriples(q["triples"])
           nb == NumBits(q["bits"], q["squares"])
           ns == NumSquares(q["squares"] - rep * nb)
           mm == IF finish_offline[p][k] = 1 THEN -1 ELSE Unless(Enough(p, k, "triples"), nt)
           ms == Unless(Enough(p, k, "squares"), ns)
           mb == Unless(Enough(p, k, "bits"), nb)
           I  == {i \in Players : k = 0 /\ WantsInputs(p, i)}
<1>1. Proposal(p, k) = [nm |-> mm, ns |-> ms, nb |-> mb, make_inputs |-> I]
  BY DEF Proposal
<1>2. /\ q["triples"] = Queued(p, k, "triples") /\ q["squares"] = Queued(p, k, "squares")
      /\ q["bits"] = Queued(p, k, "bits")
      /\ q["triples"] \in Nat /\ q["squares"] \in Nat /\ q["bits"] \in Nat
  BY Entries DEF AllKinds
<1>3. nt \in 0 .. (rep + 1) * sz_sacrifice["triples"] /\ nt <= q["triples"]
  BY <1>2, NumTriplesRight
<1>4. nb \in 0 .. sz_sacrifice["bits"] /\ nb <= q["bits"] /\ rep * nb <= q["squares"]
  BY <1>2, NumBitsRight
<1> HIDE DEF nt, nb, q
<1>5. nb \in Nat /\ rep * nb \in Nat /\ q["squares"] - rep * nb \in Nat
  <2>1. nb \in Nat
    BY <1>4, SizeTimes
  <2>2. rep * nb \in Nat
    BY <2>1, Constants, TimesIn
  <2> QED
    BY <1>2, <1>4, <2>1, <2>2
<1>6. ns \in 0 .. (rep + 1) * sz_sacrifice["squares"] /\ ns <= q["squares"] - rep * nb
  BY <1>5, NumSquaresRight
<1> HIDE DEF ns
<1>7. /\ mm \in Int /\ mm >= -1 /\ mm <= (rep + 1) * sz_sacrifice["triples"]
      /\ mm <= q["triples"] /\ (mm = -1 => finish_offline[p][k] = 1)
  <2> DEFINE a == (rep + 1) * sz_sacrifice["triples"]
  <2>1. a \in Nat /\ nt \in 0 .. a
    BY <1>3, SizeTimes
  <2> HIDE DEF a
  <2>2. /\ mm \in Int /\ mm >= -1 /\ mm <= a
        /\ mm <= q["triples"] /\ (mm = -1 => finish_offline[p][k] = 1)
    BY <1>2, <1>3, <2>1 DEF Unless
  <2> QED
    BY <2>2 DEF a
<1>8. mb \in Nat /\ mb <= sz_sacrifice["bits"] /\ mb <= q["bits"] /\ (mb = 0 \/ mb = nb)
  BY <1>2, <1>4, <1>5, SizeTimes DEF Unless
<1>9. /\ ms \in Nat /\ ms <= (rep + 1) * sz_sacrifice["squares"]
      /\ ms <= q["squares"] - rep * nb
  <2> DEFINE b == (rep + 1) * sz_sacrifice["squares"]
  <2>1. b \in Nat /\ ns \in 0 .. b
    BY <1>6, SizeTimes
  <2> HIDE DEF b
  <2>2. ms \in Nat /\ ms <= b /\ ms <= q["squares"] - rep * nb
    BY <1>2, <1>5, <1>6, <2>1 DEF Unless
  <2> QED
    BY <2>2 DEF b
<1> HIDE DEF mm, ms, mb
<1>10. q["squares"] >= rep * mb + ms
  <2>1. CASE mb = 0
    <3>1. rep * mb = 0
      BY <2>1, Constants
    <3> QED
      BY <1>2, <1>5, <1>9, <3>1
  <2>2. CASE mb = nb
    BY <1>2, <1>5, <1>9, <2>2
  <2> QED
    BY <1>8, <2>1, <2>2
<1>11. I \in SUBSET Players /\ (k # 0 => I = {})
  OBVIOUS
<1> HIDE DEF I
<1>12. Proposal(p, k) \in Numbers
  BY <1>1, <1>7, <1>8, <1>9, <1>11, NumbersIn
<1> QED
  BY <1>1, <1>2, <1>7, <1>8, <1>10, <1>11, <1>12

\* Nothing but the proposals to the others is sent.
LEMMA ProposeStep ==
    ASSUME TypeOK, NEW p \in Players, NEW k \in OnlineThreads, Propose(p, k)
    PROVE  /\ spc[p][k] = "propose" /\ spc'[p][k] = "collect" /\ OnlyAt(spc', spc, p, k)
           /\ spc' \in PerThread({"propose", "collect", "IO", "triples", "squares",
                                  "bits", "end", "exit", "out"})
           /\ agreed'[p][k] = Proposal(p, k) /\ OnlyAt(agreed', agreed, p, k)
           /\ agreed' \in PerThread(Numbers)
           /\ \A q \in Players \ {p} :
                 offer'[p][q][k] = Append(offer[p][q][k], Proposal(p, k))
           /\ \A r, q \in Players, j \in OnlineThreads :
                 r # p \/ q = p \/ j # k => offer'[r][q][j] = offer[r][q][j]
           /\ offer' \in [Players -> PerThread(Seq(Numbers))]
           /\ UNCHANGED <<queue, sacrificed, ios, opened_ios, tot, totI, finish_offline,
                          finished_offline, producers, rounds, online>>
<1> DEFINE n == Proposal(p, k)
           row == [q \in Players |->
                    IF q = p THEN offer[p][q]
                    ELSE [offer[p][q] EXCEPT ![k] = Append(offer[p][q][k], n)]]
<1>1. n \in Numbers
  BY ProposalRight
<1>2. /\ spc[p][k] = "propose" /\ SacrificeGoes(p, k, "collect")
      /\ agreed' = [agreed EXCEPT ![p][k] = n] /\ offer' = [offer EXCEPT ![p] = row]
      /\ UNCHANGED <<queue, sacrificed, ios, opened_ios, tot, totI, finish_offline,
                     finished_offline, producers, rounds, online>>
  BY DEF Propose
<1> HIDE DEF n
<1>3. offer \in [Players -> [Players -> [OnlineThreads -> Seq(Numbers)]]]
  BY DEF TypeOK, PerThread
<1>4. \A q \in Players \ {p} : Append(offer[p][q][k], n) \in Seq(Numbers)
  <2> TAKE q \in Players \ {p}
  <2>1. offer[p][q][k] \in Seq(Numbers)
    BY <1>3
  <2> QED
    BY <1>1, <2>1
<1>5. \A q \in Players \ {p} : row[q] = [offer[p][q] EXCEPT ![k] = Append(offer[p][q][k], n)]
  OBVIOUS
<1>6. row[p] = offer[p][p]
  OBVIOUS
<1>7. row \in [Players -> [OnlineThreads -> Seq(Numbers)]]
  BY <1>3, <1>4
<1>8. offer'[p] = row /\ \A r \in Players \ {p} : offer'[r] = offer[r]
  BY <1>2, <1>3
<1>9. offer' \in [Players -> [Players -> [OnlineThreads -> Seq(Numbers)]]]
  BY <1>2, <1>3, <1>7
<1> HIDE DEF row
<1>10. \A q \in Players \ {p} :
          /\ offer'[p][q][k] = Append(offer[p][q][k], n)
          /\ \A j \in OnlineThreads \ {k} : offer'[p][q][j] = offer[p][q][j]
  <2> TAKE q \in Players \ {p}
  <2> DEFINE old == offer[p][q]
             new == offer'[p][q]
             s   == Append(offer[p][q][k], n)
  <2>1. old \in [OnlineThreads -> Seq(Numbers)]
    BY <1>3
  <2>2. new = [old EXCEPT ![k] = s]
    BY <1>5, <1>8
  <2> HIDE DEF old, new, s
  <2>3. new[k] = s /\ \A j \in OnlineThreads \ {k} : new[j] = old[j]
    BY <2>1, <2>2
  <2> QED
    BY <2>3 DEF old, new, s
<1>12. \A r, q \in Players, j \in OnlineThreads :
          r # p \/ q = p \/ j # k => offer'[r][q][j] = offer[r][q][j]
  BY <1>6, <1>8, <1>10
<1>13. /\ spc'[p][k] = "collect" /\ OnlyAt(spc', spc, p, k)
       /\ spc' \in PerThread({"propose", "collect", "IO", "triples", "squares",
                              "bits", "end", "exit", "out"})
  BY <1>2, SacrificeMoves
<1>14. agreed'[p][k] = n /\ OnlyAt(agreed', agreed, p, k) /\ agreed' \in PerThread(Numbers)
  BY <1>1, <1>2, AgreedChanges
<1> QED
  BY <1>2, <1>9, <1>10, <1>12, <1>13, <1>14 DEF n, PerThread

\* What is combined is at most each of the numbers, and is one of them.
LEMMA CombinedRight ==
    ASSUME NEW S, S \subseteq Numbers, S # {}
    PROVE  /\ Combined(S) \in Numbers
           /\ \A n \in S : /\ Combined(S).nm <= n.nm /\ Combined(S).ns <= n.ns
                           /\ Combined(S).nb <= n.nb
           /\ \E n \in S : Combined(S).nm = n.nm
           /\ \A i \in Combined(S).make_inputs : \E n \in S : i \in n.make_inputs
<1> DEFINE M == {n.nm : n \in S}
           Q == {n.ns : n \in S}
           B == {n.nb : n \in S}
           I == UNION {n.make_inputs : n \in S}
<1>1. Combined(S) = [nm |-> Min(M), ns |-> Min(Q), nb |-> Min(B), make_inputs |-> I]
  BY DEF Combined
<1>2. \A n \in S : /\ n.nm \in Int /\ n.nm >= -1 /\ n.ns \in Nat /\ n.nb \in Nat
                   /\ n.nm <= (rep + 1) * sz_sacrifice["triples"]
                   /\ n.ns <= (rep + 1) * sz_sacrifice["squares"]
                   /\ n.nb <= sz_sacrifice["bits"] /\ n.make_inputs \subseteq Players
  BY NumbersAre
<1>3. M \subseteq Int /\ M # {} /\ \A x \in M : x >= -1
  BY <1>2
<1>4. Q \subseteq Int /\ Q # {} /\ \A x \in Q : x >= -1
  BY <1>2
<1>5. B \subseteq Int /\ B # {} /\ \A x \in B : x >= -1
  BY <1>2
<1>6. Min(M) \in M /\ \A x \in M : Min(M) <= x
  BY <1>3, MinRight
<1>7. Min(Q) \in Q /\ \A x \in Q : Min(Q) <= x
  BY <1>4, MinRight
<1>8. Min(B) \in B /\ \A x \in B : Min(B) <= x
  BY <1>5, MinRight
<1>9. PICK m \in S : Min(M) = m.nm
  BY <1>6
<1>10. PICK s \in S : Min(Q) = s.ns
  BY <1>7
<1>11. PICK b \in S : Min(B) = b.nb
  BY <1>8
<1>12. I \in SUBSET Players /\ \A i \in I : \E n \in S : i \in n.make_inputs
  BY <1>2
<1>13. \A n \in S : Min(M) <= n.nm /\ Min(Q) <= n.ns /\ Min(B) <= n.nb
  BY <1>6, <1>7, <1>8
<1> HIDE DEF M, Q, B, I
<1>14. /\ Min(M) \in Int /\ Min(M) >= -1 /\ Min(M) <= (rep + 1) * sz_sacrifice["triples"]
       /\ Min(Q) \in Nat /\ Min(Q) <= (rep + 1) * sz_sacrifice["squares"]
       /\ Min(B) \in Nat /\ Min(B) <= sz_sacrifice["bits"]
  BY <1>2, <1>9, <1>10, <1>11
<1>15. Combined(S) \in Numbers
  BY <1>1, <1>12, <1>14, NumbersIn
<1> QED
  BY <1>1, <1>9, <1>12, <1>13, <1>15

\* What p collects: what it has proposed itself and what the others have sent.
Collected(p, k) == {agreed[p][k]} \cup {Head(offer[q][p][k]) : q \in Players \ {p}}
AfterCollect(all) == IF all = Nothing THEN "propose" ELSE IF all.nm = -1 THEN "exit" ELSE "IO"

\* One proposal of everybody is taken, and the least of them agreed.
LEMMA CollectStep ==
    ASSUME TypeOK, NEW p \in Players, NEW k \in OnlineThreads, Collect(p, k)
    PROVE  LET all == Combined(Collected(p, k))
           IN  /\ spc[p][k] = "collect" /\ OnlyAt(spc', spc, p, k)
               /\ spc'[p][k] = AfterCollect(all)
               /\ spc' \in PerThread({"propose", "collect", "IO", "triples", "squares",
                                      "bits", "end", "exit", "out"})
               /\ agreed'[p][k] = all /\ OnlyAt(agreed', agreed, p, k)
               /\ agreed' \in PerThread(Numbers)
               /\ Collected(p, k) \subseteq Numbers /\ Collected(p, k) # {}
               /\ \A q \in Players \ {p} : /\ offer[q][p][k] # <<>>
                                           /\ offer'[q][p][k] = Tail(offer[q][p][k])
               /\ \A r, q \in Players, j \in OnlineThreads :
                     q # p \/ r = p \/ j # k => offer'[r][q][j] = offer[r][q][j]
               /\ offer' \in [Players -> PerThread(Seq(Numbers))]
               /\ rounds'[p][k] = rounds[p][k] + OneIf(all # Nothing)
               /\ OnlyAt(rounds', rounds, p, k) /\ rounds' \in PerThread(Nat)
               /\ UNCHANGED <<queue, sacrificed, ios, opened_ios, tot, totI, finish_offline,
                              finished_offline, producers, online>>
<1> DEFINE all == Combined(Collected(p, k))
<1>1. offer \in [Players -> [Players -> [OnlineThreads -> Seq(Numbers)]]]
  BY DEF TypeOK, PerThread
<1>2. \A q \in Players \ {p} : offer[q][p][k] # <<>>
  BY DEF Collect
<1>3. \A q \in Players \ {p} : Head(offer[q][p][k]) \in Numbers /\ Tail(offer[q][p][k]) \in Seq(Numbers)
  <2> TAKE q \in Players \ {p}
  <2>1. offer[q][p][k] \in Seq(Numbers) /\ offer[q][p][k] # <<>>
    BY <1>1, <1>2
  <2> QED
    BY <2>1
<1>4. Collected(p, k) \subseteq Numbers /\ Collected(p, k) # {}
  BY <1>3, Entries DEF Collected
<1>5. all \in Numbers
  BY <1>4, CombinedRight
<1>6. /\ spc[p][k] = "collect" /\ SacrificeGoes(p, k, AfterCollect(all))
      /\ agreed' = [agreed EXCEPT ![p][k] = all]
      /\ offer' = [q \in Players |-> IF q = p THEN offer[q]
                                     ELSE [offer[q] EXCEPT ![p][k] = Tail(@)]]
      /\ rounds' = [rounds EXCEPT ![p][k] = @ + (IF all = Nothing THEN 0 ELSE 1)]
      /\ UNCHANGED <<queue, sacrificed, ios, opened_ios, tot, totI, finish_offline,
                     finished_offline, producers, online>>
  BY DEF Collect, Collected, AfterCollect
<1> HIDE DEF all
<1>7. \A q \in Players \ {p} : offer'[q] = [offer[q] EXCEPT ![p][k] = Tail(offer[q][p][k])]
  BY <1>6
<1>8. offer'[p] = offer[p]
  BY <1>6
<1>9. \A q \in Players \ {p} : offer'[q] \in [Players -> [OnlineThreads -> Seq(Numbers)]]
  <2> TAKE q \in Players \ {p}
  <2> DEFINE row == [offer[q][p] EXCEPT ![k] = Tail(offer[q][p][k])]
  <2>1. row \in [OnlineThreads -> Seq(Numbers)]
    BY <1>1, <1>3
  <2>2. offer'[q] = [offer[q] EXCEPT ![p] = row]
    BY <1>7
  <2> HIDE DEF row
  <2> QED
    BY <1>1, <2>1, <2>2
<1>10. offer' \in [Players -> [Players -> [OnlineThreads -> Seq(Numbers)]]]
  <2>1. \A q \in Players : offer'[q] \in [Players -> [OnlineThreads -> Seq(Numbers)]]
    BY <1>1, <1>8, <1>9
  <2>2. offer' = [q \in Players |-> offer'[q]]
    BY <1>6
  <2> QED
    BY <2>1, <2>2
<1>11. \A q \in Players \ {p} :
          /\ offer'[q][p][k] = Tail(offer[q][p][k])
          /\ \A r \in Players, j \in OnlineThreads :
                r # p \/ j # k => offer'[q][r][j] = offer[q][r][j]
  <2> TAKE q \in Players \ {p}
  <2> DEFINE old == offer[q]
             new == offer'[q]
             s   == Tail(offer[q][p][k])
  <2>1. old \in [Players -> [OnlineThreads -> Seq(Numbers)]]
    BY <1>1
  <2>2. new = [old EXCEPT ![p][k] = s]
    BY <1>7
  <2> HIDE DEF old, new, s
  <2>3. new[p][k] = s
    BY <2>1, <2>2
  <2>4. \A r \in Players, j \in OnlineThreads : r # p \/ j # k => new[r][j] = old[r][j]
    BY <2>1, <2>2
  <2> QED
    BY <2>3, <2>4 DEF old, new, s
<1>12. \A r, q \in Players, j \in OnlineThreads :
          q # p \/ r = p \/ j # k => offer'[r][q][j] = offer[r][q][j]
  BY <1>8, <1>11
<1>13. /\ spc'[p][k] = AfterCollect(all) /\ OnlyAt(spc', spc, p, k)
       /\ spc' \in PerThread({"propose", "collect", "IO", "triples", "squares",
                              "bits", "end", "exit", "out"})
  BY <1>6, SacrificeMoves DEF AfterCollect
<1>14. agreed'[p][k] = all /\ OnlyAt(agreed', agreed, p, k) /\ agreed' \in PerThread(Numbers)
  BY <1>5, <1>6, AgreedChanges
<1>15. /\ rounds'[p][k] = rounds[p][k] + OneIf(all # Nothing)
       /\ OnlyAt(rounds', rounds, p, k) /\ rounds' \in PerThread(Nat)
  <2> DEFINE m == rounds[p][k] + OneIf(all # Nothing)
  <2>1. rounds \in [Players -> [OnlineThreads -> Nat]]
    BY DEF TypeOK, PerThread
  <2>2. rounds' = [rounds EXCEPT ![p][k] = m]
    BY <1>6 DEF OneIf
  <2>3. m \in Nat
    BY <2>1 DEF OneIf
  <2> HIDE DEF m
  <2>4. rounds'[p][k] = m
    BY <2>1, <2>2
  <2>5. OnlyAt(rounds', rounds, p, k)
    BY <2>1, <2>2 DEF OnlyAt
  <2>6. rounds' \in PerThread(Nat)
    BY <2>1, <2>2, <2>3 DEF PerThread
  <2> QED
    BY <2>4, <2>5, <2>6 DEF m
<1> QED
  BY <1>2, <1>4, <1>6, <1>8, <1>10, <1>11, <1>12, <1>13, <1>14, <1>15 DEF all, PerThread

\* One batch of inputs of a player that is to have them made.
LEMMA MakeIOStep ==
    ASSUME TypeOK, NEW p \in Players, NEW k \in OnlineThreads, MakeIO(p, k)
    PROVE  /\ spc[p][k] = "IO"
           /\ \E i \in agreed[p][k].make_inputs :
                 /\ agreed'[p][k] = [agreed[p][k] EXCEPT !.make_inputs = @ \ {i}]
                 /\ totI'[p] = totI[p] + sz_IO_batch
                 /\ \A q \in Players : q # p => totI'[q] = totI[q]
                 /\ totI' \in [Players -> Nat]
                 /\ ios'[p][i] = ios[p][i] + sz_IO_batch
                 /\ \A q, r \in Players : q # p \/ r # i => ios'[q][r] = ios[q][r]
                 /\ ios' \in [Players -> [Players -> Nat]]
                 /\ opened_ios'[p] = opened_ios[p] + IF i = p THEN sz_IO_batch ELSE 0
                 /\ \A q \in Players : q # p => opened_ios'[q] = opened_ios[q]
                 /\ opened_ios' \in [Players -> Nat]
           /\ OnlyAt(agreed', agreed, p, k) /\ agreed' \in PerThread(Numbers)
           /\ UNCHANGED <<queue, sacrificed, tot, finish_offline, finished_offline,
                          producers, spc, offer, rounds, online>>
<1> DEFINE I == agreed[p][k].make_inputs
           i == Min(I)
           m == [agreed[p][k] EXCEPT !.make_inputs = I \ {i}]
<1>1. agreed[p][k] \in Numbers /\ I \subseteq Players /\ I # {}
  BY Entries, NumbersAre DEF MakeIO
<1>2. i \in I /\ i \in Players
  <2>1. I \subseteq Int /\ \A x \in I : x >= -1
    <3>1. I \subseteq Nat
      BY <1>1, Constants
    <3> HIDE DEF I
    <3> QED
      BY <3>1
  <2> HIDE DEF I
  <2>2. Min(I) \in I
    BY <1>1, <2>1, MinRight
  <2> QED
    BY <1>1, <2>2
<1>3. m \in Numbers
  BY <1>1 DEF Numbers
<1>4. /\ spc[p][k] = "IO"
      /\ totI' = [totI EXCEPT ![p] = totI[p] + sz_IO_batch]
      /\ ios' = [ios EXCEPT ![p][i] = ios[p][i] + sz_IO_batch]
      /\ opened_ios' = [opened_ios EXCEPT ![p] =
                          IF i = p THEN opened_ios[p] + sz_IO_batch ELSE opened_ios[p]]
      /\ agreed' = [agreed EXCEPT ![p][k].make_inputs = agreed[p][k].make_inputs \ {i}]
      /\ UNCHANGED <<queue, sacrificed, tot, finish_offline, finished_offline,
                     producers, spc, offer, rounds, online>>
  BY DEF MakeIO
<1>5. agreed' = [agreed EXCEPT ![p][k] = m]
  BY <1>4
<1> HIDE DEF i, m
<1>6. agreed'[p][k] = m /\ OnlyAt(agreed', agreed, p, k) /\ agreed' \in PerThread(Numbers)
  BY <1>3, <1>5, AgreedChanges
<1>7. /\ totI'[p] = totI[p] + sz_IO_batch /\ (\A q \in Players : q # p => totI'[q] = totI[q])
      /\ totI' \in [Players -> Nat]
  <2>1. totI \in [Players -> Nat]
    BY DEF TypeOK
  <2>2. totI[p] + sz_IO_batch \in Nat
    BY <2>1, Constants
  <2> QED
    BY <1>4, <2>1, <2>2
<1>8. /\ ios'[p][i] = ios[p][i] + sz_IO_batch
      /\ \A q, r \in Players : q # p \/ r # i => ios'[q][r] = ios[q][r]
      /\ ios' \in [Players -> [Players -> Nat]]
  <2>1. ios \in [Players -> [Players -> Nat]]
    BY DEF TypeOK
  <2>2. ios[p][i] + sz_IO_batch \in Nat
    BY <1>2, <2>1, Constants
  <2>3. ios'[p][i] = ios[p][i] + sz_IO_batch
    BY <1>2, <1>4, <2>1
  <2>4. \A q, r \in Players : q # p \/ r # i => ios'[q][r] = ios[q][r]
    BY <1>2, <1>4, <2>1
  <2>5. ios' \in [Players -> [Players -> Nat]]
    BY <1>2, <1>4, <2>1, <2>2
  <2> QED
    BY <2>3, <2>4, <2>5
<1>9. /\ opened_ios'[p] = opened_ios[p] + IF i = p THEN sz_IO_batch ELSE 0
      /\ \A q \in Players : q # p => opened_ios'[q] = opened_ios[q]
      /\ opened_ios' \in [Players -> Nat]
  <2> DEFINE o == IF i = p THEN opened_ios[p] + sz_IO_batch ELSE opened_ios[p]
  <2>1. opened_ios \in [Players -> Nat] /\ opened_ios[p] \in Nat
    BY DEF TypeOK
  <2>2. o \in Nat /\ o = opened_ios[p] + IF i = p THEN sz_IO_batch ELSE 0
    BY <2>1, Constants
  <2>3. opened_ios' = [opened_ios EXCEPT ![p] = o]
    BY <1>4
  <2> HIDE DEF o
  <2> QED
    BY <2>1, <2>2, <2>3
<1> QED
  BY <1>2, <1>4, <1>6, <1>7, <1>8, <1>9 DEF m

\* The other numbers of the round stay.
LEMMA MakeIOKeeps ==
    ASSUME TypeOK, NEW p \in Players, NEW k \in OnlineThreads, MakeIO(p, k)
    PROVE  /\ agreed'[p][k].nm = agreed[p][k].nm /\ agreed'[p][k].ns = agreed[p][k].ns
           /\ agreed'[p][k].nb = agreed[p][k].nb
<1>1. agreed[p][k] \in Numbers
  BY Entries
<1>2. PICK i \in agreed[p][k].make_inputs :
         agreed'[p][k] = [agreed[p][k] EXCEPT !.make_inputs = @ \ {i}]
  BY MakeIOStep
<1> QED
  BY <1>1, <1>2 DEF Numbers

\* Nothing of a kind became less.
NoLess(f, g) == \A q \in Players, j \in OnlineThreads, X \in Kinds : f[q][j][X] >= g[q][j][X]

\* What a step of a round takes from the queues and keeps.
LEMMA TakeStep ==
    ASSUME TypeOK, NEW p \in Players, NEW k \in OnlineThreads,
           NEW taken \in [AllKinds -> Nat], NEW T \in AllKinds, NEW kept \in Nat,
           Take(p, k, taken, T, kept), \A X \in Kinds : queue[p][k][X] >= taken[X]
    PROVE  /\ \A X \in Kinds : queue'[p][k][X] = queue[p][k][X] - taken[X]
           /\ OnlyAt(queue', queue, p, k) /\ queue' \in PerKind(Nat)
           /\ T \in Kinds => tot'[p][k][T] = tot[p][k][T] + kept
           /\ \A q \in Players, j \in OnlineThreads, X \in Kinds :
                 X # T => tot'[q][j][X] = tot[q][j][X]
           /\ OnlyAt(tot', tot, p, k) /\ tot' \in PerKind(Nat)
           /\ sacrificed' \in PerKind(Nat) /\ NoLess(sacrificed', sacrificed)
           /\ UNCHANGED <<ios, opened_ios, totI, finish_offline, finished_offline,
                          producers, agreed, offer, rounds, online>>
<1> DEFINE F(f) == Plus(f, T, kept)
           left == [X \in Kinds |-> queue[p][k][X] - taken[X]]
<1>1. /\ queue \in PerThread([Kinds -> Nat]) /\ tot \in PerThread([Kinds -> Nat])
      /\ sacrificed \in PerThread([Kinds -> Nat])
  BY DEF TypeOK, PerKind
<1>2. \A f \in [Kinds -> Nat] :
         /\ F(f) \in [Kinds -> Nat] /\ (T \in Kinds => F(f)[T] = f[T] + kept)
         /\ \A X \in Kinds : X # T => F(f)[X] = f[X]
         /\ \A X \in Kinds : F(f)[X] >= f[X]
  BY DEF Plus
<1>3. left \in [Kinds -> Nat] /\ \A X \in Kinds : left[X] = queue[p][k][X] - taken[X]
  <2>1. \A X \in Kinds : queue[p][k][X] \in Nat /\ taken[X] \in Nat
    BY Entries, Constants
  <2>2. \A X \in Kinds : queue[p][k][X] - taken[X] \in Nat
    BY <2>1
  <2> QED
    BY <2>2
<1>4. /\ queue' = [queue EXCEPT ![p][k] = left] /\ tot' = [tot EXCEPT ![p][k] = F(tot[p][k])]
      /\ sacrificed' = [sacrificed EXCEPT ![p][k] = F(sacrificed[p][k])]
      /\ UNCHANGED <<ios, opened_ios, totI, finish_offline, finished_offline,
                     producers, agreed, offer, rounds, online>>
  BY DEF Take
<1> HIDE DEF left, F
<1>5. queue'[p][k] = left
  BY <1>1, <1>4 DEF PerThread
<1>6. OnlyAt(queue', queue, p, k)
  BY <1>1, <1>4 DEF PerThread, OnlyAt
<1>7. queue' \in PerKind(Nat)
  BY <1>1, <1>3, <1>4 DEF PerThread, PerKind
<1>8. tot[p][k] \in [Kinds -> Nat] /\ sacrificed[p][k] \in [Kinds -> Nat]
  BY <1>1 DEF PerThread
<1>9. tot'[p][k] = F(tot[p][k])
  BY <1>1, <1>4 DEF PerThread
<1>10. OnlyAt(tot', tot, p, k)
  BY <1>1, <1>4 DEF PerThread, OnlyAt
<1>11. F(tot[p][k]) \in [Kinds -> Nat] /\ F(sacrificed[p][k]) \in [Kinds -> Nat]
  BY <1>2, <1>8
<1>12. tot' \in PerKind(Nat)
  BY <1>1, <1>4, <1>11 DEF PerThread, PerKind
<1>13. sacrificed' \in PerKind(Nat)
  BY <1>1, <1>4, <1>11 DEF PerThread, PerKind
<1>14. NoLess(sacrificed', sacrificed)
  <2>1. /\ sacrificed'[p][k] = F(sacrificed[p][k])
        /\ \A q \in Players, j \in OnlineThreads :
              q # p \/ j # k => sacrificed'[q][j] = sacrificed[q][j]
    BY <1>1, <1>4 DEF PerThread
  <2>2. \A X \in Kinds : sacrificed'[p][k][X] >= sacrificed[p][k][X]
    BY <1>2, <1>8, <2>1
  <2>3. \A q \in Players, j \in OnlineThreads, X \in Kinds : sacrificed[q][j][X] \in Nat
    BY <1>1 DEF PerThread
  <2> QED
    BY <2>1, <2>2, <2>3 DEF NoLess
<1>15. /\ T \in Kinds => tot'[p][k][T] = tot[p][k][T] + kept
       /\ \A X \in Kinds : X # T => tot'[p][k][X] = tot[p][k][X]
  BY <1>2, <1>8, <1>9
<1>16. \A q \in Players, j \in OnlineThreads, X \in Kinds :
          X # T => tot'[q][j][X] = tot[q][j][X]
  BY <1>10, <1>15 DEF OnlyAt
<1> QED
  BY <1>3, <1>4, <1>5, <1>6, <1>7, <1>10, <1>12, <1>13, <1>14, <1>15, <1>16

\* Where a round takes of which kind, and how much.
TakenAt(n, T, X) ==
    IF X = T THEN (IF T = "triples" THEN n.nm ELSE IF T = "squares" THEN n.ns ELSE n.nb)
    ELSE IF T = "bits" /\ X = "squares" THEN rep * n.nb ELSE 0
After(T) == IF T = "triples" THEN "squares" ELSE IF T = "squares" THEN "bits" ELSE "end"
Sacrifices(p, k) == SacrificeTriples(p, k) \/ SacrificeSquares(p, k) \/ SacrificeBits(p, k)

\* What is kept is a natural.
LEMMA KeptRight == ASSUME NEW n \in Nat PROVE Kept(n) \in Nat
<1>1. rep + 1 \in Nat /\ rep + 1 >= 1
  BY Constants
<1>2. n \div (rep + 1) \in Nat
  BY <1>1, Quotient
<1> QED
  BY <1>2 DEF Kept

\* A part of a round takes what was agreed and keeps what is checked.
LEMMA SacrificeSteps ==
    ASSUME TypeOK, ReadyOK, NEW p \in Players, NEW k \in OnlineThreads, Sacrifices(p, k)
    PROVE  \E T \in AllKinds :
              /\ spc[p][k] = T /\ spc'[p][k] = After(T) /\ OnlyAt(spc', spc, p, k)
              /\ spc' \in PerThread({"propose", "collect", "IO", "triples", "squares",
                                     "bits", "end", "exit", "out"})
              /\ \A X \in Kinds :
                    queue'[p][k][X] = queue[p][k][X] - TakenAt(agreed[p][k], T, X)
              /\ OnlyAt(queue', queue, p, k) /\ queue' \in PerKind(Nat)
              /\ T \in Kinds => tot'[p][k][T] = tot[p][k][T] + Keeps(agreed[p][k], T)
              /\ \A q \in Players, j \in OnlineThreads, X \in Kinds :
                    X # T => tot'[q][j][X] = tot[q][j][X]
              /\ OnlyAt(tot', tot, p, k) /\ tot' \in PerKind(Nat)
              /\ sacrificed' \in PerKind(Nat) /\ NoLess(sacrificed', sacrificed)
              /\ UNCHANGED <<ios, opened_ios, totI, finish_offline, finished_offline,
                             producers, agreed, offer, rounds, online>>
<1> DEFINE n == agreed[p][k]
           taken(T) == [X \in AllKinds |-> TakenAt(n, T, X)]
<1>1. n \in Numbers
  BY Entries
<1>2. /\ n.nm \in Int /\ n.ns \in Nat /\ n.nb \in Nat /\ rep * n.nb \in Nat
      /\ n.nm # -1 => n.nm \in Nat
  BY <1>1, NumbersAre
<1> HIDE DEF n
<1>3. ASSUME NEW T \in AllKinds, spc[p][k] = T
      PROVE  /\ n.nm \in Nat /\ taken(T) \in [AllKinds -> Nat] /\ Keeps(n, T) \in Nat
             /\ \A X \in Kinds : queue[p][k][X] >= taken(T)[X]
  <2>1. n.nm \in Nat
    BY <1>2, <1>3 DEF ReadyOK, InRound, AllKinds, n
  <2>2. taken(T) \in [AllKinds -> Nat]
    BY <1>2, <2>1 DEF TakenAt
  <2>3. Keeps(n, T) \in Nat
    BY <1>2, <2>1, KeptRight DEF Keeps
  <2>4. \A X \in Kinds : queue[p][k][X] = Queued(p, k, X) /\ queue[p][k][X] \in Nat /\ X \in AllKinds
    BY Entries, Constants DEF Queued
  <2>5. /\ T = "triples" => Queued(p, k, "triples") >= n.nm
        /\ T = "squares" => Queued(p, k, "squares") >= rep * n.nb + n.ns
        /\ T = "bits" => Queued(p, k, "squares") >= rep * n.nb /\ Queued(p, k, "bits") >= n.nb
    BY <1>3 DEF ReadyOK, Ready, n
  <2>6. \A X \in Kinds : queue[p][k][X] >= TakenAt(n, T, X)
    BY <1>2, <2>1, <2>4, <2>5 DEF TakenAt, AllKinds
  <2> QED
    BY <2>1, <2>2, <2>3, <2>4, <2>6
<1>4. ASSUME NEW T \in AllKinds, spc[p][k] = T, SacrificeGoes(p, k, After(T)),
             Take(p, k, taken(T), T, Keeps(n, T))
      PROVE  /\ spc'[p][k] = After(T) /\ OnlyAt(spc', spc, p, k)
             /\ spc' \in PerThread({"propose", "collect", "IO", "triples", "squares",
                                    "bits", "end", "exit", "out"})
             /\ \A X \in Kinds : queue'[p][k][X] = queue[p][k][X] - TakenAt(n, T, X)
             /\ OnlyAt(queue', queue, p, k) /\ queue' \in PerKind(Nat)
             /\ T \in Kinds => tot'[p][k][T] = tot[p][k][T] + Keeps(n, T)
             /\ \A q \in Players, j \in OnlineThreads, X \in Kinds :
                   X # T => tot'[q][j][X] = tot[q][j][X]
             /\ OnlyAt(tot', tot, p, k) /\ tot' \in PerKind(Nat)
             /\ sacrificed' \in PerKind(Nat) /\ NoLess(sacrificed', sacrificed)
             /\ UNCHANGED <<ios, opened_ios, totI, finish_offline, finished_offline,
                            producers, agreed, offer, rounds, online>>
  <2>1. /\ spc'[p][k] = After(T) /\ OnlyAt(spc', spc, p, k)
        /\ spc' \in PerThread({"propose", "collect", "IO", "triples", "squares",
                               "bits", "end", "exit", "out"})
    BY <1>4, SacrificeMoves DEF After, AllKinds
  <2> DEFINE t == taken(T)
             m == Keeps(n, T)
  <2>2. /\ t \in [AllKinds -> Nat] /\ m \in Nat /\ \A X \in Kinds : queue[p][k][X] >= t[X]
    BY <1>3, <1>4
  <2>3. \A X \in Kinds : t[X] = TakenAt(n, T, X)
    BY Constants
  <2> HIDE DEF t, m
  <2>4. Take(p, k, t, T, m)
    BY <1>4 DEF t, m
  <2>5. /\ \A X \in Kinds : queue'[p][k][X] = queue[p][k][X] - t[X]
        /\ OnlyAt(queue', queue, p, k) /\ queue' \in PerKind(Nat)
        /\ T \in Kinds => tot'[p][k][T] = tot[p][k][T] + m
        /\ \A q \in Players, j \in OnlineThreads, X \in Kinds :
              X # T => tot'[q][j][X] = tot[q][j][X]
        /\ OnlyAt(tot', tot, p, k) /\ tot' \in PerKind(Nat)
        /\ sacrificed' \in PerKind(Nat) /\ NoLess(sacrificed', sacrificed)
        /\ UNCHANGED <<ios, opened_ios, totI, finish_offline, finished_offline,
                       producers, agreed, offer, rounds, online>>
    BY <2>2, <2>4, TakeStep
  <2> QED
    BY <2>1, <2>3, <2>5 DEF m
<1>5. /\ taken("triples") = [None EXCEPT !["triples"] = n.nm]
      /\ taken("squares") = [None EXCEPT !["squares"] = n.ns]
      /\ taken("bits") = [None EXCEPT !["bits"] = n.nb, !["squares"] = rep * n.nb]
  BY DEF TakenAt, None, AllKinds
<1>6. \E T \in AllKinds : /\ spc[p][k] = T /\ SacrificeGoes(p, k, After(T))
                          /\ Take(p, k, taken(T), T, Keeps(n, T))
  <2>1. CASE SacrificeTriples(p, k)
    BY <1>5, <2>1 DEF SacrificeTriples, AllKinds, After, Keeps, n
  <2>2. CASE SacrificeSquares(p, k)
    BY <1>5, <2>2 DEF SacrificeSquares, AllKinds, After, Keeps, n
  <2>3. CASE SacrificeBits(p, k)
    BY <1>5, <2>3 DEF SacrificeBits, AllKinds, After, Keeps, n
  <2> QED
    BY <2>1, <2>2, <2>3 DEF Sacrifices
<1>7. PICK T \in AllKinds : /\ spc[p][k] = T /\ SacrificeGoes(p, k, After(T))
                            /\ Take(p, k, taken(T), T, Keeps(n, T))
  BY <1>6
<1> HIDE DEF taken
<1> QED
  BY <1>4, <1>7 DEF n

\* The last step of a round: on to the next, or out.
LEMMA EndStep ==
    ASSUME TypeOK, NEW p \in Players, NEW k \in OnlineThreads, EndRound(p, k)
    PROVE  /\ spc[p][k] \in {"end", "exit"} /\ OnlyAt(spc', spc, p, k)
           /\ spc' \in PerThread({"propose", "collect", "IO", "triples", "squares",
                                  "bits", "end", "exit", "out"})
           /\ \/ /\ spc'[p][k] = "out" /\ ThreadDied(p, k)
                 /\ spc[p][k] = "exit" \/ EnoughData(p, k)
              \/ /\ spc'[p][k] = "propose" /\ UNCHANGED finished_offline
                 /\ spc[p][k] = "end" /\ ~EnoughData(p, k)
           /\ EnoughData(p, k) => finish_offline'[p][k] = 1
           /\ \A q \in Players, j \in OnlineThreads :
                 finish_offline[q][j] = 1 => finish_offline'[q][j] = 1
           /\ finish_offline' \in PerThread(0 .. 1)
           /\ UNCHANGED <<queue, sacrificed, ios, opened_ios, tot, totI, producers,
                          agreed, offer, rounds, online>>
<1>1. /\ spc[p][k] \in {"end", "exit"}
      /\ finish_offline' = IF EnoughData(p, k)
                           THEN [finish_offline EXCEPT ![p][k] = 1]
                           ELSE finish_offline
      /\ UNCHANGED <<queue, sacrificed, ios, opened_ios, tot, totI, producers,
                     agreed, offer, rounds, online>>
  BY DEF EndRound
<1>2. finish_offline \in [Players -> [OnlineThreads -> 0 .. 1]]
  BY DEF TypeOK, PerThread
<1>3. EnoughData(p, k) => finish_offline'[p][k] = 1
  BY <1>1, <1>2
<1>4. \A q \in Players, j \in OnlineThreads :
         finish_offline[q][j] = 1 => finish_offline'[q][j] = 1
  BY <1>1, <1>2
<1>5. finish_offline' \in PerThread(0 .. 1)
  BY <1>1, <1>2 DEF PerThread
<1>6. CASE SacrificeGoes(p, k, "out") /\ ThreadDied(p, k) /\ (spc[p][k] = "exit" \/ EnoughData(p, k))
  BY <1>1, <1>3, <1>4, <1>5, <1>6, SacrificeMoves
<1>7. CASE /\ SacrificeGoes(p, k, "propose") /\ UNCHANGED finished_offline
           /\ spc[p][k] # "exit" /\ ~EnoughData(p, k)
  BY <1>1, <1>3, <1>4, <1>5, <1>7, SacrificeMoves
<1> QED
  BY <1>6, <1>7 DEF EndRound

\* The instruction an online thread is at.
LEMMA InstrIn ==
    ASSUME TypeOK, NEW p \in Players, NEW k \in OnlineThreads, More(p, k)
    PROVE  /\ Instr(p, k).kind \in Kinds => Instr(p, k).size \in Nat
           /\ Instr(p, k).kind = "IO" => Instr(p, k).player \in Players
<1> DEFINE I == [kind : AllKinds, size : Nat] \cup [kind : {"IO"}, player : Players]
<1>1. Code[k] \in Seq(I)
  BY CodeAssumption
<1>2. pos[p][k] \in Nat \ {0}
  BY DEF TypeOK, PerThread
<1>3. pos[p][k] \in 1 .. Len(Code[k])
  BY <1>1, <1>2 DEF More
<1>4. Instr(p, k) \in I
  BY <1>1, <1>3 DEF Instr
<1> QED
  BY <1>4, Constants DEF AllKinds

\* The online thread takes what was made, and ends the offline threads.
LEMMA OnlineStep ==
    ASSUME TypeOK, InputsOK, TakeOK, NEW p \in Players, NEW k \in OnlineThreads, Online(p, k)
    PROVE  /\ UNCHANGED <<queue, tot, totI, finished_offline, producers, sacrificer>>
           /\ \A q \in Players, j \in OnlineThreads :
                 finish_offline[q][j] = 1 => finish_offline'[q][j] = 1
           /\ finish_offline' \in PerThread(0 .. 1)
           /\ opc' \in PerThread({"wait", "run", "take", "dead"})
           /\ pos' \in PerThread(Nat \ {0})
           /\ sacrificed' \in PerKind(Nat)
           /\ ios' \in [Players -> [Players -> Nat]] /\ opened_ios' \in [Players -> Nat]
           /\ \A q \in Players : opened_ios'[q] = ios'[q][q]
<1>1. /\ opc \in [Players -> [OnlineThreads -> {"wait", "run", "take", "dead"}]]
      /\ pos \in [Players -> [OnlineThreads -> Nat \ {0}]]
      /\ finish_offline \in [Players -> [OnlineThreads -> 0 .. 1]]
      /\ sacrificed \in [Players -> [OnlineThreads -> [Kinds -> Nat]]]
      /\ ios \in [Players -> [Players -> Nat]] /\ opened_ios \in [Players -> Nat]
  BY DEF TypeOK, PerThread, PerKind
<1>2. \A q \in Players : opened_ios[q] = ios[q][q]
  BY DEF InputsOK
<1>3. pos[p][k] \in Nat \ {0} /\ pos[p][k] + 1 \in Nat \ {0}
  <2>1. pos[p][k] \in Nat \ {0}
    BY <1>1
  <2> QED
    BY <2>1
<1>4. ASSUME pos' = [pos EXCEPT ![p][k] = pos[p][k] + 1] PROVE pos' \in PerThread(Nat \ {0})
  BY <1>1, <1>3, <1>4 DEF PerThread
<1>5. ASSUME NEW pc \in {"wait", "run", "take", "dead"}, OnlineGoes(p, k, pc)
      PROVE  opc' \in PerThread({"wait", "run", "take", "dead"})
  BY <1>1, <1>5 DEF PerThread, OnlineGoes
<1>6. CASE StartOnline(p, k) \/ WaitSacrificed(p, k) \/ IO_Data_Wait(p, k)
  <2>1. /\ OnlineGoes(p, k, "run") \/ OnlineGoes(p, k, "take")
        /\ UNCHANGED <<queue, sacrificed, ios, opened_ios, tot, totI, finish_offline,
                       finished_offline, producers, sacrificer, pos>>
    BY <1>6 DEF StartOnline, WaitSacrificed, IO_Data_Wait
  <2> QED
    BY <1>1, <1>2, <1>5, <2>1 DEF PerThread, PerKind
<1>7. CASE EndOnline(p, k)
  <2>1. /\ OnlineGoes(p, k, "dead")
        /\ finish_offline' = [finish_offline EXCEPT ![p][k] = 1]
        /\ UNCHANGED <<queue, sacrificed, ios, opened_ios, tot, totI,
                       finished_offline, producers, sacrificer, pos>>
    BY <1>7 DEF EndOnline
  <2>2. finish_offline' \in PerThread(0 .. 1)
    BY <1>1, <2>1 DEF PerThread
  <2>3. \A q \in Players, j \in OnlineThreads :
           finish_offline[q][j] = 1 => finish_offline'[q][j] = 1
    BY <1>1, <2>1
  <2> QED
    BY <1>1, <1>2, <1>5, <2>1, <2>2, <2>3 DEF PerThread, PerKind
<1>8. CASE TakeSacrificed(p, k)
  <2> DEFINE T    == Instr(p, k).kind
             size == Instr(p, k).size
             left == sacrificed[p][k][T] - size
  <2>1. /\ opc[p][k] = "take" /\ T \in Kinds
        /\ sacrificed' = [sacrificed EXCEPT ![p][k][T] = left]
        /\ pos' = [pos EXCEPT ![p][k] = pos[p][k] + 1] /\ OnlineGoes(p, k, "run")
        /\ UNCHANGED <<queue, ios, opened_ios, tot, totI, finish_offline,
                       finished_offline, producers, sacrificer>>
    BY <1>8 DEF TakeSacrificed
  <2>2. More(p, k) /\ sacrificed[p][k][T] >= size
    BY <2>1 DEF TakeOK
  <2>3. size \in Nat
    BY <2>1, <2>2, InstrIn
  <2> HIDE DEF T, size
  <2>4. left \in Nat
    <3>1. sacrificed[p][k][T] \in Nat
      BY <1>1, <2>1
    <3> QED
      BY <2>2, <2>3, <3>1
  <2> HIDE DEF left
  <2>5. sacrificed' \in PerKind(Nat)
    BY <1>1, <2>1, <2>4 DEF PerKind, PerThread
  <2> QED
    BY <1>1, <1>2, <1>4, <1>5, <2>1, <2>5 DEF PerThread
<1>9. CASE TakeIO(p, k)
  <2> DEFINE i == Instr(p, k).player
             o == IF i = p THEN opened_ios[p] - 1 ELSE opened_ios[p]
  <2>1. /\ opc[p][k] = "take" /\ Instr(p, k).kind = "IO"
        /\ ios' = [ios EXCEPT ![p][i] = ios[p][i] - 1]
        /\ opened_ios' = [opened_ios EXCEPT ![p] = o]
        /\ pos' = [pos EXCEPT ![p][k] = pos[p][k] + 1] /\ OnlineGoes(p, k, "run")
        /\ UNCHANGED <<queue, sacrificed, tot, totI, finish_offline,
                       finished_offline, producers, sacrificer>>
    BY <1>9 DEF TakeIO
  <2>2. More(p, k) /\ ios[p][i] >= 1
    BY <2>1 DEF TakeOK
  <2>3. i \in Players
    BY <2>1, <2>2, InstrIn
  <2> HIDE DEF i
  <2>4. ios[p][i] - 1 \in Nat
    BY <1>1, <2>2, <2>3
  <2>5. ios' \in [Players -> [Players -> Nat]]
    BY <1>1, <2>1, <2>3, <2>4
  <2>6. opened_ios[p] \in Nat /\ opened_ios[p] = ios[p][p]
    BY <1>1, <1>2
  <2>7. o \in Nat
    BY <2>2, <2>6
  <2> HIDE DEF o
  <2>8. opened_ios' \in [Players -> Nat] /\ opened_ios'[p] = o
        /\ \A q \in Players \ {p} : opened_ios'[q] = opened_ios[q]
    BY <1>1, <2>1, <2>7
  <2>9. ios'[p][i] = ios[p][i] - 1
    BY <1>1, <2>1, <2>3
  <2>10. \A q, r \in Players : q # p \/ r # i => ios'[q][r] = ios[q][r]
    BY <1>1, <2>1, <2>3
  <2>11. opened_ios'[p] = ios'[p][p]
    BY <2>3, <2>6, <2>8, <2>9, <2>10 DEF o
  <2>12. \A q \in Players : opened_ios'[q] = ios'[q][q]
    BY <1>2, <2>8, <2>10, <2>11
  <2> QED
    BY <1>1, <1>4, <1>5, <2>1, <2>5, <2>8, <2>12 DEF PerThread, PerKind
<1> QED
  BY <1>6, <1>7, <1>8, <1>9 DEF Online

\* Who was told to finish by this thread is dead, and the dead stay so.
LEMMA OnlineEnds ==
    ASSUME TypeOK, NEW p \in Players, NEW k \in OnlineThreads, Online(p, k),
           NEW q \in Players, NEW j \in OnlineThreads
    PROVE  /\ opc[q][j] = "dead" => opc'[q][j] = "dead"
           /\ finish_offline'[q][j] = 1 => finish_offline[q][j] = 1 \/ opc'[q][j] = "dead"
<1>1. /\ opc \in [Players -> [OnlineThreads -> {"wait", "run", "take", "dead"}]]
      /\ finish_offline \in [Players -> [OnlineThreads -> 0 .. 1]]
  BY DEF TypeOK, PerThread
<1>2. ASSUME NEW pc, OnlineGoes(p, k, pc), opc[p][k] # "dead"
      PROVE  /\ opc[q][j] = "dead" => opc'[q][j] = "dead"
             /\ opc'[p][k] = pc
  BY <1>1, <1>2 DEF OnlineGoes
<1>3. CASE EndOnline(p, k)
  BY <1>1, <1>2, <1>3 DEF EndOnline
<1>4. CASE ~EndOnline(p, k)
  <2>1. /\ opc[p][k] # "dead" /\ finish_offline' = finish_offline
        /\ \E pc \in {"run", "take"} : OnlineGoes(p, k, pc)
    BY <1>4 DEF Online, StartOnline, WaitSacrificed, TakeSacrificed, IO_Data_Wait, TakeIO
  <2> QED
    BY <1>2, <2>1
<1> QED
  BY <1>3, <1>4

\* The round goes on when its data are there.
LEMMA WaitStep ==
    ASSUME TypeOK, NEW p \in Players, NEW k \in OnlineThreads, WaitReady(p, k)
    PROVE  /\ spc[p][k] = "IO" /\ spc'[p][k] = "triples" /\ OnlyAt(spc', spc, p, k)
           /\ spc' \in PerThread({"propose", "collect", "IO", "triples", "squares",
                                  "bits", "end", "exit", "out"})
           /\ agreed[p][k].make_inputs = {} /\ Ready(p, k)
           /\ UNCHANGED <<queue, sacrificed, ios, opened_ios, tot, totI, finish_offline,
                          finished_offline, producers, agreed, offer, rounds, online>>
BY SacrificeMoves DEF WaitReady

\* Every step is one of these.
LEMMA Steps ==
    ASSUME [Next]_vars
    PROVE  \/ \E p \in Players, k \in OnlineThreads :
                 \/ \E T \in Kinds : Producer(p, k, T)
                 \/ Propose(p, k) \/ Collect(p, k) \/ MakeIO(p, k) \/ WaitReady(p, k)
                 \/ Sacrifices(p, k) \/ EndRound(p, k) \/ Online(p, k)
           \/ UNCHANGED vars
BY DEF Next, Sacrifice, Sacrifices

---------------------------------------------------------------------------
(* Types.                                                                  *)

\* What player 0 tells the producers is a verdict.
LEMMA VerdictIn ==
    ASSUME TypeOK, NEW p \in Players, NEW k \in OnlineThreads, NEW T \in Kinds,
           Producer(p, k, T)
    PROVE  verdict' \in PerKind(Seq({"E", "W", "-"}))
<1> DEFINE M == {"E", "W", "-"}
<1>1. verdict \in [Players -> [OnlineThreads -> [Kinds -> Seq(M)]]]
  BY DEF TypeOK, PerKind, PerThread
<1>2. ASSUME NEW m \in M, TellOthers(k, T, m) PROVE verdict' \in PerKind(Seq(M))
  <2> DEFINE row(q) == [verdict[q] EXCEPT ![k][T] = Append(verdict[q][k][T], m)]
  <2>1. verdict' = [q \in Players |-> IF q = 0 THEN verdict[0] ELSE row(q)]
    BY <1>2 DEF TellOthers
  <2>2. \A q \in Players : row(q) \in [OnlineThreads -> [Kinds -> Seq(M)]]
    <3> TAKE q \in Players
    <3> DEFINE old == verdict[q]
               s   == Append(verdict[q][k][T], m)
    <3>1. old \in [OnlineThreads -> [Kinds -> Seq(M)]] /\ verdict[q][k][T] \in Seq(M)
      BY <1>1
    <3>2. s \in Seq(M)
      BY <3>1
    <3> HIDE DEF old, s
    <3>3. [old EXCEPT ![k][T] = s] \in [OnlineThreads -> [Kinds -> Seq(M)]]
      BY <3>1, <3>2
    <3> QED
      BY <3>3 DEF old, s
  <2> HIDE DEF row
  <2> QED
    BY <1>1, <2>1, <2>2, Constants DEF PerKind, PerThread
<1>3. ASSUME verdict' = [verdict EXCEPT ![p][k][T] = Tail(verdict[p][k][T])],
             verdict[p][k][T] # <<>>
      PROVE  verdict' \in PerKind(Seq(M))
  <2>1. verdict[p][k][T] \in Seq(M)
    BY <1>1
  <2>2. Tail(verdict[p][k][T]) \in Seq(M)
    BY <1>3, <2>1
  <2> QED
    BY <1>1, <1>3, <2>2 DEF PerKind, PerThread
<1>4. ASSUME UNCHANGED verdict PROVE verdict' \in PerKind(Seq(M))
  BY <1>4 DEF TypeOK
<1>5. CASE CheckExit0(k, T)
  BY <1>2, <1>4, <1>5 DEF CheckExit0
<1>6. CASE CheckSize0(k, T)
  BY <1>2, <1>6 DEF CheckSize0
<1>7. CASE CheckExitOther(p, k, T)
  BY <1>3, <1>7 DEF CheckExitOther
<1>8. CASE Produce(p, k, T)
  BY <1>4, <1>8 DEF Produce
<1> QED
  BY <1>5, <1>6, <1>7, <1>8 DEF Producer

\* The initial state is typed.
LEMMA TypeInit == Init => TypeOK
<1> SUFFICES ASSUME Init PROVE TypeOK
  OBVIOUS
<1>1. queue \in PerKind(Nat) /\ sacrificed \in PerKind(Nat)
  BY DEF Init, EveryKind, Everywhere, PerKind, PerThread
<1>2. tot \in PerKind(Nat) /\ made \in PerKind(Nat)
  BY DEF Init, EveryKind, Everywhere, PerKind, PerThread
<1>3. prod \in PerKind({"check", "size", "produce", "out"})
  BY DEF Init, EveryKind, Everywhere, PerKind, PerThread
<1>4. verdict \in PerKind(Seq({"E", "W", "-"}))
  BY DEF Init, EveryKind, Everywhere, PerKind, PerThread
<1>5. /\ ios \in [Players -> [Players -> Nat]] /\ opened_ios \in [Players -> Nat]
      /\ totI \in [Players -> Nat]
  BY DEF Init
<1>6. /\ finish_offline \in PerThread(0 .. 1) /\ finished_offline \in PerThread(0 .. 4)
      /\ rounds \in PerThread(Nat) /\ pos \in PerThread(Nat \ {0})
  BY DEF Init, Everywhere, PerThread
<1>7. /\ spc \in PerThread({"propose", "collect", "IO", "triples", "squares",
                            "bits", "end", "exit", "out"})
      /\ opc \in PerThread({"wait", "run", "take", "dead"})
  BY DEF Init, Everywhere, PerThread
<1>8. agreed \in PerThread(Numbers)
  <2>1. {} \in SUBSET Players /\ 0 \in Nat
    OBVIOUS
  <2>2. Nothing \in Numbers
    BY SizeTimes DEF Numbers, Nothing
  <2> HIDE DEF Nothing
  <2> QED
    BY <2>2 DEF Init, Everywhere, PerThread
<1>9. offer \in [Players -> PerThread(Seq(Numbers))]
  BY DEF Init, Everywhere, PerThread
<1> QED
  BY <1>1, <1>2, <1>3, <1>4, <1>5, <1>6, <1>7, <1>8, <1>9 DEF TypeOK

\* A thread that has not died can be counted yet.
LEMMA NotAllDead ==
    ASSUME TypeOK, DeadOK, NEW p \in Players, NEW k \in OnlineThreads,
           spc[p][k] # "out" \/ \E T \in Kinds : prod[p][k][T] # "out"
    PROVE  finished_offline[p][k] < 4
<1> DEFINE a == DiedOf(p, k, "triples")
           b == DiedOf(p, k, "squares")
           c == DiedOf(p, k, "bits")
           d == IF spc[p][k] = "out" THEN 1 ELSE 0
<1>1. a \in {0, 1} /\ b \in {0, 1} /\ c \in {0, 1} /\ d \in {0, 1}
  BY DEF DiedOf
<1>2. finished_offline[p][k] = a + b + c + d
  BY DEF DeadOK
<1>3. a = 0 \/ b = 0 \/ c = 0 \/ d = 0
  <2>1. \A T \in Kinds : T \in {"triples", "squares", "bits"}
    BY Constants DEF AllKinds
  <2> QED
    BY <2>1 DEF DiedOf
<1> HIDE DEF a, b, c, d
<1> QED
  BY <1>1, <1>2, <1>3

\* Every step keeps the types.
LEMMA TypeStep == TypeOK /\ InputsOK /\ TakeOK /\ DeadOK /\ ReadyOK /\ [Next]_vars => TypeOK'
<1> SUFFICES ASSUME TypeOK, InputsOK, TakeOK, DeadOK, ReadyOK, [Next]_vars PROVE TypeOK'
  OBVIOUS
<1>1. ASSUME NEW p \in Players, NEW k \in OnlineThreads, NEW T \in Kinds, Producer(p, k, T)
      PROVE  TypeOK'
  <2>1. /\ Untouched /\ prod' \in PerKind({"check", "size", "produce", "out"})
        /\ made' \in PerKind(Nat) /\ queue' \in PerKind(Nat)
        /\ Moves(p, k, T) \/ Dies(p, k, T) \/ MakesBatch(p, k, T)
    BY <1>1, ProducerSteps
  <2>2. verdict' \in PerKind(Seq({"E", "W", "-"}))
    BY <1>1, VerdictIn
  <2>3. finished_offline' \in PerThread(0 .. 4)
    <3>1. CASE Dies(p, k, T)
      BY <3>1, NotAllDead, DeadChanges DEF Dies
    <3>2. CASE UNCHANGED finished_offline
      BY <3>2 DEF TypeOK
    <3> QED
      BY <2>1, <3>1, <3>2 DEF Moves, MakesBatch
  <2> QED
    BY <2>1, <2>2, <2>3 DEF TypeOK, Untouched, sacrificer, online
<1>2. ASSUME NEW p \in Players, NEW k \in OnlineThreads, Propose(p, k) PROVE TypeOK'
  BY <1>2, ProposeStep DEF TypeOK, producers, online
<1>3. ASSUME NEW p \in Players, NEW k \in OnlineThreads, Collect(p, k) PROVE TypeOK'
  BY <1>3, CollectStep DEF TypeOK, producers, online
<1>4. ASSUME NEW p \in Players, NEW k \in OnlineThreads, MakeIO(p, k) PROVE TypeOK'
  BY <1>4, MakeIOStep DEF TypeOK, producers, online
<1>5. ASSUME NEW p \in Players, NEW k \in OnlineThreads, WaitReady(p, k) PROVE TypeOK'
  BY <1>5, WaitStep DEF TypeOK, producers, online
<1>6. ASSUME NEW p \in Players, NEW k \in OnlineThreads, Sacrifices(p, k) PROVE TypeOK'
  BY <1>6, SacrificeSteps DEF TypeOK, producers, online
<1>7. ASSUME NEW p \in Players, NEW k \in OnlineThreads, EndRound(p, k) PROVE TypeOK'
  <2>1. /\ spc[p][k] # "out"
        /\ ThreadDied(p, k) \/ UNCHANGED finished_offline
        /\ spc' \in PerThread({"propose", "collect", "IO", "triples", "squares",
                               "bits", "end", "exit", "out"})
        /\ finish_offline' \in PerThread(0 .. 1)
        /\ UNCHANGED <<queue, sacrificed, ios, opened_ios, tot, totI, producers,
                       agreed, offer, rounds, online>>
    BY <1>7, EndStep
  <2>2. finished_offline' \in PerThread(0 .. 4)
    <3>1. CASE ThreadDied(p, k)
      BY <2>1, <3>1, NotAllDead, DeadChanges
    <3>2. CASE UNCHANGED finished_offline
      BY <3>2 DEF TypeOK
    <3> QED
      BY <2>1, <3>1, <3>2
  <2> QED
    BY <2>1, <2>2 DEF TypeOK, producers, online
<1>8. ASSUME NEW p \in Players, NEW k \in OnlineThreads, Online(p, k) PROVE TypeOK'
  BY <1>8, OnlineStep DEF TypeOK, producers, sacrificer
<1>9. CASE UNCHANGED vars
  BY <1>9 DEF TypeOK, vars, producers, sacrificer, online
<1> QED
  BY <1>1, <1>2, <1>3, <1>4, <1>5, <1>6, <1>7, <1>8, <1>9, Steps

---------------------------------------------------------------------------
(* The inductive invariant.                                                *)

\* What is on offer was so before the step, or is what p proposes in it.
LEMMA Offers ==
    ASSUME TypeOK, NEW p \in Players, NEW k \in OnlineThreads, Propose(p, k) \/ Collect(p, k)
    PROVE  \A q, r \in Players, j \in OnlineThreads : \A m \in 1 .. Len(offer'[q][r][j]) :
              \/ \E l \in 1 .. Len(offer[q][r][j]) : offer'[q][r][j][m] = offer[q][r][j][l]
              \/ q = p /\ j = k /\ Propose(p, k) /\ offer'[q][r][j][m] = Proposal(p, k)
<1> SUFFICES ASSUME NEW q \in Players, NEW r \in Players, NEW j \in OnlineThreads,
                    NEW m \in 1 .. Len(offer'[q][r][j])
             PROVE  \/ \E l \in 1 .. Len(offer[q][r][j]) : offer'[q][r][j][m] = offer[q][r][j][l]
                    \/ q = p /\ j = k /\ Propose(p, k) /\ offer'[q][r][j][m] = Proposal(p, k)
  OBVIOUS
<1> DEFINE new == offer'[q][r][j]
           old == offer[q][r][j]
<1>1. old \in Seq(Numbers)
  BY Entries
<1>2. CASE new = old
  BY <1>2
<1>3. CASE Propose(p, k) /\ q = p /\ j = k /\ r # p
  <2> DEFINE n == Proposal(p, k)
  <2>1. new = Append(old, n)
    BY <1>3, ProposeStep, SMTT(30)
  <2> HIDE DEF new, old, n
  <2>2. (m \in 1 .. Len(old) /\ new[m] = old[m]) \/ new[m] = n
    BY <1>1, <2>1 DEF new
  <2> QED
    BY <1>3, <2>2 DEF new, old, n
<1>4. CASE Collect(p, k) /\ r = p /\ j = k /\ q # p
  <2>1. old # <<>> /\ new = Tail(old)
    BY <1>4, CollectStep
  <2>2. m \in 1 .. Len(new)
    OBVIOUS
  <2> HIDE DEF new, old
  <2>3. Len(old) \in Nat /\ Len(new) = Len(old) - 1
    BY <1>1, <2>1
  <2>4. m + 1 \in 1 .. Len(old) /\ new[m] = old[m + 1]
    BY <1>1, <2>1, <2>2, <2>3
  <2> QED
    BY <2>4 DEF new, old
<1> QED
  BY <1>2, <1>3, <1>4, ProposeStep, CollectStep

\* What is on offer to j of r from q after a proposal, or a collection.
LEMMA OffersOf ==
    ASSUME TypeOK, NEW p \in Players, NEW k \in OnlineThreads, Propose(p, k) \/ Collect(p, k),
           NEW q \in Players, NEW r \in Players, NEW j \in OnlineThreads,
           NEW m \in 1 .. Len(offer'[q][r][j])
    PROVE  \/ \E l \in 1 .. Len(offer[q][r][j]) : offer'[q][r][j][m] = offer[q][r][j][l]
           \/ j = k /\ Propose(p, k) /\ offer'[q][r][j][m] = Proposal(p, k)
BY Offers

\* Who collects proposes nothing.
LEMMA CollectOffers ==
    ASSUME TypeOK, NEW p \in Players, NEW k \in OnlineThreads, Collect(p, k),
           NEW q \in Players, NEW r \in Players, NEW j \in OnlineThreads,
           NEW m \in 1 .. Len(offer'[q][r][j])
    PROVE  \E l \in 1 .. Len(offer[q][r][j]) : offer'[q][r][j][m] = offer[q][r][j][l]
<1>1. ~Propose(p, k)
  BY DEF Collect, Propose
<1>2. \/ \E l \in 1 .. Len(offer[q][r][j]) : offer'[q][r][j][m] = offer[q][r][j][l]
      \/ j = k /\ Propose(p, k) /\ offer'[q][r][j][m] = Proposal(p, k)
  BY OffersOf
<1> QED
  BY <1>1, <1>2

\* What p collects was agreed by it or offered to it.
LEMMA CollectedFrom ==
    ASSUME TypeOK, NEW p \in Players, NEW k \in OnlineThreads, Collect(p, k),
           NEW n \in Collected(p, k)
    PROVE  \/ n = agreed[p][k]
           \/ \E q \in Players : /\ 1 \in 1 .. Len(offer[q][p][k])
                                 /\ n = offer[q][p][k][1]
<1> SUFFICES ASSUME NEW q \in Players \ {p}, n = Head(offer[q][p][k])
             PROVE  1 \in 1 .. Len(offer[q][p][k]) /\ n = offer[q][p][k][1]
  BY DEF Collected
<1> DEFINE s == offer[q][p][k]
<1>1. s \in Seq(Numbers) /\ s # <<>>
  BY Entries, CollectStep
<1> HIDE DEF s
<1>2. 1 \in 1 .. Len(s) /\ Head(s) = s[1]
  BY <1>1
<1> QED
  BY <1>2 DEF s

\* No inputs are wanted at the start.
LEMMA InputsInit == Init => InputsOK
BY DEF Init, InputsOK, Everywhere, Nothing

\* Every step keeps inputs to thread 0.
LEMMA InputsStep == TypeOK /\ InputsOK /\ TakeOK /\ ReadyOK /\ [Next]_vars => InputsOK'
<1> SUFFICES ASSUME TypeOK, InputsOK, TakeOK, ReadyOK, [Next]_vars PROVE InputsOK'
  OBVIOUS
<1> DEFINE Opened == \A p \in Players : opened_ios[p] = ios[p][p]
           Agreed == \A p \in Players, k \in OnlineThreads \ {0} : agreed[p][k].make_inputs = {}
           Offer  == \A p, q \in Players, k \in OnlineThreads \ {0} :
                        \A n \in 1 .. Len(offer[q][p][k]) : offer[q][p][k][n].make_inputs = {}
<1>1. InputsOK <=> Opened /\ Agreed /\ Offer
  BY DEF InputsOK
<1>2. InputsOK' <=> Opened' /\ Agreed' /\ Offer'
  BY DEF InputsOK
<1> HIDE DEF Opened, Agreed, Offer
<1>3. ASSUME UNCHANGED <<agreed, offer>> PROVE Agreed' /\ Offer'
  BY <1>1, <1>3 DEF Agreed, Offer
<1>4. ASSUME UNCHANGED <<ios, opened_ios>> PROVE Opened'
  BY <1>1, <1>4 DEF Opened
<1>5. ASSUME NEW p \in Players, NEW k \in OnlineThreads, NEW T \in Kinds, Producer(p, k, T)
      PROVE  Opened' /\ Agreed' /\ Offer'
  BY <1>3, <1>4, <1>5, ProducerSteps DEF Untouched, sacrificer
<1>6. ASSUME NEW p \in Players, NEW k \in OnlineThreads, Propose(p, k)
      PROVE  Opened' /\ Agreed' /\ Offer'
  <2>1. Opened'
    BY <1>4, <1>6, ProposeStep
  <2>2. k # 0 => Proposal(p, k).make_inputs = {}
    BY ProposalRight
  <2>3. Agreed'
    BY <1>1, <1>6, <2>2, ProposeStep DEF Agreed, OnlyAt
  <2>4. Offer'
    <3> SUFFICES ASSUME NEW r \in Players, NEW q \in Players, NEW j \in OnlineThreads \ {0},
                        NEW m \in 1 .. Len(offer'[q][r][j])
                 PROVE  offer'[q][r][j][m].make_inputs = {}
      BY DEF Offer
    <3>1. CASE \E l \in 1 .. Len(offer[q][r][j]) : offer'[q][r][j][m] = offer[q][r][j][l]
      BY <1>1, <3>1 DEF Offer
    <3>2. CASE j = k /\ offer'[q][r][j][m] = Proposal(p, k)
      BY <2>2, <3>2
    <3> QED
      BY <1>6, <3>1, <3>2, OffersOf
  <2> QED
    BY <2>1, <2>3, <2>4
<1>7. ASSUME NEW p \in Players, NEW k \in OnlineThreads, Collect(p, k)
      PROVE  Opened' /\ Agreed' /\ Offer'
  <2> DEFINE all == Combined(Collected(p, k))
  <2>1. Opened'
    BY <1>4, <1>7, CollectStep
  <2>2. k # 0 => all.make_inputs = {}
    <3> SUFFICES ASSUME k # 0, NEW i \in all.make_inputs PROVE FALSE
      OBVIOUS
    <3>1. PICK n \in Collected(p, k) : i \in n.make_inputs
      BY <1>7, CollectStep, CombinedRight
    <3>2. n.make_inputs = {}
      BY <1>1, <1>7, CollectedFrom DEF Agreed, Offer
    <3> QED
      BY <3>1, <3>2
  <2>3. Agreed'
    BY <1>1, <1>7, <2>2, CollectStep DEF Agreed, OnlyAt
  <2>4. Offer'
    <3> SUFFICES ASSUME NEW r \in Players, NEW q \in Players, NEW j \in OnlineThreads \ {0},
                        NEW m \in 1 .. Len(offer'[q][r][j])
                 PROVE  offer'[q][r][j][m].make_inputs = {}
      BY DEF Offer
    <3>1. \E l \in 1 .. Len(offer[q][r][j]) : offer'[q][r][j][m] = offer[q][r][j][l]
      BY <1>7, CollectOffers
    <3> QED
      BY <1>1, <3>1 DEF Offer
  <2> QED
    BY <2>1, <2>3, <2>4
<1>8. ASSUME NEW p \in Players, NEW k \in OnlineThreads, MakeIO(p, k)
      PROVE  Opened' /\ Agreed' /\ Offer'
  <2>1. PICK i \in agreed[p][k].make_inputs :
           /\ agreed'[p][k] = [agreed[p][k] EXCEPT !.make_inputs = @ \ {i}]
           /\ ios'[p][i] = ios[p][i] + sz_IO_batch
           /\ \A q, r \in Players : q # p \/ r # i => ios'[q][r] = ios[q][r]
           /\ opened_ios'[p] = opened_ios[p] + IF i = p THEN sz_IO_batch ELSE 0
           /\ \A q \in Players : q # p => opened_ios'[q] = opened_ios[q]
    BY <1>8, MakeIOStep
  <2>2. OnlyAt(agreed', agreed, p, k) /\ UNCHANGED offer
    BY <1>8, MakeIOStep
  <2>3. k = 0
    BY <1>1, <2>1 DEF Agreed
  <2>4. Agreed' /\ Offer'
    <3>1. Agreed'
      BY <1>1, <2>2, <2>3 DEF Agreed, OnlyAt
    <3>2. Offer'
      BY <1>1, <2>2 DEF Offer
    <3> QED
      BY <3>1, <3>2
  <2>5. opened_ios'[p] = ios'[p][p]
    <3>1. opened_ios[p] = ios[p][p] /\ ios[p][p] \in Nat
      BY <1>1, Entries DEF Opened
    <3> QED
      BY <2>1, <3>1
  <2>6. Opened'
    BY <1>1, <2>1, <2>5 DEF Opened
  <2> QED
    BY <2>4, <2>6
<1>9. ASSUME NEW p \in Players, NEW k \in OnlineThreads, WaitReady(p, k)
      PROVE  Opened' /\ Agreed' /\ Offer'
  BY <1>3, <1>4, <1>9, WaitStep
<1>10. ASSUME NEW p \in Players, NEW k \in OnlineThreads, Sacrifices(p, k)
       PROVE  Opened' /\ Agreed' /\ Offer'
  BY <1>3, <1>4, <1>10, SacrificeSteps
<1>11. ASSUME NEW p \in Players, NEW k \in OnlineThreads, EndRound(p, k)
       PROVE  Opened' /\ Agreed' /\ Offer'
  BY <1>3, <1>4, <1>11, EndStep
<1>12. ASSUME NEW p \in Players, NEW k \in OnlineThreads, Online(p, k)
       PROVE  Opened' /\ Agreed' /\ Offer'
  BY <1>3, <1>12, OnlineStep DEF Opened, sacrificer
<1>13. ASSUME UNCHANGED vars PROVE Opened' /\ Agreed' /\ Offer'
  BY <1>3, <1>4, <1>13 DEF vars, sacrificer
<1>14. Opened' /\ Agreed' /\ Offer'
  BY <1>5, <1>6, <1>7, <1>8, <1>9, <1>10, <1>11, <1>12, <1>13, Steps
<1> QED
  BY <1>2, <1>14

\* No thread has died at the start.
LEMMA DeadInit == Init => DeadOK
<1> SUFFICES ASSUME Init, NEW p \in Players, NEW k \in OnlineThreads
             PROVE  finished_offline[p][k] =
                      DiedOf(p, k, "triples") + DiedOf(p, k, "squares") + DiedOf(p, k, "bits")
                        + (IF spc[p][k] = "out" THEN 1 ELSE 0)
  BY DEF DeadOK
<1>1. \A T \in Kinds : prod[p][k][T] = "check"
  BY DEF Init, EveryKind, Everywhere
<1>2. finished_offline[p][k] = 0 /\ spc[p][k] = "propose"
  BY DEF Init, Everywhere
<1> QED
  BY <1>1, <1>2 DEF DiedOf

\* Every step counts the threads that die.
LEMMA DeadStep == TypeOK /\ InputsOK /\ TakeOK /\ DeadOK /\ ReadyOK /\ [Next]_vars => DeadOK'
<1> SUFFICES ASSUME TypeOK, InputsOK, TakeOK, DeadOK, ReadyOK, [Next]_vars PROVE DeadOK'
  OBVIOUS
<1> DEFINE Last(q, j) == IF spc[q][j] = "out" THEN 1 ELSE 0
           Count(q, j) == finished_offline[q][j] =
                            DiedOf(q, j, "triples") + DiedOf(q, j, "squares")
                              + DiedOf(q, j, "bits") + Last(q, j)
<1>1. \A q \in Players, j \in OnlineThreads : Count(q, j)
  BY DEF DeadOK
<1>2. (\A q \in Players, j \in OnlineThreads : Count(q, j)') => DeadOK'
  BY DEF DeadOK
<1>3. \A q \in Players, j \in OnlineThreads :
         /\ Last(q, j) \in {0, 1} /\ finished_offline[q][j] \in Nat
         /\ \A T \in AllKinds : DiedOf(q, j, T) \in {0, 1}
  BY Entries DEF DiedOf
<1> HIDE DEF Last
<1>4. ASSUME NEW p \in Players, NEW k \in OnlineThreads, NEW T \in Kinds, Producer(p, k, T)
      PROVE  DeadOK'
  <2>1. /\ \A q \in Players, j \in OnlineThreads : Last(q, j)' = Last(q, j)
        /\ OnlyKind(prod', prod, p, k, T)
        /\ Moves(p, k, T) \/ Dies(p, k, T) \/ MakesBatch(p, k, T)
    BY <1>4, ProducerSteps DEF Untouched, sacrificer, Last
  <2>2. \A q \in Players, j \in OnlineThreads, U \in AllKinds :
           q # p \/ j # k \/ U # T => DiedOf(q, j, U)' = DiedOf(q, j, U)
    BY <2>1 DEF OnlyKind, DiedOf
  <2>3. CASE Moves(p, k, T) \/ MakesBatch(p, k, T)
    <3>1. prod[p][k][T] # "out" /\ prod'[p][k][T] # "out" /\ UNCHANGED finished_offline
      BY <2>3 DEF Moves, MakesBatch
    <3>2. DiedOf(p, k, T)' = DiedOf(p, k, T)
      BY <3>1 DEF DiedOf
    <3>3. \A q \in Players, j \in OnlineThreads, U \in AllKinds : DiedOf(q, j, U)' = DiedOf(q, j, U)
      BY <2>2, <3>2
    <3>4. \A q \in Players, j \in OnlineThreads : Count(q, j)'
      BY <1>1, <2>1, <3>1, <3>3 DEF AllKinds
    <3> QED
      BY <1>2, <3>4
  <2>4. CASE Dies(p, k, T)
    <3>1. /\ prod[p][k][T] # "out" /\ prod'[p][k][T] = "out"
          /\ finished_offline'[p][k] = finished_offline[p][k] + 1
          /\ OnlyAt(finished_offline', finished_offline, p, k)
      BY <2>4, DeadChanges DEF Dies
    <3>2. DiedOf(p, k, T) = 0 /\ DiedOf(p, k, T)' = 1
      BY <3>1 DEF DiedOf
    <3>3. \A q \in Players, j \in OnlineThreads : q # p \/ j # k => Count(q, j)'
      BY <1>1, <2>1, <2>2, <3>1 DEF AllKinds, OnlyAt
    <3>4. Count(p, k)'
      BY <1>1, <1>3, <2>1, <2>2, <3>1, <3>2, Constants DEF AllKinds
    <3> QED
      BY <1>2, <3>3, <3>4
  <2> QED
    BY <2>1, <2>3, <2>4
<1>5. ASSUME NEW p \in Players, NEW k \in OnlineThreads, UNCHANGED producers,
             UNCHANGED finished_offline, spc[p][k] # "out", spc'[p][k] # "out",
             OnlyAt(spc', spc, p, k)
      PROVE  DeadOK'
  <2>1. \A q \in Players, j \in OnlineThreads :
           /\ Last(q, j)' = Last(q, j)
           /\ \A U \in AllKinds : DiedOf(q, j, U)' = DiedOf(q, j, U)
    BY <1>5 DEF Last, DiedOf, OnlyAt, producers
  <2>2. \A q \in Players, j \in OnlineThreads : Count(q, j)'
    BY <1>1, <1>5, <2>1 DEF AllKinds
  <2> QED
    BY <1>2, <2>2
<1>6. ASSUME UNCHANGED <<prod, finished_offline, spc>> PROVE DeadOK'
  BY <1>6 DEF DeadOK, DiedOf
<1>7. ASSUME NEW p \in Players, NEW k \in OnlineThreads, Propose(p, k) PROVE DeadOK'
  BY <1>5, <1>7, ProposeStep
<1>8. ASSUME NEW p \in Players, NEW k \in OnlineThreads, Collect(p, k) PROVE DeadOK'
  BY <1>5, <1>8, CollectStep DEF AfterCollect
<1>9. ASSUME NEW p \in Players, NEW k \in OnlineThreads, MakeIO(p, k) PROVE DeadOK'
  BY <1>6, <1>9, MakeIOStep DEF producers
<1>10. ASSUME NEW p \in Players, NEW k \in OnlineThreads, WaitReady(p, k) PROVE DeadOK'
  BY <1>5, <1>10, WaitStep
<1>11. ASSUME NEW p \in Players, NEW k \in OnlineThreads, Sacrifices(p, k) PROVE DeadOK'
  <2>1. /\ spc[p][k] \in AllKinds /\ spc'[p][k] # "out" /\ OnlyAt(spc', spc, p, k)
        /\ UNCHANGED <<finished_offline, producers>>
    BY <1>11, SacrificeSteps DEF After
  <2> QED
    BY <1>5, <2>1 DEF AllKinds
<1>12. ASSUME NEW p \in Players, NEW k \in OnlineThreads, EndRound(p, k) PROVE DeadOK'
  <2>1. /\ spc[p][k] \in {"end", "exit"} /\ OnlyAt(spc', spc, p, k)
        /\ \/ spc'[p][k] = "out" /\ ThreadDied(p, k)
           \/ spc'[p][k] = "propose" /\ UNCHANGED finished_offline
        /\ UNCHANGED producers
    BY <1>12, EndStep
  <2>2. CASE spc'[p][k] = "out" /\ ThreadDied(p, k)
    <3>1. /\ finished_offline'[p][k] = finished_offline[p][k] + 1
          /\ OnlyAt(finished_offline', finished_offline, p, k)
      BY <2>2, DeadChanges
    <3>2. Last(p, k) = 0 /\ Last(p, k)' = 1
      BY <2>1, <2>2 DEF Last
    <3>3. \A q \in Players, j \in OnlineThreads :
             /\ q # p \/ j # k => Last(q, j)' = Last(q, j)
             /\ \A U \in AllKinds : DiedOf(q, j, U)' = DiedOf(q, j, U)
      BY <2>1 DEF Last, DiedOf, OnlyAt, producers
    <3>4. \A q \in Players, j \in OnlineThreads : q # p \/ j # k => Count(q, j)'
      BY <1>1, <3>1, <3>3 DEF AllKinds, OnlyAt
    <3>5. Count(p, k)'
      BY <1>1, <1>3, <3>1, <3>2, <3>3 DEF AllKinds
    <3> QED
      BY <1>2, <3>4, <3>5
  <2>3. CASE spc'[p][k] = "propose" /\ UNCHANGED finished_offline
    BY <1>5, <2>1, <2>3
  <2> QED
    BY <2>1, <2>2, <2>3
<1>13. ASSUME NEW p \in Players, NEW k \in OnlineThreads, Online(p, k) PROVE DeadOK'
  BY <1>6, <1>13, OnlineStep DEF producers, sacrificer
<1>14. CASE UNCHANGED vars
  BY <1>6, <1>14 DEF vars, producers, sacrificer
<1> QED
  BY <1>4, <1>7, <1>8, <1>9, <1>10, <1>11, <1>12, <1>13, <1>14, Steps

\* No exit has been signalled at the start.
LEMMA CauseInit == Init => CauseOK
BY DEF Init, CauseOK, Everywhere, Nothing

\* Every step gives the exit signal for a cause only.
LEMMA CauseStep == TypeOK /\ InputsOK /\ TakeOK /\ ReadyOK /\ CauseOK /\ [Next]_vars => CauseOK'
<1> SUFFICES ASSUME TypeOK, InputsOK, TakeOK, ReadyOK, CauseOK, [Next]_vars PROVE CauseOK'
  OBVIOUS
<1> DEFINE Agreed == \A p \in Players, k \in OnlineThreads : agreed[p][k].nm = -1 => Cause(k)
           Offer  == \A p, q \in Players, k \in OnlineThreads : \A n \in 1 .. Len(offer[q][p][k]) :
                        offer[q][p][k][n].nm = -1 => Cause(k)
           Gone   == \A p \in Players, k \in OnlineThreads :
                        spc[p][k] \in {"exit", "out"} => Cause(k)
           Grows  == \A k \in OnlineThreads : Cause(k) => Cause(k)'
<1>1. CauseOK <=> Agreed /\ Offer /\ Gone
  BY DEF CauseOK
<1>2. CauseOK' <=> Agreed' /\ Offer' /\ Gone'
  BY DEF CauseOK
<1>3. ASSUME \A q \in Players, j \in OnlineThreads :
                finish_offline[q][j] = 1 => finish_offline'[q][j] = 1
      PROVE  Grows
  BY <1>3 DEF Cause
<1>4. UNCHANGED finish_offline => Grows
  BY DEF Cause
<1> HIDE DEF Agreed, Offer, Gone, Grows
<1>5. ASSUME Grows, UNCHANGED <<agreed, offer>> PROVE Agreed' /\ Offer'
  <2>1. Agreed'
    BY <1>1, <1>5 DEF Agreed, Grows
  <2>2. Offer'
    BY <1>1, <1>5 DEF Offer, Grows
  <2> QED
    BY <2>1, <2>2
<1>6. ASSUME Grows, NEW p \in Players, NEW k \in OnlineThreads, OnlyAt(spc', spc, p, k),
             spc'[p][k] \in {"exit", "out"} => Cause(k)'
      PROVE  Gone'
  <2> SUFFICES ASSUME NEW q \in Players, NEW j \in OnlineThreads, spc'[q][j] \in {"exit", "out"}
               PROVE  Cause(j)'
    BY DEF Gone
  <2>1. CASE q = p /\ j = k
    BY <1>6, <2>1
  <2>2. CASE q # p \/ j # k
    <3>1. Cause(j)
      BY <1>1, <1>6, <2>2 DEF Gone, OnlyAt
    <3> QED
      BY <1>6, <3>1 DEF Grows
  <2> QED
    BY <2>1, <2>2
<1>7. ASSUME Grows, UNCHANGED spc PROVE Gone'
  BY <1>1, <1>7 DEF Gone, Grows
<1>8. ASSUME NEW p \in Players, NEW k \in OnlineThreads, NEW T \in Kinds, Producer(p, k, T)
      PROVE  Agreed' /\ Offer' /\ Gone'
  BY <1>4, <1>5, <1>7, <1>8, ProducerSteps DEF Untouched, sacrificer
<1>9. ASSUME NEW p \in Players, NEW k \in OnlineThreads, Propose(p, k)
      PROVE  Agreed' /\ Offer' /\ Gone'
  <2>1. Grows
    BY <1>4, <1>9, ProposeStep
  <2>2. Proposal(p, k).nm = -1 => Cause(k)'
    <3>1. Proposal(p, k).nm = -1 => Cause(k)
      BY ProposalRight DEF Cause
    <3> QED
      BY <2>1, <3>1 DEF Grows
  <2>3. Agreed'
    BY <1>1, <1>9, <2>1, <2>2, ProposeStep DEF Agreed, Grows, OnlyAt
  <2>4. Offer'
    <3> SUFFICES ASSUME NEW r \in Players, NEW q \in Players, NEW j \in OnlineThreads,
                        NEW m \in 1 .. Len(offer'[q][r][j]), offer'[q][r][j][m].nm = -1
                 PROVE  Cause(j)'
      BY DEF Offer
    <3>1. CASE \E l \in 1 .. Len(offer[q][r][j]) : offer'[q][r][j][m] = offer[q][r][j][l]
      BY <1>1, <2>1, <3>1 DEF Offer, Grows
    <3>2. CASE j = k /\ offer'[q][r][j][m] = Proposal(p, k)
      BY <2>2, <3>2
    <3> QED
      BY <1>9, <3>1, <3>2, OffersOf
  <2>5. Gone'
    BY <1>6, <1>9, <2>1, ProposeStep
  <2> QED
    BY <2>3, <2>4, <2>5
<1>10. ASSUME NEW p \in Players, NEW k \in OnlineThreads, Collect(p, k)
       PROVE  Agreed' /\ Offer' /\ Gone'
  <2> DEFINE all == Combined(Collected(p, k))
  <2>1. Grows
    BY <1>4, <1>10, CollectStep
  <2>2. all.nm = -1 => Cause(k)'
    <3> SUFFICES ASSUME all.nm = -1 PROVE Cause(k)'
      OBVIOUS
    <3>1. PICK n \in Collected(p, k) : all.nm = n.nm
      BY <1>10, CollectStep, CombinedRight
    <3>2. Cause(k)
      BY <1>1, <1>10, <3>1, CollectedFrom DEF Agreed, Offer
    <3> QED
      BY <2>1, <3>2 DEF Grows
  <2>3. Agreed'
    BY <1>1, <1>10, <2>1, <2>2, CollectStep DEF Agreed, Grows, OnlyAt
  <2>4. Offer'
    <3> SUFFICES ASSUME NEW r \in Players, NEW q \in Players, NEW j \in OnlineThreads,
                        NEW m \in 1 .. Len(offer'[q][r][j]), offer'[q][r][j][m].nm = -1
                 PROVE  Cause(j)'
      BY DEF Offer
    <3>1. \E l \in 1 .. Len(offer[q][r][j]) : offer'[q][r][j][m] = offer[q][r][j][l]
      BY <1>10, CollectOffers
    <3> QED
      BY <1>1, <2>1, <3>1 DEF Offer, Grows
  <2>5. Gone'
    <3>1. spc'[p][k] \in {"exit", "out"} => all.nm = -1
      BY <1>10, CollectStep DEF AfterCollect
    <3>2. OnlyAt(spc', spc, p, k)
      BY <1>10, CollectStep
    <3> QED
      BY <1>6, <2>1, <2>2, <3>1, <3>2
  <2> QED
    BY <2>3, <2>4, <2>5
<1>11. ASSUME NEW p \in Players, NEW k \in OnlineThreads, MakeIO(p, k)
       PROVE  Agreed' /\ Offer' /\ Gone'
  <2>2. OnlyAt(agreed', agreed, p, k) /\ UNCHANGED <<offer, spc, finish_offline>>
    BY <1>11, MakeIOStep
  <2>3. agreed'[p][k].nm = agreed[p][k].nm
    BY <1>11, MakeIOKeeps
  <2>4. Grows
    BY <1>4, <2>2
  <2>5. Agreed'
    BY <1>1, <2>2, <2>3, <2>4 DEF Agreed, Grows, OnlyAt
  <2>6. Offer'
    BY <1>1, <2>2, <2>4 DEF Offer, Grows
  <2> QED
    BY <1>7, <2>2, <2>4, <2>5, <2>6
<1>12. ASSUME NEW p \in Players, NEW k \in OnlineThreads, WaitReady(p, k)
       PROVE  Agreed' /\ Offer' /\ Gone'
  BY <1>4, <1>5, <1>6, <1>12, WaitStep
<1>13. ASSUME NEW p \in Players, NEW k \in OnlineThreads, Sacrifices(p, k)
       PROVE  Agreed' /\ Offer' /\ Gone'
  <2>1. /\ spc'[p][k] \notin {"exit", "out"} /\ OnlyAt(spc', spc, p, k)
        /\ UNCHANGED <<agreed, offer, finish_offline>>
    BY <1>13, SacrificeSteps DEF After
  <2> QED
    BY <1>4, <1>5, <1>6, <2>1
<1>14. ASSUME NEW p \in Players, NEW k \in OnlineThreads, EndRound(p, k)
       PROVE  Agreed' /\ Offer' /\ Gone'
  <2>1. /\ \/ spc'[p][k] = "out" /\ (spc[p][k] = "exit" \/ EnoughData(p, k))
           \/ spc'[p][k] = "propose"
        /\ EnoughData(p, k) => finish_offline'[p][k] = 1
        /\ OnlyAt(spc', spc, p, k) /\ UNCHANGED <<agreed, offer>>
    BY <1>14, EndStep
  <2>2. Grows
    BY <1>3, <1>14, EndStep
  <2>3. spc'[p][k] \in {"exit", "out"} => Cause(k)'
    <3>1. CASE spc[p][k] = "exit"
      BY <1>1, <2>2, <3>1 DEF Gone, Grows
    <3>2. CASE EnoughData(p, k)
      BY <2>1, <3>2 DEF Cause
    <3> QED
      BY <2>1, <3>1, <3>2
  <2> QED
    BY <1>5, <1>6, <2>1, <2>2, <2>3
<1>15. ASSUME NEW p \in Players, NEW k \in OnlineThreads, Online(p, k)
       PROVE  Agreed' /\ Offer' /\ Gone'
  <2>1. UNCHANGED <<spc, agreed, offer>>
    BY <1>15, OnlineStep DEF sacrificer
  <2>2. Grows
    BY <1>3, <1>15, OnlineStep
  <2> QED
    BY <1>5, <1>7, <2>1, <2>2
<1>16. ASSUME UNCHANGED vars PROVE Agreed' /\ Offer' /\ Gone'
  BY <1>4, <1>5, <1>7, <1>16 DEF vars, sacrificer
<1>17. Agreed' /\ Offer' /\ Gone'
  BY <1>8, <1>9, <1>10, <1>11, <1>12, <1>13, <1>14, <1>15, <1>16, Steps
<1> QED
  BY <1>2, <1>17

---------------------------------------------------------------------------
(* What was made stays, until the online thread it is for takes it.        *)

\* There is no less of anything that was made.
NoLessMade ==
    /\ NoLess(sacrificed', sacrificed) /\ NoLess(tot', tot)
    /\ \A q \in Players : totI'[q] >= totI[q]
    /\ \A q, r \in Players : ios'[q][r] >= ios[q][r]

\* When nothing changes there is no less.
LEMMA SameIsNoLess ==
    ASSUME TypeOK, UNCHANGED <<sacrificed, tot, totI, ios>>
    PROVE  NoLessMade
<1>1. /\ \A q \in Players, j \in OnlineThreads, X \in Kinds :
            sacrificed[q][j][X] \in Nat /\ tot[q][j][X] \in Nat
      /\ \A q \in Players : totI[q] \in Nat
      /\ \A q, r \in Players : ios[q][r] \in Nat
  BY DEF TypeOK, PerKind, PerThread
<1> QED
  BY <1>1 DEF NoLessMade, NoLess

\* Making inputs makes no less of them.
LEMMA MakeIOMore ==
    ASSUME TypeOK, NEW p \in Players, NEW k \in OnlineThreads, MakeIO(p, k)
    PROVE  NoLessMade
<1>1. PICK i \in agreed[p][k].make_inputs :
         /\ agreed'[p][k] = [agreed[p][k] EXCEPT !.make_inputs = @ \ {i}]
         /\ totI'[p] = totI[p] + sz_IO_batch
         /\ \A q \in Players : q # p => totI'[q] = totI[q]
         /\ totI' \in [Players -> Nat]
         /\ ios'[p][i] = ios[p][i] + sz_IO_batch
         /\ \A q, r \in Players : q # p \/ r # i => ios'[q][r] = ios[q][r]
         /\ ios' \in [Players -> [Players -> Nat]]
         /\ opened_ios'[p] = opened_ios[p] + IF i = p THEN sz_IO_batch ELSE 0
         /\ \A q \in Players : q # p => opened_ios'[q] = opened_ios[q]
         /\ opened_ios' \in [Players -> Nat]
  BY MakeIOStep
<1>2. /\ \A q \in Players, j \in OnlineThreads, X \in Kinds :
            sacrificed[q][j][X] \in Nat /\ tot[q][j][X] \in Nat
      /\ \A q \in Players : totI[q] \in Nat
      /\ \A q, r \in Players : ios[q][r] \in Nat
  BY DEF TypeOK, PerKind, PerThread
<1>3. NoLess(sacrificed', sacrificed) /\ NoLess(tot', tot)
  BY <1>2, MakeIOStep DEF NoLess
<1>4. \A q \in Players : totI'[q] >= totI[q]
  BY <1>1, <1>2, Constants
<1>5. \A q, r \in Players : ios'[q][r] >= ios[q][r]
  <2> TAKE q, r \in Players
  <2>1. CASE q = p /\ r = i
    BY <1>1, <1>2, <2>1, Constants
  <2>2. CASE q # p \/ r # i
    BY <1>1, <1>2, <2>2
  <2> QED
    BY <2>1, <2>2
<1> QED
  BY <1>3, <1>4, <1>5 DEF NoLessMade

\* Part of a round makes no less of what it checks.
LEMMA SacrificesMore ==
    ASSUME TypeOK, ReadyOK, NEW p \in Players, NEW k \in OnlineThreads, Sacrifices(p, k)
    PROVE  NoLessMade
<1>1. PICK T \in AllKinds :
         /\ spc[p][k] = T
         /\ T \in Kinds => tot'[p][k][T] = tot[p][k][T] + Keeps(agreed[p][k], T)
         /\ \A q \in Players, j \in OnlineThreads, X \in Kinds :
               X # T => tot'[q][j][X] = tot[q][j][X]
         /\ OnlyAt(tot', tot, p, k) /\ NoLess(sacrificed', sacrificed)
         /\ UNCHANGED <<ios, totI>>
  BY SacrificeSteps
<1>2. /\ \A q \in Players, j \in OnlineThreads, X \in Kinds : tot[q][j][X] \in Nat
      /\ \A q \in Players : totI[q] \in Nat
      /\ \A q, r \in Players : ios[q][r] \in Nat
  BY DEF TypeOK, PerKind, PerThread
<1> DEFINE n == agreed[p][k]
           kept == Keeps(n, T)
<1>3. kept \in Nat
  <2>1. n \in Numbers
    BY Entries
  <2>2. n.ns \in Nat /\ n.nb \in Nat /\ (n.nm # -1 => n.nm \in Nat)
    BY <2>1, NumbersAre
  <2>3. n.nm \in Nat
    BY <1>1, <2>2 DEF ReadyOK, InRound, AllKinds
  <2> HIDE DEF n
  <2> QED
    BY <2>2, <2>3, KeptRight DEF Keeps
<1>4. NoLess(tot', tot)
  <2> SUFFICES ASSUME NEW q \in Players, NEW j \in OnlineThreads, NEW X \in Kinds
               PROVE  tot'[q][j][X] >= tot[q][j][X]
    BY DEF NoLess
  <2> HIDE DEF kept
  <2>1. CASE q = p /\ j = k /\ X = T
    <3>1. tot'[p][k][T] = tot[p][k][T] + kept
      BY <1>1, <2>1 DEF kept
    <3> QED
      BY <1>2, <1>3, <2>1, <3>1
  <2>2. CASE q # p \/ j # k \/ X # T
    BY <1>1, <1>2, <2>2 DEF OnlyAt
  <2> QED
    BY <2>1, <2>2
<1>5. /\ \A q \in Players : totI'[q] >= totI[q]
      /\ \A q, r \in Players : ios'[q][r] >= ios[q][r]
  BY <1>1, <1>2
<1> QED
  BY <1>1, <1>4, <1>5 DEF NoLessMade

\* Only an online thread makes less of what was made, and never of tot.
LEMMA StillMade ==
    ASSUME TypeOK, ReadyOK, [Next]_vars,
           \A p \in Players, k \in OnlineThreads : ~Online(p, k)
    PROVE  NoLessMade /\ UNCHANGED online
<1>1. ASSUME NEW p \in Players, NEW k \in OnlineThreads, NEW T \in Kinds, Producer(p, k, T)
      PROVE  NoLessMade /\ UNCHANGED online
  BY <1>1, ProducerSteps, SameIsNoLess DEF Untouched
<1>2. ASSUME NEW p \in Players, NEW k \in OnlineThreads, Propose(p, k)
      PROVE  NoLessMade /\ UNCHANGED online
  BY <1>2, ProposeStep, SameIsNoLess
<1>3. ASSUME NEW p \in Players, NEW k \in OnlineThreads, Collect(p, k)
      PROVE  NoLessMade /\ UNCHANGED online
  BY <1>3, CollectStep, SameIsNoLess
<1>4. ASSUME NEW p \in Players, NEW k \in OnlineThreads, MakeIO(p, k)
      PROVE  NoLessMade /\ UNCHANGED online
  BY <1>4, MakeIOStep, MakeIOMore
<1>5. ASSUME NEW p \in Players, NEW k \in OnlineThreads, WaitReady(p, k)
      PROVE  NoLessMade /\ UNCHANGED online
  BY <1>5, WaitStep, SameIsNoLess
<1>6. ASSUME NEW p \in Players, NEW k \in OnlineThreads, Sacrifices(p, k)
      PROVE  NoLessMade /\ UNCHANGED online
  BY <1>6, SacrificeSteps, SacrificesMore
<1>7. ASSUME NEW p \in Players, NEW k \in OnlineThreads, EndRound(p, k)
      PROVE  NoLessMade /\ UNCHANGED online
  BY <1>7, EndStep, SameIsNoLess
<1>8. ASSUME UNCHANGED vars PROVE NoLessMade /\ UNCHANGED online
  BY <1>8, SameIsNoLess DEF vars
<1> QED
  BY <1>1, <1>2, <1>3, <1>4, <1>5, <1>6, <1>7, <1>8, Steps

\* Nothing is being taken at the start.
LEMMA TakeInit == Init => TakeOK
BY DEF Init, TakeOK, Everywhere

\* What was seen stays until it is taken.
LEMMA TakeKept ==
    TypeOK /\ TakeOK /\ ReadyOK /\ TypeOK' /\ [Next]_vars => TakeOK'
<1> SUFFICES ASSUME TypeOK, TakeOK, ReadyOK, TypeOK', [Next]_vars,
                    NEW q \in Players, NEW j \in OnlineThreads, opc'[q][j] = "take"
             PROVE  /\ More(q, j)'
                    /\ Instr(q, j)'.kind \in Kinds =>
                          sacrificed'[q][j][Instr(q, j)'.kind] >= Instr(q, j)'.size
                    /\ Instr(q, j)'.kind = "IO" => j = 0 /\ ios'[q][Instr(q, j)'.player] >= 1
  BY DEF TakeOK
<1> DEFINE I == Instr(q, j)
<1>1. opc[q][j] = "take" =>
         /\ More(q, j) /\ (I.kind \in Kinds => sacrificed[q][j][I.kind] >= I.size)
         /\ I.kind = "IO" => j = 0 /\ ios[q][I.player] >= 1
  BY DEF TakeOK
<1>2. /\ More(q, j) /\ I.kind \in Kinds => I.size \in Nat
      /\ More(q, j) /\ I.kind = "IO" => I.player \in Players
  BY InstrIn
<1>3. /\ \A X \in Kinds : sacrificed[q][j][X] \in Nat /\ sacrificed'[q][j][X] \in Nat
      /\ \A r \in Players : ios[q][r] \in Nat /\ ios'[q][r] \in Nat
  BY DEF TypeOK, PerKind, PerThread
<1>4. UNCHANGED <<opc[q][j], pos[q][j]>> => /\ More(q, j)' <=> More(q, j)
                                           /\ I' = I
  BY DEF More, Instr
<1> HIDE DEF I
<1>5. CASE \A p \in Players, k \in OnlineThreads : ~Online(p, k)
  <2>1. UNCHANGED <<opc[q][j], pos[q][j]>>
    BY <1>5, StillMade DEF online
  <2>2. opc[q][j] = "take" /\ More(q, j) /\ More(q, j)' /\ I' = I
    BY <1>1, <1>4, <2>1
  <2>3. /\ \A X \in Kinds : sacrificed'[q][j][X] >= sacrificed[q][j][X]
        /\ \A r \in Players : ios'[q][r] >= ios[q][r]
    BY <1>5, StillMade DEF NoLessMade, NoLess
  <2>4. ASSUME I.kind \in Kinds PROVE sacrificed'[q][j][I.kind] >= I.size
    BY <1>1, <1>2, <1>3, <2>2, <2>3, <2>4
  <2>5. ASSUME I.kind = "IO" PROVE j = 0 /\ ios'[q][I.player] >= 1
    BY <1>1, <1>2, <1>3, <2>2, <2>3, <2>5
  <2> QED
    BY <2>2, <2>4, <2>5 DEF I
<1>6. CASE \E p \in Players, k \in OnlineThreads : Online(p, k)
  <2>1. PICK p \in Players, k \in OnlineThreads : Online(p, k)
    BY <1>6
  <2>2. /\ opc \in [Players -> [OnlineThreads -> {"wait", "run", "take", "dead"}]]
        /\ pos \in [Players -> [OnlineThreads -> Nat \ {0}]]
        /\ sacrificed \in [Players -> [OnlineThreads -> [Kinds -> Nat]]]
        /\ ios \in [Players -> [Players -> Nat]]
    BY DEF TypeOK, PerThread, PerKind
  <2>3. CASE q # p \/ j # k
    <3>1. /\ \E pc : opc' = [opc EXCEPT ![p][k] = pc]
          /\ pos' = pos \/ pos' = [pos EXCEPT ![p][k] = pos[p][k] + 1]
      BY <2>1 DEF Online, StartOnline, EndOnline, WaitSacrificed, TakeSacrificed,
                  IO_Data_Wait, TakeIO, OnlineGoes
    <3>2. UNCHANGED <<opc[q][j], pos[q][j]>>
      BY <2>2, <2>3, <3>1
    <3>3. opc[q][j] = "take" /\ More(q, j) /\ More(q, j)' /\ I' = I
      BY <1>1, <1>4, <3>2
    <3>4. sacrificed'[q][j] = sacrificed[q][j]
      <4>1. CASE TakeSacrificed(p, k)
        BY <2>2, <2>3, <4>1 DEF TakeSacrificed
      <4>2. CASE ~TakeSacrificed(p, k)
        BY <2>1, <4>2 DEF Online, StartOnline, EndOnline, WaitSacrificed, IO_Data_Wait, TakeIO
      <4> QED
        BY <4>1, <4>2
    <3>5. ASSUME I.kind = "IO" PROVE ios'[q] = ios[q]
      <4>1. CASE TakeIO(p, k)
        <5>1. k = 0
          BY <4>1 DEF TakeIO, TakeOK
        <5>2. q # p
          BY <1>1, <2>3, <3>3, <3>5, <5>1
        <5> QED
          BY <2>2, <4>1, <5>2 DEF TakeIO
      <4>2. CASE ~TakeIO(p, k)
        BY <2>1, <4>2 DEF Online, StartOnline, EndOnline, WaitSacrificed, IO_Data_Wait,
                          TakeSacrificed
      <4> QED
        BY <4>1, <4>2
    <3> QED
      BY <1>1, <3>3, <3>4, <3>5 DEF I
  <2>4. CASE q = p /\ j = k
    <3>1. WaitSacrificed(q, j) \/ IO_Data_Wait(q, j)
      <4>1. ASSUME NEW pc, OnlineGoes(q, j, pc) PROVE opc'[q][j] = pc
        BY <2>2, <4>1 DEF OnlineGoes
      <4> QED
        BY <2>1, <2>4, <4>1 DEF Online, StartOnline, EndOnline, TakeSacrificed, TakeIO
    <3>2. /\ pos' = pos /\ ios' = ios /\ sacrificed' = sacrificed /\ More(q, j)
          /\ \/ I.kind \in Kinds /\ sacrificed[q][j][I.kind] >= I.size
             \/ I.kind = "IO" /\ j = 0 /\ ios[q][I.player] >= 1
      BY <3>1 DEF WaitSacrificed, IO_Data_Wait, I
    <3>3. More(q, j)' /\ I' = I
      BY <3>2 DEF More, Instr, I
    <3>4. I.kind \in Kinds => I.kind # "IO"
      BY Constants DEF AllKinds
    <3> QED
      BY <3>2, <3>3, <3>4 DEF I
  <2> QED
    BY <2>3, <2>4
<1> QED
  BY <1>5, <1>6

\* Nobody was told to finish at the start.
LEMMA LeaveInit == Init => LeaveOK
BY DEF Init, LeaveOK, EveryKind, Everywhere

\* What is enough stays enough.
LEMMA StillUnneeded ==
    ASSUME TypeOK, TypeOK', NoLess(tot', tot), \A q \in Players : totI'[q] >= totI[q],
           NEW q \in Players, NEW j \in OnlineThreads, Unneeded(q, j),
           opc[q][j] = "dead" => opc'[q][j] = "dead"
    PROVE  Unneeded(q, j)'
<1>1. /\ \A X \in Kinds : /\ tot[q][j][X] \in Nat /\ tot'[q][j][X] \in Nat
                          /\ max[X] \in Nat
      /\ totI[q] \in Nat /\ totI'[q] \in Nat /\ maxI \in Nat
  BY Constants, SizesAssumption DEF TypeOK, PerKind, PerThread
<1>2. CASE EnoughData(q, j)
  <2>1. ASSUME NEW X \in Kinds PROVE Over(q, j, X)'
    <3>1. max[X] # 0 /\ tot[q][j][X] > max[X] /\ tot'[q][j][X] >= tot[q][j][X]
      BY <1>2 DEF EnoughData, Over, NoLess
    <3>2. tot'[q][j][X] > max[X]
      BY <1>1, <3>1
    <3> QED
      BY <3>1, <3>2 DEF Over
  <2>2. totI'[q] > maxI
    <3>1. totI[q] > maxI /\ totI'[q] >= totI[q]
      BY <1>2 DEF EnoughData
    <3> QED
      BY <1>1, <3>1
  <2> QED
    BY <2>1, <2>2 DEF EnoughData, Unneeded
<1> QED
  BY <1>2 DEF Unneeded

\* A producer is told to end only when player 0 was, and ends only when told.
LEMMA ProducerTold ==
    ASSUME TypeOK, LeaveOK, NEW p \in Players, NEW k \in OnlineThreads, NEW T \in Kinds,
           Producer(p, k, T), NEW q \in Players, NEW j \in OnlineThreads, NEW U \in Kinds
    PROVE  /\ prod'[q][j][U] = "out" => finish_offline[0][j] = 1
           /\ \A n \in 1 .. Len(verdict'[q][j][U]) :
                 verdict'[q][j][U][n] = "E" => finish_offline[0][j] = 1
<1> DEFINE old == verdict[q][j][U]
           Out == prod'[q][j][U] = "out" => finish_offline[0][j] = 1
           Told(s) == \A n \in 1 .. Len(s) : s[n] = "E" => finish_offline[0][j] = 1
<1>1. /\ verdict \in [Players -> [OnlineThreads -> [Kinds -> Seq({"E", "W", "-"})]]]
      /\ old \in Seq({"E", "W", "-"})
  <2>1. verdict \in [Players -> [OnlineThreads -> [Kinds -> Seq({"E", "W", "-"})]]]
    BY DEF TypeOK, PerKind, PerThread
  <2> QED
    BY <2>1
<1>2. Told(old) /\ (prod[q][j][U] = "out" => finish_offline[0][j] = 1)
  BY DEF LeaveOK
<1>3. ASSUME NEW pc \in {"check", "size", "produce", "out"}, ProducerGoes(p, k, T, pc),
             pc = "out" => finish_offline[0][k] = 1
      PROVE  Out
  <2>1. prod'[p][k][T] = pc /\ OnlyKind(prod', prod, p, k, T)
    BY <1>3, ProducerChanges
  <2> QED
    BY <1>2, <1>3, <2>1 DEF OnlyKind
<1>4. ASSUME NEW m \in {"E", "W", "-"}, TellOthers(k, T, m),
             m = "E" => finish_offline[0][k] = 1
      PROVE  Told(verdict'[q][j][U])
  <2>1. \/ verdict'[q][j][U] = old
        \/ j = k /\ verdict'[q][j][U] = Append(old, m)
    BY <1>1, <1>4 DEF TellOthers
  <2>2. CASE j = k /\ verdict'[q][j][U] = Append(old, m)
    <3> TAKE n \in 1 .. Len(verdict'[q][j][U])
    <3>1. \/ n \in 1 .. Len(old) /\ Append(old, m)[n] = old[n]
          \/ Append(old, m)[n] = m
      BY <1>1, <2>2
    <3> QED
      BY <1>2, <1>4, <2>2, <3>1
  <2> QED
    BY <1>2, <2>1, <2>2
<1>5. UNCHANGED verdict => Told(verdict'[q][j][U])
  BY <1>2
<1> HIDE DEF Told, Out
<1>6. CASE CheckExit0(k, T) /\ p = 0
  BY <1>3, <1>4, <1>5, <1>6 DEF CheckExit0, Out, Told
<1>7. CASE CheckSize0(k, T) /\ p = 0
  BY <1>3, <1>4, <1>7 DEF CheckSize0, Out, Told
<1>8. CASE CheckExitOther(p, k, T)
  <2> DEFINE s == verdict[p][k][T]
  <2>1. /\ s # <<>> /\ verdict' = [verdict EXCEPT ![p][k][T] = Tail(s)]
        /\ \/ Head(s) = "E" /\ ProducerGoes(p, k, T, "out")
           \/ UNCHANGED prod
           \/ ProducerGoes(p, k, T, "produce")
    BY <1>8 DEF CheckExitOther
  <2>2. s \in Seq({"E", "W", "-"})
    BY <1>1
  <2>3. Head(s) = "E" => finish_offline[0][k] = 1
    <3>1. 1 \in 1 .. Len(s) /\ Head(s) = s[1]
      BY <2>1, <2>2
    <3> QED
      BY <3>1 DEF LeaveOK
  <2>4. Out
    <3>1. UNCHANGED prod => Out
      BY <1>2 DEF Out
    <3> QED
      BY <1>3, <2>1, <2>3, <3>1
  <2>5. verdict'[q][j][U] = old \/ (old # <<>> /\ verdict'[q][j][U] = Tail(old))
    BY <1>1, <2>1
  <2>6. old # <<>> => Told(Tail(old))
    BY <1>1, <1>2 DEF Told
  <2> QED
    BY <1>2, <2>4, <2>5, <2>6 DEF Out, Told
<1>9. CASE Produce(p, k, T)
  BY <1>3, <1>5, <1>9 DEF Produce, Out, Told
<1> QED
  BY <1>6, <1>7, <1>8, <1>9 DEF Producer

\* Who is told to finish is not needed, and no step makes it needed again.
LEMMA LeaveStep ==
    TypeOK /\ InputsOK /\ TakeOK /\ ReadyOK /\ LeaveOK /\ TypeOK' /\ [Next]_vars => LeaveOK'
<1> SUFFICES ASSUME TypeOK, InputsOK, TakeOK, ReadyOK, LeaveOK, TypeOK', [Next]_vars
             PROVE  LeaveOK'
  OBVIOUS
<1> DEFINE Done == \A q \in Players, j \in OnlineThreads :
                      finish_offline[q][j] = 1 => Unneeded(q, j)
           Told == \A q \in Players, j \in OnlineThreads, U \in Kinds :
                      /\ prod[q][j][U] = "out" => finish_offline[0][j] = 1
                      /\ \A n \in 1 .. Len(verdict[q][j][U]) :
                            verdict[q][j][U][n] = "E" => finish_offline[0][j] = 1
<1>1. LeaveOK <=> Done /\ Told
  BY DEF LeaveOK
<1>2. LeaveOK' <=> Done' /\ Told'
  BY DEF LeaveOK
<1>3. ASSUME \A q \in Players, j \in OnlineThreads :
                finish_offline[q][j] = 1 => finish_offline'[q][j] = 1,
             UNCHANGED <<prod, verdict>>
      PROVE  Told'
  BY <1>1, <1>3, Constants DEF Told
<1>4. ASSUME NoLessMade, UNCHANGED online,
             \A q \in Players, j \in OnlineThreads :
                finish_offline'[q][j] = 1 => finish_offline[q][j] = 1 \/ EnoughData(q, j)
      PROVE  Done'
  <2> SUFFICES ASSUME NEW q \in Players, NEW j \in OnlineThreads, finish_offline'[q][j] = 1
               PROVE  Unneeded(q, j)'
    BY DEF Done
  <2>1. Unneeded(q, j)
    BY <1>1, <1>4 DEF Done, Unneeded
  <2> QED
    BY <1>4, <2>1, StillUnneeded DEF NoLessMade, online
<1> HIDE DEF Done, Told
<1>5. CASE \E p \in Players, k \in OnlineThreads : Online(p, k)
  <2>1. PICK p \in Players, k \in OnlineThreads : Online(p, k)
    BY <1>5
  <2>2. /\ UNCHANGED <<tot, totI, prod, verdict>>
        /\ \A q \in Players, j \in OnlineThreads :
              finish_offline[q][j] = 1 => finish_offline'[q][j] = 1
    BY <2>1, OnlineStep DEF producers
  <2>3. NoLess(tot', tot) /\ \A q \in Players : totI'[q] >= totI[q]
    <3>1. /\ tot \in [Players -> [OnlineThreads -> [Kinds -> Nat]]]
          /\ totI \in [Players -> Nat]
      BY DEF TypeOK, PerKind, PerThread
    <3>2. NoLess(tot', tot)
      BY <2>2, <3>1 DEF NoLess
    <3> QED
      BY <2>2, <3>1, <3>2
  <2>4. Done'
    <3> SUFFICES ASSUME NEW q \in Players, NEW j \in OnlineThreads, finish_offline'[q][j] = 1
                 PROVE  Unneeded(q, j)'
      BY DEF Done
    <3>1. /\ opc[q][j] = "dead" => opc'[q][j] = "dead"
          /\ finish_offline[q][j] = 1 \/ opc'[q][j] = "dead"
      BY <2>1, OnlineEnds
    <3>2. CASE finish_offline[q][j] = 1
      <4>1. Unneeded(q, j)
        BY <1>1, <3>2 DEF Done
      <4> QED
        BY <2>3, <3>1, <4>1, StillUnneeded
    <3> QED
      BY <3>1, <3>2 DEF Unneeded
  <2> QED
    BY <1>2, <1>3, <2>2, <2>4
<1>6. CASE \A p \in Players, k \in OnlineThreads : ~Online(p, k)
  <2>1. NoLessMade /\ UNCHANGED online
    BY <1>6, StillMade
  <2>2. CASE \E p \in Players, k \in OnlineThreads, T \in Kinds : Producer(p, k, T)
    <3>1. PICK p \in Players, k \in OnlineThreads, T \in Kinds : Producer(p, k, T)
      BY <2>2
    <3>2. UNCHANGED finish_offline
      BY <3>1, ProducerSteps DEF Untouched
    <3>3. Told'
      BY <3>1, <3>2, ProducerTold DEF Told
    <3> QED
      BY <1>2, <1>4, <2>1, <3>2, <3>3
  <2>3. CASE \E p \in Players, k \in OnlineThreads : EndRound(p, k)
    <3>1. PICK p \in Players, k \in OnlineThreads : EndRound(p, k)
      BY <2>3
    <3>2. \A q \in Players, j \in OnlineThreads :
             /\ finish_offline[q][j] = 1 => finish_offline'[q][j] = 1
             /\ finish_offline'[q][j] = 1 => finish_offline[q][j] = 1 \/ EnoughData(q, j)
      <4>1. finish_offline \in [Players -> [OnlineThreads -> 0 .. 1]]
        BY DEF TypeOK, PerThread
      <4> QED
        BY <3>1, <4>1 DEF EndRound
    <3>3. UNCHANGED <<prod, verdict>>
      BY <3>1, EndStep DEF producers
    <3> QED
      BY <1>2, <1>3, <1>4, <2>1, <3>2, <3>3
  <2>4. CASE UNCHANGED <<finish_offline, prod, verdict>>
    BY <1>2, <1>3, <1>4, <2>1, <2>4
  <2>5. ASSUME NEW p \in Players, NEW k \in OnlineThreads,
               \/ Propose(p, k) \/ Collect(p, k) \/ MakeIO(p, k) \/ WaitReady(p, k)
               \/ Sacrifices(p, k)
        PROVE  UNCHANGED <<finish_offline, prod, verdict>>
    BY <2>5 DEF Propose, Collect, MakeIO, WaitReady, Sacrifices, SacrificeTriples,
                SacrificeSquares, SacrificeBits, Take, producers
  <2>6. UNCHANGED vars => UNCHANGED <<finish_offline, prod, verdict>>
    BY DEF vars, producers
  <2> QED
    BY <1>6, <2>2, <2>3, <2>4, <2>5, <2>6, Steps
<1> QED
  BY <1>5, <1>6

---------------------------------------------------------------------------
\* No batch has been begun at the start.
LEMMA BatchesInit == Init => BatchesOK
<1> SUFFICES ASSUME Init, NEW k \in OnlineThreads, NEW T \in Kinds
             PROVE  /\ queue[0][k][T] <= max_offline[T] +
                          (IF prod[0][k][T] = "produce" THEN 0 ELSE sz_offline_batch[T])
                    /\ \A p \in Players : made[p][k][T] <= Begun(0, k, T)
  BY DEF BatchesOK
<1>1. \A p \in Players : made[p][k][T] = 0 /\ queue[p][k][T] = 0 /\ prod[p][k][T] = "check"
  BY DEF Init, EveryKind, Everywhere
<1>2. max_offline[T] \in Nat /\ sz_offline_batch[T] \in Nat
  BY Constants
<1> QED
  BY <1>1, <1>2, Constants DEF Begun

\* Every step keeps the batches behind those of player 0.
LEMMA BatchesStep == TypeOK /\ InputsOK /\ TakeOK /\ ReadyOK /\ BatchesOK /\ [Next]_vars => BatchesOK'
<1> SUFFICES ASSUME TypeOK, InputsOK, TakeOK, ReadyOK, BatchesOK, [Next]_vars PROVE BatchesOK'
  OBVIOUS
<1> DEFINE Small(k, T) == queue[0][k][T] <= max_offline[T] +
                            (IF prod[0][k][T] = "produce" THEN 0 ELSE sz_offline_batch[T])
           Few(q, k, T) == made[q][k][T] <= Begun(0, k, T)
           Good(k, T) == Small(k, T) /\ \A q \in Players : Few(q, k, T)
<1>1. \A k \in OnlineThreads, T \in Kinds : Good(k, T)
  BY DEF BatchesOK
<1>2. (\A k \in OnlineThreads, T \in Kinds : Good(k, T)') => BatchesOK'
  BY DEF BatchesOK
<1>3. \A q \in Players, k \in OnlineThreads, T \in Kinds :
         /\ made[q][k][T] \in Nat /\ queue[q][k][T] \in Nat
         /\ max_offline[T] \in Nat /\ sz_offline_batch[T] \in Nat
  BY Entries, Constants
<1>4. 0 \in Players
  BY Constants
<1>5. ASSUME UNCHANGED <<prod, made>>,
             \A k \in OnlineThreads, T \in Kinds :
                queue'[0][k][T] \in Nat /\ queue'[0][k][T] <= queue[0][k][T]
      PROVE  BatchesOK'
  <2>1. \A k \in OnlineThreads, T \in Kinds : Small(k, T)'
    BY <1>1, <1>3, <1>4, <1>5
  <2>2. \A k \in OnlineThreads, T \in Kinds, q \in Players : Few(q, k, T)'
    BY <1>1, <1>5 DEF Begun
  <2> QED
    BY <1>2, <2>1, <2>2
<1>6. ASSUME UNCHANGED <<producers, queue>> PROVE BatchesOK'
  BY <1>3, <1>4, <1>5, <1>6 DEF producers
<1>7. ASSUME NEW p \in Players, NEW k \in OnlineThreads, NEW T \in Kinds, Producer(p, k, T)
      PROVE  BatchesOK'
  <2>1. /\ OnlyKind(prod', prod, p, k, T) /\ OnlyKind(made', made, p, k, T)
        /\ OnlyKind(queue', queue, p, k, T)
        /\ Moves(p, k, T) \/ Dies(p, k, T) \/ MakesBatch(p, k, T)
    BY <1>7, ProducerSteps
  <2>2. \A j \in OnlineThreads, U \in Kinds : j # k \/ U # T => Good(j, U)'
    <3> SUFFICES ASSUME NEW j \in OnlineThreads, NEW U \in Kinds, j # k \/ U # T
                 PROVE  Good(j, U)'
      OBVIOUS
    <3>1. \A q \in Players : /\ prod'[q][j][U] = prod[q][j][U] /\ made'[q][j][U] = made[q][j][U]
                             /\ queue'[q][j][U] = queue[q][j][U]
      BY <2>1 DEF OnlyKind
    <3>2. Begun(0, j, U)' = Begun(0, j, U)
      BY <1>4, <3>1 DEF Begun
    <3> QED
      BY <1>1, <1>4, <3>1, <3>2
  <2>3. CASE p = 0
    <3>1. \A q \in Players \ {0} : made'[q][k][T] = made[q][k][T]
      BY <2>1, <2>3 DEF OnlyKind
    <3>2. Small(k, T)'
      BY <1>1, <1>3, <2>1, <2>3 DEF Moves, Dies, MakesBatch
    <3>3. Begun(0, k, T)' >= Begun(0, k, T) /\ made'[0][k][T] <= Begun(0, k, T)'
      BY <1>1, <1>3, <2>1, <2>3 DEF Moves, Dies, MakesBatch, Begun
    <3>4. Begun(0, k, T) \in Nat /\ Begun(0, k, T)' \in Nat
      BY <1>3, <2>1, <2>3 DEF Moves, Dies, MakesBatch, Begun
    <3>5. \A q \in Players : Few(q, k, T)'
      BY <1>1, <1>3, <3>1, <3>3, <3>4
    <3> QED
      BY <1>2, <2>2, <3>2, <3>5
  <2>4. CASE p # 0
    <3>1. /\ prod'[0][k][T] = prod[0][k][T] /\ made'[0][k][T] = made[0][k][T]
          /\ queue'[0][k][T] = queue[0][k][T]
          /\ \A q \in Players \ {p} : made'[q][k][T] = made[q][k][T]
      BY <1>4, <2>1, <2>4 DEF OnlyKind
    <3>2. Begun(0, k, T)' = Begun(0, k, T) /\ Begun(0, k, T) \in Nat
      BY <1>3, <1>4, <3>1 DEF Begun
    <3>3. made'[p][k][T] <= Begun(0, k, T)
      <4>1. CASE MakesBatch(p, k, T)
        BY <1>3, <1>4, <3>2, <4>1 DEF MakesBatch
      <4>2. CASE UNCHANGED made
        BY <1>1, <4>2
      <4> QED
        BY <2>1, <4>1, <4>2 DEF Moves, Dies
    <3>4. Good(k, T)'
      BY <1>1, <3>1, <3>2, <3>3
    <3> QED
      BY <1>2, <2>2, <3>4
  <2> QED
    BY <2>3, <2>4
<1>8. ASSUME NEW p \in Players, NEW k \in OnlineThreads, Propose(p, k) PROVE BatchesOK'
  BY <1>6, <1>8, ProposeStep
<1>9. ASSUME NEW p \in Players, NEW k \in OnlineThreads, Collect(p, k) PROVE BatchesOK'
  BY <1>6, <1>9, CollectStep
<1>10. ASSUME NEW p \in Players, NEW k \in OnlineThreads, MakeIO(p, k) PROVE BatchesOK'
  BY <1>6, <1>10, MakeIOStep
<1>11. ASSUME NEW p \in Players, NEW k \in OnlineThreads, WaitReady(p, k) PROVE BatchesOK'
  BY <1>6, <1>11, WaitStep
<1>12. ASSUME NEW p \in Players, NEW k \in OnlineThreads, Sacrifices(p, k) PROVE BatchesOK'
  <2>1. PICK T \in AllKinds :
           /\ spc[p][k] = T
           /\ \A X \in Kinds : queue'[p][k][X] = queue[p][k][X] - TakenAt(agreed[p][k], T, X)
           /\ OnlyAt(queue', queue, p, k) /\ queue' \in PerKind(Nat) /\ UNCHANGED producers
    BY <1>12, SacrificeSteps
  <2> DEFINE n == agreed[p][k]
  <2>2. n \in Numbers /\ n.nm # -1
    BY <2>1, Entries DEF ReadyOK, InRound, AllKinds
  <2>3. \A X \in Kinds : TakenAt(n, T, X) \in Nat
    BY <2>2, NumbersAre DEF TakenAt
  <2> HIDE DEF n
  <2>4. \A X \in Kinds : queue'[p][k][X] <= queue[p][k][X]
    BY <1>3, <2>1, <2>3 DEF n
  <2>5. \A j \in OnlineThreads, X \in Kinds :
           queue'[0][j][X] \in Nat /\ queue'[0][j][X] <= queue[0][j][X]
    <3> TAKE j \in OnlineThreads, X \in Kinds
    <3>1. queue'[0][j][X] \in Nat
      BY <1>4, <2>1 DEF PerKind, PerThread
    <3>2. CASE p = 0 /\ j = k
      BY <2>4, <3>1, <3>2
    <3>3. CASE p # 0 \/ j # k
      <4>1. queue'[0][j][X] = queue[0][j][X]
        BY <1>4, <2>1, <3>3 DEF OnlyAt
      <4> QED
        BY <3>1, <4>1
    <3> QED
      BY <3>2, <3>3
  <2> QED
    BY <1>5, <2>1, <2>5 DEF producers
<1>13. ASSUME NEW p \in Players, NEW k \in OnlineThreads, EndRound(p, k) PROVE BatchesOK'
  BY <1>6, <1>13, EndStep
<1>14. ASSUME NEW p \in Players, NEW k \in OnlineThreads, Online(p, k) PROVE BatchesOK'
  BY <1>6, <1>14, OnlineStep
<1>15. CASE UNCHANGED vars
  BY <1>6, <1>15 DEF vars
<1> QED
  BY <1>7, <1>8, <1>9, <1>10, <1>11, <1>12, <1>13, <1>14, <1>15, Steps

\* Nothing is left to take at the start.
LEMMA ReadyInit == Init => ReadyOK
BY DEF Init, ReadyOK, Everywhere, InRound

\* Ready depends on two variables only, and on more in the queues it is kept.
LEMMA MoreIsReady ==
    ASSUME TypeOK, NEW n \in Numbers, NEW m \in Numbers,
           n.nm <= m.nm, n.ns <= m.ns, n.nb <= m.nb
    PROVE  rep * n.nb + n.ns <= rep * m.nb + m.ns
<1>1. n.nb \in Nat /\ m.nb \in Nat /\ n.ns \in Nat /\ m.ns \in Nat
  BY NumbersAre
<1>2. rep * n.nb <= rep * m.nb /\ rep * n.nb \in Nat /\ rep * m.nb \in Nat
  BY <1>1, Constants, TimesMore, TimesIn
<1> QED
  BY <1>1, <1>2

\* Every step leaves in the queues what is proposed or left to take.
LEMMA ReadyStep == TypeOK /\ InputsOK /\ TakeOK /\ ReadyOK /\ TypeOK' /\ [Next]_vars => ReadyOK'
<1> SUFFICES ASSUME TypeOK, InputsOK, TakeOK, ReadyOK, TypeOK', [Next]_vars PROVE ReadyOK'
  OBVIOUS
<1> DEFINE Fits(p, k) ==
              LET n == agreed[p][k]
              IN  /\ spc[p][k] \in {"collect", "IO", "triples"} => Ready(p, k)
                  /\ InRound(p, k) => n.nm # -1
                  /\ spc[p][k] = "squares" => /\ Queued(p, k, "squares") >= rep * n.nb + n.ns
                                              /\ Queued(p, k, "bits") >= n.nb
                  /\ spc[p][k] = "bits" => /\ Queued(p, k, "squares") >= rep * n.nb
                                           /\ Queued(p, k, "bits") >= n.nb
<1>1. \A p \in Players, k \in OnlineThreads : Fits(p, k)
  BY DEF ReadyOK
<1>2. (\A p \in Players, k \in OnlineThreads : Fits(p, k)') => ReadyOK'
  BY DEF ReadyOK
<1>3. \A p \in Players, k \in OnlineThreads :
         /\ agreed[p][k] \in Numbers
         /\ \A T \in AllKinds : Queued(p, k, T) \in Nat /\ Queued(p, k, T)' \in Nat
  <2>1. \A p \in Players, k \in OnlineThreads, T \in AllKinds : Queued(p, k, T)' \in Nat
    <3>1. \A p \in Players, k \in OnlineThreads, T \in Kinds : queue'[p][k][T] \in Nat
      BY DEF TypeOK, PerKind, PerThread
    <3> QED
      BY <3>1 DEF Queued
  <2> QED
    BY <2>1, Entries
<1>4. \A p \in Players, k \in OnlineThreads :
         LET n == agreed[p][k]
         IN  n.nm \in Int /\ n.ns \in Nat /\ n.nb \in Nat /\ rep * n.nb \in Nat
  BY <1>3, NumbersAre
\* Nothing of a thread has changed, or there is more in its queues.
<1>5. ASSUME NEW p \in Players, NEW k \in OnlineThreads,
             spc'[p][k] = spc[p][k], agreed'[p][k].nm = agreed[p][k].nm,
             agreed'[p][k].ns = agreed[p][k].ns, agreed'[p][k].nb = agreed[p][k].nb,
             \A T \in Kinds : queue'[p][k][T] >= queue[p][k][T]
      PROVE  Fits(p, k)'
  <2>1. \A T \in AllKinds : Queued(p, k, T)' >= Queued(p, k, T)
    BY <1>5 DEF Queued
  <2>2. /\ "triples" \in AllKinds /\ "squares" \in AllKinds /\ "bits" \in AllKinds
    BY DEF AllKinds
  <2>3. Ready(p, k) => Ready(p, k)'
    BY <1>3, <1>4, <1>5, <2>1, <2>2 DEF Ready
  <2>4. InRound(p, k)' = InRound(p, k)
    BY <1>5 DEF InRound
  <2>5. Fits(p, k)
    BY <1>1
  <2> QED
    BY <1>3, <1>4, <1>5, <2>1, <2>2, <2>3, <2>4, <2>5
<1>6. ASSUME NEW p \in Players, NEW k \in OnlineThreads,
             OnlyAt(spc', spc, p, k), OnlyAt(agreed', agreed, p, k), OnlyAt(queue', queue, p, k),
             Fits(p, k)'
      PROVE  ReadyOK'
  <2>1. \A q \in Players, j \in OnlineThreads, T \in Kinds : queue[q][j][T] \in Nat
    BY Entries
  <2>2. ASSUME NEW q \in Players, NEW j \in OnlineThreads, q # p \/ j # k PROVE Fits(q, j)'
    <3>1. spc'[q][j] = spc[q][j] /\ agreed'[q][j] = agreed[q][j] /\ queue'[q][j] = queue[q][j]
      BY <1>6, <2>2 DEF OnlyAt
    <3>2. \A T \in Kinds : queue'[q][j][T] >= queue[q][j][T]
      BY <2>1, <3>1
    <3> QED
      BY <1>5, <3>1, <3>2
  <2> QED
    BY <1>2, <1>6, <2>2
<1>7. ASSUME UNCHANGED <<spc, agreed>>,
             \A p \in Players, k \in OnlineThreads, T \in Kinds : queue'[p][k][T] >= queue[p][k][T]
      PROVE  ReadyOK'
  BY <1>2, <1>5, <1>7
<1>8. UNCHANGED <<spc, agreed, queue>> => ReadyOK'
  <2>1. \A p \in Players, k \in OnlineThreads, T \in Kinds : queue[p][k][T] \in Nat
    BY Entries
  <2> QED
    BY <1>7, <2>1
<1>9. UNCHANGED queue => \A p \in Players, k \in OnlineThreads : OnlyAt(queue', queue, p, k)
  BY DEF OnlyAt
<1>10. UNCHANGED agreed => \A p \in Players, k \in OnlineThreads : OnlyAt(agreed', agreed, p, k)
  BY DEF OnlyAt
<1>11. ASSUME NEW p \in Players, NEW k \in OnlineThreads, NEW T \in Kinds, Producer(p, k, T)
       PROVE  ReadyOK'
  <2>1. /\ UNCHANGED <<spc, agreed>> /\ OnlyKind(queue', queue, p, k, T)
        /\ UNCHANGED queue \/ queue'[p][k][T] = queue[p][k][T] + sz_offline_batch[T]
    BY <1>11, ProducerSteps DEF Untouched, sacrificer, Moves, Dies, MakesBatch
  <2>2. \A q \in Players, j \in OnlineThreads, X \in Kinds : queue[q][j][X] \in Nat
    BY Entries
  <2>3. sz_offline_batch[T] \in Nat
    BY Constants
  <2>4. \A q \in Players, j \in OnlineThreads, X \in Kinds : queue'[q][j][X] >= queue[q][j][X]
    BY <2>1, <2>2, <2>3 DEF OnlyKind
  <2> QED
    BY <1>7, <2>1, <2>4
<1>12. ASSUME NEW p \in Players, NEW k \in OnlineThreads, Propose(p, k) PROVE ReadyOK'
  <2> DEFINE n == Proposal(p, k)
  <2>1. /\ spc'[p][k] = "collect" /\ OnlyAt(spc', spc, p, k)
        /\ agreed'[p][k] = n /\ OnlyAt(agreed', agreed, p, k) /\ UNCHANGED queue
    BY <1>12, ProposeStep
  <2>2. /\ Queued(p, k, "triples") >= n.nm /\ Queued(p, k, "squares") >= rep * n.nb + n.ns
        /\ Queued(p, k, "bits") >= n.nb
    BY ProposalRight
  <2> HIDE DEF n
  <2>3. \A T \in AllKinds : Queued(p, k, T)' = Queued(p, k, T)
    BY <2>1 DEF Queued
  <2>4. Ready(p, k)'
    BY <2>1, <2>2, <2>3 DEF Ready, AllKinds
  <2>5. Fits(p, k)'
    BY <2>1, <2>4 DEF InRound
  <2> QED
    BY <1>6, <1>9, <2>1, <2>5
<1>13. ASSUME NEW p \in Players, NEW k \in OnlineThreads, Collect(p, k) PROVE ReadyOK'
  <2> DEFINE S   == Collected(p, k)
             all == Combined(S)
             own == agreed[p][k]
  <2>1. /\ spc[p][k] = "collect" /\ spc'[p][k] = AfterCollect(all) /\ OnlyAt(spc', spc, p, k)
        /\ agreed'[p][k] = all /\ OnlyAt(agreed', agreed, p, k) /\ UNCHANGED queue
        /\ S \subseteq Numbers /\ S # {}
    BY <1>13, CollectStep
  <2>2. own \in S /\ own \in Numbers
    BY <1>3 DEF Collected
  <2>3. all \in Numbers /\ all.nm <= own.nm /\ all.ns <= own.ns /\ all.nb <= own.nb
    BY <2>1, <2>2, CombinedRight
  <2>4. Ready(p, k)
    BY <1>1, <2>1
  <2> HIDE DEF S, all, own
  <2>5. rep * all.nb + all.ns <= rep * own.nb + own.ns
    BY <2>2, <2>3, MoreIsReady
  <2>6. \A T \in AllKinds : Queued(p, k, T)' = Queued(p, k, T) /\ Queued(p, k, T) \in Nat
    BY <1>3, <2>1 DEF Queued
  <2>7. /\ Queued(p, k, "triples") >= own.nm /\ Queued(p, k, "squares") >= rep * own.nb + own.ns
        /\ Queued(p, k, "bits") >= own.nb
    BY <2>4 DEF Ready, own
  <2>8. /\ own.nm \in Int /\ own.ns \in Nat /\ own.nb \in Nat /\ rep * own.nb \in Nat
        /\ all.nm \in Int /\ all.ns \in Nat /\ all.nb \in Nat /\ rep * all.nb \in Nat
    BY <2>2, <2>3, NumbersAre
  <2>9. Ready(p, k)'
    BY <2>1, <2>3, <2>5, <2>6, <2>7, <2>8 DEF Ready, AllKinds
  <2>10. Fits(p, k)'
    BY <2>1, <2>9 DEF InRound, AfterCollect
  <2> QED
    BY <1>6, <1>9, <2>1, <2>10
<1>14. ASSUME NEW p \in Players, NEW k \in OnlineThreads, MakeIO(p, k) PROVE ReadyOK'
  <2>2. OnlyAt(agreed', agreed, p, k) /\ UNCHANGED <<queue, spc>>
    BY <1>14, MakeIOStep
  <2>3. /\ agreed'[p][k].nm = agreed[p][k].nm /\ agreed'[p][k].ns = agreed[p][k].ns
        /\ agreed'[p][k].nb = agreed[p][k].nb
    BY <1>14, MakeIOKeeps
  <2>4. \A T \in Kinds : queue'[p][k][T] >= queue[p][k][T]
    <3>1. \A T \in Kinds : queue[p][k][T] \in Nat
      BY Entries
    <3> QED
      BY <2>2, <3>1
  <2>5. Fits(p, k)'
    BY <1>5, <2>2, <2>3, <2>4
  <2>6. OnlyAt(spc', spc, p, k)
    BY <2>2 DEF OnlyAt
  <2> QED
    BY <1>6, <1>9, <2>2, <2>5, <2>6
<1>15. ASSUME NEW p \in Players, NEW k \in OnlineThreads, WaitReady(p, k) PROVE ReadyOK'
  <2>1. /\ spc[p][k] = "IO" /\ spc'[p][k] = "triples" /\ OnlyAt(spc', spc, p, k)
        /\ Ready(p, k) /\ UNCHANGED <<queue, agreed>>
    BY <1>15, WaitStep
  <2>2. Ready(p, k)'
    BY <2>1 DEF Ready, Queued
  <2>3. Fits(p, k)'
    BY <1>1, <2>1, <2>2 DEF InRound
  <2> QED
    BY <1>6, <1>9, <1>10, <2>1, <2>3
<1>16. ASSUME NEW p \in Players, NEW k \in OnlineThreads, Sacrifices(p, k) PROVE ReadyOK'
  <2> DEFINE n == agreed[p][k]
  <2>1. PICK T \in AllKinds :
           /\ spc[p][k] = T /\ spc'[p][k] = After(T) /\ OnlyAt(spc', spc, p, k)
           /\ \A X \in Kinds : queue'[p][k][X] = queue[p][k][X] - TakenAt(n, T, X)
           /\ OnlyAt(queue', queue, p, k) /\ UNCHANGED agreed
    BY <1>16, SacrificeSteps
  <2>2. /\ n.nm \in Int /\ n.ns \in Nat /\ n.nb \in Nat /\ rep * n.nb \in Nat
    BY <1>4
  <2>3. n.nm # -1 /\ Fits(p, k)
    BY <1>1, <2>1 DEF InRound, AllKinds
  <2>4. \A X \in AllKinds : Queued(p, k, X)' =
                              Queued(p, k, X) - (IF X \in Kinds THEN TakenAt(n, T, X) ELSE 0)
    BY <2>1 DEF Queued
  <2>5. \A X \in AllKinds : Queued(p, k, X) \in Nat /\ (X \notin Kinds => Queued(p, k, X) = 0)
    BY <1>3 DEF Queued
  <2>6. agreed'[p][k] = n
    BY <2>1
  <2>7. InRound(p, k)' => n.nm # -1
    BY <2>3
  <2>8. CASE T = "triples"
    <3>1. /\ Queued(p, k, "squares")' = Queued(p, k, "squares")
          /\ Queued(p, k, "bits")' = Queued(p, k, "bits") /\ spc'[p][k] = "squares"
      BY <2>1, <2>4, <2>5, <2>8 DEF AllKinds, After, TakenAt
    <3>2. Ready(p, k)
      BY <2>1, <2>3, <2>8
    <3> QED
      BY <1>6, <1>10, <2>1, <2>6, <2>7, <3>1, <3>2 DEF Ready
  <2>9. CASE T = "squares"
    <3>1. /\ Queued(p, k, "squares")' >= Queued(p, k, "squares") - n.ns
          /\ Queued(p, k, "bits")' = Queued(p, k, "bits") /\ spc'[p][k] = "bits"
      BY <2>1, <2>2, <2>4, <2>5, <2>9 DEF AllKinds, After, TakenAt
    <3>2. /\ Queued(p, k, "squares") >= rep * n.nb + n.ns /\ Queued(p, k, "bits") >= n.nb
          /\ Queued(p, k, "squares") \in Nat
      BY <2>1, <2>3, <2>5, <2>9 DEF AllKinds
    <3>3. Queued(p, k, "squares")' \in Nat
      BY <1>3 DEF AllKinds
    <3>4. Queued(p, k, "squares")' >= rep * n.nb /\ Queued(p, k, "bits")' >= n.nb
      BY <2>2, <3>1, <3>2, <3>3
    <3> QED
      BY <1>6, <1>10, <2>1, <2>6, <2>7, <3>1, <3>4
  <2>10. CASE T = "bits"
    <3>1. spc'[p][k] = "end"
      BY <2>1, <2>10 DEF After
    <3> QED
      BY <1>6, <1>10, <2>1, <2>6, <2>7, <3>1
  <2> QED
    BY <2>8, <2>9, <2>10 DEF AllKinds
<1>17. ASSUME NEW p \in Players, NEW k \in OnlineThreads, EndRound(p, k) PROVE ReadyOK'
  <2>1. /\ spc'[p][k] \in {"out", "propose"} /\ OnlyAt(spc', spc, p, k)
        /\ UNCHANGED <<queue, agreed>>
    BY <1>17, EndStep
  <2>2. Fits(p, k)'
    BY <2>1 DEF InRound
  <2> QED
    BY <1>6, <1>9, <1>10, <2>1, <2>2
<1>18. ASSUME NEW p \in Players, NEW k \in OnlineThreads, Online(p, k) PROVE ReadyOK'
  BY <1>8, <1>18, OnlineStep DEF sacrificer
<1>19. CASE UNCHANGED vars
  BY <1>8, <1>19 DEF vars, sacrificer
<1> QED
  BY <1>11, <1>12, <1>13, <1>14, <1>15, <1>16, <1>17, <1>18, <1>19, Steps

---------------------------------------------------------------------------
(* What TLC checks on small instances, for every instance.                 *)

\* Every state is typed and satisfies the inductive invariant.
THEOREM Invariant == Spec => [](TypeOK /\ IInv)
<1>1. Init => TypeOK /\ IInv
  BY TypeInit, InputsInit, DeadInit, ReadyInit, CauseInit, LeaveInit, TakeInit,
     BatchesInit DEF IInv
<1>2. TypeOK /\ IInv /\ [Next]_vars => TypeOK' /\ IInv'
  <2> SUFFICES ASSUME TypeOK, IInv, [Next]_vars PROVE TypeOK' /\ IInv'
    OBVIOUS
  <2>1. TypeOK'
    BY TypeStep DEF IInv
  <2>2. InputsOK' /\ DeadOK' /\ ReadyOK' /\ CauseOK' /\ BatchesOK'
    BY <2>1, InputsStep, DeadStep, ReadyStep, CauseStep, BatchesStep DEF IInv
  <2>3. LeaveOK' /\ TakeOK'
    BY <2>1, LeaveStep, TakeKept DEF IInv
  <2> QED
    BY <2>1, <2>2, <2>3 DEF IInv
<1> QED
  BY <1>1, <1>2, PTL DEF Spec

\* The types of the state.  That the queues and the lists of what was checked
\* never go below zero rests on ReadyOK and TakeOK: what a sacrifice thread has
\* proposed, and what an online thread has seen, is still there when it takes it.
THEOREM TypeCorrect == Spec => []TypeOK
BY Invariant, PTL

\* The data of a round that has been agreed are there when it begins.
THEOREM AgreedReady == Spec => []AgreedIsReady
<1>1. IInv => AgreedIsReady
  BY DEF IInv, ReadyOK, AgreedIsReady
<1> QED
  BY <1>1, Invariant, PTL

\* An offline thread ends only when the online thread it serves has, or all
\* that is wanted was made: at some player, and for producers at player 0.
THEOREM ExitsForCause == Spec => []ExitForCause
<1>1. IInv => ExitForCause
  <2> SUFFICES ASSUME IInv, NEW p \in Players, NEW k \in OnlineThreads
               PROVE  /\ spc[p][k] \in {"exit", "out"} => \E q \in Players : Unneeded(q, k)
                      /\ \A T \in Kinds : prod[p][k][T] = "out" => Unneeded(0, k)
    BY DEF ExitForCause
  <2>1. CauseOK /\ LeaveOK
    BY DEF IInv
  <2>2. spc[p][k] \in {"exit", "out"} => \E q \in Players : Unneeded(q, k)
    BY <2>1 DEF CauseOK, Cause, LeaveOK
  <2>3. \A T \in Kinds : prod[p][k][T] = "out" => Unneeded(0, k)
    BY <2>1, Constants DEF LeaveOK
  <2> QED
    BY <2>2, <2>3
<1> QED
  BY <1>1, Invariant, PTL
=============================================================================
