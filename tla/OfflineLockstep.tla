-------------------------- MODULE OfflineLockstep ---------------------------
(***************************************************************************)
(* Proofs about the offline phase: the sacrifice threads of an online      *)
(* thread go in step at all the players, and what follows.                 *)
(***************************************************************************)
EXTENDS OfflineProofs

---------------------------------------------------------------------------
(* What a thread will have when it has done what is left of its round.     *)

\* A product with a factor that grows by one.
LEMMA TimesNext == \A m, s \in Nat : (m + 1) * s = m * s + s
OBVIOUS

\* There are finitely many players.
LEMMA PlayersFinite == IsFiniteSet(Players)
<1>1. 0 \in Int /\ NPlayers - 1 \in Int
  BY SizesAssumption
<1> QED
  BY <1>1, FS_Interval DEF Players

\* The inputs a round makes are a natural number.
LEMMA MakesRight ==
    ASSUME NEW n \in Numbers
    PROVE  /\ IsFiniteSet(n.make_inputs) /\ Cardinality(n.make_inputs) \in Nat
           /\ Makes(n) = sz_IO_batch * Cardinality(n.make_inputs) /\ Makes(n) \in Nat
<1> DEFINE I == n.make_inputs
<1>1. I \subseteq Players
  BY NumbersAre
<1> HIDE DEF I
<1>2. IsFiniteSet(I) /\ Cardinality(I) \in Nat
  BY <1>1, PlayersFinite, FS_Subset, FS_CardinalityType
<1>3. sz_IO_batch * Cardinality(I) \in Nat
  BY <1>2, Constants, TimesIn
<1> QED
  BY <1>2, <1>3 DEF Makes, I

\* What a round takes of a kind is bounded, and nothing is negative.
LEMMA RoundRight ==
    ASSUME NEW n \in Numbers, NEW T \in AllKinds
    PROVE  /\ RoundTakes(T) \in Nat
           /\ n.nm # -1 => /\ Keeps(n, T) \in Nat
                           /\ Takes(n, T) \in Nat /\ Takes(n, T) <= RoundTakes(T)
           /\ Gain(n, T) \in Nat /\ GainI(n) \in Nat
           /\ Loss(n, T) \in Nat /\ Loss(n, T) <= RoundTakes(T)
<1> DEFINE a == (rep + 1) * sz_sacrifice["triples"]
           b == (rep + 1) * sz_sacrifice["squares"]
           c == sz_sacrifice["bits"]
<1>1. a \in Nat /\ b \in Nat /\ c \in Nat /\ rep \in Nat
  BY SizeTimes, Constants
<1>2. /\ n.nm \in Int /\ (n.nm # -1 => n.nm \in Nat) /\ n.nm <= a
      /\ n.ns \in Nat /\ n.ns <= b /\ n.nb \in Nat /\ n.nb <= c /\ rep * n.nb \in Nat
  BY NumbersAre
<1>3. RoundTakes(T) = IF T = "triples" THEN a ELSE IF T = "bits" THEN c ELSE b + rep * c
  BY DEF RoundTakes, AllKinds
<1> HIDE DEF a, b, c
<1>4. rep * c \in Nat /\ rep * n.nb <= rep * c
  BY <1>1, <1>2, TimesIn, TimesMore
<1>5. RoundTakes(T) \in Nat
  BY <1>1, <1>3, <1>4
<1>6. ASSUME n.nm # -1
      PROVE  Keeps(n, T) \in Nat /\ Takes(n, T) \in Nat /\ Takes(n, T) <= RoundTakes(T)
  <2>1. Keeps(n, T) \in Nat
    BY <1>2, <1>6, KeptRight DEF Keeps
  <2>2. Takes(n, T) \in Nat /\ Takes(n, T) <= RoundTakes(T)
    BY <1>1, <1>2, <1>3, <1>4, <1>6 DEF Takes, AllKinds
  <2> QED
    BY <2>1, <2>2
<1>7. GainI(n) \in Nat
  BY MakesRight DEF GainI
<1> QED
  BY <1>5, <1>6, <1>7 DEF Gain, Loss

\* What is left of a round is a natural, and nothing out of a round.
LEMMA LeftToDo ==
    ASSUME TypeOK, ReadyOK, NEW p \in Players, NEW k \in OnlineThreads
    PROVE  /\ ToMake(p, k) \in Nat
           /\ \A T \in Kinds :
                 /\ ToKeep(p, k, T) \in Nat /\ ToTake(p, k, T) \in Nat
                 /\ ToTake(p, k, T) <= RoundTakes(T)
                 /\ WillHave(p, k, T) \in Nat /\ Spent(p, k, T) \in Int
                 /\ made[p][k][T] * sz_offline_batch[T] \in Nat
           /\ ~InRound(p, k) => /\ ToMake(p, k) = 0
                                /\ \A T \in Kinds : ToKeep(p, k, T) = 0 /\ ToTake(p, k, T) = 0
<1> DEFINE n == agreed[p][k]
<1>1. n \in Numbers
  BY Entries
<1>2. InRound(p, k) => n.nm # -1
  BY DEF ReadyOK
<1>3. ToMake(p, k) \in Nat
  BY <1>1, MakesRight DEF ToMake
<1>4. n.nb \in Nat /\ rep * n.nb \in Nat /\ n.ns \in Nat
  BY <1>1, NumbersAre
<1>5. ~InRound(p, k) => /\ ToMake(p, k) = 0
                        /\ \A T \in Kinds : ToKeep(p, k, T) = 0 /\ ToTake(p, k, T) = 0
  BY DEF InRound, ToMake, ToKeep, ToTake
<1>6. ASSUME NEW T \in Kinds
      PROVE  /\ ToKeep(p, k, T) \in Nat /\ ToTake(p, k, T) \in Nat
             /\ ToTake(p, k, T) <= RoundTakes(T)
  <2>1. /\ RoundTakes(T) \in Nat
        /\ InRound(p, k) => /\ Keeps(n, T) \in Nat
                            /\ Takes(n, T) \in Nat /\ Takes(n, T) <= RoundTakes(T)
    BY <1>1, <1>2, RoundRight, Constants
  <2>2. ToKeep(p, k, T) = 0 \/ (InRound(p, k) /\ ToKeep(p, k, T) = Keeps(n, T))
    BY DEF ToKeep, InRound
  <2>3. \/ ToTake(p, k, T) = 0
        \/ InRound(p, k) /\ ToTake(p, k, T) = Takes(n, T)
        \/ InRound(p, k) /\ T = "squares" /\ ToTake(p, k, T) = rep * n.nb
    BY DEF ToTake, InRound
  <2>4. T = "squares" => Takes(n, T) = rep * n.nb + n.ns
    BY DEF Takes
  <2> HIDE DEF n
  <2> QED
    BY <1>4, <2>1, <2>2, <2>3, <2>4
<1>7. ASSUME NEW T \in Kinds
      PROVE  /\ WillHave(p, k, T) \in Nat /\ Spent(p, k, T) \in Int
             /\ made[p][k][T] * sz_offline_batch[T] \in Nat
  <2>1. /\ tot[p][k][T] \in Nat /\ made[p][k][T] \in Nat /\ queue[p][k][T] \in Nat
        /\ sz_offline_batch[T] \in Nat
    BY Entries, Constants
  <2>2. made[p][k][T] * sz_offline_batch[T] \in Nat
    BY <2>1, TimesIn
  <2> QED
    BY <1>6, <2>1, <2>2 DEF WillHave, Spent
<1> QED
  BY <1>3, <1>5, <1>6, <1>7

\* A step that leaves what a thread has and is going to do.
SameAtEnd(p, k) ==
    /\ \A T \in Kinds : WillHave(p, k, T)' = WillHave(p, k, T) /\ Spent(p, k, T)' = Spent(p, k, T)
    /\ rounds'[p][k] = rounds[p][k]
    /\ k = 0 => WillHaveI(p)' = WillHaveI(p)

\* A thread that stays in its place of a round, or out of a round, does nothing of it.
LEMMA NothingDone ==
    ASSUME NEW p \in Players, NEW k \in OnlineThreads,
           spc'[p][k] = spc[p][k] \/ (~InRound(p, k) /\ ~InRound(p, k)')
             \/ (spc[p][k] = "end" /\ ~InRound(p, k)'),
           agreed'[p][k] = agreed[p][k] \/ ~InRound(p, k), rounds'[p][k] = rounds[p][k],
           tot'[p][k] = tot[p][k], made'[p][k] = made[p][k], queue'[p][k] = queue[p][k],
           k = 0 => totI'[p] = totI[p]
    PROVE  SameAtEnd(p, k)
<1>1. \A T \in Kinds : ToKeep(p, k, T)' = ToKeep(p, k, T)
  BY DEF ToKeep, InRound, Keeps, Kept
<1>2. \A T \in Kinds : ToTake(p, k, T)' = ToTake(p, k, T)
  BY DEF ToTake, InRound, Takes
<1>3. ToMake(p, k)' = ToMake(p, k)
  BY DEF ToMake, InRound, Makes
<1> QED
  BY <1>1, <1>2, <1>3 DEF SameAtEnd, WillHave, Spent, WillHaveI

\* A step of a thread does nothing of the rounds of another.
LEMMA OthersSame ==
    ASSUME NEW p \in Players, NEW k \in OnlineThreads, NEW q \in Players, NEW j \in OnlineThreads,
           q # p \/ j # k,
           OnlyAt(spc', spc, p, k), OnlyAt(agreed', agreed, p, k), OnlyAt(rounds', rounds, p, k),
           OnlyAt(tot', tot, p, k), OnlyAt(made', made, p, k), OnlyAt(queue', queue, p, k),
           \A r \in Players : r # p \/ k # 0 => totI'[r] = totI[r]
    PROVE  SameAtEnd(q, j)
<1>1. /\ spc'[q][j] = spc[q][j] /\ agreed'[q][j] = agreed[q][j] /\ rounds'[q][j] = rounds[q][j]
      /\ tot'[q][j] = tot[q][j] /\ made'[q][j] = made[q][j] /\ queue'[q][j] = queue[q][j]
  BY DEF OnlyAt
<1>2. j = 0 => totI'[q] = totI[q]
  OBVIOUS
<1> QED
  BY <1>1, <1>2, NothingDone

\* A batch that is made has not been spent.
LEMMA SameAfterProducer ==
    ASSUME TypeOK, NEW p \in Players, NEW k \in OnlineThreads, NEW T \in Kinds,
           Producer(p, k, T), NEW q \in Players, NEW j \in OnlineThreads
    PROVE  SameAtEnd(q, j)
<1>1. /\ UNCHANGED <<spc, agreed, rounds, tot, totI>>
      /\ OnlyKind(made', made, p, k, T) /\ OnlyKind(queue', queue, p, k, T)
      /\ \/ UNCHANGED <<made, queue>>
         \/ /\ made'[p][k][T] = made[p][k][T] + 1
            /\ queue'[p][k][T] = queue[p][k][T] + sz_offline_batch[T]
  BY ProducerSteps DEF Untouched, sacrificer, Moves, Dies, MakesBatch
<1>2. /\ ToMake(q, j)' = ToMake(q, j) /\ WillHaveI(q)' = WillHaveI(q)
      /\ \A U \in Kinds : /\ ToKeep(q, j, U)' = ToKeep(q, j, U)
                          /\ ToTake(q, j, U)' = ToTake(q, j, U)
  BY <1>1 DEF ToMake, ToKeep, ToTake, Keeps, Kept, Takes, Makes, WillHaveI
<1>3. \A U \in Kinds : WillHave(q, j, U)' = WillHave(q, j, U)
  BY <1>1, <1>2 DEF WillHave
<1>4. ASSUME NEW U \in Kinds PROVE Spent(q, j, U)' = Spent(q, j, U)
  <2>1. CASE made'[q][j][U] = made[q][j][U] /\ queue'[q][j][U] = queue[q][j][U]
    BY <1>2, <2>1 DEF Spent
  <2>2. CASE /\ made'[q][j][U] = made[q][j][U] + 1
             /\ queue'[q][j][U] = queue[q][j][U] + sz_offline_batch[U]
    <3> DEFINE m == made[q][j][U]
               s == sz_offline_batch[U]
               x == queue[q][j][U]
               t == ToTake(q, j, U)
    <3>1. m \in Nat /\ s \in Nat /\ x \in Nat
      BY Entries, Constants
    <3>2. (m + 1) * s = m * s + s /\ m * s \in Nat
      BY <3>1, TimesNext, TimesIn
    <3>3. Spent(q, j, U)' = ((m + 1) * s - (x + s)) + t /\ Spent(q, j, U) = (m * s - x) + t
      BY <1>2, <2>2 DEF Spent
    <3> HIDE DEF m, s, x, t
    <3>4. (m + 1) * s - (x + s) = m * s - x
      BY <3>1, <3>2
    <3> QED
      BY <3>3, <3>4
  <2> QED
    BY <1>1, <2>1, <2>2 DEF OnlyKind
<1> QED
  BY <1>1, <1>2, <1>3, <1>4 DEF SameAtEnd

\* What does not change changes at most at one thread.
LEMMA OnlySame ==
    ASSUME NEW p \in Players, NEW k \in OnlineThreads, NEW f, NEW g, f = g
    PROVE  OnlyAt(f, g, p, k)
BY DEF OnlyAt

\* Only what is left of the round is done.
LEMMA SameAfterSacrifice ==
    ASSUME TypeOK, ReadyOK, NEW p \in Players, NEW k \in OnlineThreads, Sacrifices(p, k),
           NEW q \in Players, NEW j \in OnlineThreads
    PROVE  SameAtEnd(q, j)
<1> DEFINE n == agreed[p][k]
<1>1. PICK T \in AllKinds :
         /\ spc[p][k] = T /\ spc'[p][k] = After(T) /\ OnlyAt(spc', spc, p, k)
         /\ \A X \in Kinds : queue'[p][k][X] = queue[p][k][X] - TakenAt(n, T, X)
         /\ OnlyAt(queue', queue, p, k)
         /\ T \in Kinds => tot'[p][k][T] = tot[p][k][T] + Keeps(n, T)
         /\ \A r \in Players, i \in OnlineThreads, X \in Kinds :
               X # T => tot'[r][i][X] = tot[r][i][X]
         /\ OnlyAt(tot', tot, p, k)
         /\ UNCHANGED <<totI, producers, agreed, rounds>>
  BY SacrificeSteps
<1>2. CASE q # p \/ j # k
  <2>1. /\ OnlyAt(agreed', agreed, p, k) /\ OnlyAt(rounds', rounds, p, k)
        /\ OnlyAt(made', made, p, k)
    BY <1>1 DEF OnlyAt, producers
  <2> QED
    BY <1>1, <1>2, <2>1, OthersSame
<1>3. CASE q = p /\ j = k
  <2>1. n \in Numbers /\ n.nm # -1 /\ agreed'[p][k] = n
    BY <1>1, Entries DEF ReadyOK, InRound, AllKinds
  <2>2. /\ n.nm \in Nat /\ n.ns \in Nat /\ n.nb \in Nat /\ rep * n.nb \in Nat
    BY <2>1, NumbersAre
  <2>3. ASSUME NEW U \in Kinds
        PROVE  /\ ToKeep(p, k, U) = ToKeep(p, k, U)' + IF U = T THEN Keeps(n, T) ELSE 0
               /\ ToKeep(p, k, U)' \in Nat /\ Keeps(n, U) \in Nat
    <3>1. /\ Keeps(n, U) \in Nat /\ U \in AllKinds
          /\ Keeps(n, U)' = Keeps(n, U) /\ Keeps(agreed[p][k], U)' = Keeps(n, U)
      BY <1>1, <2>1, RoundRight, Constants DEF Keeps, Kept
    <3>2. ToKeep(p, k, U) = IF \/ U = "triples" /\ T = "triples"
                               \/ U = "squares" /\ T \in {"triples", "squares"}
                               \/ U = "bits" /\ T \in {"triples", "squares", "bits"}
                            THEN Keeps(n, U) ELSE 0
      BY <1>1, <3>1 DEF ToKeep, AllKinds
    <3>3. ToKeep(p, k, U)' = IF \/ U = "squares" /\ T = "triples"
                                \/ U = "bits" /\ T \in {"triples", "squares"}
                             THEN Keeps(n, U) ELSE 0
      BY <1>1, <3>1 DEF ToKeep, AllKinds, After
    <3> HIDE DEF n
    <3> QED
      BY <1>1, <3>1, <3>2, <3>3 DEF AllKinds
  <2>4. ASSUME NEW U \in Kinds
        PROVE  /\ ToTake(p, k, U) = ToTake(p, k, U)' + TakenAt(n, T, U)
               /\ ToTake(p, k, U)' \in Nat /\ TakenAt(n, T, U) \in Nat
    <3>1. U \in AllKinds /\ Takes(agreed[p][k], U)' = Takes(n, U)
      BY <1>1, Constants DEF Takes
    <3>2. ToTake(p, k, U) = IF U = "triples" THEN (IF T = "triples" THEN n.nm ELSE 0)
                            ELSE IF U = "squares"
                                 THEN (IF T = "bits" THEN rep * n.nb ELSE rep * n.nb + n.ns)
                            ELSE n.nb
      BY <1>1, <3>1 DEF ToTake, AllKinds, Takes
    <3>3. ToTake(p, k, U)' = IF U = "triples" THEN 0
                             ELSE IF U = "squares"
                                  THEN (IF T = "triples" THEN rep * n.nb + n.ns
                                        ELSE IF T = "squares" THEN rep * n.nb ELSE 0)
                             ELSE IF T = "bits" THEN 0 ELSE n.nb
      BY <1>1, <2>1, <3>1 DEF ToTake, AllKinds, Takes, After
    <3> HIDE DEF n
    <3> QED
      BY <1>1, <2>2, <3>1, <3>2, <3>3 DEF AllKinds, TakenAt
  <2>5. ASSUME NEW U \in Kinds PROVE WillHave(p, k, U)' = WillHave(p, k, U)
    <3>1. tot[p][k][U] \in Nat
      BY Entries
    <3>2. tot'[p][k][U] = tot[p][k][U] + IF U = T THEN Keeps(n, T) ELSE 0
      BY <1>1, <3>1
    <3>3. Keeps(n, T) \in Nat
      BY <2>1, RoundRight
    <3> HIDE DEF n
    <3> QED
      BY <2>3, <3>1, <3>2, <3>3 DEF WillHave
  <2>6. ASSUME NEW U \in Kinds PROVE Spent(p, k, U)' = Spent(p, k, U)
    <3> DEFINE b == made[p][k][U] * sz_offline_batch[U]
    <3>1. queue[p][k][U] \in Nat /\ b \in Nat
      BY Entries, LeftToDo
    <3>2. Spent(p, k, U)' = (b - queue'[p][k][U]) + ToTake(p, k, U)'
          /\ Spent(p, k, U) = (b - queue[p][k][U]) + ToTake(p, k, U)
      BY <1>1 DEF Spent, producers
    <3>3. queue'[p][k][U] = queue[p][k][U] - TakenAt(n, T, U)
      BY <1>1
    <3> HIDE DEF n, b
    <3> QED
      BY <2>4, <3>1, <3>2, <3>3
  <2>7. rounds'[p][k] = rounds[p][k] /\ (k = 0 => WillHaveI(p)' = WillHaveI(p))
    BY <1>1 DEF WillHaveI, ToMake, After, AllKinds
  <2> QED
    BY <1>3, <2>5, <2>6, <2>7 DEF SameAtEnd
<1> QED
  BY <1>2, <1>3

\* The inputs of a batch were left to make.
LEMMA SameAfterMakeIO ==
    ASSUME TypeOK, InputsOK, NEW p \in Players, NEW k \in OnlineThreads, MakeIO(p, k),
           NEW q \in Players, NEW j \in OnlineThreads
    PROVE  k = 0 /\ SameAtEnd(q, j)
<1> DEFINE n == agreed[p][k]
<1>1. PICK i \in n.make_inputs :
         /\ agreed'[p][k] = [n EXCEPT !.make_inputs = @ \ {i}]
         /\ totI'[p] = totI[p] + sz_IO_batch
         /\ \A r \in Players : r # p => totI'[r] = totI[r]
  BY MakeIOStep
<1>2. /\ spc[p][k] = "IO" /\ OnlyAt(agreed', agreed, p, k)
      /\ UNCHANGED <<queue, tot, producers, spc, rounds>>
  BY MakeIOStep
<1>3. k = 0
  BY <1>1 DEF InputsOK
<1>4. CASE q # p \/ j # k
  <2>1. /\ OnlyAt(spc', spc, p, k) /\ OnlyAt(rounds', rounds, p, k) /\ OnlyAt(tot', tot, p, k)
        /\ OnlyAt(made', made, p, k) /\ OnlyAt(queue', queue, p, k)
    BY <1>2 DEF OnlyAt, producers
  <2> QED
    BY <1>1, <1>2, <1>3, <1>4, <2>1, OthersSame
<1>5. CASE q = p /\ j = k
  <2>1. agreed'[p][k].nm = n.nm /\ agreed'[p][k].ns = n.ns /\ agreed'[p][k].nb = n.nb
    BY MakeIOKeeps
  <2>2. \A T \in Kinds : /\ Keeps(agreed[p][k], T)' = Keeps(n, T)
                         /\ Takes(agreed[p][k], T)' = Takes(n, T)
    BY <2>1 DEF Keeps, Takes, Kept
  <2>3. \A T \in Kinds : WillHave(p, k, T)' = WillHave(p, k, T)
    BY <1>2, <2>2 DEF WillHave, ToKeep
  <2>4. \A T \in Kinds : Spent(p, k, T)' = Spent(p, k, T)
    BY <1>2, <2>1, <2>2 DEF Spent, ToTake, producers
  <2>5. WillHaveI(p)' = WillHaveI(p)
    <3> DEFINE I == n.make_inputs
               c == Cardinality(I)
               s == sz_IO_batch
    <3>1. n \in Numbers /\ agreed'[p][k].make_inputs = I \ {i}
      <4>1. n \in Numbers
        BY Entries
      <4> QED
        BY <1>1, <4>1 DEF Numbers
    <3>2. IsFiniteSet(I) /\ c \in Nat /\ Makes(n) = s * c
      BY <3>1, MakesRight
    <3>3. Cardinality(I \ {i}) = c - 1 /\ c - 1 \in Nat
      <4>1. i \in I
        OBVIOUS
      <4> HIDE DEF I
      <4>2. IsFiniteSet(I \ {i}) /\ Cardinality(I \ {i}) = c - 1
        BY <3>2, <4>1, FS_RemoveElement
      <4> QED
        BY <4>2, FS_CardinalityType
    <3>4. s * c = s * (c - 1) + s /\ s * (c - 1) \in Nat
      <4> DEFINE d == c - 1
      <4>1. d \in Nat /\ c = d + 1 /\ s \in Nat
        BY <3>2, <3>3, Constants
      <4> HIDE DEF d, c, s
      <4>2. (d + 1) * s = d * s + s /\ d * s \in Nat
        BY <4>1, TimesNext, TimesIn
      <4>3. s * (d + 1) = s * d + s /\ s * d \in Nat
        BY <4>1, <4>2
      <4> QED
        BY <4>1, <4>3 DEF d
    <3>5. Makes(agreed[p][k])' = s * (c - 1)
      BY <3>1, <3>3 DEF Makes
    <3>6. WillHaveI(p)' = (totI[p] + s) + s * (c - 1) /\ WillHaveI(p) = totI[p] + s * c
      BY <1>1, <1>2, <1>3, <3>2, <3>5 DEF WillHaveI, ToMake
    <3>7. totI[p] \in Nat /\ s \in Nat
      BY Entries, Constants
    <3> HIDE DEF c, s
    <3> QED
      BY <3>4, <3>6, <3>7
  <2> QED
    BY <1>2, <1>3, <1>5, <2>3, <2>4, <2>5 DEF SameAtEnd
<1> QED
  BY <1>3, <1>4, <1>5

\* To begin with what is there takes nothing yet.
LEMMA SameAfterWait ==
    ASSUME TypeOK, NEW p \in Players, NEW k \in OnlineThreads, WaitReady(p, k),
           NEW q \in Players, NEW j \in OnlineThreads
    PROVE  SameAtEnd(q, j)
<1>1. /\ spc[p][k] = "IO" /\ spc'[p][k] = "triples" /\ OnlyAt(spc', spc, p, k)
      /\ agreed[p][k].make_inputs = {}
      /\ UNCHANGED <<queue, tot, totI, made, agreed, rounds>>
  BY WaitStep DEF producers
<1>2. CASE q # p \/ j # k
  BY <1>1, <1>2, OthersSame, OnlySame DEF OnlyAt
<1>3. CASE q = p /\ j = k
  <2>1. \A T \in Kinds : WillHave(p, k, T)' = WillHave(p, k, T)
    BY <1>1 DEF WillHave, ToKeep, Keeps, Kept
  <2>2. \A T \in Kinds : Spent(p, k, T)' = Spent(p, k, T)
    BY <1>1 DEF Spent, ToTake, Takes
  <2>3. Makes(agreed[p][k]) = 0
    <3>1. Cardinality({}) = 0
      BY FS_EmptySet
    <3> QED
      BY <1>1, <3>1, Constants DEF Makes
  <2>4. k = 0 => WillHaveI(p)' = WillHaveI(p)
    BY <1>1, <2>3 DEF WillHaveI, ToMake
  <2> QED
    BY <1>1, <1>3, <2>1, <2>2, <2>4 DEF SameAtEnd
<1> QED
  BY <1>2, <1>3

\* The end of a round, and a proposal, take and keep nothing.
LEMMA SameOutOfRound ==
    ASSUME TypeOK, NEW p \in Players, NEW k \in OnlineThreads, EndRound(p, k) \/ Propose(p, k),
           NEW q \in Players, NEW j \in OnlineThreads
    PROVE  SameAtEnd(q, j)
<1>1. /\ OnlyAt(spc', spc, p, k) /\ OnlyAt(agreed', agreed, p, k)
      /\ (~InRound(p, k) \/ spc[p][k] = "end") /\ ~InRound(p, k)'
      /\ agreed'[p][k] = agreed[p][k] \/ ~InRound(p, k)
      /\ UNCHANGED <<queue, tot, totI, made, rounds>>
  <2>1. CASE EndRound(p, k)
    <3>1. /\ OnlyAt(spc', spc, p, k) /\ UNCHANGED <<queue, tot, totI, producers, agreed, rounds>>
          /\ spc[p][k] \in {"end", "exit"} /\ spc'[p][k] \in {"out", "propose"}
      BY <2>1, EndStep
    <3> QED
      BY <3>1, OnlySame DEF InRound, producers, OnlyAt
  <2>2. CASE Propose(p, k)
    BY <2>2, ProposeStep DEF InRound, producers
  <2> QED
    BY <2>1, <2>2
<1>2. CASE q # p \/ j # k
  <2>1. /\ OnlyAt(rounds', rounds, p, k) /\ OnlyAt(tot', tot, p, k)
        /\ OnlyAt(made', made, p, k) /\ OnlyAt(queue', queue, p, k)
    BY <1>1 DEF OnlyAt
  <2> QED
    BY <1>1, <1>2, <2>1, OthersSame
<1>3. CASE q = p /\ j = k
  BY <1>1, <1>3, NothingDone
<1> QED
  BY <1>2, <1>3

\* A step that changes nothing of the rounds.
LEMMA SameOtherwise ==
    ASSUME UNCHANGED <<spc, agreed, rounds, tot, totI, made, queue>>,
           NEW q \in Players, NEW j \in OnlineThreads
    PROVE  SameAtEnd(q, j)
BY NothingDone

---------------------------------------------------------------------------
(* The sacrifice threads go in step.                                       *)

\* Nobody proposes or collects, and all will have the same as before.
LEMMA InStepSame ==
    ASSUME NEW k \in OnlineThreads, NEW C \in [Players -> Nat],
           NEW X \in [Players -> [Nat -> Numbers]], InStepWith(k, C, X),
           \A p \in Players :
              /\ Collecting(p, k)' <=> Collecting(p, k)
              /\ Collecting(p, k) => agreed'[p][k] = agreed[p][k]
              /\ SameAtEnd(p, k)
              /\ \A q \in Players : offer'[p][q][k] = offer[p][q][k]
    PROVE  InStepWith(k, C, X)'
<1>1. \A p \in Players : Collecting(p, k)' = Collecting(p, k)
  BY DEF Collecting
<1>2. \A p \in Players : OneIf(Collecting(p, k))' = OneIf(Collecting(p, k))
  BY <1>1 DEF OneIf
<1>3. InStep(k, C)'
  BY <1>2 DEF InStepWith, InStep
<1>4. Offered(k, C, X)'
  <2> SUFFICES ASSUME NEW p \in Players
               PROVE  /\ Collecting(p, k)' => agreed'[p][k] = X[p][C[p] + 1]
                      /\ \A q \in Players \ {p} :
                            /\ Len(offer'[p][q][k]) = C[p] + OneIf(Collecting(p, k))' - C[q]
                            /\ \A n \in 1 .. Len(offer'[p][q][k]) :
                                  offer'[p][q][k][n] = X[p][C[q] + n]
    BY DEF Offered
  <2>1. /\ Collecting(p, k) => agreed[p][k] = X[p][C[p] + 1]
        /\ \A q \in Players \ {p} :
              /\ Len(offer[p][q][k]) = C[p] + OneIf(Collecting(p, k)) - C[q]
              /\ \A n \in 1 .. Len(offer[p][q][k]) : offer[p][q][k][n] = X[p][C[q] + n]
    BY DEF InStepWith, Offered
  <2>2. Collecting(p, k)' => agreed'[p][k] = X[p][C[p] + 1]
    BY <1>1, <2>1
  <2>3. \A q \in Players : offer'[p][q][k] = offer[p][q][k]
    OBVIOUS
  <2> QED
    BY <1>2, <2>1, <2>2, <2>3, SMTT(30)
<1>5. SameAmounts(k, C, X)'
  BY DEF InStepWith, SameAmounts, SameAtEnd
<1> QED
  BY <1>3, <1>4, <1>5 DEF InStepWith

\* p proposes for the (C[p] + 1)-st time, which nobody has collected.
LEMMA InStepPropose ==
    ASSUME TypeOK, NEW k \in OnlineThreads, NEW C \in [Players -> Nat],
           NEW X \in [Players -> [Nat -> Numbers]], InStepWith(k, C, X),
           NEW p \in Players, Propose(p, k)
    PROVE  \E Y \in [Players -> [Nat -> Numbers]] :
              /\ InStepWith(k, C, Y)'
              /\ \A q \in Players : Result(Y, C[q]) = Result(X, C[q])
<1>1. PICK n \in Numbers : n = Proposal(p, k)
  BY ProposalRight
<1> DEFINE row == [X[p] EXCEPT ![C[p] + 1] = n]
           Y   == [X EXCEPT ![p] = row]
<1>2. C[p] \in Nat /\ C[p] + 1 \in Nat /\ X[p] \in [Nat -> Numbers]
  OBVIOUS
<1>3. row \in [Nat -> Numbers] /\ row[C[p] + 1] = n /\ \A m \in Nat : m # C[p] + 1 => row[m] = X[p][m]
  BY <1>2
<1> HIDE DEF row
<1>4. /\ Y \in [Players -> [Nat -> Numbers]]
      /\ Y[p] = row /\ \A q \in Players : q # p => Y[q] = X[q]
  BY <1>3
<1> HIDE DEF Y
<1>5. /\ Y[p][C[p] + 1] = n
      /\ \A q \in Players, m \in Nat : q # p \/ m # C[p] + 1 => Y[q][m] = X[q][m]
  BY <1>3, <1>4
<1>6. /\ spc[p][k] = "propose" /\ spc'[p][k] = "collect" /\ OnlyAt(spc', spc, p, k)
      /\ agreed'[p][k] = n /\ OnlyAt(agreed', agreed, p, k)
      /\ \A q \in Players \ {p} : offer'[p][q][k] = Append(offer[p][q][k], n)
      /\ \A r, q \in Players, j \in OnlineThreads :
            r # p \/ q = p \/ j # k => offer'[r][q][j] = offer[r][q][j]
  BY <1>1, ProposeStep
<1>7. /\ ~Collecting(p, k) /\ Collecting(p, k)'
      /\ \A q \in Players \ {p} : Collecting(q, k)' = Collecting(q, k)
  BY <1>6 DEF Collecting, OnlyAt
<1>8. InStep(k, C) /\ Offered(k, C, X) /\ SameAmounts(k, C, X)
  BY DEF InStepWith
<1>9. \A q \in Players : C[q] \in Nat /\ C[q] <= C[p]
  BY <1>7, <1>8 DEF InStep, OneIf
<1>10. \A m \in Nat : m # C[p] + 1 => Result(Y, m) = Result(X, m)
  <2> SUFFICES ASSUME NEW m \in Nat, m # C[p] + 1 PROVE Result(Y, m) = Result(X, m)
    OBVIOUS
  <2>1. \A q \in Players : Y[q][m] = X[q][m]
    BY <1>5
  <2>2. {Y[q][m] : q \in Players} = {X[q][m] : q \in Players}
    BY <2>1
  <2> QED
    BY <2>2 DEF Result
<1>11. \A q \in Players : Result(Y, C[q]) = Result(X, C[q])
  <2> TAKE q \in Players
  <2>1. C[q] \in Nat /\ C[q] # C[p] + 1
    BY <1>2, <1>9
  <2> QED
    BY <1>10, <2>1
<1>12. InStep(k, C)'
  <2>1. \A q \in Players : OneIf(Collecting(q, k))' \in Nat
                           /\ OneIf(Collecting(q, k))' >= OneIf(Collecting(q, k))
    BY <1>7 DEF OneIf
  <2>2. \A q \in Players : OneIf(Collecting(q, k)) \in Nat
    BY DEF OneIf
  <2> QED
    BY <1>8, <1>9, <2>1, <2>2 DEF InStep
<1>13. Offered(k, C, Y)'
  <2> SUFFICES ASSUME NEW r \in Players
               PROVE  /\ Collecting(r, k)' => agreed'[r][k] = Y[r][C[r] + 1]
                      /\ \A q \in Players \ {r} :
                            /\ Len(offer'[r][q][k]) = C[r] + OneIf(Collecting(r, k))' - C[q]
                            /\ \A m \in 1 .. Len(offer'[r][q][k]) :
                                  offer'[r][q][k][m] = Y[r][C[q] + m]
    BY DEF Offered
  <2>1. CASE r # p
    <3>1. /\ Collecting(r, k)' = Collecting(r, k) /\ agreed'[r][k] = agreed[r][k]
          /\ \A q \in Players : offer'[r][q][k] = offer[r][q][k]
          /\ \A m \in Nat : Y[r][m] = X[r][m]
      BY <1>5, <1>6, <1>7, <2>1 DEF OnlyAt
    <3>2. OneIf(Collecting(r, k))' = OneIf(Collecting(r, k))
      BY <3>1 DEF OneIf
    <3>3. C[r] + 1 \in Nat /\ \A q \in Players : C[q] \in Nat
      BY <1>9
    <3>4. /\ Collecting(r, k) => agreed[r][k] = X[r][C[r] + 1]
          /\ \A q \in Players \ {r} :
                /\ Len(offer[r][q][k]) = C[r] + OneIf(Collecting(r, k)) - C[q]
                /\ \A m \in 1 .. Len(offer[r][q][k]) : offer[r][q][k][m] = X[r][C[q] + m]
      BY <1>8 DEF Offered
    <3>5. Collecting(r, k)' => agreed'[r][k] = Y[r][C[r] + 1]
      BY <3>1, <3>3, <3>4
    <3>6. ASSUME NEW q \in Players \ {r}
          PROVE  /\ Len(offer'[r][q][k]) = C[r] + OneIf(Collecting(r, k))' - C[q]
                 /\ \A m \in 1 .. Len(offer'[r][q][k]) :
                       offer'[r][q][k][m] = Y[r][C[q] + m]
      <4> DEFINE old == offer[r][q][k]
      <4>1. offer'[r][q][k] = old
        BY <3>1
      <4>2. /\ Len(old) = C[r] + OneIf(Collecting(r, k)) - C[q]
            /\ \A m \in 1 .. Len(old) : old[m] = X[r][C[q] + m]
        BY <3>4
      <4> HIDE DEF old
      <4>3. \A m \in 1 .. Len(old) : old[m] = Y[r][C[q] + m]
        <5> TAKE m \in 1 .. Len(old)
        <5>1. C[q] + m \in Nat
          BY <3>3
        <5> QED
          BY <3>1, <4>2, <5>1
      <4> QED
        BY <3>2, <4>1, <4>2, <4>3
    <3> QED
      BY <3>5, <3>6
  <2>2. CASE r = p
    <3>1. Collecting(r, k)' => agreed'[r][k] = Y[r][C[r] + 1]
      BY <1>5, <1>6, <2>2
    <3>2. ASSUME NEW q \in Players \ {p}
          PROVE  /\ Len(offer'[p][q][k]) = C[p] + OneIf(Collecting(p, k))' - C[q]
                 /\ \A m \in 1 .. Len(offer'[p][q][k]) : offer'[p][q][k][m] = Y[p][C[q] + m]
      <4> DEFINE old == offer[p][q][k]
                 new == offer'[p][q][k]
      <4>1. old \in Seq(Numbers) /\ Len(old) \in Nat
        <5>1. old \in Seq(Numbers)
          BY Entries
        <5> HIDE DEF old
        <5> QED
          BY <5>1
      <4>2. /\ Len(old) = C[p] - C[q]
            /\ \A m \in 1 .. Len(old) : old[m] = X[p][C[q] + m]
        BY <1>7, <1>8, <1>9 DEF Offered, OneIf
      <4>3. OneIf(Collecting(p, k))' = 1
        BY <1>7 DEF OneIf
      <4>4. new = Append(old, n)
        BY <1>6
      <4> HIDE DEF old, new
      <4>5. Len(new) = Len(old) + 1
        BY <4>1, <4>4
      <4>6. \A m \in 1 .. Len(old) : new[m] = old[m]
        BY <4>1, <4>4
      <4>7. new[Len(old) + 1] = n
        BY <4>1, <4>4
      <4>8. C[q] \in Nat /\ C[q] + (Len(old) + 1) = C[p] + 1
        BY <1>2, <1>9, <4>1, <4>2
      <4>9. \A m \in 1 .. Len(old) : /\ C[q] + m \in Nat /\ C[q] + m # C[p] + 1
        BY <1>2, <4>1, <4>2, <4>8
      <4>10. \A m \in 1 .. Len(new) : new[m] = Y[p][C[q] + m]
        <5> TAKE m \in 1 .. Len(new)
        <5>1. CASE m \in 1 .. Len(old)
          BY <1>5, <4>2, <4>6, <4>9, <5>1
        <5>2. CASE m = Len(old) + 1
          BY <1>5, <4>7, <4>8, <5>2
        <5> QED
          BY <4>1, <4>5, <5>1, <5>2
      <4>11. Len(new) = C[p] + 1 - C[q]
        BY <1>2, <4>1, <4>2, <4>5, <4>8
      <4> QED
        BY <4>3, <4>10, <4>11 DEF new
    <3> QED
      BY <2>2, <3>1, <3>2
  <2> QED
    BY <2>1, <2>2
<1>14. SameAmounts(k, C, Y)'
  <2>1. \A q \in Players : SameAtEnd(q, k)
    BY SameOutOfRound
  <2>2. \A q \in Players : Result(Y, C[q])' = Result(X, C[q])
    <3>1. \A q \in Players : Result(Y, C[q])' = Result(Y, C[q])
      BY DEF Result, Combined
    <3> QED
      BY <1>11, <3>1
  <2> QED
    BY <1>8, <2>1, <2>2 DEF SameAmounts, SameAtEnd
<1> QED
  BY <1>4, <1>11, <1>12, <1>13, <1>14 DEF InStepWith

\* What a thread is to do when it has collected.
LEMMA NothingGained ==
    /\ \A T \in AllKinds : Gain(Nothing, T) = 0 /\ Loss(Nothing, T) = 0
    /\ GainI(Nothing) = 0
<1>1. /\ Nothing.nm = 0 /\ Nothing.ns = 0 /\ Nothing.nb = 0 /\ Nothing.make_inputs = {}
  BY DEF Nothing
<1>2. Kept(0) = 0 /\ rep * 0 = 0 /\ sz_IO_batch * 0 = 0
  <2>1. rep + 1 \in Nat /\ rep + 1 >= 1
    BY Constants
  <2>2. 0 \div (rep + 1) = 0
    <3> DEFINE d == rep + 1
    <3>1. d \in Nat /\ d >= 1
      BY <2>1
    <3> HIDE DEF d
    <3>2. 0 \div d = 0
      BY <3>1
    <3> QED
      BY <3>2 DEF d
  <2> QED
    BY <2>2, Constants DEF Kept
<1>3. Cardinality({}) = 0
  BY FS_EmptySet
<1> QED
  BY <1>1, <1>2, <1>3 DEF Gain, Loss, GainI, Keeps, Takes, Makes

\* Who collects has the numbers collected left to do.
LEMMA CollectGains ==
    ASSUME TypeOK, ReadyOK, NEW p \in Players, NEW k \in OnlineThreads, Collect(p, k),
           NEW n \in Numbers, n = Combined(Collected(p, k))
    PROVE  /\ \A T \in Kinds : /\ WillHave(p, k, T)' = WillHave(p, k, T) + Gain(n, T)
                               /\ Spent(p, k, T)' = Spent(p, k, T) + Loss(n, T)
           /\ rounds'[p][k] = rounds[p][k] + OneIf(n # Nothing)
           /\ k = 0 => WillHaveI(p)' = WillHaveI(p) + GainI(n)
           /\ \A q \in Players \ {p} : SameAtEnd(q, k)
<1>1. /\ spc[p][k] = "collect" /\ spc'[p][k] = AfterCollect(n) /\ OnlyAt(spc', spc, p, k)
      /\ agreed'[p][k] = n /\ OnlyAt(agreed', agreed, p, k)
      /\ rounds'[p][k] = rounds[p][k] + OneIf(n # Nothing) /\ OnlyAt(rounds', rounds, p, k)
      /\ UNCHANGED <<queue, tot, totI, made>>
  BY CollectStep DEF producers
<1>2. /\ ToMake(p, k) = 0 /\ \A T \in Kinds : ToKeep(p, k, T) = 0 /\ ToTake(p, k, T) = 0
  <2>1. ~InRound(p, k)
    BY <1>1 DEF InRound
  <2> QED
    BY <2>1, LeftToDo
<1>3. /\ ToMake(p, k)' = GainI(n)
      /\ \A T \in Kinds : ToKeep(p, k, T)' = Gain(n, T) /\ ToTake(p, k, T)' = Loss(n, T)
  <2>1. \A T \in Kinds : T \in AllKinds
    BY Constants
  <2>2. CASE n = Nothing
    <3>1. spc'[p][k] = "propose"
      BY <1>1, <2>2 DEF AfterCollect
    <3>2. ToMake(p, k)' = 0 /\ \A T \in Kinds : ToKeep(p, k, T)' = 0 /\ ToTake(p, k, T)' = 0
      BY <3>1 DEF ToMake, ToKeep, ToTake
    <3> QED
      BY <2>1, <2>2, <3>2, NothingGained
  <2>3. CASE n # Nothing /\ n.nm = -1
    <3>1. spc'[p][k] = "exit"
      BY <1>1, <2>3 DEF AfterCollect
    <3> QED
      BY <2>3, <3>1 DEF ToMake, ToKeep, ToTake, Gain, Loss, GainI
  <2>4. CASE n # Nothing /\ n.nm # -1
    <3>1. spc'[p][k] = "IO"
      BY <1>1, <2>4 DEF AfterCollect
    <3>2. ToMake(p, k)' = GainI(n)
      BY <1>1, <2>4, <3>1 DEF ToMake, GainI, Makes
    <3>3. \A T \in Kinds : ToKeep(p, k, T)' = Gain(n, T)
      BY <1>1, <2>1, <2>4, <3>1 DEF ToKeep, Gain, Keeps, Kept, AllKinds
    <3>4. \A T \in Kinds : ToTake(p, k, T)' = Loss(n, T)
      BY <1>1, <2>1, <2>4, <3>1 DEF ToTake, Loss, Takes, AllKinds
    <3> QED
      BY <3>2, <3>3, <3>4
  <2> QED
    BY <2>2, <2>3, <2>4
<1>4. ASSUME NEW T \in Kinds
      PROVE  /\ WillHave(p, k, T)' = WillHave(p, k, T) + Gain(n, T)
             /\ Spent(p, k, T)' = Spent(p, k, T) + Loss(n, T)
  <2> DEFINE b == made[p][k][T] * sz_offline_batch[T]
  <2>1. tot[p][k][T] \in Nat /\ queue[p][k][T] \in Nat /\ b \in Nat
    BY Entries, LeftToDo
  <2>2. Gain(n, T) \in Nat /\ Loss(n, T) \in Nat
    BY RoundRight, Constants
  <2>3. /\ WillHave(p, k, T)' = tot[p][k][T] + Gain(n, T) /\ WillHave(p, k, T) = tot[p][k][T] + 0
        /\ Spent(p, k, T)' = (b - queue[p][k][T]) + Loss(n, T)
        /\ Spent(p, k, T) = (b - queue[p][k][T]) + 0
    BY <1>1, <1>2, <1>3 DEF WillHave, Spent
  <2> HIDE DEF b
  <2> QED
    BY <2>1, <2>2, <2>3
<1>5. ASSUME k = 0 PROVE WillHaveI(p)' = WillHaveI(p) + GainI(n)
  <2>1. totI[p] \in Nat /\ GainI(n) \in Nat
    <3>1. "bits" \in AllKinds
      BY DEF AllKinds
    <3> QED
      BY <3>1, Entries, RoundRight
  <2>2. WillHaveI(p)' = totI[p] + GainI(n) /\ WillHaveI(p) = totI[p] + 0
    BY <1>1, <1>2, <1>3, <1>5 DEF WillHaveI
  <2> QED
    BY <2>1, <2>2
<1>6. ASSUME NEW q \in Players \ {p} PROVE SameAtEnd(q, k)
  <2>1. /\ OnlyAt(tot', tot, p, k) /\ OnlyAt(made', made, p, k) /\ OnlyAt(queue', queue, p, k)
    BY <1>1 DEF OnlyAt
  <2> QED
    BY <1>1, <2>1, OthersSame
<1> QED
  BY <1>1, <1>4, <1>5, <1>6

\* p collects what was proposed the (C[p] + 1)-st time.
LEMMA InStepCollect ==
    ASSUME TypeOK, ReadyOK, NEW k \in OnlineThreads, NEW C \in [Players -> Nat],
           NEW X \in [Players -> [Nat -> Numbers]], InStepWith(k, C, X),
           NEW p \in Players, Collect(p, k)
    PROVE  /\ Combined(Collected(p, k)) = Result(X, C[p] + 1)
           /\ InStepWith(k, [C EXCEPT ![p] = C[p] + 1], X)'
<1> DEFINE D   == [C EXCEPT ![p] = C[p] + 1]
           all == Result(X, C[p] + 1)
<1>1. InStep(k, C) /\ Offered(k, C, X) /\ SameAmounts(k, C, X)
  BY DEF InStepWith
<1>2. \A q \in Players : C[q] \in Nat /\ D[q] \in Nat /\ C[q] + 1 \in Nat
  OBVIOUS
<1>3. D[p] = C[p] + 1 /\ \A q \in Players \ {p} : D[q] = C[q]
  OBVIOUS
<1> HIDE DEF D
<1>4. /\ spc[p][k] = "collect" /\ OnlyAt(spc', spc, p, k) /\ OnlyAt(agreed', agreed, p, k)
      /\ spc'[p][k] = AfterCollect(Combined(Collected(p, k)))
      /\ Collected(p, k) \subseteq Numbers /\ Collected(p, k) # {}
      /\ \A q \in Players \ {p} : /\ offer[q][p][k] # <<>>
                                  /\ offer'[q][p][k] = Tail(offer[q][p][k])
      /\ \A r, q \in Players, j \in OnlineThreads :
            q # p \/ r = p \/ j # k => offer'[r][q][j] = offer[r][q][j]
  BY CollectStep
<1>5. /\ Collecting(p, k) /\ ~Collecting(p, k)'
      /\ \A q \in Players \ {p} : Collecting(q, k)' = Collecting(q, k)
  BY <1>4 DEF Collecting, OnlyAt, AfterCollect
<1>6. /\ OneIf(Collecting(p, k)) = 1 /\ OneIf(Collecting(p, k))' = 0
      /\ \A q \in Players \ {p} : OneIf(Collecting(q, k))' = OneIf(Collecting(q, k))
      /\ \A q \in Players : OneIf(Collecting(q, k)) \in {0, 1}
  BY <1>5 DEF OneIf
<1>7. ASSUME NEW q \in Players \ {p}
      PROVE  /\ offer[q][p][k] \in Seq(Numbers) /\ Len(offer[q][p][k]) \in Nat
             /\ Len(offer[q][p][k]) >= 1
             /\ Head(offer[q][p][k]) = X[q][C[p] + 1]
             /\ Len(offer[q][p][k]) = C[q] + OneIf(Collecting(q, k)) - C[p]
             /\ Len(offer'[q][p][k]) = Len(offer[q][p][k]) - 1
             /\ \A m \in 1 .. Len(offer'[q][p][k]) : offer'[q][p][k][m] = X[q][D[p] + m]
  <2> DEFINE old == offer[q][p][k]
             new == offer'[q][p][k]
  <2>1. old \in Seq(Numbers) /\ old # <<>> /\ new = Tail(old)
    BY <1>4, Entries
  <2>2. /\ Len(old) = C[q] + OneIf(Collecting(q, k)) - C[p]
        /\ \A m \in 1 .. Len(old) : old[m] = X[q][C[p] + m]
    BY <1>1 DEF Offered
  <2> HIDE DEF old, new
  <2>3. Len(old) \in Nat /\ Len(old) >= 1 /\ Head(old) = old[1] /\ Len(new) = Len(old) - 1
    BY <2>1
  <2>4. Head(old) = X[q][C[p] + 1]
    BY <2>2, <2>3
  <2>5. \A m \in 1 .. Len(new) : m + 1 \in 1 .. Len(old) /\ new[m] = old[m + 1]
    BY <2>1, <2>3
  <2>6. \A m \in 1 .. Len(new) : new[m] = X[q][D[p] + m]
    <3> TAKE m \in 1 .. Len(new)
    <3>1. new[m] = X[q][C[p] + (m + 1)]
      BY <2>2, <2>5
    <3>2. C[p] + (m + 1) = D[p] + m
      BY <1>2, <1>3, <2>3
    <3> QED
      BY <3>1, <3>2
  <2> QED
    BY <2>1, <2>2, <2>3, <2>4, <2>6 DEF old, new
<1>8. Combined(Collected(p, k)) = all
  <2>1. agreed[p][k] = X[p][C[p] + 1]
    BY <1>1, <1>5 DEF Offered
  <2>2. Collected(p, k) = {X[q][C[p] + 1] : q \in Players}
    <3>1. \A q \in Players \ {p} : Head(offer[q][p][k]) = X[q][C[p] + 1]
      BY <1>7
    <3> DEFINE f(q) == X[q][C[p] + 1]
    <3>2. {Head(offer[q][p][k]) : q \in Players \ {p}} = {f(q) : q \in Players \ {p}}
      BY <3>1
    <3>3. agreed[p][k] = f(p)
      BY <2>1
    <3> HIDE DEF f
    <3>4. {f(p)} \cup {f(q) : q \in Players \ {p}} = {f(q) : q \in Players}
      OBVIOUS
    <3>5. Collected(p, k) = {f(q) : q \in Players}
      BY <3>2, <3>3, <3>4 DEF Collected
    <3> QED
      BY <3>5 DEF f
  <2> QED
    BY <2>2 DEF Result
<1>9. all \in Numbers
  BY <1>4, <1>8, CombinedRight
<1>10. InStep(k, D)'
  <2>1. \A q \in Players \ {p} : C[p] + 1 <= C[q] + OneIf(Collecting(q, k))
    <3> TAKE q \in Players \ {p}
    <3>1. /\ Len(offer[q][p][k]) \in Nat /\ Len(offer[q][p][k]) >= 1
          /\ Len(offer[q][p][k]) = C[q] + OneIf(Collecting(q, k)) - C[p]
      BY <1>7
    <3>2. C[q] \in Nat /\ C[p] \in Nat /\ OneIf(Collecting(q, k)) \in {0, 1}
      BY <1>2, <1>6
    <3> QED
      BY <3>1, <3>2
  <2>2. \A q, r \in Players : C[q] <= C[r] + OneIf(Collecting(r, k))
    BY <1>1 DEF InStep
  <2>3. ASSUME NEW q \in Players, NEW r \in Players
        PROVE  D[q] <= D[r] + OneIf(Collecting(r, k))'
    <3>1. CASE q = p /\ r = p
      BY <1>2, <1>6, <3>1
    <3>2. CASE q = p /\ r # p
      BY <1>3, <1>6, <2>1, <3>2
    <3>3. CASE q # p /\ r = p
      BY <1>2, <1>3, <1>6, <2>2, <3>3
    <3>4. CASE q # p /\ r # p
      BY <1>3, <1>6, <2>2, <3>4
    <3> QED
      BY <3>1, <3>2, <3>3, <3>4
  <2> QED
    BY <2>3 DEF InStep
<1>11. Offered(k, D, X)'
  <2> SUFFICES ASSUME NEW r \in Players
               PROVE  /\ Collecting(r, k)' => agreed'[r][k] = X[r][D[r] + 1]
                      /\ \A q \in Players \ {r} :
                            /\ Len(offer'[r][q][k]) = D[r] + OneIf(Collecting(r, k))' - D[q]
                            /\ \A m \in 1 .. Len(offer'[r][q][k]) :
                                  offer'[r][q][k][m] = X[r][D[q] + m]
    BY DEF Offered
  <2>1. Collecting(r, k)' => agreed'[r][k] = X[r][D[r] + 1]
    <3>1. CASE r = p
      BY <1>5, <3>1
    <3>2. CASE r # p
      BY <1>1, <1>3, <1>4, <1>5, <3>2 DEF Offered, OnlyAt
    <3> QED
      BY <3>1, <3>2
  <2>2. ASSUME NEW q \in Players \ {r}
        PROVE  /\ Len(offer'[r][q][k]) = D[r] + OneIf(Collecting(r, k))' - D[q]
               /\ \A m \in 1 .. Len(offer'[r][q][k]) : offer'[r][q][k][m] = X[r][D[q] + m]
    <3>1. CASE q = p
      <4>1. /\ Len(offer[r][p][k]) \in Nat
            /\ Len(offer[r][p][k]) = C[r] + OneIf(Collecting(r, k)) - C[p]
            /\ Len(offer'[r][p][k]) = Len(offer[r][p][k]) - 1
            /\ \A m \in 1 .. Len(offer'[r][p][k]) : offer'[r][p][k][m] = X[r][D[p] + m]
        BY <1>7, <3>1
      <4>2. /\ C[r] \in Nat /\ C[p] \in Nat /\ D[p] = C[p] + 1 /\ D[r] = C[r]
            /\ OneIf(Collecting(r, k))' = OneIf(Collecting(r, k))
            /\ OneIf(Collecting(r, k)) \in {0, 1}
        BY <1>2, <1>3, <1>6, <3>1
      <4>3. Len(offer'[r][p][k]) = D[r] + OneIf(Collecting(r, k))' - D[p]
        BY <4>1, <4>2, SMTT(30)
      <4> QED
        BY <3>1, <4>1, <4>3
    <3>2. CASE q # p
      <4>1. offer'[r][q][k] = offer[r][q][k] /\ D[q] = C[q]
        BY <1>3, <1>4, <3>2
      <4>2. /\ Len(offer[r][q][k]) = C[r] + OneIf(Collecting(r, k)) - C[q]
            /\ \A m \in 1 .. Len(offer[r][q][k]) : offer[r][q][k][m] = X[r][C[q] + m]
        BY <1>1 DEF Offered
      <4>3. Len(offer'[r][q][k]) = D[r] + OneIf(Collecting(r, k))' - D[q]
        <5>1. CASE r = p
          BY <1>2, <1>3, <1>6, <4>1, <4>2, <5>1
        <5>2. CASE r # p
          BY <1>2, <1>3, <1>6, <4>1, <4>2, <5>2
        <5> QED
          BY <5>1, <5>2
      <4>4. \A m \in 1 .. Len(offer'[r][q][k]) : offer'[r][q][k][m] = X[r][D[q] + m]
        BY <4>1, <4>2
      <4> QED
        BY <4>3, <4>4
    <3> QED
      BY <3>1, <3>2
  <2> QED
    BY <2>1, <2>2
<1>12. SameAmounts(k, D, X)'
  <2>1. /\ \A T \in Kinds : /\ WillHave(p, k, T)' = WillHave(p, k, T) + Gain(all, T)
                            /\ Spent(p, k, T)' = Spent(p, k, T) + Loss(all, T)
        /\ rounds'[p][k] = rounds[p][k] + OneIf(all # Nothing)
        /\ k = 0 => WillHaveI(p)' = WillHaveI(p) + GainI(all)
        /\ \A q \in Players \ {p} : SameAtEnd(q, k)
    BY <1>8, <1>9, CollectGains
  <2>2. \A q \in Players : C[q] <= C[p] + 1 /\ C[p] <= C[q] + 1
    BY <1>1, <1>2, <1>6 DEF InStep
  <2> DEFINE Equal(q, r) ==
                /\ \A T \in Kinds : /\ WillHave(q, k, T) = WillHave(r, k, T)
                                    /\ Spent(q, k, T) = Spent(r, k, T)
                /\ rounds[q][k] = rounds[r][k]
                /\ k = 0 => WillHaveI(q) = WillHaveI(r)
             OneMore(q, r, n) ==
                /\ \A T \in Kinds : /\ WillHave(q, k, T) = WillHave(r, k, T) + Gain(n, T)
                                    /\ Spent(q, k, T) = Spent(r, k, T) + Loss(n, T)
                /\ rounds[q][k] = rounds[r][k] + OneIf(n # Nothing)
                /\ k = 0 => WillHaveI(q) = WillHaveI(r) + GainI(n)
  <2>3. \A r, q \in Players : /\ C[q] = C[r] => Equal(q, r)
                              /\ C[q] = C[r] + 1 => OneMore(q, r, Result(X, C[q]))
    BY <1>1 DEF SameAmounts
  <2>4. ASSUME NEW q \in Players \ {p}
        PROVE  /\ Equal(p, q) => OneMore(p, q, all)'
               /\ OneMore(q, p, all) => Equal(p, q)' /\ Equal(q, p)'
    BY <2>1 DEF SameAtEnd
  <2>5. ASSUME NEW q \in Players \ {p}, NEW r \in Players \ {p}
        PROVE  /\ Equal(q, r) => Equal(q, r)'
               /\ \A n : OneMore(q, r, n) => OneMore(q, r, n)'
    BY <2>1 DEF SameAtEnd
  <2>6. ASSUME NEW q \in Players PROVE Equal(q, q)'
    OBVIOUS
  <2> HIDE DEF Equal, OneMore, all
  <2>7. ASSUME NEW q \in Players, NEW r \in Players
        PROVE  /\ D[q] = D[r] => Equal(q, r)'
               /\ D[q] = D[r] + 1 => OneMore(q, r, Result(X, D[q]))'
    <3>1. CASE q = r
      BY <1>2, <2>6, <3>1
    <3>2. CASE q = p /\ r # p
      <4>1. ASSUME D[p] = D[r] PROVE Equal(p, r)'
        <5>1. C[r] = C[p] + 1
          BY <1>2, <1>3, <3>2, <4>1
        <5>2. OneMore(r, p, all)
          BY <2>3, <5>1 DEF all
        <5> QED
          BY <2>4, <3>2, <5>2
      <4>2. ASSUME D[p] = D[r] + 1 PROVE OneMore(p, r, Result(X, D[p]))'
        <5>1. C[p] = C[r]
          BY <1>2, <1>3, <3>2, <4>2
        <5>2. OneMore(p, r, all)'
          BY <2>3, <2>4, <3>2, <5>1
        <5> QED
          BY <1>3, <5>2 DEF all
      <4> QED
        BY <3>2, <4>1, <4>2
    <3>3. CASE q # p /\ r = p
      <4>1. ASSUME D[q] = D[p] PROVE Equal(q, p)'
        <5>1. C[q] = C[p] + 1
          BY <1>2, <1>3, <3>3, <4>1
        <5>2. OneMore(q, p, all)
          BY <2>3, <5>1 DEF all
        <5> QED
          BY <2>4, <3>3, <5>2
      <4>2. D[q] # D[p] + 1
        BY <1>2, <1>3, <2>2, <3>3
      <4> QED
        BY <3>3, <4>1, <4>2
    <3>4. CASE q # p /\ r # p
      BY <1>3, <2>3, <2>5, <3>4
    <3> QED
      BY <3>1, <3>2, <3>3, <3>4
  <2> QED
    BY <2>7 DEF SameAmounts, Equal, OneMore
<1> QED
  BY <1>8, <1>10, <1>11, <1>12 DEF InStepWith, D

\* Nobody of the threads k proposes or collects in a step of p's thread j.
LEMMA InStepKept ==
    ASSUME NEW k \in OnlineThreads, NEW C \in [Players -> Nat],
           NEW X \in [Players -> [Nat -> Numbers]], InStepWith(k, C, X),
           NEW p \in Players, NEW j \in OnlineThreads,
           OnlyAt(spc', spc, p, j), OnlyAt(agreed', agreed, p, j),
           j = k => spc[p][k] # "collect" /\ spc'[p][k] # "collect",
           \A q, r \in Players : offer'[q][r][k] = offer[q][r][k],
           \A q \in Players : SameAtEnd(q, k)
    PROVE  InStepWith(k, C, X)'
<1>1. ASSUME NEW q \in Players
      PROVE  /\ Collecting(q, k)' <=> Collecting(q, k)
             /\ Collecting(q, k) => agreed'[q][k] = agreed[q][k]
  <2>1. CASE q = p /\ j = k
    BY <2>1 DEF Collecting
  <2>2. CASE q # p \/ j # k
    BY <2>2 DEF Collecting, OnlyAt
  <2> QED
    BY <2>1, <2>2
<1> QED
  BY <1>1, InStepSame

\* How the thread k of p stands with c collected, the last time n.
EndsRight(p, k, c, n) ==
    /\ spc[p][k] \in {"propose", "collect"} => c = 0 \/ ~Ends(p, k, n)
    /\ spc[p][k] = "out" => c > 0 /\ Ends(p, k, n)
    /\ spc[p][k] = "exit" => c > 0 /\ n.nm = -1
    /\ InRound(p, k) => c > 0 /\ n.nm # -1 /\ n # Nothing

\* Who decides alike decides as before if it has as much.
LEMMA EnoughSame ==
    ASSUME NEW p \in Players, NEW k \in OnlineThreads, DecideAlike(k),
           tot'[p][k] = tot[p][k], k = 0 => totI'[p] = totI[p]
    PROVE  EnoughData(p, k)' = EnoughData(p, k)
<1>1. CASE k = 0
  BY <1>1 DEF EnoughData, Over
<1>2. CASE \E T \in Kinds : max[T] = 0
  <2>1. EnoughData(p, k) = FALSE
    BY <1>2 DEF EnoughData, Over
  <2>2. EnoughData(p, k)' = FALSE
    BY <1>2 DEF EnoughData, Over
  <2> QED
    BY <2>1, <2>2
<1> QED
  BY <1>1, <1>2 DEF DecideAlike

\* A thread that stays where it is, or in its round, stands as before.
LEMMA EndsKept ==
    ASSUME NEW p \in Players, NEW k \in OnlineThreads, DecideAlike(k),
           NEW c, NEW n, EndsRight(p, k, c, n),
           \/ /\ spc'[p][k] = spc[p][k] /\ tot'[p][k] = tot[p][k]
              /\ k = 0 => totI'[p] = totI[p]
           \/ InRound(p, k) /\ InRound(p, k)'
    PROVE  EndsRight(p, k, c, n)'
<1>1. CASE /\ spc'[p][k] = spc[p][k] /\ tot'[p][k] = tot[p][k]
           /\ k = 0 => totI'[p] = totI[p]
  <2>1. EnoughData(p, k)' = EnoughData(p, k)
    BY <1>1, EnoughSame
  <2>2. Ends(p, k, n)' <=> Ends(p, k, n)
    BY <2>1 DEF Ends
  <2> QED
    BY <1>1, <2>2 DEF EndsRight, InRound
<1>2. CASE InRound(p, k) /\ InRound(p, k)'
  BY <1>2 DEF EndsRight, InRound
<1> QED
  BY <1>1, <1>2

\* A step of a thread after which that thread stands right.
LEMMA EndsElsewhere ==
    ASSUME NEW k \in OnlineThreads, DecideAlike(k),
           NEW C \in [Players -> Nat], NEW X, SameEnd(k, C, X),
           NEW p \in Players, NEW j \in OnlineThreads,
           OnlyAt(spc', spc, p, j), OnlyAt(tot', tot, p, j),
           \A q \in Players : q # p \/ j # 0 => totI'[q] = totI[q],
           j = k => EndsRight(p, k, C[p], Result(X, C[p]))'
    PROVE  SameEnd(k, C, X)'
<1>1. \A q \in Players : EndsRight(q, k, C[q], Result(X, C[q]))
  BY DEF SameEnd, EndsRight
<1>2. ASSUME NEW q \in Players PROVE EndsRight(q, k, C[q], Result(X, C[q]))'
  <2>1. CASE q = p /\ k = j
    BY <2>1
  <2>2. CASE q # p \/ k # j
    <3>1. spc'[q][k] = spc[q][k] /\ tot'[q][k] = tot[q][k] /\ (k = 0 => totI'[q] = totI[q])
      BY <2>2 DEF OnlyAt
    <3> DEFINE c == C[q]
               n == Result(X, c)
    <3>2. EndsRight(q, k, c, n)
      BY <1>1
    <3> HIDE DEF n, c
    <3>3. EndsRight(q, k, c, n)'
      BY <3>1, <3>2, EndsKept
    <3> QED
      BY <3>3 DEF n, c
  <2> QED
    BY <2>1, <2>2
<1> QED
  BY <1>2 DEF SameEnd, EndsRight

\* A step of no sacrifice thread.
LEMMA EndsAllSame ==
    ASSUME NEW k \in OnlineThreads, NEW C \in [Players -> Nat], NEW X, SameEnd(k, C, X),
           UNCHANGED <<spc, tot, totI>>
    PROVE  SameEnd(k, C, X)'
<1>1. \A q \in Players : EnoughData(q, k)' = EnoughData(q, k)
  BY DEF EnoughData, Over
<1> QED
  BY <1>1 DEF SameEnd, Ends, InRound

\* At the start nobody has proposed or collected.
LEMMA LockstepInit == Init => LockstepOK
<1> SUFFICES ASSUME Init, NEW k \in OnlineThreads
             PROVE  \E C \in [Players -> Nat], X \in [Players -> [Nat -> Numbers]] :
                       InStepWith(k, C, X) /\ (DecideAlike(k) => SameEnd(k, C, X))
  BY DEF LockstepOK
<1>1. TypeOK
  BY TypeInit
<1>2. \A p \in Players :
         /\ spc[p][k] = "propose" /\ rounds[p][k] = 0 /\ totI[p] = 0
         /\ \A T \in Kinds : tot[p][k][T] = 0 /\ made[p][k][T] = 0 /\ queue[p][k][T] = 0
         /\ \A q \in Players : offer[p][q][k] = <<>>
  BY DEF Init, EveryKind, Everywhere
<1>3. Nothing \in Numbers
  <2>1. agreed[0][k] = Nothing /\ agreed[0][k] \in Numbers
    BY <1>1, Entries, Constants DEF Init, Everywhere
  <2> QED
    BY <2>1
<1> DEFINE C == [p \in Players |-> 0]
           X == [p \in Players |-> [n \in Nat |-> Nothing]]
<1>4. C \in [Players -> Nat] /\ \A p \in Players : C[p] = 0
  OBVIOUS
<1>5. X \in [Players -> [Nat -> Numbers]]
  <2>1. [n \in Nat |-> Nothing] \in [Nat -> Numbers]
    BY <1>3
  <2> HIDE DEF Nothing
  <2> QED
    BY <2>1
<1> HIDE DEF C, X
<1>6. \A p \in Players : ~Collecting(p, k) /\ OneIf(Collecting(p, k)) = 0
  BY <1>2 DEF Collecting, OneIf
<1>7. InStep(k, C)
  BY <1>4, <1>6 DEF InStep
<1>8. Offered(k, C, X)
  BY <1>2, <1>4, <1>6 DEF Offered
<1>9. SameAmounts(k, C, X)
  <2>1. \A p, q \in Players :
           /\ \A T \in Kinds : WillHave(q, k, T) = WillHave(p, k, T) /\ Spent(q, k, T) = Spent(p, k, T)
           /\ rounds[q][k] = rounds[p][k]
           /\ k = 0 => WillHaveI(q) = WillHaveI(p)
    BY <1>2 DEF WillHave, ToKeep, Spent, ToTake, WillHaveI, ToMake
  <2> QED
    BY <1>4, <2>1 DEF SameAmounts
<1>10. DecideAlike(k) => SameEnd(k, C, X)
  BY <1>2, <1>4 DEF SameEnd, InRound
<1> QED
  BY <1>4, <1>5, <1>7, <1>8, <1>9, <1>10 DEF InStepWith

InLockstep(k, C, X) == InStepWith(k, C, X) /\ (DecideAlike(k) => SameEnd(k, C, X))

\* A step of p's thread j in which the threads k neither propose nor collect.
LEMMA StillInStep ==
    ASSUME NEW k \in OnlineThreads, NEW C \in [Players -> Nat],
           NEW X \in [Players -> [Nat -> Numbers]], InLockstep(k, C, X),
           NEW p \in Players, NEW j \in OnlineThreads,
           OnlyAt(spc', spc, p, j), OnlyAt(agreed', agreed, p, j),
           j = k => spc[p][k] # "collect" /\ spc'[p][k] # "collect",
           \A q, r \in Players : offer'[q][r][k] = offer[q][r][k],
           \A q \in Players : SameAtEnd(q, k),
           OnlyAt(tot', tot, p, j), \A q \in Players : q # p \/ j # 0 => totI'[q] = totI[q],
           DecideAlike(k) /\ j = k => EndsRight(p, k, C[p], Result(X, C[p]))'
    PROVE  InLockstep(k, C, X)'
<1>1. InStepWith(k, C, X) /\ (DecideAlike(k) => SameEnd(k, C, X))
  BY DEF InLockstep
<1>2. InStepWith(k, C, X)'
  BY <1>1, InStepKept
<1>3. ASSUME DecideAlike(k) PROVE SameEnd(k, C, X)'
  BY <1>1, <1>3, EndsElsewhere
<1> QED
  BY <1>2, <1>3 DEF InLockstep

\* How each of the threads k stands.
LEMMA EndsNow ==
    ASSUME NEW k, NEW C, NEW X, SameEnd(k, C, X), NEW p \in Players
    PROVE  EndsRight(p, k, C[p], Result(X, C[p]))
BY DEF SameEnd, EndsRight

\* The round a thread is in has been agreed.
LEMMA EndsInRound ==
    ASSUME NEW k \in OnlineThreads, NEW C, NEW X, InLockstep(k, C, X), NEW p \in Players,
           NEW j \in OnlineThreads, j = k => InRound(p, k) /\ InRound(p, k)'
    PROVE  DecideAlike(k) /\ j = k => EndsRight(p, k, C[p], Result(X, C[p]))'
<1> SUFFICES ASSUME DecideAlike(k), j = k PROVE EndsRight(p, k, C[p], Result(X, C[p]))'
  OBVIOUS
<1> DEFINE c == C[p]
           n == Result(X, c)
<1>1. EndsRight(p, k, c, n)
  BY EndsNow DEF InLockstep
<1> HIDE DEF c, n
<1>2. EndsRight(p, k, c, n)'
  BY <1>1, EndsKept
<1> QED
  BY <1>2 DEF c, n

\* A step of a producer or an online thread.
LEMMA LockstepProduce ==
    ASSUME TypeOK, NEW k \in OnlineThreads, NEW C \in [Players -> Nat],
           NEW X \in [Players -> [Nat -> Numbers]], InLockstep(k, C, X),
           \/ UNCHANGED vars
           \/ \E p \in Players, j \in OnlineThreads, T \in Kinds : Producer(p, j, T)
           \/ /\ InputsOK /\ TakeOK
              /\ \E p \in Players, j \in OnlineThreads : Online(p, j)
    PROVE  InLockstep(k, C, X)'
<1>1. UNCHANGED <<spc, agreed, offer, rounds, tot, totI>> /\ \A q \in Players : SameAtEnd(q, k)
  <2>1. CASE UNCHANGED vars
    BY <2>1, SameOtherwise DEF vars, sacrificer, producers
  <2>2. CASE \E p \in Players, j \in OnlineThreads, T \in Kinds : Producer(p, j, T)
    BY <2>2, ProducerSteps, SameAfterProducer DEF Untouched, sacrificer
  <2>3. CASE InputsOK /\ TakeOK /\ \E p \in Players, j \in OnlineThreads : Online(p, j)
    <3>1. UNCHANGED <<queue, tot, totI, finished_offline, producers, sacrificer>>
      BY <2>3, OnlineStep
    <3> QED
      BY <3>1, SameOtherwise DEF sacrificer, producers
  <2> QED
    BY <2>1, <2>2, <2>3
<1>2. InStepWith(k, C, X)'
  <2>1. InStepWith(k, C, X)
    BY DEF InLockstep
  <2>2. \A p \in Players : /\ Collecting(p, k)' <=> Collecting(p, k)
                           /\ agreed'[p][k] = agreed[p][k]
                           /\ \A q \in Players : offer'[p][q][k] = offer[p][q][k]
    BY <1>1 DEF Collecting
  <2> QED
    BY <1>1, <2>1, <2>2, InStepSame
<1>3. ASSUME DecideAlike(k) PROVE SameEnd(k, C, X)'
  BY <1>1, <1>3, EndsAllSame DEF InLockstep
<1> QED
  BY <1>2, <1>3 DEF InLockstep

\* The steps of a round.
LEMMA LockstepRound ==
    ASSUME TypeOK, ReadyOK, InputsOK, NEW k \in OnlineThreads, NEW C \in [Players -> Nat],
           NEW X \in [Players -> [Nat -> Numbers]], InLockstep(k, C, X),
           NEW p \in Players, NEW j \in OnlineThreads,
           MakeIO(p, j) \/ WaitReady(p, j) \/ Sacrifices(p, j)
    PROVE  InLockstep(k, C, X)'
<1>1. CASE MakeIO(p, j)
  <2>1. /\ spc[p][j] = "IO" /\ OnlyAt(agreed', agreed, p, j)
        /\ UNCHANGED <<queue, tot, producers, spc, offer, rounds>>
        /\ \A q \in Players : q # p => totI'[q] = totI[q]
    BY <1>1, MakeIOStep, ZenonT(60)
  <2>2. j = 0 /\ \A q \in Players : SameAtEnd(q, k)
    BY <1>1, SameAfterMakeIO
  <2>3. /\ OnlyAt(spc', spc, p, j) /\ OnlyAt(tot', tot, p, j)
        /\ \A q, r \in Players : offer'[q][r][k] = offer[q][r][k]
        /\ j = k => spc[p][k] # "collect" /\ spc'[p][k] # "collect"
        /\ j = k => InRound(p, k) /\ InRound(p, k)'
    BY <2>1 DEF OnlyAt, InRound
  <2>4. DecideAlike(k) /\ j = k => EndsRight(p, k, C[p], Result(X, C[p]))'
    BY <2>3, EndsInRound
  <2> QED
    BY <2>1, <2>2, <2>3, <2>4, StillInStep
<1>2. CASE WaitReady(p, j)
  <2>1. /\ spc[p][j] = "IO" /\ spc'[p][j] = "triples" /\ OnlyAt(spc', spc, p, j)
        /\ UNCHANGED <<tot, totI, agreed, offer>>
    BY <1>2, WaitStep
  <2>2. \A q \in Players : SameAtEnd(q, k)
    BY <1>2, SameAfterWait
  <2>3. /\ OnlyAt(agreed', agreed, p, j) /\ OnlyAt(tot', tot, p, j)
        /\ \A q, r \in Players : offer'[q][r][k] = offer[q][r][k]
        /\ \A q \in Players : totI'[q] = totI[q]
        /\ j = k => spc[p][k] # "collect" /\ spc'[p][k] # "collect"
        /\ j = k => InRound(p, k) /\ InRound(p, k)'
    BY <2>1 DEF OnlyAt, InRound
  <2>4. DecideAlike(k) /\ j = k => EndsRight(p, k, C[p], Result(X, C[p]))'
    BY <2>3, EndsInRound
  <2> QED
    BY <2>1, <2>2, <2>3, <2>4, StillInStep
<1>3. CASE Sacrifices(p, j)
  <2>1. PICK T \in AllKinds :
           /\ spc[p][j] = T /\ spc'[p][j] = After(T) /\ OnlyAt(spc', spc, p, j)
           /\ OnlyAt(tot', tot, p, j) /\ UNCHANGED <<totI, agreed, offer>>
    BY <1>3, SacrificeSteps
  <2>2. \A q \in Players : SameAtEnd(q, k)
    BY <1>3, SameAfterSacrifice
  <2>3. /\ OnlyAt(agreed', agreed, p, j)
        /\ \A q, r \in Players : offer'[q][r][k] = offer[q][r][k]
        /\ \A q \in Players : totI'[q] = totI[q]
        /\ j = k => spc[p][k] # "collect" /\ spc'[p][k] # "collect"
        /\ j = k => InRound(p, k) /\ InRound(p, k)'
    BY <2>1 DEF OnlyAt, InRound, AllKinds, After
  <2>4. DecideAlike(k) /\ j = k => EndsRight(p, k, C[p], Result(X, C[p]))'
    BY <2>3, EndsInRound
  <2> QED
    BY <2>1, <2>2, <2>3, <2>4, StillInStep
<1> QED
  BY <1>1, <1>2, <1>3

\* The end of a round.
LEMMA LockstepEnd ==
    ASSUME TypeOK, NEW k \in OnlineThreads, NEW C \in [Players -> Nat],
           NEW X \in [Players -> [Nat -> Numbers]], InLockstep(k, C, X),
           NEW p \in Players, NEW j \in OnlineThreads, EndRound(p, j)
    PROVE  InLockstep(k, C, X)'
<1>1. /\ spc[p][j] \in {"end", "exit"} /\ OnlyAt(spc', spc, p, j)
      /\ \/ spc'[p][j] = "out" /\ (spc[p][j] = "exit" \/ EnoughData(p, j))
         \/ spc'[p][j] = "propose" /\ spc[p][j] = "end" /\ ~EnoughData(p, j)
      /\ UNCHANGED <<tot, totI, agreed, offer>>
  BY EndStep
<1>2. \A q \in Players : SameAtEnd(q, k)
  BY SameOutOfRound
<1>3. /\ OnlyAt(agreed', agreed, p, j) /\ OnlyAt(tot', tot, p, j)
      /\ \A q, r \in Players : offer'[q][r][k] = offer[q][r][k]
      /\ \A q \in Players : totI'[q] = totI[q]
      /\ j = k => spc[p][k] # "collect" /\ spc'[p][k] # "collect"
  BY <1>1 DEF OnlyAt
<1>4. ASSUME DecideAlike(k), j = k PROVE EndsRight(p, k, C[p], Result(X, C[p]))'
  <2> DEFINE c == C[p]
             n == Result(X, c)
  <2>1. EndsRight(p, k, c, n)
    BY <1>4, EndsNow DEF InLockstep
  <2> HIDE DEF c, n
  <2>2. EnoughData(p, k)' = EnoughData(p, k)
    BY <1>1 DEF EnoughData, Over
  <2>3. Ends(p, k, n)' <=> Ends(p, k, n)
    BY <2>2 DEF Ends
  <2>4. EndsRight(p, k, c, n)'
    BY <1>1, <1>4, <2>1, <2>3 DEF EndsRight, InRound, Ends
  <2> QED
    BY <2>4 DEF c, n
<1> QED
  BY <1>1, <1>2, <1>3, <1>4, StillInStep

\* A proposal.
LEMMA LockstepPropose ==
    ASSUME TypeOK, NEW k \in OnlineThreads, NEW C \in [Players -> Nat],
           NEW X \in [Players -> [Nat -> Numbers]], InLockstep(k, C, X),
           NEW p \in Players, NEW j \in OnlineThreads, Propose(p, j)
    PROVE  \E Y \in [Players -> [Nat -> Numbers]] : InLockstep(k, C, Y)'
<1>1. /\ spc[p][j] = "propose" /\ spc'[p][j] = "collect" /\ OnlyAt(spc', spc, p, j)
      /\ OnlyAt(agreed', agreed, p, j)
      /\ \A r, q \in Players, i \in OnlineThreads : i # j => offer'[r][q][i] = offer[r][q][i]
      /\ UNCHANGED <<tot, totI>>
  BY ProposeStep
<1>2. OnlyAt(tot', tot, p, j) /\ \A q \in Players : totI'[q] = totI[q]
  BY <1>1 DEF OnlyAt
<1>3. ASSUME DecideAlike(k), j = k PROVE EndsRight(p, k, C[p], Result(X, C[p]))'
  <2> DEFINE c == C[p]
             n == Result(X, c)
  <2>1. EndsRight(p, k, c, n)
    BY <1>3, EndsNow DEF InLockstep
  <2> HIDE DEF c, n
  <2>2. EnoughData(p, k)' = EnoughData(p, k)
    BY <1>1 DEF EnoughData, Over
  <2>3. Ends(p, k, n)' <=> Ends(p, k, n)
    BY <2>2 DEF Ends
  <2>4. EndsRight(p, k, c, n)'
    BY <1>1, <1>3, <2>1, <2>3 DEF EndsRight, InRound
  <2> QED
    BY <2>4 DEF c, n
<1>4. CASE j # k
  <2>1. \A q \in Players : SameAtEnd(q, k)
    BY SameOutOfRound
  <2>2. InLockstep(k, C, X)'
    BY <1>1, <1>2, <1>3, <1>4, <2>1, StillInStep
  <2> QED
    BY <2>2
<1>5. CASE j = k
  <2>1. InStepWith(k, C, X) /\ (DecideAlike(k) => SameEnd(k, C, X))
    BY DEF InLockstep
  <2>2. PICK Y \in [Players -> [Nat -> Numbers]] :
           /\ InStepWith(k, C, Y)'
           /\ \A q \in Players : Result(Y, C[q]) = Result(X, C[q])
    BY <1>5, <2>1, InStepPropose
  <2>3. ASSUME DecideAlike(k) PROVE SameEnd(k, C, Y)'
    <3>1. SameEnd(k, C, X)'
      BY <1>1, <1>2, <1>3, <1>5, <2>1, <2>3, EndsElsewhere
    <3>2. \A q \in Players : Result(Y, C[q])' = Result(X, C[q])'
      <4>1. \A q \in Players : /\ Result(Y, C[q])' = Result(Y, C[q])
                               /\ Result(X, C[q])' = Result(X, C[q])
        BY DEF Result, Combined
      <4> QED
        BY <2>2, <4>1
    <3> QED
      BY <3>1, <3>2 DEF SameEnd
  <2> QED
    BY <2>2, <2>3 DEF InLockstep
<1> QED
  BY <1>4, <1>5

\* A collection.
LEMMA LockstepCollect ==
    ASSUME TypeOK, ReadyOK, NEW k \in OnlineThreads, NEW C \in [Players -> Nat],
           NEW X \in [Players -> [Nat -> Numbers]], InLockstep(k, C, X),
           NEW p \in Players, NEW j \in OnlineThreads, Collect(p, j)
    PROVE  \E D \in [Players -> Nat] : InLockstep(k, D, X)'
<1>1. /\ spc[p][j] = "collect" /\ OnlyAt(spc', spc, p, j) /\ OnlyAt(agreed', agreed, p, j)
      /\ spc'[p][j] = AfterCollect(Combined(Collected(p, j)))
      /\ \A r, q \in Players, i \in OnlineThreads : i # j => offer'[r][q][i] = offer[r][q][i]
      /\ OnlyAt(rounds', rounds, p, j) /\ UNCHANGED <<queue, tot, totI, producers>>
  BY CollectStep
<1>2. /\ OnlyAt(tot', tot, p, j) /\ OnlyAt(queue', queue, p, j) /\ OnlyAt(made', made, p, j)
      /\ \A q \in Players : totI'[q] = totI[q]
  BY <1>1 DEF OnlyAt, producers
<1>3. CASE j # k
  <2>1. \A q \in Players : SameAtEnd(q, k)
    BY <1>1, <1>2, <1>3, OthersSame
  <2>2. k # j
    BY <1>3
  <2>3. \A q, r \in Players : offer'[q][r][k] = offer[q][r][k]
    BY <1>1, <1>3
  <2>4. InLockstep(k, C, X)'
    BY <1>1, <1>2, <1>3, <2>1, <2>2, <2>3, StillInStep
  <2> QED
    BY <2>4
<1>4. CASE j = k
  <2> DEFINE D == [C EXCEPT ![p] = C[p] + 1]
             n == Result(X, C[p] + 1)
  <2>1. InStepWith(k, C, X) /\ (DecideAlike(k) => SameEnd(k, C, X))
    BY DEF InLockstep
  <2>2. Combined(Collected(p, k)) = n /\ InStepWith(k, D, X)'
    BY <1>4, <2>1, InStepCollect
  <2>3. D \in [Players -> Nat] /\ D[p] = C[p] + 1 /\ D[p] > 0
        /\ \A q \in Players \ {p} : D[q] = C[q]
    OBVIOUS
  <2>4. ASSUME DecideAlike(k) PROVE SameEnd(k, D, X)'
    <3>1. ASSUME NEW q \in Players \ {p}
          PROVE  EndsRight(q, k, D[q], Result(X, D[q]))'
      <4> DEFINE c == D[q]
                 m == Result(X, c)
      <4>1. EndsRight(q, k, c, m)
        BY <2>1, <2>3, <2>4, EndsNow
      <4>2. spc'[q][k] = spc[q][k] /\ tot'[q][k] = tot[q][k] /\ totI'[q] = totI[q]
        BY <1>1, <2>4 DEF OnlyAt
      <4> HIDE DEF c, m
      <4>3. EndsRight(q, k, c, m)'
        BY <2>4, <4>1, <4>2, EndsKept
      <4> QED
        BY <4>3 DEF c, m
    <3>2. EndsRight(p, k, D[p], Result(X, D[p]))'
      <4>1. Result(X, D[p]) = n
        BY <2>3
      <4>2. spc'[p][k] = AfterCollect(n)
        BY <1>1, <1>4, <2>2, <2>4
      <4>3. Nothing.nm # -1
        BY DEF Nothing
      <4> DEFINE d == D[p]
      <4>4. d > 0
        BY <2>3
      <4> HIDE DEF n, d
      <4>5. EndsRight(p, k, d, n)'
        BY <4>2, <4>3, <4>4 DEF EndsRight, AfterCollect, Ends, InRound
      <4>6. Result(X, d) = n
        BY <4>1 DEF d
      <4>7. Result(X, d)' = n
        BY <4>6 DEF Result, Combined
      <4> QED
        BY <4>5, <4>7 DEF d, EndsRight, Ends
    <3>3. \A q \in Players : EndsRight(q, k, D[q], Result(X, D[q]))'
      BY <3>1, <3>2
    <3> HIDE DEF D
    <3> QED
      BY <3>3 DEF SameEnd, EndsRight
  <2> HIDE DEF D
  <2> QED
    BY <2>2, <2>3, <2>4 DEF InLockstep
<1> QED
  BY <1>3, <1>4

\* Every step keeps the sacrifice threads in step.
LEMMA LockstepStep == TypeOK /\ IInv /\ LockstepOK /\ [Next]_vars => LockstepOK'
<1> SUFFICES ASSUME TypeOK, IInv, LockstepOK, [Next]_vars, NEW k \in OnlineThreads
             PROVE  \E C \in [Players -> Nat], X \in [Players -> [Nat -> Numbers]] :
                       InLockstep(k, C, X)'
  BY DEF LockstepOK, InLockstep
<1>1. InputsOK /\ ReadyOK /\ TakeOK
  BY DEF IInv
<1>2. PICK C \in [Players -> Nat], X \in [Players -> [Nat -> Numbers]] : InLockstep(k, C, X)
  BY DEF LockstepOK, InLockstep
<1>3. ASSUME NEW p \in Players, NEW j \in OnlineThreads, Propose(p, j)
      PROVE  \E Y \in [Players -> [Nat -> Numbers]] : InLockstep(k, C, Y)'
  BY <1>2, <1>3, LockstepPropose
<1>4. ASSUME NEW p \in Players, NEW j \in OnlineThreads, Collect(p, j)
      PROVE  \E D \in [Players -> Nat] : InLockstep(k, D, X)'
  BY <1>1, <1>2, <1>4, LockstepCollect
<1>5. ASSUME NEW p \in Players, NEW j \in OnlineThreads,
             MakeIO(p, j) \/ WaitReady(p, j) \/ Sacrifices(p, j)
      PROVE  InLockstep(k, C, X)'
  BY <1>1, <1>2, <1>5, LockstepRound
<1>6. ASSUME NEW p \in Players, NEW j \in OnlineThreads, EndRound(p, j)
      PROVE  InLockstep(k, C, X)'
  BY <1>2, <1>6, LockstepEnd
<1>7. ASSUME \/ UNCHANGED vars
             \/ \E p \in Players, j \in OnlineThreads, T \in Kinds : Producer(p, j, T)
             \/ \E p \in Players, j \in OnlineThreads : Online(p, j)
      PROVE  InLockstep(k, C, X)'
  BY <1>1, <1>2, <1>7, LockstepProduce
<1> QED
  BY <1>3, <1>4, <1>5, <1>6, <1>7, Steps

\* The sacrifice threads of the players go in step: nobody is more than one
\* collection ahead, and all have taken and made what was agreed by then.
THEOREM Lockstep == Spec => []LockstepOK
<1>1. TypeOK /\ IInv /\ LockstepOK /\ [Next]_vars => LockstepOK'
  BY LockstepStep
<1> QED
  BY <1>1, LockstepInit, Invariant, PTL DEF Spec

\* What is agreed is a proposal.
LEMMA ResultIn ==
    ASSUME NEW X \in [Players -> [Nat -> Numbers]], NEW n \in Nat
    PROVE  Result(X, n) \in Numbers
<1> DEFINE S == {X[p][n] : p \in Players}
<1>1. S \subseteq Numbers /\ S # {}
  BY Constants
<1> HIDE DEF S
<1>2. Combined(S) \in Numbers
  BY <1>1, CombinedRight
<1> QED
  BY <1>2 DEF Result, S

---------------------------------------------------------------------------
(* What TLC checks on small instances, for every instance.                 *)

\* What the players have, between two rounds of theirs.
LEMMA AmountsAgree ==
    ASSUME TypeOK, ReadyOK, NEW k \in OnlineThreads, NEW C \in [Players -> Nat],
           NEW X \in [Players -> [Nat -> Numbers]], InStepWith(k, C, X),
           NEW p \in Players, NEW q \in Players, ~InRound(p, k), ~InRound(q, k),
           C[q] = C[p] \/ (C[q] = C[p] + 1 /\ rounds[p][k] = rounds[q][k])
    PROVE  tot[p][k] = tot[q][k] /\ (k = 0 => totI[p] = totI[q])
<1> DEFINE n == Result(X, C[q])
<1>1. /\ ToMake(p, k) = 0 /\ ToMake(q, k) = 0
      /\ \A T \in Kinds : ToKeep(p, k, T) = 0 /\ ToKeep(q, k, T) = 0
  BY LeftToDo
<1>2. /\ totI[p] \in Nat /\ totI[q] \in Nat /\ rounds[p][k] \in Nat /\ rounds[q][k] \in Nat
      /\ \A T \in Kinds : tot[p][k][T] \in Nat /\ tot[q][k][T] \in Nat
  BY Entries
<1>3. /\ \A T \in Kinds : WillHave(p, k, T) = tot[p][k][T] /\ WillHave(q, k, T) = tot[q][k][T]
      /\ k = 0 => WillHaveI(p) = totI[p] /\ WillHaveI(q) = totI[q]
  BY <1>1, <1>2 DEF WillHave, WillHaveI
<1>4. /\ \A T \in Kinds : WillHave(q, k, T) = WillHave(p, k, T)
      /\ k = 0 => WillHaveI(q) = WillHaveI(p)
  <2>1. CASE C[q] = C[p]
    BY <2>1 DEF InStepWith, SameAmounts
  <2>2. CASE C[q] = C[p] + 1 /\ rounds[p][k] = rounds[q][k]
    <3>1. /\ \A T \in Kinds : WillHave(q, k, T) = WillHave(p, k, T) + Gain(n, T)
          /\ rounds[q][k] = rounds[p][k] + OneIf(n # Nothing)
          /\ k = 0 => WillHaveI(q) = WillHaveI(p) + GainI(n)
      BY <2>2 DEF InStepWith, SameAmounts
    <3>2. n = Nothing
      BY <1>2, <2>2, <3>1 DEF OneIf
    <3>3. (\A T \in Kinds : Gain(n, T) = 0) /\ GainI(n) = 0
      BY <3>2, NothingGained, Constants
    <3> HIDE DEF n
    <3> QED
      BY <1>2, <1>3, <3>1, <3>3
  <2> QED
    BY <2>1, <2>2
<1>5. tot[p][k] \in [Kinds -> Nat] /\ tot[q][k] \in [Kinds -> Nat]
  BY SMTT(30) DEF TypeOK, PerKind, PerThread
<1>6. \A T \in Kinds : tot[p][k][T] = tot[q][k][T]
  BY <1>3, <1>4
<1> QED
  BY <1>3, <1>4, <1>5, <1>6

\* Nobody is more than one collection ahead of another.
LEMMA OneAhead ==
    ASSUME NEW k, NEW C \in [Players -> Nat], InStep(k, C),
           NEW p \in Players, NEW q \in Players
    PROVE  C[q] = C[p] \/ (C[q] = C[p] + 1 /\ Collecting(p, k))
             \/ (C[p] = C[q] + 1 /\ Collecting(q, k))
<1>1. C[p] \in Nat /\ C[q] \in Nat
  OBVIOUS
<1>2. C[p] <= C[q] + OneIf(Collecting(q, k)) /\ C[q] <= C[p] + OneIf(Collecting(p, k))
  BY DEF InStep
<1> QED
  BY <1>1, <1>2 DEF OneIf

\* Players that have done as many rounds have made the same data.
THEOREM Agreement == Spec => []PlayersAgree
<1>1. TypeOK /\ IInv /\ LockstepOK => PlayersAgree
  <2> SUFFICES ASSUME TypeOK, IInv, LockstepOK, NEW p \in Players, NEW q \in Players,
                      NEW k \in OnlineThreads, rounds[p][k] = rounds[q][k],
                      BetweenRounds(p, k), BetweenRounds(q, k)
               PROVE  tot[p][k] = tot[q][k] /\ (k = 0 => totI[p] = totI[q])
    BY DEF PlayersAgree
  <2>1. PICK C \in [Players -> Nat], X \in [Players -> [Nat -> Numbers]] : InStepWith(k, C, X)
    BY DEF LockstepOK
  <2>2. ~InRound(p, k) /\ ~InRound(q, k) /\ ReadyOK
    BY DEF BetweenRounds, InRound, IInv
  <2>3. C[q] = C[p] \/ C[q] = C[p] + 1 \/ C[p] = C[q] + 1
    BY <2>1, OneAhead DEF InStepWith
  <2>4. CASE C[q] = C[p] \/ C[q] = C[p] + 1
    BY <2>1, <2>2, <2>4, AmountsAgree
  <2>5. CASE C[p] = C[q] + 1
    BY <2>1, <2>2, <2>5, AmountsAgree
  <2> QED
    BY <2>3, <2>4, <2>5
<1> QED
  BY <1>1, Invariant, Lockstep, PTL

\* No queue of player 0 outgrows its limit by more than a batch, and no queue
\* of another player by more than a batch and what a round takes.
THEOREM QueuesFit == Spec => []QueuesBounded
<1>1. TypeOK /\ IInv /\ LockstepOK => QueuesBounded
  <2> SUFFICES ASSUME TypeOK, IInv, LockstepOK, NEW p \in Players, NEW k \in OnlineThreads,
                      NEW T \in Kinds
               PROVE  queue[p][k][T] <= max_offline[T] + sz_offline_batch[T]
                                          + (IF p = 0 THEN 0 ELSE RoundTakes(T))
    BY DEF QueuesBounded
  <2> DEFINE s  == sz_offline_batch[T]
             m  == max_offline[T]
             R  == RoundTakes(T)
             x  == queue[p][k][T]
             x0 == queue[0][k][T]
             b  == made[p][k][T] * s
             b0 == made[0][k][T] * s
             t  == ToTake(p, k, T)
             t0 == ToTake(0, k, T)
             S  == Spent(p, k, T)
             S0 == Spent(0, k, T)
  <2>1. PICK C \in [Players -> Nat], X \in [Players -> [Nat -> Numbers]] : InStepWith(k, C, X)
    BY DEF LockstepOK
  <2>2. /\ 0 \in Players /\ T \in AllKinds /\ ReadyOK /\ BatchesOK
    BY Constants DEF IInv
  <2>3. /\ s \in Nat /\ m \in Nat /\ x \in Nat /\ x0 \in Nat
        /\ made[p][k][T] \in Nat /\ made[0][k][T] \in Nat
    BY <2>2, Entries, Constants
  <2>4. /\ t \in Nat /\ t <= R /\ t0 \in Nat /\ b \in Nat /\ b0 \in Nat
        /\ ~InRound(p, k) => t = 0
    BY <2>2, LeftToDo
  <2>5. S = b - x + t /\ S0 = b0 - x0 + t0
    BY DEF Spent
  <2>6. R \in Nat
    BY <2>2, <2>1, RoundRight, Constants
  <2>7. b + x0 <= b0 + s + m
    <3>1. /\ x0 <= m + (IF prod[0][k][T] = "produce" THEN 0 ELSE s)
          /\ made[p][k][T] <= made[0][k][T] + (IF prod[0][k][T] = "produce" THEN 1 ELSE 0)
      BY <2>2 DEF BatchesOK, Begun
    <3>2. CASE prod[0][k][T] = "produce"
      <4>1. made[p][k][T] <= made[0][k][T] + 1 /\ made[0][k][T] + 1 \in Nat
        BY <2>3, <3>1, <3>2
      <4>2. b <= (made[0][k][T] + 1) * s
        BY <2>3, <4>1, TimesMore
      <4>3. (made[0][k][T] + 1) * s = b0 + s
        BY <2>3, TimesNext
      <4>4. x0 <= m
        BY <2>3, <3>1, <3>2
      <4> HIDE DEF s, m, x, x0, b, b0
      <4> QED
        BY <2>3, <2>4, <4>2, <4>3, <4>4
    <3>3. CASE prod[0][k][T] # "produce"
      <4>1. made[p][k][T] <= made[0][k][T]
        BY <2>3, <3>1, <3>3
      <4>2. b <= b0
        BY <2>3, <4>1, TimesMore
      <4>3. x0 <= m + s
        BY <2>3, <3>1, <3>3
      <4> HIDE DEF s, m, x, x0, b, b0
      <4> QED
        BY <2>3, <2>4, <4>2, <4>3
    <3> QED
      BY <3>2, <3>3
  <2>8. S0 <= S \/ (t = 0 /\ S0 <= S + R)
    <3> DEFINE n == Result(X, C[0])
               l == Result(X, C[p])
    <3>1. \/ C[p] = C[0] \/ C[p] = C[0] + 1
          \/ C[0] = C[p] + 1 /\ Collecting(p, k)
      BY <2>1, <2>2, OneAhead DEF InStepWith
    <3>2. S \in Int /\ S0 \in Int
      BY <2>2, LeftToDo
    <3>3. ASSUME C[p] = C[0] PROVE S0 <= S
      <4>1. S = S0
        BY <2>1, <2>2, <3>3 DEF InStepWith, SameAmounts
      <4> HIDE DEF S, S0
      <4> QED
        BY <3>2, <4>1
    <3>4. ASSUME C[p] = C[0] + 1 PROVE S0 <= S
      <4>1. S = S0 + Loss(l, T)
        BY <2>1, <2>2, <3>4 DEF InStepWith, SameAmounts
      <4>2. Loss(l, T) \in Nat
        BY <2>2, ResultIn, RoundRight
      <4> HIDE DEF S, S0, l
      <4> QED
        BY <3>2, <4>1, <4>2
    <3>5. ASSUME C[0] = C[p] + 1, Collecting(p, k) PROVE t = 0 /\ S0 <= S + R
      <4>1. S0 = S + Loss(n, T)
        BY <2>1, <2>2, <3>5 DEF InStepWith, SameAmounts
      <4>2. Loss(n, T) \in Nat /\ Loss(n, T) <= R
        BY <2>2, ResultIn, RoundRight
      <4>3. t = 0
        BY <2>4, <3>5 DEF Collecting, InRound
      <4> HIDE DEF S, S0, n, R, t
      <4> QED
        BY <2>6, <3>2, <4>1, <4>2, <4>3
    <3> QED
      BY <3>1, <3>3, <3>4, <3>5
  <2> HIDE DEF s, m, R, x, x0, b, b0, t, t0, S, S0
  <2>9. x <= m + s + R
    BY <2>3, <2>4, <2>5, <2>6, <2>7, <2>8
  <2>10. x0 <= m + s
    <3>1. x0 <= m + (IF prod[0][k][T] = "produce" THEN 0 ELSE s)
      BY <2>2 DEF BatchesOK, x0, m, s
    <3> QED
      BY <2>3, <3>1
  <2>11. CASE p = 0
    <3>1. x0 <= m + s + 0
      BY <2>3, <2>10
    <3> QED
      BY <2>11, <3>1 DEF x0, m, s
  <2>12. CASE p # 0
    BY <2>9, <2>12 DEF x, m, s, R
  <2> QED
    BY <2>11, <2>12
<1> QED
  BY <1>1, Invariant, Lockstep, PTL

\* With one online thread, or a kind without a maximum, no sacrifice thread
\* waits for the proposal of a player that has gone.
THEOREM NoneLeft ==
    ASSUME NOnline = 1 \/ \E T \in Kinds : max[T] = 0
    PROVE  Spec => []NoneLeftBehind
<1>1. TypeOK /\ IInv /\ LockstepOK => NoneLeftBehind
  <2> SUFFICES ASSUME TypeOK, IInv, LockstepOK, NEW p \in Players, NEW q \in Players,
                      NEW k \in OnlineThreads, spc[p][k] = "collect", spc[q][k] = "out"
               PROVE  offer[q][p][k] # <<>>
    BY DEF NoneLeftBehind
  <2>1. DecideAlike(k)
    BY DEF DecideAlike, OnlineThreads
  <2>2. PICK C \in [Players -> Nat], X \in [Players -> [Nat -> Numbers]] :
           InStepWith(k, C, X) /\ SameEnd(k, C, X)
    BY <2>1 DEF LockstepOK
  <2>3. q # p /\ ~InRound(p, k) /\ ~InRound(q, k) /\ Collecting(p, k) /\ ~Collecting(q, k)
    BY DEF InRound, Collecting
  <2>4. /\ C[p] \in Nat /\ C[q] \in Nat
        /\ Len(offer[q][p][k]) = C[q] - C[p]
    <3>1. Len(offer[q][p][k]) = C[q] + OneIf(Collecting(q, k)) - C[p]
      BY <2>2, <2>3 DEF InStepWith, Offered
    <3> QED
      BY <2>3, <3>1 DEF OneIf
  <2>5. C[q] = C[p] \/ C[q] = C[p] + 1
    BY <2>2, <2>3, OneAhead DEF InStepWith
  <2>6. C[q] # C[p]
    <3> SUFFICES ASSUME C[q] = C[p] PROVE FALSE
      OBVIOUS
    <3> DEFINE n == Result(X, C[p])
    <3>1. /\ C[p] = 0 \/ ~Ends(p, k, n)
          /\ C[p] > 0 /\ Ends(q, k, n)
      BY <2>2 DEF SameEnd
    <3>2. tot[p][k] = tot[q][k] /\ (k = 0 => totI[p] = totI[q])
      BY <2>2, <2>3, AmountsAgree DEF IInv
    <3>3. EnoughData(p, k) <=> EnoughData(q, k)
      BY <2>1, <3>2 DEF EnoughData, Over, DecideAlike
    <3> HIDE DEF n
    <3> QED
      BY <2>4, <3>1, <3>3 DEF Ends
  <2>7. Len(offer[q][p][k]) = 1
    BY <2>4, <2>5, <2>6
  <2> DEFINE o == offer[q][p][k]
  <2>8. o \in Seq(Numbers) /\ Len(o) = 1
    BY <2>7, Entries
  <2> HIDE DEF o
  <2>9. ASSUME o = <<>> PROVE Len(o) = 0
    BY <2>9
  <2> QED
    BY <2>8, <2>9 DEF o
<1> QED
  BY <1>1, Invariant, Lockstep, PTL
=============================================================================
