-------------------------- MODULE FHEIndustryProofs --------------------------
(***************************************************************************)
(* Proofs about the FHE_Industry, for every number of players, factories   *)
(* and production threads, and whatever they are to take.                  *)
(***************************************************************************)
EXTENDS FHEIndustryProps, SequenceTheorems, WellFoundedInduction, TLAPS

---------------------------------------------------------------------------
(* Constants.                                                              *)

\* The players and the factories are numbered from 0.
LEMMA PlayerNumbers ==
    /\ 0 \in Players /\ 0 \in Factories
    /\ Players \subseteq Nat /\ Factories \subseteq Nat
    /\ NFactories \in Nat /\ 0 \in 0 .. NFactories
    /\ \A f \in Factories : f \in 0 .. NFactories /\ f + 1 \in 0 .. NFactories
    /\ \A f \in 0 .. NFactories : f # NFactories => f \in Factories
BY IndustryAssumption DEF Players, Factories

\* The factory of the MAC ciphertexts exists.
LEMMA OtherFactory == 1 % NFactories \in Factories
BY IndustryAssumption DEF Factories

\* No thread that takes ciphertexts is taken for a free mutex or a constructor.
LEMMA TakerNames == \A t \in Takers : t # "free" /\ t # "constructor"
BY IndustryAssumption

\* The broadcasts of a round begin with the exit check.
LEMMA StagesRight ==
    /\ Len(Stages) \in Nat /\ 2 <= Len(Stages)
    /\ \A n \in 1 .. Len(Stages) : Stages[n] \in {FullRound[m] : m \in 1 .. Len(FullRound)}
<1>1. CASE Stages = FullRound
  BY <1>1 DEF FullRound
<1>2. CASE Stages = ShortRound
  <2>1. Len(FullRound) = 11 /\ Len(Stages) = 4
    BY <1>2 DEF FullRound, ShortRound
  <2>2. /\ Stages[1] = FullRound[1] /\ Stages[2] = FullRound[2]
        /\ Stages[3] = FullRound[1] /\ Stages[4] = FullRound[11]
    BY <1>2 DEF FullRound, ShortRound
  <2> QED
    BY <2>1, <2>2
<1> QED
  BY <1>1, <1>2, IndustryAssumption

\* What is put in front, at the back, and taken off.
LEMMA AppendAt ==
    ASSUME NEW S, NEW s \in Seq(S), NEW e \in S
    PROVE  /\ Append(s, e) \in Seq(S) /\ Len(Append(s, e)) = Len(s) + 1
           /\ \A n \in 1 .. Len(s) : Append(s, e)[n] = s[n]
           /\ Append(s, e)[Len(s) + 1] = e
BY AppendProperties

\* What is left of a sequence without its head.
LEMMA TailAt ==
    ASSUME NEW S, NEW s \in Seq(S), s # <<>>
    PROVE  /\ Tail(s) \in Seq(S) /\ Len(Tail(s)) = Len(s) - 1 /\ Len(s) >= 1
           /\ \A n \in 1 .. Len(Tail(s)) : Tail(s)[n] = s[n + 1]
           /\ Head(s) = s[1] /\ Head(s) \in S
BY HeadTailProperties, EmptySeq, ElementOfSeq

---------------------------------------------------------------------------
(* Types.                                                                  *)

\* The initial state is typed.
LEMMA TypeInit == Init => TypeOK
<1> SUFFICES ASSUME Init PROVE TypeOK
  OBVIOUS
<1> USE PlayerNumbers, StagesRight
<1>1. NoChoice \in Choice
  BY IndustryAssumption DEF NoChoice, Choice
<1>2. \A p \in Players, t \in Takers :
         NextItem(p, t, 0) \in {"done", "exit", "try", "receive"}
  BY DEF NextItem
<1>3. \A f \in Factories : FirstHolder(f) \in Takers \cup {"free", "constructor"}
  BY DEF FirstHolder
<1>4. /\ made \in [Players -> [Factories -> Nat]]
      /\ batch_number \in [Players -> [Factories -> {-1} \cup Nat]]
      /\ used \in [Players -> [Factories -> SUBSET (0 .. U - 1)]]
      /\ proving_macs \in [Players -> BOOLEAN]
  BY DEF Init, Everywhere
<1>5. /\ fpc \in [Players -> [Factories -> {"say", "hear", "decide", "push", "out", "wild"}]]
      /\ stage \in [Players -> [Factories -> 1 .. Len(Stages)]]
      /\ said \in [Players -> [Players -> [Factories -> Seq(Message)]]]
  BY DEF Init, Everywhere
<1>6. lock \in [Players -> [Factories -> Takers \cup {"free", "constructor"}]]
  BY <1>3 DEF Init
<1>7. /\ num \in [Players -> [Takers -> 0 .. NFactories]]
      /\ taken \in [Players -> [Takers -> Nat]]
  BY IndustryAssumption DEF Init, Everywhere
<1>8. /\ told \in [Players -> [Takers -> Seq(Choice)]]
      /\ want \in [Players -> [Takers -> Choice]]
  BY <1>1 DEF Init, Everywhere
<1>9. tpc \in [Players -> [Takers -> {"try", "choose", "lock", "update", "take",
                                      "receive", "check", "reshare", "exit", "done"}]]
  BY <1>2 DEF Init
<1> QED
  BY <1>4, <1>5, <1>6, <1>7, <1>8, <1>9 DEF TypeOK

\* What a taker does with a lock, and where it goes.
LEMMA SetLockTypes ==
    ASSUME TypeOK, NEW p \in Players, NEW f \in Factories,
           NEW who \in Takers \cup {"free", "constructor"}, SetLock(p, f, who)
    PROVE  lock' \in [Players -> [Factories -> Takers \cup {"free", "constructor"}]]
BY DEF SetLock, TypeOK

\* Where a taker goes is a place a taker can be at.
LEMMA TakerGoesTypes ==
    ASSUME TypeOK, NEW p \in Players, NEW t \in Takers,
           NEW pc \in {"try", "choose", "lock", "update", "take",
                       "receive", "check", "reshare", "exit", "done"},
           TakerGoes(p, t, pc)
    PROVE  tpc' \in [Players -> [Takers -> {"try", "choose", "lock", "update", "take",
                                       "receive", "check", "reshare", "exit", "done"}]]
BY DEF TakerGoes, TypeOK

\* Taking a ciphertext keeps the types of what it changes.
LEMMA AfterTakeTypes ==
    ASSUME TypeOK, NEW p \in Players, NEW t \in Takers, AfterTake(p, t)
    PROVE  /\ tpc' \in [Players -> [Takers -> {"try", "choose", "lock", "update", "take",
                                       "receive", "check", "reshare", "exit", "done"}]]
           /\ taken' \in [Players -> [Takers -> Nat]]
<1>1. taken[p][t] \in Nat
  BY DEF TypeOK
<1>2. taken' \in [Players -> [Takers -> Nat]]
  BY <1>1 DEF AfterTake, TypeOK
<1> DEFINE n == taken[p][t] + 1
           pc == IF p = 0 /\ n % Items[t] = 0 THEN "reshare" ELSE NextItem(p, t, n)
<1>3. pc \in {"try", "receive", "reshare", "exit", "done"}
  BY DEF NextItem
<1>4. TakerGoes(p, t, pc)
  BY DEF AfterTake
<1> HIDE DEF pc
<1> QED
  BY <1>2, <1>3, <1>4, TakerGoesTypes

\* The next unused ciphertext of a batch that is not used up.
LEMMA NextUnusedRight ==
    ASSUME TypeOK, NEW f \in Factories, ~isempty(0, f)
    PROVE  NextUnused(f) \in (0 .. U - 1) \ used[0][f]
<1> DEFINE S == (0 .. U - 1) \ used[0][f]
<1>1. S \subseteq Nat /\ S # {}
  <2>1. used[0][f] \subseteq 0 .. U - 1 /\ used[0][f] # 0 .. U - 1
    BY PlayerNumbers DEF isempty, TypeOK
  <2>2. PICK i \in 0 .. U - 1 : i \notin used[0][f]
    BY <2>1
  <2> QED
    BY <2>2
<1>2. \E i \in S : \A j \in S : i <= j
  <2>1. PICK i \in S : \A j \in S : <<j, i>> \notin OpToRel(<, Nat)
    BY <1>1, NatLessThanWellFounded, WFMin
  <2>2. ASSUME NEW j \in S PROVE i <= j
    <3>1. ~(j < i)
      BY <1>1, <2>1 DEF OpToRel
    <3> QED
      BY <1>1, <3>1
  <2> QED
    BY <2>2
<1> QED
  BY <1>2 DEF NextUnused

\* Where a factory thread goes.
LEMMA FactoryGoesTypes ==
    ASSUME TypeOK, NEW p \in Players, NEW f \in Factories,
           NEW pc \in {"say", "hear", "decide", "push", "out", "wild"},
           NEW s \in 1 .. Len(Stages), FactoryGoes(p, f, pc, s)
    PROVE  /\ fpc' \in [Players -> [Factories -> {"say", "hear", "decide", "push", "out", "wild"}]]
           /\ stage' \in [Players -> [Factories -> 1 .. Len(Stages)]]
BY DEF FactoryGoes, TypeOK

\* A step of a factory thread keeps the types.
LEMMA FactoryTypes ==
    ASSUME TypeOK, NEW p \in Players, NEW f \in Factories, Factory(p, f)
    PROVE  TypeOK'
<1> USE DEF industry, taker
<1>0. stage[p][f] \in 1 .. Len(Stages) /\ Len(Stages) \in Nat /\ 1 \in 1 .. Len(Stages) /\ 2 \in 1 .. Len(Stages)
  BY StagesRight DEF TypeOK
<1>1. CASE Say(p, f)
  <2> DEFINE m == [stage |-> Stages[stage[p][f]],
                   finished |-> Stages[stage[p][f]] = "exit" /\ Finished(p)]
  <2>1. m \in Message
    BY <1>0, StagesRight DEF Message
  <2> HIDE DEF m
  <2>2. said' = [said EXCEPT ![p] = [q \in Players |-> [said[p][q] EXCEPT ![f] = Append(@, m)]]]
    BY <1>1 DEF Say, m
  <2>3. \A q \in Players : Append(said[p][q][f], m) \in Seq(Message)
    BY <2>1 DEF TypeOK
  <2> DEFINE out == [q \in Players |-> [said[p][q] EXCEPT ![f] = Append(@, m)]]
  <2>4. out \in [Players -> [Factories -> Seq(Message)]]
    BY <2>3 DEF TypeOK
  <2>7. said' = [said EXCEPT ![p] = out]
    BY <2>2
  <2> HIDE DEF out
  <2>6. said' \in [Players -> [Players -> [Factories -> Seq(Message)]]]
    BY <2>4, <2>7 DEF TypeOK
  <2>5. /\ fpc' \in [Players -> [Factories -> {"say", "hear", "decide", "push", "out", "wild"}]]
        /\ stage' \in [Players -> [Factories -> 1 .. Len(Stages)]]
    BY <1>0, <1>1, FactoryGoesTypes DEF Say
  <2> QED
    BY <1>1, <2>5, <2>6 DEF Say, TypeOK
<1>2. CASE Hear(p, f)
  <2>1. \A q \in Players : Tail(said[q][p][f]) \in Seq(Message)
    <3> SUFFICES ASSUME NEW q \in Players PROVE Tail(said[q][p][f]) \in Seq(Message)
      OBVIOUS
    <3>1. said[q][p][f] \in Seq(Message) /\ said[q][p][f] # <<>>
      BY <1>2 DEF Hear, TypeOK
    <3> QED
      BY <3>1, TailAt
  <2>2. said' \in [Players -> [Players -> [Factories -> Seq(Message)]]]
    BY <1>2, <2>1 DEF Hear, TypeOK
  <2>3. PICK pc \in {"say", "hear", "decide", "push", "out", "wild"}, n \in 1 .. Len(Stages) :
            FactoryGoes(p, f, pc, n)
    <3>1. stage[p][f] \notin {1, Len(Stages)} => stage[p][f] + 1 \in 1 .. Len(Stages)
      BY <1>0
    <3> QED
      BY <1>0, <1>2, <3>1 DEF Hear
  <2>4. /\ fpc' \in [Players -> [Factories -> {"say", "hear", "decide", "push", "out", "wild"}]]
        /\ stage' \in [Players -> [Factories -> 1 .. Len(Stages)]]
    BY <2>3, FactoryGoesTypes
  <2> QED
    BY <1>2, <2>2, <2>4 DEF Hear, TypeOK
<1>3. CASE Decide(p, f)
  <2>1. /\ fpc' \in [Players -> [Factories -> {"say", "hear", "decide", "push", "out", "wild"}]]
        /\ stage' \in [Players -> [Factories -> 1 .. Len(Stages)]]
    BY <1>0, <1>3, FactoryGoesTypes DEF Decide
  <2> QED
    BY <1>3, <2>1 DEF Decide, TypeOK
<1>4. CASE Push(p, f)
  <2>1. /\ fpc' \in [Players -> [Factories -> {"say", "hear", "decide", "push", "out", "wild"}]]
        /\ stage' \in [Players -> [Factories -> 1 .. Len(Stages)]]
    BY <1>0, <1>4, FactoryGoesTypes DEF Push
  <2>2. proving_macs' \in [Players -> BOOLEAN]
    <3>1. proving_macs' = [proving_macs EXCEPT ![p] = FALSE] \/ UNCHANGED proving_macs
      BY <1>4 DEF Push
    <3> QED
      BY <3>1 DEF TypeOK
  <2>4. made' \in [Players -> [Factories -> Nat]]
    <3>1. made' = [made EXCEPT ![p][f] = @ + 1] \/ UNCHANGED made
      BY <1>4 DEF Push
    <3>2. made \in [Players -> [Factories -> Nat]] /\ made[p][f] + 1 \in Nat
      BY DEF TypeOK
    <3> QED
      BY <3>1, <3>2
  <2>3. lock' \in [Players -> [Factories -> Takers \cup {"free", "constructor"}]]
    <3> DEFINE opened == [g \in Factories |-> IF g = 0 THEN lock[p][0] ELSE "free"]
    <3>1. opened \in [Factories -> Takers \cup {"free", "constructor"}]
      BY PlayerNumbers DEF TypeOK
    <3>2. lock' = [lock EXCEPT ![p] = opened] \/ UNCHANGED lock
      BY <1>4 DEF Push
    <3> HIDE DEF opened
    <3> QED
      BY <3>1, <3>2 DEF TypeOK
  <2> QED
    BY <1>4, <2>1, <2>2, <2>3, <2>4 DEF Push, TypeOK
<1> QED
  BY <1>1, <1>2, <1>3, <1>4 DEF Factory

\* A step of a production thread keeps the types.
LEMMA TakerTypes ==
    ASSUME TypeOK, PlacesOK, NEW p \in Players, NEW t \in Takers, Taker(p, t)
    PROVE  TypeOK'
<1> USE DEF factory
<1>0. num[p][t] \in 0 .. NFactories /\ 0 \in Players
  BY PlayerNumbers DEF TypeOK
<1>1. CASE p = 0 /\ Try(t)
  <2>1. CASE num[0][t] = NFactories
    BY <1>1, <2>1, TakerGoesTypes DEF Try, TypeOK
  <2>2. CASE num[0][t] # NFactories
    <3>1. num[0][t] \in Factories
      BY <1>0, <1>1, <2>2, PlayerNumbers
    <3>2. CASE SetLock(0, num[0][t], t) /\ TakerGoes(0, t, "take") /\ UNCHANGED num
      BY <1>0, <1>1, <3>1, <3>2, SetLockTypes, TakerGoesTypes DEF Try, TypeOK
    <3>3. CASE At(0, t, num[0][t] + 1) /\ UNCHANGED <<tpc, lock>>
      BY <1>0, <1>1, <3>1, <3>3, PlayerNumbers DEF Try, At, TypeOK
    <3> QED
      BY <1>1, <2>2, <3>2, <3>3 DEF Try
  <2> QED
    BY <2>1, <2>2
<1>2. CASE p = 0 /\ Choose(t)
  <2>1. num' \in [Players -> [Takers -> 0 .. NFactories]]
    BY <1>0, <1>2, PlayerNumbers DEF Choose, At, TypeOK
  <2>2. TakerGoes(0, t, "lock")
    BY <1>2 DEF Choose
  <2> QED
    BY <1>0, <1>2, <2>1, <2>2, TakerGoesTypes DEF Choose, industry, TypeOK
<1>3. CASE p = 0 /\ Take0(t)
  <2> DEFINE f == num[0][t]
             c == [num |-> f, batch |-> batch_number[0][f], i |-> NextUnused(f)]
  <2>1. f \in Factories /\ ~isempty(0, f)
    BY <1>3 DEF PlacesOK, Take0
  <2>2. batch_number[0][f] \in Nat /\ NextUnused(f) \in 0 .. U - 1
    <3>1. batch_number[0][f] \in {-1} \cup Nat /\ batch_number[0][f] # -1
      BY <1>0, <2>1 DEF isempty, TypeOK
    <3>2. NextUnused(f) \in (0 .. U - 1) \ used[0][f]
      BY <2>1, NextUnusedRight
    <3> QED
      BY <3>1, <3>2
  <2>3. c \in Choice
    BY <2>1, <2>2 DEF Choice
  <2>4. used' \in [Players -> [Factories -> SUBSET (0 .. U - 1)]]
    BY <1>0, <1>3, <2>1, <2>2 DEF Take0, TypeOK
  <2>5. SetLock(0, f, "free") /\ At(0, t, 0) /\ AfterTake(0, t)
    BY <1>3 DEF Take0
  <2>6. /\ told' = [q \in Players |-> IF q = 0 THEN told[0]
                                      ELSE [told[q] EXCEPT ![t] = Append(@, c)]]
        /\ want' = [want EXCEPT ![0][t] = c]
        /\ UNCHANGED <<made, batch_number, factory>>
    BY <1>3 DEF Take0
  <2> HIDE DEF f, c
  <2>7. told' \in [Players -> [Takers -> Seq(Choice)]]
    <3>1. \A q \in Players : Append(told[q][t], c) \in Seq(Choice)
      BY <2>3 DEF TypeOK
    <3> QED
      BY <2>6, <3>1 DEF TypeOK
  <2>8. want' \in [Players -> [Takers -> Choice]]
    BY <2>3, <2>6 DEF TypeOK
  <2>9. num' \in [Players -> [Takers -> 0 .. NFactories]]
    BY <1>0, <2>5, PlayerNumbers DEF At, TypeOK
  <2>10. lock' \in [Players -> [Factories -> Takers \cup {"free", "constructor"}]]
    BY <1>0, <2>1, <2>5, SetLockTypes
  <2> QED
    BY <1>0, <2>4, <2>5, <2>6, <2>7, <2>8, <2>9, <2>10, AfterTakeTypes DEF TypeOK
<1>4. CASE p = 0 /\ Reshare(t)
  <2>1. NextItem(0, t, taken[0][t]) \in {"try", "done"}
    BY DEF NextItem
  <2>2. TakerGoes(0, t, NextItem(0, t, taken[0][t]))
    BY <1>4 DEF Reshare
  <2>3. tpc' \in [Players -> [Takers -> {"try", "choose", "lock", "update", "take",
                                       "receive", "check", "reshare", "exit", "done"}]]
    BY <1>0, <2>1, <2>2, TakerGoesTypes
  <2> QED
    BY <1>4, <2>3 DEF Reshare, industry, TypeOK
<1>5. CASE Lock(p, t)
  <2>1. num[p][t] \in Factories
    <3>1. want[p][t].num \in Factories
      BY DEF TypeOK, Choice
    <3> QED
      BY <1>5, <3>1 DEF Lock, PlacesOK, Held
  <2> QED
    BY <1>5, <2>1, SetLockTypes, TakerGoesTypes DEF Lock, TypeOK
<1>6. CASE Update(p, t)
  <2>1. num[p][t] \in Factories
    <3>1. want[p][t].num \in Factories
      BY DEF TypeOK, Choice
    <3> QED
      BY <1>6, <3>1 DEF Update, PlacesOK, Held
  <2>2. /\ batch_number' \in [Players -> [Factories -> {-1} \cup Nat]]
        /\ used' \in [Players -> [Factories -> SUBSET (0 .. U - 1)]]
    <3>1. batch_number[p][num[p][t]] \in {-1} \cup Nat
      BY <2>1 DEF TypeOK
    <3>2. batch_number[p][num[p][t]] + 1 \in Nat
      BY <3>1
    <3>3. CASE UNCHANGED <<batch_number, used>>
      BY <3>3 DEF TypeOK
    <3>4. CASE /\ batch_number' = [batch_number EXCEPT ![p][num[p][t]] = @ + 1]
               /\ used' = [used EXCEPT ![p][num[p][t]] = {}]
      BY <2>1, <3>2, <3>4 DEF TypeOK
    <3> QED
      BY <1>6, <3>3, <3>4 DEF Update, Update_If_Empty
  <2>3. lock' \in [Players -> [Factories -> Takers \cup {"free", "constructor"}]]
    BY <1>6, <2>1, SetLockTypes DEF Update, TypeOK
  <2> QED
    BY <1>6, <2>2, <2>3, TakerGoesTypes DEF Update, TypeOK
<1>7. CASE Receive(p, t)
  <2>1. told[p][t] \in Seq(Choice) /\ told[p][t] # <<>>
    BY <1>7 DEF Receive, TypeOK
  <2>2. Head(told[p][t]) \in Choice /\ Tail(told[p][t]) \in Seq(Choice)
    BY <2>1, TailAt
  <2>3. Head(told[p][t]).num \in 0 .. NFactories
    BY <2>2, PlayerNumbers DEF Choice
  <2>4. told' \in [Players -> [Takers -> Seq(Choice)]] /\ want' \in [Players -> [Takers -> Choice]]
    BY <1>7, <2>2 DEF Receive, TypeOK
  <2>5. num' \in [Players -> [Takers -> 0 .. NFactories]]
    BY <1>7, <2>3 DEF Receive, At, TypeOK
  <2> QED
    BY <1>7, <2>4, <2>5, TakerGoesTypes DEF Receive, industry, TypeOK
<1>8. CASE Check(p, t)
  BY <1>8, TakerGoesTypes DEF Check, industry, TypeOK
<1>9. CASE Take(p, t)
  <2>1. want[p][t].num \in Factories /\ want[p][t].i \in 0 .. U - 1
    BY DEF TypeOK, Choice
  <2>2. used' \in [Players -> [Factories -> SUBSET (0 .. U - 1)]]
    BY <1>9, <2>1 DEF Take, TypeOK
  <2> QED
    BY <1>9, <2>2, AfterTakeTypes DEF Take, TypeOK
<1>10. CASE Exit(p, t)
  BY <1>10, TakerGoesTypes DEF Exit, industry, TypeOK
<1> QED
  BY <1>1, <1>2, <1>3, <1>4, <1>5, <1>6, <1>7, <1>8, <1>9, <1>10 DEF Taker

\* Every step keeps the types.
LEMMA TypeStep == TypeOK /\ PlacesOK /\ [Next]_vars => TypeOK'
<1> SUFFICES ASSUME TypeOK, PlacesOK, [Next]_vars PROVE TypeOK'
  OBVIOUS
<1>1. CASE UNCHANGED vars
  BY <1>1 DEF vars, industry, factory, taker, TypeOK
<1> QED
  BY <1>1, FactoryTypes, TakerTypes DEF Next

---------------------------------------------------------------------------
(* The inductive invariant holds at first.                                 *)

\* What a taker demands is so many times the items of one call.
LEMMA DemandRight ==
    \A t \in Takers : /\ Demand(t) \in Nat /\ Items[t] \in Nat \ {0}
                      /\ Demand(t) % Items[t] = 0
<1> SUFFICES ASSUME NEW t \in Takers
             PROVE  /\ Demand(t) \in Nat /\ Items[t] \in Nat \ {0}
                    /\ Demand(t) % Items[t] = 0
  OBVIOUS
<1>1. Items[t] \in Nat \ {0} /\ Steps[t] \in Nat
  BY IndustryAssumption
<1>2. \A a \in Nat \ {0}, b \in Nat : a * b \in Nat /\ (a * b) % a = 0
  OBVIOUS
<1> QED
  BY <1>1, <1>2 DEF Demand

\* The initial state satisfies the inductive invariant.
LEMMA InvInit == Init => IInv
<1> SUFFICES ASSUME Init PROVE IInv
  OBVIOUS
<1> USE PlayerNumbers, TypeInit
<1>1. /\ \A p \in Players, f \in Factories :
            /\ made[p][f] = 0 /\ batch_number[p][f] = -1 /\ used[p][f] = {}
            /\ lock[p][f] = FirstHolder(f) /\ fpc[p][f] = "say"
      /\ \A p, q \in Players, f \in Factories : said[q][p][f] = <<>>
      /\ \A p \in Players, t \in Takers :
            /\ tpc[p][t] = NextItem(p, t, 0) /\ told[p][t] = <<>> /\ taken[p][t] = 0
  BY DEF Init, Everywhere
<1>2. \A p \in Players, t \in Takers : ~Held(p, t)
  BY <1>1 DEF Held, NextItem
<1>3. PlacesOK
  BY <1>1, <1>2 DEF PlacesOK, NextItem
<1>4. LocksOK
  BY <1>1 DEF LocksOK, NextItem
<1>5. ListsOK
  <2>1. -1 < 0
    OBVIOUS
  <2> QED
    BY <1>1, <2>1 DEF ListsOK
<1>6. ChoicesOK
  <2>1. \A p \in Players, t \in Takers, n \in 0 .. 0 : ~Owes(p, t, n)
    BY <1>2 DEF Owes
  <2>2. \A p \in Players, t \in Takers : 0 .. Len(told[p][t]) = 0 .. 0
    BY <1>1
  <2>3. \A p \in Players, f \in Factories : 0 .. batch_number[p][f] = {}
    BY <1>1
  <2>4. \A p \in Players, t \in Takers : tpc[p][t] # "take"
    BY <1>1 DEF NextItem
  <2> QED
    BY <2>1, <2>2, <2>3, <2>4 DEF ChoicesOK, UsedFirst, OwedUnused, OwedOnce, SeenStays
<1>7. MacsOK
  BY <1>1 DEF MacsOK, FirstHolder
<1>8. CountsOK
  BY <1>1, <1>2, DemandRight DEF CountsOK, NextItem
<1>9. ServedOK
  BY <1>1 DEF ServedOK
<1> QED
  BY <1>3, <1>4, <1>5, <1>6, <1>7, <1>8, <1>9 DEF IInv

---------------------------------------------------------------------------
(* What the steps leave alone.                                             *)

\* Two states of an array differ at most at x of player p.
OnlyAt(new, old, S, p, x) ==
    \A q \in Players, y \in S : q # p \/ y # x => new[q][y] = old[q][y]

\* A function changed at one argument.
LEMMA ChangeAt ==
    ASSUME NEW S, NEW R, NEW old \in [Players -> [S -> R]],
           NEW p \in Players, NEW x, NEW v, NEW new,
           new = [old EXCEPT ![p][x] = v]
    PROVE  (x \in S => new[p][x] = v) /\ OnlyAt(new, old, S, p, x)
<1>1. \A q \in Players : q # p => new[q] = old[q]
  OBVIOUS
<1>2. new[p] = [old[p] EXCEPT ![x] = v] /\ old[p] \in [S -> R]
  OBVIOUS
<1>3. \A y \in S : y # x => new[p][y] = old[p][y]
  BY <1>2
<1>4. x \in S => new[p][x] = v
  BY <1>2
<1> QED
  BY <1>1, <1>3, <1>4 DEF OnlyAt

\* A step of a factory uses nothing, and frees no mutex but the constructor's.
LEMMA FactoryFrame ==
    ASSUME TypeOK, NEW p \in Players, NEW f \in Factories, Factory(p, f)
    PROVE  /\ UNCHANGED <<batch_number, used, taker>>
           /\ \A q \in Players, g \in Factories :
                 /\ made'[q][g] = made[q][g] \/ made'[q][g] = made[q][g] + 1
                 /\ \/ lock'[q][g] = lock[q][g]
                    \/ proving_macs[q] /\ g # 0 /\ lock'[q][g] = "free"
           /\ \A q \in Players : proving_macs'[q] =>
                 /\ proving_macs[q] /\ made'[q][0] = made[q][0]
                 /\ \A g \in Factories : lock'[q][g] = lock[q][g]
<1> USE DEF industry
<1>1. CASE Push(p, f)
  <2>1. UNCHANGED <<batch_number, used, taker>>
    BY <1>1 DEF Push
  <2>2. CASE f = 0 /\ proving_macs[p]
    <3>1. /\ proving_macs' = [proving_macs EXCEPT ![p] = FALSE]
          /\ lock' = [lock EXCEPT ![p] = [g \in Factories |->
                        IF g = 0 THEN lock[p][0] ELSE "free"]]
          /\ UNCHANGED made
      BY <1>1, <2>2 DEF Push
    <3>2. ~proving_macs'[p] /\ \A q \in Players \ {p} : proving_macs'[q] = proving_macs[q]
      BY <3>1 DEF TypeOK
    <3>3. /\ \A q \in Players \ {p} : lock'[q] = lock[q]
          /\ \A g \in Factories : lock'[p][g] = IF g = 0 THEN lock[p][0] ELSE "free"
      BY <3>1 DEF TypeOK
    <3> QED
      BY <2>1, <2>2, <3>1, <3>2, <3>3
  <2>3. CASE ~(f = 0 /\ proving_macs[p])
    <3>1. made' = [made EXCEPT ![p][f] = made[p][f] + 1] /\ UNCHANGED <<proving_macs, lock>>
      BY <1>1, <2>3 DEF Push
    <3>0. made \in [Players -> [Factories -> Nat]]
      BY DEF TypeOK
    <3>2. made'[p][f] = made[p][f] + 1 /\ OnlyAt(made', made, Factories, p, f)
      BY <3>0, <3>1, ChangeAt, ZenonT(60)
    <3>3. \A q \in Players, g \in Factories :
             made'[q][g] = made[q][g] \/ made'[q][g] = made[q][g] + 1
      BY <3>2 DEF OnlyAt
    <3>4. \A q \in Players : proving_macs[q] => made'[q][0] = made[q][0]
      BY <2>3, <3>2, PlayerNumbers DEF OnlyAt
    <3> QED
      BY <2>1, <3>1, <3>3, <3>4
  <2> QED
    BY <2>2, <2>3
<1>2. CASE ~Push(p, f)
  <2>1. UNCHANGED <<industry, proving_macs, taker>>
    BY <1>2 DEF Factory, Say, Hear, Decide
  <2> QED
    BY <2>1
<1> QED
  BY <1>1, <1>2

\* A step of a taker leaves the factories and the other takers where they are.
LEMMA TakerFrame ==
    ASSUME TypeOK, PlacesOK, NEW p \in Players, NEW t \in Takers, Taker(p, t)
    PROVE  /\ UNCHANGED <<made, factory>>
           /\ OnlyAt(tpc', tpc, Takers, p, t) /\ OnlyAt(num', num, Takers, p, t)
           /\ OnlyAt(want', want, Takers, p, t) /\ OnlyAt(taken', taken, Takers, p, t)
           /\ OnlyAt(batch_number', batch_number, Factories, p, num[p][t])
           /\ OnlyAt(used', used, Factories, p, num[p][t])
           /\ OnlyAt(lock', lock, Factories, p, num[p][t])
<1> USE DEF industry, TakerGoes, At, SetLock
<1>1. UNCHANGED <<made, factory>>
  BY DEF Taker, Try, Choose, Take0, Reshare, Lock, Update, Receive, Check, Take, Exit
<1>2. OnlyAt(tpc', tpc, Takers, p, t)
  <2>1. \/ UNCHANGED tpc
        \/ \E pc : tpc' = [tpc EXCEPT ![p][t] = pc]
    BY DEF Taker, Try, Choose, Take0, Reshare, Lock, Update, Receive, Check, Take, Exit,
           AfterTake, NextItem
  <2> QED
    BY <2>1 DEF TypeOK, OnlyAt
<1>3. OnlyAt(num', num, Takers, p, t)
  <2>1. UNCHANGED num \/ \E n : num' = [num EXCEPT ![p][t] = n]
    BY DEF Taker, Try, Choose, Take0, Reshare, Lock, Update, Receive, Check, Take, Exit
  <2> QED
    BY <2>1 DEF TypeOK, OnlyAt
<1>4. OnlyAt(want', want, Takers, p, t)
  <2>1. UNCHANGED want \/ \E c : want' = [want EXCEPT ![p][t] = c]
    BY DEF Taker, Try, Choose, Take0, Reshare, Lock, Update, Receive, Check, Take, Exit
  <2> QED
    BY <2>1 DEF TypeOK, OnlyAt
<1>5. OnlyAt(taken', taken, Takers, p, t)
  <2>1. UNCHANGED taken \/ \E n : taken' = [taken EXCEPT ![p][t] = n]
    BY DEF Taker, Try, Choose, Take0, Reshare, Lock, Update, Receive, Check, Take, Exit,
           AfterTake
  <2> QED
    BY <2>1 DEF TypeOK, OnlyAt
<1>6. OnlyAt(batch_number', batch_number, Factories, p, num[p][t])
  <2>1. UNCHANGED batch_number
        \/ \E b : batch_number' = [batch_number EXCEPT ![p][num[p][t]] = b]
    BY DEF Taker, Try, Choose, Take0, Reshare, Lock, Update, Receive, Check, Take, Exit,
           Update_If_Empty
  <2>2. batch_number \in [Players -> [Factories -> {-1} \cup Nat]]
    BY DEF TypeOK
  <2>3. CASE UNCHANGED batch_number
    BY <2>3 DEF OnlyAt
  <2>4. CASE \E b : batch_number' = [batch_number EXCEPT ![p][num[p][t]] = b]
    BY <2>2, <2>4, ChangeAt
  <2> QED
    BY <2>1, <2>3, <2>4
<1>7. OnlyAt(used', used, Factories, p, num[p][t])
  <2>1. UNCHANGED used \/ \E b : used' = [used EXCEPT ![p][num[p][t]] = b]
    BY DEF Taker, Try, Choose, Take0, Reshare, Lock, Update, Receive, Check, Take, Exit,
           Update_If_Empty, PlacesOK, Held
  <2>2. used \in [Players -> [Factories -> SUBSET (0 .. U - 1)]]
    BY DEF TypeOK
  <2>3. CASE UNCHANGED used
    BY <2>3 DEF OnlyAt
  <2>4. CASE \E b : used' = [used EXCEPT ![p][num[p][t]] = b]
    BY <2>2, <2>4, ChangeAt
  <2> QED
    BY <2>1, <2>3, <2>4
<1>8. OnlyAt(lock', lock, Factories, p, num[p][t])
  <2>1. UNCHANGED lock \/ \E b : lock' = [lock EXCEPT ![p][num[p][t]] = b]
    BY DEF Taker, Try, Choose, Take0, Reshare, Lock, Update, Receive, Check, Take, Exit
  <2>2. lock \in [Players -> [Factories -> Takers \cup {"free", "constructor"}]]
    BY DEF TypeOK
  <2>3. CASE UNCHANGED lock
    BY <2>3 DEF OnlyAt
  <2>4. CASE \E b : lock' = [lock EXCEPT ![p][num[p][t]] = b]
    BY <2>2, <2>4, ChangeAt
  <2> QED
    BY <2>1, <2>3, <2>4
<1> QED
  BY <1>1, <1>2, <1>3, <1>4, <1>5, <1>6, <1>7, <1>8

\* Nobody touches a factory that another taker has locked.
LEMMA LockedStays ==
    ASSUME TypeOK, PlacesOK, LocksOK, NEW p \in Players, NEW t \in Takers, Taker(p, t),
           NEW q \in Players, NEW u \in Takers, q # p \/ u # t,
           NEW f \in Factories, lock[q][f] = u
    PROVE  /\ batch_number'[q][f] = batch_number[q][f]
           /\ used'[q][f] = used[q][f]
           /\ lock'[q][f] = u
<1>1. CASE q # p \/ f # num[p][t]
  BY <1>1, TakerFrame DEF OnlyAt
<1>2. CASE q = p /\ f = num[p][t]
  <2>1. lock[p][num[p][t]] # "free" /\ lock[p][num[p][t]] # t
    BY <1>2, TakerNames
  <2>2. ~Update(p, t) /\ ~(p = 0 /\ Take0(t)) /\ ~Lock(p, t)
    BY <2>1 DEF Update, Take0, Lock, LocksOK
  <2>3. ~Take(p, t)
    BY <2>1 DEF Take, PlacesOK, Held
  <2>4. CASE p = 0 /\ Try(t)
    BY <1>2, <2>1, <2>4 DEF Try
  <2>5. CASE \/ p = 0 /\ (Choose(t) \/ Reshare(t))
             \/ Receive(p, t) \/ Check(p, t) \/ Exit(p, t)
    BY <2>5 DEF Choose, Reshare, Receive, Check, Exit, industry
  <2> QED
    BY <2>2, <2>3, <2>4, <2>5 DEF Taker
<1> QED
  BY <1>1, <1>2

\* Where a taker goes by a step of its own.
LEMMA TakerGoesRight ==
    ASSUME TypeOK, NEW p \in Players, NEW t \in Takers, NEW pc, TakerGoes(p, t, pc)
    PROVE  tpc'[p][t] = pc
BY DEF TakerGoes, TypeOK

\* Where a taker goes that has its ciphertext.
LEMMA AfterTakeRight ==
    ASSUME TypeOK, NEW p \in Players, NEW t \in Takers, AfterTake(p, t)
    PROVE  /\ taken'[p][t] = taken[p][t] + 1
           /\ tpc'[p][t] = IF p = 0 /\ (taken[p][t] + 1) % Items[t] = 0 THEN "reshare"
                           ELSE NextItem(p, t, taken[p][t] + 1)
BY TakerGoesRight DEF AfterTake, TypeOK

\* What one of player 0 does, apart from taking.
LEMMA Moves0 ==
    ASSUME TypeOK, PlacesOK, NEW t \in Takers, NEW f, f = num[0][t]
    PROVE  /\ Try(t) => \/ /\ f = NFactories /\ tpc'[0][t] = "choose"
                           /\ UNCHANGED <<num, industry>>
                        \/ /\ f \in Factories /\ lock[0][f] = "free" /\ ~isempty(0, f)
                           /\ tpc'[0][t] = "take" /\ lock'[0][f] = t
                           /\ UNCHANGED <<num, batch_number, used>>
                        \/ /\ f \in Factories /\ num'[0][t] = f + 1
                           /\ tpc'[0][t] = "try" /\ UNCHANGED industry
           /\ Choose(t) => /\ num'[0][t] \in Factories /\ tpc'[0][t] = "lock"
                           /\ UNCHANGED industry
           /\ Reshare(t) => /\ tpc'[0][t] = NextItem(0, t, taken[0][t])
                            /\ UNCHANGED <<num, industry>>
<1> USE PlayerNumbers, TakerGoesRight DEF industry
<1>1. ASSUME Try(t)
      PROVE  \/ /\ f = NFactories /\ tpc'[0][t] = "choose"
                /\ UNCHANGED <<num, industry>>
             \/ /\ f \in Factories /\ lock[0][f] = "free" /\ ~isempty(0, f)
                /\ tpc'[0][t] = "take" /\ lock'[0][f] = t
                /\ UNCHANGED <<num, batch_number, used>>
             \/ /\ f \in Factories /\ num'[0][t] = f + 1
                /\ tpc'[0][t] = "try" /\ UNCHANGED industry
  <2>1. f \in 0 .. NFactories
    BY DEF TypeOK
  <2>2. UNCHANGED <<made, batch_number, used>> /\ tpc[0][t] = "try"
    BY <1>1 DEF Try
  <2>3. CASE f = NFactories
    BY <1>1, <2>2, <2>3 DEF Try
  <2>4. CASE f # NFactories /\ SetLock(0, f, t) /\ lock[0][f] = "free" /\ ~isempty(0, f)
               /\ TakerGoes(0, t, "take") /\ UNCHANGED num
    <3>1. lock'[0][f] = t
      BY <2>1, <2>4 DEF SetLock, TypeOK
    <3> QED
      BY <2>1, <2>2, <2>4, <3>1
  <2>5. CASE f # NFactories /\ At(0, t, f + 1) /\ UNCHANGED <<tpc, lock>>
    <3>1. num'[0][t] = f + 1
      BY <2>5 DEF At, TypeOK
    <3> QED
      BY <2>1, <2>2, <2>5, <3>1
  <2> QED
    BY <1>1, <2>3, <2>4, <2>5 DEF Try
<1>2. ASSUME Choose(t)
      PROVE  /\ num'[0][t] \in Factories /\ tpc'[0][t] = "lock"
             /\ UNCHANGED industry
  <2>1. PICK g \in Factories : At(0, t, g)
    BY <1>2 DEF Choose
  <2>2. num'[0][t] = g
    BY <2>1 DEF At, TypeOK
  <2> QED
    BY <1>2, <2>2 DEF Choose
<1>3. Reshare(t) => /\ tpc'[0][t] = NextItem(0, t, taken[0][t])
                    /\ UNCHANGED <<num, industry>>
  BY DEF Reshare
<1> QED
  BY <1>1, <1>2, <1>3

\* What one of any player does.
LEMMA PlaceKnown ==
    ASSUME TypeOK, PlacesOK, NEW p \in Players, NEW t \in Takers,
           \/ p = 0 /\ tpc[p][t] \in {"lock", "update", "take"}
           \/ p # 0 /\ Held(p, t)
    PROVE  num[p][t] \in Factories
BY DEF PlacesOK, TypeOK, Choice

\* What taking the mutex of a list changes.
LEMMA LockRight ==
    ASSUME TypeOK, PlacesOK, NEW p \in Players, NEW t \in Takers, Lock(p, t)
    PROVE  /\ num[p][t] \in Factories /\ lock[p][num[p][t]] = "free"
           /\ lock'[p][num[p][t]] = t /\ tpc[p][t] = "lock" /\ tpc'[p][t] = "update"
           /\ UNCHANGED <<made, batch_number, used, factory, num, told, want, taken>>
<1>1. num[p][t] \in Factories
  BY PlaceKnown DEF Lock, Held
<1>2. lock'[p][num[p][t]] = t
  BY <1>1 DEF Lock, SetLock, TypeOK
<1> QED
  BY <1>1, <1>2, TakerGoesRight DEF Lock

\* What the decision of player 0 changes.
LEMMA UpdateRight ==
    ASSUME TypeOK, PlacesOK, NEW p \in Players, NEW t \in Takers, Update(p, t),
           NEW f, f = num[p][t]
    PROVE  /\ f \in Factories /\ tpc[p][t] = "update"
           /\ p = 0 => tpc'[p][t] = "take" /\ UNCHANGED lock
           /\ p # 0 => tpc'[p][t] = "check" /\ lock'[p][f] = "free"
           /\ \/ ~isempty(p, f) /\ UNCHANGED <<batch_number, used>>
              \/ /\ isempty(p, f) /\ batch_number[p][f] + 1 < made[p][f]
                 /\ batch_number'[p][f] = batch_number[p][f] + 1
                 /\ used'[p][f] = {}
           /\ UNCHANGED <<made, factory, num, told, want, taken>>
<1>1. f \in Factories
  BY PlaceKnown DEF Update, Held
<1>2. /\ p = 0 => tpc'[p][t] = "take" /\ UNCHANGED lock
      /\ p # 0 => tpc'[p][t] = "check" /\ lock'[p][f] = "free"
  BY <1>1, TakerGoesRight DEF Update, SetLock, TypeOK
<1>3. CASE ~isempty(p, f) /\ UNCHANGED <<batch_number, used>>
  BY <1>1, <1>2, <1>3 DEF Update
<1>4. CASE /\ isempty(p, f) /\ ListSize(p, f) > 0
           /\ batch_number' = [batch_number EXCEPT ![p][f] = @ + 1]
           /\ used' = [used EXCEPT ![p][f] = {}]
  <2>1. batch_number[p][f] + 1 < made[p][f]
    <3>1. batch_number[p][f] \in {-1} \cup Nat /\ made[p][f] \in Nat
      BY <1>1 DEF TypeOK
    <3> QED
      BY <1>4, <3>1 DEF ListSize
  <2>2. batch_number'[p][f] = batch_number[p][f] + 1 /\ used'[p][f] = {}
    BY <1>1, <1>4 DEF TypeOK
  <2> QED
    BY <1>1, <1>2, <1>4, <2>1, <2>2 DEF Update
<1> QED
  BY <1>3, <1>4 DEF Update, Update_If_Empty

\* What the receipt of the decision changes.
LEMMA ReceiveRight ==
    ASSUME TypeOK, NEW p \in Players, NEW t \in Takers, Receive(p, t)
    PROVE  /\ p # 0 /\ tpc[p][t] = "receive" /\ tpc'[p][t] = "check"
           /\ told[p][t] \in Seq(Choice) /\ told[p][t] # <<>>
           /\ told'[p][t] = Tail(told[p][t]) /\ want'[p][t] = Head(told[p][t])
           /\ num'[p][t] = Head(told[p][t]).num
           /\ OnlyAt(told', told, Takers, p, t)
           /\ UNCHANGED <<industry, factory, taken>>
<1>1. told \in [Players -> [Takers -> Seq(Choice)]]
  BY DEF TypeOK
<1>2. told' = [told EXCEPT ![p][t] = Tail(told[p][t])]
  BY DEF Receive
<1>3. told'[p][t] = Tail(told[p][t]) /\ OnlyAt(told', told, Takers, p, t)
  BY <1>1, <1>2, ChangeAt, ZenonT(60)
<1>4. num'[p][t] = Head(told[p][t]).num /\ want'[p][t] = Head(told[p][t])
  BY DEF Receive, At, TypeOK
<1> QED
  BY <1>1, <1>3, <1>4, TakerGoesRight DEF Receive

\* What taking from a list changes.
LEMMA TakeRight ==
    ASSUME TypeOK, NEW p \in Players, NEW t \in Takers, Take(p, t)
    PROVE  /\ p # 0 /\ tpc[p][t] = "take" /\ want[p][t].num \in Factories
           /\ lock[p][want[p][t].num] = "free"
           /\ tpc'[p][t] = NextItem(p, t, taken[p][t] + 1)
           /\ taken'[p][t] = taken[p][t] + 1
           /\ UNCHANGED <<made, batch_number, lock, factory, num, told, want>>
<1>1. want[p][t].num \in Factories
  BY DEF TypeOK, Choice
<1> QED
  BY <1>1, AfterTakeRight DEF Take

\* What player 0 changes when it takes.
LEMMA Take0Right ==
    ASSUME TypeOK, PlacesOK, NEW t \in Takers, Take0(t), NEW f, f = num[0][t],
           NEW c, c = [num |-> f, batch |-> batch_number[0][f], i |-> NextUnused(f)]
    PROVE  /\ f \in Factories /\ ~isempty(0, f) /\ tpc[0][t] = "take"
           /\ c \in Choice /\ c.i \notin used[0][f]
           /\ lock'[0][f] = "free"
           /\ \A p \in Players \ {0} : told'[p][t] = Append(told[p][t], c)
           /\ \A p \in Players, u \in Takers : p = 0 \/ u # t => told'[p][u] = told[p][u]
           /\ tpc'[0][t] = IF (taken[0][t] + 1) % Items[t] = 0 THEN "reshare"
                           ELSE NextItem(0, t, taken[0][t] + 1)
           /\ taken'[0][t] = taken[0][t] + 1
           /\ UNCHANGED <<made, batch_number, factory>>
<1> USE PlayerNumbers
<1>1. f \in Factories /\ ~isempty(0, f) /\ tpc[0][t] = "take"
  BY DEF PlacesOK, Take0
<1>2. NextUnused(f) \in (0 .. U - 1) \ used[0][f]
  BY <1>1, NextUnusedRight
<1>3. batch_number[0][f] \in Nat
  BY <1>1 DEF isempty, TypeOK
<1>4. c \in Choice /\ c.i \notin used[0][f]
  BY <1>1, <1>2, <1>3 DEF Choice
<1>5. /\ used' = [used EXCEPT ![0][f] = @ \cup {c.i}]
      /\ told' = [p \in Players |-> IF p = 0 THEN told[0]
                                      ELSE [told[p] EXCEPT ![t] = Append(told[p][t], c)]]
      /\ SetLock(0, f, "free") /\ AfterTake(0, t)
      /\ UNCHANGED <<made, batch_number, factory>>
  BY DEF Take0
<1>6. lock'[0][f] = "free"
  BY <1>1, <1>5 DEF SetLock, TypeOK
<1> HIDE PlayerNumbers
<1>7. /\ \A p \in Players \ {0} : told'[p][t] = Append(told[p][t], c)
      /\ \A p \in Players, u \in Takers : p = 0 \/ u # t => told'[p][u] = told[p][u]
  BY <1>5 DEF TypeOK
<1> QED
  BY <1>1, <1>4, <1>5, <1>6, <1>7, AfterTakeRight, PlayerNumbers

---------------------------------------------------------------------------
(* Places, locks and lists.                                                *)

\* Every step keeps who is where.
LEMMA PlacesStep ==
    ASSUME TypeOK, PlacesOK, LocksOK, NEW p \in Players, NEW t \in Takers, Taker(p, t)
    PROVE  PlacesOK'
<1> USE PlayerNumbers
<1> DEFINE Mine(u) == /\ tpc[0][u] \notin {"receive", "check", "exit"}
                      /\ tpc[0][u] \in {"lock", "update", "take"} => num[0][u] \in Factories
                      /\ tpc[0][u] = "take" => ~isempty(0, num[0][u])
           Theirs(q, u) == /\ tpc[q][u] \notin {"try", "choose", "reshare"}
                           /\ Held(q, u) => num[q][u] = want[q][u].num
<1>1. ASSUME NEW u \in Takers, p # 0 \/ u # t PROVE Mine(u)'
  <2>1. Mine(u) /\ tpc'[0][u] = tpc[0][u] /\ num'[0][u] = num[0][u]
    BY <1>1, TakerFrame DEF OnlyAt, PlacesOK
  <2>2. ASSUME tpc[0][u] = "take" PROVE ~isempty(0, num[0][u])'
    <3>1. num[0][u] \in Factories /\ lock[0][num[0][u]] = u
      BY <2>1, <2>2 DEF LocksOK
    <3>2. /\ batch_number'[0][num[0][u]] = batch_number[0][num[0][u]]
          /\ used'[0][num[0][u]] = used[0][num[0][u]]
      BY <1>1, <3>1, LockedStays
    <3> QED
      BY <2>1, <2>2, <3>2 DEF isempty
  <2> QED
    BY <2>1, <2>2
<1>2. ASSUME NEW q \in Players \ {0}, NEW u \in Takers, q # p \/ u # t PROVE Theirs(q, u)'
  BY <1>2, TakerFrame DEF OnlyAt, PlacesOK, Held
<1>3. ASSUME p = 0 PROVE Mine(t)'
  <2>0. Mine(t)
    BY DEF PlacesOK
  <2> DEFINE f == num[0][t]
  <2>1. CASE Try(t)
    <3>1. CASE f \in Factories /\ ~isempty(0, f) /\ UNCHANGED <<num, batch_number, used>>
               /\ tpc'[0][t] = "take"
      BY <3>1 DEF isempty
    <3>2. CASE tpc'[0][t] \in {"choose", "try"}
      BY <3>2
    <3> QED
      BY <2>1, <3>1, <3>2, Moves0
  <2>2. CASE Choose(t)
    BY <2>2, Moves0
  <2>3. CASE Reshare(t)
    BY <2>3, Moves0 DEF NextItem
  <2>4. CASE Take0(t)
    BY <2>4, Take0Right, ZenonT(60) DEF NextItem
  <2>5. CASE Lock(0, t)
    BY <2>5, LockRight
  <2>6. CASE Update(0, t)
    <3>1. f \in Factories /\ tpc'[0][t] = "take" /\ UNCHANGED num
      BY <2>6, UpdateRight
    <3>2. CASE ~isempty(0, f) /\ UNCHANGED <<batch_number, used>>
      BY <3>1, <3>2 DEF isempty
    <3>3. CASE batch_number'[0][f] = batch_number[0][f] + 1 /\ used'[0][f] = {}
      <4>1. batch_number'[0][f] # -1 /\ used'[0][f] # 0 .. U - 1
        <5>1. batch_number[0][f] \in {-1} \cup Nat
          BY <3>1, SMTT(30) DEF TypeOK
        <5>2. 0 \in 0 .. U - 1
          BY IndustryAssumption
        <5> HIDE DEF f
        <5> QED
          BY <3>3, <5>1, <5>2
      <4> QED
        BY <3>1, <4>1 DEF isempty
    <3> QED
      BY <2>6, <3>2, <3>3, UpdateRight
  <2>7. ~Exit(0, t) /\ ~Receive(0, t) /\ ~Check(0, t) /\ ~Take(0, t)
    BY <2>0 DEF Exit, Receive, Check, Take
  <2> QED
    BY <1>3, <2>1, <2>2, <2>3, <2>4, <2>5, <2>6, <2>7 DEF Taker
<1>4. ASSUME p # 0 PROVE Theirs(p, t)'
  <2>0. Theirs(p, t)
    BY <1>4 DEF PlacesOK
  <2>1. CASE Lock(p, t)
    BY <2>0, <2>1, LockRight DEF Held
  <2>2. CASE Update(p, t)
    BY <1>4, <2>0, <2>2, UpdateRight DEF Held
  <2>3. CASE Receive(p, t)
    BY <2>3, ReceiveRight DEF Held
  <2>4. CASE Check(p, t)
    <3>1. tpc'[p][t] \in {"take", "lock"} /\ tpc[p][t] = "check" /\ UNCHANGED <<num, want>>
      BY <2>4, TakerGoesRight DEF Check
    <3> QED
      BY <2>0, <3>1 DEF Held
  <2>5. CASE Take(p, t)
    BY <1>4, <2>5, TakeRight DEF Held, NextItem
  <2>6. CASE Exit(p, t)
    BY <2>6, TakerGoesRight DEF Exit, Held
  <2> QED
    BY <1>4, <2>1, <2>2, <2>3, <2>4, <2>5, <2>6 DEF Taker
<1> QED
  BY <1>1, <1>2, <1>3, <1>4 DEF PlacesOK

\* Every step keeps who holds which mutex.
LEMMA LocksStep ==
    ASSUME TypeOK, PlacesOK, LocksOK, NEW p \in Players, NEW t \in Takers, Taker(p, t)
    PROVE  LocksOK'
<1> USE PlayerNumbers
<1> DEFINE Holds(q, u) == tpc[q][u] = "update" \/ (q = 0 /\ tpc[q][u] = "take")
<1>1. ASSUME NEW q \in Players, NEW u \in Takers, q # p \/ u # t, Holds(q, u)'
      PROVE  lock'[q][num'[q][u]] = u
  <2>1. tpc'[q][u] = tpc[q][u] /\ num'[q][u] = num[q][u]
    BY <1>1, TakerFrame DEF OnlyAt
  <2>2. PICK f \in Factories : f = num[q][u] /\ lock[q][f] = u
    BY <1>1, <2>1, PlaceKnown DEF LocksOK, Held
  <2>3. lock'[q][f] = u
    BY <1>1, <2>2, LockedStays
  <2> QED
    BY <2>1, <2>2, <2>3
<1>2. ASSUME Holds(p, t)' PROVE lock'[p][num'[p][t]] = t
  <2>1. CASE Lock(p, t)
    BY <2>1, LockRight
  <2>2. CASE Update(p, t)
    BY <1>2, <2>2, UpdateRight DEF LocksOK
  <2>3. CASE p = 0 /\ Try(t)
    BY <1>2, <2>3, Moves0
  <2>4. CASE p = 0 /\ (Choose(t) \/ Reshare(t))
    BY <1>2, <2>4, Moves0 DEF NextItem
  <2>5. CASE p = 0 /\ Take0(t)
    BY <1>2, <2>5, Take0Right DEF NextItem
  <2>6. CASE Receive(p, t)
    BY <1>2, <2>6, ReceiveRight
  <2>7. CASE Check(p, t)
    BY <1>2, <2>7, TakerGoesRight DEF Check
  <2>8. CASE Take(p, t)
    BY <1>2, <2>8, TakeRight DEF NextItem
  <2>9. CASE Exit(p, t)
    BY <1>2, <2>9, TakerGoesRight DEF Exit
  <2> QED
    BY <2>1, <2>2, <2>3, <2>4, <2>5, <2>6, <2>7, <2>8, <2>9 DEF Taker
<1> QED
  BY <1>1, <1>2 DEF LocksOK

\* Every step keeps the batch in use among those made.
LEMMA ListsStep ==
    ASSUME TypeOK, PlacesOK, ListsOK, NEW p \in Players, NEW t \in Takers, Taker(p, t)
    PROVE  ListsOK'
<1>1. UNCHANGED made
  BY TakerFrame
<1>2. CASE Update(p, t)
  <2>1. ASSUME NEW q \in Players, NEW f \in Factories, q # p \/ f # num[p][t]
        PROVE  batch_number'[q][f] = batch_number[q][f]
    BY <2>1, TakerFrame DEF OnlyAt
  <2>2. batch_number'[p][num[p][t]] < made[p][num[p][t]]
    BY <1>2, UpdateRight DEF ListsOK
  <2> QED
    BY <1>1, <2>1, <2>2 DEF ListsOK
<1>3. CASE ~Update(p, t)
  <2>1. UNCHANGED batch_number
    BY <1>3 DEF Taker, Try, Choose, Take0, Reshare, Lock, Receive, Check, Take, Exit, industry
  <2> QED
    BY <1>1, <2>1 DEF ListsOK
<1> QED
  BY <1>2, <1>3

---------------------------------------------------------------------------
(* The MAC ciphertexts, and who is served.                                 *)

\* Every step keeps everything back until the MAC ciphertexts are there.
LEMMA MacsStep ==
    ASSUME TypeOK, PlacesOK, LocksOK, ChoicesOK, MacsOK,
           NEW p \in Players, NEW t \in Takers, Taker(p, t)
    PROVE  MacsOK'
<1> USE PlayerNumbers
<1> SUFFICES ASSUME NEW q \in Players, proving_macs'[q]
             PROVE  /\ made'[q][0] = 0
                    /\ \A f \in Factories : batch_number'[q][f] = -1
                    /\ \A f \in Factories \ {0} : lock'[q][f] = "constructor"
                    /\ \A u \in Takers : taken'[q][u] = 0
  BY DEF MacsOK
<1>1. /\ UNCHANGED made /\ made[q][0] = 0
      /\ \A f \in Factories : batch_number[q][f] = -1 /\ isempty(q, f)
      /\ \A f \in Factories \ {0} : lock[q][f] = "constructor"
      /\ \A u \in Takers : taken[q][u] = 0
  BY TakerFrame DEF factory, MacsOK, isempty
<1>2. CASE q # p
  BY <1>1, <1>2, TakerFrame DEF OnlyAt
<1>3. CASE q = p
  <2> DEFINE f == num[p][t]
  <2>1. CASE p = 0 /\ Try(t)
    BY <1>1, <1>3, <2>1, Moves0 DEF Try, industry
  <2>2. CASE p = 0 /\ Take0(t)
    BY <1>1, <1>3, <2>2, Take0Right, ZenonT(60)
  <2>3. CASE Take(p, t)
    <3>0. want[p][t].batch \in Nat
      BY DEF TypeOK, Choice
    <3>1. SeenStays(p)
      BY <2>3, TakeRight DEF ChoicesOK
    <3>2. batch_number[p][want[p][t].num] = -1
      BY <1>1, <1>3, <2>3, TakeRight
    <3> QED
      BY <2>3, <3>0, <3>1, <3>2, TakeRight DEF SeenStays
  <2>4. CASE Lock(p, t)
    <3>1. f = 0
      BY <1>1, <1>3, <2>4, LockRight
    <3> QED
      BY <1>1, <1>3, <2>4, <3>1, LockRight, TakerFrame DEF OnlyAt
  <2>5. CASE Update(p, t)
    <3>1. f \in Factories /\ lock[p][f] = t
      BY <2>5, UpdateRight DEF LocksOK
    <3>2. f = 0
      BY <1>1, <1>3, <3>1, TakerNames
    <3>3. ~(batch_number[p][f] + 1 < made[p][f])
      BY <1>1, <1>3, <3>1, <3>2
    <3>4. UNCHANGED <<batch_number, taken>>
      BY <2>5, <3>3, UpdateRight
    <3> QED
      BY <1>1, <1>3, <3>2, <3>4, TakerFrame DEF OnlyAt
  <2>6. CASE \/ p = 0 /\ (Choose(t) \/ Reshare(t))
             \/ Receive(p, t) \/ Check(p, t) \/ Exit(p, t)
    BY <1>1, <2>6 DEF Choose, Reshare, Receive, Check, Exit, industry
  <2> QED
    BY <2>1, <2>2, <2>3, <2>4, <2>5, <2>6 DEF Taker
<1> QED
  BY <1>2, <1>3

\* CountsOK for one taker.
CountOK(t) ==
    /\ tpc[0][t] = "done" => taken[0][t] = Demand(t)
    /\ \A p \in Players \ {0} :
          /\ Held(p, t) => taken[0][t] = taken[p][t] + Len(told[p][t]) + 1
          /\ ~Held(p, t) => taken[0][t] = taken[p][t] + Len(told[p][t])
          /\ tpc[0][t] = "done" => taken[p][t] = taken[0][t]
          /\ tpc[p][t] = "done" => tpc[0][t] = "done"

\* The counts are right if they are right for each taker.
LEMMA CountsSame == TypeOK => (CountsOK <=> \A t \in Takers : CountOK(t))
<1> SUFFICES ASSUME TypeOK PROVE CountsOK <=> \A t \in Takers : CountOK(t)
  OBVIOUS
<1>1. ASSUME NEW p \in Players, NEW t \in Takers
      PROVE  taken[p][t] \in Nat /\ Len(told[p][t]) \in Nat
  <2>1. told[p][t] \in Seq(Choice)
    BY DEF TypeOK
  <2> QED
    BY <2>1, LenProperties DEF TypeOK
<1> QED
  BY <1>1 DEF CountsOK, CountOK

\* Every step of a taker keeps its own counts right.
LEMMA CountStep ==
    ASSUME TypeOK, PlacesOK, NEW p \in Players, NEW t \in Takers, CountOK(t), Taker(p, t)
    PROVE  CountOK(t)'
<1> USE PlayerNumbers
<1>0. \A q \in Players : taken[q][t] \in Nat /\ Len(told[q][t]) \in Nat /\ told[q][t] \in Seq(Choice)
  <2>1. \A q \in Players : taken[q][t] \in Nat /\ told[q][t] \in Seq(Choice)
    BY DEF TypeOK
  <2> QED
    BY <2>1, LenProperties
<1>1. \A q \in Players : q # p => tpc'[q][t] = tpc[q][t] /\ taken'[q][t] = taken[q][t]
  BY TakerFrame DEF OnlyAt
<1>2. CASE p = 0
  <2>1. \A q \in Players \ {0} : Held(q, t)' = Held(q, t)
    BY <1>1, <1>2 DEF Held
  <2>2. CASE Take0(t)
    <3> DEFINE c == [num |-> num[0][t], batch |-> batch_number[0][num[0][t]],
                     i |-> NextUnused(num[0][t])]
    <3>1. /\ tpc[0][t] = "take" /\ taken'[0][t] = taken[0][t] + 1
          /\ \A q \in Players \ {0} : told'[q][t] = Append(told[q][t], c) /\ c \in Choice
          /\ tpc'[0][t] = IF (taken[0][t] + 1) % Items[t] = 0 THEN "reshare"
                           ELSE NextItem(0, t, taken[0][t] + 1)
      BY <2>2, Take0Right
    <3>2. tpc'[0][t] # "done"
      BY <3>1, DemandRight DEF NextItem
    <3>3. \A q \in Players \ {0} : Len(told'[q][t]) = Len(told[q][t]) + 1
      <4> HIDE DEF c
      <4> QED
        BY <1>0, <3>1, AppendAt
    <3>4. \A q \in Players \ {0} : tpc'[q][t] # "done"
      BY <1>1, <1>2, <3>1 DEF CountOK
    <3>5. ASSUME NEW q \in Players \ {0}
          PROVE  /\ Held(q, t) => taken'[0][t] = taken[q][t] + Len(told'[q][t]) + 1
                 /\ ~Held(q, t) => taken'[0][t] = taken[q][t] + Len(told'[q][t])
      <4> DEFINE now == Len(told[q][t])
                 then == Len(told'[q][t])
      <4>1. /\ taken'[0][t] = taken[0][t] + 1 /\ then = now + 1
            /\ taken[0][t] \in Nat /\ taken[q][t] \in Nat /\ now \in Nat
        BY <1>0, <3>1, <3>3
      <4>2. /\ Held(q, t) => taken[0][t] = taken[q][t] + now + 1
            /\ ~Held(q, t) => taken[0][t] = taken[q][t] + now
        BY DEF CountOK
      <4> HIDE DEF now, then
      <4>3. /\ Held(q, t) => taken'[0][t] = taken[q][t] + then + 1
            /\ ~Held(q, t) => taken'[0][t] = taken[q][t] + then
        BY <4>1, <4>2
      <4> QED
        BY <4>3 DEF then
    <3> QED
      BY <1>1, <1>2, <2>1, <3>2, <3>4, <3>5 DEF CountOK
  <2>3. CASE Reshare(t)
    <3>1. UNCHANGED <<told, taken>> /\ tpc[0][t] = "reshare"
      BY <2>3 DEF Reshare
    <3>2. ASSUME tpc'[0][t] = "done"
          PROVE  taken[0][t] = Demand(t) /\ \A q \in Players \ {0} : taken[q][t] = taken[0][t]
      <4>1. taken[0][t] = Demand(t)
        BY <2>3, <3>2, Moves0 DEF NextItem
      <4>2. \A q \in Players \ {0} : taken[q][t] >= taken[0][t]
        BY <2>3 DEF Reshare
      <4>3. \A q \in Players \ {0} : taken[q][t] <= taken[0][t]
        BY <1>0 DEF CountOK
      <4> QED
        BY <1>0, <4>1, <4>2, <4>3
    <3>3. \A q \in Players \ {0} : tpc'[q][t] # "done"
      BY <1>1, <1>2, <3>1 DEF CountOK
    <3> QED
      BY <2>1, <3>1, <3>2, <3>3 DEF CountOK
  <2>4. CASE Try(t) \/ Choose(t) \/ Lock(0, t) \/ Update(0, t)
    <3>1. UNCHANGED <<told, taken>>
      BY <2>4 DEF Try, Choose, Lock, Update
    <3>2. tpc[0][t] # "done" /\ tpc'[0][t] # "done"
      <4>1. tpc'[0][t] = tpc[0][t] \/ tpc'[0][t] \in {"choose", "take", "lock", "update", "try"}
        BY <2>4, Moves0, LockRight, UpdateRight
      <4> QED
        BY <2>4, <4>1 DEF Try, Choose, Lock, Update
    <3>3. \A q \in Players \ {0} : tpc'[q][t] # "done"
      BY <1>1, <1>2, <3>2 DEF CountOK
    <3> QED
      BY <2>1, <3>1, <3>2, <3>3 DEF CountOK
  <2>5. ~Exit(0, t) /\ ~Receive(0, t) /\ ~Check(0, t) /\ ~Take(0, t)
    BY DEF Exit, Receive, Check, Take, PlacesOK
  <2> QED
    BY <1>2, <2>2, <2>3, <2>4, <2>5 DEF Taker
<1>3. CASE p # 0
  <2>1. tpc'[0][t] = tpc[0][t] /\ taken'[0][t] = taken[0][t]
    BY <1>1, <1>3
  <2>2. ASSUME NEW q \in Players \ {0}, q # p
        PROVE  Len(told'[q][t]) = Len(told[q][t]) /\ Held(q, t)' = Held(q, t)
    <3>1. told'[q][t] = told[q][t]
      <4>1. CASE Receive(p, t)
        BY <2>2, <4>1, ReceiveRight DEF OnlyAt
      <4>2. CASE ~Receive(p, t)
        BY <1>3, <4>2 DEF Taker, Lock, Update, Check, Take, Exit
      <4> QED
        BY <4>1, <4>2
    <3> QED
      BY <1>1, <2>2, <3>1 DEF Held
  <2> SUFFICES /\ Held(p, t)' => taken[0][t] = taken'[p][t] + Len(told'[p][t]) + 1
               /\ ~Held(p, t)' => taken[0][t] = taken'[p][t] + Len(told'[p][t])
               /\ tpc[0][t] = "done" => taken'[p][t] = taken[0][t]
               /\ tpc'[p][t] = "done" => tpc[0][t] = "done"
    BY <1>1, <1>3, <2>1, <2>2 DEF CountOK
  <2>3. /\ Held(p, t) => taken[0][t] = taken[p][t] + Len(told[p][t]) + 1
        /\ ~Held(p, t) => taken[0][t] = taken[p][t] + Len(told[p][t])
        /\ tpc[0][t] = "done" => taken[p][t] = taken[0][t]
        /\ tpc[p][t] = "done" => tpc[0][t] = "done"
    BY <1>3 DEF CountOK
  <2>4. CASE Receive(p, t)
    <3>1. /\ Len(told'[p][t]) = Len(told[p][t]) - 1 /\ Len(told[p][t]) >= 1
          /\ taken'[p][t] = taken[p][t]
      <4>1. /\ told[p][t] \in Seq(Choice) /\ told[p][t] # <<>>
            /\ told'[p][t] = Tail(told[p][t]) /\ taken'[p][t] = taken[p][t]
        BY <2>4, ReceiveRight
      <4> QED
        BY <4>1, TailAt
    <3>2. ~Held(p, t) /\ Held(p, t)' /\ tpc'[p][t] # "done"
      BY <2>4, ReceiveRight DEF Held
    <3> QED
      BY <1>0, <2>3, <3>1, <3>2
  <2>5. CASE Take(p, t)
    <3>1. taken'[p][t] = taken[p][t] + 1 /\ told'[p][t] = told[p][t]
      BY <2>5, TakeRight
    <3>2. Held(p, t) /\ ~Held(p, t)' /\ tpc'[p][t] # "done"
      BY <1>3, <2>5, TakeRight DEF Held, NextItem
    <3>3. taken[p][t] \in Nat /\ Len(told[p][t]) \in Nat
      BY <1>0
    <3>4. taken[0][t] = taken'[p][t] + Len(told'[p][t])
      BY <2>3, <3>1, <3>2, <3>3
    <3>5. tpc[0][t] # "done"
      BY <2>3, <3>2, <3>3
    <3> QED
      BY <3>2, <3>4, <3>5
  <2>6. CASE Lock(p, t) \/ Update(p, t) \/ Check(p, t)
    <3>1. told'[p][t] = told[p][t] /\ taken'[p][t] = taken[p][t]
      BY <2>6 DEF Lock, Update, Check
    <3>2. Held(p, t) /\ Held(p, t)' /\ tpc'[p][t] # "done"
      BY <1>3, <2>6, LockRight, UpdateRight, TakerGoesRight DEF Held, Check
    <3> QED
      BY <2>3, <3>1, <3>2
  <2>7. CASE Exit(p, t)
    BY <2>3, <2>7, TakerGoesRight DEF Exit, Held
  <2> QED
    BY <1>3, <2>4, <2>5, <2>6, <2>7 DEF Taker
<1> QED
  BY <1>2, <1>3

\* Every step keeps the counts right.
LEMMA CountsStep ==
    ASSUME TypeOK, PlacesOK, CountsOK, NEW p \in Players, NEW t \in Takers, Taker(p, t)
    PROVE  CountsOK'
<1>1. \A u \in Takers : CountOK(u)
  BY CountsSame
<1>2. ASSUME NEW u \in Takers, u # t PROVE CountOK(u)'
  <2>1. \A q \in Players : tpc'[q][u] = tpc[q][u] /\ taken'[q][u] = taken[q][u]
    BY <1>2, TakerFrame DEF OnlyAt
  <2>2. \A q \in Players : told'[q][u] = told[q][u]
    <3>1. CASE Receive(p, t)
      BY <1>2, <3>1, ReceiveRight DEF OnlyAt
    <3>2. CASE p = 0 /\ Take0(t)
      <4> DEFINE c == [num |-> num[0][t], batch |-> batch_number[0][num[0][t]],
                       i |-> NextUnused(num[0][t])]
      <4>1. \A q \in Players, v \in Takers : q = 0 \/ v # t => told'[q][v] = told[q][v]
        BY <3>2, Take0Right
      <4> QED
        BY <1>2, <4>1
    <3>3. CASE ~Receive(p, t) /\ ~(p = 0 /\ Take0(t))
      <4>1. UNCHANGED told
        BY <3>3 DEF Taker, Try, Choose, Reshare, Lock, Update, Check, Take, Exit
      <4> QED
        BY <4>1
    <3> QED
      BY <3>1, <3>2, <3>3
  <2> QED
    BY <1>1, <2>1, <2>2, PlayerNumbers DEF CountOK, Held
<1>3. ASSUME NEW q \in Players, NEW u \in Takers
      PROVE  taken'[q][u] \in Nat /\ Len(told'[q][u]) \in Nat
  <2>1. TypeOK'
    BY TakerTypes
  <2>2. told'[q][u] \in Seq(Choice)
    BY <2>1 DEF TypeOK
  <2> QED
    BY <2>1, <2>2, LenProperties DEF TypeOK
<1>4. \A u \in Takers : CountOK(u)'
  BY <1>1, <1>2, CountStep
<1> QED
  BY <1>3, <1>4 DEF CountsOK, CountOK

\* Every step of a taker leaves those who say that all is finished right.
LEMMA ServedStep ==
    ASSUME TypeOK, PlacesOK, ServedOK, NEW p \in Players, NEW t \in Takers, Taker(p, t)
    PROVE  ServedOK'
<1>1. UNCHANGED <<said, fpc>>
  BY TakerFrame DEF factory
<1>2. AllServed => AllServed'
  <2>1. ASSUME NEW u \in Takers, tpc[0][u] = "done" PROVE tpc'[0][u] = "done"
    <3>1. p # 0 \/ u # t
      BY <2>1 DEF Taker, Try, Choose, Take0, Reshare, Lock, Update, Receive, Check, Take, Exit
    <3> QED
      BY <2>1, <3>1, PlayerNumbers, TakerFrame DEF OnlyAt
  <2> QED
    BY <2>1 DEF AllServed
<1> QED
  BY <1>1, <1>2 DEF ServedOK

\* Where a factory thread goes by a step of its own.
LEMMA FactoryGoesRight ==
    ASSUME TypeOK, NEW p \in Players, NEW f \in Factories, NEW pc, NEW s,
           FactoryGoes(p, f, pc, s)
    PROVE  fpc'[p][f] = pc /\ OnlyAt(fpc', fpc, Factories, p, f)
<1>1. fpc \in [Players -> [Factories -> {"say", "hear", "decide", "push", "out", "wild"}]]
  BY DEF TypeOK
<1>2. fpc' = [fpc EXCEPT ![p][f] = pc]
  BY DEF FactoryGoes
<1> QED
  BY <1>1, <1>2, ChangeAt, ZenonT(60)

\* Who has said that all is finished is right.
Right(s) == \A n \in 1 .. Len(s) : s[n].finished => AllServed

\* Every step of a factory leaves those who say that all is finished right.
LEMMA ServedFactory ==
    ASSUME TypeOK, CountsOK, ServedOK, NEW p \in Players, NEW f \in Factories, Factory(p, f)
    PROVE  ServedOK'
<1>0. /\ \A q, r \in Players, g \in Factories : Right(said[q][r][g])
      /\ \A q, r \in Players, g \in Factories : said[q][r][g] \in Seq(Message)
      /\ \A q \in Players, g \in Factories : fpc[q][g] \in {"out", "wild"} => AllServed
  <2>1. said \in [Players -> [Players -> [Factories -> Seq(Message)]]]
    BY DEF TypeOK
  <2> QED
    BY <2>1 DEF ServedOK, Right
<1>1. AllServed' = AllServed
  BY FactoryFrame DEF taker, AllServed
<1> SUFFICES /\ \A q, r \in Players, g \in Factories : Right(said'[q][r][g])
             /\ fpc'[p][f] \in {"out", "wild"} => AllServed
             /\ OnlyAt(fpc', fpc, Factories, p, f)
  BY <1>0, <1>1 DEF ServedOK, OnlyAt, Right
<1>2. CASE Say(p, f)
  <2> DEFINE m == [stage |-> Stages[stage[p][f]],
                   finished |-> Stages[stage[p][f]] = "exit" /\ Finished(p)]
             out == [q \in Players |-> [said[p][q] EXCEPT ![f] = Append(said[p][q][f], m)]]
  <2>1. m.finished => AllServed
    <3>1. Finished(p) => AllServed
      BY PlayerNumbers DEF Finished, AllServed, CountsOK
    <3> QED
      BY <3>1
  <2>2. m \in Message
    <3>1. Stages[stage[p][f]] \in {FullRound[n] : n \in 1 .. Len(FullRound)}
      BY StagesRight DEF TypeOK
    <3> QED
      BY <3>1 DEF Message
  <2>3. said' = [said EXCEPT ![p] = out]
    BY <1>2 DEF Say
  <2> HIDE DEF m
  <2>4. ASSUME NEW q \in Players PROVE Right(Append(said[p][q][f], m))
    <3> DEFINE s == said[p][q][f]
    <3>1. s \in Seq(Message) /\ Right(s) /\ Len(s) \in Nat
      BY <1>0, LenProperties
    <3> HIDE DEF s
    <3>2. /\ Len(Append(s, m)) = Len(s) + 1 /\ Append(s, m)[Len(s) + 1] = m
          /\ \A n \in 1 .. Len(s) : Append(s, m)[n] = s[n]
      BY <2>2, <3>1, AppendAt
    <3>3. ASSUME NEW n \in 1 .. Len(Append(s, m)), Append(s, m)[n].finished PROVE AllServed
      <4>1. n \in 1 .. Len(s) \/ n = Len(s) + 1
        BY <3>1, <3>2
      <4> QED
        BY <2>1, <3>1, <3>2, <3>3, <4>1 DEF Right
    <3> QED
      BY <3>3 DEF s, Right
  <2>5. \A r \in Players, g \in Factories :
           out[r][g] = IF g = f THEN Append(said[p][r][f], m) ELSE said[p][r][g]
    BY SMTT(30) DEF TypeOK
  <2> HIDE DEF out
  <2>6. \A q, r \in Players, g \in Factories :
           said'[q][r][g] = IF q = p THEN out[r][g] ELSE said[q][r][g]
    BY <2>3 DEF TypeOK
  <2>7. ASSUME NEW q \in Players, NEW r \in Players, NEW g \in Factories
        PROVE  Right(said'[q][r][g])
    BY <1>0, <2>4, <2>5, <2>6
  <2>8. fpc'[p][f] = "hear" /\ OnlyAt(fpc', fpc, Factories, p, f)
    BY <1>2, FactoryGoesRight DEF Say
  <2> QED
    BY <2>7, <2>8
<1>3. CASE Hear(p, f)
  <2>1. /\ \A q \in Players : said[q][p][f] # <<>>
        /\ said' = [q \in Players |-> [said[q] EXCEPT ![p][f] = Tail(said[q][p][f])]]
    BY <1>3 DEF Hear
  <2>2. ASSUME NEW q \in Players
        PROVE  Right(Tail(said[q][p][f])) /\ (Head(said[q][p][f]).finished => AllServed)
    <3> DEFINE s == said[q][p][f]
    <3>1. s \in Seq(Message) /\ Right(s) /\ s # <<>> /\ Len(s) \in Nat
      BY <1>0, <2>1, LenProperties
    <3> HIDE DEF s
    <3>2. /\ Len(Tail(s)) = Len(s) - 1 /\ Len(s) >= 1 /\ Head(s) = s[1]
          /\ \A n \in 1 .. Len(Tail(s)) : Tail(s)[n] = s[n + 1]
      BY <3>1, TailAt
    <3>3. \A n \in 1 .. Len(Tail(s)) : n + 1 \in 1 .. Len(s)
      BY <3>1, <3>2
    <3>4. Right(Tail(s)) /\ (Head(s).finished => AllServed)
      BY <3>1, <3>2, <3>3 DEF Right
    <3> QED
      BY <3>4 DEF s
  <2>3. \A q, r \in Players, g \in Factories :
           said'[q][r][g] = IF r = p /\ g = f THEN Tail(said[q][p][f]) ELSE said[q][r][g]
    <3> SUFFICES ASSUME NEW q \in Players
                 PROVE  \A r \in Players, g \in Factories : said'[q][r][g] =
                          IF r = p /\ g = f THEN Tail(said[q][p][f]) ELSE said[q][r][g]
      OBVIOUS
    <3>1. said[q] \in [Players -> [Factories -> Seq(Message)]]
      BY DEF TypeOK
    <3>2. said'[q] = [said[q] EXCEPT ![p][f] = Tail(said[q][p][f])]
      BY <2>1
    <3> QED
      BY <3>1, <3>2
  <2>4. ASSUME NEW q \in Players, NEW r \in Players, NEW g \in Factories
        PROVE  Right(said'[q][r][g])
    BY <1>0, <2>2, <2>3
  <2>5. AnyFinished(p, f) => AllServed
    BY <2>2 DEF AnyFinished, Heard
  <2>6. PICK pc, n : FactoryGoes(p, f, pc, n) /\ (AnyFinished(p, f) \/ pc \in {"say", "decide", "push"})
    BY <1>3 DEF Hear
  <2>7. fpc'[p][f] = pc /\ OnlyAt(fpc', fpc, Factories, p, f)
    BY <2>6, FactoryGoesRight
  <2> QED
    BY <2>4, <2>5, <2>6, <2>7
<1>4. CASE Decide(p, f) \/ Push(p, f)
  <2>1. UNCHANGED said
    BY <1>4 DEF Decide, Push
  <2>2. fpc'[p][f] = "say" /\ OnlyAt(fpc', fpc, Factories, p, f)
    BY <1>4, FactoryGoesRight DEF Decide, Push
  <2> QED
    BY <1>0, <2>1, <2>2
<1> QED
  BY <1>2, <1>3, <1>4 DEF Factory

\* The other parts of the invariant at a step of a factory thread.
LEMMA FactoryStep ==
    ASSUME TypeOK, IInv, NEW p \in Players, NEW f \in Factories, Factory(p, f)
    PROVE  IInv'
<1>1. PlacesOK'
  BY FactoryFrame DEF IInv, PlacesOK, isempty, Held, taker
<1>2. LocksOK'
  <2>1. ASSUME NEW q \in Players, NEW t \in Takers,
               tpc[q][t] = "update" \/ (q = 0 /\ tpc[q][t] = "take")
        PROVE  lock'[q][num[q][t]] = t
    <3>1. num[q][t] \in Factories /\ lock[q][num[q][t]] = t
      BY <2>1, PlaceKnown DEF IInv, LocksOK, Held
    <3>2. proving_macs[q] /\ num[q][t] # 0 => lock[q][num[q][t]] = "constructor"
      BY <3>1 DEF IInv, MacsOK
    <3> QED
      BY <3>1, <3>2, FactoryFrame, TakerNames
  <2>2. UNCHANGED <<tpc, num>>
    BY FactoryFrame DEF taker
  <2> QED
    BY <2>1, <2>2 DEF LocksOK
<1>3. ListsOK'
  <2>1. \A q \in Players, g \in Factories :
           batch_number[q][g] \in {-1} \cup Nat /\ made[q][g] \in Nat
    BY DEF TypeOK
  <2> QED
    BY <2>1, FactoryFrame DEF IInv, ListsOK
<1>4. ChoicesOK'
  <2>1. UNCHANGED <<batch_number, used, tpc, told, want>>
    BY FactoryFrame DEF taker
  <2>2. ASSUME NEW q \in Players \ {0}
        PROVE  UsedFirst(q)' /\ OwedUnused(q)' /\ OwedOnce(q)' /\ SeenStays(q)'
    <3>1. UsedFirst(q) /\ OwedUnused(q) /\ OwedOnce(q) /\ SeenStays(q)
      BY DEF IInv, ChoicesOK
    <3>2. UsedFirst(q)'
      BY <2>1, <3>1 DEF UsedFirst, UsedBy
    <3>3. OwedUnused(q)'
      <4>1. told'[q] = told[q] /\ want'[q] = want[q] /\ tpc'[q] = tpc[q]
        BY <2>1
      <4>2. \A t, n : (Owes(q, t, n)' <=> Owes(q, t, n)) /\ Owed(q, t, n)' = Owed(q, t, n)
        BY <4>1 DEF Owes, Owed, Held
      <4>3. \A r, g, b, i : UsedBy(r, g, b, i)' <=> UsedBy(r, g, b, i)
        BY <2>1 DEF UsedBy
      <4> QED
        BY <3>1, <4>1, <4>2, <4>3 DEF OwedUnused
    <3>4. OwedOnce(q)'
      BY <2>1, <3>1 DEF OwedOnce, Owes, Owed, Held
    <3>5. SeenStays(q)'
      BY <2>1, <3>1 DEF SeenStays
    <3> QED
      BY <3>2, <3>3, <3>4, <3>5
  <2> QED
    BY <2>2 DEF ChoicesOK
<1>5. MacsOK'
  BY FactoryFrame DEF IInv, MacsOK, taker
<1>6. CountsOK'
  BY FactoryFrame DEF IInv, CountsOK, Held, taker
<1> QED
  BY <1>1, <1>2, <1>3, <1>4, <1>5, <1>6, ServedFactory DEF IInv

---------------------------------------------------------------------------
(* The choices.                                                            *)

\* What is added to what has been used.
LEMMA Take0Uses ==
    ASSUME TypeOK, PlacesOK, NEW t \in Takers, Take0(t), NEW f, f = num[0][t],
           NEW r \in Players, NEW g \in Factories, NEW b \in Nat, NEW i \in 0 .. U - 1
    PROVE  UsedBy(r, g, b, i)' <=>
             UsedBy(r, g, b, i)
               \/ (r = 0 /\ g = f /\ b = batch_number[0][f] /\ i = NextUnused(f))
<1>1. /\ used' = [used EXCEPT ![0][f] = used[0][f] \cup {NextUnused(f)}]
      /\ UNCHANGED batch_number
  BY DEF Take0
<1>2. f \in Factories /\ 0 \in Players
  BY PlayerNumbers DEF PlacesOK, Take0
<1>3. used \in [Players -> [Factories -> SUBSET (0 .. U - 1)]]
  BY DEF TypeOK
<1>4. i \in used'[r][g] <=> i \in used[r][g] \/ (r = 0 /\ g = f /\ i = NextUnused(f))
  BY <1>1, <1>2, <1>3
<1> QED
  BY <1>1, <1>4 DEF UsedBy

\* A take uses the ciphertext that was chosen, and no other.
LEMMA TakeUses ==
    ASSUME TypeOK, NEW p \in Players, SeenStays(p), NEW t \in Takers, Take(p, t),
           NEW c, c = want[p][t],
           NEW r \in Players, NEW g \in Factories, NEW b \in Nat, NEW i \in 0 .. U - 1
    PROVE  UsedBy(r, g, b, i)' <=>
             UsedBy(r, g, b, i) \/ (r = p /\ g = c.num /\ b = c.batch /\ i = c.i)
<1>1. /\ used' = [used EXCEPT ![p][c.num] = used[p][c.num] \cup {c.i}]
      /\ UNCHANGED batch_number /\ tpc[p][t] = "take"
  BY DEF Take
<1>2. c.num \in Factories
  BY DEF TypeOK, Choice
<1>3. batch_number[p][c.num] = c.batch
  BY <1>1 DEF SeenStays
<1>4. used \in [Players -> [Factories -> SUBSET (0 .. U - 1)]]
  BY DEF TypeOK
<1>5. i \in used'[r][g] <=> i \in used[r][g] \/ (r = p /\ g = c.num /\ i = c.i)
  BY <1>1, <1>2, <1>4
<1> QED
  BY <1>1, <1>3, <1>5 DEF UsedBy

\* The next batch adds nothing: the last one was used up.
LEMMA NextBatch ==
    ASSUME TypeOK, PlacesOK, NEW p \in Players, NEW t \in Takers, Update(p, t),
           NEW r \in Players, NEW g \in Factories, NEW b \in Nat, NEW i \in 0 .. U - 1
    PROVE  UsedBy(r, g, b, i)' <=> UsedBy(r, g, b, i)
<1> DEFINE f == num[p][t]
<1>1. CASE r # p \/ g # f
  <2>1. Taker(p, t)
    BY DEF Taker
  <2>2. batch_number'[r][g] = batch_number[r][g] /\ used'[r][g] = used[r][g]
    BY <1>1, <2>1, TakerFrame DEF OnlyAt
  <2> QED
    BY <2>2 DEF UsedBy
<1>2. CASE r = p /\ g = f
  <2>1. f \in Factories
    BY UpdateRight
  <2>2. CASE UNCHANGED <<batch_number, used>>
    BY <2>2 DEF UsedBy
  <2>3. CASE /\ isempty(p, f) /\ batch_number'[p][f] = batch_number[p][f] + 1
             /\ used'[p][f] = {}
    <3>1. batch_number[p][f] \in {-1} \cup Nat
      BY <2>1 DEF TypeOK
    <3>2. batch_number[p][f] = -1 \/ i \in used[p][f]
      BY <2>3 DEF isempty
    <3> HIDE DEF f
    <3> QED
      BY <1>2, <2>3, <3>1, <3>2 DEF UsedBy
  <2> QED
    BY <2>2, <2>3, UpdateRight
<1> QED
  BY <1>1, <1>2

\* UsedFirst, for every batch.
LEMMA UsedFirstAll ==
    ASSUME TypeOK, NEW p \in Players, UsedFirst(p)
    PROVE  \A f \in Factories, b \in Nat, i \in 0 .. U - 1 :
              UsedBy(p, f, b, i) => UsedBy(0, f, b, i)
<1> SUFFICES ASSUME NEW f \in Factories, NEW b \in Nat, NEW i \in 0 .. U - 1, UsedBy(p, f, b, i)
             PROVE  UsedBy(0, f, b, i)
  OBVIOUS
<1>1. b \in 0 .. batch_number[p][f]
  <2>1. batch_number[p][f] \in {-1} \cup Nat
    BY DEF TypeOK
  <2> QED
    BY <2>1 DEF UsedBy
<1> QED
  BY <1>1 DEF UsedFirst

\* What is owed is a choice.
LEMMA OwedType ==
    ASSUME TypeOK, NEW p \in Players, NEW t \in Takers, NEW n \in 0 .. Len(told[p][t])
    PROVE  /\ Owed(p, t, n) \in Choice /\ Owed(p, t, n).num \in Factories
           /\ Owed(p, t, n).batch \in Nat /\ Owed(p, t, n).i \in 0 .. U - 1
<1>1. told[p][t] \in Seq(Choice) /\ want[p][t] \in Choice
  BY DEF TypeOK
<1>2. n # 0 => n \in 1 .. Len(told[p][t])
  BY <1>1, LenProperties
<1>3. Owed(p, t, n) \in Choice
  BY <1>1, <1>2, ElementOfSeq DEF Owed
<1> QED
  BY <1>3 DEF Choice

\* The batch a taker waits for or uses: where it is the current one it is not
\* used up.
LEMMA SeenNotEmpty ==
    ASSUME TypeOK, ChoicesOK, NEW p \in Players \ {0}, NEW t \in Takers, tpc[p][t] = "take"
    PROVE  ~isempty(p, want[p][t].num)
<1> DEFINE c == want[p][t]
<1>1. told[p][t] \in Seq(Choice)
  BY DEF TypeOK
<1>2. 0 \in 0 .. Len(told[p][t])
  BY <1>1, LenProperties
<1>3. Owes(p, t, 0) /\ Owed(p, t, 0) = c
  BY <1>2 DEF Owes, Owed, Held
<1>4. ~UsedBy(p, c.num, c.batch, c.i)
  BY <1>2, <1>3 DEF ChoicesOK, OwedUnused
<1>5. batch_number[p][c.num] = c.batch
  BY DEF ChoicesOK, SeenStays
<1>6. c.batch \in Nat /\ c.i \in 0 .. U - 1
  BY <1>2, <1>3, OwedType
<1> HIDE DEF c
<1>7. batch_number[p][c.num] # -1
  BY <1>5, <1>6
<1>8. c.i \notin used[p][c.num]
  BY <1>4, <1>5 DEF UsedBy
<1>9. used[p][c.num] # 0 .. U - 1
  BY <1>6, <1>8
<1> QED
  BY <1>7, <1>9 DEF isempty, c

\* Every step leaves the batch a taker has seen until it has used it.
LEMMA SeenStep ==
    ASSUME TypeOK, PlacesOK, ChoicesOK, NEW p \in Players, NEW t \in Takers, Taker(p, t),
           NEW q \in Players \ {0}
    PROVE  SeenStays(q)'
<1> SUFFICES ASSUME NEW u \in Takers, tpc'[q][u] = "take"
             PROVE  batch_number'[q][want'[q][u].num] = want'[q][u].batch
  BY DEF SeenStays
<1>1. CASE q # p \/ u # t
  <2>1. tpc[q][u] = "take" /\ want'[q][u] = want[q][u]
    BY <1>1, TakerFrame DEF OnlyAt
  <2>2. want[q][u].num \in Factories /\ ~isempty(q, want[q][u].num)
    <3>1. want[q][u].num \in Factories
      BY DEF TypeOK, Choice
    <3> QED
      BY <2>1, <3>1, SeenNotEmpty
  <2>3. batch_number[q][want[q][u].num] = want[q][u].batch
    BY <2>1 DEF ChoicesOK, SeenStays
  <2>4. batch_number'[q][want[q][u].num] = batch_number[q][want[q][u].num]
    <3>1. CASE Update(p, t)
      <4>1. CASE q = p /\ want[q][u].num = num[p][t]
        BY <2>2, <3>1, <4>1, UpdateRight
      <4>2. CASE ~(q = p /\ want[q][u].num = num[p][t])
        BY <2>2, <4>2, TakerFrame DEF OnlyAt
      <4> QED
        BY <4>1, <4>2
    <3>2. CASE ~Update(p, t)
      <4>1. UNCHANGED batch_number
        BY <3>2 DEF Taker, Try, Choose, Take0, Reshare, Lock, Receive, Check, Take, Exit, industry
      <4> QED
        BY <4>1
    <3> QED
      BY <3>1, <3>2
  <2> QED
    BY <2>1, <2>3, <2>4
<1>2. CASE q = p /\ u = t
  <2>1. CASE Check(p, t)
    <3>1. IsCurrent(p, t) /\ UNCHANGED <<batch_number, want>> /\ tpc[p][t] = "check"
      BY <1>2, <2>1, TakerGoesRight DEF Check, industry
    <3>2. num[p][t] = want[p][t].num
      BY <1>2, <3>1 DEF PlacesOK, Held
    <3> QED
      BY <1>2, <3>1, <3>2 DEF IsCurrent
  <2>2. ~Lock(p, t) /\ ~Update(p, t) /\ ~Receive(p, t) /\ ~Take(p, t) /\ ~Exit(p, t)
    BY <1>2, LockRight, UpdateRight, ReceiveRight, TakeRight, TakerGoesRight DEF Exit, NextItem
  <2> QED
    BY <1>2, <2>1, <2>2 DEF Taker
<1> QED
  BY <1>1, <1>2

\* A step that neither uses a ciphertext nor touches the choices of q.
LEMMA QuietChoices ==
    ASSUME TypeOK, TypeOK', NEW q \in Players \ {0},
           UsedFirst(q), OwedUnused(q), OwedOnce(q),
           \A r \in {0, q}, g \in Factories, b \in Nat, i \in 0 .. U - 1 :
              UsedBy(r, g, b, i)' <=> UsedBy(r, g, b, i),
           \A u \in Takers : /\ told'[q][u] = told[q][u] /\ want'[q][u] = want[q][u]
                             /\ Held(q, u)' <=> Held(q, u)
    PROVE  UsedFirst(q)' /\ OwedUnused(q)' /\ OwedOnce(q)'
<1>1. UsedFirst(q)'
  <2> SUFFICES ASSUME NEW f \in Factories, NEW b \in 0 .. batch_number'[q][f],
                      NEW i \in 0 .. U - 1, UsedBy(q, f, b, i)'
               PROVE  UsedBy(0, f, b, i)'
    BY DEF UsedFirst
  <2>1. b \in Nat
    OBVIOUS
  <2> QED
    BY <2>1, UsedFirstAll
<1>2. ASSUME NEW u \in Takers, NEW n \in 0 .. Len(told[q][u])
      PROVE  (Owes(q, u, n)' <=> Owes(q, u, n)) /\ Owed(q, u, n)' = Owed(q, u, n)
  BY DEF Owes, Owed
<1>3. OwedUnused(q)'
  <2> SUFFICES ASSUME NEW u \in Takers, NEW n \in 0 .. Len(told[q][u]), Owes(q, u, n),
                      NEW c, c = Owed(q, u, n)
               PROVE  /\ UsedBy(0, c.num, c.batch, c.i)'
                      /\ ~UsedBy(q, c.num, c.batch, c.i)'
    BY <1>2 DEF OwedUnused, UsedBy
  <2>1. UsedBy(0, c.num, c.batch, c.i) /\ ~UsedBy(q, c.num, c.batch, c.i)
    BY DEF OwedUnused
  <2>2. c.num \in Factories /\ c.batch \in Nat /\ c.i \in 0 .. U - 1
    BY OwedType
  <2> QED
    BY <2>1, <2>2
<1>4. OwedOnce(q)'
  BY <1>2 DEF OwedOnce
<1> QED
  BY <1>1, <1>3, <1>4

\* Player 0 takes one: every other player owes it besides.
LEMMA Take0Choices ==
    ASSUME TypeOK, TypeOK', PlacesOK, NEW t \in Takers, Take0(t), NEW q \in Players \ {0},
           UsedFirst(q), OwedUnused(q), OwedOnce(q)
    PROVE  UsedFirst(q)' /\ OwedUnused(q)' /\ OwedOnce(q)'
<1>0. Taker(0, t) /\ 0 \in Players
  BY PlayerNumbers DEF Taker
<1>a. PICK f : f = num[0][t]
  OBVIOUS
<1>b. PICK c : c = [num |-> f, batch |-> batch_number[0][f], i |-> NextUnused(f)]
  OBVIOUS
<1>1. /\ f \in Factories /\ c \in Choice /\ c.i \notin used[0][f]
      /\ told'[q][t] = Append(told[q][t], c)
      /\ UNCHANGED batch_number
  BY <1>a, <1>b, Take0Right
<1>2. /\ \A u \in Takers \ {t} : told'[q][u] = told[q][u]
      /\ \A u \in Takers : want'[q][u] = want[q][u] /\ tpc'[q][u] = tpc[q][u]
  <2>1. \A u \in Takers \ {t} : told'[q][u] = told[q][u]
    BY <1>a, <1>b, Take0Right
  <2> QED
    BY <1>0, <2>1, TakerFrame DEF OnlyAt
<1>3. c.num = f /\ c.batch = batch_number[0][f]
  BY <1>b
<1>4. c.num \in Factories /\ c.batch \in Nat /\ c.i \in 0 .. U - 1
  BY <1>1 DEF Choice
<1>5. ASSUME NEW r \in Players, NEW g \in Factories, NEW b \in Nat, NEW i \in 0 .. U - 1
      PROVE  UsedBy(r, g, b, i)' <=>
               UsedBy(r, g, b, i) \/ (r = 0 /\ g = c.num /\ b = c.batch /\ i = c.i)
  <2>1. UsedBy(r, g, b, i)' <=>
          UsedBy(r, g, b, i)
            \/ (r = 0 /\ g = f /\ b = batch_number[0][f] /\ i = NextUnused(f))
    BY <1>a, Take0Uses
  <2> QED
    BY <1>b, <2>1
<1>6. ~UsedBy(0, c.num, c.batch, c.i) /\ ~UsedBy(q, c.num, c.batch, c.i)
  <2>1. ~UsedBy(0, c.num, c.batch, c.i)
    BY <1>1, <1>3, <1>4 DEF UsedBy
  <2> QED
    BY <1>4, <2>1, UsedFirstAll
<1>7. UsedFirst(q)'
  <2> SUFFICES ASSUME NEW g \in Factories, NEW b \in 0 .. batch_number'[q][g],
                      NEW i \in 0 .. U - 1, UsedBy(q, g, b, i)'
               PROVE  UsedBy(0, g, b, i)'
    BY DEF UsedFirst
  <2>1. b \in Nat
    OBVIOUS
  <2> QED
    BY <1>0, <1>5, <2>1, UsedFirstAll
<1>8. ASSUME NEW u \in Takers
      PROVE  Len(told[q][u]) \in Nat /\ told[q][u] \in Seq(Choice)
  <2>1. told[q][u] \in Seq(Choice)
    BY DEF TypeOK
  <2> QED
    BY <2>1, LenProperties
\* What is owed now was owed before, or is c.
<1> DEFINE Old(u, n) == n \in 0 .. Len(told[q][u]) /\ Owes(q, u, n) /\ Owed(q, u, n)' = Owed(q, u, n)
           New(u, n) == u = t /\ n = Len(told[q][t]) + 1 /\ Owed(q, u, n)' = c
<1>9. ASSUME NEW u \in Takers, NEW n \in 0 .. Len(told'[q][u]), Owes(q, u, n)'
      PROVE  Old(u, n) \/ New(u, n)
  <2>1. Held(q, u)' <=> Held(q, u)
    BY <1>2 DEF Held
  <2>2. CASE u # t
    BY <1>1, <1>2, <1>9, <2>1, <2>2 DEF Owes, Owed
  <2>3. CASE u = t
    <3> DEFINE s == told[q][t]
    <3>1. s \in Seq(Choice) /\ Len(s) \in Nat /\ told'[q][t] = Append(s, c)
      BY <1>1, <1>8
    <3> HIDE DEF s
    <3>2. /\ Len(Append(s, c)) = Len(s) + 1 /\ Append(s, c)[Len(s) + 1] = c
          /\ \A m \in 1 .. Len(s) : Append(s, c)[m] = s[m]
      BY <1>1, <3>1, AppendAt
    <3>3. n = 0 \/ n \in 1 .. Len(s) \/ n = Len(s) + 1
      BY <2>3, <3>1, <3>2
    <3>4. CASE n = 0
      <4>1. Owed(q, u, n)' = Owed(q, u, n) /\ n \in 0 .. Len(s) /\ Held(q, u)
        BY <1>2, <1>9, <2>1, <3>1, <3>4 DEF Owes, Owed
      <4> QED
        BY <2>3, <4>1 DEF Owes, s
    <3>5. CASE n \in 1 .. Len(s)
      <4>1. n # 0 /\ n \in 0 .. Len(s)
        BY <3>1, <3>5
      <4>2. told'[q][u][n] = s[n]
        BY <2>3, <3>1, <3>2, <3>5
      <4>3. Owed(q, u, n)' = told'[q][u][n]
        BY <4>1 DEF Owed
      <4>4. Owed(q, u, n) = s[n]
        BY <2>3, <4>1 DEF Owed, s
      <4> QED
        BY <2>3, <4>1, <4>2, <4>3, <4>4 DEF Owes, s
    <3>6. CASE n = Len(s) + 1
      <4>1. n # 0 /\ told'[q][u][n] = c
        BY <2>3, <3>1, <3>2, <3>6
      <4> QED
        BY <2>3, <3>6, <4>1 DEF Owed, s
    <3> QED
      BY <3>3, <3>4, <3>5, <3>6
  <2> QED
    BY <2>2, <2>3
<1>10. ASSUME NEW u \in Takers, NEW n \in 0 .. Len(told[q][u]), Owes(q, u, n)
       PROVE  /\ Owed(q, u, n) # c
              /\ UsedBy(0, Owed(q, u, n).num, Owed(q, u, n).batch, Owed(q, u, n).i)
              /\ ~UsedBy(q, Owed(q, u, n).num, Owed(q, u, n).batch, Owed(q, u, n).i)
  BY <1>6, <1>10 DEF OwedUnused
<1>11. OwedUnused(q)'
  <2> SUFFICES ASSUME NEW u \in Takers, NEW n \in 0 .. Len(told'[q][u]), Owes(q, u, n)',
                      NEW d, d = Owed(q, u, n)'
               PROVE  UsedBy(0, d.num, d.batch, d.i)' /\ ~UsedBy(q, d.num, d.batch, d.i)'
    BY DEF OwedUnused, UsedBy
  <2>1. CASE Old(u, n)
    <3>1. UsedBy(0, d.num, d.batch, d.i) /\ ~UsedBy(q, d.num, d.batch, d.i)
      BY <1>10, <2>1
    <3>2. d.num \in Factories /\ d.batch \in Nat /\ d.i \in 0 .. U - 1
      BY <2>1, OwedType
    <3> QED
      BY <1>0, <1>5, <3>1, <3>2
  <2>2. CASE New(u, n)
    BY <1>0, <1>4, <1>5, <1>6, <2>2
  <2> QED
    BY <1>9, <2>1, <2>2
<1>12. OwedOnce(q)'
  <2> SUFFICES ASSUME NEW u \in Takers, NEW v \in Takers,
                      NEW n \in 0 .. Len(told'[q][u]), NEW m \in 0 .. Len(told'[q][v]),
                      Owes(q, u, n)', Owes(q, v, m)', Owed(q, u, n)' = Owed(q, v, m)'
               PROVE  u = v /\ n = m
    BY DEF OwedOnce
  <2>1. (Old(u, n) \/ New(u, n)) /\ (Old(v, m) \/ New(v, m))
    BY <1>9
  <2>2. CASE Old(u, n) /\ Old(v, m)
    BY <2>2 DEF OwedOnce
  <2>3. CASE New(u, n) /\ New(v, m)
    BY <2>3
  <2>4. CASE Old(u, n) /\ New(v, m)
    BY <1>10, <2>4
  <2>5. CASE New(u, n) /\ Old(v, m)
    BY <1>10, <2>5
  <2> QED
    BY <2>1, <2>2, <2>3, <2>4, <2>5
<1> QED
  BY <1>7, <1>11, <1>12

\* A taker takes up the first choice under way.
LEMMA ReceiveChoices ==
    ASSUME TypeOK, TypeOK', NEW p \in Players, NEW t \in Takers, Receive(p, t),
           UsedFirst(p), OwedUnused(p), OwedOnce(p)
    PROVE  UsedFirst(p)' /\ OwedUnused(p)' /\ OwedOnce(p)'
<1>1. /\ told[p][t] \in Seq(Choice) /\ told[p][t] # <<>>
      /\ told'[p][t] = Tail(told[p][t]) /\ want'[p][t] = Head(told[p][t])
      /\ ~Held(p, t) /\ tpc'[p][t] = "check" /\ UNCHANGED <<batch_number, used>>
  BY ReceiveRight DEF Held, industry
<1>2. ASSUME NEW u \in Takers \ {t}
      PROVE  told'[p][u] = told[p][u] /\ want'[p][u] = want[p][u] /\ tpc'[p][u] = tpc[p][u]
  BY ReceiveRight DEF OnlyAt, Receive, TakerGoes, TypeOK
<1>3. UsedFirst(p)'
  BY <1>1 DEF UsedFirst, UsedBy
\* Where what is owed now was before.
<1> DEFINE Was(u, n) == IF u = t THEN n + 1 ELSE n
<1>4. ASSUME NEW u \in Takers, NEW n \in 0 .. Len(told'[p][u]), Owes(p, u, n)'
      PROVE  /\ Was(u, n) \in 0 .. Len(told[p][u]) /\ Owes(p, u, Was(u, n))
             /\ Owed(p, u, n)' = Owed(p, u, Was(u, n))
  <2>1. CASE u # t
    BY <1>2, <1>4, <2>1 DEF Owes, Owed, Held
  <2>2. CASE u = t
    <3> DEFINE s == told[p][t]
    <3>1. s \in Seq(Choice) /\ s # <<>> /\ Len(s) \in Nat
          /\ told'[p][t] = Tail(s) /\ want'[p][t] = Head(s)
      BY <1>1, LenProperties
    <3> HIDE DEF s
    <3>2. /\ Len(Tail(s)) = Len(s) - 1 /\ Len(s) >= 1 /\ Head(s) = s[1]
          /\ \A m \in 1 .. Len(Tail(s)) : Tail(s)[m] = s[m + 1]
      BY <3>1, TailAt
    <3>3. n \in Nat /\ n + 1 \in 1 .. Len(s) /\ n + 1 # 0 /\ n + 1 \in 0 .. Len(s)
      BY <2>2, <3>1, <3>2
    <3>4. Owes(p, t, n + 1) /\ Owed(p, t, n + 1) = s[n + 1]
      BY <3>3 DEF Owes, Owed, s
    <3>5. Owed(p, t, n)' = s[n + 1]
      <4>1. CASE n = 0
        BY <3>1, <3>2, <4>1 DEF Owed
      <4>2. CASE n # 0
        <5>1. n \in 1 .. Len(Tail(s))
          BY <3>1, <3>2, <3>3, <4>2
        <5> QED
          BY <3>1, <3>2, <4>2, <5>1 DEF Owed
      <4> QED
        BY <4>1, <4>2
    <3> QED
      BY <2>2, <3>3, <3>4, <3>5 DEF s
  <2> QED
    BY <2>1, <2>2
<1>5. OwedUnused(p)'
  <2> SUFFICES ASSUME NEW u \in Takers, NEW n \in 0 .. Len(told'[p][u]), Owes(p, u, n)',
                      NEW d, d = Owed(p, u, n)'
               PROVE  UsedBy(0, d.num, d.batch, d.i)' /\ ~UsedBy(p, d.num, d.batch, d.i)'
    BY DEF OwedUnused, UsedBy
  <2>1. PICK m \in 0 .. Len(told[p][u]) : Owes(p, u, m) /\ d = Owed(p, u, m)
    BY <1>4
  <2>2. UsedBy(0, d.num, d.batch, d.i) /\ ~UsedBy(p, d.num, d.batch, d.i)
    BY <2>1 DEF OwedUnused
  <2> QED
    BY <1>1, <2>2 DEF UsedBy
<1>6. OwedOnce(p)'
  <2> SUFFICES ASSUME NEW u \in Takers, NEW v \in Takers,
                      NEW n \in 0 .. Len(told'[p][u]), NEW m \in 0 .. Len(told'[p][v]),
                      Owes(p, u, n)', Owes(p, v, m)', Owed(p, u, n)' = Owed(p, v, m)'
               PROVE  u = v /\ n = m
    BY DEF OwedOnce
  <2>1. /\ Was(u, n) \in 0 .. Len(told[p][u]) /\ Owes(p, u, Was(u, n))
        /\ Owed(p, u, n)' = Owed(p, u, Was(u, n))
    BY <1>4
  <2>2. /\ Was(v, m) \in 0 .. Len(told[p][v]) /\ Owes(p, v, Was(v, m))
        /\ Owed(p, v, m)' = Owed(p, v, Was(v, m))
    BY <1>4
  <2> HIDE DEF Was
  <2>3. u = v /\ Was(u, n) = Was(v, m)
    BY <2>1, <2>2 DEF OwedOnce
  <2>4. n \in Int /\ m \in Int
    OBVIOUS
  <2> QED
    BY <2>3, <2>4 DEF Was
<1> QED
  BY <1>3, <1>5, <1>6

\* A taker uses the choice it holds, and owes it no longer.
LEMMA TakeChoices ==
    ASSUME TypeOK, TypeOK', NEW p \in Players \ {0}, NEW t \in Takers, Take(p, t),
           UsedFirst(p), OwedUnused(p), OwedOnce(p), SeenStays(p)
    PROVE  UsedFirst(p)' /\ OwedUnused(p)' /\ OwedOnce(p)'
<1>0. 0 \in Players
  BY PlayerNumbers
<1>1. PICK c : c = want[p][t]
  OBVIOUS
<1>2. c.num \in Factories /\ c.batch \in Nat /\ c.i \in 0 .. U - 1
  <2>1. c \in Choice
    BY <1>1 DEF TypeOK
  <2> QED
    BY <2>1 DEF Choice
<1>3. /\ tpc[p][t] = "take" /\ tpc'[p][t] \in {"exit", "receive"} /\ UNCHANGED <<told, want>>
  BY TakeRight DEF NextItem
<1>4. ASSUME NEW u \in Takers \ {t} PROVE tpc'[p][u] = tpc[p][u]
  BY DEF Take, AfterTake, TakerGoes, TypeOK
<1>5. ASSUME NEW r \in Players, NEW g \in Factories, NEW b \in Nat, NEW i \in 0 .. U - 1
      PROVE  UsedBy(r, g, b, i)' <=>
               UsedBy(r, g, b, i) \/ (r = p /\ g = c.num /\ b = c.batch /\ i = c.i)
  BY <1>1, TakeUses
<1>6. 0 \in 0 .. Len(told[p][t]) /\ Owes(p, t, 0) /\ Owed(p, t, 0) = c
  <2>1. told[p][t] \in Seq(Choice)
    BY DEF TypeOK
  <2>2. 0 \in 0 .. Len(told[p][t])
    BY <2>1, LenProperties
  <2> QED
    BY <1>1, <1>3, <2>2 DEF Owes, Owed, Held
<1>7. UsedBy(0, c.num, c.batch, c.i)
  BY <1>6 DEF OwedUnused
<1>8. UsedFirst(p)'
  <2> SUFFICES ASSUME NEW g \in Factories, NEW b \in 0 .. batch_number'[p][g],
                      NEW i \in 0 .. U - 1, UsedBy(p, g, b, i)'
               PROVE  UsedBy(0, g, b, i)'
    BY DEF UsedFirst
  <2>1. b \in Nat
    OBVIOUS
  <2>2. UsedBy(p, g, b, i) => UsedBy(0, g, b, i)
    BY <2>1, UsedFirstAll
  <2>3. UsedBy(0, g, b, i)
    BY <1>5, <1>7, <2>1, <2>2
  <2> QED
    BY <1>0, <1>5, <2>1, <2>3
\* What is owed now was owed before and is not c.
<1>9. ASSUME NEW u \in Takers, NEW n \in 0 .. Len(told'[p][u]), Owes(p, u, n)'
      PROVE  /\ n \in 0 .. Len(told[p][u]) /\ Owes(p, u, n) /\ Owed(p, u, n)' = Owed(p, u, n)
             /\ Owed(p, u, n) # c
  <2>1. n \in 0 .. Len(told[p][u]) /\ Owes(p, u, n) /\ Owed(p, u, n)' = Owed(p, u, n)
    BY <1>3, <1>4, <1>9 DEF Owes, Owed, Held
  <2>2. ~(u = t /\ n = 0)
    BY <1>3, <1>9 DEF Owes, Held
  <2> QED
    BY <1>6, <2>1, <2>2 DEF OwedOnce
<1>10. OwedUnused(p)'
  <2> SUFFICES ASSUME NEW u \in Takers, NEW n \in 0 .. Len(told'[p][u]), Owes(p, u, n)',
                      NEW d, d = Owed(p, u, n)'
               PROVE  UsedBy(0, d.num, d.batch, d.i)' /\ ~UsedBy(p, d.num, d.batch, d.i)'
    BY DEF OwedUnused, UsedBy
  <2>1. n \in 0 .. Len(told[p][u]) /\ Owes(p, u, n) /\ d = Owed(p, u, n) /\ d # c
    BY <1>9
  <2>2. UsedBy(0, d.num, d.batch, d.i) /\ ~UsedBy(p, d.num, d.batch, d.i)
    BY <2>1 DEF OwedUnused
  <2>3. d \in Choice /\ c \in Choice
    BY <1>1, <2>1, OwedType, SMTT(30) DEF TypeOK
  <2>4. ~(d.num = c.num /\ d.batch = c.batch /\ d.i = c.i)
    BY <2>1, <2>3 DEF Choice
  <2>5. d.num \in Factories /\ d.batch \in Nat /\ d.i \in 0 .. U - 1
    BY <2>3 DEF Choice
  <2> QED
    BY <1>0, <1>5, <2>2, <2>4, <2>5
<1>11. OwedOnce(p)'
  BY <1>9 DEF OwedOnce
<1> QED
  BY <1>8, <1>10, <1>11

\* Every step leaves what is owed used by player 0 and unused by who owes it.
LEMMA ChoicesStep ==
    ASSUME TypeOK, TypeOK', PlacesOK, ChoicesOK, NEW p \in Players, NEW t \in Takers, Taker(p, t)
    PROVE  ChoicesOK'
<1>0. 0 \in Players
  BY PlayerNumbers
<1> SUFFICES ASSUME NEW q \in Players \ {0}
             PROVE  UsedFirst(q)' /\ OwedUnused(q)' /\ OwedOnce(q)'
  BY SeenStep DEF ChoicesOK
<1>1. UsedFirst(q) /\ OwedUnused(q) /\ OwedOnce(q) /\ SeenStays(q)
  BY DEF ChoicesOK
<1>2. CASE p = 0 /\ Take0(t)
  BY <1>1, <1>2, Take0Choices
<1>3. CASE Receive(p, t) /\ q = p
  BY <1>1, <1>3, ReceiveChoices
<1>4. CASE Take(p, t) /\ q = p
  BY <1>1, <1>4, TakeChoices
<1>5. CASE ~(p = 0 /\ Take0(t)) /\ ~(Receive(p, t) /\ q = p) /\ ~(Take(p, t) /\ q = p)
  <2>1. ASSUME NEW r \in {0, q}, NEW g \in Factories, NEW b \in Nat, NEW i \in 0 .. U - 1
        PROVE  UsedBy(r, g, b, i)' <=> UsedBy(r, g, b, i)
    <3>1. CASE Update(p, t)
      BY <1>0, <3>1, NextBatch
    <3>2. CASE Take(p, t)
      <4>1. r # p /\ SeenStays(p)
        BY <1>5, <3>2 DEF Take, ChoicesOK
      <4> QED
        BY <1>0, <3>2, <4>1, TakeUses
    <3>3. CASE ~Update(p, t) /\ ~Take(p, t)
      <4>1. UNCHANGED <<batch_number, used>>
        BY <1>5, <3>3 DEF Taker, Try, Choose, Reshare, Lock, Receive, Check, Exit, industry
      <4> QED
        BY <4>1 DEF UsedBy
    <3> QED
      BY <3>1, <3>2, <3>3
  <2>2. ASSUME NEW u \in Takers
        PROVE  /\ told'[q][u] = told[q][u] /\ want'[q][u] = want[q][u]
               /\ Held(q, u)' <=> Held(q, u)
    <3>1. CASE q # p \/ u # t
      <4>1. want'[q][u] = want[q][u] /\ tpc'[q][u] = tpc[q][u]
        BY <3>1, TakerFrame DEF OnlyAt
      <4>2. told'[q][u] = told[q][u]
        <5>1. CASE Receive(p, t)
          BY <3>1, <5>1, ReceiveRight DEF OnlyAt
        <5>2. CASE ~Receive(p, t)
          <6>1. UNCHANGED told
            BY <1>5, <5>2 DEF Taker, Try, Choose, Reshare, Lock, Update, Check, Take, Exit
          <6> QED
            BY <6>1
        <5> QED
          BY <5>1, <5>2
      <4> QED
        BY <4>1, <4>2 DEF Held
    <3>2. CASE q = p /\ u = t
      <4>1. Lock(p, t) \/ Update(p, t) \/ Check(p, t) \/ Exit(p, t)
        BY <1>5, <3>2 DEF Taker
      <4>2. UNCHANGED <<told, want>>
        BY <4>1 DEF Lock, Update, Check, Exit
      <4>3. CASE Exit(p, t)
        BY <3>2, <4>2, <4>3, TakerGoesRight DEF Exit, Held
      <4>4. CASE Check(p, t)
        BY <3>2, <4>2, <4>4, TakerGoesRight DEF Check, Held
      <4>5. CASE Lock(p, t) \/ Update(p, t)
        BY <3>2, <4>2, <4>5, LockRight, UpdateRight DEF Held
      <4> QED
        BY <4>1, <4>3, <4>4, <4>5
    <3> QED
      BY <3>1, <3>2
  <2> QED
    BY <1>1, <2>1, <2>2, QuietChoices
<1> QED
  BY <1>2, <1>3, <1>4, <1>5

---------------------------------------------------------------------------
(* The invariant and what it shows.                                        *)

\* The invariant is inductive.
LEMMA InvStep == TypeOK /\ IInv /\ [Next]_vars => TypeOK' /\ IInv'
<1> SUFFICES ASSUME TypeOK, IInv, [Next]_vars PROVE TypeOK' /\ IInv'
  OBVIOUS
<1>1. TypeOK'
  BY TypeStep DEF IInv
<1>2. CASE UNCHANGED vars
  <2> USE <1>2 DEF vars, industry, factory, taker
  <2>1. PlacesOK' /\ LocksOK' /\ ListsOK'
    BY DEF IInv, PlacesOK, isempty, Held, LocksOK, ListsOK
  <2>2. ChoicesOK'
    <3>1. ASSUME NEW q \in Players \ {0}
          PROVE  UsedFirst(q)' /\ OwedUnused(q)' /\ OwedOnce(q)' /\ SeenStays(q)'
      <4>1. UsedFirst(q) /\ OwedUnused(q) /\ OwedOnce(q) /\ SeenStays(q)
        BY DEF IInv, ChoicesOK
      <4>2. UsedFirst(q)' /\ OwedUnused(q)' /\ OwedOnce(q)'
        BY <1>1, <4>1, QuietChoices, PlayerNumbers DEF Held, UsedBy
      <4>3. SeenStays(q)'
        BY <4>1 DEF SeenStays
      <4> QED
        BY <4>2, <4>3
    <3> QED
      BY <3>1 DEF ChoicesOK
  <2>3. MacsOK' /\ CountsOK' /\ ServedOK'
    BY DEF IInv, MacsOK, CountsOK, ServedOK, AllServed, Held
  <2> QED
    BY <1>1, <2>1, <2>2, <2>3 DEF IInv
<1>3. ASSUME NEW p \in Players, NEW f \in Factories, Factory(p, f) PROVE IInv'
  BY <1>3, FactoryStep
<1>4. ASSUME NEW p \in Players, NEW t \in Takers, Taker(p, t) PROVE IInv'
  <2>1. PlacesOK' /\ LocksOK' /\ ListsOK'
    BY <1>4, PlacesStep, LocksStep, ListsStep DEF IInv
  <2>2. ChoicesOK' /\ MacsOK'
    BY <1>1, <1>4, ChoicesStep, MacsStep DEF IInv
  <2>3. CountsOK' /\ ServedOK'
    BY <1>4, CountsStep, ServedStep DEF IInv
  <2> QED
    BY <2>1, <2>2, <2>3 DEF IInv
<1> QED
  BY <1>1, <1>2, <1>3, <1>4 DEF Next

\* The invariant holds in every state.
THEOREM Invariant == Spec => [](TypeOK /\ IInv)
<1>1. Init => TypeOK /\ IInv
  BY TypeInit, InvInit
<1>2. TypeOK /\ IInv /\ [Next]_vars => (TypeOK /\ IInv)'
  BY InvStep
<1> QED
  BY <1>1, <1>2, PTL DEF Spec

\* Every variable keeps its type.
THEOREM TypeCorrect == Spec => []TypeOK
BY Invariant, PTL

\* What a taker uses is what it was told, unused so far, in every state: the
\* lock it gives up between looking at the batch and taking does no harm.
THEOREM TakesRight == Spec => []TakesWhatItWasTold
<1>1. TypeOK /\ IInv => TakesWhatItWasTold
  <2> SUFFICES ASSUME TypeOK, IInv, NEW p \in Players \ {0}, NEW t \in Takers,
                      tpc[p][t] = "take", NEW c, c = want[p][t]
               PROVE  batch_number[p][c.num] = c.batch /\ c.i \notin used[p][c.num]
    BY DEF TakesWhatItWasTold
  <2>1. batch_number[p][c.num] = c.batch
    BY DEF IInv, ChoicesOK, SeenStays
  <2>2. told[p][t] \in Seq(Choice)
    BY DEF TypeOK
  <2>3. 0 \in 0 .. Len(told[p][t])
    BY <2>2, LenProperties
  <2>4. Owes(p, t, 0) /\ Owed(p, t, 0) = c
    BY <2>3 DEF Owes, Owed, Held
  <2>5. ~UsedBy(p, c.num, c.batch, c.i)
    BY <2>3, <2>4 DEF IInv, ChoicesOK, OwedUnused
  <2> QED
    BY <2>1, <2>5 DEF UsedBy
<1> QED
  BY <1>1, Invariant, PTL

\* No player is ever past a batch that one of its takers has yet to use.
THEOREM NeverPassed == Spec => []BatchNotPassed
<1>1. TypeOK /\ IInv => BatchNotPassed
  <2> SUFFICES ASSUME TypeOK, IInv, NEW p \in Players \ {0}, NEW t \in Takers
               PROVE  /\ tpc[p][t] \in {"check", "lock", "update"} =>
                            batch_number[p][want[p][t].num] <= want[p][t].batch
                      /\ \A n \in 1 .. Len(told[p][t]) :
                            batch_number[p][told[p][t][n].num] <= told[p][t][n].batch
    BY DEF BatchNotPassed
  <2>1. told[p][t] \in Seq(Choice) /\ Len(told[p][t]) \in Nat
    <3>1. told[p][t] \in Seq(Choice)
      BY DEF TypeOK
    <3> QED
      BY <3>1, LenProperties
  <2>2. ASSUME NEW n \in 0 .. Len(told[p][t]), Owes(p, t, n), NEW c, c = Owed(p, t, n)
        PROVE  batch_number[p][c.num] <= c.batch
    <3>1. ~UsedBy(p, c.num, c.batch, c.i)
      BY <2>2 DEF IInv, ChoicesOK, OwedUnused
    <3>2. c.num \in Factories /\ c.batch \in Nat
      BY <2>2, OwedType
    <3>3. batch_number[p][c.num] \in {-1} \cup Nat
      BY <3>2 DEF TypeOK
    <3>4. ~(c.batch < batch_number[p][c.num])
      BY <3>1 DEF UsedBy
    <3> QED
      BY <3>2, <3>3, <3>4
  <2>3. ASSUME tpc[p][t] \in {"check", "lock", "update"}
        PROVE  batch_number[p][want[p][t].num] <= want[p][t].batch
    <3>1. 0 \in 0 .. Len(told[p][t])
      BY <2>1
    <3>2. Owes(p, t, 0) /\ Owed(p, t, 0) = want[p][t]
      BY <2>3, <3>1 DEF Owes, Owed, Held
    <3> QED
      BY <2>2, <3>1, <3>2
  <2>4. ASSUME NEW n \in 1 .. Len(told[p][t])
        PROVE  batch_number[p][told[p][t][n].num] <= told[p][t][n].batch
    <3>1. n \in 0 .. Len(told[p][t]) /\ n # 0
      BY <2>1
    <3>2. Owes(p, t, n) /\ Owed(p, t, n) = told[p][t][n]
      BY <3>1 DEF Owes, Owed
    <3> QED
      BY <2>2, <3>1, <3>2
  <2> QED
    BY <2>3, <2>4
<1> QED
  BY <1>1, Invariant, PTL

\* No factory of any player closes before every production thread of every
\* player has all that it is to take.
THEOREM ClosesRight == Spec => []ClosesWhenServed
<1>1. TypeOK /\ IInv => ClosesWhenServed
  <2> SUFFICES ASSUME IInv, AllServed, NEW p \in Players, NEW t \in Takers
               PROVE  taken[p][t] = Demand(t)
    BY DEF IInv, ServedOK, ClosesWhenServed
  <2>1. tpc[0][t] = "done" /\ taken[0][t] = Demand(t)
    BY DEF IInv, AllServed, CountsOK
  <2>2. p # 0 => taken[p][t] = taken[0][t]
    BY <2>1 DEF IInv, CountsOK
  <2> QED
    BY <2>1, <2>2
<1> QED
  BY <1>1, Invariant, PTL

\* Nobody has a ciphertext before the ciphertexts of the MAC keys are there.
THEOREM MacsFirst == Spec => []MacsBeforeUse
<1>1. TypeOK /\ IInv => MacsBeforeUse
  BY DEF TypeOK, IInv, MacsOK, MacsBeforeUse
<1> QED
  BY <1>1, Invariant, PTL
=============================================================================
