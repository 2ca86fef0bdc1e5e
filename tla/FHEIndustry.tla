---------------------------- MODULE FHEIndustry ----------------------------
(***************************************************************************)
(* The FHE_Industry of every player: factory threads that make batches of  *)
(* proven ciphertexts, in step with the same thread of the other players,  *)
(* and the production threads (takers) that use them.  Player 0 decides    *)
(* which ciphertext a taker uses next and tells the same taker of the      *)
(* others, who wait until their own factory has got that far.              *)
(*                                                                         *)
(* A batch is named by its number in its factory, a ciphertext by its      *)
(* place in the batch.  What is broadcast is its stage and, at an exit     *)
(* check, whether the sender has finished; that somebody would rather wait *)
(* only delays, and is left out.  The proof for the MAC ciphertexts is made*)
(* once (TopGear may repeat it to get its soundness).                      *)
(***************************************************************************)
EXTENDS Integers, Sequences, FiniteSets

CONSTANTS
    NPlayers,
    NFactories,  \* number_FHE_threads
    Takers,      \* the threads that call Next_Off_Production_Line
    Items,       \* per taker: the ciphertexts it takes before a Reshare
    Steps,       \* bound: per taker, how often it does so before it is to end
    U,           \* ciphertexts in a batch
    LimitSize,   \* the size of a list that is too big
    Stages,      \* the broadcasts of a round of the factory
    BatchBound   \* bound: batches a factory makes

Players == 0 .. NPlayers - 1
Factories == 0 .. NFactories - 1

\* is_finished, Do_Step0_Step and Do_ZKPoK: E; A; commit and open; T and Z.
FullRound == <<"exit", "E", "exit", "A", "exit", "commit", "open", "exit",
               "exit", "T", "Z">>
\* The same with the checks and broadcasts in the middle left out.
ShortRound == <<"exit", "E", "exit", "Z">>

ASSUME IndustryAssumption ==
    /\ NPlayers \in Nat \ {0} /\ NFactories \in Nat \ {0}
    /\ Items \in [Takers -> Nat \ {0}] /\ Steps \in [Takers -> Nat]
    /\ Takers \cap {"free", "constructor"} = {}
    /\ U \in Nat \ {0} /\ LimitSize \in Nat /\ BatchBound \in Nat
    /\ Stages \in {FullRound, ShortRound}

VARIABLES
    made,          \* batches pushed to Factory[f] so far
    batch_number,  \* the batch in Current_Factory[f], -1 at first
    used,          \* its ciphertexts that have been used
    lock,          \* who holds Current_Factory_Lock[f]
    proving_macs,  \* is factory 0 still at the MAC ciphertexts?
    fpc, stage,    \* factory thread: where it is, its broadcast
    said,          \* broadcasts under way from a player to another
    tpc,           \* taker: where it is
    num,           \* the factory it is at
    told,          \* the choices of player 0 under way
    want,          \* the choice being followed
    taken          \* ciphertexts it has taken

industry == <<made, batch_number, used, lock>>
factory == <<proving_macs, fpc, stage, said>>
taker == <<tpc, num, told, want, taken>>
vars == <<industry, factory, taker>>

Choice == [num : Factories, batch : Nat, i : 0 .. U - 1]
NoChoice == [num |-> 0, batch |-> 0, i |-> 0]
Message == [stage : {FullRound[n] : n \in 1 .. Len(FullRound)}, finished : BOOLEAN]

TypeOK ==
    /\ made \in [Players -> [Factories -> Nat]]
    /\ batch_number \in [Players -> [Factories -> {-1} \cup Nat]]
    /\ used \in [Players -> [Factories -> SUBSET (0 .. U - 1)]]
    /\ lock \in [Players -> [Factories -> Takers \cup {"free", "constructor"}]]
    /\ proving_macs \in [Players -> BOOLEAN]
    /\ fpc \in [Players -> [Factories -> {"say", "hear", "decide", "push", "out", "wild"}]]
    /\ stage \in [Players -> [Factories -> 1 .. Len(Stages)]]
    /\ said \in [Players -> [Players -> [Factories -> Seq(Message)]]]
    /\ tpc \in [Players -> [Takers -> {"try", "choose", "lock", "update", "take",
                                       "receive", "check", "reshare", "exit", "done"}]]
    /\ num \in [Players -> [Takers -> 0 .. NFactories]]
    /\ told \in [Players -> [Takers -> Seq(Choice)]]
    /\ want \in [Players -> [Takers -> Choice]]
    /\ taken \in [Players -> [Takers -> Nat]]

\* How many ciphertexts a taker takes in all.
Demand(t) == Items[t] * Steps[t]

\* Where a taker goes that has taken n and is between two steps, or in one.
NextItem(p, t, n) == IF n = Demand(t) THEN IF p = 0 THEN "done" ELSE "exit"
                                      ELSE IF p = 0 THEN "try" ELSE "receive"

\* A faulty form: the constructor locks nothing.
FaultyFirstHolder(f) == "free"

\* "so we dont write to them before the mac ctx's are produced"
FirstHolder(f) == IF f = 0 THEN "free" ELSE "constructor"

Everywhere(S, v) == [p \in Players |-> [x \in S |-> v]]

Init ==
    /\ made = Everywhere(Factories, 0)
    /\ batch_number = Everywhere(Factories, -1)
    /\ used = Everywhere(Factories, {})
    /\ lock = [p \in Players |-> [f \in Factories |-> FirstHolder(f)]]
    /\ proving_macs = [p \in Players |-> TRUE]
    /\ fpc = Everywhere(Factories, "say")
    /\ stage = [p \in Players |-> [f \in Factories |-> IF f = 0 THEN 2 ELSE 1]]
    /\ said = [p \in Players |-> Everywhere(Factories, <<>>)]
    /\ tpc = [p \in Players |-> [t \in Takers |-> NextItem(p, t, 0)]]
    /\ num = Everywhere(Takers, 0)
    /\ told = Everywhere(Takers, <<>>)
    /\ want = Everywhere(Takers, NoChoice)
    /\ taken = Everywhere(Takers, 0)

---------------------------------------------------------------------------
(* The factory threads.                                                    *)

\* finished_offline says that every thread that takes ciphertexts is done.
Finished(p) == \A t \in Takers : tpc[p][t] = "done"

ListSize(p, f) == made[p][f] - (batch_number[p][f] + 1)
TooBig(p, f) == ListSize(p, f) > LimitSize

\* Bound: no player is to make more.
NoMore(p, f) == made[p][f] = BatchBound

FactoryGoes(p, f, pc, s) ==
    /\ fpc' = [fpc EXCEPT ![p][f] = pc]
    /\ stage' = [stage EXCEPT ![p][f] = s]

\* The first half of Broadcast_Receive.
Say(p, f) ==
    /\ fpc[p][f] = "say"
    /\ LET m == [stage |-> Stages[stage[p][f]],
                 finished |-> Stages[stage[p][f]] = "exit" /\ Finished(p)]
       IN  said' = [said EXCEPT ![p] = [q \in Players |->
                      [said[p][q] EXCEPT ![f] = Append(@, m)]]]
    /\ FactoryGoes(p, f, "hear", stage[p][f])
    /\ UNCHANGED <<industry, proving_macs, taker>>

Heard(p, f) == {Head(said[q][p][f]) : q \in Players}

\* "If one party says every thread is finished then finish".
AnyFinished(p, f) == \E m \in Heard(p, f) : m.finished

\* The second half.  At the MAC ciphertexts the answer of Do_ZKPoK is not
\* looked at: their proof would be left undone, and its results be read.
Hear(p, f) ==
    /\ fpc[p][f] = "hear" /\ \A q \in Players : said[q][p][f] # <<>>
    /\ said' = [q \in Players |-> [said[q] EXCEPT ![p][f] = Tail(@)]]
    /\ LET n == stage[p][f]
       IN  \/ /\ AnyFinished(p, f)
              /\ FactoryGoes(p, f, IF f = 0 /\ proving_macs[p] THEN "wild" ELSE "out", n)
           \/ ~AnyFinished(p, f) /\ n = 1 /\ FactoryGoes(p, f, "decide", n)
           \/ ~AnyFinished(p, f) /\ n = Len(Stages) /\ FactoryGoes(p, f, "push", n)
           \/ ~AnyFinished(p, f) /\ n \notin {1, Len(Stages)} /\ FactoryGoes(p, f, "say", n + 1)
    /\ UNCHANGED <<industry, proving_macs, taker>>

\* Each player looks at its own list.
Decide(p, f) ==
    /\ fpc[p][f] = "decide"
    /\ FactoryGoes(p, f, "say", IF TooBig(p, f) \/ NoMore(p, f) THEN 1 ELSE 2)
    /\ UNCHANGED <<industry, proving_macs, said, taker>>

\* A faulty form: "Now do the unlocks from the constructor" is left out.
FaultyPush(p, f) ==
    /\ fpc[p][f] = "push"
    /\ FactoryGoes(p, f, "say", 1)
    /\ IF f = 0 /\ proving_macs[p]
       THEN proving_macs' = [proving_macs EXCEPT ![p] = FALSE] /\ UNCHANGED made
       ELSE made' = [made EXCEPT ![p][f] = @ + 1] /\ UNCHANGED proving_macs
    /\ UNCHANGED <<batch_number, used, lock, said, taker>>

\* The first proof of factory 0 is for the MAC ciphertexts: it is not put
\* into the list, and opens the other factories.
Push(p, f) ==
    /\ fpc[p][f] = "push"
    /\ FactoryGoes(p, f, "say", 1)
    /\ \/ /\ f = 0 /\ proving_macs[p]
          /\ proving_macs' = [proving_macs EXCEPT ![p] = FALSE]
          /\ lock' = [lock EXCEPT ![p] = [g \in Factories |->
                        IF g = 0 THEN @[0] ELSE "free"]]
          /\ UNCHANGED made
       \/ /\ ~(f = 0 /\ proving_macs[p])
          /\ made' = [made EXCEPT ![p][f] = @ + 1]
          /\ UNCHANGED <<proving_macs, lock>>
    /\ UNCHANGED <<batch_number, used, said, taker>>

Factory(p, f) == Say(p, f) \/ Hear(p, f) \/ Decide(p, f) \/ Push(p, f)

---------------------------------------------------------------------------
(* Next_Off_Production_Line.                                               *)

isempty(p, f) == batch_number[p][f] = -1 \/ used[p][f] = 0 .. U - 1

TakerGoes(p, t, pc) == tpc' = [tpc EXCEPT ![p][t] = pc]
At(p, t, f) == num' = [num EXCEPT ![p][t] = f]
SetLock(p, f, who) == lock' = [lock EXCEPT ![p][f] = who]

\* Player 0 tries one factory after the other.
Try(t) ==
    LET f == num[0][t]
    IN  /\ tpc[0][t] = "try"
        /\ \/ /\ f = NFactories
              /\ TakerGoes(0, t, "choose")
              /\ UNCHANGED <<num, lock>>
           \/ /\ f # NFactories /\ lock[0][f] = "free" /\ ~isempty(0, f)
              /\ SetLock(0, f, t)
              /\ TakerGoes(0, t, "take")
              /\ UNCHANGED num
           \/ /\ f # NFactories /\ (lock[0][f] # "free" \/ isempty(0, f))
              /\ At(0, t, f + 1)
              /\ UNCHANGED <<tpc, lock>>
        /\ UNCHANGED <<made, batch_number, used, factory, told, want, taken>>

\* None would do: the longest list, the first if there are several.
Choose(t) ==
    /\ tpc[0][t] = "choose"
    /\ \E f \in Factories :
          /\ IF \A g \in Factories : ListSize(0, g) = 0
             THEN f = 1 % NFactories
             ELSE /\ \A g \in Factories : ListSize(0, g) <= ListSize(0, f)
                  /\ \A g \in 0 .. f - 1 : ListSize(0, g) < ListSize(0, f)
          /\ At(0, t, f)
    /\ TakerGoes(0, t, "lock")
    /\ UNCHANGED <<industry, factory, told, want, taken>>

Lock(p, t) ==
    /\ tpc[p][t] = "lock" /\ lock[p][num[p][t]] = "free"
    /\ SetLock(p, num[p][t], t)
    /\ TakerGoes(p, t, "update")
    /\ UNCHANGED <<made, batch_number, used, factory, num, told, want, taken>>

\* A faulty form: the next batch replaces one that is not used up.
FaultyUpdate_If_Empty(p, f) ==
    /\ ListSize(p, f) > 0
    /\ batch_number' = [batch_number EXCEPT ![p][f] = @ + 1]
    /\ used' = [used EXCEPT ![p][f] = {}]

\* Update_If_Empty waits for the list with the lock held.  Player 0 keeps
\* the lock until it has taken a ciphertext; the others give it back and
\* look again whether they have the batch they were told.
Update_If_Empty(p, f) ==
    \/ ~isempty(p, f) /\ UNCHANGED <<batch_number, used>>
    \/ /\ isempty(p, f) /\ ListSize(p, f) > 0
       /\ batch_number' = [batch_number EXCEPT ![p][f] = @ + 1]
       /\ used' = [used EXCEPT ![p][f] = {}]

Update(p, t) ==
    /\ tpc[p][t] = "update"
    /\ Update_If_Empty(p, num[p][t])
    /\ IF p = 0 THEN TakerGoes(p, t, "take") /\ UNCHANGED lock
                ELSE TakerGoes(p, t, "check") /\ SetLock(p, num[p][t], "free")
    /\ UNCHANGED <<made, factory, num, told, want, taken>>

\* After the ciphertexts of a step comes a Reshare: the others send to
\* player 0, who waits for everybody.  (DistDecrypt, a broadcast that most
\* kinds of steps do besides, is left out: the takers are freer without.)
AfterTake(p, t) ==
    LET n == taken[p][t] + 1
    IN  /\ taken' = [taken EXCEPT ![p][t] = n]
        /\ TakerGoes(p, t, IF p = 0 /\ n % Items[t] = 0 THEN "reshare"
                           ELSE NextItem(p, t, n))

\* A faulty form: counted from one.
FaultyNextUnused(f) == Cardinality(used[0][f]) + 1

NextUnused(f) == CHOOSE i \in (0 .. U - 1) \ used[0][f] :
                    \A j \in (0 .. U - 1) \ used[0][f] : i <= j

\* Player 0 takes the next unused ciphertext and tells the others.
Take0(t) ==
    LET f == num[0][t]
        c == [num |-> f, batch |-> batch_number[0][f], i |-> NextUnused(f)]
    IN  /\ tpc[0][t] = "take"
        /\ used' = [used EXCEPT ![0][f] = @ \cup {c.i}]
        /\ told' = [p \in Players |-> IF p = 0 THEN told[0]
                                      ELSE [told[p] EXCEPT ![t] = Append(@, c)]]
        /\ want' = [want EXCEPT ![0][t] = c]
        /\ SetLock(0, f, "free")
        /\ At(0, t, 0)
        /\ AfterTake(0, t)
        /\ UNCHANGED <<made, batch_number, factory>>

Receive(p, t) ==
    /\ p # 0 /\ tpc[p][t] = "receive" /\ told[p][t] # <<>>
    /\ told' = [told EXCEPT ![p][t] = Tail(@)]
    /\ want' = [want EXCEPT ![p][t] = Head(told[p][t])]
    /\ At(p, t, Head(told[p][t]).num)
    /\ TakerGoes(p, t, "check")
    /\ UNCHANGED <<industry, factory, taken>>

\* A faulty form: any batch from the one told on is taken for it.
FaultyIsCurrent(p, t) == batch_number[p][num[p][t]] >= 0

IsCurrent(p, t) == batch_number[p][num[p][t]] = want[p][t].batch

\* The others look at batch_number, give its lock back, and act on it.
Check(p, t) ==
    /\ p # 0 /\ tpc[p][t] = "check"
    /\ TakerGoes(p, t, IF IsCurrent(p, t) THEN "take" ELSE "lock")
    /\ UNCHANGED <<industry, factory, num, told, want, taken>>

Take(p, t) ==
    LET c == want[p][t]
    IN  /\ p # 0 /\ tpc[p][t] = "take" /\ lock[p][c.num] = "free"
        /\ used' = [used EXCEPT ![p][c.num] = @ \cup {c.i}]
        /\ AfterTake(p, t)
        /\ UNCHANGED <<made, batch_number, lock, factory, num, told, want>>

Reshare(t) ==
    /\ tpc[0][t] = "reshare"
    /\ \A q \in Players \ {0} : taken[q][t] >= taken[0][t]
    /\ TakerGoes(0, t, NextItem(0, t, taken[0][t]))
    /\ UNCHANGED <<industry, factory, num, told, want, taken>>

\* A faulty form: a taker ends when it knows itself that it has all.
FaultyExit(p, t) ==
    /\ tpc[p][t] = "exit"
    /\ TakerGoes(p, t, "done")
    /\ UNCHANGED <<industry, factory, num, told, want, taken>>

\* Between two steps player 0 says whether to end.
Exit(p, t) ==
    /\ tpc[p][t] = "exit" /\ tpc[0][t] = "done"
    /\ TakerGoes(p, t, "done")
    /\ UNCHANGED <<industry, factory, num, told, want, taken>>

Taker(p, t) ==
    \/ p = 0 /\ (Try(t) \/ Choose(t) \/ Take0(t) \/ Reshare(t))
    \/ Lock(p, t) \/ Update(p, t)
    \/ Receive(p, t) \/ Check(p, t) \/ Take(p, t) \/ Exit(p, t)

---------------------------------------------------------------------------

Ended ==
    \A p \in Players : Finished(p) /\ \A f \in Factories : fpc[p][f] = "out"

Next ==
    \/ \E p \in Players, f \in Factories : Factory(p, f)
    \/ \E p \in Players, t \in Takers : Taker(p, t)
    \/ Ended /\ UNCHANGED vars

Fairness ==
    /\ \A p \in Players, f \in Factories : WF_vars(Factory(p, f))
    /\ \A p \in Players, t \in Takers : WF_vars(Taker(p, t))

Spec == Init /\ [][Next]_vars /\ Fairness
=============================================================================
