------------------------------ MODULE Offline ------------------------------
(***************************************************************************)
(* The offline phase of every player and online thread, and the part of    *)
(* the online phase that uses what it makes.  For online thread k, each    *)
(* player runs five threads: three producers (mult_phase, square_phase,    *)
(* bit_phase), the sacrifice thread, and the online thread.  They share    *)
(* the queues TriplesD, SquaresD, BitsD and SacrificeD and the control     *)
(* data OCD; the same thread of two players talks over its own connection. *)
(*                                                                         *)
(* Shares are abstracted to how many there are.  A batch is interactive:   *)
(* no player ends it before all have begun it.  A critical section, with   *)
(* the local work before it, is one action.                                *)
(***************************************************************************)
EXTENDS Integers, Sequences, FiniteSets, FiniteSetsExt

CONSTANTS
    Kinds,              \* the kinds of data; a slice of the system has fewer
    NPlayers, NOnline,  \* numbers of players and of online threads
    rep,                \* sacrifice_stat_sec / numBits(p) + 1
    fake_sacrifice,     \* is the sacrifice only pretended?
    sz_offline_batch,   \* per kind: the items a producer makes at a time
    sz_IO_batch,
    sz_sacrifice,       \* per kind: sz_triples_sacrifice, ...
    bit_gap,            \* the squares kept back from making bits (10)
    max_offline,        \* per kind: max_triples_offline, ...
    max_sacrifice,      \* per kind: max_triples_sacrifice, ...
    max_IO_sacrifice,
    min, max,           \* per kind: minm, mins, minb and maxm, maxs, maxb
    maxI,
    Code,               \* per online thread: the offline data its tapes use
    SocketBuffer        \* bound: messages of check_exit under way to a player

Players == 0 .. NPlayers - 1
OnlineThreads == 0 .. NOnline - 1
AllKinds == {"triples", "squares", "bits"}

ASSUME SizesAssumption ==
    /\ Kinds \subseteq AllKinds
    /\ NPlayers \in Nat \ {0} /\ NOnline \in Nat \ {0}
    /\ rep \in Nat \ {0} /\ bit_gap \in Nat
    /\ fake_sacrifice \in BOOLEAN
    /\ {sz_offline_batch, sz_sacrifice, max_offline, max_sacrifice, min, max}
         \subseteq [AllKinds -> Nat]
    /\ {sz_IO_batch, max_IO_sacrifice, maxI} \subseteq Nat
    /\ SocketBuffer \in Nat \ {0}
\* An instruction uses `size' items of a kind, or one input tuple of a player.
ASSUME CodeAssumption ==
    Code \in [OnlineThreads ->
                Seq([kind : AllKinds, size : Nat] \cup [kind : {"IO"}, player : Players])]

VARIABLES
    queue,        \* sizes of TriplesD[k].ta, SquaresD[k].sa, BitsD[k].bb
    sacrificed,   \* sizes of SacrificeD[k].TD.ta, .SD.sa, .BD.bb
    ios,          \* sizes of SacrificeD[0].ID.ios, per owner
    opened_ios,   \* size of SacrificeD[0].ID.opened_ios
    tot, totI,    \* OCD.totm, tots, totb, and totI
    finish_offline, finished_offline,
    prod, made,   \* producers: where each is, the batches it has made
    verdict,      \* check_exit messages from player 0 to each player
    spc,          \* sacrifice thread: where it is
    agreed,       \* its nm, ns, nb and the players to make inputs for
    offer,        \* proposals under way from a player to another
    opc, pos,     \* online thread: where it is, the instruction it is at
    rounds        \* history: the sacrifice rounds begun

producers == <<prod, made, verdict>>
sacrificer == <<spc, agreed, offer, rounds>>
online == <<opc, pos>>
vars == <<queue, sacrificed, ios, opened_ios, tot, totI, finish_offline,
          finished_offline, producers, sacrificer, online>>

\* A value for every player and online thread, and for every kind of those.
PerThread(S) == [Players -> [OnlineThreads -> S]]
PerKind(S) == PerThread([Kinds -> S])

\* What a sacrifice thread may propose; -1 for nm is the exit signal.
Numbers == [nm : -1 .. (rep + 1) * sz_sacrifice["triples"],
            ns : 0 .. (rep + 1) * sz_sacrifice["squares"],
            nb : 0 .. sz_sacrifice["bits"], make_inputs : SUBSET Players]

TypeOK ==
    /\ queue \in PerKind(Nat) /\ sacrificed \in PerKind(Nat)
    /\ ios \in [Players -> [Players -> Nat]]
    /\ opened_ios \in [Players -> Nat]
    /\ tot \in PerKind(Nat) /\ totI \in [Players -> Nat]
    /\ finish_offline \in PerThread(0 .. 1)
    /\ finished_offline \in PerThread(0 .. 4)
    /\ prod \in PerKind({"check", "size", "produce", "out"})
    /\ made \in PerKind(Nat)
    /\ verdict \in PerKind(Seq({"E", "W", "-"}))
    /\ spc \in PerThread({"propose", "collect", "IO", "triples", "squares",
                          "bits", "end", "exit", "out"})
    /\ agreed \in PerThread(Numbers)
    /\ offer \in [Players -> PerThread(Seq(Numbers))]
    /\ opc \in PerThread({"wait", "run", "take", "dead"})
    /\ pos \in PerThread(Nat \ {0})
    /\ rounds \in PerThread(Nat)

Everywhere(v) == [p \in Players |-> [k \in OnlineThreads |-> v]]
EveryKind(v) == Everywhere([T \in Kinds |-> v])
Nothing == [nm |-> 0, ns |-> 0, nb |-> 0, make_inputs |-> {}]

Init ==
    /\ queue = EveryKind(0) /\ sacrificed = EveryKind(0)
    /\ ios = [p \in Players |-> [i \in Players |-> 0]]
    /\ opened_ios = [p \in Players |-> 0]
    /\ tot = EveryKind(0) /\ totI = [p \in Players |-> 0]
    /\ finish_offline = Everywhere(0) /\ finished_offline = Everywhere(0)
    /\ prod = EveryKind("check") /\ made = EveryKind(0)
    /\ verdict = EveryKind(<<>>)
    /\ spc = Everywhere("propose") /\ agreed = Everywhere(Nothing)
    /\ offer = [p \in Players |-> Everywhere(<<>>)]
    /\ opc = Everywhere("wait") /\ pos = Everywhere(1)
    /\ rounds = Everywhere(0)

---------------------------------------------------------------------------
(* check_exit and the loops of mult_phase, square_phase and bit_phase.     *)

\* A maximum of 0 stands for no maximum.
Over(p, k, T) == max[T] # 0 /\ tot[p][k][T] > max[T]

\* A faulty form: the size of the queue is not looked at.
FaultyQueueTooBig(k, T) ==
    Over(0, k, T) /\ (T = "squares" => Over(0, k, "bits"))

\* Squares are also used up by making bits.
QueueTooBig(k, T) ==
    \/ queue[0][k][T] > max_offline[T]
    \/ Over(0, k, T) /\ (T = "squares" => Over(0, k, "bits"))

TellOthers(k, T, m) ==
    /\ \A p \in Players \ {0} : Len(verdict[p][k][T]) < SocketBuffer
    /\ verdict' = [p \in Players |->
                     IF p = 0 THEN verdict[0]
                     ELSE [verdict[p] EXCEPT ![k][T] = Append(@, m)]]

ProducerGoes(p, k, T, pc) == prod' = [prod EXCEPT ![p][k][T] = pc]

ThreadDied(p, k) == finished_offline' = [finished_offline EXCEPT ![p][k] = @ + 1]

\* Player 0 looks first at finish_offline, and only then at its queues.
CheckExit0(k, T) ==
    /\ prod[0][k][T] = "check"
    /\ \/ /\ finish_offline[0][k] = 1
          /\ TellOthers(k, T, "E")
          /\ ProducerGoes(0, k, T, "out") /\ ThreadDied(0, k)
       \/ /\ finish_offline[0][k] = 0
          /\ ProducerGoes(0, k, T, "size")
          /\ UNCHANGED <<verdict, finished_offline>>
    /\ UNCHANGED <<queue, sacrificed, ios, opened_ios, tot, totI,
                   finish_offline, made, sacrificer, online>>

CheckSize0(k, T) ==
    /\ prod[0][k][T] = "size"
    /\ IF QueueTooBig(k, T)
       THEN TellOthers(k, T, "W") /\ ProducerGoes(0, k, T, "check")
       ELSE TellOthers(k, T, "-") /\ ProducerGoes(0, k, T, "produce")
    /\ UNCHANGED <<queue, sacrificed, ios, opened_ios, tot, totI,
                   finish_offline, finished_offline, made, sacrificer, online>>

CheckExitOther(p, k, T) ==
    /\ p # 0 /\ prod[p][k][T] = "check" /\ verdict[p][k][T] # <<>>
    /\ verdict' = [verdict EXCEPT ![p][k][T] = Tail(@)]
    /\ \/ /\ Head(verdict[p][k][T]) = "E"
          /\ ProducerGoes(p, k, T, "out") /\ ThreadDied(p, k)
       \/ /\ Head(verdict[p][k][T]) = "W"
          /\ UNCHANGED <<prod, finished_offline>>
       \/ /\ Head(verdict[p][k][T]) = "-"
          /\ ProducerGoes(p, k, T, "produce")
          /\ UNCHANGED finished_offline
    /\ UNCHANGED <<queue, sacrificed, ios, opened_ios, tot, totI,
                   finish_offline, made, sacrificer, online>>

\* offline_phase_triples, _squares or _bits, then the splice into the queue.
Begun(p, k, T) == made[p][k][T] + IF prod[p][k][T] = "produce" THEN 1 ELSE 0

Produce(p, k, T) ==
    /\ prod[p][k][T] = "produce"
    /\ \A q \in Players : Begun(q, k, T) > made[p][k][T]
    /\ made' = [made EXCEPT ![p][k][T] = @ + 1]
    /\ queue' = [queue EXCEPT ![p][k][T] = @ + sz_offline_batch[T]]
    /\ ProducerGoes(p, k, T, "check")
    /\ UNCHANGED <<sacrificed, ios, opened_ios, tot, totI, finish_offline,
                   finished_offline, verdict, sacrificer, online>>

Producer(p, k, T) ==
    \/ p = 0 /\ (CheckExit0(k, T) \/ CheckSize0(k, T))
    \/ CheckExitOther(p, k, T)
    \/ Produce(p, k, T)

---------------------------------------------------------------------------
(* propose_numbers_sacrifice.                                              *)

Least(a, b) == IF a < b THEN a ELSE b
AtLeast0(n) == IF n < 0 THEN 0 ELSE n

\* A faulty form: the number is left as it is.
FaultyRounded(n) == n

\* A multiple of rep + 1: each item kept is checked against rep others.
\* C rounds a quotient towards zero, which differs only on what becomes 0.
Rounded(n) == AtLeast0((n \div (rep + 1)) * (rep + 1))

\* A faulty form: the limit is not scaled to what is taken.
FaultyNumTriples(ta) == Rounded(Least(sz_sacrifice["triples"], ta) - 1)

NumTriples(ta) == Rounded(Least((rep + 1) * sz_sacrifice["triples"], ta) - 1)
NumBits(bb, sa) ==
    AtLeast0(Least(Least(sz_sacrifice["bits"], bb) - 1, sa \div rep) - bit_gap)
NumSquares(sa) == Rounded(Least((rep + 1) * sz_sacrifice["squares"], sa) - 1)

\* In a slice without a kind there is none of it, and none is wanted.
Queued(p, k, T) == IF T \in Kinds THEN queue[p][k][T] ELSE 0

\* No more of a kind is wanted.
Enough(p, k, T) == T \notin Kinds \/ sacrificed[p][k][T] > max_sacrifice[T] \/ Over(p, k, T)
Unless(c, n) == IF c THEN 0 ELSE n

WantsInputs(p, i) == (maxI = 0 /\ ios[p][i] < max_IO_sacrifice) \/ totI[p] < maxI

Proposal(p, k) ==
    LET q  == [T \in AllKinds |-> Queued(p, k, T)]
        nb == NumBits(q["bits"], q["squares"])
        ns == NumSquares(q["squares"] - rep * nb)
    IN  [nm |-> IF finish_offline[p][k] = 1 THEN -1
                ELSE Unless(Enough(p, k, "triples"), NumTriples(q["triples"])),
         ns |-> Unless(Enough(p, k, "squares"), ns),
         nb |-> Unless(Enough(p, k, "bits"), nb),
         make_inputs |-> {i \in Players : k = 0 /\ WantsInputs(p, i)}]

SacrificeGoes(p, k, pc) == spc' = [spc EXCEPT ![p][k] = pc]

Propose(p, k) ==
    /\ spc[p][k] = "propose"
    /\ agreed' = [agreed EXCEPT ![p][k] = Proposal(p, k)]
    /\ offer' = [offer EXCEPT ![p] = [q \in Players |->
                    IF q = p THEN offer[p][q]
                    ELSE [offer[p][q] EXCEPT ![k] = Append(@, Proposal(p, k))]]]
    /\ SacrificeGoes(p, k, "collect")
    /\ UNCHANGED <<queue, sacrificed, ios, opened_ios, tot, totI, finish_offline,
                   finished_offline, producers, rounds, online>>

\* A faulty form: the maximum of everything.
FaultyCombined(S) ==
    [nm |-> Max({n.nm : n \in S}), ns |-> Max({n.ns : n \in S}),
     nb |-> Max({n.nb : n \in S}), make_inputs |-> UNION {n.make_inputs : n \in S}]

\* The minimum of the numbers, the maximum of the flags.
Combined(S) ==
    [nm |-> Min({n.nm : n \in S}), ns |-> Min({n.ns : n \in S}),
     nb |-> Min({n.nb : n \in S}), make_inputs |-> UNION {n.make_inputs : n \in S}]

Collect(p, k) ==
    LET others == Players \ {p}
        all == Combined({agreed[p][k]} \cup {Head(offer[q][p][k]) : q \in others})
    IN  /\ spc[p][k] = "collect"
        /\ \A q \in others : offer[q][p][k] # <<>>
        /\ offer' = [q \in Players |->
                        IF q = p THEN offer[q] ELSE [offer[q] EXCEPT ![p][k] = Tail(@)]]
        /\ agreed' = [agreed EXCEPT ![p][k] = all]
        /\ SacrificeGoes(p, k, IF all = Nothing THEN "propose"
                               ELSE IF all.nm = -1 THEN "exit" ELSE "IO")
        /\ rounds' = [rounds EXCEPT ![p][k] = @ + (IF all = Nothing THEN 0 ELSE 1)]
        /\ UNCHANGED <<queue, sacrificed, ios, opened_ios, tot, totI,
                       finish_offline, finished_offline, producers, online>>

---------------------------------------------------------------------------
(* sacrifice_phase.                                                        *)

MakeIO(p, k) ==
    LET i == Min(agreed[p][k].make_inputs)
    IN  /\ spc[p][k] = "IO" /\ agreed[p][k].make_inputs # {}
        /\ totI' = [totI EXCEPT ![p] = @ + sz_IO_batch]
        /\ ios' = [ios EXCEPT ![p][i] = @ + sz_IO_batch]
        /\ opened_ios' = [opened_ios EXCEPT ![p] = IF i = p THEN @ + sz_IO_batch ELSE @]
        /\ agreed' = [agreed EXCEPT ![p][k].make_inputs = @ \ {i}]
        /\ UNCHANGED <<queue, sacrificed, tot, finish_offline, finished_offline,
                       producers, spc, offer, rounds, online>>

\* The queues hold what the round is going to take.
Ready(p, k) ==
    LET n == agreed[p][k]
    IN  /\ Queued(p, k, "triples") >= n.nm
        /\ Queued(p, k, "squares") >= rep * n.nb + n.ns
        /\ Queued(p, k, "bits") >= n.nb

WaitReady(p, k) ==
    /\ spc[p][k] = "IO" /\ agreed[p][k].make_inputs = {}
    /\ Ready(p, k)
    /\ SacrificeGoes(p, k, "triples")
    /\ UNCHANGED <<queue, sacrificed, ios, opened_ios, tot, totI, finish_offline,
                   finished_offline, producers, agreed, offer, rounds, online>>

Kept(n) == IF fake_sacrifice THEN n ELSE n \div (rep + 1)

Plus(f, T, n) == [X \in Kinds |-> f[X] + IF X = T THEN n ELSE 0]
None == [X \in AllKinds |-> 0]

\* The round takes some of each kind, and keeps some of kind T.
Take(p, k, taken, T, kept) ==
    /\ queue' = [queue EXCEPT ![p][k] = [X \in Kinds |-> queue[p][k][X] - taken[X]]]
    /\ tot' = [tot EXCEPT ![p][k] = Plus(tot[p][k], T, kept)]
    /\ sacrificed' = [sacrificed EXCEPT ![p][k] = Plus(sacrificed[p][k], T, kept)]
    /\ UNCHANGED <<ios, opened_ios, totI, finish_offline, finished_offline,
                   producers, agreed, offer, rounds, online>>

\* A faulty form: the number is worked out again from the queue.
FaultySacrificeTriples(p, k) ==
    LET nm == NumTriples(Queued(p, k, "triples"))
    IN  /\ spc[p][k] = "triples" /\ SacrificeGoes(p, k, "squares")
        /\ Take(p, k, [None EXCEPT !["triples"] = nm], "triples", Kept(nm))

SacrificeTriples(p, k) ==
    /\ spc[p][k] = "triples" /\ SacrificeGoes(p, k, "squares")
    /\ Take(p, k, [None EXCEPT !["triples"] = agreed[p][k].nm],
            "triples", Kept(agreed[p][k].nm))

SacrificeSquares(p, k) ==
    /\ spc[p][k] = "squares" /\ SacrificeGoes(p, k, "bits")
    /\ Take(p, k, [None EXCEPT !["squares"] = agreed[p][k].ns],
            "squares", Kept(agreed[p][k].ns))

SacrificeBits(p, k) ==
    LET nb == agreed[p][k].nb
    IN  /\ spc[p][k] = "bits" /\ SacrificeGoes(p, k, "end")
        /\ Take(p, k, [None EXCEPT !["bits"] = nb, !["squares"] = rep * nb], "bits", nb)

\* A faulty form: what is there now counts, not what was made.
FaultyEnoughData(p, k) ==
    (\A T \in Kinds : sacrificed[p][k][T] > max[T]) /\ totI[p] > maxI

\* "Check whether we should kill the offline phase": thread 0 is the only
\* one to write totI, under sacrifice_mutex[0]; every thread reads it.
EnoughData(p, k) == (\A T \in Kinds : Over(p, k, T)) /\ totI[p] > maxI

EndRound(p, k) ==
    /\ spc[p][k] \in {"end", "exit"}
    /\ finish_offline' = IF EnoughData(p, k)
                         THEN [finish_offline EXCEPT ![p][k] = 1]
                         ELSE finish_offline
    /\ IF EnoughData(p, k) \/ spc[p][k] = "exit"
       THEN SacrificeGoes(p, k, "out") /\ ThreadDied(p, k)
       ELSE SacrificeGoes(p, k, "propose") /\ UNCHANGED finished_offline
    /\ UNCHANGED <<queue, sacrificed, ios, opened_ios, tot, totI, producers,
                   agreed, offer, rounds, online>>

Sacrifice(p, k) ==
    \/ Propose(p, k) \/ Collect(p, k) \/ MakeIO(p, k) \/ WaitReady(p, k)
    \/ SacrificeTriples(p, k) \/ SacrificeSquares(p, k) \/ SacrificeBits(p, k)
    \/ EndRound(p, k)

---------------------------------------------------------------------------
(* online_phase, as far as the offline data goes.                          *)

OnlineGoes(p, k, pc) == opc' = [opc EXCEPT ![p][k] = pc]

\* It starts with more than the minimum of every kind.
StartOnline(p, k) ==
    /\ opc[p][k] = "wait"
    /\ \A T \in Kinds : tot[p][k][T] > min[T]
    /\ OnlineGoes(p, k, "run")
    /\ UNCHANGED <<queue, sacrificed, ios, opened_ios, tot, totI, finish_offline,
                   finished_offline, producers, sacrificer, pos>>

\* The instruction it is at, if there is one.
More(p, k) == pos[p][k] <= Len(Code[k])
Instr(p, k) == Code[k][pos[p][k]]

\* A faulty form: one item is enough to go on.
FaultyWaitSacrificed(p, k) ==
    /\ opc[p][k] = "run" /\ More(p, k) /\ Instr(p, k).kind \in Kinds
    /\ sacrificed[p][k][Instr(p, k).kind] >= 1
    /\ OnlineGoes(p, k, "take")
    /\ UNCHANGED <<queue, sacrificed, ios, opened_ios, tot, totI, finish_offline,
                   finished_offline, producers, sacrificer, pos>>

\* execute_using_sacrifice_data: TRIPLE, SQUARE and BIT look, under the lock,
\* until their size is there, and give the lock up ...
WaitSacrificed(p, k) ==
    /\ opc[p][k] = "run" /\ More(p, k) /\ Instr(p, k).kind \in Kinds
    /\ sacrificed[p][k][Instr(p, k).kind] >= Instr(p, k).size
    /\ OnlineGoes(p, k, "take")
    /\ UNCHANGED <<queue, sacrificed, ios, opened_ios, tot, totI, finish_offline,
                   finished_offline, producers, sacrificer, pos>>

\* ... and, under the lock again, take them without another look.
TakeSacrificed(p, k) ==
    /\ opc[p][k] = "take" /\ Instr(p, k).kind \in Kinds
    /\ sacrificed' = [sacrificed EXCEPT ![p][k][Instr(p, k).kind] = @ - Instr(p, k).size]
    /\ pos' = [pos EXCEPT ![p][k] = @ + 1]
    /\ OnlineGoes(p, k, "run")
    /\ UNCHANGED <<queue, ios, opened_ios, tot, totI, finish_offline,
                   finished_offline, producers, sacrificer>>

\* Processor_IO: private_input and private_output wait for a tuple of a player,
IO_Data_Wait(p, k) ==
    /\ opc[p][k] = "run" /\ More(p, k) /\ Instr(p, k).kind = "IO" /\ k = 0
    /\ ios[p][Instr(p, k).player] >= 1
    /\ OnlineGoes(p, k, "take")
    /\ UNCHANGED <<queue, sacrificed, ios, opened_ios, tot, totI, finish_offline,
                   finished_offline, producers, sacrificer, pos>>

\* and take it, with its opening if it is the player's own.
TakeIO(p, k) ==
    LET i == Instr(p, k).player
    IN  /\ opc[p][k] = "take" /\ Instr(p, k).kind = "IO"
        /\ ios' = [ios EXCEPT ![p][i] = @ - 1]
        /\ opened_ios' = [opened_ios EXCEPT ![p] = IF i = p THEN @ - 1 ELSE @]
        /\ pos' = [pos EXCEPT ![p][k] = @ + 1]
        /\ OnlineGoes(p, k, "run")
        /\ UNCHANGED <<queue, sacrificed, tot, totI, finish_offline,
                       finished_offline, producers, sacrificer>>

\* "Signal offline threads I am dying now".
EndOnline(p, k) ==
    /\ opc[p][k] = "run" /\ ~More(p, k)
    /\ OnlineGoes(p, k, "dead")
    /\ finish_offline' = [finish_offline EXCEPT ![p][k] = 1]
    /\ UNCHANGED <<queue, sacrificed, ios, opened_ios, tot, totI,
                   finished_offline, producers, sacrificer, pos>>

Online(p, k) ==
    \/ StartOnline(p, k) \/ EndOnline(p, k)
    \/ WaitSacrificed(p, k) \/ TakeSacrificed(p, k)
    \/ IO_Data_Wait(p, k) \/ TakeIO(p, k)

---------------------------------------------------------------------------

\* Every thread of every player has returned: per online thread, itself, a
\* producer per kind and the sacrifice thread.
Ended == \A p \in Players, k \in OnlineThreads :
             /\ opc[p][k] = "dead"
             /\ finished_offline[p][k] = Cardinality(Kinds) + 1

Next ==
    \/ \E p \in Players, k \in OnlineThreads :
          \/ \E T \in Kinds : Producer(p, k, T)
          \/ Sacrifice(p, k)
          \/ Online(p, k)
    \/ Ended /\ UNCHANGED vars

Fairness ==
    \A p \in Players, k \in OnlineThreads :
        /\ \A T \in Kinds : WF_vars(Producer(p, k, T))
        /\ WF_vars(Sacrifice(p, k))
        /\ WF_vars(Online(p, k))

Spec == Init /\ [][Next]_vars /\ Fairness
=============================================================================
