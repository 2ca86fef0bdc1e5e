---------------------------- MODULE OfflineProps ----------------------------
(***************************************************************************)
(* The properties of the offline phase.                                    *)
(***************************************************************************)
EXTENDS Offline

BetweenRounds(p, k) == spc[p][k] \in {"propose", "collect", "out"}

(* Players that have done the same number of sacrifice rounds have made    *)
(* the same data, so that item i of a queue of SacrificeD is a share of    *)
(* the same value at each of them ("to get agreement amongst all players").*)
PlayersAgree ==
    \A p, q \in Players, k \in OnlineThreads :
        rounds[p][k] = rounds[q][k] /\ BetweenRounds(p, k) /\ BetweenRounds(q, k)
            => /\ tot[p][k] = tot[q][k]
               /\ k = 0 => totI[p] = totI[q]

(* When a round has been agreed its data are there already, so that the    *)
(* ready loop of sacrifice_phase, which only the producers could end, is   *)
(* never entered a second time.                                            *)
AgreedIsReady ==
    \A p \in Players, k \in OnlineThreads : spc[p][k] = "IO" => Ready(p, k)

(* A sacrifice thread that waits for the proposal of a player does not     *)
(* wait for one whose sacrifice thread has gone without sending it.        *)
NoneLeftBehind ==
    \A p, q \in Players, k \in OnlineThreads :
        spc[p][k] = "collect" /\ spc[q][k] = "out" => offer[q][p][k] # <<>>

(* An offline thread ends only when the online thread it serves has ended, *)
(* or all that is wanted was made: at some player, for a sacrifice thread, *)
(* and at player 0, who asks nobody, for a producer.  A proposal drawn     *)
(* from an empty queue, which is -1 before it is rounded, is not taken for *)
(* the exit signal.                                                        *)
Unneeded(q, k) == opc[q][k] = "dead" \/ EnoughData(q, k)
ExitForCause ==
    \A p \in Players, k \in OnlineThreads :
        /\ spc[p][k] \in {"exit", "out"} => \E q \in Players : Unneeded(q, k)
        /\ \A T \in Kinds : prod[p][k][T] = "out" => Unneeded(0, k)

(* Player 0 decides for all when a queue is too big, and its own queues    *)
(* outgrow the limit by no more than a batch.  The others may lag behind   *)
(* it in their sacrifices, yet theirs do so only by a batch and what one   *)
(* round takes.                                                            *)
RoundTakes(T) ==
    IF T = "triples" THEN (rep + 1) * sz_sacrifice[T]
    ELSE IF T = "bits" THEN sz_sacrifice[T]
    ELSE (rep + 1) * sz_sacrifice[T] + rep * sz_sacrifice["bits"]

QueuesBounded ==
    \A p \in Players, k \in OnlineThreads, T \in Kinds :
        queue[p][k][T] <=
            max_offline[T] + sz_offline_batch[T] + (IF p = 0 THEN 0 ELSE RoundTakes(T))

(* With enough to be made for its tapes, every online thread finishes and  *)
(* every offline thread of every player ends: no player starves because    *)
(* another one, done before it, has stopped the offline phase.             *)
AllEnd == <>Ended

---------------------------------------------------------------------------
(* The inductive invariant behind the safety properties.                   *)

\* Where a sacrifice thread is in a round that has been agreed.
InRound(p, k) == spc[p][k] \in {"IO", "triples", "squares", "bits", "end"}
Collecting(p, k) == spc[p][k] = "collect"

\* Only thread 0 makes inputs.
InputsOK ==
    /\ \A p \in Players : opened_ios[p] = ios[p][p]
    /\ \A p \in Players, k \in OnlineThreads \ {0} :
          /\ agreed[p][k].make_inputs = {}
          /\ \A q \in Players : \A n \in 1 .. Len(offer[q][p][k]) :
                offer[q][p][k][n].make_inputs = {}

\* The threads that have died are counted.
DiedOf(p, k, T) == IF T \in Kinds THEN IF prod[p][k][T] = "out" THEN 1 ELSE 0 ELSE 0
DeadOK ==
    \A p \in Players, k \in OnlineThreads :
        finished_offline[p][k] =
            DiedOf(p, k, "triples") + DiedOf(p, k, "squares") + DiedOf(p, k, "bits")
              + (IF spc[p][k] = "out" THEN 1 ELSE 0)

\* Only the sacrifice thread takes from the queues: what it has proposed, and
\* what is left to take of what was agreed, is there.
ReadyOK ==
    \A p \in Players, k \in OnlineThreads :
        LET n == agreed[p][k]
        IN  /\ spc[p][k] \in {"collect", "IO", "triples"} => Ready(p, k)
            /\ InRound(p, k) => n.nm # -1
            /\ spc[p][k] = "squares" => /\ Queued(p, k, "squares") >= rep * n.nb + n.ns
                                        /\ Queued(p, k, "bits") >= n.nb
            /\ spc[p][k] = "bits" => /\ Queued(p, k, "squares") >= rep * n.nb
                                     /\ Queued(p, k, "bits") >= n.nb

\* The exit signal is given for a cause.
Cause(k) == \E q \in Players : finish_offline[q][k] = 1
CauseOK ==
    \A p \in Players, k \in OnlineThreads :
        /\ agreed[p][k].nm = -1 => Cause(k)
        /\ \A q \in Players : \A n \in 1 .. Len(offer[q][p][k]) :
              offer[q][p][k][n].nm = -1 => Cause(k)
        /\ spc[p][k] \in {"exit", "out"} => Cause(k)

\* Who was told to finish is not needed, and player 0 was when a producer is
\* told to end.
LeaveOK ==
    \A p \in Players, k \in OnlineThreads :
        /\ finish_offline[p][k] = 1 => Unneeded(p, k)
        /\ \A T \in Kinds :
              /\ prod[p][k][T] = "out" => finish_offline[0][k] = 1
              /\ \A n \in 1 .. Len(verdict[p][k][T]) :
                    verdict[p][k][T][n] = "E" => finish_offline[0][k] = 1

\* What an online thread has seen is there until it takes it: only thread 0
\* takes inputs, and only one thread from each of the other lists.
TakeOK ==
    \A p \in Players, k \in OnlineThreads : opc[p][k] = "take" =>
        /\ More(p, k)
        /\ Instr(p, k).kind \in Kinds =>
              sacrificed[p][k][Instr(p, k).kind] >= Instr(p, k).size
        /\ Instr(p, k).kind = "IO" => k = 0 /\ ios[p][Instr(p, k).player] >= 1

\* A batch is made by nobody before player 0 has begun it, with its queue
\* within the limit.
BatchesOK ==
    \A k \in OnlineThreads, T \in Kinds :
        /\ queue[0][k][T] <=
              max_offline[T] + (IF prod[0][k][T] = "produce" THEN 0 ELSE sz_offline_batch[T])
        /\ \A p \in Players : made[p][k][T] <= Begun(0, k, T)

\* What a round of these numbers keeps, takes from a queue and makes.
Keeps(n, T) == IF T = "triples" THEN Kept(n.nm)
               ELSE IF T = "squares" THEN Kept(n.ns) ELSE n.nb
Takes(n, T) == IF T = "triples" THEN n.nm
               ELSE IF T = "squares" THEN rep * n.nb + n.ns ELSE n.nb
Makes(n) == sz_IO_batch * Cardinality(n.make_inputs)

\* The same, of which nothing is done when it is the exit signal.
Gain(n, T) == IF n.nm = -1 THEN 0 ELSE Keeps(n, T)
Loss(n, T) == IF n.nm = -1 THEN 0 ELSE Takes(n, T)
GainI(n) == IF n.nm = -1 THEN 0 ELSE Makes(n)

\* What is left of them to do in the round a thread is in.
ToKeep(p, k, T) ==
    IF \/ T = "triples" /\ spc[p][k] \in {"IO", "triples"}
       \/ T = "squares" /\ spc[p][k] \in {"IO", "triples", "squares"}
       \/ T = "bits" /\ spc[p][k] \in {"IO", "triples", "squares", "bits"}
    THEN Keeps(agreed[p][k], T) ELSE 0
ToTake(p, k, T) ==
    IF \/ T = "triples" /\ spc[p][k] \in {"IO", "triples"}
       \/ T = "squares" /\ spc[p][k] \in {"IO", "triples", "squares"}
       \/ T = "bits" /\ spc[p][k] \in {"IO", "triples", "squares", "bits"}
    THEN Takes(agreed[p][k], T)
    ELSE IF T = "squares" /\ spc[p][k] = "bits" THEN rep * agreed[p][k].nb ELSE 0
ToMake(p, k) == IF spc[p][k] = "IO" THEN Makes(agreed[p][k]) ELSE 0

\* What it will have made, and will have taken from its queues, when it has
\* done that.
WillHave(p, k, T) == tot[p][k][T] + ToKeep(p, k, T)
WillHaveI(p) == totI[p] + ToMake(p, 0)
Spent(p, k, T) == made[p][k][T] * sz_offline_batch[T] - queue[p][k][T] + ToTake(p, k, T)

\* The sacrifice threads of an online thread, where C[p] is how many times p
\* has collected and X[p][n] is what p has proposed the n-th time.
OneIf(b) == IF b THEN 1 ELSE 0
Result(X, n) == Combined({X[p][n] : p \in Players})

InStep(k, C) == \A p, q \in Players : C[p] <= C[q] + OneIf(Collecting(q, k))

Offered(k, C, X) ==
    \A p \in Players :
        /\ Collecting(p, k) => agreed[p][k] = X[p][C[p] + 1]
        /\ \A q \in Players \ {p} :
              /\ Len(offer[p][q][k]) = C[p] + OneIf(Collecting(p, k)) - C[q]
              /\ \A n \in 1 .. Len(offer[p][q][k]) : offer[p][q][k][n] = X[p][C[q] + n]

\* Who has collected as often will have the same, who has once more will have
\* the result of that more.
SameAmounts(k, C, X) ==
    \A p, q \in Players :
        LET n == Result(X, C[q])
        IN  /\ C[q] = C[p] =>
                  /\ \A T \in Kinds : /\ WillHave(q, k, T) = WillHave(p, k, T)
                                      /\ Spent(q, k, T) = Spent(p, k, T)
                  /\ rounds[q][k] = rounds[p][k]
                  /\ k = 0 => WillHaveI(q) = WillHaveI(p)
            /\ C[q] = C[p] + 1 =>
                  /\ \A T \in Kinds : /\ WillHave(q, k, T) = WillHave(p, k, T) + Gain(n, T)
                                      /\ Spent(q, k, T) = Spent(p, k, T) + Loss(n, T)
                  /\ rounds[q][k] = rounds[p][k] + OneIf(n # Nothing)
                  /\ k = 0 => WillHaveI(q) = WillHaveI(p) + GainI(n)

\* Which result ends the threads k, and who goes on has not had one: they
\* decide alike if it is thread 0, whose totI it is, or there is no maximum.
DecideAlike(k) == k = 0 \/ \E T \in Kinds : max[T] = 0
Ends(p, k, n) == n.nm = -1 \/ (n # Nothing /\ EnoughData(p, k))
SameEnd(k, C, X) ==
    \A p \in Players :
        LET n == Result(X, C[p])
        IN  /\ spc[p][k] \in {"propose", "collect"} => C[p] = 0 \/ ~Ends(p, k, n)
            /\ spc[p][k] = "out" => C[p] > 0 /\ Ends(p, k, n)
            /\ spc[p][k] = "exit" => C[p] > 0 /\ n.nm = -1
            /\ InRound(p, k) => C[p] > 0 /\ n.nm # -1 /\ n # Nothing

InStepWith(k, C, X) == InStep(k, C) /\ Offered(k, C, X) /\ SameAmounts(k, C, X)

LockstepOK ==
    \A k \in OnlineThreads :
        \E C \in [Players -> Nat], X \in [Players -> [Nat -> Numbers]] :
            InStepWith(k, C, X) /\ (DecideAlike(k) => SameEnd(k, C, X))

IInv == InputsOK /\ DeadOK /\ ReadyOK /\ CauseOK /\ LeaveOK /\ TakeOK /\ BatchesOK
=============================================================================
