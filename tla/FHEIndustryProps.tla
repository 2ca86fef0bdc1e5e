-------------------------- MODULE FHEIndustryProps --------------------------
(***************************************************************************)
(* The properties of the FHE_Industry.                                     *)
(***************************************************************************)
EXTENDS FHEIndustry

(* What a taker of another player uses is what player 0 told it, and was   *)
(* not used before, though it gives up the lock between looking at         *)
(* batch_number and get_entry (which throws ZKPoK_Used otherwise).         *)
TakesWhatItWasTold ==
    \A p \in Players \ {0}, t \in Takers :
        tpc[p][t] = "take" =>
            LET c == want[p][t]
            IN  batch_number[p][c.num] = c.batch /\ c.i \notin used[p][c.num]

(* No player is past a batch that one of its takers was told to use: it    *)
(* would wait for it for good.                                             *)
BatchNotPassed ==
    \A p \in Players \ {0}, t \in Takers :
        /\ tpc[p][t] \in {"check", "lock", "update"} =>
              batch_number[p][want[p][t].num] <= want[p][t].batch
        /\ \A n \in 1 .. Len(told[p][t]) :
              batch_number[p][told[p][t][n].num] <= told[p][t][n].batch

(* No factory closes while a production thread of any player has yet to    *)
(* take a ciphertext.                                                      *)
ClosesWhenServed ==
    (\E p \in Players, f \in Factories : fpc[p][f] = "out") =>
        \A p \in Players, t \in Takers : taken[p][t] = Demand(t)

(* The threads of one factory are at the same broadcast ("Need to sync     *)
(* players"): what one hears is what the others meant to say.  Not so once *)
(* LimitSize can be reached: see the README.                               *)
Lockstep ==
    \A p, q \in Players, f \in Factories :
        fpc[p][f] = "hear" /\ said[q][p][f] # <<>> =>
            Head(said[q][p][f]).stage = Stages[stage[p][f]]

(* The ciphertexts of the MAC keys are read ("Now get the ciphertext we    *)
(* are going to use") only after their proof was done to its end.  Not so  *)
(* when a program ends before it needs one: see the README.                *)
MacsProved == \A p \in Players, f \in Factories : fpc[p][f] # "wild"

(* A thread that has a ciphertext goes on to ct_mac, so the ciphertexts of *)
(* the MAC keys are there, whichever factory it has it from.               *)
MacsBeforeUse ==
    \A p \in Players, t \in Takers : taken[p][t] > 0 => ~proving_macs[p]

(* Every production thread gets its ciphertexts and every factory closes.  *)
AllClose == <>Ended

---------------------------------------------------------------------------
(* The inductive invariant behind the safety properties.                   *)

\* A taker of another player that has received a choice and not followed it.
Held(p, t) == tpc[p][t] \in {"check", "lock", "update", "take"}

\* The choices of player 0 that a taker of p still owes: number 0 is the one
\* it holds, the others are under way.
Owes(p, t, n) == n \in 0 .. Len(told[p][t]) /\ (n = 0 => Held(p, t))
Owed(p, t, n) == IF n = 0 THEN want[p][t] ELSE told[p][t][n]

\* Whether player p has used a ciphertext.
UsedBy(p, num_, batch, i) ==
    \/ batch < batch_number[p][num_]
    \/ batch = batch_number[p][num_] /\ i \in used[p][num_]

\* Where a taker may be at player 0 and at the others, and what it has there.
PlacesOK ==
    \A t \in Takers :
        /\ tpc[0][t] \notin {"receive", "check", "exit"}
        /\ tpc[0][t] \in {"lock", "update", "take"} => num[0][t] \in Factories
        /\ tpc[0][t] = "take" => ~isempty(0, num[0][t])
        /\ \A p \in Players \ {0} :
              /\ tpc[p][t] \notin {"try", "choose", "reshare"}
              /\ Held(p, t) => num[p][t] = want[p][t].num

\* Between a lock and its release nobody else has the factory.
LocksOK ==
    \A p \in Players, t \in Takers :
        tpc[p][t] = "update" \/ (p = 0 /\ tpc[p][t] = "take")
            => lock[p][num[p][t]] = t

ListsOK ==
    \A p \in Players, f \in Factories : batch_number[p][f] < made[p][f]

\* What p has used player 0 has used before.
UsedFirst(p) ==
    \A f \in Factories : \A b \in 0 .. batch_number[p][f], i \in 0 .. U - 1 :
        UsedBy(p, f, b, i) => UsedBy(0, f, b, i)

\* A choice that is owed was used by player 0, and is unused here.
OwedUnused(p) ==
    \A t \in Takers : \A n \in 0 .. Len(told[p][t]) : Owes(p, t, n) =>
        LET c == Owed(p, t, n)
        IN  UsedBy(0, c.num, c.batch, c.i) /\ ~UsedBy(p, c.num, c.batch, c.i)

\* It is owed once.
OwedOnce(p) ==
    \A t, u \in Takers : \A n \in 0 .. Len(told[p][t]), m \in 0 .. Len(told[p][u]) :
        Owes(p, t, n) /\ Owes(p, u, m) /\ Owed(p, t, n) = Owed(p, u, m)
            => t = u /\ n = m

\* The batch a taker has seen stays until it has used it.
SeenStays(p) ==
    \A t \in Takers : tpc[p][t] = "take" =>
        batch_number[p][want[p][t].num] = want[p][t].batch

ChoicesOK ==
    \A p \in Players \ {0} :
        UsedFirst(p) /\ OwedUnused(p) /\ OwedOnce(p) /\ SeenStays(p)

\* Until the MAC ciphertexts are there nobody has anything.
MacsOK ==
    \A p \in Players : proving_macs[p] =>
        /\ made[p][0] = 0
        /\ \A f \in Factories : batch_number[p][f] = -1
        /\ \A f \in Factories \ {0} : lock[p][f] = "constructor"
        /\ \A t \in Takers : taken[p][t] = 0

\* What player 0 has taken the others have taken, hold or will receive; it
\* ends after they have taken everything, and they after it.
CountsOK ==
    \A t \in Takers :
        /\ tpc[0][t] = "done" => taken[0][t] = Demand(t)
        /\ \A p \in Players \ {0} :
              /\ taken[0][t] = taken[p][t] + Len(told[p][t])
                                 + (IF Held(p, t) THEN 1 ELSE 0)
              /\ tpc[0][t] = "done" => taken[p][t] = taken[0][t]
              /\ tpc[p][t] = "done" => tpc[0][t] = "done"

\* Who says that all is finished, or has heard it, is right.
AllServed == \A t \in Takers : tpc[0][t] = "done"
ServedOK ==
    /\ \A p, q \in Players, f \in Factories :
          \A n \in 1 .. Len(said[q][p][f]) : said[q][p][f][n].finished => AllServed
    /\ \A p \in Players, f \in Factories : fpc[p][f] \in {"out", "wild"} => AllServed

IInv == PlacesOK /\ LocksOK /\ ListsOK /\ ChoicesOK /\ MacsOK /\ CountsOK /\ ServedOK
=============================================================================
