----------------------------- MODULE MCOffline -----------------------------
(***************************************************************************)
(* Instances of Offline for TLC.  The sizes of config.h are scaled down to *)
(* the smallest that let every kind be produced: a batch leaves something  *)
(* over from a round, and a queue can exceed its limit.                    *)
(***************************************************************************)
EXTENDS OfflineProps

Each(t, s, b) == [T \in AllKinds |-> CASE T = "triples" -> t [] T = "squares" -> s
                                    [] T = "bits" -> b]

UseMany(T, n) == [kind |-> T, size |-> n]
Use(T) == UseMany(T, 1)
UseInput(i) == [kind |-> "IO", player |-> i]

MCBatch == Each(3, 4, 3)
MCSacrificeSize == Each(2, 2, 3)
MCMaxOffline == Each(2, 3, 2)
MCMaxSacrifice == Each(1, 0, 0)
MCNone == Each(0, 0, 0)
MCOne == Each(1, 1, 1)

MCTriples == {"triples"}
MCSquaresBits == {"squares", "bits"}

MCCodeTriples == [k \in OnlineThreads |->
    IF k = 0 THEN <<UseMany("triples", 2), UseInput(1)>>
             ELSE <<Use("triples")>>]
MCCodeNothing == [k \in OnlineThreads |-> <<>>]
MCCodeSquaresBits == [k \in OnlineThreads |-> <<Use("bits"), Use("squares")>>]

\* LockstepOK with its numbering and proposals worked out from what is under
\* way: a player is ahead if it has sent one more than it collects.
MCCollected(k) ==
    [p \in Players |->
        IF \E q \in Players \ {p} : Len(offer[p][q][k]) - OneIf(Collecting(p, k)) = 1
        THEN 1 ELSE 0]
MCProposed(k, C) ==
    [p \in Players |-> [n \in 0 .. 2 |->
        IF Collecting(p, k) /\ n = C[p] + 1 THEN agreed[p][k]
        ELSE IF n = 1 /\ \E q \in Players \ {p} : C[q] = 0 /\ offer[p][q][k] # <<>>
        THEN Head(offer[p][CHOOSE q \in Players \ {p} : C[q] = 0 /\ offer[p][q][k] # <<>>][k])
        ELSE Nothing]]
MCLockstepOK ==
    \A k \in OnlineThreads :
        LET C == MCCollected(k) IN InStepWith(k, C, MCProposed(k, C))
=============================================================================
