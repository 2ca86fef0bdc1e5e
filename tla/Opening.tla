------------------------------ MODULE Opening -------------------------------
(***************************************************************************)
(* LSSS/Open_Protocol.cpp and the calls of Tools/Crypto.cpp it makes, over *)
(* the connections of Player, as the online thread 0 of every player uses  *)
(* them (Processor.cpp, Processor_IO.cpp, Online.cpp) and with the other   *)
(* exchanges of Player that the offline threads run.                       *)
(*                                                                         *)
(* All players run the same program, a sequence of calls [op, n, who].  A  *)
(* call is a queue of rounds; a round is the writes and reads of Plan and  *)
(* then its Effect.  A value that was opened is an entry: it is right or   *)
(* wrong at each player.  In the Full case the values are checked by their *)
(* MACs, that is, by tau: it sums to zero iff every player has the right   *)
(* values for the MACs it kept.  Otherwise the hashes are compared.        *)
(***************************************************************************)
EXTENDS Player

CONSTANTS Programs,   \* the programs
          OpenC,      \* OpenC[p]: whom p sends its shares to, when not Full
          Gap         \* open_check_gap

VARIABLES prog, type,  \* the program and the kind of sharing, "Full" or "Q2"
          st,          \* st[p]: Open_Protocol, Player::sha256 and the position of p
          hist, sure   \* what p opened, entered and broadcast, and how much of it checks cover

vars == <<wire, prog, type, st, hist, sure>>

Kinds == {"opened", "pub", "cast"}

Init ==
  /\ WireInit
  /\ prog \in Programs
  /\ type \in {"Full", "Q2"}
  /\ st = [p \in Players |->
             [pc |-> 0, rounds |-> <<>>, open_cnt |-> 0, counter |-> [c \in Connections |-> 0],
              macs |-> <<>>, vals |-> <<>>, sha256 |-> <<>>, bcast |-> <<>>, pub |-> <<>>,
              comm |-> [q \in Players |-> <<>>]]]
  /\ hist = [p \in Players |-> [k \in Kinds |-> <<>>]]
  /\ sure = [p \in Players |-> [k \in Kinds |-> 0]]

-----------------------------------------------------------------------------
(* What the calls do.                                                      *)

Call(s) == prog[s.pc]
PrivateIO(op) == op \in {"PRIVATE_INPUT", "PRIVATE_OUTPUT"}
\* The mutant of Connection: private input and output share connection 0.
FaultyConnection(s) == 0

Connection(s) == IF PrivateIO(Call(s).op) THEN 1 ELSE 0


\* The call that began the opening which s ends: START for a STOP.
Begun(s) == IF Call(s).op = "STOP"
            THEN CHOOSE k \in 1 .. s.pc : prog[k].op = "START" /\ \A j \in k + 1 .. s.pc : prog[j].op # "START"
            ELSE s.pc
Opened(s) == [i \in 1 .. prog[Begun(s)].n |-> [id |-> <<"value", Begun(s), i>>, ok |-> TRUE]]

Create_Random_Seed == <<"seed", "unseal">>
Commit_And_Open == <<"tau", "reveal">>

\* RunOpenCheck, with or without the hash of the public inputs.
CheckRounds(aux) ==
  (IF type = "Full" THEN Create_Random_Seed \o Commit_And_Open \o <<"OK">> ELSE <<"hash">>) \o aux \o <<"reset">>

\* The mutant of RunOpenCheck: the auxiliary string is not looked at.
FaultyRunOpenCheck == CheckRounds(<<>>)

RunOpenCheck == CheckRounds(<<"aux">>)

RoundsOf(op) ==
  CASE op = "START"           -> <<"begin">>
    [] op = "STOP"            -> <<"end", "count">>
    [] op = "PRIVATE_INPUT"   -> <<"mask">>
    [] op = "PRIVATE_OUTPUT"  -> <<"begin", "end", "count">> \o RunOpenCheck
    [] op = "CHECK"           -> RunOpenCheck
    [] op = "INPUT_CLEAR"     -> <<"pub">>
    [] op = "OPEN_TO_ONE"     -> <<"one">>
    [] op = "BROADCAST"       -> <<"cast">>
    [] op = "DISTINCT"        -> <<"distinct">>
    [] op = "CHECK_BROADCAST" -> <<"same">>

\* Those whose shares p reads.
Sources(p) == IF type = "Full" THEN Players \ {p} ELSE {q \in Players : p \in OpenC[q]}

\* The mutant of Tau: the loop ends one value early.
FaultyTau(s) == [i \in 1 .. s.open_cnt - 1 |-> [id |-> s.macs[i], ok |-> s.vals[i] = [id |-> s.macs[i], ok |-> TRUE]]]

\* What every player contributes to the sum of the tau: nothing, if its values
\* are right and belong to the MACs.
Tau(s) == [i \in 1 .. s.open_cnt |-> [id |-> s.macs[i], ok |-> s.vals[i] = [id |-> s.macs[i], ok |-> TRUE]]]

Word(x) == <<[id |-> x, ok |-> TRUE]>>

\* What p says in round r.
Says(p, s, r) ==
  CASE r \in {"seed", "unseal"} -> Word(<<"seed", s.pc, p>>)
    [] r \in {"tau", "reveal"}  -> Tau(s)
    [] r = "OK"                 -> Word(<<"Y", s.pc, 0>>)
    [] r = "hash"               -> s.sha256
    [] r = "aux"                -> s.pub
    [] r = "same"               -> s.bcast
    [] r \in {"begin", "end"}   -> Opened(s)
    [] OTHER                    -> Word(<<"data", s.pc, p>>)

Mask(p, who, c, m) == IF p = who THEN send_all(p, c, m) ELSE receive_from_player(who, c, m.tag)
OpenToOne(p, who, c, m) == IF p = who THEN receive_all(p, c, m.tag) ELSE send_to_player(who, c, m)

\* The writes and reads of round r.  Only the data of a call can be large;
\* private data, which no check of these covers, has no entries.
Plan(p, s, r) ==
  LET c == Connection(s)
      n == IF r \in {"begin", "cast", "distinct"} THEN Call(s).n ELSE 1
      tag == <<IF r \in {"begin", "end"} THEN Begun(s) ELSE s.pc, IF r = "end" THEN "begin" ELSE r>>
      m == [tag |-> tag, val |-> Says(p, s, r), size |-> n]
      quiet == [m EXCEPT !.val = <<>>]
  IN  CASE r = "begin" -> IF type = "Full" THEN send_all(p, c, m)
                          ELSE ForPlayers(OpenC[p], LAMBDA q : send_to_player(q, c, m))
        [] r = "end"   -> ForPlayers(Sources(p), LAMBDA q : receive_from_player(q, c, tag))
        [] r \in {"seed", "unseal", "tau", "reveal", "OK", "cast"} -> Broadcast_Receive(p, c, m)
        [] r \in {"hash", "aux", "same"} -> send_all(p, c, m) \o receive_all(p, c, tag)
        [] r = "distinct" -> Send_Distinct_And_Receive(p, c, quiet)
        [] r = "mask"  -> Mask(p, Call(s).who, c, quiet)
        [] r = "one"   -> OpenToOne(p, Call(s).who, c, quiet)
        [] OTHER       -> <<>>

\* What p read in the round, with its own word in its place.
Heard(p, s, r) == [got[p] EXCEPT ![p] = Says(p, s, r)]
AllSay(p, s, r) == \A q \in Players : Heard(p, s, r)[q] = Says(p, s, r)

\* The mutant of Cast: what p wrote instead of what it read.
FaultyCast(p, s) == FlattenSeq([i \in 1 .. N |-> Word(<<"data", s.pc, i - 1>>)])

\* What p puts in the hash of the broadcasts, in the order of the players.
Cast(p, s) == FlattenSeq([i \in 1 .. N |-> Heard(p, s, "cast")[i - 1]])

\* An opening that is not what was committed to.
Refused(p, s, r) == r \in {"unseal", "reveal"} /\ \E q \in Players : Heard(p, s, r)[q] # s.comm[q]

\* The exception that ends round r, or "no".
Verdict(p, s, r) ==
  CASE Refused(p, s, r) -> "invalid_commitment"
    [] r = "reveal" /\ ~(AllSay(p, s, r) /\ \A e \in Range(Tau(s)) : e.ok) -> "mac_fail"
    [] r = "OK" /\ ~AllSay(p, s, r) -> "mac_fail"
    [] r \in {"hash", "same"} /\ ~AllSay(p, s, r) -> "hash_fail"
    [] r = "aux" /\ ~AllSay(p, s, r) -> "inconsistent_inputs"
    [] OTHER -> "no"

\* The values p has at the end of an opening.
Values(p, s) ==
  [i \in DOMAIN Opened(s) |->
     [Opened(s)[i] EXCEPT !.ok = \A q \in Sources(p) : i <= Len(got[p][q]) /\ got[p][q][i] = Opened(s)[i]]]

\* Rounds that come next when a check is due.
Due(s, more) == [s EXCEPT !.rounds = (IF more THEN CheckRounds(<<>>) ELSE <<>>) \o @]

Reset(s) == [s EXCEPT !.open_cnt = 0, !.rounds = Tail(@)]

\* Open_To_All_End up to the count: the values go to those the next check
\* covers.  In the Full case the ones before them are checked first if due.
End(p, s) ==
  LET vs == Values(p, s)
      c == Connection(s)
      t == [s EXCEPT !.rounds = Tail(@)]
  IN  IF type = "Full"
      THEN Due([t EXCEPT !.vals = @ \o vs, !.macs = @ \o [i \in DOMAIN vs |-> vs[i].id]], t.open_cnt > Gap)
      ELSE [t EXCEPT !.sha256 = @ \o vs, !.counter[c] = @ - Len(vs)]

\* The mutant of Count: nothing becomes due.
FaultyCount(s) == [s EXCEPT !.open_cnt = @ + Len(Opened(s)), !.rounds = Tail(@)]

Count(s) ==
  LET t == [s EXCEPT !.open_cnt = @ + Len(Opened(s)), !.rounds = Tail(@)]
  IN  Due(t, t.open_cnt > Gap /\ t.counter[Connection(s)] = 0)

\* The state of p after round r.
Effect(p, s, r) ==
  LET t == [s EXCEPT !.rounds = Tail(@)]
  IN  CASE r = "begin" -> IF type = "Full" THEN t ELSE [t EXCEPT !.counter[Connection(s)] = @ + Len(Opened(s))]
        [] r = "end"   -> End(p, s)
        [] r = "count" -> Count(s)
        [] r = "seed"  -> [t EXCEPT !.comm = Heard(p, s, r)]
        [] r = "tau"   -> [t EXCEPT !.comm = Heard(p, s, r)]
        [] r = "reveal" -> [t EXCEPT !.macs = SubSeq(@, s.open_cnt + 1, Len(@)), !.vals = SubSeq(@, s.open_cnt + 1, Len(@))]
        [] r = "hash"  -> [t EXCEPT !.sha256 = <<>>]
        [] r = "reset" -> Reset(s)
        [] r = "aux"   -> [t EXCEPT !.pub = <<>>]
        [] r = "cast"  -> [t EXCEPT !.bcast = @ \o Cast(p, s)]
        [] r = "same"  -> [t EXCEPT !.bcast = <<>>]
        [] OTHER       -> t

-----------------------------------------------------------------------------
(* The steps of a player.                                                  *)

Idle(p) == Running(p) /\ todo[p] = <<>> /\ Written(p)

\* Enter the rounds of s: the writes and reads of the first of them.
Enter(p, s) ==
  /\ st' = [st EXCEPT ![p] = s]
  /\ todo' = [todo EXCEPT ![p] = IF s.rounds = <<>> THEN <<>> ELSE Plan(p, s, Head(s.rounds))]

Begin(p) ==
  /\ Idle(p) /\ st[p].rounds = <<>> /\ st[p].pc < Len(prog)
  /\ Enter(p, [st[p] EXCEPT !.pc = @ + 1, !.rounds = RoundsOf(prog[st[p].pc + 1].op)])
  /\ UNCHANGED <<chan, got, halted, faults, prog, type, hist, sure>>

\* The entry a public input adds to the hash of Input_Output_Base; the user of
\* one player may enter something else than the others.
Update_Checker(p) ==
  /\ \E ok \in BOOLEAN :
       /\ ok \/ faults < Faults
       /\ faults' = IF ok THEN faults ELSE faults + 1
       /\ LET e == [id |-> <<"input", st[p].pc, 0>>, ok |-> ok]
          IN  /\ Enter(p, [st[p] EXCEPT !.pub = Append(@, e), !.rounds = Tail(@)])
              /\ hist' = [hist EXCEPT ![p].pub = Append(@, e)]
  /\ UNCHANGED sure

\* The check that ends is one the caller asked for.
Asked(s) == s.rounds = <<"reset">> /\ Call(s).op \in {"CHECK", "PRIVATE_OUTPUT"}

\* What p knows of its past after round r.
Record(p, s, r) ==
  /\ hist' = [hist EXCEPT ![p].opened = IF r = "end" THEN @ \o Values(p, s) ELSE @,
                          ![p].cast = IF r = "cast" THEN Append(@, Heard(p, s, r)) ELSE @]
  /\ sure' = [sure EXCEPT ![p].opened = IF r = "reset" THEN Len(hist[p].opened) ELSE @,
                          ![p].pub = IF r = "reset" /\ Asked(s) THEN Len(hist[p].pub) ELSE @,
                          ![p].cast = IF r = "same" THEN Len(hist[p].cast) ELSE @]

EndRound(p) ==
  /\ Idle(p) /\ st[p].rounds # <<>>
  /\ LET s == st[p]
         r == Head(s.rounds)
     IN  IF r = "pub" THEN Update_Checker(p) /\ UNCHANGED halted
         ELSE IF Verdict(p, s, r) # "no"
         THEN /\ halted' = [halted EXCEPT ![p] = Verdict(p, s, r)]
              /\ UNCHANGED <<todo, st, hist, sure, faults>>
         ELSE /\ Enter(p, Effect(p, s, r))
              /\ Record(p, s, r)
              /\ UNCHANGED <<halted, faults>>
  /\ UNCHANGED <<chan, got, prog, type>>

Same == UNCHANGED <<prog, type, st, hist, sure>>

Step(p) ==
  \/ Begin(p)
  \/ EndRound(p)
  \/ Send(p) /\ Same
  \/ Receive(p) /\ Same
  \/ PeerGone(p) /\ Same
  \/ WriteFails(p) /\ Same

Next == \E p \in Players : Step(p) \/ (SendWrong(p) /\ Same)

Spec == Init /\ [][Next]_vars /\ WF_vars(\E p \in Players : Step(p))
=============================================================================
