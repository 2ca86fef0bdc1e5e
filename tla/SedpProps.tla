------------------------------ MODULE SedpProps -------------------------------
(***************************************************************************)
(* What the import of private data promises, if no two clients have the    *)
(* same number.                                                            *)
(***************************************************************************)
EXTENDS Sedp

Tuple(c, i) == cl[c].triples[i]
SlotOf(c, i) == {x[2] : x \in Tuple(c, i)}

(* What a client adds up is one share from each server of one and the same *)
(* tuple, though each server has met the clients in an order of its own;   *)
(* and no two data are masked by the same tuple.                           *)
TuplesWhole ==
  \A c \in Clients : cl[c].phase \in {"DATA", "FINISHED"} =>
    \A i \in DOMAIN cl[c].triples :
      /\ {x[1] : x \in Tuple(c, i)} = Servers
      /\ Cardinality(SlotOf(c, i)) = 1
      /\ \A d \in Clients : \A j \in DOMAIN cl[d].triples : SlotOf(c, i) \cap SlotOf(d, j) # {} => c = d /\ i = j

(* All players import the same data, and the k-th of them is masked by the *)
(* k-th tuple of their program, which is how the program unmasks them.     *)
DataMatchTuples ==
  \A p, q \in Servers : srv[p].state = "FINISHED" =>
    /\ srv[q].state = "FINISHED" => srv[q].data = srv[p].data
    /\ \A k \in DOMAIN srv[p].data : srv[p].data[k].mask = {<<r, k>> : r \in Servers}

(* The program finds as many data as it was told there are.                *)
NothingMissing == \A p \in Servers : mpc[p] # "out_of_range" /\ srv[p].pc # "out_of_range"

(* From the handshakes to the program, all servers give and read their     *)
(* tuples in one order, which none of them has told another.               *)
TuplesAgree == TuplesWhole /\ DataMatchTuples /\ NothingMissing

Imported == (\A p \in Servers : mpc[p] = "computing") /\ \A c \in Clients : cl[c].phase = "FINISHED"

(* All data are imported: "wait for all calls to finish", as execute says  *)
(* of the threads of a client.  The code does not see to it, for these may *)
(* take the mutex of their client in any order: see the README.            *)
AllImported == <>Imported

-----------------------------------------------------------------------------
(* The inductive invariant of the proofs.                                  *)

\* The data of the clients of S, and how many all have.
DataOf(S) == UNION {{c} \X (1 .. Dataset(c)) : c \in S}
Total == Cardinality(DataOf(Clients))

\* Who is before c in the map, and the tuple of its i-th datum.
Below(c) == {d \in Clients : Id(d) < Id(c)}
First(c) == Cardinality(DataOf(Below(c)))
Slot(c, i) == First(c) + i

\* What the proofs suppose: no two clients have the same number, and the
\* program makes a tuple for each datum.
Distinct == \A c, d \in Clients : Id(c) = Id(d) => c = d
Enough == Alloc >= Total

\* The entry of a client in the map of a server (Server.h:57), and all of them.
E(c) == [key |-> <<Id(c), Dataset(c)>>, ssl |-> c]
All == {E(c) : c \in Clients}

\* What c sends when it has added up the shares of all servers, and what all
\* servers make of what all clients sent: at n, the datum whose tuple is n.
FullMask(c) == [i \in 1 .. Dataset(c) |-> [client |-> c, index |-> i, mask |-> {<<q, Slot(c, i)>> : q \in Servers}]]

Datum(n) ==
  LET x == CHOOSE x \in DataOf(Clients) : Slot(x[1], x[2]) = n
  IN  FullMask(x[1])[x[2]]

TheData == [n \in 1 .. Total |-> Datum(n)]

\* What a server may have got from a client, and what a client has when it has
\* added the shares of the servers of R.
Values == {<<>>} \cup {FullMask(c) : c \in Clients}
Shares(c, R) == [i \in 1 .. Dataset(c) |-> {<<q, Slot(c, i)>> : q \in R}]

ServerType ==
  [state : {"HANDSHAKE", "RANDOMNESS", "DATA", "FINISHED"}, pending : Seq(Clients), accepted : Nat, handled : Nat,
   pc : {"handle", "reply", "wait", "collect", "end", "out_of_range"}, cur : Clients \cup {NoClient},
   clients : SUBSET All, total_data : Nat, n : Nat, tuples : Nat,
   task : [Clients -> {"none", "send", "receive", "done"}], got : [Clients -> Values], data : {<<>>, TheData}]

ClientType ==
  [phase : {"CONNECT", "HANDSHAKE", "RANDOMNESS", "DATA", "FINISHED"}, connected : 0 .. N, mtx : 0 .. N,
   todo : SUBSET Servers, triples : {Shares(c, R) : c \in Clients, R \in SUBSET Servers}]

TypeOK ==
  /\ srv \in [Servers -> ServerType]
  /\ mpc \in [Servers -> {"size", "construct", "data", "computing", "out_of_range"}]
  /\ cl \in [Clients -> ClientType]
  /\ DOMAIN down = Servers /\ \A p \in Servers : DOMAIN down[p] = Clients
  /\ DOMAIN up = Servers /\ \A p \in Servers : DOMAIN up[p] = Clients

\* What c has done with p: told who it is, taken its tuples, sent its data.
Told(c, p) == cl[c].phase \in {"RANDOMNESS", "DATA", "FINISHED"} \/ (cl[c].phase = "HANDSHAKE" /\ p \notin cl[c].todo)
Took(c, p) == cl[c].phase \in {"DATA", "FINISHED"} \/ (cl[c].phase = "RANDOMNESS" /\ p \notin cl[c].todo)
Gave(c, p) == cl[c].phase = "FINISHED" \/ (cl[c].phase = "DATA" /\ p \notin cl[c].todo)

\* What p has done with c.
Waits(p, c) == \E i \in 1 .. Len(srv[p].pending) : srv[p].pending[i] = c
Current(p, c) == srv[p].pc = "reply" /\ srv[p].cur = c
Registered(p, c) == E(c) \in srv[p].clients
Greeted(p, c) == Registered(p, c) \/ Current(p, c)
Task(p, c) == srv[p].task[c]

\* What lies on the socket from p to c, and from c to p.
DownOf(p, c) ==
  IF Greeted(p, c) /\ ~Told(c, p) THEN <<<<p, 0>>>>
  ELSE IF Task(p, c) \in {"receive", "done"} /\ ~Took(c, p) THEN [i \in 1 .. Dataset(c) |-> <<p, Slot(c, i)>>]
  ELSE <<>>

UpOf(p, c) ==
  IF Told(c, p) /\ ~Registered(p, c) THEN <<Id(c), Dataset(c)>>
  ELSE IF Gave(c, p) /\ Task(p, c) # "done" THEN FullMask(c)
  ELSE <<>>

\* A server and a client are at most one message apart.
PairInv(p, c) ==
  /\ Waits(p, c) => ~Greeted(p, c)
  /\ Waits(p, c) \/ Greeted(p, c) => p < cl[c].connected
  /\ Current(p, c) => ~Registered(p, c)
  /\ Told(c, p) => Greeted(p, c)
  /\ Registered(p, c) => Told(c, p)
  /\ Task(p, c) # "none" => Registered(p, c)
  /\ Took(c, p) /\ Dataset(c) # 0 => Task(p, c) \in {"receive", "done"}
  /\ Task(p, c) = "done" /\ Dataset(c) # 0 => Gave(c, p)
  /\ Task(p, c) = "done" => srv[p].got[c] = FullMask(c)
  /\ down[p][c] = DownOf(p, c)
  /\ up[p][c] = UpOf(p, c)

\* One thread of a client runs, one that is not done; the shares added are
\* those of the servers whose thread is.
ClientInv(c) ==
  /\ cl[c].mtx # NoThread => cl[c].mtx \in cl[c].todo
  /\ cl[c].triples = Shares(c, {q \in Servers : Took(c, q)})

\* The handler meets the clients until it has met all; then it knows them all,
\* and gives them tuples when the program has made as many as there are data.
Early == {"handle", "reply"}

ServerInv(p) ==
  LET s == srv[p]
  IN  /\ \A i, j \in 1 .. Len(s.pending) : s.pending[i] = s.pending[j] => i = j
      /\ s.handled = Cardinality(s.clients)
      /\ s.total_data = Cardinality(DataOf({c \in Clients : Registered(p, c)}))
      /\ s.pc = "reply" => s.cur \in Clients
      /\ s.pc \notin Early => s.clients = All
      /\ s.pc # "out_of_range"
      /\ s.state = "HANDSHAKE" <=> s.pc \in Early
      /\ s.state = "FINISHED" <=> s.pc = "end"
      /\ s.pc = "collect" => s.state = "DATA"
      /\ IF s.pc \in {"collect", "end"} THEN \A c \in Clients : s.task[c] # "none" ELSE \A c \in Clients : s.task[c] = "none"
      /\ s.state \in {"DATA", "FINISHED"} => s.tuples = Alloc
      /\ s.state = "FINISHED" => s.data = TheData

\* The program asks, makes tuples and takes the data, each when its server is
\* ready for it.
ProgramInv(p) ==
  /\ mpc[p] # "out_of_range"
  /\ mpc[p] = "size" => srv[p].state \in {"HANDSHAKE", "RANDOMNESS"}
  /\ mpc[p] = "construct" => srv[p].state = "RANDOMNESS"
  /\ mpc[p] \in {"data", "computing"} => srv[p].state \in {"DATA", "FINISHED"}
  /\ mpc[p] # "size" => srv[p].n = Total

\* Nothing relates two servers, nor two clients: what they agree on follows.
IInv ==
  /\ TypeOK
  /\ \A c \in Clients : ClientInv(c)
  /\ \A p \in Servers : ServerInv(p) /\ ProgramInv(p)
  /\ \A p \in Servers : \A c \in Clients : PairInv(p, c)
=============================================================================
