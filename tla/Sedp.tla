-------------------------------- MODULE Sedp ----------------------------------
(***************************************************************************)
(* App/: the import of private data.  Beside each player runs a Server;    *)
(* each Client connects to all of them, is given by each its shares of     *)
(* random tuples, adds them up and sends its data, masked, to all.         *)
(*                                                                         *)
(* A Server has a thread that accepts, a thread that handles the clients   *)
(* one after another and then in parallel, and is driven by the program of *)
(* its player, through Input_Output_SEDP.  A Client has, in each of its    *)
(* phases, one thread for each server, and they run one at a time under    *)
(* its mutex.                                                              *)
(***************************************************************************)
EXTENDS Integers, Sequences, FiniteSets, SequencesExt

CONSTANTS N,           \* servers 0 .. N - 1
          Clients,     \* the clients
          Id(_),       \* client_id
          Dataset(_),  \* dataset_size
          Alloc        \* the tuples the program makes

ASSUME SedpAssumption ==
  /\ N \in Nat \ {0} /\ Alloc \in Nat
  /\ IsFiniteSet(Clients) /\ \A c \in Clients : Id(c) \in Int /\ Dataset(c) \in Nat

VARIABLES srv,    \* srv[p]: the Server of player p
          mpc,    \* mpc[p]: what the program of p does next
          cl,     \* cl[c]: the Client
          down,   \* down[p][c]: what p has sent to c
          up      \* up[p][c]: what c has sent to p

vars == <<srv, mpc, cl, down, up>>

Servers == 0 .. N - 1
max_clients == Cardinality(Clients)
NoThread == N
NoClient == "none"
None == [c \in Clients |-> "none"]

Init ==
  /\ srv = [p \in Servers |->
       [state |-> "HANDSHAKE", pending |-> <<>>, accepted |-> 0, handled |-> 0, pc |-> "handle", cur |-> NoClient,
        clients |-> {}, total_data |-> 0, n |-> 0, tuples |-> 0, task |-> None, got |-> [c \in Clients |-> <<>>], data |-> <<>>]]
  /\ mpc = [p \in Servers |-> "size"]
  /\ cl = [c \in Clients |->
       [phase |-> "CONNECT", connected |-> 0, mtx |-> NoThread, todo |-> {},
        triples |-> [i \in 1 .. Dataset(c) |-> {}]]]
  /\ down = [p \in Servers |-> [c \in Clients |-> <<>>]]
  /\ up = [p \in Servers |-> [c \in Clients |-> <<>>]]

-----------------------------------------------------------------------------
(* A socket is a queue; receive_msg waits until it has all it asked for.   *)

Send(socket, messages) == socket \o messages
Has(socket, n) == Len(socket) >= n
After(socket, n) == SubSeq(socket, n + 1, Len(socket))

-----------------------------------------------------------------------------
(* The client.                                                             *)

\* connect_to_players, one server after another: the server's accept thread
\* takes the connection and puts it in pending_clients.
Connect(c) ==
  LET p == cl[c].connected
  IN  /\ cl[c].phase = "CONNECT" /\ p < N
      /\ srv[p].accepted < max_clients
      /\ srv' = [srv EXCEPT ![p].accepted = @ + 1, ![p].pending = Append(@, c)]
      /\ cl' = [cl EXCEPT ![c].connected = @ + 1]
      /\ UNCHANGED <<mpc, down, up>>

Phase == [CONNECT |-> "HANDSHAKE", HANDSHAKE |-> "RANDOMNESS", RANDOMNESS |-> "DATA", DATA |-> "FINISHED"]

\* run_protocol goes on when all threads of execute have ended.
NextPhase(c) ==
  /\ cl[c].phase # "FINISHED" /\ cl[c].todo = {}
  /\ cl[c].phase = "CONNECT" => cl[c].connected = N
  /\ cl' = [cl EXCEPT ![c].phase = Phase[@], ![c].todo = IF cl[c].phase = "DATA" THEN {} ELSE Servers]
  /\ UNCHANGED <<srv, mpc, down, up>>

\* The thread for p takes the mutex of the client: the threads were started in
\* the order of the servers, but any of them may be the first to get here.
Lock(c, p) ==
  /\ p \in cl[c].todo /\ cl[c].mtx = NoThread
  /\ cl' = [cl EXCEPT ![c].mtx = p]
  /\ UNCHANGED <<srv, mpc, down, up>>

Unlock(s, p) == [s EXCEPT !.mtx = NoThread, !.todo = @ \ {p}]

handshake(c, p) ==
  /\ cl[c].phase = "HANDSHAKE" /\ cl[c].mtx = p
  /\ Has(down[p][c], 1)
  /\ down' = [down EXCEPT ![p][c] = After(@, 1)]
  /\ up' = [up EXCEPT ![p][c] = Send(@, <<Id(c), Dataset(c)>>)]
  /\ cl' = [cl EXCEPT ![c] = Unlock(@, p)]
  /\ UNCHANGED <<srv, mpc>>

\* The shares of each tuple are added to what the other servers gave.
Add(triples, shares) == [i \in DOMAIN triples |-> triples[i] \cup {shares[i]}]

get_random_tuples(c, p) ==
  /\ cl[c].phase = "RANDOMNESS" /\ cl[c].mtx = p
  /\ Has(down[p][c], Dataset(c))
  /\ cl' = [cl EXCEPT ![c] = [Unlock(@, p) EXCEPT !.triples = Add(cl[c].triples, down[p][c])]]
  /\ down' = [down EXCEPT ![p][c] = After(@, Dataset(c))]
  /\ UNCHANGED <<srv, mpc, up>>

\* The mask of the i-th datum is the first of the i-th tuple.
Masked(c) == [i \in 1 .. Dataset(c) |-> [client |-> c, index |-> i, mask |-> cl[c].triples[i]]]

send_private_inputs(c, p) ==
  /\ cl[c].phase = "DATA" /\ cl[c].mtx = p
  /\ up' = [up EXCEPT ![p][c] = Send(@, Masked(c))]
  /\ cl' = [cl EXCEPT ![c] = Unlock(@, p)]
  /\ UNCHANGED <<srv, mpc, down>>

ClientSteps(c) ==
  \/ Connect(c)
  \/ NextPhase(c)
  \/ \E p \in Servers : Lock(c, p) \/ handshake(c, p) \/ get_random_tuples(c, p) \/ send_private_inputs(c, p)

-----------------------------------------------------------------------------
(* The thread of the server that handles the clients.                      *)

Handler(p, pc) == srv[p].pc = pc
OnlyServer == UNCHANGED <<mpc, cl>>

\* The next client of pending_clients: handshake says who the server is ...
Greet(p) ==
  /\ Handler(p, "handle") /\ srv[p].handled < max_clients /\ srv[p].pending # <<>>
  /\ LET c == Head(srv[p].pending)
     IN  /\ srv' = [srv EXCEPT ![p].pending = Tail(@), ![p].cur = c, ![p].pc = "reply"]
         /\ down' = [down EXCEPT ![p][c] = Send(@, <<<<p, 0>>>>)]
  /\ UNCHANGED up /\ OnlyServer

\* The mutant of Register: clients is a list in the order they came.
FaultyRegister(s, id, size, c) ==
  [s EXCEPT !.clients = @ \cup {[key |-> <<Cardinality(s.clients), size>>, ssl |-> c]}, !.total_data = @ + size]

\* The client is put in the map under its key, unless the key is there, and
\* its data are counted.
Register(s, id, size, c) ==
  [s EXCEPT !.clients = IF \E e \in @ : e.key = <<id, size>> THEN @ ELSE @ \cup {[key |-> <<id, size>>, ssl |-> c]},
            !.total_data = @ + size]

\* ... and waits for who the client is.
Register_Client(p) ==
  LET c == srv[p].cur
  IN  /\ Handler(p, "reply") /\ Has(up[p][c], 2)
      /\ LET s == [srv[p] EXCEPT !.handled = @ + 1, !.cur = NoClient, !.pc = "handle"]
         IN  srv' = [srv EXCEPT ![p] = Register(s, up[p][c][1], up[p][c][2], c)]
      /\ up' = [up EXCEPT ![p][c] = After(@, 2)]
      /\ UNCHANGED down /\ OnlyServer

AllHandled(p) ==
  /\ Handler(p, "handle") /\ srv[p].handled = max_clients
  /\ srv' = [srv EXCEPT ![p].state = "RANDOMNESS", ![p].pc = "wait"]
  /\ UNCHANGED <<down, up>> /\ OnlyServer

KeyLess(d, e) == d.key[1] < e.key[1] \/ (d.key[1] = e.key[1] /\ d.key[2] < e.key[2])

\* The map, in the order of its keys.
InMapOrder(clients) ==
  [k \in 1 .. Cardinality(clients) |->
     CHOOSE e \in clients : Cardinality({d \in clients : KeyLess(d, e)}) = k - 1]

\* The first tuple of the k-th client of the map.
StartOf(clients, k) ==
  LET start[j \in 1 .. k] == IF j = 1 THEN 0 ELSE start[j - 1] + InMapOrder(clients)[j - 1].key[2]
  IN  start[k]

Served(p) == Handler(p, "wait") /\ srv[p].state = "DATA"

\* One task for each client of the map.
StartTasks(p) ==
  /\ Served(p)
  /\ srv' = [srv EXCEPT ![p].pc = "collect",
                        ![p].task = [c \in Clients |-> IF \E e \in srv[p].clients : e.ssl = c THEN "send" ELSE "none"]]
  /\ UNCHANGED <<down, up>> /\ OnlyServer

Place(clients, c) == CHOOSE k \in 1 .. Cardinality(clients) : InMapOrder(clients)[k].ssl = c

\* The tuples of a client: those after the ones of the clients before it.
Slots(clients, c) ==
  LET k == Place(clients, c)
  IN  [i \in 1 .. InMapOrder(clients)[k].key[2] |-> StartOf(clients, k) + i]

\* random_triples.at throws when there are not enough.
send_random_triples(p, c) ==
  LET slots == Slots(srv[p].clients, c)
  IN  /\ srv[p].task[c] = "send"
      /\ IF \E i \in DOMAIN slots : slots[i] > srv[p].tuples
         THEN srv' = [srv EXCEPT ![p].pc = "out_of_range", ![p].task[c] = "none"] /\ UNCHANGED down
         ELSE /\ srv' = [srv EXCEPT ![p].task[c] = "receive"]
              /\ down' = [down EXCEPT ![p][c] = Send(@, [i \in DOMAIN slots |-> <<p, slots[i]>>])]
      /\ UNCHANGED up /\ OnlyServer

get_private_inputs(p, c) ==
  LET size == Len(Slots(srv[p].clients, c))
  IN  /\ srv[p].task[c] = "receive" /\ Has(up[p][c], size)
      /\ srv' = [srv EXCEPT ![p].task[c] = "done", ![p].got[c] = SubSeq(up[p][c], 1, size)]
      /\ up' = [up EXCEPT ![p][c] = After(@, size)]
      /\ UNCHANGED down /\ OnlyServer

\* The mutant of Collected: the results in the order they come.
FaultyCollected(clients, got) ==
  LET map == InMapOrder(clients) IN FlattenSeq([k \in DOMAIN map |-> got[map[Len(map) + 1 - k].ssl]])

\* The results are taken in the order of the map.
Collected(clients, got) ==
  LET map == InMapOrder(clients) IN FlattenSeq([k \in DOMAIN map |-> got[map[k].ssl]])

Collect(p) ==
  /\ Handler(p, "collect") /\ \A c \in Clients : srv[p].task[c] \in {"none", "done"}
  /\ srv' = [srv EXCEPT ![p].data = Collected(srv[p].clients, srv[p].got), ![p].state = "FINISHED", ![p].pc = "end"]
  /\ UNCHANGED <<down, up>> /\ OnlyServer

ServerSteps(p) ==
  \/ Greet(p) \/ Register_Client(p) \/ AllHandled(p) \/ StartTasks(p) \/ Collect(p)
  \/ \E c \in Clients : send_random_triples(p, c) \/ get_private_inputs(p, c)

-----------------------------------------------------------------------------
(* The program of player p, by the channels of Input_Output_SEDP.          *)

OnlyProgram == UNCHANGED <<cl, down, up>>

\* Channel 1: how many data there will be.
get_data_size(p) ==
  /\ mpc[p] = "size" /\ srv[p].state = "RANDOMNESS"
  /\ mpc' = [mpc EXCEPT ![p] = "construct"]
  /\ srv' = [srv EXCEPT ![p].n = srv[p].total_data]
  /\ OnlyProgram

\* The mutant of construct_random_tuples: a tuple takes ten values.
FaultyConstruct_random_tuples(p) ==
  /\ mpc[p] = "construct"
  /\ srv' = [srv EXCEPT ![p].tuples = Alloc \div 2, ![p].state = "DATA"]
  /\ mpc' = [mpc EXCEPT ![p] = "data"]
  /\ OnlyProgram

\* Channels 2 and 3: all tuples are made and put into service.
construct_random_tuples(p) ==
  /\ mpc[p] = "construct"
  /\ srv' = [srv EXCEPT ![p].tuples = Alloc, ![p].state = "DATA"]
  /\ mpc' = [mpc EXCEPT ![p] = "data"]
  /\ OnlyProgram

\* Channel 4, and then one datum after another is taken.
get_data(p) ==
  /\ mpc[p] = "data" /\ srv[p].state = "FINISHED"
  /\ mpc' = [mpc EXCEPT ![p] = IF Len(srv[p].data) < srv[p].n THEN "out_of_range" ELSE "computing"]
  /\ UNCHANGED srv /\ OnlyProgram

ProgramSteps(p) == get_data_size(p) \/ construct_random_tuples(p) \/ get_data(p)

Next == (\E c \in Clients : ClientSteps(c)) \/ (\E p \in Servers : ServerSteps(p) \/ ProgramSteps(p))

\* Every thread that can go on does.
Spec == Init /\ [][Next]_vars /\ WF_vars(Next)
=============================================================================
