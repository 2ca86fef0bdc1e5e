------------------------------- MODULE Connect --------------------------------
(***************************************************************************)
(* How a system comes up.  Run_Scale counts the threads it is going to     *)
(* have; Get_Connections makes two TCP connections to every other player   *)
(* for each of them, a player connecting to those after it and accepting   *)
(* from those before it; the threads are made; and each secures its own    *)
(* connections, in the constructor of Player, before it takes up its role. *)
(***************************************************************************)
EXTENDS Naturals, Sequences, FiniteSets

CONSTANTS N,      \* players 0 .. N - 1
          Systems, \* the counts [online, fhe, ot] of threads to come up with
          Waiting  \* bound: connections to a player that it has not accepted

ASSUME ConnectAssumption ==
  /\ N \in Nat \ {0} /\ Waiting \in Nat \ {0}
  /\ \A s \in Systems : s.online \in Nat \ {0} /\ s.fhe \in Nat /\ s.ot \in {0, 1}

VARIABLES system,   \* the counts, the same for all players
          pc,       \* pc[p]: what the main thread of p does next
          loop,     \* loop[p]: its loop variables i, j and k
          backlog,  \* backlog[p]: connections to p that it has not accepted
          accepted, \* accepted[p]: the one it has accepted last
          told,     \* told[s]: what the client has sent on connection s
          csockets, \* csockets[p]: the connection for a thread, a player and a number
          watched,  \* once there is one, the thread followed through the securing of its connections
          at,       \* at[p]: how many of them it has secured
          tls       \* tls[s]: how far the handshake on s is

vars == <<system, pc, loop, backlog, accepted, told, csockets, watched, at, tls>>

Players == 0 .. N - 1
Pair == 0 .. 1

\* Run_Scale: 5 threads for an online thread, the factories, the OT thread.
nthreads == 5 * system.online
tnthreads == nthreads + system.fhe + system.ot
Threads == 0 .. tnthreads - 1

\* The mutant of thread_num: factories are numbered with the threads before.
FaultyThread_num(i) ==
  IF i < nthreads THEN i
  ELSE IF i < tnthreads + system.fhe - 1 THEN 10000 + i
  ELSE 20000

\* The second bound is nthreads + 2 * fhe + ot - 1, and not nthreads + fhe.
thread_num(i) ==
  IF i < nthreads THEN i
  ELSE IF i < tnthreads + system.fhe - 1 THEN 10000 + (i - nthreads)
  ELSE 20000

Phases == <<"mult", "square", "bit", "sacrifice", "online">>

\* Main_Func.
Role(num) ==
  IF num < 10000 THEN <<Phases[(num % 5) + 1], num \div 5>>
  ELSE IF num < 20000 THEN <<"factory", num - 10000>>
  ELSE <<IF system.ot = 1 THEN "OT" ELSE "none", 0>>

NoSocket == <<>>
Sockets == [Threads -> [Players -> [Pair -> {NoSocket} \cup (Players \X Players \X Threads \X Pair)]]]

At(i, j, k) == [i |-> i, j |-> j, k |-> k]

Init ==
  /\ system \in Systems
  /\ pc = [p \in Players |-> "listen"]
  /\ loop = [p \in Players |-> At(IF p = 0 THEN 1 ELSE 0, 0, 0)]
  /\ backlog = [p \in Players |-> <<>>]
  /\ accepted = [p \in Players |-> NoSocket]
  /\ told = {}
  /\ csockets = [p \in Players |-> [t \in Threads |-> [q \in Players |-> [c \in Pair |-> NoSocket]]]]
  /\ watched = tnthreads
  /\ at = [p \in Players |-> 0]
  /\ tls = [s \in {} |-> ""]

-----------------------------------------------------------------------------
(* Get_Connections.                                                        *)

Turn(p, i) == IF i = N THEN "threads" ELSE IF i < p THEN "accept" ELSE "connect"

\* The player after the i-th, which is not p itself.
After(p, i) == IF i + 1 = p THEN i + 2 ELSE i + 1

\* The mutant of Goes_On: one connection for each thread.
FaultyGoes_On(p) ==
  LET l == loop[p]
  IN  /\ loop' = [loop EXCEPT ![p] = IF l.j + 1 < tnthreads THEN At(l.i, l.j + 1, 0) ELSE At(After(p, l.i), 0, 0)]
      /\ pc' = [pc EXCEPT ![p] = Turn(p, loop'[p].i)]

\* The three loops: over the other players, the threads, the two connections.
Goes_On(p) ==
  LET l == loop[p]
  IN  /\ loop' = [loop EXCEPT ![p] =
              IF l.k = 0 THEN At(l.i, l.j, 1)
              ELSE IF l.j + 1 < tnthreads THEN At(l.i, l.j + 1, 0)
              ELSE At(After(p, l.i), 0, 0)]
      /\ pc' = [pc EXCEPT ![p] = Turn(p, loop'[p].i)]

OpenListener(p) ==
  /\ pc[p] = "listen"
  /\ pc' = [pc EXCEPT ![p] = Turn(p, loop[p].i)]
  /\ UNCHANGED <<system, loop, backlog, accepted, told, csockets, watched, at, tls>>

Put(p, t, q, c, s) == csockets' = [csockets EXCEPT ![p][t][q][c] = s]

\* connect is refused, and tried again, until the other player listens.
OpenConnection(p) ==
  LET l == loop[p]
      s == <<p, l.i, l.j, l.k>>
  IN  /\ pc[p] = "connect" /\ pc[l.i] # "listen" /\ Len(backlog[l.i]) < Waiting
      /\ backlog' = [backlog EXCEPT ![l.i] = Append(@, s)]
      /\ Put(p, l.j, l.i, l.k, s)
      /\ pc' = [pc EXCEPT ![p] = "identify"]
      /\ UNCHANGED <<system, loop, accepted, told, watched, at, tls>>

\* "Send my number, my thread number and my connection".
Identify(p) ==
  LET l == loop[p]
  IN  /\ pc[p] = "identify"
      /\ told' = told \cup {<<csockets[p][l.j][l.i][l.k], [p |-> p, t |-> l.j, c |-> l.k]>>}
      /\ Goes_On(p)
      /\ UNCHANGED <<system, backlog, accepted, csockets, watched, at, tls>>

Accept(p) ==
  /\ pc[p] = "accept" /\ backlog[p] # <<>>
  /\ accepted' = [accepted EXCEPT ![p] = Head(backlog[p])]
  /\ backlog' = [backlog EXCEPT ![p] = Tail(@)]
  /\ pc' = [pc EXCEPT ![p] = "receive"]
  /\ UNCHANGED <<system, loop, told, csockets, watched, at, tls>>

\* The mutant of Receive: the connection is put where the loop is.
FaultyReceive(p) ==
  /\ pc[p] = "receive"
  /\ \E m \in told : m[1] = accepted[p]
  /\ Put(p, loop[p].j, loop[p].i, loop[p].k, accepted[p])
  /\ Goes_On(p)
  /\ UNCHANGED <<system, backlog, accepted, told, watched, at, tls>>

\* "even though we dont know i is correct": it is put where the client says.
Receive(p) ==
  /\ pc[p] = "receive"
  /\ \E m \in told : m[1] = accepted[p] /\ Put(p, m[2].t, m[2].p, m[2].c, accepted[p])
  /\ Goes_On(p)
  /\ UNCHANGED <<system, backlog, accepted, told, watched, at, tls>>

-----------------------------------------------------------------------------
(* The constructor of Player, in the watched thread.                       *)

\* The player whose connection comes next.
Other(p) == LET n == at[p] \div 2 IN IF n < p THEN n ELSE n + 1

Securing(p) == pc[p] = "threads" /\ watched \in Threads /\ at[p] < 2 * (N - 1)
Socket(p) == csockets[p][watched][Other(p)][at[p] % 2]

\* The mutant of WrongName: a client is expected to have the name of the server.
FaultyWrongName(p) == Socket(p)[1] # p

\* The certificate names another player than was expected.
WrongName(p) == Socket(p)[1] # p /\ Socket(p)[1] # Other(p)

Shake(p, from, to) ==
  /\ Socket(p) # NoSocket
  /\ (IF Socket(p) \in DOMAIN tls THEN tls[Socket(p)] ELSE "none") = from
  /\ tls' = [s \in DOMAIN tls \cup {Socket(p)} |-> IF s = Socket(p) THEN to ELSE tls[s]]

Done(p) ==
  IF WrongName(p) THEN pc' = [pc EXCEPT ![p] = "thrown"] /\ UNCHANGED at
  ELSE at' = [at EXCEPT ![p] = @ + 1] /\ UNCHANGED pc

OnlyTLS == UNCHANGED <<system, loop, backlog, accepted, told, csockets, watched>>

\* Threads do not meet: any of them will do to see how they fare.
Watch ==
  /\ watched = tnthreads /\ \E p \in Players : pc[p] = "threads"
  /\ watched' \in Threads
  /\ UNCHANGED <<system, pc, loop, backlog, accepted, told, csockets, at, tls>>

SSL_connect(p) ==
  /\ Securing(p) /\ Other(p) > p
  /\ \/ Shake(p, "none", "hello") /\ UNCHANGED <<at, pc>>
     \/ Shake(p, "reply", "done") /\ Done(p)
  /\ OnlyTLS

\* The server has done when it has the last message of the client.
SSL_accept(p) ==
  /\ Securing(p) /\ Other(p) < p
  /\ \/ Shake(p, "hello", "reply") /\ UNCHANGED <<at, pc>>
     \/ Shake(p, "done", "done") /\ Done(p)
  /\ OnlyTLS

Up == \A p \in Players : pc[p] = "threads" /\ at[p] = 2 * (N - 1)

Next ==
  \/ Watch
  \/ \E p \in Players :
       \/ OpenListener(p) \/ OpenConnection(p) \/ Identify(p) \/ Accept(p) \/ Receive(p)
       \/ SSL_connect(p) \/ SSL_accept(p)
  \/ (Up \/ \E p \in Players : pc[p] = "thrown") /\ UNCHANGED vars

\* Every thread that can go on does.
Spec == Init /\ [][Next]_vars /\ WF_vars(Next)
=============================================================================
