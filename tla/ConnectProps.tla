----------------------------- MODULE ConnectProps -----------------------------
(***************************************************************************)
(* What a system that comes up can rely on.                                *)
(***************************************************************************)
EXTENDS Connect

(* What a thread takes for its connection to the same thread of another    *)
(* player is that, and not one of another thread or number: messages of    *)
(* two threads would be mixed, which no certificate would show.            *)
SocketsPaired ==
  \A p, q \in Players, t \in Threads, c \in Pair :
    /\ p # q => csockets[p][t][q][c] \in {NoSocket, csockets[q][t][p][c]} \/ csockets[q][t][p][c] = NoSocket
    /\ p = q => csockets[p][t][q][c] = NoSocket

(* A player that starts its threads has all its connections, though it has *)
(* only counted those it accepted.                                         *)
AllThere ==
  \A p \in Players : pc[p] = "threads" =>
    \A q \in Players \ {p}, t \in Threads, c \in Pair : csockets[p][t][q][c] # NoSocket

(* The threads have just the roles the counts ask for: each phase of each  *)
(* online thread, each factory and the OT thread is run by one thread.     *)
RolesRight ==
  LET Roles == {Role(thread_num(i)) : i \in Threads}
  IN  Roles = ({Phases[n] : n \in 1 .. 5} \X (0 .. system.online - 1)) \cup ({"factory"} \X (0 .. system.fhe - 1))
              \cup (IF system.ot = 1 THEN {<<"OT", 0>>} ELSE {})

(* A thread that starts talks to the thread of its own number and role at  *)
(* every other player, on two connections of its own.                      *)
ThreadsMeet == SocketsPaired /\ AllThere /\ RolesRight

(* All players come up, whichever is started first and however the         *)
(* handshakes of their threads meet.                                       *)
AllUp == <>Up

-----------------------------------------------------------------------------
(* The inductive invariant behind ThreadsMeet, proved in ConnectProofs.    *)

Points == {"listen", "accept", "receive", "connect", "identify", "threads", "thrown"}
All == Players \X Players \X Threads \X Pair

TypeOK ==
  /\ system \in Systems
  /\ pc \in [Players -> Points]
  /\ loop \in [Players -> [i : 0 .. N, j : Threads, k : Pair]]
  /\ backlog \in [Players -> Seq(All)]
  /\ accepted \in [Players -> {NoSocket} \cup All]
  /\ csockets \in [Players -> Sockets]

\* What the main thread does is what its loop over the players is at.
LoopsOK ==
  \A p \in Players :
    /\ loop[p].i # p
    /\ pc[p] \in {"accept", "receive"} => loop[p].i < p
    /\ pc[p] \in {"connect", "identify"} => p < loop[p].i /\ loop[p].i < N
    /\ pc[p] \in {"threads", "thrown"} => loop[p].i = N
    /\ pc[p] = "listen" => loop[p] = At(IF p = 0 THEN 1 ELSE 0, 0, 0)

\* p has opened the connection for q, t and c.
Opened(p, q, t, c) ==
  \/ q < loop[p].i
  \/ /\ q = loop[p].i
     /\ \/ t < loop[p].j
        \/ t = loop[p].j /\ (c < loop[p].k \/ (c = loop[p].k /\ pc[p] = "identify"))

\* Whoever opens a connection has it in its place, at once.
ClientsOK ==
  \A p, q \in Players, t \in Threads, c \in Pair : p < q =>
    csockets[p][t][q][c] = IF Opened(p, q, t, c) THEN <<p, q, t, c>> ELSE NoSocket

\* Whoever accepts one gets it into its place some time later.
ServersOK ==
  \A p, q \in Players, t \in Threads, c \in Pair :
    /\ q < p => \/ csockets[p][t][q][c] = NoSocket
                \/ Opened(q, p, t, c) /\ csockets[p][t][q][c] = <<q, p, t, c>>
    /\ p = q => csockets[p][t][q][c] = NoSocket

ToldOK == \A m \in told : m[1] \in All /\ m[2] = [p |-> m[1][1], t |-> m[1][3], c |-> m[1][4]]

\* s was made for p, and p has yet to put it into its place.
Underway(p, s) ==
  /\ s[1] < p /\ s[2] = p /\ Opened(s[1], p, s[3], s[4])
  /\ csockets[p][s[3]][s[1]][s[4]] = NoSocket

BacklogsOK ==
  \A p \in Players :
    /\ pc[p] = "receive" => accepted[p] \in All /\ Underway(p, accepted[p])
    /\ \A m \in DOMAIN backlog[p] :
         /\ Underway(p, backlog[p][m])
         /\ pc[p] = "receive" => backlog[p][m] # accepted[p]
         /\ \A n \in DOMAIN backlog[p] : backlog[p][m] = backlog[p][n] => m = n

\* As many connections have been put into their places as were counted,
\* whichever they are.
Places(p) == (0 .. p - 1) \X (Threads \X Pair)
Sorted(p) == {x \in Places(p) : csockets[p][x[2][1]][x[1]][x[2][2]] # NoSocket}
Counted(p) ==
  IF loop[p].i < p THEN 2 * (tnthreads * loop[p].i + loop[p].j) + loop[p].k
  ELSE 2 * (tnthreads * p)
CountsOK == \A p \in Players : Cardinality(Sorted(p)) = Counted(p)

IInv == LoopsOK /\ ClientsOK /\ ServersOK /\ ToldOK /\ BacklogsOK /\ CountsOK

\* What the numbering of the threads needs: not too many of them, and not
\* factories and the OT thread both (see the README).
Numbered == \A s \in Systems : s.online <= 2000 /\ s.fhe <= 10000 /\ (s.fhe = 0 \/ s.ot = 0)
=============================================================================
