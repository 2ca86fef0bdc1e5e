---------------------------- MODULE ConnectProofs -----------------------------
(***************************************************************************)
(* Proofs about the connections, for every number of players and every     *)
(* count of threads.                                                       *)
(***************************************************************************)
EXTENDS ConnectProps, Integers, FiniteSetTheorems, TLAPS

-----------------------------------------------------------------------------
(* Constants, and what no step changes.                                    *)

\* There is a thread, and the threads are those counted.
LEMMA NumbersAt ==
  ASSUME system \in Systems
  PROVE  /\ N \in Nat /\ N >= 1 /\ Players = 0 .. N - 1 /\ Pair = {0, 1}
         /\ system.online \in Nat /\ system.fhe \in Nat /\ system.ot \in {0, 1}
         /\ tnthreads \in Nat /\ tnthreads >= 1
         /\ \A t : t \in Threads <=> t \in Nat /\ t < tnthreads
<1>1. /\ system.online \in Nat /\ system.online >= 1
      /\ system.fhe \in Nat /\ system.ot \in {0, 1}
  BY ConnectAssumption
<1>2. tnthreads \in Nat /\ tnthreads >= 1
  BY <1>1 DEF tnthreads, nthreads
<1> QED
  BY <1>1, <1>2, ConnectAssumption DEF Players, Pair, Threads

\* In every state of the right types.
LEMMA Numbers ==
  ASSUME TypeOK
  PROVE  /\ N \in Nat /\ N >= 1 /\ Players = 0 .. N - 1 /\ Pair = {0, 1}
         /\ system.online \in Nat /\ system.fhe \in Nat /\ system.ot \in {0, 1}
         /\ tnthreads \in Nat /\ tnthreads >= 1
         /\ \A t : t \in Threads <=> t \in Nat /\ t < tnthreads
BY NumbersAt DEF TypeOK

\* The counts of threads are those of the start.
LEMMA SystemStays ==
  ASSUME [Next]_vars
  PROVE  /\ system' = system /\ nthreads' = nthreads /\ tnthreads' = tnthreads
         /\ Threads' = Threads /\ Sockets' = Sockets /\ All' = All
<1>1. system' = system
  BY DEF Next, vars, Watch, OpenListener, OpenConnection, Identify, Accept, Receive,
         SSL_connect, SSL_accept, OnlyTLS
<1>2. nthreads' = nthreads /\ tnthreads' = tnthreads
  BY <1>1 DEF nthreads, tnthreads
<1>3. Threads' = Threads
  BY <1>2 DEF Threads
<1> QED
  BY <1>1, <1>2, <1>3 DEF Sockets, All

\* What the table of the connections holds after one was put into it.
LEMMA PutAt ==
  ASSUME csockets \in [Players -> Sockets], NEW p \in Players, NEW t \in Threads,
         NEW q \in Players, NEW c \in Pair, NEW s \in {NoSocket} \cup All,
         Put(p, t, q, c, s)
  PROVE  /\ csockets' \in [Players -> Sockets]
         /\ csockets'[p][t][q][c] = s
         /\ \A p2, q2 \in Players, t2 \in Threads, c2 \in Pair :
              <<p2, t2, q2, c2>> # <<p, t, q, c>>
                => csockets'[p2][t2][q2][c2] = csockets[p2][t2][q2][c2]
<1> DEFINE Row == [Players -> [Pair -> {NoSocket} \cup All]]
           new == [csockets[p] EXCEPT ![t][q][c] = s]
<1>1. csockets[p] \in [Threads -> Row] /\ Sockets = [Threads -> Row]
  BY DEF Sockets, All
<1>2. csockets' = [csockets EXCEPT ![p] = new]
  BY DEF Put
<1>3. new = [csockets[p] EXCEPT ![t] = [csockets[p][t] EXCEPT ![q][c] = s]]
  OBVIOUS
<1> DEFINE row == [csockets[p][t] EXCEPT ![q][c] = s]
<1>4. csockets[p][t] \in Row
  BY <1>1
<1>5. row = [csockets[p][t] EXCEPT ![q] = [csockets[p][t][q] EXCEPT ![c] = s]]
  OBVIOUS
<1> DEFINE two == [csockets[p][t][q] EXCEPT ![c] = s]
<1>6. csockets[p][t][q] \in [Pair -> {NoSocket} \cup All]
  BY <1>4
<1>7. /\ two \in [Pair -> {NoSocket} \cup All] /\ two[c] = s
      /\ \A c2 \in Pair : c2 # c => two[c2] = csockets[p][t][q][c2]
  BY <1>6
<1> HIDE DEF two
<1>8. /\ row \in Row /\ row[q] = two
      /\ \A q2 \in Players : q2 # q => row[q2] = csockets[p][t][q2]
  BY <1>4, <1>5, <1>7 DEF two
<1> HIDE DEF row
<1>9. /\ new \in [Threads -> Row] /\ new[t] = row
      /\ \A t2 \in Threads : t2 # t => new[t2] = csockets[p][t2]
  BY <1>1, <1>3, <1>8 DEF row
<1> HIDE DEF new
<1>10. csockets' \in [Players -> Sockets]
  BY <1>1, <1>2, <1>9
<1>11. csockets'[p] = new /\ \A p2 \in Players : p2 # p => csockets'[p2] = csockets[p2]
  BY <1>2
<1>12. csockets'[p][t][q][c] = s
  BY <1>7, <1>8, <1>9, <1>11
<1>13. ASSUME NEW p2 \in Players, NEW q2 \in Players, NEW t2 \in Threads, NEW c2 \in Pair,
              <<p2, t2, q2, c2>> # <<p, t, q, c>>
       PROVE  csockets'[p2][t2][q2][c2] = csockets[p2][t2][q2][c2]
  <2>1. CASE p2 # p
    BY <1>11, <2>1
  <2>2. CASE p2 = p /\ t2 # t
    BY <1>9, <1>11, <2>2
  <2>3. CASE p2 = p /\ t2 = t /\ q2 # q
    BY <1>8, <1>9, <1>11, <2>3
  <2>4. CASE p2 = p /\ t2 = t /\ q2 = q /\ c2 # c
    BY <1>7, <1>8, <1>9, <1>11, <2>4
  <2> QED
    BY <1>13, <2>1, <2>2, <2>3, <2>4
<1> QED
  BY <1>10, <1>12, <1>13

-----------------------------------------------------------------------------
(* The loops of Get_Connections.                                           *)

\* The next place: in the same player's connections, or at the next player
\* when these are through.
LEMMA NextPlace ==
  ASSUME TypeOK, LoopsOK, NEW p \in Players, loop[p].i < N, Goes_On(p)
  PROVE  /\ loop'[p] \in [i : 0 .. N, j : Threads, k : Pair]
         /\ loop' = [loop EXCEPT ![p] = loop'[p]]
         /\ pc' = [pc EXCEPT ![p] = Turn(p, loop'[p].i)]
         /\ loop'[p].i # p
         /\ \/ /\ loop'[p].i = loop[p].i
               /\ \/ loop[p].k = 0 /\ loop'[p].j = loop[p].j /\ loop'[p].k = 1
                  \/ loop[p].k = 1 /\ loop'[p].j = loop[p].j + 1 /\ loop'[p].k = 0
            \/ /\ loop[p].k = 1 /\ loop[p].j = tnthreads - 1
               /\ loop'[p].j = 0 /\ loop'[p].k = 0
               /\ loop'[p].i = IF loop[p].i + 1 = p THEN p + 1 ELSE loop[p].i + 1
<1> DEFINE l == loop[p]
           m == IF l.k = 0 THEN At(l.i, l.j, 1)
                ELSE IF l.j + 1 < tnthreads THEN At(l.i, l.j + 1, 0)
                ELSE At(After(p, l.i), 0, 0)
<1>1. loop \in [Players -> [i : 0 .. N, j : Threads, k : Pair]] /\ pc \in [Players -> Points]
  BY DEF TypeOK
<1>2. /\ l = [i |-> l.i, j |-> l.j, k |-> l.k] /\ l.i \in Nat /\ l.i < N /\ l.i # p
      /\ l.j \in Nat /\ l.j < tnthreads /\ l.k \in {0, 1} /\ p \in Nat /\ p < N
      /\ N \in Nat /\ tnthreads \in Nat
  BY <1>1, Numbers DEF LoopsOK
<1>3. loop' = [loop EXCEPT ![p] = m] /\ pc' = [pc EXCEPT ![p] = Turn(p, loop'[p].i)]
  BY DEF Goes_On
<1>4. loop'[p] = m
  BY <1>1, <1>3
<1>5. m = [i |-> m.i, j |-> m.j, k |-> m.k]
  BY DEF At
<1>6. \/ /\ m.i = l.i
         /\ \/ l.k = 0 /\ m.j = l.j /\ m.k = 1
            \/ l.k = 1 /\ m.j = l.j + 1 /\ m.k = 0 /\ l.j + 1 < tnthreads
      \/ /\ l.k = 1 /\ l.j = tnthreads - 1 /\ m.j = 0 /\ m.k = 0
         /\ m.i = IF l.i + 1 = p THEN p + 1 ELSE l.i + 1
  BY <1>2 DEF At, After
<1> HIDE DEF m
<1>7. m.i \in 0 .. N /\ m.j \in Threads /\ m.k \in Pair /\ m.i # p
  <2>1. m.j \in Nat /\ m.j < tnthreads
    BY <1>2, <1>6
  <2>2. m.k \in {0, 1}
    BY <1>2, <1>6
  <2>3. m.i \in 0 .. N
    BY <1>2, <1>6
  <2>4. m.i # p
    BY <1>2, <1>6
  <2> QED
    BY <2>1, <2>2, <2>3, <2>4, Numbers
<1>8. m \in [i : 0 .. N, j : Threads, k : Pair]
  BY <1>5, <1>7
<1> QED
  BY <1>3, <1>4, <1>6, <1>7, <1>8

\* So what the main thread does next is what its loop is at.
LEMMA NextTurn ==
  ASSUME TypeOK, LoopsOK, NEW p \in Players, loop[p].i < N, Goes_On(p)
  PROVE  /\ pc'[p] \in {"accept", "connect", "threads"} /\ pc' \in [Players -> Points]
         /\ pc'[p] = "accept" => loop'[p].i < p
         /\ pc'[p] = "connect" => p < loop'[p].i /\ loop'[p].i < N
         /\ pc'[p] = "threads" => loop'[p].i = N
         /\ \A q \in Players \ {p} : loop'[q] = loop[q] /\ pc'[q] = pc[q]
<1>1. /\ loop'[p].i \in 0 .. N /\ loop'[p].i # p
      /\ loop' = [loop EXCEPT ![p] = loop'[p]]
      /\ pc' = [pc EXCEPT ![p] = Turn(p, loop'[p].i)]
  BY NextPlace
<1>2. loop \in [Players -> [i : 0 .. N, j : Threads, k : Pair]] /\ pc \in [Players -> Points]
  BY DEF TypeOK
<1>3. pc'[p] = Turn(p, loop'[p].i)
  BY <1>1, <1>2
<1>4. p \in Nat /\ N \in Nat
  BY Numbers
<1>5. pc' \in [Players -> Points]
  BY <1>1, <1>2 DEF Turn, Points
<1> QED
  BY <1>1, <1>2, <1>3, <1>4, <1>5 DEF Turn

\* What p has opened after it has gone on: all up to the place it was at.
LEMMA OpenedAfter ==
  ASSUME TypeOK, LoopsOK, [Next]_vars, NEW p \in Players, loop[p].i < N, Goes_On(p),
         NEW q \in Players, q # p, NEW t \in Threads, NEW c \in Pair
  PROVE  Opened(p, q, t, c)' <=> \/ q < loop[p].i
                                 \/ q = loop[p].i /\ (t < loop[p].j \/ (t = loop[p].j /\ c <= loop[p].k))
<1>1. pc'[p] # "identify"
  BY NextTurn
<1>2. /\ loop'[p] \in [i : 0 .. N, j : Threads, k : Pair]
      /\ \/ /\ loop'[p].i = loop[p].i
            /\ \/ loop[p].k = 0 /\ loop'[p].j = loop[p].j /\ loop'[p].k = 1
               \/ loop[p].k = 1 /\ loop'[p].j = loop[p].j + 1 /\ loop'[p].k = 0
         \/ /\ loop[p].k = 1 /\ loop[p].j = tnthreads - 1
            /\ loop'[p].j = 0 /\ loop'[p].k = 0
            /\ loop'[p].i = IF loop[p].i + 1 = p THEN p + 1 ELSE loop[p].i + 1
  BY NextPlace
<1>3. /\ loop[p].i \in Nat /\ loop[p].j \in Nat /\ loop[p].j < tnthreads /\ loop[p].k \in {0, 1}
      /\ loop'[p].i \in Nat /\ loop'[p].j \in Nat
  BY <1>2, Numbers DEF TypeOK
<1>5. /\ p \in Nat /\ q \in Nat /\ q # p /\ t \in Nat /\ t < tnthreads /\ c \in {0, 1}
      /\ tnthreads \in Nat
  BY Numbers
<1>4. Opened(p, q, t, c)' <=> \/ q < loop'[p].i
                              \/ q = loop'[p].i /\ (t < loop'[p].j \/ (t = loop'[p].j /\ c < loop'[p].k))
  BY <1>1 DEF Opened
<1> QED
  BY <1>2, <1>3, <1>4, <1>5

\* The number of connections counted grows by one.
LEMMA CountedAfter ==
  ASSUME TypeOK, LoopsOK, [Next]_vars, NEW p \in Players, loop[p].i < p, Goes_On(p)
  PROVE  Counted(p)' = Counted(p) + 1
<1>1. /\ loop'[p] \in [i : 0 .. N, j : Threads, k : Pair]
      /\ \/ /\ loop'[p].i = loop[p].i
            /\ \/ loop[p].k = 0 /\ loop'[p].j = loop[p].j /\ loop'[p].k = 1
               \/ loop[p].k = 1 /\ loop'[p].j = loop[p].j + 1 /\ loop'[p].k = 0
         \/ /\ loop[p].k = 1 /\ loop[p].j = tnthreads - 1
            /\ loop'[p].j = 0 /\ loop'[p].k = 0
            /\ loop'[p].i = IF loop[p].i + 1 = p THEN p + 1 ELSE loop[p].i + 1
  <2>1. loop[p].i < N
    BY Numbers DEF TypeOK
  <2> QED
    BY <2>1, NextPlace
<1> DEFINE i == loop[p].i
           n == tnthreads
<1>2. /\ i \in Nat /\ loop[p].j \in Nat /\ loop[p].k \in {0, 1} /\ p \in Nat /\ i < p
      /\ loop'[p].i \in Nat /\ loop'[p].j \in Nat /\ n \in Nat /\ n' = n
  BY <1>1, Numbers, SystemStays DEF TypeOK
<1>3. Counted(p) = 2 * (n * i + loop[p].j) + loop[p].k
  BY DEF Counted
<1>4. Counted(p)' = IF loop'[p].i < p THEN 2 * (n * loop'[p].i + loop'[p].j) + loop'[p].k
                    ELSE 2 * (n * p)
  BY <1>2 DEF Counted
<1>5. CASE loop'[p].i = i
  <2>1. Counted(p)' = 2 * (n * i + loop'[p].j) + loop'[p].k
    BY <1>2, <1>4, <1>5
  <2> DEFINE z == n * i
  <2>2. z \in Int
    BY <1>2
  <2> HIDE DEF z
  <2>3. Counted(p)' = 2 * (z + loop'[p].j) + loop'[p].k /\ Counted(p) = 2 * (z + loop[p].j) + loop[p].k
    BY <1>3, <2>1 DEF z
  <2> QED
    BY <1>1, <1>2, <2>2, <2>3, <1>5
<1>6. CASE /\ loop[p].k = 1 /\ loop[p].j = tnthreads - 1 /\ loop'[p].j = 0 /\ loop'[p].k = 0
           /\ loop'[p].i = IF loop[p].i + 1 = p THEN p + 1 ELSE loop[p].i + 1
  <2>1. n * (i + 1) = n * i + n
    BY <1>2
  <2>2. Counted(p)' = 2 * (n * (i + 1))
    BY <1>2, <1>4, <1>6
  <2> QED
    BY <1>2, <1>3, <1>6, <2>1, <2>2
<1> QED
  BY <1>1, <1>5, <1>6

-----------------------------------------------------------------------------
(* Types.                                                                  *)

\* The connection a player is at is one between it and another player.
LEMMA OwnPlace ==
  ASSUME TypeOK, LoopsOK, NEW p \in Players, pc[p] \in {"accept", "receive", "connect", "identify"}
  PROVE  /\ loop[p].i \in Players /\ loop[p].i # p /\ loop[p].i \in Nat /\ loop[p].i < N
         /\ loop[p].j \in Threads /\ loop[p].k \in Pair /\ p \in Nat
         /\ pc[p] \in {"accept", "receive"} => loop[p].i < p
         /\ pc[p] \in {"connect", "identify"} => p < loop[p].i
<1>1. loop[p] \in [i : 0 .. N, j : Threads, k : Pair] /\ p \in Nat /\ p < N /\ N \in Nat
  BY Numbers DEF TypeOK
<1> QED
  BY <1>1, Numbers DEF LoopsOK

\* What is told of the connection that was accepted is what it was made for.
LEMMA ReceiveAt ==
  ASSUME TypeOK, LoopsOK, ToldOK, BacklogsOK, NEW p \in Players, Receive(p)
  PROVE  LET s == accepted[p]
         IN  /\ s \in All /\ Underway(p, s) /\ s[2] = p
             /\ Put(p, s[3], s[1], s[4], s)
<1>1. PICK m \in told : m[1] = accepted[p] /\ Put(p, m[2].t, m[2].p, m[2].c, accepted[p])
  BY DEF Receive
<1>2. m[2] = [p |-> m[1][1], t |-> m[1][3], c |-> m[1][4]]
  BY DEF ToldOK
<1>3. accepted[p] \in All /\ Underway(p, accepted[p])
  BY DEF Receive, BacklogsOK
<1> QED
  BY <1>1, <1>2, <1>3 DEF Underway

\* Every step keeps the types.
LEMMA TypeStep == TypeOK /\ IInv /\ [Next]_vars => TypeOK'
<1> SUFFICES ASSUME TypeOK, IInv, [Next]_vars PROVE TypeOK'
  OBVIOUS
<1> USE DEF IInv
<1>0. /\ system' \in Systems /\ Threads' = Threads /\ Sockets' = Sockets /\ All' = All
      /\ pc \in [Players -> Points] /\ loop \in [Players -> [i : 0 .. N, j : Threads, k : Pair]]
      /\ backlog \in [Players -> Seq(All)] /\ accepted \in [Players -> {NoSocket} \cup All]
      /\ csockets \in [Players -> Sockets]
  BY SystemStays DEF TypeOK
<1>1. ASSUME NEW p \in Players, OpenListener(p) PROVE TypeOK'
  <2>1. pc' \in [Players -> Points]
    BY <1>0, <1>1 DEF OpenListener, Turn, Points
  <2> QED
    BY <1>0, <1>1, <2>1 DEF OpenListener, TypeOK
<1>2. ASSUME NEW p \in Players, OpenConnection(p) PROVE TypeOK'
  <2> DEFINE l == loop[p]
             s == <<p, l.i, l.j, l.k>>
  <2>1. l.i \in Players /\ l.j \in Threads /\ l.k \in Pair
    BY <1>2, OwnPlace DEF OpenConnection
  <2>2. s \in All
    BY <2>1 DEF All
  <2>3. Put(p, l.j, l.i, l.k, s)
    BY <1>2 DEF OpenConnection
  <2> HIDE DEF s
  <2>4. csockets' \in [Players -> Sockets]
    BY <1>0, <2>1, <2>2, <2>3, PutAt
  <2>5. Append(backlog[l.i], s) \in Seq(All)
    BY <1>0, <2>1, <2>2
  <2>6. backlog' = [backlog EXCEPT ![l.i] = Append(backlog[l.i], s)]
    BY <1>2 DEF OpenConnection, s
  <2>7. backlog' \in [Players -> Seq(All)]
    BY <1>0, <2>5, <2>6
  <2>8. pc' \in [Players -> Points] /\ UNCHANGED <<loop, accepted>>
    BY <1>0, <1>2 DEF OpenConnection, Points
  <2> QED
    BY <1>0, <2>4, <2>7, <2>8 DEF TypeOK
<1>3. ASSUME NEW p \in Players, Identify(p) PROVE TypeOK'
  <2>1. Goes_On(p) /\ UNCHANGED <<backlog, accepted, csockets>> /\ loop[p].i < N
    BY <1>3, OwnPlace DEF Identify
  <2>2. loop'[p] \in [i : 0 .. N, j : Threads, k : Pair] /\ loop' = [loop EXCEPT ![p] = loop'[p]]
    BY <2>1, NextPlace
  <2>3. loop' \in [Players -> [i : 0 .. N, j : Threads, k : Pair]]
    BY <1>0, <2>2
  <2>4. pc' \in [Players -> Points]
    BY <2>1, NextTurn
  <2> QED
    BY <1>0, <2>1, <2>3, <2>4 DEF TypeOK
<1>4. ASSUME NEW p \in Players, Accept(p) PROVE TypeOK'
  <2>1. backlog[p] \in Seq(All) /\ backlog[p] # <<>>
    BY <1>0, <1>4 DEF Accept
  <2>2. Head(backlog[p]) \in All /\ Tail(backlog[p]) \in Seq(All)
    BY <2>1
  <2>3. /\ accepted' = [accepted EXCEPT ![p] = Head(backlog[p])]
        /\ backlog' = [backlog EXCEPT ![p] = Tail(backlog[p])]
        /\ pc' = [pc EXCEPT ![p] = "receive"] /\ UNCHANGED <<loop, csockets>>
    BY <1>4 DEF Accept
  <2>4. backlog' \in [Players -> Seq(All)]
    BY <1>0, <2>2, <2>3
  <2>5. accepted' \in [Players -> {NoSocket} \cup All]
    BY <1>0, <2>2, <2>3
  <2>6. pc' \in [Players -> Points]
    BY <1>0, <2>3 DEF Points
  <2> QED
    BY <1>0, <2>3, <2>4, <2>5, <2>6 DEF TypeOK
<1>5. ASSUME NEW p \in Players, Receive(p) PROVE TypeOK'
  <2>1. Goes_On(p) /\ UNCHANGED <<backlog, accepted>> /\ loop[p].i < N
    BY <1>5, OwnPlace DEF Receive
  <2>2. loop'[p] \in [i : 0 .. N, j : Threads, k : Pair] /\ loop' = [loop EXCEPT ![p] = loop'[p]]
    BY <2>1, NextPlace
  <2>3. loop' \in [Players -> [i : 0 .. N, j : Threads, k : Pair]]
    BY <1>0, <2>2
  <2>4. pc' \in [Players -> Points]
    BY <2>1, NextTurn
  <2> DEFINE s == accepted[p]
  <2>5. s \in All /\ Put(p, s[3], s[1], s[4], s)
    BY <1>5, ReceiveAt
  <2>6. s[1] \in Players /\ s[3] \in Threads /\ s[4] \in Pair
    BY <2>5 DEF All
  <2> HIDE DEF s
  <2>7. csockets' \in [Players -> Sockets]
    BY <1>0, <2>5, <2>6, PutAt
  <2> QED
    BY <1>0, <2>1, <2>3, <2>4, <2>7 DEF TypeOK
<1>6. ASSUME NEW p \in Players, SSL_connect(p) \/ SSL_accept(p) PROVE TypeOK'
  <2>1. UNCHANGED <<loop, backlog, accepted, csockets>>
    BY <1>6 DEF SSL_connect, SSL_accept, OnlyTLS
  <2>2. pc' = pc \/ pc' = [pc EXCEPT ![p] = "thrown"]
    BY <1>6 DEF SSL_connect, SSL_accept, Done
  <2>3. pc' \in [Players -> Points]
    BY <1>0, <2>2 DEF Points
  <2> QED
    BY <1>0, <2>1, <2>3 DEF TypeOK
<1>7. CASE Watch \/ UNCHANGED vars
  BY <1>0, <1>7 DEF Watch, vars, TypeOK
<1> QED
  BY <1>1, <1>2, <1>3, <1>4, <1>5, <1>6, <1>7 DEF Next

-----------------------------------------------------------------------------
(* Steps that neither open nor sort a connection.                          *)

\* The facts about the connections outlive a step that leaves them, and the
\* loops, as they are.
LEMMA StillStep ==
  ASSUME TypeOK, IInv, [Next]_vars, UNCHANGED <<loop, backlog, accepted, told, csockets>>,
         \A p \in Players : /\ pc'[p] = "identify" <=> pc[p] = "identify"
                            /\ pc'[p] = "receive" <=> pc[p] = "receive"
  PROVE  ClientsOK' /\ ServersOK' /\ ToldOK' /\ BacklogsOK' /\ CountsOK'
<1> USE DEF IInv
<1>0. Threads' = Threads /\ All' = All /\ tnthreads' = tnthreads
  BY SystemStays
<1>1. \A p \in Players : \A q, t, c : Opened(p, q, t, c)' <=> Opened(p, q, t, c)
  BY DEF Opened
<1>2. ClientsOK'
  BY <1>0, <1>1 DEF ClientsOK
<1>3. ServersOK'
  BY <1>0, <1>1 DEF ServersOK
<1>4. ToldOK'
  BY <1>0 DEF ToldOK
<1>5. \A p \in Players : \A s \in All : Underway(p, s)' <=> Underway(p, s)
  BY <1>1 DEF Underway, All
<1>6. BacklogsOK'
  <2> SUFFICES ASSUME NEW p \in Players
               PROVE  /\ pc'[p] = "receive" => accepted'[p] \in All' /\ Underway(p, accepted[p])'
                      /\ \A m \in DOMAIN backlog'[p] :
                           /\ Underway(p, backlog[p][m])'
                           /\ pc'[p] = "receive" => backlog'[p][m] # accepted'[p]
                           /\ \A n \in DOMAIN backlog'[p] : backlog'[p][m] = backlog'[p][n] => m = n
    BY DEF BacklogsOK
  <2>1. pc'[p] = "receive" => accepted'[p] \in All' /\ Underway(p, accepted[p])'
    BY <1>0, <1>5 DEF BacklogsOK
  <2>2. \A m \in DOMAIN backlog[p] : backlog[p][m] \in All
    BY DEF TypeOK
  <2>3. \A m \in DOMAIN backlog[p] : Underway(p, backlog[p][m])'
    BY <1>5, <2>2 DEF BacklogsOK
  <2> QED
    BY <2>1, <2>3 DEF BacklogsOK
<1>7. CountsOK'
  BY <1>0 DEF CountsOK, Sorted, Places, Counted
<1> QED
  BY <1>2, <1>3, <1>4, <1>6, <1>7

\* The listener opens before the loops, the threads run after them.
LEMMA OutsideStep ==
  ASSUME TypeOK, IInv, [Next]_vars,
         \/ UNCHANGED vars \/ Watch
         \/ \E p \in Players : OpenListener(p) \/ SSL_connect(p) \/ SSL_accept(p)
  PROVE  IInv'
<1>0. pc \in [Players -> Points]
  BY DEF TypeOK
<1>1. CASE UNCHANGED vars \/ Watch
  <2>1. UNCHANGED <<pc, loop, backlog, accepted, told, csockets>>
    BY <1>1 DEF vars, Watch
  <2>2. LoopsOK'
    BY <2>1 DEF IInv, LoopsOK
  <2> QED
    BY <2>1, <2>2, StillStep DEF IInv
<1>2. ASSUME NEW p \in Players, OpenListener(p) PROVE IInv'
  <2>1. /\ UNCHANGED <<loop, backlog, accepted, told, csockets>> /\ pc[p] = "listen"
        /\ pc' = [pc EXCEPT ![p] = Turn(p, loop[p].i)]
    BY <1>2 DEF OpenListener
  <2>2. loop[p].i \in 0 .. N /\ loop[p].i # p /\ p \in Nat /\ N \in Nat
    BY Numbers DEF TypeOK, IInv, LoopsOK
  <2>3. LoopsOK'
    BY <1>0, <2>1, <2>2 DEF IInv, LoopsOK, Turn
  <2>4. \A q \in Players : /\ pc'[q] = "identify" <=> pc[q] = "identify"
                           /\ pc'[q] = "receive" <=> pc[q] = "receive"
    BY <1>0, <2>1 DEF Turn
  <2> QED
    BY <2>1, <2>3, <2>4, StillStep DEF IInv
<1>3. ASSUME NEW p \in Players, SSL_connect(p) \/ SSL_accept(p) PROVE IInv'
  <2>1. UNCHANGED <<loop, backlog, accepted, told, csockets>> /\ pc[p] = "threads"
    BY <1>3 DEF SSL_connect, SSL_accept, OnlyTLS, Securing
  <2>2. pc' = pc \/ pc' = [pc EXCEPT ![p] = "thrown"]
    BY <1>3 DEF SSL_connect, SSL_accept, Done
  <2>3. LoopsOK'
    BY <1>0, <2>1, <2>2 DEF IInv, LoopsOK
  <2>4. \A q \in Players : /\ pc'[q] = "identify" <=> pc[q] = "identify"
                           /\ pc'[q] = "receive" <=> pc[q] = "receive"
    BY <1>0, <2>1, <2>2
  <2> QED
    BY <2>1, <2>3, <2>4, StillStep DEF IInv
<1> QED
  BY <1>1, <1>2, <1>3

\* Who is at the next connection has its main thread there.
LEMMA LoopsAfter ==
  ASSUME TypeOK, IInv, NEW p \in Players, loop[p].i < N, Goes_On(p)
  PROVE  LoopsOK'
<1>1. /\ pc'[p] \in {"accept", "connect", "threads"}
      /\ pc'[p] = "accept" => loop'[p].i < p
      /\ pc'[p] = "connect" => p < loop'[p].i /\ loop'[p].i < N
      /\ pc'[p] = "threads" => loop'[p].i = N
      /\ \A q \in Players \ {p} : loop'[q] = loop[q] /\ pc'[q] = pc[q]
  BY NextTurn DEF IInv
<1>2. loop'[p].i # p
  BY NextPlace DEF IInv
<1> QED
  BY <1>1, <1>2 DEF IInv, LoopsOK

\* Identify: what was open stays open, and what is told is true.
LEMMA IdentifyStep ==
  ASSUME TypeOK, IInv, [Next]_vars, NEW p \in Players, Identify(p)
  PROVE  IInv'
<1> USE DEF IInv
<1>0. /\ Threads' = Threads /\ All' = All /\ tnthreads' = tnthreads
      /\ pc[p] = "identify" /\ Goes_On(p) /\ UNCHANGED <<backlog, accepted, csockets>>
  BY SystemStays DEF Identify
<1>1. /\ loop[p].i \in Players /\ loop[p].i # p /\ loop[p].i < N
      /\ loop[p].j \in Threads /\ loop[p].k \in Pair /\ p < loop[p].i
  BY <1>0, OwnPlace
<1>2. /\ pc'[p] \in {"accept", "connect", "threads"}
      /\ \A q \in Players \ {p} : loop'[q] = loop[q] /\ pc'[q] = pc[q]
  BY <1>0, <1>1, NextTurn
<1>3. \A u, q \in Players, t \in Threads, c \in Pair : u # q =>
        (Opened(u, q, t, c)' <=> Opened(u, q, t, c))
  <2> SUFFICES ASSUME NEW u \in Players, NEW q \in Players, NEW t \in Threads, NEW c \in Pair, u # q
               PROVE  Opened(u, q, t, c)' <=> Opened(u, q, t, c)
    OBVIOUS
  <2>1. CASE u # p
    BY <1>2, <2>1 DEF Opened
  <2>2. CASE u = p
    <3>1. Opened(p, q, t, c)' <=> \/ q < loop[p].i
                                  \/ q = loop[p].i /\ (t < loop[p].j \/ (t = loop[p].j /\ c <= loop[p].k))
      BY <1>0, <1>1, <2>2, OpenedAfter
    <3>2. c <= loop[p].k <=> c < loop[p].k \/ c = loop[p].k
      <4>1. c \in {0, 1} /\ loop[p].k \in {0, 1}
        BY <1>1, Numbers
      <4> QED
        BY <4>1
    <3> QED
      BY <1>0, <2>2, <3>1, <3>2 DEF Opened
  <2> QED
    BY <2>1, <2>2
<1>4. LoopsOK'
  BY <1>0, <1>1, LoopsAfter
<1>5. ClientsOK'
  <2> SUFFICES ASSUME NEW u \in Players, NEW q \in Players, NEW t \in Threads, NEW c \in Pair, u < q
               PROVE  csockets[u][t][q][c] = IF Opened(u, q, t, c)' THEN <<u, q, t, c>> ELSE NoSocket
    BY <1>0 DEF ClientsOK
  <2>1. u # q
    BY Numbers
  <2> QED
    BY <1>3, <2>1 DEF ClientsOK
<1>6. ServersOK'
  <2> SUFFICES ASSUME NEW u \in Players, NEW q \in Players, NEW t \in Threads, NEW c \in Pair
               PROVE  /\ q < u => \/ csockets[u][t][q][c] = NoSocket
                                  \/ Opened(q, u, t, c)' /\ csockets[u][t][q][c] = <<q, u, t, c>>
                      /\ u = q => csockets[u][t][q][c] = NoSocket
    BY <1>0 DEF ServersOK
  <2>1. q < u => q # u
    BY Numbers
  <2> QED
    BY <1>3, <2>1 DEF ServersOK
<1>7. ToldOK'
  <2> DEFINE s == csockets[p][loop[p].j][loop[p].i][loop[p].k]
  <2>1. told' = told \cup {<<s, [p |-> p, t |-> loop[p].j, c |-> loop[p].k]>>}
    BY DEF Identify
  <2>2. Opened(p, loop[p].i, loop[p].j, loop[p].k)
    BY <1>0 DEF Opened
  <2>3. s = <<p, loop[p].i, loop[p].j, loop[p].k>>
    BY <1>1, <2>2 DEF ClientsOK
  <2> DEFINE m == <<s, [p |-> p, t |-> loop[p].j, c |-> loop[p].k]>>
  <2> HIDE DEF s
  <2>4. <<p, loop[p].i, loop[p].j, loop[p].k>> \in All
    BY <1>1 DEF All
  <2>5. m[1] \in All /\ m[2] = [p |-> m[1][1], t |-> m[1][3], c |-> m[1][4]]
    BY <2>3, <2>4
  <2> HIDE DEF m
  <2>6. told' = told \cup {m}
    BY <2>1 DEF m
  <2> QED
    BY <1>0, <2>5, <2>6 DEF ToldOK
<1>8. \A u \in Players : \A s \in All : Underway(u, s) => Underway(u, s)'
  <2> SUFFICES ASSUME NEW u \in Players, NEW s \in All, Underway(u, s) PROVE Underway(u, s)'
    OBVIOUS
  <2>1. s[1] \in Players /\ s[3] \in Threads /\ s[4] \in Pair /\ s[1] # u
    BY Numbers DEF All, Underway
  <2> QED
    BY <1>0, <1>3, <2>1 DEF Underway
<1>9. BacklogsOK'
  <2> SUFFICES ASSUME NEW u \in Players
               PROVE  /\ pc'[u] = "receive" => accepted[u] \in All /\ Underway(u, accepted[u])'
                      /\ \A m \in DOMAIN backlog[u] :
                           /\ Underway(u, backlog[u][m])'
                           /\ pc'[u] = "receive" => backlog[u][m] # accepted[u]
                           /\ \A n \in DOMAIN backlog[u] : backlog[u][m] = backlog[u][n] => m = n
    BY <1>0 DEF BacklogsOK
  <2>1. pc'[u] = "receive" => pc[u] = "receive"
    BY <1>2
  <2>2. \A m \in DOMAIN backlog[u] : backlog[u][m] \in All
    BY DEF TypeOK
  <2>3. \A m \in DOMAIN backlog[u] : Underway(u, backlog[u][m])'
    BY <1>0, <1>8, <2>2 DEF BacklogsOK
  <2>4. pc'[u] = "receive" => accepted[u] \in All /\ Underway(u, accepted[u])'
    BY <1>0, <1>8, <2>1 DEF BacklogsOK
  <2> QED
    BY <2>1, <2>3, <2>4 DEF BacklogsOK
<1>10. CountsOK'
  <2> SUFFICES ASSUME NEW u \in Players PROVE Cardinality(Sorted(u)') = Counted(u)'
    BY DEF CountsOK
  <2>1. Sorted(u)' = Sorted(u)
    BY <1>0 DEF Sorted, Places
  <2>2. CASE u # p
    BY <1>0, <1>2, <2>1, <2>2 DEF CountsOK, Counted
  <2>3. CASE u = p
    <3>1. ~(loop[p].i < p) /\ ~(loop'[p].i < p)
      <4>1. \/ loop'[p].i = loop[p].i \/ loop'[p].i = IF loop[p].i + 1 = p THEN p + 1 ELSE loop[p].i + 1
        BY <1>0, <1>1, NextPlace
      <4> QED
        BY <1>1, <4>1, Numbers
    <3> QED
      BY <1>0, <2>1, <2>3, <3>1 DEF CountsOK, Counted
  <2> QED
    BY <2>2, <2>3
<1> QED
  BY <1>4, <1>5, <1>6, <1>7, <1>9, <1>10

-----------------------------------------------------------------------------
(* A connection is opened, accepted, and sorted.                           *)

\* Opening a connection marks it as opened, and no other.
LEMMA OpenConnectionOpens ==
  ASSUME TypeOK, LoopsOK, NEW p \in Players, OpenConnection(p),
         NEW u \in Players, NEW q \in Players, NEW t \in Threads, NEW c \in Pair
  PROVE  Opened(u, q, t, c)'
           <=> Opened(u, q, t, c) \/ <<u, q, t, c>> = <<p, loop[p].i, loop[p].j, loop[p].k>>
<1>1. /\ loop' = loop /\ pc' = [pc EXCEPT ![p] = "identify"] /\ pc[p] = "connect"
      /\ pc \in [Players -> Points]
  BY DEF OpenConnection, TypeOK
<1>2. CASE u # p
  BY <1>1, <1>2 DEF Opened
<1>3. CASE u = p
  <2>1. pc[p] # "identify" /\ pc'[p] = "identify"
    BY <1>1
  <2> QED
    BY <1>1, <1>3, <2>1 DEF Opened
<1> QED
  BY <1>2, <1>3

\* OpenConnection: the client has its connection in its place, and the server
\* has one more to accept.
LEMMA OpenConnectionStep ==
  ASSUME TypeOK, IInv, [Next]_vars, NEW p \in Players, OpenConnection(p)
  PROVE  IInv'
<1> USE DEF IInv
<1>a. PICK i, j, k : i = loop[p].i /\ j = loop[p].j /\ k = loop[p].k
  OBVIOUS
<1> DEFINE s == <<p, i, j, k>>
<1>0. /\ Threads' = Threads /\ All' = All /\ tnthreads' = tnthreads
      /\ pc[p] = "connect" /\ pc' = [pc EXCEPT ![p] = "identify"]
      /\ UNCHANGED <<loop, accepted, told>> /\ pc \in [Players -> Points]
      /\ backlog' = [backlog EXCEPT ![i] = Append(backlog[i], s)]
      /\ Put(p, j, i, k, s)
  BY <1>a, SystemStays DEF OpenConnection, TypeOK
<1>1. i \in Players /\ i # p /\ j \in Threads /\ k \in Pair /\ p < i /\ i < N
  BY <1>0, <1>a, OwnPlace
<1>2. s \in All
  BY <1>1 DEF All
<1>3. /\ csockets'[p][j][i][k] = s
      /\ \A u, q \in Players, t \in Threads, c \in Pair :
           <<u, t, q, c>> # <<p, j, i, k>> => csockets'[u][t][q][c] = csockets[u][t][q][c]
  BY <1>0, <1>1, <1>2, PutAt DEF TypeOK
<1>4. \A u, q \in Players, t \in Threads, c \in Pair :
        Opened(u, q, t, c)' <=> Opened(u, q, t, c) \/ <<u, q, t, c>> = s
  BY <1>a, OpenConnectionOpens
<1>5. ~Opened(p, i, j, k)
  <2>1. ~(i < i) /\ ~(j < j) /\ ~(k < k)
    BY <1>1, Numbers
  <2> QED
    BY <1>0, <1>a, <2>1 DEF Opened
<1>6. LoopsOK'
  BY <1>0, <1>1, <1>a DEF LoopsOK
<1>7. ClientsOK'
  <2> SUFFICES ASSUME NEW u \in Players, NEW q \in Players, NEW t \in Threads, NEW c \in Pair, u < q
               PROVE  csockets'[u][t][q][c] = IF Opened(u, q, t, c)' THEN <<u, q, t, c>> ELSE NoSocket
    BY <1>0 DEF ClientsOK
  <2>1. CASE <<u, q, t, c>> = s
    BY <1>3, <1>4, <2>1
  <2>2. CASE <<u, q, t, c>> # s
    <3>1. csockets'[u][t][q][c] = csockets[u][t][q][c]
      BY <1>3, <2>2
    <3> QED
      BY <1>4, <2>2, <3>1 DEF ClientsOK
  <2> QED
    BY <2>1, <2>2
<1>8. ServersOK'
  <2> SUFFICES ASSUME NEW u \in Players, NEW q \in Players, NEW t \in Threads, NEW c \in Pair, q < u \/ u = q
               PROVE  /\ q < u => \/ csockets'[u][t][q][c] = NoSocket
                                  \/ Opened(q, u, t, c)' /\ csockets'[u][t][q][c] = <<q, u, t, c>>
                      /\ u = q => csockets'[u][t][q][c] = NoSocket
    BY <1>0 DEF ServersOK
  <2>1. ~(u = p /\ q = i)
    BY <1>1, Numbers
  <2>2. csockets'[u][t][q][c] = csockets[u][t][q][c]
    BY <1>3, <2>1
  <2> QED
    BY <1>4, <2>2 DEF ServersOK
<1>9. ToldOK'
  BY <1>0 DEF ToldOK
<1>10. \A u \in Players : \A r \in All : Underway(u, r) => Underway(u, r)' /\ r # s
  <2> SUFFICES ASSUME NEW u \in Players, NEW r \in All, Underway(u, r) PROVE Underway(u, r)' /\ r # s
    OBVIOUS
  <2>1. /\ r[1] \in Players /\ r[3] \in Threads /\ r[4] \in Pair
        /\ r[1] < u /\ r[2] = u /\ Opened(r[1], u, r[3], r[4])
        /\ csockets[u][r[3]][r[1]][r[4]] = NoSocket
    BY DEF All, Underway
  <2>2. r # s
    BY <1>5, <2>1
  <2>3. ~(u = p /\ r[1] = i)
    BY <1>1, <2>1, Numbers
  <2>4. csockets'[u][r[3]][r[1]][r[4]] = NoSocket
    BY <1>3, <2>1, <2>3
  <2>5. Opened(r[1], u, r[3], r[4])'
    BY <1>4, <2>1
  <2> QED
    BY <2>1, <2>2, <2>4, <2>5 DEF Underway
<1>11. Underway(i, s)'
  <2>1. Opened(p, i, j, k)'
    BY <1>0, <1>1, <1>4
  <2>2. csockets[i][j][p][k] = NoSocket
    BY <1>1, <1>5 DEF ServersOK
  <2>3. csockets'[i][j][p][k] = NoSocket
    BY <1>1, <1>3, <2>2
  <2> QED
    BY <1>0, <1>1, <2>1, <2>3 DEF Underway
<1> HIDE DEF s
<1>12. BacklogsOK'
  <2> SUFFICES ASSUME NEW u \in Players
               PROVE  /\ pc'[u] = "receive" => accepted'[u] \in All /\ Underway(u, accepted[u])'
                      /\ \A m \in DOMAIN backlog'[u] :
                           /\ Underway(u, backlog[u][m])'
                           /\ pc'[u] = "receive" => backlog'[u][m] # accepted'[u]
                           /\ \A n \in DOMAIN backlog'[u] : backlog'[u][m] = backlog'[u][n] => m = n
    BY <1>0 DEF BacklogsOK
  <2>1. pc'[u] = "receive" => pc[u] = "receive"
    BY <1>0
  <2>2. backlog[u] \in Seq(All) /\ \A m \in DOMAIN backlog[u] : backlog[u][m] \in All
    BY DEF TypeOK
  <2>3. pc'[u] = "receive" => accepted'[u] \in All /\ Underway(u, accepted[u])' /\ accepted'[u] # s
    BY <1>0, <1>10, <2>1 DEF BacklogsOK
  <2>4. \A m \in DOMAIN backlog[u] : backlog[u][m] # s
    BY <1>10, <2>2 DEF BacklogsOK
  <2>5. CASE u # i
    <3>1. backlog'[u] = backlog[u]
      BY <1>0, <2>5 DEF TypeOK
    <3>2. \A m \in DOMAIN backlog[u] : Underway(u, backlog[u][m])'
      BY <1>10, <2>2, <3>1 DEF BacklogsOK
    <3>3. \A m \in DOMAIN backlog[u] : pc'[u] = "receive" => backlog[u][m] # accepted'[u]
      BY <1>0, <2>1 DEF BacklogsOK
    <3>4. \A m, n \in DOMAIN backlog[u] : backlog[u][m] = backlog[u][n] => m = n
      BY DEF BacklogsOK
    <3> QED
      BY <2>3, <3>1, <3>2, <3>3, <3>4
  <2>6. CASE u = i
    <3>1. backlog'[u] = Append(backlog[u], s)
      BY <1>0, <2>6 DEF TypeOK
    <3>2. PICK n \in Nat : n = Len(backlog[u])
      BY <2>2
    <3>3. /\ DOMAIN backlog[u] = 1 .. n /\ DOMAIN backlog'[u] = 1 .. n + 1
          /\ backlog'[u][n + 1] = s /\ \A m \in 1 .. n : backlog'[u][m] = backlog[u][m]
      BY <1>2, <2>2, <3>1, <3>2
    <3>4. \A m \in DOMAIN backlog'[u] : m \in 1 .. n \/ m = n + 1
      BY <3>3
    <3>5. \A m \in 1 .. n : Underway(u, backlog[u][m])'
      BY <1>10, <2>2, <3>3 DEF BacklogsOK
    <3>6. Underway(u, backlog[u][n + 1])'
      BY <1>11, <2>6, <3>3
    <3>7. \A m \in 1 .. n : backlog'[u][m] # s
      BY <2>4, <3>3
    <3>8. \A m \in DOMAIN backlog'[u] : pc'[u] = "receive" => backlog'[u][m] # accepted'[u]
      BY <1>0, <2>1, <2>3, <3>3, <3>4 DEF BacklogsOK
    <3>9. \A m, l \in 1 .. n : backlog'[u][m] = backlog'[u][l] => m = l
      BY <3>3 DEF BacklogsOK
    <3>10. \A m, l \in DOMAIN backlog'[u] : backlog'[u][m] = backlog'[u][l] => m = l
      BY <3>3, <3>4, <3>7, <3>9
    <3>11. \A m \in DOMAIN backlog'[u] : Underway(u, backlog[u][m])'
      BY <3>4, <3>5, <3>6
    <3> QED
      BY <2>3, <3>8, <3>10, <3>11
  <2> QED
    BY <2>5, <2>6
<1>13. CountsOK'
  <2> SUFFICES ASSUME NEW u \in Players PROVE Cardinality(Sorted(u)') = Counted(u)'
    BY DEF CountsOK
  <2>1. Counted(u)' = Counted(u)
    BY <1>0 DEF Counted
  <2>2. u \in Nat /\ u < N
    BY Numbers
  <2>5. Places(u)' = Places(u)
    BY <1>0 DEF Places
  <2>3. ASSUME NEW x \in Places(u)
        PROVE  csockets'[u][x[2][1]][x[1]][x[2][2]] = csockets[u][x[2][1]][x[1]][x[2][2]]
    <3>1. x[1] \in Players /\ x[1] < u /\ x[2][1] \in Threads /\ x[2][2] \in Pair
      BY <2>2, Numbers DEF Places
    <3>2. ~(u = p /\ x[1] = i)
      BY <1>1, <3>1, Numbers
    <3> QED
      BY <1>3, <3>1, <3>2
  <2>4. Sorted(u)' = Sorted(u)
    BY <2>3, <2>5 DEF Sorted
  <2> QED
    BY <2>1, <2>4 DEF CountsOK
<1> QED
  BY <1>6, <1>7, <1>8, <1>9, <1>12, <1>13

\* What a step that leaves a sequence without its first element keeps of it.
LEMMA TailOf ==
  ASSUME NEW S, NEW s \in Seq(S), s # <<>>
  PROVE  /\ Head(s) = s[1] /\ 1 \in DOMAIN s /\ Tail(s) \in Seq(S)
         /\ \A m \in DOMAIN Tail(s) : m + 1 \in DOMAIN s /\ Tail(s)[m] = s[m + 1] /\ m + 1 # 1 /\ m \in Nat
<1>1. Len(s) \in Nat /\ DOMAIN s = 1 .. Len(s) /\ Len(s) # 0
  OBVIOUS
<1>2. Tail(s) \in Seq(S) /\ Len(Tail(s)) = Len(s) - 1
  BY <1>1
<1>3. \A m \in 1 .. Len(s) - 1 : Tail(s)[m] = s[m + 1]
  BY <1>1
<1> QED
  BY <1>1, <1>2, <1>3

\* Accept: the first of those waiting is now in hand.
LEMMA AcceptStep ==
  ASSUME TypeOK, IInv, [Next]_vars, NEW p \in Players, Accept(p)
  PROVE  IInv'
<1> USE DEF IInv
<1>0. /\ Threads' = Threads /\ All' = All /\ tnthreads' = tnthreads
      /\ pc[p] = "accept" /\ pc' = [pc EXCEPT ![p] = "receive"] /\ backlog[p] # <<>>
      /\ UNCHANGED <<loop, told, csockets>> /\ pc \in [Players -> Points]
      /\ accepted' = [accepted EXCEPT ![p] = Head(backlog[p])]
      /\ backlog' = [backlog EXCEPT ![p] = Tail(backlog[p])]
  BY SystemStays DEF Accept, TypeOK
<1>1. \A u \in Players : \A q, t, c : Opened(u, q, t, c)' <=> Opened(u, q, t, c)
  BY <1>0 DEF Opened
<1>2. LoopsOK'
  BY <1>0 DEF LoopsOK
<1>3. ClientsOK'
  BY <1>0, <1>1 DEF ClientsOK
<1>4. ServersOK'
  BY <1>0, <1>1 DEF ServersOK
<1>5. ToldOK'
  BY <1>0 DEF ToldOK
<1>6. \A u \in Players : \A r \in All : Underway(u, r)' <=> Underway(u, r)
  BY <1>0, <1>1 DEF Underway, All
<1>7. BacklogsOK'
  <2> SUFFICES ASSUME NEW u \in Players
               PROVE  /\ pc'[u] = "receive" => accepted'[u] \in All /\ Underway(u, accepted[u])'
                      /\ \A m \in DOMAIN backlog'[u] :
                           /\ Underway(u, backlog[u][m])'
                           /\ pc'[u] = "receive" => backlog'[u][m] # accepted'[u]
                           /\ \A n \in DOMAIN backlog'[u] : backlog'[u][m] = backlog'[u][n] => m = n
    BY <1>0 DEF BacklogsOK
  <2>1. /\ backlog[u] \in Seq(All) /\ \A m \in DOMAIN backlog[u] : backlog[u][m] \in All
        /\ accepted \in [Players -> {NoSocket} \cup All] /\ backlog \in [Players -> Seq(All)]
    BY DEF TypeOK
  <2>2. CASE u # p
    <3>1. backlog'[u] = backlog[u] /\ accepted'[u] = accepted[u] /\ pc'[u] = pc[u]
      BY <1>0, <2>1, <2>2
    <3>2. \A m \in DOMAIN backlog[u] : Underway(u, backlog[u][m])'
      BY <1>6, <2>1, <3>1 DEF BacklogsOK
    <3>3. pc[u] = "receive" => accepted[u] \in All /\ Underway(u, accepted[u])'
      BY <1>6, <3>1 DEF BacklogsOK
    <3>4. \A m \in DOMAIN backlog[u] : pc[u] = "receive" => backlog[u][m] # accepted[u]
      BY DEF BacklogsOK
    <3>5. \A m, n \in DOMAIN backlog[u] : backlog[u][m] = backlog[u][n] => m = n
      BY DEF BacklogsOK
    <3> QED
      BY <3>1, <3>2, <3>3, <3>4, <3>5
  <2>3. CASE u = p
    <3>1. /\ Head(backlog[u]) = backlog[u][1] /\ 1 \in DOMAIN backlog[u]
          /\ \A m \in DOMAIN Tail(backlog[u]) :
               m + 1 \in DOMAIN backlog[u] /\ Tail(backlog[u])[m] = backlog[u][m + 1] /\ m + 1 # 1 /\ m \in Nat
      BY <1>0, <2>1, <2>3, TailOf
    <3>2. accepted'[u] = backlog[u][1] /\ backlog'[u] = Tail(backlog[u])
      BY <1>0, <2>1, <2>3, <3>1
    <3>3. \A m, n \in DOMAIN backlog[u] : backlog[u][m] = backlog[u][n] => m = n
      BY DEF BacklogsOK
    <3>4. accepted'[u] \in All /\ Underway(u, accepted[u])'
      BY <1>6, <2>1, <3>1, <3>2 DEF BacklogsOK
    <3>5. \A m \in DOMAIN backlog'[u] : backlog'[u][m] # accepted'[u]
      BY <3>1, <3>2, <3>3
    <3>6. ASSUME NEW m \in DOMAIN backlog'[u], NEW n \in DOMAIN backlog'[u], backlog'[u][m] = backlog'[u][n]
          PROVE  m = n
      <4>1. m + 1 = n + 1
        BY <3>1, <3>2, <3>3, <3>6
      <4> QED
        BY <3>1, <3>2, <4>1
    <3>7. \A m \in DOMAIN backlog'[u] : Underway(u, backlog[u][m])'
      BY <1>6, <2>1, <3>1, <3>2 DEF BacklogsOK
    <3> QED
      BY <3>4, <3>5, <3>6, <3>7
  <2> QED
    BY <2>2, <2>3
<1>8. CountsOK'
  BY <1>0 DEF CountsOK, Sorted, Places, Counted
<1> QED
  BY <1>2, <1>3, <1>4, <1>5, <1>7, <1>8

\* The places of a player are as many as it counts to, and no more.
LEMMA PlacesCounted ==
  ASSUME TypeOK, NEW p \in Players
  PROVE  /\ IsFiniteSet(Places(p)) /\ Cardinality(Places(p)) = 2 * (tnthreads * p)
         /\ IsFiniteSet(Sorted(p))
<1>1. tnthreads \in Nat /\ tnthreads >= 1 /\ p \in Nat /\ Pair = {0, 1}
  BY Numbers
<1>2. IsFiniteSet(0 .. p - 1) /\ Cardinality(0 .. p - 1) = p
  BY <1>1, FS_Interval
<1>3. IsFiniteSet(Threads) /\ Cardinality(Threads) = tnthreads
  BY <1>1, FS_Interval DEF Threads
<1>4. IsFiniteSet(Pair) /\ Cardinality(Pair) = 2
  <2>1. Pair = {0} \cup {1} /\ 1 \notin {0}
    BY <1>1
  <2>2. IsFiniteSet({0}) /\ Cardinality({0}) = 1
    BY FS_Singleton
  <2>3. IsFiniteSet({0} \cup {1}) /\ Cardinality({0} \cup {1}) = Cardinality({0}) + 1
    BY <2>1, <2>2, FS_AddElement
  <2> QED
    BY <2>1, <2>2, <2>3
<1>5. IsFiniteSet(Threads \X Pair) /\ Cardinality(Threads \X Pair) = tnthreads * 2
  BY <1>3, <1>4, FS_Product
<1>6. IsFiniteSet(Places(p)) /\ Cardinality(Places(p)) = p * (tnthreads * 2)
  <2> DEFINE S == 0 .. p - 1
             T == Threads \X Pair
  <2>1. IsFiniteSet(S) /\ IsFiniteSet(T) /\ Cardinality(S) = p /\ Cardinality(T) = tnthreads * 2
    BY <1>2, <1>5
  <2>2. Places(p) = S \X T
    BY DEF Places
  <2> HIDE DEF S, T
  <2>3. IsFiniteSet(S \X T) /\ Cardinality(S \X T) = Cardinality(S) * Cardinality(T)
    BY <2>1, FS_Product
  <2> QED
    BY <2>1, <2>2, <2>3
<1>7. p * (tnthreads * 2) = 2 * (tnthreads * p)
  BY <1>1
<1>8. Sorted(p) \in SUBSET Places(p)
  BY DEF Sorted
<1>9. IsFiniteSet(Sorted(p))
  BY <1>6, <1>8, FS_Subset
<1> QED
  BY <1>6, <1>7, <1>9

\* Receive: what was in hand is in its place, and is counted.
LEMMA ReceiveStep ==
  ASSUME TypeOK, IInv, [Next]_vars, NEW p \in Players, Receive(p)
  PROVE  IInv'
<1> USE DEF IInv
<1>a. PICK s : s = accepted[p]
  OBVIOUS
<1>0. /\ Threads' = Threads /\ All' = All /\ tnthreads' = tnthreads
      /\ pc[p] = "receive" /\ Goes_On(p) /\ UNCHANGED <<backlog, accepted, told>>
  BY SystemStays DEF Receive
<1>b. s \in All /\ Underway(p, s) /\ s[2] = p /\ Put(p, s[3], s[1], s[4], s)
  BY <1>a, ReceiveAt
<1>1. /\ loop[p].i < p /\ loop[p].i \in Nat /\ loop[p].i < N /\ p \in Nat
      /\ s[1] \in Players /\ s[3] \in Threads /\ s[4] \in Pair /\ s[1] < p /\ s[1] # p
      /\ s = <<s[1], p, s[3], s[4]>>
      /\ Opened(s[1], p, s[3], s[4]) /\ csockets[p][s[3]][s[1]][s[4]] = NoSocket
  BY <1>0, <1>b, OwnPlace, Numbers DEF Underway, All
<1>2. /\ csockets'[p][s[3]][s[1]][s[4]] = s
      /\ \A u, q \in Players, t \in Threads, c \in Pair :
           <<u, t, q, c>> # <<p, s[3], s[1], s[4]>> => csockets'[u][t][q][c] = csockets[u][t][q][c]
  BY <1>b, <1>1, PutAt DEF TypeOK
<1>3. /\ pc'[p] \in {"accept", "connect", "threads"}
      /\ \A q \in Players \ {p} : loop'[q] = loop[q] /\ pc'[q] = pc[q]
  BY <1>0, <1>1, NextTurn
<1>4. \A u, q \in Players, t \in Threads, c \in Pair : u < q =>
        (Opened(u, q, t, c)' <=> Opened(u, q, t, c))
  <2> SUFFICES ASSUME NEW u \in Players, NEW q \in Players, NEW t \in Threads, NEW c \in Pair, u < q
               PROVE  Opened(u, q, t, c)' <=> Opened(u, q, t, c)
    OBVIOUS
  <2>1. CASE u # p
    BY <1>3, <2>1 DEF Opened
  <2>2. CASE u = p
    <3>1. q # p /\ ~(q < loop[p].i) /\ q # loop[p].i
      BY <1>1, <2>2, Numbers
    <3>2. Opened(p, q, t, c)' <=> \/ q < loop[p].i
                                  \/ q = loop[p].i /\ (t < loop[p].j \/ (t = loop[p].j /\ c <= loop[p].k))
      BY <1>0, <1>1, <3>1, OpenedAfter
    <3>3. ~Opened(p, q, t, c)
      BY <3>1 DEF Opened
    <3> QED
      BY <2>2, <3>1, <3>2, <3>3
  <2> QED
    BY <2>1, <2>2
<1>5. LoopsOK'
  BY <1>0, <1>1, LoopsAfter
<1>6. ClientsOK'
  <2> SUFFICES ASSUME NEW u \in Players, NEW q \in Players, NEW t \in Threads, NEW c \in Pair, u < q
               PROVE  csockets'[u][t][q][c] = IF Opened(u, q, t, c)' THEN <<u, q, t, c>> ELSE NoSocket
    BY <1>0 DEF ClientsOK
  <2>1. ~(u = p /\ q = s[1])
    BY <1>1, Numbers
  <2>2. csockets'[u][t][q][c] = csockets[u][t][q][c]
    BY <1>2, <2>1
  <2> QED
    BY <1>4, <2>2 DEF ClientsOK
<1>7. ServersOK'
  <2> SUFFICES ASSUME NEW u \in Players, NEW q \in Players, NEW t \in Threads, NEW c \in Pair
               PROVE  /\ q < u => \/ csockets'[u][t][q][c] = NoSocket
                                  \/ Opened(q, u, t, c)' /\ csockets'[u][t][q][c] = <<q, u, t, c>>
                      /\ u = q => csockets'[u][t][q][c] = NoSocket
    BY <1>0 DEF ServersOK
  <2>1. CASE <<u, t, q, c>> = <<p, s[3], s[1], s[4]>>
    <3>1. Opened(q, u, t, c)'
      BY <1>1, <1>4, <2>1
    <3> QED
      BY <1>1, <1>2, <2>1, <3>1
  <2>2. CASE <<u, t, q, c>> # <<p, s[3], s[1], s[4]>>
    <3>1. csockets'[u][t][q][c] = csockets[u][t][q][c]
      BY <1>2, <2>2
    <3>2. q < u => (Opened(q, u, t, c)' <=> Opened(q, u, t, c))
      BY <1>4
    <3> QED
      BY <3>1, <3>2 DEF ServersOK
  <2> QED
    BY <2>1, <2>2
<1>8. ToldOK'
  BY <1>0 DEF ToldOK
<1>9. \A u \in Players : \A r \in All : Underway(u, r) /\ r # s => Underway(u, r)'
  <2> SUFFICES ASSUME NEW u \in Players, NEW r \in All, Underway(u, r), r # s PROVE Underway(u, r)'
    OBVIOUS
  <2>1. /\ r[1] \in Players /\ r[3] \in Threads /\ r[4] \in Pair /\ r = <<r[1], u, r[3], r[4]>>
        /\ r[1] < u /\ r[2] = u /\ Opened(r[1], u, r[3], r[4])
        /\ csockets[u][r[3]][r[1]][r[4]] = NoSocket
    BY DEF All, Underway
  <2>2. <<u, r[3], r[1], r[4]>> # <<p, s[3], s[1], s[4]>>
    BY <1>1, <2>1
  <2>3. csockets'[u][r[3]][r[1]][r[4]] = NoSocket
    BY <1>2, <2>1, <2>2
  <2>4. Opened(r[1], u, r[3], r[4])'
    BY <1>4, <2>1
  <2> QED
    BY <2>1, <2>3, <2>4 DEF Underway
<1>10. \A u \in Players \ {p} : \A r \in All : Underway(u, r) => r # s
  BY <1>b DEF Underway
<1>11. BacklogsOK'
  <2> SUFFICES ASSUME NEW u \in Players
               PROVE  /\ pc'[u] = "receive" => accepted[u] \in All /\ Underway(u, accepted[u])'
                      /\ \A m \in DOMAIN backlog[u] :
                           /\ Underway(u, backlog[u][m])'
                           /\ pc'[u] = "receive" => backlog[u][m] # accepted[u]
                           /\ \A n \in DOMAIN backlog[u] : backlog[u][m] = backlog[u][n] => m = n
    BY <1>0 DEF BacklogsOK
  <2>1. \A m \in DOMAIN backlog[u] : backlog[u][m] \in All
    BY DEF TypeOK
  <2>2. \A m, n \in DOMAIN backlog[u] : backlog[u][m] = backlog[u][n] => m = n
    BY DEF BacklogsOK
  <2>3. \A m \in DOMAIN backlog[u] : Underway(u, backlog[u][m])
    BY DEF BacklogsOK
  <2>4. \A m \in DOMAIN backlog[u] : backlog[u][m] # s
    <3>1. CASE u = p
      BY <1>0, <1>a, <3>1 DEF BacklogsOK
    <3>2. CASE u # p
      BY <1>10, <2>1, <2>3, <3>2
    <3> QED
      BY <3>1, <3>2
  <2>5. \A m \in DOMAIN backlog[u] : Underway(u, backlog[u][m])'
    BY <1>0, <1>9, <2>1, <2>3, <2>4
  <2>6. pc'[u] = "receive" => u # p /\ pc[u] = "receive"
    BY <1>3
  <2>7. pc'[u] = "receive" => accepted[u] \in All /\ Underway(u, accepted[u]) /\ accepted[u] # s
    BY <1>10, <2>6 DEF BacklogsOK
  <2>8. pc'[u] = "receive" => Underway(u, accepted[u])'
    BY <1>0, <1>9, <2>7
  <2>9. pc'[u] = "receive" => \A m \in DOMAIN backlog[u] : backlog[u][m] # accepted[u]
    BY <2>6 DEF BacklogsOK
  <2> QED
    BY <2>2, <2>5, <2>7, <2>8, <2>9
<1>12. ASSUME NEW u \in Players, NEW x \in Places(u)
       PROVE  /\ x[1] \in Players /\ x[2][1] \in Threads /\ x[2][2] \in Pair
              /\ x = <<x[1], <<x[2][1], x[2][2]>>>>
  <2>1. u \in Nat /\ u < N
    BY Numbers
  <2>2. x[1] \in 0 .. u - 1 /\ x[2] \in Threads \X Pair /\ x = <<x[1], x[2]>>
    BY DEF Places
  <2>3. x[2][1] \in Threads /\ x[2][2] \in Pair /\ x[2] = <<x[2][1], x[2][2]>>
    BY <2>2
  <2>4. x[1] \in Players
    BY <2>1, <2>2, Numbers
  <2> QED
    BY <2>2, <2>3, <2>4
<1>13. CountsOK'
  <2> SUFFICES ASSUME NEW u \in Players PROVE Cardinality(Sorted(u)') = Counted(u)'
    BY DEF CountsOK
  <2>1. Places(u)' = Places(u)
    BY <1>0 DEF Places
  <2>2. CASE u # p
    <3>1. \A x \in Places(u) : csockets'[u][x[2][1]][x[1]][x[2][2]] = csockets[u][x[2][1]][x[1]][x[2][2]]
      BY <1>2, <1>12, <2>2
    <3>2. Sorted(u)' = Sorted(u)
      BY <2>1, <3>1 DEF Sorted
    <3>3. Counted(u)' = Counted(u)
      BY <1>0, <1>3, <2>2 DEF Counted
    <3> QED
      BY <3>2, <3>3 DEF CountsOK
  <2>3. CASE u = p
    <3> DEFINE y == <<s[1], <<s[3], s[4]>>>>
    <3>1. y \in Places(p) /\ y[1] = s[1] /\ y[2][1] = s[3] /\ y[2][2] = s[4]
      <4>1. s[1] \in 0 .. p - 1
        BY <1>1, Numbers
      <4> QED
        BY <1>1, <4>1 DEF Places
    <3>2. csockets'[p][s[3]][s[1]][s[4]] # NoSocket
      <4>1. \A b, c, d, e : <<b, c, d, e>> # <<>>
        OBVIOUS
      <4>2. s = <<s[1], p, s[3], s[4]>>
        BY <1>1
      <4>3. s # <<>>
        BY <4>1, <4>2
      <4> QED
        BY <1>2, <4>3 DEF NoSocket
    <3>3. \A x \in Places(p) : x # y =>
            csockets'[p][x[2][1]][x[1]][x[2][2]] = csockets[p][x[2][1]][x[1]][x[2][2]]
      <4> SUFFICES ASSUME NEW x \in Places(p), x # y
                   PROVE  csockets'[p][x[2][1]][x[1]][x[2][2]] = csockets[p][x[2][1]][x[1]][x[2][2]]
        OBVIOUS
      <4>1. /\ x[1] \in Players /\ x[2][1] \in Threads /\ x[2][2] \in Pair
            /\ x = <<x[1], <<x[2][1], x[2][2]>>>>
        BY <1>12
      <4>2. <<p, x[2][1], x[1], x[2][2]>> # <<p, s[3], s[1], s[4]>>
        BY <4>1
      <4> QED
        BY <1>2, <4>1, <4>2
    <3>4. y \notin Sorted(p)
      BY <1>1, <3>1 DEF Sorted
    <3> HIDE DEF y
    <3>5. Sorted(p)' = Sorted(p) \cup {y}
      BY <2>1, <2>3, <3>1, <3>2, <3>3 DEF Sorted
    <3>6. IsFiniteSet(Sorted(p))
      BY PlacesCounted
    <3>7. Cardinality(Sorted(p) \cup {y}) = Cardinality(Sorted(p)) + 1
      BY <3>4, <3>6, FS_AddElement
    <3>8. Counted(p)' = Counted(p) + 1
      BY <1>0, <1>1, CountedAfter
    <3> QED
      BY <2>3, <3>5, <3>7, <3>8 DEF CountsOK
  <2> QED
    BY <2>2, <2>3
<1> QED
  BY <1>5, <1>6, <1>7, <1>8, <1>11, <1>13

-----------------------------------------------------------------------------
(* The invariant.                                                          *)

\* At the start nothing is open.
LEMMA InvInit == Init => TypeOK /\ IInv
<1> SUFFICES ASSUME Init PROVE TypeOK /\ IInv
  OBVIOUS
<1>1. /\ system \in Systems /\ pc = [p \in Players |-> "listen"]
      /\ loop = [p \in Players |-> At(IF p = 0 THEN 1 ELSE 0, 0, 0)]
      /\ backlog = [p \in Players |-> <<>>] /\ accepted = [p \in Players |-> NoSocket] /\ told = {}
      /\ csockets = [p \in Players |-> [t \in Threads |-> [q \in Players |-> [c \in Pair |-> NoSocket]]]]
  BY DEF Init
<1>2. /\ N \in Nat /\ N >= 1 /\ Players = 0 .. N - 1 /\ Pair = {0, 1} /\ tnthreads \in Nat
      /\ tnthreads >= 1 /\ 0 \in Threads
  BY <1>1, NumbersAt
<1>3. ASSUME NEW p \in Players
      PROVE  /\ loop[p].i = (IF p = 0 THEN 1 ELSE 0) /\ loop[p].j = 0 /\ loop[p].k = 0
             /\ loop[p] \in [i : 0 .. N, j : Threads, k : Pair] /\ pc[p] = "listen"
             /\ loop[p] = At(IF p = 0 THEN 1 ELSE 0, 0, 0)
  <2>1. loop[p] = At(IF p = 0 THEN 1 ELSE 0, 0, 0) /\ pc[p] = "listen"
    BY <1>1
  <2>2. /\ loop[p].i = (IF p = 0 THEN 1 ELSE 0) /\ loop[p].j = 0 /\ loop[p].k = 0
    BY <2>1 DEF At
  <2>3. (IF p = 0 THEN 1 ELSE 0) \in 0 .. N /\ 0 \in Pair
    BY <1>2
  <2>4. loop[p] \in [i : 0 .. N, j : Threads, k : Pair]
    BY <1>2, <2>1, <2>3 DEF At
  <2> QED
    BY <2>1, <2>2, <2>4
<1>4. \A p, q \in Players, t \in Threads, c \in Pair : csockets[p][t][q][c] = NoSocket
  BY <1>1
<1>5. TypeOK
  <2>1. loop \in [Players -> [i : 0 .. N, j : Threads, k : Pair]]
    BY <1>1, <1>3
  <2>2. csockets \in [Players -> Sockets]
    BY <1>1 DEF Sockets
  <2>3. backlog \in [Players -> Seq(All)]
    BY <1>1
  <2> QED
    BY <1>1, <2>1, <2>2, <2>3 DEF TypeOK, Points
<1>6. LoopsOK
  BY <1>2, <1>3 DEF LoopsOK
<1>7. \A p, q \in Players, t \in Threads, c \in Pair : p < q => ~Opened(p, q, t, c)
  <2> SUFFICES ASSUME NEW p \in Players, NEW q \in Players, NEW t \in Threads, NEW c \in Pair, p < q
               PROVE  ~Opened(p, q, t, c)
    OBVIOUS
  <2>1. p \in Nat /\ q \in Nat /\ t \in Nat /\ c \in {0, 1}
    BY <1>1, <1>2, NumbersAt
  <2>2. loop[p].i = (IF p = 0 THEN 1 ELSE 0) /\ loop[p].j = 0 /\ loop[p].k = 0
    BY <1>3
  <2>3. pc[p] = "listen"
    BY <1>3
  <2> QED
    BY <2>1, <2>2, <2>3 DEF Opened
<1>8. ClientsOK
  BY <1>4, <1>7 DEF ClientsOK
<1>9. ServersOK
  BY <1>4 DEF ServersOK
<1>10. ToldOK
  BY <1>1 DEF ToldOK
<1>11. BacklogsOK
  BY <1>1, <1>3 DEF BacklogsOK
<1>12. CountsOK
  <2> SUFFICES ASSUME NEW p \in Players PROVE Cardinality(Sorted(p)) = Counted(p)
    BY DEF CountsOK
  <2>1. p \in Nat /\ p < N
    BY <1>2
  <2>2. \A x \in Places(p) : x[1] \in Players /\ x[2][1] \in Threads /\ x[2][2] \in Pair
    BY <1>2, <2>1 DEF Places
  <2>3. Sorted(p) = {}
    BY <1>4, <2>2 DEF Sorted
  <2>4. tnthreads * 0 = 0
    BY <1>2
  <2>5. Counted(p) = 0
    <3>1. CASE p = 0
      BY <1>3, <2>4, <3>1 DEF Counted
    <3>2. CASE p # 0
      BY <1>3, <2>1, <2>4, <3>2 DEF Counted
    <3> QED
      BY <3>1, <3>2
  <2> QED
    BY <2>3, <2>5, FS_EmptySet
<1> QED
  BY <1>5, <1>6, <1>8, <1>9, <1>10, <1>11, <1>12 DEF IInv

(* Through all of Get_Connections every connection is in no place, on its  *)
(* way, or in the place it was made for, and the loops count what is sorted.*)
THEOREM Invariant == Spec => [](TypeOK /\ IInv)
<1>1. Init => TypeOK /\ IInv
  BY InvInit
<1>2. TypeOK /\ IInv /\ [Next]_vars => (TypeOK /\ IInv)'
  <2> SUFFICES ASSUME TypeOK, IInv, [Next]_vars PROVE TypeOK' /\ IInv'
    OBVIOUS
  <2>1. TypeOK'
    BY TypeStep
  <2>2. IInv'
    BY OutsideStep, OpenConnectionStep, IdentifyStep, AcceptStep, ReceiveStep DEF Next
  <2> QED
    BY <2>1, <2>2
<1> QED
  BY <1>1, <1>2, PTL DEF Spec

(* "even though we dont know i is correct": what a thread takes for its    *)
(* connection to the same thread of another player is that one.            *)
THEOREM Paired == Spec => []SocketsPaired
<1>1. TypeOK /\ IInv => SocketsPaired
  <2> SUFFICES ASSUME TypeOK, IInv, NEW p \in Players, NEW q \in Players,
                      NEW t \in Threads, NEW c \in Pair
               PROVE  /\ p # q => \/ csockets[p][t][q][c] \in {NoSocket, csockets[q][t][p][c]}
                                  \/ csockets[q][t][p][c] = NoSocket
                      /\ p = q => csockets[p][t][q][c] = NoSocket
    BY DEF SocketsPaired
  <2>1. p \in Nat /\ q \in Nat
    BY Numbers
  <2>2. CASE p < q
    <3>1. csockets[p][t][q][c] \in {NoSocket, <<p, q, t, c>>}
      BY <2>2 DEF IInv, ClientsOK
    <3>2. csockets[q][t][p][c] \in {NoSocket, <<p, q, t, c>>}
      BY <2>2 DEF IInv, ServersOK
    <3> QED
      BY <2>1, <2>2, <3>1, <3>2
  <2>3. CASE q < p
    <3>1. csockets[q][t][p][c] \in {NoSocket, <<q, p, t, c>>}
      BY <2>3 DEF IInv, ClientsOK
    <3>2. csockets[p][t][q][c] \in {NoSocket, <<q, p, t, c>>}
      BY <2>3 DEF IInv, ServersOK
    <3> QED
      BY <2>1, <2>3, <3>1, <3>2
  <2>4. p = q => csockets[p][t][q][c] = NoSocket
    BY DEF IInv, ServersOK
  <2> QED
    BY <2>1, <2>2, <2>3, <2>4
<1> QED
  BY <1>1, Invariant, PTL

(* A player that starts its threads has all its connections, though it has *)
(* only counted those it accepted.                                         *)
THEOREM Complete == Spec => []AllThere
<1>1. TypeOK /\ IInv => AllThere
  <2> SUFFICES ASSUME TypeOK, IInv, NEW p \in Players, pc[p] = "threads",
                      NEW q \in Players \ {p}, NEW t \in Threads, NEW c \in Pair
               PROVE  csockets[p][t][q][c] # NoSocket
    BY DEF AllThere
  <2>0. \A b, d, e, f : <<b, d, e, f>> # NoSocket
    BY DEF NoSocket
  <2>1. p \in Nat /\ q \in Nat /\ p < N /\ q < N /\ N \in Nat /\ loop[p].i = N
    BY Numbers DEF IInv, LoopsOK
  <2>2. CASE p < q
    <3>1. Opened(p, q, t, c)
      BY <2>1 DEF Opened
    <3>2. csockets[p][t][q][c] = <<p, q, t, c>>
      BY <2>2, <3>1 DEF IInv, ClientsOK
    <3> QED
      BY <2>0, <3>2
  <2>3. CASE q < p
    <3>1. Cardinality(Sorted(p)) = 2 * (tnthreads * p)
      BY <2>1 DEF IInv, CountsOK, Counted
    <3>2. Sorted(p) \in SUBSET Places(p)
      BY DEF Sorted
    <3>3. IsFiniteSet(Places(p)) /\ Cardinality(Places(p)) = 2 * (tnthreads * p)
      BY PlacesCounted
    <3>4. Places(p) = Sorted(p)
      BY <3>1, <3>2, <3>3, FS_Subset
    <3> DEFINE y == <<q, <<t, c>>>>
    <3>5. y \in Places(p) /\ y[1] = q /\ y[2][1] = t /\ y[2][2] = c
      BY <2>1, <2>3 DEF Places
    <3> HIDE DEF y
    <3> QED
      BY <3>4, <3>5 DEF Sorted
  <2> QED
    BY <2>1, <2>2, <2>3
<1> QED
  BY <1>1, Invariant, PTL

-----------------------------------------------------------------------------
(* The roles.                                                              *)

\* What thread_num and Main_Func make of the i-th thread between them.
LEMMA RoleOf ==
  ASSUME system \in Systems, Numbered, NEW i \in Threads
  PROVE  /\ i < nthreads => Role(thread_num(i)) = <<Phases[(i % 5) + 1], i \div 5>>
         /\ i >= nthreads /\ system.fhe > 0
              => Role(thread_num(i)) = <<"factory", i - nthreads>> /\ i - nthreads < system.fhe
         /\ i >= nthreads /\ system.fhe = 0
              => Role(thread_num(i)) = <<"OT", 0>> /\ system.ot = 1
<1> DEFINE online == system.online
           fhe == system.fhe
           ot == system.ot
<1>1. online \in Nat /\ fhe \in Nat /\ ot \in {0, 1}
  BY NumbersAt
<1>2. online <= 2000 /\ fhe <= 10000 /\ (fhe = 0 \/ ot = 0)
  BY DEF Numbered
<1>3. i \in Nat /\ i < tnthreads
  BY NumbersAt
<1>4. nthreads = 5 * online /\ tnthreads = nthreads + fhe + ot
  BY DEF nthreads, tnthreads
<1>5. nthreads \in Nat /\ nthreads <= 10000
  BY <1>1, <1>2, <1>4
<1>6. /\ thread_num(i) = (IF i < nthreads THEN i
                          ELSE IF i < tnthreads + fhe - 1 THEN 10000 + (i - nthreads) ELSE 20000)
      /\ \A num : Role(num) = (IF num < 10000 THEN <<Phases[(num % 5) + 1], num \div 5>>
                               ELSE IF num < 20000 THEN <<"factory", num - 10000>>
                               ELSE <<IF ot = 1 THEN "OT" ELSE "none", 0>>)
  BY DEF thread_num, Role
<1> HIDE DEF online, fhe, ot
<1>7. ASSUME i < nthreads
      PROVE  Role(thread_num(i)) = <<Phases[(i % 5) + 1], i \div 5>>
  <2>1. thread_num(i) = i /\ i < 10000
    BY <1>3, <1>5, <1>6, <1>7
  <2> QED
    BY <1>6, <2>1
<1>8. ASSUME i >= nthreads, fhe > 0
      PROVE  Role(thread_num(i)) = <<"factory", i - nthreads>> /\ i - nthreads < fhe
  <2>1. ot = 0 /\ i - nthreads \in Nat /\ i - nthreads < fhe /\ i < tnthreads + fhe - 1
    BY <1>1, <1>2, <1>3, <1>4, <1>5, <1>8
  <2>2. thread_num(i) = 10000 + (i - nthreads)
    BY <1>3, <1>5, <1>6, <1>8, <2>1
  <2> DEFINE n == i - nthreads
  <2>3. n \in Nat /\ n < 10000 /\ thread_num(i) = 10000 + n
    BY <1>1, <1>2, <2>1, <2>2
  <2> HIDE DEF n
  <2>4. ~(10000 + n < 10000) /\ 10000 + n < 20000 /\ (10000 + n) - 10000 = n
    BY <2>3
  <2>5. Role(10000 + n) = <<"factory", (10000 + n) - 10000>>
    BY <1>6, <2>4
  <2> QED
    BY <2>1, <2>3, <2>4, <2>5 DEF n
<1>9. ASSUME i >= nthreads, fhe = 0
      PROVE  Role(thread_num(i)) = <<"OT", 0>> /\ ot = 1
  <2>1. ot = 1 /\ ~(i < tnthreads + fhe - 1)
    BY <1>1, <1>3, <1>4, <1>5, <1>9
  <2>2. thread_num(i) = 20000
    BY <1>3, <1>5, <1>6, <1>9, <2>1
  <2> QED
    BY <1>6, <2>1, <2>2
<1> QED
  BY <1>1, <1>3, <1>5, <1>7, <1>8, <1>9 DEF online, fhe, ot

\* Which phase of which online thread a number is, and back.
LEMMA PhaseAt ==
  ASSUME NEW online \in Nat
  PROVE  /\ \A i \in Nat : i < 5 * online => (i % 5) + 1 \in 1 .. 5 /\ i \div 5 \in 0 .. online - 1
         /\ \A n \in 1 .. 5, m \in 0 .. online - 1 :
              LET i == 5 * m + (n - 1)
              IN  i \in Nat /\ i < 5 * online /\ (i % 5) + 1 = n /\ i \div 5 = m
<1>1. ASSUME NEW i \in Nat, i < 5 * online
      PROVE  (i % 5) + 1 \in 1 .. 5 /\ i \div 5 \in 0 .. online - 1
  BY <1>1
<1>2. ASSUME NEW n \in 1 .. 5, NEW m \in 0 .. online - 1
      PROVE  LET i == 5 * m + (n - 1)
             IN  i \in Nat /\ i < 5 * online /\ (i % 5) + 1 = n /\ i \div 5 = m
  BY <1>2
<1> QED
  BY <1>1, <1>2

\* No thread has a role that is not asked for, and every role that is has one.
LEMMA RolesAre ==
  ASSUME system \in Systems, Numbered
  PROVE  RolesRight
<1> DEFINE Took == {Role(thread_num(i)) : i \in Threads}
           Turns == {Phases[n] : n \in 1 .. 5} \X (0 .. system.online - 1)
           Factories == {"factory"} \X (0 .. system.fhe - 1)
           Extra == IF system.ot = 1 THEN {<<"OT", 0>>} ELSE {}
<1>1. /\ system.online \in Nat /\ system.fhe \in Nat /\ system.ot \in {0, 1}
      /\ nthreads = 5 * system.online /\ tnthreads = nthreads + system.fhe + system.ot
      /\ system.fhe = 0 \/ system.ot = 0
  BY NumbersAt DEF nthreads, tnthreads, Numbered
<1>2. \A i : i \in Threads <=> i \in Nat /\ i < tnthreads
  BY NumbersAt
<1>3. ASSUME NEW i \in Threads
      PROVE  Role(thread_num(i)) \in Turns \cup Factories \cup Extra
  <2>1. CASE i < nthreads
    <3>1. (i % 5) + 1 \in 1 .. 5 /\ i \div 5 \in 0 .. system.online - 1
      BY <1>1, <1>2, <2>1, PhaseAt
    <3>2. Role(thread_num(i)) = <<Phases[(i % 5) + 1], i \div 5>>
      BY <2>1, RoleOf
    <3> QED
      BY <3>1, <3>2
  <2>2. CASE i >= nthreads /\ system.fhe > 0
    <3>1. Role(thread_num(i)) = <<"factory", i - nthreads>> /\ i - nthreads < system.fhe
      BY <2>2, RoleOf
    <3>2. i - nthreads \in 0 .. system.fhe - 1
      BY <1>1, <1>2, <2>2, <3>1
    <3> QED
      BY <3>1, <3>2
  <2>3. CASE i >= nthreads /\ system.fhe = 0
    BY <2>3, RoleOf
  <2> QED
    BY <1>1, <1>2, <2>1, <2>2, <2>3
<1>4. ASSUME NEW r \in Turns
      PROVE  r \in Took
  <2>1. PICK n \in 1 .. 5, m \in 0 .. system.online - 1 : r = <<Phases[n], m>>
    OBVIOUS
  <2> DEFINE i == 5 * m + (n - 1)
  <2>2. i \in Nat /\ i < 5 * system.online /\ (i % 5) + 1 = n /\ i \div 5 = m
    BY <1>1, PhaseAt
  <2> HIDE DEF i
  <2>3. i \in Threads /\ i < nthreads
    BY <1>1, <1>2, <2>2
  <2>4. Role(thread_num(i)) = r
    BY <2>1, <2>2, <2>3, RoleOf
  <2> QED
    BY <2>3, <2>4
<1>5. ASSUME NEW r \in Factories
      PROVE  r \in Took
  <2>1. PICK m \in 0 .. system.fhe - 1 : r = <<"factory", m>>
    OBVIOUS
  <2> DEFINE i == nthreads + m
  <2>2. i \in Nat /\ i < tnthreads /\ i >= nthreads /\ i - nthreads = m /\ system.fhe > 0
    BY <1>1
  <2> HIDE DEF i
  <2>3. i \in Threads
    BY <1>2, <2>2
  <2>4. Role(thread_num(i)) = r
    BY <2>1, <2>2, <2>3, RoleOf
  <2> QED
    BY <2>3, <2>4
<1>6. ASSUME NEW r \in Extra
      PROVE  r \in Took
  <2>1. r = <<"OT", 0>> /\ system.ot = 1 /\ system.fhe = 0
    BY <1>1
  <2>2. nthreads \in Nat /\ nthreads < tnthreads /\ nthreads >= nthreads
    BY <1>1, <2>1
  <2>3. nthreads \in Threads
    BY <1>2, <2>2
  <2>4. Role(thread_num(nthreads)) = r
    BY <2>1, <2>2, <2>3, RoleOf
  <2> QED
    BY <2>3, <2>4
<1>7. Took = Turns \cup Factories \cup Extra
  <2>1. Took \subseteq Turns \cup Factories \cup Extra
    BY <1>3
  <2>2. Turns \subseteq Took /\ Factories \subseteq Took /\ Extra \subseteq Took
    BY <1>4, <1>5, <1>6
  <2> HIDE DEF Took, Turns, Factories, Extra
  <2> QED
    BY <2>1, <2>2
<1> QED
  BY <1>7 DEF RolesRight

(* The threads have just the roles the counts ask for, as long as there    *)
(* are not too many of them and not factories and the OT thread both.      *)
THEOREM RolesFit == Numbered => (Spec => []RolesRight)
<1> SUFFICES ASSUME Numbered PROVE Spec => []RolesRight
  OBVIOUS
<1>1. TypeOK /\ IInv => RolesRight
  BY RolesAre DEF TypeOK
<1> QED
  BY <1>1, Invariant, PTL

(* A thread that starts talks to the thread of its own number and role at  *)
(* every other player, on two connections of its own.                      *)
THEOREM Meet == Numbered => (Spec => []ThreadsMeet)
<1> SUFFICES ASSUME Numbered PROVE Spec => []ThreadsMeet
  OBVIOUS
<1>1. SocketsPaired /\ AllThere /\ RolesRight => ThreadsMeet
  BY DEF ThreadsMeet
<1>2. Spec => []RolesRight
  BY RolesFit
<1> QED
  BY <1>1, <1>2, Paired, Complete, PTL
=============================================================================
