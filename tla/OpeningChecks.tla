--------------------------- MODULE OpeningChecks ---------------------------
(***************************************************************************)
(* Proofs about what the checks of Open_Protocol and Player cover: if at   *)
(* most one value is wrong, nothing wrong passes a check, and nothing is   *)
(* left out of the next one.                                               *)
(*                                                                         *)
(* What goes through the connections, and what a player keeps of it, is    *)
(* told by the rounds all players go through (OpeningProofs) and by what   *)
(* the one who says it has opened, entered and broadcast.                  *)
(***************************************************************************)
EXTENDS OpeningProofs

-----------------------------------------------------------------------------
(* What was said, and what it was about.  H is a trace, at[p] the round of *)
(* p, S[p], T[p] and G[p] its state, the steps it has left and what it has *)
(* read, X[p] what it has opened, entered and broadcast, and U[p] how much *)
(* of this is covered; C is what is on the connections.                    *)

\* v is what q has of p from round n: on the way, or read in the round of q.
OnWire(H, at, T, C, p, q, v, n) ==
  \E c \in Connections : \E j \in 1 .. Len(C[c][p][q]) :
    /\ v = C[c][p][q][j].val
    /\ n = Wrote(H[at[p]], at[p], c, p, q, T[p])[Read(H[at[q]], c, p, q, T[q]) + j]

InHand(H, at, T, G, p, q, v, n) ==
  \E c \in Connections : /\ Reads(H[at[q]], c, p, q) /\ ~Left(T[q], "receive", p)
                         /\ v = G[q][p] /\ n = Expected(H[at[q]], at[q], c)

Held(H, at, T, C, G, p, q, v, n) == OnWire(H, at, T, C, p, q, v, n) \/ InHand(H, at, T, G, p, q, v, n)

\* The last n of the first l entries of x.
Window(x, l, n) == [i \in 1 .. n |-> x[l - n + i]]

\* What a player with the past Y has heard of the broadcasts that are not
\* checked at h is right.
CastsRight(Y, h) == \A j \in Len(h.cast) - h.casts + 1 .. Len(h.cast) : Y.cast[j] = h.cast[j]

\* v is what a player with the past Y says in the rounds that compare.
Exactly(v, Y, h) ==
  /\ Round(h) \in {"reveal", "hash"} => v = Window(Y.opened, Len(h.opened), h.fresh)
  /\ Round(h) = "aux" => v = Window(Y.pub, Len(h.pub), h.pubs)
  /\ Round(h) = "same" => (v = h.bcast <=> CastsRight(Y, h))

\* v is the right thing for p to say in a round that gives a value.
Right(v, h, p) ==
  /\ Round(h) = "begin" => v = Opened(h)
  /\ Round(h) = "cast" => v = Words(h)[p]

\* As much was opened, entered and broadcast in Y as before h, or at least.
Sized(Y, h) == Len(Y.opened) = Len(h.opened) /\ Len(Y.pub) = Len(h.pub) /\ Len(Y.cast) = Len(h.cast)
Spans(Y, h) == Len(Y.opened) >= Len(h.opened) /\ Len(Y.pub) >= Len(h.pub) /\ Len(Y.cast) >= Len(h.cast)

\* s is of a player with the past Y at h: it has what is to be checked.
Keeps(s, Y, h) ==
  /\ Sized(Y, h)
  /\ type = "Full" => /\ s.vals = Window(Y.opened, Len(h.opened), h.fresh)
                      /\ s.macs = [i \in 1 .. h.fresh |-> s.vals[i].id]
  /\ type # "Full" => s.sha256 = Window(Y.opened, Len(h.opened), h.fresh)
  /\ s.pub = Window(Y.pub, Len(h.pub), h.pubs)
  /\ Len(s.bcast) = Len(h.bcast) /\ (s.bcast = h.bcast <=> CastsRight(Y, h))

\* What a player at h has checked, with the past of all in X.
Opens(X, h) == \A q \in Players : \A j \in 1 .. Len(h.opened) - h.fresh : j <= Len(X[q].opened) /\ X[q].opened[j] = h.opened[j]
Casts(X, h) == \A q \in Players : \A j \in 1 .. Len(h.cast) - h.casts : j <= Len(X[q].cast) /\ X[q].cast[j] = h.cast[j]
Enters(X, p, h) == \A q \in Players : \A j \in 1 .. Len(h.pub) - h.pubs : j <= Len(X[q].pub) /\ X[q].pub[j] = X[p].pub[j]
Covers(u, h) ==
  u.opened <= Len(h.opened) - h.fresh /\ u.cast <= Len(h.cast) - h.casts /\ u.pub <= Len(h.pub) - h.pubs
Checked(X, u, p, h) == Opens(X, h) /\ Casts(X, h) /\ Enters(X, p, h) /\ Covers(u, h)

MailOK(H, at, T, C, G) ==
  \A p, q \in Players : \A v, n : Held(H, at, T, C, G, p, q, v, n) =>
    n \in Nat /\ n <= at[p] /\ v \in Seq(Entry) /\ (Round(H[n]) = "cast" => Len(v) = 1)

\* Nothing was made wrong in a round that compares.
Exact(H, at, T, C, G, X) ==
  \A p, q \in Players : \A v, n : Held(H, at, T, C, G, p, q, v, n) => Exactly(v, X[p], H[n])

\* All that z has opened and heard, and is to, is right.
RightAt(H, at, T, C, G, X, z) ==
  /\ X[z].opened = H[at[z]].opened /\ X[z].cast = H[at[z]].cast
  /\ \A p \in Players : \A v, n : Held(H, at, T, C, G, p, z, v, n) => Right(v, H[n], p)

EntersRight(H, at, X, z) == X[z].pub = H[at[z]].pub

Honest(H, at, T, C, G, X) ==
  Exact(H, at, T, C, G, X) /\ \A z \in Players : RightAt(H, at, T, C, G, X, z) /\ EntersRight(H, at, X, z)

\* Whatever is wrong was made wrong at one place: not in what is compared and
\* not at every player, or only in what is compared.
Sound(H, at, S, T, C, G, X, U, f) ==
  /\ \A p \in Players : Keeps(S[p], X[p], H[at[p]]) /\ Checked(X, U[p], p, H[at[p]])
  /\ MailOK(H, at, T, C, G)
  /\ f = 0 => Honest(H, at, T, C, G, X)
  /\ \/ Exact(H, at, T, C, G, X) /\ \E y \in Players : RightAt(H, at, T, C, G, X, y)
     \/ \A z \in Players : RightAt(H, at, T, C, G, X, z) /\ EntersRight(H, at, X, z)

-----------------------------------------------------------------------------
(* What is added to a trace stays.                                         *)

Grows(x, y) == Len(x) <= Len(y) /\ \A j \in 1 .. Len(x) : y[j] = x[j]

\* What was opened, entered and broadcast stays.
Later(Y, Z) == Grows(Y.opened, Z.opened) /\ Grows(Y.pub, Z.pub) /\ Grows(Y.cast, Z.cast)

\* What a round adds to the past of the trace.
LEMMA PastAfter ==
  ASSUME NEW h, NEW n
  PROVE  /\ Following(h, n).opened = IF Round(h) = "end" THEN h.opened \o Opened(h) ELSE h.opened
         /\ Following(h, n).pub = IF Round(h) = "pub" THEN Append(h.pub, Input(h)) ELSE h.pub
         /\ Following(h, n).cast = IF Round(h) = "cast" THEN Append(h.cast, Words(h)) ELSE h.cast
         /\ Following(h, n).fresh = IF Round(h) = "end" THEN h.fresh + Len(Opened(h))
                                     ELSE IF Round(h) \in {"reveal", "hash"} THEN 0 ELSE h.fresh
         /\ Following(h, n).pubs = IF Round(h) = "pub" THEN h.pubs + 1 ELSE IF Round(h) = "aux" THEN 0 ELSE h.pubs
         /\ Following(h, n).casts = IF Round(h) = "cast" THEN h.casts + 1 ELSE IF Round(h) = "same" THEN 0 ELSE h.casts
         /\ Following(h, n).bcast = IF Round(h) = "cast" THEN h.bcast \o FlattenSeq([i \in 1 .. N |-> Words(h)[i - 1]])
                                     ELSE IF Round(h) = "same" THEN <<>> ELSE h.bcast
BY DEF Following

LEMMA GrowsIs ==
  ASSUME NEW Q, NEW x \in Seq(Q), NEW y \in Seq(Q)
  PROVE  /\ Grows(x, x)
         /\ Grows(x, x \o y)
         /\ \A e \in Q : Grows(x, Append(x, e))
<1>1. Grows(x, x)
  BY DEF Grows
<1>2. Grows(x, x \o y)
  BY ConcatProperties DEF Grows
<1>3. ASSUME NEW e \in Q PROVE Grows(x, Append(x, e))
  BY AppendProperties DEF Grows
<1> QED
  BY <1>1, <1>2, <1>3

LEMMA GrowsOn ==
  ASSUME NEW Q, NEW x \in Seq(Q), NEW y \in Seq(Q), NEW z \in Seq(Q), Grows(x, y), Grows(y, z)
  PROVE  Grows(x, z)
<1>1. Len(x) \in Nat /\ Len(y) \in Nat /\ Len(z) \in Nat
  OBVIOUS
<1>2. Len(x) <= Len(y) /\ (\A j \in 1 .. Len(x) : y[j] = x[j]) /\ Len(y) <= Len(z) /\ \A j \in 1 .. Len(y) : z[j] = y[j]
  BY DEF Grows
<1>3. \A j \in 1 .. Len(x) : j \in 1 .. Len(y)
  BY <1>1, <1>2
<1> QED
  BY <1>1, <1>2, <1>3 DEF Grows

\* The fields of a round that say what was opened, entered and broadcast.
LEMMA PastIs ==
  ASSUME NEW h \in Here
  PROVE  /\ h.opened \in Seq(Entry) /\ h.pub \in Seq(Entry) /\ h.cast \in Seq(Speech) /\ h.bcast \in Seq(Entry)
         /\ Len(h.opened) \in Nat /\ Len(h.pub) \in Nat /\ Len(h.cast) \in Nat
         /\ h.fresh \in Nat /\ h.pubs \in Nat /\ h.casts \in Nat /\ h.open_cnt \in Nat
BY DEF Here

LEMMA LaterNext ==
  ASSUME Setting, NEW h \in Here, RoundsOK(h), NEW n \in Nat
  PROVE  Later(h, Following(h, n))
<1> DEFINE g == Following(h, n)
<1>1. /\ g.opened = IF Round(h) = "end" THEN h.opened \o Opened(h) ELSE h.opened
      /\ g.pub = IF Round(h) = "pub" THEN Append(h.pub, Input(h)) ELSE h.pub
      /\ g.cast = IF Round(h) = "cast" THEN Append(h.cast, Words(h)) ELSE h.cast
  BY PastAfter
<1> HIDE DEF g
<1>2. h.opened \in Seq(Entry) /\ h.pub \in Seq(Entry) /\ h.cast \in Seq(Speech)
  BY PastIs
<1>3. Grows(h.opened, g.opened)
  <2>1. CASE Round(h) = "end"
    <3>1. h.pc \in 1 .. Len(prog)
      BY <2>1, RoundIs
    <3>2. Opened(h) \in Seq(Entry)
      BY <3>1, SettingIs, OpenedIs
    <3> QED
      BY <1>1, <1>2, <2>1, <3>2, GrowsIs
  <2>2. CASE Round(h) # "end"
    BY <1>1, <1>2, <2>2, GrowsIs
  <2> QED
    BY <2>1, <2>2
<1>4. Grows(h.pub, g.pub)
  BY <1>1, <1>2, WordsIs, GrowsIs
<1>5. Grows(h.cast, g.cast)
  BY <1>1, <1>2, WordsIs, GrowsIs
<1> QED
  BY <1>3, <1>4, <1>5 DEF Later, g

\* The rounds of a trace and what they keep of the rounds before.
LEMMA TraceGrows ==
  ASSUME Setting, NEW H, Trace(H), NEW m \in Nat, NEW n \in Nat, m <= n
  PROVE  H[m] \in Here /\ H[n] \in Here /\ Later(H[m], H[n])
<1> DEFINE T == {k \in Nat : Later(H[m], H[m + k])}
<1>1. ASSUME NEW x \in Nat PROVE H[x] \in Here /\ RoundsOK(H[x]) /\ H[x + 1] = Following(H[x], x)
  BY TraceFacts DEF RoundFacts, Trace
<1>2. 0 \in T
  <2>1. m + 0 = m
    OBVIOUS
  <2>2. Later(H[m], H[m])
    BY <1>1, PastIs, GrowsIs DEF Later
  <2> QED
    BY <2>1, <2>2
<1>3. ASSUME NEW k \in Nat, k \in T PROVE k + 1 \in T
  <2>1. m + k \in Nat /\ (m + k) + 1 = m + (k + 1)
    OBVIOUS
  <2> DEFINE a == H[m]
             b == H[m + k]
             d == H[m + (k + 1)]
  <2>2. d = Following(b, m + k) /\ RoundsOK(b)
    BY <1>1, <2>1
  <2>3. a \in Here /\ b \in Here /\ d \in Here
    BY <1>1, <2>1
  <2>4. Later(a, b)
    BY <1>3
  <2> HIDE DEF a, b, d
  <2>5. Later(b, d)
    BY <2>1, <2>2, <2>3, LaterNext
  <2>6. Later(a, d)
    <3>1. Grows(a.opened, d.opened)
      BY <2>3, <2>4, <2>5, PastIs, GrowsOn DEF Later
    <3>2. Grows(a.pub, d.pub)
      BY <2>3, <2>4, <2>5, PastIs, GrowsOn DEF Later
    <3>3. Grows(a.cast, d.cast)
      BY <2>3, <2>4, <2>5, PastIs, GrowsOn DEF Later
    <3> QED
      BY <3>1, <3>2, <3>3 DEF Later
  <2> QED
    BY <2>6 DEF a, d
<1> HIDE DEF T
<1>4. \A k \in Nat : k \in T
  BY <1>2, <1>3, Induct
<1>5. n - m \in Nat /\ m + (n - m) = n
  OBVIOUS
<1>6. n - m \in T
  BY <1>4, <1>5
<1>7. Later(H[m], H[n])
  BY <1>5, <1>6 DEF T
<1> QED
  BY <1>1, <1>7

-----------------------------------------------------------------------------
(* The checks that a program asks for look at the public inputs.           *)

Asks(h) == Call(h).op \in {"CHECK", "PRIVATE_OUTPUT"}

AskedOK(h) ==
  h.rounds # <<>> /\ Asks(h) => /\ Len(h.rounds) >= 2 => h.rounds[Len(h.rounds) - 1] = "aux"
                                /\ Len(h.rounds) = 1 => h.pubs = 0

\* One sequence after another.
LEMMA Join ==
  ASSUME NEW Q, NEW s \in Seq(Q), NEW t \in Seq(Q)
  PROVE  /\ s \o t \in Seq(Q) /\ Len(s \o t) = Len(s) + Len(t) /\ Len(s) \in Nat /\ Len(t) \in Nat
         /\ \A i \in 1 .. Len(s) : (s \o t)[i] = s[i]
         /\ \A i \in 1 .. Len(t) : (s \o t)[Len(s) + i] = t[i]
<1>1. s \o t \in Seq(Q) /\ Len(s \o t) = Len(s) + Len(t) /\ Len(s) \in Nat /\ Len(t) \in Nat
  BY ConcatProperties
<1>2. \A i \in 1 .. Len(s) + Len(t) : (s \o t)[i] = IF i <= Len(s) THEN s[i] ELSE t[i - Len(s)]
  BY ConcatProperties
<1> DEFINE m == Len(s)
           n == Len(t)
           u == s \o t
<1> HIDE DEF m, n, u
<1>3. m \in Nat /\ n \in Nat /\ \A i \in 1 .. m + n : u[i] = IF i <= m THEN s[i] ELSE t[i - m]
  BY <1>1, <1>2 DEF m, n, u
<1>4. \A i \in 1 .. m : u[i] = s[i]
  BY <1>3
<1>5. ASSUME NEW i \in 1 .. n PROVE u[m + i] = t[i]
  <2>1. m + i \in 1 .. m + n /\ ~(m + i <= m) /\ (m + i) - m = i
    BY <1>3
  <2> QED
    BY <1>3, <2>1
<1> QED
  BY <1>1, <1>4, <1>5 DEF m, n, u

LEMMA CheckEnds ==
  ASSUME type \in {"Full", "Q2"}
  PROVE  /\ RunOpenCheck \in Seq(Names) /\ Len(RunOpenCheck) >= 2 /\ RunOpenCheck[Len(RunOpenCheck) - 1] = "aux"
         /\ CheckRounds(<<>>) \in Seq(Names)
<1> DEFINE Y == IF type = "Full" THEN Create_Random_Seed \o Commit_And_Open \o <<"OK">> ELSE <<"hash">>
<1>1. Y \in Seq(Names)
  <2>1. <<"seed", "unseal">> \in Seq(Names) /\ <<"tau", "reveal">> \in Seq(Names) /\ <<"OK">> \in Seq(Names) /\ <<"hash">> \in Seq(Names)
    BY DEF Names
  <2> QED
    BY <2>1 DEF Create_Random_Seed, Commit_And_Open
<1>2. <<"aux">> \in Seq(Names) /\ <<"reset">> \in Seq(Names) /\ <<>> \in Seq(Names)
  BY DEF Names
<1>3. RunOpenCheck = (Y \o <<"aux">>) \o <<"reset">> /\ CheckRounds(<<>>) = (Y \o <<>>) \o <<"reset">>
  BY DEF RunOpenCheck, CheckRounds
<1> HIDE DEF Y
<1>4. CheckRounds(<<>>) \in Seq(Names)
  BY <1>1, <1>2, <1>3
<1> DEFINE Z == Y \o <<"aux">>
           A == <<"aux">>
           R == <<"reset">>
<1>5. A \in Seq(Names) /\ Len(A) = 1 /\ A[1] = "aux" /\ R \in Seq(Names) /\ Len(R) = 1
  BY <1>2
<1> HIDE DEF A
<1>6. Z \in Seq(Names) /\ Len(Z) = Len(Y) + 1 /\ Z[Len(Z)] = "aux" /\ Len(Z) >= 1
  <2>0. Y \in Seq(Names) /\ A \in Seq(Names)
    BY <1>1, <1>5
  <2>1. Y \o A \in Seq(Names) /\ Len(Y \o A) = Len(Y) + 1 /\ Len(Y) \in Nat
    <3>1. Y \o A \in Seq(Names) /\ Len(Y \o A) = Len(Y) + Len(A) /\ Len(Y) \in Nat
      BY <2>0, Join
    <3>2. Len(A) = 1
      BY <1>5
    <3> QED
      BY <3>1, <3>2
  <2>2. (Y \o A)[Len(Y) + 1] = A[1]
    <3>1. 1 \in 1 .. Len(A)
      BY <1>5
    <3> QED
      BY <1>1, <1>5, <3>1, Join
  <2> QED
    BY <1>5, <2>1, <2>2 DEF A
<1> HIDE DEF Z, R
<1>7. RunOpenCheck = Z \o R
  BY <1>3 DEF Z, R
<1>8. Z \o R \in Seq(Names) /\ Len(Z \o R) = Len(Z) + 1 /\ \A i \in 1 .. Len(Z) : (Z \o R)[i] = Z[i]
  <2>1. Z \in Seq(Names) /\ R \in Seq(Names)
    BY <1>5, <1>6
  <2>2. Z \o R \in Seq(Names) /\ Len(Z \o R) = Len(Z) + Len(R) /\ \A i \in 1 .. Len(Z) : (Z \o R)[i] = Z[i]
    BY <2>1, Join
  <2>3. Len(R) = 1
    BY <1>5
  <2> QED
    BY <2>2, <2>3
<1>9. Len(Z) \in 1 .. Len(Z) /\ Len(Z) \in Nat
  BY <1>6
<1> QED
  BY <1>4, <1>6, <1>7, <1>8, <1>9

\* A call that asks for a check ends with one.
LEMMA AskedBegins ==
  ASSUME NEW op \in {"CHECK", "PRIVATE_OUTPUT"}, type \in {"Full", "Q2"}
  PROVE  RoundsOf(op) \in Seq(Names) /\ Len(RoundsOf(op)) >= 2 /\ RoundsOf(op)[Len(RoundsOf(op)) - 1] = "aux"
<1>1. /\ RunOpenCheck \in Seq(Names) /\ Len(RunOpenCheck) >= 2 /\ RunOpenCheck[Len(RunOpenCheck) - 1] = "aux"
  BY CheckEnds
<1>2. CASE op = "CHECK"
  BY <1>1, <1>2 DEF RoundsOf
<1>3. CASE op = "PRIVATE_OUTPUT"
  <2> DEFINE Y == <<"begin", "end", "count">>
             Z == RunOpenCheck
  <2>1. RoundsOf(op) = Y \o Z
    BY <1>3 DEF RoundsOf
  <2>2. Y \in Seq(Names) /\ Len(Y) = 3
    BY DEF Names
  <2> HIDE DEF Y, Z
  <2>3. Z \in Seq(Names) /\ Len(Z) >= 2 /\ Z[Len(Z) - 1] = "aux"
    BY <1>1 DEF Z
  <2>4. Y \o Z \in Seq(Names) /\ Len(Y \o Z) = 3 + Len(Z) /\ Len(Z) \in Nat
    <3>1. Y \in Seq(Names) /\ Z \in Seq(Names)
      BY <2>2, <2>3
    <3>2. Y \o Z \in Seq(Names) /\ Len(Y \o Z) = Len(Y) + Len(Z) /\ Len(Z) \in Nat
      BY <3>1, Join
    <3>3. Len(Y) = 3
      BY <2>2
    <3> QED
      BY <3>2, <3>3
  <2>5. (Y \o Z)[3 + (Len(Z) - 1)] = Z[Len(Z) - 1]
    <3>1. Len(Z) - 1 \in 1 .. Len(Z)
      BY <2>3, <2>4
    <3>2. Y \in Seq(Names) /\ Z \in Seq(Names)
      BY <2>2, <2>3
    <3>3. (Y \o Z)[Len(Y) + (Len(Z) - 1)] = Z[Len(Z) - 1]
      BY <3>1, <3>2, Join
    <3>4. Len(Y) = 3
      BY <2>2
    <3> QED
      BY <3>3, <3>4
  <2> DEFINE l == Len(Z)
  <2>6. (3 + l) - 1 = 3 + (l - 1)
    BY <2>4
  <2> QED
    BY <2>1, <2>3, <2>4, <2>5, <2>6
<1> QED
  BY <1>2, <1>3

LEMMA AskedStays ==
  ASSUME Setting, NEW h \in Here, RoundsOK(h), AskedOK(h), NEW n \in Nat
  PROVE  AskedOK(Following(h, n))
<1> DEFINE g == Following(h, n)
<1> SUFFICES AskedOK(g)
  OBVIOUS
<1>0. type \in {"Full", "Q2"} /\ h.rounds \in Seq(Names)
  BY SettingIs DEF Here
<1>1. g.rounds = Rest(h) /\ g.pubs = (IF Round(h) = "pub" THEN h.pubs + 1 ELSE IF Round(h) = "aux" THEN 0 ELSE h.pubs)
  BY DEF Following
<1>2. CASE More(h)
  <2>1. g.rounds = RoundsOf(prog[h.pc + 1].op)
    BY <1>1, <1>2 DEF Rest
  <2>2. g.pc = h.pc + 1 /\ Call(g) = prog[g.pc]
    BY <1>2, CallBegins
  <2> HIDE DEF g
  <2>3. CASE Asks(g)
    <3>1. /\ g.rounds \in Seq(Names) /\ Len(g.rounds) >= 2 /\ g.rounds[Len(g.rounds) - 1] = "aux"
      BY <1>0, <2>1, <2>2, <2>3, AskedBegins DEF Asks
    <3> DEFINE m == Len(g.rounds)
    <3>2. m \in Nat /\ m >= 2
      BY <3>1
    <3> HIDE DEF m
    <3>3. m # 1
      BY <3>2
    <3> QED
      BY <3>1, <3>3 DEF AskedOK, m
  <2> QED
    BY <2>3 DEF AskedOK
<1>3. CASE ~More(h) /\ Round(h) = "none"
  <2>1. g.rounds = <<>>
    BY <1>1, <1>3 DEF Rest
  <2> QED
    BY <2>1 DEF AskedOK
<1>4. CASE Round(h) # "none"
  <2>1. /\ Len(h.rounds) \in Nat /\ Len(h.rounds) >= 1 /\ h.rounds[1] = Round(h)
        /\ RoundOK(Call(h).op, Round(h))
        /\ Tail(h.rounds) \in Seq(Names) /\ Len(Tail(h.rounds)) = Len(h.rounds) - 1
        /\ \A i \in 1 .. Len(h.rounds) - 1 : Tail(h.rounds)[i] = h.rounds[i + 1]
    BY <1>4, RoundIs
  <2>2. Call(g) = Call(h)
    BY <1>4, RoundEnds
  <2>3. g.rounds = IF CheckDue(h) THEN CheckRounds(<<>>) \o Tail(h.rounds) ELSE Tail(h.rounds)
    BY <1>1, <1>4 DEF Rest, CheckDue, More
  <2> HIDE DEF g
  <2>a. Asks(g) <=> Asks(h)
    BY <2>2 DEF Asks
  <2>b. CASE ~(Asks(g) /\ g.rounds # <<>>)
    BY <2>b DEF AskedOK
  <2> SUFFICES ASSUME Asks(h), g.rounds # <<>> PROVE AskedOK(g)
    BY <2>a, <2>b
  <2>4. Len(h.rounds) >= 2 => h.rounds[Len(h.rounds) - 1] = "aux"
    BY <1>0, <2>1 DEF AskedOK
  <2> DEFINE m == Len(h.rounds)
             t == Tail(h.rounds)
  <2>5. m \in Nat /\ m >= 1 /\ t \in Seq(Names) /\ Len(t) = m - 1 /\ (\A i \in 1 .. m - 1 : t[i] = h.rounds[i + 1])
        /\ (m >= 2 => h.rounds[m - 1] = "aux") /\ h.rounds[1] = Round(h)
    BY <2>1, <2>4
  <2>6. g.rounds = IF CheckDue(h) THEN CheckRounds(<<>>) \o t ELSE t
    BY <2>3
  <2> HIDE DEF m, t
  <2>7. CASE ~CheckDue(h)
    <3>1. g.rounds = t
      BY <2>6, <2>7
    <3>2. m >= 3 => t[(m - 1) - 1] = "aux"
      <4>1. m >= 3 => (m - 2) \in 1 .. m - 1 /\ (m - 2) + 1 = m - 1 /\ (m - 1) - 1 = m - 2
        BY <2>5
      <4> QED
        BY <2>5, <4>1
    <3>3. m = 2 => g.pubs = 0
      <4>1. ASSUME m = 2 PROVE Round(h) = "aux"
        BY <2>5, <4>1
      <4> QED
        BY <1>1, <4>1 DEF g
    <3> QED
      BY <2>5, <3>1, <3>2, <3>3 DEF AskedOK
  <2>8. CASE CheckDue(h)
    <3>1. Round(h) = "count"
      BY <2>8 DEF CheckDue
    <3>2. Call(h).op = "PRIVATE_OUTPUT"
      BY <2>1, <3>1 DEF Asks, RoundOK
    <3>3. h.rounds[m] = "reset"
      <4>1. h.rounds # <<>>
        BY <1>4 DEF Round
      <4> QED
        BY <3>2, <4>1 DEF RoundsOK, m
    <3>4. m >= 3
      <4>1. m # 1
        BY <2>5, <3>1, <3>3
      <4>2. m # 2
        BY <2>5, <3>1
      <4> QED
        BY <2>5, <4>1, <4>2
    <3> DEFINE k == CheckRounds(<<>>)
    <3>5. k \in Seq(Names)
      BY <1>0, CheckEnds
    <3>6. g.rounds = k \o t
      BY <2>6, <2>8
    <3> HIDE DEF k
    <3>7. Len(k \o t) = Len(k) + (m - 1) /\ Len(k) \in Nat
      <4>1. k \in Seq(Names) /\ t \in Seq(Names) /\ Len(t) = m - 1
        BY <2>5, <3>5
      <4>2. Len(k \o t) = Len(k) + Len(t) /\ Len(k) \in Nat
        BY <4>1, Join
      <4> QED
        BY <4>1, <4>2
    <3> DEFINE l == Len(k)
    <3>8. (k \o t)[l + (m - 2)] = t[m - 2]
      <4>1. m - 2 \in 1 .. Len(t)
        BY <2>5, <3>4
      <4> QED
        BY <2>5, <3>5, <4>1, Join
    <3>9. t[m - 2] = "aux"
      <4>1. (m - 2) \in 1 .. m - 1 /\ (m - 2) + 1 = m - 1
        BY <2>5, <3>4
      <4> QED
        BY <2>5, <3>4, <4>1
    <3>10. (l + (m - 1)) - 1 = l + (m - 2) /\ l + (m - 1) >= 2
      BY <2>5, <3>4, <3>7
    <3> QED
      BY <3>6, <3>7, <3>8, <3>9, <3>10 DEF AskedOK
  <2> QED
    BY <2>7, <2>8
<1> QED
  BY <1>2, <1>3, <1>4 DEF More

LEMMA TraceAsked ==
  ASSUME Setting, NEW H, Trace(H), NEW n \in Nat
  PROVE  AskedOK(H[n])
<1> DEFINE T == {m \in Nat : AskedOK(H[m])}
<1>1. 0 \in T
  BY DEF Trace, Start, AskedOK
<1>2. ASSUME NEW m \in Nat, m \in T PROVE m + 1 \in T
  <2>1. H[m + 1] = Following(H[m], m) /\ H[m] \in Here /\ RoundsOK(H[m])
    BY TraceFacts DEF Trace, RoundFacts
  <2> QED
    BY <1>2, <2>1, AskedStays
<1> HIDE DEF T
<1>3. n \in T
  BY <1>1, <1>2, Induct
<1> QED
  BY <1>3 DEF T

\* What is opened is right when nothing is wrong.
LEMMA TraceRight ==
  ASSUME Setting, NEW H, Trace(H), NEW n \in Nat
  PROVE  \A j \in 1 .. Len(H[n].opened) : H[n].opened[j].ok
<1> DEFINE Fine(x) == \A j \in 1 .. Len(x) : x[j].ok
           T == {m \in Nat : Fine(H[m].opened)}
<1>1. 0 \in T
  BY DEF Trace, Start
<1>2. ASSUME NEW m \in Nat, m \in T PROVE m + 1 \in T
  <2>1. H[m + 1] = Following(H[m], m) /\ H[m] \in Here /\ RoundsOK(H[m])
    BY TraceFacts DEF Trace, RoundFacts
  <2>2. H[m + 1].opened = IF Round(H[m]) = "end" THEN H[m].opened \o Opened(H[m]) ELSE H[m].opened
    <3> DEFINE h == H[m]
    <3> HIDE DEF h
    <3>1. Following(h, m).opened = IF Round(h) = "end" THEN h.opened \o Opened(h) ELSE h.opened
      BY PastAfter
    <3> QED
      BY <2>1, <3>1 DEF h
  <2>3. CASE Round(H[m]) = "end"
    <3> DEFINE x == H[m].opened
               y == Opened(H[m])
    <3>1. x \in Seq(Entry) /\ Fine(x)
      BY <1>2, <2>1, PastIs
    <3>2. H[m].pc \in 1 .. Len(prog)
      BY <2>1, <2>3, RoundIs
    <3>3. y \in Seq(Entry) /\ Fine(y)
      <4> DEFINE h == H[m]
      <4>1. h.pc \in 1 .. Len(prog)
        BY <3>2
      <4> HIDE DEF h
      <4>2. Opened(h) \in Seq(Entry) /\ \A i \in 1 .. Len(Opened(h)) : Opened(h)[i] = [id |-> <<"value", Begun(h), i>>, ok |-> TRUE]
        BY <4>1, SettingIs, OpenedIs
      <4>3. ASSUME NEW i \in 1 .. Len(Opened(h)) PROVE Opened(h)[i].ok
        <5>1. Opened(h)[i] = [id |-> <<"value", Begun(h), i>>, ok |-> TRUE]
          BY <4>2
        <5> QED
          BY <5>1
      <4> QED
        BY <4>2, <4>3 DEF h
    <3>4. H[m + 1].opened = x \o y
      BY <2>2, <2>3
    <3> HIDE DEF x, y
    <3> DEFINE z == x \o y
    <3>5. /\ Len(z) = Len(x) + Len(y) /\ Len(x) \in Nat /\ Len(y) \in Nat
          /\ \A j \in 1 .. Len(x) : z[j] = x[j]
          /\ \A j \in 1 .. Len(y) : z[Len(x) + j] = y[j]
      <4>1. x \in Seq(Entry) /\ y \in Seq(Entry)
        BY <3>1, <3>3
      <4> QED
        BY <4>1, Join
    <3> HIDE DEF z
    <3>6. ASSUME NEW j \in 1 .. Len(z) PROVE z[j].ok
      <4>1. CASE j <= Len(x)
        BY <3>1, <3>5, <4>1
      <4>2. CASE j > Len(x)
        <5> DEFINE k == j - Len(x)
        <5>1. k \in 1 .. Len(y) /\ Len(x) + k = j
          BY <3>5, <4>2
        <5> HIDE DEF k
        <5> QED
          BY <3>3, <3>5, <5>1
      <4> QED
        BY <3>5, <4>1, <4>2
    <3>7. Fine(H[m + 1].opened)
      BY <3>4, <3>6 DEF z
    <3> QED
      BY <3>7
  <2>4. CASE Round(H[m]) # "end"
    BY <1>2, <2>2, <2>4
  <2> QED
    BY <2>3, <2>4
<1> HIDE DEF T
<1>3. n \in T
  BY <1>1, <1>2, Induct
<1> QED
  BY <1>3 DEF T

-----------------------------------------------------------------------------
(* Windows.                                                                *)

LEMMA WindowIs ==
  ASSUME NEW Q, NEW x \in Seq(Q), NEW l \in Nat, NEW n \in Nat, n <= l, l <= Len(x)
  PROVE  /\ Window(x, l, n) \in Seq(Q) /\ Len(Window(x, l, n)) = n
         /\ \A i \in 1 .. n : Window(x, l, n)[i] = x[l - n + i] /\ l - n + i \in 1 .. Len(x)
<1>1. \A i \in 1 .. n : l - n + i \in 1 .. Len(x)
  OBVIOUS
<1>2. \A i \in 1 .. n : x[l - n + i] \in Q
  BY <1>1
<1>3. Window(x, l, n) = [i \in 1 .. n |-> x[l - n + i]]
  BY DEF Window
<1>4. Window(x, l, n) \in Seq(Q) /\ Len(Window(x, l, n)) = n
  BY <1>2, <1>3
<1> QED
  BY <1>1, <1>3, <1>4

LEMMA WindowNone ==
  ASSUME NEW x, NEW l
  PROVE  Window(x, l, 0) = <<>>
BY DEF Window

\* A window stays when the sequence grows.
LEMMA WindowStays ==
  ASSUME NEW Q, NEW x \in Seq(Q), NEW y \in Seq(Q), NEW l \in Nat, NEW n \in Nat, n <= l, l <= Len(x), Grows(x, y)
  PROVE  Window(y, l, n) = Window(x, l, n)
<1>1. \A i \in 1 .. n : l - n + i \in 1 .. Len(x)
  OBVIOUS
<1>2. \A i \in 1 .. n : y[l - n + i] = x[l - n + i]
  BY <1>1 DEF Grows
<1> QED
  BY <1>2 DEF Window

\* It grows with it.
LEMMA WindowGrows ==
  ASSUME NEW Q, NEW x \in Seq(Q), NEW y \in Seq(Q), NEW n \in Nat, n <= Len(x)
  PROVE  Window(x \o y, Len(x) + Len(y), n + Len(y)) = Window(x, Len(x), n) \o y
<1> DEFINE l == Len(x)
           k == Len(y)
           z == x \o y
           u == Window(x, l, n)
           v == Window(z, l + k, n + k)
<1>1. z \in Seq(Q) /\ Len(z) = l + k /\ l \in Nat /\ k \in Nat
      /\ (\A i \in 1 .. l : z[i] = x[i]) /\ \A i \in 1 .. k : z[l + i] = y[i]
  BY Join
<1>2. u \in Seq(Q) /\ Len(u) = n /\ \A i \in 1 .. n : u[i] = x[l - n + i]
  <2>1. l \in Nat /\ l <= Len(x) /\ n <= l
    BY <1>1
  <2> HIDE DEF l
  <2> QED
    BY <2>1, WindowIs
<1>3. v \in Seq(Q) /\ Len(v) = n + k /\ \A i \in 1 .. n + k : v[i] = z[(l + k) - (n + k) + i]
  <2>1. l + k \in Nat /\ n + k \in Nat /\ n + k <= l + k /\ l + k <= Len(z)
    BY <1>1
  <2> DEFINE a == l + k
             b == n + k
  <2>2. a \in Nat /\ b \in Nat /\ b <= a /\ a <= Len(z) /\ z \in Seq(Q)
    BY <1>1, <2>1
  <2> HIDE DEF z, a, b
  <2>3. Window(z, a, b) \in Seq(Q) /\ Len(Window(z, a, b)) = b /\ \A i \in 1 .. b : Window(z, a, b)[i] = z[a - b + i]
    BY <2>2, WindowIs
  <2> QED
    BY <2>3 DEF a, b
<1> DEFINE w == u \o y
<1>4. w \in Seq(Q) /\ Len(w) = n + k /\ (\A i \in 1 .. n : w[i] = u[i]) /\ \A i \in 1 .. k : w[n + i] = y[i]
  <2>1. u \in Seq(Q) /\ Len(u) = n
    BY <1>2
  <2>2. Len(y) = k
    OBVIOUS
  <2> HIDE DEF u, k
  <2>3. u \in Seq(Q) /\ y \in Seq(Q)
    BY <2>1
  <2>4. /\ u \o y \in Seq(Q) /\ Len(u \o y) = Len(u) + Len(y)
        /\ \A i \in 1 .. Len(u) : (u \o y)[i] = u[i]
        /\ \A i \in 1 .. Len(y) : (u \o y)[Len(u) + i] = y[i]
    BY <2>3, Join
  <2> QED
    BY <2>1, <2>2, <2>4
<1>5. n \in Nat /\ n <= l
  OBVIOUS
<1> HIDE DEF l, k, z, u, v, w
<1>6. ASSUME NEW i \in 1 .. n + k PROVE v[i] = w[i]
  <2>1. v[i] = z[(l + k) - (n + k) + i]
    BY <1>3
  <2>2. CASE i <= n
    <3>0. i \in Nat /\ 1 <= i /\ i <= n
      BY <1>1, <1>5, <2>2
    <3>1. i \in 1 .. n
      BY <1>5, <3>0
    <3>2. (l + k) - (n + k) + i = l - n + i
      BY <1>1, <1>5, <3>0
    <3>3. l - n + i \in 1 .. l
      BY <1>1, <1>5, <3>0
    <3>4. v[i] = x[l - n + i]
      BY <1>1, <2>1, <3>2, <3>3
    <3>5. w[i] = x[l - n + i]
      BY <1>2, <1>4, <3>1
    <3> QED
      BY <3>4, <3>5
  <2>3. CASE i > n
    <3> DEFINE j == i - n
    <3>0. i \in Nat /\ n < i /\ i <= n + k
      BY <1>1, <1>5, <2>3
    <3>1. j \in 1 .. k
      BY <1>1, <1>5, <3>0
    <3>2. (l + k) - (n + k) + i = l + j
      BY <1>1, <1>5, <3>0
    <3>3. n + j = i
      BY <1>5, <3>0
    <3> HIDE DEF j
    <3>4. z[l + j] = y[j] /\ w[n + j] = y[j]
      BY <1>1, <1>4, <3>1
    <3> QED
      BY <2>1, <3>2, <3>3, <3>4
  <2> QED
    BY <1>1, <2>2, <2>3
<1>7. v = w
  <2>1. v \in Seq(Q) /\ w \in Seq(Q) /\ Len(v) = Len(w) /\ Len(v) = n + k
    BY <1>3, <1>4
  <2>2. \A i \in 1 .. Len(v) : v[i] = w[i]
    BY <1>6, <2>1
  <2> QED
    BY <2>1, <2>2, SeqEqual
<1> QED
  BY <1>7 DEF v, w, u, z, l, k

LEMMA WindowAppend ==
  ASSUME NEW Q, NEW x \in Seq(Q), NEW e \in Q, NEW n \in Nat, n <= Len(x)
  PROVE  Window(Append(x, e), Len(x) + 1, n + 1) = Append(Window(x, Len(x), n), e)
<1> DEFINE y == <<e>>
           u == Window(x, Len(x), n)
<1>1. y \in Seq(Q) /\ Len(y) = 1
  OBVIOUS
<1>2. u \in Seq(Q)
  BY WindowIs
<1>3. Append(x, e) = x \o y /\ Append(u, e) = u \o y
  BY <1>2, AppendIsConcat
<1> HIDE DEF y, u
<1>4. Window(x \o y, Len(x) + Len(y), n + Len(y)) = Window(x, Len(x), n) \o y
  BY <1>1, WindowGrows
<1> QED
  BY <1>1, <1>3, <1>4 DEF u

\* Equal windows are of equal elements.
LEMMA WindowEqual ==
  ASSUME NEW x, NEW y, NEW l \in Nat, NEW n \in Nat, n <= l, Window(x, l, n) = Window(y, l, n)
  PROVE  \A j \in l - n + 1 .. l : x[j] = y[j]
<1> SUFFICES ASSUME NEW j \in l - n + 1 .. l PROVE x[j] = y[j]
  OBVIOUS
<1> DEFINE i == j - (l - n)
<1>1. i \in 1 .. n /\ l - n + i = j
  OBVIOUS
<1> HIDE DEF i
<1>2. Window(x, l, n)[i] = x[l - n + i] /\ Window(y, l, n)[i] = y[l - n + i]
  BY <1>1 DEF Window
<1> QED
  BY <1>1, <1>2


-----------------------------------------------------------------------------
(* What of the things said is left after a step.                           *)

\* Nothing was said.
Quiet(H, at, T, C, G, at2, T2, C2, G2) ==
  \A x, y \in Players : \A v, n : Held(H, at2, T2, C2, G2, x, y, v, n) => Held(H, at, T, C, G, x, y, v, n)

\* Only p said something, v0 to q0.
Said(H, at, T, C, G, T2, C2, p, q0, v0) ==
  \A x, y \in Players : \A v, n : Held(H, at, T2, C2, G, x, y, v, n) =>
    Held(H, at, T, C, G, x, y, v, n) \/ (x = p /\ y = q0 /\ v = v0 /\ n = at[p])

LEMMA HeldMoves ==
  ASSUME NEW H, NEW at \in [Players -> Nat], NEW T \in [Players -> Seq(TStep)], NEW C, NEW G, NEW p \in Players, NEW Y, T[p] = <<>>,
         Unmoved(H, at, T, [at EXCEPT ![p] = @ + 1], [T EXCEPT ![p] = Y]),
         \A c \in Connections, q \in Players : Reads(H[at[p] + 1], c, q, p) => Left(Y, "receive", q)
  PROVE  Quiet(H, at, T, C, G, [at EXCEPT ![p] = @ + 1], [T EXCEPT ![p] = Y], C, G)
<1> DEFINE at2 == [at EXCEPT ![p] = @ + 1]
           T2 == [T EXCEPT ![p] = Y]
<1>1. /\ at2[p] = at[p] + 1 /\ T2[p] = Y
      /\ \A y \in Players : y # p => at2[y] = at[y] /\ T2[y] = T[y]
  OBVIOUS
<1>2. Unmoved(H, at, T, at2, T2)
  OBVIOUS
<1> HIDE DEF at2, T2
<1> SUFFICES ASSUME NEW x \in Players, NEW y \in Players, NEW v, NEW n, Held(H, at2, T2, C, G, x, y, v, n)
             PROVE  Held(H, at, T, C, G, x, y, v, n)
  BY DEF Quiet, at2, T2
<1>3. CASE OnWire(H, at2, T2, C, x, y, v, n)
  <2>0. PICK c \in Connections : \E j \in 1 .. Len(C[c][x][y]) : v = C[c][x][y][j].val /\ n = Wrote(H[at2[x]], at2[x], c, x, y, T2[x])[Read(H[at2[y]], c, x, y, T2[y]) + j]
    BY <1>3 DEF OnWire
  <2>1. PICK j \in 1 .. Len(C[c][x][y]) : v = C[c][x][y][j].val /\ n = Wrote(H[at2[x]], at2[x], c, x, y, T2[x])[Read(H[at2[y]], c, x, y, T2[y]) + j]
    BY <2>0
  <2>2. /\ Wrote(H[at2[x]], at2[x], c, x, y, T2[x]) = Wrote(H[at[x]], at[x], c, x, y, T[x])
        /\ Read(H[at2[y]], c, x, y, T2[y]) = Read(H[at[y]], c, x, y, T[y])
    BY <1>2 DEF Unmoved
  <2>3. OnWire(H, at, T, C, x, y, v, n)
    BY <2>1, <2>2 DEF OnWire
  <2> QED
    BY <2>3 DEF Held
<1>4. CASE InHand(H, at2, T2, G, x, y, v, n)
  <2>1. PICK c \in Connections : /\ Reads(H[at2[y]], c, x, y) /\ ~Left(T2[y], "receive", x)
                                 /\ v = G[y][x] /\ n = Expected(H[at2[y]], at2[y], c)
    BY <1>4 DEF InHand
  <2>2. y # p
    BY <1>1, <2>1
  <2>3. InHand(H, at, T, G, x, y, v, n)
    BY <1>1, <2>1, <2>2 DEF InHand
  <2> QED
    BY <2>3 DEF Held
<1> QED
  BY <1>3, <1>4 DEF Held

LEMMA HeldSends ==
  ASSUME NEW H, NEW at, NEW T, NEW T2, NEW C \in Pairs(Seq(Msg)), NEW C2, NEW G, NEW p \in Players, NEW e, NEW m \in Msg,
         e.c \in Connections, e.peer \in Players, OneSent(H, at, T, T2, C, C2, p, e, m),
         \A c \in Connections, x, y \in Players :
           /\ WireOK(H, Wrote(H[at[x]], at[x], c, x, y, T[x]), Read(H[at[y]], c, x, y, T[y]), C[c][x][y])
           /\ Wrote(H[at[x]], at[x], c, x, y, T[x]) \in Seq(Nat) /\ Read(H[at[y]], c, x, y, T[y]) \in Nat,
         at[p] \in Nat
  PROVE  Said(H, at, T, C, G, T2, C2, p, e.peer, m.val)
<1> SUFFICES ASSUME NEW x \in Players, NEW y \in Players, NEW v, NEW n, Held(H, at, T2, C2, G, x, y, v, n)
             PROVE  Held(H, at, T, C, G, x, y, v, n) \/ (x = p /\ y = e.peer /\ v = m.val /\ n = at[p])
  BY DEF Said
<1> DEFINE W(c, Y) == Wrote(H[at[x]], at[x], c, x, y, Y[x])
           R(c, Y) == Read(H[at[y]], c, x, y, Y[y])
<1>1. /\ \A c \in Connections : R(c, T2) = R(c, T)
      /\ Left(T2[y], "receive", x) <=> Left(T[y], "receive", x)
      /\ x = p /\ y = e.peer => W(e.c, T2) = Append(W(e.c, T), at[p]) /\ C2[e.c][x][y] = Append(C[e.c][x][y], m)
      /\ \A c \in Connections : ~(c = e.c /\ x = p /\ y = e.peer) => W(c, T2) = W(c, T) /\ C2[c][x][y] = C[c][x][y]
  <2>1. \A c \in Connections : R(c, T2) = R(c, T)
    BY DEF OneSent
  <2>2. Left(T2[y], "receive", x) <=> Left(T[y], "receive", x)
    BY DEF OneSent
  <2>3. x = p /\ y = e.peer => W(e.c, T2) = Append(W(e.c, T), at[p]) /\ C2[e.c][x][y] = Append(C[e.c][x][y], m)
    BY DEF OneSent
  <2>4. \A c \in Connections : ~(c = e.c /\ x = p /\ y = e.peer) => W(c, T2) = W(c, T) /\ C2[c][x][y] = C[c][x][y]
    BY DEF OneSent
  <2> QED
    BY <2>1, <2>2, <2>3, <2>4
<1>2. \A c \in Connections : /\ R(c, T) + Len(C[c][x][y]) = Len(W(c, T)) /\ R(c, T) \in Nat
                             /\ W(c, T) \in Seq(Nat) /\ C[c][x][y] \in Seq(Msg)
  BY DEF WireOK, Pairs
<1>3. CASE OnWire(H, at, T2, C2, x, y, v, n)
  <2>0. PICK c \in Connections : \E j \in 1 .. Len(C2[c][x][y]) : v = C2[c][x][y][j].val /\ n = W(c, T2)[R(c, T2) + j]
    BY <1>3 DEF OnWire
  <2>1. PICK j \in 1 .. Len(C2[c][x][y]) : v = C2[c][x][y][j].val /\ n = W(c, T2)[R(c, T2) + j]
    BY <2>0
  <2>2. CASE ~(c = e.c /\ x = p /\ y = e.peer)
    <3>1. OnWire(H, at, T, C, x, y, v, n)
      BY <1>1, <2>1, <2>2 DEF OnWire
    <3> QED
      BY <3>1 DEF Held
  <2>3. CASE c = e.c /\ x = p /\ y = e.peer
    <3> DEFINE w == W(c, T)
               z == C[c][x][y]
               r == R(c, T)
    <3>1. w \in Seq(Nat) /\ z \in Seq(Msg) /\ r \in Nat /\ r + Len(z) = Len(w)
      BY <1>2
    <3>2. W(c, T2) = Append(w, at[p]) /\ C2[c][x][y] = Append(z, m) /\ R(c, T2) = r
      BY <1>1, <2>3
    <3>3. j \in 1 .. Len(Append(z, m)) /\ v = Append(z, m)[j].val /\ n = Append(w, at[p])[r + j]
      BY <2>1, <3>2
    <3> HIDE DEF w, z, r
    <3> DEFINE lz == Len(z)
               lw == Len(w)
    <3>l. lz \in Nat /\ lw \in Nat /\ r \in Nat /\ r + lz = lw
      <4>1. z \in Seq(Msg)
        BY <3>1
      <4>2. lz \in Nat
        BY <4>1, LenProperties
      <4>3. w \in Seq(Nat)
        BY <3>1
      <4>4. lw \in Nat
        BY <4>3, LenProperties
      <4> QED
        BY <3>1, <4>2, <4>4
    <3>4. /\ Len(Append(z, m)) = Len(z) + 1 /\ Append(z, m)[Len(z) + 1] = m /\ \A i \in 1 .. Len(z) : Append(z, m)[i] = z[i]
      <4>1. z \in Seq(Msg)
        BY <3>1
      <4> QED
        BY <4>1, AppendProperties
    <3>5. /\ Append(w, at[p])[Len(w) + 1] = at[p] /\ \A i \in 1 .. Len(w) : Append(w, at[p])[i] = w[i]
      <4>1. w \in Seq(Nat)
        BY <3>1
      <4> QED
        BY <4>1, AppendProperties
    <3>6. CASE j = Len(z) + 1
      <4>1. r + (lz + 1) = lw + 1
        <5> HIDE DEF lz, lw
        <5> QED
          BY <3>l
      <4>2. n = at[p] /\ v = m.val
        BY <3>3, <3>4, <3>5, <3>6, <4>1
      <4> QED
        BY <2>3, <4>2
    <3>7. CASE j # Len(z) + 1
      <4>1. j \in 1 .. Len(z) /\ r + j \in 1 .. Len(w)
        <5>1. j \in 1 .. lz + 1 /\ j # lz + 1
          BY <3>3, <3>4, <3>7
        <5>2. j \in 1 .. lz /\ r + j \in 1 .. lw
          <6> HIDE DEF lz, lw
          <6> QED
            BY <3>l, <5>1
        <5> QED
          BY <5>2
      <4>2. v = z[j].val /\ n = w[r + j]
        BY <3>3, <3>4, <3>5, <4>1
      <4>3. OnWire(H, at, T, C, x, y, v, n)
        BY <4>1, <4>2 DEF OnWire, w, z, r
      <4> QED
        BY <4>3 DEF Held
    <3> QED
      BY <3>6, <3>7
  <2> QED
    BY <2>2, <2>3
<1>4. CASE InHand(H, at, T2, G, x, y, v, n)
  <2>1. InHand(H, at, T, G, x, y, v, n)
    BY <1>1, <1>4 DEF InHand
  <2> QED
    BY <2>1 DEF Held
<1> QED
  BY <1>3, <1>4 DEF Held

LEMMA HeldReceives ==
  ASSUME NEW H, NEW at, NEW T, NEW T2, NEW C \in Pairs(Seq(Msg)), NEW C2, NEW G \in [Players -> Speech], NEW p \in Players,
         NEW e, e = Head(T[p]), e.c \in Connections, e.peer \in Players, OneRead(H, at, T, T2, C, C2, p, e), ReadsNext(H, at, T, C, p),
         C[e.c][e.peer][p] # <<>>, Read(H[at[p]], e.c, e.peer, p, T[p]) \in Nat
  PROVE  Quiet(H, at, T, C, G, at, T2, C2, [G EXCEPT ![p][e.peer] = Head(C[e.c][e.peer][p]).val])
<1> DEFINE v0 == Head(C[e.c][e.peer][p]).val
           G2 == [G EXCEPT ![p][e.peer] = v0]
<1>1. G2[p][e.peer] = v0
  BY DEF Speech
<1>2. \A x, y \in Players : ~(x = e.peer /\ y = p) => G2[y][x] = G[y][x]
  BY DEF Speech
<1> HIDE DEF G2
<1> SUFFICES ASSUME NEW x \in Players, NEW y \in Players, NEW v, NEW n, Held(H, at, T2, C2, G2, x, y, v, n)
             PROVE  Held(H, at, T, C, G, x, y, v, n)
  BY DEF Quiet, G2
<1> DEFINE W(c, Y) == Wrote(H[at[x]], at[x], c, x, y, Y[x])
           R(c, Y) == Read(H[at[y]], c, x, y, Y[y])
<1>3. /\ \A c \in Connections : W(c, T2) = W(c, T)
      /\ ~(x = e.peer /\ y = p) => (Left(T2[y], "receive", x) <=> Left(T[y], "receive", x))
      /\ x = e.peer /\ y = p => R(e.c, T2) = R(e.c, T) + 1 /\ C2[e.c][x][y] = Tail(C[e.c][x][y])
      /\ \A c \in Connections : ~(c = e.c /\ x = e.peer /\ y = p) => R(c, T2) = R(c, T) /\ C2[c][x][y] = C[c][x][y]
  <2>1. \A c \in Connections : W(c, T2) = W(c, T)
    BY DEF OneRead
  <2>2. ~(x = e.peer /\ y = p) => (Left(T2[y], "receive", x) <=> Left(T[y], "receive", x))
    BY DEF OneRead
  <2>3. x = e.peer /\ y = p => R(e.c, T2) = R(e.c, T) + 1 /\ C2[e.c][x][y] = Tail(C[e.c][x][y])
    BY DEF OneRead
  <2>4. \A c \in Connections : ~(c = e.c /\ x = e.peer /\ y = p) => R(c, T2) = R(c, T) /\ C2[c][x][y] = C[c][x][y]
    BY DEF OneRead
  <2> QED
    BY <2>1, <2>2, <2>3, <2>4
<1>4. x = e.peer /\ y = p => /\ R(e.c, T) \in Nat /\ W(e.c, T)[R(e.c, T) + 1] = Expected(H[at[p]], at[p], e.c)
                             /\ Reads(H[at[p]], e.c, e.peer, p)
                             /\ C[e.c][x][y] \in Seq(Msg) /\ C[e.c][x][y] # <<>>
  <2>1. ASSUME x = e.peer, y = p PROVE R(e.c, T) \in Nat /\ W(e.c, T)[R(e.c, T) + 1] = Expected(H[at[p]], at[p], e.c)
    <3>1. W(e.c, T)[R(e.c, T) + 1] = Expected(H[at[p]], at[p], e.c)
      BY <2>1 DEF ReadsNext
    <3> QED
      BY <2>1, <3>1
  <2>2. ASSUME x = e.peer, y = p PROVE Reads(H[at[p]], e.c, e.peer, p) /\ C[e.c][x][y] \in Seq(Msg) /\ C[e.c][x][y] # <<>>
    <3>1. Reads(H[at[p]], e.c, e.peer, p)
      BY DEF ReadsNext
    <3>2. C[e.c][x][y] \in Seq(Msg)
      BY DEF Pairs
    <3> QED
      BY <2>2, <3>1, <3>2
  <2> HIDE DEF W, R
  <2> QED
    BY <2>1, <2>2
<1>5. CASE OnWire(H, at, T2, C2, x, y, v, n)
  <2>0. PICK c \in Connections : \E j \in 1 .. Len(C2[c][x][y]) : v = C2[c][x][y][j].val /\ n = W(c, T2)[R(c, T2) + j]
    BY <1>5 DEF OnWire
  <2>1. PICK j \in 1 .. Len(C2[c][x][y]) : v = C2[c][x][y][j].val /\ n = W(c, T2)[R(c, T2) + j]
    BY <2>0
  <2>2. CASE ~(c = e.c /\ x = e.peer /\ y = p)
    <3>1. OnWire(H, at, T, C, x, y, v, n)
      BY <1>3, <2>1, <2>2 DEF OnWire
    <3> QED
      BY <3>1 DEF Held
  <2>3. CASE c = e.c /\ x = e.peer /\ y = p
    <3> DEFINE z == C[c][x][y]
               r == R(c, T)
               w == W(c, T)
    <3>1. z \in Seq(Msg) /\ z # <<>> /\ r \in Nat
      BY <1>4, <2>3
    <3>2. j \in 1 .. Len(Tail(z)) /\ v = Tail(z)[j].val /\ n = w[(r + 1) + j]
      BY <1>3, <2>1, <2>3
    <3> HIDE DEF z, r, w
    <3>3. Len(Tail(z)) = Len(z) - 1 /\ Len(z) \in Nat /\ \A i \in 1 .. Len(z) - 1 : Tail(z)[i] = z[i + 1]
      BY <3>1, HeadTailProperties
    <3>4. j + 1 \in 1 .. Len(z) /\ (r + 1) + j = r + (j + 1) /\ Tail(z)[j] = z[j + 1]
      BY <3>1, <3>2, <3>3
    <3>5. v = z[j + 1].val /\ n = w[r + (j + 1)]
      BY <3>2, <3>4
    <3>6. OnWire(H, at, T, C, x, y, v, n)
      BY <3>4, <3>5 DEF OnWire, z, r, w
    <3> QED
      BY <3>6 DEF Held
  <2> QED
    BY <2>2, <2>3
<1>6. CASE InHand(H, at, T2, G2, x, y, v, n)
  <2>1. PICK c \in Connections : /\ Reads(H[at[y]], c, x, y) /\ ~Left(T2[y], "receive", x)
                                 /\ v = G2[y][x] /\ n = Expected(H[at[y]], at[y], c)
    BY <1>6 DEF InHand
  <2>2. CASE ~(x = e.peer /\ y = p)
    <3>1. InHand(H, at, T, G, x, y, v, n)
      BY <1>2, <1>3, <2>1, <2>2 DEF InHand
    <3> QED
      BY <3>1 DEF Held
  <2>3. CASE x = e.peer /\ y = p
    <3>1. c = e.c
      <4>1. Reads(H[at[p]], c, x, y) /\ Reads(H[at[p]], e.c, e.peer, p)
        BY <1>4, <2>1, <2>3
      <4>2. Talk(H[at[p]], c, x, y) /\ Talk(H[at[p]], e.c, e.peer, p)
        BY <4>1 DEF Reads
      <4> QED
        BY <4>2 DEF Talk
    <3> DEFINE z == C[c][x][y]
    <3>2. z \in Seq(Msg) /\ z # <<>>
      BY <1>4, <2>3, <3>1
    <3>3. v = z[1].val /\ n = W(c, T)[R(c, T) + 1]
      <4>1. v = v0 /\ v0 = z[1].val
        <5>1. v = v0
          BY <1>1, <2>1, <2>3
        <5>2. v0 = Head(z).val
          BY <2>3, <3>1
        <5> HIDE DEF z, v0
        <5>3. Head(z) = z[1]
          BY <3>2, HeadTailProperties
        <5> QED
          BY <5>1, <5>2, <5>3
      <4>2. n = W(c, T)[R(c, T) + 1]
        <5> HIDE DEF W, R
        <5> QED
          BY <1>4, <2>1, <2>3, <3>1
      <4> QED
        BY <4>1, <4>2
    <3>4. 1 \in 1 .. Len(z)
      <4> HIDE DEF z
      <4> QED
        BY <3>2, EmptySeq
    <3>5. OnWire(H, at, T, C, x, y, v, n)
      BY <3>3, <3>4 DEF OnWire
    <3> QED
      BY <3>5 DEF Held
  <2> QED
    BY <2>2, <2>3
<1> QED
  BY <1>5, <1>6 DEF Held

-----------------------------------------------------------------------------
(* What stays when more is opened, entered and broadcast.                  *)

LEMMA PastIsToo ==
  ASSUME NEW Y \in History
  PROVE  /\ Y.opened \in Seq(Entry) /\ Y.pub \in Seq(Entry) /\ Y.cast \in Seq(Speech)
         /\ Len(Y.opened) \in Nat /\ Len(Y.pub) \in Nat /\ Len(Y.cast) \in Nat
<1>1. Y.opened \in Seq(Entry) /\ Y.pub \in Seq(Entry) /\ Y.cast \in Seq(Speech)
  BY DEF History
<1> QED
  BY <1>1

LEMMA LimitsAre ==
  ASSUME NEW h, RoundFacts(h)
  PROVE  /\ h \in Here /\ h.fresh \in Nat /\ h.pubs \in Nat /\ h.casts \in Nat
         /\ h.fresh <= Len(h.opened) /\ h.pubs <= Len(h.pub) /\ h.casts <= Len(h.cast)
         /\ Len(h.opened) \in Nat /\ Len(h.pub) \in Nat /\ Len(h.cast) \in Nat
<1>1. h \in Here
  BY DEF RoundFacts
<1> QED
  BY <1>1, PastIs DEF RoundFacts, CountsOK

LEMMA LaterSelf ==
  ASSUME NEW Y \in History
  PROVE  Later(Y, Y)
BY PastIsToo, GrowsIs DEF Later

\* A past that is that of a round is longer than that of the rounds before.
LEMMA SpansBefore ==
  ASSUME Setting, NEW H, Trace(H), NEW n \in Nat, NEW m \in Nat, n <= m, NEW Y \in History, Sized(Y, H[m])
  PROVE  Spans(Y, H[n])
<1> DEFINE g == H[n]
           h == H[m]
<1>1. g \in Here /\ h \in Here /\ Later(g, h)
  BY TraceGrows
<1>2. Sized(Y, h)
  OBVIOUS
<1> HIDE DEF g, h
<1> QED
  BY <1>1, <1>2 DEF g, Sized, Spans, Later, Grows

\* What follows stays so when the past of the player grows.
LEMMA WindowsStay ==
  ASSUME NEW h, RoundFacts(h), NEW Y \in History, NEW Z \in History, Later(Y, Z), Spans(Y, h)
  PROVE  /\ Window(Z.opened, Len(h.opened), h.fresh) = Window(Y.opened, Len(h.opened), h.fresh)
         /\ Window(Z.pub, Len(h.pub), h.pubs) = Window(Y.pub, Len(h.pub), h.pubs)
         /\ CastsRight(Z, h) <=> CastsRight(Y, h)
<1>1. /\ h.fresh \in Nat /\ h.pubs \in Nat /\ h.casts \in Nat
      /\ h.fresh <= Len(h.opened) /\ h.pubs <= Len(h.pub) /\ h.casts <= Len(h.cast)
      /\ Len(h.opened) \in Nat /\ Len(h.pub) \in Nat /\ Len(h.cast) \in Nat
  BY LimitsAre
<1>2. /\ Y.opened \in Seq(Entry) /\ Y.pub \in Seq(Entry) /\ Z.opened \in Seq(Entry) /\ Z.pub \in Seq(Entry)
      /\ Len(Y.cast) \in Nat
  BY PastIsToo
<1>3. /\ Len(h.opened) <= Len(Y.opened) /\ Len(h.pub) <= Len(Y.pub) /\ Len(h.cast) <= Len(Y.cast)
  BY <1>1, <1>2 DEF Spans
<1>4. Grows(Y.opened, Z.opened) /\ Grows(Y.pub, Z.pub) /\ Grows(Y.cast, Z.cast)
  BY DEF Later
<1>5. Window(Z.opened, Len(h.opened), h.fresh) = Window(Y.opened, Len(h.opened), h.fresh)
  BY <1>1, <1>2, <1>3, <1>4, WindowStays
<1>6. Window(Z.pub, Len(h.pub), h.pubs) = Window(Y.pub, Len(h.pub), h.pubs)
  BY <1>1, <1>2, <1>3, <1>4, WindowStays
<1>7. ASSUME NEW j \in Len(h.cast) - h.casts + 1 .. Len(h.cast) PROVE Z.cast[j] = Y.cast[j]
  <2> DEFINE l == Len(h.cast)
             k == h.casts
             m == Len(Y.cast)
  <2>1. l \in Nat /\ k \in Nat /\ k <= l /\ m \in Nat /\ l <= m /\ j \in l - k + 1 .. l
    BY <1>1, <1>2, <1>3
  <2>2. \A i \in 1 .. m : Z.cast[i] = Y.cast[i]
    BY <1>4 DEF Grows
  <2> HIDE DEF l, k, m
  <2>3. j \in Int /\ 1 <= j
    BY <2>1
  <2>4. j <= m
    BY <2>1
  <2>5. j \in 1 .. m
    BY <2>1, <2>3, <2>4
  <2> QED
    BY <2>2, <2>5
<1>8. CastsRight(Z, h) <=> CastsRight(Y, h)
  BY <1>7 DEF CastsRight
<1> QED
  BY <1>5, <1>6, <1>8

LEMMA ExactlyStays ==
  ASSUME NEW h, RoundFacts(h), NEW Y \in History, NEW Z \in History, Later(Y, Z), Spans(Y, h), NEW v, Exactly(v, Y, h)
  PROVE  Exactly(v, Z, h)
BY WindowsStay DEF Exactly

LEMMA CheckedStays ==
  ASSUME NEW h, RoundFacts(h), NEW X \in [Players -> History], NEW Z \in [Players -> History],
         \A q \in Players : Later(X[q], Z[q]), NEW p \in Players, Spans(X[p], h), NEW u, Checked(X, u, p, h)
  PROVE  Checked(Z, u, p, h)
<1>1. /\ h.fresh \in Nat /\ h.pubs \in Nat /\ h.casts \in Nat
      /\ h.fresh <= Len(h.opened) /\ h.pubs <= Len(h.pub) /\ h.casts <= Len(h.cast)
      /\ Len(h.opened) \in Nat /\ Len(h.pub) \in Nat /\ Len(h.cast) \in Nat
  BY LimitsAre
<1>2. \A q \in Players : /\ X[q] \in History /\ Z[q] \in History
                         /\ Len(X[q].opened) \in Nat /\ Len(X[q].pub) \in Nat /\ Len(X[q].cast) \in Nat
                         /\ Len(Z[q].opened) \in Nat /\ Len(Z[q].pub) \in Nat /\ Len(Z[q].cast) \in Nat
  <2> SUFFICES ASSUME NEW q \in Players
               PROVE  /\ X[q] \in History /\ Z[q] \in History
                      /\ Len(X[q].opened) \in Nat /\ Len(X[q].pub) \in Nat /\ Len(X[q].cast) \in Nat
                      /\ Len(Z[q].opened) \in Nat /\ Len(Z[q].pub) \in Nat /\ Len(Z[q].cast) \in Nat
    OBVIOUS
  <2>1. X[q] \in History /\ Z[q] \in History
    OBVIOUS
  <2> QED
    BY <2>1, PastIsToo
<1>3. \A q \in Players : Grows(X[q].opened, Z[q].opened) /\ Grows(X[q].pub, Z[q].pub) /\ Grows(X[q].cast, Z[q].cast)
  BY DEF Later
<1>4. Opens(Z, h)
  <2> SUFFICES ASSUME NEW q \in Players, NEW j \in 1 .. Len(h.opened) - h.fresh
               PROVE  j <= Len(Z[q].opened) /\ Z[q].opened[j] = h.opened[j]
    BY DEF Opens
  <2>1. j <= Len(X[q].opened) /\ X[q].opened[j] = h.opened[j]
    BY DEF Checked, Opens
  <2>2. j \in 1 .. Len(X[q].opened)
    BY <1>1, <1>2, <2>1
  <2> QED
    BY <1>1, <1>2, <1>3, <2>1, <2>2 DEF Grows
<1>5. Casts(Z, h)
  <2> SUFFICES ASSUME NEW q \in Players, NEW j \in 1 .. Len(h.cast) - h.casts
               PROVE  j <= Len(Z[q].cast) /\ Z[q].cast[j] = h.cast[j]
    BY DEF Casts
  <2>1. j <= Len(X[q].cast) /\ X[q].cast[j] = h.cast[j]
    BY DEF Checked, Casts
  <2>2. j \in 1 .. Len(X[q].cast)
    BY <1>1, <1>2, <2>1
  <2> QED
    BY <1>1, <1>2, <1>3, <2>1, <2>2 DEF Grows
<1>6. Enters(Z, p, h)
  <2> SUFFICES ASSUME NEW q \in Players, NEW j \in 1 .. Len(h.pub) - h.pubs
               PROVE  j <= Len(Z[q].pub) /\ Z[q].pub[j] = Z[p].pub[j]
    BY DEF Enters
  <2>1. j <= Len(X[q].pub) /\ X[q].pub[j] = X[p].pub[j]
    BY DEF Checked, Enters
  <2>2. j \in 1 .. Len(X[q].pub) /\ j \in 1 .. Len(X[p].pub)
    BY <1>1, <1>2, <2>1 DEF Spans
  <2> QED
    BY <1>1, <1>2, <1>3, <2>1, <2>2 DEF Grows
<1> QED
  BY <1>4, <1>5, <1>6 DEF Checked

-----------------------------------------------------------------------------
(* What a player says.                                                     *)

\* In the rounds where nothing is counted yet and nothing is settled.
LEMMA FreshIs ==
  ASSUME NEW h, RoundFacts(h)
  PROVE  /\ Round(h) \in {"OK", "aux", "reset"} => h.fresh = 0
         /\ Round(h) \notin {"OK", "aux", "reset", "count"} => h.fresh = h.open_cnt
<1>1. h.fresh = CASE Round(h) \in {"OK", "aux", "reset"} -> 0
                  [] Round(h) = "count" -> h.open_cnt + Len(Opened(h))
                  [] Round(h) \notin {"OK", "aux", "reset", "count"} -> h.open_cnt
  BY DEF RoundFacts, CountsOK
<1> QED
  BY <1>1

LEMMA EntryIs ==
  ASSUME NEW e \in Entry
  PROVE  [id |-> e.id, ok |-> e = [id |-> e.id, ok |-> TRUE]] = e
<1> DEFINE x == [id |-> e.id, ok |-> TRUE]
           y == [id |-> e.id, ok |-> e = x]
<1>1. e = [id |-> e.id, ok |-> e.ok] /\ e.ok \in BOOLEAN
  BY DEF Entry
<1>2. CASE e.ok = TRUE
  <2>1. e = x
    BY <1>1, <1>2
  <2>2. (e = x) = TRUE
    BY <2>1
  <2>3. y = [id |-> e.id, ok |-> TRUE]
    BY <2>2
  <2> QED
    BY <1>2, <1>1, <2>3
<1>3. CASE e.ok = FALSE
  <2>1. e # x
    BY <1>3
  <2>2. (e = x) = FALSE
    BY <2>1
  <2>3. y = [id |-> e.id, ok |-> FALSE]
    BY <2>2
  <2> QED
    BY <1>1, <1>3, <2>3
<1> QED
  BY <1>1, <1>2, <1>3

\* What the MACs are checked with is what was opened.
LEMMA TauIs ==
  ASSUME Setting, NEW h, RoundFacts(h), Round(h) = "reveal", NEW s, PlaceOK(s, h), NEW Y \in History, Keeps(s, Y, h)
  PROVE  type = "Full" /\ Tau(s) = Window(Y.opened, Len(h.opened), h.fresh)
<1>1. type = "Full"
  <2>1. h \in Here /\ RoundsOK(h)
    BY DEF RoundFacts
  <2>2. RoundOK(Call(h).op, Round(h))
    BY <2>1, RoundIs
  <2> QED
    BY <2>2 DEF RoundOK
<1> DEFINE w == Window(Y.opened, Len(h.opened), h.fresh)
           f == h.fresh
<1>2. s.open_cnt = f
  BY FreshIs DEF PlaceOK
<1>3. f \in Nat /\ f <= Len(h.opened) /\ Len(h.opened) \in Nat
  BY LimitsAre
<1>4. Y.opened \in Seq(Entry) /\ Len(Y.opened) = Len(h.opened)
  BY PastIsToo DEF Keeps, Sized
<1>5. w \in Seq(Entry) /\ Len(w) = f
  <2> DEFINE l == Len(h.opened)
  <2>1. f \in Nat /\ l \in Nat /\ f <= l /\ l <= Len(Y.opened)
    BY <1>3, <1>4
  <2> HIDE DEF f, l
  <2>2. Window(Y.opened, l, f) \in Seq(Entry) /\ Len(Window(Y.opened, l, f)) = f
    BY <1>4, <2>1, WindowIs
  <2> QED
    BY <2>2 DEF f, l
<1>6. s.vals = w /\ s.macs = [i \in 1 .. f |-> s.vals[i].id]
  BY <1>1 DEF Keeps
<1> HIDE DEF w, f
<1>7. \A i \in 1 .. f : s.macs[i] = w[i].id
  BY <1>6
<1>8. ASSUME NEW i \in 1 .. f PROVE [id |-> s.macs[i], ok |-> s.vals[i] = [id |-> s.macs[i], ok |-> TRUE]] = w[i]
  <2>1. w[i] \in Entry
    BY <1>5
  <2>2. s.macs[i] = w[i].id /\ s.vals[i] = w[i]
    BY <1>6, <1>7
  <2> QED
    BY <2>1, <2>2, EntryIs
<1>9. Tau(s) = [i \in 1 .. f |-> [id |-> s.macs[i], ok |-> s.vals[i] = [id |-> s.macs[i], ok |-> TRUE]]]
  BY <1>2 DEF Tau
<1>10. Tau(s) = [i \in 1 .. f |-> w[i]]
  <2> DEFINE a(i) == [id |-> s.macs[i], ok |-> s.vals[i] = [id |-> s.macs[i], ok |-> TRUE]]
  <2>1. \A i \in 1 .. f : a(i) = w[i]
    BY <1>8
  <2>2. Tau(s) = [i \in 1 .. f |-> a(i)]
    BY <1>9
  <2> HIDE DEF a
  <2> QED
    BY <2>1, <2>2
<1>11. w = [i \in 1 .. f |-> w[i]]
  BY <1>5
<1> QED
  BY <1>1, <1>10, <1>11 DEF w

LEMMA SaysExactly ==
  ASSUME Setting, NEW h, RoundFacts(h), Round(h) # "none", NEW p \in Players, NEW s, PlaceOK(s, h),
         NEW Y \in History, Keeps(s, Y, h)
  PROVE  /\ Exactly(Says(p, s, Round(h)), Y, h) /\ Right(Says(p, s, Round(h)), h, p)
         /\ Round(h) = "cast" => Len(Says(p, s, Round(h))) = 1
         /\ Says(p, s, Round(h)) \in Seq(Entry)
<1>0. h \in Here /\ RoundsOK(h) /\ RoundOK(Call(h).op, Round(h)) /\ h.pc \in 1 .. Len(prog)
  <2>1. h \in Here /\ RoundsOK(h)
    BY DEF RoundFacts
  <2> QED
    BY <2>1, RoundIs
<1>1. /\ Says(p, s, "hash") = s.sha256 /\ Says(p, s, "aux") = s.pub
      /\ Says(p, s, "same") = s.bcast /\ Says(p, s, "begin") = Opened(s)
      /\ Says(p, s, "reveal") = Tau(s) /\ Says(p, s, "cast") = Word(<<"data", s.pc, p>>)
  BY DEF Says
<1>2. s.pc = h.pc /\ Opened(s) = Opened(h)
  BY SamePlace DEF PlaceOK
<1>3. Exactly(Says(p, s, Round(h)), Y, h)
  <2>1. Round(h) = "reveal" => Says(p, s, Round(h)) = Window(Y.opened, Len(h.opened), h.fresh)
    BY <1>1, TauIs
  <2>2. Round(h) = "hash" => Says(p, s, Round(h)) = Window(Y.opened, Len(h.opened), h.fresh)
    <3>1. Round(h) = "hash" => type # "Full"
      BY <1>0 DEF RoundOK
    <3> QED
      BY <1>1, <3>1 DEF Keeps
  <2>3. Round(h) = "aux" => Says(p, s, Round(h)) = Window(Y.pub, Len(h.pub), h.pubs)
    BY <1>1 DEF Keeps
  <2>4. Round(h) = "same" => (Says(p, s, Round(h)) = h.bcast <=> CastsRight(Y, h))
    BY <1>1 DEF Keeps
  <2> QED
    BY <2>1, <2>2, <2>3, <2>4 DEF Exactly
<1>4. Right(Says(p, s, Round(h)), h, p)
  <2>1. Words(h)[p] = Word(<<"data", h.pc, p>>)
    BY <1>0, WordsIs
  <2> QED
    BY <1>1, <1>2, <2>1 DEF Right
<1>5. Round(h) = "cast" => Len(Says(p, s, Round(h))) = 1
  <2>1. <<"data", s.pc, p>> \in Ids
    <3>1. s.pc \in Nat /\ p \in Nat
      BY <1>0, <1>2, SettingIs
    <3> QED
      BY <3>1 DEF Ids
  <2> QED
    BY <1>1, <2>1, WordIs
<1> QED
  BY <1>3, <1>4, <1>5, SaysIs

-----------------------------------------------------------------------------
(* What a check shows.                                                     *)

\* A player that has ended a round has what it read in it in hand.
LEMMA HeardOf ==
  ASSUME NEW H, NEW at, NEW T, NEW C, NEW G, NEW p \in Players, T[p] = <<>>, NEW q \in Players,
         Connection(H[at[p]]) \in Connections, Reads(H[at[p]], Connection(H[at[p]]), q, p)
  PROVE  Held(H, at, T, C, G, q, p, G[p][q], Expected(H[at[p]], at[p], Connection(H[at[p]])))
<1>1. ~Left(T[p], "receive", q)
  BY DEF Left
<1> QED
  BY <1>1 DEF Held, InHand

LEMMA HeardAll ==
  ASSUME Setting, NEW H, Trace(H), NEW at \in [Players -> Nat], NEW T, NEW C, NEW G, NEW p \in Players, T[p] = <<>>,
         Round(H[at[p]]) \in Everyone, MailOK(H, at, T, C, G), NEW q \in Players, q # p
  PROVE  Held(H, at, T, C, G, q, p, G[p][q], at[p]) /\ at[p] <= at[q] /\ G[p][q] \in Seq(Entry)
<1> DEFINE h == H[at[p]]
           c == Connection(h)
<1>1. RoundFacts(h)
  BY TraceFacts
<1>2. Round(h) \in Everyone
  OBVIOUS
<1>3. Round(h) # "none" /\ Round(h) # "end" /\ Round(h) # "begin"
  BY <1>2 DEF Everyone
<1>4. c \in Connections
  <2> HIDE DEF h
  <2> QED
    BY <1>1, <1>3, CallIs
<1>5. Reads(h, c, q, p)
  <2>1. Talk(h, c, q, p)
    BY <1>2, <1>3 DEF Talk
  <2> QED
    BY <1>3, <2>1 DEF Reads
<1>6. Expected(h, at[p], c) = at[p]
  BY <1>3 DEF Expected
<1>7. Held(H, at, T, C, G, q, p, G[p][q], Expected(h, at[p], c))
  BY <1>4, <1>5, HeardOf
<1>8. Held(H, at, T, C, G, q, p, G[p][q], at[p])
  <2> HIDE DEF h, c
  <2> QED
    BY <1>6, <1>7
<1> QED
  BY <1>8 DEF MailOK

\* What is right at a player that has come to n is right as of n.
LEMMA RightWindows ==
  ASSUME Setting, NEW H, Trace(H), NEW n \in Nat, NEW m \in Nat, n <= m, NEW Y \in History
  PROVE  /\ Y.opened = H[m].opened =>
              Window(Y.opened, Len(H[n].opened), H[n].fresh) = Window(H[n].opened, Len(H[n].opened), H[n].fresh)
         /\ Y.pub = H[m].pub => Window(Y.pub, Len(H[n].pub), H[n].pubs) = Window(H[n].pub, Len(H[n].pub), H[n].pubs)
         /\ Y.cast = H[m].cast => CastsRight(Y, H[n])
<1> DEFINE h == H[n]
           g == H[m]
<1>1. g \in Here /\ Later(h, g) /\ RoundFacts(h)
  BY TraceGrows, TraceFacts
<1> HIDE DEF h, g
<1>2. /\ h.fresh \in Nat /\ h.pubs \in Nat /\ h.casts \in Nat
      /\ h.fresh <= Len(h.opened) /\ h.pubs <= Len(h.pub) /\ h.casts <= Len(h.cast)
      /\ Len(h.opened) \in Nat /\ Len(h.pub) \in Nat /\ Len(h.cast) \in Nat
  BY <1>1, LimitsAre
<1>3. h.opened \in Seq(Entry) /\ h.pub \in Seq(Entry) /\ g.opened \in Seq(Entry) /\ g.pub \in Seq(Entry)
  BY <1>1, LimitsAre, PastIs
<1>4. Grows(h.opened, g.opened) /\ Grows(h.pub, g.pub) /\ Grows(h.cast, g.cast)
  BY <1>1 DEF Later
<1>5. Window(g.opened, Len(h.opened), h.fresh) = Window(h.opened, Len(h.opened), h.fresh)
  BY <1>2, <1>3, <1>4, WindowStays
<1>6. Window(g.pub, Len(h.pub), h.pubs) = Window(h.pub, Len(h.pub), h.pubs)
  BY <1>2, <1>3, <1>4, WindowStays
<1>7. ASSUME Y.cast = g.cast PROVE CastsRight(Y, h)
  <2> SUFFICES ASSUME NEW j \in Len(h.cast) - h.casts + 1 .. Len(h.cast) PROVE Y.cast[j] = h.cast[j]
    BY DEF CastsRight
  <2>1. j \in 1 .. Len(h.cast)
    BY <1>2
  <2> QED
    BY <1>4, <1>7, <2>1 DEF Grows
<1> QED
  BY <1>5, <1>6, <1>7 DEF h, g

\* What is right for all when a check has not failed.
Settled(X, p, h) ==
  /\ \A q \in Players : Spans(X[q], h)
  /\ Round(h) \in {"reveal", "hash"} => \A q \in Players :
       Window(X[q].opened, Len(h.opened), h.fresh) = Window(h.opened, Len(h.opened), h.fresh)
  /\ Round(h) = "aux" => \A q \in Players : Window(X[q].pub, Len(h.pub), h.pubs) = Window(X[p].pub, Len(h.pub), h.pubs)
  /\ Round(h) = "same" => \A q \in Players : CastsRight(X[q], h)

LEMMA Settles ==
  ASSUME Setting, NEW H, Trace(H), NEW at \in [Players -> Nat], NEW S, NEW T, NEW C, NEW X \in [Players -> History], NEW U, NEW f,
         got \in [Players -> Speech], Sound(H, at, S, T, C, got, X, U, f),
         NEW p \in Players, T[p] = <<>>, PlaceOK(S[p], H[at[p]]), Round(H[at[p]]) \in Compared,
         AllSay(p, S[p], Round(H[at[p]]))
  PROVE  Settled(X, p, H[at[p]])
<1> DEFINE h == H[at[p]]
           r == Round(h)
           D == Heard(p, S[p], r)
           says == Says(p, S[p], r)
<1>0. RoundFacts(h) /\ at[p] \in Nat /\ \A q \in Players : at[q] \in Nat /\ X[q] \in History
  BY TraceFacts
<1>1. MailOK(H, at, T, C, got) /\ \A q \in Players : Keeps(S[q], X[q], H[at[q]])
  BY DEF Sound
<1>2. r \in Everyone /\ r # "none" /\ r \in Compared
  BY DEF Compared, Everyone
<1>3. \A q \in Players : at[p] <= at[q]
  <2> SUFFICES ASSUME NEW q \in Players PROVE at[p] <= at[q]
    OBVIOUS
  <2>1. CASE q = p
    BY <1>0, <2>1
  <2>2. CASE q # p
    BY <1>1, <1>2, <2>2, HeardAll
  <2> QED
    BY <2>1, <2>2
<1>4. \A q \in Players : Spans(X[q], h)
  <2> SUFFICES ASSUME NEW q \in Players PROVE Spans(X[q], h)
    OBVIOUS
  <2>1. Sized(X[q], H[at[q]]) /\ at[q] \in Nat /\ X[q] \in History
    BY <1>0, <1>1 DEF Keeps
  <2> QED
    BY <1>0, <1>3, <2>1, SpansBefore
<1>5. Exactly(says, X[p], h) /\ says \in Seq(Entry)
  <2>1. Keeps(S[p], X[p], h) /\ X[p] \in History /\ PlaceOK(S[p], h)
    BY <1>0, <1>1
  <2> HIDE DEF h
  <2> QED
    BY <1>0, <1>2, <2>1, SaysExactly
<1>6. \A q \in Players : D[q] = says
  BY DEF AllSay
<1>7. CASE Exact(H, at, T, C, got, X) /\ \E y \in Players : RightAt(H, at, T, C, got, X, y)
  <2>1. PICK y \in Players : RightAt(H, at, T, C, got, X, y)
    BY <1>7
  <2>2. \A q \in Players : Exactly(says, X[q], h)
    <3> SUFFICES ASSUME NEW q \in Players PROVE Exactly(says, X[q], h)
      OBVIOUS
    <3>1. CASE q = p
      BY <1>5, <3>1
    <3>2. CASE q # p
      <4>1. Held(H, at, T, C, got, q, p, got[p][q], at[p])
        BY <1>1, <1>2, <3>2, HeardAll
      <4>2. Exactly(got[p][q], X[q], h)
        BY <1>7, <4>1 DEF Exact
      <4>3. D[q] = got[p][q]
        BY <1>5, <3>2, HeardIs
      <4> QED
        BY <1>6, <4>2, <4>3
    <3> QED
      BY <3>1, <3>2
  <2>3. /\ Window(X[y].opened, Len(h.opened), h.fresh) = Window(h.opened, Len(h.opened), h.fresh)
        /\ CastsRight(X[y], h)
    <3>1. X[y].opened = H[at[y]].opened /\ X[y].cast = H[at[y]].cast
      BY <2>1 DEF RightAt
    <3> QED
      BY <1>0, <1>3, <3>1, RightWindows
  <2> HIDE DEF h, says, D
  <2>4. r \in {"reveal", "hash"} => \A q \in Players :
          Window(X[q].opened, Len(h.opened), h.fresh) = Window(h.opened, Len(h.opened), h.fresh)
    <3> SUFFICES ASSUME r \in {"reveal", "hash"}, NEW q \in Players
                 PROVE  Window(X[q].opened, Len(h.opened), h.fresh) = Window(h.opened, Len(h.opened), h.fresh)
      OBVIOUS
    <3>1. says = Window(X[q].opened, Len(h.opened), h.fresh) /\ says = Window(X[y].opened, Len(h.opened), h.fresh)
      BY <2>2 DEF Exactly
    <3> QED
      BY <2>3, <3>1
  <2>5. r = "aux" => \A q \in Players : Window(X[q].pub, Len(h.pub), h.pubs) = Window(X[p].pub, Len(h.pub), h.pubs)
    <3> SUFFICES ASSUME r = "aux", NEW q \in Players
                 PROVE  Window(X[q].pub, Len(h.pub), h.pubs) = Window(X[p].pub, Len(h.pub), h.pubs)
      OBVIOUS
    <3>1. says = Window(X[q].pub, Len(h.pub), h.pubs) /\ says = Window(X[p].pub, Len(h.pub), h.pubs)
      BY <2>2 DEF Exactly
    <3> QED
      BY <3>1
  <2>6. r = "same" => \A q \in Players : CastsRight(X[q], h)
    BY <2>2, <2>3 DEF Exactly
  <2> QED
    BY <1>4, <2>4, <2>5, <2>6 DEF Settled, h
<1>8. CASE \A z \in Players : RightAt(H, at, T, C, got, X, z) /\ EntersRight(H, at, X, z)
  <2>1. \A q \in Players : X[q].opened = H[at[q]].opened /\ X[q].cast = H[at[q]].cast /\ X[q].pub = H[at[q]].pub
    BY <1>8 DEF RightAt, EntersRight
  <2>2. \A q \in Players :
          /\ Window(X[q].opened, Len(h.opened), h.fresh) = Window(h.opened, Len(h.opened), h.fresh)
          /\ Window(X[q].pub, Len(h.pub), h.pubs) = Window(h.pub, Len(h.pub), h.pubs)
          /\ CastsRight(X[q], h)
    BY <1>0, <1>3, <2>1, RightWindows
  <2> QED
    BY <1>4, <2>2 DEF Settled
<1> QED
  BY <1>7, <1>8 DEF Sound

-----------------------------------------------------------------------------
(* The hash of what was broadcast.                                         *)

\* Pieces of one element each, one after the other.
LEMMA FlattenExact ==
  ASSUME NEW Q, NEW ss \in Seq(Seq(Q)), Len(ss) > 0, \A i \in 1 .. Len(ss) : Len(ss[i]) = 1
  PROVE  FlattenSeq(ss) = [i \in 1 .. Len(ss) |-> ss[i][1]]
<1>1. PICK f \in [1 .. Len(ss) -> Seq(Q)] :
        /\ f[1] = ss[1] /\ \A i \in 2 .. Len(ss) : f[i] = f[i - 1] \o ss[i]
        /\ FlattenSeq(ss) = f[Len(ss)]
  BY FlattenIs
<1> DEFINE l == Len(ss)
           D(n) == f[n] \in Seq(Q) /\ Len(f[n]) = n /\ \A i \in 1 .. n : f[n][i] = ss[i][1]
           T == {n \in Nat : D(n)}
<1>2. l \in Nat /\ l > 0 /\ (\A i \in 1 .. l : ss[i] \in Seq(Q) /\ Len(ss[i]) = 1 /\ f[i] \in Seq(Q))
      /\ f[1] = ss[1] /\ \A i \in 2 .. l : f[i] = f[i - 1] \o ss[i]
  <2>1. Len(ss) \in Nat /\ Len(ss) > 0 /\ \A i \in 1 .. Len(ss) : ss[i] \in Seq(Q) /\ Len(ss[i]) = 1
    OBVIOUS
  <2> HIDE DEF l
  <2>2. \A i \in 1 .. l : f[i] \in Seq(Q)
    BY <1>1 DEF l
  <2>3. f[1] = ss[1] /\ \A i \in 2 .. l : f[i] = f[i - 1] \o ss[i]
    BY <1>1 DEF l
  <2> QED
    BY <2>1, <2>2, <2>3 DEF l
<1> HIDE DEF l
<1>3. 1 \in T
  <2>1. 1 \in 1 .. l
    BY <1>2
  <2>2. D(1)
    BY <1>2, <2>1
  <2> QED
    BY <2>2
<1>4. ASSUME NEW n \in Nat, n >= 1, n < l, n \in T PROVE n + 1 \in T
  <2>1. D(n) /\ n + 1 \in 2 .. l /\ (n + 1) - 1 = n /\ n + 1 \in 1 .. l
    BY <1>2, <1>4
  <2> DEFINE x == f[n]
             y == ss[n + 1]
             z == f[n + 1]
  <2>2. x \in Seq(Q) /\ Len(x) = n /\ (\A i \in 1 .. n : x[i] = ss[i][1])
    BY <2>1
  <2>3. y \in Seq(Q) /\ Len(y) = 1 /\ z = x \o y /\ z \in Seq(Q) /\ y[1] = ss[n + 1][1]
    BY <1>2, <2>1
  <2> HIDE DEF x, y, z, D, T
  <2>4. Len(x \o y) = Len(x) + Len(y) /\ (\A i \in 1 .. Len(x) : (x \o y)[i] = x[i]) /\ \A i \in 1 .. Len(y) : (x \o y)[Len(x) + i] = y[i]
    <3>1. x \in Seq(Q) /\ y \in Seq(Q)
      BY <2>2, <2>3
    <3> QED
      BY <3>1, Join
  <2>5. Len(z) = n + 1 /\ (\A i \in 1 .. n : z[i] = x[i]) /\ z[n + 1] = y[1]
    <3>1. 1 \in 1 .. Len(y)
      BY <2>3
    <3> QED
      BY <2>2, <2>3, <2>4, <3>1
  <2>6. ASSUME NEW i \in 1 .. n + 1 PROVE z[i] = ss[i][1]
    <3>1. CASE i = n + 1
      BY <2>3, <2>5, <3>1
    <3>2. CASE i # n + 1
      <4>1. i \in 1 .. n
        BY <3>2
      <4> QED
        BY <2>2, <2>5, <4>1
    <3> QED
      BY <3>1, <3>2
  <2>7. D(n + 1)
    BY <2>3, <2>5, <2>6 DEF D, z
  <2> QED
    BY <2>7 DEF T
<1> HIDE DEF T
<1>5. l \in T
  BY <1>2, <1>3, <1>4, InductUpTo
<1>6. D(l)
  BY <1>5 DEF T
<1>7. f[l] = [i \in 1 .. l |-> f[l][i]]
  <2> DEFINE x == f[l]
  <2>1. x \in Seq(Q) /\ Len(x) = l
    BY <1>6
  <2> HIDE DEF x
  <2>2. x = [i \in 1 .. l |-> x[i]]
    BY <2>1
  <2> QED
    BY <2>2 DEF x
<1>8. [i \in 1 .. l |-> f[l][i]] = [i \in 1 .. l |-> ss[i][1]]
  BY <1>6
<1> QED
  BY <1>1, <1>7, <1>8 DEF l

\* The words of all, one after the other.
Line(A) == FlattenSeq([i \in 1 .. N |-> A[i - 1]])
Singles(A) == A \in Speech /\ \A q \in Players : Len(A[q]) = 1

LEMMA LineIs ==
  ASSUME Setting, NEW A, Singles(A)
  PROVE  /\ Line(A) \in Seq(Entry) /\ Len(Line(A)) = N
         /\ \A q \in Players : Line(A)[q + 1] = A[q][1] /\ A[q] = <<A[q][1]>>
<1>1. N \in Nat /\ N >= 1 /\ (\A q \in Players : q \in Nat /\ q + 1 \in 1 .. N) /\ \A i \in 1 .. N : i - 1 \in Players
  BY SettingIs
<1>2. \A q \in Players : A[q] \in Seq(Entry) /\ Len(A[q]) = 1
  BY DEF Singles, Speech
<1> DEFINE ss == [i \in 1 .. N |-> A[i - 1]]
<1>3. ss \in Seq(Seq(Entry)) /\ Len(ss) = N /\ \A i \in 1 .. N : ss[i] = A[i - 1]
  BY <1>1, <1>2
<1> HIDE DEF ss
<1>4. \A i \in 1 .. Len(ss) : Len(ss[i]) = 1
  BY <1>1, <1>2, <1>3
<1>5. FlattenSeq(ss) = [i \in 1 .. Len(ss) |-> ss[i][1]]
  BY <1>1, <1>3, <1>4, FlattenExact
<1> DEFINE L == Line(A)
<1>6. L = [i \in 1 .. N |-> A[i - 1][1]]
  <2>1. L = FlattenSeq(ss)
    BY DEF Line, ss
  <2>2. [i \in 1 .. Len(ss) |-> ss[i][1]] = [i \in 1 .. N |-> A[i - 1][1]]
    BY <1>3
  <2> QED
    BY <1>5, <2>1, <2>2
<1>7. \A q \in Players : A[q][1] \in Entry
  BY <1>2
<1> HIDE DEF L
<1>8. L \in Seq(Entry) /\ Len(L) = N
  <2>1. \A i \in 1 .. N : A[i - 1][1] \in Entry
    BY <1>1, <1>7
  <2> QED
    BY <1>1, <1>6, <2>1
<1>9. ASSUME NEW q \in Players PROVE L[q + 1] = A[q][1]
  <2>1. q + 1 \in 1 .. N /\ (q + 1) - 1 = q
    BY <1>1
  <2> QED
    BY <1>6, <2>1
<1>10. ASSUME NEW q \in Players PROVE A[q] = <<A[q][1]>>
  <2> DEFINE a == A[q]
  <2>1. a \in Seq(Entry) /\ Len(a) = 1
    BY <1>2
  <2> HIDE DEF a
  <2>2. a = <<a[1]>>
    BY <2>1
  <2> QED
    BY <2>2 DEF a
<1> QED
  BY <1>8, <1>9, <1>10 DEF L

LEMMA LineEqual ==
  ASSUME Setting, NEW A, Singles(A), NEW B, Singles(B)
  PROVE  Line(A) = Line(B) <=> A = B
<1>1. ASSUME Line(A) = Line(B) PROVE A = B
  <2>1. \A q \in Players : A[q] = B[q]
    <3> SUFFICES ASSUME NEW q \in Players PROVE A[q] = B[q]
      OBVIOUS
    <3>1. Line(A)[q + 1] = A[q][1] /\ A[q] = <<A[q][1]>> /\ Line(B)[q + 1] = B[q][1] /\ B[q] = <<B[q][1]>>
      BY LineIs
    <3>2. A[q][1] = B[q][1]
      BY <1>1, <3>1
    <3> QED
      BY <3>1, <3>2
  <2>2. A \in [Players -> Seq(Entry)] /\ B \in [Players -> Seq(Entry)]
    BY DEF Singles, Speech
  <2> QED
    BY <2>1, <2>2
<1> QED
  BY <1>1

\* Pieces of the same lengths, one after the other, are equal if the pieces are.
Alike(Q, a, b, c, d) ==
  a \in Seq(Q) /\ b \in Seq(Q) /\ c \in Seq(Q) /\ d \in Seq(Q) /\ Len(a) = Len(c) /\ Len(b) = Len(d)
Apart(a, b, c, d) == a \o b = c \o d <=> a = c /\ b = d

LEMMA JoinApart ==
  ASSUME NEW Q, NEW a, NEW b, NEW c, NEW d, Alike(Q, a, b, c, d)
  PROVE  Apart(a, b, c, d)
<1>0. a \in Seq(Q) /\ b \in Seq(Q) /\ c \in Seq(Q) /\ d \in Seq(Q) /\ Len(a) = Len(c) /\ Len(b) = Len(d)
  BY DEF Alike
<1>1. /\ \A i \in 1 .. Len(a) : (a \o b)[i] = a[i]
      /\ \A i \in 1 .. Len(b) : (a \o b)[Len(a) + i] = b[i]
  BY <1>0, Join
<1>2. /\ \A i \in 1 .. Len(c) : (c \o d)[i] = c[i]
      /\ \A i \in 1 .. Len(d) : (c \o d)[Len(c) + i] = d[i]
  BY <1>0, Join
<1>3. ASSUME a \o b = c \o d PROVE a = c /\ b = d
  <2> DEFINE u == a \o b
  <2>1. (\A i \in 1 .. Len(a) : u[i] = a[i]) /\ \A i \in 1 .. Len(b) : u[Len(a) + i] = b[i]
    BY <1>1
  <2>2. (\A i \in 1 .. Len(c) : u[i] = c[i]) /\ \A i \in 1 .. Len(d) : u[Len(c) + i] = d[i]
    BY <1>2, <1>3
  <2> HIDE DEF u
  <2>3. \A i \in 1 .. Len(a) : a[i] = c[i]
    BY <1>0, <2>1, <2>2
  <2>4. \A i \in 1 .. Len(b) : b[i] = d[i]
    BY <1>0, <2>1, <2>2
  <2> QED
    BY <1>0, <2>3, <2>4, SeqEqual
<1> QED
  BY <1>3 DEF Apart

-----------------------------------------------------------------------------
(* What a round leaves of what a player has for the next checks.           *)

LEMMA EffectFields ==
  ASSUME Setting, NEW h, RoundFacts(h), Round(h) \notin {"none", "pub"},
         NEW p \in Players, NEW s, PlaceOK(s, h)
  PROVE  LET e == Effect(p, s, Round(h))
             r == Round(h)
             vs == Values(p, s)
         IN  /\ e.vals = IF r = "end" /\ type = "Full" THEN s.vals \o vs ELSE IF r = "reveal" THEN <<>> ELSE s.vals
             /\ e.macs = IF r = "end" /\ type = "Full" THEN s.macs \o [i \in DOMAIN vs |-> vs[i].id]
                         ELSE IF r = "reveal" THEN <<>> ELSE s.macs
             /\ e.sha256 = IF r = "end" /\ type # "Full" THEN s.sha256 \o vs ELSE IF r = "hash" THEN <<>> ELSE s.sha256
             /\ e.pub = IF r = "aux" THEN <<>> ELSE s.pub
             /\ e.bcast = IF r = "cast" THEN s.bcast \o Cast(p, s) ELSE IF r = "same" THEN <<>> ELSE s.bcast
<1> DEFINE r == Round(h)
           t == Popped(s)
           vs == Values(p, s)
           ids == [i \in DOMAIN vs |-> vs[i].id]
           o == Opened(h)
           c == Connection(h)
           F(e) == /\ e.vals = IF r = "end" /\ type = "Full" THEN s.vals \o vs ELSE IF r = "reveal" THEN <<>> ELSE s.vals
                   /\ e.macs = IF r = "end" /\ type = "Full" THEN s.macs \o ids
                               ELSE IF r = "reveal" THEN <<>> ELSE s.macs
                   /\ e.sha256 = IF r = "end" /\ type # "Full" THEN s.sha256 \o vs ELSE IF r = "hash" THEN <<>> ELSE s.sha256
                   /\ e.pub = IF r = "aux" THEN <<>> ELSE s.pub
                   /\ e.bcast = IF r = "cast" THEN s.bcast \o Cast(p, s) ELSE IF r = "same" THEN <<>> ELSE s.bcast
<1>0. SUFFICES F(Effect(p, s, r))
  OBVIOUS
<1>1. /\ s \in State /\ s.pc = h.pc /\ s.pc \in 1 .. Len(prog) /\ s.rounds = h.rounds
      /\ s.open_cnt = h.open_cnt /\ h.open_cnt \in Nat
      /\ Call(s) = Call(h) /\ Connection(s) = c /\ Opened(s) = o
      /\ t \in State
      /\ t.pc = s.pc /\ t.open_cnt = s.open_cnt
  <2>1. NextIs(h, Following(h, 0), s, t)
    BY NextPlace
  <2> HIDE DEF t
  <2> QED
    BY <2>1 DEF NextIs
<1>2. h \in Here /\ RoundsOK(h) /\ CountsOK(h) /\ r \in Names /\ RoundOK(Call(h).op, r)
  <2>1. h \in Here /\ RoundsOK(h) /\ CountsOK(h)
    BY DEF RoundFacts
  <2> QED
    BY <2>1, RoundIs
<1>3. /\ t.vals = s.vals /\ t.macs = s.macs /\ t.sha256 = s.sha256 /\ t.pub = s.pub /\ t.bcast = s.bcast
      /\ t.counter = s.counter /\ t.comm = s.comm
  BY <1>1 DEF Popped, State
<1>4. \A x, y, z, u : /\ [t EXCEPT !.vals = x].vals = x
                      /\ [t EXCEPT !.sha256 = x].sha256 = x
                      /\ [t EXCEPT !.pub = x].pub = x
                      /\ [t EXCEPT !.bcast = x].bcast = x
  BY <1>1 DEF State
<1> HIDE DEF r, t, o, c
<1>5. CASE r = "begin"
  <2>1. Effect(p, s, "begin") = IF type = "Full" THEN t ELSE [t EXCEPT !.counter[c] = @ + Len(o)]
    BY <1>1 DEF Effect, t, Popped
  <2>2. CASE type = "Full"
    <3>1. F(t)
      BY <1>3, <1>5
    <3> QED
      BY <1>5, <2>1, <2>2, <3>1
  <2>3. CASE type # "Full"
    <3> DEFINE f == [t.counter EXCEPT ![c] = @ + Len(o)]
               e == [t EXCEPT !.counter = f]
    <3>1. Effect(p, s, "begin") = e
      BY <2>1, <2>3
    <3> HIDE DEF f
    <3>2. e.vals = t.vals /\ e.macs = t.macs /\ e.sha256 = t.sha256 /\ e.pub = t.pub /\ e.bcast = t.bcast
      BY <1>1 DEF State
    <3> HIDE DEF e
    <3>3. F(e)
      BY <1>3, <1>5, <3>2
    <3> QED
      BY <1>5, <3>1, <3>3
  <2> QED
    BY <2>2, <2>3
<1>6. CASE r = "end"
  <2> DEFINE m1 == t.macs \o ids
             v1 == t.vals \o vs
             x1 == t.sha256 \o vs
  <2>1. Effect(p, s, "end") = End(p, s)
    BY DEF Effect
  <2>2. CASE type = "Full"
    <3> DEFINE e == [t EXCEPT !.vals = v1, !.macs = m1]
               y == (IF t.open_cnt > Gap THEN CheckRounds(<<>>) ELSE <<>>) \o e.rounds
               f == [e EXCEPT !.rounds = y]
    <3>1. End(p, s) = f
      BY <2>2 DEF End, t, Popped, Due
    <3> HIDE DEF y, v1, m1
    <3>2. f.vals = v1 /\ f.macs = m1 /\ f.sha256 = t.sha256 /\ f.pub = t.pub /\ f.bcast = t.bcast
      BY <1>1 DEF State
    <3> HIDE DEF f
    <3>3. v1 = s.vals \o vs /\ m1 = s.macs \o ids
      BY <1>3 DEF v1, m1
    <3> HIDE DEF vs, ids
    <3>4. F(f)
      BY <1>3, <1>6, <2>2, <3>2, <3>3
    <3> QED
      BY <1>6, <2>1, <3>1, <3>4
  <2>3. CASE type # "Full"
    <3> DEFINE f == [t.counter EXCEPT ![c] = @ - Len(vs)]
               e == [t EXCEPT !.sha256 = x1, !.counter = f]
    <3>1. End(p, s) = e
      <4>1. End(p, s) = [t EXCEPT !.sha256 = x1, !.counter[c] = @ - Len(vs)]
        BY <1>1, <2>3 DEF End, t, Popped
      <4> QED
        BY <4>1
    <3> HIDE DEF f, x1
    <3>2. e.vals = t.vals /\ e.macs = t.macs /\ e.sha256 = x1 /\ e.pub = t.pub /\ e.bcast = t.bcast
      BY <1>1 DEF State
    <3> HIDE DEF e
    <3>3. x1 = s.sha256 \o vs
      BY <1>3 DEF x1
    <3> HIDE DEF vs, ids
    <3>4. F(e)
      BY <1>3, <1>6, <2>3, <3>2, <3>3
    <3> QED
      BY <1>6, <2>1, <3>1, <3>4
  <2> QED
    BY <2>2, <2>3
<1>7. CASE r = "count"
  <2> DEFINE k == s.open_cnt + Len(Opened(s))
             x == Tail(s.rounds)
             e == [s EXCEPT !.open_cnt = k, !.rounds = x]
             y == (IF e.open_cnt > Gap /\ e.counter[Connection(s)] = 0 THEN CheckRounds(<<>>) ELSE <<>>) \o e.rounds
             f == [e EXCEPT !.rounds = y]
  <2>1. Effect(p, s, "count") = f
    BY DEF Effect, Count, Due
  <2> HIDE DEF y, k, x
  <2>2. f.vals = s.vals /\ f.macs = s.macs /\ f.sha256 = s.sha256 /\ f.pub = s.pub /\ f.bcast = s.bcast
    BY <1>1 DEF State
  <2> HIDE DEF f
  <2>3. F(f)
    BY <1>7, <2>2
  <2> QED
    BY <1>7, <2>1, <2>3
<1>8. CASE r = "reset"
  <2> DEFINE x == Tail(s.rounds)
             f == [s EXCEPT !.open_cnt = 0, !.rounds = x]
  <2>1. Effect(p, s, "reset") = f
    BY DEF Effect, Reset
  <2> HIDE DEF x
  <2>2. f.vals = s.vals /\ f.macs = s.macs /\ f.sha256 = s.sha256 /\ f.pub = s.pub /\ f.bcast = s.bcast
    BY <1>1 DEF State
  <2> HIDE DEF f
  <2>3. F(f)
    BY <1>8, <2>2
  <2> QED
    BY <1>8, <2>1, <2>3
<1>9. CASE r = "reveal"
  <2> DEFINE x == SubSeq(t.macs, s.open_cnt + 1, Len(t.macs))
             y == SubSeq(t.vals, s.open_cnt + 1, Len(t.vals))
             f == [t EXCEPT !.macs = x, !.vals = y]
  <2>1. Effect(p, s, "reveal") = f
    BY DEF Effect, t, Popped
  <2>2. x = <<>> /\ y = <<>>
    <3>1. type = "Full" /\ h.fresh = h.open_cnt
      <4>1. type = "Full"
        BY <1>2, <1>9 DEF RoundOK
      <4>2. h.fresh = h.open_cnt
        BY <1>9, FreshIs DEF r
      <4> QED
        BY <4>1, <4>2
    <3>2. Len(t.macs) = s.open_cnt /\ Len(t.vals) = s.open_cnt /\ s.open_cnt \in Nat
      BY <1>1, <1>3, <3>1 DEF PlaceOK
    <3>3. t.macs \in Seq(Ids) /\ t.vals \in Seq(Entry)
      BY <1>1 DEF State
    <3>4. s.open_cnt + 1 \in Int /\ s.open_cnt \in Int /\ s.open_cnt < s.open_cnt + 1
      BY <3>2
    <3>5. x = <<>>
      BY <3>2, <3>4, SubSeqEmpty
    <3>6. y = <<>>
      BY <3>2, <3>4, SubSeqEmpty
    <3> QED
      BY <3>5, <3>6
  <2> HIDE DEF x, y
  <2>3. f.vals = y /\ f.macs = x /\ f.sha256 = t.sha256 /\ f.pub = t.pub /\ f.bcast = t.bcast
    BY <1>1 DEF State
  <2> HIDE DEF f
  <2>4. F(f)
    BY <1>3, <1>9, <2>2, <2>3
  <2> QED
    BY <1>9, <2>1, <2>4
<1>10. CASE r \in {"hash", "aux", "same"}
  <2>1. /\ Effect(p, s, "hash") = [t EXCEPT !.sha256 = <<>>]
        /\ Effect(p, s, "aux") = [t EXCEPT !.pub = <<>>]
        /\ Effect(p, s, "same") = [t EXCEPT !.bcast = <<>>]
    BY DEF Effect, t, Popped
  <2>2. ASSUME r = "hash" PROVE F([t EXCEPT !.sha256 = <<>>])
    <3> DEFINE f == [t EXCEPT !.sha256 = <<>>]
    <3>1. f.vals = t.vals /\ f.macs = t.macs /\ f.sha256 = <<>> /\ f.pub = t.pub /\ f.bcast = t.bcast
      BY <1>1 DEF State
    <3> HIDE DEF f
    <3>2. F(f)
      BY <1>3, <2>2, <3>1
    <3> QED
      BY <3>2 DEF f
  <2>3. ASSUME r = "aux" PROVE F([t EXCEPT !.pub = <<>>])
    <3> DEFINE f == [t EXCEPT !.pub = <<>>]
    <3>1. f.vals = t.vals /\ f.macs = t.macs /\ f.sha256 = t.sha256 /\ f.pub = <<>> /\ f.bcast = t.bcast
      BY <1>1 DEF State
    <3> HIDE DEF f
    <3>2. F(f)
      BY <1>3, <2>3, <3>1
    <3> QED
      BY <3>2 DEF f
  <2>4. ASSUME r = "same" PROVE F([t EXCEPT !.bcast = <<>>])
    <3> DEFINE f == [t EXCEPT !.bcast = <<>>]
    <3>1. f.vals = t.vals /\ f.macs = t.macs /\ f.sha256 = t.sha256 /\ f.pub = t.pub /\ f.bcast = <<>>
      BY <1>1 DEF State
    <3> HIDE DEF f
    <3>2. F(f)
      BY <1>3, <2>4, <3>1
    <3> QED
      BY <3>2 DEF f
  <2> HIDE DEF F
  <2> QED
    BY <1>10, <2>1, <2>2, <2>3, <2>4
<1>11. CASE r = "cast"
  <2> DEFINE x == t.bcast \o Cast(p, s)
             f == [t EXCEPT !.bcast = x]
  <2>1. Effect(p, s, "cast") = f
    BY DEF Effect, t, Popped
  <2> HIDE DEF x
  <2>2. f.vals = t.vals /\ f.macs = t.macs /\ f.sha256 = t.sha256 /\ f.pub = t.pub /\ f.bcast = x
    BY <1>1 DEF State
  <2> HIDE DEF f
  <2>3. F(f)
    BY <1>3, <1>11, <2>2 DEF x
  <2> QED
    BY <1>11, <2>1, <2>3
<1>12. CASE r \in {"seed", "tau"}
  <2> DEFINE x == Heard(p, s, r)
             f == [t EXCEPT !.comm = x]
  <2>1. Effect(p, s, "seed") = [t EXCEPT !.comm = Heard(p, s, "seed")] /\ Effect(p, s, "tau") = [t EXCEPT !.comm = Heard(p, s, "tau")]
    BY DEF Effect, t, Popped
  <2>2. Effect(p, s, r) = f
    BY <1>12, <2>1
  <2> HIDE DEF x
  <2>3. f.vals = t.vals /\ f.macs = t.macs /\ f.sha256 = t.sha256 /\ f.pub = t.pub /\ f.bcast = t.bcast
    BY <1>1 DEF State
  <2> HIDE DEF f
  <2>4. F(f)
    BY <1>3, <1>12, <2>3
  <2> QED
    BY <2>2, <2>4
<1>13. CASE r \in {"unseal", "OK", "mask", "one", "distinct"}
  <2>1. /\ Effect(p, s, "unseal") = t /\ Effect(p, s, "OK") = t /\ Effect(p, s, "mask") = t
        /\ Effect(p, s, "one") = t /\ Effect(p, s, "distinct") = t
    BY DEF Effect, t, Popped
  <2>2. F(t)
    BY <1>3, <1>13
  <2> QED
    BY <1>13, <2>1, <2>2
<1>14. r \notin {"none", "pub"}
  BY DEF r
<1> QED
  BY <1>2, <1>5, <1>6, <1>7, <1>8, <1>9, <1>10, <1>11, <1>12, <1>13, <1>14 DEF Names

LEMMA IdsJoin ==
  ASSUME NEW a \in Seq(Entry), NEW b \in Seq(Entry)
  PROVE  [i \in 1 .. Len(a) |-> a[i].id] \o [i \in DOMAIN b |-> b[i].id] = [i \in 1 .. Len(a) + Len(b) |-> (a \o b)[i].id]
<1> DEFINE m == Len(a)
           k == Len(b)
           u == [i \in 1 .. Len(a) |-> a[i].id]
           v == [i \in DOMAIN b |-> b[i].id]
           z == a \o b
           w == [i \in 1 .. Len(a) + Len(b) |-> z[i].id]
<1>1. m \in Nat /\ k \in Nat /\ (\A i \in 1 .. m : a[i].id \in Ids) /\ (\A i \in 1 .. k : b[i].id \in Ids) /\ DOMAIN b = 1 .. k
  <2>1. m \in Nat /\ k \in Nat /\ DOMAIN b = 1 .. k
    OBVIOUS
  <2>2. (\A i \in 1 .. m : a[i] \in Entry) /\ (\A i \in 1 .. k : b[i] \in Entry)
    OBVIOUS
  <2> QED
    BY <2>1, <2>2 DEF Entry
<1>2. /\ z \in Seq(Entry) /\ Len(z) = m + k
      /\ (\A i \in 1 .. m : z[i] = a[i]) /\ \A i \in 1 .. k : z[m + i] = b[i]
  BY Join
<1> HIDE DEF m, k, z
<1>3. u \in Seq(Ids) /\ Len(u) = m /\ \A i \in 1 .. m : u[i] = a[i].id
  <2>1. u = [i \in 1 .. m |-> a[i].id]
    BY DEF m
  <2> HIDE DEF u
  <2> QED
    BY <1>1, <2>1
<1>4. v \in Seq(Ids) /\ Len(v) = k /\ \A i \in 1 .. k : v[i] = b[i].id
  <2>1. v = [i \in 1 .. k |-> b[i].id]
    BY <1>1
  <2> HIDE DEF v
  <2> QED
    BY <1>1, <2>1
<1>5. w = [i \in 1 .. m + k |-> z[i].id]
  BY DEF m, k
<1> HIDE DEF u, v, w
<1>6. /\ u \o v \in Seq(Ids) /\ Len(u \o v) = m + k
      /\ (\A i \in 1 .. m : (u \o v)[i] = u[i]) /\ \A i \in 1 .. k : (u \o v)[m + i] = v[i]
  <2>1. u \in Seq(Ids) /\ v \in Seq(Ids)
    BY <1>3, <1>4
  <2>2. /\ u \o v \in Seq(Ids) /\ Len(u \o v) = Len(u) + Len(v)
        /\ (\A i \in 1 .. Len(u) : (u \o v)[i] = u[i]) /\ \A i \in 1 .. Len(v) : (u \o v)[Len(u) + i] = v[i]
    BY <2>1, Join
  <2> QED
    BY <1>3, <1>4, <2>2
<1> DEFINE x == u \o v
<1>8. x \in Seq(Ids) /\ Len(x) = m + k /\ (\A i \in 1 .. m : x[i] = u[i]) /\ \A i \in 1 .. k : x[m + i] = v[i]
  BY <1>6
<1> HIDE DEF x
<1>7. ASSUME NEW i \in 1 .. m + k PROVE x[i] = z[i].id
  <2>1. CASE i <= m
    <3>1. i \in 1 .. m
      BY <1>1, <2>1
    <3> QED
      BY <1>2, <1>3, <1>8, <3>1
  <2>2. CASE i > m
    <3> DEFINE j == i - m
    <3>1. j \in 1 .. k /\ m + j = i
      BY <1>1, <2>2
    <3> HIDE DEF j
    <3>2. x[m + j] = v[j] /\ v[j] = b[j].id /\ z[m + j] = b[j]
      BY <1>2, <1>4, <1>8, <3>1
    <3> QED
      BY <3>1, <3>2
  <2> QED
    BY <1>1, <2>1, <2>2
<1>9. x = [i \in 1 .. m + k |-> x[i]]
  BY <1>8
<1>10. x = w
  BY <1>5, <1>7, <1>9
<1> QED
  BY <1>10 DEF x, u, v, w, z

\* The broadcasts that are not checked are right if they were and what was
\* heard is.
Told(x, y, a, b, k) ==
  x \in Seq(Speech) /\ y \in Seq(Speech) /\ Len(x) = Len(y) /\ k \in Nat /\ k <= Len(x) /\ a \in Speech /\ b \in Speech
BothTold(x, y, a, b, k) ==
  (\A j \in Len(Append(x, a)) - (k + 1) + 1 .. Len(Append(x, a)) : Append(y, b)[j] = Append(x, a)[j])
    <=> (\A j \in Len(x) - k + 1 .. Len(x) : y[j] = x[j]) /\ a = b

LEMMA CastsTold ==
  ASSUME NEW x, NEW y, NEW a, NEW b, NEW k, Told(x, y, a, b, k)
  PROVE  BothTold(x, y, a, b, k)
<1> DEFINE l == Len(x)
           u == Append(x, a)
           v == Append(y, b)
<1>0. x \in Seq(Speech) /\ y \in Seq(Speech) /\ Len(x) = Len(y) /\ k \in Nat /\ k <= Len(x) /\ a \in Speech /\ b \in Speech
  BY DEF Told
<1>1. l \in Nat /\ Len(u) = l + 1 /\ u[l + 1] = a /\ v[l + 1] = b
  BY <1>0, AppendProperties
<1>2. (\A j \in 1 .. l : u[j] = x[j]) /\ \A j \in 1 .. l : v[j] = y[j]
  BY <1>0, AppendProperties
<1>3. k \in Nat /\ k <= l
  BY <1>0
<1> HIDE DEF l, u, v
<1>4. (\A j \in (l + 1) - (k + 1) + 1 .. l + 1 : v[j] = u[j]) <=> (\A j \in l - k + 1 .. l : y[j] = x[j]) /\ a = b
  <2>1. ASSUME \A j \in (l + 1) - (k + 1) + 1 .. l + 1 : v[j] = u[j] PROVE (\A j \in l - k + 1 .. l : y[j] = x[j]) /\ a = b
    <3>1. l + 1 \in (l + 1) - (k + 1) + 1 .. l + 1
      BY <1>1, <1>3
    <3>2. ASSUME NEW j \in l - k + 1 .. l PROVE y[j] = x[j]
      <4>1. j \in (l + 1) - (k + 1) + 1 .. l + 1 /\ j \in 1 .. l
        BY <1>1, <1>3
      <4> QED
        BY <1>2, <2>1, <4>1
    <3> QED
      BY <1>1, <2>1, <3>1, <3>2
  <2>2. ASSUME \A j \in l - k + 1 .. l : y[j] = x[j], a = b, NEW j \in (l + 1) - (k + 1) + 1 .. l + 1 PROVE v[j] = u[j]
    <3>1. CASE j = l + 1
      BY <1>1, <2>2, <3>1
    <3>2. CASE j # l + 1
      <4>1. j \in l - k + 1 .. l /\ j \in 1 .. l
        BY <1>1, <1>3, <3>2
      <4> QED
        BY <1>2, <2>2, <4>1
    <3> QED
      BY <3>1, <3>2
  <2> QED
    BY <2>1, <2>2
<1> QED
  BY <1>1, <1>4 DEF BothTold, l, u, v

\* A round leaves a player with what is to be checked.
LEMMA KeepsEffect ==
  ASSUME Setting, NEW h, RoundFacts(h), NEW n \in Nat, Round(h) \notin {"none", "pub"},
         NEW p \in Players, NEW s, PlaceOK(s, h), got[p] \in Speech, NEW Y \in History, NEW Z \in History, Keeps(s, Y, h),
         Recorded(Y, Z, p, s, Round(h)), Round(h) = "cast" => Singles(Heard(p, s, "cast"))
  PROVE  Keeps(Effect(p, s, Round(h)), Z, Following(h, n))
<1> DEFINE g == Following(h, n)
           r == Round(h)
           e == Effect(p, s, r)
           vs == Values(p, s)
           o == Opened(h)
<1>1. /\ g.opened = IF r = "end" THEN h.opened \o o ELSE h.opened
      /\ g.pub = h.pub
      /\ g.cast = IF r = "cast" THEN Append(h.cast, Words(h)) ELSE h.cast
      /\ g.fresh = IF r = "end" THEN h.fresh + Len(o) ELSE IF r \in {"reveal", "hash"} THEN 0 ELSE h.fresh
      /\ g.pubs = IF r = "aux" THEN 0 ELSE h.pubs
      /\ g.casts = IF r = "cast" THEN h.casts + 1 ELSE IF r = "same" THEN 0 ELSE h.casts
      /\ g.bcast = IF r = "cast" THEN h.bcast \o Line(Words(h)) ELSE IF r = "same" THEN <<>> ELSE h.bcast
  <2> HIDE DEF o
  <2> QED
    BY PastAfter DEF o, Line
<1>2. /\ e.vals = IF r = "end" /\ type = "Full" THEN s.vals \o vs ELSE IF r = "reveal" THEN <<>> ELSE s.vals
      /\ e.macs = IF r = "end" /\ type = "Full" THEN s.macs \o [i \in DOMAIN vs |-> vs[i].id]
                  ELSE IF r = "reveal" THEN <<>> ELSE s.macs
      /\ e.sha256 = IF r = "end" /\ type # "Full" THEN s.sha256 \o vs ELSE IF r = "hash" THEN <<>> ELSE s.sha256
      /\ e.pub = IF r = "aux" THEN <<>> ELSE s.pub
      /\ e.bcast = IF r = "cast" THEN s.bcast \o Cast(p, s) ELSE IF r = "same" THEN <<>> ELSE s.bcast
  BY EffectFields
<1>3. /\ Z.opened = IF r = "end" THEN Y.opened \o vs ELSE Y.opened
      /\ Z.pub = Y.pub
      /\ Z.cast = IF r = "cast" THEN Append(Y.cast, Heard(p, s, "cast")) ELSE Y.cast
  BY DEF Recorded
<1>4. /\ Sized(Y, h)
      /\ type = "Full" => /\ s.vals = Window(Y.opened, Len(h.opened), h.fresh)
                          /\ s.macs = [i \in 1 .. h.fresh |-> s.vals[i].id]
      /\ type # "Full" => s.sha256 = Window(Y.opened, Len(h.opened), h.fresh)
      /\ s.pub = Window(Y.pub, Len(h.pub), h.pubs)
      /\ Len(s.bcast) = Len(h.bcast) /\ (s.bcast = h.bcast <=> CastsRight(Y, h))
  BY DEF Keeps
<1>5. /\ h \in Here /\ h.fresh \in Nat /\ h.pubs \in Nat /\ h.casts \in Nat
      /\ h.fresh <= Len(h.opened) /\ h.pubs <= Len(h.pub) /\ h.casts <= Len(h.cast)
      /\ Len(h.opened) \in Nat /\ Len(h.pub) \in Nat /\ Len(h.cast) \in Nat
  BY LimitsAre
<1>6. h.opened \in Seq(Entry) /\ h.pub \in Seq(Entry) /\ h.cast \in Seq(Speech) /\ h.bcast \in Seq(Entry)
  BY <1>5, PastIs
<1>7. Y.opened \in Seq(Entry) /\ Y.pub \in Seq(Entry) /\ Y.cast \in Seq(Speech)
  BY PastIsToo
<1>8. Len(Y.opened) = Len(h.opened) /\ Len(Y.pub) = Len(h.pub) /\ Len(Y.cast) = Len(h.cast)
  BY <1>4 DEF Sized
<1>9. o \in Seq(Entry) /\ vs \in Seq(Entry) /\ Len(vs) = Len(o) /\ Len(o) \in Nat
  <2>1. s.pc \in 1 .. Len(prog) /\ s.pc = h.pc /\ Opened(s) = o
    BY NextPlace DEF NextIs
  <2>2. o \in Seq(Entry)
    BY <2>1, OpenedIs, SettingIs
  <2> QED
    BY <2>1, <2>2, ValuesIs
<1>10. Words(h) \in Speech /\ Singles(Words(h)) /\ (r = "cast" => Singles(Heard(p, s, "cast")) /\ Heard(p, s, "cast") \in Speech)
  <2>1. Words(h) \in Speech /\ \A q \in Players : Words(h)[q] = Word(<<"data", h.pc, q>>)
    BY <1>5, WordsIs
  <2>2. ASSUME NEW q \in Players PROVE Len(Words(h)[q]) = 1
    <3>1. <<"data", h.pc, q>> \in Ids
      <4>1. h.pc \in Nat /\ q \in Nat
        BY <1>5, SettingIs DEF Here
      <4> QED
        BY <4>1 DEF Ids
    <3> QED
      BY <2>1, <3>1, WordIs
  <2> QED
    BY <2>1, <2>2 DEF Singles
<1>11. r \notin {"none", "pub"}
  OBVIOUS
<1> HIDE DEF g, e, vs, o
<1> DEFINE l == Len(h.opened)
           k == Len(vs)
           W == Window(Z.opened, Len(g.opened), g.fresh)
<1>12. Len(Z.opened) = Len(g.opened) /\ (r = "end" => W = Window(Y.opened, l, h.fresh) \o vs)
  <2>1. CASE r = "end"
    <3>1. /\ Z.opened = Y.opened \o vs /\ g.opened = h.opened \o o /\ g.fresh = h.fresh + k
      BY <1>1, <1>3, <1>9, <2>1
    <3>2. Len(Y.opened \o vs) = Len(Y.opened) + Len(vs)
      <4>1. Y.opened \in Seq(Entry) /\ vs \in Seq(Entry)
        BY <1>7, <1>9
      <4> QED
        BY <4>1, Join
    <3>3. Len(h.opened \o o) = Len(h.opened) + Len(o)
      <4>1. h.opened \in Seq(Entry) /\ o \in Seq(Entry)
        BY <1>6, <1>9
      <4> QED
        BY <4>1, Join
    <3>4. Len(g.opened) = l + k /\ Len(Z.opened) = l + k
      BY <1>8, <1>9, <3>1, <3>2, <3>3
    <3>5. Window(Y.opened \o vs, Len(Y.opened) + Len(vs), h.fresh + Len(vs)) = Window(Y.opened, Len(Y.opened), h.fresh) \o vs
      <4>1. h.fresh \in Nat /\ h.fresh <= Len(Y.opened)
        BY <1>5, <1>8
      <4> QED
        BY <1>7, <1>9, <4>1, WindowGrows
    <3> QED
      BY <1>8, <3>1, <3>4, <3>5
  <2>2. CASE r # "end"
    BY <1>1, <1>3, <1>8, <2>2
  <2> QED
    BY <2>1, <2>2
<1>13. r \in {"reveal", "hash"} => W = <<>> /\ g.fresh = 0
  BY <1>1, WindowNone
<1>14. r \notin {"end", "reveal", "hash"} => W = Window(Y.opened, l, h.fresh) /\ g.fresh = h.fresh
  BY <1>1, <1>3
<1> HIDE DEF W, l, k
<1>15. Sized(Z, g)
  <2>1. Len(Z.pub) = Len(g.pub)
    BY <1>1, <1>3, <1>8
  <2>2. Len(Z.cast) = Len(g.cast)
    <3>1. CASE r = "cast"
      <4>1. Z.cast = Append(Y.cast, Heard(p, s, "cast")) /\ g.cast = Append(h.cast, Words(h))
        BY <1>1, <1>3, <3>1
      <4>2. Len(Append(Y.cast, Heard(p, s, "cast"))) = Len(Y.cast) + 1
        BY <1>7, <1>10, <3>1, AppendProperties
      <4>3. Len(Append(h.cast, Words(h))) = Len(h.cast) + 1
        BY <1>6, <1>10, AppendProperties
      <4> QED
        BY <1>8, <4>1, <4>2, <4>3
    <3>2. CASE r # "cast"
      BY <1>1, <1>3, <1>8, <3>2
    <3> QED
      BY <3>1, <3>2
  <2> QED
    BY <1>12, <2>1, <2>2 DEF Sized
<1>16. ASSUME type = "Full" PROVE e.vals = W /\ e.macs = [i \in 1 .. g.fresh |-> e.vals[i].id]
  <2> DEFINE w == Window(Y.opened, l, h.fresh)
  <2>1. s.vals = w /\ s.macs = [i \in 1 .. h.fresh |-> w[i].id]
    BY <1>4, <1>16 DEF l
  <2>2. w \in Seq(Entry) /\ Len(w) = h.fresh
    <3>1. h.fresh \in Nat /\ l \in Nat /\ h.fresh <= l /\ l <= Len(Y.opened)
      BY <1>5, <1>8 DEF l
    <3> QED
      BY <1>7, <3>1, WindowIs
  <2> HIDE DEF w
  <2>3. CASE r = "end"
    <3>1. W = w \o vs /\ e.vals = s.vals \o vs /\ e.macs = s.macs \o [i \in DOMAIN vs |-> vs[i].id]
      BY <1>2, <1>12, <1>16, <2>3 DEF w
    <3>2. g.fresh = h.fresh + k
      BY <1>1, <1>9, <2>3 DEF k
    <3>3. [i \in 1 .. Len(w) |-> w[i].id] \o [i \in DOMAIN vs |-> vs[i].id] = [i \in 1 .. Len(w) + Len(vs) |-> (w \o vs)[i].id]
      BY <1>9, <2>2, IdsJoin
    <3>4. e.macs = [i \in 1 .. g.fresh |-> (w \o vs)[i].id]
      BY <2>1, <2>2, <3>1, <3>2, <3>3 DEF k
    <3> QED
      BY <2>1, <3>1, <3>4
  <2>4. CASE r = "reveal"
    <3>1. e.vals = <<>> /\ e.macs = <<>> /\ W = <<>> /\ g.fresh = 0
      BY <1>2, <1>13, <2>4
    <3> QED
      BY <3>1
  <2>5. CASE r \notin {"end", "reveal"}
    <3>1. r # "hash"
      <4>1. h \in Here /\ RoundsOK(h)
        BY DEF RoundFacts
      <4>2. RoundOK(Call(h).op, r)
        BY <1>11, <4>1, RoundIs
      <4> QED
        BY <1>16, <4>2 DEF RoundOK
    <3>2. e.vals = s.vals /\ e.macs = s.macs /\ W = w /\ g.fresh = h.fresh
      BY <1>2, <1>14, <2>5, <3>1 DEF w
    <3> QED
      BY <2>1, <3>2
  <2> QED
    BY <2>3, <2>4, <2>5
<1>17. ASSUME type # "Full" PROVE e.sha256 = W
  <2> DEFINE w == Window(Y.opened, l, h.fresh)
  <2>1. s.sha256 = w
    BY <1>4, <1>17 DEF l
  <2> HIDE DEF w
  <2>2. CASE r = "end"
    <3>1. W = w \o vs /\ e.sha256 = s.sha256 \o vs
      BY <1>2, <1>12, <1>17, <2>2 DEF w
    <3> QED
      BY <2>1, <3>1
  <2>3. CASE r = "hash"
    BY <1>2, <1>13, <2>3
  <2>4. CASE r \notin {"end", "hash"}
    <3>1. r # "reveal"
      <4>1. h \in Here /\ RoundsOK(h)
        BY DEF RoundFacts
      <4>2. RoundOK(Call(h).op, r)
        BY <1>11, <4>1, RoundIs
      <4> QED
        BY <1>17, <4>2 DEF RoundOK
    <3>2. e.sha256 = s.sha256 /\ W = w
      BY <1>2, <1>14, <2>4, <3>1 DEF w
    <3> QED
      BY <2>1, <3>2
  <2> QED
    BY <2>2, <2>3, <2>4
<1>18. e.pub = Window(Z.pub, Len(g.pub), g.pubs)
  <2>1. CASE r = "aux"
    <3>1. e.pub = <<>> /\ g.pubs = 0
      BY <1>1, <1>2, <2>1
    <3> QED
      BY <3>1, WindowNone
  <2>2. CASE r # "aux"
    BY <1>1, <1>2, <1>3, <1>4, <2>2
  <2> QED
    BY <2>1, <2>2
<1>19. Len(e.bcast) = Len(g.bcast) /\ (e.bcast = g.bcast <=> CastsRight(Z, g))
  <2>0. s.bcast \in Seq(Entry)
    BY DEF PlaceOK, State
  <2>1. CASE r = "cast"
    <3> DEFINE D == Heard(p, s, "cast")
               B == Words(h)
    <3>1. /\ e.bcast = s.bcast \o Line(D) /\ g.bcast = h.bcast \o Line(B)
          /\ Z.cast = Append(Y.cast, D) /\ g.cast = Append(h.cast, B) /\ g.casts = h.casts + 1
      BY <1>1, <1>2, <1>3, <2>1 DEF Cast, Line
    <3>2. Singles(D) /\ Singles(B) /\ D \in Speech /\ B \in Speech
      BY <1>10, <2>1
    <3> HIDE DEF D, B
    <3>3. Line(D) \in Seq(Entry) /\ Line(B) \in Seq(Entry) /\ Len(Line(D)) = N /\ Len(Line(B)) = N
      BY <3>2, LineIs
    <3>4. e.bcast = g.bcast <=> s.bcast = h.bcast /\ Line(D) = Line(B)
      <4> DEFINE a == s.bcast
                 b == Line(D)
                 c == h.bcast
                 d == Line(B)
      <4>1. a \in Seq(Entry) /\ b \in Seq(Entry) /\ c \in Seq(Entry) /\ d \in Seq(Entry) /\ Len(a) = Len(c) /\ Len(b) = Len(d)
        BY <1>4, <1>6, <2>0, <3>3
      <4>2. e.bcast = a \o b /\ g.bcast = c \o d
        BY <3>1
      <4> HIDE DEF a, b, c, d
      <4>3. a \o b = c \o d <=> a = c /\ b = d
        <5>1. Alike(Entry, a, b, c, d)
          BY <4>1 DEF Alike
        <5>2. Apart(a, b, c, d)
          BY <5>1, JoinApart
        <5> QED
          BY <5>2 DEF Apart
      <4> QED
        BY <4>2, <4>3 DEF a, b, c, d
    <3>5. Line(D) = Line(B) <=> D = B
      BY <3>2, LineEqual
    <3>6. Len(e.bcast) = Len(g.bcast)
      <4>1. Len(s.bcast \o Line(D)) = Len(s.bcast) + Len(Line(D))
        <5>1. s.bcast \in Seq(Entry) /\ Line(D) \in Seq(Entry)
          BY <2>0, <3>3
        <5> QED
          BY <5>1, Join
      <4>2. Len(h.bcast \o Line(B)) = Len(h.bcast) + Len(Line(B))
        <5>1. h.bcast \in Seq(Entry) /\ Line(B) \in Seq(Entry)
          BY <1>6, <3>3
        <5> QED
          BY <5>1, Join
      <4> QED
        BY <1>4, <3>1, <3>3, <4>1, <4>2
    <3>7. CastsRight(Z, g) <=> CastsRight(Y, h) /\ D = B
      <4>1. (\A j \in Len(Append(h.cast, B)) - (h.casts + 1) + 1 .. Len(Append(h.cast, B)) : Append(Y.cast, D)[j] = Append(h.cast, B)[j])
              <=> (\A j \in Len(h.cast) - h.casts + 1 .. Len(h.cast) : Y.cast[j] = h.cast[j]) /\ B = D
        <5> DEFINE x == h.cast
                   y == Y.cast
                   i == h.casts
        <5>1. x \in Seq(Speech) /\ y \in Seq(Speech) /\ Len(x) = Len(y) /\ i \in Nat /\ i <= Len(x) /\ B \in Speech /\ D \in Speech
          BY <1>5, <1>6, <1>7, <1>8, <3>2
        <5> HIDE DEF x, y, i
        <5>2. BothTold(x, y, B, D, i)
          <6>1. Told(x, y, B, D, i)
            BY <5>1 DEF Told
          <6> QED
            BY <6>1, CastsTold
        <5>3. (\A j \in Len(Append(x, B)) - (i + 1) + 1 .. Len(Append(x, B)) : Append(y, D)[j] = Append(x, B)[j])
                <=> (\A j \in Len(x) - i + 1 .. Len(x) : y[j] = x[j]) /\ B = D
          BY <5>2 DEF BothTold
        <5> QED
          BY <5>3 DEF x, y, i
      <4> QED
        BY <3>1, <4>1 DEF CastsRight
    <3> QED
      BY <1>4, <3>4, <3>5, <3>6, <3>7
  <2>2. CASE r = "same"
    <3>1. e.bcast = <<>> /\ g.bcast = <<>> /\ g.casts = 0 /\ g.cast = h.cast
      BY <1>1, <1>2, <2>2
    <3>2. CastsRight(Z, g)
      <4>1. \A j \in Len(h.cast) - 0 + 1 .. Len(h.cast) : FALSE
        BY <1>5
      <4> QED
        BY <3>1, <4>1 DEF CastsRight
    <3> QED
      BY <3>1, <3>2
  <2>3. CASE r \notin {"cast", "same"}
    <3>1. e.bcast = s.bcast /\ g.bcast = h.bcast /\ g.casts = h.casts /\ g.cast = h.cast /\ Z.cast = Y.cast
      BY <1>1, <1>2, <1>3, <2>3
    <3> QED
      BY <1>4, <3>1 DEF CastsRight
  <2> QED
    BY <2>1, <2>2, <2>3
<1> QED
  BY <1>15, <1>16, <1>17, <1>18, <1>19 DEF Keeps, W, e, g

\* A call that begins changes none of it.
LEMMA KeepsBegin ==
  ASSUME NEW h, NEW n \in Nat, Round(h) = "none", NEW s, s \in State, NEW Y, Keeps(s, Y, h), NEW x, NEW y
  PROVE  Keeps([s EXCEPT !.pc = x, !.rounds = y], Y, Following(h, n))
<1> DEFINE g == Following(h, n)
           e == [s EXCEPT !.pc = x, !.rounds = y]
<1>1. /\ g.opened = h.opened /\ g.pub = h.pub /\ g.cast = h.cast /\ g.bcast = h.bcast
      /\ g.fresh = h.fresh /\ g.pubs = h.pubs /\ g.casts = h.casts
  <2>1. /\ g.opened = IF Round(h) = "end" THEN h.opened \o Opened(h) ELSE h.opened
        /\ g.pub = IF Round(h) = "pub" THEN Append(h.pub, Input(h)) ELSE h.pub
        /\ g.cast = IF Round(h) = "cast" THEN Append(h.cast, Words(h)) ELSE h.cast
        /\ g.fresh = IF Round(h) = "end" THEN h.fresh + Len(Opened(h)) ELSE IF Round(h) \in {"reveal", "hash"} THEN 0 ELSE h.fresh
        /\ g.pubs = IF Round(h) = "pub" THEN h.pubs + 1 ELSE IF Round(h) = "aux" THEN 0 ELSE h.pubs
        /\ g.casts = IF Round(h) = "cast" THEN h.casts + 1 ELSE IF Round(h) = "same" THEN 0 ELSE h.casts
        /\ g.bcast = IF Round(h) = "cast" THEN h.bcast \o FlattenSeq([i \in 1 .. N |-> Words(h)[i - 1]])
                     ELSE IF Round(h) = "same" THEN <<>> ELSE h.bcast
    BY PastAfter
  <2> HIDE DEF g
  <2> QED
    BY <2>1
<1>2. e.vals = s.vals /\ e.macs = s.macs /\ e.sha256 = s.sha256 /\ e.pub = s.pub /\ e.bcast = s.bcast
  BY DEF State
<1> HIDE DEF g, e
<1>3. Keeps(e, Y, g)
  BY <1>1, <1>2 DEF Keeps, Sized, CastsRight
<1> QED
  BY <1>3 DEF e, g

\* A public input is to be checked.
LEMMA KeepsInput ==
  ASSUME Setting, NEW h, RoundFacts(h), NEW n \in Nat, Round(h) = "pub",
         NEW s, PlaceOK(s, h), NEW Y \in History, NEW v \in Entry, Keeps(s, Y, h), NEW x
  PROVE  Keeps([s EXCEPT !.pub = Append(@, v), !.rounds = x], [Y EXCEPT !.pub = Append(@, v)], Following(h, n))
<1> DEFINE g == Following(h, n)
           w == Append(s.pub, v)
           y == Append(Y.pub, v)
           e == [s EXCEPT !.pub = w, !.rounds = x]
           Z == [Y EXCEPT !.pub = y]
<1>1. /\ g.opened = h.opened /\ g.pub = Append(h.pub, Input(h)) /\ g.cast = h.cast /\ g.bcast = h.bcast
      /\ g.fresh = h.fresh /\ g.pubs = h.pubs + 1 /\ g.casts = h.casts
  <2>1. /\ g.opened = IF Round(h) = "end" THEN h.opened \o Opened(h) ELSE h.opened
        /\ g.pub = IF Round(h) = "pub" THEN Append(h.pub, Input(h)) ELSE h.pub
        /\ g.cast = IF Round(h) = "cast" THEN Append(h.cast, Words(h)) ELSE h.cast
        /\ g.fresh = IF Round(h) = "end" THEN h.fresh + Len(Opened(h)) ELSE IF Round(h) \in {"reveal", "hash"} THEN 0 ELSE h.fresh
        /\ g.pubs = IF Round(h) = "pub" THEN h.pubs + 1 ELSE IF Round(h) = "aux" THEN 0 ELSE h.pubs
        /\ g.casts = IF Round(h) = "cast" THEN h.casts + 1 ELSE IF Round(h) = "same" THEN 0 ELSE h.casts
        /\ g.bcast = IF Round(h) = "cast" THEN h.bcast \o FlattenSeq([i \in 1 .. N |-> Words(h)[i - 1]])
                     ELSE IF Round(h) = "same" THEN <<>> ELSE h.bcast
    BY PastAfter
  <2> HIDE DEF g
  <2> QED
    BY <2>1
<1>2. /\ Sized(Y, h)
      /\ type = "Full" => /\ s.vals = Window(Y.opened, Len(h.opened), h.fresh)
                          /\ s.macs = [i \in 1 .. h.fresh |-> s.vals[i].id]
      /\ type # "Full" => s.sha256 = Window(Y.opened, Len(h.opened), h.fresh)
      /\ s.pub = Window(Y.pub, Len(h.pub), h.pubs)
      /\ Len(s.bcast) = Len(h.bcast) /\ (s.bcast = h.bcast <=> CastsRight(Y, h))
  BY DEF Keeps
<1>3. /\ h \in Here /\ h.pubs \in Nat /\ h.pubs <= Len(h.pub) /\ Len(h.pub) \in Nat
  BY LimitsAre
<1>4. h.pub \in Seq(Entry) /\ Y.pub \in Seq(Entry) /\ Input(h) \in Entry
  BY <1>3, PastIs, PastIsToo, WordsIs
<1>5. Len(Y.opened) = Len(h.opened) /\ Len(Y.pub) = Len(h.pub) /\ Len(Y.cast) = Len(h.cast)
  BY <1>2 DEF Sized
<1>6. Window(y, Len(Y.pub) + 1, h.pubs + 1) = Append(Window(Y.pub, Len(Y.pub), h.pubs), v)
  <2>1. h.pubs \in Nat /\ h.pubs <= Len(Y.pub)
    BY <1>3, <1>5
  <2> QED
    BY <1>4, <2>1, WindowAppend
<1>7. Len(y) = Len(h.pub) + 1 /\ Len(g.pub) = Len(h.pub) + 1
  <2>1. Len(Append(h.pub, Input(h))) = Len(h.pub) + 1
    BY <1>4, AppendProperties
  <2>2. Len(Append(Y.pub, v)) = Len(Y.pub) + 1
    BY <1>4, AppendProperties
  <2> QED
    BY <1>1, <1>5, <2>1, <2>2
<1>8. w = Window(y, Len(g.pub), g.pubs)
  BY <1>1, <1>2, <1>5, <1>6, <1>7
<1> HIDE DEF w, y, g
<1>9. e.vals = s.vals /\ e.macs = s.macs /\ e.sha256 = s.sha256 /\ e.pub = w /\ e.bcast = s.bcast
  BY DEF PlaceOK, State
<1>10. Z.opened = Y.opened /\ Z.pub = y /\ Z.cast = Y.cast
  BY DEF History
<1> HIDE DEF e, Z
<1>11. Sized(Z, g)
  BY <1>1, <1>5, <1>7, <1>10 DEF Sized
<1>12. CastsRight(Z, g) <=> CastsRight(Y, h)
  BY <1>1, <1>10 DEF CastsRight
<1>13. Keeps(e, Z, g)
  BY <1>1, <1>2, <1>8, <1>9, <1>10, <1>11, <1>12 DEF Keeps
<1> QED
  BY <1>13 DEF e, Z, g, w, y

-----------------------------------------------------------------------------
(* What a round adds to what is checked.                                   *)

\* What is settled stays so.
LEMMA SettledStays ==
  ASSUME NEW h, RoundFacts(h), NEW X \in [Players -> History], NEW Z \in [Players -> History],
         \A q \in Players : Later(X[q], Z[q]), NEW p \in Players, Settled(X, p, h)
  PROVE  Settled(Z, p, h)
<1>1. ASSUME NEW q \in Players
      PROVE  /\ Spans(Z[q], h)
             /\ Window(Z[q].opened, Len(h.opened), h.fresh) = Window(X[q].opened, Len(h.opened), h.fresh)
             /\ Window(Z[q].pub, Len(h.pub), h.pubs) = Window(X[q].pub, Len(h.pub), h.pubs)
             /\ CastsRight(Z[q], h) <=> CastsRight(X[q], h)
  <2> DEFINE Y == X[q]
             W == Z[q]
  <2>1. Y \in History /\ W \in History /\ Later(Y, W) /\ Spans(Y, h)
    BY DEF Settled
  <2> HIDE DEF Y, W
  <2>2. Spans(W, h)
    <3>1. /\ Len(Y.opened) \in Nat /\ Len(Y.pub) \in Nat /\ Len(Y.cast) \in Nat
          /\ Len(W.opened) \in Nat /\ Len(W.pub) \in Nat /\ Len(W.cast) \in Nat
          /\ Len(h.opened) \in Nat /\ Len(h.pub) \in Nat /\ Len(h.cast) \in Nat
      BY <2>1, PastIsToo, LimitsAre
    <3>2. Len(Y.opened) <= Len(W.opened) /\ Len(Y.pub) <= Len(W.pub) /\ Len(Y.cast) <= Len(W.cast)
      BY <2>1 DEF Later, Grows
    <3>3. Len(Y.opened) >= Len(h.opened) /\ Len(Y.pub) >= Len(h.pub) /\ Len(Y.cast) >= Len(h.cast)
      BY <2>1 DEF Spans
    <3>4. Len(W.opened) >= Len(h.opened)
      BY <3>1, <3>2, <3>3
    <3>5. Len(W.pub) >= Len(h.pub)
      BY <3>1, <3>2, <3>3
    <3>6. Len(W.cast) >= Len(h.cast)
      BY <3>1, <3>2, <3>3
    <3> QED
      BY <3>4, <3>5, <3>6 DEF Spans
  <2>3. /\ Window(W.opened, Len(h.opened), h.fresh) = Window(Y.opened, Len(h.opened), h.fresh)
        /\ Window(W.pub, Len(h.pub), h.pubs) = Window(Y.pub, Len(h.pub), h.pubs)
        /\ CastsRight(W, h) <=> CastsRight(Y, h)
    BY <2>1, WindowsStay
  <2> QED
    BY <2>2, <2>3 DEF Y, W
<1> QED
  BY <1>1 DEF Settled

\* What is checked at the next round: the same, and after a check all there is.
LEMMA LimitsNext ==
  ASSUME Setting, NEW h, RoundFacts(h), NEW n \in Nat
  PROVE  LET g == Following(h, n) IN
         /\ IF Round(h) \in {"reveal", "hash"} THEN g.fresh = 0 /\ g.opened = h.opened
            ELSE /\ Len(g.opened) - g.fresh = Len(h.opened) - h.fresh
                 /\ \A j \in 1 .. Len(h.opened) - h.fresh : g.opened[j] = h.opened[j]
         /\ IF Round(h) = "aux" THEN g.pubs = 0 /\ Len(g.pub) = Len(h.pub)
            ELSE Len(g.pub) - g.pubs = Len(h.pub) - h.pubs
         /\ IF Round(h) = "same" THEN g.casts = 0 /\ g.cast = h.cast
            ELSE /\ Len(g.cast) - g.casts = Len(h.cast) - h.casts
                 /\ \A j \in 1 .. Len(h.cast) - h.casts : g.cast[j] = h.cast[j]
<1> DEFINE g == Following(h, n)
           r == Round(h)
           o == Opened(h)
           v == Input(h)
           b == Words(h)
<1>1. /\ g.opened = IF r = "end" THEN h.opened \o o ELSE h.opened
      /\ g.pub = IF r = "pub" THEN Append(h.pub, v) ELSE h.pub
      /\ g.cast = IF r = "cast" THEN Append(h.cast, b) ELSE h.cast
      /\ g.fresh = IF r = "end" THEN h.fresh + Len(o) ELSE IF r \in {"reveal", "hash"} THEN 0 ELSE h.fresh
      /\ g.pubs = IF r = "pub" THEN h.pubs + 1 ELSE IF r = "aux" THEN 0 ELSE h.pubs
      /\ g.casts = IF r = "cast" THEN h.casts + 1 ELSE IF r = "same" THEN 0 ELSE h.casts
  BY PastAfter
<1>2. /\ h \in Here /\ h.fresh \in Nat /\ h.pubs \in Nat /\ h.casts \in Nat
      /\ h.fresh <= Len(h.opened) /\ h.pubs <= Len(h.pub) /\ h.casts <= Len(h.cast)
      /\ Len(h.opened) \in Nat /\ Len(h.pub) \in Nat /\ Len(h.cast) \in Nat
  BY LimitsAre
<1>3. h.opened \in Seq(Entry) /\ h.pub \in Seq(Entry) /\ h.cast \in Seq(Speech)
  BY <1>2, PastIs
<1>4. v \in Entry /\ b \in Speech
  BY <1>2, WordsIs
<1>5. r = "end" => o \in Seq(Entry)
  <2>1. ASSUME r = "end" PROVE h.pc \in 1 .. Len(prog)
    <3>1. h \in Here /\ RoundsOK(h)
      BY DEF RoundFacts
    <3> QED
      BY <2>1, <3>1, RoundIs
  <2> QED
    BY <2>1, OpenedIs, SettingIs
<1> HIDE DEF g, r, o, v, b
<1>6. IF r \in {"reveal", "hash"} THEN g.fresh = 0 /\ g.opened = h.opened
      ELSE /\ Len(g.opened) - g.fresh = Len(h.opened) - h.fresh
           /\ \A j \in 1 .. Len(h.opened) - h.fresh : g.opened[j] = h.opened[j]
  <2>1. CASE r = "end"
    <3>1. /\ Len(h.opened \o o) = Len(h.opened) + Len(o) /\ Len(o) \in Nat
          /\ \A j \in 1 .. Len(h.opened) : (h.opened \o o)[j] = h.opened[j]
      BY <1>3, <1>5, <2>1, Join
    <3> DEFINE z == h.opened \o o
               k == Len(o)
               l == Len(h.opened)
               f == h.fresh
    <3>2. g.opened = z /\ g.fresh = f + k
      BY <1>1, <2>1
    <3>3. Len(z) = l + k /\ l \in Nat /\ k \in Nat /\ f \in Nat /\ f <= l /\ \A j \in 1 .. l : z[j] = h.opened[j]
      BY <1>2, <3>1
    <3> HIDE DEF z, k, l, f
    <3>4. (l + k) - (f + k) = l - f
      BY <3>3
    <3>5. \A j \in 1 .. l - f : j \in 1 .. l
      BY <3>3
    <3>6. Len(g.opened) - g.fresh = l - f /\ \A j \in 1 .. l - f : g.opened[j] = h.opened[j]
      BY <3>2, <3>3, <3>4, <3>5
    <3> QED
      BY <2>1, <3>6 DEF l, f
  <2>2. CASE r # "end"
    BY <1>1, <2>2
  <2> QED
    BY <2>1, <2>2
<1>7. IF r = "aux" THEN g.pubs = 0 /\ Len(g.pub) = Len(h.pub) ELSE Len(g.pub) - g.pubs = Len(h.pub) - h.pubs
  <2>1. CASE r = "pub"
    <3>1. Len(Append(h.pub, v)) = Len(h.pub) + 1
      BY <1>3, <1>4, AppendProperties
    <3> DEFINE l == Len(h.pub)
               i == h.pubs
    <3>2. Len(g.pub) = l + 1 /\ g.pubs = i + 1 /\ l \in Nat /\ i \in Nat
      BY <1>1, <1>2, <2>1, <3>1
    <3> HIDE DEF l, i
    <3>3. Len(g.pub) - g.pubs = l - i
      BY <3>2
    <3> QED
      BY <2>1, <3>3 DEF l, i
  <2>2. CASE r # "pub"
    BY <1>1, <2>2
  <2> QED
    BY <2>1, <2>2
<1>8. IF r = "same" THEN g.casts = 0 /\ g.cast = h.cast
      ELSE /\ Len(g.cast) - g.casts = Len(h.cast) - h.casts
           /\ \A j \in 1 .. Len(h.cast) - h.casts : g.cast[j] = h.cast[j]
  <2>1. CASE r = "cast"
    <3> DEFINE z == Append(h.cast, b)
               l == Len(h.cast)
               f == h.casts
    <3>1. Len(z) = l + 1 /\ \A j \in 1 .. l : z[j] = h.cast[j]
      BY <1>3, <1>4, AppendProperties
    <3>2. g.cast = z /\ g.casts = f + 1 /\ l \in Nat /\ f \in Nat /\ f <= l
      BY <1>1, <1>2, <2>1
    <3> HIDE DEF z, l, f
    <3>3. Len(g.cast) - g.casts = l - f
      BY <3>1, <3>2
    <3>4. \A j \in 1 .. l - f : j \in 1 .. l
      BY <3>2
    <3>5. \A j \in 1 .. l - f : g.cast[j] = h.cast[j]
      BY <3>1, <3>2, <3>4
    <3> QED
      BY <2>1, <3>3, <3>5 DEF l, f
  <2>2. CASE r # "cast"
    BY <1>1, <2>2
  <2> QED
    BY <2>1, <2>2
<1> QED
  BY <1>6, <1>7, <1>8 DEF g, r

LEMMA CheckedNext ==
  ASSUME Setting, NEW h, RoundFacts(h), AskedOK(h), NEW n \in Nat, NEW s, PlaceOK(s, h),
         NEW X \in [Players -> History], NEW Z \in [Players -> History], \A q \in Players : Later(X[q], Z[q]),
         NEW p \in Players, Sized(X[p], h), Round(h) \in Compared => Settled(X, p, h),
         NEW u \in Covered, NEW w \in Covered, Noted(u, w, X[p], s, Round(h)), Checked(X, u, p, h)
  PROVE  Checked(Z, w, p, Following(h, n))
<1> DEFINE g == Following(h, n)
           r == Round(h)
<1>1. /\ h \in Here /\ h.fresh \in Nat /\ h.pubs \in Nat /\ h.casts \in Nat
      /\ h.fresh <= Len(h.opened) /\ h.pubs <= Len(h.pub) /\ h.casts <= Len(h.cast)
      /\ Len(h.opened) \in Nat /\ Len(h.pub) \in Nat /\ Len(h.cast) \in Nat
  BY LimitsAre
<1>2. Checked(Z, u, p, h)
  <2>1. Spans(X[p], h)
    BY <1>1 DEF Sized, Spans
  <2> QED
    BY <2>1, CheckedStays
<1>3. r \in Compared => Settled(Z, p, h)
  BY SettledStays
<1>4. /\ IF r \in {"reveal", "hash"} THEN g.fresh = 0 /\ g.opened = h.opened
         ELSE /\ Len(g.opened) - g.fresh = Len(h.opened) - h.fresh
              /\ \A j \in 1 .. Len(h.opened) - h.fresh : g.opened[j] = h.opened[j]
      /\ IF r = "aux" THEN g.pubs = 0 /\ Len(g.pub) = Len(h.pub)
         ELSE Len(g.pub) - g.pubs = Len(h.pub) - h.pubs
      /\ IF r = "same" THEN g.casts = 0 /\ g.cast = h.cast
         ELSE /\ Len(g.cast) - g.casts = Len(h.cast) - h.casts
              /\ \A j \in 1 .. Len(h.cast) - h.casts : g.cast[j] = h.cast[j]
  BY LimitsNext
<1> HIDE DEF g
<1>5. Opens(Z, g)
  <2>1. CASE r \in {"reveal", "hash"}
    <3> SUFFICES ASSUME NEW q \in Players, NEW j \in 1 .. Len(g.opened) - g.fresh
                 PROVE  j <= Len(Z[q].opened) /\ Z[q].opened[j] = g.opened[j]
      BY DEF Opens
    <3> DEFINE l == Len(h.opened)
               f == h.fresh
               x == Z[q].opened
    <3>1. j \in 1 .. l /\ l \in Nat /\ f \in Nat /\ f <= l /\ g.opened = h.opened
      BY <1>1, <1>4, <2>1
    <3>2. Settled(Z, p, h)
      BY <1>3, <2>1 DEF Compared
    <3>3. Len(x) >= l /\ Len(x) \in Nat
      <4>1. Spans(Z[q], h) /\ Z[q] \in History
        BY <3>2 DEF Settled
      <4> QED
        BY <4>1, PastIsToo DEF Spans
    <3>4. CASE j <= l - f
      <4>1. j \in 1 .. Len(h.opened) - h.fresh
        BY <3>1, <3>4
      <4> QED
        BY <1>2, <3>1, <4>1 DEF Checked, Opens
    <3>5. CASE j > l - f
      <4>1. Window(x, l, f) = Window(h.opened, l, f)
        BY <2>1, <3>2 DEF Settled
      <4> HIDE DEF l, f, x
      <4>2. j \in l - f + 1 .. l /\ j <= Len(x)
        BY <3>1, <3>3, <3>5
      <4>3. x[j] = h.opened[j]
        BY <3>1, <4>1, <4>2, WindowEqual
      <4> QED
        BY <3>1, <4>2, <4>3 DEF x
    <3> HIDE DEF l, f
    <3> QED
      BY <3>1, <3>4, <3>5
  <2>2. CASE r \notin {"reveal", "hash"}
    BY <1>2, <1>4, <2>2 DEF Checked, Opens
  <2> QED
    BY <2>1, <2>2
<1>6. Casts(Z, g)
  <2>1. CASE r = "same"
    <3> SUFFICES ASSUME NEW q \in Players, NEW j \in 1 .. Len(g.cast) - g.casts
                 PROVE  j <= Len(Z[q].cast) /\ Z[q].cast[j] = g.cast[j]
      BY DEF Casts
    <3> DEFINE l == Len(h.cast)
               f == h.casts
               x == Z[q].cast
    <3>1. j \in 1 .. l /\ l \in Nat /\ f \in Nat /\ f <= l /\ g.cast = h.cast
      BY <1>1, <1>4, <2>1
    <3>2. Settled(Z, p, h)
      BY <1>3, <2>1 DEF Compared
    <3>3. Len(x) >= l /\ Len(x) \in Nat
      <4>1. Spans(Z[q], h) /\ Z[q] \in History
        BY <3>2 DEF Settled
      <4> QED
        BY <4>1, PastIsToo DEF Spans
    <3>4. CASE j <= l - f
      <4>1. j \in 1 .. Len(h.cast) - h.casts
        BY <3>1, <3>4
      <4> QED
        BY <1>2, <3>1, <4>1 DEF Checked, Casts
    <3>5. CASE j > l - f
      <4>1. \A i \in l - f + 1 .. l : x[i] = h.cast[i]
        BY <2>1, <3>2 DEF Settled, CastsRight
      <4> HIDE DEF l, f, x
      <4>2. j \in l - f + 1 .. l /\ j <= Len(x)
        BY <3>1, <3>3, <3>5
      <4>3. x[j] = h.cast[j]
        BY <4>1, <4>2
      <4> QED
        BY <3>1, <4>2, <4>3 DEF x
    <3> HIDE DEF l, f
    <3> QED
      BY <3>1, <3>4, <3>5
  <2>2. CASE r # "same"
    BY <1>2, <1>4, <2>2 DEF Checked, Casts
  <2> QED
    BY <2>1, <2>2
<1>7. Enters(Z, p, g)
  <2>1. CASE r = "aux"
    <3> SUFFICES ASSUME NEW q \in Players, NEW j \in 1 .. Len(g.pub) - g.pubs
                 PROVE  j <= Len(Z[q].pub) /\ Z[q].pub[j] = Z[p].pub[j]
      BY DEF Enters
    <3> DEFINE l == Len(h.pub)
               f == h.pubs
               x == Z[q].pub
               y == Z[p].pub
    <3>1. j \in 1 .. l /\ l \in Nat /\ f \in Nat /\ f <= l
      BY <1>1, <1>4, <2>1
    <3>2. Settled(Z, p, h)
      BY <1>3, <2>1 DEF Compared
    <3>3. Len(x) >= l /\ Len(x) \in Nat
      <4>1. Spans(Z[q], h) /\ Z[q] \in History
        BY <3>2 DEF Settled
      <4> QED
        BY <4>1, PastIsToo DEF Spans
    <3>4. CASE j <= l - f
      <4>1. j \in 1 .. Len(h.pub) - h.pubs
        BY <3>1, <3>4
      <4> QED
        BY <1>2, <4>1 DEF Checked, Enters
    <3>5. CASE j > l - f
      <4>1. Window(x, l, f) = Window(y, l, f)
        BY <2>1, <3>2 DEF Settled
      <4> HIDE DEF l, f, x, y
      <4>2. j \in l - f + 1 .. l /\ j <= Len(x)
        BY <3>1, <3>3, <3>5
      <4>3. x[j] = y[j]
        BY <3>1, <4>1, <4>2, WindowEqual
      <4> QED
        BY <4>2, <4>3 DEF x, y
    <3> HIDE DEF l, f
    <3> QED
      BY <3>1, <3>4, <3>5
  <2>2. CASE r # "aux"
    BY <1>2, <1>4, <2>2 DEF Checked, Enters
  <2> QED
    BY <2>1, <2>2
<1>8. Covers(w, g)
  <2>1. u.opened \in Nat /\ u.pub \in Nat /\ u.cast \in Nat
    BY DEF Covered
  <2>2. u.opened <= Len(h.opened) - h.fresh /\ u.cast <= Len(h.cast) - h.casts /\ u.pub <= Len(h.pub) - h.pubs
    BY <1>2 DEF Checked, Covers
  <2>3. Len(X[p].opened) = Len(h.opened) /\ Len(X[p].pub) = Len(h.pub) /\ Len(X[p].cast) = Len(h.cast)
    BY DEF Sized
  <2>4. /\ w.opened = IF r = "reset" THEN Len(X[p].opened) ELSE u.opened
        /\ w.pub = IF r = "reset" /\ Asked(s) THEN Len(X[p].pub) ELSE u.pub
        /\ w.cast = IF r = "same" THEN Len(X[p].cast) ELSE u.cast
    BY DEF Noted
  <2>5. w.opened <= Len(g.opened) - g.fresh
    <3> DEFINE l == Len(h.opened)
               f == h.fresh
               k == Len(g.opened)
               i == g.fresh
    <3>1. r = "reset" => f = 0
      BY FreshIs
    <3>2. l \in Nat /\ f \in Nat /\ f <= l
      BY <1>1
    <3>3. u.opened <= l - f /\ (IF r \in {"reveal", "hash"} THEN i = 0 /\ k = l ELSE k - i = l - f)
      BY <1>4, <2>2
    <3>4. w.opened = IF r = "reset" THEN l ELSE u.opened
      BY <2>3, <2>4
    <3> HIDE DEF l, f, k, i
    <3>5. ASSUME r = "reset" PROVE w.opened <= k - i
      BY <3>1, <3>2, <3>3, <3>4, <3>5
    <3>6. ASSUME r # "reset" PROVE w.opened <= k - i
      BY <2>1, <3>2, <3>3, <3>4, <3>6
    <3> QED
      BY <3>5, <3>6 DEF k, i
  <2>6. w.cast <= Len(g.cast) - g.casts
    <3> DEFINE l == Len(h.cast)
               f == h.casts
               k == Len(g.cast)
               i == g.casts
    <3>2. l \in Nat /\ f \in Nat /\ f <= l
      BY <1>1
    <3>3. u.cast <= l - f /\ (IF r = "same" THEN i = 0 /\ k = l ELSE k - i = l - f)
      BY <1>4, <2>2
    <3>4. w.cast = IF r = "same" THEN l ELSE u.cast
      BY <2>3, <2>4
    <3> HIDE DEF l, f, k, i
    <3>5. ASSUME r = "same" PROVE w.cast <= k - i
      BY <3>2, <3>3, <3>4, <3>5
    <3>6. ASSUME r # "same" PROVE w.cast <= k - i
      BY <2>1, <3>2, <3>3, <3>4, <3>6
    <3> QED
      BY <3>5, <3>6 DEF k, i
  <2>7. w.pub <= Len(g.pub) - g.pubs
    <3> DEFINE l == Len(h.pub)
               f == h.pubs
               k == Len(g.pub)
               i == g.pubs
    <3>1. Asked(s) => f = 0
      <4> SUFFICES ASSUME Asked(s) PROVE h.pubs = 0
        OBVIOUS
      <4>1. s.rounds = <<"reset">> /\ h.rounds = s.rounds /\ Call(h) = Call(s)
        BY SamePlace DEF Asked, PlaceOK
      <4>2. Asks(h)
        BY <4>1 DEF Asks, Asked
      <4>3. h.rounds # <<>> /\ Len(h.rounds) = 1
        BY <4>1
      <4> QED
        BY <4>2, <4>3 DEF AskedOK
    <3>2. l \in Nat /\ f \in Nat /\ f <= l
      BY <1>1
    <3>3. u.pub <= l - f /\ (IF r = "aux" THEN i = 0 /\ k = l ELSE k - i = l - f)
      BY <1>4, <2>2
    <3>4. w.pub = IF r = "reset" /\ Asked(s) THEN l ELSE u.pub
      BY <2>3, <2>4
    <3> HIDE DEF l, f, k, i
    <3>5. ASSUME r = "reset" /\ Asked(s) PROVE w.pub <= k - i
      BY <3>1, <3>2, <3>3, <3>4, <3>5
    <3>6. ASSUME ~(r = "reset" /\ Asked(s)) PROVE w.pub <= k - i
      BY <2>1, <3>2, <3>3, <3>4, <3>6
    <3> QED
      BY <3>5, <3>6 DEF k, i
  <2> QED
    BY <2>5, <2>6, <2>7 DEF Covers
<1> QED
  BY <1>5, <1>6, <1>7, <1>8 DEF Checked, g

-----------------------------------------------------------------------------
(* What a round leaves right.                                              *)

\* What a player has heard in a broadcast is a word of each.
LEMMA CastHeard ==
  ASSUME Setting, NEW H, Trace(H), NEW at \in [Players -> Nat], NEW T, NEW C, got \in [Players -> Speech],
         NEW p \in Players, T[p] = <<>>, Round(H[at[p]]) = "cast", MailOK(H, at, T, C, got),
         NEW s, PlaceOK(s, H[at[p]]), NEW Y \in History, Keeps(s, Y, H[at[p]]), NEW X
  PROVE  /\ Singles(Heard(p, s, "cast"))
         /\ RightAt(H, at, T, C, got, X, p) => Heard(p, s, "cast") = Words(H[at[p]])
<1> DEFINE h == H[at[p]]
           D == Heard(p, s, "cast")
           says == Says(p, s, "cast")
<1>1. RoundFacts(h) /\ at[p] \in Nat
  BY TraceFacts
<1>2. Round(h) = "cast" /\ Round(h) \in Everyone
  BY DEF Everyone
<1>3. says \in Seq(Entry) /\ Len(says) = 1 /\ Right(says, h, p)
  <2>1. PlaceOK(s, h) /\ Keeps(s, Y, h) /\ Round(h) # "none"
    BY <1>2
  <2> HIDE DEF h
  <2>2. /\ Right(Says(p, s, Round(h)), h, p) /\ (Round(h) = "cast" => Len(Says(p, s, Round(h))) = 1)
        /\ Says(p, s, Round(h)) \in Seq(Entry)
    BY <1>1, <2>1, SaysExactly
  <2> QED
    BY <1>2, <2>2
<1>4. D \in Speech /\ D[p] = says /\ \A q \in Players : q # p => D[q] = got[p][q]
  BY <1>3, HeardIs
<1>5. \A q \in Players : q # p => Held(H, at, T, C, got, q, p, got[p][q], at[p])
  BY <1>2, HeardAll
<1>6. ASSUME NEW q \in Players PROVE Len(D[q]) = 1
  <2>1. CASE q = p
    BY <1>3, <1>4, <2>1
  <2>2. CASE q # p
    <3>1. Held(H, at, T, C, got, q, p, got[p][q], at[p])
      BY <1>5, <2>2
    <3>2. Len(got[p][q]) = 1
      BY <1>2, <3>1 DEF MailOK
    <3> QED
      BY <1>4, <2>2, <3>2
  <2> QED
    BY <2>1, <2>2
<1>7. ASSUME RightAt(H, at, T, C, got, X, p) PROVE D = Words(h)
  <2>1. Words(h) \in Speech
    <3>1. h \in Here
      BY <1>1 DEF RoundFacts
    <3> HIDE DEF h
    <3> QED
      BY <3>1, WordsIs
  <2>2. ASSUME NEW q \in Players PROVE D[q] = Words(h)[q]
    <3>1. CASE q = p
      BY <1>2, <1>3, <1>4, <3>1 DEF Right
    <3>2. CASE q # p
      <4>1. Right(got[p][q], h, q)
        BY <1>5, <1>7, <3>2 DEF RightAt
      <4>2. got[p][q] = Words(h)[q]
        BY <1>2, <4>1 DEF Right
      <4> QED
        BY <1>4, <3>2, <4>2
    <3> QED
      BY <3>1, <3>2
  <2> HIDE DEF h, D
  <2> QED
    BY <1>4, <2>1, <2>2 DEF Speech
<1> QED
  BY <1>4, <1>6, <1>7 DEF Singles

\* What a player has at the end of an opening is right if what it read is.
LEMMA OpenedRight ==
  ASSUME Setting, NEW H, Trace(H), NEW at \in [Players -> Nat], NEW T, NEW C, got \in [Players -> Speech],
         NEW p \in Players, T[p] = <<>>, Round(H[at[p]]) = "end", NEW s, PlaceOK(s, H[at[p]]),
         NEW X, RightAt(H, at, T, C, got, X, p)
  PROVE  Values(p, s) = Opened(H[at[p]])
<1> DEFINE h == H[at[p]]
           c == Connection(h)
           g == H[h.pend[c]]
           o == Opened(h)
           vs == Values(p, s)
<1>1. RoundFacts(h) /\ at[p] \in Nat /\ Round(h) = "end" /\ PlaceOK(s, h) /\ PendOK(H, at[p])
  BY TraceFacts, SentFacts
<1>2. c \in Connections /\ h.call[c] = Begun(h) /\ Begun(h) # 0 /\ h.pc \in 1 .. Len(prog)
  <2> HIDE DEF h
  <2>1. h \in Here /\ RoundsOK(h) /\ Round(h) # "none"
    BY <1>1 DEF RoundFacts
  <2> QED
    BY <1>1, <2>1, CallIs, RoundIs
<1>3. Round(g) = "begin" /\ Tag(g) = <<Begun(h), "begin">>
  BY <1>1, <1>2 DEF PendOK
<1>4. Begun(g) = Begun(h)
  BY <1>3 DEF Tag
<1>5. Opened(g) = o
  BY <1>4 DEF Opened
<1>6. Opened(s) = o /\ s.pc = h.pc
  BY <1>1, SamePlace DEF PlaceOK
<1>7. o \in Seq(Entry) /\ \A i \in 1 .. Len(o) : o[i] = [id |-> <<"value", Begun(h), i>>, ok |-> TRUE]
  BY <1>2, OpenedIs, SettingIs
<1>8. ASSUME NEW q \in Sources(p) PROVE got[p][q] = o
  <2>1. q \in Players /\ Shares(q, p)
    BY <1>8 DEF Sources, Shares
  <2>2. Reads(h, c, q, p)
    BY <1>1, <2>1, TalkIs
  <2>3. Expected(h, at[p], c) = h.pend[c]
    BY <1>1 DEF Expected
  <2>4. Held(H, at, T, C, got, q, p, got[p][q], h.pend[c])
    <3>1. Held(H, at, T, C, got, q, p, got[p][q], Expected(h, at[p], c))
      BY <1>2, <2>1, <2>2, HeardOf
    <3> HIDE DEF h, c
    <3> QED
      BY <2>3, <3>1
  <2>5. Right(got[p][q], g, q)
    BY <2>1, <2>4 DEF RightAt
  <2> HIDE DEF g, o
  <2> QED
    BY <1>3, <1>5, <2>5 DEF Right
<1>9. /\ vs \in Seq(Entry) /\ Len(vs) = Len(o)
      /\ \A i \in 1 .. Len(o) : vs[i] = [id |-> o[i].id, ok |-> \A q \in Sources(p) : i <= Len(got[p][q]) /\ got[p][q][i] = o[i]]
  <2>1. s.pc \in 1 .. Len(prog)
    BY <1>2, <1>6
  <2>2. /\ Values(p, s) \in Seq(Entry) /\ Len(Values(p, s)) = Len(Opened(s))
        /\ \A i \in 1 .. Len(Opened(s)) :
             Values(p, s)[i] = [id |-> Opened(s)[i].id,
                                ok |-> \A q \in Sources(p) : i <= Len(got[p][q]) /\ got[p][q][i] = Opened(s)[i]]
    <3> HIDE DEF h, c, g, o, vs
    <3>1. Values(p, s) \in Seq(Entry) /\ Len(Values(p, s)) = Len(Opened(s))
      BY <2>1, ValuesIs
    <3>2. \A i \in 1 .. Len(Opened(s)) :
             Values(p, s)[i] = [id |-> Opened(s)[i].id,
                                ok |-> \A q \in Sources(p) : i <= Len(got[p][q]) /\ got[p][q][i] = Opened(s)[i]]
      BY <2>1, ValuesIs
    <3> QED
      BY <3>1, <3>2
  <2> HIDE DEF o
  <2> QED
    BY <1>6, <2>2
<1> HIDE DEF g, vs, o, h, c
<1>10. ASSUME NEW i \in 1 .. Len(o) PROVE vs[i] = o[i]
  <2>1. \A q \in Sources(p) : i <= Len(got[p][q]) /\ got[p][q][i] = o[i]
    BY <1>7, <1>8
  <2>2. (\A q \in Sources(p) : i <= Len(got[p][q]) /\ got[p][q][i] = o[i]) = TRUE
    BY <2>1
  <2>3. vs[i] = [id |-> o[i].id, ok |-> TRUE]
    BY <1>9, <2>2
  <2>4. PICK x : o[i] = [id |-> x, ok |-> TRUE]
    BY <1>7
  <2>5. o[i].id = x
    BY <2>4
  <2> QED
    BY <2>3, <2>4, <2>5
<1>11. vs = o
  BY <1>7, <1>9, <1>10, SeqEqual
<1> QED
  BY <1>11 DEF vs, o, h

\* A check that does not fail has heard the same from all.
LEMMA VerdictIs ==
  ASSUME NEW p, NEW s, NEW r \in Compared, Verdict(p, s, r) = "no"
  PROVE  AllSay(p, s, r)
<1>1. Verdict(p, s, "reveal") = "no" => AllSay(p, s, "reveal")
  BY Zenon DEF Verdict
<1>2. Verdict(p, s, "hash") = "no" => AllSay(p, s, "hash")
  BY Zenon DEF Verdict
<1>3. Verdict(p, s, "aux") = "no" => AllSay(p, s, "aux")
  BY Zenon DEF Verdict
<1>4. Verdict(p, s, "same") = "no" => AllSay(p, s, "same")
  BY Zenon DEF Verdict
<1> QED
  BY <1>1, <1>2, <1>3, <1>4 DEF Compared

-----------------------------------------------------------------------------
(* The steps.                                                              *)

\* What p knows of its past after round r is more than before.
LEMMA RecordedGrows ==
  ASSUME NEW Y \in History, NEW Z \in History, NEW p, NEW s, NEW r, Recorded(Y, Z, p, s, r),
         r = "end" => Values(p, s) \in Seq(Entry), r = "cast" => Heard(p, s, r) \in Speech
  PROVE  Later(Y, Z)
<1>1. Y.opened \in Seq(Entry) /\ Y.pub \in Seq(Entry) /\ Y.cast \in Seq(Speech)
  BY PastIsToo
<1>2. Grows(Y.opened, Z.opened)
  <2>1. CASE r = "end"
    <3>1. Z.opened = Y.opened \o Values(p, s)
      BY <2>1 DEF Recorded
    <3> QED
      BY <1>1, <2>1, <3>1, GrowsIs
  <2>2. CASE r # "end"
    <3>1. Z.opened = Y.opened
      BY <2>2 DEF Recorded
    <3> QED
      BY <1>1, <3>1, GrowsIs
  <2> QED
    BY <2>1, <2>2
<1>3. Grows(Y.pub, Z.pub)
  BY <1>1, GrowsIs DEF Recorded
<1>4. Grows(Y.cast, Z.cast)
  <2>1. CASE r = "cast"
    <3>1. Z.cast = Append(Y.cast, Heard(p, s, r))
      BY <2>1 DEF Recorded
    <3> QED
      BY <1>1, <2>1, <3>1, GrowsIs
  <2>2. CASE r # "cast"
    <3>1. Z.cast = Y.cast
      BY <2>2 DEF Recorded
    <3> QED
      BY <1>1, <3>1, GrowsIs
  <2> QED
    BY <2>1, <2>2
<1> QED
  BY <1>2, <1>3, <1>4 DEF Later

\* A player goes to the next round.
Goes(H, at, T, C, G, X, Z, f, f2, p) ==
  /\ Later(X[p], Z)
  /\ RightAt(H, at, T, C, G, X, p) => Z.opened = H[at[p] + 1].opened /\ Z.cast = H[at[p] + 1].cast
  /\ \/ f2 = f /\ (EntersRight(H, at, X, p) => Z.pub = H[at[p] + 1].pub)
     \/ f = 0 /\ f2 = 1

\* Nothing of another player changes.
Alone(p, at, a, X, X2, Z, S, S2, U, U2) ==
  /\ a = [at EXCEPT ![p] = @ + 1] /\ X2 = [X EXCEPT ![p] = Z]
  /\ \A q \in Players : q # p => S2[q] = S[q] /\ U2[q] = U[q]

LEMMA SoundGoes ==
  ASSUME Setting, NEW H, Trace(H), NEW at \in [Players -> Nat], NEW S, NEW T \in [Players -> Seq(TStep)], NEW C, NEW G,
         NEW X \in [Players -> History], NEW U \in [Players -> Covered], NEW f \in Nat, Sound(H, at, S, T, C, G, X, U, f),
         NEW p \in Players, NEW a, NEW T2, NEW S2, NEW Z \in History, NEW f2, NEW X2, NEW U2,
         Alone(p, at, a, X, X2, Z, S, S2, U, U2),
         Quiet(H, at, T, C, G, a, T2, C, G), Goes(H, at, T, C, G, X, Z, f, f2, p),
         Keeps(S2[p], Z, H[at[p] + 1]), Checked(X2, U2[p], p, H[at[p] + 1])
  PROVE  Sound(H, a, S2, T2, C, G, X2, U2, f2)
<1>1. /\ X2[p] = Z /\ X2 \in [Players -> History] /\ a[p] = at[p] + 1 /\ a \in [Players -> Nat]
      /\ \A q \in Players : q # p => X2[q] = X[q] /\ a[q] = at[q] /\ S2[q] = S[q] /\ U2[q] = U[q]
  BY DEF Alone
<1>2. \A q \in Players : Keeps(S[q], X[q], H[at[q]]) /\ Checked(X, U[q], q, H[at[q]])
  BY DEF Sound
<1>3. \A q \in Players : Later(X[q], X2[q])
  <2> SUFFICES ASSUME NEW q \in Players PROVE Later(X[q], X2[q])
    OBVIOUS
  <2>1. CASE q = p
    BY <1>1, <2>1 DEF Goes
  <2>2. CASE q # p
    <3>1. X[q] \in History
      OBVIOUS
    <3> QED
      BY <1>1, <2>2, <3>1, LaterSelf
  <2> QED
    BY <2>1, <2>2
<1>4. \A q \in Players : Sized(X[q], H[at[q]]) /\ at[q] \in Nat /\ X[q] \in History
  BY <1>2 DEF Keeps
<1>5. ASSUME NEW q \in Players PROVE Keeps(S2[q], X2[q], H[a[q]]) /\ Checked(X2, U2[q], q, H[a[q]])
  <2>1. CASE q = p
    BY <1>1, <2>1
  <2>2. CASE q # p
    <3>1. Keeps(S2[q], X2[q], H[a[q]])
      BY <1>1, <1>2, <2>2
    <3>2. Spans(X[q], H[at[q]])
      <4>1. Sized(X[q], H[at[q]]) /\ at[q] \in Nat /\ X[q] \in History /\ at[q] <= at[q]
        BY <1>4
      <4> QED
        BY <4>1, SpansBefore
    <3>3. RoundFacts(H[at[q]])
      BY <1>4, TraceFacts
    <3>4. Checked(X2, U[q], q, H[at[q]])
      BY <1>1, <1>2, <1>3, <3>2, <3>3, CheckedStays
    <3> QED
      BY <1>1, <2>2, <3>1, <3>4
  <2> QED
    BY <2>1, <2>2
<1>6. ASSUME NEW x \in Players, NEW y \in Players, NEW v, NEW n, Held(H, a, T2, C, G, x, y, v, n)
      PROVE  /\ Held(H, at, T, C, G, x, y, v, n) /\ n \in Nat /\ n <= at[x] /\ n <= a[x]
             /\ v \in Seq(Entry) /\ (Round(H[n]) = "cast" => Len(v) = 1)
  <2>1. Held(H, at, T, C, G, x, y, v, n)
    BY <1>6 DEF Quiet
  <2>2. n \in Nat /\ n <= at[x] /\ v \in Seq(Entry) /\ (Round(H[n]) = "cast" => Len(v) = 1)
    BY <2>1 DEF Sound, MailOK
  <2>3. at[x] <= a[x]
    <3>1. CASE x = p
      BY <1>1, <3>1
    <3>2. CASE x # p
      BY <1>1, <3>2
    <3> QED
      BY <3>1, <3>2
  <2>4. n <= a[x]
    <3>1. at[x] \in Nat /\ a[x] \in Nat
      BY <1>1
    <3> QED
      BY <2>2, <2>3, <3>1
  <2> QED
    BY <2>1, <2>2, <2>4
<1>7. MailOK(H, a, T2, C, G)
  BY <1>6 DEF MailOK
<1>8. ASSUME Exact(H, at, T, C, G, X) PROVE Exact(H, a, T2, C, G, X2)
  <2> SUFFICES ASSUME NEW x \in Players, NEW y \in Players, NEW v, NEW n, Held(H, a, T2, C, G, x, y, v, n)
               PROVE  Exactly(v, X2[x], H[n])
    BY DEF Exact
  <2>1. Exactly(v, X[x], H[n]) /\ n \in Nat /\ n <= at[x]
    BY <1>6, <1>8 DEF Exact
  <2>2. Spans(X[x], H[n])
    BY <1>4, <2>1, SpansBefore
  <2>3. RoundFacts(H[n])
    BY <2>1, TraceFacts
  <2>4. X[x] \in History /\ X2[x] \in History /\ Later(X[x], X2[x])
    BY <1>1, <1>3
  <2> QED
    BY <2>1, <2>2, <2>3, <2>4, ExactlyStays
<1>9. ASSUME NEW z \in Players, RightAt(H, at, T, C, G, X, z) PROVE RightAt(H, a, T2, C, G, X2, z)
  <2>1. \A q \in Players : \A v, n : Held(H, a, T2, C, G, q, z, v, n) => Right(v, H[n], q)
    BY <1>6, <1>9 DEF RightAt
  <2>2. X2[z].opened = H[a[z]].opened /\ X2[z].cast = H[a[z]].cast
    <3>1. CASE z = p
      BY <1>1, <1>9, <3>1 DEF Goes
    <3>2. CASE z # p
      BY <1>1, <1>9, <3>2 DEF RightAt
    <3> QED
      BY <3>1, <3>2
  <2> QED
    BY <2>1, <2>2 DEF RightAt
<1>10. ASSUME f2 = f, NEW z \in Players, EntersRight(H, at, X, z) PROVE EntersRight(H, a, X2, z)
  <2>1. CASE z = p
    <3>1. Z.pub = H[at[p] + 1].pub
      BY <1>10, <2>1 DEF Goes
    <3> QED
      BY <1>1, <2>1, <3>1 DEF EntersRight
  <2>2. CASE z # p
    BY <1>1, <1>10, <2>2 DEF EntersRight
  <2> QED
    BY <2>1, <2>2
<1>11. CASE f2 = f
  <2>1. f2 = 0 => Honest(H, a, T2, C, G, X2)
    <3> SUFFICES ASSUME f2 = 0 PROVE Honest(H, a, T2, C, G, X2)
      OBVIOUS
    <3>1. Honest(H, at, T, C, G, X)
      BY <1>11 DEF Sound
    <3> QED
      BY <1>8, <1>9, <1>10, <1>11, <3>1 DEF Honest
  <2>2. \/ Exact(H, a, T2, C, G, X2) /\ \E y \in Players : RightAt(H, a, T2, C, G, X2, y)
        \/ \A z \in Players : RightAt(H, a, T2, C, G, X2, z) /\ EntersRight(H, a, X2, z)
    <3>1. CASE Exact(H, at, T, C, G, X) /\ \E y \in Players : RightAt(H, at, T, C, G, X, y)
      BY <1>8, <1>9, <3>1
    <3>2. CASE \A z \in Players : RightAt(H, at, T, C, G, X, z) /\ EntersRight(H, at, X, z)
      BY <1>9, <1>10, <1>11, <3>2
    <3> QED
      BY <3>1, <3>2 DEF Sound
  <2> QED
    BY <1>5, <1>7, <2>1, <2>2 DEF Sound
<1>12. CASE f = 0 /\ f2 = 1
  <2>1. Honest(H, at, T, C, G, X)
    BY <1>12 DEF Sound
  <2>2. Exact(H, a, T2, C, G, X2)
    BY <1>8, <2>1 DEF Honest
  <2>3. \E y \in Players : RightAt(H, a, T2, C, G, X2, y)
    BY <1>9, <2>1 DEF Honest
  <2>4. f2 # 0
    BY <1>12
  <2> QED
    BY <1>5, <1>7, <2>2, <2>3, <2>4 DEF Sound
<1> QED
  BY <1>11, <1>12 DEF Goes

\* A player writes a message, or a wrong one in its place.
LEMMA SoundSends ==
  ASSUME Setting, NEW H, Trace(H), NEW at \in [Players -> Nat], NEW S, NEW T, NEW C, NEW G,
         NEW X \in [Players -> History], NEW U, NEW f \in Nat, Sound(H, at, S, T, C, G, X, U, f),
         NEW p \in Players, PlaceOK(S[p], H[at[p]]), NEW T2, NEW C2, NEW e \in TStep, Writes(H[at[p]], e.c, p, e.peer),
         Round(H[at[p]]) \in Heeded => e.m.val = Says(p, S[p], Round(H[at[p]])),
         NEW m \in Msg, Said(H, at, T, C, G, T2, C2, p, e.peer, m.val),
         NEW f2, (m = e.m /\ f2 = f) \/ (f = 0 /\ f2 = 1 /\ Len(m.val) = Len(e.m.val))
  PROVE  Sound(H, at, S, T2, C2, G, X, U, f2)
<1> DEFINE h == H[at[p]]
           q0 == e.peer
           r == Round(h)
           says == Says(p, S[p], r)
<1>1. RoundFacts(h) /\ at[p] \in Nat /\ m.val \in Seq(Entry) /\ q0 \in Players
  BY TraceFacts DEF Msg, TStep
<1>2. Talk(h, e.c, p, q0) /\ r # "none"
  BY DEF Writes, Talk
<1>3. Exactly(says, X[p], h) /\ Right(says, h, p) /\ (r = "cast" => Len(says) = 1)
  <2>1. Keeps(S[p], X[p], h) /\ X[p] \in History /\ PlaceOK(S[p], h)
    BY DEF Sound
  <2> HIDE DEF h
  <2> QED
    BY <1>1, <1>2, <2>1, SaysExactly
<1>4. (r \in Compared => Exactly(e.m.val, X[p], h)) /\ (r \in {"begin", "cast"} => Right(e.m.val, h, p))
      /\ (r = "cast" => Len(e.m.val) = 1)
  BY <1>3 DEF Heeded
<1>5. (r \notin Compared => \A v : Exactly(v, X[p], h)) /\ (r \notin {"begin", "cast"} => \A v : Right(v, h, p))
  BY DEF Exactly, Right, Compared
<1>6. r = "cast" => Len(m.val) = 1
  BY <1>4
<1>7. q0 # p
  <2>1. CASE r \in {"begin", "end"}
    <3>1. Shares(p, q0)
      BY <1>2, <2>1, TalkIs
    <3> QED
      BY <3>1, SettingIs DEF Shares
  <2>2. CASE r \notin {"begin", "end"}
    BY <1>2, <2>2 DEF Talk
  <2> QED
    BY <2>1, <2>2
<1>8. ASSUME NEW x \in Players, NEW y \in Players, NEW v, NEW n, Held(H, at, T2, C2, G, x, y, v, n)
      PROVE  Held(H, at, T, C, G, x, y, v, n) \/ (x = p /\ y = q0 /\ v = m.val /\ n = at[p])
  BY <1>8 DEF Said
<1> HIDE DEF q0
<1>9. MailOK(H, at, T2, C2, G)
  <2> SUFFICES ASSUME NEW x \in Players, NEW y \in Players, NEW v, NEW n, Held(H, at, T2, C2, G, x, y, v, n)
               PROVE  n \in Nat /\ n <= at[x] /\ v \in Seq(Entry) /\ (Round(H[n]) = "cast" => Len(v) = 1)
    BY DEF MailOK
  <2>1. CASE Held(H, at, T, C, G, x, y, v, n)
    BY <2>1 DEF Sound, MailOK
  <2>2. CASE x = p /\ y = q0 /\ v = m.val /\ n = at[p]
    <3>1. at[p] <= at[p]
      BY <1>1
    <3> QED
      BY <1>1, <1>6, <2>2, <3>1
  <2> QED
    BY <1>8, <2>1, <2>2
<1>10. ASSUME Exact(H, at, T, C, G, X), Exactly(m.val, X[p], h) PROVE Exact(H, at, T2, C2, G, X)
  <2> SUFFICES ASSUME NEW x \in Players, NEW y \in Players, NEW v, NEW n, Held(H, at, T2, C2, G, x, y, v, n)
               PROVE  Exactly(v, X[x], H[n])
    BY DEF Exact
  <2>1. CASE Held(H, at, T, C, G, x, y, v, n)
    BY <1>10, <2>1 DEF Exact
  <2>2. CASE x = p /\ y = q0 /\ v = m.val /\ n = at[p]
    BY <1>10, <2>2
  <2> QED
    BY <1>8, <2>1, <2>2
<1>11. ASSUME NEW z \in Players, RightAt(H, at, T, C, G, X, z), z = q0 => Right(m.val, h, p)
       PROVE  RightAt(H, at, T2, C2, G, X, z)
  <2>1. ASSUME NEW x \in Players, NEW v, NEW n, Held(H, at, T2, C2, G, x, z, v, n) PROVE Right(v, H[n], x)
    <3>1. CASE Held(H, at, T, C, G, x, z, v, n)
      BY <1>11, <3>1 DEF RightAt
    <3>2. CASE x = p /\ z = q0 /\ v = m.val /\ n = at[p]
      BY <1>11, <3>2
    <3> QED
      BY <1>8, <2>1, <3>1, <3>2
  <2> QED
    BY <1>11, <2>1 DEF RightAt
<1>12. \A z \in Players : Keeps(S[z], X[z], H[at[z]]) /\ Checked(X, U[z], z, H[at[z]])
  BY DEF Sound
<1>13. CASE m = e.m /\ f2 = f
  <2>1. Exactly(m.val, X[p], h) /\ Right(m.val, h, p)
    BY <1>4, <1>5, <1>13
  <2>2. f2 = 0 => Honest(H, at, T2, C2, G, X)
    <3> SUFFICES ASSUME f2 = 0 PROVE Honest(H, at, T2, C2, G, X)
      OBVIOUS
    <3>1. Honest(H, at, T, C, G, X)
      BY <1>13 DEF Sound
    <3> QED
      BY <1>10, <1>11, <2>1, <3>1 DEF Honest
  <2>3. \/ Exact(H, at, T2, C2, G, X) /\ \E y \in Players : RightAt(H, at, T2, C2, G, X, y)
        \/ \A z \in Players : RightAt(H, at, T2, C2, G, X, z) /\ EntersRight(H, at, X, z)
    <3>1. CASE Exact(H, at, T, C, G, X) /\ \E y \in Players : RightAt(H, at, T, C, G, X, y)
      BY <1>10, <1>11, <2>1, <3>1
    <3>2. CASE \A z \in Players : RightAt(H, at, T, C, G, X, z) /\ EntersRight(H, at, X, z)
      BY <1>11, <2>1, <3>2
    <3> QED
      BY <3>1, <3>2 DEF Sound
  <2> QED
    BY <1>9, <1>12, <2>2, <2>3 DEF Sound
<1>14. CASE f = 0 /\ f2 = 1
  <2>1. Honest(H, at, T, C, G, X) /\ f2 # 0
    BY <1>14 DEF Sound
  <2>2. CASE r \in Compared
    <3>1. Right(m.val, h, p)
      BY <1>5, <2>2 DEF Compared
    <3>2. \A z \in Players : RightAt(H, at, T2, C2, G, X, z) /\ EntersRight(H, at, X, z)
      BY <1>11, <2>1, <3>1 DEF Honest
    <3> QED
      BY <1>9, <1>12, <2>1, <3>2 DEF Sound
  <2>3. CASE r \notin Compared
    <3>1. Exact(H, at, T2, C2, G, X)
      BY <1>5, <1>10, <2>1, <2>3 DEF Honest
    <3>2. RightAt(H, at, T2, C2, G, X, p)
      BY <1>7, <1>11, <2>1 DEF Honest
    <3> QED
      BY <1>9, <1>12, <2>1, <3>1, <3>2 DEF Sound
  <2> QED
    BY <2>2, <2>3
<1> QED
  BY <1>13, <1>14

\* A player reads a message.
LEMMA SoundReads ==
  ASSUME NEW H, NEW at, NEW S, NEW T, NEW C, NEW G, NEW X, NEW U, NEW f, Sound(H, at, S, T, C, G, X, U, f),
         NEW T2, NEW C2, NEW G2, Quiet(H, at, T, C, G, at, T2, C2, G2)
  PROVE  Sound(H, at, S, T2, C2, G2, X, U, f)
<1>1. MailOK(H, at, T2, C2, G2)
  BY DEF Sound, MailOK, Quiet
<1>2. Exact(H, at, T, C, G, X) => Exact(H, at, T2, C2, G2, X)
  BY DEF Exact, Quiet
<1>3. \A z \in Players : RightAt(H, at, T, C, G, X, z) => RightAt(H, at, T2, C2, G2, X, z)
  BY DEF RightAt, Quiet
<1>4. Honest(H, at, T, C, G, X) => Honest(H, at, T2, C2, G2, X)
  BY <1>2, <1>3 DEF Honest
<1> QED
  BY <1>1, <1>2, <1>3, <1>4 DEF Sound

\* Sound does not depend on the variables of a step.
LEMMA SoundStays ==
  ASSUME prog' = prog, type' = type, NEW H, NEW at, NEW S, NEW T, NEW C, NEW G, NEW X, NEW U, NEW f,
         Sound(H, at, S, T, C, G, X, U, f)
  PROVE  Sound(H, at, S, T, C, G, X, U, f)'
<1>1. ASSUME NEW h, NEW n, NEW c, NEW p, NEW q, NEW Y
      PROVE  Wrote(h, n, c, p, q, Y)' = Wrote(h, n, c, p, q, Y) /\ Read(h, c, p, q, Y)' = Read(h, c, p, q, Y)
  <2>1. Writes(h, c, p, q)' = Writes(h, c, p, q) /\ Reads(h, c, p, q)' = Reads(h, c, p, q) /\ Taken(h, c, p, q)' = Taken(h, c, p, q)
    BY Static
  <2> QED
    BY <2>1 DEF Wrote, Read
<1>2. ASSUME NEW p, NEW q, NEW v, NEW n PROVE OnWire(H, at, T, C, p, q, v, n)' <=> OnWire(H, at, T, C, p, q, v, n)
  <2> DEFINE W == [c \in Connections |-> Wrote(H[at[p]], at[p], c, p, q, T[p])]
             R == [c \in Connections |-> Read(H[at[q]], c, p, q, T[q])]
  <2>1. PICK w, r : w = W /\ r = R
    OBVIOUS
  <2>2. ASSUME NEW c \in Connections
        PROVE  /\ Wrote(H[at[p]], at[p], c, p, q, T[p]) = w[c] /\ Read(H[at[q]], c, p, q, T[q]) = r[c]
               /\ Wrote(H[at[p]], at[p], c, p, q, T[p])' = w[c] /\ Read(H[at[q]], c, p, q, T[q])' = r[c]
    BY <1>1, <2>1
  <2>3. OnWire(H, at, T, C, p, q, v, n) <=> \E c \in Connections : \E j \in 1 .. Len(C[c][p][q]) :
                                              v = C[c][p][q][j].val /\ n = w[c][r[c] + j]
    BY <2>2 DEF OnWire
  <2>4. OnWire(H, at, T, C, p, q, v, n)' <=> \E c \in Connections : \E j \in 1 .. Len(C[c][p][q]) :
                                              v = C[c][p][q][j].val /\ n = w[c][r[c] + j]
    BY <2>2 DEF OnWire
  <2> QED
    BY <2>3, <2>4
<1>3. ASSUME NEW p, NEW q, NEW v, NEW n PROVE InHand(H, at, T, G, p, q, v, n)' <=> InHand(H, at, T, G, p, q, v, n)
  <2>1. \A h, c, x, y : Reads(h, c, x, y)' = Reads(h, c, x, y)
    BY Static
  <2> QED
    BY <2>1 DEF InHand, Expected
<1>4. ASSUME NEW p, NEW q, NEW v, NEW n PROVE Held(H, at, T, C, G, p, q, v, n)' <=> Held(H, at, T, C, G, p, q, v, n)
  BY <1>2, <1>3 DEF Held
<1>5. ASSUME NEW v, NEW h, NEW p PROVE Right(v, h, p)' <=> Right(v, h, p)
  <2>1. Opened(h)' = Opened(h)
    BY Static
  <2> QED
    BY <2>1 DEF Right, Words, Word
<1>7. MailOK(H, at, T, C, G)' <=> MailOK(H, at, T, C, G)
  BY <1>4 DEF MailOK
<1>8. Exact(H, at, T, C, G, X)' <=> Exact(H, at, T, C, G, X)
  BY <1>4 DEF Exact
<1>9. ASSUME NEW z PROVE RightAt(H, at, T, C, G, X, z)' <=> RightAt(H, at, T, C, G, X, z)
  BY <1>4, <1>5 DEF RightAt
<1>10. Honest(H, at, T, C, G, X)' <=> Honest(H, at, T, C, G, X)
  BY <1>8, <1>9 DEF Honest
<1>11. ASSUME NEW s, NEW Y, NEW h PROVE Keeps(s, Y, h)' <=> Keeps(s, Y, h)
  BY DEF Keeps
<1> QED
  BY <1>7, <1>8, <1>9, <1>10, <1>11 DEF Sound

\* A word with one wrong entry is as long as the right one.
LEMMA WrongLength ==
  ASSUME NEW m \in Msg, NEW i \in DOMAIN m.val
  PROVE  Len([m EXCEPT !.val[i].ok = ~@].val) = Len(m.val)
<1> DEFINE v == [m.val EXCEPT ![i] = [m.val[i] EXCEPT !.ok = ~@]]
<1>1. [m EXCEPT !.val[i].ok = ~@].val = v
  BY DEF Msg
<1>2. m.val \in Seq(Entry)
  BY MsgIs
<1>3. v \in Seq(Entry) /\ Len(v) = Len(m.val)
  <2> DEFINE x == m.val[i]
             e == [x EXCEPT !.ok = ~@]
  <2>1. x \in Entry
    BY <1>2
  <2> HIDE DEF x
  <2>2. e \in Entry
    BY <2>1 DEF Entry
  <2>3. v = [m.val EXCEPT ![i] = e]
    BY DEF x
  <2> HIDE DEF e, v
  <2> QED
    BY <1>2, <2>2, <2>3
<1> QED
  BY <1>1, <1>3

\* It is enough to say what was said in terms of the next state.
LEMMA SoundNext ==
  ASSUME prog' = prog, type' = type, NEW H, NEW at, Sound(H, at, st', todo', chan', got', hist', sure', faults')
  PROVE  Sound(H, at, st, todo, chan, got, hist, sure, faults)'
<1>1. PICK S, T, C, G : S = st' /\ T = todo' /\ C = chan' /\ G = got'
  OBVIOUS
<1>2. PICK X, U, f : X = hist' /\ U = sure' /\ f = faults'
  OBVIOUS
<1>3. Sound(H, at, S, T, C, G, X, U, f)
  BY <1>1, <1>2
<1>4. Sound(H, at, S, T, C, G, X, U, f)'
  BY <1>3, SoundStays
<1> QED
  BY <1>1, <1>2, <1>4

\* What is on the way and what was checked are kept by a step of p.
Fits(H, at) == Follows(H, at, st, todo, chan) /\ Sound(H, at, st, todo, chan, got, hist, sure, faults)

\* A player that begins a call or ends a round, and enters the next with s.
LEMMA EnterSound ==
  ASSUME Setting, TypeOK, NEW H, Trace(H), NEW at, Fits(H, at), NEW p \in Players, todo[p] = <<>>,
         NEW s, PlaceOK(s, H[at[p] + 1]), Enter(p, s), prog' = prog, type' = type, chan' = chan, got' = got,
         NEW Z \in History, NEW w, hist' = [hist EXCEPT ![p] = Z], sure' = [sure EXCEPT ![p] = w],
         Goes(H, at, todo, chan, got, hist, Z, faults, faults', p),
         Keeps(s, Z, H[at[p] + 1]), Checked([hist EXCEPT ![p] = Z], w, p, H[at[p] + 1])
  PROVE  \E a : Fits(H, a)'
<1> DEFINE Y == IF s.rounds = <<>> THEN <<>> ELSE Plan(p, s, Head(s.rounds))
           a == [at EXCEPT ![p] = @ + 1]
<1>1. /\ st \in [Players -> State] /\ todo \in [Players -> Seq(TStep)] /\ faults \in Nat
      /\ hist \in [Players -> History] /\ sure \in [Players -> Covered]
  BY DEF TypeOK
<1>2. st' = [st EXCEPT ![p] = s] /\ todo' = [todo EXCEPT ![p] = Y]
  BY DEF Enter
<1>3. Follows(H, at, st, todo, chan) /\ Sound(H, at, st, todo, chan, got, hist, sure, faults) /\ at \in [Players -> Nat]
  BY DEF Fits, Follows
<1>4. /\ Follows(H, a, [st EXCEPT ![p] = s], [todo EXCEPT ![p] = Y], chan)
      /\ Unmoved(H, at, todo, a, [todo EXCEPT ![p] = Y])
      /\ \A c \in Connections, q \in Players : Reads(H[at[p] + 1], c, q, p) => Left(Y, "receive", q)
  <2> DEFINE S == st
             T == todo
             C == chan
  <2>1. Follows(H, at, S, T, C) /\ S \in [Players -> State] /\ T \in [Players -> Seq(TStep)] /\ T[p] = <<>>
    BY <1>1, <1>3
  <2> HIDE DEF S, T, C
  <2>2. /\ Follows(H, a, [S EXCEPT ![p] = s], [T EXCEPT ![p] = Y], C)
        /\ Unmoved(H, at, T, a, [T EXCEPT ![p] = Y])
        /\ \A c \in Connections, q \in Players : Reads(H[at[p] + 1], c, q, p) => Left(Y, "receive", q)
    BY <2>1, Moves
  <2> QED
    BY <2>2 DEF S, T, C
<1> HIDE DEF Y
<1>5. Quiet(H, at, todo, chan, got, a, [todo EXCEPT ![p] = Y], chan, got)
  <2> DEFINE T == todo
             C == chan
             G == got
  <2>1. T \in [Players -> Seq(TStep)] /\ T[p] = <<>> /\ Unmoved(H, at, T, a, [T EXCEPT ![p] = Y])
    BY <1>1, <1>4
  <2> HIDE DEF T, C, G
  <2>2. Quiet(H, at, T, C, G, a, [T EXCEPT ![p] = Y], C, G)
    BY <1>3, <1>4, <2>1, HeldMoves
  <2> QED
    BY <2>2 DEF T, C, G
<1>6. Sound(H, a, st', todo', chan, got, hist', sure', faults')
  <2> DEFINE S == st
             T == todo
             C == chan
             G == got
             X == hist
             U == sure
             f == faults
  <2>1. PICK S2, T2, X2, U2, f2 : S2 = st' /\ T2 = todo' /\ X2 = hist' /\ U2 = sure' /\ f2 = faults'
    OBVIOUS
  <2>2. /\ T \in [Players -> Seq(TStep)] /\ X \in [Players -> History] /\ U \in [Players -> Covered] /\ f \in Nat
        /\ S \in [Players -> State] /\ Sound(H, at, S, T, C, G, X, U, f)
    BY <1>1, <1>3
  <2>3. S2 = [S EXCEPT ![p] = s] /\ T2 = [T EXCEPT ![p] = Y] /\ X2 = [X EXCEPT ![p] = Z] /\ U2 = [U EXCEPT ![p] = w]
    BY <1>2, <2>1
  <2>4. Goes(H, at, T, C, G, X, Z, f, f2, p)
    BY <2>1
  <2>5. Quiet(H, at, T, C, G, a, T2, C, G)
    BY <1>5, <2>3
  <2>6. Checked([X EXCEPT ![p] = Z], w, p, H[at[p] + 1])
    OBVIOUS
  <2> HIDE DEF S, T, C, G, X, U, f
  <2>7. S2[p] = s /\ U2[p] = w /\ \A q \in Players : q # p => S2[q] = S[q] /\ U2[q] = U[q]
    BY <2>2, <2>3
  <2>8. Keeps(S2[p], Z, H[at[p] + 1]) /\ Checked(X2, U2[p], p, H[at[p] + 1])
    BY <2>3, <2>6, <2>7
  <2> HIDE DEF a
  <2>9. a = [at EXCEPT ![p] = @ + 1]
    BY DEF a
  <2>10. Alone(p, at, a, X, X2, Z, S, S2, U, U2)
    BY <2>3, <2>7, <2>9 DEF Alone
  <2>11. Sound(H, a, S2, T2, C, G, X2, U2, f2)
    BY <1>3, <2>2, <2>4, <2>5, <2>8, <2>10, SoundGoes
  <2> QED
    BY <2>1, <2>11 DEF C, G
<1> HIDE DEF a
<1>7. Follows(H, a, st', todo', chan')
  BY <1>2, <1>4
<1>8. Follows(H, a, st, todo, chan)'
  BY <1>7, FollowsNext
<1>9. Sound(H, a, st', todo', chan', got', hist', sure', faults')
  BY <1>6
<1>10. Sound(H, a, st, todo, chan, got, hist, sure, faults)'
  BY <1>9, SoundNext
<1>11. Fits(H, a)'
  BY <1>8, <1>10 DEF Fits
<1> QED
  BY <1>11

-----------------------------------------------------------------------------
(* The rounds that end, and the calls that begin.                          *)

\* A player that ends a round goes to the next, if it does not throw.
LEMMA EffectGoes ==
  ASSUME Setting, NEW H, Trace(H), NEW at \in [Players -> Nat], NEW S, NEW T, NEW C, got \in [Players -> Speech],
         NEW X \in [Players -> History], NEW U, NEW f, Sound(H, at, S, T, C, got, X, U, f),
         NEW p \in Players, T[p] = <<>>, PlaceOK(S[p], H[at[p]]), Round(H[at[p]]) \notin {"none", "pub"},
         Verdict(p, S[p], Round(H[at[p]])) = "no",
         NEW Z \in History, Recorded(X[p], Z, p, S[p], Round(H[at[p]])),
         U[p] \in Covered, NEW w \in Covered, Noted(U[p], w, X[p], S[p], Round(H[at[p]]))
  PROVE  /\ Goes(H, at, T, C, got, X, Z, f, f, p)
         /\ Keeps(Effect(p, S[p], Round(H[at[p]])), Z, H[at[p] + 1])
         /\ Checked([X EXCEPT ![p] = Z], w, p, H[at[p] + 1])
<1> DEFINE n == at[p]
           h == H[n]
           g == H[n + 1]
           r == Round(h)
           s == S[p]
           u == U[p]
           Y == X[p]
           X2 == [X EXCEPT ![p] = Z]
<1>1. n \in Nat /\ RoundFacts(h) /\ AskedOK(h) /\ g = Following(h, n)
  BY TraceFacts, TraceAsked DEF Trace
<1>2. Keeps(s, Y, h) /\ Checked(X, u, p, h) /\ MailOK(H, at, T, C, got) /\ Y \in History /\ Sized(Y, h) /\ PlaceOK(s, h)
  BY DEF Sound, Keeps
<1>3. /\ r \notin {"none", "pub"} /\ Verdict(p, s, r) = "no" /\ Recorded(Y, Z, p, s, r) /\ u \in Covered /\ Noted(u, w, Y, s, r)
      /\ got[p] \in Speech
  OBVIOUS
<1>4. r = "cast" => /\ Singles(Heard(p, s, "cast"))
                    /\ RightAt(H, at, T, C, got, X, p) => Heard(p, s, "cast") = Words(h)
  <2> SUFFICES ASSUME r = "cast"
               PROVE  /\ Singles(Heard(p, s, "cast"))
                      /\ RightAt(H, at, T, C, got, X, p) => Heard(p, s, "cast") = Words(h)
    OBVIOUS
  <2> HIDE DEF s, Y
  <2> QED
    BY <1>2, CastHeard
<1>5. r = "end" /\ RightAt(H, at, T, C, got, X, p) => Values(p, s) = Opened(h)
  <2> SUFFICES ASSUME r = "end", RightAt(H, at, T, C, got, X, p) PROVE Values(p, s) = Opened(h)
    OBVIOUS
  <2>1. Round(H[at[p]]) = "end" /\ PlaceOK(s, H[at[p]]) /\ RightAt(H, at, T, C, got, X, p)
    BY <1>2
  <2> HIDE DEF n, h, g, r, s, u, Y, X2
  <2>2. Values(p, s) = Opened(H[at[p]])
    BY <2>1, OpenedRight
  <2> QED
    BY <2>2 DEF h, n
<1>6. r \in Compared => Settled(X, p, h)
  <2> SUFFICES ASSUME r \in Compared PROVE Settled(X, p, h)
    OBVIOUS
  <2>1. AllSay(p, s, r)
    BY <1>3, VerdictIs
  <2> QED
    BY <2>1, Settles
<1> HIDE DEF s, r, h, g, u
<1>7. /\ g.opened = IF r = "end" THEN h.opened \o Opened(h) ELSE h.opened
      /\ g.pub = IF r = "pub" THEN Append(h.pub, Input(h)) ELSE h.pub
      /\ g.cast = IF r = "cast" THEN Append(h.cast, Words(h)) ELSE h.cast
  BY <1>1, PastAfter DEF r
<1>8. Keeps(Effect(p, s, r), Z, g)
  <2>1. Keeps(Effect(p, s, Round(h)), Z, Following(h, n))
    BY <1>1, <1>2, <1>3, <1>4, KeepsEffect DEF r
  <2> QED
    BY <1>1, <2>1 DEF r
<1>9. Later(Y, Z)
  <2>1. s.pc \in 1 .. Len(prog)
    BY <1>1, <1>2, <1>3, NextPlace DEF r, NextIs
  <2>2. Says(p, s, r) \in Seq(Entry)
    BY <1>1, <1>2, <1>3, SaysIs DEF r
  <2>3. Values(p, s) \in Seq(Entry) /\ Heard(p, s, r) \in Speech
    BY <1>3, <2>1, <2>2, ValuesIs, HeardIs
  <2> QED
    BY <1>2, <1>3, <2>3, RecordedGrows
<1>10. X2 \in [Players -> History] /\ \A q \in Players : Later(X[q], X2[q])
  <2>1. ASSUME NEW q \in Players PROVE Later(X[q], X2[q])
    <3>1. X[q] \in History
      OBVIOUS
    <3>2. X2[q] = IF q = p THEN Z ELSE X[q]
      OBVIOUS
    <3> QED
      BY <1>9, <3>1, <3>2, LaterSelf
  <2> QED
    BY <2>1
<1> HIDE DEF X2
<1>11. Checked(X2, w, p, g)
  <2>1. Sized(X[p], h) /\ Noted(u, w, X[p], s, Round(h)) /\ (Round(h) \in Compared => Settled(X, p, h))
    BY <1>2, <1>3, <1>6 DEF r
  <2>2. Checked(X2, w, p, Following(h, n))
    BY <1>1, <1>2, <1>3, <1>10, <2>1, CheckedNext
  <2> QED
    BY <1>1, <2>2
<1>12. ASSUME RightAt(H, at, T, C, got, X, p) PROVE Z.opened = g.opened /\ Z.cast = g.cast
  <2>1. Y.opened = h.opened /\ Y.cast = h.cast
    BY <1>12 DEF RightAt, h
  <2>2. Z.opened = g.opened
    BY <1>3, <1>5, <1>7, <1>12, <2>1 DEF Recorded
  <2>3. Z.cast = g.cast
    <3>1. Z.cast = IF r = "cast" THEN Append(Y.cast, Heard(p, s, r)) ELSE Y.cast
      BY <1>3 DEF Recorded
    <3> QED
      BY <1>4, <1>7, <1>12, <2>1, <3>1
  <2> QED
    BY <2>2, <2>3
<1>13. EntersRight(H, at, X, p) => Z.pub = g.pub
  BY <1>3, <1>7 DEF Recorded, EntersRight, h
<1>14. Goes(H, at, T, C, got, X, Z, f, f, p)
  BY <1>9, <1>12, <1>13 DEF Goes, g
<1> QED
  BY <1>8, <1>11, <1>14 DEF g, s, r, h, X2

\* A player that begins a call.
LEMMA BeginSound ==
  ASSUME Setting, TypeOK, NEW H, Trace(H), NEW at, Fits(H, at), NEW p \in Players, Begin(p)
  PROVE  \E a : Fits(H, a)'
<1> DEFINE s == st[p]
           n == at[p]
           h == H[n]
           Y == hist[p]
           e == [s EXCEPT !.pc = @ + 1, !.rounds = RoundsOf(prog[s.pc + 1].op)]
<1>1. /\ todo[p] = <<>> /\ chan' = chan /\ got' = got /\ prog' = prog /\ type' = type
      /\ hist' = hist /\ sure' = sure /\ faults' = faults
      /\ s.rounds = <<>> /\ s.pc < Len(prog) /\ Enter(p, e)
  BY DEF Begin, Idle
<1>2. /\ st \in [Players -> State] /\ hist \in [Players -> History] /\ sure \in [Players -> Covered] /\ faults \in Nat
  BY DEF TypeOK
<1>3. /\ Follows(H, at, st, todo, chan) /\ Sound(H, at, st, todo, chan, got, hist, sure, faults) /\ at \in [Players -> Nat]
      /\ n \in Nat /\ PlaceOK(s, h)
  BY DEF Fits, Follows
<1>4. RoundFacts(h) /\ AskedOK(h) /\ H[n + 1] = Following(h, n)
  BY <1>3, TraceFacts, TraceAsked DEF Trace
<1>5. Keeps(s, Y, h) /\ Checked(hist, sure[p], p, h) /\ Y \in History /\ Sized(Y, h)
  BY <1>2, <1>3 DEF Sound, Keeps
<1> HIDE DEF s, n
<1>6. Round(h) = "none"
  BY <1>1, <1>3 DEF PlaceOK, Round
<1>7. PlaceOK(e, Following(h, n))
  BY <1>1, <1>3, <1>4, BeginPlace
<1>8. Keeps(e, Y, Following(h, n))
  <2>1. s \in State
    BY <1>3 DEF PlaceOK
  <2>2. \A x, y : Keeps([s EXCEPT !.pc = x, !.rounds = y], Y, Following(h, n))
    BY <1>3, <1>5, <1>6, <2>1, KeepsBegin
  <2> QED
    BY <2>2
<1>9. Checked(hist, sure[p], p, Following(h, n))
  <2> DEFINE X == hist
             u == sure[p]
  <2>1. X \in [Players -> History] /\ u \in Covered /\ \A q \in Players : Later(X[q], X[q])
    <3>1. ASSUME NEW q \in Players PROVE Later(hist[q], hist[q])
      <4>1. hist[q] \in History
        BY <1>2
      <4> QED
        BY <4>1, LaterSelf
    <3> QED
      BY <1>2, <3>1
  <2>2. Sized(X[p], h) /\ Checked(X, u, p, h)
    BY <1>5
  <2>3. Noted(u, u, X[p], s, Round(h))
    BY <1>6 DEF Noted
  <2>4. Round(h) \in Compared => Settled(X, p, h)
    BY <1>6 DEF Compared
  <2> HIDE DEF X, u, h
  <2>5. Checked(X, u, p, Following(h, n))
    BY <1>3, <1>4, <2>1, <2>2, <2>3, <2>4, CheckedNext
  <2> QED
    BY <2>5 DEF X, u
<1>10. /\ hist' = [hist EXCEPT ![p] = Y] /\ sure' = [sure EXCEPT ![p] = sure[p]]
  BY <1>1, <1>2
<1>11. [hist EXCEPT ![p] = Y] = hist
  BY <1>2
<1>12. Goes(H, at, todo, chan, got, hist, Y, faults, faults', p)
  <2> DEFINE g == H[n + 1]
  <2>1. g.opened = h.opened /\ g.cast = h.cast /\ g.pub = h.pub
    <3> DEFINE k == Following(h, n)
    <3>1. /\ k.opened = IF Round(h) = "end" THEN h.opened \o Opened(h) ELSE h.opened
          /\ k.pub = IF Round(h) = "pub" THEN Append(h.pub, Input(h)) ELSE h.pub
          /\ k.cast = IF Round(h) = "cast" THEN Append(h.cast, Words(h)) ELSE h.cast
      BY PastAfter
    <3> HIDE DEF k, h
    <3>2. k.opened = h.opened /\ k.cast = h.cast /\ k.pub = h.pub
      BY <1>6, <3>1
    <3> QED
      BY <1>4, <3>2 DEF k
  <2> HIDE DEF g
  <2>2. Later(Y, Y)
    BY <1>5, LaterSelf
  <2>3. RightAt(H, at, todo, chan, got, hist, p) => Y.opened = g.opened /\ Y.cast = g.cast
    BY <2>1 DEF RightAt, n
  <2>4. EntersRight(H, at, hist, p) => Y.pub = g.pub
    BY <2>1 DEF EntersRight, n
  <2> QED
    BY <1>1, <2>2, <2>3, <2>4 DEF Goes, g, n
<1> DEFINE w == sure[p]
<1>13. PlaceOK(e, H[at[p] + 1]) /\ Keeps(e, Y, H[at[p] + 1]) /\ Checked([hist EXCEPT ![p] = Y], w, p, H[at[p] + 1])
  BY <1>4, <1>7, <1>8, <1>9, <1>11 DEF n
<1>14. hist' = [hist EXCEPT ![p] = Y] /\ sure' = [sure EXCEPT ![p] = w]
  BY <1>10
<1> HIDE DEF e, Y, w
<1> QED
  BY <1>1, <1>5, <1>12, <1>13, <1>14, EnterSound

\* A player that enters a public input, which one player may see otherwise.
LEMMA InputSound ==
  ASSUME Setting, TypeOK, NEW H, Trace(H), NEW at, Fits(H, at), NEW p \in Players, Faults <= 1,
         todo[p] = <<>>, chan' = chan, got' = got, prog' = prog, type' = type,
         Round(H[at[p]]) = "pub", Update_Checker(p)
  PROVE  \E a : Fits(H, a)'
<1> DEFINE s == st[p]
           n == at[p]
           h == H[n]
           g == H[n + 1]
           Y == hist[p]
           w == sure[p]
<1>1. /\ st \in [Players -> State] /\ hist \in [Players -> History] /\ sure \in [Players -> Covered] /\ faults \in Nat
  BY DEF TypeOK
<1>2. /\ Follows(H, at, st, todo, chan) /\ Sound(H, at, st, todo, chan, got, hist, sure, faults) /\ at \in [Players -> Nat]
      /\ n \in Nat /\ PlaceOK(s, h)
  BY DEF Fits, Follows
<1>3. RoundFacts(h) /\ AskedOK(h) /\ g = Following(h, n)
  BY <1>2, TraceFacts, TraceAsked DEF Trace
<1>4. Keeps(s, Y, h) /\ Checked(hist, w, p, h) /\ Y \in History /\ Sized(Y, h) /\ w \in Covered
  BY <1>1, <1>2 DEF Sound, Keeps
<1>5. /\ g.opened = IF Round(h) = "end" THEN h.opened \o Opened(h) ELSE h.opened
      /\ g.pub = IF Round(h) = "pub" THEN Append(h.pub, Input(h)) ELSE h.pub
      /\ g.cast = IF Round(h) = "cast" THEN Append(h.cast, Words(h)) ELSE h.cast
  <2> HIDE DEF s, n, h, g
  <2> QED
    BY <1>3, PastAfter
<1>6. PICK ok \in BOOLEAN :
        /\ ok \/ faults < Faults
        /\ faults' = IF ok THEN faults ELSE faults + 1
        /\ LET e == [id |-> <<"input", st[p].pc, 0>>, ok |-> ok]
           IN  /\ Enter(p, [st[p] EXCEPT !.pub = Append(@, e), !.rounds = Tail(@)])
               /\ hist' = [hist EXCEPT ![p].pub = Append(@, e)]
  BY DEF Update_Checker
<1> DEFINE v == [id |-> <<"input", s.pc, 0>>, ok |-> ok]
           x == Tail(s.rounds)
           e == [s EXCEPT !.pub = Append(@, v), !.rounds = x]
           Z == [Y EXCEPT !.pub = Append(@, v)]
<1>7. Enter(p, e)
  BY <1>6
<1>8. hist' = [hist EXCEPT ![p] = Z]
  <2>1. hist' = [hist EXCEPT ![p].pub = Append(@, v)]
    BY <1>6
  <2> QED
    BY <2>1
<1>9. sure' = [sure EXCEPT ![p] = w]
  <2>1. sure' = sure
    BY DEF Update_Checker
  <2> QED
    BY <1>1, <2>1
<1>10. v \in Entry
  <2>1. s.pc \in Nat
    BY <1>1 DEF State
  <2>2. <<"input", s.pc, 0>> \in Ids
    BY <2>1 DEF Ids
  <2> QED
    BY <2>2 DEF Entry
<1>11. Round(h) = "pub"
  OBVIOUS
<1> HIDE DEF s, h, n, g
<1>12. s.pc = h.pc
  BY <1>2 DEF PlaceOK
<1>13. ok => v = Input(h)
  BY <1>12 DEF Input
<1> HIDE DEF v
<1>14. PlaceOK(e, g)
  BY <1>2, <1>3, <1>10, <1>11, InputPlace
<1> HIDE DEF x
<1>15. Keeps(e, Z, g)
  <2> HIDE DEF Y
  <2> QED
    BY <1>2, <1>3, <1>4, <1>10, <1>11, KeepsInput
<1>16. Z.opened = Y.opened /\ Z.pub = Append(Y.pub, v) /\ Z.cast = Y.cast
  BY <1>4 DEF History
<1>17. /\ Y.opened \in Seq(Entry) /\ Y.pub \in Seq(Entry) /\ Y.cast \in Seq(Speech)
  BY <1>4, PastIsToo
<1>18. Append(Y.pub, v) \in Seq(Entry)
  BY <1>10, <1>17
<1>19. Z \in History
  <2> DEFINE y == Append(Y.pub, v)
  <2>1. y \in Seq(Entry) /\ Z = [Y EXCEPT !.pub = y]
    BY <1>18
  <2> HIDE DEF y, Z, Y
  <2> QED
    BY <1>4, <2>1 DEF History
<1> HIDE DEF Z, Y, e
<1>20. Later(Y, Z)
  <2>1. Grows(Y.opened, Y.opened) /\ Grows(Y.pub, Append(Y.pub, v)) /\ Grows(Y.cast, Y.cast)
    BY <1>10, <1>17, GrowsIs
  <2> QED
    BY <1>16, <2>1 DEF Later
<1>21. Checked([hist EXCEPT ![p] = Z], w, p, g)
  <2> DEFINE X == hist
             X2 == [X EXCEPT ![p] = Z]
  <2>1. X \in [Players -> History] /\ Sized(X[p], h) /\ Checked(X, w, p, h) /\ X[p] = Y
    BY <1>1, <1>4 DEF Y
  <2> HIDE DEF X
  <2>2. X2 \in [Players -> History]
    BY <1>19, <2>1
  <2>3. \A q \in Players : Later(X[q], X2[q])
    <3>1. ASSUME NEW q \in Players PROVE Later(X[q], X2[q])
      <4>1. X[q] \in History
        BY <2>1
      <4>2. X2[q] = IF q = p THEN Z ELSE X[q]
        BY <2>1
      <4> QED
        BY <1>20, <2>1, <4>1, <4>2, LaterSelf
    <3> QED
      BY <3>1
  <2>4. Noted(w, w, X[p], s, Round(h))
    BY <1>11 DEF Noted
  <2>5. Round(h) \in Compared => Settled(X, p, h)
    BY <1>11 DEF Compared
  <2> HIDE DEF X2, w
  <2>6. Checked(X2, w, p, Following(h, n))
    BY <1>2, <1>3, <1>4, <2>1, <2>2, <2>3, <2>4, <2>5, CheckedNext
  <2> QED
    BY <1>3, <2>6 DEF X2, X
<1>22. Goes(H, at, todo, chan, got, hist, Z, faults, faults', p)
  <2>1. g.opened = h.opened /\ g.cast = h.cast /\ g.pub = Append(h.pub, Input(h))
    BY <1>5, <1>11
  <2>2. RightAt(H, at, todo, chan, got, hist, p) => Z.opened = g.opened /\ Z.cast = g.cast
    BY <1>16, <2>1 DEF RightAt, n, h, Y
  <2>3. ok /\ EntersRight(H, at, hist, p) => Z.pub = g.pub
    BY <1>13, <1>16, <2>1 DEF EntersRight, n, h, Y
  <2>4. IF ok THEN faults' = faults ELSE faults = 0 /\ faults' = 1
    BY <1>1, <1>6, PlayerAssumption
  <2>5. Later(hist[p], Z)
    BY <1>20 DEF Y
  <2> QED
    BY <2>2, <2>3, <2>4, <2>5 DEF Goes, g, n
<1>23. PlaceOK(e, H[at[p] + 1]) /\ Keeps(e, Z, H[at[p] + 1]) /\ Checked([hist EXCEPT ![p] = Z], w, p, H[at[p] + 1])
  BY <1>14, <1>15, <1>21 DEF g, n
<1> HIDE DEF w
<1> QED
  BY <1>7, <1>8, <1>9, <1>19, <1>22, <1>23, EnterSound

\* A step that changes nothing of it.
LEMMA SameSound ==
  ASSUME NEW H, NEW at, Fits(H, at), prog' = prog, type' = type, chan' = chan, todo' = todo, got' = got, st' = st,
         hist' = hist, sure' = sure, faults' = faults
  PROVE  \E a : Fits(H, a)'
<1>1. Follows(H, at, st', todo', chan') /\ Sound(H, at, st', todo', chan', got', hist', sure', faults')
  BY DEF Fits
<1>2. Follows(H, at, st, todo, chan)'
  BY <1>1, FollowsNext
<1>3. Sound(H, at, st, todo, chan, got, hist, sure, faults)'
  BY <1>1, SoundNext
<1>4. Fits(H, at)'
  BY <1>2, <1>3 DEF Fits
<1> QED
  BY <1>4

\* A player that ends a round.
LEMMA EndSound ==
  ASSUME Setting, TypeOK, NEW H, Trace(H), NEW at, Fits(H, at), NEW p \in Players, Faults <= 1, EndRound(p)
  PROVE  \E a : Fits(H, a)'
<1> DEFINE s == st[p]
           n == at[p]
           h == H[n]
           r == Round(h)
<1>1. todo[p] = <<>> /\ chan' = chan /\ got' = got /\ prog' = prog /\ type' = type /\ s.rounds # <<>>
  BY DEF EndRound, Idle
<1>2. /\ got \in [Players -> Speech] /\ got[p] \in Speech /\ hist \in [Players -> History] /\ sure \in [Players -> Covered]
  BY DEF TypeOK
<1>3. /\ Sound(H, at, st, todo, chan, got, hist, sure, faults) /\ at \in [Players -> Nat]
      /\ n \in Nat /\ PlaceOK(s, h)
  BY DEF Fits, Follows
<1>4. RoundFacts(h) /\ H[n + 1] = Following(h, n)
  BY <1>3, TraceFacts DEF Trace
<1>5. s.rounds = h.rounds /\ Head(s.rounds) = r /\ r # "none"
  <2>1. s.rounds = h.rounds /\ h \in Here /\ RoundsOK(h)
    BY <1>3, <1>4 DEF PlaceOK, RoundFacts
  <2>2. Head(s.rounds) = r
    BY <1>1, <2>1 DEF Round
  <2> HIDE DEF h
  <2>3. r # "none"
    BY <1>1, <2>1, RoundIs
  <2> QED
    BY <2>1, <2>2, <2>3
<1>6. \/ r = "pub" /\ Update_Checker(p)
      \/ todo' = todo /\ st' = st /\ hist' = hist /\ sure' = sure /\ faults' = faults
      \/ r # "pub" /\ Verdict(p, s, r) = "no" /\ Enter(p, Effect(p, s, r)) /\ Record(p, s, r) /\ faults' = faults
  BY <1>5 DEF EndRound
<1>7. CASE r = "pub" /\ Update_Checker(p)
  BY <1>1, <1>7, InputSound
<1>8. CASE todo' = todo /\ st' = st /\ hist' = hist /\ sure' = sure /\ faults' = faults
  BY <1>1, <1>8, SameSound
<1>9. CASE r # "pub" /\ Verdict(p, s, r) = "no" /\ Enter(p, Effect(p, s, r)) /\ Record(p, s, r) /\ faults' = faults
  <2>1. PICK Z \in History, w \in Covered :
          /\ hist' = [hist EXCEPT ![p] = Z] /\ Recorded(hist[p], Z, p, s, r)
          /\ sure' = [sure EXCEPT ![p] = w] /\ Noted(sure[p], w, hist[p], s, r)
    <3> HIDE DEF s, h
    <3> QED
      BY <1>2, <1>3, <1>4, <1>5, <1>9, RecordIs
  <2>2. /\ Goes(H, at, todo, chan, got, hist, Z, faults, faults, p)
        /\ Keeps(Effect(p, s, r), Z, H[at[p] + 1])
        /\ Checked([hist EXCEPT ![p] = Z], w, p, H[at[p] + 1])
    <3> DEFINE S == st
               T == todo
               C == chan
               X == hist
               U == sure
               f == faults
    <3>1. /\ Sound(H, at, S, T, C, got, X, U, f) /\ X \in [Players -> History] /\ U[p] \in Covered /\ T[p] = <<>>
          /\ PlaceOK(S[p], H[at[p]]) /\ Verdict(p, S[p], Round(H[at[p]])) = "no"
          /\ Round(H[at[p]]) \notin {"none", "pub"}
      BY <1>1, <1>2, <1>3, <1>5, <1>9
    <3>2. Recorded(X[p], Z, p, S[p], Round(H[at[p]])) /\ Noted(U[p], w, X[p], S[p], Round(H[at[p]]))
      BY <2>1
    <3> HIDE DEF S, T, C, X, U, f
    <3>3. /\ Goes(H, at, T, C, got, X, Z, f, f, p)
          /\ Keeps(Effect(p, S[p], Round(H[at[p]])), Z, H[at[p] + 1])
          /\ Checked([X EXCEPT ![p] = Z], w, p, H[at[p] + 1])
      BY <1>2, <1>3, <3>1, <3>2, EffectGoes
    <3> QED
      BY <3>3 DEF S, T, C, X, U, f
  <2> DEFINE e == Effect(p, s, r)
  <2>3. PlaceOK(e, H[at[p] + 1])
    <3> HIDE DEF s, h
    <3>1. PlaceOK(e, Following(h, n))
      BY <1>2, <1>3, <1>4, <1>5, <1>9, EffectPlace
    <3> QED
      BY <1>4, <3>1
  <2>4. Goes(H, at, todo, chan, got, hist, Z, faults, faults', p)
    BY <1>9, <2>2
  <2>5. Enter(p, e) /\ Keeps(e, Z, H[at[p] + 1])
    BY <1>9, <2>2
  <2> HIDE DEF e, s, h, r
  <2> QED
    BY <1>1, <2>1, <2>2, <2>3, <2>4, <2>5, EnterSound
<1> QED
  BY <1>6, <1>7, <1>8, <1>9

-----------------------------------------------------------------------------
(* The steps of the connections.                                           *)

\* A player that writes, and one that writes a wrong value.
LEMMA SendSound ==
  ASSUME Setting, TypeOK, NEW H, Trace(H), NEW at, Fits(H, at), NEW p \in Players, Same, Faults <= 1,
         Send(p) \/ SendWrong(p)
  PROVE  \E a : Fits(H, a)'
<1> DEFINE e == Head(todo[p])
           T2 == [todo EXCEPT ![p] = Tail(@)]
<1>1. /\ chan \in Pairs(Seq(Msg)) /\ todo \in [Players -> Seq(TStep)] /\ got \in [Players -> Speech] /\ faults \in Nat
      /\ st \in [Players -> State] /\ hist \in [Players -> History] /\ sure \in [Players -> Covered]
  BY DEF TypeOK
<1>2. prog' = prog /\ type' = type /\ st' = st /\ hist' = hist /\ sure' = sure
  BY DEF Same
<1>3. todo[p] # <<>> /\ e.dir = "send"
  BY DEF Send, SendWrong, Ready
<1>4. /\ Follows(H, at, st, todo, chan) /\ Sound(H, at, st, todo, chan, got, hist, sure, faults) /\ at \in [Players -> Nat]
      /\ PlaceOK(st[p], H[at[p]]) /\ TodoOK(H[at[p]], p, st[p], todo[p])
  BY DEF Fits, Follows
<1>5. /\ e \in TStep /\ Writes(H[at[p]], e.c, p, e.peer)
      /\ Round(H[at[p]]) \in Heeded => e.m.val = Says(p, st[p], Round(H[at[p]]))
  <2> DEFINE Y == todo[p]
             s == st[p]
             h == H[at[p]]
  <2>1. Y \in Seq(TStep) /\ Y # <<>> /\ TodoOK(h, p, s, Y)
    BY <1>1, <1>3, <1>4
  <2> HIDE DEF Y, s, h
  <2>2. /\ Head(Y) \in TStep
        /\ Head(Y).dir = "send" => Writes(h, Head(Y).c, p, Head(Y).peer) /\ (Round(h) \in Heeded => Head(Y).m.val = Says(p, s, Round(h)))
    BY <2>1, LeftTail
  <2> QED
    BY <1>3, <2>2 DEF Y, s, h
<1>6. e.m \in Msg /\ e.c \in Connections /\ e.peer \in Players
  BY <1>5 DEF TStep
<1>7. \E m \in Msg : /\ m.tag = e.m.tag /\ Put(p, m)
                     /\ (m = e.m /\ faults' = faults) \/ (faults = 0 /\ faults' = 1 /\ Len(m.val) = Len(e.m.val))
  <2>1. CASE Send(p)
    <3> DEFINE m == e.m
    <3>1. Put(p, m) /\ faults' = faults
      BY <2>1 DEF Send
    <3>2. m \in Msg
      BY <1>6
    <3> HIDE DEF m
    <3>3. m.tag = m.tag /\ Put(p, m) /\ m = m /\ faults' = faults
      BY <3>1
    <3>4. \E k \in Msg : k.tag = m.tag /\ Put(p, k) /\ k = m /\ faults' = faults
      BY <3>2, <3>3
    <3> QED
      BY <3>4 DEF m
  <2>2. CASE SendWrong(p)
    <3>0. faults < Faults /\ faults' = faults + 1
      BY <2>2 DEF SendWrong
    <3>1. faults = 0 /\ faults' = 1
      BY <1>1, <3>0, PlayerAssumption
    <3> DEFINE m == e.m
    <3>2. \E i \in DOMAIN m.val : Put(p, [m EXCEPT !.val[i].ok = ~@])
      BY <2>2 DEF SendWrong
    <3> HIDE DEF m
    <3>3. PICK i \in DOMAIN m.val : Put(p, [m EXCEPT !.val[i].ok = ~@])
      BY <3>2
    <3>4. m \in Msg
      BY <1>6 DEF m
    <3> DEFINE x == [m EXCEPT !.val[i].ok = ~@]
    <3>5. x \in Msg /\ x.tag = m.tag /\ Len(x.val) = Len(m.val)
      BY <3>4, MsgIs, WrongLength
    <3>6. Put(p, x)
      BY <3>3
    <3> HIDE DEF x
    <3> QED
      BY <3>1, <3>5, <3>6 DEF m
  <2> QED
    BY <2>1, <2>2
<1>8. PICK m \in Msg : /\ m.tag = e.m.tag /\ Put(p, m)
                       /\ (m = e.m /\ faults' = faults) \/ (faults = 0 /\ faults' = 1 /\ Len(m.val) = Len(e.m.val))
  BY <1>7
<1> DEFINE C2 == [chan EXCEPT ![e.c][p][e.peer] = Append(@, m)]
<1>9. chan' = C2 /\ todo' = T2 /\ got' = got
  BY <1>8 DEF Put
<1>10. Follows(H, at, st, T2, C2) /\ OneSent(H, at, todo, T2, chan, C2, p, e, m)
  BY <1>1, <1>3, <1>4, <1>8, Sends
<1> HIDE DEF T2, C2, e
<1>11. Said(H, at, todo, chan, got, T2, C2, p, e.peer, m.val)
  <2> DEFINE T == todo
             C == chan
             G == got
  <2>1. C \in Pairs(Seq(Msg)) /\ OneSent(H, at, T, T2, C, C2, p, e, m) /\ at[p] \in Nat
    BY <1>1, <1>4, <1>10
  <2>2. ASSUME NEW c \in Connections, NEW x \in Players, NEW y \in Players
        PROVE  /\ WireOK(H, Wrote(H[at[x]], at[x], c, x, y, T[x]), Read(H[at[y]], c, x, y, T[y]), C[c][x][y])
               /\ Wrote(H[at[x]], at[x], c, x, y, T[x]) \in Seq(Nat) /\ Read(H[at[y]], c, x, y, T[y]) \in Nat
    <3>1. WireOK(H, Wrote(H[at[x]], at[x], c, x, y, T[x]), Read(H[at[y]], c, x, y, T[y]), C[c][x][y])
      BY <1>4 DEF Follows
    <3>2. at[x] \in Nat /\ at[y] \in Nat
      BY <1>4
    <3> HIDE DEF T, C
    <3> QED
      BY <3>1, <3>2, WroteIs
  <2> HIDE DEF T, C, G
  <2>3. Said(H, at, T, C, G, T2, C2, p, e.peer, m.val)
    BY <1>6, <2>1, <2>2, HeldSends
  <2> QED
    BY <2>3 DEF T, C, G
<1>12. Sound(H, at, st, T2, C2, got, hist, sure, faults')
  <2> DEFINE S == st
             T == todo
             C == chan
             G == got
             X == hist
             U == sure
             f == faults
  <2>1. PICK f2 : f2 = faults'
    OBVIOUS
  <2>2. /\ Sound(H, at, S, T, C, G, X, U, f) /\ X \in [Players -> History] /\ f \in Nat /\ PlaceOK(S[p], H[at[p]])
        /\ Said(H, at, T, C, G, T2, C2, p, e.peer, m.val)
    BY <1>1, <1>4, <1>11
  <2>3. (m = e.m /\ f2 = f) \/ (f = 0 /\ f2 = 1 /\ Len(m.val) = Len(e.m.val))
    BY <1>8, <2>1
  <2>4. e \in TStep /\ Writes(H[at[p]], e.c, p, e.peer) /\ (Round(H[at[p]]) \in Heeded => e.m.val = Says(p, S[p], Round(H[at[p]])))
    BY <1>5
  <2> HIDE DEF S, T, C, G, X, U, f
  <2>5. Sound(H, at, S, T2, C2, G, X, U, f2)
    BY <1>4, <2>2, <2>3, <2>4, SoundSends
  <2> QED
    BY <2>1, <2>5 DEF S, G, X, U
<1>13. Follows(H, at, st', todo', chan') /\ Sound(H, at, st', todo', chan', got', hist', sure', faults')
  BY <1>2, <1>9, <1>10, <1>12
<1>14. Follows(H, at, st, todo, chan)'
  BY <1>2, <1>13, FollowsNext
<1>15. Sound(H, at, st, todo, chan, got, hist, sure, faults)'
  BY <1>2, <1>13, SoundNext
<1>16. Fits(H, at)'
  BY <1>14, <1>15 DEF Fits
<1> QED
  BY <1>16

\* A player that reads.
LEMMA ReceiveSound ==
  ASSUME Setting, TypeOK, NEW H, Trace(H), NEW at, Fits(H, at), NEW p \in Players, Same, Receive(p)
  PROVE  \E a : Fits(H, a)'
<1> DEFINE e == Head(todo[p])
           T2 == [todo EXCEPT ![p] = Tail(@)]
           C2 == [chan EXCEPT ![e.c][e.peer][p] = Tail(@)]
           G2 == [got EXCEPT ![p][e.peer] = Head(chan[e.c][e.peer][p]).val]
<1>1. chan \in Pairs(Seq(Msg)) /\ todo \in [Players -> Seq(TStep)] /\ got \in [Players -> Speech]
  BY DEF TypeOK
<1>2. prog' = prog /\ type' = type /\ st' = st /\ hist' = hist /\ sure' = sure /\ faults' = faults
  BY DEF Same, Receive
<1>3. todo[p] # <<>> /\ e.dir = "receive" /\ chan[e.c][e.peer][p] # <<>>
  BY DEF Receive, Ready
<1>4. Follows(H, at, st, todo, chan) /\ Sound(H, at, st, todo, chan, got, hist, sure, faults) /\ at \in [Players -> Nat]
  BY DEF Fits, Follows
<1>5. chan' = C2 /\ todo' = T2 /\ got' = G2
  BY DEF Receive
<1>6. Follows(H, at, st, T2, C2) /\ OneRead(H, at, todo, T2, chan, C2, p, e)
  BY <1>1, <1>3, <1>4, Receives
<1>7. ReadsNext(H, at, todo, chan, p)
  <2> DEFINE S == st
             T == todo
             C == chan
  <2>1. /\ Follows(H, at, S, T, C) /\ T \in [Players -> Seq(TStep)] /\ C \in Pairs(Seq(Msg))
        /\ T[p] # <<>> /\ Head(T[p]).dir = "receive" /\ C[Head(T[p]).c][Head(T[p]).peer][p] # <<>>
    BY <1>1, <1>3, <1>4
  <2> HIDE DEF S, T, C
  <2>2. ReadsNext(H, at, T, C, p)
    BY <2>1, NextMessage
  <2> QED
    BY <2>2 DEF T, C
<1>8. e \in TStep
  BY <1>7 DEF ReadsNext
<1>9. e.c \in Connections /\ e.peer \in Players
  BY <1>8 DEF TStep
<1> HIDE DEF e
<1>10. Read(H[at[p]], e.c, e.peer, p, todo[p]) \in Nat
  <2> DEFINE Y == todo[p]
  <2>1. at[p] \in Nat
    BY <1>4
  <2> HIDE DEF Y
  <2>2. Read(H[at[p]], e.c, e.peer, p, Y) \in Nat
    BY <1>9, <2>1, WroteIs
  <2> QED
    BY <2>2 DEF Y
<1>11. Quiet(H, at, todo, chan, got, at, T2, C2, G2)
  <2> DEFINE T == todo
             C == chan
             G == got
  <2>1. /\ C \in Pairs(Seq(Msg)) /\ G \in [Players -> Speech] /\ e = Head(T[p]) /\ OneRead(H, at, T, T2, C, C2, p, e)
        /\ ReadsNext(H, at, T, C, p) /\ C[e.c][e.peer][p] # <<>> /\ Read(H[at[p]], e.c, e.peer, p, T[p]) \in Nat
    BY <1>1, <1>3, <1>6, <1>7, <1>10 DEF e
  <2>2. G2 = [G EXCEPT ![p][e.peer] = Head(C[e.c][e.peer][p]).val]
    OBVIOUS
  <2> HIDE DEF T, C, G, T2, C2, G2
  <2>3. Quiet(H, at, T, C, G, at, T2, C2, [G EXCEPT ![p][e.peer] = Head(C[e.c][e.peer][p]).val])
    BY <1>9, <2>1, HeldReceives
  <2> QED
    BY <2>2, <2>3 DEF T, C, G
<1> HIDE DEF T2, C2, G2
<1>12. Sound(H, at, st, T2, C2, G2, hist, sure, faults)
  <2> DEFINE S == st
             T == todo
             C == chan
             G == got
             X == hist
             U == sure
             f == faults
  <2>1. Sound(H, at, S, T, C, G, X, U, f) /\ Quiet(H, at, T, C, G, at, T2, C2, G2)
    BY <1>4, <1>11
  <2> HIDE DEF S, T, C, G, X, U, f
  <2>2. Sound(H, at, S, T2, C2, G2, X, U, f)
    BY <2>1, SoundReads
  <2> QED
    BY <2>2 DEF S, X, U, f
<1>13. Follows(H, at, st', todo', chan') /\ Sound(H, at, st', todo', chan', got', hist', sure', faults')
  BY <1>2, <1>5, <1>6, <1>12
<1>14. Follows(H, at, st, todo, chan)'
  BY <1>2, <1>13, FollowsNext
<1>15. Sound(H, at, st, todo, chan, got, hist, sure, faults)'
  BY <1>2, <1>13, SoundNext
<1>16. Fits(H, at)'
  BY <1>14, <1>15 DEF Fits
<1> QED
  BY <1>16

-----------------------------------------------------------------------------
(* The whole invariant, and what it says between the checks.               *)

\* In the first state nothing was said.
LEMMA SoundStarts ==
  ASSUME Proper, Init, NEW H, Trace(H)
  PROVE  Sound(H, [p \in Players |-> 0], st, todo, chan, got, hist, sure, faults)
<1> DEFINE none == [q \in Players |-> <<>>]
           s0 == [pc |-> 0, rounds |-> <<>>, open_cnt |-> 0, counter |-> [c \in Connections |-> 0],
                  macs |-> <<>>, vals |-> <<>>, sha256 |-> <<>>, bcast |-> <<>>, pub |-> <<>>, comm |-> none]
           Y0 == [k \in Kinds |-> <<>>]
           u0 == [k \in Kinds |-> 0]
           at == [p \in Players |-> 0]
<1>1. /\ chan = [c \in Connections |-> [p \in Players |-> [q \in Players |-> <<>>]]] /\ faults = 0
      /\ st = [p \in Players |-> s0] /\ hist = [p \in Players |-> Y0] /\ sure = [p \in Players |-> u0]
  BY DEF Init, WireInit
<1>2. /\ H[0] = Start /\ Start.rounds = <<>> /\ Start.opened = <<>> /\ Start.pub = <<>> /\ Start.cast = <<>>
      /\ Start.fresh = 0 /\ Start.pubs = 0 /\ Start.casts = 0 /\ Start.bcast = <<>>
  BY DEF Trace, Start
<1>3. Y0.opened = <<>> /\ Y0.pub = <<>> /\ Y0.cast = <<>> /\ u0.opened = 0 /\ u0.pub = 0 /\ u0.cast = 0
  BY DEF Kinds
<1>4. s0.vals = <<>> /\ s0.macs = <<>> /\ s0.sha256 = <<>> /\ s0.pub = <<>> /\ s0.bcast = <<>>
  OBVIOUS
<1>5. Round(Start) = "none"
  BY <1>2 DEF Round
<1>6. \A p \in Players : at[p] = 0 /\ st[p] = s0 /\ hist[p] = Y0 /\ sure[p] = u0
  BY <1>1
<1>7. \A c \in Connections, p, q \in Players : chan[c][p][q] = <<>>
  BY <1>1
<1> HIDE DEF s0, Y0, u0, at, Start
<1>8. CastsRight(Y0, Start)
  BY <1>2 DEF CastsRight
<1>9. Keeps(s0, Y0, Start)
  <2>1. \A x : Window(x, 0, 0) = <<>>
    BY WindowNone
  <2>2. [i \in 1 .. 0 |-> s0.vals[i].id] = <<>>
    OBVIOUS
  <2>3. Len(<<>>) = 0
    OBVIOUS
  <2> QED
    BY <1>2, <1>3, <1>4, <1>8, <2>1, <2>2, <2>3 DEF Keeps, Sized
<1>10. ASSUME NEW p \in Players PROVE Checked(hist, sure[p], p, H[at[p]])
  <2>1. Opens(hist, Start) /\ Casts(hist, Start) /\ Enters(hist, p, Start)
    BY <1>2 DEF Opens, Casts, Enters
  <2>2. Covers(u0, Start)
    BY <1>2, <1>3 DEF Covers
  <2> QED
    BY <1>2, <1>6, <2>1, <2>2 DEF Checked
<1>11. ASSUME NEW p \in Players, NEW q \in Players, NEW v, NEW n PROVE ~Held(H, at, todo, chan, got, p, q, v, n)
  <2>1. ~OnWire(H, at, todo, chan, p, q, v, n)
    BY <1>7 DEF OnWire
  <2>2. \A c : ~Reads(Start, c, p, q)
    BY <1>5 DEF Reads, Talk
  <2>3. ~InHand(H, at, todo, got, p, q, v, n)
    BY <1>2, <1>6, <2>2 DEF InHand
  <2> QED
    BY <2>1, <2>3 DEF Held
<1>12. MailOK(H, at, todo, chan, got) /\ Exact(H, at, todo, chan, got, hist)
  BY <1>11 DEF MailOK, Exact
<1>13. ASSUME NEW z \in Players PROVE RightAt(H, at, todo, chan, got, hist, z) /\ EntersRight(H, at, hist, z)
  <2>1. \A p \in Players : \A v, n : Held(H, at, todo, chan, got, p, z, v, n) => Right(v, H[n], p)
    BY <1>11
  <2>2. hist[z].opened = H[at[z]].opened /\ hist[z].cast = H[at[z]].cast /\ hist[z].pub = H[at[z]].pub
    BY <1>2, <1>3, <1>6
  <2> QED
    BY <2>1, <2>2 DEF RightAt, EntersRight
<1>14. Honest(H, at, todo, chan, got, hist)
  BY <1>12, <1>13 DEF Honest
<1>15. \A p \in Players : Keeps(st[p], hist[p], H[at[p]])
  BY <1>2, <1>6, <1>9
<1>16. Sound(H, at, st, todo, chan, got, hist, sure, faults)
  BY <1>10, <1>12, <1>13, <1>14, <1>15 DEF Sound
<1> QED
  BY <1>16 DEF at

\* Nothing passed a check, or is left out of the next.
LEMMA SoundIsEnough ==
  ASSUME Setting, TypeOK, NEW H, Trace(H), NEW at, Fits(H, at)
  PROVE  NothingUnchecked
<1>1. hist \in [Players -> History] /\ sure \in [Players -> Covered]
  BY DEF TypeOK
<1>2. at \in [Players -> Nat] /\ \A p \in Players : PlaceOK(st[p], H[at[p]])
  BY DEF Fits, Follows
<1>3. \A p \in Players : Keeps(st[p], hist[p], H[at[p]]) /\ Checked(hist, sure[p], p, H[at[p]])
  BY DEF Fits, Sound
<1>4. ASSUME NEW p \in Players
      PROVE  /\ RoundFacts(H[at[p]]) /\ \A j \in 1 .. Len(H[at[p]].opened) : H[at[p]].opened[j].ok
             /\ sure[p].opened \in Nat /\ sure[p].pub \in Nat /\ sure[p].cast \in Nat
  <2>1. at[p] \in Nat /\ sure[p] \in Covered
    BY <1>1, <1>2
  <2>2. sure[p].opened \in Nat /\ sure[p].pub \in Nat /\ sure[p].cast \in Nat
    BY <2>1 DEF Covered
  <2> QED
    BY <2>1, <2>2, TraceFacts, TraceRight
<1>5. OpeningsChecked
  <2> SUFFICES ASSUME NEW p \in Players, NEW q \in Players, NEW i \in 1 .. sure[p].opened
               PROVE  /\ i <= Len(hist[q].opened) /\ hist[q].opened[i] = hist[p].opened[i]
                      /\ hist[q].opened[i].ok
    BY DEF OpeningsChecked
  <2> DEFINE h == H[at[p]]
             X == hist
  <2>1. Opens(X, h) /\ sure[p].opened <= Len(h.opened) - h.fresh
    BY <1>3 DEF Checked, Covers
  <2>2. RoundFacts(h) /\ (\A j \in 1 .. Len(h.opened) : h.opened[j].ok) /\ sure[p].opened \in Nat
    BY <1>4
  <2> HIDE DEF h, X
  <2>3. Len(h.opened) \in Nat /\ h.fresh \in Nat
    BY <2>2, LimitsAre
  <2>4. i \in 1 .. Len(h.opened) - h.fresh /\ i \in 1 .. Len(h.opened)
    BY <2>1, <2>2, <2>3
  <2>5. i <= Len(X[q].opened) /\ X[q].opened[i] = h.opened[i] /\ X[p].opened[i] = h.opened[i]
    BY <2>1, <2>4 DEF Opens
  <2> QED
    BY <2>2, <2>4, <2>5 DEF X
<1>6. BroadcastsChecked
  <2> SUFFICES ASSUME NEW p \in Players, NEW q \in Players, NEW i \in 1 .. sure[p].cast
               PROVE  i <= Len(hist[q].cast) /\ hist[q].cast[i] = hist[p].cast[i]
    BY DEF BroadcastsChecked
  <2> DEFINE h == H[at[p]]
             X == hist
  <2>1. Casts(X, h) /\ sure[p].cast <= Len(h.cast) - h.casts /\ RoundFacts(h) /\ sure[p].cast \in Nat
    BY <1>3, <1>4 DEF Checked, Covers
  <2> HIDE DEF h, X
  <2>2. Len(h.cast) \in Nat /\ h.casts \in Nat
    BY <2>1, LimitsAre
  <2>3. i \in 1 .. Len(h.cast) - h.casts
    BY <2>1, <2>2
  <2>4. i <= Len(X[q].cast) /\ X[q].cast[i] = h.cast[i] /\ X[p].cast[i] = h.cast[i]
    BY <2>1, <2>3 DEF Casts
  <2> QED
    BY <2>4 DEF X
<1>7. InputsChecked
  <2> SUFFICES ASSUME NEW p \in Players, NEW q \in Players, NEW i \in 1 .. sure[p].pub
               PROVE  i <= Len(hist[q].pub) /\ hist[q].pub[i] = hist[p].pub[i]
    BY DEF InputsChecked
  <2> DEFINE h == H[at[p]]
             X == hist
  <2>1. Enters(X, p, h) /\ sure[p].pub <= Len(h.pub) - h.pubs /\ RoundFacts(h) /\ sure[p].pub \in Nat
    BY <1>3, <1>4 DEF Checked, Covers
  <2> HIDE DEF h, X
  <2>2. Len(h.pub) \in Nat /\ h.pubs \in Nat
    BY <2>1, LimitsAre
  <2>3. i \in 1 .. Len(h.pub) - h.pubs
    BY <2>1, <2>2
  <2>4. i <= Len(X[q].pub) /\ X[q].pub[i] = X[p].pub[i]
    BY <2>1, <2>3 DEF Enters
  <2> QED
    BY <2>4 DEF X
<1>8. UncheckedIsCounted
  <2> SUFFICES ASSUME NEW p \in Players, st[p].rounds = <<>>
               PROVE  /\ st[p].open_cnt <= Gap
                      /\ st[p].open_cnt = Len(IF type = "Full" THEN st[p].vals ELSE st[p].sha256)
    BY DEF UncheckedIsCounted
  <2> DEFINE h == H[at[p]]
             s == st[p]
             Y == hist[p]
  <2>1. PlaceOK(s, h) /\ Keeps(s, Y, h) /\ RoundFacts(h) /\ s.rounds = <<>> /\ Y \in History
    BY <1>1, <1>2, <1>3, <1>4
  <2> HIDE DEF h, s, Y
  <2>2. Round(h) = "none" /\ s.open_cnt = h.open_cnt
    BY <2>1 DEF PlaceOK, Round
  <2>3. h.open_cnt <= Gap /\ h.fresh = h.open_cnt
    <3>1. Round(h) \notin Checking /\ Round(h) \notin {"OK", "aux", "reset", "count"}
      BY <2>2 DEF Checking
    <3>2. h.open_cnt <= Gap
      BY <2>1, <3>1 DEF RoundFacts, CountsOK
    <3> QED
      BY <2>1, <3>1, <3>2, FreshIs
  <2>4. Len(Window(Y.opened, Len(h.opened), h.fresh)) = h.fresh
    <3>1. Y.opened \in Seq(Entry) /\ Len(h.opened) \in Nat /\ h.fresh \in Nat /\ h.fresh <= Len(h.opened)
      BY <2>1, PastIsToo, LimitsAre
    <3>2. Len(Y.opened) = Len(h.opened)
      BY <2>1 DEF Keeps, Sized
    <3>3. Len(h.opened) <= Len(Y.opened)
      BY <3>1, <3>2
    <3> QED
      BY <3>1, <3>3, WindowIs
  <2>5. (IF type = "Full" THEN s.vals ELSE s.sha256) = Window(Y.opened, Len(h.opened), h.fresh)
    BY <2>1 DEF Keeps
  <2>6. s.open_cnt <= Gap /\ s.open_cnt = Len(IF type = "Full" THEN s.vals ELSE s.sha256)
    BY <2>2, <2>3, <2>4, <2>5
  <2> QED
    BY <2>6 DEF s
<1> QED
  BY <1>5, <1>6, <1>7, <1>8 DEF NothingUnchecked

AllSound == TypeOK /\ Setting /\ \E H, at : Trace(H) /\ Fits(H, at)

\* A step keeps what is on the way and what was checked.
LEMMA StepSound ==
  ASSUME Setting, TypeOK, NEW H, Trace(H), NEW at, Fits(H, at), Faults <= 1, [Next]_vars
  PROVE  \E a : Fits(H, a)'
<1>1. prog' = prog /\ type' = type
  BY DEF Next, Step, Begin, EndRound, Same, vars
<1>2. CASE UNCHANGED vars
  BY <1>1, <1>2, SameSound DEF vars, wire
<1>3. ASSUME NEW p \in Players, Begin(p) PROVE \E a : Fits(H, a)'
  BY <1>3, BeginSound
<1>4. ASSUME NEW p \in Players, EndRound(p) PROVE \E a : Fits(H, a)'
  BY <1>4, EndSound
<1>5. ASSUME NEW p \in Players, Send(p) \/ SendWrong(p), Same PROVE \E a : Fits(H, a)'
  BY <1>5, SendSound
<1>6. ASSUME NEW p \in Players, Receive(p), Same PROVE \E a : Fits(H, a)'
  BY <1>6, ReceiveSound
<1>7. ASSUME NEW p \in Players, PeerGone(p) \/ WriteFails(p), Same PROVE \E a : Fits(H, a)'
  BY <1>1, <1>7, SameSound DEF PeerGone, WriteFails, Same
<1> QED
  BY <1>2, <1>3, <1>4, <1>5, <1>6, <1>7 DEF Next, Step

\* With at most one wrong value, that what was said agrees with the rounds
\* everyone goes through, except at one place, is an inductive invariant.
THEOREM ChecksInductive ==
  ASSUME Proper, Faults <= 1
  PROVE  /\ Init => AllSound
         /\ AllSound /\ [Next]_vars => AllSound'
         /\ AllSound => NothingUnchecked
<1>1. ASSUME Init PROVE AllSound
  <2>1. PICK H : Trace(H)
    BY TraceExists
  <2>2. TypeOK /\ Setting /\ Follows(H, [p \in Players |-> 0], st, todo, chan)
    BY <1>1, <2>1, StartPlace
  <2>3. Sound(H, [p \in Players |-> 0], st, todo, chan, got, hist, sure, faults)
    BY <1>1, <2>1, SoundStarts
  <2> DEFINE at == [p \in Players |-> 0]
  <2>4. Fits(H, at)
    BY <2>2, <2>3 DEF Fits
  <2> HIDE DEF at
  <2> QED
    BY <2>1, <2>2, <2>4 DEF AllSound
<1>2. ASSUME AllSound, [Next]_vars PROVE AllSound'
  <2>1. PICK H, at : Trace(H) /\ Fits(H, at)
    BY <1>2 DEF AllSound
  <2>2. Setting /\ TypeOK /\ Follows(H, at, st, todo, chan)
    BY <1>2, <2>1 DEF AllSound, Fits
  <2>3. TypeOK' /\ Setting' /\ Trace(H)'
    BY <1>2, <2>1, <2>2, StepKeeps
  <2>4. \E a : Fits(H, a)'
    BY <1>2, <2>1, <2>2, StepSound
  <2> QED
    BY <2>3, <2>4 DEF AllSound
<1>3. ASSUME AllSound PROVE NothingUnchecked
  <2>1. PICK H, at : Trace(H) /\ Fits(H, at)
    BY <1>3 DEF AllSound
  <2> QED
    BY <1>3, <2>1, SoundIsEnough DEF AllSound
<1> QED
  BY <1>1, <1>2, <1>3

\* NothingUnchecked of OpeningProps: whoever gives one wrong value, in an
\* opening, a broadcast, a public input or a check itself, nothing wrong passes
\* a check, and what no check covered is what the next one will.
THEOREM NothingUncheckedAlways ==
  ASSUME Proper, Faults <= 1
  PROVE  Spec => []NothingUnchecked
  BY ChecksInductive, PTL DEF Spec

=============================================================================
