----------------------------- MODULE SedpProofs ------------------------------
(***************************************************************************)
(* Proofs about the import of private data, for every number of servers    *)
(* and clients and every size of their data: that it agrees (TuplesAgree). *)
(*                                                                         *)
(* A tuple has a number in the program of the players, and nothing that is *)
(* sent names it: server and client find it again only because each server *)
(* keeps its clients in a map, in the order of their numbers.  So the first*)
(* half is about that order: the data of all clients, laid one after       *)
(* another in it, fill the numbers 1 .. Total without gap or overlap.  The *)
(* second half is the induction: what lies on the two sockets between a    *)
(* server and a client is a function of how far each of the two has come.  *)
(***************************************************************************)
EXTENDS SedpProps, FiniteSetTheorems, SequenceTheorems, WellFoundedInduction, TLAPS

-----------------------------------------------------------------------------
(* Data and their places in the order of the clients.                      *)

\* A set of naturals has a least element.
LEMMA LeastElement ==
  ASSUME NEW T \in SUBSET Nat, T # {}
  PROVE  \E n \in T : \A m \in T : n <= m
<1> DEFINE R == {ss \in Nat \X Nat : ss[1] < ss[2]}
<1>1. IsWellFoundedOn(R, Nat)
  BY NatLessThanWellFounded DEF OpToRel
<1> HIDE DEF R
<1>2. \E x \in T : \A y \in T : ~(<<y, x>> \in R)
  BY <1>1, WFMin
<1>3. \A x, y \in Nat : ~(<<y, x>> \in R) => x <= y
  BY DEF R
<1> QED
  BY <1>2, <1>3

\* A client has as many data as it says.
LEMMA RowSize ==
  ASSUME NEW c \in Clients
  PROVE  /\ IsFiniteSet({c} \X (1 .. Dataset(c)))
         /\ Cardinality({c} \X (1 .. Dataset(c))) = Dataset(c)
<1> DEFINE I == 1 .. Dataset(c)
           J == {c}
<1>1. IsFiniteSet(I) /\ Cardinality(I) = Dataset(c)
  <2>1. Dataset(c) \in Nat
    BY SedpAssumption
  <2> QED
    BY <2>1, FS_Interval
<1>2. IsFiniteSet(J) /\ Cardinality(J) = 1
  BY FS_Singleton
<1> HIDE DEF I, J
<1>3. IsFiniteSet(J \X I) /\ Cardinality(J \X I) = 1 * Dataset(c)
  BY <1>1, <1>2, FS_Product
<1>4. Dataset(c) \in Nat
  BY SedpAssumption
<1>5. 1 * Dataset(c) = Dataset(c)
  BY <1>4
<1> QED
  BY <1>3, <1>5 DEF I, J

\* The data of some clients are finitely many.
LEMMA DataFinite ==
  ASSUME NEW S \in SUBSET Clients
  PROVE  IsFiniteSet(DataOf(S)) /\ Cardinality(DataOf(S)) \in Nat
<1> DEFINE row(c) == {c} \X (1 .. Dataset(c))
           Rows == {row(c) : c \in S}
           f == [c \in S |-> row(c)]
<1>1. IsFiniteSet(S)
  BY SedpAssumption, FS_Subset
<1>2. f \in Surjection(S, Rows)
  BY DEF Surjection
<1>3. IsFiniteSet(Rows)
  <2> HIDE DEF f, Rows
  <2> QED
    BY <1>1, <1>2, FS_Surjection
<1>4. \A T \in Rows : IsFiniteSet(T)
  BY RowSize
<1>5. IsFiniteSet(UNION Rows)
  <2> HIDE DEF Rows
  <2> QED
    BY <1>3, <1>4, FS_UNION
<1>6. DataOf(S) = UNION Rows
  <2>1. \A c \in Clients : 1 .. Dataset(c) \in SUBSET Nat
    BY SedpAssumption
  <2> QED
    BY <2>1 DEF DataOf
<1> QED
  BY <1>5, <1>6, FS_CardinalityType

\* A client more adds the number of its data.
LEMMA AddClient ==
  ASSUME NEW S \in SUBSET Clients, NEW c \in Clients \ S
  PROVE  Cardinality(DataOf(S \cup {c})) = Cardinality(DataOf(S)) + Dataset(c)
<1> DEFINE row == {c} \X (1 .. Dataset(c))
           old == DataOf(S)
<1>1. DataOf(S \cup {c}) = old \cup row
  <2>1. Dataset(c) \in Nat
    BY SedpAssumption
  <2> QED
    BY <2>1 DEF DataOf
<1>2. old \cap row = {}
  BY DEF DataOf
<1>3. IsFiniteSet(row) /\ Cardinality(row) = Dataset(c)
  BY RowSize
<1>4. IsFiniteSet(old) /\ Cardinality(old) \in Nat
  BY DataFinite
<1> HIDE DEF row, old
<1>5. Cardinality(old \cup row) = Cardinality(old) + Cardinality(row) - Cardinality(old \cap row)
  BY <1>3, <1>4, FS_Union
<1>6. Cardinality(old \cap row) = 0
  BY <1>2, FS_EmptySet
<1>7. Dataset(c) \in Nat
  BY SedpAssumption
<1>8. Cardinality(old \cup row) = Cardinality(old) + Dataset(c)
  BY <1>3, <1>4, <1>5, <1>6, <1>7
<1> QED
  BY <1>1, <1>8 DEF old

\* More clients have no fewer data.
LEMMA MoreData ==
  ASSUME NEW S \in SUBSET Clients, NEW T \in SUBSET S
  PROVE  Cardinality(DataOf(T)) <= Cardinality(DataOf(S))
<1>1. DataOf(T) \in SUBSET DataOf(S)
  BY DEF DataOf
<1>2. IsFiniteSet(DataOf(S))
  BY DataFinite
<1> QED
  BY <1>1, <1>2, FS_Subset

\* The tuples before those of c are counted by a natural number.
LEMMA FirstType == \A c \in Clients : First(c) \in Nat /\ Below(c) \in SUBSET Clients
  BY DataFinite DEF First, Below

\* The tuples of c end within those of any set of clients that has c and all
\* before it.
LEMMA FirstApart ==
  ASSUME NEW c \in Clients, NEW S \in SUBSET Clients, c \in S, Below(c) \subseteq S
  PROVE  First(c) + Dataset(c) <= Cardinality(DataOf(S))
<1>1. Below(c) \in SUBSET Clients
  BY DEF Below
<1>2. c \in Clients \ Below(c)
  BY SedpAssumption DEF Below
<1>3. Cardinality(DataOf(Below(c) \cup {c})) = First(c) + Dataset(c)
  BY <1>1, <1>2, AddClient DEF First
<1>4. Below(c) \cup {c} \in SUBSET S
  OBVIOUS
<1> QED
  BY <1>3, <1>4, MoreData

\* The tuples of c end before those of the next begin.
LEMMA InOrderOfId ==
  ASSUME NEW c \in Clients, NEW d \in Clients, Id(c) < Id(d)
  PROVE  First(c) + Dataset(c) <= First(d)
<1>1. c \in Below(d) /\ Below(c) \subseteq Below(d) /\ Below(d) \in SUBSET Clients
  BY SedpAssumption DEF Below
<1> QED
  BY <1>1, FirstApart DEF First

\* Each datum has one of the tuples 1 .. Total.
LEMMA SlotType ==
  ASSUME NEW c \in Clients, NEW i \in 1 .. Dataset(c)
  PROVE  Slot(c, i) \in 1 .. Total /\ Total \in Nat /\ First(c) < Slot(c, i) /\ Slot(c, i) <= First(c) + Dataset(c)
<1>1. First(c) + Dataset(c) <= Total
  BY FirstApart, FirstType DEF Total
<1>2. First(c) \in Nat /\ Total \in Nat /\ Dataset(c) \in Nat
  BY FirstType, DataFinite, SedpAssumption DEF Total
<1> QED
  BY <1>1, <1>2 DEF Slot

\* No two data have the same tuple: no mask is used twice.
LEMMA SlotInjective ==
  ASSUME Distinct, NEW c \in Clients, NEW d \in Clients, NEW i \in 1 .. Dataset(c), NEW j \in 1 .. Dataset(d),
         Slot(c, i) = Slot(d, j)
  PROVE  c = d /\ i = j
<1>1. First(c) \in Nat /\ First(d) \in Nat /\ Dataset(c) \in Nat /\ Dataset(d) \in Nat
  BY FirstType, SedpAssumption
<1>2. ~(Id(c) < Id(d))
  <2>1. Id(c) < Id(d) => First(c) + Dataset(c) <= First(d)
    BY InOrderOfId
  <2> QED
    BY <1>1, <2>1 DEF Slot
<1>3. ~(Id(d) < Id(c))
  <2>1. Id(d) < Id(c) => First(d) + Dataset(d) <= First(c)
    BY InOrderOfId
  <2> QED
    BY <1>1, <2>1 DEF Slot
<1>4. c = d
  BY <1>2, <1>3, SedpAssumption DEF Distinct
<1> QED
  BY <1>1, <1>4 DEF Slot

\* Every tuple is some datum's.
LEMMA SlotOnto ==
  ASSUME Distinct, NEW n \in 1 .. Total
  PROVE  \E c \in Clients : \E i \in 1 .. Dataset(c) : Slot(c, i) = n
<1> DEFINE D == DataOf(Clients)
           f == [x \in D |-> Slot(x[1], x[2])]
           I == 1 .. Total
<1>1. IsFiniteSet(D) /\ Total = Cardinality(D) /\ Total \in Nat
  BY DataFinite DEF Total
<1>2. IsFiniteSet(I) /\ Cardinality(I) = Cardinality(D)
  BY <1>1, FS_Interval
<1>3. \A x \in D : x[1] \in Clients /\ x[2] \in 1 .. Dataset(x[1]) /\ x = <<x[1], x[2]>>
  BY DEF DataOf
<1>4. f \in Injection(D, I)
  <2> HIDE DEF D
  <2>1. f \in [D -> I]
    BY <1>3, SlotType
  <2>2. \A x, y \in D : f[x] = f[y] => x = y
    <3> SUFFICES ASSUME NEW x \in D, NEW y \in D, Slot(x[1], x[2]) = Slot(y[1], y[2]) PROVE x = y
      OBVIOUS
    <3>1. x[1] = y[1] /\ x[2] = y[2]
      BY <1>3, SlotInjective
    <3> QED
      BY <1>3, <3>1
  <2> QED
    BY <2>1, <2>2 DEF Injection, IsInjective
<1>5. f \in Surjection(D, I)
  <2> HIDE DEF D, f, I
  <2> QED
    BY <1>2, <1>4, FS_Injection
<1>6. PICK x \in D : f[x] = n
  BY <1>5 DEF Surjection
<1> QED
  BY <1>3, <1>6

\* The place of a client in the map of a server.
Rank(c) == Cardinality(Below(c))

\* The place of a client in the map is one of 1 .. max_clients.
LEMMA RankType ==
  ASSUME NEW c \in Clients
  PROVE  /\ IsFiniteSet(Below(c)) /\ Rank(c) \in Nat
         /\ max_clients \in Nat /\ Rank(c) + 1 \in 1 .. max_clients
<1>1. IsFiniteSet(Clients) /\ max_clients \in Nat
  BY SedpAssumption, FS_CardinalityType DEF max_clients
<1>2. Below(c) \in SUBSET Clients /\ Below(c) # Clients
  BY SedpAssumption DEF Below
<1>3. IsFiniteSet(Below(c)) /\ Rank(c) <= max_clients /\ Rank(c) # max_clients
  BY <1>1, <1>2, FS_Subset DEF Rank, max_clients
<1>4. Rank(c) \in Nat
  BY <1>3, FS_CardinalityType DEF Rank
<1> QED
  BY <1>1, <1>3, <1>4

\* The places are in the order of the numbers.
LEMMA RankGrows ==
  ASSUME NEW c \in Clients, NEW d \in Clients, Id(c) < Id(d)
  PROVE  Rank(c) < Rank(d)
<1>1. Below(c) \in SUBSET Below(d) /\ Below(c) # Below(d)
  BY SedpAssumption DEF Below
<1>2. Rank(c) <= Rank(d) /\ Rank(c) # Rank(d)
  BY <1>1, RankType, FS_Subset DEF Rank
<1> QED
  BY <1>2, RankType

\* No two clients have the same place.
LEMMA RankInjective ==
  ASSUME Distinct, NEW c \in Clients, NEW d \in Clients, Rank(c) = Rank(d)
  PROVE  c = d
<1>1. ~(Id(c) < Id(d)) /\ ~(Id(d) < Id(c))
  BY RankGrows, RankType
<1> QED
  BY <1>1, SedpAssumption DEF Distinct

\* Every place is some client's.
LEMMA RankOnto ==
  ASSUME Distinct, NEW k \in 1 .. max_clients
  PROVE  \E c \in Clients : Rank(c) + 1 = k
<1> DEFINE f == [c \in Clients |-> Rank(c) + 1]
           I == 1 .. max_clients
<1>1. IsFiniteSet(Clients) /\ max_clients \in Nat
  BY SedpAssumption, FS_CardinalityType DEF max_clients
<1>2. IsFiniteSet(I) /\ Cardinality(I) = Cardinality(Clients)
  BY <1>1, FS_Interval DEF max_clients
<1>3. f \in Injection(Clients, I)
  <2>1. f \in [Clients -> I]
    BY RankType
  <2>2. \A c, d \in Clients : f[c] = f[d] => c = d
    BY RankInjective, RankType
  <2> QED
    BY <2>1, <2>2 DEF Injection, IsInjective
<1>4. f \in Surjection(Clients, I)
  <2> HIDE DEF f, I
  <2> QED
    BY <1>2, <1>3, FS_Injection
<1> QED
  BY <1>4 DEF Surjection

-----------------------------------------------------------------------------
(* The map of a server, when all clients have told it who they are.        *)

\* It has an entry for each client.
LEMMA AllFinite ==
  /\ IsFiniteSet(Clients) /\ IsFiniteSet(All)
  /\ Cardinality(All) = max_clients
<1> DEFINE f == [c \in Clients |-> E(c)]
<1>1. f \in Surjection(Clients, All) /\ f \in Injection(Clients, All)
  BY DEF All, E, Surjection, Injection, IsInjective
<1>2. IsFiniteSet(Clients)
  BY SedpAssumption
<1> HIDE DEF f
<1> QED
  BY <1>1, <1>2, FS_Surjection DEF max_clients

\* Going through it meets c at its place.
LEMMA MapOrder ==
  ASSUME Distinct, NEW c \in Clients
  PROVE  InMapOrder(All)[Rank(c) + 1] = E(c)
<1> DEFINE before(e) == {d \in All : KeyLess(d, e)}
<1>1. \A a \in Clients : Cardinality(before(E(a))) = Rank(a)
  <2> TAKE a \in Clients
  <2> DEFINE f == [d \in Below(a) |-> E(d)]
             B == before(E(a))
  <2>1. f \in Surjection(Below(a), B) /\ f \in Injection(Below(a), B)
    <3>1. B = {E(d) : d \in Below(a)}
      <4>1. \A d \in Clients : KeyLess(E(d), E(a)) <=> Id(d) < Id(a)
        BY SedpAssumption DEF KeyLess, E, Distinct
      <4> QED
        BY <4>1 DEF All, Below
    <3> QED
      BY <3>1 DEF E, Surjection, Injection, IsInjective
  <2>2. IsFiniteSet(Below(a))
    BY RankType
  <2> HIDE DEF f, B
  <2>3. Cardinality(B) = Rank(a)
    BY <2>1, <2>2, FS_Surjection DEF Rank
  <2> QED
    BY <2>3 DEF B
<1>2. \A e \in All : Cardinality(before(e)) = Rank(c) <=> e = E(c)
  BY <1>1, RankInjective DEF All
<1>3. InMapOrder(All) = [k \in 1 .. Cardinality(All) |-> CHOOSE e \in All : Cardinality(before(e)) = k - 1]
  BY DEF InMapOrder
<1>4. Rank(c) + 1 \in 1 .. Cardinality(All) /\ (Rank(c) + 1) - 1 = Rank(c)
  BY RankType, AllFinite
<1> HIDE DEF before
<1>5. InMapOrder(All)[Rank(c) + 1] = CHOOSE e \in All : Cardinality(before(e)) = Rank(c)
  BY <1>3, <1>4
<1>6. E(c) \in All
  BY DEF All
<1> QED
  BY <1>2, <1>5, <1>6

\* The client at place k.
Nth(k) == CHOOSE c \in Clients : Rank(c) + 1 = k

\* Place and client determine each other.
LEMMA NthIs ==
  ASSUME Distinct
  PROVE  /\ \A k \in 1 .. max_clients : Nth(k) \in Clients /\ Rank(Nth(k)) + 1 = k
         /\ \A c \in Clients : Nth(Rank(c) + 1) = c
<1>1. \A k \in 1 .. max_clients : Nth(k) \in Clients /\ Rank(Nth(k)) + 1 = k
  BY RankOnto DEF Nth
<1>2. ASSUME NEW c \in Clients PROVE Nth(Rank(c) + 1) = c
  <2>1. Rank(c) + 1 \in 1 .. max_clients /\ Rank(c) \in Nat
    BY RankType
  <2>2. Nth(Rank(c) + 1) \in Clients /\ Rank(Nth(Rank(c) + 1)) = Rank(c)
    BY <1>1, <2>1, RankType
  <2> QED
    BY <2>2, RankInjective
<1> QED
  BY <1>1, <1>2

\* The map from its first entry to its last.
LEMMA MapIs ==
  ASSUME Distinct
  PROVE  /\ DOMAIN InMapOrder(All) = 1 .. max_clients
         /\ \A k \in 1 .. max_clients : InMapOrder(All)[k] = E(Nth(k))
<1>1. DOMAIN InMapOrder(All) = 1 .. max_clients
  BY AllFinite DEF InMapOrder
<1> QED
  BY <1>1, NthIs, MapOrder

\* The place the handler counts to is that of the client.
LEMMA PlaceIs ==
  ASSUME Distinct, NEW c \in Clients
  PROVE  Place(All, c) = Rank(c) + 1
<1>1. \A k \in 1 .. max_clients : InMapOrder(All)[k].ssl = Nth(k)
  BY MapIs DEF E
<1>2. \A k \in 1 .. max_clients : InMapOrder(All)[k].ssl = c <=> k = Rank(c) + 1
  BY <1>1, NthIs
<1>3. Rank(c) + 1 \in 1 .. max_clients
  BY RankType
<1> QED
  BY <1>2, <1>3, AllFinite DEF Place

\* Where a client's tuples begin: at 0, or where those of the one before end.
LEMMA FirstNext ==
  ASSUME Distinct, NEW c \in Clients
  PROVE  /\ Rank(c) = 0 => First(c) = 0
         /\ \A b \in Clients : Rank(c) = Rank(b) + 1 => First(c) = First(b) + Dataset(b)
<1>1. ASSUME Rank(c) = 0 PROVE First(c) = 0
  <2>1. Below(c) = {}
    BY <1>1, RankType, FS_EmptySet DEF Rank
  <2>2. DataOf({}) = {}
    BY DEF DataOf
  <2> QED
    BY <2>1, <2>2, FS_EmptySet DEF First
<1>2. ASSUME NEW b \in Clients, Rank(c) = Rank(b) + 1 PROVE First(c) = First(b) + Dataset(b)
  <2>1. \A d \in Clients : Id(d) < Id(c) <=> Id(d) < Id(b) \/ d = b
    <3> TAKE d \in Clients
    <3>1. Id(b) < Id(c)
      <4>1. ~(Id(c) < Id(b)) /\ Id(c) # Id(b)
        BY <1>2, RankGrows, RankType DEF Distinct
      <4> QED
        BY <4>1, SedpAssumption
    <3>2. Id(d) < Id(c) => ~(Id(b) < Id(d))
      BY <1>2, RankGrows, RankType
    <3>3. Id(b) = Id(d) => d = b
      BY DEF Distinct
    <3> QED
      BY <3>1, <3>2, <3>3, SedpAssumption
  <2>2. Below(c) = Below(b) \cup {b} /\ b \in Clients \ Below(b) /\ Below(b) \in SUBSET Clients
    BY <2>1, SedpAssumption DEF Below
  <2> QED
    BY <2>2, AddClient DEF First
<1> QED
  BY <1>1, <1>2

\* The sum handle_clients keeps as it starts the tasks (Server.cpp:212-229) is
\* the number of tuples of the clients before.
LEMMA StartIs ==
  ASSUME Distinct, NEW c \in Clients
  PROVE  StartOf(All, Rank(c) + 1) = First(c)
<1> DEFINE k == Rank(c) + 1
           size(j) == InMapOrder(All)[j].key[2]
           Start(s) == s = [j \in 1 .. k |-> IF j = 1 THEN 0 ELSE s[j - 1] + size(j - 1)]
           g == [j \in 1 .. k |-> First(Nth(j))]
           start == CHOOSE s : Start(s)
<1>1. k \in 1 .. max_clients /\ max_clients \in Nat
  BY RankType
<1>2. \A j \in 1 .. k : Nth(j) \in Clients /\ Rank(Nth(j)) + 1 = j /\ size(j) = Dataset(Nth(j))
  BY <1>1, NthIs, MapIs DEF E
<1>3. \A j \in 1 .. k : First(Nth(j)) = IF j = 1 THEN 0 ELSE First(Nth(j - 1)) + Dataset(Nth(j - 1))
  <2> TAKE j \in 1 .. k
  <2>1. CASE j = 1
    <3>1. Nth(j) \in Clients /\ Rank(Nth(j)) = 0
      BY <1>2, <2>1, RankType
    <3> QED
      BY <2>1, <3>1, FirstNext
  <2>2. CASE j # 1
    <3>1. j - 1 \in 1 .. k
      BY <1>1, <2>2
    <3>2. Nth(j - 1) \in Clients /\ Nth(j) \in Clients
      BY <1>2, <3>1
    <3>3. Rank(Nth(j)) = Rank(Nth(j - 1)) + 1
      BY <1>2, <3>1, <3>2, RankType
    <3> QED
      BY <2>2, <3>2, <3>3, FirstNext
  <2> QED
    BY <2>1, <2>2
<1>4. StartOf(All, k) = start[k]
  BY DEF StartOf
<1> HIDE DEF k, size
<1>5. Start(g)
  <2>1. \A j \in 1 .. k : g[j] = IF j = 1 THEN 0 ELSE g[j - 1] + size(j - 1)
    <3> TAKE j \in 1 .. k
    <3>1. j # 1 => j - 1 \in 1 .. k
      BY <1>1
    <3> QED
      BY <1>2, <1>3, <3>1
  <2> QED
    BY <2>1
<1> HIDE DEF g
<1>6. Start(start)
  BY <1>5
<1> HIDE DEF start
<1>7. \A j \in 1 .. k : start[j] = g[j]
  <2> SUFFICES ASSUME \E j \in 1 .. k : start[j] # g[j] PROVE FALSE
    OBVIOUS
  <2> DEFINE T == {j \in 1 .. k : start[j] # g[j]}
  <2>1. T \in SUBSET Nat /\ T # {}
    BY <1>1
  <2>2. PICK n \in T : \A m \in T : n <= m
    <3> HIDE DEF T
    <3> QED
      BY <2>1, LeastElement
  <2>3. n \in 1 .. k /\ (n # 1 => n - 1 \in 1 .. k /\ n - 1 \notin T)
    BY <1>1, <2>2
  <2>4. start[n] = IF n = 1 THEN 0 ELSE start[n - 1] + size(n - 1)
    BY <1>6, <2>3
  <2>5. g[n] = IF n = 1 THEN 0 ELSE g[n - 1] + size(n - 1)
    BY <1>5, <2>3
  <2>6. n # 1 => start[n - 1] = g[n - 1]
    BY <2>3
  <2> QED
    BY <2>2, <2>4, <2>5, <2>6
<1>8. k \in 1 .. k
  BY <1>1
<1>9. start[k] = First(Nth(k))
  BY <1>7, <1>8 DEF g
<1> QED
  BY <1>4, <1>9, NthIs DEF k

\* So the task for c is given the tuples of the data of c.
LEMMA SlotsIs ==
  ASSUME Distinct, NEW c \in Clients
  PROVE  Slots(All, c) = [i \in 1 .. Dataset(c) |-> Slot(c, i)]
<1>1. InMapOrder(All)[Rank(c) + 1].key[2] = Dataset(c)
  <2>1. InMapOrder(All)[Rank(c) + 1] = E(c)
    BY MapOrder
  <2>2. E(c).key[2] = Dataset(c)
    BY DEF E
  <2> QED
    BY <2>1, <2>2
<1> QED
  BY <1>1, PlaceIs, StartIs DEF Slots, Slot

-----------------------------------------------------------------------------
(* The data the program gets.                                              *)

\* The datum at a tuple is the one masked by it.
LEMMA DatumIs ==
  ASSUME Distinct, NEW c \in Clients, NEW i \in 1 .. Dataset(c)
  PROVE  Datum(Slot(c, i)) = FullMask(c)[i]
<1>1. <<c, i>> \in DataOf(Clients)
  BY SedpAssumption DEF DataOf
<1>2. \A x \in DataOf(Clients) : x[1] \in Clients /\ x[2] \in 1 .. Dataset(x[1]) /\ x = <<x[1], x[2]>>
  BY DEF DataOf
<1>3. \A x \in DataOf(Clients) : Slot(x[1], x[2]) = Slot(c, i) <=> x = <<c, i>>
  <2> TAKE x \in DataOf(Clients)
  <2>1. ASSUME Slot(x[1], x[2]) = Slot(c, i) PROVE x = <<c, i>>
    <3>1. x[1] = c /\ x[2] = i
      BY <1>2, <2>1, SlotInjective
    <3> QED
      BY <1>2, <3>1
  <2>2. x = <<c, i>> => Slot(x[1], x[2]) = Slot(c, i)
    OBVIOUS
  <2> QED
    BY <2>1, <2>2
<1>4. (CHOOSE x \in DataOf(Clients) : Slot(x[1], x[2]) = Slot(c, i)) = <<c, i>>
  BY <1>1, <1>3
<1> DEFINE x == CHOOSE x \in DataOf(Clients) : Slot(x[1], x[2]) = Slot(c, i)
<1>5. Datum(Slot(c, i)) = FullMask(x[1])[x[2]]
  BY DEF Datum
<1>6. x = <<c, i>>
  BY <1>4
<1> HIDE DEF x
<1>7. x[1] = c /\ x[2] = i
  BY <1>6
<1> QED
  BY <1>5, <1>7

\* Two neighbouring stretches of F, one after the other, are one of F.
LEMMA ConcatIs ==
  ASSUME NEW F, NEW a \in Nat, NEW b \in Nat
  PROVE  [n \in 1 .. a |-> F[n]] \o [i \in 1 .. b |-> F[a + i]] = [n \in 1 .. a + b |-> F[n]]
<1> DEFINE s == [n \in 1 .. a |-> F[n]]
           t == [i \in 1 .. b |-> F[a + i]]
           S == {F[n] : n \in Nat}
<1>1. s \in Seq(S) /\ Len(s) = a
  BY IsASeq
<1>2. t \in Seq(S) /\ Len(t) = b
  BY IsASeq
<1>3. \A n \in 1 .. a : s[n] = F[n]
  OBVIOUS
<1>4. \A n \in 1 .. b : t[n] = F[a + n]
  OBVIOUS
<1> HIDE DEF s, t, S
<1>5. /\ s \o t \in Seq(S) /\ Len(s \o t) = a + b
      /\ \A n \in 1 .. a + b : (s \o t)[n] = IF n <= a THEN s[n] ELSE t[n - a]
  BY <1>1, <1>2, ConcatProperties
<1>6. \A n \in 1 .. a + b : (s \o t)[n] = F[n]
  <2> TAKE n \in 1 .. a + b
  <2>1. CASE n <= a
    <3>1. n \in 1 .. a
      BY <2>1
    <3> QED
      BY <1>3, <1>5, <2>1, <3>1
  <2>2. CASE ~(n <= a)
    <3>1. n - a \in 1 .. b /\ a + (n - a) = n
      BY <2>2
    <3> QED
      BY <1>4, <1>5, <2>2, <3>1
  <2> QED
    BY <2>1, <2>2
<1>7. s \o t = [n \in 1 .. a + b |-> (s \o t)[n]]
  BY <1>5, LenProperties
<1>8. s \o t = [n \in 1 .. a + b |-> F[n]]
  BY <1>6, <1>7
<1> QED
  BY <1>8 DEF s, t

\* What c sends is the stretch of TheData at its tuples.
LEMMA MaskPart ==
  ASSUME Distinct, NEW c \in Clients
  PROVE  /\ FullMask(c) = [i \in 1 .. Dataset(c) |-> TheData[First(c) + i]]
         /\ First(c) \in Nat /\ Dataset(c) \in Nat
<1>1. \A i \in 1 .. Dataset(c) : FullMask(c)[i] = TheData[First(c) + i]
  BY DatumIs, SlotType DEF TheData, Slot
<1> QED
  BY <1>1, FirstType, SedpAssumption DEF FullMask

\* The tuples of the last client are the last.
LEMMA LastIs ==
  ASSUME Distinct, max_clients # 0
  PROVE  /\ max_clients \in 1 .. max_clients
         /\ Total = First(Nth(max_clients)) + Dataset(Nth(max_clients))
<1> DEFINE c == Nth(max_clients)
<1>1. max_clients \in Nat
  BY SedpAssumption, FS_CardinalityType DEF max_clients
<1>2. max_clients \in 1 .. max_clients /\ c \in Clients /\ Rank(c) + 1 = max_clients
  BY <1>1, NthIs
<1>3. \A d \in Clients : Id(d) < Id(c) \/ d = c
  <2> TAKE d \in Clients
  <2>1. ~(Id(c) < Id(d))
    <3>1. Id(c) < Id(d) => Rank(c) < Rank(d)
      BY <1>2, RankGrows
    <3>2. Rank(d) + 1 \in 1 .. max_clients /\ Rank(d) \in Nat /\ Rank(c) \in Nat
      BY <1>2, RankType
    <3> HIDE DEF c
    <3> QED
      BY <1>1, <1>2, <3>1, <3>2
  <2>2. Id(d) = Id(c) => d = c
    BY <1>2 DEF Distinct
  <2> QED
    BY <1>2, <2>1, <2>2, SedpAssumption
<1>4. Clients = Below(c) \cup {c} /\ c \in Clients \ Below(c) /\ Below(c) \in SUBSET Clients
  BY <1>2, <1>3, SedpAssumption DEF Below
<1> QED
  BY <1>2, <1>4, AddClient DEF First, Total

\* What handle_clients collects, client after client in the map's order, is
\* TheData (Server.cpp:232-236): by the first k at which the data of the first k
\* clients would not be its beginning.
LEMMA CollectedIs ==
  ASSUME Distinct, NEW got, \A c \in Clients : got[c] = FullMask(c)
  PROVE  Collected(All, got) = TheData
<1> DEFINE K == max_clients
           seqs == [k \in 1 .. K |-> FullMask(Nth(k))]
           size(k) == Dataset(Nth(k))
           first(k) == First(Nth(k))
<1>1. K \in Nat
  BY SedpAssumption, FS_CardinalityType DEF max_clients
<1>2. \A k \in 1 .. K : Nth(k) \in Clients /\ Rank(Nth(k)) + 1 = k
  BY NthIs
<1>3. Collected(All, got) = FlattenSeq(seqs)
  <2>1. \A k \in 1 .. K : got[InMapOrder(All)[k].ssl] = FullMask(Nth(k))
    BY <1>2, MapIs DEF E
  <2>2. DOMAIN InMapOrder(All) = 1 .. K
    BY MapIs
  <2>3. Collected(All, got) = FlattenSeq([k \in DOMAIN InMapOrder(All) |-> got[InMapOrder(All)[k].ssl]])
    BY DEF Collected
  <2> QED
    BY <2>1, <2>2, <2>3
<1>4. Len(seqs) = K
  BY <1>1
<1>5. CASE K = 0
  <2>1. Clients = {}
    BY <1>5, AllFinite, FS_EmptySet DEF max_clients
  <2>2. DataOf(Clients) = {}
    BY <2>1 DEF DataOf
  <2>3. Total = 0
    BY <2>2, FS_EmptySet DEF Total
  <2>4. FlattenSeq(seqs) = seqs
    BY <1>4, <1>5 DEF FlattenSeq
  <2>5. seqs = TheData
    BY <1>5, <2>3 DEF TheData
  <2> QED
    BY <1>3, <2>4, <2>5
<1>6. CASE K # 0
  <2> DEFINE Flat(f) == f = [i \in 1 .. Len(seqs) |-> IF i = 1 THEN seqs[i] ELSE f[i - 1] \o seqs[i]]
             g == [k \in 1 .. K |-> [n \in 1 .. first(k) + size(k) |-> TheData[n]]]
             flatten == CHOOSE f : Flat(f)
  <2>1. FlattenSeq(seqs) = flatten[Len(seqs)]
    BY <1>4, <1>6 DEF FlattenSeq
  <2>2. \A k \in 1 .. K : /\ seqs[k] = [i \in 1 .. size(k) |-> TheData[first(k) + i]]
                          /\ first(k) \in Nat /\ size(k) \in Nat
    BY <1>2, MaskPart
  <2>3. \A k \in 1 .. K : first(k) = IF k = 1 THEN 0 ELSE first(k - 1) + size(k - 1)
    <3> TAKE k \in 1 .. K
    <3>1. CASE k = 1
      <4>1. Nth(k) \in Clients /\ Rank(Nth(k)) = 0
        BY <1>2, <3>1, RankType
      <4> QED
        BY <3>1, <4>1, FirstNext
    <3>2. CASE k # 1
      <4>1. k - 1 \in 1 .. K
        BY <1>1, <3>2
      <4>2. Nth(k - 1) \in Clients /\ Nth(k) \in Clients
        BY <1>2, <4>1
      <4>3. Rank(Nth(k)) = Rank(Nth(k - 1)) + 1
        BY <1>2, <4>1, <4>2, RankType
      <4> QED
        BY <3>2, <4>2, <4>3, FirstNext
    <3> QED
      BY <3>1, <3>2
  <2>4. Total = first(K) + size(K) /\ K \in 1 .. K
    BY <1>6, LastIs
  <2> HIDE DEF K, seqs, size, first
  <2>5. Flat(g)
    <3>1. \A k \in 1 .. K : g[k] = IF k = 1 THEN seqs[k] ELSE g[k - 1] \o seqs[k]
      <4> TAKE k \in 1 .. K
      <4>1. CASE k = 1
        <5>1. first(k) = 0 /\ size(k) \in Nat
          BY <2>2, <2>3, <4>1
        <5>2. \A n \in 1 .. size(k) : first(k) + n = n
          BY <5>1
        <5>3. first(k) + size(k) = size(k)
          BY <5>1
        <5>4. seqs[k] = [i \in 1 .. size(k) |-> TheData[i]]
          BY <2>2, <5>2
        <5> QED
          BY <4>1, <5>3, <5>4
      <4>2. CASE k # 1
        <5>1. k - 1 \in 1 .. K
          BY <1>1, <4>2
        <5>2. first(k) = first(k - 1) + size(k - 1) /\ first(k) \in Nat /\ size(k) \in Nat
          BY <2>2, <2>3, <4>2
        <5>3. g[k - 1] = [n \in 1 .. first(k) |-> TheData[n]]
          BY <5>1, <5>2
        <5>4. seqs[k] = [i \in 1 .. size(k) |-> TheData[first(k) + i]]
          BY <2>2
        <5>5. [n \in 1 .. first(k) |-> TheData[n]] \o [i \in 1 .. size(k) |-> TheData[first(k) + i]]
                = [n \in 1 .. first(k) + size(k) |-> TheData[n]]
          BY <5>2, ConcatIs, SMTT(30)
        <5>6. g[k - 1] \o seqs[k] = [n \in 1 .. first(k) + size(k) |-> TheData[n]]
          BY <5>3, <5>4, <5>5
        <5> QED
          BY <4>2, <5>6
      <4> QED
        BY <4>1, <4>2
    <3> QED
      BY <1>4, <3>1
  <2> HIDE DEF g
  <2>6. Flat(flatten)
    BY <2>5
  <2> HIDE DEF flatten
  <2>7. \A k \in 1 .. K : flatten[k] = g[k]
    <3> SUFFICES ASSUME \E k \in 1 .. K : flatten[k] # g[k] PROVE FALSE
      OBVIOUS
    <3> DEFINE T == {k \in 1 .. K : flatten[k] # g[k]}
    <3>1. T \in SUBSET Nat /\ T # {}
      BY <1>1
    <3>2. PICK n \in T : \A m \in T : n <= m
      <4> HIDE DEF T
      <4> QED
        BY <3>1, LeastElement
    <3>3. n \in 1 .. K /\ (n # 1 => n - 1 \in 1 .. K /\ n - 1 \notin T)
      BY <1>1, <3>2
    <3>4. flatten[n] = IF n = 1 THEN seqs[n] ELSE flatten[n - 1] \o seqs[n]
      BY <1>4, <2>6, <3>3
    <3>5. g[n] = IF n = 1 THEN seqs[n] ELSE g[n - 1] \o seqs[n]
      BY <1>4, <2>5, <3>3
    <3>6. n # 1 => flatten[n - 1] = g[n - 1]
      BY <3>3
    <3> QED
      BY <3>2, <3>4, <3>5, <3>6
  <2>8. flatten[K] = [n \in 1 .. Total |-> TheData[n]]
    BY <2>4, <2>7 DEF g
  <2>9. [n \in 1 .. Total |-> TheData[n]] = TheData
    BY DEF TheData
  <2> QED
    BY <1>3, <1>4, <2>1, <2>8, <2>9
<1> QED
  BY <1>5, <1>6

-----------------------------------------------------------------------------
(* What a step leaves alone.                                               *)

\* Constants.
LEMMA ServersFacts == N \in Nat /\ N # 0 /\ Servers = 0 .. N - 1 /\ NoThread = N /\ N \notin Servers
  BY SedpAssumption DEF Servers, NoThread

\* A step of one server.
LEMMA SrvStep ==
  ASSUME TypeOK, NEW p \in Servers, NEW t \in ServerType, srv' = [srv EXCEPT ![p] = t]
  PROVE  /\ srv' \in [Servers -> ServerType] /\ srv'[p] = t
         /\ \A q \in Servers : q # p => srv'[q] = srv[q]
  BY DEF TypeOK

\* A step of one client.
LEMMA ClStep ==
  ASSUME TypeOK, NEW c \in Clients, NEW u \in ClientType, cl' = [cl EXCEPT ![c] = u]
  PROVE  /\ cl' \in [Clients -> ClientType] /\ cl'[c] = u
         /\ \A d \in Clients : d # c => cl'[d] = cl[d]
  BY DEF TypeOK

\* A table with a socket for each pair.
SocketOK(f) == DOMAIN f = Servers /\ \A p \in Servers : DOMAIN f[p] = Clients

\* A pair that comes no further and whose sockets stay keeps its invariant.
LEMMA PairFrame ==
  ASSUME NEW p \in Servers, NEW c \in Clients, PairInv(p, c),
         Waits(p, c)' => ~Greeted(p, c),
         Waits(p, c)' \/ Greeted(p, c) => p < cl'[c].connected,
         Registered(p, c)' <=> Registered(p, c), Current(p, c)' <=> Current(p, c), Task(p, c)' = Task(p, c),
         srv'[p].got[c] = srv[p].got[c], down'[p][c] = down[p][c], up'[p][c] = up[p][c],
         Told(c, p)' <=> Told(c, p), Took(c, p)' <=> Took(c, p), Gave(c, p)' <=> Gave(c, p)
  PROVE  PairInv(p, c)'
<1>1. Greeted(p, c)' <=> Greeted(p, c)
  BY DEF Greeted
<1>2. DownOf(p, c)' = DownOf(p, c)
  BY <1>1 DEF DownOf
<1>3. UpOf(p, c)' = UpOf(p, c)
  BY <1>1 DEF UpOf
<1> QED
  BY <1>1, <1>2, <1>3 DEF PairInv

\* A pair of which nothing changes does.
LEMMA PairSame ==
  ASSUME NEW p \in Servers, NEW c \in Clients, PairInv(p, c), srv'[p] = srv[p], cl'[c] = cl[c],
         down'[p][c] = down[p][c], up'[p][c] = up[p][c]
  PROVE  PairInv(p, c)'
<1>1. /\ Waits(p, c)' <=> Waits(p, c)
      /\ Registered(p, c)' <=> Registered(p, c)
      /\ Current(p, c)' <=> Current(p, c)
      /\ Task(p, c)' = Task(p, c)
  BY DEF Waits, Registered, Current, Task
<1>2. /\ Told(c, p)' <=> Told(c, p)
      /\ Took(c, p)' <=> Took(c, p)
      /\ Gave(c, p)' <=> Gave(c, p)
  BY DEF Told, Took, Gave
<1>3. Waits(p, c) => ~Greeted(p, c)
  BY DEF PairInv
<1>4. Waits(p, c) \/ Greeted(p, c) => p < cl[c].connected
  BY DEF PairInv
<1> QED
  BY <1>1, <1>2, <1>3, <1>4, PairFrame

\* A server that takes no step keeps its invariant.
LEMMA ServerSame ==
  ASSUME NEW p \in Servers, ServerInv(p), srv'[p] = srv[p]
  PROVE  ServerInv(p)'
<1>1. \A c \in Clients : Registered(p, c)' <=> Registered(p, c)
  BY DEF Registered
<1>2. {c \in Clients : Registered(p, c)}' = {c \in Clients : Registered(p, c)}
  BY <1>1
<1> QED
  BY <1>2 DEF ServerInv

\* A client that takes no step keeps its invariant.
LEMMA ClientSame ==
  ASSUME NEW c \in Clients, ClientInv(c), cl'[c] = cl[c]
  PROVE  ClientInv(c)'
<1>1. {q \in Servers : Took(c, q)}' = {q \in Servers : Took(c, q)}
  BY DEF Took
<1> QED
  BY <1>1 DEF ClientInv

-----------------------------------------------------------------------------
(* The initial states, and the steps one by one.                           *)

\* It holds when the servers have started and no client has connected.
THEOREM InitInv == Distinct /\ Init => IInv
<1> SUFFICES ASSUME Distinct, Init PROVE IInv
  OBVIOUS
<1> DEFINE s == [state |-> "HANDSHAKE", pending |-> <<>>, accepted |-> 0, handled |-> 0, pc |-> "handle",
                 cur |-> NoClient, clients |-> {}, total_data |-> 0, n |-> 0, tuples |-> 0, task |-> None,
                 got |-> [c \in Clients |-> <<>>], data |-> <<>>]
           empty(c) == [i \in 1 .. Dataset(c) |-> {}]
           u(c) == [phase |-> "CONNECT", connected |-> 0, mtx |-> NoThread, todo |-> {}, triples |-> empty(c)]
<1>1. srv = [p \in Servers |-> s] /\ cl = [c \in Clients |-> u(c)]
  BY DEF Init
<1>2. \A c \in Clients : empty(c) = Shares(c, {})
  BY DEF Shares
<1>3. s \in ServerType
  <2>1. <<>> \in Seq(Clients)
    OBVIOUS
  <2>2. None \in [Clients -> {"none", "send", "receive", "done"}]
    BY DEF None
  <2>3. [c \in Clients |-> <<>>] \in [Clients -> Values]
    BY DEF Values
  <2> QED
    BY <2>1, <2>2, <2>3 DEF ServerType
<1>4. \A c \in Clients : u(c) \in ClientType
  <2> TAKE c \in Clients
  <2>1. empty(c) \in {Shares(d, R) : d \in Clients, R \in SUBSET Servers}
    BY <1>2
  <2>2. 0 \in 0 .. N /\ NoThread \in 0 .. N
    BY ServersFacts
  <2> HIDE DEF empty
  <2> QED
    BY <2>1, <2>2 DEF ClientType
<1>5. TypeOK
  <2>1. srv \in [Servers -> ServerType] /\ cl \in [Clients -> ClientType]
    BY <1>1, <1>3, <1>4
  <2> QED
    BY <2>1 DEF Init, TypeOK
<1>6. \A c \in Clients : cl[c].phase = "CONNECT" /\ cl[c].todo = {} /\ cl[c].mtx = NoThread /\ cl[c].triples = Shares(c, {})
  BY <1>1, <1>2
<1>7. \A c \in Clients : \A p \in Servers : ~Told(c, p) /\ ~Took(c, p) /\ ~Gave(c, p)
  BY <1>6 DEF Told, Took, Gave
<1>8. \A c \in Clients : ClientInv(c)
  BY <1>6, <1>7 DEF ClientInv
<1>9. \A p \in Servers : srv[p] = s
  BY <1>1
<1>10. \A p \in Servers : \A c \in Clients : ~Waits(p, c) /\ ~Current(p, c) /\ ~Registered(p, c) /\ Task(p, c) = "none"
  BY <1>9 DEF Waits, Current, Registered, Task, None
<1>11. \A p \in Servers : ServerInv(p)
  <2> TAKE p \in Servers
  <2>1. Cardinality({}) = 0
    BY FS_EmptySet
  <2>2. {c \in Clients : Registered(p, c)} = {}
    BY <1>10
  <2>3. DataOf({}) = {}
    BY DEF DataOf
  <2>4. /\ srv[p].pending = <<>> /\ srv[p].handled = 0 /\ srv[p].clients = {} /\ srv[p].total_data = 0
        /\ srv[p].pc = "handle" /\ srv[p].state = "HANDSHAKE"
    BY <1>9
  <2>5. \A c \in Clients : srv[p].task[c] = "none"
    BY <1>10 DEF Task
  <2>6. \A i, j \in 1 .. Len(srv[p].pending) : srv[p].pending[i] = srv[p].pending[j] => i = j
    BY <2>4
  <2>7. srv[p].total_data = Cardinality(DataOf({c \in Clients : Registered(p, c)}))
    BY <2>1, <2>2, <2>3, <2>4
  <2> QED
    BY <2>1, <2>4, <2>5, <2>6, <2>7 DEF ServerInv, Early
<1>12. \A p \in Servers : ProgramInv(p)
  BY <1>9 DEF Init, ProgramInv
<1>13. \A p \in Servers : \A c \in Clients : PairInv(p, c)
  BY <1>7, <1>10 DEF PairInv, Greeted, DownOf, UpOf, Init
<1> QED
  BY <1>5, <1>8, <1>11, <1>12, <1>13 DEF IInv

\* A client stays one when it sets its phase, its mutex and what is to do.
LEMMA ClientUpdate ==
  ASSUME NEW s \in ClientType, NEW x \in SUBSET Servers
  PROVE  /\ \A m \in 0 .. N : [s EXCEPT !.mtx = m, !.todo = x] \in ClientType
         /\ \A f \in {"CONNECT", "HANDSHAKE", "RANDOMNESS", "DATA", "FINISHED"} :
              [s EXCEPT !.phase = f, !.todo = x] \in ClientType
<1> DEFINE T == {Shares(c, R) : c \in Clients, R \in SUBSET Servers}
<1>1. ClientType = [phase : {"CONNECT", "HANDSHAKE", "RANDOMNESS", "DATA", "FINISHED"}, connected : 0 .. N,
                    mtx : 0 .. N, todo : SUBSET Servers, triples : T]
  BY DEF ClientType
<1> HIDE DEF T
<1> QED
  BY <1>1

\* Client::connect_to_players, and the accept thread.
LEMMA ConnectInv ==
  ASSUME IInv, NEW c \in Clients, Connect(c)
  PROVE  IInv'
<1> DEFINE p == cl[c].connected
           u == [cl[c] EXCEPT !.connected = @ + 1]
           t == [srv[p] EXCEPT !.accepted = @ + 1, !.pending = Append(@, c)]
<1>1. TypeOK
  BY DEF IInv
<1>2. cl[c] \in ClientType
  BY <1>1 DEF TypeOK
<1>3. p \in 0 .. N
  BY <1>2 DEF ClientType
<1>4. p \in Servers /\ cl[c].phase = "CONNECT" /\ p + 1 \in 0 .. N
  BY <1>3, ServersFacts DEF Connect
<1>5. srv[p] \in ServerType
  BY <1>1, <1>4 DEF TypeOK
<1>6. u \in ClientType
  BY <1>2, <1>4 DEF ClientType
<1>7. t \in ServerType
  <2>1. srv[p].pending \in Seq(Clients) /\ srv[p].accepted \in Nat
    BY <1>5 DEF ServerType
  <2>2. Append(srv[p].pending, c) \in Seq(Clients) /\ srv[p].accepted + 1 \in Nat
    BY <2>1
  <2> QED
    BY <1>5, <2>2 DEF ServerType
<1>8. srv' = [srv EXCEPT ![p] = t] /\ cl' = [cl EXCEPT ![c] = u]
  <2>1. srv' = [srv EXCEPT ![p].accepted = @ + 1, ![p].pending = Append(@, c)]
    BY DEF Connect
  <2>2. cl' = [cl EXCEPT ![c].connected = @ + 1]
    BY DEF Connect
  <2> QED
    BY <1>1, <1>4, <2>1, <2>2 DEF TypeOK
<1>9. UNCHANGED <<mpc, down, up>>
  BY DEF Connect
<1> HIDE DEF p
<1>10. /\ t.pending = Append(srv[p].pending, c)
       /\ t.state = srv[p].state /\ t.handled = srv[p].handled /\ t.pc = srv[p].pc /\ t.cur = srv[p].cur
       /\ t.clients = srv[p].clients /\ t.total_data = srv[p].total_data /\ t.n = srv[p].n
       /\ t.tuples = srv[p].tuples /\ t.task = srv[p].task /\ t.got = srv[p].got /\ t.data = srv[p].data
  BY <1>5 DEF ServerType
<1>11. /\ u.connected = p + 1
       /\ u.phase = cl[c].phase /\ u.mtx = cl[c].mtx /\ u.todo = cl[c].todo /\ u.triples = cl[c].triples
  BY <1>2 DEF ClientType, p
<1> HIDE DEF t, u
<1>12. /\ srv' \in [Servers -> ServerType] /\ srv'[p] = t
       /\ \A q \in Servers : q # p => srv'[q] = srv[q]
  BY <1>1, <1>4, <1>7, <1>8, SrvStep
<1>13. /\ cl' \in [Clients -> ClientType] /\ cl'[c] = u
       /\ \A d \in Clients : d # c => cl'[d] = cl[d]
  BY <1>1, <1>6, <1>8, ClStep
<1>14. TypeOK'
  BY <1>1, <1>9, <1>12, <1>13 DEF TypeOK
<1>15. \A d \in Clients : cl'[d].phase = cl[d].phase /\ cl'[d].mtx = cl[d].mtx /\ cl'[d].todo = cl[d].todo
                              /\ cl'[d].triples = cl[d].triples
  BY <1>11, <1>13
<1>16. \A d \in Clients : \A q \in Servers :
         /\ Told(d, q)' <=> Told(d, q)
         /\ Took(d, q)' <=> Took(d, q)
         /\ Gave(d, q)' <=> Gave(d, q)
  BY <1>15 DEF Told, Took, Gave
<1>17. \A d \in Clients : ClientInv(d)'
  <2> TAKE d \in Clients
  <2>1. {q \in Servers : Took(d, q)}' = {q \in Servers : Took(d, q)}
    BY <1>16
  <2>2. ClientInv(d)
    BY DEF IInv
  <2> QED
    BY <1>15, <2>1, <2>2 DEF ClientInv
<1>18. \A q \in Servers : /\ srv'[q].state = srv[q].state
                          /\ srv'[q].handled = srv[q].handled /\ srv'[q].pc = srv[q].pc
                          /\ srv'[q].cur = srv[q].cur /\ srv'[q].clients = srv[q].clients
                          /\ srv'[q].total_data = srv[q].total_data /\ srv'[q].n = srv[q].n
                          /\ srv'[q].tuples = srv[q].tuples
                          /\ srv'[q].task = srv[q].task /\ srv'[q].got = srv[q].got /\ srv'[q].data = srv[q].data
  BY <1>10, <1>12
<1>19. \A q \in Servers : \A d \in Clients : /\ Registered(q, d)' <=> Registered(q, d)
                                             /\ Current(q, d)' <=> Current(q, d)
                                             /\ Task(q, d)' = Task(q, d)
  BY <1>18 DEF Registered, Current, Task
<1>20. \A q \in Servers : \A d \in Clients : Waits(q, d)' <=> Waits(q, d) \/ (q = p /\ d = c)
  <2> TAKE q \in Servers
  <2> TAKE d \in Clients
  <2>1. CASE q # p
    BY <1>12, <2>1 DEF Waits
  <2>2. CASE q = p
    <3>1. srv[p].pending \in Seq(Clients)
      BY <1>5 DEF ServerType
    <3>2. srv'[p].pending = Append(srv[p].pending, c)
      BY <1>10, <1>12
    <3> QED
      BY <2>2, <3>1, <3>2, SMTT(30) DEF Waits
  <2> QED
    BY <2>1, <2>2
<1>21. ~Waits(p, c) /\ ~Greeted(p, c)
  <2>1. PairInv(p, c)
    BY <1>4 DEF IInv
  <2>2. ~(p < cl[c].connected)
    BY <1>3, ServersFacts DEF p
  <2> QED
    BY <2>1, <2>2 DEF PairInv
<1>22. \A q \in Servers : \A d \in Clients : PairInv(q, d)'
  <2> TAKE q \in Servers
  <2> TAKE d \in Clients
  <2>1. PairInv(q, d)
    BY DEF IInv
  <2>2. Waits(q, d)' => ~Greeted(q, d)
    BY <1>20, <1>21, <2>1 DEF PairInv
  <2>3. Waits(q, d)' \/ Greeted(q, d) => q < cl'[d].connected
    <3>1. cl[d].connected \in Nat /\ q \in Nat
      BY <1>1, ServersFacts DEF TypeOK, ClientType
    <3>2. cl'[d].connected \in Nat /\ cl[d].connected <= cl'[d].connected
      BY <1>11, <1>13, <3>1 DEF p
    <3>3. q = p /\ d = c => q < cl'[d].connected
      BY <1>11, <1>13, <3>1
    <3>4. Waits(q, d) \/ Greeted(q, d) => q < cl[d].connected
      BY <2>1 DEF PairInv
    <3> QED
      BY <1>20, <3>1, <3>2, <3>3, <3>4
  <2> QED
    BY <1>9, <1>16, <1>18, <1>19, <2>1, <2>2, <2>3, PairFrame
<1>23. \A q \in Servers : ServerInv(q)'
  <2> TAKE q \in Servers
  <2>1. ServerInv(q)
    BY DEF IInv
  <2>2. CASE q # p
    BY <1>12, <2>1, <2>2, ServerSame
  <2>3. CASE q = p
    <3>1. srv[q].pending \in Seq(Clients)
      BY <1>5, <2>3 DEF ServerType
    <3>2. srv'[q].pending = Append(srv[q].pending, c)
      BY <1>10, <1>12, <2>3
    <3>3. \A i, j \in 1 .. Len(srv'[q].pending) : srv'[q].pending[i] = srv'[q].pending[j] => i = j
      <4>1. \A i \in 1 .. Len(srv[q].pending) : srv[q].pending[i] # c
        BY <1>21, <2>3 DEF Waits
      <4>2. \A i, j \in 1 .. Len(srv[q].pending) : srv[q].pending[i] = srv[q].pending[j] => i = j
        BY <2>1 DEF ServerInv
      <4> QED
        BY <3>1, <3>2, <4>1, <4>2
    <3>4. {d \in Clients : Registered(q, d)}' = {d \in Clients : Registered(q, d)}
      BY <1>19
    <3> QED
      BY <1>18, <2>1, <3>3, <3>4 DEF ServerInv
  <2> QED
    BY <2>2, <2>3
<1>24. \A q \in Servers : ProgramInv(q)'
  BY <1>9, <1>18 DEF IInv, ProgramInv
<1> QED
  BY <1>14, <1>17, <1>22, <1>23, <1>24 DEF IInv

\* A step of a client and its sockets disturbs no other client and no server.
LEMMA ClientOnly ==
  ASSUME IInv, NEW c \in Clients, NEW u \in ClientType, cl' = [cl EXCEPT ![c] = u],
         UNCHANGED <<srv, mpc>>, SocketOK(down'), SocketOK(up'),
         \A q \in Servers : \A d \in Clients : d # c => down'[q][d] = down[q][d] /\ up'[q][d] = up[q][d],
         ClientInv(c)', \A q \in Servers : PairInv(q, c)'
  PROVE  IInv'
<1>1. TypeOK
  BY DEF IInv
<1>2. /\ cl' \in [Clients -> ClientType] /\ cl'[c] = u
      /\ \A d \in Clients : d # c => cl'[d] = cl[d]
  BY <1>1, ClStep
<1>3. TypeOK'
  BY <1>1, <1>2 DEF TypeOK, SocketOK
<1>4. \A d \in Clients : ClientInv(d)'
  <2> TAKE d \in Clients
  <2>1. ClientInv(d)
    BY DEF IInv
  <2> QED
    BY <1>2, <2>1, ClientSame
<1>5. \A q \in Servers : ServerInv(q)' /\ ProgramInv(q)'
  <2> TAKE q \in Servers
  <2>1. ServerInv(q)'
    BY ServerSame DEF IInv
  <2>2. ProgramInv(q)'
    BY DEF IInv, ProgramInv
  <2> QED
    BY <2>1, <2>2
<1>6. \A q \in Servers : \A d \in Clients : PairInv(q, d)'
  <2> TAKE q \in Servers
  <2> TAKE d \in Clients
  <2>1. CASE d = c
    BY <2>1
  <2>2. CASE d # c
    <3>1. PairInv(q, d) /\ cl'[d] = cl[d] /\ srv'[q] = srv[q] /\ down'[q][d] = down[q][d] /\ up'[q][d] = up[q][d]
      BY <1>2, <2>2 DEF IInv
    <3> QED
      BY <3>1, PairSame
  <2> QED
    BY <2>1, <2>2
<1> QED
  BY <1>3, <1>4, <1>5, <1>6 DEF IInv

\* A step of a client keeps the pairs it does not bring further.
LEMMA PairClient ==
  ASSUME IInv, NEW p \in Servers, NEW c \in Clients, UNCHANGED srv,
         cl'[c].connected = cl[c].connected, down'[p][c] = down[p][c], up'[p][c] = up[p][c],
         Told(c, p)' <=> Told(c, p), Took(c, p)' <=> Took(c, p), Gave(c, p)' <=> Gave(c, p)
  PROVE  PairInv(p, c)'
<1>1. /\ Waits(p, c)' <=> Waits(p, c)
      /\ Registered(p, c)' <=> Registered(p, c)
      /\ Current(p, c)' <=> Current(p, c)
      /\ Task(p, c)' = Task(p, c)
  BY DEF Waits, Registered, Current, Task
<1>2. PairInv(p, c)
  BY DEF IInv
<1>3. Waits(p, c) => ~Greeted(p, c)
  BY <1>2 DEF PairInv
<1>4. Waits(p, c) \/ Greeted(p, c) => p < cl[c].connected
  BY <1>2 DEF PairInv
<1> QED
  BY <1>1, <1>2, <1>3, <1>4, PairFrame

\* Client::run_protocol goes to the next phase.
LEMMA NextPhaseInv ==
  ASSUME IInv, NEW c \in Clients, NextPhase(c)
  PROVE  IInv'
<1> DEFINE u == [cl[c] EXCEPT !.phase = Phase[@], !.todo = IF cl[c].phase = "DATA" THEN {} ELSE Servers]
<1>1. TypeOK /\ cl[c] \in ClientType
  BY DEF IInv, TypeOK
<1>2. cl[c].phase \in {"CONNECT", "HANDSHAKE", "RANDOMNESS", "DATA"} /\ cl[c].todo = {}
  BY <1>1 DEF NextPhase, ClientType
<1>3. /\ Phase["CONNECT"] = "HANDSHAKE" /\ Phase["HANDSHAKE"] = "RANDOMNESS"
      /\ Phase["RANDOMNESS"] = "DATA" /\ Phase["DATA"] = "FINISHED"
  BY DEF Phase
<1>4. u \in ClientType
  <2>1. Phase[cl[c].phase] \in {"CONNECT", "HANDSHAKE", "RANDOMNESS", "DATA", "FINISHED"}
    BY <1>2, <1>3
  <2>2. (IF cl[c].phase = "DATA" THEN {} ELSE Servers) \in SUBSET Servers
    OBVIOUS
  <2> QED
    BY <1>1, <2>1, <2>2, ClientUpdate
<1>5. cl' = [cl EXCEPT ![c] = u] /\ UNCHANGED <<srv, mpc, down, up>>
  <2>1. cl' = [cl EXCEPT ![c].phase = Phase[@], ![c].todo = IF cl[c].phase = "DATA" THEN {} ELSE Servers]
    BY DEF NextPhase
  <2>2. UNCHANGED <<srv, mpc, down, up>>
    BY DEF NextPhase
  <2> QED
    BY <1>1, <2>1, <2>2 DEF TypeOK
<1>6. /\ u.phase = Phase[cl[c].phase] /\ u.todo = (IF cl[c].phase = "DATA" THEN {} ELSE Servers)
      /\ u.connected = cl[c].connected /\ u.mtx = cl[c].mtx /\ u.triples = cl[c].triples
  BY <1>1 DEF ClientType
<1> HIDE DEF u
<1>7. cl'[c] = u
  BY <1>1, <1>4, <1>5, ClStep
<1>8. \A q \in Servers : /\ Told(c, q)' <=> Told(c, q)
                         /\ Took(c, q)' <=> Took(c, q)
                         /\ Gave(c, q)' <=> Gave(c, q)
  BY <1>2, <1>3, <1>6, <1>7 DEF Told, Took, Gave
<1>9. ClientInv(c)'
  <2>1. {q \in Servers : Took(c, q)}' = {q \in Servers : Took(c, q)}
    BY <1>8
  <2>2. ClientInv(c)
    BY DEF IInv
  <2>3. cl[c].mtx = NoThread
    BY <1>2, <2>2 DEF ClientInv
  <2> QED
    BY <1>6, <1>7, <2>1, <2>2, <2>3 DEF ClientInv
<1>10. \A q \in Servers : PairInv(q, c)'
  <2> TAKE q \in Servers
  <2> QED
    BY <1>5, <1>6, <1>7, <1>8, PairClient
<1>11. SocketOK(down') /\ SocketOK(up')
  BY <1>1, <1>5 DEF TypeOK, SocketOK
<1> QED
  BY <1>4, <1>5, <1>9, <1>10, <1>11, ClientOnly

\* A thread takes the mutex of its client.
LEMMA LockInv ==
  ASSUME IInv, NEW c \in Clients, NEW p \in Servers, Lock(c, p)
  PROVE  IInv'
<1> DEFINE u == [cl[c] EXCEPT !.mtx = p]
<1>1. TypeOK /\ cl[c] \in ClientType /\ p \in 0 .. N
  BY ServersFacts DEF IInv, TypeOK
<1>2. u \in ClientType
  BY <1>1 DEF ClientType
<1>3. cl' = [cl EXCEPT ![c] = u] /\ UNCHANGED <<srv, mpc, down, up>>
  BY <1>1 DEF Lock, TypeOK
<1>4. /\ u.mtx = p
      /\ u.phase = cl[c].phase /\ u.connected = cl[c].connected /\ u.todo = cl[c].todo /\ u.triples = cl[c].triples
  BY <1>1 DEF ClientType
<1> HIDE DEF u
<1>5. cl'[c] = u
  BY <1>1, <1>2, <1>3, ClStep
<1>6. \A q \in Servers : /\ Told(c, q)' <=> Told(c, q)
                         /\ Took(c, q)' <=> Took(c, q)
                         /\ Gave(c, q)' <=> Gave(c, q)
  BY <1>4, <1>5 DEF Told, Took, Gave
<1>7. ClientInv(c)'
  <2>1. {q \in Servers : Took(c, q)}' = {q \in Servers : Took(c, q)}
    BY <1>6
  <2>2. ClientInv(c) /\ p \in cl[c].todo
    BY DEF IInv, Lock
  <2> QED
    BY <1>4, <1>5, <2>1, <2>2 DEF ClientInv
<1>8. \A q \in Servers : PairInv(q, c)'
  <2> TAKE q \in Servers
  <2> QED
    BY <1>3, <1>4, <1>5, <1>6, PairClient
<1>9. SocketOK(down') /\ SocketOK(up')
  BY <1>1, <1>3 DEF TypeOK, SocketOK
<1> QED
  BY <1>2, <1>3, <1>7, <1>8, <1>9, ClientOnly

\* What the end of a thread of a client leaves.
LEMMA UnlockFacts ==
  ASSUME IInv, NEW c \in Clients, NEW p \in Servers, cl[c].mtx = p
  PROVE  /\ p \in cl[c].todo
         /\ Unlock(cl[c], p) \in ClientType
         /\ Unlock(cl[c], p).mtx = NoThread
         /\ Unlock(cl[c], p).todo = cl[c].todo \ {p}
         /\ Unlock(cl[c], p).phase = cl[c].phase
         /\ Unlock(cl[c], p).connected = cl[c].connected
         /\ Unlock(cl[c], p).triples = cl[c].triples
<1>1. cl[c] \in ClientType
  BY DEF IInv, TypeOK
<1>2. NoThread \in 0 .. N /\ p # NoThread
  BY ServersFacts
<1>3. ClientInv(c)
  BY DEF IInv
<1>4. p \in cl[c].todo
  BY <1>2, <1>3 DEF ClientInv
<1>5. Unlock(cl[c], p) = [cl[c] EXCEPT !.mtx = NoThread, !.todo = cl[c].todo \ {p}]
  BY DEF Unlock
<1>6. cl[c].todo \ {p} \in SUBSET Servers
  BY <1>1 DEF ClientType
<1>7. [cl[c] EXCEPT !.mtx = NoThread, !.todo = cl[c].todo \ {p}] \in ClientType
  BY <1>1, <1>2, <1>6, ClientUpdate
<1>8. Unlock(cl[c], p).mtx = NoThread /\ Unlock(cl[c], p).todo = cl[c].todo \ {p}
  BY <1>1, <1>5 DEF ClientType
<1>9. /\ Unlock(cl[c], p).phase = cl[c].phase
      /\ Unlock(cl[c], p).connected = cl[c].connected
      /\ Unlock(cl[c], p).triples = cl[c].triples
  BY <1>1, <1>5 DEF ClientType
<1> QED
  BY <1>4, <1>5, <1>7, <1>8, <1>9

\* Client::handshake.
LEMMA HandshakeInv ==
  ASSUME IInv, NEW c \in Clients, NEW p \in Servers, handshake(c, p)
  PROVE  IInv'
<1> DEFINE u == Unlock(cl[c], p)
           v == After(down[p][c], 1)
           w == Send(up[p][c], <<Id(c), Dataset(c)>>)
<1>1. TypeOK /\ cl[c].phase = "HANDSHAKE" /\ cl[c].mtx = p
  BY DEF IInv, handshake
<1>2. /\ p \in cl[c].todo /\ u \in ClientType /\ u.mtx = NoThread /\ u.todo = cl[c].todo \ {p}
      /\ u.phase = cl[c].phase /\ u.connected = cl[c].connected /\ u.triples = cl[c].triples
  BY <1>1, UnlockFacts
<1>3. /\ cl' = [cl EXCEPT ![c] = u] /\ down' = [down EXCEPT ![p][c] = v] /\ up' = [up EXCEPT ![p][c] = w]
      /\ UNCHANGED <<srv, mpc>>
  BY DEF handshake
<1>4. PairInv(p, c) /\ ClientInv(c)
  BY DEF IInv
<1>5. ~Told(c, p) /\ ~Took(c, p) /\ ~Gave(c, p)
  BY <1>1, <1>2 DEF Told, Took, Gave
<1>6. down[p][c] # <<>> /\ Len(down[p][c]) >= 1
  <2>1. Len(down[p][c]) >= 1
    BY DEF handshake, Has
  <2> QED
    BY <2>1
<1>7. Greeted(p, c) /\ ~Registered(p, c) /\ Task(p, c) = "none" /\ down[p][c] = <<<<p, 0>>>> /\ up[p][c] = <<>>
  <2>1. ~Registered(p, c) /\ Task(p, c) = "none"
    BY <1>4, <1>5 DEF PairInv
  <2>2. Greeted(p, c)
    BY <1>4, <1>6, <2>1 DEF PairInv, DownOf
  <2> QED
    BY <1>4, <1>5, <2>1, <2>2 DEF PairInv, DownOf, UpOf
<1>8. v = <<>> /\ w = <<Id(c), Dataset(c)>>
  BY <1>7 DEF After, Send
<1> HIDE DEF u, v, w
<1>9. /\ cl' \in [Clients -> ClientType] /\ cl'[c] = u
  BY <1>1, <1>2, <1>3, ClStep
<1>10. /\ SocketOK(down') /\ down'[p][c] = v
       /\ \A q \in Servers : \A d \in Clients : <<q, d>> # <<p, c>> => down'[q][d] = down[q][d]
  <2>1. down' = [down EXCEPT ![p][c] = v]
    BY <1>3
  <2> QED
    BY <1>1, <2>1 DEF TypeOK, SocketOK
<1>11. /\ SocketOK(up') /\ up'[p][c] = w
       /\ \A q \in Servers : \A d \in Clients : <<q, d>> # <<p, c>> => up'[q][d] = up[q][d]
  <2>1. up' = [up EXCEPT ![p][c] = w]
    BY <1>3
  <2> QED
    BY <1>1, <2>1 DEF TypeOK, SocketOK
<1>12. \A q \in Servers : /\ Told(c, q)' <=> Told(c, q) \/ q = p
                          /\ Took(c, q)' <=> Took(c, q)
                          /\ Gave(c, q)' <=> Gave(c, q)
  BY <1>1, <1>2, <1>9 DEF Told, Took, Gave
<1>13. ClientInv(c)'
  <2>1. {q \in Servers : Took(c, q)}' = {q \in Servers : Took(c, q)}
    BY <1>12
  <2> QED
    BY <1>2, <1>4, <1>9, <2>1 DEF ClientInv
<1>14. \A q \in Servers : PairInv(q, c)'
  <2> TAKE q \in Servers
  <2>1. CASE q # p
    <3>1. down'[q][c] = down[q][c] /\ up'[q][c] = up[q][c]
      BY <1>10, <1>11, <2>1
    <3> QED
      BY <1>2, <1>3, <1>9, <1>12, <2>1, <3>1, PairClient
  <2>2. CASE q = p
    <3>1. /\ Waits(p, c)' <=> Waits(p, c)
          /\ Registered(p, c)' <=> Registered(p, c)
          /\ Current(p, c)' <=> Current(p, c)
          /\ Task(p, c)' = Task(p, c)
      BY <1>3 DEF Waits, Registered, Current, Task
    <3>2. Greeted(p, c)' /\ ~Registered(p, c)' /\ Task(p, c)' = "none" /\ Told(c, p)' /\ ~Took(c, p)' /\ ~Gave(c, p)'
      BY <1>5, <1>7, <1>12, <3>1 DEF Greeted
    <3>3. down'[p][c] = DownOf(p, c)' /\ up'[p][c] = UpOf(p, c)'
      BY <1>8, <1>10, <1>11, <3>2 DEF DownOf, UpOf
    <3>4. ~Waits(p, c) /\ p < cl'[c].connected
      BY <1>2, <1>4, <1>7, <1>9 DEF PairInv
    <3> QED
      BY <2>2, <3>1, <3>2, <3>3, <3>4 DEF PairInv
  <2> QED
    BY <2>1, <2>2
<1>15. \A q \in Servers : \A d \in Clients : d # c => down'[q][d] = down[q][d] /\ up'[q][d] = up[q][d]
  BY <1>10, <1>11
<1> QED
  BY <1>2, <1>3, <1>10, <1>11, <1>13, <1>14, <1>15, ClientOnly

\* The shares p gives to c.
Tuples(p, c) == [i \in 1 .. Dataset(c) |-> <<p, Slot(c, i)>>]

\* What a client without data is sent and sends is nothing.
LEMMA EmptyParts ==
  ASSUME NEW p \in Servers, NEW c \in Clients
  PROVE  /\ Dataset(c) \in Nat
         /\ Tuples(p, c) \in Seq(Nat \X Int) /\ Len(Tuples(p, c)) = Dataset(c)
         /\ Len(FullMask(c)) = Dataset(c)
         /\ Dataset(c) = 0 => Tuples(p, c) = <<>> /\ FullMask(c) = <<>>
<1>1. Dataset(c) \in Nat
  BY SedpAssumption
<1>2. \A i \in 1 .. Dataset(c) : <<p, Slot(c, i)>> \in Nat \X Int
  BY FirstType, ServersFacts DEF Slot
<1>3. Tuples(p, c) \in Seq(Nat \X Int) /\ Len(Tuples(p, c)) = Dataset(c)
  BY <1>1, <1>2 DEF Tuples
<1>4. Len(FullMask(c)) = Dataset(c)
  BY <1>1 DEF FullMask
<1>5. ASSUME Dataset(c) = 0 PROVE Tuples(p, c) = <<>> /\ FullMask(c) = <<>>
  BY <1>5 DEF Tuples, FullMask
<1> QED
  BY <1>1, <1>3, <1>4, <1>5

\* Client::get_random_tuples.
LEMMA GetTuplesInv ==
  ASSUME IInv, NEW c \in Clients, NEW p \in Servers, get_random_tuples(c, p)
  PROVE  IInv'
<1> DEFINE R == {q \in Servers : Took(c, q)}
           more == Add(cl[c].triples, down[p][c])
           u == [Unlock(cl[c], p) EXCEPT !.triples = more]
           v == After(down[p][c], Dataset(c))
<1>1. TypeOK /\ cl[c].phase = "RANDOMNESS" /\ cl[c].mtx = p
  BY DEF IInv, get_random_tuples
<1>2. /\ p \in cl[c].todo
      /\ Unlock(cl[c], p) \in ClientType
      /\ Unlock(cl[c], p).mtx = NoThread
      /\ Unlock(cl[c], p).todo = cl[c].todo \ {p}
      /\ Unlock(cl[c], p).phase = cl[c].phase
      /\ Unlock(cl[c], p).connected = cl[c].connected
  BY <1>1, UnlockFacts
<1>3. PairInv(p, c) /\ ClientInv(c)
  BY DEF IInv
<1>4. Told(c, p) /\ ~Took(c, p) /\ ~Gave(c, p)
  BY <1>1, <1>2 DEF Told, Took, Gave
<1>5. Dataset(c) \in Nat /\ Len(down[p][c]) >= Dataset(c)
  BY SedpAssumption DEF get_random_tuples, Has
<1>6. down[p][c] = IF Task(p, c) \in {"receive", "done"} THEN Tuples(p, c) ELSE <<>>
  BY <1>3, <1>4 DEF PairInv, DownOf, Tuples
<1>7. Dataset(c) # 0 => Task(p, c) \in {"receive", "done"}
  BY <1>5, <1>6
<1>8. down[p][c] = Tuples(p, c)
  BY <1>6, <1>7, EmptyParts
<1>9. v = <<>>
  <2>1. Tuples(p, c) \in Seq(Nat \X Int) /\ Len(Tuples(p, c)) = Dataset(c)
    BY EmptyParts
  <2> QED
    BY <1>5, <1>8, <2>1 DEF After
<1>10. more = Shares(c, R \cup {p})
  <2>1. cl[c].triples = Shares(c, R)
    BY <1>3 DEF ClientInv
  <2>2. \A i \in 1 .. Dataset(c) : Tuples(p, c)[i] = <<p, Slot(c, i)>>
    BY DEF Tuples
  <2> HIDE DEF R
  <2>3. \A i \in 1 .. Dataset(c) :
          {<<q, Slot(c, i)>> : q \in R} \cup {<<p, Slot(c, i)>>} = {<<q, Slot(c, i)>> : q \in R \cup {p}}
    OBVIOUS
  <2>4. more = [i \in 1 .. Dataset(c) |-> {<<q, Slot(c, i)>> : q \in R} \cup {Tuples(p, c)[i]}]
    BY <1>8, <2>1 DEF Add, Shares
  <2> QED
    BY <2>2, <2>3, <2>4 DEF Shares
<1>11. u \in ClientType
  <2>1. more \in {Shares(d, S) : d \in Clients, S \in SUBSET Servers}
    BY <1>10
  <2> HIDE DEF more
  <2> QED
    BY <1>2, <2>1 DEF ClientType
<1>12. /\ cl' = [cl EXCEPT ![c] = u] /\ down' = [down EXCEPT ![p][c] = v]
       /\ UNCHANGED <<srv, mpc, up>>
  <2>1. down' = [down EXCEPT ![p][c] = v]
    BY DEF get_random_tuples
  <2>2. UNCHANGED <<srv, mpc, up>>
    BY DEF get_random_tuples
  <2>3. cl' = [cl EXCEPT ![c] = u]
    BY DEF get_random_tuples
  <2> QED
    BY <2>1, <2>2, <2>3
<1> HIDE DEF more
<1>13. /\ u.mtx = NoThread /\ u.todo = cl[c].todo \ {p} /\ u.phase = cl[c].phase
       /\ u.connected = cl[c].connected /\ u.triples = more
  BY <1>2 DEF ClientType
<1> HIDE DEF u, v
<1>14. cl'[c] = u
  BY <1>1, <1>11, <1>12, ClStep
<1>15. /\ SocketOK(down') /\ down'[p][c] = v
       /\ \A q \in Servers : \A d \in Clients : <<q, d>> # <<p, c>> => down'[q][d] = down[q][d]
  BY <1>1, <1>12 DEF TypeOK, SocketOK
<1>16. SocketOK(up')
  BY <1>1, <1>12 DEF TypeOK, SocketOK
<1>17. \A q \in Servers : /\ Told(c, q)' <=> Told(c, q)
                          /\ Took(c, q)' <=> Took(c, q) \/ q = p
                          /\ Gave(c, q)' <=> Gave(c, q)
  BY <1>1, <1>2, <1>13, <1>14 DEF Told, Took, Gave
<1>18. ClientInv(c)'
  <2>1. {q \in Servers : Took(c, q)}' = R \cup {p}
    BY <1>17
  <2>2. cl'[c].triples = Shares(c, {q \in Servers : Took(c, q)}')
    BY <1>10, <1>13, <1>14, <2>1
  <2>3. cl'[c].mtx = NoThread
    BY <1>13, <1>14
  <2> QED
    BY <2>2, <2>3 DEF ClientInv
<1>19. \A q \in Servers : PairInv(q, c)'
  <2> TAKE q \in Servers
  <2>1. CASE q # p
    <3>1. down'[q][c] = down[q][c] /\ up'[q][c] = up[q][c]
      BY <1>12, <1>15, <2>1
    <3> QED
      BY <1>12, <1>13, <1>14, <1>17, <2>1, <3>1, PairClient
  <2>2. CASE q = p
    <3>1. /\ Waits(p, c)' <=> Waits(p, c)
          /\ Registered(p, c)' <=> Registered(p, c)
          /\ Current(p, c)' <=> Current(p, c)
          /\ Task(p, c)' = Task(p, c)
      BY <1>12 DEF Waits, Registered, Current, Task
    <3>2. Greeted(p, c)' <=> Greeted(p, c)
      BY <3>1 DEF Greeted
    <3>3. Told(c, p)' /\ Took(c, p)' /\ ~Gave(c, p)'
      BY <1>4, <1>17
    <3>4. down'[p][c] = DownOf(p, c)'
      BY <1>9, <1>15, <3>3 DEF DownOf
    <3>5. up'[p][c] = UpOf(p, c)'
      <4>1. UpOf(p, c)' = UpOf(p, c)
        BY <1>4, <3>1, <3>3 DEF UpOf
      <4> QED
        BY <1>3, <1>12, <4>1 DEF PairInv
    <3>6. /\ srv'[p].got[c] = srv[p].got[c]
          /\ cl'[c].connected = cl[c].connected
      BY <1>12, <1>13, <1>14
    <3> QED
      BY <1>3, <1>4, <1>7, <2>2, <3>1, <3>2, <3>3, <3>4, <3>5, <3>6 DEF PairInv
  <2> QED
    BY <2>1, <2>2
<1>20. \A q \in Servers : \A d \in Clients : d # c => down'[q][d] = down[q][d] /\ up'[q][d] = up[q][d]
  BY <1>12, <1>15
<1> QED
  BY <1>11, <1>12, <1>15, <1>16, <1>18, <1>19, <1>20, ClientOnly

\* Client::send_private_inputs.
LEMMA SendInputsInv ==
  ASSUME IInv, NEW c \in Clients, NEW p \in Servers, send_private_inputs(c, p)
  PROVE  IInv'
<1> DEFINE u == Unlock(cl[c], p)
           w == Send(up[p][c], Masked(c))
<1>1. TypeOK /\ cl[c].phase = "DATA" /\ cl[c].mtx = p
  BY DEF IInv, send_private_inputs
<1>2. /\ p \in cl[c].todo /\ u \in ClientType /\ u.mtx = NoThread /\ u.todo = cl[c].todo \ {p}
      /\ u.phase = cl[c].phase /\ u.connected = cl[c].connected /\ u.triples = cl[c].triples
  BY <1>1, UnlockFacts
<1>3. /\ cl' = [cl EXCEPT ![c] = u] /\ up' = [up EXCEPT ![p][c] = w]
      /\ UNCHANGED <<srv, mpc, down>>
  BY DEF send_private_inputs
<1>4. PairInv(p, c) /\ ClientInv(c)
  BY DEF IInv
<1>5. Told(c, p) /\ (\A q \in Servers : Took(c, q)) /\ ~Gave(c, p)
  BY <1>1, <1>2 DEF Told, Took, Gave
<1>6. Masked(c) = FullMask(c)
  <2>1. {q \in Servers : Took(c, q)} = Servers
    BY <1>5
  <2>2. cl[c].triples = Shares(c, Servers)
    BY <1>4, <2>1 DEF ClientInv
  <2>3. \A i \in 1 .. Dataset(c) : cl[c].triples[i] = {<<q, Slot(c, i)>> : q \in Servers}
    BY <2>2 DEF Shares
  <2> QED
    BY <2>3 DEF Masked, FullMask
<1>7. Dataset(c) # 0 => Task(p, c) = "receive" /\ Registered(p, c)
  BY <1>4, <1>5 DEF PairInv
<1>8. up[p][c] = IF ~Registered(p, c) THEN <<Id(c), Dataset(c)>> ELSE <<>>
  BY <1>4, <1>5 DEF PairInv, UpOf
<1>9. w = IF ~Registered(p, c) THEN <<Id(c), Dataset(c)>> ELSE FullMask(c)
  <2>1. CASE Dataset(c) # 0
    <3>1. up[p][c] = <<>> /\ Registered(p, c)
      BY <1>7, <1>8, <2>1
    <3>2. Len(FullMask(c)) = Dataset(c) /\ Dataset(c) \in Nat
      BY EmptyParts
    <3>3. FullMask(c) \in Seq({FullMask(c)[i] : i \in 1 .. Dataset(c)})
      BY <3>2 DEF FullMask
    <3>4. <<>> \o FullMask(c) = FullMask(c)
      BY <3>3
    <3> QED
      BY <1>6, <3>1, <3>4 DEF Send
  <2>2. CASE Dataset(c) = 0
    <3>1. FullMask(c) = <<>>
      BY <2>2, EmptyParts
    <3>2. w = up[p][c] \o <<>>
      BY <1>6, <3>1 DEF Send
    <3> HIDE DEF w
    <3>3. <<Id(c), Dataset(c)>> \o <<>> = <<Id(c), Dataset(c)>> /\ <<>> \o <<>> = <<>>
      BY SedpAssumption
    <3> QED
      BY <1>8, <3>1, <3>2, <3>3
  <2> QED
    BY <2>1, <2>2
<1> HIDE DEF u, w
<1>10. cl'[c] = u
  BY <1>1, <1>2, <1>3, ClStep
<1>11. SocketOK(down')
  BY <1>1, <1>3 DEF TypeOK, SocketOK
<1>12. /\ SocketOK(up') /\ up'[p][c] = w
       /\ \A q \in Servers : \A d \in Clients : <<q, d>> # <<p, c>> => up'[q][d] = up[q][d]
  <2>1. up' = [up EXCEPT ![p][c] = w]
    BY <1>3
  <2> QED
    BY <1>1, <2>1 DEF TypeOK, SocketOK
<1>13. \A q \in Servers : /\ Told(c, q)' <=> Told(c, q)
                          /\ Took(c, q)' <=> Took(c, q)
                          /\ Gave(c, q)' <=> Gave(c, q) \/ q = p
  BY <1>1, <1>2, <1>10 DEF Told, Took, Gave
<1>14. ClientInv(c)'
  <2>1. {q \in Servers : Took(c, q)}' = {q \in Servers : Took(c, q)}
    BY <1>13
  <2> QED
    BY <1>2, <1>4, <1>10, <2>1 DEF ClientInv
<1>15. \A q \in Servers : PairInv(q, c)'
  <2> TAKE q \in Servers
  <2>1. CASE q # p
    <3>1. down'[q][c] = down[q][c] /\ up'[q][c] = up[q][c]
      BY <1>3, <1>12, <2>1
    <3> QED
      BY <1>2, <1>3, <1>10, <1>13, <2>1, <3>1, PairClient
  <2>2. CASE q = p
    <3>1. /\ Waits(p, c)' <=> Waits(p, c)
          /\ Registered(p, c)' <=> Registered(p, c)
          /\ Current(p, c)' <=> Current(p, c)
          /\ Task(p, c)' = Task(p, c)
      BY <1>3 DEF Waits, Registered, Current, Task
    <3>2. Greeted(p, c)' <=> Greeted(p, c)
      BY <3>1 DEF Greeted
    <3>3. Told(c, p)' /\ Took(c, p)' /\ Gave(c, p)' /\ Took(c, p)
      BY <1>5, <1>13
    <3>4. down'[p][c] = DownOf(p, c)'
      <4>1. DownOf(p, c)' = DownOf(p, c)
        BY <1>5, <3>1, <3>2, <3>3 DEF DownOf
      <4> QED
        BY <1>3, <1>4, <4>1 DEF PairInv
    <3>5. Task(p, c) = "done" => FullMask(c) = <<>>
      BY <1>7, EmptyParts
    <3>6. up'[p][c] = UpOf(p, c)'
      BY <1>9, <1>12, <3>1, <3>3, <3>5 DEF UpOf
    <3>7. /\ srv'[p].got[c] = srv[p].got[c]
          /\ cl'[c].connected = cl[c].connected
      BY <1>2, <1>3, <1>10
    <3> QED
      BY <1>4, <1>5, <2>2, <3>1, <3>2, <3>3, <3>4, <3>6, <3>7 DEF PairInv
  <2> QED
    BY <2>1, <2>2
<1>16. \A q \in Servers : \A d \in Clients : d # c => down'[q][d] = down[q][d] /\ up'[q][d] = up[q][d]
  BY <1>3, <1>12
<1> QED
  BY <1>2, <1>3, <1>11, <1>12, <1>14, <1>15, <1>16, ClientOnly

-----------------------------------------------------------------------------

\* A step of a server, its program and its sockets disturbs no other server and
\* no client.
LEMMA ServerOnly ==
  ASSUME IInv, NEW p \in Servers, NEW t \in ServerType, srv' = [srv EXCEPT ![p] = t],
         UNCHANGED cl, SocketOK(down'), SocketOK(up'),
         \A q \in Servers : q # p => down'[q] = down[q] /\ up'[q] = up[q],
         mpc' \in [Servers -> {"size", "construct", "data", "computing", "out_of_range"}],
         \A q \in Servers : q # p => mpc'[q] = mpc[q],
         ServerInv(p)', ProgramInv(p)', \A c \in Clients : PairInv(p, c)'
  PROVE  IInv'
<1>1. TypeOK
  BY DEF IInv
<1>2. /\ srv' \in [Servers -> ServerType] /\ srv'[p] = t
      /\ \A q \in Servers : q # p => srv'[q] = srv[q]
  BY <1>1, SrvStep
<1>3. TypeOK'
  BY <1>1, <1>2 DEF TypeOK, SocketOK
<1>4. \A d \in Clients : ClientInv(d)'
  BY ClientSame DEF IInv
<1>5. \A q \in Servers : ServerInv(q)' /\ ProgramInv(q)'
  <2> TAKE q \in Servers
  <2>1. CASE q # p
    <3>1. ServerInv(q) /\ ProgramInv(q) /\ srv'[q] = srv[q] /\ mpc'[q] = mpc[q]
      BY <1>2, <2>1 DEF IInv
    <3>2. ServerInv(q)'
      BY <3>1, ServerSame
    <3> QED
      BY <3>1, <3>2 DEF ProgramInv
  <2> QED
    BY <2>1
<1>6. \A q \in Servers : \A d \in Clients : PairInv(q, d)'
  <2> TAKE q \in Servers
  <2> TAKE d \in Clients
  <2>1. CASE q # p
    <3>1. PairInv(q, d) /\ cl'[d] = cl[d] /\ srv'[q] = srv[q] /\ down'[q][d] = down[q][d] /\ up'[q][d] = up[q][d]
      BY <1>2, <2>1 DEF IInv
    <3> QED
      BY <3>1, PairSame
  <2> QED
    BY <2>1
<1> QED
  BY <1>3, <1>4, <1>5, <1>6 DEF IInv

\* What a server step that does not serve a client keeps.
LEMMA PairServer ==
  ASSUME IInv, NEW p \in Servers, NEW c \in Clients, UNCHANGED cl,
         Waits(p, c)' => Waits(p, c),
         Registered(p, c)' <=> Registered(p, c), Current(p, c)' <=> Current(p, c), Task(p, c)' = Task(p, c),
         srv'[p].got[c] = srv[p].got[c], down'[p][c] = down[p][c], up'[p][c] = up[p][c]
  PROVE  PairInv(p, c)'
<1>1. /\ Told(c, p)' <=> Told(c, p)
      /\ Took(c, p)' <=> Took(c, p)
      /\ Gave(c, p)' <=> Gave(c, p)
  BY DEF Told, Took, Gave
<1>2. PairInv(p, c)
  BY DEF IInv
<1>3. Waits(p, c)' => ~Greeted(p, c)
  BY <1>2 DEF PairInv
<1>4. Waits(p, c)' \/ Greeted(p, c) => p < cl'[c].connected
  BY <1>2 DEF PairInv
<1> QED
  BY <1>1, <1>2, <1>3, <1>4, PairFrame

\* The queue of waiting clients without its first.
LEMMA TailIs ==
  ASSUME NEW s \in Seq(Clients), s # <<>>
  PROVE  /\ Tail(s) \in Seq(Clients)
         /\ Len(s) \in Nat /\ Len(s) >= 1 /\ Head(s) = s[1] /\ s[1] \in Clients
         /\ Len(Tail(s)) = Len(s) - 1
         /\ \A i \in 1 .. Len(s) - 1 : Tail(s)[i] = s[i + 1]
  OBVIOUS

\* Server::handshake, before it waits for the answer.
LEMMA GreetInv ==
  ASSUME IInv, NEW p \in Servers, Greet(p)
  PROVE  IInv'
<1>1. TypeOK /\ srv[p] \in ServerType
  BY DEF IInv, TypeOK
<1>2. srv[p].pending \in Seq(Clients) /\ srv[p].pending # <<>>
  BY <1>1 DEF ServerType, Greet
<1>3. PICK c \in Clients : c = Head(srv[p].pending)
  BY <1>2
<1> DEFINE t == [srv[p] EXCEPT !.pending = Tail(@), !.cur = c, !.pc = "reply"]
           v == Send(down[p][c], <<<<p, 0>>>>)
<1>4. t \in ServerType
  <2>1. Tail(srv[p].pending) \in Seq(Clients)
    BY <1>2
  <2> QED
    BY <1>1, <2>1 DEF ServerType
<1>5. /\ srv' = [srv EXCEPT ![p] = t] /\ down' = [down EXCEPT ![p][c] = v]
      /\ UNCHANGED <<up, mpc, cl>> /\ srv[p].pc = "handle"
  <2>1. srv' = [srv EXCEPT ![p].pending = Tail(@), ![p].cur = c, ![p].pc = "reply"]
    BY <1>3 DEF Greet
  <2>2. srv' = [srv EXCEPT ![p] = t]
    BY <1>1, <2>1 DEF TypeOK
  <2>3. down' = [down EXCEPT ![p][c] = v]
    BY <1>3 DEF Greet
  <2>4. UNCHANGED <<up, mpc, cl>> /\ srv[p].pc = "handle"
    BY DEF Greet, OnlyServer, Handler
  <2> QED
    BY <2>2, <2>3, <2>4
<1>6. /\ t.pending = Tail(srv[p].pending) /\ t.cur = c /\ t.pc = "reply"
      /\ t.state = srv[p].state /\ t.handled = srv[p].handled
      /\ t.clients = srv[p].clients /\ t.total_data = srv[p].total_data /\ t.n = srv[p].n
      /\ t.tuples = srv[p].tuples /\ t.task = srv[p].task /\ t.got = srv[p].got /\ t.data = srv[p].data
  BY <1>1 DEF ServerType
<1> HIDE DEF t
<1>7. srv'[p] = t
  BY <1>1, <1>4, <1>5, SrvStep
<1>8. \A d \in Clients : /\ Registered(p, d)' <=> Registered(p, d)
                         /\ Current(p, d)' <=> d = c
                         /\ ~Current(p, d)
                         /\ Task(p, d)' = Task(p, d)
  BY <1>5, <1>6, <1>7 DEF Registered, Current, Task
<1>9. ServerInv(p) /\ ProgramInv(p) /\ \A d \in Clients : PairInv(p, d)
  BY DEF IInv
<1>10. \A i, j \in 1 .. Len(srv[p].pending) : srv[p].pending[i] = srv[p].pending[j] => i = j
  BY <1>9 DEF ServerInv
<1>11. Waits(p, c) /\ ~Waits(p, c)' /\ \A d \in Clients : Waits(p, d)' => Waits(p, d)
  <2>1. Len(srv[p].pending) \in Nat /\ Len(srv[p].pending) >= 1 /\ c = srv[p].pending[1]
    BY <1>2, <1>3
  <2>2. /\ Len(srv'[p].pending) = Len(srv[p].pending) - 1
        /\ \A i \in 1 .. Len(srv[p].pending) - 1 : srv'[p].pending[i] = srv[p].pending[i + 1]
    <3>1. srv'[p].pending = Tail(srv[p].pending)
      BY <1>6, <1>7
    <3> QED
      BY <1>2, <3>1, TailIs
  <2>3. \A i \in 1 .. Len(srv[p].pending) - 1 : i + 1 \in 1 .. Len(srv[p].pending) /\ i + 1 # 1
    BY <2>1
  <2>4. \A i \in 1 .. Len(srv'[p].pending) : srv'[p].pending[i] # c
    BY <1>10, <2>1, <2>2, <2>3
  <2>5. \A i \in 1 .. Len(srv'[p].pending) : \E j \in 1 .. Len(srv[p].pending) : srv[p].pending[j] = srv'[p].pending[i]
    BY <2>2, <2>3
  <2> QED
    BY <2>1, <2>4, <2>5, SMTT(30) DEF Waits
<1>12. ~Greeted(p, c) /\ ~Told(c, p) /\ Task(p, c) = "none" /\ ~Gave(c, p) /\ p < cl[c].connected
  BY <1>9, <1>11 DEF PairInv, Greeted, Told, Gave
<1>13. v = <<<<p, 0>>>>
  <2>1. down[p][c] = <<>>
    BY <1>9, <1>12 DEF PairInv, DownOf
  <2> QED
    BY <2>1 DEF Send
<1> HIDE DEF v
<1>14. /\ SocketOK(down') /\ down'[p][c] = v
       /\ \A q \in Servers : q # p => down'[q] = down[q]
       /\ \A d \in Clients : d # c => down'[p][d] = down[p][d]
  BY <1>1, <1>5 DEF TypeOK, SocketOK
<1>15. SocketOK(up')
  BY <1>1, <1>5 DEF TypeOK, SocketOK
<1>16. \A d \in Clients : PairInv(p, d)'
  <2> TAKE d \in Clients
  <2>1. CASE d # c
    <3>1. Current(p, d)' <=> Current(p, d)
      BY <1>8, <2>1
    <3>2. srv'[p].got[d] = srv[p].got[d] /\ down'[p][d] = down[p][d] /\ up'[p][d] = up[p][d]
      BY <1>5, <1>6, <1>7, <1>14, <2>1
    <3> QED
      BY <1>5, <1>8, <1>11, <3>1, <3>2, PairServer
  <2>2. CASE d = c
    <3>1. /\ Told(c, p)' <=> Told(c, p)
          /\ Took(c, p)' <=> Took(c, p)
          /\ Gave(c, p)' <=> Gave(c, p)
      BY <1>5 DEF Told, Took, Gave
    <3>2. ~Registered(p, c) /\ ~Registered(p, c)' /\ Current(p, c)' /\ Greeted(p, c)'
      BY <1>8, <1>12 DEF Greeted
    <3>3. down'[p][c] = DownOf(p, c)'
      BY <1>12, <1>13, <1>14, <3>1, <3>2 DEF DownOf
    <3>4. up'[p][c] = UpOf(p, c)'
      <4>1. UpOf(p, c)' = UpOf(p, c)
        BY <1>8, <3>1 DEF UpOf
      <4> QED
        BY <1>5, <1>9, <4>1 DEF PairInv
    <3>5. PairInv(p, c) /\ Task(p, c)' = "none" /\ cl' = cl
      BY <1>5, <1>8, <1>9, <1>12
    <3> QED
      BY <1>11, <1>12, <2>2, <3>1, <3>2, <3>3, <3>4, <3>5 DEF PairInv
  <2> QED
    BY <2>1, <2>2
<1>17. ServerInv(p)'
  <2>1. \A i, j \in 1 .. Len(srv'[p].pending) : srv'[p].pending[i] = srv'[p].pending[j] => i = j
    <3>1. Len(srv[p].pending) \in Nat /\ Len(srv[p].pending) >= 1
      BY <1>2
    <3>2. /\ Len(srv'[p].pending) = Len(srv[p].pending) - 1
          /\ \A i \in 1 .. Len(srv[p].pending) - 1 : srv'[p].pending[i] = srv[p].pending[i + 1]
      <4>1. srv'[p].pending = Tail(srv[p].pending)
        BY <1>6, <1>7
      <4> QED
        BY <1>2, <4>1, TailIs
    <3> QED
      BY <1>10, <3>1, <3>2
  <2>2. {d \in Clients : Registered(p, d)}' = {d \in Clients : Registered(p, d)}
    BY <1>8
  <2>3. /\ srv'[p].cur = c /\ srv'[p].pc = "reply" /\ srv'[p].state = srv[p].state
        /\ srv'[p].handled = srv[p].handled /\ srv'[p].clients = srv[p].clients
        /\ srv'[p].total_data = srv[p].total_data /\ srv'[p].tuples = srv[p].tuples
        /\ srv'[p].task = srv[p].task /\ srv'[p].data = srv[p].data
    BY <1>6, <1>7
  <2>4. srv[p].pc = "handle"
    BY <1>5
  <2> QED
    BY <1>9, <2>1, <2>2, <2>3, <2>4 DEF ServerInv, Early
<1>18. ProgramInv(p)'
  BY <1>5, <1>6, <1>7, <1>9 DEF ProgramInv
<1>19. mpc' \in [Servers -> {"size", "construct", "data", "computing", "out_of_range"}]
  BY <1>1, <1>5 DEF TypeOK
<1> QED
  BY <1>4, <1>5, <1>14, <1>15, <1>16, <1>17, <1>18, <1>19, ServerOnly

\* Server::handshake, when the answer is there.
LEMMA RegisterInv ==
  ASSUME Distinct, IInv, NEW p \in Servers, Register_Client(p)
  PROVE  IInv'
<1>1. TypeOK /\ srv[p] \in ServerType
  BY DEF IInv, TypeOK
<1>2. ServerInv(p) /\ ProgramInv(p) /\ \A d \in Clients : PairInv(p, d)
  BY DEF IInv
<1>3. srv[p].pc = "reply"
  BY DEF Register_Client, Handler
<1>4. PICK c \in Clients : c = srv[p].cur
  BY <1>2, <1>3 DEF ServerInv
<1> DEFINE S == {d \in Clients : Registered(p, d)}
           a == [srv[p] EXCEPT !.handled = @ + 1, !.cur = NoClient, !.pc = "handle"]
           t == [a EXCEPT !.clients = srv[p].clients \cup {E(c)}, !.total_data = @ + Dataset(c)]
           w == After(up[p][c], 2)
<1>5. Current(p, c) /\ Greeted(p, c) /\ ~Registered(p, c) /\ Task(p, c) = "none" /\ ~Waits(p, c)
  BY <1>2, <1>3, <1>4 DEF Current, Greeted, PairInv
<1>6. Told(c, p) /\ up[p][c] = <<Id(c), Dataset(c)>>
  <2>1. Len(up[p][c]) >= 2
    BY <1>4 DEF Register_Client, Has
  <2>2. ~Told(c, p) => ~Gave(c, p)
    BY DEF Told, Gave
  <2>3. up[p][c] = UpOf(p, c)
    BY <1>2 DEF PairInv
  <2>4. ~Told(c, p) => up[p][c] = <<>>
    BY <2>2, <2>3 DEF UpOf
  <2>5. Told(c, p)
    BY <2>1, <2>4
  <2> QED
    BY <1>5, <2>3, <2>5 DEF UpOf
<1>7. Gave(c, p) => FullMask(c) = <<>>
  <2>1. Gave(c, p) => Took(c, p)
    BY DEF Gave, Took
  <2> QED
    BY <1>2, <1>5, <2>1, EmptyParts DEF PairInv
<1>8. \A d \in Clients : E(d) = E(c) => d = c
  BY DEF E
<1>9. srv[p].clients \in SUBSET All /\ E(c) \notin srv[p].clients
  BY <1>1, <1>5 DEF ServerType, Registered
<1>10. a \in ServerType
  <2>1. srv[p].handled \in Nat
    BY <1>1 DEF ServerType
  <2>2. srv[p].handled + 1 \in Nat /\ NoClient \in Clients \cup {NoClient}
    BY <2>1
  <2> QED
    BY <1>1, <2>2 DEF ServerType
<1>11. t \in ServerType
  <2>1. srv[p].clients \cup {E(c)} \in SUBSET All
    BY <1>9 DEF All
  <2> HIDE DEF a
  <2>2. a.total_data + Dataset(c) \in Nat
    <3>1. a.total_data \in Nat
      BY <1>10 DEF ServerType
    <3> QED
      BY <3>1, SedpAssumption
  <2> QED
    BY <1>10, <2>1, <2>2 DEF ServerType
<1>12. a.clients = srv[p].clients /\ a.total_data = srv[p].total_data
  BY <1>1 DEF ServerType
<1>13. Register(a, Id(c), Dataset(c), c) = t
  <2> HIDE DEF a
  <2>1. ~\E e \in a.clients : e.key = <<Id(c), Dataset(c)>>
    <3> SUFFICES ASSUME NEW d \in Clients, E(d) \in srv[p].clients, E(d).key = <<Id(c), Dataset(c)>> PROVE FALSE
      BY <1>9, <1>12 DEF All
    <3>1. Id(d) = Id(c)
      BY DEF E
    <3> QED
      BY <1>9, <3>1 DEF Distinct
  <2> QED
    BY <1>12, <2>1 DEF Register, E
<1>14. /\ srv' = [srv EXCEPT ![p] = t] /\ up' = [up EXCEPT ![p][c] = w]
       /\ UNCHANGED <<down, mpc, cl>>
  <2>1. srv' = [srv EXCEPT ![p] = Register(a, up[p][c][1], up[p][c][2], c)]
    BY <1>4 DEF Register_Client
  <2>2. up[p][c][1] = Id(c) /\ up[p][c][2] = Dataset(c)
    BY <1>6
  <2>3. up' = [up EXCEPT ![p][c] = w]
    BY <1>4 DEF Register_Client
  <2>4. UNCHANGED <<down, mpc, cl>>
    BY DEF Register_Client, OnlyServer
  <2> HIDE DEF a, t, w
  <2> QED
    BY <1>13, <2>1, <2>2, <2>3, <2>4
<1>15. /\ t.clients = srv[p].clients \cup {E(c)} /\ t.total_data = srv[p].total_data + Dataset(c)
       /\ t.handled = srv[p].handled + 1 /\ t.cur = NoClient /\ t.pc = "handle"
       /\ t.pending = srv[p].pending /\ t.state = srv[p].state /\ t.n = srv[p].n
       /\ t.tuples = srv[p].tuples /\ t.task = srv[p].task /\ t.got = srv[p].got /\ t.data = srv[p].data
  <2>1. /\ a.handled = srv[p].handled + 1 /\ a.cur = NoClient /\ a.pc = "handle"
        /\ a.pending = srv[p].pending /\ a.state = srv[p].state /\ a.n = srv[p].n
        /\ a.tuples = srv[p].tuples /\ a.task = srv[p].task /\ a.got = srv[p].got /\ a.data = srv[p].data
    BY <1>1 DEF ServerType
  <2> HIDE DEF a
  <2> QED
    BY <1>10, <1>12, <2>1 DEF ServerType
<1> HIDE DEF t, a
<1>16. srv'[p] = t
  BY <1>1, <1>11, <1>14, SrvStep
<1>17. w = <<>>
  BY <1>6 DEF After
<1> HIDE DEF w
<1>18. /\ SocketOK(up') /\ up'[p][c] = w
       /\ \A q \in Servers : q # p => up'[q] = up[q]
       /\ \A d \in Clients : d # c => up'[p][d] = up[p][d]
  <2>1. up' = [up EXCEPT ![p][c] = w]
    BY <1>14
  <2> QED
    BY <1>1, <2>1 DEF TypeOK, SocketOK
<1>19. SocketOK(down')
  BY <1>1, <1>14 DEF TypeOK, SocketOK
<1>20. \A d \in Clients : /\ Registered(p, d)' <=> Registered(p, d) \/ d = c
                          /\ ~Current(p, d)'
                          /\ Task(p, d)' = Task(p, d)
                          /\ Waits(p, d)' <=> Waits(p, d)
  BY <1>8, <1>14, <1>15, <1>16 DEF Registered, Current, Task, Waits
<1>21. \A d \in Clients : PairInv(p, d)'
  <2> TAKE d \in Clients
  <2>1. CASE d # c
    <3>1. /\ Current(p, d)' <=> Current(p, d)
          /\ Registered(p, d)' <=> Registered(p, d)
      BY <1>4, <1>20, <2>1 DEF Current
    <3>2. srv'[p].got[d] = srv[p].got[d] /\ down'[p][d] = down[p][d] /\ up'[p][d] = up[p][d]
      BY <1>14, <1>15, <1>16, <1>18, <2>1
    <3> QED
      BY <1>14, <1>20, <3>1, <3>2, PairServer
  <2>2. CASE d = c
    <3>1. /\ Told(c, p)' <=> Told(c, p)
          /\ Took(c, p)' <=> Took(c, p)
          /\ Gave(c, p)' <=> Gave(c, p)
      BY <1>14 DEF Told, Took, Gave
    <3>2. Registered(p, c)' /\ Greeted(p, c)' /\ ~Current(p, c)'
      BY <1>20 DEF Greeted
    <3>3. down'[p][c] = DownOf(p, c)'
      <4>1. DownOf(p, c)' = DownOf(p, c)
        BY <1>6, <1>20, <3>1 DEF DownOf
      <4> QED
        BY <1>2, <1>14, <4>1 DEF PairInv
    <3>4. up'[p][c] = UpOf(p, c)'
      BY <1>7, <1>17, <1>18, <3>1, <3>2 DEF UpOf
    <3>5. PairInv(p, c) /\ Task(p, c)' = "none" /\ cl' = cl /\ ~Waits(p, c)'
      BY <1>2, <1>5, <1>14, <1>20
    <3> QED
      BY <1>5, <1>6, <2>2, <3>1, <3>2, <3>3, <3>4, <3>5 DEF PairInv
  <2> QED
    BY <2>1, <2>2
<1>22. ServerInv(p)'
  <2>1. {d \in Clients : Registered(p, d)}' = S \cup {c}
    BY <1>20
  <2>2. Cardinality(DataOf(S \cup {c})) = Cardinality(DataOf(S)) + Dataset(c)
    <3>1. S \in SUBSET Clients /\ c \in Clients \ S
      BY <1>5
    <3> HIDE DEF S
    <3> QED
      BY <3>1, AddClient
  <2>3. srv'[p].total_data = Cardinality(DataOf({d \in Clients : Registered(p, d)}'))
    <3>1. srv[p].total_data = Cardinality(DataOf(S))
      BY <1>2 DEF ServerInv
    <3> HIDE DEF S
    <3> QED
      BY <1>15, <1>16, <2>1, <2>2, <3>1
  <2>4. srv'[p].handled = Cardinality(srv'[p].clients)
    <3>1. IsFiniteSet(srv[p].clients)
      BY <1>9, AllFinite, FS_Subset
    <3>2. Cardinality(srv[p].clients \cup {E(c)}) = Cardinality(srv[p].clients) + 1
      BY <1>9, <3>1, FS_AddElement
    <3> QED
      BY <1>2, <1>15, <1>16, <3>2 DEF ServerInv
  <2>5. /\ srv'[p].pc = "handle" /\ srv'[p].state = srv[p].state
        /\ srv'[p].pending = srv[p].pending /\ srv'[p].tuples = srv[p].tuples
        /\ srv'[p].task = srv[p].task /\ srv'[p].data = srv[p].data
    BY <1>15, <1>16
  <2> QED
    BY <1>2, <1>3, <2>3, <2>4, <2>5 DEF ServerInv, Early
<1>23. ProgramInv(p)'
  BY <1>2, <1>14, <1>15, <1>16 DEF ProgramInv
<1>24. mpc' \in [Servers -> {"size", "construct", "data", "computing", "out_of_range"}]
  BY <1>1, <1>14 DEF TypeOK
<1>25. UNCHANGED cl /\ \A q \in Servers : q # p => down'[q] = down[q] /\ up'[q] = up[q] /\ mpc'[q] = mpc[q]
  BY <1>14, <1>18
<1> QED
  BY <1>11, <1>14, <1>18, <1>19, <1>21, <1>22, <1>23, <1>24, <1>25, ServerOnly

\* The steps of a server and its program that change no pair.
LEMMA QuietStep ==
  ASSUME IInv, NEW p \in Servers, NEW t \in ServerType, srv' = [srv EXCEPT ![p] = t],
         t.pending = srv[p].pending, t.clients = srv[p].clients, t.task = srv[p].task, t.got = srv[p].got,
         t.pc = srv[p].pc \/ (srv[p].pc # "reply" /\ t.pc # "reply"),
         UNCHANGED <<cl, down, up>>,
         mpc' \in [Servers -> {"size", "construct", "data", "computing", "out_of_range"}],
         \A q \in Servers : q # p => mpc'[q] = mpc[q],
         t.cur = srv[p].cur, ServerInv(p)', ProgramInv(p)'
  PROVE  IInv'
<1>1. TypeOK
  BY DEF IInv
<1>2. srv'[p] = t
  BY <1>1, SrvStep
<1>3. \A c \in Clients : PairInv(p, c)'
  <2> TAKE c \in Clients
  <2>1. /\ Waits(p, c)' <=> Waits(p, c)
        /\ Registered(p, c)' <=> Registered(p, c)
        /\ Current(p, c)' <=> Current(p, c)
        /\ Task(p, c)' = Task(p, c)
    BY <1>2 DEF Waits, Registered, Current, Task
  <2>2. srv'[p].got[c] = srv[p].got[c]
    BY <1>2
  <2> QED
    BY <2>1, <2>2, PairServer
<1>4. SocketOK(down') /\ SocketOK(up')
  BY <1>1 DEF TypeOK, SocketOK
<1> QED
  BY <1>3, <1>4, ServerOnly

\* Server::handle_clients, when all clients are met.
LEMMA AllHandledInv ==
  ASSUME IInv, NEW p \in Servers, AllHandled(p)
  PROVE  IInv'
<1> DEFINE t == [srv[p] EXCEPT !.state = "RANDOMNESS", !.pc = "wait"]
<1>1. TypeOK /\ srv[p] \in ServerType /\ ServerInv(p) /\ ProgramInv(p)
  BY DEF IInv, TypeOK
<1>2. srv[p].pc = "handle" /\ srv[p].handled = max_clients
  BY DEF AllHandled, Handler
<1>3. t \in ServerType
  BY <1>1 DEF ServerType
<1>4. srv' = [srv EXCEPT ![p] = t] /\ UNCHANGED <<down, up, mpc, cl>>
  BY <1>1 DEF AllHandled, OnlyServer, TypeOK
<1>5. /\ t.state = "RANDOMNESS" /\ t.pc = "wait"
      /\ t.pending = srv[p].pending /\ t.cur = srv[p].cur /\ t.handled = srv[p].handled
      /\ t.clients = srv[p].clients /\ t.total_data = srv[p].total_data /\ t.n = srv[p].n
      /\ t.tuples = srv[p].tuples /\ t.task = srv[p].task /\ t.got = srv[p].got /\ t.data = srv[p].data
  BY <1>1 DEF ServerType
<1> HIDE DEF t
<1>6. srv'[p] = t
  BY <1>1, <1>3, <1>4, SrvStep
<1>7. srv[p].clients = All
  <2>1. srv[p].clients \in SUBSET All /\ Cardinality(srv[p].clients) = Cardinality(All)
    BY <1>1, <1>2, AllFinite DEF ServerInv, ServerType
  <2> QED
    BY <2>1, AllFinite, FS_Subset
<1>8. ServerInv(p)'
  <2>1. {d \in Clients : Registered(p, d)}' = {d \in Clients : Registered(p, d)}
    BY <1>5, <1>6 DEF Registered
  <2>2. /\ srv'[p].state = "RANDOMNESS" /\ srv'[p].pc = "wait"
        /\ srv'[p].pending = srv[p].pending /\ srv'[p].cur = srv[p].cur /\ srv'[p].handled = srv[p].handled
        /\ srv'[p].clients = srv[p].clients /\ srv'[p].total_data = srv[p].total_data
        /\ srv'[p].task = srv[p].task
    BY <1>5, <1>6
  <2> QED
    BY <1>1, <1>2, <1>7, <2>1, <2>2, ZenonT(60) DEF ServerInv, Early
<1>9. ProgramInv(p)'
  BY <1>1, <1>2, <1>4, <1>5, <1>6 DEF ProgramInv, ServerInv, Early
<1>10. mpc' \in [Servers -> {"size", "construct", "data", "computing", "out_of_range"}]
  BY <1>1, <1>4 DEF TypeOK
<1>11. \A q \in Servers : q # p => mpc'[q] = mpc[q]
  BY <1>4
<1> QED
  BY <1>2, <1>3, <1>4, <1>5, <1>8, <1>9, <1>10, <1>11, QuietStep

\* Server::handle_clients, when all tasks are done.
LEMMA CollectInv ==
  ASSUME Distinct, IInv, NEW p \in Servers, Collect(p)
  PROVE  IInv'
<1> DEFINE data == Collected(srv[p].clients, srv[p].got)
           t == [srv[p] EXCEPT !.data = data, !.state = "FINISHED", !.pc = "end"]
<1>1. TypeOK /\ srv[p] \in ServerType /\ ServerInv(p) /\ ProgramInv(p) /\ \A c \in Clients : PairInv(p, c)
  BY DEF IInv, TypeOK
<1>2. srv[p].pc = "collect" /\ \A c \in Clients : srv[p].task[c] \in {"none", "done"}
  BY DEF Collect, Handler
<1>3. srv[p].clients = All /\ srv[p].state = "DATA" /\ \A c \in Clients : Task(p, c) = "done"
  BY <1>1, <1>2 DEF ServerInv, Early, Task
<1>4. data = TheData
  <2>1. \A c \in Clients : srv[p].got[c] = FullMask(c)
    BY <1>1, <1>3 DEF PairInv
  <2> QED
    BY <1>3, <2>1, CollectedIs
<1>5. srv' = [srv EXCEPT ![p] = t] /\ UNCHANGED <<down, up, mpc, cl>>
  BY <1>1 DEF Collect, OnlyServer, TypeOK
<1> HIDE DEF data
<1>6. t \in ServerType
  BY <1>1, <1>4 DEF ServerType
<1>7. /\ t.state = "FINISHED" /\ t.pc = "end" /\ t.data = TheData
      /\ t.pending = srv[p].pending /\ t.cur = srv[p].cur /\ t.handled = srv[p].handled
      /\ t.clients = srv[p].clients /\ t.total_data = srv[p].total_data /\ t.n = srv[p].n
      /\ t.tuples = srv[p].tuples /\ t.task = srv[p].task /\ t.got = srv[p].got
  BY <1>1, <1>4 DEF ServerType
<1> HIDE DEF t
<1>8. srv'[p] = t
  BY <1>1, <1>5, <1>6, SrvStep
<1>9. ServerInv(p)'
  <2>1. {d \in Clients : Registered(p, d)}' = {d \in Clients : Registered(p, d)}
    BY <1>7, <1>8 DEF Registered
  <2>2. /\ srv'[p].state = "FINISHED" /\ srv'[p].pc = "end" /\ srv'[p].data = TheData /\ srv'[p].tuples = srv[p].tuples
        /\ srv'[p].pending = srv[p].pending /\ srv'[p].cur = srv[p].cur /\ srv'[p].handled = srv[p].handled
        /\ srv'[p].clients = srv[p].clients /\ srv'[p].total_data = srv[p].total_data
        /\ srv'[p].task = srv[p].task
    BY <1>7, <1>8
  <2> QED
    BY <1>1, <1>2, <1>3, <2>1, <2>2, ZenonT(60) DEF ServerInv, Early
<1>10. ProgramInv(p)'
  BY <1>1, <1>3, <1>5, <1>7, <1>8 DEF ProgramInv
<1>11. mpc' \in [Servers -> {"size", "construct", "data", "computing", "out_of_range"}]
  BY <1>1, <1>5 DEF TypeOK
<1>12. \A q \in Servers : q # p => mpc'[q] = mpc[q]
  BY <1>5
<1> QED
  BY <1>2, <1>5, <1>6, <1>7, <1>9, <1>10, <1>11, <1>12, QuietStep

\* Input_Output_SEDP::open_channel: the program asks how many data there are.
LEMMA DataSizeInv ==
  ASSUME IInv, NEW p \in Servers, get_data_size(p)
  PROVE  IInv'
<1> DEFINE t == [srv[p] EXCEPT !.n = srv[p].total_data]
<1>1. TypeOK /\ srv[p] \in ServerType /\ ServerInv(p) /\ ProgramInv(p)
  BY DEF IInv, TypeOK
<1>2. mpc[p] = "size" /\ srv[p].state = "RANDOMNESS"
  BY DEF get_data_size
<1>3. t \in ServerType
  BY <1>1 DEF ServerType
<1>4. srv' = [srv EXCEPT ![p] = t] /\ mpc' = [mpc EXCEPT ![p] = "construct"] /\ UNCHANGED <<down, up, cl>>
  BY <1>1 DEF get_data_size, OnlyProgram, TypeOK
<1>5. /\ t.state = srv[p].state /\ t.pc = srv[p].pc /\ t.data = srv[p].data
      /\ t.pending = srv[p].pending /\ t.cur = srv[p].cur /\ t.handled = srv[p].handled
      /\ t.clients = srv[p].clients /\ t.total_data = srv[p].total_data /\ t.n = srv[p].total_data
      /\ t.tuples = srv[p].tuples /\ t.task = srv[p].task /\ t.got = srv[p].got
  BY <1>1 DEF ServerType
<1> HIDE DEF t
<1>6. srv'[p] = t
  BY <1>1, <1>3, <1>4, SrvStep
<1>7. srv[p].total_data = Total
  <2>1. srv[p].clients = All
    BY <1>1, <1>2 DEF ServerInv
  <2>2. {d \in Clients : Registered(p, d)} = Clients
    BY <2>1 DEF Registered, All
  <2> QED
    BY <1>1, <2>2 DEF ServerInv, Total
<1>8. ServerInv(p)'
  <2>1. {d \in Clients : Registered(p, d)}' = {d \in Clients : Registered(p, d)}
    BY <1>5, <1>6 DEF Registered
  <2> QED
    BY <1>1, <1>5, <1>6, <2>1, ZenonT(60) DEF ServerInv
<1>9. mpc' \in [Servers -> {"size", "construct", "data", "computing", "out_of_range"}] /\ mpc'[p] = "construct"
  BY <1>1, <1>4 DEF TypeOK
<1>10. ProgramInv(p)'
  BY <1>2, <1>5, <1>6, <1>7, <1>9 DEF ProgramInv
<1>11. \A q \in Servers : q # p => mpc'[q] = mpc[q]
  BY <1>1, <1>4 DEF TypeOK
<1> QED
  BY <1>3, <1>4, <1>5, <1>8, <1>9, <1>10, <1>11, QuietStep

\* The program has made the tuples.
LEMMA ConstructInv ==
  ASSUME IInv, NEW p \in Servers, construct_random_tuples(p)
  PROVE  IInv'
<1> DEFINE t == [srv[p] EXCEPT !.tuples = Alloc, !.state = "DATA"]
<1>1. TypeOK /\ srv[p] \in ServerType /\ ServerInv(p) /\ ProgramInv(p)
  BY DEF IInv, TypeOK
<1>2. mpc[p] = "construct" /\ srv[p].state = "RANDOMNESS" /\ srv[p].n = Total
  BY <1>1 DEF construct_random_tuples, ProgramInv
<1>3. srv[p].pc = "wait"
  BY <1>1, <1>2 DEF ServerInv, ServerType, Early
<1>4. t \in ServerType
  BY <1>1, SedpAssumption DEF ServerType
<1>5. srv' = [srv EXCEPT ![p] = t] /\ mpc' = [mpc EXCEPT ![p] = "data"] /\ UNCHANGED <<down, up, cl>>
  BY <1>1 DEF construct_random_tuples, OnlyProgram, TypeOK
<1>6. /\ t.state = "DATA" /\ t.tuples = Alloc /\ t.pc = srv[p].pc /\ t.data = srv[p].data
      /\ t.pending = srv[p].pending /\ t.cur = srv[p].cur /\ t.handled = srv[p].handled
      /\ t.clients = srv[p].clients /\ t.total_data = srv[p].total_data /\ t.n = srv[p].n
      /\ t.task = srv[p].task /\ t.got = srv[p].got
  BY <1>1 DEF ServerType
<1> HIDE DEF t
<1>7. srv'[p] = t
  BY <1>1, <1>4, <1>5, SrvStep
<1>8. ServerInv(p)'
  <2>1. {d \in Clients : Registered(p, d)}' = {d \in Clients : Registered(p, d)}
    BY <1>6, <1>7 DEF Registered
  <2>2. /\ srv'[p].state = "DATA" /\ srv'[p].pc = "wait" /\ srv'[p].tuples = Alloc
        /\ srv'[p].pending = srv[p].pending /\ srv'[p].cur = srv[p].cur /\ srv'[p].handled = srv[p].handled
        /\ srv'[p].clients = srv[p].clients /\ srv'[p].total_data = srv[p].total_data
        /\ srv'[p].task = srv[p].task
    BY <1>3, <1>6, <1>7
  <2> QED
    BY <1>1, <1>3, <2>1, <2>2 DEF ServerInv, Early
<1>9. mpc' \in [Servers -> {"size", "construct", "data", "computing", "out_of_range"}] /\ mpc'[p] = "data"
  BY <1>1, <1>5 DEF TypeOK
<1>10. ProgramInv(p)'
  BY <1>2, <1>6, <1>7, <1>9 DEF ProgramInv
<1>11. \A q \in Servers : q # p => mpc'[q] = mpc[q]
  BY <1>1, <1>5 DEF TypeOK
<1> QED
  BY <1>4, <1>5, <1>6, <1>8, <1>9, <1>10, <1>11, QuietStep

\* The program takes the data.
LEMMA GetDataInv ==
  ASSUME IInv, NEW p \in Servers, get_data(p)
  PROVE  IInv'
<1>1. TypeOK /\ srv[p] \in ServerType /\ ServerInv(p) /\ ProgramInv(p)
  BY DEF IInv, TypeOK
<1>2. mpc[p] = "data" /\ srv[p].state = "FINISHED" /\ UNCHANGED <<srv, cl, down, up>>
  BY DEF get_data, OnlyProgram
<1>3. srv[p].data = TheData /\ srv[p].n = Total
  BY <1>1, <1>2 DEF ServerInv, ProgramInv
<1>4. Len(srv[p].data) = Total /\ Total \in Nat
  <2>1. Total \in Nat
    BY DataFinite DEF Total
  <2> QED
    BY <1>3, <2>1 DEF TheData
<1>5. mpc' = [mpc EXCEPT ![p] = "computing"]
  <2>1. ~(Len(srv[p].data) < srv[p].n)
    BY <1>3, <1>4
  <2> QED
    BY <2>1 DEF get_data
<1>6. mpc' \in [Servers -> {"size", "construct", "data", "computing", "out_of_range"}] /\ mpc'[p] = "computing"
  BY <1>1, <1>5 DEF TypeOK
<1>7. ServerInv(p)'
  BY <1>1, <1>2, ServerSame
<1>8. ProgramInv(p)'
  BY <1>2, <1>3, <1>6 DEF ProgramInv
<1>9. \A q \in Servers : q # p => mpc'[q] = mpc[q]
  BY <1>1, <1>5 DEF TypeOK
<1>10. srv' = [srv EXCEPT ![p] = srv[p]]
  BY <1>1, <1>2 DEF TypeOK
<1> QED
  BY <1>1, <1>2, <1>6, <1>7, <1>8, <1>9, <1>10, QuietStep

\* Server::handle_clients starts a task for each client.
LEMMA StartTasksInv ==
  ASSUME IInv, NEW p \in Servers, StartTasks(p)
  PROVE  IInv'
<1> DEFINE task == [c \in Clients |-> IF \E e \in srv[p].clients : e.ssl = c THEN "send" ELSE "none"]
           t == [srv[p] EXCEPT !.pc = "collect", !.task = task]
<1>1. TypeOK /\ srv[p] \in ServerType /\ ServerInv(p) /\ ProgramInv(p) /\ \A c \in Clients : PairInv(p, c)
  BY DEF IInv, TypeOK
<1>2. srv[p].pc = "wait" /\ srv[p].state = "DATA"
  BY DEF StartTasks, Served, Handler
<1>3. srv[p].clients = All /\ \A c \in Clients : Task(p, c) = "none"
  BY <1>1, <1>2 DEF ServerInv, Early, Task
<1>4. \A c \in Clients : Registered(p, c) /\ task[c] = "send"
  BY <1>3 DEF Registered, All, E
<1>5. task \in [Clients -> {"none", "send", "receive", "done"}]
  OBVIOUS
<1>6. srv' = [srv EXCEPT ![p] = t] /\ UNCHANGED <<down, up, mpc, cl>>
  <2>1. srv' = [srv EXCEPT ![p].pc = "collect", ![p].task = task]
    BY DEF StartTasks
  <2>2. UNCHANGED <<down, up, mpc, cl>>
    BY DEF StartTasks, OnlyServer
  <2> HIDE DEF task
  <2> QED
    BY <1>1, <2>1, <2>2 DEF TypeOK
<1> HIDE DEF task
<1>7. t \in ServerType
  BY <1>1, <1>5 DEF ServerType
<1>8. /\ t.pc = "collect" /\ t.task = task /\ t.state = srv[p].state /\ t.data = srv[p].data
      /\ t.pending = srv[p].pending /\ t.cur = srv[p].cur /\ t.handled = srv[p].handled
      /\ t.clients = srv[p].clients /\ t.total_data = srv[p].total_data /\ t.n = srv[p].n
      /\ t.tuples = srv[p].tuples /\ t.got = srv[p].got
  BY <1>1 DEF ServerType
<1> HIDE DEF t
<1>9. srv'[p] = t
  BY <1>1, <1>6, <1>7, SrvStep
<1>10. ServerInv(p)'
  <2>1. {d \in Clients : Registered(p, d)}' = {d \in Clients : Registered(p, d)}
    BY <1>8, <1>9 DEF Registered
  <2>2. \A c \in Clients : srv'[p].task[c] # "none"
    BY <1>4, <1>8, <1>9
  <2>3. /\ srv'[p].pc = "collect" /\ srv'[p].state = "DATA" /\ srv'[p].tuples = srv[p].tuples
        /\ srv'[p].pending = srv[p].pending /\ srv'[p].cur = srv[p].cur /\ srv'[p].handled = srv[p].handled
        /\ srv'[p].clients = srv[p].clients /\ srv'[p].total_data = srv[p].total_data
    BY <1>2, <1>8, <1>9
  <2> QED
    BY <1>1, <1>2, <1>3, <2>1, <2>2, <2>3 DEF ServerInv, Early
<1>11. ProgramInv(p)'
  BY <1>1, <1>6, <1>8, <1>9 DEF ProgramInv
<1>12. \A c \in Clients : PairInv(p, c)'
  <2> TAKE c \in Clients
  <2>1. /\ Told(c, p)' <=> Told(c, p)
        /\ Took(c, p)' <=> Took(c, p)
        /\ Gave(c, p)' <=> Gave(c, p)
    BY <1>6 DEF Told, Took, Gave
  <2>2. /\ Waits(p, c)' <=> Waits(p, c)
        /\ Registered(p, c)' <=> Registered(p, c)
        /\ Current(p, c)' <=> Current(p, c)
        /\ Task(p, c)' = "send"
    BY <1>2, <1>4, <1>8, <1>9 DEF Waits, Registered, Current, Task
  <2>3. Greeted(p, c)' <=> Greeted(p, c)
    BY <2>2 DEF Greeted
  <2>4. DownOf(p, c)' = DownOf(p, c) /\ UpOf(p, c)' = UpOf(p, c)
    BY <1>3, <2>1, <2>2, <2>3 DEF DownOf, UpOf
  <2>5. Registered(p, c) /\ Task(p, c) = "none" /\ PairInv(p, c)
    BY <1>1, <1>3, <1>4
  <2>6. down' = down /\ up' = up /\ cl' = cl
    BY <1>6
  <2> QED
    BY <2>1, <2>2, <2>3, <2>4, <2>5, <2>6 DEF PairInv
<1>13. mpc' \in [Servers -> {"size", "construct", "data", "computing", "out_of_range"}]
  BY <1>1, <1>6 DEF TypeOK
<1>14. SocketOK(down') /\ SocketOK(up')
  BY <1>1, <1>6 DEF TypeOK, SocketOK
<1> QED
  BY <1>6, <1>7, <1>10, <1>11, <1>12, <1>13, <1>14, ServerOnly

\* A step that serves client c: its task becomes new, and nothing else of the
\* server changes, but for what it got.
Serves(p, c, new, t) ==
  /\ srv' = [srv EXCEPT ![p] = t] /\ Task(p, c) # "none" /\ t.task = [srv[p].task EXCEPT ![c] = new]
  /\ \A d \in Clients : d # c => t.got[d] = srv[p].got[d]
  /\ t.pending = srv[p].pending /\ t.cur = srv[p].cur /\ t.handled = srv[p].handled /\ t.clients = srv[p].clients
  /\ t.total_data = srv[p].total_data /\ t.n = srv[p].n /\ t.tuples = srv[p].tuples /\ t.pc = srv[p].pc
  /\ t.state = srv[p].state /\ t.data = srv[p].data
  /\ UNCHANGED <<cl, mpc>>
  /\ \A q \in Servers : \A d \in Clients : <<q, d>> # <<p, c>> => down'[q][d] = down[q][d] /\ up'[q][d] = up[q][d]
  /\ \A q \in Servers : q # p => down'[q] = down[q] /\ up'[q] = up[q]
  /\ new = "done" /\ Dataset(c) # 0 => Gave(c, p)
  /\ new = "done" => t.got[c] = FullMask(c)
  /\ down'[p][c] = IF ~Took(c, p) THEN Tuples(p, c) ELSE <<>>
  /\ up'[p][c] = IF Gave(c, p) /\ new # "done" THEN FullMask(c) ELSE <<>>

\* Such a step preserves the invariant.
LEMMA ServeStep ==
  ASSUME IInv, NEW p \in Servers, NEW c \in Clients, NEW new \in {"receive", "done"}, NEW t \in ServerType,
         Serves(p, c, new, t), SocketOK(down'), SocketOK(up')
  PROVE  IInv'
<1> USE DEF Serves
<1>1. TypeOK /\ srv[p] \in ServerType /\ ServerInv(p) /\ ProgramInv(p) /\ \A d \in Clients : PairInv(p, d)
  BY DEF IInv, TypeOK
<1>2. srv'[p] = t
  BY <1>1, SrvStep
<1>3. \A d \in Clients : Task(p, d)' = IF d = c THEN new ELSE Task(p, d)
  <2>1. srv[p].task \in [Clients -> {"none", "send", "receive", "done"}]
    BY <1>1 DEF ServerType
  <2>2. srv'[p].task = [srv[p].task EXCEPT ![c] = new]
    BY <1>2
  <2> QED
    BY <2>1, <2>2 DEF Task
<1>4. \A d \in Clients : /\ Waits(p, d)' <=> Waits(p, d)
                         /\ Registered(p, d)' <=> Registered(p, d)
                         /\ Current(p, d)' <=> Current(p, d)
                         /\ Told(d, p)' <=> Told(d, p)
                         /\ Took(d, p)' <=> Took(d, p)
                         /\ Gave(d, p)' <=> Gave(d, p)
  BY <1>2 DEF Waits, Registered, Current, Told, Took, Gave
<1>5. ServerInv(p)'
  <2>1. {d \in Clients : Registered(p, d)}' = {d \in Clients : Registered(p, d)}
    BY <1>4
  <2>2. srv[p].pc \in {"collect", "end"}
    BY <1>1 DEF ServerInv, Task
  <2>3. \A d \in Clients : srv'[p].task[d] # "none"
    BY <1>1, <1>3, <2>2 DEF ServerInv, Task
  <2>4. /\ srv'[p].pc = srv[p].pc /\ srv'[p].state = srv[p].state /\ srv'[p].tuples = srv[p].tuples
        /\ srv'[p].pending = srv[p].pending /\ srv'[p].cur = srv[p].cur /\ srv'[p].handled = srv[p].handled
        /\ srv'[p].clients = srv[p].clients /\ srv'[p].total_data = srv[p].total_data
        /\ srv'[p].data = srv[p].data
    BY <1>2
  <2>5. /\ \A i, j \in 1 .. Len(srv'[p].pending) : srv'[p].pending[i] = srv'[p].pending[j] => i = j
        /\ srv'[p].handled = Cardinality(srv'[p].clients)
        /\ srv'[p].total_data = Cardinality(DataOf({d \in Clients : Registered(p, d)}'))
    <3>1. \A i, j \in 1 .. Len(srv[p].pending) : srv[p].pending[i] = srv[p].pending[j] => i = j
      BY <1>1 DEF ServerInv
    <3>2. srv[p].handled = Cardinality(srv[p].clients)
      BY <1>1 DEF ServerInv
    <3>3. srv[p].total_data = Cardinality(DataOf({d \in Clients : Registered(p, d)}))
      BY <1>1 DEF ServerInv
    <3>4. srv'[p].total_data = Cardinality(DataOf({d \in Clients : Registered(p, d)}'))
      BY <2>1, <2>4, <3>3
    <3> QED
      BY <2>4, <3>1, <3>2, <3>4
  <2>6. /\ srv'[p].pc = "reply" => srv'[p].cur \in Clients
        /\ srv'[p].pc \notin Early => srv'[p].clients = All
        /\ srv'[p].pc # "out_of_range"
    BY <1>1, <2>4 DEF ServerInv
  <2>7. /\ srv'[p].state = "HANDSHAKE" <=> srv'[p].pc \in Early
        /\ srv'[p].state = "FINISHED" <=> srv'[p].pc = "end"
        /\ srv'[p].pc = "collect" => srv'[p].state = "DATA"
    BY <1>1, <2>4 DEF ServerInv
  <2>8. /\ srv'[p].state \in {"DATA", "FINISHED"} => srv'[p].tuples = Alloc
        /\ srv'[p].state = "FINISHED" => srv'[p].data = TheData
    BY <1>1, <2>4 DEF ServerInv
  <2>9. srv'[p].pc \in {"collect", "end"}
    BY <2>2, <2>4
  <2> QED
    BY <2>3, <2>5, <2>6, <2>7, <2>8, <2>9 DEF ServerInv
<1>6. ProgramInv(p)'
  BY <1>1, <1>2 DEF ProgramInv
<1>7. \A d \in Clients : PairInv(p, d)'
  <2> TAKE d \in Clients
  <2>1. CASE d # c
    <3>1. srv'[p].got[d] = srv[p].got[d] /\ down'[p][d] = down[p][d] /\ up'[p][d] = up[p][d]
      BY <1>2, <2>1
    <3>2. Task(p, d)' = Task(p, d)
      BY <1>3, <2>1
    <3> QED
      BY <1>4, <3>1, <3>2, PairServer
  <2>2. CASE d = c
    <3>1. Registered(p, c) /\ Told(c, p) /\ PairInv(p, c)
      BY <1>1 DEF PairInv
    <3>2. Task(p, c)' = new
      BY <1>3
    <3>3. Greeted(p, c)' <=> Greeted(p, c)
      BY <1>4 DEF Greeted
    <3>4. down'[p][c] = DownOf(p, c)'
      BY <1>4, <3>1, <3>2 DEF DownOf, Tuples
    <3>5. up'[p][c] = UpOf(p, c)'
      BY <1>4, <3>1, <3>2 DEF UpOf
    <3>6. new = "done" => srv'[p].got[c] = FullMask(c)
      BY <1>2
    <3> QED
      BY <1>4, <2>2, <3>1, <3>2, <3>3, <3>4, <3>5, <3>6 DEF PairInv
  <2> QED
    BY <2>1, <2>2
<1>8. mpc' \in [Servers -> {"size", "construct", "data", "computing", "out_of_range"}]
  BY <1>1 DEF TypeOK
<1> QED
  BY <1>5, <1>6, <1>7, <1>8, ServerOnly

\* Server::send_random_triples.
LEMMA SendTriplesInv ==
  ASSUME Distinct, Enough, IInv, NEW p \in Servers, NEW c \in Clients, send_random_triples(p, c)
  PROVE  IInv'
<1> DEFINE slots == Slots(srv[p].clients, c)
           task == [srv[p].task EXCEPT ![c] = "receive"]
           t == [srv[p] EXCEPT !.task = task]
           v == Send(down[p][c], Tuples(p, c))
<1>1. TypeOK /\ srv[p] \in ServerType /\ ServerInv(p) /\ PairInv(p, c)
  BY DEF IInv, TypeOK
<1>2. Task(p, c) = "send"
  BY DEF send_random_triples, Task
<1>3. srv[p].pc \in {"collect", "end"}
  BY <1>1, <1>2 DEF ServerInv, Task
<1>4. srv[p].clients = All /\ srv[p].tuples = Alloc
  BY <1>1, <1>3 DEF ServerInv, Early
<1>5. slots = [i \in 1 .. Dataset(c) |-> Slot(c, i)]
  BY <1>4, SlotsIs
<1>6. ~\E i \in DOMAIN slots : slots[i] > srv[p].tuples
  <2> SUFFICES ASSUME NEW i \in 1 .. Dataset(c), Slot(c, i) > Alloc PROVE FALSE
    BY <1>4, <1>5
  <2>1. Slot(c, i) \in 1 .. Total /\ Total \in Nat
    BY SlotType
  <2> QED
    BY <2>1, SedpAssumption DEF Enough
<1>7. [i \in DOMAIN slots |-> <<p, slots[i]>>] = Tuples(p, c)
  BY <1>5 DEF Tuples
<1>8. /\ srv' = [srv EXCEPT ![p].task[c] = "receive"]
      /\ down' = [down EXCEPT ![p][c] = Send(@, [i \in DOMAIN slots |-> <<p, slots[i]>>])]
      /\ UNCHANGED <<up, mpc, cl>>
  BY <1>6 DEF send_random_triples, OnlyServer
<1> HIDE DEF slots
<1>9. srv' = [srv EXCEPT ![p] = t] /\ down' = [down EXCEPT ![p][c] = v]
  BY <1>1, <1>7, <1>8 DEF TypeOK
<1>10. task \in [Clients -> {"none", "send", "receive", "done"}]
  <2>1. srv[p].task \in [Clients -> {"none", "send", "receive", "done"}]
    BY <1>1 DEF ServerType
  <2> QED
    BY <2>1
<1> HIDE DEF task
<1>11. t \in ServerType
  BY <1>1, <1>10 DEF ServerType
<1>12. /\ t.task = task /\ t.pc = srv[p].pc /\ t.state = srv[p].state /\ t.data = srv[p].data
       /\ t.pending = srv[p].pending /\ t.cur = srv[p].cur /\ t.handled = srv[p].handled
       /\ t.clients = srv[p].clients /\ t.total_data = srv[p].total_data /\ t.n = srv[p].n
       /\ t.tuples = srv[p].tuples /\ t.got = srv[p].got
  BY <1>1 DEF ServerType
<1>13. Registered(p, c) /\ Told(c, p) /\ (Took(c, p) => Dataset(c) = 0)
  BY <1>1, <1>2 DEF PairInv
<1>14. v = IF ~Took(c, p) THEN Tuples(p, c) ELSE <<>>
  <2>1. down[p][c] = <<>>
    BY <1>1, <1>2, <1>13 DEF PairInv, DownOf
  <2>2. Tuples(p, c) \in Seq(Nat \X Int) /\ (Dataset(c) = 0 => Tuples(p, c) = <<>>)
    BY EmptyParts
  <2>3. v = <<>> \o Tuples(p, c)
    BY <2>1 DEF Send
  <2>4. <<>> \o Tuples(p, c) = Tuples(p, c)
    BY <2>2
  <2> HIDE DEF v
  <2> QED
    BY <1>13, <2>2, <2>3, <2>4
<1>15. up[p][c] = IF Gave(c, p) THEN FullMask(c) ELSE <<>>
  BY <1>1, <1>2, <1>13 DEF PairInv, UpOf
<1> HIDE DEF t, v
<1>16. /\ SocketOK(down') /\ down'[p][c] = v
       /\ \A q \in Servers : q # p => down'[q] = down[q]
       /\ \A q \in Servers : \A d \in Clients : <<q, d>> # <<p, c>> => down'[q][d] = down[q][d]
  BY <1>1, <1>9 DEF TypeOK, SocketOK
<1>17. SocketOK(up')
  BY <1>1, <1>8 DEF TypeOK, SocketOK
<1>18. UNCHANGED <<cl, mpc>> /\ up' = up /\ up'[p][c] = IF Gave(c, p) THEN FullMask(c) ELSE <<>>
  BY <1>8, <1>15
<1>19. t.task = [srv[p].task EXCEPT ![c] = "receive"]
  BY <1>12 DEF task
<1>20. Task(p, c) # "none" /\ srv' = [srv EXCEPT ![p] = t]
  BY <1>2, <1>9
<1>21. down'[p][c] = IF ~Took(c, p) THEN Tuples(p, c) ELSE <<>>
  BY <1>14, <1>16
<1>22. /\ \A q \in Servers : \A d \in Clients : <<q, d>> # <<p, c>> => down'[q][d] = down[q][d] /\ up'[q][d] = up[q][d]
       /\ \A q \in Servers : q # p => down'[q] = down[q] /\ up'[q] = up[q]
  BY <1>16, <1>18
<1>23. /\ "receive" \in {"receive", "done"} /\ "receive" # "done"
       /\ t \in ServerType
  BY <1>11
<1>24. \A d \in Clients : d # c => t.got[d] = srv[p].got[d]
  BY <1>12
<1>25. /\ "receive" = "done" /\ Dataset(c) # 0 => Gave(c, p)
       /\ "receive" = "done" => t.got[c] = FullMask(c)
       /\ up'[p][c] = IF Gave(c, p) /\ "receive" # "done" THEN FullMask(c) ELSE <<>>
  BY <1>18, <1>23
<1> QED
  <2>1. Serves(p, c, "receive", t)
    BY <1>12, <1>18, <1>19, <1>20, <1>21, <1>22, <1>24, <1>25 DEF Serves
  <2> QED
    BY <1>16, <1>17, <1>23, <2>1, ServeStep

\* Server::get_private_inputs.
LEMMA GetInputsInv ==
  ASSUME Distinct, IInv, NEW p \in Servers, NEW c \in Clients, get_private_inputs(p, c)
  PROVE  IInv'
<1> DEFINE size == Len(Slots(srv[p].clients, c))
           task == [srv[p].task EXCEPT ![c] = "done"]
           got == [srv[p].got EXCEPT ![c] = SubSeq(up[p][c], 1, size)]
           t == [srv[p] EXCEPT !.task = task, !.got = got]
           w == After(up[p][c], size)
<1>1. TypeOK /\ srv[p] \in ServerType /\ ServerInv(p) /\ PairInv(p, c)
  BY DEF IInv, TypeOK
<1>2. Task(p, c) = "receive" /\ Len(up[p][c]) >= size
  BY DEF get_private_inputs, Task, Has
<1>3. srv[p].pc \in {"collect", "end"}
  BY <1>1, <1>2 DEF ServerInv, Task
<1>4. srv[p].clients = All
  BY <1>1, <1>3 DEF ServerInv, Early
<1>5. size = Dataset(c) /\ Dataset(c) \in Nat
  <2>1. Slots(All, c) = [i \in 1 .. Dataset(c) |-> Slot(c, i)]
    BY SlotsIs
  <2>2. Len(Slots(All, c)) = Dataset(c)
    BY <2>1, SedpAssumption
  <2> QED
    BY <1>4, <2>2, SedpAssumption
<1>6. /\ srv' = [srv EXCEPT ![p].task[c] = "done", ![p].got[c] = SubSeq(up[p][c], 1, size)]
      /\ up' = [up EXCEPT ![p][c] = w]
      /\ UNCHANGED <<down, mpc, cl>>
  BY DEF get_private_inputs, OnlyServer
<1> HIDE DEF size
<1>7. Registered(p, c) /\ Told(c, p)
  BY <1>1, <1>2 DEF PairInv
<1>8. up[p][c] = IF Gave(c, p) THEN FullMask(c) ELSE <<>>
  BY <1>1, <1>2, <1>7 DEF PairInv, UpOf
<1>9. Dataset(c) # 0 => Gave(c, p)
  BY <1>2, <1>5, <1>8
<1>10. up[p][c] = FullMask(c)
  BY <1>8, <1>9, EmptyParts
<1>11. FullMask(c) \in Seq({FullMask(c)[i] : i \in 1 .. Dataset(c)}) /\ Len(FullMask(c)) = Dataset(c)
  BY <1>5 DEF FullMask
<1>12. SubSeq(up[p][c], 1, size) = FullMask(c) /\ w = <<>>
  <2> DEFINE S == {FullMask(c)[i] : i \in 1 .. Dataset(c)}
             s == FullMask(c)
             k == Dataset(c)
  <2>1. s \in Seq(S) /\ Len(s) = k /\ k \in Nat
    BY <1>5, <1>11
  <2> HIDE DEF S, s, k
  <2>2. SubSeq(s, 1, k) = s
    BY <2>1, SubSeqFull
  <2>3. SubSeq(s, k + 1, Len(s)) = <<>>
    BY <2>1
  <2> QED
    BY <1>5, <1>10, <2>2, <2>3 DEF s, k, After
<1>13. task \in [Clients -> {"none", "send", "receive", "done"}]
  <2>1. srv[p].task \in [Clients -> {"none", "send", "receive", "done"}]
    BY <1>1 DEF ServerType
  <2> QED
    BY <2>1
<1>14. /\ got \in [Clients -> Values] /\ got[c] = FullMask(c)
       /\ \A d \in Clients : d # c => got[d] = srv[p].got[d]
  <2>1. srv[p].got \in [Clients -> Values]
    BY <1>1 DEF ServerType
  <2>2. FullMask(c) \in Values
    BY DEF Values
  <2>3. got = [srv[p].got EXCEPT ![c] = FullMask(c)]
    BY <1>12
  <2> HIDE DEF got
  <2> QED
    BY <2>1, <2>2, <2>3
<1>15. srv' = [srv EXCEPT ![p] = t]
  <2> DEFINE x == SubSeq(up[p][c], 1, size)
  <2>1. srv' = [srv EXCEPT ![p].task[c] = "done", ![p].got[c] = x]
    BY <1>6
  <2> HIDE DEF x
  <2>2. srv \in [Servers -> ServerType]
    BY <1>1 DEF TypeOK
  <2>3. srv' = [srv EXCEPT ![p] = [srv[p] EXCEPT !.task[c] = "done", !.got[c] = x]]
    BY <2>1, <2>2
  <2>4. [srv[p] EXCEPT !.task[c] = "done", !.got[c] = x]
          = [srv[p] EXCEPT !.task = task, !.got = [srv[p].got EXCEPT ![c] = x]]
    BY <1>1 DEF ServerType
  <2> QED
    BY <2>3, <2>4 DEF x
<1> HIDE DEF task, got, w
<1>16. t \in ServerType
  BY <1>1, <1>13, <1>14 DEF ServerType
<1>17. /\ t.task = task /\ t.got = got /\ t.pc = srv[p].pc /\ t.state = srv[p].state /\ t.data = srv[p].data
       /\ t.pending = srv[p].pending /\ t.cur = srv[p].cur /\ t.handled = srv[p].handled
       /\ t.clients = srv[p].clients /\ t.total_data = srv[p].total_data /\ t.n = srv[p].n
       /\ t.tuples = srv[p].tuples
  BY <1>1 DEF ServerType
<1> HIDE DEF t
<1>18. /\ SocketOK(up') /\ up'[p][c] = w
       /\ \A q \in Servers : q # p => up'[q] = up[q]
       /\ \A q \in Servers : \A d \in Clients : <<q, d>> # <<p, c>> => up'[q][d] = up[q][d]
  <2>1. up' = [up EXCEPT ![p][c] = w]
    BY <1>6
  <2> QED
    BY <1>1, <2>1 DEF TypeOK, SocketOK
<1>19. SocketOK(down')
  BY <1>1, <1>6 DEF TypeOK, SocketOK
<1>20. UNCHANGED <<cl, mpc>> /\ down' = down
  BY <1>6
<1>21. t.task = [srv[p].task EXCEPT ![c] = "done"] /\ t.got[c] = FullMask(c) /\ \A d \in Clients : d # c => t.got[d] = srv[p].got[d]
  BY <1>14, <1>17 DEF task
<1>22. Task(p, c) # "none"
  BY <1>2
<1>23. down'[p][c] = IF ~Took(c, p) THEN Tuples(p, c) ELSE <<>>
  BY <1>1, <1>2, <1>7, <1>20 DEF PairInv, DownOf, Tuples
<1>24. up'[p][c] = <<>>
  BY <1>12, <1>18
<1>25. /\ \A q \in Servers : \A d \in Clients : <<q, d>> # <<p, c>> => down'[q][d] = down[q][d] /\ up'[q][d] = up[q][d]
       /\ \A q \in Servers : q # p => down'[q] = down[q] /\ up'[q] = up[q]
  BY <1>18, <1>20
<1>26. "done" \in {"receive", "done"}
  OBVIOUS
<1>27. /\ "done" = "done" /\ Dataset(c) # 0 => Gave(c, p)
       /\ "done" = "done" => t.got[c] = FullMask(c)
       /\ up'[p][c] = IF Gave(c, p) /\ "done" # "done" THEN FullMask(c) ELSE <<>>
  BY <1>9, <1>21, <1>24
<1> QED
  <2>1. Serves(p, c, "done", t)
    BY <1>15, <1>17, <1>20, <1>21, <1>22, <1>23, <1>25, <1>27 DEF Serves
  <2> QED
    BY <1>16, <1>18, <1>19, <1>26, <2>1, ServeStep

-----------------------------------------------------------------------------

\* Nothing happens.
LEMMA StutterInv ==
  ASSUME IInv, UNCHANGED vars
  PROVE  IInv'
<1>1. UNCHANGED <<srv, mpc, cl, down, up>>
  BY DEF vars
<1>2. TypeOK'
  BY <1>1 DEF IInv, TypeOK
<1>3. \A c \in Clients : ClientInv(c)'
  BY <1>1, ClientSame DEF IInv
<1>4. \A p \in Servers : ServerInv(p)'
  BY <1>1, ServerSame DEF IInv
<1>5. \A p \in Servers : ProgramInv(p)'
  BY <1>1 DEF IInv, ProgramInv
<1>6. \A p \in Servers : \A c \in Clients : PairInv(p, c)'
  BY <1>1, PairSame DEF IInv
<1> QED
  BY <1>2, <1>3, <1>4, <1>5, <1>6 DEF IInv

-----------------------------------------------------------------------------
(* The theorem.                                                            *)

\* Every step of a client, a server or a program preserves the invariant, if no
\* two clients have the same number and the program makes enough tuples: in
\* whatever order each server meets the clients and serves them.
THEOREM Inductive == Distinct /\ Enough /\ IInv /\ [Next]_vars => IInv'
<1> SUFFICES ASSUME Distinct, Enough, IInv, [Next]_vars PROVE IInv'
  OBVIOUS
<1>1. ASSUME NEW c \in Clients, ClientSteps(c) PROVE IInv'
  <2>1. CASE Connect(c)
    BY <2>1, ConnectInv
  <2>2. CASE NextPhase(c)
    BY <2>2, NextPhaseInv
  <2>3. ASSUME NEW p \in Servers, Lock(c, p) PROVE IInv'
    BY <2>3, LockInv
  <2>4. ASSUME NEW p \in Servers, handshake(c, p) PROVE IInv'
    BY <2>4, HandshakeInv
  <2>5. ASSUME NEW p \in Servers, get_random_tuples(c, p) PROVE IInv'
    BY <2>5, GetTuplesInv
  <2>6. ASSUME NEW p \in Servers, send_private_inputs(c, p) PROVE IInv'
    BY <2>6, SendInputsInv
  <2> QED
    BY <1>1, <2>1, <2>2, <2>3, <2>4, <2>5, <2>6 DEF ClientSteps
<1>2. ASSUME NEW p \in Servers, ServerSteps(p) PROVE IInv'
  <2>1. CASE Greet(p)
    BY <2>1, GreetInv
  <2>2. CASE Register_Client(p)
    BY <2>2, RegisterInv
  <2>3. CASE AllHandled(p)
    BY <2>3, AllHandledInv
  <2>4. CASE StartTasks(p)
    BY <2>4, StartTasksInv
  <2>5. CASE Collect(p)
    BY <2>5, CollectInv
  <2>6. ASSUME NEW c \in Clients, send_random_triples(p, c) PROVE IInv'
    BY <2>6, SendTriplesInv
  <2>7. ASSUME NEW c \in Clients, get_private_inputs(p, c) PROVE IInv'
    BY <2>7, GetInputsInv
  <2> QED
    BY <1>2, <2>1, <2>2, <2>3, <2>4, <2>5, <2>6, <2>7 DEF ServerSteps
<1>3. ASSUME NEW p \in Servers, ProgramSteps(p) PROVE IInv'
  <2>1. CASE get_data_size(p)
    BY <2>1, DataSizeInv
  <2>2. CASE construct_random_tuples(p)
    BY <2>2, ConstructInv
  <2>3. CASE get_data(p)
    BY <2>3, GetDataInv
  <2> QED
    BY <1>3, <2>1, <2>2, <2>3 DEF ProgramSteps
<1>4. CASE UNCHANGED vars
  BY <1>4, StutterInv
<1> QED
  BY <1>1, <1>2, <1>3, <1>4 DEF Next

\* A client that has its tuples has one share from each server of each, and
\* shares none with another.
LEMMA WholeTuples ==
  ASSUME Distinct, IInv
  PROVE  TuplesWhole
<1>1. ASSUME NEW c \in Clients, cl[c].phase \in {"DATA", "FINISHED"}
      PROVE  cl[c].triples = Shares(c, Servers)
  <2>1. {q \in Servers : Took(c, q)} = Servers
    BY <1>1 DEF Took
  <2>2. ClientInv(c)
    BY DEF IInv
  <2> QED
    BY <2>1, <2>2 DEF ClientInv
<1>2. \A c \in Clients : /\ DOMAIN cl[c].triples = 1 .. Dataset(c)
                         /\ \A i \in 1 .. Dataset(c) : SlotOf(c, i) \subseteq {Slot(c, i)}
  <2> TAKE c \in Clients
  <2>1. cl[c].triples = [i \in 1 .. Dataset(c) |-> {<<q, Slot(c, i)>> : q \in {q \in Servers : Took(c, q)}}]
    BY DEF IInv, ClientInv, Shares
  <2>2. \A i \in 1 .. Dataset(c) : \A x \in Tuple(c, i) : x[2] = Slot(c, i)
    BY <2>1 DEF Tuple
  <2> QED
    BY <2>1, <2>2 DEF SlotOf
<1>3. \A c \in Clients : cl[c].phase \in {"DATA", "FINISHED"} =>
        \A i \in 1 .. Dataset(c) : Tuple(c, i) = {<<q, Slot(c, i)>> : q \in Servers}
  BY <1>1 DEF Tuple, Shares
<1>4. ASSUME NEW c \in Clients, cl[c].phase \in {"DATA", "FINISHED"}, NEW i \in 1 .. Dataset(c)
      PROVE  {x[1] : x \in Tuple(c, i)} = Servers
  <2>1. ASSUME NEW x \in Tuple(c, i) PROVE x[1] \in Servers
    BY <1>3, <1>4
  <2>2. ASSUME NEW q \in Servers PROVE q \in {x[1] : x \in Tuple(c, i)}
    <3>1. <<q, Slot(c, i)>> \in Tuple(c, i)
      BY <1>3, <1>4
    <3>2. <<q, Slot(c, i)>>[1] = q
      OBVIOUS
    <3> QED
      BY <3>1, <3>2, Zenon
  <2> QED
    BY <2>1, <2>2, Zenon
<1>5. ASSUME NEW c \in Clients, cl[c].phase \in {"DATA", "FINISHED"}, NEW i \in 1 .. Dataset(c)
      PROVE  SlotOf(c, i) = {Slot(c, i)}
  <2>1. 0 \in Servers
    BY ServersFacts
  <2>2. <<0, Slot(c, i)>> \in Tuple(c, i)
    BY <1>3, <1>5, <2>1
  <2>3. <<0, Slot(c, i)>>[2] \in SlotOf(c, i)
    BY <2>2 DEF SlotOf
  <2> QED
    BY <1>2, <2>3
<1>6. ASSUME NEW c \in Clients, cl[c].phase \in {"DATA", "FINISHED"}, NEW i \in 1 .. Dataset(c)
      PROVE  Cardinality(SlotOf(c, i)) = 1
  <2>1. SlotOf(c, i) = {Slot(c, i)}
    BY <1>5, <1>6
  <2> QED
    BY <2>1, FS_Singleton
<1>7. ASSUME NEW c \in Clients, cl[c].phase \in {"DATA", "FINISHED"}, NEW i \in 1 .. Dataset(c),
             NEW d \in Clients, NEW j \in DOMAIN cl[d].triples, SlotOf(c, i) \cap SlotOf(d, j) # {}
      PROVE  c = d /\ i = j
  <2>1. j \in 1 .. Dataset(d) /\ Slot(c, i) = Slot(d, j)
    BY <1>2, <1>5, <1>7
  <2> QED
    BY <2>1, SlotInjective
<1>8. SUFFICES ASSUME NEW c \in Clients, cl[c].phase \in {"DATA", "FINISHED"}, NEW i \in DOMAIN cl[c].triples
               PROVE  /\ {x[1] : x \in Tuple(c, i)} = Servers
                      /\ Cardinality(SlotOf(c, i)) = 1
                      /\ \A d \in Clients : \A j \in DOMAIN cl[d].triples : SlotOf(c, i) \cap SlotOf(d, j) # {} => c = d /\ i = j
  BY DEF TuplesWhole
<1>9. i \in 1 .. Dataset(c)
  BY <1>2, <1>8
<1> QED
  BY <1>4, <1>6, <1>7, <1>8, <1>9

\* The servers that are done have the same data, each masked by the tuple of its
\* place.
LEMMA MatchingData ==
  ASSUME Distinct, IInv
  PROVE  DataMatchTuples
<1>1. \A p \in Servers : srv[p].state = "FINISHED" => srv[p].data = TheData
  BY DEF IInv, ServerInv
<1>2. ASSUME NEW k \in 1 .. Total PROVE TheData[k].mask = {<<r, k>> : r \in Servers}
  <2>1. PICK c \in Clients : \E i \in 1 .. Dataset(c) : Slot(c, i) = k
    BY SlotOnto
  <2>2. PICK i \in 1 .. Dataset(c) : Slot(c, i) = k
    BY <2>1
  <2>3. TheData[k] = FullMask(c)[i]
    BY <2>2, DatumIs DEF TheData
  <2> QED
    BY <2>2, <2>3 DEF FullMask
<1>3. DOMAIN TheData = 1 .. Total
  BY DEF TheData
<1> QED
  BY <1>1, <1>2, <1>3 DEF DataMatchTuples

\* TuplesAgree: what a client adds up is one share of each server of one tuple
\* that no other datum has; all programs import the same data, the k-th masked by
\* their k-th tuple; and they find as many as they were told there are.  None of
\* the servers has told another in which order it met the clients.
THEOREM Agree == Distinct /\ Enough => (Spec => []TuplesAgree)
<1> SUFFICES ASSUME Distinct, Enough PROVE Spec => []TuplesAgree
  OBVIOUS
<1>1. Init => IInv
  BY InitInv
<1>2. IInv /\ [Next]_vars => IInv'
  BY Inductive
<1>3. IInv => TuplesAgree
  <2> SUFFICES ASSUME IInv PROVE TuplesAgree
    OBVIOUS
  <2>1. NothingMissing
    BY DEF IInv, ServerInv, ProgramInv, NothingMissing
  <2> QED
    BY <2>1, WholeTuples, MatchingData DEF TuplesAgree
<1> QED
  BY <1>1, <1>2, <1>3, PTL DEF Spec
=============================================================================
