------------------------- MODULE BoardColumnsProofs -------------------------
(***************************************************************************)
(* Proofs about BoardColumns for any number of columns and any requests:   *)
(* the types; that a rename replaces the title it was made from; that a    *)
(* reorder leaves the order that was asked for.                            *)
(***************************************************************************)
EXTENDS BoardColumns, SequenceTheorems, FiniteSetTheorems, WellFoundedInduction, TLAPS

USE ColumnsAssumption

\* A set in an order: the element at place n has n - 1 before it, so that every element
\* has one place and the places follow the order.
StrictOrder(S, R) ==
    /\ \A x \in S : <<x, x>> \notin R
    /\ \A x, y \in S : x # y => <<x, y>> \in R \/ <<y, x>> \in R
    /\ \A x, y, z \in S : <<x, y>> \in R /\ <<y, z>> \in R => <<x, z>> \in R

LEMMA OrderedIs ==
  ASSUME NEW S, IsFiniteSet(S), NEW R, StrictOrder(S, R)
  PROVE  /\ Cardinality(S) \in Nat
         /\ Ordered(S, R) \in [1 .. Cardinality(S) -> S]
         /\ \A x \in S : \E n \in 1 .. Cardinality(S) : Ordered(S, R)[n] = x
         /\ \A m, n \in 1 .. Cardinality(S) :
               m < n <=> <<Ordered(S, R)[m], Ordered(S, R)[n]>> \in R
  <1> DEFINE k == Cardinality(S)
             Below(x) == {y \in S : <<y, x>> \in R}
             Rank(x) == Cardinality(Below(x))
             f == [x \in S |-> Rank(x) + 1]
             s == Ordered(S, R)
  <1>1. k \in Nat
    BY FS_CardinalityType
  <1>2. ASSUME NEW x \in S PROVE Rank(x) \in Nat /\ Rank(x) < k /\ IsFiniteSet(Below(x))
    <2>1. Below(x) \in SUBSET S /\ Below(x) # S
      BY DEF StrictOrder
    <2>2. IsFiniteSet(Below(x)) /\ Rank(x) <= k /\ (k = Rank(x) => S = Below(x))
      BY <2>1, FS_Subset
    <2>3. Rank(x) \in Nat
      BY <2>2, FS_CardinalityType
    <2> HIDE DEF Below
    <2> QED
      BY <2>1, <2>2, <2>3, <1>1
  <1>3. ASSUME NEW x \in S, NEW y \in S, <<x, y>> \in R PROVE Rank(x) < Rank(y)
    <2>1. Below(x) \in SUBSET Below(y) /\ Below(x) # Below(y)
      BY <1>3 DEF StrictOrder
    <2>2. Rank(x) <= Rank(y) /\ (Rank(y) = Rank(x) => Below(y) = Below(x))
      BY <1>2, <2>1, FS_Subset
    <2>3. Rank(x) \in Nat /\ Rank(y) \in Nat
      BY <1>2
    <2> HIDE DEF Below
    <2> QED
      BY <2>1, <2>2, <2>3
  <1>4. \A x, y \in S : Rank(x) = Rank(y) => x = y
    <2> SUFFICES ASSUME NEW x \in S, NEW y \in S, x # y PROVE Rank(x) # Rank(y)
      OBVIOUS
    <2>1. <<x, y>> \in R \/ <<y, x>> \in R
      BY DEF StrictOrder
    <2>2. Rank(x) \in Nat /\ Rank(y) \in Nat
      BY <1>2
    <2>3. Rank(x) < Rank(y) \/ Rank(y) < Rank(x)
      BY <1>3, <2>1
    <2> HIDE DEF Rank
    <2> QED
      BY <2>2, <2>3
  <1>d. s = [n \in 1 .. k |-> CHOOSE x \in S : Rank(x) = n - 1]
    BY DEF Ordered
  <1>r. \A x \in S : Rank(x) \in Nat /\ Rank(x) < k
    BY <1>2
  <1> HIDE DEF Rank, Below, s, k
  <1>5. \A n \in 1 .. k : \E x \in S : Rank(x) = n - 1
    <2>1. f \in [S -> 1 .. k] /\ \A x \in S : f[x] = Rank(x) + 1
      <3>1. \A x \in S : Rank(x) + 1 \in 1 .. k
        BY <1>1, <1>r
      <3> QED
        BY <3>1
    <2>2. \A x, y \in S : f[x] = f[y] => x = y
      <3> SUFFICES ASSUME NEW x \in S, NEW y \in S, f[x] = f[y] PROVE x = y
        OBVIOUS
      <3>1. Rank(x) = Rank(y)
        BY <2>1, <1>r
      <3> QED
        BY <3>1, <1>4
    <2> HIDE DEF f
    <2>3. f \in Injection(S, 1 .. k)
      BY <2>1, <2>2 DEF Injection, IsInjective
    <2>4. IsFiniteSet(1 .. k) /\ Cardinality(1 .. k) = k
      <3>1. 1 \in Int /\ k \in Int /\ (IF 1 > k THEN 0 ELSE k - 1 + 1) = k
        BY <1>1
      <3>2. IsFiniteSet(1 .. k) /\ Cardinality(1 .. k) = IF 1 > k THEN 0 ELSE k - 1 + 1
        BY <3>1, FS_Interval
      <3> QED
        BY <3>1, <3>2
    <2>s. IsFiniteSet(S) /\ Cardinality(S) = k
      BY DEF k
    <2>5. f \in Surjection(S, 1 .. k)
      BY <2>3, <2>4, <2>s, FS_Injection
    <2>6. \A n \in 1 .. k : \E x \in S : f[x] = n
      BY <2>5 DEF Surjection
    <2> QED
      <3> SUFFICES ASSUME NEW n \in 1 .. k PROVE \E x \in S : Rank(x) = n - 1
        OBVIOUS
      <3>1. PICK x \in S : f[x] = n
        BY <2>6
      <3>2. Rank(x) \in Nat /\ Rank(x) + 1 = n
        BY <3>1, <2>1, <1>r
      <3> QED
        BY <3>2, <1>1
  <1>6. \A n \in 1 .. k : s[n] \in S /\ Rank(s[n]) = n - 1
    BY <1>d, <1>5
  <1>7. \A x \in S : \E n \in 1 .. k : s[n] = x
    <2> SUFFICES ASSUME NEW x \in S PROVE \E n \in 1 .. k : s[n] = x
      OBVIOUS
    <2>1. Rank(x) + 1 \in 1 .. k /\ Rank(x) + 1 - 1 = Rank(x)
      BY <1>1, <1>r
    <2>2. s[Rank(x) + 1] = x
      <3> DEFINE n == Rank(x) + 1
      <3>1. n \in 1 .. k /\ n - 1 = Rank(x)
        BY <2>1, <1>1, <1>r
      <3>2. s[n] \in S /\ Rank(s[n]) = n - 1
        BY <3>1, <1>6
      <3> QED
        BY <3>1, <3>2, <1>4
    <2> QED
      BY <2>1, <2>2
  <1>8. \A m, n \in 1 .. k : m < n <=> <<s[m], s[n]>> \in R
    <2> SUFFICES ASSUME NEW m \in 1 .. k, NEW n \in 1 .. k PROVE m < n <=> <<s[m], s[n]>> \in R
      OBVIOUS
    <2>1. s[m] \in S /\ s[n] \in S /\ Rank(s[m]) = m - 1 /\ Rank(s[n]) = n - 1 /\ m \in Nat /\ n \in Nat
      BY <1>1, <1>6
    <2>2. ASSUME <<s[m], s[n]>> \in R PROVE m < n
      BY <2>1, <2>2, <1>3
    <2>3. ASSUME m < n, ~(<<s[m], s[n]>> \in R) PROVE FALSE
      <3>1. s[m] # s[n]
        BY <2>1, <2>3
      <3>2. <<s[n], s[m]>> \in R
        BY <2>1, <2>3, <3>1 DEF StrictOrder
      <3> QED
        BY <2>1, <2>3, <3>2, <1>3
    <2> QED
      BY <2>2, <2>3
  <1>9. s \in [1 .. k -> S]
    BY <1>d, <1>6
  <1> QED
    BY <1>1, <1>7, <1>8, <1>9 DEF s, k

\* Elements of a sequence at given places, each place once.
Selects(t, s, I, p) ==
    /\ \A n \in DOMAIN t : p[n] \in I /\ t[n] = s[p[n]]
    /\ \A m, n \in DOMAIN t : m # n => p[m] # p[n]
    /\ \A i \in I : \E n \in DOMAIN t : p[n] = i

\* The elements of s at the places of I, in the order of their places.
LEMMA PickedIs ==
  ASSUME NEW T, NEW s \in Seq(T), NEW I \in SUBSET DOMAIN s
  PROVE  /\ Picked(s, I) \in Seq(T) /\ Len(Picked(s, I)) = Cardinality(I)
         /\ \E p : /\ Selects(Picked(s, I), s, I, p)
                   /\ \A m, n \in DOMAIN Picked(s, I) : m < n <=> p[m] < p[n]
  <1> DEFINE k == Cardinality(I)
             p == Ordered(I, Earlier(I))
  <1>1. IsFiniteSet(I) /\ \A i \in I : i \in Nat
    <2>1. Len(s) \in Nat /\ I \in SUBSET (1 .. Len(s))
      OBVIOUS
    <2>2. IsFiniteSet(1 .. Len(s))
      BY <2>1, FS_Interval
    <2> QED
      BY <2>1, <2>2, FS_Subset
  <1>e. \A i, j \in I : <<i, j>> \in Earlier(I) <=> i < j
    BY DEF Earlier
  <1>2. StrictOrder(I, Earlier(I))
    BY <1>1, <1>e DEF StrictOrder
  <1>3. /\ k \in Nat /\ p \in [1 .. k -> I] /\ \A i \in I : \E n \in 1 .. k : p[n] = i
        /\ \A m, n \in 1 .. k : m < n <=> <<p[m], p[n]>> \in Earlier(I)
    BY <1>1, <1>2, OrderedIs
  <1>d. Picked(s, I) = Along(s, p)
    BY DEF Picked
  <1> HIDE DEF k, p
  <1>4. \A m, n \in 1 .. k : m < n <=> p[m] < p[n]
    BY <1>3, <1>e
  <1>5. \A m, n \in 1 .. k : m # n => p[m] # p[n]
    <2> SUFFICES ASSUME NEW m \in 1 .. k, NEW n \in 1 .. k, m # n PROVE p[m] # p[n]
      OBVIOUS
    <2>1. m \in Nat /\ n \in Nat /\ p[m] \in Nat /\ p[n] \in Nat
      BY <1>1, <1>3
    <2>2. m < n \/ n < m
      BY <2>1
    <2> QED
      BY <2>1, <2>2, <1>4
  <1>6. /\ Along(s, p) \in Seq(T) /\ Len(Along(s, p)) = k /\ DOMAIN Along(s, p) = 1 .. k
        /\ \A n \in 1 .. k : p[n] \in I /\ Along(s, p)[n] = s[p[n]]
    <2>1. DOMAIN p = 1 .. k /\ \A n \in 1 .. k : p[n] \in I /\ p[n] \in DOMAIN s
      BY <1>3, <1>d
    <2>2. \A i \in DOMAIN s : s[i] \in T
      OBVIOUS
    <2>3. Along(s, p) = [n \in 1 .. k |-> s[p[n]]]
      BY <2>1 DEF Along
    <2>4. Along(s, p) \in [1 .. k -> T] /\ \A n \in 1 .. k : Along(s, p)[n] = s[p[n]]
      BY <2>1, <2>2, <2>3
    <2> QED
      BY <1>3, <2>1, <2>4
  <1> QED
    BY <1>3, <1>4, <1>5, <1>6, <1>d DEF Selects, k

\* The places of a sequence.
LEMMA PlacesFinite ==
  ASSUME NEW n \in Nat
  PROVE  IsFiniteSet(1 .. n) /\ Cardinality(1 .. n) = n
  <1>0. 1 \in Int /\ n \in Int
    OBVIOUS
  <1>1. IsFiniteSet(1 .. n) /\ Cardinality(1 .. n) = IF 1 > n THEN 0 ELSE n - 1 + 1
    BY <1>0, FS_Interval
  <1>2. (IF 1 > n THEN 0 ELSE n - 1 + 1) = n
    OBVIOUS
  <1> QED
    BY <1>1, <1>2

LEMMA FunctionIsSeq ==
  ASSUME NEW T, NEW n \in Nat, NEW f \in [1 .. n -> T]
  PROVE  f \in Seq(T) /\ Len(f) = n /\ DOMAIN f = 1 .. n
  OBVIOUS

LEMMA SortedIs ==
  ASSUME NEW s \in Seq(Item)
  PROVE  Sorted(s) \in Seq(Item) /\ \E p : Selects(Sorted(s), s, DOMAIN s, p)
  <1> DEFINE I == DOMAIN s
             R == ByPosition(s)
             k == Cardinality(I)
             p == Ordered(I, R)
  <1>1. IsFiniteSet(I) /\ \A i \in I : i \in Nat
    <2>1. Len(s) \in Nat /\ I = 1 .. Len(s)
      OBVIOUS
    <2>2. IsFiniteSet(1 .. Len(s))
      BY <2>1, PlacesFinite
    <2> QED
      BY <2>1, <2>2
  <1>t. \A i \in I : s[i].position \in Int
    <2>1. \A i \in I : s[i] \in Item
      OBVIOUS
    <2> QED
      BY <2>1 DEF Item
  <1>e. \A i, j \in I : <<i, j>> \in R <=>
            s[i].position < s[j].position \/ (s[i].position = s[j].position /\ i < j)
    BY DEF ByPosition
  <1>d. Sorted(s) = Along(s, p) /\ I \in SUBSET DOMAIN s
    BY DEF Sorted
  <1> HIDE DEF R, I
  <1>2. StrictOrder(I, R)
    <2>1. \A x \in I : <<x, x>> \notin R
      BY <1>1, <1>t, <1>e
    <2>2. \A x, y \in I : x # y => <<x, y>> \in R \/ <<y, x>> \in R
      <3> SUFFICES ASSUME NEW x \in I, NEW y \in I, x # y PROVE <<x, y>> \in R \/ <<y, x>> \in R
        OBVIOUS
      <3> DEFINE a == s[x].position
                 b == s[y].position
      <3>1. a \in Int /\ b \in Int /\ x \in Nat /\ y \in Nat
        BY <1>1, <1>t
      <3>2. (a < b \/ (a = b /\ x < y)) \/ (b < a \/ (b = a /\ y < x))
        <4> HIDE DEF a, b
        <4> QED
          BY <3>1
      <3> QED
        BY <3>2, <1>e
    <2>3. \A x, y, z \in I : <<x, y>> \in R /\ <<y, z>> \in R => <<x, z>> \in R
      <3> SUFFICES ASSUME NEW x \in I, NEW y \in I, NEW z \in I, <<x, y>> \in R, <<y, z>> \in R
                   PROVE  <<x, z>> \in R
        OBVIOUS
      <3> DEFINE a == s[x].position
                 b == s[y].position
                 c == s[z].position
      <3>1. /\ a \in Int /\ b \in Int /\ c \in Int /\ x \in Nat /\ y \in Nat /\ z \in Nat
            /\ a < b \/ (a = b /\ x < y)
            /\ b < c \/ (b = c /\ y < z)
        BY <1>1, <1>t, <1>e
      <3>2. a < c \/ (a = c /\ x < z)
        <4> HIDE DEF a, b, c
        <4> QED
          BY <3>1
      <3> QED
        BY <3>2, <1>e
    <2> QED
      BY <2>1, <2>2, <2>3 DEF StrictOrder
  <1>3. /\ k \in Nat /\ p \in [1 .. k -> I] /\ \A i \in I : \E n \in 1 .. k : p[n] = i
        /\ \A m, n \in 1 .. k : m < n <=> <<p[m], p[n]>> \in R
    <2>1. IsFiniteSet(I)
      BY <1>1
    <2> QED
      BY <2>1, <1>2, OrderedIs
  <1> HIDE DEF k, p
  <1>5. \A m, n \in 1 .. k : m # n => p[m] # p[n]
    <2> SUFFICES ASSUME NEW m \in 1 .. k, NEW n \in 1 .. k, m # n PROVE p[m] # p[n]
      OBVIOUS
    <2>1. m \in Nat /\ n \in Nat /\ p[m] \in I /\ p[n] \in I
      BY <1>3
    <2>2. m < n \/ n < m
      BY <2>1
    <2> QED
      BY <2>1, <2>2, <1>3, <1>2 DEF StrictOrder
  <1>6. /\ Along(s, p) \in Seq(Item) /\ Len(Along(s, p)) = k /\ DOMAIN Along(s, p) = 1 .. k
        /\ \A n \in 1 .. k : p[n] \in I /\ Along(s, p)[n] = s[p[n]]
    <2>1. DOMAIN p = 1 .. k /\ \A n \in 1 .. k : p[n] \in I /\ p[n] \in DOMAIN s
      BY <1>3, <1>d
    <2>2. \A i \in DOMAIN s : s[i] \in Item
      OBVIOUS
    <2>3. Along(s, p) = [n \in 1 .. k |-> s[p[n]]]
      BY <2>1 DEF Along
    <2>4. Along(s, p) \in [1 .. k -> Item] /\ \A n \in 1 .. k : Along(s, p)[n] = s[p[n]]
      BY <2>1, <2>2, <2>3
    <2>5. k \in Nat
      BY <1>3
    <2>6. Along(s, p) \in Seq(Item) /\ Len(Along(s, p)) = k /\ DOMAIN Along(s, p) = 1 .. k
      BY <2>4, <2>5, FunctionIsSeq
    <2> QED
      BY <2>1, <2>4, <2>6
  <1> QED
    <2>1. Selects(Along(s, p), s, I, p)
      BY <1>3, <1>5, <1>6 DEF Selects
    <2> QED
      BY <2>1, <1>6, <1>d DEF I

\* What the page does with a list keeps its columns apart, and adds none.
From(t, s) == \A i \in DOMAIN t : \E j \in DOMAIN s : t[i] = s[j]

\* A selection of columns has some of them, and none twice that was not there twice.
LEMMA PickedItems ==
  ASSUME NEW s \in Seq(Item), NEW I \in SUBSET DOMAIN s
  PROVE  /\ Picked(s, I) \in Seq(Item) /\ (Whole(s) => Whole(Picked(s, I)))
         /\ \A i \in DOMAIN Picked(s, I) : \E j \in I : Picked(s, I)[i] = s[j]
  <1>1. Picked(s, I) \in Seq(Item) /\ \E p : Selects(Picked(s, I), s, I, p)
    BY PickedIs
  <1>2. PICK p : Selects(Picked(s, I), s, I, p)
    BY <1>1
  <1> QED
    <2> DEFINE t == Picked(s, I)
    <2>1. \A i \in DOMAIN t : \E j \in I : t[i] = s[j]
      BY <1>2 DEF Selects
    <2>2. ASSUME Whole(s) PROVE Whole(t)
      BY <1>2, <2>2 DEF Whole, Selects
    <2> QED
      BY <1>1, <2>1, <2>2

LEMMA SortedItems ==
  ASSUME NEW s \in Seq(Item)
  PROVE  Sorted(s) \in Seq(Item) /\ (Whole(s) => Whole(Sorted(s))) /\ From(Sorted(s), s)
  <1>1. Sorted(s) \in Seq(Item) /\ \E p : Selects(Sorted(s), s, DOMAIN s, p)
    BY SortedIs
  <1>2. PICK p : Selects(Sorted(s), s, DOMAIN s, p)
    BY <1>1
  <1> QED
    <2> DEFINE t == Sorted(s)
    <2> HIDE DEF t
    <2>1. From(t, s)
      BY <1>2 DEF From, Selects, t
    <2>2. ASSUME Whole(s) PROVE Whole(t)
      BY <1>2, <2>2 DEF Whole, Selects, t
    <2> QED
      BY <1>1, <2>1, <2>2 DEF t

\* ColumnsAssumption in parts, and the type invariant in parts, of which an action touches few.
LEMMA ColumnConstants ==
  /\ Columns \in Nat /\ Existing \in Nat /\ MaxWrites \in Nat /\ MaxLists \in Nat
  /\ Existing <= Columns
  BY DEF ColumnsAssumption

\* The types, variable by variable.
TableOK ==
    /\ rows \in [1 .. Columns -> [live : BOOLEAN, position : Int, version : Nat, title : Nat]]
    /\ created \in Existing .. Columns
CreatingOK ==
    /\ creating \in Seq(Int) /\ Len(creating) <= 2
    /\ Len(creating) = 2 => creating[2] \in 1 .. created
RenameType ==
    [stage : {"none", "sent", "renamed", "done"}, id : Nat, base : Nat, match : Nat, answer : Seq(Item)]
RenameOK ==
    /\ rename \in RenameType
    /\ rename.stage = "sent" => rename.id \in 1 .. Columns
    /\ rename.stage = "renamed" => Len(rename.answer) = 1 /\ rename.answer[1].id = rename.id
NewsOK == news \subseteq News /\ \A e \in news : e.kind # "reordered" => Len(e.items) = 1
CountsOK == writes \in Nat /\ gets \in Nat /\ asking \in Nat /\ blurred \in BOOLEAN

LEMMA TypeParts ==
  ColumnsTypeOK <=>
    /\ TableOK /\ CreatingOK /\ reorder \in [Reorder -> ReorderType] /\ RenameOK
    /\ columns \in Seq(Item) /\ versions \in [1 .. Columns -> Nat]
    /\ NewsOK /\ lists \subseteq Seq(Item) /\ CountsOK
  <1>1. {writes, gets, asking} \subseteq Nat <=> writes \in Nat /\ gets \in Nat /\ asking \in Nat
    OBVIOUS
  <1> QED
    BY <1>1, Zenon DEF ColumnsTypeOK, TableOK, CreatingOK, RenameType, RenameOK, NewsOK, CountsOK

LEMMA TypePartsNext ==
  ColumnsTypeOK' <=>
    /\ TableOK' /\ CreatingOK' /\ reorder' \in [Reorder -> ReorderType] /\ RenameOK'
    /\ columns' \in Seq(Item) /\ versions' \in [1 .. Columns -> Nat]
    /\ NewsOK' /\ lists' \subseteq Seq(Item) /\ CountsOK'
  <1>1. {writes', gets', asking'} \subseteq Nat <=> writes' \in Nat /\ gets' \in Nat /\ asking' \in Nat
    OBVIOUS
  <1> QED
    BY <1>1, Zenon DEF ColumnsTypeOK, TableOK, CreatingOK, RenameType, RenameOK, NewsOK, CountsOK

\* The parts that an action leaves alone.
LEMMA PartsStay ==
  ASSUME ColumnsTypeOK
  PROVE  /\ UNCHANGED table => TableOK'
         /\ UNCHANGED <<table, creating>> => CreatingOK'
         /\ UNCHANGED creating /\ created' \in Nat /\ created' >= created => CreatingOK'
         /\ UNCHANGED <<counts, blurred>> => CountsOK'
         /\ UNCHANGED rename => RenameOK'
         /\ UNCHANGED news => NewsOK'
  <1>1. TableOK /\ CreatingOK /\ CountsOK /\ RenameOK /\ NewsOK
    BY TypeParts
  <1>2. UNCHANGED creating /\ created' \in Nat /\ created' >= created => CreatingOK'
    <2>1. created \in Nat
      BY <1>1, ColumnConstants DEF TableOK
    <2> QED
      BY <1>1, <2>1 DEF CreatingOK
  <1>3. UNCHANGED <<counts, blurred>> => CountsOK'
    BY <1>1 DEF CountsOK, counts
  <1> QED
    BY <1>1, <1>2, <1>3 DEF TableOK, CreatingOK, table, RenameOK, NewsOK

\* The columns there are, their rows, and their list.
LEMMA LiveIs ==
  ASSUME TableOK
  PROVE  /\ created \in Nat /\ created <= Columns /\ IsFiniteSet(Live)
         /\ \A c \in Live : c \in 1 .. created /\ c \in 1 .. Columns /\ rows[c].live
  <1>1. created \in Nat /\ created <= Columns
    BY ColumnConstants DEF TableOK
  <1>2. Live \in SUBSET (1 .. created)
    BY DEF Live
  <1>3. IsFiniteSet(1 .. created)
    BY <1>1, FS_Interval
  <1>4. IsFiniteSet(Live)
    BY <1>2, <1>3, FS_Subset
  <1>5. \A c \in Live : c \in 1 .. created /\ c \in 1 .. Columns /\ rows[c].live
    BY <1>1, ColumnConstants DEF Live
  <1> QED
    BY <1>1, <1>4, <1>5

LEMMA RowIs ==
  ASSUME TableOK, NEW c \in 1 .. created
  PROVE  /\ Row(c) \in Item /\ Row(c).id = c /\ Row(c).version = rows[c].version
         /\ Row(c).title = rows[c].title /\ Row(c).position = rows[c].position
         /\ rows[c].version \in Nat /\ rows[c].position \in Int /\ rows[c].title \in Nat
  <1>1. c \in 1 .. Columns
    BY LiveIs, ColumnConstants
  <1>2. rows[c] \in [live : BOOLEAN, position : Int, version : Nat, title : Nat]
    BY <1>1 DEF TableOK
  <1> QED
    BY <1>1, <1>2 DEF Row, RowIn, Item

\* The list of the columns: each that is there, once, by its position.
LEMMA ListedIs ==
  ASSUME TableOK
  PROVE  /\ Cardinality(Live) \in Nat /\ InTable \in [1 .. Cardinality(Live) -> Live]
         /\ \A c \in Live : \E n \in 1 .. Cardinality(Live) : InTable[n] = c
         /\ \A m, n \in 1 .. Cardinality(Live) :
               m < n <=> Before(Row(InTable[m]), Row(InTable[n]))
         /\ Listed \in Seq(Item) /\ DOMAIN Listed = 1 .. Cardinality(Live)
         /\ \A n \in DOMAIN Listed : InTable[n] \in Live /\ Listed[n] = Row(InTable[n])
         /\ Whole(Listed) /\ Ids(Listed) = InTable
  <1> DEFINE k == Cardinality(Live)
             R == {p \in Live \X Live : Before(Row(p[1]), Row(p[2]))}
             s == InTable
  <1>1. IsFiniteSet(Live) /\ \A c \in Live : c \in 1 .. created /\ c \in Nat
    BY LiveIs
  <1>t. \A c \in Live : Row(c) \in Item /\ Row(c).id = c /\ Row(c).position \in Int
    BY <1>1, RowIs
  <1>e. \A c, d \in Live : <<c, d>> \in R <=> Before(Row(c), Row(d))
    OBVIOUS
  <1>d. s = Ordered(Live, R)
    BY DEF InTable
  <1> HIDE DEF R
  <1>b. \A c, d \in Live : Before(Row(c), Row(d)) <=>
            Row(c).position < Row(d).position \/ (Row(c).position = Row(d).position /\ c < d)
    BY <1>t DEF Before
  <1>2. StrictOrder(Live, R)
    <2>1. \A x \in Live : <<x, x>> \notin R
      BY <1>1, <1>t, <1>e, <1>b
    <2>2. \A x, y \in Live : x # y => <<x, y>> \in R \/ <<y, x>> \in R
      BY <1>1, <1>t, <1>e, <1>b
    <2>3. \A x, y, z \in Live : <<x, y>> \in R /\ <<y, z>> \in R => <<x, z>> \in R
      <3> SUFFICES ASSUME NEW x \in Live, NEW y \in Live, NEW z \in Live, <<x, y>> \in R, <<y, z>> \in R
                   PROVE  <<x, z>> \in R
        OBVIOUS
      <3> DEFINE a == Row(x).position
                 b == Row(y).position
                 c == Row(z).position
      <3>1. /\ a \in Int /\ b \in Int /\ c \in Int /\ x \in Nat /\ y \in Nat /\ z \in Nat
            /\ a < b \/ (a = b /\ x < y)
            /\ b < c \/ (b = c /\ y < z)
        BY <1>1, <1>t, <1>e, <1>b
      <3>2. a < c \/ (a = c /\ x < z)
        <4> HIDE DEF a, b, c
        <4> QED
          BY <3>1
      <3> QED
        BY <3>2, <1>e, <1>b
    <2> QED
      BY <2>1, <2>2, <2>3 DEF StrictOrder
  <1>3. /\ k \in Nat /\ s \in [1 .. k -> Live] /\ \A i \in Live : \E n \in 1 .. k : s[n] = i
        /\ \A m, n \in 1 .. k : m < n <=> <<s[m], s[n]>> \in R
    BY <1>1, <1>2, <1>d, OrderedIs
  <1> HIDE DEF k, s
  <1>4. \A m, n \in 1 .. k : m < n <=> Before(Row(s[m]), Row(s[n]))
    BY <1>3, <1>e
  <1>5. Listed = [n \in 1 .. k |-> Row(s[n])]
    BY <1>3 DEF Listed, s
  <1>6. Listed \in Seq(Item) /\ DOMAIN Listed = 1 .. k
    BY <1>3, <1>5, <1>t
  <1>7. \A n \in DOMAIN Listed : s[n] \in Live /\ Listed[n] = Row(s[n])
    BY <1>3, <1>5
  <1>8. Whole(Listed)
    <2> SUFFICES ASSUME NEW m \in 1 .. k, NEW n \in 1 .. k, m # n PROVE Listed[m].id # Listed[n].id
      BY <1>6 DEF Whole
    <2>1. m < n \/ n < m
      BY <1>3
    <2>2. s[m] \in Live /\ s[n] \in Live /\ Listed[m].id = s[m] /\ Listed[n].id = s[n]
      BY <1>3, <1>7, <1>6, <1>t
    <2>3. s[m] # s[n]
      BY <2>1, <2>2, <1>2, <1>3 DEF StrictOrder
    <2> QED
      BY <2>2, <2>3
  <1>9. Ids(Listed) = s
    <2>1. \A n \in 1 .. k : Listed[n].id = s[n]
      BY <1>7, <1>6, <1>t
    <2>2. Ids(Listed) = [n \in 1 .. k |-> Listed[n].id]
      BY <1>6 DEF Ids
    <2> QED
      BY <2>1, <2>2, <1>3
  <1> QED
    BY <1>3, <1>4, <1>6, <1>7, <1>8, <1>9 DEF k, s

\* The cache after a list: its versions, and for the other columns what it was.
LEMMA RememberedIs ==
  ASSUME ColumnsTypeOK, NEW items \in Seq(Item)
  PROVE  /\ Remembered(items) \in [1 .. Columns -> Nat]
         /\ \A c \in 1 .. Columns :
               IF WithId(items, c) = {} THEN Remembered(items)[c] = versions[c]
               ELSE \E i \in WithId(items, c) : Remembered(items)[c] = items[i].version
  <1>1. \A i \in DOMAIN items : items[i].version \in Nat
    <2>1. \A i \in DOMAIN items : items[i] \in Item
      OBVIOUS
    <2> QED
      BY <2>1 DEF Item
  <1>2. \A c : WithId(items, c) \in SUBSET DOMAIN items
    BY DEF WithId
  <1>3. versions \in [1 .. Columns -> Nat]
    BY DEF ColumnsTypeOK
  <1>4. \A c \in 1 .. Columns : WithId(items, c) # {} =>
           (CHOOSE i \in WithId(items, c) : TRUE) \in WithId(items, c)
    OBVIOUS
  <1> QED
    BY <1>1, <1>2, <1>3, <1>4 DEF Remembered

\* What is left of the requests when a row is written: all but that they were alone.
LEMMA DisturbedIs ==
  ASSUME ColumnsTypeOK, NEW rs
  PROVE  /\ Disturbed(rs) \in [Reorder -> ReorderType]
         /\ \A r \in Reorder : LET q == Disturbed(rs)[r] IN
               /\ q.stage = reorder[r].stage /\ q.asked = reorder[r].asked
               /\ q.previous = reorder[r].previous /\ q.left = reorder[r].left
               /\ q.nth = reorder[r].nth /\ q.answer = reorder[r].answer
               /\ q.stage = "writes" /\ q.alone => r \notin rs /\ reorder[r].alone
  <1>1. ASSUME NEW r \in Reorder
        PROVE  LET q == [reorder[r] EXCEPT !.alone = reorder[r].alone /\ ~(r \in rs /\ reorder[r].stage = "writes")] IN
               /\ q \in ReorderType
               /\ q.stage = reorder[r].stage /\ q.asked = reorder[r].asked
               /\ q.previous = reorder[r].previous /\ q.left = reorder[r].left
               /\ q.nth = reorder[r].nth /\ q.answer = reorder[r].answer
               /\ q.stage = "writes" /\ q.alone => r \notin rs /\ reorder[r].alone
    <2> DEFINE b == reorder[r].alone /\ ~(r \in rs /\ reorder[r].stage = "writes")
    <2>1. reorder[r] \in ReorderType /\ b \in BOOLEAN
      BY DEF ColumnsTypeOK
    <2>2. b /\ reorder[r].stage = "writes" => r \notin rs /\ reorder[r].alone
      OBVIOUS
    <2> HIDE DEF b
    <2>3. LET q == [reorder[r] EXCEPT !.alone = b] IN
               /\ q \in ReorderType
               /\ q.stage = reorder[r].stage /\ q.asked = reorder[r].asked
               /\ q.previous = reorder[r].previous /\ q.left = reorder[r].left
               /\ q.nth = reorder[r].nth /\ q.answer = reorder[r].answer
               /\ q.alone = b
      BY <2>1 DEF ReorderType
    <2> QED
      BY <2>2, <2>3 DEF b
  <1> QED
    BY <1>1 DEF Disturbed

\* The columns that the page shows after an answer, an event or a move.
LEMMA AppendedItems ==
  ASSUME columns \in Seq(Item), NEW x \in Item
  PROVE  LET t == WithAppended(x) IN
         /\ t \in Seq(Item) /\ \A i \in DOMAIN t : t[i] = x \/ \E j \in DOMAIN columns : t[i] = columns[j]
         /\ Whole(columns) /\ WithId(columns, x.id) = {} =>
               Whole(t) /\ \A i \in DOMAIN t : t[i].id = x.id => t[i] = x
  <1> DEFINE a == Append(columns, x)
             t == Sorted(a)
             n == Len(columns)
  <1>1. /\ n \in Nat /\ DOMAIN columns = 1 .. n /\ a \in Seq(Item) /\ DOMAIN a = 1 .. n + 1
        /\ a[n + 1] = x /\ \A i \in 1 .. n : a[i] = columns[i]
    OBVIOUS
  <1>d. WithAppended(x) = t
    BY DEF WithAppended
  <1> HIDE DEF a, n
  <1>2. t \in Seq(Item) /\ (Whole(a) => Whole(t)) /\ From(t, a)
    BY <1>1, SortedItems
  <1> HIDE DEF t
  <1>3. \A i \in DOMAIN a : a[i] = x \/ (i \in DOMAIN columns /\ a[i] = columns[i])
    BY <1>1
  <1>4. \A i \in DOMAIN t : t[i] = x \/ \E j \in DOMAIN columns : t[i] = columns[j]
    BY <1>2, <1>3 DEF From
  <1>5. ASSUME Whole(columns), WithId(columns, x.id) = {}
        PROVE  Whole(a) /\ \A i \in DOMAIN t : t[i].id = x.id => t[i] = x
    <2>1. \A j \in DOMAIN columns : columns[j].id # x.id
      BY <1>5 DEF WithId
    <2>2. \A i \in DOMAIN a : i \in 1 .. n \/ i = n + 1
      BY <1>1
    <2>3. Whole(a)
      BY <1>1, <1>5, <2>1, <2>2 DEF Whole
    <2> QED
      BY <2>1, <2>3, <1>4
  <1> QED
    BY <1>2, <1>4, <1>5, <1>d

LEMMA WithColumnItems ==
  ASSUME columns \in Seq(Item), NEW x \in Item
  PROVE  LET t == WithColumn(x) IN
         /\ t \in Seq(Item) /\ \A i \in DOMAIN t : t[i] = x \/ \E j \in DOMAIN columns : t[i] = columns[j]
         /\ Whole(columns) => Whole(t) /\ \A i \in DOMAIN t : t[i].id = x.id => t[i] = x
  <1> DEFINE a == Replaced(x)
             t == Sorted(a)
  <1>1. CASE WithId(columns, x.id) = {}
    BY <1>1, AppendedItems DEF WithColumn
  <1>2. CASE WithId(columns, x.id) # {}
    <2>d. WithColumn(x) = t
      BY <1>2 DEF WithColumn
    <2>1. /\ DOMAIN a = DOMAIN columns
          /\ \A i \in DOMAIN a : a[i] = IF columns[i].id = x.id /\ IsFirst(i) THEN x ELSE columns[i]
      BY DEF Replaced
    <2>2. \A i \in DOMAIN columns : columns[i] \in Item
      OBVIOUS
    <2>3. a \in Seq(Item)
      <3>1. a \in [1 .. Len(columns) -> Item] /\ Len(columns) \in Nat
        BY <2>2 DEF Replaced
      <3> HIDE DEF a
      <3> QED
        BY <3>1
    <2> HIDE DEF a
    <2>4. t \in Seq(Item) /\ (Whole(a) => Whole(t)) /\ From(t, a)
      BY <2>3, SortedItems
    <2> HIDE DEF t
    <2>5. \A i \in DOMAIN a : (a[i] = x \/ a[i] = columns[i]) /\ a[i].id = columns[i].id
      BY <2>1
    <2>6. \A i \in DOMAIN t : t[i] = x \/ \E j \in DOMAIN columns : t[i] = columns[j]
      BY <2>1, <2>4, <2>5 DEF From
    <2>7. ASSUME Whole(columns) PROVE Whole(a) /\ \A i \in DOMAIN t : t[i].id = x.id => t[i] = x
      <3>1. Whole(a)
        BY <2>1, <2>5, <2>7 DEF Whole
      <3>2. \A i \in DOMAIN columns : IsFirst(i)
        BY <2>7 DEF IsFirst, Whole
      <3>3. \A i \in DOMAIN a : a[i].id = x.id => a[i] = x
        BY <2>1, <2>5, <3>2
      <3> QED
        BY <3>1, <3>3, <2>4 DEF From
    <2> QED
      BY <2>4, <2>6, <2>7, <2>d
  <1> QED
    BY <1>1, <1>2

LEMMA WithoutColumnItems ==
  ASSUME columns \in Seq(Item), NEW c
  PROVE  /\ WithoutColumn(c) \in Seq(Item) /\ From(WithoutColumn(c), columns)
         /\ Whole(columns) => Whole(WithoutColumn(c))
         /\ \A i \in DOMAIN WithoutColumn(c) : WithoutColumn(c)[i].id # c
  <1> DEFINE I == DOMAIN columns \ WithId(columns, c)
  <1>1. I \in SUBSET DOMAIN columns /\ \A i \in I : i \in DOMAIN columns /\ columns[i].id # c
    BY DEF WithId
  <1>2. WithoutColumn(c) = Picked(columns, I)
    BY DEF WithoutColumn
  <1> HIDE DEF I
  <1> QED
    BY <1>1, <1>2, PickedItems DEF From

\* A move takes columns out and puts one back: the page shows the same ones, none twice.
LEMMA InsertAtIs ==
  ASSUME NEW s \in Seq(Item), NEW x \in Item, NEW j \in 1 .. Len(s) + 1
  PROVE  LET t == InsertAt(s, j, x) IN
         /\ t \in Seq(Item) /\ DOMAIN t = 1 .. Len(s) + 1
         /\ \A n \in DOMAIN t : t[n] = IF n < j THEN s[n] ELSE IF n = j THEN x ELSE s[n - 1]
  <1> DEFINE a == SubSeq(s, 1, j - 1)
             b == SubSeq(s, j, Len(s))
             k == Len(s)
  <1>1. /\ k \in Nat /\ j \in Nat /\ j <= k + 1 /\ a \in Seq(Item) /\ Len(a) = j - 1
        /\ \A n \in 1 .. j - 1 : a[n] = s[n]
    OBVIOUS
  <1>2. b \in Seq(Item) /\ Len(b) = k - j + 1 /\ \A n \in 1 .. k - j + 1 : b[n] = s[j + n - 1]
    OBVIOUS
  <1>3. InsertAt(s, j, x) = a \o <<x>> \o b
    BY DEF InsertAt
  <1> HIDE DEF a, b, k
  <1>4. /\ a \o <<x>> \in Seq(Item) /\ Len(a \o <<x>>) = j
        /\ \A n \in 1 .. j : (a \o <<x>>)[n] = IF n < j THEN s[n] ELSE x
    BY <1>1
  <1> DEFINE c == a \o <<x>>
  <1> HIDE DEF c
  <1>c. c \in Seq(Item) /\ Len(c) = j /\ InsertAt(s, j, x) = c \o b
    BY <1>3, <1>4 DEF c
  <1>5. /\ c \o b \in Seq(Item) /\ Len(c \o b) = k + 1 /\ DOMAIN (c \o b) = 1 .. k + 1
        /\ \A n \in 1 .. k + 1 : (c \o b)[n] = IF n <= j THEN c[n] ELSE b[n - j]
    <2>1. /\ c \o b \in Seq(Item) /\ Len(c \o b) = Len(c) + Len(b)
          /\ \A n \in 1 .. Len(c) + Len(b) :
                (c \o b)[n] = IF n <= Len(c) THEN c[n] ELSE b[n - Len(c)]
      <3>1. c \in Seq(Item) /\ b \in Seq(Item)
        BY <1>2, <1>c
      <3> QED
        BY <3>1, ConcatProperties
    <2>2. Len(c) + Len(b) = k + 1
      BY <1>1, <1>2, <1>c
    <2>3. DOMAIN (c \o b) = 1 .. Len(c \o b)
      BY <2>1, LenProperties
    <2> HIDE DEF c
    <2> QED
      BY <2>1, <2>2, <2>3, <1>c
  <1>6. \A n \in 1 .. k + 1 : (c \o b)[n] = IF n < j THEN s[n] ELSE IF n = j THEN x ELSE s[n - 1]
    <2> SUFFICES ASSUME NEW n \in 1 .. k + 1
                 PROVE  (c \o b)[n] = IF n < j THEN s[n] ELSE IF n = j THEN x ELSE s[n - 1]
      OBVIOUS
    <2>1. CASE n <= j
      <3>1. n \in 1 .. j /\ (n < j \/ n = j)
        BY <2>1, <1>1
      <3> QED
        BY <3>1, <2>1, <1>1, <1>4, <1>5 DEF c
    <2>2. CASE ~(n <= j)
      <3>1. n - j \in 1 .. k - j + 1 /\ j + (n - j) - 1 = n - 1 /\ ~(n < j) /\ n # j
        BY <2>2, <1>1
      <3> QED
        BY <3>1, <2>2, <1>2, <1>5
    <2> QED
      BY <2>1, <2>2
  <1> QED
    BY <1>1, <1>c, <1>5, <1>6 DEF k

LEMMA MovedItems ==
  ASSUME columns \in Seq(Item), NEW i \in DOMAIN columns, NEW next \in Moved(i) \cup Dropped(i)
  PROVE  /\ next \in Seq(Item) /\ From(next, columns) /\ (Whole(columns) => Whole(next))
  <1> DEFINE x == columns[i]
  <1>1. PICK rest, j :
          /\ rest \in Seq(Item) /\ From(rest, columns) /\ j \in 1 .. Len(rest) + 1
          /\ next = InsertAt(rest, j, x)
          /\ Whole(columns) => Whole(rest) /\ \A n \in DOMAIN rest : rest[n].id # x.id
    <2>1. CASE next \in Dropped(i)
      <3> DEFINE rest == WithoutColumn(x.id)
      <3>1. PICK j \in 1 .. Len(rest) + 1 : next = InsertAt(rest, j, x)
        BY <2>1 DEF Dropped, Placed
      <3> HIDE DEF x
      <3>2. /\ rest \in Seq(Item) /\ From(rest, columns) /\ (Whole(columns) => Whole(rest))
            /\ \A n \in DOMAIN rest : rest[n].id # x.id
        BY WithoutColumnItems
      <3> QED
        BY <3>1, <3>2
    <2>2. CASE next \in Moved(i)
      <3> DEFINE I == DOMAIN columns \ {i}
                 rest == Picked(columns, I)
      <3>1. PICK j \in {i - 1, i + 1} \cap DOMAIN columns : next = InsertAt(rest, j, x)
        BY <2>2 DEF Moved, Placed
      <3>2. /\ rest \in Seq(Item) /\ (Whole(columns) => Whole(rest))
            /\ \A n \in DOMAIN rest : \E m \in I : rest[n] = columns[m]
        <4>1. I \in SUBSET DOMAIN columns
          OBVIOUS
        <4> HIDE DEF I
        <4> QED
          BY <4>1, PickedItems
      <3>3. j \in 1 .. Len(rest) + 1
        <4>1. Len(columns) \in Nat /\ DOMAIN columns = 1 .. Len(columns)
          OBVIOUS
        <4>2. IsFiniteSet(DOMAIN columns) /\ Cardinality(DOMAIN columns) = Len(columns)
          <5>1. IsFiniteSet(1 .. Len(columns)) /\ Cardinality(1 .. Len(columns)) = Len(columns)
            BY <4>1, PlacesFinite
          <5> QED
            BY <5>1, <4>1
        <4>3. Cardinality(I) = Len(columns) - 1
          <5>1. Cardinality(DOMAIN columns \ {i}) = Cardinality(DOMAIN columns) - 1
            BY <4>2, FS_RemoveElement
          <5> QED
            BY <4>2, <5>1
        <4>4. I \in SUBSET DOMAIN columns
          OBVIOUS
        <4>5. Len(rest) = Len(columns) - 1
          <5> HIDE DEF I
          <5> QED
            BY <4>3, <4>4, PickedIs
        <4> QED
          BY <4>1, <4>5
      <3>4. Whole(columns) => \A m \in I : columns[m].id # x.id
        BY DEF Whole
      <3>5. From(rest, columns)
        BY <3>2 DEF From
      <3> HIDE DEF I, rest, x
      <3> QED
        <4>1. /\ rest \in Seq(Item) /\ From(rest, columns) /\ j \in 1 .. Len(rest) + 1
              /\ next = InsertAt(rest, j, x)
              /\ Whole(columns) => Whole(rest) /\ \A n \in DOMAIN rest : rest[n].id # x.id
          <5>1. ASSUME Whole(columns), NEW n \in DOMAIN rest PROVE rest[n].id # x.id
            <6>1. PICK m \in I : rest[n] = columns[m]
              BY <3>2
            <6> QED
              BY <3>4, <5>1, <6>1
          <5> QED
            BY <3>1, <3>2, <3>3, <3>5, <5>1
        <4> QED
          BY <4>1
    <2> QED
      BY <2>1, <2>2
  <1>2. x \in Item
    OBVIOUS
  <1> HIDE DEF x
  <1>3. /\ next \in Seq(Item) /\ DOMAIN next = 1 .. Len(rest) + 1
        /\ \A n \in DOMAIN next : next[n] = IF n < j THEN rest[n] ELSE IF n = j THEN x ELSE rest[n - 1]
    BY <1>1, <1>2, InsertAtIs
  <1>4. Len(rest) \in Nat /\ DOMAIN rest = 1 .. Len(rest) /\ j \in Nat
    BY <1>1
  <1>p. \A n \in DOMAIN next : n \in 1 .. Len(rest) + 1 /\ (n < j => n \in DOMAIN rest)
                              /\ (n > j => n - 1 \in DOMAIN rest) /\ (n < j \/ n = j \/ n > j)
    BY <1>1, <1>3, <1>4
  <1>5. From(next, columns)
    <2> SUFFICES ASSUME NEW n \in DOMAIN next PROVE \E m \in DOMAIN columns : next[n] = columns[m]
      BY DEF From
    <2>1. CASE n < j
      BY <2>1, <1>1, <1>3, <1>p DEF From
    <2>2. CASE n = j
      <3>1. next[n] = x
        BY <2>2, <1>3, <1>4
      <3> QED
        BY <3>1 DEF x
    <2>3. CASE n > j
      <3>1. next[n] = rest[n - 1] /\ n - 1 \in DOMAIN rest
        BY <2>3, <1>3, <1>4, <1>p
      <3> QED
        BY <3>1, <1>1 DEF From
    <2> QED
      BY <2>1, <2>2, <2>3, <1>p
  <1>6. ASSUME Whole(columns) PROVE Whole(next)
    <2>1. \A m, n \in DOMAIN rest : m # n => rest[m].id # rest[n].id
      BY <1>1, <1>6 DEF Whole
    <2>2. \A n \in DOMAIN rest : rest[n].id # x.id
      BY <1>1, <1>6
    <2>3. \A m, n \in DOMAIN next : m < n => next[m].id # next[n].id
      <3> SUFFICES ASSUME NEW m \in DOMAIN next, NEW n \in DOMAIN next, m < n
                   PROVE  next[m].id # next[n].id
        OBVIOUS
      <3>0. m \in Nat /\ n \in Nat
        BY <1>3, <1>4
      <3>1. CASE n < j
        BY <3>0, <3>1, <2>1, <1>3, <1>4, <1>p
      <3>2. CASE n = j
        BY <3>0, <3>2, <2>2, <1>3, <1>4, <1>p
      <3>3. CASE n > j
        <4>1. next[n] = rest[n - 1] /\ n - 1 \in DOMAIN rest
          BY <3>3, <3>0, <1>3, <1>4, <1>p
        <4>2. CASE m < j
          <5>1. next[m] = rest[m] /\ m \in DOMAIN rest /\ m # n - 1
            BY <4>2, <3>3, <3>0, <1>3, <1>4, <1>p
          <5> QED
            BY <4>1, <5>1, <2>1
        <4>3. CASE m = j
          <5>1. next[m] = x
            BY <4>3, <1>3, <1>4
          <5> QED
            BY <4>1, <5>1, <2>2
        <4>4. CASE m > j
          <5>1. next[m] = rest[m - 1] /\ m - 1 \in DOMAIN rest /\ m - 1 # n - 1
            BY <4>4, <3>0, <1>3, <1>4, <1>p
          <5> QED
            BY <4>1, <5>1, <2>1
        <4> QED
          BY <4>2, <4>3, <4>4, <1>p
      <3> QED
        BY <3>1, <3>2, <3>3, <1>p
    <2>4. \A m, n \in DOMAIN next : m # n => m < n \/ n < m
      BY <1>3, <1>4
    <2> QED
      BY <2>3, <2>4 DEF Whole
  <1> QED
    BY <1>3, <1>5, <1>6

\* One row written.
RowType == [live : BOOLEAN, position : Int, version : Nat, title : Nat]

LEMMA RowInIs ==
  ASSUME NEW rs, NEW c \in 1 .. Columns, rs[c] \in RowType
  PROVE  /\ RowIn(rs, c) \in Item /\ RowIn(rs, c).id = c /\ RowIn(rs, c).version = rs[c].version
         /\ RowIn(rs, c).title = rs[c].title
  BY DEF RowIn, Item, RowType

LEMMA WrittenIs ==
  ASSUME TableOK, NEW c \in 1 .. Columns
  PROVE  /\ Written(c) \in [1 .. Columns -> RowType]
         /\ \A d \in 1 .. Columns : d # c => Written(c)[d] = rows[d]
         /\ Written(c)[c].live /\ Written(c)[c].position = rows[c].position
         /\ Written(c)[c].version = rows[c].version + 1 /\ Written(c)[c].title = rows[c].version + 1
  <1>1. rows[c] \in RowType /\ rows \in [1 .. Columns -> RowType]
    BY DEF TableOK, RowType
  <1> DEFINE r == [live |-> TRUE, position |-> rows[c].position,
                   version |-> rows[c].version + 1, title |-> rows[c].version + 1]
  <1>2. /\ r \in RowType /\ r.live /\ r.position = rows[c].position /\ r.version = rows[c].version + 1
        /\ r.title = rows[c].version + 1
    BY <1>1 DEF RowType
  <1>3. Written(c) = [rows EXCEPT ![c] = r]
    BY DEF Written
  <1> HIDE DEF r
  <1> QED
    BY <1>1, <1>2, <1>3

LEMMA PositionedIs ==
  ASSUME TableOK, NEW c \in 1 .. Columns, NEW p \in Nat
  PROVE  /\ Positioned(c, p) \in [1 .. Columns -> RowType]
         /\ \A d \in 1 .. Columns : d # c => Positioned(c, p)[d] = rows[d]
         /\ Positioned(c, p)[c].live /\ Positioned(c, p)[c].position = p
         /\ Positioned(c, p)[c].version = rows[c].version + 1 /\ Positioned(c, p)[c].title = rows[c].title
  <1>1. rows[c] \in RowType /\ rows \in [1 .. Columns -> RowType]
    BY DEF TableOK, RowType
  <1> DEFINE r == [live |-> TRUE, position |-> p, version |-> rows[c].version + 1, title |-> rows[c].title]
  <1>2. /\ r \in RowType /\ r.live /\ r.position = p /\ r.version = rows[c].version + 1
        /\ r.title = rows[c].title
    BY <1>1 DEF RowType
  <1>3. Positioned(c, p) = [rows EXCEPT ![c] = r]
    BY DEF Positioned
  <1> HIDE DEF r
  <1> QED
    BY <1>1, <1>2, <1>3

LEMMA AskingIs ==
  ASSUME NEW asked \in Seq(1 .. Columns), NEW items \in Seq(Item), NEW prev \in Seq(Item)
  PROVE  LET q == Asking(asked, Versions(items), prev) IN
         /\ q \in ReorderType /\ q.stage = "sent" /\ q.answer = <<>> /\ q.asked = asked
         /\ q.previous = prev
  <1> DEFINE v == Versions(items)
  <1>1. v \subseteq [id : 1 .. Columns, version : Nat]
    <2>1. \A i \in DOMAIN items : items[i].id \in 1 .. Columns /\ items[i].version \in Nat
      <3>1. \A i \in DOMAIN items : items[i] \in Item
        OBVIOUS
      <3> QED
        BY <3>1 DEF Item
    <2> QED
      BY <2>1 DEF Versions
  <1> HIDE DEF v
  <1>2. <<>> \in Seq(1 .. Columns) /\ <<>> \in Seq(Item)
    OBVIOUS
  <1>3. LET q == Asking(asked, v, prev) IN
         /\ q \in ReorderType /\ q.stage = "sent" /\ q.answer = <<>> /\ q.asked = asked
         /\ q.previous = prev
    BY <1>1, <1>2 DEF Asking, ReorderType
  <1> QED
    BY <1>3 DEF v

LEMMA NoReorderIs ==
  /\ NoReorder \in ReorderType /\ NoReorder.stage = "none" /\ NoReorder.answer = <<>>
  /\ LET q == [NoReorder EXCEPT !.stage = "done"] IN
        q \in ReorderType /\ q.stage = "done" /\ q.answer = <<>>
  <1> DEFINE a == Asking(<<>>, {}, <<>>)
  <1>1. a \in ReorderType /\ a.answer = <<>>
    <2>1. <<>> \in Seq(1 .. Columns) /\ <<>> \in Seq(Item)
      OBVIOUS
    <2> QED
      BY <2>1 DEF Asking, ReorderType
  <1>2. NoReorder = [a EXCEPT !.stage = "none"]
    BY DEF NoReorder
  <1> HIDE DEF a
  <1>3. NoReorder \in ReorderType /\ NoReorder.stage = "none" /\ NoReorder.answer = <<>>
    BY <1>1, <1>2 DEF ReorderType
  <1>4. LET q == [NoReorder EXCEPT !.stage = "done"] IN
        q \in ReorderType /\ q.stage = "done" /\ q.answer = <<>>
    BY <1>3 DEF ReorderType
  <1> QED
    BY <1>3, <1>4

LEMMA SendingIs ==
  ASSUME NEW id \in Nat, NEW base \in Nat, NEW match \in Nat
  PROVE  LET q == Sending(id, base, match) IN
         /\ q \in RenameType /\ q.stage = "sent" /\ q.id = id /\ q.base = base /\ q.match = match
         /\ q.answer = <<>>
  <1>1. <<>> \in Seq(Item)
    OBVIOUS
  <1> QED
    BY <1>1 DEF Sending, RenameType

LEMMA NoRenameIs ==
  /\ NoRename \in RenameType /\ NoRename.stage = "none" /\ NoRename.answer = <<>>
  /\ Answered \in RenameType /\ Answered.stage = "done" /\ Answered.answer = <<>>
  <1> DEFINE a == Sending(1, 0, 0)
  <1>1. a \in RenameType /\ a.answer = <<>>
    BY SendingIs
  <1>2. NoRename = [a EXCEPT !.stage = "none"] /\ Answered = [a EXCEPT !.stage = "done"]
    BY DEF NoRename, Answered
  <1> HIDE DEF a
  <1> QED
    BY <1>1, <1>2 DEF RenameType

\* The steps of a request.
LEMMA StepsIs ==
  ASSUME NEW q \in ReorderType
  PROVE  /\ \A s \in {"refused", "writes", "failed", "accepted"} :
               LET p == [q EXCEPT !.stage = s] IN
               /\ p \in ReorderType /\ p.stage = s /\ p.asked = q.asked /\ p.previous = q.previous
               /\ p.left = q.left /\ p.nth = q.nth /\ p.alone = q.alone /\ p.answer = q.answer
         /\ \A items \in Seq(Item) :
               LET p == [q EXCEPT !.answer = items] IN
               /\ p \in ReorderType /\ p.stage = q.stage /\ p.asked = q.asked /\ p.previous = q.previous
               /\ p.left = q.left /\ p.nth = q.nth /\ p.alone = q.alone /\ p.answer = items
         /\ \A left \in Seq(1 .. Columns) :
               LET p == [q EXCEPT !.left = left] IN
               /\ p \in ReorderType /\ p.stage = q.stage /\ p.asked = q.asked /\ p.previous = q.previous
               /\ p.left = left /\ p.nth = q.nth /\ p.alone = q.alone /\ p.answer = q.answer
         /\ \A n \in Nat :
               LET p == [q EXCEPT !.nth = n] IN
               /\ p \in ReorderType /\ p.stage = q.stage /\ p.asked = q.asked /\ p.previous = q.previous
               /\ p.left = q.left /\ p.nth = n /\ p.alone = q.alone /\ p.answer = q.answer
  BY DEF ReorderType

LEMMA TellIs ==
  ASSUME NewsOK, NEW kind \in {"created", "updated", "deleted", "reordered"},
         NEW own \in BOOLEAN, NEW items \in Seq(Item), kind # "reordered" => Len(items) = 1,
         Tell(kind, own, items)
  PROVE  NewsOK'
  <1>1. [kind |-> kind, own |-> own, items |-> items] \in News
    BY DEF News
  <1> QED
    BY <1>1 DEF Tell, NewsOK

LEMMA OneItem ==
  ASSUME NEW x \in Item
  PROVE  <<x>> \in Seq(Item) /\ Len(<<x>>) = 1 /\ DOMAIN <<x>> = {1} /\ <<x>>[1] = x
  OBVIOUS

LEMMA FinalOrderType ==
  ASSUME TableOK, NEW asked \in Seq(1 .. Columns)
  PROVE  FinalOrder(asked) \in Seq(1 .. Columns)
  <1>1. Named(asked) \in Seq(1 .. Columns)
    <2> DEFINE I == {i \in DOMAIN asked : asked[i] \in Live /\ \A j \in 1 .. i - 1 : asked[j] # asked[i]}
    <2>1. I \in SUBSET DOMAIN asked
      OBVIOUS
    <2>2. Named(asked) = Picked(asked, I)
      BY DEF Named
    <2> HIDE DEF I
    <2> QED
      BY <2>1, <2>2, PickedIs
  <1>2. InTable \in Seq(1 .. Columns)
    <2>1. Cardinality(Live) \in Nat /\ InTable \in [1 .. Cardinality(Live) -> Live]
      BY ListedIs
    <2>2. InTable \in [1 .. Cardinality(Live) -> 1 .. Columns]
      BY <2>1, LiveIs
    <2> QED
      BY <2>1, <2>2
  <1>3. Unnamed(asked) \in Seq(1 .. Columns)
    <2> DEFINE I == {n \in DOMAIN InTable : InTable[n] \notin ToSet(asked)}
    <2>1. I \in SUBSET DOMAIN InTable
      OBVIOUS
    <2>2. Unnamed(asked) = Picked(InTable, I)
      BY DEF Unnamed
    <2> HIDE DEF I
    <2> QED
      BY <1>2, <2>1, <2>2, PickedIs
  <1> QED
    BY <1>1, <1>3 DEF FinalOrder

\* The types hold at first and after each action.
LEMMA InitColumns == ColumnsInit => ColumnsTypeOK
  <1> SUFFICES ASSUME ColumnsInit PROVE ColumnsTypeOK
    OBVIOUS
  <1>1. TableOK
    <2>1. rows = [c \in 1 .. Columns |->
                    [live |-> c <= Existing, position |-> c - 1, version |-> 1, title |-> 0]]
      BY DEF ColumnsInit
    <2>2. \A c \in 1 .. Columns :
             [live |-> c <= Existing, position |-> c - 1, version |-> 1, title |-> 0] \in
                [live : BOOLEAN, position : Int, version : Nat, title : Nat]
      BY ColumnConstants
    <2> QED
      BY <2>1, <2>2, ColumnConstants DEF ColumnsInit, TableOK
  <1>2. columns \in Seq(Item)
    BY <1>1, ListedIs DEF ColumnsInit
  <1>3. CreatingOK
    BY DEF CreatingOK, ColumnsInit
  <1>4. reorder \in [Reorder -> ReorderType]
    BY NoReorderIs DEF ColumnsInit
  <1>5. RenameOK
    BY NoRenameIs DEF ColumnsInit, RenameOK
  <1>6. versions \in [1 .. Columns -> Nat] /\ NewsOK /\ lists \subseteq Seq(Item)
    BY DEF ColumnsInit, NewsOK
  <1>7. CountsOK
    BY DEF ColumnsInit, CountsOK
  <1> QED
    BY <1>1, <1>2, <1>3, <1>4, <1>5, <1>6, <1>7, TypeParts

\* The services' writes.
LEMMA OneWritten ==
  ASSUME TableOK, NEW c \in 1 .. Columns, rows' = Written(c), UNCHANGED created
  PROVE  TableOK' /\ RowIn(rows', c) \in Item /\ RowIn(rows', c).id = c
  <1>1. Written(c) \in [1 .. Columns -> RowType]
    BY WrittenIs
  <1> QED
    BY <1>1, RowInIs DEF TableOK, RowType

LEMMA MaxIs ==
  ASSUME TableOK PROVE MaxPosition \in Int
  <1>1. CASE Live = {}
    BY <1>1 DEF MaxPosition
  <1>2. CASE Live # {}
    <2> DEFINE k == Cardinality(Live)
    <2>1. k \in Nat /\ InTable \in [1 .. k -> Live] /\ \A c \in Live : \E n \in 1 .. k : InTable[n] = c
      BY ListedIs
    <2>2. k \in 1 .. k
      BY <1>2, <2>1
    <2>3. InTable[k] \in Live
      BY <2>1, <2>2
    <2>4. rows[InTable[k]].position \in Int
      BY <2>3, LiveIs, RowIs
    <2> QED
      BY <1>2, <2>4 DEF MaxPosition
  <1> QED
    BY <1>1, <1>2

LEMMA NewRowIs ==
  ASSUME TableOK, created < Columns, created' = created + 1, NEW max \in Int,
         rows' = [rows EXCEPT ![created'] = NewRow(max)]
  PROVE  /\ TableOK' /\ RowIn(rows', created') \in Item /\ created' \in 1 .. Columns
         /\ \A d \in 1 .. created : rows'[d] = rows[d]
         /\ rows'[created'] = NewRow(max) /\ RowIn(rows', created').id = created'
         /\ RowIn(rows', created').version = 1 /\ RowIn(rows', created').title = 0
  <1>1. created \in Nat /\ created' \in 1 .. Columns /\ Existing <= created
    BY LiveIs, ColumnConstants DEF TableOK
  <1>2. /\ NewRow(max) \in RowType /\ NewRow(max).version = 1 /\ NewRow(max).title = 0
    BY DEF NewRow, RowType
  <1>3. rows \in [1 .. Columns -> RowType]
    BY DEF TableOK, RowType
  <1>4. rows' \in [1 .. Columns -> RowType] /\ rows'[created'] = NewRow(max)
        /\ \A d \in 1 .. created : rows'[d] = rows[d]
    BY <1>1, <1>2, <1>3
  <1>5. /\ RowIn(rows', created') \in Item /\ RowIn(rows', created').id = created'
        /\ RowIn(rows', created').version = 1 /\ RowIn(rows', created').title = 0
    BY <1>1, <1>2, <1>4 DEF RowIn, Item, RowType
  <1>6. TableOK'
    BY <1>1, <1>4, ColumnConstants DEF TableOK, RowType
  <1> QED
    BY <1>1, <1>4, <1>5, <1>6

LEMMA DeletedIs ==
  ASSUME TableOK, NEW c \in 1 .. Columns, rows' = [rows EXCEPT ![c].live = FALSE], UNCHANGED created
  PROVE  /\ TableOK'
         /\ \A d \in 1 .. Columns : rows'[d].version = rows[d].version /\ rows'[d].title = rows[d].title
                                     /\ rows'[d].position = rows[d].position
  <1>1. rows[c] \in RowType /\ rows \in [1 .. Columns -> RowType]
    BY DEF TableOK, RowType
  <1> DEFINE r == [rows[c] EXCEPT !.live = FALSE]
  <1>2. /\ r \in RowType /\ r.version = rows[c].version /\ r.title = rows[c].title
        /\ r.position = rows[c].position
    BY <1>1 DEF RowType
  <1>3. rows' = [rows EXCEPT ![c] = r]
    OBVIOUS
  <1> HIDE DEF r
  <1> QED
    BY <1>1, <1>2, <1>3 DEF TableOK, RowType

LEMMA NextColumnTypes == ColumnsTypeOK /\ [ColumnsNext]_columnVars => ColumnsTypeOK'
  <1> SUFFICES ASSUME ColumnsTypeOK, [ColumnsNext]_columnVars PROVE ColumnsTypeOK'
    OBVIOUS
  <1>0. /\ TableOK /\ CreatingOK /\ reorder \in [Reorder -> ReorderType] /\ RenameOK
        /\ columns \in Seq(Item) /\ versions \in [1 .. Columns -> Nat]
        /\ NewsOK /\ lists \subseteq Seq(Item) /\ CountsOK
    BY TypeParts
  <1>d. \A rs : Disturbed(rs) \in [Reorder -> ReorderType]
    BY DisturbedIs
  <1>n. created \in Nat /\ created <= Columns
    BY <1>0, LiveIs
  <1>w. CountWrite /\ UNCHANGED <<gets, asking>> /\ blurred' \in BOOLEAN => CountsOK'
    BY <1>0 DEF CountWrite, CountsOK
  <1>q. ASSUME NEW r \in Reorder, NEW q \in ReorderType PROVE [reorder EXCEPT ![r] = q] \in [Reorder -> ReorderType]
    BY <1>0
  <1>l. Listed \in Seq(Item)
    BY <1>0, ListedIs
  <1>v. \A items \in Seq(Item) : Remembered(items) \in [1 .. Columns -> Nat]
    BY RememberedIs
  <1>1. CASE OthersRename
    <2>1. PICK c \in Live, own \in BOOLEAN :
            rows' = Written(c) /\ Tell("updated", own, <<RowIn(rows', c)>>)
      BY <1>1 DEF OthersRename
    <2>2. UNCHANGED <<created, creating, rename, shown, lists, gets, asking, blurred>> /\ CountWrite
          /\ reorder' = Disturbed(Reorder)
      BY <1>1 DEF OthersRename
    <2>3. TableOK' /\ RowIn(rows', c) \in Item
      BY <1>0, <2>1, <2>2, LiveIs, OneWritten
    <2>4. NewsOK'
      BY <1>0, <2>1, <2>3, OneItem, TellIs
    <2>5. CountsOK' /\ CreatingOK'
      BY <1>0, <1>w, <1>n, <2>2, PartsStay DEF CountsOK
    <2> QED
      BY <1>0, <1>d, <2>2, <2>3, <2>4, <2>5, PartsStay, TypePartsNext DEF shown
  <1>2. CASE OthersCreate
    <2>1. /\ created < Columns /\ created' = created + 1 /\ CountWrite
          /\ rows' = [rows EXCEPT ![created'] = NewRow(MaxPosition)]
          /\ Tell("created", FALSE, <<RowIn(rows', created')>>) /\ reorder' = Disturbed(Reorder)
          /\ UNCHANGED <<creating, rename, shown, lists, gets, asking, blurred>>
      BY <1>2 DEF OthersCreate
    <2>2. TableOK' /\ RowIn(rows', created') \in Item
      BY <1>0, <2>1, MaxIs, NewRowIs
    <2>3. NewsOK'
      BY <1>0, <2>1, <2>2, OneItem, TellIs
    <2>4. CountsOK' /\ CreatingOK'
      BY <1>0, <1>w, <1>n, <2>1, PartsStay DEF CountsOK
    <2> QED
      BY <1>0, <1>d, <2>1, <2>2, <2>3, <2>4, PartsStay, TypePartsNext DEF shown
  <1>3. CASE OthersDelete
    <2>1. PICK c \in Live : Delete(c) /\ Tell("deleted", FALSE, <<Row(c)>>)
      BY <1>3 DEF OthersDelete
    <2>2. /\ rows' = [rows EXCEPT ![c].live = FALSE] /\ reorder' = Disturbed(Reorder)
          /\ UNCHANGED <<created, creating, rename, shown, lists, blurred>>
          /\ UNCHANGED <<gets, asking>> /\ CountWrite
      BY <1>3, <2>1 DEF OthersDelete, Delete
    <2>3. TableOK' /\ Row(c) \in Item
      BY <1>0, <2>2, LiveIs, DeletedIs, RowIs
    <2>4. NewsOK'
      BY <1>0, <2>1, <2>3, OneItem, TellIs
    <2>5. CountsOK' /\ CreatingOK'
      BY <1>0, <1>w, <1>n, <2>2, PartsStay DEF CountsOK
    <2> QED
      BY <1>0, <1>d, <2>2, <2>3, <2>4, <2>5, PartsStay, TypePartsNext DEF shown
  <1>4. CASE DeleteColumn
    <2>1. PICK i \in DOMAIN columns : columns[i].id \in Live /\ Delete(columns[i].id)
      BY <1>4 DEF DeleteColumn
    <2>2. /\ rows' = [rows EXCEPT ![columns[i].id].live = FALSE] /\ reorder' = Disturbed(Reorder)
          /\ UNCHANGED <<created, creating, rename, shown, lists, blurred>>
          /\ UNCHANGED news /\ CountWrite /\ AskOnce
      BY <1>4, <2>1 DEF DeleteColumn, Delete
    <2>3. TableOK'
      BY <1>0, <2>1, <2>2, LiveIs, DeletedIs
    <2>5. CountsOK' /\ CreatingOK'
      BY <1>0, <1>n, <2>2, PartsStay DEF CountsOK, CountWrite, AskOnce
    <2> QED
      BY <1>0, <1>d, <2>2, <2>3, <2>5, PartsStay, TypePartsNext DEF shown
  <1>5. ASSUME NEW r \in Reorder, CheckVersions(r) PROVE ColumnsTypeOK'
    <2> DEFINE a == [reorder[r] EXCEPT !.stage = "refused"]
               b == [reorder[r] EXCEPT !.stage = "writes"]
               f == FinalOrder(reorder[r].asked)
    <2>1. reorder[r] \in ReorderType /\ f \in Seq(1 .. Columns)
      <3>1. reorder[r] \in ReorderType
        BY <1>0
      <3>2. reorder[r].asked \in Seq(1 .. Columns)
        BY <3>1 DEF ReorderType
      <3> QED
        BY <1>0, <3>1, <3>2, FinalOrderType
    <2>2. a \in ReorderType /\ b \in ReorderType
      BY <2>1, StepsIs
    <2>3. reorder' = [reorder EXCEPT ![r] = [a EXCEPT !.answer = Listed]]
          \/ reorder' = [reorder EXCEPT ![r] = [b EXCEPT !.left = f]]
      BY <1>5 DEF CheckVersions
    <2> HIDE DEF a, b, f
    <2>4. [a EXCEPT !.answer = Listed] \in ReorderType /\ [b EXCEPT !.left = f] \in ReorderType
      BY <1>l, <2>1, <2>2, StepsIs
    <2>5. reorder' \in [Reorder -> ReorderType]
      BY <1>q, <2>3, <2>4
    <2>6. UNCHANGED <<table, creating, rename, shown, news, lists, counts, blurred>>
      BY <1>5 DEF CheckVersions
    <2> QED
      BY <1>0, <2>5, <2>6, PartsStay, TypePartsNext DEF shown
  <1>6. ASSUME NEW r \in Reorder, WritePosition(r) PROVE ColumnsTypeOK'
    <2> DEFINE c == Head(reorder[r].left)
    <2>1. reorder[r] \in ReorderType /\ reorder[r].left \in Seq(1 .. Columns) /\ reorder[r].nth \in Nat
          /\ reorder[r].left # <<>>
      <3>1. reorder[r] \in ReorderType
        BY <1>0
      <3> QED
        BY <1>6, <3>1 DEF ReorderType, WritePosition
    <2>2. UNCHANGED <<created, creating, rename, shown, news, lists, counts, blurred>>
      BY <1>6 DEF WritePosition
    <2>3. CASE rows[c].live
      <3>1. /\ rows' = Positioned(c, reorder[r].nth)
            /\ reorder' = [Disturbed(Reorder \ {r}) EXCEPT ![r] = Advanced(r)]
        BY <1>6, <2>3 DEF WritePosition
      <3>2. Advanced(r) \in ReorderType
        <4> DEFINE t == [reorder[r] EXCEPT !.left = Tail(reorder[r].left)]
        <4>1. Tail(reorder[r].left) \in Seq(1 .. Columns)
          BY <2>1, HeadTailProperties
        <4>2. reorder[r].nth + 1 \in Nat
          BY <2>1
        <4> HIDE DEF t
        <4> QED
          BY <2>1, <4>1, <4>2 DEF Advanced, ReorderType
      <3>3. reorder' \in [Reorder -> ReorderType]
        BY <1>d, <3>1, <3>2
      <3>4. c \in 1 .. Columns
        BY <2>1, HeadTailProperties
      <3>5. Positioned(c, reorder[r].nth) \in [1 .. Columns -> RowType]
        <4> DEFINE n == reorder[r].nth
                   p == [live |-> TRUE, position |-> n, version |-> rows[c].version + 1, title |-> rows[c].title]
        <4> HIDE DEF c, n
        <4>1. rows \in [1 .. Columns -> RowType] /\ rows[c] \in RowType
          BY <1>0, <3>4 DEF TableOK, RowType
        <4>n. n \in Int /\ rows[c].version + 1 \in Nat /\ rows[c].title \in Nat
          BY <2>1, <4>1 DEF RowType, n
        <4>2. p \in RowType
          BY <4>n DEF RowType
        <4>3. Positioned(c, n) = [rows EXCEPT ![c] = p]
          BY DEF Positioned
        <4> HIDE DEF p
        <4> QED
          BY <3>4, <4>1, <4>2, <4>3 DEF n
      <3>6. TableOK'
        BY <1>0, <2>2, <3>1, <3>5 DEF TableOK, RowType
      <3>7. CountsOK' /\ CreatingOK'
        BY <1>0, <1>n, <2>2, PartsStay
      <3> QED
        BY <1>0, <2>2, <3>3, <3>6, <3>7, PartsStay, TypePartsNext DEF shown
    <2>4. CASE ~rows[c].live
      <3>1. reorder' = [reorder EXCEPT ![r] = [reorder[r] EXCEPT !.stage = "failed"]] /\ UNCHANGED rows
        BY <1>6, <2>4 DEF WritePosition
      <3>2. [reorder[r] EXCEPT !.stage = "failed"] \in ReorderType
        BY <2>1, StepsIs
      <3>3. reorder' \in [Reorder -> ReorderType]
        BY <1>q, <3>1, <3>2
      <3> QED
        BY <1>0, <2>2, <3>1, <3>3, PartsStay, TypePartsNext DEF shown, table
    <2> QED
      BY <2>3, <2>4
  <1>7. ASSUME NEW r \in Reorder, EndReorder(r) PROVE ColumnsTypeOK'
    <2>1. UNCHANGED <<table, creating, rename, shown, lists, counts, blurred>>
      BY <1>7 DEF EndReorder
    <2> DEFINE a == [reorder[r] EXCEPT !.stage = "accepted"]
    <2>2. reorder[r] \in ReorderType /\ a \in ReorderType
      BY <1>0, StepsIs
    <2>3. \/ UNCHANGED news /\ reorder' = [reorder EXCEPT ![r] = [a EXCEPT !.answer = Listed]]
          \/ /\ UNCHANGED news \/ Tell("reordered", FALSE, Listed)
             /\ reorder' = [reorder EXCEPT ![r] = [NoReorder EXCEPT !.stage = "done"]]
      BY <1>7 DEF EndReorder, Done
    <2> HIDE DEF a
    <2>4. [a EXCEPT !.answer = Listed] \in ReorderType /\ [NoReorder EXCEPT !.stage = "done"] \in ReorderType
      BY <1>l, <2>2, StepsIs, NoReorderIs
    <2>5. reorder' \in [Reorder -> ReorderType]
      BY <1>q, <2>3, <2>4
    <2>6. NewsOK'
      <3>1. CASE UNCHANGED news
        BY <1>0, <3>1 DEF NewsOK
      <3>2. CASE Tell("reordered", FALSE, Listed)
        BY <1>0, <1>l, <3>2, TellIs
      <3> QED
        BY <2>3, <3>1, <3>2
    <2> QED
      BY <1>0, <2>1, <2>5, <2>6, PartsStay, TypePartsNext DEF shown
  <1>8. ASSUME NEW r \in Reorder, OthersReorder(r) PROVE ColumnsTypeOK'
    <2>1. PICK asked \in SetToSeqs(Live) : reorder' = [reorder EXCEPT ![r] = Asking(asked, Versions(Listed), <<>>)]
      BY <1>8 DEF OthersReorder
    <2>2. UNCHANGED <<table, creating, rename, shown, news, lists, gets, asking, blurred>> /\ CountWrite
      BY <1>8 DEF OthersReorder
    <2>3. asked \in Seq(1 .. Columns)
      <3>1. Cardinality(Live) \in Nat
        BY <1>0, ListedIs
      <3>2. asked \in [1 .. Cardinality(Live) -> 1 .. Columns]
        BY <1>0, LiveIs DEF SetToSeqs
      <3> QED
        BY <3>1, <3>2
    <2>4. Asking(asked, Versions(Listed), <<>>) \in ReorderType
      <3>1. <<>> \in Seq(Item)
        OBVIOUS
      <3> QED
        BY <1>l, <2>3, <3>1, AskingIs
    <2>5. reorder' \in [Reorder -> ReorderType]
      BY <1>q, <2>1, <2>4
    <2>6. CountsOK'
      BY <1>0, <1>w, <2>2 DEF CountsOK
    <2> QED
      BY <1>0, <2>2, <2>5, <2>6, PartsStay, TypePartsNext DEF shown
  <1>9. ASSUME NEW r \in Reorder, MoveColumn(r) PROVE ColumnsTypeOK'
    <2>1. PICK i \in DOMAIN columns : \E next \in Moved(i) \cup Dropped(i) :
             /\ columns' = next
             /\ reorder' = [reorder EXCEPT ![r] = Asking(Ids(next), Versions(next), columns)]
      BY <1>9 DEF MoveColumn
    <2>2. PICK next \in Moved(i) \cup Dropped(i) :
             /\ columns' = next
             /\ reorder' = [reorder EXCEPT ![r] = Asking(Ids(next), Versions(next), columns)]
      BY <2>1
    <2>3. UNCHANGED <<table, creating, rename, versions, news, lists, counts, blurred>>
      BY <1>9 DEF MoveColumn
    <2>4. next \in Seq(Item)
      BY <1>0, MovedItems
    <2>5. Ids(next) \in Seq(1 .. Columns)
      <3>1. \A k \in DOMAIN next : next[k] \in Item
        BY <2>4
      <3>2. \A k \in DOMAIN next : next[k].id \in 1 .. Columns
        BY <3>1 DEF Item
      <3> QED
        BY <2>4, <3>2 DEF Ids
    <2>6. Asking(Ids(next), Versions(next), columns) \in ReorderType
      BY <1>0, <2>4, <2>5, AskingIs
    <2>7. reorder' \in [Reorder -> ReorderType]
      BY <1>q, <2>2, <2>6
    <2> QED
      BY <1>0, <2>2, <2>3, <2>4, <2>7, PartsStay, TypePartsNext
  <1>10. ASSUME NEW r \in Reorder, Accepted(r) \/ Refused(r) PROVE ColumnsTypeOK'
    <2>1. /\ reorder' = [reorder EXCEPT ![r] = [NoReorder EXCEPT !.stage = "done"]]
          /\ UNCHANGED <<table, creating, rename, news, lists, counts>> /\ blurred' \in BOOLEAN
      BY <1>0, <1>10 DEF Accepted, Refused, Done, CountsOK
    <2>2. reorder' \in [Reorder -> ReorderType]
      BY <1>q, <2>1, NoReorderIs
    <2>3. CountsOK'
      BY <1>0, <2>1 DEF counts, CountsOK
    <2>4. reorder[r].answer \in Seq(Item) /\ reorder[r].previous \in Seq(Item)
      BY <1>0 DEF ReorderType
    <2>5. columns' \in Seq(Item) /\ versions' \in [1 .. Columns -> Nat]
      BY <1>0, <1>10, <1>v, <2>4 DEF Accepted, Refused, ShowsColumns
    <2> QED
      BY <1>0, <2>1, <2>2, <2>3, <2>5, PartsStay, TypePartsNext
  <1>11. CASE RenameColumn
    <2>1. PICK i \in DOMAIN columns :
            rename' = Sending(columns[i].id, columns[i].title, versions[columns[i].id])
      BY <1>11 DEF RenameColumn
    <2>2. UNCHANGED <<table, creating, reorder, shown, news, lists, counts, blurred>>
      BY <1>11 DEF RenameColumn
    <2>3. columns[i] \in Item
      BY <1>0
    <2>4. columns[i].id \in 1 .. Columns /\ columns[i].id \in Nat /\ columns[i].title \in Nat
      BY <2>3, ColumnConstants DEF Item
    <2>5. RenameOK'
      <3> DEFINE v == versions[columns[i].id]
      <3>1. v \in Nat
        BY <1>0, <2>4
      <3>2. rename' = Sending(columns[i].id, columns[i].title, v)
        BY <2>1
      <3> HIDE DEF v
      <3>3. rename' \in RenameType /\ rename'.stage = "sent" /\ rename'.id = columns[i].id
        <4>1. ASSUME NEW id \in Nat, NEW base \in Nat, NEW match \in Nat, rename' = Sending(id, base, match)
              PROVE  rename' \in RenameType /\ rename'.stage = "sent" /\ rename'.id = id
          <5>1. <<>> \in Seq(Item)
            OBVIOUS
          <5> QED
            BY <4>1, <5>1 DEF Sending, RenameType
        <4> QED
          BY <2>4, <3>1, <3>2, <4>1
      <3> QED
        BY <2>4, <3>3 DEF RenameOK
    <2> QED
      BY <1>0, <2>2, <2>5, PartsStay, TypePartsNext DEF shown
  <1>12. CASE ServeRename
    <2>1. UNCHANGED <<created, creating, shown, news, lists, counts, blurred>>
      BY <1>12 DEF ServeRename
    <2>2. CASE rename' = Answered /\ UNCHANGED <<rows, reorder>>
      <3>1. RenameOK'
        BY <2>2, NoRenameIs DEF RenameOK
      <3> QED
        BY <1>0, <2>1, <2>2, <3>1, PartsStay, TypePartsNext DEF shown, table
    <2>3. CASE ~(rename' = Answered /\ UNCHANGED <<rows, reorder>>)
      <3> DEFINE c == rename.id
                 a == [rename EXCEPT !.stage = "renamed"]
      <3>1. /\ rows[c].live /\ rows[c].version = rename.match /\ rows' = Written(c)
            /\ rename' = [a EXCEPT !.answer = <<RowIn(rows', c)>>]
            /\ reorder' = Disturbed(Reorder)
        BY <1>12, <2>3 DEF ServeRename
      <3>2. c \in 1 .. Columns
        BY <1>0, <1>12 DEF ServeRename, RenameOK
      <3>3. TableOK' /\ RowIn(rows', c) \in Item /\ RowIn(rows', c).id = c
        BY <1>0, <2>1, <3>1, <3>2, OneWritten
      <3>4. a \in RenameType /\ a.stage = "renamed" /\ a.id = c
        BY <1>0 DEF RenameType, RenameOK
      <3>5. RenameOK'
        <4> DEFINE x == RowIn(rows', c)
        <4> HIDE DEF a, c, x
        <4>1. /\ <<x>> \in Seq(Item) /\ Len(<<x>>) = 1 /\ <<x>>[1] = x /\ x.id = c
          BY <3>3, OneItem DEF x
        <4>2. rename' = [a EXCEPT !.answer = <<x>>]
          BY <3>1 DEF x
        <4>3. /\ rename' \in RenameType /\ rename'.stage = "renamed" /\ rename'.id = c
              /\ rename'.answer = <<x>>
          BY <3>4, <4>1, <4>2 DEF RenameType
        <4> QED
          BY <4>1, <4>3 DEF RenameOK
      <3>6. CountsOK' /\ CreatingOK'
        BY <1>0, <1>n, <2>1, PartsStay
      <3> QED
        BY <1>0, <1>d, <2>1, <3>1, <3>3, <3>5, <3>6, PartsStay, TypePartsNext DEF shown
    <2> QED
      BY <2>2, <2>3
  <1>13. CASE Renamed
    <2>1. /\ rename.stage = "renamed" /\ rename' = Answered
          /\ columns' = [i \in DOMAIN columns |->
                      IF columns[i].id = rename.id THEN rename.answer[1] ELSE columns[i]]
          /\ versions' = Remembered(rename.answer)
          /\ UNCHANGED <<table, creating, reorder, news, lists, counts, blurred>>
      BY <1>13 DEF Renamed
    <2>2. rename.answer \in Seq(Item) /\ Len(rename.answer) = 1
      BY <1>0, <2>1 DEF RenameType, RenameOK
    <2>3. rename.answer[1] \in Item
      BY <2>2
    <2>4. columns' \in Seq(Item)
      <3>1. \A i \in DOMAIN columns : columns[i] \in Item
        BY <1>0
      <3>2. columns' \in [1 .. Len(columns) -> Item] /\ Len(columns) \in Nat
        BY <1>0, <2>1, <2>3, <3>1
      <3> QED
        BY <3>2
    <2>5. RenameOK'
      BY <2>1, NoRenameIs DEF RenameOK
    <2> QED
      BY <1>0, <1>v, <2>1, <2>2, <2>4, <2>5, PartsStay, TypePartsNext
  <1>14. CASE CreateColumn
    <2>1. /\ creating' = <<MaxPosition>> /\ CountWrite
          /\ UNCHANGED <<table, reorder, rename, shown, news, lists, gets, asking, blurred>>
      BY <1>14 DEF CreateColumn
    <2>2. CreatingOK'
      BY <1>0, <2>1, MaxIs DEF CreatingOK
    <2>3. CountsOK'
      BY <1>0, <1>w, <2>1 DEF CountsOK
    <2> QED
      BY <1>0, <2>1, <2>2, <2>3, PartsStay, TypePartsNext DEF shown
  <1>15. CASE InsertColumn
    <2>1. /\ Len(creating) = 1 /\ created < Columns /\ created' = created + 1
          /\ rows' = [rows EXCEPT ![created'] = NewRow(creating[1])]
          /\ creating' = Append(creating, created') /\ reorder' = Disturbed(Reorder)
          /\ UNCHANGED <<rename, shown, news, lists, counts, blurred>>
      BY <1>15 DEF InsertColumn
    <2>2. creating \in Seq(Int) /\ creating[1] \in Int
      <3>1. creating \in Seq(Int)
        BY <1>0 DEF CreatingOK
      <3> QED
        BY <2>1, <3>1, ElementOfSeq
    <2>3. TableOK' /\ created' \in 1 .. Columns
      BY <1>0, <2>1, <2>2, NewRowIs
    <2>4. CreatingOK'
      <3>1. creating' \in Seq(Int) /\ Len(creating') = 2 /\ creating'[2] = created'
        <4>1. creating \in Seq(Int) /\ created' \in Int /\ Len(creating) = 1
          BY <2>1, <2>2, <2>3, ColumnConstants
        <4> QED
          <5>1. ASSUME NEW s \in Seq(Int), NEW x \in Int, Len(s) = 1
                PROVE  Append(s, x) \in Seq(Int) /\ Len(Append(s, x)) = 2 /\ Append(s, x)[2] = x
            <6>1. /\ Append(s, x) \in Seq(Int) /\ Len(Append(s, x)) = Len(s) + 1
                  /\ Append(s, x)[Len(s) + 1] = x
              BY AppendProperties
            <6>2. Len(s) + 1 = 2
              BY <5>1
            <6> QED
              BY <6>1, <6>2
          <5> QED
            BY <2>1, <4>1, <5>1
      <3>2. created' \in 1 .. created'
        BY <2>3, ColumnConstants
      <3> QED
        BY <3>1, <3>2 DEF CreatingOK
    <2> QED
      BY <1>0, <1>d, <2>1, <2>3, <2>4, PartsStay, TypePartsNext DEF shown
  <1>16. CASE Created
    <2> DEFINE x == [id |-> creating[2], position |-> creating[1] + 1, version |-> 1, title |-> 0]
    <2>1. /\ Len(creating) = 2 /\ creating' = <<>>
          /\ columns' = WithAppended(x) /\ versions' = [versions EXCEPT ![x.id] = 1]
          /\ blurred' = (blurred \/ WithId(columns, x.id) # {})
          /\ UNCHANGED <<table, reorder, rename, news, lists, counts>>
      BY <1>16 DEF Created
    <2>2. creating[2] \in 1 .. created /\ creating[1] \in Int
      <3>1. creating \in Seq(Int) /\ creating[2] \in 1 .. created
        BY <1>0, <2>1 DEF CreatingOK
      <3>2. 1 \in 1 .. Len(creating)
        BY <2>1
      <3> QED
        BY <3>1, <3>2, ElementOfSeq
    <2>3. x \in Item
      BY <1>n, <2>2, ColumnConstants DEF Item
    <2> HIDE DEF x
    <2>4. columns' \in Seq(Item)
      BY <1>0, <2>1, <2>3, AppendedItems
    <2>5. versions' \in [1 .. Columns -> Nat]
      BY <1>0, <2>1
    <2>6. CreatingOK'
      BY <2>1 DEF CreatingOK
    <2>7. CountsOK'
      BY <1>0, <2>1 DEF CountsOK, counts
    <2> QED
      BY <1>0, <2>1, <2>4, <2>5, <2>6, <2>7, PartsStay, TypePartsNext
  <1>17. CASE AskForList
    <2>1. AskOnce /\ UNCHANGED <<table, creating, reorder, rename, shown, news, lists, writes, blurred>>
      BY <1>17 DEF AskForList
    <2>2. CountsOK'
      BY <1>0, <2>1 DEF CountsOK, AskOnce
    <2> QED
      BY <1>0, <2>1, <2>2, PartsStay, TypePartsNext DEF shown
  <1>18. CASE ServeList
    <2>1. /\ asking > 0 /\ asking' = asking - 1 /\ lists' = lists \cup {Listed}
          /\ UNCHANGED <<table, creating, reorder, rename, shown, news, writes, gets, blurred>>
      BY <1>18 DEF ServeList
    <2>2. CountsOK'
      BY <1>0, <2>1 DEF CountsOK
    <2>3. lists' \subseteq Seq(Item)
      BY <1>0, <1>l, <2>1
    <2> QED
      BY <1>0, <2>1, <2>2, <2>3, PartsStay, TypePartsNext DEF shown
  <1>19. CASE ReceiveList
    <2>1. PICK items \in lists : ShowsColumns(items) /\ lists' = lists \ {items}
      BY <1>19 DEF ReceiveList
    <2>2. UNCHANGED <<table, creating, reorder, rename, news, counts, blurred>>
      BY <1>19 DEF ReceiveList
    <2>3. items \in Seq(Item) /\ lists' \subseteq Seq(Item)
      BY <1>0, <2>1
    <2>4. columns' \in Seq(Item) /\ versions' \in [1 .. Columns -> Nat]
      BY <1>v, <2>1, <2>3 DEF ShowsColumns
    <2> QED
      BY <1>0, <2>2, <2>3, <2>4, PartsStay, TypePartsNext
  <1>20. CASE OnEvent
    <2>1. PICK e \in news :
          /\ news' = news \ {e}
          /\ \/ e.own /\ versions' = OwnIgnored(e.items) /\ UNCHANGED columns
             \/ /\ ~e.own /\ e.kind \in {"created", "updated"}
                /\ columns' = WithColumn(e.items[1]) /\ versions' = Remembered(e.items)
             \/ /\ e.kind = "deleted" /\ UNCHANGED versions
                /\ columns' = WithoutColumn(e.items[1].id)
             \/ e.kind = "reordered" /\ ShowsColumns(e.items)
      BY <1>20 DEF OnEvent
    <2>2. UNCHANGED <<table, creating, reorder, rename, lists, counts, blurred>>
      BY <1>20 DEF OnEvent
    <2>3. e \in News /\ NewsOK' /\ (e.kind # "reordered" => Len(e.items) = 1)
      BY <1>0, <2>1 DEF NewsOK
    <2>i. e.items \in Seq(Item)
      BY <2>3 DEF News
    <2>4. columns' \in Seq(Item) /\ versions' \in [1 .. Columns -> Nat]
      <3>1. CASE e.own /\ versions' = OwnIgnored(e.items) /\ UNCHANGED columns
        BY <1>0, <3>1 DEF OwnIgnored
      <3>2. CASE /\ ~e.own /\ e.kind \in {"created", "updated"}
                 /\ columns' = WithColumn(e.items[1]) /\ versions' = Remembered(e.items)
        <4>1. e.items[1] \in Item
          BY <2>3, <2>i, <3>2
        <4> QED
          BY <1>0, <1>v, <2>i, <3>2, <4>1, WithColumnItems
      <3>3. CASE /\ e.kind = "deleted" /\ UNCHANGED versions
                 /\ columns' = WithoutColumn(e.items[1].id)
        BY <1>0, <3>3, WithoutColumnItems
      <3>4. CASE e.kind = "reordered" /\ ShowsColumns(e.items)
        BY <1>v, <2>i, <3>4 DEF ShowsColumns
      <3> QED
        BY <2>1, <3>1, <3>2, <3>3, <3>4
    <2> QED
      BY <1>0, <2>2, <2>3, <2>4, PartsStay, TypePartsNext
  <1>21. CASE UNCHANGED columnVars
    BY <1>0, <1>21, PartsStay, TypePartsNext DEF columnVars, shown
  <1> QED
    BY <1>1, <1>2, <1>3, <1>4, <1>5, <1>6, <1>7, <1>8, <1>9, <1>10, <1>11, <1>12, <1>13, <1>14,
       <1>15, <1>16, <1>17, <1>18, <1>19, <1>20, <1>21 DEF ColumnsNext

\* Types: whatever is written, sent, answered or received, the table, the requests, the page
\* and what is on its way to it keep their types; the event of one column has one, and the
\* answer to a rename is the column that was renamed.
THEOREM ColumnTypes == ColumnsSpec => []ColumnsTypeOK
  BY InitColumns, NextColumnTypes, PTL DEF ColumnsSpec

-----------------------------------------------------------------------------
\* A row's version only grows, and a title has one version.
Grows ==
    /\ created' \in Nat /\ created' >= created
    /\ \A c \in 1 .. created :
          /\ rows'[c].version \in Nat /\ rows'[c].version >= rows[c].version
          /\ rows'[c].version = rows[c].version => rows'[c].title = rows[c].title
\* No row lives that was not created; none is older than its first version.
RowsInv ==
    /\ \A c \in 1 .. Columns : rows[c].live => c <= created
    /\ \A c \in 1 .. created : rows[c].version > 0 /\ (rows[c].version = 1 => rows[c].title = 0)

\* Each way to write the table lets it grow in this sense.
LEMMA SameGrows ==
  ASSUME TableOK, RowsInv, UNCHANGED table
  PROVE  Grows /\ RowsInv'
  <1>1. created \in Nat /\ \A c \in 1 .. created : rows[c].version \in Nat
    BY LiveIs, RowIs
  <1> QED
    BY <1>1 DEF Grows, RowsInv, table

LEMMA OneGrows ==
  ASSUME TableOK, RowsInv, UNCHANGED created, NEW c \in 1 .. Columns, c <= created,
         rows' = Written(c) \/ (\E p \in Nat : rows' = Positioned(c, p))
                            \/ rows' = [rows EXCEPT ![c].live = FALSE]
  PROVE  Grows /\ RowsInv'
  <1>1. created \in Nat /\ created <= Columns /\ \A d \in 1 .. created : d \in 1 .. Columns
    BY LiveIs, ColumnConstants
  <1>2. \A d \in 1 .. created : rows[d].version \in Nat
    BY RowIs
  <1>3. \A d \in 1 .. Columns :
           /\ d # c => rows'[d].live = rows[d].live
           /\ \/ rows'[d].version = rows[d].version /\ rows'[d].title = rows[d].title
              \/ d = c /\ rows'[d].version = rows[d].version + 1
    <2>0. rows \in [1 .. Columns -> RowType]
      BY DEF TableOK, RowType
    <2>1. ASSUME rows' = Written(c) \/ \E p \in Nat : rows' = Positioned(c, p)
          PROVE  /\ \A d \in 1 .. Columns : d # c => rows'[d] = rows[d]
                 /\ rows'[c].version = rows[c].version + 1
      BY <2>1, WrittenIs, PositionedIs
    <2>2. CASE rows' = Written(c) \/ \E p \in Nat : rows' = Positioned(c, p)
      <3> SUFFICES ASSUME NEW d \in 1 .. Columns
                   PROVE  /\ d # c => rows'[d].live = rows[d].live
                          /\ \/ rows'[d].version = rows[d].version /\ rows'[d].title = rows[d].title
                             \/ d = c /\ rows'[d].version = rows[d].version + 1
        OBVIOUS
      <3> QED
        BY <2>1, <2>2
    <2>3. CASE rows' = [rows EXCEPT ![c].live = FALSE]
      <3>1. \A d \in 1 .. Columns : rows'[d].version = rows[d].version /\ rows'[d].title = rows[d].title
        BY <2>3, DeletedIs
      <3>2. \A d \in 1 .. Columns : d # c => rows'[d] = rows[d]
        BY <2>0, <2>3
      <3> QED
        BY <3>1, <3>2
    <2> QED
      BY <2>2, <2>3
  <1>4. \A d \in 1 .. created :
           /\ rows'[d].version \in Nat /\ rows'[d].version >= rows[d].version
           /\ rows'[d].version = rows[d].version => rows'[d].title = rows[d].title
    <2> SUFFICES ASSUME NEW d \in 1 .. created
                 PROVE  /\ rows'[d].version \in Nat /\ rows'[d].version >= rows[d].version
                        /\ rows'[d].version = rows[d].version => rows'[d].title = rows[d].title
      OBVIOUS
    <2>1. rows[d].version \in Nat /\ d \in 1 .. Columns
      BY <1>1, <1>2
    <2> QED
      BY <2>1, <1>3
  <1>5. Grows
    BY <1>1, <1>4 DEF Grows
  <1>6. \A d \in 1 .. Columns : rows'[d].live => d <= created
    BY <1>3 DEF RowsInv
  <1>7. ASSUME NEW d \in 1 .. created
        PROVE  rows'[d].version > 0 /\ (rows'[d].version = 1 => rows'[d].title = 0)
    <2>1. /\ rows[d].version \in Nat /\ d \in 1 .. Columns /\ rows[d].version > 0
          /\ rows[d].version = 1 => rows[d].title = 0
      BY <1>1, <1>2 DEF RowsInv
    <2> QED
      BY <2>1, <1>3
  <1> QED
    BY <1>5, <1>6, <1>7 DEF RowsInv

LEMMA NewGrows ==
  ASSUME TableOK, RowsInv, created < Columns, created' = created + 1, NEW max \in Int,
         rows' = [rows EXCEPT ![created'] = NewRow(max)]
  PROVE  Grows /\ RowsInv'
  <1>1. created \in Nat /\ created' \in 1 .. Columns /\ \A d \in 1 .. created : rows[d].version \in Nat
    BY LiveIs, RowIs, ColumnConstants
  <1>2. /\ \A d \in 1 .. Columns : d # created' => rows'[d] = rows[d]
        /\ rows'[created'] = NewRow(max)
    BY <1>1 DEF TableOK
  <1>3. \A d \in 1 .. created : d # created' /\ d \in 1 .. Columns
    BY <1>1, ColumnConstants
  <1>4. Grows
    BY <1>1, <1>2, <1>3 DEF Grows
  <1>5. \A d \in 1 .. Columns : rows'[d].live => d <= created'
    <2> SUFFICES ASSUME NEW d \in 1 .. Columns, rows'[d].live PROVE d <= created'
      OBVIOUS
    <2>1. d # created' => d <= created
      BY <1>2 DEF RowsInv
    <2> QED
      BY <2>1, <1>1
  <1>6. ASSUME NEW d \in 1 .. created'
        PROVE  rows'[d].version > 0 /\ (rows'[d].version = 1 => rows'[d].title = 0)
    <2>1. CASE d = created'
      BY <2>1, <1>2 DEF NewRow
    <2>2. CASE d # created'
      <3>1. d \in 1 .. created
        BY <2>2, <1>1
      <3> QED
        BY <2>2, <3>1, <1>2, <1>3 DEF RowsInv
    <2> QED
      BY <2>1, <2>2
  <1> QED
    BY <1>4, <1>5, <1>6 DEF RowsInv

\* What was known stays known.
LEMMA KnownStays ==
  ASSUME TableOK, Grows, NEW x \in Item, Known(x)
  PROVE  Known(x)'
  <1> DEFINE c == x.id
             v == rows[c].version
             w == rows'[c].version
  <1>1. created \in Nat /\ created' \in Nat /\ created <= created'
    BY LiveIs DEF Grows
  <1>2. c \in 1 .. created /\ x.version \in Nat /\ c \in Nat
    BY <1>1, ColumnConstants DEF Item, Known
  <1>3. v \in Nat /\ w \in Nat /\ v <= w /\ (w = v => rows'[c].title = rows[c].title)
    BY <1>2, RowIs DEF Grows
  <1>4. x.version <= v /\ (x.version = v => x.title = rows[c].title)
    BY DEF Known
  <1> HIDE DEF v, w
  <1>5. x.version <= w /\ (x.version = w => x.title = rows'[c].title)
    BY <1>2, <1>3, <1>4
  <1> QED
    BY <1>1, <1>2, <1>5 DEF Known, w

LEMMA SeenStays ==
  ASSUME TableOK, Grows, NEW items \in Seq(Item), AllKnown(items)
  PROVE  AllKnown(items)'
  <1>1. \A i \in DOMAIN items : items[i] \in Item
    OBVIOUS
  <1> QED
    BY <1>1, KnownStays DEF AllKnown

LEMMA ListedSeen ==
  ASSUME TableOK
  PROVE  AllKnown(Listed)
  <1>1. ASSUME NEW n \in DOMAIN Listed PROVE Known(Listed[n])
    <2>1. InTable[n] \in Live /\ Listed[n] = Row(InTable[n])
      BY ListedIs
    <2>2. InTable[n] \in 1 .. created
      BY <2>1, LiveIs
    <2>3. /\ Row(InTable[n]).id = InTable[n] /\ Row(InTable[n]).version = rows[InTable[n]].version
          /\ Row(InTable[n]).title = rows[InTable[n]].title /\ rows[InTable[n]].version \in Nat
      BY <2>2, RowIs
    <2>4. created \in Nat
      BY LiveIs
    <2> QED
      BY <2>1, <2>2, <2>3, <2>4 DEF Known
  <1> QED
    BY <1>1, ListedIs DEF AllKnown

LEMMA NoneSeen == AllKnown(<<>>)
  BY DEF AllKnown, Whole

\* A row, as it is now, is known.
LEMMA RowKnown ==
  ASSUME TableOK, NEW c \in 1 .. Columns, c <= created
  PROVE  Row(c) \in Item /\ Known(Row(c)) /\ Row(c).id = c
  <1>1. created \in Nat /\ c \in 1 .. created
    BY LiveIs
  <1>2. /\ Row(c) \in Item /\ Row(c).id = c /\ Row(c).version = rows[c].version
        /\ Row(c).title = rows[c].title /\ rows[c].version \in Nat
    BY <1>1, RowIs
  <1> QED
    BY <1>1, <1>2 DEF Known

LEMMA TableGrows ==
  ASSUME ColumnsTypeOK, SentInv, [ColumnsNext]_columnVars
  PROVE  Grows /\ RowsInv'
  <1>0. TableOK /\ RowsInv
    BY TypeParts DEF SentInv, RowsInv
  <1>s. UNCHANGED table => Grows /\ RowsInv'
    BY <1>0, SameGrows
  <1>l. \A c \in Live : c \in 1 .. Columns /\ c <= created
    BY <1>0, LiveIs
  <1>1. CASE OthersRename
    <2>1. PICK c \in Live : rows' = Written(c) /\ UNCHANGED created
      BY <1>1 DEF OthersRename
    <2> QED
      BY <1>0, <1>l, <2>1, OneGrows
  <1>2. CASE OthersCreate
    <2>1. created < Columns /\ created' = created + 1 /\ rows' = [rows EXCEPT ![created'] = NewRow(MaxPosition)]
      BY <1>2 DEF OthersCreate
    <2> QED
      BY <1>0, <2>1, MaxIs, NewGrows
  <1>3. CASE OthersDelete
    <2>1. PICK c \in Live : rows' = [rows EXCEPT ![c].live = FALSE] /\ UNCHANGED created
      BY <1>3 DEF OthersDelete, Delete
    <2> QED
      BY <1>0, <1>l, <2>1, OneGrows
  <1>4. CASE DeleteColumn
    <2>1. PICK c \in Live : rows' = [rows EXCEPT ![c].live = FALSE] /\ UNCHANGED created
      BY <1>4 DEF DeleteColumn, Delete
    <2> QED
      BY <1>0, <1>l, <2>1, OneGrows
  <1>5. ASSUME NEW r \in Reorder, WritePosition(r) PROVE Grows /\ RowsInv'
    <2> DEFINE c == Head(reorder[r].left)
    <2>1. reorder[r] \in ReorderType
      BY TypeParts
    <2>2. reorder[r].left \in Seq(1 .. Columns) /\ reorder[r].nth \in Nat /\ reorder[r].left # <<>>
      BY <1>5, <2>1 DEF ReorderType, WritePosition
    <2>3. c \in 1 .. Columns
      BY <2>2, HeadTailProperties
    <2>4. CASE rows[c].live
      <3>1. c <= created
        BY <1>0, <2>3, <2>4 DEF RowsInv
      <3>2. rows' = Positioned(c, reorder[r].nth) /\ UNCHANGED created
        BY <1>5, <2>4 DEF WritePosition
      <3>3. \E p \in Nat : rows' = Positioned(c, p)
        BY <2>2, <3>2
      <3> HIDE DEF c
      <3> QED
        BY <1>0, <2>3, <3>1, <3>2, <3>3, OneGrows
    <2>5. CASE ~rows[c].live
      BY <1>5, <1>s, <2>5 DEF WritePosition, table
    <2> QED
      BY <2>4, <2>5
  <1>6. CASE ServeRename
    <2> DEFINE c == rename.id
    <2>1. CASE UNCHANGED rows
      BY <1>6, <1>s, <2>1 DEF ServeRename, table
    <2>2. CASE ~UNCHANGED rows
      <3>1. rows[c].live /\ rows' = Written(c) /\ UNCHANGED created /\ rename.stage = "sent"
        BY <1>6, <2>2 DEF ServeRename
      <3>2. c \in 1 .. Columns /\ c <= created
        BY <1>0, <3>1, TypeParts DEF RenameOK, RowsInv
      <3> QED
        BY <1>0, <3>1, <3>2, OneGrows
    <2> QED
      BY <2>1, <2>2
  <1>7. CASE InsertColumn
    <2>1. /\ created < Columns /\ created' = created + 1 /\ Len(creating) = 1
          /\ rows' = [rows EXCEPT ![created'] = NewRow(creating[1])]
      BY <1>7 DEF InsertColumn
    <2>2. creating[1] \in Int
      <3>1. creating \in Seq(Int) /\ 1 \in 1 .. Len(creating)
        BY <2>1, TypeParts DEF CreatingOK
      <3> QED
        BY <3>1, ElementOfSeq
    <2> QED
      BY <1>0, <2>1, <2>2, NewGrows
  <1>8. ASSUME NEW r \in Reorder,
               CheckVersions(r) \/ EndReorder(r) \/ OthersReorder(r) \/ MoveColumn(r) \/ Accepted(r) \/ Refused(r)
        PROVE  Grows /\ RowsInv'
    BY <1>8, <1>s DEF CheckVersions, EndReorder, OthersReorder, MoveColumn, Accepted, Refused
  <1>9. CASE RenameColumn \/ Renamed \/ CreateColumn \/ Created \/ AskForList \/ ServeList \/ ReceiveList \/ OnEvent
    BY <1>9, <1>s DEF RenameColumn, Renamed, CreateColumn, Created, AskForList, ServeList, ReceiveList, OnEvent
  <1>10. CASE UNCHANGED columnVars
    BY <1>10, <1>s DEF columnVars
  <1> QED
    BY <1>1, <1>2, <1>3, <1>4, <1>5, <1>6, <1>7, <1>8, <1>9, <1>10 DEF ColumnsNext

\* What is sent is what was sent before, the list as it is, or one row as it is.
LEMMA SentKept ==
  ASSUME ColumnsTypeOK, SentInv, Grows, RowsInv',
         \A items \in lists' : items \in lists \/ items = Listed,
         \A e \in news' : e \in news \/ e.items = Listed \/ AllKnown(e.items)',
         \A r \in Reorder : reorder'[r].answer \in {reorder[r].answer, Listed, <<>>},
         rename'.answer \in {rename.answer, <<>>} \/ \E x : rename'.answer = x /\ AllKnown(x)'
  PROVE  SentInv'
  <1>0. /\ TableOK /\ reorder \in [Reorder -> ReorderType] /\ rename \in RenameType
        /\ news \subseteq News /\ lists \subseteq Seq(Item)
    BY TypeParts DEF RenameOK, NewsOK
  <1>1. \A items \in Seq(Item) : AllKnown(items) => AllKnown(items)'
    BY <1>0, SeenStays
  <1>2. /\ Listed \in Seq(Item) /\ AllKnown(Listed) /\ <<>> \in Seq(Item) /\ AllKnown(<<>>)
    BY <1>0, ListedIs, ListedSeen, NoneSeen
  <1>3. /\ \A items \in lists : AllKnown(items)
        /\ \A e \in news : AllKnown(e.items) /\ e.items \in Seq(Item)
        /\ \A r \in Reorder : AllKnown(reorder[r].answer) /\ reorder[r].answer \in Seq(Item)
        /\ AllKnown(rename.answer) /\ rename.answer \in Seq(Item)
    BY <1>0 DEF SentInv, News, ReorderType, RenameType
  <1>4. \A items \in lists' : AllKnown(items)'
    BY <1>0, <1>1, <1>2, <1>3
  <1>5. \A e \in news' : AllKnown(e.items)'
    BY <1>1, <1>2, <1>3
  <1>6. \A r \in Reorder : \A x : x = reorder'[r].answer => AllKnown(x)'
    BY <1>1, <1>2, <1>3
  <1>7. \A x : x = rename'.answer => AllKnown(x)'
    BY <1>1, <1>2, <1>3
  <1> QED
    BY <1>4, <1>5, <1>6, <1>7 DEF SentInv, RowsInv

LEMMA InitSent == ColumnsInit => SentInv /\ HeldInv /\ RenameInv
  <1> SUFFICES ASSUME ColumnsInit PROVE SentInv /\ HeldInv /\ RenameInv
    OBVIOUS
  <1>0. ColumnsTypeOK /\ TableOK
    BY InitColumns, TypeParts
  <1>1. created \in Nat /\ created <= Columns
    BY <1>0, LiveIs
  <1>2. \A c \in 1 .. Columns : rows[c].live = (c <= created) /\ rows[c].version = 1 /\ rows[c].title = 0
    BY DEF ColumnsInit
  <1>3. \A c \in 1 .. created : c \in 1 .. Columns
    BY <1>1, ColumnConstants
  <1>4. \A r \in Reorder : reorder[r].answer = <<>>
    BY NoReorderIs DEF ColumnsInit
  <1>5. rename.answer = <<>> /\ rename.stage = "none" /\ lists = {} /\ news = {}
    BY NoRenameIs DEF ColumnsInit
  <1>6. SentInv
    <2>1. \A r \in Reorder : AllKnown(reorder[r].answer)
      BY <1>4, NoneSeen
    <2>2. AllKnown(rename.answer)
      BY <1>5, NoneSeen
    <2>3. \A c \in 1 .. Columns : rows[c].live => c <= created
      BY <1>2
    <2>4. \A c \in 1 .. created : rows[c].version > 0 /\ (rows[c].version = 1 => rows[c].title = 0)
      BY <1>2, <1>3
    <2> QED
      BY <1>5, <2>1, <2>2, <2>3, <2>4 DEF SentInv
  <1>7. HeldInv
    <2>1. columns = Listed /\ versions = [c \in 1 .. Columns |-> 1]
      BY DEF ColumnsInit
    <2>2. AllKnown(columns)
      BY <1>0, <2>1, ListedSeen
    <2>3. \A i \in DOMAIN columns : columns[i].version = versions[columns[i].id]
      <3> SUFFICES ASSUME NEW i \in DOMAIN Listed
                   PROVE  Listed[i].version = 1 /\ Listed[i].id \in 1 .. Columns
        BY <2>1
      <3>1. Listed[i] = Row(InTable[i]) /\ InTable[i] \in Live
        BY <1>0, ListedIs
      <3>2. InTable[i] \in 1 .. created /\ InTable[i] \in 1 .. Columns
        BY <1>0, <3>1, LiveIs
      <3> QED
        BY <1>0, <1>2, <3>1, <3>2, RowIs
    <2> QED
      BY <2>2, <2>3 DEF HeldInv
  <1> QED
    BY <1>5, <1>6, <1>7 DEF RenameInv

LEMMA NextSent == ColumnsTypeOK /\ SentInv /\ [ColumnsNext]_columnVars => SentInv'
  <1> SUFFICES ASSUME ColumnsTypeOK, SentInv, [ColumnsNext]_columnVars PROVE SentInv'
    OBVIOUS
  <1>0. TableOK /\ reorder \in [Reorder -> ReorderType] /\ RenameOK /\ RowsInv
    BY TypeParts DEF SentInv, RowsInv
  <1>g. Grows /\ RowsInv' /\ TableOK'
    BY TableGrows, NextColumnTypes, TypePartsNext
  <1>d. \A rs : \A r \in Reorder : Disturbed(rs)[r].answer = reorder[r].answer
    BY DisturbedIs
  <1>u. UNCHANGED rename => rename'.answer \in {rename.answer, <<>>}
    OBVIOUS
  <1>v. UNCHANGED reorder => \A r \in Reorder : reorder'[r].answer \in {reorder[r].answer, Listed, <<>>}
    OBVIOUS
  <1>w. \A rs : reorder' = Disturbed(rs) => \A r \in Reorder : reorder'[r].answer \in {reorder[r].answer, Listed, <<>>}
    BY <1>d
  <1>e. ASSUME NEW r \in Reorder, NEW q, reorder' = [reorder EXCEPT ![r] = q],
               q.answer \in {reorder[r].answer, Listed, <<>>}
        PROVE  \A s \in Reorder : reorder'[s].answer \in {reorder[s].answer, Listed, <<>>}
    BY <1>0, <1>e
  <1>r. \A c \in 1 .. Columns : \A x : c <= created' /\ x = RowIn(rows', c) => AllKnown(<<x>>)' /\ <<x>>[1] = x
    <2> SUFFICES ASSUME NEW c \in 1 .. Columns, NEW x, c <= created', x = RowIn(rows', c)
                 PROVE  AllKnown(<<x>>)'
      OBVIOUS
    <2>1. rows'[c] \in RowType
      BY <1>g DEF TableOK, RowType
    <2>2. /\ x \in Item /\ x.id = c /\ x.version = rows'[c].version /\ x.title = rows'[c].title
          /\ rows'[c].version \in Nat
      BY <2>1, RowInIs DEF RowType
    <2>3. Known(x)'
      BY <2>2 DEF Known
    <2>4. DOMAIN <<x>> = {1} /\ <<x>>[1] = x
      BY <2>2, OneItem
    <2> QED
      BY <2>3, <2>4 DEF AllKnown, Whole
  <1>1. CASE OthersRename
    <2>1. PICK c \in Live, own \in BOOLEAN : Tell("updated", own, <<RowIn(rows', c)>>)
      BY <1>1 DEF OthersRename
    <2>2. UNCHANGED <<rename, lists, created>> /\ reorder' = Disturbed(Reorder)
      BY <1>1 DEF OthersRename
    <2>3. c \in 1 .. Columns /\ c <= created'
      BY <1>0, <2>2, LiveIs
    <2>4. \A e \in news' : e \in news \/ AllKnown(e.items)'
      BY <1>r, <2>1, <2>3 DEF Tell
    <2> QED
      BY <1>g, <1>w, <2>2, <2>4, SentKept
  <1>2. CASE OthersCreate
    <2>1. Tell("created", FALSE, <<RowIn(rows', created')>>) /\ created' = created + 1 /\ created < Columns
      BY <1>2 DEF OthersCreate
    <2>2. UNCHANGED <<rename, lists>> /\ reorder' = Disturbed(Reorder)
      BY <1>2 DEF OthersCreate
    <2>3. created' \in 1 .. Columns /\ created' <= created'
      BY <1>0, <2>1, LiveIs, ColumnConstants
    <2>4. \A e \in news' : e \in news \/ AllKnown(e.items)'
      BY <1>r, <2>1, <2>3 DEF Tell
    <2> QED
      BY <1>g, <1>w, <2>2, <2>4, SentKept
  <1>3. CASE OthersDelete
    <2>1. PICK c \in Live : Delete(c) /\ Tell("deleted", FALSE, <<Row(c)>>)
      BY <1>3 DEF OthersDelete
    <2>2. UNCHANGED <<rename, lists>> /\ reorder' = Disturbed(Reorder)
      BY <2>1 DEF Delete
    <2>3. Row(c) \in Item /\ Known(Row(c))
      BY <1>0, LiveIs, RowKnown
    <2>4. \A x : x = Row(c) => AllKnown(<<x>>)'
      <3> SUFFICES ASSUME NEW x, x = Row(c) PROVE AllKnown(<<x>>)'
        OBVIOUS
      <3>1. Known(x)'
        BY <1>0, <1>g, <2>3, KnownStays
      <3>2. DOMAIN <<x>> = {1} /\ <<x>>[1] = x
        BY <2>3, OneItem
      <3> QED
        BY <3>1, <3>2 DEF AllKnown, Whole
    <2>5. \A e \in news' : e \in news \/ AllKnown(e.items)'
      BY <2>1, <2>4 DEF Tell
    <2> QED
      BY <1>g, <1>w, <2>2, <2>5, SentKept
  <1>4. CASE DeleteColumn
    <2>1. UNCHANGED <<rename, lists, news>> /\ reorder' = Disturbed(Reorder)
      BY <1>4 DEF DeleteColumn, Delete
    <2> QED
      BY <1>g, <1>w, <2>1, SentKept
  <1>5. ASSUME NEW r \in Reorder, CheckVersions(r) \/ WritePosition(r) \/ EndReorder(r) \/ OthersReorder(r)
                                  \/ MoveColumn(r) \/ Accepted(r) \/ Refused(r)
        PROVE  SentInv'
    <2>0. reorder[r] \in ReorderType
      BY <1>0
    <2>1. UNCHANGED <<rename, lists>>
      BY <1>5 DEF CheckVersions, WritePosition, EndReorder, OthersReorder, MoveColumn, Accepted, Refused
    <2>2. \A e \in news' : e \in news \/ e.items = Listed
      BY <1>5 DEF CheckVersions, WritePosition, EndReorder, OthersReorder, MoveColumn, Accepted, Refused, Tell
    <2>3. \A s \in Reorder : reorder'[s].answer \in {reorder[s].answer, Listed, <<>>}
      <3>1. CASE CheckVersions(r) \/ EndReorder(r)
        <4>1. \/ \E t \in {"refused", "accepted"} :
                   reorder' = [reorder EXCEPT ![r] = [[reorder[r] EXCEPT !.stage = t] EXCEPT !.answer = Listed]]
              \/ reorder' = [reorder EXCEPT ![r] =
                     [[reorder[r] EXCEPT !.stage = "writes"] EXCEPT !.left = FinalOrder(reorder[r].asked)]]
              \/ reorder' = [reorder EXCEPT ![r] = [NoReorder EXCEPT !.stage = "done"]]
          BY <3>1 DEF CheckVersions, EndReorder, Done
        <4>2. ASSUME NEW t PROVE [[reorder[r] EXCEPT !.stage = t] EXCEPT !.answer = Listed].answer = Listed
          BY <2>0 DEF ReorderType
        <4>3. ASSUME NEW f PROVE
                 [[reorder[r] EXCEPT !.stage = "writes"] EXCEPT !.left = f].answer = reorder[r].answer
          BY <2>0 DEF ReorderType
        <4>4. [NoReorder EXCEPT !.stage = "done"].answer = <<>>
          BY NoReorderIs
        <4> HIDE DEF NoReorder, FinalOrder
        <4>5. \E q : reorder' = [reorder EXCEPT ![r] = q] /\ q.answer \in {reorder[r].answer, Listed, <<>>}
          BY <4>1, <4>2, <4>3, <4>4
        <4> QED
          BY <1>e, <4>5
      <3>2. CASE WritePosition(r)
        <4>1. CASE rows[Head(reorder[r].left)].live
          <5>1. reorder' = [Disturbed(Reorder \ {r}) EXCEPT ![r] = Advanced(r)]
            BY <3>2, <4>1 DEF WritePosition
          <5>2. Advanced(r).answer = reorder[r].answer
            BY <2>0 DEF Advanced, ReorderType
          <5>3. Disturbed(Reorder \ {r}) \in [Reorder -> ReorderType]
            BY DisturbedIs
          <5> QED
            BY <1>d, <5>1, <5>2, <5>3
        <4>2. CASE ~rows[Head(reorder[r].left)].live
          <5>1. reorder' = [reorder EXCEPT ![r] = [reorder[r] EXCEPT !.stage = "failed"]]
            BY <3>2, <4>2 DEF WritePosition
          <5>2. [reorder[r] EXCEPT !.stage = "failed"].answer = reorder[r].answer
            BY <2>0 DEF ReorderType
          <5> QED
            BY <1>e, <5>1, <5>2
        <4> QED
          BY <4>1, <4>2
      <3>3. CASE OthersReorder(r) \/ MoveColumn(r)
        <4>1. \E a, v, p : reorder' = [reorder EXCEPT ![r] = Asking(a, v, p)]
          BY <3>3 DEF OthersReorder, MoveColumn
        <4>2. PICK a, v, p : reorder' = [reorder EXCEPT ![r] = Asking(a, v, p)]
          BY <4>1
        <4>3. Asking(a, v, p).answer = <<>>
          BY DEF Asking
        <4> QED
          BY <1>e, <4>2, <4>3
      <3>4. CASE Accepted(r) \/ Refused(r)
        <4>1. reorder' = [reorder EXCEPT ![r] = [NoReorder EXCEPT !.stage = "done"]]
          BY <3>4 DEF Accepted, Refused, Done
        <4>2. [NoReorder EXCEPT !.stage = "done"].answer = <<>>
          BY NoReorderIs
        <4> QED
          BY <1>e, <4>1, <4>2
      <3> QED
        BY <1>5, <3>1, <3>2, <3>3, <3>4
    <2> QED
      BY <1>g, <2>1, <2>2, <2>3, SentKept
  <1>6. CASE RenameColumn
    <2>1. PICK i \in DOMAIN columns :
             rename' = Sending(columns[i].id, columns[i].title, versions[columns[i].id])
      BY <1>6 DEF RenameColumn
    <2>2. UNCHANGED <<lists, news, reorder>>
      BY <1>6 DEF RenameColumn
    <2>3. rename'.answer = <<>>
      BY <2>1 DEF Sending
    <2> QED
      BY <1>g, <1>v, <2>2, <2>3, SentKept
  <1>7. CASE ServeRename
    <2>1. UNCHANGED <<lists, news>>
      BY <1>7 DEF ServeRename
    <2>2. \A r \in Reorder : reorder'[r].answer \in {reorder[r].answer, Listed, <<>>}
      BY <1>7, <1>v, <1>w DEF ServeRename
    <2>3. rename'.answer = <<>> \/ \E x : rename'.answer = x /\ AllKnown(x)'
      <3> DEFINE c == rename.id
      <3>1. CASE rename' = Answered
        BY <3>1, NoRenameIs
      <3>2. CASE rename' # Answered
        <4>1. /\ rows[c].live /\ UNCHANGED created
              /\ rename' = [[rename EXCEPT !.stage = "renamed"] EXCEPT !.answer = <<RowIn(rows', c)>>]
          BY <1>7, <3>2 DEF ServeRename
        <4>2. c \in 1 .. Columns /\ c <= created'
          BY <1>0, <1>7, <4>1 DEF ServeRename, RenameOK, RowsInv
        <4> DEFINE x == RowIn(rows', c)
        <4>3. \E y : y = x /\ AllKnown(<<y>>)'
          BY <1>r, <4>2
        <4>4. rename'.answer = <<x>>
          BY <1>0, <4>1 DEF RenameOK, RenameType
        <4> HIDE DEF x
        <4> QED
          BY <4>3, <4>4
      <3> QED
        BY <3>1, <3>2
    <2> QED
      BY <1>g, <2>1, <2>2, <2>3, SentKept
  <1>8. CASE Renamed
    <2>1. rename'.answer = <<>> /\ UNCHANGED <<lists, news, reorder>>
      BY <1>8, NoRenameIs DEF Renamed
    <2> QED
      BY <1>g, <1>v, <2>1, SentKept
  <1>9. CASE CreateColumn \/ InsertColumn \/ Created \/ AskForList
    <2>1. UNCHANGED <<lists, news, rename>>
      BY <1>9 DEF CreateColumn, InsertColumn, Created, AskForList
    <2>2. UNCHANGED reorder \/ reorder' = Disturbed(Reorder)
      BY <1>9 DEF CreateColumn, InsertColumn, Created, AskForList
    <2> QED
      BY <1>g, <1>v, <1>w, <2>1, <2>2, SentKept
  <1>10. CASE ServeList \/ ReceiveList \/ OnEvent
    <2>1. UNCHANGED <<rename, reorder>>
      BY <1>10 DEF ServeList, ReceiveList, OnEvent
    <2>2. /\ \A items \in lists' : items \in lists \/ items = Listed
          /\ \A e \in news' : e \in news
      BY <1>10 DEF ServeList, ReceiveList, OnEvent
    <2> QED
      BY <1>g, <1>v, <2>1, <2>2, SentKept
  <1>11. CASE UNCHANGED columnVars
    <2>1. UNCHANGED <<lists, news, rename, reorder>>
      BY <1>11 DEF columnVars
    <2> QED
      BY <1>g, <1>v, <2>1, SentKept
  <1> QED
    BY <1>1, <1>2, <1>3, <1>4, <1>5, <1>6, <1>7, <1>8, <1>9, <1>10, <1>11 DEF ColumnsNext

\* What the page shows is what it remembers.
Held ==
    /\ AllKnown(columns)
    /\ \A i \in DOMAIN columns : columns[i].version = versions[columns[i].id]

\* The page holds what it held, or shows something that it has been sent, with its version.
LEMMA HeldKept ==
  ASSUME TableOK, Grows, columns \in Seq(Item), Held, NEW t \in Seq(Item), columns' = t, Whole(t),
         \A i \in DOMAIN t :
            \/ /\ \E j \in DOMAIN columns : t[i] = columns[j]
               /\ versions'[t[i].id] = versions[t[i].id]
            \/ Known(t[i]) /\ versions'[t[i].id] = t[i].version
  PROVE  Held'
  <1>1. \A i \in DOMAIN columns : Known(columns[i]) /\ columns[i].version = versions[columns[i].id]
    BY DEF Held, AllKnown
  <1>2. \A i \in DOMAIN t : t[i] \in Item /\ Known(t[i]) /\ versions'[t[i].id] = t[i].version
    BY <1>1
  <1>3. \A i \in DOMAIN t : Known(t[i])'
    BY <1>2, KnownStays
  <1> QED
    BY <1>2, <1>3 DEF Held, AllKnown, Whole

LEMMA ShownHeld ==
  ASSUME ColumnsTypeOK, Grows, NEW items \in Seq(Item), AllKnown(items), ShowsColumns(items)
  PROVE  Held'
  <1>1. AllKnown(items)'
    BY TypeParts, SeenStays
  <1>2. columns' = items /\ versions' = Remembered(items) /\ Whole(items)
    BY DEF ShowsColumns, AllKnown
  <1>3. ASSUME NEW i \in DOMAIN items PROVE items[i].version = versions'[items[i].id]
    <2>1. items[i] \in Item
      OBVIOUS
    <2>2. items[i].id \in 1 .. Columns
      BY <2>1 DEF Item
    <2>3. WithId(items, items[i].id) = {i}
      BY <1>2 DEF WithId, Whole
    <2> QED
      BY <1>2, <2>2, <2>3, RememberedIs
  <1> QED
    BY <1>1, <1>2, <1>3 DEF Held, AllKnown

LEMMA RememberedOne ==
  ASSUME ColumnsTypeOK, NEW items \in Seq(Item), Len(items) = 1
  PROVE  /\ items[1] \in Item
         /\ \A c \in 1 .. Columns :
               Remembered(items)[c] = IF c = items[1].id THEN items[1].version ELSE versions[c]
  <1>1. DOMAIN items = {1} /\ items[1] \in Item
    OBVIOUS
  <1>2. \A c : WithId(items, c) = IF c = items[1].id THEN {1} ELSE {}
    BY <1>1 DEF WithId
  <1> QED
    BY <1>1, <1>2, RememberedIs

LEMMA NextHeld ==
  ASSUME ColumnsTypeOK, SentInv, [ColumnsNext]_columnVars, Held, ~blurred'
  PROVE  Held'
  <1>0. /\ TableOK /\ reorder \in [Reorder -> ReorderType] /\ RenameOK /\ NewsOK
        /\ columns \in Seq(Item) /\ versions \in [1 .. Columns -> Nat] /\ CreatingOK
    BY TypeParts
  <1>g. Grows
    BY TableGrows
  <1>h. Whole(columns) /\ \A i \in DOMAIN columns : Known(columns[i]) /\ columns[i].version = versions[columns[i].id]
    BY DEF Held, AllKnown
  <1>i. \A t \in Seq(Item) : \A i \in DOMAIN t : t[i] \in Item /\ t[i].id \in 1 .. Columns
    <2>1. \A t \in Seq(Item) : \A i \in DOMAIN t : t[i] \in Item
      OBVIOUS
    <2> QED
      BY <2>1 DEF Item
  <1>s. UNCHANGED shown => Held'
    BY <1>0, <1>g, <1>h, HeldKept DEF shown
  <1>f. \A t \in Seq(Item) : From(t, columns) /\ Whole(t) /\ columns' = t /\ UNCHANGED versions => Held'
    BY <1>0, <1>g, HeldKept DEF From
  <1>1. CASE OthersRename \/ OthersCreate \/ OthersDelete \/ DeleteColumn
    BY <1>1, <1>s DEF OthersRename, OthersCreate, OthersDelete, DeleteColumn, Delete
  <1>2. ASSUME NEW r \in Reorder, CheckVersions(r) \/ WritePosition(r) \/ EndReorder(r) \/ OthersReorder(r)
        PROVE  Held'
    BY <1>2, <1>s DEF CheckVersions, WritePosition, EndReorder, OthersReorder
  <1>3. ASSUME NEW r \in Reorder, MoveColumn(r) PROVE Held'
    <2>1. PICK i \in DOMAIN columns : \E next \in Moved(i) \cup Dropped(i) : columns' = next
      BY <1>3 DEF MoveColumn
    <2>2. PICK next \in Moved(i) \cup Dropped(i) : columns' = next
      BY <2>1
    <2>3. next \in Seq(Item) /\ From(next, columns) /\ Whole(next)
      BY <1>0, <1>h, MovedItems
    <2> QED
      BY <1>3, <1>f, <2>2, <2>3 DEF MoveColumn
  <1>4. ASSUME NEW r \in Reorder, Accepted(r) PROVE Held'
    <2>1. ShowsColumns(reorder[r].answer) /\ reorder[r].answer \in Seq(Item) /\ AllKnown(reorder[r].answer)
      BY <1>0, <1>4 DEF Accepted, ReorderType, SentInv
    <2> QED
      BY <1>g, <2>1, ShownHeld
  <1>5. ASSUME NEW r \in Reorder, Refused(r) PROVE Held'
    BY <1>5 DEF Refused
  <1>6. CASE RenameColumn \/ ServeRename \/ CreateColumn \/ InsertColumn \/ AskForList \/ ServeList
    BY <1>6, <1>s DEF RenameColumn, ServeRename, CreateColumn, InsertColumn, AskForList, ServeList
  <1>7. CASE Renamed
    <2> DEFINE a == rename.answer[1]
    <2>1. /\ columns' = [i \in DOMAIN columns |-> IF columns[i].id = rename.id THEN a ELSE columns[i]]
          /\ versions' = Remembered(rename.answer) /\ rename.stage = "renamed"
      BY <1>7 DEF Renamed
    <2>2. rename.answer \in Seq(Item) /\ Len(rename.answer) = 1 /\ a.id = rename.id
      BY <1>0, <2>1 DEF RenameOK, RenameType
    <2>3. a \in Item /\ Known(a)
      BY <2>2 DEF SentInv, AllKnown
    <2>4. \A c \in 1 .. Columns : versions'[c] = IF c = a.id THEN a.version ELSE versions[c]
      BY <2>1, <2>2, RememberedOne
    <2> HIDE DEF a
    <2>5. \E t : t = columns'
      OBVIOUS
    <2>6. PICK t : t = columns'
      BY <2>5
    <2>7. /\ DOMAIN t = DOMAIN columns
          /\ \A i \in DOMAIN t : t[i] = IF columns[i].id = a.id THEN a ELSE columns[i]
      BY <2>1, <2>2, <2>6 DEF a
    <2>8. t \in Seq(Item)
      BY <2>6, NextColumnTypes, TypePartsNext
    <2>9. \A i \in DOMAIN t : t[i].id = columns[i].id
      BY <2>7
    <2>10. Whole(t)
      BY <1>h, <2>7, <2>9 DEF Whole
    <2>11. \A i \in DOMAIN t :
            \/ /\ \E j \in DOMAIN columns : t[i] = columns[j]
               /\ versions'[t[i].id] = versions[t[i].id]
            \/ Known(t[i]) /\ versions'[t[i].id] = t[i].version
      BY <1>i, <2>3, <2>4, <2>7, <2>8
    <2> QED
      BY <1>0, <1>g, <2>6, <2>8, <2>10, <2>11, HeldKept
  <1>8. CASE Created
    <2> DEFINE x == [id |-> creating[2], position |-> creating[1] + 1, version |-> 1, title |-> 0]
               t == WithAppended(x)
    <2>1. /\ Len(creating) = 2 /\ columns' = t /\ versions' = [versions EXCEPT ![x.id] = 1]
          /\ WithId(columns, x.id) = {}
      BY <1>8 DEF Created
    <2>2. creating[2] \in 1 .. created /\ creating[1] \in Int /\ created \in Nat /\ created <= Columns
      <3>1. creating \in Seq(Int) /\ 1 \in 1 .. Len(creating)
        BY <1>0, <2>1 DEF CreatingOK
      <3> QED
        BY <1>0, <2>1, <3>1, ElementOfSeq, LiveIs DEF CreatingOK
    <2>3. x \in Item /\ x.id = creating[2] /\ x.version = 1 /\ x.title = 0
      BY <2>2, ColumnConstants DEF Item
    <2>4. Known(x)
      <3>1. rows[x.id].version \in Nat
        BY <1>0, <2>2, <2>3, RowIs
      <3> QED
        BY <2>2, <2>3, <3>1 DEF Known, SentInv
    <2> HIDE DEF x
    <2>5. /\ t \in Seq(Item) /\ \A i \in DOMAIN t : t[i] = x \/ \E j \in DOMAIN columns : t[i] = columns[j]
          /\ Whole(t) /\ \A i \in DOMAIN t : t[i].id = x.id => t[i] = x
      BY <1>0, <1>h, <2>1, <2>3, AppendedItems
    <2>6. \A c \in 1 .. Columns : versions'[c] = IF c = x.id THEN x.version ELSE versions[c]
      BY <1>0, <2>1, <2>3
    <2> HIDE DEF t
    <2>7. \A i \in DOMAIN t :
            \/ /\ \E j \in DOMAIN columns : t[i] = columns[j]
               /\ versions'[t[i].id] = versions[t[i].id]
            \/ Known(t[i]) /\ versions'[t[i].id] = t[i].version
      BY <1>i, <2>4, <2>5, <2>6
    <2> QED
      BY <1>0, <1>g, <2>1, <2>5, <2>7, HeldKept
  <1>9. CASE ReceiveList
    <2>1. PICK items \in lists : ShowsColumns(items)
      BY <1>9 DEF ReceiveList
    <2>2. items \in Seq(Item) /\ AllKnown(items)
      BY <2>1, TypeParts DEF SentInv
    <2> QED
      BY <1>g, <2>1, <2>2, ShownHeld
  <1>10. CASE OnEvent
    <2>1. PICK e \in news :
             \/ e.own /\ versions' = OwnIgnored(e.items) /\ UNCHANGED columns
             \/ /\ ~e.own /\ e.kind \in {"created", "updated"}
                /\ columns' = WithColumn(e.items[1]) /\ versions' = Remembered(e.items)
             \/ /\ e.kind = "deleted" /\ UNCHANGED versions
                /\ columns' = WithoutColumn(e.items[1].id)
             \/ e.kind = "reordered" /\ ShowsColumns(e.items)
      BY <1>10 DEF OnEvent
    <2>2. /\ e \in News /\ (e.kind # "reordered" => Len(e.items) = 1) /\ e.items \in Seq(Item)
          /\ AllKnown(e.items)
      BY <1>0, <2>1 DEF NewsOK, News, SentInv
    <2>3. CASE e.own /\ versions' = OwnIgnored(e.items) /\ UNCHANGED columns
      BY <1>s, <2>3 DEF OwnIgnored, shown
    <2>4. CASE /\ ~e.own /\ e.kind \in {"created", "updated"}
               /\ columns' = WithColumn(e.items[1]) /\ versions' = Remembered(e.items)
      <3> DEFINE x == e.items[1]
                 t == WithColumn(x)
      <3>1. Len(e.items) = 1
        BY <2>2, <2>4
      <3>2. x \in Item /\ Known(x)
        BY <2>2, <3>1 DEF AllKnown
      <3>3. \A c \in 1 .. Columns : versions'[c] = IF c = x.id THEN x.version ELSE versions[c]
        BY <2>2, <2>4, <3>1, RememberedOne
      <3> HIDE DEF x
      <3>4. /\ t \in Seq(Item) /\ \A i \in DOMAIN t : t[i] = x \/ \E j \in DOMAIN columns : t[i] = columns[j]
            /\ Whole(t) /\ \A i \in DOMAIN t : t[i].id = x.id => t[i] = x
        BY <1>0, <1>h, <3>2, WithColumnItems
      <3>5. columns' = t
        BY <2>4 DEF x
      <3> HIDE DEF t
      <3>6. \A i \in DOMAIN t :
              \/ /\ \E j \in DOMAIN columns : t[i] = columns[j]
                 /\ versions'[t[i].id] = versions[t[i].id]
              \/ Known(t[i]) /\ versions'[t[i].id] = t[i].version
        BY <1>i, <3>2, <3>3, <3>4
      <3> QED
        BY <1>0, <1>g, <3>4, <3>5, <3>6, HeldKept
    <2>5. CASE /\ e.kind = "deleted" /\ UNCHANGED versions
               /\ columns' = WithoutColumn(e.items[1].id)
      BY <1>0, <1>f, <1>h, <2>5, WithoutColumnItems
    <2>6. CASE e.kind = "reordered" /\ ShowsColumns(e.items)
      BY <1>g, <2>2, <2>6, ShownHeld
    <2> QED
      BY <2>1, <2>3, <2>4, <2>5, <2>6
  <1>11. CASE UNCHANGED columnVars
    BY <1>11, <1>s DEF columnVars
  <1> QED
    BY <1>1, <1>2, <1>3, <1>4, <1>5, <1>6, <1>7, <1>8, <1>9, <1>10, <1>11 DEF ColumnsNext

\* The exceptions of the rename are never taken back.
LEMMA BlurredStays == ColumnsTypeOK /\ [ColumnsNext]_columnVars => (~blurred' => ~blurred)
  <1> SUFFICES ASSUME ColumnsTypeOK, [ColumnsNext]_columnVars, ~blurred' PROVE ~blurred
    OBVIOUS
  <1>1. CASE UNCHANGED blurred
    BY <1>1
  <1>2. CASE Created \/ \E r \in Reorder : Refused(r)
    BY <1>2 DEF Created, Refused
  <1> QED
    BY <1>1, <1>2 DEF ColumnsNext, columnVars, OthersRename, OthersCreate, OthersDelete, DeleteColumn, Delete,
       CheckVersions, WritePosition, EndReorder, OthersReorder, MoveColumn, Accepted, RenameColumn,
       ServeRename, Renamed, CreateColumn, InsertColumn, AskForList, ServeList, ReceiveList, OnEvent

LEMMA NextRenamed ==
  ASSUME ColumnsTypeOK, SentInv, HeldInv, RenameInv, [ColumnsNext]_columnVars
  PROVE  /\ RenameInv'
         /\ rename.stage = "sent" /\ rename'.stage = "renamed" => blurred \/ rows[rename.id].title = rename.base
  <1>0. TableOK /\ RenameOK /\ columns \in Seq(Item) /\ created \in Nat
    BY TypeParts, LiveIs
  <1>g. Grows
    BY TableGrows
  <1>b. ~blurred' => ~blurred
    BY BlurredStays
  <1>k. UNCHANGED rename => RenameInv'
    <2> SUFFICES ASSUME UNCHANGED rename, rename.stage = "sent", ~blurred'
                 PROVE  /\ rename.id \in 1 .. created' /\ rename.match <= rows'[rename.id].version
                        /\ rename.match = rows'[rename.id].version => rows'[rename.id].title = rename.base
      BY DEF RenameInv
    <2> DEFINE c == rename.id
               m == rename.match
               v == rows[c].version
               w == rows'[c].version
    <2>1. c \in 1 .. created /\ m <= v /\ (m = v => rows[c].title = rename.base)
      BY <1>b DEF RenameInv
    <2>2. v \in Nat /\ w \in Nat /\ w >= v /\ (w = v => rows'[c].title = rows[c].title) /\ m \in Nat
      BY <1>0, <1>g, <2>1, RowIs DEF Grows, RenameOK, RenameType
    <2>3. c \in 1 .. created'
      BY <1>0, <1>g, <2>1 DEF Grows
    <2> HIDE DEF v, w, m
    <2>4. m <= w /\ (m = w => m = v /\ w = v)
      BY <2>1, <2>2
    <2> QED
      BY <2>1, <2>2, <2>3, <2>4 DEF v, w, m
  <1>1. CASE RenameColumn
    <2>1. PICK i \in DOMAIN columns : rename' = Sending(columns[i].id, columns[i].title, versions[columns[i].id])
      BY <1>1 DEF RenameColumn
    <2>2. rename.stage = "none" /\ UNCHANGED <<table, blurred>>
      BY <1>1 DEF RenameColumn
    <2> DEFINE x == columns[i]
    <2>3. ~blurred => Known(x) /\ x.version = versions[x.id]
      BY DEF HeldInv, AllKnown
    <2>4. /\ rename'.stage = "sent" /\ rename'.id = x.id /\ rename'.base = x.title
          /\ rename'.match = versions[x.id]
      BY <2>1 DEF Sending
    <2>5. x.id \in Nat /\ x.id > 0
      <3>1. x \in Item
        BY <1>0
      <3> QED
        BY <3>1, ColumnConstants DEF Item
    <2>6. ASSUME ~blurred PROVE x.id \in 1 .. created /\ Known(x) /\ x.version = versions[x.id]
      BY <1>0, <2>3, <2>5, <2>6 DEF Known
    <2> HIDE DEF x
    <2> QED
      BY <2>2, <2>4, <2>6 DEF RenameInv, Known, table
  <1>2. CASE ServeRename
    <2>1. rename' = Answered \/ rename'.stage = "renamed"
      BY <1>0, <1>2 DEF ServeRename, RenameOK, RenameType
    <2>2. rename'.stage # "sent"
      BY <2>1, NoRenameIs
    <2>3. ASSUME rename'.stage = "renamed" PROVE rows[rename.id].version = rename.match
      BY <1>2, <2>3, NoRenameIs DEF ServeRename
    <2> QED
      BY <2>2, <2>3 DEF RenameInv
  <1>3. CASE Renamed
    BY <1>3, NoRenameIs DEF Renamed, RenameInv
  <1>4. CASE UNCHANGED rename
    BY <1>4, <1>k
  <1> QED
    BY <1>1, <1>2, <1>3, <1>4 DEF ColumnsNext, columnVars, OthersRename, OthersCreate, OthersDelete, DeleteColumn, Delete,
       CheckVersions, WritePosition, EndReorder, OthersReorder, MoveColumn, Accepted, Refused,
       CreateColumn, InsertColumn, Created, AskForList, ServeList, ReceiveList, OnEvent

\* A rename that the service accepts replaces the title that the page held when it was sent,
\* whatever came in between: handleColumnRenameSave sends the version in the cache with it,
\* UpdateColumnIfVersion compares that with the row.  But for an order that was put back
\* after a refusal, and a column that is shown twice.
THEOREM RenamesReplaceTheHeld == ColumnsSpec => RenameReplacesWhatWasHeld
  <1> DEFINE Inv == ColumnsTypeOK /\ SentInv /\ HeldInv /\ RenameInv
             A == rename.stage = "sent" /\ rename'.stage = "renamed" =>
                     blurred \/ rows[rename.id].title = rename.base
  <1>1. ColumnsInit => Inv
    BY InitColumns, InitSent
  <1>2. Inv /\ [ColumnsNext]_columnVars => Inv' /\ A
    <2> SUFFICES ASSUME Inv, [ColumnsNext]_columnVars PROVE Inv' /\ A
      OBVIOUS
    <2>1. HeldInv'
      <3> SUFFICES ASSUME ~blurred' PROVE Held'
        BY DEF HeldInv, Held
      <3>1. ~blurred
        BY BlurredStays
      <3> QED
        BY <3>1, NextHeld DEF HeldInv, Held
    <2> QED
      BY <2>1, NextColumnTypes, NextSent, NextRenamed
  <1> QED
    BY <1>1, <1>2, PTL DEF ColumnsSpec, RenameReplacesWhatWasHeld

-----------------------------------------------------------------------------
\* The place where an element comes first.
LEMMA LeastNat == ASSUME NEW T \in SUBSET Nat, T # {} PROVE \E n \in T : \A m \in T : n <= m
  <1>1. PICK n \in T : \A m \in T : ~(<<m, n>> \in OpToRel(<, Nat))
    BY NatLessThanWellFounded, WFMin
  <1>2. \A m \in T : ~(m < n)
    BY <1>1 DEF OpToRel
  <1> QED
    BY <1>2

LEMMA FirstAtIs ==
  ASSUME NEW T, NEW ids \in Seq(T), NEW c
  PROVE  /\ FirstAt(ids, c) \in 1 .. Len(ids) + 1
         /\ FirstAt(ids, c) <= Len(ids) => ids[FirstAt(ids, c)] = c
         /\ \A j \in 1 .. Len(ids) : ids[j] = c => FirstAt(ids, c) <= j
         /\ \A i \in 1 .. Len(ids) : ids[i] = c /\ (\A j \in 1 .. i - 1 : ids[j] # c) => i = FirstAt(ids, c)
  <1> DEFINE n == Len(ids)
             Is(i) == (i <= n => ids[i] = c) /\ \A j \in 1 .. i - 1 : ids[j] # c
             p == FirstAt(ids, c)
             S == {i \in 1 .. n + 1 : i = n + 1 \/ ids[i] = c}
  <1>1. n \in Nat
    OBVIOUS
  <1>2. p = CHOOSE i \in 1 .. n + 1 : Is(i)
    BY DEF FirstAt
  <1>3. \E i \in 1 .. n + 1 : Is(i)
    <2>1. S \in SUBSET Nat /\ S # {}
      <3>1. n + 1 \in S
        BY <1>1
      <3> QED
        BY <3>1, <1>1
    <2>2. PICK i \in S : \A m \in S : i <= m
      <3> HIDE DEF S
      <3> QED
        BY <2>1, LeastNat
    <2>3. i \in 1 .. n + 1 /\ (i <= n => ids[i] = c)
      BY <1>1
    <2>4. ASSUME NEW j \in 1 .. i - 1, ids[j] = c PROVE FALSE
      <3>1. j \in 1 .. n + 1 /\ j < i
        BY <1>1, <2>3
      <3>2. j \in S
        BY <3>1, <2>4
      <3> QED
        BY <3>1, <3>2, <2>2, <2>3
    <2> QED
      BY <2>3, <2>4
  <1>4. p \in 1 .. n + 1 /\ Is(p)
    <2> HIDE DEF Is, p, n
    <2> QED
      BY <1>2, <1>3
  <1>5. \A j \in 1 .. n : ids[j] = c => p <= j
    <2> SUFFICES ASSUME NEW j \in 1 .. n, ids[j] = c, ~(p <= j) PROVE FALSE
      OBVIOUS
    <2>1. j \in 1 .. p - 1
      BY <1>1, <1>4
    <2> QED
      BY <1>4, <2>1
  <1>6. ASSUME NEW i \in 1 .. n, ids[i] = c, \A j \in 1 .. i - 1 : ids[j] # c PROVE i = p
    <2>1. p <= i
      BY <1>5, <1>6
    <2>2. ~(p < i)
      <3> SUFFICES ASSUME p < i PROVE FALSE
        OBVIOUS
      <3>1. p \in 1 .. i - 1 /\ p <= n
        BY <1>1, <1>4
      <3> QED
        BY <1>4, <1>6, <3>1
    <2> QED
      BY <1>1, <1>4, <2>1, <2>2
  <1> QED
    BY <1>4, <1>5, <1>6

\* The order of the writes: every column, once; and those that the request names in the
\* order in which it names them first.
LEMMA FinalOrderIs ==
  ASSUME TableOK, NEW asked \in Seq(1 .. Columns)
  PROVE  LET f == FinalOrder(asked) IN
         /\ f \in Seq(1 .. Columns) /\ ToSet(f) = Live
         /\ \A i, j \in DOMAIN f : i # j => f[i] # f[j]
         /\ \A x, y \in Live : FirstAt(asked, x) < FirstAt(asked, y) => Precedes(f, x, y)
  <1> DEFINE I == {i \in DOMAIN asked : asked[i] \in Live /\ \A j \in 1 .. i - 1 : asked[j] # asked[i]}
             J == {n \in DOMAIN InTable : InTable[n] \notin ToSet(asked)}
             N == Named(asked)
             U == Unnamed(asked)
             f == FinalOrder(asked)
             k == Len(N)
             l == Len(U)
             At(c) == FirstAt(asked, c)
  <1>0. Len(asked) \in Nat /\ DOMAIN asked = 1 .. Len(asked)
    OBVIOUS
  <1>1. /\ InTable \in Seq(1 .. Columns) /\ DOMAIN InTable = 1 .. Cardinality(Live)
        /\ \A n \in DOMAIN InTable : InTable[n] \in Live
        /\ \A c \in Live : \E n \in DOMAIN InTable : InTable[n] = c
        /\ \A m, n \in DOMAIN InTable : m # n => InTable[m] # InTable[n]
    <2>1. /\ Cardinality(Live) \in Nat /\ InTable \in [1 .. Cardinality(Live) -> Live]
          /\ \A c \in Live : \E n \in 1 .. Cardinality(Live) : InTable[n] = c
          /\ DOMAIN Listed = 1 .. Cardinality(Live) /\ Whole(Listed)
          /\ \A n \in DOMAIN Listed : InTable[n] \in Live /\ Listed[n] = Row(InTable[n])
      BY ListedIs
    <2>2. InTable \in [1 .. Cardinality(Live) -> 1 .. Columns]
      BY <2>1, LiveIs
    <2>3. \A m, n \in 1 .. Cardinality(Live) : m # n => InTable[m] # InTable[n]
      <3> SUFFICES ASSUME NEW m \in 1 .. Cardinality(Live), NEW n \in 1 .. Cardinality(Live), m # n
                   PROVE  InTable[m] # InTable[n]
        OBVIOUS
      <3>1. m \in DOMAIN Listed /\ n \in DOMAIN Listed
        BY <2>1
      <3>2. Listed[m].id # Listed[n].id
        BY <2>1, <3>1 DEF Whole
      <3>3. Listed[m] = Row(InTable[m]) /\ Listed[n] = Row(InTable[n])
        BY <2>1, <3>1
      <3> QED
        BY <3>2, <3>3
    <2>4. DOMAIN InTable = 1 .. Cardinality(Live) /\ InTable \in Seq(1 .. Columns)
      <3>1. Cardinality(Live) \in Nat
        BY <2>1
      <3> QED
        BY <2>2, <3>1
    <2> QED
      BY <2>1, <2>3, <2>4
  <1>2. N \in Seq(1 .. Columns) /\ \E p : Selects(N, asked, I, p) /\ \A m, n \in DOMAIN N : m < n <=> p[m] < p[n]
    <2>1. I \in SUBSET DOMAIN asked
      OBVIOUS
    <2>2. N = Picked(asked, I)
      BY DEF Named
    <2> HIDE DEF I, N
    <2> QED
      BY <2>1, <2>2, PickedIs
  <1>3. U \in Seq(1 .. Columns) /\ \E q : Selects(U, InTable, J, q)
    <2>1. J \in SUBSET DOMAIN InTable
      OBVIOUS
    <2>2. U = Picked(InTable, J)
      BY DEF Unnamed
    <2> HIDE DEF J, U
    <2>3. /\ Picked(InTable, J) \in Seq(1 .. Columns)
          /\ \E p : /\ Selects(Picked(InTable, J), InTable, J, p)
                    /\ \A m, n \in DOMAIN Picked(InTable, J) : m < n <=> p[m] < p[n]
      <3>1. InTable \in Seq(1 .. Columns)
        BY <1>1
      <3> QED
        BY <2>1, <3>1, PickedIs
    <2> QED
      BY <2>2, <2>3
  <1>4. PICK p : Selects(N, asked, I, p) /\ \A m, n \in DOMAIN N : m < n <=> p[m] < p[n]
    BY <1>2
  <1>5. PICK q : Selects(U, InTable, J, q)
    BY <1>3
  <1>c. f = N \o U
    BY DEF FinalOrder
  <1>i. \A i \in I : /\ i \in 1 .. Len(asked) /\ asked[i] \in Live
                     /\ \A j \in 1 .. i - 1 : asked[j] # asked[i]
    BY <1>0
  <1>j. \A n \in J : n \in DOMAIN InTable /\ InTable[n] \notin ToSet(asked)
    OBVIOUS
  <1>o. \A i \in 1 .. Len(asked) : asked[i] \in ToSet(asked)
    BY <1>0 DEF ToSet
  <1>a. \A c : /\ At(c) \in 1 .. Len(asked) + 1
               /\ At(c) <= Len(asked) => asked[At(c)] = c
               /\ \A j \in 1 .. Len(asked) : asked[j] = c => At(c) <= j
               /\ \A i \in 1 .. Len(asked) :
                     asked[i] = c /\ (\A j \in 1 .. i - 1 : asked[j] # c) => i = At(c)
    BY FirstAtIs
  <1>h. \A i \in 1 .. Len(asked) : asked[i] \in Live /\ (\A j \in 1 .. i - 1 : asked[j] # asked[i]) => i \in I
    BY <1>0
  <1>m. \A n \in DOMAIN InTable : InTable[n] \notin ToSet(asked) => n \in J
    OBVIOUS
  <1> HIDE DEF I, J, N, U, f, At
  <1>6. /\ k \in Nat /\ l \in Nat /\ DOMAIN N = 1 .. k /\ DOMAIN U = 1 .. l
        /\ f \in Seq(1 .. Columns) /\ DOMAIN f = 1 .. k + l
        /\ \A i \in 1 .. k + l : f[i] = IF i <= k THEN N[i] ELSE U[i - k]
    <2>1. /\ f \in Seq(1 .. Columns) /\ Len(f) = k + l
          /\ \A i \in 1 .. k + l : f[i] = IF i <= k THEN N[i] ELSE U[i - k]
      BY <1>2, <1>3, <1>c, ConcatProperties
    <2> QED
      BY <2>1, <1>2, <1>3
  <1>7. /\ \A n \in 1 .. k : /\ N[n] \in Live /\ N[n] \in ToSet(asked)
                             /\ p[n] = At(N[n]) /\ p[n] \in 1 .. Len(asked)
    <2> SUFFICES ASSUME NEW n \in 1 .. k
                 PROVE  N[n] \in Live /\ N[n] \in ToSet(asked) /\ p[n] = At(N[n]) /\ p[n] \in 1 .. Len(asked)
      OBVIOUS
    <2>1. p[n] \in I /\ N[n] = asked[p[n]]
      BY <1>4, <1>6 DEF Selects
    <2>2. /\ p[n] \in 1 .. Len(asked) /\ asked[p[n]] \in Live
          /\ \A j \in 1 .. p[n] - 1 : asked[j] # asked[p[n]]
      BY <1>i, <2>1
    <2> QED
      BY <1>a, <1>o, <2>1, <2>2
  <1>8. \A n \in 1 .. l : U[n] \in Live /\ U[n] \notin ToSet(asked)
    BY <1>1, <1>5, <1>6, <1>j DEF Selects
  <1>9. \A c \in Live : c \in ToSet(asked) => \E n \in 1 .. k : N[n] = c
    <2> SUFFICES ASSUME NEW c \in Live, c \in ToSet(asked) PROVE \E n \in 1 .. k : N[n] = c
      OBVIOUS
    <2>1. PICK j \in 1 .. Len(asked) : asked[j] = c
      BY <1>0 DEF ToSet
    <2>2. At(c) \in 1 .. Len(asked) /\ asked[At(c)] = c
      BY <1>0, <1>a, <2>1
    <2>3. \A m \in 1 .. At(c) - 1 : asked[m] # c
      <3> SUFFICES ASSUME NEW m \in 1 .. At(c) - 1, asked[m] = c PROVE FALSE
        OBVIOUS
      <3>1. m \in 1 .. Len(asked) /\ m < At(c)
        BY <1>0, <2>2
      <3> QED
        BY <1>0, <1>a, <2>2, <3>1
    <2>4. At(c) \in I
      BY <1>h, <2>2, <2>3
    <2>5. PICK n \in 1 .. k : p[n] = At(c)
      BY <1>4, <1>6, <2>4 DEF Selects
    <2>6. N[n] = asked[p[n]]
      BY <1>4, <1>6 DEF Selects
    <2> QED
      BY <2>2, <2>5, <2>6
  <1>10. \A c \in Live : c \notin ToSet(asked) => \E n \in 1 .. l : U[n] = c
    <2> SUFFICES ASSUME NEW c \in Live, c \notin ToSet(asked) PROVE \E n \in 1 .. l : U[n] = c
      OBVIOUS
    <2>1. PICK m \in DOMAIN InTable : InTable[m] = c
      BY <1>1
    <2>2. m \in J
      BY <1>m, <2>1
    <2>3. PICK n \in 1 .. l : q[n] = m
      BY <1>5, <1>6, <2>2 DEF Selects
    <2>4. U[n] = InTable[q[n]]
      BY <1>5, <1>6 DEF Selects
    <2> QED
      BY <2>1, <2>3, <2>4
  <1>11. ToSet(f) = Live
    <2>1. \A i \in 1 .. k + l : i <= k \/ i - k \in 1 .. l
      BY <1>6
    <2>2. \A i \in DOMAIN f : f[i] \in Live
      <3> SUFFICES ASSUME NEW i \in 1 .. k + l PROVE f[i] \in Live
        BY <1>6
      <3>1. CASE i <= k
        <4>1. i \in 1 .. k
          BY <3>1, <1>6
        <4> QED
          BY <3>1, <4>1, <1>6, <1>7
      <3>2. CASE ~(i <= k)
        BY <3>2, <2>1, <1>6, <1>8
      <3> QED
        BY <3>1, <3>2
    <2>3. \A c \in Live : \E i \in DOMAIN f : f[i] = c
      <3> SUFFICES ASSUME NEW c \in Live PROVE \E i \in 1 .. k + l : f[i] = c
        BY <1>6
      <3>1. CASE c \in ToSet(asked)
        <4>1. PICK n \in 1 .. k : N[n] = c
          BY <3>1, <1>9
        <4>2. n \in 1 .. k + l /\ n <= k
          BY <1>6
        <4> QED
          BY <4>1, <4>2, <1>6
      <3>2. CASE c \notin ToSet(asked)
        <4>1. PICK n \in 1 .. l : U[n] = c
          BY <3>2, <1>10
        <4>2. k + n \in 1 .. k + l /\ ~(k + n <= k) /\ k + n - k = n
          BY <1>6
        <4>3. f[k + n] = U[n]
          <5> DEFINE i == k + n
          <5>1. i \in 1 .. k + l /\ ~(i <= k) /\ i - k = n
            BY <4>2
          <5> HIDE DEF i
          <5>2. f[i] = U[i - k]
            BY <5>1, <1>6
          <5> QED
            BY <5>1, <5>2 DEF i
        <4> QED
          BY <4>1, <4>2, <4>3
      <3> QED
        BY <3>1, <3>2
    <2> QED
      BY <2>2, <2>3 DEF ToSet
  <1>n. \A m, n \in 1 .. k : m # n => N[m] # N[n]
    <2> SUFFICES ASSUME NEW m \in 1 .. k, NEW n \in 1 .. k, m # n, N[m] = N[n] PROVE FALSE
      OBVIOUS
    <2>1. p[m] # p[n]
      BY <1>4, <1>6 DEF Selects
    <2> QED
      BY <2>1, <1>7
  <1>u. \A m, n \in 1 .. l : m # n => U[m] # U[n]
    <2> SUFFICES ASSUME NEW m \in 1 .. l, NEW n \in 1 .. l, m # n PROVE U[m] # U[n]
      OBVIOUS
    <2>1. q[m] # q[n] /\ q[m] \in J /\ q[n] \in J /\ U[m] = InTable[q[m]] /\ U[n] = InTable[q[n]]
      BY <1>5, <1>6 DEF Selects
    <2> QED
      BY <2>1, <1>1, <1>j
  <1>12. \A i, j \in DOMAIN f : i < j => f[i] # f[j]
    <2> SUFFICES ASSUME NEW i \in 1 .. k + l, NEW j \in 1 .. k + l, i < j PROVE f[i] # f[j]
      BY <1>6
    <2>1. CASE j <= k
      <3>1. i \in 1 .. k /\ j \in 1 .. k /\ i <= k /\ i # j
        BY <2>1, <1>6
      <3> QED
        BY <3>1, <1>6, <1>n
    <2>2. CASE ~(j <= k) /\ i <= k
      <3>1. i \in 1 .. k /\ j - k \in 1 .. l
        BY <2>2, <1>6
      <3>2. f[i] = N[i] /\ f[j] = U[j - k]
        BY <2>2, <1>6
      <3> QED
        BY <3>1, <3>2, <1>7, <1>8
    <2>3. CASE ~(j <= k) /\ ~(i <= k)
      <3>1. i - k \in 1 .. l /\ j - k \in 1 .. l /\ i - k # j - k
        BY <2>3, <1>6
      <3>2. f[i] = U[i - k] /\ f[j] = U[j - k]
        BY <2>3, <1>6
      <3> QED
        BY <3>1, <3>2, <1>u
    <2> QED
      BY <2>1, <2>2, <2>3
  <1>13. \A i, j \in DOMAIN f : i # j => f[i] # f[j]
    <2> SUFFICES ASSUME NEW i \in 1 .. k + l, NEW j \in 1 .. k + l, i # j PROVE f[i] # f[j]
      BY <1>6
    <2>1. i < j \/ j < i
      OBVIOUS
    <2> QED
      BY <2>1, <1>6, <1>12
  <1>14. ASSUME NEW x \in Live, NEW y \in Live, At(x) < At(y),
                NEW i \in 1 .. k + l, NEW j \in 1 .. k + l, f[i] = x, f[j] = y
         PROVE  i < j
    <2>1. At(x) \in 1 .. Len(asked) /\ asked[At(x)] = x
      BY <1>0, <1>a, <1>14
    <2>2. x \in ToSet(asked)
      BY <1>o, <2>1
    <2>3. i <= k
      <3> SUFFICES ASSUME ~(i <= k) PROVE FALSE
        OBVIOUS
      <3>1. i - k \in 1 .. l /\ f[i] = U[i - k]
        BY <1>6
      <3> QED
        BY <3>1, <1>8, <1>14, <2>2
    <2>4. i \in 1 .. k /\ N[i] = x
      BY <1>6, <1>14, <2>3
    <2>5. CASE j <= k
      <3>1. j \in 1 .. k /\ N[j] = y
        BY <1>6, <1>14, <2>5
      <3>2. p[i] < p[j]
        BY <1>7, <1>14, <2>4, <3>1
      <3> QED
        BY <1>4, <1>6, <2>4, <3>1, <3>2
    <2>6. CASE ~(j <= k)
      BY <1>6, <2>3, <2>6
    <2> QED
      BY <2>5, <2>6
  <1> QED
    BY <1>6, <1>11, <1>13, <1>14 DEF f, At, Precedes

\* A request that is alone after a step was alone before it, with the same table and the
\* same state of its own, unless the step is its own.
LEMMA MovesStay ==
  ASSUME ColumnsTypeOK, NEW r \in Reorder, reorder'[r].stage = "writes", reorder'[r].alone,
         reorder[r].stage = "writes", reorder[r].alone, MovesOf(r), UNCHANGED table,
         reorder'[r].left = reorder[r].left, reorder'[r].asked = reorder[r].asked,
         reorder'[r].nth = reorder[r].nth
  PROVE  MovesOf(r)'
  <1>1. Live' = Live
    BY DEF Live, table
  <1> QED
    BY <1>1 DEF MovesOf, table

\* Another action either leaves the table as it is or takes from the request that it is alone.
LEMMA Untouched ==
  ASSUME ColumnsTypeOK, [ColumnsNext]_columnVars, NEW r \in Reorder,
         reorder'[r].stage = "writes", reorder'[r].alone
  PROVE  \/ CheckVersions(r) \/ WritePosition(r)
         \/ /\ reorder[r].stage = "writes" /\ reorder[r].alone /\ UNCHANGED table
            /\ reorder'[r].left = reorder[r].left /\ reorder'[r].asked = reorder[r].asked
            /\ reorder'[r].nth = reorder[r].nth
  <1> DEFINE Same == /\ reorder[r].stage = "writes" /\ reorder[r].alone /\ UNCHANGED table
                     /\ reorder'[r].left = reorder[r].left /\ reorder'[r].asked = reorder[r].asked
                     /\ reorder'[r].nth = reorder[r].nth
             Goal == CheckVersions(r) \/ WritePosition(r) \/ Same
  <1> SUFFICES Goal
    OBVIOUS
  <1>0. reorder \in [Reorder -> ReorderType]
    BY TypeParts
  <1>d. ~(reorder' = Disturbed(Reorder))
    BY DisturbedIs
  <1>s. UNCHANGED <<table, reorder>> => Same
    OBVIOUS
  <1>1. CASE UNCHANGED <<table, reorder>>
    BY <1>1, <1>s
  <1>2. CASE reorder' = Disturbed(Reorder)
    BY <1>2, <1>d
  <1>3. ASSUME NEW s \in Reorder, NEW q, reorder' = [reorder EXCEPT ![s] = q], q.stage # "writes", UNCHANGED table
        PROVE  Same
    <2>1. s # r
      BY <1>0, <1>3
    <2>2. reorder'[r] = reorder[r]
      BY <1>0, <1>3, <2>1
    <2> QED
      BY <1>3, <2>2
  <1>4. ASSUME NEW s \in Reorder, CheckVersions(s) \/ WritePosition(s) \/ EndReorder(s) \/ OthersReorder(s)
                                  \/ MoveColumn(s) \/ Accepted(s) \/ Refused(s)
        PROVE  Goal
    <2>1. CASE CheckVersions(s)
      <3>1. CASE s = r
        BY <2>1, <3>1
      <3>2. CASE s # r
        <4>1. UNCHANGED table /\ \E q : reorder' = [reorder EXCEPT ![s] = q]
          BY <2>1 DEF CheckVersions
        <4>2. reorder'[r] = reorder[r]
          BY <1>0, <3>2, <4>1
        <4> QED
          BY <4>1, <4>2
      <3> QED
        BY <3>1, <3>2
    <2>2. CASE WritePosition(s)
      <3>1. CASE s = r
        BY <2>2, <3>1
      <3>2. CASE s # r /\ rows[Head(reorder[s].left)].live
        <4>1. reorder' = [Disturbed(Reorder \ {s}) EXCEPT ![s] = Advanced(s)]
          BY <2>2, <3>2 DEF WritePosition
        <4>2. /\ Disturbed(Reorder \ {s}) \in [Reorder -> ReorderType]
              /\ LET q == Disturbed(Reorder \ {s})[r] IN
                 ~(q.stage = "writes" /\ q.alone)
          BY <3>2, DisturbedIs
        <4>3. reorder'[r] = Disturbed(Reorder \ {s})[r]
          BY <3>2, <4>1, <4>2
        <4> QED
          BY <4>2, <4>3
      <3>3. CASE s # r /\ ~rows[Head(reorder[s].left)].live
        <4>1. /\ reorder' = [reorder EXCEPT ![s] = [reorder[s] EXCEPT !.stage = "failed"]]
              /\ UNCHANGED table
          BY <2>2, <3>3 DEF WritePosition, table
        <4>2. reorder'[r] = reorder[r]
          BY <1>0, <3>3, <4>1
        <4> QED
          BY <4>1, <4>2
      <3> QED
        BY <3>1, <3>2, <3>3
    <2>3. CASE EndReorder(s)
      <3>0. reorder[s] \in ReorderType
        BY <1>0
      <3>1. ASSUME NEW l PROVE [[reorder[s] EXCEPT !.stage = "accepted"] EXCEPT !.answer = l].stage = "accepted"
        BY <3>0 DEF ReorderType
      <3>2. /\ UNCHANGED table
            /\ \/ reorder' = [reorder EXCEPT ![s] = [[reorder[s] EXCEPT !.stage = "accepted"] EXCEPT !.answer = Listed]]
               \/ reorder' = [reorder EXCEPT ![s] = [NoReorder EXCEPT !.stage = "done"]]
        BY <2>3 DEF EndReorder, Done
      <3>3. \E q : reorder' = [reorder EXCEPT ![s] = q] /\ q.stage # "writes"
        BY <3>1, <3>2, NoReorderIs
      <3> QED
        BY <1>3, <3>2, <3>3
    <2>4. CASE OthersReorder(s) \/ MoveColumn(s)
      <3>1. UNCHANGED table /\ \E a, v, p : reorder' = [reorder EXCEPT ![s] = Asking(a, v, p)]
        BY <2>4 DEF OthersReorder, MoveColumn
      <3>2. PICK a, v, p : reorder' = [reorder EXCEPT ![s] = Asking(a, v, p)]
        BY <3>1
      <3>3. Asking(a, v, p).stage = "sent"
        BY DEF Asking
      <3> QED
        BY <1>3, <3>1, <3>2, <3>3
    <2>5. CASE Accepted(s) \/ Refused(s)
      <3>1. UNCHANGED table /\ reorder' = [reorder EXCEPT ![s] = [NoReorder EXCEPT !.stage = "done"]]
        BY <2>5 DEF Accepted, Refused, Done
      <3> QED
        BY <1>3, <3>1, NoReorderIs
    <2> QED
      BY <1>4, <2>1, <2>2, <2>3, <2>4, <2>5
  <1>5. CASE ServeRename
    BY <1>1, <1>2, <1>5 DEF ServeRename, table
  <1> QED
    <2>1. CASE OthersRename \/ OthersCreate \/ OthersDelete \/ DeleteColumn \/ InsertColumn
      BY <1>2, <2>1 DEF OthersRename, OthersCreate, OthersDelete, DeleteColumn, Delete, InsertColumn
    <2>2. CASE RenameColumn \/ Renamed \/ CreateColumn \/ Created \/ AskForList \/ ServeList \/ ReceiveList \/ OnEvent
      BY <1>1, <2>2 DEF RenameColumn, Renamed, CreateColumn, Created, AskForList, ServeList, ReceiveList, OnEvent
    <2>3. CASE UNCHANGED columnVars
      BY <1>1, <2>3 DEF columnVars
    <2> QED
      BY <1>4, <1>5, <2>1, <2>2, <2>3 DEF ColumnsNext

\* The check finds every column once, in the order that was asked for.
LEMMA MovesBegin ==
  ASSUME ColumnsTypeOK, NEW r \in Reorder, CheckVersions(r), reorder'[r].stage = "writes"
  PROVE  MovesOf(r)'
  <1> DEFINE asked == reorder[r].asked
             f == FinalOrder(asked)
  <1>0. TableOK /\ reorder \in [Reorder -> ReorderType] /\ reorder[r] \in ReorderType
    BY TypeParts
  <1>1. asked \in Seq(1 .. Columns)
    BY <1>0 DEF ReorderType
  <1>2. /\ f \in Seq(1 .. Columns) /\ ToSet(f) = Live
        /\ \A i, j \in DOMAIN f : i # j => f[i] # f[j]
        /\ \A x, y \in Live : FirstAt(asked, x) < FirstAt(asked, y) => Precedes(f, x, y)
    BY <1>0, <1>1, FinalOrderIs
  <1> HIDE DEF f
  <1>3. reorder'[r].left = f /\ reorder'[r].asked = asked /\ UNCHANGED table
    <2>1. ~Stale(r)
      <3> SUFFICES ASSUME Stale(r) PROVE FALSE
        OBVIOUS
      <3>1. reorder' = [reorder EXCEPT ![r] = [[reorder[r] EXCEPT !.stage = "refused"] EXCEPT !.answer = Listed]]
        BY DEF CheckVersions
      <3>2. reorder'[r].stage = "refused"
        BY <1>0, <3>1 DEF ReorderType
      <3> QED
        BY <3>2
    <2>2. /\ UNCHANGED table
          /\ reorder' = [reorder EXCEPT ![r] = [[reorder[r] EXCEPT !.stage = "writes"] EXCEPT !.left = f]]
      BY <2>1 DEF CheckVersions, f
    <2>3. [[reorder[r] EXCEPT !.stage = "writes"] EXCEPT !.left = f].left = f
          /\ [[reorder[r] EXCEPT !.stage = "writes"] EXCEPT !.left = f].asked = asked
      BY <1>0 DEF ReorderType
    <2> QED
      BY <1>0, <2>2, <2>3
  <1>4. Live' = Live
    BY <1>3 DEF Live, table
  <1> HIDE DEF asked
  <1>5. Live \ ToSet(f) = {}
    BY <1>2
  <1> QED
    BY <1>2, <1>3, <1>4, <1>5 DEF MovesOf

\* The next column goes behind those that were moved.
LEMMA MovesGoOn ==
  ASSUME ColumnsTypeOK, NEW r \in Reorder, WritePosition(r), reorder'[r].stage = "writes",
         reorder[r].stage = "writes", MovesOf(r)
  PROVE  MovesOf(r)'
  <1> DEFINE q == reorder[r]
             asked == q.asked
             left == q.left
             rest == Tail(left)
             c == Head(left)
             n == q.nth
             moved == Live \ ToSet(left)
  <1>0. TableOK /\ reorder \in [Reorder -> ReorderType] /\ q \in ReorderType
    BY TypeParts
  <1>1. /\ asked \in Seq(1 .. Columns) /\ left \in Seq(1 .. Columns) /\ left # <<>> /\ n \in Nat
        /\ c \in 1 .. Columns
    <2>1. asked \in Seq(1 .. Columns) /\ left \in Seq(1 .. Columns) /\ left # <<>> /\ n \in Nat
      BY <1>0 DEF ReorderType, WritePosition
    <2> QED
      BY <2>1, HeadTailProperties
  <1>2. rows[c].live /\ rows' = Positioned(c, n) /\ UNCHANGED created /\ reorder'[r].left = rest
        /\ reorder'[r].asked = asked /\ reorder'[r].nth = n + 1
    <2>1. rows[c].live
      <3> SUFFICES ASSUME ~rows[c].live PROVE FALSE
        OBVIOUS
      <3>1. reorder' = [reorder EXCEPT ![r] = [reorder[r] EXCEPT !.stage = "failed"]]
        BY DEF WritePosition
      <3>2. reorder'[r].stage = "failed"
        BY <1>0, <3>1 DEF ReorderType
      <3> QED
        BY <3>2
    <2>2. /\ rows' = Positioned(c, n) /\ UNCHANGED created
          /\ reorder' = [Disturbed(Reorder \ {r}) EXCEPT ![r] = Advanced(r)]
      BY <2>1 DEF WritePosition
    <2>3. Advanced(r).left = rest /\ Advanced(r).asked = asked /\ Advanced(r).nth = n + 1
      BY <1>0 DEF Advanced, ReorderType
    <2>4. reorder'[r] = Advanced(r)
      BY <2>2, DisturbedIs
    <2> QED
      BY <2>1, <2>2, <2>3, <2>4
  <1>3. /\ DOMAIN left = 1 .. Len(left) /\ Len(left) \in Nat /\ Len(left) > 0 /\ left[1] = c
        /\ DOMAIN rest = 1 .. Len(left) - 1 /\ \A i \in 1 .. Len(left) - 1 : rest[i] = left[i + 1]
    BY <1>1, HeadTailProperties
  <1>m. /\ ToSet(left) \subseteq Live /\ \A i, j \in DOMAIN left : i # j => left[i] # left[j]
        /\ \A d \in moved : rows[d].position < n
        /\ \A x, y \in Live : FirstAt(asked, x) < FirstAt(asked, y) =>
              /\ x \in moved /\ y \in moved => rows[x].position < rows[y].position
              /\ x \in ToSet(left) => y \in ToSet(left) /\ Precedes(left, x, y)
    BY DEF MovesOf
  <1> HIDE DEF rest, left, c, n, asked, q
  <1>p. /\ \A d \in 1 .. Columns : d # c => rows'[d] = rows[d]
        /\ rows'[c].live /\ rows'[c].position = n
    BY <1>0, <1>1, <1>2, PositionedIs
  <1>4. Live' = Live
    <2>1. \A d \in 1 .. created : d \in 1 .. Columns
      BY <1>0, LiveIs, ColumnConstants
    <2>2. \A d \in 1 .. created : rows'[d].live = rows[d].live \/ (d = c /\ rows[d].live /\ rows'[d].live)
      BY <1>2, <1>p, <2>1
    <2>3. UNCHANGED created
      BY <1>2
    <2> QED
      BY <2>2, <2>3 DEF Live
  <1>5. c \in ToSet(left) /\ c \in Live /\ ToSet(rest) = ToSet(left) \ {c}
    <2>1. c \in ToSet(left)
      BY <1>3 DEF ToSet
    <2>2. \A i \in 1 .. Len(left) - 1 : i + 1 \in DOMAIN left /\ i + 1 # 1
      BY <1>3
    <2>3. \A i \in DOMAIN rest : rest[i] \in ToSet(left) /\ rest[i] # c
      <3> SUFFICES ASSUME NEW i \in DOMAIN rest PROVE rest[i] \in ToSet(left) /\ rest[i] # c
        OBVIOUS
      <3>1. i \in 1 .. Len(left) - 1 /\ rest[i] = left[i + 1] /\ 1 \in DOMAIN left
        BY <1>3
      <3>2. i + 1 \in DOMAIN left /\ i + 1 # 1
        BY <2>2, <3>1
      <3>3. left[i + 1] # left[1]
        BY <1>m, <3>1, <3>2
      <3> QED
        BY <1>3, <3>1, <3>2, <3>3 DEF ToSet
    <2>4. \A i \in DOMAIN left : left[i] # c => i - 1 \in DOMAIN rest /\ rest[i - 1] = left[i]
      <3> SUFFICES ASSUME NEW i \in DOMAIN left, left[i] # c
                   PROVE  i - 1 \in DOMAIN rest /\ rest[i - 1] = left[i]
        OBVIOUS
      <3>1. i - 1 \in 1 .. Len(left) - 1 /\ i - 1 + 1 = i
        BY <1>3
      <3> QED
        BY <1>3, <3>1
    <2> QED
      BY <1>m, <2>1, <2>3, <2>4 DEF ToSet
  <1>6. \A i, j \in DOMAIN rest : i # j => rest[i] # rest[j]
    <2> SUFFICES ASSUME NEW i \in DOMAIN rest, NEW j \in DOMAIN rest, i # j PROVE rest[i] # rest[j]
      OBVIOUS
    <2>1. i + 1 \in DOMAIN left /\ j + 1 \in DOMAIN left /\ i + 1 # j + 1
      BY <1>3
    <2> QED
      BY <1>3, <1>m, <2>1
  <1>7. Live \ ToSet(rest) = moved \cup {c}
    BY <1>5
  <1>8. \A d \in moved : d # c /\ d \in 1 .. Columns
    BY <1>0, <1>5, LiveIs
  <1>9. \A d \in moved : rows'[d].position = rows[d].position /\ rows[d].position < n /\ rows[d].position \in Int
    BY <1>0, <1>8, <1>p, <1>m, LiveIs, RowIs
  <1>10. \A d \in Live \ ToSet(rest) : rows'[d].position < n + 1
    <2> SUFFICES ASSUME NEW d \in moved \cup {c} PROVE rows'[d].position < n + 1
      BY <1>7
    <2> QED
      <3>1. CASE d = c
        BY <1>1, <1>p, <3>1
      <3>2. CASE d \in moved
        <4> DEFINE a == rows'[d].position
        <4>1. a \in Int /\ a < n
          BY <1>9, <3>2
        <4> HIDE DEF a
        <4>2. a < n + 1
          BY <1>1, <4>1
        <4> QED
          BY <4>2 DEF a
      <3> QED
        BY <3>1, <3>2
  <1>11. ASSUME NEW x \in Live, NEW y \in Live, FirstAt(asked, x) < FirstAt(asked, y)
         PROVE  /\ x \in Live \ ToSet(rest) /\ y \in Live \ ToSet(rest) => rows'[x].position < rows'[y].position
                /\ x \in ToSet(rest) => y \in ToSet(rest) /\ Precedes(rest, x, y)
    <2>0. x # y
      <3>1. FirstAt(asked, x) \in Nat
        BY <1>1, FirstAtIs
      <3> QED
        BY <1>11, <3>1
    <2>1. /\ x \in moved /\ y \in moved => rows[x].position < rows[y].position
          /\ x \in ToSet(left) => y \in ToSet(left) /\ Precedes(left, x, y)
      BY <1>m, <1>11
    <2>2. ASSUME x \in Live \ ToSet(rest), y \in Live \ ToSet(rest) PROVE rows'[x].position < rows'[y].position
      <3>1. x \in moved \cup {c} /\ y \in moved \cup {c}
        BY <1>7, <2>2
      <3>2. x # c
        <4> SUFFICES ASSUME x = c PROVE FALSE
          OBVIOUS
        <4>1. y \in ToSet(left)
          BY <1>5, <2>1
        <4> QED
          BY <4>1, <2>0, <3>1
      <3>3. x \in moved
        BY <3>1, <3>2
      <3>4. CASE y = c
        BY <3>3, <3>4, <1>9, <1>p
      <3>5. CASE y # c
        BY <3>1, <3>3, <3>5, <2>1, <1>9
      <3> QED
        BY <3>4, <3>5
    <2>3. ASSUME x \in ToSet(rest) PROVE y \in ToSet(rest) /\ Precedes(rest, x, y)
      <3>1. x \in ToSet(left) /\ y \in ToSet(left) /\ Precedes(left, x, y)
        BY <1>5, <2>1, <2>3
      <3>2. y # c
        <4> SUFFICES ASSUME y = c PROVE FALSE
          OBVIOUS
        <4>1. PICK i \in DOMAIN left : left[i] = x
          BY <3>1 DEF ToSet
        <4>2. i < 1
          BY <1>3, <3>1, <4>1 DEF Precedes
        <4> QED
          BY <1>3, <4>2
      <3>3. Precedes(rest, x, y)
        <4> SUFFICES ASSUME NEW i \in DOMAIN rest, NEW j \in DOMAIN rest, rest[i] = x, rest[j] = y PROVE i < j
          BY DEF Precedes
        <4>1. i + 1 \in DOMAIN left /\ j + 1 \in DOMAIN left /\ left[i + 1] = x /\ left[j + 1] = y
          BY <1>3
        <4>2. i + 1 < j + 1
          BY <3>1, <4>1 DEF Precedes
        <4> QED
          BY <1>3, <4>2
      <3> QED
        BY <1>5, <3>1, <3>2, <3>3
    <2> QED
      BY <2>2, <2>3
  <1>12. ToSet(rest) \subseteq Live
    BY <1>5, <1>m
  <1>13. /\ reorder'[r].left = rest /\ reorder'[r].asked = asked /\ reorder'[r].nth = n + 1
    BY <1>2
  <1> QED
    BY <1>4, <1>6, <1>10, <1>11, <1>12, <1>13 DEF MovesOf

LEMMA InitMoves == ColumnsInit => MoveInv
  BY NoReorderIs DEF ColumnsInit, MoveInv

LEMMA NextMoves ==
  ASSUME ColumnsTypeOK, MoveInv, [ColumnsNext]_columnVars
  PROVE  MoveInv'
  <1> SUFFICES ASSUME NEW r \in Reorder, reorder'[r].stage = "writes", reorder'[r].alone
               PROVE  MovesOf(r)'
    BY DEF MoveInv
  <1>1. CASE CheckVersions(r)
    BY <1>1, MovesBegin
  <1>2. CASE WritePosition(r)
    <2>1. reorder[r].stage = "writes" /\ reorder \in [Reorder -> ReorderType]
      BY <1>2, TypeParts DEF WritePosition
    <2>2. reorder[r].alone
      <3> DEFINE c == Head(reorder[r].left)
      <3>1. CASE rows[c].live
        <4>1. reorder' = [Disturbed(Reorder \ {r}) EXCEPT ![r] = Advanced(r)]
          BY <1>2, <3>1 DEF WritePosition
        <4>2. reorder'[r] = Advanced(r)
          BY <4>1, DisturbedIs
        <4>3. reorder[r] \in ReorderType
          BY <2>1
        <4>4. Advanced(r).alone = reorder[r].alone
          BY <4>3 DEF Advanced, ReorderType
        <4> QED
          BY <4>2, <4>4
      <3>2. CASE ~rows[c].live
        <4>1. reorder' = [reorder EXCEPT ![r] = [reorder[r] EXCEPT !.stage = "failed"]]
          BY <1>2, <3>2 DEF WritePosition
        <4>2. reorder[r] \in ReorderType
          BY <2>1
        <4>3. reorder'[r].stage = "failed"
          BY <2>1, <4>1, <4>2 DEF ReorderType
        <4> QED
          BY <4>3
      <3> QED
        BY <3>1, <3>2
    <2>3. MovesOf(r)
      BY <2>1, <2>2 DEF MoveInv
    <2> QED
      BY <1>2, <2>1, <2>3, MovesGoOn
  <1>3. CASE ~CheckVersions(r) /\ ~WritePosition(r)
    <2>1. /\ reorder[r].stage = "writes" /\ reorder[r].alone /\ UNCHANGED table
          /\ reorder'[r].left = reorder[r].left /\ reorder'[r].asked = reorder[r].asked
          /\ reorder'[r].nth = reorder[r].nth
      BY <1>3, Untouched
    <2>2. MovesOf(r)
      BY <2>1 DEF MoveInv
    <2> QED
      BY <2>1, <2>2, MovesStay
  <1> QED
    BY <1>1, <1>2, <1>3

\* How a request leaves its writes.
LEMMA WritesEnd ==
  ASSUME ColumnsTypeOK, [ColumnsNext]_columnVars, NEW r \in Reorder,
         reorder[r].stage = "writes", reorder'[r].stage # "writes"
  PROVE  \/ EndReorder(r)
         \/ WritePosition(r) /\ ~rows[Head(reorder[r].left)].live
  <1>0. reorder \in [Reorder -> ReorderType] /\ reorder[r] \in ReorderType
    BY TypeParts
  <1>d. \A rs : reorder' # Disturbed(rs)
    BY DisturbedIs
  <1>e. ASSUME NEW s \in Reorder, NEW q, reorder' = [reorder EXCEPT ![s] = q] PROVE s = r
    BY <1>0, <1>e
  <1>1. reorder' # reorder
    OBVIOUS
  <1>2. ASSUME NEW s \in Reorder, CheckVersions(s) \/ WritePosition(s) \/ EndReorder(s) \/ OthersReorder(s)
                                  \/ MoveColumn(s) \/ Accepted(s) \/ Refused(s)
        PROVE  EndReorder(r) \/ (WritePosition(r) /\ ~rows[Head(reorder[r].left)].live)
    <2>1. CASE CheckVersions(s) \/ OthersReorder(s) \/ MoveColumn(s) \/ Accepted(s) \/ Refused(s)
      <3>1. reorder[s].stage # "writes"
        BY <2>1 DEF CheckVersions, OthersReorder, MoveColumn, Accepted, Refused
      <3>2. \E q : reorder' = [reorder EXCEPT ![s] = q]
        BY <2>1 DEF CheckVersions, OthersReorder, MoveColumn, Accepted, Refused, Done
      <3> QED
        BY <1>e, <3>1, <3>2
    <2>2. CASE EndReorder(s)
      <3>1. \E q : reorder' = [reorder EXCEPT ![s] = q]
        BY <2>2 DEF EndReorder, Done
      <3> QED
        BY <1>e, <2>2, <3>1
    <2>3. CASE WritePosition(s) /\ ~rows[Head(reorder[s].left)].live
      <3>1. \E q : reorder' = [reorder EXCEPT ![s] = q]
        BY <2>3 DEF WritePosition
      <3> QED
        BY <1>e, <2>3, <3>1
    <2>4. CASE WritePosition(s) /\ rows[Head(reorder[s].left)].live
      <3>1. reorder' = [Disturbed(Reorder \ {s}) EXCEPT ![s] = Advanced(s)] /\ reorder[s].stage = "writes"
        BY <2>4 DEF WritePosition
      <3>2. /\ Disturbed(Reorder \ {s}) \in [Reorder -> ReorderType]
            /\ Disturbed(Reorder \ {s})[r].stage = "writes"
        BY DisturbedIs
      <3>3. reorder[s] \in ReorderType
        BY <1>0
      <3>4. Advanced(s).stage = "writes"
        BY <3>1, <3>3 DEF Advanced, ReorderType
      <3> QED
        BY <3>1, <3>2, <3>4
    <2> QED
      BY <1>2, <2>1, <2>2, <2>3, <2>4
  <1>3. CASE OthersRename \/ OthersCreate \/ OthersDelete \/ DeleteColumn \/ InsertColumn \/ ServeRename
    BY <1>1, <1>d, <1>3 DEF OthersRename, OthersCreate, OthersDelete, DeleteColumn, Delete, InsertColumn, ServeRename
  <1>4. CASE RenameColumn \/ Renamed \/ CreateColumn \/ Created \/ AskForList \/ ServeList \/ ReceiveList \/ OnEvent
    BY <1>1, <1>4 DEF RenameColumn, Renamed, CreateColumn, Created, AskForList, ServeList, ReceiveList, OnEvent
  <1>5. CASE UNCHANGED columnVars
    BY <1>1, <1>5 DEF columnVars
  <1> QED
    BY <1>2, <1>3, <1>4, <1>5 DEF ColumnsNext

\* At the end of the writes the positions are in the order that was asked for, and so is the
\* list.
LEMMA EndsInOrder ==
  ASSUME ColumnsTypeOK, NEW r \in Reorder, EndReorder(r), MovesOf(r), NEW x \in Live, NEW y \in Live,
         FirstAt(reorder[r].asked, x) < FirstAt(reorder[r].asked, y)
  PROVE  FirstAt(Ids(Listed), x) < FirstAt(Ids(Listed), y)
  <1> DEFINE k == Cardinality(Live)
             s == InTable
  <1>0. TableOK
    BY TypeParts
  <1>1. /\ k \in Nat /\ s \in [1 .. k -> Live]
        /\ \A c \in Live : \E n \in 1 .. k : s[n] = c
        /\ \A m, n \in 1 .. k : m < n <=> Before(Row(s[m]), Row(s[n]))
        /\ Ids(Listed) = s
    BY <1>0, ListedIs
  <1>2. rows[x].position < rows[y].position
    <2>1. reorder[r].left = <<>>
      BY DEF EndReorder
    <2>2. ToSet(reorder[r].left) = {}
      BY <2>1 DEF ToSet
    <2> QED
      BY <2>2 DEF MovesOf
  <1>3. Before(Row(x), Row(y))
    <2>1. Row(x).position = rows[x].position /\ Row(y).position = rows[y].position
      BY <1>0, LiveIs, RowIs
    <2> QED
      BY <1>2, <2>1 DEF Before
  <1> HIDE DEF s, k
  <1>4. PICK m \in 1 .. k : s[m] = x
    BY <1>1
  <1>5. PICK n \in 1 .. k : s[n] = y
    BY <1>1
  <1>6. m < n
    BY <1>1, <1>3, <1>4, <1>5
  <1>7. s \in Seq(Live) /\ Len(s) = k
    BY <1>1
  <1>8. FirstAt(s, x) <= m
    BY <1>4, <1>7, FirstAtIs
  <1>9. FirstAt(s, y) = n
    <2>1. \A j \in 1 .. k : j # n => s[j] # y
      <3> SUFFICES ASSUME NEW j \in 1 .. k, j # n, s[j] = y PROVE FALSE
        OBVIOUS
      <3>1. j < n \/ n < j
        BY <1>1
      <3>2. Before(Row(y), Row(y))
        BY <1>1, <1>5, <3>1
      <3>3. Row(y).position \in Int /\ Row(y).id \in Nat
        <4>1. Row(y).position = rows[y].position /\ Row(y).id = y /\ rows[y].position \in Int /\ y \in Nat
          BY <1>0, LiveIs, RowIs
        <4> QED
          BY <4>1
      <3> QED
        BY <3>2, <3>3 DEF Before
    <2>2. \A j \in 1 .. n - 1 : s[j] # y
      BY <1>1, <2>1
    <2> QED
      BY <1>5, <1>7, <2>2, FirstAtIs
  <1>10. FirstAt(s, x) \in Nat
    BY <1>7, FirstAtIs
  <1> QED
    BY <1>1, <1>6, <1>8, <1>9, <1>10

\* ReorderColumns writes one position after the other and nothing locks the table: a reorder
\* that ends with no other write since its check leaves the columns in the order that was
\* asked for, those that it did not name behind them.
THEOREM ReordersAreAsAsked == ColumnsSpec => ReorderIsAsAsked
  <1> DEFINE A == \A r \in Reorder :
          reorder[r].stage = "writes" /\ reorder'[r].stage # "writes" /\ reorder[r].alone =>
              \A x, y \in Live :
                  FirstAt(reorder[r].asked, x) < FirstAt(reorder[r].asked, y)
                      => FirstAt(Ids(Listed), x) < FirstAt(Ids(Listed), y)
  <1>1. ColumnsInit => ColumnsTypeOK /\ MoveInv
    BY InitColumns, InitMoves
  <1>2. ColumnsTypeOK /\ MoveInv /\ [ColumnsNext]_columnVars => (ColumnsTypeOK /\ MoveInv)' /\ A
    <2> SUFFICES ASSUME ColumnsTypeOK, MoveInv, [ColumnsNext]_columnVars
                 PROVE  (ColumnsTypeOK /\ MoveInv)' /\ A
      OBVIOUS
    <2>1. ASSUME NEW r \in Reorder, reorder[r].stage = "writes", reorder'[r].stage # "writes", reorder[r].alone,
                 NEW x \in Live, NEW y \in Live, FirstAt(reorder[r].asked, x) < FirstAt(reorder[r].asked, y)
          PROVE  FirstAt(Ids(Listed), x) < FirstAt(Ids(Listed), y)
      <3>1. MovesOf(r)
        BY <2>1 DEF MoveInv
      <3>2. ~(WritePosition(r) /\ ~rows[Head(reorder[r].left)].live)
        <4> SUFFICES ASSUME WritePosition(r) PROVE rows[Head(reorder[r].left)].live
          OBVIOUS
        <4> DEFINE left == reorder[r].left
        <4>1. left \in Seq(1 .. Columns) /\ left # <<>>
          <5>1. reorder[r] \in ReorderType
            BY TypeParts
          <5> QED
            BY <5>1 DEF ReorderType, WritePosition
        <4>2. Head(left) \in ToSet(left)
          BY <4>1 DEF ToSet
        <4>3. Head(left) \in Live
          BY <3>1, <4>2 DEF MovesOf
        <4> QED
          BY <4>3, TypeParts, LiveIs
      <3>3. EndReorder(r)
        BY <2>1, <3>2, WritesEnd
      <3> QED
        BY <2>1, <3>1, <3>3, EndsInOrder
    <2> QED
      BY <2>1, NextColumnTypes, NextMoves
  <1> QED
    BY <1>1, <1>2, PTL DEF ColumnsSpec, ReorderIsAsAsked

=============================================================================
